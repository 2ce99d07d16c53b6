----------------------------- MODULE SurveyHopMC -----------------------------
(***************************************************************************)
(* Worlds for SurveyHop: cells on two FDD carriers and a TDD one.          *)
(***************************************************************************)
EXTENDS SurveyHop, TLC

K(e, p) == [earfcn |-> e, pci |-> p]
Bare(r) == [NoCell EXCEPT !.heard = TRUE, !.rsrp = r]
Known(r, p) == [Bare(r) EXCEPT !.ident = TRUE, !.plmn = p]

A == K(1, 1)
B == K(2, 1)
C == K(3, 1)
D == K(3, 2)
E == K(2, 2)

(* A: the first cell, whose lists name B and the empty carrier 4 once it   *)
(* served.  B: never measured, behind all others.  C and D: two cells of a *)
(* TDD carrier, enough to ban it, D being FULL from a CGI report.  E: too  *)
(* weak, or strong.  B, D and E never answer.                              *)
Air ==
  (A :> {[Bare(4) EXCEPT !.inter = {B}, !.bare = {4}]})
  @@ (B :> {Bare(0)})
  @@ (C :> {Bare(5)}) @@ (D :> {Known(4, 1)}) @@ (E :> {Bare(2), Bare(5)})
AirReport == [k \in DOMAIN Air |-> IF k = A THEN {B, C} ELSE {}]
AirReadable == {A, C}
AirRefused == {}

BothModes == BOOLEAN
=============================================================================
