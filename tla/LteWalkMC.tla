------------------------------ MODULE LteWalkMC ------------------------------
(***************************************************************************)
(* Worlds for LteWalk: cells on two FDD carriers and a TDD one.            *)
(***************************************************************************)
EXTENDS LteWalk, TLC

K(e, p) == [earfcn |-> e, pci |-> p]
Bare(r) == [NoCell EXCEPT !.heard = TRUE, !.rsrp = r]
Known(r, p) == [Bare(r) EXCEPT !.ident = TRUE, !.plmn = p]

A == K(1, 1)
B == K(1, 2)
C == K(2, 1)
D == K(3, 1)

(* A is heard as the camped cell, with C and B in its lists, or alone; B   *)
(* is weak, or FULL from a CGI report; C cannot be read, strong or not     *)
(* measured; D is TDD and lists A.                                         *)
Air ==
  (A :> {[Known(3, 1) EXCEPT !.ever = TRUE, !.inter = {C}, !.meas = {[pci |-> 2, rsrp |-> 3]}],
         Bare(2)})
  @@ (B :> {Bare(2), Known(2, 1)})
  @@ (C :> {Bare(0), Bare(4)})
  @@ (D :> {[Bare(2) EXCEPT !.inter = {A}]})

NoneOrOne == {{}, {B}}
SomeReadable == A :> 1 @@ B :> 1 @@ D :> 2
BothModes == BOOLEAN
=============================================================================
