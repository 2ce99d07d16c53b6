--------------------------- MODULE HopSnapshotsMC ----------------------------
(***************************************************************************)
(* Row kinds for HopSnapshots: cells on two FDD carriers and a TDD one,    *)
(* with and without identity, listing each other.                          *)
(***************************************************************************)
EXTENDS HopSnapshots, TLC

K(e, p) == [earfcn |-> e, pci |-> p]
Bare(r) == [NoCell EXCEPT !.heard = TRUE, !.rsrp = r]
Known(r, p, ever) == [Bare(r) EXCEPT !.ident = TRUE, !.plmn = p, !.ever = ever]
Operator(r, p) == [Bare(r) EXCEPT !.plmn = p]
Listing(row, inter, meas) == [row EXCEPT !.inter = inter, !.meas = meas]
M(p, r) == [pci |-> p, rsrp |-> r]

A == K(1, 1)
B == K(1, 2)
C == K(2, 1)
D == K(3, 1)
W == K(2, 0)
G == K(4, 1)

(* A: the camped cell of operator 1, listing B and C.  B: a sibling on its *)
(* carrier.  C: a cell of operator 2 on another carrier.  D: TDD.  W: a    *)
(* row of C's carrier without a PCI.  G: a carrier of no band, named by A.  *)
Kinds ==
  (A :> {Bare(3), Known(3, 1, FALSE), Listing(Known(3, 1, TRUE), {C, D, G}, {M(2, 2)}),
         [Known(3, 1, TRUE) EXCEPT !.serving = TRUE, !.bare = {3}, !.intra = {2}]})
  @@ (B :> {Bare(0), Bare(2), Operator(4, 1), Known(2, 1, FALSE),
            Listing(Known(2, 2, TRUE), {C}, {M(1, 4)})})
  @@ (C :> {Bare(0), Operator(2, 1), Known(2, 2, FALSE), Known(2, 2, TRUE),
            Listing(Bare(4), {A, B}, {})})
  @@ (D :> {Bare(4), Known(4, 1, FALSE), Listing(Known(4, 2, TRUE), {A, C}, {})})
  @@ (W :> {Operator(0, 2), Listing(Operator(0, 2), {D}, {})})
  @@ (G :> {Bare(4)})
=============================================================================
