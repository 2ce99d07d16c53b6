---------------------------- MODULE HopSnapshots -----------------------------
(***************************************************************************)
(* The planner over every snapshot that a set of row kinds can make up,    *)
(* built one row after the other as a survey hears its cells.              *)
(***************************************************************************)
EXTENDS HopPlanner

CONSTANT RowKinds  (* For each key the rows the registry may hold for it.  *)

VARIABLE cells

Keys == DOMAIN RowKinds

ASSUME RowKindsAssumption ==
  Keys \subseteq RowKey /\ \A k \in Keys : RowKinds[k] \subseteq Row

Init == cells = [k \in Keys |-> NoCell]

(* A cell is heard, or what is known of it changes.                        *)
Hear(k) == \E r \in RowKinds[k] : r # cells[k] /\ cells' = [cells EXCEPT ![k] = r]

Next == \E k \in Keys : Hear(k)

Spec == Init /\ [][Next]_cells

-----------------------------------------------------------------------------
Elements(seq) == {seq[i] : i \in 1..Len(seq)}
All == Cardinality(Keys) + Cardinality(HopKey)

WalkList == pick_full_walk_targets(cells, All)
SeedList(fullWalk) == pick_seed_targets(cells, All, fullWalk)
HeardUsable == {k \in Heard(cells) : Usable(k)}

(* Every comparator gives one order to the candidates, however many        *)
(* criteria tie: std::sort needs a strict weak order, and the survey needs *)
(* the same list for the same snapshot.                                    *)
StrictOrder(S, Better(_, _)) ==
  \A a, b, c \in S :
    /\ ~Better(a, a)
    /\ a # b => Better(a, b) # Better(b, a)
    /\ Better(a, b) /\ Better(b, c) => Better(a, c)
RankingIsStrictOrder ==
  LET on == FullOn(cells)
  IN  /\ StrictOrder(HopCandidates(cells), LAMBDA a, b : hop_target_better(a, b, on, FALSE))
      /\ StrictOrder(WalkCandidates(cells), LAMBDA a, b : hop_target_better(a, b, on, TRUE))
      /\ StrictOrder(SeedCandidates(cells, TRUE), LAMBDA a, b : hop_seed_better(a, b, on, TRUE))

(* Full walk misses no heard cell that has not served.                     *)
WalkCoversUncamped ==
  {k \in HeardUsable : ~cells[k].ever} \subseteq {KeyOfTarget(t) : t \in Elements(WalkList)}

(* However many rows offer a cell and in whatever order, its target is     *)
(* FULL exactly when its row is, and has the strongest level offered.      *)
WalkTargetIsStrongest ==
  \A t \in Elements(WalkList) :
    LET k == KeyOfTarget(t)
        offered == {o \in Elements(WalkOffers(cells)) : KeyOfTarget(o) = k /\ ~o.camped}
    IN  /\ k \in Heard(cells) /\ ~cells[k].ever
             => (t.full <=> cell_is_full_lte(cells, k))
        /\ \A o \in offered : o.rsrp <= t.rsrp

(* While an FDD carrier without a FULL cell is on offer, the full walk     *)
(* goes to such a carrier first, however strong the others are.            *)
NewCarrierFirst ==
  LET fresh(t) == IsFdd(t) /\ full_count(cells, t.earfcn) = 0
  IN  (\E t \in Elements(WalkList) : fresh(t)) => fresh(WalkList[1])

(* Whatever a scan seeds in a full walk is a target of the full walk too:  *)
(* the two selections do not disagree about who is left to visit.          *)
SeedsAreWalkTargets ==
  {KeyOfTarget(t) : t \in Elements(SeedList(TRUE))}
    \subseteq {KeyOfTarget(t) : t \in Elements(WalkList)}
=============================================================================
