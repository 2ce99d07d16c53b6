----------------------------- MODULE HopPlanner ------------------------------
(***************************************************************************)
(* The target selection of include/observer/lte/LteHopPlanner.h: pure      *)
(* functions from a snapshot of the registry to the ranked list of cells   *)
(* that the survey should lock next.                                       *)
(*                                                                         *)
(* A snapshot is a function from keys to rows.  RSRP is a level: 0 is the  *)
(* -160 of a cell without a measurement, 1 the -155 of a cell that SIB5    *)
(* names, 2 and more are measured values (above -154 dBm).                 *)
(***************************************************************************)
EXTENDS Naturals, FiniteSets, Sequences

CONSTANTS
  Earfcns,  (* LTE carrier numbers heard or named.                         *)
  Fdd,      (* Those of FDD bands; the others are TDD.                     *)
  Ghosts,   (* Those that no commercial band contains.                     *)
  Pcis,     (* PCI values 1..503.                                          *)
  Plmns     (* Operator codes.                                             *)

ASSUME PlannerAssumption ==
  /\ Earfcns \subseteq Nat \ {0} /\ IsFiniteSet(Earfcns)
  /\ Pcis \subseteq Nat \ {0} /\ IsFiniteSet(Pcis)
  /\ Plmns \subseteq Nat \ {0}
  /\ Fdd \subseteq Earfcns /\ Ghosts \subseteq Earfcns

Unmeasured == 0
Seeded == 1
hop_rsrp_measured(rsrp) == rsrp > Seeded

HopKey == [earfcn : Earfcns, pci : Pcis]
RowKey == [earfcn : Earfcns, pci : Pcis \cup {0}]

(* A row of the snapshot: its identity (ECI and TAC, operator), whether it *)
(* served, its level and the neighbours it lists.                          *)
NoCell == [heard |-> FALSE, ident |-> FALSE, plmn |-> 0, ever |-> FALSE,
           serving |-> FALSE, rsrp |-> Unmeasured, inter |-> {}, bare |-> {},
           meas |-> {}, intra |-> {}]

(* Measured neighbours, one entry for each PCI (merge_meas_neighbors).     *)
MeasList == {list \in SUBSET [pci : Pcis, rsrp : Nat] :
               \A m, n \in list : m.pci = n.pci => m = n}

Row == [heard : BOOLEAN, ident : BOOLEAN, plmn : Plmns \cup {0}, ever : BOOLEAN,
        serving : BOOLEAN, rsrp : Nat, inter : SUBSET HopKey, bare : SUBSET Earfcns,
        meas : MeasList, intra : SUBSET Pcis]

hop_earfcn_ok(e) == e \notin Ghosts

Heard(cells) == {k \in DOMAIN cells : cells[k].heard}

cell_is_full_lte(cells, k) ==
  cells[k].heard /\ cells[k].ident /\ cells[k].plmn # 0 /\ k.pci # 0

FullKeys(cells) == {k \in DOMAIN cells : cell_is_full_lte(cells, k)}

full_count(cells, e) == Cardinality({k \in FullKeys(cells) : k.earfcn = e})

(* Rows that served and whose operator is known.                           *)
CampedRows(cells) == {k \in Heard(cells) : cells[k].ever /\ cells[k].plmn # 0}

camped_count_by_plmn(cells, p) ==
  Cardinality({k \in CampedRows(cells) : cells[k].plmn = p})

MaxOf(S) == IF S = {} THEN 0 ELSE CHOOSE m \in S : \A n \in S : n <= m

camped_plmn_n_by_earfcn(cells, e) ==
  MaxOf({camped_count_by_plmn(cells, cells[k].plmn) :
           k \in {j \in CampedRows(cells) : j.earfcn = e}})

full_walk_plmn_camp_n(cells, e, p) ==
  MaxOf({camped_plmn_n_by_earfcn(cells, e),
         IF p = 0 THEN 0 ELSE camped_count_by_plmn(cells, p)})

-----------------------------------------------------------------------------
(* Ranking.                                                                *)

Target(k, rsrp, plmn, full, camped) ==
  [earfcn |-> k.earfcn, pci |-> k.pci, rsrp |-> rsrp, plmn |-> plmn,
   full |-> full, camped |-> camped, camps |-> 0]

KeyOfTarget(t) == [earfcn |-> t.earfcn, pci |-> t.pci]

IsFdd(t) == t.earfcn \in Fdd

(* The chain of criteria of hop_target_better: a pair (p, q) decides when  *)
(* p and q differ, otherwise the next criterion is asked.  fullOn[e] is    *)
(* the number of FULL rows on the carrier e.  (Mutant: ties by level are   *)
(* not broken.)                                                            *)
BySignalTied(a, b, fullOn, fullWalk) ==
  LET am == hop_rsrp_measured(a.rsrp)
      bm == hop_rsrp_measured(b.rsrp)
  IN  IF am # bm THEN am
      ELSE IF fullOn[a.earfcn] # fullOn[b.earfcn] THEN fullOn[a.earfcn] < fullOn[b.earfcn]
      ELSE a.rsrp >= b.rsrp
BySignal(a, b, fullOn, fullWalk) ==
  LET am == hop_rsrp_measured(a.rsrp)
      bm == hop_rsrp_measured(b.rsrp)
  IN  IF am # bm THEN am
      ELSE IF fullOn[a.earfcn] # fullOn[b.earfcn] THEN fullOn[a.earfcn] < fullOn[b.earfcn]
      ELSE IF fullWalk /\ a.full # b.full THEN ~a.full
      ELSE IF a.rsrp # b.rsrp THEN a.rsrp > b.rsrp
      ELSE IF a.earfcn # b.earfcn THEN a.earfcn < b.earfcn
      ELSE a.pci < b.pci

(* Mutant: the operator's camp count is asked before the carrier.          *)
BetterCampsFirst(a, b, fullOn, fullWalk) ==
  LET an == fullOn[a.earfcn] = 0
      bn == fullOn[b.earfcn] = 0
  IN  IF IsFdd(a) # IsFdd(b) THEN IsFdd(a)
      ELSE IF fullWalk /\ a.camps # b.camps THEN a.camps < b.camps
      ELSE IF fullWalk /\ an # bn THEN an
      ELSE BySignal(a, b, fullOn, fullWalk)
hop_target_better(a, b, fullOn, fullWalk) ==
  LET an == fullOn[a.earfcn] = 0
      bn == fullOn[b.earfcn] = 0
  IN  IF IsFdd(a) # IsFdd(b) THEN IsFdd(a)
      ELSE IF fullWalk /\ an # bn THEN an
      ELSE IF fullWalk /\ a.camps # b.camps THEN a.camps < b.camps
      ELSE BySignal(a, b, fullOn, fullWalk)

hop_seed_better(a, b, fullOn, fullWalk) ==
  LET an == fullOn[a.earfcn] = 0
      bn == fullOn[b.earfcn] = 0
  IN  IF IsFdd(a) # IsFdd(b) THEN IsFdd(a)
      ELSE IF fullWalk /\ an # bn THEN an
      ELSE IF a.full # b.full THEN a.full
      ELSE hop_target_better(a, b, fullOn, fullWalk)

FullOn(cells) == [e \in Earfcns |-> full_count(cells, e)]

(* std::sort by a strict order: as many elements come before one as are    *)
(* better.                                                                 *)
Sorted(S, Better(_, _)) ==
  LET place == [t \in S |-> Cardinality({u \in S : Better(u, t)})]
  IN  [i \in 1..Cardinality(S) |-> CHOOSE t \in S : place[t] = i - 1]

(* The best maxN of a set of targets, best first.                          *)
Ranked(targets, maxN, Better(_, _)) ==
  LET seq == Sorted(targets, Better)
  IN  SubSeq(seq, 1, IF Len(seq) <= maxN THEN Len(seq) ELSE maxN)

-----------------------------------------------------------------------------
(* Offers: what the rows of a snapshot say about cells, in the order in    *)
(* which the code meets them (rows by key, then the lists of each row).    *)

KeyBefore(a, b) == a.earfcn < b.earfcn \/ (a.earfcn = b.earfcn /\ a.pci < b.pci)

KeysInOrder(S) == Sorted(S, KeyBefore)

(* The lists of the rows, one after the other.                             *)
Joined(lists) ==
  LET upTo[i \in 0..Len(lists)] == IF i = 0 THEN <<>> ELSE upTo[i - 1] \o lists[i]
  IN  upTo[Len(lists)]

Usable(k) == hop_earfcn_ok(k.earfcn) /\ k.pci # 0

OwnOffer(cells, k) ==
  <<Target(k, cells[k].rsrp, cells[k].plmn, cell_is_full_lte(cells, k), cells[k].ever)>>

InterOffers(cells, k) ==
  LET named == KeysInOrder({j \in cells[k].inter : Usable(j)})
  IN  [i \in 1..Len(named) |-> Target(named[i], Seeded, cells[k].plmn, FALSE, FALSE)]

MeasOffers(cells, k) ==
  LET named == Sorted(cells[k].meas, LAMBDA a, b : a.pci < b.pci)
  IN  [i \in 1..Len(named) |->
         Target([earfcn |-> k.earfcn, pci |-> named[i].pci],
                named[i].rsrp, cells[k].plmn, FALSE, FALSE)]

NoTargets == [k \in {} |-> 0]
With(best, t) == [k \in DOMAIN best \cup {KeyOfTarget(t)} |->
                    IF k = KeyOfTarget(t) THEN t ELSE best[k]]
Held(best) == {best[k] : k \in DOMAIN best}

-----------------------------------------------------------------------------
(* Classic hop: only cells without a FULL identity.                        *)

Consider(cells, best, t) ==
  IF \/ KeyOfTarget(t) \in FullKeys(cells)
     \/ KeyOfTarget(t) \in DOMAIN best /\ t.rsrp <= best[KeyOfTarget(t)].rsrp
  THEN best ELSE With(best, t)

HopOffers(cells) ==
  LET rows == KeysInOrder({k \in Heard(cells) : hop_earfcn_ok(k.earfcn)})
      Of(k) == (IF k.pci # 0 THEN OwnOffer(cells, k) ELSE <<>>) \o InterOffers(cells, k)
  IN  Joined([i \in 1..Len(rows) |-> Of(rows[i])])

HopCandidates(cells) ==
  LET offers == HopOffers(cells)
      best[i \in 0..Len(offers)] ==
        IF i = 0 THEN NoTargets ELSE Consider(cells, best[i - 1], offers[i])
  IN  Held(best[Len(offers)])

pick_hop_targets(cells, maxN) ==
  LET on == FullOn(cells)
  IN  Ranked(HopCandidates(cells), maxN, LAMBDA a, b : hop_target_better(a, b, on, FALSE))

-----------------------------------------------------------------------------
(* Full walk: every cell that did not serve yet.                           *)

(* The record kept for a cell that is offered again.  (Mutant: the last.)  *)
RicherLast(old, t) == t
Richer(old, t) ==
  LET rsrp == MaxOf({t.rsrp, old.rsrp})
  IN  IF (t.full /\ ~old.full) \/ (t.plmn # 0 /\ old.plmn = 0)
      THEN [t EXCEPT !.rsrp = rsrp]
      ELSE IF t.rsrp > old.rsrp
      THEN [t EXCEPT !.full = t.full \/ old.full,
                     !.plmn = IF t.plmn = 0 THEN old.plmn ELSE t.plmn]
      ELSE [old EXCEPT !.full = t.full \/ old.full, !.camps = t.camps]

(* Mutant: FULL cells are left out, as in the classic hop.                 *)
UpsertIncomplete(cells, best, t) ==
  LET c == [t EXCEPT !.camps = full_walk_plmn_camp_n(cells, t.earfcn, t.plmn)]
  IN  IF t.camped \/ t.full THEN best
      ELSE IF KeyOfTarget(t) \in DOMAIN best
      THEN With(best, Richer(best[KeyOfTarget(t)], c))
      ELSE With(best, c)
Upsert(cells, best, t) ==
  LET c == [t EXCEPT !.camps = full_walk_plmn_camp_n(cells, t.earfcn, t.plmn)]
  IN  IF t.camped THEN best
      ELSE IF KeyOfTarget(t) \in DOMAIN best
      THEN With(best, Richer(best[KeyOfTarget(t)], c))
      ELSE With(best, c)

WalkOffers(cells) ==
  LET rows == KeysInOrder({k \in Heard(cells) : Usable(k)})
      Of(k) == OwnOffer(cells, k) \o InterOffers(cells, k) \o MeasOffers(cells, k)
  IN  Joined([i \in 1..Len(rows) |-> Of(rows[i])])

WalkCandidates(cells) ==
  LET offers == WalkOffers(cells)
      best[i \in 0..Len(offers)] ==
        IF i = 0 THEN NoTargets ELSE Upsert(cells, best[i - 1], offers[i])
  IN  Held(best[Len(offers)])

pick_full_walk_targets(cells, maxN) ==
  LET on == FullOn(cells)
  IN  Ranked(WalkCandidates(cells), maxN, LAMBDA a, b : hop_target_better(a, b, on, TRUE))

-----------------------------------------------------------------------------
(* Seeds: after an operator scan, cells of the snapshot themselves.        *)

(* Mutant: served cells are seeds.                                         *)
IsSeedServed(cells, k, fullWalk) ==
  /\ fullWalk \/ ~cell_is_full_lte(cells, k)
  /\ \/ full_count(cells, k.earfcn) = 0
     \/ cell_is_full_lte(cells, k)
     \/ hop_rsrp_measured(cells[k].rsrp)
IsSeed(cells, k, fullWalk) ==
  /\ IF fullWalk THEN ~cells[k].ever ELSE ~cell_is_full_lte(cells, k)
  /\ \/ full_count(cells, k.earfcn) = 0
     \/ cell_is_full_lte(cells, k)
     \/ hop_rsrp_measured(cells[k].rsrp)

SeedTarget(cells, k, fullWalk) ==
  [OwnOffer(cells, k)[1] EXCEPT
     !.camped = FALSE,
     !.camps = IF fullWalk THEN full_walk_plmn_camp_n(cells, k.earfcn, cells[k].plmn)
               ELSE 0]

SeedCandidates(cells, fullWalk) ==
  {SeedTarget(cells, k, fullWalk) :
     k \in {j \in Heard(cells) : Usable(j) /\ IsSeed(cells, j, fullWalk)}}

pick_seed_targets(cells, maxN, fullWalk) ==
  LET on == FullOn(cells)
  IN  Ranked(SeedCandidates(cells, fullWalk), maxN,
             LAMBDA a, b : hop_seed_better(a, b, on, fullWalk))

-----------------------------------------------------------------------------
(* Neighbour keys.                                                         *)

ListsOf(cells, k) ==
  {j \in cells[k].inter : Usable(j)}
    \cup {[earfcn |-> k.earfcn, pci |-> n] :
            n \in IF hop_earfcn_ok(k.earfcn)
                  THEN {m.pci : m \in cells[k].meas} \cup cells[k].intra ELSE {}}

(* Every serving row erases its own key, and a later row may add it again. *)
serving_neigh_hop_keys(cells) ==
  LET rows == KeysInOrder({k \in Heard(cells) : cells[k].ever \/ cells[k].serving})
      keys[i \in 0..Len(rows)] ==
        IF i = 0 THEN {} ELSE (keys[i - 1] \cup ListsOf(cells, rows[i])) \ {rows[i]}
  IN  keys[Len(rows)]

measured_intra_hop_keys(cells) ==
  {k \in Heard(cells) :
     /\ Usable(k) /\ ~cells[k].ever /\ ~cell_is_full_lte(cells, k)
     /\ full_count(cells, k.earfcn) # 0 /\ hop_rsrp_measured(cells[k].rsrp)}

pending_neigh_hop_keys(cells) ==
  (serving_neigh_hop_keys(cells) \cup measured_intra_hop_keys(cells))
    \ {k \in Heard(cells) : cells[k].ever}

(* Carriers that SIB5 names without a PCI and where nothing was heard.     *)
sib5_bare_earfcns(cells) ==
  {e \in UNION {cells[k].bare : k \in {j \in Heard(cells) : cells[j].ever \/ cells[j].serving}} :
     hop_earfcn_ok(e) /\ \A k \in Heard(cells) : k.earfcn # e \/ k.pci = 0}

(* The targets among an allowed set of keys.                               *)
SnapshotTarget(cells, k) ==
  IF k \in Heard(cells) THEN OwnOffer(cells, k)[1]
  ELSE Target(k, Unmeasured, 0, FALSE, FALSE)

NeighTarget(cells, k, fullWalk) ==
  [SnapshotTarget(cells, k) EXCEPT
     !.camps = IF fullWalk
               THEN full_walk_plmn_camp_n(cells, k.earfcn, SnapshotTarget(cells, k).plmn)
               ELSE 0]

NeighCandidates(cells, allow, fullWalk) ==
  {NeighTarget(cells, k, fullWalk) :
     k \in {j \in allow : Usable(j) /\ IF fullWalk THEN ~SnapshotTarget(cells, j).camped
                                        ELSE ~SnapshotTarget(cells, j).full}}

pick_neigh_targets(cells, allow, maxN, fullWalk) ==
  LET on == FullOn(cells)
  IN  Ranked(NeighCandidates(cells, allow, fullWalk), maxN,
             LAMBDA a, b : hop_target_better(a, b, on, fullWalk))
=============================================================================
