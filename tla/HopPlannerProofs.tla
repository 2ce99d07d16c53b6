-------------------------- MODULE HopPlannerProofs ---------------------------
(***************************************************************************)
(* What the planner promises of every snapshot: the rankings order every   *)
(* set of candidates strictly, the merge of one offer into the targets of  *)
(* the full walk loses nothing, and, by induction over the loop of offers, *)
(* the lists hold the cells they should, the strongest offer of each.      *)
(***************************************************************************)
EXTENDS HopSnapshots, FiniteSetTheorems, WellFoundedInduction, TLAPS

(* A target of the planner, and what a comparator sees of the snapshot.    *)
Targets == [earfcn : Earfcns, pci : Nat, rsrp : Nat, plmn : Plmns \cup {0},
            full : BOOLEAN, camped : BOOLEAN, camps : Nat]
Counts == [Earfcns -> Nat]

(* The two rankings order a set of targets strictly.                       *)
HopOrders(S, on, walk) == StrictOrder(S, LAMBDA a, b : hop_target_better(a, b, on, walk))
SeedOrders(S, on, walk) == StrictOrder(S, LAMBDA a, b : hop_seed_better(a, b, on, walk))

(* The selections hold one target for each cell.                           *)
OnePerCell(S) == \A a, b \in S : KeyOfTarget(a) = KeyOfTarget(b) => a = b

-----------------------------------------------------------------------------
(* The comparators, criterion by criterion.                                *)

LEMMA TargetFields ==
  ASSUME NEW t \in Targets, NEW on \in Counts
  PROVE  /\ t.earfcn \in Nat /\ t.pci \in Nat /\ t.rsrp \in Nat /\ t.camps \in Nat
         /\ t.full \in BOOLEAN /\ on[t.earfcn] \in Nat
<1>1. t.earfcn \in Earfcns
  BY DEF Targets
<1>2. t.earfcn \in Nat /\ on[t.earfcn] \in Nat
  BY <1>1, PlannerAssumption DEF Counts
<1> QED BY <1>2 DEF Targets

(* The last criteria, by level and by key.                                 *)
LEMMA SignalIrreflexive ==
  ASSUME NEW a \in Targets, NEW on \in Counts, NEW walk \in BOOLEAN
  PROVE  ~BySignal(a, a, on, walk)
BY TargetFields DEF BySignal

LEMMA SignalTotal ==
  ASSUME NEW a \in Targets, NEW b \in Targets, NEW on \in Counts, NEW walk \in BOOLEAN,
         KeyOfTarget(a) # KeyOfTarget(b)
  PROVE  BySignal(a, b, on, walk) <=> ~BySignal(b, a, on, walk)
<1>1. a.earfcn # b.earfcn \/ a.pci # b.pci
  BY DEF KeyOfTarget
<1> QED BY <1>1, TargetFields DEF BySignal, hop_rsrp_measured, Seeded

LEMMA SignalTransitive ==
  ASSUME NEW a \in Targets, NEW b \in Targets, NEW c \in Targets,
         NEW on \in Counts, NEW walk \in BOOLEAN,
         BySignal(a, b, on, walk), BySignal(b, c, on, walk)
  PROVE  BySignal(a, c, on, walk)
BY TargetFields, SMTT(60) DEF BySignal, hop_rsrp_measured, Seeded

(* The whole chain, for hops and for seeds.                                *)
LEMMA BetterIrreflexive ==
  ASSUME NEW a \in Targets, NEW on \in Counts, NEW walk \in BOOLEAN
  PROVE  ~hop_target_better(a, a, on, walk) /\ ~hop_seed_better(a, a, on, walk)
BY SignalIrreflexive DEF hop_target_better, hop_seed_better

LEMMA BetterTotal ==
  ASSUME NEW a \in Targets, NEW b \in Targets, NEW on \in Counts, NEW walk \in BOOLEAN,
         KeyOfTarget(a) # KeyOfTarget(b)
  PROVE  /\ hop_target_better(a, b, on, walk) <=> ~hop_target_better(b, a, on, walk)
         /\ hop_seed_better(a, b, on, walk) <=> ~hop_seed_better(b, a, on, walk)
<1>1. hop_target_better(a, b, on, walk) <=> ~hop_target_better(b, a, on, walk)
  BY SignalTotal, TargetFields DEF hop_target_better, IsFdd
<1>2. hop_seed_better(a, b, on, walk) <=> ~hop_seed_better(b, a, on, walk)
  BY <1>1, TargetFields DEF hop_seed_better, IsFdd
<1> QED BY <1>1, <1>2

LEMMA BetterTransitive ==
  ASSUME NEW a \in Targets, NEW b \in Targets, NEW c \in Targets,
         NEW on \in Counts, NEW walk \in BOOLEAN,
         hop_target_better(a, b, on, walk), hop_target_better(b, c, on, walk)
  PROVE  hop_target_better(a, c, on, walk)
BY SignalTransitive, TargetFields, SMTT(60) DEF hop_target_better, IsFdd

LEMMA SeedBetterTransitive ==
  ASSUME NEW a \in Targets, NEW b \in Targets, NEW c \in Targets,
         NEW on \in Counts, NEW walk \in BOOLEAN,
         hop_seed_better(a, b, on, walk), hop_seed_better(b, c, on, walk)
  PROVE  hop_seed_better(a, c, on, walk)
BY BetterTransitive, TargetFields, SMTT(60) DEF hop_seed_better, IsFdd

(* hop_target_better and hop_seed_better rank any targets of different     *)
(* cells strictly: std::sort may be called with them, and its result does  *)
(* not depend on the order in which the snapshot was read.                 *)
THEOREM RankingsAreStrict ==
  ASSUME NEW S \in SUBSET Targets, OnePerCell(S), NEW on \in Counts, NEW walk \in BOOLEAN
  PROVE  HopOrders(S, on, walk) /\ SeedOrders(S, on, walk)
<1>1. \A a, b \in S : a # b => KeyOfTarget(a) # KeyOfTarget(b)
  BY DEF OnePerCell
<1>2. HopOrders(S, on, walk)
  <2> SUFFICES ASSUME NEW a \in S, NEW b \in S, NEW c \in S
               PROVE  /\ ~hop_target_better(a, a, on, walk)
                      /\ a # b => hop_target_better(a, b, on, walk)
                                    # hop_target_better(b, a, on, walk)
                      /\ hop_target_better(a, b, on, walk) /\ hop_target_better(b, c, on, walk)
                           => hop_target_better(a, c, on, walk)
    BY DEF HopOrders, StrictOrder
  <2> QED BY <1>1, BetterIrreflexive, BetterTotal, BetterTransitive
<1>3. SeedOrders(S, on, walk)
  <2> SUFFICES ASSUME NEW a \in S, NEW b \in S, NEW c \in S
               PROVE  /\ ~hop_seed_better(a, a, on, walk)
                      /\ a # b => hop_seed_better(a, b, on, walk)
                                    # hop_seed_better(b, a, on, walk)
                      /\ hop_seed_better(a, b, on, walk) /\ hop_seed_better(b, c, on, walk)
                           => hop_seed_better(a, c, on, walk)
    BY DEF SeedOrders, StrictOrder
  <2> QED BY <1>1, BetterIrreflexive, BetterTotal, SeedBetterTransitive
<1> QED BY <1>2, <1>3

-----------------------------------------------------------------------------
(* Snapshots of the registry: some keys, each with a row.                  *)

Snapshot(snap) == DOMAIN snap \subseteq RowKey /\ snap \in [DOMAIN snap -> Row]

(* The rows of a snapshot are finitely many, since carriers and PCIs are.  *)
LEMMA RowKeyFinite == IsFiniteSet(RowKey)
<1> DEFINE P == Pcis \cup {0}
           f == [k \in RowKey |-> <<k.earfcn, k.pci>>]
<1>1. IsFiniteSet(Earfcns \X P)
  <2>1. IsFiniteSet(P)
    BY FS_AddElement, PlannerAssumption
  <2> QED BY <2>1, FS_Product, PlannerAssumption
<1>2. f \in Injection(RowKey, Earfcns \X P)
  BY DEF Injection, IsInjective, RowKey
<1> QED BY <1>1, <1>2, FS_Injection

LEMMA CountType ==
  ASSUME NEW S \in SUBSET RowKey
  PROVE  /\ Cardinality(S) \in Nat
         /\ Cardinality(S) <= Cardinality(RowKey) /\ Cardinality(RowKey) \in Nat
BY RowKeyFinite, FS_Subset, FS_CardinalityType

LEMMA FullOnType ==
  ASSUME NEW snap, Snapshot(snap)
  PROVE  FullOn(snap) \in Counts
<1>1. \A e \in Earfcns : full_count(snap, e) \in Nat
  <2> TAKE e \in Earfcns
  <2>1. {k \in FullKeys(snap) : k.earfcn = e} \in SUBSET RowKey
    BY DEF FullKeys, Snapshot
  <2> QED BY <2>1, CountType DEF full_count
<1> QED BY <1>1 DEF FullOn, Counts

(* The greatest of bounded naturals is one of them: their least bound.     *)
LEMMA LeastBound ==
  ASSUME NEW B \in SUBSET Nat, B # {}
  PROVE  \E m \in B : \A b \in B : m <= b
<1> DEFINE R == OpToRel(<, Nat)
<1>1. IsWellFoundedOn(R, Nat)
  BY NatLessThanWellFounded
<1>2. \A x, y \in Nat : y < x => <<y, x>> \in R
  BY DEF R, OpToRel
<1> HIDE DEF R
<1>3. PICK m \in B : \A b \in B : ~ (<<b, m>> \in R)
  BY <1>1, WFMin
<1>4. \A b \in B : ~ (b < m)
  BY <1>2, <1>3
<1> QED BY <1>4

LEMMA MaxOfBounded ==
  ASSUME NEW S \in SUBSET Nat, NEW n \in Nat, \A s \in S : s <= n
  PROVE  MaxOf(S) \in Nat /\ \A s \in S : s <= MaxOf(S)
<1>1. CASE S = {}
  BY <1>1 DEF MaxOf
<1>2. CASE S # {}
  <2> DEFINE bounds == {b \in Nat : \A s \in S : s <= b}
  <2>1. PICK m \in bounds : \A b \in bounds : m <= b
    <3>1. bounds \in SUBSET Nat /\ bounds # {}
      OBVIOUS
    <3> HIDE DEF bounds
    <3> QED BY <3>1, LeastBound
  <2>2. m \in S
    <3> SUFFICES ASSUME m \notin S PROVE FALSE
      OBVIOUS
    <3>1. \A s \in S : s < m
      OBVIOUS
    <3>2. m # 0
      <4>1. PICK s \in S : s < m
        BY <1>2, <3>1
      <4>2. s \in Nat /\ m \in Nat
        OBVIOUS
      <4> QED BY <4>1, <4>2
    <3>3. m - 1 \in bounds
      BY <3>1, <3>2
    <3>4. m <= m - 1
      BY <2>1, <3>3
    <3> QED BY <3>4
  <2>3. \E x \in S : \A y \in S : y <= x
    BY <2>2
  <2> QED BY <1>2, <2>3 DEF MaxOf
<1> QED BY <1>1, <1>2

LEMMA CampCountType ==
  ASSUME NEW snap, Snapshot(snap), NEW e \in Earfcns, NEW p
  PROVE  full_walk_plmn_camp_n(snap, e, p) \in Nat
<1> DEFINE N == Cardinality(RowKey)
<1>1. \A q : camped_count_by_plmn(snap, q) \in Nat /\ camped_count_by_plmn(snap, q) <= N
  <2> TAKE q
  <2>1. {k \in CampedRows(snap) : snap[k].plmn = q} \in SUBSET RowKey
    BY DEF CampedRows, Heard, Snapshot
  <2> QED BY <2>1, CountType DEF camped_count_by_plmn
<1>2. N \in Nat
  BY CountType
<1> HIDE DEF N
<1>3. camped_plmn_n_by_earfcn(snap, e) \in Nat
  <2> DEFINE S == {camped_count_by_plmn(snap, snap[k].plmn) :
                     k \in {j \in CampedRows(snap) : j.earfcn = e}}
  <2>1. S \in SUBSET Nat /\ \A s \in S : s <= N
    BY <1>1
  <2> HIDE DEF S
  <2>2. MaxOf(S) \in Nat
    BY <1>2, <2>1, MaxOfBounded
  <2> QED BY <2>2 DEF camped_plmn_n_by_earfcn, S
<1>4. PICK c \in Nat : c = IF p = 0 THEN 0 ELSE camped_count_by_plmn(snap, p)
  BY <1>1
<1> DEFINE T == {camped_plmn_n_by_earfcn(snap, e), c}
<1>5. T \in SUBSET Nat /\ \E n \in Nat : \A s \in T : s <= n
  <2>1. PICK d \in Nat : d = camped_plmn_n_by_earfcn(snap, e)
    BY <1>3
  <2>2. CASE c <= d
    BY <2>1, <2>2
  <2>3. CASE d <= c
    BY <2>1, <2>3
  <2> QED BY <2>2, <2>3
<1>6. full_walk_plmn_camp_n(snap, e, p) = MaxOf(T)
  BY <1>4 DEF full_walk_plmn_camp_n
<1> HIDE DEF T
<1> QED BY <1>5, <1>6, MaxOfBounded

-----------------------------------------------------------------------------
(* Seeds and neighbours: one target for each cell, of the types the        *)
(* comparators read.                                                       *)

LEMMA KeyParts ==
  ASSUME NEW k \in RowKey
  PROVE  k.earfcn \in Earfcns /\ k.pci \in Nat /\ k = [earfcn |-> k.earfcn, pci |-> k.pci]
<1>1. k.earfcn \in Earfcns /\ k.pci \in Pcis \cup {0} /\ k = [earfcn |-> k.earfcn, pci |-> k.pci]
  BY DEF RowKey
<1>2. k.pci \in Nat
  BY <1>1, PlannerAssumption
<1> QED BY <1>1, <1>2

(* A target as the planner makes it for a key, whatever camp count it is   *)
(* given afterwards.                                                       *)
Fresh(t, k) ==
  \E rsrp \in Nat, plmn \in Plmns \cup {0}, full \in BOOLEAN, camped \in BOOLEAN :
    t = Target(k, rsrp, plmn, full, camped)

LEMMA FreshType ==
  ASSUME NEW k \in RowKey, NEW t, Fresh(t, k), NEW n \in Nat
  PROVE  /\ [t EXCEPT !.camps = n] \in Targets
         /\ KeyOfTarget([t EXCEPT !.camps = n]) = k
         /\ [t EXCEPT !.camped = FALSE, !.camps = n] \in Targets
         /\ KeyOfTarget([t EXCEPT !.camped = FALSE, !.camps = n]) = k
<1>1. PICK rsrp \in Nat, plmn \in Plmns \cup {0}, full \in BOOLEAN, camped \in BOOLEAN :
        t = Target(k, rsrp, plmn, full, camped)
  BY DEF Fresh
<1>2. t = [earfcn |-> k.earfcn, pci |-> k.pci, rsrp |-> rsrp, plmn |-> plmn,
           full |-> full, camped |-> camped, camps |-> 0]
  BY <1>1 DEF Target
<1> QED BY <1>2, KeyParts DEF Targets, KeyOfTarget

LEMMA OwnOfferIsFresh ==
  ASSUME NEW snap, Snapshot(snap), NEW k \in Heard(snap)
  PROVE  k \in RowKey /\ Fresh(OwnOffer(snap, k)[1], k)
<1>1. k \in RowKey /\ snap[k] \in Row
  BY DEF Heard, Snapshot
<1>2. PICK full \in BOOLEAN : full = cell_is_full_lte(snap, k)
  BY <1>1 DEF cell_is_full_lte, Row
<1>3. snap[k].rsrp \in Nat /\ snap[k].plmn \in Plmns \cup {0} /\ snap[k].ever \in BOOLEAN
  BY <1>1 DEF Row
<1>4. OwnOffer(snap, k)[1] = Target(k, snap[k].rsrp, snap[k].plmn, full, snap[k].ever)
  BY <1>2 DEF OwnOffer
<1> QED BY <1>1, <1>3, <1>4 DEF Fresh

LEMMA SeedTargetType ==
  ASSUME NEW snap, Snapshot(snap), NEW k \in Heard(snap), NEW walk \in BOOLEAN
  PROVE  SeedTarget(snap, k, walk) \in Targets /\ KeyOfTarget(SeedTarget(snap, k, walk)) = k
<1> DEFINE n == IF walk THEN full_walk_plmn_camp_n(snap, k.earfcn, snap[k].plmn) ELSE 0
<1>1. n \in Nat
  BY OwnOfferIsFresh, KeyParts, CampCountType
<1> DEFINE own == OwnOffer(snap, k)[1]
<1>2. SeedTarget(snap, k, walk) = [own EXCEPT !.camped = FALSE, !.camps = n]
  BY DEF SeedTarget
<1>3. k \in RowKey /\ Fresh(own, k)
  BY OwnOfferIsFresh
<1> HIDE DEF n, own
<1>4. /\ [own EXCEPT !.camped = FALSE, !.camps = n] \in Targets
      /\ KeyOfTarget([own EXCEPT !.camped = FALSE, !.camps = n]) = k
  BY <1>1, <1>3, FreshType
<1> QED BY <1>2, <1>4, Zenon

(* A neighbour need not be in the registry.                                *)
LEMMA NeighTargetType ==
  ASSUME NEW snap, Snapshot(snap), NEW k \in RowKey, NEW walk \in BOOLEAN
  PROVE  NeighTarget(snap, k, walk) \in Targets /\ KeyOfTarget(NeighTarget(snap, k, walk)) = k
<1> DEFINE t == SnapshotTarget(snap, k)
           n == IF walk THEN full_walk_plmn_camp_n(snap, k.earfcn, t.plmn) ELSE 0
<1>1. n \in Nat
  BY KeyParts, CampCountType
<1>2. NeighTarget(snap, k, walk) = [t EXCEPT !.camps = n]
  BY DEF NeighTarget
<1>3. Fresh(t, k)
  <2>1. CASE k \in Heard(snap)
    BY <2>1, OwnOfferIsFresh DEF SnapshotTarget
  <2>2. CASE k \notin Heard(snap)
    <3>1. t = Target(k, 0, 0, FALSE, FALSE)
      BY <2>2 DEF SnapshotTarget, Unmeasured
    <3> HIDE DEF t
    <3> QED BY <3>1 DEF Fresh
  <2> QED BY <2>1, <2>2
<1> HIDE DEF t, n
<1>4. [t EXCEPT !.camps = n] \in Targets /\ KeyOfTarget([t EXCEPT !.camps = n]) = k
  BY <1>1, <1>3, FreshType
<1> QED BY <1>2, <1>4, Zenon

(* What pick_seed_targets sorts, in any snapshot and in both modes, is     *)
(* strictly ordered by hop_seed_better.                                    *)
THEOREM SeedsAreRanked ==
  ASSUME NEW snap, Snapshot(snap), NEW walk \in BOOLEAN
  PROVE  SeedOrders(SeedCandidates(snap, walk), FullOn(snap), walk)
<1> DEFINE S == SeedCandidates(snap, walk)
<1>1. S \in SUBSET Targets
  BY SeedTargetType DEF SeedCandidates
<1>2. OnePerCell(S)
  BY SeedTargetType DEF SeedCandidates, OnePerCell
<1> HIDE DEF S
<1>3. SeedOrders(S, FullOn(snap), walk)
  BY <1>1, <1>2, FullOnType, RankingsAreStrict
<1> QED BY <1>3 DEF S

(* So is what pick_neigh_targets sorts by hop_target_better, for any       *)
(* allowed keys.                                                           *)
THEOREM NeighboursAreRanked ==
  ASSUME NEW snap, Snapshot(snap), NEW allow \in SUBSET RowKey, NEW walk \in BOOLEAN
  PROVE  HopOrders(NeighCandidates(snap, allow, walk), FullOn(snap), walk)
<1> DEFINE S == NeighCandidates(snap, allow, walk)
<1>1. S \in SUBSET Targets
  BY NeighTargetType DEF NeighCandidates
<1>2. OnePerCell(S)
  BY NeighTargetType DEF NeighCandidates, OnePerCell
<1> HIDE DEF S
<1>3. HopOrders(S, FullOn(snap), walk)
  BY <1>1, <1>2, FullOnType, RankingsAreStrict
<1> QED BY <1>3 DEF S

-----------------------------------------------------------------------------
(* The merge: how the targets of a hop or a walk take in one more offer.   *)

(* What rows and their lists offer: only a cell with an operator is FULL.  *)
Offers == {t \in Targets : (t.full => t.plmn # 0) /\ KeyOfTarget(t) \in RowKey}

(* A row offers itself, and the cells of its lists with its operator, at   *)
(* the level of a SIB5 name or as measured.                                *)
LEMMA RowsMakeOffers ==
  ASSUME NEW snap, Snapshot(snap), NEW k \in Heard(snap),
         NEW j \in HopKey, NEW rsrp \in Nat
  PROVE  OwnOffer(snap, k)[1] \in Offers /\ Target(j, rsrp, snap[k].plmn, FALSE, FALSE) \in Offers
<1>1. k \in RowKey /\ snap[k] \in Row
  BY DEF Heard, Snapshot
<1>2. PICK full \in BOOLEAN : full = cell_is_full_lte(snap, k)
  BY <1>1 DEF cell_is_full_lte, Row
<1>3. snap[k].rsrp \in Nat /\ snap[k].plmn \in Plmns \cup {0} /\ snap[k].ever \in BOOLEAN
  BY <1>1 DEF Row
<1>4. full => snap[k].plmn # 0
  BY <1>2 DEF cell_is_full_lte
<1>5. OwnOffer(snap, k)[1] = Target(k, snap[k].rsrp, snap[k].plmn, full, snap[k].ever)
  BY <1>2 DEF OwnOffer
<1>6. Target(k, snap[k].rsrp, snap[k].plmn, full, snap[k].ever) \in Offers
  BY <1>1, <1>3, <1>4, KeyParts DEF Target, Offers, Targets, KeyOfTarget
<1>7. Target(j, rsrp, snap[k].plmn, FALSE, FALSE) \in Offers
  <2>1. j \in RowKey
    BY DEF HopKey, RowKey
  <2> QED BY <1>3, <2>1, KeyParts DEF Target, Offers, Targets, KeyOfTarget
<1> QED BY <1>5, <1>6, <1>7, Zenon

(* The targets collected so far, each under its own key.                   *)
Collected(best) == \A k \in DOMAIN best : best[k] \in Offers /\ KeyOfTarget(best[k]) = k

LEMMA CollectedAreRanked ==
  ASSUME NEW best, Collected(best), NEW on \in Counts, NEW walk \in BOOLEAN
  PROVE  HopOrders({best[k] : k \in DOMAIN best}, on, walk)
<1> DEFINE S == {best[k] : k \in DOMAIN best}
<1>1. S \in SUBSET Targets /\ OnePerCell(S)
  BY DEF Collected, Offers, OnePerCell
<1> HIDE DEF S
<1>2. HopOrders(S, on, walk)
  BY <1>1, RankingsAreStrict
<1> QED BY <1>2 DEF S

(* The level kept is the stronger one.                                     *)
LEMMA StrongerLevel ==
  ASSUME NEW m \in Nat, NEW n \in Nat
  PROVE  MaxOf({m, n}) \in Nat /\ MaxOf({m, n}) >= m /\ MaxOf({m, n}) >= n
<1>1. \E b \in Nat : \A s \in {m, n} : s <= b
  <2>1. CASE m <= n
    BY <2>1
  <2>2. CASE n <= m
    BY <2>2
  <2> QED BY <2>1, <2>2
<1> DEFINE S == {m, n}
<1>2. S \in SUBSET Nat /\ m \in S /\ n \in S
  OBVIOUS
<1>3. \E b \in Nat : \A s \in S : s <= b
  BY <1>1
<1> HIDE DEF S
<1>4. MaxOf(S) \in Nat /\ m <= MaxOf(S) /\ n <= MaxOf(S)
  BY <1>2, <1>3, MaxOfBounded
<1> QED BY <1>4 DEF S

(* Nothing is lost when a cell is offered again.                           *)
NoPoorer(old, new) ==
  /\ new.rsrp >= old.rsrp
  /\ old.full => new.full
  /\ old.plmn # 0 => new.plmn # 0

LEMMA RicherKeeps ==
  ASSUME NEW old \in Offers, NEW t \in Offers, KeyOfTarget(old) = KeyOfTarget(t)
  PROVE  /\ Richer(old, t) \in Offers /\ KeyOfTarget(Richer(old, t)) = KeyOfTarget(t)
         /\ NoPoorer(old, Richer(old, t)) /\ NoPoorer(t, Richer(old, t))
<1>1. /\ t.rsrp \in Nat /\ old.rsrp \in Nat
      /\ t.earfcn \in Earfcns /\ t.pci \in Nat /\ old.pci \in Nat
      /\ t.full \in BOOLEAN /\ old.full \in BOOLEAN
      /\ t.earfcn = old.earfcn /\ t.pci = old.pci
  BY DEF Offers, Targets, KeyOfTarget
<1> DEFINE r == MaxOf({t.rsrp, old.rsrp})
<1>2. r \in Nat /\ r >= t.rsrp /\ r >= old.rsrp
  BY <1>1, StrongerLevel
<1>3. CASE (t.full /\ ~old.full) \/ (t.plmn # 0 /\ old.plmn = 0)
  <2>1. Richer(old, t) = [t EXCEPT !.rsrp = r]
    BY <1>3 DEF Richer
  <2> HIDE DEF r
  <2> QED BY <1>1, <1>2, <1>3, <2>1 DEF Offers, Targets, KeyOfTarget, NoPoorer
<1>4. CASE /\ ~ ((t.full /\ ~old.full) \/ (t.plmn # 0 /\ old.plmn = 0))
           /\ t.rsrp > old.rsrp
  <2>1. PICK f \in BOOLEAN, p \in Plmns \cup {0} :
          /\ f = (t.full \/ old.full)
          /\ p = IF t.plmn = 0 THEN old.plmn ELSE t.plmn
    BY <1>1 DEF Offers, Targets
  <2>2. Richer(old, t) = [t EXCEPT !.full = f, !.plmn = p]
    BY <1>4, <2>1 DEF Richer
  <2>3. (t.full => old.full) /\ (f <=> old.full) /\ (old.full => p # 0)
        /\ (old.plmn # 0 => p # 0) /\ (t.plmn # 0 => p # 0)
    BY <1>1, <1>4, <2>1 DEF Offers
  <2>4. [t EXCEPT !.full = f, !.plmn = p] \in Offers
    BY <1>1, <2>1, <2>3 DEF Offers, Targets, KeyOfTarget
  <2> QED BY <1>1, <1>4, <2>2, <2>3, <2>4 DEF Offers, Targets, KeyOfTarget, NoPoorer
<1>5. CASE /\ ~ ((t.full /\ ~old.full) \/ (t.plmn # 0 /\ old.plmn = 0))
           /\ ~ (t.rsrp > old.rsrp)
  <2>1. PICK f \in BOOLEAN : f = (t.full \/ old.full)
    OBVIOUS
  <2>2. Richer(old, t) = [old EXCEPT !.full = f, !.camps = t.camps]
    BY <1>5, <2>1 DEF Richer
  <2>3. (t.full => old.full) /\ (f <=> old.full) /\ (old.full => old.plmn # 0)
        /\ (t.plmn # 0 => old.plmn # 0) /\ t.camps \in Nat
    BY <1>1, <1>5, <2>1 DEF Offers, Targets
  <2>4. [old EXCEPT !.full = f, !.camps = t.camps] \in Offers
    BY <1>1, <2>1, <2>3 DEF Offers, Targets, KeyOfTarget
  <2> QED BY <1>1, <1>5, <2>2, <2>3, <2>4 DEF Offers, Targets, KeyOfTarget, NoPoorer
<1> QED BY <1>3, <1>4, <1>5

LEMMA WithCollects ==
  ASSUME NEW best, Collected(best), NEW t \in Offers
  PROVE  /\ Collected(With(best, t))
         /\ DOMAIN With(best, t) = DOMAIN best \cup {KeyOfTarget(t)}
         /\ With(best, t)[KeyOfTarget(t)] = t
         /\ \A k \in DOMAIN best : k # KeyOfTarget(t) => With(best, t)[k] = best[k]
BY DEF With, Collected

(* One offer merged into the targets of a full walk, with the rows read in *)
(* any order: the cell offered is a target at least as strong as offered,  *)
(* unless it camped; no target collected before is lost, weakened or loses *)
(* its identity or its operator; and all of it can be ranked.              *)
THEOREM MergeLosesNothing ==
  ASSUME NEW snap, Snapshot(snap), NEW best, Collected(best), NEW t \in Offers
  PROVE  LET new == Upsert(snap, best, t)
         IN  /\ Collected(new)
             /\ \A k \in DOMAIN best : k \in DOMAIN new /\ NoPoorer(best[k], new[k])
             /\ ~t.camped => /\ KeyOfTarget(t) \in DOMAIN new
                             /\ NoPoorer(t, new[KeyOfTarget(t)])
             /\ HopOrders({new[k] : k \in DOMAIN new}, FullOn(snap), TRUE)
<1> DEFINE new == Upsert(snap, best, t)
           key == KeyOfTarget(t)
           n == full_walk_plmn_camp_n(snap, t.earfcn, t.plmn)
           c == [t EXCEPT !.camps = n]
<1>1. n \in Nat
  <2>1. t.earfcn \in Earfcns
    BY DEF Offers, Targets
  <2> QED BY <2>1, CampCountType
<1>2. c \in Offers /\ KeyOfTarget(c) = key /\ NoPoorer(t, c)
  <2> HIDE DEF n
  <2> QED BY <1>1 DEF Offers, Targets, KeyOfTarget, NoPoorer
<1>3. /\ t.camped => new = best
      /\ ~t.camped /\ key \in DOMAIN best => new = With(best, Richer(best[key], c))
      /\ ~t.camped /\ key \notin DOMAIN best => new = With(best, c)
  BY DEF Upsert
<1> HIDE DEF new, c, key
<1>4. \A o \in Offers : o.rsrp \in Nat
  BY DEF Offers, Targets
<1>5. \A o \in Offers : NoPoorer(o, o)
  BY <1>4 DEF NoPoorer
<1>6. /\ Collected(new)
      /\ \A k \in DOMAIN best : k \in DOMAIN new /\ NoPoorer(best[k], new[k])
      /\ ~t.camped => key \in DOMAIN new /\ NoPoorer(t, new[key])
  <2>1. CASE t.camped
    BY <1>3, <1>5, <2>1 DEF Collected
  <2>2. CASE ~t.camped /\ key \in DOMAIN best
    <3>1. best[key] \in Offers /\ KeyOfTarget(best[key]) = key
      BY <2>2 DEF Collected
    <3> DEFINE r == Richer(best[key], c)
    <3>2. r \in Offers /\ KeyOfTarget(r) = key /\ NoPoorer(best[key], r) /\ NoPoorer(c, r)
      BY <1>2, <3>1, RicherKeeps
    <3>3. new = With(best, r)
      BY <1>3, <2>2
    <3> HIDE DEF r
    <3>4. NoPoorer(t, r)
      BY <1>2, <1>4, <3>2 DEF NoPoorer
    <3>5. /\ Collected(new) /\ DOMAIN new = DOMAIN best \cup {key} /\ new[key] = r
          /\ \A k \in DOMAIN best : k # key => new[k] = best[k]
      BY <3>2, <3>3, WithCollects
    <3>6. \A k \in DOMAIN best : k \in DOMAIN new /\ NoPoorer(best[k], new[k])
      BY <1>5, <3>2, <3>5 DEF Collected
    <3> QED BY <3>4, <3>5, <3>6
  <2>3. CASE ~t.camped /\ key \notin DOMAIN best
    <3>1. /\ Collected(new) /\ DOMAIN new = DOMAIN best \cup {key} /\ new[key] = c
          /\ \A k \in DOMAIN best : k # key => new[k] = best[k]
      <4>1. new = With(best, c)
        BY <1>3, <2>3
      <4> QED BY <1>2, <4>1, WithCollects
    <3>2. \A k \in DOMAIN best : k \in DOMAIN new /\ NoPoorer(best[k], new[k])
      BY <1>5, <2>3, <3>1 DEF Collected
    <3> QED BY <1>2, <3>1, <3>2
  <2> QED BY <2>1, <2>2, <2>3
<1>7. HopOrders({new[k] : k \in DOMAIN new}, FullOn(snap), TRUE)
  BY <1>6, FullOnType, CollectedAreRanked
<1> QED BY <1>6, <1>7 DEF new, key

-----------------------------------------------------------------------------
(* Sorting.                                                                *)

(* A strict total order as a set of pairs, the place of each element       *)
(* under it, and the list by places.                                       *)
Orders(S, R) ==
  /\ \A a \in S : <<a, a>> \notin R
  /\ \A a, b \in S : a # b => (<<a, b>> \in R <=> <<b, a>> \notin R)
  /\ \A a, b, c \in S : <<a, b>> \in R /\ <<b, c>> \in R => <<a, c>> \in R

Places(S, R) == [t \in S |-> Cardinality({u \in S : <<u, t>> \in R})]

PlacedBy(S, place) == [i \in 1..Cardinality(S) |-> CHOOSE t \in S : place[t] = i - 1]

(* Places are below the number of elements and grow along the order.       *)
LEMMA PlacesGrow ==
  ASSUME NEW S, IsFiniteSet(S), NEW R, Orders(S, R)
  PROVE  /\ Places(S, R) \in [S -> 0..(Cardinality(S) - 1)]
         /\ \A a, b \in S : <<a, b>> \in R => Places(S, R)[a] < Places(S, R)[b]
<1> DEFINE Below(t) == {u \in S : <<u, t>> \in R}
           n == Cardinality(S)
<1>1. \A t \in S : IsFiniteSet(Below(t)) /\ Cardinality(Below(t)) \in Nat
  <2> TAKE t \in S
  <2>1. Below(t) \in SUBSET S
    OBVIOUS
  <2> HIDE DEF Below
  <2> QED BY <2>1, FS_Subset, FS_CardinalityType
<1>2. n \in Nat
  BY FS_CardinalityType
<1>3. \A t \in S : Cardinality(Below(t)) < n
  <2> TAKE t \in S
  <2>1. Below(t) \in SUBSET S /\ t \notin Below(t)
    BY DEF Orders
  <2> HIDE DEF Below
  <2>2. Cardinality(Below(t)) <= n /\ (n = Cardinality(Below(t)) => S = Below(t))
    BY <2>1, FS_Subset
  <2> QED BY <1>1, <1>2, <2>1, <2>2
<1>4. \A a, b \in S : <<a, b>> \in R => Cardinality(Below(a)) < Cardinality(Below(b))
  <2> SUFFICES ASSUME NEW a \in S, NEW b \in S, <<a, b>> \in R
               PROVE  Cardinality(Below(a)) < Cardinality(Below(b))
    OBVIOUS
  <2>1. Below(a) \in SUBSET Below(b) /\ a \in Below(b) /\ a \notin Below(a)
    BY DEF Orders
  <2>2. IsFiniteSet(Below(b)) /\ Cardinality(Below(b)) \in Nat /\ Cardinality(Below(a)) \in Nat
    BY <1>1
  <2> HIDE DEF Below
  <2>3. /\ Cardinality(Below(a)) <= Cardinality(Below(b))
        /\ Cardinality(Below(b)) = Cardinality(Below(a)) => Below(b) = Below(a)
    BY <2>1, <2>2, FS_Subset
  <2> QED BY <2>1, <2>2, <2>3
<1>5. \A t \in S : Places(S, R)[t] = Cardinality(Below(t))
  BY DEF Places
<1>6. DOMAIN Places(S, R) = S /\ Places(S, R) = [t \in S |-> Places(S, R)[t]]
  BY DEF Places
<1> HIDE DEF Below, n
<1>7. \A t \in S : Places(S, R)[t] \in 0..(n - 1)
  BY <1>1, <1>2, <1>3, <1>5
<1> QED BY <1>4, <1>5, <1>6, <1>7 DEF n

(* The list by places holds every element once, in order: what Sorted and  *)
(* std::sort promise of a strict comparator.                               *)
LEMMA PlacedInOrder ==
  ASSUME NEW S, IsFiniteSet(S), NEW R, Orders(S, R)
  PROVE  LET seq == PlacedBy(S, Places(S, R))
         IN  /\ seq \in Seq(S) /\ Len(seq) = Cardinality(S) /\ Len(seq) \in Nat
             /\ Elements(seq) = S
             /\ \A i, j \in 1..Len(seq) : i < j => <<seq[i], seq[j]>> \in R
<1> DEFINE n == Cardinality(S)
           place == Places(S, R)
           seq == PlacedBy(S, place)
           T == 0..(n - 1)
<1>1. n \in Nat
  BY FS_CardinalityType
<1>2. place \in [S -> T] /\ \A a, b \in S : <<a, b>> \in R => place[a] < place[b]
  BY PlacesGrow
<1>3. \A a, b \in S : place[a] = place[b] => a = b
  <2> SUFFICES ASSUME NEW a \in S, NEW b \in S, place[a] = place[b], a # b PROVE FALSE
    OBVIOUS
  <2>1. place[a] \in Int /\ place[b] \in Int
    BY <1>2
  <2>2. <<a, b>> \in R \/ <<b, a>> \in R
    BY DEF Orders
  <2> QED BY <1>2, <2>1, <2>2
<1>4. place \in Surjection(S, T)
  <2>1. IsFiniteSet(T) /\ Cardinality(T) = n
    BY <1>1, FS_Interval
  <2>2. place \in Injection(S, T)
    BY <1>2, <1>3 DEF Injection, IsInjective
  <2> HIDE DEF place, T
  <2> QED BY <2>1, <2>2, FS_Injection
<1>5. \A x \in T : \E t \in S : place[t] = x
  BY <1>4 DEF Surjection
<1>6. DOMAIN seq = 1..n /\ \A i \in 1..n : seq[i] = CHOOSE t \in S : place[t] = i - 1
  BY DEF PlacedBy
<1> HIDE DEF place, seq
<1>7. \A i \in 1..n : seq[i] \in S /\ place[seq[i]] = i - 1
  <2> TAKE i \in 1..n
  <2>1. i - 1 \in T
    BY <1>1
  <2>2. \E t \in S : place[t] = i - 1
    BY <1>5, <2>1
  <2> QED BY <1>6, <2>2
<1>8. \A t \in S : place[t] + 1 \in 1..n /\ seq[place[t] + 1] = t
  <2> TAKE t \in S
  <2>1. place[t] \in 0..(n - 1)
    BY <1>2
  <2>2. place[t] + 1 \in 1..n /\ (place[t] + 1) - 1 = place[t]
    BY <1>1, <2>1
  <2>3. seq[place[t] + 1] \in S /\ place[seq[place[t] + 1]] = place[t]
    BY <1>7, <2>2
  <2> QED BY <1>3, <2>2, <2>3
<1>9. seq \in Seq(S) /\ Len(seq) = n
  <2>1. seq = [i \in 1..n |-> seq[i]]
    BY <1>6 DEF seq, PlacedBy
  <2>2. seq \in [1..n -> S]
    BY <1>7, <2>1
  <2> QED BY <1>1, <2>2
<1>10. Elements(seq) = S
  BY <1>7, <1>8, <1>9 DEF Elements
<1>11. \A i, j \in 1..n : i < j => <<seq[i], seq[j]>> \in R
  <2> SUFFICES ASSUME NEW i \in 1..n, NEW j \in 1..n, i < j, <<seq[i], seq[j]>> \notin R
               PROVE  FALSE
    OBVIOUS
  <2>1. /\ seq[i] \in S /\ seq[j] \in S
        /\ place[seq[i]] = i - 1 /\ place[seq[j]] = j - 1
    BY <1>7
  <2>2. seq[i] # seq[j]
    BY <1>1, <2>1
  <2>3. <<seq[j], seq[i]>> \in R
    BY <2>1, <2>2 DEF Orders
  <2>4. place[seq[j]] < place[seq[i]]
    BY <1>2, <2>1, <2>3
  <2> QED BY <1>1, <2>1, <2>4
<1> QED BY <1>1, <1>9, <1>10, <1>11 DEF seq, place

-----------------------------------------------------------------------------
-----------------------------------------------------------------------------
(* Loops over the list of offers. A set that holds 0 and with each index   *)
(* the next one holds them all.                                            *)
LEMMA CountUp ==
  ASSUME NEW n \in Nat, NEW good, 0 \in good, \A i \in 1..n : i - 1 \in good => i \in good
  PROVE  \A i \in 0..n : i \in good
<1> DEFINE bad == {i \in 0..n : i \notin good}
<1> SUFFICES ASSUME bad # {} PROVE FALSE
  OBVIOUS
<1>1. bad \in SUBSET Nat
  OBVIOUS
<1>2. \E m \in bad : \A b \in bad : m <= b
  <2> HIDE DEF bad
  <2> QED BY <1>1, LeastBound
<1>3. PICK m \in 0..n : m \notin good /\ \A b \in bad : m <= b
  BY <1>2
<1>4. m \in 1..n /\ m - 1 \in 0..n /\ ~ (m <= m - 1)
  BY <1>3
<1>5. m - 1 \in good
  BY <1>3, <1>4
<1> QED BY <1>3, <1>4, <1>5

(* The elements of two lists joined.                                       *)
LEMMA ElementsOfConcat ==
  ASSUME NEW X, NEW s \in Seq(X), NEW t \in Seq(X)
  PROVE  Elements(s \o t) = Elements(s) \cup Elements(t)
<1>1. s \o t \in Seq(X) /\ Len(s \o t) = Len(s) + Len(t) /\ Len(s) \in Nat /\ Len(t) \in Nat
  OBVIOUS
<1>2. \A i \in 1..Len(s) : i \in 1..Len(s \o t) /\ (s \o t)[i] = s[i]
  BY <1>1
<1>3. \A i \in 1..Len(t) : Len(s) + i \in 1..Len(s \o t) /\ (s \o t)[Len(s) + i] = t[i]
  BY <1>1
<1>4. \A i \in 1..Len(s \o t) : i \in 1..Len(s) \/ (i - Len(s) \in 1..Len(t) /\ i = Len(s) + (i - Len(s)))
  BY <1>1
<1>5. \A x \in Elements(s \o t) : x \in Elements(s) \cup Elements(t)
  BY <1>2, <1>3, <1>4 DEF Elements
<1>6. \A x \in Elements(s) \cup Elements(t) : x \in Elements(s \o t)
  BY <1>2, <1>3 DEF Elements
<1> QED BY <1>5, <1>6

(* The states of a loop of n rounds: each round stays in X, and f holds    *)
(* the state after each round.                                             *)
StaysIn(X, n, step) == \A x \in X, i \in 1..n : step[<<x, i>>] \in X
Iterates(f, X, base, n, step) ==
  f \in [0..n -> X] /\ f[0] = base /\ \A i \in 1..n : f[i] = step[<<f[i - 1], i>>]

(* Such a loop has its sequence of states, whatever a round does.          *)
LEMMA Recursion ==
  ASSUME NEW X, NEW base \in X, NEW n \in Nat, NEW step, StaysIn(X, n, step)
  PROVE  \E f : Iterates(f, X, base, n, step)
<1> DEFINE Ok(m) == \E f \in [0..m -> X] :
                      f[0] = base /\ \A i \in 1..m : f[i] = step[<<f[i - 1], i>>]
           good == {m \in 0..n : Ok(m)}
<1>1. Ok(0)
  <2> DEFINE f == [i \in 0..0 |-> base]
  <2>1. f \in [0..0 -> X] /\ f[0] = base /\ 1..0 = {}
    OBVIOUS
  <2> HIDE DEF f
  <2> QED BY <2>1
<1>2. ASSUME NEW m \in 1..n, Ok(m - 1) PROVE Ok(m)
  <2>1. PICK f \in [0..(m - 1) -> X] :
          f[0] = base /\ \A i \in 1..(m - 1) : f[i] = step[<<f[i - 1], i>>]
    BY <1>2
  <2> DEFINE g == [i \in 0..m |-> IF i = m THEN step[<<f[m - 1], m>>] ELSE f[i]]
  <2>2. f[m - 1] \in X /\ step[<<f[m - 1], m>>] \in X
    BY DEF StaysIn
  <2>3. g \in [0..m -> X]
    BY <2>2
  <2>4. g[m] = step[<<f[m - 1], m>>] /\ \A i \in 0..(m - 1) : g[i] = f[i]
    OBVIOUS
  <2> HIDE DEF g
  <2>5. g[0] = base
    BY <2>1, <2>4
  <2>6. \A i \in 1..m : g[i] = step[<<g[i - 1], i>>]
    <3> TAKE i \in 1..m
    <3>1. i - 1 \in 0..(m - 1) /\ g[i - 1] = f[i - 1]
      BY <2>4
    <3>2. CASE i = m
      BY <2>4, <3>1, <3>2
    <3>3. CASE i # m
      <4>1. i \in 1..(m - 1) /\ g[i] = f[i]
        BY <2>4, <3>3
      <4> QED BY <2>1, <3>1, <4>1
    <3> QED BY <3>2, <3>3
  <2> QED BY <2>3, <2>5, <2>6
<1> HIDE DEF Ok
<1>3. 0 \in good /\ \A m \in 1..n : m - 1 \in good => m \in good
  BY <1>1, <1>2
<1> HIDE DEF good
<1>4. n \in good
  BY <1>3, CountUp
<1> QED BY <1>4 DEF Ok, good, Iterates

(* Joined lists lose no element and add none.                              *)
LEMMA JoinedElements ==
  ASSUME NEW X, NEW lists \in Seq(Seq(X))
  PROVE  /\ Joined(lists) \in Seq(X)
         /\ Elements(Joined(lists)) = UNION {Elements(lists[i]) : i \in 1..Len(lists)}
<1> DEFINE n == Len(lists)
           Eq(f) == f = [i \in 0..n |-> IF i = 0 THEN <<>> ELSE f[i - 1] \o lists[i]]
           upTo == CHOOSE f : Eq(f)
           step == [p \in Seq(X) \X (1..n) |-> p[1] \o lists[p[2]]]
           Y == Seq(X)
           none == <<>>
<1>1. n \in Nat /\ \A i \in 1..n : lists[i] \in Seq(X)
  OBVIOUS
<1>n. n \in Nat
  BY <1>1
<1>2. \A s \in Y, i \in 1..n : step[<<s, i>>] = s \o lists[i] /\ s \o lists[i] \in Y
  <2> SUFFICES ASSUME NEW s \in Y, NEW i \in 1..n
               PROVE  step[<<s, i>>] = s \o lists[i] /\ s \o lists[i] \in Y
    OBVIOUS
  <2>1. lists[i] \in Seq(X)
    BY <1>1
  <2>2. step[<<s, i>>] = s \o lists[i]
    OBVIOUS
  <2> HIDE DEF step, n
  <2> QED BY <2>1, <2>2
<1>3. Joined(lists) = upTo[n]
  BY DEF Joined
<1>m. none \in Y
  OBVIOUS
<1>4. Eq(upTo)
  <2> HIDE DEF step, n, Y, none
  <2>1. StaysIn(Y, n, step)
    BY <1>2 DEF StaysIn
  <2>2. PICK f : Iterates(f, Y, none, n, step)
    BY <1>n, <1>m, <2>1, Recursion
  <2>3. /\ f \in [0..n -> Y] /\ f[0] = none
        /\ \A i \in 1..n : f[i] = step[<<f[i - 1], i>>]
    BY <2>2 DEF Iterates
  <2>4. \A i \in 0..n : i # 0 => i \in 1..n /\ i - 1 \in 0..n
    BY <1>n
  <2>5. \A i \in 0..n : f[i] = IF i = 0 THEN none ELSE f[i - 1] \o lists[i]
    BY <1>2, <2>3, <2>4
  <2>6. f = [i \in 0..n |-> IF i = 0 THEN none ELSE f[i - 1] \o lists[i]]
    BY <2>3, <2>5
  <2>7. Eq(f)
    BY <2>6 DEF none
  <2> HIDE DEF Eq
  <2> QED BY <2>7
<1> HIDE DEF upTo
<1>5. upTo[0] = <<>> /\ \A i \in 1..n : upTo[i] = upTo[i - 1] \o lists[i]
  <2> HIDE DEF n
  <2>1. \A i \in 0..n : upTo[i] = IF i = 0 THEN <<>> ELSE upTo[i - 1] \o lists[i]
    BY <1>4
  <2>2. 0 \in 0..n /\ \A i \in 1..n : i \in 0..n /\ i # 0
    BY <1>n
  <2> HIDE DEF Eq
  <2> QED BY <2>1, <2>2
<1> HIDE DEF Eq, n
<1> DEFINE good == {i \in 0..n : /\ upTo[i] \in Seq(X)
                                 /\ Elements(upTo[i]) = UNION {Elements(lists[j]) : j \in 1..i}}
<1>6. 0 \in good
  <2>1. upTo[0] \in Seq(X) /\ Elements(upTo[0]) = {}
    BY <1>5 DEF Elements
  <2>2. 1..0 = {} /\ 0 \in 0..n
    BY <1>n
  <2> QED BY <2>1, <2>2
<1>7. ASSUME NEW i \in 1..n, i - 1 \in good PROVE i \in good
  <2>1. upTo[i - 1] \in Seq(X) /\ lists[i] \in Seq(X)
    BY <1>1, <1>7
  <2>0. upTo[i] = upTo[i - 1] \o lists[i]
    BY <1>5
  <2>2. upTo[i] \in Seq(X)
    BY <2>0, <2>1
  <2>3. Elements(upTo[i]) = Elements(upTo[i - 1]) \cup Elements(lists[i])
    BY <2>0, <2>1, ElementsOfConcat
  <2>4. Elements(upTo[i - 1]) = UNION {Elements(lists[j]) : j \in 1..(i - 1)}
    BY <1>7
  <2>5. 1..i = 1..(i - 1) \cup {i}
    OBVIOUS
  <2>6. Elements(upTo[i]) = UNION {Elements(lists[j]) : j \in 1..i}
    BY <2>3, <2>4, <2>5
  <2> QED BY <2>2, <2>6
<1>8. 0 \in good /\ \A i \in 1..n : i - 1 \in good => i \in good
  BY <1>6, <1>7
<1>9. n \in good
  <2> HIDE DEF good
  <2>1. \A i \in 0..n : i \in good
    BY <1>n, <1>8, CountUp
  <2> QED BY <1>n, <2>1
<1> QED BY <1>3, <1>9 DEF n

-----------------------------------------------------------------------------
(* The rows in the order of std::map, and the measured neighbours of a     *)
(* row by PCI: every one, once.                                            *)
LEMMA KeysInOrderElements ==
  ASSUME NEW S \in SUBSET RowKey
  PROVE  /\ KeysInOrder(S) \in Seq(S) /\ Elements(KeysInOrder(S)) = S
<1> DEFINE R == {p \in S \X S : KeyBefore(p[1], p[2])}
<1>1. IsFiniteSet(S)
  BY RowKeyFinite, FS_Subset
<1>2. \A a, b \in S : <<a, b>> \in R <=> KeyBefore(a, b)
  OBVIOUS
<1>3. \A a \in S : a.earfcn \in Nat /\ a.pci \in Nat /\ a = [earfcn |-> a.earfcn, pci |-> a.pci]
  <2> TAKE a \in S
  <2>1. a.earfcn \in Earfcns /\ a.pci \in Nat /\ a = [earfcn |-> a.earfcn, pci |-> a.pci]
    BY KeyParts
  <2> QED BY <2>1, PlannerAssumption
<1>4. KeysInOrder(S) = PlacedBy(S, Places(S, R))
  <2>1. \A t \in S : {u \in S : <<u, t>> \in R} = {u \in S : KeyBefore(u, t)}
    BY <1>2
  <2>2. Places(S, R) = [t \in S |-> Cardinality({u \in S : KeyBefore(u, t)})]
    BY <2>1 DEF Places
  <2>3. KeysInOrder(S) = PlacedBy(S, [t \in S |-> Cardinality({u \in S : KeyBefore(u, t)})])
    BY DEF KeysInOrder, Sorted, PlacedBy
  <2> QED BY <2>2, <2>3
<1> HIDE DEF R
<1>5. Orders(S, R)
  BY <1>2, <1>3 DEF Orders, KeyBefore
<1> QED BY <1>1, <1>4, <1>5, PlacedInOrder

LEMMA MeasInOrderElements ==
  ASSUME NEW S \in MeasList
  PROVE  LET seq == Sorted(S, LAMBDA a, b : a.pci < b.pci)
         IN  seq \in Seq(S) /\ Elements(seq) = S
<1> DEFINE R == {p \in S \X S : p[1].pci < p[2].pci}
           seq == Sorted(S, LAMBDA a, b : a.pci < b.pci)
           f == [m \in S |-> m.pci]
<1>1. \A m \in S : m.pci \in Pcis /\ m.pci \in Nat
  BY PlannerAssumption DEF MeasList
<1>2. \A m, n \in S : m.pci = n.pci => m = n
  BY DEF MeasList
<1>3. IsFiniteSet(S)
  <2>1. f \in Injection(S, Pcis)
    BY <1>1, <1>2 DEF Injection, IsInjective
  <2> HIDE DEF f
  <2> QED BY <2>1, PlannerAssumption, FS_Injection
<1>4. \A a, b \in S : <<a, b>> \in R <=> a.pci < b.pci
  OBVIOUS
<1>5. seq = PlacedBy(S, Places(S, R))
  <2>1. \A t \in S : {u \in S : <<u, t>> \in R} = {u \in S : u.pci < t.pci}
    BY <1>4
  <2>2. Places(S, R) = [t \in S |-> Cardinality({u \in S : u.pci < t.pci})]
    BY <2>1 DEF Places
  <2>3. seq = PlacedBy(S, [t \in S |-> Cardinality({u \in S : u.pci < t.pci})])
    BY DEF Sorted, PlacedBy
  <2> QED BY <2>2, <2>3
<1> HIDE DEF R
<1>6. Orders(S, R)
  BY <1>1, <1>2, <1>4 DEF Orders
<1>7. PlacedBy(S, Places(S, R)) \in Seq(S) /\ Elements(PlacedBy(S, Places(S, R))) = S
  BY <1>3, <1>6, PlacedInOrder
<1> HIDE DEF seq
<1>8. seq \in Seq(S) /\ Elements(seq) = S
  BY <1>5, <1>7
<1> QED BY <1>8 DEF seq

(* The keys that the planner lets in, and the offers it may meet: only     *)
(* the row of a cell offers it as FULL.                                    *)
UsableKeys == {k \in HopKey : Usable(k)}

SoundOffers(snap) ==
  {o \in Offers : /\ KeyOfTarget(o) \in UsableKeys
                  /\ o.full => cell_is_full_lte(snap, KeyOfTarget(o))}

(* What a usable row offers of itself.                                     *)
LEMMA OwnOfferSound ==
  ASSUME NEW snap, Snapshot(snap), NEW k \in Heard(snap), Usable(k)
  PROVE  /\ OwnOffer(snap, k) \in Seq(SoundOffers(snap))
         /\ Elements(OwnOffer(snap, k)) = {OwnOffer(snap, k)[1]}
         /\ KeyOfTarget(OwnOffer(snap, k)[1]) = k
         /\ OwnOffer(snap, k)[1].camped = snap[k].ever
         /\ OwnOffer(snap, k)[1].full = cell_is_full_lte(snap, k)
<1> DEFINE own == Target(k, snap[k].rsrp, snap[k].plmn, cell_is_full_lte(snap, k), snap[k].ever)
<1>1. OwnOffer(snap, k) = <<own>> /\ OwnOffer(snap, k)[1] = own
  BY DEF OwnOffer
<1>2. k \in RowKey
  BY DEF Heard, Snapshot
<1>3. own \in Offers
  <2>1. OwnOffer(snap, k)[1] \in Offers
    <3>1. \E j : j \in HopKey
      BY <1>2 DEF RowKey, HopKey, Usable
    <3> QED BY <3>1, RowsMakeOffers
  <2> QED BY <1>1, <2>1
<1>4. KeyOfTarget(own) = k /\ own.camped = snap[k].ever /\ own.full = cell_is_full_lte(snap, k)
  BY <1>2, KeyParts DEF Target, KeyOfTarget
<1>5. k \in UsableKeys
  BY <1>2 DEF RowKey, HopKey, UsableKeys, Usable
<1> HIDE DEF own
<1>6. own \in SoundOffers(snap)
  BY <1>3, <1>4, <1>5 DEF SoundOffers
<1>7. <<own>> \in Seq(SoundOffers(snap)) /\ Elements(<<own>>) = {own}
  BY <1>6 DEF Elements
<1> QED BY <1>1, <1>4, <1>7

(* What the SIB5 lists of a row offer.                                     *)
LEMMA InterOffersSound ==
  ASSUME NEW snap, Snapshot(snap), NEW k \in Heard(snap)
  PROVE  InterOffers(snap, k) \in Seq(SoundOffers(snap))
<1> DEFINE S == {j \in snap[k].inter : Usable(j)}
           named == KeysInOrder(S)
           Offer(i) == Target(named[i], Seeded, snap[k].plmn, FALSE, FALSE)
<1>1. k \in RowKey /\ snap[k] \in Row
  BY DEF Heard, Snapshot
<1>2. S \in SUBSET UsableKeys /\ S \in SUBSET RowKey
  BY <1>1 DEF Row, HopKey, RowKey, UsableKeys
<1> HIDE DEF S
<1>3. named \in Seq(S)
  BY <1>2, KeysInOrderElements
<1>4. InterOffers(snap, k) = [i \in 1..Len(named) |-> Offer(i)]
  BY DEF InterOffers, S
<1> HIDE DEF named
<1>5. \A i \in 1..Len(named) : Offer(i) \in SoundOffers(snap)
  <2> TAKE i \in 1..Len(named)
  <2>1. named[i] \in UsableKeys
    BY <1>2, <1>3
  <2>2. PICK j \in HopKey : j = named[i] /\ j \in UsableKeys
    BY <2>1 DEF UsableKeys
  <2>3. Target(j, Seeded, snap[k].plmn, FALSE, FALSE) \in Offers
    BY RowsMakeOffers DEF Seeded
  <2>4. /\ KeyOfTarget(Target(j, Seeded, snap[k].plmn, FALSE, FALSE)) = j
        /\ Target(j, Seeded, snap[k].plmn, FALSE, FALSE).full = FALSE
    BY DEF Target, KeyOfTarget, HopKey
  <2> QED BY <2>2, <2>3, <2>4 DEF SoundOffers
<1> HIDE DEF Offer
<1> QED BY <1>3, <1>4, <1>5

(* What the measured neighbours of a usable row offer.                     *)
LEMMA MeasOffersSound ==
  ASSUME NEW snap, Snapshot(snap), NEW k \in Heard(snap), Usable(k)
  PROVE  MeasOffers(snap, k) \in Seq(SoundOffers(snap))
<1> DEFINE S == snap[k].meas
           named == Sorted(S, LAMBDA a, b : a.pci < b.pci)
           Offer(i) == Target([earfcn |-> k.earfcn, pci |-> named[i].pci],
                              named[i].rsrp, snap[k].plmn, FALSE, FALSE)
<1>1. k \in RowKey /\ snap[k] \in Row
  BY DEF Heard, Snapshot
<1>2. S \in MeasList
  BY <1>1 DEF Row
<1>3. named \in Seq(S)
  <2> HIDE DEF S
  <2> QED BY <1>2, MeasInOrderElements
<1>4. MeasOffers(snap, k) = [i \in 1..Len(named) |-> Offer(i)]
  BY DEF MeasOffers
<1> HIDE DEF named
<1>5. \A i \in 1..Len(named) : Offer(i) \in SoundOffers(snap)
  <2> TAKE i \in 1..Len(named)
  <2>1. named[i] \in S
    BY <1>3
  <2>2. PICK p \in Pcis, r \in Nat : p = named[i].pci /\ r = named[i].rsrp
    BY <1>2, <2>1 DEF MeasList
  <2> DEFINE j == [earfcn |-> k.earfcn, pci |-> p]
  <2>3. j \in HopKey /\ j \in UsableKeys
    BY <1>1, PlannerAssumption DEF RowKey, HopKey, UsableKeys, Usable
  <2>4. Target(j, r, snap[k].plmn, FALSE, FALSE) \in Offers
    <3> HIDE DEF j
    <3> QED BY <2>3, RowsMakeOffers
  <2>5. /\ KeyOfTarget(Target(j, r, snap[k].plmn, FALSE, FALSE)) = j
        /\ Target(j, r, snap[k].plmn, FALSE, FALSE).full = FALSE
    BY DEF Target, KeyOfTarget
  <2>6. Offer(i) = Target(j, r, snap[k].plmn, FALSE, FALSE)
    BY <2>2
  <2> HIDE DEF Offer, j
  <2> QED BY <2>3, <2>4, <2>5, <2>6 DEF SoundOffers
<1> HIDE DEF Offer
<1> QED BY <1>3, <1>4, <1>5

(* All that a walk is offered is sound, and each usable row heard is       *)
(* among it.                                                               *)
LEMMA WalkOffersSound ==
  ASSUME NEW snap, Snapshot(snap)
  PROVE  /\ WalkOffers(snap) \in Seq(SoundOffers(snap))
         /\ \A k \in Heard(snap) : Usable(k) => OwnOffer(snap, k)[1] \in Elements(WalkOffers(snap))
<1> DEFINE X == SoundOffers(snap)
           S == {k \in Heard(snap) : Usable(k)}
           rows == KeysInOrder(S)
           Of(k) == OwnOffer(snap, k) \o InterOffers(snap, k) \o MeasOffers(snap, k)
           lists == [i \in 1..Len(rows) |-> Of(rows[i])]
<1>1. S \in SUBSET RowKey
  BY DEF Heard, Snapshot
<1>2. rows \in Seq(S) /\ Elements(rows) = S
  <2> HIDE DEF S
  <2> QED BY <1>1, KeysInOrderElements
<1>3. \A k \in S : /\ OwnOffer(snap, k) \in Seq(X) /\ InterOffers(snap, k) \in Seq(X)
                  /\ MeasOffers(snap, k) \in Seq(X)
                  /\ OwnOffer(snap, k)[1] \in Elements(OwnOffer(snap, k))
  <2> TAKE k \in S
  <2>1. k \in Heard(snap) /\ Usable(k)
    OBVIOUS
  <2> HIDE DEF S
  <2> QED BY <2>1, OwnOfferSound, InterOffersSound, MeasOffersSound
<1>4. WalkOffers(snap) = Joined(lists)
  BY DEF WalkOffers
<1> HIDE DEF X, S, rows
<1>5. \A k \in S : Of(k) \in Seq(X) /\ OwnOffer(snap, k)[1] \in Elements(Of(k))
  <2> TAKE k \in S
  <2>1. OwnOffer(snap, k) \o InterOffers(snap, k) \in Seq(X)
    BY <1>3
  <2>2. /\ Elements(OwnOffer(snap, k) \o InterOffers(snap, k))
             = Elements(OwnOffer(snap, k)) \cup Elements(InterOffers(snap, k))
        /\ Elements(Of(k)) = Elements(OwnOffer(snap, k) \o InterOffers(snap, k))
                              \cup Elements(MeasOffers(snap, k))
    BY <1>3, <2>1, ElementsOfConcat, ZenonT(60)
  <2> QED BY <1>3, <2>1, <2>2
<1> HIDE DEF Of
<1>6. \A i \in 1..Len(rows) : rows[i] \in S
  BY <1>2
<1>7. lists \in Seq(Seq(X)) /\ Len(lists) = Len(rows)
  BY <1>2, <1>5, <1>6
<1>8. \A i \in 1..Len(rows) : lists[i] = Of(rows[i])
  OBVIOUS
<1> HIDE DEF lists
<1>9. Joined(lists) \in Seq(X)
      /\ Elements(Joined(lists)) = UNION {Elements(lists[i]) : i \in 1..Len(lists)}
  BY <1>7, JoinedElements
<1>10. \A k \in S : OwnOffer(snap, k)[1] \in Elements(Joined(lists))
  <2> TAKE k \in S
  <2>1. PICK i \in 1..Len(rows) : rows[i] = k
    BY <1>2 DEF Elements
  <2>2. OwnOffer(snap, k)[1] \in Elements(lists[i])
    BY <1>5, <1>8, <2>1
  <2> QED BY <1>7, <1>9, <2>2
<1> QED BY <1>4, <1>9, <1>10 DEF X, S

(* All that a hop is offered is sound.                                     *)
LEMMA HopOffersSound ==
  ASSUME NEW snap, Snapshot(snap)
  PROVE  HopOffers(snap) \in Seq(SoundOffers(snap))
<1> DEFINE X == SoundOffers(snap)
           S == {k \in Heard(snap) : hop_earfcn_ok(k.earfcn)}
           rows == KeysInOrder(S)
           Of(k) == (IF k.pci # 0 THEN OwnOffer(snap, k) ELSE <<>>) \o InterOffers(snap, k)
           lists == [i \in 1..Len(rows) |-> Of(rows[i])]
<1>1. S \in SUBSET RowKey
  BY DEF Heard, Snapshot
<1>2. rows \in Seq(S)
  <2> HIDE DEF S
  <2> QED BY <1>1, KeysInOrderElements
<1>3. \A k \in S : InterOffers(snap, k) \in Seq(X) /\ (k.pci # 0 => OwnOffer(snap, k) \in Seq(X))
  BY OwnOfferSound, InterOffersSound DEF Usable
<1>4. HopOffers(snap) = Joined(lists)
  BY DEF HopOffers
<1> HIDE DEF X, S, rows
<1>5. \A k \in S : Of(k) \in Seq(X)
  <2> TAKE k \in S
  <2>1. CASE k.pci # 0
    BY <1>3, <2>1
  <2>2. CASE k.pci = 0
    <3>1. <<>> \in Seq(X)
      OBVIOUS
    <3> QED BY <1>3, <2>2, <3>1
  <2> QED BY <2>1, <2>2
<1> HIDE DEF Of
<1>6. \A i \in 1..Len(rows) : rows[i] \in S
  BY <1>2
<1>7. lists \in Seq(Seq(X))
  BY <1>2, <1>5, <1>6
<1> HIDE DEF lists
<1> QED BY <1>4, <1>7, JoinedElements DEF X

-----------------------------------------------------------------------------
(* The maps of targets that the loops build.                               *)
Collections == {best \in UNION {[D -> Offers] : D \in SUBSET UsableKeys} : Collected(best)}

(* One more target keeps a collection.                                     *)
LEMMA WithStays ==
  ASSUME NEW best \in Collections, NEW t \in Offers, KeyOfTarget(t) \in UsableKeys
  PROVE  With(best, t) \in Collections
<1>1. DOMAIN best \in SUBSET UsableKeys /\ Collected(best)
  BY DEF Collections
<1>2. DOMAIN With(best, t) \in SUBSET UsableKeys
  BY <1>1 DEF With
<1>3. With(best, t) \in [DOMAIN With(best, t) -> Offers]
  BY <1>1 DEF With, Collected
<1>4. Collected(With(best, t))
  BY <1>1, WithCollects
<1> QED BY <1>2, <1>3, <1>4 DEF Collections

(* The loops start from an empty one.                                      *)
LEMMA NoTargetsStays == NoTargets \in Collections
<1>1. NoTargets \in [{} -> Offers] /\ DOMAIN NoTargets = {}
  BY DEF NoTargets
<1> HIDE DEF NoTargets
<1>2. {} \in SUBSET UsableKeys
  OBVIOUS
<1>3. NoTargets \in UNION {[D -> Offers] : D \in SUBSET UsableKeys}
  BY <1>1, <1>2
<1> QED BY <1>1, <1>3 DEF Collections, Collected

(* A cell is FULL after a merge only if one of the two said so.            *)
LEMMA RicherFull ==
  ASSUME NEW old \in Offers, NEW t \in Offers, Richer(old, t).full
  PROVE  old.full \/ t.full
<1>1. t.full \in BOOLEAN /\ old.full \in BOOLEAN
  BY DEF Offers, Targets
<1>2. CASE (t.full /\ ~old.full) \/ (t.plmn # 0 /\ old.plmn = 0)
  <2>1. \A r : [t EXCEPT !.rsrp = r].full = t.full
    BY DEF Offers, Targets
  <2> QED BY <1>2, <2>1 DEF Richer
<1>3. CASE ~((t.full /\ ~old.full) \/ (t.plmn # 0 /\ old.plmn = 0))
  <2>1. PICK f \in BOOLEAN : f = (t.full \/ old.full)
    OBVIOUS
  <2>2. \A r : [t EXCEPT !.full = f, !.plmn = r].full = f /\ [old EXCEPT !.full = f, !.camps = r].full = f
    BY DEF Offers, Targets
  <2> QED BY <1>3, <2>1, <2>2 DEF Richer
<1> QED BY <1>2, <1>3

(* A round of the full walk: MergeLosesNothing within the collections,     *)
(* and no cell becomes FULL that neither the offer nor the target was.     *)
LEMMA UpsertAdds ==
  ASSUME NEW snap, Snapshot(snap), NEW best \in Collections, NEW t \in SoundOffers(snap)
  PROVE  LET new == Upsert(snap, best, t)
             key == KeyOfTarget(t)
         IN  /\ new \in Collections
             /\ \A k \in DOMAIN best : k \in DOMAIN new /\ NoPoorer(best[k], new[k])
             /\ ~t.camped => key \in DOMAIN new /\ NoPoorer(t, new[key])
             /\ \A k \in DOMAIN new : new[k].full =>
                  \/ k \in DOMAIN best /\ best[k].full
                  \/ k = key /\ t.full
<1> DEFINE new == Upsert(snap, best, t)
           key == KeyOfTarget(t)
           n == full_walk_plmn_camp_n(snap, t.earfcn, t.plmn)
           c == [t EXCEPT !.camps = n]
<1>1. t \in Offers /\ key \in UsableKeys /\ Collected(best)
  BY DEF SoundOffers, Collections
<1>2. n \in Nat
  <2>1. t.earfcn \in Earfcns
    BY <1>1 DEF Offers, Targets
  <2> QED BY <2>1, CampCountType
<1>3. c \in Offers /\ KeyOfTarget(c) = key /\ c.full = t.full
  <2> HIDE DEF n
  <2> QED BY <1>1, <1>2 DEF Offers, Targets, KeyOfTarget
<1>4. /\ t.camped => new = best
      /\ ~t.camped /\ key \in DOMAIN best => new = With(best, Richer(best[key], c))
      /\ ~t.camped /\ key \notin DOMAIN best => new = With(best, c)
  BY DEF Upsert
<1>5. /\ \A k \in DOMAIN best : k \in DOMAIN new /\ NoPoorer(best[k], new[k])
      /\ ~t.camped => key \in DOMAIN new /\ NoPoorer(t, new[key])
  <2>1. t \in Offers
    BY <1>1
  <2> QED BY <1>1, <2>1, MergeLosesNothing
<1> HIDE DEF new, key, c
<1>6. ASSUME NEW r \in Offers, KeyOfTarget(r) = key, new = With(best, r),
             r.full => (key \in DOMAIN best /\ best[key].full) \/ t.full
      PROVE  /\ new \in Collections
             /\ \A k \in DOMAIN new : new[k].full =>
                  \/ k \in DOMAIN best /\ best[k].full
                  \/ k = key /\ t.full
  <2>1. new \in Collections
    BY <1>1, <1>6, WithStays
  <2>2. /\ DOMAIN new = DOMAIN best \cup {key} /\ new[key] = r
        /\ \A k \in DOMAIN best : k # key => new[k] = best[k]
    BY <1>1, <1>6, WithCollects
  <2> QED BY <1>6, <2>1, <2>2
<1>7. /\ new \in Collections
      /\ \A k \in DOMAIN new : new[k].full =>
           \/ k \in DOMAIN best /\ best[k].full
           \/ k = key /\ t.full
  <2>1. CASE t.camped
    BY <1>4, <2>1
  <2>2. CASE ~t.camped /\ key \in DOMAIN best
    <3> DEFINE r == Richer(best[key], c)
    <3>1. best[key] \in Offers /\ KeyOfTarget(best[key]) = key
      BY <1>1, <2>2 DEF Collected
    <3>2. r \in Offers /\ KeyOfTarget(r) = key
      BY <1>3, <3>1, RicherKeeps
    <3>3. r.full => best[key].full \/ t.full
      BY <1>3, <3>1, RicherFull
    <3>4. new = With(best, r)
      BY <1>4, <2>2
    <3> HIDE DEF r
    <3> QED BY <1>6, <2>2, <3>2, <3>3, <3>4
  <2>3. CASE ~t.camped /\ key \notin DOMAIN best
    BY <1>3, <1>4, <1>6, <2>3
  <2> QED BY <2>1, <2>2, <2>3
<1> QED BY <1>5, <1>7 DEF new, key

(* A round of the hop.                                                     *)
LEMMA ConsiderStays ==
  ASSUME NEW snap, NEW best \in Collections, NEW t \in SoundOffers(snap)
  PROVE  Consider(snap, best, t) \in Collections
<1>1. t \in Offers /\ KeyOfTarget(t) \in UsableKeys
  BY DEF SoundOffers
<1>2. With(best, t) \in Collections
  BY <1>1, WithStays
<1> QED BY <1>2 DEF Consider

(* The loop of a full walk: the targets after each offer.                  *)
WalkLoop(best, snap) ==
  LET offers == WalkOffers(snap)
  IN  /\ best[0] = NoTargets
      /\ \A i \in 0..Len(offers) : best[i] \in Collections
      /\ \A i \in 1..Len(offers) : best[i] = Upsert(snap, best[i - 1], offers[i])

(* The function by which WalkCandidates folds its offers is that loop.     *)
LEMMA WalkLoops ==
  ASSUME NEW snap, Snapshot(snap)
  PROVE  \E best : WalkLoop(best, snap) /\ WalkCandidates(snap) = Held(best[Len(WalkOffers(snap))])
<1> DEFINE offers == WalkOffers(snap)
           n == Len(offers)
           Eq(f) == f = [i \in 0..n |-> IF i = 0 THEN NoTargets ELSE Upsert(snap, f[i - 1], offers[i])]
           best == CHOOSE f : Eq(f)
           step == [p \in Collections \X (1..n) |-> Upsert(snap, p[1], offers[p[2]])]
<1>1. n \in Nat /\ \A i \in 1..n : offers[i] \in SoundOffers(snap)
  BY WalkOffersSound
<1>2. WalkCandidates(snap) = Held(best[n])
  BY DEF WalkCandidates
<1> HIDE DEF n, offers
<1>3. \A b \in Collections, i \in 1..n :
        step[<<b, i>>] = Upsert(snap, b, offers[i]) /\ Upsert(snap, b, offers[i]) \in Collections
  <2> SUFFICES ASSUME NEW b \in Collections, NEW i \in 1..n
               PROVE  /\ step[<<b, i>>] = Upsert(snap, b, offers[i])
                      /\ Upsert(snap, b, offers[i]) \in Collections
    OBVIOUS
  <2>1. offers[i] \in SoundOffers(snap)
    BY <1>1
  <2>2. step[<<b, i>>] = Upsert(snap, b, offers[i])
    OBVIOUS
  <2> HIDE DEF step
  <2> QED BY <2>1, <2>2, UpsertAdds
<1> HIDE DEF step
<1>4. Eq(best)
  <2>1. StaysIn(Collections, n, step)
    BY <1>3 DEF StaysIn
  <2>2. PICK f : Iterates(f, Collections, NoTargets, n, step)
    BY <1>1, <2>1, NoTargetsStays, Recursion
  <2>3. /\ f \in [0..n -> Collections] /\ f[0] = NoTargets
        /\ \A i \in 1..n : f[i] = step[<<f[i - 1], i>>]
    BY <2>2 DEF Iterates
  <2>4. \A i \in 0..n : i # 0 => i \in 1..n /\ i - 1 \in 0..n
    BY <1>1
  <2>5. \A i \in 0..n : f[i] = IF i = 0 THEN NoTargets ELSE Upsert(snap, f[i - 1], offers[i])
    BY <1>3, <2>3, <2>4
  <2>6. Eq(f)
    BY <2>3, <2>5
  <2> HIDE DEF Eq
  <2> QED BY <2>6
<1> HIDE DEF best
<1>5. best[0] = NoTargets /\ \A i \in 1..n : best[i] = Upsert(snap, best[i - 1], offers[i])
  <2>1. \A i \in 0..n : best[i] = IF i = 0 THEN NoTargets ELSE Upsert(snap, best[i - 1], offers[i])
    BY <1>4
  <2>2. 0 \in 0..n /\ \A i \in 1..n : i \in 0..n /\ i # 0
    BY <1>1
  <2> HIDE DEF Eq
  <2> QED BY <2>1, <2>2
<1> DEFINE good == {i \in 0..n : best[i] \in Collections}
<1>6. 0 \in good
  BY <1>1, <1>5, NoTargetsStays
<1>7. \A i \in 1..n : i - 1 \in good => i \in good
  <2> SUFFICES ASSUME NEW i \in 1..n, best[i - 1] \in Collections PROVE best[i] \in Collections
    BY <1>1
  <2>1. best[i] = Upsert(snap, best[i - 1], offers[i])
    BY <1>5
  <2>2. Upsert(snap, best[i - 1], offers[i]) \in Collections
    BY <1>3
  <2> QED BY <2>1, <2>2
<1>8. \A i \in 0..n : i \in good
  <2>1. n \in Nat
    BY <1>1
  <2> HIDE DEF good
  <2> QED BY <1>6, <1>7, <2>1, CountUp
<1>9. WalkLoop(best, snap)
  BY <1>5, <1>8 DEF WalkLoop, n, offers
<1> QED BY <1>2, <1>9 DEF n, offers

(* Likewise the loop of a hop.                                              *)
LEMMA HopLoops ==
  ASSUME NEW snap, Snapshot(snap)
  PROVE  \E best \in Collections : HopCandidates(snap) = Held(best)
<1> DEFINE offers == HopOffers(snap)
           n == Len(offers)
           Eq(f) == f = [i \in 0..n |-> IF i = 0 THEN NoTargets ELSE Consider(snap, f[i - 1], offers[i])]
           best == CHOOSE f : Eq(f)
           step == [p \in Collections \X (1..n) |-> Consider(snap, p[1], offers[p[2]])]
<1>1. n \in Nat /\ \A i \in 1..n : offers[i] \in SoundOffers(snap)
  BY HopOffersSound
<1>2. HopCandidates(snap) = Held(best[n])
  BY DEF HopCandidates
<1> HIDE DEF n, offers
<1>3. \A b \in Collections, i \in 1..n :
        step[<<b, i>>] = Consider(snap, b, offers[i]) /\ Consider(snap, b, offers[i]) \in Collections
  <2> SUFFICES ASSUME NEW b \in Collections, NEW i \in 1..n
               PROVE  /\ step[<<b, i>>] = Consider(snap, b, offers[i])
                      /\ Consider(snap, b, offers[i]) \in Collections
    OBVIOUS
  <2>1. offers[i] \in SoundOffers(snap)
    BY <1>1
  <2>2. step[<<b, i>>] = Consider(snap, b, offers[i])
    OBVIOUS
  <2> HIDE DEF step
  <2> QED BY <2>1, <2>2, ConsiderStays
<1> HIDE DEF step
<1>4. Eq(best)
  <2>1. StaysIn(Collections, n, step)
    BY <1>3 DEF StaysIn
  <2>2. PICK f : Iterates(f, Collections, NoTargets, n, step)
    BY <1>1, <2>1, NoTargetsStays, Recursion
  <2>3. /\ f \in [0..n -> Collections] /\ f[0] = NoTargets
        /\ \A i \in 1..n : f[i] = step[<<f[i - 1], i>>]
    BY <2>2 DEF Iterates
  <2>4. \A i \in 0..n : i # 0 => i \in 1..n /\ i - 1 \in 0..n
    BY <1>1
  <2>5. \A i \in 0..n : f[i] = IF i = 0 THEN NoTargets ELSE Consider(snap, f[i - 1], offers[i])
    BY <1>3, <2>3, <2>4
  <2>6. Eq(f)
    BY <2>3, <2>5
  <2> HIDE DEF Eq
  <2> QED BY <2>6
<1> HIDE DEF best
<1>5. best[0] = NoTargets /\ \A i \in 1..n : best[i] = Consider(snap, best[i - 1], offers[i])
  <2>1. \A i \in 0..n : best[i] = IF i = 0 THEN NoTargets ELSE Consider(snap, best[i - 1], offers[i])
    BY <1>4
  <2>2. 0 \in 0..n /\ \A i \in 1..n : i \in 0..n /\ i # 0
    BY <1>1
  <2> HIDE DEF Eq
  <2> QED BY <2>1, <2>2
<1> DEFINE good == {i \in 0..n : best[i] \in Collections}
<1>6. 0 \in good
  BY <1>1, <1>5, NoTargetsStays
<1>7. \A i \in 1..n : i - 1 \in good => i \in good
  <2> SUFFICES ASSUME NEW i \in 1..n, best[i - 1] \in Collections PROVE best[i] \in Collections
    BY <1>1
  <2>1. best[i] = Consider(snap, best[i - 1], offers[i])
    BY <1>5
  <2>2. Consider(snap, best[i - 1], offers[i]) \in Collections
    BY <1>3
  <2> QED BY <2>1, <2>2
<1>8. \A i \in 0..n : i \in good
  <2>1. n \in Nat
    BY <1>1
  <2> HIDE DEF good
  <2> QED BY <1>6, <1>7, <2>1, CountUp
<1>9. best[n] \in Collections
  BY <1>1, <1>8
<1> QED BY <1>2, <1>9

(* Offers that are no poorer, one after the other.                         *)
LEMMA NoPoorerTransitive ==
  ASSUME NEW a \in Offers, NEW b \in Offers, NEW c \in Offers, NoPoorer(a, b), NoPoorer(b, c)
  PROVE  NoPoorer(a, c)
<1>1. a.rsrp \in Nat /\ b.rsrp \in Nat /\ c.rsrp \in Nat
  BY DEF Offers, Targets
<1> QED BY <1>1 DEF NoPoorer

(* What the loop ends with: each uncamped offer has a target no poorer     *)
(* than it, and a target is FULL only if its row is. By induction over     *)
(* the rounds.                                                             *)
LEMMA WalkCollects ==
  ASSUME NEW snap, Snapshot(snap)
  PROVE  \E best \in Collections :
           /\ WalkCandidates(snap) = Held(best)
           /\ \A o \in Elements(WalkOffers(snap)) :
                ~o.camped => KeyOfTarget(o) \in DOMAIN best /\ NoPoorer(o, best[KeyOfTarget(o)])
           /\ \A k \in DOMAIN best : best[k].full => cell_is_full_lte(snap, k)
<1> DEFINE offers == WalkOffers(snap)
           n == Len(offers)
<1>1. n \in Nat /\ \A i \in 1..n : offers[i] \in SoundOffers(snap)
  BY WalkOffersSound
<1>2. PICK best : WalkLoop(best, snap) /\ WalkCandidates(snap) = Held(best[n])
  BY WalkLoops
<1>3. /\ best[0] = NoTargets
      /\ \A i \in 0..n : best[i] \in Collections
      /\ \A i \in 1..n : best[i] = Upsert(snap, best[i - 1], offers[i])
  BY <1>2 DEF WalkLoop
<1>4. Elements(offers) = {offers[i] : i \in 1..n}
  BY DEF Elements
<1> HIDE DEF offers, n
<1> DEFINE Has(b, o) == ~o.camped => KeyOfTarget(o) \in DOMAIN b /\ NoPoorer(o, b[KeyOfTarget(o)])
           Full(b) == \A k \in DOMAIN b : b[k].full => cell_is_full_lte(snap, k)
           good == {i \in 0..n : Full(best[i]) /\ \A j \in 1..i : Has(best[i], offers[j])}
<1>5. 0 \in good
  <2>1. DOMAIN best[0] = {} /\ 1..0 = {}
    BY <1>3 DEF NoTargets
  <2> QED BY <1>1, <2>1
<1>6. ASSUME NEW i \in 1..n, i - 1 \in good PROVE i \in good
  <2> DEFINE old == best[i - 1]
             new == best[i]
             t == offers[i]
  <2>1. i - 1 \in 0..n /\ i \in 0..n
    BY <1>1
  <2>2. old \in Collections /\ new \in Collections /\ t \in SoundOffers(snap) /\ new = Upsert(snap, old, t)
    BY <1>1, <1>3, <2>1
  <2>3. Full(old) /\ \A j \in 1..(i - 1) : Has(old, offers[j])
    BY <1>6
  <2> HIDE DEF old, new, t
  <2>4. /\ \A k \in DOMAIN old : k \in DOMAIN new /\ NoPoorer(old[k], new[k])
        /\ ~t.camped => KeyOfTarget(t) \in DOMAIN new /\ NoPoorer(t, new[KeyOfTarget(t)])
        /\ \A k \in DOMAIN new : new[k].full =>
             \/ k \in DOMAIN old /\ old[k].full
             \/ k = KeyOfTarget(t) /\ t.full
    BY <2>2, UpsertAdds
  <2>5. Full(new)
    <3>1. t.full => cell_is_full_lte(snap, KeyOfTarget(t))
      BY <2>2 DEF SoundOffers
    <3> QED BY <2>3, <2>4, <3>1
  <2>6. ASSUME NEW j \in 1..i PROVE Has(new, offers[j])
    <3>1. CASE j = i
      BY <2>4, <3>1 DEF t
    <3>2. CASE j # i
      <4>1. j \in 1..(i - 1) /\ j \in 1..n
        BY <1>1, <3>2
      <4> DEFINE o == offers[j]
                 k == KeyOfTarget(o)
      <4> SUFFICES ASSUME ~o.camped PROVE k \in DOMAIN new /\ NoPoorer(o, new[k])
        OBVIOUS
      <4>2. k \in DOMAIN old /\ NoPoorer(o, old[k])
        BY <2>3, <4>1
      <4>3. k \in DOMAIN new /\ NoPoorer(old[k], new[k])
        BY <2>4, <4>2
      <4>4. o \in Offers /\ old[k] \in Offers /\ new[k] \in Offers
        BY <1>1, <2>2, <4>1, <4>2, <4>3 DEF SoundOffers, Collections, Collected
      <4> HIDE DEF o, k
      <4> QED BY <4>2, <4>3, <4>4, NoPoorerTransitive
    <3> QED BY <3>1, <3>2
  <2> QED BY <2>1, <2>5, <2>6 DEF new
<1>7. n \in good
  <2>1. n \in Nat /\ \A i \in 1..n : i - 1 \in good => i \in good
    BY <1>1, <1>6
  <2> HIDE DEF good
  <2>2. \A i \in 0..n : i \in good
    BY <1>5, <2>1, CountUp
  <2> QED BY <2>1, <2>2
<1>8. best[n] \in Collections /\ Full(best[n]) /\ \A j \in 1..n : Has(best[n], offers[j])
  BY <1>1, <1>3, <1>7
<1> DEFINE last == best[n]
<1>9. WalkCandidates(snap) = Held(last) /\ last \in Collections /\ Full(last)
      /\ \A o \in Elements(offers) : Has(last, o)
  BY <1>2, <1>4, <1>8
<1> HIDE DEF last
<1> QED BY <1>9 DEF offers

-----------------------------------------------------------------------------
(* One target for each cell makes finitely many.                           *)
LEMMA OnePerCellFinite ==
  ASSUME NEW C, OnePerCell(C), \A t \in C : KeyOfTarget(t) \in HopKey
  PROVE  IsFiniteSet(C) /\ Cardinality(C) <= Cardinality(HopKey) /\ Cardinality(HopKey) \in Nat
<1>1. IsFiniteSet(HopKey) /\ Cardinality(HopKey) \in Nat
  <2>1. HopKey \in SUBSET RowKey
    BY DEF HopKey, RowKey
  <2> QED BY <2>1, RowKeyFinite, FS_Subset, FS_CardinalityType
<1> DEFINE f == [t \in C |-> KeyOfTarget(t)]
<1>2. f \in Injection(C, HopKey)
  BY DEF Injection, IsInjective, OnePerCell
<1> HIDE DEF f
<1> QED BY <1>1, <1>2, FS_Injection

(* A list with room for all is not cut.                                    *)
LEMMA NoneIsCut ==
  ASSUME NEW S, IsFiniteSet(S), NEW R, Orders(S, R), NEW maxN \in Nat, Cardinality(S) <= maxN
  PROVE  LET seq == PlacedBy(S, Places(S, R))
         IN  SubSeq(seq, 1, IF Len(seq) <= maxN THEN Len(seq) ELSE maxN) = seq
<1> DEFINE seq == PlacedBy(S, Places(S, R))
<1>1. seq \in Seq(S) /\ Len(seq) <= maxN
  BY PlacedInOrder
<1> HIDE DEF seq
<1>2. SubSeq(seq, 1, Len(seq)) = seq
  BY <1>1
<1> QED BY <1>1, <1>2 DEF seq

(* With room for all, the list of a full walk holds every candidate, and   *)
(* none is better than the first.                                          *)
LEMMA WalkListed ==
  ASSUME NEW snap, NEW on, on = FullOn(snap), NEW maxN \in Nat,
         NEW C, C = WalkCandidates(snap), IsFiniteSet(C), Cardinality(C) <= maxN,
         C \in SUBSET Targets, OnePerCell(C), on \in Counts
  PROVE  LET list == pick_full_walk_targets(snap, maxN)
         IN  /\ Elements(list) = C
             /\ C # {} => /\ list[1] \in C
                          /\ \A t \in C : ~hop_target_better(t, list[1], on, TRUE)
<1> DEFINE R == {p \in C \X C : hop_target_better(p[1], p[2], on, TRUE)}
           list == pick_full_walk_targets(snap, maxN)
<1>1. \A a, b \in C : <<a, b>> \in R <=> hop_target_better(a, b, on, TRUE)
  OBVIOUS
<1>2. /\ \A a \in C : ~hop_target_better(a, a, on, TRUE)
      /\ \A a, b \in C : a # b => (hop_target_better(a, b, on, TRUE) <=> ~hop_target_better(b, a, on, TRUE))
      /\ \A a, b, c \in C : hop_target_better(a, b, on, TRUE) /\ hop_target_better(b, c, on, TRUE)
                             => hop_target_better(a, c, on, TRUE)
  <2>1. \A a, b \in C : a # b => KeyOfTarget(a) # KeyOfTarget(b)
    BY DEF OnePerCell
  <2>2. TRUE \in BOOLEAN /\ \A a \in C : a \in Targets
    OBVIOUS
  <2>3. \A a \in C : ~hop_target_better(a, a, on, TRUE)
    BY <2>2, BetterIrreflexive
  <2>4. \A a, b \in C : a # b => (hop_target_better(a, b, on, TRUE) <=> ~hop_target_better(b, a, on, TRUE))
    BY <2>1, <2>2, BetterTotal
  <2>5. \A a, b, c \in C : hop_target_better(a, b, on, TRUE) /\ hop_target_better(b, c, on, TRUE)
                       => hop_target_better(a, c, on, TRUE)
    BY <2>2, BetterTransitive
  <2> QED BY <2>3, <2>4, <2>5
<1>3. \A t \in C : {u \in C : <<u, t>> \in R} = {u \in C : hop_target_better(u, t, on, TRUE)}
  BY <1>1
<1> HIDE DEF R
<1>4. Orders(C, R)
  BY <1>1, <1>2 DEF Orders
<1> DEFINE seq == PlacedBy(C, Places(C, R))
           Cut(s) == SubSeq(s, 1, IF Len(s) <= maxN THEN Len(s) ELSE maxN)
<1>5. Places(C, R) = [t \in C |-> Cardinality({u \in C : hop_target_better(u, t, on, TRUE)})]
  BY <1>3 DEF Places
<1>6. list = Cut(PlacedBy(C, [t \in C |-> Cardinality({u \in C : hop_target_better(u, t, on, TRUE)})]))
  BY DEF pick_full_walk_targets, Ranked, Sorted, PlacedBy
<1>7. list = Cut(seq)
  BY <1>5, <1>6
<1>8. Cut(seq) = seq
  BY <1>4, NoneIsCut
<1>9. /\ Elements(seq) = C /\ Len(seq) \in Nat
      /\ \A i, j \in 1..Len(seq) : i < j => <<seq[i], seq[j]>> \in R
  BY <1>4, PlacedInOrder
<1> HIDE DEF seq, list, Cut
<1>10. ASSUME C # {} PROVE seq[1] \in C /\ \A t \in C : ~hop_target_better(t, seq[1], on, TRUE)
  <2>1. Len(seq) >= 1
    BY <1>9, <1>10 DEF Elements
  <2>2. seq[1] \in C
    BY <1>9, <2>1 DEF Elements
  <2>3. ASSUME NEW t \in C PROVE ~hop_target_better(t, seq[1], on, TRUE)
    <3>1. PICK i \in 1..Len(seq) : seq[i] = t
      BY <1>9 DEF Elements
    <3>2. CASE i = 1
      BY <1>2, <2>2, <3>1, <3>2
    <3>3. CASE i # 1
      <4>1. 1 < i /\ 1 \in 1..Len(seq)
        BY <2>1, <3>3
      <4>2. <<seq[1], t>> \in R
        BY <1>9, <3>1, <4>1
      <4>3. <<t, seq[1]>> \notin R
        BY <1>4, <2>2, <4>2 DEF Orders
      <4> QED BY <1>1, <2>2, <4>3
    <3> QED BY <3>2, <3>3
  <2> QED BY <2>2, <2>3
<1> QED BY <1>7, <1>8, <1>9, <1>10 DEF list

(* Likewise the list of seeds.                                             *)
LEMMA SeedsListed ==
  ASSUME NEW snap, NEW on, on = FullOn(snap), NEW maxN \in Nat,
         NEW C, C = SeedCandidates(snap, TRUE), IsFiniteSet(C), Cardinality(C) <= maxN,
         C \in SUBSET Targets, OnePerCell(C), on \in Counts
  PROVE  Elements(pick_seed_targets(snap, maxN, TRUE)) = C
<1> DEFINE R == {p \in C \X C : hop_seed_better(p[1], p[2], on, TRUE)}
           list == pick_seed_targets(snap, maxN, TRUE)
<1>1. \A a, b \in C : <<a, b>> \in R <=> hop_seed_better(a, b, on, TRUE)
  OBVIOUS
<1>2. /\ \A a \in C : ~hop_seed_better(a, a, on, TRUE)
      /\ \A a, b \in C : a # b => (hop_seed_better(a, b, on, TRUE) <=> ~hop_seed_better(b, a, on, TRUE))
      /\ \A a, b, c \in C : hop_seed_better(a, b, on, TRUE) /\ hop_seed_better(b, c, on, TRUE)
                             => hop_seed_better(a, c, on, TRUE)
  <2>1. \A a, b \in C : a # b => KeyOfTarget(a) # KeyOfTarget(b)
    BY DEF OnePerCell
  <2>2. TRUE \in BOOLEAN /\ \A a \in C : a \in Targets
    OBVIOUS
  <2>3. \A a \in C : ~hop_seed_better(a, a, on, TRUE)
    BY <2>2, BetterIrreflexive
  <2>4. \A a, b \in C : a # b => (hop_seed_better(a, b, on, TRUE) <=> ~hop_seed_better(b, a, on, TRUE))
    BY <2>1, <2>2, BetterTotal
  <2>5. \A a, b, c \in C : hop_seed_better(a, b, on, TRUE) /\ hop_seed_better(b, c, on, TRUE)
                       => hop_seed_better(a, c, on, TRUE)
    BY <2>2, SeedBetterTransitive
  <2> QED BY <2>3, <2>4, <2>5
<1>3. \A t \in C : {u \in C : <<u, t>> \in R} = {u \in C : hop_seed_better(u, t, on, TRUE)}
  BY <1>1
<1> HIDE DEF R
<1>4. Orders(C, R)
  BY <1>1, <1>2 DEF Orders
<1> DEFINE seq == PlacedBy(C, Places(C, R))
           Cut(s) == SubSeq(s, 1, IF Len(s) <= maxN THEN Len(s) ELSE maxN)
<1>5. Places(C, R) = [t \in C |-> Cardinality({u \in C : hop_seed_better(u, t, on, TRUE)})]
  BY <1>3 DEF Places
<1>6. list = Cut(PlacedBy(C, [t \in C |-> Cardinality({u \in C : hop_seed_better(u, t, on, TRUE)})]))
  BY DEF pick_seed_targets, Ranked, Sorted, PlacedBy
<1>7. list = Cut(seq)
  BY <1>5, <1>6
<1>8. Cut(seq) = seq /\ Elements(seq) = C
  BY <1>4, NoneIsCut, PlacedInOrder
<1> HIDE DEF seq, list, Cut
<1>9. Elements(list) = C
  BY <1>7, <1>8
<1> QED BY <1>9 DEF list

(* What the registry may hold is a snapshot at every moment.               *)
LEMMA Snapshots == Spec => []Snapshot(cells)
<1>1. Init => Snapshot(cells)
  <2>1. NoCell \in Row
    BY DEF NoCell, Row, Unmeasured, MeasList
  <2> QED BY <2>1, RowKindsAssumption DEF Init, Snapshot
<1>2. Snapshot(cells) /\ [Next]_cells => Snapshot(cells)'
  <2> SUFFICES ASSUME Snapshot(cells), [Next]_cells PROVE Snapshot(cells')
    BY DEF Snapshot
  <2>1. CASE UNCHANGED cells
    BY <2>1
  <2>2. CASE Next
    <3>k. PICK k \in Keys : Hear(k)
      BY <2>2 DEF Next
    <3>1. PICK r \in RowKinds[k] : cells' = [cells EXCEPT ![k] = r]
      BY <3>k DEF Hear
    <3>2. r \in Row
      BY RowKindsAssumption
    <3> QED BY <3>1, <3>2 DEF Snapshot
  <2> QED BY <2>1, <2>2
<1> QED BY <1>1, <1>2, PTL DEF Spec

(* A collection holds one target for each of its usable keys.              *)
LEMMA HeldIsOnePerCell ==
  ASSUME NEW best \in Collections
  PROVE  /\ Held(best) \in SUBSET Targets /\ OnePerCell(Held(best))
         /\ \A t \in Held(best) : KeyOfTarget(t) \in HopKey
         /\ DOMAIN best \in SUBSET UsableKeys
         /\ \A k \in DOMAIN best : best[k] \in Held(best) /\ KeyOfTarget(best[k]) = k
<1>1. DOMAIN best \in SUBSET UsableKeys /\ Collected(best)
  BY DEF Collections
<1>2. \A k \in DOMAIN best : best[k] \in Targets /\ KeyOfTarget(best[k]) = k
  BY <1>1 DEF Collected, Offers
<1> QED BY <1>1, <1>2 DEF Held, OnePerCell, UsableKeys

(* The lists of HopSnapshots have room for all.                            *)
LEMMA RoomForAll == All \in Nat /\ All >= Cardinality(HopKey)
<1>1. Cardinality(Keys) \in Nat /\ Cardinality(HopKey) \in Nat
  <2>1. Keys \in SUBSET RowKey /\ HopKey \in SUBSET RowKey
    BY RowKindsAssumption DEF HopKey, RowKey
  <2> QED BY <2>1, CountType
<1> QED BY <1>1 DEF All

(* The list of a full walk of the snapshot at hand, from its last          *)
(* collection.                                                             *)
LEMMA WalkListOf ==
  ASSUME Snapshot(cells)
  PROVE  \E best \in Collections :
           /\ Elements(WalkList) = Held(best)
           /\ \A o \in Elements(WalkOffers(cells)) :
                ~o.camped => KeyOfTarget(o) \in DOMAIN best /\ NoPoorer(o, best[KeyOfTarget(o)])
           /\ \A k \in DOMAIN best : best[k].full => cell_is_full_lte(cells, k)
           /\ Held(best) # {} =>
                /\ WalkList[1] \in Held(best)
                /\ \A t \in Held(best) : ~hop_target_better(t, WalkList[1], FullOn(cells), TRUE)
<1>1. PICK best \in Collections :
        /\ WalkCandidates(cells) = Held(best)
        /\ \A o \in Elements(WalkOffers(cells)) :
             ~o.camped => KeyOfTarget(o) \in DOMAIN best /\ NoPoorer(o, best[KeyOfTarget(o)])
        /\ \A k \in DOMAIN best : best[k].full => cell_is_full_lte(cells, k)
  BY WalkCollects
<1> DEFINE C == Held(best)
<1>2. /\ C \in SUBSET Targets /\ OnePerCell(C)
      /\ \A t \in C : KeyOfTarget(t) \in HopKey
  BY HeldIsOnePerCell
<1>3. C = WalkCandidates(cells)
  BY <1>1
<1> HIDE DEF C
<1>4. IsFiniteSet(C) /\ Cardinality(C) <= All /\ All \in Nat
  <2>1. /\ IsFiniteSet(C) /\ Cardinality(C) <= Cardinality(HopKey) /\ Cardinality(HopKey) \in Nat
        /\ Cardinality(C) \in Nat
    BY <1>2, OnePerCellFinite, FS_CardinalityType
  <2> QED BY <2>1, RoomForAll
<1>5. FullOn(cells) \in Counts
  BY FullOnType
<1>6. /\ Elements(WalkList) = C
      /\ C # {} => /\ WalkList[1] \in C
                   /\ \A t \in C : ~hop_target_better(t, WalkList[1], FullOn(cells), TRUE)
  BY <1>2, <1>3, <1>4, <1>5, WalkListed DEF WalkList
<1> QED BY <1>1, <1>6 DEF C

(* Every seed candidate is listed.                                         *)
LEMMA SeedListOf ==
  ASSUME Snapshot(cells)
  PROVE  Elements(SeedList(TRUE)) = SeedCandidates(cells, TRUE)
<1> DEFINE C == SeedCandidates(cells, TRUE)
<1>0. \A t \in C : \E k \in Heard(cells) :
        t = SeedTarget(cells, k, TRUE) /\ Usable(k) /\ t \in Targets /\ KeyOfTarget(t) = k
  BY SeedTargetType DEF SeedCandidates
<1>1. C \in SUBSET Targets /\ OnePerCell(C)
  <2> HIDE DEF C
  <2> QED BY <1>0 DEF OnePerCell
<1>3. \A t \in C : KeyOfTarget(t) \in HopKey
  <2>1. \A k \in Heard(cells) : Usable(k) => k \in HopKey
    BY DEF Heard, Snapshot, Usable, RowKey, HopKey
  <2> HIDE DEF C
  <2> QED BY <1>0, <2>1
<1>4. C = SeedCandidates(cells, TRUE)
  OBVIOUS
<1> HIDE DEF C
<1>5. IsFiniteSet(C) /\ Cardinality(C) <= All /\ All \in Nat
  <2>1. /\ IsFiniteSet(C) /\ Cardinality(C) <= Cardinality(HopKey) /\ Cardinality(HopKey) \in Nat
        /\ Cardinality(C) \in Nat
    BY <1>1, <1>3, OnePerCellFinite, FS_CardinalityType
  <2> QED BY <2>1, RoomForAll
<1>6. FullOn(cells) \in Counts
  BY FullOnType
<1>7. Elements(SeedList(TRUE)) = C
  BY <1>1, <1>4, <1>5, <1>6, SeedsListed DEF SeedList
<1> QED BY <1>4, <1>7

-----------------------------------------------------------------------------
(* Whatever the registry holds, what pick_hop_targets,                     *)
(* pick_full_walk_targets and pick_seed_targets hand to std::sort is       *)
(* strictly ordered by their comparators.                                  *)
THEOREM RankingsStayStrict == Spec => []RankingIsStrictOrder
<1>1. Snapshot(cells) => RankingIsStrictOrder
  <2> SUFFICES ASSUME Snapshot(cells) PROVE RankingIsStrictOrder
    OBVIOUS
  <2>1. FullOn(cells) \in Counts
    BY FullOnType
  <2>2. HopOrders(HopCandidates(cells), FullOn(cells), FALSE)
    <3>1. PICK best \in Collections : HopCandidates(cells) = Held(best)
      BY HopLoops
    <3>2. Held(best) \in SUBSET Targets /\ OnePerCell(Held(best))
      BY HeldIsOnePerCell
    <3>3. HopOrders(Held(best), FullOn(cells), FALSE)
      BY <2>1, <3>2, RankingsAreStrict
    <3> QED BY <3>1, <3>3
  <2>3. HopOrders(WalkCandidates(cells), FullOn(cells), TRUE)
    <3>1. PICK best \in Collections : WalkCandidates(cells) = Held(best)
      BY WalkCollects
    <3>2. Held(best) \in SUBSET Targets /\ OnePerCell(Held(best))
      BY HeldIsOnePerCell
    <3>3. HopOrders(Held(best), FullOn(cells), TRUE)
      BY <2>1, <3>2, RankingsAreStrict
    <3> QED BY <3>1, <3>3
  <2>4. SeedOrders(SeedCandidates(cells, TRUE), FullOn(cells), TRUE)
    BY SeedsAreRanked
  <2> QED BY <2>2, <2>3, <2>4 DEF RankingIsStrictOrder, HopOrders, SeedOrders
<1> QED BY <1>1, Snapshots, PTL

(* Of an uncamped cell that was heard, the walk knows the own offer.       *)
LEMMA UncampedIsOffered ==
  ASSUME Snapshot(cells), NEW k \in HeardUsable, ~cells[k].ever
  PROVE  LET o == OwnOffer(cells, k)[1]
         IN  /\ o \in Elements(WalkOffers(cells)) /\ ~o.camped
             /\ KeyOfTarget(o) = k /\ o.full = cell_is_full_lte(cells, k)
<1>1. k \in Heard(cells) /\ Usable(k) /\ k.pci # 0
  BY DEF HeardUsable, Usable
<1> QED BY <1>1, OwnOfferSound, WalkOffersSound

(* pick_full_walk_targets lists every usable cell heard that has not       *)
(* served, whatever other rows offer and in whatever order the rows are    *)
(* met.                                                                    *)
THEOREM NoUncampedMissed == Spec => []WalkCoversUncamped
<1>1. Snapshot(cells) => WalkCoversUncamped
  <2> SUFFICES ASSUME Snapshot(cells), NEW k \in HeardUsable, ~cells[k].ever
               PROVE  k \in {KeyOfTarget(t) : t \in Elements(WalkList)}
    BY DEF WalkCoversUncamped
  <2>1. PICK best \in Collections :
          /\ Elements(WalkList) = Held(best)
          /\ \A o \in Elements(WalkOffers(cells)) : ~o.camped => KeyOfTarget(o) \in DOMAIN best
    BY WalkListOf
  <2>2. k \in DOMAIN best
    BY <2>1, UncampedIsOffered
  <2>3. best[k] \in Held(best) /\ KeyOfTarget(best[k]) = k
    BY <2>2, HeldIsOnePerCell
  <2> QED BY <2>1, <2>3
<1> QED BY <1>1, Snapshots, PTL

(* The upsert loop of pick_full_walk_targets leaves each cell with the     *)
(* strongest level offered, FULL exactly when its own row is.              *)
THEOREM TargetsAreStrongest == Spec => []WalkTargetIsStrongest
<1>1. Snapshot(cells) => WalkTargetIsStrongest
  <2> SUFFICES ASSUME Snapshot(cells), NEW t \in Elements(WalkList)
               PROVE  /\ KeyOfTarget(t) \in Heard(cells) /\ ~cells[KeyOfTarget(t)].ever
                           => (t.full <=> cell_is_full_lte(cells, KeyOfTarget(t)))
                      /\ \A o \in Elements(WalkOffers(cells)) :
                           KeyOfTarget(o) = KeyOfTarget(t) /\ ~o.camped => o.rsrp <= t.rsrp
    BY DEF WalkTargetIsStrongest
  <2>1. PICK best \in Collections :
          /\ Elements(WalkList) = Held(best)
          /\ \A o \in Elements(WalkOffers(cells)) :
               ~o.camped => KeyOfTarget(o) \in DOMAIN best /\ NoPoorer(o, best[KeyOfTarget(o)])
          /\ \A k \in DOMAIN best : best[k].full => cell_is_full_lte(cells, k)
    BY WalkListOf
  <2>2. PICK k \in DOMAIN best : t = best[k] /\ KeyOfTarget(t) = k /\ Usable(k)
    <3>1. PICK k \in DOMAIN best : t = best[k]
      BY <2>1 DEF Held
    <3>2. KeyOfTarget(best[k]) = k /\ k \in UsableKeys
      BY HeldIsOnePerCell
    <3> QED BY <3>1, <3>2 DEF UsableKeys
  <2>3. t.full \in BOOLEAN /\ t.rsrp \in Nat
    BY <2>1, HeldIsOnePerCell DEF Targets
  <2>4. ASSUME k \in Heard(cells), ~cells[k].ever, cell_is_full_lte(cells, k) PROVE t.full
    <3>1. k \in HeardUsable
      BY <2>2, <2>4 DEF HeardUsable
    <3> QED BY <2>1, <2>2, <2>4, <3>1, UncampedIsOffered DEF NoPoorer
  <2>5. ASSUME NEW o \in Elements(WalkOffers(cells)), KeyOfTarget(o) = k, ~o.camped
        PROVE  o.rsrp <= t.rsrp
    <3>1. NoPoorer(o, t)
      BY <2>1, <2>2, <2>5
    <3>2. o \in Offers
      <4>1. WalkOffers(cells) \in Seq(SoundOffers(cells))
        BY WalkOffersSound
      <4> QED BY <4>1 DEF Elements, SoundOffers
    <3>3. o.rsrp \in Nat
      BY <3>2 DEF Offers, Targets
    <3> QED BY <2>3, <3>1, <3>3 DEF NoPoorer
  <2> QED BY <2>1, <2>2, <2>3, <2>4, <2>5
<1> QED BY <1>1, Snapshots, PTL

(* The first target of a full walk is on an FDD carrier without a FULL     *)
(* cell whenever such a carrier is on offer (hop_target_better).           *)
THEOREM NewCarriersComeFirst == Spec => []NewCarrierFirst
<1>1. Snapshot(cells) => NewCarrierFirst
  <2> DEFINE fresh(t) == IsFdd(t) /\ full_count(cells, t.earfcn) = 0
  <2> SUFFICES ASSUME Snapshot(cells), NEW t \in Elements(WalkList), fresh(t)
               PROVE  fresh(WalkList[1])
    BY DEF NewCarrierFirst
  <2>1. PICK best \in Collections :
          /\ Elements(WalkList) = Held(best)
          /\ Held(best) # {} =>
               /\ WalkList[1] \in Held(best)
               /\ \A a \in Held(best) : ~hop_target_better(a, WalkList[1], FullOn(cells), TRUE)
    BY WalkListOf
  <2> DEFINE first == WalkList[1]
  <2>2. t \in Targets /\ first \in Targets /\ ~hop_target_better(t, first, FullOn(cells), TRUE)
    BY <2>1, HeldIsOnePerCell
  <2>3. \A a \in Targets : FullOn(cells)[a.earfcn] = full_count(cells, a.earfcn)
    BY DEF Targets, FullOn
  <2> HIDE DEF first
  <2>4. CASE ~IsFdd(first)
    BY <2>2, <2>4 DEF hop_target_better
  <2>5. CASE IsFdd(first) /\ full_count(cells, first.earfcn) # 0
    BY <2>2, <2>3, <2>5 DEF hop_target_better
  <2> QED BY <2>4, <2>5 DEF first
<1> QED BY <1>1, Snapshots, PTL

(* What pick_seed_targets seeds in a full walk, pick_full_walk_targets     *)
(* lists too.                                                              *)
THEOREM SeedsAreWalked == Spec => []SeedsAreWalkTargets
<1>1. Snapshot(cells) => SeedsAreWalkTargets
  <2> SUFFICES ASSUME Snapshot(cells), NEW s \in Elements(SeedList(TRUE))
               PROVE  KeyOfTarget(s) \in {KeyOfTarget(t) : t \in Elements(WalkList)}
    BY DEF SeedsAreWalkTargets
  <2>1. PICK k \in Heard(cells) : Usable(k) /\ IsSeed(cells, k, TRUE) /\ s = SeedTarget(cells, k, TRUE)
    BY SeedListOf DEF SeedCandidates
  <2>2. KeyOfTarget(s) = k
    BY <2>1, SeedTargetType
  <2>3. k \in HeardUsable /\ ~cells[k].ever
    BY <2>1 DEF HeardUsable, IsSeed
  <2>4. PICK best \in Collections :
          /\ Elements(WalkList) = Held(best)
          /\ \A o \in Elements(WalkOffers(cells)) : ~o.camped => KeyOfTarget(o) \in DOMAIN best
    BY WalkListOf
  <2>5. k \in DOMAIN best
    BY <2>3, <2>4, UncampedIsOffered
  <2>6. best[k] \in Held(best) /\ KeyOfTarget(best[k]) = k
    BY <2>5, HeldIsOnePerCell
  <2> QED BY <2>2, <2>4, <2>6
<1> QED BY <1>1, Snapshots, PTL

=============================================================================
