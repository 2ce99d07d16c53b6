---------------------------- MODULE LteWalkProofs ----------------------------
(***************************************************************************)
(* Proofs about LteWalk, for every world of cells, refusals and bounds.    *)
(***************************************************************************)
EXTENDS LteWalk, WellFoundedInduction, TLAPS

(* A poll ends with a lock of the modem on the strategy's target: one that *)
(* verified, or there is no target to compare.                             *)
LEMMA PollPins == TargetIsPinned /\ Poll => TargetIsPinned'
<1> SUFFICES ASSUME TargetIsPinned, Poll PROVE TargetIsPinned'
  OBVIOUS
<1> USE DEF TargetIsPinned, Holds
<1>1. CASE PollKeep
  BY <1>1 DEF PollKeep, strategy
<1>2. ASSUME NEW next, PollEnd(next) PROVE TargetIsPinned'
  BY <1>2 DEF PollEnd
<1>3. ASSUME NEW next, NEW ok \in BOOLEAN, PollLock(next, ok) PROVE TargetIsPinned'
  <2>1. lock_lte(next, ok) /\ OnStatus(next, ok)
    BY <1>3 DEF PollLock
  <2>2. CASE ok
    <3>1. PICK verified \in SUBSET Sticky :
            /\ ok = (verified # {})
            /\ \A s \in Sticky : locks'[s] \in
                 IF s \in verified THEN {next} ELSE Unverified(next, locks[s])
      BY <2>1 DEF lock_lte
    <3>2. PICK s \in verified : s \in Sticky
      BY <2>2, <3>1
    <3>3. locks'[s] = next
      BY <3>1, <3>2
    <3>4. target' = next
      BY <2>1, <2>2 DEF OnStatus
    <3> QED BY <3>2, <3>3, <3>4
  <2>3. CASE ~ok
    BY <2>1, <2>3 DEF OnStatus
  <2> QED BY <2>2, <2>3
<1> QED BY <1>1, <1>2, <1>3 DEF Poll, PollMovesOn

(* While the strategy of SurveySession::poll holds a target, a sticky lock *)
(* of the modem is on it: lock_lte answers Ok only if one of its two locks *)
(* verified, and on_status drops the target of every lock that failed.     *)
THEOREM Pinned == Spec => []TargetIsPinned
<1>1. Init => TargetIsPinned
  BY DEF Init, TargetIsPinned, Holds
<1>2. TargetIsPinned /\ [Next]_vars => TargetIsPinned'
  <2> SUFFICES ASSUME TargetIsPinned, [Next]_vars PROVE TargetIsPinned'
    OBVIOUS
  <2>1. CASE Poll
    BY <2>1, PollPins
  <2>2. CASE DwellElapses \/ (\E k \in Keys : Hear(k) \/ Camp(k)) \/ UNCHANGED vars
    BY <2>2 DEF DwellElapses, Camp, Hear, vars, strategy, TargetIsPinned, Holds
  <2> QED BY <2>1, <2>2 DEF Next
<1> QED BY <1>1, <1>2, PTL DEF Spec

-----------------------------------------------------------------------------
(* The strategy never counts "no target" as visited.                       *)
RealVisits == NoKey \notin visited

LEMMA LeastOf ==
  ASSUME NEW S, S \subseteq Nat, S # {}
  PROVE  \E i \in S : \A j \in S : i <= j
<1>1. PICK i \in S : \A j \in S : <<j, i>> \notin OpToRel(<, Nat)
  BY NatLessThanWellFounded, WFMin, Zenon
<1>2. OpToRel(<, Nat) = {ss \in Nat \X Nat : ss[1] < ss[2]}
  BY Zenon DEF OpToRel
<1>3. ASSUME NEW j \in S PROVE i <= j
  <2>1. <<j, i>> \notin {ss \in Nat \X Nat : ss[1] < ss[2]}
    BY <1>1, <1>2, Zenon
  <2> QED BY <2>1
<1> QED BY <1>3

(* The target that decide picks was not visited.                           *)
LEMMA FirstIsUnvisited ==
  ASSUME NEW snapshot, NEW seen, FirstUnvisited(snapshot, seen) # NoKey
  PROVE  FirstUnvisited(snapshot, seen) \notin seen
<1> DEFINE ranked == Targets(snapshot)
           open == {i \in 1..Frontier : i <= Len(ranked) /\ KeyOfTarget(ranked[i]) \notin seen}
           first == CHOOSE i \in open : \A j \in open : i <= j
<1>1. open # {} /\ FirstUnvisited(snapshot, seen) = KeyOfTarget(ranked[first])
  BY DEF FirstUnvisited
<1>2. open \subseteq Nat
  BY WalkAssumption DEF WalkAssumption
<1>3. first \in open
  <2> HIDE DEF open
  <2>1. \E i \in open : \A j \in open : i <= j
    BY <1>1, <1>2, LeastOf
  <2> QED BY <2>1
<1>4. KeyOfTarget(ranked[first]) \notin seen
  <2> HIDE DEF first, ranked
  <2> QED BY <1>3
<1> QED BY <1>1, <1>4

LEMMA VisitsReal == RealVisits /\ [Next]_vars => RealVisits'
<1> SUFFICES ASSUME RealVisits, [Next]_vars PROVE RealVisits'
  OBVIOUS
<1> USE DEF RealVisits
<1>1. NoKey \notin VisitedNow
  BY DEF VisitedNow, Done, Holds
<1>2. CASE Poll
  BY <1>1, <1>2 DEF Poll, PollKeep, PollMovesOn, PollEnd, PollLock, strategy
<1>3. CASE DwellElapses \/ (\E k \in Keys : Hear(k) \/ Camp(k)) \/ UNCHANGED vars
  BY <1>3 DEF DwellElapses, Camp, Hear, vars, strategy
<1> QED BY <1>2, <1>3 DEF Next

(* Once a cell was visited, no poll of SurveySession locks it again,       *)
(* whatever the planner ranks and however its lock turns out: decide skips *)
(* what m_visited holds, and m_visited only grows.                         *)
THEOREM OneVisit == Spec => NoSecondVisit
<1>1. Init => RealVisits
  BY DEF Init, RealVisits
<1>2. RealVisits /\ [Next]_vars => RealVisits'
  BY VisitsReal
<1>3. RealVisits /\ [Next]_vars =>
        [\A s \in Sticky : locks'[s] # locks[s] => locks'[s] \notin visited]_vars
  <2> SUFFICES ASSUME RealVisits, Next, NEW s \in Sticky, locks'[s] # locks[s]
               PROVE  locks'[s] \notin visited
    OBVIOUS
  <2>1. CASE Poll
    <3> DEFINE next == FirstUnvisited(cells, VisitedNow)
    <3>1. PICK ok \in BOOLEAN : PollLock(next, ok)
      BY <2>1 DEF Poll, PollMovesOn, PollKeep, PollEnd
    <3>2. next \notin VisitedNow
      BY <3>1, FirstIsUnvisited DEF PollLock
    <3>3. visited \subseteq VisitedNow
      BY DEF VisitedNow
    <3>4. locks'[s] \in {next, NoKey}
      BY <3>1 DEF PollLock, lock_lte, Unverified
    <3> QED BY <3>2, <3>3, <3>4 DEF RealVisits
  <2>2. CASE DwellElapses \/ \E k \in Keys : Hear(k) \/ Camp(k)
    BY <2>2 DEF DwellElapses, Camp, Hear
  <2> QED BY <2>1, <2>2 DEF Next
<1> QED BY <1>1, <1>2, <1>3, PTL DEF Spec, NoSecondVisit
=============================================================================
