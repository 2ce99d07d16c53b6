------------------------------- MODULE LteWalk -------------------------------
(***************************************************************************)
(* The survey walk of the engine: SurveySession::poll with the strategy    *)
(* LteWalkStrategy (include/observer/engine/).  A poll reads a snapshot,   *)
(* decides, lets the control port lock a cell and tells the strategy how   *)
(* it went; meanwhile the parser threads add what is heard and what the    *)
(* camped cell broadcasts.  The port is SimcomAtControl: it sets two       *)
(* sticky locks of the modem, one after the other, and is content with     *)
(* one; the walk never clears them.                                        *)
(***************************************************************************)
EXTENDS HopPlanner

CONSTANTS
  World,      (* For each key the rows under which it may first be heard.  *)
  Refusals,   (* Sets of keys whose locks the modem may never honour.      *)
  Sib1,       (* The operator of each key whose SIB1 can be read.          *)
  Frontier,   (* Params::frontier, how many targets the planner ranks.     *)
  Modes,      (* The values of Params::full_walk that are tried.           *)
  MaxFaults   (* Bound on the locks that fail once and work when retried.  *)

VARIABLES
  cells,      (* The snapshot of the registry.                             *)
  target,     (* m_target.                                                 *)
  visited,    (* m_visited.                                                *)
  expired,    (* now - m_locked_at >= dwell.                               *)
  locks,      (* The cell of each sticky lock of the modem, or none.       *)
  full_walk,  (* Params::full_walk, fixed for the life of a session.       *)
  faults,     (* How many locks failed that work when retried.             *)
  refused,    (* The keys whose locks the modem does not honour.           *)
  tick        (* Flips with every poll.                                    *)

strategy == <<target, visited, expired>>
vars == <<cells, target, visited, expired, locks, full_walk, refused, faults, tick>>

Keys == DOMAIN World
NoKey == [earfcn |-> 0, pci |-> 0]
Sticky == {"CCELLCFG", "CLECELL"}

ASSUME WalkAssumption ==
  /\ Keys \subseteq HopKey /\ Refusals \subseteq SUBSET Keys
  /\ Sib1 \in [DOMAIN Sib1 -> Plmns] /\ DOMAIN Sib1 \subseteq Keys
  /\ Frontier \in Nat \ {0} /\ Modes \subseteq BOOLEAN /\ MaxFaults \in Nat

Init ==
  /\ cells = [k \in Keys |-> NoCell]
  /\ target = NoKey /\ visited = {} /\ expired = FALSE
  /\ locks = [s \in Sticky |-> NoKey] /\ faults = 0 /\ tick = 0
  /\ full_walk \in Modes /\ refused \in Refusals

-----------------------------------------------------------------------------
(* The planner's list with room for so many targets.                       *)
Listed(snapshot, room) ==
  IF full_walk THEN pick_full_walk_targets(snapshot, room)
  ELSE pick_hop_targets(snapshot, room)

Targets(snapshot) == Listed(snapshot, Frontier)

(* The first ranked target that was not visited, or none.  (Mutant: the    *)
(* first ranked target.)                                                   *)
FirstRanked(snapshot, seen) ==
  IF Targets(snapshot) = <<>> THEN NoKey ELSE KeyOfTarget(Targets(snapshot)[1])
FirstUnvisited(snapshot, seen) ==
  LET ranked == Targets(snapshot)
      open == {i \in 1..Frontier : i <= Len(ranked) /\ KeyOfTarget(ranked[i]) \notin seen}
  IN  IF open = {} THEN NoKey
      ELSE KeyOfTarget(ranked[CHOOSE i \in open : \A j \in open : i <= j])

Holds == target # NoKey
Done == Holds /\ (cell_is_full_lte(cells, target) \/ expired)

(* Mutant: a target whose dwell expired is forgotten.                      *)
VisitedFullOnly == IF Done /\ cell_is_full_lte(cells, target)
                   THEN visited \cup {target} ELSE visited
VisitedNow == IF Done THEN visited \cup {target} ELSE visited

(* The strategy keeps its target exactly if the lock was honoured.         *)
(* (Mutant: it always does.)                                               *)
OnStatusIgnored(k, ok) == target' = k
OnStatus(k, ok) == target' = IF ok THEN k ELSE NoKey

(* lock_lte sets both sticky locks and reads each back; one that verifies  *)
(* is enough.  A lock that does not verify is as before, cleared, or on    *)
(* the new cell all the same if only its answer was lost.                  *)
Unverified(k, lock) == {lock, NoKey} \cup ({k} \ refused)

lock_lte(k, ok) ==
  \E verified \in SUBSET Sticky :
    /\ ok = (verified # {})
    /\ ok => k \notin refused
    /\ locks' \in {after \in [Sticky -> Keys \cup {NoKey}] : \A s \in Sticky :
          after[s] \in IF s \in verified THEN {k} ELSE Unverified(k, locks[s])}

(* A poll that keeps the target: neither FULL nor expired.                 *)
PollKeep == Holds /\ ~Done /\ UNCHANGED <<cells, strategy, locks, faults>>

(* A poll with nothing new to camp on.                                     *)
PollEnd(next) ==
  /\ next = NoKey
  /\ visited' = VisitedNow /\ target' = NoKey /\ expired' = FALSE
  /\ UNCHANGED <<cells, locks, faults>>

(* A poll that has something to lock.                                      *)
PollLock(next, ok) ==
  /\ next # NoKey
  /\ visited' = VisitedNow /\ expired' = FALSE
  /\ lock_lte(next, ok)
  /\ OnStatus(next, ok)
  /\ IF ok \/ next \in refused THEN UNCHANGED faults
     ELSE faults < MaxFaults /\ faults' = faults + 1
  /\ UNCHANGED cells

PollMovesOn ==
  /\ ~Holds \/ Done
  /\ \E next \in {FirstUnvisited(cells, VisitedNow)} :
       PollEnd(next) \/ \E ok \in BOOLEAN : PollLock(next, ok)

Poll ==
  /\ PollKeep \/ PollMovesOn
  /\ tick' = 1 - tick
  /\ UNCHANGED <<full_walk, refused>>

DwellElapses ==
  /\ Holds /\ ~expired
  /\ expired' = TRUE
  /\ UNCHANGED <<cells, target, visited, locks, full_walk, refused, faults, tick>>

(* A cell is heard for the first time.                                     *)
Hear(k) ==
  /\ ~cells[k].heard
  /\ \E r \in World[k] : cells' = [cells EXCEPT ![k] = r]
  /\ UNCHANGED <<strategy, locks, full_walk, refused, faults, tick>>

(* The modem camps on a cell that one of its locks names, the target's or  *)
(* one left from before, and reads its SIB1.                               *)
Camp(k) ==
  /\ \E s \in Sticky : locks[s] = k
  /\ k \in DOMAIN Sib1 /\ ~cells[k].ever
  /\ cells' = [cells EXCEPT ![k] =
                 [@ EXCEPT !.heard = TRUE, !.ident = TRUE, !.ever = TRUE,
                    !.plmn = IF @ = 0 THEN Sib1[k] ELSE @]]
  /\ UNCHANGED <<strategy, locks, full_walk, refused, faults, tick>>

Next == Poll \/ DwellElapses \/ \E k \in Keys : Hear(k) \/ Camp(k)

(* The application polls in a loop (a poll is possible in every state) and *)
(* the clock runs.  Nothing makes a cell answer, a neighbour appear or a   *)
(* lock fail.                                                              *)
Spec == Init /\ [][Next]_vars /\ []<><<Poll>>_tick /\ WF_vars(DwellElapses)

-----------------------------------------------------------------------------
(* While the strategy holds a target, a lock of the modem is on it.  (The  *)
(* other one may still hold the modem on a cell of before: lock_lte is     *)
(* content with one, and nothing clears the other.)                        *)
TargetIsPinned == Holds => \E s \in Sticky : locks[s] = target

(* A cell that was visited is never locked again, whatever the planner     *)
(* ranks first afterwards; at most a lock on it is left where it was.      *)
NoSecondVisit ==
  [][\A s \in Sticky : locks'[s] # locks[s] => locks'[s] \notin visited]_vars

(* A cell was visited or has served (or is FULL, in the classic hop).      *)
Walked(k) == \/ k \in visited \/ cells[k].ever
             \/ ~full_walk /\ cell_is_full_lte(cells, k)

(* The two ways in which the walk passes a cell over for good: the list is *)
(* cut before it, or a cell ranked before it, or itself, is refused and    *)
(* asked for again at every poll.                                          *)
PassedOver(k) ==
  LET all == Listed(cells, Cardinality(Keys))
  IN  \E i \in DOMAIN all :
        /\ KeyOfTarget(all[i]) = k
        /\ i > Frontier \/ \E j \in 1..i : KeyOfTarget(all[j]) \in refused

(* In the end every cell that was heard has been walked or is passed over  *)
(* in one of those two ways, in any order of answers, new cells and locks  *)
(* that failed now and then.                                               *)
WalkFinishes ==
  <>[](\A k \in Keys : cells[k].heard /\ Usable(k) => Walked(k) \/ PassedOver(k))
=============================================================================
