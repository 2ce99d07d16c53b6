------------------------------ MODULE SurveyHop ------------------------------
(***************************************************************************)
(* The COMPLETE phase of the hop thread (app/observer/SurveyHop.cpp): pass *)
(* after pass it takes a snapshot of the registry, filters the planner's   *)
(* targets by what it remembers of earlier misses and locks the best one   *)
(* until it is FULL or the dwell is over; with nothing to lock it hunts on *)
(* carriers that SIB5 names, clips bands, changes the operator, and in the *)
(* end searches anew.                                                      *)
(*                                                                         *)
(* Time is counted in kicks: the cool-downs of a cell (k_pci_cooldown) and *)
(* of a carrier (k_earfcn_cooldown) are equal and last for Cool of them.   *)
(***************************************************************************)
EXTENDS HopPlanner

CONSTANTS
  World,      (* For each key the rows under which it may first be heard.  *)
  Readable,   (* Keys whose SIB1 can be read once the modem is locked.     *)
  Refused,    (* Keys whose lock fails, with its retry and its recovery.   *)
  Report,     (* For each key the neighbours CMGRMI reports when camped.   *)
  HopMax,     (* hop_max.                                                  *)
  WalkMax,    (* The least number of targets of a full walk, 32.           *)
  Weak,       (* Levels below it are measured but hopeless (-118 dBm).     *)
  Cool,       (* The cool-downs, in kicks.                                 *)
  FddBan,     (* k_earfcn_distinct_pci_ban.                                *)
  TddBan,     (* k_tdd_earfcn_pci_ban.                                     *)
  BandWaves,  (* The bands clipped in turn, 0 without band_clip.           *)
  OperWaves,  (* The operators pinned in turn by a full walk.              *)
  Modes       (* The values of full_walk that are tried.                   *)

VARIABLES
  cells,      (* The registry.                                             *)
  target,     (* The cell of the kick in progress.                         *)
  stay,       (* stay_kick: the target was named as a neighbour.           *)
  pending,    (* Carriers with pending neighbours when the kick began.     *)
  fulls,      (* hop_fulls > 0.                                            *)
  allow,      (* last_cmgrmi_allow.                                        *)
  cooldown,   (* What is left of a cell's cool-down.                       *)
  earfcn_cooldown,     (* What is left of a carrier's.                     *)
  earfcn_failed_pcis,  (* The cells of a carrier that were missed.         *)
  sib5_hunted,         (* Carriers hunted since the last search.           *)
  wave,       (* band_wave_i and oper_wave_i.                              *)
  phase,      (* complete, rediscover or after-3g.                         *)
  full_walk,  (* Recipe::foreign_plmn.                                     *)
  tick        (* Flips with every step of the loop.                        *)

memory == <<cooldown, earfcn_cooldown, earfcn_failed_pcis>>
kick == <<target, stay, pending>>
hunts == <<sib5_hunted, wave, phase>>
vars == <<cells, kick, fulls, allow, memory, hunts, full_walk, tick>>

Keys == DOMAIN World
NoKey == [earfcn |-> 0, pci |-> 0]

ASSUME HopAssumption ==
  /\ Keys \subseteq HopKey /\ Readable \subseteq Keys /\ Refused \subseteq Keys
  /\ \A k \in Keys : Report[k] \subseteq Keys
  /\ {HopMax, WalkMax, Cool, FddBan, TddBan} \subseteq Nat \ {0}
  /\ {BandWaves, OperWaves, Weak} \subseteq Nat /\ Modes \subseteq BOOLEAN

Init ==
  /\ cells = [k \in Keys |-> NoCell]
  /\ target = NoKey /\ stay = FALSE /\ pending = {}
  /\ fulls = FALSE /\ allow = {}
  /\ cooldown = [k \in Keys |-> 0]
  /\ earfcn_cooldown = [e \in Earfcns |-> 0]
  /\ earfcn_failed_pcis = [e \in Earfcns |-> {}]
  /\ sib5_hunted = {} /\ wave = [band |-> 0, oper |-> 0] /\ phase = "complete"
  /\ full_walk \in Modes /\ tick = 0

-----------------------------------------------------------------------------
(* What a pass may lock.                                                   *)

is_weak_measured(rsrp) == hop_rsrp_measured(rsrp) /\ rsrp < Weak

target_done(k) == cell_is_full_lte(cells, k) /\ (full_walk => cells[k].ever)

(* Neighbours of a camped cell mind the cool-down of the cell only.        *)
(* (Mutant: the targets are filtered without it.)                          *)
UsableOfHot(t, from_neigh) ==
  LET k == KeyOfTarget(t)
  IN  ~target_done(k) /\ (~from_neigh => ~is_weak_measured(t.rsrp)
                                         /\ earfcn_cooldown[k.earfcn] = 0)
UsableOf(t, from_neigh) ==
  LET k == KeyOfTarget(t)
  IN  /\ ~target_done(k)
      /\ ~from_neigh => ~is_weak_measured(t.rsrp) /\ earfcn_cooldown[k.earfcn] = 0
      /\ cooldown[k] = 0

frontier_n == IF full_walk THEN MaxOf({HopMax, WalkMax}) ELSE HopMax

Neighbours == allow \cup serving_neigh_hop_keys(cells) \cup measured_intra_hop_keys(cells)
stay_on_neigh == Neighbours # {} /\ fulls

NeighTargets ==
  SelectSeq(pick_neigh_targets(cells, Neighbours, frontier_n, full_walk),
            LAMBDA t : UsableOf(t, TRUE))
SeedTargets ==
  SelectSeq(pick_seed_targets(cells, frontier_n, full_walk), LAMBDA t : UsableOf(t, FALSE))
Targets == IF stay_on_neigh /\ NeighTargets # <<>> THEN NeighTargets ELSE SeedTargets

(* Carriers for a hunt, and the first of them.                             *)
Huntable == {e \in sib5_bare_earfcns(cells) : e \notin sib5_hunted /\ earfcn_cooldown[e] = 0}
FirstHunt == CHOOSE e \in Huntable : \A f \in Huntable :
               (e \in Fdd /\ f \notin Fdd) \/ ((e \in Fdd <=> f \in Fdd) /\ e <= f)

-----------------------------------------------------------------------------
(* A kick: ccell_lock, then the grind.  A target too weak is not even      *)
(* tried.                                                                  *)
Kick(t) ==
  /\ LET k == KeyOfTarget(t)
     IN  IF k \in Refused \/ is_weak_measured(t.rsrp)
         THEN cooldown' = [cooldown EXCEPT ![k] = Cool] /\ UNCHANGED kick
         ELSE /\ target' = k
              /\ stay' = (k \in Neighbours)
              /\ pending' = {j.earfcn : j \in pending_neigh_hop_keys(cells)}
              /\ UNCHANGED cooldown
  /\ UNCHANGED <<cells, fulls, allow, earfcn_cooldown, earfcn_failed_pcis, hunts, full_walk>>

(* Nothing to lock: a hunt on a carrier without a PCI.  (Mutant: it is not *)
(* noted.)                                                                 *)
HuntWith(noted) ==
  /\ Huntable # {}
  /\ sib5_hunted' = noted
  /\ UNCHANGED <<cells, kick, fulls, allow, memory, wave, phase, full_walk>>
HuntUnnoted == HuntWith(sib5_hunted)
Hunt == HuntWith(sib5_hunted \cup {FirstHunt})

(* advance_wave: the next band, or the next operator and all bands again.  *)
advance_wave ==
  /\ Huntable = {}
  /\ \/ wave.band < BandWaves /\ wave' = [wave EXCEPT !.band = @ + 1]
     \/ /\ wave.band >= BandWaves /\ full_walk /\ wave.oper + 1 < OperWaves
        /\ wave' = [band |-> 0, oper |-> wave.oper + 1]
  /\ allow' = {}
  /\ UNCHANGED <<cells, kick, fulls, memory, sib5_hunted, phase, full_walk>>

(* An empty frontier: the 3G walk and a new search, after which the hunts  *)
(* and waves begin anew.                                                   *)
Empty ==
  /\ Huntable = {}
  /\ wave.band >= BandWaves /\ ~(full_walk /\ wave.oper + 1 < OperWaves)
  /\ phase' = "rediscover"
  /\ UNCHANGED <<cells, kick, fulls, allow, memory, sib5_hunted, wave, full_walk>>

(* One pass of the loop.                                                   *)
Pass ==
  /\ target = NoKey /\ phase = "complete"
  /\ LET targets == Targets
     IN  \/ targets # <<>> /\ Kick(targets[1])
         \/ targets = <<>> /\ (Hunt \/ advance_wave \/ Empty)

Less(n) == IF n = 0 THEN 0 ELSE n - 1
Later(f) == [x \in DOMAIN f |-> Less(f[x])]

(* FULL under its lock: the cell counts as camped.                         *)
Full ==
  /\ target # NoKey /\ cell_is_full_lte(cells, target)
  /\ cells' = [k \in Keys |-> [cells[k] EXCEPT !.serving = k = target,
                                               !.ever = cells[k].ever \/ k = target]]
  /\ fulls' = TRUE
  /\ cooldown' = [Later(cooldown) EXCEPT ![target] = 0]
  /\ earfcn_cooldown' = Later(earfcn_cooldown)
  /\ earfcn_failed_pcis' = [earfcn_failed_pcis EXCEPT ![target.earfcn] = {}]
  /\ target' = NoKey /\ stay' = FALSE /\ pending' = {}
  /\ UNCHANGED <<allow, hunts, full_walk>>

Ban(e) == IF e \in Fdd THEN FddBan ELSE TddBan

(* The dwell is over, the lock lost or the modem on 3G, where it may stay  *)
(* without an LTE cell heard: then the survey searches anew.  After enough *)
(* different cells the carrier cools too, unless neighbours wait there; a  *)
(* dead TDD carrier cools all the same.                                    *)
Miss ==
  /\ target # NoKey
  /\ LET e == target.earfcn
         failed == earfcn_failed_pcis[e] \cup {target.pci}
         many == Cardinality(failed) >= Ban(e)
         waiting == stay \/ e \in pending
     IN  /\ earfcn_failed_pcis' = [earfcn_failed_pcis EXCEPT ![e] = failed]
         /\ cooldown' = [Later(cooldown) EXCEPT ![target] = Cool]
         /\ \E rf_dead \in BOOLEAN :
              earfcn_cooldown' =
                [Later(earfcn_cooldown) EXCEPT ![e] =
                   IF many /\ (~waiting \/ (e \notin Fdd /\ rf_dead)) THEN Cool
                   ELSE Less(earfcn_cooldown[e])]
  /\ phase' \in {"complete", "after-3g"}
  /\ target' = NoKey /\ stay' = FALSE /\ pending' = {}
  /\ UNCHANGED <<cells, fulls, allow, sib5_hunted, wave, full_walk>>

(* The search is over.  The one after a drop to 3G leaves the waves and    *)
(* the neighbours as they are.                                             *)
Rediscovered ==
  /\ phase \in {"rediscover", "after-3g"}
  /\ phase' = "complete"
  /\ sib5_hunted' = {}
  /\ IF phase = "rediscover" THEN wave' = [band |-> 0, oper |-> 0] /\ allow' = {}
     ELSE UNCHANGED <<wave, allow>>
  /\ cooldown' = Later(cooldown) /\ earfcn_cooldown' = Later(earfcn_cooldown)
  /\ UNCHANGED <<cells, kick, fulls, earfcn_failed_pcis, full_walk>>

-----------------------------------------------------------------------------
(* A cell is heard for the first time.                                     *)
Hear(k) ==
  /\ ~cells[k].heard
  /\ \E r \in World[k] : cells' = [cells EXCEPT ![k] = r]
  /\ UNCHANGED <<kick, fulls, allow, memory, hunts, full_walk, tick>>

(* The modem camps on the locked cell: SIB1, CPSI and CMGRMI=4.            *)
Camp ==
  /\ target \in Readable /\ ~(cells[target].ident /\ cells[target].ever)
  /\ \E p \in Plmns :
       cells' = [cells EXCEPT ![target] =
                   [cells[target] EXCEPT !.heard = TRUE, !.ident = TRUE, !.ever = TRUE,
                      !.plmn = IF cells[target].plmn = 0 THEN p ELSE cells[target].plmn]]
  /\ allow' = IF Report[target] # {} THEN Report[target] ELSE allow \ {target}
  /\ UNCHANGED <<kick, fulls, memory, hunts, full_walk, tick>>

Loop ==
  /\ Pass \/ Full \/ Miss \/ Rediscovered
  /\ tick' = 1 - tick
Next == Loop \/ Camp \/ \E k \in Keys : Hear(k)

(* The thread runs on (a step of the loop is possible in every state).    *)
(* Nothing makes a cell answer.                                            *)
Spec == Init /\ [][Next]_vars /\ []<><<TRUE>>_tick

-----------------------------------------------------------------------------
(* Without a stop the survey never comes to rest: hunts and waves end, and *)
(* there is a kick or a new search again.                                  *)
SurveyGoesOn == []<>(target # NoKey \/ phase = "rediscover")

(* A cell the survey should lock: heard, in the seeds and neither done nor *)
(* hopeless, on a carrier too small to be banned.                          *)
Candidate(k) ==
  /\ cells[k].heard /\ Usable(k) /\ k \notin Refused
  /\ ~target_done(k) /\ ~is_weak_measured(cells[k].rsrp) /\ IsSeed(cells, k, full_walk)
  /\ Cardinality({j \in Keys : j.earfcn = k.earfcn}) < Ban(k.earfcn)

(* So many cells are left beside it that it may not be among the first     *)
(* frontier_n of the ranking, which is cut before the cells that cool are  *)
(* dropped, or that the first of them is warm again before its turn comes. *)
Crowded(k) ==
  LET rivals == Cardinality({j \in Keys \ {k} : ~target_done(j)})
  IN  rivals >= frontier_n \/ rivals > Cool

(* A candidate that is not crowded out gets its turn, however strong the   *)
(* unreadable cells before it are and whatever bans other carriers suffer, *)
(* unless the modem falls to 3G meanwhile: after_camp_policy, Misses: stay *)
(* in complete, try next target (PCI cooldown handles thrash).  (Where it  *)
(* is crowded, stronger cells may come back before it for ever.)           *)
CandidatesGetTheirTurn ==
  \A k \in Keys :
    Candidate(k) /\ ~Crowded(k) ~>
      target = k \/ ~Candidate(k) \/ Crowded(k) \/ phase = "after-3g"
=============================================================================
