---------------------------- MODULE SurveyGuards -----------------------------
(***************************************************************************)
(* Three threads that steer one modem (app/observer): the rat-guard, the   *)
(* worker (the hop thread of a survey, the ghost search of a watch) and    *)
(* the main thread, which pins the radio, starts the others, stops them    *)
(* and restores the radio.  They share one AT port and three flags         *)
(* (SurveyCtx.h).                                                          *)
(*                                                                         *)
(* prog[t] is what thread t has still to do: a sequence of AT commands, of *)
(* stores to the flags and of decisions, each of which is one step.  The   *)
(* bus serialises the commands and nothing else.                           *)
(***************************************************************************)
EXTENDS Naturals, Sequences, FiniteSets

CONSTANTS
  Recipes,   (* The recipes tried: which threads and searches they start.  *)
  UserModes, (* The network modes the modem may be in when found.          *)
  MaxLost,   (* Bound on the commands that the modem never acts on.        *)
  MaxDrops   (* Bound on how often the modem falls to 3G and sticks there. *)

ASSUME GuardsAssumption ==
  /\ Recipes \subseteq [surveying : BOOLEAN, wcdma : BOOLEAN, full : BOOLEAN,
                        ghost : BOOLEAN, enrich : BOOLEAN]
  /\ UserModes \subseteq {"any", "lte", "3g"}
  /\ MaxLost \in Nat /\ MaxDrops \in Nat

VARIABLES
  modem,    (* radio, mode (CNMP), sel (COPS), pin (CMSSN), camp, lock,    *)
            (* stuck on 3G.                                                *)
  prog,     (* What each thread has still to do.                           *)
  obs,      (* The RAT that a thread's pass of the guard observed.         *)
  busy,     (* rat_recover_busy.                                           *)
  search,   (* intentional_search.                                         *)
  hold,     (* intentional_wcdma.                                          *)
  saved,    (* saved_cnmp.                                                 *)
  phase,    (* pin, run, stop, restore, over.                              *)
  lost,     (* Whether CFUN=1 or another command was lost.                 *)
  drops,    (* How often the modem fell to 3G.                             *)
  user,     (* The mode in which the modem was found.                      *)
  recipe    (* Options::recipe.                                            *)

flags == <<busy, search, hold>>
run == <<saved, phase, user, recipe>>
vars == <<modem, prog, obs, flags, run, lost, drops>>

Threads == {"guard", "worker", "main"}

-----------------------------------------------------------------------------
(* The modem.  An operator selected by hand (COPS1) is a foreign one,      *)
(* where it finds no service; those that a full walk pins (CMSSN) have it. *)
Commands == {"CNMP38", "CNMP14", "saved", "COPS0", "COPS1", "COPS2", "CMSSN",
             "CFUN4", "CFUN1", "lock", "unlock"}

InMode(m, mode) ==
  [m EXCEPT !.mode = mode,
            !.camp = IF mode \in {"any", m.camp} \/ m.stuck THEN m.camp ELSE "none"]

Effect(m, c) ==
  CASE c = "CNMP38" -> InMode(m, "lte")
    [] c = "CNMP14" -> InMode(m, "3g")
    [] c = "saved"  -> InMode(m, saved)
    [] c = "COPS0"  -> [m EXCEPT !.sel = "auto"]
    [] c \in {"COPS1", "COPS2"} ->
         [m EXCEPT !.sel = c, !.camp = IF m.stuck THEN m.camp ELSE "none"]
    [] c = "CMSSN"  -> [m EXCEPT !.pin = TRUE]
    [] c = "CFUN4"  -> [m EXCEPT !.radio = FALSE, !.camp = "none", !.stuck = FALSE]
    [] c = "CFUN1"  -> [m EXCEPT !.radio = TRUE]
    [] c = "lock"   -> [m EXCEPT !.lock = TRUE]
    [] c = "unlock" -> [m EXCEPT !.lock = FALSE]

Serves(rat) ==
  /\ modem.radio /\ modem.sel = "auto" /\ modem.camp = "none"
  /\ modem.mode \in {"any", rat}

Camp(rat) ==
  /\ phase # "over" /\ Serves(rat)
  /\ modem' = [modem EXCEPT !.camp = rat]
  /\ UNCHANGED <<prog, obs, flags, run, lost, drops>>

(* The modem falls to 3G against its mode and stays until the radio is     *)
(* switched off.                                                           *)
Drop ==
  /\ phase = "run" /\ modem.radio /\ drops < MaxDrops /\ ~modem.stuck
  /\ modem' = [modem EXCEPT !.camp = "3g", !.stuck = TRUE]
  /\ drops' = drops + 1
  /\ UNCHANGED <<prog, obs, flags, run, lost>>

-----------------------------------------------------------------------------
(* The programs.                                                           *)

pin_lte4g == <<"release", "CNMP38", "COPS0">>
pin_wcdma3g == <<"unlock", "hold", "CNMP14">>

(* The operator of a full walk.                                            *)
CMSSN == IF recipe.full THEN <<"CMSSN">> ELSE <<>>
pin_cmssn_only == IF recipe.full THEN <<"unlock">> \o CMSSN ELSE <<>>

ensure_scan_rat == <<"enter">>

(* What a pass does once it knows that the modem is on 3G.  A survey       *)
(* leaves the rest to the hop thread.                                      *)
Airplane == <<"CFUN4", "CNMP38", "wipe", "CFUN1", "CNMP38", "COPS0">>
TripSoftly == <<"unlock", "wipe", "CNMP38", "COPS0">>
           \o (IF recipe.surveying THEN <<>> ELSE <<"poll", "nudge", "poll", "nudge">>)
Trip == <<"unlock", "wipe", "CNMP38", "COPS0">>
     \o (IF recipe.surveying THEN <<>>
         ELSE <<"poll", "nudge", "poll", "nudge">> \o Airplane \o <<"poll">>)

recover_lte == <<"unlock">> \o ensure_scan_rat \o <<"soft">>

(* A search: run_cops_now and run_ghost_now.  What follows it pins the     *)
(* operator again if the hop thread knows of one.                          *)
recover_after_search(pin) == <<"unlock">> \o pin_lte4g \o <<"wipe">> \o pin
SearchWith(cmd, pin) == <<"unlock">> \o pin_lte4g \o <<"wipe", "search">> \o cmd
                        \o <<"dwell", "found">> \o recover_after_search(pin)

(* A discover: the first one deregisters and has the ghost's turn; one     *)
(* that follows a walk on 3G finds the operator forgotten.                 *)
run_discover(find) == pin_lte4g \o <<"wipe", find>> \o pin_lte4g

(* A pass of the hop thread's loop: a kick whose lock holds, one whose     *)
(* lock fails twice, the next operator, or an empty frontier.  A kick that *)
(* ends on 3G makes the survey search again.                               *)
KickUnlocked == <<"look", "unlock", "CNMP38", "lock", "COPS0", "dwell", "unlock">>
                \o pin_cmssn_only
Kick == KickUnlocked \o pin_lte4g
KickDropped == KickUnlocked \o <<"wipe">> \o pin_lte4g \o run_discover("research")
KickFails == <<"look", "unlock", "CNMP38", "lock", "COPS0", "COPS0", "lock", "COPS0">>
             \o recover_lte \o <<"unlock">>
NextOperator == <<"look", "unlock">> \o pin_cmssn_only
run_wcdma_walk ==
  pin_wcdma3g \o <<"wipe", "lock", "COPS0", "dwell">> \o pin_wcdma3g \o pin_lte4g \o <<"wipe">>
Frontierless ==
  IF recipe.wcdma THEN <<"look">> \o run_wcdma_walk \o run_discover("refind") \o pin_cmssn_only
  ELSE <<"look">> \o run_discover("research") \o pin_cmssn_only

(* The ghost of a watch: SurveyProc::search_loop and qmi_loop.             *)
WatchGhost == <<"wipe", "search", "COPS1", "dwell", "COPS0", "found">>

Rounds == IF recipe.surveying
          THEN {Kick, KickDropped, KickFails, NextOperator, Frontierless}
          ELSE IF recipe.ghost THEN {WatchGhost} ELSE {}

HopExit == <<"unlock", "release", "saved", "CFUN1", "COPS0">>

pin_radio == <<"CNMP38">> \o (IF recipe.ghost THEN <<>> ELSE <<"COPS0">>)
             \o (IF recipe.surveying THEN <<>> ELSE <<"wipe">>)

(* What the main thread restores, of every recipe but a bare ghost watch.  *)
(* (Mutant: without CFUN=1, the radio being on most of the time.)          *)
Restores == recipe.surveying \/ recipe.enrich
RestoreWith(last) ==
  IF ~Restores THEN <<>>
  ELSE (IF recipe.surveying THEN <<"unlock", "saved">> ELSE <<>>) \o last
restore_radioUncertain == RestoreWith(<<"COPS0">>)
restore_radio == RestoreWith(<<"CFUN1", "COPS0">>)

Init ==
  /\ recipe \in Recipes /\ user \in UserModes
  /\ modem = [radio |-> TRUE, mode |-> user, sel |-> "auto", camp |-> "none",
              pin |-> FALSE, lock |-> FALSE, stuck |-> FALSE]
  /\ phase = "pin"
  /\ prog = [t \in Threads |->
               IF t = "main" THEN pin_radio
               ELSE IF t = "worker" /\ recipe.surveying
                    THEN <<"save">> \o run_discover("find") \o pin_cmssn_only
               ELSE <<>>]
  /\ obs = [t \in Threads |-> "none"]
  /\ busy = FALSE /\ search = FALSE /\ hold = FALSE
  /\ saved = "none" /\ lost = {} /\ drops = 0

-----------------------------------------------------------------------------
(* One step of a thread.                                                   *)

Runs(t) == phase # "pin" \/ t = "main"
NextOp(t, op) == Runs(t) /\ prog[t] # <<>> /\ Head(prog[t]) = op
Rest(t) == Tail(prog[t])
Then(t, ops) == prog' = [prog EXCEPT ![t] = ops \o Rest(t)]

(* The rest of a program from the end of the pass on.                      *)
Returned(t) ==
  LET at == CHOOSE i \in 1..Len(prog[t]) :
              prog[t][i] = "leave" /\ \A j \in 1..(i - 1) : prog[t][j] # "leave"
  IN  SubSeq(prog[t], at, Len(prog[t]))

Stopping == phase \notin {"pin", "run"}

Kind(c) == IF c = "CFUN1" THEN c ELSE "other"

(* An AT command, which the modem carries out or never sees.               *)
Command(t) == \E c \in Commands :
  /\ NextOp(t, c)
  /\ Then(t, <<>>)
  /\ \/ modem' = Effect(modem, c) /\ UNCHANGED lost
     \/ /\ Cardinality(lost) < MaxLost /\ Kind(c) \notin lost
        /\ lost' = lost \cup {Kind(c)} /\ UNCHANGED modem
  /\ UNCHANGED <<obs, flags, run, drops>>

(* Stores to the flags, and the mode that the hop thread saves.            *)
Store(t) ==
  /\ \/ NextOp(t, "hold") /\ hold' = TRUE /\ UNCHANGED <<search, saved>>
     \/ NextOp(t, "release") /\ hold' = FALSE /\ UNCHANGED <<search, saved>>
     \/ NextOp(t, "search") /\ search' = TRUE /\ UNCHANGED <<hold, saved>>
     \/ NextOp(t, "found") /\ search' = FALSE /\ UNCHANGED <<hold, saved>>
     \/ NextOp(t, "save") /\ saved' = modem.mode /\ UNCHANGED <<hold, search>>
  /\ Then(t, <<>>)
  /\ UNCHANGED <<modem, obs, busy, phase, user, recipe, lost, drops>>

(* A dwell lasts as long as it likes.                                      *)
Dwell(t) ==
  /\ NextOp(t, "dwell")
  /\ Then(t, <<>>)
  /\ UNCHANGED <<modem, obs, flags, run, lost, drops>>

(* wipe_fplmn: the SIM does not answer or is empty or is written at once,  *)
(* or it refuses the write while the radio is on.                          *)
Wipe(t) ==
  /\ NextOp(t, "wipe")
  /\ \/ Then(t, <<>>)
     \/ Then(t, <<"CFUN4", "CFUN1">> \o (IF recipe.ghost THEN <<>> ELSE <<"COPS0">>))
  /\ UNCHANGED <<modem, obs, flags, run, lost, drops>>

(* ensure_scan_rat, up to the first CPSI.  A thread that finds another one *)
(* inside returns at once.                                                 *)
Enter(t) ==
  /\ NextOp(t, "enter")
  /\ IF busy THEN Then(t, <<>>) /\ UNCHANGED <<busy, obs>>
     ELSE /\ busy' = TRUE
          /\ obs' = [obs EXCEPT ![t] = modem.camp]
          /\ Then(t, <<"hold?", "leave">>)
  /\ UNCHANGED <<modem, search, hold, run, lost, drops>>

(* In a hold the guard re-pins 3G if it sees LTE.  (Mutant: it does not.)  *)
HoldCheckWith(t, repin) ==
  /\ NextOp(t, "hold?")
  /\ Then(t, IF ~hold THEN <<"judge">> ELSE IF obs[t] = "lte" THEN repin ELSE <<>>)
  /\ UNCHANGED <<modem, obs, flags, run, lost, drops>>
HoldCheckIdle(t) == HoldCheckWith(t, <<>>)
HoldCheck(t) == HoldCheckWith(t, <<"CNMP14">>)

(* The second CPSI and the judgement.  DIAG may tell that the serving cell *)
(* is on 3G.  (Mutant: a pass that sees no service does not pin LTE.)      *)
JudgeWith(t, pin) ==
  /\ NextOp(t, "judge")
  /\ \E diag \in {FALSE, modem.camp = "3g"} :
       LET fine == obs[t] = "lte" /\ modem.camp = "lte"
           sticky == obs[t] = "3g" \/ diag
       IN  /\ search' = (search /\ (fine \/ ~sticky))
           /\ Then(t, IF fine \/ (search /\ ~sticky) THEN <<>>
                      ELSE IF ~sticky THEN pin
                      ELSE IF obs[t] = "3g" THEN Trip ELSE TripSoftly)
  /\ UNCHANGED <<modem, obs, busy, hold, run, lost, drops>>
JudgeIdle(t) == JudgeWith(t, <<>>)
Judge(t) == JudgeWith(t, <<"CNMP38">>)

(* Waiting for LTE: a block of polls, and the nudge that follows it.       *)
Poll(t) ==
  /\ NextOp(t, "poll")
  /\ prog' = [prog EXCEPT ![t] =
       IF modem.camp = "lte" /\ ~Stopping THEN Returned(t) ELSE Rest(t)]
  /\ UNCHANGED <<modem, obs, flags, run, lost, drops>>
Nudge(t) ==
  /\ NextOp(t, "nudge")
  /\ Then(t, IF Stopping THEN <<>> ELSE <<"CNMP38", "COPS0">>)
  /\ UNCHANGED <<modem, obs, flags, run, lost, drops>>

Leave(t) ==
  /\ NextOp(t, "leave")
  /\ busy' = FALSE
  /\ obs' = [obs EXCEPT ![t] = "none"]
  /\ Then(t, <<>>)
  /\ UNCHANGED <<modem, search, hold, run, lost, drops>>

(* recover_lte after the pass: the soft recovery, then CFUN if a CPSI has  *)
(* just shown the modem on 3G.                                             *)
Soft(t) ==
  /\ NextOp(t, "soft")
  /\ Then(t, IF modem.camp = "lte" THEN <<>>
             ELSE <<"wipe", "CNMP38", "COPS0">>
                  \o (IF modem.camp = "3g" THEN <<"hard">> ELSE <<>>))
  /\ UNCHANGED <<modem, obs, flags, run, lost, drops>>
Hard(t) ==
  /\ NextOp(t, "hard")
  /\ Then(t, IF modem.camp = "lte" /\ ~Stopping THEN <<>> ELSE Airplane)
  /\ UNCHANGED <<modem, obs, flags, run, lost, drops>>

(* The top of the hop thread's loop: 3G and no LTE cell heard.             *)
Look(t) ==
  /\ NextOp(t, "look")
  /\ \E heard \in BOOLEAN :
       Then(t, IF modem.camp = "3g" /\ ~heard /\ ~hold THEN <<"CNMP38", "COPS0">> ELSE <<>>)
  /\ UNCHANGED <<modem, obs, flags, run, lost, drops>>

(* The searches of a discover, unless the survey is being stopped.         *)
Find(t) ==
  /\ \/ /\ NextOp(t, "find")
        /\ Then(t, IF Stopping THEN <<>>
                   ELSE SearchWith(<<"COPS2">>, <<>>)
                        \o (IF recipe.ghost THEN SearchWith(<<"COPS1">>, <<>>) ELSE <<>>))
     \/ NextOp(t, "refind") /\ Then(t, IF Stopping THEN <<>> ELSE SearchWith(<<>>, <<>>))
     \/ /\ NextOp(t, "research")
        /\ Then(t, IF Stopping THEN <<>> ELSE SearchWith(<<>>, CMSSN))
  /\ UNCHANGED <<modem, obs, flags, run, lost, drops>>

Step(t) == \/ Command(t) \/ Store(t) \/ Wipe(t) \/ Enter(t) \/ HoldCheck(t)
           \/ Judge(t) \/ Poll(t) \/ Nudge(t) \/ Leave(t) \/ Soft(t) \/ Hard(t)
           \/ Look(t) \/ Find(t)

-----------------------------------------------------------------------------
(* The loops of the threads.                                               *)

(* rat_guard_loop: a pass every two seconds.                               *)
GuardPass ==
  /\ phase = "run" /\ prog["guard"] = <<>>
  /\ prog' = [prog EXCEPT !["guard"] = ensure_scan_rat]
  /\ UNCHANGED <<modem, obs, flags, run, lost, drops>>

WorkerRound ==
  /\ phase = "run" /\ prog["worker"] = <<>>
  /\ \E r \in Rounds : prog' = [prog EXCEPT !["worker"] = r]
  /\ UNCHANGED <<modem, obs, flags, run, lost, drops>>

Started ==
  /\ phase = "pin" /\ prog["main"] = <<>>
  /\ phase' = "run"
  /\ UNCHANGED <<modem, prog, obs, flags, saved, user, recipe, lost, drops>>

(* A signal or the end of the survey: stop_feeds raises the stop flags;    *)
(* the hop thread leaves its loop when its round is over.                  *)
stop_feeds ==
  /\ phase = "run"
  /\ phase' = "stop"
  /\ prog' = IF recipe.surveying
             THEN [prog EXCEPT !["worker"] = prog["worker"] \o HopExit] ELSE prog
  /\ UNCHANGED <<modem, obs, flags, saved, user, recipe, lost, drops>>

(* The joins, and then the restore.                                        *)
Joined ==
  /\ phase = "stop" /\ prog["guard"] = <<>> /\ prog["worker"] = <<>>
  /\ phase' = "restore"
  /\ prog' = [prog EXCEPT !["main"] = restore_radio]
  /\ UNCHANGED <<modem, obs, flags, saved, user, recipe, lost, drops>>

Over ==
  /\ phase = "restore" /\ prog["main"] = <<>>
  /\ phase' = "over"
  /\ UNCHANGED <<modem, prog, obs, flags, saved, user, recipe, lost, drops>>

Next == \/ \E t \in Threads : Step(t) \/ Dwell(t)
        \/ GuardPass \/ WorkerRound \/ Started \/ stop_feeds \/ Joined \/ Over
        \/ \E rat \in {"lte", "3g"} : Camp(rat)
        \/ Drop

(* Threads run (a dwell may take for ever, the program need not stop), and *)
(* a modem that could have LTE service camps some time.                    *)
Spec == /\ Init /\ [][Next]_vars
        /\ \A t \in Threads : WF_vars(Step(t))
        /\ WF_vars(GuardPass) /\ WF_vars(Started)
        /\ SF_vars(Camp("lte"))

-----------------------------------------------------------------------------
(* Whatever the threads were doing when the program was told to stop, and  *)
(* whichever single command was lost, in the end the radio is on, COPS is  *)
(* automatic and no cell is locked.  (This says nothing of modem.pin:      *)
(* neither the hop thread's exit nor restore_radio clears CMSSN, so the    *)
(* operator that a full walk has pinned outlives the program.)             *)
EndRestored ==
  phase = "over" /\ Restores =>
    modem.radio /\ modem.sel = "auto" /\ ~modem.lock

(* A watch that was dropped to 3G, however that happened, is brought back  *)
(* to LTE for as long as it runs, unless the very command that switches    *)
(* the radio on again was lost.                                            *)
BackOnLte ==
  ~recipe.surveying =>
    []<>(modem.camp = "lte" \/ modem.sel = "COPS1" \/ Stopping \/ "CFUN1" \in lost)

(* A survey that walks 3G gets back to it when the guard, acting on what   *)
(* it saw before the walk began, pins LTE in the middle of it, or when the *)
(* modem did not act on the walk's own pin.  (Nothing does if the radio    *)
(* was left off or the selection by hand, by a command that was lost.)     *)
HoldIsRestored ==
  hold /\ modem.mode = "lte" ~>
    \/ ~hold \/ "3g" \in {modem.mode, modem.camp}
    \/ Stopping \/ "CFUN1" \in lost \/ modem.sel # "auto"

(* The mode of a walk does not outlive it when the guard, acting on the    *)
(* hold it saw, pins 3G after the walk has ended.                          *)
WalkModeEnds ==
  ~hold /\ modem.mode = "3g" ~> hold \/ search \/ modem.mode # "3g" \/ Stopping
=============================================================================
