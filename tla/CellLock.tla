------------------------------- MODULE CellLock -------------------------------
(***************************************************************************)
(* Locking a cell over AT: SimcomAtControl (include/qcom/linux), the hop   *)
(* thread's send_ccell_lock and unlock (app/observer/SurveyHop.cpp), the   *)
(* radio restore at the end (SurveyProc.cpp) and another thread that uses  *)
(* the same AtBus.  The modem keeps two sticky locks, CCELLCFG and         *)
(* CLECELL; it may refuse a lock, or say OK and not keep it.               *)
(***************************************************************************)
EXTENDS AtPort

CONSTANTS
  Cells,     (* The cells that the hop locks.                              *)
  NoCell,
  MaxOthers  (* Bound on the commands of the other thread.                 *)

ASSUME LockAssumption == NoCell \notin Cells /\ MaxOthers \in Nat

VARIABLES
  locks,     (* The modem's sticky locks.                                  *)
  hop,       (* The hop thread: its pc, the cell, and whether CCELLCFG was
                verified.                                                  *)
  others

vars == <<port, user_stop, locks, hop, others>>

(* What the hop thread sends at each of its points, in the order of        *)
(* lock_lte, send_ccell_lock, unlock_lte and restore_radio.  COPS stands   *)
(* for the commands in between that do not concern locks.                  *)
OpAt ==
  [clearfcn |-> "CLEARFCN", ccellcfg |-> "CCELLCFG=1", ccellcfg_q |-> "CCELLCFG?",
   clecell |-> "CLECELL=", clecell_q |-> "CLECELL?", cops |-> "COPS=0",
   held_cfg |-> "CCELLCFG?", held_cle |-> "CLECELL?",
   unlock_cfg |-> "CCELLCFG=0", unlock_cle |-> "CLECELL", unlock_earfcn |-> "COPS=0",
   restore_cfg |-> "CCELLCFG=0", restore_cle |-> "CLECELL", restore_rest |-> "COPS=0"]

Command ==
  [op : {OpAt[pc] : pc \in DOMAIN OpAt} \cup {"CPSI?"}, cell : Cells \cup {NoCell}]

(* Only a lock command names the cell.                                     *)
CommandAt(pc) ==
  [op |-> OpAt[pc], cell |-> IF pc \in {"ccellcfg", "clecell"} THEN hop.cell ELSE NoCell]

HopPcs == DOMAIN OpAt \cup {"idle", "held", "failed", "end"}
AtRest == hop.pc \in {"idle", "held", "failed"}

Init ==
  /\ PortInit
  /\ locks = [cfg |-> NoCell, cle |-> NoCell]
  /\ hop = [pc |-> "idle", cell |-> NoCell, ok |-> FALSE]
  /\ others = 0

-----------------------------------------------------------------------------
(* Reading an answer.                                                      *)

reply_ok(lines) == Has(lines, "OK") /\ ~Has(lines, "ERROR")

(* The first line with the tag of the query names the locked cell.         *)
Matches(lines, tag, cell) ==
  \E i \in DOMAIN lines :
    /\ lines[i].kind = tag /\ lines[i].cell = cell
    /\ \A j \in 1..(i - 1) : lines[j].kind # tag

(* Mutant: an OK to the lock command counts, the query is not made.        *)
CfgSentUnverified(lines) == [pc |-> "clecell", ok |-> reply_ok(lines)]
CfgSent(lines) ==
  [pc |-> IF reply_ok(lines) THEN "ccellcfg_q" ELSE "clecell", ok |-> FALSE]

(* Where the hop thread goes from a point with the answer it got, and      *)
(* whether the lock counts as verified.                                    *)
AfterLock(lines) ==
  CASE hop.pc = "clearfcn"   -> [pc |-> "ccellcfg", ok |-> FALSE]
    [] hop.pc = "ccellcfg"   -> CfgSent(lines)
    [] hop.pc = "ccellcfg_q" -> [pc |-> "clecell", ok |-> Matches(lines, "cfg", hop.cell)]
    [] hop.pc = "clecell"    -> [pc |-> IF reply_ok(lines) THEN "clecell_q" ELSE "cops",
                                 ok |-> hop.ok]
    [] hop.pc = "clecell_q"  -> [pc |-> "cops",
                                 ok |-> hop.ok \/ Matches(lines, "cle", hop.cell)]

(* send_ccell_lock: a lock that was not verified is looked up once more.   *)
AfterCops(lines) ==
  CASE hop.pc = "cops"     -> [pc |-> IF hop.ok THEN "held" ELSE "held_cfg", ok |-> hop.ok]
    [] hop.pc = "held_cfg" ->
         [pc |-> IF Matches(lines, "cfg", hop.cell) THEN "held" ELSE "held_cle", ok |-> FALSE]
    [] hop.pc = "held_cle" ->
         [pc |-> IF Matches(lines, "cle", hop.cell) THEN "held" ELSE "failed", ok |-> FALSE]

(* unlock_lte and restore_radio send one command after the other.          *)
AfterClear(lines) ==
  [ok |-> FALSE,
   pc |-> CASE hop.pc = "unlock_cfg"    -> "unlock_cle"
            [] hop.pc = "unlock_cle"    -> "unlock_earfcn"
            [] hop.pc = "unlock_earfcn" -> "idle"
            [] hop.pc = "restore_cfg"   -> "restore_cle"
            [] hop.pc = "restore_cle"   -> "restore_rest"
            [] hop.pc = "restore_rest"  -> "end"]

After(lines) ==
  CASE hop.pc \in {"clearfcn", "ccellcfg", "ccellcfg_q", "clecell", "clecell_q"} ->
         AfterLock(lines)
    [] hop.pc \in {"cops", "held_cfg", "held_cle"} -> AfterCops(lines)
    [] OTHER -> AfterClear(lines)

-----------------------------------------------------------------------------
(* The hop thread and, after it was joined, the main thread.               *)

StartLock(c) ==
  /\ hop.pc = "idle" /\ ~user_stop
  /\ hop' = [pc |-> "clearfcn", cell |-> c, ok |-> FALSE]
  /\ UNCHANGED <<port, user_stop, locks, others>>

StartUnlock ==
  /\ hop.pc \in {"held", "failed"}
  /\ hop' = [pc |-> "unlock_cfg", cell |-> NoCell, ok |-> FALSE]
  /\ UNCHANGED <<port, user_stop, locks, others>>

restore_radio ==
  /\ user_stop /\ AtRest
  /\ call.pc = "idle"                     \* the other threads are joined
  /\ hop' = [pc |-> "restore_cfg", cell |-> NoCell, ok |-> FALSE]
  /\ UNCHANGED <<port, user_stop, locks, others>>

HopSends ==
  /\ hop.pc \in DOMAIN OpAt
  /\ Begin("hop", CommandAt(hop.pc))
  /\ UNCHANGED <<locks, hop, others>>

HopReturns ==
  /\ Return("hop")
  /\ LET next == After(call.out)
     IN  hop' = [hop EXCEPT !.pc = next.pc, !.ok = next.ok]
  /\ KeepPort /\ UNCHANGED <<locks, others>>

(* rat-guard, the CPSI poll or the search loop.                            *)
OtherSends ==
  /\ ~user_stop /\ others < MaxOthers /\ others' = others + 1
  /\ Begin("other", [op |-> "CPSI?", cell |-> NoCell])
  /\ UNCHANGED <<locks, hop>>

OtherReturns ==
  /\ Return("other")
  /\ KeepPort /\ UNCHANGED <<locks, hop, others>>

UserStop ==
  /\ ~user_stop /\ user_stop' = TRUE
  /\ UNCHANGED <<port, locks, hop, others>>

-----------------------------------------------------------------------------
(* The modem.                                                              *)

Line(kind, cell) == [kind |-> kind, cell |-> cell]
Done == <<Line("OK", NoCell)>>
Refused == <<Line("ERROR", NoCell)>>

SetLock(which, cmd) ==
  \/ locks' = [locks EXCEPT ![which] = cmd.cell] /\ Answer(Done, <<>>)
  \/ UNCHANGED locks /\ Answer(Done, <<>>)
  \/ UNCHANGED locks /\ Answer(Refused, <<>>)

(* The modem clears a lock when told to, except that before the end it may *)
(* refuse once in a while.                                                 *)
ClearLock(which, cmd) ==
  \/ locks' = [locks EXCEPT ![which] = NoCell] /\ Answer(Done, <<>>)
  \/ ~user_stop /\ UNCHANGED locks /\ Answer(Refused, <<>>)

Tell(which, cmd) ==
  /\ UNCHANGED locks
  /\ Answer(<<Line(which, locks[which])>>, <<RestOf(cmd)>>)

Execute ==
  /\ todo # <<>>
  /\ LET cmd == Head(todo)
     IN  CASE cmd.op = "CCELLCFG=1" -> SetLock("cfg", cmd)
           [] cmd.op = "CLECELL="   -> SetLock("cle", cmd)
           [] cmd.op = "CCELLCFG=0" -> ClearLock("cfg", cmd)
           [] cmd.op = "CLECELL"    -> ClearLock("cle", cmd)
           [] cmd.op = "CCELLCFG?"  -> Tell("cfg", cmd)
           [] cmd.op = "CLECELL?"   -> Tell("cle", cmd)
           [] OTHER -> UNCHANGED locks /\ Answer(Done, <<>>)
  /\ UNCHANGED <<hop, others>>

Host ==
  \/ HopSends \/ HopReturns \/ OtherReturns
  \/ Transact /\ UNCHANGED <<locks, hop, others>>

Next ==
  \/ Host \/ Execute \/ OtherSends \/ UserStop
  \/ StartUnlock \/ restore_radio
  \/ \E c \in Cells : StartLock(c)

(* The threads run on and the modem answers what it was sent; no wait has  *)
(* to expire.                                                              *)
Spec ==
  /\ Init /\ [][Next]_vars
  /\ WF_vars(Host) /\ WF_vars(restore_radio)
  /\ WF_vars(Execute)

-----------------------------------------------------------------------------
(* The hop thread grinds a cell as locked only while the modem keeps a     *)
(* lock on that cell, whatever answers came late or to the wrong command.  *)
HeldIsLocked ==
  hop.pc = "held" => hop.cell \in {locks.cfg, locks.cle}

(* After a stop no transaction waits for its answer, and still the modem   *)
(* ends without any lock.                                                  *)
Released == hop.pc = "end" /\ todo = <<>> /\ locks = [cfg |-> NoCell, cle |-> NoCell]
StopReleases == user_stop ~> Released

(* The AT dialogue seen as a control port: the hop thread holds the cell   *)
(* that it grinds, and the radio is being restored from restore_radio on.  *)
Port == INSTANCE ControlPort WITH
  held    <- IF hop.pc = "held" THEN hop.cell ELSE NoCell,
  locked  <- {locks.cfg, locks.cle} \ {NoCell},
  closing <- hop.pc \in {"restore_cfg", "restore_cle", "restore_rest", "end"}
=============================================================================
