-------------------------------- MODULE AtPort --------------------------------
(***************************************************************************)
(* The AT port shared by all threads: AtSession and AtBus (app/observer).  *)
(* A transaction drains what has arrived, writes its command and reads     *)
(* until a final result code, a timeout or a user stop; the mutex of the   *)
(* bus admits one transaction at a time.  The modem executes what was      *)
(* written in order, as late as it likes.                                  *)
(*                                                                         *)
(* A command is a record with a field op, a line one with a field kind;    *)
(* the kinds "OK" and "ERROR" are final result codes.                      *)
(***************************************************************************)
EXTENDS Naturals, Sequences

CONSTANT MaxTimeouts  (* Bound on the waits that expire.                   *)

ASSUME TimeoutsAssumption == MaxTimeouts \in Nat

VARIABLES
  todo,      (* Commands written and not yet executed by the modem.        *)
  inbuf,     (* Lines received and not yet read.                           *)
  open,      (* fd_ >= 0.                                                  *)
  call,      (* The transaction that holds the bus.                        *)
  timeouts,
  user_stop  (* g_user_stop.                                               *)

port == <<todo, inbuf, open, call, timeouts>>

Ate0 == [op |-> "ATE0"]
Nobody == "nobody"
Idle == [pc |-> "idle", who |-> Nobody, cmd |-> Ate0, attempt |-> 0, out |-> <<>>]

PortInit ==
  /\ todo = <<>> /\ inbuf = <<>>
  /\ open = TRUE /\ call = Idle
  /\ timeouts = 0 /\ user_stop = FALSE

Has(lines, kind) == \E i \in DOMAIN lines : lines[i].kind = kind
at_has_final_result(lines) == Has(lines, "OK") \/ Has(lines, "ERROR")

TimesOut == timeouts < MaxTimeouts /\ timeouts' = timeouts + 1

-----------------------------------------------------------------------------
(* The host.                                                               *)

(* A command goes out whether or not the user has asked to stop.           *)
(* (Mutant: nothing is written after a stop.)                              *)
WrittenUnlessStopped(c) == IF user_stop THEN todo ELSE Append(todo, c)
Written(c) == Append(todo, c)

(* The port is drained and the command written, or first reopened.         *)
Begin(who, cmd) ==
  /\ call.pc = "idle"
  /\ inbuf' = <<>> /\ open' = TRUE
  /\ todo' = Written(IF open THEN cmd ELSE Ate0)
  /\ call' = [pc |-> IF open THEN "wait" ELSE "echo", who |-> who, cmd |-> cmd,
              attempt |-> 1, out |-> <<>>]
  /\ UNCHANGED <<timeouts, user_stop>>

(* ensure_open waits a moment for the answer to ATE0, then goes on.        *)
EchoOff ==
  /\ call.pc = "echo"
  /\ \/ at_has_final_result(inbuf) /\ UNCHANGED timeouts
     \/ TimesOut
  /\ inbuf' = <<>>
  /\ todo' = Written(call.cmd)
  /\ call' = [call EXCEPT !.pc = "wait"]
  /\ UNCHANGED <<open, user_stop>>

Read ==
  /\ call.pc = "wait" /\ ~user_stop /\ inbuf # <<>>
  /\ LET out == call.out \o inbuf
     IN  call' = [call EXCEPT !.out = out,
                    !.pc = IF at_has_final_result(out) THEN "done" ELSE "wait"]
  /\ inbuf' = <<>>
  /\ UNCHANGED <<todo, open, timeouts, user_stop>>

(* A partial answer is returned as it is; if it was a hang-up that ended   *)
(* the wait and not the deadline, the port is closed as well.              *)
ExpirePartial ==
  /\ call.pc = "wait" /\ ~user_stop /\ call.out # <<>>
  /\ TimesOut
  /\ open' \in {open, FALSE}
  /\ call' = [call EXCEPT !.pc = "done"]
  /\ UNCHANGED <<todo, inbuf, user_stop>>

(* Without one the port is closed and the command sent once more.          *)
MayRepeat == call.attempt < 2

ExpireEmpty ==
  /\ call.pc = "wait" /\ ~user_stop /\ call.out = <<>>
  /\ TimesOut
  /\ inbuf' = <<>>
  /\ IF MayRepeat
     THEN /\ todo' = Written(Ate0)
          /\ call' = [call EXCEPT !.pc = "echo", !.attempt = call.attempt + 1]
          /\ UNCHANGED open
     ELSE /\ call' = [call EXCEPT !.pc = "done"]
          /\ open' = FALSE
          /\ UNCHANGED todo
  /\ UNCHANGED user_stop

(* A stop does not wait for the answer.                                    *)
StopWaiting ==
  /\ call.pc = "wait" /\ user_stop
  /\ call' = [call EXCEPT !.pc = "done"]
  /\ UNCHANGED <<todo, inbuf, open, timeouts, user_stop>>

Transact == EchoOff \/ Read \/ ExpirePartial \/ ExpireEmpty \/ StopWaiting

(* The caller takes what was read and releases the bus.                    *)
Return(who) == call.pc = "done" /\ call.who = who /\ call' = Idle
KeepPort == UNCHANGED <<todo, inbuf, open, timeouts, user_stop>>

-----------------------------------------------------------------------------
(* The wire.                                                               *)

(* The modem answers the oldest command.  What a query tells comes first   *)
(* and its OK later: until then the rest of the answer stands in its place.*)
(* What arrives while the tty is closed is lost.                           *)
RestOf(cmd) == [op |-> "rest", of |-> cmd.op]

Answer(lines, more) ==
  /\ todo' = more \o Tail(todo)
  /\ inbuf' = IF open THEN inbuf \o lines ELSE inbuf
  /\ UNCHANGED <<open, call, timeouts, user_stop>>
=============================================================================
