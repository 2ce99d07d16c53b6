----------------------------- MODULE ControlPort -----------------------------
(***************************************************************************)
(* What the callers of IModemControl::apply (include/observer/engine/      *)
(* ModemControl.h) rely on: a LockCell that was answered Ok holds until    *)
(* the caller itself gives it up, a failed one promises nothing, and once  *)
(* the radio is being restored nothing is granted any more.  CellLock      *)
(* implements this over a real AT port.                                    *)
(***************************************************************************)
CONSTANT NoCell

VARIABLES
  held,     (* The cell whose lock was answered Ok and not given up.       *)
  locked,   (* The cells to which the modem is locked.                     *)
  closing   (* The radio is being restored.                                *)

vars == <<held, locked, closing>>

Init == held = NoCell /\ locked = {} /\ closing = FALSE

(* Ok: from now on the modem is on the cell.                               *)
Grant ==
  /\ ~closing
  /\ held' # NoCell /\ held' \in locked'
  /\ UNCHANGED closing

(* An unlock, a lock that fails, and whatever the modem does with its      *)
(* locks while nothing is held.                                            *)
Loose ==
  /\ held' = NoCell
  /\ UNCHANGED closing

(* What else happens leaves the lock of a held cell alone.                 *)
Keep ==
  /\ held # NoCell /\ held \in locked'
  /\ UNCHANGED <<held, closing>>

Close ==
  /\ ~closing /\ closing' = TRUE
  /\ held' = NoCell

Next == Grant \/ Loose \/ Keep \/ Close

Spec == Init /\ [][Next]_vars
=============================================================================
