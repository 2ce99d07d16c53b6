------------------------------- MODULE DiagLink -------------------------------
(***************************************************************************)
(* The DIAG serial link: LinuxSource with its worker thread                *)
(* (include/qcom/linux/LinuxSource.h), the main loop that rebuilds it      *)
(* after a USB unplug (SurveyProc::pump and reconnect_diag in              *)
(* app/observer/SurveyProc.cpp), the hop thread that asks for LTE mask     *)
(* packs, and the modem at the other end of the cable.                     *)
(*                                                                         *)
(* Threads share atomics, so every load or store that another thread can   *)
(* see is a step of its own.  Sleeps and retries of one kind are one step, *)
(* what was read from the modem is left out.  The recipe is one with LTE   *)
(* masks (init_masks, not WcdmaOnly).                                      *)
(*                                                                         *)
(* The modem may enumerate again under another path, and another port may  *)
(* take the path that the program goes on using; with --device the program *)
(* uses no other path at all.                                              *)
(***************************************************************************)
EXTENDS Naturals

CONSTANTS
  Nodes,         (* Device paths under which the modem may enumerate.      *)
  Packs,         (* The LteDiagPack values, Search among them.             *)
  Attempts,      (* Opens of one revive (20 in the code).                  *)
  WritesMayFail, (* Whether a write can fail on a tty that stays open.     *)
  MaxFaults,     (* Bound on unplugs, hang-ups and other faults.           *)
  MaxRequests    (* Bound on the packs the hop thread asks for.            *)

Gone == 0
Unknown == "Unknown"

ASSUME LinkAssumption ==
  /\ Gone \notin Nodes
  /\ Nodes # {}
  /\ "Search" \in Packs
  /\ Unknown \notin Packs
  /\ Attempts \in Nat \ {0}
  /\ WritesMayFail \in BOOLEAN
  /\ MaxFaults \in Nat
  /\ MaxRequests \in Nat

VARIABLES
  node,      (* Where the modem is enumerated, or Gone.                    *)
  modem,     (* The LTE mask pack that the modem has, or Unknown.          *)
  running,   (* m_running.                                                 *)
  stopping,  (* m_stop_requested.                                          *)
  others,    (* The paths that other ports, of whatever device, have.      *)
  device,    (* The path given with --device, or Gone without one.         *)
  fd,        (* m_fd: closed, open, dead after a hang-up, or open on a     *)
             (* port that is not the modem's DIAG port: foreign.           *)
  path,      (* m_cfg.device_path.                                         *)
  wanted,    (* m_wanted_lte_pack.                                         *)
  applied,   (* m_applied_lte_pack.                                        *)
  worker,    (* m_worker: its pc and the locals of read_loop.              *)
  pump,      (* The main thread: its pc, diag_path, and whether it quits.  *)
  alive,     (* ctx_.diag_alive.                                           *)
  needs,     (* ctx_.diag_needs_reconnect.                                 *)
  recent,    (* The last reconnect is less than 8 s ago.                   *)
  user_stop, (* g_user_stop.                                               *)
  faults,
  requests

air == <<node, modem, faults>>
source == <<running, stopping, fd, path>>
packs == <<wanted, applied>>
flags == <<alive, needs, recent>>
ports == <<others, device>>
outside == <<user_stop, requests, ports>>
vars == <<air, source, packs, worker, pump, flags, outside>>

WorkerPcs == {"none", "loop", "apply", "revive", "leave", "mark", "notify", "flag", "done"}
PumpPcs == {"check", "reconnect", "wait", "waited", "set", "stop", "halt", "join",
            "open", "init", "at", "alive", "clear", "end"}

WorkerStates == [pc : WorkerPcs, attempt : 0..Attempts, chance : {1, 2},
                 want : Packs, quiet : BOOLEAN]
PumpStates == [pc : PumpPcs, target : Nodes, quit : BOOLEAN]

TypeOK ==
  /\ node \in Nodes \cup {Gone} /\ modem \in Packs \cup {Unknown}
  /\ running \in BOOLEAN /\ stopping \in BOOLEAN
  /\ others \subseteq Nodes /\ device \in Nodes \cup {Gone}
  /\ fd \in {"closed", "open", "foreign", "dead"} /\ path \in Nodes
  /\ wanted \in Packs /\ applied \in Packs \cup {Unknown}
  /\ worker \in WorkerStates
  /\ pump \in PumpStates
  /\ alive \in BOOLEAN /\ needs \in BOOLEAN /\ recent \in BOOLEAN
  /\ user_stop \in BOOLEAN
  /\ faults \in 0..MaxFaults /\ requests \in 0..MaxRequests

(* Setup has started the source on the modem's port, found in the catalog  *)
(* or given with --device; its mask initialisation worked or, with a       *)
(* warning, did not.                                                       *)
Init ==
  /\ node \in Nodes /\ path = node
  /\ others \in SUBSET (Nodes \ {node}) /\ device \in {Gone, path}
  /\ running = TRUE /\ stopping = FALSE /\ fd = "open"
  /\ wanted = "Search"
  /\ \/ modem = "Search" /\ applied = "Search"
     \/ WritesMayFail /\ modem = Unknown /\ applied = Unknown
  /\ worker = [pc |-> "loop", attempt |-> 0, chance |-> 1, want |-> "Search", quiet |-> FALSE]
  /\ pump = [pc |-> "check", target |-> path, quit |-> FALSE]
  /\ alive = TRUE /\ needs = FALSE /\ recent = FALSE
  /\ user_stop = FALSE /\ faults = 0 /\ requests = 0

WorkerGoes(pc) == worker' = [worker EXCEPT !.pc = pc]
PumpGoes(pc) == pump' = [pump EXCEPT !.pc = pc]

Fault == faults < MaxFaults /\ faults' = faults + 1
NoFault == UNCHANGED faults

(* access() and open() see a path, not what stands behind it.              *)
CanOpen(p) == p = node \/ p \in others
Opened(p) == IF p = node THEN "open" ELSE "foreign"
Live == fd \in {"open", "foreign"}

(* What a written mask pack makes of the modem.                            *)
Reached(p) == IF fd = "open" THEN p ELSE modem

-----------------------------------------------------------------------------
(* The worker: read_loop.                                                  *)

(* maybe_apply_lte_pack on an idle tick or after data: the wanted pack is  *)
(* read, and written to the modem some time later.                         *)
ReadWanted ==
  /\ worker.pc = "loop" /\ running /\ Live
  /\ wanted # applied
  /\ worker' = [worker EXCEPT !.pc = "apply", !.want = wanted]
  /\ UNCHANGED <<air, source, packs, pump, flags, outside>>

(* Mutant: the pack noted as applied is the one wanted by now.             *)
NoteLatest(w) == applied' = wanted
NoteApplied(w) == applied' = w

Apply ==
  /\ worker.pc = "apply" /\ Live
  /\ modem' = Reached(worker.want)
  /\ NoteApplied(worker.want)
  /\ WorkerGoes("loop")
  /\ UNCHANGED <<node, faults, source, wanted, pump, flags, outside>>

(* A write that fails leaves the note alone; the mask, the first of the    *)
(* two frames, may have arrived.                                           *)
ApplyFails ==
  /\ worker.pc = "apply"
  /\ \/ ~Live /\ NoFault /\ UNCHANGED modem
     \/ Live /\ WritesMayFail /\ Fault /\ modem' \in {modem, Reached(worker.want)}
  /\ WorkerGoes("loop")
  /\ UNCHANGED <<node, source, packs, pump, flags, outside>>

(* EOF, an error or a lasting hang-up: the tty is closed and reopened.     *)
(* (Mutant: the source counts as stopped from here on.)                    *)
HangUpStopping == running' = FALSE
HangUpRunning == UNCHANGED running

SeeHangUp ==
  /\ worker.pc = "loop" /\ running /\ fd = "dead"
  /\ fd' = "closed"
  /\ HangUpRunning
  /\ worker' = [worker EXCEPT !.pc = "revive", !.attempt = 0, !.chance = 1]
  /\ UNCHANGED <<air, stopping, path, packs, pump, flags, outside>>

(* Mutant: one attempt too many.                                           *)
MayReviveOnceMore == running /\ ~stopping /\ worker.attempt <= Attempts
MayRevive == running /\ ~stopping /\ worker.attempt < Attempts

(* Mutant: the pack noted as applied survives the reopened tty.            *)
KeepNote == UNCHANGED applied
ForgetApplied == applied' = Unknown

Revive ==
  /\ worker.pc = "revive" /\ MayRevive
  /\ CanOpen(path)
  /\ fd' = Opened(path)
  /\ ForgetApplied
  /\ WorkerGoes("loop")
  /\ UNCHANGED <<air, running, stopping, path, wanted, pump, flags, outside>>

ReviveFails ==
  /\ worker.pc = "revive" /\ MayRevive
  /\ IF CanOpen(path) THEN Fault ELSE NoFault
  /\ worker' = [worker EXCEPT !.attempt = @ + 1]
  /\ UNCHANGED <<node, modem, source, packs, pump, flags, outside>>

(* Out of attempts, or asked to stop: a second chance, then the end.       *)
ReviveEnds ==
  /\ worker.pc = "revive" /\ ~MayRevive
  /\ worker' = IF worker.chance = 1 THEN [worker EXCEPT !.chance = 2, !.attempt = 0]
               ELSE [worker EXCEPT !.pc = "leave"]
  /\ UNCHANGED <<air, source, packs, pump, flags, outside>>

(* Mutant: the loop does not look at m_running.                            *)
LoopRunsOn == FALSE
LoopEnds == ~running

LeaveLoop ==
  /\ worker.pc = "loop"
  /\ \/ LoopEnds /\ NoFault
     \/ running /\ Fault                     \* epoll_wait fails
  /\ WorkerGoes("leave")
  /\ UNCHANGED <<node, modem, source, packs, pump, flags, outside>>

ReadStopping ==
  /\ worker.pc = "leave"
  /\ worker' = [worker EXCEPT !.pc = "mark", !.quiet = stopping]
  /\ UNCHANGED <<air, source, packs, pump, flags, outside>>

MarkStopped ==
  /\ worker.pc = "mark"
  /\ running' = FALSE
  /\ WorkerGoes(IF worker.quiet THEN "done" ELSE "notify")
  /\ UNCHANGED <<air, stopping, fd, path, packs, pump, flags, outside>>

(* The disconnect callback, store by store.                                *)
NotifyDead ==
  /\ worker.pc = "notify"
  /\ alive' = FALSE
  /\ WorkerGoes("flag")
  /\ UNCHANGED <<air, source, packs, pump, needs, recent, outside>>

NotifyNeeds ==
  /\ worker.pc = "flag"
  /\ needs' = TRUE
  /\ WorkerGoes("done")
  /\ UNCHANGED <<air, source, packs, pump, alive, recent, outside>>

Worker ==
  \/ ReadWanted \/ Apply \/ ApplyFails
  \/ SeeHangUp \/ Revive \/ ReviveFails \/ ReviveEnds
  \/ LeaveLoop \/ ReadStopping \/ MarkStopped \/ NotifyDead \/ NotifyNeeds

-----------------------------------------------------------------------------
(* The main thread: pump, reconnect_diag, LinuxSource::reconnect.          *)

(* Mutant: only the flag is looked at.                                     *)
DownByFlag == needs
Down == needs \/ ~running

(* With the link up a round of the loop changes nothing.                   *)
SeeDown ==
  /\ pump.pc = "check" /\ ~user_stop /\ Down
  /\ alive' = FALSE
  /\ PumpGoes("reconnect")
  /\ UNCHANGED <<air, source, packs, worker, needs, recent, outside>>

(* The loop is left on a stop and the source stopped by stop_feeds.        *)
Quit ==
  /\ pump.pc = "check" /\ user_stop
  /\ pump' = [pump EXCEPT !.pc = "stop", !.quit = TRUE]
  /\ UNCHANGED <<air, source, packs, worker, flags, outside>>

(* Less than 8 s after the last attempt nothing is tried.                  *)
Throttled ==
  /\ pump.pc = "reconnect" /\ recent
  /\ PumpGoes("check")
  /\ UNCHANGED <<air, source, packs, worker, flags, outside>>

StartWaiting ==
  /\ pump.pc = "reconnect" /\ ~recent
  /\ recent' = TRUE
  /\ PumpGoes("wait")
  /\ UNCHANGED <<air, source, packs, worker, alive, needs, outside>>

(* What resolve_modem says of the DIAG path: the one given with --device,  *)
(* else the one where the catalog has the modem; with none in the catalog  *)
(* the path stays.  (Mutant: the path stays the one of the start.)         *)
ResolveNothing == pump.target
Resolved ==
  IF device # Gone THEN device
  ELSE IF node = Gone THEN pump.target ELSE node

(* Every fifth round of the wait asks the catalog, not the first: a path   *)
(* that can be opened at once is taken as it is.                           *)
Resolve ==
  /\ pump.pc \in {"wait", "waited"} /\ ~user_stop
  /\ pump.pc = "waited" \/ ~CanOpen(pump.target)
  /\ pump' = [pump EXCEPT !.pc = "waited", !.target = Resolved]
  /\ UNCHANGED <<air, source, packs, worker, flags, outside>>

Accessible ==
  /\ pump.pc \in {"wait", "waited"} /\ ~user_stop
  /\ CanOpen(pump.target)
  /\ PumpGoes("set")
  /\ UNCHANGED <<air, source, packs, worker, flags, outside>>

(* The device is still missing after 90 s, or the user stops the wait.     *)
GiveUpWaiting ==
  /\ \/ pump.pc = "waited" /\ ~CanOpen(pump.target)
     \/ pump.pc \in {"wait", "waited"} /\ user_stop
  /\ PumpGoes("check")
  /\ UNCHANGED <<air, source, packs, worker, flags, outside>>

SetPath ==
  /\ pump.pc = "set"
  /\ path' = pump.target
  /\ PumpGoes("stop")
  /\ UNCHANGED <<air, running, stopping, fd, packs, worker, flags, outside>>

RequestStop ==
  /\ pump.pc = "stop"
  /\ stopping' = TRUE
  /\ PumpGoes("halt")
  /\ UNCHANGED <<air, running, fd, path, packs, worker, flags, outside>>

Halt ==
  /\ pump.pc = "halt"
  /\ running' = FALSE
  /\ PumpGoes("join")
  /\ UNCHANGED <<air, stopping, fd, path, packs, worker, flags, outside>>

Join ==
  /\ pump.pc = "join" /\ worker.pc \in {"done", "none"}
  /\ WorkerGoes("none")
  /\ fd' = "closed" /\ stopping' = FALSE
  /\ PumpGoes(IF pump.quit THEN "end" ELSE "open")
  /\ UNCHANGED <<air, running, path, packs, flags, outside>>

Open ==
  /\ pump.pc = "open" /\ CanOpen(path)
  /\ running' = TRUE /\ fd' = Opened(path)
  /\ PumpGoes("init")
  /\ UNCHANGED <<air, stopping, path, packs, worker, flags, outside>>

(* start() returns false: m_running is taken back.                         *)
OpenFails ==
  /\ pump.pc = "open"
  /\ IF CanOpen(path) THEN Fault ELSE NoFault
  /\ PumpGoes("check")
  /\ UNCHANGED <<node, modem, source, packs, worker, flags, outside>>

StartWorker ==
  /\ WorkerGoes("loop")
  /\ PumpGoes("at")

InitMasks ==
  /\ pump.pc = "init" /\ Live
  /\ modem' = Reached("Search") /\ wanted' = "Search" /\ applied' = "Search"
  /\ StartWorker
  /\ UNCHANGED <<node, faults, source, flags, outside>>

(* init_modem fails twice: the source starts all the same.                 *)
InitFails ==
  /\ pump.pc = "init"
  /\ \/ fd = "dead" /\ NoFault /\ UNCHANGED modem
     \/ Live /\ WritesMayFail /\ Fault /\ modem' \in {modem, Reached("Search")}
  /\ StartWorker
  /\ UNCHANGED <<node, source, packs, flags, outside>>

(* The AT port is reopened, which takes its time.                          *)
ReconnectAt ==
  /\ pump.pc = "at"
  /\ PumpGoes("alive")
  /\ UNCHANGED <<air, source, packs, worker, flags, outside>>

ClaimAlive ==
  /\ pump.pc = "alive"
  /\ alive' = TRUE
  /\ PumpGoes("clear")
  /\ UNCHANGED <<air, source, packs, worker, needs, recent, outside>>

ClearNeeds ==
  /\ pump.pc = "clear"
  /\ needs' = FALSE
  /\ PumpGoes("check")
  /\ UNCHANGED <<air, source, packs, worker, alive, recent, outside>>

Pump ==
  \/ SeeDown \/ Quit \/ Throttled \/ StartWaiting
  \/ Resolve \/ Accessible \/ GiveUpWaiting
  \/ SetPath \/ RequestStop \/ Halt \/ Join
  \/ Open \/ OpenFails \/ InitMasks \/ InitFails
  \/ ReconnectAt \/ ClaimAlive \/ ClearNeeds

-----------------------------------------------------------------------------
(* The rest of the program and the modem.                                  *)

Throttle8s ==
  /\ recent /\ recent' = FALSE
  /\ UNCHANGED <<air, source, packs, worker, pump, alive, needs, outside>>

request_lte_diag_pack ==
  /\ requests < MaxRequests /\ requests' = requests + 1
  /\ \E p \in Packs \ {wanted} : wanted' = p
  /\ UNCHANGED <<air, source, applied, worker, pump, flags, user_stop, ports>>

UserStop ==
  /\ ~user_stop /\ user_stop' = TRUE
  /\ UNCHANGED <<air, source, packs, worker, pump, flags, requests, ports>>

Dead == IF fd = "open" THEN "dead" ELSE fd

Unplug ==
  /\ node # Gone /\ Fault
  /\ node' = Gone /\ fd' = Dead
  /\ UNCHANGED <<modem, running, stopping, path, packs, worker, pump, flags, outside>>

(* The modem comes back under any free path, with its masks or freshly     *)
(* booted.                                                                 *)
Replug ==
  /\ node = Gone
  /\ node' \in Nodes \ others /\ modem' \in {modem, Unknown}
  /\ UNCHANGED <<faults, source, packs, worker, pump, flags, outside>>

(* Other ports come and go under the paths that the modem does not have.   *)
OtherPorts ==
  /\ Fault
  /\ others' \in SUBSET (Nodes \ {node}) /\ others' # others
  /\ fd' = IF fd = "foreign" /\ path \notin others' THEN "dead" ELSE fd
  /\ UNCHANGED <<node, modem, running, stopping, path, packs, worker, pump, flags,
                 user_stop, requests, device>>

(* SIMCOM hangs up the tty when it changes technology.                     *)
HangUp ==
  /\ Live /\ Fault
  /\ fd' = "dead"
  /\ UNCHANGED <<node, modem, running, stopping, path, packs, worker, pump, flags, outside>>

Environment ==
  \/ Throttle8s \/ request_lte_diag_pack \/ UserStop
  \/ Unplug \/ Replug \/ OtherPorts \/ HangUp

Next == Worker \/ Pump \/ Environment

(* The two threads run and the clock does; nobody has to unplug, replug,   *)
(* stop or ask for anything.                                               *)
Spec ==
  /\ Init /\ [][Next]_vars
  /\ WF_vars(Worker) /\ WF_vars(Pump) /\ WF_vars(Throttle8s)

-----------------------------------------------------------------------------
(* The tty, the demultiplexer and the device path have no lock: the main   *)
(* thread touches them only while no worker does.                          *)
ThreadConfined ==
  pump.pc \in {"set", "open", "init"} => worker.pc \notin {"loop", "apply", "revive"}

Up == running /\ fd = "open" /\ worker.pc \in {"loop", "apply"} /\ alive

(* The modem can be found: it is plugged in, where --device says if that   *)
(* was given, and no other port has the path that the program is using.    *)
Findable ==
  /\ node # Gone
  /\ device \in {Gone, node}
  /\ others \cap {path, pump.target} = {}

(* Once the modem stays plugged in where it can be found, the link comes   *)
(* up again and the hop thread is told so, even if the disconnect flag of  *)
(* a worker that died during a reconnect was overwritten.                  *)
LinkRecovers == <>[]Findable => <>[](user_stop \/ Up)

(* In the end a modem that can be found has the pack that is wanted,       *)
(* whatever was asked for, unplugged, rebooted and reopened in between.    *)
PackSettles == <>[]Findable => <>[](user_stop \/ modem = wanted)

(* A stop ends: the main thread never waits for ever for the worker.       *)
StopEnds == user_stop ~> pump.pc = "end"
=============================================================================
