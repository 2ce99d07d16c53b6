---------------------------- MODULE DiagLinkProofs ----------------------------
(***************************************************************************)
(* Proofs about DiagLink, for any device paths, packs and bounds: types,   *)
(* and the confinement of the tty to one thread at a time.                 *)
(***************************************************************************)
EXTENDS DiagLink, TLAPS

(* A worker in one of these places never touches the source again.         *)
Resting == {"none", "notify", "flag", "done"}

(* Where the main thread is while the worker is on its own: a new one has  *)
(* been started and not been told to halt.                                 *)
Unattended == {"check", "reconnect", "wait", "waited", "set", "stop", "halt",
               "at", "alive", "clear"}

(* The main thread is on its way to a reconnect only with m_running down,  *)
(* whether it saw that itself or the flag of the disconnect callback.      *)
DownIsStopped ==
  /\ pump.pc \in {"reconnect", "wait", "waited", "set", "join", "open"} => ~running
  /\ pump.pc = "check" /\ needs => ~running
  /\ pump.pc = "init" => running

(* m_running goes down on its own only when the worker is past its loop.   *)
StoppedIsResting ==
  /\ pump.pc \in Unattended /\ ~running => worker.pc \in Resting
  /\ worker.pc \in {"notify", "flag", "done"} => ~running

(* Between the join and the new thread there is no worker.                 *)
NoWorker == pump.pc \in {"open", "init"} => worker.pc = "none"

ConfinedInv == TypeOK /\ DownIsStopped /\ StoppedIsResting /\ NoWorker

(* The program starts with the source running and its worker in the loop.  *)
LEMMA InitConfined == Init => ConfinedInv
<1> SUFFICES ASSUME Init PROVE ConfinedInv
  OBVIOUS
<1> USE LinkAssumption DEF LinkAssumption, Init
<1>1. TypeOK
  <2>1. 0 \in 0..Attempts /\ 0 \in 0..MaxFaults /\ 0 \in 0..MaxRequests
    OBVIOUS
  <2>2. worker \in WorkerStates
    BY <2>1 DEF WorkerStates, WorkerPcs
  <2>3. pump \in PumpStates
    BY DEF PumpStates, PumpPcs
  <2> QED BY <2>1, <2>2, <2>3 DEF TypeOK
<1>2. DownIsStopped /\ StoppedIsResting /\ NoWorker
  BY DEF DownIsStopped, StoppedIsResting, NoWorker, Resting, Unattended
<1> QED BY <1>1, <1>2 DEF ConfinedInv

-----------------------------------------------------------------------------
(* Types: every action keeps them, the counters by the guards that bound   *)
(* them.                                                                   *)
LEMMA WorkerType == TypeOK /\ Worker => TypeOK'
<1> SUFFICES ASSUME TypeOK, Worker PROVE TypeOK'
  OBVIOUS
<1> USE LinkAssumption DEF LinkAssumption, TypeOK, WorkerGoes, PumpGoes,
        air, source, packs, flags, outside, ports
<1>1. CASE ReadWanted
  <2>1. worker' \in WorkerStates
    BY <1>1 DEF ReadWanted, WorkerStates, WorkerPcs
  <2> QED BY <1>1, <2>1 DEF ReadWanted
<1>2. CASE Apply
  <2>1. worker' \in WorkerStates
    BY <1>2 DEF Apply, NoteApplied, WorkerStates, WorkerPcs
  <2>2. worker.want \in Packs
    BY DEF WorkerStates
  <2> QED BY <1>2, <2>1, <2>2 DEF Apply, NoteApplied, Reached
<1>3. CASE ApplyFails
  <2>1. worker' \in WorkerStates
    BY <1>3 DEF ApplyFails, Fault, NoFault, WorkerStates, WorkerPcs
  <2>2. worker.want \in Packs
    BY DEF WorkerStates
  <2> QED BY <1>3, <2>1, <2>2 DEF ApplyFails, Reached, Fault, NoFault
<1>4. CASE SeeHangUp
  <2>1. worker' \in WorkerStates
    <3>1. 0 \in 0..Attempts
      OBVIOUS
    <3> HIDE LinkAssumption
    <3> QED BY <1>4, <3>1 DEF SeeHangUp, HangUpRunning, WorkerStates, WorkerPcs
  <2> QED BY <1>4, <2>1 DEF SeeHangUp, HangUpRunning
<1>5. CASE Revive
  <2>1. worker' \in WorkerStates
    BY <1>5 DEF Revive, ForgetApplied, WorkerStates, WorkerPcs
  <2> QED BY <1>5, <2>1 DEF Revive, Opened, ForgetApplied
<1>6. CASE ReviveFails
  <2>1. worker' \in WorkerStates
    BY <1>6 DEF ReviveFails, MayRevive, Fault, NoFault, WorkerStates, WorkerPcs
  <2> QED BY <1>6, <2>1 DEF ReviveFails, MayRevive, Fault, NoFault
<1>7. CASE ReviveEnds
  <2>1. worker' \in WorkerStates
    <3>1. 0 \in 0..Attempts
      OBVIOUS
    <3> HIDE LinkAssumption
    <3> QED BY <1>7, <3>1 DEF ReviveEnds, WorkerStates, WorkerPcs
  <2> QED BY <1>7, <2>1 DEF ReviveEnds
<1>8. CASE LeaveLoop
  <2>1. worker' \in WorkerStates
    BY <1>8 DEF LeaveLoop, Fault, NoFault, WorkerStates, WorkerPcs
  <2> QED BY <1>8, <2>1 DEF LeaveLoop, Fault, NoFault
<1>9. CASE ReadStopping
  <2>1. worker' \in WorkerStates
    BY <1>9 DEF ReadStopping, WorkerStates, WorkerPcs
  <2> QED BY <1>9, <2>1 DEF ReadStopping
<1>10. CASE MarkStopped
  <2>1. worker' \in WorkerStates
    BY <1>10 DEF MarkStopped, WorkerStates, WorkerPcs
  <2> QED BY <1>10, <2>1 DEF MarkStopped
<1>11. CASE NotifyDead
  <2>1. worker' \in WorkerStates
    BY <1>11 DEF NotifyDead, WorkerStates, WorkerPcs
  <2> QED BY <1>11, <2>1 DEF NotifyDead
<1>12. CASE NotifyNeeds
  <2>1. worker' \in WorkerStates
    BY <1>12 DEF NotifyNeeds, WorkerStates, WorkerPcs
  <2> QED BY <1>12, <2>1 DEF NotifyNeeds
<1> QED BY <1>1, <1>2, <1>3, <1>4, <1>5, <1>6, <1>7, <1>8, <1>9, <1>10,
           <1>11, <1>12 DEF Worker

LEMMA PumpType == TypeOK /\ Pump => TypeOK'
<1> SUFFICES ASSUME TypeOK, Pump PROVE TypeOK'
  OBVIOUS
<1> USE LinkAssumption DEF LinkAssumption, TypeOK, WorkerGoes, PumpGoes,
        air, source, packs, flags, outside, ports
<1>1. CASE SeeDown
  <2>1. pump' \in PumpStates
    BY <1>1 DEF SeeDown, Down, PumpStates, PumpPcs
  <2> QED BY <1>1, <2>1 DEF SeeDown, Down
<1>2. CASE Quit
  <2>1. pump' \in PumpStates
    BY <1>2 DEF Quit, PumpStates, PumpPcs
  <2> QED BY <1>2, <2>1 DEF Quit
<1>3. CASE Throttled
  <2>1. pump' \in PumpStates
    BY <1>3 DEF Throttled, PumpStates, PumpPcs
  <2> QED BY <1>3, <2>1 DEF Throttled
<1>4. CASE StartWaiting
  <2>1. pump' \in PumpStates
    BY <1>4 DEF StartWaiting, PumpStates, PumpPcs
  <2> QED BY <1>4, <2>1 DEF StartWaiting
<1>5. CASE Resolve
  <2>1. pump' \in PumpStates
    BY <1>5 DEF Resolve, Resolved, PumpStates, PumpPcs
  <2> QED BY <1>5, <2>1 DEF Resolve, Resolved
<1>6. CASE Accessible
  <2>1. pump' \in PumpStates
    BY <1>6 DEF Accessible, PumpStates, PumpPcs
  <2> QED BY <1>6, <2>1 DEF Accessible
<1>7. CASE GiveUpWaiting
  <2>1. pump' \in PumpStates
    BY <1>7 DEF GiveUpWaiting, PumpStates, PumpPcs
  <2> QED BY <1>7, <2>1 DEF GiveUpWaiting
<1>8. CASE SetPath
  <2>1. pump' \in PumpStates
    BY <1>8 DEF SetPath, PumpStates, PumpPcs
  <2>2. pump.target \in Nodes
    BY DEF PumpStates
  <2> QED BY <1>8, <2>1, <2>2 DEF SetPath
<1>9. CASE RequestStop
  <2>1. pump' \in PumpStates
    BY <1>9 DEF RequestStop, PumpStates, PumpPcs
  <2> QED BY <1>9, <2>1 DEF RequestStop
<1>10. CASE Halt
  <2>1. pump' \in PumpStates
    BY <1>10 DEF Halt, PumpStates, PumpPcs
  <2> QED BY <1>10, <2>1 DEF Halt
<1>11. CASE Join
  <2>1. pump' \in PumpStates
    BY <1>11 DEF Join, PumpStates, PumpPcs
  <2>2. worker' \in WorkerStates
    BY <1>11 DEF Join, WorkerStates, WorkerPcs
  <2> QED BY <1>11, <2>1, <2>2 DEF Join
<1>12. CASE Open
  <2>1. pump' \in PumpStates
    BY <1>12 DEF Open, PumpStates, PumpPcs
  <2> QED BY <1>12, <2>1 DEF Open, Opened
<1>13. CASE OpenFails
  <2>1. pump' \in PumpStates
    BY <1>13 DEF OpenFails, Fault, NoFault, PumpStates, PumpPcs
  <2> QED BY <1>13, <2>1 DEF OpenFails, Fault, NoFault
<1>14. CASE InitMasks
  <2>1. pump' \in PumpStates
    BY <1>14 DEF InitMasks, StartWorker, PumpStates, PumpPcs
  <2>2. worker' \in WorkerStates
    BY <1>14 DEF InitMasks, StartWorker, WorkerStates, WorkerPcs
  <2> QED BY <1>14, <2>1, <2>2 DEF InitMasks, Reached, StartWorker
<1>15. CASE InitFails
  <2>1. pump' \in PumpStates
    BY <1>15 DEF InitFails, StartWorker, Fault, NoFault, PumpStates, PumpPcs
  <2>2. worker' \in WorkerStates
    BY <1>15 DEF InitFails, StartWorker, Fault, NoFault, WorkerStates, WorkerPcs
  <2> QED BY <1>15, <2>1, <2>2 DEF InitFails, Reached, StartWorker, Fault, NoFault
<1>16. CASE ReconnectAt
  <2>1. pump' \in PumpStates
    BY <1>16 DEF ReconnectAt, PumpStates, PumpPcs
  <2> QED BY <1>16, <2>1 DEF ReconnectAt
<1>17. CASE ClaimAlive
  <2>1. pump' \in PumpStates
    BY <1>17 DEF ClaimAlive, PumpStates, PumpPcs
  <2> QED BY <1>17, <2>1 DEF ClaimAlive
<1>18. CASE ClearNeeds
  <2>1. pump' \in PumpStates
    BY <1>18 DEF ClearNeeds, PumpStates, PumpPcs
  <2> QED BY <1>18, <2>1 DEF ClearNeeds
<1> QED BY <1>1, <1>2, <1>3, <1>4, <1>5, <1>6, <1>7, <1>8, <1>9, <1>10,
           <1>11, <1>12, <1>13, <1>14, <1>15, <1>16, <1>17, <1>18 DEF Pump

LEMMA EnvironmentType == TypeOK /\ Environment => TypeOK'
<1> SUFFICES ASSUME TypeOK, Environment PROVE TypeOK'
  OBVIOUS
<1> USE LinkAssumption DEF LinkAssumption, TypeOK, WorkerGoes, PumpGoes,
        air, source, packs, flags, outside, ports
<1>1. CASE Throttle8s
  BY <1>1 DEF Throttle8s
<1>2. CASE request_lte_diag_pack
  BY <1>2 DEF request_lte_diag_pack
<1>3. CASE UserStop
  BY <1>3 DEF UserStop
<1>4. CASE Unplug
  BY <1>4 DEF Unplug, Dead, Fault
<1>5. CASE Replug
  BY <1>5 DEF Replug
<1>6. CASE OtherPorts
  BY <1>6 DEF OtherPorts, Fault
<1>7. CASE HangUp
  BY <1>7 DEF HangUp, Fault
<1> QED BY <1>1, <1>2, <1>3, <1>4, <1>5, <1>6, <1>7 DEF Environment

-----------------------------------------------------------------------------
(* The worker: only MarkStopped changes m_running, and it is past the loop  *)
(* for good by then.                                                       *)
LEMMA WorkerKeeps == TypeOK /\ DownIsStopped /\ StoppedIsResting /\ NoWorker /\ Worker => DownIsStopped' /\ StoppedIsResting' /\ NoWorker'
<1> SUFFICES ASSUME TypeOK, DownIsStopped, StoppedIsResting, NoWorker, Worker PROVE DownIsStopped' /\ StoppedIsResting' /\ NoWorker'
  OBVIOUS
<1> USE DEF TypeOK, WorkerStates, PumpStates, WorkerPcs, PumpPcs, WorkerGoes, PumpGoes, air, source, packs, flags, outside, ports,
        DownIsStopped, StoppedIsResting, NoWorker, Resting, Unattended
<1>1. CASE ReadWanted
  BY <1>1 DEF ReadWanted
<1>2. CASE Apply
  BY <1>2 DEF Apply, NoteApplied
<1>3. CASE ApplyFails
  BY <1>3 DEF ApplyFails, Fault, NoFault
<1>4. CASE SeeHangUp
  BY <1>4 DEF SeeHangUp, HangUpRunning
<1>5. CASE Revive
  BY <1>5 DEF Revive, ForgetApplied
<1>6. CASE ReviveFails
  BY <1>6 DEF ReviveFails, MayRevive, Fault, NoFault
<1>7. CASE ReviveEnds
  BY <1>7 DEF ReviveEnds
<1>8. CASE LeaveLoop
  BY <1>8 DEF LeaveLoop, Fault, NoFault
<1>9. CASE ReadStopping
  BY <1>9 DEF ReadStopping
<1>10. CASE MarkStopped
  BY <1>10 DEF MarkStopped
<1>11. CASE NotifyDead
  BY <1>11 DEF NotifyDead
<1>12. CASE NotifyNeeds
  BY <1>12 DEF NotifyNeeds
<1> QED BY <1>1, <1>2, <1>3, <1>4, <1>5, <1>6, <1>7, <1>8, <1>9, <1>10,
           <1>11, <1>12 DEF Worker

(* The main thread: it sets m_running only in Open, where no worker is, and *)
(* gets to the tty only after it saw m_running down or joined the worker.  *)
LEMMA PumpKeeps == TypeOK /\ DownIsStopped /\ StoppedIsResting /\ NoWorker /\ Pump => DownIsStopped' /\ StoppedIsResting' /\ NoWorker'
<1> SUFFICES ASSUME TypeOK, DownIsStopped, StoppedIsResting, NoWorker, Pump PROVE DownIsStopped' /\ StoppedIsResting' /\ NoWorker'
  OBVIOUS
<1> USE DEF TypeOK, WorkerStates, PumpStates, WorkerPcs, PumpPcs, WorkerGoes, PumpGoes, air, source, packs, flags, outside, ports,
        DownIsStopped, StoppedIsResting, NoWorker, Resting, Unattended
<1>1. CASE SeeDown
  BY <1>1 DEF SeeDown, Down
<1>2. CASE Quit
  BY <1>2 DEF Quit
<1>3. CASE Throttled
  BY <1>3 DEF Throttled
<1>4. CASE StartWaiting
  BY <1>4 DEF StartWaiting
<1>5. CASE Resolve
  BY <1>5 DEF Resolve, Resolved
<1>6. CASE Accessible
  BY <1>6 DEF Accessible
<1>7. CASE GiveUpWaiting
  BY <1>7 DEF GiveUpWaiting
<1>8. CASE SetPath
  BY <1>8 DEF SetPath
<1>9. CASE RequestStop
  BY <1>9 DEF RequestStop
<1>10. CASE Halt
  BY <1>10 DEF Halt
<1>11. CASE Join
  BY <1>11 DEF Join
<1>12. CASE Open
  BY <1>12 DEF Open
<1>13. CASE OpenFails
  BY <1>13 DEF OpenFails, Fault, NoFault
<1>14. CASE InitMasks
  BY <1>14 DEF InitMasks, StartWorker
<1>15. CASE InitFails
  BY <1>15 DEF InitFails, StartWorker, Fault, NoFault
<1>16. CASE ReconnectAt
  BY <1>16 DEF ReconnectAt
<1>17. CASE ClaimAlive
  BY <1>17 DEF ClaimAlive
<1>18. CASE ClearNeeds
  BY <1>18 DEF ClearNeeds
<1> QED BY <1>1, <1>2, <1>3, <1>4, <1>5, <1>6, <1>7, <1>8, <1>9, <1>10,
           <1>11, <1>12, <1>13, <1>14, <1>15, <1>16, <1>17, <1>18 DEF Pump

(* The modem, the clock and the other threads touch none of this.          *)
LEMMA EnvironmentKeeps == TypeOK /\ DownIsStopped /\ StoppedIsResting /\ NoWorker /\ Environment => DownIsStopped' /\ StoppedIsResting' /\ NoWorker'
<1> SUFFICES ASSUME TypeOK, DownIsStopped, StoppedIsResting, NoWorker, Environment PROVE DownIsStopped' /\ StoppedIsResting' /\ NoWorker'
  OBVIOUS
<1> USE DEF TypeOK, WorkerStates, PumpStates, WorkerPcs, PumpPcs, WorkerGoes, PumpGoes, air, source, packs, flags, outside, ports,
        DownIsStopped, StoppedIsResting, NoWorker, Resting, Unattended
<1>1. CASE Throttle8s
  BY <1>1 DEF Throttle8s
<1>2. CASE request_lte_diag_pack
  BY <1>2 DEF request_lte_diag_pack
<1>3. CASE UserStop
  BY <1>3 DEF UserStop
<1>4. CASE Unplug
  BY <1>4 DEF Unplug, Dead, Fault
<1>5. CASE Replug
  BY <1>5 DEF Replug
<1>6. CASE OtherPorts
  BY <1>6 DEF OtherPorts, Fault
<1>7. CASE HangUp
  BY <1>7 DEF HangUp, Fault
<1> QED BY <1>1, <1>2, <1>3, <1>4, <1>5, <1>6, <1>7 DEF Environment

(* One step, whoever takes it.                                             *)
LEMMA StepConfined == ConfinedInv /\ [Next]_vars => ConfinedInv'
<1> SUFFICES ASSUME ConfinedInv, [Next]_vars PROVE ConfinedInv'
  OBVIOUS
<1> USE DEF ConfinedInv
<1>1. CASE Worker
  BY <1>1, WorkerType, WorkerKeeps
<1>2. CASE Pump
  BY <1>2, PumpType, PumpKeeps
<1>3. CASE Environment
  BY <1>3, EnvironmentType, EnvironmentKeeps
<1>4. CASE UNCHANGED vars
  BY <1>4 DEF vars, air, source, packs, flags, outside, ports, TypeOK, DownIsStopped,
     StoppedIsResting, NoWorker
<1> QED BY <1>1, <1>2, <1>3, <1>4 DEF Next

LEMMA AlwaysConfined == Spec => []ConfinedInv
<1>1. Init => ConfinedInv
  BY InitConfined
<1>2. ConfinedInv /\ [Next]_vars => ConfinedInv'
  BY StepConfined
<1> QED BY <1>1, <1>2, PTL DEF Spec

-----------------------------------------------------------------------------
(* Every variable of the link keeps its type, whatever the device paths,   *)
(* packs and bounds are (all of LinuxSource and its reconnect loop).       *)
THEOREM TypeCorrect == Spec => []TypeOK
<1>1. ConfinedInv => TypeOK
  BY DEF ConfinedInv
<1> QED BY <1>1, AlwaysConfined, PTL

(* The main thread reopens the tty, the demultiplexer and the device path  *)
(* only while no worker is in its loop (SurveyProc::reconnect_diag and     *)
(* LinuxSource::reconnect against read_loop, which share no lock).         *)
THEOREM Confined == Spec => []ThreadConfined
<1>1. ConfinedInv => ThreadConfined
  BY DEF ConfinedInv, DownIsStopped, StoppedIsResting, NoWorker, ThreadConfined,
     Resting, Unattended
<1> QED BY <1>1, AlwaysConfined, PTL
=============================================================================
