---------------------------- MODULE DeviceCatalog ----------------------------
(***************************************************************************)
(* The modems of a host: DeviceCatalog (qmi_observer/src/device).  refresh *)
(* lists what sysfs shows, probe knocks at one modem over QMI and AT and   *)
(* keeps what it learns as a dossier under the modem's id, in memory and   *)
(* in a file that a later run of the program loads.  Meanwhile modems are  *)
(* plugged in and out, and the program may die at any point.               *)
(*                                                                         *)
(* What a dossier says is modelled by which modem said it.                 *)
(***************************************************************************)
EXTENDS Naturals, FiniteSets

CONSTANTS
  Modems, NoModem,
  Serial,       (* The serial number each modem reports.                   *)
  FakeSerials,  (* The serial numbers that are no serial numbers.          *)
  Ports,        (* USB bus paths.                                          *)
  Nodes,        (* Numbers of device nodes: a modem has one for QMI and AT.*)
  Unbound,      (* The node of a modem without drivers.                    *)
  Gone,         (* The port of a modem that is not there.                  *)
  MaxEvents,    (* Bound on plugging, unplugging and binding.              *)
  MaxProbes,    (* Bound on the probes.                                    *)
  MaxCrashes    (* Bound on the crashes.                                   *)

ASSUME CatalogAssumption ==
  /\ NoModem \notin Modems /\ Unbound \notin Nodes /\ Gone \notin Ports
  /\ {MaxEvents, MaxProbes, MaxCrashes} \subseteq Nat
  /\ \A m, n \in Modems : m # n /\ Serial[m] \notin FakeSerials => Serial[m] # Serial[n]

VARIABLES
  bus,        (* For each modem its port and its node.                     *)
  endpoints,  (* endpoints_.                                               *)
  dossiers,   (* dossiers_, by id.                                         *)
  file,       (* The dossier file: objects by id, whole or cut short.      *)
  probe,      (* The probe in progress.                                    *)
  running,    (* The program runs and has loaded its dossiers.             *)
  events, probes, crashes,
  calm,       (* No modem came or went under a probe or before its refresh.*)
  stored      (* What was ever stored as a dossier.                        *)

memory == <<endpoints, dossiers, probe, running>>
bounds == <<events, probes, crashes>>
history == <<calm, stored>>
vars == <<bus, memory, file, bounds, history>>

(* ProbeLevel.                                                             *)
Presence == 0
Transport == 1
Identity == 2
Radio == 3

NoDossiers == [i \in {} |-> {}]
Blank == [qmi_open_ok |-> FALSE, dms |-> NoModem, last_phase |-> NoModem,
          at_ok |-> FALSE, at |-> NoModem, at_text |-> "none", deepest_probe |-> Presence]

Absent == [port |-> Gone, node |-> Unbound]
NoEndpoint == [id |-> <<>>, serial_is_stable |-> FALSE, port |-> Gone, node |-> Unbound]
NoProbe == [pc |-> "none", ep |-> NoEndpoint, level |-> Presence, d |-> Blank,
            session |-> NoModem]

Init ==
  /\ bus = [m \in Modems |-> Absent]
  /\ endpoints = {} /\ dossiers = NoDossiers /\ file = NoDossiers
  /\ probe = NoProbe /\ running = FALSE
  /\ events = 0 /\ probes = 0 /\ crashes = 0
  /\ calm = TRUE /\ stored = {}

-----------------------------------------------------------------------------
(* The host.                                                               *)

At(node) == {m \in Modems : node # Unbound /\ bus[m].node = node}

Event ==
  /\ events < MaxEvents /\ events' = events + 1
  /\ calm' = (calm /\ probe.pc = "none")
  /\ UNCHANGED <<endpoints, dossiers, running, file, probes, crashes, stored>>

(* Without drivers a modem has no device nodes.                            *)
Plug(m, port, node) ==
  /\ Event
  /\ bus[m] = Absent
  /\ \A n \in Modems : bus[n].port # port
  /\ At(node) = {}
  /\ bus' = [bus EXCEPT ![m] = [port |-> port, node |-> node]]
  /\ UNCHANGED probe

Bind(m, node) ==
  /\ Event
  /\ bus[m].port # Gone /\ bus[m].node = Unbound
  /\ At(node) = {}
  /\ bus' = [bus EXCEPT ![m].node = node]
  /\ UNCHANGED probe

(* The end of the session that is open on it.                              *)
Unplug(m) ==
  /\ Event
  /\ bus[m] # Absent
  /\ bus' = [bus EXCEPT ![m] = Absent]
  /\ probe' = [probe EXCEPT !.session = IF probe.session = m THEN NoModem
                                        ELSE probe.session]

-----------------------------------------------------------------------------
(* refresh.                                                                *)

(* The serial number, or the bus path for want of one.                     *)
(* (Mutant: whatever is reported is taken for a serial number.)            *)
make_endpoint_id_trusting(serial, port) ==
  [id |-> <<"serial", serial>>, serial_is_stable |-> TRUE]
make_endpoint_id(serial, port) ==
  IF serial \in FakeSerials THEN [id |-> <<"path", port>>, serial_is_stable |-> FALSE]
  ELSE [id |-> <<"serial", serial>>, serial_is_stable |-> TRUE]

EndpointOf(m) ==
  LET name == make_endpoint_id(Serial[m], bus[m].port)
  IN  [id |-> name.id, serial_is_stable |-> name.serial_is_stable,
       port |-> bus[m].port, node |-> bus[m].node]

enumerate_sysfs == {EndpointOf(m) : m \in {n \in Modems : bus[n].port # Gone}}

refresh ==
  /\ running /\ probe.pc = "none"
  /\ endpoints' = enumerate_sysfs
  /\ UNCHANGED <<bus, dossiers, probe, running, file, bounds, history>>

-----------------------------------------------------------------------------
(* probe: it starts from the dossier of the last time and writes over it   *)
(* what it gets to know.                                                   *)

Previous(id) == IF id \in DOMAIN dossiers THEN dossiers[id] ELSE Blank

StartProbe(e, level) ==
  /\ running /\ probe.pc = "none" /\ e \in endpoints
  /\ probes < MaxProbes /\ probes' = probes + 1
  /\ LET d == [Previous(e.id) EXCEPT !.deepest_probe = Presence]
     IN  probe' = [ep |-> e, level |-> level, session |-> NoModem,
                   d  |-> IF level # Presence /\ e.node = Unbound
                          THEN [d EXCEPT !.qmi_open_ok = FALSE] ELSE d,
                   pc |-> IF level = Presence THEN "store"
                          ELSE IF e.node = Unbound THEN "at" ELSE "open"]
  /\ calm' = (calm /\ endpoints = enumerate_sysfs)
  /\ UNCHANGED <<bus, endpoints, dossiers, running, file, events, crashes, stored>>

ProbeStep(pc) ==
  /\ probe.pc = pc
  /\ UNCHANGED <<bus, endpoints, dossiers, running, file, bounds, history>>

(* The node may be busy, forbidden or gone: then AT is not tried either.   *)
OpenQmi ==
  /\ ProbeStep("open")
  /\ \/ \E m \in At(probe.ep.node) :
          probe' = [probe EXCEPT !.session = m, !.d.qmi_open_ok = TRUE,
                                 !.d.deepest_probe = Transport,
                                 !.pc = IF probe.level >= Identity THEN "identity" ELSE "at"]
     \/ probe' = [probe EXCEPT !.d.qmi_open_ok = FALSE, !.pc = "store"]

AfterIdentity == IF probe.level >= Radio THEN "radio" ELSE "at"
ReadIdentity ==
  /\ ProbeStep("identity")
  /\ \/ /\ probe.session # NoModem
        /\ probe' = [probe EXCEPT !.d.dms = probe.session, !.d.deepest_probe = Identity,
                                  !.pc = AfterIdentity]
     \/ probe' = [probe EXCEPT !.pc = AfterIdentity]

(* The health of a modem that does not answer is a fault of nobody.        *)
ReadRadio ==
  /\ ProbeStep("radio")
  /\ \E m \in {probe.session, NoModem} :
       probe' = [probe EXCEPT !.d.last_phase = m, !.d.deepest_probe = Radio, !.pc = "at"]

(* The session is closed, and the AT tty is opened by its path.            *)
ProbeAt ==
  /\ ProbeStep("at")
  /\ LET closed == [probe EXCEPT !.session = NoModem, !.pc = "store"]
     IN  \/ \E m \in At(probe.ep.node) :
              probe' = [closed EXCEPT !.d.at_ok = TRUE, !.d.at = m, !.d.at_text = "read"]
         \/ probe.ep.node # Unbound /\ probe' = [closed EXCEPT !.d.at_ok = FALSE]
         \/ probe.ep.node = Unbound /\ probe' = closed

-----------------------------------------------------------------------------
(* The dossiers on disk.                                                   *)

Put(id, d) == [i \in DOMAIN dossiers \cup {id} |-> IF i = id THEN d ELSE dossiers[i]]

(* The AT answer is escaped line by line, and the parser takes the escapes *)
(* for letters: it comes back broken.                                      *)
Read(d) == [d EXCEPT !.at_text = IF d.at_text = "none" THEN "none" ELSE "broken"]

(* An object that is cut short is dropped.  (Mutant: it is taken with what *)
(* it has.)                                                                *)
parse_dossiers_leniently(f) == [i \in DOMAIN f |-> Read(f[i].d)]
parse_dossiers(f) == [i \in {j \in DOMAIN f : f[j].whole} |-> Read(f[i].d)]

serialize_dossiers(map) == [i \in DOMAIN map |-> [d |-> map[i], whole |-> TRUE]]

(* The file is truncated and written anew, in no particular order: of a    *)
(* write that is broken off some objects remain, and part of another one.  *)
Cut(d) == [d EXCEPT !.last_phase = NoModem, !.at = NoModem, !.at_text = "none",
                    !.deepest_probe = Presence]
BrokenOff(map) ==
  UNION {{[i \in ids |-> [d |-> IF i = cut THEN Cut(map[i]) ELSE map[i], whole |-> i # cut]] :
            cut \in ids \cup {<<>>}} : ids \in SUBSET DOMAIN map}

Named(id, d) == [id |-> id, d |-> [d EXCEPT !.at_text = "none"]]

(* The end of a probe: the dossier is kept and all of them are saved, or   *)
(* the file cannot be opened.                                              *)
Store ==
  /\ probe.pc = "store"
  /\ dossiers' = Put(probe.ep.id, probe.d)
  /\ stored' = stored \cup {Named(probe.ep.id, probe.d)}
  /\ file' \in {file, serialize_dossiers(dossiers')}
  /\ probe' = NoProbe
  /\ UNCHANGED <<bus, endpoints, running, bounds, calm>>

Die ==
  /\ running /\ crashes < MaxCrashes /\ crashes' = crashes + 1
  /\ running' = FALSE
  /\ endpoints' = {} /\ dossiers' = NoDossiers /\ probe' = NoProbe
  /\ UNCHANGED <<bus, events, probes, calm>>

Crash == Die /\ UNCHANGED <<file, stored>>

CrashSaving ==
  /\ probe.pc = "store"
  /\ Die
  /\ file' \in BrokenOff(Put(probe.ep.id, probe.d))
  /\ stored' = stored \cup {Named(probe.ep.id, probe.d)}

load_dossiers ==
  /\ ~running /\ running' = TRUE
  /\ dossiers' = parse_dossiers(file)
  /\ UNCHANGED <<bus, endpoints, probe, file, bounds, history>>

Probing ==
  \/ \E e \in endpoints, level \in Presence..Radio : StartProbe(e, level)
  \/ OpenQmi \/ ReadIdentity \/ ReadRadio \/ ProbeAt \/ Store
Host ==
  \/ \E m \in Modems, port \in Ports, node \in Nodes \cup {Unbound} : Plug(m, port, node)
  \/ \E m \in Modems, node \in Nodes : Bind(m, node)
  \/ \E m \in Modems : Unplug(m)

Next == refresh \/ Probing \/ Host \/ Crash \/ CrashSaving \/ load_dossiers
Spec == Init /\ [][Next]_vars

-----------------------------------------------------------------------------
(* Every dossier in memory, and every one that a restart would find in the *)
(* file, was stored as such by some probe, text aside: a crash in the      *)
(* middle of a save loses dossiers but makes none up, and a restart mixes  *)
(* no two of them.                                                         *)
AreStored(map) == \A i \in DOMAIN map : Named(i, map[i]) \in stored
NothingInvented == AreStored(dossiers) /\ AreStored(parse_dossiers(file))

(* What the catalog reports of a modem that is there was said by that very *)
(* modem, whatever others were plugged in before at the same port or under *)
(* the same node, if none came or went in the middle of a probe and the    *)
(* list is up to date.  Modems without a serial number are known by their  *)
(* port only, and reported as such.                                        *)
Says(d) == {d.dms, d.last_phase, d.at} \ {NoModem}
ReportIsOwn ==
  calm /\ endpoints = enumerate_sysfs =>
    \A m \in Modems :
      LET e == EndpointOf(m)
      IN  e \in endpoints /\ e.serial_is_stable /\ e.id \in DOMAIN dossiers
            => Says(dossiers[e.id]) \subseteq {m}
=============================================================================
