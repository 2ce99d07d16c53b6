------------------------- MODULE DeviceCatalogProofs -------------------------
(***************************************************************************)
(* Proofs about DeviceCatalog, for any number of modems, ports, nodes and  *)
(* serial numbers, and any bounds.                                         *)
(***************************************************************************)
EXTENDS DeviceCatalog, TLAPS

Dossier ==
  [qmi_open_ok : BOOLEAN, dms : Modems \cup {NoModem}, last_phase : Modems \cup {NoModem},
   at_ok : BOOLEAN, at : Modems \cup {NoModem}, at_text : {"none", "read", "broken"},
   deepest_probe : Presence..Radio]

(* The types of what the theorems are about.                               *)
Types ==
  /\ bus \in [Modems -> [port : Ports \cup {Gone}, node : Nodes \cup {Unbound}]]
  /\ \A i \in DOMAIN dossiers : dossiers[i] \in Dossier
  /\ \A i \in DOMAIN file : file[i].d \in Dossier /\ file[i].whole \in BOOLEAN
  /\ probe \in [pc : {"none", "open", "identity", "radio", "at", "store"},
                ep : {probe.ep}, level : {probe.level}, d : Dossier,
                session : Modems \cup {NoModem}]

(* What is kept, in memory and in whole objects of the file, was stored.   *)
KeptWasStored ==
  /\ \A i \in DOMAIN dossiers : Named(i, dossiers[i]) \in stored
  /\ \A i \in DOMAIN file : file[i].whole => Named(i, file[i].d) \in stored

-----------------------------------------------------------------------------
(* Names forget the text of an AT answer, which is all that Read changes.  *)
LEMMA ReadKeepsName ==
  ASSUME NEW i, NEW d \in Dossier
  PROVE  Read(d) \in Dossier /\ Named(i, Read(d)) = Named(i, d)
BY DEF Dossier, Read, Named

LEMMA BlankType == Blank \in Dossier
BY DEF Blank, Dossier, Presence, Radio

LEMMA CutType ==
  ASSUME NEW d \in Dossier
  PROVE  Cut(d) \in Dossier
<1>1. Presence \in Presence..Radio
  BY DEF Presence, Radio
<1> QED BY <1>1 DEF Cut, Dossier

LEMMA PutValue ==
  ASSUME NEW id, NEW d, NEW i \in DOMAIN Put(id, d)
  PROVE  /\ i = id => Put(id, d)[i] = d
         /\ i # id => i \in DOMAIN dossiers /\ Put(id, d)[i] = dossiers[i]
BY DEF Put

(* A whole object of a write that was broken off is an object of the map.  *)
LEMMA WholeIsKept ==
  ASSUME NEW map, NEW f \in BrokenOff(map), NEW i \in DOMAIN f
  PROVE  /\ i \in DOMAIN map /\ f[i].whole \in BOOLEAN
         /\ f[i].whole => f[i].d = map[i]
         /\ map[i] \in Dossier => f[i].d \in Dossier
<1>1. PICK ids \in SUBSET DOMAIN map : \E cut \in ids \cup {<<>>} :
        f = [j \in ids |-> [d |-> IF j = cut THEN Cut(map[j]) ELSE map[j], whole |-> j # cut]]
  BY DEF BrokenOff
<1>2. PICK cut :
        f = [j \in ids |-> [d |-> IF j = cut THEN Cut(map[j]) ELSE map[j], whole |-> j # cut]]
  BY <1>1
<1> QED BY <1>2, CutType

-----------------------------------------------------------------------------
LEMMA InitTypes == Init => Types
BY BlankType DEF Init, Types, Absent, NoDossiers, NoProbe, NoEndpoint

(* A dossier in progress stays one, whatever a probe learns.               *)
LEMMA LearnType ==
  ASSUME NEW d \in Dossier, NEW m \in Modems \cup {NoModem}, NEW b \in BOOLEAN,
         NEW level \in {Presence, Transport, Identity, Radio}
  PROVE  /\ [d EXCEPT !.deepest_probe = level] \in Dossier
         /\ [d EXCEPT !.qmi_open_ok = b] \in Dossier
         /\ [d EXCEPT !.qmi_open_ok = b, !.deepest_probe = level] \in Dossier
         /\ [d EXCEPT !.dms = m, !.deepest_probe = level] \in Dossier
         /\ [d EXCEPT !.last_phase = m, !.deepest_probe = level] \in Dossier
         /\ [d EXCEPT !.at_ok = b] \in Dossier
         /\ [d EXCEPT !.at_ok = b, !.at = m, !.at_text = "read"] \in Dossier
<1>1. level \in Presence..Radio
  BY DEF Presence, Transport, Identity, Radio
<1> QED BY <1>1 DEF Dossier

LEMMA NextTypes ==
  ASSUME Types, [Next]_vars
  PROVE  Types'
<1> USE DEF Types
<1> DEFINE Progress == [pc : {"none", "open", "identity", "radio", "at", "store"},
                        ep : {probe.ep}, level : {probe.level}, d : Dossier,
                        session : Modems \cup {NoModem}]
<1>1. ASSUME refresh PROVE Types'
  BY <1>1 DEF refresh
<1>2. ASSUME NEW e \in endpoints, NEW level \in Presence..Radio, StartProbe(e, level)
      PROVE  Types'
  <2>1. Previous(e.id) \in Dossier
    BY BlankType, SMTT(40) DEF Previous
  <2>2. /\ [Previous(e.id) EXCEPT !.deepest_probe = Presence] \in Dossier
        /\ [[Previous(e.id) EXCEPT !.deepest_probe = Presence] EXCEPT !.qmi_open_ok = FALSE] \in Dossier
    BY <2>1, LearnType
  <2> QED BY <1>2, <2>2 DEF StartProbe
<1>3. ASSUME OpenQmi PROVE Types'
  <2>1. probe' \in Progress
    <3>1. /\ [probe.d EXCEPT !.qmi_open_ok = FALSE] \in Dossier
          /\ [probe.d EXCEPT !.qmi_open_ok = TRUE, !.deepest_probe = Transport] \in Dossier
      BY LearnType
    <3> QED BY <1>3, <3>1, ZenonT(60) DEF OpenQmi, ProbeStep, At
  <2> QED BY <1>3, <2>1 DEF OpenQmi, ProbeStep
<1>4. ASSUME ReadIdentity PROVE Types'
  <2>1. probe' \in Progress
    <3>1. [probe.d EXCEPT !.dms = probe.session, !.deepest_probe = Identity] \in Dossier
      BY LearnType
    <3> QED BY <1>4, <3>1 DEF ReadIdentity, ProbeStep, AfterIdentity
  <2> QED BY <1>4, <2>1 DEF ReadIdentity, ProbeStep
<1>5. ASSUME ReadRadio PROVE Types'
  <2>1. probe' \in Progress
    <3>1. \A m \in {probe.session, NoModem} :
            [probe.d EXCEPT !.last_phase = m, !.deepest_probe = Radio] \in Dossier
      BY LearnType
    <3> QED BY <1>5, <3>1, ZenonT(60) DEF ReadRadio, ProbeStep
  <2> QED BY <1>5, <2>1 DEF ReadRadio, ProbeStep
<1>6. ASSUME ProbeAt PROVE Types'
  <2>1. probe' \in Progress
    <3>1. /\ \A m \in Modems : [probe.d EXCEPT !.at_ok = TRUE, !.at = m, !.at_text = "read"] \in Dossier
          /\ [probe.d EXCEPT !.at_ok = FALSE] \in Dossier
      BY LearnType
    <3>2. ASSUME NEW m \in Modems,
                 probe' = [[probe EXCEPT !.session = NoModem, !.pc = "store"] EXCEPT
                             !.d.at_ok = TRUE, !.d.at = m, !.d.at_text = "read"]
          PROVE  probe' \in Progress
      BY <3>1, <3>2
    <3>3. ASSUME probe' = [[probe EXCEPT !.session = NoModem, !.pc = "store"] EXCEPT
                             !.d.at_ok = FALSE]
          PROVE  probe' \in Progress
      BY <3>1, <3>3
    <3>4. [probe EXCEPT !.session = NoModem, !.pc = "store"] \in Progress
      OBVIOUS
    <3> QED BY <1>6, <3>2, <3>3, <3>4 DEF ProbeAt, At
  <2> QED BY <1>6, <2>1 DEF ProbeAt, ProbeStep
<1>7. ASSUME Store PROVE Types'
  <2>1. \A i \in DOMAIN dossiers' : dossiers'[i] \in Dossier
    BY <1>7, PutValue DEF Store
  <2>2. \A i \in DOMAIN file' : file'[i].d \in Dossier /\ file'[i].whole \in BOOLEAN
    <3>1. CASE file' = file
      BY <3>1
    <3>2. CASE file' = serialize_dossiers(dossiers')
      BY <2>1, <3>2 DEF serialize_dossiers
    <3> QED BY <1>7, <3>1, <3>2 DEF Store
  <2> QED BY <1>7, <2>1, <2>2, BlankType DEF Store, NoProbe
<1>8. ASSUME NEW m \in Modems, NEW port \in Ports, NEW node \in Nodes \cup {Unbound},
             Plug(m, port, node)
      PROVE  Types'
  BY <1>8 DEF Plug, Event
<1>9. ASSUME NEW m \in Modems, NEW node \in Nodes, Bind(m, node) PROVE Types'
  BY <1>9 DEF Bind, Event
<1>10. ASSUME NEW m \in Modems, Unplug(m) PROVE Types'
  BY <1>10 DEF Unplug, Event, Absent
<1>11. ASSUME Crash PROVE Types'
  BY <1>11, BlankType DEF Crash, Die, NoDossiers, NoProbe
<1>12. ASSUME CrashSaving PROVE Types'
  <2>1. \A i \in DOMAIN Put(probe.ep.id, probe.d) : Put(probe.ep.id, probe.d)[i] \in Dossier
    BY PutValue
  <2>2. \A i \in DOMAIN file' : file'[i].d \in Dossier /\ file'[i].whole \in BOOLEAN
    BY <1>12, <2>1, WholeIsKept DEF CrashSaving
  <2> QED BY <1>12, <2>2, BlankType DEF CrashSaving, Die, NoDossiers, NoProbe
<1>13. ASSUME load_dossiers PROVE Types'
  <2>1. \A i \in DOMAIN dossiers' : dossiers'[i] \in Dossier
    BY <1>13, ReadKeepsName DEF load_dossiers, parse_dossiers
  <2> QED BY <1>13, <2>1 DEF load_dossiers
<1>14. ASSUME UNCHANGED vars PROVE Types'
  BY <1>14 DEF vars, memory
<1> QED BY <1>1, <1>2, <1>3, <1>4, <1>5, <1>6, <1>7, <1>8, <1>9, <1>10, <1>11, <1>12,
           <1>13, <1>14 DEF Next, Probing, Host

-----------------------------------------------------------------------------
(* NothingInvented.                                                        *)

LEMMA InitKept == Init => KeptWasStored
BY DEF Init, KeptWasStored, NoDossiers

(* What a save puts into memory and on disk is what was kept before, or is *)
(* stored by it.                                                           *)
LEMMA StoreKept ==
  ASSUME KeptWasStored,
         stored' = stored \cup {Named(probe.ep.id, probe.d)},
         NEW i \in DOMAIN Put(probe.ep.id, probe.d)
  PROVE  Named(i, Put(probe.ep.id, probe.d)[i]) \in stored'
BY PutValue DEF KeptWasStored

LEMMA NextKept ==
  ASSUME Types, KeptWasStored, [Next]_vars
  PROVE  KeptWasStored'
<1>1. CASE Store
  <2>1. \A i \in DOMAIN dossiers' : Named(i, dossiers'[i]) \in stored'
    BY <1>1, StoreKept DEF Store
  <2>2. CASE file' = file
    BY <1>1, <2>1, <2>2 DEF Store, KeptWasStored
  <2>3. CASE file' = serialize_dossiers(dossiers')
    BY <2>1, <2>3 DEF serialize_dossiers, KeptWasStored
  <2> QED BY <1>1, <2>2, <2>3 DEF Store
<1>2. CASE Crash
  BY <1>2 DEF Crash, Die, NoDossiers, KeptWasStored
<1>3. CASE CrashSaving
  <2>1. \A i \in DOMAIN file' : file'[i].whole => Named(i, file'[i].d) \in stored'
    BY <1>3, StoreKept, WholeIsKept DEF CrashSaving
  <2>2. dossiers' = NoDossiers
    BY <1>3 DEF CrashSaving, Die
  <2> QED BY <2>1, <2>2 DEF NoDossiers, KeptWasStored
<1>4. CASE load_dossiers
  <2>1. \A i \in DOMAIN dossiers' : Named(i, dossiers'[i]) \in stored
    BY <1>4, ReadKeepsName DEF load_dossiers, parse_dossiers, Types, KeptWasStored
  <2> QED BY <1>4, <2>1 DEF load_dossiers, history, KeptWasStored
<1>5. CASE UNCHANGED <<dossiers, file, stored>>
  BY <1>5 DEF KeptWasStored
<1>6. CASE refresh
  BY <1>5, <1>6 DEF refresh, history
<1>7. CASE Probing
  BY <1>1, <1>5, <1>7 DEF Probing, StartProbe, OpenQmi, ReadIdentity, ReadRadio, ProbeAt,
                          ProbeStep, history
<1>8. CASE Host
  BY <1>5, <1>8 DEF Host, Plug, Bind, Unplug, Event
<1>9. CASE UNCHANGED vars
  BY <1>5, <1>9 DEF vars, memory, history
<1> QED BY <1>2, <1>3, <1>4, <1>6, <1>7, <1>8, <1>9 DEF Next

(* A dossier in memory, or one that a restart would read from the file,    *)
(* was stored by some probe, text of the AT answer aside: no crash in a    *)
(* save and no restart makes one up or mixes two (write_dossiers_file,     *)
(* parse_dossiers).                                                        *)
THEOREM DossiersWereStored == Spec => []NothingInvented
<1>1. Init => Types /\ KeptWasStored
  BY InitTypes, InitKept
<1>2. Types /\ KeptWasStored /\ [Next]_vars => (Types /\ KeptWasStored)'
  BY NextTypes, NextKept
<1>3. Types /\ KeptWasStored => NothingInvented
  <2> SUFFICES ASSUME Types, KeptWasStored
               PROVE  NothingInvented
    OBVIOUS
  <2>1. AreStored(dossiers)
    BY DEF KeptWasStored, AreStored
  <2>2. AreStored(parse_dossiers(file))
    BY ReadKeepsName DEF Types, KeptWasStored, AreStored, parse_dossiers
  <2> QED BY <2>1, <2>2 DEF NothingInvented
<1> QED BY <1>1, <1>2, <1>3, PTL DEF Spec

-----------------------------------------------------------------------------
(* ReportIsOwn.  While the host is calm, what is kept under the name of a  *)
(* serial number was said by the modem of that number, in memory, on disk  *)
(* and in the probe under way.                                             *)

SpeaksFor(m, id) ==
  \A n \in Modems : Serial[n] \notin FakeSerials /\ id = <<"serial", Serial[n]>> => m = n
Own(id, d) ==
  \A m \in Modems : m \in {d.dms, d.last_phase, d.at} => SpeaksFor(m, id)

OneModemPerNode ==
  \A m, n \in Modems : bus[m].node = bus[n].node /\ bus[m].node # Unbound => m = n

AllOwn ==
  /\ \A i \in DOMAIN dossiers : Own(i, dossiers[i])
  /\ \A i \in DOMAIN file : file[i].whole => Own(i, file[i].d)
  /\ probe.pc # "none" =>
       /\ Own(probe.ep.id, probe.d)
       /\ \A m \in Modems : m = probe.session \/ m \in At(probe.ep.node)
                              => SpeaksFor(m, probe.ep.id)

CalmIsOwn == calm => AllOwn

LEMMA ReadKeepsOwn ==
  ASSUME NEW i, NEW d \in Dossier
  PROVE  Own(i, Read(d)) <=> Own(i, d)
BY DEF Dossier, Read, Own

LEMMA BlankIsOwn ==
  ASSUME NEW i
  PROVE  Own(i, Blank)
BY CatalogAssumption DEF CatalogAssumption, Blank, Own

(* Only the modem of an endpoint answers at its node, and the name of the  *)
(* endpoint is no other modem's.                                           *)
LEMMA EndpointIsOwn ==
  ASSUME OneModemPerNode, NEW e \in enumerate_sysfs,
         NEW m \in Modems, m \in At(e.node)
  PROVE  SpeaksFor(m, e.id)
<1>1. PICK k \in Modems : e = EndpointOf(k)
  BY DEF enumerate_sysfs
<1>2. m = k
  BY <1>1 DEF At, EndpointOf, OneModemPerNode
<1>3. CASE Serial[k] \in FakeSerials
  <2>1. e.id = <<"path", bus[k].port>>
    BY <1>1, <1>3 DEF EndpointOf, make_endpoint_id
  <2> QED BY <2>1 DEF SpeaksFor
<1>4. CASE Serial[k] \notin FakeSerials
  <2>1. e.id = <<"serial", Serial[k]>>
    BY <1>1, <1>4 DEF EndpointOf, make_endpoint_id
  <2> QED BY <1>2, <1>4, <2>1, CatalogAssumption DEF CatalogAssumption, SpeaksFor
<1> QED BY <1>3, <1>4

LEMMA InitOwn == Init => OneModemPerNode /\ CalmIsOwn
BY CatalogAssumption DEF Init, OneModemPerNode, CalmIsOwn, AllOwn, Absent, NoDossiers, NoProbe

LEMMA NextApart ==
  ASSUME Types, OneModemPerNode, [Next]_vars
  PROVE  OneModemPerNode'
<1> USE DEF Types, OneModemPerNode
<1>1. CASE UNCHANGED bus
  BY <1>1
<1>2. ASSUME NEW m \in Modems, NEW port \in Ports, NEW node \in Nodes \cup {Unbound},
             Plug(m, port, node)
      PROVE  OneModemPerNode'
  BY <1>2 DEF Plug, At
<1>3. ASSUME NEW m \in Modems, NEW node \in Nodes, Bind(m, node) PROVE OneModemPerNode'
  BY <1>3 DEF Bind, At
<1>4. ASSUME NEW m \in Modems, Unplug(m) PROVE OneModemPerNode'
  BY <1>4 DEF Unplug, Absent
<1>5. Next \/ UNCHANGED vars => UNCHANGED bus \/ Host
  BY DEF Next, Probing, refresh, StartProbe, OpenQmi, ReadIdentity, ReadRadio, ProbeAt,
         ProbeStep, Store, Crash, CrashSaving, Die, load_dossiers, vars
<1> QED BY <1>1, <1>2, <1>3, <1>4, <1>5 DEF Host

(* A step of a probe that hears only the modem of its endpoint.            *)
LEMMA ProbeStepOwn ==
  ASSUME Types, AllOwn, probe.pc # "none",
         UNCHANGED <<bus, endpoints, dossiers, running, file, bounds, history>>,
         probe'.ep = probe.ep, Own(probe.ep.id, probe'.d),
         \A m \in Modems : m = probe'.session \/ m \in At(probe.ep.node)
                             => SpeaksFor(m, probe.ep.id)
  PROVE  AllOwn'
BY DEF AllOwn, At, SpeaksFor, Own

LEMMA LearnOwn ==
  ASSUME NEW d \in Dossier, NEW id, Own(id, d), NEW m \in Modems \cup {NoModem},
         m \in Modems => SpeaksFor(m, id), NEW b, NEW level
  PROVE  /\ Own(id, [d EXCEPT !.qmi_open_ok = b])
         /\ Own(id, [d EXCEPT !.qmi_open_ok = b, !.deepest_probe = level])
         /\ Own(id, [d EXCEPT !.dms = m, !.deepest_probe = level])
         /\ Own(id, [d EXCEPT !.last_phase = m, !.deepest_probe = level])
         /\ Own(id, [d EXCEPT !.at_ok = b])
         /\ Own(id, [d EXCEPT !.at_ok = b, !.at = m, !.at_text = "read"])
BY DEF Own, Dossier

LEMMA ProbingOwn ==
  ASSUME Types, CalmIsOwn, OpenQmi \/ ReadIdentity \/ ReadRadio \/ ProbeAt
  PROVE  CalmIsOwn'
<1> SUFFICES ASSUME calm PROVE AllOwn'
  BY DEF CalmIsOwn, OpenQmi, ReadIdentity, ReadRadio, ProbeAt, ProbeStep, history
<1>1. /\ AllOwn /\ probe.pc # "none"
      /\ UNCHANGED <<bus, endpoints, dossiers, running, file, bounds, history>>
  BY DEF CalmIsOwn, OpenQmi, ReadIdentity, ReadRadio, ProbeAt, ProbeStep
<1>2. /\ Own(probe.ep.id, probe.d)
      /\ \A m \in Modems : m = probe.session \/ m \in At(probe.ep.node)
                             => SpeaksFor(m, probe.ep.id)
  BY <1>1 DEF AllOwn
<1> SUFFICES /\ probe'.ep = probe.ep /\ Own(probe.ep.id, probe'.d)
             /\ \A m \in Modems : m = probe'.session => SpeaksFor(m, probe.ep.id)
  BY <1>1, <1>2, ProbeStepOwn
<1>3. CASE OpenQmi
  <2>1. /\ probe'.ep = probe.ep /\ probe'.session \in At(probe.ep.node) \cup {probe.session}
        /\ \E b \in BOOLEAN : probe'.d \in {[probe.d EXCEPT !.qmi_open_ok = b],
                                            [probe.d EXCEPT !.qmi_open_ok = b,
                                                            !.deepest_probe = Transport]}
    BY <1>3 DEF OpenQmi, Types
  <2>2. \A b \in BOOLEAN :
          /\ Own(probe.ep.id, [probe.d EXCEPT !.qmi_open_ok = b])
          /\ Own(probe.ep.id, [probe.d EXCEPT !.qmi_open_ok = b, !.deepest_probe = Transport])
    BY <1>2, LearnOwn DEF Types
  <2>3. Own(probe.ep.id, probe'.d)
    BY <2>1, <2>2
  <2> QED BY <1>2, <2>1, <2>3
<1>4. CASE ReadIdentity
  <2>1. /\ probe'.ep = probe.ep /\ probe'.session = probe.session
        /\ probe'.d \in {probe.d, [probe.d EXCEPT !.dms = probe.session,
                                                  !.deepest_probe = Identity]}
    BY <1>4 DEF ReadIdentity, Types
  <2>2. Own(probe.ep.id, [probe.d EXCEPT !.dms = probe.session, !.deepest_probe = Identity])
    BY <1>2, LearnOwn DEF Types
  <2>3. Own(probe.ep.id, probe'.d)
    BY <1>2, <2>1, <2>2
  <2> QED BY <1>2, <2>1, <2>3
<1>5. CASE ReadRadio
  <2>1. /\ probe'.ep = probe.ep /\ probe'.session = probe.session
        /\ \E m \in {probe.session, NoModem} :
             probe'.d = [probe.d EXCEPT !.last_phase = m, !.deepest_probe = Radio]
    BY <1>5 DEF ReadRadio, Types
  <2>2. \A m \in {probe.session, NoModem} :
          Own(probe.ep.id, [probe.d EXCEPT !.last_phase = m, !.deepest_probe = Radio])
    BY <1>2, LearnOwn, CatalogAssumption, ZenonT(60) DEF CatalogAssumption, Types
  <2>3. Own(probe.ep.id, probe'.d)
    BY <2>1, <2>2
  <2> QED BY <1>2, <2>1, <2>3
<1>6. CASE ProbeAt
  <2>1. ASSUME NEW m \in At(probe.ep.node),
               probe' = [[probe EXCEPT !.session = NoModem, !.pc = "store"] EXCEPT
                           !.d.at_ok = TRUE, !.d.at = m, !.d.at_text = "read"]
        PROVE  /\ probe'.ep = probe.ep /\ probe'.session = NoModem
               /\ probe'.d = [probe.d EXCEPT !.at_ok = TRUE, !.at = m, !.at_text = "read"]
    BY <2>1 DEF Types
  <2>2. ASSUME probe' = [[probe EXCEPT !.session = NoModem, !.pc = "store"] EXCEPT
                           !.d.at_ok = FALSE]
        PROVE  /\ probe'.ep = probe.ep /\ probe'.session = NoModem
               /\ probe'.d = [probe.d EXCEPT !.at_ok = FALSE]
    BY <2>2 DEF Types
  <2>3. ASSUME probe' = [probe EXCEPT !.session = NoModem, !.pc = "store"]
        PROVE  probe'.ep = probe.ep /\ probe'.session = NoModem /\ probe'.d = probe.d
    BY <2>3 DEF Types
  <2>4. /\ probe'.ep = probe.ep /\ probe'.session = NoModem
        /\ \/ probe'.d \in {probe.d, [probe.d EXCEPT !.at_ok = FALSE]}
           \/ \E m \in At(probe.ep.node) :
                probe'.d = [probe.d EXCEPT !.at_ok = TRUE, !.at = m, !.at_text = "read"]
    BY <1>6, <2>1, <2>2, <2>3 DEF ProbeAt
  <2>5. /\ Own(probe.ep.id, [probe.d EXCEPT !.at_ok = FALSE])
        /\ \A m \in At(probe.ep.node) :
             Own(probe.ep.id, [probe.d EXCEPT !.at_ok = TRUE, !.at = m, !.at_text = "read"])
    <3>1. NoModem \notin Modems
      BY CatalogAssumption DEF CatalogAssumption
    <3> QED BY <1>2, <3>1, LearnOwn DEF Types, At
  <2>6. Own(probe.ep.id, probe'.d)
    BY <1>2, <2>4, <2>5
  <2> QED BY <2>4, <2>6, CatalogAssumption DEF CatalogAssumption
<1> QED BY <1>3, <1>4, <1>5, <1>6

LEMMA StartOwn ==
  ASSUME Types, OneModemPerNode, CalmIsOwn,
         NEW e \in endpoints, NEW level \in Presence..Radio, StartProbe(e, level)
  PROVE  CalmIsOwn'
<1> SUFFICES ASSUME calm, endpoints = enumerate_sysfs
             PROVE  AllOwn'
  BY DEF CalmIsOwn, StartProbe
<1>1. AllOwn /\ UNCHANGED <<bus, dossiers, file>>
  BY DEF CalmIsOwn, StartProbe
<1>2. Previous(e.id) \in Dossier /\ Own(e.id, Previous(e.id))
  BY <1>1, BlankType, BlankIsOwn DEF Previous, AllOwn, Types
<1>3. Own(e.id, probe'.d)
  BY <1>2 DEF StartProbe, Own, Dossier
<1>4. probe'.ep = e /\ probe'.session = NoModem
  BY DEF StartProbe
<1>5. \A m \in Modems : m \in At(e.node)' => SpeaksFor(m, e.id)
  BY <1>1, EndpointIsOwn DEF At
<1> QED BY <1>1, <1>3, <1>4, <1>5, CatalogAssumption DEF CatalogAssumption, AllOwn, Own, SpeaksFor

LEMMA StoreOwn ==
  ASSUME AllOwn, probe.pc = "store", NEW i \in DOMAIN Put(probe.ep.id, probe.d)
  PROVE  Own(i, Put(probe.ep.id, probe.d)[i])
BY PutValue DEF AllOwn

LEMMA NextOwn ==
  ASSUME Types, OneModemPerNode, CalmIsOwn, [Next]_vars
  PROVE  CalmIsOwn'
<1>1. CASE refresh
  BY <1>1 DEF refresh, CalmIsOwn, AllOwn, At, SpeaksFor, Own, history
<1>2. ASSUME NEW e \in endpoints, NEW level \in Presence..Radio, StartProbe(e, level)
      PROVE  CalmIsOwn'
  BY <1>2, StartOwn
<1>3. CASE OpenQmi \/ ReadIdentity \/ ReadRadio \/ ProbeAt
  BY <1>3, ProbingOwn
<1>4. CASE Store
  <2> SUFFICES ASSUME calm PROVE AllOwn'
    BY <1>4 DEF Store, CalmIsOwn
  <2>1. \A i \in DOMAIN dossiers' : Own(i, dossiers'[i])
    BY <1>4, StoreOwn DEF Store, CalmIsOwn
  <2>2. \A i \in DOMAIN file' : file'[i].whole => Own(i, file'[i].d)
    <3>1. CASE file' = file
      BY <3>1 DEF CalmIsOwn, AllOwn
    <3>2. CASE file' = serialize_dossiers(dossiers')
      BY <2>1, <3>2 DEF serialize_dossiers
    <3> QED BY <1>4, <3>1, <3>2 DEF Store
  <2>3. probe'.pc = "none"
    BY <1>4 DEF Store, NoProbe
  <2> QED BY <2>1, <2>2, <2>3 DEF AllOwn, Own, SpeaksFor
<1>5. CASE Host
  <2> SUFFICES ASSUME calm, probe.pc = "none" PROVE AllOwn'
    BY <1>5 DEF Host, Plug, Bind, Unplug, Event, CalmIsOwn
  <2>1. UNCHANGED <<dossiers, file>> /\ probe'.pc = "none"
    BY <1>5 DEF Host, Plug, Bind, Unplug, Event, Types
  <2> QED BY <2>1 DEF CalmIsOwn, AllOwn, Own, SpeaksFor
<1>6. CASE Crash
  BY <1>6 DEF Crash, Die, NoDossiers, NoProbe, CalmIsOwn, AllOwn, Own, SpeaksFor
<1>7. CASE CrashSaving
  <2> SUFFICES ASSUME calm PROVE AllOwn'
    BY <1>7 DEF CrashSaving, Die, CalmIsOwn
  <2>1. \A i \in DOMAIN file' : file'[i].whole => Own(i, file'[i].d)
    BY <1>7, StoreOwn, WholeIsKept DEF CrashSaving, CalmIsOwn
  <2> QED BY <1>7, <2>1 DEF CrashSaving, Die, NoDossiers, NoProbe, AllOwn, Own, SpeaksFor
<1>8. CASE load_dossiers
  <2> SUFFICES ASSUME calm PROVE AllOwn'
    BY <1>8 DEF load_dossiers, history, CalmIsOwn
  <2>1. \A i \in DOMAIN dossiers' : Own(i, dossiers'[i])
    BY <1>8, ReadKeepsOwn DEF load_dossiers, parse_dossiers, CalmIsOwn, AllOwn, Types
  <2> QED BY <1>8, <2>1 DEF load_dossiers, CalmIsOwn, AllOwn, At, Own, SpeaksFor
<1>9. CASE UNCHANGED vars
  BY <1>9 DEF vars, memory, history, CalmIsOwn, AllOwn, At, Own, SpeaksFor
<1> QED BY <1>1, <1>2, <1>3, <1>4, <1>5, <1>6, <1>7, <1>8, <1>9 DEF Next, Probing

(* A report under a serial number was given by the modem of that number,   *)
(* for any number of modems, whatever they report as serial numbers, if    *)
(* the host is calm and the list up to date (refresh, probe, Store).       *)
THEOREM ReportsAreOwn == Spec => []ReportIsOwn
<1> DEFINE IInv == Types /\ OneModemPerNode /\ CalmIsOwn
<1>1. Init => IInv
  BY InitTypes, InitOwn
<1>2. IInv /\ [Next]_vars => IInv'
  BY NextTypes, NextApart, NextOwn
<1>3. IInv => ReportIsOwn
  <2> SUFFICES ASSUME IInv, calm, NEW m \in Modems,
                      EndpointOf(m).serial_is_stable, EndpointOf(m).id \in DOMAIN dossiers
               PROVE  Says(dossiers[EndpointOf(m).id]) \subseteq {m}
    BY DEF ReportIsOwn
  <2> DEFINE id == EndpointOf(m).id
  <2>1. Serial[m] \notin FakeSerials /\ id = <<"serial", Serial[m]>>
    BY DEF EndpointOf, make_endpoint_id
  <2>2. Own(id, dossiers[id]) /\ dossiers[id] \in Dossier
    BY DEF CalmIsOwn, AllOwn, Types
  <2>3. ASSUME NEW n \in Says(dossiers[id]) PROVE n = m
    <3>1. n \in Modems /\ n \in {dossiers[id].dms, dossiers[id].last_phase, dossiers[id].at}
      BY <2>2, <2>3 DEF Says, Dossier
    <3> QED BY <2>1, <2>2, <3>1 DEF Own, SpeaksFor
  <2> QED BY <2>3
<1> QED BY <1>1, <1>2, <1>3, PTL DEF Spec
=============================================================================
