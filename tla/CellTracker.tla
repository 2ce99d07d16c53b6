----------------------------- MODULE CellTracker -----------------------------
(***************************************************************************)
(* The cell registry of include/observer/model/CellTracker.h: parser       *)
(* events of every radio technology are folded into one map from a         *)
(* physical key (carrier number, PCI or BSIC) to the identity, serving     *)
(* flags and radio stamp of that cell.                                     *)
(*                                                                         *)
(* Every public operation holds m_mutex from its first line to its last,   *)
(* so each one is a single action here.  Signal strengths, neighbour lists *)
(* kept for display, time stamps and counters are left out; who owns which *)
(* identity, who is serving and which PCI a row shows are kept.  Numbers   *)
(* are naturals, 0 is "unset" as in the code.                              *)
(***************************************************************************)
EXTENDS Naturals, FiniteSets

CONSTANTS
  Rats,      (* The radio technologies heard, out of AllRats.              *)
  Freqs,     (* Carrier numbers (EARFCN, ARFCN, UARFCN, NR-ARFCN).         *)
  Pcis,      (* Non-zero PCI, PSC or BSIC values.                          *)
  Cids,      (* Non-zero cell identities.                                  *)
  WideCids,  (* Those of them wider than 28 bits (36-bit NCI).             *)
  GsmCids,   (* Those of them of 16 bits: they can stand in a GSM row key. *)
  Tacs,      (* Non-zero tracking or location area codes.                  *)
  Plmns,     (* Non-zero operator codes (MCC and MNC together).            *)
  PassportInputs,  (* [rat, key, pass] of the passport events fed in.      *)
  CgiInputs,       (* [rat, key, pci, pass] of neighbours measured, pass
                      may be NoPass.                                       *)
  EventKeys,       (* [rat, key] of all other events fed in.               *)
  Carriers         (* The carriers that each technology's neighbour lists,
                      SIB5 and surround searches name.                     *)

AllRats == {"GSM", "WCDMA", "LTE", "NR"}

Key == [freq : Freqs \cup {0}, pci : Pcis \cup GsmCids \cup {0}]
NullKey == [freq |-> 0, pci |-> 0]
KeyOf(f, p) == [freq |-> f, pci |-> p]

Passport == [cid : Cids \cup {0}, tac : Tacs \cup {0},
             plmn : Plmns \cup {0}, soft : BOOLEAN]
NoPass == [cid |-> 0, tac |-> 0, plmn |-> 0, soft |-> FALSE]

Row == [present : BOOLEAN, rat : AllRats \cup {"UNKNOWN"}, serving : BOOLEAN,
        ever : BOOLEAN, pass : Passport, rpci : Pcis \cup GsmCids \cup {0}]
NoRow == [present |-> FALSE, rat |-> "UNKNOWN", serving |-> FALSE,
          ever |-> FALSE, pass |-> NoPass, rpci |-> 0]

ASSUME ConstantsAssumption ==
  /\ Rats \subseteq AllRats
  /\ Freqs \subseteq Nat \ {0}
  /\ Pcis \subseteq Nat \ {0}
  /\ Cids \subseteq Nat \ {0}
  /\ Tacs \subseteq Nat \ {0}
  /\ Plmns \subseteq Nat \ {0}
  /\ WideCids \subseteq Cids
  /\ GsmCids \subseteq Cids \ WideCids
  /\ PassportInputs \subseteq [rat : Rats, key : Key, pass : Passport]
  /\ CgiInputs \subseteq [rat : Rats, key : Key, pci : Pcis \cup {0}, pass : Passport]
  /\ EventKeys \subseteq [rat : Rats, key : Key]
  /\ Carriers \in [Rats -> SUBSET Freqs]

VARIABLES
  registry,  (* m_registry; an erased or never created row is NoRow.       *)
  pending,   (* m_pending_passports: by cell identity, NoPass when absent. *)
  hint       (* m_surround_arfcn_hint and m_surround_hint_fresh.           *)

vars == <<registry, pending, hint>>

Registry == [Key -> Row]

TypeOK ==
  /\ registry \in Registry
  /\ pending \in [Cids -> Passport]
  /\ hint \in [arfcn : Freqs \cup {0}, fresh : BOOLEAN]

Init ==
  /\ registry = [k \in Key |-> NoRow]
  /\ pending = [c \in Cids |-> NoPass]
  /\ hint = [arfcn |-> 0, fresh |-> FALSE]

-----------------------------------------------------------------------------
(* Lookups in the map.  std::map iterates in key order, so a search that   *)
(* stops at the first match returns the least matching key.                *)

KeyLeq(k, j) == k.freq < j.freq \/ (k.freq = j.freq /\ k.pci <= j.pci)

(* The first key of a set, {0,0} when there is none.                       *)
FirstKey(S) ==
  IF S = {} THEN NullKey ELSE CHOOSE k \in S : \A j \in S : KeyLeq(k, j)

RowsOf(reg, rat) == {k \in Key : reg[k].present /\ reg[k].rat = rat}

(* Mutant: the technology is not compared.                                 *)
ServingKeyOfAny(reg, rat) == FirstKey({k \in Key : reg[k].present /\ reg[k].serving})
ServingKey(reg, rat) == FirstKey({k \in RowsOf(reg, rat) : reg[k].serving})

(* A row holding this cell identity, else the GSM row named after it.      *)
FindKeyByCid(reg, rat, cid) ==
  LET holders == {k \in RowsOf(reg, rat) : reg[k].pass.cid = cid}
  IN  IF holders # {} THEN FirstKey(holders)
      ELSE IF /\ rat = "GSM" /\ cid \in GsmCids
              /\ reg[KeyOf(0, cid)].present
           THEN KeyOf(0, cid)
           ELSE NullKey

-----------------------------------------------------------------------------
(* Passports.                                                              *)

ValidCid(c) == c # 0 /\ c \notin WideCids
Full(p) == ValidCid(p.cid) /\ p.tac # 0 /\ p.plmn # 0

(* Mutant: the last complete passport wins.                                *)
MergeLastWins(dst, src) ==
  [cid  |-> IF src.cid # 0 THEN src.cid ELSE dst.cid,
   tac  |-> IF src.tac # 0 THEN src.tac ELSE dst.tac,
   plmn |-> IF src.plmn # 0 THEN src.plmn ELSE dst.plmn,
   soft |-> IF src.plmn # 0 THEN src.soft ELSE dst.soft]

(* Empty fields are filled; a conflicting field is replaced only when a    *)
(* complete passport meets an incomplete row; a soft PLMN never replaces.  *)
MergePassport(dst, src) ==
  LET upgrade  == Full(src) /\ ~Full(dst)
      takeCid  == ValidCid(src.cid) /\ (~ValidCid(dst.cid) \/ upgrade)
      takeTac  == src.tac # 0 /\ (dst.tac = 0 \/ upgrade)
      takePlmn == /\ src.plmn # 0
                  /\ \/ dst.plmn = 0
                     \/ ~src.soft /\ (dst.soft \/ (dst.plmn # src.plmn /\ upgrade))
  IN  [cid  |-> IF takeCid THEN src.cid ELSE dst.cid,
       tac  |-> IF takeTac THEN src.tac ELSE dst.tac,
       plmn |-> IF takePlmn THEN src.plmn ELSE dst.plmn,
       soft |-> IF takePlmn THEN src.soft ELSE dst.soft]

(* The operator of another row, as a guess; a passport without identity.   *)
SoftPlmn(dst, src) == [dst EXCEPT !.plmn = src.plmn, !.soft = TRUE]
WithoutIdentity(p) == [p EXCEPT !.cid = 0, !.tac = 0]

-----------------------------------------------------------------------------
(* Steps on the map that the handlers are made of.                         *)

(* m_registry[key] with its technology and, for a new row, the radio       *)
(* parameters filled from the key (a GSM {0,cid} key carries no BSIC).     *)
Touch(reg, key, rat) ==
  LET keepsRadio == reg[key].present \/ (rat = "GSM" /\ key.freq = 0)
  IN  [reg EXCEPT ![key] =
         [@ EXCEPT !.present = TRUE, !.rat = rat,
                   !.rpci = IF keepsRadio THEN reg[key].rpci ELSE key.pci]]

(* Mutant: the absorbed row stays in the map.                              *)
AbsorbKeepingSource(reg, dst, src) ==
  IF dst = src \/ ~reg[src].present THEN reg
  ELSE [reg EXCEPT ![dst] = [reg[src] EXCEPT !.serving = @ \/ reg[dst].serving]]

(* Row src is folded into row dst and erased.  A new dst takes over the    *)
(* radio parameters of src, an old one keeps its own where src has none.   *)
Absorb(reg, dst, src) ==
  IF dst = src \/ ~reg[src].present THEN reg
  ELSE LET d == reg[dst]
           s == reg[src]
       IN  [reg EXCEPT
             ![dst] = [present |-> TRUE,
                       rat     |-> s.rat,
                       serving |-> d.serving \/ s.serving,
                       ever    |-> d.ever \/ s.ever,
                       pass    |-> MergePassport(d.pass, s.pass),
                       rpci    |-> IF ~d.present \/ s.rpci # 0
                                   THEN s.rpci ELSE d.rpci],
             ![src] = NoRow]

(* LTE EARFCN|0 goes into EARFCN|PCI once the PCI is known.                *)
PromoteLteWeak(reg, key) ==
  IF key.freq # 0 /\ key.pci # 0 THEN Absorb(reg, key, KeyOf(key.freq, 0)) ELSE reg

(* Mutant: the CID-only row is forgotten.                                  *)
RelocateNothing(reg, key, cid) == reg

(* GSM {0,cid} goes into the physical key the identity was joined with.    *)
RelocateGsmCid(reg, key, cid) ==
  IF cid \in GsmCids /\ key.freq # 0 THEN Absorb(reg, key, KeyOf(0, cid)) ELSE reg

(* Mutants: the whole passport is copied; the wrong field is copied; rows  *)
(* that have a PLMN are overwritten.                                       *)
FanoutIdentity(reg, freq, p) ==
  [k \in Key |-> IF k \in RowsOf(reg, "LTE") /\ k.freq = freq /\ k.pci # 0
                 THEN [reg[k] EXCEPT !.pass = MergePassport(@, p)] ELSE reg[k]]
FanoutTacAsPlmn(reg, freq, p) ==
  [k \in Key |-> IF k \in RowsOf(reg, "LTE") /\ k.freq = freq /\ reg[k].pass.plmn = 0
                 THEN [reg[k] EXCEPT !.pass.plmn = p.tac, !.pass.soft = TRUE] ELSE reg[k]]
FanoutOverwriting(reg, freq, p) ==
  [k \in Key |-> IF k \in RowsOf(reg, "LTE") /\ k.freq = freq /\ p.plmn # 0
                 THEN [reg[k] EXCEPT !.pass.plmn = p.plmn, !.pass.soft = TRUE] ELSE reg[k]]

(* MCC/MNC of a bound cell, marked soft, onto the PLMN-less LTE rows of    *)
(* its carrier.                                                            *)
FanoutPlmn(reg, freq, p) ==
  IF freq = 0 \/ p.plmn = 0 THEN reg
  ELSE [k \in Key |->
          IF /\ k \in RowsOf(reg, "LTE") /\ k.freq = freq /\ k.pci # 0
             /\ reg[k].pass.plmn = 0
          THEN [reg[k] EXCEPT !.pass = SoftPlmn(@, p)]
          ELSE reg[k]]

(* Mutant: clones of the identity stay.                                    *)
ClaimNothing(reg, owner, cid) == reg

(* Strip the identity from every other LTE row that holds it.              *)
ClaimEci(reg, owner, cid) ==
  [k \in Key |->
     IF cid # 0 /\ k \in RowsOf(reg, "LTE") /\ k # owner /\ reg[k].pass.cid = cid
     THEN [reg[k] EXCEPT !.pass = WithoutIdentity(@)]
     ELSE reg[k]]

(* LTE PCI rows of the carrier that do not contradict the passport.        *)
CompatiblePciRows(reg, freq, p) ==
  {k \in RowsOf(reg, "LTE") :
     /\ k.freq = freq /\ k.pci # 0
     /\ p.cid = 0 \/ reg[k].pass.cid = 0 \/ reg[k].pass.cid = p.cid}

(* Does the passport of an EARFCN|0 event go to several PCI rows at once?  *)
FansOutWeak(reg, key, p) ==
  /\ p.cid = 0 /\ p.plmn # 0
  /\ Cardinality(CompatiblePciRows(reg, key.freq, p)) > 1

(* The fan-out: every PCI row merges the passport, the weak row goes.      *)
FanoutWeak(reg, key, p) ==
  LET rows == CompatiblePciRows(reg, key.freq, p)
  IN  [k \in Key |->
         IF k \in rows THEN [reg[k] EXCEPT !.pass = MergePassport(@, p)]
         ELSE IF k = key THEN NoRow ELSE reg[k]]

-----------------------------------------------------------------------------
(* Passport events (SIB1, SI-3, NAS, B0C2, CPSI, CEREG ...).               *)

SurroundHintApplies(rat, p) ==
  /\ rat = "GSM" /\ hint.fresh /\ hint.arfcn # 0
  /\ hint.arfcn # ServingKey(registry, rat).freq

(* The row of the hinted ARFCN, the one with a BSIC if there is one.       *)
SurroundRow ==
  LET rows == {k \in RowsOf(registry, "GSM") : k.freq = hint.arfcn /\ k.pci # 0}
  IN  IF rows # {} THEN FirstKey(rows) ELSE KeyOf(hint.arfcn, 0)

(* May the serving row take this orphan passport?                          *)
ServingAccepts(rat, p) ==
  LET sk == ServingKey(registry, rat)
  IN  sk # NullKey /\ registry[sk].pass.cid \in {0, p.cid}

(* Where a passport that came without a physical key is bound.             *)
ResolvePassportKey(rat, p) ==
  LET known == FindKeyByCid(registry, rat, p.cid)
  IN  IF p.cid = 0 THEN ServingKey(registry, rat)
      ELSE IF known # NullKey THEN known
      ELSE IF ServingAccepts(rat, p) THEN ServingKey(registry, rat)
      ELSE IF SurroundHintApplies(rat, p) THEN SurroundRow
      ELSE IF rat = "GSM" /\ p.cid \in GsmCids THEN KeyOf(0, p.cid)
      ELSE NullKey

ConsumesHint(rat, p) ==
  /\ p.cid # 0
  /\ FindKeyByCid(registry, rat, p.cid) = NullKey
  /\ ~ServingAccepts(rat, p)
  /\ SurroundHintApplies(rat, p)

(* A weak LTE key is replaced by the only row it can belong to.            *)
AttachKey(reg, rat, key, p) ==
  LET rows == CompatiblePciRows(reg, key.freq, p)
  IN  IF rat = "LTE" /\ key.freq # 0 /\ key.pci = 0 /\ Cardinality(rows) = 1
      THEN CHOOSE k \in rows : TRUE
      ELSE key

(* Mutant: identity and TAC are bound to the weak row too.                 *)
BindableWhole(rat, key, p) == p

(* What may be bound to the row: an LTE weak row takes no identity.        *)
Bindable(rat, key, p) ==
  IF rat = "LTE" /\ key.pci = 0 THEN WithoutIdentity(p) ELSE p

IsLtePci(rat, key) == rat = "LTE" /\ key.freq # 0 /\ key.pci # 0

(* The row that an event is applied to, promoted and created as needed.    *)
Arrive(reg, rat, key) ==
  Touch(IF rat = "LTE" THEN PromoteLteWeak(reg, key) ELSE reg, key, rat)

MergeInto(reg, key, p) ==
  LET merged == MergePassport(reg[key].pass, p)
  IN  [reg EXCEPT ![key] =
         [@ EXCEPT !.pass = merged,
                   !.ever = reg[key].ever \/ (reg[key].serving /\ merged.cid # 0)]]

BindPassport(reg, rat, key, p) ==
  LET merged  == MergeInto(Arrive(reg, rat, key), key, p)
      claimed == IF IsLtePci(rat, key) /\ p.cid # 0
                 THEN ClaimEci(merged, key, p.cid) ELSE merged
  IN  IF IsLtePci(rat, key) THEN FanoutPlmn(claimed, key.freq, p) ELSE claimed

(* Mutant: a bound passport is not erased.                                 *)
ForgetNothing(pend, cid) == pend
ForgetPending(pend, cid) == [c \in Cids |-> IF c = cid THEN NoPass ELSE pend[c]]

PassportEvent(rat, eventKey, p) ==
  LET orphan == eventKey = NullKey
      key    == IF orphan THEN ResolvePassportKey(rat, p) ELSE eventKey
      moved  == IF rat = "GSM" THEN RelocateGsmCid(registry, key, p.cid) ELSE registry
      weak   == rat = "LTE" /\ key.freq # 0 /\ key.pci = 0
      bindTo == AttachKey(registry, rat, key, p)
      pass   == Bindable(rat, bindTo, p)
  IN  /\ hint' = IF orphan /\ ConsumesHint(rat, p) THEN [hint EXCEPT !.fresh = FALSE]
                 ELSE hint
      /\ \/ /\ key = NullKey /\ p.cid # 0           \* kept for a later row
            /\ pending' = [pending EXCEPT ![p.cid] = p]
            /\ UNCHANGED registry
         \/ /\ weak /\ FansOutWeak(registry, key, p)
            /\ registry' = FanoutWeak(registry, key, p)
            /\ UNCHANGED pending
         \/ /\ key # NullKey /\ ~(weak /\ FansOutWeak(registry, key, p))
            /\ registry' = BindPassport(moved, rat, bindTo, pass)
            /\ pending' = ForgetPending(pending, pass.cid)

-----------------------------------------------------------------------------
(* Other keyed events.  Without a key they go to the serving row, and are  *)
(* dropped when there is none: a row {0,0} is never created.               *)

Target(rat, eventKey) ==
  IF eventKey = NullKey THEN ServingKey(registry, rat) ELSE eventKey

(* Mutant: the old serving row keeps its flag.                             *)
ClearNothing(reg, rat) == reg
ClearServing(reg, rat) ==
  [k \in Key |-> IF k \in RowsOf(reg, rat) THEN [reg[k] EXCEPT !.serving = FALSE]
                 ELSE reg[k]]

(* Mutant: a serving row counts as camped before its identity is read.     *)
CampsAlways(reg, key) == TRUE
Camps(reg, key) == reg[key].ever \/ reg[key].pass.cid # 0

ServingChanged(rat, eventKey, isServing) ==
  LET key     == Target(rat, eventKey)
      arrived == Arrive(registry, rat, key)
  IN  /\ key # NullKey
      /\ registry' =
           IF isServing
           THEN [ClearServing(arrived, rat) EXCEPT ![key] =
                   [@ EXCEPT !.serving = TRUE, !.ever = Camps(arrived, key)]]
           ELSE [arrived EXCEPT ![key].serving = FALSE]
      /\ UNCHANGED <<pending, hint>>

PendingCids == {c \in Cids : pending[c].cid # 0}

(* A serving row without identity takes the pending passport if there is   *)
(* exactly one.                                                            *)
TakesPending(reg, key) ==
  /\ reg[key].pass.cid = 0 /\ reg[key].serving /\ key.freq # 0
  /\ Cardinality(PendingCids) = 1

(* Radio parameters; stamped when they carry the PCI or BSIC of the key.   *)
RadioParams(rat, eventKey, stamped) ==
  LET key     == Target(rat, eventKey)
      arrived == Arrive(registry, rat, key)
      applied == IF stamped /\ key.pci # 0 /\ ~(rat = "GSM" /\ key.freq = 0)
                 THEN [arrived EXCEPT ![key].rpci = key.pci] ELSE arrived
      only    == CHOOSE c \in PendingCids : TRUE
      joined  == IF TakesPending(applied, key)
                 THEN [applied EXCEPT ![key].pass = MergePassport(@, pending[only])]
                 ELSE applied
  IN  /\ key # NullKey
      /\ stamped => eventKey # NullKey
      /\ registry' = IF rat = "GSM" THEN RelocateGsmCid(joined, key, joined[key].pass.cid)
                     ELSE joined
      /\ pending' = IF TakesPending(applied, key) THEN ForgetPending(pending, only)
                    ELSE ForgetPending(pending, applied[key].pass.cid)
      /\ UNCHANGED hint

(* Mutant: an event without a key and without a serving row is not dropped. *)
ObserveAnyway(rat, eventKey) ==
  /\ registry' = Arrive(registry, rat, Target(rat, eventKey))
  /\ UNCHANGED <<pending, hint>>

(* Signal updates, UTRA and GERAN lists, L1 signals, carrier lists without *)
(* cells: only the row itself is touched.                                  *)
Observe(rat, eventKey) ==
  LET key == Target(rat, eventKey)
  IN  /\ key # NullKey
      /\ registry' = Arrive(registry, rat, key)
      /\ UNCHANGED <<pending, hint>>

-----------------------------------------------------------------------------
(* Neighbour lists, one neighbour at a time.  The loops look back at the   *)
(* row the list came in on and at nothing else, so a list is a run of      *)
(* these steps, except where it came in on EARFCN|0 and its first          *)
(* neighbour absorbs that row: the others then still copy its PLMN.        *)

(* PLMN of src onto a row that has none; plmn_soft is left as it is.       *)
InheritPlmn(reg, key, src) ==
  IF reg[key].pass.plmn = 0
  THEN [reg EXCEPT ![key] =
          [@ EXCEPT !.pass = [reg[key].pass EXCEPT !.plmn = src.plmn]]]
  ELSE reg

(* ML1 measurement of PCI on the serving carrier, with or without a CGI.   *)
LteMeasNeighbor(eventKey, pci, cgi) ==
  LET sk       == ServingKey(registry, "LTE")
      earfcn   == IF eventKey.freq # 0 THEN eventKey.freq ELSE sk.freq
      serving  == IF eventKey = NullKey THEN sk ELSE eventKey
      key      == KeyOf(earfcn, pci)
      arrived  == Touch(PromoteLteWeak(registry, key), key, "LTE")
      source   == IF arrived[serving].present THEN serving ELSE ServingKey(arrived, "LTE")
      inherits == IF source # NullKey /\ source.freq = earfcn
                  THEN InheritPlmn(arrived, key, arrived[source].pass) ELSE arrived
  IN  /\ earfcn # 0
      /\ registry' =
           IF cgi.cid # 0
           THEN ClaimEci([inherits EXCEPT ![key].pass = MergePassport(@, cgi)], key, cgi.cid)
           ELSE inherits
      /\ UNCHANGED <<pending, hint>>

NrMeasNeighbor(eventKey, pci, cgi) ==
  LET nrarfcn == IF eventKey.freq # 0 THEN eventKey.freq
                 ELSE ServingKey(registry, "NR").freq
      key     == KeyOf(nrarfcn, pci)
      arrived == Touch(registry, key, "NR")
  IN  /\ nrarfcn # 0
      /\ registry' = IF cgi.cid # 0
                     THEN [arrived EXCEPT ![key].pass = MergePassport(@, cgi)]
                     ELSE arrived
      /\ UNCHANGED <<pending, hint>>

(* SIB4: a PCI on the carrier of the row the list arrived for.             *)
SibIntraNeighbor(eventKey, pci) ==
  LET from    == Target("LTE", eventKey)
      arrived == Arrive(registry, "LTE", from)
      earfcn  == IF from.freq # 0 THEN from.freq ELSE ServingKey(arrived, "LTE").freq
      key     == KeyOf(earfcn, pci)
      listed  == Touch(PromoteLteWeak(arrived, key), key, "LTE")
  IN  /\ from # NullKey
      /\ registry' = IF earfcn = 0 THEN arrived
                     ELSE InheritPlmn(listed, key, arrived[from].pass)
      /\ UNCHANGED <<pending, hint>>

(* SIB5: a PCI on another carrier, without any identity.                   *)
SibInterNeighbor(eventKey, earfcn, pci) ==
  LET from    == Target("LTE", eventKey)
      arrived == Arrive(registry, "LTE", from)
      key     == KeyOf(earfcn, pci)
  IN  /\ from # NullKey
      /\ registry' = Touch(PromoteLteWeak(arrived, key), key, "LTE")
      /\ UNCHANGED <<pending, hint>>

(* GSM BA list: ARFCN|0 goes into ARFCN|BSIC when the BSIC is decoded.     *)
GsmNeighbor(arfcn, bsic) ==
  LET key     == KeyOf(arfcn, bsic)
      arrived == Touch(Absorb(registry, key, KeyOf(arfcn, 0)), key, "GSM")
  IN  /\ registry' = IF bsic # 0 THEN [arrived EXCEPT ![key].rpci = bsic] ELSE arrived
      /\ UNCHANGED <<pending, hint>>

WcdmaNeighbor(uarfcn, psc) ==
  /\ registry' = Touch(registry, KeyOf(uarfcn, psc), "WCDMA")
  /\ UNCHANGED <<pending, hint>>

(* DIAG event 500: the next SI-3 belongs to this ARFCN.                    *)
SetSurroundHint(arfcn) ==
  /\ hint' = [arfcn |-> arfcn, fresh |-> TRUE]
  /\ UNCHANGED <<registry, pending>>

-----------------------------------------------------------------------------
KeyedEvent ==
  \E in \in EventKeys :
    \/ \E b \in BOOLEAN : ServingChanged(in.rat, in.key, b)
    \/ \E b \in BOOLEAN : RadioParams(in.rat, in.key, b)
    \/ Observe(in.rat, in.key)

LteNeighborList ==
  /\ "LTE" \in Rats
  /\ \/ \E in \in CgiInputs :
          in.rat = "LTE" /\ LteMeasNeighbor(in.key, in.pci, in.pass)
     \/ \E in \in EventKeys, pci \in Pcis \cup {0} :
          in.rat = "LTE" /\ SibIntraNeighbor(in.key, pci)
     \/ \E in \in EventKeys, f \in Carriers["LTE"], pci \in Pcis \cup {0} :
          in.rat = "LTE" /\ SibInterNeighbor(in.key, f, pci)

OtherNeighborList ==
  \/ \E in \in CgiInputs : in.rat = "NR" /\ NrMeasNeighbor(in.key, in.pci, in.pass)
  \/ "GSM" \in Rats /\ \E f \in Carriers["GSM"], bsic \in Pcis \cup {0} : GsmNeighbor(f, bsic)
  \/ "WCDMA" \in Rats /\ \E f \in Carriers["WCDMA"], psc \in Pcis : WcdmaNeighbor(f, psc)
  \/ "GSM" \in Rats /\ \E f \in Carriers["GSM"] : SetSurroundHint(f)

Next ==
  \/ \E in \in PassportInputs : PassportEvent(in.rat, in.key, in.pass)
  \/ KeyedEvent
  \/ LteNeighborList
  \/ OtherNeighborList

Spec == Init /\ [][Next]_vars
=============================================================================
