-------------------------- MODULE CellTrackerProps --------------------------
(***************************************************************************)
(* What the registry of CellTracker promises: the bind rules of            *)
(* docs/CELL_IDENTITY_MATCHING.md and of the comments in CellTracker.h.    *)
(***************************************************************************)
EXTENDS CellTracker, TLC

CONSTANT Truth  (* The identity each real cell broadcasts, by its key.     *)

Present(k) == registry[k].present
LteRows == RowsOf(registry, "LTE")
LtePciRows == {k \in LteRows : k.freq # 0 /\ k.pci # 0}

(* A row {0,0} never exists, whatever order events come in: an event that  *)
(* has neither a key nor a serving row to go to is held back or dropped.   *)
NoNullRow == ~Present(NullKey)

(* At every moment at most one row of a technology is the serving one,     *)
(* also after rows were promoted, absorbed or relocated.                   *)
OneServingPerRat ==
  \A k, j \in Key :
    /\ Present(k) /\ registry[k].serving
    /\ Present(j) /\ registry[j].serving
    /\ registry[k].rat = registry[j].rat
    => k = j

(* As long as every identity arrives under the full key of its own cell,   *)
(* or as a CGI measured for its PCI, a row EARFCN|PCI carries no identity  *)
(* or its own cell's, never that of a neighbour on the carrier, whatever   *)
(* is promoted, fanned out, measured or inherited.  (A passport on         *)
(* EARFCN|0 or without a key goes to the only or the serving row, whoever  *)
(* was meant: CellTracker.h:85-88, 379-382.)                               *)
IdentityIsOwn ==
  \A k \in LtePciRows : registry[k].pass.cid \in {0, Truth[k].cid}

(* TAC is as cell-specific as the identity: for the same messages no       *)
(* fan-out copies it.                                                      *)
TacIsOwn ==
  \A k \in LtePciRows : registry[k].pass.tac \in {0, Truth[k].tac}

(* One ECI, one physical key: no two LTE rows hold the same identity.      *)
EciUnique ==
  \A k, j \in LteRows :
    registry[k].pass.cid # 0 /\ registry[k].pass.cid = registry[j].pass.cid
    => k = j

(* EARFCN|0 rows hold neither identity nor TAC, whatever is absorbed into, *)
(* attached to or measured on the carrier.                                 *)
WeakRowHasNoIdentity ==
  \A k \in LteRows : k.freq # 0 /\ k.pci = 0
    => registry[k].pass.cid = 0 /\ registry[k].pass.tac = 0

(* A row counts as camped only if its identity was read: ever_serving does *)
(* not survive on, or spread to, a row without identity.                   *)
CampedIsIdentified ==
  \A k \in LteRows : registry[k].ever => registry[k].pass.cid # 0

(* A passport waits as pending only while no row holds its identity: once  *)
(* bound, it is not there to be bound a second time.                       *)
PendingIsUnbound ==
  \A c \in PendingCids, k \in LteRows : registry[k].pass.cid # c

(* A GSM row named after its identity {0,cid} is a last resort: it is gone *)
(* once a row with an ARFCN holds that identity.                           *)
CidRowIsLastResort ==
  \A k \in RowsOf(registry, "GSM") :
    k.freq # 0 /\ registry[k].pass.cid \in GsmCids
    => ~Present(KeyOf(0, registry[k].pass.cid))

(* A complete, confirmed identity is sticky: a row keeps it until its ECI  *)
(* is claimed for another row (which leaves the PLMN); no later passport,  *)
(* fan-out or absorbed row rewrites it.                                    *)
FullIsSticky ==
  [][\A k \in LtePciRows : Full(registry[k].pass) /\ ~registry[k].pass.soft =>
       \/ registry'[k].pass = registry[k].pass
       \/ registry'[k].pass = [registry[k].pass EXCEPT !.cid = 0, !.tac = 0]]_vars

(* A confirmed PLMN never falls back to a guess.                           *)
HardPlmnStaysHard ==
  [][\A k \in LtePciRows :
       registry[k].pass.plmn # 0 /\ ~registry[k].pass.soft
       => ~registry'[k].pass.soft]_vars

(* With no carrier number shared, a row keeps the technology it was made   *)
(* for: an event without key goes to a serving row of its own technology.  *)
RatIsStable ==
  [][\A k \in Key : Present(k) /\ registry'[k].present
       => registry'[k].rat = registry[k].rat]_vars

-----------------------------------------------------------------------------
(* What a property may suppose of the events.                              *)

Events(rat) == {in \in PassportInputs \cup CgiInputs \cup EventKeys : in.rat = rat}

(* The carrier numbers that the events of a technology name.               *)
CarriersOf(rat) == (Carriers[rat] \cup {in.key.freq : in \in Events(rat)}) \ {0}

(* No carrier number is used by two technologies, and an event names a     *)
(* carrier or no key at all.                                               *)
CarriersApart ==
  /\ \A r, s \in Rats : CarriersOf(r) \cap CarriersOf(s) # {} => r = s
  /\ \A r \in Rats : \A in \in Events(r) : in.key.freq = 0 => in.key = NullKey

(* The other technologies leave no passport pending: what they report      *)
(* without a key has no identity, or one that a bare GSM row is named by.  *)
OnlyLteWaits ==
  \A in \in PassportInputs : in.key = NullKey /\ in.rat # "LTE" /\ in.pass.cid # 0
    => in.rat = "GSM" /\ in.pass.cid \in GsmCids

(* EARFCN|0 is named by passports only, and no CGI is read of a PCI 0; no  *)
(* identity arrives both as a CGI and without a key.                       *)
WeakIsPassportOnly ==
  /\ \A in \in EventKeys : in.rat = "LTE" /\ in.key.freq # 0 => in.key.pci # 0
  /\ \A in \in CgiInputs : in.rat = "LTE" /\ in.pass.cid # 0 => in.pci # 0

BoundOnce ==
  \A in \in PassportInputs, cgi \in CgiInputs :
    in.key = NullKey /\ in.pass.cid # 0 /\ cgi.rat = "LTE" => in.pass.cid # cgi.pass.cid

(* Every message carries what its own cell broadcasts: an identity comes   *)
(* with the physical key of its cell, or as a CGI with its PCI; no two     *)
(* cells broadcast the same.                                               *)
LteCells == {k \in Key : k.freq \in CarriersOf("LTE") /\ k.pci # 0}

HonestInputs ==
  /\ \A in \in PassportInputs : in.rat = "LTE" =>
       \/ in.pass.cid = 0 /\ in.pass.tac = 0
       \/ /\ in.key \in LteCells
          /\ in.pass.cid \in {0, Truth[in.key].cid}
          /\ in.pass.tac \in {0, Truth[in.key].tac}
  /\ \A in \in CgiInputs : in.rat = "LTE" /\ in.pass.cid # 0 =>
       \A f \in CarriersOf("LTE") : in.key.freq \in {0, f} =>
         /\ in.pci # 0
         /\ in.pass.cid = Truth[KeyOf(f, in.pci)].cid
         /\ in.pass.tac \in {0, Truth[KeyOf(f, in.pci)].tac}
  /\ \A k, j \in LteCells : Truth[k].cid # 0 /\ Truth[k].cid = Truth[j].cid => k = j
=============================================================================
