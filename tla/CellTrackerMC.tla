---------------------------- MODULE CellTrackerMC ----------------------------
(***************************************************************************)
(* Small worlds for CellTracker.  A world is a set of real cells, each     *)
(* with its own key and identity (Truth), and the events that a radio      *)
(* hearing those cells may feed in.                                        *)
(***************************************************************************)
EXTENDS CellTrackerProps

Pass(c, t, p) == [cid |-> c, tac |-> t, plmn |-> p, soft |-> FALSE]
In(r, k, p) == [rat |-> r, key |-> k, pass |-> p]
Cgi(r, k, pci, p) == [rat |-> r, key |-> k, pci |-> pci, pass |-> p]
KeysOf(r, ks) == {[rat |-> r, key |-> k] : k \in ks}

LteCarrier == [r \in Rats |-> {1}]

-----------------------------------------------------------------------------
(* Two LTE cells of two operators on one carrier.                          *)

CellA == KeyOf(1, 1)
CellB == KeyOf(1, 2)
WeakKey == KeyOf(1, 0)
PassA == Pass(11, 21, 31)
PassB == Pass(12, 22, 32)

TwoCellTruth == (CellA :> PassA) @@ (CellB :> PassB)
LteKeys == KeysOf("LTE", {CellA, CellB, WeakKey, NullKey})

(* Every message carries what its own cell broadcasts: complete (SIB1,     *)
(* B0C2, CPSI), without an operator, or the operator alone (COPS, NAS).    *)
(* The PLMN search on EARFCN|0 hears either operator.                      *)
HonestPassports ==
  {In("LTE", CellA, PassA), In("LTE", CellB, PassB),
   In("LTE", CellA, Pass(11, 21, 0)), In("LTE", CellB, Pass(0, 0, 32)),
   In("LTE", WeakKey, Pass(0, 0, 31))}

HonestCgi == {Cgi("LTE", CellA, 2, NoPass), Cgi("LTE", NullKey, 1, NoPass), Cgi("LTE", CellA, 2, PassB)}

-----------------------------------------------------------------------------
(* Identities stamped on the wrong key (a CEREG or CPSI answer taken while *)
(* the modem moved on), complete and in part.                              *)

MisstampedPassports ==
  {In("LTE", k, p) : k \in {CellA, CellB}, p \in {PassA, PassB, Pass(11, 21, 0)}}
    \cup {In("LTE", WeakKey, p) : p \in {PassA, Pass(0, 0, 32)}}

-----------------------------------------------------------------------------
(* Identities that come without a key and wait for a serving row.          *)

OrphanPassports ==
  {In("LTE", NullKey, PassA), In("LTE", NullKey, PassB), In("LTE", NullKey, Pass(0, 22, 32)),
   In("LTE", CellA, PassB)}

ConfusedPassports == MisstampedPassports \cup OrphanPassports
OrphanCgi == {Cgi("LTE", CellA, 2, NoPass)}
OrphanKeys == KeysOf("LTE", {CellA, CellB, NullKey})

-----------------------------------------------------------------------------
(* GSM: a serving cell, a surround ARFCN and SI-3 identities without key;  *)
(* NR and WCDMA beside it, each on a carrier of its own.                   *)

NrCell == KeyOf(3, 5)
WcdmaCell == KeyOf(4, 5)
OtherKeys == KeysOf("GSM", {KeyOf(1, 5), KeyOf(1, 0), NullKey}) \cup KeysOf("NR", {NrCell})
OtherPassports ==
  {In("GSM", k, Pass(c, 21, 31)) : k \in {NullKey, KeyOf(1, 5)}, c \in {11, 12}}
    \cup {In("NR", NullKey, Pass(12, 21, 31)), In("WCDMA", NullKey, Pass(0, 22, 32))}
OtherCgi == {Cgi("NR", NrCell, 5, NoPass)}
OtherCarriers ==
  [r \in Rats |-> CASE r = "GSM" -> {1, 2} [] r = "NR" -> {3} [] OTHER -> {4}]

-----------------------------------------------------------------------------
(* The worlds are of the kinds that the theorems speak of.                 *)

ASSUME WorldsAssumption ==
  /\ CarriersApart
  /\ PassportInputs = HonestPassports => OnlyLteWaits /\ HonestInputs
  /\ PassportInputs = ConfusedPassports => OnlyLteWaits /\ WeakIsPassportOnly /\ BoundOnce
=============================================================================
