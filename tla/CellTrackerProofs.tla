-------------------------- MODULE CellTrackerProofs --------------------------
(***************************************************************************)
(* Proofs about CellTracker for every choice of technologies, carriers,    *)
(* PCIs, identities and events that satisfies ConstantsAssumption, in      *)
(* three parts.  Types.  What holds row by row: no row without a key,      *)
(* complete identities and confirmed operators that stay; and, where       *)
(* technologies share no carrier number, rows that keep their technology   *)
(* and one serving row of each.  Last, who owns which identity: an ECI on  *)
(* one row, bare EARFCN|0 rows, pending passports bound once, GSM rows     *)
(* named after their identity as a last resort; and, where every message   *)
(* carries what its own cell broadcasts, each row with its own cell's      *)
(* identity or none.                                                       *)
(***************************************************************************)
EXTENDS CellTrackerProps, FiniteSetTheorems, WellFoundedInduction, TLAPS

-----------------------------------------------------------------------------
(* Lookups.  The map is ordered by key, and the naturals are well ordered, *)
(* so a search that has a match has a first one.                           *)

(* A non-empty set of naturals has a least element.                        *)
LEMMA NatMinimum ==
  ASSUME NEW S \in SUBSET Nat, S # {}
  PROVE  \E x \in S : \A y \in S : x <= y
<1> DEFINE R == OpToRel(<, Nat)
<1>1. IsWellFoundedOn(R, Nat)
  BY NatLessThanWellFounded
<1>2. \A x, y \in Nat : y < x => <<y, x>> \in R
  BY DEF R, OpToRel
<1> HIDE DEF R
<1>3. PICK x \in S : \A y \in S : ~ (<<y, x>> \in R)
  BY <1>1, WFMin
<1>4. \A y \in S : x <= y
  <2> TAKE y \in S
  <2>1. ~ (y < x)
    BY <1>2, <1>3
  <2> QED BY <2>1
<1> QED BY <1>4

(* The fields of a key are naturals.                                       *)
LEMMA KeyFields ==
  ASSUME NEW k \in Key
  PROVE  /\ k.freq \in Nat /\ k.pci \in Nat
         /\ k.freq \in Freqs \cup {0} /\ k.pci \in Pcis \cup GsmCids \cup {0}
<1>1. /\ k.freq \in Freqs \cup {0}
      /\ k.pci \in Pcis \cup GsmCids \cup {0}
  BY DEF Key
<1>2. Freqs \cup {0} \subseteq Nat /\ Pcis \cup GsmCids \cup {0} \subseteq Nat
  BY ConstantsAssumption
<1>3. k.freq \in Nat /\ k.pci \in Nat
  BY <1>1, <1>2, Zenon
<1> QED BY <1>1, <1>3

(* The first key of a non-empty set is one of the set.                     *)
LEMMA FirstKeyIn ==
  ASSUME NEW S \in SUBSET Key, S # {}
  PROVE  FirstKey(S) \in S
<1> DEFINE fs == {k.freq : k \in S}
<1>1. PICK f \in fs : \A g \in fs : f <= g
  <2>1. fs \in SUBSET Nat /\ fs # {}
    BY KeyFields
  <2> HIDE DEF fs
  <2> QED BY <2>1, NatMinimum
<1> DEFINE row == {k \in S : k.freq = f}
           ps == {k.pci : k \in row}
<1>2. PICK p \in ps : \A q \in ps : p <= q
  <2>1. ps \in SUBSET Nat /\ ps # {}
    BY <1>1, KeyFields
  <2> HIDE DEF ps
  <2> QED BY <2>1, NatMinimum
<1>3. PICK k \in row : k.pci = p
  BY <1>2
<1>4. \A j \in S : KeyLeq(k, j)
  <2> TAKE j \in S
  <2>1. f <= j.freq /\ (j.freq = f => p <= j.pci)
    BY <1>1, <1>2
  <2>2. f \in Nat /\ j.freq \in Nat
    BY <1>1, KeyFields
  <2> QED BY <1>3, <2>1, <2>2 DEF KeyLeq
<1> QED BY <1>3, <1>4 DEF FirstKey

(* What the lookups return is a key; one of the rows searched if any.      *)
LEMMA FirstKeyType ==
  ASSUME NEW S \in SUBSET Key
  PROVE  /\ FirstKey(S) \in Key
         /\ FirstKey(S) = NullKey \/ FirstKey(S) \in S
<1>1. NullKey \in Key
  BY DEF NullKey, Key
<1> QED BY <1>1, FirstKeyIn DEF FirstKey

LEMMA ServingKeyType ==
  ASSUME NEW reg \in Registry, NEW rat
  PROVE  ServingKey(reg, rat) \in Key
BY FirstKeyType DEF ServingKey, RowsOf

LEMMA FindKeyByCidType ==
  ASSUME NEW reg \in Registry, NEW rat, NEW cid
  PROVE  FindKeyByCid(reg, rat, cid) \in Key
<1>1. NullKey \in Key /\ (cid \in GsmCids => KeyOf(0, cid) \in Key)
  BY DEF NullKey, Key, KeyOf
<1> QED BY <1>1, FirstKeyType DEF FindKeyByCid, RowsOf

-----------------------------------------------------------------------------
(* Every step on the map turns a registry into a registry.                 *)

LEMMA NoRowType == NoRow \in Row /\ NoPass \in Passport
BY DEF NoRow, Row, NoPass, Passport, AllRats

(* Merging two passports gives a passport.                                 *)
LEMMA MergeType ==
  ASSUME NEW dst \in Passport, NEW src \in Passport
  PROVE  MergePassport(dst, src) \in Passport
BY DEF MergePassport, Passport

LEMMA TouchType ==
  ASSUME NEW reg \in Registry, NEW key \in Key, NEW rat \in AllRats
  PROVE  Touch(reg, key, rat) \in Registry
<1>1. reg[key] \in Row /\ key.pci \in Pcis \cup GsmCids \cup {0}
  BY DEF Registry, Key
<1> DEFINE rpci == IF reg[key].present \/ (rat = "GSM" /\ key.freq = 0)
                   THEN reg[key].rpci ELSE key.pci
<1>2. [reg[key] EXCEPT !.present = TRUE, !.rat = rat, !.rpci = rpci] \in Row
  BY <1>1 DEF Row
<1> QED BY <1>2 DEF Touch, Registry

LEMMA AbsorbType ==
  ASSUME NEW reg \in Registry, NEW dst \in Key, NEW src \in Key
  PROVE  Absorb(reg, dst, src) \in Registry
<1>1. MergePassport(reg[dst].pass, reg[src].pass) \in Passport
  BY MergeType DEF Registry, Row
<1> QED BY <1>1, NoRowType DEF Absorb, Registry, Row

LEMMA PromoteType ==
  ASSUME NEW reg \in Registry, NEW key \in Key
  PROVE  PromoteLteWeak(reg, key) \in Registry
<1>1. KeyOf(key.freq, 0) \in Key
  BY DEF Key, KeyOf
<1> QED BY <1>1, AbsorbType DEF PromoteLteWeak

LEMMA RelocateType ==
  ASSUME NEW reg \in Registry, NEW key \in Key, NEW cid
  PROVE  RelocateGsmCid(reg, key, cid) \in Registry
<1>1. cid \in GsmCids => KeyOf(0, cid) \in Key
  BY DEF Key, KeyOf
<1> QED BY <1>1, AbsorbType DEF RelocateGsmCid

LEMMA FanoutPlmnType ==
  ASSUME NEW reg \in Registry, NEW freq, NEW p \in Passport
  PROVE  FanoutPlmn(reg, freq, p) \in Registry
<1>1. \A k \in Key : SoftPlmn(reg[k].pass, p) \in Passport
  BY DEF Registry, Row, Passport, SoftPlmn
<1> QED BY <1>1 DEF FanoutPlmn, Registry, Row

LEMMA ClaimEciType ==
  ASSUME NEW reg \in Registry, NEW owner, NEW cid
  PROVE  ClaimEci(reg, owner, cid) \in Registry
<1>1. \A k \in Key : WithoutIdentity(reg[k].pass) \in Passport
  BY DEF Registry, Row, Passport, WithoutIdentity
<1> QED BY <1>1 DEF ClaimEci, Registry, Row

LEMMA FanoutWeakType ==
  ASSUME NEW reg \in Registry, NEW key, NEW p \in Passport
  PROVE  FanoutWeak(reg, key, p) \in Registry
<1>1. \A k \in Key : MergePassport(reg[k].pass, p) \in Passport
  BY MergeType DEF Registry, Row
<1> QED BY <1>1, NoRowType DEF FanoutWeak, Registry, Row

LEMMA ClearServingType ==
  ASSUME NEW reg \in Registry, NEW rat
  PROVE  ClearServing(reg, rat) \in Registry
BY DEF ClearServing, Registry, Row

LEMMA InheritPlmnType ==
  ASSUME NEW reg \in Registry, NEW key \in Key, NEW src \in Passport
  PROVE  InheritPlmn(reg, key, src) \in Registry
<1>1. [reg[key].pass EXCEPT !.plmn = src.plmn] \in Passport
  BY DEF Registry, Row, Passport
<1> QED BY <1>1 DEF InheritPlmn, Registry, Row

LEMMA ArriveType ==
  ASSUME NEW reg \in Registry, NEW key \in Key, NEW rat \in AllRats
  PROVE  Arrive(reg, rat, key) \in Registry
BY PromoteType, TouchType DEF Arrive

(* Merging a passport into one row of the map.                             *)
LEMMA MergeIntoType ==
  ASSUME NEW reg \in Registry, NEW key \in Key, NEW p \in Passport
  PROVE  MergeInto(reg, key, p) \in Registry
<1>1. MergePassport(reg[key].pass, p) \in Passport
  BY MergeType DEF Registry, Row
<1> QED BY <1>1 DEF MergeInto, Registry, Row

LEMMA BindPassportType ==
  ASSUME NEW reg \in Registry, NEW key \in Key, NEW rat \in AllRats, NEW p \in Passport
  PROVE  BindPassport(reg, rat, key, p) \in Registry
BY ArriveType, MergeIntoType, ClaimEciType, FanoutPlmnType DEF BindPassport

-----------------------------------------------------------------------------
(* Every handler keeps the types.                                          *)

LEMMA ConstantTypes ==
  /\ Rats \subseteq AllRats
  /\ PassportInputs \subseteq [rat : Rats, key : Key, pass : Passport]
  /\ CgiInputs \subseteq [rat : Rats, key : Key, pci : Pcis \cup {0}, pass : Passport]
  /\ EventKeys \subseteq [rat : Rats, key : Key]
  /\ Carriers \in [Rats -> SUBSET Freqs]
BY ConstantsAssumption

LEMMA ForgetPendingType ==
  ASSUME NEW pend \in [Cids -> Passport], NEW cid
  PROVE  ForgetPending(pend, cid) \in [Cids -> Passport]
BY NoRowType DEF ForgetPending

LEMMA AttachKeyType ==
  ASSUME NEW reg \in Registry, NEW rat, NEW key \in Key, NEW p
  PROVE  AttachKey(reg, rat, key, p) \in Key
<1> DEFINE rows == CompatiblePciRows(reg, key.freq, p)
<1>1. rows \subseteq Key
  BY DEF CompatiblePciRows, RowsOf
<1>2. CASE rows = {}
  <2>1. Cardinality(rows) # 1
    BY <1>2, FS_EmptySet
  <2> QED BY <2>1 DEF AttachKey
<1>3. CASE rows # {}
  <2>1. (CHOOSE k \in rows : TRUE) \in rows
    BY <1>3
  <2> HIDE DEF rows
  <2>2. CASE AttachKey(reg, rat, key, p) = key
    BY <2>2
  <2>3. CASE AttachKey(reg, rat, key, p) = CHOOSE k \in rows : TRUE
    BY <2>1, <2>3, <1>1
  <2> QED BY <2>2, <2>3 DEF AttachKey, rows
<1> QED BY <1>2, <1>3

LEMMA BindableType ==
  ASSUME NEW rat, NEW key, NEW p \in Passport
  PROVE  Bindable(rat, key, p) \in Passport
BY DEF Bindable, WithoutIdentity, Passport

(* The key a passport without key is bound to is a key of the map.         *)
LEMMA ResolveType ==
  ASSUME TypeOK, NEW rat, NEW p \in Passport
  PROVE  ResolvePassportKey(rat, p) \in Key
<1>1. hint.arfcn \in Freqs \cup {0}
  BY DEF TypeOK
<1>2. SurroundRow \in Key
  <2>1. KeyOf(hint.arfcn, 0) \in Key
    BY <1>1 DEF KeyOf, Key
  <2> QED BY <2>1, FirstKeyType DEF SurroundRow, RowsOf
<1>3. NullKey \in Key /\ (p.cid \in GsmCids => KeyOf(0, p.cid) \in Key)
  BY DEF NullKey, KeyOf, Key
<1>4. ServingKey(registry, rat) \in Key /\ FindKeyByCid(registry, rat, p.cid) \in Key
  BY ServingKeyType, FindKeyByCidType DEF TypeOK
<1> QED BY <1>2, <1>3, <1>4 DEF ResolvePassportKey

LEMMA PassportEventType ==
  ASSUME TypeOK, NEW rat \in AllRats, NEW eventKey \in Key, NEW p \in Passport,
         PassportEvent(rat, eventKey, p)
  PROVE  TypeOK'
<1> DEFINE key == IF eventKey = NullKey THEN ResolvePassportKey(rat, p) ELSE eventKey
           moved == IF rat = "GSM" THEN RelocateGsmCid(registry, key, p.cid) ELSE registry
           bindTo == AttachKey(registry, rat, key, p)
           pass == Bindable(rat, bindTo, p)
<1>0. registry \in Registry /\ pending \in [Cids -> Passport]
  BY DEF TypeOK
<1>1. key \in Key
  BY ResolveType
<1>2. moved \in Registry
  BY <1>0, <1>1, RelocateType
<1>3. bindTo \in Key /\ pass \in Passport
  BY <1>0, <1>1, AttachKeyType, BindableType
<1>4. hint' \in [arfcn : Freqs \cup {0}, fresh : BOOLEAN]
  BY DEF PassportEvent, TypeOK
<1>5. registry' \in Registry
  <2>1. FanoutWeak(registry, key, p) \in Registry
    BY <1>0, FanoutWeakType
  <2>2. BindPassport(moved, rat, bindTo, pass) \in Registry
    BY <1>2, <1>3, BindPassportType
  <2> QED BY <1>0, <2>1, <2>2 DEF PassportEvent
<1>6. pending' \in [Cids -> Passport]
  <2>1. [pending EXCEPT ![p.cid] = p] \in [Cids -> Passport]
    BY <1>0
  <2>2. ForgetPending(pending, pass.cid) \in [Cids -> Passport]
    BY <1>0, ForgetPendingType
  <2> QED BY <1>0, <2>1, <2>2 DEF PassportEvent
<1> QED BY <1>4, <1>5, <1>6 DEF TypeOK

LEMMA TargetType ==
  ASSUME TypeOK, NEW rat, NEW eventKey \in Key
  PROVE  Target(rat, eventKey) \in Key
BY ServingKeyType DEF Target, TypeOK

LEMMA ServingChangedType ==
  ASSUME TypeOK, NEW rat \in AllRats, NEW eventKey \in Key, NEW b \in BOOLEAN,
         ServingChanged(rat, eventKey, b)
  PROVE  TypeOK'
<1> DEFINE key == Target(rat, eventKey)
           arrived == Arrive(registry, rat, key)
<1>1. key \in Key
  BY TargetType
<1>2. arrived \in Registry
  BY <1>1, ArriveType DEF TypeOK
<1>3. ClearServing(arrived, rat) \in Registry
  BY <1>2, ClearServingType
<1> HIDE DEF key, arrived
<1>4. [ClearServing(arrived, rat) EXCEPT ![key] =
         [@ EXCEPT !.serving = TRUE, !.ever = Camps(arrived, key)]] \in Registry
  <2>1. Camps(arrived, key) \in BOOLEAN
    BY <1>1, <1>2 DEF Camps, Registry, Row
  <2> QED BY <1>1, <1>3, <2>1 DEF Registry, Row
<1>5. [arrived EXCEPT ![key].serving = FALSE] \in Registry
  BY <1>1, <1>2 DEF Registry, Row
<1> QED BY <1>4, <1>5 DEF ServingChanged, TypeOK, key, arrived

LEMMA RadioParamsType ==
  ASSUME TypeOK, NEW rat \in AllRats, NEW eventKey \in Key, NEW b \in BOOLEAN,
         RadioParams(rat, eventKey, b)
  PROVE  TypeOK'
<1> DEFINE key == Target(rat, eventKey)
           arrived == Arrive(registry, rat, key)
           applied == IF b /\ key.pci # 0 /\ ~(rat = "GSM" /\ key.freq = 0)
                      THEN [arrived EXCEPT ![key].rpci = key.pci] ELSE arrived
           only == CHOOSE c \in PendingCids : TRUE
           joined == IF TakesPending(applied, key)
                     THEN [applied EXCEPT ![key].pass = MergePassport(@, pending[only])]
                     ELSE applied
<1>0. registry \in Registry /\ pending \in [Cids -> Passport]
  BY DEF TypeOK
<1>1. key \in Key /\ key.pci \in Pcis \cup GsmCids \cup {0}
  BY TargetType DEF Key
<1>2. arrived \in Registry
  BY <1>0, <1>1, ArriveType
<1>3. applied \in Registry
  <2> HIDE DEF key, arrived
  <2> QED BY <1>1, <1>2 DEF Registry, Row
<1>4. joined \in Registry
  <2> HIDE DEF applied, key
  <2>1. CASE TakesPending(applied, key)
    <3>1. PendingCids # {}
      BY <2>1, FS_EmptySet DEF TakesPending
    <3>2. pending[only] \in Passport
      BY <1>0, <3>1 DEF PendingCids
    <3> HIDE DEF only
    <3>3. MergePassport(applied[key].pass, pending[only]) \in Passport
      BY <1>1, <1>3, <3>2, MergeType DEF Registry, Row
    <3> QED BY <1>1, <1>3, <2>1, <3>3 DEF Registry, Row
  <2>2. CASE ~TakesPending(applied, key)
    BY <1>3, <2>2
  <2> QED BY <2>1, <2>2
<1>5. RelocateGsmCid(joined, key, joined[key].pass.cid) \in Registry
  BY <1>1, <1>4, RelocateType
<1>6. /\ ForgetPending(pending, only) \in [Cids -> Passport]
      /\ ForgetPending(pending, applied[key].pass.cid) \in [Cids -> Passport]
  BY <1>0, ForgetPendingType
<1> QED BY <1>4, <1>5, <1>6 DEF RadioParams, TypeOK

LEMMA ObserveType ==
  ASSUME TypeOK, NEW rat \in AllRats, NEW eventKey \in Key, Observe(rat, eventKey)
  PROVE  TypeOK'
BY TargetType, ArriveType DEF Observe, TypeOK

(* Steps shared by the neighbour lists: PCI of a carrier, made a row.      *)
LEMMA ListedType ==
  ASSUME NEW reg \in Registry, NEW rat \in AllRats,
         NEW f \in Freqs \cup {0}, NEW p \in Pcis \cup GsmCids \cup {0}
  PROVE  /\ KeyOf(f, p) \in Key
         /\ Touch(PromoteLteWeak(reg, KeyOf(f, p)), KeyOf(f, p), rat) \in Registry
         /\ Touch(reg, KeyOf(f, p), rat) \in Registry
<1>1. KeyOf(f, p) \in Key
  BY DEF KeyOf, Key
<1> QED BY <1>1, PromoteType, TouchType

(* A row merging a measured identity.                                      *)
LEMMA MergedRowType ==
  ASSUME NEW reg \in Registry, NEW key \in Key, NEW p \in Passport
  PROVE  [reg EXCEPT ![key].pass = MergePassport(@, p)] \in Registry
<1>1. MergePassport(reg[key].pass, p) \in Passport
  BY MergeType DEF Registry, Row
<1> QED BY <1>1, SMTT(40) DEF Registry, Row

LEMMA LteMeasNeighborType ==
  ASSUME TypeOK, NEW eventKey \in Key, NEW pci \in Pcis \cup {0}, NEW cgi \in Passport,
         LteMeasNeighbor(eventKey, pci, cgi)
  PROVE  TypeOK'
<1> DEFINE sk == ServingKey(registry, "LTE")
           earfcn == IF eventKey.freq # 0 THEN eventKey.freq ELSE sk.freq
           serving == IF eventKey = NullKey THEN sk ELSE eventKey
           key == KeyOf(earfcn, pci)
           arrived == Touch(PromoteLteWeak(registry, key), key, "LTE")
           source == IF arrived[serving].present THEN serving ELSE ServingKey(arrived, "LTE")
           inherits == IF source # NullKey /\ source.freq = earfcn
                       THEN InheritPlmn(arrived, key, arrived[source].pass) ELSE arrived
<1>1. sk \in Key
  BY ServingKeyType DEF TypeOK
<1>2. earfcn \in Freqs \cup {0} /\ serving \in Key
  BY <1>1 DEF Key
<1>3. key \in Key /\ arrived \in Registry
  <2> HIDE DEF earfcn
  <2> QED BY <1>2, ListedType DEF TypeOK, AllRats
<1> HIDE DEF sk, earfcn, serving, key, arrived
<1>4. source \in Key
  BY <1>2, <1>3, ServingKeyType
<1>5. inherits \in Registry
  <2>1. arrived[source].pass \in Passport
    BY <1>3, <1>4 DEF Registry, Row
  <2> QED BY <1>3, <2>1, InheritPlmnType
<1> HIDE DEF source, inherits
<1>6. ClaimEci([inherits EXCEPT ![key].pass = MergePassport(@, cgi)], key, cgi.cid)
        \in Registry
  BY <1>3, <1>5, MergedRowType, ClaimEciType
<1> QED BY <1>5, <1>6
        DEF LteMeasNeighbor, TypeOK, sk, earfcn, serving, key, arrived, source, inherits

LEMMA NrMeasNeighborType ==
  ASSUME TypeOK, NEW eventKey \in Key, NEW pci \in Pcis \cup {0}, NEW cgi \in Passport,
         NrMeasNeighbor(eventKey, pci, cgi)
  PROVE  TypeOK'
<1> DEFINE nrarfcn == IF eventKey.freq # 0 THEN eventKey.freq
                      ELSE ServingKey(registry, "NR").freq
           key == KeyOf(nrarfcn, pci)
           arrived == Touch(registry, key, "NR")
<1>1. nrarfcn \in Freqs \cup {0}
  BY ServingKeyType DEF Key, TypeOK
<1>2. key \in Key /\ arrived \in Registry
  <2> HIDE DEF nrarfcn
  <2> QED BY <1>1, ListedType DEF TypeOK, AllRats
<1> HIDE DEF nrarfcn, key, arrived
<1>3. [arrived EXCEPT ![key].pass = MergePassport(@, cgi)] \in Registry
  BY <1>2, MergedRowType
<1> QED BY <1>2, <1>3 DEF NrMeasNeighbor, TypeOK, nrarfcn, key, arrived

LEMMA SibIntraNeighborType ==
  ASSUME TypeOK, NEW eventKey \in Key, NEW pci \in Pcis \cup {0},
         SibIntraNeighbor(eventKey, pci)
  PROVE  TypeOK'
<1> DEFINE from == Target("LTE", eventKey)
           arrived == Arrive(registry, "LTE", from)
           earfcn == IF from.freq # 0 THEN from.freq ELSE ServingKey(arrived, "LTE").freq
           key == KeyOf(earfcn, pci)
           listed == Touch(PromoteLteWeak(arrived, key), key, "LTE")
<1>1. from \in Key /\ arrived \in Registry
  <2>1. from \in Key
    BY TargetType
  <2> QED BY <2>1, ArriveType DEF TypeOK, AllRats
<1> HIDE DEF from, arrived
<1>2. earfcn \in Freqs \cup {0}
  <2>1. ServingKey(arrived, "LTE") \in Key
    BY <1>1, ServingKeyType
  <2> QED BY <1>1, <2>1 DEF Key
<1> HIDE DEF earfcn
<1>3. key \in Key /\ listed \in Registry
  BY <1>1, <1>2, ListedType DEF AllRats
<1> HIDE DEF key, listed
<1>4. InheritPlmn(listed, key, arrived[from].pass) \in Registry
  <2>1. arrived[from].pass \in Passport
    BY <1>1 DEF Registry, Row
  <2> QED BY <1>3, <2>1, InheritPlmnType
<1> QED BY <1>1, <1>4 DEF SibIntraNeighbor, TypeOK, from, arrived, earfcn, key, listed

LEMMA SibInterNeighborType ==
  ASSUME TypeOK, NEW eventKey \in Key, NEW f \in Freqs, NEW pci \in Pcis \cup {0},
         SibInterNeighbor(eventKey, f, pci)
  PROVE  TypeOK'
<1> DEFINE from == Target("LTE", eventKey)
           arrived == Arrive(registry, "LTE", from)
<1>1. arrived \in Registry
  BY TargetType, ArriveType DEF TypeOK, AllRats
<1> HIDE DEF arrived
<1>2. Touch(PromoteLteWeak(arrived, KeyOf(f, pci)), KeyOf(f, pci), "LTE") \in Registry
  BY <1>1, ListedType DEF AllRats
<1> QED BY <1>2 DEF SibInterNeighbor, TypeOK, arrived

LEMMA GsmNeighborType ==
  ASSUME TypeOK, NEW f \in Freqs, NEW bsic \in Pcis \cup {0}, GsmNeighbor(f, bsic)
  PROVE  TypeOK'
<1> DEFINE key == KeyOf(f, bsic)
           arrived == Touch(Absorb(registry, key, KeyOf(f, 0)), key, "GSM")
<1>1. key \in Key /\ KeyOf(f, 0) \in Key
  BY DEF KeyOf, Key
<1>2. arrived \in Registry
  <2> HIDE DEF key
  <2> QED BY <1>1, AbsorbType, TouchType DEF TypeOK, AllRats
<1> HIDE DEF key, arrived
<1>3. bsic # 0 => [arrived EXCEPT ![key].rpci = bsic] \in Registry
  BY <1>1, <1>2 DEF Registry, Row
<1> QED BY <1>2, <1>3 DEF GsmNeighbor, TypeOK, key, arrived

-----------------------------------------------------------------------------
(* The registry, the pending passports and the surround hint keep their    *)
(* types whatever events arrive in whatever order: no handler creates a    *)
(* key out of its ranges, and every search of the map returns one of them. *)

LEMMA NextType == TypeOK /\ [Next]_vars => TypeOK'
<1> SUFFICES ASSUME TypeOK, [Next]_vars
             PROVE  TypeOK'
  OBVIOUS
<1> USE ConstantTypes
<1>1. CASE \E in \in PassportInputs : PassportEvent(in.rat, in.key, in.pass)
  BY <1>1, PassportEventType
<1>2. CASE KeyedEvent
  <2>1. PICK in \in EventKeys :
          \/ \E b \in BOOLEAN : ServingChanged(in.rat, in.key, b)
          \/ \E b \in BOOLEAN : RadioParams(in.rat, in.key, b)
          \/ Observe(in.rat, in.key)
    BY <1>2 DEF KeyedEvent
  <2>2. in.rat \in AllRats /\ in.key \in Key
    OBVIOUS
  <2> QED BY <2>1, <2>2, ServingChangedType, RadioParamsType, ObserveType
<1>3. CASE LteNeighborList
  <2>1. CASE \E in \in CgiInputs : LteMeasNeighbor(in.key, in.pci, in.pass)
    BY <2>1, LteMeasNeighborType
  <2>2. CASE \E in \in EventKeys, pci \in Pcis \cup {0} : SibIntraNeighbor(in.key, pci)
    BY <2>2, SibIntraNeighborType
  <2>3. CASE /\ "LTE" \in Rats
             /\ \E in \in EventKeys, f \in Carriers["LTE"], pci \in Pcis \cup {0} :
                  SibInterNeighbor(in.key, f, pci)
    BY <2>3, SibInterNeighborType
  <2> QED BY <1>3, <2>1, <2>2, <2>3 DEF LteNeighborList
<1>4. CASE OtherNeighborList
  <2>1. CASE \E in \in CgiInputs : NrMeasNeighbor(in.key, in.pci, in.pass)
    BY <2>1, NrMeasNeighborType
  <2>2. CASE \E f \in Freqs, bsic \in Pcis \cup {0} : GsmNeighbor(f, bsic)
    BY <2>2, GsmNeighborType
  <2>3. CASE \E f \in Freqs, psc \in Pcis : WcdmaNeighbor(f, psc)
    <3>1. PICK f \in Freqs, psc \in Pcis : WcdmaNeighbor(f, psc)
      BY <2>3
    <3>2. Touch(registry, KeyOf(f, psc), "WCDMA") \in Registry
      BY ListedType DEF TypeOK, AllRats
    <3> QED BY <3>1, <3>2 DEF WcdmaNeighbor, TypeOK
  <2>4. CASE \E f \in Freqs : SetSurroundHint(f)
    BY <2>4 DEF SetSurroundHint, TypeOK
  <2> QED BY <1>4, <2>1, <2>2, <2>3, <2>4 DEF OtherNeighborList
<1>5. CASE UNCHANGED vars
  BY <1>5 DEF vars, TypeOK
<1> QED BY <1>1, <1>2, <1>3, <1>4, <1>5 DEF Next

(* Type correctness of the registry in every reachable state.              *)
THEOREM TypeCorrect == Spec => []TypeOK
<1>1. Init => TypeOK
  BY NoRowType DEF Init, TypeOK, Registry
<1> QED BY <1>1, NextType, PTL DEF Spec

-----------------------------------------------------------------------------
(* What the steps on the map do to each row.                               *)

LEMMA TouchAt ==
  ASSUME NEW reg \in Registry, NEW key \in Key, NEW rat
  PROVE  /\ \A k \in Key : k # key => Touch(reg, key, rat)[k] = reg[k]
         /\ Touch(reg, key, rat)[key].present
         /\ Touch(reg, key, rat)[key].rat = rat
         /\ Touch(reg, key, rat)[key].serving = reg[key].serving
         /\ Touch(reg, key, rat)[key].ever = reg[key].ever
         /\ Touch(reg, key, rat)[key].pass = reg[key].pass
<1>1. reg[key] \in Row
  BY DEF Registry
<1> QED BY <1>1 DEF Touch, Registry, Row

LEMMA AbsorbAt ==
  ASSUME NEW reg \in Registry, NEW dst \in Key, NEW src \in Key,
         dst # src, reg[src].present
  PROVE  /\ \A k \in Key : k # dst /\ k # src => Absorb(reg, dst, src)[k] = reg[k]
         /\ Absorb(reg, dst, src)[src] = NoRow
         /\ Absorb(reg, dst, src)[dst].present
         /\ Absorb(reg, dst, src)[dst].rat = reg[src].rat
         /\ Absorb(reg, dst, src)[dst].serving = (reg[dst].serving \/ reg[src].serving)
         /\ Absorb(reg, dst, src)[dst].ever = (reg[dst].ever \/ reg[src].ever)
         /\ Absorb(reg, dst, src)[dst].pass = MergePassport(reg[dst].pass, reg[src].pass)
BY DEF Absorb, Registry

LEMMA AbsorbNothing ==
  ASSUME NEW reg, NEW dst, NEW src, dst = src \/ ~reg[src].present
  PROVE  Absorb(reg, dst, src) = reg
BY DEF Absorb

LEMMA MergeIntoAt ==
  ASSUME NEW reg \in Registry, NEW key \in Key, NEW p
  PROVE  /\ \A k \in Key : k # key => MergeInto(reg, key, p)[k] = reg[k]
         /\ MergeInto(reg, key, p)[key].present = reg[key].present
         /\ MergeInto(reg, key, p)[key].rat = reg[key].rat
         /\ MergeInto(reg, key, p)[key].serving = reg[key].serving
         /\ MergeInto(reg, key, p)[key].pass = MergePassport(reg[key].pass, p)
         /\ MergeInto(reg, key, p)[key].ever =
              (reg[key].ever \/ (reg[key].serving /\ MergePassport(reg[key].pass, p).cid # 0))
<1>1. reg[key] \in Row
  BY DEF Registry
<1> QED BY <1>1 DEF MergeInto, Registry, Row

LEMMA InheritPlmnAt ==
  ASSUME NEW reg \in Registry, NEW key \in Key, NEW src
  PROVE  /\ \A k \in Key : k # key => InheritPlmn(reg, key, src)[k] = reg[k]
         /\ InheritPlmn(reg, key, src)[key].present = reg[key].present
         /\ InheritPlmn(reg, key, src)[key].rat = reg[key].rat
         /\ InheritPlmn(reg, key, src)[key].serving = reg[key].serving
         /\ InheritPlmn(reg, key, src)[key].ever = reg[key].ever
         /\ InheritPlmn(reg, key, src)[key].pass.cid = reg[key].pass.cid
         /\ InheritPlmn(reg, key, src)[key].pass.tac = reg[key].pass.tac
         /\ InheritPlmn(reg, key, src)[key].pass.soft = reg[key].pass.soft
         /\ reg[key].pass.plmn # 0 => InheritPlmn(reg, key, src) = reg
<1>1. reg[key] \in Row /\ reg[key].pass \in Passport
  BY DEF Registry, Row
<1> QED BY <1>1 DEF InheritPlmn, Registry, Row, Passport

(* Merging a measured or a pending identity into one row.                  *)
LEMMA MergeRowAt ==
  ASSUME NEW reg \in Registry, NEW key \in Key, NEW p
  PROVE  LET to == [reg EXCEPT ![key].pass = MergePassport(@, p)] IN
         /\ \A k \in Key : k # key => to[k] = reg[k]
         /\ to[key].present = reg[key].present
         /\ to[key].rat = reg[key].rat
         /\ to[key].serving = reg[key].serving
         /\ to[key].ever = reg[key].ever
         /\ to[key].pass = MergePassport(reg[key].pass, p)
<1>1. reg[key] \in Row
  BY DEF Registry
<1> QED BY <1>1 DEF Registry, Row

(* The rows that claims, fan-outs and a change of the serving row touch.   *)
LEMMA ClaimEciAt ==
  ASSUME NEW reg \in Registry, NEW owner, NEW cid, NEW k \in Key
  PROVE  /\ ClaimEci(reg, owner, cid)[k].present = reg[k].present
         /\ ClaimEci(reg, owner, cid)[k].rat = reg[k].rat
         /\ ClaimEci(reg, owner, cid)[k].serving = reg[k].serving
         /\ ClaimEci(reg, owner, cid)[k].ever = reg[k].ever
         /\ \/ ClaimEci(reg, owner, cid)[k] = reg[k]
            \/ /\ k \in RowsOf(reg, "LTE") /\ k # owner
               /\ cid # 0 /\ reg[k].pass.cid = cid
               /\ ClaimEci(reg, owner, cid)[k].pass = WithoutIdentity(reg[k].pass)
         /\ k \in RowsOf(reg, "LTE") /\ k # owner /\ cid # 0
              => ClaimEci(reg, owner, cid)[k].pass.cid # cid
<1>1. reg[k] \in Row /\ reg[k].pass \in Passport
  BY DEF Registry, Row
<1> QED BY <1>1 DEF ClaimEci, Registry, Row, Passport, WithoutIdentity

LEMMA FanoutPlmnAt ==
  ASSUME NEW reg \in Registry, NEW freq, NEW p \in Passport, NEW k \in Key
  PROVE  /\ FanoutPlmn(reg, freq, p)[k].present = reg[k].present
         /\ FanoutPlmn(reg, freq, p)[k].rat = reg[k].rat
         /\ FanoutPlmn(reg, freq, p)[k].serving = reg[k].serving
         /\ FanoutPlmn(reg, freq, p)[k].ever = reg[k].ever
         /\ FanoutPlmn(reg, freq, p)[k].pass.cid = reg[k].pass.cid
         /\ FanoutPlmn(reg, freq, p)[k].pass.tac = reg[k].pass.tac
         /\ \/ FanoutPlmn(reg, freq, p)[k] = reg[k]
            \/ k \in RowsOf(reg, "LTE") /\ reg[k].pass.plmn = 0
<1>1. reg[k] \in Row /\ reg[k].pass \in Passport
  BY DEF Registry, Row
<1>2. CASE freq = 0 \/ p.plmn = 0
  BY <1>2 DEF FanoutPlmn
<1>3. CASE ~(freq = 0 \/ p.plmn = 0)
  <2>1. FanoutPlmn(reg, freq, p)[k] =
          IF k \in RowsOf(reg, "LTE") /\ k.freq = freq /\ k.pci # 0 /\ reg[k].pass.plmn = 0
          THEN [reg[k] EXCEPT !.pass = SoftPlmn(@, p)] ELSE reg[k]
    BY <1>3 DEF FanoutPlmn
  <2> QED BY <1>1, <2>1 DEF Row, Passport, SoftPlmn
<1> QED BY <1>2, <1>3

LEMMA ClearServingAt ==
  ASSUME NEW reg \in Registry, NEW rat, NEW k \in Key
  PROVE  /\ ClearServing(reg, rat)[k].present = reg[k].present
         /\ ClearServing(reg, rat)[k].rat = reg[k].rat
         /\ ClearServing(reg, rat)[k].ever = reg[k].ever
         /\ ClearServing(reg, rat)[k].pass = reg[k].pass
         /\ ClearServing(reg, rat)[k].serving => reg[k].serving /\ k \notin RowsOf(reg, rat)
         /\ k \notin RowsOf(reg, rat) => ClearServing(reg, rat)[k] = reg[k]
<1>1. reg[k] \in Row
  BY DEF Registry
<1> QED BY <1>1 DEF ClearServing, Registry, Row

-----------------------------------------------------------------------------
(* What every step on the map keeps.  A complete confirmed passport stays  *)
(* as it is, or loses its identity to a claim; a confirmed operator stays  *)
(* confirmed; no row appears under the null key.                           *)

KeepsPass(p, q) ==
  /\ Full(p) /\ ~p.soft => q = p
  /\ p.plmn # 0 /\ ~p.soft => q.plmn # 0 /\ ~q.soft

StripsPass(p, q) ==
  /\ Full(p) /\ ~p.soft => q = p \/ q = WithoutIdentity(p)
  /\ p.plmn # 0 /\ ~p.soft => q.plmn # 0 /\ ~q.soft

PhysicalKeys == {k \in Key : k.freq # 0 /\ k.pci # 0}

Keeps(reg, to) ==
  /\ \A k \in PhysicalKeys : KeepsPass(reg[k].pass, to[k].pass)
  /\ ~reg[NullKey].present => ~to[NullKey].present

Strips(reg, to) ==
  /\ \A k \in PhysicalKeys : StripsPass(reg[k].pass, to[k].pass)
  /\ ~reg[NullKey].present => ~to[NullKey].present

LEMMA NullKeyType == NullKey \in Key /\ NullKey.freq = 0 /\ NullKey.pci = 0
BY DEF NullKey, Key

LEMMA KeepsItself ==
  ASSUME NEW reg
  PROVE  Keeps(reg, reg)
BY DEF Keeps, KeepsPass

LEMMA KeepsStrips ==
  ASSUME NEW reg, NEW to, Keeps(reg, to)
  PROVE  Strips(reg, to)
BY DEF Keeps, Strips, KeepsPass, StripsPass

LEMMA KeepsTrans ==
  ASSUME NEW reg, NEW mid, NEW to, Keeps(reg, mid), Keeps(mid, to)
  PROVE  Keeps(reg, to)
BY DEF Keeps, KeepsPass

(* A merge into a complete confirmed passport changes nothing.             *)
LEMMA MergeKeeps ==
  ASSUME NEW p \in Passport, NEW s
  PROVE  KeepsPass(p, MergePassport(p, s))
<1>1. p.soft \in BOOLEAN
  BY DEF Passport
<1>2. CASE Full(p) /\ ~p.soft
  <2>1. /\ MergePassport(p, s) = [cid |-> p.cid, tac |-> p.tac, plmn |-> p.plmn, soft |-> p.soft]
        /\ p.plmn # 0
    BY <1>2 DEF MergePassport, Full
  <2>2. p = [cid |-> p.cid, tac |-> p.tac, plmn |-> p.plmn, soft |-> p.soft]
    BY DEF Passport
  <2> QED BY <1>2, <2>1, <2>2 DEF KeepsPass
<1>3. CASE ~(Full(p) /\ ~p.soft)
  <2>1. p.plmn # 0 /\ ~p.soft => MergePassport(p, s).plmn # 0 /\ ~MergePassport(p, s).soft
    BY <1>1 DEF MergePassport
  <2> QED BY <1>3, <2>1 DEF KeepsPass
<1> QED BY <1>2, <1>3

LEMMA TouchKeeps ==
  ASSUME NEW reg \in Registry, NEW key \in Key, key # NullKey, NEW rat
  PROVE  Keeps(reg, Touch(reg, key, rat))
<1>1. \A k \in Key : Touch(reg, key, rat)[k].pass = reg[k].pass
  BY TouchAt
<1> QED BY <1>1, TouchAt, NullKeyType DEF Keeps, KeepsPass, PhysicalKeys

(* A row is absorbed only where it is no physical row itself.              *)
LEMMA AbsorbKeeps ==
  ASSUME NEW reg \in Registry, NEW dst \in Key, NEW src \in Key,
         dst # NullKey, src \notin PhysicalKeys
  PROVE  Keeps(reg, Absorb(reg, dst, src))
<1>1. CASE dst = src \/ ~reg[src].present
  BY <1>1, AbsorbNothing, KeepsItself
<1>2. CASE ~(dst = src \/ ~reg[src].present)
  <2> DEFINE to == Absorb(reg, dst, src)
  <2>1. ASSUME NEW k \in PhysicalKeys
        PROVE  KeepsPass(reg[k].pass, to[k].pass)
    <3>1. k \in Key /\ k # src /\ reg[k].pass \in Passport
      BY DEF PhysicalKeys, Registry, Row
    <3>2. to[k].pass = reg[k].pass \/ to[k].pass = MergePassport(reg[k].pass, reg[src].pass)
      BY <1>2, <3>1, AbsorbAt
    <3> QED BY <3>1, <3>2, MergeKeeps DEF KeepsPass
  <2>2. ~reg[NullKey].present => ~to[NullKey].present
    BY <1>2, AbsorbAt, NullKeyType DEF NoRow
  <2> QED BY <2>1, <2>2 DEF Keeps
<1> QED BY <1>1, <1>2

LEMMA PromoteKeeps ==
  ASSUME NEW reg \in Registry, NEW key \in Key
  PROVE  Keeps(reg, PromoteLteWeak(reg, key))
<1>1. KeyOf(key.freq, 0) \in Key /\ KeyOf(key.freq, 0) \notin PhysicalKeys
  BY DEF Key, KeyOf, PhysicalKeys
<1>2. key.freq # 0 => key # NullKey
  BY NullKeyType
<1> QED BY <1>1, <1>2, AbsorbKeeps, KeepsItself DEF PromoteLteWeak

LEMMA RelocateKeeps ==
  ASSUME NEW reg \in Registry, NEW key \in Key, NEW cid
  PROVE  Keeps(reg, RelocateGsmCid(reg, key, cid))
<1>1. cid \in GsmCids => KeyOf(0, cid) \in Key /\ KeyOf(0, cid) \notin PhysicalKeys
  BY DEF Key, KeyOf, PhysicalKeys
<1>2. key.freq # 0 => key # NullKey
  BY NullKeyType
<1> QED BY <1>1, <1>2, AbsorbKeeps, KeepsItself DEF RelocateGsmCid

LEMMA ArriveKeeps ==
  ASSUME NEW reg \in Registry, NEW rat \in AllRats, NEW key \in Key, key # NullKey
  PROVE  Keeps(reg, Arrive(reg, rat, key))
<1>1. CASE rat = "LTE"
  <2>1. PromoteLteWeak(reg, key) \in Registry /\ Keeps(reg, PromoteLteWeak(reg, key))
    BY PromoteType, PromoteKeeps
  <2>2. Keeps(PromoteLteWeak(reg, key), Touch(PromoteLteWeak(reg, key), key, rat))
    BY <2>1, TouchKeeps
  <2> QED BY <1>1, <2>1, <2>2, KeepsTrans DEF Arrive
<1>2. CASE rat # "LTE"
  BY <1>2, TouchKeeps DEF Arrive
<1> QED BY <1>1, <1>2

(* Steps that change nothing but passports, of which they keep the rest.   *)
LEMMA MergeIntoKeeps ==
  ASSUME NEW reg \in Registry, NEW key \in Key, NEW p
  PROVE  Keeps(reg, MergeInto(reg, key, p))
<1>1. \A k \in Key : reg[k].pass \in Passport
  BY DEF Registry, Row
<1>2. \A k \in Key : KeepsPass(reg[k].pass, MergeInto(reg, key, p)[k].pass)
  BY <1>1, MergeIntoAt, MergeKeeps DEF KeepsPass
<1> QED BY <1>2, MergeIntoAt, NullKeyType DEF Keeps, PhysicalKeys

LEMMA MergeRowKeeps ==
  ASSUME NEW reg \in Registry, NEW key \in Key, NEW p
  PROVE  Keeps(reg, [reg EXCEPT ![key].pass = MergePassport(@, p)])
<1> DEFINE to == [reg EXCEPT ![key].pass = MergePassport(@, p)]
<1>1. \A k \in Key : reg[k].pass \in Passport
  BY DEF Registry, Row
<1>2. /\ \A k \in Key : k # key => to[k] = reg[k]
      /\ to[key].present = reg[key].present
      /\ to[key].pass = MergePassport(reg[key].pass, p)
  BY MergeRowAt
<1> HIDE DEF to
<1>3. \A k \in Key : KeepsPass(reg[k].pass, to[k].pass)
  BY <1>1, <1>2, MergeKeeps DEF KeepsPass
<1>4. Keeps(reg, to)
  BY <1>2, <1>3, NullKeyType DEF Keeps, PhysicalKeys
<1> QED BY <1>4 DEF to

LEMMA InheritKeeps ==
  ASSUME NEW reg \in Registry, NEW key \in Key, NEW src
  PROVE  Keeps(reg, InheritPlmn(reg, key, src))
<1>1. CASE reg[key].pass.plmn # 0
  BY <1>1, InheritPlmnAt, KeepsItself
<1>2. CASE reg[key].pass.plmn = 0
  BY <1>2, InheritPlmnAt, NullKeyType DEF Keeps, KeepsPass, PhysicalKeys, Full
<1> QED BY <1>1, <1>2

LEMMA ClearServingKeeps ==
  ASSUME NEW reg \in Registry, NEW rat
  PROVE  Keeps(reg, ClearServing(reg, rat))
<1>1. \A k \in Key : ClearServing(reg, rat)[k].pass = reg[k].pass
  BY ClearServingAt
<1> QED BY <1>1, ClearServingAt, NullKeyType DEF Keeps, KeepsPass, PhysicalKeys

(* A claim strips rows; a fan-out afterwards leaves what it stripped.      *)
LEMMA ClaimStrips ==
  ASSUME NEW reg, NEW mid \in Registry, Keeps(reg, mid), NEW owner, NEW cid
  PROVE  Strips(reg, ClaimEci(mid, owner, cid))
<1> DEFINE to == ClaimEci(mid, owner, cid)
<1>1. ASSUME NEW k \in PhysicalKeys
      PROVE  StripsPass(reg[k].pass, to[k].pass)
  <2>1. k \in Key /\ mid[k].pass \in Passport
    BY DEF PhysicalKeys, Registry, Row
  <2>2. to[k].pass = mid[k].pass \/ to[k].pass = WithoutIdentity(mid[k].pass)
    BY <2>1, ClaimEciAt
  <2>3. /\ WithoutIdentity(mid[k].pass).plmn = mid[k].pass.plmn
        /\ WithoutIdentity(mid[k].pass).soft = mid[k].pass.soft
    BY <2>1 DEF WithoutIdentity, Passport
  <2>4. KeepsPass(reg[k].pass, mid[k].pass)
    BY DEF Keeps
  <2> QED BY <2>2, <2>3, <2>4 DEF KeepsPass, StripsPass
<1>2. ~reg[NullKey].present => ~to[NullKey].present
  BY ClaimEciAt, NullKeyType DEF Keeps
<1> QED BY <1>1, <1>2 DEF Strips

LEMMA FanoutStrips ==
  ASSUME NEW reg, NEW mid \in Registry, Strips(reg, mid), NEW freq, NEW p \in Passport
  PROVE  Strips(reg, FanoutPlmn(mid, freq, p))
<1> DEFINE to == FanoutPlmn(mid, freq, p)
<1>1. ASSUME NEW k \in PhysicalKeys
      PROVE  StripsPass(reg[k].pass, to[k].pass)
  <2>1. k \in Key
    BY DEF PhysicalKeys
  <2>2. to[k] = mid[k] \/ mid[k].pass.plmn = 0
    BY <2>1, FanoutPlmnAt
  <2>3. StripsPass(reg[k].pass, mid[k].pass)
    BY DEF Strips
  <2>4. Full(reg[k].pass) => reg[k].pass.plmn # 0
    BY DEF Full
  <2> QED BY <2>2, <2>3, <2>4 DEF StripsPass
<1>2. ~reg[NullKey].present => ~to[NullKey].present
  BY FanoutPlmnAt, NullKeyType DEF Strips
<1> QED BY <1>1, <1>2 DEF Strips

LEMMA BindStrips ==
  ASSUME NEW reg \in Registry, NEW rat \in AllRats, NEW key \in Key, key # NullKey,
         NEW p \in Passport
  PROVE  Strips(reg, BindPassport(reg, rat, key, p))
<1> DEFINE arrived == Arrive(reg, rat, key)
           merged == MergeInto(arrived, key, p)
           claimed == IF IsLtePci(rat, key) /\ p.cid # 0
                      THEN ClaimEci(merged, key, p.cid) ELSE merged
<1>1. arrived \in Registry /\ Keeps(reg, arrived)
  BY ArriveType, ArriveKeeps
<1> HIDE DEF arrived
<1>2. merged \in Registry /\ Keeps(reg, merged)
  <2>1. Keeps(arrived, merged)
    BY <1>1, MergeIntoKeeps
  <2> QED BY <1>1, <2>1, MergeIntoType, KeepsTrans
<1> HIDE DEF merged
<1>3. claimed \in Registry /\ Strips(reg, claimed)
  BY <1>2, ClaimEciType, ClaimStrips, KeepsStrips
<1> HIDE DEF claimed
<1>4. Strips(reg, FanoutPlmn(claimed, key.freq, p))
  BY <1>3, FanoutStrips
<1> QED BY <1>3, <1>4 DEF BindPassport, arrived, merged, claimed

LEMMA FanoutWeakKeeps ==
  ASSUME NEW reg \in Registry, NEW key \in Key, key \notin PhysicalKeys, NEW p
  PROVE  Keeps(reg, FanoutWeak(reg, key, p))
<1> DEFINE to == FanoutWeak(reg, key, p)
<1>1. ASSUME NEW k \in PhysicalKeys
      PROVE  KeepsPass(reg[k].pass, to[k].pass)
  <2>1. k \in Key /\ k # key /\ reg[k] \in Row /\ reg[k].pass \in Passport
    BY DEF PhysicalKeys, Registry, Row
  <2>2. to[k].pass = MergePassport(reg[k].pass, p) \/ to[k] = reg[k]
    BY <2>1 DEF FanoutWeak, Row
  <2> QED BY <2>1, <2>2, MergeKeeps DEF KeepsPass
<1>2. ~reg[NullKey].present => ~to[NullKey].present
  BY NullKeyType DEF FanoutWeak, CompatiblePciRows, NoRow
<1> QED BY <1>1, <1>2 DEF Keeps

(* The row that a weak LTE passport is attached to: the key itself, or a   *)
(* physical LTE row of its carrier that does not contradict it.            *)
LEMMA AttachedRow ==
  ASSUME NEW reg \in Registry, NEW rat, NEW key \in Key, NEW p
  PROVE  \/ AttachKey(reg, rat, key, p) = key
         \/ /\ rat = "LTE" /\ key.freq # 0 /\ key.pci = 0
            /\ AttachKey(reg, rat, key, p) \in CompatiblePciRows(reg, key.freq, p)
<1> DEFINE rows == CompatiblePciRows(reg, key.freq, p)
<1>1. Cardinality(rows) = 1 => rows # {}
  BY FS_EmptySet
<1>2. rows # {} => (CHOOSE k \in rows : TRUE) \in rows
  OBVIOUS
<1> QED BY <1>1, <1>2 DEF AttachKey

LEMMA AttachedIsKeyed ==
  ASSUME NEW reg \in Registry, NEW rat, NEW key \in Key, key # NullKey, NEW p
  PROVE  AttachKey(reg, rat, key, p) # NullKey
BY AttachedRow, NullKeyType DEF CompatiblePciRows

LEMMA PassportEventStrips ==
  ASSUME TypeOK, NEW rat \in AllRats, NEW eventKey \in Key, NEW p \in Passport,
         PassportEvent(rat, eventKey, p)
  PROVE  Strips(registry, registry')
<1> DEFINE key == IF eventKey = NullKey THEN ResolvePassportKey(rat, p) ELSE eventKey
           moved == IF rat = "GSM" THEN RelocateGsmCid(registry, key, p.cid) ELSE registry
           bindTo == AttachKey(registry, rat, key, p)
           pass == Bindable(rat, bindTo, p)
<1>0. registry \in Registry
  BY DEF TypeOK
<1>1. key \in Key
  BY ResolveType
<1>2. CASE UNCHANGED registry
  BY <1>2, KeepsItself, KeepsStrips
<1>3. CASE key.freq # 0 /\ key.pci = 0 /\ registry' = FanoutWeak(registry, key, p)
  BY <1>0, <1>1, <1>3, FanoutWeakKeeps, KeepsStrips DEF PhysicalKeys
<1>4. CASE key # NullKey /\ registry' = BindPassport(moved, rat, bindTo, pass)
  <2>1. moved \in Registry /\ Keeps(registry, moved)
    BY <1>0, <1>1, RelocateType, RelocateKeeps, KeepsItself
  <2>2. bindTo \in Key /\ bindTo # NullKey /\ pass \in Passport
    BY <1>0, <1>1, <1>4, AttachKeyType, AttachedIsKeyed, BindableType
  <2> HIDE DEF moved, bindTo, pass
  <2>3. Strips(moved, registry')
    BY <1>4, <2>1, <2>2, BindStrips
  <2> QED BY <2>1, <2>3 DEF Keeps, Strips, KeepsPass, StripsPass
<1> QED BY <1>2, <1>3, <1>4 DEF PassportEvent

LEMMA ServingChangedKeeps ==
  ASSUME TypeOK, NEW rat \in AllRats, NEW eventKey \in Key, NEW b \in BOOLEAN,
         ServingChanged(rat, eventKey, b)
  PROVE  Keeps(registry, registry')
<1> DEFINE key == Target(rat, eventKey)
           arrived == Arrive(registry, rat, key)
           cleared == ClearServing(arrived, rat)
<1>1. key \in Key /\ key # NullKey
  BY TargetType DEF ServingChanged
<1>2. arrived \in Registry /\ Keeps(registry, arrived)
  BY <1>1, ArriveType, ArriveKeeps DEF TypeOK
<1> HIDE DEF key, arrived
<1>3. cleared \in Registry /\ Keeps(registry, cleared)
  <2>1. Keeps(arrived, cleared)
    BY <1>2, ClearServingKeeps
  <2> QED BY <1>2, <2>1, ClearServingType, KeepsTrans
<1> HIDE DEF cleared
<1>4. Keeps(registry, [cleared EXCEPT ![key] =
                         [@ EXCEPT !.serving = TRUE, !.ever = Camps(arrived, key)]])
  BY <1>1, <1>3 DEF Keeps, PhysicalKeys, Registry, Row
<1>5. Keeps(registry, [arrived EXCEPT ![key].serving = FALSE])
  BY <1>1, <1>2 DEF Keeps, PhysicalKeys, Registry, Row
<1> QED BY <1>4, <1>5 DEF ServingChanged, key, arrived, cleared

LEMMA RadioParamsKeeps ==
  ASSUME TypeOK, NEW rat \in AllRats, NEW eventKey \in Key, NEW b \in BOOLEAN,
         RadioParams(rat, eventKey, b)
  PROVE  Keeps(registry, registry')
<1> DEFINE key == Target(rat, eventKey)
           arrived == Arrive(registry, rat, key)
           applied == IF b /\ key.pci # 0 /\ ~(rat = "GSM" /\ key.freq = 0)
                      THEN [arrived EXCEPT ![key].rpci = key.pci] ELSE arrived
           only == CHOOSE c \in PendingCids : TRUE
           joined == IF TakesPending(applied, key)
                     THEN [applied EXCEPT ![key].pass = MergePassport(@, pending[only])]
                     ELSE applied
<1>0. registry \in Registry /\ pending \in [Cids -> Passport]
  BY DEF TypeOK
<1>1. key \in Key /\ key # NullKey /\ key.pci \in Pcis \cup GsmCids \cup {0}
  BY TargetType DEF RadioParams, Key
<1>2. arrived \in Registry /\ Keeps(registry, arrived)
  BY <1>0, <1>1, ArriveType, ArriveKeeps
<1> HIDE DEF key, arrived
<1>3. applied \in Registry /\ Keeps(registry, applied)
  BY <1>1, <1>2 DEF Keeps, PhysicalKeys, Registry, Row
<1> HIDE DEF applied
<1>4. joined \in Registry /\ Keeps(registry, joined)
  <2>1. CASE TakesPending(applied, key)
    <3>1. PendingCids # {}
      BY <2>1, FS_EmptySet DEF TakesPending
    <3>2. pending[only] \in Passport
      BY <1>0, <3>1 DEF PendingCids
    <3> HIDE DEF only
    <3> DEFINE to == [applied EXCEPT ![key].pass = MergePassport(@, pending[only])]
    <3>3. to \in Registry /\ Keeps(applied, to)
      BY <1>1, <1>3, <3>2, MergedRowType, MergeRowKeeps
    <3>4. joined = to
      BY <2>1
    <3> HIDE DEF to, joined
    <3>5. Keeps(registry, to)
      BY <1>3, <3>3, KeepsTrans
    <3> QED BY <3>3, <3>4, <3>5
  <2>2. CASE ~TakesPending(applied, key)
    BY <1>3, <2>2
  <2> QED BY <2>1, <2>2
<1> HIDE DEF joined
<1>5. Keeps(registry, RelocateGsmCid(joined, key, joined[key].pass.cid))
  <2>1. Keeps(joined, RelocateGsmCid(joined, key, joined[key].pass.cid))
    BY <1>1, <1>4, RelocateKeeps
  <2> QED BY <1>4, <2>1, KeepsTrans
<1> QED BY <1>4, <1>5 DEF RadioParams, key, arrived, applied, joined

(* A PCI of a carrier, made a row.                                         *)
LEMMA ListedKeeps ==
  ASSUME NEW reg \in Registry, NEW rat \in AllRats,
         NEW f \in Freqs \cup {0}, f # 0, NEW p \in Pcis \cup GsmCids \cup {0}
  PROVE  /\ Keeps(reg, Touch(PromoteLteWeak(reg, KeyOf(f, p)), KeyOf(f, p), rat))
         /\ Keeps(reg, Touch(reg, KeyOf(f, p), rat))
<1>1. KeyOf(f, p) \in Key /\ KeyOf(f, p) # NullKey
  BY DEF KeyOf, Key, NullKey
<1>2. PromoteLteWeak(reg, KeyOf(f, p)) \in Registry
  BY <1>1, PromoteType
<1>3. Keeps(reg, PromoteLteWeak(reg, KeyOf(f, p)))
  BY <1>1, PromoteKeeps
<1>4. Keeps(PromoteLteWeak(reg, KeyOf(f, p)),
            Touch(PromoteLteWeak(reg, KeyOf(f, p)), KeyOf(f, p), rat))
  BY <1>1, <1>2, TouchKeeps
<1>5. Keeps(reg, Touch(reg, KeyOf(f, p), rat))
  BY <1>1, TouchKeeps
<1> QED BY <1>3, <1>4, <1>5, KeepsTrans

LEMMA LteMeasNeighborStrips ==
  ASSUME TypeOK, NEW eventKey \in Key, NEW pci \in Pcis \cup {0}, NEW cgi \in Passport,
         LteMeasNeighbor(eventKey, pci, cgi)
  PROVE  Strips(registry, registry')
<1> DEFINE sk == ServingKey(registry, "LTE")
           earfcn == IF eventKey.freq # 0 THEN eventKey.freq ELSE sk.freq
           serving == IF eventKey = NullKey THEN sk ELSE eventKey
           key == KeyOf(earfcn, pci)
           arrived == Touch(PromoteLteWeak(registry, key), key, "LTE")
           source == IF arrived[serving].present THEN serving ELSE ServingKey(arrived, "LTE")
           inherits == IF source # NullKey /\ source.freq = earfcn
                       THEN InheritPlmn(arrived, key, arrived[source].pass) ELSE arrived
           measured == [inherits EXCEPT ![key].pass = MergePassport(@, cgi)]
<1>1. sk \in Key
  BY ServingKeyType DEF TypeOK
<1>2. earfcn \in Freqs \cup {0} /\ earfcn # 0 /\ serving \in Key
  BY <1>1 DEF Key, LteMeasNeighbor
<1>3. key \in Key /\ arrived \in Registry /\ Keeps(registry, arrived)
  <2> HIDE DEF earfcn
  <2> QED BY <1>2, ListedType, ListedKeeps DEF TypeOK, AllRats
<1> HIDE DEF sk, earfcn, serving, key, arrived
<1>4. source \in Key
  BY <1>2, <1>3, ServingKeyType
<1>5. inherits \in Registry /\ Keeps(registry, inherits)
  <2>1. arrived[source].pass \in Passport
    BY <1>3, <1>4 DEF Registry, Row
  <2>2. Keeps(arrived, InheritPlmn(arrived, key, arrived[source].pass))
    BY <1>3, InheritKeeps
  <2> QED BY <1>3, <2>1, <2>2, InheritPlmnType, KeepsTrans
<1> HIDE DEF source, inherits
<1>6. measured \in Registry /\ Keeps(inherits, measured)
  BY <1>3, <1>5, MergedRowType, MergeRowKeeps, SMTT(40)
<1>7. registry' = ClaimEci(measured, key, cgi.cid) \/ registry' = inherits
  BY DEF LteMeasNeighbor, sk, earfcn, serving, key, arrived, source, inherits
<1> HIDE DEF measured
<1>8. Keeps(registry, measured)
  BY <1>5, <1>6, KeepsTrans
<1> QED BY <1>5, <1>6, <1>7, <1>8, ClaimStrips, KeepsStrips, SMTT(40)

LEMMA NrMeasNeighborKeeps ==
  ASSUME TypeOK, NEW eventKey \in Key, NEW pci \in Pcis \cup {0}, NEW cgi \in Passport,
         NrMeasNeighbor(eventKey, pci, cgi)
  PROVE  Keeps(registry, registry')
<1> DEFINE nrarfcn == IF eventKey.freq # 0 THEN eventKey.freq
                      ELSE ServingKey(registry, "NR").freq
           key == KeyOf(nrarfcn, pci)
           arrived == Touch(registry, key, "NR")
           measured == [arrived EXCEPT ![key].pass = MergePassport(@, cgi)]
<1>1. nrarfcn \in Freqs \cup {0} /\ nrarfcn # 0
  BY ServingKeyType DEF Key, TypeOK, NrMeasNeighbor
<1>2. key \in Key /\ arrived \in Registry /\ Keeps(registry, arrived)
  <2> HIDE DEF nrarfcn
  <2> QED BY <1>1, ListedType, ListedKeeps DEF TypeOK, AllRats
<1> HIDE DEF nrarfcn, key, arrived
<1>3. Keeps(arrived, measured)
  BY <1>2, MergeRowKeeps
<1>4. registry' = measured \/ registry' = arrived
  BY DEF NrMeasNeighbor, nrarfcn, key, arrived
<1> HIDE DEF measured
<1> QED BY <1>2, <1>3, <1>4, KeepsTrans

LEMMA SibIntraNeighborKeeps ==
  ASSUME TypeOK, NEW eventKey \in Key, NEW pci \in Pcis \cup {0},
         SibIntraNeighbor(eventKey, pci)
  PROVE  Keeps(registry, registry')
<1> DEFINE from == Target("LTE", eventKey)
           arrived == Arrive(registry, "LTE", from)
           earfcn == IF from.freq # 0 THEN from.freq ELSE ServingKey(arrived, "LTE").freq
           key == KeyOf(earfcn, pci)
           listed == Touch(PromoteLteWeak(arrived, key), key, "LTE")
           inherits == InheritPlmn(listed, key, arrived[from].pass)
<1>1. from \in Key /\ from # NullKey
  BY TargetType DEF SibIntraNeighbor
<1>2. arrived \in Registry /\ Keeps(registry, arrived)
  BY <1>1, ArriveType, ArriveKeeps DEF TypeOK, AllRats
<1> HIDE DEF from, arrived
<1>3. earfcn \in Freqs \cup {0}
  <2>1. ServingKey(arrived, "LTE") \in Key
    BY <1>2, ServingKeyType
  <2> QED BY <1>1, <2>1 DEF Key
<1> HIDE DEF earfcn
<1>4. key \in Key /\ listed \in Registry
  BY <1>2, <1>3, ListedType DEF AllRats
<1>5. earfcn # 0 => Keeps(arrived, listed)
  BY <1>2, <1>3, ListedKeeps DEF AllRats
<1> HIDE DEF key, listed
<1>6. Keeps(listed, inherits)
  BY <1>4, InheritKeeps
<1>7. earfcn # 0 => Keeps(registry, inherits)
  <2>1. earfcn # 0 => Keeps(registry, listed)
    BY <1>2, <1>5, KeepsTrans
  <2> QED BY <1>6, <2>1, KeepsTrans
<1> QED BY <1>2, <1>7 DEF SibIntraNeighbor, from, arrived, earfcn, key, listed

LEMMA SibInterNeighborKeeps ==
  ASSUME TypeOK, NEW eventKey \in Key, NEW f \in Freqs, NEW pci \in Pcis \cup {0},
         SibInterNeighbor(eventKey, f, pci)
  PROVE  Keeps(registry, registry')
<1> DEFINE from == Target("LTE", eventKey)
           arrived == Arrive(registry, "LTE", from)
           listed == Touch(PromoteLteWeak(arrived, KeyOf(f, pci)), KeyOf(f, pci), "LTE")
<1>1. from \in Key /\ from # NullKey
  BY TargetType DEF SibInterNeighbor
<1>2. arrived \in Registry /\ Keeps(registry, arrived)
  BY <1>1, ArriveType, ArriveKeeps DEF TypeOK, AllRats
<1> HIDE DEF arrived
<1>3. f # 0
  BY ConstantsAssumption
<1>4. Keeps(arrived, listed)
  BY <1>2, <1>3, ListedKeeps DEF AllRats
<1> HIDE DEF listed
<1>5. Keeps(registry, listed)
  BY <1>2, <1>4, KeepsTrans
<1> QED BY <1>5 DEF SibInterNeighbor, arrived, listed

LEMMA GsmNeighborKeeps ==
  ASSUME TypeOK, NEW f \in Freqs, NEW bsic \in Pcis \cup {0}, GsmNeighbor(f, bsic)
  PROVE  Keeps(registry, registry')
<1> DEFINE key == KeyOf(f, bsic)
           absorbed == Absorb(registry, key, KeyOf(f, 0))
           arrived == Touch(absorbed, key, "GSM")
<1>0. f # 0
  BY ConstantsAssumption
<1>1. key \in Key /\ key # NullKey /\ KeyOf(f, 0) \in Key /\ KeyOf(f, 0) \notin PhysicalKeys
  BY <1>0 DEF KeyOf, Key, NullKey, PhysicalKeys
<1> HIDE DEF key
<1>2. absorbed \in Registry /\ Keeps(registry, absorbed)
  BY <1>1, AbsorbType, AbsorbKeeps DEF TypeOK
<1> HIDE DEF absorbed
<1>3. arrived \in Registry /\ Keeps(registry, arrived)
  <2>1. Keeps(absorbed, arrived)
    BY <1>1, <1>2, TouchKeeps
  <2> QED BY <1>1, <1>2, <2>1, TouchType, KeepsTrans DEF AllRats
<1> HIDE DEF arrived
<1>4. Keeps(registry, [arrived EXCEPT ![key].rpci = bsic])
  BY <1>1, <1>3 DEF Keeps, PhysicalKeys, Registry, Row
<1> QED BY <1>3, <1>4 DEF GsmNeighbor, key, absorbed, arrived

-----------------------------------------------------------------------------
(* Every handler, whatever event it is given.                              *)

LEMMA NextStrips ==
  ASSUME TypeOK, [Next]_vars
  PROVE  Strips(registry, registry')
<1> USE ConstantTypes
<1>1. CASE \E in \in PassportInputs : PassportEvent(in.rat, in.key, in.pass)
  BY <1>1, PassportEventStrips
<1>2. CASE KeyedEvent
  <2>1. PICK in \in EventKeys :
          \/ \E b \in BOOLEAN : ServingChanged(in.rat, in.key, b)
          \/ \E b \in BOOLEAN : RadioParams(in.rat, in.key, b)
          \/ Observe(in.rat, in.key)
    BY <1>2 DEF KeyedEvent
  <2>2. in.rat \in AllRats /\ in.key \in Key
    OBVIOUS
  <2>3. Observe(in.rat, in.key) => Keeps(registry, registry')
    BY <2>2, TargetType, ArriveKeeps DEF Observe, TypeOK
  <2> QED BY <2>1, <2>2, <2>3, ServingChangedKeeps, RadioParamsKeeps, KeepsStrips
<1>3. CASE LteNeighborList
  <2>1. CASE \E in \in CgiInputs : LteMeasNeighbor(in.key, in.pci, in.pass)
    BY <2>1, LteMeasNeighborStrips
  <2>2. CASE \E in \in EventKeys, pci \in Pcis \cup {0} : SibIntraNeighbor(in.key, pci)
    BY <2>2, SibIntraNeighborKeeps, KeepsStrips
  <2>3. CASE /\ "LTE" \in Rats
             /\ \E in \in EventKeys, f \in Carriers["LTE"], pci \in Pcis \cup {0} :
                  SibInterNeighbor(in.key, f, pci)
    BY <2>3, SibInterNeighborKeeps, KeepsStrips
  <2> QED BY <1>3, <2>1, <2>2, <2>3 DEF LteNeighborList
<1>4. CASE OtherNeighborList
  <2>1. CASE \E in \in CgiInputs : NrMeasNeighbor(in.key, in.pci, in.pass)
    BY <2>1, NrMeasNeighborKeeps, KeepsStrips
  <2>2. CASE \E f \in Freqs, bsic \in Pcis \cup {0} : GsmNeighbor(f, bsic)
    BY <2>2, GsmNeighborKeeps, KeepsStrips
  <2>3. CASE \E f \in Freqs, psc \in Pcis : WcdmaNeighbor(f, psc)
    <3>1. PICK f \in Freqs, psc \in Pcis : WcdmaNeighbor(f, psc)
      BY <2>3
    <3>2. f # 0
      BY ConstantsAssumption
    <3>3. Keeps(registry, Touch(registry, KeyOf(f, psc), "WCDMA"))
      BY <3>2, ListedKeeps DEF TypeOK, AllRats
    <3> QED BY <3>1, <3>3, KeepsStrips DEF WcdmaNeighbor
  <2>4. CASE \E f \in Freqs : SetSurroundHint(f)
    BY <2>4, KeepsItself, KeepsStrips DEF SetSurroundHint
  <2> QED BY <1>4, <2>1, <2>2, <2>3, <2>4 DEF OtherNeighborList
<1>5. CASE UNCHANGED vars
  BY <1>5, KeepsItself, KeepsStrips DEF vars
<1> QED BY <1>1, <1>2, <1>3, <1>4, <1>5 DEF Next

(* No event, of any technology and in any order, makes a row {0,0}.        *)
THEOREM NullKeyStaysFree == Spec => []NoNullRow
<1>1. Init => NoNullRow
  BY NullKeyType DEF Init, NoNullRow, Present, NoRow
<1>2. TypeOK /\ NoNullRow /\ [Next]_vars => NoNullRow'
  BY NextStrips DEF NoNullRow, Present, Strips
<1> QED BY <1>1, <1>2, TypeCorrect, PTL DEF Spec

(* No step rewrites a complete confirmed passport of a physical LTE row:   *)
(* it stays, or it loses its identity to a claim.                          *)
THEOREM FullStays == Spec => FullIsSticky
<1>1. TypeOK /\ [Next]_vars =>
        [\A k \in LtePciRows : Full(registry[k].pass) /\ ~registry[k].pass.soft =>
           \/ registry'[k].pass = registry[k].pass
           \/ registry'[k].pass = [registry[k].pass EXCEPT !.cid = 0, !.tac = 0]]_vars
  <2> SUFFICES ASSUME TypeOK, [Next]_vars, NEW k \in LtePciRows,
                      Full(registry[k].pass) /\ ~registry[k].pass.soft
               PROVE  \/ registry'[k].pass = registry[k].pass
                      \/ registry'[k].pass =
                           [registry[k].pass EXCEPT !.cid = 0, !.tac = 0]
    OBVIOUS
  <2>1. k \in PhysicalKeys
    BY DEF LtePciRows, LteRows, RowsOf, PhysicalKeys
  <2> QED BY <2>1, NextStrips DEF Strips, StripsPass, WithoutIdentity
<1> QED BY <1>1, TypeCorrect, PTL DEF Spec, FullIsSticky

(* No step turns a confirmed operator of a physical LTE row into a guess.  *)
THEOREM HardPlmnStays == Spec => HardPlmnStaysHard
<1>1. TypeOK /\ [Next]_vars =>
        [\A k \in LtePciRows :
           registry[k].pass.plmn # 0 /\ ~registry[k].pass.soft
           => ~registry'[k].pass.soft]_vars
  <2> SUFFICES ASSUME TypeOK, [Next]_vars, NEW k \in LtePciRows,
                      registry[k].pass.plmn # 0 /\ ~registry[k].pass.soft
               PROVE  ~registry'[k].pass.soft
    OBVIOUS
  <2>1. k \in PhysicalKeys
    BY DEF LtePciRows, LteRows, RowsOf, PhysicalKeys
  <2> QED BY <2>1, NextStrips DEF Strips, StripsPass
<1> QED BY <1>1, TypeCorrect, PTL DEF Spec, HardPlmnStaysHard

-----------------------------------------------------------------------------
(* Technologies with carriers of their own.  Then every row lives where    *)
(* its technology does, and absorbing one row into another, promoting or   *)
(* relocating it never joins two serving rows.                             *)

AtHome(k, rat) == IF k.freq = 0 THEN rat = "GSM" ELSE k.freq \in CarriersOf(rat)

Tidy(reg) ==
  /\ \A k \in Key : ~reg[k].present => reg[k] = NoRow
  /\ \A k \in Key : reg[k].present => reg[k].rat \in Rats /\ AtHome(k, reg[k].rat)
  /\ \A k, j \in Key :
       reg[k].serving /\ reg[j].serving /\ reg[k].rat = reg[j].rat => k = j
  /\ \A k \in Key : reg[k].serving => k.freq # 0

(* A step of one technology leaves the keys of the others alone.           *)
Spares(reg, to, rat) == \A k \in Key : ~AtHome(k, rat) => to[k] = reg[k]

Orderly ==
  /\ TypeOK /\ NoNullRow /\ Tidy(registry)
  /\ hint.arfcn # 0 => "GSM" \in Rats /\ hint.arfcn \in CarriersOf("GSM")

(* An event names no key, or one where its technology lives.               *)
Named(k, rat) == k = NullKey \/ (k.freq # 0 /\ AtHome(k, rat))

LEMMA HomeUnique ==
  ASSUME CarriersApart, NEW k, NEW r \in Rats, NEW s \in Rats, AtHome(k, r), AtHome(k, s)
  PROVE  r = s
BY DEF AtHome, CarriersApart

LEMMA InputsNamed ==
  ASSUME CarriersApart
  PROVE  /\ \A in \in PassportInputs : Named(in.key, in.rat)
         /\ \A in \in CgiInputs : Named(in.key, in.rat)
         /\ \A in \in EventKeys : Named(in.key, in.rat)
         /\ \A r \in Rats : \A f \in Carriers[r] : f # 0 /\ f \in CarriersOf(r)
<1>1. ASSUME NEW in \in PassportInputs \cup CgiInputs \cup EventKeys
      PROVE  Named(in.key, in.rat)
  <2>1. in.rat \in Rats /\ in \in Events(in.rat)
    BY ConstantTypes DEF Events
  <2>2. in.key.freq = 0 => in.key = NullKey
    BY <2>1 DEF CarriersApart
  <2>3. in.key.freq # 0 => in.key.freq \in CarriersOf(in.rat)
    BY <2>1 DEF CarriersOf
  <2> QED BY <2>2, <2>3 DEF Named, AtHome
<1>2. ASSUME NEW r \in Rats, NEW f \in Carriers[r]
      PROVE  f # 0 /\ f \in CarriersOf(r)
  BY ConstantsAssumption DEF CarriersOf
<1> QED BY <1>1, <1>2

LEMMA SparesTrans ==
  ASSUME NEW reg, NEW mid, NEW to, NEW rat, Spares(reg, mid, rat), Spares(mid, to, rat)
  PROVE  Spares(reg, to, rat)
BY DEF Spares

LEMMA SparesItself ==
  ASSUME NEW reg, NEW rat
  PROVE  Spares(reg, reg, rat)
BY DEF Spares

(* A step that erases rows, ends service or changes what a row says of its *)
(* cell keeps the order.                                                   *)
Thins(reg, to) ==
  \A k \in Key :
    \/ to[k] = NoRow
    \/ /\ to[k].present = reg[k].present /\ to[k].rat = reg[k].rat
       /\ to[k].serving => reg[k].serving
       /\ ~reg[k].present => to[k] = reg[k]

LEMMA ThinsTidy ==
  ASSUME NEW reg, NEW to, Tidy(reg), Thins(reg, to)
  PROVE  Tidy(to)
<1>1. ASSUME NEW k \in Key, ~to[k].present
      PROVE  to[k] = NoRow
  BY <1>1 DEF Tidy, Thins
<1>2. ASSUME NEW k \in Key, to[k].present
      PROVE  to[k].rat \in Rats /\ AtHome(k, to[k].rat)
  BY <1>2 DEF Tidy, Thins, NoRow
<1>3. ASSUME NEW k \in Key, to[k].serving
      PROVE  reg[k].serving /\ to[k].rat = reg[k].rat
  BY <1>3 DEF Thins, NoRow
<1> QED BY <1>1, <1>2, <1>3 DEF Tidy

LEMMA TouchTidy ==
  ASSUME CarriersApart, NEW reg \in Registry, Tidy(reg),
         NEW key \in Key, NEW rat \in Rats, AtHome(key, rat)
  PROVE  /\ Tidy(Touch(reg, key, rat))
         /\ Spares(reg, Touch(reg, key, rat), rat)
<1> DEFINE to == Touch(reg, key, rat)
<1>1. /\ \A k \in Key : k # key => to[k] = reg[k]
      /\ to[key].present /\ to[key].rat = rat
      /\ to[key].serving = reg[key].serving
  BY TouchAt
<1> HIDE DEF to
<1>2. reg[key].present => reg[key].rat = rat
  BY HomeUnique DEF Tidy
<1>3. reg[key].serving => reg[key].present
  BY DEF Tidy, NoRow
<1>4. \A k, j \in Key : to[k].serving /\ to[j].serving /\ to[k].rat = to[j].rat => k = j
  BY <1>1, <1>2, <1>3 DEF Tidy
<1>5. Tidy(to)
  BY <1>1, <1>4 DEF Tidy
<1>6. Spares(reg, to, rat)
  BY <1>1 DEF Spares
<1> QED BY <1>5, <1>6 DEF to

(* Two rows of one technology become one.                                  *)
LEMMA AbsorbTidy ==
  ASSUME CarriersApart, NEW reg \in Registry, Tidy(reg), NEW rat \in Rats,
         NEW dst \in Key, NEW src \in Key, dst.freq # 0, AtHome(dst, rat), AtHome(src, rat)
  PROVE  /\ Tidy(Absorb(reg, dst, src))
         /\ Spares(reg, Absorb(reg, dst, src), rat)
<1>1. CASE dst = src \/ ~reg[src].present
  BY <1>1, AbsorbNothing, SparesItself
<1>2. CASE dst # src /\ reg[src].present
  <2> DEFINE to == Absorb(reg, dst, src)
  <2>1. /\ \A k \in Key : k # dst /\ k # src => to[k] = reg[k]
        /\ to[src] = NoRow
        /\ to[dst].present /\ to[dst].rat = reg[src].rat
        /\ to[dst].serving = (reg[dst].serving \/ reg[src].serving)
    BY <1>2, AbsorbAt
  <2> HIDE DEF to
  <2>2. reg[src].rat = rat /\ (reg[dst].present => reg[dst].rat = rat)
    BY <1>2, HomeUnique DEF Tidy
  <2>3. reg[dst].serving => reg[dst].present
    BY DEF Tidy, NoRow
  <2>4. ASSUME NEW k \in Key, to[k].serving
        PROVE  \E j \in Key : /\ reg[j].serving /\ to[k].rat = reg[j].rat
                              /\ k = j \/ (k = dst /\ j = src)
    <3>1. CASE k = dst /\ reg[dst].serving
      BY <2>1, <2>2, <2>3, <3>1
    <3>2. CASE k = dst /\ reg[src].serving
      BY <2>1, <3>2
    <3>3. CASE k # dst
      BY <2>1, <2>4, <3>3 DEF NoRow
    <3> QED BY <2>1, <2>4, <3>1, <3>2, <3>3
  <2>5. \A k, j \in Key : to[k].serving /\ to[j].serving /\ to[k].rat = to[j].rat => k = j
    <3> SUFFICES ASSUME NEW k \in Key, NEW j \in Key,
                        to[k].serving, to[j].serving, to[k].rat = to[j].rat
                 PROVE  k = j
      OBVIOUS
    <3>1. PICK k0 \in Key : /\ reg[k0].serving /\ to[k].rat = reg[k0].rat
                            /\ k = k0 \/ (k = dst /\ k0 = src)
      BY <2>4
    <3>2. PICK j0 \in Key : /\ reg[j0].serving /\ to[j].rat = reg[j0].rat
                            /\ j = j0 \/ (j = dst /\ j0 = src)
      BY <2>4
    <3>3. k0 = j0
      BY <3>1, <3>2 DEF Tidy
    <3>4. k # src /\ j # src
      BY <2>1 DEF NoRow
    <3> QED BY <3>1, <3>2, <3>3, <3>4
  <2>6. Tidy(to)
    <3>1. \A k \in Key : ~to[k].present => to[k] = NoRow
      BY <2>1 DEF Tidy
    <3>2. \A k \in Key : to[k].present => to[k].rat \in Rats /\ AtHome(k, to[k].rat)
      BY <2>1, <2>2 DEF Tidy, NoRow
    <3>3. \A k \in Key : to[k].serving => k.freq # 0
      BY <2>1 DEF Tidy, NoRow
    <3> QED BY <2>5, <3>1, <3>2, <3>3 DEF Tidy
  <2>7. Spares(reg, to, rat)
    BY <2>1 DEF Spares
  <2> QED BY <2>6, <2>7 DEF to
<1> QED BY <1>1, <1>2

LEMMA PromoteTidy ==
  ASSUME CarriersApart, NEW reg \in Registry, Tidy(reg),
         "LTE" \in Rats, NEW key \in Key, AtHome(key, "LTE")
  PROVE  /\ Tidy(PromoteLteWeak(reg, key))
         /\ Spares(reg, PromoteLteWeak(reg, key), "LTE")
<1>1. KeyOf(key.freq, 0) \in Key /\ AtHome(KeyOf(key.freq, 0), "LTE")
  BY DEF Key, KeyOf, AtHome
<1> QED BY <1>1, AbsorbTidy, SparesItself DEF PromoteLteWeak

LEMMA RelocateTidy ==
  ASSUME CarriersApart, NEW reg \in Registry, Tidy(reg),
         "GSM" \in Rats, NEW key \in Key, AtHome(key, "GSM"), NEW cid
  PROVE  /\ Tidy(RelocateGsmCid(reg, key, cid))
         /\ Spares(reg, RelocateGsmCid(reg, key, cid), "GSM")
<1>1. cid \in GsmCids => KeyOf(0, cid) \in Key /\ AtHome(KeyOf(0, cid), "GSM")
  BY DEF Key, KeyOf, AtHome
<1> QED BY <1>1, AbsorbTidy, SparesItself DEF RelocateGsmCid

LEMMA ArriveTidy ==
  ASSUME CarriersApart, NEW reg \in Registry, Tidy(reg),
         NEW rat \in Rats, NEW key \in Key, AtHome(key, rat)
  PROVE  /\ Tidy(Arrive(reg, rat, key))
         /\ Spares(reg, Arrive(reg, rat, key), rat)
<1>1. CASE rat = "LTE"
  <2> DEFINE mid == PromoteLteWeak(reg, key)
  <2>1. mid \in Registry /\ Tidy(mid) /\ Spares(reg, mid, rat)
    BY <1>1, PromoteType, PromoteTidy
  <2>2. Arrive(reg, rat, key) = Touch(mid, key, rat)
    BY <1>1 DEF Arrive
  <2> HIDE DEF mid
  <2>3. Tidy(Touch(mid, key, rat)) /\ Spares(mid, Touch(mid, key, rat), rat)
    BY <2>1, TouchTidy
  <2> QED BY <2>1, <2>2, <2>3, SparesTrans
<1>2. CASE rat # "LTE"
  BY <1>2, TouchTidy DEF Arrive
<1> QED BY <1>1, <1>2

(* Steps that touch what rows say of their cells.                          *)
LEMMA MergeIntoTidy ==
  ASSUME NEW reg \in Registry, Tidy(reg), NEW rat, NEW key \in Key, AtHome(key, rat),
         reg[key].present, NEW p
  PROVE  Tidy(MergeInto(reg, key, p)) /\ Spares(reg, MergeInto(reg, key, p), rat)
<1>1. Thins(reg, MergeInto(reg, key, p))
  BY MergeIntoAt DEF Thins
<1> QED BY <1>1, ThinsTidy, MergeIntoAt DEF Spares

LEMMA MergeRowTidy ==
  ASSUME NEW reg \in Registry, Tidy(reg), NEW rat, NEW key \in Key, AtHome(key, rat),
         reg[key].present, NEW p
  PROVE  LET to == [reg EXCEPT ![key].pass = MergePassport(@, p)] IN
         Tidy(to) /\ Spares(reg, to, rat)
<1> DEFINE to == [reg EXCEPT ![key].pass = MergePassport(@, p)]
<1>1. /\ \A k \in Key : k # key => to[k] = reg[k]
      /\ to[key].present = reg[key].present
      /\ to[key].rat = reg[key].rat
      /\ to[key].serving = reg[key].serving
  BY DEF Registry, Row
<1> HIDE DEF to
<1>2. Thins(reg, to) /\ Spares(reg, to, rat)
  BY <1>1 DEF Thins, Spares
<1>3. Tidy(to) /\ Spares(reg, to, rat)
  BY <1>2, ThinsTidy
<1> QED BY <1>3 DEF to

LEMMA InheritTidy ==
  ASSUME NEW reg \in Registry, Tidy(reg), NEW rat, NEW key \in Key, AtHome(key, rat),
         reg[key].present, NEW src
  PROVE  Tidy(InheritPlmn(reg, key, src)) /\ Spares(reg, InheritPlmn(reg, key, src), rat)
<1>1. Thins(reg, InheritPlmn(reg, key, src))
  BY InheritPlmnAt DEF Thins
<1> QED BY <1>1, ThinsTidy, InheritPlmnAt DEF Spares

LEMMA ClaimTidy ==
  ASSUME NEW reg \in Registry, Tidy(reg), NEW owner, NEW cid
  PROVE  Tidy(ClaimEci(reg, owner, cid)) /\ Spares(reg, ClaimEci(reg, owner, cid), "LTE")
<1>1. Thins(reg, ClaimEci(reg, owner, cid))
  BY ClaimEciAt DEF Thins, RowsOf
<1>2. Spares(reg, ClaimEci(reg, owner, cid), "LTE")
  BY ClaimEciAt DEF Spares, Tidy, RowsOf
<1> QED BY <1>1, <1>2, ThinsTidy

LEMMA FanoutTidy ==
  ASSUME NEW reg \in Registry, Tidy(reg), NEW freq, NEW p \in Passport
  PROVE  Tidy(FanoutPlmn(reg, freq, p)) /\ Spares(reg, FanoutPlmn(reg, freq, p), "LTE")
<1>1. Thins(reg, FanoutPlmn(reg, freq, p))
  BY FanoutPlmnAt DEF Thins, RowsOf
<1>2. Spares(reg, FanoutPlmn(reg, freq, p), "LTE")
  BY FanoutPlmnAt DEF Spares, Tidy, RowsOf
<1> QED BY <1>1, <1>2, ThinsTidy

LEMMA ClearServingTidy ==
  ASSUME NEW reg \in Registry, Tidy(reg), NEW rat
  PROVE  Tidy(ClearServing(reg, rat)) /\ Spares(reg, ClearServing(reg, rat), rat)
<1>1. Thins(reg, ClearServing(reg, rat))
  BY ClearServingAt DEF Thins, RowsOf
<1>2. Spares(reg, ClearServing(reg, rat), rat)
  BY ClearServingAt DEF Spares, Tidy, RowsOf
<1> QED BY <1>1, <1>2, ThinsTidy

LEMMA FanoutWeakTidy ==
  ASSUME NEW reg \in Registry, Tidy(reg), NEW key \in Key, AtHome(key, "LTE"),
         NEW p \in Passport
  PROVE  Tidy(FanoutWeak(reg, key, p)) /\ Spares(reg, FanoutWeak(reg, key, p), "LTE")
<1> DEFINE rows == CompatiblePciRows(reg, key.freq, p)
           to == FanoutWeak(reg, key, p)
<1>1. \A k \in Key : to[k] = IF k \in rows THEN [reg[k] EXCEPT !.pass = MergePassport(@, p)]
                             ELSE IF k = key THEN NoRow ELSE reg[k]
  BY DEF FanoutWeak
<1>2. \A k \in rows : reg[k].present /\ AtHome(k, "LTE") /\ reg[k] \in Row
  BY DEF CompatiblePciRows, RowsOf, Tidy, Registry
<1> HIDE DEF to, rows
<1>3. Thins(reg, to)
  BY <1>1, <1>2 DEF Thins, Row
<1>4. Spares(reg, to, "LTE")
  BY <1>1, <1>2 DEF Spares
<1>5. Tidy(to)
  BY <1>3, ThinsTidy
<1> QED BY <1>4, <1>5 DEF to

LEMMA BindTidy ==
  ASSUME CarriersApart, NEW reg \in Registry, Tidy(reg), NEW rat \in Rats,
         NEW key \in Key, AtHome(key, rat), NEW p \in Passport
  PROVE  /\ Tidy(BindPassport(reg, rat, key, p))
         /\ Spares(reg, BindPassport(reg, rat, key, p), rat)
<1> DEFINE arrived == Arrive(reg, rat, key)
           merged == MergeInto(arrived, key, p)
           claimed == IF IsLtePci(rat, key) /\ p.cid # 0
                      THEN ClaimEci(merged, key, p.cid) ELSE merged
           fanned == FanoutPlmn(claimed, key.freq, p)
<1>0. rat \in AllRats
  BY ConstantsAssumption
<1>1. arrived \in Registry /\ Tidy(arrived) /\ Spares(reg, arrived, rat)
  BY <1>0, ArriveType, ArriveTidy
<1>2. arrived[key].present
  BY <1>0, PromoteType, TouchAt DEF Arrive
<1> HIDE DEF arrived
<1>3. merged \in Registry /\ Tidy(merged) /\ Spares(reg, merged, rat)
  BY <1>1, <1>2, MergeIntoType, MergeIntoTidy, SparesTrans
<1> HIDE DEF merged
<1>4. IsLtePci(rat, key) => rat = "LTE"
  BY DEF IsLtePci
<1>5. claimed \in Registry /\ Tidy(claimed) /\ Spares(reg, claimed, rat)
  BY <1>3, <1>4, ClaimEciType, ClaimTidy, SparesTrans
<1> HIDE DEF claimed
<1>6. IsLtePci(rat, key) => Tidy(fanned) /\ Spares(reg, fanned, rat)
  BY <1>4, <1>5, FanoutTidy, SparesTrans
<1> QED BY <1>5, <1>6 DEF BindPassport, arrived, merged, claimed, fanned

(* Where the searches of the map lead: home, and to a row with a carrier.  *)
LEMMA ServingHome ==
  ASSUME NEW reg \in Registry, Tidy(reg), NEW rat
  PROVE  \/ ServingKey(reg, rat) = NullKey
         \/ LET sk == ServingKey(reg, rat) IN
            /\ sk \in RowsOf(reg, rat) /\ reg[sk].serving
            /\ AtHome(sk, rat) /\ sk.freq # 0
<1> DEFINE S == {k \in RowsOf(reg, rat) : reg[k].serving}
<1>1. S \subseteq Key
  BY DEF RowsOf
<1>2. \A k \in S : AtHome(k, rat) /\ k.freq # 0
  BY DEF Tidy, RowsOf
<1>3. ServingKey(reg, rat) = NullKey \/ ServingKey(reg, rat) \in S
  BY <1>1, FirstKeyType DEF ServingKey
<1> QED BY <1>2, <1>3

LEMMA TargetHome ==
  ASSUME Orderly, NEW rat, NEW eventKey \in Key, Named(eventKey, rat)
  PROVE  Named(Target(rat, eventKey), rat)
BY ServingHome DEF Orderly, TypeOK, Named, Target

LEMMA ResolveHome ==
  ASSUME Orderly, NEW rat \in Rats, NEW p \in Passport
  PROVE  LET key == ResolvePassportKey(rat, p) IN key = NullKey \/ AtHome(key, rat)
<1> DEFINE holders == {k \in RowsOf(registry, rat) : registry[k].pass.cid = p.cid}
           known == FindKeyByCid(registry, rat, p.cid)
           sk == ServingKey(registry, rat)
<1>0. registry \in Registry /\ Tidy(registry)
  BY DEF Orderly, TypeOK
<1>1. sk = NullKey \/ AtHome(sk, rat)
  BY <1>0, ServingHome
<1>2. known = NullKey \/ AtHome(known, rat)
  <2>1. holders \subseteq Key /\ \A k \in holders : AtHome(k, rat)
    BY <1>0 DEF RowsOf, Tidy
  <2>2. FirstKey(holders) = NullKey \/ FirstKey(holders) \in holders
    BY <2>1, FirstKeyType
  <2>3. rat = "GSM" => AtHome(KeyOf(0, p.cid), rat)
    BY DEF AtHome, KeyOf
  <2> QED BY <2>1, <2>2, <2>3 DEF FindKeyByCid
<1>3. SurroundHintApplies(rat, p) => AtHome(SurroundRow, rat)
  <2>1. SUFFICES ASSUME SurroundHintApplies(rat, p)
                 PROVE  AtHome(SurroundRow, rat)
    OBVIOUS
  <2>2. rat = "GSM" /\ hint.arfcn # 0 /\ hint.arfcn \in CarriersOf("GSM")
    BY <2>1 DEF SurroundHintApplies, Orderly
  <2> DEFINE rows == {k \in RowsOf(registry, "GSM") : k.freq = hint.arfcn /\ k.pci # 0}
  <2>3. rows # {} => FirstKey(rows) \in rows
    BY FirstKeyIn DEF RowsOf
  <2>4. SurroundRow.freq = hint.arfcn
    BY <2>3 DEF SurroundRow, KeyOf
  <2> QED BY <2>2, <2>4 DEF AtHome
<1>4. rat = "GSM" => AtHome(KeyOf(0, p.cid), rat)
  BY DEF AtHome, KeyOf
<1> QED BY <1>1, <1>2, <1>3, <1>4 DEF ResolvePassportKey

(* Every handler keeps the order and stays with its technology.            *)
LEMMA PassportEventTidy ==
  ASSUME CarriersApart, Orderly, NEW rat \in Rats, NEW eventKey \in Key,
         Named(eventKey, rat), NEW p \in Passport, PassportEvent(rat, eventKey, p)
  PROVE  Tidy(registry') /\ Spares(registry, registry', rat)
<1> DEFINE key == IF eventKey = NullKey THEN ResolvePassportKey(rat, p) ELSE eventKey
           moved == IF rat = "GSM" THEN RelocateGsmCid(registry, key, p.cid) ELSE registry
           bindTo == AttachKey(registry, rat, key, p)
           pass == Bindable(rat, bindTo, p)
<1>0. registry \in Registry /\ Tidy(registry) /\ TypeOK
  BY DEF Orderly, TypeOK
<1>1. key \in Key /\ (key # NullKey => AtHome(key, rat))
  BY <1>0, ResolveType, ResolveHome DEF Named
<1>2. CASE UNCHANGED registry
  BY <1>0, <1>2, SparesItself
<1>3. CASE rat = "LTE" /\ key.freq # 0 /\ registry' = FanoutWeak(registry, key, p)
  BY <1>0, <1>1, <1>3, FanoutWeakTidy, NullKeyType
<1>4. CASE key # NullKey /\ registry' = BindPassport(moved, rat, bindTo, pass)
  <2>1. moved \in Registry /\ Tidy(moved) /\ Spares(registry, moved, rat)
    BY <1>0, <1>1, <1>4, RelocateType, RelocateTidy, SparesItself
  <2>2. bindTo \in Key /\ pass \in Passport
    BY <1>0, <1>1, AttachKeyType, BindableType
  <2>3. AtHome(bindTo, rat)
    BY <1>0, <1>1, <1>4, AttachedRow DEF CompatiblePciRows, RowsOf, Tidy
  <2> HIDE DEF moved, bindTo, pass
  <2>4. Tidy(registry') /\ Spares(moved, registry', rat)
    BY <1>4, <2>1, <2>2, <2>3, BindTidy
  <2> QED BY <2>1, <2>4, SparesTrans
<1> QED BY <1>2, <1>3, <1>4 DEF PassportEvent

LEMMA ServingChangedTidy ==
  ASSUME CarriersApart, Orderly, NEW rat \in Rats, NEW eventKey \in Key,
         Named(eventKey, rat), NEW b \in BOOLEAN, ServingChanged(rat, eventKey, b)
  PROVE  Tidy(registry') /\ Spares(registry, registry', rat)
<1> DEFINE key == Target(rat, eventKey)
           arrived == Arrive(registry, rat, key)
           cleared == ClearServing(arrived, rat)
           chosen == [cleared EXCEPT ![key] =
                        [@ EXCEPT !.serving = TRUE, !.ever = Camps(arrived, key)]]
           left == [arrived EXCEPT ![key].serving = FALSE]
<1>0. registry \in Registry /\ Tidy(registry) /\ TypeOK /\ rat \in AllRats
  BY ConstantsAssumption DEF Orderly, TypeOK
<1>1. key \in Key /\ key.freq # 0 /\ AtHome(key, rat)
  BY <1>0, TargetType, TargetHome DEF ServingChanged, Named
<1>2. arrived \in Registry /\ Tidy(arrived) /\ Spares(registry, arrived, rat)
  BY <1>0, <1>1, ArriveType, ArriveTidy
<1>3. arrived[key].present /\ arrived[key].rat = rat
  BY <1>0, <1>1, PromoteType, TouchAt DEF Arrive
<1> HIDE DEF key, arrived
<1>4. cleared \in Registry /\ Tidy(cleared) /\ Spares(registry, cleared, rat)
  BY <1>2, ClearServingType, ClearServingTidy, SparesTrans
<1>5. /\ cleared[key].present /\ cleared[key].rat = rat
      /\ \A k \in Key : cleared[k].serving => cleared[k].rat # rat
  <2>1. \A k \in Key : cleared[k].serving => arrived[k].present
    BY <1>2, ClearServingAt DEF Tidy, NoRow
  <2> QED BY <1>1, <1>2, <1>3, <2>1, ClearServingAt DEF RowsOf
<1> HIDE DEF cleared
<1>6. Tidy(chosen) /\ Spares(registry, chosen, rat)
  <2>1. /\ \A k \in Key : k # key => chosen[k] = cleared[k]
        /\ chosen[key].present /\ chosen[key].rat = rat
    BY <1>1, <1>4, <1>5 DEF Registry, Row
  <2> HIDE DEF chosen
  <2> QED BY <1>1, <1>4, <1>5, <2>1 DEF Tidy, Spares
<1>7. Tidy(left) /\ Spares(registry, left, rat)
  <2>1. /\ \A k \in Key : k # key => left[k] = arrived[k]
        /\ left[key].present = arrived[key].present
        /\ left[key].rat = arrived[key].rat
        /\ ~left[key].serving
    BY <1>1, <1>2 DEF Registry, Row
  <2> HIDE DEF left
  <2>2. Thins(arrived, left) /\ Spares(arrived, left, rat)
    BY <1>1, <1>3, <2>1 DEF Thins, Spares
  <2> QED BY <1>2, <2>2, ThinsTidy, SparesTrans
<1> QED BY <1>6, <1>7 DEF ServingChanged, key, arrived, cleared, chosen, left

LEMMA RadioParamsTidy ==
  ASSUME CarriersApart, Orderly, NEW rat \in Rats, NEW eventKey \in Key,
         Named(eventKey, rat), NEW b \in BOOLEAN, RadioParams(rat, eventKey, b)
  PROVE  Tidy(registry') /\ Spares(registry, registry', rat)
<1> DEFINE key == Target(rat, eventKey)
           arrived == Arrive(registry, rat, key)
           applied == IF b /\ key.pci # 0 /\ ~(rat = "GSM" /\ key.freq = 0)
                      THEN [arrived EXCEPT ![key].rpci = key.pci] ELSE arrived
           only == CHOOSE c \in PendingCids : TRUE
           joined == IF TakesPending(applied, key)
                     THEN [applied EXCEPT ![key].pass = MergePassport(@, pending[only])]
                     ELSE applied
           cid == joined[key].pass.cid
<1>0. registry \in Registry /\ Tidy(registry) /\ TypeOK /\ rat \in AllRats
  BY ConstantsAssumption DEF Orderly, TypeOK
<1>1. key \in Key /\ AtHome(key, rat) /\ key.pci \in Pcis \cup GsmCids \cup {0}
  BY <1>0, TargetType, TargetHome DEF RadioParams, Named, Key
<1>2. arrived \in Registry /\ Tidy(arrived) /\ Spares(registry, arrived, rat)
  BY <1>0, <1>1, ArriveType, ArriveTidy
<1>3. arrived[key].present
  BY <1>0, <1>1, PromoteType, TouchAt DEF Arrive
<1> HIDE DEF key, arrived
<1>4. applied \in Registry
  BY <1>1, <1>2 DEF Registry, Row
<1>5. applied[key].present /\ Thins(arrived, applied) /\ Spares(arrived, applied, rat)
  BY <1>1, <1>2, <1>3 DEF Registry, Row, Thins, Spares
<1> HIDE DEF applied
<1>6. Tidy(applied) /\ Spares(registry, applied, rat)
  BY <1>2, <1>5, ThinsTidy, SparesTrans
<1>7. joined \in Registry /\ Tidy(joined) /\ Spares(registry, joined, rat)
  <2>1. CASE TakesPending(applied, key)
    <3>1. PendingCids # {}
      BY <2>1, FS_EmptySet DEF TakesPending
    <3>2. pending[only] \in Passport
      BY <1>0, <3>1 DEF PendingCids, TypeOK
    <3> HIDE DEF only
    <3> DEFINE to == [applied EXCEPT ![key].pass = MergePassport(@, pending[only])]
    <3>3. to \in Registry /\ Tidy(to) /\ Spares(applied, to, rat)
      BY <1>1, <1>4, <1>5, <1>6, <3>2, MergedRowType, MergeRowTidy
    <3>4. joined = to
      BY <2>1
    <3> HIDE DEF to, joined
    <3> QED BY <1>6, <3>3, <3>4, SparesTrans
  <2>2. CASE ~TakesPending(applied, key)
    BY <1>4, <1>6, <2>2
  <2> QED BY <2>1, <2>2
<1> HIDE DEF joined
<1>8. rat = "GSM" => /\ Tidy(RelocateGsmCid(joined, key, cid))
                     /\ Spares(registry, RelocateGsmCid(joined, key, cid), rat)
  BY <1>1, <1>7, RelocateTidy, SparesTrans
<1> QED BY <1>7, <1>8 DEF RadioParams, key, arrived, applied, joined

LEMMA ListedTidy ==
  ASSUME CarriersApart, NEW reg \in Registry, Tidy(reg), NEW rat \in Rats,
         NEW f \in Freqs \cup {0}, f # 0, f \in CarriersOf(rat),
         NEW p \in Pcis \cup GsmCids \cup {0}
  PROVE  /\ AtHome(KeyOf(f, p), rat)
         /\ Tidy(Touch(reg, KeyOf(f, p), rat))
         /\ Spares(reg, Touch(reg, KeyOf(f, p), rat), rat)
         /\ rat = "LTE" =>
              /\ Tidy(Touch(PromoteLteWeak(reg, KeyOf(f, p)), KeyOf(f, p), rat))
              /\ Spares(reg, Touch(PromoteLteWeak(reg, KeyOf(f, p)), KeyOf(f, p), rat), rat)
<1> DEFINE key == KeyOf(f, p)
           mid == PromoteLteWeak(reg, key)
<1>1. key \in Key /\ AtHome(key, rat)
  BY DEF KeyOf, Key, AtHome
<1> HIDE DEF key
<1>2. Tidy(Touch(reg, key, rat)) /\ Spares(reg, Touch(reg, key, rat), rat)
  BY <1>1, TouchTidy
<1>3. rat = "LTE" => mid \in Registry /\ Tidy(mid) /\ Spares(reg, mid, rat)
  BY <1>1, PromoteType, PromoteTidy
<1> HIDE DEF mid
<1>4. rat = "LTE" => Tidy(Touch(mid, key, rat)) /\ Spares(reg, Touch(mid, key, rat), rat)
  BY <1>1, <1>3, TouchTidy, SparesTrans
<1> QED BY <1>1, <1>2, <1>4 DEF key, mid

LEMMA LteMeasNeighborTidy ==
  ASSUME CarriersApart, Orderly, "LTE" \in Rats, NEW eventKey \in Key,
         Named(eventKey, "LTE"), NEW pci \in Pcis \cup {0}, NEW cgi \in Passport,
         LteMeasNeighbor(eventKey, pci, cgi)
  PROVE  Tidy(registry') /\ Spares(registry, registry', "LTE")
<1> DEFINE sk == ServingKey(registry, "LTE")
           earfcn == IF eventKey.freq # 0 THEN eventKey.freq ELSE sk.freq
           serving == IF eventKey = NullKey THEN sk ELSE eventKey
           key == KeyOf(earfcn, pci)
           arrived == Touch(PromoteLteWeak(registry, key), key, "LTE")
           source == IF arrived[serving].present THEN serving ELSE ServingKey(arrived, "LTE")
           inherits == IF source # NullKey /\ source.freq = earfcn
                       THEN InheritPlmn(arrived, key, arrived[source].pass) ELSE arrived
           measured == [inherits EXCEPT ![key].pass = MergePassport(@, cgi)]
           claimed == ClaimEci(measured, key, cgi.cid)
<1>0. registry \in Registry /\ Tidy(registry) /\ "LTE" \in AllRats
  BY DEF Orderly, TypeOK, AllRats
<1>1. sk \in Key
  BY <1>0, ServingKeyType, SMTT(40)
<1>2. earfcn \in Freqs \cup {0} /\ earfcn # 0 /\ serving \in Key
  BY <1>1 DEF Key, LteMeasNeighbor
<1>3. earfcn \in CarriersOf("LTE")
  <2>1. CASE eventKey.freq # 0
    BY <2>1, NullKeyType DEF Named, AtHome
  <2>2. CASE eventKey.freq = 0
    BY <1>0, <1>2, <2>2, ServingHome, NullKeyType DEF AtHome
  <2> QED BY <2>1, <2>2
<1>4. key \in Key /\ arrived \in Registry
  <2> HIDE DEF earfcn
  <2> QED BY <1>0, <1>2, ListedType
<1>5. AtHome(key, "LTE") /\ Tidy(arrived) /\ Spares(registry, arrived, "LTE")
  <2> HIDE DEF earfcn
  <2> QED BY <1>0, <1>2, <1>3, ListedTidy
<1>6. arrived[key].present
  <2> HIDE DEF key
  <2> QED BY <1>0, <1>4, PromoteType, TouchAt
<1> HIDE DEF sk, earfcn, serving, key, arrived
<1>7. source \in Key
  BY <1>2, <1>4, ServingKeyType
<1>8. /\ inherits \in Registry /\ inherits[key].present
      /\ Tidy(inherits) /\ Spares(registry, inherits, "LTE")
  <2>1. arrived[source].pass \in Passport
    BY <1>4, <1>7 DEF Registry, Row
  <2> QED BY <1>4, <1>5, <1>6, <2>1, InheritPlmnAt, InheritPlmnType, InheritTidy, SparesTrans
<1> HIDE DEF source, inherits
<1>9. measured \in Registry /\ Tidy(measured) /\ Spares(inherits, measured, "LTE")
  BY <1>4, <1>5, <1>8, MergedRowType, MergeRowTidy
<1>10. registry' = claimed \/ registry' = inherits
  BY DEF LteMeasNeighbor, sk, earfcn, serving, key, arrived, source, inherits
<1> HIDE DEF measured
<1>11. Tidy(claimed) /\ Spares(measured, claimed, "LTE")
  BY <1>9, ClaimTidy
<1> HIDE DEF claimed
<1> QED BY <1>8, <1>9, <1>10, <1>11, SparesTrans

LEMMA NrMeasNeighborTidy ==
  ASSUME CarriersApart, Orderly, "NR" \in Rats, NEW eventKey \in Key,
         Named(eventKey, "NR"), NEW pci \in Pcis \cup {0}, NEW cgi \in Passport,
         NrMeasNeighbor(eventKey, pci, cgi)
  PROVE  Tidy(registry') /\ Spares(registry, registry', "NR")
<1> DEFINE sk == ServingKey(registry, "NR")
           nrarfcn == IF eventKey.freq # 0 THEN eventKey.freq ELSE sk.freq
           key == KeyOf(nrarfcn, pci)
           arrived == Touch(registry, key, "NR")
           measured == [arrived EXCEPT ![key].pass = MergePassport(@, cgi)]
<1>0. registry \in Registry /\ Tidy(registry) /\ "NR" \in AllRats
  BY DEF Orderly, TypeOK, AllRats
<1>1. nrarfcn \in Freqs \cup {0} /\ nrarfcn # 0
  BY <1>0, ServingKeyType DEF Key, NrMeasNeighbor
<1>2. nrarfcn \in CarriersOf("NR")
  <2>1. CASE eventKey.freq # 0
    BY <2>1, NullKeyType DEF Named, AtHome
  <2>2. CASE eventKey.freq = 0
    BY <1>0, <1>1, <2>2, ServingHome, NullKeyType DEF AtHome
  <2> QED BY <2>1, <2>2
<1>3. key \in Key /\ arrived \in Registry
  <2> HIDE DEF nrarfcn
  <2> QED BY <1>0, <1>1, ListedType
<1>4. AtHome(key, "NR") /\ Tidy(arrived) /\ Spares(registry, arrived, "NR")
  <2> HIDE DEF nrarfcn
  <2> QED BY <1>0, <1>1, <1>2, ListedTidy
<1>5. arrived[key].present
  <2> HIDE DEF key
  <2> QED BY <1>0, <1>3, TouchAt
<1>6. registry' = measured \/ registry' = arrived
  BY DEF NrMeasNeighbor
<1> HIDE DEF sk, nrarfcn, key, arrived
<1>7. Tidy(measured) /\ Spares(arrived, measured, "NR")
  BY <1>3, <1>4, <1>5, MergeRowTidy
<1> HIDE DEF measured
<1> QED BY <1>4, <1>6, <1>7, SparesTrans

LEMMA SibIntraNeighborTidy ==
  ASSUME CarriersApart, Orderly, "LTE" \in Rats, NEW eventKey \in Key,
         Named(eventKey, "LTE"), NEW pci \in Pcis \cup {0}, SibIntraNeighbor(eventKey, pci)
  PROVE  Tidy(registry') /\ Spares(registry, registry', "LTE")
<1> DEFINE from == Target("LTE", eventKey)
           arrived == Arrive(registry, "LTE", from)
           earfcn == IF from.freq # 0 THEN from.freq ELSE ServingKey(arrived, "LTE").freq
           key == KeyOf(earfcn, pci)
           listed == Touch(PromoteLteWeak(arrived, key), key, "LTE")
           inherits == InheritPlmn(listed, key, arrived[from].pass)
<1>0. registry \in Registry /\ Tidy(registry) /\ TypeOK /\ "LTE" \in AllRats
  BY DEF Orderly, TypeOK, AllRats
<1>1. from \in Key /\ from.freq # 0 /\ AtHome(from, "LTE")
  BY <1>0, TargetType, TargetHome DEF SibIntraNeighbor, Named
<1>2. arrived \in Registry /\ Tidy(arrived) /\ Spares(registry, arrived, "LTE")
  BY <1>0, <1>1, ArriveType, ArriveTidy
<1> HIDE DEF from, arrived
<1>3. earfcn \in Freqs \cup {0} /\ earfcn # 0 /\ earfcn \in CarriersOf("LTE")
  BY <1>1 DEF Key, AtHome
<1> HIDE DEF earfcn
<1>4. /\ key \in Key /\ AtHome(key, "LTE") /\ listed \in Registry
      /\ Tidy(listed) /\ Spares(arrived, listed, "LTE")
  BY <1>0, <1>2, <1>3, ListedType, ListedTidy
<1>5. listed[key].present
  <2> HIDE DEF key
  <2> QED BY <1>2, <1>4, PromoteType, TouchAt
<1> HIDE DEF key, listed
<1>6. Tidy(inherits) /\ Spares(listed, inherits, "LTE")
  BY <1>4, <1>5, InheritTidy
<1>7. registry' = arrived \/ registry' = inherits
  BY DEF SibIntraNeighbor, from, arrived, earfcn, key, listed
<1> HIDE DEF inherits
<1> QED BY <1>2, <1>4, <1>6, <1>7, SparesTrans

LEMMA SibInterNeighborTidy ==
  ASSUME CarriersApart, Orderly, "LTE" \in Rats, NEW eventKey \in Key,
         Named(eventKey, "LTE"), NEW f \in Carriers["LTE"], NEW pci \in Pcis \cup {0},
         SibInterNeighbor(eventKey, f, pci)
  PROVE  Tidy(registry') /\ Spares(registry, registry', "LTE")
<1> DEFINE from == Target("LTE", eventKey)
           arrived == Arrive(registry, "LTE", from)
           key == KeyOf(f, pci)
           listed == Touch(PromoteLteWeak(arrived, key), key, "LTE")
<1>0. registry \in Registry /\ Tidy(registry) /\ TypeOK /\ "LTE" \in AllRats
  BY DEF Orderly, TypeOK, AllRats
<1>1. from \in Key /\ AtHome(from, "LTE")
  BY <1>0, TargetType, TargetHome DEF SibInterNeighbor, Named
<1>2. arrived \in Registry /\ Tidy(arrived) /\ Spares(registry, arrived, "LTE")
  BY <1>0, <1>1, ArriveType, ArriveTidy
<1>3. f \in Freqs \cup {0} /\ f # 0 /\ f \in CarriersOf("LTE")
  BY ConstantTypes, InputsNamed
<1>4. registry' = listed
  BY DEF SibInterNeighbor
<1> HIDE DEF arrived
<1>5. Tidy(listed) /\ Spares(arrived, listed, "LTE")
  BY <1>2, <1>3, ListedTidy
<1> HIDE DEF listed
<1> QED BY <1>2, <1>4, <1>5, SparesTrans

LEMMA GsmNeighborTidy ==
  ASSUME CarriersApart, Orderly, "GSM" \in Rats,
         NEW f \in Carriers["GSM"], NEW bsic \in Pcis \cup {0}, GsmNeighbor(f, bsic)
  PROVE  Tidy(registry') /\ Spares(registry, registry', "GSM")
<1> DEFINE key == KeyOf(f, bsic)
           absorbed == Absorb(registry, key, KeyOf(f, 0))
           arrived == Touch(absorbed, key, "GSM")
           stamped == [arrived EXCEPT ![key].rpci = bsic]
<1>0. registry \in Registry /\ Tidy(registry) /\ "GSM" \in AllRats
  BY DEF Orderly, TypeOK, AllRats
<1>1. f \in Freqs /\ f # 0 /\ f \in CarriersOf("GSM")
  BY ConstantTypes, InputsNamed
<1>2. /\ key \in Key /\ key.freq # 0 /\ AtHome(key, "GSM")
      /\ KeyOf(f, 0) \in Key /\ AtHome(KeyOf(f, 0), "GSM")
  BY <1>1 DEF KeyOf, Key, AtHome
<1>3. registry' = stamped \/ registry' = arrived
  BY DEF GsmNeighbor
<1> HIDE DEF key
<1>4. absorbed \in Registry /\ Tidy(absorbed) /\ Spares(registry, absorbed, "GSM")
  BY <1>0, <1>2, AbsorbType, AbsorbTidy
<1> HIDE DEF absorbed
<1>5. /\ arrived \in Registry /\ arrived[key].present
      /\ Tidy(arrived) /\ Spares(registry, arrived, "GSM")
  BY <1>0, <1>2, <1>4, TouchType, TouchAt, TouchTidy, SparesTrans
<1> HIDE DEF arrived
<1>6. Thins(arrived, stamped) /\ Spares(arrived, stamped, "GSM")
  BY <1>2, <1>5 DEF Registry, Row, Thins, Spares
<1> HIDE DEF stamped
<1> QED BY <1>3, <1>5, <1>6, ThinsTidy, SparesTrans

-----------------------------------------------------------------------------
(* All of it together: the registry stays in order, and each step spares   *)
(* the keys of all technologies but its own.                               *)

LEMMA NextOrderly ==
  ASSUME CarriersApart, Orderly, [Next]_vars
  PROVE  /\ Orderly'
         /\ \/ UNCHANGED registry
            \/ \E rat \in Rats : Spares(registry, registry', rat)
<1> USE ConstantTypes
<1>0. TypeOK /\ NoNullRow /\ registry \in Registry /\ Tidy(registry)
  BY DEF Orderly, TypeOK
<1>1. TypeOK' /\ NoNullRow'
  BY <1>0, NextType, NextStrips DEF NoNullRow, Present, Strips
<1>2. CASE \E in \in PassportInputs : PassportEvent(in.rat, in.key, in.pass)
  <2>1. PICK in \in PassportInputs : PassportEvent(in.rat, in.key, in.pass)
    BY <1>2
  <2>2. Tidy(registry') /\ Spares(registry, registry', in.rat)
    BY <2>1, InputsNamed, PassportEventTidy
  <2>3. hint'.arfcn = hint.arfcn
    BY <1>0, <2>1 DEF PassportEvent, TypeOK
  <2> QED BY <1>1, <2>2, <2>3 DEF Orderly
<1>3. CASE KeyedEvent
  <2>1. PICK in \in EventKeys :
          \/ \E b \in BOOLEAN : ServingChanged(in.rat, in.key, b)
          \/ \E b \in BOOLEAN : RadioParams(in.rat, in.key, b)
          \/ Observe(in.rat, in.key)
    BY <1>3 DEF KeyedEvent
  <2>2. in.rat \in Rats /\ in.rat \in AllRats /\ in.key \in Key /\ Named(in.key, in.rat)
    BY InputsNamed
  <2>3. ASSUME Observe(in.rat, in.key)
        PROVE  Tidy(registry') /\ Spares(registry, registry', in.rat)
    <3>1. Target(in.rat, in.key) \in Key /\ AtHome(Target(in.rat, in.key), in.rat)
      BY <1>0, <2>2, <2>3, TargetType, TargetHome DEF Observe, Named
    <3> QED BY <1>0, <2>2, <2>3, <3>1, ArriveTidy DEF Observe
  <2>4. Tidy(registry') /\ Spares(registry, registry', in.rat)
    BY <2>1, <2>2, <2>3, ServingChangedTidy, RadioParamsTidy, SMTT(40)
  <2>5. UNCHANGED hint
    BY <2>1, ZenonT(60) DEF ServingChanged, RadioParams, Observe
  <2> QED BY <1>1, <2>2, <2>4, <2>5 DEF Orderly
<1>4. CASE LteNeighborList
  <2>1. UNCHANGED hint /\ "LTE" \in Rats
    BY <1>4 DEF LteNeighborList, LteMeasNeighbor, SibIntraNeighbor, SibInterNeighbor
  <2>2. Tidy(registry') /\ Spares(registry, registry', "LTE")
    <3>1. CASE \E in \in CgiInputs :
                 in.rat = "LTE" /\ LteMeasNeighbor(in.key, in.pci, in.pass)
      BY <2>1, <3>1, InputsNamed, LteMeasNeighborTidy
    <3>2. CASE \E in \in EventKeys, pci \in Pcis \cup {0} :
                 in.rat = "LTE" /\ SibIntraNeighbor(in.key, pci)
      BY <2>1, <3>2, InputsNamed, SibIntraNeighborTidy
    <3>3. CASE \E in \in EventKeys, f \in Carriers["LTE"], pci \in Pcis \cup {0} :
                 in.rat = "LTE" /\ SibInterNeighbor(in.key, f, pci)
      BY <2>1, <3>3, InputsNamed, SibInterNeighborTidy
    <3> QED BY <1>4, <3>1, <3>2, <3>3 DEF LteNeighborList
  <2> QED BY <1>1, <2>1, <2>2 DEF Orderly
<1>5. CASE OtherNeighborList
  <2>1. CASE \E in \in CgiInputs : in.rat = "NR" /\ NrMeasNeighbor(in.key, in.pci, in.pass)
    <3>1. /\ "NR" \in Rats /\ UNCHANGED hint
          /\ Tidy(registry') /\ Spares(registry, registry', "NR")
      BY <2>1, InputsNamed, NrMeasNeighborTidy DEF NrMeasNeighbor
    <3> QED BY <1>1, <3>1 DEF Orderly
  <2>2. CASE "GSM" \in Rats /\ \E f \in Carriers["GSM"], bsic \in Pcis \cup {0} :
               GsmNeighbor(f, bsic)
    <3>1. Tidy(registry') /\ Spares(registry, registry', "GSM") /\ UNCHANGED hint
      BY <2>2, GsmNeighborTidy DEF GsmNeighbor
    <3> QED BY <1>1, <2>2, <3>1 DEF Orderly
  <2>3. CASE "WCDMA" \in Rats /\ \E f \in Carriers["WCDMA"], psc \in Pcis :
               WcdmaNeighbor(f, psc)
    <3>1. PICK f \in Carriers["WCDMA"], psc \in Pcis : WcdmaNeighbor(f, psc)
      BY <2>3
    <3>2. f \in Freqs \cup {0} /\ f # 0 /\ f \in CarriersOf("WCDMA")
      BY <2>3, InputsNamed
    <3>3. Tidy(registry') /\ Spares(registry, registry', "WCDMA")
      BY <1>0, <2>3, <3>1, <3>2, ListedTidy DEF WcdmaNeighbor
    <3> QED BY <1>1, <2>3, <3>1, <3>3 DEF Orderly, WcdmaNeighbor
  <2>4. CASE "GSM" \in Rats /\ \E f \in Carriers["GSM"] : SetSurroundHint(f)
    <3>1. UNCHANGED registry /\ hint'.arfcn \in CarriersOf("GSM")
      BY <2>4, InputsNamed DEF SetSurroundHint
    <3> QED BY <1>0, <1>1, <2>4, <3>1 DEF Orderly
  <2> QED BY <1>5, <2>1, <2>2, <2>3, <2>4 DEF OtherNeighborList
<1>6. CASE UNCHANGED vars
  BY <1>0, <1>1, <1>6 DEF vars, Orderly
<1> QED BY <1>2, <1>3, <1>4, <1>5, <1>6 DEF Next

LEMMA InitOrderly == Init => Orderly
<1>1. Init => TypeOK
  BY NoRowType DEF Init, TypeOK, Registry
<1>2. Init => NoNullRow /\ Tidy(registry) /\ hint.arfcn = 0
  BY NullKeyType DEF Init, NoNullRow, Present, NoRow, Tidy
<1> QED BY <1>1, <1>2 DEF Orderly

(* With carriers apart, one row of a technology at most is the serving one *)
(* at any moment, whatever was promoted, absorbed or relocated before.     *)
THEOREM OneServes == CarriersApart => (Spec => []OneServingPerRat)
<1> SUFFICES ASSUME CarriersApart PROVE Spec => []OneServingPerRat
  OBVIOUS
<1>1. Orderly /\ [Next]_vars => Orderly'
  BY NextOrderly
<1>2. Orderly => OneServingPerRat
  BY DEF Orderly, Tidy, OneServingPerRat
<1> QED BY InitOrderly, <1>1, <1>2, PTL DEF Spec

(* With carriers apart, a row keeps the technology it was made for: no     *)
(* event reaches a row of another.                                         *)
THEOREM RatStays == CarriersApart => (Spec => RatIsStable)
<1> SUFFICES ASSUME CarriersApart PROVE Spec => RatIsStable
  OBVIOUS
<1>1. Orderly /\ [Next]_vars => Orderly'
  BY NextOrderly
<1>2. Orderly /\ Orderly' =>
        [\A k \in Key : Present(k) /\ registry'[k].present
           => registry'[k].rat = registry[k].rat]_vars
  <2> SUFFICES ASSUME Orderly, Orderly', NEW k \in Key,
                      registry[k].present, registry'[k].present
               PROVE  registry'[k].rat = registry[k].rat
    BY DEF Present
  <2>1. /\ registry[k].rat \in Rats /\ AtHome(k, registry[k].rat)
        /\ registry'[k].rat \in Rats /\ AtHome(k, registry'[k].rat)
    BY DEF Orderly, Tidy
  <2> QED BY <2>1, HomeUnique
<1> QED BY InitOrderly, <1>1, <1>2, PTL DEF Spec, RatIsStable

-----------------------------------------------------------------------------
(* Identity and TAC of a merge are those of one of the two passports.      *)

LEMMA MergeIds ==
  ASSUME NEW d \in Passport, NEW s \in Passport
  PROVE  LET m == MergePassport(d, s) IN
         /\ m.cid \in {d.cid, s.cid} /\ m.tac \in {d.tac, s.tac}
         /\ s.cid = 0 => m.cid = d.cid
         /\ s.tac = 0 => m.tac = d.tac
         /\ d.cid # 0 => m.cid # 0
BY DEF MergePassport, ValidCid

(* An event of another technology leaves the rows of this one alone.       *)
LEMMA OthersUntouched ==
  ASSUME CarriersApart, NEW reg, Tidy(reg), NEW to, Tidy(to),
         NEW rat \in Rats, NEW other, other # rat, Spares(reg, to, rat)
  PROVE  /\ RowsOf(to, other) = RowsOf(reg, other)
         /\ \A k \in RowsOf(to, other) : to[k] = reg[k]
<1>1. ASSUME NEW k \in Key, AtHome(k, rat)
      PROVE  k \notin RowsOf(reg, other) /\ k \notin RowsOf(to, other)
  BY <1>1, HomeUnique DEF Tidy, RowsOf
<1>2. \A k \in Key : ~AtHome(k, rat) => to[k] = reg[k]
  BY DEF Spares
<1> QED BY <1>1, <1>2 DEF RowsOf

-----------------------------------------------------------------------------
(* LTE rows.  Most steps only copy identities from a row to itself, and    *)
(* new rows have none.                                                     *)

Copies(reg, to) ==
  \A k \in RowsOf(to, "LTE") :
    \/ /\ k \in RowsOf(reg, "LTE")
       /\ to[k].pass.cid = reg[k].pass.cid /\ to[k].pass.tac = reg[k].pass.tac
       /\ to[k].ever => reg[k].ever
       /\ k.pci = 0 /\ to[k].serving => reg[k].serving
    \/ /\ to[k].pass.cid = 0 /\ to[k].pass.tac = 0 /\ ~to[k].ever
       /\ k.pci = 0 => ~to[k].serving

(* EARFCN|0 rows are bare, and never count as camped.                      *)
BareWeak(reg) ==
  \A k \in RowsOf(reg, "LTE") : k.pci = 0 =>
    reg[k].pass.cid = 0 /\ reg[k].pass.tac = 0 /\ ~reg[k].ever

LEMMA CopiesTrans ==
  ASSUME NEW reg, NEW mid, NEW to, Copies(reg, mid), Copies(mid, to)
  PROVE  Copies(reg, to)
BY DEF Copies

LEMMA CopiesItself ==
  ASSUME NEW reg
  PROVE  Copies(reg, reg)
BY DEF Copies

LEMMA CopiesWeak ==
  ASSUME NEW reg, NEW to, BareWeak(reg), Copies(reg, to)
  PROVE  BareWeak(to)
BY DEF BareWeak, Copies

LEMMA TouchCopies ==
  ASSUME CarriersApart, NEW reg \in Registry, Tidy(reg),
         "LTE" \in Rats, NEW key \in Key, AtHome(key, "LTE")
  PROVE  Copies(reg, Touch(reg, key, "LTE"))
<1> DEFINE to == Touch(reg, key, "LTE")
<1>1. /\ \A k \in Key : k # key => to[k] = reg[k]
      /\ to[key].serving = reg[key].serving /\ to[key].ever = reg[key].ever
      /\ to[key].pass = reg[key].pass
  BY TouchAt
<1>2. reg[key] = NoRow \/ key \in RowsOf(reg, "LTE")
  BY HomeUnique DEF Tidy, RowsOf
<1> HIDE DEF to
<1>3. Copies(reg, to)
  BY <1>1, <1>2 DEF Copies, RowsOf, NoRow, NoPass
<1> QED BY <1>3 DEF to

LEMMA PromoteCopies ==
  ASSUME CarriersApart, NEW reg \in Registry, Tidy(reg), BareWeak(reg),
         "LTE" \in Rats, NEW key \in Key, AtHome(key, "LTE")
  PROVE  Copies(reg, PromoteLteWeak(reg, key))
<1> DEFINE src == KeyOf(key.freq, 0)
           to == Absorb(reg, key, src)
<1>1. CASE key.freq = 0 \/ key.pci = 0 \/ key = src \/ ~reg[src].present
  BY <1>1, AbsorbNothing, CopiesItself DEF PromoteLteWeak
<1>2. CASE key.freq # 0 /\ key.pci # 0 /\ key # src /\ reg[src].present
  <2>1. src \in Key /\ src.pci = 0 /\ AtHome(src, "LTE")
    BY DEF Key, KeyOf, AtHome
  <2> HIDE DEF src
  <2>2. src \in RowsOf(reg, "LTE")
    BY <1>2, <2>1, HomeUnique DEF Tidy, RowsOf
  <2>3. reg[src].pass.cid = 0 /\ reg[src].pass.tac = 0 /\ ~reg[src].ever
    BY <2>1, <2>2 DEF BareWeak
  <2>4. /\ \A k \in Key : k # key /\ k # src => to[k] = reg[k]
        /\ to[src] = NoRow
        /\ to[key].ever = (reg[key].ever \/ reg[src].ever)
        /\ to[key].pass = MergePassport(reg[key].pass, reg[src].pass)
    BY <1>2, <2>1, AbsorbAt
  <2>5. /\ to[key].pass.cid = reg[key].pass.cid /\ to[key].pass.tac = reg[key].pass.tac
        /\ to[key].ever => reg[key].ever
    <3>1. reg[key].pass \in Passport /\ reg[src].pass \in Passport
      BY <2>1 DEF Registry, Row
    <3>2. /\ MergePassport(reg[key].pass, reg[src].pass).cid = reg[key].pass.cid
          /\ MergePassport(reg[key].pass, reg[src].pass).tac = reg[key].pass.tac
      BY <2>3, <3>1, MergeIds
    <3> HIDE DEF to
    <3> QED BY <2>3, <2>4, <3>2
  <2>6. reg[key] = NoRow \/ key \in RowsOf(reg, "LTE")
    BY HomeUnique DEF Tidy, RowsOf
  <2> HIDE DEF to
  <2>7. ASSUME NEW k \in RowsOf(to, "LTE"), k # key
        PROVE  to[k] = reg[k] /\ k \in RowsOf(reg, "LTE")
    BY <2>4, <2>7 DEF RowsOf, NoRow
  <2>8. Copies(reg, to)
    BY <1>2, <2>5, <2>6, <2>7 DEF Copies, NoRow, NoPass
  <2> QED BY <1>2, <2>8 DEF PromoteLteWeak, to, src
<1> QED BY <1>1, <1>2

LEMMA ArriveCopies ==
  ASSUME CarriersApart, NEW reg \in Registry, Tidy(reg), BareWeak(reg),
         "LTE" \in Rats, NEW key \in Key, AtHome(key, "LTE")
  PROVE  LET to == Touch(PromoteLteWeak(reg, key), key, "LTE") IN
         /\ to \in Registry /\ Tidy(to) /\ Copies(reg, to)
         /\ Arrive(reg, "LTE", key) = to
         /\ key \in RowsOf(to, "LTE")
<1> DEFINE mid == PromoteLteWeak(reg, key)
           to == Touch(mid, key, "LTE")
<1>1. mid \in Registry /\ Tidy(mid) /\ Copies(reg, mid)
  BY PromoteType, PromoteTidy, PromoteCopies
<1>2. Arrive(reg, "LTE", key) = to
  BY DEF Arrive
<1> HIDE DEF mid
<1>3. to \in Registry /\ Tidy(to) /\ Copies(mid, to) /\ key \in RowsOf(to, "LTE")
  BY <1>1, TouchType, TouchAt, TouchTidy, TouchCopies DEF AllRats, RowsOf
<1> HIDE DEF to
<1>4. Copies(reg, to)
  BY <1>1, <1>3, CopiesTrans
<1> QED BY <1>2, <1>3, <1>4 DEF to, mid

LEMMA FanoutCopies ==
  ASSUME NEW reg \in Registry, NEW freq, NEW p \in Passport
  PROVE  Copies(reg, FanoutPlmn(reg, freq, p))
BY FanoutPlmnAt DEF Copies, RowsOf

LEMMA InheritCopies ==
  ASSUME NEW reg \in Registry, NEW key \in Key, NEW src
  PROVE  Copies(reg, InheritPlmn(reg, key, src))
<1>1. \A k \in Key : k # key => InheritPlmn(reg, key, src)[k] = reg[k]
  BY InheritPlmnAt
<1> QED BY <1>1, InheritPlmnAt DEF Copies, RowsOf

LEMMA ClearServingCopies ==
  ASSUME NEW reg \in Registry, NEW rat
  PROVE  Copies(reg, ClearServing(reg, rat))
BY ClearServingAt DEF Copies, RowsOf

(* A passport without identity and TAC adds neither.                       *)
LEMMA FanoutWeakCopies ==
  ASSUME NEW reg \in Registry, NEW key \in Key, NEW p \in Passport, p.cid = 0, p.tac = 0
  PROVE  Copies(reg, FanoutWeak(reg, key, p))
<1> DEFINE to == FanoutWeak(reg, key, p)
<1>1. ASSUME NEW k \in RowsOf(to, "LTE")
      PROVE  /\ k \in RowsOf(reg, "LTE") /\ to[k].ever = reg[k].ever
             /\ to[k].serving = reg[k].serving
             /\ to[k].pass = reg[k].pass \/ to[k].pass = MergePassport(reg[k].pass, p)
  BY DEF FanoutWeak, RowsOf, CompatiblePciRows, Registry, Row, NoRow
<1>2. \A k \in RowsOf(to, "LTE") : reg[k].pass \in Passport
  BY <1>1 DEF RowsOf, Registry, Row
<1> HIDE DEF to
<1>3. Copies(reg, to)
  BY <1>1, <1>2, MergeIds DEF Copies
<1> QED BY <1>3 DEF to
-----------------------------------------------------------------------------
(* One row for each ECI.                                                   *)

HeldCids(reg) == {reg[k].pass.cid : k \in RowsOf(reg, "LTE")}

LteRules(reg) ==
  /\ BareWeak(reg)
  /\ \A k \in RowsOf(reg, "LTE") : k.pci = 0 => ~reg[k].serving
  /\ \A k, j \in RowsOf(reg, "LTE") :
       reg[k].pass.cid # 0 /\ reg[k].pass.cid = reg[j].pass.cid => k = j

LEMMA CopiesRules ==
  ASSUME NEW reg, NEW to, LteRules(reg), Copies(reg, to)
  PROVE  LteRules(to) /\ HeldCids(to) \subseteq HeldCids(reg) \cup {0}
<1>1. \A k \in RowsOf(to, "LTE") : k.pci = 0 => ~to[k].serving
  BY DEF Copies, LteRules
<1>2. \A k \in RowsOf(to, "LTE") :
        to[k].pass.cid = 0 \/ (k \in RowsOf(reg, "LTE") /\ to[k].pass.cid = reg[k].pass.cid)
  BY DEF Copies
<1>3. \A k, j \in RowsOf(to, "LTE") :
        to[k].pass.cid # 0 /\ to[k].pass.cid = to[j].pass.cid => k = j
  BY <1>2 DEF LteRules
<1>4. HeldCids(to) \subseteq HeldCids(reg) \cup {0}
  BY <1>2 DEF HeldCids
<1> QED BY <1>1, <1>3, <1>4, CopiesWeak DEF LteRules

(* Row key of reg merges p, and nothing else happens.                      *)
Learns(reg, to, key, p) ==
  /\ \A k \in Key : k # key => to[k] = reg[k]
  /\ to[key].present = reg[key].present /\ to[key].rat = reg[key].rat
  /\ to[key].serving = reg[key].serving
  /\ to[key].pass = MergePassport(reg[key].pass, p)

(* A physical row takes an identity that no row holds.                     *)
LEMMA LearnsFresh ==
  ASSUME NEW reg \in Registry, LteRules(reg), NEW key \in RowsOf(reg, "LTE"), key.pci # 0,
         NEW p \in Passport, p.cid = 0 \/ p.cid \notin HeldCids(reg),
         NEW to, Learns(reg, to, key, p)
  PROVE  LteRules(to) /\ HeldCids(to) \subseteq HeldCids(reg) \cup {p.cid}
<1>1. reg[key].pass \in Passport /\ key \in Key
  BY DEF Registry, Row, RowsOf
<1>2. RowsOf(to, "LTE") = RowsOf(reg, "LTE")
  BY <1>1 DEF Learns, RowsOf
<1>3. to[key].pass.cid \in {reg[key].pass.cid, p.cid} /\ (p.cid = 0 => to[key].pass.cid = reg[key].pass.cid)
  <2>1. LET m == MergePassport(reg[key].pass, p) IN
          m.cid \in {reg[key].pass.cid, p.cid} /\ (p.cid = 0 => m.cid = reg[key].pass.cid)
    BY <1>1, MergeIds
  <2> QED BY <2>1 DEF Learns
<1>4. \A k \in RowsOf(reg, "LTE") : k # key => to[k] = reg[k]
  BY DEF Learns, RowsOf
<1>5. \A k \in RowsOf(reg, "LTE") : p.cid # 0 => reg[k].pass.cid # p.cid
  BY DEF HeldCids
<1>6. \A k, j \in RowsOf(to, "LTE") :
        to[k].pass.cid # 0 /\ to[k].pass.cid = to[j].pass.cid => k = j
  BY <1>2, <1>3, <1>4, <1>5 DEF LteRules
<1>7. BareWeak(to) /\ \A k \in RowsOf(to, "LTE") : k.pci = 0 => ~to[k].serving
  BY <1>2, <1>4 DEF LteRules, BareWeak
<1>8. HeldCids(to) \subseteq HeldCids(reg) \cup {p.cid}
  BY <1>2, <1>3, <1>4 DEF HeldCids
<1> QED BY <1>6, <1>7, <1>8 DEF LteRules

(* A physical row takes an identity and claims it.                         *)
LEMMA LearnsClaiming ==
  ASSUME NEW reg \in Registry, LteRules(reg), NEW key \in RowsOf(reg, "LTE"), key.pci # 0,
         NEW p \in Passport, NEW mid \in Registry, Learns(reg, mid, key, p)
  PROVE  LET to == ClaimEci(mid, key, p.cid) IN
         LteRules(to) /\ HeldCids(to) \subseteq HeldCids(reg) \cup {0, p.cid}
<1> DEFINE to == ClaimEci(mid, key, p.cid)
<1>1. reg[key].pass \in Passport /\ key \in Key
  BY DEF Registry, Row, RowsOf
<1>2. RowsOf(mid, "LTE") = RowsOf(reg, "LTE") /\ RowsOf(to, "LTE") = RowsOf(mid, "LTE")
  BY <1>1, ClaimEciAt DEF Learns, RowsOf
<1>3. mid[key].pass.cid \in {reg[key].pass.cid, p.cid}
      /\ (p.cid = 0 => mid[key].pass.cid = reg[key].pass.cid)
  <2>1. LET m == MergePassport(reg[key].pass, p) IN
          m.cid \in {reg[key].pass.cid, p.cid} /\ (p.cid = 0 => m.cid = reg[key].pass.cid)
    BY <1>1, MergeIds
  <2> QED BY <2>1 DEF Learns
<1>4. \A k \in RowsOf(reg, "LTE") : k \in Key /\ mid[k].pass \in Passport /\ (k # key => mid[k] = reg[k])
  BY <1>2 DEF Learns, RowsOf, Registry, Row
<1>5. \A k \in RowsOf(reg, "LTE") :
        \/ to[k] = mid[k] /\ (k # key /\ p.cid # 0 => to[k].pass.cid # p.cid)
        \/ /\ k # key /\ to[k].pass = WithoutIdentity(mid[k].pass)
           /\ to[k].serving = mid[k].serving /\ to[k].ever = mid[k].ever
  BY <1>2, <1>4, ClaimEciAt
<1>6. \A k \in RowsOf(reg, "LTE") :
        \/ to[k] = mid[k] /\ (k # key /\ p.cid # 0 => to[k].pass.cid # p.cid)
        \/ /\ k # key /\ to[k].pass.cid = 0 /\ to[k].pass.tac = 0
           /\ to[k].serving = mid[k].serving /\ to[k].ever = mid[k].ever
  BY <1>4, <1>5 DEF WithoutIdentity, Passport
<1> HIDE DEF to
<1>7. \A k, j \in RowsOf(reg, "LTE") :
        to[k].pass.cid # 0 /\ to[k].pass.cid = to[j].pass.cid => k = j
  BY <1>3, <1>4, <1>6 DEF LteRules
<1>8. BareWeak(to) /\ \A k \in RowsOf(reg, "LTE") : k.pci = 0 => ~to[k].serving
  BY <1>2, <1>4, <1>6 DEF LteRules, BareWeak
<1>9. HeldCids(to) \subseteq HeldCids(reg) \cup {0, p.cid}
  BY <1>2, <1>3, <1>4, <1>6 DEF HeldCids
<1>10. LteRules(to)
  BY <1>2, <1>7, <1>8 DEF LteRules
<1> QED BY <1>9, <1>10 DEF to

(* The two ways to learn.                                                  *)
LEMMA MergeIntoLearns ==
  ASSUME NEW reg \in Registry, NEW key \in Key, NEW p
  PROVE  Learns(reg, MergeInto(reg, key, p), key, p)
BY MergeIntoAt DEF Learns

LEMMA MergeRowLearns ==
  ASSUME NEW reg \in Registry, NEW key \in Key, NEW p
  PROVE  Learns(reg, [reg EXCEPT ![key].pass = MergePassport(@, p)], key, p)
BY DEF Learns, Registry, Row
(* An EARFCN|0 row merges a passport that was stripped for it.             *)
LEMMA MergeWeakCopies ==
  ASSUME NEW reg \in Registry, BareWeak(reg), NEW key \in RowsOf(reg, "LTE"), key.pci = 0,
         NEW p \in Passport, p.cid = 0, p.tac = 0
  PROVE  Copies(reg, MergeInto(reg, key, p))
<1> DEFINE to == MergeInto(reg, key, p)
<1>1. key \in Key /\ reg[key].pass \in Passport /\ reg[key].pass.cid = 0
  BY DEF RowsOf, Registry, Row, BareWeak
<1>2. /\ MergePassport(reg[key].pass, p).cid = 0
      /\ MergePassport(reg[key].pass, p).tac = reg[key].pass.tac
  BY <1>1, MergeIds
<1>3. /\ to[key].pass.cid = reg[key].pass.cid /\ to[key].pass.tac = reg[key].pass.tac
      /\ to[key].ever => reg[key].ever
      /\ to[key].serving = reg[key].serving
      /\ \A k \in Key : k # key => to[k] = reg[k]
  BY <1>1, <1>2, MergeIntoAt, ZenonT(60)
<1> HIDE DEF to
<1>4. Copies(reg, to)
  BY <1>3 DEF Copies, RowsOf
<1> QED BY <1>4 DEF to

(* An event binds a passport to an LTE row.                                *)
LEMMA BindRules ==
  ASSUME CarriersApart, "LTE" \in Rats, NEW reg \in Registry, Tidy(reg), LteRules(reg),
         NEW key \in Key, AtHome(key, "LTE"), NEW p \in Passport,
         key.pci = 0 => p.cid = 0 /\ p.tac = 0
  PROVE  /\ LteRules(BindPassport(reg, "LTE", key, p))
         /\ HeldCids(BindPassport(reg, "LTE", key, p)) \subseteq HeldCids(reg) \cup {0, p.cid}
<1> DEFINE arrived == Arrive(reg, "LTE", key)
           merged == MergeInto(arrived, key, p)
           claimed == IF p.cid # 0 THEN ClaimEci(merged, key, p.cid) ELSE merged
           fanned == FanoutPlmn(claimed, key.freq, p)
<1>1. key.freq # 0
  BY DEF AtHome
<1>2. arrived \in Registry /\ Copies(reg, arrived) /\ key \in RowsOf(arrived, "LTE")
  BY ArriveCopies DEF LteRules
<1> HIDE DEF arrived
<1>3. LteRules(arrived) /\ HeldCids(arrived) \subseteq HeldCids(reg) \cup {0}
  BY <1>2, CopiesRules
<1>4. merged \in Registry /\ Learns(arrived, merged, key, p)
  BY <1>2, MergeIntoType, MergeIntoLearns
<1>5. CASE key.pci # 0
  <2> HIDE DEF merged
  <2>1. claimed \in Registry
    BY <1>4, ClaimEciType
  <2>2. LteRules(claimed) /\ HeldCids(claimed) \subseteq HeldCids(arrived) \cup {0, p.cid}
    <3>1. CASE p.cid # 0
      BY <1>2, <1>3, <1>4, <1>5, <3>1, LearnsClaiming
    <3>2. CASE p.cid = 0
      BY <1>2, <1>3, <1>4, <1>5, <3>2, LearnsFresh
    <3> QED BY <3>1, <3>2
  <2>3. BindPassport(reg, "LTE", key, p) = fanned
    BY <1>1, <1>5 DEF BindPassport, IsLtePci, arrived, merged
  <2> HIDE DEF claimed
  <2>4. LteRules(fanned) /\ HeldCids(fanned) \subseteq HeldCids(claimed) \cup {0}
    BY <2>1, <2>2, FanoutCopies, CopiesRules
  <2> HIDE DEF fanned
  <2> QED BY <1>3, <2>2, <2>3, <2>4
<1>6. CASE key.pci = 0
  <2>1. BindPassport(reg, "LTE", key, p) = merged
    BY <1>6 DEF BindPassport, IsLtePci, arrived
  <2>2. Copies(arrived, merged)
    BY <1>2, <1>3, <1>6, MergeWeakCopies DEF LteRules
  <2> HIDE DEF merged
  <2>3. LteRules(merged) /\ HeldCids(merged) \subseteq HeldCids(arrived) \cup {0}
    BY <1>3, <2>2, CopiesRules
  <2> QED BY <1>3, <2>1, <2>3
<1> QED BY <1>5, <1>6

(* A passport without identity fans out to the physical rows of a carrier. *)
LEMMA FanoutWeakRules ==
  ASSUME NEW reg \in Registry, LteRules(reg), NEW key \in Key, NEW p \in Passport, p.cid = 0
  PROVE  /\ LteRules(FanoutWeak(reg, key, p))
         /\ HeldCids(FanoutWeak(reg, key, p)) \subseteq HeldCids(reg)
<1> DEFINE to == FanoutWeak(reg, key, p)
<1>1. ASSUME NEW k \in RowsOf(to, "LTE")
      PROVE  /\ k \in RowsOf(reg, "LTE") /\ to[k].ever = reg[k].ever
             /\ to[k].serving = reg[k].serving
             /\ \/ to[k].pass = reg[k].pass
                \/ k.pci # 0 /\ to[k].pass = MergePassport(reg[k].pass, p)
  BY DEF FanoutWeak, RowsOf, CompatiblePciRows, Registry, Row, NoRow
<1>2. \A k \in RowsOf(to, "LTE") : reg[k].pass \in Passport
  BY <1>1 DEF RowsOf, Registry, Row
<1>3. \A k \in RowsOf(to, "LTE") : to[k].pass.cid = reg[k].pass.cid
  <2>1. \A k \in RowsOf(to, "LTE") : MergePassport(reg[k].pass, p).cid = reg[k].pass.cid
    BY <1>2, MergeIds
  <2> QED BY <1>1, <2>1
<1> HIDE DEF to
<1>4. LteRules(to)
  BY <1>1, <1>3 DEF LteRules, BareWeak
<1>5. HeldCids(to) \subseteq HeldCids(reg)
  BY <1>1, <1>3 DEF HeldCids
<1> QED BY <1>4, <1>5 DEF to

-----------------------------------------------------------------------------
(* Pending passports wait for an identity that no LTE row holds, and came  *)
(* without a key.                                                          *)

PendingApart ==
  \A c \in Cids : pending[c].cid # 0 =>
    /\ pending[c].cid = c /\ c \notin HeldCids(registry)
    /\ \E in \in PassportInputs : in.key = NullKey /\ in.pass.cid = c

IdentityInv == Orderly /\ LteRules(registry) /\ PendingApart

LEMMA UnknownIsUnheld ==
  ASSUME Orderly, NEW cid, FindKeyByCid(registry, "LTE", cid) = NullKey
  PROVE  cid \notin HeldCids(registry)
<1> DEFINE holders == {k \in RowsOf(registry, "LTE") : registry[k].pass.cid = cid}
<1>1. holders \in SUBSET Key /\ NullKey \notin holders
  BY DEF RowsOf, Orderly, NoNullRow, Present
<1>2. holders # {} => FindKeyByCid(registry, "LTE", cid) \in holders
  BY <1>1, FirstKeyIn DEF FindKeyByCid
<1> HIDE DEF holders
<1>3. holders = {}
  BY <1>1, <1>2
<1> QED BY <1>3 DEF holders, HeldCids

(* Only an LTE passport is left pending.                                   *)
LEMMA OnlyLtePends ==
  ASSUME Orderly, OnlyLteWaits, NEW in \in PassportInputs, in.key = NullKey,
         in.pass.cid # 0, ResolvePassportKey(in.rat, in.pass) = NullKey
  PROVE  /\ in.rat = "LTE"
         /\ in.pass.cid \notin HeldCids(registry)
<1> DEFINE rat == in.rat
           p == in.pass
<1>1. FindKeyByCid(registry, rat, p.cid) = NullKey
  BY DEF ResolvePassportKey
<1>2. rat = "LTE"
  <2> SUFFICES ASSUME rat # "LTE" PROVE FALSE
    OBVIOUS
  <2>1. rat = "GSM" /\ p.cid \in GsmCids
    BY DEF OnlyLteWaits
  <2>2. ServingAccepts(rat, p) => ServingKey(registry, rat) # NullKey
    BY DEF ServingAccepts
  <2>3. SurroundHintApplies(rat, p) => SurroundRow # NullKey
    <3> DEFINE rows == {k \in RowsOf(registry, "GSM") : k.freq = hint.arfcn /\ k.pci # 0}
    <3>1. rows # {} => FirstKey(rows) \in rows
      BY FirstKeyIn DEF RowsOf
    <3>2. SurroundRow.freq = hint.arfcn
      BY <3>1 DEF SurroundRow, KeyOf
    <3> QED BY <3>2, NullKeyType DEF SurroundHintApplies
  <2>4. KeyOf(0, p.cid) # NullKey
    BY DEF KeyOf, NullKey
  <2> QED BY <1>1, <2>1, <2>2, <2>3, <2>4 DEF ResolvePassportKey
<1> QED BY <1>1, <1>2, UnknownIsUnheld

(* Pending passports stay apart while rows learn nothing but what is       *)
(* forgotten here.                                                         *)
LEMMA PendingStaysApart ==
  ASSUME PendingApart, TypeOK, NEW cid,
         HeldCids(registry)' \subseteq HeldCids(registry) \cup {0, cid},
         pending' = ForgetPending(pending, cid) \/ (pending' = pending /\ cid = 0)
  PROVE  PendingApart'
<1>1. 0 \notin Cids
  BY ConstantsAssumption
<1>2. ASSUME NEW c \in Cids, pending'[c].cid # 0
      PROVE  pending'[c] = pending[c] /\ c # cid
  BY <1>1, <1>2 DEF ForgetPending, NoPass
<1> QED BY <1>1, <1>2 DEF PendingApart
-----------------------------------------------------------------------------
(* Every handler keeps the rules of the LTE rows.                          *)

LEMMA OthersCopy ==
  ASSUME CarriersApart, NEW reg, Tidy(reg), NEW to, Tidy(to),
         NEW rat \in Rats, rat # "LTE", Spares(reg, to, rat)
  PROVE  Copies(reg, to)
BY OthersUntouched DEF Copies

LEMMA PassportEventRules ==
  ASSUME CarriersApart, OnlyLteWaits, IdentityInv, NEW in \in PassportInputs,
         PassportEvent(in.rat, in.key, in.pass)
  PROVE  LteRules(registry)' /\ PendingApart'
<1> DEFINE rat == in.rat
           p == in.pass
           key == IF in.key = NullKey THEN ResolvePassportKey(rat, p) ELSE in.key
           moved == IF rat = "GSM" THEN RelocateGsmCid(registry, key, p.cid) ELSE registry
           bindTo == AttachKey(registry, rat, key, p)
           pass == Bindable(rat, bindTo, p)
<1>0. /\ registry \in Registry /\ Tidy(registry) /\ TypeOK /\ Orderly
      /\ LteRules(registry) /\ PendingApart
  BY DEF IdentityInv, Orderly, TypeOK
<1>1. /\ rat \in Rats /\ in.key \in Key /\ p \in Passport /\ Named(in.key, rat)
      /\ Tidy(registry') /\ Spares(registry, registry', rat)
  <2>1. rat \in Rats /\ in.key \in Key /\ p \in Passport /\ Named(in.key, rat)
    BY ConstantTypes, InputsNamed
  <2> QED BY <1>0, <2>1, PassportEventTidy
<1>2. CASE /\ key = NullKey /\ p.cid # 0 /\ UNCHANGED registry
           /\ pending' = [pending EXCEPT ![p.cid] = p]
  <2>1. in.key = NullKey /\ p.cid \notin HeldCids(registry)
    BY <1>0, <1>2, OnlyLtePends
  <2>2. p.cid \in Cids /\ pending \in [Cids -> Passport]
    BY <1>0, <1>1, <1>2 DEF TypeOK, Passport
  <2>3. HeldCids(registry)' = HeldCids(registry)
    BY <1>2 DEF HeldCids, RowsOf
  <2>4. ASSUME NEW c \in Cids, pending'[c].cid # 0
        PROVE  /\ pending'[c].cid = c /\ c \notin HeldCids(registry)'
               /\ \E i \in PassportInputs : i.key = NullKey /\ i.pass.cid = c
    <3>1. CASE c = p.cid
      BY <1>2, <2>1, <2>2, <2>3, <3>1
    <3>2. CASE c # p.cid
      BY <1>0, <1>2, <2>2, <2>3, <2>4, <3>2 DEF PendingApart
    <3> QED BY <3>1, <3>2
  <2> QED BY <1>0, <1>2, <2>4 DEF PendingApart, LteRules, BareWeak, RowsOf
<1>3. CASE /\ rat = "LTE" /\ FansOutWeak(registry, key, p)
           /\ registry' = FanoutWeak(registry, key, p) /\ UNCHANGED pending
  <2>1. LteRules(registry)' /\ HeldCids(registry)' \subseteq HeldCids(registry)
    <3>1. key \in Key /\ p.cid = 0
      BY <1>0, <1>1, <1>3, ResolveType DEF FansOutWeak
    <3> HIDE DEF key, p
    <3> QED BY <1>0, <1>1, <1>3, <3>1, FanoutWeakRules
  <2> QED BY <1>0, <1>3, <2>1, PendingStaysApart
<1>4. CASE /\ key # NullKey /\ registry' = BindPassport(moved, rat, bindTo, pass)
           /\ pending' = ForgetPending(pending, pass.cid)
  <2>1. LteRules(registry)' /\ HeldCids(registry)' \subseteq HeldCids(registry) \cup {0, pass.cid}
    <3>1. CASE rat = "LTE"
      <4>1. key \in Key /\ AtHome(key, rat)
        BY <1>0, <1>1, <1>4, ResolveType, ResolveHome DEF Named
      <4>2. bindTo \in Key /\ pass \in Passport /\ AtHome(bindTo, rat)
        BY <1>0, <1>1, <4>1, AttachKeyType, BindableType, AttachedRow
           DEF CompatiblePciRows, RowsOf, Tidy
      <4>3. bindTo.pci = 0 => pass.cid = 0 /\ pass.tac = 0
        BY <1>1, <3>1 DEF Bindable, WithoutIdentity, Passport
      <4>4. moved = registry
        BY <3>1
      <4> HIDE DEF moved, bindTo, pass
      <4> QED BY <1>0, <1>1, <1>4, <3>1, <4>2, <4>3, <4>4, BindRules
    <3>2. CASE rat # "LTE"
      BY <1>0, <1>1, <3>2, OthersCopy, CopiesRules
    <3> QED BY <3>1, <3>2
  <2> QED BY <1>0, <1>4, <2>1, PendingStaysApart
<1> QED BY <1>2, <1>3, <1>4 DEF PassportEvent

LEMMA ServingChangedRules ==
  ASSUME CarriersApart, WeakIsPassportOnly, IdentityInv, NEW in \in EventKeys,
         NEW b \in BOOLEAN, ServingChanged(in.rat, in.key, b)
  PROVE  LteRules(registry)' /\ HeldCids(registry)' \subseteq HeldCids(registry) \cup {0}
<1> DEFINE rat == in.rat
           key == Target(rat, in.key)
           arrived == Arrive(registry, rat, key)
           cleared == ClearServing(arrived, rat)
           chosen == [cleared EXCEPT ![key] =
                        [@ EXCEPT !.serving = TRUE, !.ever = Camps(arrived, key)]]
           left == [arrived EXCEPT ![key].serving = FALSE]
<1>0. /\ registry \in Registry /\ Tidy(registry) /\ TypeOK /\ Orderly
      /\ LteRules(registry)
  BY DEF IdentityInv, Orderly, TypeOK
<1>1. /\ rat \in Rats /\ in.key \in Key /\ Named(in.key, rat)
      /\ Tidy(registry') /\ Spares(registry, registry', rat)
  <2>1. rat \in Rats /\ in.key \in Key /\ Named(in.key, rat)
    BY ConstantTypes, InputsNamed
  <2> QED BY <1>0, <2>1, ServingChangedTidy
<1>2. CASE rat # "LTE"
  BY <1>0, <1>1, <1>2, OthersCopy, CopiesRules
<1>3. CASE rat = "LTE"
  <2>1. key \in Key /\ key.freq # 0 /\ AtHome(key, "LTE")
    BY <1>0, <1>1, <1>3, TargetType, TargetHome DEF ServingChanged, Named
  <2>2. key.pci # 0
    <3>1. CASE in.key = NullKey
      BY <1>0, <1>3, <2>1, <3>1, ServingHome, NullKeyType DEF Target, LteRules
    <3>2. CASE in.key # NullKey
      BY <1>1, <1>3, <3>2 DEF Named, WeakIsPassportOnly, Target
    <3> QED BY <3>1, <3>2
  <2>3. arrived \in Registry /\ Copies(registry, arrived) /\ key \in RowsOf(arrived, "LTE")
    BY <1>0, <1>1, <1>3, <2>1, ArriveCopies DEF LteRules
  <2> HIDE DEF key, arrived
  <2>4. cleared \in Registry /\ Copies(arrived, cleared)
    BY <2>3, ClearServingType, ClearServingCopies
  <2>5. LteRules(arrived) /\ HeldCids(arrived) \subseteq HeldCids(registry) \cup {0}
    BY <1>0, <2>3, CopiesRules
  <2>6. LteRules(cleared) /\ HeldCids(cleared) \subseteq HeldCids(arrived) \cup {0}
    BY <2>4, <2>5, CopiesRules
  <2> HIDE DEF cleared
  <2>7. LteRules(chosen) /\ HeldCids(chosen) \subseteq HeldCids(cleared)
    <3>1. /\ \A k \in Key : k # key => chosen[k] = cleared[k]
          /\ chosen[key].pass = cleared[key].pass
          /\ chosen[key].present = cleared[key].present /\ chosen[key].rat = cleared[key].rat
      BY <2>1, <2>4 DEF Registry, Row
    <3> HIDE DEF chosen
    <3>2. RowsOf(chosen, "LTE") = RowsOf(cleared, "LTE")
      BY <3>1 DEF RowsOf
    <3>3. /\ \A k \in RowsOf(chosen, "LTE") : chosen[k].pass = cleared[k].pass
          /\ \A k \in RowsOf(chosen, "LTE") : k.pci = 0 => chosen[k] = cleared[k]
      BY <2>2, <3>1 DEF RowsOf
    <3> QED BY <2>6, <3>2, <3>3 DEF LteRules, BareWeak, HeldCids
  <2>8. LteRules(left) /\ HeldCids(left) \subseteq HeldCids(arrived) \cup {0}
    <3>1. /\ \A k \in Key : k # key => left[k] = arrived[k]
          /\ left[key].pass = arrived[key].pass /\ left[key].ever = arrived[key].ever
          /\ left[key].present = arrived[key].present /\ left[key].rat = arrived[key].rat
          /\ ~left[key].serving
      BY <2>1, <2>3 DEF Registry, Row
    <3> HIDE DEF left
    <3>2. Copies(arrived, left)
      BY <3>1 DEF Copies, RowsOf
    <3> QED BY <2>5, <3>2, CopiesRules
  <2>9. registry' = chosen \/ registry' = left
    BY DEF ServingChanged, key, arrived, cleared
  <2> HIDE DEF chosen, left
  <2> QED BY <2>5, <2>6, <2>7, <2>8, <2>9
<1> QED BY <1>2, <1>3

LEMMA RadioParamsRules ==
  ASSUME CarriersApart, IdentityInv, NEW in \in EventKeys,
         NEW b \in BOOLEAN, RadioParams(in.rat, in.key, b)
  PROVE  LteRules(registry)' /\ PendingApart'
<1> DEFINE rat == in.rat
           key == Target(rat, in.key)
           arrived == Arrive(registry, rat, key)
           applied == IF b /\ key.pci # 0 /\ ~(rat = "GSM" /\ key.freq = 0)
                      THEN [arrived EXCEPT ![key].rpci = key.pci] ELSE arrived
           only == CHOOSE c \in PendingCids : TRUE
           joined == IF TakesPending(applied, key)
                     THEN [applied EXCEPT ![key].pass = MergePassport(@, pending[only])]
                     ELSE applied
<1>0. /\ registry \in Registry /\ Tidy(registry) /\ TypeOK /\ Orderly
      /\ LteRules(registry) /\ PendingApart
  BY DEF IdentityInv, Orderly, TypeOK
<1>1. /\ rat \in Rats /\ in.key \in Key /\ Named(in.key, rat)
      /\ Tidy(registry') /\ Spares(registry, registry', rat)
  <2>1. rat \in Rats /\ in.key \in Key /\ Named(in.key, rat)
    BY ConstantTypes, InputsNamed
  <2> QED BY <1>0, <2>1, RadioParamsTidy
<1>2. CASE rat # "LTE"
  <2>1. LteRules(registry)' /\ HeldCids(registry)' \subseteq HeldCids(registry) \cup {0}
    BY <1>0, <1>1, <1>2, OthersCopy, CopiesRules
  <2>2. \E c : pending' = ForgetPending(pending, c)
    BY DEF RadioParams
  <2> QED BY <1>0, <2>1, <2>2, PendingStaysApart
<1>3. CASE rat = "LTE"
  <2>1. key \in Key /\ AtHome(key, "LTE") /\ key.pci \in Pcis \cup GsmCids \cup {0}
    BY <1>0, <1>1, <1>3, TargetType, TargetHome DEF RadioParams, Named, Key
  <2>2. arrived \in Registry /\ Copies(registry, arrived) /\ key \in RowsOf(arrived, "LTE")
    BY <1>0, <1>1, <1>3, <2>1, ArriveCopies DEF LteRules
  <2> HIDE DEF key, arrived
  <2>3. applied \in Registry /\ Copies(arrived, applied) /\ key \in RowsOf(applied, "LTE")
    BY <2>1, <2>2 DEF Registry, Row, Copies, RowsOf
  <2> HIDE DEF applied
  <2>4. LteRules(applied) /\ HeldCids(applied) \subseteq HeldCids(registry) \cup {0}
    BY <1>0, <2>2, <2>3, CopiesTrans, CopiesRules
  <2>5. registry' = joined
    BY <1>3 DEF RadioParams, key, arrived, applied
  <2>6. CASE TakesPending(applied, key)
    <3>1. PendingCids # {}
      BY <2>6, FS_EmptySet DEF TakesPending
    <3>2. only \in Cids /\ only # 0 /\ pending[only] \in Passport /\ pending[only].cid = only
          /\ only \notin HeldCids(registry)
      BY <1>0, <3>1, ConstantsAssumption DEF PendingCids, TypeOK, PendingApart
    <3>3. pending' = ForgetPending(pending, only)
      BY <2>6 DEF RadioParams, key, arrived, applied
    <3> HIDE DEF only
    <3>4. key.pci # 0
      BY <2>3, <2>4, <2>6 DEF TakesPending, LteRules
    <3>5. Learns(applied, joined, key, pending[only])
      BY <2>1, <2>3, <2>6, MergeRowLearns
    <3> HIDE DEF joined
    <3>6. LteRules(joined) /\ HeldCids(joined) \subseteq HeldCids(applied) \cup {only}
      BY <2>3, <2>4, <3>2, <3>4, <3>5, LearnsFresh
    <3>7. HeldCids(registry)' = HeldCids(joined)
      BY <2>5 DEF HeldCids, RowsOf
    <3>8. PendingApart'
      BY <1>0, <2>4, <3>3, <3>6, <3>7, PendingStaysApart
    <3> QED BY <2>5, <3>6, <3>8
  <2>7. CASE ~TakesPending(applied, key)
    <3>1. registry' = applied /\ \E c : pending' = ForgetPending(pending, c)
      BY <2>5, <2>7 DEF RadioParams
    <3> QED BY <1>0, <2>4, <3>1, PendingStaysApart
  <2> QED BY <2>6, <2>7
<1> QED BY <1>2, <1>3

-----------------------------------------------------------------------------
(* Signals and lists of neighbours only copy identities, but for a CGI.    *)

LEMMA ObserveCopies ==
  ASSUME CarriersApart, Orderly, BareWeak(registry), NEW in \in EventKeys,
         Observe(in.rat, in.key)
  PROVE  Copies(registry, registry')
<1> DEFINE key == Target(in.rat, in.key)
<1>0. registry \in Registry /\ Tidy(registry) /\ TypeOK
  BY DEF Orderly, TypeOK
<1>1. in.rat \in Rats /\ in.key \in Key /\ Named(in.key, in.rat)
  BY ConstantTypes, InputsNamed
<1>2. key \in Key /\ AtHome(key, in.rat) /\ registry' = Arrive(registry, in.rat, key)
  BY <1>0, <1>1, TargetType, TargetHome DEF Observe, Named
<1> HIDE DEF key
<1>3. CASE in.rat = "LTE"
  BY <1>0, <1>1, <1>2, <1>3, ArriveCopies
<1>4. CASE in.rat # "LTE"
  BY <1>0, <1>1, <1>2, <1>4, ArriveTidy, OthersCopy
<1> QED BY <1>3, <1>4

(* A measured neighbour copies, and then learns from its CGI if it has one. *)
LEMMA LteMeasSteps ==
  ASSUME CarriersApart, Orderly, BareWeak(registry), "LTE" \in Rats, NEW eventKey \in Key,
         Named(eventKey, "LTE"), NEW pci \in Pcis \cup {0}, NEW cgi \in Passport,
         LteMeasNeighbor(eventKey, pci, cgi)
  PROVE  \E f \in CarriersOf("LTE"), mid \in Registry :
           /\ eventKey.freq \in {0, f}
           /\ KeyOf(f, pci) \in RowsOf(mid, "LTE") /\ KeyOf(f, pci).pci = pci
           /\ Tidy(mid) /\ Copies(registry, mid)
           /\ registry' =
                IF cgi.cid # 0
                THEN ClaimEci([mid EXCEPT ![KeyOf(f, pci)].pass = MergePassport(@, cgi)],
                              KeyOf(f, pci), cgi.cid)
                ELSE mid
<1> DEFINE sk == ServingKey(registry, "LTE")
           earfcn == IF eventKey.freq # 0 THEN eventKey.freq ELSE sk.freq
           serving == IF eventKey = NullKey THEN sk ELSE eventKey
           key == KeyOf(earfcn, pci)
           arrived == Touch(PromoteLteWeak(registry, key), key, "LTE")
           source == IF arrived[serving].present THEN serving ELSE ServingKey(arrived, "LTE")
           inherits == IF source # NullKey /\ source.freq = earfcn
                       THEN InheritPlmn(arrived, key, arrived[source].pass) ELSE arrived
<1>0. registry \in Registry /\ Tidy(registry) /\ "LTE" \in AllRats
  BY DEF Orderly, TypeOK, AllRats
<1>1. sk \in Key
  BY <1>0, ServingKeyType
<1>2. earfcn \in Freqs \cup {0} /\ earfcn # 0 /\ serving \in Key
  BY <1>1 DEF Key, LteMeasNeighbor
<1>3. earfcn \in CarriersOf("LTE") /\ eventKey.freq \in {0, earfcn}
  <2>1. CASE eventKey.freq # 0
    BY <2>1, NullKeyType DEF Named, AtHome
  <2>2. CASE eventKey.freq = 0
    BY <1>0, <1>2, <2>2, ServingHome, NullKeyType DEF AtHome
  <2> QED BY <2>1, <2>2
<1>4. key \in Key /\ AtHome(key, "LTE") /\ key.pci = pci
  BY <1>2, <1>3 DEF KeyOf, Key, AtHome
<1>5. /\ arrived \in Registry /\ Tidy(arrived) /\ Copies(registry, arrived)
      /\ key \in RowsOf(arrived, "LTE")
  <2> HIDE DEF key
  <2> QED BY <1>0, <1>4, ArriveCopies, SMTT(40)
<1>6. registry' = IF cgi.cid # 0
                  THEN ClaimEci([inherits EXCEPT ![key].pass = MergePassport(@, cgi)],
                                key, cgi.cid)
                  ELSE inherits
  BY DEF LteMeasNeighbor
<1> HIDE DEF sk, serving, key, arrived
<1>7. source \in Key
  BY <1>2, <1>5, ServingKeyType
<1>8. arrived[source].pass \in Passport
  BY <1>5, <1>7 DEF Registry, Row
<1> HIDE DEF source
<1>9. inherits \in Registry /\ Copies(arrived, inherits) /\ key \in RowsOf(inherits, "LTE")
  BY <1>4, <1>5, <1>8, InheritPlmnType, InheritCopies, InheritPlmnAt, CopiesItself DEF RowsOf
<1> HIDE DEF inherits
<1>10. Copies(registry, inherits) /\ Tidy(inherits)
  BY <1>4, <1>5, <1>9, CopiesTrans, InheritTidy DEF RowsOf, inherits
<1> HIDE DEF earfcn
<1> QED BY <1>3, <1>4, <1>6, <1>9, <1>10, SMTT(40) DEF key

LEMMA SibIntraNeighborCopies ==
  ASSUME CarriersApart, Orderly, BareWeak(registry), "LTE" \in Rats, NEW eventKey \in Key,
         Named(eventKey, "LTE"), NEW pci \in Pcis \cup {0}, SibIntraNeighbor(eventKey, pci)
  PROVE  Copies(registry, registry')
<1> DEFINE from == Target("LTE", eventKey)
           arrived == Arrive(registry, "LTE", from)
           earfcn == IF from.freq # 0 THEN from.freq ELSE ServingKey(arrived, "LTE").freq
           key == KeyOf(earfcn, pci)
           listed == Touch(PromoteLteWeak(arrived, key), key, "LTE")
           inherits == InheritPlmn(listed, key, arrived[from].pass)
<1>0. registry \in Registry /\ Tidy(registry) /\ TypeOK
  BY DEF Orderly, TypeOK
<1>1. from \in Key /\ from.freq # 0 /\ AtHome(from, "LTE")
  BY <1>0, TargetType, TargetHome DEF SibIntraNeighbor, Named
<1>2. arrived \in Registry /\ Tidy(arrived) /\ Copies(registry, arrived)
  BY <1>0, <1>1, ArriveCopies
<1> HIDE DEF from, arrived
<1>3. key \in Key /\ AtHome(key, "LTE")
  BY <1>1 DEF Key, KeyOf, AtHome
<1> HIDE DEF earfcn, key
<1>4. listed \in Registry /\ Copies(arrived, listed)
  BY <1>2, <1>3, CopiesWeak, ArriveCopies
<1> HIDE DEF listed
<1>5. Copies(registry, inherits)
  BY <1>2, <1>3, <1>4, InheritCopies, CopiesTrans
<1>6. registry' = arrived \/ registry' = inherits
  BY DEF SibIntraNeighbor, from, arrived, earfcn, key, listed
<1> HIDE DEF inherits
<1> QED BY <1>2, <1>5, <1>6

LEMMA SibInterNeighborCopies ==
  ASSUME CarriersApart, Orderly, BareWeak(registry), "LTE" \in Rats, NEW eventKey \in Key,
         Named(eventKey, "LTE"), NEW f \in Carriers["LTE"], NEW pci \in Pcis \cup {0},
         SibInterNeighbor(eventKey, f, pci)
  PROVE  Copies(registry, registry')
<1> DEFINE from == Target("LTE", eventKey)
           arrived == Arrive(registry, "LTE", from)
           key == KeyOf(f, pci)
           listed == Touch(PromoteLteWeak(arrived, key), key, "LTE")
<1>0. registry \in Registry /\ Tidy(registry) /\ TypeOK
  BY DEF Orderly, TypeOK
<1>1. from \in Key /\ AtHome(from, "LTE")
  BY <1>0, TargetType, TargetHome DEF SibInterNeighbor, Named
<1>2. arrived \in Registry /\ Tidy(arrived) /\ Copies(registry, arrived)
  BY <1>0, <1>1, ArriveCopies
<1>3. f \in Freqs /\ f # 0 /\ f \in CarriersOf("LTE")
  BY ConstantTypes, InputsNamed
<1>4. key \in Key /\ AtHome(key, "LTE")
  BY <1>3 DEF Key, KeyOf, AtHome
<1>5. registry' = listed
  BY DEF SibInterNeighbor
<1> HIDE DEF key, arrived
<1>6. Copies(arrived, listed)
  BY <1>2, <1>4, CopiesWeak, ArriveCopies
<1> HIDE DEF listed
<1> QED BY <1>2, <1>5, <1>6, CopiesTrans

LEMMA OtherNeighborListCopies ==
  ASSUME CarriersApart, Orderly, OtherNeighborList
  PROVE  Copies(registry, registry') /\ UNCHANGED pending
<1>0. registry \in Registry /\ Tidy(registry) /\ Orderly'
  BY NextOrderly DEF Orderly, TypeOK, Next
<1>1. Tidy(registry')
  BY <1>0 DEF Orderly
<1>2. CASE \E in \in CgiInputs : in.rat = "NR" /\ NrMeasNeighbor(in.key, in.pci, in.pass)
  <2>1. "NR" \in Rats /\ Spares(registry, registry', "NR") /\ UNCHANGED pending
    BY <1>2, ConstantTypes, InputsNamed, NrMeasNeighborTidy DEF NrMeasNeighbor
  <2> QED BY <1>0, <1>1, <2>1, OthersCopy
<1>3. CASE "GSM" \in Rats /\ \E f \in Carriers["GSM"], bsic \in Pcis \cup {0} :
             GsmNeighbor(f, bsic)
  <2>1. Spares(registry, registry', "GSM") /\ UNCHANGED pending
    BY <1>3, GsmNeighborTidy DEF GsmNeighbor
  <2> QED BY <1>0, <1>1, <1>3, <2>1, OthersCopy
<1>4. CASE "WCDMA" \in Rats /\ \E f \in Carriers["WCDMA"], psc \in Pcis :
             WcdmaNeighbor(f, psc)
  <2>1. PICK f \in Carriers["WCDMA"], psc \in Pcis : WcdmaNeighbor(f, psc)
    BY <1>4
  <2>2. f \in Freqs \cup {0} /\ f # 0 /\ f \in CarriersOf("WCDMA")
    BY <1>4, ConstantTypes, InputsNamed
  <2>3. Spares(registry, registry', "WCDMA") /\ UNCHANGED pending
    BY <1>0, <1>4, <2>1, <2>2, ListedTidy DEF WcdmaNeighbor
  <2> QED BY <1>0, <1>1, <1>4, <2>3, OthersCopy
<1>5. CASE "GSM" \in Rats /\ \E f \in Carriers["GSM"] : SetSurroundHint(f)
  BY <1>5, CopiesItself DEF SetSurroundHint
<1> QED BY <1>2, <1>3, <1>4, <1>5 DEF OtherNeighborList

-----------------------------------------------------------------------------
(* The identity invariant is inductive.                                    *)

(* An identity read by CGI is claimed for its row; it waits nowhere else.  *)
LEMMA LteMeasRules ==
  ASSUME CarriersApart, IdentityInv, "LTE" \in Rats, NEW eventKey \in Key,
         Named(eventKey, "LTE"), NEW pci \in Pcis \cup {0}, NEW cgi \in Passport,
         cgi.cid # 0 => pci # 0,
         \A in \in PassportInputs : in.key = NullKey /\ in.pass.cid # 0
           => in.pass.cid # cgi.cid,
         LteMeasNeighbor(eventKey, pci, cgi)
  PROVE  LteRules(registry)' /\ PendingApart'
<1>0. /\ TypeOK /\ Orderly /\ LteRules(registry) /\ BareWeak(registry) /\ PendingApart
      /\ UNCHANGED pending
  BY DEF IdentityInv, Orderly, LteRules, LteMeasNeighbor
<1>1. PICK f \in CarriersOf("LTE"), mid \in Registry :
        /\ eventKey.freq \in {0, f}
        /\ KeyOf(f, pci) \in RowsOf(mid, "LTE") /\ KeyOf(f, pci).pci = pci
        /\ Tidy(mid) /\ Copies(registry, mid)
        /\ registry' =
             IF cgi.cid # 0
             THEN ClaimEci([mid EXCEPT ![KeyOf(f, pci)].pass = MergePassport(@, cgi)],
                           KeyOf(f, pci), cgi.cid)
             ELSE mid
  BY <1>0, LteMeasSteps
<1>2. LteRules(mid) /\ HeldCids(mid) \subseteq HeldCids(registry) \cup {0}
  BY <1>0, <1>1, CopiesRules
<1>3. CASE cgi.cid = 0
  BY <1>0, <1>1, <1>2, <1>3, PendingStaysApart
<1>4. CASE cgi.cid # 0
  <2> DEFINE key == KeyOf(f, pci)
             read == [mid EXCEPT ![key].pass = MergePassport(@, cgi)]
  <2>1. key \in Key /\ key \in RowsOf(mid, "LTE") /\ key.pci # 0
    BY <1>1, <1>4 DEF RowsOf
  <2> HIDE DEF key
  <2>2. read \in Registry /\ Learns(mid, read, key, cgi)
    BY <2>1, MergedRowType, MergeRowLearns
  <2>3. registry' = ClaimEci(read, key, cgi.cid)
    BY <1>1, <1>4 DEF key
  <2> HIDE DEF read
  <2>4. LteRules(registry') /\ HeldCids(registry') \subseteq HeldCids(mid) \cup {0, cgi.cid}
    BY <1>2, <2>1, <2>2, <2>3, LearnsClaiming
  <2>5. ASSUME NEW c \in Cids, pending[c].cid # 0
        PROVE  c # 0 /\ c # cgi.cid
    BY <1>0, <2>5, ConstantsAssumption DEF PendingApart
  <2>6. PendingApart'
    BY <1>0, <1>2, <2>4, <2>5 DEF PendingApart
  <2> QED BY <2>4, <2>6
<1> QED BY <1>3, <1>4, SMTT(40)

LEMMA NextIdentity ==
  ASSUME CarriersApart, OnlyLteWaits, WeakIsPassportOnly, BoundOnce,
         IdentityInv, [Next]_vars
  PROVE  IdentityInv'
<1> USE ConstantTypes
<1>0. /\ TypeOK /\ Orderly /\ LteRules(registry) /\ BareWeak(registry) /\ PendingApart
      /\ Orderly'
  BY NextOrderly DEF IdentityInv, Orderly, LteRules
<1>1. ASSUME Copies(registry, registry'), UNCHANGED pending
      PROVE  IdentityInv'
  <2>1. LteRules(registry') /\ HeldCids(registry') \subseteq HeldCids(registry) \cup {0}
    BY <1>0, <1>1, CopiesRules
  <2> QED BY <1>0, <1>1, <2>1, PendingStaysApart DEF IdentityInv
<1>2. CASE \E in \in PassportInputs : PassportEvent(in.rat, in.key, in.pass)
  BY <1>0, <1>2, PassportEventRules DEF IdentityInv
<1>3. CASE KeyedEvent
  <2>1. PICK in \in EventKeys :
          \/ \E b \in BOOLEAN : ServingChanged(in.rat, in.key, b)
          \/ \E b \in BOOLEAN : RadioParams(in.rat, in.key, b)
          \/ Observe(in.rat, in.key)
    BY <1>3 DEF KeyedEvent
  <2>2. CASE \E b \in BOOLEAN : ServingChanged(in.rat, in.key, b)
    <3>1. LteRules(registry)' /\ HeldCids(registry)' \subseteq HeldCids(registry) \cup {0}
          /\ UNCHANGED pending
      BY <2>2, ServingChangedRules DEF ServingChanged
    <3> QED BY <1>0, <3>1, PendingStaysApart DEF IdentityInv
  <2>3. CASE \E b \in BOOLEAN : RadioParams(in.rat, in.key, b)
    BY <1>0, <2>3, RadioParamsRules DEF IdentityInv
  <2>4. CASE Observe(in.rat, in.key)
    BY <1>0, <1>1, <2>4, ObserveCopies DEF Observe
  <2> QED BY <2>1, <2>2, <2>3, <2>4
<1>4. CASE LteNeighborList
  <2>0. "LTE" \in Rats
    BY <1>4 DEF LteNeighborList
  <2>1. CASE \E in \in CgiInputs :
               in.rat = "LTE" /\ LteMeasNeighbor(in.key, in.pci, in.pass)
    <3>1. PICK in \in CgiInputs : in.rat = "LTE" /\ LteMeasNeighbor(in.key, in.pci, in.pass)
      BY <2>1
    <3>2. /\ in.key \in Key /\ Named(in.key, "LTE")
          /\ in.pci \in Pcis \cup {0} /\ in.pass \in Passport
          /\ in.pass.cid # 0 => in.pci # 0
          /\ \A i \in PassportInputs : i.key = NullKey /\ i.pass.cid # 0
               => i.pass.cid # in.pass.cid
      BY <3>1, InputsNamed DEF WeakIsPassportOnly, BoundOnce
    <3>3. LteRules(registry)' /\ PendingApart'
      BY <2>0, <3>1, <3>2, LteMeasRules
    <3> QED BY <1>0, <3>3 DEF IdentityInv
  <2>2. CASE \E in \in EventKeys, pci \in Pcis \cup {0} :
               in.rat = "LTE" /\ SibIntraNeighbor(in.key, pci)
    BY <1>0, <1>1, <2>0, <2>2, InputsNamed, SibIntraNeighborCopies DEF SibIntraNeighbor
  <2>3. CASE \E in \in EventKeys, f \in Carriers["LTE"], pci \in Pcis \cup {0} :
               in.rat = "LTE" /\ SibInterNeighbor(in.key, f, pci)
    BY <1>0, <1>1, <2>0, <2>3, InputsNamed, SibInterNeighborCopies DEF SibInterNeighbor
  <2> QED BY <1>4, <2>1, <2>2, <2>3 DEF LteNeighborList
<1>5. CASE OtherNeighborList
  BY <1>0, <1>1, <1>5, OtherNeighborListCopies
<1>6. CASE UNCHANGED vars
  BY <1>1, <1>6, CopiesItself DEF vars
<1> QED BY <1>2, <1>3, <1>4, <1>5, <1>6 DEF Next

LEMMA InitIdentity == Init => IdentityInv
<1>1. Init => \A rat : RowsOf(registry, rat) = {}
  BY DEF Init, RowsOf, NoRow
<1>2. Init => LteRules(registry)
  BY <1>1 DEF LteRules, BareWeak
<1>3. Init => PendingApart
  BY DEF Init, PendingApart, NoPass
<1> QED BY <1>2, <1>3, InitOrderly DEF IdentityInv

(* What the events of a radio may do to identities and be forgiven: they   *)
(* may come on the wrong key, twice, or without a key.                     *)
Confused == CarriersApart /\ OnlyLteWaits /\ WeakIsPassportOnly /\ BoundOnce

(* However passports are stamped, one ECI is held by one LTE row at most:  *)
(* whoever learns an identity claims it, or takes one that no row holds.   *)
THEOREM EciStaysUnique == Confused => (Spec => []EciUnique)
<1> SUFFICES ASSUME Confused PROVE Spec => []EciUnique
  OBVIOUS
<1>1. IdentityInv /\ [Next]_vars => IdentityInv'
  BY NextIdentity DEF Confused
<1>2. IdentityInv => EciUnique
  BY DEF IdentityInv, LteRules, EciUnique, LteRows
<1> QED BY InitIdentity, <1>1, <1>2, PTL DEF Spec

(* Rows EARFCN|0 never take an identity or a TAC, from whatever event.     *)
THEOREM WeakRowsStayBare == Confused => (Spec => []WeakRowHasNoIdentity)
<1> SUFFICES ASSUME Confused PROVE Spec => []WeakRowHasNoIdentity
  OBVIOUS
<1>1. IdentityInv /\ [Next]_vars => IdentityInv'
  BY NextIdentity DEF Confused
<1>2. IdentityInv => WeakRowHasNoIdentity
  BY DEF IdentityInv, LteRules, BareWeak, WeakRowHasNoIdentity, LteRows
<1> QED BY InitIdentity, <1>1, <1>2, PTL DEF Spec

(* A passport is pending only while no LTE row holds its identity.         *)
THEOREM PendingStaysUnbound == Confused => (Spec => []PendingIsUnbound)
<1> SUFFICES ASSUME Confused PROVE Spec => []PendingIsUnbound
  OBVIOUS
<1>1. IdentityInv /\ [Next]_vars => IdentityInv'
  BY NextIdentity DEF Confused
<1>2. IdentityInv => PendingIsUnbound
  BY DEF IdentityInv, PendingApart, PendingIsUnbound, PendingCids, LteRows, HeldCids
<1> QED BY InitIdentity, <1>1, <1>2, PTL DEF Spec

-----------------------------------------------------------------------------
(* Every message carries what its own cell broadcasts.  Then a physical    *)
(* row shows its own cell or nothing, and a claim finds nothing to strip.  *)

HonestRules(reg) ==
  /\ BareWeak(reg)
  /\ \A k \in RowsOf(reg, "LTE") : k.pci # 0 =>
       reg[k].pass.cid \in {0, Truth[k].cid} /\ reg[k].pass.tac \in {0, Truth[k].tac}
  /\ \A k \in RowsOf(reg, "LTE") : reg[k].ever => reg[k].pass.cid # 0

NothingPends == \A c \in Cids : pending[c].cid = 0

HonestInv == Orderly /\ HonestRules(registry) /\ NothingPends

(* Is p what the cell of this key broadcasts, or a part of it?             *)
Broadcast(key, p) == p.cid \in {0, Truth[key].cid} /\ p.tac \in {0, Truth[key].tac}

LEMMA CopiesHonest ==
  ASSUME NEW reg, NEW to, HonestRules(reg), Copies(reg, to)
  PROVE  HonestRules(to)
<1>1. \A k \in RowsOf(to, "LTE") : k.pci # 0 =>
        to[k].pass.cid \in {0, Truth[k].cid} /\ to[k].pass.tac \in {0, Truth[k].tac}
  BY DEF HonestRules, Copies
<1>2. \A k \in RowsOf(to, "LTE") : to[k].ever => to[k].pass.cid # 0
  BY DEF HonestRules, Copies
<1> QED BY <1>1, <1>2, CopiesWeak DEF HonestRules

LEMMA LearnsHonest ==
  ASSUME NEW reg \in Registry, HonestRules(reg), NEW key \in RowsOf(reg, "LTE"), key.pci # 0,
         NEW p \in Passport, Broadcast(key, p), NEW mid, Learns(reg, mid, key, p),
         mid[key].ever => reg[key].ever \/ mid[key].pass.cid # 0
  PROVE  HonestRules(mid)
<1>1. reg[key].pass \in Passport /\ key \in Key
  BY DEF Registry, Row, RowsOf
<1>2. RowsOf(mid, "LTE") = RowsOf(reg, "LTE")
  BY <1>1 DEF Learns, RowsOf
<1>3. \A k \in RowsOf(reg, "LTE") : k # key => mid[k] = reg[k]
  BY DEF Learns, RowsOf
<1>4. /\ mid[key].pass.cid \in {reg[key].pass.cid, p.cid}
      /\ mid[key].pass.tac \in {reg[key].pass.tac, p.tac}
      /\ reg[key].pass.cid # 0 => mid[key].pass.cid # 0
  <2>1. LET m == MergePassport(reg[key].pass, p) IN
        /\ m.cid \in {reg[key].pass.cid, p.cid} /\ m.tac \in {reg[key].pass.tac, p.tac}
        /\ reg[key].pass.cid # 0 => m.cid # 0
    BY <1>1, MergeIds
  <2> QED BY <2>1 DEF Learns
<1>5. BareWeak(mid)
  BY <1>2, <1>3 DEF HonestRules, BareWeak
<1>6. \A k \in RowsOf(mid, "LTE") : k.pci # 0 =>
        mid[k].pass.cid \in {0, Truth[k].cid} /\ mid[k].pass.tac \in {0, Truth[k].tac}
  BY <1>2, <1>3, <1>4 DEF HonestRules, Broadcast
<1>7. \A k \in RowsOf(mid, "LTE") : mid[k].ever => mid[k].pass.cid # 0
  BY <1>2, <1>3, <1>4 DEF HonestRules
<1> QED BY <1>5, <1>6, <1>7 DEF HonestRules

(* No other row holds what a cell broadcasts.                              *)
LEMMA ClaimNothingHonest ==
  ASSUME HonestInputs, NEW reg \in Registry, Tidy(reg), HonestRules(reg),
         NEW key \in LteCells, NEW cid \in {0, Truth[key].cid}
  PROVE  ClaimEci(reg, key, cid) = reg
<1>1. ASSUME NEW k \in RowsOf(reg, "LTE"), cid # 0, reg[k].pass.cid = cid
      PROVE  k = key
  <2>1. k \in Key /\ k.pci # 0 /\ reg[k].pass.cid = Truth[k].cid
    BY <1>1 DEF RowsOf, HonestRules, BareWeak
  <2>2. k \in LteCells
    BY <2>1 DEF Tidy, AtHome, RowsOf, LteCells
  <2> QED BY <1>1, <2>1, <2>2 DEF HonestInputs
<1>2. ClaimEci(reg, key, cid) = [k \in Key |-> reg[k]]
  BY <1>1 DEF ClaimEci
<1> QED BY <1>2 DEF Registry

LEMMA BindHonest ==
  ASSUME CarriersApart, HonestInputs, "LTE" \in Rats, NEW reg \in Registry, Tidy(reg),
         HonestRules(reg), NEW key \in Key, AtHome(key, "LTE"), NEW p \in Passport,
         \/ p.cid = 0 /\ p.tac = 0
         \/ key.pci # 0 /\ Broadcast(key, p)
  PROVE  HonestRules(BindPassport(reg, "LTE", key, p))
<1> DEFINE arrived == Arrive(reg, "LTE", key)
           merged == MergeInto(arrived, key, p)
           fanned == FanoutPlmn(merged, key.freq, p)
<1>1. key.freq # 0
  BY DEF AtHome
<1>2. /\ arrived \in Registry /\ Tidy(arrived) /\ Copies(reg, arrived)
      /\ key \in RowsOf(arrived, "LTE")
  BY ArriveCopies DEF HonestRules
<1> HIDE DEF arrived
<1>3. HonestRules(arrived)
  BY <1>2, CopiesHonest
<1>4. merged \in Registry /\ Learns(arrived, merged, key, p)
  BY <1>2, MergeIntoType, MergeIntoLearns
<1>5. Tidy(merged)
  BY <1>2, MergeIntoTidy DEF RowsOf
<1>6. CASE key.pci # 0
  <2>1. Broadcast(key, p)
    BY <1>6 DEF Broadcast
  <2>2. merged[key].ever => arrived[key].ever \/ merged[key].pass.cid # 0
    <3>1. /\ merged[key].pass = MergePassport(arrived[key].pass, p)
          /\ merged[key].ever = (arrived[key].ever \/ (arrived[key].serving
               /\ MergePassport(arrived[key].pass, p).cid # 0))
      BY <1>2, MergeIntoAt
    <3> HIDE DEF merged
    <3> QED BY <3>1
  <2> HIDE DEF merged
  <2>3. HonestRules(merged)
    BY <1>2, <1>3, <1>4, <1>6, <2>1, <2>2, LearnsHonest
  <2>4. key \in LteCells
    BY <1>1, <1>6 DEF LteCells, AtHome
  <2>5. p.cid # 0 => ClaimEci(merged, key, p.cid) = merged
    BY <1>4, <1>5, <2>1, <2>3, <2>4, ClaimNothingHonest DEF Broadcast
  <2>6. BindPassport(reg, "LTE", key, p) = fanned
    BY <1>1, <1>6, <2>5 DEF BindPassport, IsLtePci, arrived, merged
  <2>7. Copies(merged, fanned)
    BY <1>4, FanoutCopies
  <2> HIDE DEF fanned
  <2> QED BY <2>3, <2>6, <2>7, CopiesHonest
<1>7. CASE key.pci = 0
  <2>1. BindPassport(reg, "LTE", key, p) = merged
    BY <1>7 DEF BindPassport, IsLtePci, arrived
  <2>2. Copies(arrived, merged)
    BY <1>2, <1>3, <1>7, MergeWeakCopies DEF HonestRules
  <2> HIDE DEF merged
  <2> QED BY <1>3, <2>1, <2>2, CopiesHonest
<1> QED BY <1>6, <1>7

-----------------------------------------------------------------------------
(* Every handler keeps the rows honest.                                    *)

LEMMA PassportEventHonest ==
  ASSUME CarriersApart, OnlyLteWaits, HonestInputs, HonestInv, NEW in \in PassportInputs,
         PassportEvent(in.rat, in.key, in.pass)
  PROVE  HonestRules(registry)' /\ NothingPends'
<1> DEFINE rat == in.rat
           p == in.pass
           key == IF in.key = NullKey THEN ResolvePassportKey(rat, p) ELSE in.key
           moved == IF rat = "GSM" THEN RelocateGsmCid(registry, key, p.cid) ELSE registry
           bindTo == AttachKey(registry, rat, key, p)
           pass == Bindable(rat, bindTo, p)
<1>0. /\ registry \in Registry /\ Tidy(registry) /\ TypeOK /\ Orderly
      /\ HonestRules(registry) /\ NothingPends
  BY DEF HonestInv, Orderly, TypeOK
<1>1. /\ rat \in Rats /\ in.key \in Key /\ p \in Passport /\ Named(in.key, rat)
      /\ Tidy(registry') /\ Spares(registry, registry', rat)
  <2>1. rat \in Rats /\ in.key \in Key /\ p \in Passport /\ Named(in.key, rat)
    BY ConstantTypes, InputsNamed
  <2> QED BY <1>0, <2>1, PassportEventTidy
<1>2. rat = "LTE" => \/ p.cid = 0 /\ p.tac = 0
                     \/ /\ in.key \in LteCells /\ in.key # NullKey /\ in.key.pci # 0
                        /\ Broadcast(in.key, p)
  BY NullKeyType DEF HonestInputs, LteCells, Broadcast
<1>3. ~(key = NullKey /\ p.cid # 0)
  <2> SUFFICES ASSUME key = NullKey, p.cid # 0 PROVE FALSE
    OBVIOUS
  <2>1. in.key = NullKey /\ rat = "LTE"
    BY <1>0, OnlyLtePends
  <2> QED BY <1>2, <2>1
<1>4. CASE /\ rat = "LTE" /\ key.pci = 0 /\ FansOutWeak(registry, key, p)
           /\ registry' = FanoutWeak(registry, key, p) /\ UNCHANGED pending
  <2>1. p.cid = 0 /\ p.tac = 0
    BY <1>2, <1>4
  <2>2. key \in Key
    BY <1>0, <1>1, ResolveType
  <2> HIDE DEF key, p
  <2>3. Copies(registry, registry')
    BY <1>0, <1>1, <1>4, <2>1, <2>2, FanoutWeakCopies
  <2> QED BY <1>0, <1>4, <2>3, CopiesHonest DEF NothingPends
<1>5. CASE /\ key # NullKey /\ registry' = BindPassport(moved, rat, bindTo, pass)
           /\ pending' = ForgetPending(pending, pass.cid)
  <2>1. HonestRules(registry')
    <3>1. CASE rat = "LTE"
      <4>1. key \in Key /\ AtHome(key, rat)
        BY <1>0, <1>1, <1>5, ResolveType, ResolveHome DEF Named
      <4>2. bindTo \in Key /\ pass \in Passport /\ AtHome(bindTo, rat)
        BY <1>0, <1>1, <4>1, AttachKeyType, BindableType, AttachedRow
           DEF CompatiblePciRows, RowsOf, Tidy
      <4>3. \/ pass.cid = 0 /\ pass.tac = 0
            \/ bindTo.pci # 0 /\ Broadcast(bindTo, pass)
        <5>1. CASE p.cid = 0 /\ p.tac = 0
          BY <1>1, <5>1 DEF Bindable, WithoutIdentity, Passport
        <5>2. CASE in.key # NullKey /\ in.key.pci # 0 /\ Broadcast(in.key, p)
          <6>1. bindTo = in.key /\ pass = p
            BY <5>2 DEF AttachKey, Bindable
          <6> QED BY <5>2, <6>1
        <5> QED BY <1>2, <3>1, <5>1, <5>2
      <4>4. moved = registry
        BY <3>1
      <4> HIDE DEF moved, bindTo, pass
      <4> QED BY <1>0, <1>1, <1>5, <3>1, <4>2, <4>3, <4>4, BindHonest
    <3>2. CASE rat # "LTE"
      BY <1>0, <1>1, <3>2, OthersCopy, CopiesHonest
    <3> QED BY <3>1, <3>2
  <2>2. NothingPends'
    BY <1>0, <1>5 DEF NothingPends, ForgetPending, NoPass
  <2> QED BY <2>1, <2>2
<1> QED BY <1>3, <1>4, <1>5 DEF PassportEvent

LEMMA ServingChangedHonest ==
  ASSUME CarriersApart, HonestInv, NEW in \in EventKeys, NEW b \in BOOLEAN,
         ServingChanged(in.rat, in.key, b)
  PROVE  HonestRules(registry)'
<1> DEFINE rat == in.rat
           key == Target(rat, in.key)
           arrived == Arrive(registry, rat, key)
           cleared == ClearServing(arrived, rat)
           chosen == [cleared EXCEPT ![key] =
                        [@ EXCEPT !.serving = TRUE, !.ever = Camps(arrived, key)]]
           left == [arrived EXCEPT ![key].serving = FALSE]
<1>0. /\ registry \in Registry /\ Tidy(registry) /\ TypeOK /\ Orderly
      /\ HonestRules(registry)
  BY DEF HonestInv, Orderly, TypeOK
<1>1. /\ rat \in Rats /\ in.key \in Key /\ Named(in.key, rat)
      /\ Tidy(registry') /\ Spares(registry, registry', rat)
  <2>1. rat \in Rats /\ in.key \in Key /\ Named(in.key, rat)
    BY ConstantTypes, InputsNamed
  <2> QED BY <1>0, <2>1, ServingChangedTidy
<1>2. CASE rat # "LTE"
  BY <1>0, <1>1, <1>2, OthersCopy, CopiesHonest
<1>3. CASE rat = "LTE"
  <2>1. key \in Key /\ AtHome(key, "LTE")
    BY <1>0, <1>1, <1>3, TargetType, TargetHome DEF ServingChanged, Named
  <2>2. arrived \in Registry /\ Copies(registry, arrived) /\ key \in RowsOf(arrived, "LTE")
    BY <1>0, <1>1, <1>3, <2>1, ArriveCopies DEF HonestRules
  <2>3. registry' = chosen \/ registry' = left
    BY DEF ServingChanged
  <2> HIDE DEF key, arrived
  <2>4. HonestRules(arrived)
    BY <1>0, <2>2, CopiesHonest
  <2>5. /\ cleared \in Registry
        /\ \A k \in Key : /\ cleared[k].present = arrived[k].present
                          /\ cleared[k].rat = arrived[k].rat
                          /\ cleared[k].ever = arrived[k].ever
                          /\ cleared[k].pass = arrived[k].pass
    BY <2>2, ClearServingType, ClearServingAt
  <2> HIDE DEF cleared
  <2>6. ASSUME NEW to, to = chosen \/ to = left
        PROVE  HonestRules(to)
    <3>1. /\ \A k \in Key : /\ to[k].present = arrived[k].present
                            /\ to[k].rat = arrived[k].rat
                            /\ to[k].pass = arrived[k].pass
                            /\ k # key => to[k].ever = arrived[k].ever
          /\ to[key].ever => Camps(arrived, key)
      <4>1. CASE to = chosen
        BY <2>1, <2>5, <4>1 DEF Registry, Row
      <4>2. CASE to = left
        BY <2>1, <2>2, <4>2 DEF Registry, Row, Camps
      <4> QED BY <2>6, <4>1, <4>2
    <3>2. RowsOf(to, "LTE") = RowsOf(arrived, "LTE")
      BY <3>1 DEF RowsOf
    <3>3. \A k \in RowsOf(to, "LTE") : k \in Key
      BY DEF RowsOf
    <3>4. \A k \in RowsOf(to, "LTE") :
            to[k].ever => arrived[k].ever \/ arrived[k].pass.cid # 0
      BY <3>1, <3>3 DEF Camps
    <3> QED BY <2>4, <3>1, <3>2, <3>3, <3>4 DEF HonestRules, BareWeak
  <2> QED BY <2>3, <2>6
<1> QED BY <1>2, <1>3

LEMMA RadioParamsHonest ==
  ASSUME CarriersApart, HonestInv, NEW in \in EventKeys, NEW b \in BOOLEAN,
         RadioParams(in.rat, in.key, b)
  PROVE  HonestRules(registry)' /\ NothingPends'
<1> DEFINE rat == in.rat
           key == Target(rat, in.key)
           arrived == Arrive(registry, rat, key)
           applied == IF b /\ key.pci # 0 /\ ~(rat = "GSM" /\ key.freq = 0)
                      THEN [arrived EXCEPT ![key].rpci = key.pci] ELSE arrived
<1>0. /\ registry \in Registry /\ Tidy(registry) /\ TypeOK /\ Orderly
      /\ HonestRules(registry) /\ NothingPends
  BY DEF HonestInv, Orderly, TypeOK
<1>1. /\ rat \in Rats /\ in.key \in Key /\ Named(in.key, rat)
      /\ Tidy(registry') /\ Spares(registry, registry', rat)
  <2>1. rat \in Rats /\ in.key \in Key /\ Named(in.key, rat)
    BY ConstantTypes, InputsNamed
  <2> QED BY <1>0, <2>1, RadioParamsTidy
<1>2. NothingPends'
  <2>1. \E c : pending' = ForgetPending(pending, c)
    BY DEF RadioParams
  <2> QED BY <1>0, <2>1 DEF NothingPends, ForgetPending, NoPass
<1>3. CASE rat # "LTE"
  BY <1>0, <1>1, <1>2, <1>3, OthersCopy, CopiesHonest
<1>4. CASE rat = "LTE"
  <2>1. key \in Key /\ AtHome(key, "LTE") /\ key.pci \in Pcis \cup GsmCids \cup {0}
    BY <1>0, <1>1, <1>4, TargetType, TargetHome DEF RadioParams, Named, Key
  <2>2. arrived \in Registry /\ Copies(registry, arrived) /\ key \in RowsOf(arrived, "LTE")
    BY <1>0, <1>1, <1>4, <2>1, ArriveCopies DEF HonestRules
  <2>3. ~TakesPending(applied, key)
    <3>1. PendingCids = {}
      BY <1>0 DEF NothingPends, PendingCids
    <3> QED BY <3>1, FS_EmptySet DEF TakesPending
  <2>4. registry' = applied
    BY <1>4, <2>3 DEF RadioParams
  <2> HIDE DEF key, arrived
  <2>5. Copies(arrived, applied)
    BY <2>1, <2>2 DEF Registry, Row, Copies, RowsOf
  <2> HIDE DEF applied
  <2> QED BY <1>0, <1>2, <2>2, <2>4, <2>5, CopiesTrans, CopiesHonest
<1> QED BY <1>3, <1>4

LEMMA LteMeasHonest ==
  ASSUME CarriersApart, HonestInputs, HonestInv, "LTE" \in Rats, NEW eventKey \in Key,
         Named(eventKey, "LTE"), NEW pci \in Pcis \cup {0}, NEW cgi \in Passport,
         cgi.cid # 0 => \A f \in CarriersOf("LTE") :
           eventKey.freq \in {0, f} => pci # 0 /\ Broadcast(KeyOf(f, pci), cgi),
         LteMeasNeighbor(eventKey, pci, cgi)
  PROVE  HonestRules(registry)'
<1>0. /\ Orderly /\ HonestRules(registry) /\ BareWeak(registry)
  BY DEF HonestInv, HonestRules
<1>1. PICK f \in CarriersOf("LTE"), mid \in Registry :
        /\ eventKey.freq \in {0, f}
        /\ KeyOf(f, pci) \in RowsOf(mid, "LTE") /\ KeyOf(f, pci).pci = pci
        /\ Tidy(mid) /\ Copies(registry, mid)
        /\ registry' =
             IF cgi.cid # 0
             THEN ClaimEci([mid EXCEPT ![KeyOf(f, pci)].pass = MergePassport(@, cgi)],
                           KeyOf(f, pci), cgi.cid)
             ELSE mid
  BY <1>0, LteMeasSteps
<1>2. HonestRules(mid)
  BY <1>0, <1>1, CopiesHonest
<1>3. CASE cgi.cid = 0
  BY <1>1, <1>2, <1>3
<1>4. CASE cgi.cid # 0
  <2> DEFINE key == KeyOf(f, pci)
             read == [mid EXCEPT ![key].pass = MergePassport(@, cgi)]
  <2>1. key \in RowsOf(mid, "LTE") /\ key.pci # 0 /\ key.freq = f /\ Broadcast(key, cgi)
    BY <1>1, <1>4 DEF KeyOf
  <2>2. key \in Key /\ key \in LteCells
    BY <2>1 DEF RowsOf, LteCells
  <2> HIDE DEF key
  <2>3. read \in Registry /\ Learns(mid, read, key, cgi)
    BY <2>2, MergedRowType, MergeRowLearns
  <2>4. read[key].ever = mid[key].ever /\ Tidy(read)
    <3>1. AtHome(key, "LTE") /\ mid[key].present
      BY <2>1, <2>2 DEF RowsOf, LteCells, AtHome, CarriersOf
    <3>2. Tidy(read)
      BY <1>1, <2>2, <3>1, MergeRowTidy
    <3> QED BY <2>2, <3>2, MergeRowAt
  <2>5. registry' = ClaimEci(read, key, cgi.cid)
    BY <1>1, <1>4 DEF key
  <2> HIDE DEF read
  <2>6. HonestRules(read)
    BY <1>2, <2>1, <2>3, <2>4, LearnsHonest
  <2>7. registry' = read
    BY <2>1, <2>2, <2>3, <2>4, <2>5, <2>6, ClaimNothingHonest DEF Broadcast
  <2> QED BY <2>6, <2>7
<1> QED BY <1>3, <1>4

LEMMA NextHonest ==
  ASSUME CarriersApart, OnlyLteWaits, HonestInputs, HonestInv, [Next]_vars
  PROVE  HonestInv'
<1> USE ConstantTypes
<1>0. /\ Orderly /\ Orderly' /\ HonestRules(registry) /\ BareWeak(registry) /\ NothingPends
  BY NextOrderly DEF HonestInv, HonestRules
<1>1. ASSUME Copies(registry, registry'), UNCHANGED pending
      PROVE  HonestInv'
  BY <1>0, <1>1, CopiesHonest DEF HonestInv, NothingPends
<1>2. ASSUME HonestRules(registry)', NothingPends' \/ UNCHANGED pending
      PROVE  HonestInv'
  BY <1>0, <1>2 DEF HonestInv, NothingPends
<1>3. CASE \E in \in PassportInputs : PassportEvent(in.rat, in.key, in.pass)
  BY <1>2, <1>3, PassportEventHonest
<1>4. CASE KeyedEvent
  <2>1. PICK in \in EventKeys :
          \/ \E b \in BOOLEAN : ServingChanged(in.rat, in.key, b)
          \/ \E b \in BOOLEAN : RadioParams(in.rat, in.key, b)
          \/ Observe(in.rat, in.key)
    BY <1>4 DEF KeyedEvent
  <2>2. CASE \E b \in BOOLEAN : ServingChanged(in.rat, in.key, b)
    BY <1>2, <2>2, ServingChangedHonest DEF ServingChanged
  <2>3. CASE \E b \in BOOLEAN : RadioParams(in.rat, in.key, b)
    BY <1>2, <2>3, RadioParamsHonest
  <2>4. CASE Observe(in.rat, in.key)
    BY <1>0, <1>1, <2>4, ObserveCopies DEF Observe
  <2> QED BY <2>1, <2>2, <2>3, <2>4
<1>5. CASE LteNeighborList
  <2>0. "LTE" \in Rats
    BY <1>5 DEF LteNeighborList
  <2>1. CASE \E in \in CgiInputs :
               in.rat = "LTE" /\ LteMeasNeighbor(in.key, in.pci, in.pass)
    <3>1. PICK in \in CgiInputs : in.rat = "LTE" /\ LteMeasNeighbor(in.key, in.pci, in.pass)
      BY <2>1
    <3>2. /\ in.key \in Key /\ Named(in.key, "LTE")
          /\ in.pci \in Pcis \cup {0} /\ in.pass \in Passport
      BY <3>1, InputsNamed
    <3>3. in.pass.cid # 0 => \A f \in CarriersOf("LTE") :
            in.key.freq \in {0, f} => in.pci # 0 /\ Broadcast(KeyOf(f, in.pci), in.pass)
      BY <3>1, SMTT(40) DEF HonestInputs, Broadcast
    <3>4. HonestRules(registry)' /\ UNCHANGED pending
      BY <2>0, <3>1, <3>2, <3>3, LteMeasHonest DEF LteMeasNeighbor
    <3> QED BY <1>2, <3>4
  <2>2. CASE \E in \in EventKeys, pci \in Pcis \cup {0} :
               in.rat = "LTE" /\ SibIntraNeighbor(in.key, pci)
    BY <1>0, <1>1, <2>0, <2>2, InputsNamed, SibIntraNeighborCopies DEF SibIntraNeighbor
  <2>3. CASE \E in \in EventKeys, f \in Carriers["LTE"], pci \in Pcis \cup {0} :
               in.rat = "LTE" /\ SibInterNeighbor(in.key, f, pci)
    BY <1>0, <1>1, <2>0, <2>3, InputsNamed, SibInterNeighborCopies DEF SibInterNeighbor
  <2> QED BY <1>5, <2>1, <2>2, <2>3 DEF LteNeighborList
<1>6. CASE OtherNeighborList
  BY <1>0, <1>1, <1>6, OtherNeighborListCopies
<1>7. CASE UNCHANGED vars
  BY <1>1, <1>7, CopiesItself DEF vars
<1> QED BY <1>3, <1>4, <1>5, <1>6, <1>7 DEF Next

LEMMA InitHonest == Init => HonestInv
<1>1. Init => \A rat : RowsOf(registry, rat) = {}
  BY DEF Init, RowsOf, NoRow
<1>2. Init => HonestRules(registry)
  BY <1>1 DEF HonestRules, BareWeak
<1>3. Init => NothingPends
  BY DEF Init, NothingPends, NoPass
<1> QED BY <1>2, <1>3, InitOrderly DEF HonestInv
(* Every identity arrives under the full key EARFCN|PCI of the cell that   *)
(* broadcasts it, or as a CGI measured for its PCI: no passport on         *)
(* EARFCN|0 or without a key has one.  Hence neither the attachment to the *)
(* only PCI of a carrier (CellTracker.h:379-382) nor the binding to the    *)
(* serving row (:292-299) takes place, in which identities can come to     *)
(* another cell's row.                                                     *)
Honest == CarriersApart /\ OnlyLteWaits /\ HonestInputs

(* For such messages, promotion of EARFCN|0 rows, fan-out, claims,         *)
(* measurements and inheritance bring no identity to another cell's        *)
(* physical row.                                                           *)
THEOREM IdentitiesAreOwn == Honest => (Spec => []IdentityIsOwn)
<1> SUFFICES ASSUME Honest PROVE Spec => []IdentityIsOwn
  OBVIOUS
<1>1. HonestInv /\ [Next]_vars => HonestInv'
  BY NextHonest DEF Honest
<1>2. HonestInv => IdentityIsOwn
  BY DEF HonestInv, HonestRules, IdentityIsOwn, LtePciRows, LteRows
<1> QED BY InitHonest, <1>1, <1>2, PTL DEF Spec

(* Nor, for the same messages, a tracking area.                            *)
THEOREM TacsAreOwn == Honest => (Spec => []TacIsOwn)
<1> SUFFICES ASSUME Honest PROVE Spec => []TacIsOwn
  OBVIOUS
<1>1. HonestInv /\ [Next]_vars => HonestInv'
  BY NextHonest DEF Honest
<1>2. HonestInv => TacIsOwn
  BY DEF HonestInv, HonestRules, TacIsOwn, LtePciRows, LteRows
<1> QED BY InitHonest, <1>1, <1>2, PTL DEF Spec

(* For the same messages a row that counts as camped has its identity,     *)
(* read before or after it served: no claim, absorption or change of the   *)
(* serving row parts them.                                                 *)
THEOREM CampedStaysIdentified == Honest => (Spec => []CampedIsIdentified)
<1> SUFFICES ASSUME Honest PROVE Spec => []CampedIsIdentified
  OBVIOUS
<1>1. HonestInv /\ [Next]_vars => HonestInv'
  BY NextHonest DEF Honest
<1>2. HonestInv => CampedIsIdentified
  BY DEF HonestInv, HonestRules, CampedIsIdentified, LteRows
<1> QED BY InitHonest, <1>1, <1>2, PTL DEF Spec
-----------------------------------------------------------------------------
(* GSM rows named after their identity {0,cid}: they hold that identity or *)
(* none, and stand only while no row with an ARFCN holds it.               *)

BareNames(reg) ==
  \A k \in RowsOf(reg, "GSM") : k.freq = 0 =>
    k.pci \in GsmCids /\ reg[k].pass.cid \in {0, k.pci}

LastResort(reg) ==
  \A k \in RowsOf(reg, "GSM") :
    k.freq # 0 /\ reg[k].pass.cid \in GsmCids
    => ~reg[KeyOf(0, reg[k].pass.cid)].present

GsmRules(reg) == BareNames(reg) /\ LastResort(reg)

GsmInv == Orderly /\ GsmRules(registry)

(* A row without a carrier is a GSM row.                                   *)
LEMMA BareIsGsm ==
  ASSUME NEW reg, Tidy(reg), NEW k \in Key, k.freq = 0, reg[k].present
  PROVE  k \in RowsOf(reg, "GSM")
BY DEF Tidy, AtHome, RowsOf

LEMMA CidKey ==
  ASSUME NEW cid \in GsmCids
  PROVE  /\ KeyOf(0, cid) \in Key /\ KeyOf(0, cid).freq = 0 /\ KeyOf(0, cid).pci = cid
         /\ cid # 0
BY ConstantsAssumption DEF KeyOf, Key

(* Steps that teach no GSM row an identity and make no bare row.           *)
GsmCopies(reg, to) ==
  /\ \A k \in RowsOf(to, "GSM") :
       to[k].pass.cid = 0 \/ (k \in RowsOf(reg, "GSM") /\ to[k].pass.cid = reg[k].pass.cid)
  /\ \A k \in Key : k.freq = 0 /\ to[k].present => reg[k].present

LEMMA GsmCopiesRules ==
  ASSUME NEW reg, Tidy(reg), GsmRules(reg), NEW to, GsmCopies(reg, to)
  PROVE  GsmRules(to)
<1>1. BareNames(to)
  <2> SUFFICES ASSUME NEW k \in RowsOf(to, "GSM"), k.freq = 0
               PROVE  k.pci \in GsmCids /\ to[k].pass.cid \in {0, k.pci}
    BY DEF BareNames
  <2>1. k \in RowsOf(reg, "GSM")
    BY BareIsGsm DEF GsmCopies, RowsOf
  <2> QED BY <2>1 DEF GsmCopies, GsmRules, BareNames
<1>2. LastResort(to)
  <2> SUFFICES ASSUME NEW k \in RowsOf(to, "GSM"), k.freq # 0, to[k].pass.cid \in GsmCids
               PROVE  ~to[KeyOf(0, to[k].pass.cid)].present
    BY DEF LastResort
  <2>1. k \in RowsOf(reg, "GSM") /\ to[k].pass.cid = reg[k].pass.cid
    BY CidKey DEF GsmCopies
  <2> QED BY <2>1, CidKey DEF GsmCopies, GsmRules, LastResort
<1> QED BY <1>1, <1>2 DEF GsmRules

(* Row key learns cid, whose bare row is gone.                             *)
LEMMA GsmLearns ==
  ASSUME CarriersApart, "GSM" \in Rats, NEW reg, Tidy(reg), GsmRules(reg),
         NEW key \in Key, key.freq # 0, AtHome(key, "GSM"), NEW to, NEW cid,
         \A k \in Key : k # key => to[k] = reg[k] \/ to[k] = NoRow,
         to[key].pass.cid \in {reg[key].pass.cid, 0, cid},
         cid \in GsmCids => ~to[KeyOf(0, cid)].present
  PROVE  GsmRules(to)
<1>1. \A k \in RowsOf(to, "GSM") : k # key => k \in RowsOf(reg, "GSM") /\ to[k] = reg[k]
  BY DEF RowsOf, NoRow
<1>2. BareNames(to)
  BY <1>1 DEF BareNames, GsmRules
<1>3. \A c \in GsmCids : ~reg[KeyOf(0, c)].present => ~to[KeyOf(0, c)].present
  BY CidKey DEF NoRow
<1>4. ASSUME reg[key].pass.cid \in GsmCids
      PROVE  ~reg[KeyOf(0, reg[key].pass.cid)].present
  <2>1. reg[key].present
    BY <1>4, CidKey DEF Tidy, NoRow, NoPass
  <2>2. key \in RowsOf(reg, "GSM")
    BY <2>1, HomeUnique DEF Tidy, RowsOf
  <2> QED BY <1>4, <2>2 DEF GsmRules, LastResort
<1>5. LastResort(to)
  <2> SUFFICES ASSUME NEW k \in RowsOf(to, "GSM"), k.freq # 0, to[k].pass.cid \in GsmCids
               PROVE  ~to[KeyOf(0, to[k].pass.cid)].present
    BY DEF LastResort
  <2>1. CASE k # key
    BY <1>1, <1>3, <2>1 DEF GsmRules, LastResort
  <2>2. CASE k = key
    <3>1. to[key].pass.cid # 0
      BY <2>2, CidKey
    <3> QED BY <1>3, <1>4, <2>2, <3>1
  <2> QED BY <2>1, <2>2
<1> QED BY <1>2, <1>5 DEF GsmRules

(* Relocation removes the bare row and can only bring its identity along.  *)
LEMMA RelocateAt ==
  ASSUME NEW reg \in Registry, Tidy(reg), BareNames(reg), NEW key \in Key, key.freq # 0,
         NEW cid
  PROVE  LET to == RelocateGsmCid(reg, key, cid) IN
         /\ to \in Registry
         /\ \A k \in Key : k # key => to[k] = reg[k] \/ to[k] = NoRow
         /\ to[key].pass.cid \in {reg[key].pass.cid, 0, cid}
         /\ cid \in GsmCids => ~to[KeyOf(0, cid)].present
<1> DEFINE src == KeyOf(0, cid)
           to == RelocateGsmCid(reg, key, cid)
<1>1. to \in Registry
  BY RelocateType
<1>2. CASE cid \notin GsmCids
  <2>1. to = reg
    BY <1>2 DEF RelocateGsmCid
  <2> QED BY <1>1, <1>2, <2>1
<1>3. CASE cid \in GsmCids
  <2>1. src \in Key /\ src.freq = 0 /\ src.pci = cid /\ to = Absorb(reg, key, src)
    BY <1>3, CidKey DEF RelocateGsmCid
  <2> HIDE DEF src, to
  <2>2. key # src
    BY <2>1
  <2>3. CASE ~reg[src].present
    <3>1. to = reg
      BY <2>1, <2>3, AbsorbNothing
    <3> QED BY <1>1, <1>3, <2>3, <3>1 DEF src, to
  <2>4. CASE reg[src].present
    <3>1. /\ \A k \in Key : k # key /\ k # src => to[k] = reg[k]
          /\ to[src] = NoRow
          /\ to[key].pass = MergePassport(reg[key].pass, reg[src].pass)
      BY <2>1, <2>2, <2>4, AbsorbAt
    <3>2. reg[src].pass.cid \in {0, cid}
      BY <2>1, <2>4, BareIsGsm DEF BareNames
    <3>3. reg[key].pass \in Passport /\ reg[src].pass \in Passport
      BY <2>1 DEF Registry, Row
    <3>4. MergePassport(reg[key].pass, reg[src].pass).cid
            \in {reg[key].pass.cid, reg[src].pass.cid}
      BY <3>3, MergeIds
    <3>5. /\ \A k \in Key : k # key => to[k] = reg[k] \/ to[k] = NoRow
          /\ to[key].pass.cid \in {reg[key].pass.cid, 0, cid}
          /\ ~to[src].present
      BY <3>1, <3>2, <3>4 DEF NoRow
    <3> QED BY <1>1, <3>5 DEF src, to
  <2> QED BY <2>3, <2>4
<1> QED BY <1>2, <1>3

LEMMA OthersGsm ==
  ASSUME CarriersApart, NEW reg, Tidy(reg), GsmRules(reg), NEW to, Tidy(to),
         NEW rat \in Rats, rat # "GSM", Spares(reg, to, rat)
  PROVE  GsmRules(to)
<1>1. \A k \in Key : k.freq = 0 => to[k] = reg[k]
  BY DEF Spares, AtHome
<1>2. GsmCopies(reg, to)
  BY <1>1, OthersUntouched DEF GsmCopies
<1> QED BY <1>2, GsmCopiesRules

LEMMA TouchGsm ==
  ASSUME CarriersApart, "GSM" \in Rats, NEW reg \in Registry, Tidy(reg), GsmRules(reg),
         NEW key \in Key, key.freq # 0, AtHome(key, "GSM")
  PROVE  /\ Touch(reg, key, "GSM") \in Registry
         /\ Tidy(Touch(reg, key, "GSM")) /\ GsmRules(Touch(reg, key, "GSM"))
<1> DEFINE to == Touch(reg, key, "GSM")
<1>1. /\ \A k \in Key : k # key => to[k] = reg[k]
      /\ to[key].pass = reg[key].pass
  BY TouchAt
<1>2. to \in Registry /\ Tidy(to)
  BY TouchType, TouchTidy DEF AllRats
<1>3. 0 \notin GsmCids
  BY CidKey
<1> HIDE DEF to
<1>4. GsmRules(to)
  BY <1>1, <1>3, GsmLearns
<1> QED BY <1>2, <1>4 DEF to
-----------------------------------------------------------------------------
(* Every handler keeps the rules of the GSM rows.                          *)

(* A passport goes to a bare row only if that row is named by its identity *)
(* and no row with an ARFCN holds it.                                      *)
LEMMA BareKeyResolved ==
  ASSUME GsmInv, NEW p \in Passport, ResolvePassportKey("GSM", p) # NullKey,
         ResolvePassportKey("GSM", p).freq = 0
  PROVE  /\ p.cid \in GsmCids /\ ResolvePassportKey("GSM", p) = KeyOf(0, p.cid)
         /\ \A k \in RowsOf(registry, "GSM") : k.freq # 0 => registry[k].pass.cid # p.cid
<1> DEFINE key == ResolvePassportKey("GSM", p)
           holders == {k \in RowsOf(registry, "GSM") : registry[k].pass.cid = p.cid}
           known == FindKeyByCid(registry, "GSM", p.cid)
           sk == ServingKey(registry, "GSM")
<1>0. /\ registry \in Registry /\ Tidy(registry) /\ NoNullRow
      /\ BareNames(registry) /\ LastResort(registry)
  BY DEF GsmInv, Orderly, TypeOK, GsmRules
<1>1. sk = NullKey \/ sk.freq # 0
  BY <1>0, ServingHome
<1>2. p.cid # 0
  BY <1>1 DEF ResolvePassportKey
<1>3. CASE holders # {} /\ key = known
  <2>1. holders \in SUBSET Key
    BY DEF RowsOf
  <2>2. known \in holders
    BY <1>3, <2>1, FirstKeyIn DEF FindKeyByCid
  <2>3. known \in RowsOf(registry, "GSM") /\ registry[known].pass.cid = p.cid
    BY <2>2
  <2>4. p.cid \in GsmCids /\ known.pci = p.cid /\ known.freq = 0
    BY <1>0, <1>2, <1>3, <2>3 DEF BareNames
  <2>5. known = KeyOf(0, p.cid)
    BY <2>3, <2>4 DEF RowsOf, Key, KeyOf
  <2>6. registry[KeyOf(0, p.cid)].present
    BY <2>3, <2>5 DEF RowsOf
  <2> HIDE DEF key, known
  <2>7. key = KeyOf(0, p.cid)
    BY <1>3, <2>5
  <2>8. \A k \in RowsOf(registry, "GSM") : k.freq # 0 => registry[k].pass.cid # p.cid
    BY <1>0, <2>4, <2>6 DEF LastResort
  <2> QED BY <2>4, <2>7, <2>8 DEF key
<1>4. CASE holders = {}
  <2>1. \A k \in RowsOf(registry, "GSM") : registry[k].pass.cid # p.cid
    BY <1>4
  <2>2. known # NullKey => key = known /\ known = KeyOf(0, p.cid) /\ p.cid \in GsmCids
    BY <1>2, <1>4 DEF FindKeyByCid, ResolvePassportKey
  <2>3. known = NullKey => key = KeyOf(0, p.cid) /\ p.cid \in GsmCids
    <3>1. ServingAccepts("GSM", p) => sk # NullKey
      BY DEF ServingAccepts
    <3>2. SurroundHintApplies("GSM", p) => SurroundRow.freq # 0
      <4> DEFINE rows == {k \in RowsOf(registry, "GSM") : k.freq = hint.arfcn /\ k.pci # 0}
      <4>1. rows # {} => FirstKey(rows) \in rows
        BY FirstKeyIn DEF RowsOf
      <4>2. SurroundRow.freq = hint.arfcn
        BY <4>1 DEF SurroundRow, KeyOf
      <4> QED BY <4>2 DEF SurroundHintApplies
    <3> QED BY <1>1, <1>2, <3>1, <3>2 DEF ResolvePassportKey
  <2> QED BY <2>1, <2>2, <2>3
<1>5. holders # {} => known # NullKey
  <2>1. holders \in SUBSET Key /\ NullKey \notin holders
    BY <1>0 DEF RowsOf, NoNullRow, Present
  <2> QED BY <2>1, FirstKeyIn DEF FindKeyByCid
<1> QED BY <1>2, <1>3, <1>4, <1>5 DEF ResolvePassportKey

LEMMA GsmBindAt ==
  ASSUME NEW reg \in Registry, NEW key \in Key, NEW p \in Passport
  PROVE  LET to == BindPassport(reg, "GSM", key, p) IN
         /\ \A k \in Key : k # key => to[k] = reg[k]
         /\ to[key].pass.cid \in {reg[key].pass.cid, p.cid}
<1> DEFINE arrived == Touch(reg, key, "GSM")
           to == MergeInto(arrived, key, p)
<1>1. /\ \A k \in Key : k # key => arrived[k] = reg[k]
      /\ arrived \in Registry /\ arrived[key].pass = reg[key].pass
  BY TouchAt, TouchType DEF AllRats
<1>2. BindPassport(reg, "GSM", key, p) = to
  BY DEF BindPassport, IsLtePci, Arrive
<1> HIDE DEF arrived
<1>3. /\ \A k \in Key : k # key => to[k] = arrived[k]
      /\ to[key].pass = MergePassport(arrived[key].pass, p)
  BY <1>1, MergeIntoAt
<1> HIDE DEF to
<1>4. MergePassport(reg[key].pass, p).cid \in {reg[key].pass.cid, p.cid}
  <2>1. reg[key].pass \in Passport
    BY DEF Registry, Row
  <2> QED BY <2>1, MergeIds
<1>5. to[key].pass.cid \in {reg[key].pass.cid, p.cid}
  BY <1>1, <1>3, <1>4
<1>6. \A k \in Key : k # key => to[k] = reg[k]
  BY <1>1, <1>3
<1> QED BY <1>2, <1>5, <1>6

LEMMA PassportEventGsm ==
  ASSUME CarriersApart, GsmInv, NEW in \in PassportInputs,
         PassportEvent(in.rat, in.key, in.pass)
  PROVE  GsmRules(registry')
<1> DEFINE rat == in.rat
           p == in.pass
           key == IF in.key = NullKey THEN ResolvePassportKey(rat, p) ELSE in.key
           moved == RelocateGsmCid(registry, key, p.cid)
<1>0. /\ registry \in Registry /\ Tidy(registry) /\ TypeOK /\ Orderly
      /\ GsmRules(registry) /\ BareNames(registry)
  BY DEF GsmInv, Orderly, TypeOK, GsmRules
<1>1. /\ rat \in Rats /\ in.key \in Key /\ p \in Passport /\ Named(in.key, rat)
      /\ Tidy(registry') /\ Spares(registry, registry', rat)
  <2>1. rat \in Rats /\ in.key \in Key /\ p \in Passport /\ Named(in.key, rat)
    BY ConstantTypes, InputsNamed
  <2> QED BY <1>0, <2>1, PassportEventTidy
<1>2. CASE rat # "GSM"
  BY <1>0, <1>1, <1>2, OthersGsm
<1>3. CASE rat = "GSM" /\ UNCHANGED registry
  BY <1>0, <1>3
<1>4. CASE rat = "GSM" /\ key # NullKey /\ registry' = BindPassport(moved, "GSM", key, p)
  <2>1. key \in Key /\ AtHome(key, "GSM") /\ "GSM" \in Rats
    BY <1>0, <1>1, <1>4, ResolveType, ResolveHome DEF Named
  <2>2. CASE key.freq # 0
    <3> HIDE DEF key
    <3>1. /\ moved \in Registry
          /\ \A k \in Key : k # key => moved[k] = registry[k] \/ moved[k] = NoRow
          /\ moved[key].pass.cid \in {registry[key].pass.cid, 0, p.cid}
          /\ p.cid \in GsmCids => ~moved[KeyOf(0, p.cid)].present
      BY <1>0, <2>1, <2>2, RelocateAt
    <3> HIDE DEF moved
    <3>2. /\ \A k \in Key : k # key => registry'[k] = moved[k]
          /\ registry'[key].pass.cid \in {moved[key].pass.cid, p.cid}
      BY <1>1, <1>4, <2>1, <3>1, GsmBindAt
    <3>3. /\ \A k \in Key : k # key => registry'[k] = registry[k] \/ registry'[k] = NoRow
          /\ registry'[key].pass.cid \in {registry[key].pass.cid, 0, p.cid}
      BY <3>1, <3>2
    <3>4. p.cid \in GsmCids => ~registry'[KeyOf(0, p.cid)].present
      <4>1. p.cid \in GsmCids => KeyOf(0, p.cid) \in Key /\ KeyOf(0, p.cid) # key
        BY <2>2, CidKey
      <4> QED BY <3>1, <3>2, <4>1
    <3> QED BY <1>0, <2>1, <2>2, <3>3, <3>4, GsmLearns
  <2>3. CASE key.freq = 0
    <3>1. in.key = NullKey
      BY <1>1, <2>3, <1>4 DEF Named
    <3>2. /\ p.cid \in GsmCids /\ key = KeyOf(0, p.cid)
          /\ \A k \in RowsOf(registry, "GSM") : k.freq # 0 => registry[k].pass.cid # p.cid
      BY <1>1, <1>4, <2>3, <3>1, BareKeyResolved
    <3>3. moved = registry
      BY <2>3 DEF RelocateGsmCid
    <3>4. key.pci = p.cid
      BY <3>2, CidKey
    <3> HIDE DEF key, moved
    <3>5. /\ \A k \in Key : k # key => registry'[k] = registry[k]
          /\ registry'[key].pass.cid \in {registry[key].pass.cid, p.cid}
      BY <1>0, <1>1, <1>4, <2>1, <3>3, GsmBindAt
    <3>6. registry[key].pass.cid \in {0, p.cid}
      <4>1. CASE registry[key].present
        <5>1. key \in RowsOf(registry, "GSM")
          BY <1>0, <2>1, <2>3, <4>1, BareIsGsm
        <5> QED BY <1>0, <2>3, <3>4, <5>1 DEF BareNames
      <4>2. CASE ~registry[key].present
        BY <1>0, <2>1, <4>2 DEF Tidy, NoRow, NoPass
      <4> QED BY <4>1, <4>2
    <3>7. BareNames(registry')
      BY <1>0, <3>2, <3>4, <3>5, <3>6 DEF BareNames, RowsOf
    <3>8. LastResort(registry')
      <4> SUFFICES ASSUME NEW k \in RowsOf(registry', "GSM"), k.freq # 0,
                          registry'[k].pass.cid \in GsmCids
                   PROVE  ~registry'[KeyOf(0, registry'[k].pass.cid)].present
        BY DEF LastResort
      <4> DEFINE c == registry'[k].pass.cid
      <4>1. k \in RowsOf(registry, "GSM") /\ c = registry[k].pass.cid
        BY <2>3, <3>5 DEF RowsOf
      <4>2. ~registry[KeyOf(0, c)].present
        BY <1>0, <4>1 DEF GsmRules, LastResort
      <4>3. KeyOf(0, c) \in Key /\ KeyOf(0, c).pci = c
        BY CidKey
      <4>4. KeyOf(0, c) # key
        BY <3>2, <3>4, <4>1, <4>3
      <4> QED BY <3>5, <4>2, <4>3, <4>4
    <3> QED BY <3>7, <3>8 DEF GsmRules
  <2> QED BY <2>2, <2>3
<1>5. rat = "GSM" => AttachKey(registry, rat, key, p) = key /\ Bindable(rat, key, p) = p
  BY DEF AttachKey, Bindable
<1> QED BY <1>2, <1>3, <1>4, <1>5 DEF PassportEvent
LEMMA ServingChangedGsm ==
  ASSUME CarriersApart, GsmInv, NEW in \in EventKeys, NEW b \in BOOLEAN,
         ServingChanged(in.rat, in.key, b)
  PROVE  GsmRules(registry')
<1> DEFINE rat == in.rat
           key == Target(rat, in.key)
           arrived == Touch(registry, key, "GSM")
           cleared == ClearServing(arrived, "GSM")
           chosen == [cleared EXCEPT ![key] =
                        [@ EXCEPT !.serving = TRUE, !.ever = Camps(arrived, key)]]
           left == [arrived EXCEPT ![key].serving = FALSE]
<1>0. /\ registry \in Registry /\ Tidy(registry) /\ TypeOK /\ Orderly
      /\ GsmRules(registry)
  BY DEF GsmInv, Orderly, TypeOK
<1>1. /\ rat \in Rats /\ in.key \in Key /\ Named(in.key, rat)
      /\ Tidy(registry') /\ Spares(registry, registry', rat)
  <2>1. rat \in Rats /\ in.key \in Key /\ Named(in.key, rat)
    BY ConstantTypes, InputsNamed
  <2> QED BY <1>0, <2>1, ServingChangedTidy
<1>2. CASE rat # "GSM"
  BY <1>0, <1>1, <1>2, OthersGsm
<1>3. CASE rat = "GSM"
  <2>1. key \in Key /\ key.freq # 0 /\ AtHome(key, "GSM")
    BY <1>0, <1>1, <1>3, TargetType, TargetHome DEF ServingChanged, Named
  <2>2. registry' = chosen \/ registry' = left
    BY <1>3 DEF ServingChanged, Arrive
  <2> HIDE DEF key
  <2>3. arrived \in Registry /\ Tidy(arrived) /\ GsmRules(arrived)
    BY <1>0, <1>1, <1>3, <2>1, TouchGsm
  <2> HIDE DEF arrived
  <2>4. /\ cleared \in Registry
        /\ \A k \in Key : /\ cleared[k].present = arrived[k].present
                          /\ cleared[k].rat = arrived[k].rat
                          /\ cleared[k].pass = arrived[k].pass
    BY <2>3, ClearServingType, ClearServingAt
  <2> HIDE DEF cleared
  <2>5. \A k \in Key : /\ registry'[k].present = arrived[k].present
                       /\ registry'[k].rat = arrived[k].rat
                       /\ registry'[k].pass = arrived[k].pass
    <3>1. CASE registry' = chosen
      BY <2>1, <2>4, <3>1 DEF Registry, Row
    <3>2. CASE registry' = left
      BY <2>1, <2>3, <3>2 DEF Registry, Row
    <3> QED BY <2>2, <3>1, <3>2
  <2>6. GsmCopies(arrived, registry')
    BY <2>5 DEF GsmCopies, RowsOf
  <2> QED BY <2>3, <2>6, GsmCopiesRules
<1> QED BY <1>2, <1>3

LEMMA RadioParamsGsm ==
  ASSUME CarriersApart, GsmInv, NEW in \in EventKeys, NEW b \in BOOLEAN,
         RadioParams(in.rat, in.key, b)
  PROVE  GsmRules(registry')
<1> DEFINE rat == in.rat
           key == Target(rat, in.key)
           arrived == Arrive(registry, rat, key)
           applied == IF b /\ key.pci # 0 /\ ~(rat = "GSM" /\ key.freq = 0)
                      THEN [arrived EXCEPT ![key].rpci = key.pci] ELSE arrived
           only == CHOOSE c \in PendingCids : TRUE
           joined == IF TakesPending(applied, key)
                     THEN [applied EXCEPT ![key].pass = MergePassport(@, pending[only])]
                     ELSE applied
           cid == joined[key].pass.cid
<1>0. /\ registry \in Registry /\ Tidy(registry) /\ TypeOK /\ Orderly
      /\ GsmRules(registry)
  BY DEF GsmInv, Orderly, TypeOK
<1>1. /\ rat \in Rats /\ in.key \in Key /\ Named(in.key, rat)
      /\ Tidy(registry') /\ Spares(registry, registry', rat)
  <2>1. rat \in Rats /\ in.key \in Key /\ Named(in.key, rat)
    BY ConstantTypes, InputsNamed
  <2> QED BY <1>0, <2>1, RadioParamsTidy
<1>2. CASE rat # "GSM"
  BY <1>0, <1>1, <1>2, OthersGsm
<1>3. CASE rat = "GSM"
  <2>1. /\ key \in Key /\ key.freq # 0 /\ AtHome(key, "GSM")
        /\ key.pci \in Pcis \cup GsmCids \cup {0}
    BY <1>0, <1>1, <1>3, TargetType, TargetHome DEF RadioParams, Named, Key
  <2>2. arrived \in Registry /\ Tidy(arrived) /\ GsmRules(arrived) /\ arrived[key].present
    <3>1. arrived = Touch(registry, key, "GSM")
      BY <1>3 DEF Arrive
    <3> HIDE DEF key, arrived
    <3> QED BY <1>0, <1>1, <1>3, <2>1, <3>1, TouchGsm, TouchAt
  <2>3. registry' = RelocateGsmCid(joined, key, cid)
    BY <1>3 DEF RadioParams
  <2> HIDE DEF key, arrived
  <2>4. /\ applied \in Registry
        /\ \A k \in Key : k # key => applied[k] = arrived[k]
        /\ applied[key].present = arrived[key].present /\ applied[key].rat = arrived[key].rat
        /\ applied[key].serving = arrived[key].serving
    BY <2>1, <2>2 DEF Registry, Row
  <2> HIDE DEF applied
  <2>5. /\ joined \in Registry
        /\ \A k \in Key : k # key => joined[k] = arrived[k]
        /\ joined[key].present = arrived[key].present /\ joined[key].rat = arrived[key].rat
        /\ joined[key].serving = arrived[key].serving
    <3>1. CASE TakesPending(applied, key)
      <4>1. PendingCids # {}
        BY <3>1, FS_EmptySet DEF TakesPending
      <4>2. pending[only] \in Passport
        BY <1>0, <4>1 DEF PendingCids, TypeOK
      <4> HIDE DEF only
      <4> DEFINE to == [applied EXCEPT ![key].pass = MergePassport(@, pending[only])]
      <4>3. to \in Registry
        BY <2>1, <2>4, <4>2, MergedRowType
      <4>4. /\ \A k \in Key : k # key => to[k] = applied[k]
            /\ to[key].present = applied[key].present /\ to[key].rat = applied[key].rat
            /\ to[key].serving = applied[key].serving
        BY <2>1, <2>4, MergeRowAt
      <4>5. joined = to
        BY <3>1
      <4> HIDE DEF to, joined
      <4> QED BY <2>4, <4>3, <4>4, <4>5
    <3>2. CASE ~TakesPending(applied, key)
      BY <2>4, <3>2
    <3> QED BY <3>1, <3>2
  <2> HIDE DEF joined
  <2>6. Tidy(joined)
    <3>1. Thins(arrived, joined)
      BY <2>1, <2>2, <2>5 DEF Thins
    <3> QED BY <2>2, <3>1, ThinsTidy
  <2>7. BareNames(joined)
    BY <2>1, <2>2, <2>5 DEF GsmRules, BareNames, RowsOf
  <2>8. /\ \A k \in Key : k # key => registry'[k] = arrived[k] \/ registry'[k] = NoRow
        /\ registry'[key].pass.cid \in {cid, 0}
        /\ cid \in GsmCids => ~registry'[KeyOf(0, cid)].present
    BY <2>1, <2>3, <2>5, <2>6, <2>7, RelocateAt
  <2> HIDE DEF cid
  <2> QED BY <1>1, <1>3, <2>1, <2>2, <2>8, GsmLearns
<1> QED BY <1>2, <1>3

LEMMA GsmNeighborGsm ==
  ASSUME CarriersApart, GsmInv, "GSM" \in Rats,
         NEW f \in Carriers["GSM"], NEW bsic \in Pcis \cup {0}, GsmNeighbor(f, bsic)
  PROVE  GsmRules(registry')
<1> DEFINE key == KeyOf(f, bsic)
           src == KeyOf(f, 0)
           absorbed == Absorb(registry, key, src)
           arrived == Touch(absorbed, key, "GSM")
           stamped == [arrived EXCEPT ![key].rpci = bsic]
<1>0. registry \in Registry /\ Tidy(registry) /\ GsmRules(registry)
  BY DEF GsmInv, Orderly, TypeOK
<1>1. f \in Freqs /\ f # 0 /\ f \in CarriersOf("GSM")
  BY ConstantTypes, InputsNamed
<1>2. /\ key \in Key /\ key.freq # 0 /\ AtHome(key, "GSM")
      /\ src \in Key /\ src.freq # 0 /\ AtHome(src, "GSM")
  BY <1>1 DEF KeyOf, Key, AtHome
<1>3. registry' = stamped \/ registry' = arrived
  BY DEF GsmNeighbor
<1> HIDE DEF key, src
<1>4. absorbed \in Registry /\ Tidy(absorbed)
  BY <1>0, <1>2, AbsorbType, AbsorbTidy
<1>5. GsmRules(absorbed)
  <2>1. CASE key = src \/ ~registry[src].present
    BY <1>0, <2>1, AbsorbNothing
  <2>2. CASE ~(key = src \/ ~registry[src].present)
    <3>1. /\ \A k \in Key : k # key /\ k # src => absorbed[k] = registry[k]
          /\ absorbed[src] = NoRow
          /\ absorbed[key].pass = MergePassport(registry[key].pass, registry[src].pass)
      BY <1>0, <1>2, <2>2, AbsorbAt
    <3> DEFINE cid == registry[src].pass.cid
    <3>2. absorbed[key].pass.cid \in {registry[key].pass.cid, 0, cid}
      <4>1. registry[key].pass \in Passport /\ registry[src].pass \in Passport
        BY <1>0, <1>2 DEF Registry, Row
      <4>2. MergePassport(registry[key].pass, registry[src].pass).cid
              \in {registry[key].pass.cid, cid}
        BY <4>1, MergeIds
      <4> QED BY <3>1, <4>2
    <3>3. cid \in GsmCids => ~absorbed[KeyOf(0, cid)].present
      <4>1. src \in RowsOf(registry, "GSM")
        BY <1>0, <1>2, <2>2, HomeUnique DEF Tidy, RowsOf
      <4>2. cid \in GsmCids => ~registry[KeyOf(0, cid)].present
        BY <1>0, <1>2, <4>1 DEF GsmRules, LastResort
      <4>3. cid \in GsmCids => /\ KeyOf(0, cid) \in Key
                               /\ KeyOf(0, cid) # key /\ KeyOf(0, cid) # src
        BY <1>2, CidKey
      <4> QED BY <3>1, <4>2, <4>3
    <3> HIDE DEF absorbed, cid
    <3>4. \A k \in Key : k # key => absorbed[k] = registry[k] \/ absorbed[k] = NoRow
      BY <3>1
    <3> QED BY <1>0, <1>2, <3>2, <3>3, <3>4, GsmLearns
  <2> QED BY <2>1, <2>2
<1> HIDE DEF absorbed
<1>6. arrived \in Registry /\ Tidy(arrived) /\ GsmRules(arrived)
  BY <1>2, <1>4, <1>5, TouchGsm
<1> HIDE DEF arrived
<1>7. GsmCopies(arrived, stamped)
  BY <1>2, <1>6 DEF Registry, Row, GsmCopies, RowsOf
<1> HIDE DEF stamped
<1> QED BY <1>3, <1>6, <1>7, GsmCopiesRules

LEMMA NextGsm ==
  ASSUME CarriersApart, GsmInv, [Next]_vars
  PROVE  GsmInv'
<1> USE ConstantTypes
<1>0. /\ Orderly /\ Orderly' /\ registry \in Registry /\ Tidy(registry) /\ Tidy(registry')
      /\ TypeOK /\ GsmRules(registry)
  BY NextOrderly DEF GsmInv, Orderly, TypeOK
<1>1. SUFFICES GsmRules(registry')
  BY <1>0 DEF GsmInv
<1>2. CASE \E in \in PassportInputs : PassportEvent(in.rat, in.key, in.pass)
  BY <1>2, PassportEventGsm
<1>3. CASE KeyedEvent
  <2>1. PICK in \in EventKeys :
          \/ \E b \in BOOLEAN : ServingChanged(in.rat, in.key, b)
          \/ \E b \in BOOLEAN : RadioParams(in.rat, in.key, b)
          \/ Observe(in.rat, in.key)
    BY <1>3 DEF KeyedEvent
  <2>2. in.rat \in Rats /\ in.key \in Key /\ Named(in.key, in.rat)
    BY InputsNamed
  <2>3. CASE Observe(in.rat, in.key)
    <3> DEFINE key == Target(in.rat, in.key)
    <3>1. /\ key \in Key /\ key.freq # 0 /\ AtHome(key, in.rat)
          /\ registry' = Arrive(registry, in.rat, key)
      BY <1>0, <2>2, <2>3, TargetType, TargetHome DEF Observe, Named
    <3> HIDE DEF key
    <3>2. CASE in.rat = "GSM"
      BY <1>0, <2>2, <3>1, <3>2, TouchGsm DEF Arrive
    <3>3. CASE in.rat # "GSM"
      BY <1>0, <2>2, <3>1, <3>3, ArriveTidy, OthersGsm
    <3> QED BY <3>2, <3>3
  <2> QED BY <2>1, <2>3, ServingChangedGsm, RadioParamsGsm
<1>4. CASE LteNeighborList
  <2>1. "LTE" \in Rats /\ Spares(registry, registry', "LTE")
    <3>0. "LTE" \in Rats
      BY <1>4 DEF LteNeighborList
    <3>1. CASE \E in \in CgiInputs :
                 in.rat = "LTE" /\ LteMeasNeighbor(in.key, in.pci, in.pass)
      BY <1>0, <3>0, <3>1, InputsNamed, LteMeasNeighborTidy
    <3>2. CASE \E in \in EventKeys, pci \in Pcis \cup {0} :
                 in.rat = "LTE" /\ SibIntraNeighbor(in.key, pci)
      BY <1>0, <3>0, <3>2, InputsNamed, SibIntraNeighborTidy
    <3>3. CASE \E in \in EventKeys, f \in Carriers["LTE"], pci \in Pcis \cup {0} :
                 in.rat = "LTE" /\ SibInterNeighbor(in.key, f, pci)
      BY <1>0, <3>0, <3>3, InputsNamed, SibInterNeighborTidy
    <3> QED BY <1>4, <3>0, <3>1, <3>2, <3>3 DEF LteNeighborList
  <2> QED BY <1>0, <2>1, OthersGsm
<1>5. CASE OtherNeighborList
  <2>1. CASE \E in \in CgiInputs : in.rat = "NR" /\ NrMeasNeighbor(in.key, in.pci, in.pass)
    <3>1. "NR" \in Rats /\ Spares(registry, registry', "NR")
      BY <1>0, <2>1, InputsNamed, NrMeasNeighborTidy
    <3> QED BY <1>0, <3>1, OthersGsm
  <2>2. CASE "GSM" \in Rats /\ \E f \in Carriers["GSM"], bsic \in Pcis \cup {0} :
               GsmNeighbor(f, bsic)
    BY <2>2, GsmNeighborGsm
  <2>3. CASE "WCDMA" \in Rats /\ \E f \in Carriers["WCDMA"], psc \in Pcis :
               WcdmaNeighbor(f, psc)
    <3>1. PICK f \in Carriers["WCDMA"], psc \in Pcis : WcdmaNeighbor(f, psc)
      BY <2>3
    <3>2. f \in Freqs \cup {0} /\ f # 0 /\ f \in CarriersOf("WCDMA")
      BY <2>3, InputsNamed
    <3>3. Spares(registry, registry', "WCDMA")
      BY <1>0, <2>3, <3>1, <3>2, ListedTidy DEF WcdmaNeighbor
    <3> QED BY <1>0, <2>3, <3>3, OthersGsm
  <2>4. CASE "GSM" \in Rats /\ \E f \in Carriers["GSM"] : SetSurroundHint(f)
    BY <1>0, <2>4 DEF SetSurroundHint
  <2> QED BY <1>5, <2>1, <2>2, <2>3, <2>4 DEF OtherNeighborList
<1>6. CASE UNCHANGED vars
  BY <1>0, <1>6 DEF vars
<1> QED BY <1>2, <1>3, <1>4, <1>5, <1>6 DEF Next

(* With carriers apart, a GSM row named after its identity is gone as soon *)
(* as a row with an ARFCN holds that identity, in whichever order SI-3,    *)
(* surround searches and neighbour lists tell of the two.                  *)
THEOREM CidRowIsLast == CarriersApart => (Spec => []CidRowIsLastResort)
<1> SUFFICES ASSUME CarriersApart PROVE Spec => []CidRowIsLastResort
  OBVIOUS
<1>1. Init => GsmInv
  <2>1. Init => RowsOf(registry, "GSM") = {}
    BY DEF Init, RowsOf, NoRow
  <2> QED BY <2>1, InitOrderly DEF GsmInv, GsmRules, BareNames, LastResort
<1>2. GsmInv /\ [Next]_vars => GsmInv'
  BY NextGsm
<1>3. GsmInv => CidRowIsLastResort
  BY DEF GsmInv, GsmRules, LastResort, CidRowIsLastResort, Present
<1> QED BY <1>1, <1>2, <1>3, PTL DEF Spec
=============================================================================
