------------------------- MODULE SurveyGuardsProofs --------------------------
(***************************************************************************)
(* EndRestored for every set of recipes, every bound on lost commands and  *)
(* every number of drops.                                                  *)
(*                                                                         *)
(* The argument is one of debts.  A thread that switches the radio off,    *)
(* selects an operator by hand or locks a cell has in its program the      *)
(* command that takes this back, and no decision stands in between that    *)
(* could skip it.  So a debt is always some thread's to pay; it survives   *)
(* the joins only if the paying command was lost, which happens once to    *)
(* each kind, and then restore_radio pays it.                              *)
(***************************************************************************)
EXTENDS SurveyGuards, SequenceTheorems, NaturalsInduction, WellFoundedInduction, TLAPS

(* The steps that programs are made of.                                    *)
Ops == Commands \cup {"hold", "release", "search", "found", "save", "dwell", "wipe",
                      "enter", "hold?", "judge", "poll", "nudge", "leave", "soft",
                      "hard", "look", "find", "refind", "research"}

(* Only a survey locks cells.                                              *)
OpsHere == IF recipe.surveying THEN Ops ELSE Ops \ {"lock"}

(* The mode is "none" should a mode be restored that was never saved.      *)
Modem == [radio : BOOLEAN, mode : {"none", "any", "lte", "3g"}, sel : {"auto", "COPS1", "COPS2"},
          camp : {"none", "lte", "3g"}, pin : BOOLEAN, lock : BOOLEAN, stuck : BOOLEAN]

Types ==
  /\ modem \in Modem
  /\ recipe \in Recipes
  /\ prog \in [Threads -> Seq(OpsHere)]
  /\ lost \subseteq {"CFUN1", "other"}
  /\ phase \in {"pin", "run", "stop", "restore", "over"}
  /\ saved \in {"none", "any", "lte", "3g"}

-----------------------------------------------------------------------------
(* Debts.  A payer takes back what its openers do; "leave" is what a pass  *)
(* of the guard that may be cut short jumps to.                            *)

Payers == {"CFUN1", "COPS0", "unlock"}

Openers(c) == CASE c = "CFUN1" -> {"CFUN4"}
                [] c = "COPS0" -> {"COPS1", "COPS2"}
                [] c = "unlock" -> {"lock"}
                [] c = "leave" -> {"poll", "hold?", "judge"}

(* The decisions that may skip a part of the program.                      *)
Decisions(c) == IF c = "leave" THEN {} ELSE {"enter", "hold?", "judge", "poll"}

(* After step i of the program, c comes before any decision.               *)
Pays(s, i, c) ==
  \E j \in (i + 1)..Len(s) : s[j] = c /\ \A k \in (i + 1)..j : s[k] \notin Decisions(c)

(* Every opener of the program is followed by its payer.                   *)
Closed(s, c) == \A i \in 1..Len(s) : s[i] \in Openers(c) => Pays(s, i, c)

Plain(s, c) == \A i \in 1..Len(s) : s[i] \notin Decisions(c)

Owed(c, m) == CASE c = "CFUN1" -> ~m.radio
                [] c = "COPS0" -> m.sel # "auto"
                [] c = "unlock" -> m.lock

ProgramsClosed == \A t \in Threads, c \in Payers \cup {"leave"} : Closed(prog[t], c)

(* A debt is owed by a thread unless its payer was lost.                   *)
DebtsOwned ==
  \A c \in Payers :
    Owed(c, modem) => Kind(c) \in lost \/ \E t \in Threads : Pays(prog[t], 0, c)

(* The main thread is idle while the others run, and they are gone when it *)
(* restores.                                                               *)
Turns ==
  /\ phase \in {"run", "stop"} => prog["main"] = <<>>
  /\ phase \in {"restore", "over"} => prog["guard"] = <<>> /\ prog["worker"] = <<>>
  /\ phase = "restore" => prog["main"] \in Seq({"unlock", "saved", "CFUN1", "COPS0"})
  /\ phase = "over" => prog["main"] = <<>>

(* What the joins leave over the main thread pays: its payer was lost once *)
(* and will not be lost again.                                             *)
RestorePays ==
  phase \in {"restore", "over"} /\ Restores =>
    \A c \in Payers : Owed(c, modem) => Kind(c) \in lost /\ Pays(prog["main"], 0, c)

(* A watch locks nothing.                                                  *)
WatchUnlocked == ~recipe.surveying => ~modem.lock

DebtInv == Types /\ ProgramsClosed /\ DebtsOwned /\ Turns /\ RestorePays /\ WatchUnlocked

-----------------------------------------------------------------------------
(* A non-empty set of naturals has a least element.                        *)
LEMMA LeastNatural ==
  ASSUME NEW S \in SUBSET Nat, S # {}
  PROVE  \E m \in S : \A i \in S : m <= i
<1> DEFINE R == OpToRel(<, Nat)
<1>1. IsWellFoundedOn(R, Nat)
  BY NatLessThanWellFounded
<1>2. \A x, y \in Nat : y < x => <<y, x>> \in R
  BY DEF R, OpToRel
<1> HIDE DEF R
<1>3. PICK m \in S : \A i \in S : ~ (<<i, m>> \in R)
  BY <1>1, WFMin
<1>4. ASSUME NEW i \in S
      PROVE  m <= i
  <2>1. ~ (i < m)
    BY <1>2, <1>3
  <2> QED BY <2>1
<1> QED BY <1>4

(* Programs as sequences: what a tail, a suffix and a concatenation pay.   *)

LEMMA PaysTail ==
  ASSUME NEW S, NEW s \in Seq(S), s # <<>>, NEW c, NEW i \in Nat, Pays(s, i + 1, c)
  PROVE  Pays(Tail(s), i, c)
<1>1. PICK j \in (i + 2)..Len(s) : s[j] = c /\ \A k \in (i + 2)..j : s[k] \notin Decisions(c)
  BY DEF Pays
<1>2. /\ Len(s) \in Nat /\ Len(Tail(s)) = Len(s) - 1
      /\ \A k \in 1..Len(Tail(s)) : Tail(s)[k] = s[k + 1]
  BY HeadTailProperties, LenProperties
<1>3. j - 1 \in (i + 1)..Len(Tail(s)) /\ Tail(s)[j - 1] = c
  BY <1>1, <1>2
<1>4. \A k \in (i + 1)..(j - 1) : Tail(s)[k] \notin Decisions(c)
  BY <1>1, <1>2
<1> QED BY <1>3, <1>4 DEF Pays

LEMMA ClosedTail ==
  ASSUME NEW S, NEW s \in Seq(S), s # <<>>, NEW c, Closed(s, c)
  PROVE  /\ Closed(Tail(s), c)
         /\ Head(s) \in Openers(c) => Pays(Tail(s), 0, c)
<1>1. /\ Len(s) \in Nat \ {0} /\ Len(Tail(s)) = Len(s) - 1 /\ Head(s) = s[1]
      /\ \A k \in 1..Len(Tail(s)) : Tail(s)[k] = s[k + 1]
  BY HeadTailProperties, LenProperties, EmptySeq
<1>2. ASSUME NEW i \in 1..Len(Tail(s)), Tail(s)[i] \in Openers(c)
      PROVE  Pays(Tail(s), i, c)
  <2>1. i + 1 \in 1..Len(s) /\ s[i + 1] \in Openers(c)
    BY <1>1, <1>2
  <2>2. Pays(s, i + 1, c)
    BY <2>1 DEF Closed
  <2> QED BY <1>2, <2>2, PaysTail
<1>3. ASSUME Head(s) \in Openers(c)
      PROVE  Pays(Tail(s), 0, c)
  <2>1. Pays(s, 0 + 1, c)
    BY <1>1, <1>3 DEF Closed
  <2> QED BY <2>1, PaysTail
<1> QED BY <1>2, <1>3 DEF Closed

(* A payer that is due and is not the next step is still due after it.     *)
LEMMA PaysLater ==
  ASSUME NEW S, NEW s \in Seq(S), NEW c, Pays(s, 0, c)
  PROVE  /\ s # <<>> /\ Head(s) \notin Decisions(c)
         /\ Head(s) # c => Pays(Tail(s), 0, c)
<1>1. PICK j \in (0 + 1)..Len(s) : s[j] = c /\ \A k \in (0 + 1)..j : s[k] \notin Decisions(c)
  BY DEF Pays
<1>2. Len(s) \in Nat /\ s # <<>> /\ Head(s) = s[1]
  <2>1. Len(s) \in Nat
    BY LenProperties
  <2>2. s # <<>>
    BY <1>1, <2>1, EmptySeq
  <2> QED BY <2>1, <2>2, HeadTailProperties
<1>3. Head(s) # c => Pays(s, 0 + 1, c)
  BY <1>1, <1>2 DEF Pays
<1> QED BY <1>1, <1>2, <1>3, PaysTail

LEMMA PaysConcat ==
  ASSUME NEW S, NEW a \in Seq(S), NEW b \in Seq(S), NEW c, NEW i \in Nat
  PROVE  /\ Pays(a, i, c) => Pays(a \o b, i, c)
         /\ Pays(b, i, c) => Pays(a \o b, Len(a) + i, c)
         /\ i <= Len(a) /\ Plain(a, c) /\ Pays(b, 0, c) => Pays(a \o b, i, c)
<1> DEFINE ab == a \o b
<1>1. /\ Len(a) \in Nat /\ Len(b) \in Nat /\ Len(ab) = Len(a) + Len(b)
      /\ \A k \in 1..Len(a) : ab[k] = a[k]
      /\ \A k \in 1..Len(b) : ab[Len(a) + k] = b[k]
  BY ConcatProperties, LenProperties
<1> HIDE DEF ab
<1>2. ASSUME Pays(a, i, c)
      PROVE  Pays(ab, i, c)
  <2>1. PICK j \in (i + 1)..Len(a) : a[j] = c /\ \A k \in (i + 1)..j : a[k] \notin Decisions(c)
    BY <1>2 DEF Pays
  <2>2. j \in (i + 1)..Len(ab) /\ ab[j] = c
    BY <1>1, <2>1
  <2>3. \A k \in (i + 1)..j : ab[k] \notin Decisions(c)
    BY <1>1, <2>1
  <2> QED BY <2>2, <2>3 DEF Pays
<1>3. ASSUME Pays(b, i, c)
      PROVE  Pays(ab, Len(a) + i, c)
  <2>1. PICK j \in (i + 1)..Len(b) : b[j] = c /\ \A k \in (i + 1)..j : b[k] \notin Decisions(c)
    BY <1>3 DEF Pays
  <2>2. Len(a) + j \in (Len(a) + i + 1)..Len(ab) /\ ab[Len(a) + j] = c
    BY <1>1, <2>1
  <2>3. ASSUME NEW k \in (Len(a) + i + 1)..(Len(a) + j)
        PROVE  ab[k] \notin Decisions(c)
    <3>1. k - Len(a) \in (i + 1)..j /\ k - Len(a) \in 1..Len(b) /\ Len(a) + (k - Len(a)) = k
      BY <1>1, <2>1
    <3>2. ab[Len(a) + (k - Len(a))] = b[k - Len(a)]
      BY <1>1, <3>1
    <3> QED BY <2>1, <3>1, <3>2
  <2> QED BY <2>2, <2>3 DEF Pays
<1>4. ASSUME i <= Len(a), Plain(a, c), Pays(b, 0, c)
      PROVE  Pays(ab, i, c)
  <2>1. PICK j \in (0 + 1)..Len(b) : b[j] = c /\ \A k \in (0 + 1)..j : b[k] \notin Decisions(c)
    BY <1>4 DEF Pays
  <2>2. Len(a) + j \in (i + 1)..Len(ab) /\ ab[Len(a) + j] = c
    BY <1>1, <1>4, <2>1
  <2>3. ASSUME NEW k \in (i + 1)..(Len(a) + j)
        PROVE  ab[k] \notin Decisions(c)
    <3>1. CASE k <= Len(a)
      BY <1>1, <1>4, <3>1 DEF Plain
    <3>2. CASE k > Len(a)
      <4>1. k - Len(a) \in (0 + 1)..j /\ k - Len(a) \in 1..Len(b) /\ Len(a) + (k - Len(a)) = k
        BY <1>1, <2>1, <3>2
      <4>2. ab[Len(a) + (k - Len(a))] = b[k - Len(a)]
        BY <1>1, <4>1
      <4> QED BY <2>1, <4>1, <4>2
    <3> QED BY <1>1, <3>1, <3>2
  <2> QED BY <2>2, <2>3 DEF Pays
<1> QED BY <1>2, <1>3, <1>4 DEF ab

(* Closed programs in a row are closed; so is one that leaves a debt to    *)
(* the program after it.                                                   *)
LEMMA ClosedConcat ==
  ASSUME NEW S, NEW a \in Seq(S), NEW b \in Seq(S), NEW c, Closed(b, c),
         Closed(a, c) \/ (Plain(a, c) /\ Pays(b, 0, c))
  PROVE  Closed(a \o b, c)
<1> DEFINE ab == a \o b
<1>1. /\ Len(a) \in Nat /\ Len(b) \in Nat /\ Len(ab) = Len(a) + Len(b)
      /\ \A k \in 1..Len(a) : ab[k] = a[k]
      /\ \A k \in 1..Len(b) : ab[Len(a) + k] = b[k]
  BY ConcatProperties, LenProperties
<1>2. ASSUME NEW i \in 1..Len(ab), ab[i] \in Openers(c)
      PROVE  Pays(ab, i, c)
  <2>1. CASE i <= Len(a)
    <3>1. i \in 1..Len(a) /\ i \in Nat /\ a[i] \in Openers(c)
      BY <1>1, <1>2, <2>1
    <3>2. CASE Closed(a, c)
      <4>1. Pays(a, i, c)
        BY <3>1, <3>2 DEF Closed
      <4> QED BY <3>1, <4>1, PaysConcat
    <3>3. CASE Plain(a, c) /\ Pays(b, 0, c)
      BY <2>1, <3>1, <3>3, PaysConcat
    <3> QED BY <3>2, <3>3
  <2>2. CASE i > Len(a)
    <3> DEFINE k == i - Len(a)
    <3>1. k \in 1..Len(b) /\ k \in Nat /\ i = Len(a) + k
      BY <1>1, <2>2
    <3> HIDE DEF k
    <3>2. b[k] \in Openers(c)
      BY <1>1, <1>2, <3>1
    <3>3. Pays(b, k, c)
      BY <3>1, <3>2 DEF Closed
    <3>4. Pays(ab, Len(a) + k, c)
      BY <3>1, <3>3, PaysConcat
    <3> QED BY <3>1, <3>4
  <2> QED BY <1>1, <2>1, <2>2
<1> QED BY <1>2 DEF Closed

LEMMA PlainConcat ==
  ASSUME NEW S, NEW a \in Seq(S), NEW b \in Seq(S), NEW c, Plain(a, c), Plain(b, c)
  PROVE  Plain(a \o b, c)
<1> DEFINE ab == a \o b
<1>1. /\ Len(a) \in Nat /\ Len(b) \in Nat /\ Len(ab) = Len(a) + Len(b)
      /\ \A k \in 1..Len(ab) : ab[k] = IF k <= Len(a) THEN a[k] ELSE b[k - Len(a)]
  BY ConcatProperties, LenProperties
<1> HIDE DEF ab
<1>2. ASSUME NEW k \in 1..Len(ab)
      PROVE  ab[k] \notin Decisions(c)
  <2>1. CASE k <= Len(a)
    BY <1>1, <2>1 DEF Plain
  <2>2. CASE k > Len(a)
    <3>1. k - Len(a) \in 1..Len(b) /\ ab[k] = b[k - Len(a)]
      BY <1>1, <2>2
    <3> QED BY <3>1 DEF Plain
  <2> QED BY <1>1, <2>1, <2>2
<1> QED BY <1>2 DEF Plain, ab

(* What is left of a program from some step on.                            *)
LEMMA ClosedSuffix ==
  ASSUME NEW S, NEW s \in Seq(S), NEW at \in 1..Len(s), NEW c, Closed(s, c)
  PROVE  /\ SubSeq(s, at, Len(s)) \in Seq(S)
         /\ Closed(SubSeq(s, at, Len(s)), c)
<1> DEFINE r == SubSeq(s, at, Len(s))
           n == Len(s)
<1>0. n \in Nat /\ \A i \in 1..n : s[i] \in S
  BY LenProperties, ElementOfSeq
<1>1. /\ r \in Seq(S) /\ Len(r) = n - at + 1
      /\ \A i \in 1..Len(r) : r[i] = s[at + i - 1]
  BY <1>0, SubSeqProperties
<1> HIDE DEF r
<1>2. ASSUME NEW i \in 1..Len(r), r[i] \in Openers(c)
      PROVE  Pays(r, i, c)
  <2>1. at + i - 1 \in 1..n /\ s[at + i - 1] \in Openers(c)
    BY <1>0, <1>1, <1>2, SMTT(40)
  <2>2. PICK j \in (at + i - 1 + 1)..n :
          s[j] = c /\ \A k \in (at + i - 1 + 1)..j : s[k] \notin Decisions(c)
    BY <2>1 DEF Closed, Pays
  <2>3. j - at + 1 \in (i + 1)..Len(r) /\ r[j - at + 1] = c
    BY <1>0, <1>1, <2>2, SMTT(40)
  <2>4. ASSUME NEW k \in (i + 1)..(j - at + 1)
        PROVE  r[k] \notin Decisions(c)
    <3>1. k \in 1..Len(r) /\ at + k - 1 \in (at + i - 1 + 1)..j
      BY <1>0, <1>1, <2>2
    <3> QED BY <1>1, <2>2, <3>1
  <2> QED BY <2>3, <2>4 DEF Pays
<1> QED BY <1>1, <1>2 DEF Closed, r

-----------------------------------------------------------------------------
(* The programs of the threads, piece by piece.                            *)

(* Steps that open no debt and decide nothing.                             *)
Quiet == Ops \ {"CFUN4", "COPS1", "COPS2", "lock", "poll", "hold?", "judge", "enter"}

LEMMA QuietOps ==
  /\ Quiet \subseteq OpsHere
  /\ Ops \ {"lock"} \subseteq OpsHere /\ OpsHere \subseteq Ops
BY DEF Quiet, OpsHere, Ops

(* A program of a watch is one of a survey as well.                        *)
LEMMA WatchProgram ==
  ASSUME NEW s \in Seq(Ops \ {"lock"})
  PROVE  s \in Seq(OpsHere)
BY QuietOps, SeqMonotonic

LEMMA QuietIsClosed ==
  ASSUME NEW s \in Seq(Quiet)
  PROVE  /\ s \in Seq(OpsHere)
         /\ \A c \in Payers \cup {"leave"} : Closed(s, c) /\ Plain(s, c)
<1>1. Len(s) \in Nat /\ \A i \in 1..Len(s) : s[i] \in Quiet
  BY LenProperties, ElementOfSeq
<1>2. s \in Seq(OpsHere)
  BY QuietOps, SeqMonotonic
<1>3. ASSUME NEW c \in Payers \cup {"leave"}, NEW op \in Quiet
      PROVE  op \notin Openers(c) /\ op \notin Decisions(c)
  BY DEF Payers, Quiet, Openers, Decisions
<1> QED BY <1>1, <1>2, <1>3 DEF Closed, Plain

(* Pinning LTE is quiet, and it and unlock pay what they are there for.    *)
LEMMA PinPays ==
  /\ pin_lte4g \in Seq(Quiet) /\ Pays(pin_lte4g, 0, "COPS0")
  /\ pin_wcdma3g \in Seq(Quiet) /\ Pays(pin_wcdma3g, 0, "unlock")
  /\ <<"unlock">> \in Seq(Quiet) /\ Pays(<<"unlock">>, 0, "unlock")
<1>1. pin_lte4g \in Seq(Quiet) /\ pin_wcdma3g \in Seq(Quiet) /\ <<"unlock">> \in Seq(Quiet)
  BY DEF pin_lte4g, pin_wcdma3g, Quiet, Ops, Commands
<1>2. Pays(pin_lte4g, 0, "COPS0")
  <2>1. 3 \in 1..Len(pin_lte4g) /\ pin_lte4g[3] = "COPS0"
    BY DEF pin_lte4g
  <2>2. \A k \in 1..3 : pin_lte4g[k] \notin Decisions("COPS0")
    BY DEF pin_lte4g, Decisions
  <2> QED BY <2>1, <2>2 DEF Pays
<1>3. Pays(pin_wcdma3g, 0, "unlock")
  <2>1. 1 \in 1..Len(pin_wcdma3g) /\ pin_wcdma3g[1] = "unlock"
    BY DEF pin_wcdma3g
  <2> QED BY <2>1 DEF Pays, Decisions
<1>4. Pays(<<"unlock">>, 0, "unlock")
  BY DEF Pays, Decisions
<1> QED BY <1>1, <1>2, <1>3, <1>4

LEMMA AirplaneClosed ==
  /\ Airplane \in Seq(OpsHere)
  /\ \A c \in Payers \cup {"leave"} : Closed(Airplane, c) /\ Plain(Airplane, c)
<1>1. Airplane \in Seq(OpsHere)
  <2>1. Airplane \in Seq(Ops \ {"lock"})
    BY DEF Airplane, Ops, Commands
  <2> QED BY <2>1, WatchProgram
<1>2. ASSUME NEW c \in Payers \cup {"leave"}
      PROVE  Plain(Airplane, c)
  BY DEF Airplane, Plain, Decisions
<1>3. Pays(Airplane, 1, "CFUN1")
  <2>1. 4 \in 2..Len(Airplane) /\ Airplane[4] = "CFUN1"
    BY DEF Airplane
  <2>2. \A k \in 2..4 : Airplane[k] \notin Decisions("CFUN1")
    BY DEF Airplane, Decisions
  <2> QED BY <2>1, <2>2 DEF Pays
<1>4. ASSUME NEW c \in Payers \cup {"leave"}, NEW i \in 1..Len(Airplane),
             Airplane[i] \in Openers(c)
      PROVE  c = "CFUN1" /\ i = 1
  BY <1>4 DEF Airplane, Openers, Payers
<1> QED BY <1>1, <1>2, <1>3, <1>4 DEF Closed

LEMMA WipeClosed ==
  ASSUME NEW last \in {<<>>, <<"COPS0">>}
  PROVE  /\ <<"CFUN4", "CFUN1">> \o last \in Seq(OpsHere)
         /\ \A c \in Payers \cup {"leave"} :
              /\ Closed(<<"CFUN4", "CFUN1">> \o last, c)
              /\ Plain(<<"CFUN4", "CFUN1">> \o last, c)
<1> DEFINE s == <<"CFUN4", "CFUN1">>
<1>1. s \in Seq(OpsHere) /\ last \in Seq(Quiet)
  <2>1. s \in Seq(Ops \ {"lock"})
    BY DEF Ops, Commands
  <2>2. <<>> \in Seq(Quiet) /\ <<"COPS0">> \in Seq(Quiet)
    BY DEF Quiet, Ops, Commands
  <2> QED BY <2>1, <2>2, WatchProgram
<1>2. ASSUME NEW c \in Payers \cup {"leave"}
      PROVE  Plain(s, c) /\ Closed(s, c)
  <2>1. Plain(s, c)
    BY DEF Plain, Decisions
  <2>2. Pays(s, 1, "CFUN1")
    <3>1. 2 \in 2..Len(s) /\ s[2] = "CFUN1"
      OBVIOUS
    <3> QED BY <3>1 DEF Pays, Decisions
  <2>3. ASSUME NEW i \in 1..Len(s), s[i] \in Openers(c)
        PROVE  c = "CFUN1" /\ i = 1
    BY <2>3 DEF Openers, Payers
  <2> QED BY <2>1, <2>2, <2>3 DEF Closed
<1>3. last \in Seq(OpsHere) /\ \A c \in Payers \cup {"leave"} : Closed(last, c) /\ Plain(last, c)
  BY <1>1, QuietIsClosed
<1>4. s \o last \in Seq(OpsHere)
  BY <1>1, <1>3, ConcatProperties
<1> HIDE DEF s
<1>5. \A c \in Payers \cup {"leave"} : Closed(s \o last, c) /\ Plain(s \o last, c)
  BY <1>1, <1>2, <1>3, ClosedConcat, PlainConcat
<1> QED BY <1>4, <1>5 DEF s

(* Two closed programs in a row.                                           *)
LEMMA InARow ==
  ASSUME NEW a \in Seq(OpsHere), NEW b \in Seq(OpsHere),
         \A c \in Payers \cup {"leave"} : Closed(b, c),
         \A c \in Payers \cup {"leave"} : Closed(a, c) \/ (Plain(a, c) /\ Pays(b, 0, c))
  PROVE  /\ a \o b \in Seq(OpsHere)
         /\ \A c \in Payers \cup {"leave"} : Closed(a \o b, c)
BY ClosedConcat, ConcatProperties

(* What a full walk pins, and the frame of a discover.                     *)
LEMMA PinnedOperator ==
  /\ CMSSN \in Seq(Quiet) /\ pin_cmssn_only \in Seq(Quiet) /\ <<>> \in Seq(Quiet)
  /\ \A find \in {"find", "refind", "research"} : run_discover(find) \in Seq(Quiet)
<1>1. <<"CMSSN">> \in Seq(Quiet) /\ <<"unlock">> \in Seq(Quiet) /\ <<>> \in Seq(Quiet)
  BY DEF Quiet, Ops, Commands
<1>2. CMSSN \in Seq(Quiet)
  BY <1>1 DEF CMSSN
<1>3. pin_cmssn_only \in Seq(Quiet)
  BY <1>1, <1>2, ConcatProperties DEF pin_cmssn_only
<1>4. ASSUME NEW find \in {"find", "refind", "research"}
      PROVE  run_discover(find) \in Seq(Quiet)
  <2>1. <<"wipe", find>> \in Seq(Quiet)
    <3>1. CASE find = "find"
      BY <3>1 DEF Quiet, Ops
    <3>2. CASE find = "refind"
      BY <3>2 DEF Quiet, Ops
    <3>3. CASE find = "research"
      BY <3>3 DEF Quiet, Ops
    <3> QED BY <3>1, <3>2, <3>3
  <2>2. pin_lte4g \o <<"wipe", find>> \in Seq(Quiet)
    BY <2>1, PinPays, ConcatProperties
  <2> QED BY <2>2, PinPays, ConcatProperties DEF run_discover
<1> QED BY <1>1, <1>2, <1>3, <1>4

(* A search may select an operator by hand, and pin_lte4g takes it back.   *)
LEMMA SearchClosed ==
  ASSUME NEW cmd \in {<<>>, <<"COPS1">>, <<"COPS2">>}, NEW pin \in Seq(Quiet)
  PROVE  /\ SearchWith(cmd, pin) \in Seq(OpsHere)
         /\ \A c \in Payers \cup {"leave"} :
              Closed(SearchWith(cmd, pin), c) /\ Plain(SearchWith(cmd, pin), c)
<1> DEFINE unlocked == <<"unlock">> \o pin_lte4g
           wipe == <<"wipe">>
           first == unlocked \o <<"wipe", "search">>
           dwell == <<"dwell", "found">>
           last == recover_after_search(pin)
<1>1. /\ unlocked \in Seq(Quiet) /\ wipe \in Seq(Quiet)
      /\ first \in Seq(Quiet) /\ dwell \in Seq(Quiet)
  <2>1. wipe \in Seq(Quiet) /\ <<"wipe", "search">> \in Seq(Quiet) /\ dwell \in Seq(Quiet)
    <3>1. {"wipe", "search", "dwell", "found"} \subseteq Quiet
      BY DEF Quiet, Ops, Commands
    <3> QED BY <3>1
  <2>2. unlocked \in Seq(Quiet)
    BY PinPays, ConcatProperties
  <2>3. first \in Seq(Quiet)
    BY <2>1, <2>2, ConcatProperties
  <2> QED BY <2>1, <2>2, <2>3
<1>2. /\ cmd \in Seq(OpsHere)
      /\ \A c \in Payers \cup {"leave"} : Plain(cmd, c)
      /\ \A c \in (Payers \cup {"leave"}) \ {"COPS0"} : Closed(cmd, c)
  <2>1. cmd \in Seq(Ops \ {"lock"})
    <3>1. {"COPS1", "COPS2"} \subseteq Ops \ {"lock"}
      BY DEF Ops, Commands
    <3>2. /\ <<>> \in Seq(Ops \ {"lock"})
          /\ \A x \in {"COPS1", "COPS2"} : <<x>> \in Seq(Ops \ {"lock"})
      BY <3>1
    <3> QED BY <3>2
  <2>2. \A c \in Payers \cup {"leave"} : Plain(cmd, c)
    BY DEF Plain, Decisions
  <2>3. ASSUME NEW c \in (Payers \cup {"leave"}) \ {"COPS0"}, NEW i \in 1..Len(cmd)
        PROVE  cmd[i] \notin Openers(c)
    BY DEF Openers, Payers
  <2> QED BY <2>1, <2>2, <2>3, WatchProgram DEF Closed
<1>3. /\ last \in Seq(OpsHere) /\ Pays(last, 0, "COPS0")
      /\ \A c \in Payers \cup {"leave"} : Closed(last, c) /\ Plain(last, c)
  <2>1. unlocked \o wipe \in Seq(Quiet)
    BY <1>1, ConcatProperties
  <2>2. last \in Seq(Quiet)
    BY <2>1, ConcatProperties DEF recover_after_search
  <2>3. Pays(unlocked, 0, "COPS0")
    <3>1. Plain(<<"unlock">>, "COPS0")
      BY DEF Plain, Decisions
    <3>2. 0 \in Nat /\ 0 <= Len(<<"unlock">>)
      OBVIOUS
    <3>3. /\ pin_lte4g \in Seq(Quiet) /\ Pays(pin_lte4g, 0, "COPS0")
          /\ <<"unlock">> \in Seq(Quiet)
      BY PinPays
    <3> QED BY <3>1, <3>2, <3>3, PaysConcat
  <2>4. Pays(unlocked \o wipe, 0, "COPS0")
    BY <1>1, <2>3, PaysConcat
  <2>5. Pays(last, 0, "COPS0")
    BY <2>1, <2>4, PaysConcat DEF recover_after_search
  <2> QED BY <2>2, <2>5, QuietIsClosed
<1>4. /\ first \in Seq(OpsHere) /\ dwell \in Seq(OpsHere)
      /\ \A c \in Payers \cup {"leave"} :
           /\ Closed(first, c) /\ Plain(first, c)
           /\ Closed(dwell, c) /\ Plain(dwell, c)
  BY <1>1, QuietIsClosed
<1> HIDE DEF first, dwell, last
<1>5. /\ first \o cmd \in Seq(OpsHere)
      /\ \A c \in Payers \cup {"leave"} :
           Plain(first \o cmd, c) /\ (c # "COPS0" => Closed(first \o cmd, c))
  BY <1>2, <1>4, ConcatProperties, PlainConcat, ClosedConcat
<1> DEFINE found == (first \o cmd) \o dwell
<1>6. /\ found \in Seq(OpsHere)
      /\ \A c \in Payers \cup {"leave"} :
           Plain(found, c) /\ (c # "COPS0" => Closed(found, c))
  BY <1>4, <1>5, ConcatProperties, PlainConcat, ClosedConcat
<1> HIDE DEF found
<1>7. /\ found \o last \in Seq(OpsHere)
      /\ \A c \in Payers \cup {"leave"} : Closed(found \o last, c) /\ Plain(found \o last, c)
  BY <1>3, <1>6, InARow, PlainConcat
<1> QED BY <1>7 DEF SearchWith, found, first, dwell, last

(* Nothing stops a jump to the end of a pass.                              *)
LEMMA LeaveIsPlain == \A s : Plain(s, "leave")
BY DEF Plain, Decisions

LEMMA TripClosed ==
  /\ Trip \in Seq(OpsHere) /\ \A c \in Payers : Closed(Trip, c)
  /\ TripSoftly \in Seq(OpsHere) /\ \A c \in Payers : Closed(TripSoftly, c)
<1> DEFINE soft == <<"unlock", "wipe", "CNMP38", "COPS0">>
           polls == <<"poll", "nudge", "poll", "nudge">>
           poll == <<"poll">>
<1>1. soft \in Seq(OpsHere) /\ \A c \in Payers \cup {"leave"} : Closed(soft, c)
  <2>1. soft \in Seq(Quiet)
    BY DEF Quiet, Ops, Commands
  <2> QED BY <2>1, QuietIsClosed
<1>2. /\ polls \in Seq(OpsHere) /\ poll \in Seq(OpsHere) /\ <<>> \in Seq(OpsHere)
      /\ \A c \in Payers : Closed(polls, c) /\ Closed(poll, c) /\ Closed(<<>>, c)
  <2>1. polls \in Seq(Ops \ {"lock"}) /\ poll \in Seq(Ops \ {"lock"}) /\ <<>> \in Seq(OpsHere)
    BY DEF Ops
  <2>2. ASSUME NEW c \in Payers
        PROVE  Closed(polls, c) /\ Closed(poll, c) /\ Closed(<<>>, c)
    BY DEF Closed, Openers, Payers
  <2> QED BY <2>1, <2>2, WatchProgram
<1>3. \A c \in Payers : Closed(Airplane, c)
  BY AirplaneClosed
<1> HIDE DEF soft, polls, poll
<1>4. /\ polls \o Airplane \o poll \in Seq(OpsHere)
      /\ \A c \in Payers : Closed(polls \o Airplane \o poll, c)
  <2>1. polls \o Airplane \in Seq(OpsHere)
    BY <1>2, AirplaneClosed, ConcatProperties
  <2>2. \A c \in Payers : Closed(polls \o Airplane, c)
    BY <1>2, <1>3, AirplaneClosed, ClosedConcat
  <2>3. polls \o Airplane \o poll \in Seq(OpsHere)
    BY <1>2, <2>1, ConcatProperties
  <2> QED BY <1>2, <2>1, <2>2, <2>3, ClosedConcat
<1>5. \A b \in {<<>>, polls, polls \o Airplane \o poll} :
        soft \o b \in Seq(OpsHere) /\ \A c \in Payers : Closed(soft \o b, c)
  BY <1>1, <1>2, <1>4, ClosedConcat, ConcatProperties
<1> QED BY <1>5 DEF Trip, TripSoftly, soft, polls, poll

(* The soft recovery after a failed kick starts with what pays a lock.     *)
LEMMA RecoverClosed ==
  /\ recover_lte \in Seq(OpsHere) /\ Pays(recover_lte, 0, "unlock")
  /\ \A c \in Payers \cup {"leave"} : Closed(recover_lte, c)
<1> DEFINE unlock == <<"unlock">>
           soft == <<"soft">>
<1>1. /\ unlock \in Seq(OpsHere) /\ ensure_scan_rat \in Seq(OpsHere) /\ soft \in Seq(OpsHere)
      /\ \A c \in Payers \cup {"leave"} :
           Closed(unlock, c) /\ Closed(ensure_scan_rat, c) /\ Closed(soft, c)
  <2>1. ensure_scan_rat \in Seq(Ops \ {"lock"}) /\ soft \in Seq(Quiet)
    BY DEF ensure_scan_rat, Ops, Commands, Quiet
  <2>2. \A c \in Payers \cup {"leave"} : Closed(ensure_scan_rat, c)
    BY DEF ensure_scan_rat, Closed, Openers, Payers
  <2> QED BY <2>1, <2>2, PinPays, QuietIsClosed, WatchProgram
<1>2. Pays(unlock, 0, "unlock")
  BY PinPays
<1>3. recover_lte = (unlock \o ensure_scan_rat) \o soft
  BY DEF recover_lte
<1> HIDE DEF unlock, soft
<1>4. /\ unlock \o ensure_scan_rat \in Seq(OpsHere)
      /\ \A c \in Payers \cup {"leave"} : Closed(unlock \o ensure_scan_rat, c)
  BY <1>1, InARow
<1>5. Pays(unlock \o ensure_scan_rat, 0, "unlock")
  BY <1>1, <1>2, PaysConcat
<1>6. Pays((unlock \o ensure_scan_rat) \o soft, 0, "unlock")
  BY <1>1, <1>4, <1>5, PaysConcat
<1> QED BY <1>1, <1>3, <1>4, <1>6, InARow

(* A kick locks a cell, and unlocks it whether the lock holds or fails.    *)
LEMMA KickClosed ==
  ASSUME recipe.surveying
  PROVE  /\ KickUnlocked \in Seq(OpsHere) /\ Kick \in Seq(OpsHere)
         /\ KickFails \in Seq(OpsHere)
         /\ \A c \in Payers \cup {"leave"} :
              Closed(KickUnlocked, c) /\ Closed(Kick, c) /\ Closed(KickFails, c)
<1> DEFINE holds == <<"look", "unlock", "CNMP38", "lock", "COPS0", "dwell", "unlock">>
           fails == <<"look", "unlock", "CNMP38", "lock", "COPS0", "COPS0", "lock", "COPS0">>
           unlock == <<"unlock">>
<1>0. OpsHere = Ops
  BY DEF OpsHere
<1>1. holds \in Seq(OpsHere) /\ \A c \in Payers \cup {"leave"} : Closed(holds, c)
  <2>1. holds \in Seq(OpsHere)
    <3>1. {"look", "unlock", "CNMP38", "lock", "COPS0", "dwell"} \subseteq OpsHere
      BY <1>0 DEF Ops, Commands
    <3> QED BY <3>1
  <2>2. Pays(holds, 4, "unlock")
    <3>1. 7 \in 5..Len(holds) /\ holds[7] = "unlock"
      OBVIOUS
    <3>2. \A k \in 5..7 : holds[k] \notin Decisions("unlock")
      BY DEF Decisions
    <3> QED BY <3>1, <3>2 DEF Pays
  <2>3. ASSUME NEW c \in Payers \cup {"leave"}, NEW i \in 1..Len(holds),
               holds[i] \in Openers(c)
        PROVE  c = "unlock" /\ i = 4
    BY <2>3 DEF Openers, Payers
  <2> QED BY <2>1, <2>2, <2>3 DEF Closed
<1>2. /\ fails \in Seq(OpsHere)
      /\ \A c \in Payers \cup {"leave"} : Plain(fails, c)
      /\ \A c \in (Payers \cup {"leave"}) \ {"unlock"} : Closed(fails, c)
  <2>1. fails \in Seq(OpsHere)
    <3>1. {"look", "unlock", "CNMP38", "lock", "COPS0"} \subseteq OpsHere
      BY <1>0 DEF Ops, Commands
    <3> QED BY <3>1
  <2>2. \A c \in Payers \cup {"leave"} : Plain(fails, c)
    BY DEF Plain, Decisions
  <2>3. ASSUME NEW c \in (Payers \cup {"leave"}) \ {"unlock"}, NEW i \in 1..Len(fails)
        PROVE  fails[i] \notin Openers(c)
    BY DEF Openers, Payers
  <2> QED BY <2>1, <2>2, <2>3 DEF Closed
<1>3. unlock \in Seq(OpsHere) /\ \A c \in Payers \cup {"leave"} : Closed(unlock, c)
  BY PinPays, QuietIsClosed
<1>4. pin_lte4g \in Seq(OpsHere) /\ \A c \in Payers \cup {"leave"} : Closed(pin_lte4g, c)
  BY PinPays, QuietIsClosed
<1> HIDE DEF holds, fails, unlock
<1>5. /\ KickUnlocked \in Seq(OpsHere) /\ Kick \in Seq(OpsHere)
      /\ \A c \in Payers \cup {"leave"} : Closed(KickUnlocked, c) /\ Closed(Kick, c)
  <2>1. KickUnlocked = holds \o pin_cmssn_only
    BY DEF KickUnlocked, holds
  <2>2. /\ pin_cmssn_only \in Seq(OpsHere)
        /\ \A c \in Payers \cup {"leave"} : Closed(pin_cmssn_only, c)
    BY PinnedOperator, QuietIsClosed
  <2>3. /\ KickUnlocked \in Seq(OpsHere)
        /\ \A c \in Payers \cup {"leave"} : Closed(KickUnlocked, c)
    BY <1>1, <2>1, <2>2, InARow
  <2> QED BY <1>4, <2>3, InARow DEF Kick
<1>6. /\ fails \o recover_lte \in Seq(OpsHere)
      /\ \A c \in Payers \cup {"leave"} : Closed(fails \o recover_lte, c)
  BY <1>2, RecoverClosed, InARow
<1>7. KickFails \in Seq(OpsHere) /\ \A c \in Payers \cup {"leave"} : Closed(KickFails, c)
  <2>1. KickFails = (fails \o recover_lte) \o unlock
    BY DEF KickFails, fails, unlock
  <2> QED BY <1>3, <1>6, <2>1, InARow
<1> QED BY <1>5, <1>7

(* The 3G walk locks a 3G cell and pins 3G again, which unlocks it.        *)
LEMMA WalkClosed ==
  ASSUME recipe.surveying
  PROVE  /\ run_wcdma_walk \in Seq(OpsHere)
         /\ \A c \in Payers \cup {"leave"} : Closed(run_wcdma_walk, c)
<1> DEFINE lock == <<"wipe", "lock", "COPS0", "dwell">>
           wipe == <<"wipe">>
<1>1. /\ lock \in Seq(OpsHere)
      /\ \A c \in Payers \cup {"leave"} : Plain(lock, c)
      /\ \A c \in (Payers \cup {"leave"}) \ {"unlock"} : Closed(lock, c)
  <2>1. lock \in Seq(OpsHere)
    BY DEF OpsHere, Ops, Commands
  <2>2. \A c \in Payers \cup {"leave"} : Plain(lock, c)
    BY DEF Plain, Decisions
  <2>3. ASSUME NEW c \in (Payers \cup {"leave"}) \ {"unlock"}, NEW i \in 1..Len(lock)
        PROVE  lock[i] \notin Openers(c)
    BY DEF Openers, Payers
  <2> QED BY <2>1, <2>2, <2>3 DEF Closed
<1>2. /\ pin_wcdma3g \in Seq(OpsHere) /\ pin_lte4g \in Seq(OpsHere) /\ wipe \in Seq(OpsHere)
      /\ \A c \in Payers \cup {"leave"} :
           /\ Closed(pin_wcdma3g, c) /\ Plain(pin_wcdma3g, c)
           /\ Closed(pin_lte4g, c) /\ Closed(wipe, c)
  <2>1. wipe \in Seq(Quiet)
    BY DEF Quiet, Ops
  <2> QED BY <2>1, PinPays, QuietIsClosed
<1> HIDE DEF lock, wipe
<1>3. /\ pin_wcdma3g \o lock \in Seq(OpsHere)
      /\ \A c \in Payers \cup {"leave"} :
           /\ Plain(pin_wcdma3g \o lock, c)
           /\ c # "unlock" => Closed(pin_wcdma3g \o lock, c)
  BY <1>1, <1>2, ClosedConcat, PlainConcat, ConcatProperties
<1>4. /\ (pin_wcdma3g \o lock) \o pin_wcdma3g \in Seq(OpsHere)
      /\ \A c \in Payers \cup {"leave"} : Closed((pin_wcdma3g \o lock) \o pin_wcdma3g, c)
  BY <1>2, <1>3, PinPays, InARow
<1>5. /\ ((pin_wcdma3g \o lock) \o pin_wcdma3g) \o pin_lte4g \in Seq(OpsHere)
      /\ \A c \in Payers \cup {"leave"} :
           Closed(((pin_wcdma3g \o lock) \o pin_wcdma3g) \o pin_lte4g, c)
  BY <1>2, <1>4, InARow
<1>6. /\ (((pin_wcdma3g \o lock) \o pin_wcdma3g) \o pin_lte4g) \o wipe \in Seq(OpsHere)
      /\ \A c \in Payers \cup {"leave"} :
           Closed((((pin_wcdma3g \o lock) \o pin_wcdma3g) \o pin_lte4g) \o wipe, c)
  BY <1>2, <1>5, InARow
<1> QED BY <1>6 DEF run_wcdma_walk, lock, wipe

(* What one turn of the worker's loop does.                                *)
LEMMA RoundsClosed ==
  ASSUME NEW r \in Rounds
  PROVE  r \in Seq(OpsHere) /\ \A c \in Payers \cup {"leave"} : Closed(r, c)
<1> DEFINE wipe == <<"wipe">>
           look == <<"look">>
           again == run_discover("refind")
           pinned == run_discover("research")
           pin == pin_cmssn_only
<1>1. /\ wipe \in Seq(OpsHere) /\ look \in Seq(OpsHere) /\ pin_lte4g \in Seq(OpsHere)
      /\ again \in Seq(OpsHere) /\ pinned \in Seq(OpsHere) /\ pin \in Seq(OpsHere)
      /\ \A c \in Payers \cup {"leave"} :
           /\ Closed(wipe, c) /\ Closed(look, c) /\ Closed(pin_lte4g, c)
           /\ Closed(again, c) /\ Closed(pinned, c) /\ Closed(pin, c)
  <2>1. wipe \in Seq(Quiet) /\ look \in Seq(Quiet)
    BY DEF Quiet, Ops
  <2> QED BY <2>1, PinPays, PinnedOperator, QuietIsClosed
<1>2. CASE recipe.surveying
  <2> HIDE DEF wipe, look, again, pinned, pin
  <2>1. KickDropped \in Seq(OpsHere) /\ \A c \in Payers \cup {"leave"} : Closed(KickDropped, c)
    <3>1. /\ KickUnlocked \o wipe \in Seq(OpsHere)
          /\ \A c \in Payers \cup {"leave"} : Closed(KickUnlocked \o wipe, c)
      BY <1>1, <1>2, KickClosed, InARow
    <3>2. /\ (KickUnlocked \o wipe) \o pin_lte4g \in Seq(OpsHere)
          /\ \A c \in Payers \cup {"leave"} : Closed((KickUnlocked \o wipe) \o pin_lte4g, c)
      BY <1>1, <3>1, InARow
    <3>3. KickDropped = ((KickUnlocked \o wipe) \o pin_lte4g) \o pinned
      BY DEF KickDropped, wipe, pinned
    <3> QED BY <1>1, <3>2, <3>3, InARow
  <2>2. NextOperator \in Seq(OpsHere) /\ \A c \in Payers \cup {"leave"} : Closed(NextOperator, c)
    <3>1. <<"look", "unlock">> \in Seq(Quiet)
      BY DEF Quiet, Ops, Commands
    <3>2. NextOperator \in Seq(Quiet)
      BY <3>1, PinnedOperator, ConcatProperties DEF NextOperator
    <3> QED BY <3>2, QuietIsClosed
  <2>3. Frontierless \in Seq(OpsHere) /\ \A c \in Payers \cup {"leave"} : Closed(Frontierless, c)
    <3>1. /\ look \o run_wcdma_walk \in Seq(OpsHere)
          /\ \A c \in Payers \cup {"leave"} : Closed(look \o run_wcdma_walk, c)
      BY <1>1, <1>2, WalkClosed, InARow
    <3>2. /\ (look \o run_wcdma_walk) \o again \in Seq(OpsHere)
          /\ \A c \in Payers \cup {"leave"} : Closed((look \o run_wcdma_walk) \o again, c)
      BY <1>1, <3>1, InARow
    <3>3. /\ ((look \o run_wcdma_walk) \o again) \o pin \in Seq(OpsHere)
          /\ \A c \in Payers \cup {"leave"} :
               Closed(((look \o run_wcdma_walk) \o again) \o pin, c)
      BY <1>1, <3>2, InARow
    <3>4. /\ look \o pinned \in Seq(OpsHere)
          /\ \A c \in Payers \cup {"leave"} : Closed(look \o pinned, c)
      BY <1>1, InARow
    <3>5. /\ (look \o pinned) \o pin \in Seq(OpsHere)
          /\ \A c \in Payers \cup {"leave"} : Closed((look \o pinned) \o pin, c)
      BY <1>1, <3>4, InARow
    <3>6. Frontierless \in {((look \o run_wcdma_walk) \o again) \o pin, (look \o pinned) \o pin}
      BY DEF Frontierless, look, again, pinned, pin
    <3> QED BY <3>3, <3>5, <3>6
  <2>4. r \in {Kick, KickDropped, KickFails, NextOperator, Frontierless}
    BY <1>2 DEF Rounds
  <2> QED BY <1>2, <2>1, <2>2, <2>3, <2>4, KickClosed
<1>3. CASE ~recipe.surveying
  <2>1. r = WatchGhost
    BY <1>3 DEF Rounds
  <2>2. WatchGhost \in Seq(OpsHere)
    <3>1. WatchGhost \in Seq(Ops \ {"lock"})
      BY DEF WatchGhost, Ops, Commands
    <3> QED BY <3>1, WatchProgram
  <2>3. Pays(WatchGhost, 3, "COPS0")
    <3>1. 5 \in 4..Len(WatchGhost) /\ WatchGhost[5] = "COPS0"
      BY DEF WatchGhost
    <3>2. \A k \in 4..5 : WatchGhost[k] \notin Decisions("COPS0")
      BY DEF WatchGhost, Decisions
    <3> QED BY <3>1, <3>2 DEF Pays
  <2>4. ASSUME NEW c \in Payers \cup {"leave"}, NEW i \in 1..Len(WatchGhost),
               WatchGhost[i] \in Openers(c)
        PROVE  c = "COPS0" /\ i = 3
    BY <2>4 DEF WatchGhost, Openers, Payers
  <2> QED BY <2>1, <2>2, <2>3, <2>4 DEF Closed
<1> QED BY <1>2, <1>3

(* The programs of the beginning and of the end.                           *)
LEMMA EndsClosed ==
  ASSUME recipe.surveying \in BOOLEAN
  PROVE  /\ HopExit \in Seq(Quiet) /\ pin_radio \in Seq(Quiet)
         /\ (<<"save">> \o run_discover("find")) \o pin_cmssn_only \in Seq(Quiet)
         /\ <<>> \in Seq(Quiet)
         /\ restore_radio \in Seq({"unlock", "saved", "CFUN1", "COPS0"})
<1>1. /\ HopExit \in Seq(Quiet) /\ <<>> \in Seq(Quiet)
      /\ (<<"save">> \o run_discover("find")) \o pin_cmssn_only \in Seq(Quiet)
  <2>1. HopExit \in Seq(Quiet) /\ <<>> \in Seq(Quiet) /\ <<"save">> \in Seq(Quiet)
    BY DEF HopExit, Quiet, Ops, Commands
  <2>2. <<"save">> \o run_discover("find") \in Seq(Quiet)
    BY <2>1, PinnedOperator, ConcatProperties
  <2> QED BY <2>1, <2>2, PinnedOperator, ConcatProperties
<1>2. pin_radio \in Seq(Quiet)
  <2>1. /\ <<"CNMP38">> \in Seq(Quiet) /\ <<"COPS0">> \in Seq(Quiet)
        /\ <<"wipe">> \in Seq(Quiet) /\ <<>> \in Seq(Quiet)
    BY DEF Quiet, Ops, Commands
  <2>2. \A b \in {<<>>, <<"COPS0">>} : <<"CNMP38">> \o b \in Seq(Quiet)
    BY <2>1, ConcatProperties
  <2>3. \A b \in {<<>>, <<"COPS0">>}, w \in {<<>>, <<"wipe">>} :
          (<<"CNMP38">> \o b) \o w \in Seq(Quiet)
    BY <2>1, <2>2, ConcatProperties
  <2> QED BY <2>3 DEF pin_radio
<1>3. restore_radio \in Seq({"unlock", "saved", "CFUN1", "COPS0"})
  <2>1. /\ <<"unlock", "saved">> \in Seq({"unlock", "saved", "CFUN1", "COPS0"})
        /\ <<"CFUN1", "COPS0">> \in Seq({"unlock", "saved", "CFUN1", "COPS0"})
        /\ <<>> \in Seq({"unlock", "saved", "CFUN1", "COPS0"})
    OBVIOUS
  <2>2. \A a \in {<<>>, <<"unlock", "saved">>} :
          a \o <<"CFUN1", "COPS0">> \in Seq({"unlock", "saved", "CFUN1", "COPS0"})
    BY <2>1, ConcatProperties
  <2> QED BY <2>1, <2>2 DEF restore_radio, RestoreWith
<1> QED BY <1>1, <1>2, <1>3

(* What restore_radio pays.                                                *)
LEMMA RestorePaysAll ==
  ASSUME Restores, recipe.surveying \in BOOLEAN
  PROVE  /\ Pays(restore_radio, 0, "CFUN1") /\ Pays(restore_radio, 0, "COPS0")
         /\ recipe.surveying => Pays(restore_radio, 0, "unlock")
<1> DEFINE R == {"unlock", "saved", "CFUN1", "COPS0"}
           front == <<"unlock", "saved">>
           last == <<"CFUN1", "COPS0">>
<1>1. front \in Seq(R) /\ last \in Seq(R) /\ <<>> \in Seq(R) /\ 0 \in Nat
  OBVIOUS
<1>2. Pays(last, 0, "CFUN1") /\ Pays(last, 0, "COPS0") /\ Pays(front, 0, "unlock")
  BY DEF Pays, Decisions
<1>3. Plain(front, "CFUN1") /\ Plain(front, "COPS0") /\ 0 <= Len(front)
  BY DEF Plain, Decisions
<1>4. restore_radio = (IF recipe.surveying THEN front ELSE <<>>) \o last
  BY DEF restore_radio, RestoreWith
<1> HIDE DEF R, front, last
<1>5. /\ Pays(front \o last, 0, "CFUN1") /\ Pays(front \o last, 0, "COPS0")
      /\ Pays(front \o last, 0, "unlock")
  BY <1>1, <1>2, <1>3, PaysConcat
<1>6. <<>> \o last = last
  BY <1>1, ConcatEmptySeq
<1> QED BY <1>2, <1>4, <1>5, <1>6

-----------------------------------------------------------------------------
(* One step of a thread.                                                   *)

(* New steps in front of the rest of a program.  A step that brings        *)
(* decisions with it is one itself.                                        *)
LEMMA ThenKeeps ==
  ASSUME NEW s \in Seq(OpsHere), s # <<>>, NEW ops \in Seq(OpsHere),
         \A c \in Payers \cup {"leave"} : Closed(s, c),
         \A c \in Payers : Closed(ops, c),
         Closed(ops, "leave") \/ Head(s) \in Openers("leave"),
         \A c \in Payers : Plain(ops, c) \/ Head(s) \in Decisions(c)
  PROVE  /\ ops \o Tail(s) \in Seq(OpsHere)
         /\ \A c \in Payers \cup {"leave"} : Closed(ops \o Tail(s), c)
         /\ \A c \in Payers :
              Pays(s, 0, c) /\ Head(s) # c => Pays(ops \o Tail(s), 0, c)
<1> DEFINE rest == Tail(s)
<1>1. rest \in Seq(OpsHere) /\ \A c \in Payers \cup {"leave"} : Closed(rest, c)
  BY HeadTailProperties, ClosedTail
<1>2. Head(s) \in Openers("leave") => Pays(rest, 0, "leave")
  BY ClosedTail
<1>3. \A c \in Payers : Pays(s, 0, c) /\ Head(s) # c => Pays(rest, 0, c) /\ Plain(ops, c)
  BY PaysLater
<1> HIDE DEF rest
<1>4. ops \o rest \in Seq(OpsHere)
  BY <1>1, ConcatProperties
<1>5. \A c \in Payers \cup {"leave"} : Closed(ops \o rest, c)
  <2>1. \A c \in Payers : Closed(ops \o rest, c)
    BY <1>1, ClosedConcat
  <2>2. Closed(ops \o rest, "leave")
    BY <1>1, <1>2, ClosedConcat, LeaveIsPlain
  <2> QED BY <2>1, <2>2
<1>6. \A c \in Payers : Pays(rest, 0, c) /\ Plain(ops, c) => Pays(ops \o rest, 0, c)
  <2>1. 0 \in Nat /\ 0 <= Len(ops)
    BY LenProperties
  <2> QED BY <1>1, <2>1, PaysConcat
<1> QED BY <1>3, <1>4, <1>5, <1>6 DEF rest

(* A step that is no AT command and keeps what its program pays keeps the  *)
(* invariant.                                                              *)
LEMMA OwnStepKeeps ==
  ASSUME DebtInv, NEW t \in Threads, NEW op \in Ops \ Commands, NextOp(t, op),
         NEW new \in Seq(OpsHere), \A c \in Payers \cup {"leave"} : Closed(new, c),
         \A c \in Payers : Pays(prog[t], 0, c) => Pays(new, 0, c),
         prog' = [prog EXCEPT ![t] = new],
         modem' = modem, lost' = lost, phase' = phase, recipe' = recipe,
         saved' \in {"none", "any", "lte", "3g"}
  PROVE  DebtInv'
<1>0. Types /\ ProgramsClosed /\ DebtsOwned /\ Turns /\ RestorePays /\ WatchUnlocked
  BY DEF DebtInv
<1>1. OpsHere' = OpsHere /\ (Restores <=> Restores')
  BY DEF OpsHere, Restores
<1>2. Types'
  BY <1>0, <1>1 DEF Types
<1>3. ProgramsClosed'
  BY <1>0 DEF ProgramsClosed, Types
<1>4. DebtsOwned'
  BY <1>0 DEF DebtsOwned, Types
<1>5. phase \notin {"restore", "over"}
  <2>1. prog[t] # <<>> /\ Head(prog[t]) \notin Commands
    BY DEF NextOp
  <2>2. CASE phase \in {"restore", "over"}
    <3>1. t = "main" /\ phase = "restore"
      BY <1>0, <2>1, <2>2 DEF Turns, Threads
    <3>2. prog["main"] \in Seq({"unlock", "saved", "CFUN1", "COPS0"})
      BY <1>0, <3>1 DEF Turns
    <3>3. Head(prog["main"]) \in {"unlock", "saved", "CFUN1", "COPS0"}
      BY <2>1, <3>1, <3>2, HeadTailProperties
    <3> QED BY <2>1, <3>1, <3>3 DEF Commands
  <2> QED BY <2>2
<1>6. Turns'
  <2>1. phase \in {"run", "stop"} => t # "main"
    BY <1>0 DEF Turns, NextOp
  <2> QED BY <1>0, <1>5, <2>1 DEF Turns, Types, Threads
<1>7. RestorePays' /\ WatchUnlocked'
  BY <1>0, <1>5 DEF RestorePays, WatchUnlocked
<1> QED BY <1>2, <1>3, <1>4, <1>6, <1>7 DEF DebtInv

(* The same of a step that puts new steps in front of its program.         *)
LEMMA ThenStepKeeps ==
  ASSUME DebtInv, NEW t \in Threads, NEW op \in Ops \ Commands, NextOp(t, op),
         NEW ops \in Seq(OpsHere), Then(t, ops),
         \A c \in Payers : Closed(ops, c),
         Closed(ops, "leave") \/ op \in Openers("leave"),
         \A c \in Payers : Plain(ops, c) \/ op \in Decisions(c),
         modem' = modem, lost' = lost, phase' = phase, recipe' = recipe,
         saved' \in {"none", "any", "lte", "3g"}
  PROVE  DebtInv'
<1> DEFINE s == prog[t]
           new == ops \o Tail(s)
<1>1. s \in Seq(OpsHere) /\ s # <<>> /\ Head(s) = op
      /\ \A c \in Payers \cup {"leave"} : Closed(s, c)
  BY DEF DebtInv, Types, ProgramsClosed, NextOp
<1>2. prog' = [prog EXCEPT ![t] = new]
  BY DEF Then, Rest
<1>3. op \notin Payers
  BY DEF Payers, Commands
<1> HIDE DEF s
<1>4. /\ new \in Seq(OpsHere) /\ \A c \in Payers \cup {"leave"} : Closed(new, c)
      /\ \A c \in Payers : Pays(s, 0, c) => Pays(new, 0, c)
  BY <1>1, <1>3, ThenKeeps
<1> HIDE DEF new
<1> QED BY <1>2, <1>4, OwnStepKeeps DEF s

(* Quiet steps in front of a program always keep the invariant.            *)
LEMMA QuietStepKeeps ==
  ASSUME DebtInv, NEW t \in Threads, NEW op \in Ops \ Commands, NextOp(t, op),
         NEW ops \in Seq(Quiet), Then(t, ops),
         modem' = modem, lost' = lost, phase' = phase, recipe' = recipe,
         saved' \in {"none", "any", "lte", "3g"}
  PROVE  DebtInv'
<1>1. ops \in Seq(OpsHere) /\ \A c \in Payers \cup {"leave"} : Closed(ops, c) /\ Plain(ops, c)
  BY QuietIsClosed
<1> QED BY <1>1, ThenStepKeeps

(* The short programs that decisions insert.                               *)
LEMMA ShortPrograms ==
  /\ <<>> \in Seq(Quiet) /\ <<"CNMP14">> \in Seq(Quiet) /\ <<"CNMP38">> \in Seq(Quiet)
  /\ <<"CNMP38", "COPS0">> \in Seq(Quiet)
  /\ <<"wipe", "CNMP38", "COPS0">> \o <<>> \in Seq(Quiet)
  /\ <<"wipe", "CNMP38", "COPS0">> \o <<"hard">> \in Seq(Quiet)
<1>1. /\ <<>> \in Seq(Quiet) /\ <<"CNMP14">> \in Seq(Quiet) /\ <<"CNMP38">> \in Seq(Quiet)
      /\ <<"CNMP38", "COPS0">> \in Seq(Quiet)
  BY DEF Quiet, Ops, Commands
<1>2. <<"wipe", "CNMP38", "COPS0">> \in Seq(Quiet) /\ <<"hard">> \in Seq(Quiet)
  BY DEF Quiet, Ops, Commands
<1> QED BY <1>1, <1>2, ConcatProperties

LEMMA StoreKeeps ==
  ASSUME DebtInv, NEW t \in Threads, Store(t)
  PROVE  DebtInv'
<1>1. PICK op \in {"hold", "release", "search", "found", "save"} : NextOp(t, op)
  BY DEF Store
<1>2. saved' \in {saved, modem.mode} /\ Then(t, <<>>)
      /\ UNCHANGED <<modem, lost, phase, recipe>>
  BY DEF Store
<1>3. saved' \in {"none", "any", "lte", "3g"}
  BY <1>2 DEF DebtInv, Types, Modem
<1>4. op \in Ops \ Commands
  BY DEF Ops, Commands
<1> QED BY <1>1, <1>2, <1>3, <1>4, ShortPrograms, QuietStepKeeps

LEMMA WipeKeeps ==
  ASSUME DebtInv, NEW t \in Threads, Wipe(t)
  PROVE  DebtInv'
<1>1. /\ NextOp(t, "wipe") /\ "wipe" \in Ops \ Commands
      /\ UNCHANGED <<modem, lost, phase, recipe, saved>>
      /\ saved' \in {"none", "any", "lte", "3g"}
  BY DEF Wipe, Ops, Commands, run, DebtInv, Types
<1>2. CASE Then(t, <<>>)
  BY <1>1, <1>2, ShortPrograms, QuietStepKeeps
<1>3. CASE \E last \in {<<>>, <<"COPS0">>} : Then(t, <<"CFUN4", "CFUN1">> \o last)
  <2>1. PICK last \in {<<>>, <<"COPS0">>} : Then(t, <<"CFUN4", "CFUN1">> \o last)
    BY <1>3
  <2> DEFINE ops == <<"CFUN4", "CFUN1">> \o last
  <2>2. ops \in Seq(OpsHere) /\ \A c \in Payers \cup {"leave"} : Closed(ops, c) /\ Plain(ops, c)
    BY WipeClosed
  <2>3. Then(t, ops)
    BY <2>1
  <2> HIDE DEF ops
  <2> QED BY <1>1, <2>2, <2>3, ThenStepKeeps
<1> QED BY <1>2, <1>3 DEF Wipe

LEMMA GuardPassKeeps ==
  ASSUME DebtInv, NEW t \in Threads, Enter(t) \/ HoldCheck(t) \/ Leave(t)
  PROVE  DebtInv'
<1>1. UNCHANGED <<modem, lost, phase, recipe, saved>>
      /\ saved' \in {"none", "any", "lte", "3g"}
  BY DEF Enter, HoldCheck, HoldCheckWith, Leave, run, DebtInv, Types
<1>2. {"enter", "hold?", "leave"} \subseteq Ops \ Commands
  BY DEF Ops, Commands
<1>3. ASSUME Enter(t), Then(t, <<"hold?", "leave">>)
      PROVE  DebtInv'
  <2> DEFINE ops == <<"hold?", "leave">>
  <2>1. ops \in Seq(OpsHere)
    <3>1. ops \in Seq(Ops \ {"lock"})
      BY DEF Ops
    <3> QED BY <3>1, WatchProgram
  <2>2. \A c \in Payers : Closed(ops, c) /\ "enter" \in Decisions(c)
    BY DEF Closed, Openers, Payers, Decisions
  <2>3. Closed(ops, "leave")
    <3>1. ops[2] = "leave" /\ Len(ops) = 2
      OBVIOUS
    <3>2. Pays(ops, 1, "leave")
      BY <3>1 DEF Pays, Decisions
    <3>3. ops[2] \notin Openers("leave")
      BY DEF Openers
    <3> QED BY <3>1, <3>2, <3>3 DEF Closed
  <2>4. NextOp(t, "enter")
    BY <1>3 DEF Enter
  <2> HIDE DEF ops
  <2> QED BY <1>1, <1>2, <1>3, <2>1, <2>2, <2>3, <2>4, ThenStepKeeps DEF ops
<1>4. ASSUME HoldCheck(t), Then(t, <<"judge">>)
      PROVE  DebtInv'
  <2> DEFINE ops == <<"judge">>
  <2>1. ops \in Seq(OpsHere)
    <3>1. ops \in Seq(Ops \ {"lock"})
      BY DEF Ops
    <3> QED BY <3>1, WatchProgram
  <2>2. \A c \in Payers : Closed(ops, c) /\ "hold?" \in Decisions(c)
    BY DEF Closed, Openers, Payers, Decisions
  <2>3. "hold?" \in Openers("leave") /\ NextOp(t, "hold?")
    BY <1>4 DEF Openers, HoldCheck, HoldCheckWith
  <2> HIDE DEF ops
  <2> QED BY <1>1, <1>2, <1>4, <2>1, <2>2, <2>3, ThenStepKeeps DEF ops
<1>5. ASSUME Then(t, <<>>) \/ Then(t, <<"CNMP14">>),
             NEW op \in {"enter", "hold?", "leave"}, NextOp(t, op)
      PROVE  DebtInv'
  BY <1>1, <1>2, <1>5, ShortPrograms, QuietStepKeeps
<1>6. CASE Enter(t)
  BY <1>3, <1>5, <1>6 DEF Enter
<1>7. CASE HoldCheck(t)
  BY <1>4, <1>5, <1>7 DEF HoldCheck, HoldCheckWith
<1>8. CASE Leave(t)
  BY <1>5, <1>8 DEF Leave
<1> QED BY <1>6, <1>7, <1>8

LEMMA JudgeKeeps ==
  ASSUME DebtInv, NEW t \in Threads, Judge(t)
  PROVE  DebtInv'
<1>1. /\ NextOp(t, "judge") /\ "judge" \in Ops \ Commands
      /\ UNCHANGED <<modem, lost, phase, recipe, saved>>
      /\ saved' \in {"none", "any", "lte", "3g"}
  BY DEF Judge, JudgeWith, Ops, Commands, run, DebtInv, Types
<1>2. PICK ops \in {<<>>, <<"CNMP38">>, Trip, TripSoftly} : Then(t, ops)
  BY DEF Judge, JudgeWith
<1>3. ops \in Seq(OpsHere) /\ \A c \in Payers : Closed(ops, c) /\ "judge" \in Decisions(c)
  <2>1. \A c \in Payers : "judge" \in Decisions(c)
    BY DEF Payers, Decisions
  <2>2. \A q \in Seq(Quiet) : q \in Seq(OpsHere) /\ \A c \in Payers : Closed(q, c)
    BY QuietIsClosed
  <2> QED BY <1>2, <2>1, <2>2, TripClosed, ShortPrograms
<1>4. "judge" \in Openers("leave")
  BY DEF Openers
<1> QED BY <1>1, <1>2, <1>3, <1>4, ThenStepKeeps

(* Waiting for LTE: what a pass skips when it sees LTE holds no debt.      *)
LEMMA PollKeeps ==
  ASSUME DebtInv, NEW t \in Threads, Poll(t)
  PROVE  DebtInv'
<1> DEFINE s == prog[t]
           first == CHOOSE i \in 1..Len(prog[t]) :
                      prog[t][i] = "leave" /\ \A j \in 1..(i - 1) : prog[t][j] # "leave"
<1>1. /\ NextOp(t, "poll") /\ "poll" \in Ops \ Commands
      /\ UNCHANGED <<modem, lost, phase, recipe, saved>>
      /\ saved' \in {"none", "any", "lte", "3g"}
  BY DEF Poll, Ops, Commands, run, DebtInv, Types
<1>2. /\ s \in Seq(OpsHere) /\ s # <<>> /\ Head(s) = "poll"
      /\ \A c \in Payers \cup {"leave"} : Closed(s, c)
  BY <1>1 DEF DebtInv, Types, ProgramsClosed, NextOp
<1>3. \A c \in Payers : ~Pays(s, 0, c)
  <2>1. \A c \in Payers : "poll" \in Decisions(c)
    BY DEF Payers, Decisions
  <2> HIDE DEF s
  <2> QED BY <1>2, <2>1, PaysLater
<1>4. CASE prog' = [prog EXCEPT ![t] = Rest(t)]
  <2>1. Rest(t) \in Seq(OpsHere) /\ \A c \in Payers \cup {"leave"} : Closed(Rest(t), c)
    BY <1>2, HeadTailProperties, ClosedTail DEF Rest
  <2> QED BY <1>1, <1>3, <1>4, <2>1, OwnStepKeeps
<1>5. CASE prog' = [prog EXCEPT ![t] = Returned(t)]
  <2> DEFINE at == {i \in 1..Len(s) : s[i] = "leave"}
  <2>1. Len(s) \in Nat
    BY <1>2, LenProperties
  <2>2. at # {} /\ at \in SUBSET Nat
    <3>1. s[1] \in Openers("leave") /\ 1 \in 1..Len(s)
      BY <1>2, <2>1, HeadTailProperties, EmptySeq DEF Openers
    <3>2. Pays(s, 1, "leave")
      BY <1>2, <3>1 DEF Closed
    <3> QED BY <2>1, <3>2 DEF Pays
  <2>3. PICK m \in at : \A i \in at : m <= i
    <3> HIDE DEF at
    <3> QED BY <2>2, LeastNatural
  <2>4. first \in 1..Len(s)
    <3>1. m \in 1..Len(s) /\ s[m] = "leave" /\ \A j \in 1..(m - 1) : s[j] # "leave"
      BY <2>1, <2>3
    <3> QED BY <3>1
  <2> HIDE DEF first, s
  <2>5. /\ SubSeq(s, first, Len(s)) \in Seq(OpsHere)
        /\ \A c \in Payers \cup {"leave"} : Closed(SubSeq(s, first, Len(s)), c)
    BY <1>2, <2>4, ClosedSuffix
  <2>6. Returned(t) = SubSeq(s, first, Len(s))
    BY DEF Returned, first, s
  <2> QED BY <1>1, <1>3, <1>5, <2>5, <2>6, OwnStepKeeps DEF s
<1> QED BY <1>4, <1>5 DEF Poll

LEMMA RecoveryKeeps ==
  ASSUME DebtInv, NEW t \in Threads,
         Dwell(t) \/ Nudge(t) \/ Soft(t) \/ Hard(t) \/ Look(t) \/ Find(t)
  PROVE  DebtInv'
<1>1. UNCHANGED <<modem, lost, phase, recipe, saved>>
      /\ saved' \in {"none", "any", "lte", "3g"}
  BY DEF Dwell, Nudge, Soft, Hard, Look, Find, run, DebtInv, Types
<1>2. PICK op \in {"dwell", "nudge", "soft", "hard", "look", "find",
                 "refind", "research"} : NextOp(t, op)
  BY DEF Dwell, Nudge, Soft, Hard, Look, Find
<1>3. op \in Ops \ Commands
  BY DEF Ops, Commands
<1>4. ASSUME NEW ops \in Seq(Quiet), Then(t, ops)
      PROVE  DebtInv'
  BY <1>1, <1>2, <1>3, <1>4, QuietStepKeeps
<1>5. CASE Dwell(t) \/ Nudge(t) \/ Soft(t) \/ Look(t)
  BY <1>4, <1>5, ShortPrograms DEF Dwell, Nudge, Soft, Look
<1>6. CASE Hard(t)
  <2>1. Then(t, <<>>) \/ Then(t, Airplane)
    BY <1>6 DEF Hard
  <2> QED BY <1>1, <1>2, <1>3, <1>4, <2>1, AirplaneClosed, ShortPrograms, ThenStepKeeps
<1>7. CASE Find(t)
  <2> DEFINE dereg == SearchWith(<<"COPS2">>, <<>>)
             ghost == SearchWith(<<"COPS1">>, <<>>)
             Good(ops) == /\ ops \in Seq(OpsHere)
                          /\ \A c \in Payers \cup {"leave"} : Closed(ops, c) /\ Plain(ops, c)
  <2>1. Good(<<>>) /\ Good(dereg) /\ Good(ghost)
        /\ Good(SearchWith(<<>>, <<>>)) /\ Good(SearchWith(<<>>, CMSSN))
    BY PinnedOperator, QuietIsClosed, SearchClosed
  <2> HIDE DEF dereg, ghost
  <2>2. Good(dereg \o <<>>) /\ Good(dereg \o ghost)
    BY <2>1, InARow, PlainConcat
  <2>3. PICK ops \in {<<>>, dereg \o <<>>, dereg \o ghost, SearchWith(<<>>, <<>>),
                      SearchWith(<<>>, CMSSN)} : Then(t, ops)
    BY <1>7 DEF Find, dereg, ghost
  <2>4. Good(ops)
    BY <2>1, <2>2
  <2> QED BY <1>1, <1>2, <1>3, <2>3, <2>4, ThenStepKeeps
<1> QED BY <1>5, <1>6, <1>7

(* An AT command opens a debt that its program pays later, pays one, or is *)
(* lost, which excuses the debt until the restore.                         *)
LEMMA EffectOwes ==
  ASSUME modem \in Modem, saved \in {"none", "any", "lte", "3g"},
         NEW cmd \in Commands, NEW c \in Payers
  PROVE  /\ Owed(c, Effect(modem, cmd)) =>
              cmd \in Openers(c) \/ (cmd # c /\ Owed(c, modem))
         /\ cmd # "lock" /\ ~modem.lock => ~Effect(modem, cmd).lock
<1>1. CASE cmd \in {"CNMP38", "CNMP14", "saved"}
  BY <1>1 DEF Payers, Owed, Openers, Effect, InMode, Modem
<1>2. CASE cmd \in {"COPS0", "COPS1", "COPS2", "CMSSN"}
  BY <1>2 DEF Payers, Owed, Openers, Effect, Modem
<1>3. CASE cmd \in {"CFUN4", "CFUN1"}
  BY <1>3 DEF Payers, Owed, Openers, Effect, Modem
<1>4. CASE cmd \in {"lock", "unlock"}
  BY <1>4 DEF Payers, Owed, Openers, Effect, Modem
<1> QED BY <1>1, <1>2, <1>3, <1>4 DEF Commands

LEMMA EffectType ==
  ASSUME modem \in Modem, saved \in {"none", "any", "lte", "3g"}, NEW cmd \in Commands
  PROVE  Effect(modem, cmd) \in Modem
<1>1. CASE cmd \in {"CNMP38", "CNMP14", "saved"}
  BY <1>1 DEF Effect, InMode, Modem
<1>2. CASE cmd \in {"COPS0", "COPS1", "COPS2", "CMSSN"}
  BY <1>2 DEF Effect, Modem
<1>3. CASE cmd \in {"CFUN4", "CFUN1", "lock", "unlock"}
  BY <1>3 DEF Effect, Modem
<1> QED BY <1>1, <1>2, <1>3 DEF Commands

LEMMA CommandKeeps ==
  ASSUME DebtInv, NEW t \in Threads, Command(t)
  PROVE  DebtInv'
<1>0. Types /\ ProgramsClosed /\ DebtsOwned /\ Turns /\ RestorePays /\ WatchUnlocked
  BY DEF DebtInv
<1>1. PICK cmd \in Commands :
        /\ NextOp(t, cmd)
        /\ Then(t, <<>>)
        /\ \/ modem' = Effect(modem, cmd) /\ UNCHANGED lost
           \/ Kind(cmd) \notin lost /\ lost' = lost \cup {Kind(cmd)} /\ UNCHANGED modem
        /\ UNCHANGED <<saved, phase, recipe>>
  BY DEF Command, run
<1> DEFINE s == prog[t]
<1>2. /\ s \in Seq(OpsHere) /\ s # <<>> /\ Head(s) = cmd
      /\ \A c \in Payers \cup {"leave"} : Closed(s, c)
  BY <1>0, <1>1 DEF Types, ProgramsClosed, NextOp
<1>3. prog' = [prog EXCEPT ![t] = Tail(s)]
  <2>1. Tail(s) \in Seq(OpsHere)
    BY <1>2, HeadTailProperties
  <2>2. <<>> \o Tail(s) = Tail(s)
    BY <2>1, ConcatEmptySeq
  <2> QED BY <1>1, <2>2 DEF Then, Rest
<1>4. /\ Tail(s) \in Seq(OpsHere) /\ \A c \in Payers \cup {"leave"} : Closed(Tail(s), c)
      /\ \A c \in Payers : Pays(s, 0, c) /\ cmd # c => Pays(Tail(s), 0, c)
      /\ \A c \in Payers : cmd \in Openers(c) => Pays(Tail(s), 0, c)
  <2> HIDE DEF s
  <2> QED BY <1>2, HeadTailProperties, ClosedTail, PaysLater
<1>5. OpsHere' = OpsHere /\ (Restores <=> Restores')
  BY <1>1 DEF OpsHere, Restores
<1>6. Types'
  <2>1. modem' \in Modem
    BY <1>0, <1>1, EffectType DEF Types
  <2>2. lost' \subseteq {"CFUN1", "other"}
    BY <1>0, <1>1 DEF Types, Kind
  <2>3. prog' \in [Threads -> Seq(OpsHere)]
    BY <1>0, <1>3, <1>4 DEF Types
  <2> QED BY <1>0, <1>1, <1>5, <2>1, <2>2, <2>3 DEF Types
<1>7. ProgramsClosed'
  BY <1>0, <1>3, <1>4 DEF ProgramsClosed, Types
<1>8. DebtsOwned'
  <2> SUFFICES ASSUME NEW c \in Payers, Owed(c, modem')
               PROVE  Kind(c) \in lost' \/ \E u \in Threads : Pays(prog'[u], 0, c)
    BY DEF DebtsOwned
  <2>1. prog'[t] = Tail(s) /\ \A u \in Threads : u # t => prog'[u] = prog[u]
    BY <1>0, <1>3 DEF Types
  <2>2. ASSUME Owed(c, modem), cmd # c
        PROVE  Kind(c) \in lost' \/ \E u \in Threads : Pays(prog'[u], 0, c)
    <3>1. Kind(c) \in lost \/ \E u \in Threads : Pays(prog[u], 0, c)
      BY <1>0, <2>2 DEF DebtsOwned
    <3>2. Kind(c) \in lost => Kind(c) \in lost'
      BY <1>1
    <3> QED BY <1>4, <2>1, <2>2, <3>1, <3>2
  <2>3. CASE modem' = Effect(modem, cmd)
    <3>1. cmd \in Openers(c) \/ (cmd # c /\ Owed(c, modem))
      BY <1>0, <2>3, EffectOwes DEF Types
    <3> QED BY <1>4, <2>1, <2>2, <3>1
  <2>4. CASE lost' = lost \cup {Kind(cmd)} /\ modem' = modem
    <3>1. CASE cmd = c
      BY <2>4, <3>1
    <3>2. CASE cmd # c
      BY <2>2, <2>4, <3>2
    <3> QED BY <3>1, <3>2
  <2> QED BY <1>1, <2>3, <2>4
<1>9. ASSUME phase \in {"restore", "over"}
      PROVE  t = "main" /\ phase = "restore" /\ cmd \in {"unlock", "saved", "CFUN1", "COPS0"}
  <2>1. t = "main" /\ phase = "restore"
    BY <1>0, <1>2, <1>9 DEF Turns, Threads
  <2>2. s \in Seq({"unlock", "saved", "CFUN1", "COPS0"})
    BY <1>0, <2>1 DEF Turns
  <2>3. Head(s) \in {"unlock", "saved", "CFUN1", "COPS0"}
    <3> HIDE DEF s
    <3> QED BY <1>2, <2>2, HeadTailProperties
  <2> QED BY <1>2, <2>1, <2>3
<1>10. Turns'
  <2>1. phase \in {"run", "stop"} => t # "main"
    BY <1>0, <1>2 DEF Turns
  <2>2. phase = "restore" => Tail(s) \in Seq({"unlock", "saved", "CFUN1", "COPS0"})
    <3>1. phase = "restore" => s \in Seq({"unlock", "saved", "CFUN1", "COPS0"})
      BY <1>0, <1>9 DEF Turns
    <3> HIDE DEF s
    <3> QED BY <1>2, <3>1, HeadTailProperties
  <2> HIDE DEF s
  <2> QED BY <1>0, <1>1, <1>3, <1>9, <2>1, <2>2 DEF Turns, Types, Threads
<1>11. RestorePays'
  <2> SUFFICES ASSUME phase \in {"restore", "over"}, Restores, NEW c \in Payers, Owed(c, modem')
               PROVE  Kind(c) \in lost' /\ Pays(prog'["main"], 0, c)
    BY <1>1, <1>5 DEF RestorePays
  <2>1. t = "main" /\ cmd \in {"unlock", "saved", "CFUN1", "COPS0"}
    BY <1>9
  <2>2. prog'["main"] = Tail(s)
    BY <1>0, <1>3, <2>1 DEF Types
  <2>3. cmd \notin Openers(c)
    BY <2>1 DEF Openers, Payers
  <2>4. Owed(c, modem) /\ cmd # c
    <3>1. CASE modem' = Effect(modem, cmd)
      BY <1>0, <2>3, <3>1, EffectOwes DEF Types
    <3>2. CASE Kind(cmd) \notin lost /\ modem' = modem
      BY <1>0, <3>2 DEF RestorePays
    <3> QED BY <1>1, <3>1, <3>2
  <2>5. Kind(c) \in lost /\ Pays(s, 0, c)
    BY <1>0, <2>1, <2>4 DEF RestorePays
  <2> QED BY <1>1, <1>4, <2>2, <2>4, <2>5
<1>12. WatchUnlocked'
  <2>1. ~recipe.surveying => cmd # "lock"
    <3>1. Head(s) \in OpsHere
      <4> HIDE DEF s
      <4> QED BY <1>2, HeadTailProperties
    <3> QED BY <1>2, <3>1 DEF OpsHere
  <2>2. modem' = modem \/ modem' = Effect(modem, cmd)
    BY <1>1
  <2>3. "COPS0" \in Payers
    BY DEF Payers
  <2> QED BY <1>0, <1>1, <2>1, <2>2, <2>3, EffectOwes DEF WatchUnlocked, Types
<1> QED BY <1>6, <1>7, <1>8, <1>10, <1>11, <1>12 DEF DebtInv

(* The modem's own steps leave radio, selection and lock alone.            *)
LEMMA ModemKeeps ==
  ASSUME DebtInv, Drop \/ \E rat \in {"lte", "3g"} : Camp(rat)
  PROVE  DebtInv'
<1>1. UNCHANGED <<prog, lost, phase, saved, recipe>>
  BY DEF Drop, Camp, run
<1>2. /\ modem' \in Modem
      /\ modem'.radio = modem.radio /\ modem'.sel = modem.sel /\ modem'.lock = modem.lock
  BY DEF Drop, Camp, DebtInv, Types, Modem
<1>3. \A c \in Payers : Owed(c, modem') <=> Owed(c, modem)
  BY <1>2 DEF Owed, Payers
<1>4. OpsHere' = OpsHere /\ (Restores <=> Restores')
  BY <1>1 DEF OpsHere, Restores
<1>5. Types'
  BY <1>1, <1>2, <1>4 DEF DebtInv, Types
<1>6. ProgramsClosed' /\ Turns'
  BY <1>1 DEF DebtInv, ProgramsClosed, Turns
<1>7. DebtsOwned'
  BY <1>1, <1>3 DEF DebtInv, DebtsOwned
<1>8. RestorePays'
  BY <1>1, <1>3, <1>4 DEF DebtInv, RestorePays
<1>9. WatchUnlocked'
  BY <1>1, <1>2 DEF DebtInv, WatchUnlocked
<1> QED BY <1>5, <1>6, <1>7, <1>8, <1>9 DEF DebtInv

-----------------------------------------------------------------------------
(* The loops of the threads.                                               *)

LEMMA RecipeType ==
  ASSUME Types
  PROVE  recipe.surveying \in BOOLEAN
BY GuardsAssumption DEF Types

(* Outside the end of the program a thread's program may grow.             *)
LEMMA GrowthKeeps ==
  ASSUME DebtInv, NEW t \in Threads, NEW new \in Seq(OpsHere),
         \A c \in Payers \cup {"leave"} : Closed(new, c),
         \A c \in Payers : Pays(prog[t], 0, c) => Pays(new, 0, c),
         prog' = [prog EXCEPT ![t] = new], t # "main",
         phase = "run", phase' \in {"run", "stop"},
         UNCHANGED <<modem, lost, saved, recipe>>
  PROVE  DebtInv'
<1>1. OpsHere' = OpsHere
  BY DEF OpsHere
<1>2. Types'
  BY <1>1 DEF DebtInv, Types
<1>3. ProgramsClosed'
  BY DEF DebtInv, Types, ProgramsClosed
<1>4. DebtsOwned'
  BY DEF DebtInv, Types, DebtsOwned
<1>5. Turns'
  BY DEF DebtInv, Types, Turns, Threads
<1>6. RestorePays' /\ WatchUnlocked'
  BY DEF DebtInv, RestorePays, WatchUnlocked
<1> QED BY <1>2, <1>3, <1>4, <1>5, <1>6 DEF DebtInv

LEMMA RoundKeeps ==
  ASSUME DebtInv, GuardPass \/ WorkerRound \/ stop_feeds
  PROVE  DebtInv'
<1>0. /\ prog \in [Threads -> Seq(OpsHere)] /\ recipe.surveying \in BOOLEAN
      /\ \A u \in Threads, c \in Payers \cup {"leave"} : Closed(prog[u], c)
  BY RecipeType DEF DebtInv, Types, ProgramsClosed
<1>1. CASE GuardPass
  <2>1. ensure_scan_rat \in Seq(OpsHere)
    <3>1. ensure_scan_rat \in Seq(Ops \ {"lock"})
      BY DEF ensure_scan_rat, Ops
    <3> QED BY <3>1, WatchProgram
  <2>2. \A c \in Payers \cup {"leave"} : Closed(ensure_scan_rat, c)
    BY DEF ensure_scan_rat, Closed, Openers, Payers
  <2>3. \A c \in Payers : ~Pays(prog["guard"], 0, c)
    BY <1>0, <1>1, PaysLater DEF GuardPass, Threads
  <2>4. "guard" \in Threads /\ "guard" # "main"
    BY DEF Threads
  <2>5. /\ prog' = [prog EXCEPT !["guard"] = ensure_scan_rat]
        /\ phase = "run" /\ phase' = "run" /\ UNCHANGED <<modem, lost, saved, recipe>>
    BY <1>1 DEF GuardPass, run
  <2> QED BY <2>1, <2>2, <2>3, <2>4, <2>5, GrowthKeeps
<1>2. CASE WorkerRound
  <2>1. PICK r \in Rounds : prog' = [prog EXCEPT !["worker"] = r]
    BY <1>2 DEF WorkerRound
  <2>2. \A c \in Payers : ~Pays(prog["worker"], 0, c)
    BY <1>0, <1>2, PaysLater DEF WorkerRound, Threads
  <2>3. "worker" \in Threads /\ "worker" # "main"
    BY DEF Threads
  <2>4. phase = "run" /\ phase' = "run" /\ UNCHANGED <<modem, lost, saved, recipe>>
    BY <1>2 DEF WorkerRound, run
  <2> QED BY <2>1, <2>2, <2>3, <2>4, RoundsClosed, GrowthKeeps
<1>3. CASE stop_feeds
  <2> DEFINE s == prog["worker"]
             new == IF recipe.surveying THEN s \o HopExit ELSE s
  <2>1. HopExit \in Seq(OpsHere) /\ \A c \in Payers \cup {"leave"} : Closed(HopExit, c)
    BY <1>0, EndsClosed, QuietIsClosed
  <2>2. s \in Seq(OpsHere) /\ \A c \in Payers \cup {"leave"} : Closed(s, c)
    BY <1>0 DEF Threads
  <2> HIDE DEF s
  <2>3. /\ s \o HopExit \in Seq(OpsHere)
        /\ \A c \in Payers \cup {"leave"} : Closed(s \o HopExit, c)
        /\ \A c \in Payers : Pays(s, 0, c) => Pays(s \o HopExit, 0, c)
    BY <2>1, <2>2, InARow, PaysConcat
  <2>4. /\ new \in Seq(OpsHere) /\ \A c \in Payers \cup {"leave"} : Closed(new, c)
        /\ \A c \in Payers : Pays(s, 0, c) => Pays(new, 0, c)
    BY <2>2, <2>3
  <2>5. prog' = [prog EXCEPT !["worker"] = new]
    BY <1>0, <1>3 DEF stop_feeds, s, Threads
  <2>6. "worker" \in Threads /\ "worker" # "main"
    BY DEF Threads
  <2>7. phase = "run" /\ phase' = "stop" /\ UNCHANGED <<modem, lost, saved, recipe>>
    BY <1>3 DEF stop_feeds
  <2> HIDE DEF new
  <2> QED BY <2>4, <2>5, <2>6, <2>7, GrowthKeeps DEF s
<1> QED BY <1>1, <1>2, <1>3

LEMMA StartedKeeps ==
  ASSUME DebtInv, Started \/ Over
  PROVE  DebtInv'
<1>1. /\ UNCHANGED <<modem, prog, lost, saved, recipe>> /\ prog["main"] = <<>>
      /\ \/ phase = "pin" /\ phase' = "run"
         \/ phase = "restore" /\ phase' = "over"
  BY DEF Started, Over
<1>2. OpsHere' = OpsHere /\ (Restores <=> Restores')
  BY <1>1 DEF OpsHere, Restores
<1>3. Types' /\ ProgramsClosed' /\ DebtsOwned' /\ WatchUnlocked'
  BY <1>1, <1>2 DEF DebtInv, Types, ProgramsClosed, DebtsOwned, WatchUnlocked
<1>4. Turns' /\ RestorePays'
  BY <1>1, <1>2 DEF DebtInv, Turns, RestorePays
<1> QED BY <1>3, <1>4 DEF DebtInv

(* The joins: whoever is gone owes nothing, so that what is still owed was *)
(* lost, and restore_radio has its payer.                                  *)
LEMMA JoinedKeeps ==
  ASSUME DebtInv, Joined
  PROVE  DebtInv'
<1>0. Types /\ ProgramsClosed /\ DebtsOwned /\ Turns /\ WatchUnlocked
  BY DEF DebtInv
<1>1. /\ phase = "stop" /\ phase' = "restore"
      /\ prog' = [prog EXCEPT !["main"] = restore_radio]
      /\ UNCHANGED <<modem, lost, saved, recipe>>
  BY DEF Joined
<1>2. OpsHere' = OpsHere /\ (Restores <=> Restores') /\ recipe.surveying \in BOOLEAN
  BY <1>0, <1>1, RecipeType DEF OpsHere, Restores
<1>3. \A t \in Threads : prog[t] = <<>>
  BY <1>0 DEF Joined, Turns, Threads
<1>4. /\ restore_radio \in Seq({"unlock", "saved", "CFUN1", "COPS0"})
      /\ restore_radio \in Seq(OpsHere)
      /\ \A c \in Payers \cup {"leave"} : Closed(restore_radio, c)
  <2>1. {"unlock", "saved", "CFUN1", "COPS0"} \subseteq Quiet
    BY DEF Quiet, Ops, Commands
  <2>2. restore_radio \in Seq(Quiet)
    BY <1>2, <2>1, EndsClosed, SeqMonotonic
  <2> QED BY <1>2, <2>2, EndsClosed, QuietIsClosed
<1>5. /\ "main" \in Threads /\ prog'["main"] = restore_radio
      /\ \A t \in Threads : t # "main" => prog'[t] = <<>>
  BY <1>0, <1>1, <1>3 DEF Types, Threads
<1>6. Types'
  BY <1>0, <1>1, <1>2, <1>4 DEF Types
<1>7. ProgramsClosed'
  <2>1. \A c \in Payers \cup {"leave"} : Closed(<<>>, c)
    BY ShortPrograms, QuietIsClosed
  <2> QED BY <1>4, <1>5, <2>1 DEF ProgramsClosed
<1>8. \A c \in Payers : Owed(c, modem) => Kind(c) \in lost
  <2>1. \A c \in Payers : ~Pays(<<>>, 0, c)
    <3>1. <<>> \in Seq(OpsHere)
      OBVIOUS
    <3> QED BY <3>1, PaysLater
  <2> QED BY <1>0, <1>3, <2>1 DEF DebtsOwned
<1>9. DebtsOwned'
  BY <1>1, <1>8 DEF DebtsOwned
<1>10. Turns'
  BY <1>1, <1>4, <1>5 DEF Turns, Threads
<1>11. RestorePays'
  <2> SUFFICES ASSUME Restores, NEW c \in Payers, Owed(c, modem)
               PROVE  Kind(c) \in lost /\ Pays(restore_radio, 0, c)
    BY <1>1, <1>2, <1>5 DEF RestorePays
  <2>1. c = "unlock" => recipe.surveying
    BY <1>0 DEF WatchUnlocked, Owed
  <2>2. Pays(restore_radio, 0, c)
    BY <1>2, <2>1, RestorePaysAll DEF Payers
  <2> QED BY <1>8, <2>2
<1>12. WatchUnlocked'
  BY <1>0, <1>1 DEF WatchUnlocked
<1> QED BY <1>6, <1>7, <1>9, <1>10, <1>11, <1>12 DEF DebtInv

-----------------------------------------------------------------------------
LEMMA InitDebts == Init => DebtInv
<1> SUFFICES ASSUME Init
             PROVE  DebtInv
  OBVIOUS
<1>1. recipe \in Recipes /\ recipe.surveying \in BOOLEAN /\ user \in {"any", "lte", "3g"}
  BY GuardsAssumption DEF Init
<1>2. \A t \in Threads : prog[t] \in Seq(Quiet)
  BY <1>1, EndsClosed DEF Init, Threads
<1>3. \A t \in Threads : prog[t] \in Seq(OpsHere) /\ \A c \in Payers \cup {"leave"} : Closed(prog[t], c)
  BY <1>2, QuietIsClosed
<1>4. Types
  <2>1. prog \in [Threads -> Seq(OpsHere)]
    BY <1>3 DEF Init
  <2> QED BY <1>1, <2>1 DEF Init, Types, Modem
<1>5. ProgramsClosed
  BY <1>3 DEF ProgramsClosed
<1>6. DebtsOwned
  BY DEF Init, DebtsOwned, Owed, Payers
<1>7. Turns /\ RestorePays /\ WatchUnlocked
  BY DEF Init, Turns, RestorePays, WatchUnlocked
<1> QED BY <1>4, <1>5, <1>6, <1>7 DEF DebtInv

LEMMA NextDebts == DebtInv /\ [Next]_vars => DebtInv'
<1> SUFFICES ASSUME DebtInv, [Next]_vars
             PROVE  DebtInv'
  OBVIOUS
<1>1. CASE \E t \in Threads : Step(t) \/ Dwell(t)
  <2>1. PICK t \in Threads : Step(t) \/ Dwell(t)
    BY <1>1
  <2>2. CASE Command(t)
    BY <2>2, CommandKeeps
  <2>3. CASE Store(t) \/ Wipe(t)
    BY <2>3, StoreKeeps, WipeKeeps
  <2>4. CASE Enter(t) \/ HoldCheck(t) \/ Leave(t)
    BY <2>4, GuardPassKeeps
  <2>5. CASE Judge(t) \/ Poll(t)
    BY <2>5, JudgeKeeps, PollKeeps
  <2>6. CASE Dwell(t) \/ Nudge(t) \/ Soft(t) \/ Hard(t) \/ Look(t) \/ Find(t)
    BY <2>6, RecoveryKeeps
  <2> QED BY <2>1, <2>2, <2>3, <2>4, <2>5, <2>6 DEF Step
<1>2. CASE GuardPass \/ WorkerRound \/ stop_feeds
  BY <1>2, RoundKeeps
<1>3. CASE Started \/ Over
  BY <1>3, StartedKeeps
<1>4. CASE Joined
  BY <1>4, JoinedKeeps
<1>5. CASE Drop \/ \E rat \in {"lte", "3g"} : Camp(rat)
  BY <1>5, ModemKeeps
<1>6. CASE UNCHANGED vars
  <2>1. UNCHANGED <<modem, prog, lost, phase, saved, recipe>>
    BY <1>6 DEF vars, run
  <2>2. OpsHere' = OpsHere /\ (Restores <=> Restores')
    BY <2>1 DEF OpsHere, Restores
  <2>3. Types' /\ ProgramsClosed' /\ DebtsOwned' /\ WatchUnlocked'
    BY <2>1, <2>2 DEF DebtInv, Types, ProgramsClosed, DebtsOwned, WatchUnlocked
  <2>4. Turns' /\ RestorePays'
    BY <2>1, <2>2 DEF DebtInv, Turns, RestorePays
  <2> QED BY <2>3, <2>4 DEF DebtInv
<1> QED BY <1>1, <1>2, <1>3, <1>4, <1>5, <1>6 DEF Next

(* A program that has ended owes nothing.                                  *)
LEMMA EndIsPaid == DebtInv => EndRestored
<1> SUFFICES ASSUME DebtInv, phase = "over", Restores
             PROVE  modem.radio /\ modem.sel = "auto" /\ ~modem.lock
  BY DEF EndRestored
<1>1. \A c \in Payers : ~Pays(<<>>, 0, c)
  <2>1. <<>> \in Seq(OpsHere)
    OBVIOUS
  <2> QED BY <2>1, PaysLater
<1>2. \A c \in Payers : ~Owed(c, modem)
  BY <1>1 DEF DebtInv, Turns, RestorePays
<1> QED BY <1>2 DEF Payers, Owed

(* Whatever recipe, interleaving of the threads, number of drops and point *)
(* of the stop, and though a command of each kind is lost, the program     *)
(* leaves the radio on, COPS automatic and the modem unlocked.  (That the  *)
(* CMSSN pin of a full walk goes away is neither claimed nor true.)        *)
THEOREM RadioIsRestored == Spec => []EndRestored
<1>1. DebtInv => EndRestored
  BY EndIsPaid
<1> QED BY <1>1, InitDebts, NextDebts, PTL DEF Spec

=============================================================================
