--------------------------- MODULE DiagDemuxProofs ---------------------------
(***************************************************************************)
(* The demultiplexer does not notice how the reads of the tty cut the      *)
(* stream: for any messages, noise included, of any length, and any sizes  *)
(* of the chunks.                                                          *)
(*                                                                         *)
(* A turn of pump depends on what lies ahead of its position only, and one *)
(* that takes something takes the same when more has arrived.  So the rest *)
(* of one pump, with the next chunk behind it, goes on where a pump of     *)
(* everything would be.                                                    *)
(***************************************************************************)
EXTENDS DiagDemux, SequenceTheorems, WellFoundedInduction, TLAPS

Cells == Seq(Nat)

(* A turn of pump that ends it, and what a run of it gives.                *)
Stops(b, p) == p > Len(b) \/ Step(b, p).take = 0
Results(X) == [rest : Cells, got : Seq(X)]
Ends(b, p) == [rest |-> SubSeq(b, p, Len(b)), got |-> <<>>]
Takes(b, p, r) == [rest |-> r.rest, got |-> Step(b, p).got \o r.got]

(* f holds the result of a pump of b from each position.                   *)
IsRun(f, b, X) ==
  /\ f \in [1..(Len(b) + 1) -> Results(X)]
  /\ \A p \in 1..(Len(b) + 1) :
       f[p] = IF Stops(b, p) THEN Ends(b, p) ELSE Takes(b, p, f[p + Step(b, p).take])

(* What the turns of a pump give.                                          *)
Gives(b, X) == \A p \in 1..Len(b) : Step(b, p).got \in Seq(X)

-----------------------------------------------------------------------------
(* A set that holds 0 and with each index the next one holds them all.     *)
LEMMA CountUp ==
  ASSUME NEW n \in Nat, NEW good, 0 \in good, \A i \in 1..n : i - 1 \in good => i \in good
  PROVE  \A i \in 0..n : i \in good
<1> DEFINE bad == {i \in 0..n : i \notin good}
           R == OpToRel(<, Nat)
<1> SUFFICES ASSUME bad # {} PROVE FALSE
  OBVIOUS
<1>1. bad \in SUBSET Nat
  OBVIOUS
<1>2. \E m \in bad : \A b \in bad : ~ (<<b, m>> \in R)
  <2>1. IsWellFoundedOn(R, Nat)
    BY NatLessThanWellFounded
  <2> HIDE DEF bad, R
  <2> QED BY <1>1, <2>1, WFMin
<1>3. \A x, y \in Nat : y < x => <<y, x>> \in R
  BY DEF OpToRel
<1> HIDE DEF R
<1>4. PICK m \in 0..n : m \notin good /\ \A b \in bad : ~ (<<b, m>> \in R)
  BY <1>2
<1>5. m \in 1..n /\ m - 1 \in 0..n /\ m - 1 < m
  BY <1>4
<1>6. m - 1 \in good
  <2>1. <<m - 1, m>> \in R
    <3>1. m \in Nat /\ m - 1 \in Nat /\ m - 1 < m
      BY <1>5
    <3> QED BY <1>3, <3>1
  <2>2. m - 1 \notin bad
    <3> HIDE DEF bad
    <3> QED BY <1>4, <2>1, Zenon
  <2> QED BY <1>5, <2>2
<1> QED BY <1>4, <1>5, <1>6

(* The same from the top: a position may rest on all those behind it.      *)
LEMMA CountDown ==
  ASSUME NEW lo \in Nat, NEW hi \in Nat, lo <= hi, NEW good,
         \A p \in lo..hi : (\A q \in (p + 1)..hi : q \in good) => p \in good
  PROVE  \A p \in lo..hi : p \in good
<1> DEFINE n == hi - lo
           done == {m \in 0..n : \A p \in (hi - m)..hi : p \in good}
<1>1. n \in Nat /\ lo = hi - n
  OBVIOUS
<1>2. 0 \in done
  <2>1. (hi + 1)..hi = {} /\ (hi - 0)..hi = {hi} /\ hi \in lo..hi
    OBVIOUS
  <2>2. hi \in good
    BY <2>1
  <2> QED BY <1>1, <2>1, <2>2
<1>3. ASSUME NEW m \in 1..n, m - 1 \in done PROVE m \in done
  <2>1. \A p \in (hi - (m - 1))..hi : p \in good
    BY <1>3
  <2>2. /\ hi - m \in lo..hi /\ ((hi - m) + 1)..hi = (hi - (m - 1))..hi
        /\ (hi - m)..hi = {hi - m} \cup ((hi - (m - 1))..hi) /\ m \in 0..n
    BY <1>1
  <2>3. hi - m \in good
    BY <2>1, <2>2
  <2> QED BY <2>1, <2>2, <2>3
<1> HIDE DEF done, n
<1>4. \A m \in 0..n : m \in done
  BY <1>1, <1>2, <1>3, CountUp
<1>5. n \in done
  BY <1>1, <1>4
<1> QED BY <1>1, <1>5 DEF done

-----------------------------------------------------------------------------
(* Parts of sequences of cells.                                            *)

LEMMA SubSeqCells ==
  ASSUME NEW b \in Cells, NEW i \in 1..(Len(b) + 1), NEW j \in (i - 1)..Len(b)
  PROVE  /\ SubSeq(b, i, j) \in Cells /\ Len(SubSeq(b, i, j)) = j - i + 1
         /\ \A n \in 1..(j - i + 1) : SubSeq(b, i, j)[n] = b[i + n - 1]
<1>1. b \in Seq(Nat) /\ Len(b) \in Nat
  BY DEF Cells
<1>2. i \in 1..(Len(b) + 1) /\ j \in i - 1..Len(b) /\ i \in Int /\ j \in Int
  BY <1>1
<1> HIDE DEF Cells
<1>3. SubSeq(b, i, j) \in Seq(Nat)
  BY <1>1, <1>2, SubSeqProperties
<1>4. Len(SubSeq(b, i, j)) = IF i <= j THEN j - i + 1 ELSE 0
  BY <1>1, <1>2, SubSeqProperties
<1>5. \A n \in 1..(j - i + 1) : SubSeq(b, i, j)[n] = b[i + n - 1]
  BY <1>1, <1>2, SubSeqProperties
<1> QED BY <1>2, <1>3, <1>4, <1>5 DEF Cells

LEMMA SameCells ==
  ASSUME NEW a \in Cells, NEW b \in Cells, Len(a) = Len(b), \A n \in 1..Len(a) : a[n] = b[n]
  PROVE  a = b
BY SeqEqual DEF Cells

LEMMA Concat ==
  ASSUME NEW a \in Cells, NEW x \in Cells
  PROVE  /\ a \o x \in Cells /\ Len(a \o x) = Len(a) + Len(x)
         /\ \A n \in 1..Len(a) : (a \o x)[n] = a[n]
         /\ \A n \in 1..Len(x) : (a \o x)[Len(a) + n] = x[n]
BY DEF Cells

(* A part of a, in a and in a with more behind it.                         *)
LEMMA PartOfPrefix ==
  ASSUME NEW a \in Cells, NEW x \in Cells,
         NEW i \in 1..(Len(a) + 1), NEW j \in (i - 1)..Len(a)
  PROVE  SubSeq(a \o x, i, j) = SubSeq(a, i, j)
<1>1. /\ a \o x \in Cells /\ Len(a \o x) = Len(a) + Len(x) /\ Len(a) \in Nat /\ Len(x) \in Nat
      /\ \A n \in 1..Len(a) : (a \o x)[n] = a[n]
  BY Concat DEF Cells
<1>2. i \in 1..(Len(a \o x) + 1) /\ j \in (i - 1)..Len(a \o x)
  BY <1>1
<1>3. /\ SubSeq(a, i, j) \in Cells /\ Len(SubSeq(a, i, j)) = j - i + 1
      /\ \A n \in 1..(j - i + 1) : SubSeq(a, i, j)[n] = a[i + n - 1]
  BY SubSeqCells
<1>4. /\ SubSeq(a \o x, i, j) \in Cells /\ Len(SubSeq(a \o x, i, j)) = j - i + 1
      /\ \A n \in 1..(j - i + 1) : SubSeq(a \o x, i, j)[n] = (a \o x)[i + n - 1]
  BY <1>1, <1>2, SubSeqCells
<1>5. \A n \in 1..(j - i + 1) : i + n - 1 \in 1..Len(a)
  BY <1>1
<1>6. \A n \in 1..(j - i + 1) : SubSeq(a \o x, i, j)[n] = SubSeq(a, i, j)[n]
  BY <1>1, <1>3, <1>4, <1>5
<1> HIDE DEF Cells
<1> QED BY <1>3, <1>4, <1>6, SameCells

(* A part of a suffix, in the suffix and in the whole.                     *)
LEMMA PartOfSuffix ==
  ASSUME NEW c \in Cells, NEW p \in 1..(Len(c) + 1),
         NEW i \in p..(Len(c) + 1), NEW j \in (i - 1)..Len(c)
  PROVE  SubSeq(SubSeq(c, p, Len(c)), i - p + 1, j - p + 1) = SubSeq(c, i, j)
<1> DEFINE d == SubSeq(c, p, Len(c))
<1>1. Len(c) \in Nat
  BY DEF Cells
<1>2. d \in Cells /\ Len(d) = Len(c) - p + 1 /\ \A n \in 1..(Len(c) - p + 1) : d[n] = c[p + n - 1]
  BY <1>1, SubSeqCells
<1> HIDE DEF d
<1>3. i - p + 1 \in 1..(Len(d) + 1) /\ j - p + 1 \in (i - p)..Len(d) /\ i \in 1..(Len(c) + 1)
  BY <1>1, <1>2
<1>4. /\ SubSeq(c, i, j) \in Cells /\ Len(SubSeq(c, i, j)) = j - i + 1
      /\ \A n \in 1..(j - i + 1) : SubSeq(c, i, j)[n] = c[i + n - 1]
  BY <1>3, SubSeqCells
<1>5. /\ SubSeq(d, i - p + 1, j - p + 1) \in Cells
      /\ Len(SubSeq(d, i - p + 1, j - p + 1)) = j - i + 1
      /\ \A n \in 1..(j - i + 1) : SubSeq(d, i - p + 1, j - p + 1)[n] = d[i - p + n]
  <2> DEFINE k == i - p + 1
             l == j - p + 1
  <2>1. k \in 1..(Len(d) + 1) /\ l \in (k - 1)..Len(d) /\ l - k + 1 = j - i + 1
    BY <1>1, <1>3
  <2>2. \A n \in 1..(j - i + 1) : k + n - 1 = i - p + n
    BY <1>1
  <2> HIDE DEF k, l
  <2>3. /\ SubSeq(d, k, l) \in Cells /\ Len(SubSeq(d, k, l)) = l - k + 1
        /\ \A n \in 1..(l - k + 1) : SubSeq(d, k, l)[n] = d[k + n - 1]
    BY <1>2, <2>1, SubSeqCells
  <2>4. /\ SubSeq(d, k, l) \in Cells /\ Len(SubSeq(d, k, l)) = j - i + 1
        /\ \A n \in 1..(j - i + 1) : SubSeq(d, k, l)[n] = d[i - p + n]
    BY <2>1, <2>2, <2>3
  <2> QED BY <2>4 DEF k, l
<1>6. \A n \in 1..(j - i + 1) : i - p + n \in 1..(Len(c) - p + 1) /\ p + (i - p + n) - 1 = i + n - 1
  BY <1>1
<1>7. \A n \in 1..(j - i + 1) : SubSeq(d, i - p + 1, j - p + 1)[n] = SubSeq(c, i, j)[n]
  BY <1>2, <1>4, <1>5, <1>6
<1>8. SubSeq(d, i - p + 1, j - p + 1) = SubSeq(c, i, j)
  <2> HIDE DEF Cells
  <2> QED BY <1>4, <1>5, <1>7, SameCells
<1> QED BY <1>8 DEF d

-----------------------------------------------------------------------------
(* The flag that ends a frame.                                             *)
FirstFlag(b, from, e) ==
  e \in from..Len(b) /\ b[e] = FLAG /\ \A i \in from..Len(b) : i < e => b[i] # FLAG

LEMMA FindFlag ==
  ASSUME NEW b \in Cells, NEW from \in Nat \ {0}
  PROVE  \/ find_flag(b, from) = 0 /\ \A i \in from..Len(b) : b[i] # FLAG
         \/ FirstFlag(b, from, find_flag(b, from))
<1> DEFINE flags == {i \in from..Len(b) : b[i] = FLAG}
           R == OpToRel(<, Nat)
<1>1. Len(b) \in Nat /\ flags \in SUBSET Nat
  BY DEF Cells
<1>2. CASE flags = {}
  BY <1>2 DEF find_flag
<1>3. CASE flags # {}
  <2>1. \E m \in flags : \A i \in flags : ~ (<<i, m>> \in R)
    <3>1. IsWellFoundedOn(R, Nat)
      BY NatLessThanWellFounded
    <3> HIDE DEF flags, R
    <3> QED BY <1>1, <1>3, <3>1, WFMin
  <2>2. \A x, y \in Nat : y < x => <<y, x>> \in R
    BY DEF OpToRel
  <2> HIDE DEF R
  <2>3. \E m \in flags : \A i \in flags : m <= i
    <3>1. PICK m \in flags : \A i \in flags : ~ (<<i, m>> \in R)
      BY <2>1
    <3>2. \A i \in flags : ~ (i < m)
      BY <1>1, <2>2, <3>1
    <3>3. \A i \in flags : m <= i
      BY <1>1, <3>1, <3>2
    <3> QED BY <3>1, <3>3
  <2>4. Min(flags) \in flags /\ \A i \in flags : Min(flags) <= i
    <3> HIDE DEF flags
    <3> QED BY <2>3 DEF Min
  <2>5. find_flag(b, from) = Min(flags)
    BY <1>3 DEF find_flag
  <2>6. Min(flags) \in Nat
    BY <1>1, <2>4
  <2> DEFINE e == Min(flags)
  <2>7. e \in flags /\ (\A i \in flags : e <= i) /\ e \in Nat /\ find_flag(b, from) = e
    BY <2>4, <2>5, <2>6
  <2> HIDE DEF e
  <2>8. FirstFlag(b, from, e)
    BY <1>1, <2>7 DEF FirstFlag
  <2> QED BY <2>7, <2>8
<1> QED BY <1>2, <1>3

LEMMA FlagIsFirst ==
  ASSUME NEW b \in Cells, NEW from \in Nat \ {0}, NEW e, FirstFlag(b, from, e)
  PROVE  find_flag(b, from) = e
<1>1. Len(b) \in Nat /\ e \in Nat /\ e >= from
  BY DEF FirstFlag, Cells
<1>2. ~ (\A i \in from..Len(b) : b[i] # FLAG)
  BY DEF FirstFlag
<1>3. FirstFlag(b, from, find_flag(b, from))
  BY <1>2, FindFlag
<1>4. find_flag(b, from) \in Nat /\ ~(find_flag(b, from) < e) /\ ~(e < find_flag(b, from))
  BY <1>1, <1>3 DEF FirstFlag
<1> QED BY <1>1, <1>4

(* A flag that is there stays the first one when more arrives.             *)
LEMMA FlagInPrefix ==
  ASSUME NEW a \in Cells, NEW x \in Cells, NEW from \in Nat \ {0}, find_flag(a, from) # 0
  PROVE  find_flag(a \o x, from) = find_flag(a, from)
<1>1. FirstFlag(a, from, find_flag(a, from))
  BY FindFlag
<1> DEFINE e == find_flag(a, from)
<1>2. FirstFlag(a \o x, from, e)
  <2> HIDE DEF e
  <2>1. /\ Len(a) \in Nat /\ Len(x) \in Nat /\ Len(a \o x) = Len(a) + Len(x)
        /\ \A n \in 1..Len(a) : (a \o x)[n] = a[n]
    BY Concat DEF Cells
  <2>2. FirstFlag(a, from, e)
    BY <1>1 DEF e
  <2> QED BY <2>1, <2>2 DEF FirstFlag
<1> HIDE DEF e
<1>3. a \o x \in Cells
  BY Concat
<1>4. find_flag(a \o x, from) = e
  BY <1>2, <1>3, FlagIsFirst
<1> QED BY <1>4 DEF e

(* Where it lies does not depend on what lies behind the search.           *)
LEMMA FlagInSuffix ==
  ASSUME NEW c \in Cells, NEW p \in 1..Len(c), NEW q \in p..Len(c)
  PROVE  LET d == SubSeq(c, p, Len(c))
             e == find_flag(c, q + 1)
             g == find_flag(d, q - p + 2)
         IN  (e = 0 <=> g = 0) /\ (e # 0 => e \in (q + 1)..Len(c) /\ g = e - p + 1)
<1> DEFINE d == SubSeq(c, p, Len(c))
           e == find_flag(c, q + 1)
           g == find_flag(d, q - p + 2)
<1>1. Len(c) \in Nat
  BY DEF Cells
<1>2. d \in Cells /\ Len(d) = Len(c) - p + 1 /\ \A n \in 1..(Len(c) - p + 1) : d[n] = c[p + n - 1]
  BY <1>1, SubSeqCells
<1>3. q + 1 \in Nat \ {0} /\ q - p + 2 \in Nat \ {0}
  BY <1>1
<1> HIDE DEF d
<1>4. \/ e = 0 /\ \A i \in (q + 1)..Len(c) : c[i] # FLAG
      \/ FirstFlag(c, q + 1, e)
  BY <1>3, FindFlag
<1>5. \/ g = 0 /\ \A i \in (q - p + 2)..Len(d) : d[i] # FLAG
      \/ FirstFlag(d, q - p + 2, g)
  BY <1>2, <1>3, FindFlag
<1> HIDE DEF e, g
<1>6. \A i \in (q + 1)..Len(c) : i - p + 1 \in (q - p + 2)..Len(d) /\ d[i - p + 1] = c[i]
  <2> TAKE i \in (q + 1)..Len(c)
  <2>1. i - p + 1 \in 1..(Len(c) - p + 1) /\ p + (i - p + 1) - 1 = i
    BY <1>1
  <2> QED BY <1>1, <1>2, <2>1
<1>7. ASSUME FirstFlag(c, q + 1, e) PROVE g = e - p + 1 /\ e \in (q + 1)..Len(c) /\ e # 0 /\ g # 0
  <2>1. e \in (q + 1)..Len(c) /\ c[e] = FLAG /\ \A i \in (q + 1)..Len(c) : i < e => c[i] # FLAG
    BY <1>7 DEF FirstFlag
  <2>2. e - p + 1 \in (q - p + 2)..Len(d) /\ d[e - p + 1] = FLAG
    BY <1>6, <2>1
  <2>3. \A n \in (q - p + 2)..Len(d) : n < e - p + 1 => d[n] # FLAG
    <3> TAKE n \in (q - p + 2)..Len(d)
    <3>1. p + n - 1 \in (q + 1)..Len(c) /\ (p + n - 1) - p + 1 = n
      BY <1>1, <1>2
    <3>2. d[n] = c[p + n - 1]
      BY <1>6, <3>1
    <3>3. n < e - p + 1 => p + n - 1 < e
      BY <1>1, <2>1
    <3> QED BY <2>1, <3>1, <3>2, <3>3
  <2>4. FirstFlag(d, q - p + 2, e - p + 1)
    BY <2>2, <2>3 DEF FirstFlag
  <2>5. g = e - p + 1
    BY <1>2, <1>3, <2>4, FlagIsFirst DEF g
  <2> QED BY <1>1, <2>1, <2>5
<1>8. ASSUME e = 0, \A i \in (q + 1)..Len(c) : c[i] # FLAG PROVE g = 0
  <2>1. \A n \in (q - p + 2)..Len(d) : d[n] # FLAG
    <3> TAKE n \in (q - p + 2)..Len(d)
    <3>1. p + n - 1 \in (q + 1)..Len(c) /\ (p + n - 1) - p + 1 = n
      BY <1>1, <1>2
    <3>2. d[n] = c[p + n - 1]
      BY <1>6, <3>1
    <3> QED BY <1>8, <3>1, <3>2
  <2> QED BY <1>5, <2>1 DEF FirstFlag
<1>9. (e = 0 <=> g = 0) /\ (e # 0 => e \in (q + 1)..Len(c) /\ g = e - p + 1)
  BY <1>4, <1>7, <1>8
<1> QED BY <1>9 DEF d, e, g

-----------------------------------------------------------------------------
(* One turn of pump.                                                       *)

LEMMA WordCells ==
  ASSUME NEW b \in Cells, NEW p \in 1..Len(b), Len(b) - p + 1 >= Header
  PROVE  /\ total_len(b, p) \in Nat
         /\ plausible(b, p) => total_len(b, p) >= Header
<1>1. Len(b) \in Nat /\ p + 1 \in 1..Len(b)
  BY DEF Cells, Header
<1>2. b[p] \in Nat /\ b[p + 1] \in Nat
  BY <1>1 DEF Cells
<1>3. total_len(b, p) \in Nat
  BY <1>2 DEF total_len, WordAt
<1>4. plausible(b, p) => total_len(b, p) \in Header..MaxTotalLen
  BY DEF plausible
<1> HIDE DEF Cells
<1> QED BY <1>3, <1>4, DemuxAssumption DEF Header

(* A turn takes no more than there is, and gives nothing when it waits,    *)
(* one thing at most otherwise.                                            *)
LEMMA StepBounds ==
  ASSUME NEW b \in Cells, NEW p \in 1..Len(b)
  PROVE  /\ Step(b, p).take \in 0..(Len(b) - p + 1)
         /\ Step(b, p).take = 0 => Step(b, p).got = <<>>
         /\ Step(b, p).got = <<>> \/ \E r : Step(b, p).got = <<r>>
<1> DEFINE end == find_flag(b, p + 1)
           Good(s) == /\ s.take \in 0..(Len(b) - p + 1)
                      /\ s.take = 0 => s.got = <<>>
                      /\ s.got = <<>> \/ \E r : s.got = <<r>>
<1>1. Len(b) \in Nat /\ p \in Nat /\ p + 1 \in Nat \ {0}
  BY DEF Cells
<1>2. end = 0 \/ end \in (p + 1)..Len(b)
  BY <1>1, FindFlag DEF FirstFlag
<1> HIDE DEF end
<1>3. Good(Wait)
  BY <1>1 DEF Wait
<1>4. Good(Skip)
  BY <1>1 DEF Skip
<1>5. ASSUME NEW first, end # 0 PROVE Good(Frame(b, p, first, end))
  <2>1. \A s : Deframed(s) = <<>> \/ \E r : Deframed(s) = <<r>>
    BY DEF Deframed
  <2>2. end - p + 1 \in 1..(Len(b) - p + 1)
    BY <1>1, <1>2, <1>5
  <2>3. Frame(b, p, first, end).take = end - p + 1
    BY DEF Frame
  <2>4. Frame(b, p, first, end).got = Deframed(SubSeq(b, first, end - 1))
    BY DEF Frame
  <2> QED BY <2>1, <2>2, <2>3, <2>4
<1>6. ASSUME Len(b) - p + 1 >= Header, plausible(b, p) PROVE Good(LengthPrefixed(b, p))
  <2>1. total_len(b, p) \in Nat /\ total_len(b, p) >= Header
    BY <1>6, WordCells
  <2>2. CASE Len(b) - p + 1 < total_len(b, p)
    BY <1>3, <2>2 DEF LengthPrefixed
  <2>3. CASE ~(Len(b) - p + 1 < total_len(b, p))
    <3>1. total_len(b, p) \in 1..(Len(b) - p + 1)
      BY <1>1, <2>1, <2>3 DEF Header
    <3>2. /\ LengthPrefixed(b, p).take = total_len(b, p)
          /\ \E r : LengthPrefixed(b, p).got = <<r>>
      BY <2>3 DEF LengthPrefixed
    <3> QED BY <3>1, <3>2
  <2> QED BY <2>2, <2>3
<1>7. ~(Len(b) - p + 1 < Header) => Len(b) - p + 1 >= Header
  BY <1>1 DEF Header
<1> HIDE DEF Good
<1>8. Good(Step(b, p))
  BY <1>3, <1>4, <1>5, <1>6, <1>7, Zenon DEF Step, end
<1> QED BY <1>8 DEF Good

(* A turn that takes something takes the same when more has arrived.       *)
LEMMA StepOfPrefix ==
  ASSUME NEW a \in Cells, NEW x \in Cells, NEW p \in 1..Len(a), Step(a, p).take # 0
  PROVE  Step(a \o x, p) = Step(a, p)
<1> DEFINE c == a \o x
           end == find_flag(a, p + 1)
           endc == find_flag(c, p + 1)
<1>1. /\ Len(a) \in Nat /\ Len(x) \in Nat /\ Len(c) \in Nat /\ Len(c) >= Len(a) /\ c \in Cells
      /\ \A n \in 1..Len(a) : c[n] = a[n]
  BY Concat DEF Cells
<1>2. end # 0 => endc = end
  BY FlagInPrefix
<1>3. end = 0 \/ end \in (p + 1)..Len(a)
  BY <1>1, FindFlag DEF FirstFlag
<1>4. ASSUME NEW i \in 1..(Len(a) + 1), NEW j \in (i - 1)..Len(a)
      PROVE  SubSeq(c, i, j) = SubSeq(a, i, j)
  BY PartOfPrefix
<1> HIDE DEF c, end, endc
<1>5. ASSUME end # 0, NEW first \in {p, p + 1} PROVE Frame(c, p, first, endc) = Frame(a, p, first, end)
  <2>1. first \in 1..(Len(a) + 1) /\ end - 1 \in (first - 1)..Len(a)
    BY <1>1, <1>3, <1>5
  <2> QED BY <1>2, <1>4, <1>5, <2>1 DEF Frame
<1>6. c[p] = a[p]
  BY <1>1
<1>7. ASSUME Len(a) - p + 1 >= Header
      PROVE  /\ plausible(c, p) <=> plausible(a, p)
             /\ total_len(c, p) = total_len(a, p)
             /\ ~(Len(c) - p + 1 < Header)
  <2>1. p + 1 \in 1..Len(a) /\ p + 2 \in 1..Len(a) /\ p + 3 \in 1..Len(a) /\ (p + 2) + 1 = p + 3
    BY <1>1, <1>7 DEF Header
  <2>2. WordAt(c, p) = WordAt(a, p) /\ WordAt(c, p + 2) = WordAt(a, p + 2)
    BY <1>1, <1>6, <2>1 DEF WordAt
  <2>3. ~(Len(c) - p + 1 < Header)
    BY <1>1, <1>7 DEF Header
  <2> QED BY <2>2, <2>3 DEF plausible, total_len
<1>8. ASSUME Len(a) - p + 1 >= Header, plausible(a, p), LengthPrefixed(a, p).take # 0
      PROVE  LengthPrefixed(c, p) = LengthPrefixed(a, p)
  <2>1. total_len(a, p) \in Nat /\ total_len(a, p) >= Header /\ total_len(c, p) = total_len(a, p)
    BY <1>7, <1>8, WordCells
  <2>2. ~(Len(a) - p + 1 < total_len(a, p))
    BY <1>8 DEF LengthPrefixed, Wait
  <2>3. ~(Len(c) - p + 1 < total_len(a, p))
    BY <1>1, <2>1, <2>2
  <2>4. p + Header \in 1..(Len(a) + 1) /\ p + total_len(a, p) - 1 \in (p + Header - 1)..Len(a)
    BY <1>1, <2>1, <2>2 DEF Header
  <2>5. SubSeq(c, p + Header, p + total_len(a, p) - 1) = SubSeq(a, p + Header, p + total_len(a, p) - 1)
    BY <1>4, <2>4
  <2> QED BY <2>1, <2>2, <2>3, <2>5 DEF LengthPrefixed
<1>9. ~(Len(a) - p + 1 < Header) => Len(a) - p + 1 >= Header
  BY <1>1 DEF Header
<1>10. Wait.take = 0
  BY DEF Wait
<1>11. CASE a[p] = FLAG
  <2>1. end # 0
    BY <1>10, <1>11 DEF Step, end
  <2>2. Step(a, p) = Frame(a, p, p + 1, end)
    BY <1>11, <2>1 DEF Step, end
  <2>3. Step(c, p) = Frame(c, p, p + 1, endc)
    BY <1>2, <1>6, <1>11, <2>1 DEF Step, endc
  <2>4. Step(c, p) = Step(a, p)
    BY <1>5, <2>1, <2>2, <2>3
  <2> QED BY <2>4 DEF c
<1>12. CASE a[p] # FLAG
  <2>1. Len(a) - p + 1 >= Header
    BY <1>9, <1>10, <1>12 DEF Step
  <2>2. ~(Len(a) - p + 1 < Header) /\ ~(Len(c) - p + 1 < Header)
    BY <1>1, <1>7, <2>1 DEF Header
  <2>3. CASE plausible(a, p)
    <3>1. Step(a, p) = LengthPrefixed(a, p)
      BY <1>12, <2>2, <2>3 DEF Step
    <3>2. Step(c, p) = LengthPrefixed(c, p)
      BY <1>6, <1>7, <1>12, <2>1, <2>2, <2>3 DEF Step
    <3>3. Step(c, p) = Step(a, p)
      BY <1>8, <2>1, <2>3, <3>1, <3>2
    <3> QED BY <3>3 DEF c
  <2>4. CASE ~plausible(a, p)
    <3>1. ~plausible(c, p)
      BY <1>7, <2>1, <2>4
    <3>2. CASE ~is_diag_opcode(a[p])
      <4>1. Step(a, p) = Skip
        BY <1>12, <2>2, <2>4, <3>2 DEF Step
      <4>2. Step(c, p) = Skip
        BY <1>6, <1>12, <2>2, <3>1, <3>2 DEF Step
      <4> QED BY <4>1, <4>2 DEF c
    <3>3. CASE is_diag_opcode(a[p])
      <4>1. Step(a, p) = IF end = 0 THEN Wait ELSE IF end - p > CloseFlag THEN Skip
                         ELSE Frame(a, p, p, end)
        BY <1>12, <2>2, <2>4, <3>3 DEF Step, end
      <4>2. end # 0
        BY <1>10, <4>1
      <4>3. Step(c, p) = IF endc = 0 THEN Wait ELSE IF endc - p > CloseFlag THEN Skip
                         ELSE Frame(c, p, p, endc)
        BY <1>6, <1>12, <2>2, <3>1, <3>3 DEF Step, endc
      <4>4. Step(c, p) = Step(a, p)
        BY <1>2, <1>5, <4>1, <4>2, <4>3
      <4> QED BY <4>4 DEF c
    <3> QED BY <3>2, <3>3
  <2> QED BY <2>3, <2>4
<1> QED BY <1>11, <1>12

(* A turn depends on the cells from its position on only.                  *)
LEMMA StepOfSuffix ==
  ASSUME NEW c \in Cells, NEW p \in 1..Len(c), NEW q \in p..Len(c)
  PROVE  Step(SubSeq(c, p, Len(c)), q - p + 1) = Step(c, q)
<1> DEFINE d == SubSeq(c, p, Len(c))
           r == q - p + 1
           end == find_flag(c, q + 1)
           endd == find_flag(d, r + 1)
<1>1. Len(c) \in Nat /\ p \in Nat /\ q \in Nat /\ r \in Nat /\ r + 1 = q - p + 2
  BY DEF Cells
<1>2. d \in Cells /\ Len(d) = Len(c) - p + 1 /\ \A n \in 1..(Len(c) - p + 1) : d[n] = c[p + n - 1]
  BY <1>1, SubSeqCells
<1>3. (end = 0 <=> endd = 0) /\ (end # 0 => end \in (q + 1)..Len(c) /\ endd = end - p + 1)
  BY <1>1, FlagInSuffix
<1>4. ASSUME NEW i \in p..(Len(c) + 1), NEW j \in (i - 1)..Len(c)
      PROVE  SubSeq(d, i - p + 1, j - p + 1) = SubSeq(c, i, j)
  BY <1>1, PartOfSuffix
<1> HIDE DEF d, end, endd
<1>5. ASSUME NEW n \in 0..3, q + n \in 1..Len(c) PROVE d[r + n] = c[q + n]
  <2>1. r + n \in 1..(Len(c) - p + 1) /\ p + (r + n) - 1 = q + n
    BY <1>1, <1>5
  <2> QED BY <1>2, <2>1
<1>6. d[r] = c[q]
  <2>1. q + 0 \in 1..Len(c) /\ q + 0 = q /\ r + 0 = r
    BY <1>1
  <2>2. d[r + 0] = c[q + 0]
    BY <1>5, <2>1
  <2> QED BY <2>1, <2>2
<1>7. Len(d) - r + 1 = Len(c) - q + 1
  BY <1>1, <1>2
<1>8. ASSUME end # 0, NEW n \in {0, 1} PROVE Frame(d, r, r + n, endd) = Frame(c, q, q + n, end)
  <2>1. q + n \in p..(Len(c) + 1) /\ end - 1 \in ((q + n) - 1)..Len(c)
    BY <1>1, <1>3, <1>8
  <2>2. SubSeq(d, (q + n) - p + 1, (end - 1) - p + 1) = SubSeq(c, q + n, end - 1)
    BY <1>4, <2>1
  <2>3. (q + n) - p + 1 = r + n /\ (end - 1) - p + 1 = endd - 1 /\ endd - r + 1 = end - q + 1
    BY <1>1, <1>3, <1>8
  <2> HIDE DEF r
  <2> QED BY <2>2, <2>3 DEF Frame
<1>9. ASSUME Len(c) - q + 1 >= Header
      PROVE  (plausible(d, r) <=> plausible(c, q)) /\ total_len(d, r) = total_len(c, q)
  <2>1. /\ q + 1 \in 1..Len(c) /\ q + 2 \in 1..Len(c) /\ q + 3 \in 1..Len(c)
        /\ (q + 2) + 1 = q + 3 /\ (r + 2) + 1 = r + 3
    BY <1>1, <1>9 DEF Header
  <2>2. d[r + 1] = c[q + 1] /\ d[r + 2] = c[q + 2] /\ d[r + 3] = c[q + 3]
    BY <1>5, <2>1
  <2> HIDE DEF r
  <2>3. WordAt(d, r) = WordAt(c, q) /\ WordAt(d, r + 2) = WordAt(c, q + 2)
    BY <1>6, <2>1, <2>2 DEF WordAt
  <2> QED BY <2>3 DEF plausible, total_len
<1>10. ASSUME Len(c) - q + 1 >= Header, plausible(c, q)
       PROVE  LengthPrefixed(d, r) = LengthPrefixed(c, q)
  <2>1. total_len(c, q) \in Nat /\ total_len(c, q) >= Header /\ total_len(d, r) = total_len(c, q)
    <3>1. q \in 1..Len(c)
      BY <1>1
    <3> QED BY <1>9, <1>10, <3>1, WordCells
  <2>2. CASE Len(c) - q + 1 < total_len(c, q)
    BY <1>7, <2>1, <2>2 DEF LengthPrefixed
  <2>3. CASE ~(Len(c) - q + 1 < total_len(c, q))
    <3> DEFINE n == total_len(c, q)
    <3>1. n \in Nat /\ n >= Header /\ ~(Len(c) - q + 1 < n)
      BY <2>1, <2>3
    <3> HIDE DEF n
    <3>2. q + Header \in p..(Len(c) + 1) /\ q + n - 1 \in ((q + Header) - 1)..Len(c)
      BY <1>1, <3>1 DEF Header
    <3>3. SubSeq(d, (q + Header) - p + 1, (q + n - 1) - p + 1) = SubSeq(c, q + Header, q + n - 1)
      BY <1>4, <3>2
    <3>4. (q + Header) - p + 1 = r + Header /\ (q + n - 1) - p + 1 = r + n - 1
      BY <1>1, <3>1 DEF Header
    <3>5. SubSeq(d, r + Header, r + n - 1) = SubSeq(c, q + Header, q + n - 1)
      BY <3>3, <3>4
    <3> HIDE DEF r
    <3>6. SubSeq(d, r + Header, r + total_len(d, r) - 1)
            = SubSeq(c, q + Header, q + total_len(c, q) - 1)
      BY <2>1, <3>5 DEF n
    <3> QED BY <1>7, <2>1, <2>3, <3>6 DEF LengthPrefixed
  <2> QED BY <2>2, <2>3
<1>11. r + 0 = r /\ q + 0 = q
  BY <1>1
<1>12. end # 0 => endd - r = end - q
  BY <1>1, <1>3
<1> HIDE DEF r
<1>13. CASE c[q] = FLAG
  <2>1. Step(c, q) = IF end = 0 THEN Wait ELSE Frame(c, q, q + 1, end)
    BY <1>13 DEF Step, end
  <2>2. Step(d, r) = IF endd = 0 THEN Wait ELSE Frame(d, r, r + 1, endd)
    BY <1>6, <1>13 DEF Step, endd
  <2>3. Step(d, r) = Step(c, q)
    BY <1>3, <1>8, <2>1, <2>2
  <2> QED BY <2>3 DEF d, r
<1>14. CASE c[q] # FLAG /\ Len(c) - q + 1 < Header
  <2>1. Step(d, r) = Wait /\ Step(c, q) = Wait
    BY <1>6, <1>7, <1>14 DEF Step
  <2> QED BY <2>1 DEF d, r
<1>15. CASE c[q] # FLAG /\ ~(Len(c) - q + 1 < Header)
  <2>1. Len(c) - q + 1 >= Header
    BY <1>1, <1>15 DEF Header
  <2>2. CASE plausible(c, q)
    <3>1. Step(c, q) = LengthPrefixed(c, q)
      BY <1>15, <2>2 DEF Step
    <3>2. Step(d, r) = LengthPrefixed(d, r)
      BY <1>6, <1>7, <1>9, <1>15, <2>1, <2>2 DEF Step
    <3>3. Step(d, r) = Step(c, q)
      BY <1>10, <2>1, <2>2, <3>1, <3>2
    <3> QED BY <3>3 DEF d, r
  <2>3. CASE ~plausible(c, q)
    <3>1. ~plausible(d, r)
      BY <1>9, <2>1, <2>3
    <3>2. CASE ~is_diag_opcode(c[q])
      <4>1. Step(c, q) = Skip
        BY <1>15, <2>3, <3>2 DEF Step
      <4>2. Step(d, r) = Skip
        BY <1>6, <1>7, <1>15, <3>1, <3>2 DEF Step
      <4> QED BY <4>1, <4>2 DEF d, r
    <3>3. CASE is_diag_opcode(c[q])
      <4>1. Step(c, q) = IF end = 0 THEN Wait ELSE IF end - q > CloseFlag THEN Skip
                         ELSE Frame(c, q, q, end)
        BY <1>15, <2>3, <3>3 DEF Step, end
      <4>2. Step(d, r) = IF endd = 0 THEN Wait ELSE IF endd - r > CloseFlag THEN Skip
                         ELSE Frame(d, r, r, endd)
        BY <1>6, <1>7, <1>15, <3>1, <3>3 DEF Step, endd
      <4>3. Step(d, r) = Step(c, q)
        BY <1>3, <1>8, <1>11, <1>12, <4>1, <4>2
      <4> QED BY <4>3 DEF d, r
    <3> QED BY <3>2, <3>3
  <2> QED BY <2>2, <2>3
<1> QED BY <1>13, <1>14, <1>15

-----------------------------------------------------------------------------
(* The loop of pump.  Whatever its turns give, it has a result from each   *)
(* position.                                                               *)

LEMMA NextPosition ==
  ASSUME NEW b \in Cells, NEW p \in 1..(Len(b) + 1), ~Stops(b, p)
  PROVE  p \in 1..Len(b) /\ p + Step(b, p).take \in (p + 1)..(Len(b) + 1)
<1>1. Len(b) \in Nat
  BY DEF Cells
<1>2. p \in 1..Len(b) /\ Step(b, p).take # 0
  BY <1>1 DEF Stops
<1>3. Step(b, p).take \in 0..(Len(b) - p + 1)
  BY <1>2, StepBounds
<1> QED BY <1>1, <1>2, <1>3

LEMMA ResultTypes ==
  ASSUME NEW b \in Cells, NEW X, Gives(b, X), NEW p \in 1..(Len(b) + 1)
  PROVE  /\ Ends(b, p) \in Results(X)
         /\ ~Stops(b, p) => \A r \in Results(X) : Takes(b, p, r) \in Results(X)
<1>1. Len(b) \in Nat
  BY DEF Cells
<1>2. SubSeq(b, p, Len(b)) \in Cells
  BY <1>1, SubSeqCells
<1>3. Ends(b, p) \in Results(X)
  <2>1. <<>> \in Seq(X)
    OBVIOUS
  <2> QED BY <1>2, <2>1 DEF Ends, Results
<1>4. ASSUME ~Stops(b, p), NEW r \in Results(X) PROVE Takes(b, p, r) \in Results(X)
  <2>1. Step(b, p).got \in Seq(X)
    BY <1>4, NextPosition DEF Gives
  <2>2. r.rest \in Cells /\ r.got \in Seq(X)
    BY DEF Results
  <2>3. Step(b, p).got \o r.got \in Seq(X)
    BY <2>1, <2>2
  <2> QED BY <2>2, <2>3 DEF Takes, Results
<1> QED BY <1>3, <1>4

LEMMA PumpRuns ==
  ASSUME NEW b \in Cells, NEW X, Gives(b, X)
  PROVE  \E f : IsRun(f, b, X) /\ pump(b) = f[1]
<1> DEFINE n == Len(b)
           take(p) == Step(b, p).take
           body(f, p) == IF Stops(b, p) THEN Ends(b, p) ELSE Takes(b, p, f[p + take(p)])
           Dom(m) == (n + 1 - m)..(n + 1)
           Ok(m) == \E f \in [Dom(m) -> Results(X)] : \A p \in Dom(m) : f[p] = body(f, p)
           good == {m \in 0..n : Ok(m)}
           Eq(f) == f = [p \in 1..(n + 1) |->
                           IF p > n \/ Step(b, p).take = 0
                           THEN [rest |-> SubSeq(b, p, n), got |-> <<>>]
                           ELSE [f[p + Step(b, p).take] EXCEPT
                                   !.got = Step(b, p).got \o f[p + Step(b, p).take].got]]
           from == CHOOSE f : Eq(f)
<1>1. n \in Nat
  BY DEF Cells
<1>2. pump(b) = from[1]
  BY DEF pump
<1>3. \A p \in 1..(n + 1) : /\ Ends(b, p) \in Results(X)
                            /\ ~Stops(b, p) => \A r \in Results(X) : Takes(b, p, r) \in Results(X)
  BY ResultTypes
<1>4. \A p \in 1..(n + 1) : ~Stops(b, p) => p + take(p) \in (p + 1)..(n + 1)
  BY NextPosition
<1>5. Stops(b, n + 1)
  BY <1>1 DEF Stops
<1> HIDE DEF take, n, from
<1>6. Ok(0)
  <2> DEFINE f == [p \in Dom(0) |-> Ends(b, p)]
  <2>1. Dom(0) = {n + 1} /\ n + 1 \in 1..(n + 1)
    BY <1>1
  <2>2. f \in [Dom(0) -> Results(X)] /\ \A p \in Dom(0) : f[p] = Ends(b, p) /\ Stops(b, p)
    BY <1>3, <1>5, <2>1
  <2> HIDE DEF f, Dom
  <2> QED BY <2>2
<1>7. ASSUME NEW m \in 1..n, Ok(m - 1) PROVE Ok(m)
  <2> DEFINE q == n + 1 - m
  <2>1. /\ Dom(m) = Dom(m - 1) \cup {q} /\ q \notin Dom(m - 1) /\ q \in 1..(n + 1)
        /\ \A p \in Dom(m) : p \in 1..(n + 1) /\ (p + 1)..(n + 1) \subseteq Dom(m - 1)
    BY <1>1
  <2>2. PICK f \in [Dom(m - 1) -> Results(X)] : \A p \in Dom(m - 1) : f[p] = body(f, p)
    BY <1>7
  <2> HIDE DEF Dom, q
  <2> DEFINE g == [p \in Dom(m) |-> IF p = q THEN body(f, q) ELSE f[p]]
  <2>3. body(f, q) \in Results(X)
    <3>1. ~Stops(b, q) => f[q + take(q)] \in Results(X)
      BY <1>4, <2>1
    <3> QED BY <1>3, <2>1, <3>1
  <2>4. g \in [Dom(m) -> Results(X)]
    <3> HIDE DEF body
    <3> QED BY <2>1, <2>2, <2>3
  <2>5. \A p \in Dom(m - 1) : g[p] = f[p]
    <3> HIDE DEF body
    <3> QED BY <2>1
  <2>6. g[q] = body(f, q)
    <3> HIDE DEF body
    <3> QED BY <2>1
  <2> HIDE DEF g
  <2>7. \A p \in Dom(m) : body(g, p) = body(f, p)
    <3> TAKE p \in Dom(m)
    <3>1. ~Stops(b, p) => g[p + take(p)] = f[p + take(p)]
      BY <1>4, <2>1, <2>5
    <3> QED BY <3>1
  <2>8. \A p \in Dom(m) : g[p] = body(g, p)
    <3> HIDE DEF body
    <3> QED BY <2>1, <2>2, <2>5, <2>6, <2>7
  <2> QED BY <2>4, <2>8
<1>8. n \in good
  <2>1. 0 \in good /\ \A m \in 1..n : m - 1 \in good => m \in good
    <3> HIDE DEF Ok
    <3> QED BY <1>1, <1>6, <1>7
  <2> HIDE DEF good
  <2>2. \A m \in 0..n : m \in good
    BY <1>1, <2>1, CountUp
  <2> QED BY <1>1, <2>2
<1>9. PICK f \in [1..(n + 1) -> Results(X)] : \A p \in 1..(n + 1) : f[p] = body(f, p)
  <2>1. Dom(n) = 1..(n + 1)
    BY <1>1
  <2>2. \E f \in [Dom(n) -> Results(X)] : \A p \in Dom(n) : f[p] = body(f, p)
    BY <1>8
  <2> HIDE DEF Dom, body
  <2> QED BY <2>1, <2>2
<1> DEFINE old(z, p) == IF p > n \/ Step(b, p).take = 0
                        THEN [rest |-> SubSeq(b, p, n), got |-> <<>>]
                        ELSE [z[p + Step(b, p).take] EXCEPT
                                !.got = Step(b, p).got \o z[p + Step(b, p).take].got]
<1>10. ASSUME NEW h, NEW p \in 1..(n + 1), ~Stops(b, p) => h[p + take(p)] \in Results(X)
       PROVE  old(h, p) = body(h, p)
  <2>1. CASE Stops(b, p)
    BY <2>1 DEF Stops, Ends, n
  <2>2. CASE ~Stops(b, p)
    <3> DEFINE r == h[p + take(p)]
    <3>1. r \in [rest : Cells, got : Seq(X)]
      BY <1>10, <2>2 DEF Results
    <3> HIDE DEF r
    <3>2. [r EXCEPT !.got = Step(b, p).got \o r.got] = Takes(b, p, r)
      <4>1. r = [rest |-> r.rest, got |-> r.got]
        BY <3>1, Zenon
      <4> DEFINE u == r.rest
                 v == r.got
                 w == Step(b, p).got \o v
      <4>2. r = [rest |-> u, got |-> v] /\ Takes(b, p, r) = [rest |-> u, got |-> w]
        BY <4>1 DEF Takes
      <4> HIDE DEF u, v, w
      <4>3. [r EXCEPT !.got = w] = [rest |-> u, got |-> w]
        BY <4>2
      <4> QED BY <4>2, <4>3 DEF w, v
    <3>3. ~(p > n \/ Step(b, p).take = 0)
      BY <2>2, SMTT(40) DEF Stops, n
    <3> QED BY <2>2, <3>2, <3>3 DEF r, take
  <2> QED BY <2>1, <2>2
<1>11. Eq(f)
  <2>1. \A p \in 1..(n + 1) : f[p] = old(f, p)
    <3> TAKE p \in 1..(n + 1)
    <3>1. ~Stops(b, p) => f[p + take(p)] \in Results(X)
      BY <1>1, <1>4
    <3> HIDE DEF old, body
    <3> QED BY <1>9, <1>10, <3>1
  <2> HIDE DEF old
  <2>2. f = [p \in 1..(n + 1) |-> old(f, p)]
    BY <2>1
  <2> QED BY <2>2 DEF old
<1>12. Eq(from)
  <2> HIDE DEF Eq
  <2> QED BY <1>11 DEF from
<1>13. ASSUME NEW h, Eq(h) PROVE \A p \in 1..(n + 1) : h[p] = old(h, p)
  <2>1. h = [p \in 1..(n + 1) |-> old(h, p)]
    BY <1>13
  <2> HIDE DEF old, Eq
  <2> QED BY <2>1
<1> HIDE DEF Eq
<1> DEFINE same == {p \in 1..(n + 1) : from[p] = f[p]}
<1>14. \A p \in 1..(n + 1) : p \in same
  <2>1. \A p \in 1..(n + 1) : from[p] = old(from, p)
    BY <1>12, <1>13
  <2>2. ASSUME NEW p \in 1..(n + 1), \A q \in (p + 1)..(n + 1) : q \in same
        PROVE  p \in same
    <3>1. ~Stops(b, p) => /\ from[p + take(p)] = f[p + take(p)]
                          /\ from[p + take(p)] \in Results(X)
      BY <1>1, <1>4, <2>2
    <3>2. from[p] = body(from, p)
      <4> HIDE DEF old, body
      <4> QED BY <1>10, <2>1, <3>1
    <3>3. body(from, p) = body(f, p)
      BY <3>1
    <3> HIDE DEF body
    <3> QED BY <1>9, <3>2, <3>3
  <2>3. 1 \in Nat /\ n + 1 \in Nat /\ 1 <= n + 1
    BY <1>1
  <2> HIDE DEF same
  <2> QED BY <2>2, <2>3, CountDown
<1>15. from[1] = f[1]
  BY <1>1, <1>14
<1>16. IsRun(f, b, X)
  BY <1>9 DEF IsRun, n, take
<1> QED BY <1>2, <1>15, <1>16

-----------------------------------------------------------------------------
(* A pump of a part that lies at the end gives what the pump of the whole  *)
(* gives from there.                                                       *)

LEMMA SuffixGives ==
  ASSUME NEW c \in Cells, NEW X, Gives(c, X), NEW p \in 1..(Len(c) + 1)
  PROVE  Gives(SubSeq(c, p, Len(c)), X)
<1> DEFINE d == SubSeq(c, p, Len(c))
<1>1. Len(c) \in Nat
  BY DEF Cells
<1>2. Len(d) = Len(c) - p + 1
  BY <1>1, SubSeqCells
<1> HIDE DEF d
<1>3. ASSUME NEW n \in 1..Len(d) PROVE Step(d, n).got \in Seq(X)
  <2> DEFINE q == p + n - 1
  <2>1. q \in p..Len(c) /\ q \in 1..Len(c) /\ q - p + 1 = n /\ p \in 1..Len(c)
    BY <1>1, <1>2
  <2> HIDE DEF q
  <2>2. Step(d, q - p + 1) = Step(c, q)
    BY <2>1, StepOfSuffix DEF d
  <2> QED BY <2>1, <2>2 DEF Gives
<1> QED BY <1>3 DEF Gives, d

LEMMA PumpOfSuffix ==
  ASSUME NEW c \in Cells, NEW X, Gives(c, X), NEW f, IsRun(f, c, X), NEW p \in 1..(Len(c) + 1)
  PROVE  pump(SubSeq(c, p, Len(c))) = f[p]
<1> DEFINE d == SubSeq(c, p, Len(c))
           n == Len(c)
<1>1. n \in Nat /\ p \in Nat
  BY DEF Cells
<1>2. d \in Cells /\ Len(d) = n - p + 1
  BY <1>1, SubSeqCells
<1>3. Gives(d, X)
  BY SuffixGives
<1>4. ASSUME NEW q \in p..n PROVE Step(d, q - p + 1) = Step(c, q)
  <2>1. p \in 1..n
    BY <1>1
  <2> QED BY <2>1, StepOfSuffix
<1>5. ASSUME NEW q \in p..(n + 1) PROVE Ends(d, q - p + 1) = Ends(c, q)
  <2>1. n \in (q - 1)..n /\ n - p + 1 = Len(d)
    BY <1>1, <1>2
  <2>2. SubSeq(d, q - p + 1, n - p + 1) = SubSeq(c, q, n)
    BY <2>1, PartOfSuffix
  <2> HIDE DEF d
  <2>3. SubSeq(d, q - p + 1, Len(d)) = SubSeq(c, q, n)
    BY <2>1, <2>2
  <2> QED BY <2>3 DEF Ends
<1> HIDE DEF d
<1>6. PICK g : IsRun(g, d, X) /\ pump(d) = g[1]
  BY <1>2, <1>3, PumpRuns
<1> HIDE DEF n
<1> DEFINE same == {q \in p..(n + 1) : g[q - p + 1] = f[q]}
<1>7. ASSUME NEW q \in p..(n + 1), \A r \in (q + 1)..(n + 1) : r \in same PROVE q \in same
  <2> DEFINE m == q - p + 1
  <2>1. /\ q \in 1..(Len(c) + 1) /\ m \in 1..(Len(d) + 1)
        /\ q > Len(c) <=> m > Len(d)
        /\ q <= Len(c) => q \in p..n
    BY <1>1, <1>2 DEF n
  <2>2. f[q] = IF Stops(c, q) THEN Ends(c, q) ELSE Takes(c, q, f[q + Step(c, q).take])
    BY <2>1 DEF IsRun
  <2>3. g[m] = IF Stops(d, m) THEN Ends(d, m) ELSE Takes(d, m, g[m + Step(d, m).take])
    <3> HIDE DEF m
    <3> QED BY <1>6, <2>1 DEF IsRun
  <2>4. Ends(d, m) = Ends(c, q)
    BY <1>5
  <2>5. q <= Len(c) => Step(d, m) = Step(c, q)
    BY <1>4, <2>1
  <2>6. Stops(d, m) <=> Stops(c, q)
    <3>1. CASE q > Len(c)
      BY <2>1, <3>1 DEF Stops
    <3>2. CASE ~(q > Len(c))
      <4>1. q <= Len(c)
        BY <1>1, <2>1, <3>2 DEF n
      <4> QED BY <2>1, <2>5, <3>2, <4>1 DEF Stops
    <3> QED BY <3>1, <3>2
  <2>7. CASE Stops(c, q)
    BY <2>2, <2>3, <2>4, <2>6, <2>7
  <2>8. CASE ~Stops(c, q)
    <3>1. q \in 1..Len(c) /\ q + Step(c, q).take \in (q + 1)..(Len(c) + 1)
      BY <2>1, <2>8, NextPosition
    <3>2. Step(d, m) = Step(c, q)
      BY <2>5, <3>1
    <3> DEFINE t == Step(c, q).take
    <3>3. t \in Nat /\ q + t \in (q + 1)..(n + 1) /\ (q + t) - p + 1 = m + t
      <4>1. t \in 0..(Len(c) - q + 1)
        BY <3>1, StepBounds
      <4>2. t \in Nat
        BY <4>1
      <4> HIDE DEF t
      <4>3. (q + t) - p + 1 = m + t
        BY <1>1, <4>2
      <4> QED BY <3>1, <4>2, <4>3 DEF t, n
    <3>4. g[m + t] = f[q + t]
      <4>1. q + t \in same
        BY <1>7, <3>3
      <4> HIDE DEF m, t
      <4> QED BY <3>3, <4>1
    <3>5. g[m] = f[q]
      <4> HIDE DEF m
      <4> QED BY <2>2, <2>3, <2>6, <2>8, <3>2, <3>4 DEF Takes
    <3> QED BY <3>5
  <2> QED BY <2>7, <2>8
<1>8. \A q \in p..(n + 1) : q \in same
  <2>1. n + 1 \in Nat /\ p <= n + 1
    BY <1>1 DEF n
  <2> HIDE DEF same
  <2> QED BY <1>1, <1>7, <2>1, CountDown
<1>9. g[1] = f[p]
  <2>1. p \in p..(n + 1) /\ p - p + 1 = 1
    BY <1>1 DEF n
  <2> QED BY <1>8, <2>1
<1> QED BY <1>6, <1>9 DEF d

-----------------------------------------------------------------------------
(* A pump of what has arrived, and one of its rest with what comes next.   *)

PumpedOn(r, x) == [rest |-> pump(r.rest \o x).rest, got |-> r.got \o pump(r.rest \o x).got]

LEMMA RestWithMore ==
  ASSUME NEW a \in Cells, NEW x \in Cells, NEW p \in 1..(Len(a) + 1)
  PROVE  SubSeq(a, p, Len(a)) \o x = SubSeq(a \o x, p, Len(a \o x))
<1> DEFINE c == a \o x
           s == SubSeq(a, p, Len(a))
<1>1. /\ c \in Cells /\ Len(c) = Len(a) + Len(x) /\ Len(a) \in Nat /\ Len(x) \in Nat
      /\ \A n \in 1..Len(a) : c[n] = a[n]
      /\ \A n \in 1..Len(x) : c[Len(a) + n] = x[n]
  BY Concat DEF Cells
<1>2. /\ s \in Cells /\ Len(s) = Len(a) - p + 1
      /\ \A n \in 1..(Len(a) - p + 1) : s[n] = a[p + n - 1]
  BY <1>1, SubSeqCells
<1> HIDE DEF c, s
<1>3. /\ s \o x \in Cells /\ Len(s \o x) = Len(s) + Len(x)
      /\ \A n \in 1..Len(s) : (s \o x)[n] = s[n]
      /\ \A n \in 1..Len(x) : (s \o x)[Len(s) + n] = x[n]
  BY <1>2, Concat
<1>4. p \in 1..(Len(c) + 1) /\ Len(c) \in (p - 1)..Len(c)
  BY <1>1
<1>5. /\ SubSeq(c, p, Len(c)) \in Cells /\ Len(SubSeq(c, p, Len(c))) = Len(c) - p + 1
      /\ \A n \in 1..(Len(c) - p + 1) : SubSeq(c, p, Len(c))[n] = c[p + n - 1]
  BY <1>1, <1>4, SubSeqCells
<1>6. Len(s \o x) = Len(c) - p + 1
  BY <1>1, <1>2, <1>3
<1>7. ASSUME NEW n \in 1..(Len(c) - p + 1) PROVE (s \o x)[n] = c[p + n - 1]
  <2>1. CASE n \in 1..Len(s)
    <3>1. n \in 1..(Len(a) - p + 1) /\ p + n - 1 \in 1..Len(a)
      BY <1>1, <1>2, <2>1
    <3> QED BY <1>1, <1>2, <1>3, <2>1, <3>1
  <2>2. CASE n \notin 1..Len(s)
    <3> DEFINE m == n - Len(s)
    <3>1. m \in 1..Len(x) /\ n = Len(s) + m /\ p + n - 1 = Len(a) + m
      BY <1>1, <1>2, <2>2
    <3> HIDE DEF m
    <3> QED BY <1>1, <1>3, <3>1
  <2> QED BY <2>1, <2>2
<1>8. s \o x = SubSeq(c, p, Len(c))
  <2> HIDE DEF Cells
  <2> QED BY <1>3, <1>5, <1>6, <1>7, SameCells
<1> QED BY <1>8 DEF c, s

LEMMA PrefixGives ==
  ASSUME NEW a \in Cells, NEW x \in Cells, NEW X, Gives(a \o x, X)
  PROVE  Gives(a, X)
<1>1. /\ Len(a) \in Nat /\ Len(x) \in Nat /\ Len(a \o x) = Len(a) + Len(x)
  BY Concat DEF Cells
<1>2. ASSUME NEW p \in 1..Len(a) PROVE Step(a, p).got \in Seq(X)
  <2>1. CASE Step(a, p).take = 0
    <3>1. Step(a, p).got = <<>>
      BY <2>1, StepBounds
    <3> QED BY <3>1
  <2>2. CASE Step(a, p).take # 0
    <3>1. Step(a \o x, p) = Step(a, p) /\ p \in 1..Len(a \o x)
      BY <1>1, <2>2, StepOfPrefix
    <3> QED BY <3>1 DEF Gives
  <2> QED BY <2>1, <2>2
<1> QED BY <1>2 DEF Gives

LEMMA RunGoesOn ==
  ASSUME NEW a \in Cells, NEW x \in Cells, NEW X, Gives(a \o x, X),
         NEW f, IsRun(f, a, X), NEW h, IsRun(h, a \o x, X)
  PROVE  h[1] = PumpedOn(f[1], x)
<1> DEFINE c == a \o x
           n == Len(a)
<1>1. c \in Cells /\ Len(c) = n + Len(x) /\ n \in Nat /\ Len(x) \in Nat
  BY Concat DEF Cells
<1>2. ASSUME NEW p \in 1..(n + 1) PROVE SubSeq(a, p, n) \o x = SubSeq(c, p, Len(c))
  BY RestWithMore
<1>3. ASSUME NEW p \in 1..n, Step(a, p).take # 0 PROVE Step(c, p) = Step(a, p)
  BY <1>3, StepOfPrefix
<1>4. Gives(c, X) /\ Gives(a, X) /\ IsRun(h, c, X)
  BY PrefixGives
<1> HIDE DEF c, n
<1> DEFINE good == {p \in 1..(n + 1) : /\ h[p] = PumpedOn(f[p], x)
                                       /\ pump(f[p].rest \o x).got \in Seq(X)}
<1>5. ASSUME NEW p \in 1..(n + 1), \A q \in (p + 1)..(n + 1) : q \in good PROVE p \in good
  <2>1. p \in 1..(Len(a) + 1) /\ p \in 1..(Len(c) + 1)
    BY <1>1 DEF n
  <2>2. f[p] = IF Stops(a, p) THEN Ends(a, p) ELSE Takes(a, p, f[p + Step(a, p).take])
    BY <2>1 DEF IsRun
  <2>3. h[p] = IF Stops(c, p) THEN Ends(c, p) ELSE Takes(c, p, h[p + Step(c, p).take])
    BY <1>4, <2>1 DEF IsRun
  <2>4. f[p] \in Results(X) /\ h[p] \in Results(X)
    BY <1>4, <2>1 DEF IsRun
  <2>5. CASE Stops(a, p)
    <3>1. f[p].rest = SubSeq(a, p, n) /\ f[p].got = <<>>
      BY <2>2, <2>5 DEF Ends, n
    <3>2. f[p].rest \o x = SubSeq(c, p, Len(c))
      BY <1>2, <3>1
    <3>3. pump(SubSeq(c, p, Len(c))) = h[p]
      BY <1>1, <1>4, <2>1, PumpOfSuffix
    <3>4. PumpedOn(f[p], x) = [rest |-> h[p].rest, got |-> <<>> \o h[p].got]
      BY <3>1, <3>2, <3>3 DEF PumpedOn
    <3>5. h[p] = [rest |-> h[p].rest, got |-> h[p].got] /\ h[p].got \in Seq(X)
      BY <2>4 DEF Results
    <3>6. <<>> \o h[p].got = h[p].got
      BY <3>5
    <3> QED BY <3>2, <3>3, <3>4, <3>5, <3>6
  <2>6. CASE ~Stops(a, p)
    <3>1. p \in 1..n /\ p + Step(a, p).take \in (p + 1)..(n + 1) /\ Step(a, p).take # 0
      BY <2>1, <2>6, NextPosition DEF n, Stops
    <3>2. Step(c, p) = Step(a, p)
      BY <1>3, <3>1
    <3> DEFINE q == p + Step(a, p).take
               s == Step(a, p).got
    <3>3. q \in good /\ q \in 1..(n + 1) /\ q \in 1..(Len(a) + 1) /\ q \in 1..(Len(c) + 1)
      <4>1. q \in good /\ q \in 1..(n + 1)
        BY <1>5, <3>1
      <4> QED BY <1>1, <4>1 DEF n
    <3>4. ~Stops(c, p)
      BY <1>1, <3>1, <3>2 DEF Stops
    <3>5. f[p] = Takes(a, p, f[q]) /\ h[p] = Takes(c, p, h[q])
      BY <2>2, <2>3, <2>6, <3>2, <3>4
    <3>6. h[q] = PumpedOn(f[q], x)
      BY <3>3
    <3>7. f[q].got \in Seq(X) /\ f[q].rest \in Cells /\ h[q] \in Results(X)
      BY <1>4, <3>3 DEF IsRun, Results
    <3>8. s \in Seq(X)
      BY <1>4, <3>1 DEF Gives, n
    <3> DEFINE g == pump(f[q].rest \o x)
    <3>9. g.got \in Seq(X)
      BY <3>3
    <3> HIDE DEF q, s, g
    <3>10. f[p] = [rest |-> f[q].rest, got |-> s \o f[q].got]
      BY <3>5 DEF Takes, s
    <3>11. h[p] = [rest |-> h[q].rest, got |-> s \o h[q].got]
      BY <3>2, <3>5 DEF Takes, s
    <3>12. h[q] = [rest |-> g.rest, got |-> f[q].got \o g.got]
      BY <3>6 DEF PumpedOn, g
    <3>13. s \o (f[q].got \o g.got) = (s \o f[q].got) \o g.got
      <4> DEFINE t == f[q].got
                 u == g.got
      <4>1. s \in Seq(X) /\ t \in Seq(X) /\ u \in Seq(X)
        BY <3>7, <3>8, <3>9
      <4> HIDE DEF t, u
      <4>2. (s \o t) \o u = s \o (t \o u)
        BY <4>1, ConcatAssociative, SMTT(40)
      <4> QED BY <4>2 DEF t, u
    <3>14. PumpedOn(f[p], x) = [rest |-> g.rest, got |-> (s \o f[q].got) \o g.got]
      BY <3>10 DEF PumpedOn, g
    <3>15. h[p] = [rest |-> g.rest, got |-> s \o (f[q].got \o g.got)]
      BY <3>11, <3>12
    <3>16. f[p].rest = f[q].rest
      BY <3>10
    <3> QED BY <3>9, <3>13, <3>14, <3>15, <3>16 DEF g
  <2> QED BY <2>5, <2>6
<1>6. \A p \in 1..(n + 1) : p \in good
  <2>1. n + 1 \in Nat /\ 1 <= n + 1
    BY <1>1
  <2> HIDE DEF good
  <2> QED BY <1>5, <2>1, CountDown
<1>7. 1 \in 1..(n + 1)
  BY <1>1
<1> QED BY <1>6, <1>7

(* The deliveries of a pump of a chunk and of a second pump, of what the   *)
(* first one kept with the next chunk behind it, are those of one pump of  *)
(* both, and so is what is kept: DiagSerialDemux::feed may be called with  *)
(* any pieces of any stream.                                               *)
THEOREM PumpInPieces ==
  ASSUME NEW a \in Seq(Nat), NEW x \in Seq(Nat)
  PROVE  LET first == pump(a)
             second == pump(first.rest \o x)
         IN  pump(a \o x) = [rest |-> second.rest, got |-> first.got \o second.got]
<1> DEFINE c == a \o x
           X == {Step(c, p).got[1] : p \in 1..Len(c)}
<1>1. a \in Cells /\ x \in Cells
  BY DEF Cells
<1>2. c \in Cells
  BY <1>1, Concat
<1>3. Gives(c, X)
  <2> SUFFICES ASSUME NEW p \in 1..Len(c) PROVE Step(c, p).got \in Seq(X)
    BY DEF Gives
  <2> HIDE DEF c
  <2>1. CASE Step(c, p).got = <<>>
    BY <2>1
  <2>2. CASE Step(c, p).got # <<>>
    <3>1. PICK r : Step(c, p).got = <<r>>
      BY <1>2, <2>2, StepBounds
    <3>2. r \in X
      <4>1. Step(c, p).got[1] = r
        BY <3>1
      <4> QED BY <4>1
    <3> HIDE DEF X
    <3> QED BY <3>1, <3>2
  <2> QED BY <2>1, <2>2
<1> HIDE DEF X
<1>4. Gives(a \o x, X) /\ Gives(a, X)
  BY <1>1, <1>3, PrefixGives
<1>5. PICK f : IsRun(f, a, X) /\ pump(a) = f[1]
  BY <1>1, <1>4, PumpRuns
<1>6. PICK h : IsRun(h, a \o x, X) /\ pump(a \o x) = h[1]
  BY <1>2, <1>4, PumpRuns
<1>7. h[1] = PumpedOn(f[1], x)
  BY <1>1, <1>4, <1>5, <1>6, RunGoesOn
<1> QED BY <1>5, <1>6, <1>7 DEF PumpedOn

-----------------------------------------------------------------------------
(* The stream.                                                             *)

(* Sequences of cells one behind the other are a sequence of cells.        *)
LEMMA FlatCells ==
  ASSUME NEW n \in Nat \ {0}, NEW seqs \in [1..n -> Cells]
  PROVE  FlattenSeq(seqs) \in Cells
<1> DEFINE Eq(f) == f = [i \in 1..n |-> IF i = 1 THEN seqs[i] ELSE f[i - 1] \o seqs[i]]
           flatten == CHOOSE f : Eq(f)
           Ok(m) == \E f \in [1..m -> Cells] :
                      \A i \in 1..m : f[i] = IF i = 1 THEN seqs[i] ELSE f[i - 1] \o seqs[i]
           good == {m \in 0..n : Ok(m)}
<1>1. Len(seqs) = n /\ n # 0 /\ n \in Nat
  OBVIOUS
<1>2. FlattenSeq(seqs) = flatten[n]
  BY <1>1 DEF FlattenSeq
<1>3. 0 \in good
  <2>1. 1..0 = {} /\ 0 \in 0..n
    OBVIOUS
  <2>2. [i \in 1..0 |-> <<>>] \in [1..0 -> Cells]
    BY <2>1
  <2> QED BY <2>1, <2>2
<1>4. ASSUME NEW m \in 1..n, m - 1 \in good PROVE m \in good
  <2>1. PICK f \in [1..(m - 1) -> Cells] :
          \A i \in 1..(m - 1) : f[i] = IF i = 1 THEN seqs[i] ELSE f[i - 1] \o seqs[i]
    BY <1>4
  <2> DEFINE last == IF m = 1 THEN seqs[m] ELSE f[m - 1] \o seqs[m]
             g == [i \in 1..m |-> IF i = m THEN last ELSE f[i]]
  <2>2. last \in Cells
    <3>1. CASE m = 1
      BY <3>1
    <3>2. CASE m # 1
      <4>1. m - 1 \in 1..(m - 1)
        BY <3>2
      <4>2. f[m - 1] \in Cells /\ seqs[m] \in Cells
        BY <4>1
      <4>3. f[m - 1] \o seqs[m] \in Cells
        BY <4>2, Concat
      <4> QED BY <3>2, <4>3
    <3> QED BY <3>1, <3>2
  <2>3. g \in [1..m -> Cells]
    <3> HIDE DEF last
    <3>1. \A i \in 1..m : i # m => i \in 1..(m - 1)
      OBVIOUS
    <3> QED BY <2>2, <3>1
  <2>4. g[m] = last /\ \A i \in 1..(m - 1) : g[i] = f[i]
    OBVIOUS
  <2> HIDE DEF g
  <2>5. \A i \in 1..m : g[i] = IF i = 1 THEN seqs[i] ELSE g[i - 1] \o seqs[i]
    <3> TAKE i \in 1..m
    <3>1. CASE i = m
      <4>1. m # 1 => m - 1 \in 1..(m - 1)
        OBVIOUS
      <4> QED BY <2>4, <3>1, <4>1
    <3>2. CASE i # m
      <4>1. i \in 1..(m - 1) /\ (i # 1 => i - 1 \in 1..(m - 1))
        BY <3>2
      <4> QED BY <2>1, <2>4, <4>1
    <3> QED BY <3>1, <3>2
  <2>6. m \in 0..n
    OBVIOUS
  <2> QED BY <2>3, <2>5, <2>6
<1>5. n \in good
  <2> HIDE DEF good
  <2>1. \A m \in 0..n : m \in good
    BY <1>1, <1>3, <1>4, CountUp
  <2> QED BY <1>1, <2>1
<1>6. PICK f \in [1..n -> Cells] :
        \A i \in 1..n : f[i] = IF i = 1 THEN seqs[i] ELSE f[i - 1] \o seqs[i]
  BY <1>5
<1>7. Eq(f)
  BY <1>6
<1>8. Eq(flatten)
  <2> HIDE DEF Eq
  <2> QED BY <1>7
<1>9. \A i \in 1..n : flatten[i] = IF i = 1 THEN seqs[i] ELSE flatten[i - 1] \o seqs[i]
  <2> HIDE DEF flatten
  <2> QED BY <1>8
<1> HIDE DEF Eq, flatten, good, Ok
<1> DEFINE typed == {i \in 0..n : i = 0 \/ flatten[i] \in Cells}
<1>10. 0 \in typed
  BY <1>1
<1>11. ASSUME NEW i \in 1..n, i - 1 \in typed PROVE i \in typed
  <2>1. CASE i = 1
    BY <1>9, <2>1
  <2>2. CASE i # 1
    <3>1. flatten[i - 1] \in Cells /\ seqs[i] \in Cells
      BY <1>11, <2>2
    <3>2. flatten[i] = flatten[i - 1] \o seqs[i]
      BY <1>9, <2>2
    <3>3. flatten[i] \in Cells
      BY <3>1, <3>2, Concat
    <3> QED BY <3>3
  <2> QED BY <2>1, <2>2
<1>12. n \in typed
  <2> HIDE DEF typed
  <2>1. \A i \in 0..n : i \in typed
    BY <1>1, <1>10, <1>11, CountUp
  <2> QED BY <1>1, <2>1
<1> QED BY <1>1, <1>2, <1>12

DemuxInv ==
  /\ Wire(stream) \in Cells
  /\ fed \in 0..Len(Wire(stream))
  /\ ChunkInsensitive

LEMMA DemuxInit == Init => DemuxInv
<1> SUFFICES ASSUME Init PROVE DemuxInv
  OBVIOUS
<1>1. PICK n \in 1..MaxMessages : stream \in [1..n -> Messages]
  BY DEF Init
<1>2. Wire(stream) \in Cells
  <2> DEFINE seqs == [i \in DOMAIN stream |-> stream[i].cells]
  <2>1. n \in Nat \ {0}
    BY DemuxAssumption
  <2>2. seqs \in [1..n -> Cells]
    BY <1>1, DemuxAssumption DEF Cells
  <2> HIDE DEF seqs
  <2>3. FlattenSeq(seqs) \in Cells
    BY <2>1, <2>2, FlatCells
  <2> QED BY <2>3 DEF Wire, seqs
<1> DEFINE w == Wire(stream)
<1>3. fed = 0 /\ m_buf = <<>> /\ out = <<>> /\ Len(w) \in Nat
  BY <1>2 DEF Init, Cells
<1>4. SubSeq(w, 1, fed) = <<>>
  BY <1>3, SubSeqEmpty
<1>5. pump(<<>>) = [rest |-> <<>>, got |-> <<>>]
  <2> DEFINE b == SubSeq(<<>>, 1, 0)
  <2>1. <<>> \in Cells /\ Len(<<>>) = 0 /\ Gives(<<>>, {})
    BY DEF Cells, Gives
  <2>2. PICK f : IsRun(f, <<>>, {}) /\ pump(<<>>) = f[1]
    BY <2>1, PumpRuns
  <2>3. 1 \in 1..(Len(<<>>) + 1) /\ Stops(<<>>, 1)
    BY <2>1 DEF Stops
  <2>4. f[1] = Ends(<<>>, 1)
    BY <2>2, <2>3 DEF IsRun
  <2>5. SubSeq(<<>>, 1, Len(<<>>)) = <<>>
    BY <2>1, SubSeqEmpty
  <2> QED BY <2>2, <2>4, <2>5 DEF Ends
<1>6. ChunkInsensitive
  <2>1. pump(SubSeq(w, 1, fed)) = [rest |-> <<>>, got |-> <<>>]
    BY <1>4, <1>5
  <2> QED BY <1>3, <2>1 DEF ChunkInsensitive
<1> QED BY <1>2, <1>3, <1>6 DEF DemuxInv

LEMMA DemuxStep == DemuxInv /\ [Next]_vars => DemuxInv'
<1> SUFFICES ASSUME DemuxInv, [Next]_vars PROVE DemuxInv'
  OBVIOUS
<1> DEFINE w == Wire(stream)
<1>1. CASE UNCHANGED vars
  <2>1. stream' = stream /\ fed' = fed /\ m_buf' = m_buf /\ out' = out
    BY <1>1 DEF vars
  <2>2. Wire(stream)' = Wire(stream)
    BY <2>1 DEF Wire
  <2> QED BY <2>1, <2>2 DEF DemuxInv, ChunkInsensitive
<1>2. CASE feed
  <2> DEFINE p(n) == pump(m_buf \o SubSeq(w, fed + 1, n))
  <2>1. PICK n \in (fed + 1)..Len(w) :
          fed' = n /\ m_buf' = p(n).rest /\ out' = out \o p(n).got /\ stream' = stream
    BY <1>2 DEF feed
  <2>2. Wire(stream)' = w
    BY <2>1 DEF Wire
  <2>3. w \in Cells /\ fed \in 0..Len(w) /\ Len(w) \in Nat
    BY DEF DemuxInv, Cells
  <2> HIDE DEF w
  <2> DEFINE a == SubSeq(w, 1, fed)
             x == SubSeq(w, fed + 1, n)
  <2>4. 1 \in 1..(Len(w) + 1) /\ fed \in (1 - 1)..Len(w) /\ n \in (1 - 1)..Len(w)
    BY <2>3
  <2>5. /\ a \in Cells /\ Len(a) = fed /\ \A i \in 1..fed : a[i] = w[i]
    <3>1. /\ a \in Cells /\ Len(a) = fed - 1 + 1 /\ \A i \in 1..(fed - 1 + 1) : a[i] = w[1 + i - 1]
      BY <2>3, <2>4, SubSeqCells
    <3>2. fed - 1 + 1 = fed /\ \A i \in 1..fed : 1 + i - 1 = i
      BY <2>3
    <3> HIDE DEF a
    <3> QED BY <3>1, <3>2
  <2>6. /\ x \in Cells /\ Len(x) = n - fed /\ \A i \in 1..(n - fed) : x[i] = w[fed + i]
    <3>1. fed + 1 \in 1..(Len(w) + 1) /\ n \in ((fed + 1) - 1)..Len(w)
      BY <2>3
    <3>2. /\ x \in Cells /\ Len(x) = n - (fed + 1) + 1
          /\ \A i \in 1..(n - (fed + 1) + 1) : x[i] = w[(fed + 1) + i - 1]
      BY <2>3, <3>1, SubSeqCells
    <3>3. n - (fed + 1) + 1 = n - fed /\ \A i \in 1..(n - fed) : (fed + 1) + i - 1 = fed + i
      BY <2>3
    <3> HIDE DEF x
    <3> QED BY <3>2, <3>3
  <2>7. /\ SubSeq(w, 1, n) \in Cells /\ Len(SubSeq(w, 1, n)) = n
        /\ \A i \in 1..n : SubSeq(w, 1, n)[i] = w[i]
    <3> DEFINE t == SubSeq(w, 1, n)
    <3>1. /\ t \in Cells /\ Len(t) = n - 1 + 1 /\ \A i \in 1..(n - 1 + 1) : t[i] = w[1 + i - 1]
      BY <2>3, <2>4, SubSeqCells
    <3>2. n - 1 + 1 = n /\ \A i \in 1..n : 1 + i - 1 = i
      BY <2>3
    <3> HIDE DEF t
    <3>3. t \in Cells /\ Len(t) = n /\ \A i \in 1..n : t[i] = w[i]
      BY <3>1, <3>2
    <3> QED BY <3>3 DEF t
  <2> HIDE DEF a, x
  <2>8. /\ a \o x \in Cells /\ Len(a \o x) = fed + (n - fed)
        /\ \A i \in 1..fed : (a \o x)[i] = a[i]
        /\ \A i \in 1..(n - fed) : (a \o x)[fed + i] = x[i]
    <3>1. /\ a \o x \in Cells /\ Len(a \o x) = Len(a) + Len(x)
          /\ \A i \in 1..Len(a) : (a \o x)[i] = a[i]
          /\ \A i \in 1..Len(x) : (a \o x)[Len(a) + i] = x[i]
      BY <2>5, <2>6, Concat
    <3> QED BY <2>5, <2>6, <3>1, Zenon
  <2>9. SubSeq(w, 1, n) = a \o x
    <3>1. Len(a \o x) = n
      BY <2>3, <2>8
    <3>2. ASSUME NEW i \in 1..n PROVE (a \o x)[i] = w[i]
      <4>1. CASE i \in 1..fed
        BY <2>5, <2>8, <4>1
      <4>2. CASE i \notin 1..fed
        <5> DEFINE j == i - fed
        <5>1. j \in 1..(n - fed) /\ i = fed + j
          BY <2>3, <4>2
        <5> HIDE DEF j
        <5> QED BY <2>6, <2>8, <5>1
      <4> QED BY <4>1, <4>2
    <3> HIDE DEF Cells
    <3> QED BY <2>7, <2>8, <3>1, <3>2, SameCells
  <2>10. out = pump(a).got /\ m_buf = pump(a).rest
    BY DEF DemuxInv, ChunkInsensitive, a, w
  <2>11. pump(a \o x) = [rest |-> pump(m_buf \o x).rest, got |-> out \o pump(m_buf \o x).got]
    BY <2>5, <2>6, <2>10, PumpInPieces DEF Cells
  <2>12. p(n) = pump(m_buf \o x)
    BY DEF x
  <2>13. ChunkInsensitive'
    <3> DEFINE q == pump(SubSeq(w, 1, n))
    <3>1. q = [rest |-> m_buf', got |-> out']
      BY <2>1, <2>9, <2>11, <2>12
    <3> HIDE DEF q
    <3>2. out' = q.got /\ m_buf' = q.rest
      BY <3>1
    <3> QED BY <2>1, <2>2, <3>2 DEF ChunkInsensitive, q
  <2>14. fed' \in 0..Len(w)
    BY <2>1, <2>3
  <2> QED BY <2>2, <2>3, <2>13, <2>14 DEF DemuxInv
<1> QED BY <1>1, <1>2 DEF Next

(* Whatever the modem sends and however the reads of the tty cut it, what  *)
(* DiagSerialDemux has delivered and what it keeps is what a single feed   *)
(* of all of it would have left.                                           *)
THEOREM ChunksDoNotMatter == Spec => []ChunkInsensitive
<1>1. DemuxInv => ChunkInsensitive
  BY DEF DemuxInv
<1> QED BY <1>1, DemuxInit, DemuxStep, PTL DEF Spec

=============================================================================
