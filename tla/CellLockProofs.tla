---------------------------- MODULE CellLockProofs ----------------------------
(***************************************************************************)
(* Proofs about CellLock, for any cells and any number of commands of the  *)
(* other thread: a held cell is locked as long as the modem is never more  *)
(* than five commands behind when the hop thread asks.                     *)
(*                                                                         *)
(* A line that names the locked cell can be old: its query waited in the   *)
(* modem while the commands of an unlock went out behind it.  Between such *)
(* a query and the next question of the hop thread lie at least five other *)
(* commands, the three of unlock_lte and the first two of lock_lte.  So a  *)
(* question asked with at most five commands pending is not answered by an *)
(* old query whose lock a pending command is still going to take away.     *)
(***************************************************************************)
EXTENDS CellLock, SequenceTheorems, TLAPS

Backlog == 5

(* The two locks, and the commands that ask for, set and clear each.       *)
Locks == {"cfg", "cle"}
Ask == [cfg |-> "CCELLCFG?", cle |-> "CLECELL?"]
Set == [cfg |-> "CCELLCFG=1", cle |-> "CLECELL="]
Clear == [cfg |-> "CCELLCFG=0", cle |-> "CLECELL"]

SomeCell == Cells \cup {NoCell}
Items == Command \cup {Ate0} \cup {RestOf(c) : c \in Command}
Lines == [kind : {"OK", "ERROR"} \cup Locks, cell : SomeCell]

(* A pending command is safe for a lock on c if it leaves it on c.         *)
Safe(x, w, c) == x.op # Clear[w] /\ (x.op = Set[w] => x.cell = c)
SafeFrom(s, i, w, c) == \A j \in DOMAIN s : j >= i => Safe(s[j], w, c)

(* Every pending query has n commands behind it, or only safe ones.        *)
Far(s, w, n) == \A i \in DOMAIN s : s[i].op = Ask[w] => Len(s) - i >= n
FarOrSafe(s, w, n, c) ==
  \A i \in DOMAIN s : s[i].op = Ask[w] => Len(s) - i >= n \/ SafeFrom(s, i, w, c)
OnlySafe(s, w, c) == \A i \in DOMAIN s : s[i].op = Ask[w] => SafeFrom(s, i, w, c)

(* The lock is on the hop's cell and no pending command changes that.      *)
Kept(w) == locks[w] = hop.cell /\ SafeFrom(todo, 1, w, hop.cell)

-----------------------------------------------------------------------------
HopTalks == call.pc # "idle" /\ call.who = "hop"

(* The points of the unlock and of the lock up to its first question, with *)
(* the commands that went out since the last question; those from there on *)
(* and those that wait for an answer about a lock.                         *)
Gap == [unlock_cfg |-> 0, unlock_cle |-> 1, unlock_earfcn |-> 2, idle |-> 3,
        clearfcn |-> 3, ccellcfg |-> 4]
GapPcs == {"unlock_cfg", "unlock_cle", "unlock_earfcn", "idle", "clearfcn", "ccellcfg"}
AskingPcs == {"ccellcfg_q", "clecell", "clecell_q", "cops", "held_cfg", "held_cle"}
Asked == [ccellcfg_q |-> "cfg", clecell_q |-> "cle", held_cfg |-> "cfg", held_cle |-> "cle"]
AskedPcs == {"ccellcfg_q", "clecell_q", "held_cfg", "held_cle"}

TypeOK ==
  /\ todo \in Seq(Items) /\ inbuf \in Seq(Lines) /\ open \in BOOLEAN
  /\ call \in [pc : {"idle", "echo", "wait", "done"}, who : {"hop", "other", Nobody},
               cmd : Command \cup {Ate0}, attempt : Nat, out : Seq(Lines)]
  /\ timeouts \in 0..MaxTimeouts /\ user_stop \in BOOLEAN
  /\ locks \in [Locks -> SomeCell]
  /\ hop \in [pc : HopPcs, cell : SomeCell, ok : BOOLEAN]
  /\ others \in Nat

(* Who holds the bus, and with which command.                              *)
Calling ==
  /\ HopTalks => hop.pc \in DOMAIN OpAt /\ call.cmd = CommandAt(hop.pc)
  /\ call.pc # "idle" /\ ~HopTalks => call.cmd.op = "CPSI?"
  /\ call.pc = "echo" => call.out = <<>>
  /\ hop.pc \in {"clearfcn", "ccellcfg", "held", "failed"} \cup AskingPcs => hop.cell \in Cells

Apart ==
  \A w \in Locks :
    /\ hop.pc \in GapPcs => Far(todo, w, IF HopTalks THEN Gap[hop.pc] + 1 ELSE Gap[hop.pc])
    /\ hop.pc \in AskingPcs => FarOrSafe(todo, w, Backlog, hop.cell)

(* What was or will be read as the answer to the question asked.           *)
Truthful(lines, w) ==
  (\E i \in DOMAIN lines : lines[i].kind = w /\ lines[i].cell = hop.cell) => Kept(w)
Asks(w) == HopTalks /\ hop.pc \in AskedPcs /\ Asked[hop.pc] = w
Answers ==
  \A w \in Locks : Asks(w) =>
    /\ ~user_stop => OnlySafe(todo, w, hop.cell) /\ Truthful(inbuf, w)
    /\ Truthful(call.out, w)

Holding ==
  hop.pc = "held" \/ (hop.ok /\ hop.pc \in {"clecell", "clecell_q", "cops"})
    => \E w \in Locks : Kept(w)

LockInv == TypeOK /\ Calling /\ Apart /\ Answers /\ Holding

(* The modem is at most so far behind when a transaction begins.           *)
KeepsUp == call.pc = "idle" /\ ~user_stop => Len(todo) <= Backlog

(* Why: each pending command but the one just sent had its wait expire.    *)
Owes == IF call.pc \in {"echo", "wait"} /\ ~at_has_final_result(call.out \o inbuf) THEN 1 ELSE 0
Counted == ~user_stop => Len(todo) <= timeouts + Owes

-----------------------------------------------------------------------------
(* The commands of the hop thread.                                         *)

LEMMA OpDomain ==
  DOMAIN OpAt = {"clearfcn", "ccellcfg", "ccellcfg_q", "clecell", "clecell_q", "cops",
                 "held_cfg", "held_cle", "unlock_cfg", "unlock_cle", "unlock_earfcn",
                 "restore_cfg", "restore_cle", "restore_rest"}
BY DEF OpAt

LEMMA CommandTypes ==
  ASSUME TypeOK, NEW pc \in DOMAIN OpAt
  PROVE  CommandAt(pc) \in Command
<1>1. hop.cell \in SomeCell
  BY DEF TypeOK
<1> QED BY <1>1 DEF CommandAt, Command, SomeCell

(* What is written at each point: questions where an answer is due, and    *)
(* nothing that would take the lock off the hop's cell before the unlock.  *)
LEMMA CommandsAreSafe ==
  ASSUME NEW pc \in DOMAIN OpAt, NEW w \in Locks
  PROVE  /\ pc \in AskingPcs => Safe(CommandAt(pc), w, hop.cell)
         /\ pc \in GapPcs => CommandAt(pc).op # Ask[w]
         /\ pc \in {"clearfcn", "ccellcfg"} => Safe(CommandAt(pc), w, hop.cell)
         /\ pc \in AskedPcs /\ w # Asked[pc] => CommandAt(pc).op # Ask[w]
BY OpDomain DEF CommandAt, OpAt, Safe, Ask, Set, Clear, Locks, AskingPcs, AskedPcs, Asked, GapPcs

(* The other commands that are pending concern no lock.                    *)
LEMMA OthersAreSafe ==
  ASSUME NEW x, x.op \in {"ATE0", "CPSI?", "rest"}, NEW w \in Locks, NEW c
  PROVE  Safe(x, w, c) /\ x.op # Ask[w]
BY DEF Safe, Ask, Set, Clear, Locks

-----------------------------------------------------------------------------
(* The queue of pending commands.                                          *)

LEMMA AppendKeeps ==
  ASSUME NEW s \in Seq(Items), NEW x \in Items, NEW w \in Locks, NEW n \in Nat, NEW c
  PROVE  LET t == Append(s, x)
         IN  /\ Far(s, w, n) /\ x.op # Ask[w] => Far(t, w, n + 1) /\ Far(t, w, n)
             /\ FarOrSafe(s, w, n, c) /\ Safe(x, w, c) => FarOrSafe(t, w, n, c)
             /\ OnlySafe(s, w, c) /\ Safe(x, w, c) => OnlySafe(t, w, c)
             /\ SafeFrom(s, 1, w, c) /\ Safe(x, w, c) => SafeFrom(t, 1, w, c)
<1> DEFINE t == Append(s, x)
<1>1. /\ t \in Seq(Items) /\ Len(t) = Len(s) + 1 /\ Len(s) \in Nat
      /\ DOMAIN s = 1..Len(s) /\ DOMAIN t = 1..(Len(s) + 1)
      /\ \A i \in 1..Len(s) : t[i] = s[i]
      /\ t[Len(s) + 1] = x
  BY AppendProperties, LenProperties
<1> HIDE DEF t
<1>2. Far(s, w, n) /\ x.op # Ask[w] => Far(t, w, n + 1) /\ Far(t, w, n)
  BY <1>1, SMTT(40) DEF Far
<1>3. ASSUME NEW i \in DOMAIN s, SafeFrom(s, i, w, c), Safe(x, w, c)
      PROVE  SafeFrom(t, i, w, c)
  BY <1>1, <1>3 DEF SafeFrom
<1>4. Safe(x, w, c) => SafeFrom(t, Len(s) + 1, w, c)
  BY <1>1 DEF SafeFrom
<1>5. FarOrSafe(s, w, n, c) /\ Safe(x, w, c) => FarOrSafe(t, w, n, c)
  BY <1>1, <1>3, <1>4 DEF FarOrSafe
<1>6. OnlySafe(s, w, c) /\ Safe(x, w, c) => OnlySafe(t, w, c)
  BY <1>1, <1>3, <1>4 DEF OnlySafe
<1>7. SafeFrom(s, 1, w, c) /\ Safe(x, w, c) => SafeFrom(t, 1, w, c)
  BY <1>1 DEF SafeFrom
<1> QED BY <1>2, <1>5, <1>6, <1>7 DEF t

(* The modem takes the oldest command, or puts the rest of its answer in   *)
(* its place.                                                              *)
Served(s, t) ==
  \E k \in {0, 1} :
    /\ Len(t) = Len(s) - k
    /\ \A j \in 1..Len(t) : t[j] = s[j + k] \/ t[j].op = "rest"

LEMMA ServedKeeps ==
  ASSUME NEW s \in Seq(Items), NEW t \in Seq(Items), Served(s, t),
         NEW w \in Locks, NEW n \in Nat, NEW c
  PROVE  /\ Far(s, w, n) => Far(t, w, n)
         /\ FarOrSafe(s, w, n, c) => FarOrSafe(t, w, n, c)
         /\ OnlySafe(s, w, c) => OnlySafe(t, w, c)
         /\ SafeFrom(s, 1, w, c) => SafeFrom(t, 1, w, c)
<1>1. PICK k \in {0, 1} :
        /\ Len(t) = Len(s) - k
        /\ \A j \in 1..Len(t) : t[j] = s[j + k] \/ t[j].op = "rest"
  BY DEF Served
<1> k \in Nat
  OBVIOUS
<1>2. /\ DOMAIN s = 1..Len(s) /\ DOMAIN t = 1..Len(t) /\ Len(s) \in Nat /\ Len(t) \in Nat
  BY LenProperties
<1>3. \A j \in 1..Len(t) : t[j].op = Ask[w] => t[j] = s[j + k] /\ j + k \in 1..Len(s)
  <2> SUFFICES ASSUME NEW j \in 1..Len(t), t[j].op = Ask[w]
               PROVE  t[j] = s[j + k] /\ j + k \in 1..Len(s)
    OBVIOUS
  <2>1. t[j].op # "rest"
    BY DEF Ask, Locks
  <2> QED BY <1>1, <1>2, <2>1
<1>4. ASSUME NEW i \in 1..Len(t), SafeFrom(s, i + k, w, c) PROVE SafeFrom(t, i, w, c)
  <2> SUFFICES ASSUME NEW j \in 1..Len(t), j >= i PROVE Safe(t[j], w, c)
    BY <1>2 DEF SafeFrom
  <2>1. CASE t[j] = s[j + k]
    BY <1>1, <1>2, <1>4, <2>1 DEF SafeFrom
  <2> QED BY <1>1, <2>1, OthersAreSafe, SMTT(40)
<1>5. \A i \in 1..Len(t) : Len(t) - i = Len(s) - (i + k)
  BY <1>1, <1>2
<1>6. Far(s, w, n) => Far(t, w, n)
  <2> SUFFICES ASSUME Far(s, w, n), NEW i \in 1..Len(t), t[i].op = Ask[w]
               PROVE  Len(t) - i >= n
    BY <1>2 DEF Far
  <2>1. s[i + k].op = Ask[w] /\ i + k \in 1..Len(s)
    BY <1>3, SMTT(40)
  <2> QED BY <1>2, <1>5, <2>1 DEF Far
<1>7. FarOrSafe(s, w, n, c) => FarOrSafe(t, w, n, c)
  <2> SUFFICES ASSUME FarOrSafe(s, w, n, c), NEW i \in 1..Len(t), t[i].op = Ask[w]
               PROVE  Len(t) - i >= n \/ SafeFrom(t, i, w, c)
    BY <1>2 DEF FarOrSafe
  <2>1. s[i + k].op = Ask[w] /\ i + k \in 1..Len(s)
    BY <1>3
  <2> QED BY <1>2, <1>4, <1>5, <2>1 DEF FarOrSafe
<1>8. OnlySafe(s, w, c) => OnlySafe(t, w, c)
  <2> SUFFICES ASSUME OnlySafe(s, w, c), NEW i \in 1..Len(t), t[i].op = Ask[w]
               PROVE  SafeFrom(t, i, w, c)
    BY <1>2 DEF OnlySafe
  <2>1. s[i + k].op = Ask[w] /\ i + k \in 1..Len(s)
    BY <1>3
  <2> QED BY <1>2, <1>4, <2>1 DEF OnlySafe
<1>9. SafeFrom(s, 1, w, c) => SafeFrom(t, 1, w, c)
  <2> SUFFICES ASSUME SafeFrom(s, 1, w, c), NEW j \in 1..Len(t) PROVE Safe(t[j], w, c)
    BY <1>2 DEF SafeFrom
  <2>1. CASE t[j] = s[j + k]
    BY <1>1, <1>2, <2>1 DEF SafeFrom
  <2> QED BY <1>1, <2>1, OthersAreSafe
<1> QED BY <1>6, <1>7, <1>8, <1>9

-----------------------------------------------------------------------------
(* Types.                                                                  *)

LEMMA LinesType ==
  /\ Done \in Seq(Lines) /\ Refused \in Seq(Lines)
  /\ \A w \in Locks : TypeOK => <<Line(w, locks[w])>> \in Seq(Lines)
<1>1. Line("OK", NoCell) \in Lines /\ Line("ERROR", NoCell) \in Lines
  BY DEF Line, Lines, SomeCell
<1>2. \A w \in Locks : TypeOK => Line(w, locks[w]) \in Lines
  BY DEF TypeOK, Line, Lines
<1>3. \A l \in Lines : <<l>> \in Seq(Lines)
  OBVIOUS
<1> HIDE DEF Line
<1> QED BY <1>1, <1>2, <1>3 DEF Done, Refused

(* What a step of the modem does: it answers the oldest command, a query   *)
(* with the lock it asks for, and only a set or a clear moves that lock.   *)
Receives(lines) == inbuf' = IF open THEN inbuf \o lines ELSE inbuf
FinalAnswer(lines) ==
  /\ lines \in Seq(Lines) /\ at_has_final_result(lines)
  /\ \A i \in DOMAIN lines : lines[i].kind \notin Locks

Ends == (\E lines : FinalAnswer(lines) /\ Receives(lines)) /\ todo' = Tail(todo)
Tells(w) ==
  /\ Head(todo).op = Ask[w] /\ Receives(<<Line(w, locks[w])>>) /\ locks' = locks
  /\ todo' = <<RestOf(Head(todo))>> \o Tail(todo)

LEMMA FinalAnswers == FinalAnswer(Done) /\ FinalAnswer(Refused)
<1>1. FinalAnswer(Done)
  <2>1. Len(Done) = 1 /\ Done[1].kind = "OK" /\ DOMAIN Done = {1}
    BY DEF Done, Line
  <2> QED BY <2>1, LinesType DEF FinalAnswer, at_has_final_result, Has, Locks
<1>2. FinalAnswer(Refused)
  <2>1. Len(Refused) = 1 /\ Refused[1].kind = "ERROR" /\ DOMAIN Refused = {1}
    BY DEF Refused, Line
  <2> QED BY <2>1, LinesType DEF FinalAnswer, at_has_final_result, Has, Locks
<1> QED BY <1>1, <1>2

LEMMA QueueType ==
  ASSUME TypeOK, todo # <<>>
  PROVE  /\ Len(todo) \in Nat /\ Len(todo) >= 1 /\ Head(todo) \in Items /\ Head(todo) = todo[1]
         /\ Tail(todo) \in Seq(Items) /\ Len(Tail(todo)) = Len(todo) - 1
         /\ \A j \in 1..Len(Tail(todo)) : Tail(todo)[j] = todo[j + 1]
BY HeadTailProperties, LenProperties, EmptySeq DEF TypeOK

LEMMA ExecuteCases ==
  ASSUME TypeOK, Execute
  PROVE  /\ todo # <<>> /\ UNCHANGED <<hop, others, open, call, timeouts, user_stop>>
         /\ Ends \/ \E w \in Locks : Tells(w)
<1> DEFINE cmd == Head(todo)
           Frame == UNCHANGED <<open, call, timeouts, user_stop>>
<1>1. todo # <<>> /\ UNCHANGED <<hop, others>>
  BY DEF Execute
<1>2. \A lines : Answer(lines, <<>>) => todo' = Tail(todo) /\ Receives(lines) /\ Frame
  BY <1>1, QueueType, ConcatEmptySeq DEF Answer, Receives
<1>3. ASSUME NEW w \in Locks, Tell(w, cmd), cmd.op = Ask[w] PROVE Tells(w) /\ Frame
  BY <1>3 DEF Tell, Tells, Answer, Receives
<1>4. ASSUME NEW w \in Locks, SetLock(w, cmd) \/ ClearLock(w, cmd) PROVE Ends /\ Frame
  <2>1. Answer(Done, <<>>) \/ Answer(Refused, <<>>)
    BY <1>4 DEF SetLock, ClearLock
  <2> QED BY <1>2, <2>1, FinalAnswers DEF Ends
<1>5. CASE UNCHANGED locks /\ Answer(Done, <<>>)
  BY <1>1, <1>2, <1>5, FinalAnswers DEF Ends
<1>6. \/ SetLock("cfg", cmd) \/ SetLock("cle", cmd)
      \/ ClearLock("cfg", cmd) \/ ClearLock("cle", cmd)
      \/ (Tell("cfg", cmd) /\ cmd.op = "CCELLCFG?") \/ (Tell("cle", cmd) /\ cmd.op = "CLECELL?")
      \/ (UNCHANGED locks /\ Answer(Done, <<>>))
  BY Zenon DEF Execute
<1> HIDE DEF cmd
<1>7. Ask["cfg"] = "CCELLCFG?" /\ Ask["cle"] = "CLECELL?" /\ "cfg" \in Locks /\ "cle" \in Locks
  BY DEF Ask, Locks
<1>8. (Ends \/ \E w \in Locks : Tells(w)) /\ Frame
  BY <1>3, <1>4, <1>5, <1>6, <1>7
<1> QED BY <1>1, <1>8

LEMMA ExecuteServes ==
  ASSUME TypeOK, Execute
  PROVE  todo' \in Seq(Items) /\ Served(todo, todo')
<1>1. todo # <<>>
  BY DEF Execute
<1>2. CASE Ends
  BY <1>1, <1>2, QueueType DEF Ends, Served
<1>3. ASSUME NEW w \in Locks, Tells(w) PROVE todo' \in Seq(Items) /\ Served(todo, todo')
  <2> DEFINE r == RestOf(Head(todo))
  <2>1. Head(todo) \in Command
    <3>1. Head(todo) # Ate0 /\ \A c \in Command : Head(todo) # RestOf(c)
      BY <1>3 DEF Tells, Ask, Locks, Ate0, RestOf
    <3> QED BY <1>1, <3>1, QueueType DEF Items
  <2>2. r \in Items /\ r.op = "rest"
    BY <2>1 DEF Items, RestOf
  <2> HIDE DEF r
  <2>3. /\ <<r>> \in Seq(Items) /\ Len(<<r>>) = 1 /\ <<r>>[1] = r
    BY <2>2
  <2>4. /\ todo' \in Seq(Items) /\ Len(todo') = Len(todo)
        /\ \A j \in 1..Len(todo) : todo'[j] = IF j <= 1 THEN <<r>>[j] ELSE Tail(todo)[j - 1]
    <3>1. todo' = <<r>> \o Tail(todo)
      BY <1>3 DEF Tells, r
    <3> QED BY <1>1, <2>3, <3>1, QueueType, ConcatProperties
  <2>5. \A j \in 1..Len(todo') : todo'[j] = todo[j + 0] \/ todo'[j].op = "rest"
    BY <1>1, <2>2, <2>3, <2>4, QueueType
  <2> QED BY <2>4, <2>5, <1>1, QueueType DEF Served
<1> QED BY <1>2, <1>3, ExecuteCases

LEMMA ExecuteLocks ==
  ASSUME TypeOK, Execute
  PROVE  /\ locks' \in [Locks -> SomeCell]
         /\ \A w \in Locks : \A c : locks[w] = c /\ Safe(Head(todo), w, c) => locks'[w] = c
<1> DEFINE cmd == Head(todo)
           Good == /\ locks' \in [Locks -> SomeCell]
                   /\ \A v \in Locks : \A c : locks[v] = c /\ Safe(cmd, v, c) => locks'[v] = c
<1>1. locks \in [Locks -> SomeCell] /\ NoCell \in SomeCell
  BY DEF TypeOK, SomeCell
<1>2. cmd \in Items
  BY QueueType DEF Execute
<1>3. ASSUME NEW w \in Locks, cmd.op = Set[w], SetLock(w, cmd) PROVE Good
  <2>1. cmd \in Command
    <3>1. cmd # Ate0 /\ \A c \in Command : cmd # RestOf(c)
      BY <1>3 DEF Set, Locks, Ate0, RestOf
    <3> QED BY <1>2, <3>1 DEF Items
  <2>2. cmd.cell \in SomeCell
    BY <2>1 DEF Command, SomeCell
  <2>3. locks' \in {locks, [locks EXCEPT ![w] = cmd.cell]}
    BY <1>3 DEF SetLock
  <2> HIDE DEF cmd
  <2> QED BY <1>1, <1>3, <2>2, <2>3 DEF Safe
<1>4. ASSUME NEW w \in Locks, cmd.op = Clear[w], ClearLock(w, cmd) PROVE Good
  <2>1. locks' \in {locks, [locks EXCEPT ![w] = NoCell]}
    BY <1>4 DEF ClearLock
  <2> HIDE DEF cmd
  <2> QED BY <1>1, <1>4, <2>1 DEF Safe
<1>5. ASSUME locks' = locks PROVE Good
  BY <1>1, <1>5
<1>6. \/ (cmd.op = "CCELLCFG=1" /\ SetLock("cfg", cmd))
      \/ (cmd.op = "CLECELL=" /\ SetLock("cle", cmd))
      \/ (cmd.op = "CCELLCFG=0" /\ ClearLock("cfg", cmd))
      \/ (cmd.op = "CLECELL" /\ ClearLock("cle", cmd))
      \/ locks' = locks
  BY Zenon DEF Execute, Tell
<1>7. /\ Set["cfg"] = "CCELLCFG=1" /\ Set["cle"] = "CLECELL=" /\ "cfg" \in Locks /\ "cle" \in Locks
      /\ Clear["cfg"] = "CCELLCFG=0" /\ Clear["cle"] = "CLECELL"
  BY DEF Set, Clear, Locks
<1> HIDE DEF cmd, Good
<1>8. \/ \E w \in Locks : cmd.op = Set[w] /\ SetLock(w, cmd)
      \/ \E w \in Locks : cmd.op = Clear[w] /\ ClearLock(w, cmd)
      \/ locks' = locks
  BY <1>6, <1>7, Zenon
<1>9. Good
  <2>1. ASSUME NEW w \in Locks, cmd.op = Set[w], SetLock(w, cmd) PROVE Good
    BY <1>3, <2>1
  <2>2. ASSUME NEW w \in Locks, cmd.op = Clear[w], ClearLock(w, cmd) PROVE Good
    BY <1>4, <2>2
  <2> QED BY <1>5, <1>8, <2>1, <2>2
<1> QED BY <1>9 DEF Good, cmd

-----------------------------------------------------------------------------
(* What the host does to the queue: nothing, or one command more.          *)

(* The command that a transaction writes.                                  *)
Sends(x) == todo' = Append(todo, x) /\ x \in Items /\ inbuf' = <<>> /\ UNCHANGED <<locks, hop>>

LEMMA CommandIn ==
  ASSUME TypeOK
  PROVE  /\ [op |-> "CPSI?", cell |-> NoCell] \in Command
         /\ Ate0 \in Items /\ Command \subseteq Items /\ Command \cup {Ate0} \subseteq Items
BY DEF Command, Items

LEMMA HopSendsType ==
  ASSUME TypeOK, HopSends
  PROVE  /\ TypeOK'
         /\ call.pc = "idle" /\ call'.pc \in {"wait", "echo"} /\ call'.who = "hop"
         /\ call'.cmd = CommandAt(hop.pc) /\ call'.out = <<>> /\ hop.pc \in DOMAIN OpAt
         /\ \E x \in {CommandAt(hop.pc), Ate0} : Sends(x)
         /\ UNCHANGED <<timeouts, user_stop, others>>
<1> DEFINE cmd == CommandAt(hop.pc)
<1>1. hop.pc \in DOMAIN OpAt /\ cmd \in Command
  BY CommandTypes DEF HopSends
<1>2. PICK x \in {cmd, Ate0} : x = IF open THEN cmd ELSE Ate0
  OBVIOUS
<1>3. Begin("hop", cmd) /\ UNCHANGED <<locks, hop, others>>
  BY DEF HopSends
<1> HIDE DEF cmd
<1>4. /\ call.pc = "idle" /\ inbuf' = <<>> /\ open' = TRUE /\ todo' = Append(todo, x)
      /\ call' = [pc |-> IF open THEN "wait" ELSE "echo", who |-> "hop", cmd |-> cmd,
                  attempt |-> 1, out |-> <<>>]
      /\ UNCHANGED <<timeouts, user_stop, locks, hop, others>>
  BY <1>2, <1>3 DEF Begin, Written
<1>5. x \in Items
  BY <1>1, CommandIn
<1>6. TypeOK'
  BY <1>1, <1>4, <1>5, AppendProperties, EmptySeq DEF TypeOK, Nobody
<1>7. call'.pc \in {"wait", "echo"} /\ call'.who = "hop" /\ call'.cmd = cmd /\ call'.out = <<>>
  BY <1>4
<1> QED BY <1>1, <1>4, <1>5, <1>6, <1>7 DEF Sends, cmd

LEMMA OtherSendsType ==
  ASSUME TypeOK, OtherSends
  PROVE  /\ TypeOK'
         /\ call.pc = "idle" /\ call'.pc \in {"wait", "echo"} /\ call'.who = "other"
         /\ call'.cmd.op = "CPSI?" /\ call'.out = <<>>
         /\ \E x \in Items : Sends(x) /\ x.op \in {"CPSI?", "ATE0"}
         /\ UNCHANGED <<timeouts, user_stop>>
<1> DEFINE cmd == [op |-> "CPSI?", cell |-> NoCell]
<1>1. cmd \in Command /\ cmd.op = "CPSI?"
  BY CommandIn
<1>2. PICK x \in {cmd, Ate0} : x = IF open THEN cmd ELSE Ate0
  OBVIOUS
<1>3. Begin("other", cmd) /\ UNCHANGED <<locks, hop>> /\ others' = others + 1
  BY DEF OtherSends
<1> HIDE DEF cmd
<1>4. /\ call.pc = "idle" /\ inbuf' = <<>> /\ open' = TRUE /\ todo' = Append(todo, x)
      /\ call' = [pc |-> IF open THEN "wait" ELSE "echo", who |-> "other", cmd |-> cmd,
                  attempt |-> 1, out |-> <<>>]
      /\ UNCHANGED <<timeouts, user_stop, locks, hop>> /\ others' = others + 1
  BY <1>2, <1>3 DEF Begin, Written
<1>5. x \in Items /\ x.op \in {"CPSI?", "ATE0"}
  BY <1>1, CommandIn DEF Ate0
<1>6. TypeOK'
  BY <1>1, <1>4, <1>5, AppendProperties, EmptySeq DEF TypeOK, Nobody
<1>7. /\ call'.pc \in {"wait", "echo"} /\ call'.who = "other" /\ call'.cmd.op = "CPSI?"
      /\ call'.out = <<>>
  BY <1>1, <1>4
<1> QED BY <1>4, <1>5, <1>6, <1>7 DEF Sends

(* Within a transaction ATE0 or its command goes out, or nothing.          *)
LEMMA TransactType ==
  ASSUME TypeOK, Calling, Transact, UNCHANGED <<locks, hop, others>>
  PROVE  /\ TypeOK'
         /\ call.pc \in {"wait", "echo"} /\ call'.pc # "idle"
         /\ call'.who = call.who /\ call'.cmd = call.cmd
         /\ call'.pc = "echo" => call'.out = <<>>
         /\ UNCHANGED user_stop
         /\ \/ \E x \in {call.cmd, Ate0} : Sends(x) /\ call'.out = call.out
            \/ /\ todo' = todo
               /\ \/ call'.out = call.out /\ inbuf' \in {inbuf, <<>>}
                  \/ ~user_stop /\ call'.out = call.out \o inbuf /\ inbuf' = <<>>
<1> DEFINE Good ==
         /\ TypeOK'
         /\ call.pc \in {"wait", "echo"} /\ call'.pc # "idle"
         /\ call'.who = call.who /\ call'.cmd = call.cmd
         /\ call'.pc = "echo" => call'.out = <<>>
         /\ UNCHANGED user_stop
         /\ \/ \E x \in {call.cmd, Ate0} : Sends(x) /\ call'.out = call.out
            \/ /\ todo' = todo
               /\ \/ call'.out = call.out /\ inbuf' \in {inbuf, <<>>}
                  \/ ~user_stop /\ call'.out = call.out \o inbuf /\ inbuf' = <<>>
<1>1. /\ call.cmd \in Items /\ Ate0 \in Items /\ <<>> \in Seq(Lines)
      /\ \A x \in Items : Append(todo, x) \in Seq(Items)
      /\ call.out \o inbuf \in Seq(Lines)
  BY CommandIn, EmptySeq, AppendProperties, ConcatProperties DEF TypeOK
<1>2. TimesOut => timeouts' \in 0..MaxTimeouts
  BY TimeoutsAssumption DEF TimesOut, TypeOK
<1>3. ASSUME EchoOff PROVE Good
  <2>1. /\ call.pc = "echo" /\ call.out = <<>> /\ inbuf' = <<>> /\ UNCHANGED <<open, user_stop>>
        /\ todo' = Append(todo, call.cmd) /\ call' = [call EXCEPT !.pc = "wait"]
        /\ timeouts' \in 0..MaxTimeouts
    BY <1>2, <1>3 DEF EchoOff, Written, TypeOK, Calling
  <2>2. TypeOK'
    BY <1>1, <2>1 DEF TypeOK
  <2>3. Sends(call.cmd) /\ call'.out = call.out
    BY <1>1, <2>1 DEF Sends, TypeOK
  <2> QED BY <2>1, <2>2, <2>3 DEF TypeOK
<1>4. ASSUME Read PROVE Good
  <2>1. PICK p \in {"done", "wait"} :
          /\ call.pc = "wait" /\ ~user_stop /\ inbuf' = <<>>
          /\ UNCHANGED <<todo, open, timeouts, user_stop>>
          /\ call' = [call EXCEPT !.out = call.out \o inbuf, !.pc = p]
    BY <1>4 DEF Read
  <2>2. TypeOK'
    BY <1>1, <2>1 DEF TypeOK
  <2> QED BY <2>1, <2>2 DEF TypeOK
<1>5. ASSUME ExpirePartial PROVE Good
  BY <1>2, <1>5 DEF ExpirePartial, TypeOK
<1>6. ASSUME ExpireEmpty, MayRepeat PROVE Good
  <2>1. /\ call.pc = "wait" /\ call.out = <<>> /\ inbuf' = <<>> /\ UNCHANGED <<open, user_stop>>
        /\ todo' = Append(todo, Ate0)
        /\ call' = [call EXCEPT !.pc = "echo", !.attempt = call.attempt + 1]
        /\ timeouts' \in 0..MaxTimeouts
    BY <1>2, <1>6 DEF ExpireEmpty, Written
  <2>2. TypeOK'
    <3>1. PICK n \in Nat : n = call.attempt + 1
      BY DEF TypeOK
    <3>2. call' = [call EXCEPT !.pc = "echo", !.attempt = n]
      BY <2>1, <3>1
    <3>3. call' \in [pc : {"idle", "echo", "wait", "done"}, who : {"hop", "other", Nobody},
                     cmd : Command \cup {Ate0}, attempt : Nat, out : Seq(Lines)]
      BY <3>2 DEF TypeOK
    <3>4. todo' \in Seq(Items)
      BY <1>1, <2>1
    <3> QED BY <1>1, <2>1, <3>3, <3>4 DEF TypeOK
  <2>3. Sends(Ate0) /\ call'.out = call.out
    BY <1>1, <2>1 DEF Sends, TypeOK
  <2> QED BY <2>1, <2>2, <2>3 DEF TypeOK
<1>7. ASSUME ExpireEmpty, ~MayRepeat PROVE Good
  <2>1. /\ call.pc = "wait" /\ call.out = <<>> /\ inbuf' = <<>> /\ UNCHANGED <<todo, user_stop>>
        /\ open' = FALSE /\ call' = [call EXCEPT !.pc = "done"]
        /\ timeouts' \in 0..MaxTimeouts
    BY <1>2, <1>7 DEF ExpireEmpty
  <2> QED BY <1>1, <2>1 DEF TypeOK
<1>8. ASSUME StopWaiting PROVE Good
  BY <1>8 DEF StopWaiting, TypeOK
<1> HIDE DEF Good
<1>9. Good
  BY <1>3, <1>4, <1>5, <1>6, <1>7, <1>8 DEF Transact
<1> QED BY <1>9 DEF Good

-----------------------------------------------------------------------------
(* A lock that is kept stays kept.                                         *)

LEMMA KeptBySend ==
  ASSUME TypeOK, NEW x, Sends(x), NEW w \in Locks, Safe(x, w, hop.cell), Kept(w)
  PROVE  Kept(w)'
<1>1. SafeFrom(todo, 1, w, hop.cell) /\ todo \in Seq(Items) /\ x \in Items
  BY DEF Kept, TypeOK, Sends
<1>2. SafeFrom(Append(todo, x), 1, w, hop.cell)
  <2> 0 \in Nat
    OBVIOUS
  <2> QED BY <1>1, AppendKeeps
<1> QED BY <1>2 DEF Kept, Sends

LEMMA KeptByExecute ==
  ASSUME TypeOK, Execute, NEW w \in Locks, Kept(w)
  PROVE  Kept(w)'
<1>1. SafeFrom(todo, 1, w, hop.cell) /\ locks[w] = hop.cell /\ todo \in Seq(Items)
  BY DEF Kept, TypeOK
<1>2. todo' \in Seq(Items) /\ Served(todo, todo') /\ todo # <<>> /\ hop' = hop
  BY ExecuteServes, ExecuteCases
<1>3. SafeFrom(todo', 1, w, hop.cell)
  <2> 0 \in Nat
    OBVIOUS
  <2> QED BY <1>1, <1>2, ServedKeeps
<1>4. Safe(Head(todo), w, hop.cell)
  BY <1>1, <1>2, QueueType, LenProperties DEF SafeFrom
<1>5. locks'[w] = hop.cell
  BY <1>1, <1>4, ExecuteLocks
<1> QED BY <1>2, <1>3, <1>5 DEF Kept

-----------------------------------------------------------------------------
(* What a transaction writes never spoils what is pending.                 *)

Fits(x) ==
  \A w \in Locks :
    /\ hop.pc \in GapPcs => x.op # Ask[w]
    /\ hop.pc \in AskingPcs \cup {"held"} => Safe(x, w, hop.cell)

LEMMA CommandsFit ==
  /\ hop.pc \in DOMAIN OpAt => Fits(CommandAt(hop.pc))
  /\ \A x : x.op \in {"CPSI?", "ATE0"} => Fits(x)
  /\ Fits(Ate0)
<1>1. ASSUME hop.pc \in DOMAIN OpAt PROVE Fits(CommandAt(hop.pc))
  <2>1. hop.pc # "held"
    BY <1>1, OpDomain
  <2> QED BY <1>1, <2>1, CommandsAreSafe DEF Fits
<1>2. \A x : x.op \in {"CPSI?", "ATE0"} => Fits(x)
  BY OthersAreSafe DEF Fits
<1> QED BY <1>1, <1>2 DEF Ate0

LEMMA GapType == \A pc \in GapPcs : Gap[pc] \in Nat
BY DEF Gap, GapPcs

LEMMA SendsKeepApart ==
  ASSUME TypeOK, Apart, NEW x, Sends(x), Fits(x), HopTalks => HopTalks'
  PROVE  Apart'
<1> SUFFICES ASSUME NEW w \in Locks
             PROVE  /\ hop.pc \in GapPcs =>
                         Far(todo', w, IF HopTalks' THEN Gap[hop.pc] + 1 ELSE Gap[hop.pc])
                    /\ hop.pc \in AskingPcs => FarOrSafe(todo', w, Backlog, hop.cell)
  BY DEF Apart, Sends
<1>1. todo \in Seq(Items) /\ x \in Items /\ todo' = Append(todo, x)
  BY DEF TypeOK, Sends
<1>2. CASE hop.pc \in GapPcs
  <2>1. PICK n \in Nat : n = Gap[hop.pc]
    BY <1>2, GapType
  <2>2. Far(todo, w, IF HopTalks THEN n + 1 ELSE n) /\ x.op # Ask[w]
    BY <1>2, <2>1 DEF Apart, Fits
  <2>3. CASE HopTalks
    <3>1. Far(todo', w, n + 1)
      BY <1>1, <2>2, <2>3, AppendKeeps
    <3> QED BY <1>2, <2>1, <2>3, <3>1 DEF GapPcs, AskingPcs
  <2>4. CASE ~HopTalks
    <3>1. Far(todo', w, n + 1) /\ Far(todo', w, n)
      BY <1>1, <2>2, <2>4, AppendKeeps
    <3> QED BY <1>2, <2>1, <3>1 DEF GapPcs, AskingPcs
  <2> QED BY <2>3, <2>4
<1>3. CASE hop.pc \in AskingPcs
  <2>1. FarOrSafe(todo, w, Backlog, hop.cell) /\ Safe(x, w, hop.cell) /\ Backlog \in Nat
    BY <1>3 DEF Apart, Fits, Backlog
  <2>2. FarOrSafe(todo', w, Backlog, hop.cell)
    BY <1>1, <2>1, AppendKeeps
  <2> QED BY <1>3, <2>2 DEF GapPcs, AskingPcs
<1> QED BY <1>2, <1>3

LEMMA SendsKeepHolding ==
  ASSUME TypeOK, Holding, NEW x, Sends(x), Fits(x)
  PROVE  Holding'
<1> SUFFICES ASSUME hop.pc = "held" \/ (hop.ok /\ hop.pc \in {"clecell", "clecell_q", "cops"})
             PROVE  \E w \in Locks : Kept(w)'
  BY DEF Holding, Sends
<1>1. PICK w \in Locks : Kept(w)
  BY DEF Holding
<1>2. Safe(x, w, hop.cell)
  BY DEF Fits, AskingPcs
<1> QED BY <1>1, <1>2, KeptBySend

LEMMA AskedIn == \A pc \in AskedPcs : Asked[pc] \in Locks /\ pc \in AskingPcs
BY DEF Asked, AskedPcs, Locks, AskingPcs

-----------------------------------------------------------------------------
(* The invariant, one kind of step after the other.                        *)

LEMMA HopSendsKeeps == LockInv /\ KeepsUp /\ HopSends => LockInv'
<1> SUFFICES ASSUME LockInv, KeepsUp, HopSends PROVE LockInv'
  OBVIOUS
<1>1. /\ TypeOK /\ Calling /\ Apart /\ Answers /\ Holding
  BY DEF LockInv
<1>2. /\ TypeOK'
      /\ call.pc = "idle" /\ call'.pc \in {"wait", "echo"} /\ call'.who = "hop"
      /\ call'.cmd = CommandAt(hop.pc) /\ call'.out = <<>> /\ hop.pc \in DOMAIN OpAt
      /\ UNCHANGED <<timeouts, user_stop, others>>
  BY <1>1, HopSendsType
<1>3. PICK x \in {CommandAt(hop.pc), Ate0} : Sends(x)
  BY <1>1, HopSendsType
<1>4. Fits(x) /\ HopTalks' /\ hop' = hop /\ locks' = locks /\ inbuf' = <<>>
  BY <1>2, <1>3, CommandsFit DEF HopTalks, Sends
<1>5. Calling'
  <2>1. CommandAt(hop.pc)' = CommandAt(hop.pc)
    BY <1>4 DEF CommandAt
  <2> QED BY <1>1, <1>2, <1>4, <2>1 DEF Calling
<1>6. Apart'
  BY <1>1, <1>3, <1>4, SendsKeepApart
<1>7. Holding'
  BY <1>1, <1>3, <1>4, SendsKeepHolding
<1>8. Answers'
  <2> SUFFICES ASSUME NEW w \in Locks, hop.pc \in AskedPcs, Asked[hop.pc] = w
               PROVE  ~user_stop => OnlySafe(todo', w, hop.cell)
    BY <1>2, <1>4 DEF Answers, Asks, Truthful
  <2>1. hop.pc \in AskingPcs
    BY AskedIn
  <2>2. ASSUME ~user_stop PROVE OnlySafe(todo, w, hop.cell)
    <3>1. Len(todo) <= Backlog /\ Len(todo) \in Nat /\ DOMAIN todo = 1..Len(todo)
      BY <1>1, <1>2, <2>2, LenProperties DEF KeepsUp, TypeOK
    <3>2. FarOrSafe(todo, w, Backlog, hop.cell)
      BY <1>1, <2>1 DEF Apart
    <3> QED BY <3>1, <3>2 DEF OnlySafe, FarOrSafe, Backlog
  <2>3. Safe(x, w, hop.cell) /\ x \in Items /\ todo \in Seq(Items) /\ todo' = Append(todo, x)
    BY <1>1, <1>3, <1>4, <2>1 DEF Fits, Sends, TypeOK
  <2>4. ~user_stop => OnlySafe(todo', w, hop.cell)
    <3> 0 \in Nat
      OBVIOUS
    <3> QED BY <2>1, <2>2, <2>3, AppendKeeps
  <2> QED BY <2>4
<1> QED BY <1>2, <1>5, <1>6, <1>7, <1>8 DEF LockInv

LEMMA OtherSendsKeeps == LockInv /\ OtherSends => LockInv'
<1> SUFFICES ASSUME LockInv, OtherSends PROVE LockInv'
  OBVIOUS
<1>1. /\ TypeOK /\ Calling /\ Apart /\ Answers /\ Holding
  BY DEF LockInv
<1>2. /\ TypeOK'
      /\ call.pc = "idle" /\ call'.pc \in {"wait", "echo"} /\ call'.who = "other"
      /\ call'.cmd.op = "CPSI?" /\ call'.out = <<>>
  BY <1>1, OtherSendsType
<1>3. PICK x \in Items : Sends(x) /\ x.op \in {"CPSI?", "ATE0"}
  BY <1>1, OtherSendsType
<1>4. Fits(x) /\ ~HopTalks' /\ ~HopTalks /\ hop' = hop
  BY <1>2, <1>3, CommandsFit DEF HopTalks, Sends
<1>5. Calling' /\ Answers'
  BY <1>1, <1>2, <1>4 DEF Calling, Answers, Asks
<1>6. Apart'
  BY <1>1, <1>3, <1>4, SendsKeepApart
<1>7. Holding'
  BY <1>1, <1>3, <1>4, SendsKeepHolding
<1> QED BY <1>2, <1>5, <1>6, <1>7 DEF LockInv

LEMMA TransactKeeps == LockInv /\ Transact /\ UNCHANGED <<locks, hop, others>> => LockInv'
<1> SUFFICES ASSUME LockInv, Transact, UNCHANGED <<locks, hop, others>> PROVE LockInv'
  OBVIOUS
<1>1. /\ TypeOK /\ Calling /\ Apart /\ Answers /\ Holding
  BY DEF LockInv
<1>2. /\ TypeOK'
      /\ call.pc # "idle" /\ call'.pc # "idle"
      /\ call'.who = call.who /\ call'.cmd = call.cmd
      /\ call'.pc = "echo" => call'.out = <<>>
      /\ user_stop' = user_stop /\ hop' = hop /\ locks' = locks
  BY <1>1, TransactType
<1>3. HopTalks' <=> HopTalks
  BY <1>2 DEF HopTalks
<1>4. Calling'
  <2>1. CommandAt(hop.pc)' = CommandAt(hop.pc)
    BY <1>2 DEF CommandAt
  <2> QED BY <1>1, <1>2, <1>3, <2>1 DEF Calling
<1>5. ASSUME NEW x \in {call.cmd, Ate0}, Sends(x), call'.out = call.out
      PROVE  Apart' /\ Answers' /\ Holding'
  <2>1. Fits(x)
    <3>1. CASE HopTalks
      BY <1>1, <3>1, CommandsFit DEF Calling
    <3>2. CASE ~HopTalks
      BY <1>1, <1>2, <3>2, CommandsFit DEF Calling
    <3> QED BY <3>1, <3>2
  <2>2. Apart' /\ Holding'
    BY <1>1, <1>3, <1>5, <2>1, SendsKeepApart, SendsKeepHolding
  <2>3. Answers'
    <3> SUFFICES ASSUME NEW w \in Locks, Asks(w)
                 PROVE  /\ ~user_stop => OnlySafe(todo', w, hop.cell)
                        /\ Truthful(call.out, w)'
      BY <1>2, <1>3, <1>5 DEF Answers, Asks, Truthful, Sends
    <3>1. hop.pc \in AskingPcs
      BY AskedIn DEF Asks
    <3>2. (~user_stop => OnlySafe(todo, w, hop.cell)) /\ Truthful(call.out, w)
      BY <1>1 DEF Answers
    <3>3. Safe(x, w, hop.cell) /\ x \in Items /\ todo \in Seq(Items) /\ todo' = Append(todo, x)
      BY <1>1, <1>5, <2>1, <3>1 DEF Fits, Sends, TypeOK
    <3>4. ~user_stop => OnlySafe(todo', w, hop.cell)
      <4> 0 \in Nat
        OBVIOUS
      <4> QED BY <3>1, <3>2, <3>3, AppendKeeps
    <3>5. Truthful(call.out, w)'
      <4>1. Kept(w) => Kept(w)'
        BY <1>1, <1>5, <3>1, <3>3, KeptBySend
      <4> QED BY <1>2, <1>5, <3>2, <4>1 DEF Truthful
    <3> QED BY <3>4, <3>5
  <2> QED BY <2>2, <2>3
<1>6. ASSUME todo' = todo,
             \/ call'.out = call.out /\ inbuf' \in {inbuf, <<>>}
             \/ ~user_stop /\ call'.out = call.out \o inbuf /\ inbuf' = <<>>
      PROVE  Apart' /\ Answers' /\ Holding'
  <2>1. \A w \in Locks : Kept(w)' <=> Kept(w)
    BY <1>2, <1>6 DEF Kept
  <2>2. Apart' /\ Holding'
    BY <1>1, <1>2, <1>3, <1>6, <2>1 DEF Apart, Holding
  <2>3. Answers'
    <3> SUFFICES ASSUME NEW w \in Locks, Asks(w)
                 PROVE  (~user_stop => Truthful(inbuf, w)') /\ Truthful(call.out, w)'
      BY <1>1, <1>2, <1>3, <1>6 DEF Answers, Asks
    <3>2. (~user_stop => Truthful(inbuf, w)) /\ Truthful(call.out, w)
      BY <1>1 DEF Answers
    <3>3. call.out \in Seq(Lines) /\ inbuf \in Seq(Lines)
      BY <1>1 DEF TypeOK
    <3>4. ~user_stop => Truthful(inbuf, w)'
      BY <1>2, <1>6, <2>1, <3>2 DEF Truthful
    <3>5. CASE call'.out = call.out
      BY <1>2, <2>1, <3>2, <3>4, <3>5 DEF Truthful
    <3>6. CASE ~user_stop /\ call'.out = call.out \o inbuf
      <4> SUFFICES ASSUME NEW i \in DOMAIN call'.out,
                          call'.out[i].kind = w, call'.out[i].cell = hop.cell
                   PROVE  Kept(w)
        BY <1>2, <2>1, <3>4 DEF Truthful
      <4>1. /\ DOMAIN call.out = 1..Len(call.out) /\ DOMAIN inbuf = 1..Len(inbuf)
            /\ Len(call.out) \in Nat /\ Len(inbuf) \in Nat
            /\ DOMAIN call'.out = 1..(Len(call.out) + Len(inbuf))
            /\ \A j \in DOMAIN call'.out :
                 call'.out[j] = IF j <= Len(call.out) THEN call.out[j]
                                ELSE inbuf[j - Len(call.out)]
        BY <3>3, <3>6, LenProperties, ConcatProperties
      <4>2. CASE i <= Len(call.out)
        BY <3>2, <4>1, <4>2 DEF Truthful
      <4>3. CASE ~(i <= Len(call.out))
        <5>1. i - Len(call.out) \in DOMAIN inbuf /\ call'.out[i] = inbuf[i - Len(call.out)]
          BY <4>1, <4>3
        <5> QED BY <3>2, <3>6, <5>1 DEF Truthful
      <4> QED BY <4>2, <4>3
    <3> QED BY <1>6, <3>5, <3>6
  <2> QED BY <2>2, <2>3
<1>7. Apart' /\ Answers' /\ Holding'
  BY <1>1, <1>5, <1>6, TransactType
<1> QED BY <1>2, <1>4, <1>7 DEF LockInv

LEMMA ExecuteKeeps == LockInv /\ Execute => LockInv'
<1> SUFFICES ASSUME LockInv, Execute PROVE LockInv'
  OBVIOUS
<1>1. /\ TypeOK /\ Calling /\ Apart /\ Answers /\ Holding
  BY DEF LockInv
<1>2. /\ todo # <<>> /\ todo \in Seq(Items) /\ todo' \in Seq(Items) /\ Served(todo, todo')
      /\ hop' = hop /\ others' = others /\ open' = open /\ call' = call
      /\ timeouts' = timeouts /\ user_stop' = user_stop
      /\ locks' \in [Locks -> SomeCell]
      /\ HopTalks' = HopTalks
  BY <1>1, ExecuteCases, ExecuteServes, ExecuteLocks DEF TypeOK, HopTalks
<1>3. \A w \in Locks : Kept(w) => Kept(w)'
  BY <1>1, KeptByExecute
<1>4. inbuf' \in Seq(Lines)
  <2>1. PICK lines \in Seq(Lines) : Receives(lines)
    BY <1>1, ExecuteCases, LinesType DEF Ends, Tells, FinalAnswer
  <2> QED BY <1>1, <2>1, ConcatProperties DEF Receives, TypeOK
<1>5. TypeOK'
  BY <1>1, <1>2, <1>4 DEF TypeOK
<1>6. Calling'
  <2>1. CommandAt(hop.pc)' = CommandAt(hop.pc)
    BY <1>2 DEF CommandAt
  <2> QED BY <1>1, <1>2, <2>1 DEF Calling
<1>7. Apart'
  <2> SUFFICES ASSUME NEW w \in Locks
               PROVE  /\ hop.pc \in GapPcs =>
                           Far(todo', w, IF HopTalks THEN Gap[hop.pc] + 1 ELSE Gap[hop.pc])
                      /\ hop.pc \in AskingPcs => FarOrSafe(todo', w, Backlog, hop.cell)
    BY <1>2 DEF Apart
  <2>1. CASE hop.pc \in GapPcs
    <3>1. PICK n \in Nat : n = IF HopTalks THEN Gap[hop.pc] + 1 ELSE Gap[hop.pc]
      BY <2>1, GapType
    <3>2. Far(todo, w, n)
      BY <1>1, <2>1, <3>1 DEF Apart
    <3>3. Far(todo', w, n)
      BY <1>2, <3>2, ServedKeeps
    <3> QED BY <2>1, <3>1, <3>3 DEF GapPcs, AskingPcs
  <2>2. CASE hop.pc \in AskingPcs
    <3>1. FarOrSafe(todo, w, Backlog, hop.cell) /\ Backlog \in Nat
      BY <1>1, <2>2 DEF Apart, Backlog
    <3>2. FarOrSafe(todo', w, Backlog, hop.cell)
      BY <1>2, <3>1, ServedKeeps
    <3> QED BY <2>2, <3>2 DEF GapPcs, AskingPcs
  <2> QED BY <2>1, <2>2
<1>8. Holding'
  BY <1>1, <1>2, <1>3 DEF Holding
<1>9. Answers'
  <2> SUFFICES ASSUME NEW w \in Locks, Asks(w)
               PROVE  /\ ~user_stop => OnlySafe(todo', w, hop.cell) /\ Truthful(inbuf, w)'
                      /\ Truthful(call.out, w)'
    BY <1>2 DEF Answers, Asks
  <2>2. /\ ~user_stop => OnlySafe(todo, w, hop.cell) /\ Truthful(inbuf, w)
        /\ Truthful(call.out, w)
    BY <1>1 DEF Answers
  <2>3. ~user_stop => OnlySafe(todo', w, hop.cell)
    <3> 0 \in Nat
      OBVIOUS
    <3> QED BY <1>2, <2>2, ServedKeeps
  <2>4. Truthful(call.out, w)'
    BY <1>2, <1>3, <2>2 DEF Truthful
  <2>5. ASSUME ~user_stop PROVE Truthful(inbuf, w)'
    <3> SUFFICES ASSUME NEW i \in DOMAIN inbuf', inbuf'[i].kind = w, inbuf'[i].cell = hop.cell
                 PROVE  Kept(w)
      BY <1>2, <1>3 DEF Truthful
    <3>1. ASSUME NEW lines \in Seq(Lines), Receives(lines)
          PROVE  \/ i \in DOMAIN inbuf /\ inbuf'[i] = inbuf[i]
                 \/ \E j \in DOMAIN lines : inbuf'[i] = lines[j]
      <4>1. CASE inbuf' = inbuf
        BY <4>1
      <4>2. CASE inbuf' = inbuf \o lines
        <5>1. /\ inbuf \in Seq(Lines) /\ DOMAIN inbuf' = 1..Len(inbuf')
              /\ DOMAIN inbuf = 1..Len(inbuf) /\ DOMAIN lines = 1..Len(lines)
              /\ Len(inbuf) \in Nat /\ Len(lines) \in Nat
          BY <1>1, <1>4, LenProperties DEF TypeOK
        <5>2. /\ Len(inbuf') = Len(inbuf) + Len(lines)
              /\ \A k \in 1..(Len(inbuf) + Len(lines)) :
                   inbuf'[k] = IF k <= Len(inbuf) THEN inbuf[k] ELSE lines[k - Len(inbuf)]
          BY <4>2, <5>1, ConcatProperties
        <5>3. CASE i <= Len(inbuf)
          BY <5>1, <5>2, <5>3
        <5>4. CASE ~(i <= Len(inbuf))
          <6>1. i - Len(inbuf) \in DOMAIN lines /\ inbuf'[i] = lines[i - Len(inbuf)]
            BY <5>1, <5>2, <5>4
          <6> QED BY <6>1
        <5> QED BY <5>3, <5>4
      <4> QED BY <3>1, <4>1, <4>2 DEF Receives
    <3>2. i \in DOMAIN inbuf /\ inbuf'[i] = inbuf[i] => Kept(w)
      BY <2>2, <2>5 DEF Truthful
    <3>3. CASE Ends
      <4>1. PICK lines : FinalAnswer(lines) /\ Receives(lines)
        BY <3>3 DEF Ends
      <4> QED BY <3>1, <3>2, <4>1 DEF FinalAnswer
    <3>4. ASSUME NEW v \in Locks, Tells(v) PROVE Kept(w)
      <4> DEFINE line == Line(v, locks[v])
      <4>1. line.kind = v /\ line.cell = locks[v] /\ <<line>> \in Seq(Lines)
        BY <1>1, LinesType DEF Line
      <4>2. Receives(<<line>>) /\ todo[1].op = Ask[v]
        BY <1>1, <1>2, <3>4, QueueType DEF Tells
      <4>3. ASSUME inbuf'[i] = line PROVE Kept(w)
        <5>1. v = w /\ locks[w] = hop.cell
          BY <4>1, <4>3
        <5>2. 1 \in DOMAIN todo
          BY <1>1, <1>2, QueueType, LenProperties
        <5>3. SafeFrom(todo, 1, w, hop.cell)
          BY <2>2, <2>5, <4>2, <5>1, <5>2 DEF OnlySafe
        <5> QED BY <5>1, <5>3 DEF Kept
      <4> HIDE DEF line
      <4>4. \A j \in DOMAIN <<line>> : <<line>>[j] = line
        OBVIOUS
      <4>5. inbuf'[i] = line \/ (i \in DOMAIN inbuf /\ inbuf'[i] = inbuf[i])
        BY <3>1, <4>1, <4>2, <4>4
      <4> QED BY <3>2, <4>3, <4>5
    <3> QED BY <1>1, <3>3, <3>4, ExecuteCases
  <2> QED BY <2>3, <2>4, <2>5
<1> QED BY <1>5, <1>6, <1>7, <1>8, <1>9 DEF LockInv

(* Where the hop thread goes with an answer.                               *)
LEMMA NextPoint ==
  ASSUME NEW lines, TypeOK, hop.pc \in DOMAIN OpAt
  PROVE  LET pc == After(lines).pc
             ok == After(lines).ok
         IN  /\ pc \in HopPcs /\ ok \in BOOLEAN
             /\ \/ hop.pc = "clearfcn" /\ pc = "ccellcfg"
                \/ hop.pc = "ccellcfg" /\ pc \in {"ccellcfg_q", "clecell"} /\ ~ok
                \/ hop.pc = "ccellcfg_q" /\ pc = "clecell" /\ (ok => Matches(lines, "cfg", hop.cell))
                \/ hop.pc = "clecell" /\ pc \in {"clecell_q", "cops"} /\ ok = hop.ok
                \/ /\ hop.pc = "clecell_q" /\ pc = "cops"
                   /\ ok => hop.ok \/ Matches(lines, "cle", hop.cell)
                \/ hop.pc = "cops" /\ pc \in {"held", "held_cfg"} /\ (pc = "held" => hop.ok)
                \/ /\ hop.pc = "held_cfg" /\ pc \in {"held", "held_cle"}
                   /\ pc = "held" => Matches(lines, "cfg", hop.cell)
                \/ /\ hop.pc = "held_cle" /\ pc \in {"held", "failed"}
                   /\ pc = "held" => Matches(lines, "cle", hop.cell)
                \/ hop.pc = "unlock_cfg" /\ pc = "unlock_cle"
                \/ hop.pc = "unlock_cle" /\ pc = "unlock_earfcn"
                \/ hop.pc = "unlock_earfcn" /\ pc = "idle"
                \/ hop.pc = "restore_cfg" /\ pc = "restore_cle"
                \/ hop.pc = "restore_cle" /\ pc = "restore_rest"
                \/ hop.pc = "restore_rest" /\ pc = "end"
<1> USE OpDomain DEF HopPcs
<1>1. hop.ok \in BOOLEAN
  BY DEF TypeOK
<1>2. PICK f \in BOOLEAN, g \in BOOLEAN, r \in BOOLEAN :
        /\ f = Matches(lines, "cfg", hop.cell) /\ g = Matches(lines, "cle", hop.cell)
        /\ r = reply_ok(lines)
  BY DEF Matches, reply_ok
<1>3. CASE hop.pc \in {"clearfcn", "ccellcfg", "ccellcfg_q", "clecell", "clecell_q"}
  <2>1. After(lines) = AfterLock(lines)
    BY <1>3 DEF After
  <2>2. CASE hop.pc = "clearfcn"
    <3>1. After(lines) = [pc |-> "ccellcfg", ok |-> FALSE]
      BY <2>1, <2>2 DEF AfterLock
    <3> QED BY <2>2, <3>1
  <2>3. CASE hop.pc = "ccellcfg"
    <3>1. After(lines) = [pc |-> IF r THEN "ccellcfg_q" ELSE "clecell", ok |-> FALSE]
      BY <1>2, <2>1, <2>3 DEF AfterLock, CfgSent
    <3> QED BY <2>3, <3>1
  <2>4. CASE hop.pc = "ccellcfg_q"
    <3>1. After(lines) = [pc |-> "clecell", ok |-> f]
      BY <1>2, <2>1, <2>4 DEF AfterLock
    <3> QED BY <1>2, <2>4, <3>1
  <2>5. CASE hop.pc = "clecell"
    <3>1. After(lines) = [pc |-> IF r THEN "clecell_q" ELSE "cops", ok |-> hop.ok]
      BY <1>2, <2>1, <2>5 DEF AfterLock
    <3> QED BY <1>1, <2>5, <3>1
  <2>6. CASE hop.pc = "clecell_q"
    <3>1. PICK o \in BOOLEAN : o = (hop.ok \/ g)
      BY <1>1
    <3>2. After(lines) = [pc |-> "cops", ok |-> o]
      BY <1>2, <2>1, <2>6, <3>1 DEF AfterLock
    <3> QED BY <1>2, <2>6, <3>1, <3>2
  <2> QED BY <1>3, <2>2, <2>3, <2>4, <2>5, <2>6
<1>4. CASE hop.pc \in {"cops", "held_cfg", "held_cle"}
  <2>1. After(lines) = AfterCops(lines)
    BY <1>4 DEF After
  <2>2. CASE hop.pc = "cops"
    <3>1. After(lines) = [pc |-> IF hop.ok THEN "held" ELSE "held_cfg", ok |-> hop.ok]
      BY <2>1, <2>2 DEF AfterCops
    <3> QED BY <1>1, <2>2, <3>1
  <2>3. CASE hop.pc = "held_cfg"
    <3>1. After(lines) = [pc |-> IF f THEN "held" ELSE "held_cle", ok |-> FALSE]
      BY <1>2, <2>1, <2>3 DEF AfterCops
    <3> QED BY <1>2, <2>3, <3>1
  <2>4. CASE hop.pc = "held_cle"
    <3>1. After(lines) = [pc |-> IF g THEN "held" ELSE "failed", ok |-> FALSE]
      BY <1>2, <2>1, <2>4 DEF AfterCops
    <3> QED BY <1>2, <2>4, <3>1
  <2> QED BY <1>4, <2>2, <2>3, <2>4
<1>5. CASE hop.pc \in {"unlock_cfg", "unlock_cle", "unlock_earfcn",
                        "restore_cfg", "restore_cle", "restore_rest"}
  <2>1. After(lines) = AfterClear(lines)
    BY <1>5 DEF After
  <2>3. CASE hop.pc = "unlock_cfg"
    <3>1. After(lines) = [ok |-> FALSE, pc |-> "unlock_cle"]
      BY <2>1, <2>3 DEF AfterClear
    <3> QED BY <2>3, <3>1
  <2>4. CASE hop.pc = "unlock_cle"
    <3>1. After(lines) = [ok |-> FALSE, pc |-> "unlock_earfcn"]
      BY <2>1, <2>4 DEF AfterClear
    <3> QED BY <2>4, <3>1
  <2>5. CASE hop.pc = "unlock_earfcn"
    <3>1. After(lines) = [ok |-> FALSE, pc |-> "idle"]
      BY <2>1, <2>5 DEF AfterClear
    <3> QED BY <2>5, <3>1
  <2>6. CASE hop.pc = "restore_cfg"
    <3>1. After(lines) = [ok |-> FALSE, pc |-> "restore_cle"]
      BY <2>1, <2>6 DEF AfterClear
    <3> QED BY <2>6, <3>1
  <2>7. CASE hop.pc = "restore_cle"
    <3>1. After(lines) = [ok |-> FALSE, pc |-> "restore_rest"]
      BY <2>1, <2>7 DEF AfterClear
    <3> QED BY <2>7, <3>1
  <2>8. CASE hop.pc = "restore_rest"
    <3>1. After(lines) = [ok |-> FALSE, pc |-> "end"]
      BY <2>1, <2>8 DEF AfterClear
    <3> QED BY <2>8, <3>1
  <2> QED BY <1>5, <2>3, <2>4, <2>5, <2>6, <2>7, <2>8
<1> QED BY <1>3, <1>4, <1>5

LEMMA FarFromNone ==
  ASSUME NEW s \in Seq(Items), NEW w
  PROVE  Far(s, w, 0)
BY LenProperties DEF Far

LEMMA ReturnType ==
  ASSUME TypeOK, NEW who, Return(who), KeepPort
  PROVE  /\ call' = Idle /\ call'.pc = "idle" /\ call'.out = <<>> /\ ~HopTalks'
         /\ todo' = todo /\ inbuf' = inbuf /\ open' = open /\ timeouts' = timeouts
         /\ user_stop' = user_stop
         /\ call' \in [pc : {"idle", "echo", "wait", "done"}, who : {"hop", "other", Nobody},
                       cmd : Command \cup {Ate0}, attempt : Nat, out : Seq(Lines)]
BY EmptySeq DEF Return, KeepPort, Idle, HopTalks

LEMMA HopReturnsKeeps == LockInv /\ HopReturns => LockInv'
<1> SUFFICES ASSUME LockInv, HopReturns PROVE LockInv'
  OBVIOUS
<1>1. /\ TypeOK /\ Calling /\ Apart /\ Answers /\ Holding
  BY DEF LockInv
<1>2. Return("hop") /\ KeepPort /\ UNCHANGED <<locks, others>>
  BY DEF HopReturns
<1>3. /\ HopTalks /\ call' = Idle /\ call'.pc = "idle" /\ call'.out = <<>> /\ ~HopTalks'
      /\ todo' = todo /\ inbuf' = inbuf /\ open' = open /\ timeouts' = timeouts
      /\ user_stop' = user_stop /\ locks' = locks /\ others' = others
      /\ call' \in [pc : {"idle", "echo", "wait", "done"}, who : {"hop", "other", Nobody},
                    cmd : Command \cup {Ate0}, attempt : Nat, out : Seq(Lines)]
  BY <1>1, <1>2, ReturnType DEF Return, HopTalks
<1>4. hop.pc \in DOMAIN OpAt
  BY <1>1, <1>3 DEF Calling
<1> DEFINE pc == After(call.out).pc
           ok == After(call.out).ok
<1>5. hop' = [hop EXCEPT !.pc = pc, !.ok = ok]
  BY DEF HopReturns
<1>6. /\ pc \in HopPcs /\ ok \in BOOLEAN
      /\ \/ hop.pc = "clearfcn" /\ pc = "ccellcfg"
         \/ hop.pc = "ccellcfg" /\ pc \in {"ccellcfg_q", "clecell"} /\ ~ok
         \/ hop.pc = "ccellcfg_q" /\ pc = "clecell" /\ (ok => Matches(call.out, "cfg", hop.cell))
         \/ hop.pc = "clecell" /\ pc \in {"clecell_q", "cops"} /\ ok = hop.ok
         \/ /\ hop.pc = "clecell_q" /\ pc = "cops"
            /\ ok => hop.ok \/ Matches(call.out, "cle", hop.cell)
         \/ hop.pc = "cops" /\ pc \in {"held", "held_cfg"} /\ (pc = "held" => hop.ok)
         \/ /\ hop.pc = "held_cfg" /\ pc \in {"held", "held_cle"}
            /\ pc = "held" => Matches(call.out, "cfg", hop.cell)
         \/ /\ hop.pc = "held_cle" /\ pc \in {"held", "failed"}
            /\ pc = "held" => Matches(call.out, "cle", hop.cell)
         \/ hop.pc = "unlock_cfg" /\ pc = "unlock_cle"
         \/ hop.pc = "unlock_cle" /\ pc = "unlock_earfcn"
         \/ hop.pc = "unlock_earfcn" /\ pc = "idle"
         \/ hop.pc = "restore_cfg" /\ pc = "restore_cle"
         \/ hop.pc = "restore_cle" /\ pc = "restore_rest"
         \/ hop.pc = "restore_rest" /\ pc = "end"
  BY <1>1, <1>4, NextPoint
<1> HIDE DEF pc, ok
<1>7. hop'.pc = pc /\ hop'.ok = ok /\ hop'.cell = hop.cell
      /\ hop' \in [pc : HopPcs, cell : SomeCell, ok : BOOLEAN]
  BY <1>1, <1>5, <1>6 DEF TypeOK
<1>8. TypeOK'
  BY <1>1, <1>3, <1>7 DEF TypeOK
<1>9. Calling'
  <2>1. hop'.pc \in {"clearfcn", "ccellcfg", "held", "failed"} \cup AskingPcs => hop.cell \in Cells
    BY <1>1, <1>6, <1>7 DEF Calling, AskingPcs
  <2> QED BY <1>3, <1>7, <2>1 DEF Calling
<1>10. Answers'
  BY <1>3 DEF Answers, Asks
<1>11. \A w \in Locks : Kept(w)' <=> Kept(w)
  BY <1>3, <1>7 DEF Kept
<1>12. Holding'
  <2> SUFFICES ASSUME pc = "held" \/ (ok /\ pc \in {"clecell", "clecell_q", "cops"})
               PROVE  \E w \in Locks : Kept(w)
    BY <1>7, <1>11 DEF Holding
  <2>1. ASSUME NEW w \in Locks, hop.pc \in AskedPcs, Asked[hop.pc] = w,
               Matches(call.out, w, hop.cell)
        PROVE  Kept(w)
    BY <1>1, <1>3, <2>1 DEF Answers, Asks, Truthful, Matches
  <2>2. "cfg" \in Locks /\ "cle" \in Locks
    BY DEF Locks
  <2>3. CASE hop.pc \in {"ccellcfg_q", "held_cfg"} /\ Matches(call.out, "cfg", hop.cell)
    BY <2>1, <2>2, <2>3 DEF Asked, AskedPcs
  <2>4. CASE hop.pc \in {"clecell_q", "held_cle"} /\ Matches(call.out, "cle", hop.cell)
    BY <2>1, <2>2, <2>4 DEF Asked, AskedPcs
  <2>5. CASE hop.ok /\ hop.pc \in {"clecell", "clecell_q", "cops"}
    BY <1>1, <2>5 DEF Holding
  <2> QED BY <1>6, <2>3, <2>4, <2>5
<1>13. Apart'
  <2> SUFFICES ASSUME NEW w \in Locks
               PROVE  /\ pc \in GapPcs => Far(todo, w, Gap[pc])
                      /\ pc \in AskingPcs => FarOrSafe(todo, w, Backlog, hop.cell)
    BY <1>3, <1>7 DEF Apart
  <2>1. /\ hop.pc \in GapPcs => Far(todo, w, Gap[hop.pc] + 1)
        /\ hop.pc \in AskingPcs => FarOrSafe(todo, w, Backlog, hop.cell)
    BY <1>1, <1>3 DEF Apart
  <2>2. /\ Gap["unlock_cfg"] = 0 /\ Gap["unlock_cle"] = 1 /\ Gap["unlock_earfcn"] = 2
        /\ Gap["idle"] = 3 /\ Gap["clearfcn"] = 3 /\ Gap["ccellcfg"] = 4
    BY DEF Gap
  <2>3. CASE hop.pc = "ccellcfg"
    <3>1. Far(todo, w, 5)
      BY <2>1, <2>2, <2>3 DEF GapPcs
    <3> QED BY <1>6, <2>3, <3>1 DEF Far, FarOrSafe, Backlog, GapPcs
  <2>4. CASE hop.pc \in {"clearfcn", "unlock_cfg", "unlock_cle", "unlock_earfcn"}
    <3>1. pc \in GapPcs /\ pc \notin AskingPcs /\ Gap[pc] = Gap[hop.pc] + 1
      BY <1>6, <2>2, <2>4 DEF GapPcs, AskingPcs
    <3> QED BY <2>1, <2>4, <3>1 DEF GapPcs
  <2>5. CASE hop.pc \in AskingPcs
    BY <1>6, <2>1, <2>5 DEF AskingPcs, GapPcs
  <2>6. CASE hop.pc \in {"restore_cfg", "restore_cle", "restore_rest"}
    BY <1>6, <2>6 DEF AskingPcs, GapPcs
  <2> QED BY <1>4, <2>3, <2>4, <2>5, <2>6, OpDomain DEF AskingPcs
<1> QED BY <1>8, <1>9, <1>10, <1>12, <1>13 DEF LockInv

LEMMA OtherReturnsKeeps == LockInv /\ OtherReturns => LockInv'
<1> SUFFICES ASSUME LockInv, OtherReturns PROVE LockInv'
  OBVIOUS
<1>1. /\ TypeOK /\ Calling /\ Apart /\ Answers /\ Holding
  BY DEF LockInv
<1>2. /\ Return("other") /\ KeepPort /\ locks' = locks /\ hop' = hop /\ others' = others
  BY DEF OtherReturns
<1>3. /\ ~HopTalks /\ call'.pc = "idle" /\ call'.out = <<>> /\ ~HopTalks'
      /\ todo' = todo /\ inbuf' = inbuf /\ open' = open /\ timeouts' = timeouts
      /\ user_stop' = user_stop
      /\ call' \in [pc : {"idle", "echo", "wait", "done"}, who : {"hop", "other", Nobody},
                    cmd : Command \cup {Ate0}, attempt : Nat, out : Seq(Lines)]
  BY <1>1, <1>2, ReturnType DEF Return, HopTalks
<1>4. TypeOK' /\ Calling'
  BY <1>1, <1>2, <1>3 DEF TypeOK, Calling
<1>5. Answers'
  BY <1>3 DEF Answers, Asks
<1>6. \A w \in Locks : Kept(w)' <=> Kept(w)
  BY <1>2, <1>3 DEF Kept
<1>7. Apart' /\ Holding'
  BY <1>1, <1>2, <1>3, <1>6 DEF Apart, Holding
<1> QED BY <1>4, <1>5, <1>7 DEF LockInv

(* Where a lock or an unlock begins no query is pending that is too young, *)
(* and a stop only ends the reading of answers.                            *)
LEMMA QuietKeeps ==
  /\ LockInv /\ (StartUnlock \/ restore_radio \/ \E c \in Cells : StartLock(c)) => LockInv'
  /\ LockInv /\ UserStop => LockInv'
  /\ LockInv /\ UNCHANGED vars => LockInv'
<1>1. ASSUME LockInv, StartUnlock \/ restore_radio \/ \E c \in Cells : StartLock(c)
      PROVE  LockInv'
  <2>1. /\ TypeOK /\ Calling /\ Apart
    BY <1>1 DEF LockInv
  <2>2. UNCHANGED <<port, user_stop, locks, others>> /\ call' = call /\ todo' = todo
    BY <1>1 DEF StartUnlock, restore_radio, StartLock, port
  <2>3. /\ hop.pc \notin DOMAIN OpAt /\ ~HopTalks /\ ~HopTalks'
    <3>1. hop.pc \notin DOMAIN OpAt
      BY <1>1, OpDomain DEF StartUnlock, restore_radio, StartLock, AtRest
    <3> QED BY <2>1, <2>2, <3>1 DEF Calling, HopTalks
  <2>4. \/ \E c \in Cells : hop.pc = "idle" /\ hop' = [pc |-> "clearfcn", cell |-> c, ok |-> FALSE]
        \/ hop' = [pc |-> "unlock_cfg", cell |-> NoCell, ok |-> FALSE]
        \/ hop' = [pc |-> "restore_cfg", cell |-> NoCell, ok |-> FALSE]
    BY <1>1 DEF StartUnlock, restore_radio, StartLock
  <2>5. TypeOK'
    <3>1. hop' \in [pc : HopPcs, cell : SomeCell, ok : BOOLEAN]
      <4>1. {"clearfcn", "unlock_cfg", "restore_cfg"} \subseteq HopPcs
        BY OpDomain DEF HopPcs
      <4>2. NoCell \in SomeCell /\ Cells \subseteq SomeCell
        BY DEF SomeCell
      <4>3. PICK p \in HopPcs, c \in SomeCell : hop' = [pc |-> p, cell |-> c, ok |-> FALSE]
        BY <2>4, <4>1, <4>2
      <4> QED BY <4>3
    <3> QED BY <2>1, <2>2, <3>1 DEF TypeOK, port
  <2>6. Calling' /\ Answers' /\ Holding'
    BY <2>1, <2>2, <2>3, <2>4 DEF Calling, Answers, Asks, Holding, AskingPcs
  <2>7. Apart'
    <3> SUFFICES ASSUME NEW w \in Locks
                 PROVE  /\ hop'.pc \in GapPcs => Far(todo, w, Gap[hop'.pc])
                        /\ hop'.pc \notin AskingPcs
      BY <2>2, <2>3 DEF Apart
    <3>1. hop.pc = "idle" => Far(todo, w, Gap["idle"])
      BY <2>1, <2>3 DEF Apart, GapPcs
    <3>2. Gap["idle"] = Gap["clearfcn"] /\ Gap["unlock_cfg"] = 0
      BY DEF Gap
    <3>3. Far(todo, w, 0)
      BY <2>1, FarFromNone DEF TypeOK
    <3> QED BY <2>4, <3>1, <3>2, <3>3 DEF GapPcs, AskingPcs
  <2> QED BY <2>5, <2>6, <2>7 DEF LockInv
<1>2. ASSUME LockInv, UserStop PROVE LockInv'
  <2>1. /\ user_stop' = TRUE /\ todo' = todo /\ inbuf' = inbuf /\ open' = open /\ call' = call
        /\ timeouts' = timeouts /\ locks' = locks /\ hop' = hop /\ others' = others
    BY <1>2 DEF UserStop, port
  <2>2. (HopTalks' <=> HopTalks) /\ \A w \in Locks : Kept(w)' <=> Kept(w)
    BY <2>1 DEF HopTalks, Kept
  <2>3. TypeOK' /\ Calling' /\ Apart' /\ Holding'
    <3>1. CommandAt(hop.pc)' = CommandAt(hop.pc)
      BY <2>1 DEF CommandAt
    <3> QED BY <1>2, <2>1, <2>2, <3>1 DEF LockInv, TypeOK, Calling, Apart, Holding
  <2>4. Answers'
    BY <1>2, <2>1, <2>2 DEF LockInv, Answers, Asks, Truthful
  <2> QED BY <2>3, <2>4 DEF LockInv
<1>3. ASSUME LockInv, UNCHANGED vars PROVE LockInv'
  <2>1. /\ user_stop' = user_stop /\ todo' = todo /\ inbuf' = inbuf /\ open' = open /\ call' = call
        /\ timeouts' = timeouts /\ locks' = locks /\ hop' = hop /\ others' = others
    BY <1>3 DEF vars, port
  <2>2. (HopTalks' <=> HopTalks) /\ \A w \in Locks : Kept(w)' <=> Kept(w)
    BY <2>1 DEF HopTalks, Kept
  <2>3. CommandAt(hop.pc)' = CommandAt(hop.pc)
    BY <2>1 DEF CommandAt
  <2>4. TypeOK' /\ Calling' /\ Apart' /\ Holding'
    BY <1>3, <2>1, <2>2, <2>3 DEF LockInv, TypeOK, Calling, Apart, Holding
  <2>5. Answers'
    BY <1>3, <2>1, <2>2 DEF LockInv, Answers, Asks, Truthful
  <2> QED BY <2>4, <2>5 DEF LockInv
<1> QED BY <1>1, <1>2, <1>3

LEMMA LockInvInit == Init => LockInv
<1> SUFFICES ASSUME Init PROVE LockInv
  OBVIOUS
<1>1. /\ todo = <<>> /\ inbuf = <<>> /\ open = TRUE /\ call = Idle /\ timeouts = 0
      /\ user_stop = FALSE /\ locks = [cfg |-> NoCell, cle |-> NoCell]
      /\ hop = [pc |-> "idle", cell |-> NoCell, ok |-> FALSE] /\ others = 0
  BY DEF Init, PortInit
<1>2. TypeOK
  <2>1. locks \in [Locks -> SomeCell]
    BY <1>1 DEF Locks, SomeCell
  <2>2. call \in [pc : {"idle", "echo", "wait", "done"}, who : {"hop", "other", Nobody},
                  cmd : Command \cup {Ate0}, attempt : Nat, out : Seq(Lines)]
    BY <1>1, EmptySeq DEF Idle
  <2>3. hop \in [pc : HopPcs, cell : SomeCell, ok : BOOLEAN]
    BY <1>1 DEF HopPcs, SomeCell
  <2>4. timeouts \in 0..MaxTimeouts /\ others \in Nat
    BY <1>1, TimeoutsAssumption
  <2>5. todo \in Seq(Items) /\ inbuf \in Seq(Lines)
    BY <1>1, EmptySeq
  <2> QED BY <1>1, <2>1, <2>2, <2>3, <2>4, <2>5 DEF TypeOK
<1>3. ~HopTalks /\ call.pc = "idle"
  BY <1>1 DEF HopTalks, Idle
<1>4. Calling /\ Answers /\ Holding
  BY <1>1, <1>3 DEF Calling, Answers, Asks, Holding, AskingPcs
<1>5. Apart
  <2>1. \A w, n : Far(todo, w, n)
    BY <1>1 DEF Far
  <2> QED BY <1>1, <1>3, <2>1 DEF Apart, AskingPcs
<1> QED BY <1>2, <1>4, <1>5 DEF LockInv

LEMMA LockInvStep == LockInv /\ KeepsUp /\ [Next]_vars => LockInv'
<1> SUFFICES ASSUME LockInv, KeepsUp, [Next]_vars PROVE LockInv'
  OBVIOUS
<1>1. CASE Host
  <2>1. HopSends \/ HopReturns \/ OtherReturns \/ (Transact /\ UNCHANGED <<locks, hop, others>>)
    BY <1>1 DEF Host
  <2> QED BY <2>1, HopSendsKeeps, HopReturnsKeeps, OtherReturnsKeeps, TransactKeeps
<1>2. CASE Execute
  BY <1>2, ExecuteKeeps
<1>3. CASE OtherSends
  BY <1>3, OtherSendsKeeps
<1>4. CASE UserStop \/ StartUnlock \/ restore_radio \/ \E c \in Cells : StartLock(c)
  BY <1>4, QuietKeeps
<1>5. CASE UNCHANGED vars
  BY <1>5, QuietKeeps
<1> QED BY <1>1, <1>2, <1>3, <1>4, <1>5 DEF Next

LEMMA LockInvHolds == LockInv => HeldIsLocked /\ (hop.pc = "held" => hop.cell \in Cells)
<1> SUFFICES ASSUME LockInv, hop.pc = "held"
             PROVE  hop.cell \in {locks.cfg, locks.cle} /\ hop.cell \in Cells
  BY DEF HeldIsLocked
<1>1. PICK w \in Locks : Kept(w)
  BY DEF LockInv, Holding
<1>2. locks["cfg"] = hop.cell \/ locks["cle"] = hop.cell
  BY <1>1 DEF Kept, Locks
<1> QED BY <1>2 DEF LockInv, Calling

(* The hop thread never grinds a cell that the modem is not locked to, for *)
(* any cells and however many waits expire and answers come late, as long  *)
(* as at most five commands are pending when a transaction begins.         *)
THEOREM HeldWhileModemKeepsUp == Spec /\ []KeepsUp => []HeldIsLocked
<1>1. LockInv => HeldIsLocked
  BY LockInvHolds
<1> QED BY <1>1, LockInvInit, LockInvStep, PTL DEF Spec

-----------------------------------------------------------------------------
(* How far the modem can be behind: every pending command but the one just *)
(* sent had its wait expire.                                               *)

LEMMA FinalConcat ==
  ASSUME NEW a \in Seq(Lines), NEW b \in Seq(Lines)
  PROVE  at_has_final_result(a \o b) <=> at_has_final_result(a) \/ at_has_final_result(b)
<1>1. /\ DOMAIN a = 1..Len(a) /\ DOMAIN b = 1..Len(b) /\ DOMAIN (a \o b) = 1..(Len(a) + Len(b))
      /\ Len(a) \in Nat /\ Len(b) \in Nat
      /\ \A i \in DOMAIN (a \o b) : (a \o b)[i] = IF i <= Len(a) THEN a[i] ELSE b[i - Len(a)]
  BY LenProperties, ConcatProperties
<1>2. ASSUME NEW kind PROVE Has(a \o b, kind) <=> Has(a, kind) \/ Has(b, kind)
  <2>1. ASSUME Has(a \o b, kind) PROVE Has(a, kind) \/ Has(b, kind)
    <3>1. PICK i \in DOMAIN (a \o b) : (a \o b)[i].kind = kind
      BY <2>1 DEF Has
    <3>2. CASE i <= Len(a)
      BY <1>1, <3>1, <3>2 DEF Has
    <3>3. CASE ~(i <= Len(a))
      <4>1. i - Len(a) \in DOMAIN b /\ b[i - Len(a)].kind = kind
        BY <1>1, <3>1, <3>3
      <4> QED BY <4>1 DEF Has
    <3> QED BY <3>2, <3>3
  <2>2. ASSUME NEW i \in DOMAIN a, a[i].kind = kind PROVE Has(a \o b, kind)
    <3>1. i \in DOMAIN (a \o b) /\ (a \o b)[i] = a[i]
      BY <1>1
    <3> QED BY <2>2, <3>1 DEF Has
  <2>3. ASSUME NEW i \in DOMAIN b, b[i].kind = kind PROVE Has(a \o b, kind)
    <3>1. i + Len(a) \in DOMAIN (a \o b) /\ (a \o b)[i + Len(a)] = b[i]
      BY <1>1
    <3> QED BY <2>3, <3>1 DEF Has
  <2> QED BY <2>1, <2>2, <2>3 DEF Has
<1> QED BY <1>2 DEF at_has_final_result

LEMMA CountedBegins ==
  ASSUME TypeOK, Counted, NEW x, Sends(x), call.pc = "idle",
         call'.pc \in {"wait", "echo"}, call'.out = <<>>, UNCHANGED <<timeouts, user_stop>>
  PROVE  Counted'
<1>1. Owes = 0
  BY DEF Owes
<1>2. Owes' = 1
  <2>1. <<>> \o <<>> = <<>>
    BY EmptySeq, ConcatEmptySeq
  <2>2. ~at_has_final_result(<<>>)
    BY DEF at_has_final_result, Has
  <2>3. call'.out = <<>> /\ inbuf' = <<>>
    BY DEF Sends
  <2>4. ~at_has_final_result(call.out \o inbuf)'
    BY <2>1, <2>2, <2>3
  <2> QED BY <2>4 DEF Owes
<1>3. Len(todo') = Len(todo) + 1 /\ Len(todo) \in Nat
  BY AppendProperties, LenProperties DEF Sends, TypeOK
<1> QED BY <1>1, <1>2, <1>3 DEF Counted, TypeOK

LEMMA CountedTransacts ==
  ASSUME TypeOK, Calling, Counted, Transact, UNCHANGED <<locks, hop, others>>
  PROVE  Counted'
<1> SUFFICES ASSUME ~user_stop, ~user_stop' PROVE Len(todo') <= timeouts' + Owes'
  BY TransactType DEF Counted
<1>1. /\ Owes \in {0, 1} /\ Len(todo) \in Nat /\ timeouts \in Nat /\ Len(todo) <= timeouts + Owes
      /\ Owes' \in {0, 1}
  BY LenProperties DEF Owes, Counted, TypeOK
<1>2. \A x \in Items : Len(Append(todo, x)) = Len(todo) + 1
  BY AppendProperties DEF TypeOK
<1>3. call.cmd \in Items /\ Ate0 \in Items
  BY CommandIn DEF TypeOK
<1>4. ~at_has_final_result(<<>>) /\ <<>> \o <<>> = <<>>
  BY EmptySeq, ConcatEmptySeq DEF at_has_final_result, Has
<1>5. CASE EchoOff
  <2>1. /\ call.out = <<>> /\ inbuf' = <<>> /\ Len(todo') = Len(todo) + 1
        /\ call'.pc = "wait" /\ call'.out = <<>> /\ call.pc = "echo"
    BY <1>2, <1>3, <1>5 DEF EchoOff, Written, Calling, TypeOK
  <2>2. Owes' = 1
    BY <1>4, <2>1 DEF Owes
  <2>3. CASE timeouts' = timeouts /\ at_has_final_result(inbuf)
    <3>1. call.out \o inbuf = inbuf
      BY <2>1, ConcatEmptySeq DEF TypeOK
    <3>2. Owes = 0
      BY <2>3, <3>1 DEF Owes
    <3> QED BY <1>1, <2>1, <2>2, <2>3, <3>2
  <2>4. CASE timeouts' = timeouts + 1
    BY <1>1, <2>1, <2>2, <2>4
  <2> QED BY <1>5, <2>3, <2>4 DEF EchoOff, TimesOut
<1>6. CASE Read
  <2>1. /\ call.pc = "wait" /\ todo' = todo /\ timeouts' = timeouts /\ inbuf' = <<>>
        /\ call'.out = call.out \o inbuf
        /\ call'.pc = IF at_has_final_result(call.out \o inbuf) THEN "done" ELSE "wait"
    BY <1>6 DEF Read, TypeOK
  <2>2. call'.out \o inbuf' = call.out \o inbuf
    <3>1. call.out \o inbuf \in Seq(Lines)
      BY ConcatProperties DEF TypeOK
    <3> QED BY <2>1, <3>1, ConcatEmptySeq
  <2>3. Owes' = Owes
    BY <2>1, <2>2 DEF Owes
  <2> QED BY <1>1, <2>1, <2>3
<1>7. CASE ExpirePartial
  <2>1. timeouts' = timeouts + 1 /\ todo' = todo
    BY <1>7 DEF ExpirePartial, TimesOut
  <2> QED BY <1>1, <2>1
<1>8. CASE ExpireEmpty /\ MayRepeat
  <2>1. /\ timeouts' = timeouts + 1 /\ todo' = Append(todo, Ate0) /\ inbuf' = <<>>
        /\ call.out = <<>> /\ call'.out = <<>> /\ call'.pc = "echo"
    BY <1>8 DEF ExpireEmpty, TimesOut, Written, TypeOK
  <2>2. Owes' = 1
    BY <1>4, <2>1 DEF Owes
  <2> QED BY <1>1, <1>2, <1>3, <2>1, <2>2
<1>9. CASE ExpireEmpty /\ ~MayRepeat
  <2>1. timeouts' = timeouts + 1 /\ todo' = todo
    BY <1>9 DEF ExpireEmpty, TimesOut
  <2> QED BY <1>1, <2>1
<1>10. ~StopWaiting
  BY DEF StopWaiting
<1> QED BY <1>5, <1>6, <1>7, <1>8, <1>9, <1>10 DEF Transact

LEMMA CountedExecutes ==
  ASSUME TypeOK, Counted, Execute
  PROVE  Counted'
<1>1. /\ todo # <<>> /\ call' = call /\ timeouts' = timeouts /\ user_stop' = user_stop /\ open' = open
  BY ExecuteCases
<1> SUFFICES ASSUME ~user_stop PROVE Len(todo') <= timeouts + Owes'
  BY <1>1 DEF Counted
<1>2. /\ Owes \in {0, 1} /\ Len(todo) \in Nat /\ timeouts \in Nat /\ Len(todo) <= timeouts + Owes
      /\ Owes' \in {0, 1}
  BY LenProperties DEF Owes, Counted, TypeOK
<1>3. CASE Ends
  <2>1. Len(todo') = Len(todo) - 1
    BY <1>1, <1>3, QueueType DEF Ends
  <2> QED BY <1>2, <2>1
<1>4. ASSUME NEW w \in Locks, Tells(w) PROVE Len(todo') <= timeouts + Owes'
  <2> DEFINE lines == <<Line(w, locks[w])>>
  <2>1. lines \in Seq(Lines) /\ ~at_has_final_result(lines)
    <3>1. \A i \in DOMAIN lines : lines[i].kind \notin {"OK", "ERROR"}
      BY DEF Line, Locks
    <3>2. lines \in Seq(Lines)
      BY LinesType
    <3> HIDE DEF lines
    <3> QED BY <3>1, <3>2 DEF at_has_final_result, Has
  <2>2. inbuf' = inbuf \/ inbuf' = inbuf \o lines
    BY <1>4 DEF Tells, Receives
  <2> HIDE DEF lines
  <2>3. call.out \in Seq(Lines) /\ inbuf \in Seq(Lines)
    BY DEF TypeOK
  <2>4. /\ inbuf \o lines \in Seq(Lines)
        /\ at_has_final_result(inbuf \o lines) <=> at_has_final_result(inbuf)
    BY <2>1, <2>3, ConcatProperties, FinalConcat
  <2>5. at_has_final_result(call.out \o inbuf') <=> at_has_final_result(call.out \o inbuf)
    <3>1. at_has_final_result(call.out \o (inbuf \o lines)) <=> at_has_final_result(call.out \o inbuf)
      BY <2>3, <2>4, FinalConcat
    <3> QED BY <2>2, <3>1
  <2>6. Owes' = Owes
    BY <1>1, <2>5 DEF Owes
  <2>7. Len(todo') = Len(todo)
    <3>1. <<RestOf(Head(todo))>> \in Seq({RestOf(Head(todo))} \cup Items) /\ Len(<<RestOf(Head(todo))>>) = 1
      OBVIOUS
    <3>2. Tail(todo) \in Seq({RestOf(Head(todo))} \cup Items) /\ Len(Tail(todo)) = Len(todo) - 1
      BY <1>1, QueueType, SeqMonotonic
    <3> QED BY <1>2, <1>4, <3>1, <3>2, ConcatProperties DEF Tells
  <2> QED BY <1>2, <2>6, <2>7
<1> QED BY <1>3, <1>4, ExecuteCases

LEMMA CountedInit == Init => Counted
<1> SUFFICES ASSUME Init PROVE Counted
  OBVIOUS
<1>1. Len(todo) = 0 /\ timeouts = 0 /\ Owes \in {0, 1}
  BY EmptySeq DEF Init, PortInit, Owes
<1> QED BY <1>1 DEF Counted

LEMMA CountedStep == LockInv /\ Counted /\ [Next]_vars => Counted'
<1> SUFFICES ASSUME LockInv, Counted, [Next]_vars PROVE Counted'
  OBVIOUS
<1>1. TypeOK /\ Calling
  BY DEF LockInv
<1>2. CASE HopSends
  <2>1. PICK x \in {CommandAt(hop.pc), Ate0} : Sends(x)
    BY <1>1, <1>2, HopSendsType
  <2>2. /\ call.pc = "idle" /\ call'.pc \in {"wait", "echo"} /\ call'.out = <<>>
        /\ UNCHANGED <<timeouts, user_stop>>
    BY <1>1, <1>2, HopSendsType
  <2> QED BY <1>1, <2>1, <2>2, CountedBegins
<1>3. CASE OtherSends
  <2>1. PICK x \in Items : Sends(x)
    BY <1>1, <1>3, OtherSendsType
  <2>2. /\ call.pc = "idle" /\ call'.pc \in {"wait", "echo"} /\ call'.out = <<>>
        /\ UNCHANGED <<timeouts, user_stop>>
    BY <1>1, <1>3, OtherSendsType
  <2> QED BY <1>1, <2>1, <2>2, CountedBegins
<1>4. CASE Transact /\ UNCHANGED <<locks, hop, others>>
  BY <1>1, <1>4, CountedTransacts
<1>5. CASE Execute
  BY <1>1, <1>5, CountedExecutes
<1>6. CASE HopReturns \/ OtherReturns
  <2>1. PICK who \in {"hop", "other"} : Return(who) /\ KeepPort
    BY <1>6 DEF HopReturns, OtherReturns
  <2>2. /\ todo' = todo /\ timeouts' = timeouts /\ user_stop' = user_stop /\ call'.pc = "idle"
    BY <1>1, <2>1, ReturnType
  <2>3. Owes = 0 /\ Owes' = 0
    BY <2>1, <2>2 DEF Owes, Return
  <2> QED BY <2>2, <2>3 DEF Counted
<1>7. CASE StartUnlock \/ restore_radio \/ (\E c \in Cells : StartLock(c)) \/ UNCHANGED vars
  BY <1>7 DEF StartUnlock, restore_radio, StartLock, vars, port, Counted, Owes
<1>8. CASE UserStop
  BY <1>8 DEF UserStop, Counted
<1> QED BY <1>2, <1>3, <1>4, <1>5, <1>6, <1>7, <1>8 DEF Next, Host

LEMMA KeepsUpByCount == MaxTimeouts <= Backlog /\ LockInv /\ Counted => KeepsUp
<1> SUFFICES ASSUME MaxTimeouts <= Backlog, LockInv, Counted, call.pc = "idle", ~user_stop
             PROVE  Len(todo) <= Backlog
  BY DEF KeepsUp
<1>1. Owes = 0
  BY DEF Owes
<1>2. Len(todo) \in Nat /\ timeouts \in Nat /\ timeouts <= MaxTimeouts
  BY LenProperties, TimeoutsAssumption DEF LockInv, TypeOK
<1> QED BY <1>1, <1>2, TimeoutsAssumption DEF Counted, Backlog

LEMMA BoundedInv == MaxTimeouts <= Backlog => (Spec => [](LockInv /\ Counted))
<1> SUFFICES ASSUME MaxTimeouts <= Backlog PROVE Spec => [](LockInv /\ Counted)
  OBVIOUS
<1>1. (LockInv /\ Counted) /\ [Next]_vars => (LockInv /\ Counted)'
  BY KeepsUpByCount, LockInvStep, CountedStep
<1> QED BY <1>1, LockInvInit, CountedInit, PTL DEF Spec

(* So five waits that expire are not enough to lead the hop thread astray, *)
(* wherever they fall; with a sixth TLC finds a cell held and not locked.  *)
THEOREM HeldStaysLocked == MaxTimeouts <= Backlog => (Spec => []HeldIsLocked)
BY BoundedInv, LockInvHolds, PTL

-----------------------------------------------------------------------------
(* The dialogue implements ControlPort, step by step: what was             *)
(* answered Ok stays locked until the hop thread gives it up, and after    *)
(* the restore has begun nothing is answered Ok any more.                  *)
THEOREM DialogueKeepsPort ==
  MaxTimeouts <= Backlog => (Spec => Port!Spec)
<1>0. LockInv' => HeldIsLocked' /\ (hop.pc = "held" => hop.cell \in Cells)'
  BY LockInvHolds, PTL
<1>1. Init => Port!Init
  BY DEF Init, Port!Init
<1>2. LockInv /\ LockInv' /\ [Next]_vars => [Port!Next]_(Port!vars)
  <2> SUFFICES ASSUME LockInv, LockInv', [Next]_vars
               PROVE  Port!Next \/ UNCHANGED Port!vars
    OBVIOUS
  <2> DEFINE closing(pc) == pc \in {"restore_cfg", "restore_cle", "restore_rest", "end"}
             granted == hop'.pc = "held" => /\ hop'.cell # NoCell
                                            /\ hop'.cell \in {locks.cfg, locks.cle}' \ {NoCell}
  <2>1. granted
    <3>1. hop'.pc = "held" => hop'.cell \in {locks.cfg, locks.cle}' /\ hop'.cell \in Cells
      BY <1>0 DEF HeldIsLocked
    <3> QED BY <3>1, LockAssumption
  <2>2. CASE hop' = hop
    <3>1. CASE hop.pc = "held"
      BY <2>1, <2>2, <3>1 DEF Port!Next, Port!Keep
    <3>2. CASE hop.pc # "held"
      BY <2>2, <3>2 DEF Port!Next, Port!Loose
    <3> QED BY <3>1, <3>2
  <2>3. CASE HopReturns
    <3> DEFINE pc == After(call.out).pc
    <3>1. hop.pc \in DOMAIN OpAt /\ hop'.pc = pc
      BY <2>3 DEF HopReturns, Return, LockInv, Calling, HopTalks, TypeOK
    <3>2. /\ closing(pc) <=> closing(hop.pc)
          /\ pc = "held" => ~closing(hop.pc)
      BY <3>1, NextPoint DEF LockInv
    <3> HIDE DEF pc
    <3>3. CASE pc = "held"
      BY <2>1, <3>1, <3>2, <3>3 DEF Port!Next, Port!Grant
    <3>4. CASE pc # "held"
      BY <3>1, <3>2, <3>4 DEF Port!Next, Port!Loose
    <3> QED BY <3>3, <3>4
  <2>4. CASE StartUnlock \/ \E c \in Cells : StartLock(c)
    BY <2>4 DEF StartUnlock, StartLock, Port!Next, Port!Loose
  <2>5. CASE restore_radio
    BY <2>5 DEF restore_radio, AtRest, Port!Next, Port!Close
  <2>6. \/ hop' = hop \/ HopReturns \/ restore_radio
        \/ StartUnlock \/ \E c \in Cells : StartLock(c)
    BY ExecuteCases DEF Next, Host, HopSends, OtherReturns, OtherSends, UserStop, vars, LockInv
  <2> QED BY <2>2, <2>3, <2>4, <2>5, <2>6
<1> QED BY <1>1, <1>2, BoundedInv, PTL DEF Spec, Port!Spec
=============================================================================
