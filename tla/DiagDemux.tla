------------------------------ MODULE DiagDemux ------------------------------
(***************************************************************************)
(* The DIAG byte stream: DiagSerialDemux and HdlcDeframer (include/qcom/   *)
(* protocol).  Two framings share the tty: messages with a length in front *)
(* and HDLC frames that end, and may begin, with a flag.  The tty hands    *)
(* the stream over in chunks of any size.                                  *)
(*                                                                         *)
(* A cell is a byte, except that the two bytes of a checksum are one cell  *)
(* and each of the two 32-bit words of a length header is two, its lowest  *)
(* byte and the rest.                                                      *)
(***************************************************************************)
EXTENDS Naturals, Sequences, SequencesExt, FiniteSetsExt

CONSTANTS
  Messages,    (* What the modem may send: see Message.                    *)
  MaxMessages, (* Bound on the length of the stream, in messages.          *)
  MaxCells,    (* Bound on the length of the stream, in cells.             *)
  MaxTotalLen, (* 65536 in the code.                                       *)
  MaxFrame,    (* The deframer's buffer, 8192 in the code.                 *)
  CloseFlag    (* How far the flag of a response may be, 512 in the code.  *)

ASSUME DemuxAssumption ==
  /\ \A m \in Messages : m.cells \in Seq(Nat)
  /\ MaxMessages \in Nat /\ MaxCells \in Nat /\ MaxTotalLen \in Nat /\ CloseFlag \in Nat

VARIABLES
  stream,      (* The messages that the modem sends, in order.             *)
  fed,         (* How many cells of them the tty has handed over.          *)
  m_buf,       (* Cells kept for the next chunk.                           *)
  out          (* What was taken from the stream so far, in order.         *)

vars == <<stream, fed, m_buf, out>>

FLAG == 126
ESCAPE == 125
ESCAPE_XOR == 32
(* The exclusive or of a cell with ESCAPE_XOR, which is one bit.           *)
Masked(c) == IF (c \div ESCAPE_XOR) % 2 = 1 THEN c - ESCAPE_XOR ELSE c + ESCAPE_XOR
LOG_F == 16
Header == 4     \* the words total_len and type

is_diag_opcode(c) == c \in {115, 125, 19, 75, 96}

(* A checksum over the payload in order; no byte equals it.                *)
Crc(payload) == 1000 + FoldLeft(LAMBDA n, c : (31 * n + c) % 65536, 1, payload)

-----------------------------------------------------------------------------
(* HdlcDeframer::feed on the cells between two flags.                      *)

(* An escape changes the cell that follows it.                             *)
FeedCell(f, c) ==
  IF c = ESCAPE THEN [f EXCEPT !.escape = TRUE]
  ELSE [escape |-> FALSE,
        cells |-> IF Len(f.cells) = MaxFrame THEN f.cells
                  ELSE Append(f.cells, IF f.escape THEN Masked(c) ELSE c)]

Unescaped(cells) == FoldLeft(FeedCell, [escape |-> FALSE, cells |-> <<>>], cells).cells

(* A frame without payload is dropped in silence, one with a checksum that *)
(* does not match is counted.                                              *)
Deframed(cells) ==
  LET raw == Unescaped(cells)
  IN  IF Len(raw) < 2 THEN <<>>
      ELSE IF Last(raw) = Crc(Front(raw)) THEN <<[kind |-> "frame", body |-> Front(raw)]>>
      ELSE <<[kind |-> "bad", body |-> <<>>]>>

-----------------------------------------------------------------------------
(* DiagSerialDemux::pump.                                                  *)

(* The first flag at or after a position, 0 if there is none.              *)
find_flag(b, from) ==
  LET flags == {i \in from..Len(b) : b[i] = FLAG}
  IN  IF flags = {} THEN 0 ELSE Min(flags)

WordAt(b, p) == b[p] + 256 * b[p + 1]
total_len(b, p) == WordAt(b, p)
plausible(b, p) == total_len(b, p) \in Header..MaxTotalLen /\ WordAt(b, p + 2) \in 1..8

Wait == [take |-> 0, got |-> <<>>]
Skip == [take |-> 1, got |-> <<>>]

(* Mutant: a message is taken for complete when its header is there.       *)
LengthPrefixedEager(b, p) ==
  LET n == Min({total_len(b, p), Len(b) - p + 1})
  IN  [take |-> n,
       got |-> <<[kind |-> "message", body |-> SubSeq(b, p + Header, p + n - 1)]>>]
LengthPrefixed(b, p) ==
  IF Len(b) - p + 1 < total_len(b, p) THEN Wait
  ELSE [take |-> total_len(b, p),
        got |-> <<[kind |-> "message",
                   body |-> SubSeq(b, p + Header, p + total_len(b, p) - 1)]>>]

(* A frame with its leading flag, or from its opcode on.                   *)
(* (Mutant: the closing flag stays, to open the next frame.)               *)
FrameKeepsFlag(b, p, first, end) ==
  [take |-> end - p, got |-> Deframed(SubSeq(b, first, end - 1))]
Frame(b, p, first, end) ==
  [take |-> end - p + 1, got |-> Deframed(SubSeq(b, first, end - 1))]

(* How many cells are taken at position p, and what they were.             *)
Step(b, p) ==
  LET end == find_flag(b, p + 1)
  IN  IF b[p] = FLAG THEN IF end = 0 THEN Wait ELSE Frame(b, p, p + 1, end)
      ELSE IF Len(b) - p + 1 < Header THEN Wait
      ELSE IF plausible(b, p) THEN LengthPrefixed(b, p)
      ELSE IF ~is_diag_opcode(b[p]) THEN Skip
      ELSE IF end = 0 THEN Wait
      ELSE IF end - p > CloseFlag THEN Skip
      ELSE Frame(b, p, p, end)

(* What remains of a buffer, and what was taken from it.                   *)
pump(b) ==
  LET from[p \in 1..(Len(b) + 1)] ==
        IF p > Len(b) \/ Step(b, p).take = 0
        THEN [rest |-> SubSeq(b, p, Len(b)), got |-> <<>>]
        ELSE LET s == Step(b, p)
                 r == from[p + s.take]
             IN  [r EXCEPT !.got = s.got \o r.got]
  IN  from[1]

-----------------------------------------------------------------------------
(* What the modem sends: the cells on the wire and what they mean.         *)

Escaped(raw) ==
  FlattenSeq([i \in DOMAIN raw |->
    IF raw[i] \in {FLAG, ESCAPE} THEN <<ESCAPE, Masked(raw[i])>> ELSE <<raw[i]>>])

(* HdlcCodec::serialize: no flag in front.                                 *)
serialize(payload) == Escaped(payload \o <<Crc(payload)>>) \o <<FLAG>>

WithLength(type, body) ==
  [cells |-> <<Len(body) + Header, 0, type, 0>> \o body,
   means |-> [kind |-> "message", body |-> body]]
Response(payload) ==
  [cells |-> serialize(payload), means |-> [kind |-> "frame", body |-> payload]]
Flagged(payload) ==
  [cells |-> <<FLAG>> \o serialize(payload), means |-> [kind |-> "frame", body |-> payload]]
Damaged(payload, seen) ==
  [cells |-> Escaped(seen \o <<Crc(payload)>>) \o <<FLAG>>,
   means |-> [kind |-> "bad", body |-> <<>>]]

(* What is left of a message cut by a hang-up, or line noise.              *)
Noise(cells) == [cells |-> cells, means |-> [kind |-> "noise", body |-> <<>>]]

Wire(ms) == FlattenSeq([i \in DOMAIN ms |-> ms[i].cells])

Init ==
  /\ stream \in UNION {[1..n -> Messages] : n \in 1..MaxMessages}
  /\ Len(Wire(stream)) <= MaxCells
  /\ fed = 0 /\ m_buf = <<>> /\ out = <<>>

(* One read of the tty.                                                    *)
feed ==
  \E n \in (fed + 1)..Len(Wire(stream)) :
    LET p == pump(m_buf \o SubSeq(Wire(stream), fed + 1, n))
    IN  /\ fed' = n
        /\ m_buf' = p.rest
        /\ out' = out \o p.got
        /\ UNCHANGED stream

Next == feed
Spec == Init /\ [][Next]_vars

-----------------------------------------------------------------------------
(* However the reads cut the stream, noise and all, what was taken from it *)
(* and what is kept is what one read of all of it would have given.        *)
ChunkInsensitive ==
  LET p == pump(SubSeq(Wire(stream), 1, fed))
  IN  out = p.got /\ m_buf = p.rest

(* The messages that have arrived to their last cell.                      *)
Arrived == Max({n \in 0..Len(stream) : Len(Wire(SubSeq(stream, 1, n))) <= fed})
Meant == [i \in 1..Arrived |-> stream[i].means]

(* Noise, and a message that begins with a flag because its length has the *)
(* low byte 0x7E: pump looks for the flag before it looks for a length.    *)
Misread(m) ==
  \/ m.means.kind = "noise"
  \/ m.means.kind = "message" /\ Head(m.cells) = FLAG

Sound == Max({n \in 0..Len(stream) : \A i \in 1..n : ~Misread(stream[i])})

(* The demultiplexer is in step with the modem up to the first noise, or   *)
(* the first message with a length of low byte 0x7E (126, 382, ... bytes), *)
(* from where on it may lose what is sent: what was sent before is taken,  *)
(* in order, each as what it is, and a damaged frame as damaged, and, as   *)
(* long as no more has arrived, nothing else is.  Only a last response     *)
(* shorter than a length header may have to wait.                          *)
InStep ==
  LET last == Min({Arrived, Sound})
      sure == IF last > 0 /\ Len(stream[last].cells) < Header THEN last - 1 ELSE last
  IN  /\ IsPrefix(SubSeq(Meant, 1, sure), out)
      /\ fed <= Len(Wire(SubSeq(stream, 1, Sound))) => IsPrefix(out, Meant)
=============================================================================
