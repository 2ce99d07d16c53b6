---------------------------- MODULE DiagDemuxMC ----------------------------
(***************************************************************************)
(* Messages for DiagDemux.  Payloads hold flags, escapes, opcodes and what *)
(* looks like a length header; the length of FlagLengthLog begins with the *)
(* flag.                                                                   *)
(***************************************************************************)
EXTENDS DiagDemux

PlainLog == WithLength(1, <<LOG_F, 7>>)
NastyLog == WithLength(1, <<LOG_F, FLAG, 6, 0, 1, 0, LOG_F>>)
NoLog == WithLength(8, <<29>>)
Empty == WithLength(2, <<>>)
FlagLengthLog == WithLength(1, <<LOG_F>> \o [i \in 1..(FLAG - Header - 1) |-> 7])

ExtMsgAck == Response(<<125, 4, 0>>)      \* the opcode is the escape byte
EventAck == Response(<<96>>)
EscapedAck == Response(<<75, FLAG, ESCAPE>>)
FlaggedLog == Flagged(<<LOG_F, 5, FLAG>>)
BadAck == Damaged(<<19, 1, 2>>, <<19, 9, 2>>)

StrayFlag == Noise(<<FLAG>>)
LogTail == Noise(<<115, 9, 0, 1, 0, 2>>)
OpcodeTail == Noise(<<0, 75>>)
Header1 == Noise(<<9, 0, 1, 0>>)

Mixed ==
  {PlainLog, NastyLog, NoLog, Empty, FlagLengthLog, ExtMsgAck, EventAck, EscapedAck,
   FlaggedLog, BadAck, StrayFlag, LogTail, OpcodeTail, Header1}
=============================================================================
