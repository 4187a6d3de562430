---------------------------- MODULE TelnetProofs ----------------------------
(***************************************************************************)
(* Theorems about Telnet: for every set of options and payloads, any data,  *)
(* any lengths of the buffers and any way in which recv() cuts the stream.  *)
(***************************************************************************)
EXTENDS Telnet, SequenceLemmas

-----------------------------------------------------------------------------
(* The functions of messages and sends that the properties are made of. *)

StuffMap == [b \in Bytes |-> Stuffed(b)]
EncodeMap == [m \in Messages |-> Encoded(m)]
DataMap == [m \in Messages |-> DataIn(m)]
RequestMap == [m \in Messages |-> RequestIn(m)]
AnswerMap == [a \in Sends |-> AnswerIn(a)]
TypedMap == [a \in Sends |-> TypedIn(a)]

\* The stuffed form of a byte.
LEMMA StuffedByte ==
    ASSUME NEW b \in Bytes
    PROVE  Stuffed(b) \in Seq(Bytes) /\ Stuffed(b) # <<>> /\ Len(Stuffed(b)) \in 1..2
<1>1. CASE b = IAC
  <2>1. Stuffed(b) = <<b, b>>
    BY <1>1 DEF Stuffed
  <2> QED
    BY <2>1
<1>2. CASE b # IAC
  <2>1. Stuffed(b) = <<b>>
    BY <1>2 DEF Stuffed
  <2> QED
    BY <2>1
<1> QED
  BY <1>1, <1>2

LEMMA StuffMapType == StuffMap \in Readings(Bytes, Bytes)
  BY StuffedByte DEF StuffMap, Readings

\* The stuffed form of a sequence, built from either end.
LEMMA StuffedSequence ==
    ASSUME NEW p \in Seq(Bytes), NEW b \in Bytes
    PROVE  /\ StuffedAll(p) \in Seq(Bytes)
           /\ StuffedAll(Append(p, b)) = StuffedAll(p) \o Stuffed(b)
           /\ StuffedAll(<<b>> \o p) = Stuffed(b) \o StuffedAll(p)
<1>1. \A q \in Seq(Bytes) : StuffedAll(q) = FlatMap(StuffMap, q)
  <2> SUFFICES ASSUME NEW q \in Seq(Bytes) PROVE StuffedAll(q) = FlatMap(StuffMap, q)
    OBVIOUS
  <2>1. DOMAIN q = 1..Len(q) /\ \A i \in 1..Len(q) : q[i] \in Bytes
    BY LenProperties, ElementOfSeq
  <2>2. [i \in DOMAIN q |-> Stuffed(q[i])] = [i \in DOMAIN q |-> StuffMap[q[i]]]
    BY <2>1 DEF StuffMap
  <2> QED
    BY <2>2, Zenon DEF StuffedAll, FlatMap
<1>2. Append(p, b) \in Seq(Bytes) /\ <<b>> \o p \in Seq(Bytes)
  OBVIOUS
<1>3. /\ FlatMap(StuffMap, p) \in Seq(Bytes)
      /\ FlatMap(StuffMap, Append(p, b)) = FlatMap(StuffMap, p) \o StuffMap[b]
      /\ FlatMap(StuffMap, <<b>> \o p) = StuffMap[b] \o FlatMap(StuffMap, p)
  BY StuffMapType, FlatMapType, FlatMapAppend, FlatMapCons, ZenonT(60)
<1>4. StuffMap[b] = Stuffed(b)
  BY DEF StuffMap
<1>5. /\ StuffedAll(p) = FlatMap(StuffMap, p)
      /\ StuffedAll(Append(p, b)) = FlatMap(StuffMap, Append(p, b))
      /\ StuffedAll(<<b>> \o p) = FlatMap(StuffMap, <<b>> \o p)
  BY <1>1, <1>2
<1> QED
  BY <1>3, <1>4, <1>5, Zenon

LEMMA StuffedNothing == StuffedAll(<<>>) = <<>>
<1>1. [i \in DOMAIN <<>> |-> Stuffed(<<>>[i])] = <<>>
  OBVIOUS
<1> QED
  BY <1>1 DEF StuffedAll, FlattenSeq

\* A message is sent as some bytes, and starts with one.
LEMMA EncodedMessage ==
    ASSUME NEW m \in Messages
    PROVE  Encoded(m) \in Seq(Bytes) /\ Encoded(m) # <<>>
<1>1. /\ IAC \in Bytes /\ SB \in Bytes /\ SE \in Bytes /\ NOP \in Bytes
      /\ Commands \subseteq Bytes /\ DataBytes \subseteq Bytes /\ Options \subseteq Bytes
  BY BytesAssumption DEF IAC, SB, SE, NOP, Commands, WILL, WONT, DO, DONT, Bytes
<1>2. CASE m.kind = "data"
  <2>1. m.byte \in Bytes
    BY <1>1, <1>2 DEF Messages
  <2> QED
    BY <1>2, <2>1, StuffedByte DEF Encoded
<1>3. CASE m.kind = "command"
  <2>1. m.cmd \in Bytes /\ m.opt \in Bytes
    BY <1>1, <1>3 DEF Messages
  <2> QED
    BY <1>1, <1>3, <2>1 DEF Encoded
<1>4. CASE m.kind = "sub"
  <2>1. m.opt \in Bytes /\ m.payload \in Seq(Bytes)
    BY <1>1, <1>4, PayloadsAssumption DEF Messages
  <2> DEFINE s == StuffedAll(m.payload)
  <2>2. s \in Seq(Bytes)
    BY <1>1, <2>1, StuffedSequence
  <2> HIDE DEF s
  <2>3. <<IAC, SB, m.opt>> \o s \o <<IAC, SE>> \in Seq(Bytes)
    BY <1>1, <2>1, <2>2
  <2>4. <<IAC, SB, m.opt>> \o s \o <<IAC, SE>> # <<>>
    BY <1>1, <2>1, <2>2
  <2>5. Encoded(m) = <<IAC, SB, m.opt>> \o s \o <<IAC, SE>>
    BY <1>4 DEF Encoded, s
  <2> QED
    BY <2>3, <2>4, <2>5
<1>5. CASE m.kind = "cut"
  <2>1. m.opt \in Bytes
    BY <1>1, <1>5 DEF Messages
  <2> QED
    BY <1>1, <1>5, <2>1 DEF Encoded
<1>6. CASE m.kind = "nop"
  BY <1>1, <1>6 DEF Encoded
<1>7. m.kind \in {"data", "command", "sub", "cut", "nop"}
  BY DEF Messages
<1> QED
  BY <1>2, <1>3, <1>4, <1>5, <1>6, <1>7

-----------------------------------------------------------------------------
(* Type. *)

\* Between two calls nothing is being decoded and nothing is being written.
AtRest ==
    /\ task # "reading" => raw = <<>> /\ buf = <<>>
    /\ task # "writing" => todo = <<>> /\ out = <<>>

TypeInv == TypeOK /\ AtRest

\* The answers to a command.
LEMMA AnswersType ==
    ASSUME TypeOK, NEW b \in Bytes
    PROVE  /\ WillAnswers(b) \in Seq(Sends) /\ WontAnswers(b) \in Seq(Sends)
           /\ DoAnswers(b) \in Seq(Sends) /\ DontAnswers(b) \in Seq(Sends)
           /\ SubnegAnswers \in Seq(Sends)
<1>1. \A cmd \in Commands : Command(cmd, b) \in Sends
  BY DEF Command, Sends
<1>2. WindowSize \in Sends /\ TerminalType \in Sends
  BY DEF WindowSize, TerminalType, Sends
<1>3. WILL \in Commands /\ WONT \in Commands /\ DO \in Commands /\ DONT \in Commands
  BY DEF Commands
<1> HIDE DEF Sends, Commands
<1>4. WillAnswers(b) \in Seq(Sends) /\ WontAnswers(b) \in Seq(Sends)
  BY <1>1, <1>3 DEF WillAnswers, WontAnswers
<1>5. DoAnswers(b) \in Seq(Sends) /\ DontAnswers(b) \in Seq(Sends)
  BY <1>1, <1>2, <1>3 DEF DoAnswers, DontAnswers
<1>6. SubnegAnswers \in Seq(Sends)
  BY <1>2 DEF SubnegAnswers
<1> QED
  BY <1>4, <1>5, <1>6
\* One disjunct of Takes: what every byte of a chunk leaves alone.
LEMMA TakesType ==
    ASSUME TypeInv, NEW st, Takes(st)
    PROVE  /\ c \in Bytes /\ raw' \in Seq(Bytes) /\ Len(raw') = Len(raw) - 1 /\ Len(raw) \in Nat
           /\ task = "reading" /\ raw # <<>>
  BY HeadTailProperties, LenProperties DEF TypeInv, TypeOK, Takes, c

\* What recv() returns, and what it leaves.
LEMMA RecvSplits ==
    ASSUME NEW s \in Seq(Bytes), NEW n \in 1..Len(s)
    PROVE  /\ SubSeq(s, 1, n) \in Seq(Bytes) /\ Len(SubSeq(s, 1, n)) = n
           /\ SubSeq(s, n + 1, Len(s)) \in Seq(Bytes)
           /\ SubSeq(s, 1, n) \o SubSeq(s, n + 1, Len(s)) = s
  OBVIOUS

\* A byte added to the answer of a subnegotiation.
LEMMA SbAppendType ==
    ASSUME TypeInv, NEW b \in Bytes, SbAppend(b)
    PROVE  sbBuf' \in Seq(Bytes) /\ Len(sbBuf') <= SbBufLen
  BY LengthsAssumption, LenProperties DEF TypeInv, TypeOK, SbAppend

LEMMA TypeInit == Init => TypeInv
<1> SUFFICES ASSUME Init PROVE TypeInv
  OBVIOUS
<1>1. 0 \in Bytes
  BY DEF Bytes
<1>2. nawsEnabled \in BOOLEAN /\ nawsSet \in BOOLEAN /\ sbHaveOpt \in BOOLEAN
  BY Zenon DEF Init
<1>3. \A S : <<>> \in Seq(S)
  BY EmptySeq
<1>4. Len(<<>>) = 0
  OBVIOUS
<1> HIDE DEF Messages, Sends, Bytes, Commands
<1> QED
  BY <1>1, <1>2, <1>3, <1>4, LengthsAssumption DEF Init, TypeInv, TypeOK, AtRest

LEMMA TypeStep == TypeInv /\ [Next]_vars => TypeInv'
<1> SUFFICES ASSUME TypeInv, [Next]_vars PROVE TypeInv'
  OBVIOUS
<1> USE DEF TypeInv
<1>1. ASSUME NEW m \in Messages, ServerSends(m) PROVE TypeInv'
  <2>1. Encoded(m) \in Seq(Bytes)
    BY EncodedMessage
  <2>2. messages' \in Seq(Messages) /\ wire' \in Seq(Bytes)
    BY <1>1, <2>1 DEF ServerSends, TypeOK
  <2> QED
    BY <1>1, <2>2 DEF ServerSends, TypeOK, AtRest, decoderVars, nawsVars, readVars, writeVars
<1>2. CASE SendNaws
  <2>1. WindowSize \in Sends
    BY DEF WindowSize, Sends
  <2>2. up' \in Seq(Sends)
    BY <1>2, <2>1 DEF SendNaws, TypeOK
  <2>3. nawsSet' \in BOOLEAN
    BY <1>2, Zenon DEF SendNaws
  <2> QED
    BY <1>2, <2>2, <2>3 DEF SendNaws, TypeOK, AtRest, decoderVars, readVars, writeVars, serverVars
<1>3. ASSUME NEW n \in 1..RawLen, Recv(n) PROVE TypeInv'
  <2>1. n \in 1..Len(wire)
    BY <1>3, LengthsAssumption, LenProperties DEF Recv, TypeOK
  <2>2. raw' \in Seq(Bytes) /\ Len(raw') = n /\ wire' \in Seq(Bytes)
    BY <1>3, <2>1, RecvSplits DEF Recv, TypeOK
  <2>3. Len(raw') + Len(buf') <= RawLen
    BY <1>3, <2>2, LengthsAssumption DEF Recv, TypeOK, AtRest
  <2> QED
    BY <1>3, <2>2, <2>3 DEF Recv, TypeOK, AtRest, decoderVars, nawsVars, writeVars
<1>4. CASE RecvNothing
  BY <1>4 DEF RecvNothing, vars, TypeOK, AtRest, decoderVars, nawsVars, readVars, writeVars, serverVars
<1>5. CASE Returns
  <2>1. delivered' \in Seq(Bytes) /\ buf' = <<>> /\ buf' \in Seq(Bytes)
    BY <1>5, EmptySeq DEF Returns, TypeOK
  <2>2. Len(raw') + Len(buf') <= RawLen
    BY <1>5, LengthsAssumption DEF Returns
  <2> QED
    BY <1>5, <2>1, <2>2 DEF Returns, TypeOK, AtRest, decoderVars, nawsVars, writeVars, serverVars
<1>6. CASE DataByte
  <2>1. Takes("data")
    BY <1>6 DEF DataByte
  <2>2. /\ c \in Bytes /\ raw' \in Seq(Bytes) /\ Len(raw') = Len(raw) - 1 /\ Len(raw) \in Nat
        /\ task = "reading"
    BY <2>1, TakesType
  <2>3. buf' \in Seq(Bytes) /\ Len(buf') <= Len(buf) + 1 /\ Len(buf') \in Nat /\ Len(buf) \in Nat
    <3>1. CASE c = IAC
      BY <1>6, <3>1, LenProperties DEF DataByte, TypeOK
    <3>2. CASE c # IAC
      <4>1. buf' = Append(buf, c) /\ buf \in Seq(Bytes)
        BY <1>6, <3>2 DEF DataByte, TypeOK
      <4> HIDE DEF c
      <4> QED
        BY <2>2, <4>1, AppendProperties, LenProperties
    <3> QED
      BY <3>1, <3>2
  <2>4. Len(raw') + Len(buf') <= RawLen
    BY <2>2, <2>3, LengthsAssumption DEF TypeOK
  <2>5. state' \in {"data", "iac"}
    BY <1>6 DEF DataByte, Takes
  <2> QED
    BY <1>6, <2>1, <2>2, <2>3, <2>4, <2>5
    DEF DataByte, Takes, TypeOK, AtRest, writeVars, serverVars
<1>7. CASE IacByte
  <2>1. Takes("iac")
    BY <1>7 DEF IacByte
  <2>2. /\ c \in Bytes /\ raw' \in Seq(Bytes) /\ Len(raw') = Len(raw) - 1 /\ Len(raw) \in Nat
        /\ task = "reading"
    BY <2>1, TakesType
  <2>3. buf' \in Seq(Bytes) /\ Len(buf') <= Len(buf) + 1 /\ Len(buf') \in Nat /\ Len(buf) \in Nat
    BY <1>7, <2>2, SMTT(40) DEF IacByte, TypeOK, IAC, Bytes
  <2>4. Len(raw') + Len(buf') <= RawLen
    BY <2>2, <2>3, LengthsAssumption DEF TypeOK
  <2>5. /\ state' \in {"data", "cmd_opt", "sb"} /\ pendingCmd' \in Commands \cup {0}
        /\ state' = "cmd_opt" => pendingCmd' # 0
    BY <1>7, SMTT(40) DEF IacByte, TypeOK, Commands, WILL, WONT, DO, DONT
  <2>6. sbBuf' \in Seq(Bytes) /\ Len(sbBuf') <= SbBufLen
    <3>1. sbBuf' = <<>> \/ sbBuf' = sbBuf
      BY <1>7 DEF IacByte
    <3>2. sbBuf \in Seq(Bytes) /\ Len(sbBuf) <= SbBufLen
      BY DEF TypeOK
    <3>3. <<>> \in Seq(Bytes) /\ Len(<<>>) <= SbBufLen
      BY LengthsAssumption, EmptySeq
    <3> QED
      BY <3>1, <3>2, <3>3, Zenon
  <2>7. sbHaveOpt' \in BOOLEAN
    BY <1>7, Zenon DEF IacByte, TypeOK
  <2> QED
    BY <1>7, <2>1, <2>2, <2>3, <2>4, <2>5, <2>6, <2>7
    DEF IacByte, Takes, TypeOK, AtRest, writeVars, serverVars
<1>8. CASE CmdOptByte
  <2>1. Takes("cmd_opt")
    BY <1>8 DEF CmdOptByte
  <2>2. /\ c \in Bytes /\ raw' \in Seq(Bytes) /\ Len(raw') = Len(raw) - 1 /\ Len(raw) \in Nat
        /\ task = "reading"
    BY <2>1, TakesType
  <2>3. Len(raw') + Len(buf') <= RawLen /\ buf' = buf /\ buf' \in Seq(Bytes)
    BY <1>8, <2>2, LengthsAssumption, LenProperties DEF CmdOptByte, TypeOK
  <2>4. up' \in Seq(Sends)
    BY <1>8, <2>2, AnswersType DEF CmdOptByte, TypeOK
  <2>5. nawsEnabled' \in BOOLEAN
    BY <1>8, Zenon DEF CmdOptByte
  <2> QED
    BY <1>8, <2>1, <2>2, <2>3, <2>4, <2>5
    DEF CmdOptByte, Takes, TypeOK, AtRest, writeVars, serverVars
<1>9. CASE SbByte
  <2>1. Takes("sb")
    BY <1>9 DEF SbByte
  <2>2. /\ c \in Bytes /\ raw' \in Seq(Bytes) /\ Len(raw') = Len(raw) - 1 /\ Len(raw) \in Nat
        /\ task = "reading"
    BY <2>1, TakesType
  <2>3. Len(raw') + Len(buf') <= RawLen /\ buf' = buf /\ buf' \in Seq(Bytes)
    BY <1>9, <2>2, LengthsAssumption, LenProperties DEF SbByte, TypeOK
  <2>4. sbBuf' \in Seq(Bytes) /\ Len(sbBuf') <= SbBufLen
    BY <1>9, <2>2, SbAppendType DEF SbByte, TypeOK
  <2>5. sbHaveOpt' \in BOOLEAN
    BY <1>9, Zenon DEF SbByte, TypeOK
  <2>6. sbOpt' \in Bytes /\ state' \in {"sb", "sb_iac"}
    BY <1>9, <2>1, <2>2 DEF SbByte, Takes, TypeOK
  <2> QED
    BY <1>9, <2>1, <2>2, <2>3, <2>4, <2>5, <2>6
    DEF SbByte, Takes, TypeOK, AtRest, writeVars, serverVars
<1>10. CASE SbIacByte
  <2>1. Takes("sb_iac")
    BY <1>10 DEF SbIacByte
  <2>2. /\ c \in Bytes /\ raw' \in Seq(Bytes) /\ Len(raw') = Len(raw) - 1 /\ Len(raw) \in Nat
        /\ task = "reading"
    BY <2>1, TakesType
  <2>3. Len(raw') + Len(buf') <= RawLen /\ buf' = buf /\ buf' \in Seq(Bytes)
    BY <1>10, <2>2, LengthsAssumption, LenProperties DEF SbIacByte, TypeOK
  <2>4. sbBuf' \in Seq(Bytes) /\ Len(sbBuf') <= SbBufLen
    <3>1. IAC \in Bytes
      BY DEF IAC, Bytes
    <3> QED
      BY <1>10, <3>1, SbAppendType DEF SbIacByte, TypeOK
  <2>5. state' \in {"data", "sb"} /\ up' \in Seq(Sends)
    <3>1. SubnegAnswers \in Seq(Sends) /\ up \in Seq(Sends)
      BY <2>2, AnswersType DEF TypeOK
    <3>2. up' = up \o SubnegAnswers \/ up' = up
      BY <1>10 DEF SbIacByte
    <3>3. state' \in {"data", "sb"}
      BY <1>10 DEF SbIacByte
    <3> QED
      BY <3>1, <3>2, <3>3, ConcatProperties
  <2> QED
    BY <1>10, <2>1, <2>2, <2>3, <2>4, <2>5
    DEF SbIacByte, Takes, TypeOK, AtRest, writeVars, serverVars
<1>11. ASSUME NEW data \in BoundedSeq(DataBytes, 4) \ {<<>>}, Write(data) PROVE TypeInv'
  <2>1. data \in Seq(DataBytes)
    <3>1. PICK n \in 0..4 : data \in [1..n -> DataBytes]
      BY Zenon DEF BoundedSeq, SeqOf
    <3> QED
      BY <3>1, SeqDef
  <2>2. todo' \in Seq(DataBytes) /\ typed' \in Seq(DataBytes)
    BY <1>11, <2>1 DEF Write, TypeOK
  <2> QED
    BY <1>11, <2>2 DEF Write, TypeOK, AtRest, decoderVars, nawsVars, readVars, serverVars
<1>12. CASE StuffByte
  <2> DEFINE s == Stuffed(Head(todo))
  <2>1. Head(todo) \in Bytes /\ Tail(todo) \in Seq(DataBytes)
    BY <1>12, BytesAssumption DEF StuffByte, TypeOK
  <2>2. s \in Seq(Bytes) /\ Len(s) \in 1..2
    BY <2>1, StuffedByte
  <2>3. Len(out) \in Nat /\ Data(out) \in Sends
    BY LenProperties DEF TypeOK, Data, Sends
  <2>4. up' \in Seq(Sends)
    BY <1>12, <2>3 DEF StuffByte, TypeOK
  <2> HIDE DEF s
  <2>5. out' = (IF Full THEN <<>> ELSE out) \o s
    BY <1>12 DEF StuffByte, s
  <2>6. out' \in Seq(Bytes) /\ Len(out') <= SendBufLen
    <3>1. CASE Full
      BY <2>2, <2>5, <3>1, LengthsAssumption
    <3>2. CASE ~Full
      <4>1. out' = out \o s
        BY <2>5, <3>2
      <4>2. out' \in Seq(Bytes) /\ Len(out') = Len(out) + Len(s)
        BY <2>2, <4>1 DEF TypeOK
      <4>3. Len(out) < SendBufLen - 2
        BY <2>3, <3>2, LengthsAssumption DEF Full
      <4>4. Len(out') <= SendBufLen
        <5>1. \A k \in Nat, l \in 1..2 : k < SendBufLen - 2 => k + l <= SendBufLen
          BY LengthsAssumption
        <5> QED
          BY <2>2, <2>3, <4>2, <4>3, <5>1
      <4> QED
        BY <4>2, <4>4
    <3> QED
      BY <3>1, <3>2
  <2> QED
    BY <1>12, <2>1, <2>4, <2>6
    DEF StuffByte, TypeOK, AtRest, decoderVars, nawsVars, readVars, serverVars
<1>13. CASE Flush
  <2>1. Data(out) \in Sends
    BY DEF TypeOK, Data, Sends
  <2>2. up' \in Seq(Sends) /\ out' = <<>> /\ out' \in Seq(Bytes) /\ Len(out') <= SendBufLen
    BY <1>13, <2>1, EmptySeq, LengthsAssumption DEF Flush, TypeOK
  <2> QED
    BY <1>13, <2>2
    DEF Flush, TypeOK, AtRest, decoderVars, nawsVars, readVars, serverVars
<1>14. CASE UNCHANGED vars
  BY <1>14 DEF vars, TypeOK, AtRest, decoderVars, nawsVars, readVars, writeVars, serverVars
<1> QED
  BY <1>1, <1>2, <1>3, <1>4, <1>5, <1>6, <1>7, <1>8, <1>9, <1>10, <1>11, <1>12, <1>13, <1>14
  DEF Next, Read

\* No buffer of the client overflows: sb_buf keeps to its length whatever the
\* server sends, the data of a chunk fits into the caller's buffer, and the
\* doubled IACs of what is written fit into the buffer of telnet_client_write()
\* (telnet_client.c:92-100, 180-219, 284-304).
THEOREM TelnetTypeCorrect == Spec => []TypeOK
<1>1. Spec => []TypeInv
  BY TypeInit, TypeStep, PTL DEF Spec
<1> QED
  BY <1>1, PTL DEF TypeInv
-----------------------------------------------------------------------------
(* The size of the terminal. *)

\* SizeReported of any sequence of sends.
Reported(q) ==
    \A i \in DOMAIN q :
        /\ q[i] = Command(WILL, NAWS) => i < Len(q) /\ q[i + 1] = WindowSize
        /\ q[i] = WindowSize => i > 1 /\ q[i - 1] = Command(WILL, NAWS)

\* No read comes before the size is known, so that no WILL NAWS can have gone
\* out without it.
SizeInv ==
    /\ task = "connected" <=> ~nawsSet
    /\ task = "connected" => up = <<>> /\ ~nawsEnabled
    /\ Reported(up)

\* A send that is neither of the two changes nothing, and both together keep
\* the order.
LEMMA ReportedOther ==
    ASSUME NEW q \in Seq(Sends), Reported(q), NEW a \in Sends,
           a # Command(WILL, NAWS), a # WindowSize
    PROVE  Reported(Append(q, a))
<1> DEFINE p == Append(q, a)
<1>1. /\ p \in Seq(Sends) /\ Len(p) = Len(q) + 1 /\ p[Len(q) + 1] = a
      /\ \A i \in 1..Len(q) : p[i] = q[i]
      /\ Len(q) \in Nat /\ DOMAIN q = 1..Len(q) /\ DOMAIN p = 1..Len(p)
  BY AppendProperties, LenProperties
<1> HIDE DEF p
<1>2. ASSUME NEW i \in DOMAIN p
      PROVE  /\ p[i] = Command(WILL, NAWS) => i < Len(p) /\ p[i + 1] = WindowSize
             /\ p[i] = WindowSize => i > 1 /\ p[i - 1] = Command(WILL, NAWS)
  <2>1. CASE i = Len(q) + 1
    BY <1>1, <2>1
  <2>2. CASE i # Len(q) + 1
    <3>1. i \in 1..Len(q) /\ i \in DOMAIN q /\ p[i] = q[i]
      BY <1>1, <2>2
    <3>2. /\ q[i] = Command(WILL, NAWS) => i < Len(q) /\ q[i + 1] = WindowSize
          /\ q[i] = WindowSize => i > 1 /\ q[i - 1] = Command(WILL, NAWS)
      BY <3>1 DEF Reported
    <3>3. i < Len(q) => i < Len(p) /\ p[i + 1] = q[i + 1]
      BY <1>1, <3>1
    <3>4. i > 1 => p[i - 1] = q[i - 1]
      BY <1>1, <3>1
    <3> QED
      BY <3>1, <3>2, <3>3, <3>4
  <2> QED
    BY <2>1, <2>2
<1> QED
  BY <1>2 DEF Reported, p

LEMMA ReportedBoth ==
    ASSUME NEW q \in Seq(Sends), Reported(q)
    PROVE  Reported(q \o <<Command(WILL, NAWS), WindowSize>>)
<1> DEFINE will == Command(WILL, NAWS)
           size == WindowSize
           two == <<will, size>>
           p == q \o two
<1>1. will # size
  BY DEF Command, WindowSize
<1>2. will \in Sends /\ size \in Sends
  BY DEF Command, WindowSize, Sends, Bytes, Commands, WILL, NAWS
<1> HIDE DEF will, size
<1>3. two \in Seq(Sends) /\ Len(two) = 2 /\ two[1] = will /\ two[2] = size
  BY <1>2
<1>4. Len(q) \in Nat /\ DOMAIN q = 1..Len(q)
  BY LenProperties
<1> HIDE DEF two
<1>5. /\ p \in Seq(Sends) /\ Len(p) = Len(q) + 2 /\ DOMAIN p = 1..Len(p)
      /\ \A i \in 1..(Len(q) + 2) : p[i] = IF i <= Len(q) THEN q[i] ELSE two[i - Len(q)]
  <2>1. /\ q \o two \in Seq(Sends) /\ Len(q \o two) = Len(q) + Len(two)
        /\ \A i \in 1..(Len(q) + Len(two)) :
              (q \o two)[i] = IF i <= Len(q) THEN q[i] ELSE two[i - Len(q)]
    BY <1>3, ConcatProperties
  <2>2. DOMAIN p = 1..Len(p)
    BY <2>1, LenProperties
  <2> QED
    BY <1>3, <2>1, <2>2
<1> HIDE DEF p
<1>6. p[Len(q) + 1] = will /\ p[Len(q) + 2] = size
  BY <1>3, <1>4, <1>5
<1>7. ASSUME NEW i \in DOMAIN p
      PROVE  /\ p[i] = will => i < Len(p) /\ p[i + 1] = size
             /\ p[i] = size => i > 1 /\ p[i - 1] = will
  <2>1. CASE i = Len(q) + 1
    BY <1>1, <1>4, <1>5, <1>6, <2>1
  <2>2. CASE i = Len(q) + 2
    <3>1. i - 1 = Len(q) + 1 /\ i > 1
      BY <1>4, <2>2
    <3> QED
      BY <1>1, <1>4, <1>5, <1>6, <2>2, <3>1
  <2>3. CASE i # Len(q) + 1 /\ i # Len(q) + 2
    <3>1. i \in 1..Len(q) /\ i \in DOMAIN q /\ p[i] = q[i]
      BY <1>4, <1>5, <2>3
    <3>2. /\ q[i] = will => i < Len(q) /\ q[i + 1] = size
          /\ q[i] = size => i > 1 /\ q[i - 1] = will
      BY <3>1 DEF Reported, will, size
    <3>3. i < Len(q) => i < Len(p) /\ p[i + 1] = q[i + 1]
      BY <1>4, <1>5, <3>1
    <3>4. i > 1 => p[i - 1] = q[i - 1]
      BY <1>4, <1>5, <3>1
    <3> QED
      BY <3>1, <3>2, <3>3, <3>4
  <2> QED
    BY <2>1, <2>2, <2>3
<1> QED
  BY <1>7 DEF Reported, p, two, will, size

\* What a byte that completes a command or a subnegotiation sends.
LEMMA AnswersReported ==
    ASSUME TypeInv, nawsSet, Reported(up), NEW b \in Bytes
    PROVE  /\ Reported(up \o WillAnswers(b)) /\ Reported(up \o WontAnswers(b))
           /\ Reported(up \o DoAnswers(b)) /\ Reported(up \o DontAnswers(b))
           /\ Reported(up \o SubnegAnswers)
<1>1. up \in Seq(Sends)
  BY DEF TypeInv, TypeOK
<1>2. ASSUME NEW cmd \in Commands, cmd # WILL \/ b # NAWS
      PROVE  Reported(up \o <<Command(cmd, b)>>)
  <2> DEFINE x == Command(cmd, b)
  <2>1. x \in Sends /\ x # Command(WILL, NAWS) /\ x # WindowSize
    BY <1>2 DEF Command, WindowSize, Sends
  <2> HIDE DEF x
  <2>2. up \o <<x>> = Append(up, x)
    BY <1>1, <2>1
  <2>3. Reported(Append(up, x))
    BY <1>1, <2>1, ReportedOther
  <2>4. Reported(up \o <<x>>)
    BY <2>2, <2>3, Zenon
  <2> QED
    BY <2>4 DEF x
<1>3. /\ WILL \in Commands /\ WONT \in Commands /\ DO \in Commands /\ DONT \in Commands
      /\ WONT # WILL /\ DO # WILL /\ DONT # WILL
  BY DEF Commands, WILL, WONT, DO, DONT
<1>4. Reported(up \o WillAnswers(b)) /\ Reported(up \o WontAnswers(b)) /\ Reported(up \o DontAnswers(b))
  <2>1. /\ Reported(up \o <<Command(DO, b)>>) /\ Reported(up \o <<Command(DONT, b)>>)
        /\ Reported(up \o <<Command(WONT, b)>>)
    BY <1>2, <1>3
  <2>2. WillAnswers(b) = <<Command(DO, b)>> \/ WillAnswers(b) = <<Command(DONT, b)>>
    BY DEF WillAnswers
  <2>3. WontAnswers(b) = <<Command(DONT, b)>> /\ DontAnswers(b) = <<Command(WONT, b)>>
    BY DEF WontAnswers, DontAnswers
  <2> QED
    BY <2>1, <2>2, <2>3, Zenon
<1>5. Reported(up \o DoAnswers(b))
  <2>1. CASE b = NAWS
    <3>1. DoAnswers(b) = <<Command(WILL, NAWS), WindowSize>>
      BY <2>1 DEF DoAnswers
    <3> QED
      BY <1>1, <3>1, ReportedBoth
  <2>2. CASE b # NAWS
    <3>1. Reported(up \o <<Command(WILL, b)>>) /\ Reported(up \o <<Command(WONT, b)>>)
      BY <1>2, <1>3, <2>2
    <3>2. DoAnswers(b) = <<Command(WILL, b)>> \/ DoAnswers(b) = <<Command(WONT, b)>>
      BY <2>2 DEF DoAnswers
    <3> QED
      BY <3>1, <3>2, Zenon
  <2> QED
    BY <2>1, <2>2
<1>6. Reported(up \o SubnegAnswers)
  <2>1. TerminalType \in Sends /\ TerminalType # Command(WILL, NAWS) /\ TerminalType # WindowSize
    BY DEF TerminalType, Command, WindowSize, Sends
  <2>2. Reported(Append(up, TerminalType))
    BY <1>1, <2>1, ReportedOther
  <2>3. up \o <<TerminalType>> = Append(up, TerminalType) /\ up \o <<>> = up
    BY <1>1, <2>1
  <2>4. SubnegAnswers = <<TerminalType>> \/ SubnegAnswers = <<>>
    BY DEF SubnegAnswers
  <2> QED
    BY <2>2, <2>3, <2>4, Zenon
<1> QED
  BY <1>4, <1>5, <1>6

LEMMA SizeStep == TypeInv /\ SizeInv /\ [Next]_vars => SizeInv'
<1> SUFFICES ASSUME TypeInv, SizeInv, [Next]_vars PROVE SizeInv'
  OBVIOUS
<1>1. /\ up \in Seq(Sends) /\ Reported(up)
      /\ task = "connected" <=> ~nawsSet
      /\ task = "connected" => up = <<>> /\ ~nawsEnabled
  BY DEF TypeInv, TypeOK, SizeInv
<1>2. CASE UNCHANGED <<task, nawsVars, up>>
  BY <1>1, <1>2 DEF SizeInv, nawsVars
<1>3. CASE SendNaws
  <2>1. up' = up /\ task' = "idle" /\ nawsSet' = TRUE
    BY <1>1, <1>3 DEF SendNaws
  <2> QED
    BY <1>1, <2>1 DEF SizeInv
<1>4. ASSUME task # "connected", task' # "connected", nawsSet' = nawsSet, Reported(up')
      PROVE  SizeInv'
  BY <1>1, <1>4 DEF SizeInv
<1>5. ASSUME NEW a \in Seq(Bytes) PROVE Reported(Append(up, Data(a)))
  <2>1. Data(a) \in Sends /\ Data(a) # Command(WILL, NAWS) /\ Data(a) # WindowSize
    BY DEF Data, Command, WindowSize, Sends
  <2> QED
    BY <1>1, <2>1, ReportedOther
<1>6. out \in Seq(Bytes)
  BY DEF TypeInv, TypeOK
<1>7. ASSUME NEW st, Takes(st) PROVE c \in Bytes /\ nawsSet /\ task # "connected"
  <2>1. c \in Bytes /\ task = "reading"
    BY <1>7, TakesType
  <2> QED
    BY <1>1, <2>1
<1>8. ASSUME NEW m \in Messages, ServerSends(m) PROVE SizeInv'
  BY <1>2, <1>8 DEF ServerSends, nawsVars
<1>9. ASSUME NEW n \in 1..RawLen, Recv(n) PROVE SizeInv'
  BY <1>1, <1>4, <1>9 DEF Recv, nawsVars
<1>10. CASE RecvNothing
  BY <1>2, <1>10 DEF RecvNothing, vars
<1>11. CASE Returns
  BY <1>1, <1>4, <1>11 DEF Returns, nawsVars
<1>12. CASE DataByte
  BY <1>1, <1>4, <1>7, <1>12 DEF DataByte, Takes
<1>13. CASE IacByte
  BY <1>1, <1>4, <1>7, <1>13 DEF IacByte, Takes
<1>14. CASE CmdOptByte
  <2>1. /\ Reported(up \o WillAnswers(c)) /\ Reported(up \o WontAnswers(c))
        /\ Reported(up \o DoAnswers(c)) /\ Reported(up \o DontAnswers(c))
    BY <1>1, <1>7, <1>14, AnswersReported DEF CmdOptByte
  <2>2. \/ up' = up \o WillAnswers(c) \/ up' = up \o WontAnswers(c)
        \/ up' = up \o DoAnswers(c) \/ up' = up \o DontAnswers(c)
    BY <1>14 DEF CmdOptByte
  <2>3. Reported(up')
    BY <2>1, <2>2, Zenon
  <2> QED
    BY <1>4, <1>7, <1>14, <2>3 DEF CmdOptByte, Takes
<1>15. CASE SbByte
  BY <1>1, <1>4, <1>7, <1>15 DEF SbByte, Takes
<1>16. CASE SbIacByte
  <2>1. Reported(up \o SubnegAnswers)
    BY <1>1, <1>7, <1>16, AnswersReported DEF SbIacByte
  <2>2. up' = up \o SubnegAnswers \/ up' = up
    BY <1>16 DEF SbIacByte
  <2>3. Reported(up')
    BY <1>1, <2>1, <2>2, Zenon
  <2> QED
    BY <1>4, <1>7, <1>16, <2>3 DEF SbIacByte, Takes
<1>17. ASSUME NEW data \in BoundedSeq(DataBytes, 4) \ {<<>>}, Write(data) PROVE SizeInv'
  BY <1>1, <1>4, <1>17 DEF Write, nawsVars
<1>18. CASE StuffByte
  <2>1. Reported(up')
    BY <1>1, <1>5, <1>6, <1>18 DEF StuffByte
  <2> QED
    BY <1>4, <1>18, <2>1 DEF StuffByte, nawsVars
<1>19. CASE Flush
  <2>1. Reported(up')
    BY <1>1, <1>5, <1>6, <1>19 DEF Flush
  <2> QED
    BY <1>4, <1>19, <2>1 DEF Flush, nawsVars
<1>20. CASE UNCHANGED vars
  BY <1>2, <1>20 DEF vars
<1> QED
  BY <1>3, <1>8, <1>9, <1>10, <1>11, <1>12, <1>13, <1>14, <1>15, <1>16, <1>17, <1>18, <1>19, <1>20
  DEF Next, Read

\* The size follows every WILL NAWS and goes to no server that has not asked for
\* it, however often the server asks (telnet_client.h:28, telnet_client.c:35-58,
\* 121-133, 242-249).
THEOREM TelnetSizeReported == Spec => []SizeReported
<1>1. Init => SizeInv
  BY DEF Init, SizeInv, Reported
<1>2. TypeInv /\ SizeInv => SizeReported
  BY DEF SizeInv, Reported, SizeReported
<1>3. Spec => [](TypeInv /\ SizeInv)
  BY <1>1, TypeInit, TypeStep, SizeStep, PTL DEF Spec
<1> QED
  BY <1>2, <1>3, PTL
-----------------------------------------------------------------------------
(* What the server reads in the bytes of one send. *)

\* A set that holds n + 1, and every number of which it holds the next one or
\* two, holds all.
LEMMA DownFrom ==
    ASSUME NEW n \in Nat, NEW T, n + 1 \in T,
           \A i \in 1..n : i + 1 \in T /\ (i < n => i + 2 \in T) => i \in T
    PROVE  \A i \in 1..(n + 1) : i \in T
<1> DEFINE U == {k \in 0..n : \A i \in 1..(n + 1) : i >= n + 1 - k => i \in T}
<1>1. 0 \in U
  <2>1. ASSUME NEW i \in 1..(n + 1), i >= n + 1 - 0 PROVE i \in T
    <3>1. i = n + 1
      BY <2>1
    <3> QED
      BY <3>1
  <2> QED
    BY <2>1
<1>2. ASSUME NEW k \in 0..n, k < n, k \in U PROVE k + 1 \in U
  <2>1. ASSUME NEW i \in 1..(n + 1), i >= n + 1 - (k + 1) PROVE i \in T
    <3>1. CASE i >= n + 1 - k
      BY <1>2, <3>1
    <3>2. CASE ~(i >= n + 1 - k)
      <4>1. i \in 1..n /\ i + 1 \in 1..(n + 1) /\ i + 1 >= n + 1 - k
        BY <1>2, <2>1, <3>2
      <4>2. i < n => i + 2 \in 1..(n + 1) /\ i + 2 >= n + 1 - k
        BY <4>1
      <4>3. i + 1 \in T /\ (i < n => i + 2 \in T)
        BY <1>2, <4>1, <4>2
      <4> QED
        BY <4>1, <4>3
    <3> QED
      BY <3>1, <3>2
  <2> QED
    BY <1>2, <2>1
<1> HIDE DEF U
<1>3. \A k \in 0..n : k \in U
  BY <1>1, <1>2, UpTo
<1>4. n \in U
  BY <1>3
<1> QED
  BY <1>4 DEF U

\* The body of the recursive function of Unstuffed(), and the function itself.
UnstuffedFrom(s, g, i) ==
    IF i > Len(s) THEN <<>>
    ELSE IF s[i] # IAC THEN <<s[i]>> \o g[i + 1]
    ELSE IF i < Len(s) /\ s[i + 1] = IAC THEN <<IAC>> \o g[i + 2]
    ELSE <<-1>> \o g[i + 1]

Unstuffs(s, g) == g = [i \in 1..(Len(s) + 1) |-> UnstuffedFrom(s, g, i)]

\* There is such a function.
LEMMA UnstuffingExists ==
    ASSUME NEW s \in Seq(Bytes)
    PROVE  \E g : Unstuffs(s, g)
<1> DEFINE n == Len(s)
           Part(k, g) == \A i \in k..(n + 1) : g[i] = UnstuffedFrom(s, g, i)
           T == {k \in 1..(n + 1) : \E g : Part(k, g)}
<1>1. n \in Nat
  BY LenProperties
<1> HIDE DEF n
<1>2. n + 1 \in T
  <2> DEFINE g == [i \in 1..(n + 1) |-> <<>>]
  <2>1. \A i \in (n + 1)..(n + 1) : g[i] = UnstuffedFrom(s, g, i)
    BY <1>1 DEF UnstuffedFrom, n
  <2> HIDE DEF g
  <2> QED
    BY <1>1, <2>1
<1>3. ASSUME NEW k \in 1..n, k + 1 \in T PROVE k \in T
  <2>1. PICK g : Part(k + 1, g)
    BY <1>3
  <2> DEFINE h == [i \in 1..(n + 1) |-> IF i = k THEN UnstuffedFrom(s, g, k) ELSE g[i]]
  <2>2. \A i \in (k + 1)..(n + 1) : h[i] = g[i]
    BY <1>1
  <2>3. h[k] = UnstuffedFrom(s, g, k)
    BY <1>1
  <2> HIDE DEF h
  <2>4. ASSUME NEW i \in k..(n + 1) PROVE UnstuffedFrom(s, h, i) = UnstuffedFrom(s, g, i)
    <3>1. CASE i > n
      BY <3>1 DEF UnstuffedFrom, n
    <3>2. CASE ~(i > n)
      <4>1. i + 1 \in (k + 1)..(n + 1) /\ (i < n => i + 2 \in (k + 1)..(n + 1))
        BY <1>1, <3>2
      <4>2. h[i + 1] = g[i + 1] /\ (i < n => h[i + 2] = g[i + 2])
        BY <2>2, <4>1
      <4> QED
        BY <4>2, Zenon DEF UnstuffedFrom, n
    <3> QED
      BY <3>1, <3>2
  <2>5. ASSUME NEW i \in k..(n + 1) PROVE h[i] = UnstuffedFrom(s, h, i)
    <3>1. CASE i = k
      BY <2>3, <2>4, <3>1
    <3>2. CASE i # k
      <4>1. i \in (k + 1)..(n + 1)
        BY <1>1, <3>2
      <4> QED
        BY <2>1, <2>2, <2>4, <4>1
    <3> QED
      BY <3>1, <3>2
  <2>6. k \in 1..(n + 1)
    BY <1>1
  <2> QED
    BY <2>5, <2>6
<1> HIDE DEF T
<1>4. \A k \in 1..(n + 1) : k \in T
  BY <1>1, <1>2, <1>3, DownFrom
<1>5. 1 \in T
  BY <1>1, <1>4
<1>6. PICK g : Part(1, g)
  BY <1>5 DEF T
<1> DEFINE h == [i \in 1..(n + 1) |-> g[i]]
<1>7. ASSUME NEW i \in 1..(n + 1) PROVE g[i] = UnstuffedFrom(s, h, i)
  <2>1. g[i] = UnstuffedFrom(s, g, i)
    BY <1>6
  <2>2. CASE i > n
    BY <2>1, <2>2 DEF UnstuffedFrom, n
  <2>3. CASE ~(i > n)
    <3>1. i + 1 \in 1..(n + 1) /\ (i < n => i + 2 \in 1..(n + 1))
      BY <1>1, <2>3
    <3>2. h[i + 1] = g[i + 1] /\ (i < n => h[i + 2] = g[i + 2])
      BY <3>1
    <3> HIDE DEF h
    <3> QED
      BY <2>1, <3>2, Zenon DEF UnstuffedFrom, n
  <2> QED
    BY <2>2, <2>3
<1>8. h = [i \in 1..(n + 1) |-> UnstuffedFrom(s, h, i)]
  BY <1>7
<1> HIDE DEF h
<1> QED
  BY <1>8, Zenon DEF Unstuffs, n

\* Unstuffed() is the first value of one.
LEMMA UnstuffedValue ==
    ASSUME NEW s \in Seq(Bytes)
    PROVE  \E g : Unstuffs(s, g) /\ Unstuffed(s) = g[1]
<1> DEFINE g == CHOOSE f : Unstuffs(s, f)
<1>1. Unstuffs(s, g)
  BY UnstuffingExists
<1>2. Unstuffed(s) = g[1]
  BY Zenon DEF Unstuffed, Unstuffs, UnstuffedFrom
<1> QED
  BY <1>1, <1>2

\* What such a function is at each index.
LEMMA UnstuffsAt ==
    ASSUME NEW s, NEW g, Unstuffs(s, g), NEW i \in 1..(Len(s) + 1)
    PROVE  g[i] = UnstuffedFrom(s, g, i)
<1>1. g = [j \in 1..(Len(s) + 1) |-> UnstuffedFrom(s, g, j)]
  BY DEF Unstuffs
<1> QED
  BY <1>1, Zenon

LEMMA UnstuffedType ==
    ASSUME NEW s \in Seq(Bytes)
    PROVE  Unstuffed(s) \in Seq(Int)
<1>1. PICK g : Unstuffs(s, g) /\ Unstuffed(s) = g[1]
  BY UnstuffedValue
<1> DEFINE n == Len(s)
           T == {i \in 1..(n + 1) : g[i] \in Seq(Int)}
<1>2. n \in Nat /\ \A i \in 1..n : s[i] \in Int
  <2>1. \A i \in 1..n : s[i] \in Bytes
    BY ElementOfSeq
  <2>2. n \in Nat
    BY LenProperties
  <2>3. Bytes \subseteq Int
    BY DEF Bytes
  <2> QED
    BY <2>1, <2>2, <2>3
<1>3. \A i \in 1..(n + 1) : g[i] = UnstuffedFrom(s, g, i)
  BY <1>1, UnstuffsAt
<1>4. n + 1 \in T
  <2>1. n + 1 \in 1..(n + 1) /\ n + 1 > Len(s)
    BY <1>2
  <2>2. g[n + 1] = <<>>
    BY <1>3, <2>1 DEF UnstuffedFrom
  <2> QED
    BY <2>1, <2>2, EmptySeq
<1>5. ASSUME NEW i \in 1..n, i + 1 \in T, i < n => i + 2 \in T PROVE i \in T
  <2>1. /\ g[i] = UnstuffedFrom(s, g, i) /\ s[i] \in Int /\ IAC \in Int /\ -1 \in Int
        /\ i \in 1..(n + 1) /\ ~(i > n)
    BY <1>2, <1>3 DEF IAC
  <2>2. g[i + 1] \in Seq(Int) /\ (i < n => g[i + 2] \in Seq(Int))
    BY <1>5
  <2>3. \A x \in Int, t \in Seq(Int) : <<x>> \o t \in Seq(Int)
    OBVIOUS
  <2>4. UnstuffedFrom(s, g, i) \in Seq(Int)
    <3>1. CASE s[i] # IAC
      <4>1. UnstuffedFrom(s, g, i) = <<s[i]>> \o g[i + 1]
        BY <2>1, <3>1 DEF UnstuffedFrom
      <4>2. <<s[i]>> \o g[i + 1] \in Seq(Int)
        BY <2>1, <2>2, <2>3
      <4> QED
        BY <4>1, <4>2, Zenon
    <3>2. CASE s[i] = IAC /\ i < Len(s) /\ s[i + 1] = IAC
      <4>1. UnstuffedFrom(s, g, i) = <<IAC>> \o g[i + 2]
        BY <2>1, <3>2, Zenon DEF UnstuffedFrom
      <4>2. <<IAC>> \o g[i + 2] \in Seq(Int)
        BY <2>1, <2>2, <2>3, <3>2
      <4> QED
        BY <4>1, <4>2, Zenon
    <3>3. CASE s[i] = IAC /\ ~(i < Len(s) /\ s[i + 1] = IAC)
      <4>1. UnstuffedFrom(s, g, i) = <<-1>> \o g[i + 1]
        BY <2>1, <3>3, Zenon DEF UnstuffedFrom
      <4>2. <<-1>> \o g[i + 1] \in Seq(Int)
        BY <2>1, <2>2, <2>3
      <4> QED
        BY <4>1, <4>2, Zenon
    <3> QED
      BY <3>1, <3>2, <3>3
  <2> QED
    BY <2>1, <2>4
<1> HIDE DEF T, n
<1>6. \A i \in 1..(n + 1) : i \in T
  BY <1>2, <1>4, <1>5, DownFrom
<1>7. 1 \in T
  BY <1>2, <1>6
<1> QED
  BY <1>1, <1>7 DEF T

\* A doubled IAC, or one other byte, at the front.
LEMMA UnstuffedCons ==
    ASSUME NEW r \in Seq(Bytes), NEW b \in Bytes
    PROVE  Unstuffed(Stuffed(b) \o r) = <<b>> \o Unstuffed(r)
<1> DEFINE x == Stuffed(b)
           s == x \o r
           k == Len(x)
           n == Len(r)
<1>1. x \in Seq(Bytes) /\ k \in 1..2 /\ n \in Nat
  BY StuffedByte, LenProperties
<1> HIDE DEF x, n
<1>2. /\ s \in Seq(Bytes) /\ Len(s) = k + n
      /\ \A i \in 1..(k + n) : s[i] = IF i <= k THEN x[i] ELSE r[i - k]
  BY <1>1, ConcatProperties DEF n
<1> HIDE DEF s, k
<1>3. \A i \in 1..n : s[i + k] = r[i]
  <2>1. ASSUME NEW i \in 1..n PROVE s[i + k] = r[i]
    <3>1. i + k \in 1..(k + n) /\ ~(i + k <= k) /\ (i + k) - k = i
      BY <1>1
    <3> QED
      BY <1>2, <3>1
  <2> QED
    BY <2>1
<1>4. PICK g : Unstuffs(s, g) /\ Unstuffed(s) = g[1]
  BY <1>2, UnstuffedValue
<1>5. PICK h : Unstuffs(r, h) /\ Unstuffed(r) = h[1]
  BY UnstuffedValue
<1>6. \A i \in 1..(k + n + 1) : g[i] = UnstuffedFrom(s, g, i)
  BY <1>2, <1>4, UnstuffsAt
<1>7. \A i \in 1..(n + 1) : h[i] = UnstuffedFrom(r, h, i)
  BY <1>5, UnstuffsAt DEF n
<1> DEFINE T == {i \in 1..(n + 1) : g[i + k] = h[i]}
<1>8. n + 1 \in T
  <2>1. g[(n + 1) + k] = <<>>
    <3>1. (n + 1) + k \in 1..(k + n + 1) /\ (n + 1) + k > Len(s)
      BY <1>1, <1>2
    <3> QED
      BY <1>6, <3>1 DEF UnstuffedFrom
  <2>2. h[n + 1] = <<>>
    <3>1. n + 1 \in 1..(n + 1) /\ n + 1 > Len(r)
      BY <1>1 DEF n
    <3> QED
      BY <1>7, <3>1 DEF UnstuffedFrom
  <2> QED
    BY <1>1, <2>1, <2>2
<1>9. ASSUME NEW i \in 1..n, i + 1 \in T, i < n => i + 2 \in T PROVE i \in T
  <2>1. /\ i + k \in 1..(k + n + 1) /\ i \in 1..(n + 1)
        /\ ~(i + k > Len(s)) /\ ~(i > Len(r))
        /\ i + k < Len(s) <=> i < Len(r)
        /\ (i + k) + 1 = (i + 1) + k /\ (i + k) + 2 = (i + 2) + k
    BY <1>1, <1>2 DEF n
  <2>2. s[i + k] = r[i] /\ (i < n => s[(i + 1) + k] = r[i + 1])
    BY <1>1, <1>3
  <2>3. g[(i + 1) + k] = h[i + 1] /\ (i < n => g[(i + 2) + k] = h[i + 2])
    BY <1>9
  <2>4. UnstuffedFrom(s, g, i + k) = UnstuffedFrom(r, h, i)
    BY <2>1, <2>2, <2>3, Zenon DEF UnstuffedFrom, n
  <2> QED
    BY <1>6, <1>7, <2>1, <2>4
<1> HIDE DEF T
<1>10. \A i \in 1..(n + 1) : i \in T
  BY <1>1, <1>8, <1>9, DownFrom
<1>11. g[1 + k] = h[1]
  <2>1. 1 \in T
    BY <1>1, <1>10
  <2> QED
    BY <2>1 DEF T
<1>12. g[1] = UnstuffedFrom(s, g, 1) /\ ~(1 > Len(s)) /\ s[1] = x[1]
  BY <1>1, <1>2, <1>6
<1>13. CASE b = IAC
  <2>1. k = 2 /\ x[1] = IAC /\ x[2] = IAC
    BY <1>13 DEF x, k, Stuffed
  <2>2. s[2] = IAC /\ 1 < Len(s) /\ 1 + 1 = 2 /\ 1 + 2 = 1 + k
    BY <1>1, <1>2, <2>1
  <2>3. UnstuffedFrom(s, g, 1) = <<IAC>> \o g[1 + k]
    BY <1>12, <2>1, <2>2, Zenon DEF UnstuffedFrom
  <2> QED
    BY <1>4, <1>5, <1>11, <1>12, <1>13, <2>3, Zenon DEF s, x
<1>14. CASE b # IAC
  <2>1. k = 1 /\ x[1] = b /\ 1 + k = 2 /\ 1 + 1 = 2
    BY <1>14 DEF x, k, Stuffed
  <2>2. UnstuffedFrom(s, g, 1) = <<b>> \o g[1 + k]
    BY <1>12, <1>14, <2>1, Zenon DEF UnstuffedFrom
  <2> QED
    BY <1>4, <1>5, <1>11, <1>12, <2>2, Zenon DEF s, x
<1> QED
  BY <1>13, <1>14

\* The server reads what was stuffed.
LEMMA UnstuffedStuffed ==
    ASSUME NEW d \in Seq(Bytes)
    PROVE  Unstuffed(StuffedAll(d)) = d
<1> DEFINE T == {q \in Seq(Bytes) : Unstuffed(StuffedAll(q)) = q}
<1>1. <<>> \in T
  <2>1. PICK g : Unstuffs(<<>>, g) /\ Unstuffed(<<>>) = g[1]
    BY EmptySeq, UnstuffedValue
  <2>2. 1 \in 1..(Len(<<>>) + 1) /\ 1 > Len(<<>>)
    OBVIOUS
  <2>3. g[1] = UnstuffedFrom(<<>>, g, 1)
    BY <2>1, <2>2, UnstuffsAt
  <2>4. Unstuffed(<<>>) = <<>>
    BY <2>1, <2>2, <2>3 DEF UnstuffedFrom
  <2> QED
    BY <2>4, StuffedNothing, EmptySeq
<1>2. ASSUME NEW q \in Seq(Bytes), NEW b \in Bytes, q \in T PROVE <<b>> \o q \in T
  <2>1. StuffedAll(q) \in Seq(Bytes) /\ StuffedAll(<<b>> \o q) = Stuffed(b) \o StuffedAll(q)
    BY StuffedSequence
  <2>2. Unstuffed(Stuffed(b) \o StuffedAll(q)) = <<b>> \o Unstuffed(StuffedAll(q))
    BY <2>1, UnstuffedCons
  <2>3. Unstuffed(StuffedAll(q)) = q
    BY <1>2
  <2>4. Unstuffed(StuffedAll(<<b>> \o q)) = <<b>> \o q
    BY <2>1, <2>2, <2>3, Zenon
  <2>5. <<b>> \o q \in Seq(Bytes)
    OBVIOUS
  <2> QED
    BY <2>4, <2>5
<1> HIDE DEF T
<1>3. d \in T
  BY <1>1, <1>2, FrontInduction
<1> QED
  BY <1>3 DEF T
-----------------------------------------------------------------------------
(* What the user types. *)

\* SentData of any sequence of sends.
SentIn(q) == FlattenSeq([i \in DOMAIN q |-> TypedIn(q[i])])

LEMMA TypedMapType == TypedMap \in Readings(Sends, Int)
<1>1. ASSUME NEW a \in Sends PROVE TypedIn(a) \in Seq(Int)
  <2>1. CASE a.kind = "bytes"
    <3>1. a.bytes \in Seq(Bytes)
      BY <2>1 DEF Sends
    <3> QED
      BY <2>1, <3>1, UnstuffedType DEF TypedIn
  <2>2. CASE a.kind # "bytes"
    BY <2>2, EmptySeq DEF TypedIn
  <2> QED
    BY <2>1, <2>2
<1> QED
  BY <1>1 DEF TypedMap, Readings

LEMMA SentProperties ==
    ASSUME NEW q \in Seq(Sends), NEW a \in Sends
    PROVE  SentIn(q) \in Seq(Int) /\ SentIn(Append(q, a)) = SentIn(q) \o TypedIn(a)
<1>1. ASSUME NEW s \in Seq(Sends) PROVE SentIn(s) = FlatMap(TypedMap, s)
  <2>1. DOMAIN s = 1..Len(s) /\ \A i \in 1..Len(s) : s[i] \in Sends
    BY LenProperties, ElementOfSeq
  <2>2. [i \in DOMAIN s |-> TypedIn(s[i])] = [i \in DOMAIN s |-> TypedMap[s[i]]]
    BY <2>1 DEF TypedMap
  <2> QED
    BY <2>2, Zenon DEF SentIn, FlatMap
<1>2. Append(q, a) \in Seq(Sends) /\ TypedMap[a] = TypedIn(a)
  BY AppendProperties DEF TypedMap
<1>3. FlatMap(TypedMap, q) \in Seq(Int)
  BY TypedMapType, FlatMapType
<1>4. FlatMap(TypedMap, Append(q, a)) = FlatMap(TypedMap, q) \o TypedMap[a]
  BY TypedMapType, FlatMapAppend
<1>5. SentIn(q) = FlatMap(TypedMap, q) /\ SentIn(Append(q, a)) = FlatMap(TypedMap, Append(q, a))
  BY <1>1, <1>2
<1> QED
  BY <1>2, <1>3, <1>4, <1>5, Zenon

\* Answers are no data.
LEMMA SentAnswer ==
    ASSUME NEW q \in Seq(Sends), NEW a \in Sends, a.kind # "bytes"
    PROVE  SentIn(Append(q, a)) = SentIn(q)
<1>1. TypedIn(a) = <<>>
  BY DEF TypedIn
<1> DEFINE s == SentIn(q)
<1>2. s \in Seq(Int)
  BY SentProperties
<1>3. SentIn(Append(q, a)) = s \o TypedIn(a)
  BY SentProperties
<1> HIDE DEF s
<1>4. s \o <<>> = s
  BY <1>2, ConcatEmptySeq
<1> QED
  BY <1>1, <1>3, <1>4, Zenon DEF s

LEMMA SentAnswers ==
    ASSUME NEW q \in Seq(Sends), TypeInv, NEW b \in Bytes
    PROVE  /\ SentIn(q \o WillAnswers(b)) = SentIn(q) /\ SentIn(q \o WontAnswers(b)) = SentIn(q)
           /\ SentIn(q \o DoAnswers(b)) = SentIn(q) /\ SentIn(q \o DontAnswers(b)) = SentIn(q)
           /\ SentIn(q \o SubnegAnswers) = SentIn(q)
<1> DEFINE Answer == {a \in Sends : a.kind # "bytes"}
<1>1. /\ WindowSize \in Answer /\ TerminalType \in Answer
      /\ \A cmd \in Commands : Command(cmd, b) \in Answer
  BY DEF WindowSize, TerminalType, Command, Sends
<1>2. WILL \in Commands /\ WONT \in Commands /\ DO \in Commands /\ DONT \in Commands
  BY DEF Commands
<1>3. ASSUME NEW a \in Answer PROVE SentIn(q \o <<a>>) = SentIn(q)
  <2>1. q \o <<a>> = Append(q, a)
    OBVIOUS
  <2>2. a \in Sends /\ a.kind # "bytes"
    OBVIOUS
  <2>3. SentIn(Append(q, a)) = SentIn(q)
    BY <2>2, SentAnswer
  <2> QED
    BY <2>1, <2>3, Zenon
<1>4. ASSUME NEW a1 \in Answer, NEW a2 \in Answer PROVE SentIn(q \o <<a1, a2>>) = SentIn(q)
  <2>1. q \o <<a1, a2>> = Append(Append(q, a1), a2) /\ Append(q, a1) \in Seq(Sends)
    OBVIOUS
  <2>2. a1 \in Sends /\ a1.kind # "bytes" /\ a2 \in Sends /\ a2.kind # "bytes"
    OBVIOUS
  <2>3. SentIn(Append(q, a1)) = SentIn(q)
    BY <2>2, SentAnswer
  <2>4. SentIn(Append(Append(q, a1), a2)) = SentIn(Append(q, a1))
    BY <2>1, <2>2, SentAnswer
  <2> QED
    BY <2>1, <2>3, <2>4, Zenon
<1>5. q \o <<>> = q
  BY ConcatEmptySeq
<1> HIDE DEF Answer
<1>6. SentIn(q \o WillAnswers(b)) = SentIn(q)
  BY <1>1, <1>2, <1>3, Zenon DEF WillAnswers
<1>7. SentIn(q \o WontAnswers(b)) = SentIn(q) /\ SentIn(q \o DontAnswers(b)) = SentIn(q)
  BY <1>1, <1>2, <1>3, Zenon DEF WontAnswers, DontAnswers
<1>8. SentIn(q \o DoAnswers(b)) = SentIn(q)
  <2>1. \/ DoAnswers(b) = <<Command(WILL, b), WindowSize>>
        \/ DoAnswers(b) = <<Command(WILL, b)>> \/ DoAnswers(b) = <<Command(WONT, b)>>
    BY DEF DoAnswers
  <2>2. /\ SentIn(q \o <<Command(WILL, b), WindowSize>>) = SentIn(q)
        /\ SentIn(q \o <<Command(WILL, b)>>) = SentIn(q)
        /\ SentIn(q \o <<Command(WONT, b)>>) = SentIn(q)
    BY <1>1, <1>2, <1>3, <1>4, Zenon
  <2> QED
    BY <2>1, <2>2, Zenon
<1>9. SentIn(q \o SubnegAnswers) = SentIn(q)
  <2>1. SubnegAnswers = <<TerminalType>> \/ SubnegAnswers = <<>>
    BY DEF SubnegAnswers
  <2>2. SentIn(q \o <<TerminalType>>) = SentIn(q) /\ SentIn(q \o <<>>) = SentIn(q)
    BY <1>1, <1>3, <1>5, Zenon
  <2> QED
    BY <2>1, <2>2, Zenon
<1> QED
  BY <1>6, <1>7, <1>8, <1>9

\* The buffer holds a part of what was typed, stuffed; it follows what was sent
\* and precedes what is left to stuff.
TypedInv ==
    \E d \in Seq(DataBytes) : out = StuffedAll(d) /\ (SentIn(up) \o d) \o todo = typed

\* How bytes and integers are put together.
LEMMA BytesConcat == \A x, y, z \in Seq(Bytes) : (x \o y) \o z = x \o (y \o z)
<1>1. \A x, y, z \in Seq(Bytes) : Associates(x, y, z)
  BY ConcatAssociates
<1> QED
  BY <1>1, Zenon DEF Associates

LEMMA IntsConcat == \A x, y, z \in Seq(Int) : (x \o y) \o z = x \o (y \o z)
<1>1. \A x, y, z \in Seq(Int) : Associates(x, y, z)
  BY ConcatAssociates
<1> QED
  BY <1>1, Zenon DEF Associates

LEMMA TypedStep == TypeInv /\ TypedInv /\ [Next]_vars => TypedInv'
<1> SUFFICES ASSUME TypeInv, TypedInv, [Next]_vars PROVE TypedInv'
  OBVIOUS
<1>1. PICK d \in Seq(DataBytes) : out = StuffedAll(d) /\ (SentIn(up) \o d) \o todo = typed
  BY DEF TypedInv
<1> DEFINE t == SentIn(up)
<1>2. /\ up \in Seq(Sends) /\ out \in Seq(Bytes) /\ todo \in Seq(DataBytes) /\ d \in Seq(Bytes)
      /\ DataBytes \subseteq Int /\ d \in Seq(Int)
  <2>1. DataBytes \subseteq Bytes /\ DataBytes \subseteq Int
    BY BytesAssumption DEF Bytes
  <2>2. d \in Seq(Bytes) /\ d \in Seq(Int)
    BY <2>1, SeqMonotone
  <2> QED
    BY <2>1, <2>2 DEF TypeInv, TypeOK
<1>3. t \in Seq(Int)
  <2>1. WindowSize \in Sends
    BY DEF WindowSize, Sends
  <2> QED
    BY <1>2, <2>1, SentProperties
<1>4. ASSUME SentIn(up') = SentIn(up), UNCHANGED writeVars PROVE TypedInv'
  BY <1>1, <1>4 DEF TypedInv, writeVars
<1>5. ASSUME UNCHANGED <<up, writeVars>> PROVE TypedInv'
  BY <1>4, <1>5
<1>6. ASSUME NEW st, Takes(st) PROVE c \in Bytes /\ UNCHANGED writeVars
  BY <1>6, TakesType DEF Takes
\* What the server reads of the buffer when it is sent.
<1>7. SentIn(Append(up, Data(out))) = t \o d
  <2>1. Data(out) \in Sends
    BY <1>2 DEF Data, Sends
  <2>2. TypedIn(Data(out)) = Unstuffed(out)
    BY DEF TypedIn, Data
  <2>3. Unstuffed(out) = d
    BY <1>1, <1>2, UnstuffedStuffed
  <2>4. SentIn(Append(up, Data(out))) = t \o TypedIn(Data(out))
    BY <1>2, <2>1, SentProperties
  <2> HIDE DEF t
  <2> QED
    BY <2>2, <2>3, <2>4, Zenon
<1>8. ASSUME NEW m \in Messages, ServerSends(m) PROVE TypedInv'
  BY <1>5, <1>8 DEF ServerSends
<1>9. CASE SendNaws
  <2>1. WindowSize \in Sends /\ WindowSize.kind # "bytes"
    BY DEF WindowSize, Sends
  <2>2. SentIn(Append(up, WindowSize)) = SentIn(up)
    BY <1>2, <2>1, SentAnswer
  <2>3. up' = Append(up, WindowSize) \/ up' = up
    BY <1>9 DEF SendNaws
  <2> QED
    BY <1>4, <1>9, <2>2, <2>3 DEF SendNaws
<1>10. ASSUME NEW n \in 1..RawLen, Recv(n) PROVE TypedInv'
  BY <1>5, <1>10 DEF Recv
<1>11. CASE RecvNothing
  BY <1>5, <1>11 DEF RecvNothing, vars
<1>12. CASE Returns
  BY <1>5, <1>12 DEF Returns
<1>13. CASE DataByte
  BY <1>5, <1>6, <1>13 DEF DataByte
<1>14. CASE IacByte
  BY <1>5, <1>6, <1>14 DEF IacByte
<1>15. CASE CmdOptByte
  <2>1. /\ SentIn(up \o WillAnswers(c)) = t /\ SentIn(up \o WontAnswers(c)) = t
        /\ SentIn(up \o DoAnswers(c)) = t /\ SentIn(up \o DontAnswers(c)) = t
    BY <1>2, <1>6, <1>15, SentAnswers DEF CmdOptByte
  <2>2. \/ up' = up \o WillAnswers(c) \/ up' = up \o WontAnswers(c)
        \/ up' = up \o DoAnswers(c) \/ up' = up \o DontAnswers(c)
    BY <1>15 DEF CmdOptByte
  <2> HIDE DEF t
  <2>3. SentIn(up') = t
    BY <2>1, <2>2, Zenon
  <2> QED
    BY <1>4, <1>6, <1>15, <2>3 DEF CmdOptByte, t
<1>16. CASE SbByte
  BY <1>5, <1>6, <1>16 DEF SbByte
<1>17. CASE SbIacByte
  <2>1. SentIn(up \o SubnegAnswers) = t
    BY <1>2, <1>6, <1>17, SentAnswers DEF SbIacByte
  <2>2. up' = up \o SubnegAnswers \/ up' = up
    BY <1>17 DEF SbIacByte
  <2>3. SentIn(up') = SentIn(up)
    BY <2>1, <2>2, Zenon
  <2> QED
    BY <1>4, <1>6, <1>17, <2>3 DEF SbIacByte
<1>18. ASSUME NEW data \in BoundedSeq(DataBytes, 4) \ {<<>>}, Write(data) PROVE TypedInv'
  <2>1. todo = <<>> /\ todo' = data /\ typed' = typed \o data /\ out' = out /\ up' = up
    BY <1>18 DEF Write, TypeInv, AtRest, readVars
  <2>2. (SentIn(up) \o d) \o <<>> = SentIn(up) \o d
    <3> HIDE DEF t
    <3>1. t \o d \in Seq(Int)
      BY <1>2, <1>3, ConcatProperties
    <3>2. (t \o d) \o <<>> = t \o d
      BY <3>1, ConcatEmptySeq
    <3> QED
      BY <3>2 DEF t
  <2>3. typed = SentIn(up) \o d
    BY <1>1, <2>1, <2>2, Zenon
  <2>4. (SentIn(up) \o d) \o data = typed \o data
    BY <2>3, Zenon
  <2> QED
    BY <1>1, <2>1, <2>4 DEF TypedInv
<1>19. CASE StuffByte
  <2> DEFINE b == Head(todo)
             r == Tail(todo)
  <2>1. /\ b \in DataBytes /\ b \in Bytes /\ b \in Int /\ r \in Seq(DataBytes) /\ r \in Seq(Int)
        /\ todo = <<b>> \o r /\ todo' = r /\ typed' = typed
    <3>1. todo # <<>> /\ todo' = r /\ typed' = typed
      BY <1>19 DEF StuffByte
    <3>2. b \in DataBytes /\ r \in Seq(DataBytes) /\ todo = <<b>> \o r
      BY <1>2, <3>1
    <3>3. r \in Seq(Int)
      <4> HIDE DEF r
      <4> QED
        BY <1>2, <3>2, SeqMonotone
    <3> QED
      BY <1>2, <3>1, <3>2, <3>3, BytesAssumption
  <2> HIDE DEF b, r, t
  <2>2. ((t \o d) \o <<b>>) \o r = typed'
    <3> DEFINE x == t \o d
               y == <<b>>
    <3>1. x \in Seq(Int) /\ y \in Seq(Int) /\ r \in Seq(Int)
      <4>1. x \in Seq(Int)
        BY <1>2, <1>3, ConcatProperties
      <4>2. y \in Seq(Int)
        BY <2>1
      <4> QED
        BY <2>1, <4>1, <4>2, Zenon
    <3> HIDE DEF x, y
    <3>4. (x \o y) \o r = x \o (y \o r)
      BY <3>1, IntsConcat
    <3>2. (x \o <<b>>) \o r = x \o (<<b>> \o r)
      BY <3>4, Zenon DEF y
    <3>3. x \o todo = typed
      BY <1>1, Zenon DEF x, t
    <3> QED
      BY <2>1, <3>2, <3>3, Zenon DEF x
  <2>3. CASE Full
    <3>1. up' = Append(up, Data(out)) /\ out' = <<>> \o Stuffed(b)
      BY <1>19, <2>3 DEF StuffByte, b
    <3>2. SentIn(up') = t \o d
      BY <1>7, <3>1, Zenon
    <3>3. <<b>> \in Seq(DataBytes) /\ Append(<<>>, b) = <<b>>
      BY <2>1
    <3>4. out' = StuffedAll(<<b>>)
      <4>1. StuffedAll(Append(<<>>, b)) = StuffedAll(<<>>) \o Stuffed(b)
        BY <2>1, EmptySeq, StuffedSequence
      <4> QED
        BY <3>1, <3>3, <4>1, StuffedNothing, Zenon
    <3>5. (SentIn(up') \o <<b>>) \o todo' = typed'
      BY <2>1, <2>2, <3>2, Zenon
    <3> QED
      BY <3>3, <3>4, <3>5, Zenon DEF TypedInv
  <2>4. CASE ~Full
    <3>1. up' = up /\ out' = out \o Stuffed(b)
      BY <1>19, <2>4 DEF StuffByte, b
    <3>2. Append(d, b) \in Seq(DataBytes) /\ Append(d, b) = d \o <<b>>
      BY <2>1
    <3>3. out' = StuffedAll(Append(d, b))
      BY <1>1, <1>2, <2>1, <3>1, StuffedSequence, Zenon
    <3>4. (t \o Append(d, b)) \o r = typed'
      <4> DEFINE y == <<b>>
      <4>1. t \in Seq(Int) /\ d \in Seq(Int) /\ y \in Seq(Int)
        <5>1. y \in Seq(Int)
          BY <2>1
        <5> QED
          BY <1>2, <1>3, <5>1, Zenon
      <4> HIDE DEF y
      <4>3. (t \o d) \o y = t \o (d \o y)
        BY <4>1, IntsConcat
      <4>2. (t \o d) \o <<b>> = t \o (d \o <<b>>)
        BY <4>3, Zenon DEF y
      <4> QED
        BY <2>2, <3>2, <4>2, Zenon
    <3>5. (SentIn(up') \o Append(d, b)) \o todo' = typed'
      BY <2>1, <3>1, <3>4, Zenon DEF t
    <3> QED
      BY <3>2, <3>3, <3>5, Zenon DEF TypedInv
  <2> QED
    BY <2>3, <2>4
<1>20. CASE Flush
  <2>1. out' = <<>> /\ todo' = todo /\ typed' = typed
    BY <1>20 DEF Flush
  <2>2. SentIn(up') = t \o d
    <3>1. CASE out # <<>>
      BY <1>7, <1>20, <3>1 DEF Flush
    <3>2. CASE out = <<>>
      <4>1. Unstuffed(out) = d
        BY <1>1, <1>2, UnstuffedStuffed
      <4>2. Unstuffed(StuffedAll(<<>>)) = <<>>
        BY UnstuffedStuffed, EmptySeq
      <4>3. d = <<>>
        BY <3>2, <4>1, <4>2, StuffedNothing, Zenon
      <4>4. up' = up
        BY <1>20, <3>2 DEF Flush
      <4> HIDE DEF t
      <4>5. t \o <<>> = t
        BY <1>3, ConcatEmptySeq
      <4> QED
        BY <4>3, <4>4, <4>5, Zenon DEF t
    <3> QED
      BY <3>1, <3>2
  <2> HIDE DEF t
  <2>3. (t \o d) \o <<>> = t \o d
    <3>1. t \o d \in Seq(Int)
      BY <1>2, <1>3, ConcatProperties
    <3> QED
      BY <3>1, ConcatEmptySeq
  <2>4. (t \o d) \o todo = typed
    BY <1>1, Zenon DEF t
  <2>5. (SentIn(up') \o <<>>) \o todo' = typed'
    BY <2>1, <2>2, <2>3, <2>4, Zenon
  <2>6. out' = StuffedAll(<<>>) /\ <<>> \in Seq(DataBytes)
    BY <2>1, StuffedNothing, EmptySeq
  <2> QED
    BY <2>5, <2>6, Zenon DEF TypedInv
<1>21. CASE UNCHANGED vars
  BY <1>5, <1>21 DEF vars
<1> QED
  BY <1>8, <1>9, <1>10, <1>11, <1>12, <1>13, <1>14, <1>15, <1>16, <1>17, <1>18, <1>19, <1>20, <1>21
  DEF Next, Read

\* The server gets what was typed, whatever the length of the buffer: every IAC
\* doubled and no pair torn apart (telnet_client.c:284-304).
THEOREM TelnetTypedTransparent == Spec => []TypedTransparent
<1>1. Init => TypedInv
  <2> SUFFICES ASSUME Init PROVE TypedInv
    OBVIOUS
  <2>1. up = <<>> /\ out = StuffedAll(<<>>) /\ todo = <<>> /\ typed = <<>>
    BY StuffedNothing DEF Init
  <2>2. SentIn(<<>>) = <<>>
    <3>1. [i \in DOMAIN <<>> |-> TypedIn(<<>>[i])] = <<>>
      OBVIOUS
    <3> QED
      BY <3>1 DEF SentIn, FlattenSeq
  <2>3. <<>> \o <<>> = <<>>
    OBVIOUS
  <2>4. (SentIn(up) \o <<>>) \o todo = typed
    BY <2>1, <2>2, <2>3, Zenon
  <2>5. <<>> \in Seq(DataBytes)
    BY EmptySeq
  <2> QED
    BY <2>1, <2>4, <2>5, Zenon DEF TypedInv
<1>2. TypeInv /\ TypedInv => TypedTransparent
  <2> SUFFICES ASSUME TypeInv, TypedInv PROVE TypedTransparent
    OBVIOUS
  <2>1. PICK d \in Seq(DataBytes) : out = StuffedAll(d) /\ (SentIn(up) \o d) \o todo = typed
    BY DEF TypedInv
  <2>2. d \in Seq(Bytes)
    BY BytesAssumption, SeqMonotone
  <2>3. Unstuffed(out) = d
    BY <2>1, <2>2, UnstuffedStuffed
  <2>4. SentData = SentIn(up)
    BY Zenon DEF SentData, SentIn
  <2> QED
    BY <2>1, <2>3, <2>4, Zenon DEF TypedTransparent
<1>3. Spec => [](TypeInv /\ TypedInv)
  BY <1>1, TypeInit, TypeStep, TypedStep, PTL DEF Spec
<1> QED
  BY <1>2, <1>3, PTL
-----------------------------------------------------------------------------
(* What the server means, and how far the decoder has got with it. *)

StreamOf(q) == FlatMap(EncodeMap, q)
DataOf(q) == FlatMap(DataMap, q)
RequestsOf(q) == FlatMap(RequestMap, q)

\* Answered of any sequence of sends.
AnswersOf(q) == FlattenSeq([i \in DOMAIN q |-> AnswerIn(q[i])])

LEMMA MessageMaps ==
    /\ EncodeMap \in Readings(Messages, Bytes)
    /\ DataMap \in Readings(Messages, Bytes)
    /\ RequestMap \in Readings(Messages, Messages)
    /\ AnswerMap \in Readings(Sends, Sends)
<1>1. \A m \in Messages : Encoded(m) \in Seq(Bytes)
  BY EncodedMessage
<1>2. ASSUME NEW m \in Messages PROVE DataIn(m) \in Seq(Bytes)
  <2>1. CASE m.kind = "data"
    <3>1. m.byte \in Bytes
      BY <2>1, BytesAssumption DEF Messages
    <3> QED
      BY <2>1, <3>1 DEF DataIn
  <2>2. CASE m.kind # "data"
    BY <2>2, EmptySeq DEF DataIn
  <2> QED
    BY <2>1, <2>2
<1> HIDE DEF Messages, Sends
<1>3. ASSUME NEW m \in Messages PROVE RequestIn(m) \in Seq(Messages)
  <2>1. RequestIn(m) = <<m>> \/ RequestIn(m) = <<>>
    BY DEF RequestIn
  <2>2. <<m>> \in Seq(Messages) /\ <<>> \in Seq(Messages)
    BY EmptySeq
  <2> QED
    BY <2>1, <2>2, Zenon
<1>4. ASSUME NEW a \in Sends PROVE AnswerIn(a) \in Seq(Sends)
  <2>1. AnswerIn(a) = <<a>> \/ AnswerIn(a) = <<>>
    BY DEF AnswerIn
  <2>2. <<a>> \in Seq(Sends) /\ <<>> \in Seq(Sends)
    BY EmptySeq
  <2> QED
    BY <2>1, <2>2, Zenon
<1> QED
  BY <1>1, <1>2, <1>3, <1>4 DEF EncodeMap, DataMap, RequestMap, AnswerMap, Readings

\* What one more message adds, at the end and at the front.
LEMMA MessagesAppend ==
    ASSUME NEW q \in Seq(Messages), NEW m \in Messages
    PROVE  /\ StreamOf(Append(q, m)) = StreamOf(q) \o Encoded(m)
           /\ DataOf(Append(q, m)) = DataOf(q) \o DataIn(m)
           /\ RequestsOf(Append(q, m)) = RequestsOf(q) \o RequestIn(m)
<1>1. EncodeMap[m] = Encoded(m) /\ DataMap[m] = DataIn(m) /\ RequestMap[m] = RequestIn(m)
  BY DEF EncodeMap, DataMap, RequestMap
<1>2. StreamOf(Append(q, m)) = StreamOf(q) \o EncodeMap[m]
  BY MessageMaps, FlatMapAppend DEF StreamOf
<1>3. DataOf(Append(q, m)) = DataOf(q) \o DataMap[m]
  BY MessageMaps, FlatMapAppend DEF DataOf
<1>4. RequestsOf(Append(q, m)) = RequestsOf(q) \o RequestMap[m]
  BY MessageMaps, FlatMapAppend DEF RequestsOf
<1> QED
  BY <1>1, <1>2, <1>3, <1>4, Zenon

LEMMA MessagesCons ==
    ASSUME NEW q \in Seq(Messages), NEW m \in Messages
    PROVE  /\ StreamOf(<<m>> \o q) = Encoded(m) \o StreamOf(q)
           /\ DataOf(<<m>> \o q) = DataIn(m) \o DataOf(q)
           /\ RequestsOf(<<m>> \o q) = RequestIn(m) \o RequestsOf(q)
<1>1. EncodeMap[m] = Encoded(m) /\ DataMap[m] = DataIn(m) /\ RequestMap[m] = RequestIn(m)
  BY DEF EncodeMap, DataMap, RequestMap
<1>2. StreamOf(<<m>> \o q) = EncodeMap[m] \o StreamOf(q)
  BY MessageMaps, FlatMapCons, ZenonT(60) DEF StreamOf
<1>3. DataOf(<<m>> \o q) = DataMap[m] \o DataOf(q)
  BY MessageMaps, FlatMapCons, ZenonT(60) DEF DataOf
<1>4. RequestsOf(<<m>> \o q) = RequestMap[m] \o RequestsOf(q)
  BY MessageMaps, FlatMapCons, ZenonT(60) DEF RequestsOf
<1> QED
  BY <1>1, <1>2, <1>3, <1>4, Zenon

LEMMA MessagesType ==
    ASSUME NEW q \in Seq(Messages)
    PROVE  /\ StreamOf(q) \in Seq(Bytes) /\ DataOf(q) \in Seq(Bytes)
           /\ RequestsOf(q) \in Seq(Messages)
<1>1. StreamOf(q) \in Seq(Bytes)
  BY MessageMaps, FlatMapType DEF StreamOf
<1>2. DataOf(q) \in Seq(Bytes)
  BY MessageMaps, FlatMapType DEF DataOf
<1>3. RequestsOf(q) \in Seq(Messages)
  BY MessageMaps, FlatMapType DEF RequestsOf
<1> QED
  BY <1>1, <1>2, <1>3

LEMMA MessageParts ==
    ASSUME NEW m \in Messages
    PROVE  /\ DataIn(m) \in Seq(Bytes) /\ RequestIn(m) \in Seq(Messages)
  BY MessageMaps DEF DataMap, RequestMap, Readings

LEMMA NoMessages ==
    StreamOf(<<>>) = <<>> /\ DataOf(<<>>) = <<>> /\ RequestsOf(<<>>) = <<>>
  BY FlatMapEmpty DEF StreamOf, DataOf, RequestsOf

\* What is left to come is nothing only when no message is left.
LEMMA StreamNothing ==
    ASSUME NEW q \in Seq(Messages), StreamOf(q) = <<>>
    PROVE  q = <<>>
<1> SUFFICES ASSUME q # <<>> PROVE FALSE
  OBVIOUS
<1> DEFINE m == Head(q)
           t == Tail(q)
<1>1. m \in Messages /\ t \in Seq(Messages) /\ q = <<m>> \o t
  BY HeadTailProperties
<1> HIDE DEF m, t
<1> DEFINE e == Encoded(m)
           s == StreamOf(t)
<1>2. e \in Seq(Bytes) /\ e # <<>> /\ s \in Seq(Bytes)
  BY <1>1, EncodedMessage, MessagesType
<1>3. StreamOf(q) = e \o s
  BY <1>1, MessagesCons
<1> HIDE DEF e, s
<1>4. e \o s # <<>>
  BY <1>2
<1> QED
  BY <1>3, <1>4

\* What one more send adds to the answers.
LEMMA AnswersAppend ==
    ASSUME NEW q \in Seq(Sends), NEW a \in Sends
    PROVE  AnswersOf(q) \in Seq(Sends) /\ AnswersOf(Append(q, a)) = AnswersOf(q) \o AnswerIn(a)
<1>1. ASSUME NEW s \in Seq(Sends) PROVE AnswersOf(s) = FlatMap(AnswerMap, s)
  <2>1. DOMAIN s = 1..Len(s) /\ \A i \in 1..Len(s) : s[i] \in Sends
    BY LenProperties, ElementOfSeq
  <2>2. [i \in DOMAIN s |-> AnswerIn(s[i])] = [i \in DOMAIN s |-> AnswerMap[s[i]]]
    BY <2>1 DEF AnswerMap
  <2> QED
    BY <2>2, Zenon DEF AnswersOf, FlatMap
<1>2. Append(q, a) \in Seq(Sends) /\ AnswerMap[a] = AnswerIn(a)
  BY AppendProperties DEF AnswerMap
<1>3. FlatMap(AnswerMap, q) \in Seq(Sends)
  BY MessageMaps, FlatMapType
<1>4. FlatMap(AnswerMap, Append(q, a)) = FlatMap(AnswerMap, q) \o AnswerMap[a]
  BY MessageMaps, FlatMapAppend
<1>5. AnswersOf(q) = FlatMap(AnswerMap, q) /\ AnswersOf(Append(q, a)) = FlatMap(AnswerMap, Append(q, a))
  BY <1>1, <1>2
<1> QED
  BY <1>2, <1>3, <1>4, <1>5, Zenon

\* An answer counts; the size of the terminal and data do not.
LEMMA AnswersCount ==
    ASSUME NEW q \in Seq(Sends), NEW a \in Sends
    PROVE  AnswersOf(Append(q, a)) = IF a.kind \in {"command", "terminal_type"}
                                     THEN Append(AnswersOf(q), a) ELSE AnswersOf(q)
<1> DEFINE x == AnswersOf(q)
<1>1. x \in Seq(Sends) /\ AnswersOf(Append(q, a)) = x \o AnswerIn(a)
  BY AnswersAppend
<1> HIDE DEF x
<1>2. x \o <<a>> = Append(x, a) /\ x \o <<>> = x
  BY <1>1
<1>3. AnswerIn(a) = IF a.kind \in {"command", "terminal_type"} THEN <<a>> ELSE <<>>
  BY DEF AnswerIn
<1> QED
  BY <1>1, <1>2, <1>3 DEF x
-----------------------------------------------------------------------------
(* One message in the decoder. *)

\* The part a of the payload has gone through tn_sb_append(): the first byte,
\* which is all that tn_handle_subneg() reads, is there.
Kept(a) == IF a = <<>> THEN sbBuf = <<>> ELSE Len(sbBuf) >= 1 /\ sbBuf[1] = a[1]

\* The payload of m is decoded up to a; b, then the end, is to come, of which
\* the decoder may have seen one IAC.
InPayload(m, p) ==
    /\ sbHaveOpt /\ sbOpt = m.opt
    /\ \E a, b \in Seq(Bytes) :
        /\ m.payload = a \o b /\ Kept(a)
        /\ \/ state = "sb" /\ p = StuffedAll(b) \o <<IAC, SE>>
           \/ state = "sb_iac" /\ b = <<>> /\ p = <<SE>>
           \/ /\ state = "sb_iac"
              /\ \E e \in Seq(Bytes) :
                    b = <<IAC>> \o e /\ p = <<IAC>> \o (StuffedAll(e) \o <<IAC, SE>>)

\* The decoder is inside m, of which the bytes p are to come.
InData(m, p) == state = "iac" /\ m.byte = IAC /\ p = <<IAC>>

InCommand(m, p) ==
    \/ state = "iac" /\ p = <<m.cmd, m.opt>>
    \/ state = "cmd_opt" /\ pendingCmd = m.cmd /\ p = <<m.opt>>

InSub(m, p) ==
    \/ state = "iac" /\ p = <<SB, m.opt>> \o (StuffedAll(m.payload) \o <<IAC, SE>>)
    \/ /\ state = "sb" /\ ~sbHaveOpt /\ sbBuf = <<>>
       /\ p = <<m.opt>> \o (StuffedAll(m.payload) \o <<IAC, SE>>)
    \/ InPayload(m, p)

InCut(m, p) ==
    \/ state = "iac" /\ p = <<SB, m.opt, IAC, NOP>>
    \/ state = "sb" /\ ~sbHaveOpt /\ p = <<m.opt, IAC, NOP>>
    \/ state = "sb" /\ sbHaveOpt /\ p = <<IAC, NOP>>
    \/ state = "sb_iac" /\ p = <<NOP>>

InNop(m, p) == state = "iac" /\ p = <<NOP>>

InMessage(m, p) ==
    \/ m.kind = "data" /\ InData(m, p)
    \/ m.kind = "command" /\ InCommand(m, p)
    \/ m.kind = "sub" /\ InSub(m, p)
    \/ m.kind = "cut" /\ InCut(m, p)
    \/ m.kind = "nop" /\ InNop(m, p)

\* The same, or about to begin with m.
Before(m, p) == (state = "data" /\ p = Encoded(m)) \/ InMessage(m, p)

\* One byte of a chunk.
Byte == DataByte \/ IacByte \/ CmdOptByte \/ SbByte \/ SbIacByte

\* The byte leaves the decoder inside m, or it was the last one: then the data
\* of m is in the buffer and m is answered if it is a request.
Replied(m) ==
    \/ RequestIn(m) = <<>> /\ AnswersOf(up') = AnswersOf(up)
    \/ /\ RequestIn(m) = <<m>>
       /\ \E a \in Sends : Fits(m, a) /\ AnswersOf(up') = Append(AnswersOf(up), a)

Moves(m, p) ==
    \/ (state' # "data" /\ InMessage(m, Tail(p))') /\ UNCHANGED <<buf, up>>
    \/ Tail(p) = <<>> /\ state' = "data" /\ buf' = buf \o DataIn(m) /\ Replied(m)

LEMMA InMessageMore ==
    ASSUME NEW m \in Messages, NEW p \in Seq(Bytes), InMessage(m, p)
    PROVE  p # <<>> /\ state # "data"
<1>1. CASE m.kind = "data"
  <2>1. InData(m, p)
    BY <1>1 DEF InMessage
  <2> QED
    BY <2>1 DEF InData
<1>2. CASE m.kind = "command"
  <2>1. InCommand(m, p)
    BY <1>2 DEF InMessage
  <2>2. p = <<m.cmd, m.opt>> \/ p = <<m.opt>>
    BY <2>1 DEF InCommand
  <2>3. <<m.cmd, m.opt>> # <<>> /\ <<m.opt>> # <<>>
    OBVIOUS
  <2> QED
    BY <2>1, <2>2, <2>3 DEF InCommand
<1>3. CASE m.kind = "cut"
  BY <1>3 DEF InMessage, InCut
<1>4. CASE m.kind = "nop"
  BY <1>4 DEF InMessage, InNop
<1>5. CASE m.kind = "sub"
  <2>1. IAC \in Bytes /\ SE \in Bytes /\ SB \in Bytes
    BY DEF IAC, SE, SB, Bytes
  <2>2. m.opt \in Bytes /\ m.payload \in Seq(Bytes)
    BY <1>5, BytesAssumption, PayloadsAssumption DEF Messages
  <2>3. \A b \in Seq(Bytes) : StuffedAll(b) \in Seq(Bytes)
    BY <2>1, StuffedSequence
  <2>4. \A s \in Seq(Bytes) :
          /\ s \o <<IAC, SE>> \in Seq(Bytes) /\ s \o <<IAC, SE>> # <<>>
          /\ <<IAC>> \o s # <<>> /\ <<m.opt>> \o s # <<>> /\ <<SB, m.opt>> \o s # <<>>
    BY <2>1, <2>2
  <2> DEFINE z(b) == StuffedAll(b) \o <<IAC, SE>>
  <2>5. \A b \in Seq(Bytes) : z(b) \in Seq(Bytes) /\ z(b) # <<>>
    BY <2>3, <2>4
  <2>6. InSub(m, p)
    BY <1>5 DEF InMessage
  <2>7. CASE state = "iac" /\ p = <<SB, m.opt>> \o z(m.payload)
    BY <2>2, <2>4, <2>5, <2>7
  <2>8. CASE state = "sb" /\ p = <<m.opt>> \o z(m.payload)
    BY <2>2, <2>4, <2>5, <2>8
  <2>9. CASE InPayload(m, p)
    <3>1. PICK b \in Seq(Bytes) :
            \/ state = "sb" /\ p = z(b)
            \/ state = "sb_iac" /\ p = <<SE>>
            \/ state = "sb_iac" /\ \E e \in Seq(Bytes) : p = <<IAC>> \o z(e)
      BY <2>9 DEF InPayload
    <3>2. <<SE>> # <<>> /\ state # "data"
      BY <3>1
    <3>3. CASE state = "sb" /\ p = z(b)
      BY <2>5, <3>2, <3>3
    <3>4. CASE \E e \in Seq(Bytes) : p = <<IAC>> \o z(e)
      <4>1. PICK e \in Seq(Bytes) : p = <<IAC>> \o z(e)
        BY <3>4
      <4>2. z(e) \in Seq(Bytes)
        BY <2>5
      <4> HIDE DEF z
      <4> QED
        BY <2>4, <3>2, <4>1, <4>2
    <3>5. CASE p = <<SE>>
      BY <3>2, <3>5
    <3> QED
      BY <3>1, <3>3, <3>4, <3>5
  <2> QED
    BY <2>6, <2>7, <2>8, <2>9 DEF InSub
<1> QED
  BY <1>1, <1>2, <1>3, <1>4, <1>5 DEF Messages

\* Session data.
LEMMA DataMoves ==
    ASSUME TypeInv, NEW m \in Messages, m.kind = "data", NEW p \in Seq(Bytes),
           Before(m, p), c = Head(p), Byte
    PROVE  Moves(m, p)
<1>1. buf \in Seq(Bytes) /\ m.byte \in Bytes
  BY BytesAssumption DEF TypeInv, TypeOK, Messages
<1>2. RequestIn(m) = <<>> /\ DataIn(m) = <<m.byte>> /\ Encoded(m) = Stuffed(m.byte)
  BY DEF RequestIn, DataIn, Encoded
<1>3. CASE state = "data"
  <2>1. p = Stuffed(m.byte) /\ DataByte
    BY <1>2, <1>3 DEF Before, InMessage, InData, Byte, IacByte, CmdOptByte, SbByte, SbIacByte, Takes
  <2>2. CASE m.byte = IAC
    <3>1. p = <<IAC, IAC>> /\ c = IAC /\ Tail(p) = <<IAC>>
      BY <2>1, <2>2 DEF Stuffed
    <3>2. state' = "iac" /\ UNCHANGED <<buf, up>>
      BY <2>1, <3>1 DEF DataByte
    <3> QED
      BY <2>2, <3>1, <3>2 DEF Moves, InMessage, InData
  <2>3. CASE m.byte # IAC
    <3>1. p = <<m.byte>> /\ c = m.byte /\ Tail(p) = <<>>
      BY <2>1, <2>3 DEF Stuffed
    <3>2. state' = "data" /\ buf' = Append(buf, m.byte) /\ up' = up
      BY <1>3, <2>1, <2>3, <3>1 DEF DataByte
    <3>3. buf' = buf \o DataIn(m)
      BY <1>1, <1>2, <3>2
    <3> QED
      BY <1>2, <3>1, <3>2, <3>3, Zenon DEF Moves, Replied
  <2> QED
    BY <2>2, <2>3
<1>4. CASE state # "data"
  <2>1. m.byte = IAC /\ p = <<IAC>> /\ IacByte
    BY <1>4 DEF Before, InMessage, InData, Byte, DataByte, CmdOptByte, SbByte, SbIacByte, Takes
  <2>2. c = IAC /\ Tail(p) = <<>>
    BY <2>1
  <2>3. state' = "data" /\ buf' = Append(buf, IAC) /\ up' = up
    BY <2>1, <2>2 DEF IacByte, Commands, IAC, SB, WILL, WONT, DO, DONT
  <2>4. buf' = buf \o DataIn(m)
    BY <1>1, <1>2, <2>1, <2>3
  <2> QED
    BY <1>2, <2>2, <2>3, <2>4, Zenon DEF Moves, Replied
<1> QED
  BY <1>3, <1>4

\* IAC NOP.
LEMMA NopMoves ==
    ASSUME TypeInv, NEW m \in Messages, m.kind = "nop", NEW p \in Seq(Bytes),
           Before(m, p), c = Head(p), Byte
    PROVE  Moves(m, p)
<1>1. buf \o <<>> = buf
  BY ConcatEmptySeq DEF TypeInv, TypeOK
<1>2. RequestIn(m) = <<>> /\ DataIn(m) = <<>> /\ Encoded(m) = <<IAC, NOP>>
  BY DEF RequestIn, DataIn, Encoded
<1>3. CASE state = "data"
  <2>1. p = <<IAC, NOP>> /\ DataByte
    BY <1>2, <1>3 DEF Before, InMessage, InNop, Byte, IacByte, CmdOptByte, SbByte, SbIacByte, Takes
  <2>2. c = IAC /\ Tail(p) = <<NOP>>
    BY <2>1
  <2>3. state' = "iac" /\ UNCHANGED <<buf, up>>
    BY <2>1, <2>2 DEF DataByte
  <2> QED
    BY <2>2, <2>3 DEF Moves, InMessage, InNop
<1>4. CASE state # "data"
  <2>1. p = <<NOP>> /\ IacByte
    BY <1>4 DEF Before, InMessage, InNop, Byte, DataByte, CmdOptByte, SbByte, SbIacByte, Takes
  <2>2. c = NOP /\ Tail(p) = <<>>
    BY <2>1
  <2>3. state' = "data" /\ buf' = buf /\ up' = up
    BY <2>1, <2>2 DEF IacByte, Commands, NOP, IAC, SB, WILL, WONT, DO, DONT
  <2> QED
    BY <1>1, <1>2, <2>2, <2>3, Zenon DEF Moves, Replied
<1> QED
  BY <1>3, <1>4

\* A subnegotiation that the server cuts short.
LEMMA CutMoves ==
    ASSUME TypeInv, NEW m \in Messages, m.kind = "cut", NEW p \in Seq(Bytes),
           Before(m, p), c = Head(p), Byte
    PROVE  Moves(m, p)
<1>1. buf \o <<>> = buf
  BY ConcatEmptySeq DEF TypeInv, TypeOK
<1>2. RequestIn(m) = <<>> /\ DataIn(m) = <<>> /\ Encoded(m) = <<IAC, SB, m.opt, IAC, NOP>>
  BY DEF RequestIn, DataIn, Encoded
<1>3. CASE state = "data"
  <2>1. p = <<IAC, SB, m.opt, IAC, NOP>> /\ DataByte
    BY <1>2, <1>3 DEF Before, InMessage, InCut, Byte, IacByte, CmdOptByte, SbByte, SbIacByte, Takes
  <2>2. c = IAC /\ Tail(p) = <<SB, m.opt, IAC, NOP>>
    BY <2>1
  <2>3. state' = "iac" /\ UNCHANGED <<buf, up>>
    BY <2>1, <2>2 DEF DataByte
  <2> QED
    BY <2>2, <2>3 DEF Moves, InMessage, InCut
<1>4. CASE state = "iac"
  <2>1. p = <<SB, m.opt, IAC, NOP>> /\ IacByte
    BY <1>4 DEF Before, InMessage, InCut, Byte, DataByte, CmdOptByte, SbByte, SbIacByte, Takes
  <2>2. c = SB /\ Tail(p) = <<m.opt, IAC, NOP>>
    BY <2>1
  <2>3. state' = "sb" /\ UNCHANGED <<buf, up>> /\ ~sbHaveOpt'
    BY <2>1, <2>2 DEF IacByte, Commands, IAC, SB, WILL, WONT, DO, DONT
  <2> QED
    BY <2>2, <2>3 DEF Moves, InMessage, InCut
<1>5. CASE state = "sb" /\ ~sbHaveOpt
  <2>1. p = <<m.opt, IAC, NOP>> /\ SbByte
    BY <1>5 DEF Before, InMessage, InCut, Byte, DataByte, IacByte, CmdOptByte, SbIacByte, Takes
  <2>2. Tail(p) = <<IAC, NOP>>
    BY <2>1
  <2>3. state' = "sb" /\ UNCHANGED <<buf, up>> /\ sbHaveOpt'
    BY <1>5, <2>1 DEF SbByte
  <2> QED
    BY <2>2, <2>3 DEF Moves, InMessage, InCut
<1>6. CASE state = "sb" /\ sbHaveOpt
  <2>1. p = <<IAC, NOP>> /\ SbByte
    BY <1>6 DEF Before, InMessage, InCut, Byte, DataByte, IacByte, CmdOptByte, SbIacByte, Takes
  <2>2. c = IAC /\ Tail(p) = <<NOP>>
    BY <2>1
  <2>3. state' = "sb_iac" /\ UNCHANGED <<buf, up>>
    BY <1>6, <2>1, <2>2 DEF SbByte
  <2> QED
    BY <2>2, <2>3 DEF Moves, InMessage, InCut
<1>7. CASE state = "sb_iac"
  <2>1. p = <<NOP>> /\ SbIacByte
    BY <1>7 DEF Before, InMessage, InCut, Byte, DataByte, IacByte, CmdOptByte, SbByte, Takes
  <2>2. c = NOP /\ Tail(p) = <<>>
    BY <2>1
  <2>3. state' = "data" /\ buf' = buf /\ up' = up
    BY <2>1, <2>2 DEF SbIacByte, NOP, SE, IAC
  <2> QED
    BY <1>1, <1>2, <2>2, <2>3, Zenon DEF Moves, Replied
<1> QED
  BY <1>3, <1>4, <1>5, <1>6, <1>7 DEF Before, InMessage, InCut

\* A command: WILL, WONT, DO or DONT.
LEMMA CommandMoves ==
    ASSUME TypeInv, NEW m \in Messages, m.kind = "command", NEW p \in Seq(Bytes),
           Before(m, p), c = Head(p), Byte
    PROVE  Moves(m, p)
<1>1. buf \o <<>> = buf /\ up \in Seq(Sends)
  BY ConcatEmptySeq DEF TypeInv, TypeOK
<1>2. RequestIn(m) = <<m>> /\ DataIn(m) = <<>> /\ Encoded(m) = <<IAC, m.cmd, m.opt>>
  BY DEF RequestIn, DataIn, Encoded
<1>3. m.cmd \in Commands /\ m.opt \in Bytes
  BY BytesAssumption DEF Messages
<1>4. CASE state = "data"
  <2>1. p = <<IAC, m.cmd, m.opt>> /\ DataByte
    BY <1>2, <1>4 DEF Before, InMessage, InCommand, Byte, IacByte, CmdOptByte, SbByte, SbIacByte, Takes
  <2>2. c = IAC /\ Tail(p) = <<m.cmd, m.opt>>
    BY <2>1
  <2>3. state' = "iac" /\ UNCHANGED <<buf, up>>
    BY <2>1, <2>2 DEF DataByte
  <2> QED
    BY <2>2, <2>3 DEF Moves, InMessage, InCommand
<1>5. CASE state = "iac"
  <2>1. p = <<m.cmd, m.opt>> /\ IacByte
    BY <1>5 DEF Before, InMessage, InCommand, Byte, DataByte, CmdOptByte, SbByte, SbIacByte, Takes
  <2>2. c = m.cmd /\ Tail(p) = <<m.opt>>
    BY <2>1
  <2>3. state' = "cmd_opt" /\ pendingCmd' = m.cmd /\ UNCHANGED <<buf, up>>
    BY <1>3, <2>1, <2>2 DEF IacByte, Commands, IAC, WILL, WONT, DO, DONT
  <2> QED
    BY <2>2, <2>3 DEF Moves, InMessage, InCommand
<1>6. CASE state = "cmd_opt"
  <2>1. p = <<m.opt>> /\ pendingCmd = m.cmd /\ CmdOptByte
    BY <1>6 DEF Before, InMessage, InCommand, Byte, DataByte, IacByte, SbByte, SbIacByte, Takes
  <2>2. c = m.opt /\ Tail(p) = <<>>
    BY <2>1
  <2>3. state' = "data" /\ buf' = buf
    BY <2>1 DEF CmdOptByte
  <2> DEFINE x == AnswersOf(up)
  <2>4. \E a \in Sends : Fits(m, a) /\ AnswersOf(up') = Append(x, a)
    <3>1. ASSUME NEW cmd \in Commands, Fits(m, Command(cmd, m.opt)),
                 \/ up' = up \o <<Command(cmd, m.opt)>>
                 \/ up' = up \o <<Command(cmd, m.opt), WindowSize>>
          PROVE  \E a \in Sends : Fits(m, a) /\ AnswersOf(up') = Append(x, a)
      <4> DEFINE a == Command(cmd, m.opt)
      <4>1. /\ a \in Sends /\ a.kind = "command"
            /\ WindowSize \in Sends /\ WindowSize.kind = "window_size"
        BY <1>3 DEF Command, WindowSize, Sends
      <4> HIDE DEF a
      <4>2. /\ up \o <<a>> = Append(up, a) /\ up \o <<a, WindowSize>> = Append(Append(up, a), WindowSize)
            /\ Append(up, a) \in Seq(Sends)
        BY <1>1, <4>1
      <4>3. AnswersOf(Append(up, a)) = Append(x, a)
        BY <1>1, <4>1, AnswersCount
      <4>4. AnswersOf(Append(Append(up, a), WindowSize)) = AnswersOf(Append(up, a))
        BY <4>1, <4>2, AnswersCount
      <4>5. AnswersOf(up') = Append(x, a)
        BY <3>1, <4>2, <4>3, <4>4, Zenon DEF a
      <4> QED
        BY <3>1, <4>1, <4>5 DEF a
    <3>2. /\ WILL \in Commands /\ WONT \in Commands /\ DO \in Commands /\ DONT \in Commands
      BY DEF Commands
    <3>3. CASE m.cmd = WILL
      <4>1. up' = up \o WillAnswers(m.opt)
        BY <2>1, <2>2, <3>3 DEF CmdOptByte
      <4>2. /\ m.opt \in {ECHO, SGA} => Fits(m, Command(DO, m.opt))
            /\ m.opt \notin {ECHO, SGA} => Fits(m, Command(DONT, m.opt))
        BY <3>3 DEF Fits, Command, WILL, WONT, DO, DONT
      <4>3. CASE m.opt \in {ECHO, SGA}
        <5>1. WillAnswers(m.opt) = <<Command(DO, m.opt)>>
          BY <4>3 DEF WillAnswers
        <5> QED
          BY <3>1, <3>2, <4>1, <4>2, <4>3, <5>1, Zenon
      <4>4. CASE m.opt \notin {ECHO, SGA}
        <5>1. WillAnswers(m.opt) = <<Command(DONT, m.opt)>>
          BY <4>4 DEF WillAnswers
        <5> QED
          BY <3>1, <3>2, <4>1, <4>2, <4>4, <5>1, Zenon
      <4> QED
        BY <4>3, <4>4
    <3>4. CASE m.cmd = WONT
      <4>1. up' = up \o <<Command(DONT, m.opt)>>
        BY <2>1, <2>2, <3>4 DEF CmdOptByte, WontAnswers, WILL, WONT
      <4>2. Fits(m, Command(DONT, m.opt))
        BY <3>4 DEF Fits, Command, WILL, WONT, DO, DONT
      <4> QED
        BY <3>1, <3>2, <4>1, <4>2, Zenon
    <3>5. CASE m.cmd = DO
      <4>1. up' = up \o DoAnswers(m.opt)
        <5>1. pendingCmd = DO /\ DO # WILL /\ DO # WONT
          BY <2>1, <3>5 DEF WILL, WONT, DO
        <5>2. up' = up \o DoAnswers(c)
          BY <2>1, <5>1, Zenon DEF CmdOptByte
        <5> QED
          BY <2>2, <5>2, Zenon
      <4>2. /\ m.opt \in {SGA, TERM_TYPE, NAWS} => Fits(m, Command(WILL, m.opt))
            /\ m.opt \notin {SGA, TERM_TYPE, NAWS} => Fits(m, Command(WONT, m.opt))
        BY <3>5 DEF Fits, Command, WILL, WONT, DO, DONT
      <4>3. CASE m.opt \in {SGA, TERM_TYPE, NAWS}
        <5>1. \/ DoAnswers(m.opt) = <<Command(WILL, m.opt)>>
              \/ DoAnswers(m.opt) = <<Command(WILL, m.opt), WindowSize>>
          BY <4>3 DEF DoAnswers
        <5> QED
          BY <3>1, <3>2, <4>1, <4>2, <4>3, <5>1, Zenon
      <4>4. CASE m.opt \notin {SGA, TERM_TYPE, NAWS}
        <5>1. DoAnswers(m.opt) = <<Command(WONT, m.opt)>>
          BY <4>4 DEF DoAnswers
        <5> QED
          BY <3>1, <3>2, <4>1, <4>2, <4>4, <5>1, Zenon
      <4> QED
        BY <4>3, <4>4
    <3>6. CASE m.cmd = DONT
      <4>1. up' = up \o <<Command(WONT, m.opt)>>
        BY <2>1, <2>2, <3>6 DEF CmdOptByte, DontAnswers, WILL, WONT, DO, DONT
      <4>2. Fits(m, Command(WONT, m.opt))
        BY <3>6 DEF Fits, Command, WILL, WONT, DO, DONT
      <4> QED
        BY <3>1, <3>2, <4>1, <4>2, Zenon
    <3> QED
      BY <1>3, <3>3, <3>4, <3>5, <3>6 DEF Commands
  <2>5. Replied(m)
    BY <1>2, <2>4 DEF Replied
  <2> QED
    BY <1>1, <1>2, <2>2, <2>3, <2>5, Zenon DEF Moves
<1> QED
  BY <1>4, <1>5, <1>6 DEF Before, InMessage, InCommand
\* A whole subnegotiation.
LEMMA SubMoves ==
    ASSUME TypeInv, NEW m \in Messages, m.kind = "sub", NEW p \in Seq(Bytes),
           Before(m, p), c = Head(p), Byte
    PROVE  Moves(m, p)
<1> DEFINE z(b) == StuffedAll(b) \o <<IAC, SE>>
           o == m.opt
<1>1. buf \o <<>> = buf /\ up \in Seq(Sends) /\ sbBuf \in Seq(Bytes) /\ Len(sbBuf) \in Nat
  BY ConcatEmptySeq, LenProperties DEF TypeInv, TypeOK
<1>2. IAC \in Bytes /\ SE \in Bytes /\ SB \in Bytes
  BY DEF IAC, SE, SB, Bytes
<1>3. o \in Bytes /\ m.payload \in Seq(Bytes)
  BY BytesAssumption, PayloadsAssumption DEF Messages
<1>4. \A b \in Seq(Bytes) : StuffedAll(b) \in Seq(Bytes) /\ z(b) \in Seq(Bytes)
  <2>1. ASSUME NEW b \in Seq(Bytes) PROVE StuffedAll(b) \in Seq(Bytes) /\ z(b) \in Seq(Bytes)
    <3>1. StuffedAll(b) \in Seq(Bytes)
      BY <1>2, StuffedSequence
    <3>2. <<IAC, SE>> \in Seq(Bytes)
      BY <1>2
    <3> QED
      BY <3>1, <3>2, ConcatProperties
  <2> QED
    BY <2>1
<1>5. z(<<>>) = <<IAC, SE>>
  <2>1. <<>> \o <<IAC, SE>> = <<IAC, SE>>
    BY <1>2
  <2> QED
    BY <2>1, StuffedNothing
<1>6. ASSUME NEW x \in Bytes, NEW e \in Seq(Bytes)
      PROVE  z(<<x>> \o e) = Stuffed(x) \o z(e)
  <2> DEFINE y == Stuffed(x)
             t == StuffedAll(e)
             f == <<IAC, SE>>
  <2>1. y \in Seq(Bytes) /\ t \in Seq(Bytes) /\ f \in Seq(Bytes)
    BY <1>2, <1>4, StuffedByte
  <2>2. StuffedAll(<<x>> \o e) = y \o t
    BY StuffedSequence
  <2> HIDE DEF y, t, f
  <2>3. (y \o t) \o f = y \o (t \o f)
    BY <2>1, BytesConcat, ZenonT(60)
  <2> QED
    BY <2>2, <2>3, Zenon DEF y, t, f
<1>7. Encoded(m) = <<IAC, SB, o>> \o z(m.payload)
  <2> DEFINE y == <<IAC, SB, o>>
             t == StuffedAll(m.payload)
             f == <<IAC, SE>>
  <2>1. y \in Seq(Bytes) /\ t \in Seq(Bytes) /\ f \in Seq(Bytes)
    BY <1>2, <1>3, <1>4
  <2>2. Encoded(m) = (y \o t) \o f
    BY DEF Encoded
  <2> HIDE DEF y, t, f
  <2>3. (y \o t) \o f = y \o (t \o f)
    BY <2>1, BytesConcat
  <2> QED
    BY <2>2, <2>3, Zenon DEF y, t, f
<1>8. \A s \in Seq(Bytes) :
        /\ Head(<<IAC, SB, o>> \o s) = IAC /\ Tail(<<IAC, SB, o>> \o s) = <<SB, o>> \o s
        /\ Head(<<SB, o>> \o s) = SB /\ Tail(<<SB, o>> \o s) = <<o>> \o s
        /\ Head(<<o>> \o s) = o /\ Tail(<<o>> \o s) = s
  BY <1>2, <1>3
<1>9. \A x \in Bytes, s \in Seq(Bytes) : Head(<<x>> \o s) = x /\ Tail(<<x>> \o s) = s
  OBVIOUS
<1>10. DataIn(m) = <<>>
  BY DEF DataIn
<1>11. InSub(m, p) \/ state = "data"
  BY DEF Before, InMessage
<1> HIDE DEF z, o
<1>12. CASE state = "data"
  <2>1. p = <<IAC, SB, o>> \o z(m.payload) /\ DataByte
    BY <1>7, <1>12 DEF Before, InMessage, InSub, InPayload, Byte, IacByte, CmdOptByte, SbByte, SbIacByte, Takes
  <2>2. c = IAC /\ Tail(p) = <<SB, o>> \o z(m.payload)
    BY <1>3, <1>4, <1>8, <2>1
  <2>3. state' = "iac" /\ UNCHANGED <<buf, up>>
    BY <2>1, <2>2 DEF DataByte
  <2> QED
    BY <2>2, <2>3 DEF Moves, InMessage, InSub, z, o
<1>13. CASE state = "iac"
  <2>1. p = <<SB, o>> \o z(m.payload) /\ IacByte
    BY <1>11, <1>13 DEF InSub, InPayload, Byte, DataByte, CmdOptByte, SbByte, SbIacByte, Takes, z, o
  <2>2. c = SB /\ Tail(p) = <<o>> \o z(m.payload)
    BY <1>3, <1>4, <1>8, <2>1
  <2>3. state' = "sb" /\ UNCHANGED <<buf, up>> /\ ~sbHaveOpt' /\ sbBuf' = <<>>
    BY <2>1, <2>2 DEF IacByte, Commands, IAC, SB, WILL, WONT, DO, DONT
  <2> QED
    BY <2>2, <2>3 DEF Moves, InMessage, InSub, z, o
<1>14. CASE state = "sb" /\ ~sbHaveOpt
  <2>1. p = <<o>> \o z(m.payload) /\ sbBuf = <<>> /\ SbByte
    BY <1>11, <1>14 DEF InSub, InPayload, Byte, DataByte, IacByte, CmdOptByte, SbIacByte, Takes, z, o
  <2>2. c = o /\ Tail(p) = z(m.payload)
    BY <1>3, <1>4, <1>8, <2>1
  <2>3. state' = "sb" /\ UNCHANGED <<buf, up>> /\ sbHaveOpt' /\ sbOpt' = o /\ sbBuf' = <<>>
    BY <1>14, <2>1, <2>2 DEF SbByte
  <2>4. <<>> \in Seq(Bytes) /\ m.payload = <<>> \o m.payload
    BY <1>3, EmptySeq, ConcatEmptySeq
  <2>5. Kept(<<>>)'
    BY <2>3 DEF Kept
  <2>6. InPayload(m, Tail(p))'
    BY <1>3, <2>2, <2>3, <2>4, <2>5 DEF InPayload, z, o
  <2> QED
    BY <2>3, <2>6 DEF Moves, InMessage, InSub
\* A byte x of the payload is added to sb_buf, or dropped when it is full.
<1>15. ASSUME NEW a \in Seq(Bytes), NEW x \in Bytes, NEW e \in Seq(Bytes),
              m.payload = a \o (<<x>> \o e), Kept(a), SbAppend(x), sbHaveOpt, sbOpt = o,
              state' = "sb", UNCHANGED <<buf, up, sbOpt, sbHaveOpt>>, Tail(p) = z(e)
       PROVE  Moves(m, p)
  <2> DEFINE k == Append(a, x)
  <2>1. k \in Seq(Bytes) /\ k # <<>> /\ k = a \o <<x>>
    <3>1. k \in Seq(Bytes) /\ Len(k) = Len(a) + 1 /\ Len(a) \in Nat
      BY AppendProperties, LenProperties
    <3>2. k = a \o <<x>>
      OBVIOUS
    <3> HIDE DEF k
    <3> QED
      BY <3>1, <3>2
  <2>2. m.payload = k \o e
    <3> DEFINE y == <<x>>
    <3>1. y \in Seq(Bytes)
      OBVIOUS
    <3> HIDE DEF y, k
    <3>2. (a \o y) \o e = a \o (y \o e)
      <4>1. a \in Seq(Bytes) /\ y \in Seq(Bytes) /\ e \in Seq(Bytes)
        BY <3>1
      <4> QED
        BY <4>1, BytesConcat
    <3> QED
      BY <1>15, <2>1, <3>2, Zenon DEF y
  <2>3. Kept(k)'
    <3>1. CASE a = <<>>
      <4>1. sbBuf = <<>> /\ 0 < SbBufLen /\ Len(sbBuf) = 0
        BY <1>15, <3>1, LengthsAssumption DEF Kept
      <4>2. sbBuf' = <<x>>
        BY <1>15, <4>1 DEF SbAppend
      <4>3. k[1] = x
        BY <3>1
      <4> QED
        BY <2>1, <4>2, <4>3 DEF Kept
    <3>2. CASE a # <<>>
      <4>1. Len(sbBuf) >= 1 /\ sbBuf[1] = a[1]
        BY <1>15, <3>2 DEF Kept
      <4>2. k[1] = a[1]
        BY <3>2
      <4>3. sbBuf' = Append(sbBuf, x) \/ sbBuf' = sbBuf
        BY <1>15 DEF SbAppend
      <4>4. Len(sbBuf') >= 1 /\ sbBuf'[1] = sbBuf[1]
        <5> DEFINE n == Append(sbBuf, x)
        <5>1. /\ Len(n) = Len(sbBuf) + 1
              /\ \A i \in 1..Len(sbBuf) : n[i] = sbBuf[i]
          BY <1>1, AppendProperties
        <5> HIDE DEF n
        <5>2. Len(n) >= 1 /\ n[1] = sbBuf[1]
          BY <1>1, <4>1, <5>1
        <5> QED
          BY <4>1, <4>3, <5>2 DEF n
      <4> QED
        BY <2>1, <4>1, <4>2, <4>4 DEF Kept
    <3> QED
      BY <3>1, <3>2
  <2> HIDE DEF k
  <2>4. InPayload(m, Tail(p))'
    BY <1>15, <2>1, <2>2, <2>3 DEF InPayload, z, o
  <2> QED
    BY <1>15, <2>4 DEF Moves, InMessage, InSub
<1>16. CASE state = "sb" /\ sbHaveOpt
  <2>1. SbByte /\ InPayload(m, p)
    BY <1>11, <1>16 DEF InSub, Byte, DataByte, IacByte, CmdOptByte, SbIacByte, Takes
  <2>2. PICK a, b \in Seq(Bytes) : m.payload = a \o b /\ Kept(a) /\ p = z(b)
    BY <1>16, <2>1 DEF InPayload, z
  <2>3. sbOpt = o
    BY <2>1 DEF InPayload, o
  <2>4. CASE b = <<>>
    <3>1. p = <<IAC, SE>> /\ c = IAC /\ Tail(p) = <<SE>>
      <4>1. p = <<IAC, SE>>
        BY <1>5, <2>2, <2>4, Zenon
      <4> QED
        BY <4>1
    <3>2. state' = "sb_iac" /\ UNCHANGED <<buf, up, sbOpt, sbHaveOpt, sbBuf>>
      BY <1>16, <2>1, <3>1 DEF SbByte
    <3>3. Kept(a)'
      BY <2>2, <3>2 DEF Kept
    <3>4. InPayload(m, Tail(p))'
      BY <1>16, <2>2, <2>3, <2>4, <3>1, <3>2, <3>3 DEF InPayload, o
    <3> QED
      BY <3>2, <3>4 DEF Moves, InMessage, InSub
  <2>5. CASE b # <<>>
    <3> DEFINE x == Head(b)
               e == Tail(b)
    <3>1. x \in Bytes /\ e \in Seq(Bytes) /\ b = <<x>> \o e
      BY <2>2, <2>5, HeadTailProperties
    <3> HIDE DEF x, e
    <3>2. p = Stuffed(x) \o z(e) /\ z(e) \in Seq(Bytes)
      BY <1>4, <1>6, <2>2, <3>1
    <3>3. CASE x = IAC
      <4>1. p = <<IAC, IAC>> \o z(e)
        BY <3>2, <3>3 DEF Stuffed
      <4>2. c = IAC /\ Tail(p) = <<IAC>> \o z(e)
        <5>1. \A s \in Seq(Bytes) :
                Head(<<IAC, IAC>> \o s) = IAC /\ Tail(<<IAC, IAC>> \o s) = <<IAC>> \o s
          BY <1>2
        <5> QED
          BY <3>2, <4>1, <5>1
      <4>3. state' = "sb_iac" /\ UNCHANGED <<buf, up, sbOpt, sbHaveOpt, sbBuf>>
        BY <1>16, <2>1, <4>2 DEF SbByte
      <4>4. Kept(a)'
        BY <2>2, <4>3 DEF Kept
      <4>5. InPayload(m, Tail(p))'
        BY <1>16, <2>2, <2>3, <3>1, <3>3, <4>2, <4>3, <4>4 DEF InPayload, z, o
      <4> QED
        BY <4>3, <4>5 DEF Moves, InMessage, InSub
    <3>4. CASE x # IAC
      <4>1. p = <<x>> \o z(e)
        BY <3>2, <3>4 DEF Stuffed
      <4>2. c = x /\ Tail(p) = z(e)
        BY <1>9, <3>1, <3>2, <4>1
      <4>3. SbAppend(x) /\ state' = "sb" /\ UNCHANGED <<buf, up, sbOpt, sbHaveOpt>>
        BY <1>16, <2>1, <3>4, <4>2 DEF SbByte
      <4> QED
        BY <1>15, <1>16, <2>2, <2>3, <3>1, <4>2, <4>3
    <3> QED
      BY <3>3, <3>4
  <2> QED
    BY <2>4, <2>5
<1>17. CASE state = "sb_iac"
  <2>1. SbIacByte /\ InPayload(m, p)
    BY <1>11, <1>17 DEF InSub, Byte, DataByte, IacByte, CmdOptByte, SbByte, Takes
  <2>2. sbHaveOpt /\ sbOpt = o
    BY <2>1 DEF InPayload, o
  <2>3. PICK a, b \in Seq(Bytes) :
          /\ m.payload = a \o b /\ Kept(a)
          /\ \/ b = <<>> /\ p = <<SE>>
             \/ \E e \in Seq(Bytes) : b = <<IAC>> \o e /\ p = <<IAC>> \o z(e)
    BY <1>17, <2>1 DEF InPayload, z
  <2>4. CASE b = <<>> /\ p = <<SE>>
    <3>1. c = SE /\ Tail(p) = <<>> /\ SE # IAC
      BY <2>4 DEF SE, IAC
    <3>2. state' = "data" /\ buf' = buf /\ up' = up \o SubnegAnswers
      BY <2>1, <3>1 DEF SbIacByte
    <3>3. m.payload = a
      BY <2>3, <2>4, ConcatEmptySeq
    <3>4. (Len(sbBuf) >= 1 /\ sbBuf[1] = 1) <=> (m.payload # <<>> /\ m.payload[1] = 1)
      BY <1>1, <2>3, <3>3 DEF Kept
    <3>5. Replied(m)
      <4>1. CASE o = TERM_TYPE /\ m.payload # <<>> /\ m.payload[1] = 1
        <5>1. RequestIn(m) = <<m>> /\ SubnegAnswers = <<TerminalType>>
          BY <2>2, <3>4, <4>1 DEF RequestIn, SubnegAnswers, o
        <5>2. TerminalType \in Sends /\ TerminalType.kind = "terminal_type"
          BY DEF TerminalType, Sends
        <5>3. up' = Append(up, TerminalType)
          BY <1>1, <3>2, <5>1, <5>2
        <5>4. AnswersOf(Append(up, TerminalType)) = Append(AnswersOf(up), TerminalType)
          BY <1>1, <5>2, AnswersCount
        <5>5. AnswersOf(up') = Append(AnswersOf(up), TerminalType)
          BY <5>3, <5>4, Zenon
        <5>6. Fits(m, TerminalType)
          BY <5>2 DEF Fits
        <5> QED
          BY <5>1, <5>2, <5>5, <5>6, Zenon DEF Replied
      <4>2. CASE ~(o = TERM_TYPE /\ m.payload # <<>> /\ m.payload[1] = 1)
        <5>1. RequestIn(m) = <<>> /\ SubnegAnswers = <<>>
          BY <2>2, <3>4, <4>2 DEF RequestIn, SubnegAnswers, o
        <5>2. up' = up
          BY <1>1, <3>2, <5>1, ConcatEmptySeq
        <5> QED
          BY <5>1, <5>2, Zenon DEF Replied
      <4> QED
        BY <4>1, <4>2
    <3> QED
      BY <1>1, <1>10, <3>1, <3>2, <3>5, Zenon DEF Moves
  <2>5. ASSUME NEW e \in Seq(Bytes), b = <<IAC>> \o e, p = <<IAC>> \o z(e) PROVE Moves(m, p)
    <3>1. c = IAC /\ Tail(p) = z(e) /\ SE # IAC
      BY <1>2, <1>4, <1>9, <2>5 DEF SE, IAC
    <3>2. SbAppend(IAC) /\ state' = "sb" /\ UNCHANGED <<buf, up, sbOpt, sbHaveOpt>>
      BY <2>1, <3>1 DEF SbIacByte
    <3> QED
      BY <1>2, <1>15, <2>2, <2>3, <2>5, <3>1, <3>2
  <2> QED
    BY <2>3, <2>4, <2>5
<1> QED
  BY <1>11, <1>12, <1>13, <1>14, <1>16, <1>17 DEF InSub, InPayload
-----------------------------------------------------------------------------
(* The decoder in the stream. *)

Matched(done, answers) ==
    Len(done) = Len(answers) /\ \A i \in 1..Len(done) : Fits(done[i], answers[i])

\* The bytes p of a message are to come, which bring the data d and the
\* requests r.
Pending(p, d, r) ==
    \/ state = "data" /\ p = <<>> /\ d = <<>> /\ r = <<>>
    \/ state # "data" /\ \E m \in Messages : InMessage(m, p) /\ d = DataIn(m) /\ r = RequestIn(m)

\* What has been received and what is still to come, after p, are the messages
\* left; the data is what was read, d and theirs; the requests are the ones
\* answered, r and theirs.
Accounts(p, d, r, done, left) ==
    /\ raw \o wire = p \o StreamOf(left)
    /\ DataOf(messages) = (delivered \o buf) \o (d \o DataOf(left))
    /\ RequestsOf(messages) = done \o (r \o RequestsOf(left))
    /\ Matched(done, AnswersOf(up))

Progress ==
    \E p, d \in Seq(Bytes), r, done, left \in Seq(Messages) :
        Pending(p, d, r) /\ Accounts(p, d, r, done, left)

\* A step that changes nothing of this.
LEMMA ProgressKept ==
    ASSUME TypeInv, Progress, UNCHANGED <<decoderVars, messages>>,
           raw' \o wire' = raw \o wire, delivered' \o buf' = delivered \o buf,
           AnswersOf(up') = AnswersOf(up)
    PROVE  Progress'
<1>1. PICK p, d \in Seq(Bytes), r, done, left \in Seq(Messages) :
        Pending(p, d, r) /\ Accounts(p, d, r, done, left)
  BY DEF Progress
<1>2. Pending(p, d, r)'
  BY <1>1, ZenonT(60) DEF Pending, InMessage, InData, InCommand, InSub, InPayload, InCut, InNop, Kept, decoderVars
<1>3. Accounts(p, d, r, done, left)'
  BY <1>1, Zenon DEF Accounts
<1> QED
  BY <1>2, <1>3 DEF Progress

\* How requests are put together.
LEMMA RequestsConcat == \A x, y, z \in Seq(Messages) : (x \o y) \o z = x \o (y \o z)
<1>1. \A x, y, z \in Seq(Messages) : Associates(x, y, z)
  BY ConcatAssociates
<1> QED
  BY <1>1, Zenon DEF Associates

\* The server sends one more message.
LEMMA ProgressServer ==
    ASSUME TypeInv, Progress, NEW m \in Messages, ServerSends(m)
    PROVE  Progress'
<1>1. PICK p, d \in Seq(Bytes), r, done, left \in Seq(Messages) :
        Pending(p, d, r) /\ Accounts(p, d, r, done, left)
  BY DEF Progress
<1>2. Pending(p, d, r)'
  BY <1>1, ZenonT(60) DEF Pending, InMessage, InData, InCommand, InSub, InPayload, InCut, InNop, Kept, decoderVars,
              ServerSends
<1> DEFINE more == Append(left, m)
<1>3. more \in Seq(Messages)
  OBVIOUS
<1>4. /\ StreamOf(more) = StreamOf(left) \o Encoded(m)
      /\ DataOf(more) = DataOf(left) \o DataIn(m)
      /\ RequestsOf(more) = RequestsOf(left) \o RequestIn(m)
  BY MessagesAppend
<1>5. /\ StreamOf(messages') = StreamOf(messages) \o Encoded(m)
      /\ DataOf(messages') = DataOf(messages) \o DataIn(m)
      /\ RequestsOf(messages') = RequestsOf(messages) \o RequestIn(m)
  <2>1. messages \in Seq(Messages) /\ messages' = Append(messages, m)
    BY DEF ServerSends, TypeInv, TypeOK
  <2>2. /\ StreamOf(Append(messages, m)) = StreamOf(messages) \o Encoded(m)
        /\ DataOf(Append(messages, m)) = DataOf(messages) \o DataIn(m)
        /\ RequestsOf(Append(messages, m)) = RequestsOf(messages) \o RequestIn(m)
    BY <2>1, MessagesAppend
  <2> QED
    BY <2>1, <2>2, Zenon
<1> HIDE DEF more
<1>6. /\ wire' = wire \o Encoded(m) /\ raw' = raw /\ delivered' = delivered /\ buf' = buf /\ up' = up
  BY DEF ServerSends, readVars
<1> DEFINE e == Encoded(m)
           de == DataIn(m)
           re == RequestIn(m)
           s == StreamOf(left)
           ds == DataOf(left)
           rs == RequestsOf(left)
           got == delivered \o buf
<1>8. /\ e \in Seq(Bytes) /\ de \in Seq(Bytes) /\ re \in Seq(Messages) /\ got \in Seq(Bytes)
      /\ raw \in Seq(Bytes) /\ wire \in Seq(Bytes)
  <2>1. de \in Seq(Bytes) /\ re \in Seq(Messages) /\ e \in Seq(Bytes)
    BY MessageParts, EncodedMessage
  <2>2. raw \in Seq(Bytes) /\ wire \in Seq(Bytes) /\ got \in Seq(Bytes)
    BY DEF TypeInv, TypeOK
  <2> QED
    BY <2>1, <2>2
<1>9. s \in Seq(Bytes) /\ ds \in Seq(Bytes) /\ rs \in Seq(Messages)
  BY MessagesType
<1> HIDE DEF e, de, re, s, ds, rs, got
<1>10. raw' \o wire' = p \o StreamOf(more)
  <2>1. (raw \o wire) \o e = raw \o (wire \o e)
    <3>1. raw \in Seq(Bytes) /\ wire \in Seq(Bytes) /\ e \in Seq(Bytes)
      BY <1>8
    <3> QED
      BY <3>1, BytesConcat, ZenonT(60)
  <2>2. (p \o s) \o e = p \o (s \o e)
    <3>1. s \in Seq(Bytes) /\ e \in Seq(Bytes)
      BY <1>8, <1>9
    <3> QED
      BY <3>1, BytesConcat
  <2>3. raw \o wire = p \o s
    BY <1>1 DEF Accounts, s
  <2> QED
    BY <1>4, <1>6, <2>1, <2>2, <2>3, Zenon DEF e, s
<1>11. DataOf(messages') = (delivered' \o buf') \o (d \o DataOf(more))
  <2>1. (got \o (d \o ds)) \o de = got \o (d \o (ds \o de))
    <3> DEFINE v == d \o ds
    <3>1. got \in Seq(Bytes) /\ ds \in Seq(Bytes) /\ de \in Seq(Bytes) /\ v \in Seq(Bytes)
      BY <1>8, <1>9, ConcatProperties
    <3>2. (d \o ds) \o de = d \o (ds \o de)
      BY <3>1, BytesConcat
    <3> HIDE DEF v
    <3>3. (got \o v) \o de = got \o (v \o de)
      <4>1. got \in Seq(Bytes) /\ v \in Seq(Bytes) /\ de \in Seq(Bytes)
        BY <3>1
      <4> QED
        BY <4>1, BytesConcat, ZenonT(60)
    <3> QED
      BY <3>2, <3>3, Zenon DEF v
  <2>2. DataOf(messages) = got \o (d \o ds)
    BY <1>1, Zenon DEF Accounts, got, ds
  <2> QED
    BY <1>4, <1>5, <1>6, <2>1, <2>2, Zenon DEF got, ds, de
<1>12. RequestsOf(messages') = done \o (r \o RequestsOf(more))
  <2>1. (done \o (r \o rs)) \o re = done \o (r \o (rs \o re))
    <3> DEFINE v == r \o rs
    <3>1. rs \in Seq(Messages) /\ re \in Seq(Messages) /\ v \in Seq(Messages)
      BY <1>8, <1>9, ConcatProperties
    <3>2. (r \o rs) \o re = r \o (rs \o re)
      BY <3>1, RequestsConcat, SMTT(40)
    <3> HIDE DEF v
    <3>3. (done \o v) \o re = done \o (v \o re)
      BY <3>1, RequestsConcat, ZenonT(60)
    <3> QED
      BY <3>2, <3>3, Zenon DEF v
  <2>2. RequestsOf(messages) = done \o (r \o rs)
    BY <1>1, Zenon DEF Accounts, rs
  <2> QED
    BY <1>4, <1>5, <2>1, <2>2, Zenon DEF rs, re
<1>13. Matched(done, AnswersOf(up'))
  BY <1>1, <1>6, Zenon DEF Accounts
<1>14. Accounts(p, d, r, done, more)'
  BY <1>10, <1>11, <1>12, <1>13 DEF Accounts
<1> QED
  BY <1>2, <1>3, <1>14 DEF Progress

\* When a byte of a chunk is to be decoded, it is of some message.
LEMMA NextByte ==
    ASSUME TypeInv, Progress, raw # <<>>
    PROVE  \E m \in Messages, p \in Seq(Bytes), done, left \in Seq(Messages) :
              Before(m, p) /\ p # <<>> /\ Accounts(p, DataIn(m), RequestIn(m), done, left)
<1>1. PICK p, d \in Seq(Bytes), r, done, left \in Seq(Messages) :
        Pending(p, d, r) /\ Accounts(p, d, r, done, left)
  BY DEF Progress
<1>2. CASE state # "data"
  <2>1. PICK m \in Messages : InMessage(m, p) /\ d = DataIn(m) /\ r = RequestIn(m)
    BY <1>1, <1>2 DEF Pending
  <2>2. p # <<>>
    BY <2>1, InMessageMore
  <2> QED
    BY <1>1, <2>1, <2>2 DEF Before
<1>3. CASE state = "data"
  <2>1. p = <<>> /\ d = <<>> /\ r = <<>>
    BY <1>1, <1>3 DEF Pending
  <2> DEFINE s == StreamOf(left)
             ds == DataOf(left)
             rs == RequestsOf(left)
  <2>2. s \in Seq(Bytes) /\ ds \in Seq(Bytes) /\ rs \in Seq(Messages)
    BY MessagesType
  <2>3. raw \o wire = p \o s /\ DataOf(messages) = (delivered \o buf) \o (d \o ds)
        /\ RequestsOf(messages) = done \o (r \o rs) /\ Matched(done, AnswersOf(up))
    BY <1>1, Zenon DEF Accounts
  <2> HIDE DEF s, ds, rs
  <2>4. p \o s = s /\ d \o ds = ds /\ r \o rs = rs
    <3>1. <<>> \o s = s /\ <<>> \o ds = ds /\ <<>> \o rs = rs
      BY <2>2, ConcatEmptySeq
    <3> QED
      BY <2>1, <3>1, Zenon
  <2>5. left # <<>>
    <3>1. raw \o wire # <<>>
      BY DEF TypeInv, TypeOK
    <3> QED
      BY <2>3, <2>4, <3>1, NoMessages DEF s
  <2> DEFINE m == Head(left)
             t == Tail(left)
  <2>6. m \in Messages /\ t \in Seq(Messages) /\ left = <<m>> \o t
    BY <2>5, HeadTailProperties
  <2> HIDE DEF m, t
  <2>7. /\ s = Encoded(m) \o StreamOf(t) /\ ds = DataIn(m) \o DataOf(t)
        /\ rs = RequestIn(m) \o RequestsOf(t)
    BY <2>6, MessagesCons DEF s, ds, rs
  <2>8. Accounts(Encoded(m), DataIn(m), RequestIn(m), done, t)
    BY <2>3, <2>4, <2>7, Zenon DEF Accounts
  <2>9. Encoded(m) \in Seq(Bytes) /\ Encoded(m) # <<>> /\ Before(m, Encoded(m))
    BY <1>3, <2>6, EncodedMessage DEF Before
  <2> QED
    BY <2>6, <2>8, <2>9
<1> QED
  BY <1>2, <1>3

\* It is decoded.
LEMMA ProgressByte ==
    ASSUME TypeInv, Progress, Byte
    PROVE  Progress'
<1>1. PICK st : Takes(st)
  BY DEF Byte, DataByte, IacByte, CmdOptByte, SbByte, SbIacByte
<1>2. /\ raw # <<>> /\ raw' = Tail(raw) /\ messages' = messages /\ wire' = wire
      /\ delivered' = delivered
  BY <1>1 DEF Takes, serverVars
<1>3. PICK m \in Messages, p \in Seq(Bytes), done, left \in Seq(Messages) :
        Before(m, p) /\ p # <<>> /\ Accounts(p, DataIn(m), RequestIn(m), done, left)
  BY <1>2, NextByte
<1> DEFINE s == StreamOf(left)
           ds == DataOf(left)
           rs == RequestsOf(left)
           de == DataIn(m)
           re == RequestIn(m)
           t == Tail(p)
<1>4. s \in Seq(Bytes) /\ ds \in Seq(Bytes) /\ rs \in Seq(Messages)
  BY MessagesType
<1>5. de \in Seq(Bytes) /\ re \in Seq(Messages)
  BY MessageParts
<1>6. /\ raw \o wire = p \o s /\ DataOf(messages) = (delivered \o buf) \o (de \o ds)
      /\ RequestsOf(messages) = done \o (re \o rs) /\ Matched(done, AnswersOf(up))
  BY <1>3, Zenon DEF Accounts
<1>7. raw \in Seq(Bytes) /\ wire \in Seq(Bytes) /\ delivered \in Seq(Bytes) /\ buf \in Seq(Bytes)
  BY DEF TypeInv, TypeOK
<1>8. t \in Seq(Bytes)
  BY <1>3
<1> HIDE DEF s, ds, rs, de, re, t
<1>9. Head(raw) = Head(p) /\ raw' \o wire' = t \o s
  <2>1. ASSUME NEW x \in Seq(Bytes), x # <<>>, NEW y \in Seq(Bytes)
        PROVE  Head(x \o y) = Head(x) /\ Tail(x \o y) = Tail(x) \o y
    BY <2>1
  <2>2. Head(raw \o wire) = Head(raw) /\ Tail(raw \o wire) = Tail(raw) \o wire
    BY <1>2, <1>7, <2>1
  <2>3. Head(p \o s) = Head(p) /\ Tail(p \o s) = t \o s
    BY <1>3, <1>4, <2>1 DEF t
  <2> QED
    BY <1>2, <1>6, <2>2, <2>3, Zenon
<1>10. Moves(m, p)
  <2>1. c = Head(p)
    BY <1>9 DEF c
  <2>2. m.kind \in {"data", "command", "sub", "cut", "nop"}
    BY DEF Messages
  <2>3. CASE m.kind = "data"
    BY <1>3, <2>1, <2>3, DataMoves
  <2>4. CASE m.kind = "command"
    BY <1>3, <2>1, <2>4, CommandMoves
  <2>5. CASE m.kind = "sub"
    BY <1>3, <2>1, <2>5, SubMoves
  <2>6. CASE m.kind = "cut"
    BY <1>3, <2>1, <2>6, CutMoves
  <2>7. CASE m.kind = "nop"
    BY <1>3, <2>1, <2>7, NopMoves
  <2> QED
    BY <2>2, <2>3, <2>4, <2>5, <2>6, <2>7
\* The decoder is still inside m.
<1>11. CASE (state' # "data" /\ InMessage(m, Tail(p))') /\ UNCHANGED <<buf, up>>
  <2>1. Pending(t, de, re)'
    BY <1>11 DEF Pending, t, de, re
  <2>2. Accounts(t, de, re, done, left)'
    <3>1. /\ DataOf(messages') = (delivered' \o buf') \o (de \o ds)
          /\ RequestsOf(messages') = done \o (re \o rs) /\ Matched(done, AnswersOf(up'))
      BY <1>2, <1>6, <1>11, Zenon
    <3> QED
      BY <1>9, <3>1, Zenon DEF Accounts, s, ds, rs
  <2> QED
    BY <1>5, <1>8, <2>1, <2>2 DEF Progress
\* It is at the end of m.
<1>12. CASE Tail(p) = <<>> /\ state' = "data" /\ buf' = buf \o DataIn(m) /\ Replied(m)
  <2> DEFINE more == done \o re
             x == AnswersOf(up)
  <2>1. Pending(<<>>, <<>>, <<>>)'
    BY <1>12 DEF Pending
  <2>2. raw' \o wire' = <<>> \o s
    BY <1>9, <1>12, Zenon DEF t
  <2>3. DataOf(messages') = (delivered' \o buf') \o (<<>> \o ds)
    <3>1. <<>> \o ds = ds
      BY <1>4, ConcatEmptySeq
    <3>2. (delivered \o (buf \o de)) \o ds = (delivered \o buf) \o (de \o ds)
      <4> DEFINE got == delivered \o buf
      <4>1. got \in Seq(Bytes)
        BY <1>7, ConcatProperties
      <4>2. (delivered \o buf) \o de = delivered \o (buf \o de)
        BY <1>5, <1>7, BytesConcat, ZenonT(60)
      <4> HIDE DEF got
      <4>3. (got \o de) \o ds = got \o (de \o ds)
        BY <1>4, <1>5, <4>1, BytesConcat
      <4> QED
        BY <4>2, <4>3, Zenon DEF got
    <3> QED
      BY <1>2, <1>6, <1>12, <3>1, <3>2, Zenon DEF de
  <2>4. more \in Seq(Messages) /\ RequestsOf(messages') = more \o (<<>> \o rs)
    <3>1. more \in Seq(Messages) /\ <<>> \o rs = rs
      BY <1>4, <1>5, ConcatEmptySeq, ConcatProperties
    <3>2. (done \o re) \o rs = done \o (re \o rs)
      BY <1>4, <1>5, RequestsConcat
    <3> QED
      BY <1>2, <1>6, <3>1, <3>2, Zenon
  <2>5. Matched(more, AnswersOf(up'))
    <3>1. Matched(done, x) /\ x \in Seq(Sends) /\ Len(x) \in Nat /\ Len(done) \in Nat
      <4>1. up \in Seq(Sends) /\ WindowSize \in Sends
        BY DEF TypeInv, TypeOK, WindowSize, Sends
      <4>2. x \in Seq(Sends)
        BY <4>1, AnswersAppend
      <4> QED
        BY <1>6, <4>2, LenProperties
    <3> HIDE DEF x
    <3>2. CASE re = <<>> /\ AnswersOf(up') = x
      <4>1. more = done
        BY <3>2, ConcatEmptySeq
      <4> QED
        BY <3>1, <3>2, <4>1, Zenon
    <3>3. ASSUME re = <<m>>, NEW a \in Sends, Fits(m, a), AnswersOf(up') = Append(x, a)
          PROVE  Matched(more, AnswersOf(up'))
      <4> DEFINE y == Append(x, a)
      <4>1. more = Append(done, m)
        BY <3>3
      <4>2. /\ Len(y) = Len(x) + 1 /\ y[Len(x) + 1] = a /\ \A i \in 1..Len(x) : y[i] = x[i]
        BY <3>1, AppendProperties
      <4> HIDE DEF more, y
      <4>3. /\ Len(more) = Len(done) + 1 /\ more[Len(done) + 1] = m
            /\ \A i \in 1..Len(done) : more[i] = done[i]
        BY <4>1, AppendProperties
      <4>4. Len(done) = Len(x) /\ \A i \in 1..Len(done) : Fits(done[i], x[i])
        BY <3>1 DEF Matched
      <4>5. ASSUME NEW i \in 1..Len(more) PROVE Fits(more[i], y[i])
        <5>1. CASE i = Len(done) + 1
          BY <3>3, <4>2, <4>3, <4>4, <5>1
        <5>2. CASE i # Len(done) + 1
          <6>1. i \in 1..Len(done) /\ i \in 1..Len(x)
            BY <3>1, <4>3, <4>4, <5>2
          <6>2. more[i] = done[i] /\ y[i] = x[i]
            BY <4>2, <4>3, <6>1
          <6> QED
            BY <4>4, <6>1, <6>2, Zenon
        <5> QED
          BY <5>1, <5>2
      <4>6. Len(more) = Len(y)
        BY <3>1, <4>2, <4>3, <4>4
      <4>7. Matched(more, y)
        BY <4>5, <4>6 DEF Matched
      <4> QED
        BY <3>3, <4>7, Zenon DEF y
    <3> QED
      BY <1>12, <3>2, <3>3 DEF Replied, x, re
  <2> HIDE DEF more
  <2>6. Accounts(<<>>, <<>>, <<>>, more, left)'
    BY <2>2, <2>3, <2>4, <2>5, Zenon DEF Accounts, s, ds, rs
  <2>7. <<>> \in Seq(Bytes) /\ <<>> \in Seq(Messages)
    BY EmptySeq
  <2> QED
    BY <2>1, <2>4, <2>6, <2>7 DEF Progress
<1> QED
  BY <1>10, <1>11, <1>12 DEF Moves
LEMMA ProgressStep == TypeInv /\ Progress /\ [Next]_vars => Progress'
<1> SUFFICES ASSUME TypeInv, Progress, [Next]_vars PROVE Progress'
  OBVIOUS
<1>1. /\ up \in Seq(Sends) /\ out \in Seq(Bytes) /\ raw \in Seq(Bytes) /\ wire \in Seq(Bytes)
      /\ buf \in Seq(Bytes) /\ delivered \in Seq(Bytes)
  BY DEF TypeInv, TypeOK
<1>2. ASSUME NEW a \in Sends, a.kind \notin {"command", "terminal_type"}
      PROVE  AnswersOf(Append(up, a)) = AnswersOf(up)
  BY <1>1, <1>2, AnswersCount
<1>3. ASSUME UNCHANGED <<decoderVars, messages, raw, wire, delivered, buf>>,
             AnswersOf(up') = AnswersOf(up)
      PROVE  Progress'
  BY <1>3, ProgressKept
<1>4. ASSUME UNCHANGED <<decoderVars, serverVars, readVars, up>> PROVE Progress'
  BY <1>3, <1>4 DEF serverVars, readVars
<1>5. AnswersOf(Append(up, Data(out))) = AnswersOf(up)
  <2>1. Data(out) \in Sends /\ Data(out).kind = "bytes"
    BY <1>1 DEF Data, Sends
  <2> QED
    BY <1>2, <2>1
<1>6. ASSUME NEW m \in Messages, ServerSends(m) PROVE Progress'
  BY <1>6, ProgressServer
<1>7. CASE SendNaws
  <2>1. WindowSize \in Sends /\ WindowSize.kind = "window_size"
    BY DEF WindowSize, Sends
  <2>2. AnswersOf(Append(up, WindowSize)) = AnswersOf(up)
    BY <1>2, <2>1
  <2>3. up' = Append(up, WindowSize) \/ up' = up
    BY <1>7 DEF SendNaws
  <2>4. AnswersOf(up') = AnswersOf(up)
    BY <2>2, <2>3, Zenon
  <2> QED
    BY <1>3, <1>7, <2>4 DEF SendNaws, serverVars, readVars
<1>8. ASSUME NEW n \in 1..RawLen, Recv(n) PROVE Progress'
  <2>1. n \in 1..Len(wire)
    BY <1>1, <1>8, LengthsAssumption, LenProperties DEF Recv
  <2>2. raw = <<>> /\ raw' \o wire' = wire
    BY <1>1, <1>8, <2>1, RecvSplits DEF Recv, TypeInv, AtRest
  <2>3. raw' \o wire' = raw \o wire
    BY <1>1, <2>2, ConcatEmptySeq
  <2>4. UNCHANGED <<decoderVars, messages>> /\ delivered' \o buf' = delivered \o buf
        /\ AnswersOf(up') = AnswersOf(up)
    BY <1>8, Zenon DEF Recv
  <2> QED
    BY <2>3, <2>4, ProgressKept
<1>9. CASE RecvNothing
  BY <1>4, <1>9 DEF RecvNothing, vars
<1>10. CASE Returns
  <2>1. delivered' = delivered \o buf /\ buf' = <<>>
    BY <1>10 DEF Returns
  <2>2. delivered' \o buf' = delivered \o buf
    BY <1>1, <2>1, ConcatEmptySeq, ConcatProperties
  <2>3. UNCHANGED <<decoderVars, messages>> /\ raw' \o wire' = raw \o wire
        /\ AnswersOf(up') = AnswersOf(up)
    BY <1>10, Zenon DEF Returns, serverVars
  <2> QED
    BY <2>2, <2>3, ProgressKept
<1>11. CASE Byte
  BY <1>11, ProgressByte
<1>12. ASSUME NEW data \in BoundedSeq(DataBytes, 4) \ {<<>>}, Write(data) PROVE Progress'
  BY <1>4, <1>12 DEF Write
<1>13. CASE StuffByte
  <2>1. up' = Append(up, Data(out)) \/ up' = up
    BY <1>13 DEF StuffByte
  <2>2. AnswersOf(up') = AnswersOf(up)
    BY <1>5, <2>1, Zenon
  <2> QED
    BY <1>3, <1>13, <2>2 DEF StuffByte, serverVars, readVars
<1>14. CASE Flush
  <2>1. up' = Append(up, Data(out)) \/ up' = up
    BY <1>14 DEF Flush
  <2>2. AnswersOf(up') = AnswersOf(up)
    BY <1>5, <2>1, Zenon
  <2> QED
    BY <1>3, <1>14, <2>2 DEF Flush, serverVars, readVars
<1>15. CASE UNCHANGED vars
  BY <1>4, <1>15 DEF vars
<1> QED
  BY <1>6, <1>7, <1>8, <1>9, <1>10, <1>11, <1>12, <1>13, <1>14, <1>15 DEF Next, Read, Byte

LEMMA ProgressInit == Init => Progress
<1> SUFFICES ASSUME Init PROVE Progress
  OBVIOUS
<1>1. /\ raw = <<>> /\ wire = <<>> /\ delivered = <<>> /\ buf = <<>> /\ messages = <<>> /\ up = <<>>
      /\ state = "data"
  BY DEF Init
<1>2. AnswersOf(<<>>) = <<>>
  <2>1. [i \in DOMAIN <<>> |-> AnswerIn(<<>>[i])] = <<>>
    OBVIOUS
  <2> QED
    BY <2>1 DEF AnswersOf, FlattenSeq
<1>3. <<>> \o <<>> = <<>> /\ <<>> \o (<<>> \o <<>>) = <<>> /\ (<<>> \o <<>>) \o (<<>> \o <<>>) = <<>>
  OBVIOUS
<1>4. Matched(<<>>, <<>>)
  BY DEF Matched
<1>5. Pending(<<>>, <<>>, <<>>)
  BY <1>1 DEF Pending
<1>6. Accounts(<<>>, <<>>, <<>>, <<>>, <<>>)
  BY <1>1, <1>2, <1>3, <1>4, NoMessages, Zenon DEF Accounts
<1>7. <<>> \in Seq(Bytes) /\ <<>> \in Seq(Messages)
  BY EmptySeq
<1> QED
  BY <1>5, <1>6, <1>7 DEF Progress

LEMMA SpecProgress == Spec => [](TypeInv /\ Progress)
  BY TypeInit, TypeStep, ProgressInit, ProgressStep, PTL DEF Spec

\* The properties speak of the messages and the sends as the invariant does.
LEMMA MeantAndAsked ==
    TypeInv => Meant = DataOf(messages) /\ Asked = RequestsOf(messages) /\ Answered = AnswersOf(up)
<1> SUFFICES ASSUME TypeInv
             PROVE  Meant = DataOf(messages) /\ Asked = RequestsOf(messages) /\ Answered = AnswersOf(up)
  OBVIOUS
<1>1. messages \in Seq(Messages)
  BY DEF TypeInv, TypeOK
<1>2. DOMAIN messages = 1..Len(messages) /\ \A i \in 1..Len(messages) : messages[i] \in Messages
  BY <1>1, LenProperties, ElementOfSeq
<1>3. [i \in DOMAIN messages |-> DataIn(messages[i])] = [i \in DOMAIN messages |-> DataMap[messages[i]]]
  BY <1>2 DEF DataMap
<1>4. [i \in DOMAIN messages |-> RequestIn(messages[i])]
        = [i \in DOMAIN messages |-> RequestMap[messages[i]]]
  BY <1>2 DEF RequestMap
<1>5. Meant = DataOf(messages)
  BY <1>3, Zenon DEF Meant, DataOf, FlatMap
<1>6. Asked = RequestsOf(messages)
  BY <1>4, Zenon DEF Asked, RequestsOf, FlatMap
<1>7. Answered = AnswersOf(up)
  BY Zenon DEF Answered, AnswersOf
<1> QED
  BY <1>5, <1>6, <1>7

\* When all has been received, no message is left.
LEMMA QuietEnd ==
    ASSUME TypeInv, Quiet, NEW p \in Seq(Bytes), NEW d \in Seq(Bytes), NEW r \in Seq(Messages),
           NEW done \in Seq(Messages), NEW left \in Seq(Messages),
           Pending(p, d, r), Accounts(p, d, r, done, left)
    PROVE  d = <<>> /\ r = <<>> /\ left = <<>> /\ buf = <<>>
<1>1. raw = <<>> /\ wire = <<>> /\ buf = <<>>
  BY DEF Quiet, TypeInv, AtRest
<1> DEFINE s == StreamOf(left)
<1>2. s \in Seq(Bytes) /\ <<>> \o <<>> = p \o s
  BY <1>1, MessagesType DEF Accounts
<1> HIDE DEF s
<1>3. p = <<>> /\ s = <<>>
  <2>1. p \o s = <<>>
    <3>1. <<>> \o <<>> = <<>>
      OBVIOUS
    <3> QED
      BY <1>2, <3>1, Zenon
  <2>2. Len(p \o s) = Len(p) + Len(s) /\ Len(p) \in Nat /\ Len(s) \in Nat
    BY <1>2, ConcatProperties, LenProperties
  <2>3. Len(p) = 0 /\ Len(s) = 0
    BY <2>1, <2>2
  <2> QED
    BY <1>2, <2>3, EmptySeq
<1>4. left = <<>>
  BY <1>3, StreamNothing DEF s
<1>5. state = "data"
  BY <1>3, InMessageMore DEF Pending
<1> QED
  BY <1>1, <1>4, <1>5 DEF Pending

\* The reads return the session data and nothing else, in order: for every
\* stream of messages, every way to cut it into chunks and every size of the
\* buffers (telnet_client.h:9-14, telnet_client.c:135-219).
THEOREM TelnetTextTransparent == Spec => []TextTransparent
<1>1. TypeInv /\ Progress => TextTransparent
  <2> SUFFICES ASSUME TypeInv, Progress PROVE TextTransparent
    OBVIOUS
  <2>1. PICK p, d \in Seq(Bytes), r, done, left \in Seq(Messages) :
          Pending(p, d, r) /\ Accounts(p, d, r, done, left)
    BY DEF Progress
  <2> DEFINE got == delivered \o buf
             ds == DataOf(left)
             rest == d \o ds
  <2>2. ds \in Seq(Bytes)
    BY MessagesType
  <2>3. got \in Seq(Bytes) /\ rest \in Seq(Bytes)
    BY <2>2 DEF TypeInv, TypeOK
  <2>4. Meant = got \o rest
    BY <2>1, MeantAndAsked, Zenon DEF Accounts
  <2>5. IsPrefix(delivered \o buf, Meant)
    <3> HIDE DEF got, rest
    <3>1. IsPrefix(got, got \o rest)
      BY <2>3 DEF IsPrefix
    <3> QED
      BY <2>4, <3>1, Zenon DEF got
  <2>6. ASSUME Quiet PROVE delivered = Meant
    <3>1. d = <<>> /\ left = <<>> /\ buf = <<>>
      BY <2>1, <2>6, QuietEnd
    <3>2. delivered \in Seq(Bytes)
      BY DEF TypeInv, TypeOK
    <3>3. delivered \o <<>> = delivered /\ <<>> \o <<>> = <<>>
      BY <3>2, ConcatEmptySeq
    <3> QED
      BY <2>4, <3>1, <3>3, NoMessages, Zenon
  <2> QED
    BY <2>5, <2>6 DEF TextTransparent
<1> QED
  BY <1>1, SpecProgress, PTL

\* Every request of the server gets one answer, the right one and in order,
\* although the client keeps no record of the requests
\* (telnet_client.c:60-133).
THEOREM TelnetAnswersFit == Spec => []AnswersFit
<1>1. TypeInv /\ Progress => AnswersFit
  <2> SUFFICES ASSUME TypeInv, Progress PROVE AnswersFit
    OBVIOUS
  <2>1. PICK p, d \in Seq(Bytes), r, done, left \in Seq(Messages) :
          Pending(p, d, r) /\ Accounts(p, d, r, done, left)
    BY DEF Progress
  <2> DEFINE rs == RequestsOf(left)
             rest == r \o rs
             x == AnswersOf(up)
  <2>2. rs \in Seq(Messages) /\ rest \in Seq(Messages)
    BY MessagesType, ConcatProperties
  <2>3. Asked = done \o rest /\ Answered = x /\ Matched(done, x)
    BY <2>1, MeantAndAsked, Zenon DEF Accounts
  <2>4. x \in Seq(Sends)
    <3>1. up \in Seq(Sends) /\ WindowSize \in Sends
      BY DEF TypeInv, TypeOK, WindowSize, Sends
    <3> QED
      BY <3>1, AnswersAppend
  <2> HIDE DEF rest, x
  <2>5. /\ Len(done) = Len(x) /\ \A i \in 1..Len(done) : Fits(done[i], x[i])
        /\ Len(done) \in Nat /\ Len(rest) \in Nat /\ DOMAIN x = 1..Len(x)
    BY <2>2, <2>3, <2>4, LenProperties DEF Matched
  <2>6. /\ Len(done \o rest) = Len(done) + Len(rest)
        /\ \A i \in 1..Len(done) : (done \o rest)[i] = done[i]
    <3>1. /\ Len(done \o rest) = Len(done) + Len(rest)
          /\ \A i \in 1..(Len(done) + Len(rest)) :
                (done \o rest)[i] = IF i <= Len(done) THEN done[i] ELSE rest[i - Len(done)]
      BY <2>2, ConcatProperties
    <3>2. \A i \in 1..Len(done) : i \in 1..(Len(done) + Len(rest)) /\ i <= Len(done)
      BY <2>5
    <3> QED
      BY <3>1, <3>2
  <2>7. Len(Answered) <= Len(Asked)
    BY <2>3, <2>5, <2>6
  <2>8. ASSUME NEW i \in DOMAIN Answered PROVE Fits(Asked[i], Answered[i])
    <3>1. i \in 1..Len(done)
      BY <2>3, <2>5
    <3>2. Asked[i] = done[i] /\ Answered[i] = x[i]
      BY <2>3, <2>6, <3>1
    <3> QED
      BY <2>5, <3>1, <3>2, Zenon
  <2>9. ASSUME Quiet PROVE Len(Answered) = Len(Asked)
    <3>1. r = <<>> /\ left = <<>>
      BY <2>1, <2>9, QuietEnd
    <3>2. rest = <<>>
      <4>1. <<>> \o <<>> = <<>>
        OBVIOUS
      <4> QED
        BY <3>1, <4>1, NoMessages, Zenon DEF rest
    <3>3. done \o rest = done
      BY <3>2, ConcatEmptySeq
    <3> QED
      BY <2>3, <2>5, <3>3
  <2> QED
    BY <2>7, <2>8, <2>9 DEF AnswersFit
<1> QED
  BY <1>1, SpecProgress, PTL
=============================================================================
