------------------------------- MODULE Telnet -------------------------------
(***************************************************************************)
(* telnet_client.c: the protocol decoder that runs inline in the read path, *)
(* the answers it sends while decoding, and the byte-stuffing writer.  The *)
(* server is any that follows RFC 854, but for subnegotiations it may cut  *)
(* short: it sends whole messages, and the network hands their bytes to    *)
(* recv() in chunks of any length.                                         *)
(*                                                                         *)
(* The one task that uses a client is session_io_task (Session): reads and *)
(* writes alternate, neither interrupts the other.                         *)
(***************************************************************************)
EXTENDS Integers, Sequences, SequencesExt

CONSTANTS
    DataBytes,     \* the bytes of session data, either way
    Options,       \* the options the server negotiates
    Payloads,      \* the subnegotiations it sends
    SbBufLen,      \* size of sb_buf
    RawLen,        \* size of raw and of the caller's buffer
    SendBufLen,    \* size of the buffer of telnet_client_write()
    MaxMessages,   \* bound: messages the server sends
    MaxTyped       \* bound: bytes the user types

IAC == 255
DONT == 254
DO == 253
WONT == 252
WILL == 251
SB == 250
SE == 240
NOP == 241

ECHO == 1
SGA == 3
TERM_TYPE == 24
NAWS == 31

Bytes == 0..255
Commands == {WILL, WONT, DO, DONT}

ASSUME BytesAssumption == DataBytes \subseteq Bytes /\ Options \subseteq Bytes \ {IAC}
ASSUME PayloadsAssumption == \A p \in Payloads : p \in Seq(Bytes)
ASSUME LengthsAssumption ==
    /\ SbBufLen \in Nat \ {0} /\ RawLen \in Nat \ {0} /\ SendBufLen \in Nat /\ SendBufLen > 2
    /\ MaxMessages \in Nat /\ MaxTyped \in Nat

VARIABLES
    wire,          \* bytes from the server not yet received
    task,          \* what session_io_task does: connected, idle, reading, writing
    state,         \* state: TN_STATE_DATA, _IAC, _CMD_OPT, _SB, _SB_IAC
    pendingCmd,    \* pending_cmd
    sbOpt,         \* sb_opt
    sbHaveOpt,     \* sb_have_opt
    sbBuf,         \* sb_buf, of length sb_len
    nawsEnabled,   \* naws_enabled
    nawsSet,       \* naws_cols and naws_rows are known
    raw,           \* the chunk recv() returned, what is left to decode of it
    buf,           \* the caller's buffer: data decoded in this read
    todo,          \* what is left to stuff of the data to write
    out,           \* the buffer of telnet_client_write()
    up,            \* history: what the client has sent, send by send
    delivered,     \* history: data that reads have returned
    messages,      \* history: what the server has sent
    typed          \* history: data given to telnet_client_write()

decoderVars == <<state, pendingCmd, sbOpt, sbHaveOpt, sbBuf>>
nawsVars == <<nawsEnabled, nawsSet>>
readVars == <<raw, buf, delivered>>
writeVars == <<todo, out, typed>>
serverVars == <<wire, messages>>
vars == <<serverVars, task, decoderVars, nawsVars, readVars, writeVars, up>>

\* What the server sends.
Messages ==
    [kind : {"data"}, byte : DataBytes]
      \cup [kind : {"command"}, cmd : Commands, opt : Options]
      \cup [kind : {"sub"}, opt : Options, payload : Payloads]
      \cup [kind : {"cut"}, opt : Options]
      \cup [kind : {"nop"}]

\* What the client sends: one item per send(), or per group of sends.
Sends ==
    [kind : {"command"}, cmd : Commands, opt : Bytes]
      \cup [kind : {"window_size", "terminal_type"}]
      \cup [kind : {"bytes"}, bytes : Seq(Bytes)]

TypeOK ==
    /\ wire \in Seq(Bytes)
    /\ task \in {"connected", "idle", "reading", "writing"}
    /\ state \in {"data", "iac", "cmd_opt", "sb", "sb_iac"}
    /\ pendingCmd \in Commands \cup {0}
    /\ state = "cmd_opt" => pendingCmd # 0
    /\ sbOpt \in Bytes /\ sbHaveOpt \in BOOLEAN
    /\ sbBuf \in Seq(Bytes) /\ Len(sbBuf) <= SbBufLen
    /\ nawsEnabled \in BOOLEAN /\ nawsSet \in BOOLEAN
    /\ raw \in Seq(Bytes) /\ buf \in Seq(Bytes) /\ Len(raw) + Len(buf) <= RawLen
    /\ todo \in Seq(DataBytes)
    /\ out \in Seq(Bytes) /\ Len(out) <= SendBufLen
    /\ delivered \in Seq(Bytes)
    /\ messages \in Seq(Messages)
    /\ typed \in Seq(DataBytes)
    /\ up \in Seq(Sends)

\* telnet_client_connect() has returned a client.
Init ==
    /\ wire = <<>> /\ task = "connected"
    /\ state = "data" /\ pendingCmd = 0 /\ sbOpt = 0 /\ sbHaveOpt = FALSE /\ sbBuf = <<>>
    /\ nawsEnabled = FALSE /\ nawsSet = FALSE
    /\ raw = <<>> /\ buf = <<>> /\ todo = <<>> /\ out = <<>>
    /\ up = <<>> /\ delivered = <<>> /\ messages = <<>> /\ typed = <<>>

-----------------------------------------------------------------------------
(* The server. *)

Stuffed(b) == IF b = IAC THEN <<IAC, IAC>> ELSE <<b>>

StuffedAll(p) == FlattenSeq([i \in DOMAIN p |-> Stuffed(p[i])])

Encoded(m) ==
    IF m.kind = "data" THEN Stuffed(m.byte)
    ELSE IF m.kind = "command" THEN <<IAC, m.cmd, m.opt>>
    ELSE IF m.kind = "sub" THEN <<IAC, SB, m.opt>> \o StuffedAll(m.payload) \o <<IAC, SE>>
    ELSE IF m.kind = "cut" THEN <<IAC, SB, m.opt, IAC, NOP>>
    ELSE <<IAC, NOP>>

ServerSends(m) ==
    /\ Len(messages) < MaxMessages
    /\ messages' = Append(messages, m)
    /\ wire' = wire \o Encoded(m)
    /\ UNCHANGED <<task, decoderVars, nawsVars, readVars, writeVars, up>>

-----------------------------------------------------------------------------
(* The answers of the client. *)

Command(cmd, opt) == [kind |-> "command", cmd |-> cmd, opt |-> opt]
WindowSize == [kind |-> "window_size"]
TerminalType == [kind |-> "terminal_type"]
Data(bytes) == [kind |-> "bytes", bytes |-> bytes]

\* telnet_client_send_naws(), which session_ui_open_telnet() calls once, before
\* the session's first read.
SendNaws ==
    /\ task = "connected"
    /\ task' = "idle"
    /\ nawsSet' = TRUE
    /\ up' = IF nawsEnabled THEN Append(up, WindowSize) ELSE up
    /\ UNCHANGED <<serverVars, decoderVars, nawsEnabled, readVars, writeVars>>

\* tn_handle_will(), tn_handle_wont(), tn_handle_do() and tn_handle_dont().
WillAnswers(opt) == <<Command(IF opt \in {ECHO, SGA} THEN DO ELSE DONT, opt)>>
WontAnswers(opt) == <<Command(DONT, opt)>>

\* Mutant: the size is sent by telnet_client_send_naws() only.
DoAnswersNoSize(opt) == <<Command(IF opt \in {SGA, TERM_TYPE, NAWS} THEN WILL ELSE WONT, opt)>>

DoAnswers(opt) ==
    IF opt = NAWS /\ nawsSet THEN <<Command(WILL, opt), WindowSize>>
    ELSE <<Command(IF opt \in {SGA, TERM_TYPE, NAWS} THEN WILL ELSE WONT, opt)>>
DontAnswers(opt) == <<Command(WONT, opt)>>

\* tn_handle_subneg()
SubnegAnswers ==
    IF sbOpt = TERM_TYPE /\ Len(sbBuf) >= 1 /\ sbBuf[1] = 1 THEN <<TerminalType>> ELSE <<>>

-----------------------------------------------------------------------------
(* telnet_client_read(): one chunk, decoded byte by byte. *)

Recv(n) ==
    /\ task = "idle" /\ n \in 1..RawLen /\ n <= Len(wire)
    /\ raw' = SubSeq(wire, 1, n)
    /\ wire' = SubSeq(wire, n + 1, Len(wire))
    /\ task' = "reading"
    /\ UNCHANGED <<messages, decoderVars, nawsVars, buf, delivered, writeVars, up>>

\* Nothing has arrived within the timeout.
RecvNothing == task = "idle" /\ wire = <<>> /\ UNCHANGED vars

\* Mutant: the decoder starts every read in the data state.
ReturnsReset ==
    /\ task = "reading" /\ raw = <<>>
    /\ delivered' = delivered \o buf
    /\ buf' = <<>>
    /\ state' = "data"
    /\ task' = "idle"
    /\ UNCHANGED <<serverVars, pendingCmd, sbOpt, sbHaveOpt, sbBuf, nawsVars, raw, writeVars, up>>

\* The end of the chunk; the decoder keeps its state for the next read.
Returns ==
    /\ task = "reading" /\ raw = <<>>
    /\ delivered' = delivered \o buf
    /\ buf' = <<>>
    /\ task' = "idle"
    /\ UNCHANGED <<serverVars, decoderVars, nawsVars, raw, writeVars, up>>

c == Head(raw)

\* tn_process_byte() of c, the next byte of the chunk, in a state of the decoder.
Takes(st) ==
    /\ task = "reading" /\ raw # <<>> /\ state = st
    /\ raw' = Tail(raw)
    /\ UNCHANGED <<serverVars, task, nawsSet, delivered, writeVars>>

DataByte ==
    /\ Takes("data")
    /\ IF c = IAC
       THEN state' = "iac" /\ UNCHANGED buf
       ELSE buf' = Append(buf, c) /\ UNCHANGED state
    /\ UNCHANGED <<pendingCmd, sbOpt, sbHaveOpt, sbBuf, nawsEnabled, up>>

\* Mutant: IAC SB does not reset sb_len and sb_have_opt.
IacByteNoReset ==
    /\ Takes("iac")
    /\ buf' = IF c = IAC THEN Append(buf, IAC) ELSE buf
    /\ state' = IF c \in Commands THEN "cmd_opt" ELSE IF c = SB THEN "sb" ELSE "data"
    /\ pendingCmd' = IF c \in Commands THEN c ELSE pendingCmd
    /\ UNCHANGED <<sbBuf, sbHaveOpt, sbOpt, nawsEnabled, up>>

\* A doubled IAC is data; NOP, AYT, GA and the like carry no option.
IacByte ==
    /\ Takes("iac")
    /\ buf' = IF c = IAC THEN Append(buf, IAC) ELSE buf
    /\ state' = IF c \in Commands THEN "cmd_opt" ELSE IF c = SB THEN "sb" ELSE "data"
    /\ pendingCmd' = IF c \in Commands THEN c ELSE pendingCmd
    /\ IF c = SB
       THEN sbBuf' = <<>> /\ sbHaveOpt' = FALSE
       ELSE UNCHANGED <<sbBuf, sbHaveOpt>>
    /\ UNCHANGED <<sbOpt, nawsEnabled, up>>

CmdOptByte ==
    /\ Takes("cmd_opt")
    /\ state' = "data"
    /\ up' = up \o (IF pendingCmd = WILL THEN WillAnswers(c)
                    ELSE IF pendingCmd = WONT THEN WontAnswers(c)
                    ELSE IF pendingCmd = DO THEN DoAnswers(c)
                    ELSE DontAnswers(c))
    /\ nawsEnabled' = (nawsEnabled \/ (pendingCmd = DO /\ c = NAWS))
    /\ UNCHANGED <<pendingCmd, sbOpt, sbHaveOpt, sbBuf, buf>>

\* Mutant: sb_len is not checked against the size of sb_buf.
SbAppendUnchecked(b) == sbBuf' = Append(sbBuf, b)

\* What does not fit into sb_buf is dropped.
SbAppend(b) == sbBuf' = IF Len(sbBuf) < SbBufLen THEN Append(sbBuf, b) ELSE sbBuf

SbByte ==
    /\ Takes("sb")
    /\ \/ /\ ~sbHaveOpt
          /\ sbOpt' = c /\ sbHaveOpt' = TRUE
          /\ UNCHANGED <<state, sbBuf>>
       \/ /\ sbHaveOpt /\ c = IAC
          /\ state' = "sb_iac"
          /\ UNCHANGED <<sbOpt, sbHaveOpt, sbBuf>>
       \/ /\ sbHaveOpt /\ c # IAC
          /\ SbAppend(c)
          /\ UNCHANGED <<state, sbOpt, sbHaveOpt>>
    /\ UNCHANGED <<pendingCmd, buf, nawsEnabled, up>>

\* Anything but SE and a doubled IAC is malformed and ends the subnegotiation.
SbIacByte ==
    /\ Takes("sb_iac")
    /\ \/ /\ c = SE
          /\ up' = up \o SubnegAnswers
          /\ state' = "data"
          /\ UNCHANGED sbBuf
       \/ /\ c = IAC
          /\ SbAppend(IAC)
          /\ state' = "sb"
          /\ UNCHANGED up
       \/ /\ c \notin {SE, IAC}
          /\ state' = "data"
          /\ UNCHANGED <<sbBuf, up>>
    /\ UNCHANGED <<pendingCmd, sbOpt, sbHaveOpt, buf, nawsEnabled>>

Read ==
    \/ \E n \in 1..RawLen : Recv(n)
    \/ RecvNothing
    \/ Returns
    \/ DataByte
    \/ IacByte
    \/ CmdOptByte
    \/ SbByte
    \/ SbIacByte

-----------------------------------------------------------------------------
(* telnet_client_write(): IACs are doubled, a full buffer is sent. *)

Write(data) ==
    /\ task = "idle" /\ Len(typed) + Len(data) <= MaxTyped
    /\ task' = "writing"
    /\ todo' = data
    /\ typed' = typed \o data
    /\ UNCHANGED <<serverVars, decoderVars, nawsVars, readVars, out, up>>

Full == Len(out) >= SendBufLen - 2

StuffByte ==
    /\ task = "writing" /\ todo # <<>>
    /\ up' = IF Full THEN Append(up, Data(out)) ELSE up
    /\ out' = (IF Full THEN <<>> ELSE out) \o Stuffed(Head(todo))
    /\ todo' = Tail(todo)
    /\ UNCHANGED <<serverVars, task, decoderVars, nawsVars, readVars, typed>>

\* Mutant: the rest is not sent.
FlushNothing ==
    /\ task = "writing" /\ todo = <<>>
    /\ out' = <<>>
    /\ task' = "idle"
    /\ UNCHANGED <<serverVars, decoderVars, nawsVars, readVars, todo, typed, up>>

Flush ==
    /\ task = "writing" /\ todo = <<>>
    /\ up' = IF out # <<>> THEN Append(up, Data(out)) ELSE up
    /\ out' = <<>>
    /\ task' = "idle"
    /\ UNCHANGED <<serverVars, decoderVars, nawsVars, readVars, todo, typed>>

\* send_key() writes one to four bytes (session_ui.c:77-117); the buffer of a
\* small SendBufLen is full within them.
Next ==
    \/ \E m \in Messages : ServerSends(m)
    \/ SendNaws
    \/ Read
    \/ \E data \in BoundedSeq(DataBytes, 4) \ {<<>>} : Write(data)
    \/ StuffByte
    \/ Flush

\* The io task goes on reading and writing what it has begun.
Spec == Init /\ [][Next]_vars

-----------------------------------------------------------------------------
(* Properties. *)

Quiet == task = "idle" /\ wire = <<>>

\* The data among the server's messages.
DataIn(m) == IF m.kind = "data" THEN <<m.byte>> ELSE <<>>
Meant == FlattenSeq([i \in DOMAIN messages |-> DataIn(messages[i])])

\* The reads return the session data and nothing else, in order, wherever the
\* network splits the stream and whatever negotiation is mixed into it
\* (telnet_client.h:9-14, telnet_client.c:102-178).
TextTransparent ==
    /\ IsPrefix(delivered \o buf, Meant)
    /\ Quiet => delivered = Meant

\* What the server asked: its commands and its requests of the terminal type.
RequestIn(m) ==
    IF \/ m.kind = "command"
       \/ m.kind = "sub" /\ m.opt = TERM_TYPE /\ m.payload # <<>> /\ m.payload[1] = 1
    THEN <<m>> ELSE <<>>
Asked == FlattenSeq([i \in DOMAIN messages |-> RequestIn(messages[i])])

\* What the client answered.
AnswerIn(a) == IF a.kind \in {"command", "terminal_type"} THEN <<a>> ELSE <<>>
Answered == FlattenSeq([i \in DOMAIN up |-> AnswerIn(up[i])])

\* "accepts server ECHO/SUPPRESS-GO-AHEAD, offers TERMINAL-TYPE "xterm" and
\* NAWS window size" (telnet_client.h:11-12), refuses the rest, and agrees to
\* every refusal.
Fits(m, a) ==
    IF m.kind = "sub" THEN a.kind = "terminal_type"
    ELSE /\ a.kind = "command" /\ a.opt = m.opt
         /\ m.cmd \in {WILL, WONT} => a.cmd \in {DO, DONT}
         /\ m.cmd \in {DO, DONT} => a.cmd \in {WILL, WONT}
         /\ a.cmd = DO <=> m.cmd = WILL /\ m.opt \in {ECHO, SGA}
         /\ a.cmd = WILL <=> m.cmd = DO /\ m.opt \in {SGA, TERM_TYPE, NAWS}

\* Every request of the server gets one answer, the right one and in order,
\* although the client keeps no record of the requests.
AnswersFit ==
    /\ Len(Answered) <= Len(Asked)
    /\ \A i \in DOMAIN Answered : Fits(Asked[i], Answered[i])
    /\ Quiet => Len(Answered) = Len(Asked)

\* "reports our terminal size once/if NAWS gets negotiated"
\* (telnet_client.h:28): the size follows every WILL NAWS, and is not sent to a
\* server that has not asked for it.
SizeReported ==
    \A i \in DOMAIN up :
        /\ up[i] = Command(WILL, NAWS) => i < Len(up) /\ up[i + 1] = WindowSize
        /\ up[i] = WindowSize => i > 1 /\ up[i - 1] = Command(WILL, NAWS)

\* The server's view of a buffer: a doubled IAC is one byte of data.
Unstuffed(bytes) ==
    LET Un[i \in 1..(Len(bytes) + 1)] ==
            IF i > Len(bytes) THEN <<>>
            ELSE IF bytes[i] # IAC THEN <<bytes[i]>> \o Un[i + 1]
            ELSE IF i < Len(bytes) /\ bytes[i + 1] = IAC THEN <<IAC>> \o Un[i + 2]
            ELSE <<-1>> \o Un[i + 1]
    IN  Un[1]

TypedIn(a) == IF a.kind = "bytes" THEN Unstuffed(a.bytes) ELSE <<>>
SentData == FlattenSeq([i \in DOMAIN up |-> TypedIn(up[i])])

\* The server gets what was typed, an IAC in it doubled and never torn apart by
\* the end of the buffer (telnet_client.c:284-304).
TypedTransparent == SentData \o Unstuffed(out) \o todo = typed
=============================================================================
