------------------------------- MODULE Parser -------------------------------
(***************************************************************************)
(* The byte side of terminal.c: how term_putc() takes the stream of the    *)
(* remote apart into characters, controls and sequences, the parameters it *)
(* reads from them, and the pen (colours and attributes) and the modes     *)
(* they set.  What they do to the cursor is in Cursor, to the rows in      *)
(* Screen.                                                                 *)
(*                                                                         *)
(* The remote sends items, each a run of bytes that arrives in chunks      *)
(* ending anywhere.  Between two chunks the io task may feed the echo of a *)
(* key (local_echo_feed() in session_ui.c), in one go.  A printable byte   *)
(* is its character (or "space", "semicolon"), a control byte its name,    *)
(* and "high" is any byte from 0x80 on.                                    *)
(***************************************************************************)
EXTENDS Integers, Sequences, SequencesExt

CONSTANTS
    Chars,       \* the printable characters
    Items,       \* what the remote can send
    EchoKeys,    \* the keys that can be echoed
    CsiBufLen,   \* CSI_BUF_LEN
    MaxParams,   \* size of params in term_dispatch_csi()
    IntMax,      \* the largest int
    MaxItems     \* bound: items sent, keys echoed in one behaviour

Digit == [n \in 0..9 |-> <<"0", "1", "2", "3", "4", "5", "6", "7", "8", "9">>[n + 1]]
Digits == {"0", "1", "2", "3", "4", "5", "6", "7", "8", "9"}
DigitValue == [d \in Digits |-> CHOOSE n \in 0..9 : Digit[n] = d]
Controls == {"esc", "cr", "lf", "bs", "tab"}
Ignored == {"bel", "nul", "del", "high"}
Bytes == Chars \cup Controls \cup Ignored
Missing == -1
ParamBytes == Digits \cup {"semicolon"}
Collected == ParamBytes \cup {"?"}               \* what does not end ESC [
OscEnd == {"bel", "esc"}                        \* what ends ESC ]
CharsetNames == {"(", ")", "*", "+"}            \* the byte after ESC that takes one more

ASSUME CharsAssumption ==
    Collected \cup CharsetNames \cup {"[", "]", "7", "8", "c", "A", "O", "~", "space"} \subseteq Chars
ASSUME CharsDisjoint == Chars \cap (Controls \cup Ignored) = {}
ASSUME LengthsAssumption ==
    CsiBufLen \in Nat \ {0} /\ MaxParams \in Nat \ {0} /\ IntMax \in Nat /\ MaxItems \in Nat

VARIABLES
    wire,          \* bytes still to be fed
    echoing,       \* how many of them, at the front, are the echo of a key
    state,         \* state: TSTATE_NORMAL, _ESC, _ESC_CHARSET, _CSI, _OSC
    csiBuf,        \* csi_buf, of length csi_len
    csiPrivate,    \* csi_private
    pen,           \* cur_fg, cur_bg, cur_attrs
    savedPen,      \* saved_fg, saved_bg, saved_attrs
    appCursorKeys, \* app_cursor_keys
    cursorVisible, \* cursor_visible
    ops,           \* history: the characters put, the controls and sequences obeyed
    sent,          \* history: the items sent and echoed
    torn,          \* history: a key was echoed in the middle of an item
    misled         \* history: a key echoed right after an ESC began a sequence with it

parserVars == <<state, csiBuf, csiPrivate>>
penVars == <<pen, savedPen>>
modeVars == <<appCursorKeys, cursorVisible>>
vars == <<wire, echoing, parserVars, penVars, modeVars, ops, sent, torn, misled>>

DefaultPen == [fg |-> 7, bg |-> 0, bold |-> FALSE, underline |-> FALSE, reverse |-> FALSE]
Pens == [fg : 0..15, bg : 0..15, bold : BOOLEAN, underline : BOOLEAN, reverse : BOOLEAN]

\* terminal_create(): calloc, then term_reset_state(), which leaves the saved
\* pen at zero: black on black.
Init ==
    /\ wire = <<>> /\ echoing = 0
    /\ state = "normal" /\ csiBuf = <<>> /\ csiPrivate = FALSE
    /\ pen = DefaultPen /\ savedPen = [DefaultPen EXCEPT !.fg = 0]
    /\ appCursorKeys = FALSE /\ cursorVisible = TRUE
    /\ ops = <<>> /\ sent = <<>> /\ torn = FALSE /\ misled = FALSE

-----------------------------------------------------------------------------
(* What the remote means and the bytes it sends. *)

Char(ch) == [kind |-> "char", char |-> ch]
Control(c) == [kind |-> "control", byte |-> c]
Csi(private, params, final) ==
    [kind |-> "csi", private |-> private, params |-> params, final |-> final]
Esc(c) == [kind |-> "esc", byte |-> c]          \* ESC 7, ESC 8, ESC c
Quiet(bytes) == [kind |-> "quiet", bytes |-> bytes]  \* recognised, without effect
Other(bytes) == [kind |-> "other", bytes |-> bytes]  \* not recognised by v1

Decimal[n \in Nat] ==
    IF n < 10 THEN <<Digit[n]>> ELSE Append(Decimal[n \div 10], Digit[n % 10])

EncodedParams(params) ==
    FlattenSeq([i \in DOMAIN params |->
                   (IF i = 1 THEN <<>> ELSE <<"semicolon">>)
                     \o (IF params[i] = Missing THEN <<>> ELSE Decimal[params[i]])])

Encoded(item) ==
    IF item.kind = "char" THEN <<item.char>>
    ELSE IF item.kind = "control" THEN <<item.byte>>
    ELSE IF item.kind = "csi"
         THEN <<"esc", "[">> \o (IF item.private THEN <<"?">> ELSE <<>>)
                \o EncodedParams(item.params) \o <<item.final>>
    ELSE IF item.kind = "esc" THEN <<"esc", item.byte>>
    ELSE item.bytes

\* What ESC introduces has its end among the bytes: no sequence is cut short.
Complete(bytes) ==
    \A i \in DOMAIN bytes : bytes[i] = "esc" =>
        /\ i < Len(bytes)
        /\ bytes[i + 1] = "[" => \E j \in (i + 2)..Len(bytes) : bytes[j] \notin Collected
        /\ bytes[i + 1] = "]" => \E j \in (i + 2)..Len(bytes) : bytes[j] \in OscEnd
        /\ bytes[i + 1] \in CharsetNames => i + 2 <= Len(bytes)

\* What v1 recognises and skips: a byte that it ignores, the choice of a
\* character set, a title that ends in BEL.
Skipped(bytes) ==
    \/ \E c \in Ignored : bytes = <<c>>
    \/ Len(bytes) = 3 /\ bytes[1] = "esc" /\ bytes[2] \in CharsetNames /\ bytes[3] \in Chars
    \/ /\ Len(bytes) >= 3 /\ bytes[1] = "esc" /\ bytes[2] = "]" /\ Last(bytes) = "bel"
       /\ \A i \in 3..(Len(bytes) - 1) : bytes[i] \notin OscEnd

Meanings ==
    [kind : {"char"}, char : Chars]
      \cup [kind : {"control"}, byte : Controls \ {"esc"}]
      \cup [kind : {"csi"}, private : BOOLEAN, params : Seq(Nat \cup {Missing}),
            final : Chars \ Collected]
      \cup [kind : {"esc"}, byte : {"7", "8", "c"}]
      \cup [kind : {"quiet", "other"}, bytes : Seq(Bytes)]

ASSUME ItemsAssumption ==
    /\ Items \subseteq Meanings
    /\ \A item \in Items :
          /\ item.kind = "quiet" => Skipped(item.bytes)
          /\ item.kind = "other" => Complete(item.bytes)
ASSUME EchoKeysAssumption ==
    EchoKeys \subseteq Chars \cup {"enter", "backspace", "esc", "up", "del"}

TypeOK ==
    /\ wire \in Seq(Bytes) /\ echoing \in 0..Len(wire)
    /\ state \in {"normal", "esc", "charset", "csi", "osc"}
    /\ csiBuf \in Seq(ParamBytes) /\ Len(csiBuf) <= CsiBufLen - 1
    /\ csiPrivate \in BOOLEAN
    /\ pen \in Pens /\ savedPen \in Pens
    /\ appCursorKeys \in BOOLEAN /\ cursorVisible \in BOOLEAN
    /\ sent \in Seq(Meanings) /\ torn \in BOOLEAN /\ misled \in BOOLEAN

\* The remote sends an item; the bytes of the next one wait behind it.
RemoteSends(item) ==
    /\ wire = <<>> /\ Len(sent) < MaxItems
    /\ sent' = Append(sent, item)
    /\ wire' = Encoded(item)
    /\ UNCHANGED <<echoing, parserVars, penVars, modeVars, ops, torn, misled>>

\* A read times out: nothing to feed.
RemoteSilent == wire = <<>> /\ UNCHANGED vars

\* local_echo_feed(): a key that is not a character of its own is echoed by the
\* sequence that moves the cursor as the key would.
Echoed(key) ==
    IF key = "enter" THEN <<Control("cr"), Control("lf")>>
    ELSE IF key = "backspace" THEN <<Control("bs"), Char("space"), Control("bs")>>
    ELSE IF key = "esc" THEN <<>>
    ELSE IF key = "up"
         THEN IF appCursorKeys THEN <<Other(<<"esc", "O", "A">>)>> ELSE <<Csi(FALSE, <<>>, "A")>>
    ELSE IF key = "del" THEN <<Csi(FALSE, <<3>>, "~")>>
    ELSE <<Char(key)>>

\* What ESC makes a sequence with.
Introduces(c) == c \in {"[", "]"} \cup CharsetNames

\* The io task echoes a key after a chunk, wherever in an item the chunk ended.
Echo(key) ==
    /\ echoing = 0 /\ Len(sent) < MaxItems
    /\ LET items == Echoed(key)
           bytes == FlattenSeq([i \in DOMAIN items |-> Encoded(items[i])])
       IN  /\ sent' = sent \o items
           /\ wire' = bytes \o wire
           /\ echoing' = Len(bytes)
           /\ torn' = (torn \/ (wire # <<>> /\ bytes # <<>>))
           /\ misled' = (misled \/ (state = "esc" /\ bytes # <<>> /\ Introduces(Head(bytes))))
    /\ UNCHANGED <<parserVars, penVars, modeVars, ops>>

-----------------------------------------------------------------------------
(* Parameters. *)

\* An int that overflows wraps around.
Wrapped(v) == ((v + IntMax + 1) % (2 * (IntMax + 1))) - (IntMax + 1)

Number(digits) ==
    LET Value[i \in 0..Len(digits)] ==
            IF i = 0 THEN 0 ELSE Wrapped(Value[i - 1] * 10 + DigitValue[digits[i]])
    IN  Value[Len(digits)]

\* The digits of buf from i on.
DigitsAt(buf, i) ==
    LET ends == {j \in i..Len(buf) : buf[j] = "semicolon"}
        end == IF ends = {} THEN Len(buf) + 1 ELSE CHOOSE j \in ends : \A k \in ends : j <= k
    IN  SubSeq(buf, i, end - 1)

ParamAt(buf, i) == IF buf[i] = "semicolon" THEN Missing ELSE Number(DigitsAt(buf, i))

AtMost(n, q) == SubSeq(q, 1, IF Len(q) < n THEN Len(q) ELSE n)

\* Mutant: an empty parameter is skipped, not recorded as missing.
ParseParamsSkipsEmpty(buf) ==
    AtMost(MaxParams,
           FlattenSeq([i \in DOMAIN buf |->
                          IF buf[i] # "semicolon" /\ (i > 1 => buf[i - 1] = "semicolon")
                          THEN <<ParamAt(buf, i)>> ELSE <<>>]))

\* parse_params(): a parameter begins at the front and after each semicolon. An
\* empty one is Missing, one at the very end is not seen at all, and no more
\* than MaxParams are read.
ParseParams(buf) ==
    AtMost(MaxParams,
           FlattenSeq([i \in DOMAIN buf |->
                          IF i > 1 => buf[i - 1] = "semicolon"
                          THEN <<ParamAt(buf, i)>> ELSE <<>>]))

-----------------------------------------------------------------------------
(* Select Graphic Rendition and the private modes. *)

SgrOne(p, code) ==
    IF code <= 0 THEN DefaultPen
    ELSE IF code = 1 THEN [p EXCEPT !.bold = TRUE]
    ELSE IF code = 4 THEN [p EXCEPT !.underline = TRUE]
    ELSE IF code = 7 THEN [p EXCEPT !.reverse = TRUE]
    ELSE IF code = 22 THEN [p EXCEPT !.bold = FALSE]
    ELSE IF code = 24 THEN [p EXCEPT !.underline = FALSE]
    ELSE IF code = 27 THEN [p EXCEPT !.reverse = FALSE]
    ELSE IF code \in 30..37 THEN [p EXCEPT !.fg = code - 30]
    ELSE IF code = 39 THEN [p EXCEPT !.fg = 7]
    ELSE IF code \in 40..47 THEN [p EXCEPT !.bg = code - 40]
    ELSE IF code = 49 THEN [p EXCEPT !.bg = 0]
    ELSE IF code \in 90..97 THEN [p EXCEPT !.fg = 8 + code - 90]
    ELSE IF code \in 100..107 THEN [p EXCEPT !.bg = 8 + code - 100]
    ELSE p

\* One code after the other.
SgrAll(p, params) ==
    LET After[i \in 0..Len(params)] == IF i = 0 THEN p ELSE SgrOne(After[i - 1], params[i])
    IN  After[Len(params)]

\* Mutant: a sequence without parameters does not reset the pen.
ApplySgrNoDefault(params) == SgrAll(pen, params)

\* term_apply_sgr()
ApplySgr(params) == IF params = <<>> THEN DefaultPen ELSE SgrAll(pen, params)

\* Mutant: only the first parameter of a sequence is obeyed.
ModeAfterFirst(mode, value, params, final) ==
    IF params # <<>> /\ params[1] = mode THEN final = "h" ELSE value

\* term_set_private_mode() for each parameter: the value of a mode that was value.
ModeAfter(mode, value, params, final) ==
    IF final \in {"h", "l"} /\ Contains(params, mode) THEN final = "h" ELSE value

-----------------------------------------------------------------------------
(* term_putc(): one byte, in each state of the parser. *)

b == Head(wire)

Takes(st) ==
    /\ wire # <<>> /\ state = st
    /\ wire' = Tail(wire)
    /\ echoing' = IF echoing > 0 THEN echoing - 1 ELSE 0
    /\ UNCHANGED <<sent, torn, misled>>

\* A printable character, a control, or a byte that v1 has no use for.
NormalByte ==
    /\ Takes("normal")
    /\ state' = IF b = "esc" THEN "esc" ELSE "normal"
    /\ ops' = IF b \in Chars THEN Append(ops, Char(b))
              ELSE IF b \in Controls \ {"esc"} THEN Append(ops, Control(b))
              ELSE ops
    /\ UNCHANGED <<csiBuf, csiPrivate, penVars, modeVars>>

AfterEsc(c) ==
    IF c = "[" THEN "csi"
    ELSE IF c = "]" THEN "osc"
    ELSE IF c \in CharsetNames THEN "charset"
    ELSE "normal"

\* ESC c is term_reset_state().
EscByte ==
    /\ Takes("esc")
    /\ state' = AfterEsc(b)
    /\ IF b \in {"[", "c"}
       THEN csiBuf' = <<>> /\ csiPrivate' = FALSE
       ELSE UNCHANGED <<csiBuf, csiPrivate>>
    /\ ops' = IF b \in {"7", "8", "c"} THEN Append(ops, Esc(b)) ELSE ops
    /\ savedPen' = IF b = "7" THEN pen ELSE savedPen
    /\ pen' = IF b = "8" THEN savedPen ELSE IF b = "c" THEN DefaultPen ELSE pen
    /\ IF b = "c"
       THEN appCursorKeys' = FALSE /\ cursorVisible' = TRUE
       ELSE UNCHANGED modeVars

\* The byte that names the set of ESC ( and the like.
CharsetByte ==
    /\ Takes("charset")
    /\ state' = "normal"
    /\ UNCHANGED <<csiBuf, csiPrivate, penVars, modeVars, ops>>

\* Mutant: csi_len is not checked against the size of csi_buf.
CollectUnchecked(c) == csiBuf' = Append(csiBuf, c)

\* What does not fit into csi_buf is dropped.
Collect(c) == csiBuf' = IF Len(csiBuf) < CsiBufLen - 1 THEN Append(csiBuf, c) ELSE csiBuf

CsiPrivateByte ==
    /\ Takes("csi") /\ b = "?" /\ csiBuf = <<>>
    /\ csiPrivate' = TRUE
    /\ UNCHANGED <<state, csiBuf, penVars, modeVars, ops>>

CsiParamByte ==
    /\ Takes("csi") /\ b \in ParamBytes
    /\ Collect(b)
    /\ UNCHANGED <<state, csiPrivate, penVars, modeVars, ops>>

\* term_dispatch_csi(): any other byte ends the sequence.
CsiFinalByte ==
    /\ Takes("csi")
    /\ b \notin ParamBytes /\ ~(b = "?" /\ csiBuf = <<>>)
    /\ state' = "normal"
    /\ LET params == ParseParams(csiBuf)
       IN  /\ ops' = Append(ops, Csi(csiPrivate, params, b))
           /\ pen' = IF ~csiPrivate /\ b = "m" THEN ApplySgr(params) ELSE pen
           /\ IF csiPrivate
              THEN /\ appCursorKeys' = ModeAfter(1, appCursorKeys, params, b)
                   /\ cursorVisible' = ModeAfter(25, cursorVisible, params, b)
              ELSE UNCHANGED modeVars
    /\ UNCHANGED <<csiBuf, csiPrivate, savedPen>>

\* Mutant: BEL does not end the string.
OscEndsByEsc(c) == c = "esc"

OscEnds(c) == c \in OscEnd

OscByte ==
    /\ Takes("osc")
    /\ state' = IF OscEnds(b) THEN "normal" ELSE "osc"
    /\ UNCHANGED <<csiBuf, csiPrivate, penVars, modeVars, ops>>

Feed ==
    \/ NormalByte
    \/ EscByte
    \/ CharsetByte
    \/ CsiPrivateByte
    \/ CsiParamByte
    \/ CsiFinalByte
    \/ OscByte

Next ==
    \/ \E item \in Items : RemoteSends(item)
    \/ RemoteSilent
    \/ \E key \in EchoKeys : Echo(key)
    \/ Feed

Spec == Init /\ [][Next]_vars

-----------------------------------------------------------------------------
(* Properties. *)

Recognised == \A i \in DOMAIN sent : sent[i].kind # "other"

\* The parameters of a sequence fit into csi_buf, params and an int.
Fits(item) ==
    item.kind = "csi" =>
        /\ Len(EncodedParams(item.params)) <= CsiBufLen - 1
        /\ Len(item.params) <= MaxParams
        /\ \A i \in DOMAIN item.params : item.params[i] <= IntMax

Param(params, i) == IF i \in DOMAIN params THEN params[i] ELSE Missing

Obeys(op, item) ==
    /\ op.kind = item.kind
    /\ op.kind # "csi" => op = item
    /\ op.kind = "csi" =>
          /\ op.private = item.private /\ op.final = item.final
          /\ Fits(item) => \A i \in 1..MaxParams : Param(op.params, i) = Param(item.params, i)

\* The items that have an effect.
Effective(items) ==
    FlattenSeq([i \in DOMAIN items |-> IF items[i].kind = "quiet" THEN <<>> ELSE <<items[i]>>])

\* What the terminal does is what the remote and the echo mean, in order, one
\* operation for each item and with its parameters, as long as every sequence
\* is one that v1 knows (terminal.h:18-24) and no echo tears one apart: nothing
\* is lost, doubled or printed, however long its parameters are.
ActsAsMeant ==
    Recognised /\ ~torn =>
        LET meant == Effective(sent)
        IN  /\ Len(ops) <= Len(meant)
            /\ \A i \in DOMAIN ops : Obeys(ops[i], meant[i])
            /\ wire = <<>> => Len(ops) = Len(meant)

\* After the last byte of an item the parser is back in its normal state, also
\* when it does not know the item ("don't corrupt future parsing",
\* terminal.c:465) and when an echo tore the item apart, unless the key echoed
\* came right after an ESC and is one that ESC makes a sequence with.
Resynced == wire = <<>> /\ ~misled => state = "normal"

IsSgr(item) == item.kind = "csi" /\ ~item.private /\ item.final = "m"

LastOf(places) == CHOOSE i \in places : \A j \in places : j <= i

\* The last of the codes that is in S, 0 for an empty parameter.
LastCode(params, S) ==
    LET codes == IF params = <<>> THEN <<0>>
                 ELSE [i \in DOMAIN params |-> IF params[i] = Missing THEN 0 ELSE params[i]]
        places == {i \in DOMAIN codes : codes[i] \in S}
    IN  IF places = {} THEN Missing ELSE codes[LastOf(places)]

\* ECMA-48: each attribute is what the last code that bears on it says.
MeantPen(old, params) ==
    LET fg == LastCode(params, {0, 39} \cup (30..37) \cup (90..97))
        bg == LastCode(params, {0, 49} \cup (40..47) \cup (100..107))
        Flag(on, off, value) ==
            LET code == LastCode(params, {0, on, off})
            IN  IF code = Missing THEN value ELSE code = on
    IN  [fg |-> IF fg = Missing THEN old.fg ELSE IF fg \in {0, 39} THEN 7
                ELSE (fg % 10) + (IF fg > 50 THEN 8 ELSE 0),
         bg |-> IF bg = Missing THEN old.bg ELSE IF bg \in {0, 49} THEN 0
                ELSE (bg % 10) + (IF bg > 50 THEN 8 ELSE 0),
         bold |-> Flag(1, 22, old.bold),
         underline |-> Flag(4, 24, old.underline),
         reverse |-> Flag(7, 27, old.reverse)]

\* What items make of the pen, one after the other.
PenAfter(items) ==
    LET After[n \in 0..Len(items)] ==
            IF n = 0 THEN DefaultPen
            ELSE IF IsSgr(items[n]) THEN MeantPen(After[n - 1], items[n].params)
            ELSE IF items[n] = Esc("8")
                 THEN LET saves == {i \in 1..n : items[i] = Esc("7")}
                      IN  After[IF saves = {} THEN 0 ELSE LastOf(saves)]
            ELSE IF items[n] = Esc("c") THEN DefaultPen
            ELSE After[n - 1]
    IN  After[Len(items)]

\* A restore follows a save, and no list of codes ends in an empty one: the
\* code reads ESC 8 without ESC 7 as black on black and drops an empty last
\* parameter.
PenItem(items, i) ==
    /\ Fits(items[i])
    /\ IsSgr(items[i]) /\ items[i].params # <<>> => Last(items[i].params) # Missing
    /\ items[i] = Esc("8") => \E j \in 1..(i - 1) : items[j] = Esc("7")

\* The pen is what the sequences sent so far make of it, however they are cut
\* into parameters, saved and restored (terminal.c:304-329, 488-503).
PenMeant ==
    wire = <<>> /\ Recognised /\ ~torn /\ (\A i \in DOMAIN sent : PenItem(sent, i))
        => pen = PenAfter(sent)

\* A reset, or a sequence that sets or resets a mode.
SetsMode(item, mode) ==
    \/ item = Esc("c")
    \/ /\ item.kind = "csi" /\ item.private /\ item.final \in {"h", "l"}
       /\ Contains(item.params, mode)

\* The last item that sets a mode decides it, wherever the mode stands in the
\* parameters; a reset sets it to its default.
MeantMode(items, mode, default) ==
    LET places == {i \in DOMAIN items : SetsMode(items[i], mode)}
    IN  IF places = {} \/ items[LastOf(places)] = Esc("c") THEN default
        ELSE items[LastOf(places)].final = "h"

\* The arrow keys send what the remote asked for, and the cursor is drawn unless
\* it asked not to (terminal.c:331-365, 405-412).
ModesMeant ==
    wire = <<>> /\ Recognised /\ ~torn /\ (\A i \in DOMAIN sent : Fits(sent[i])) =>
        /\ appCursorKeys = MeantMode(sent, 1, FALSE)
        /\ cursorVisible = MeantMode(sent, 25, TRUE)

CharsOf(items) == SelectSeq(items, LAMBDA item : item.kind = "char")

\* "Unrecognized escape sequences are consumed and discarded rather than left to
\* corrupt the parser or leak through as garbage text" (terminal.h:22-24).
NoLeak == IsPrefix(CharsOf(ops), CharsOf(sent))

\* "Mirrors send_key()'s byte choices back into our own terminal"
\* (session_ui.c:119): a character typed appears.
EchoShown ==
    wire = <<>> =>
        \A key \in EchoKeys : Contains(sent, Char(key)) => Contains(ops, Char(key))
=============================================================================
