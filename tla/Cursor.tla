------------------------------- MODULE Cursor -------------------------------
(***************************************************************************)
(* The control side of terminal.c: what each control character and escape  *)
(* sequence does to the cursor, the deferred autowrap, the scroll region,  *)
(* the saved cursor and the choice of the grid.  What the cells hold is in *)
(* Screen.  The arithmetic is that of the code's int: a sum beyond IntMax  *)
(* wraps around before the clamp, which looks at one side only, and the    *)
(* cursor is then outside the grid.  A cell written there is undefined     *)
(* behaviour: the model records it and stops.                              *)
(***************************************************************************)
EXTENDS Integers

CONSTANTS
    Rows,       \* TERM_ROWS
    Cols,       \* TERM_COLS
    TabStop,    \* distance of tab stops (8 in term_putc)
    IntMax,     \* the largest int
    Params,     \* the numeric parameters a sequence can carry
    MaxOverflows\* bound: the sums that overflow

ASSUME RowsAssumption == Rows \in Nat \ {0, 1}
ASSUME ColsAssumption == Cols \in Nat \ {0}
ASSUME TabStopAssumption == TabStop \in Nat \ {0}
\* A parameter is any int that parse_params() can return and that is not below
\* zero: a negative one counts as none.
ASSUME ParamsAssumption ==
    /\ IntMax \in Nat /\ Rows + Cols <= IntMax /\ TabStop <= IntMax
    /\ Params \subseteq 0..IntMax
    /\ MaxOverflows \in Nat

Ints == (-IntMax - 1)..IntMax
RowIds == 0..(Rows - 1)
ColIds == 0..(Cols - 1)

VARIABLES
    curRow, curCol,          \* cur_row, cur_col
    pendingWrap,             \* pending_wrap
    scrollTop, scrollBottom, \* scroll_top, scroll_bottom
    savedRow, savedCol,      \* saved_row, saved_col
    altActive,               \* alt_active
    lastOp,                  \* history: what the last step was
    written,                 \* history: the cell the last print wrote
    scrolled,                \* history: 1 when the last step scrolled the region
    entry,                   \* history: the cursor that mode 1049 saved last, if
                             \* nothing has been saved over it
    overflows,               \* history: sums that overflowed
    damaged                  \* history: a cell outside the grid was written

cursorVars == <<curRow, curCol, pendingWrap>>
regionVars == <<scrollTop, scrollBottom>>
savedVars == <<savedRow, savedCol>>
historyVars == <<lastOp, written, scrolled, entry>>
faultVars == <<overflows, damaged>>
vars == <<cursorVars, regionVars, savedVars, altActive, historyVars, faultVars>>

Ops == {"control", "print", "vertical", "position", "restored"}
Cells == RowIds \X ColIds
NoCell == <<IntMax + 1, IntMax + 1>>    \* no int

\* Every variable has the type of its declaration, and the scroll region is at
\* least two rows of the grid.
TypeOK ==
    /\ curRow \in Ints /\ curCol \in Ints
    /\ pendingWrap \in BOOLEAN
    /\ scrollTop \in RowIds /\ scrollBottom \in RowIds /\ scrollTop < scrollBottom
    /\ savedRow \in Ints /\ savedCol \in Ints
    /\ altActive \in BOOLEAN
    /\ lastOp \in Ops
    /\ written \in (Ints \X Ints) \cup {NoCell}
    /\ scrolled \in {0, 1}
    /\ entry \in (Ints \X Ints) \cup {NoCell}
    /\ overflows \in 0..MaxOverflows
    /\ damaged \in BOOLEAN

\* terminal_create(): calloc and term_reset_state()
Init ==
    /\ curRow = 0 /\ curCol = 0 /\ pendingWrap = FALSE
    /\ scrollTop = 0 /\ scrollBottom = Rows - 1
    /\ savedRow = 0 /\ savedCol = 0
    /\ altActive = FALSE
    /\ lastOp = "control" /\ written = NoCell /\ scrolled = 0 /\ entry = NoCell
    /\ overflows = 0 /\ damaged = FALSE

-----------------------------------------------------------------------------
(* Helpers. *)

\* The int that a sum computed in int is, and the count of those that are not
\* the sum.
IntOf(x) ==
    IF x > IntMax THEN x - 2 * (IntMax + 1)
    ELSE IF x < -IntMax - 1 THEN x + 2 * (IntMax + 1)
    ELSE x

Computes(x) ==
    /\ x \notin Ints => overflows < MaxOverflows
    /\ overflows' = IF x \in Ints THEN overflows ELSE overflows + 1

\* t->grid[row * TERM_COLS + col]
Linear(cell) == cell[1] * Cols + cell[2]
Writes(cells) == damaged' = \E cell \in cells : Linear(cell) \notin 0..(Rows * Cols - 1)

AtLeast(x, low) == IF x < low THEN low ELSE x
AtMost(x, high) == IF x > high THEN high ELSE x

\* Mutant: the line feed that scrolls only at the bottom of the screen.
ScrollsAtScreenBottom == curRow = Rows - 1

\* term_line_feed(): the row after it, and whether the region scrolled.
ScrollsAtFeed == curRow = scrollBottom

\* Mutant: the test of the last row is left out: the cursor is in its region.
RowAfterFeedUnchecked == IF ~ScrollsAtFeed THEN curRow + 1 ELSE curRow

RowAfterFeed == IF ~ScrollsAtFeed /\ curRow < Rows - 1 THEN curRow + 1 ELSE curRow

Mark(op) == lastOp' = op /\ written' = NoCell /\ scrolled' = 0

\* Control that moves nothing but the cursor and cancels a deferred wrap.
MoveTo(r, c) ==
    /\ curRow' = r /\ curCol' = c
    /\ pendingWrap' = FALSE
    /\ UNCHANGED <<regionVars, savedVars, altActive, entry>>

-----------------------------------------------------------------------------
(* Printable characters: the wrap that the last column deferred comes first. *)

\* Mutant: pending_wrap is not reset by the wrap it asked for.
PutCharStillPending ==
    LET r == IF pendingWrap THEN RowAfterFeed ELSE curRow
        c == IF pendingWrap THEN 0 ELSE curCol
        next == IF c = Cols - 1 THEN c ELSE c + 1
    IN  /\ curRow' = r
        /\ curCol' = IntOf(next) /\ Computes(next)
        /\ pendingWrap' = (pendingWrap \/ c = Cols - 1)
        /\ lastOp' = "print"
        /\ written' = <<r, c>> /\ Writes({<<r, c>>})
        /\ scrolled' = IF pendingWrap /\ ScrollsAtFeed THEN 1 ELSE 0
        /\ UNCHANGED <<regionVars, savedVars, altActive, entry>>

PutChar ==
    LET r == IF pendingWrap THEN RowAfterFeed ELSE curRow
        c == IF pendingWrap THEN 0 ELSE curCol
        next == IF c = Cols - 1 THEN c ELSE c + 1
    IN  /\ curRow' = r
        /\ curCol' = IntOf(next) /\ Computes(next)
        /\ pendingWrap' = (c = Cols - 1)
        /\ lastOp' = "print"
        /\ written' = <<r, c>> /\ Writes({<<r, c>>})
        /\ scrolled' = IF pendingWrap /\ ScrollsAtFeed THEN 1 ELSE 0
        /\ UNCHANGED <<regionVars, savedVars, altActive, entry>>

-----------------------------------------------------------------------------
(* Control characters. *)

CarriageReturn == MoveTo(curRow, 0) /\ Mark("control") /\ UNCHANGED faultVars

LineFeed ==
    /\ MoveTo(RowAfterFeed, curCol)
    /\ lastOp' = "vertical" /\ written' = NoCell
    /\ scrolled' = IF ScrollsAtFeed THEN 1 ELSE 0
    /\ UNCHANGED faultVars

Backspace ==
    /\ MoveTo(curRow, IF curCol > 0 THEN curCol - 1 ELSE curCol)
    /\ Mark("control")
    /\ UNCHANGED faultVars

\* The division of C rounds towards zero.
NextTabStop ==
    (IF curCol >= 0 THEN (curCol \div TabStop) + 1 ELSE 1 - ((-curCol) \div TabStop)) * TabStop

Tab ==
    /\ MoveTo(curRow, AtMost(IntOf(NextTabStop), Cols - 1)) /\ Computes(NextTabStop)
    /\ Mark("control")
    /\ UNCHANGED damaged

-----------------------------------------------------------------------------
(* Control sequences.  A missing or zero count is 1. *)

Count(p) == IF p = 0 THEN 1 ELSE p

\* Each clamp looks only at the side the cursor moves to.
CursorUp(p) ==
    LET row == curRow - Count(p)
    IN  /\ MoveTo(AtLeast(IntOf(row), scrollTop), curCol) /\ Computes(row)
        /\ Mark("vertical")
        /\ UNCHANGED damaged

CursorDown(p) ==
    LET row == curRow + Count(p)
    IN  /\ MoveTo(AtMost(IntOf(row), scrollBottom), curCol) /\ Computes(row)
        /\ Mark("vertical")
        /\ UNCHANGED damaged

CursorForward(p) ==
    LET col == curCol + Count(p)
    IN  /\ MoveTo(curRow, AtMost(IntOf(col), Cols - 1)) /\ Computes(col)
        /\ Mark("control")
        /\ UNCHANGED damaged

CursorBack(p) ==
    LET col == curCol - Count(p)
    IN  /\ MoveTo(curRow, AtLeast(IntOf(col), 0)) /\ Computes(col)
        /\ Mark("control")
        /\ UNCHANGED damaged

\* CSI H: parameters count from 1, 0 stands for 1.
CursorPosition(p, q) ==
    /\ MoveTo(AtMost(AtLeast(p - 1, 0), Rows - 1), AtMost(AtLeast(q - 1, 0), Cols - 1))
    /\ Mark("position")
    /\ UNCHANGED faultVars

\* CSI r: a region of less than two rows is the full screen.
SetRegion(p, q) ==
    LET top == AtLeast(p - 1, 0)
        bottom == IF q = 0 THEN Rows - 1 ELSE AtMost(q - 1, Rows - 1)
        valid == top < bottom
    IN  /\ scrollTop' = IF valid THEN top ELSE 0
        /\ scrollBottom' = IF valid THEN bottom ELSE Rows - 1
        /\ curRow' = scrollTop' /\ curCol' = 0
        /\ pendingWrap' = FALSE
        /\ Mark("position")
        /\ UNCHANGED <<savedVars, altActive, entry, faultVars>>

\* CSI K: the tail of the line, its head, or all of it, and CSI J the same of the
\* display, counted from the cursor wherever that is.
ErasedInLine(mode) ==
    {curRow} \X CASE mode = 1 -> 0..AtMost(curCol, Cols - 1)
                  [] mode = 2 -> ColIds
                  [] OTHER -> curCol..(Cols - 1)

ErasedInDisplay(mode) ==
    CASE mode = 1 -> ErasedInLine(1) \cup (0..(curRow - 1)) \X ColIds
      [] mode = 2 -> Cells
      [] OTHER -> ErasedInLine(0) \cup (IntOf(curRow + 1)..(Rows - 1)) \X ColIds

EraseInLine(mode) ==
    /\ MoveTo(curRow, curCol)
    /\ Writes(ErasedInLine(mode))
    /\ Mark("control")
    /\ UNCHANGED overflows

EraseInDisplay(mode) ==
    /\ MoveTo(curRow, curCol)
    /\ Writes(ErasedInDisplay(mode))
    /\ Computes(IF mode = 0 THEN curRow + 1 ELSE curRow)
    /\ Mark("control")

\* m, the remaining private modes and unknown final bytes.
OtherSequence == MoveTo(curRow, curCol) /\ Mark("control") /\ UNCHANGED faultVars

\* Mutant: the cursor is saved after it went home.
EnterAltSavesLate(saving) ==
    /\ ~altActive
    /\ altActive' = TRUE
    /\ IF saving
       THEN savedRow' = 0 /\ savedCol' = 0 /\ entry' = <<curRow, curCol>>
       ELSE UNCHANGED savedVars /\ entry' = NoCell
    /\ curRow' = 0 /\ curCol' = 0 /\ pendingWrap' = FALSE
    /\ Mark("position")
    /\ UNCHANGED <<regionVars, faultVars>>

\* CSI ? 47 / 1047 / 1049 h on the main screen.
EnterAlt(saving) ==
    /\ ~altActive
    /\ altActive' = TRUE
    /\ IF saving
       THEN /\ savedRow' = curRow /\ savedCol' = curCol
            /\ entry' = <<curRow, curCol>>
       ELSE /\ UNCHANGED savedVars
            /\ entry' = NoCell
    /\ curRow' = 0 /\ curCol' = 0 /\ pendingWrap' = FALSE
    /\ Mark("position")
    /\ UNCHANGED <<regionVars, faultVars>>

\* CSI ? 47 / 1047 / 1049 l on the alternate screen.
LeaveAlt(restoring) ==
    /\ altActive
    /\ altActive' = FALSE
    /\ IF restoring THEN curRow' = savedRow /\ curCol' = savedCol ELSE UNCHANGED <<curRow, curCol>>
    /\ pendingWrap' = FALSE
    /\ Mark(IF restoring THEN "restored" ELSE "position")
    /\ UNCHANGED <<regionVars, savedVars, entry, faultVars>>

-----------------------------------------------------------------------------
(* ESC 7, ESC 8 and ESC c are no control sequences: pending_wrap is as it was. *)

SaveCursor ==
    /\ savedRow' = curRow /\ savedCol' = curCol
    /\ entry' = NoCell
    /\ Mark("control")
    /\ UNCHANGED <<cursorVars, regionVars, altActive, faultVars>>

RestoreCursor ==
    /\ curRow' = savedRow /\ curCol' = savedCol
    /\ Mark("position")
    /\ UNCHANGED <<pendingWrap, regionVars, savedVars, altActive, entry, faultVars>>

\* term_reset_state(): neither the saved cursor nor the grid is reset.
Reset ==
    /\ curRow' = 0 /\ curCol' = 0 /\ pendingWrap' = FALSE
    /\ scrollTop' = 0 /\ scrollBottom' = Rows - 1
    /\ Mark("position")
    /\ UNCHANGED <<savedVars, altActive, entry, faultVars>>

Step ==
    \/ PutChar
    \/ CarriageReturn
    \/ LineFeed
    \/ Backspace
    \/ Tab
    \/ \E p \in Params : CursorUp(p)
    \/ \E p \in Params : CursorDown(p)
    \/ \E p \in Params : CursorForward(p)
    \/ \E p \in Params : CursorBack(p)
    \/ \E p, q \in Params : CursorPosition(p, q)
    \/ \E p, q \in Params : SetRegion(p, q)
    \/ \E mode \in 0..2 : EraseInLine(mode) \/ EraseInDisplay(mode)
    \/ OtherSequence
    \/ \E saving \in BOOLEAN : EnterAlt(saving)
    \/ \E restoring \in BOOLEAN : LeaveAlt(restoring)
    \/ SaveCursor
    \/ RestoreCursor
    \/ Reset

\* Nothing is said of the program once it has written outside the grid.
Next == ~damaged /\ Step

Spec == Init /\ [][Next]_vars

-----------------------------------------------------------------------------
(* Properties. *)

InRegion(r) == scrollTop <= r /\ r <= scrollBottom
\* Whatever the remote sends, the cursor and both saved coordinates stay in the
\* grid and no cell outside it is written, unless one addition to the cursor
\* overflowed before: every other way to the edges is clamped, in any order of
\* region, saves, screens and tabs (terminal.c:414-463, 538-579).
InGridUnlessOverflow ==
    overflows = 0 => /\ <<curRow, curCol>> \in Cells
                     /\ <<savedRow, savedCol>> \in Cells
                     /\ ~damaged

\* Characters printed one after the other fill one cell after the other, across
\* the right margin and across a scroll of the region: none is skipped and none
\* is overwritten (terminal.c:554-579).
TextFlows ==
    [][lastOp = "print" /\ lastOp' = "print" /\ InRegion(curRow) /\ curCol \in ColIds
          => Linear(written') + Cols * scrolled' = Linear(written) + 1]_vars

\* Text and vertical movement leave the scroll region the cursor is in only by a
\* sum that overflows (terminal.c:264-271, 414-421).
RegionHolds ==
    [][lastOp' \in {"print", "vertical"} /\ InRegion(curRow) /\ overflows' = overflows
          => InRegion(curRow')]_vars

\* Leaving the alternate screen by mode 1049 puts the cursor back where it was
\* on entry, unless the slot was saved over in between (terminal.c:341-361).
AltRestoresCursor ==
    [][lastOp' = "restored" /\ entry # NoCell => <<curRow', curCol'>> = entry]_vars

=============================================================================
