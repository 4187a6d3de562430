------------------------------- MODULE Screen -------------------------------
(***************************************************************************)
(* The content side of terminal.c: the main and the alternate grid, the    *)
(* scrollback ring, the scrolled-back viewport and terminal_render(), which *)
(* draws on the canvas only the rows that differ from what it drew last.   *)
(*                                                                         *)
(* A row of cells is one value: what it holds is told apart, not how.  The *)
(* canvas is, for every row, the value drawn there and the column of the   *)
(* cursor block drawn over it.                                             *)
(***************************************************************************)
EXTENDS Integers, Sequences

CONSTANTS
    Rows,       \* TERM_ROWS
    Cols,       \* TERM_COLS
    Lines,      \* SCROLLBACK_LINES
    Contents,   \* what a row can hold
    Blank,      \* a cleared row
    Unknown,    \* what no row can hold: 0xFF in rendered_grid, the raw canvas
    MaxPushes   \* bound: lines pushed in one behaviour

ASSUME RowsAssumption == Rows \in Nat \ {0, 1}
ASSUME ColsAssumption == Cols \in Nat \ {0}
ASSUME LinesAssumption == Lines \in Nat \ {0}
ASSUME ContentsAssumption == Blank \in Contents /\ Unknown \notin Contents
ASSUME MaxPushesAssumption == MaxPushes \in Nat

RowIds == 0..(Rows - 1)
ColIds == 0..(Cols - 1)
Slots == 0..(Lines - 1)
Nowhere == -1

VARIABLES
    mainGrid,         \* main_grid
    altGrid,          \* alt_grid
    altActive,        \* alt_active: which of them grid points at
    curRow, curCol,   \* cur_row, cur_col
    cursorVisible,    \* cursor_visible
    scrollback,       \* the ring: slot -> line
    head,             \* scrollback_head: the next slot to write
    count,            \* scrollback_count: valid lines
    scrollOffset,     \* scroll_offset: lines back, 0 in the live view
    renderedGrid,     \* rendered_grid
    renderedCursor,   \* rendered_cursor_row, _col and _visible
    renderedOffset,   \* rendered_scroll_offset
    canvas,           \* what the canvas shows
    upToDate,         \* history: nothing has changed since terminal_render()
    pushed            \* history: number of lines pushed

gridVars == <<mainGrid, altGrid, altActive>>
cursorVars == <<curRow, curCol, cursorVisible>>
ringVars == <<scrollback, head, count, scrollOffset, pushed>>
renderVars == <<renderedGrid, renderedCursor, renderedOffset, canvas>>
vars == <<gridVars, cursorVars, ringVars, renderVars, upToDate>>

RingTypeOK ==
    /\ scrollback \in [Slots -> Contents]
    /\ head \in Slots
    /\ count \in 0..Lines
    /\ scrollOffset \in 0..count
    /\ pushed \in 0..MaxPushes

TypeOK ==
    /\ mainGrid \in [RowIds -> Contents]
    /\ altGrid \in [RowIds -> Contents]
    /\ altActive \in BOOLEAN
    /\ curRow \in RowIds
    /\ curCol \in ColIds
    /\ cursorVisible \in BOOLEAN
    /\ RingTypeOK
    /\ renderedGrid \in [RowIds -> Contents \cup {Unknown}]
    /\ renderedCursor \in [row : RowIds \cup {Nowhere}, col : ColIds \cup {Nowhere},
                           visible : BOOLEAN]
    /\ renderedOffset \in (0..Lines) \cup {Nowhere}
    /\ canvas \in [RowIds -> [line : Contents \cup {Unknown}, cursor : ColIds \cup {Nowhere}]]
    /\ upToDate \in BOOLEAN

\* terminal_create()
Init ==
    /\ mainGrid = [r \in RowIds |-> Blank]
    /\ altGrid = [r \in RowIds |-> Blank]
    /\ altActive = FALSE
    /\ curRow = 0 /\ curCol = 0 /\ cursorVisible = TRUE
    /\ scrollback = [i \in Slots |-> Blank]
    /\ head = 0 /\ count = 0 /\ scrollOffset = 0 /\ pushed = 0
    /\ renderedGrid = [r \in RowIds |-> Unknown]
    /\ renderedCursor = [row |-> Nowhere, col |-> Nowhere, visible |-> FALSE]
    /\ renderedOffset = Nowhere
    /\ canvas = [r \in RowIds |-> [line |-> Unknown, cursor |-> Nowhere]]
    /\ upToDate = FALSE

-----------------------------------------------------------------------------
(* Pure helpers. *)

Grid == IF altActive THEN altGrid ELSE mainGrid

SetGrid(g) ==
    IF altActive THEN altGrid' = g /\ UNCHANGED mainGrid
                 ELSE mainGrid' = g /\ UNCHANGED altGrid

\* Mutant: the newest line is taken to be at the head.
DisplayRowAtHead(r) ==
    LET logical == (count - scrollOffset) + r
        fromNewest == (count - 1) - logical
    IN  IF logical < count
        THEN scrollback[(head - fromNewest + Lines) % Lines]
        ELSE Grid[logical - count]

\* display_row(): the row shown at a screen row, from the ring or the grid.
DisplayRow(r) ==
    LET logical == (count - scrollOffset) + r
        newest == (head - 1 + Lines) % Lines
        fromNewest == (count - 1) - logical
    IN  IF logical < count
        THEN scrollback[(newest - fromNewest + Lines) % Lines]
        ELSE Grid[logical - count]

\* Mutant: a scrolled-back viewport is not moved along.
PushScrollbackDrifts(line) ==
    IF altActive
    THEN UNCHANGED ringVars
    ELSE /\ pushed < MaxPushes
         /\ pushed' = pushed + 1
         /\ scrollback' = [scrollback EXCEPT ![head] = line]
         /\ head' = (head + 1) % Lines
         /\ count' = IF count < Lines THEN count + 1 ELSE count
         /\ UNCHANGED scrollOffset

\* Mutant: the alternate screen feeds the ring too.
PushScrollbackFromAlt(line) ==
    /\ pushed < MaxPushes
    /\ pushed' = pushed + 1
    /\ scrollback' = [scrollback EXCEPT ![head] = line]
    /\ head' = (head + 1) % Lines
    /\ count' = IF count < Lines THEN count + 1 ELSE count
    /\ scrollOffset' = IF scrollOffset = 0 THEN 0
                       ELSE IF scrollOffset + 1 > count' THEN count'
                       ELSE scrollOffset + 1

\* push_scrollback(): nothing on the alternate screen; otherwise the line goes
\* into the ring and a scrolled-back viewport moves one line further back.
PushScrollback(line) ==
    IF altActive
    THEN UNCHANGED ringVars
    ELSE /\ pushed < MaxPushes
         /\ pushed' = pushed + 1
         /\ scrollback' = [scrollback EXCEPT ![head] = line]
         /\ head' = (head + 1) % Lines
         /\ count' = IF count < Lines THEN count + 1 ELSE count
         /\ scrollOffset' = IF scrollOffset = 0 THEN 0
                            ELSE IF scrollOffset + 1 > count' THEN count'
                            ELSE scrollOffset + 1

-----------------------------------------------------------------------------
(* terminal_feed(): what the remote's bytes do to rows and cursor. *)

\* A printed character or an erase changes the row of the cursor.
Write(line) ==
    /\ SetGrid([Grid EXCEPT ![curRow] = line])
    /\ upToDate' = FALSE
    /\ UNCHANGED <<altActive, cursorVars, ringVars, renderVars>>

MoveCursor(r, c) ==
    /\ curRow' = r /\ curCol' = c
    /\ upToDate' = FALSE
    /\ UNCHANGED <<gridVars, cursorVisible, ringVars, renderVars>>

\* CSI ? 25 h / l
SetCursorVisible(visible) ==
    /\ cursorVisible' = visible
    /\ upToDate' = FALSE
    /\ UNCHANGED <<gridVars, curRow, curCol, ringVars, renderVars>>

\* term_scroll_region_up(): only a scroll of the full screen feeds the ring.
ScrollRegionUp(top, bottom) ==
    /\ top < bottom
    /\ IF top = 0 /\ bottom = Rows - 1 THEN PushScrollback(Grid[0]) ELSE UNCHANGED ringVars
    /\ SetGrid([r \in RowIds |-> IF r \in top..(bottom - 1) THEN Grid[r + 1]
                                 ELSE IF r = bottom THEN Blank ELSE Grid[r]])
    /\ upToDate' = FALSE
    /\ UNCHANGED <<altActive, cursorVars, renderVars>>

\* CSI 2 J
ClearAll ==
    /\ SetGrid([r \in RowIds |-> Blank])
    /\ upToDate' = FALSE
    /\ UNCHANGED <<altActive, cursorVars, ringVars, renderVars>>

\* CSI ? 47, 1047, 1049 h: a cleared alternate screen, the cursor at the top.
EnterAlt ==
    /\ ~altActive
    /\ altActive' = TRUE
    /\ altGrid' = [r \in RowIds |-> Blank]
    /\ curRow' = 0 /\ curCol' = 0
    /\ upToDate' = FALSE
    /\ UNCHANGED <<mainGrid, cursorVisible, ringVars, renderVars>>

LeaveAlt ==
    /\ altActive
    /\ altActive' = FALSE
    /\ upToDate' = FALSE
    /\ UNCHANGED <<mainGrid, altGrid, cursorVars, ringVars, renderVars>>

-----------------------------------------------------------------------------
(* The viewport and the canvas. *)

\* Mutant: no limit at the oldest retained line.
TerminalScrollUnlimited(delta) ==
    /\ scrollOffset' = IF scrollOffset + delta < 0 THEN 0 ELSE scrollOffset + delta
    /\ upToDate' = FALSE
    /\ UNCHANGED <<gridVars, cursorVars, scrollback, head, count, pushed, renderVars>>

\* terminal_scroll()
TerminalScroll(delta) ==
    /\ scrollOffset' = IF scrollOffset + delta < 0 THEN 0
                       ELSE IF scrollOffset + delta > count THEN count
                       ELSE scrollOffset + delta
    /\ upToDate' = FALSE
    /\ UNCHANGED <<gridVars, cursorVars, scrollback, head, count, pushed, renderVars>>

ShowCursor == cursorVisible /\ scrollOffset = 0

ScrollChanged == scrollOffset # renderedOffset

\* row_unchanged()
RowUnchanged(r) == DisplayRow(r) = renderedGrid[r]

\* Mutant: the row the cursor has left is not drawn again.
RedrawnButCursor == {r \in RowIds : ScrollChanged \/ r = curRow \/ ~RowUnchanged(r)}

\* The rows terminal_render() draws again.
Redrawn == {r \in RowIds : \/ ScrollChanged
                           \/ r = curRow
                           \/ r = renderedCursor.row
                           \/ ~RowUnchanged(r)}

CursorChanged ==
    \/ curRow # renderedCursor.row
    \/ curCol # renderedCursor.col
    \/ ShowCursor # renderedCursor.visible

NothingChanged ==
    ~ScrollChanged /\ ~CursorChanged /\ \A r \in RowIds : RowUnchanged(r)

\* terminal_render()
TerminalRender ==
    /\ IF NothingChanged
       THEN UNCHANGED renderVars
       ELSE /\ renderedGrid' = [r \in RowIds |-> IF r \in Redrawn THEN DisplayRow(r)
                                                 ELSE renderedGrid[r]]
            /\ canvas' = [r \in RowIds |->
                             [line |-> IF r \in Redrawn THEN DisplayRow(r) ELSE canvas[r].line,
                              cursor |-> IF ShowCursor /\ r = curRow THEN curCol
                                         ELSE IF r \in Redrawn THEN Nowhere
                                         ELSE canvas[r].cursor]]
            /\ renderedCursor' = [row |-> curRow, col |-> curCol, visible |-> ShowCursor]
            /\ renderedOffset' = scrollOffset
    /\ upToDate' = TRUE
    /\ UNCHANGED <<gridVars, cursorVars, ringVars>>

Next ==
    \/ \E line \in Contents : Write(line)
    \/ \E r \in RowIds, c \in ColIds : MoveCursor(r, c)
    \/ \E visible \in BOOLEAN : SetCursorVisible(visible)
    \/ \E top, bottom \in RowIds : ScrollRegionUp(top, bottom)
    \/ ClearAll
    \/ EnterAlt
    \/ LeaveAlt
    \/ \E delta \in -Lines..Lines : TerminalScroll(delta)
    \/ TerminalRender

Spec == Init /\ [][Next]_vars

-----------------------------------------------------------------------------
(* Properties. *)

\* "it can't miss a spot" (terminal.c:67-72): after a render the canvas shows
\* every row of the view and the cursor, and nothing else, however little of it
\* was drawn again.
Picture == [r \in RowIds |-> [line |-> DisplayRow(r),
                              cursor |-> IF ShowCursor /\ r = curRow THEN curCol ELSE Nowhere]]
CanvasComplete == upToDate => canvas = Picture

\* The scrollback is the history it promises: terminal.c:230-248 with the
\* arithmetic of terminal.c:217-228 implements History.
Retained == [i \in 1..count |-> scrollback[(head - count + i - 1 + Lines) % Lines]]

Hist == INSTANCE History WITH
            total <- pushed, retained <- Retained, anchor <- pushed - scrollOffset

ImplementsHistory == Hist!Spec

\* "Keep a currently-scrolled-back user looking at the same historical content"
\* (terminal.c:240-241): a line of history on display stays where it is while
\* the remote writes, unless it was the oldest and the ring was full.
HistoryViewStays ==
    [][pushed' # pushed /\ scrollOffset \in 1..(Lines - 1)
          => \A r \in RowIds : r < scrollOffset => DisplayRow(r)' = DisplayRow(r)]_vars

\* A program on the alternate screen leaves the main screen and the scrollback
\* as they were (terminal.h:24-26, terminal.c:232-234).
AltScreenIsolated ==
    [][altActive => mainGrid' = mainGrid /\ scrollback' = scrollback /\ count' = count]_vars
=============================================================================
