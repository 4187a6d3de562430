---------------------------- MODULE ScreenProofs ----------------------------
(***************************************************************************)
(* Proofs about Screen: for a screen and a scrollback of any size, the     *)
(* canvas shows the picture whatever little of it is drawn again, and the  *)
(* ring implements the history it promises.                                *)
(***************************************************************************)
EXTENDS Screen, SequenceTheorems, TLAPS

-----------------------------------------------------------------------------
(* The arithmetic of the ring. *)

\* The slot that was written k writes ago, h being the next slot to write.
Back(h, k) == IF h >= k THEN h - k ELSE h - k + Lines

\* One turn around the ring is taken off by the remainder.
LEMMA Wrap ==
    /\ \A a \in 0..(Lines - 1) : a % Lines = a
    /\ \A a \in Lines..(2 * Lines - 1) : a % Lines = a - Lines
<1>1. Lines \in Nat /\ Lines > 0
  BY LinesAssumption
<1>2. ASSUME NEW a \in 0..(Lines - 1) PROVE a % Lines = a
  BY <1>1, <1>2, SMT
<1>3. ASSUME NEW a \in Lines..(2 * Lines - 1) PROVE a % Lines = a - Lines
  BY <1>1, <1>3, SMT
<1> QED
  BY <1>2, <1>3

\* The slot of a line a number of writes back is one of the ring, and not the
\* one that is written next; the next write takes it one write further back.
LEMMA BackInRing ==
    ASSUME NEW h \in Slots, NEW k \in 1..Lines
    PROVE  /\ Back(h, k) \in Slots
           /\ k < Lines => Back(h, k) # h
           /\ (h + 1) % Lines \in Slots
           /\ Back((h + 1) % Lines, 1) = h
           /\ k < Lines => Back((h + 1) % Lines, k + 1) = Back(h, k)
<1>1. Lines \in Nat /\ Lines > 0
  BY LinesAssumption
<1>2. CASE h + 1 < Lines
  <2>1. (h + 1) % Lines = h + 1
    BY <1>1, <1>2, Wrap DEF Slots
  <2> QED
    BY <1>1, <1>2, <2>1 DEF Back, Slots
<1>3. CASE h + 1 = Lines
  <2>1. (h + 1) % Lines = 0
    BY <1>1, <1>3, Wrap
  <2> QED
    BY <1>1, <1>3, <2>1 DEF Back, Slots
<1> QED
  BY <1>1, <1>2, <1>3 DEF Slots

\* Where a row of the view comes from: from the ring, as many writes back as it
\* is above the live screen, or from the grid.
LEMMA RowSource ==
    ASSUME TypeOK, NEW r \in RowIds
    PROVE  /\ r < scrollOffset => DisplayRow(r) = scrollback[Back(head, scrollOffset - r)]
           /\ r >= scrollOffset => DisplayRow(r) = Grid[r - scrollOffset]
<1>1. /\ Lines \in Nat /\ Lines > 0 /\ head \in 0..(Lines - 1) /\ count \in 0..Lines
      /\ scrollOffset \in 0..count /\ r \in Nat
  BY LinesAssumption DEF TypeOK, RingTypeOK, Slots, RowIds
<1>2. ASSUME r < scrollOffset
      PROVE  DisplayRow(r) = scrollback[Back(head, scrollOffset - r)]
  <2>1. (head - 1 + Lines) % Lines = Back(head, 1)
    BY <1>1, Wrap DEF Back
  <2>2. Back(head, 1) \in 0..(Lines - 1)
    BY <1>1 DEF Back
  <2> DEFINE k == (count - 1) - ((count - scrollOffset) + r)
  <2>3. k = scrollOffset - r - 1 /\ k \in 0..(Lines - 1) /\ (count - scrollOffset) + r < count
    BY <1>1, <1>2
  <2>4. (Back(head, 1) - k + Lines) % Lines = Back(Back(head, 1), k)
    BY <1>1, <2>2, <2>3, Wrap DEF Back
  <2>5. Back(Back(head, 1), k) = Back(head, scrollOffset - r)
    BY <1>1, <2>3 DEF Back
  <2> QED
    BY <2>1, <2>3, <2>4, <2>5 DEF DisplayRow
<1>3. ASSUME r >= scrollOffset
      PROVE  DisplayRow(r) = Grid[r - scrollOffset]
  <2>1. /\ ~((count - scrollOffset) + r < count)
        /\ (count - scrollOffset) + r - count = r - scrollOffset
    BY <1>1, <1>3
  <2>2. DisplayRow(r) = Grid[(count - scrollOffset) + r - count]
    BY <1>1, <2>1 DEF DisplayRow
  <2> QED
    BY <2>1, <2>2, Zenon
<1> QED
  BY <1>2, <1>3

\* A row of the view is a row of content.
LEMMA RowType ==
    ASSUME TypeOK
    PROVE  /\ Grid \in [RowIds -> Contents]
           /\ \A r \in RowIds : DisplayRow(r) \in Contents
<1>1. Grid \in [RowIds -> Contents]
  BY DEF TypeOK, Grid
<1>2. ASSUME NEW r \in RowIds PROVE DisplayRow(r) \in Contents
  <2>1. /\ scrollOffset \in 0..count /\ count \in 0..Lines /\ head \in Slots
        /\ scrollback \in [Slots -> Contents] /\ Lines \in Nat
    BY LinesAssumption DEF TypeOK, RingTypeOK
  <2>2. CASE r < scrollOffset
    <3>1. scrollOffset - r \in 1..Lines
      BY <2>1, <2>2 DEF RowIds
    <3> QED
      BY <2>1, <2>2, <3>1, RowSource, BackInRing
  <2>3. CASE ~(r < scrollOffset)
    <3>1. r >= scrollOffset /\ r - scrollOffset \in RowIds
      BY <2>1, <2>3, RowsAssumption DEF RowIds
    <3> QED
      BY <1>1, <3>1, RowSource
  <2> QED
    BY <2>2, <2>3
<1> QED
  BY <1>1, <1>2

-----------------------------------------------------------------------------
(* Types. *)

\* The groups of TypeOK.
GridType ==
    /\ mainGrid \in [RowIds -> Contents]
    /\ altGrid \in [RowIds -> Contents]
    /\ altActive \in BOOLEAN
CursorType == curRow \in RowIds /\ curCol \in ColIds /\ cursorVisible \in BOOLEAN
RenderType ==
    /\ renderedGrid \in [RowIds -> Contents \cup {Unknown}]
    /\ renderedCursor \in [row : RowIds \cup {Nowhere}, col : ColIds \cup {Nowhere},
                           visible : BOOLEAN]
    /\ renderedOffset \in (0..Lines) \cup {Nowhere}
    /\ canvas \in [RowIds -> [line : Contents \cup {Unknown}, cursor : ColIds \cup {Nowhere}]]

Typed == GridType /\ CursorType /\ RingTypeOK /\ RenderType /\ upToDate \in BOOLEAN

LEMMA TypeGroups == (TypeOK <=> Typed) /\ (TypeOK' <=> Typed')
  BY DEF TypeOK, Typed, GridType, CursorType, RenderType

\* A group that a step leaves alone keeps its type.
LEMMA TypesStay ==
    /\ GridType /\ UNCHANGED gridVars => GridType'
    /\ CursorType /\ UNCHANGED cursorVars => CursorType'
    /\ RingTypeOK /\ UNCHANGED ringVars => RingTypeOK'
    /\ RenderType /\ UNCHANGED renderVars => RenderType'
<1>1. GridType /\ UNCHANGED gridVars => GridType'
  BY DEF GridType, gridVars
<1>2. CursorType /\ UNCHANGED cursorVars => CursorType'
  BY DEF CursorType, cursorVars
<1>3. RingTypeOK /\ UNCHANGED ringVars => RingTypeOK'
  BY DEF RingTypeOK, ringVars
<1>4. RenderType /\ UNCHANGED renderVars => RenderType'
  BY DEF RenderType, renderVars
<1> QED
  BY <1>1, <1>2, <1>3, <1>4

\* terminal_create() builds a well typed terminal.
LEMMA InitType == Init => TypeOK
<1> SUFFICES ASSUME Init PROVE TypeOK
  OBVIOUS
<1>1. /\ Rows \in Nat /\ Rows > 1 /\ Cols \in Nat /\ Cols > 0 /\ Lines \in Nat /\ Lines > 0
      /\ MaxPushes \in Nat /\ Blank \in Contents
  BY RowsAssumption, ColsAssumption, LinesAssumption, MaxPushesAssumption, ContentsAssumption
<1>2. GridType
  BY <1>1 DEF Init, GridType
<1>3. CursorType
  BY <1>1 DEF Init, CursorType, RowIds, ColIds
<1>4. RingTypeOK
  BY <1>1 DEF Init, RingTypeOK, Slots
<1>5. RenderType
  BY <1>1 DEF Init, RenderType
<1>6. upToDate \in BOOLEAN
  BY DEF Init
<1> QED
  BY <1>2, <1>3, <1>4, <1>5, <1>6, TypeGroups DEF Typed

\* A push keeps the ring a ring, and what it does to the view's offset.
LEMMA PushType ==
    ASSUME RingTypeOK, NEW line \in Contents, PushScrollback(line)
    PROVE  RingTypeOK'
<1>1. CASE altActive
  BY <1>1, TypesStay DEF PushScrollback
<1>2. CASE ~altActive
  <2>1. /\ Lines \in Nat /\ Lines > 0 /\ MaxPushes \in Nat /\ pushed \in 0..MaxPushes
        /\ count \in 0..Lines /\ scrollOffset \in 0..count /\ head \in Slots
        /\ scrollback \in [Slots -> Contents]
    BY LinesAssumption, MaxPushesAssumption DEF RingTypeOK
  <2>2. /\ pushed < MaxPushes
        /\ pushed' = pushed + 1
        /\ scrollback' = [scrollback EXCEPT ![head] = line]
        /\ head' = (head + 1) % Lines
        /\ count' = IF count < Lines THEN count + 1 ELSE count
        /\ scrollOffset' = IF scrollOffset = 0 THEN 0
                           ELSE IF scrollOffset + 1 > count' THEN count'
                           ELSE scrollOffset + 1
    BY <1>2, Zenon DEF PushScrollback
  <2>3. pushed' \in 0..MaxPushes
    BY <2>1, <2>2
  <2>4. scrollback' \in [Slots -> Contents]
    BY <2>1, <2>2
  <2>5. head' \in Slots
    <3>1. 1 \in 1..Lines
      BY <2>1
    <3> QED
      BY <2>1, <2>2, <3>1, BackInRing
  <2>6. count' \in 0..Lines /\ scrollOffset' \in 0..count'
    BY <2>1, <2>2
  <2> QED
    BY <2>3, <2>4, <2>5, <2>6 DEF RingTypeOK
<1> QED
  BY <1>1, <1>2

\* The current grid is replaced by another.
LEMMA SetGridType ==
    ASSUME GridType, NEW g \in [RowIds -> Contents], SetGrid(g), altActive' = altActive
    PROVE  GridType'
  BY DEF GridType, SetGrid

\* Every step keeps the types.
LEMMA StepType == TypeOK /\ [Next]_vars => TypeOK'
<1> SUFFICES ASSUME TypeOK, [Next]_vars PROVE TypeOK'
  OBVIOUS
<1> USE TypesStay DEF Typed
<1>1. GridType /\ CursorType /\ RingTypeOK /\ RenderType /\ upToDate \in BOOLEAN
  BY TypeGroups
<1>0. upToDate' \in BOOLEAN
  BY <1>1, Zenon DEF Next, Write, MoveCursor, SetCursorVisible, ScrollRegionUp, ClearAll, EnterAlt,
                    LeaveAlt, TerminalScroll, TerminalRender, vars
<1>2. Grid \in [RowIds -> Contents] /\ \A r \in RowIds : DisplayRow(r) \in Contents
  BY RowType
<1>3. /\ Rows \in Nat /\ Rows > 1 /\ Cols \in Nat /\ Cols > 0 /\ Lines \in Nat /\ Lines > 0
      /\ Blank \in Contents
  BY RowsAssumption, ColsAssumption, LinesAssumption, ContentsAssumption
<1>4. ASSUME NEW line \in Contents, Write(line) PROVE TypeOK'
  <2>1. GridType'
    <3>1. [Grid EXCEPT ![curRow] = line] \in [RowIds -> Contents]
      BY <1>2
    <3> QED
      BY <1>0, <1>1, <1>4, <3>1, SetGridType DEF Write
  <2> QED
    BY <1>0, <1>1, <1>4, <2>1, TypeGroups DEF Write
<1>5. ASSUME NEW r \in RowIds, NEW col \in ColIds, MoveCursor(r, col) PROVE TypeOK'
  <2>1. CursorType'
    BY <1>0, <1>1, <1>5 DEF MoveCursor, CursorType
  <2> QED
    BY <1>0, <1>1, <1>5, <2>1, TypeGroups DEF MoveCursor
<1>6. ASSUME NEW visible \in BOOLEAN, SetCursorVisible(visible) PROVE TypeOK'
  <2>1. CursorType'
    BY <1>0, <1>1, <1>6 DEF SetCursorVisible, CursorType
  <2> QED
    BY <1>0, <1>1, <1>6, <2>1, TypeGroups DEF SetCursorVisible
<1>7. ASSUME NEW top \in RowIds, NEW bottom \in RowIds, ScrollRegionUp(top, bottom) PROVE TypeOK'
  <2>1. RingTypeOK'
    <3>1. Grid[0] \in Contents
      BY <1>2, <1>3 DEF RowIds
    <3> QED
      BY <1>0, <1>1, <1>7, <3>1, PushType DEF ScrollRegionUp
  <2>2. GridType'
    <3> DEFINE g == [r \in RowIds |-> IF r \in top..(bottom - 1) THEN Grid[r + 1]
                                      ELSE IF r = bottom THEN Blank ELSE Grid[r]]
    <3>1. \A r \in RowIds : r \in top..(bottom - 1) => r + 1 \in RowIds
      BY <1>3, <1>7 DEF RowIds
    <3>2. g \in [RowIds -> Contents]
      BY <1>2, <1>3, <3>1
    <3>3. SetGrid(g) /\ altActive' = altActive
      BY <1>7 DEF ScrollRegionUp
    <3> HIDE DEF g
    <3> QED
      BY <1>0, <1>1, <3>2, <3>3, SetGridType
  <2> QED
    BY <1>0, <1>1, <1>7, <2>1, <2>2, TypeGroups DEF ScrollRegionUp
<1>8. CASE ClearAll
  <2>1. GridType'
    <3>1. [r \in RowIds |-> Blank] \in [RowIds -> Contents]
      BY <1>3
    <3> QED
      BY <1>0, <1>1, <1>8, <3>1, SetGridType DEF ClearAll
  <2> QED
    BY <1>0, <1>1, <1>8, <2>1, TypeGroups DEF ClearAll
<1>9. CASE EnterAlt
  <2>1. GridType'
    BY <1>0, <1>1, <1>3, <1>9 DEF EnterAlt, GridType
  <2>2. CursorType'
    BY <1>0, <1>1, <1>3, <1>9 DEF EnterAlt, CursorType, RowIds, ColIds
  <2> QED
    BY <1>0, <1>1, <1>9, <2>1, <2>2, TypeGroups DEF EnterAlt
<1>10. CASE LeaveAlt
  <2>1. GridType'
    BY <1>0, <1>1, <1>10 DEF LeaveAlt, GridType
  <2> QED
    BY <1>0, <1>1, <1>10, <2>1, TypeGroups DEF LeaveAlt
<1>11. ASSUME NEW delta \in -Lines..Lines, TerminalScroll(delta) PROVE TypeOK'
  <2>1. RingTypeOK'
    BY <1>0, <1>1, <1>3, <1>11 DEF TerminalScroll, RingTypeOK
  <2> QED
    BY <1>0, <1>1, <1>11, <2>1, TypeGroups DEF TerminalScroll
<1>12. CASE TerminalRender
  <2>1. RenderType'
    <3>1. CASE NothingChanged
      BY <1>0, <1>1, <1>12, <3>1 DEF TerminalRender
    <3>2. CASE ~NothingChanged
      <4>1. renderedGrid' \in [RowIds -> Contents \cup {Unknown}]
        BY <1>0, <1>1, <1>2, <1>12, <3>2 DEF TerminalRender, RenderType
      <4>2. ShowCursor \in BOOLEAN
        BY Zenon DEF ShowCursor
      <4>3. renderedCursor' \in [row : RowIds \cup {Nowhere}, col : ColIds \cup {Nowhere},
                                 visible : BOOLEAN]
        BY <1>0, <1>1, <1>12, <3>2, <4>2 DEF TerminalRender, CursorType
      <4>4. renderedOffset' \in (0..Lines) \cup {Nowhere}
        BY <1>0, <1>1, <1>3, <1>12, <3>2 DEF TerminalRender, RingTypeOK
      <4>5. canvas' \in [RowIds -> [line : Contents \cup {Unknown}, cursor : ColIds \cup {Nowhere}]]
        BY <1>0, <1>1, <1>2, <1>12, <3>2 DEF TerminalRender, RenderType, CursorType
      <4> QED
        BY <4>1, <4>3, <4>4, <4>5 DEF RenderType
    <3> QED
      BY <3>1, <3>2
  <2> QED
    BY <1>0, <1>1, <1>12, <2>1, TypeGroups DEF TerminalRender
<1>13. CASE UNCHANGED vars
  BY <1>0, <1>1, <1>13, TypeGroups DEF vars
<1> QED
  BY <1>4, <1>5, <1>6, <1>7, <1>8, <1>9, <1>10, <1>11, <1>12, <1>13 DEF Next

\* Theorem: every variable of the terminal keeps its type; the ring's head and
\* count stay within the ring and the view within the lines that are there
\* (terminal.c:230-248, 196-202), for a screen and a scrollback of any size.
THEOREM ScreenTypeCorrect == Spec => []TypeOK
  BY InitType, StepType, PTL DEF Spec

-----------------------------------------------------------------------------
(* The alternate screen. *)

\* While a program is on the alternate screen, no step touches the rows of the
\* main screen or the scrollback.
LEMMA AltStep ==
    ASSUME [Next]_vars, altActive
    PROVE  mainGrid' = mainGrid /\ scrollback' = scrollback /\ count' = count
<1> USE DEF gridVars, cursorVars, ringVars, renderVars
<1>1. ASSUME NEW g, SetGrid(g) PROVE mainGrid' = mainGrid
  BY <1>1 DEF SetGrid
<1>2. ASSUME NEW line \in Contents, Write(line)
      PROVE  mainGrid' = mainGrid /\ scrollback' = scrollback /\ count' = count
  BY <1>1, <1>2 DEF Write
<1>3. ASSUME NEW top \in RowIds, NEW bottom \in RowIds, ScrollRegionUp(top, bottom)
      PROVE  mainGrid' = mainGrid /\ scrollback' = scrollback /\ count' = count
  <2>1. mainGrid' = mainGrid
    BY <1>1, <1>3, Zenon DEF ScrollRegionUp
  <2>2. UNCHANGED ringVars
    BY <1>3, Zenon DEF ScrollRegionUp, PushScrollback
  <2> QED
    BY <2>1, <2>2
<1>4. CASE ClearAll
  BY <1>1, <1>4, Zenon DEF ClearAll
<1>5. CASE EnterAlt \/ LeaveAlt \/ TerminalRender \/ UNCHANGED vars
  BY <1>5 DEF EnterAlt, LeaveAlt, TerminalRender, vars
<1>6. CASE \/ \E r \in RowIds, col \in ColIds : MoveCursor(r, col)
           \/ \E visible \in BOOLEAN : SetCursorVisible(visible)
           \/ \E delta \in -Lines..Lines : TerminalScroll(delta)
  BY <1>6 DEF MoveCursor, SetCursorVisible, TerminalScroll
<1> QED
  BY <1>2, <1>3, <1>4, <1>5, <1>6 DEF Next

\* Theorem: a program on the alternate screen leaves the main screen and the
\* scrollback as they were (terminal.h:24-26, terminal.c:232-234).
THEOREM ScreenAltIsolated == Spec => AltScreenIsolated
<1>1. [Next]_vars
         => [altActive => mainGrid' = mainGrid /\ scrollback' = scrollback /\ count' = count]_vars
  BY AltStep, Zenon
<1> QED
  BY <1>1, PTL DEF Spec, AltScreenIsolated

-----------------------------------------------------------------------------
(* The canvas.  From the first render on it shows rendered_grid and the      *)
(* cursor block of rendered_cursor_*, whatever has changed since: the bytes  *)
(* that terminal_render() compares with are what is drawn.                   *)

Drawn == [r \in RowIds |-> [line |-> renderedGrid[r],
                            cursor |-> IF renderedCursor.visible /\ r = renderedCursor.row
                                       THEN renderedCursor.col ELSE Nowhere]]

\* What was compared is what is drawn, and after a render it is the view.
RenderInv ==
    /\ renderedOffset # Nowhere => canvas = Drawn
    /\ upToDate =>
          /\ renderedOffset = scrollOffset
          /\ \A r \in RowIds : renderedGrid[r] = DisplayRow(r)
          /\ renderedCursor = [row |-> curRow, col |-> curCol, visible |-> ShowCursor]

\* Everything but a render leaves the canvas alone and marks it out of date.
LEMMA OtherStep ==
    ASSUME [Next]_vars, ~TerminalRender
    PROVE  UNCHANGED vars \/ (UNCHANGED renderVars /\ ~upToDate')
<1>1. CASE UNCHANGED vars
  BY <1>1
<1>2. CASE Next
  <2>1. UNCHANGED renderVars
    BY <1>2 DEF Next, Write, MoveCursor, SetCursorVisible, ScrollRegionUp, ClearAll, EnterAlt,
                LeaveAlt, TerminalScroll
  <2>2. upToDate' = FALSE
    BY <1>2, Zenon DEF Next, Write, MoveCursor, SetCursorVisible, ScrollRegionUp, ClearAll,
                EnterAlt, LeaveAlt, TerminalScroll
  <2> QED
    BY <2>1, <2>2, Zenon
<1> QED
  BY <1>1, <1>2

\* A render changes nothing of what it draws.
LEMMA RenderKeepsView ==
    ASSUME TerminalRender
    PROVE  /\ scrollOffset' = scrollOffset /\ curRow' = curRow /\ curCol' = curCol
           /\ ShowCursor' = ShowCursor
           /\ \A r \in RowIds : DisplayRow(r)' = DisplayRow(r)
<1> USE DEF TerminalRender, gridVars, cursorVars, ringVars
<1>1. scrollOffset' = scrollOffset /\ curRow' = curRow /\ curCol' = curCol
  OBVIOUS
<1>2. ShowCursor' = ShowCursor
  BY Zenon DEF ShowCursor
<1>3. Grid' = Grid /\ count' = count /\ head' = head /\ scrollback' = scrollback
  BY DEF Grid
<1>4. \A r \in RowIds : DisplayRow(r)' = DisplayRow(r)
  BY <1>1, <1>3, Zenon DEF DisplayRow
<1> QED
  BY <1>1, <1>2, <1>4

\* A render draws whatever differs from what is drawn.
LEMMA RenderStep ==
    ASSUME TypeOK, RenderInv, TerminalRender
    PROVE  RenderInv'
<1>1. /\ scrollOffset' = scrollOffset /\ curRow' = curRow /\ curCol' = curCol
      /\ ShowCursor' = ShowCursor
      /\ \A r \in RowIds : DisplayRow(r)' = DisplayRow(r)
  BY RenderKeepsView
<1>2. /\ scrollOffset # Nowhere /\ curRow \in RowIds
      /\ canvas \in [RowIds -> [line : Contents \cup {Unknown}, cursor : ColIds \cup {Nowhere}]]
      /\ renderedGrid \in [RowIds -> Contents \cup {Unknown}]
      /\ renderedCursor \in [row : RowIds \cup {Nowhere}, col : ColIds \cup {Nowhere},
                             visible : BOOLEAN]
  BY DEF TypeOK, RingTypeOK, Nowhere
<1>3. CASE NothingChanged
  <2>1. UNCHANGED renderVars
    BY <1>3 DEF TerminalRender
  <2>2. renderedOffset = scrollOffset /\ canvas = Drawn
    BY <1>2, <1>3 DEF NothingChanged, ScrollChanged, RenderInv
  <2>3. \A r \in RowIds : renderedGrid[r] = DisplayRow(r)
    BY <1>3 DEF NothingChanged, RowUnchanged
  <2>4. renderedCursor.row = curRow /\ renderedCursor.col = curCol
    BY <1>3 DEF NothingChanged, CursorChanged
  <2>5. renderedCursor.visible = ShowCursor
    BY <1>3, Zenon DEF NothingChanged, CursorChanged
  <2>6. renderedCursor = [row |-> curRow, col |-> curCol, visible |-> ShowCursor]
    BY <1>2, <2>4, <2>5
  <2>7. canvas' = Drawn'
    BY <2>1, <2>2 DEF renderVars, Drawn
  <2>8. /\ renderedOffset' = scrollOffset'
        /\ \A r \in RowIds : renderedGrid'[r] = DisplayRow(r)'
    BY <1>1, <2>1, <2>2, <2>3 DEF renderVars
  <2>9. renderedCursor' = [row |-> curRow', col |-> curCol', visible |-> ShowCursor']
    BY <1>1, <2>1, <2>6, Zenon DEF renderVars
  <2> QED
    BY <2>7, <2>8, <2>9, Zenon DEF RenderInv
<1>4. CASE ~NothingChanged
  <2>1. /\ renderedGrid' = [r \in RowIds |-> IF r \in Redrawn THEN DisplayRow(r)
                                             ELSE renderedGrid[r]]
        /\ canvas' = [r \in RowIds |->
                         [line |-> IF r \in Redrawn THEN DisplayRow(r) ELSE canvas[r].line,
                          cursor |-> IF ShowCursor /\ r = curRow THEN curCol
                                     ELSE IF r \in Redrawn THEN Nowhere
                                     ELSE canvas[r].cursor]]
        /\ renderedCursor' = [row |-> curRow, col |-> curCol, visible |-> ShowCursor]
        /\ renderedOffset' = scrollOffset
    BY <1>4, Zenon DEF TerminalRender
  <2>2. ASSUME NEW r \in RowIds
        PROVE  /\ renderedGrid'[r] = DisplayRow(r)
               /\ canvas'[r] = [line |-> DisplayRow(r),
                                cursor |-> IF ShowCursor /\ r = curRow THEN curCol ELSE Nowhere]
    <3>1. CASE r \in Redrawn
      BY <2>1, <3>1
    <3>2. CASE r \notin Redrawn
      <4>1. /\ ~ScrollChanged /\ r # curRow /\ r # renderedCursor.row
            /\ DisplayRow(r) = renderedGrid[r]
        BY <3>2 DEF Redrawn, RowUnchanged
      <4>2. canvas = Drawn
        BY <1>2, <4>1 DEF ScrollChanged, RenderInv
      <4>3. canvas[r].line = renderedGrid[r] /\ canvas[r].cursor = Nowhere
        BY <4>1, <4>2 DEF Drawn
      <4> QED
        BY <2>1, <3>2, <4>1, <4>3
    <3> QED
      BY <3>1, <3>2
  <2>3. Drawn' = [r \in RowIds |->
                     [line |-> renderedGrid'[r],
                      cursor |-> IF renderedCursor'.visible /\ r = renderedCursor'.row
                                 THEN renderedCursor'.col ELSE Nowhere]]
    BY Zenon DEF Drawn
  <2>4. /\ renderedCursor'.row = curRow /\ renderedCursor'.col = curCol
        /\ renderedCursor'.visible = ShowCursor
    BY <2>1
  <2>5. Drawn' = [r \in RowIds |->
                     [line |-> renderedGrid'[r],
                      cursor |-> IF ShowCursor /\ r = curRow THEN curCol ELSE Nowhere]]
    BY <2>3, <2>4, Zenon
  <2>6. \A r \in RowIds : canvas'[r] = Drawn'[r]
    BY <2>2, <2>5
  <2>7. canvas' = [r \in RowIds |-> canvas'[r]] /\ Drawn' = [r \in RowIds |-> Drawn'[r]]
    BY <2>1, <2>5
  <2>8. canvas' = Drawn'
    BY <2>6, <2>7
  <2>9. renderedOffset' = scrollOffset' /\ \A r \in RowIds : renderedGrid'[r] = DisplayRow(r)'
    BY <1>1, <2>1, <2>2
  <2>10. renderedCursor' = [row |-> curRow', col |-> curCol', visible |-> ShowCursor']
    BY <1>1, <2>1, Zenon
  <2> QED
    BY <2>8, <2>9, <2>10, Zenon DEF RenderInv
<1> QED
  BY <1>3, <1>4

\* Every step keeps the relation between the canvas and what is compared.
LEMMA StepRender == TypeOK /\ RenderInv /\ [Next]_vars => RenderInv'
<1> SUFFICES ASSUME TypeOK, RenderInv, [Next]_vars PROVE RenderInv'
  OBVIOUS
<1>1. CASE TerminalRender
  BY <1>1, RenderStep
<1>2. CASE ~TerminalRender
  <2>1. CASE UNCHANGED vars
    <3>1. Drawn' = Drawn /\ ShowCursor' = ShowCursor
      BY <2>1, Zenon DEF vars, renderVars, cursorVars, ringVars, Drawn, ShowCursor
    <3>2. \A r \in RowIds : DisplayRow(r)' = DisplayRow(r)
      BY <2>1 DEF vars, ringVars, gridVars, DisplayRow, Grid
    <3>3. UNCHANGED <<renderedOffset, canvas, upToDate, scrollOffset, renderedGrid, renderedCursor,
                      curRow, curCol>>
      BY <2>1 DEF vars, renderVars, cursorVars, ringVars
    <3> QED
      BY <3>1, <3>2, <3>3, Zenon DEF RenderInv
  <2>2. CASE UNCHANGED renderVars /\ ~upToDate'
    <3>1. Drawn' = Drawn /\ canvas' = canvas /\ renderedOffset' = renderedOffset
      BY <2>2 DEF renderVars, Drawn
    <3> QED
      BY <2>2, <3>1, Zenon DEF RenderInv
  <2> QED
    BY <1>2, <2>1, <2>2, OtherStep
<1> QED
  BY <1>1, <1>2

\* Theorem: after a render the canvas shows every row of the view and the
\* cursor, and nothing else, however few rows were drawn again
\* (terminal.c:67-72, 595-712).
THEOREM ScreenCanvasComplete == Spec => []CanvasComplete
<1>1. Init => RenderInv
  BY Zenon DEF Init, RenderInv
<1>2. TypeOK /\ RenderInv => CanvasComplete
  <2> SUFFICES ASSUME TypeOK, RenderInv, upToDate PROVE canvas = Picture
    BY DEF CanvasComplete
  <2>1. /\ renderedOffset = scrollOffset
        /\ \A r \in RowIds : renderedGrid[r] = DisplayRow(r)
        /\ renderedCursor = [row |-> curRow, col |-> curCol, visible |-> ShowCursor]
    BY Zenon DEF RenderInv
  <2>2. canvas = Drawn
    BY <2>1 DEF RenderInv, TypeOK, RingTypeOK, Nowhere
  <2>3. /\ renderedCursor.row = curRow /\ renderedCursor.col = curCol
        /\ renderedCursor.visible = ShowCursor
    BY <2>1
  <2>4. Drawn = [r \in RowIds |-> [line |-> renderedGrid[r],
                                   cursor |-> IF ShowCursor /\ r = curRow
                                              THEN curCol ELSE Nowhere]]
    BY <2>3, Zenon DEF Drawn
  <2> QED
    BY <2>1, <2>2, <2>4 DEF Picture
<1> QED
  BY <1>1, <1>2, InitType, StepType, StepRender, PTL DEF Spec

-----------------------------------------------------------------------------
(* The history.                                                              *)

\* What a step that pushes a line does to the ring: only a scroll of the full
\* main screen pushes, it pushes the top row, and every retained line keeps its
\* slot but the oldest of a full ring.
LEMMA PushStep ==
    ASSUME TypeOK, [Next]_vars, pushed' # pushed
    PROVE  /\ \E line \in Contents : PushScrollback(line) /\ scrollback'[head] = line
           /\ pushed' = pushed + 1
           /\ head' = (head + 1) % Lines
           /\ count' = IF count < Lines THEN count + 1 ELSE count
           /\ scrollOffset' = IF scrollOffset = 0 THEN 0
                              ELSE IF scrollOffset + 1 > count' THEN count'
                              ELSE scrollOffset + 1
           /\ \A i \in Slots \ {head} : scrollback'[i] = scrollback[i]
<1> USE DEF ringVars
<1>1. \E top, bottom \in RowIds : ScrollRegionUp(top, bottom)
  BY DEF Next, Write, MoveCursor, SetCursorVisible, ClearAll, EnterAlt, LeaveAlt, TerminalScroll,
         TerminalRender, vars
<1>2. PushScrollback(Grid[0])
  BY <1>1 DEF ScrollRegionUp
<1>3. ~altActive
  BY <1>2, Zenon DEF PushScrollback
<1>4. /\ pushed' = pushed + 1
      /\ scrollback' = [scrollback EXCEPT ![head] = Grid[0]]
      /\ head' = (head + 1) % Lines
      /\ count' = IF count < Lines THEN count + 1 ELSE count
      /\ scrollOffset' = IF scrollOffset = 0 THEN 0
                         ELSE IF scrollOffset + 1 > count' THEN count'
                         ELSE scrollOffset + 1
  BY <1>2, <1>3, Zenon DEF PushScrollback
<1>5. /\ scrollback'[head] = Grid[0]
      /\ \A i \in Slots \ {head} : scrollback'[i] = scrollback[i]
  BY <1>4 DEF TypeOK, RingTypeOK
<1>6. Grid[0] \in Contents
  BY RowType, RowsAssumption DEF RowIds
<1> QED
  BY <1>2, <1>4, <1>5, <1>6

\* The rows of the view that come from the ring, before a step and after it.
LEMMA RingRows ==
    TypeOK => \A r \in RowIds :
                 r < scrollOffset => DisplayRow(r) = scrollback[Back(head, scrollOffset - r)]
  BY RowSource

LEMMA RingRowsNext ==
    (TypeOK => \A r \in RowIds :
                 r < scrollOffset => DisplayRow(r) = scrollback[Back(head, scrollOffset - r)])'
  BY RingRows, PTL

\* Theorem: a line of history on display stays in its row while the remote
\* writes, unless it was the oldest and the ring was full
\* (terminal.c:217-228, 240-247).
THEOREM ScreenViewStays == Spec => HistoryViewStays
<1>1. TypeOK /\ [Next]_vars
         => [pushed' # pushed /\ scrollOffset \in 1..(Lines - 1)
               => \A r \in RowIds : r < scrollOffset => DisplayRow(r)' = DisplayRow(r)]_vars
  <2> SUFFICES ASSUME TypeOK, [Next]_vars, pushed' # pushed, scrollOffset \in 1..(Lines - 1),
                      NEW r \in RowIds, r < scrollOffset
               PROVE  DisplayRow(r)' = DisplayRow(r)
    OBVIOUS
  <2>1. /\ Lines \in Nat /\ Lines > 0 /\ head \in Slots /\ count \in 0..Lines
        /\ scrollOffset \in 0..count /\ r \in Nat
    BY LinesAssumption DEF TypeOK, RingTypeOK, RowIds
  <2>2. /\ head' = (head + 1) % Lines
        /\ scrollOffset' = scrollOffset + 1
        /\ \A i \in Slots \ {head} : scrollback'[i] = scrollback[i]
    BY <2>1, PushStep
  <2> DEFINE k == scrollOffset - r
  <2>3. k \in 1..(Lines - 1) /\ k \in 1..Lines /\ scrollOffset' - r = k + 1 /\ r < scrollOffset'
    BY <2>1, <2>2
  <2>4. TypeOK'
    BY StepType
  <2>5. DisplayRow(r)' = scrollback'[Back(head', k + 1)]
    BY <2>3, <2>4, RingRowsNext
  <2>6. DisplayRow(r) = scrollback[Back(head, k)]
    BY RowSource
  <2> HIDE DEF k
  <2>7. Back(head', k + 1) = Back(head, k) /\ Back(head, k) \in Slots \ {head}
    BY <2>1, <2>2, <2>3, BackInRing
  <2> QED
    BY <2>2, <2>5, <2>6, <2>7
<1> QED
  BY <1>1, InitType, StepType, PTL DEF Spec, HistoryViewStays

-----------------------------------------------------------------------------
(* The refinement of History.                                                *)

\* The retained lines, as many writes back as they are from the newest.
LEMMA RetainedLines ==
    TypeOK => /\ Retained \in Seq(Contents) /\ Len(Retained) = count
              /\ \A i \in 1..count : Retained[i] = scrollback[Back(head, count - i + 1)]
<1> SUFFICES ASSUME TypeOK
             PROVE  /\ Retained \in Seq(Contents) /\ Len(Retained) = count
                    /\ \A i \in 1..count : Retained[i] = scrollback[Back(head, count - i + 1)]
  OBVIOUS
<1>1. /\ Lines \in Nat /\ Lines > 0 /\ head \in 0..(Lines - 1) /\ head \in Slots
      /\ count \in 0..Lines /\ scrollback \in [Slots -> Contents]
  BY LinesAssumption DEF TypeOK, RingTypeOK, Slots
<1>2. ASSUME NEW i \in 1..count
      PROVE  /\ (head - count + i - 1 + Lines) % Lines = Back(head, count - i + 1)
             /\ scrollback[Back(head, count - i + 1)] \in Contents
  <2>1. (head - count + i - 1 + Lines) % Lines = Back(head, count - i + 1)
    <3>1. CASE head >= count - i + 1
      <4>1. head - count + i - 1 + Lines \in Lines..(2 * Lines - 1)
        BY <1>1, <3>1
      <4> QED
        BY <1>1, <3>1, <4>1, Wrap DEF Back
    <3>2. CASE ~(head >= count - i + 1)
      <4>1. head - count + i - 1 + Lines \in 0..(Lines - 1)
        BY <1>1, <3>2
      <4> QED
        BY <1>1, <3>2, <4>1, Wrap DEF Back
    <3> QED
      BY <3>1, <3>2
  <2>2. count - i + 1 \in 1..Lines
    BY <1>1
  <2>3. Back(head, count - i + 1) \in Slots
    BY <1>1, <2>2, BackInRing
  <2> QED
    BY <1>1, <2>1, <2>3
<1>3. Retained = [i \in 1..count |-> scrollback[Back(head, count - i + 1)]]
  BY <1>2 DEF Retained
<1>4. Retained \in [1..count -> Contents]
  BY <1>2, <1>3
<1>5. count \in Nat
  BY <1>1
<1> QED
  BY <1>3, <1>4, <1>5

LEMMA RetainedLinesNext ==
    (TypeOK => /\ Retained \in Seq(Contents) /\ Len(Retained) = count
               /\ \A i \in 1..count : Retained[i] = scrollback[Back(head, count - i + 1)])'
  BY RetainedLines, PTL

\* A line that leaves the screen is appended to the history; when the ring is
\* full the oldest line makes room for it, and a view that is scrolled back
\* stays on its line or on the oldest one.
LEMMA PushImplements ==
    ASSUME TypeOK, [Next]_vars, pushed' # pushed
    PROVE  \E line \in Contents : Hist!Push(line)
<1>1. PICK line \in Contents : PushScrollback(line) /\ scrollback'[head] = line
  BY PushStep
<1>2. /\ pushed' = pushed + 1
      /\ head' = (head + 1) % Lines
      /\ count' = IF count < Lines THEN count + 1 ELSE count
      /\ scrollOffset' = IF scrollOffset = 0 THEN 0
                         ELSE IF scrollOffset + 1 > count' THEN count'
                         ELSE scrollOffset + 1
      /\ \A i \in Slots \ {head} : scrollback'[i] = scrollback[i]
  BY PushStep
<1>3. TypeOK'
  BY StepType
<1>4. /\ Lines \in Nat /\ Lines > 0 /\ head \in Slots /\ count \in 0..Lines
      /\ scrollOffset \in 0..count /\ pushed \in Nat
  BY LinesAssumption, MaxPushesAssumption DEF TypeOK, RingTypeOK
<1>5. /\ Retained \in Seq(Contents) /\ Len(Retained) = count
      /\ \A i \in 1..count : Retained[i] = scrollback[Back(head, count - i + 1)]
  BY RetainedLines
<1>6. /\ Retained' \in Seq(Contents) /\ Len(Retained') = count'
      /\ \A i \in 1..count' : Retained'[i] = scrollback'[Back(head', count' - i + 1)]
  BY <1>3, RetainedLinesNext
<1> DEFINE all == Append(Retained, line)
<1>7. /\ all \in Seq(Contents) /\ Len(all) = count + 1 /\ all[count + 1] = line
      /\ \A i \in 1..count : all[i] = Retained[i]
  BY <1>5, AppendProperties
<1> HIDE DEF all
<1>8. \A k \in 1..(Lines - 1) : scrollback'[Back(head', k + 1)] = scrollback[Back(head, k)]
  BY <1>2, <1>4, BackInRing
<1>9. scrollback'[Back(head', 1)] = line
  <2>1. 1 \in 1..Lines
    BY <1>4
  <2> QED
    BY <1>1, <1>2, <1>4, <2>1, BackInRing
<1>10. Retained' = IF Len(all) > Lines THEN Tail(all) ELSE all
  <2>1. CASE count < Lines
    <3>1. count' = count + 1 /\ ~(Len(all) > Lines)
      BY <1>2, <1>4, <1>7, <2>1
    <3>2. ASSUME NEW i \in 1..(count + 1) PROVE Retained'[i] = all[i]
      <4>1. CASE i = count + 1
        BY <1>4, <1>6, <1>7, <1>9, <3>1, <4>1
      <4>2. CASE i # count + 1
        <5> DEFINE k == count - i + 1
        <5>1. i \in 1..count /\ k \in 1..(Lines - 1) /\ count' - i + 1 = k + 1
          BY <1>4, <2>1, <3>1, <4>2
        <5>2. Retained'[i] = scrollback'[Back(head', k + 1)]
          BY <1>6, <3>1, <5>1
        <5>3. all[i] = scrollback[Back(head, k)]
          BY <1>5, <1>7, <5>1
        <5> QED
          BY <1>8, <5>1, <5>2, <5>3
      <4> QED
        BY <4>1, <4>2
    <3>3. Retained' = all
      BY <1>6, <1>7, <3>1, <3>2, SeqEqual
    <3> QED
      BY <3>1, <3>3
  <2>2. CASE count = Lines
    <3>1. count' = count /\ Len(all) > Lines /\ all # <<>>
      BY <1>2, <1>4, <1>7, <2>2
    <3>2. /\ Tail(all) \in Seq(Contents) /\ Len(Tail(all)) = count
          /\ \A i \in 1..count : Tail(all)[i] = all[i + 1]
      BY <1>4, <1>7, <3>1, HeadTailProperties
    <3>3. ASSUME NEW i \in 1..count PROVE Retained'[i] = Tail(all)[i]
      <4>1. CASE i = count
        BY <1>4, <1>6, <1>7, <1>9, <3>1, <3>2, <4>1
      <4>2. CASE i # count
        <5> DEFINE k == count - i
        <5>1. i + 1 \in 1..count /\ k \in 1..(Lines - 1) /\ count' - i + 1 = k + 1
              /\ count - (i + 1) + 1 = k
          BY <1>4, <2>2, <3>1, <4>2
        <5>2. Retained'[i] = scrollback'[Back(head', k + 1)]
          BY <1>6, <3>1, <5>1
        <5>3. Tail(all)[i] = scrollback[Back(head, k)]
          BY <1>5, <1>7, <3>2, <5>1
        <5> QED
          BY <1>8, <5>1, <5>2, <5>3
      <4> QED
        BY <4>1, <4>2
    <3>4. Retained' = Tail(all)
      BY <1>6, <3>1, <3>2, <3>3, SeqEqual
    <3> QED
      BY <3>1, <3>4
  <2> QED
    BY <1>4, <2>1, <2>2
<1>11. (pushed - scrollOffset)' = IF pushed - scrollOffset = pushed THEN pushed'
                               ELSE IF pushed - scrollOffset < pushed' - Len(Retained')
                               THEN pushed' - Len(Retained')
                               ELSE pushed - scrollOffset
  BY <1>2, <1>4, <1>6
<1>12. Hist!Push(line)
  BY <1>2, <1>10, <1>11 DEF Hist!Push, all
<1> QED
  BY <1>12

\* A step that pushes nothing leaves the history alone; at most it moves the
\* view, within what is retained.
LEMMA OtherImplements ==
    ASSUME TypeOK, [Next]_vars, pushed' = pushed
    PROVE  Hist!Scroll \/ UNCHANGED <<pushed, Retained, pushed - scrollOffset>>
<1> USE DEF ringVars
<1>1. CASE \E delta \in -Lines..Lines : TerminalScroll(delta)
  <2>1. UNCHANGED <<pushed, scrollback, head, count>>
    BY <1>1 DEF TerminalScroll
  <2>2. Retained' = Retained
    BY <2>1, Zenon DEF Retained
  <2>3. TypeOK'
    BY StepType
  <2>4. pushed \in Nat /\ count \in Nat
    BY LinesAssumption, MaxPushesAssumption DEF TypeOK, RingTypeOK
  <2>5. scrollOffset' \in 0..count
    BY <2>1, <2>3 DEF TypeOK, RingTypeOK
  <2>6. pushed - scrollOffset' \in (pushed - count)..pushed
    <3>1. \A p, n \in Nat : \A x \in 0..n : p - x \in (p - n)..p
      OBVIOUS
    <3> QED
      BY <2>4, <2>5, <3>1
  <2>7. Len(Retained) = count
    BY RetainedLines
  <2> QED
    BY <2>1, <2>2, <2>6, <2>7 DEF Hist!Scroll, Hist!Oldest
<1>2. CASE UNCHANGED ringVars
  <2>1. UNCHANGED <<pushed, scrollback, head, count, scrollOffset>>
    BY <1>2
  <2>2. Retained' = Retained
    BY <2>1, Zenon DEF Retained
  <2> QED
    BY <2>1, <2>2
<1>3. ASSUME NEW top \in RowIds, NEW bottom \in RowIds, ScrollRegionUp(top, bottom)
      PROVE  UNCHANGED ringVars
  <2>1. pushed \in Nat
    BY MaxPushesAssumption DEF TypeOK, RingTypeOK
  <2>2. pushed' # pushed + 1
    BY <2>1
  <2> QED
    BY <1>3, <2>2, Zenon DEF ScrollRegionUp, PushScrollback
<1>4. CASE UNCHANGED vars
  BY <1>2, <1>4 DEF vars
<1> QED
  BY <1>1, <1>2, <1>3, <1>4 DEF Next, Write, MoveCursor, SetCursorVisible, ClearAll, EnterAlt,
                              LeaveAlt, TerminalRender

\* Theorem: the ring of terminal.c:230-248, read with the arithmetic of
\* terminal.c:217-228, implements the history that terminal.h:24-29 promises,
\* whatever its capacity: every step pushes a line, moves the view within what
\* is retained, or leaves the history alone.
THEOREM ScreenImplementsHistory == Spec => ImplementsHistory
<1>1. Init => Hist!Init
  <2> SUFFICES ASSUME Init PROVE Hist!Init
    OBVIOUS
  <2>1. TypeOK /\ pushed = 0 /\ scrollOffset = 0 /\ count = 0
    BY InitType DEF Init
  <2>2. Retained = <<>>
    BY <2>1, RetainedLines, EmptySeq, SeqEqual
  <2> QED
    BY <2>1, <2>2 DEF Hist!Init
<1>2. TypeOK /\ [Next]_vars => [Hist!Next]_<<pushed, Retained, pushed - scrollOffset>>
  <2> SUFFICES ASSUME TypeOK, [Next]_vars
               PROVE  Hist!Next \/ UNCHANGED <<pushed, Retained, pushed - scrollOffset>>
    OBVIOUS
  <2>1. CASE pushed' = pushed
    BY <2>1, OtherImplements DEF Hist!Next
  <2>2. CASE pushed' # pushed
    BY <2>2, PushImplements DEF Hist!Next
  <2> QED
    BY <2>1, <2>2
<1> QED
  BY <1>1, <1>2, InitType, StepType, PTL DEF Spec, ImplementsHistory, Hist!Spec
=============================================================================
