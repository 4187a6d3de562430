---------------------------- MODULE CursorProofs ----------------------------
(***************************************************************************)
(* Theorems about Cursor, for every size of the grid, every set of         *)
(* parameters an int can hold, and any number of sums that overflow.       *)
(***************************************************************************)
EXTENDS Cursor, TLAPS

USE RowsAssumption, ColsAssumption, TabStopAssumption, ParamsAssumption

-----------------------------------------------------------------------------
(* The arithmetic of the code. *)

\* A count is at least 1.
LEMMA CountRange == ASSUME NEW p \in Params PROVE Count(p) \in 1..IntMax
BY DEF Count

\* The sum of two ints is an int again, and the sum itself when that is one.
LEMMA IntOfRange ==
    ASSUME NEW x \in Int, -2 * IntMax - 2 <= x, x <= 2 * IntMax + 1
    PROVE  /\ IntOf(x) \in Ints
           /\ x \in Ints => IntOf(x) = x
BY DEF IntOf, Ints

\* A sum that overflows is counted.
LEMMA ComputesCounts ==
    ASSUME NEW x \in Int, TypeOK, Computes(x)
    PROVE  /\ overflows' \in 0..MaxOverflows /\ overflows <= overflows'
           /\ overflows' = overflows => x \in Ints
BY DEF Computes, TypeOK

\* A coordinate of the grid is an int.
LEMMA GridInts == RowIds \subseteq Ints /\ ColIds \subseteq Ints
BY DEF RowIds, ColIds, Ints

\* A position of CSI H or CSI r is clamped to the grid (terminal.c:433-436,
\* 449-452).
LEMMA PositionRange ==
    ASSUME NEW p \in Params, NEW high \in Nat
    PROVE  /\ AtMost(AtLeast(p - 1, 0), high) \in 0..high
           /\ AtLeast(p - 1, 0) \in Nat
BY DEF AtMost, AtLeast

\* The next tab stop is within one tab stop of an int (terminal.c:543).
LEMMA TabRange ==
    ASSUME NEW c \in Ints, c = curCol
    PROVE  /\ NextTabStop \in Int /\ -IntMax <= NextTabStop /\ NextTabStop <= 2 * IntMax
           /\ c \in ColIds => NextTabStop \in Nat
<1>. DEFINE q(x) == x \div TabStop
<1>1. \A x \in Nat : q(x) \in Nat /\ q(x) * TabStop \in Nat /\ q(x) * TabStop <= x
  BY Z3
<1>. HIDE DEF q
<1>2. CASE c >= 0
  <2>1. NextTabStop = (q(c) + 1) * TabStop
    BY <1>2 DEF NextTabStop, q
  <2>2. c \in Nat /\ c <= IntMax
    BY <1>2 DEF Ints
  <2>3. (q(c) + 1) * TabStop = q(c) * TabStop + TabStop
    BY <1>1, <2>2
  <2>. QED
    BY <1>1, <2>1, <2>2, <2>3
<1>3. CASE ~(c >= 0)
  <2>1. NextTabStop = (1 - q(-c)) * TabStop
    BY <1>3 DEF NextTabStop, q
  <2>2. -c \in Nat /\ -c <= IntMax + 1
    BY <1>3 DEF Ints
  <2>3. (1 - q(-c)) * TabStop = TabStop - q(-c) * TabStop
    BY <1>1, <2>2
  <2>4. q(-c) * TabStop \in Nat /\ q(-c) * TabStop <= IntMax + 1
    BY <1>1, <2>2
  <2>5. NextTabStop = TabStop - q(-c) * TabStop
    BY <2>1, <2>3
  <2>6. c \notin ColIds
    BY <1>3 DEF ColIds
  <2>. QED
    BY <2>4, <2>5, <2>6
<1>. QED
  BY <1>2, <1>3

\* The line feed stays in the grid, and in the region when it starts there.
LEMMA FeedRange ==
    ASSUME TypeOK
    PROVE  /\ RowAfterFeed \in Ints
           /\ curRow \in RowIds => RowAfterFeed \in RowIds
           /\ InRegion(curRow) => InRegion(RowAfterFeed)
           /\ ScrollsAtFeed => RowAfterFeed = curRow
           /\ InRegion(curRow) /\ ~ScrollsAtFeed => RowAfterFeed = curRow + 1
BY DEF TypeOK, RowAfterFeed, ScrollsAtFeed, InRegion, RowIds, Ints

\* The index of a cell of the grid is inside the array.
LEMMA CellsInside ==
    ASSUME NEW cells \in SUBSET Cells, Writes(cells) PROVE ~damaged'
<1>1. ASSUME NEW cell \in Cells PROVE Linear(cell) \in 0..(Rows * Cols - 1)
  <2>. DEFINE r == cell[1]  c == cell[2]
  <2>1. r \in Nat /\ c \in Nat /\ r <= Rows - 1 /\ c <= Cols - 1
    BY DEF Cells, RowIds, ColIds
  <2>. HIDE DEF r, c
  <2>2. r * Cols \in Nat /\ r * Cols <= (Rows - 1) * Cols
    BY <2>1, Z3
  <2>3. (Rows - 1) * Cols = Rows * Cols - Cols
    OBVIOUS
  <2>4. Linear(cell) = r * Cols + c
    BY DEF Linear, r, c
  <2>. QED
    BY <2>1, <2>2, <2>3, <2>4
<1>. QED
  BY <1>1 DEF Writes

-----------------------------------------------------------------------------
(* Type correctness. *)

\* The initial state is a state of the right type.
LEMMA InitType == Init => TypeOK
<1>. SUFFICES ASSUME Init PROVE TypeOK
  OBVIOUS
<1>1. /\ curRow \in Ints /\ curCol \in Ints /\ savedRow \in Ints /\ savedCol \in Ints
      /\ scrollTop \in RowIds /\ scrollBottom \in RowIds /\ scrollTop < scrollBottom
      /\ overflows \in 0..MaxOverflows
  BY DEF Init, RowIds, Ints
<1>2. /\ lastOp \in Ops
      /\ written \in (Ints \X Ints) \cup {NoCell} /\ entry \in (Ints \X Ints) \cup {NoCell}
  BY DEF Init, Ops
<1>3. scrolled \in {0, 1}
  BY DEF Init
<1>. QED
  BY <1>1, <1>2, <1>3 DEF Init, TypeOK

\* Control that moves the cursor keeps the types.
LEMMA MoveToType ==
    ASSUME TypeOK, NEW r \in Ints, NEW c \in Ints, MoveTo(r, c),
           lastOp' \in Ops, written' = NoCell, scrolled' \in {0, 1},
           overflows' \in 0..MaxOverflows, damaged' \in BOOLEAN
    PROVE  TypeOK'
BY DEF TypeOK, MoveTo, regionVars, savedVars

\* A step that adds to the cursor and clamps what comes out keeps the types.
LEMMA ComputedType ==
    ASSUME TypeOK, NEW x \in Int, -2 * IntMax - 2 <= x, x <= 2 * IntMax + 1, Computes(x)
    PROVE  /\ IntOf(x) \in Ints /\ overflows' \in 0..MaxOverflows
           /\ \A y \in Ints : AtMost(IntOf(x), y) \in Ints /\ AtLeast(IntOf(x), y) \in Ints
BY ComputesCounts, IntOfRange DEF AtMost, AtLeast

\* Every step keeps the types.
LEMMA StepType == TypeOK /\ [Next]_vars => TypeOK'
<1>. SUFFICES ASSUME TypeOK, [Next]_vars PROVE TypeOK'
  OBVIOUS
<1>t. /\ curRow \in Ints /\ curCol \in Ints /\ curRow \in Int /\ curCol \in Int
      /\ -IntMax - 1 <= curRow /\ curRow <= IntMax /\ -IntMax - 1 <= curCol /\ curCol <= IntMax
      /\ scrollTop \in Ints /\ scrollBottom \in Ints
      /\ 0 \in Ints /\ Cols - 1 \in Ints
      /\ overflows \in 0..MaxOverflows /\ damaged \in BOOLEAN
      /\ \A x \in RowIds : x \in Ints
      /\ \A x \in ColIds : x \in Ints
  BY DEF TypeOK, RowIds, ColIds, Ints
<1>o. "control" \in Ops /\ "vertical" \in Ops /\ "print" \in Ops /\ "position" \in Ops
  BY DEF Ops
<1>1. CASE PutChar
  <2>. DEFINE r == IF pendingWrap THEN RowAfterFeed ELSE curRow
              c == IF pendingWrap THEN 0 ELSE curCol
              next == IF c = Cols - 1 THEN c ELSE c + 1
  <2>1. /\ curRow' = r /\ curCol' = IntOf(next) /\ Computes(next)
        /\ pendingWrap' = (c = Cols - 1)
        /\ lastOp' = "print" /\ written' = <<r, c>> /\ Writes({<<r, c>>})
        /\ scrolled' = IF pendingWrap /\ ScrollsAtFeed THEN 1 ELSE 0
        /\ UNCHANGED <<regionVars, savedVars, altActive, entry>>
    BY <1>1 DEF PutChar
  <2>2. r \in Ints /\ c \in Ints
    BY <1>t, FeedRange
  <2>3. next \in Int /\ -2 * IntMax - 2 <= next /\ next <= 2 * IntMax + 1
    <3>. HIDE DEF r, c
    <3>. QED
      BY <2>2 DEF Ints
  <2>. HIDE DEF r, c, next
  <2>4. curCol' \in Ints /\ overflows' \in 0..MaxOverflows
    BY <2>1, <2>3, ComputedType
  <2>5. damaged' \in BOOLEAN /\ pendingWrap' \in BOOLEAN
    BY <2>1 DEF Writes
  <2>6. scrolled' \in {0, 1}
    BY <2>1
  <2>. QED
    BY <1>o, <2>1, <2>2, <2>4, <2>5, <2>6 DEF TypeOK, regionVars, savedVars
<1>2. CASE CarriageReturn
  BY <1>2, <1>t, <1>o, MoveToType DEF CarriageReturn, Mark, faultVars
<1>3. CASE LineFeed
  BY <1>3, <1>t, <1>o, FeedRange, MoveToType DEF LineFeed, faultVars
<1>4. CASE Backspace
  <2>1. (IF curCol > 0 THEN curCol - 1 ELSE curCol) \in Ints
    BY <1>t DEF Ints
  <2>. QED
    BY <1>4, <1>t, <1>o, <2>1, MoveToType DEF Backspace, Mark, faultVars
<1>5. CASE Tab
  <2>1. NextTabStop \in Int /\ -IntMax <= NextTabStop /\ NextTabStop <= 2 * IntMax
    BY <1>t, TabRange
  <2>2. AtMost(IntOf(NextTabStop), Cols - 1) \in Ints /\ overflows' \in 0..MaxOverflows
    BY <1>5, <1>t, <2>1, ComputedType DEF Tab
  <2>. QED
    BY <1>5, <1>t, <1>o, <2>2, MoveToType DEF Tab, Mark
<1>6. ASSUME NEW p \in Params, CursorUp(p) PROVE TypeOK'
  <2>1. AtLeast(IntOf(curRow - Count(p)), scrollTop) \in Ints /\ overflows' \in 0..MaxOverflows
    BY <1>6, <1>t, CountRange, ComputedType DEF CursorUp
  <2>. QED
    BY <1>6, <1>t, <1>o, <2>1, MoveToType DEF CursorUp, Mark
<1>7. ASSUME NEW p \in Params, CursorDown(p) PROVE TypeOK'
  <2>1. AtMost(IntOf(curRow + Count(p)), scrollBottom) \in Ints /\ overflows' \in 0..MaxOverflows
    BY <1>7, <1>t, CountRange, ComputedType DEF CursorDown
  <2>. QED
    BY <1>7, <1>t, <1>o, <2>1, MoveToType DEF CursorDown, Mark
<1>8. ASSUME NEW p \in Params, CursorForward(p) PROVE TypeOK'
  <2>1. AtMost(IntOf(curCol + Count(p)), Cols - 1) \in Ints /\ overflows' \in 0..MaxOverflows
    BY <1>8, <1>t, CountRange, ComputedType DEF CursorForward
  <2>. QED
    BY <1>8, <1>t, <1>o, <2>1, MoveToType DEF CursorForward, Mark
<1>9. ASSUME NEW p \in Params, CursorBack(p) PROVE TypeOK'
  <2>1. AtLeast(IntOf(curCol - Count(p)), 0) \in Ints /\ overflows' \in 0..MaxOverflows
    BY <1>9, <1>t, CountRange, ComputedType DEF CursorBack
  <2>. QED
    BY <1>9, <1>t, <1>o, <2>1, MoveToType DEF CursorBack, Mark
<1>10. ASSUME NEW p \in Params, NEW q \in Params, CursorPosition(p, q) PROVE TypeOK'
  <2>1. /\ AtMost(AtLeast(p - 1, 0), Rows - 1) \in Ints
        /\ AtMost(AtLeast(q - 1, 0), Cols - 1) \in Ints
    BY PositionRange, <1>t DEF RowIds, ColIds
  <2>. QED
    BY <1>10, <1>t, <1>o, <2>1, MoveToType DEF CursorPosition, Mark, faultVars
<1>11. ASSUME NEW p \in Params, NEW q \in Params, SetRegion(p, q) PROVE TypeOK'
  <2>1. /\ scrollTop' \in RowIds /\ scrollBottom' \in RowIds
        /\ scrollTop' < scrollBottom'
    BY <1>11 DEF SetRegion, AtLeast, AtMost, RowIds
  <2>2. curRow' \in Ints /\ curCol' \in Ints
    BY <1>11, <1>t, <2>1 DEF SetRegion
  <2>3. pendingWrap' \in BOOLEAN /\ altActive' \in BOOLEAN
    BY <1>11 DEF SetRegion, TypeOK
  <2>4. lastOp' \in Ops /\ written' = NoCell /\ scrolled' = 0
    BY <1>11, <1>o DEF SetRegion, Mark
  <2>. QED
    BY <1>11, <2>1, <2>2, <2>3, <2>4 DEF SetRegion, TypeOK, savedVars, faultVars
<1>12. CASE OtherSequence
  BY <1>12, <1>t, <1>o, MoveToType DEF OtherSequence, Mark, faultVars
<1>13. ASSUME NEW saving \in BOOLEAN, EnterAlt(saving) PROVE TypeOK'
  <2>1. /\ savedRow' \in Ints /\ savedCol' \in Ints
        /\ entry' \in (Ints \X Ints) \cup {NoCell}
    BY <1>13 DEF EnterAlt, TypeOK, savedVars
  <2>2. curRow' \in Ints /\ curCol' \in Ints
    BY <1>13, <1>t DEF EnterAlt
  <2>3. pendingWrap' \in BOOLEAN /\ altActive' \in BOOLEAN
    BY <1>13 DEF EnterAlt
  <2>4. lastOp' \in Ops /\ written' = NoCell /\ scrolled' = 0
    BY <1>13, <1>o DEF EnterAlt, Mark
  <2>. QED
    BY <1>13, <2>1, <2>2, <2>3, <2>4 DEF EnterAlt, TypeOK, regionVars, faultVars
<1>14. ASSUME NEW restoring \in BOOLEAN, LeaveAlt(restoring) PROVE TypeOK'
  <2>1. curRow' \in Ints /\ curCol' \in Ints
    BY <1>14 DEF LeaveAlt, TypeOK
  <2>2. lastOp' \in Ops /\ written' = NoCell /\ scrolled' = 0
    BY <1>14 DEF LeaveAlt, Mark, Ops
  <2>. QED
    BY <1>14, <2>1, <2>2 DEF LeaveAlt, TypeOK, regionVars, savedVars, faultVars
<1>15. CASE SaveCursor
  BY <1>15, <1>o DEF SaveCursor, TypeOK, Mark, cursorVars, regionVars, faultVars
<1>16. CASE RestoreCursor
  BY <1>16, <1>o DEF RestoreCursor, TypeOK, Mark, regionVars, savedVars, faultVars
<1>17. CASE Reset
  <2>1. /\ curRow' \in Ints /\ curCol' \in Ints
        /\ scrollTop' \in RowIds /\ scrollBottom' \in RowIds /\ scrollTop' < scrollBottom'
    BY <1>17, <1>t DEF Reset, RowIds
  <2>2. pendingWrap' \in BOOLEAN /\ altActive' \in BOOLEAN
    BY <1>17 DEF Reset, TypeOK
  <2>3. lastOp' \in Ops /\ written' = NoCell /\ scrolled' = 0
    BY <1>17, <1>o DEF Reset, Mark
  <2>. QED
    BY <1>17, <2>1, <2>2, <2>3 DEF Reset, TypeOK, savedVars, faultVars
<1>19. ASSUME NEW mode \in 0..2, EraseInLine(mode) PROVE TypeOK'
  <2>1. damaged' \in BOOLEAN
    BY <1>19 DEF EraseInLine, Writes
  <2>. QED
    BY <1>19, <1>t, <1>o, <2>1, MoveToType DEF EraseInLine, Mark
<1>20. ASSUME NEW mode \in 0..2, EraseInDisplay(mode) PROVE TypeOK'
  <2>1. damaged' \in BOOLEAN
    BY <1>20 DEF EraseInDisplay, Writes
  <2>2. overflows' \in 0..MaxOverflows
    BY <1>20, <1>t, ComputesCounts DEF EraseInDisplay
  <2>. QED
    BY <1>20, <1>t, <1>o, <2>1, <2>2, MoveToType DEF EraseInDisplay, Mark
<1>18. CASE UNCHANGED vars
  BY <1>18 DEF vars, cursorVars, regionVars, savedVars, historyVars, faultVars, TypeOK
<1>. QED
  BY <1>1, <1>2, <1>3, <1>4, <1>5, <1>6, <1>7, <1>8, <1>9, <1>10, <1>11, <1>12,
     <1>13, <1>14, <1>15, <1>16, <1>17, <1>18, <1>19, <1>20 DEF Next, Step

\* TypeOK of every reachable state: the cursor keeps to its ints, also when a sum
\* overflows, and the scroll region to at least two rows of the grid.
THEOREM CursorTypeCorrect == Spec => []TypeOK
<1>. QED
  BY InitType, StepType, PTL DEF Spec

-----------------------------------------------------------------------------
(* The grid. *)

\* InGridUnlessOverflow with the types is inductive.
GridInv == TypeOK /\ InGridUnlessOverflow

LEMMA InitGrid == Init => GridInv
BY InitType DEF Init, GridInv, InGridUnlessOverflow, Cells, RowIds, ColIds

\* Control that goes to a cell and writes none outside.
LEMMA MoveToGrid ==
    ASSUME GridInv, NEW r, NEW c, MoveTo(r, c),
           overflows' = 0 => r \in RowIds /\ c \in ColIds /\ ~damaged' /\ overflows = 0
    PROVE  InGridUnlessOverflow'
BY DEF GridInv, InGridUnlessOverflow, MoveTo, savedVars, Cells

\* What a sum of the cursor and a count is clamped to, if it does not overflow.
LEMMA ClampedToGrid ==
    ASSUME NEW x \in Ints, NEW high \in Nat, NEW low \in Nat
    PROVE  /\ 0 <= x => AtMost(IntOf(x), high) \in 0..high
           /\ \A y \in Nat : x <= y /\ low <= y =>
                 AtLeast(IntOf(x), low) \in 0..y
BY DEF AtMost, AtLeast, IntOf, Ints

LEMMA StepGrid == GridInv /\ [Next]_vars => GridInv'
<1>. SUFFICES ASSUME GridInv, [Next]_vars PROVE InGridUnlessOverflow'
  BY StepType DEF GridInv
<1>i. TypeOK /\ curRow \in Int /\ curCol \in Int /\ overflows \in Nat
  BY DEF GridInv, TypeOK, Ints
<1>r. /\ scrollTop \in Nat /\ scrollTop < Rows /\ scrollBottom \in Nat /\ scrollBottom < Rows
      /\ scrollTop \in RowIds
  BY DEF GridInv, TypeOK, RowIds
<1>g. overflows = 0 =>
        /\ curRow \in RowIds /\ curCol \in ColIds /\ savedRow \in RowIds /\ savedCol \in ColIds
        /\ ~damaged
        /\ 0 <= curRow /\ curRow < Rows /\ 0 <= curCol /\ curCol < Cols
  BY DEF GridInv, InGridUnlessOverflow, Cells, RowIds, ColIds
<1>z. 0 \in RowIds /\ 0 \in ColIds /\ Rows - 1 \in Nat /\ Cols - 1 \in Nat
  BY DEF RowIds, ColIds
<1>1. CASE PutChar
  <2>. DEFINE r == IF pendingWrap THEN RowAfterFeed ELSE curRow
              c == IF pendingWrap THEN 0 ELSE curCol
              next == IF c = Cols - 1 THEN c ELSE c + 1
  <2>1. /\ curRow' = r /\ curCol' = IntOf(next) /\ Computes(next) /\ Writes({<<r, c>>})
        /\ UNCHANGED savedVars
    BY <1>1 DEF PutChar
  <2>2. next \in Int
    BY <1>i
  <2>. SUFFICES ASSUME overflows' = 0
                PROVE  <<curRow, curCol>>' \in Cells /\ <<savedRow, savedCol>>' \in Cells /\ ~damaged'
    BY DEF InGridUnlessOverflow
  <2>3. overflows = 0
    BY <1>i, <2>1, <2>2, ComputesCounts
  <2>4. r \in RowIds /\ c \in ColIds
    BY <1>g, <1>i, <1>z, <2>3, FeedRange
  <2>5. next \in ColIds /\ next \in Ints
    <3>. HIDE DEF r, c
    <3>1. next \in ColIds
      BY <2>4 DEF ColIds
    <3>. QED
      BY <3>1, GridInts
  <2>. HIDE DEF r, c, next
  <2>6. curCol' \in ColIds
    BY <2>1, <2>5 DEF IntOf, Ints
  <2>7. {<<r, c>>} \in SUBSET Cells
    BY <2>4 DEF Cells
  <2>. QED
    BY <1>g, <2>1, <2>3, <2>4, <2>6, <2>7, CellsInside DEF Cells, savedVars
<1>2. CASE CarriageReturn
  BY <1>2, <1>g, <1>z, MoveToGrid DEF CarriageReturn, faultVars
<1>3. CASE LineFeed
  BY <1>3, <1>g, <1>i, FeedRange, MoveToGrid DEF LineFeed, faultVars
<1>4. CASE Backspace
  <2>1. curCol \in ColIds => (IF curCol > 0 THEN curCol - 1 ELSE curCol) \in ColIds
    BY DEF ColIds
  <2>. QED
    BY <1>4, <1>g, <2>1, MoveToGrid DEF Backspace, faultVars
<1>5. CASE Tab
  <2>1. NextTabStop \in Int /\ (curCol \in ColIds => NextTabStop \in Nat)
    BY <1>i, TabRange DEF TypeOK
  <2>2. overflows' = 0 => overflows = 0 /\ NextTabStop \in Ints
    BY <1>5, <1>i, <2>1, ComputesCounts DEF Tab
  <2>3. overflows' = 0 => AtMost(IntOf(NextTabStop), Cols - 1) \in ColIds
    BY <1>g, <1>z, <2>1, <2>2, ClampedToGrid DEF ColIds
  <2>. QED
    BY <1>5, <1>g, <2>2, <2>3, MoveToGrid DEF Tab
<1>6. ASSUME NEW p \in Params, CursorUp(p) PROVE InGridUnlessOverflow'
  <2>. DEFINE x == curRow - Count(p)
  <2>1. x \in Int /\ (0 <= curRow /\ curRow < Rows => x <= Rows - 1)
    BY <1>i, CountRange
  <2>2. overflows' = 0 => overflows = 0 /\ x \in Ints
    BY <1>6, <1>i, <2>1, ComputesCounts DEF CursorUp
  <2>. HIDE DEF x
  <2>3. overflows' = 0 => AtLeast(IntOf(x), scrollTop) \in RowIds
    BY <1>g, <1>r, <1>z, <2>1, <2>2, ClampedToGrid DEF RowIds
  <2>. QED
    BY <1>6, <1>g, <2>2, <2>3, MoveToGrid DEF CursorUp, x
<1>7. ASSUME NEW p \in Params, CursorDown(p) PROVE InGridUnlessOverflow'
  <2>. DEFINE x == curRow + Count(p)
  <2>1. x \in Int /\ (0 <= curRow => 0 <= x)
    BY <1>i, CountRange
  <2>2. overflows' = 0 => overflows = 0 /\ x \in Ints
    BY <1>7, <1>i, <2>1, ComputesCounts DEF CursorDown
  <2>. HIDE DEF x
  <2>3. overflows' = 0 => AtMost(IntOf(x), scrollBottom) \in RowIds
    <3>1. overflows' = 0 => AtMost(IntOf(x), scrollBottom) \in 0..scrollBottom
      BY <1>g, <1>r, <2>1, <2>2, ClampedToGrid
    <3>. QED
      BY <1>r, <3>1 DEF RowIds
  <2>. QED
    BY <1>7, <1>g, <2>2, <2>3, MoveToGrid DEF CursorDown, x
<1>8. ASSUME NEW p \in Params, CursorForward(p) PROVE InGridUnlessOverflow'
  <2>. DEFINE x == curCol + Count(p)
  <2>1. x \in Int /\ (0 <= curCol => 0 <= x)
    BY <1>i, CountRange
  <2>2. overflows' = 0 => overflows = 0 /\ x \in Ints
    BY <1>8, <1>i, <2>1, ComputesCounts DEF CursorForward
  <2>. HIDE DEF x
  <2>3. overflows' = 0 => AtMost(IntOf(x), Cols - 1) \in ColIds
    BY <1>g, <1>z, <2>1, <2>2, ClampedToGrid DEF ColIds
  <2>. QED
    BY <1>8, <1>g, <2>2, <2>3, MoveToGrid DEF CursorForward, x
<1>9. ASSUME NEW p \in Params, CursorBack(p) PROVE InGridUnlessOverflow'
  <2>. DEFINE x == curCol - Count(p)
  <2>1. x \in Int /\ (curCol < Cols => x <= Cols - 1)
    BY <1>i, CountRange
  <2>2. overflows' = 0 => overflows = 0 /\ x \in Ints
    BY <1>9, <1>i, <2>1, ComputesCounts DEF CursorBack
  <2>. HIDE DEF x
  <2>3. overflows' = 0 => AtLeast(IntOf(x), 0) \in ColIds
    BY <1>g, <1>z, <2>1, <2>2, ClampedToGrid DEF ColIds
  <2>. QED
    BY <1>9, <1>g, <2>2, <2>3, MoveToGrid DEF CursorBack, x
<1>10. ASSUME NEW p \in Params, NEW q \in Params, CursorPosition(p, q)
       PROVE  InGridUnlessOverflow'
  <2>1. /\ AtMost(AtLeast(p - 1, 0), Rows - 1) \in RowIds
        /\ AtMost(AtLeast(q - 1, 0), Cols - 1) \in ColIds
    BY PositionRange DEF RowIds, ColIds
  <2>. QED
    BY <1>10, <1>g, <2>1, MoveToGrid DEF CursorPosition, faultVars
<1>11. ASSUME NEW p \in Params, NEW q \in Params, SetRegion(p, q) PROVE InGridUnlessOverflow'
  <2>1. scrollTop' \in RowIds
    BY <1>11 DEF SetRegion, AtLeast, AtMost, RowIds
  <2>2. /\ curRow' = scrollTop' /\ curCol' = 0
        /\ UNCHANGED <<savedRow, savedCol, overflows, damaged>>
    BY <1>11 DEF SetRegion, savedVars, faultVars
  <2>. QED
    BY <1>g, <1>z, <2>1, <2>2 DEF InGridUnlessOverflow, Cells
<1>12. CASE OtherSequence
  BY <1>12, <1>g, MoveToGrid DEF OtherSequence, faultVars
<1>13. ASSUME NEW mode \in 0..2, EraseInLine(mode) PROVE InGridUnlessOverflow'
  <2>1. overflows = 0 => ErasedInLine(mode) \in SUBSET Cells
    BY <1>g, <1>i DEF ErasedInLine, Cells, AtMost, ColIds
  <2>2. overflows = 0 => ~damaged'
    BY <1>13, <2>1, CellsInside DEF EraseInLine
  <2>. QED
    BY <1>13, <1>g, <2>2, MoveToGrid DEF EraseInLine
<1>14. ASSUME NEW mode \in 0..2, EraseInDisplay(mode) PROVE InGridUnlessOverflow'
  <2>1. overflows' = 0 => overflows = 0
    <3>. DEFINE x == IF mode = 0 THEN curRow + 1 ELSE curRow
    <3>1. x \in Int /\ Computes(x)
      BY <1>14, <1>i DEF EraseInDisplay
    <3>. HIDE DEF x
    <3>. QED
      BY <1>i, <3>1, ComputesCounts
  <2>2. overflows = 0 => \A m \in 0..2 : ErasedInLine(m) \in SUBSET Cells
    BY <1>g, <1>i DEF ErasedInLine, Cells, AtMost, ColIds
  <2>3. overflows = 0 => /\ 0..(curRow - 1) \in SUBSET RowIds
                         /\ IntOf(curRow + 1)..(Rows - 1) \in SUBSET RowIds
    BY <1>g, <1>i DEF RowIds, IntOf
  <2>4. overflows = 0 => ErasedInDisplay(mode) \in SUBSET Cells
    <3>. SUFFICES ASSUME overflows = 0 PROVE ErasedInDisplay(mode) \in SUBSET Cells
      OBVIOUS
    <3>1. \A rows \in SUBSET RowIds : rows \X ColIds \in SUBSET Cells
      BY DEF Cells
    <3>2. /\ ErasedInLine(0) \in SUBSET Cells /\ ErasedInLine(1) \in SUBSET Cells
          /\ (0..(curRow - 1)) \X ColIds \in SUBSET Cells
          /\ (IntOf(curRow + 1)..(Rows - 1)) \X ColIds \in SUBSET Cells
      BY <2>2, <2>3, <3>1
    <3>. QED
      BY <3>2 DEF ErasedInDisplay
  <2>5. overflows = 0 => ~damaged'
    BY <1>14, <2>4, CellsInside DEF EraseInDisplay
  <2>. QED
    BY <1>14, <1>g, <2>1, <2>5, MoveToGrid DEF EraseInDisplay
<1>15. ASSUME NEW saving \in BOOLEAN, EnterAlt(saving) PROVE InGridUnlessOverflow'
  BY <1>15, <1>g, <1>z DEF EnterAlt, InGridUnlessOverflow, Cells, savedVars, faultVars
<1>16. ASSUME NEW restoring \in BOOLEAN, LeaveAlt(restoring) PROVE InGridUnlessOverflow'
  BY <1>16, <1>g DEF LeaveAlt, InGridUnlessOverflow, Cells, savedVars, faultVars
<1>17. CASE SaveCursor
  BY <1>17, <1>g DEF SaveCursor, InGridUnlessOverflow, Cells, cursorVars, faultVars
<1>18. CASE RestoreCursor
  BY <1>18, <1>g DEF RestoreCursor, InGridUnlessOverflow, Cells, savedVars, faultVars
<1>19. CASE Reset
  BY <1>19, <1>g, <1>z DEF Reset, InGridUnlessOverflow, Cells, savedVars, faultVars
<1>20. CASE UNCHANGED vars
  BY <1>20 DEF GridInv, InGridUnlessOverflow, vars, cursorVars, savedVars, faultVars
<1>. QED
  BY <1>1, <1>2, <1>3, <1>4, <1>5, <1>6, <1>7, <1>8, <1>9, <1>10, <1>11, <1>12,
     <1>13, <1>14, <1>15, <1>16, <1>17, <1>18, <1>19, <1>20 DEF Next, Step

\* For every size of the grid and every parameter an int can hold, the cursor and
\* what is written stay in the grid as long as no sum has overflowed: all that
\* takes them out is the addition before the clamp (terminal.c:414-430).
THEOREM CursorInGrid == Spec => []InGridUnlessOverflow
<1>1. GridInv => InGridUnlessOverflow
  BY DEF GridInv
<1>. QED
  BY <1>1, InitGrid, StepGrid, PTL DEF Spec

-----------------------------------------------------------------------------
(* The scroll region. *)

\* A step that prints or moves vertically leaves the region alone and keeps the
\* row in it, unless its sum overflows.
LEMMA StepRegion ==
    ASSUME TypeOK, [Next]_vars
    PROVE  [lastOp' \in {"print", "vertical"} /\ InRegion(curRow) /\ overflows' = overflows
               => InRegion(curRow')]_vars
<1>. SUFFICES ASSUME Next, lastOp' \in {"print", "vertical"}, InRegion(curRow),
                     overflows' = overflows
              PROVE  InRegion(curRow')
  OBVIOUS
<1>t. /\ curRow \in Nat /\ curRow < Rows
      /\ scrollTop \in Nat /\ scrollBottom \in Nat /\ scrollTop < Rows /\ scrollBottom < Rows
      /\ scrollTop <= curRow /\ curRow <= scrollBottom
  BY DEF TypeOK, RowIds, Ints, InRegion
<1>1. CASE PutChar
  BY <1>1, FeedRange DEF PutChar
<1>2. CASE LineFeed
  BY <1>2, FeedRange DEF LineFeed, MoveTo
<1>3. ASSUME NEW p \in Params, CursorUp(p) PROVE InRegion(curRow')
  <2>1. curRow' = AtLeast(IntOf(curRow - Count(p)), scrollTop)
    BY <1>3 DEF CursorUp, MoveTo
  <2>. QED
    BY <1>t, <2>1, CountRange DEF AtLeast, InRegion, IntOf
<1>4. ASSUME NEW p \in Params, CursorDown(p) PROVE InRegion(curRow')
  <2>. DEFINE x == curRow + Count(p)
  <2>1. curRow' = AtMost(IntOf(x), scrollBottom) /\ Computes(x)
    BY <1>4 DEF CursorDown, MoveTo
  <2>2. x \in Int /\ x > curRow
    BY <1>t, CountRange
  <2>. HIDE DEF x
  <2>3. IntOf(x) = x
    BY <2>1, <2>2, ComputesCounts DEF IntOf, Ints
  <2>. QED
    BY <1>t, <2>1, <2>2, <2>3 DEF InRegion, AtMost
<1>. QED
  BY <1>1, <1>2, <1>3, <1>4
     DEF Next, Step, Mark, CarriageReturn, Backspace, Tab, CursorForward, CursorBack,
         CursorPosition, SetRegion, EraseInLine, EraseInDisplay, OtherSequence, EnterAlt,
         LeaveAlt, SaveCursor, RestoreCursor, Reset

\* InRegion(curRow') names the new row and the old region: the steps in question
\* change no region.  A full-screen program's text and vertical movement stay in
\* the region it set, but for a movement down by so much that the sum overflows
\* (terminal.c:264-271, 414-421).
THEOREM CursorRegionHolds == Spec => RegionHolds
<1>. QED
  BY CursorTypeCorrect, StepRegion, PTL DEF Spec, RegionHolds
-----------------------------------------------------------------------------
(* The flow of text and the slot of mode 1049. *)

\* After a print the cell written is the one before the cursor, as an int counts,
\* or the cursor's own cell in the last column while the wrap is deferred.
PrintedBefore ==
    lastOp = "print" =>
        /\ pendingWrap => curCol = Cols - 1 /\ written = <<curRow, curCol>>
        /\ ~pendingWrap => curCol = IntOf(written[2] + 1) /\ written = <<curRow, written[2]>>
                           /\ written[2] \in Ints

\* The cursor noted on entry is the one in the slot.
EntrySaved == entry # NoCell => entry = <<savedRow, savedCol>>

FlowInv == TypeOK /\ PrintedBefore /\ EntrySaved

\* FlowInv holds initially.
LEMMA InitFlow == Init => FlowInv
BY InitType DEF Init, FlowInv, PrintedBefore, EntrySaved

\* PutChar is the only step after which PrintedBefore says anything.
LEMMA StepPrinted ==
    ASSUME TypeOK, PrintedBefore, [Next]_vars
    PROVE  PrintedBefore'
<1>1. CASE PutChar
  <2>. DEFINE r == IF pendingWrap THEN RowAfterFeed ELSE curRow
              c == IF pendingWrap THEN 0 ELSE curCol
              next == IF c = Cols - 1 THEN c ELSE c + 1
  <2>1. /\ curRow' = r /\ written' = <<r, c>> /\ curCol' = IntOf(next)
        /\ pendingWrap' = (c = Cols - 1)
    BY <1>1 DEF PutChar
  <2>2. c \in Ints
    BY DEF TypeOK, Ints
  <2>. HIDE DEF r, c
  <2>a. next = IF c = Cols - 1 THEN c ELSE c + 1
    OBVIOUS
  <2>b. IntOf(c) = c
    BY <2>2 DEF IntOf, Ints
  <2>. HIDE DEF next
  <2>3. CASE c = Cols - 1
    <3>1. curCol' = c
      BY <2>1, <2>3, <2>a, <2>b
    <3>2. pendingWrap'
      BY <2>1, <2>3, Zenon
    <3>3. curRow' = r /\ written' = <<r, c>>
      BY <2>1
    <3>. QED
      BY <2>3, <3>1, <3>2, <3>3 DEF PrintedBefore
  <2>4. CASE c # Cols - 1
    <3>1. ~pendingWrap' /\ curCol' = IntOf(c + 1) /\ curRow' = r /\ written' = <<r, c>>
      BY <2>1, <2>4, <2>a
    <3>2. written'[2] = c
      BY <3>1
    <3>. QED
      BY <2>2, <3>1, <3>2 DEF PrintedBefore
  <2>. QED
    BY <2>3, <2>4
<1>2. CASE UNCHANGED vars
  BY <1>2 DEF vars, cursorVars, historyVars, PrintedBefore
<1>3. CASE Next /\ ~PutChar
  <2>1. lastOp' # "print"
    BY <1>3
       DEF Next, Step, Mark, CarriageReturn, LineFeed, Backspace, Tab, CursorUp, CursorDown,
           CursorForward, CursorBack, CursorPosition, SetRegion, EraseInLine,
           EraseInDisplay, OtherSequence, EnterAlt, LeaveAlt, SaveCursor, RestoreCursor, Reset
  <2>. QED
    BY <2>1 DEF PrintedBefore
<1>. QED
  BY <1>1, <1>2, <1>3

\* The slot and the note of it change together: only mode 1049 and ESC 7 save.
LEMMA StepEntry ==
    ASSUME EntrySaved, [Next]_vars
    PROVE  EntrySaved'
<1>1. ASSUME NEW saving \in BOOLEAN, EnterAlt(saving) PROVE EntrySaved'
  <2>1. CASE saving
    BY <1>1, <2>1 DEF EnterAlt, EntrySaved
  <2>2. CASE ~saving
    BY <1>1, <2>2 DEF EnterAlt, EntrySaved, NoCell
  <2>. QED
    BY <2>1, <2>2
<1>2. CASE SaveCursor
  BY <1>2 DEF SaveCursor, EntrySaved, NoCell
<1>3. CASE UNCHANGED <<savedVars, entry>>
  BY <1>3 DEF savedVars, EntrySaved, NoCell
<1>4. CASE UNCHANGED vars
  BY <1>3, <1>4 DEF vars, savedVars, historyVars
<1>. QED
  BY <1>1, <1>2, <1>3, <1>4
     DEF Next, Step, MoveTo, PutChar, CarriageReturn, LineFeed, Backspace, Tab, CursorUp,
         CursorDown, CursorForward, CursorBack, CursorPosition, SetRegion,
         EraseInLine, EraseInDisplay, OtherSequence, LeaveAlt, RestoreCursor, Reset

\* FlowInv is inductive.
LEMMA StepFlow == FlowInv /\ [Next]_vars => FlowInv'
BY StepType, StepPrinted, StepEntry DEF FlowInv

\* A print after a print writes the next cell.
LEMMA FlowStep ==
    ASSUME FlowInv, [Next]_vars
    PROVE  [lastOp = "print" /\ lastOp' = "print" /\ InRegion(curRow) /\ curCol \in ColIds
               => Linear(written') + Cols * scrolled' = Linear(written) + 1]_vars
<1>. SUFFICES ASSUME Next, lastOp = "print", lastOp' = "print", InRegion(curRow),
                     curCol \in ColIds
              PROVE  Linear(written') + Cols * scrolled' = Linear(written) + 1
  OBVIOUS
<1>1. PutChar
  BY DEF Next, Step, Mark, CarriageReturn, LineFeed, Backspace, Tab, CursorUp, CursorDown,
         CursorForward, CursorBack, CursorPosition, SetRegion, EraseInLine,
           EraseInDisplay, OtherSequence, EnterAlt, LeaveAlt, SaveCursor, RestoreCursor, Reset
<1>t. curRow \in Nat /\ curCol \in Nat
  BY DEF FlowInv, TypeOK, RowIds, ColIds, Ints, InRegion
<1>2. CASE pendingWrap
  <2>1. written = <<curRow, Cols - 1>>
    BY <1>2 DEF FlowInv, PrintedBefore
  <2>2. written' = <<RowAfterFeed, 0>>
    BY <1>1, <1>2 DEF PutChar
  <2>3. \/ RowAfterFeed = curRow /\ scrolled' = 1
        \/ RowAfterFeed = curRow + 1 /\ scrolled' = 0
    BY <1>1, <1>2, FeedRange DEF PutChar, FlowInv
  <2>4. RowAfterFeed * Cols + Cols * scrolled' = curRow * Cols + Cols
    BY <2>3, <1>t
  <2>5. Linear(written) = curRow * Cols + (Cols - 1)
    BY <2>1 DEF Linear
  <2>6. Linear(written') = RowAfterFeed * Cols + 0
    BY <2>2 DEF Linear
  <2>7. RowAfterFeed * Cols \in Int /\ Cols * scrolled' \in Int /\ curRow * Cols \in Int
    BY <2>3, <1>t
  <2>. QED
    BY <2>4, <2>5, <2>6, <2>7
<1>3. CASE ~pendingWrap
  <2>. DEFINE w == written[2]
  <2>1. w \in Ints /\ curCol = IntOf(w + 1) /\ written = <<curRow, w>>
    BY <1>3 DEF FlowInv, PrintedBefore
  <2>. HIDE DEF w
  <2>2. w + 1 = curCol /\ w \in Int
    BY <2>1, <1>t DEF IntOf, Ints
  <2>3. written' = <<curRow, curCol>> /\ scrolled' = 0
    BY <1>1, <1>3 DEF PutChar
  <2>. QED
    BY <2>1, <2>2, <2>3, <1>t DEF Linear
<1>. QED
  BY <1>2, <1>3

\* Text fills one cell after the other, across the right margin and across a
\* scroll of the region, for every size of the grid (terminal.c:554-579).
THEOREM CursorTextFlows == Spec => TextFlows
<1>. QED
  BY InitFlow, StepFlow, FlowStep, PTL DEF Spec, TextFlows

\* Leaving by mode 1049 restores the slot, which EntrySaved says is the cursor
\* of the entry.
LEMMA AltStep ==
    ASSUME FlowInv, [Next]_vars
    PROVE  [lastOp' = "restored" /\ entry # NoCell => <<curRow', curCol'>> = entry]_vars
<1>. SUFFICES ASSUME Next, lastOp' = "restored", entry # NoCell
              PROVE  <<curRow', curCol'>> = entry
  OBVIOUS
<1>1. PICK restoring \in BOOLEAN : LeaveAlt(restoring)
  BY DEF Next, Step, Mark, PutChar, CarriageReturn, LineFeed, Backspace, Tab, CursorUp,
         CursorDown, CursorForward, CursorBack, CursorPosition, SetRegion,
         EraseInLine, EraseInDisplay, OtherSequence, EnterAlt, SaveCursor, RestoreCursor, Reset
<1>2. restoring
  BY <1>1 DEF LeaveAlt, Mark
<1>. QED
  BY <1>1, <1>2 DEF LeaveAlt, FlowInv, EntrySaved

\* A program that enters and leaves the alternate screen by mode 1049 finds the
\* cursor where it was, whatever happened in between but a save over the slot
\* (terminal.c:341-361).
THEOREM CursorAltRestores == Spec => AltRestoresCursor
<1>. QED
  BY InitFlow, StepFlow, AltStep, PTL DEF Spec, AltRestoresCursor
=============================================================================
