------------------------------ MODULE Terminal ------------------------------
(***************************************************************************)
(* What the text screen promises those who print: rows of characters and a *)
(* cursor that is on the screen.  A character goes where the cursor is; at *)
(* the end of the last row, and at a new line there, the rows move up.     *)
(***************************************************************************)
EXTENDS Integers

CONSTANTS Cols, Rows, Char, Blank

VARIABLES
    cell,       \* the character in each place <<row, column>>
    place       \* the place of the cursor

Place == (0..Rows - 1) \X (0..Cols - 1)

TerminalInit ==
    /\ cell = [p \in Place |-> Blank]
    /\ place \in Place

Up(grid) == [p \in Place |-> IF p[1] = Rows - 1 THEN Blank ELSE grid[<<p[1] + 1, p[2]>>]]

\* The cursor goes to the start of the next row.
NextRow(grid) ==
    IF place[1] = Rows - 1
    THEN cell' = Up(grid) /\ place' = <<Rows - 1, 0>>
    ELSE cell' = grid /\ place' = <<place[1] + 1, 0>>

Type(c) ==
    LET grid == [cell EXCEPT ![place] = c] IN
    IF place[2] = Cols - 1 THEN NextRow(grid)
    ELSE cell' = grid /\ place' = <<place[1], place[2] + 1>>

\* Carriage return and line feed alike.
NewLine == NextRow(cell)

\* The cursor goes one place back, if there is one.
Erase ==
    /\ place # <<0, 0>>
    /\ place' = IF place[2] > 0 THEN <<place[1], place[2] - 1>>
                ELSE <<place[1] - 1, Cols - 1>>
    /\ cell' = [cell EXCEPT ![place'] = Blank]

TerminalNext == (\E c \in Char : Type(c)) \/ NewLine \/ Erase
=============================================================================
