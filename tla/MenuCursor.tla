----------------------------- MODULE MenuCursor -----------------------------
(***************************************************************************)
(* The title list of the game menu, gameMenus/coleco/src/menu.c: the       *)
(* cursor, scrolling and paging (getUserSelection), and the bar and stripe *)
(* attributes of the screen rows (drawTitles, drawSelect, undrawSelect).   *)
(*                                                                         *)
(* listSize, listOffset and listSelect are unsigned chars: assignments     *)
(* wrap at Width.  The code has Rows = 24 and Width = 256.  Operators      *)
(* named Bug... are wrong forms of the definition that follows them.       *)
(***************************************************************************)
EXTENDS Integers

CONSTANTS
    Rows,       \* titles on the screen
    Width,      \* values of an unsigned char
    ListSizes   \* sizes a directory can have

ASSUME CursorAssumption ==
    /\ Rows \in Nat \ {0} /\ Width \in Nat /\ Rows < Width
    /\ ListSizes \subseteq 1..(Width - 1)

VARIABLES
    listSize,
    listOffset,     \* index of the title on the first row
    listSelect,     \* index of the selected title
    bg,             \* background of each row: stripe 0, stripe 1 or Bar
    phase           \* "redraw": drawTitles is next; "keys": waiting for a key

cursorVars == <<listSize, listOffset, listSelect, bg, phase>>

Bar == 2
Screen == 0..(Rows - 1)

\* The last value of an unsigned char; drawTitles stops counting there.
Least(a, b) == IF a < b THEN a ELSE b

-----------------------------------------------------------------------------
(* Drawing *)

\* drawTitles: stripes follow the index of the title.
Titles == [r \in Screen |-> Least(listOffset + r, Width - 1) % 2]

\* drawSelect first pulls the selection back to the last title.
Clamped == IF listSelect > listSize - 1 THEN listSize - 1 ELSE listSelect

\* A row off the screen is some other part of video memory.
WithBar(b, row) == [r \in Screen |-> IF r = row THEN Bar ELSE b[r]]

\* undrawSelect: stripes follow the row on the screen.
BugNoUndraw(b, row) == b
WithoutBar(b, row) == [r \in Screen |-> IF r = row THEN row % 2 ELSE b[r]]

\* Moves the bar from the selected row to that of selection s.
MoveBar(s) == bg' = WithBar(WithoutBar(bg, listSelect - listOffset),
                            s - listOffset)

-----------------------------------------------------------------------------
(* Actions *)

CursorInit == /\ listSize \in ListSizes
              /\ listOffset = 0 /\ listSelect = 0
              /\ bg \in [Screen -> {0}]
              /\ phase = "redraw"

\* drawTitles, then getUserSelection starts by drawing the bar.
Redraw == /\ phase = "redraw"
          /\ phase' = "keys"
          /\ listSelect' = Clamped
          /\ bg' = WithBar(Titles, Clamped - listOffset)
          /\ UNCHANGED <<listSize, listOffset>>

\* Move the selection to s, within the rows on the screen.
Select(s) == /\ listSelect' = s
             /\ MoveBar(s)
             /\ UNCHANGED <<listOffset, phase>>

\* Return -1: the menu draws the titles again, from offset o.
Scroll(o, s) == /\ listOffset' = o % Width
                /\ listSelect' = s % Width
                /\ phase' = "redraw"

\* UP has moved above the first row.
AboveScreen == listSelect - 1 < listOffset

Up == /\ phase = "keys" /\ listSelect > 0
      /\ IF AboveScreen
         THEN /\ Scroll(listOffset - 1, listSelect - 1)
              /\ bg' = WithoutBar(bg, listSelect - listOffset)
         ELSE Select(listSelect - 1)
      /\ UNCHANGED listSize

Down == /\ phase = "keys" /\ listSelect < listSize - 1
        /\ IF listSelect + 1 > listOffset + Rows - 1
           THEN /\ Scroll(listOffset + 1, listSelect + 1)
                /\ bg' = WithoutBar(bg, listSelect - listOffset)
           ELSE Select(listSelect + 1)
        /\ UNCHANGED listSize

BugMoreBelow == listOffset + Rows < listSize - 1
\* RIGHT pages ahead while titles remain below the screen, then goes to the
\* last one.  A page is always a whole screen: what is left is at least that.
MoreBelow == listOffset + Rows - 1 < listSize - 1

BugRight == /\ phase = "keys"
            /\ IF MoreBelow THEN Scroll(listOffset + Rows, listSelect + Rows)
               ELSE UNCHANGED <<listOffset, listSelect, phase>>
            /\ UNCHANGED <<listSize, bg>>
Right == /\ phase = "keys"
         /\ IF MoreBelow
            THEN LET add == listSize - 1 - listOffset IN
                 /\ IF add < Rows THEN Scroll(listOffset + add, listOffset + add)
                    ELSE Scroll(listOffset + Rows, listSelect + Rows)
                 /\ UNCHANGED bg
            ELSE Select(listSize - 1)
         /\ UNCHANGED listSize

Left == /\ phase = "keys"
        /\ IF listOffset > 0
           THEN /\ IF listOffset < Rows THEN Scroll(0, 0)
                   ELSE Scroll(listOffset - Rows, listSelect - Rows)
                /\ UNCHANGED bg
           ELSE Select(0)
        /\ UNCHANGED listSize

\* FIRE on a file that does not load: the menu redraws the same list.
FireFile == /\ phase = "keys"
            /\ phase' = "redraw"
            /\ UNCHANGED <<listSize, listOffset, listSelect, bg>>

\* FIRE on a directory, or another card: a new list, from the top, on a
\* cleared screen.
NewList == /\ phase = "keys"
           /\ listSize' \in ListSizes
           /\ listOffset' = 0 /\ listSelect' = 0
           /\ phase' = "redraw"
           /\ UNCHANGED bg

CursorNext == Redraw \/ Up \/ Down \/ Right \/ Left \/ FireFile \/ NewList

CursorSpec == CursorInit /\ [][CursorNext]_cursorVars

\* From some time on the user keeps the stick to the right; the menu's loop
\* never stops.
HoldsRight == <>[][Redraw \/ Right]_cursorVars /\ WF_cursorVars(Redraw \/ Right)

-----------------------------------------------------------------------------
(* Properties *)

\* Indices are unsigned chars, backgrounds one of three.
CursorTypeOK == /\ listSize \in ListSizes
                /\ listOffset \in 0..(Width - 1) /\ listSelect \in 0..(Width - 1)
                /\ bg \in [Screen -> {0, 1, Bar}]
                /\ phase \in {"redraw", "keys"}

\* A list whose last page plus a screen fits the counter.
Roomy == listSize + Rows <= Width + 1

\* While keys are read, the selected title is one of those on the screen, if
\* the counter has a screen of room after the list.
CursorOnScreen ==
    phase = "keys" /\ Roomy => /\ listSelect - listOffset \in Screen
                               /\ listSelect < listSize

\* "row on screen", drawSelect (menu.c): for every list that fits the counter.
RowOnScreen == phase = "keys" => listSelect - listOffset \in Screen

\* While keys are read, the bar is on the selected row and on no other.
OneBar == phase = "keys" =>
    \A r \in Screen : bg[r] = Bar <=> r = listSelect - listOffset

\* Holding the stick to the right ends at the last title, wherever it began
\* and however long the list, if the counter has that room: paging makes
\* progress and the last page is never skipped over.
RightReachesEnd == HoldsRight => <>[](Roomy => phase = "keys" /\ listSelect = listSize - 1)

\* "erase the highlight": a row the bar has left looks as drawTitles drew it.
StripesRestored == phase = "keys" =>
    \A r \in Screen \ {listSelect - listOffset} : bg[r] = Titles[r]
=============================================================================
