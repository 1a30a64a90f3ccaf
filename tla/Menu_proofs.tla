-------------------------- MODULE Menu_proofs --------------------------
(* The cursor of the menu stays on the screen for every screen height and   *)
(* counter width while the list leaves a screen's room in the counter;      *)
(* the bar is where the cursor is for every list.  What is listed and       *)
(* opened is what is on the card, for every card; and in every directory    *)
(* the entries are read, and names are found, with the names they have.     *)
EXTENDS MenuCursor, MenuFlow, FatDir, FiniteSetTheorems, WellFoundedInduction, TLAPS

-----------------------------------------------------------------------------

\* An index that fits the counter is stored unchanged.
LEMMA NoWrap ==
    ASSUME NEW x \in Int, 0 <= x, x < Width
    PROVE  x % Width = x
BY CursorAssumption

\* What holds of a list with room: the offset is that of a title, and the selection
\* is within a screen of it; drawSelect will pull it back to the last title.
Placed ==
    /\ listSize \in ListSizes /\ listOffset \in Nat /\ listSelect \in Nat
    /\ phase \in {"redraw", "keys"}
    /\ listOffset < listSize
    /\ listOffset <= listSelect /\ listSelect < listOffset + Rows
    /\ phase = "keys" => listSelect < listSize

\* The inductive invariant.
CursorInv == Roomy => Placed

LEMMA PlacedStep ==
    ASSUME Roomy, Placed, [CursorNext]_cursorVars
    PROVE  Placed'
<1>1. /\ Rows \in Nat /\ Rows > 0 /\ Width \in Nat
      /\ listSize \in Nat /\ listSize > 0 /\ listSize + Rows <= Width + 1
  BY CursorAssumption DEF Placed, Roomy
<1>2. CASE Redraw
  BY <1>1, <1>2 DEF Redraw, Clamped, Placed
<1>3. CASE Up
  <2>1. CASE AboveScreen
    <3>1. /\ listOffset' = (listOffset - 1) % Width
          /\ listSelect' = (listSelect - 1) % Width
          /\ listSize' = listSize /\ phase' = "redraw" /\ phase = "keys"
          /\ listSelect > 0
      BY <1>3, <2>1 DEF Up, Scroll
    <3>2. listOffset = listSelect
      BY <2>1 DEF AboveScreen, Placed
    <3>3. listOffset' = listOffset - 1 /\ listSelect' = listSelect - 1
      BY <1>1, <3>1, <3>2, NoWrap DEF Placed
    <3> QED
      BY <1>1, <3>1, <3>2, <3>3 DEF Placed
  <2>2. CASE ~AboveScreen
    BY <1>1, <1>3, <2>2 DEF Up, Select, AboveScreen, Placed
  <2> QED
    BY <2>1, <2>2
<1>4. CASE Down
  <2>1. CASE listSelect + 1 > listOffset + Rows - 1
    <3>1. /\ listOffset' = (listOffset + 1) % Width
          /\ listSelect' = (listSelect + 1) % Width
          /\ listSize' = listSize /\ phase' = "redraw" /\ phase = "keys"
          /\ listSelect < listSize - 1
      BY <1>4, <2>1 DEF Down, Scroll
    <3>2. listOffset' = listOffset + 1 /\ listSelect' = listSelect + 1
      BY <1>1, <3>1, NoWrap DEF Placed
    <3> QED
      BY <1>1, <3>1, <3>2 DEF Placed
  <2>2. CASE ~(listSelect + 1 > listOffset + Rows - 1)
    BY <1>1, <1>4, <2>2 DEF Down, Select, Placed
  <2> QED
    BY <2>1, <2>2
<1>5. CASE Right
  <2>1. CASE MoreBelow
    <3>1. /\ listOffset' = (listOffset + Rows) % Width
          /\ listSelect' = (listSelect + Rows) % Width
          /\ listSize' = listSize /\ phase' = "redraw" /\ phase = "keys"
      BY <1>1, <1>5, <2>1 DEF Right, Scroll, MoreBelow, Placed
    <3>2. /\ listOffset + Rows <= listSize - 1
          /\ listSelect + Rows <= listSize - 2 + Rows
      BY <1>1, <2>1 DEF MoreBelow, Placed
    <3>3. listOffset' = listOffset + Rows /\ listSelect' = listSelect + Rows
      BY <1>1, <3>1, <3>2, NoWrap DEF Placed
    <3> QED
      BY <1>1, <3>1, <3>2, <3>3 DEF Placed
  <2>2. CASE ~MoreBelow
    BY <1>1, <1>5, <2>2 DEF Right, Select, MoreBelow, Placed
  <2> QED
    BY <2>1, <2>2
<1>6. CASE Left
  <2>1. CASE listOffset > 0 /\ listOffset < Rows
    <3>1. 0 % Width = 0
      BY CursorAssumption, NoWrap
    <3> QED
      BY <1>1, <1>6, <2>1, <3>1 DEF Left, Scroll, Placed
  <2>2. CASE listOffset > 0 /\ ~(listOffset < Rows)
    <3>1. /\ listOffset' = (listOffset - Rows) % Width
          /\ listSelect' = (listSelect - Rows) % Width
          /\ listSize' = listSize /\ phase' = "redraw" /\ phase = "keys"
      BY <1>6, <2>2 DEF Left, Scroll
    <3>2. listOffset' = listOffset - Rows /\ listSelect' = listSelect - Rows
      BY <1>1, <2>2, <3>1, NoWrap DEF Placed
    <3> QED
      BY <1>1, <2>2, <3>1, <3>2 DEF Placed
  <2>3. CASE ~(listOffset > 0)
    BY <1>1, <1>6, <2>3 DEF Left, Select, Placed
  <2> QED
    BY <2>1, <2>2, <2>3
<1>7. CASE FireFile
  BY <1>7 DEF FireFile, Placed
<1>8. CASE NewList
  <2>1. listSize' \in Nat /\ listSize' > 0
    BY <1>8, CursorAssumption DEF NewList
  <2> QED
    BY <1>1, <1>8, <2>1 DEF NewList, Placed
<1>9. CASE UNCHANGED cursorVars
  BY <1>9 DEF cursorVars, Placed
<1> QED
  BY <1>2, <1>3, <1>4, <1>5, <1>6, <1>7, <1>8, <1>9 DEF CursorNext

\* A new list starts from the top.
LEMMA NewListPlaced == ASSUME NewList PROVE Placed'
<1>1. listSize' \in Nat /\ listSize' > 0 /\ listSize' \in ListSizes
  BY CursorAssumption DEF NewList
<1>2. Rows \in Nat /\ Rows > 0
  BY CursorAssumption
<1> QED
  BY <1>1, <1>2 DEF NewList, Placed

\* Whether there is room changes only with the list.
LEMMA CursorStep == CursorInv /\ [CursorNext]_cursorVars => CursorInv'
<1> SUFFICES ASSUME CursorInv, [CursorNext]_cursorVars, Roomy' PROVE Placed'
  BY DEF CursorInv
<1>1. CASE NewList
  BY <1>1, NewListPlaced
<1>2. CASE ~NewList
  <2>1. listSize' = listSize
    BY <1>2 DEF CursorNext, cursorVars, Redraw, Up, Down, Right, Left, FireFile
  <2>2. Roomy
    BY <2>1 DEF Roomy
  <2> QED
    BY <2>2, PlacedStep DEF CursorInv
<1> QED
  BY <1>1, <1>2

\* While keys are read, the selected title is on the screen and in the list,
\* for every list that leaves a screen of room.
THEOREM CursorCorrect == CursorSpec => []CursorOnScreen
<1>1. CursorInit => CursorInv
  BY CursorAssumption DEF CursorInit, CursorInv, Placed
<1>2. CursorInv /\ [CursorNext]_cursorVars => CursorInv'
  BY CursorStep
<1>3. CursorInv => CursorOnScreen
  BY CursorAssumption DEF CursorInv, Placed, CursorOnScreen, Screen
<1> QED
  BY <1>1, <1>2, <1>3, PTL DEF CursorSpec

-----------------------------------------------------------------------------

\* A stripe is never the bar.
LEMMA StripeNotBar == \A x \in Int : x % 2 \in {0, 1} /\ x % 2 # Bar
BY DEF Bar

\* A remainder is an unsigned char.
LEMMA ScrollRange == \A x \in Int : x % Width \in 0..(Width - 1)
BY CursorAssumption

\* Indices stay unsigned chars for every list, the long ones included.
LEMMA TypeStep == CursorTypeOK /\ [CursorNext]_cursorVars => CursorTypeOK'
<1> SUFFICES ASSUME CursorTypeOK, [CursorNext]_cursorVars PROVE CursorTypeOK'
  OBVIOUS
<1>1. /\ Rows \in Nat /\ Width \in Nat /\ Width > 0
      /\ listSize \in 1..(Width - 1)
      /\ listOffset \in 0..(Width - 1) /\ listSelect \in 0..(Width - 1)
  BY CursorAssumption DEF CursorTypeOK
<1>2. ASSUME NEW b \in [Screen -> {0, 1, Bar}], NEW row
      PROVE  /\ WithBar(b, row) \in [Screen -> {0, 1, Bar}]
             /\ WithoutBar(b, row) \in [Screen -> {0, 1, Bar}]
  BY StripeNotBar, CursorAssumption DEF WithBar, WithoutBar, Screen
<1>3. Titles \in [Screen -> {0, 1, Bar}]
  <2> SUFFICES ASSUME NEW r \in Screen
               PROVE  Least(listOffset + r, Width - 1) % 2 \in {0, 1, Bar}
    BY DEF Titles
  <2>1. Least(listOffset + r, Width - 1) \in Int
    BY <1>1 DEF Screen, Least
  <2> QED
    BY <2>1, StripeNotBar
<1>4. CASE Redraw
  BY <1>1, <1>2, <1>3, <1>4 DEF Redraw, Clamped, CursorTypeOK
<1>5. ASSUME NEW s \in 0..(Width - 1), Select(s), phase = "keys",
             UNCHANGED listSize
      PROVE  CursorTypeOK'
  BY <1>1, <1>2, <1>5 DEF Select, MoveBar, CursorTypeOK
<1>6. ASSUME NEW o \in Int, NEW s \in Int, Scroll(o, s), UNCHANGED listSize,
             bg' \in {bg, WithoutBar(bg, listSelect - listOffset)}
      PROVE  CursorTypeOK'
  BY <1>1, <1>2, <1>6, ScrollRange DEF Scroll, CursorTypeOK
<1>7. CASE Up
  BY <1>1, <1>5, <1>6, <1>7 DEF Up
<1>8. CASE Down
  BY <1>1, <1>5, <1>6, <1>8 DEF Down
<1>9. CASE Right
  BY <1>1, <1>5, <1>6, <1>9 DEF Right
<1>10. CASE Left
  BY <1>1, <1>5, <1>6, <1>10 DEF Left
<1>11. CASE FireFile \/ NewList
  BY <1>1, <1>11 DEF FireFile, NewList, CursorTypeOK
<1>12. CASE UNCHANGED cursorVars
  BY <1>12 DEF cursorVars, CursorTypeOK
<1> QED
  BY <1>4, <1>7, <1>8, <1>9, <1>10, <1>11, <1>12 DEF CursorNext

LEMMA TypeInit == CursorInit => CursorTypeOK
BY CursorAssumption DEF CursorInit, CursorTypeOK, Screen

LEMMA MoveBarStep ==
    ASSUME NEW s, MoveBar(s), OneBar, phase = "keys"
    PROVE  \A r \in Screen : bg'[r] = Bar <=> r = s - listOffset
<1> TAKE r \in Screen
<1>1. r \in Int /\ r % 2 # Bar
  BY StripeNotBar, CursorAssumption DEF Screen
<1> QED
  BY <1>1 DEF MoveBar, WithBar, WithoutBar, OneBar, Bar

\* While keys are read, the bar is on the selected row and on no other.
THEOREM BarCorrect == CursorSpec => []OneBar
<1>1. CursorInit => CursorTypeOK /\ OneBar
  BY TypeInit DEF CursorInit, OneBar
<1>2. CursorTypeOK /\ OneBar /\ [CursorNext]_cursorVars => OneBar'
  <2> SUFFICES ASSUME CursorTypeOK, OneBar, [CursorNext]_cursorVars PROVE OneBar'
    OBVIOUS
  <2>1. CASE Redraw
    <3>1. listOffset' = listOffset /\ listSelect' = Clamped
      BY <2>1 DEF Redraw
    <3>2. ASSUME NEW r \in Screen PROVE Titles[r] # Bar
      <4>1. Least(listOffset + r, Width - 1) \in Int
        BY CursorAssumption DEF CursorTypeOK, Screen, Least
      <4> QED
        BY <4>1, StripeNotBar DEF Titles
    <3> QED
      BY <2>1, <3>1, <3>2 DEF Redraw, OneBar, WithBar
  <2>2. ASSUME NEW s, Select(s), phase = "keys" PROVE OneBar'
    BY <2>2, MoveBarStep DEF Select, OneBar
  <2>3. ASSUME phase' = "redraw" PROVE OneBar'
    BY <2>3 DEF OneBar
  <2>4. CASE Up
    BY <2>2, <2>3, <2>4 DEF Up, Scroll
  <2>5. CASE Down
    BY <2>2, <2>3, <2>5 DEF Down, Scroll
  <2>6. CASE Right
    BY <2>2, <2>3, <2>6 DEF Right, Scroll
  <2>7. CASE Left
    BY <2>2, <2>3, <2>7 DEF Left, Scroll
  <2>8. CASE FireFile \/ NewList
    BY <2>3, <2>8 DEF FireFile, NewList
  <2>9. CASE UNCHANGED cursorVars
    BY <2>9 DEF cursorVars, OneBar
  <2> QED
    BY <2>1, <2>4, <2>5, <2>6, <2>7, <2>8, <2>9 DEF CursorNext
<1> QED
  BY <1>1, <1>2, TypeStep, PTL DEF CursorSpec

\* Indices stay unsigned chars, backgrounds one of three.
THEOREM CursorTypeCorrect == CursorSpec => []CursorTypeOK
BY TypeInit, TypeStep, PTL DEF CursorSpec
-----------------------------------------------------------------------------
(* MenuFlow: numbers, sets and sequences *)

\* A set of numbers has a least one.
LEMMA LeastNat ==
    ASSUME NEW T \in SUBSET Nat, T # {}
    PROVE  \E x \in T : \A y \in T : x <= y
<1>1. IsWellFoundedOn(OpToRel(<, Nat), Nat)
  BY NatLessThanWellFounded
<1>2. PICK x \in T : \A y \in T : ~ (<<y, x>> \in OpToRel(<, Nat))
  BY <1>1, WFMin
<1>3. ASSUME NEW y \in T, y < x PROVE FALSE
  BY <1>2, <1>3 DEF OpToRel
<1>4. \A y \in T : x \in Nat /\ y \in Nat
  OBVIOUS
<1>. QED BY <1>3, <1>4

\* What the list holds.
Numbers == 0..MaxTitles

\* What r is where k is put into l after its first n.
Inserts(l, r, n, k) ==
    /\ Len(r) = Len(l) + 1
    /\ \A i \in 1..n : r[i] = l[i]
    /\ r[n + 1] = k
    /\ \A i \in (n + 2)..(Len(l) + 1) : r[i] = l[i - 1]

\* What is in r then, and what stands beside what.
Holds(l, r, n, k) ==
    /\ \A i \in DOMAIN r : r[i] = k \/ \E j \in DOMAIN l : r[i] = l[j]
    /\ \E i \in DOMAIN r : r[i] = k
    /\ \A j \in DOMAIN l : \E i \in DOMAIN r : r[i] = l[j]
    /\ \A i \in 1..(Len(r) - 1) :
          \/ i + 1 \in 1..n /\ i \in 1..(Len(l) - 1) /\ r[i] = l[i] /\ r[i + 1] = l[i + 1]
          \/ n \in 1..n /\ r[i] = l[n] /\ r[i + 1] = k
          \/ n + 1 \in (n + 1)..Len(l) /\ r[i] = k /\ r[i + 1] = l[n + 1]
          \/ i - 1 \in 1..(Len(l) - 1) /\ r[i] = l[i - 1] /\ r[i + 1] = l[(i - 1) + 1]

\* The community modules' InsertAt does that.
LEMMA Inserted ==
    ASSUME NEW l \in Seq(Numbers), NEW n \in 0..Len(l), NEW k \in Numbers
    PROVE  InsertAt(l, n + 1, k) \in Seq(Numbers) /\ Inserts(l, InsertAt(l, n + 1, k), n, k)
<1> DEFINE a == SubSeq(l, 1, n)
           b == SubSeq(l, n + 1, Len(l))
           r == InsertAt(l, n + 1, k)
<1>1. Len(l) \in Nat /\ n \in Nat
  OBVIOUS
<1>2. a \in Seq(Numbers) /\ Len(a) = n /\ \A i \in 1..n : a[i] = l[i]
  BY <1>1
<1>3. b \in Seq(Numbers) /\ Len(b) = Len(l) - n /\ \A i \in 1..(Len(l) - n) : b[i] = l[n + i]
  BY <1>1
<1>4. r = (a \o <<k>>) \o b
  <2>1. (n + 1) - 1 = n
    BY <1>1
  <2>. QED BY <2>1, Zenon DEF InsertAt
<1>. HIDE DEF a, b, r
<1> DEFINE c == a \o <<k>>
<1>5. c \in Seq(Numbers) /\ Len(c) = n + 1 /\ c[n + 1] = k /\ \A i \in 1..n : c[i] = l[i]
  BY <1>1, <1>2
<1>. HIDE DEF c
<1>6. r = c \o b
  BY <1>4 DEF c
<1>7. r \in Seq(Numbers) /\ Len(r) = Len(l) + 1
  BY <1>1, <1>3, <1>5, <1>6
<1>8. \A i \in 1..(n + 1) : r[i] = c[i]
  BY <1>1, <1>3, <1>5, <1>6
<1>9. ASSUME NEW i \in (n + 2)..(Len(l) + 1) PROVE r[i] = l[i - 1]
  <2>1. r[i] = b[i - (n + 1)]
    BY <1>1, <1>3, <1>5, <1>6
  <2>2. i - (n + 1) \in 1..(Len(l) - n) /\ n + (i - (n + 1)) = i - 1
    BY <1>1
  <2>. QED BY <1>3, <2>1, <2>2
<1>10. Inserts(l, r, n, k)
  BY <1>1, <1>5, <1>7, <1>8, <1>9 DEF Inserts
<1>. QED BY <1>7, <1>10 DEF r

\* Where what a sequence held is found, once k is put in after its first n.
LEMMA Positions ==
    ASSUME NEW l \in Seq(Numbers), NEW r \in Seq(Numbers), NEW n \in 0..Len(l), NEW k \in Numbers,
           Inserts(l, r, n, k)
    PROVE  Holds(l, r, n, k)
<1>. USE DEF Inserts
<1>1. /\ Len(l) \in Nat /\ n \in Nat /\ DOMAIN l = 1..Len(l) /\ DOMAIN r = 1..(Len(l) + 1)
  OBVIOUS
<1>2. ASSUME NEW i \in DOMAIN r PROVE r[i] = k \/ \E j \in DOMAIN l : r[i] = l[j]
  <2>1. CASE i \in 1..n
    <3>1. r[i] = l[i] /\ i \in DOMAIN l
      BY <1>1, <2>1
    <3>. QED BY <3>1
  <2>2. CASE i = n + 1
    BY <2>2
  <2>3. CASE i \in (n + 2)..(Len(l) + 1)
    <3>1. r[i] = l[i - 1] /\ i - 1 \in DOMAIN l
      BY <1>1, <2>3
    <3>. QED BY <3>1
  <2>. QED BY <1>1, <2>1, <2>2, <2>3
<1>3. n + 1 \in DOMAIN r
  BY <1>1
<1>4. ASSUME NEW j \in DOMAIN l PROVE \E i \in DOMAIN r : r[i] = l[j]
  <2>1. CASE j <= n
    <3>1. j \in 1..n /\ j \in DOMAIN r
      BY <1>1, <2>1
    <3>. QED BY <3>1
  <2>2. CASE j > n
    <3>1. j + 1 \in (n + 2)..(Len(l) + 1) /\ (j + 1) - 1 = j /\ j + 1 \in DOMAIN r
      BY <1>1, <2>2
    <3>. QED BY <3>1
  <2>. QED BY <1>1, <2>1, <2>2
<1>5. ASSUME NEW i \in 1..(Len(r) - 1)
      PROVE  \/ i + 1 \in 1..n /\ i \in 1..(Len(l) - 1) /\ r[i] = l[i] /\ r[i + 1] = l[i + 1]
             \/ n \in 1..n /\ r[i] = l[n] /\ r[i + 1] = k
             \/ n + 1 \in (n + 1)..Len(l) /\ r[i] = k /\ r[i + 1] = l[n + 1]
             \/ i - 1 \in 1..(Len(l) - 1) /\ r[i] = l[i - 1] /\ r[i + 1] = l[(i - 1) + 1]
  <2>1. CASE i < n
    <3>1. i \in 1..n /\ i + 1 \in 1..n /\ i \in 1..(Len(l) - 1)
      BY <1>1, <2>1
    <3>. QED BY <3>1
  <2>2. CASE i = n
    <3>1. n \in 1..n
      BY <1>1, <2>2
    <3>. QED BY <2>2, <3>1
  <2>3. CASE i = n + 1
    <3>1. i + 1 \in (n + 2)..(Len(l) + 1) /\ (i + 1) - 1 = n + 1 /\ n + 1 \in (n + 1)..Len(l)
      BY <1>1, <2>3
    <3>2. r[i + 1] = l[n + 1]
      BY <3>1
    <3>. QED BY <2>3, <3>1, <3>2
  <2>4. CASE i > n + 1
    <3>1. /\ i \in (n + 2)..(Len(l) + 1) /\ i + 1 \in (n + 2)..(Len(l) + 1)
          /\ i - 1 \in 1..(Len(l) - 1) /\ (i + 1) - 1 = i /\ (i - 1) + 1 = i
      BY <1>1, <2>4
    <3>2. r[i] = l[i - 1] /\ r[i + 1] = l[(i + 1) - 1]
      BY <3>1
    <3>. QED BY <3>1, <3>2
  <2>. QED BY <1>1, <2>1, <2>2, <2>3, <2>4
<1>. QED BY <1>2, <1>3, <1>4, <1>5 DEF Holds

\* One more entry is one more title, unless it is hidden.
LEMMA RankStep ==
    ASSUME NEW f, NEW i \in Nat
    PROVE  /\ Rank(f, 0) = 0
           /\ Rank(f, i) \in 0..i
           /\ Rank(f, i + 1) = Rank(f, i) + (IF f[i + 1].name \in Hidden THEN 0 ELSE 1)
<1> DEFINE S(k) == {j \in 1..k : f[j].name \notin Hidden}
<1>1. \A k \in Nat : IsFiniteSet(1..k) /\ Cardinality(1..k) = k
  <2>1. ASSUME NEW k \in Nat PROVE IsFiniteSet(1..k) /\ Cardinality(1..k) = k
    BY FS_Interval
  <2>. QED BY <2>1
<1>2. IsFiniteSet(S(i)) /\ Cardinality(S(i)) \in Nat /\ Cardinality(S(i)) <= i
  <2>1. S(i) \in SUBSET (1..i)
    OBVIOUS
  <2>. QED BY <1>1, <2>1, FS_Subset, FS_CardinalityType
<1>3. S(0) = {} /\ Cardinality(S(0)) = 0
  <2>1. S(0) = {}
    OBVIOUS
  <2>. QED BY <2>1, FS_EmptySet
<1>4. CASE f[i + 1].name \in Hidden
  <2>1. S(i + 1) = S(i)
    <3>1. \A j \in 1..(i + 1) : j \in 1..i \/ j = i + 1
      OBVIOUS
    <3>. QED BY <1>4, <3>1
  <2>. QED BY <1>2, <1>3, <1>4, <2>1 DEF Rank
<1>5. CASE f[i + 1].name \notin Hidden
  <2>1. S(i + 1) = S(i) \cup {i + 1} /\ i + 1 \notin S(i)
    <3>1. \A j \in 1..(i + 1) : j \in 1..i \/ j = i + 1
      OBVIOUS
    <3>. QED BY <1>5, <3>1
  <2>2. Cardinality(S(i + 1)) = Cardinality(S(i)) + 1
    BY <1>2, <2>1, FS_AddElement
  <2>. QED BY <1>2, <1>3, <1>5, <2>2 DEF Rank
<1>. QED BY <1>4, <1>5

\* Ranks grow, and with each entry that is not hidden.
LEMMA RankGrows ==
    ASSUME NEW f, NEW i \in Nat, NEW j \in Nat, i < j
    PROVE  /\ Rank(f, i) <= Rank(f, j)
           /\ f[j].name \notin Hidden => Rank(f, i) < Rank(f, j)
<1> DEFINE S(k) == {x \in 1..k : f[x].name \notin Hidden}
<1>1. IsFiniteSet(S(j)) /\ Cardinality(S(j)) \in Nat
  <2>1. S(j) \in SUBSET (1..j) /\ IsFiniteSet(1..j)
    BY FS_Interval
  <2>. QED BY <2>1, FS_Subset, FS_CardinalityType
<1>2. S(i) \in SUBSET S(j)
  OBVIOUS
<1>3. IsFiniteSet(S(i)) /\ Cardinality(S(i)) <= Cardinality(S(j)) /\ (Cardinality(S(j)) = Cardinality(S(i)) => S(j) = S(i))
  BY <1>1, <1>2, FS_Subset
<1>4. Cardinality(S(i)) \in Nat
  BY <1>3, FS_CardinalityType
<1>5. f[j].name \notin Hidden => S(j) # S(i)
  <2>1. f[j].name \notin Hidden => j \in S(j) /\ j \notin S(i)
    OBVIOUS
  <2>. QED BY <2>1
<1>. QED BY <1>1, <1>3, <1>4, <1>5 DEF Rank

\* Counting up ends where a set of numbers ends.
LEMMA CountUp ==
    ASSUME NEW m \in Nat, NEW A
    PROVE  \E n \in 0..m : (\A i \in 1..n : i \in A) /\ (n < m => n + 1 \notin A)
<1> DEFINE T == {n \in 0..m : n < m => n + 1 \notin A}
<1>1. T \in SUBSET Nat /\ m \in T
  OBVIOUS
<1>2. PICK n \in T : \A y \in T : n <= y
  <2>. HIDE DEF T
  <2>. QED BY <1>1, LeastNat
<1>3. ASSUME NEW i \in 1..n PROVE i \in A
  <2>1. i - 1 \in 0..m /\ i - 1 < n /\ i - 1 < m
    BY <1>2
  <2>2. i - 1 \notin T
    <3>1. n \in Nat /\ i - 1 \in Nat
      BY <1>2, <2>1
    <3>. HIDE DEF T
    <3>. QED BY <1>2, <2>1, <3>1
  <2>3. (i - 1) + 1 \in A
    BY <2>1, <2>2
  <2>. QED BY <2>3
<1>. QED BY <1>2, <1>3

\* Counting down ends where a set of numbers begins.
LEMMA CountDown ==
    ASSUME NEW m \in Nat, NEW A
    PROVE  \E n \in 0..m : (\A i \in (n + 1)..m : i \notin A) /\ (n > 0 => n \in A)
<1>1. PICK d \in 0..m : /\ \A i \in 1..d : i \in {x \in 1..m : m + 1 - x \notin A}
                        /\ d < m => d + 1 \notin {x \in 1..m : m + 1 - x \notin A}
  <2> DEFINE B == {x \in 1..m : m + 1 - x \notin A}
  <2>. HIDE DEF B
  <2>1. \E d \in 0..m : (\A i \in 1..d : i \in B) /\ (d < m => d + 1 \notin B)
    BY CountUp
  <2>. QED BY <2>1 DEF B
<1> DEFINE n == m - d
<1>2. n \in 0..m
  OBVIOUS
<1>3. ASSUME NEW i \in (n + 1)..m PROVE i \notin A
  <2>1. m + 1 - i \in 1..d /\ m + 1 - (m + 1 - i) = i
    OBVIOUS
  <2>. QED BY <1>1, <2>1
<1>4. n > 0 => n \in A
  <2>1. n > 0 => d < m /\ d + 1 \in 1..m /\ m + 1 - (d + 1) = n
    OBVIOUS
  <2>. QED BY <1>1, <2>1
<1>. QED BY <1>2, <1>3, <1>4

-----------------------------------------------------------------------------
(* sortDir *)

\* Where a title comes to stand: a folder behind the folders that do not come after
\* it, a file behind all that do not.
LEMMA PlaceIs ==
    ASSUME NEW l, Len(l) \in Nat, NEW k
    PROVE  LET t == Title(k)
               n == Place(l, k)
           IN  /\ n \in 0..Len(l)
               /\ IsDir(t) =>
                    /\ \A i \in 1..n : IsDir(Title(l[i])) /\ ~Before(t, Title(l[i]))
                    /\ n < Len(l) => ~IsDir(Title(l[n + 1])) \/ Before(t, Title(l[n + 1]))
               /\ ~IsDir(t) =>
                    /\ \A i \in (n + 1)..Len(l) : ~IsDir(Title(l[i])) /\ Before(t, Title(l[i]))
                    /\ n > 0 => IsDir(Title(l[n])) \/ ~Before(t, Title(l[n]))
<1> DEFINE t == Title(k)
           up(i) == IsDir(Title(l[i])) /\ ~Before(t, Title(l[i]))
           down(i) == IsDir(Title(l[i])) \/ ~Before(t, Title(l[i]))
<1>1. CASE IsDir(t)
  <2>1. PICK n \in 0..Len(l) : /\ \A i \in 1..n : i \in {x \in 1..Len(l) : up(x)}
                               /\ n < Len(l) => n + 1 \notin {x \in 1..Len(l) : up(x)}
    <3> DEFINE A == {x \in 1..Len(l) : up(x)}
    <3>. HIDE DEF A
    <3>1. \E n \in 0..Len(l) : (\A i \in 1..n : i \in A) /\ (n < Len(l) => n + 1 \notin A)
      BY CountUp
    <3>. QED BY <3>1 DEF A
  <2>2. n < Len(l) => n + 1 \in 1..Len(l)
    OBVIOUS
  <2>3. \E m \in 0..Len(l) : (\A i \in 1..m : up(i)) /\ (m < Len(l) => ~up(m + 1))
    <3>. HIDE DEF up
    <3>. QED BY <2>1, <2>2
  <2>4. Place(l, k) = CHOOSE m \in 0..Len(l) : (\A i \in 1..m : up(i)) /\ (m < Len(l) => ~up(m + 1))
    BY <1>1, Zenon DEF Place
  <2> DEFINE p == Place(l, k)
  <2>. HIDE DEF up
  <2>5. p \in 0..Len(l) /\ (\A i \in 1..p : up(i)) /\ (p < Len(l) => ~up(p + 1))
    BY <2>3, <2>4, Zenon
  <2>. QED BY <1>1, <2>5, Zenon DEF up
<1>2. CASE ~IsDir(t)
  <2>1. PICK n \in 0..Len(l) : /\ \A i \in (n + 1)..Len(l) : i \notin {x \in 1..Len(l) : down(x)}
                               /\ n > 0 => n \in {x \in 1..Len(l) : down(x)}
    <3> DEFINE A == {x \in 1..Len(l) : down(x)}
    <3>. HIDE DEF A
    <3>1. \E n \in 0..Len(l) : (\A i \in (n + 1)..Len(l) : i \notin A) /\ (n > 0 => n \in A)
      BY CountDown
    <3>. QED BY <3>1 DEF A
  <2>2. \A i \in (n + 1)..Len(l) : i \in 1..Len(l)
    OBVIOUS
  <2>3. \E m \in 0..Len(l) : (\A i \in (m + 1)..Len(l) : ~down(i)) /\ (m > 0 => down(m))
    <3>. HIDE DEF down
    <3>. QED BY <2>1, <2>2
  <2>4. Place(l, k) = CHOOSE m \in 0..Len(l) : (\A i \in (m + 1)..Len(l) : ~down(i)) /\ (m > 0 => down(m))
    BY <1>2, Zenon DEF Place
  <2> DEFINE p == Place(l, k)
  <2>. HIDE DEF down
  <2>5. p \in 0..Len(l) /\ (\A i \in (p + 1)..Len(l) : ~down(i)) /\ (p > 0 => down(p))
    BY <2>3, <2>4, Zenon
  <2>. QED BY <1>2, <2>5, Zenon DEF down
<1>. QED BY <1>1, <1>2, Zenon

TitleSet == [name : Names \cup {".."}, pages : 0..255]

\* What sortDir has made of the titles it has come to.
InOrder(l) == IsDir(titles[1]) =>
                 /\ Range(l) = 1..Len(l)
                 /\ \A i \in 1..(Len(l) - 1) : Ordered(Title(l[i]), Title(l[i + 1]))

\* What a pointer leads to can be read as a title.
LEMMA TitleIs ==
    ASSUME titles \in Seq(TitleSet), NEW k \in Numbers
    PROVE  Title(k) \in TitleSet
<1>1. CASE k \in DOMAIN titles
  BY <1>1 DEF Title
<1>2. CASE k \notin DOMAIN titles
  BY <1>2, MenuAssumption DEF Title, TitleSet, Numbers, DotDot
<1>. QED BY <1>1, <1>2

\* Names are compared as numbers are.
LEMMA OrderIs ==
    ASSUME titles \in Seq(TitleSet), NEW i \in Numbers, NEW j \in Numbers
    PROVE  Before(Title(i), Title(j)) => ~Before(Title(j), Title(i))
<1>1. ASSUME NEW k \in Numbers PROVE Order(Title(k).name) \in Nat
  <2>1. Title(k).name \in Names \cup {DotDot.name}
    BY TitleIs DEF TitleSet, DotDot
  <2>. QED BY <2>1, MenuAssumption
<1>. QED BY <1>1 DEF Before

\* The next title comes where it belongs.
LEMMA InsertIs ==
    ASSUME titles \in Seq(TitleSet), Len(titles) <= MaxTitles,
           NEW l \in Seq(0..MaxTitles), Len(l) < Len(titles), NEW m \in 0..MaxTitles, InOrder(l)
    PROVE  LET r == Insert(l, Len(l) + 1, m) IN
           /\ r \in Seq(0..MaxTitles) /\ Len(r) = Len(l) + 1
           /\ InOrder(r)
<1> DEFINE k == Len(l) + 1
           t == Title(k)
           n == Place(l, k)
           r == Insert(l, k, m)
<1>1. /\ Len(l) \in Nat /\ k \in 1..MaxTitles /\ k <= Len(titles) /\ MaxTitles \in Nat
      /\ DOMAIN l = 1..Len(l) /\ k = Len(l) + 1
  BY MenuAssumption
<1>2. /\ n \in 0..Len(l)
      /\ IsDir(t) =>
           /\ \A i \in 1..n : IsDir(Title(l[i])) /\ ~Before(t, Title(l[i]))
           /\ n < Len(l) => ~IsDir(Title(l[n + 1])) \/ Before(t, Title(l[n + 1]))
      /\ ~IsDir(t) =>
           /\ \A i \in (n + 1)..Len(l) : ~IsDir(Title(l[i])) /\ Before(t, Title(l[i]))
           /\ n > 0 => IsDir(Title(l[n])) \/ ~Before(t, Title(l[n]))
  BY <1>1, PlaceIs
<1>. HIDE DEF n, t, k
<1>3. CASE ~IsDir(t) /\ n = 0
  <2>1. r = Append(l, m)
    BY <1>3 DEF Insert, n, t
  <2>2. ~IsDir(titles[1])
    <3>1. SUFFICES ASSUME IsDir(titles[1]) PROVE FALSE
      OBVIOUS
    <3>2. CASE Len(l) = 0
      <4>1. Title(k) = titles[1]
        BY <1>1, <3>2 DEF Title
      <4>. QED BY <1>3, <3>1, <4>1 DEF t
    <3>3. CASE Len(l) # 0
      <4>1. 1 \in Range(l)
        BY <1>1, <3>1, <3>3 DEF InOrder
      <4>2. PICK i \in DOMAIN l : l[i] = 1
        BY <4>1 DEF Range
      <4>3. Title(l[i]) = titles[1]
        BY <4>2 DEF Title
      <4>. QED BY <1>1, <1>2, <1>3, <3>1, <4>2, <4>3
    <3>. QED BY <3>2, <3>3
  <2>3. r \in Seq(0..MaxTitles) /\ Len(r) = Len(l) + 1
    <3>. HIDE DEF r
    <3>. QED BY <1>1, <2>1
  <2>. QED BY <2>2, <2>3 DEF InOrder, k
<1>4. CASE IsDir(t) \/ n # 0
  <2>1. r = InsertAt(l, n + 1, k)
    BY <1>4 DEF Insert, n, t
  <2>2. r \in Seq(Numbers) /\ Inserts(l, r, n, k) /\ Holds(l, r, n, k)
    <3>1. k \in Numbers /\ l \in Seq(Numbers)
      BY <1>1 DEF Numbers
    <3>2. InsertAt(l, n + 1, k) \in Seq(Numbers) /\ Inserts(l, InsertAt(l, n + 1, k), n, k)
      BY <1>2, <3>1, Inserted
    <3>3. Holds(l, InsertAt(l, n + 1, k), n, k)
      BY <1>2, <3>1, <3>2, Positions
    <3>. QED BY <2>1, <3>2, <3>3
  <2>3. r \in Seq(0..MaxTitles) /\ Len(r) = Len(l) + 1
    BY <2>2 DEF Numbers, Inserts
  <2>. HIDE DEF r
  <2>4. /\ \A i \in DOMAIN r : r[i] = k \/ \E j \in DOMAIN l : r[i] = l[j]
        /\ \E i \in DOMAIN r : r[i] = k
        /\ \A j \in DOMAIN l : \E i \in DOMAIN r : r[i] = l[j]
        /\ \A i \in 1..(Len(r) - 1) :
              \/ i + 1 \in 1..n /\ i \in 1..(Len(l) - 1) /\ r[i] = l[i] /\ r[i + 1] = l[i + 1]
              \/ n \in 1..n /\ r[i] = l[n] /\ r[i + 1] = k
              \/ n + 1 \in (n + 1)..Len(l) /\ r[i] = k /\ r[i + 1] = l[n + 1]
              \/ i - 1 \in 1..(Len(l) - 1) /\ r[i] = l[i - 1] /\ r[i + 1] = l[(i - 1) + 1]
    BY <2>2 DEF Holds
  <2>8. ASSUME IsDir(titles[1]), Range(l) = 1..Len(l) PROVE Range(r) = 1..Len(r)
    <3>0. \A j \in DOMAIN l : l[j] \in 1..Len(l)
      BY <2>8 DEF Range
    <3>1. ASSUME NEW i \in DOMAIN r PROVE r[i] \in 1..Len(r)
      <4>0. Len(r) = k
        BY <1>1, <2>3
      <4>1. \A x \in 1..Len(l) : x \in 1..k
        BY <1>1
      <4>2. k \in 1..k
        BY <1>1
      <4>. QED BY <2>4, <3>0, <4>0, <4>1, <4>2
    <3>2. ASSUME NEW x \in 1..Len(r) PROVE \E i \in DOMAIN r : r[i] = x
      <4>1. CASE x = k
        BY <2>4, <4>1
      <4>2. CASE x # k
        <5>1. x \in 1..Len(l)
          BY <1>1, <2>3, <4>2
        <5>2. PICK j \in DOMAIN l : l[j] = x
          BY <2>8, <5>1 DEF Range
        <5>. QED BY <2>4, <5>2
      <4>. QED BY <4>1, <4>2
    <3>. QED BY <3>1, <3>2 DEF Range
  <2>9. ASSUME \A i \in 1..(Len(l) - 1) : Ordered(Title(l[i]), Title(l[i + 1])),
               NEW i \in 1..(Len(r) - 1)
        PROVE  Ordered(Title(r[i]), Title(r[i + 1]))
    <3>1. n + 1 \in (n + 1)..Len(l) => l[n + 1] \in Numbers /\ n < Len(l)
      <4>1. \A j \in DOMAIN l : l[j] \in Numbers
        BY <1>1 DEF Numbers
      <4>2. n + 1 \in (n + 1)..Len(l) => n + 1 \in DOMAIN l /\ n < Len(l)
        BY <1>1, <1>2
      <4>. QED BY <4>1, <4>2
    <3>2. k \in Numbers
      BY <1>1 DEF Numbers
    <3>3. CASE i \in 1..(Len(l) - 1) /\ r[i] = l[i] /\ r[i + 1] = l[i + 1]
      BY <2>9, <3>3
    <3>4. CASE n \in 1..n /\ r[i] = l[n] /\ r[i + 1] = k
      <4>1. n > 0
        BY <1>1, <1>2, <3>4
      <4>2. IsDir(t) => IsDir(Title(l[n])) /\ ~Before(t, Title(l[n]))
        BY <1>2, <3>4, Zenon
      <4>3. ~IsDir(t) => IsDir(Title(l[n])) \/ ~Before(t, Title(l[n]))
        BY <1>2, <4>1, Zenon
      <4>. QED BY <3>4, <4>2, <4>3, Zenon DEF Ordered, t
    <3>5. CASE n + 1 \in (n + 1)..Len(l) /\ r[i] = k /\ r[i + 1] = l[n + 1]
      <4>2. Before(t, Title(l[n + 1])) => ~Before(Title(l[n + 1]), t)
        BY <3>1, <3>2, <3>5, OrderIs DEF t
      <4>3. IsDir(t) => ~IsDir(Title(l[n + 1])) \/ Before(t, Title(l[n + 1]))
        BY <1>2, <3>1, <3>5, Zenon
      <4>4. ~IsDir(t) => ~IsDir(Title(l[n + 1])) /\ Before(t, Title(l[n + 1]))
        BY <1>2, <3>5, Zenon
      <4>. QED BY <3>5, <4>2, <4>3, <4>4, Zenon DEF Ordered, t
    <3>6. CASE i - 1 \in 1..(Len(l) - 1) /\ r[i] = l[i - 1] /\ r[i + 1] = l[(i - 1) + 1]
      BY <2>9, <3>6
    <3>. QED BY <2>4, <3>3, <3>4, <3>5, <3>6
  <2>10. InOrder(r)
    BY <2>8, <2>9 DEF InOrder
  <2>. QED BY <2>3, <2>10 DEF r, k
<1>. QED BY <1>3, <1>4 DEF k

-----------------------------------------------------------------------------
(* The invariant *)

\* The folder that path names, on the card that was mounted.
ThisFolder == Tree[media][path]

ListOK ==
    /\ media \in Cards /\ path \in DOMAIN Tree[media]
    /\ TitlesOf(ThisFolder)
    /\ \A k \in DOMAIN titles : titles[k] = DotDot \/ \E i \in DOMAIN ThisFolder : titles[k] = Show(ThisFolder[i])

\* While readDir reads: the titles are those of what was read.
ReadOK ==
    /\ ListOK
    /\ pos \in 1..(Len(ThisFolder) + 1) /\ Len(titles) = Above + Rank(ThisFolder, pos - 1)
    /\ Len(titles) < MaxTitles /\ sortedList = <<>> /\ selection = 0

ReadDone == (titles # <<>> => ListOK) /\ sortedList = <<>> /\ selection = 0

\* While sortDir sorts: what it has come to is in the list, in order.
SortOK ==
    /\ titles # <<>> /\ ListOK
    /\ Len(sortedList) <= Len(titles) /\ InOrder(sortedList)

ShowOK == SortOK /\ Len(sortedList) = Len(titles) /\ selection < Len(sortedList)

FlowTyped ==
    /\ TypeOK
    /\ ready => media \in Cards
    /\ pc = "blank" => after \in {"wait", "select"}
    /\ pc = "blank" /\ after = "wait" => count.cntDown = BlankTime + 1

Lists ==
    /\ pc = "readDir" => ReadOK
    /\ pc = "sort" \/ (pc = "error" /\ after = "sort") => ReadDone
    /\ pc = "sortDir" => SortOK /\ selection = 0
    /\ Shown => ShowOK

Opens == pc = "opened" => ~IsDir(Chosen) /\ opened = Append(path, Chosen.name)

FlowInv == FlowTyped /\ Lists /\ Opens

-----------------------------------------------------------------------------
(* What stays as it was *)

\* The list is of the folder as long as neither changes.
LEMMA ListKept ==
    ASSUME UNCHANGED <<media, path, titles>>
    PROVE  ListOK' <=> ListOK
<1>1. Above' = Above /\ ThisFolder' = ThisFolder
  BY DEF Above, ThisFolder
<1>. QED BY <1>1 DEF ListOK, TitlesOf

LEMMA SortKept ==
    ASSUME UNCHANGED <<media, path, titles, sortedList>>
    PROVE  SortOK' <=> SortOK
<1>1. \A k : (Title(k))' = Title(k)
  BY DEF Title
<1>2. ListOK' <=> ListOK
  BY ListKept
<1>3. InOrder(sortedList)' <=> InOrder(sortedList)
  BY <1>1 DEF InOrder
<1>. QED BY <1>2, <1>3 DEF SortOK

LEMMA ShowKept ==
    ASSUME UNCHANGED <<media, path, titles, sortedList, selection>>
    PROVE  /\ ShowOK' <=> ShowOK
           /\ ReadDone' <=> ReadDone
<1>1. (SortOK' <=> SortOK) /\ (ListOK' <=> ListOK)
  BY ListKept, SortKept
<1>. QED BY <1>1 DEF ShowOK, ReadDone

\* What an entry of a folder is.
EntrySet == [name : Names, dir : BOOLEAN, pages : 0..255]

LEMMA EntryIs ==
    ASSUME media \in Cards, path \in DOMAIN Tree[media]
    PROVE  /\ ThisFolder \in Seq([name : Names, dir : BOOLEAN, pages : 0..255])
           /\ Len(ThisFolder) \in Nat /\ DOMAIN ThisFolder = 1..Len(ThisFolder)
           /\ \A i \in DOMAIN ThisFolder : ThisFolder[i].name \in Names /\ Show(ThisFolder[i]) \in TitleSet
<1>1. ThisFolder \in Seq([name : Names, dir : BOOLEAN, pages : 0..255])
  BY MenuAssumption DEF ThisFolder
<1>2. Len(ThisFolder) \in Nat /\ DOMAIN ThisFolder = 1..Len(ThisFolder)
  BY <1>1
<1>3. ASSUME NEW i \in DOMAIN ThisFolder PROVE ThisFolder[i].name \in Names /\ Show(ThisFolder[i]) \in TitleSet
  <2>0. ThisFolder \in Seq(EntrySet)
    BY <1>1 DEF EntrySet
  <2>1. ThisFolder[i] \in EntrySet
    BY <2>0
  <2>2. ThisFolder[i].name \in Names /\ ThisFolder[i].pages \in 0..255
    BY <2>1 DEF EntrySet
  <2>3. (IF ThisFolder[i].dir THEN 0 ELSE ThisFolder[i].pages) \in 0..255
    BY <2>2
  <2>. HIDE DEF ThisFolder
  <2>. QED BY <2>2, <2>3 DEF Show, TitleSet
<1>. QED BY <1>1, <1>2, <1>3

\* What is chosen can be read as a title, and is one where the list has one.
LEMMA ChosenIs ==
    ASSUME TypeOK, ShowOK
    PROVE  /\ Chosen \in TitleSet
           /\ sortedList[selection + 1] \in DOMAIN titles => \E k \in DOMAIN titles : Chosen = titles[k]
<1> DEFINE k == sortedList[selection + 1]
<1>1. titles \in Seq(TitleSet) /\ sortedList \in Seq(Numbers) /\ selection \in Numbers
  BY DEF TypeOK, TitleSet, Numbers
<1>2. selection + 1 \in DOMAIN sortedList
  BY <1>1 DEF ShowOK, Numbers
<1>3. k \in Numbers
  BY <1>1, <1>2
<1>4. Title(k) \in TitleSet
  BY <1>1, <1>3, TitleIs
<1>. QED BY <1>4 DEF Chosen, Title

-----------------------------------------------------------------------------
(* Every step keeps the types *)

ListTyped ==
    /\ path \in Seq(Names)
    /\ titles \in Seq(TitleSet) /\ Len(titles) <= MaxTitles
    /\ sortedList \in Seq(Numbers) /\ Len(sortedList) <= MaxTitles
    /\ selection \in Numbers /\ opened \in Seq(Names)

CountSet == [debounce : 0..1, cntDown : 1..(BlankTime + 1)]

RestTyped ==
    /\ slot \in Cards \cup {NoCard} /\ media \in Cards \cup {NoCard}
    /\ ready \in BOOLEAN /\ firstScan \in BOOLEAN
    /\ pos \in Nat \ {0}
    /\ count \in CountSet
    /\ pc \in {"nocard", "wait", "blank", "error", "mount", "dirLoop", "readDir", "sort", "sortDir",
               "select", "chosen", "opened", "started"}
    /\ after \in {"nocard", "wait", "sort", "select", "dirLoop"}
    /\ ready => media \in Cards
    /\ pc = "blank" => after \in {"wait", "select"}
    /\ pc = "blank" /\ after = "wait" => count.cntDown = BlankTime + 1

\* The types in two parts.
LEMMA TypedIs == FlowTyped <=> ListTyped /\ RestTyped
BY DEF FlowTyped, TypeOK, ListTyped, RestTyped, TitleSet, Numbers, CountSet

\* Every step keeps the types of what is not the list.
LEMMA RestTypedKept == RestTyped /\ [Next]_vars => RestTyped'
<1>. SUFFICES ASSUME RestTyped, [Next]_vars PROVE RestTyped'
  OBVIOUS
<1>0. /\ NoCard \notin Cards
      /\ [debounce |-> 0, cntDown |-> BlankTime] \in CountSet
  BY MenuAssumption DEF CountSet
<1>. USE <1>0 DEF RestTyped, card, Goto, Error
<1>1. CASE Nocard
  BY <1>1 DEF Nocard, Forget
<1>2. CASE WaitSDCard
  <2>1. CASE count.cntDown = 1
    <3>1. count' \in CountSet /\ count'.cntDown = BlankTime + 1
      BY <1>2, <2>1, MenuAssumption DEF WaitSDCard, CountSet
    <3>. QED BY <1>2, <2>1, <3>1 DEF WaitSDCard
  <2>2. CASE count.cntDown # 1
    <3>1. count.cntDown - 1 \in 1..(BlankTime + 1) /\ count.debounce + 1 \in {1, 2}
      BY <2>2, MenuAssumption DEF CountSet
    <3>2. pc' \in {"mount", "wait"} /\ after' = after /\ UNCHANGED <<card, firstScan, pos>>
      BY <1>2, <2>2 DEF WaitSDCard, Debounce
    <3>3. count' \in CountSet
      BY <1>2, <2>2, <3>1 DEF WaitSDCard, Debounce, CountSet
    <3>. QED BY <3>2, <3>3
  <2>. QED BY <2>1, <2>2
<1>3. CASE Unblank
  <2>1. CASE after = "wait"
    <3>1. count' \in CountSet
      BY <1>3, <2>1, MenuAssumption DEF Unblank, Debounce, CountSet
    <3>2. pc' \in {"mount", "wait"} /\ after' = "nocard" /\ UNCHANGED <<card, firstScan, pos>>
      BY <1>3, <2>1 DEF Unblank, Debounce
    <3>. QED BY <3>1, <3>2
  <2>2. CASE after = "select"
    BY <1>3, <2>2 DEF Unblank
  <2>. QED BY <1>3, <2>1, <2>2 DEF Unblank
<1>4. CASE Mount
  <2>1. /\ ready' \in BOOLEAN /\ firstScan' \in BOOLEAN
        /\ media' \in Cards \cup {NoCard} /\ (ready' => media' \in Cards)
    BY <1>4, Zenon DEF Mount
  <2>2. UNCHANGED <<slot, pos>> /\ count' \in CountSet
    BY <1>4, Zenon DEF Mount
  <2>3. \/ pc' = "dirLoop" /\ after' = after
        \/ pc' = "error" /\ after' = "nocard"
    BY <1>4, Zenon DEF Mount
  <2>. QED BY <2>1, <2>2, <2>3
<1>5. CASE OpenDir \/ ReadEnds \/ ReadGone \/ EnterColeco
  <2>1. firstScan' \in BOOLEAN /\ UNCHANGED <<slot, media, ready, count>>
    BY <1>5, Zenon DEF OpenDir, ReadEnds, ReadGone, EnterColeco
  <2>2. pos' = 1 /\ pc' \in {"readDir", "sort", "dirLoop"} /\ after' = after
    BY <1>5 DEF OpenDir, ReadEnds, ReadGone, EnterColeco
  <2>. QED BY <2>1, <2>2
<1>6. CASE Dismiss \/ ReadHidden
  BY <1>6 DEF Dismiss, ReadHidden, Reading
<1>8. CASE ReadTitle
  <2>1. firstScan' \in BOOLEAN /\ UNCHANGED <<slot, media, ready, count>>
    BY <1>8, Zenon DEF ReadTitle
  <2>2. \/ pos' = 1 /\ pc' = "error" /\ after' = "sort"
        \/ pos' = pos + 1 /\ pc' = "readDir" /\ after' = after
    BY <1>8, Zenon DEF ReadTitle, Reading
  <2>. QED BY <2>1, <2>2
<1>9. CASE Listed
  BY <1>9 DEF Listed
<1>10. CASE SortDir
  BY <1>10 DEF SortDir
<1>. USE DEF vars
<1>11. CASE \E i \in 0..(Len(sortedList) - 1) : Move(i)
  <2>1. UNCHANGED <<slot, media, ready, firstScan, pos, count, pc, after>>
    BY <1>11, Zenon DEF Move, card
  <2>. QED BY <2>1
<1>12. CASE Blank \/ Selected \/ CardGone
  <2>1. UNCHANGED <<slot, media, ready, firstScan, pos, count>>
    BY <1>12, Zenon DEF Blank, Selected, CardGone, card
  <2>2. \/ pc' = "blank" /\ after' = "select"
        \/ pc' \in {"chosen", "nocard"} /\ after' = after
    BY <1>12 DEF Blank, Selected, CardGone
  <2>. QED BY <2>1, <2>2
<1>13. CASE Leave \/ Enter \/ PathTooLong
  BY <1>13 DEF Leave, Enter, PathTooLong, Folder
<1>14. CASE FileTooLong \/ OpenFile
  <2>1. UNCHANGED <<slot, media, ready, firstScan, pos, count>>
    BY <1>14, Zenon DEF FileTooLong, OpenFile, card
  <2>2. \/ pc' = "error" /\ after' = "select"
        \/ pc' = "opened" /\ after' = after
    BY <1>14, Zenon DEF FileTooLong, OpenFile, Error, Goto
  <2>. QED BY <2>1, <2>2
<1>16. CASE Load
  BY <1>16 DEF Load
<1>17. CASE Card
  BY <1>17 DEF Card
<1>18. CASE UNCHANGED vars
  BY <1>18 DEF vars
<1>. QED BY <1>1, <1>2, <1>3, <1>4, <1>5, <1>6, <1>8, <1>9, <1>10, <1>11, <1>12, <1>13, <1>14,
            <1>16, <1>17, <1>18
     DEF Next, Program, Input

\* The steps that leave the folder and the list alone.
Quiet ==
    \/ WaitSDCard \/ Unblank \/ Dismiss \/ ReadEnds \/ ReadGone \/ ReadHidden \/ Listed
    \/ Blank \/ Selected \/ CardGone \/ PathTooLong \/ FileTooLong \/ OpenFile \/ Load
    \/ Card \/ UNCHANGED vars

LEMMA QuietIs == Quiet => UNCHANGED <<media, path, titles, sortedList, selection>>
<1>. SUFFICES ASSUME Quiet PROVE UNCHANGED <<media, path, titles, sortedList, selection>>
  OBVIOUS
<1>. USE DEF card, list
<1>1. CASE WaitSDCard \/ Unblank \/ Dismiss
  BY <1>1, Zenon DEF WaitSDCard, Unblank, Dismiss
<1>2. CASE ReadEnds \/ ReadGone \/ ReadHidden \/ Listed
  BY <1>2, Zenon DEF ReadEnds, ReadGone, ReadHidden, Listed
<1>3. CASE Blank \/ Selected \/ CardGone \/ PathTooLong
  BY <1>3, Zenon DEF Blank, Selected, CardGone, PathTooLong
<1>4. CASE FileTooLong \/ OpenFile \/ Load \/ Card
  BY <1>4, Zenon DEF FileTooLong, OpenFile, Load, Card
<1>5. CASE UNCHANGED vars
  BY <1>5, Zenon DEF vars
<1>. QED BY <1>1, <1>2, <1>3, <1>4, <1>5, Zenon DEF Quiet

\* What is opened is a file of the card.
LEMMA OpenedTyped ==
    ASSUME ListTyped, RestTyped, OpenFile
    PROVE  opened' \in Seq(Names)
<1>1. CASE ready /\ HasFile(Front(Path2), Last(Path2)) /\ opened' = Path2
  <2>1. Path2 \in Seq(Names \cup {Chosen.name}) /\ Len(Path2) = Len(path) + 1 /\ path \in Seq(Names)
        /\ Len(path) \in Nat /\ Path2[Len(path) + 1] = Chosen.name
    BY DEF Path2, ListTyped
  <2>2. Last(Path2) = Chosen.name
    BY <2>1 DEF Last
  <2>3. PICK e \in Range(Tree[media][Front(Path2)]) : e.name = Chosen.name
    BY <1>1, <2>2, Zenon DEF HasFile
  <2>4. media \in Cards /\ Front(Path2) \in DOMAIN Tree[media]
    BY <1>1 DEF HasFile, RestTyped
  <2>5. Tree[media][Front(Path2)] \in Seq(EntrySet)
    BY <2>4, MenuAssumption DEF EntrySet
  <2>6. \A s \in Seq(EntrySet) : \A x \in Range(s) : x \in EntrySet
    BY DEF Range
  <2>7. e \in EntrySet
    BY <2>3, <2>5, <2>6
  <2>8. Chosen.name \in Names
    BY <2>3, <2>7 DEF EntrySet
  <2>. QED BY <1>1, <2>1, <2>8 DEF Path2
<1>2. CASE UNCHANGED opened
  BY <1>2 DEF ListTyped
<1>. QED BY <1>1, <1>2 DEF OpenFile

\* Every step keeps the types of the list.
LEMMA ListTypedKept == ListTyped /\ RestTyped /\ Lists /\ [Next]_vars => ListTyped'
<1>. SUFFICES ASSUME ListTyped, RestTyped, Lists, [Next]_vars PROVE ListTyped'
  OBVIOUS
<1>. USE DEF ListTyped, card, list
<1>0. <<>> \in Seq(Names) /\ <<>> \in Seq(TitleSet) /\ <<>> \in Seq(Numbers) /\ 0 \in Numbers
      /\ Len(<<>>) <= MaxTitles /\ MaxTitles \in Nat /\ COLECO \in Names
  BY MenuAssumption DEF Numbers
<1>1. CASE Quiet
  <2>1. UNCHANGED <<path, titles, sortedList, selection>>
    BY <1>1, QuietIs
  <2>2. opened' = opened \/ opened' = <<>> \/ OpenFile
    BY <1>1, Zenon
       DEF Quiet, WaitSDCard, Unblank, Dismiss, ReadEnds, ReadGone, ReadHidden, Listed, Blank, Selected,
           CardGone, PathTooLong, FileTooLong, Load, Card, vars
  <2>3. opened' \in Seq(Names)
    BY <1>0, <2>2, OpenedTyped
  <2>. QED BY <2>1, <2>3
<1>2. CASE Nocard \/ Mount
  BY <1>0, <1>2 DEF Nocard, Mount, Forget
<1>3. CASE OpenDir
  <2>1. DotDot \in TitleSet
    BY DEF DotDot, TitleSet
  <2>2. <<DotDot>> \in Seq(TitleSet) /\ Len(<<DotDot>>) <= MaxTitles
    BY <2>1, MenuAssumption
  <2>. QED BY <1>0, <1>3, <2>2 DEF OpenDir
<1>4. CASE EnterColeco
  BY <1>0, <1>4 DEF EnterColeco
<1>5. CASE ReadTitle
  <2>1. ReadOK /\ pos \in DOMAIN ThisFolder /\ Entry = ThisFolder[pos]
    <3>1. ReadOK /\ pos <= Len(ThisFolder) /\ Entry = ThisFolder[pos]
      BY <1>5, Zenon DEF ReadTitle, Reading, Lists, Entry, ThisFolder
    <3>. QED BY <3>1, EntryIs DEF ReadOK, ListOK
  <2>2. Show(Entry) \in TitleSet
    BY <2>1, EntryIs DEF ReadOK, ListOK
  <2>3. Append(titles, Show(Entry)) \in Seq(TitleSet) /\ Len(Append(titles, Show(Entry))) <= MaxTitles
    BY <1>0, <2>1, <2>2 DEF ReadOK
  <2>. QED BY <1>5, <2>3 DEF ReadTitle
<1>6. CASE SortDir
  <2>1. CASE Len(sortedList) < Len(titles)
    <3>1. SortOK
      BY <1>6, Zenon DEF SortDir, Lists
    <3>2. PICK m \in 0..MaxTitles : sortedList' = Insert(sortedList, Len(sortedList) + 1, m)
      BY <1>6, <2>1 DEF SortDir
    <3>3. LET r == Insert(sortedList, Len(sortedList) + 1, m) IN
            r \in Seq(0..MaxTitles) /\ Len(r) = Len(sortedList) + 1
      BY <2>1, <3>1, InsertIs DEF SortOK, Numbers
    <3>. QED BY <1>0, <1>6, <2>1, <3>2, <3>3 DEF SortDir, Numbers
  <2>2. CASE ~(Len(sortedList) < Len(titles))
    BY <1>6, <2>2 DEF SortDir
  <2>. QED BY <2>1, <2>2
<1>7. CASE \E i \in 0..(Len(sortedList) - 1) : Move(i)
  BY <1>0, <1>7 DEF Move, Numbers
<1>8. CASE Leave
  <2>1. \A s \in Seq(Names) : SubSeq(s, 1, Len(s) - 1) \in Seq(Names)
    OBVIOUS
  <2>. QED BY <1>8, <2>1 DEF Leave, Front
<1>9. CASE Enter
  <2>1. ShowOK /\ TypeOK
    BY <1>9, TypedIs, Zenon DEF Enter, Folder, Lists, Shown, FlowTyped
  <2>2. Chosen.name \in Names
    <3>1. Chosen \in TitleSet
      BY <1>9, <2>1, ChosenIs DEF Enter, Folder
    <3>. QED BY <1>9, <3>1 DEF Enter, TitleSet
  <2>. QED BY <1>9, <2>2 DEF Enter
<1>. QED BY <1>1, <1>2, <1>3, <1>4, <1>5, <1>6, <1>7, <1>8, <1>9, Zenon DEF Next, Program, Input, Quiet

-----------------------------------------------------------------------------
(* Every step keeps the list true *)

\* An entry more of the folder is read, and is hidden.
LEMMA HiddenRead ==
    ASSUME ReadOK, ReadHidden
    PROVE  ReadOK'
<1>1. /\ UNCHANGED <<media, path, titles, sortedList, selection>> /\ pos' = pos + 1
      /\ pos <= Len(ThisFolder) /\ ThisFolder[pos].name \in Hidden
  BY Zenon DEF ReadHidden, Reading, Entry, ThisFolder, card, list
<1>2. ListOK' /\ ThisFolder' = ThisFolder /\ Above' = Above
  BY <1>1, ListKept DEF ReadOK, ThisFolder, Above
<1>3. pos \in Nat \ {0} /\ Len(ThisFolder) \in Nat
  BY EntryIs DEF ReadOK, ListOK
<1>4. Rank(ThisFolder, pos) = Rank(ThisFolder, pos - 1)
  <2>1. pos - 1 \in Nat /\ (pos - 1) + 1 = pos
    BY <1>3
  <2>2. Rank(ThisFolder, (pos - 1) + 1)
          = Rank(ThisFolder, pos - 1) + (IF ThisFolder[(pos - 1) + 1].name \in Hidden THEN 0 ELSE 1)
    BY <2>1, RankStep
  <2>3. Rank(ThisFolder, pos - 1) \in Nat
    BY <2>1, RankStep
  <2>. QED BY <1>1, <2>1, <2>2, <2>3
<1>5. pos' \in 1..(Len(ThisFolder) + 1) /\ pos' - 1 = pos
  BY <1>1, <1>3
<1>6. (Rank(ThisFolder, pos - 1))' = Rank(ThisFolder, pos)
  BY <1>2, <1>5
<1>. QED BY <1>1, <1>2, <1>4, <1>5, <1>6 DEF ReadOK

\* An entry more of the folder is read, and is a title more.
LEMMA TitleRead ==
    ASSUME ReadOK, ListTyped, ReadTitle
    PROVE  /\ ListOK' /\ titles' # <<>> /\ sortedList' = <<>> /\ selection' = 0
           /\ Len(titles') = MaxTitles \/ ReadOK'
<1> DEFINE f == ThisFolder
           e == ThisFolder[pos]
<1>1. /\ UNCHANGED <<media, path, sortedList, selection>>
      /\ pos <= Len(f) /\ e.name \notin Hidden /\ titles' = Append(titles, Show(e))
      /\ Len(titles') = MaxTitles \/ pos' = pos + 1
  BY Zenon DEF ReadTitle, Reading, Entry, ThisFolder, card
<1>2. ThisFolder' = f /\ Above' = Above /\ Above \in {0, 1}
  BY <1>1 DEF ThisFolder, Above
<1>3. pos \in Nat \ {0} /\ Len(f) \in Nat /\ DOMAIN f = 1..Len(f) /\ pos - 1 \in Nat /\ (pos - 1) + 1 = pos
      /\ pos \in DOMAIN f
  BY <1>1, EntryIs DEF ReadOK, ListOK
<1>4. Show(e) \in TitleSet
  BY <1>3, EntryIs DEF ReadOK, ListOK
<1>5. /\ titles \in Seq(TitleSet) /\ Len(titles) \in Nat /\ Len(titles') = Len(titles) + 1
      /\ titles' \in Seq(TitleSet)
      /\ \A k \in 1..Len(titles) : titles'[k] = titles[k]
      /\ titles'[Len(titles) + 1] = Show(e)
      /\ DOMAIN titles = 1..Len(titles) /\ DOMAIN titles' = 1..(Len(titles) + 1)
  <2>. HIDE DEF e
  <2>. QED BY <1>1, <1>4 DEF ListTyped
<1>6. /\ Rank(f, pos) = Rank(f, pos - 1) + 1 /\ Rank(f, pos - 1) \in Nat
  <2>1. Rank(f, (pos - 1) + 1)
          = Rank(f, pos - 1) + (IF f[(pos - 1) + 1].name \in Hidden THEN 0 ELSE 1)
    BY <1>3, RankStep
  <2>2. Rank(f, pos - 1) \in Nat
    BY <1>3, RankStep
  <2>. QED BY <1>1, <1>3, <2>1, <2>2
<1>7. Len(titles) + 1 = Above + Rank(f, pos)
  BY <1>2, <1>5, <1>6 DEF ReadOK
<1>. HIDE DEF f, e
<1>8. Len(titles') <= Above + Rank(f, Len(f))
  <2>1. Rank(f, pos) <= Rank(f, Len(f))
    <3>1. CASE pos < Len(f)
      BY <1>3, <3>1, RankGrows
    <3>2. CASE pos = Len(f)
      BY <1>6, <3>2
    <3>3. pos < Len(f) \/ pos = Len(f)
      <4>1. pos <= Len(f)
        BY <1>1, Zenon
      <4>2. pos \in Nat /\ Len(f) \in Nat
        BY <1>3, Zenon
      <4>. QED BY <4>1, <4>2
    <3>. QED BY <3>1, <3>2, <3>3
  <2>2. Rank(f, Len(f)) \in Nat
    BY <1>3, RankStep
  <2>. QED BY <1>2, <1>5, <1>6, <1>7, <2>1, <2>2
<1>9. path # <<>> => titles'[1] = DotDot
  <2>1. ASSUME path # <<>> PROVE titles[1] = DotDot /\ 1 \in 1..Len(titles)
    <3>1. titles[1] = DotDot
      BY <2>1 DEF ReadOK, ListOK, TitlesOf
    <3>2. Above = 1
      BY <2>1 DEF Above
    <3>. QED BY <1>5, <1>6, <1>7, <3>1, <3>2
  <2>. QED BY <1>5, <2>1
<1>10. ASSUME NEW i \in DOMAIN f, f[i].name \notin Hidden, Above + Rank(f, i) <= Len(titles')
       PROVE  titles'[Above + Rank(f, i)] = Show(f[i])
  <2>00. i \in Nat /\ i > 0
    BY <1>3
  <2>0. i \in Nat \ {0} /\ Rank(f, i) \in Nat
    <3>1. Rank(f, i) \in 0..i
      BY <2>00, RankStep
    <3>. QED BY <2>00, <3>1
  <2>1. CASE i < pos
    <3>1. i <= pos - 1
      BY <1>3, <2>0, <2>1
    <3>2. Rank(f, i) <= Rank(f, pos - 1)
      <4>1. CASE i < pos - 1
        BY <1>3, <2>0, <4>1, RankGrows
      <4>2. CASE i = pos - 1
        BY <1>6, <4>2
      <4>. QED BY <1>3, <2>0, <3>1, <4>1, <4>2
    <3>3. Above + Rank(f, i) <= Len(titles)
      BY <1>2, <1>5, <1>6, <1>7, <2>0, <3>2
    <3>4. titles[Above + Rank(f, i)] = Show(f[i])
      BY <1>10, <3>3 DEF ReadOK, ListOK, TitlesOf, f
    <3>5. Rank(f, i) > 0
      <4>0. 0 \in Nat
        OBVIOUS
      <4>1. Rank(f, 0) = 0
        BY <4>0, RankStep
      <4>2. Rank(f, 0) < Rank(f, i)
        BY <1>10, <2>00, <4>0, RankGrows
      <4>. QED BY <2>0, <4>1, <4>2
    <3>6. Above + Rank(f, i) \in 1..Len(titles)
      BY <1>2, <1>5, <2>0, <3>3, <3>5
    <3>. QED BY <1>5, <3>4, <3>6
  <2>2. CASE i = pos
    BY <1>5, <1>7, <2>2 DEF e, f
  <2>3. CASE i > pos
    <3>1. Rank(f, pos) < Rank(f, i)
      BY <1>3, <1>10, <2>0, <2>3, RankGrows
    <3>. QED BY <1>2, <1>5, <1>6, <1>7, <1>10, <2>0, <3>1
  <2>. QED BY <1>3, <2>0, <2>1, <2>2, <2>3
<1>11. ASSUME NEW k \in DOMAIN titles'
       PROVE  titles'[k] = DotDot \/ \E i \in DOMAIN f : titles'[k] = Show(f[i])
  <2>1. CASE k \in 1..Len(titles)
    BY <1>5, <2>1 DEF ReadOK, ListOK, f
  <2>2. CASE k = Len(titles) + 1
    BY <1>3, <1>5, <2>2 DEF e, f
  <2>. QED BY <1>5, <2>1, <2>2
<1>12. ListOK'
  <2>1. TitlesOf(f)'
    BY <1>1, <1>2, <1>8, <1>9, <1>10 DEF TitlesOf, f
  <2>2. media' \in Cards /\ path' \in DOMAIN Tree[media']
    BY <1>1 DEF ReadOK, ListOK
  <2>. QED BY <1>2, <1>11, <2>1, <2>2 DEF ListOK, f
<1>13. titles' # <<>> /\ sortedList' = <<>> /\ selection' = 0
  BY <1>1, <1>5 DEF ReadOK
<1>14. Len(titles') = MaxTitles \/ ReadOK'
  <2>1. SUFFICES ASSUME Len(titles') # MaxTitles PROVE ReadOK'
    OBVIOUS
  <2>2. pos' = pos + 1 /\ pos' - 1 = pos /\ pos' \in 1..(Len(f) + 1)
    BY <1>1, <1>3, <2>1
  <2>3. Len(titles') < MaxTitles
    BY <1>5, <2>1, MenuAssumption DEF ReadOK
  <2>4. Len(titles') = (Above + Rank(ThisFolder, pos - 1))'
    BY <1>2, <1>5, <1>7, <2>2
  <2>. QED BY <1>2, <1>12, <1>13, <2>2, <2>3, <2>4 DEF ReadOK
<1>. QED BY <1>12, <1>13, <1>14

\* A folder is opened, and nothing is read yet.
LEMMA FolderOpened ==
    ASSUME RestTyped, OpenDir, pc' = "readDir"
    PROVE  ReadOK'
<1>1. /\ ready /\ path \in DOMAIN Tree[media] /\ UNCHANGED <<media, path>>
      /\ titles' = (IF path = <<>> THEN <<>> ELSE <<DotDot>>)
      /\ sortedList' = <<>> /\ selection' = 0 /\ pos' = 1
  BY DEF OpenDir, Goto, card
<1>2. media \in Cards /\ ThisFolder' = ThisFolder /\ Above' = Above /\ Above \in {0, 1}
  BY <1>1 DEF RestTyped, ThisFolder, Above
<1>3. /\ Len(titles') = Above /\ DOMAIN titles' = 1..Above
      /\ path # <<>> => titles'[1] = DotDot
      /\ \A k \in DOMAIN titles' : titles'[k] = DotDot
  <2>1. CASE path = <<>>
    BY <1>1, <2>1 DEF Above
  <2>2. CASE path # <<>>
    BY <1>1, <2>2 DEF Above
  <2>. QED BY <2>1, <2>2
<1>4. Len(ThisFolder) \in Nat /\ DOMAIN ThisFolder = 1..Len(ThisFolder)
  BY <1>1, <1>2, EntryIs
<1> DEFINE f == ThisFolder
<1>. HIDE DEF f
<1>5. Len(f) \in Nat /\ DOMAIN f = 1..Len(f) /\ ThisFolder' = f /\ ThisFolder = f
  BY <1>2, <1>4 DEF f
<1>6. 0 \in Nat /\ Rank(f, 0) = 0
  BY RankStep
<1>7. Rank(f, Len(f)) \in Nat
  BY <1>5, RankStep
<1>8. ASSUME NEW i \in DOMAIN f, f[i].name \notin Hidden PROVE ~(Above + Rank(f, i) <= Len(titles'))
  <2>1. i \in Nat /\ 0 < i
    BY <1>5
  <2>2. Rank(f, 0) < Rank(f, i)
    BY <1>6, <1>8, <2>1, RankGrows
  <2>3. Rank(f, i) \in 0..i
    BY <2>1, RankStep
  <2>. QED BY <1>2, <1>3, <1>6, <2>1, <2>2, <2>3
<1>9. TitlesOf(ThisFolder)'
  <2>1. Len(titles') <= Above' + Rank(f, Len(f))
    BY <1>2, <1>3, <1>7
  <2>2. \A i \in DOMAIN f :
          f[i].name \notin Hidden /\ Above' + Rank(f, i) <= Len(titles') =>
              titles'[Above' + Rank(f, i)] = Show(f[i])
    BY <1>2, <1>8
  <2>. QED BY <1>1, <1>3, <1>5, <2>1, <2>2 DEF TitlesOf, f
<1>10. ListOK'
  <2>1. media' \in Cards /\ path' \in DOMAIN Tree[media']
    BY <1>1, <1>2
  <2>2. \A k \in DOMAIN titles' : titles'[k] = DotDot
    BY <1>3
  <2>. QED BY <1>9, <2>1, <2>2, Zenon DEF ListOK
<1>11. pos' \in 1..(Len(f) + 1) /\ pos' - 1 = 0 /\ Len(titles') < MaxTitles
  BY <1>1, <1>2, <1>3, <1>5, MenuAssumption
<1>12. Len(titles') = (Above + Rank(ThisFolder, pos - 1))'
  BY <1>2, <1>3, <1>5, <1>6, <1>11
<1>. QED BY <1>1, <1>5, <1>10, <1>11, <1>12 DEF ReadOK

\* A title more is sorted in, or all are.
LEMMA TitleSorted ==
    ASSUME SortOK, selection = 0, ListTyped, SortDir
    PROVE  /\ SortOK' /\ selection' = 0
           /\ pc' = "sortDir" \/ (pc' = "select" /\ ShowOK')
<1>1. pc = "sortDir" /\ UNCHANGED <<media, path, titles, selection>>
  BY DEF SortDir, card
<1>2. titles \in Seq(TitleSet) /\ sortedList \in Seq(0..MaxTitles) /\ Len(titles) \in Nat /\ Len(sortedList) \in Nat
  BY DEF ListTyped, Numbers
<1>3. CASE Len(sortedList) < Len(titles)
  <2>0. PICK m \in 0..MaxTitles : sortedList' = Insert(sortedList, Len(sortedList) + 1, m)
    BY <1>3 DEF SortDir
  <2> DEFINE r == Insert(sortedList, Len(sortedList) + 1, m)
  <2>1. /\ r \in Seq(0..MaxTitles) /\ Len(r) = Len(sortedList) + 1
        /\ InOrder(r)
    BY <1>2, <1>3, InsertIs DEF SortOK, ListTyped
  <2>2. sortedList' = r /\ UNCHANGED pc
    BY <1>3, <2>0 DEF SortDir
  <2>. HIDE DEF r
  <2>3. \A k : (Title(k))' = Title(k)
    BY <1>1 DEF Title
  <2>4. InOrder(sortedList)'
    BY <1>1, <2>1, <2>2, <2>3 DEF InOrder
  <2>5. ListOK' /\ titles' # <<>>
    BY <1>1, ListKept DEF SortOK
  <2>6. Len(sortedList') <= Len(titles')
    BY <1>1, <1>2, <1>3, <2>1, <2>2
  <2>7. SortOK'
    BY <2>1, <2>2, <2>4, <2>5, <2>6 DEF SortOK
  <2>. QED BY <1>1, <2>2, <2>7
<1>4. CASE ~(Len(sortedList) < Len(titles))
  <2>1. UNCHANGED sortedList /\ pc' = "select"
    BY <1>4 DEF SortDir, Goto
  <2>2. SortOK'
    BY <1>1, <2>1, SortKept
  <2>3. Len(sortedList) = Len(titles) /\ selection < Len(sortedList)
    <3>1. Len(titles) # 0
      BY <1>2 DEF SortOK
    <3>. QED BY <1>2, <1>4, <3>1 DEF SortOK
  <2>4. ShowOK'
    BY <1>1, <2>1, <2>2, <2>3 DEF ShowOK
  <2>. QED BY <1>1, <2>1, <2>2, <2>4
<1>. QED BY <1>3, <1>4

\* Nothing is sorted yet.
LEMMA NothingSorted ==
    ASSUME titles # <<>>, ListTyped, ReadDone
    PROVE  SortOK
<1>1. Range(<<>>) = 1..0 /\ Len(<<>>) = 0 /\ DOMAIN <<>> = {}
  BY DEF Range
<1>2. InOrder(<<>>)
  BY <1>1 DEF InOrder
<1>3. 0 <= Len(titles)
  BY DEF ListTyped
<1>. QED BY <1>1, <1>2, <1>3 DEF SortOK, ReadDone

AtSort == pc = "sort" \/ (pc = "error" /\ after = "sort")

\* Where a step that reads or sorts nothing leads.
LEMMA QuietLeads ==
    ASSUME RestTyped, Quiet
    PROVE  \/ UNCHANGED <<pc, after, pos>>
           \/ ReadHidden
           \/ pc = "readDir" /\ pc' = "sort"
           \/ pc = "sort" /\ pc' = "sortDir" /\ titles # <<>>
           \/ /\ pc' \notin {"readDir", "sortDir"}
              /\ Shown' => Shown
              /\ pc' = "sort" \/ (pc' = "error" /\ after' = "sort") => AtSort
<1>. USE DEF RestTyped, Shown, AtSort, Goto, Error
<1>1. CASE WaitSDCard
  <2>1. pc' \in {"mount", "wait"} \/ (pc' = "blank" /\ after' = "wait")
    BY <1>1, Zenon DEF WaitSDCard, Debounce
  <2>. QED BY <2>1
<1>2. CASE Unblank
  <2>1. pc = "blank" /\ (after = "wait" \/ after = "select")
    BY <1>2 DEF Unblank
  <2>2. (pc' \in {"mount", "wait"}) \/ (after = "select" /\ pc' = "select")
    BY <1>2, <2>1 DEF Unblank, Debounce
  <2>. QED BY <2>1, <2>2
<1>3. CASE Dismiss
  BY <1>3 DEF Dismiss
<1>4. CASE ReadEnds \/ ReadGone
  BY <1>4 DEF ReadEnds, ReadGone
<1>5. CASE ReadHidden
  BY <1>5
<1>6. CASE Listed
  BY <1>6 DEF Listed
<1>7. CASE Blank \/ Selected \/ CardGone
  BY <1>7 DEF Blank, Selected, CardGone
<1>8. CASE PathTooLong
  BY <1>8 DEF PathTooLong, Folder
<1>9. CASE FileTooLong \/ OpenFile
  <2>1. /\ pc = "chosen"
        /\ \/ pc' = "error" /\ after' = "select"
           \/ pc' = "opened"
    BY <1>9, Zenon DEF FileTooLong, OpenFile, File
  <2>. QED BY <2>1
<1>10. CASE Load
  BY <1>10 DEF Load
<1>11. CASE Card \/ UNCHANGED vars
  BY <1>11, Zenon DEF Card, vars
<1>. QED BY <1>1, <1>2, <1>3, <1>4, <1>5, <1>6, <1>7, <1>8, <1>9, <1>10, <1>11, Zenon DEF Quiet

LEMMA QuietLists ==
    ASSUME ListTyped, RestTyped, Lists, Quiet
    PROVE  Lists'
<1>1. UNCHANGED <<media, path, titles, sortedList, selection>>
  BY QuietIs
<1>2. /\ ListOK' <=> ListOK
      /\ SortOK' <=> SortOK
      /\ ShowOK' <=> ShowOK
      /\ ReadDone' <=> ReadDone
  BY <1>1, ListKept, SortKept, ShowKept
<1>3. CASE ReadHidden
  <2>1. ReadOK' /\ pc' = "readDir"
    BY <1>3, HiddenRead, Zenon DEF ReadHidden, Reading, Lists
  <2>. QED BY <2>1 DEF Lists, Shown
<1>4. CASE UNCHANGED <<pc, after, pos>>
  <2>1. ReadOK' <=> ReadOK
    <3>1. ThisFolder' = ThisFolder /\ Above' = Above
      BY <1>1 DEF ThisFolder, Above
    <3>. QED BY <1>1, <1>2, <1>4, <3>1 DEF ReadOK
  <2>. QED BY <1>1, <1>2, <1>4, <2>1 DEF Lists, Shown
<1>5. CASE pc = "readDir" /\ pc' = "sort"
  <2>1. ReadDone
    BY <1>5 DEF Lists, ReadOK, ReadDone
  <2>. QED BY <1>2, <1>5, <2>1 DEF Lists, Shown
<1>6. CASE pc = "sort" /\ pc' = "sortDir" /\ titles # <<>>
  <2>1. SortOK /\ selection = 0
    BY <1>6, NothingSorted DEF Lists, ReadDone
  <2>. QED BY <1>1, <1>2, <1>6, <2>1 DEF Lists, Shown
<1>7. CASE /\ pc' \notin {"readDir", "sortDir"}
           /\ Shown' => Shown
           /\ pc' = "sort" \/ (pc' = "error" /\ after' = "sort") => AtSort
  BY <1>2, <1>7 DEF Lists, AtSort
<1>. QED BY <1>3, <1>4, <1>5, <1>6, <1>7, QuietLeads

\* Every step keeps the list true.
LEMMA ListsKept == ListTyped /\ RestTyped /\ Lists /\ [Next]_vars => Lists'
<1>. SUFFICES ASSUME ListTyped, RestTyped, Lists, [Next]_vars PROVE Lists'
  OBVIOUS
<1>1. CASE Quiet
  BY <1>1, QuietLists
<1>2. CASE Nocard
  BY <1>2 DEF Nocard, Goto, Lists, Shown, RestTyped
<1>3. CASE Mount
  <2>1. pc' = "dirLoop" \/ (pc' = "error" /\ after' = "nocard")
    BY <1>3, Zenon DEF Mount, Goto, Error
  <2>. QED BY <2>1 DEF Lists, Shown
<1>4. CASE OpenDir
  <2>1. CASE pc' = "readDir"
    BY <1>4, <2>1, FolderOpened DEF Lists, Shown
  <2>2. CASE pc' # "readDir"
    <3>1. pc' = "sort" /\ titles' = <<>> /\ sortedList' = <<>> /\ selection' = 0
      BY <1>4, <2>2 DEF OpenDir, Goto
    <3>. QED BY <3>1 DEF Lists, Shown, ReadDone
  <2>. QED BY <2>1, <2>2
<1>5. CASE EnterColeco
  <2>1. pc' = "dirLoop"
    BY <1>5 DEF EnterColeco, Goto
  <2>. QED BY <2>1 DEF Lists, Shown
<1>6. CASE ReadTitle
  <2>1. pc = "readDir" /\ ReadOK
    BY <1>6 DEF ReadTitle, Reading, Lists
  <2>2. /\ ListOK' /\ titles' # <<>> /\ sortedList' = <<>> /\ selection' = 0
        /\ Len(titles') = MaxTitles \/ ReadOK'
    BY <1>6, <2>1, TitleRead
  <2>3. CASE Len(titles') = MaxTitles
    <3>1. pc' = "error" /\ after' = "sort"
      BY <1>6, <2>3, Zenon DEF ReadTitle, Error
    <3>. QED BY <2>2, <3>1 DEF Lists, Shown, ReadDone
  <2>4. CASE Len(titles') # MaxTitles
    <3>1. pc' = "readDir"
      BY <1>6, <2>1, <2>4, Zenon DEF ReadTitle
    <3>. QED BY <2>2, <2>4, <3>1 DEF Lists, Shown
  <2>. QED BY <2>3, <2>4
<1>7. CASE SortDir
  <2>1. SortOK /\ selection = 0
    BY <1>7 DEF SortDir, Lists
  <2>2. /\ SortOK' /\ selection' = 0
        /\ pc' = "sortDir" \/ (pc' = "select" /\ ShowOK')
    BY <1>7, <2>1, TitleSorted
  <2>. QED BY <2>2 DEF Lists, Shown
<1>8. CASE \E i \in 0..(Len(sortedList) - 1) : Move(i)
  <2>1. PICK i \in 0..(Len(sortedList) - 1) : Move(i)
    BY <1>8
  <2>2. /\ pc = "select" /\ pc' = "select" /\ selection' = i
        /\ UNCHANGED <<media, path, titles, sortedList>>
    BY <2>1 DEF Move, card, list
  <2>3. ShowOK /\ SortOK'
    BY <2>2, SortKept DEF Lists, Shown, ShowOK
  <2>4. ShowOK'
    <3>1. i < Len(sortedList)
      BY DEF ListTyped
    <3>. QED BY <2>2, <2>3, <3>1 DEF ShowOK
  <2>. QED BY <2>2, <2>4 DEF Lists, Shown
<1>9. CASE Leave \/ Enter
  <2>1. pc' = "dirLoop"
    BY <1>9 DEF Leave, Enter, Goto
  <2>. QED BY <2>1 DEF Lists, Shown
<1>. QED BY <1>1, <1>2, <1>3, <1>4, <1>5, <1>6, <1>7, <1>8, <1>9, Zenon DEF Next, Program, Input, Quiet

\* What is opened stays what is selected until it is loaded.
LEMMA OpensKept == ListTyped /\ RestTyped /\ Opens /\ [Next]_vars => Opens'
<1>. SUFFICES ASSUME ListTyped, RestTyped, Opens, [Next]_vars, pc' = "opened"
              PROVE  (~IsDir(Chosen) /\ opened = Append(path, Chosen.name))'
  BY DEF Opens
<1>1. OpenFile \/ Card \/ UNCHANGED vars \/ \E i \in 0..(Len(sortedList) - 1) : Move(i)
  BY DEF Next, Program, Input, Nocard, WaitSDCard, Debounce, Mount, OpenDir, ReadEnds, ReadGone, ReadHidden,
         EnterColeco, ReadTitle, Reading, Listed, SortDir, CardGone, Leave, Enter, PathTooLong, FileTooLong,
         Folder, Load, Dismiss, Unblank, Blank, Selected, RestTyped, Goto, Error
<1>2. CASE Card \/ UNCHANGED vars
  <2>1. UNCHANGED <<pc, path, titles, sortedList, selection, opened>>
    BY <1>2, Zenon DEF Card, vars, list
  <2>2. Chosen' = Chosen
    BY <2>1 DEF Chosen, Title
  <2>. QED BY <2>1, <2>2 DEF Opens
<1>3. CASE OpenFile
  <2>1. UNCHANGED <<path, titles, sortedList, selection>> /\ ~IsDir(Chosen)
    BY <1>3, Zenon DEF OpenFile, File, list
  <2>2. Chosen' = Chosen
    BY <2>1 DEF Chosen, Title
  <2>3. opened' = Path2
    BY <1>3 DEF OpenFile, Error
  <2>. QED BY <2>1, <2>2, <2>3 DEF Path2
<1>4. CASE \E i \in 0..(Len(sortedList) - 1) : Move(i)
  BY <1>4 DEF Move
<1>. QED BY <1>1, <1>2, <1>3, <1>4

\* The invariant holds before the first card.
LEMMA FlowInitial == Init => FlowInv
<1>. SUFFICES ASSUME Init PROVE FlowInv
  OBVIOUS
<1>1. ListTyped
  BY MenuAssumption DEF Init, ListTyped, Numbers
<1>2. RestTyped
  <2>1. count \in CountSet
    BY MenuAssumption DEF Init, CountSet
  <2>2. ready \in BOOLEAN /\ firstScan \in BOOLEAN /\ (ready => media \in Cards)
    BY Zenon DEF Init
  <2>. QED BY <2>1, <2>2 DEF Init, RestTyped
<1>3. Lists /\ Opens
  BY DEF Init, Lists, Opens, Shown
<1>. QED BY <1>1, <1>2, <1>3, TypedIs DEF FlowInv

\* Every step keeps it.
LEMMA FlowKept == FlowInv /\ [Next]_vars => FlowInv'
<1>. SUFFICES ASSUME FlowInv, [Next]_vars PROVE FlowInv'
  OBVIOUS
<1>1. ListTyped /\ RestTyped /\ Lists /\ Opens
  BY TypedIs DEF FlowInv
<1>2. ListTyped' /\ RestTyped' /\ Lists' /\ Opens'
  BY <1>1, ListTypedKept, RestTypedKept, ListsKept, OpensKept
<1>3. FlowTyped'
  BY <1>2, TypedIs, PTL
<1>. QED BY <1>2, <1>3 DEF FlowInv

-----------------------------------------------------------------------------
(* Theorems *)

\* The list is true to the folder from readDir to the file that is opened: the
\* invariant the next theorems rest on.
THEOREM FlowInvariant == Spec => []FlowInv
BY FlowInitial, FlowKept, PTL DEF Spec

\* The list on the screen is of the folder that path names: its first entries that
\* are not hidden, each once and in order where a folder is the first of them.
THEOREM ListCorrect == Spec => []ListTrue
<1>1. FlowInv => ListTrue
  <2>. SUFFICES ASSUME FlowInv PROVE ListTrue
    OBVIOUS
  <2>1. TypeOK
    BY DEF FlowInv, FlowTyped
  <2>2. ASSUME Shown
        PROVE  /\ path \in DOMAIN Tree[media] /\ TitlesOf(Tree[media][path])
               /\ Len(sortedList) = Len(titles) /\ selection < Len(sortedList)
               /\ InOrder(sortedList)
    BY <2>2 DEF FlowInv, Lists, ShowOK, SortOK, ListOK, ThisFolder
  <2>3. DOMAIN titles = 1..Len(titles)
    BY <2>1, TypedIs DEF FlowInv, ListTyped
  <2>. QED BY <2>1, <2>2, <2>3 DEF ListTrue, InOrder
<1>. QED BY <1>1, FlowInvariant, PTL

\* The file that is opened is one of the folder on the screen, the one whose title
\* is selected, unless what is selected is no title of the list.
THEOREM OpensCorrect == Spec => []OpensSelected
<1>1. FlowInv => OpensSelected
  <2>. SUFFICES ASSUME FlowInv, pc = "opened", sortedList[selection + 1] \in DOMAIN titles
                PROVE  \E i \in DOMAIN Tree[media][path] :
                          LET e == Tree[media][path][i] IN
                          /\ opened = Append(path, e.name)
                          /\ Chosen = [name |-> e.name, pages |-> e.pages]
    BY DEF OpensSelected
  <2>1. TypeOK /\ ShowOK /\ ~IsDir(Chosen) /\ opened = Append(path, Chosen.name)
    BY DEF FlowInv, FlowTyped, Lists, Shown, Opens
  <2>2. PICK k \in DOMAIN titles : Chosen = titles[k]
    BY <2>1, ChosenIs
  <2>3. Chosen # DotDot
    BY <2>1 DEF IsDir, DotDot
  <2>4. PICK i \in DOMAIN ThisFolder : Chosen = Show(ThisFolder[i])
    BY <2>1, <2>2, <2>3 DEF ShowOK, SortOK, ListOK
  <2>5. ~ThisFolder[i].dir
    BY <2>1, <2>4 DEF Show, IsDir
  <2>6. Chosen = [name |-> ThisFolder[i].name, pages |-> ThisFolder[i].pages]
    BY <2>4, <2>5 DEF Show
  <2>7. Chosen.name = ThisFolder[i].name
    BY <2>6
  <2>. QED BY <2>1, <2>6, <2>7 DEF ThisFolder
<1>. QED BY <1>1, FlowInvariant, PTL

-----------------------------------------------------------------------------
(* The COLECO folder *)

\* The first scan of a mounted card is of the root, and is over before the user
\* is shown a list; or the card has left since.
ScanInv ==
    /\ slot = NoCard => ~ready
    /\ firstScan => pc # "readDir" \/ path = <<>>
    /\ firstScan /\ ready =>
          /\ path = <<>> /\ ~Shown /\ pc # "sortDir"
          /\ AtSort => titles = <<>>

\* Every step keeps it.
LEMMA ScanKept == RestTyped /\ ScanInv /\ [Next]_vars => ScanInv'
<1>. SUFFICES ASSUME RestTyped, ScanInv, [Next]_vars PROVE ScanInv'
  OBVIOUS
<1>. USE DEF ScanInv
<1>1. CASE Nocard
  BY <1>1 DEF Nocard, Goto, card, Shown, AtSort, RestTyped
<1>2. CASE Mount
  <2>1. (slot' = NoCard => ~ready') /\ path' = <<>>
    BY <1>2, Zenon DEF Mount
  <2>2. pc' = "dirLoop" \/ (pc' = "error" /\ after' = "nocard")
    BY <1>2, Zenon DEF Mount, Goto, Error
  <2>. QED BY <2>1, <2>2 DEF Shown, AtSort
<1>3. CASE OpenDir
  <2>1. UNCHANGED <<slot, ready, path, firstScan>>
    BY <1>3, Zenon DEF OpenDir, card
  <2>2. \/ pc' = "readDir" /\ ready
        \/ pc' = "sort" /\ titles' = <<>>
    BY <1>3, Zenon DEF OpenDir, Goto
  <2>. QED BY <2>1, <2>2 DEF Shown, AtSort
<1>4. CASE ReadEnds
  <2>1. UNCHANGED <<slot, ready>> /\ ~firstScan'
    BY <1>4, Zenon DEF ReadEnds, card
  <2>. QED BY <2>1
<1>5. CASE ReadGone
  <2>1. UNCHANGED <<slot, ready, firstScan>> /\ slot = NoCard /\ pc' = "sort"
    BY <1>5, Zenon DEF ReadGone, Goto, card
  <2>. QED BY <2>1
<1>6. CASE EnterColeco
  <2>1. UNCHANGED <<slot, ready>> /\ ~firstScan'
    BY <1>6, Zenon DEF EnterColeco, card
  <2>. QED BY <2>1
<1>7. CASE ReadTitle
  <2>1. UNCHANGED <<slot, ready, path>> /\ pc = "readDir" /\ (~firstScan' \/ UNCHANGED <<firstScan, pc, after>>)
    BY <1>7, Zenon DEF ReadTitle, Reading, Error, card
  <2>. QED BY <2>1 DEF Shown, AtSort
<1>8. CASE SortDir
  <2>1. UNCHANGED <<slot, ready, path, firstScan>> /\ pc = "sortDir" /\ pc' # "readDir"
    BY <1>8 DEF SortDir, Goto, card
  <2>. QED BY <2>1
<1>9. CASE \E i \in 0..(Len(sortedList) - 1) : Move(i)
  <2>1. UNCHANGED <<slot, ready, path, firstScan, pc>> /\ pc = "select"
    BY <1>9, Zenon DEF Move, card
  <2>. QED BY <2>1 DEF Shown
<1>10. CASE Leave \/ Enter
  <2>1. UNCHANGED <<slot, ready, firstScan>> /\ pc = "chosen" /\ pc' = "dirLoop"
    BY <1>10, Zenon DEF Leave, Enter, Folder, Goto, card
  <2>. QED BY <2>1 DEF Shown
<1>11. CASE Card
  <2>1. ~ready' /\ UNCHANGED <<path, firstScan, pc>>
    BY <1>11, Zenon DEF Card
  <2>. QED BY <2>1
<1>12. CASE Quiet /\ ~ReadEnds /\ ~ReadGone /\ ~Card
  <2>1. UNCHANGED <<slot, ready, path, firstScan, titles>>
    BY <1>12, Zenon
       DEF Quiet, WaitSDCard, Unblank, Dismiss, ReadHidden, Listed, Blank, Selected, CardGone, PathTooLong,
           FileTooLong, OpenFile, Load, vars, card, list
  <2>2. \/ UNCHANGED <<pc, after, pos>>
        \/ ReadHidden
        \/ pc = "sort" /\ pc' = "sortDir" /\ titles # <<>>
        \/ /\ pc' \notin {"readDir", "sortDir"}
           /\ Shown' => Shown
           /\ pc' = "sort" \/ (pc' = "error" /\ after' = "sort") => AtSort
    <3>1. pc = "readDir" /\ pc' = "sort" => FALSE
      BY <1>12
         DEF Quiet, WaitSDCard, Unblank, Dismiss, ReadHidden, Reading, Listed, Blank, Selected, CardGone,
             PathTooLong, FileTooLong, OpenFile, Load, Folder, File, vars
    <3>. QED BY <1>12, <3>1, QuietLeads
  <2>3. CASE UNCHANGED <<pc, after, pos>>
    BY <2>1, <2>3 DEF Shown, AtSort
  <2>4. CASE ReadHidden
    <3>1. UNCHANGED <<pc, after>>
      BY <2>4, Zenon DEF ReadHidden
    <3>. QED BY <2>1, <3>1 DEF Shown, AtSort
  <2>5. CASE pc = "sort" /\ pc' = "sortDir" /\ titles # <<>>
    BY <2>1, <2>5 DEF AtSort
  <2>6. CASE /\ pc' \notin {"readDir", "sortDir"}
             /\ Shown' => Shown
             /\ pc' = "sort" \/ (pc' = "error" /\ after' = "sort") => AtSort
    BY <2>1, <2>6 DEF AtSort
  <2>. QED BY <2>2, <2>3, <2>4, <2>5, <2>6
<1>. QED BY <1>1, <1>2, <1>3, <1>4, <1>5, <1>6, <1>7, <1>8, <1>9, <1>10, <1>11, <1>12, Zenon
     DEF Next, Program, Input, Quiet

\* A step of readDir that changes the path enters the COLECO folder from the root,
\* and ends the first scan: it does so once for each mount.
THEOREM ColecoCorrect == Spec => ColecoFromRoot
<1>1. Init => FlowInv /\ ScanInv
  <2>1. Init => ScanInv
    BY DEF Init, ScanInv
  <2>. QED BY <2>1, FlowInitial
<1>2. FlowInv /\ [Next]_vars => FlowInv'
  BY FlowKept
<1>3. FlowInv /\ ScanInv /\ [Next]_vars => ScanInv'
  BY ScanKept, TypedIs DEF FlowInv
<1>4. FlowInv /\ ScanInv /\ [Next]_vars =>
        [pc = "readDir" /\ path' # path => path = <<>> /\ firstScan /\ ~firstScan']_vars
  <2>. SUFFICES ASSUME ScanInv, [Next]_vars, pc = "readDir", path' # path
                PROVE  path = <<>> /\ firstScan /\ ~firstScan'
    OBVIOUS
  <2>1. ~Quiet
    BY QuietIs
  <2>2. EnterColeco
    BY <2>1 DEF Next, Program, Input, Quiet, Nocard, Mount, OpenDir, ReadTitle, SortDir, Leave, Enter, Folder,
                Move, card
  <2>3. firstScan /\ ~firstScan'
    BY <2>2, Zenon DEF EnterColeco
  <2>. QED BY <2>3 DEF ScanInv
<1>. QED BY <1>1, <1>2, <1>3, <1>4, PTL DEF Spec, ColecoFromRoot

-----------------------------------------------------------------------------
(* FatDir: slots, parts and where their characters are *)

\* The characters before part i.
At(i) == (i - 1) * Segment

LEMMA AtIs ==
    ASSUME NEW i \in Nat \ {0}
    PROVE  /\ At(i) \in Nat /\ At(i + 1) = At(i) + Segment /\ At(1) = 0
           /\ i * Segment = At(i + 1)
<1>1. Segment \in Nat /\ i - 1 \in Nat
  BY DirAssumption
<1>2. (i - 1) * Segment \in Nat /\ i * Segment = (i - 1) * Segment + Segment /\ 0 * Segment = 0
  BY <1>1
<1>3. i + 1 - 1 = i /\ 1 - 1 = 0
  OBVIOUS
<1>. QED BY <1>2, <1>3 DEF At

\* Parts do not overlap.
LEMMA AtGrows ==
    ASSUME NEW i \in Nat \ {0}, NEW k \in Nat, i < k
    PROVE  At(i) + Segment <= At(k)
<1>1. PICK d \in Nat : k = i + 1 + d
  <2>1. k - i - 1 \in Nat /\ k = i + 1 + (k - i - 1)
    OBVIOUS
  <2>. QED BY <2>1
<1>2. Segment \in Nat /\ d * Segment \in Nat
  BY DirAssumption
<1>3. (k - 1) * Segment = (i - 1) * Segment + Segment + d * Segment
  BY <1>1, <1>2
<1>4. At(k) = At(i) + Segment + d * Segment /\ At(i) \in Nat
  BY <1>3, AtIs DEF At
<1>. QED BY <1>2, <1>4

\* Character j of part i.
LEMMA PartAt ==
    ASSUME NEW i \in Nat \ {0}, NEW j \in 1..Segment
    PROVE  /\ ((At(i) + j) - 1) \div Segment = i - 1
           /\ (((At(i) + j) - 1) % Segment) + 1 = j
<1>1. Segment \in Nat \ {0} /\ i - 1 \in Nat /\ j - 1 \in 0..(Segment - 1)
  BY DirAssumption
<1>2. \A q \in Nat : \A r \in 0..(Segment - 1) :
          (Segment * q + r) \div Segment = q /\ (Segment * q + r) % Segment = r
  BY <1>1
<1>3. (At(i) + j) - 1 = Segment * (i - 1) + (j - 1)
  BY <1>1 DEF At
<1>4. /\ (Segment * (i - 1) + (j - 1)) \div Segment = i - 1
      /\ (Segment * (i - 1) + (j - 1)) % Segment = j - 1
  BY <1>1, <1>2
<1>5. /\ ((At(i) + j) - 1) \div Segment = i - 1
      /\ ((At(i) + j) - 1) % Segment = j - 1
  BY <1>3, <1>4, Zenon
<1>. QED BY <1>1, <1>5

\* Every character is of a part.
LEMMA PartOf ==
    ASSUME NEW n \in Nat \ {0}, NEW q \in 1..(n * Segment)
    PROVE  \E i \in 1..n : \E j \in 1..Segment : q = At(i) + j
<1> DEFINE T == {i \in Nat : i # 0 /\ q <= At(i + 1)}
<1>1. n \in T /\ Segment \in Nat \ {0} /\ q \in Nat
  BY AtIs, DirAssumption
<1>2. PICK i \in T : \A k \in T : i <= k
  BY <1>1, LeastNat
<1>3. i \in 1..n /\ At(i) \in Nat /\ At(i + 1) = At(i) + Segment /\ At(1) = 0
  BY <1>1, <1>2, AtIs
<1>4. At(i) < q
  <2>1. CASE i = 1
    BY <1>3, <2>1
  <2>2. CASE i # 1
    <3>1. i - 1 \in Nat /\ i - 1 # 0 /\ ~(i <= i - 1) /\ i - 1 + 1 = i
      BY <1>3, <2>2
    <3>2. ~(i - 1 \in T)
      BY <1>2, <3>1
    <3>3. ~(q <= At(i))
      BY <3>1, <3>2
    <3>. QED BY <1>1, <1>3, <3>3
  <2>. QED BY <2>1, <2>2
<1>5. q <= At(i + 1)
  BY <1>2
<1>6. q - At(i) \in 1..Segment /\ q = At(i) + (q - At(i))
  BY <1>1, <1>3, <1>4, <1>5
<1>. QED BY <1>3, <1>6

\* A slot of a directory.
LEMMA SlotIs ==
    ASSUME dir \in Dirs, NEW i \in Int
    PROVE  IsSlot(Slot(i))
<1>1. Len(dir.slots) \in Nat \ {0} /\ \A k \in 1..Len(dir.slots) : IsSlot(dir.slots[k])
  BY DirAssumption
<1>2. \A n \in Nat \ {0} : \A x \in Int : (x % n) + 1 \in 1..n
  OBVIOUS
<1>3. ((i - 1) % Len(dir.slots)) + 1 \in 1..Len(dir.slots)
  <2>1. i - 1 \in Int /\ Len(dir.slots) \in Nat \ {0}
    BY <1>1
  <2>. QED BY <2>1, <1>2, Zenon
<1>. QED BY <1>1, <1>3 DEF Slot

\* The text of a part ends with its first Nul, or is full.
LEMMA EndsIs ==
    ASSUME NEW text, DOMAIN text = 1..Segment
    PROVE  /\ Ends(text) \in 1..Segment
           /\ \A j \in 1..(Ends(text) - 1) : text[j] # Nul
           /\ text[Ends(text)] = Nul \/ Ends(text) = Segment
<1>0. Segment \in Nat \ {0}
  BY DirAssumption
<1>1. CASE \E i \in DOMAIN text : text[i] = Nul
  <2> DEFINE T == {i \in 1..Segment : text[i] = Nul}
             First(i) == i \in DOMAIN text /\ text[i] = Nul /\ \A j \in 1..(i - 1) : text[j] # Nul
  <2>1. T \in SUBSET Nat /\ T # {}
    BY <1>0, <1>1
  <2>2. PICK i \in T : \A k \in T : i <= k
    BY <2>1, LeastNat
  <2>3. \A j \in 1..(i - 1) : j \in 1..Segment /\ ~(i <= j)
    BY <1>0, <2>2
  <2>4. \A j \in 1..(i - 1) : text[j] # Nul
    BY <2>2, <2>3
  <2>5. First(i)
    BY <2>2, <2>4
  <2>6. Ends(text) = CHOOSE x \in DOMAIN text : text[x] = Nul /\ \A j \in 1..(x - 1) : text[j] # Nul
    BY <1>1 DEF Ends
  <2>7. First(Ends(text))
    BY <2>5, <2>6
  <2>. QED BY <2>7
<1>2. CASE ~ \E i \in DOMAIN text : text[i] = Nul
  <2>1. Ends(text) = Segment
    BY <1>2 DEF Ends
  <2>. QED BY <1>0, <1>2, <2>1
<1>. QED BY <1>1, <1>2

-----------------------------------------------------------------------------
(* FatDir: a long name and the buffer *)

LEMMA CharIs ==
    ASSUME NEW k \in Int, NEW i \in Nat \ {0}, NEW j \in 1..Segment
    PROVE  Char(k, At(i) + j) = Slot(k - i).text[j]
<1>1. /\ ((At(i) + j) - 1) \div Segment = i - 1
      /\ (((At(i) + j) - 1) % Segment) + 1 = j
  BY PartAt
<1>2. k - 1 - (((At(i) + j) - 1) \div Segment) = k - i
  BY <1>1
<1>. QED BY <1>1, <1>2 DEF Char

\* Where a name of n parts ends, if its text is that of the slots before k.
EndsAt(k, n, m) == /\ \A q \in 1..m : Char(k, q) # Nul
                   /\ m = n * Segment \/ Char(k, m + 1) = Nul

LEMMA TextEnds ==
    ASSUME NEW k \in Int, NEW n \in Nat \ {0}, NEW m \in 0..(n * Segment), EndsAt(k, n, m)
    PROVE  Text(k, n) = [q \in 1..m |-> Char(k, q)]
<1>0. n * Segment \in Nat
  BY DirAssumption
<1>1. ASSUME NEW x \in 0..(n * Segment), EndsAt(k, n, x) PROVE x = m
  <2>1. x \in Nat /\ m \in Nat
    BY <1>0
  <2>2. CASE x < m
    <3>1. x + 1 \in 1..m /\ x # n * Segment
      BY <1>0, <2>1, <2>2
    <3>. QED BY <3>1, <1>1 DEF EndsAt
  <2>3. CASE m < x
    <3>1. m + 1 \in 1..x /\ m # n * Segment
      BY <1>0, <2>1, <2>3
    <3>. QED BY <3>1, <1>1 DEF EndsAt
  <2>. QED BY <2>1, <2>2, <2>3
<1>2. (CHOOSE x \in 0..(n * Segment) : EndsAt(k, n, x)) = m
  BY <1>1
<1>. QED BY <1>2 DEF Text, EndsAt

\* Every name ends somewhere.
LEMMA TextEnd ==
    ASSUME NEW k \in Int, NEW n \in Nat \ {0}
    PROVE  \E m \in 0..(n * Segment) : EndsAt(k, n, m)
<1>0. n * Segment \in Nat
  BY DirAssumption
<1>1. CASE \A q \in 1..(n * Segment) : Char(k, q) # Nul
  BY <1>0, <1>1 DEF EndsAt
<1>2. CASE \E q \in 1..(n * Segment) : Char(k, q) = Nul
  <2> DEFINE T == {q \in 1..(n * Segment) : Char(k, q) = Nul}
  <2>1. T \in SUBSET Nat /\ T # {}
    BY <1>0, <1>2
  <2>2. PICK q \in T : \A x \in T : q <= x
    BY <2>1, LeastNat
  <2>3. q - 1 \in 0..(n * Segment) /\ q - 1 + 1 = q
    BY <1>0, <2>2
  <2>4. \A x \in 1..(q - 1) : x \in 1..(n * Segment) /\ ~(q <= x)
    BY <1>0, <2>2
  <2>5. \A x \in 1..(q - 1) : Char(k, x) # Nul
    BY <2>2, <2>4
  <2>6. Char(k, q - 1 + 1) = Nul
    BY <2>2, <2>3
  <2>. QED BY <2>3, <2>5, <2>6 DEF EndsAt
<1>. QED BY <1>1, <1>2

\* The parts before slot k are in the buffer, each up to its end, and the last is
\* ended there.
Buffered(k, n) ==
    /\ \A i \in 1..n : /\ Slot(k - i).kind = "long"
                       /\ \A e \in 1..Ends(Slot(k - i).text) : lfnbuf[At(i) + e] = Slot(k - i).text[e]
    /\ LET e == Ends(Slot(k - n).text)
       IN Slot(k - n).text[e] # Nul => lfnbuf[At(n) + e + 1] = Nul

\* The buffer holds a name of m characters.
NameEnds(m) == lfnbuf[m + 1] = Nul /\ \A q \in 1..m : lfnbuf[q] # Nul

LEMMA EndsPart ==
    ASSUME dir \in Dirs, NEW k \in Int, NEW i \in Nat, Slot(k - i).kind = "long"
    PROVE  LET t == Slot(k - i).text IN
           /\ Ends(t) \in 1..Segment
           /\ \A j \in 1..(Ends(t) - 1) : t[j] # Nul
           /\ t[Ends(t)] = Nul \/ Ends(t) = Segment
<1>1. IsSlot(Slot(k - i))
  BY SlotIs
<1>2. DOMAIN Slot(k - i).text = 1..Segment
  BY <1>1 DEF IsSlot
<1>. QED BY <1>2, EndsIs

\* Then it is the name that the parts hold.
LEMMA TextHeld ==
    ASSUME dir \in Dirs, NEW k \in Int, NEW n \in Nat \ {0}, Buffered(k, n),
           NEW m \in Nat, NameEnds(m)
    PROVE  /\ m \in 0..(n * Segment)
           /\ Text(k, n) = [q \in 1..m |-> lfnbuf[q]]
<1>0. Segment \in Nat \ {0} /\ n * Segment \in Nat /\ n * Segment = At(n) + Segment /\ At(n) \in Nat
  BY DirAssumption, AtIs
<1>1. m \in 0..(n * Segment)
  <2> DEFINE e == Ends(Slot(k - n).text)
  <2>1. Slot(k - n).kind = "long" /\ n \in 1..n
    BY DEF Buffered
  <2>2. e \in 1..Segment /\ (Slot(k - n).text[e] = Nul \/ e = Segment)
    BY <2>1, EndsPart
  <2>3. lfnbuf[At(n) + e] = Slot(k - n).text[e]
    BY <2>1, <2>2 DEF Buffered
  <2>4. Slot(k - n).text[e] # Nul => lfnbuf[At(n) + e + 1] = Nul
    BY DEF Buffered
  <2>5. \/ e = Segment /\ lfnbuf[At(n) + e + 1] = Nul
        \/ lfnbuf[At(n) + e] = Nul
    BY <2>2, <2>3, <2>4
  <2>. HIDE DEF e
  <2>6. At(n) + e \in Nat /\ At(n) + e <= n * Segment
    BY <1>0, <2>2
  <2>7. m < At(n) + e + 1
    <3>1. SUFFICES ASSUME At(n) + e + 1 <= m PROVE FALSE
      BY <2>6
    <3>2. At(n) + e \in 1..m /\ At(n) + e + 1 \in 1..m
      BY <1>0, <2>2, <3>1
    <3>. QED BY <2>5, <3>2 DEF NameEnds
  <2>. QED BY <1>0, <2>6, <2>7
\* Up to the end of the name, the characters are those of the buffer.
<1>2. ASSUME NEW q \in 1..(n * Segment), q <= m + 1 PROVE Char(k, q) = lfnbuf[q]
  <2>1. PICK i \in 1..n : \E j \in 1..Segment : q = At(i) + j
    BY PartOf
  <2>2. PICK j \in 1..Segment : q = At(i) + j
    BY <2>1
  <2>3. i \in Nat \ {0} /\ At(i) \in Nat
    BY AtIs
  <2>4. Char(k, q) = Slot(k - i).text[j]
    BY <2>2, <2>3, CharIs
  <2>5. Slot(k - i).kind = "long" /\ i \in Nat
    BY DEF Buffered
  <2> DEFINE e == Ends(Slot(k - i).text)
  <2>6. e \in 1..Segment /\ (Slot(k - i).text[e] = Nul \/ e = Segment)
    BY <2>5, EndsPart
  <2>7. \A x \in 1..e : lfnbuf[At(i) + x] = Slot(k - i).text[x]
    BY DEF Buffered
  <2>. HIDE DEF e
  <2>8. j <= e
    <3>1. SUFFICES ASSUME e < j PROVE FALSE
      BY <2>6
    <3>2. Slot(k - i).text[e] = Nul
      BY <2>6, <3>1
    <3>3. lfnbuf[At(i) + e] = Nul
      BY <2>6, <2>7, <3>2
    <3>4. At(i) + e \in 1..m
      BY <1>0, <1>2, <2>2, <2>3, <2>6, <3>1
    <3>. QED BY <3>3, <3>4 DEF NameEnds
  <2>9. j \in 1..e
    BY <2>6, <2>8
  <2>. QED BY <2>2, <2>4, <2>7, <2>9
<1>3. EndsAt(k, n, m)
  <2>1. \A q \in 1..m : q \in 1..(n * Segment) /\ q <= m + 1
    BY <1>0, <1>1
  <2>2. \A q \in 1..m : Char(k, q) # Nul
    BY <1>2, <2>1 DEF NameEnds
  <2>3. m = n * Segment \/ (m + 1 \in 1..(n * Segment) /\ m + 1 <= m + 1)
    BY <1>0, <1>1
  <2>4. m = n * Segment \/ Char(k, m + 1) = Nul
    BY <1>2, <2>3 DEF NameEnds
  <2>. QED BY <2>2, <2>4 DEF EndsAt
<1>4. Text(k, n) = [q \in 1..m |-> Char(k, q)]
  BY <1>1, <1>3, TextEnds
<1>5. \A q \in 1..m : Char(k, q) = lfnbuf[q]
  <2>1. \A q \in 1..m : q \in 1..(n * Segment) /\ q <= m + 1
    BY <1>0, <1>1
  <2>. QED BY <1>2, <2>1
<1>. QED BY <1>1, <1>4, <1>5

\* A part of a whole name agrees with the buffer that holds the name.
LEMMA PartAgrees ==
    ASSUME dir \in Dirs, NEW k \in Int, NEW n \in Nat \ {0}, HasLong(k, n), Whole(k, n),
           NEW m \in Nat, NameEnds(m), Text(k, n) = [q \in 1..m |-> lfnbuf[q]],
           NEW i \in 1..n
    PROVE  CmpLfn(Slot(k - i))
<1>0. /\ Segment \in Nat \ {0} /\ n * Segment \in Nat /\ n * Segment = At(n) + Segment
      /\ MaxLfn \in Nat /\ At(n) \in Nat /\ i \in Nat \ {0} /\ At(i) \in Nat /\ At(i + 1) = At(i) + Segment
      /\ (i < n => At(i) + Segment <= At(n)) /\ n \in 1..n
  BY DirAssumption, AtIs, AtGrows
<1> DEFINE s == Slot(k - i)
           e == Ends(s.text)
<1>1. /\ s.kind = "long" /\ s.clear /\ Filled(s.text) /\ s.ord = i /\ (s.last <=> i = n)
      /\ Slot(k - n).kind = "long" /\ Slot(k - n).ord = n
  BY <1>0 DEF HasLong
<1>2. Offset(s) = At(i) /\ Offset(Slot(k - n)) = At(n)
  BY <1>1 DEF Offset, At
<1>3. /\ e \in 1..Segment /\ (\A j \in 1..(e - 1) : s.text[j] # Nul)
      /\ (s.text[e] = Nul \/ e = Segment)
  BY <1>0, <1>1, EndsPart
<1>4. Ends(Slot(k - n).text) \in 1..Segment /\ At(n) + Ends(Slot(k - n).text) <= MaxLfn
  BY <1>0, <1>1, <1>2, EndsPart DEF Whole
<1>5. i < n => \A j \in 1..Segment : s.text[j] # Nul
  <2>1. i < n => i \in 1..(n - 1)
    OBVIOUS
  <2>2. \A h \in 1..(n - 1), j \in 1..Segment : Slot(k - h).text[j] # Nul
    BY DEF Whole
  <2>. QED BY <2>1, <2>2
<1>6. \A j \in 1..Segment : Char(k, At(i) + j) = s.text[j]
  BY <1>0, CharIs
<1>7. PICK x \in 0..(n * Segment) : EndsAt(k, n, x)
  BY TextEnd
<1>8. Text(k, n) = [q \in 1..x |-> Char(k, q)]
  BY <1>7, TextEnds
<1>9. x = m /\ \A q \in 1..m : Char(k, q) = lfnbuf[q]
  <2> DEFINE F == [q \in 1..x |-> Char(k, q)]
             G == [q \in 1..m |-> lfnbuf[q]]
  <2>1. F = G /\ DOMAIN F = 1..x /\ DOMAIN G = 1..m
    BY <1>8
  <2>2. 1..x = 1..m
    BY <2>1
  <2>3. x = m
    BY <1>0, <1>7, <2>2
  <2>4. \A q \in 1..m : F[q] = Char(k, q) /\ G[q] = lfnbuf[q]
    BY <2>3
  <2>. HIDE DEF F, G
  <2>. QED BY <2>1, <2>3, <2>4
<1>. HIDE DEF s, e
\* The name reaches as far as the part does.
<1>10. \A j \in 1..Segment : (\A y \in 1..j : s.text[y] # Nul) => At(i) + j <= m
  <2>1. SUFFICES ASSUME NEW j \in 1..Segment, \A y \in 1..j : s.text[y] # Nul, m < At(i) + j
                 PROVE  FALSE
    BY <1>0
  <2>2. At(i) + j <= n * Segment
    BY <1>0
  <2>3. m + 1 \in 1..(n * Segment) /\ m # n * Segment /\ Char(k, m + 1) = Nul
    BY <1>0, <1>7, <1>9, <2>1, <2>2 DEF EndsAt
  <2>4. PICK a \in 1..n : \E b \in 1..Segment : m + 1 = At(a) + b
    BY <2>3, PartOf
  <2>5. PICK b \in 1..Segment : m + 1 = At(a) + b
    BY <2>4
  <2>6. /\ a \in Nat \ {0} /\ At(a) \in Nat
        /\ a # n => \A y \in 1..Segment : Slot(k - a).text[y] # Nul
    <3>1. a \in Nat \ {0}
      OBVIOUS
    <3>2. a # n => a \in 1..(n - 1)
      OBVIOUS
    <3>. QED BY <3>1, <3>2, AtIs DEF Whole
  <2>7. Slot(k - a).text[b] = Nul
    BY <2>3, <2>5, <2>6, CharIs
  <2>8. a = n
    BY <2>6, <2>7
  <2>9. i = n
    BY <1>0, <2>1, <2>5, <2>8
  <2>10. b \in 1..j
    BY <1>0, <2>1, <2>5, <2>8, <2>9
  <2>. QED BY <2>1, <2>7, <2>8, <2>9, <2>10 DEF s
<1>11. ASSUME NEW j \in 1..e PROVE s.text[j] = lfnbuf[Offset(s) + j]
  <2>1. j \in 1..Segment /\ At(i) + j \in Nat \ {0}
    BY <1>0, <1>3
  <2>2. CASE s.text[j] # Nul
    <3>1. \A y \in 1..j : s.text[y] # Nul
      BY <1>3, <2>2
    <3>2. At(i) + j \in 1..m
      BY <1>10, <2>1, <3>1
    <3>. QED BY <1>2, <1>6, <1>9, <2>1, <3>2
  <2>3. CASE s.text[j] = Nul
    <3>1. \A y \in 1..(j - 1) : s.text[y] # Nul
      BY <1>3
    <3>2. At(i) + j <= m + 1
      <4>1. CASE j = 1
        <5>1. CASE i = 1
          BY <1>0, <4>1, <5>1, AtIs
        <5>2. CASE i # 1
          <6>1. i - 1 \in 1..(n - 1) /\ i - 1 \in Nat \ {0} /\ i - 1 + 1 = i /\ i - 1 \in 1..n
            BY <1>0, <5>2
          <6>2. At(i) = At(i - 1) + Segment /\ At(i - 1) \in Nat
            BY <6>1, AtIs
          <6>3. ASSUME At(i) > m PROVE FALSE
            <7>1. m # n * Segment /\ m + 1 \in 1..(n * Segment)
              BY <1>0, <6>3
            <7>2. Char(k, m + 1) = Nul
              BY <1>7, <1>9, <7>1 DEF EndsAt
            <7>3. PICK a \in 1..n : \E b \in 1..Segment : m + 1 = At(a) + b
              BY <7>1, PartOf
            <7>4. PICK b \in 1..Segment : m + 1 = At(a) + b
              BY <7>3
            <7>5. a \in Nat \ {0} /\ (a # n => a \in 1..(n - 1))
              OBVIOUS
            <7>6. Slot(k - a).text[b] = Nul
              BY <7>2, <7>4, <7>5, CharIs
            <7>7. a = n
              BY <7>5, <7>6 DEF Whole
            <7>. QED BY <1>0, <6>3, <7>4, <7>7
          <6>. QED BY <1>0, <4>1, <6>2, <6>3
        <5>. QED BY <5>1, <5>2
      <4>2. CASE j # 1
        <5>1. j - 1 \in 1..Segment
          BY <1>0, <2>1, <4>2
        <5>2. At(i) + (j - 1) <= m
          BY <1>10, <3>1, <5>1
        <5>. QED BY <1>0, <2>1, <5>2
      <4>. QED BY <4>1, <4>2
    <3>3. Char(k, At(i) + j) = Nul
      BY <1>6, <2>1, <2>3
    <3>4. At(i) + j = m + 1
      <4>1. ~(At(i) + j \in 1..m)
        BY <1>7, <1>9, <3>3 DEF EndsAt
      <4>. QED BY <2>1, <3>2, <4>1
    <3>. QED BY <1>2, <2>3, <3>4 DEF NameEnds
  <2>. QED BY <2>2, <2>3
<1>12. Offset(s) + e <= MaxLfn
  <2>1. CASE i = n
    BY <1>2, <1>4, <2>1 DEF s, e
  <2>2. CASE i < n
    BY <1>0, <1>2, <1>3, <1>4, <2>2 DEF s
  <2>. QED BY <1>0, <2>1, <2>2
<1>13. ASSUME s.last, s.text[e] # Nul PROVE lfnbuf[Offset(s) + e + 1] = Nul
  <2>1. i = n /\ e = Segment
    BY <1>1, <1>3, <1>13 DEF s
  <2>2. \A y \in 1..Segment : s.text[y] # Nul
    BY <1>3, <1>13, <2>1
  <2>3. Segment \in 1..Segment
    BY <1>0
  <2>4. At(i) + Segment <= m
    BY <1>10, <2>2, <2>3
  <2>5. m = n * Segment
    BY <1>0, <1>7, <1>9, <2>1, <2>4
  <2>6. Offset(s) + e + 1 = m + 1
    BY <1>0, <1>2, <2>1, <2>5 DEF s
  <2>. QED BY <2>6 DEF NameEnds
<1>14. s.clear /\ s.ord > 0 /\ Filled(s.text)
  BY <1>0, <1>1 DEF s
<1>15. CmpLfn(s)
  BY <1>11, <1>12, <1>13, <1>14 DEF CmpLfn, e
<1>. QED BY <1>15 DEF s

-----------------------------------------------------------------------------
(* FatDir: the invariant *)

\* cmp_lfn, of any buffer.
AgreesWith(s, buf) ==
    LET e == Ends(s.text) IN
    /\ s.clear /\ s.ord > 0 /\ Filled(s.text)
    /\ Offset(s) + e <= MaxLfn
    /\ \A i \in 1..e : s.text[i] = buf[Offset(s) + i]
    /\ s.last /\ s.text[e] # Nul => buf[Offset(s) + e + 1] = Nul

\* The m slots before p hold the parts of a name from its last one on, down to the
\* one before which comes part o: they agree with the buffer, and f_readdir took them.
RunAt(p, o, c, buf, m, who) ==
    \A j \in 1..m : LET s == Slot(p - j) IN
                    /\ s.kind = "long" /\ AgreesWith(s, buf) /\ (who = "read" => PickLfn(s))
                    /\ s.ord = o + j /\ (s.last <=> j = m) /\ s.sum = c

\* The long names that the call has to take.
Due(k, n) == /\ Slot(k).kind \in {"short", "dot", "label"} /\ HasLong(k, n)
             /\ call = "read" => Fits(k, n)
             /\ call = "find" => Whole(k, n) /\ fname = Text(k, n)

\* What is not the entry that the call looks for.
Passed(k) == /\ call = "read" /\ InUse(k) => Slot(k).kind \notin {"short", "label"}
             /\ call = "find" => ~Named(k, Whole)

BufferTyped == DOMAIN lfnbuf = 1..(MaxLfn + 1) /\ lfnbuf[MaxLfn + 1] = Nul

\* create_name leaves the name in the buffer.
SoughtHeld ==
    call = "find" => /\ fname \in Sought /\ lfnbuf[Len(fname) + 1] = Nul
                     /\ \A i \in 1..Len(fname) : lfnbuf[i] = fname[i]

DirCore == /\ dir \in Dirs /\ DirTypeOK /\ BufferTyped /\ SoughtHeld
           /\ dptr <= Limit
           /\ call # "idle" => res = "ok" /\ found = 0

\* A call begins after a file, or with the first slot.
Begun == /\ ~eot => InUse(dptr - 1)
         /\ call # "idle" /\ ~eot => from <= dptr
         /\ call = "idle" /\ res = "ok" /\ ~eot /\ dptr > 1 => Slot(dptr - 1).kind \in {"short", "label"}
         /\ call = "read" /\ from \in 2..MaxDir => Slot(from - 1).kind \in {"short", "label"}
         /\ call = "find" => from = 1

AllPassed == call # "idle" => /\ \A k \in from..(dptr - 1) : Passed(k)
                              /\ eot => \A k \in from..Limit : Passed(k)

\* A part is expected only after a run of parts; and where the first parts of a name
\* that is to be taken have been met, its next one is.
RunHeld == call # "idle" /\ ~eot /\ ord # Unset =>
               blk_ofs /\ \E m \in 1..(dptr - from) : RunAt(dptr, ord, sum, lfnbuf, m, call)
DueHeld == call # "idle" /\ ~eot =>
               \A k \in dptr..MaxDir : \A n \in 1..(k - 1) :
                   Due(k, n) /\ from <= k - n /\ k - n < dptr
                   => ord = k - dptr /\ sum = Slot(k).sum

\* The inductive invariant.
DirInv == /\ DirCore /\ Begun /\ AllPassed /\ RunHeld /\ DueHeld
          /\ ReadsNext /\ FindsNamed

-----------------------------------------------------------------------------
(* FatDir: steps of the table *)

LEMMA SameDir ==
    ASSUME dir' = dir
    PROVE  /\ \A i : Slot(i)' = Slot(i)
           /\ \A k, n : /\ Text(k, n)' = Text(k, n)
                        /\ HasLong(k, n)' <=> HasLong(k, n)
                        /\ Fits(k, n)' <=> Fits(k, n)
                        /\ Whole(k, n)' <=> Whole(k, n)
           /\ \A k : InUse(k)' <=> InUse(k)
           /\ Limit' = Limit
<1>1. \A i : Slot(i)' = Slot(i)
  BY DEF Slot
<1>2. \A k, n : Text(k, n)' = Text(k, n)
  BY DEF Text, Char, Slot
<1>3. \A k, n : HasLong(k, n)' <=> HasLong(k, n)
  BY <1>1 DEF HasLong
<1>4. \A k, n : Fits(k, n)' <=> Fits(k, n)
  BY <1>1 DEF Fits, Offset
<1>5. \A k, n : Whole(k, n)' <=> Whole(k, n)
  BY <1>1 DEF Whole, Offset
<1>6. \A k : InUse(k)' <=> InUse(k)
  BY <1>1 DEF InUse
<1>7. Limit' = Limit
  BY DEF Limit
<1>. QED BY <1>1, <1>2, <1>3, <1>4, <1>5, <1>6, <1>7

LEMMA SameNamed ==
    ASSUME dir' = dir, fname' = fname, NEW k
    PROVE  (Named(k, AnyLong)' <=> Named(k, AnyLong)) /\ (Named(k, Whole)' <=> Named(k, Whole))
<1>1. Named(k, AnyLong)' <=> Named(k, AnyLong)
  BY SameDir DEF Named, LongNames, AnyLong
<1>2. Named(k, Whole)' <=> Named(k, Whole)
  BY SameDir DEF Named, LongNames
<1>. QED BY <1>1, <1>2

\* What get_fileinfo makes of the long names of a file, and of its short one.
Listing(names, short) ==
    LET bytes == {[i \in DOMAIN t |-> Byte(t[i])] : t \in names}
        valid == {b \in bytes : b # <<>> /\ \A i \in DOMAIN b : b[i] # Nul}
    IN IF valid = {} THEN short ELSE CHOOSE b \in valid : TRUE

LEMMA SameListed ==
    ASSUME dir' = dir, NEW k
    PROVE  ListedName(k)' = ListedName(k)
<1>1. ListedName(k) = Listing(LongNames(k, Fits), Slot(k).name)
  BY DEF Listing, ListedName
<1>2. ListedName(k)' = Listing(LongNames(k, Fits)', Slot(k)'.name)
  BY DEF Listing, ListedName
<1>3. LongNames(k, Fits)' = LongNames(k, Fits) /\ Slot(k)' = Slot(k)
  BY SameDir DEF LongNames
<1>. QED BY <1>1, <1>2, <1>3

\* The end of the table is its last slot, or MaxDir; else the next slot is looked at.
Moved == \/ dptr = Limit /\ eot' = TRUE /\ dptr' = dptr
         \/ dptr < Limit /\ eot' = eot /\ dptr' = dptr + 1

LEMMA LimitIs ==
    ASSUME dir \in Dirs
    PROVE  Limit \in 1..MaxDir /\ MaxDir \in Nat
<1>1. Len(dir.slots) \in Nat \ {0} /\ MaxDir \in Nat \ {0}
  BY DirAssumption
<1>. QED BY <1>1 DEF Limit

LEMMA AdvanceIs ==
    ASSUME DirCore, Advance
    PROVE  Moved
<1>1. Len(dir.slots) \in Nat \ {0} /\ MaxDir \in Nat \ {0} /\ dptr \in 1..MaxDir /\ dptr <= Limit
  BY DirAssumption DEF DirCore, DirTypeOK
<1>2. dptr = Limit <=> dptr >= MaxDir \/ (~dir.loop /\ dptr = Len(dir.slots))
  <2>1. CASE dir.loop
    BY <1>1, <2>1 DEF Limit
  <2>2. CASE ~dir.loop
    BY <1>1, <2>2 DEF Limit
  <2>. QED BY <2>1, <2>2
<1>3. Limit \in 1..MaxDir
  BY LimitIs DEF DirCore
<1>4. CASE dptr = Limit
  BY <1>2, <1>4 DEF Advance, Moved
<1>5. CASE dptr # Limit
  BY <1>1, <1>2, <1>3, <1>5 DEF Advance, Moved
<1>. QED BY <1>4, <1>5

LEMMA LongIs ==
    ASSUME NEW s, IsSlot(s), s.kind = "long"
    PROVE  /\ s.ord \in 0..(Unset - 1) /\ s.sum \in 0..255 /\ DOMAIN s.text = 1..Segment
           /\ Ends(s.text) \in 1..Segment /\ Offset(s) \in Int /\ Offset(s) = At(s.ord)
<1>1. /\ s.ord \in 0..254 /\ s.sum \in 0..255 /\ DOMAIN s.text = 1..Segment /\ Unset = 255
  BY DEF IsSlot, Unset
<1>2. Ends(s.text) \in 1..Segment
  BY <1>1, EndsIs
<1>3. \A a \in Int : \A b \in Nat : a * b \in Int
  OBVIOUS
<1>4. s.ord - 1 \in Int /\ Segment \in Nat
  <2>1. \A x \in 0..254 : x - 1 \in Int
    OBVIOUS
  <2>2. s.ord - 1 \in Int
    BY <1>1, <2>1, Zenon
  <2>. QED BY <2>2, DirAssumption
<1>5. Offset(s) \in Int
  BY <1>3, <1>4 DEF Offset
<1>. QED BY <1>1, <1>2, <1>5 DEF Offset, At

LEMMA MovedIs ==
    ASSUME DirCore, Moved
    PROVE  dptr' \in 1..MaxDir /\ dptr' <= Limit /\ eot' \in BOOLEAN
<1>1. dptr \in 1..MaxDir /\ dptr <= Limit /\ MaxDir \in Nat /\ Limit \in 1..MaxDir
  BY LimitIs DEF DirCore, DirTypeOK
<1>2. dptr' = dptr \/ (dptr < Limit /\ dptr' = dptr + 1)
  BY Zenon DEF Moved
<1>3. eot \in BOOLEAN
  BY Zenon DEF DirCore, DirTypeOK
<1>4. eot' = TRUE \/ eot' = eot
  BY Zenon DEF Moved
<1>5. eot' \in BOOLEAN
  BY <1>3, <1>4, Zenon
<1>. QED BY <1>1, <1>2, <1>5

LEMMA HereIs ==
    ASSUME DirCore
    PROVE  /\ IsSlot(Here)
           /\ Here.kind = "long" => /\ Here.ord \in 0..(Unset - 1) /\ Here.sum \in 0..255
                                    /\ Ends(Here.text) \in 1..Segment /\ Offset(Here) \in Int
<1>1. dptr \in Int /\ dir \in Dirs
  BY DirAssumption DEF DirCore, DirTypeOK
<1>2. IsSlot(Here)
  BY <1>1, SlotIs DEF Here
<1>. QED BY <1>2, LongIs

\* What a part makes of ord and sum.
LEMMA LongPartIs ==
    ASSUME NEW a \in BOOLEAN, LongPart(a), DirCore, Here.kind = "long", a => Here.ord > 0
    PROVE  /\ ord' \in 0..Unset /\ sum' \in 0..Unset
           /\ ord' # Unset => /\ a /\ Here.ord = ord' + 1 /\ Here.sum = sum'
                              /\ ~Here.last => ord = Here.ord /\ ord # Unset /\ sum = Here.sum
           /\ a /\ Here.last => ord' = Here.ord - 1 /\ sum' = Here.sum
           /\ a /\ ~Here.last /\ ord = Here.ord /\ sum = Here.sum => ord' = Here.ord - 1 /\ sum' = sum
<1>1. /\ Here.ord \in 0..254 /\ Here.sum \in 0..255 /\ ord \in 0..255 /\ sum \in 0..255 /\ Unset = 255
  BY HereIs DEF DirCore, DirTypeOK, Unset
<1>2. CASE Here.last
  BY <1>1, <1>2 DEF LongPart
<1>3. CASE ~Here.last
  BY <1>1, <1>3 DEF LongPart
<1>. QED BY <1>2, <1>3

-----------------------------------------------------------------------------
(* FatDir: what a step does to the buffer *)

\* A part that is taken is in the buffer then.
LEMMA PickedAgrees ==
    ASSUME BufferTyped, NEW s, IsSlot(s), s.kind = "long", PickLfn(s)
    PROVE  AgreesWith(s, Picked(s))
<1> DEFINE e == Ends(s.text)
           o == Offset(s)
<1>1. e \in 1..Segment /\ o \in Int /\ o = At(s.ord) /\ s.ord \in 0..(Unset - 1)
  BY LongIs
<1>2. /\ s.clear /\ s.ord > 0 /\ Filled(s.text) /\ o + e <= MaxLfn /\ (s.last => o + e < MaxLfn)
      /\ MaxLfn \in Nat /\ Segment \in Nat
  BY DirAssumption DEF PickLfn
<1>3. s.ord \in Nat \ {0}
  BY <1>1, <1>2 DEF Unset
<1>4. o \in Nat
  BY <1>1, <1>3, AtIs
<1>5. /\ DOMAIN lfnbuf = 1..(MaxLfn + 1)
      /\ Picked(s) = [i \in DOMAIN lfnbuf |->
                         IF i - o \in 1..e THEN s.text[i - o]
                         ELSE IF s.last /\ i = o + e + 1 THEN Nul ELSE lfnbuf[i]]
  BY DEF Picked, BufferTyped
<1>. HIDE DEF e, o
<1>6. ASSUME NEW i \in 1..e PROVE s.text[i] = Picked(s)[o + i]
  <2>1. o + i \in 1..(MaxLfn + 1) /\ (o + i) - o = i
    BY <1>1, <1>2, <1>4
  <2>. QED BY <1>5, <2>1
<1>7. ASSUME s.last PROVE Picked(s)[o + e + 1] = Nul
  <2>1. o + e + 1 \in 1..(MaxLfn + 1) /\ ~((o + e + 1) - o \in 1..e)
    BY <1>1, <1>2, <1>4, <1>7
  <2>. QED BY <1>5, <1>7, <2>1
<1>. QED BY <1>2, <1>6, <1>7 DEF AgreesWith, e, o

\* It does not disturb the parts behind it.
LEMMA PickedKeeps ==
    ASSUME BufferTyped, NEW s, IsSlot(s), s.kind = "long", PickLfn(s), ~s.last,
           NEW r, IsSlot(r), r.kind = "long", AgreesWith(r, lfnbuf), s.ord < r.ord
    PROVE  AgreesWith(r, Picked(s))
<1> DEFINE e == Ends(s.text)
           o == Offset(s)
           f == Ends(r.text)
           p == Offset(r)
<1>1. /\ e \in 1..Segment /\ o \in Int /\ o = At(s.ord) /\ s.ord \in 0..(Unset - 1)
      /\ f \in 1..Segment /\ p \in Int /\ p = At(r.ord) /\ r.ord \in 0..(Unset - 1)
  BY LongIs
<1>2. /\ s.ord > 0 /\ r.clear /\ r.ord > 0 /\ Filled(r.text) /\ p + f <= MaxLfn
      /\ \A i \in 1..f : r.text[i] = lfnbuf[p + i]
      /\ r.last /\ r.text[f] # Nul => lfnbuf[p + f + 1] = Nul
      /\ MaxLfn \in Nat /\ Segment \in Nat
  BY DirAssumption DEF PickLfn, AgreesWith
<1>3. s.ord \in Nat \ {0} /\ r.ord \in Nat \ {0}
  BY <1>1, <1>2 DEF Unset
<1>4. o \in Nat /\ p \in Nat /\ o + Segment <= p
  BY <1>1, <1>3, AtIs, AtGrows
<1>5. /\ DOMAIN lfnbuf = 1..(MaxLfn + 1)
      /\ Picked(s) = [i \in DOMAIN lfnbuf |->
                         IF i - o \in 1..e THEN s.text[i - o]
                         ELSE IF s.last /\ i = o + e + 1 THEN Nul ELSE lfnbuf[i]]
  BY DEF Picked, BufferTyped
<1>. HIDE DEF e, o, f, p
<1>6. ASSUME NEW i \in 1..(MaxLfn + 1), p < i PROVE Picked(s)[i] = lfnbuf[i]
  <2>1. ~(i - o \in 1..e)
    BY <1>1, <1>2, <1>4, <1>6
  <2>. QED BY <1>5, <2>1
<1>7. \A i \in 1..(f + 1) : p + i \in 1..(MaxLfn + 1) /\ p < p + i
  BY <1>1, <1>2, <1>4
<1>8. \A i \in 1..f : i \in 1..(f + 1) /\ r.text[i] = Picked(s)[p + i]
  BY <1>1, <1>2, <1>6, <1>7
<1>9. r.last /\ r.text[f] # Nul => Picked(s)[p + f + 1] = Nul
  <2>1. f + 1 \in 1..(f + 1) /\ p + (f + 1) = p + f + 1
    BY <1>1, <1>4
  <2>. QED BY <1>2, <1>6, <1>7, <2>1
<1>. QED BY <1>2, <1>8, <1>9 DEF AgreesWith, f, p

\* The end of the buffer is never written but with a Nul.
LEMMA PickedTyped ==
    ASSUME BufferTyped, NEW s, IsSlot(s), s.kind = "long", PickLfn(s)
    PROVE  DOMAIN Picked(s) = 1..(MaxLfn + 1) /\ Picked(s)[MaxLfn + 1] = Nul
<1> DEFINE e == Ends(s.text)
           o == Offset(s)
<1>1. /\ e \in 1..Segment /\ o \in Int /\ o + e <= MaxLfn /\ (s.last => o + e < MaxLfn)
      /\ MaxLfn \in Nat /\ Segment \in Nat
  BY LongIs, DirAssumption DEF PickLfn
<1>2. /\ DOMAIN lfnbuf = 1..(MaxLfn + 1) /\ lfnbuf[MaxLfn + 1] = Nul
      /\ Picked(s) = [i \in DOMAIN lfnbuf |->
                         IF i - o \in 1..e THEN s.text[i - o]
                         ELSE IF s.last /\ i = o + e + 1 THEN Nul ELSE lfnbuf[i]]
  BY DEF Picked, BufferTyped
<1>. HIDE DEF e, o
<1>3. MaxLfn + 1 \in 1..(MaxLfn + 1) /\ ~((MaxLfn + 1) - o \in 1..e)
  BY <1>1
<1>. QED BY <1>2, <1>3

\* A name that is put there is one that ends in it.
Stored(name) == [i \in DOMAIN lfnbuf |-> IF i <= Len(name) THEN name[i]
                                          ELSE IF i = Len(name) + 1 THEN Nul ELSE lfnbuf[i]]

LEMMA StoredIs ==
    ASSUME BufferTyped, NEW name \in Sought
    PROVE  /\ DOMAIN Stored(name) = 1..(MaxLfn + 1) /\ Stored(name)[MaxLfn + 1] = Nul
           /\ Stored(name)[Len(name) + 1] = Nul
           /\ \A i \in 1..Len(name) : Stored(name)[i] = name[i]
<1> DEFINE m == Len(name)
<1>1. m \in 1..MaxLfn /\ MaxLfn \in Nat
  BY DirAssumption
<1>2. /\ DOMAIN lfnbuf = 1..(MaxLfn + 1) /\ lfnbuf[MaxLfn + 1] = Nul
      /\ Stored(name) = [i \in DOMAIN lfnbuf |-> IF i <= m THEN name[i]
                                                  ELSE IF i = m + 1 THEN Nul ELSE lfnbuf[i]]
  BY DEF Stored, BufferTyped
<1>. HIDE DEF m
<1>3. /\ m + 1 \in 1..(MaxLfn + 1) /\ ~(m + 1 <= m)
      /\ MaxLfn + 1 \in 1..(MaxLfn + 1) /\ ~(MaxLfn + 1 <= m)
      /\ \A i \in 1..m : i \in 1..(MaxLfn + 1) /\ i <= m
  BY <1>1
<1>4. \A i \in 1..m : Stored(name)[i] = name[i]
  BY <1>2, <1>3
<1>5. Stored(name)[m + 1] = Nul /\ Stored(name)[MaxLfn + 1] = Nul
  BY <1>2, <1>3
<1>. QED BY <1>2, <1>4, <1>5 DEF m

-----------------------------------------------------------------------------
(* FatDir: runs and names *)

\* A run that is complete is a long name of the slot behind it, if the checksum is.
LEMMA RunName ==
    ASSUME dir \in Dirs, NEW p \in Int, NEW m \in Nat \ {0}, NEW who,
           RunAt(p, 0, Slot(p).sum, lfnbuf, m, who)
    PROVE  /\ HasLong(p, m) /\ Buffered(p, m)
           /\ who = "read" => Fits(p, m)
<1>1. ASSUME NEW i \in 1..m
      PROVE  LET s == Slot(p - i) IN
             /\ s.kind = "long" /\ AgreesWith(s, lfnbuf) /\ (who = "read" => PickLfn(s))
             /\ s.ord = i /\ (s.last <=> i = m) /\ s.sum = Slot(p).sum
             /\ Ends(s.text) \in 1..Segment /\ Offset(s) = At(i)
  <2> DEFINE s == Slot(p - i)
  <2>1. /\ s.kind = "long" /\ AgreesWith(s, lfnbuf) /\ (who = "read" => PickLfn(s))
        /\ s.ord = 0 + i /\ (s.last <=> i = m) /\ s.sum = Slot(p).sum
    BY DEF RunAt
  <2>2. p - i \in Int /\ 0 + i = i
    OBVIOUS
  <2>3. IsSlot(s)
    BY <2>2, SlotIs
  <2>. HIDE DEF s
  <2>4. s.ord = i
    BY <2>1, <2>2
  <2>5. Ends(s.text) \in 1..Segment /\ Offset(s) = At(i)
    BY <2>1, <2>3, <2>4, LongIs
  <2>. QED BY <2>1, <2>4, <2>5 DEF s
<1>2. HasLong(p, m)
  BY <1>1 DEF HasLong, AgreesWith
<1>3. m \in 1..m
  OBVIOUS
<1>4. Buffered(p, m)
  <2>1. \A i \in 1..m : /\ Slot(p - i).kind = "long"
                        /\ \A e \in 1..Ends(Slot(p - i).text) : lfnbuf[At(i) + e] = Slot(p - i).text[e]
    BY <1>1 DEF AgreesWith
  <2>2. LET e == Ends(Slot(p - m).text)
        IN Slot(p - m).text[e] # Nul => lfnbuf[At(m) + e + 1] = Nul
    BY <1>1, <1>3 DEF AgreesWith
  <2>. QED BY <2>1, <2>2 DEF Buffered
<1>5. who = "read" => Fits(p, m)
  BY <1>1, <1>3 DEF PickLfn, Fits
<1>. QED BY <1>2, <1>4, <1>5

\* A slot has one long name at most.
LEMMA OneName ==
    ASSUME NEW k \in Nat, NEW n \in 1..(k - 1), NEW m \in 1..(k - 1), HasLong(k, n), HasLong(k, m)
    PROVE  n = m
<1>1. CASE n < m
  <2>1. n \in 1..n /\ n \in 1..m
    BY <1>1
  <2>2. Slot(k - n).last /\ ~Slot(k - n).last
    BY <1>1, <2>1 DEF HasLong
  <2>. QED BY <2>2
<1>2. CASE m < n
  <2>1. m \in 1..n /\ m \in 1..m
    BY <1>2
  <2>2. Slot(k - m).last /\ ~Slot(k - m).last
    BY <1>2, <2>1 DEF HasLong
  <2>. QED BY <2>2
<1>. QED BY <1>1, <1>2

\* While dir_find runs, the buffer holds the name it looks for.
LEMMA SoughtIs ==
    ASSUME SoughtHeld, call = "find"
    PROVE  /\ Len(fname) \in 1..MaxLfn /\ NameEnds(Len(fname))
           /\ fname = [q \in 1..Len(fname) |-> lfnbuf[q]]
<1>1. /\ fname \in Sought /\ lfnbuf[Len(fname) + 1] = Nul
      /\ \A i \in 1..Len(fname) : lfnbuf[i] = fname[i]
  BY DEF SoughtHeld
<1>2. /\ Len(fname) \in 1..MaxLfn
      /\ fname = [i \in 1..Len(fname) |-> fname[i]]
      /\ \A i \in 1..Len(fname) : fname[i] # Nul
  BY <1>1, DirAssumption
<1>3. [i \in 1..Len(fname) |-> fname[i]] = [q \in 1..Len(fname) |-> lfnbuf[q]]
  BY <1>1
<1>4. fname = [q \in 1..Len(fname) |-> lfnbuf[q]]
  BY <1>2, <1>3, Zenon
<1>5. NameEnds(Len(fname))
  BY <1>1, <1>2 DEF NameEnds
<1>. QED BY <1>2, <1>4, <1>5

\* Where a name that is due has a part, the part is taken.
LEMMA DuePart ==
    ASSUME DirCore, call # "idle", NEW k \in Nat, NEW n \in 1..(k - 1), Due(k, n), NEW i \in 1..n
    PROVE  LET s == Slot(k - i) IN
           /\ s.kind = "long" /\ s.ord = i /\ (s.last <=> i = n) /\ s.sum = Slot(k).sum
           /\ (call = "read" => PickLfn(s)) /\ (call = "find" => CmpLfn(s))
<1> DEFINE s == Slot(k - i)
           l == Slot(k - n)
<1>0. /\ dir \in Dirs /\ SoughtHeld /\ HasLong(k, n) /\ (call = "read" => Fits(k, n))
      /\ call = "find" => Whole(k, n) /\ fname = Text(k, n)
  BY DEF DirCore, Due
<1>1. /\ s.kind = "long" /\ s.ord = i /\ (s.last <=> i = n) /\ s.sum = Slot(k).sum
      /\ s.clear /\ Filled(s.text)
  BY <1>0 DEF HasLong
<1>2. n \in 1..n /\ n \in Nat \ {0} /\ i \in Nat \ {0} /\ k \in Int /\ k - i \in Int /\ k - n \in Int
  OBVIOUS
<1>3. l.kind = "long" /\ l.ord = n
  BY <1>0, <1>2 DEF HasLong
<1>4. /\ Ends(s.text) \in 1..Segment /\ Offset(s) = At(i)
      /\ Ends(l.text) \in 1..Segment /\ Offset(l) = At(n)
  <2>1. IsSlot(s) /\ IsSlot(l)
    BY <1>0, <1>2, SlotIs
  <2>. HIDE DEF s, l
  <2>2. /\ Ends(s.text) \in 1..Segment /\ Offset(s) = At(s.ord)
        /\ Ends(l.text) \in 1..Segment /\ Offset(l) = At(l.ord)
    BY <1>1, <1>3, <2>1, LongIs
  <2>. QED BY <1>1, <1>3, <2>2
<1>5. call = "read" => PickLfn(s)
  <2>1. SUFFICES ASSUME call = "read" PROVE PickLfn(s)
    OBVIOUS
  <2>2. At(n) + Ends(l.text) < MaxLfn
    BY <1>0, <1>4, <2>1 DEF Fits
  <2>3. i < n => At(i) + Segment <= At(n)
    BY <1>2, AtGrows
  <2>4. At(i) \in Nat /\ At(n) \in Nat /\ MaxLfn \in Nat /\ Segment \in Nat
    BY <1>2, AtIs, DirAssumption
  <2>5. At(i) + Ends(s.text) <= MaxLfn /\ (i = n => At(i) + Ends(s.text) < MaxLfn)
    <3>1. CASE i = n
      BY <1>4, <2>2, <2>4, <3>1
    <3>2. CASE i # n
      <4>1. At(i) + Segment <= At(n)
        BY <2>3, <3>2
      <4>. HIDE DEF s, l
      <4>. QED BY <1>4, <2>2, <2>4, <3>2, <4>1
    <3>. QED BY <3>1, <3>2
  <2>6. s.ord > 0
    BY <1>1, <1>2
  <2>. QED BY <1>1, <1>4, <2>5, <2>6 DEF PickLfn
<1>6. call = "find" => CmpLfn(s)
  <2>1. SUFFICES ASSUME call = "find" PROVE CmpLfn(s)
    OBVIOUS
  <2>2. /\ Len(fname) \in Nat /\ NameEnds(Len(fname))
        /\ Text(k, n) = [q \in 1..Len(fname) |-> lfnbuf[q]]
    <3>1. MaxLfn \in Nat
      BY DirAssumption
    <3>2. Len(fname) \in 1..MaxLfn /\ NameEnds(Len(fname))
          /\ fname = [q \in 1..Len(fname) |-> lfnbuf[q]]
      BY <1>0, <2>1, SoughtIs
    <3>3. Text(k, n) = [q \in 1..Len(fname) |-> lfnbuf[q]]
      BY <1>0, <2>1, <3>2, Zenon
    <3>. QED BY <3>1, <3>2, <3>3
  <2>. QED BY <1>0, <1>2, <2>1, <2>2, PartAgrees
<1>. QED BY <1>1, <1>5, <1>6

\* A name that is due lies in the slots since the call began.
LEMMA DueSince ==
    ASSUME DirCore, Begun, call # "idle", ~eot, NEW n \in 1..(dptr - 1), Due(dptr, n)
    PROVE  from <= dptr - n
<1>1. dptr \in 1..MaxDir /\ from \in 1..(MaxDir + 1) /\ MaxDir \in Nat /\ from <= dptr
      /\ call \in {"read", "find"}
  BY DirAssumption DEF DirCore, DirTypeOK, Begun
<1>2. CASE call = "find"
  BY <1>1, <1>2 DEF Begun
<1>3. CASE call = "read"
  <2>1. SUFFICES ASSUME dptr - n < from PROVE FALSE
    BY <1>1
  <2>2. from \in 2..MaxDir
    BY <1>1, <2>1
  <2>3. Slot(from - 1).kind \in {"short", "label"}
    BY <1>3, <2>2 DEF Begun
  <2>4. dptr - (from - 1) \in 1..n /\ dptr - (dptr - (from - 1)) = from - 1
    BY <1>1, <2>1
  <2>5. Slot(dptr - (dptr - (from - 1))).kind = "long"
    BY <2>4 DEF Due, HasLong
  <2>. QED BY <2>3, <2>4, <2>5
<1>. QED BY <1>1, <1>2, <1>3

\* A slot has the long name that is due only if the run says so.
LEMMA DueHere ==
    ASSUME DirCore, Begun, RunHeld, DueHeld, call # "idle", ~eot,
           NEW n \in 1..(dptr - 1), Due(dptr, n)
    PROVE  ord = 0 /\ sum = Here.sum /\ blk_ofs
<1>1. dptr \in 1..MaxDir /\ MaxDir \in Nat
  BY DirAssumption DEF DirCore, DirTypeOK
<1>2. from <= dptr - n /\ dptr - n < dptr /\ dptr \in dptr..MaxDir
  BY <1>1, DueSince
<1>3. ord = dptr - dptr /\ sum = Slot(dptr).sum
  BY <1>2 DEF DueHeld
<1>4. ord = 0 /\ ord # Unset
  BY <1>1, <1>3 DEF Unset
<1>. QED BY <1>3, <1>4 DEF RunHeld, Here

\* Conversely, if it does, the slot has the name.
LEMMA RunHere ==
    ASSUME DirCore, Begun, RunHeld, call # "idle", ~eot, ord = 0, sum = Here.sum
    PROVE  /\ blk_ofs
           /\ \E n \in 1..(dptr - 1) : /\ HasLong(dptr, n) /\ Buffered(dptr, n)
                                       /\ call = "read" => Fits(dptr, n)
<1>1. dptr \in 1..MaxDir /\ MaxDir \in Nat /\ from \in 1..(MaxDir + 1) /\ dir \in Dirs
  BY DirAssumption DEF DirCore, DirTypeOK
<1>2. ord # Unset
  BY DEF Unset
<1>3. PICK m \in 1..(dptr - from) : RunAt(dptr, ord, sum, lfnbuf, m, call)
  BY <1>2 DEF RunHeld
<1>4. m \in 1..(dptr - 1) /\ m \in Nat \ {0} /\ dptr \in Int
  BY <1>1
<1>5. RunAt(dptr, 0, Slot(dptr).sum, lfnbuf, m, call)
  BY <1>3 DEF Here
<1>6. HasLong(dptr, m) /\ Buffered(dptr, m) /\ (call = "read" => Fits(dptr, m))
  BY <1>1, <1>4, <1>5, RunName
<1>. QED BY <1>2, <1>4, <1>6 DEF RunHeld

-----------------------------------------------------------------------------
(* FatDir: what is returned *)

\* The buffer always holds a name.
LEMMA NameLength ==
    ASSUME BufferTyped
    PROVE  \E m \in 0..MaxLfn : NameEnds(m)
<1> DEFINE T == {q \in 1..(MaxLfn + 1) : lfnbuf[q] = Nul}
<1>1. MaxLfn \in Nat
  BY DirAssumption
<1>2. T \in SUBSET Nat /\ T # {}
  BY <1>1 DEF BufferTyped
<1>3. PICK q \in T : \A x \in T : q <= x
  BY <1>2, LeastNat
<1>4. q - 1 \in 0..MaxLfn /\ (q - 1) + 1 = q /\ \A x \in 1..(q - 1) : x \in 1..(MaxLfn + 1) /\ ~(q <= x)
  BY <1>1, <1>3
<1>5. lfnbuf[(q - 1) + 1] = Nul /\ \A x \in 1..(q - 1) : lfnbuf[x] # Nul
  BY <1>3, <1>4
<1>. QED BY <1>4, <1>5 DEF NameEnds

LEMMA LongBytesIs ==
    ASSUME NEW m \in 0..MaxLfn, NameEnds(m)
    PROVE  LongBytes = LET name == [i \in 1..m |-> Byte(lfnbuf[i])]
                       IN IF \E i \in 1..m : name[i] = Nul THEN <<>> ELSE name
<1>0. MaxLfn \in Nat
  BY DirAssumption
<1>1. ASSUME NEW x \in 0..MaxLfn, NameEnds(x) PROVE x = m
  <2>1. CASE x < m
    <3>1. x + 1 \in 1..m
      BY <1>0, <2>1
    <3>. QED BY <1>1, <3>1 DEF NameEnds
  <2>2. CASE m < x
    <3>1. m + 1 \in 1..x
      BY <1>0, <2>2
    <3>. QED BY <1>1, <3>1 DEF NameEnds
  <2>. QED BY <1>0, <2>1, <2>2
<1>2. (CHOOSE x \in 0..MaxLfn : NameEnds(x)) = m
  BY <1>1
<1>3. (CHOOSE x \in 0..MaxLfn : lfnbuf[x + 1] = Nul /\ \A i \in 1..x : lfnbuf[i] # Nul) = m
  BY <1>2 DEF NameEnds
<1>. QED BY <1>3 DEF LongBytes

\* An entry is listed with the long name that the run leaves, or else its short one.
LEMMA ListedIs ==
    ASSUME DirCore, Begun, RunHeld, DueHeld, call = "read", ~eot, Here.kind \in {"short", "label"}
    PROVE  ListedName(dptr) = IF (blk_ofs /\ ShortHasLfn) /\ LongBytes # <<>> THEN LongBytes
                              ELSE Here.name
<1> DEFINE names == LongNames(dptr, Fits)
<1>0. ListedName(dptr) = Listing(names, Here.name)
  BY DEF ListedName, Listing, Here
<1>1. BufferTyped /\ dir \in Dirs /\ dptr \in 1..MaxDir /\ MaxDir \in Nat
  BY DirAssumption DEF DirCore, DirTypeOK
<1>2. CASE blk_ofs /\ ShortHasLfn
  <2>1. PICK n \in 1..(dptr - 1) : HasLong(dptr, n) /\ Buffered(dptr, n) /\ Fits(dptr, n)
    BY <1>2, RunHere DEF ShortHasLfn
  <2>2. PICK m \in 0..MaxLfn : NameEnds(m)
    BY <1>1, NameLength
  <2>3. Text(dptr, n) = [q \in 1..m |-> lfnbuf[q]]
    <3>1. dptr \in Int /\ n \in Nat \ {0} /\ m \in Nat
      BY <1>1, DirAssumption
    <3>. QED BY <1>1, <2>1, <2>2, <3>1, TextHeld
  <2> DEFINE text == [q \in 1..m |-> lfnbuf[q]]
             name == [i \in 1..m |-> Byte(lfnbuf[i])]
  <2>4. names = {text}
    <3>1. dptr \in Nat
      BY <1>1
    <3>2. \A x \in 1..(dptr - 1) : HasLong(dptr, x) => x = n
      BY <2>1, <3>1, OneName
    <3>. QED BY <2>1, <2>3, <3>2 DEF LongNames
  <2>5. name = [i \in DOMAIN text |-> Byte(text[i])]
    OBVIOUS
  <2>6. LongBytes = IF \E i \in 1..m : name[i] = Nul THEN <<>> ELSE name
    BY <2>2, LongBytesIs
  <2>7. DOMAIN name = 1..m
    OBVIOUS
  <2>. HIDE DEF text, name, names
  <2>8. {[i \in DOMAIN t |-> Byte(t[i])] : t \in names} = {name}
    BY <2>4, <2>5
  <2>9. CASE name # <<>> /\ \A i \in 1..m : name[i] # Nul
    <3>1. {b \in {name} : b # <<>> /\ \A i \in DOMAIN b : b[i] # Nul} = {name}
      BY <2>7, <2>9
    <3>2. Listing(names, Here.name) = name
      BY <2>8, <3>1 DEF Listing
    <3>3. LongBytes = name
      BY <2>6, <2>9
    <3>. QED BY <1>0, <1>2, <2>9, <3>2, <3>3
  <2>10. CASE ~(name # <<>> /\ \A i \in 1..m : name[i] # Nul)
    <3>1. {b \in {name} : b # <<>> /\ \A i \in DOMAIN b : b[i] # Nul} = {}
      BY <2>7, <2>10
    <3>2. Listing(names, Here.name) = Here.name
      BY <2>8, <3>1 DEF Listing
    <3>3. LongBytes = <<>>
      BY <2>6, <2>10
    <3>. QED BY <1>0, <3>2, <3>3
  <2>. QED BY <2>9, <2>10
<1>3. CASE ~(blk_ofs /\ ShortHasLfn)
  <2>1. ASSUME NEW n \in 1..(dptr - 1), HasLong(dptr, n), Fits(dptr, n) PROVE FALSE
    <3>1. Due(dptr, n)
      BY <2>1 DEF Due, Here
    <3>2. ord = 0 /\ sum = Here.sum /\ blk_ofs
      BY <3>1, DueHere
    <3>. QED BY <1>3, <3>2 DEF ShortHasLfn
  <2>2. names = {}
    BY <2>1 DEF LongNames
  <2>3. Listing({}, Here.name) = Here.name
    BY DEF Listing
  <2>. QED BY <1>0, <1>3, <2>2, <2>3
<1>. QED BY <1>2, <1>3

\* What dir_find finds has the name.
LEMMA MatchNamed ==
    ASSUME DirCore, Begun, RunHeld, call = "find", ~eot, Here.kind \in {"short", "dot"}, Matches
    PROVE  Named(dptr, AnyLong)
<1>1. dptr \in 1..MaxDir /\ MaxDir \in Nat /\ dir \in Dirs
  BY DirAssumption DEF DirCore, DirTypeOK
<1>2. InUse(dptr)
  <2>1. \A i \in 1..dptr : i \in 1..(dptr - 1) \/ i = dptr
    BY <1>1
  <2>. QED BY <2>1 DEF Begun, InUse, Here
<1>3. CASE ShortHasLfn
  <2>1. PICK n \in 1..(dptr - 1) : HasLong(dptr, n) /\ Buffered(dptr, n)
    BY <1>3, RunHere DEF ShortHasLfn
  <2>2. Len(fname) \in Nat /\ NameEnds(Len(fname)) /\ fname = [q \in 1..Len(fname) |-> lfnbuf[q]]
    BY SoughtIs, DirAssumption DEF DirCore
  <2>3. dptr \in Int /\ n \in Nat \ {0}
    BY <1>1
  <2>4. Text(dptr, n) = [q \in 1..Len(fname) |-> lfnbuf[q]]
    BY <1>1, <2>1, <2>2, <2>3, TextHeld
  <2>5. Text(dptr, n) = fname
    BY <2>2, <2>4, Zenon
  <2>6. fname \in LongNames(dptr, AnyLong)
    BY <2>1, <2>5 DEF LongNames, AnyLong
  <2>. QED BY <1>2, <2>6 DEF Named, Here
<1>4. CASE Here.name = fname
  BY <1>2, <1>4 DEF Named, Here
<1>. QED BY <1>3, <1>4 DEF Matches

\* What it goes past has not.
LEMMA MissNamed ==
    ASSUME DirCore, Begun, RunHeld, DueHeld, call = "find", ~eot, ~Matches
    PROVE  ~Named(dptr, Whole)
<1>1. SUFFICES ASSUME Named(dptr, Whole) PROVE FALSE
  OBVIOUS
<1>2. CASE Slot(dptr).name = fname
  <2>1. IsSlot(Here) /\ Here.kind \in {"short", "dot"}
    BY <1>1, HereIs DEF Named, Here
  <2>2. Len(fname) <= MaxShort
    BY <1>2, <2>1 DEF IsSlot, Here
  <2>. QED BY <1>2, <2>2 DEF Matches, Here
<1>3. CASE fname \in LongNames(dptr, Whole)
  <2>1. PICK n \in 1..(dptr - 1) : HasLong(dptr, n) /\ Whole(dptr, n) /\ fname = Text(dptr, n)
    BY <1>3 DEF LongNames
  <2>2. Due(dptr, n)
    BY <1>1, <2>1 DEF Due, Named
  <2>3. ord = 0 /\ sum = Here.sum
    BY <2>2, DueHere
  <2>. QED BY <2>3 DEF Matches, ShortHasLfn
<1>. QED BY <1>1, <1>2, <1>3 DEF Named

-----------------------------------------------------------------------------
(* FatDir: the invariant is kept *)

\* The steps that look at a slot and go past it.
GoesOn == \/ ReadSkip \/ ReadLong \/ FindSkip \/ FindLong
          \/ FindShort /\ ~Matches

\* A step that goes past a slot: what it leaves alone, and where it goes.
LEMMA PassesIs ==
    ASSUME DirCore, GoesOn
    PROVE  /\ call \in {"read", "find"} /\ ~eot /\ Moved
           /\ dir' = dir /\ call' = call /\ from' = from /\ fname' = fname
           /\ res' = res /\ found' = found
           /\ call = "read" => Here.kind \notin {"short", "label", "end"}
           /\ call = "find" => Here.kind # "end"
<1>1. Advance
  BY DEF GoesOn, ReadSkip, ReadLong, FindSkip, FindLong, FindShort
<1>2. Moved
  BY <1>1, AdvanceIs
<1>3. /\ call \in {"read", "find"} /\ ~eot
      /\ dir' = dir /\ call' = call /\ from' = from /\ fname' = fname
      /\ res' = res /\ found' = found
      /\ call = "read" => Here.kind \notin {"short", "label", "end"}
      /\ call = "find" => Here.kind # "end"
  BY DEF GoesOn, ReadSkip, ReadLong, FindSkip, FindLong, FindShort, Look, out
<1>. QED BY <1>2, <1>3

\* What they do to ord, sum and the buffer.
LEMMA PassesParts ==
    ASSUME DirCore, GoesOn
    PROVE  /\ ord' \in 0..Unset /\ sum' \in 0..Unset /\ blk_ofs' \in BOOLEAN
           /\ lfnbuf' = lfnbuf \/ /\ call = "read" /\ ord' # Unset /\ Here.kind = "long"
                                  /\ PickLfn(Here) /\ lfnbuf' = Picked(Here)
           /\ ord' # Unset =>
                  /\ Here.kind = "long" /\ Here.ord = ord' + 1 /\ Here.sum = sum'
                  /\ blk_ofs' = (blk_ofs \/ Here.last)
                  /\ ~Here.last => ord = Here.ord /\ ord # Unset /\ sum = Here.sum
                  /\ call = "read" => PickLfn(Here) /\ lfnbuf' = Picked(Here)
                  /\ call = "find" => CmpLfn(Here) /\ lfnbuf' = lfnbuf
           /\ /\ Here.kind = "long"
              /\ Here.last \/ (ord = Here.ord /\ sum = Here.sum)
              /\ (call = "read" => PickLfn(Here)) /\ (call = "find" => CmpLfn(Here))
              => ord' = Here.ord - 1 /\ sum' = Here.sum
<1>0. /\ ord \in 0..Unset /\ sum \in 0..Unset /\ blk_ofs \in BOOLEAN /\ Unset \in 0..Unset
      /\ Here.kind = "long" => Here.last \in BOOLEAN
  BY HereIs DEF DirCore, DirTypeOK, Unset, IsSlot
<1>1. CASE ReadSkip
  BY <1>0, <1>1 DEF ReadSkip, Look
<1>2. CASE FindSkip
  BY <1>0, <1>2 DEF FindSkip, Look
<1>3. CASE FindShort /\ ~Matches
  BY <1>0, <1>3 DEF FindShort, Look
<1>4. CASE ReadLong
  <2>1. /\ Here.kind = "long" /\ call = "read" /\ LongPart(PickLfn(Here))
        /\ lfnbuf' = IF ord' # Unset THEN Picked(Here) ELSE lfnbuf
        /\ blk_ofs' = (blk_ofs \/ Here.last)
    BY <1>4 DEF ReadLong, Look
  <2>2. PickLfn(Here) \in BOOLEAN /\ (PickLfn(Here) => Here.ord > 0)
    BY DEF PickLfn
  <2>3. /\ ord' \in 0..Unset /\ sum' \in 0..Unset
        /\ ord' # Unset => /\ PickLfn(Here) /\ Here.ord = ord' + 1 /\ Here.sum = sum'
                           /\ ~Here.last => ord = Here.ord /\ ord # Unset /\ sum = Here.sum
        /\ PickLfn(Here) /\ Here.last => ord' = Here.ord - 1 /\ sum' = Here.sum
        /\ PickLfn(Here) /\ ~Here.last /\ ord = Here.ord /\ sum = Here.sum
           => ord' = Here.ord - 1 /\ sum' = sum
    BY <2>1, <2>2, LongPartIs
  <2>4. blk_ofs' \in BOOLEAN
    BY <2>1
  <2>. QED BY <2>1, <2>3, <2>4
<1>5. CASE FindLong
  <2>1. /\ Here.kind = "long" /\ call = "find" /\ LongPart(CmpLfn(Here)) /\ lfnbuf' = lfnbuf
        /\ blk_ofs' = (blk_ofs \/ Here.last)
    BY <1>5 DEF FindLong, Look
  <2>2. CmpLfn(Here) \in BOOLEAN /\ (CmpLfn(Here) => Here.ord > 0)
    BY DEF CmpLfn
  <2>3. /\ ord' \in 0..Unset /\ sum' \in 0..Unset
        /\ ord' # Unset => /\ CmpLfn(Here) /\ Here.ord = ord' + 1 /\ Here.sum = sum'
                           /\ ~Here.last => ord = Here.ord /\ ord # Unset /\ sum = Here.sum
        /\ CmpLfn(Here) /\ Here.last => ord' = Here.ord - 1 /\ sum' = Here.sum
        /\ CmpLfn(Here) /\ ~Here.last /\ ord = Here.ord /\ sum = Here.sum
           => ord' = Here.ord - 1 /\ sum' = sum
    BY <2>1, <2>2, LongPartIs
  <2>4. blk_ofs' \in BOOLEAN
    BY <2>1
  <2>. QED BY <2>1, <2>3, <2>4
<1>. QED BY <1>1, <1>2, <1>3, <1>4, <1>5 DEF GoesOn

\* The steps of a call, and those that begin one.
LEMMA StepIs ==
    ASSUME [DirNext]_dirVars
    PROVE  \/ GoesOn \/ Fail \/ End \/ ReadShort \/ (FindShort /\ Matches)
           \/ OpenDirectory \/ ReadDir \/ (\E name \in Sought : Find(name))
           \/ UNCHANGED dirVars
BY DEF DirNext, Step, GoesOn

LEMMA CoreKept ==
    ASSUME DirCore, [DirNext]_dirVars
    PROVE  DirCore'
<1>0. /\ dir \in Dirs /\ DirTypeOK /\ BufferTyped /\ SoughtHeld /\ dptr <= Limit
      /\ call # "idle" => res = "ok" /\ found = 0
      /\ MaxLfn \in Nat /\ MaxDir \in Nat /\ Limit \in 1..MaxDir
      /\ Unset \in 0..Unset /\ 1 \in 1..MaxDir /\ 1 \in 1..(MaxDir + 1) /\ 0 \in 0..MaxDir
      /\ FALSE \in BOOLEAN /\ TRUE \in BOOLEAN
  BY LimitIs, DirAssumption DEF DirCore, Unset
\* A buffer with its last character ends with a Nul.
<1>1. BufferTyped' => \E i \in 1..(MaxLfn + 1) : lfnbuf'[i] = Nul
  BY <1>0 DEF BufferTyped
<1>2. CASE GoesOn
  <2>1. /\ call \in {"read", "find"} /\ Moved
        /\ dir' = dir /\ call' = call /\ from' = from /\ fname' = fname
        /\ res' = res /\ found' = found
    BY <1>2, PassesIs
  <2>2. /\ ord' \in 0..Unset /\ sum' \in 0..Unset /\ blk_ofs' \in BOOLEAN
        /\ lfnbuf' = lfnbuf \/ /\ call = "read" /\ Here.kind = "long"
                               /\ PickLfn(Here) /\ lfnbuf' = Picked(Here)
    BY <1>2, PassesParts
  <2>3. BufferTyped'
    BY <1>0, <2>2, HereIs, PickedTyped DEF BufferTyped
  <2>4. dptr' \in 1..MaxDir /\ dptr' <= Limit /\ eot' \in BOOLEAN
    BY <2>1, MovedIs
  <2>5. DirTypeOK'
    BY <1>0, <1>1, <2>1, <2>2, <2>3, <2>4 DEF DirTypeOK
  <2>6. SoughtHeld'
    BY <1>0, <2>1, <2>2 DEF SoughtHeld
  <2>7. Limit' = Limit
    BY <2>1, SameDir
  <2>. QED BY <1>0, <2>1, <2>3, <2>4, <2>5, <2>6, <2>7 DEF DirCore
<1>3. CASE Fail
  <2>1. UNCHANGED <<dir, dptr, ord, sum, blk_ofs, lfnbuf, from>> /\ eot' = TRUE /\ call' = "idle"
        /\ res' = "error" /\ found' = 0
    BY <1>3 DEF Fail, Return, lfn
  <2>2. BufferTyped' /\ SoughtHeld' /\ Limit' = Limit
    BY <1>0, <2>1, SameDir DEF BufferTyped, SoughtHeld
  <2>3. DirTypeOK'
    BY <1>0, <2>1 DEF DirTypeOK
  <2>. QED BY <1>0, <2>1, <2>2, <2>3 DEF DirCore
<1>4. CASE End
  <2>1. UNCHANGED <<dir, dptr, ord, sum, blk_ofs, lfnbuf, from, found>> /\ eot' = TRUE /\ call' = "idle"
        /\ res' \in {"ok", "none"}
    BY <1>4 DEF End, Return, lfn
  <2>2. BufferTyped' /\ SoughtHeld' /\ Limit' = Limit
    BY <1>0, <2>1, SameDir DEF BufferTyped, SoughtHeld
  <2>3. DirTypeOK'
    BY <1>0, <2>1 DEF DirTypeOK
  <2>. QED BY <1>0, <2>1, <2>2, <2>3 DEF DirCore
<1>5. CASE ReadShort
  <2>1. UNCHANGED <<dir, ord, sum, lfnbuf, from>> /\ call' = "idle" /\ res' = "ok" /\ found' = dptr
        /\ Advance /\ blk_ofs' = (blk_ofs /\ ShortHasLfn)
    BY <1>5 DEF ReadShort, Return
  <2>2. Moved
    BY <2>1, AdvanceIs
  <2>3. BufferTyped' /\ SoughtHeld' /\ Limit' = Limit
    BY <1>0, <2>1, SameDir DEF BufferTyped, SoughtHeld
  <2>4. dptr' \in 1..MaxDir /\ dptr' <= Limit /\ eot' \in BOOLEAN /\ found' \in 0..MaxDir
    BY <1>0, <2>1, <2>2, MovedIs DEF DirTypeOK
  <2>5. blk_ofs' \in BOOLEAN
    BY <2>1
  <2>6. DirTypeOK'
    BY <1>0, <2>1, <2>4, <2>5 DEF DirTypeOK
  <2>. QED BY <1>0, <2>1, <2>3, <2>4, <2>6 DEF DirCore
<1>6. CASE FindShort /\ Matches
  <2>1. UNCHANGED <<dir, dptr, eot, ord, sum, blk_ofs, lfnbuf, from>> /\ call' = "idle"
        /\ res' = "found" /\ found' = dptr
    BY <1>6 DEF FindShort, Return, table
  <2>2. BufferTyped' /\ SoughtHeld' /\ Limit' = Limit
    BY <1>0, <2>1, SameDir DEF BufferTyped, SoughtHeld
  <2>3. DirTypeOK'
    BY <1>0, <2>1 DEF DirTypeOK
  <2>. QED BY <1>0, <2>1, <2>2, <2>3 DEF DirCore
<1>7. CASE OpenDirectory
  <2>1. UNCHANGED <<dir, ord, sum, blk_ofs, lfnbuf, call>> /\ call = "idle" /\ dptr' = 1
        /\ eot' = FALSE /\ res' = "ok" /\ found' = 0 /\ from' = 1
    BY <1>7 DEF OpenDirectory, Idle, lfn
  <2>2. BufferTyped' /\ SoughtHeld' /\ Limit' = Limit
    BY <1>0, <2>1, SameDir DEF BufferTyped, SoughtHeld
  <2>3. DirTypeOK'
    BY <1>0, <2>1 DEF DirTypeOK
  <2>. QED BY <1>0, <2>1, <2>2, <2>3 DEF DirCore
<1>8. CASE ReadDir
  <2>1. UNCHANGED <<dir, dptr, eot, blk_ofs, lfnbuf, res>> /\ res = "ok" /\ call' = "read"
        /\ from' = (IF eot THEN MaxDir + 1 ELSE dptr)
        /\ ord' = Unset /\ sum' = Unset /\ found' = 0
    BY <1>8 DEF ReadDir, Idle, table
  <2>2. BufferTyped' /\ SoughtHeld' /\ Limit' = Limit
    BY <1>0, <2>1, SameDir DEF BufferTyped, SoughtHeld
  <2>3. from' \in 1..(MaxDir + 1)
    BY <1>0, <2>1 DEF DirTypeOK
  <2>4. DirTypeOK'
    BY <1>0, <2>1, <2>3 DEF DirTypeOK
  <2>. QED BY <1>0, <2>1, <2>2, <2>4 DEF DirCore
<1>9. CASE \E name \in Sought : Find(name)
  <2>1. PICK name \in Sought : Find(name)
    BY <1>9
  <2>2. /\ dir' = dir /\ dptr' = 1 /\ eot' = FALSE /\ call' = "find" /\ from' = 1
        /\ ord' = Unset /\ sum' = Unset /\ blk_ofs' = FALSE
        /\ res' = "ok" /\ found' = 0 /\ fname' = name /\ lfnbuf' = Stored(name)
    BY <2>1 DEF Find, Stored
  <2>3. BufferTyped' /\ SoughtHeld'
    BY <1>0, <2>2, StoredIs DEF BufferTyped, SoughtHeld
  <2>4. DirTypeOK'
    BY <1>0, <1>1, <2>2, <2>3 DEF DirTypeOK
  <2>5. Limit' = Limit
    BY <2>2, SameDir
  <2>. QED BY <1>0, <2>2, <2>3, <2>4, <2>5 DEF DirCore
<1>10. CASE UNCHANGED dirVars
  <2>1. UNCHANGED <<dir, dptr, eot, ord, sum, blk_ofs, lfnbuf, call, from, res, found, fname>>
    BY <1>10 DEF dirVars, table, lfn, out
  <2>2. BufferTyped' /\ SoughtHeld' /\ Limit' = Limit
    BY <1>0, <2>1, SameDir DEF BufferTyped, SoughtHeld
  <2>3. DirTypeOK'
    BY <1>0, <2>1 DEF DirTypeOK
  <2>. QED BY <1>0, <2>1, <2>2, <2>3 DEF DirCore
<1>. QED BY <1>2, <1>3, <1>4, <1>5, <1>6, <1>7, <1>8, <1>9, <1>10, StepIs

\* The slots up to the one looked at are in use.
LEMMA InUseHere ==
    ASSUME DirCore, Begun, ~eot, Here.kind # "end"
    PROVE  InUse(dptr)
<1>1. dptr \in 1..MaxDir /\ MaxDir \in Nat
  BY DirAssumption DEF DirCore, DirTypeOK
<1>2. \A i \in 1..dptr : i \in 1..(dptr - 1) \/ i = dptr
  BY <1>1
<1>. QED BY <1>2 DEF Begun, InUse, Here

LEMMA BegunKept ==
    ASSUME DirCore, Begun, [DirNext]_dirVars
    PROVE  Begun'
<1>0. /\ dptr \in 1..MaxDir /\ MaxDir \in Nat /\ from \in 1..(MaxDir + 1)
      /\ call # "idle" => res = "ok"
  BY DirAssumption DEF DirCore, DirTypeOK
<1>1. CASE GoesOn
  <2>1. /\ call \in {"read", "find"} /\ ~eot /\ Moved /\ Here.kind # "end"
        /\ dir' = dir /\ call' = call /\ from' = from
    BY <1>1, PassesIs
  <2>2. InUse(dptr)
    BY <2>1, InUseHere
  <2>3. ~eot' => dptr' = dptr + 1
    BY <2>1 DEF Moved
  <2>4. ~eot' => InUse(dptr - 1)'
    <3>1. ~eot' => dptr' - 1 = dptr
      BY <1>0, <2>3
    <3>2. \A i : Slot(i)' = Slot(i)
      BY <2>1, SameDir
    <3>. QED BY <2>2, <3>1, <3>2 DEF InUse
  <2>5. ~eot' => from' <= dptr'
    BY <1>0, <2>1, <2>3 DEF Begun
  <2>6. call' = "read" /\ from' \in 2..MaxDir => Slot(from - 1)'.kind \in {"short", "label"}
    BY <2>1, SameDir DEF Begun
  <2>. QED BY <2>1, <2>4, <2>5, <2>6 DEF Begun
<1>2. CASE Fail \/ End
  <2>1. dir' = dir /\ eot' = TRUE /\ call' = "idle"
    BY <1>2 DEF Fail, End, Return
  <2>. QED BY <2>1 DEF Begun
<1>3. CASE ReadShort
  <2>1. /\ dir' = dir /\ call' = "idle" /\ Advance /\ ~eot /\ Here.kind \in {"short", "label"}
    BY <1>3 DEF ReadShort, Return, Look
  <2>2. Moved
    BY <2>1, AdvanceIs
  <2>3. InUse(dptr)
    BY <2>1, InUseHere
  <2>4. ~eot' => dptr' = dptr + 1 /\ dptr' - 1 = dptr
    BY <1>0, <2>1, <2>2 DEF Moved
  <2>5. \A i : Slot(i)' = Slot(i)
    BY <2>1, SameDir
  <2>6. ~eot' => InUse(dptr - 1)' /\ Slot(dptr - 1)'.kind \in {"short", "label"}
    BY <2>1, <2>3, <2>4, <2>5 DEF InUse, Here
  <2>. QED BY <2>1, <2>6 DEF Begun
<1>4. CASE FindShort /\ Matches
  <2>1. UNCHANGED <<dir, dptr, eot>> /\ call' = "idle" /\ res' = "found"
    BY <1>4 DEF FindShort, Return, table
  <2>2. InUse(dptr - 1)' <=> InUse(dptr - 1)
    BY <2>1, SameDir DEF InUse
  <2>. QED BY <2>1, <2>2 DEF Begun
<1>5. CASE OpenDirectory
  <2>1. dir' = dir /\ call' = "idle" /\ dptr' = 1
    BY <1>5 DEF OpenDirectory, Idle
  <2>2. InUse(dptr - 1)' /\ ~(dptr' > 1)
    BY <2>1 DEF InUse
  <2>. QED BY <2>1, <2>2 DEF Begun
<1>6. CASE ReadDir
  <2>1. /\ UNCHANGED <<dir, dptr, eot>> /\ call = "idle" /\ res = "ok" /\ call' = "read"
        /\ from' = (IF eot THEN MaxDir + 1 ELSE dptr)
    BY <1>6 DEF ReadDir, Idle, table
  <2>2. \A i : Slot(i)' = Slot(i)
    BY <2>1, SameDir
  <2>3. InUse(dptr - 1)' <=> InUse(dptr - 1)
    BY <2>1, <2>2 DEF InUse
  <2>4. ~eot' => from' <= dptr'
    BY <1>0, <2>1
  <2>5. from' \in 2..MaxDir => ~eot /\ from' = dptr /\ dptr > 1
    BY <1>0, <2>1
  <2>6. from' \in 2..MaxDir => Slot(from - 1)'.kind \in {"short", "label"}
    BY <2>1, <2>2, <2>5 DEF Begun
  <2>. QED BY <2>1, <2>3, <2>4, <2>6 DEF Begun
<1>7. CASE \E name \in Sought : Find(name)
  <2>1. dir' = dir /\ call' = "find" /\ from' = 1 /\ dptr' = 1
    BY <1>7 DEF Find
  <2>2. InUse(dptr - 1)' /\ from' <= dptr'
    BY <2>1 DEF InUse
  <2>. QED BY <2>1, <2>2 DEF Begun
<1>8. CASE UNCHANGED dirVars
  <2>1. UNCHANGED <<dir, dptr, eot, call, from, res>>
    BY <1>8 DEF dirVars, table, out
  <2>2. \A i : Slot(i)' = Slot(i)
    BY <2>1, SameDir
  <2>. QED BY <2>1, <2>2 DEF Begun, InUse
<1>. QED BY <1>1, <1>2, <1>3, <1>4, <1>5, <1>6, <1>7, <1>8, StepIs

\* No entry lies between two that are in the wrong order.
LEMMA EmptyRun ==
  \A a, b \in Int : a > b => \A k \in a..b : FALSE
OBVIOUS

LEMMA PassedKept ==
    ASSUME DirCore, Begun, RunHeld, DueHeld, AllPassed, [DirNext]_dirVars
    PROVE  AllPassed'
<1>0. /\ dptr \in 1..MaxDir /\ MaxDir \in Nat /\ from \in 1..(MaxDir + 1)
      /\ Limit \in 1..MaxDir /\ call \in {"idle", "read", "find"} /\ dptr <= Limit
  BY LimitIs, DirAssumption DEF DirCore, DirTypeOK
<1>1. CASE GoesOn
  <2>1. /\ call \in {"read", "find"} /\ ~eot /\ Moved
        /\ dir' = dir /\ call' = call /\ from' = from /\ fname' = fname
        /\ call = "read" => Here.kind \notin {"short", "label"}
    BY <1>1, PassesIs
  <2>2. Passed(dptr)
    <3>1. CASE call = "read"
      BY <2>1, <3>1 DEF Passed, Here
    <3>2. CASE call = "find"
      <4>1. (FindShort /\ ~Matches) \/ Here.kind \notin {"short", "dot"}
        BY <1>1, <3>2 DEF GoesOn, ReadSkip, ReadLong, FindSkip, FindLong, Look
      <4>2. ~Named(dptr, Whole)
        <5>1. CASE ~Matches
          BY <2>1, <3>2, <5>1, MissNamed
        <5>2. CASE Here.kind \notin {"short", "dot"}
          BY <5>2 DEF Named, Here
        <5>. QED BY <4>1, <5>1, <5>2
      <4>. QED BY <3>2, <4>2 DEF Passed
    <3>. QED BY <2>1, <3>1, <3>2
  <2>3. \A k : Passed(k)' <=> Passed(k)
    BY <2>1, SameDir, SameNamed DEF Passed
  <2>4. \A k \in from..(dptr - 1) : Passed(k)
    BY <2>1 DEF AllPassed
  <2>5. \A k \in from..dptr : Passed(k)
    <3>1. \A k \in from..dptr : k \in from..(dptr - 1) \/ k = dptr
      BY <1>0
    <3>. QED BY <2>2, <2>4, <3>1
  <2>6. \/ dptr' = dptr /\ dptr = Limit
        \/ dptr' = dptr + 1 /\ ~eot'
    BY <2>1 DEF Moved
  <2>7. \A k \in from..(dptr' - 1) : k \in from..dptr
    BY <1>0, <2>6
  <2>8. eot' => \A k \in from..Limit : k \in from..dptr
    BY <1>0, <2>6
  <2>9. Limit' = Limit
    BY <2>1, SameDir
  <2>. QED BY <2>1, <2>3, <2>5, <2>7, <2>8, <2>9 DEF AllPassed
<1>2. CASE Fail \/ End \/ ReadShort \/ (FindShort /\ Matches) \/ OpenDirectory
  <2>1. call' = "idle"
    BY <1>2 DEF Fail, End, ReadShort, FindShort, OpenDirectory, Return, Idle
  <2>. QED BY <2>1 DEF AllPassed
<1>3. CASE ReadDir
  <2>1. /\ UNCHANGED <<dir, dptr, eot>>
        /\ from' = (IF eot THEN MaxDir + 1 ELSE dptr)
    BY <1>3 DEF ReadDir, table
  <2>2. Limit' = Limit
    BY <2>1, SameDir
  <2>3. from' > dptr' - 1 /\ (eot' => from' > Limit')
    BY <1>0, <2>1, <2>2
  <2>4. from' \in Int /\ dptr' \in Int /\ Limit' \in Int
    BY <1>0, <2>1, <2>2
  <2>5. dptr' - 1 \in Int
    BY <2>4
  <2>6. \A k \in from'..(dptr' - 1) : FALSE
    BY <2>3, <2>4, <2>5, EmptyRun
  <2>7. eot' => \A k \in from'..Limit' : FALSE
    BY <2>3, <2>4, EmptyRun
  <2>. QED BY <2>6, <2>7 DEF AllPassed
<1>4. CASE \E name \in Sought : Find(name)
  <2>1. dir' = dir /\ from' = 1 /\ dptr' = 1 /\ eot' = FALSE
    BY <1>4 DEF Find
  <2>2. \A k \in from'..(dptr' - 1) : FALSE
    BY <2>1
  <2>. QED BY <2>1, <2>2 DEF AllPassed
<1>5. CASE UNCHANGED dirVars
  <2>1. UNCHANGED <<dir, dptr, eot, call, from, fname>>
    BY <1>5 DEF dirVars, table, out
  <2>2. \A k : Passed(k)' <=> Passed(k)
    BY <2>1, SameDir, SameNamed DEF Passed
  <2>3. Limit' = Limit
    BY <2>1, SameDir
  <2>. QED BY <2>1, <2>2, <2>3 DEF AllPassed
<1>. QED BY <1>1, <1>2, <1>3, <1>4, <1>5, StepIs

\* A run is continued with one more part.
LEMMA RunGoesOn ==
    ASSUME NEW p \in Int, NEW o \in Nat, NEW c, NEW b, NEW buf, NEW m \in Nat, NEW who,
           RunAt(p, o + 1, c, b, m, who),
           \A j \in 1..m : AgreesWith(Slot(p - j), b) => AgreesWith(Slot(p - j), buf),
           Slot(p).kind = "long", AgreesWith(Slot(p), buf), who = "read" => PickLfn(Slot(p)),
           Slot(p).ord = o + 1, Slot(p).sum = c, Slot(p).last <=> m = 0
    PROVE  RunAt(p + 1, o, c, buf, m + 1, who)
<1>1. ASSUME NEW j \in 1..(m + 1)
      PROVE  LET s == Slot((p + 1) - j) IN
             /\ s.kind = "long" /\ AgreesWith(s, buf) /\ (who = "read" => PickLfn(s))
             /\ s.ord = o + j /\ (s.last <=> j = m + 1) /\ s.sum = c
  <2>1. CASE j = 1
    <3>1. (p + 1) - j = p /\ (j = m + 1 <=> m = 0)
      BY <2>1
    <3>. QED BY <2>1, <3>1
  <2>2. CASE j # 1
    <3> DEFINE x == j - 1
    <3>1. x \in 1..m /\ (p + 1) - j = p - x /\ (j = m + 1 <=> x = m) /\ (o + 1) + x = o + j
      BY <2>2
    <3>. HIDE DEF x
    <3>2. LET s == Slot(p - x) IN
          /\ s.kind = "long" /\ AgreesWith(s, b) /\ (who = "read" => PickLfn(s))
          /\ s.ord = (o + 1) + x /\ (s.last <=> x = m) /\ s.sum = c
      BY <3>1 DEF RunAt
    <3>. QED BY <3>1, <3>2
  <2>. QED BY <2>1, <2>2
<1>. QED BY <1>1 DEF RunAt

\* The parts of a run but its next one lie behind that in the buffer.
LEMMA RunKept ==
    ASSUME DirCore, Begun, RunHeld, [DirNext]_dirVars
    PROVE  RunHeld'
<1>0. /\ dptr \in 1..MaxDir /\ MaxDir \in Nat /\ from \in 1..(MaxDir + 1)
      /\ BufferTyped /\ dir \in Dirs /\ dptr \in Int
  BY DirAssumption DEF DirCore, DirTypeOK
<1>1. CASE GoesOn
  <2>0. SUFFICES ASSUME ~eot', ord' # Unset
                 PROVE  blk_ofs' /\ \E m \in 1..(dptr' - from') : RunAt(dptr, ord, sum, lfnbuf, m, call)'
    BY DEF RunHeld
  <2>1. /\ call \in {"read", "find"} /\ ~eot /\ Moved
        /\ dir' = dir /\ call' = call /\ from' = from
    BY <1>1, PassesIs
  <2>2. /\ ord' \in 0..Unset
        /\ Here.kind = "long" /\ Here.ord = ord' + 1 /\ Here.sum = sum'
        /\ blk_ofs' = (blk_ofs \/ Here.last)
        /\ ~Here.last => ord = Here.ord /\ ord # Unset /\ sum = Here.sum
        /\ call = "read" => PickLfn(Here) /\ lfnbuf' = Picked(Here)
        /\ call = "find" => CmpLfn(Here) /\ lfnbuf' = lfnbuf
    BY <1>1, <2>0, PassesParts
  <2>3. IsSlot(Here)
    BY HereIs
  <2>4. AgreesWith(Here, lfnbuf')
    <3>1. CASE call = "read"
      BY <1>0, <2>2, <2>3, <3>1, PickedAgrees
    <3>2. CASE call = "find"
      BY <2>2, <3>2 DEF CmpLfn, AgreesWith
    <3>. QED BY <2>1, <3>1, <3>2
  <2>5. dptr' = dptr + 1 /\ from <= dptr
    BY <2>0, <2>1 DEF Moved, Begun
  <2>6. ord' \in Nat
    BY <2>2 DEF Unset
  <2>7. PICK m \in Nat : /\ m + 1 \in 1..(dptr' - from')
                         /\ RunAt(dptr, ord' + 1, sum', lfnbuf, m, call)
                         /\ (Here.last <=> m = 0) /\ (m # 0 => blk_ofs)
    <3>1. CASE Here.last
      <4>1. RunAt(dptr, ord' + 1, sum', lfnbuf, 0, call)
        BY DEF RunAt
      <4>2. 0 + 1 \in 1..(dptr' - from') /\ 0 \in Nat
        BY <1>0, <2>1, <2>5
      <4>. QED BY <3>1, <4>1, <4>2
    <3>2. CASE ~Here.last
      <4>1. ord = ord' + 1 /\ ord # Unset /\ sum = sum'
        BY <2>2, <3>2
      <4>2. PICK m \in 1..(dptr - from) : RunAt(dptr, ord, sum, lfnbuf, m, call)
        BY <2>1, <4>1 DEF RunHeld
      <4>3. blk_ofs
        BY <2>1, <4>1 DEF RunHeld
      <4>4. RunAt(dptr, ord' + 1, sum', lfnbuf, m, call)
        BY <4>1, <4>2
      <4>5. m \in Nat /\ m # 0 /\ m + 1 \in 1..(dptr' - from')
        BY <1>0, <2>1, <2>5
      <4>. QED BY <3>2, <4>3, <4>4, <4>5
    <3>. QED BY <3>1, <3>2
  <2>8. ASSUME NEW j \in 1..m, AgreesWith(Slot(dptr - j), lfnbuf)
        PROVE  AgreesWith(Slot(dptr - j), lfnbuf')
    <3>1. CASE call = "find"
      BY <2>2, <2>8, <3>1
    <3>2. CASE call = "read"
      <4>1. /\ Slot(dptr - j).kind = "long" /\ Slot(dptr - j).ord = (ord' + 1) + j
        BY <2>7 DEF RunAt
      <4>2. Here.ord < Slot(dptr - j).ord /\ m # 0 /\ dptr - j \in Int
        BY <1>0, <2>2, <2>6, <4>1
      <4>3. IsSlot(Slot(dptr - j)) /\ ~Here.last
        BY <1>0, <2>7, <4>2, SlotIs
      <4>. QED BY <1>0, <2>2, <2>3, <2>8, <3>2, <4>1, <4>2, <4>3, PickedKeeps
    <3>. QED BY <2>1, <3>1, <3>2
  <2>9. RunAt(dptr + 1, ord', sum', lfnbuf', m + 1, call)
    <3>1. /\ Slot(dptr).kind = "long" /\ AgreesWith(Slot(dptr), lfnbuf')
          /\ (call = "read" => PickLfn(Slot(dptr))) /\ Slot(dptr).ord = ord' + 1
          /\ Slot(dptr).sum = sum' /\ (Slot(dptr).last <=> m = 0)
      BY <2>2, <2>4, <2>7 DEF Here
    <3>. QED BY <1>0, <2>6, <2>7, <2>8, <3>1, RunGoesOn
  <2>10. RunAt(dptr, ord, sum, lfnbuf, m + 1, call)'
    <3>1. \A i : Slot(i)' = Slot(i)
      BY <2>1, SameDir
    <3>. QED BY <2>1, <2>5, <2>9, <3>1 DEF RunAt, AgreesWith, PickLfn, Offset
  <2>11. blk_ofs'
    BY <2>2, <2>7
  <2>. QED BY <2>7, <2>10, <2>11
<1>2. CASE Fail \/ End \/ ReadShort \/ (FindShort /\ Matches) \/ OpenDirectory
  <2>1. call' = "idle"
    BY <1>2 DEF Fail, End, ReadShort, FindShort, OpenDirectory, Return, Idle
  <2>. QED BY <2>1 DEF RunHeld
<1>3. CASE ReadDir \/ \E name \in Sought : Find(name)
  <2>1. ord' = Unset
    BY <1>3 DEF ReadDir, Find
  <2>. QED BY <2>1 DEF RunHeld
<1>4. CASE UNCHANGED dirVars
  <2>1. UNCHANGED <<dir, dptr, eot, ord, sum, blk_ofs, lfnbuf, call, from>>
    BY <1>4 DEF dirVars, table, lfn
  <2>2. \A i : Slot(i)' = Slot(i)
    BY <2>1, SameDir
  <2>3. ASSUME NEW m PROVE RunAt(dptr, ord, sum, lfnbuf, m, call)' <=> RunAt(dptr, ord, sum, lfnbuf, m, call)
    BY <2>1, <2>2 DEF RunAt, AgreesWith, PickLfn, Offset
  <2>. QED BY <2>1, <2>3 DEF RunHeld
<1>. QED BY <1>1, <1>2, <1>3, <1>4, StepIs

LEMMA DueKept ==
    ASSUME DirCore, Begun, RunHeld, DueHeld, [DirNext]_dirVars
    PROVE  DueHeld'
<1>0. /\ dptr \in 1..MaxDir /\ MaxDir \in Nat /\ from \in 1..(MaxDir + 1) /\ dir \in Dirs
  BY DirAssumption DEF DirCore, DirTypeOK
<1>1. CASE GoesOn
  <2>1. /\ call \in {"read", "find"} /\ ~eot /\ Moved
        /\ dir' = dir /\ call' = call /\ from' = from /\ fname' = fname
    BY <1>1, PassesIs
  <2>2. SUFFICES ASSUME ~eot', NEW k \in dptr'..MaxDir, NEW n \in 1..(k - 1), Due(k, n)',
                        from' <= k - n, k - n < dptr'
                 PROVE  ord' = k - dptr' /\ sum' = Slot(k)'.sum
    BY DEF DueHeld
  <2>3. dptr' = dptr + 1
    BY <2>1, <2>2 DEF Moved
  <2>4. Due(k, n) /\ Slot(k)' = Slot(k)
    <3>1. /\ Slot(k)' = Slot(k) /\ Text(k, n)' = Text(k, n) /\ (HasLong(k, n)' <=> HasLong(k, n))
          /\ (Fits(k, n)' <=> Fits(k, n)) /\ (Whole(k, n)' <=> Whole(k, n))
      BY <2>1, SameDir
    <3>. QED BY <2>1, <2>2, <3>1 DEF Due
  <2> DEFINE i == k - dptr
  <2>5. k \in Nat /\ i \in 1..n /\ k - i = dptr /\ n \in 1..(k - 1) /\ i \in Int
    BY <1>0, <2>2, <2>3
  <2>. HIDE DEF i
  <2>6. /\ Here.kind = "long" /\ Here.ord = i /\ (Here.last <=> i = n) /\ Here.sum = Slot(k).sum
        /\ (call = "read" => PickLfn(Here)) /\ (call = "find" => CmpLfn(Here))
    <3>1. LET s == Slot(k - i) IN
          /\ s.kind = "long" /\ s.ord = i /\ (s.last <=> i = n) /\ s.sum = Slot(k).sum
          /\ (call = "read" => PickLfn(s)) /\ (call = "find" => CmpLfn(s))
      BY <2>1, <2>4, <2>5, DuePart
    <3>. QED BY <2>5, <3>1 DEF Here
  <2>7. Here.last \/ (ord = Here.ord /\ sum = Here.sum)
    <3>1. CASE i = n
      BY <2>6, <3>1
    <3>2. CASE i # n
      <4>1. k - n < dptr /\ from <= k - n /\ k \in dptr..MaxDir
        BY <1>0, <2>1, <2>2, <2>3, <2>5, <3>2
      <4>2. ord = k - dptr /\ sum = Slot(k).sum
        BY <2>1, <2>4, <2>5, <4>1 DEF DueHeld
      <4>. QED BY <2>6, <4>2 DEF i
    <3>. QED BY <3>1, <3>2
  <2>8. ord' = Here.ord - 1 /\ sum' = Here.sum
    BY <1>1, <2>6, <2>7, PassesParts
  <2>9. i - 1 = k - dptr'
    BY <1>0, <2>2, <2>3 DEF i
  <2>. QED BY <2>4, <2>6, <2>8, <2>9
<1>2. CASE Fail \/ End \/ ReadShort \/ (FindShort /\ Matches) \/ OpenDirectory
  <2>1. call' = "idle"
    BY <1>2 DEF Fail, End, ReadShort, FindShort, OpenDirectory, Return, Idle
  <2>. QED BY <2>1 DEF DueHeld
<1>3. CASE ReadDir \/ \E name \in Sought : Find(name)
  <2>1. ~eot' => from' = dptr'
    BY <1>3 DEF ReadDir, Find, table
  <2>2. dptr' \in Int
    BY <1>0, <1>3 DEF ReadDir, Find, table
  <2>3. ASSUME NEW k \in dptr'..MaxDir, NEW n \in 1..(k - 1), dptr' <= k - n, k - n < dptr'
        PROVE  FALSE
    BY <1>0, <2>2, <2>3
  <2>. QED BY <2>1, <2>3 DEF DueHeld
<1>4. CASE UNCHANGED dirVars
  <2>1. UNCHANGED <<dir, dptr, eot, ord, sum, call, from, fname>>
    BY <1>4 DEF dirVars, table, lfn, out
  <2>2. \A k, n : Due(k, n)' <=> Due(k, n)
    BY <2>1, SameDir DEF Due
  <2>3. \A i : Slot(i)' = Slot(i)
    BY <2>1, SameDir
  <2>. QED BY <2>1, <2>2, <2>3 DEF DueHeld
<1>. QED BY <1>1, <1>2, <1>3, <1>4, StepIs

\* What ReadsNext says of a file that was returned.
NextFile == LET files == {k \in from..Limit : InUse(k) /\ Slot(k).kind \in {"short", "label"}} IN
            IF found = 0 THEN files = {}
            ELSE /\ found \in files /\ \A k \in files : found <= k
                 /\ fname = ListedName(found)
                 /\ eot \/ dptr = found + 1

LEMMA ReadsKept ==
    ASSUME DirCore, Begun, RunHeld, DueHeld, AllPassed, ReadsNext, DirTypeOK', [DirNext]_dirVars
    PROVE  ReadsNext'
<1>0. /\ dptr \in 1..MaxDir /\ MaxDir \in Nat /\ from \in 1..(MaxDir + 1)
      /\ Limit \in 1..MaxDir /\ call \in {"idle", "read", "find"} /\ dptr <= Limit
      /\ dptr \in Int /\ from \in Int /\ Limit \in Int
      /\ call # "idle" => res = "ok" /\ found = 0
  BY LimitIs, DirAssumption DEF DirCore, DirTypeOK
<1>a. SUFFICES ASSUME call' = "idle", res' = "ok", found' # 0 \/ eot'
               PROVE  NextFile'
  BY DEF ReadsNext, NextFile
<1>1. CASE End
  <2>1. /\ call # "idle" /\ (eot \/ Here.kind = "end") /\ res' = (IF call = "read" THEN "ok" ELSE "none")
        /\ dir' = dir /\ from' = from /\ found' = found
    BY <1>1 DEF End, Return
  <2>2. call = "read" /\ found' = 0
    BY <1>0, <1>a, <2>1
  <2>3. ASSUME NEW k \in from..Limit, InUse(k), Slot(k).kind \in {"short", "label"} PROVE FALSE
    <3>1. k \in Int /\ k >= 1
      BY <1>0
    <3>2. CASE eot
      <4>1. Passed(k)
        BY <2>1, <3>2 DEF AllPassed
      <4>. QED BY <2>2, <2>3, <4>1 DEF Passed
    <3>3. CASE ~eot /\ k < dptr
      <4>1. k \in from..(dptr - 1)
        BY <1>0, <3>1, <3>3
      <4>2. Passed(k)
        BY <2>1, <4>1 DEF AllPassed
      <4>. QED BY <2>2, <2>3, <4>2 DEF Passed
    <3>4. CASE ~eot /\ dptr <= k
      <4>1. dptr \in 1..k
        BY <1>0, <3>1, <3>4
      <4>. QED BY <2>1, <2>3, <3>4, <4>1 DEF InUse, Here
    <3>. QED BY <1>0, <3>1, <3>2, <3>3, <3>4
  <2>4. /\ \A k : InUse(k)' <=> InUse(k)
        /\ \A k : Slot(k)' = Slot(k)
        /\ Limit' = Limit
    BY <2>1, SameDir
  <2>. QED BY <2>1, <2>2, <2>3, <2>4 DEF NextFile
<1>2. CASE ReadShort
  <2>1. /\ call = "read" /\ ~eot /\ Here.kind \in {"short", "label"} /\ found' = dptr /\ Advance
        /\ blk_ofs' = (blk_ofs /\ ShortHasLfn)
        /\ fname' = IF blk_ofs' /\ LongBytes # <<>> THEN LongBytes ELSE Here.name
        /\ dir' = dir /\ from' = from
    BY <1>2 DEF ReadShort, Look
  <2>2. Moved /\ from <= dptr
    BY <2>1, AdvanceIs DEF Begun
  <2>3. fname' = ListedName(dptr)
    BY <2>1, ListedIs
  <2>4. InUse(dptr)
    BY <2>1, InUseHere
  <2>5. dptr \in from..Limit /\ Slot(dptr).kind \in {"short", "label"} /\ dptr # 0
    BY <1>0, <2>1, <2>2 DEF Here
  <2>6. ASSUME NEW k \in from..Limit, InUse(k), Slot(k).kind \in {"short", "label"} PROVE dptr <= k
    <3>1. SUFFICES ASSUME k < dptr PROVE FALSE
      BY <1>0
    <3>2. k \in from..(dptr - 1)
      BY <1>0, <3>1
    <3>3. Passed(k)
      BY <2>1, <3>2 DEF AllPassed
    <3>. QED BY <2>1, <2>6, <3>3 DEF Passed
  <2>7. eot' \/ dptr' = dptr + 1
    BY <2>2 DEF Moved
  <2>8. /\ \A k : InUse(k)' <=> InUse(k)
        /\ \A k : Slot(k)' = Slot(k)
        /\ Limit' = Limit
    BY <2>1, SameDir
  <2>9. ListedName(dptr) = ListedName(found)'
    <3>1. PICK k : k = dptr
      OBVIOUS
    <3>2. ListedName(k)' = ListedName(k) /\ found' = k
      BY <2>1, <3>1, SameListed
    <3>3. ListedName(found)' = ListedName(k)'
      BY <3>2 DEF ListedName
    <3>. QED BY <3>1, <3>2, <3>3
  <2>. QED BY <2>1, <2>3, <2>4, <2>5, <2>6, <2>7, <2>8, <2>9 DEF NextFile
<1>3. CASE GoesOn \/ ReadDir \/ \E name \in Sought : Find(name)
  <2>1. call' # "idle"
    BY <1>3, PassesIs DEF ReadDir, Find
  <2>. QED BY <1>a, <2>1
<1>4. CASE Fail \/ (FindShort /\ Matches)
  <2>1. res' # "ok"
    BY <1>4 DEF Fail, FindShort, Return
  <2>. QED BY <1>a, <2>1
<1>5. CASE OpenDirectory
  <2>1. found' = 0 /\ eot' = FALSE
    BY <1>5 DEF OpenDirectory
  <2>. QED BY <1>a, <2>1
<1>6. CASE UNCHANGED dirVars
  <2>1. UNCHANGED <<dir, dptr, eot, call, from, res, found, fname>>
    BY <1>6 DEF dirVars, table, out
  <2>2. NextFile
    BY <1>a, <2>1 DEF ReadsNext, NextFile
  <2>3. /\ \A k : InUse(k)' <=> InUse(k)
        /\ \A k : Slot(k)' = Slot(k)
        /\ Limit' = Limit
    BY <2>1, SameDir
  <2>4. ListedName(found)' = ListedName(found)
    <3>1. PICK k : k = found
      OBVIOUS
    <3>2. ListedName(k)' = ListedName(k) /\ found' = k
      BY <2>1, <3>1, SameListed
    <3>3. ListedName(found)' = ListedName(k)'
      BY <3>2 DEF ListedName
    <3>. QED BY <3>1, <3>2, <3>3
  <2>. QED BY <2>1, <2>2, <2>3, <2>4 DEF NextFile
<1>. QED BY <1>1, <1>2, <1>3, <1>4, <1>5, <1>6, StepIs

LEMMA FindsKept ==
    ASSUME DirCore, Begun, RunHeld, AllPassed, FindsNamed, [DirNext]_dirVars
    PROVE  FindsNamed'
<1>0. /\ dptr \in 1..MaxDir /\ MaxDir \in Nat /\ from \in 1..(MaxDir + 1)
      /\ Limit \in 1..MaxDir /\ call \in {"idle", "read", "find"}
      /\ dptr \in Int /\ Limit \in Int
      /\ call # "idle" => res = "ok" /\ found = 0
      /\ call = "find" => from = 1
  BY LimitIs, DirAssumption DEF DirCore, DirTypeOK, Begun
<1>1. CASE FindShort /\ Matches
  <2>1. /\ call = "find" /\ ~eot /\ Here.kind \in {"short", "dot"} /\ Matches
        /\ found' = dptr /\ res' = "found" /\ dir' = dir /\ fname' = fname
    BY <1>1 DEF FindShort, Look, Return
  <2>2. Named(dptr, AnyLong)
    BY <2>1, MatchNamed
  <2>3. \A k \in 1..(dptr - 1) : ~Named(k, Whole)
    BY <1>0, <2>1 DEF AllPassed, Passed
  <2>4. PICK d : d = dptr
    OBVIOUS
  <2>5. /\ Named(d, AnyLong)' <=> Named(d, AnyLong)
        /\ \A k : Named(k, Whole)' <=> Named(k, Whole)
    BY <2>1, SameNamed
  <2>6. Named(found, AnyLong)'
    <3>1. Named(d, AnyLong)' /\ found' = d
      BY <2>1, <2>2, <2>4, <2>5
    <3>. QED BY <3>1 DEF Named, LongNames, AnyLong
  <2>7. \A k \in 1..(found' - 1) : ~Named(k, Whole)'
    BY <2>1, <2>3, <2>5
  <2>. QED BY <2>1, <2>6, <2>7 DEF FindsNamed
<1>2. CASE End
  <2>1. /\ call # "idle" /\ (eot \/ Here.kind = "end") /\ res' = (IF call = "read" THEN "ok" ELSE "none")
        /\ dir' = dir /\ fname' = fname
    BY <1>2 DEF End, Return
  <2>2. CASE call = "read"
    <3>1. res' = "ok"
      BY <2>1, <2>2
    <3>. QED BY <3>1 DEF FindsNamed
  <2>3. CASE call = "find"
    <3>1. ASSUME NEW k \in 1..Limit PROVE ~Named(k, Whole)
      <4>0. k \in Int /\ k >= 1
        BY <1>0
      <4>1. CASE eot
        <5>1. Passed(k)
          BY <1>0, <2>1, <2>3, <4>1 DEF AllPassed
        <5>. QED BY <2>3, <5>1 DEF Passed
      <4>2. CASE k < dptr
        <5>1. k \in from..(dptr - 1)
          BY <1>0, <2>3, <4>0, <4>2
        <5>2. Passed(k)
          BY <2>1, <5>1 DEF AllPassed
        <5>. QED BY <2>3, <5>2 DEF Passed
      <4>3. CASE ~eot /\ dptr <= k
        <5>1. dptr \in 1..k
          BY <1>0, <4>0, <4>3
        <5>2. ~InUse(k)
          BY <2>1, <4>3, <5>1 DEF InUse, Here
        <5>. QED BY <5>2 DEF Named
      <4>. QED BY <1>0, <4>0, <4>1, <4>2, <4>3
    <3>2. (\A k : Named(k, Whole)' <=> Named(k, Whole)) /\ Limit' = Limit
      BY <2>1, SameNamed, SameDir
    <3>3. res' = "none"
      BY <2>1, <2>3
    <3>. QED BY <3>1, <3>2, <3>3 DEF FindsNamed
  <2>. QED BY <1>0, <2>1, <2>2, <2>3
<1>3. CASE GoesOn \/ Fail \/ ReadShort \/ OpenDirectory \/ ReadDir \/ \E name \in Sought : Find(name)
  <2>1. res' \in {"ok", "error"}
    <3>1. CASE GoesOn
      BY <1>0, <3>1, PassesIs
    <3>2. CASE Fail \/ ReadShort \/ OpenDirectory \/ ReadDir \/ \E name \in Sought : Find(name)
      BY <3>2 DEF Fail, ReadShort, OpenDirectory, ReadDir, Find, Return
    <3>. QED BY <1>3, <3>1, <3>2
  <2>. QED BY <2>1 DEF FindsNamed
<1>4. CASE UNCHANGED dirVars
  <2>1. UNCHANGED <<dir, call, res, found, fname>>
    BY <1>4 DEF dirVars, out
  <2>2. PICK d : d = found
    OBVIOUS
  <2>3. /\ Named(d, AnyLong)' <=> Named(d, AnyLong)
        /\ \A k : Named(k, Whole)' <=> Named(k, Whole)
    BY <2>1, SameNamed
  <2>4. Named(found, AnyLong) => Named(found, AnyLong)'
    <3>1. Named(found, AnyLong) => Named(d, AnyLong)' /\ found' = d
      BY <2>1, <2>2, <2>3
    <3>. QED BY <3>1 DEF Named, LongNames, AnyLong
  <2>5. Limit' = Limit
    BY <2>1, SameDir
  <2>. QED BY <2>1, <2>3, <2>4, <2>5 DEF FindsNamed
<1>. QED BY <1>1, <1>2, <1>3, <1>4, StepIs

LEMMA DirInitial == DirInit => DirInv
<1>. SUFFICES ASSUME DirInit PROVE DirInv
  OBVIOUS
<1>1. /\ dir \in Dirs /\ dptr = 1 /\ eot = FALSE /\ ord = Unset /\ sum = Unset /\ blk_ofs = FALSE
      /\ lfnbuf = [i \in 1..(MaxLfn + 1) |-> Nul]
      /\ call = "idle" /\ from = 1 /\ res = "ok" /\ found = 0
  BY DEF DirInit
<1>2. /\ MaxLfn \in Nat /\ MaxDir \in Nat /\ Limit \in 1..MaxDir /\ Unset \in 0..Unset
      /\ 1 \in 1..MaxDir /\ 1 \in 1..(MaxDir + 1) /\ 0 \in 0..MaxDir /\ 1 <= Limit
      /\ MaxLfn + 1 \in 1..(MaxLfn + 1)
  BY <1>1, LimitIs, DirAssumption DEF Unset
<1>3. BufferTyped /\ SoughtHeld
  BY <1>1, <1>2 DEF BufferTyped, SoughtHeld
<1>4. DirTypeOK
  BY <1>1, <1>2, <1>3 DEF DirTypeOK, BufferTyped
<1>5. DirCore
  BY <1>1, <1>2, <1>3, <1>4 DEF DirCore
<1>6. InUse(dptr - 1) /\ ~(dptr > 1)
  BY <1>1 DEF InUse
<1>7. Begun
  BY <1>1, <1>6 DEF Begun
<1>8. AllPassed /\ RunHeld /\ DueHeld
  BY <1>1 DEF AllPassed, RunHeld, DueHeld
<1>9. ReadsNext /\ FindsNamed
  BY <1>1, <1>4 DEF ReadsNext, FindsNamed
<1>. QED BY <1>5, <1>7, <1>8, <1>9 DEF DirInv

LEMMA DirKept == DirInv /\ [DirNext]_dirVars => DirInv'
<1>. SUFFICES ASSUME DirInv, [DirNext]_dirVars PROVE DirInv'
  OBVIOUS
<1>1. DirCore /\ Begun /\ AllPassed /\ RunHeld /\ DueHeld /\ ReadsNext /\ FindsNamed
  BY DEF DirInv
<1>2. DirCore'
  BY <1>1, CoreKept
<1>3. DirTypeOK'
  BY <1>2 DEF DirCore
<1>4. Begun'
  BY <1>1, BegunKept
<1>5. AllPassed'
  BY <1>1, PassedKept
<1>6. RunHeld'
  BY <1>1, RunKept
<1>7. DueHeld'
  BY <1>1, DueKept
<1>8. ReadsNext'
  BY <1>1, <1>3, ReadsKept
<1>9. FindsNamed'
  BY <1>1, FindsKept
<1>. QED BY <1>2, <1>4, <1>5, <1>6, <1>7, <1>8, <1>9 DEF DirInv

\* For directories of any length and names of any, the invariant of ff_dir*.c holds:
\* while ord counts down, the parts before the slot are those of one long name, under
\* the checksum kept, and in the buffer or the same as there; and every file passed by
\* was not the one to return.
THEOREM DirInvariant == DirSpec => []DirInv
<1>1. DirInit => DirInv
  BY DirInitial
<1>2. DirInv /\ [DirNext]_dirVars => DirInv'
  BY DirKept
<1>. QED BY <1>1, <1>2, PTL DEF DirSpec

\* f_readdir returns the next file, and with the name that belongs to it.
THEOREM ReadsCorrect == DirSpec => []ReadsNext
<1>1. DirInv => ReadsNext
  BY DEF DirInv
<1>. QED BY <1>1, DirInvariant, PTL

\* dir_find finds what has the name, and misses nothing that it can take for it.
THEOREM FindsCorrect == DirSpec => []FindsNamed
<1>1. DirInv => FindsNamed
  BY DEF DirInv
<1>. QED BY <1>1, DirInvariant, PTL
=============================================================================
