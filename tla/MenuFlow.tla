------------------------------ MODULE MenuFlow ------------------------------
(***************************************************************************)
(* menu() of gameMenus/coleco/src/menu.c: from the wait for a card, through *)
(* the folders the user walks, to the file that is opened; and the list of *)
(* titles that readDir reads and sortDir sorts.                            *)
(*                                                                         *)
(* What FatFile shows of FatFs is taken from there: a call fails, or does  *)
(* what was asked on the card that was mounted; that needs the card in the *)
(* slot since.  The cursor is MenuCursor's, loading MenuLoader's.  A path  *)
(* is the sequence of its names.  The user may change the card at any time. *)
(* Operators named Bug... are wrong forms of what follows them.            *)
(***************************************************************************)
EXTENDS Integers, SequencesExt

CONSTANTS
    Cards, Names,
    Tree,           \* Tree[c][p]: the entries of folder p of card c, in order: name,
                    \* whether it is a folder, its blocks of 16K modulo 256
    COLECO,         \* the folder that is entered unasked
    Hidden,         \* names that start with a period
    Order(_),       \* what mystrcmp compares of a name
    NameLen(_),     \* characters of a name
    MaxPath,        \* 510: characters of a folder's path
    MaxFile,        \* 127: characters of a file's path
    MaxTitles,      \* 255: titles that are read
    BlankTime,      \* polls before the screen is blanked
    Junk            \* what is found where the list has no title, as one: at address 0,
                    \* and in the room for each title

NoCard == <<>>
DotDot == [name |-> "..", pages |-> 0]

ASSUME MenuAssumption ==
    /\ NoCard \notin Cards /\ COLECO \in Names \ Hidden
    /\ MaxPath \in Nat /\ MaxFile \in Nat
    /\ MaxTitles \in Nat \ {0, 1} /\ BlankTime \in Nat \ {0}
    /\ \A c \in Cards :
          /\ <<>> \in DOMAIN Tree[c] /\ DOMAIN Tree[c] \subseteq Seq(Names)
          /\ \A p \in DOMAIN Tree[c] :
                Tree[c][p] \in Seq([name : Names, dir : BOOLEAN, pages : 0..255])
    /\ \A n \in Names : NameLen(n) \in Nat \ {0}
    /\ \A n \in Names \cup {DotDot.name} : Order(n) \in Nat
    /\ Junk \in [0..MaxTitles -> [name : Names \cup {DotDot.name}, pages : 0..255]]

VARIABLES
    slot,           \* the card in the slot, or NoCard
    media, ready,   \* the card that was mounted; it has not left since
    path,           \* <<>> is "/"
    firstScan,
    titles,         \* the titles read, from 0x8000 to lastFilename: name and size
    sortedList,     \* pointers: 0, or k for the room of title k; listSize is its length
    selection,      \* listSelect
    pos,            \* the entry f_readdir is to return
    opened,         \* the file f_open opened: its path
    count,          \* waitSDCard: debounce and cntDown
    pc, after       \* after: where an error or a blank screen goes on

card == <<slot, media, ready>>
list == <<titles, sortedList>>
vars == <<card, path, firstScan, list, selection, pos, opened, count, pc, after>>

-----------------------------------------------------------------------------
(* sortDir *)

Title(k) == IF k \in DOMAIN titles THEN titles[k] ELSE Junk[k]
IsDir(t) == t.pages = 0
Before(t, u) == Order(t.name) < Order(u.name)

\* How many of the list stay before title k: a folder counts up, a file down.
Place(l, k) ==
    LET t == Title(k)
        Passes(i) == IF IsDir(t) THEN IsDir(Title(l[i])) /\ ~Before(t, Title(l[i]))
                     ELSE IsDir(Title(l[i])) \/ ~Before(t, Title(l[i]))
    IN IF IsDir(t)
       THEN CHOOSE n \in 0..Len(l) : /\ \A i \in 1..n : Passes(i)
                                     /\ n < Len(l) => ~Passes(n + 1)
       ELSE CHOOSE n \in 0..Len(l) : /\ \A i \in (n + 1)..Len(l) : ~Passes(i)
                                     /\ n > 0 => Passes(n)

\* Where a file passes every title, or there is none, idx goes on from 0 to 255:
\* the file is lost, and what the list held there before, m, comes into it.
Insert(l, k, m) == IF ~IsDir(Title(k)) /\ Place(l, k) = 0 THEN Append(l, m)
                   ELSE InsertAt(l, Place(l, k) + 1, k)

-----------------------------------------------------------------------------

Goto(l) == pc' = l /\ UNCHANGED after
\* displayErrorString, then l.
Error(l) == pc' = "error" /\ after' = l

\* The model forgets what is not used again.
Forget == /\ titles' = <<>> /\ sortedList' = <<>>
          /\ selection' = 0 /\ pos' = 1 /\ opened' = <<>>

Nocard == /\ pc = "nocard"
          /\ Forget
          /\ Goto(IF slot = NoCard THEN "wait" ELSE "mount")
          /\ count' = [debounce |-> 0, cntDown |-> BlankTime]
          /\ UNCHANGED <<card, path, firstScan>>

\* What a turn of waitSDCard's loop ends with: the card is to be there twice.
Debounce(d) == LET now == IF slot = NoCard THEN 0 ELSE d + 1 IN
               /\ count' = [debounce |-> now % 2, cntDown |-> count.cntDown - 1]
               /\ pc' = IF now = 2 THEN "mount" ELSE "wait"

WaitSDCard == /\ pc = "wait"
              /\ IF count.cntDown = 1
                 THEN /\ pc' = "blank" /\ after' = "wait"
                      /\ count' = [debounce |-> 0, cntDown |-> BlankTime + 1]
                 ELSE Debounce(count.debounce) /\ UNCHANGED after
              /\ UNCHANGED <<card, path, firstScan, list, selection, pos, opened>>

\* handleBlanking ends with any input, or with the card.
Unblank == /\ pc = "blank"
           /\ IF after = "wait" THEN Debounce(0) ELSE pc' = after /\ UNCHANGED count
           /\ after' = "nocard"
           /\ UNCHANGED <<card, path, firstScan, list, selection, pos, opened>>

\* f_mount
Mount == /\ pc = "mount"
         /\ path' = <<>>
         /\ count' = [debounce |-> 0, cntDown |-> BlankTime]
         /\ \/ /\ slot # NoCard
               /\ media' = slot /\ ready' = TRUE
               /\ firstScan' = TRUE /\ Goto("dirLoop")
            \/ /\ media' = NoCard /\ ready' = FALSE
               /\ UNCHANGED firstScan /\ Error("nocard")
         /\ UNCHANGED <<slot, list, selection, pos, opened>>

\* displayErrorString waits for a fire button, and looks at nothing else.
Dismiss == /\ pc = "error"
           /\ pc' = after /\ after' = "nocard"
           /\ UNCHANGED <<card, path, firstScan, list, selection, pos, opened, count>>

-----------------------------------------------------------------------------
(* readDir, and what menu() makes of it *)

\* f_opendir of path.  Where it fails no title is read.
OpenDir == /\ pc = "dirLoop"
           /\ sortedList' = <<>> /\ selection' = 0 /\ pos' = 1
           /\ \/ /\ ready /\ path \in DOMAIN Tree[media]
                 /\ titles' = IF path = <<>> THEN <<>> ELSE <<DotDot>>
                 /\ Goto("readDir")
              \/ titles' = <<>> /\ Goto("sort")
           /\ UNCHANGED <<card, path, firstScan, opened, count>>

Entry == Tree[media][path][pos]

BugReadEnds == /\ pc = "readDir"
               /\ pos' = 1 /\ Goto("sort")
               /\ UNCHANGED <<card, path, firstScan, list, selection, opened, count>>
\* f_readdir fails, or there is nothing left to read.
ReadEnds == /\ pc = "readDir"
            /\ firstScan' = FALSE /\ pos' = 1 /\ Goto("sort")
            /\ UNCHANGED <<card, path, list, selection, opened, count>>

\* f_readdir returns an entry, but the card is gone.
ReadGone == /\ pc = "readDir" /\ slot = NoCard
            /\ pos' = 1 /\ Goto("sort")
            /\ UNCHANGED <<card, path, firstScan, list, selection, opened, count>>

Reading == pc = "readDir" /\ slot # NoCard /\ pos <= Len(Tree[media][path])

ReadHidden == /\ Reading /\ Entry.name \in Hidden
              /\ pos' = pos + 1
              /\ UNCHANGED <<card, path, firstScan, list, selection, opened, count, pc, after>>

\* What a title keeps of an entry: a folder has no size.  It has room for all of a
\* name, since f_readdir returns none of more than 125 characters (Fits of FatDir).
Show(e) == [name |-> e.name, pages |-> IF e.dir THEN 0 ELSE e.pages]

IsColeco(e) == e.dir /\ Order(e.name) = Order(COLECO)

\* The name is written from path[1] on, whatever is there.
EnterColeco == /\ Reading /\ firstScan /\ IsColeco(Entry)
               /\ path' = <<COLECO>> /\ firstScan' = FALSE
               /\ pos' = 1 /\ Goto("dirLoop")
               /\ UNCHANGED <<card, list, selection, opened, count>>

ReadTitle ==
    /\ Reading /\ Entry.name \notin Hidden /\ ~(firstScan /\ IsColeco(Entry))
    /\ titles' = Append(titles, Show(Entry))
    /\ IF Len(titles') = MaxTitles
       THEN Error("sort") /\ pos' = 1 /\ firstScan' = FALSE
       ELSE pos' = pos + 1 /\ UNCHANGED <<firstScan, pc, after>>
    /\ UNCHANGED <<card, path, sortedList, selection, opened, count>>

BugListed == /\ pc = "sort"
             /\ Goto(IF titles = <<>> THEN "nocard" ELSE "sortDir")
             /\ UNCHANGED <<card, path, firstScan, list, selection, pos, opened, count>>
\* An empty list is taken for a folder that was not opened.
Listed == /\ pc = "sort"
          /\ \/ slot = NoCard /\ Goto("nocard")
             \/ slot # NoCard /\ titles = <<>> /\ Error("nocard")
             \/ slot # NoCard /\ titles # <<>> /\ Goto("sortDir")
          /\ UNCHANGED <<card, path, firstScan, list, selection, pos, opened, count>>

SortDir == /\ pc = "sortDir"
           /\ IF Len(sortedList) < Len(titles)
              THEN /\ \E m \in 0..MaxTitles :
                         sortedList' = Insert(sortedList, Len(sortedList) + 1, m)
                   /\ UNCHANGED <<pc, after>>
              ELSE Goto("select") /\ UNCHANGED sortedList
           /\ UNCHANGED <<card, path, firstScan, titles, selection, pos, opened, count>>

-----------------------------------------------------------------------------
(* The selection *)

\* MenuCursor says where the cursor can go: anywhere in the list.
Move(i) == /\ pc = "select" /\ i # selection
           /\ selection' = i
           /\ UNCHANGED <<card, path, firstScan, list, pos, opened, count, pc, after>>

Blank == /\ pc = "select"
         /\ pc' = "blank" /\ after' = "select"
         /\ UNCHANGED <<card, path, firstScan, list, selection, pos, opened, count>>

\* getUserSelection returns: the user fired, or it saw no card.
Selected == /\ pc = "select"
            /\ Goto("chosen")
            /\ UNCHANGED <<card, path, firstScan, list, selection, pos, opened, count>>

CardGone == /\ pc = "chosen" /\ slot = NoCard
            /\ Goto("nocard")
            /\ UNCHANGED <<card, path, firstScan, list, selection, pos, opened, count>>

Chosen == Title(sortedList[selection + 1])
Chars(p) == IF p = <<>> THEN 1
            ELSE FoldLeft(LAMBDA n, name : n + 1 + NameLen(name), 0, p)
\* Characters of the path with a name more.
CharsWith(p, name) == NameLen(name) + (IF p = <<>> THEN 1 ELSE Chars(p) + 1)

Folder == pc = "chosen" /\ slot # NoCard /\ IsDir(Chosen)

Leave == /\ Folder /\ Chosen.name = ".."
         /\ path' = Front(path)
         /\ Goto("dirLoop")
         /\ UNCHANGED <<card, firstScan, list, selection, pos, opened, count>>

Enter == /\ Folder /\ Chosen.name # ".." /\ CharsWith(path, Chosen.name) <= MaxPath
         /\ path' = Append(path, Chosen.name)
         /\ Goto("dirLoop")
         /\ UNCHANGED <<card, firstScan, list, selection, pos, opened, count>>

BugPathTooLong == /\ Folder /\ Chosen.name # ".." /\ CharsWith(path, Chosen.name) > MaxPath
                  /\ path' = Append(path, Chosen.name) /\ Error("select")
                  /\ UNCHANGED <<card, firstScan, list, selection, pos, opened, count>>
\* path is as it was before.
PathTooLong == /\ Folder /\ Chosen.name # ".." /\ CharsWith(path, Chosen.name) > MaxPath
               /\ Error("select")
               /\ UNCHANGED <<card, path, firstScan, list, selection, pos, opened, count>>

File == pc = "chosen" /\ slot # NoCard /\ ~IsDir(Chosen)

FileTooLong == /\ File /\ CharsWith(path, Chosen.name) > MaxFile
               /\ Error("select")
               /\ UNCHANGED <<card, path, firstScan, list, selection, pos, opened, count>>

HasFile(p, name) == p \in DOMAIN Tree[media]
                    /\ \E e \in Range(Tree[media][p]) : e.name = name /\ ~e.dir

BugPath2 == <<Chosen.name>>
Path2 == Append(path, Chosen.name)

\* f_open of path2.
OpenFile == /\ File /\ CharsWith(path, Chosen.name) <= MaxFile
            /\ \/ /\ ready /\ HasFile(Front(Path2), Last(Path2))
                  /\ opened' = Path2 /\ Goto("opened")
               \/ UNCHANGED opened /\ Error("select")
            /\ UNCHANGED <<card, path, firstScan, list, selection, pos, count>>

\* The header and the rest of the file are read, as MenuLoader has it.  The
\* title starts, or what was on the screen is shown again, or read again.
Load == /\ pc = "opened"
        /\ opened' = <<>>
        /\ \/ Goto("started") \/ Error("select") \/ Error("dirLoop")
        /\ UNCHANGED <<card, path, firstScan, list, selection, pos, count>>

-----------------------------------------------------------------------------

Init == /\ slot \in Cards \cup {NoCard} /\ media = NoCard /\ ready = FALSE
        /\ path = <<>> /\ firstScan = FALSE
        /\ titles = <<>> /\ sortedList = <<>>
        /\ selection = 0 /\ pos = 1 /\ opened = <<>>
        /\ count = [debounce |-> 0, cntDown |-> BlankTime]
        /\ pc = "nocard" /\ after = "nocard"

Program == \/ Nocard \/ WaitSDCard \/ Mount
           \/ OpenDir \/ ReadEnds \/ ReadGone \/ ReadHidden \/ EnterColeco \/ ReadTitle
           \/ Listed \/ SortDir \/ CardGone \/ Leave \/ Enter \/ PathTooLong
           \/ FileTooLong \/ OpenFile \/ Load

Input == \/ Dismiss \/ Unblank \/ Blank \/ Selected
         \/ \E i \in 0..(Len(sortedList) - 1) : Move(i)

\* The card is pulled out, or one is pushed in, at any time.
Card == /\ pc # "started"
        /\ \/ slot # NoCard /\ slot' = NoCard
           \/ slot = NoCard /\ slot' \in Cards
        /\ ready' = FALSE
        /\ UNCHANGED <<media, path, firstScan, list, selection, pos, opened, count, pc, after>>

Next == Program \/ Input \/ Card

Spec == Init /\ [][Next]_vars /\ WF_vars(Program)

-----------------------------------------------------------------------------
(* Properties *)

\* Every number stays in its range: the list holds numbers of titles read.
TypeOK ==
    /\ slot \in Cards \cup {NoCard} /\ media \in Cards \cup {NoCard}
    /\ ready \in BOOLEAN /\ firstScan \in BOOLEAN
    /\ path \in Seq(Names)
    /\ titles \in Seq([name : Names \cup {".."}, pages : 0..255]) /\ Len(titles) <= MaxTitles
    /\ sortedList \in Seq(0..MaxTitles) /\ Len(sortedList) <= MaxTitles
    /\ selection \in 0..MaxTitles
    /\ pos \in Nat \ {0} /\ opened \in Seq(Names)
    /\ count \in [debounce : 0..1, cntDown : 1..(BlankTime + 1)]
    /\ pc \in {"nocard", "wait", "blank", "error", "mount", "dirLoop", "readDir", "sort", "sortDir",
               "select", "chosen", "opened", "started"}
    /\ after \in {"nocard", "wait", "sort", "select", "dirLoop"}

Shown == \/ pc \in {"select", "chosen", "opened"}
         \/ pc \in {"error", "blank"} /\ after = "select"

\* How many of the first i entries of folder f are not hidden.
Rank(f, i) == Cardinality({j \in 1..i : f[j].name \notin Hidden})
Above == IF path = <<>> THEN 0 ELSE 1

\* The titles are those of the first entries of folder f that are not hidden, in
\* their order, below the way up.
TitlesOf(f) ==
    /\ Len(titles) <= Above + Rank(f, Len(f))
    /\ path # <<>> => titles[1] = DotDot
    /\ \A i \in DOMAIN f :
          f[i].name \notin Hidden /\ Above + Rank(f, i) <= Len(titles) =>
              titles[Above + Rank(f, i)] = Show(f[i])

\* In a list a folder comes before a file, and what is of a kind by name.
Ordered(t, u) == \/ IsDir(t) /\ ~IsDir(u)
                 \/ (IsDir(t) <=> IsDir(u)) /\ ~Before(u, t)

\* The list on the screen is of the folder that path names, on the card that was
\* mounted: the first of its entries, each once, folders first and in order, where
\* a folder is the first of them (sortDir loses a file otherwise, see Insert).
\* However the user came there, what calls failed and what was too long.  Every
\* number stays in its range on the way.
ListTrue ==
    /\ TypeOK
    /\ Shown =>
        /\ path \in DOMAIN Tree[media] /\ TitlesOf(Tree[media][path])
        /\ Len(sortedList) = Len(titles) /\ selection < Len(sortedList)
        /\ IsDir(titles[1]) =>
              /\ Range(sortedList) = DOMAIN titles
              /\ \A i \in 1..(Len(sortedList) - 1) :
                    Ordered(Title(sortedList[i]), Title(sortedList[i + 1]))

\* A file that is opened is the one whose title is selected, with its size, unless
\* what is selected is no title of the list.
OpensSelected ==
    pc = "opened" /\ sortedList[selection + 1] \in DOMAIN titles =>
        \E i \in DOMAIN Tree[media][path] :
            LET e == Tree[media][path][i] IN
            /\ opened = Append(path, e.name)
            /\ Chosen = [name |-> e.name, pages |-> e.pages]

\* The COLECO folder is entered from the root only, and once for each mount.
ColecoFromRoot == [][pc = "readDir" /\ path' # path => path = <<>> /\ firstScan /\ ~firstScan']_vars

\* With a card in the slot the program comes back to the user: it never goes
\* round without him, and the card is mounted once it stays.
Responds == []<>(slot = NoCard \/ pc \in {"select", "error", "blank", "started"})
=============================================================================
