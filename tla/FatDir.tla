------------------------------- MODULE FatDir -------------------------------
(***************************************************************************)
(* Directories of FatFs as the menu is built with it: f_opendir and        *)
(* f_readdir, which give the names the menu lists, and dir_find, which     *)
(* finds the entry of a name (gameMenus/coleco/src/fatFs/ff_dir*.c).       *)
(*                                                                         *)
(* A long name is spread over the slots before the one of its file, its    *)
(* last part first, with a checksum of the short name.  A step is one turn *)
(* of the loop of dir_read or dir_find: it looks at one slot.  Which slots *)
(* share a sector is left out: the read of any may fail.                   *)
(* Operators named Bug... are wrong forms of what follows them.            *)
(***************************************************************************)
EXTENDS Integers, Sequences

CONSTANTS
    Dirs,           \* directories: their slots, and whether the chain is a loop
    Sought,         \* names that are looked for
    Byte(_),        \* the low byte of a character, as a character
    Segment,        \* 13: characters in a slot
    MaxLfn,         \* 127: FF_MAX_LFN
    MaxShort,       \* characters of a short name
    MaxDir          \* 65536: MAX_DIR in slots

Nul == "nul"        \* 0
Filler == "filler"  \* 0xFFFF
Unset == 255        \* 0xFF in ord and sum

\* What is in a slot: the number of a part is a byte without a bit of it, so not
\* Unset, and its text has Segment characters.  A "volume" has AM_VOL and no other
\* attribute, but for AM_ARC; a "label" has AM_VOL and others, and is not a part.
IsSlot(s) ==
    /\ s.kind \in {"free", "volume", "label", "dot", "end", "short", "long"}
    /\ s.kind \in {"short", "dot", "label"} => s.sum \in 0..255 /\ Len(s.name) <= MaxShort
    /\ s.kind = "long" => /\ s.ord \in 0..(Unset - 1) /\ s.sum \in 0..255
                          /\ s.last \in BOOLEAN /\ s.clear \in BOOLEAN
                          /\ DOMAIN s.text = 1..Segment

ASSUME DirAssumption ==
    /\ Segment \in Nat \ {0} /\ MaxLfn \in Nat \ {0} /\ MaxShort \in Nat /\ MaxDir \in Nat \ {0}
    /\ \A d \in Dirs : /\ d.loop \in BOOLEAN /\ Len(d.slots) \in Nat \ {0}
                       /\ \A i \in 1..Len(d.slots) : IsSlot(d.slots[i])
    /\ \A name \in Sought : /\ Len(name) \in 1..MaxLfn
                            /\ name = [i \in 1..Len(name) |-> name[i]]
                            /\ \A i \in 1..Len(name) : name[i] # Nul

VARIABLES
    dir,            \* the directory
    dptr, eot,      \* the slot to be looked at; dp->sect is 0
    ord, sum,       \* the part of the long name that is to come, and its checksum
    blk_ofs,        \* whether blk_ofs is a slot
    lfnbuf,
    call, from,     \* the call that runs, and the slot it began with
    res, found, fname

table == <<dptr, eot>>
lfn == <<ord, sum, blk_ofs, lfnbuf>>
out == <<res, found, fname>>
dirVars == <<dir, table, lfn, call, from, out>>

Slot(i) == dir.slots[((i - 1) % Len(dir.slots)) + 1]
Here == Slot(dptr)

-----------------------------------------------------------------------------
(* Parts of long names *)

Offset(s) == (s.ord - 1) * Segment

\* Where the text of a part ends: with its Nul, or with the slot.
Ends(text) == IF \E i \in DOMAIN text : text[i] = Nul
              THEN CHOOSE i \in DOMAIN text : text[i] = Nul /\ \A j \in 1..(i - 1) : text[j] # Nul
              ELSE Segment

Filled(text) == \A i \in (Ends(text) + 1)..Segment : text[i] = Filler

\* pick_lfn: is the part taken?  The last one needs room for a terminator, even
\* if it has its own.  What a part that is refused writes is left out: nothing
\* is read from the buffer until a last part has ended it again.
PickLfn(s) == /\ s.clear /\ s.ord > 0 /\ Filled(s.text)
              /\ Offset(s) + Ends(s.text) <= MaxLfn
              /\ s.last => Offset(s) + Ends(s.text) < MaxLfn

\* The buffer with the part: what it holds elsewhere stays.
Picked(s) == [i \in DOMAIN lfnbuf |->
                 IF i - Offset(s) \in 1..Ends(s.text) THEN s.text[i - Offset(s)]
                 ELSE IF s.last /\ i = Offset(s) + Ends(s.text) + 1 THEN Nul
                 ELSE lfnbuf[i]]

\* cmp_lfn: does the part agree with the name in the buffer?
CmpLfn(s) == LET e == Ends(s.text) IN
             /\ s.clear /\ s.ord > 0 /\ Filled(s.text)
             /\ Offset(s) + e <= MaxLfn
             /\ \A i \in 1..e : s.text[i] = lfnbuf[Offset(s) + i]
             /\ s.last /\ s.text[e] # Nul => lfnbuf[Offset(s) + e + 1] = Nul

\* What an LFN entry makes of ord and sum, where agrees says its text is good.
LongPart(agrees) ==
    LET first == IF Here.last THEN Here.ord ELSE ord
        check == IF Here.last THEN Here.sum ELSE sum
    IN /\ sum' = check
       /\ ord' = IF Here.ord = first /\ Here.sum = check /\ agrees THEN first - 1 ELSE Unset

\* The name before its terminator, as bytes.  A character with low byte 0
\* makes it invalid.
LongBytes == LET n == CHOOSE n \in 0..MaxLfn :
                         lfnbuf[n + 1] = Nul /\ \A i \in 1..n : lfnbuf[i] # Nul
                 name == [i \in 1..n |-> Byte(lfnbuf[i])]
             IN IF \E i \in 1..n : name[i] = Nul THEN <<>> ELSE name

-----------------------------------------------------------------------------

BugOffset == IF ~dir.loop /\ dptr = Len(dir.slots)
             THEN eot' = TRUE /\ UNCHANGED dptr
             ELSE dptr' = (IF dptr = MaxDir THEN 1 ELSE dptr + 1) /\ UNCHANGED eot
\* dir_next: the end of the table, or of what may be read of one.
Advance == IF dptr >= MaxDir \/ (~dir.loop /\ dptr = Len(dir.slots))
           THEN eot' = TRUE /\ UNCHANGED dptr
           ELSE dptr' = dptr + 1 /\ UNCHANGED eot

Return(r) == call' = "idle" /\ res' = r
Idle == call = "idle"

\* f_opendir
OpenDirectory == /\ Idle
                 /\ dptr' = 1 /\ eot' = FALSE
                 /\ res' = "ok" /\ found' = 0 /\ fname' = <<>> /\ from' = 1
                 /\ UNCHANGED <<dir, lfn, call>>

\* f_readdir.  The menu makes none after one that failed, and dir_find is
\* another directory object's.
ReadDir == /\ Idle /\ res = "ok"
           /\ call' = "read" /\ from' = IF eot THEN MaxDir + 1 ELSE dptr
           /\ ord' = Unset /\ sum' = Unset
           /\ found' = 0 /\ fname' = <<>>
           /\ UNCHANGED <<dir, table, blk_ofs, lfnbuf, res>>

\* create_name puts the name in lfnbuf, and dir_find begins.
Find(name) == /\ Idle
              /\ call' = "find" /\ from' = 1
              /\ lfnbuf' = [i \in DOMAIN lfnbuf |->
                               IF i <= Len(name) THEN name[i]
                               ELSE IF i = Len(name) + 1 THEN Nul ELSE lfnbuf[i]]
              /\ dptr' = 1 /\ eot' = FALSE
              /\ ord' = Unset /\ sum' = Unset /\ blk_ofs' = FALSE
              /\ res' = "ok" /\ found' = 0 /\ fname' = name
              /\ UNCHANGED dir

\* A sector cannot be read: the window, or the table of clusters.
Fail == /\ call # "idle" /\ ~eot
        /\ eot' = TRUE /\ Return("error")
        /\ found' = 0 /\ fname' = <<>>
        /\ UNCHANGED <<dir, dptr, lfn, from>>

\* Nothing more: f_readdir returns an empty name, dir_find FR_NO_FILE.
End == /\ call # "idle" /\ (eot \/ Here.kind = "end")
       /\ eot' = TRUE /\ Return(IF call = "read" THEN "ok" ELSE "none")
       /\ UNCHANGED <<dir, dptr, lfn, from, found, fname>>

Look(c, kinds) == call = c /\ ~eot /\ Here.kind \in kinds

ReadSkip == /\ Look("read", {"free", "dot", "volume"})
            /\ ord' = Unset /\ Advance
            /\ UNCHANGED <<dir, sum, blk_ofs, lfnbuf, call, from, out>>

ReadLong == /\ Look("read", {"long"})
            /\ LongPart(PickLfn(Here))
            /\ lfnbuf' = IF ord' # Unset THEN Picked(Here) ELSE lfnbuf
            /\ blk_ofs' = (blk_ofs \/ Here.last)
            /\ Advance
            /\ UNCHANGED <<dir, call, from, out>>

BugShortHasLfn == ord = 0
ShortHasLfn == ord = 0 /\ sum = Here.sum

\* The entry is returned with its long name, if it has one, and the position
\* goes on to the next.  A label is taken for a file.
ReadShort == /\ Look("read", {"short", "label"})
             /\ blk_ofs' = (blk_ofs /\ ShortHasLfn)
             /\ found' = dptr
             /\ fname' = IF blk_ofs' /\ LongBytes # <<>> THEN LongBytes ELSE Here.name
             /\ Return("ok") /\ Advance
             /\ UNCHANGED <<dir, ord, sum, lfnbuf, from>>

FindSkip == /\ Look("find", {"free", "volume", "label"})
            /\ ord' = Unset /\ blk_ofs' = FALSE /\ Advance
            /\ UNCHANGED <<dir, sum, lfnbuf, call, from, out>>

FindLong == /\ Look("find", {"long"})
            /\ LongPart(CmpLfn(Here))
            /\ blk_ofs' = (blk_ofs \/ Here.last)
            /\ Advance
            /\ UNCHANGED <<dir, lfnbuf, call, from, out>>

BugMatches == ShortHasLfn \/ Here.name = SubSeq(fname, 1, MaxShort)
\* A name too long for a short one is not compared with them.
Matches == ShortHasLfn \/ (Len(fname) <= MaxShort /\ Here.name = fname)

FindShort == /\ Look("find", {"short", "dot"})
             /\ IF Matches
                THEN found' = dptr /\ Return("found") /\ UNCHANGED <<table, ord, blk_ofs>>
                ELSE /\ ord' = Unset /\ blk_ofs' = FALSE /\ Advance
                     /\ UNCHANGED <<found, call, res>>
             /\ UNCHANGED <<dir, sum, lfnbuf, from, fname>>

-----------------------------------------------------------------------------

DirInit == /\ dir \in Dirs
           /\ dptr = 1 /\ eot = FALSE
           /\ ord = Unset /\ sum = Unset /\ blk_ofs = FALSE
           /\ lfnbuf = [i \in 1..(MaxLfn + 1) |-> Nul]
           /\ call = "idle" /\ from = 1 /\ res = "ok" /\ found = 0 /\ fname = <<>>

Step == Fail \/ End \/ ReadSkip \/ ReadLong \/ ReadShort \/ FindSkip \/ FindLong \/ FindShort

DirNext == Step \/ OpenDirectory \/ ReadDir \/ \E name \in Sought : Find(name)

DirSpec == DirInit /\ [][DirNext]_dirVars /\ WF_dirVars(Step)

-----------------------------------------------------------------------------
(* Properties *)

\* Counters stay in their range; the buffer always holds a terminated name.
DirTypeOK ==
    /\ dptr \in 1..MaxDir /\ eot \in BOOLEAN
    /\ ord \in 0..Unset /\ sum \in 0..Unset /\ blk_ofs \in BOOLEAN
    /\ \E i \in 1..(MaxLfn + 1) : lfnbuf[i] = Nul
    /\ call \in {"idle", "read", "find"} /\ from \in 1..(MaxDir + 1)
    /\ res \in {"ok", "error", "found", "none"} /\ found \in 0..MaxDir

\* The last slot that may be looked at.
Limit == IF dir.loop \/ Len(dir.slots) > MaxDir THEN MaxDir ELSE Len(dir.slots)

\* The slots before the end of the directory.
InUse(k) == \A i \in 1..k : Slot(i).kind # "end"

\* The n slots before k hold a long name for it: all its parts, in order, under
\* its checksum.
HasLong(k, n) == \A i \in 1..n :
                     LET s == Slot(k - i) IN
                     /\ s.kind = "long" /\ s.clear /\ Filled(s.text)
                     /\ s.ord = i /\ (s.last <=> i = n)
                     /\ s.sum = Slot(k).sum

\* Character q of a name whose first part is in slot k - 1.
Char(k, q) == Slot(k - 1 - ((q - 1) \div Segment)).text[((q - 1) % Segment) + 1]

\* The name ends with a Nul, or with its last part.
Text(k, n) == LET length == CHOOSE m \in 0..(n * Segment) :
                                /\ \A q \in 1..m : Char(k, q) # Nul
                                /\ m = n * Segment \/ Char(k, m + 1) = Nul
              IN [q \in 1..length |-> Char(k, q)]

\* f_readdir takes no long name that leaves no room behind it.
Fits(k, n) == LET s == Slot(k - n) IN Offset(s) + Ends(s.text) < MaxLfn

\* What dir_find always finds: a name with parts behind its end, or one of MaxLfn
\* characters that ends within its part, may be missed.
Whole(k, n) == LET s == Slot(k - n) IN
               /\ Offset(s) + Ends(s.text) <= MaxLfn
               /\ \A i \in 1..(n - 1), q \in 1..Segment : Slot(k - i).text[q] # Nul
AnyLong(k, n) == TRUE

LongNames(k, Fit(_, _)) == {Text(k, n) : n \in {n \in 1..(k - 1) : HasLong(k, n) /\ Fit(k, n)}}

\* The name a slot is listed with.
ListedName(k) ==
    LET bytes == {[i \in DOMAIN t |-> Byte(t[i])] : t \in LongNames(k, Fits)}
        valid == {b \in bytes : b # <<>> /\ \A i \in DOMAIN b : b[i] # Nul}
    IN IF valid = {} THEN Slot(k).name ELSE CHOOSE b \in valid : TRUE

\* f_readdir returns the next file (or label) after the one it returned before,
\* with its long name if a whole and matching one stands before it and else with
\* its short one; and nothing only when there is no other.
ReadsNext ==
    /\ DirTypeOK
    /\ call = "idle" /\ res = "ok" /\ (found # 0 \/ eot) =>
        LET files == {k \in from..Limit : InUse(k) /\ Slot(k).kind \in {"short", "label"}} IN
        IF found = 0 THEN files = {}
        ELSE /\ found \in files /\ \A k \in files : found <= k
             /\ fname = ListedName(found)
             /\ eot \/ dptr = found + 1

\* What is sought has this name, as its short or as a fitting long one.
Named(k, Fit(_, _)) == /\ InUse(k) /\ Slot(k).kind \in {"short", "dot"}
                       /\ Slot(k).name = fname \/ fname \in LongNames(k, Fit)

\* dir_find finds a file that has the name as its long or as its short one, the
\* first that it can take for it, and none only if there is no such file.
FindsNamed ==
    /\ res = "found" => Named(found, AnyLong) /\ \A k \in 1..(found - 1) : ~Named(k, Whole)
    /\ res = "none" /\ call = "idle" => \A k \in 1..Limit : ~Named(k, Whole)

\* Every call ends, even in a directory whose chain of clusters is a loop.
CallsEnd == call # "idle" ~> call = "idle"
=============================================================================
