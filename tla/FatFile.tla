------------------------------ MODULE FatFile ------------------------------
(***************************************************************************)
(* Files of FatFs as the menu is built with it (read-only, FAT16 or FAT32, *)
(* one drive): f_mount, f_open, f_read and f_lseek of                      *)
(* gameMenus/coleco/src/fatFs/ff_*.c, their two caches of a sector, and a  *)
(* card that fails, is pulled out, or is changed between any two reads.    *)
(*                                                                         *)
(* A step reads at most one sector.  disk_read is what SdDriver shows of   *)
(* it: it reads the card that disk_initialize found, or fails.  The search *)
(* of a directory is one step here: it ends with the sector that holds the *)
(* entry in the window.  Contents are named by where they are on a card.   *)
(* Operators named Bug... are wrong forms of what follows them.            *)
(***************************************************************************)
EXTENDS Integers

CONSTANTS
    Cards,
    Layout,         \* Layout[c][i]: what sector 0 (i = 0) and the first sector
                    \* of partition i are: "fat", "bad", "boot" or "none"
    Base,           \* Base[c][i]: where partition i starts, 0 if there is none
    Geometry,       \* Geometry[v]: fatbase, database, csize, n_fatent, dir
    Fat,            \* Fat[v][k]: entry k of the allocation table
    Entry,          \* Entry[v]: sclust and objsize of the file to be opened
    Chain,          \* Chain[v][k]: the file's cluster k, as Fat links them
    SS,             \* bytes in a sector
    PerSector,      \* entries of the table in a sector
    MaxRead, MaxSeek,
    MaxMounts       \* bound of the model on Fsid

Volumes == {v \in Cards \X (0..4) : Layout[v[1]][v[2]] = "fat"}
NoCard == "none"
None == <<>>
Invalid == -1       \* 0xFFFFFFFF as a sector: the window holds none
DISK_ERR == -1      \* 0xFFFFFFFF as a cluster

ASSUME FatAssumption ==
    /\ NoCard \notin Cards
    /\ SS \in Nat \ {0} /\ PerSector \in Nat \ {0}
    /\ MaxRead \in Nat \ {0} /\ MaxSeek \in Nat /\ MaxMounts \in Nat
    /\ Layout \in [Cards -> [0..4 -> {"fat", "bad", "boot", "none"}]]
    /\ Base \in [Cards -> [1..4 -> Nat]]
    /\ Geometry \in [Volumes -> [fatbase : Nat, database : Nat, dir : Nat,
                                 csize : Nat \ {0}, n_fatent : Nat]]
    /\ \A v \in Volumes :
          /\ Fat[v] \in [2..(Geometry[v].n_fatent - 1) -> Nat]
          /\ Entry[v].objsize \in Nat /\ Entry[v].sclust \in Nat
          /\ Chain[v][0] = Entry[v].sclust
          /\ 0..(Entry[v].objsize \div (Geometry[v].csize * SS)) \subseteq DOMAIN Chain[v]
          /\ \A k \in DOMAIN Chain[v] \ {0} :
                Chain[v][k] = IF Chain[v][k - 1] \in DOMAIN Fat[v]
                              THEN Fat[v][Chain[v][k - 1]] ELSE 1

VARIABLES
    slot,           \* the card in the slot, or NoCard
    media,          \* the card that was last initialised
    ready,          \* it has not left the slot since
    Stat,           \* 1: STA_NOINIT
    fs_type, id,    \* id is also Fsid: there is one FATFS
    vol,            \* the volume whose parameters the FATFS holds, or None
    winsect, win,   \* the window and what is in it: <<card, sector>> or None
    obj,            \* the FIL: fs (whether it has one), id, sclust, objsize
    err, fptr, clust, sect, buf,
    pc, call,
    part,           \* find_volume: the partition to be looked at
    ofs,            \* f_lseek, f_read (btr): what remains to the goal
    rbuff, br, res

disk == <<slot, media, ready, Stat>>
fs   == <<fs_type, id, vol>>
window == <<winsect, win>>
fil  == <<obj, err, fptr, clust, sect, buf>>
args == <<call, part, ofs>>
out  == <<rbuff, br, res>>
vars == <<disk, fs, window, fil, pc, args, out>>

Least(a, b) == IF a < b THEN a ELSE b
Geo == Geometry[vol]
Bcs == Geo.csize * SS

-----------------------------------------------------------------------------
(* The drive and the window *)

DiskStatus == IF slot = NoCard THEN 2 ELSE Stat

\* A read can fail at any time; it succeeds with the card that was initialised.
DiskRead(ok) == ok => ready /\ Stat = 0

MoveWindow(s, ok) ==
    IF s = winsect THEN ok /\ UNCHANGED window
    ELSE /\ DiskRead(ok)
         /\ win' = IF ok THEN <<media, s>> ELSE None
         /\ winsect' = IF ok THEN s ELSE Invalid

\* get_fat(c) returns v.  A window with something else than it says could
\* hold any number.
GetFat(c, v) ==
    LET s == Geo.fatbase + c \div PerSector IN
    IF c \notin DOMAIN Fat[vol] THEN v = 1 /\ UNCHANGED window
    ELSE \E ok \in BOOLEAN :
            /\ MoveWindow(s, ok)
            /\ v = DISK_ERR <=> ~ok
            /\ ok /\ win' = <<vol[1], s>> => v = Fat[vol][c]

Clusters == 0..(Geo.n_fatent + 1) \cup {DISK_ERR}

\* 0 is no cluster's sector.
Clst2Sect(c) == IF c \in DOMAIN Fat[vol] THEN Geo.database + Geo.csize * (c - 2) ELSE 0

-----------------------------------------------------------------------------
(* f_mount, and find_volume for it and for f_open *)

Return(r) == pc' = "idle" /\ res' = r

\* An open that fails invalidates the object.
Fails == /\ Return("error")
         /\ obj' = IF call = "open" THEN [obj EXCEPT !.fs = FALSE] ELSE obj

\* The model gives every call a new buffer.
NewBuffer == rbuff' = [i \in DOMAIN rbuff |-> None] /\ br' = 0

Mount == /\ pc = "idle" /\ call' = "mount"
         /\ fs_type' = 0 /\ pc' = "init"
         /\ NewBuffer
         /\ UNCHANGED <<disk, id, vol, window, fil, part, ofs, res>>

Open == /\ pc = "idle" /\ call' = "open"
        /\ IF fs_type # 0 /\ DiskStatus # 1
           THEN pc' = "path" /\ UNCHANGED fs_type
           ELSE pc' = "init" /\ fs_type' = 0
        /\ NewBuffer
        /\ UNCHANGED <<disk, id, vol, window, fil, part, ofs, res>>

Initialize ==
    /\ pc = "init" /\ id < MaxMounts
    /\ \/ /\ slot # NoCard
          /\ Stat' = 0 /\ ready' = TRUE /\ media' = slot
          /\ pc' = "boot" /\ UNCHANGED <<obj, res>>
       \/ /\ Stat' = 1 /\ ready' = FALSE
          /\ Fails /\ UNCHANGED media
    /\ UNCHANGED <<slot, fs, window, err, fptr, clust, sect, buf, args, rbuff, br>>

\* check_fs: the window is invalidated first, so that the sector is read even
\* if another card's is there under its number.
CheckFs(s, ok) == /\ DiskRead(ok)
                  /\ win' = IF ok THEN <<media, s>> ELSE None
                  /\ winsect' = IF ok THEN s ELSE Invalid

\* The rest of find_volume, once a FAT boot sector is in the window.
Found(i) == \/ /\ Layout[win'[1]][i] = "fat"
               /\ fs_type' = 1 /\ id' = id + 1 /\ vol' = <<win'[1], i>>
               /\ IF call = "open" THEN pc' = "path" /\ UNCHANGED <<obj, res>>
                  ELSE Return("ok") /\ UNCHANGED obj
            \/ Layout[win'[1]][i] = "bad" /\ Fails /\ UNCHANGED fs

Boot == /\ pc = "boot"
        /\ \E ok \in BOOLEAN :
              /\ CheckFs(0, ok)
              /\ \/ ok /\ Found(0) /\ UNCHANGED part
                 \/ /\ ok /\ Layout[win'[1]][0] = "boot"
                    /\ pc' = "scan" /\ part' = 1
                    /\ UNCHANGED <<fs, obj, res>>
                 \/ /\ (ok => Layout[win'[1]][0] = "none")
                    /\ Fails /\ UNCHANGED <<fs, part>>
        /\ UNCHANGED <<disk, err, fptr, clust, sect, buf, call, ofs, rbuff, br>>

BugScan == /\ pc = "scan"
           /\ \E ok \in BOOLEAN :
                 LET start == Base[media][part] IN
                 /\ IF start = 0 THEN ~ok /\ UNCHANGED window ELSE CheckFs(start, ok)
                 /\ IF ok THEN Found(part) ELSE UNCHANGED <<pc, res, obj, fs>>
           /\ UNCHANGED <<disk, err, fptr, clust, sect, buf, args, rbuff, br>>
\* The four starts were copied from sector 0 before the window moved.  A
\* partition that cannot be read is passed over like one that is not FAT.
Scan == /\ pc = "scan"
        /\ \E ok \in BOOLEAN :
              LET start == Base[media][part] IN
              /\ IF start = 0 THEN ~ok /\ UNCHANGED window ELSE CheckFs(start, ok)
              /\ \/ ok /\ Found(part) /\ part' = 1
                 \/ /\ ok => Layout[win'[1]][part] \in {"boot", "none"}
                    /\ IF part < 4 THEN part' = part + 1 /\ UNCHANGED <<pc, obj, res>>
                       ELSE Fails /\ part' = 1
                    /\ UNCHANGED fs
        /\ UNCHANGED <<disk, err, fptr, clust, sect, buf, call, ofs, rbuff, br>>

\* follow_path ends with the entry in the window, or without it.
FollowPath ==
    /\ pc = "path"
    /\ \E ok \in BOOLEAN :
          /\ MoveWindow(Geo.dir, ok)
          /\ \/ /\ ok /\ Return("ok")
                /\ \E v \in Volumes :
                      /\ win' = <<vol[1], Geo.dir>> => v = vol
                      /\ obj' = [fs |-> TRUE, id |-> id, sclust |-> Entry[v].sclust,
                                 objsize |-> Entry[v].objsize]
                /\ err' = FALSE /\ fptr' = 0 /\ sect' = 0
             \/ Fails /\ UNCHANGED <<err, fptr, sect>>
    /\ UNCHANGED <<disk, fs, clust, buf, args, rbuff, br>>

-----------------------------------------------------------------------------
(* f_read *)

BugIsValid == obj.fs /\ fs_type # 0 /\ DiskStatus # 1
\* validate, and the error a former call left.
IsValid == obj.fs /\ fs_type # 0 /\ obj.id = id /\ DiskStatus # 1
Usable == IsValid /\ ~err

Kept == <<disk, fs>>

Refused == /\ pc = "idle" /\ ~Usable
           /\ res' = "error" /\ NewBuffer
           /\ UNCHANGED <<Kept, window, fil, pc, args>>

Read(n) == /\ pc = "idle" /\ Usable
           /\ NewBuffer /\ ofs' = Least(n, obj.objsize - fptr)
           /\ pc' = "read" /\ call' = "read"
           /\ UNCHANGED <<Kept, window, fil, part, res>>

BugAbort == Return("error") /\ UNCHANGED err
\* ABORT: the object refuses every further call.
Abort == Return("error") /\ err' = TRUE

\* n bytes of the sector 'from', at the position, go to the program.
Copy(from, n) ==
    /\ rbuff' = [i \in DOMAIN rbuff |->
                    IF i \in br..(br + n - 1) THEN <<from, (fptr + i - br) % SS>> ELSE rbuff[i]]
    /\ br' = br + n /\ fptr' = fptr + n /\ ofs' = ofs - n

ReadDone == /\ pc = "read" /\ ofs = 0
            /\ Return("ok")
            /\ UNCHANGED <<Kept, window, fil, args, rbuff, br>>

Csect == (fptr \div SS) % Geo.csize

\* On a cluster boundary the chain is followed.
ReadCluster ==
    /\ pc = "read" /\ ofs > 0 /\ fptr % SS = 0 /\ Csect = 0
    /\ \E c \in Clusters :
          /\ IF fptr = 0 THEN c = obj.sclust /\ UNCHANGED window ELSE GetFat(clust, c)
          /\ IF c < 2 THEN Abort /\ UNCHANGED clust
             ELSE clust' = c /\ pc' = "sector" /\ UNCHANGED <<err, res>>
    /\ UNCHANGED <<Kept, obj, fptr, sect, buf, args, rbuff, br>>

ReadSameCluster == /\ pc = "read" /\ ofs > 0 /\ fptr % SS = 0 /\ Csect # 0
                   /\ pc' = "sector"
                   /\ UNCHANGED <<Kept, window, fil, args, out>>

\* What is left of the sector that is in buf.
ReadPart == /\ pc = "read" /\ ofs > 0 /\ fptr % SS # 0
            /\ Copy(buf, Least(ofs, SS - (fptr % SS)))
            /\ UNCHANGED <<Kept, window, obj, err, clust, sect, buf, pc, call, part, res>>

\* Whole sectors go straight to the program, to the end of the cluster.
ReadWhole ==
    LET first == Clst2Sect(clust) + Csect
        cc == Least(ofs \div SS, Geo.csize - Csect)
    IN
    /\ pc = "sector" /\ Clst2Sect(clust) # 0 /\ cc > 0
    /\ \E ok \in BOOLEAN :
          /\ DiskRead(ok)
          /\ IF ok
             THEN /\ rbuff' = [i \in DOMAIN rbuff |->
                                  IF i \in br..(br + cc * SS - 1)
                                  THEN <<<<media, first + (i - br) \div SS>>, (i - br) % SS>>
                                  ELSE rbuff[i]]
                  /\ br' = br + cc * SS /\ fptr' = fptr + cc * SS /\ ofs' = ofs - cc * SS
                  /\ pc' = "read" /\ UNCHANGED <<err, res>>
             ELSE /\ Abort
                  /\ rbuff' = [i \in DOMAIN rbuff |-> IF i < br THEN rbuff[i] ELSE None]
                  /\ UNCHANGED <<br, fptr, ofs>>
    /\ UNCHANGED <<Kept, window, obj, clust, sect, buf, call, part>>

\* Less than a sector is wanted: it is read into buf, unless it is there.
ReadSector ==
    LET s == Clst2Sect(clust) + Csect IN
    /\ pc = "sector" /\ Clst2Sect(clust) # 0 /\ ofs < SS
    /\ IF sect = s THEN Copy(buf, ofs) /\ pc' = "read" /\ UNCHANGED <<sect, buf, err, res>>
       ELSE \E ok \in BOOLEAN :
               /\ DiskRead(ok)
               /\ buf' = IF ok THEN <<media, s>> ELSE None
               /\ IF ok THEN /\ sect' = s /\ Copy(buf', ofs)
                             /\ pc' = "read" /\ UNCHANGED <<err, res>>
                  ELSE Abort /\ UNCHANGED <<sect, rbuff, br, fptr, ofs>>
    /\ UNCHANGED <<Kept, window, obj, clust, call, part>>

NoSector == /\ pc = "sector" /\ Clst2Sect(clust) = 0
            /\ Abort
            /\ UNCHANGED <<Kept, window, obj, fptr, clust, sect, buf, args, rbuff, br>>

-----------------------------------------------------------------------------
(* f_lseek *)

\* A position beyond the end of the file is its end.
Clip(n) == Least(n, obj.objsize)

BugOnward(n) == fptr > 0 /\ n \div Bcs >= fptr \div Bcs
\* The position sought is in the current cluster or after it.
Onward(n) == fptr > 0 /\ (n - 1) \div Bcs >= (fptr - 1) \div Bcs

\* Where there is no cluster to begin with, the position stays at 0.
Seek(n) ==
    LET to == Clip(n)
        from == IF to > 0 /\ Onward(to) THEN ((fptr - 1) \div Bcs) * Bcs ELSE 0
    IN
    /\ pc = "idle" /\ Usable
    /\ pc' = "seek" /\ call' = "seek"
    /\ clust' = IF to > 0 /\ ~Onward(to) THEN obj.sclust ELSE clust
    /\ fptr' = from /\ ofs' = IF clust' = 0 THEN 0 ELSE to - from
    /\ NewBuffer
    /\ UNCHANGED <<Kept, window, obj, err, sect, buf, part, res>>

SeekFollow == /\ pc = "seek" /\ ofs > Bcs
              /\ ofs' = ofs - Bcs /\ fptr' = fptr + Bcs
              /\ \E c \in Clusters :
                    /\ GetFat(clust, c)
                    /\ IF c \in 2..(Geo.n_fatent - 1)
                       THEN clust' = c /\ UNCHANGED <<pc, err, res>>
                       ELSE Abort /\ UNCHANGED clust
              /\ UNCHANGED <<Kept, obj, sect, buf, call, part, rbuff, br>>

\* The sector of a position within one is put in buf.
SeekEnd ==
    LET nsect == IF ofs % SS = 0 THEN 0 ELSE Clst2Sect(clust) + ofs \div SS IN
    /\ pc = "seek" /\ ofs <= Bcs
    /\ IF ofs % SS # 0 /\ Clst2Sect(clust) = 0 THEN Abort /\ UNCHANGED <<sect, buf>>
       ELSE IF ofs % SS = 0 \/ nsect = sect THEN Return("ok") /\ UNCHANGED <<err, sect, buf>>
       ELSE \E ok \in BOOLEAN :
               /\ DiskRead(ok)
               /\ buf' = IF ok THEN <<media, nsect>> ELSE None
               /\ IF ok THEN sect' = nsect /\ Return("ok") /\ UNCHANGED err
                  ELSE Abort /\ UNCHANGED sect
    /\ fptr' = fptr + ofs /\ ofs' = 0
    /\ UNCHANGED <<Kept, window, obj, clust, call, part, rbuff, br>>

-----------------------------------------------------------------------------

\* The menu's first call is f_mount.
Init == /\ slot \in Cards \cup {NoCard} /\ media = NoCard /\ ready = FALSE /\ Stat = 1
        /\ fs_type = 0 /\ id = 0 /\ vol = None
        /\ winsect = 0 /\ win = None
        /\ obj = [fs |-> FALSE, id |-> 0, sclust |-> 0, objsize |-> 0]
        /\ err = FALSE /\ fptr = 0 /\ clust = 0 /\ sect = 0 /\ buf = None
        /\ pc = "init" /\ call = "mount" /\ part = 1
        /\ ofs = 0
        /\ rbuff = [i \in 0..(MaxRead - 1) |-> None] /\ br = 0 /\ res = "ok"

Step == \/ Initialize \/ Boot \/ Scan \/ FollowPath
        \/ ReadDone \/ ReadCluster \/ ReadSameCluster \/ ReadPart
        \/ ReadWhole \/ ReadSector \/ NoSector
        \/ SeekFollow \/ SeekEnd

Program == \/ (id < MaxMounts) /\ (Mount \/ Open)
           \/ Refused
           \/ \E n \in 0..MaxRead : Read(n)
           \/ \E n \in 0..MaxSeek : Seek(n)

\* The card is pulled out, or one is pushed in.
User == /\ \/ slot # NoCard /\ slot' = NoCard
           \/ slot = NoCard /\ slot' \in Cards
        /\ ready' = FALSE
        /\ UNCHANGED <<media, Stat, fs, window, fil, pc, args, out>>

Next == Step \/ Program \/ User

Spec == Init /\ [][Next]_vars /\ WF_vars(Step)

-----------------------------------------------------------------------------
(* Properties *)

Content == Cards \X Nat

\* Numbers are naturals, contents are sectors of cards.
TypeOK ==
    /\ slot \in Cards \cup {NoCard} /\ media \in Cards \cup {NoCard}
    /\ ready \in BOOLEAN /\ Stat \in 0..1
    /\ fs_type \in 0..1 /\ id \in Nat /\ vol \in Volumes \cup {None}
    /\ winsect \in Nat \cup {Invalid} /\ win \in Content \cup {None}
    /\ obj \in [fs : BOOLEAN, id : Nat, sclust : Nat, objsize : Nat]
    /\ err \in BOOLEAN /\ fptr \in Nat /\ clust \in Nat /\ sect \in Nat
    /\ buf \in Content \cup {None}
    /\ pc \in {"idle", "init", "boot", "scan", "path", "read", "sector", "seek"}
    /\ call \in {"mount", "open", "read", "seek"} /\ part \in 1..4
    /\ ofs \in Nat
    /\ br \in 0..MaxRead /\ res \in {"ok", "error"}

\* The object was opened on the volume that is mounted, and is not spoiled.
Opened == obj.fs /\ fs_type # 0 /\ obj.id = id /\ ~err

\* While a volume is mounted, or looked for in a partition table, the window
\* holds the sector it says of the card that was initialised for it, or says
\* that it holds none: whatever reads failed and whatever cards were pushed in.
WindowTrue == fs_type # 0 \/ pc = "scan" =>
                 /\ winsect # Invalid => win = <<media, winsect>>
                 /\ fs_type # 0 => vol[1] = media

\* A file that is not spoiled has the sector it says in its own buffer.
BufferTrue == Opened /\ sect # 0 => buf = <<media, sect>>

\* Neither buffer is ever taken for a sector it does not hold.
CachesTrue == TypeOK /\ WindowTrue /\ BufferTrue

\* The current cluster of a file is the one its chain has at that place: the
\* cluster of the last byte before its position or, while f_lseek counts its
\* way and when f_read has followed the chain, of the byte after it.
ClusterTrue ==
    Opened /\ (fptr > 0 \/ pc = "sector") =>
        LET next == IF pc \in {"seek", "sector"} THEN fptr ELSE fptr - 1 IN
        clust = Chain[vol][next \div Bcs]

\* Bytes of a file, where its chain is intact.
FileByte(v, i) ==
    LET g == Geometry[v]
        c == Chain[v][i \div (g.csize * SS)]
    IN <<<<v[1], g.database + g.csize * (c - 2) + ((i \div SS) % g.csize)>>, i % SS>>

\* Those of one without a cluster are none, whatever size its entry gives.
FileSize(v) == IF Entry[v].sclust = 0 THEN 0 ELSE Entry[v].objsize

F == INSTANCE ByteFile WITH
        Size <- [v \in Volumes |-> FileSize(v)], Byte <- FileByte,
        file <- IF Opened THEN vol ELSE None,
        pos <- IF ~Opened THEN 0 ELSE IF pc = "seek" THEN fptr + ofs ELSE fptr,
        op <- IF pc = "idle" THEN pc
              ELSE IF pc \in {"read", "sector"} THEN "read"
              ELSE IF pc = "seek" THEN pc ELSE "other",
        goal <- IF pc \in {"read", "sector", "seek"} /\ obj.sclust # 0 THEN fptr + ofs ELSE 0

\* What the program reads is the file it opened, from where it asked, or an
\* error: never another card's bytes, a stale sector's or a wrong cluster's.
ReadsTheFile == F!Spec

\* Every call returns, on any card and any chain, even one that is a loop.
CallsEnd == pc # "idle" ~> pc = "idle"
=============================================================================
