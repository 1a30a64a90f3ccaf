------------------------------- MODULE Loader -------------------------------
(***************************************************************************)
(* The SD loader, ROMs/loader/src: main, which updates the core in the     *)
(* flash or loads BIOS and multicart, and the reader of FAT volumes it     *)
(* does it with (fat.c).                                                   *)
(*                                                                         *)
(* A step searches one sector of the root directory, follows one link,     *)
(* reads a block, programs a page or erases 64K.  A sector is its address; *)
(* what it holds follows from the card.  The initialisation of the card    *)
(* and its commands are steps that succeed or fail; the checks of the boot *)
(* sectors are told apart by where they end.  Operators named Bug... are   *)
(* wrong forms of what follows them.                                       *)
(***************************************************************************)
EXTENDS Integers, Sequences

CONSTANTS
    Cards,          \* volumes: start, fat32, root, dirs, next; see Volume
    ClusterSize,    \* cluster_size: sectors
    PerTable,       \* links in a sector of the table, 128 or 256
    End,            \* a link that ends a chain
    AnyLink,        \* links that bytes of something else can be taken for
    Blocks,         \* sectors that are loaded: 928 of the core, 16, 32
    EraseBlocks, BlockPages,    \* 8, and 256 pages in 64K
    MaxFails, MaxResets         \* bounds: reads that fail; resets

Jobs == {"core", "bios", "mult"}

\* What a directory holds: in each sector some entries, those in use and others.
\* The chain of a file are its clusters, in order.
Entry == [kind : {"file", "folder", "free"}, name : STRING, cluster : Nat, size : Nat, chain : Seq(Nat)]
Directory == Seq(Seq(Entry))

\* The files of the name j in the root directory of volume v.
Named(v, j) ==
    LET d == v.dirs[v.root] IN
    {e \in UNION {{d[i][k] : k \in DOMAIN d[i]} : i \in DOMAIN d} : e.kind = "file" /\ e.name = j}

\* A volume as it is formatted and written: its boot sector is the first of the
\* card or that of the first partition, or no check accepts it; the root is a
\* directory, which has a name once; the links lead along the chain of a file,
\* which has a cluster for each of its sectors.
Volume(v) ==
    /\ v.start \in {"first", "partition", "none"}
    /\ v.fat32 \in BOOLEAN /\ v.root \in DOMAIN v.dirs
    /\ v.root \in Nat
    /\ v.fat32 => v.root \in DOMAIN v.next
    /\ \A c \in DOMAIN v.dirs : v.dirs[c] \in Directory
    /\ DOMAIN v.next \subseteq Nat /\ \A c \in DOMAIN v.next : v.next[c] \in Nat
    /\ \A j \in Jobs : \A e \in Named(v, j) :
          /\ \A f \in Named(v, j) : e = f
          /\ e.size > 0 => e.chain # <<>> /\ e.chain[1] = e.cluster
          /\ e.size <= ClusterSize * Len(e.chain)
          /\ \A i \in DOMAIN e.chain :
                /\ e.chain[i] \in DOMAIN v.next
                /\ i < Len(e.chain) => v.next[e.chain[i]] = e.chain[i + 1]

ASSUME LoaderAssumption ==
    /\ {ClusterSize, PerTable, End, EraseBlocks, BlockPages} \subseteq Nat \ {0}
    /\ \A v \in Cards : Volume(v)
    /\ Blocks \in [Jobs -> Nat \ {0}]
    /\ 2 * Blocks["core"] <= EraseBlocks * BlockPages
    /\ AnyLink \subseteq Nat /\ End \in AnyLink
    /\ MaxFails \in Nat /\ MaxResets \in Nat

VARIABLES
    card,           \* the card in the slot
    pc,             \* where main is; a message, when it has stopped with one
    job,            \* the file that is opened or read
    dir,            \* iDirectoryCluster, and the sector of it that is next
    file,           \* its cluster and sector
    buffer, index,  \* sector_buffer and buffered_fat_index
    n,              \* i, i16: blocks done
    mem,            \* what was read, in order
    flash,
    fails, resets,
    lost            \* history: a sector of the table could not be read

reader == <<dir, file, buffer, index>>
vars == <<card, pc, job, reader, n, mem, flash, fails, resets, lost>>

None == -1
Boot == <<"boot">>
Pages == 0..(EraseBlocks * BlockPages - 1)

CardFails == fails < MaxFails /\ fails' = fails + 1
Messages == {"SD_INI_ERR", "NO_SD_PART", "NO_BIOS", "NO_MULT", "BAD_MULT",
             "READ_ERR", "ERR_BIOS", "ERR_MULT"}
Final == Messages \cup {"frozen", "cart", "started"}

-----------------------------------------------------------------------------
(* The table of clusters *)

\* What the link of a cluster is: the first two say that the table has ended.
Links(c) == IF c \in DOMAIN card.next THEN {card.next[c]}
            ELSE IF c < 2 THEN {End} ELSE AnyLink

\* GetCluster returns l.  The sector in the buffer is taken for one of the table
\* if the index says so; 0 is returned if it cannot be read.
GetCluster(c, l) ==
    LET sb == c \div PerTable IN
    \/ /\ sb = index
       /\ l \in IF buffer = <<"table", sb>> THEN Links(c) ELSE AnyLink
       /\ UNCHANGED <<buffer, index, fails, lost>>
    \/ /\ sb # index
       /\ buffer' = <<"table", sb>> /\ index' = sb
       /\ l \in Links(c)
       /\ UNCHANGED <<fails, lost>>
    \/ /\ sb # index
       /\ CardFails /\ l = 0 /\ lost' = TRUE
       /\ UNCHANGED <<buffer, index>>

-----------------------------------------------------------------------------
(* FileOpen *)

Sectors(c) == IF c \in DOMAIN card.dirs THEN Len(card.dirs[c]) ELSE ClusterSize

\* Nothing but a directory is supposed to hold an entry of a name that is sought.
Entries(b) == IF b[1] = "dir" /\ b[2] \in DOMAIN card.dirs THEN card.dirs[b[2]][b[3]] ELSE <<>>

BugMatches(e, j) == e.name = j
\* Not free, not a volume or directory, and of that name.
Matches(e, j) == e.kind = "file" /\ e.name = j

BugOpen(j) == /\ pc' = "search" /\ job' = j
              /\ UNCHANGED index
              /\ dir' = [cluster |-> card.root, sector |-> 1]
Open(j) == /\ pc' = "search" /\ job' = j
           /\ index' = None
           /\ dir' = [cluster |-> card.root, sector |-> 1]

Failed == [core |-> "READ_ERR", bios |-> "ERR_BIOS", mult |-> "ERR_MULT"]

\* The file is found, and main goes on.
Found(e) == /\ file' = [cluster |-> e.cluster, sector |-> 0]
            /\ n' = 0
            /\ pc' = IF job = "core" THEN "erase"
                     ELSE IF job = "mult" /\ e.size # Blocks["mult"] THEN "BAD_MULT"
                     ELSE "load"

\* If the sector cannot be read, the one before is searched again.
Search == /\ pc = "search" /\ dir.sector <= Sectors(dir.cluster)
          /\ \/ buffer' = <<"dir", dir.cluster, dir.sector>> /\ UNCHANGED fails
             \/ CardFails /\ UNCHANGED buffer
          /\ dir' = [dir EXCEPT !.sector = @ + 1]
          /\ LET entries == Entries(buffer')
                 hits == {i \in DOMAIN entries : Matches(entries[i], job)}
             IN \/ hits = {} /\ UNCHANGED <<pc, file, n>>
                \/ \E i \in hits : (\A j \in hits : i <= j) /\ Found(entries[i])
          /\ UNCHANGED <<card, job, index, mem, flash, resets, lost>>

BugIsLast(l) == FALSE
IsLast(l) == l = End

\* The directory is searched to the end of a cluster; that of FAT16 has no other.
NextCluster ==
    /\ pc = "search" /\ dir.sector > Sectors(dir.cluster)
    /\ IF card.fat32
       THEN \E l \in Links(dir.cluster) \cup AnyLink \cup {0} :
               /\ GetCluster(dir.cluster, l)
               /\ IF IsLast(l) THEN pc' = "missed" /\ UNCHANGED dir
                  ELSE dir' = [cluster |-> l, sector |-> 1] /\ UNCHANGED pc
       ELSE pc' = "missed" /\ UNCHANGED <<dir, buffer, index, fails, lost>>
    /\ UNCHANGED <<card, job, file, n, mem, flash, resets>>

-----------------------------------------------------------------------------
(* FileRead *)

More == n < Blocks[job]

Sector == [cluster |-> file.cluster, sector |-> file.sector % ClusterSize]

\* The link after the last sector of a cluster is read at once; a 0 for one that
\* cannot be read is kept.
Advance ==
    LET next == file.sector + 1 IN
    IF next % ClusterSize # 0
    THEN file' = [file EXCEPT !.sector = next] /\ UNCHANGED <<buffer, index, fails, lost>>
    ELSE \E l \in Links(file.cluster) \cup AnyLink \cup {0} :
            /\ GetCluster(file.cluster, l)
            /\ file' = [cluster |-> l, sector |-> next]

\* The core is read into one place, the others go on in memory.
Read == /\ pc = "load" /\ More
        /\ \/ /\ mem' = [mem EXCEPT ![job] = IF job = "core" THEN <<Sector>> ELSE Append(@, Sector)]
              /\ Advance
              /\ n' = n + 1
              /\ pc' = IF job = "core" THEN "program" ELSE pc
           \/ /\ CardFails /\ pc' = Failed[job]
              /\ UNCHANGED <<mem, file, buffer, index, n, lost>>
        /\ UNCHANGED <<card, job, dir, flash, resets>>

-----------------------------------------------------------------------------
(* main *)

Rest == UNCHANGED <<card, file, buffer, n, mem, flash, resets, lost>>

\* A cartridge is started at once on one of the machines.
Start == /\ pc = "start" /\ pc' \in {"cart", "init"}
         /\ UNCHANGED <<job, dir, index, fails>> /\ Rest

InitCard == /\ pc = "init"
            /\ \/ pc' = "drive" /\ UNCHANGED fails
               \/ CardFails /\ pc' = "SD_INI_ERR"
            /\ UNCHANGED <<job, dir, index>> /\ Rest

NoDrive == pc' = "NO_SD_PART" /\ UNCHANGED <<job, dir>>
OpenCore == Open("core") /\ UNCHANGED fails

\* The first sector is read.  It is the volume's, or leads to a partition, or is
\* neither.
FindDrive == /\ pc = "drive"
             /\ buffer' = Boot /\ index' = None
             /\ \/ card.start = "first" /\ OpenCore
                \/ card.start # "first" /\ pc' = "volume" /\ UNCHANGED <<job, dir, fails>>
                \/ card.start = "none" /\ NoDrive /\ UNCHANGED fails
                \/ CardFails /\ NoDrive
             /\ UNCHANGED <<card, file, n, mem, flash, resets, lost>>

\* That of the partition is read.
FindVolume == /\ pc = "volume"
              /\ buffer' = Boot
              /\ \/ card.start = "partition" /\ OpenCore
                 \/ card.start = "none" /\ NoDrive /\ UNCHANGED <<index, fails>>
                 \/ CardFails /\ NoDrive /\ UNCHANGED index
              /\ UNCHANGED <<card, file, n, mem, flash, resets, lost>>

Missed == /\ pc = "missed"
          /\ IF job = "core" THEN Open("bios")
             ELSE /\ pc' = IF job = "bios" THEN "NO_BIOS" ELSE "NO_MULT"
                  /\ UNCHANGED <<job, dir, index>>
          /\ UNCHANGED fails /\ Rest

BugErases(i, p) == p < BlockPages
Erases(i, p) == p \div BlockPages = i

Erase == /\ pc = "erase"
         /\ flash' = [p \in Pages |-> IF Erases(n, p) THEN <<"erased">> ELSE flash[p]]
         /\ IF n + 1 = EraseBlocks THEN n' = 0 /\ pc' = "load" ELSE n' = n + 1 /\ UNCHANGED pc
         /\ UNCHANGED <<card, job, reader, mem, fails, resets, lost>>

\* The pages of the block that was read.
Page == 2 * (n - 1) + (IF pc = "second" THEN 1 ELSE 0)

\* Programming clears bits only.
Program == /\ pc \in {"program", "second"}
           /\ pc' = IF pc = "program" THEN "second" ELSE "load"
           /\ flash' = [p \in Pages |->
                          IF p # Page THEN flash[p]
                          ELSE IF flash[p] = <<"erased">> THEN <<mem["core"][1], p % 2>>
                          ELSE <<"mixed">>]
           /\ UNCHANGED <<card, job, reader, n, mem, fails, resets, lost>>

\* All is loaded.  A cartridge goes before the multicart.
Loaded == /\ pc = "load" /\ ~More
          /\ \/ job = "bios" /\ Open("mult")
             \/ /\ pc' = [core |-> "frozen", bios |-> "cart", mult |-> "started"][job]
                /\ UNCHANGED <<job, dir, index>>
          /\ UNCHANGED fails /\ Rest

NoFile == [cluster |-> 0, sector |-> 0]
NoMem == [j \in Jobs |-> <<>>]

\* The machine is reset or loses its power.  The variables are set by crt0 or
\* before they are read, so that what they held is of no use; the flash stays,
\* and the card may be another.
Reset == /\ resets < MaxResets /\ resets' = resets + 1
         /\ card' \in Cards
         /\ pc' = "start" /\ job' = "core" /\ n' = 0
         /\ dir' = NoFile /\ file' = NoFile /\ buffer' = Boot /\ index' = None
         /\ mem' = NoMem /\ lost' = FALSE
         /\ UNCHANGED <<flash, fails>>

-----------------------------------------------------------------------------

Init == /\ card \in Cards
        /\ pc = "start" /\ job = "core" /\ n = 0
        /\ dir = NoFile /\ file = NoFile /\ buffer = Boot /\ index = None
        /\ mem = NoMem /\ lost = FALSE
        /\ flash = [p \in Pages |-> <<"old">>]
        /\ fails = 0 /\ resets = 0

Step == \/ Start \/ InitCard \/ FindDrive \/ FindVolume \/ Search \/ NextCluster \/ Missed
        \/ Read \/ Erase \/ Program \/ Loaded

Next == Step \/ Reset

Spec == Init /\ [][Next]_vars /\ WF_vars(Step)

-----------------------------------------------------------------------------
(* Properties *)

\* No more is read than there is room for: a BIOS would run into the loader's own
\* variables, and the core into what was not erased.
TypeOK ==
    /\ pc \in {"start", "init", "drive", "volume", "search", "missed", "erase", "load",
               "program", "second"} \cup Final
    /\ job \in Jobs /\ n \in Nat
    /\ pc = "erase" => n < EraseBlocks
    /\ pc \in {"load", "program", "second"} => n <= Blocks[job]
    /\ DOMAIN flash = Pages /\ \A j \in Jobs : Len(mem[j]) <= Blocks[j]
    /\ lost \in BOOLEAN /\ fails \in 0..MaxFails /\ resets \in 0..MaxResets
    /\ index \in Nat \cup {None}

\* GetCluster takes a sector of the directory for one of the table when the root
\* has a second cluster; what follows is about the others.
OneCluster == card.fat32 => card.next[card.root] = End

Has(j) == Named(card, j) # {}
FileOf(j) == CHOOSE e \in Named(card, j) : TRUE

\* Its sector k, along the chain.
SectorOf(j, k) == [cluster |-> FileOf(j).chain[(k \div ClusterSize) + 1], sector |-> k % ClusterSize]

IsFile(j) == Has(j) /\ \A k \in 1..FileOf(j).size : k <= Blocks[j] =>
                            k <= Len(mem[j]) /\ mem[j][k] = SectorOf(j, k - 1)

\* When OK is shown the flash holds the file of the core, page by page, and
\* nothing of the core before it, whatever an update that was cut short has left.
UpdatesWhole ==
    pc = "frozen" /\ OneCluster /\ ~lost =>
        /\ Has("core")
        /\ \A p \in Pages :
              IF p >= 2 * Blocks["core"] THEN flash[p] = <<"erased">>
              ELSE p < 2 * FileOf("core").size => flash[p] = <<SectorOf("core", p \div 2), p % 2>>

\* What is started has been read whole, each sector in its place.
StartsWhole ==
    /\ TypeOK
    /\ OneCluster /\ ~lost =>
        /\ pc = "started" => IsFile("bios") /\ IsFile("mult")
        /\ pc = "cart" /\ job = "bios" => IsFile("bios")

\* The flash is touched only for a core that is on the card; without failures
\* a file is missed, or refused, only when it should be.
OpensRight ==
    OneCluster /\ ~lost =>
        /\ pc \in {"erase", "program", "second"} => Has("core")
        /\ pc = "BAD_MULT" => FileOf("mult").size # Blocks["mult"]
        /\ fails = 0 => /\ job # "core" => ~Has("core")
                        /\ pc = "NO_BIOS" => ~Has("bios")
                        /\ pc = "NO_MULT" => ~Has("mult")

\* The loader comes to an end: it starts something, or says why not.
Ends == OneCluster /\ pc = "start" ~> pc \in Final \/ ~OneCluster
=============================================================================
