--------------------------- MODULE Loader_proofs ---------------------------
(***************************************************************************)
(* The SD loader, for every card that is a volume, every size of cluster,  *)
(* of core, BIOS, multicart and flash, and any number of failures and      *)
(* resets: what is programmed or started is the file, sector by sector.    *)
(***************************************************************************)
EXTENDS Loader, TLAPS

Place == [cluster : Nat, sector : Nat]

\* What a buffer can hold.
IsBuffer(b) ==
    \/ b[1] \in {"boot", "table"}
    \/ \E c, s \in Nat : s \in 1..Sectors(c) /\ b = <<"dir", c, s>>

Typed ==
    /\ TypeOK /\ card \in Cards
    /\ dir \in Place /\ file \in Place /\ IsBuffer(buffer)
    /\ mem \in [Jobs -> Seq(Place)]

\* The files come one after the other, and each is read from its start.
Stages ==
    /\ pc \in {"start", "init", "drive", "volume", "erase", "program", "second", "frozen"} => job = "core"
    /\ pc = "started" => job = "mult"
    /\ pc = "search" => dir.sector > 0
    /\ Len(mem["core"]) <= 1
    /\ job = "core" => mem["bios"] = <<>>
    /\ job \in {"core", "bios"} => mem["mult"] = <<>>
    /\ pc \in {"search", "missed"} /\ job # "core" => mem[job] = <<>>
    /\ pc = "load" /\ job # "core" => Len(mem[job]) = n
    /\ pc \in {"program", "second"} => n > 0 /\ mem["core"] # <<>>

\* The cases the properties are about.
Good == OneCluster /\ ~lost

RootDir == card.dirs[card.root]

\* The index says what the buffer holds, unless it is a sector of the root.
ReaderOK ==
    /\ index # None => buffer = <<"table", index>>
    /\ pc \in {"start", "init", "drive", "volume", "search"} => index = None
    /\ pc = "search" => dir.cluster = card.root
    /\ buffer[1] = "dir" => buffer[2] = card.root

Hit(i, j) == \E k \in DOMAIN RootDir[i] : Matches(RootDir[i][k], j)

\* Where nothing failed, what was searched holds no such file.
SearchOK ==
    fails = 0 =>
      /\ pc = "search" => \A i \in DOMAIN RootDir : i < dir.sector => ~Hit(i, job)
      /\ pc = "missed" => ~Has(job)
      /\ job # "core" => ~Has("core")
      /\ pc = "NO_BIOS" => ~Has("bios")
      /\ pc = "NO_MULT" => ~Has("mult")

\* The cluster of sector k, as long as there is one.
ClusterAt(k) == k < FileOf(job).size => file.cluster = FileOf(job).chain[(k \div ClusterSize) + 1]

\* The reader is in the chain of the file where it should be.
PlaceOK ==
    /\ pc \in {"erase", "load", "program", "second"} => Has(job)
    /\ pc = "erase" => file.sector = 0 /\ ClusterAt(0)
    /\ pc \in {"load", "program", "second"} => file.sector = n /\ ClusterAt(n)
    /\ pc = "BAD_MULT" => FileOf("mult").size # Blocks["mult"]

\* The first k sectors of a file are in memory.
Holds(j, k) == \A i \in 1..k : i <= FileOf(j).size => mem[j][i] = SectorOf(j, i - 1)

MemOK ==
    /\ pc = "load" /\ job # "core" => Holds(job, n)
    /\ pc \in {"program", "second"} /\ n <= FileOf("core").size => mem["core"][1] = SectorOf("core", n - 1)
    /\ job = "mult" => IsFile("bios")
    /\ pc = "cart" /\ job = "bios" => IsFile("bios")
    /\ pc = "started" => IsFile("mult")

\* The pages of the core that are in the flash.
Done == IF pc = "program" THEN 2 * n - 2 ELSE IF pc = "second" THEN 2 * n - 1 ELSE 2 * n

FlashOK ==
    /\ pc = "erase" => \A p \in Pages : p \div BlockPages < n => flash[p] = <<"erased">>
    /\ job = "core" /\ pc \in {"load", "program", "second", "frozen"} =>
          \A p \in Pages :
             IF p < Done
             THEN p \div 2 < FileOf("core").size => flash[p] = <<SectorOf("core", p \div 2), p % 2>>
             ELSE flash[p] = <<"erased">>
    /\ pc = "frozen" => n = Blocks["core"] /\ Has("core")

GoodInv == ReaderOK /\ SearchOK /\ PlaceOK /\ MemOK /\ FlashOK

\* The inductive invariant.
IInv == Typed /\ Stages /\ (Good => GoodInv)

-----------------------------------------------------------------------------
(* Arithmetic *)

\* Division rounds down, and the remainder is less than the divisor.
LEMMA DivMod ==
    ASSUME NEW a \in Nat, NEW b \in Nat \ {0}
    PROVE  /\ a = b * (a \div b) + (a % b)
           /\ a \div b \in Nat /\ a % b \in 0..(b - 1)
BY SMT

\* Quotient and remainder are what a number is made of.
LEMMA DivUnique ==
    ASSUME NEW b \in Nat \ {0}, NEW q \in Nat, NEW r \in 0..(b - 1)
    PROVE  (b * q + r) \div b = q /\ (b * q + r) % b = r
BY SMT

\* The sector after k is of the same cluster, or the first of the next.
LEMMA NextSector ==
    ASSUME NEW k \in Nat, NEW b \in Nat \ {0}
    PROVE  /\ (k + 1) % b # 0 => (k + 1) \div b = k \div b
           /\ (k + 1) % b = 0 => (k + 1) \div b = (k \div b) + 1
<1> DEFINE q == k \div b
           r == k % b
<1>1. k = b * q + r /\ q \in Nat /\ r \in 0..(b - 1)
  BY DivMod
<1>. HIDE DEF q, r
<1>2. CASE r + 1 < b
  <2>1. k + 1 = b * q + (r + 1) /\ r + 1 \in 0..(b - 1)
    BY <1>1, <1>2
  <2>2. (k + 1) \div b = q /\ (k + 1) % b = r + 1
    BY <1>1, <2>1, DivUnique
  <2>. QED BY <1>1, <2>2 DEF q
<1>3. CASE r + 1 = b
  <2>1. b * (q + 1) = b * q + b
    BY <1>1
  <2>2. k + 1 = b * (q + 1) + 0 /\ 0 \in 0..(b - 1) /\ q + 1 \in Nat
    BY <1>1, <1>3, <2>1
  <2>3. (b * (q + 1) + 0) \div b = q + 1 /\ (b * (q + 1) + 0) % b = 0
    BY <2>2, DivUnique
  <2>4. (k + 1) \div b = q + 1 /\ (k + 1) % b = 0
    BY <2>2, <2>3
  <2>. QED BY <2>4 DEF q
<1>. QED BY <1>1, <1>2, <1>3

\* What is below m times b is in one of m parts.
LEMMA LessDiv ==
    ASSUME NEW a \in Nat, NEW b \in Nat \ {0}, NEW m \in Nat, a < b * m
    PROVE  a \div b \in Nat /\ a \div b < m
<1> DEFINE q == a \div b
           r == a % b
<1>1. a = b * q + r /\ q \in Nat /\ r \in 0..(b - 1)
  BY DivMod
<1>. HIDE DEF q, r
<1>2. ASSUME m <= q PROVE FALSE
  <2>1. PICK d \in Nat : q = m + d
    <3>1. q - m \in Nat /\ q = m + (q - m)
      BY <1>1, <1>2
    <3>. QED BY <3>1
  <2>2. b * (m + d) = b * m + b * d /\ b * d \in Nat /\ b * m \in Nat
    BY <1>1, <2>1
  <2>. QED BY <1>1, <2>1, <2>2
<1>. QED BY <1>1, <1>2 DEF q

\* Every page is in a block that can be erased.
LEMMA PageBlock ==
    ASSUME NEW p \in Pages
    PROVE  p \in Nat /\ p \div BlockPages \in Nat /\ p \div BlockPages < EraseBlocks
<1>1. EraseBlocks \in Nat \ {0} /\ BlockPages \in Nat \ {0}
  BY LoaderAssumption
<1>2. EraseBlocks * BlockPages \in Nat /\ EraseBlocks * BlockPages = BlockPages * EraseBlocks
  BY <1>1
<1>3. p \in Nat /\ p < BlockPages * EraseBlocks
  BY <1>2 DEF Pages
<1>. QED BY <1>1, <1>3, LessDiv

-----------------------------------------------------------------------------
(* The card *)

\* What a volume is made of.
LEMMA CardIs ==
    ASSUME card \in Cards
    PROVE  /\ card.root \in Nat /\ card.root \in DOMAIN card.dirs
           /\ card.fat32 \in BOOLEAN
           /\ card.fat32 => card.root \in DOMAIN card.next
           /\ \A c \in DOMAIN card.dirs : card.dirs[c] \in Directory
           /\ RootDir \in Directory
           /\ DOMAIN card.next \subseteq Nat
           /\ \A c \in DOMAIN card.next : card.next[c] \in Nat
<1>1. Volume(card)
  BY LoaderAssumption
<1>. QED BY <1>1 DEF Volume, RootDir

\* An entry of a directory.
LEMMA EntryIs ==
    ASSUME NEW d \in Directory, NEW i \in DOMAIN d, NEW k \in DOMAIN d[i]
    PROVE  d[i][k] \in Entry
<1>1. d[i] \in Seq(Entry)
  BY DEF Directory
<1>. QED BY <1>1

\* What a file of the name j is.
LEMMA FileIs ==
    ASSUME card \in Cards, NEW j \in Jobs, Has(j)
    PROVE  LET e == FileOf(j) IN
           /\ e \in Named(card, j) /\ e \in Entry
           /\ \A f \in Named(card, j) : f = e
           /\ e.size > 0 => e.chain # <<>> /\ e.chain[1] = e.cluster
           /\ e.size <= ClusterSize * Len(e.chain)
           /\ \A i \in DOMAIN e.chain :
                 /\ e.chain[i] \in DOMAIN card.next
                 /\ i < Len(e.chain) => card.next[e.chain[i]] = e.chain[i + 1]
<1> DEFINE e == FileOf(j)
<1>1. e \in Named(card, j)
  BY DEF Has, FileOf
<1>2. e \in Entry
  <2>1. PICK i \in DOMAIN RootDir : \E k \in DOMAIN RootDir[i] : e = RootDir[i][k]
    BY <1>1 DEF Named, RootDir
  <2>2. PICK k \in DOMAIN RootDir[i] : e = RootDir[i][k]
    BY <2>1
  <2>. QED BY <2>2, EntryIs, CardIs
<1>3. \A f, g \in Named(card, j) : f = g
  BY LoaderAssumption DEF Volume
<1>. HIDE DEF e
<1>. QED BY <1>1, <1>2, <1>3, LoaderAssumption DEF Volume, e

\* An entry that matches is the file of that name.
LEMMA HitIs ==
    ASSUME card \in Cards, NEW j \in Jobs,
           NEW i \in DOMAIN RootDir, NEW k \in DOMAIN RootDir[i], Matches(RootDir[i][k], j)
    PROVE  Has(j) /\ RootDir[i][k] = FileOf(j)
<1>1. RootDir[i][k] \in Named(card, j)
  BY DEF Named, RootDir, Matches
<1>. QED BY <1>1, FileIs DEF Has

\* A file that is there is found somewhere.
LEMMA SomeHit ==
    ASSUME card \in Cards, NEW j \in Jobs, Has(j)
    PROVE  \E i \in DOMAIN RootDir : Hit(i, j)
BY DEF Has, Named, RootDir, Hit, Matches

\* What the sector of k is, by the chain.
LEMMA LinkIs ==
    ASSUME card \in Cards, NEW j \in Jobs, Has(j), NEW k \in Nat, k + 1 < FileOf(j).size
    PROVE  LET q == (k \div ClusterSize) + 1 IN
           /\ FileOf(j).chain[q] \in DOMAIN card.next
           /\ (k + 1) % ClusterSize = 0 =>
                 card.next[FileOf(j).chain[q]] = FileOf(j).chain[((k + 1) \div ClusterSize) + 1]
           /\ (k + 1) % ClusterSize # 0 => (k + 1) \div ClusterSize = k \div ClusterSize
<1> DEFINE e == FileOf(j)
           m == Len(e.chain)
           q == k \div ClusterSize
           q1 == (k + 1) \div ClusterSize
           r1 == (k + 1) % ClusterSize
<1>0. ClusterSize \in Nat \ {0}
  BY LoaderAssumption
<1>1. /\ e.chain \in Seq(Nat) /\ e.size \in Nat /\ e.size <= ClusterSize * m
      /\ \A i \in DOMAIN e.chain :
            /\ e.chain[i] \in DOMAIN card.next
            /\ i < Len(e.chain) => card.next[e.chain[i]] = e.chain[i + 1]
  BY FileIs DEF Entry
<1>2. m \in Nat /\ DOMAIN e.chain = 1..m
  BY <1>1
<1>3. k + 1 < ClusterSize * m /\ k + 1 \in Nat
  <2>1. ClusterSize * m \in Nat
    BY <1>0, <1>2
  <2>. HIDE DEF m
  <2>. QED BY <1>1, <2>1
<1>. HIDE DEF m
<1>6. q1 \in Nat /\ q1 < m
  BY <1>0, <1>2, <1>3, LessDiv
<1>4. q \in Nat /\ (r1 # 0 => q1 = q) /\ (r1 = 0 => q1 = q + 1)
  BY <1>0, DivMod, NextSector
<1>. HIDE DEF q, q1, r1
<1>7. q + 1 \in DOMAIN e.chain
  BY <1>2, <1>4, <1>6
<1>8. r1 = 0 => q + 1 < m
  BY <1>2, <1>4, <1>6
<1>9. e.chain[q + 1] \in DOMAIN card.next
  BY <1>1, <1>7
<1>10. r1 = 0 => card.next[e.chain[q + 1]] = e.chain[q1 + 1]
  BY <1>1, <1>4, <1>7, <1>8 DEF m
<1>. QED BY <1>4, <1>9, <1>10 DEF q, q1, r1

-----------------------------------------------------------------------------
(* Types *)

\* The constants.
LEMMA Constants ==
    /\ ClusterSize \in Nat \ {0} /\ PerTable \in Nat \ {0} /\ End \in Nat \ {0}
    /\ EraseBlocks \in Nat \ {0} /\ BlockPages \in Nat \ {0}
    /\ AnyLink \subseteq Nat /\ MaxFails \in Nat /\ MaxResets \in Nat
    /\ \A j \in Jobs : Blocks[j] \in Nat /\ Blocks[j] > 0
    /\ "core" \in Jobs /\ "bios" \in Jobs /\ "mult" \in Jobs
BY LoaderAssumption DEF Jobs

\* What following a link leaves, and what the link is where nothing is lost.
Linked(c, l) ==
    /\ l \in Nat /\ (buffer' = buffer \/ buffer'[1] = "table")
    /\ index' \in Nat \cup {None} /\ fails' \in 0..MaxFails /\ lost' \in BOOLEAN
    /\ fails' # fails => fails' > 0
    /\ lost => lost'
    /\ ~lost' /\ (index # None => buffer = <<"table", index>>) =>
          /\ l \in Links(c) /\ fails' = fails
          /\ index' # None /\ buffer' = <<"table", index'>>

LEMMA LinkStep ==
    ASSUME Typed, NEW c \in Nat, NEW l \in Links(c) \cup AnyLink \cup {0}, GetCluster(c, l)
    PROVE  Linked(c, l)
<1> DEFINE sb == c \div PerTable
<1>1. sb \in Nat
  BY Constants, DivMod
<1>2. /\ index \in Nat \cup {None} /\ fails \in 0..MaxFails /\ lost \in BOOLEAN
      /\ MaxFails \in Nat
  BY Constants DEF Typed, TypeOK
<1>3. l \in Nat
  <2>1. Links(c) \subseteq Nat
    BY CardIs, Constants DEF Links, Typed
  <2>2. AnyLink \subseteq Nat /\ 0 \in Nat
    BY Constants
  <2>. QED BY <2>1, <2>2
<1>. HIDE DEF sb
<1>4. CASE /\ sb = index
           /\ l \in IF buffer = <<"table", sb>> THEN Links(c) ELSE AnyLink
           /\ UNCHANGED <<buffer, index, fails, lost>>
  BY <1>1, <1>2, <1>3, <1>4 DEF Linked, None
<1>5. CASE /\ sb # index
           /\ buffer' = <<"table", sb>> /\ index' = sb
           /\ l \in Links(c)
           /\ UNCHANGED <<fails, lost>>
  BY <1>1, <1>2, <1>3, <1>5 DEF Linked, None
<1>6. CASE /\ sb # index
           /\ CardFails /\ l = 0 /\ lost' = TRUE
           /\ UNCHANGED <<buffer, index>>
  <2>1. fails' \in 0..MaxFails /\ fails' > 0
    BY <1>2, <1>6 DEF CardFails
  <2>2. lost' \in BOOLEAN /\ lost'
    BY <1>6, Zenon
  <2>. QED BY <1>2, <1>3, <1>6, <2>1, <2>2 DEF Linked
<1>. QED BY <1>4, <1>5, <1>6 DEF GetCluster, sb

\* A call of the card that fails is counted.
LEMMA FailStep ==
    ASSUME Typed, CardFails
    PROVE  fails' \in 0..MaxFails /\ fails' > 0
BY Constants DEF Typed, TypeOK, CardFails

\* What the buffer holds stays so with the card, and may be replaced.
LEMMA BufferKept ==
    ASSUME Typed, card' = card, buffer' = buffer \/ buffer' = Boot \/ buffer'[1] = "table"
    PROVE  IsBuffer(buffer)'
<1>1. ASSUME NEW c \in Nat PROVE Sectors(c)' = Sectors(c)
  BY DEF Sectors
<1>2. CASE buffer' = Boot \/ buffer'[1] = "table"
  BY <1>2 DEF IsBuffer, Boot
<1>3. CASE buffer' = buffer
  <2>1. CASE buffer[1] \in {"boot", "table"}
    BY <1>3, <2>1 DEF IsBuffer
  <2>2. CASE \E c, s \in Nat : s \in 1..Sectors(c) /\ buffer = <<"dir", c, s>>
    <3>1. PICK c \in Nat, s \in Nat : s \in 1..Sectors(c) /\ buffer = <<"dir", c, s>>
      BY <2>2
    <3>2. s \in 1..Sectors(c)' /\ buffer' = <<"dir", c, s>>
      BY <1>1, <1>3, <3>1
    <3>. QED BY <3>2 DEF IsBuffer
  <2>. QED BY <2>1, <2>2 DEF Typed, IsBuffer
<1>. QED BY <1>2, <1>3

\* The first state has the types and the order.
LEMMA TypedInit == Init => Typed /\ Stages
<1>1. SUFFICES ASSUME Init PROVE Typed /\ Stages
  OBVIOUS
<1>2. mem["core"] = <<>> /\ mem["bios"] = <<>> /\ mem["mult"] = <<>> /\ mem \in [Jobs -> Seq(Place)]
  BY <1>1 DEF Init, NoMem, Jobs
<1>3. \A j \in Jobs : Len(mem[j]) <= Blocks[j]
  BY <1>2, Constants DEF Jobs
<1>4. lost \in BOOLEAN
  BY <1>1, Zenon DEF Init
<1>5. IsBuffer(buffer)
  BY <1>1 DEF Init, IsBuffer, Boot
<1>. QED BY <1>1, <1>2, <1>3, <1>4, <1>5, Constants DEF Init, Typed, TypeOK, Stages, NoFile, Place

\* A reset sets all but the flash and the bounds.
LEMMA ResetTyped ==
    ASSUME Typed, Reset
    PROVE  Typed' /\ Stages'
<1>1. mem' = NoMem /\ lost' = FALSE /\ pc' = "start" /\ job' = "core" /\ n' = 0
  BY DEF Reset
<1>2. mem'["core"] = <<>> /\ mem'["bios"] = <<>> /\ mem'["mult"] = <<>> /\ mem' \in [Jobs -> Seq(Place)]
  BY <1>1 DEF NoMem, Jobs
<1>3. \A j \in Jobs : Len(mem'[j]) <= Blocks[j]
  BY <1>2, Constants DEF Jobs
<1>4. lost' \in BOOLEAN
  BY <1>1, Zenon
<1>5. resets' \in 0..MaxResets
  BY Constants DEF Reset, Typed, TypeOK
<1>6. IsBuffer(buffer)'
  BY DEF Reset, IsBuffer, Boot
<1>. QED BY <1>1, <1>2, <1>3, <1>4, <1>5, <1>6, Constants DEF Reset, Typed, TypeOK, Stages, NoFile, Place

\* Where main opens a file, nothing of it has been read.
LEMMA OpenTyped ==
    ASSUME Typed, Stages, NEW j \in Jobs, Open(j), mem' = mem, n' = n, lost' = lost, flash' = flash, card' = card,
           file' = file, resets' = resets, buffer' \in {buffer, Boot}, fails' \in 0..MaxFails,
           j # "core" => mem[j] = <<>>, j \in {"core", "bios"} => mem["mult"] = <<>>,
           j = "core" => mem["bios"] = <<>>
    PROVE  Typed' /\ Stages'
<1>1. card.root \in Nat
  BY CardIs DEF Typed
<1>2. dir' \in Place /\ dir'.sector > 0
  BY <1>1 DEF Open, Place
<1>3. IsBuffer(buffer)'
  BY BufferKept
<1>. QED BY <1>2, <1>3 DEF Typed, TypeOK, Stages, Open, Place

\* So it is where there is no volume.
LEMMA DriveFails ==
    ASSUME Typed, Stages, pc \in {"drive", "volume"}, NoDrive, UNCHANGED fails \/ CardFails,
           index' \in Nat \cup {None}, IsBuffer(buffer)',
           UNCHANGED <<card, file, n, mem, flash, resets, lost>>
    PROVE  Typed' /\ Stages'
<1>1. fails' \in 0..MaxFails
  BY FailStep DEF Typed, TypeOK
<1>. QED BY <1>1 DEF NoDrive, Typed, TypeOK, Stages, Final, Messages

\* The steps of main that read nothing keep the types.
LEMMA MainTyped ==
    ASSUME Typed, Stages, Start \/ InitCard \/ FindDrive \/ FindVolume \/ Missed \/ Loaded
    PROVE  Typed' /\ Stages'
<1>0. IsBuffer(buffer)'
  BY BufferKept DEF Start, InitCard, FindDrive, FindVolume, Missed, Loaded, Rest
<1>1. CASE Start
  BY <1>0, <1>1 DEF Typed, TypeOK, Stages, Start, Rest, Final, Messages
<1>2. CASE InitCard
  <2>1. fails' \in 0..MaxFails
    BY <1>2, FailStep DEF InitCard, Typed, TypeOK
  <2>. QED BY <1>0, <1>2, <2>1 DEF Typed, TypeOK, Stages, InitCard, Rest, Final, Messages
<1>3. CASE FindDrive
  <2>1. CASE OpenCore
    BY <1>3, <2>1, OpenTyped, Constants DEF FindDrive, OpenCore, Stages, Typed, TypeOK
  <2>2. CASE pc' = "volume" /\ UNCHANGED <<job, dir, fails>>
    BY <1>0, <1>3, <2>2 DEF Typed, TypeOK, Stages, FindDrive
  <2>3. CASE NoDrive /\ (UNCHANGED fails \/ CardFails)
    BY <1>0, <1>3, <2>3, DriveFails DEF FindDrive
  <2>. QED BY <1>3, <2>1, <2>2, <2>3 DEF FindDrive
<1>6. CASE FindVolume
  <2>1. CASE OpenCore
    BY <1>6, <2>1, OpenTyped, Constants DEF FindVolume, OpenCore, Stages, Typed, TypeOK
  <2>2. CASE NoDrive /\ UNCHANGED index /\ (UNCHANGED fails \/ CardFails)
    BY <1>0, <1>6, <2>2, DriveFails DEF FindVolume, Typed, TypeOK
  <2>. QED BY <1>6, <2>1, <2>2 DEF FindVolume
<1>4. CASE Missed
  <2>1. CASE job = "core"
    BY <1>4, <2>1, OpenTyped, Constants DEF Missed, Rest, Stages, Typed, TypeOK
  <2>2. CASE job # "core"
    BY <1>0, <1>4, <2>2 DEF Typed, TypeOK, Stages, Missed, Rest, Final, Messages
  <2>. QED BY <2>1, <2>2
<1>5. CASE Loaded
  <2>1. CASE job = "bios" /\ Open("mult")
    BY <1>5, <2>1, OpenTyped, Constants DEF Loaded, Rest, Stages, Typed, TypeOK
  <2>2. CASE pc' = [core |-> "frozen", bios |-> "cart", mult |-> "started"][job] /\ UNCHANGED <<job, dir, index>>
    <3>1. job \in Jobs
      BY DEF Typed, TypeOK
    <3>2. \/ job = "core" /\ pc' = "frozen"
          \/ job = "bios" /\ pc' = "cart"
          \/ job = "mult" /\ pc' = "started"
      BY <2>2, <3>1 DEF Jobs
    <3>. QED BY <1>0, <1>5, <2>2, <3>2 DEF Typed, TypeOK, Stages, Loaded, Rest, Final, Messages
  <2>. QED BY <1>5, <2>1, <2>2 DEF Loaded
<1>. QED BY <1>1, <1>2, <1>3, <1>4, <1>5, <1>6

\* A file that is found is read from its start.
LEMMA FoundTyped ==
    ASSUME Typed, NEW e \in Entry, Found(e)
    PROVE  /\ file' = [cluster |-> e.cluster, sector |-> 0] /\ file' \in Place /\ n' = 0
           /\ pc' \in {"erase", "load", "BAD_MULT"}
           /\ pc' = "erase" <=> job = "core"
           /\ pc' = "BAD_MULT" <=> job = "mult" /\ e.size # Blocks["mult"]
BY DEF Found, Entry, Place

\* A sector of a directory in the buffer holds entries.
LEMMA EntriesAre ==
    ASSUME card \in Cards, NEW b, IsBuffer(b)
    PROVE  Entries(b) \in Seq(Entry)
<1>1. CASE b[1] \in {"boot", "table"}
  BY <1>1 DEF Entries
<1>2. ASSUME NEW c \in Nat, NEW s \in Nat, s \in 1..Sectors(c), b = <<"dir", c, s>>
      PROVE  Entries(b) \in Seq(Entry)
  <2>1. CASE c \in DOMAIN card.dirs
    <3>1. card.dirs[c] \in Seq(Seq(Entry))
      BY <2>1, CardIs DEF Directory
    <3>. QED BY <1>2, <2>1, <3>1 DEF Entries, Sectors
  <2>2. CASE c \notin DOMAIN card.dirs
    BY <1>2, <2>2 DEF Entries
  <2>. QED BY <2>1, <2>2
<1>. QED BY <1>1, <1>2 DEF IsBuffer

\* A search of a sector keeps the types.
LEMMA SearchTyped ==
    ASSUME Typed, Stages, Search
    PROVE  Typed' /\ Stages'
<1> DEFINE entries == Entries(buffer')
<1>1. UNCHANGED <<card, job, index, mem, flash, resets, lost>>
  BY DEF Search
<1>2. dir' = [dir EXCEPT !.sector = @ + 1] /\ dir \in Place /\ pc = "search"
  BY DEF Search, Typed
<1>3. dir' \in Place /\ dir'.sector > 0
  BY <1>2 DEF Place
<1>4. IsBuffer(buffer') /\ fails' \in 0..MaxFails
  <2>1. CASE buffer' = <<"dir", dir.cluster, dir.sector>> /\ UNCHANGED fails
    <3>1. dir.cluster \in Nat /\ dir.sector \in Nat
      BY <1>2 DEF Place
    <3>2. Sectors(dir.cluster) \in Nat
      BY <3>1, CardIs, Constants DEF Sectors, Directory, Typed
    <3>3. dir.sector \in 1..Sectors(dir.cluster)
      BY <1>2, <3>1, <3>2 DEF Search, Stages
    <3>. QED BY <2>1, <3>1, <3>3 DEF IsBuffer, Typed, TypeOK
  <2>2. CASE CardFails /\ UNCHANGED buffer
    BY <2>2, FailStep DEF Typed
  <2>. QED BY <2>1, <2>2 DEF Search
<1>5. IsBuffer(buffer)'
  BY <1>1, <1>4 DEF IsBuffer, Sectors
<1>6. CASE UNCHANGED <<pc, file, n>>
  BY <1>1, <1>2, <1>3, <1>4, <1>5, <1>6 DEF Typed, TypeOK, Stages
<1>7. ASSUME NEW i \in DOMAIN entries, Found(entries[i])
      PROVE  Typed' /\ Stages'
  <2>1. entries[i] \in Entry
    BY <1>4, EntriesAre DEF Typed
  <2>2. /\ file' \in Place /\ n' = 0 /\ pc' \in {"erase", "load", "BAD_MULT"}
        /\ pc' = "erase" <=> job = "core"
    BY <1>7, <2>1, FoundTyped
  <2>3. pc' = "load" /\ job # "core" => mem[job] = <<>>
    BY <1>2 DEF Stages
  <2>4. Typed'
    BY <1>1, <1>3, <1>4, <1>5, <2>2, Constants DEF Typed, TypeOK, Final, Messages
  <2>. QED BY <1>1, <1>2, <2>2, <2>3, <2>4 DEF Typed, TypeOK, Stages
<1>. QED BY <1>6, <1>7 DEF Search

\* So does the end of a cluster of the directory.
LEMMA NextClusterTyped ==
    ASSUME Typed, Stages, NextCluster
    PROVE  Typed' /\ Stages'
<1>1. UNCHANGED <<card, job, file, n, mem, flash, resets>> /\ pc = "search"
  BY DEF NextCluster
<1>2. ASSUME NEW l \in Links(dir.cluster) \cup AnyLink \cup {0}, GetCluster(dir.cluster, l),
             \/ pc' = "missed" /\ UNCHANGED dir
             \/ dir' = [cluster |-> l, sector |-> 1] /\ UNCHANGED pc
      PROVE  Typed' /\ Stages'
  <2>1. dir.cluster \in Nat
    BY DEF Typed, Place
  <2>2. Linked(dir.cluster, l)
    BY <1>2, <2>1, LinkStep
  <2>3. IsBuffer(buffer)'
    BY <1>1, <2>2, BufferKept DEF Linked
  <2>. QED BY <1>1, <1>2, <2>2, <2>3 DEF Linked, Typed, TypeOK, Stages, Place
<1>3. CASE pc' = "missed" /\ UNCHANGED <<dir, buffer, index, fails, lost>>
  <2>1. IsBuffer(buffer)'
    BY <1>1, <1>3, BufferKept
  <2>. QED BY <1>1, <1>3, <2>1 DEF Typed, TypeOK, Stages
<1>. QED BY <1>2, <1>3 DEF NextCluster

\* A sector that is read is the next of the file, whose place it moves on.
LEMMA AdvanceTyped ==
    ASSUME Typed, Advance
    PROVE  /\ file' \in Place /\ (buffer' = buffer \/ buffer'[1] = "table")
           /\ index' \in Nat \cup {None} /\ fails' \in 0..MaxFails /\ lost' \in BOOLEAN
<1>1. file \in Place /\ file.cluster \in Nat /\ file.sector + 1 \in Nat
  BY DEF Typed, Place
<1>2. CASE file' = [file EXCEPT !.sector = file.sector + 1] /\ UNCHANGED <<buffer, index, fails, lost>>
  BY <1>1, <1>2 DEF Typed, TypeOK, Place
<1>3. ASSUME NEW l \in Links(file.cluster) \cup AnyLink \cup {0}, GetCluster(file.cluster, l),
             file' = [cluster |-> l, sector |-> file.sector + 1]
      PROVE  /\ file' \in Place /\ (buffer' = buffer \/ buffer'[1] = "table")
             /\ index' \in Nat \cup {None} /\ fails' \in 0..MaxFails /\ lost' \in BOOLEAN
  BY <1>1, <1>3, LinkStep DEF Linked, Place
<1>. QED BY <1>2, <1>3 DEF Advance

\* The sector that is read next.
LEMMA SectorIs ==
    ASSUME Typed
    PROVE  Sector \in Place
<1>1. file.cluster \in Nat /\ file.sector \in Nat
  BY DEF Typed, Place
<1>2. file.sector % ClusterSize \in Nat
  BY <1>1, Constants, DivMod
<1>. QED BY <1>1, <1>2 DEF Sector, Place

\* A sector is read only where there is room for it.
LEMMA ReadTyped ==
    ASSUME Typed, Stages, Read
    PROVE  Typed' /\ Stages'
<1>1. UNCHANGED <<card, job, dir, flash, resets>> /\ pc = "load" /\ job \in Jobs /\ n \in Nat /\ n < Blocks[job]
  BY DEF Read, More, Typed, TypeOK
<1>2. CASE /\ mem' = [mem EXCEPT ![job] = IF job = "core" THEN <<Sector>> ELSE Append(@, Sector)]
           /\ Advance
           /\ n' = n + 1
           /\ pc' = IF job = "core" THEN "program" ELSE pc
  <2>1. /\ file' \in Place /\ (buffer' = buffer \/ buffer'[1] = "table")
        /\ index' \in Nat \cup {None} /\ fails' \in 0..MaxFails /\ lost' \in BOOLEAN
    BY <1>2, AdvanceTyped
  <2>2. IsBuffer(buffer)'
    BY <1>1, <2>1, BufferKept
  <2>3. mem \in [Jobs -> Seq(Place)] /\ Sector \in Place
    BY SectorIs DEF Typed
  <2>4. mem' \in [Jobs -> Seq(Place)] /\ \A j \in Jobs : j # job => mem'[j] = mem[j]
    BY <1>1, <1>2, <2>3
  <2>5. n' \in Nat /\ n' <= Blocks[job]
    BY <1>1, <1>2, Constants
  <2>6. CASE job = "core"
    <3>1. mem'["core"] = <<Sector>> /\ Len(mem'["core"]) = 1
      BY <1>1, <1>2, <2>3, <2>6
    <3>2. ASSUME NEW j \in Jobs PROVE Len(mem'[j]) <= Blocks[j]
      <4>1. CASE j = "core"
        <5>1. Blocks["core"] \in Nat /\ Blocks["core"] > 0
          BY Constants
        <5>2. Len(mem'[j]) = 1
          BY <3>1, <4>1
        <5>. QED BY <4>1, <5>1, <5>2
      <4>2. CASE j # "core"
        BY <2>4, <2>6, <4>2 DEF Typed, TypeOK
      <4>. QED BY <4>1, <4>2
    <3>3. Typed'
      BY <1>1, <1>2, <2>1, <2>2, <2>4, <2>5, <2>6, <3>2 DEF Typed, TypeOK
    <3>. QED BY <1>1, <1>2, <2>4, <2>6, <3>1, <3>3, Constants DEF Stages
  <2>7. CASE job # "core"
    <3>1. mem'[job] = Append(mem[job], Sector) /\ Len(mem[job]) = n
      BY <1>1, <1>2, <2>3, <2>7 DEF Stages
    <3>2. Len(mem'[job]) = n'
      BY <1>1, <1>2, <2>3, <3>1
    <3>3. \A j \in Jobs : Len(mem'[j]) <= Blocks[j]
      BY <2>4, <2>5, <3>2 DEF Typed, TypeOK
    <3>4. Typed'
      BY <1>1, <1>2, <2>1, <2>2, <2>4, <2>5, <2>7, <3>3 DEF Typed, TypeOK
    <3>. QED BY <1>1, <1>2, <2>4, <2>7, <3>2, <3>4, Constants DEF Stages
  <2>. QED BY <2>6, <2>7
<1>3. CASE CardFails /\ pc' = Failed[job] /\ UNCHANGED <<mem, file, buffer, index, n, lost>>
  <2>1. pc' \in {"READ_ERR", "ERR_BIOS", "ERR_MULT"}
    BY <1>1, <1>3 DEF Failed, Jobs
  <2>2. IsBuffer(buffer)'
    BY <1>1, <1>3, BufferKept
  <2>3. Typed'
    BY <1>1, <1>3, <2>1, <2>2, FailStep DEF Typed, TypeOK, Final, Messages
  <2>. QED BY <1>1, <1>3, <2>1, <2>3 DEF Stages
<1>. QED BY <1>2, <1>3 DEF Read

\* A block is erased as long as there is one.
LEMMA EraseTyped ==
    ASSUME Typed, Stages, Erase
    PROVE  Typed' /\ Stages'
<1>1. UNCHANGED <<card, job, dir, file, buffer, index, mem, fails, resets, lost>> /\ pc = "erase" /\ DOMAIN flash' = Pages
  BY DEF Erase, reader
<1>2. IsBuffer(buffer)'
  BY <1>1, BufferKept
<1>3. n \in Nat /\ n < EraseBlocks /\ job = "core" /\ job \in Jobs
  BY <1>1 DEF Typed, TypeOK, Stages
<1>4. CASE n' = 0 /\ pc' = "load"
  BY <1>1, <1>2, <1>3, <1>4, Constants DEF Typed, TypeOK, Stages
<1>5. CASE n + 1 # EraseBlocks /\ n' = n + 1 /\ UNCHANGED pc
  <2>1. n' \in Nat /\ n' < EraseBlocks
    BY <1>3, <1>5, Constants
  <2>. QED BY <1>1, <1>2, <1>3, <1>5, <2>1 DEF Typed, TypeOK, Stages
<1>. QED BY <1>4, <1>5 DEF Erase

\* Programming changes the flash and nothing else.
LEMMA ProgramTyped ==
    ASSUME Typed, Stages, Program
    PROVE  Typed' /\ Stages'
<1>1. /\ UNCHANGED <<card, job, dir, file, buffer, index, n, mem, fails, resets, lost>>
      /\ pc \in {"program", "second"} /\ pc' \in {"second", "load"} /\ DOMAIN flash' = Pages
  BY DEF Program, reader
<1>2. IsBuffer(buffer)'
  BY <1>1, BufferKept
<1>. QED BY <1>1, <1>2 DEF Typed, TypeOK, Stages

\* Every step keeps the types, and the order of the files.
LEMMA TypedStep ==
    ASSUME Typed, Stages, [Next]_vars
    PROVE  Typed' /\ Stages'
<1>1. CASE UNCHANGED vars
  <2>1. /\ UNCHANGED <<card, pc, job, dir, file, buffer, index, n, mem, flash, fails, resets, lost>>
    BY <1>1 DEF vars, reader
  <2>2. IsBuffer(buffer)'
    BY <2>1, BufferKept
  <2>. QED BY <2>1, <2>2 DEF Typed, TypeOK, Stages
<1>2. CASE Next
  BY <1>2, ResetTyped, MainTyped, SearchTyped, NextClusterTyped, ReadTyped, EraseTyped, ProgramTyped DEF Next, Step
<1>. QED BY <1>1, <1>2

-----------------------------------------------------------------------------
(* What is read is the file *)

\* With the card stays all that follows from it.
LEMMA CardKept ==
    ASSUME card' = card
    PROVE  /\ OneCluster' = OneCluster /\ RootDir' = RootDir
           /\ \A j \in Jobs : Has(j)' = Has(j) /\ FileOf(j)' = FileOf(j)
           /\ \A j \in Jobs : \A k \in Int : SectorOf(j, k)' = SectorOf(j, k)
           /\ \A i \in Int : \A j \in Jobs : Hit(i, j)' = Hit(i, j)
BY DEF OneCluster, RootDir, Has, FileOf, SectorOf, Hit

\* A file stays in memory.
LEMMA FileKept ==
    ASSUME card' = card, NEW j \in Jobs, mem'[j] = mem[j]
    PROVE  IsFile(j)' = IsFile(j)
BY DEF IsFile, Has, FileOf, SectorOf

\* Without a reset, what was lost stays lost.
LEMMA GoodWas ==
    ASSUME card' = card, lost => lost', Good'
    PROVE  Good
BY CardKept DEF Good

\* Where main opens a file, its search starts at the first sector of the root.
LEMMA OpenGood ==
    ASSUME Typed, Stages, GoodInv, NEW j \in Jobs, Open(j), card' = card, mem' = mem,
           buffer' \in {buffer, Boot},
           j = "mult" => IsFile("bios"),
           fails' = 0 /\ j # "core" => ~Has("core")
    PROVE  GoodInv'
<1>1. pc' = "search" /\ job' = j /\ index' = None /\ dir' = [cluster |-> card.root, sector |-> 1]
  BY DEF Open
<1>2. ReaderOK'
  BY <1>1 DEF ReaderOK, GoodInv, Boot
<1>3. SearchOK'
  <2>1. DOMAIN RootDir' \subseteq Nat \ {0}
    BY CardIs, CardKept DEF Directory, Typed
  <2>2. \A i \in DOMAIN RootDir' : ~(i < dir'.sector)
    BY <1>1, <2>1
  <2>. QED BY <1>1, <2>2, CardKept, Constants DEF SearchOK
<1>4. PlaceOK' /\ FlashOK'
  BY <1>1 DEF PlaceOK, FlashOK
<1>5. MemOK'
  BY <1>1, FileKept, Constants DEF MemOK
<1>. QED BY <1>2, <1>3, <1>4, <1>5 DEF GoodInv

\* The steps of main that read nothing: what they go on from is complete.
LEMMA MainGood ==
    ASSUME Typed, Stages, Good => GoodInv, Good', Start \/ InitCard \/ FindDrive \/ FindVolume \/ Missed \/ Loaded
    PROVE  GoodInv'
<1>1. card' = card /\ mem' = mem /\ lost' = lost /\ n' = n /\ file' = file /\ flash' = flash
  BY DEF Start, InitCard, FindDrive, FindVolume, Missed, Loaded, Rest
<1>2. GoodInv
  BY <1>1, GoodWas
<1>3. CASE Start
  <2>1. job' = "core" /\ index' = index /\ buffer' = buffer /\ pc' \in {"cart", "init"} /\ pc = "start"
    BY <1>3 DEF Start, Rest, Stages
  <2>2. ReaderOK'
    BY <1>1, <1>2, <2>1 DEF GoodInv, ReaderOK
  <2>. QED BY <2>1, <2>2 DEF GoodInv, SearchOK, PlaceOK, MemOK, FlashOK
<1>4. CASE InitCard
  <2>1. job' = "core" /\ index' = index /\ buffer' = buffer /\ pc' \in {"drive", "SD_INI_ERR"} /\ pc = "init"
    BY <1>4 DEF InitCard, Rest, Stages
  <2>2. ReaderOK'
    BY <1>1, <1>2, <2>1 DEF GoodInv, ReaderOK
  <2>. QED BY <2>1, <2>2 DEF GoodInv, SearchOK, PlaceOK, MemOK, FlashOK
<1>5. CASE FindDrive
  <2>1. CASE OpenCore
    BY <1>1, <1>2, <1>5, <2>1, OpenGood, Constants DEF FindDrive, OpenCore
  <2>2. CASE pc' \in {"volume", "NO_SD_PART"} /\ job' = job
    <3>1. job' = "core" /\ buffer' = Boot /\ index' = None
      BY <1>5, <2>2 DEF FindDrive, Stages
    <3>2. ReaderOK'
      BY <2>2, <3>1 DEF ReaderOK, Boot
    <3>. QED BY <2>2, <3>1, <3>2 DEF GoodInv, SearchOK, PlaceOK, MemOK, FlashOK
  <2>. QED BY <1>5, <2>1, <2>2 DEF FindDrive, NoDrive
<1>8. CASE FindVolume
  <2>1. CASE OpenCore
    BY <1>1, <1>2, <1>8, <2>1, OpenGood, Constants DEF FindVolume, OpenCore
  <2>2. CASE NoDrive /\ UNCHANGED index
    <3>1. job' = "core" /\ buffer' = Boot /\ index' = None /\ pc' = "NO_SD_PART"
      BY <1>2, <1>8, <2>2 DEF FindVolume, NoDrive, Stages, GoodInv, ReaderOK
    <3>2. ReaderOK'
      BY <3>1 DEF ReaderOK, Boot
    <3>. QED BY <3>1, <3>2 DEF GoodInv, SearchOK, PlaceOK, MemOK, FlashOK
  <2>. QED BY <1>8, <2>1, <2>2 DEF FindVolume
<1>6. CASE Missed
  <2>1. fails' = fails /\ buffer' = buffer /\ (fails = 0 => ~Has(job)) /\ job \in Jobs /\ pc = "missed"
    BY <1>2, <1>6 DEF Missed, Rest, GoodInv, SearchOK, Typed, TypeOK
  <2>2. CASE job = "core"
    BY <1>1, <1>2, <1>6, <2>1, <2>2, OpenGood, Constants DEF Missed
  <2>3. CASE job # "core"
    <3>1. /\ UNCHANGED <<job, dir, index>>
          /\ pc' = IF job = "bios" THEN "NO_BIOS" ELSE "NO_MULT"
      BY <1>6, <2>3 DEF Missed
    <3>2. ReaderOK'
      BY <1>1, <1>2, <2>1, <3>1 DEF GoodInv, ReaderOK
    <3>3. SearchOK'
      BY <1>1, <1>2, <2>1, <2>3, <3>1, CardKept, Constants DEF GoodInv, SearchOK, Jobs
    <3>4. MemOK'
      BY <1>1, <1>2, <3>1, FileKept, Constants DEF GoodInv, MemOK
    <3>. QED BY <2>3, <3>1, <3>2, <3>3, <3>4 DEF GoodInv, PlaceOK, FlashOK
  <2>. QED BY <2>2, <2>3
<1>7. CASE Loaded
  <2>1. /\ fails' = fails /\ buffer' = buffer /\ job \in Jobs /\ pc = "load"
        /\ n \in Nat /\ ~(n < Blocks[job]) /\ n <= Blocks[job] /\ Blocks[job] \in Nat
    BY <1>7, Constants DEF Loaded, Rest, Typed, TypeOK, More
  <2>2. n = Blocks[job]
    BY <2>1
  <2>3. Has(job) /\ (job # "core" => Holds(job, n) /\ Len(mem[job]) = n)
    BY <1>2, <2>1 DEF GoodInv, PlaceOK, MemOK, Stages
  <2>4. job # "core" => IsFile(job)
    <3>1. FileOf(job).size \in Nat
      BY <2>1, <2>3, FileIs DEF Typed, Entry
    <3>. QED BY <2>1, <2>2, <2>3, <3>1 DEF IsFile, Holds
  <2>5. fails = 0 /\ job # "core" => ~Has("core")
    BY <1>2 DEF GoodInv, SearchOK
  <2>6. CASE job = "bios" /\ Open("mult")
    BY <1>1, <1>2, <2>1, <2>4, <2>5, <2>6, OpenGood, Constants
  <2>7. CASE /\ pc' = [core |-> "frozen", bios |-> "cart", mult |-> "started"][job]
             /\ UNCHANGED <<job, dir, index>>
    <3>1. \/ job = "core" /\ pc' = "frozen"
          \/ job = "bios" /\ pc' = "cart"
          \/ job = "mult" /\ pc' = "started"
      BY <2>1, <2>7 DEF Jobs
    <3>2. ReaderOK'
      BY <1>1, <1>2, <2>1, <2>7, <3>1 DEF GoodInv, ReaderOK
    <3>3. SearchOK'
      BY <1>1, <1>2, <2>1, <2>7, <3>1, CardKept, Constants DEF GoodInv, SearchOK
    <3>4. IsFile("bios")' = IsFile("bios") /\ IsFile("mult")' = IsFile("mult")
      BY <1>1, FileKept, Constants
    <3>5. MemOK'
      BY <1>1, <1>2, <2>4, <2>7, <3>1, <3>4 DEF GoodInv, MemOK
    <3>6. FlashOK'
      <4>1. CASE job = "core"
        <5>1. Done' = Done
          BY <1>1, <2>1, <3>1 DEF Done
        <5>. QED BY <1>1, <1>2, <2>1, <2>2, <2>3, <2>7, <3>1, <4>1, <5>1, CardKept, Constants DEF GoodInv, FlashOK, Pages
      <4>2. CASE job # "core"
        BY <2>7, <3>1, <4>2 DEF FlashOK
      <4>. QED BY <4>1, <4>2
    <3>. QED BY <3>1, <3>2, <3>3, <3>5, <3>6 DEF GoodInv, PlaceOK
  <2>. QED BY <1>7, <2>6, <2>7 DEF Loaded
<1>. QED BY <1>3, <1>4, <1>5, <1>6, <1>7, <1>8

\* A sector of the root in the buffer is searched as it is, any other has nothing.
LEMMA RootEntries ==
    ASSUME card \in Cards, NEW b, IsBuffer(b), b[1] = "dir" => b[2] = card.root,
           NEW i \in DOMAIN Entries(b)
    PROVE  \E s \in DOMAIN RootDir : Entries(b) = RootDir[s] /\ i \in DOMAIN RootDir[s]
<1>1. b[1] \notin {"boot", "table"}
  BY DEF Entries
<1>2. PICK c \in Nat, s \in Nat : s \in 1..Sectors(c) /\ b = <<"dir", c, s>>
  BY <1>1 DEF IsBuffer
<1>3. c = card.root /\ c \in DOMAIN card.dirs /\ RootDir \in Directory
  BY <1>2, CardIs
<1>4. s \in DOMAIN RootDir
  BY <1>2, <1>3 DEF Sectors, RootDir, Directory
<1>5. Entries(b) = RootDir[s]
  BY <1>2, <1>3 DEF Entries, RootDir
<1>. QED BY <1>4, <1>5

\* The search of a sector finds the file, or shows that it is not there.
LEMMA SearchGood ==
    ASSUME Typed, Stages, Good => GoodInv, Good', Search
    PROVE  GoodInv'
<1> DEFINE entries == Entries(buffer')
<1>1. UNCHANGED <<card, job, index, mem, flash, resets, lost>> /\ pc = "search" /\ job \in Jobs /\ card \in Cards
  BY DEF Search, Typed, TypeOK
<1>2. GoodInv
  BY <1>1, GoodWas
<1>3. /\ index = None /\ dir.cluster = card.root /\ dir.sector \in Nat
      /\ dir'.cluster = card.root /\ dir'.sector = dir.sector + 1
  BY <1>1, <1>2 DEF Search, GoodInv, ReaderOK, Typed, Place
<1>4. buffer'[1] = "dir" => buffer'[2] = card.root
  BY <1>2, <1>3 DEF Search, GoodInv, ReaderOK
<1>5. IsBuffer(buffer')
  <2>1. IsBuffer(buffer)'
    BY SearchTyped DEF Typed
  <2>. QED BY <1>1, <2>1 DEF IsBuffer, Sectors
<1>6. ReaderOK'
  BY <1>1, <1>3, <1>4 DEF ReaderOK
<1>7. /\ job # "core" /\ fails' = 0 => ~Has("core")'
      /\ job = "mult" => IsFile("bios")'
      /\ fails' = 0 => fails = 0
  <2>1. fails' = 0 => fails = 0
    BY FailStep DEF Search
  <2>. QED BY <1>1, <1>2, <2>1, CardKept, FileKept, Constants DEF GoodInv, SearchOK, MemOK
<1>8. CASE {i \in DOMAIN entries : Matches(entries[i], job)} = {} /\ UNCHANGED <<pc, file, n>>
  <2>1. ASSUME fails' = 0, NEW i \in DOMAIN RootDir, i < dir.sector + 1 PROVE ~Hit(i, job)
    <3>1. i \in Nat
      BY <1>1, CardIs DEF Directory
    <3>2. CASE i < dir.sector
      BY <1>1, <1>2, <1>7, <2>1, <3>2 DEF GoodInv, SearchOK
    <3>3. CASE i = dir.sector
      <4>1. buffer' = <<"dir", card.root, i>>
        BY <1>3, <2>1, <3>3, FailStep DEF Search
      <4>2. entries = RootDir[i]
        BY <1>1, <4>1, CardIs DEF Entries, RootDir
      <4>. QED BY <1>8, <4>2 DEF Hit
    <3>. QED BY <1>3, <2>1, <3>1, <3>2, <3>3
  <2>2. DOMAIN RootDir \subseteq Int
    BY <1>1, CardIs DEF Directory
  <2>3. SearchOK'
    BY <1>1, <1>3, <1>7, <1>8, <2>1, <2>2, CardKept DEF SearchOK
  <2>4. MemOK'
    BY <1>1, <1>7, <1>8 DEF MemOK
  <2>. QED BY <1>1, <1>6, <1>8, <2>3, <2>4 DEF GoodInv, PlaceOK, FlashOK
<1>9. ASSUME NEW i \in {i \in DOMAIN entries : Matches(entries[i], job)}, Found(entries[i])
      PROVE  GoodInv'
  <2> DEFINE e == FileOf(job)
  <2>1. Has(job) /\ entries[i] = e
    <3>1. PICK s \in DOMAIN RootDir : entries = RootDir[s] /\ i \in DOMAIN RootDir[s]
      BY <1>1, <1>4, <1>5, RootEntries
    <3>. QED BY <1>1, <1>9, <3>1, HitIs
  <2>2. e \in Entry /\ e.size \in Nat /\ (e.size > 0 => e.chain[1] = e.cluster)
    BY <1>1, <2>1, FileIs DEF Entry
  <2>. HIDE DEF e, entries
  <2>3. /\ file' = [cluster |-> e.cluster, sector |-> 0] /\ n' = 0
        /\ pc' \in {"erase", "load", "BAD_MULT"}
        /\ pc' = "erase" <=> job = "core"
        /\ pc' = "BAD_MULT" <=> job = "mult" /\ e.size # Blocks["mult"]
    BY <1>9, <2>1, <2>2, FoundTyped
  <2>4. Has(job)' /\ FileOf(job)' = e
    BY <1>1, <2>1, CardKept DEF e
  <2>5. SearchOK'
    BY <1>1, <1>7, <2>3 DEF SearchOK
  <2>6. PlaceOK'
    <3>1. (0 \div ClusterSize) + 1 = 1
      <4>1. ClusterSize \in Nat \ {0} /\ ClusterSize * 0 = 0
        BY Constants
      <4>2. (ClusterSize * 0 + 0) \div ClusterSize = 0
        BY <4>1, DivUnique
      <4>. QED BY <4>1, <4>2
    <3>2. ClusterAt(0)'
      BY <1>1, <2>2, <2>3, <2>4, <3>1 DEF ClusterAt
    <3>3. pc' = "BAD_MULT" => FileOf("mult")'.size # Blocks["mult"]
      BY <1>1, <2>3, <2>4
    <3>4. file'.sector = 0
      BY <2>3
    <3>. QED BY <1>1, <2>3, <2>4, <3>2, <3>3, <3>4 DEF PlaceOK
  <2>7. MemOK'
    BY <1>1, <1>7, <2>3 DEF MemOK, Holds
  <2>8. FlashOK'
    BY <1>1, <2>3, PageBlock DEF FlashOK, Pages
  <2>. QED BY <1>6, <2>5, <2>6, <2>7, <2>8 DEF GoodInv
<1>. QED BY <1>8, <1>9 DEF Search

\* The one cluster of the root ends with the search in it.
LEMMA NextClusterGood ==
    ASSUME Typed, Stages, Good => GoodInv, Good', NextCluster
    PROVE  GoodInv'
<1>1. /\ UNCHANGED <<card, job, file, n, mem, flash, resets>> /\ pc = "search"
      /\ job \in Jobs /\ card \in Cards /\ ~lost'
  BY DEF NextCluster, Typed, TypeOK, Good
<1>2. /\ GoodInv /\ fails' = fails /\ pc' = "missed"
      /\ buffer' = <<"table", index'>> \/ (buffer' = buffer /\ index' = index)
  <2>1. CASE card.fat32
    <3>1. PICK l \in Links(dir.cluster) \cup AnyLink \cup {0} :
            /\ GetCluster(dir.cluster, l)
            /\ IF IsLast(l) THEN pc' = "missed" /\ UNCHANGED dir
               ELSE dir' = [cluster |-> l, sector |-> 1] /\ UNCHANGED pc
      BY <2>1 DEF NextCluster
    <3>2. dir.cluster \in Nat
      BY DEF Typed, Place
    <3>3. Linked(dir.cluster, l)
      BY <3>1, <3>2, LinkStep
    <3>4. GoodInv
      BY <1>1, <3>3, GoodWas DEF Linked
    <3>5. index = None /\ dir.cluster = card.root
      BY <1>1, <3>4 DEF GoodInv, ReaderOK
    <3>6. l \in Links(card.root) /\ fails' = fails /\ buffer' = <<"table", index'>>
      BY <1>1, <3>3, <3>5 DEF Linked
    <3>7. card.root \in DOMAIN card.next /\ card.next[card.root] = End
      BY <1>1, <2>1, CardIs, CardKept DEF Good, OneCluster
    <3>8. l = End
      BY <3>6, <3>7 DEF Links
    <3>. QED BY <3>1, <3>4, <3>6, <3>8 DEF IsLast
  <2>2. CASE ~card.fat32
    <3>1. pc' = "missed" /\ UNCHANGED <<dir, buffer, index, fails, lost>>
      BY <2>2 DEF NextCluster
    <3>. QED BY <1>1, <3>1, GoodWas
  <2>. QED BY <2>1, <2>2
<1>3. ReaderOK'
  BY <1>1, <1>2 DEF GoodInv, ReaderOK
<1>4. fails = 0 => ~Has(job)
  <2>1. SUFFICES ASSUME fails = 0, Has(job) PROVE FALSE
    OBVIOUS
  <2>2. PICK i \in DOMAIN RootDir : Hit(i, job)
    BY <1>1, <2>1, SomeHit
  <2>3. dir.cluster = card.root /\ dir.sector \in Nat
    BY <1>1, <1>2 DEF GoodInv, ReaderOK, Typed, Place
  <2>4. i < dir.sector
    BY <1>1, <2>3, CardIs DEF NextCluster, Sectors, RootDir, Directory
  <2>. QED BY <1>1, <1>2, <2>1, <2>2, <2>4 DEF GoodInv, SearchOK
<1>5. SearchOK'
  BY <1>1, <1>2, <1>4, CardKept, Constants DEF GoodInv, SearchOK
<1>6. MemOK'
  BY <1>1, <1>2, FileKept, Constants DEF GoodInv, MemOK
<1>. QED BY <1>2, <1>3, <1>5, <1>6 DEF GoodInv, PlaceOK, FlashOK

\* The place in the file moves on along the chain.
LEMMA AdvanceGood ==
    ASSUME Typed, ReaderOK, job \in Jobs, n \in Nat, Has(job), file.sector = n, ClusterAt(n), ~lost', Advance
    PROVE  /\ file'.sector = n + 1
           /\ n + 1 < FileOf(job).size =>
                 file'.cluster = FileOf(job).chain[((n + 1) \div ClusterSize) + 1]
           /\ fails' = fails
           /\ index' # None => buffer' = <<"table", index'>>
           /\ buffer' = buffer \/ buffer'[1] = "table"
<1> DEFINE e == FileOf(job)
<1>1. e.size \in Nat /\ card \in Cards
  BY FileIs DEF Typed, Entry
<1>2. n + 1 < e.size =>
        LET q == (n \div ClusterSize) + 1 IN
        /\ file.cluster = e.chain[q] /\ e.chain[q] \in DOMAIN card.next
        /\ (n + 1) % ClusterSize = 0 => card.next[e.chain[q]] = e.chain[((n + 1) \div ClusterSize) + 1]
        /\ (n + 1) % ClusterSize # 0 => (n + 1) \div ClusterSize = n \div ClusterSize
  <2>1. n + 1 < e.size => n < e.size
    BY <1>1
  <2>. QED BY <1>1, <2>1, LinkIs DEF ClusterAt
<1>. HIDE DEF e
<1>3. file \in Place /\ file.cluster \in Nat
  BY DEF Typed, Place
<1>4. CASE (n + 1) % ClusterSize # 0
  <2>1. file' = [file EXCEPT !.sector = n + 1] /\ UNCHANGED <<buffer, index, fails, lost>>
    BY <1>4 DEF Advance
  <2>2. file'.sector = n + 1 /\ file'.cluster = file.cluster
    BY <1>3, <2>1 DEF Place
  <2>. QED BY <1>2, <1>4, <2>1, <2>2 DEF ReaderOK, e
<1>5. CASE (n + 1) % ClusterSize = 0
  <2>1. PICK l \in Links(file.cluster) \cup AnyLink \cup {0} :
          /\ GetCluster(file.cluster, l)
          /\ file' = [cluster |-> l, sector |-> n + 1]
    BY <1>5 DEF Advance
  <2>2. /\ l \in Links(file.cluster) /\ fails' = fails
        /\ index' # None /\ buffer' = <<"table", index'>>
    BY <1>3, <2>1, LinkStep DEF Linked, ReaderOK
  <2>3. n + 1 < e.size => l = e.chain[((n + 1) \div ClusterSize) + 1]
    BY <1>2, <1>5, <2>2 DEF Links
  <2>. QED BY <2>1, <2>2, <2>3 DEF e
<1>. QED BY <1>4, <1>5

\* What was lost before the reader moved on stays lost.
LEMMA AdvanceLost ==
    ASSUME Typed, Advance
    PROVE  lost => lost'
<1>1. ASSUME NEW l \in Links(file.cluster) \cup AnyLink \cup {0}, GetCluster(file.cluster, l)
      PROVE  lost => lost'
  <2>1. file.cluster \in Nat
    BY DEF Typed, Place
  <2>. QED BY <1>1, <2>1, LinkStep DEF Linked
<1>. QED BY <1>1 DEF Advance

\* A sector that is read is the next one of the file.
LEMMA ReadGood ==
    ASSUME Typed, Stages, Good => GoodInv, Good', Read
    PROVE  GoodInv'
<1>1. /\ UNCHANGED <<card, job, dir, flash, resets>> /\ pc = "load" /\ job \in Jobs /\ n \in Nat /\ n < Blocks[job]
      /\ card \in Cards /\ ~lost'
  BY DEF Read, More, Typed, TypeOK, Good
<1>2. GoodInv
  BY <1>1, GoodWas, AdvanceLost DEF Read
<1>3. Has(job) /\ file.sector = n /\ ClusterAt(n) /\ ReaderOK
  BY <1>1, <1>2 DEF GoodInv, PlaceOK
<1>4. Has(job)' /\ FileOf(job)' = FileOf(job) /\ FileOf(job).size \in Nat
  BY <1>1, <1>3, CardKept, FileIs DEF Entry
<1>5. CASE /\ mem' = [mem EXCEPT ![job] = IF job = "core" THEN <<Sector>> ELSE Append(@, Sector)]
           /\ Advance
           /\ n' = n + 1
           /\ pc' = IF job = "core" THEN "program" ELSE pc
  <2>1. /\ file'.sector = n + 1
        /\ n + 1 < FileOf(job).size =>
              file'.cluster = FileOf(job).chain[((n + 1) \div ClusterSize) + 1]
        /\ fails' = fails
        /\ index' # None => buffer' = <<"table", index'>>
        /\ buffer' = buffer \/ buffer'[1] = "table"
    BY <1>1, <1>3, <1>5, AdvanceGood
  <2>2. n + 1 <= FileOf(job).size => Sector = SectorOf(job, n)
    BY <1>1, <1>3, <1>4 DEF Sector, SectorOf, ClusterAt
  <2>3. mem \in [Jobs -> Seq(Place)] /\ Sector \in Place
    BY SectorIs DEF Typed
  <2>4. ReaderOK'
    BY <1>1, <1>3, <1>5, <2>1 DEF ReaderOK
  <2>5. SearchOK'
    BY <1>1, <1>2, <1>5, <2>1, CardKept, Constants DEF GoodInv, SearchOK
  <2>6. PlaceOK'
    <3>1. ClusterAt(n)'
      BY <1>1, <1>4, <1>5, <2>1 DEF ClusterAt
    <3>. QED BY <1>1, <1>4, <1>5, <2>1, <3>1 DEF PlaceOK
  <2>7. CASE job = "core"
    <3>1. mem'["core"] = <<Sector>>
      BY <1>1, <1>5, <2>3, <2>7
    <3>2. (n <= FileOf("core").size => mem["core"][1] = SectorOf("core", n - 1))'
      <4>1. n' - 1 = n /\ n' = n + 1
        BY <1>1, <1>5
      <4>2. mem'["core"][1] = Sector /\ FileOf("core")' = FileOf("core")
        BY <1>1, <3>1, CardKept, Constants
      <4>. QED BY <1>4, <2>2, <2>7, <4>1, <4>2 DEF SectorOf
    <3>3. MemOK'
      BY <1>1, <1>5, <2>7, <3>2 DEF MemOK
    <3>4. Done' = 2 * n /\ Done = 2 * n /\ pc' = "program"
      BY <1>1, <1>5, <2>7 DEF Done
    <3>5. FlashOK'
      BY <1>1, <1>2, <2>7, <3>4, CardKept, Constants DEF GoodInv, FlashOK, Pages
    <3>. QED BY <2>4, <2>5, <2>6, <3>3, <3>5 DEF GoodInv
  <2>8. CASE job # "core"
    <3>1. mem'[job] = Append(mem[job], Sector) /\ Len(mem[job]) = n /\ pc' = "load"
      BY <1>1, <1>5, <2>3, <2>8 DEF Stages
    <3>2. Holds(job, n)
      BY <1>1, <1>2, <2>8 DEF GoodInv, MemOK
    <3>3. ASSUME NEW i \in 1..n', i <= FileOf(job).size PROVE mem'[job][i] = SectorOf(job, i - 1)
      <4>0. i \in Int /\ i <= n + 1
        BY <1>1, <1>5
      <4>1. CASE i <= n
        BY <1>1, <2>3, <3>1, <3>2, <3>3, <4>1 DEF Holds
      <4>2. CASE i = n + 1
        <5>1. mem'[job][i] = Sector /\ i - 1 = n
          BY <1>1, <2>3, <3>1, <4>2
        <5>. QED BY <2>2, <3>3, <4>2, <5>1
      <4>. QED BY <1>1, <4>0, <4>1, <4>2
    <3>4. Holds(job, n)'
      <4>1. ASSUME NEW i \in 1..n', i <= FileOf(job)'.size PROVE mem'[job][i] = SectorOf(job, i - 1)'
        <5>1. i - 1 \in Int /\ SectorOf(job, i - 1)' = SectorOf(job, i - 1)
          BY <1>1, <1>5, CardKept
        <5>. QED BY <1>4, <3>3, <4>1, <5>1
      <4>. QED BY <1>1, <4>1 DEF Holds
    <3>5. job = "mult" => IsFile("bios")'
      BY <1>1, <1>2, <1>5, <2>3, FileKept, Constants DEF GoodInv, MemOK
    <3>6. MemOK'
      BY <1>1, <3>1, <3>4, <3>5 DEF MemOK
    <3>7. FlashOK'
      BY <1>1, <2>8, <3>1 DEF FlashOK
    <3>. QED BY <2>4, <2>5, <2>6, <3>6, <3>7 DEF GoodInv
  <2>. QED BY <2>7, <2>8
<1>6. CASE CardFails /\ pc' = Failed[job] /\ UNCHANGED <<mem, file, buffer, index, n, lost>>
  <2>1. pc' \in {"READ_ERR", "ERR_BIOS", "ERR_MULT"} /\ fails' > 0 /\ fails' # 0
    BY <1>1, <1>6, FailStep DEF Failed, Jobs
  <2>2. ReaderOK'
    BY <1>1, <1>3, <1>6, <2>1 DEF ReaderOK
  <2>3. MemOK'
    BY <1>1, <1>2, <1>6, <2>1, FileKept, Constants DEF GoodInv, MemOK
  <2>. QED BY <2>1, <2>2, <2>3 DEF GoodInv, SearchOK, PlaceOK, FlashOK
<1>. QED BY <1>5, <1>6 DEF Read

\* Erasing ends with all of the flash erased.
LEMMA EraseGood ==
    ASSUME Typed, Stages, Good => GoodInv, Good', Erase
    PROVE  GoodInv'
<1>1. /\ UNCHANGED <<card, job, dir, file, buffer, index, mem, fails, resets, lost>> /\ pc = "erase"
      /\ job = "core" /\ n \in Nat /\ n < EraseBlocks
  BY DEF Erase, reader, Stages, Typed, TypeOK
<1>2. GoodInv
  BY <1>1, GoodWas
<1>3. Has("core") /\ file.sector = 0 /\ ClusterAt(0)
  BY <1>1, <1>2 DEF GoodInv, PlaceOK
<1>4. ASSUME NEW p \in Pages, p \div BlockPages < n + 1 PROVE flash'[p] = <<"erased">>
  <2>1. p \div BlockPages \in Nat
    BY PageBlock
  <2>2. flash'[p] = IF p \div BlockPages = n THEN <<"erased">> ELSE flash[p]
    BY DEF Erase, Erases
  <2>3. p \div BlockPages < n => flash[p] = <<"erased">>
    BY <1>1, <1>2 DEF GoodInv, FlashOK
  <2>. QED BY <1>1, <1>4, <2>1, <2>2, <2>3
<1>5. Has("core")' /\ ClusterAt(0)'
  BY <1>1, <1>3, CardKept, Constants DEF ClusterAt
<1>6. CASE n + 1 = EraseBlocks /\ n' = 0 /\ pc' = "load"
  <2>1. ASSUME NEW p \in Pages PROVE flash'[p] = <<"erased">> /\ ~(p < 0)
    <3>1. p \in Nat /\ p \div BlockPages < EraseBlocks
      BY PageBlock
    <3>. QED BY <1>4, <1>6, <3>1
  <2>2. Done' = 0
    BY <1>6 DEF Done
  <2>3. FlashOK'
    BY <1>6, <2>1, <2>2 DEF FlashOK, Pages
  <2>4. PlaceOK'
    BY <1>1, <1>3, <1>5, <1>6 DEF PlaceOK
  <2>. QED BY <1>1, <1>2, <1>6, <2>3, <2>4 DEF GoodInv, ReaderOK, SearchOK, MemOK
<1>7. CASE n' = n + 1 /\ pc' = pc
  <2>1. FlashOK'
    BY <1>1, <1>4, <1>7 DEF FlashOK, Pages
  <2>2. PlaceOK'
    BY <1>1, <1>3, <1>5, <1>7 DEF PlaceOK
  <2>. QED BY <1>1, <1>2, <1>7, <2>1, <2>2 DEF GoodInv, ReaderOK, SearchOK, MemOK
<1>. QED BY <1>6, <1>7 DEF Erase

\* A page of a block.
LEMMA Halves ==
    ASSUME NEW p \in Nat, NEW m \in Nat
    PROVE  /\ p = 2 * m => p \div 2 = m
           /\ p = 2 * m + 1 => p \div 2 = m
OBVIOUS

\* A page is programmed once, over an erased one.
LEMMA ProgramGood ==
    ASSUME Typed, Stages, Good => GoodInv, Good', Program
    PROVE  GoodInv'
<1>1. /\ UNCHANGED <<card, job, dir, file, buffer, index, n, mem, fails, resets, lost>>
      /\ job = "core" /\ n \in Nat /\ n > 0
      /\ \/ pc = "program" /\ pc' = "second"
         \/ pc = "second" /\ pc' = "load"
  BY DEF Program, reader, Stages, Typed, TypeOK
<1>2. GoodInv
  BY <1>1, GoodWas
<1>3. Has("core") /\ file.sector = n /\ ClusterAt(n) /\ FileOf("core").size \in Nat
  BY <1>1, <1>2, FileIs, Constants DEF GoodInv, PlaceOK, Typed, Entry
<1>4. PlaceOK'
  BY <1>1, <1>3, CardKept, Constants DEF PlaceOK, ClusterAt
<1>5. Done = Page /\ Done' = Page + 1 /\ Page \in Nat /\ (Page = 2 * (n - 1) \/ Page = 2 * (n - 1) + 1)
  BY <1>1 DEF Done, Page
<1>6. FlashOK'
  <2>1. ASSUME NEW p \in Pages
        PROVE  IF p < Page + 1
               THEN p \div 2 < FileOf("core").size => flash'[p] = <<SectorOf("core", p \div 2), p % 2>>
               ELSE flash'[p] = <<"erased">>
    <3>1. p \in Nat
      BY PageBlock
    <3>2. IF p < Page
          THEN p \div 2 < FileOf("core").size => flash[p] = <<SectorOf("core", p \div 2), p % 2>>
          ELSE flash[p] = <<"erased">>
      BY <1>1, <1>2, <1>5 DEF GoodInv, FlashOK
    <3>3. flash'[p] = IF p # Page THEN flash[p]
                      ELSE IF flash[p] = <<"erased">> THEN <<mem["core"][1], p % 2>>
                      ELSE <<"mixed">>
      BY DEF Program
    <3>4. n <= FileOf("core").size => mem["core"][1] = SectorOf("core", n - 1)
      BY <1>1, <1>2 DEF GoodInv, MemOK
    <3>5. CASE p = Page
      <4>1. flash'[p] = <<mem["core"][1], p % 2>>
        BY <1>5, <3>1, <3>2, <3>3, <3>5
      <4>2. p \div 2 = n - 1
        <5>1. n - 1 \in Nat
          BY <1>1
        <5>. QED BY <1>5, <3>1, <3>5, <5>1, Halves
      <4>3. n - 1 < FileOf("core").size => n <= FileOf("core").size
        BY <1>1, <1>3
      <4>. QED BY <1>5, <3>4, <3>5, <4>1, <4>2, <4>3
    <3>6. CASE p # Page
      BY <1>5, <3>1, <3>2, <3>3, <3>6
    <3>. QED BY <3>5, <3>6
  <2>2. ASSUME NEW p \in Pages PROVE SectorOf("core", p \div 2)' = SectorOf("core", p \div 2)
    <3>1. p \div 2 \in Int
      BY PageBlock
    <3>. QED BY <1>1, <3>1, CardKept, Constants
  <2>3. FileOf("core")' = FileOf("core")
    BY <1>1, CardKept, Constants
  <2>. QED BY <1>1, <1>5, <2>1, <2>2, <2>3 DEF FlashOK, Pages
<1>7. MemOK'
  <2>1. SectorOf("core", n - 1)' = SectorOf("core", n - 1) /\ FileOf("core")' = FileOf("core")
    BY <1>1, CardKept, Constants
  <2>2. pc' = "second" /\ n <= FileOf("core").size => mem["core"][1] = SectorOf("core", n - 1)
    BY <1>1, <1>2 DEF GoodInv, MemOK
  <2>. QED BY <1>1, <2>1, <2>2 DEF MemOK, SectorOf
<1>8. ReaderOK' /\ SearchOK'
  BY <1>1, <1>2 DEF GoodInv, ReaderOK, SearchOK
<1>. QED BY <1>4, <1>6, <1>7, <1>8 DEF GoodInv

\* After a reset nothing has been read.
LEMMA GoodReset ==
    ASSUME Typed, Reset
    PROVE  Good' => GoodInv'
<1>1. pc' = "start" /\ job' = "core" /\ buffer' = Boot /\ index' = None
  BY DEF Reset
<1>. QED BY <1>1 DEF GoodInv, ReaderOK, SearchOK, PlaceOK, MemOK, FlashOK, Boot

\* Nor at first.
LEMMA GoodInit == Init => GoodInv
BY DEF Init, GoodInv, ReaderOK, SearchOK, PlaceOK, MemOK, FlashOK, Boot

\* Every step keeps what the properties need.
LEMMA GoodStep ==
    ASSUME Typed, Stages, Good => GoodInv, [Next]_vars
    PROVE  Good' => GoodInv'
<1>1. CASE UNCHANGED vars
  <2>1. UNCHANGED <<card, pc, job, dir, file, buffer, index, n, mem, flash, fails, resets, lost>>
    BY <1>1 DEF vars, reader
  <2>2. SUFFICES ASSUME Good' PROVE GoodInv'
    OBVIOUS
  <2>3. GoodInv
    BY <2>1, <2>2, GoodWas
  <2>4. ReaderOK' /\ SearchOK'
    BY <2>1, <2>3 DEF GoodInv, ReaderOK, SearchOK, RootDir, Hit, Has
  <2>5. PlaceOK' /\ MemOK'
    BY <2>1, <2>3 DEF GoodInv, PlaceOK, MemOK, ClusterAt, Holds, Has, FileOf, SectorOf, IsFile
  <2>6. FlashOK'
    BY <2>1, <2>3 DEF GoodInv, FlashOK, Has, FileOf, SectorOf, Done, Pages
  <2>. QED BY <2>4, <2>5, <2>6 DEF GoodInv
<1>2. CASE Next
  BY <1>2, GoodReset, MainGood, SearchGood, NextClusterGood, ReadGood, EraseGood, ProgramGood DEF Next, Step
<1>. QED BY <1>1, <1>2

-----------------------------------------------------------------------------
(* Theorems *)

\* The inductive invariant holds in every state of main.
THEOREM Invariant == Spec => []IInv
<1>1. Init => IInv
  BY TypedInit, GoodInit DEF IInv
<1>2. IInv /\ [Next]_vars => IInv'
  BY TypedStep, GoodStep DEF IInv
<1>. QED BY <1>1, <1>2, PTL DEF Spec

\* An update that says OK has written the file of the core, page by page, over
\* erased pages and has left nothing after it: main erases all, then programs each
\* page once, at the place that the count of blocks gives it.
THEOREM UpdatesCorrect == Spec => []UpdatesWhole
<1>1. IInv => UpdatesWhole
  <2>1. SUFFICES ASSUME IInv, pc = "frozen", OneCluster, ~lost PROVE
              /\ Has("core")
              /\ \A p \in Pages :
                    IF p >= 2 * Blocks["core"] THEN flash[p] = <<"erased">>
                    ELSE p < 2 * FileOf("core").size => flash[p] = <<SectorOf("core", p \div 2), p % 2>>
    BY DEF UpdatesWhole
  <2>2. GoodInv /\ job = "core" /\ card \in Cards
    BY <2>1 DEF IInv, Good, Stages, Typed
  <2>3. Has("core") /\ Done = 2 * Blocks["core"] /\ Blocks["core"] \in Nat
    BY <2>1, <2>2, Constants DEF GoodInv, FlashOK, Done
  <2>4. FileOf("core").size \in Nat
    BY <2>2, <2>3, FileIs, Constants DEF Entry
  <2>5. ASSUME NEW p \in Pages
        PROVE  IF p >= 2 * Blocks["core"] THEN flash[p] = <<"erased">>
               ELSE p < 2 * FileOf("core").size => flash[p] = <<SectorOf("core", p \div 2), p % 2>>
    <3>1. p \in Nat
      BY PageBlock
    <3>2. /\ p >= 2 * Blocks["core"] <=> ~(p < Done)
          /\ p < 2 * FileOf("core").size <=> p \div 2 < FileOf("core").size
      BY <2>3, <2>4, <3>1
    <3>3. IF p < Done
          THEN p \div 2 < FileOf("core").size => flash[p] = <<SectorOf("core", p \div 2), p % 2>>
          ELSE flash[p] = <<"erased">>
      BY <2>1, <2>2 DEF GoodInv, FlashOK
    <3>. QED BY <2>3, <3>2, <3>3
  <2>. QED BY <2>3, <2>5
<1>. QED BY <1>1, Invariant, PTL

\* A game or the multicart is started only with memory that holds its files, each
\* sector in its place and none beyond the room there is.
THEOREM StartsCorrect == Spec => []StartsWhole
<1>1. IInv => StartsWhole
  BY DEF IInv, Typed, Stages, Good, GoodInv, MemOK, StartsWhole
<1>. QED BY <1>1, Invariant, PTL

\* The flash is erased only for a core that is on the card, a multicart is refused
\* only for its size, and where no read failed a file is missed only if it is not
\* there.
THEOREM OpensCorrect == Spec => []OpensRight
<1>1. IInv => OpensRight
  BY DEF IInv, Stages, Good, GoodInv, PlaceOK, SearchOK, OpensRight
<1>. QED BY <1>1, Invariant, PTL

=============================================================================
