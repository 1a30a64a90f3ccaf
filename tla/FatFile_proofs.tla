-------------------------- MODULE FatFile_proofs --------------------------
(* Proofs for FatFile: its caches, the current cluster of a file, and that *)
(* reading and seeking do what ByteFile promises, on any cards.            *)
EXTENDS FatFile, TLAPS

Calls == {"read", "sector", "seek"}

\* Where a call is, and what is mounted and open there.
PhaseInv ==
    /\ pc \in {"path"} \cup Calls => fs_type # 0
    /\ pc \in {"init", "boot", "scan"} => fs_type = 0
    /\ pc \in {"boot", "scan"} => media \in Cards
    /\ fs_type # 0 => vol \in Volumes /\ media \in Cards
    /\ obj.id <= id

\* What is left of a call leads to no place beyond the file or the buffer.
RoomInv ==
    /\ Opened => fptr <= obj.objsize
    /\ pc \in Calls => Opened /\ fptr + ofs <= obj.objsize
    /\ pc \in {"read", "sector"} => br + ofs <= MaxRead

CacheInv == TypeOK /\ PhaseInv /\ RoomInv /\ WindowTrue /\ BufferTrue

-----------------------------------------------------------------------------
(* Arithmetic *)

\* Division rounds down, and the remainder is less than the divisor.
LEMMA DivMod ==
    ASSUME NEW a \in Nat, NEW b \in Nat \ {0}
    PROVE  /\ a = b * (a \div b) + (a % b)
           /\ a \div b \in Nat /\ a % b \in 0..(b - 1)
BY SMT

\* Quotient and remainder are what a number is made of.
LEMMA DivUnique ==
    ASSUME NEW b \in Nat \ {0}, NEW q \in Nat, NEW r \in 0..(b - 1)
    PROVE  (b * q + r) \div b = q /\ (b * q + r) % b = r
BY SMT

\* Whole sectors that fit in what is wanted.
LEMMA WholeFit ==
    ASSUME NEW a \in Nat, NEW b \in Nat \ {0}, NEW k \in Nat, k <= a \div b
    PROVE  k * b \in Nat /\ k * b <= a
<1>1. a = b * (a \div b) + (a % b) /\ a \div b \in Nat /\ a % b \in Nat  BY DivMod
<1>2. PICK d \in Nat : a \div b = k + d
  <2>1. a \div b - k \in Nat  BY <1>1
  <2>2. a \div b = k + (a \div b - k)  BY <1>1
  <2> QED BY <2>1, <2>2
<1>3. b * (k + d) = k * b + b * d /\ b * d \in Nat  BY SMT
<1> QED BY <1>1, <1>2, <1>3

\* A number that stays within its multiple keeps its quotient.
LEMMA SameDiv ==
    ASSUME NEW x \in Nat, NEW b \in Nat \ {0}, NEW d \in Nat, (x % b) + d < b
    PROVE  (x + d) \div b = x \div b /\ (x + d) % b = (x % b) + d
<1> DEFINE q == x \div b
           r == x % b
<1>1. x = b * q + r /\ q \in Nat /\ r \in 0..(b - 1)  BY DivMod
<1> HIDE DEF q, r
<1>2. x + d = b * q + (r + d) /\ r + d \in 0..(b - 1) /\ b * q \in Nat  BY <1>1 DEF r
<1>3. (x + d) \div b = q /\ (x + d) % b = r + d
  BY <1>1, <1>2, DivUnique
<1> QED BY <1>3 DEF q, r

LEMMA SameDivBack ==
    ASSUME NEW x \in Nat, NEW b \in Nat \ {0}, NEW d \in Nat, d <= x % b
    PROVE  /\ x - d \in Nat
           /\ (x - d) \div b = x \div b /\ (x - d) % b = (x % b) - d
<1> DEFINE q == x \div b
           r == x % b
<1>1. x = b * q + r /\ q \in Nat /\ r \in 0..(b - 1)  BY DivMod
<1> HIDE DEF q, r
<1>2. x - d = b * q + (r - d) /\ r - d \in 0..(b - 1) /\ b * q \in Nat  BY <1>1 DEF r
<1>3. (x - d) \div b = q /\ (x - d) % b = r - d
  BY <1>1, <1>2, DivUnique
<1>4. x - d \in Nat  BY <1>1, <1>2
<1> QED BY <1>3, <1>4 DEF q, r

\* A position is a byte of a sector of a cluster.
LEMMA Place ==
    ASSUME NEW x \in Nat, NEW s \in Nat \ {0}, NEW c \in Nat \ {0}
    PROVE  LET k == (x \div s) % c
               o == x % s
           IN  /\ k \in 0..(c - 1) /\ o \in 0..(s - 1)
               /\ k * s \in Nat /\ k * s + s <= c * s
               /\ x \div (c * s) = (x \div s) \div c
               /\ x % (c * s) = k * s + o
               /\ k = 0 => k * s = 0
               /\ k # 0 => k * s >= s
<1> DEFINE i == x \div s
           o == x % s
           q == i \div c
           k == i % c
<1>1. x = s * i + o /\ i \in Nat /\ o \in 0..(s - 1)  BY DivMod
<1> HIDE DEF i, o
<1>2. i = c * q + k /\ q \in Nat /\ k \in 0..(c - 1)  BY <1>1, DivMod
<1> HIDE DEF q, k
<1>3. PICK e \in Nat : c = k + 1 + e
  <2>1. c - (k + 1) \in Nat /\ c = k + 1 + (c - (k + 1))  BY <1>2
  <2> QED BY <2>1
<1>4. (k + 1 + e) * s = k * s + s + e * s /\ e * s \in Nat /\ k * s \in Nat
  BY <1>2, <1>3
<1>5. k * s + s <= c * s /\ c * s \in Nat \ {0} /\ k * s \in Nat
  <2>1. c * s = k * s + s + e * s  BY <1>3, <1>4
  <2> QED BY <2>1, <1>4
<1>6. k * s + o \in 0..(c * s - 1)  BY <1>1, <1>5
<1>7. s * (c * q + k) = (c * s) * q + k * s  BY <1>2
<1>8. x = (c * s) * q + (k * s + o)  BY <1>1, <1>2, <1>5, <1>7
<1>9. x \div (c * s) = q /\ x % (c * s) = k * s + o
  BY <1>2, <1>5, <1>6, <1>8, DivUnique
<1>10. k = 0 => k * s = 0  BY <1>2
<1>11. k # 0 => k * s >= s
  <2> SUFFICES ASSUME k # 0 PROVE k * s >= s  OBVIOUS
  <2>1. PICK f \in Nat : k = f + 1
    <3>1. k - 1 \in Nat /\ k = (k - 1) + 1  BY <1>2
    <3> QED BY <3>1
  <2>2. (f + 1) * s = f * s + s /\ f * s \in Nat  BY <2>1
  <2> QED BY <2>1, <2>2
<1> QED BY <1>1, <1>2, <1>5, <1>9, <1>10, <1>11 DEF i, o, q, k

\* The first byte of a cluster follows the last of the one before.
LEMMA NextCluster ==
    ASSUME NEW x \in Nat, NEW b \in Nat \ {0}, x > 0, x % b = 0
    PROVE  x - 1 \in Nat /\ x \div b = ((x - 1) \div b) + 1
<1> DEFINE q == x \div b
<1>1. x = b * q /\ q \in Nat  BY DivMod
<1> HIDE DEF q
<1>2. q # 0
  <2>1. b * 0 = 0  OBVIOUS
  <2> QED BY <1>1, <2>1
<1>3. q - 1 \in Nat /\ b - 1 \in 0..(b - 1)  BY <1>1, <1>2
<1>4. b * q = b * (q - 1) + b  BY <1>1, <1>3
<1>5. x - 1 = b * (q - 1) + (b - 1) /\ x - 1 \in Nat  BY <1>1, <1>3, <1>4
<1>6. (x - 1) \div b = q - 1  BY <1>3, <1>5, DivUnique
<1> QED BY <1>1, <1>3, <1>5, <1>6 DEF q

\* The constants, one fact at a time.
LEMMA Constants ==
    /\ NoCard \notin Cards /\ SS \in Nat \ {0} /\ PerSector \in Nat \ {0}
    /\ MaxRead \in Nat \ {0} /\ MaxSeek \in Nat /\ MaxMounts \in Nat
    /\ \A c \in Cards, i \in 1..4 : Base[c][i] \in Nat
    /\ \A v \in Volumes :
          /\ v \in Cards \X (0..4) /\ v[1] \in Cards
          /\ Geometry[v].fatbase \in Nat /\ Geometry[v].database \in Nat
          /\ Geometry[v].dir \in Nat /\ Geometry[v].n_fatent \in Nat
          /\ Geometry[v].csize \in Nat \ {0}
          /\ Geometry[v].csize * SS \in Nat \ {0}
          /\ DOMAIN Fat[v] = 2..(Geometry[v].n_fatent - 1)
          /\ \A c \in DOMAIN Fat[v] : Fat[v][c] \in Nat
          /\ Entry[v].objsize \in Nat /\ Entry[v].sclust \in Nat
<1> USE FatAssumption
<1>1. ASSUME NEW c \in Cards, NEW i \in 1..4 PROVE Base[c][i] \in Nat  OBVIOUS
<1>2. ASSUME NEW v \in Volumes
      PROVE  /\ v \in Cards \X (0..4) /\ v[1] \in Cards
             /\ Geometry[v].fatbase \in Nat /\ Geometry[v].database \in Nat
             /\ Geometry[v].dir \in Nat /\ Geometry[v].n_fatent \in Nat
             /\ Geometry[v].csize \in Nat \ {0}
             /\ Geometry[v].csize * SS \in Nat \ {0}
             /\ DOMAIN Fat[v] = 2..(Geometry[v].n_fatent - 1)
             /\ \A c \in DOMAIN Fat[v] : Fat[v][c] \in Nat
             /\ Entry[v].objsize \in Nat /\ Entry[v].sclust \in Nat
  <2>1. v \in Cards \X (0..4) /\ v[1] \in Cards  BY DEF Volumes
  <2>2. Geometry[v] \in [fatbase : Nat, database : Nat, dir : Nat,
                         csize : Nat \ {0}, n_fatent : Nat]  OBVIOUS
  <2>3. Geometry[v].csize \in Nat \ {0}  BY <2>2
  <2>4. Geometry[v].csize * SS \in Nat \ {0}
    <3> DEFINE z == Geometry[v].csize
    <3> HIDE DEF z
    <3>1. z \in Nat \ {0} /\ SS \in Nat \ {0}  BY <2>3 DEF z
    <3>2. z * SS \in Nat \ {0}  BY ONLY <3>1, SMT
    <3> QED BY <3>2 DEF z
  <2>5. Fat[v] \in [2..(Geometry[v].n_fatent - 1) -> Nat]  OBVIOUS
  <2>6. Entry[v].objsize \in Nat /\ Entry[v].sclust \in Nat  OBVIOUS
  <2>7. Geometry[v].fatbase \in Nat /\ Geometry[v].database \in Nat
        /\ Geometry[v].dir \in Nat /\ Geometry[v].n_fatent \in Nat  BY <2>2
  <2>8. DOMAIN Fat[v] = 2..(Geometry[v].n_fatent - 1)
        /\ \A c \in DOMAIN Fat[v] : Fat[v][c] \in Nat  BY <2>5
  <2> QED BY <2>1, <2>3, <2>4, <2>6, <2>7, <2>8
<1> QED BY <1>1, <1>2

-----------------------------------------------------------------------------
(* What the helpers return, and what they leave in the window *)

\* After move_window the window is true, and holds the sector if it succeeded.
LEMMA MoveWindowTrue ==
    ASSUME TypeOK, PhaseInv, WindowTrue, fs_type # 0,
           NEW s \in Nat, NEW ok \in BOOLEAN, MoveWindow(s, ok)
    PROVE  /\ winsect' \in Nat \cup {Invalid} /\ win' \in Content \cup {None}
           /\ winsect' # Invalid => win' = <<media, winsect'>>
           /\ ok => win' = <<vol[1], s>>
<1>1. vol[1] = media /\ media \in Cards  BY DEF PhaseInv, WindowTrue
<1>2. s # Invalid  BY DEF Invalid
<1>3. CASE s = winsect
  BY <1>1, <1>2, <1>3 DEF MoveWindow, window, TypeOK, WindowTrue
<1>4. CASE s # winsect
  BY <1>1, <1>4 DEF MoveWindow, Content
<1> QED BY <1>3, <1>4

\* The same of get_fat, which returns the link, an error, or 1.
LEMMA GetFatTrue ==
    ASSUME TypeOK, PhaseInv, WindowTrue, fs_type # 0,
           NEW c \in Nat, NEW v \in Clusters, GetFat(c, v)
    PROVE  /\ winsect' \in Nat \cup {Invalid} /\ win' \in Content \cup {None}
           /\ winsect' # Invalid => win' = <<media, winsect'>>
           /\ v >= 2 => c \in DOMAIN Fat[vol] /\ v = Fat[vol][c]
<1> DEFINE s == Geo.fatbase + c \div PerSector
<1>1. vol \in Volumes  BY DEF PhaseInv
<1>2. vol[1] = media  BY DEF WindowTrue
<1>3. CASE c \notin DOMAIN Fat[vol]
  <2>1. v = 1 /\ UNCHANGED window  BY <1>3 DEF GetFat
  <2> QED BY <2>1, <1>2 DEF window, TypeOK, WindowTrue
<1>4. CASE c \in DOMAIN Fat[vol]
  <2>1. s \in Nat
    <3>1. Geo.fatbase \in Nat /\ PerSector \in Nat \ {0}  BY <1>1, Constants DEF Geo
    <3>2. c \div PerSector \in Nat  BY <3>1, DivMod
    <3> QED BY <3>1, <3>2
  <2>2. PICK ok \in BOOLEAN : /\ MoveWindow(s, ok)
                              /\ v = DISK_ERR <=> ~ok
                              /\ ok /\ win' = <<vol[1], s>> => v = Fat[vol][c]
    BY <1>4 DEF GetFat
  <2> HIDE DEF s
  <2>3. /\ winsect' \in Nat \cup {Invalid} /\ win' \in Content \cup {None}
        /\ winsect' # Invalid => win' = <<media, winsect'>>
        /\ ok => win' = <<vol[1], s>>
    BY <2>1, <2>2, MoveWindowTrue
  <2> QED BY <2>2, <2>3, <1>4 DEF DISK_ERR
<1> QED BY <1>3, <1>4

LEMMA ClustersAre == ASSUME vol \in Volumes PROVE \A c \in Clusters : c >= 2 => c \in Nat
<1>1. Geo.n_fatent \in Nat  BY Constants DEF Geo
<1> QED BY <1>1 DEF Clusters, DISK_ERR

\* clst2sect returns a sector, or 0 for what is no cluster.
LEMMA SectorIs ==
    ASSUME vol \in Volumes, NEW c \in Nat
    PROVE  /\ Clst2Sect(c) \in Nat
           /\ Clst2Sect(c) # 0 => /\ c \in DOMAIN Fat[vol]
                                  /\ Clst2Sect(c) = Geo.database + Geo.csize * (c - 2)
<1>1. Geo.database \in Nat /\ Geo.csize \in Nat /\ DOMAIN Fat[vol] = 2..(Geo.n_fatent - 1)
  BY Constants DEF Geo
<1>2. CASE c \in DOMAIN Fat[vol]
  <2>1. c - 2 \in Nat  BY <1>1, <1>2, Constants DEF Geo
  <2>2. Geo.csize * (c - 2) \in Nat  BY <1>1, <2>1
  <2>3. Clst2Sect(c) = Geo.database + Geo.csize * (c - 2)  BY <1>2 DEF Clst2Sect
  <2>4. Geo.database + Geo.csize * (c - 2) \in Nat  BY <1>1, <2>2
  <2> QED BY <1>2, <2>3, <2>4
<1>3. CASE c \notin DOMAIN Fat[vol]
  BY <1>3 DEF Clst2Sect
<1> QED BY <1>2, <1>3

-----------------------------------------------------------------------------
(* The caches, step by step *)

LEMMA InitCache == Init => CacheInv
<1> SUFFICES ASSUME Init PROVE CacheInv  OBVIOUS
<1>1. TypeOK
  <2>1. br \in 0..MaxRead  BY Constants DEF Init
  <2>2. obj \in [fs : BOOLEAN, id : Nat, sclust : Nat, objsize : Nat]  BY DEF Init
  <2>3. /\ slot \in Cards \cup {NoCard} /\ media \in Cards \cup {NoCard}
        /\ Stat \in 0..1
    BY DEF Init
  <2>7. ready \in BOOLEAN  BY Zenon DEF Init
  <2>4. /\ fs_type \in 0..1 /\ id \in Nat /\ vol \in Volumes \cup {None}
        /\ winsect \in Nat \cup {Invalid} /\ win \in Content \cup {None}
    BY DEF Init
  <2>5. /\ err \in BOOLEAN /\ fptr \in Nat /\ clust \in Nat /\ sect \in Nat
        /\ buf \in Content \cup {None}
    BY DEF Init
  <2>6. /\ pc \in {"idle", "init", "boot", "scan", "path", "read", "sector", "seek"}
        /\ call \in {"mount", "open", "read", "seek"} /\ part \in 1..4
        /\ ofs \in Nat /\ res \in {"ok", "error"}
    BY DEF Init
  <2> QED BY <2>1, <2>2, <2>3, <2>4, <2>5, <2>6, <2>7 DEF TypeOK
<1>2. PhaseInv  BY DEF Init, PhaseInv, Calls
<1>3. RoomInv /\ BufferTrue  BY DEF Init, RoomInv, Opened, Calls, BufferTrue
<1>4. WindowTrue  BY DEF Init, WindowTrue
<1> QED BY <1>1, <1>2, <1>3, <1>4 DEF CacheInv

\* A call that ends or begins, and a card that moves, disturb no cache.
LEMMA MountCache == CacheInv /\ Mount => CacheInv'
<1> SUFFICES ASSUME CacheInv, Mount PROVE CacheInv'  OBVIOUS
<1> USE DEF CacheInv, Mount, NewBuffer, disk, window, fil
<1>1. TypeOK'  BY Constants DEF TypeOK, Content
<1>2. PhaseInv'  BY DEF PhaseInv, Calls, TypeOK
<1>3. RoomInv' /\ BufferTrue' /\ WindowTrue'
  BY DEF RoomInv, BufferTrue, WindowTrue, Opened, Calls
<1> QED BY <1>1, <1>2, <1>3

LEMMA OpenCache == CacheInv /\ Open => CacheInv'
<1> SUFFICES ASSUME CacheInv, Open PROVE CacheInv'  OBVIOUS
<1> USE DEF CacheInv, Open, NewBuffer, disk, window, fil
<1>1. TypeOK'  BY Constants DEF TypeOK, Content
<1>2. PhaseInv'  BY DEF PhaseInv, Calls, TypeOK
<1>3. RoomInv' /\ BufferTrue' /\ WindowTrue'
  BY DEF RoomInv, BufferTrue, WindowTrue, Opened, Calls
<1> QED BY <1>1, <1>2, <1>3

LEMMA RefusedCache == CacheInv /\ Refused => CacheInv'
<1> SUFFICES ASSUME CacheInv, Refused PROVE CacheInv'  OBVIOUS
<1> USE DEF CacheInv, Refused, NewBuffer, Kept, disk, fs, window, fil, args
<1>1. TypeOK'  BY Constants DEF TypeOK, Content
<1>2. PhaseInv'  BY DEF PhaseInv, Calls, TypeOK
<1>3. RoomInv' /\ BufferTrue' /\ WindowTrue'
  BY DEF RoomInv, BufferTrue, WindowTrue, Opened, Calls
<1> QED BY <1>1, <1>2, <1>3

LEMMA UserCache == CacheInv /\ User => CacheInv'
<1> SUFFICES ASSUME CacheInv, User PROVE CacheInv'  OBVIOUS
<1> USE DEF CacheInv, User, fs, window, fil, args, out
<1>1. TypeOK'
  <2>1. slot' \in Cards \cup {NoCard} /\ ready' \in BOOLEAN  OBVIOUS
  <2> QED BY <2>1 DEF TypeOK
<1>2. PhaseInv'  BY DEF PhaseInv, Calls, TypeOK
<1>3. RoomInv' /\ BufferTrue' /\ WindowTrue'
  BY DEF RoomInv, BufferTrue, WindowTrue, Opened, Calls
<1> QED BY <1>1, <1>2, <1>3

\* Another card can be initialised only while nothing is mounted.
LEMMA InitializeCache == CacheInv /\ Initialize => CacheInv'
<1> SUFFICES ASSUME CacheInv, Initialize PROVE CacheInv'  OBVIOUS
<1> USE DEF CacheInv, Initialize, Fails, Return, fs, window, args
<1>1. TypeOK'
  <2>1. slot' \in Cards \cup {NoCard} /\ media' \in Cards \cup {NoCard}
    BY DEF TypeOK
  <2>3. ready' \in BOOLEAN  BY Zenon
  <2>4. Stat' \in 0..1  OBVIOUS
  <2>2. /\ obj' \in [fs : BOOLEAN, id : Nat, sclust : Nat, objsize : Nat]
        /\ pc' \in {"idle", "boot"} /\ res' \in {"ok", "error"}
    BY DEF TypeOK
  <2> QED BY <2>1, <2>2, <2>3, <2>4 DEF TypeOK
<1>2. PhaseInv'  BY DEF PhaseInv, Calls, TypeOK
<1>3. fs_type' = 0 /\ pc' \in {"boot", "idle"}  BY DEF PhaseInv
<1>4. RoomInv' /\ BufferTrue' /\ WindowTrue'
  BY <1>3 DEF RoomInv, BufferTrue, WindowTrue, Opened, Calls
<1> QED BY <1>1, <1>2, <1>4

\* A boot sector in the window belongs to the card that was initialised.
LEMMA CheckFsTrue ==
    ASSUME media \in Cards, NEW s \in Nat, NEW ok \in BOOLEAN, CheckFs(s, ok)
    PROVE  /\ winsect' \in Nat \cup {Invalid} /\ win' \in Content \cup {None}
           /\ winsect' # Invalid => win' = <<media, winsect'>>
           /\ ok => win' = <<media, s>> /\ win'[1] = media
BY DEF CheckFs, Content

\* What find_volume ends with: a volume of that card, which no object knows, or
\* an error.
LEMMA FoundIs ==
    ASSUME CacheInv, pc \in {"boot", "scan"}, NEW i \in 0..4, win'[1] = media, Found(i)
    PROVE  /\ \/ /\ fs_type' = 1 /\ id' = id + 1
                 /\ vol' = <<media, i>> /\ vol' \in Volumes /\ vol'[1] = media
                 /\ pc' \in {"path", "idle"} /\ UNCHANGED obj
              \/ /\ UNCHANGED fs /\ pc' = "idle"
                 /\ obj' \in {obj, [obj EXCEPT !.fs = FALSE]}
           /\ res' \in {res, "ok", "error"}
<1>1. CASE Layout[win'[1]][i] = "fat" /\ fs_type' = 1 /\ id' = id + 1 /\ vol' = <<win'[1], i>>
           /\ IF call = "open" THEN pc' = "path" /\ UNCHANGED <<obj, res>>
              ELSE Return("ok") /\ UNCHANGED obj
  <2>1. media \in Cards  BY DEF CacheInv, PhaseInv
  <2>2. vol' = <<media, i>>  BY <1>1
  <2>3. vol'[1] = media /\ vol'[2] = i /\ vol' \in Cards \X (0..4)  BY <2>1, <2>2
  <2>4. vol' \in Volumes  BY <1>1, <2>3 DEF Volumes
  <2> QED BY <1>1, <2>2, <2>3, <2>4 DEF Return
<1>2. CASE Layout[win'[1]][i] = "bad" /\ Fails /\ UNCHANGED fs
  BY <1>2 DEF Fails, Return
<1> QED BY <1>1, <1>2 DEF Found

\* So each end of find_volume leaves the caches true.
LEMMA FoundCache ==
    ASSUME CacheInv, pc \in {"boot", "scan"},
           UNCHANGED <<disk, err, fptr, clust, sect, buf, call, ofs, rbuff, br>>,
           part' \in 1..4, res' \in {"ok", "error"},
           winsect' \in Nat \cup {Invalid}, win' \in Content \cup {None},
           winsect' # Invalid => win' = <<media, winsect'>>,
           \/ /\ fs_type' = 1 /\ id' = id + 1
              /\ vol' \in Volumes /\ vol'[1] = media
              /\ pc' \in {"path", "idle"} /\ UNCHANGED obj
           \/ /\ UNCHANGED fs /\ pc' \in {"idle", "scan"}
              /\ obj' \in {obj, [obj EXCEPT !.fs = FALSE]}
    PROVE  CacheInv'
<1> USE DEF CacheInv, disk, fs
<1>1. media \in Cards /\ fs_type = 0  BY DEF PhaseInv
<1>2. /\ obj' \in [fs : BOOLEAN, id : Nat, sclust : Nat, objsize : Nat]
      /\ obj'.id = obj.id
  BY DEF TypeOK
<1>3. TypeOK'
  <2>1. slot' \in Cards \cup {NoCard} /\ media' \in Cards \cup {NoCard}
        /\ Stat' \in 0..1
    BY DEF TypeOK
  <2>2. ready' \in BOOLEAN  BY Zenon DEF TypeOK
  <2>3. fs_type' \in 0..1 /\ id' \in Nat /\ vol' \in Volumes \cup {None}
    BY DEF TypeOK
  <2>4. pc' \in {"idle", "init", "boot", "scan", "path", "read", "sector", "seek"}
    OBVIOUS
  <2>5. /\ err' \in BOOLEAN /\ fptr' \in Nat /\ clust' \in Nat /\ sect' \in Nat
        /\ buf' \in Content \cup {None}
        /\ call' \in {"mount", "open", "read", "seek"}
        /\ ofs' \in Nat /\ br' \in 0..MaxRead
    BY DEF TypeOK
  <2> QED BY <1>2, <2>1, <2>2, <2>3, <2>4, <2>5 DEF TypeOK
<1>4. PhaseInv'  BY <1>1, <1>2 DEF PhaseInv, Calls, TypeOK
<1>5. ~Opened'  BY <1>1, <1>2 DEF Opened, PhaseInv, TypeOK
<1>6. RoomInv' /\ BufferTrue'  BY <1>5 DEF RoomInv, Calls, BufferTrue
<1>7. WindowTrue'  BY <1>1 DEF WindowTrue
<1> QED BY <1>3, <1>4, <1>6, <1>7

LEMMA BootCache == CacheInv /\ Boot => CacheInv'
<1> SUFFICES ASSUME CacheInv, Boot PROVE CacheInv'  OBVIOUS
<1>1. pc = "boot" /\ UNCHANGED <<disk, err, fptr, clust, sect, buf, call, ofs, rbuff, br>>
  BY DEF Boot
<1>2. media \in Cards /\ part \in 1..4 /\ res \in {"ok", "error"}
  BY <1>1 DEF CacheInv, PhaseInv, TypeOK
<1>3. PICK ok \in BOOLEAN :
         /\ CheckFs(0, ok)
         /\ \/ ok /\ Found(0) /\ UNCHANGED part
            \/ /\ ok /\ Layout[win'[1]][0] = "boot"
               /\ pc' = "scan" /\ part' = 1
               /\ UNCHANGED <<fs, obj, res>>
            \/ /\ (ok => Layout[win'[1]][0] = "none")
               /\ Fails /\ UNCHANGED <<fs, part>>
  BY DEF Boot
<1>4. /\ winsect' \in Nat \cup {Invalid} /\ win' \in Content \cup {None}
      /\ winsect' # Invalid => win' = <<media, winsect'>>
      /\ ok => win'[1] = media
  BY <1>2, <1>3, CheckFsTrue
<1>5. CASE ok /\ Found(0) /\ UNCHANGED part
  <2>1. /\ \/ /\ fs_type' = 1 /\ id' = id + 1
              /\ vol' \in Volumes /\ vol'[1] = media
              /\ pc' \in {"path", "idle"} /\ UNCHANGED obj
           \/ /\ UNCHANGED fs /\ pc' = "idle"
              /\ obj' \in {obj, [obj EXCEPT !.fs = FALSE]}
        /\ res' \in {res, "ok", "error"}
    BY <1>1, <1>4, <1>5, FoundIs
  <2> QED BY <1>1, <1>2, <1>4, <1>5, <2>1, FoundCache
<1>6. CASE /\ ok /\ Layout[win'[1]][0] = "boot"
           /\ pc' = "scan" /\ part' = 1
           /\ UNCHANGED <<fs, obj, res>>
  BY <1>1, <1>2, <1>4, <1>6, FoundCache
<1>7. CASE (ok => Layout[win'[1]][0] = "none") /\ Fails /\ UNCHANGED <<fs, part>>
  BY <1>1, <1>2, <1>4, <1>7, FoundCache DEF Fails, Return
<1> QED BY <1>3, <1>5, <1>6, <1>7

LEMMA ScanCache == CacheInv /\ Scan => CacheInv'
<1> SUFFICES ASSUME CacheInv, Scan PROVE CacheInv'  OBVIOUS
<1>1. pc = "scan" /\ UNCHANGED <<disk, err, fptr, clust, sect, buf, call, ofs, rbuff, br>>
  BY DEF Scan
<1>2. media \in Cards /\ part \in 1..4 /\ res \in {"ok", "error"}
  BY <1>1 DEF CacheInv, PhaseInv, TypeOK
<1>3. PICK ok \in BOOLEAN :
         /\ IF Base[media][part] = 0 THEN ~ok /\ UNCHANGED window
            ELSE CheckFs(Base[media][part], ok)
         /\ \/ ok /\ Found(part) /\ part' = 1
            \/ /\ ok => Layout[win'[1]][part] \in {"boot", "none"}
               /\ IF part < 4 THEN part' = part + 1 /\ UNCHANGED <<pc, obj, res>>
                  ELSE Fails /\ part' = 1
               /\ UNCHANGED fs
  BY DEF Scan
<1>4. /\ winsect' \in Nat \cup {Invalid} /\ win' \in Content \cup {None}
      /\ winsect' # Invalid => win' = <<media, winsect'>>
      /\ ok => win'[1] = media
  <2>1. CASE Base[media][part] = 0
    BY <1>1, <1>3, <2>1 DEF window, CacheInv, TypeOK, WindowTrue
  <2>2. CASE Base[media][part] # 0
    <3>1. Base[media][part] \in Nat  BY <1>2, Constants
    <3> QED BY <1>2, <1>3, <2>2, <3>1, CheckFsTrue
  <2> QED BY <2>1, <2>2
<1>5. CASE ok /\ Found(part) /\ part' = 1
  <2>1. /\ \/ /\ fs_type' = 1 /\ id' = id + 1
              /\ vol' \in Volumes /\ vol'[1] = media
              /\ pc' \in {"path", "idle"} /\ UNCHANGED obj
           \/ /\ UNCHANGED fs /\ pc' = "idle"
              /\ obj' \in {obj, [obj EXCEPT !.fs = FALSE]}
        /\ res' \in {res, "ok", "error"}
    BY <1>1, <1>2, <1>4, <1>5, FoundIs
  <2> QED BY <1>1, <1>2, <1>4, <1>5, <2>1, FoundCache
<1>6. CASE UNCHANGED fs /\ part < 4 /\ part' = part + 1 /\ UNCHANGED <<pc, obj, res>>
  BY <1>1, <1>2, <1>4, <1>6, FoundCache
<1>7. CASE UNCHANGED fs /\ Fails /\ part' = 1
  BY <1>1, <1>2, <1>4, <1>7, FoundCache DEF Fails, Return
<1> QED BY <1>3, <1>5, <1>6, <1>7

\* A new object has nothing in its buffer.
LEMMA PathCache == CacheInv /\ FollowPath => CacheInv'
<1> SUFFICES ASSUME CacheInv, FollowPath PROVE CacheInv'  OBVIOUS
<1> USE DEF CacheInv, disk, fs, args
<1>1. /\ pc = "path" /\ fs_type # 0 /\ vol \in Volumes
      /\ UNCHANGED <<disk, fs, clust, buf, args, rbuff, br>>
  BY DEF FollowPath, PhaseInv
<1>2. PICK ok \in BOOLEAN :
         /\ MoveWindow(Geo.dir, ok)
         /\ \/ /\ ok /\ Return("ok")
               /\ \E v \in Volumes :
                     /\ win' = <<vol[1], Geo.dir>> => v = vol
                     /\ obj' = [fs |-> TRUE, id |-> id, sclust |-> Entry[v].sclust,
                                objsize |-> Entry[v].objsize]
               /\ err' = FALSE /\ fptr' = 0 /\ sect' = 0
            \/ Fails /\ UNCHANGED <<err, fptr, sect>>
  BY DEF FollowPath
<1>3. /\ winsect' \in Nat \cup {Invalid} /\ win' \in Content \cup {None}
      /\ winsect' # Invalid => win' = <<media, winsect'>>
  <2>1. Geo.dir \in Nat  BY <1>1, Constants DEF Geo
  <2> QED BY <1>1, <1>2, <2>1, MoveWindowTrue
<1>4. /\ obj' \in [fs : BOOLEAN, id : Nat, sclust : Nat, objsize : Nat]
      /\ obj'.id <= id /\ pc' = "idle" /\ res' \in {"ok", "error"}
      /\ \/ err' = FALSE /\ fptr' = 0 /\ sect' = 0
         \/ /\ obj' \in {obj, [obj EXCEPT !.fs = FALSE]}
            /\ UNCHANGED <<err, fptr, sect>>
  <2>1. CASE Fails /\ UNCHANGED <<err, fptr, sect>>
    BY <2>1 DEF Fails, Return, TypeOK, PhaseInv
  <2>2. CASE /\ ok /\ Return("ok")
             /\ \E v \in Volumes :
                   /\ win' = <<vol[1], Geo.dir>> => v = vol
                   /\ obj' = [fs |-> TRUE, id |-> id, sclust |-> Entry[v].sclust,
                              objsize |-> Entry[v].objsize]
             /\ err' = FALSE /\ fptr' = 0 /\ sect' = 0
    <3>1. PICK v \in Volumes :
             obj' = [fs |-> TRUE, id |-> id, sclust |-> Entry[v].sclust,
                     objsize |-> Entry[v].objsize]
      BY <2>2
    <3>2. Entry[v].sclust \in Nat /\ Entry[v].objsize \in Nat  BY Constants
    <3> QED BY <2>2, <3>1, <3>2 DEF Return, TypeOK
  <2> QED BY <1>2, <2>1, <2>2
<1>5. err' \in BOOLEAN  BY <1>4, Zenon DEF TypeOK
<1>6. ready' \in BOOLEAN  BY <1>1, Zenon DEF TypeOK
<1>7. TypeOK'
  <2>1. /\ slot' \in Cards \cup {NoCard} /\ media' \in Cards \cup {NoCard}
        /\ Stat' \in 0..1 /\ fs_type' \in 0..1 /\ id' \in Nat /\ vol' \in Volumes \cup {None}
    BY <1>1 DEF TypeOK
  <2>2. /\ fptr' \in Nat /\ clust' \in Nat /\ sect' \in Nat
        /\ buf' \in Content \cup {None}
        /\ pc' \in {"idle", "init", "boot", "scan", "path", "read", "sector", "seek"}
        /\ call' \in {"mount", "open", "read", "seek"} /\ part' \in 1..4
        /\ ofs' \in Nat /\ br' \in 0..MaxRead
    BY <1>1, <1>4 DEF TypeOK
  <2> QED BY <1>3, <1>4, <1>5, <1>6, <2>1, <2>2 DEF TypeOK
<1>8. PhaseInv'  BY <1>1, <1>4 DEF PhaseInv, Calls, TypeOK
<1>9. WindowTrue'  BY <1>1, <1>3 DEF WindowTrue
<1>10. obj'.objsize \in Nat  BY <1>4
<1>11. CASE err' = FALSE /\ fptr' = 0 /\ sect' = 0
  BY <1>4, <1>7, <1>8, <1>9, <1>10, <1>11 DEF RoomInv, BufferTrue, Calls
<1>12. CASE obj' \in {obj, [obj EXCEPT !.fs = FALSE]} /\ UNCHANGED <<err, fptr, sect>>
  <2>1. Opened' => Opened /\ obj' = obj  BY <1>1, <1>12 DEF Opened, TypeOK
  <2>2. RoomInv' /\ BufferTrue'
    BY <1>1, <1>4, <1>12, <2>1 DEF RoomInv, BufferTrue, Calls
  <2> QED BY <1>7, <1>8, <1>9, <2>2
<1> QED BY <1>4, <1>11, <1>12

\* What a step of f_read or f_lseek has to leave.
LEMMA CallCache ==
    ASSUME CacheInv, Opened, UNCHANGED Kept, UNCHANGED <<obj, part>>,
           winsect' \in Nat \cup {Invalid}, win' \in Content \cup {None},
           winsect' # Invalid => win' = <<media, winsect'>>,
           err' \in BOOLEAN, buf' \in Content \cup {None},
           fptr' \in Nat, clust' \in Nat, sect' \in Nat, ofs' \in Nat, br' \in 0..MaxRead,
           pc' \in {"idle"} \cup Calls, call' \in {"mount", "open", "read", "seek"},
           res' \in {"ok", "error"},
           ~err' => fptr' <= obj.objsize /\ (sect' # 0 => buf' = <<media, sect'>>),
           pc' \in Calls => ~err' /\ fptr' + ofs' <= obj.objsize,
           pc' \in {"read", "sector"} => br' + ofs' <= MaxRead
    PROVE  CacheInv'
<1> USE DEF CacheInv, Kept, disk, fs
<1>1. fs_type # 0 /\ obj.fs /\ obj.id = id  BY DEF Opened
<1>2. Opened' <=> ~err'  BY <1>1 DEF Opened
<1>3. ready' \in BOOLEAN  BY Zenon DEF TypeOK
<1>4. TypeOK'
  <2>1. /\ slot' \in Cards \cup {NoCard} /\ media' \in Cards \cup {NoCard}
        /\ Stat' \in 0..1 /\ fs_type' \in 0..1 /\ id' \in Nat /\ vol' \in Volumes \cup {None}
        /\ obj' \in [fs : BOOLEAN, id : Nat, sclust : Nat, objsize : Nat]
        /\ part' \in 1..4
    BY DEF TypeOK
  <2>2. pc' \in {"idle", "init", "boot", "scan", "path", "read", "sector", "seek"}
    BY DEF Calls
  <2> QED BY <1>3, <2>1, <2>2 DEF TypeOK
<1>5. PhaseInv'  BY <1>1 DEF PhaseInv, Calls, TypeOK
<1>6. RoomInv' /\ BufferTrue'  BY <1>2 DEF RoomInv, BufferTrue
<1>7. WindowTrue'  BY <1>1 DEF WindowTrue
<1> QED BY <1>4, <1>5, <1>6, <1>7

\* An ABORT spoils the object, whatever it leaves in the buffers.
LEMMA AbortCache ==
    ASSUME CacheInv, Opened, Abort, UNCHANGED Kept, UNCHANGED <<obj, part, call, br>>,
           winsect' \in Nat \cup {Invalid}, win' \in Content \cup {None},
           winsect' # Invalid => win' = <<media, winsect'>>,
           buf' \in Content \cup {None},
           fptr' \in Nat, clust' \in Nat, sect' \in Nat, ofs' \in Nat
    PROVE  CacheInv'
<1>1. pc' = "idle" /\ res' = "error" /\ err' = TRUE  BY DEF Abort, Return
<1>2. call' \in {"mount", "open", "read", "seek"} /\ br' \in 0..MaxRead
  BY DEF CacheInv, TypeOK
<1> QED BY <1>1, <1>2, CallCache DEF Calls

\* What is so wherever a call is.
LEMMA InCall ==
    ASSUME CacheInv
    PROVE  /\ WindowTrue /\ TypeOK
           /\ Usable => Opened
           /\ pc \in Calls => Opened
           /\ Opened => fs_type # 0 /\ vol \in Volumes /\ media \in Cards /\ vol[1] = media
                        /\ winsect \in Nat \cup {Invalid} /\ win \in Content \cup {None}
                        /\ (winsect # Invalid => win = <<media, winsect>>)
                        /\ ~err /\ obj.objsize \in Nat /\ obj.sclust \in Nat
                        /\ Geo.csize \in Nat \ {0} /\ Bcs \in Nat \ {0} /\ SS \in Nat \ {0}
                        /\ fptr <= obj.objsize /\ (sect # 0 => buf = <<media, sect>>)
           /\ pc \in {"read", "sector"} => br + ofs <= MaxRead
           /\ pc \in Calls => fptr + ofs <= obj.objsize
           /\ fptr \in Nat /\ ofs \in Nat /\ clust \in Nat /\ sect \in Nat
           /\ br \in 0..MaxRead /\ MaxRead \in Nat
           /\ buf \in Content \cup {None} /\ err \in BOOLEAN
           /\ call \in {"mount", "open", "read", "seek"} /\ res \in {"ok", "error"}
<1> USE DEF CacheInv
<1>1. Usable => Opened  BY DEF Usable, IsValid, Opened
<1>2. pc \in Calls => Opened /\ fptr + ofs <= obj.objsize  BY DEF RoomInv
<1>3. pc \in {"read", "sector"} => br + ofs <= MaxRead  BY DEF RoomInv
<1>4. ASSUME Opened
      PROVE  /\ fs_type # 0 /\ vol \in Volumes /\ media \in Cards /\ vol[1] = media
             /\ (winsect # Invalid => win = <<media, winsect>>)
             /\ ~err
  BY <1>4 DEF Opened, PhaseInv, WindowTrue
<1>5. ASSUME Opened
      PROVE  /\ obj.objsize \in Nat /\ obj.sclust \in Nat
             /\ fptr <= obj.objsize /\ (sect # 0 => buf = <<media, sect>>)
  BY <1>5 DEF RoomInv, BufferTrue, TypeOK
<1>6. ASSUME Opened
      PROVE  Geo.csize \in Nat \ {0} /\ Bcs \in Nat \ {0} /\ SS \in Nat \ {0}
  BY <1>4, <1>6, Constants DEF Geo, Bcs
<1>7. /\ winsect \in Nat \cup {Invalid} /\ win \in Content \cup {None}
      /\ fptr \in Nat /\ ofs \in Nat /\ clust \in Nat /\ sect \in Nat
      /\ br \in 0..MaxRead /\ buf \in Content \cup {None} /\ err \in BOOLEAN
      /\ call \in {"mount", "open", "read", "seek"} /\ res \in {"ok", "error"}
  BY DEF TypeOK
<1>8. MaxRead \in Nat  BY Constants
<1> QED BY <1>1, <1>2, <1>3, <1>4, <1>5, <1>6, <1>7, <1>8

\* The lesser of two numbers.
LEMMA LeastIs ==
    ASSUME NEW a \in Nat, NEW b \in Nat
    PROVE  Least(a, b) \in Nat /\ Least(a, b) <= a /\ Least(a, b) <= b
BY DEF Least

\* What is clipped to the room there is fits.
LEMMA RoomFor ==
    ASSUME NEW n \in Nat, NEW o \in Nat, NEW at \in Nat, NEW size \in Nat, NEW max \in Nat,
           o <= n, n <= max, o <= size - at
    PROVE  at + o <= size /\ 0 + o <= max
OBVIOUS

LEMMA ReadCache == CacheInv /\ (\E n \in 0..MaxRead : Read(n)) => CacheInv'
<1> SUFFICES ASSUME CacheInv, NEW n \in Nat, n <= MaxRead, Read(n) PROVE CacheInv'
  BY Constants
<1>1. Opened  BY InCall DEF Read
<1>2. /\ fptr \in Nat /\ obj.objsize \in Nat /\ MaxRead \in Nat
      /\ obj.objsize - fptr \in Nat
  BY <1>1, InCall
<1>3. ofs' \in Nat /\ ofs' <= n /\ ofs' <= obj.objsize - fptr
  BY <1>2, LeastIs DEF Read
<1>4. /\ UNCHANGED Kept /\ UNCHANGED <<obj, part, err, fptr, clust, sect, buf, winsect, win, res>>
      /\ br' = 0 /\ pc' = "read" /\ call' = "read"
  BY DEF Read, fil, window, NewBuffer
<1>5. fptr' + ofs' <= obj.objsize /\ br' + ofs' <= MaxRead /\ br' \in 0..MaxRead
  <2>1. fptr' = fptr /\ br' = 0 /\ 0 \in 0..MaxRead  BY <1>2, <1>4
  <2>2. fptr + ofs' <= obj.objsize /\ 0 + ofs' <= MaxRead  BY <1>2, <1>3, RoomFor
  <2> QED BY <2>1, <2>2
<1>6. /\ winsect' \in Nat \cup {Invalid} /\ win' \in Content \cup {None}
      /\ winsect' # Invalid => win' = <<media, winsect'>>
      /\ err' \in BOOLEAN /\ ~err' /\ buf' \in Content \cup {None}
  BY <1>1, <1>4, InCall
<1>7. /\ fptr' \in Nat /\ clust' \in Nat /\ sect' \in Nat /\ res' \in {"ok", "error"}
      /\ fptr' <= obj.objsize /\ (sect' # 0 => buf' = <<media, sect'>>)
  BY <1>1, <1>4, InCall
<1> QED BY <1>1, <1>3, <1>4, <1>5, <1>6, <1>7, CallCache DEF Calls

LEMMA ReadDoneCache == CacheInv /\ ReadDone => CacheInv'
<1> SUFFICES ASSUME CacheInv, ReadDone PROVE CacheInv'  OBVIOUS
<1>1. Opened  BY InCall DEF ReadDone, Calls
<1>2. /\ UNCHANGED Kept
      /\ UNCHANGED <<obj, part, err, fptr, clust, sect, buf, winsect, win, ofs, call, br>>
      /\ pc' = "idle" /\ res' = "ok"
  BY DEF ReadDone, Return, fil, window, args
<1> QED BY <1>1, <1>2, InCall, CallCache DEF Calls

LEMMA ReadClusterCache == CacheInv /\ ReadCluster => CacheInv'
<1> SUFFICES ASSUME CacheInv, ReadCluster PROVE CacheInv'  OBVIOUS
<1>1. pc = "read" /\ Opened  BY InCall DEF ReadCluster, Calls
<1>2. UNCHANGED Kept /\ UNCHANGED <<obj, part, call, fptr, sect, buf, ofs, rbuff, br>>
  BY DEF ReadCluster, args
<1>3. PICK c \in Clusters :
         /\ IF fptr = 0 THEN c = obj.sclust /\ UNCHANGED window ELSE GetFat(clust, c)
         /\ IF c < 2 THEN Abort /\ UNCHANGED clust
            ELSE clust' = c /\ pc' = "sector" /\ UNCHANGED <<err, res>>
  BY DEF ReadCluster
<1>4. /\ winsect' \in Nat \cup {Invalid} /\ win' \in Content \cup {None}
      /\ winsect' # Invalid => win' = <<media, winsect'>>
  <2>1. CASE fptr = 0
    BY <1>1, <1>3, <2>1, InCall DEF window
  <2>2. CASE fptr # 0
    BY <1>1, <1>3, <2>2, InCall, GetFatTrue DEF CacheInv
  <2> QED BY <2>1, <2>2
<1>5. CASE c < 2
  BY <1>1, <1>2, <1>3, <1>4, <1>5, InCall, AbortCache
<1>6. CASE ~(c < 2)
  <2>1. c \in Nat
    <3>1. Geo.n_fatent \in Nat  BY <1>1, InCall, Constants DEF Geo
    <3> QED BY <1>6, <3>1 DEF Clusters, DISK_ERR
  <2>2. clust' = c /\ pc' = "sector" /\ UNCHANGED <<err, res>>  BY <1>3, <1>6
  <2> QED BY <1>1, <1>2, <1>4, <2>1, <2>2, InCall, CallCache DEF Calls
<1> QED BY <1>5, <1>6

LEMMA ReadSameClusterCache == CacheInv /\ ReadSameCluster => CacheInv'
<1> SUFFICES ASSUME CacheInv, ReadSameCluster PROVE CacheInv'  OBVIOUS
<1>1. pc = "read" /\ Opened  BY InCall DEF ReadSameCluster, Calls
<1>2. /\ UNCHANGED Kept
      /\ UNCHANGED <<obj, part, err, fptr, clust, sect, buf, winsect, win, ofs, call, br, res>>
      /\ pc' = "sector"
  BY DEF ReadSameCluster, fil, window, args, out
<1> QED BY <1>1, <1>2, InCall, CallCache DEF Calls

\* A copy takes as much from the goal as it adds to the position.
LEMMA CopyMoves ==
    ASSUME CacheInv, pc \in {"read", "sector"}, NEW n \in Nat, n <= ofs,
           fptr' = fptr + n, br' = br + n, ofs' = ofs - n
    PROVE  /\ fptr' \in Nat /\ ofs' \in Nat /\ br' \in 0..MaxRead
           /\ fptr' <= obj.objsize /\ fptr' + ofs' <= obj.objsize
           /\ br' + ofs' <= MaxRead
<1>1. pc \in Calls /\ Opened  BY InCall DEF Calls
<1>2. /\ fptr \in Nat /\ ofs \in Nat /\ br \in Nat /\ MaxRead \in Nat /\ obj.objsize \in Nat
      /\ fptr + ofs <= obj.objsize /\ br + ofs <= MaxRead
  BY <1>1, InCall
<1> QED BY <1>2

LEMMA ReadPartCache == CacheInv /\ ReadPart => CacheInv'
<1> SUFFICES ASSUME CacheInv, ReadPart PROVE CacheInv'  OBVIOUS
<1> DEFINE n == Least(ofs, SS - (fptr % SS))
<1>1. pc = "read" /\ Opened  BY InCall DEF ReadPart, Calls
<1>2. /\ UNCHANGED Kept
      /\ UNCHANGED <<obj, part, err, clust, sect, buf, winsect, win, call, res, pc>>
      /\ fptr' = fptr + n /\ br' = br + n /\ ofs' = ofs - n
  BY DEF ReadPart, Copy, window
<1>3. n \in Nat /\ n <= ofs
  <2>1. fptr % SS \in 0..(SS - 1) /\ SS \in Nat /\ ofs \in Nat  BY <1>1, InCall, DivMod
  <2>2. SS - (fptr % SS) \in Nat  BY <2>1
  <2> QED BY <2>1, <2>2, LeastIs
<1> HIDE DEF n
<1>4. /\ fptr' \in Nat /\ ofs' \in Nat /\ br' \in 0..MaxRead
      /\ fptr' <= obj.objsize /\ fptr' + ofs' <= obj.objsize
      /\ br' + ofs' <= MaxRead
  BY <1>1, <1>2, <1>3, CopyMoves
<1> QED BY <1>1, <1>2, <1>4, InCall, CallCache DEF Calls

\* Bytes of whole sectors are no more than are wanted.
LEMMA ReadWholeRoom ==
    ASSUME CacheInv, pc = "sector"
    PROVE  LET cc == Least(ofs \div SS, Geo.csize - Csect) IN
           cc \in Nat /\ cc <= Geo.csize - Csect /\ cc * SS \in Nat /\ cc * SS <= ofs
<1> DEFINE cc == Least(ofs \div SS, Geo.csize - Csect)
<1>1. /\ Opened /\ ofs \in Nat /\ fptr \in Nat /\ SS \in Nat \ {0} /\ Geo.csize \in Nat \ {0}
  BY InCall DEF Calls
<1>2. ofs \div SS \in Nat /\ fptr \div SS \in Nat  BY <1>1, DivMod
<1>3. Csect \in 0..(Geo.csize - 1)  BY <1>1, <1>2, DivMod DEF Csect
<1>4. Geo.csize - Csect \in Nat  BY <1>1, <1>3
<1>5. cc \in Nat /\ cc <= ofs \div SS /\ cc <= Geo.csize - Csect  BY <1>2, <1>4, LeastIs
<1> HIDE DEF cc
<1>6. cc * SS \in Nat /\ cc * SS <= ofs  BY <1>1, <1>5, WholeFit
<1> QED BY <1>5, <1>6 DEF cc

LEMMA ReadWholeCache == CacheInv /\ ReadWhole => CacheInv'
<1> SUFFICES ASSUME CacheInv, ReadWhole PROVE CacheInv'  OBVIOUS
<1> DEFINE cc == Least(ofs \div SS, Geo.csize - Csect)
<1>1. pc = "sector" /\ Opened  BY InCall DEF ReadWhole, Calls
<1>2. cc * SS \in Nat /\ cc * SS <= ofs  BY <1>1, ReadWholeRoom
<1>3. UNCHANGED Kept /\ UNCHANGED <<obj, part, clust, sect, buf, winsect, win, call>>
  BY DEF ReadWhole, window
<1>4. \/ /\ br' = br + cc * SS /\ fptr' = fptr + cc * SS /\ ofs' = ofs - cc * SS
         /\ pc' = "read" /\ UNCHANGED <<err, res>>
      \/ Abort /\ UNCHANGED <<br, fptr, ofs>>
  BY DEF ReadWhole
<1> HIDE DEF cc
<1>5. CASE Abort /\ UNCHANGED <<br, fptr, ofs>>
  BY <1>1, <1>3, <1>5, InCall, AbortCache
<1>6. CASE /\ br' = br + cc * SS /\ fptr' = fptr + cc * SS /\ ofs' = ofs - cc * SS
           /\ pc' = "read" /\ UNCHANGED <<err, res>>
  <2>1. /\ fptr' \in Nat /\ ofs' \in Nat /\ br' \in 0..MaxRead
        /\ fptr' <= obj.objsize /\ fptr' + ofs' <= obj.objsize
        /\ br' + ofs' <= MaxRead
    BY <1>1, <1>2, <1>6, CopyMoves
  <2> QED BY <1>1, <1>3, <1>6, <2>1, InCall, CallCache DEF Calls
<1> QED BY <1>4, <1>5, <1>6

\* A sector within a cluster.
LEMMA InCluster ==
    ASSUME CacheInv, Opened, NEW k \in Nat
    PROVE  /\ Clst2Sect(clust) + k \in Nat
           /\ Clst2Sect(clust) # 0 => Clst2Sect(clust) + k # 0
<1>1. Clst2Sect(clust) \in Nat  BY InCall, SectorIs
<1> QED BY <1>1

LEMMA CsectIs ==
    ASSUME CacheInv, Opened
    PROVE  Csect \in Nat /\ Csect <= Geo.csize - 1
<1>1. fptr \in Nat /\ SS \in Nat \ {0} /\ Geo.csize \in Nat \ {0}  BY InCall
<1>2. fptr \div SS \in Nat  BY <1>1, DivMod
<1>3. Csect \in 0..(Geo.csize - 1)  BY <1>1, <1>2, DivMod DEF Csect
<1> QED BY <1>1, <1>3

LEMMA ReadSectorCache == CacheInv /\ ReadSector => CacheInv'
<1> SUFFICES ASSUME CacheInv, ReadSector PROVE CacheInv'  OBVIOUS
<1> DEFINE s == Clst2Sect(clust) + Csect
<1>1. pc = "sector" /\ Opened  BY InCall DEF ReadSector, Calls
<1>2. s \in Nat  BY <1>1, CsectIs, InCluster
<1>3. UNCHANGED Kept /\ UNCHANGED <<obj, part, clust, winsect, win, call>>
  BY DEF ReadSector, window
<1>4. ofs \in Nat /\ ofs <= ofs  BY InCall
<1>5. \/ Copy(buf, ofs) /\ pc' = "read" /\ UNCHANGED <<sect, buf, err, res>>
      \/ /\ buf' = <<media, s>> /\ sect' = s /\ Copy(buf', ofs)
         /\ pc' = "read" /\ UNCHANGED <<err, res>>
      \/ buf' = None /\ Abort /\ UNCHANGED <<sect, rbuff, br, fptr, ofs>>
      \/ buf' = <<media, s>> /\ Abort /\ UNCHANGED <<sect, rbuff, br, fptr, ofs>>
  BY DEF ReadSector
<1> HIDE DEF s
<1>6. <<media, s>> \in Content  BY <1>1, <1>2, InCall DEF Content
<1>7. CASE Abort /\ buf' \in {None, <<media, s>>} /\ UNCHANGED <<sect, rbuff, br, fptr, ofs>>
  BY <1>1, <1>3, <1>6, <1>7, InCall, AbortCache
<1>8. CASE /\ fptr' = fptr + ofs /\ br' = br + ofs /\ ofs' = ofs - ofs
           /\ pc' = "read" /\ UNCHANGED <<err, res>>
           /\ \/ UNCHANGED <<sect, buf>>
              \/ sect' = s /\ buf' = <<media, s>>
  <2>1. /\ fptr' \in Nat /\ ofs' \in Nat /\ br' \in 0..MaxRead
        /\ fptr' <= obj.objsize /\ fptr' + ofs' <= obj.objsize
        /\ br' + ofs' <= MaxRead
    BY <1>1, <1>4, <1>8, CopyMoves
  <2>2. /\ sect' \in Nat /\ buf' \in Content \cup {None}
        /\ sect' # 0 => buf' = <<media, sect'>>
    BY <1>1, <1>2, <1>6, <1>8, InCall
  <2> QED BY <1>1, <1>3, <1>8, <2>1, <2>2, InCall, CallCache DEF Calls
<1> QED BY <1>5, <1>7, <1>8 DEF Copy

LEMMA NoSectorCache == CacheInv /\ NoSector => CacheInv'
<1> SUFFICES ASSUME CacheInv, NoSector PROVE CacheInv'  OBVIOUS
<1>1. pc = "sector" /\ Opened  BY InCall DEF NoSector, Calls
<1>2. /\ UNCHANGED Kept /\ Abort
      /\ UNCHANGED <<obj, part, winsect, win, call, fptr, clust, sect, buf, ofs, rbuff, br>>
  BY DEF NoSector, window, args
<1> QED BY <1>1, <1>2, InCall, AbortCache

\* Where f_lseek starts to count: the first cluster, or that of the byte before
\* the position if the goal is not before it.
LEMMA SeekFrom ==
    ASSUME NEW b \in Nat \ {0}, NEW to \in Nat, NEW at \in Nat, to > 0, at > 0,
           (to - 1) \div b >= (at - 1) \div b
    PROVE  /\ ((at - 1) \div b) * b \in Nat /\ ((at - 1) \div b) * b < to
           /\ (at - 1) \div b \in Nat
<1> DEFINE k == (at - 1) \div b
           m == (to - 1) \div b
<1>1. at - 1 \in Nat /\ to - 1 \in Nat  OBVIOUS
<1>2. k \in Nat /\ m \in Nat  BY <1>1, DivMod
<1>3. k <= m  BY <1>2
<1> HIDE DEF k
<1>4. k * b \in Nat /\ k * b <= to - 1  BY <1>1, <1>2, <1>3, WholeFit
<1>5. k * b < to  BY <1>1, <1>4
<1> QED BY <1>2, <1>4, <1>5 DEF k

LEMMA SeekCache == CacheInv /\ (\E n \in 0..MaxSeek : Seek(n)) => CacheInv'
<1> SUFFICES ASSUME CacheInv, NEW n \in 0..MaxSeek, Seek(n) PROVE CacheInv'  OBVIOUS
<1> DEFINE to == Clip(n)
           from == IF to > 0 /\ Onward(to) THEN ((fptr - 1) \div Bcs) * Bcs ELSE 0
<1>1. Opened  BY InCall DEF Seek
<1>2. /\ n \in Nat /\ fptr \in Nat /\ obj.objsize \in Nat /\ Bcs \in Nat \ {0}
      /\ clust \in Nat /\ obj.sclust \in Nat
  BY <1>1, InCall
<1>3. to \in Nat /\ to <= obj.objsize  BY <1>2, LeastIs DEF Clip
<1>4. from \in Nat /\ from <= to
  <2> HIDE DEF to
  <2>1. CASE to > 0 /\ Onward(to)
    BY <1>2, <1>3, <2>1, SeekFrom DEF Onward
  <2>2. CASE ~(to > 0 /\ Onward(to))
    BY <1>3, <2>2
  <2> QED BY <2>1, <2>2
<1>5. /\ UNCHANGED Kept /\ UNCHANGED <<obj, part, err, sect, buf, winsect, win, res>>
      /\ br' = 0 /\ pc' = "seek" /\ call' = "seek"
      /\ fptr' = from /\ ofs' \in {0, to - from}
  BY DEF Seek, window, NewBuffer
<1>6. clust' \in {obj.sclust, clust}  BY DEF Seek
<1> HIDE DEF to, from
<1>7. /\ fptr' \in Nat /\ ofs' \in Nat /\ clust' \in Nat
      /\ fptr' + ofs' <= obj.objsize /\ fptr' <= obj.objsize
  BY <1>2, <1>3, <1>4, <1>5, <1>6
<1>8. /\ winsect' \in Nat \cup {Invalid} /\ win' \in Content \cup {None}
      /\ winsect' # Invalid => win' = <<media, winsect'>>
      /\ err' \in BOOLEAN /\ ~err' /\ buf' \in Content \cup {None}
  BY <1>1, <1>5, InCall
<1>9. /\ sect' \in Nat /\ res' \in {"ok", "error"} /\ br' \in 0..MaxRead
      /\ sect' # 0 => buf' = <<media, sect'>>
  BY <1>1, <1>5, InCall
<1> QED BY <1>1, <1>5, <1>7, <1>8, <1>9, CallCache DEF Calls

LEMMA SeekFollowCache == CacheInv /\ SeekFollow => CacheInv'
<1> SUFFICES ASSUME CacheInv, SeekFollow PROVE CacheInv'  OBVIOUS
<1>1. pc = "seek" /\ Opened  BY InCall DEF SeekFollow, Calls
<1>2. /\ UNCHANGED Kept /\ UNCHANGED <<obj, part, call, sect, buf, rbuff, br>>
      /\ ofs > Bcs /\ ofs' = ofs - Bcs /\ fptr' = fptr + Bcs
  BY DEF SeekFollow
<1>3. PICK c \in Clusters :
         /\ GetFat(clust, c)
         /\ IF c \in 2..(Geo.n_fatent - 1)
            THEN clust' = c /\ UNCHANGED <<pc, err, res>>
            ELSE Abort /\ UNCHANGED clust
  BY DEF SeekFollow
<1>4. /\ winsect' \in Nat \cup {Invalid} /\ win' \in Content \cup {None}
      /\ winsect' # Invalid => win' = <<media, winsect'>>
  BY <1>1, <1>3, InCall, GetFatTrue DEF CacheInv
<1>5. /\ fptr \in Nat /\ ofs \in Nat /\ Bcs \in Nat /\ obj.objsize \in Nat
      /\ fptr + ofs <= obj.objsize
  BY <1>1, InCall DEF Calls
<1>6. /\ fptr' \in Nat /\ ofs' \in Nat
      /\ fptr' + ofs' <= obj.objsize /\ fptr' <= obj.objsize
  BY <1>2, <1>5
<1>7. CASE c \notin 2..(Geo.n_fatent - 1)
  BY <1>1, <1>2, <1>3, <1>4, <1>6, <1>7, InCall, AbortCache
<1>8. CASE c \in 2..(Geo.n_fatent - 1)
  <2>1. clust' \in Nat /\ pc' = "seek" /\ UNCHANGED <<err, res>>
    BY <1>1, <1>3, <1>8, Constants, InCall DEF Geo
  <2>2. /\ err' \in BOOLEAN /\ buf' \in Content \cup {None} /\ sect' \in Nat
        /\ sect' # 0 => buf' = <<media, sect'>>
        /\ ~err' /\ res' \in {"ok", "error"} /\ br' \in 0..MaxRead
        /\ call' \in {"mount", "open", "read", "seek"}
    BY <1>1, <1>2, <2>1, InCall
  <2> QED BY <1>1, <1>2, <1>4, <1>6, <2>1, <2>2, CallCache DEF Calls
<1> QED BY <1>7, <1>8

LEMMA SeekEndCache == CacheInv /\ SeekEnd => CacheInv'
<1> SUFFICES ASSUME CacheInv, SeekEnd PROVE CacheInv'  OBVIOUS
<1> DEFINE nsect == IF ofs % SS = 0 THEN 0 ELSE Clst2Sect(clust) + ofs \div SS
<1>1. pc = "seek" /\ Opened  BY InCall DEF SeekEnd, Calls
<1>2. /\ UNCHANGED Kept /\ UNCHANGED <<obj, part, call, clust, winsect, win, rbuff, br>>
      /\ fptr' = fptr + ofs /\ ofs' = 0
  BY DEF SeekEnd, window
<1>3. nsect \in Nat
  <2>1. ofs \div SS \in Nat  BY <1>1, InCall, DivMod
  <2> QED BY <1>1, <2>1, InCluster
<1>4. \/ Abort /\ UNCHANGED <<sect, buf>>
      \/ Return("ok") /\ UNCHANGED <<err, sect, buf>>
      \/ /\ buf' = <<media, nsect>> /\ sect' = nsect
         /\ Return("ok") /\ UNCHANGED err
      \/ Abort /\ UNCHANGED sect /\ buf' \in {None, <<media, nsect>>}
  BY DEF SeekEnd
<1> HIDE DEF nsect
<1>5. <<media, nsect>> \in Content  BY <1>1, <1>3, InCall DEF Content
<1>6. /\ fptr' \in Nat /\ ofs' \in Nat /\ fptr' <= obj.objsize
  BY <1>1, <1>2, InCall DEF Calls
<1>7. /\ winsect' \in Nat \cup {Invalid} /\ win' \in Content \cup {None}
      /\ winsect' # Invalid => win' = <<media, winsect'>>
      /\ clust' \in Nat /\ br' \in 0..MaxRead
      /\ call' \in {"mount", "open", "read", "seek"}
  BY <1>1, <1>2, InCall
<1>8. CASE Abort /\ UNCHANGED sect /\ buf' \in {None, buf, <<media, nsect>>}
  BY <1>1, <1>2, <1>5, <1>6, <1>7, <1>8, InCall, AbortCache
<1>9. CASE /\ Return("ok") /\ UNCHANGED err
           /\ \/ UNCHANGED <<sect, buf>>
              \/ buf' = <<media, nsect>> /\ sect' = nsect
  <2>1. pc' = "idle" /\ res' = "ok"  BY <1>9 DEF Return
  <2>2. /\ sect' \in Nat /\ buf' \in Content \cup {None} /\ err' \in BOOLEAN
        /\ sect' # 0 => buf' = <<media, sect'>>
    BY <1>1, <1>3, <1>5, <1>9, InCall
  <2> QED BY <1>1, <1>2, <1>6, <1>7, <2>1, <2>2, CallCache DEF Calls
<1> QED BY <1>4, <1>8, <1>9

-----------------------------------------------------------------------------
(* Theorems *)

\* Every step of the files preserves the truth of the caches.
LEMMA NextCache == CacheInv /\ [Next]_vars => CacheInv'
<1> SUFFICES ASSUME CacheInv, [Next]_vars PROVE CacheInv'  OBVIOUS
<1>1. CASE Step
  BY <1>1, InitializeCache, BootCache, ScanCache, PathCache, ReadDoneCache,
     ReadClusterCache, ReadSameClusterCache, ReadPartCache, ReadWholeCache,
     ReadSectorCache, NoSectorCache, SeekFollowCache, SeekEndCache DEF Step
<1>2. CASE Program
  BY <1>2, MountCache, OpenCache, RefusedCache, ReadCache, SeekCache DEF Program
<1>3. CASE User
  BY <1>3, UserCache
<1>4. CASE UNCHANGED vars
  BY <1>4 DEF vars, disk, fs, window, fil, args, out, CacheInv, TypeOK, PhaseInv, RoomInv,
              WindowTrue, BufferTrue, Opened, Calls, Content
<1> QED BY <1>1, <1>2, <1>3, <1>4 DEF Next

LEMMA CacheInvariant == Spec => []CacheInv
BY InitCache, NextCache, PTL DEF Spec

\* FatFile never takes its window or the buffer of a file for a sector that is
\* not there: on any cards, with any failures and changes of the card.
THEOREM CachesCorrect == Spec => []CachesTrue
<1>1. CacheInv => CachesTrue  BY DEF CacheInv, CachesTrue
<1> QED BY <1>1, CacheInvariant, PTL

-----------------------------------------------------------------------------
(* The current cluster of a file *)

\* The byte whose cluster is the current one, except while f_lseek counts.
Reached == IF pc = "sector" THEN fptr ELSE fptr - 1

ClusterInv ==
    Opened =>
        /\ obj.sclust = Entry[vol].sclust /\ obj.objsize = Entry[vol].objsize
        /\ pc = "sector" => fptr % SS = 0 /\ ofs > 0
        /\ pc = "seek" => /\ fptr % Bcs = 0
                          /\ ofs > 0 => clust = Chain[vol][fptr \div Bcs]
                          /\ ofs = 0 => fptr = 0
        /\ pc # "seek" /\ (fptr > 0 \/ pc = "sector") => clust = Chain[vol][Reached \div Bcs]
        /\ \/ fptr > 0 \/ pc = "sector"
           \/ pc = "seek" /\ ofs > 0
           => clust # 0 /\ obj.sclust # 0

\* A greater number has no lesser quotient.
LEMMA DivMono ==
    ASSUME NEW x \in Nat, NEW y \in Nat, NEW b \in Nat \ {0}, x <= y
    PROVE  x \div b <= y \div b
BY SMT

\* The chain of a file begins at its first cluster, and each link is an entry
\* of the table.
LEMMA ChainIs ==
    ASSUME NEW v \in Volumes, NEW k \in Nat,
           k + 1 <= Entry[v].objsize \div (Geometry[v].csize * SS)
    PROVE  Chain[v][k] \in DOMAIN Fat[v] => Chain[v][k + 1] = Fat[v][Chain[v][k]]
<1>1. Entry[v].objsize \div (Geometry[v].csize * SS) \in Nat
  BY Constants, DivMod
<1>2. k + 1 \in 0..(Entry[v].objsize \div (Geometry[v].csize * SS)) /\ k + 1 # 0
  BY <1>1
<1>3. k + 1 \in DOMAIN Chain[v] \ {0}  BY <1>2, FatAssumption
<1>4. Chain[v][k + 1] = IF Chain[v][(k + 1) - 1] \in DOMAIN Fat[v]
                        THEN Fat[v][Chain[v][(k + 1) - 1]] ELSE 1
  BY <1>3, FatAssumption
<1>5. (k + 1) - 1 = k  OBVIOUS
<1> QED BY <1>4, <1>5

LEMMA ChainFirst == ASSUME NEW v \in Volumes PROVE Chain[v][0] = Entry[v].sclust
BY FatAssumption

\* get_fat leads from a cluster of the file to the next one.
LEMMA Follows ==
    ASSUME CacheInv, Opened, NEW c \in Clusters, c >= 2, GetFat(clust, c),
           obj.objsize = Entry[vol].objsize,
           NEW k \in Nat, clust = Chain[vol][k], k + 1 <= obj.objsize \div Bcs
    PROVE  c = Chain[vol][k + 1]
<1>1. vol \in Volumes /\ clust \in Nat  BY InCall
<1>2. clust \in DOMAIN Fat[vol] /\ c = Fat[vol][clust]
  BY <1>1, InCall, GetFatTrue DEF CacheInv
<1>3. k + 1 <= Entry[vol].objsize \div (Geometry[vol].csize * SS)  BY DEF Bcs, Geo
<1> QED BY <1>1, <1>2, <1>3, ChainIs

\* The place of a file's position: its sector in the cluster, its byte there.
LEMMA PlaceIs ==
    ASSUME CacheInv, Opened
    PROVE  /\ Csect \in 0..(Geo.csize - 1) /\ fptr % SS \in 0..(SS - 1)
           /\ Csect * SS \in Nat /\ Csect * SS + SS <= Bcs
           /\ fptr \div Bcs = (fptr \div SS) \div Geo.csize
           /\ fptr % Bcs = Csect * SS + (fptr % SS)
           /\ Csect = 0 => Csect * SS = 0
           /\ Csect # 0 => Csect * SS >= SS
<1> DEFINE c == Geo.csize
<1>1. fptr \in Nat /\ SS \in Nat \ {0} /\ c \in Nat \ {0}  BY InCall
<1> HIDE DEF c
<1>2. LET k == (fptr \div SS) % c
          o == fptr % SS
      IN  /\ k \in 0..(c - 1) /\ o \in 0..(SS - 1)
          /\ k * SS \in Nat /\ k * SS + SS <= c * SS
          /\ fptr \div (c * SS) = (fptr \div SS) \div c
          /\ fptr % (c * SS) = k * SS + o
          /\ k = 0 => k * SS = 0
          /\ k # 0 => k * SS >= SS
  BY ONLY <1>1, Place
<1> QED BY <1>2, Zenon DEF c, Csect, Bcs

LEMMA InitCluster == Init => ClusterInv
BY DEF Init, ClusterInv, Opened

\* Calls that do not move in a file leave its cluster.
LEMMA StillCluster ==
    ASSUME CacheInv, ClusterInv,
           Opened' => Opened /\ UNCHANGED <<obj, vol, fptr, clust, ofs>>,
           Opened' => \/ pc' = pc
                      \/ pc' \notin {"sector", "seek"} /\ pc \notin {"sector", "seek"}
    PROVE  ClusterInv'
BY DEF ClusterInv, Reached, Bcs, Geo

\* find_volume changes what is mounted only for a volume no object knows.
LEMMA FsOrNew ==
    ASSUME Boot \/ Scan
    PROVE  UNCHANGED fs \/ (id' = id + 1 /\ UNCHANGED obj)
<1>1. ASSUME NEW i, Found(i)
      PROVE  UNCHANGED fs \/ (id' = id + 1 /\ UNCHANGED obj)
  BY <1>1 DEF Found, Return
<1>2. CASE Boot
  BY <1>1, <1>2 DEF Boot
<1>3. CASE Scan
  BY <1>1, <1>3 DEF Scan
<1> QED BY <1>2, <1>3

LEMMA OtherCluster ==
    ASSUME CacheInv, ClusterInv,
           Mount \/ Open \/ Initialize \/ Boot \/ Scan \/ Refused \/ User \/ ReadDone
    PROVE  ClusterInv'
<1>1. CASE Mount
  <2>1. ~Opened'  BY <1>1 DEF Mount, Opened
  <2> QED BY <2>1, StillCluster
<1>2. CASE Open
  <2>1. /\ UNCHANGED <<obj, vol, fptr, clust, ofs, id, err>>
        /\ fs_type' \in {0, fs_type} /\ pc' \in {"path", "init"} /\ pc = "idle"
    BY <1>2 DEF Open, fil
  <2>2. Opened' => Opened  BY <2>1 DEF Opened
  <2> QED BY <2>1, <2>2, StillCluster
<1>3. CASE Initialize
  <2>1. ~Opened'
    BY <1>3 DEF Initialize, Opened, fs, CacheInv, PhaseInv
  <2> QED BY <2>1, StillCluster
<1>4. CASE Boot \/ Scan
  <2>1. fs_type = 0 /\ pc \in {"boot", "scan"} /\ media \in Cards /\ part \in 1..4
    BY <1>4 DEF Boot, Scan, CacheInv, PhaseInv, TypeOK
  <2>2. CacheInv'  BY <1>4, BootCache, ScanCache
  <2>3. UNCHANGED fs \/ (id' = id + 1 /\ UNCHANGED obj)
    BY <1>4, FsOrNew
  <2>4. ~Opened'
    BY <2>1, <2>3 DEF Opened, CacheInv, PhaseInv, TypeOK, fs
  <2> QED BY <2>4, StillCluster
<1>5. CASE Refused
  <2>1. UNCHANGED <<obj, vol, fptr, clust, ofs, id, err, fs_type, pc>>
    BY <1>5 DEF Refused, Kept, fs, fil, args
  <2>2. Opened' => Opened  BY <2>1 DEF Opened
  <2> QED BY <2>1, <2>2, StillCluster
<1>6. CASE User
  <2>1. UNCHANGED <<obj, vol, fptr, clust, ofs, id, err, fs_type, pc>>
    BY <1>6 DEF User, fs, fil, args
  <2>2. Opened' => Opened  BY <2>1 DEF Opened
  <2> QED BY <2>1, <2>2, StillCluster
<1>7. CASE ReadDone
  <2>1. /\ UNCHANGED <<obj, vol, fptr, clust, ofs, id, err, fs_type>>
        /\ pc = "read" /\ pc' = "idle"
    BY <1>7 DEF ReadDone, Return, Kept, fs, fil, args
  <2>2. Opened' => Opened  BY <2>1 DEF Opened
  <2> QED BY <2>1, <2>2, StillCluster
<1> QED BY <1>1, <1>2, <1>3, <1>4, <1>5, <1>6, <1>7

LEMMA PathCluster == CacheInv /\ ClusterInv /\ FollowPath => ClusterInv'
<1> SUFFICES ASSUME CacheInv, ClusterInv, FollowPath PROVE ClusterInv'  OBVIOUS
<1>1. /\ pc = "path" /\ fs_type # 0 /\ vol \in Volumes
      /\ UNCHANGED <<fs_type, id, vol, clust, ofs>>
  BY DEF FollowPath, CacheInv, PhaseInv, fs, args
<1>2. PICK ok \in BOOLEAN :
         /\ MoveWindow(Geo.dir, ok)
         /\ \/ /\ ok /\ Return("ok")
               /\ \E v \in Volumes :
                     /\ win' = <<vol[1], Geo.dir>> => v = vol
                     /\ obj' = [fs |-> TRUE, id |-> id, sclust |-> Entry[v].sclust,
                                objsize |-> Entry[v].objsize]
               /\ err' = FALSE /\ fptr' = 0 /\ sect' = 0
            \/ Fails /\ UNCHANGED <<err, fptr, sect>>
  BY DEF FollowPath
<1>3. CASE Fails /\ UNCHANGED <<err, fptr, sect>>
  <2>1. pc' = "idle" /\ obj' \in {obj, [obj EXCEPT !.fs = FALSE]}
    BY <1>3 DEF Fails, Return
  <2>2. Opened' => Opened /\ UNCHANGED <<obj, vol, fptr, clust, ofs>>
    BY <1>1, <1>3, <2>1 DEF Opened, CacheInv, TypeOK
  <2> QED BY <1>1, <2>1, <2>2, StillCluster
<1>4. CASE /\ ok /\ Return("ok")
           /\ \E v \in Volumes :
                 /\ win' = <<vol[1], Geo.dir>> => v = vol
                 /\ obj' = [fs |-> TRUE, id |-> id, sclust |-> Entry[v].sclust,
                            objsize |-> Entry[v].objsize]
           /\ err' = FALSE /\ fptr' = 0 /\ sect' = 0
  <2>1. win' = <<vol[1], Geo.dir>>
    <3>1. Geo.dir \in Nat  BY <1>1, Constants DEF Geo
    <3> QED BY <1>1, <1>2, <1>4, <3>1, MoveWindowTrue DEF CacheInv
  <2>2. /\ obj' = [fs |-> TRUE, id |-> id, sclust |-> Entry[vol].sclust,
                   objsize |-> Entry[vol].objsize]
        /\ pc' = "idle" /\ fptr' = 0
    BY <1>4, <2>1 DEF Return
  <2>3. obj'.sclust = Entry[vol'].sclust /\ obj'.objsize = Entry[vol'].objsize
    BY <1>1, <2>2
  <2> QED BY <2>2, <2>3 DEF ClusterInv
<1> QED BY <1>2, <1>3, <1>4

LEMMA ReadBeginsCluster == CacheInv /\ ClusterInv /\ (\E n \in 0..MaxRead : Read(n)) => ClusterInv'
<1> SUFFICES ASSUME CacheInv, ClusterInv, NEW n \in 0..MaxRead, Read(n) PROVE ClusterInv'
  OBVIOUS
<1>1. /\ Opened /\ pc = "idle" /\ pc' = "read"
      /\ UNCHANGED <<obj, vol, fptr, clust>>
  BY InCall DEF Read, fil, Kept, fs
<1> QED BY <1>1 DEF ClusterInv, Reached, Bcs, Geo

LEMMA ReadClusterCluster == CacheInv /\ ClusterInv /\ ReadCluster => ClusterInv'
<1> SUFFICES ASSUME CacheInv, ClusterInv, ReadCluster PROVE ClusterInv'  OBVIOUS
<1>1. /\ pc = "read" /\ Opened /\ ofs > 0 /\ fptr % SS = 0 /\ Csect = 0
      /\ UNCHANGED <<obj, vol, fptr, ofs>>
  BY InCall DEF ReadCluster, Calls, Kept, fs, args
<1>2. /\ vol \in Volumes /\ fptr \in Nat /\ Bcs \in Nat \ {0} /\ SS \in Nat \ {0}
      /\ Geo.csize \in Nat \ {0} /\ clust \in Nat /\ obj.objsize \in Nat /\ ofs \in Nat
      /\ fptr + ofs <= obj.objsize
  BY <1>1, InCall DEF Calls
<1>3. fptr % Bcs = 0
  BY <1>1, PlaceIs
<1>4. PICK c \in Clusters :
         /\ IF fptr = 0 THEN c = obj.sclust /\ UNCHANGED window ELSE GetFat(clust, c)
         /\ IF c < 2 THEN Abort /\ UNCHANGED clust
            ELSE clust' = c /\ pc' = "sector" /\ UNCHANGED <<err, res>>
  BY DEF ReadCluster
<1>5. CASE c < 2
  BY <1>4, <1>5 DEF Abort, Opened, ClusterInv
<1>6. CASE ~(c < 2)
  <2>1. c >= 2
    <3>1. Geo.n_fatent \in Nat  BY <1>2, Constants DEF Geo
    <3> QED BY <1>6, <3>1 DEF Clusters, DISK_ERR
  <2>2. c = Chain[vol][fptr \div Bcs]
    <3>1. CASE fptr = 0
      <4>1. fptr \div Bcs = 0
        <5>1. 0 \div Bcs = 0  BY <1>2
        <5> QED BY <3>1, <5>1
      <4> QED BY <1>1, <1>2, <1>4, <3>1, <4>1, ChainFirst DEF ClusterInv
    <3>2. CASE fptr # 0
      <4> DEFINE k == (fptr - 1) \div Bcs
      <4>1. fptr > 0 /\ fptr - 1 \in Nat  BY <1>2, <3>2
      <4>2. k \in Nat /\ fptr \div Bcs = k + 1
        BY <1>2, <1>3, <4>1, NextCluster, DivMod
      <4>3. clust = Chain[vol][k]  BY <1>1, <4>1 DEF ClusterInv, Reached
      <4>4. k + 1 <= obj.objsize \div Bcs
        <5>1. fptr <= obj.objsize  BY <1>2
        <5> QED BY <1>2, <4>2, <5>1, DivMono
      <4>5. GetFat(clust, c) /\ obj.objsize = Entry[vol].objsize
        BY <1>1, <1>4, <3>2 DEF ClusterInv
      <4> HIDE DEF k
      <4>6. c = Chain[vol][k + 1]  BY <1>1, <2>1, <4>2, <4>3, <4>4, <4>5, Follows
      <4> QED BY <4>2, <4>6
    <3> QED BY <3>1, <3>2
  <2>3. clust' = c /\ pc' = "sector"  BY <1>4, <1>6
  <2>4. clust' # 0 /\ obj'.sclust # 0
    <3>1. CASE fptr = 0
      BY <1>1, <1>4, <2>1, <2>3, <3>1
    <3>2. CASE fptr # 0
      BY <1>1, <1>2, <2>1, <2>3, <3>2 DEF ClusterInv
    <3> QED BY <3>1, <3>2
  <2> QED BY <1>1, <2>2, <2>3, <2>4 DEF ClusterInv, Reached, Bcs, Geo
<1> QED BY <1>5, <1>6

LEMMA SameClusterCluster == CacheInv /\ ClusterInv /\ ReadSameCluster => ClusterInv'
<1> SUFFICES ASSUME CacheInv, ClusterInv, ReadSameCluster PROVE ClusterInv'  OBVIOUS
<1>1. /\ pc = "read" /\ Opened /\ ofs > 0 /\ fptr % SS = 0 /\ Csect # 0 /\ pc' = "sector"
      /\ UNCHANGED <<obj, vol, fptr, ofs, clust>>
  BY InCall DEF ReadSameCluster, Calls, Kept, fs, args, fil
<1>2. fptr \in Nat /\ Bcs \in Nat \ {0} /\ SS \in Nat \ {0} /\ Geo.csize \in Nat \ {0}
  BY <1>1, InCall
<1>3. fptr % Bcs >= SS /\ fptr % Bcs < Bcs
  BY <1>1, <1>2, PlaceIs, DivMod
<1>4. 1 \in Nat /\ 1 <= fptr % Bcs  BY <1>2, <1>3
<1>5. (fptr - 1) \div Bcs = fptr \div Bcs /\ fptr - 1 \in Nat
  BY <1>2, <1>4, SameDivBack
<1>6. (fptr - 1) \div Bcs = fptr \div Bcs /\ fptr > 0
  BY <1>2, <1>5
<1>7. clust = Chain[vol][fptr \div Bcs]  BY <1>1, <1>6 DEF ClusterInv, Reached
<1>8. clust' # 0 /\ obj'.sclust # 0  BY <1>1, <1>6 DEF ClusterInv
<1> QED BY <1>1, <1>7, <1>8 DEF ClusterInv, Reached, Bcs, Geo

\* Whole sectors of a cluster are within it.
LEMMA TimesMono ==
    ASSUME NEW k \in Nat, NEW n \in Nat, NEW c \in Nat, NEW s \in Nat \ {0}, k + n <= c
    PROVE  k * s + n * s <= c * s /\ (n > 0 => n * s > 0)
<1>1. PICK e \in Nat : c = k + n + e
  <2>1. c - (k + n) \in Nat /\ c = k + n + (c - (k + n))  OBVIOUS
  <2> QED BY <2>1
<1>2. (k + n + e) * s = k * s + n * s + e * s /\ e * s \in Nat  BY <1>1
<1>3. k * s + n * s <= c * s
  <2>1. k * s \in Nat /\ n * s \in Nat  OBVIOUS
  <2> QED BY <1>1, <1>2, <2>1
<1>4. n > 0 => n * s > 0
  <2> SUFFICES ASSUME n > 0 PROVE n * s > 0  OBVIOUS
  <2>1. PICK f \in Nat : n = f + 1
    <3>1. n - 1 \in Nat /\ n = (n - 1) + 1  OBVIOUS
    <3> QED BY <3>1
  <2>2. (f + 1) * s = f * s + s /\ f * s \in Nat  BY <2>1
  <2> QED BY <2>1, <2>2
<1> QED BY <1>3, <1>4

\* A copy from the cluster that f_read has reached stays in it.
LEMMA SectorMoves ==
    ASSUME CacheInv, ClusterInv, pc = "sector", NEW d \in Nat, d > 0,
           (fptr % Bcs) + d <= Bcs,
           pc' = "read", fptr' = fptr + d, UNCHANGED <<obj, vol, clust>>
    PROVE  ClusterInv' /\ (fptr' - 1) \div Bcs = fptr \div Bcs
<1>1. Opened /\ fptr \in Nat /\ Bcs \in Nat \ {0}  BY InCall DEF Calls
<1>2. d - 1 \in Nat /\ (fptr % Bcs) + (d - 1) < Bcs
  <2>1. fptr % Bcs \in Nat  BY <1>1, DivMod
  <2> QED BY <1>1, <2>1
<1>3. (fptr + (d - 1)) \div Bcs = fptr \div Bcs  BY <1>1, <1>2, SameDiv
<1>4. fptr' - 1 = fptr + (d - 1) /\ fptr' > 0  BY <1>1
<1>5. clust = Chain[vol][fptr \div Bcs]  BY <1>1 DEF ClusterInv, Reached
<1>6. clust' = Chain[vol'][(fptr' - 1) \div Bcs]  BY <1>3, <1>4, <1>5
<1>7. /\ obj'.sclust = Entry[vol'].sclust /\ obj'.objsize = Entry[vol'].objsize
      /\ clust' # 0 /\ obj'.sclust # 0
  BY <1>1 DEF ClusterInv
<1> QED BY <1>3, <1>4, <1>6, <1>7 DEF ClusterInv, Reached, Bcs, Geo

\* How far the bytes that f_read takes in one step are from the cluster's end.
LEMMA WholeInCluster ==
    ASSUME CacheInv, ClusterInv, pc = "sector",
           NEW cc \in Nat, cc > 0, cc <= Geo.csize - Csect
    PROVE  cc * SS \in Nat /\ cc * SS > 0 /\ (fptr % Bcs) + cc * SS <= Bcs
<1>1. Opened  BY InCall DEF Calls
<1>2. SS \in Nat \ {0} /\ Geo.csize \in Nat \ {0} /\ Csect \in Nat
  BY <1>1, InCall, CsectIs
<1>3. fptr % Bcs = Csect * SS
  BY <1>1, <1>2, PlaceIs DEF ClusterInv
<1>4. Csect + cc <= Geo.csize  BY <1>2
<1>5. Csect * SS + cc * SS <= Geo.csize * SS /\ cc * SS > 0
  <2> DEFINE k == Csect
             c == Geo.csize
  <2>1. k \in Nat /\ c \in Nat /\ k + cc <= c /\ SS \in Nat \ {0}  BY <1>2, <1>4
  <2> HIDE DEF k, c
  <2>2. k * SS + cc * SS <= c * SS /\ cc * SS > 0  BY <2>1, TimesMono
  <2> QED BY <2>2 DEF k, c
<1>6. cc * SS \in Nat  BY <1>2
<1> QED BY <1>3, <1>5, <1>6 DEF Bcs

LEMMA PartInCluster ==
    ASSUME CacheInv, ClusterInv, pc = "sector", ofs < SS
    PROVE  ofs \in Nat /\ ofs > 0 /\ (fptr % Bcs) + ofs <= Bcs
<1>1. Opened  BY InCall DEF Calls
<1>2. SS \in Nat \ {0} /\ ofs \in Nat /\ ofs > 0  BY <1>1, InCall DEF ClusterInv
<1>3. fptr % Bcs = Csect * SS /\ Csect * SS + SS <= Bcs /\ Csect * SS \in Nat /\ Bcs \in Nat
  BY <1>1, <1>2, PlaceIs, InCall DEF ClusterInv
<1> QED BY <1>2, <1>3

LEMMA ReadWholeCluster == CacheInv /\ ClusterInv /\ ReadWhole => ClusterInv'
<1> SUFFICES ASSUME CacheInv, ClusterInv, ReadWhole PROVE ClusterInv'  OBVIOUS
<1> DEFINE cc == Least(ofs \div SS, Geo.csize - Csect)
<1>1. pc = "sector" /\ cc > 0 /\ UNCHANGED <<obj, vol, clust>>  BY DEF ReadWhole, Kept, fs
<1>2. \/ fptr' = fptr + cc * SS /\ pc' = "read"
      \/ Abort
  BY DEF ReadWhole
<1>3. cc \in Nat /\ cc <= Geo.csize - Csect  BY <1>1, ReadWholeRoom
<1> HIDE DEF cc
<1>4. cc * SS \in Nat /\ cc * SS > 0 /\ (fptr % Bcs) + cc * SS <= Bcs
  BY <1>1, <1>3, WholeInCluster
<1>5. CASE Abort
  BY <1>5 DEF Abort, Opened, ClusterInv
<1>6. CASE fptr' = fptr + cc * SS /\ pc' = "read"
  BY <1>1, <1>4, <1>6, SectorMoves
<1> QED BY <1>2, <1>5, <1>6

LEMMA ReadSectorCluster == CacheInv /\ ClusterInv /\ ReadSector => ClusterInv'
<1> SUFFICES ASSUME CacheInv, ClusterInv, ReadSector PROVE ClusterInv'  OBVIOUS
<1>1. pc = "sector" /\ ofs < SS /\ UNCHANGED <<obj, vol, clust>>
  BY DEF ReadSector, Kept, fs
<1>2. \/ fptr' = fptr + ofs /\ pc' = "read"
      \/ Abort
  BY DEF ReadSector, Copy
<1>3. CASE Abort
  BY <1>3 DEF Abort, Opened, ClusterInv
<1>4. CASE fptr' = fptr + ofs /\ pc' = "read"
  BY <1>1, <1>4, PartInCluster, SectorMoves
<1> QED BY <1>2, <1>3, <1>4

LEMMA ReadPartCluster == CacheInv /\ ClusterInv /\ ReadPart => ClusterInv'
<1> SUFFICES ASSUME CacheInv, ClusterInv, ReadPart PROVE ClusterInv'  OBVIOUS
<1> DEFINE n == Least(ofs, SS - (fptr % SS))
<1>1. /\ pc = "read" /\ pc' = "read" /\ Opened /\ ofs > 0 /\ fptr % SS # 0
      /\ fptr' = fptr + n /\ UNCHANGED <<obj, vol, clust>>
  BY InCall DEF ReadPart, Copy, Kept, fs, Calls
<1>2. /\ fptr \in Nat /\ Bcs \in Nat \ {0} /\ SS \in Nat \ {0} /\ ofs \in Nat
      /\ fptr % SS \in 0..(SS - 1)
  BY <1>1, InCall, DivMod
<1>3. n \in Nat /\ n > 0 /\ n + (fptr % SS) <= SS
  BY <1>1, <1>2 DEF Least
<1> HIDE DEF n
<1>4. /\ Csect * SS \in Nat /\ Csect * SS + SS <= Bcs
      /\ fptr % Bcs = Csect * SS + (fptr % SS)
  BY <1>1, PlaceIs
<1>5. n - 1 \in Nat /\ (fptr % Bcs) + (n - 1) < Bcs /\ 1 <= fptr % Bcs /\ fptr > 0
  <2>1. fptr > 0
    <3>1. 0 % SS = 0  BY <1>2
    <3> QED BY <1>1, <1>2, <3>1
  <2> QED BY <1>1, <1>2, <1>3, <1>4, <2>1
<1>6. (fptr + (n - 1)) \div Bcs = fptr \div Bcs  BY <1>2, <1>5, SameDiv
<1>7. (fptr - 1) \div Bcs = fptr \div Bcs
  <2>1. 1 \in Nat  OBVIOUS
  <2> QED BY <1>2, <1>5, <2>1, SameDivBack
<1>8. fptr' - 1 = fptr + (n - 1) /\ fptr' > 0  BY <1>1, <1>2, <1>3
<1>9. clust = Chain[vol][fptr \div Bcs]  BY <1>1, <1>5, <1>7 DEF ClusterInv, Reached
<1>10. clust' = Chain[vol'][(fptr' - 1) \div Bcs]  BY <1>1, <1>6, <1>8, <1>9
<1>11. clust' # 0 /\ obj'.sclust # 0  BY <1>1, <1>5 DEF ClusterInv
<1> QED BY <1>1, <1>8, <1>10, <1>11 DEF ClusterInv, Reached, Bcs, Geo

LEMMA NoSectorCluster == CacheInv /\ ClusterInv /\ NoSector => ClusterInv'
BY DEF NoSector, Abort, Opened, ClusterInv

LEMMA SeekCluster == CacheInv /\ ClusterInv /\ (\E n \in 0..MaxSeek : Seek(n)) => ClusterInv'
<1> SUFFICES ASSUME CacheInv, ClusterInv, NEW n \in 0..MaxSeek, Seek(n) PROVE ClusterInv'
  OBVIOUS
<1> DEFINE to == Clip(n)
           k == (fptr - 1) \div Bcs
           from == IF to > 0 /\ Onward(to) THEN k * Bcs ELSE 0
<1>1. /\ Opened /\ pc = "idle" /\ pc' = "seek" /\ UNCHANGED <<obj, vol>>
      /\ fptr' = from /\ ofs' = IF clust' = 0 THEN 0 ELSE to - from
      /\ clust' = IF to > 0 /\ ~Onward(to) THEN obj.sclust ELSE clust
  BY InCall DEF Seek, Kept, fs
<1>2. /\ fptr \in Nat /\ Bcs \in Nat \ {0} /\ vol \in Volumes /\ obj.objsize \in Nat
  BY <1>1, InCall
<1>3. to \in Nat
  <2>1. n \in Nat  OBVIOUS
  <2> QED BY <1>2, <2>1, LeastIs DEF Clip
<1>4. 0 % Bcs = 0 /\ 0 \div Bcs = 0  BY <1>2
<1>5. /\ fptr' % Bcs = 0
      /\ ofs' > 0 => clust' = Chain[vol][fptr' \div Bcs]
      /\ ofs' = 0 => fptr' = 0
      /\ fptr' > 0 \/ ofs' > 0 => clust' # 0 /\ obj'.sclust # 0
  <2> HIDE DEF to
  <2>1. CASE to = 0
    BY <1>1, <1>3, <1>4, <2>1
  <2>2. CASE to > 0 /\ Onward(to)
    <3>1. fptr > 0 /\ (to - 1) \div Bcs >= (fptr - 1) \div Bcs  BY <2>2 DEF Onward
    <3>2. k * Bcs \in Nat /\ k * Bcs < to /\ k \in Nat
      BY <1>2, <1>3, <2>2, <3>1, SeekFrom
    <3>3. fptr' = k * Bcs /\ clust' = clust  BY <1>1, <2>2
    <3>4. clust = Chain[vol][k]  BY <1>1, <3>1 DEF ClusterInv, Reached
    <3> HIDE DEF k
    <3>5. (Bcs * k + 0) \div Bcs = k /\ (Bcs * k + 0) % Bcs = 0
      <4>1. 0 \in 0..(Bcs - 1)  BY <1>2
      <4> QED BY <1>2, <3>2, <4>1, DivUnique
    <3>6. Bcs * k + 0 = k * Bcs  BY <1>2, <3>2
    <3>7. fptr' \div Bcs = k /\ fptr' % Bcs = 0  BY <3>3, <3>5, <3>6
    <3>8. clust' # 0 /\ obj'.sclust # 0  BY <1>1, <3>1, <3>3 DEF ClusterInv
    <3>9. ofs' > 0  BY <1>1, <1>3, <2>2, <3>2, <3>3, <3>8
    <3> QED BY <3>3, <3>4, <3>7, <3>8, <3>9
  <2>3. CASE to > 0 /\ ~Onward(to)
    <3>1. /\ fptr' = 0 /\ clust' = obj.sclust /\ obj' = obj
          /\ ofs' = IF clust' = 0 THEN 0 ELSE to
      BY <1>1, <1>3, <2>3
    <3>2. clust' = Chain[vol][0]  BY <1>1, <1>2, <3>1, ChainFirst DEF ClusterInv
    <3> QED BY <1>4, <2>3, <3>1, <3>2
  <2> QED BY <1>3, <2>1, <2>2, <2>3
<1> HIDE DEF from
<1> QED BY <1>1, <1>5 DEF ClusterInv, Bcs, Geo

LEMMA SeekFollowCluster == CacheInv /\ ClusterInv /\ SeekFollow => ClusterInv'
<1> SUFFICES ASSUME CacheInv, ClusterInv, SeekFollow PROVE ClusterInv'  OBVIOUS
<1> DEFINE k == fptr \div Bcs
<1>1. /\ pc = "seek" /\ Opened /\ ofs > Bcs /\ ofs' = ofs - Bcs /\ fptr' = fptr + Bcs
      /\ UNCHANGED <<obj, vol>>
  BY InCall DEF SeekFollow, Calls, Kept, fs
<1>2. /\ fptr \in Nat /\ Bcs \in Nat \ {0} /\ vol \in Volumes /\ obj.objsize \in Nat
      /\ ofs \in Nat /\ fptr + ofs <= obj.objsize
  BY <1>1, InCall DEF Calls
<1>3. PICK c \in Clusters :
         /\ GetFat(clust, c)
         /\ IF c \in 2..(Geo.n_fatent - 1)
            THEN clust' = c /\ UNCHANGED <<pc, err, res>>
            ELSE Abort /\ UNCHANGED clust
  BY DEF SeekFollow
<1>4. CASE c \notin 2..(Geo.n_fatent - 1)
  BY <1>3, <1>4 DEF Abort, Opened, ClusterInv
<1>5. CASE c \in 2..(Geo.n_fatent - 1)
  <2>1. clust' = c /\ pc' = "seek" /\ c >= 2  BY <1>1, <1>3, <1>5, <1>2, Constants DEF Geo
  <2>2. ofs > 0 /\ ofs' > 0  BY <1>1, <1>2
  <2>3. clust = Chain[vol][k] /\ fptr % Bcs = 0 /\ obj.objsize = Entry[vol].objsize
    BY <1>1, <2>2 DEF ClusterInv
  <2>4. k \in Nat /\ fptr = Bcs * k
    <3>1. k \in Nat /\ fptr = Bcs * k + (fptr % Bcs)  BY <1>2, DivMod
    <3>2. Bcs * k \in Nat  BY <1>2, <3>1
    <3> QED BY <2>3, <3>1, <3>2
  <2> HIDE DEF k
  <2>5. fptr' = Bcs * (k + 1) + 0 /\ fptr' \in Nat  BY <1>1, <1>2, <2>4
  <2>6. fptr' \div Bcs = k + 1 /\ fptr' % Bcs = 0
    <3>1. 0 \in 0..(Bcs - 1) /\ k + 1 \in Nat  BY <1>2, <2>4
    <3>2. (Bcs * (k + 1) + 0) \div Bcs = k + 1 /\ (Bcs * (k + 1) + 0) % Bcs = 0
      BY <1>2, <3>1, DivUnique
    <3> QED BY <2>5, <3>2
  <2>7. k + 1 <= obj.objsize \div Bcs
    <3>1. fptr' <= obj.objsize  BY <1>1, <1>2
    <3> QED BY <1>2, <2>5, <2>6, <3>1, DivMono
  <2>8. c = Chain[vol][k + 1]  BY <1>1, <1>3, <2>1, <2>3, <2>4, <2>7, Follows
  <2>9. clust' = Chain[vol'][fptr' \div Bcs']
    <3>1. Bcs' = Bcs  BY <1>1 DEF Bcs, Geo
    <3> QED BY <1>1, <2>1, <2>6, <2>8, <3>1
  <2>10. clust' # 0 /\ obj'.sclust # 0  BY <1>1, <2>1, <2>2 DEF ClusterInv
  <2> QED BY <1>1, <2>1, <2>2, <2>3, <2>6, <2>9, <2>10 DEF ClusterInv, Bcs, Geo
<1> QED BY <1>4, <1>5

LEMMA SeekEndCluster == CacheInv /\ ClusterInv /\ SeekEnd => ClusterInv'
<1> SUFFICES ASSUME CacheInv, ClusterInv, SeekEnd PROVE ClusterInv'  OBVIOUS
<1>1. /\ pc = "seek" /\ Opened /\ ofs <= Bcs /\ pc' = "idle" /\ fptr' = fptr + ofs
      /\ UNCHANGED <<obj, vol, clust>>
  BY InCall DEF SeekEnd, Calls, Kept, fs, Return, Abort
<1>2. fptr \in Nat /\ Bcs \in Nat \ {0} /\ ofs \in Nat
  BY <1>1, InCall
<1>3. CASE ofs = 0
  <2>1. fptr' = 0  BY <1>1, <1>2, <1>3 DEF ClusterInv
  <2> QED BY <1>1, <2>1 DEF ClusterInv
<1>4. CASE ofs > 0
  <2>1. ofs - 1 \in Nat /\ (fptr % Bcs) + (ofs - 1) < Bcs
    BY <1>1, <1>2, <1>4 DEF ClusterInv
  <2>2. (fptr + (ofs - 1)) \div Bcs = fptr \div Bcs  BY <1>2, <2>1, SameDiv
  <2>3. fptr' - 1 = fptr + (ofs - 1)  BY <1>1, <1>2, <1>4
  <2>4. clust' = Chain[vol'][(fptr' - 1) \div Bcs']
    <3>1. Bcs' = Bcs  BY <1>1 DEF Bcs, Geo
    <3> QED BY <1>1, <1>4, <2>2, <2>3, <3>1 DEF ClusterInv
  <2>5. clust' # 0 /\ obj'.sclust # 0  BY <1>1, <1>4 DEF ClusterInv
  <2> QED BY <1>1, <2>4, <2>5 DEF ClusterInv, Reached
<1> QED BY <1>2, <1>3, <1>4

LEMMA NextClusterInv == CacheInv /\ ClusterInv /\ [Next]_vars => ClusterInv'
<1> SUFFICES ASSUME CacheInv, ClusterInv, [Next]_vars PROVE ClusterInv'  OBVIOUS
<1>1. CASE Step
  BY <1>1, OtherCluster, PathCluster, ReadClusterCluster, SameClusterCluster,
     ReadPartCluster, ReadWholeCluster, ReadSectorCluster, NoSectorCluster,
     SeekFollowCluster, SeekEndCluster DEF Step
<1>2. CASE Program
  BY <1>2, OtherCluster, ReadBeginsCluster, SeekCluster DEF Program
<1>3. CASE User
  BY <1>3, OtherCluster
<1>4. CASE UNCHANGED vars
  <2>1. Opened' => Opened /\ UNCHANGED <<obj, vol, fptr, clust, ofs>>
    BY <1>4 DEF vars, disk, fs, window, fil, args, out, Opened
  <2>2. pc' = pc  BY <1>4 DEF vars
  <2> QED BY <2>1, <2>2, StillCluster
<1> QED BY <1>1, <1>2, <1>3, <1>4 DEF Next

LEMMA ClusterInvariant == Spec => [](CacheInv /\ ClusterInv)
<1>1. Init => CacheInv /\ ClusterInv  BY InitCache, InitCluster
<1>2. CacheInv /\ ClusterInv /\ [Next]_vars => (CacheInv /\ ClusterInv)'
  BY NextCache, NextClusterInv
<1> QED BY <1>1, <1>2, PTL DEF Spec

\* The current cluster is the one the chain has for the position, wherever a
\* program has read and sought, whatever the chain is like.
THEOREM ClusterCorrect == Spec => []ClusterTrue
<1>1. CacheInv /\ ClusterInv => ClusterTrue
  <2> SUFFICES ASSUME CacheInv, ClusterInv, Opened, fptr > 0 \/ pc = "sector"
               PROVE  clust = Chain[vol][(IF pc \in {"seek", "sector"} THEN fptr
                                          ELSE fptr - 1) \div Bcs]
    BY DEF ClusterTrue
  <2>1. CASE pc = "seek"
    <3>1. ofs > 0  BY <2>1, InCall DEF ClusterInv
    <3> QED BY <2>1, <3>1 DEF ClusterInv
  <2>2. CASE pc # "seek"
    BY <2>2 DEF ClusterInv, Reached
  <2> QED BY <2>1, <2>2
<1> QED BY <1>1, ClusterInvariant, PTL

-----------------------------------------------------------------------------
(* What the buffer of a file holds *)

\* The sector of the byte at x in a cluster c of the volume.
SectorAt(c, x) == Geo.database + Geo.csize * (c - 2) + ((x \div SS) % Geo.csize)

BufInv ==
    Opened /\ pc \notin {"sector", "seek"} /\ fptr % SS # 0 =>
        clust \in DOMAIN Fat[vol] /\ buf = <<vol[1], SectorAt(clust, fptr)>>

ReadInv == CacheInv /\ ClusterInv /\ BufInv

LEMMA StillBuf ==
    ASSUME BufInv,
           Opened' => Opened /\ UNCHANGED <<vol, fptr, clust, buf>>,
           Opened' /\ pc' \notin {"sector", "seek"} => pc \notin {"sector", "seek"}
    PROVE  BufInv'
BY DEF BufInv, SectorAt, Geo

\* Calls that neither move in a file nor read into its buffer.
LEMMA OtherBuf ==
    ASSUME ReadInv,
           \/ Mount \/ Open \/ Initialize \/ Boot \/ Scan \/ Refused \/ User \/ ReadDone
           \/ (\E n \in 0..MaxRead : Read(n)) \/ ReadCluster \/ ReadSameCluster \/ NoSector
           \/ (\E n \in 0..MaxSeek : Seek(n)) \/ SeekFollow
    PROVE  BufInv'
<1> USE DEF ReadInv
<1>1. CASE Mount
  <2>1. ~Opened'  BY <1>1 DEF Mount, Opened
  <2> QED BY <2>1, StillBuf
<1>2. CASE Open
  <2>1. /\ UNCHANGED <<obj, vol, fptr, clust, buf, id, err>>
        /\ fs_type' \in {0, fs_type} /\ pc = "idle"
    BY <1>2 DEF Open, fil
  <2>2. Opened' => Opened  BY <2>1 DEF Opened
  <2> QED BY <2>1, <2>2, StillBuf
<1>3. CASE Initialize
  <2>1. ~Opened'
    BY <1>3 DEF Initialize, Opened, fs, CacheInv, PhaseInv
  <2> QED BY <2>1, StillBuf
<1>4. CASE Boot \/ Scan
  <2>1. fs_type = 0  BY <1>4 DEF Boot, Scan, CacheInv, PhaseInv
  <2>2. ~Opened'
    BY <1>4, <2>1, FsOrNew DEF Opened, CacheInv, PhaseInv, TypeOK, fs
  <2> QED BY <2>2, StillBuf
<1>5. CASE Refused \/ User
  <2>1. UNCHANGED <<obj, vol, fptr, clust, buf, id, err, fs_type, pc>>
    BY <1>5 DEF Refused, User, Kept, fs, fil, args
  <2>2. Opened' => Opened  BY <2>1 DEF Opened
  <2> QED BY <2>1, <2>2, StillBuf
<1>6. CASE ReadDone \/ \E n \in 0..MaxRead : Read(n)
  <2>1. /\ UNCHANGED <<obj, vol, fptr, clust, buf, id, err, fs_type>>
        /\ pc \in {"idle", "read"}
    BY <1>6 DEF ReadDone, Read, Return, Kept, fs, fil, args
  <2>2. Opened' => Opened  BY <2>1 DEF Opened
  <2> QED BY <2>1, <2>2, StillBuf
<1>7. CASE ReadCluster \/ ReadSameCluster
  <2>1. Opened' => pc' = "sector"
    BY <1>7 DEF ReadCluster, ReadSameCluster, Abort, Opened
  <2> QED BY <2>1 DEF BufInv
<1>8. CASE NoSector
  <2>1. ~Opened'  BY <1>8 DEF NoSector, Abort, Opened
  <2> QED BY <2>1, StillBuf
<1>9. CASE (\E n \in 0..MaxSeek : Seek(n)) \/ SeekFollow
  <2>1. Opened' => pc' = "seek"
    BY <1>9 DEF Seek, SeekFollow, Abort, Opened
  <2> QED BY <2>1 DEF BufInv
<1> QED BY <1>1, <1>2, <1>3, <1>4, <1>5, <1>6, <1>7, <1>8, <1>9

LEMMA PathBuf == ReadInv /\ FollowPath => BufInv'
<1> SUFFICES ASSUME ReadInv, FollowPath PROVE BufInv'  OBVIOUS
<1> USE DEF ReadInv
<1>1. /\ pc = "path" /\ UNCHANGED <<fs_type, id, vol, clust, buf>>
      /\ \/ fptr' = 0
         \/ Fails /\ UNCHANGED <<err, fptr, sect>>
  BY DEF FollowPath, fs
<1>2. CASE fptr' = 0
  <2>1. 0 % SS = 0  BY Constants
  <2> QED BY <1>2, <2>1 DEF BufInv
<1>3. CASE Fails /\ UNCHANGED <<err, fptr, sect>>
  <2>1. pc' = "idle" /\ obj' \in {obj, [obj EXCEPT !.fs = FALSE]}
    BY <1>3 DEF Fails, Return
  <2>2. Opened' => Opened
    BY <1>1, <1>3, <2>1 DEF Opened, CacheInv, TypeOK
  <2> QED BY <1>1, <1>3, <2>1, <2>2, StillBuf
<1> QED BY <1>1, <1>2, <1>3

LEMMA ReadPartBuf == ReadInv /\ ReadPart => BufInv'
<1> SUFFICES ASSUME ReadInv, ReadPart PROVE BufInv'  OBVIOUS
<1> DEFINE n == Least(ofs, SS - (fptr % SS))
<1> USE DEF ReadInv
<1>1. /\ pc = "read" /\ Opened /\ fptr % SS # 0
      /\ fptr' = fptr + n /\ UNCHANGED <<vol, clust, buf>>
  BY InCall DEF ReadPart, Copy, Kept, fs, Calls
<1>2. fptr \in Nat /\ SS \in Nat \ {0} /\ ofs \in Nat /\ fptr % SS \in 0..(SS - 1)
  BY <1>1, InCall, DivMod
<1>3. n \in Nat /\ n + (fptr % SS) <= SS
  BY <1>1, <1>2 DEF Least
<1> HIDE DEF n
<1>4. CASE (fptr % SS) + n < SS
  <2>1. fptr' \div SS = fptr \div SS  BY <1>1, <1>2, <1>3, <1>4, SameDiv
  <2> QED BY <1>1, <2>1 DEF BufInv, SectorAt, Geo
<1>5. CASE (fptr % SS) + n = SS
  <2> DEFINE q == fptr \div SS
             r == fptr % SS
  <2>1. q \in Nat /\ fptr = SS * q + r  BY <1>2, DivMod
  <2> HIDE DEF q
  <2>2. fptr' = SS * q + SS  BY <1>1, <1>2, <1>3, <1>5, <2>1
  <2>3. SS * q + SS = SS * (q + 1) + 0 /\ q + 1 \in Nat /\ 0 \in 0..(SS - 1)  BY <1>2, <2>1
  <2>4. (SS * (q + 1) + 0) % SS = 0  BY <1>2, <2>3, DivUnique
  <2> QED BY <2>2, <2>3, <2>4 DEF BufInv
<1> QED BY <1>2, <1>3, <1>4, <1>5

\* Multiples of a sector end between sectors.
LEMMA WholeMod ==
    ASSUME NEW x \in Nat, NEW s \in Nat \ {0}, x % s = 0, NEW k \in Nat
    PROVE  (x + k * s) % s = 0
<1> DEFINE q == x \div s
<1>1. q \in Nat /\ x = s * q + (x % s)  BY DivMod
<1> HIDE DEF q
<1>2. x + k * s = s * (q + k) + 0 /\ q + k \in Nat /\ 0 \in 0..(s - 1)  BY <1>1
<1>3. (s * (q + k) + 0) % s = 0  BY <1>2, DivUnique
<1> QED BY <1>2, <1>3

LEMMA ReadWholeBuf == ReadInv /\ ReadWhole => BufInv'
<1> SUFFICES ASSUME ReadInv, ReadWhole PROVE BufInv'  OBVIOUS
<1> DEFINE cc == Least(ofs \div SS, Geo.csize - Csect)
<1> USE DEF ReadInv
<1>1. pc = "sector" /\ Opened  BY InCall DEF ReadWhole, Calls
<1>2. fptr' = fptr + cc * SS \/ Abort  BY DEF ReadWhole
<1>3. cc \in Nat  BY <1>1, ReadWholeRoom
<1> HIDE DEF cc
<1>4. fptr \in Nat /\ SS \in Nat \ {0} /\ fptr % SS = 0  BY <1>1, InCall DEF ClusterInv
<1>5. (fptr + cc * SS) % SS = 0  BY <1>3, <1>4, WholeMod
<1> QED BY <1>2, <1>5 DEF BufInv, Abort, Opened

\* The sector that f_read looks at.
LEMMA SectorHere ==
    ASSUME CacheInv, Opened, Clst2Sect(clust) # 0
    PROVE  /\ Clst2Sect(clust) + Csect = SectorAt(clust, fptr)
           /\ clust \in DOMAIN Fat[vol] /\ SectorAt(clust, fptr) # 0
<1>1. clust \in Nat /\ vol \in Volumes  BY InCall
<1>2. /\ clust \in DOMAIN Fat[vol]
      /\ Clst2Sect(clust) = Geo.database + Geo.csize * (clust - 2)
  BY <1>1, SectorIs
<1>3. Csect \in Nat /\ Clst2Sect(clust) + Csect # 0  BY CsectIs, InCluster
<1> QED BY <1>2, <1>3 DEF SectorAt, Csect

LEMMA ReadSectorBuf == ReadInv /\ ReadSector => BufInv'
<1> SUFFICES ASSUME ReadInv, ReadSector PROVE BufInv'  OBVIOUS
<1> USE DEF ReadInv
<1>1. /\ pc = "sector" /\ Opened /\ Clst2Sect(clust) # 0 /\ ofs < SS
      /\ UNCHANGED <<vol, clust>>
  BY InCall DEF ReadSector, Calls, Kept, fs
<1>2. \/ Abort
      \/ /\ fptr' = fptr + ofs
         /\ \/ sect = Clst2Sect(clust) + Csect /\ UNCHANGED buf
            \/ buf' = <<media, Clst2Sect(clust) + Csect>>
  BY DEF ReadSector, Copy
<1>3. CASE Abort
  BY <1>3 DEF BufInv, Abort, Opened
<1>4. CASE /\ fptr' = fptr + ofs
           /\ \/ sect = Clst2Sect(clust) + Csect /\ UNCHANGED buf
              \/ buf' = <<media, Clst2Sect(clust) + Csect>>
  <2>1. /\ fptr \in Nat /\ ofs \in Nat /\ SS \in Nat \ {0} /\ fptr % SS = 0
        /\ media = vol[1] /\ (sect # 0 => buf = <<media, sect>>)
    BY <1>1, InCall DEF ClusterInv
  <2>2. (fptr + ofs) \div SS = fptr \div SS
    <3>1. (fptr % SS) + ofs < SS  BY <1>1, <2>1
    <3> QED BY <2>1, <3>1, SameDiv
  <2>3. buf' = <<vol[1], SectorAt(clust, fptr)>> /\ clust \in DOMAIN Fat[vol]
    BY <1>1, <1>4, <2>1, SectorHere
  <2>4. SectorAt(clust, fptr)' = SectorAt(clust, fptr)
    BY <1>1, <1>4, <2>2 DEF SectorAt, Geo
  <2> QED BY <1>1, <2>3, <2>4 DEF BufInv
<1> QED BY <1>2, <1>3, <1>4

LEMMA SeekEndBuf == ReadInv /\ SeekEnd => BufInv'
<1> SUFFICES ASSUME ReadInv, SeekEnd PROVE BufInv'  OBVIOUS
<1> DEFINE nsect == Clst2Sect(clust) + ofs \div SS
<1> USE DEF ReadInv
<1>1. /\ pc = "seek" /\ Opened /\ ofs <= Bcs /\ fptr' = fptr + ofs
      /\ UNCHANGED <<vol, clust>>
  BY InCall DEF SeekEnd, Calls, Kept, fs
<1>2. /\ fptr \in Nat /\ ofs \in Nat /\ SS \in Nat \ {0} /\ Bcs \in Nat \ {0}
      /\ Geo.csize \in Nat \ {0} /\ fptr % Bcs = 0
      /\ media = vol[1] /\ (sect # 0 => buf = <<media, sect>>)
  BY <1>1, InCall DEF ClusterInv
<1>3. fptr % SS = 0
  <2>1. Csect * SS \in Nat /\ fptr % SS \in 0..(SS - 1) /\ fptr % Bcs = Csect * SS + (fptr % SS)
    BY <1>1, PlaceIs
  <2> QED BY <1>2, <2>1
<1>4. CASE ofs % SS = 0
  <2> DEFINE q == ofs \div SS
  <2>1. q \in Nat /\ ofs = SS * q + (ofs % SS)  BY <1>2, DivMod
  <2> HIDE DEF q
  <2>2. ofs = q * SS  BY <1>2, <1>4, <2>1
  <2>3. (fptr + q * SS) % SS = 0  BY <1>2, <1>3, <2>1, WholeMod
  <2> QED BY <1>1, <2>2, <2>3 DEF BufInv
<1>5. CASE ofs % SS # 0
  <2>1. \/ Abort
        \/ /\ Clst2Sect(clust) # 0
           /\ \/ sect = nsect /\ UNCHANGED buf
              \/ buf' = <<media, nsect>>
    BY <1>5 DEF SeekEnd
  <2>2. CASE Abort
    BY <2>2 DEF BufInv, Abort, Opened
  <2>3. CASE /\ Clst2Sect(clust) # 0
             /\ \/ sect = nsect /\ UNCHANGED buf
                \/ buf' = <<media, nsect>>
    <3> DEFINE c == Geo.csize
               x == fptr + ofs
               k == (x \div SS) % c
               o == x % SS
    <3>1. c \in Nat \ {0} /\ x \in Nat  BY <1>2
    <3>2. ofs < c * SS
      <4>1. (SS * c + 0) % SS = 0
        <5>1. 0 \in 0..(SS - 1)  BY <1>2
        <5> QED BY <1>2, <3>1, <5>1, DivUnique
      <4>2. SS * c + 0 = c * SS  BY <1>2, <3>1
      <4>3. ofs # c * SS  BY <1>5, <4>1, <4>2
      <4>4. ofs <= c * SS /\ c * SS \in Nat  BY <1>1, <1>2 DEF Bcs
      <4> QED BY <1>2, <4>3, <4>4
    <3>3. x % (c * SS) = ofs
      <4>1. fptr % (c * SS) = 0 /\ c * SS \in Nat \ {0}  BY <1>2 DEF Bcs
      <4>2. (fptr % (c * SS)) + ofs < c * SS  BY <1>2, <3>2, <4>1
      <4>3. x % (c * SS) = (fptr % (c * SS)) + ofs  BY <1>2, <4>1, <4>2, SameDiv
      <4> QED BY <1>2, <4>1, <4>3
    <3> HIDE DEF c, x
    <3>4. x % (c * SS) = k * SS + o /\ k \in 0..(c - 1) /\ o \in 0..(SS - 1)
      <4>1. SS \in Nat \ {0}  BY <1>2
      <4>2. LET i == (x \div SS) % c
                j == x % SS
            IN  /\ i \in 0..(c - 1) /\ j \in 0..(SS - 1)
                /\ i * SS \in Nat /\ i * SS + SS <= c * SS
                /\ x \div (c * SS) = (x \div SS) \div c
                /\ x % (c * SS) = i * SS + j
                /\ i = 0 => i * SS = 0
                /\ i # 0 => i * SS >= SS
        BY ONLY <3>1, <4>1, Place
      <4> QED BY <4>2, Zenon
    <3> HIDE DEF k, o
    <3>5. ofs = SS * k + o /\ k \in Nat  BY <1>2, <3>1, <3>3, <3>4
    <3>6. ofs \div SS = k  BY <1>2, <3>4, <3>5, DivUnique
    <3>7. /\ clust \in DOMAIN Fat[vol]
          /\ Clst2Sect(clust) = Geo.database + Geo.csize * (clust - 2)
          /\ nsect \in Nat /\ nsect # 0
      <4>1. clust \in Nat /\ vol \in Volumes /\ ofs \div SS \in Nat  BY <1>1, <1>2, InCall, DivMod
      <4> QED BY <1>1, <2>3, <4>1, SectorIs, InCluster
    <3>8. nsect = SectorAt(clust, x)  BY <3>6, <3>7 DEF SectorAt, k, c
    <3>9. buf' = <<vol[1], SectorAt(clust, x)>>  BY <1>2, <2>3, <3>7, <3>8
    <3>10. SectorAt(clust, fptr)' = SectorAt(clust, x)
      BY <1>1 DEF SectorAt, Geo, x
    <3> QED BY <1>1, <3>7, <3>9, <3>10 DEF BufInv
  <2> QED BY <2>1, <2>2, <2>3
<1> QED BY <1>4, <1>5

LEMMA ReadInvariant == Spec => []ReadInv
<1>1. Init => ReadInv
  BY InitCache, InitCluster DEF ReadInv, Init, BufInv, Opened
<1>2. ReadInv /\ [Next]_vars => ReadInv'
  <2> SUFFICES ASSUME ReadInv, [Next]_vars PROVE BufInv'
    BY NextCache, NextClusterInv DEF ReadInv
  <2>1. CASE Step
    BY <2>1, OtherBuf, PathBuf, ReadPartBuf, ReadWholeBuf, ReadSectorBuf, SeekEndBuf DEF Step
  <2>2. CASE Program \/ User
    BY <2>2, OtherBuf DEF Program
  <2>3. CASE UNCHANGED vars
    <3>1. UNCHANGED <<obj, vol, fptr, clust, buf, id, err, fs_type, pc>>
      BY <2>3 DEF vars, fs, fil
    <3>2. Opened' => Opened  BY <3>1 DEF Opened
    <3> QED BY <3>1, <3>2, StillBuf DEF ReadInv
  <2> QED BY <2>1, <2>2, <2>3 DEF Next
<1> QED BY <1>1, <1>2, PTL DEF Spec

-----------------------------------------------------------------------------
(* What a program reads is the file *)

\* A file whose chain has its cluster at this position.
LEMMA ChainHere ==
    ASSUME ReadInv, Opened, pc \notin {"sector", "seek"}, fptr % SS # 0
    PROVE  clust = Chain[vol][fptr \div Bcs]
<1> USE DEF ReadInv
<1>1. fptr \in Nat /\ Bcs \in Nat \ {0} /\ SS \in Nat \ {0}  BY InCall
<1>2. fptr > 0
  <2>1. 0 % SS = 0  BY <1>1
  <2> QED BY <1>1, <2>1
<1>3. 1 \in Nat /\ 1 <= fptr % Bcs
  <2>1. /\ Csect * SS \in Nat /\ fptr % SS \in 0..(SS - 1)
        /\ fptr % Bcs = Csect * SS + (fptr % SS)
    BY PlaceIs
  <2> QED BY <1>1, <2>1
<1>4. (fptr - 1) \div Bcs = fptr \div Bcs  BY <1>1, <1>3, SameDivBack
<1> QED BY <1>2, <1>4 DEF ClusterInv, Reached

\* The cluster of a byte is that of its sector.
LEMMA ClusterOf ==
    ASSUME NEW x \in Nat, NEW s \in Nat \ {0}, NEW c \in Nat \ {0}
    PROVE  x \div (c * s) = (x \div s) \div c
BY ONLY Place

\* A byte of the file in the sector of the position.
LEMMA ByteHere ==
    ASSUME CacheInv, Opened, clust = Chain[vol][fptr \div Bcs],
           NEW j \in Nat, (fptr % SS) + j < SS
    PROVE  FileByte(vol, fptr + j) = <<<<vol[1], SectorAt(clust, fptr)>>, (fptr + j) % SS>>
<1> DEFINE c == Geo.csize
           x == fptr + j
<1>1. fptr \in Nat /\ SS \in Nat \ {0} /\ c \in Nat \ {0} /\ x \in Nat  BY InCall
<1>2. x \div SS = fptr \div SS  BY <1>1, SameDiv
<1>3. x \div (c * SS) = (x \div SS) \div c /\ fptr \div (c * SS) = (fptr \div SS) \div c
  <2> HIDE DEF c, x
  <2> QED BY <1>1, ClusterOf
<1>4. x \div (c * SS) = fptr \div Bcs
  <2>1. fptr \div Bcs = fptr \div (c * SS)  BY DEF Bcs
  <2> QED BY <1>2, <1>3, <2>1
<1> QED BY <1>2, <1>4 DEF FileByte, SectorAt, Geo

\* A byte of the file in the sectors of the cluster after the position.
LEMMA ByteAfter ==
    ASSUME CacheInv, Opened, clust = Chain[vol][fptr \div Bcs], fptr % SS = 0,
           NEW cc \in Nat, cc <= Geo.csize - Csect, NEW j \in Nat, j < cc * SS
    PROVE  FileByte(vol, fptr + j)
             = <<<<vol[1], SectorAt(clust, fptr) + j \div SS>>, j % SS>>
<1> DEFINE c == Geo.csize
           x == fptr + j
           a == fptr \div SS
           b == j \div SS
           r == j % SS
<1>1. fptr \in Nat /\ SS \in Nat \ {0} /\ c \in Nat \ {0} /\ x \in Nat  BY InCall
<1>2. a \in Nat /\ fptr = SS * a
  <2>1. a \in Nat /\ fptr = SS * a + (fptr % SS)  BY <1>1, DivMod
  <2> HIDE DEF a
  <2>2. SS * a \in Nat  BY <1>1, <2>1
  <2> QED BY <2>1, <2>2
<1>3. b \in Nat /\ r \in 0..(SS - 1) /\ j = SS * b + r  BY <1>1, DivMod
<1>4. b < cc
  <2> HIDE DEF b, r
  <2> SUFFICES ASSUME cc <= b PROVE FALSE  BY <1>3
  <2>1. PICK d \in Nat : b = cc + d
    <3>1. b - cc \in Nat /\ b = cc + (b - cc)  BY <1>3
    <3> QED BY <3>1
  <2>2. SS * (cc + d) = cc * SS + SS * d /\ SS * d \in Nat /\ cc * SS \in Nat  BY <1>1, <2>1
  <2> QED BY <1>3, <2>1, <2>2
<1>5. x \div SS = a + b /\ x % SS = r
  <2> HIDE DEF a, b, r
  <2>1. fptr + j = SS * (a + b) + r /\ a + b \in Nat  BY <1>1, <1>2, <1>3
  <2>2. (SS * (a + b) + r) \div SS = a + b /\ (SS * (a + b) + r) % SS = r
    BY <1>1, <1>3, <2>1, DivUnique
  <2> QED BY <2>1, <2>2
<1>6. (a + b) \div c = a \div c /\ (a + b) % c = (a % c) + b
  <2>1. Csect = a % c  BY DEF Csect
  <2>2. a % c \in Nat  BY <1>1, <1>2, DivMod
  <2>3. cc <= c - (a % c)  BY <2>1
  <2> HIDE DEF a, b, c
  <2>4. (a % c) + b < c  BY <1>1, <1>3, <1>4, <2>2, <2>3
  <2>5. a \in Nat /\ b \in Nat /\ c \in Nat \ {0}  BY <1>1, <1>2, <1>3
  <2>6. (a + b) \div c = a \div c /\ (a + b) % c = (a % c) + b
    BY ONLY <2>4, <2>5, SameDiv
  <2> QED BY <2>6
<1>7. x \div (c * SS) = fptr \div Bcs
  <2>1. x \div (c * SS) = (x \div SS) \div c /\ fptr \div (c * SS) = (fptr \div SS) \div c
    <3> HIDE DEF c, x
    <3>1. fptr \in Nat /\ SS \in Nat \ {0} /\ c \in Nat \ {0} /\ x \in Nat  BY <1>1
    <3>2. x \div (c * SS) = (x \div SS) \div c  BY ONLY <3>1, ClusterOf
    <3>3. fptr \div (c * SS) = (fptr \div SS) \div c  BY ONLY <3>1, ClusterOf
    <3> QED BY <3>2, <3>3
  <2>2. fptr \div Bcs = fptr \div (c * SS)  BY DEF Bcs
  <2> QED BY <1>5, <1>6, <2>1, <2>2
<1>8. Geo.csize * (clust - 2) \in Int /\ Geo.database \in Nat /\ a % c \in Nat
  <2>1. clust \in Nat /\ vol \in Volumes  BY InCall
  <2>2. Geo.database \in Nat /\ Geo.csize \in Nat  BY <2>1, Constants DEF Geo
  <2>3. a % c \in Nat  BY <1>1, <1>2, DivMod
  <2> QED BY <2>1, <2>2, <2>3
<1>9. SectorAt(clust, fptr) + b = Geo.database + Geo.csize * (clust - 2) + ((a % c) + b)
  <2>1. SectorAt(clust, fptr) = Geo.database + Geo.csize * (clust - 2) + (a % c)
    BY DEF SectorAt
  <2> DEFINE p == Geo.csize * (clust - 2)
             m == a % c
             g == Geo.database
  <2>2. p \in Int /\ m \in Nat /\ g \in Nat /\ b \in Nat  BY <1>3, <1>8
  <2> HIDE DEF p, m, g, b
  <2>3. (g + p + m) + b = g + p + (m + b)  BY <2>2
  <2> QED BY <2>1, <2>3 DEF p, m, g
<1>10. FileByte(vol, x) = <<<<vol[1], Geo.database + Geo.csize * (clust - 2) + ((x \div SS) % c)>>, x % SS>>
  BY <1>7 DEF FileByte, Geo
<1> QED BY <1>5, <1>6, <1>9, <1>10

\* Steps of ByteFile, said of FatFile.
LEMMA OtherStep ==
    ASSUME pc \notin Calls, pc' \notin Calls,
           \/ Opened' => Opened /\ UNCHANGED <<vol, fptr>>
           \/ vol' \in Volumes /\ fptr' = 0,
           res' \in {"ok", "error"}, NewBuffer \/ UNCHANGED <<rbuff, br>>
    PROVE  F!Next
<1>1. F!Other
  BY DEF F!Other, F!NewBuffer, NewBuffer, Calls, None, F!Lost
<1> QED BY <1>1 DEF F!Next

LEMMA FailStep ==
    ASSUME pc \in Calls, ~Opened', pc' = "idle", res' = "error", br' = br,
           \A i \in 0..(br - 1) : rbuff'[i] = rbuff[i]
    PROVE  F!Next
<1>1. F!Fail
  BY DEF F!Fail, Calls, None, F!Lost
<1> QED BY <1>1 DEF F!Next

LEMMA DeliverStep ==
    ASSUME pc \in {"read", "sector"}, pc' = "read", Opened, Opened',
           UNCHANGED <<vol, res, obj>>, obj.sclust # 0,
           fptr \in Nat, ofs \in Nat, br \in Nat, br + ofs <= MaxRead, MaxRead \in Nat,
           NEW d \in Nat, d <= ofs, fptr' = fptr + d, br' = br + d, ofs' = ofs - d,
           rbuff' = [i \in DOMAIN rbuff |->
                        IF i \in br..(br + d - 1) THEN FileByte(vol, fptr + i - br)
                        ELSE rbuff[i]]
    PROVE  F!Next
<1>1. d \in 0..MaxRead  OBVIOUS
<1>2. fptr + d <= fptr + ofs /\ fptr' + ofs' = fptr + ofs  OBVIOUS
<1>3. F!Deliver(d)
  BY <1>2 DEF F!Deliver
<1> QED BY <1>1, <1>3 DEF F!Next

LEMMA StutterStep ==
    ASSUME pc \in Calls, Opened, Opened', UNCHANGED <<vol, obj, rbuff, br, res>>,
           \/ pc \in {"read", "sector"} /\ pc' \in {"read", "sector"} /\ UNCHANGED <<fptr, ofs>>
           \/ pc = "seek" /\ pc' = "seek" /\ fptr' + ofs' = fptr + ofs
    PROVE  UNCHANGED F!vars
BY DEF F!vars, Calls

\* The calls themselves.
LEMMA OtherSteps ==
    ASSUME ReadInv, Mount \/ Open \/ Initialize \/ Boot \/ Scan \/ FollowPath \/ Refused
    PROVE  F!Next
<1> USE DEF ReadInv
<1>1. res \in {"ok", "error"}  BY InCall
<1>2. CASE Mount
  <2>1. ~Opened' /\ pc = "idle" /\ pc' = "init" /\ res' = res /\ NewBuffer
    BY <1>2 DEF Mount, Opened
  <2> QED BY <1>1, <2>1, OtherStep DEF Calls
<1>3. CASE Open
  <2>1. /\ UNCHANGED <<obj, vol, fptr, id, err, res>>
        /\ fs_type' \in {0, fs_type} /\ pc = "idle" /\ pc' \in {"path", "init"} /\ NewBuffer
    BY <1>3 DEF Open, fil
  <2>2. Opened' => Opened  BY <2>1 DEF Opened
  <2> QED BY <1>1, <2>1, <2>2, OtherStep DEF Calls
<1>4. CASE Initialize
  <2>1. /\ ~Opened' /\ pc = "init" /\ pc' \in {"boot", "idle"} /\ res' \in {res, "error"}
        /\ UNCHANGED <<rbuff, br>>
    BY <1>4 DEF Initialize, Opened, fs, CacheInv, PhaseInv, Fails, Return
  <2> QED BY <1>1, <2>1, OtherStep DEF Calls
<1>5. CASE Boot
  <2>1. fs_type = 0 /\ pc = "boot" /\ UNCHANGED <<rbuff, br>>
    BY <1>5 DEF Boot, CacheInv, PhaseInv
  <2>2. ~Opened'
    BY <1>5, <2>1, FsOrNew DEF Opened, CacheInv, PhaseInv, TypeOK, fs
  <2>3. pc' \in {"path", "idle", "scan"} /\ res' \in {res, "ok", "error"}
    BY <1>5 DEF Boot, Found, Fails, Return
  <2> QED BY <1>1, <2>1, <2>2, <2>3, OtherStep DEF Calls
<1>6. CASE Scan
  <2>1. fs_type = 0 /\ pc = "scan" /\ UNCHANGED <<rbuff, br>>
    BY <1>6 DEF Scan, CacheInv, PhaseInv
  <2>2. ~Opened'
    BY <1>6, <2>1, FsOrNew DEF Opened, CacheInv, PhaseInv, TypeOK, fs
  <2>3. pc' \in {"path", "idle", "scan"} /\ res' \in {res, "ok", "error"}
    BY <1>6, <2>1 DEF Scan, Found, Fails, Return
  <2> QED BY <1>1, <2>1, <2>2, <2>3, OtherStep DEF Calls
<1>7. CASE FollowPath
  <2>1. /\ pc = "path" /\ pc' = "idle" /\ vol \in Volumes
        /\ UNCHANGED <<fs_type, id, vol, rbuff, br>>
        /\ res' \in {"ok", "error"}
        /\ \/ fptr' = 0
           \/ Fails /\ UNCHANGED <<err, fptr, sect>>
    BY <1>7 DEF FollowPath, fs, Fails, Return, CacheInv, PhaseInv
  <2>2. CASE fptr' = 0
    BY <2>1, <2>2, OtherStep DEF Calls
  <2>3. CASE Fails /\ UNCHANGED <<err, fptr, sect>>
    <3>1. obj' \in {obj, [obj EXCEPT !.fs = FALSE]}  BY <2>3 DEF Fails
    <3>2. Opened' => Opened
      BY <2>1, <2>3, <3>1 DEF Opened, CacheInv, TypeOK
    <3> QED BY <2>1, <2>3, <3>2, OtherStep DEF Calls
  <2> QED BY <2>1, <2>2, <2>3
<1>8. CASE Refused
  <2>1. /\ UNCHANGED <<obj, vol, fptr, id, err, fs_type>> /\ pc = "idle" /\ pc' = pc
        /\ res' = "error" /\ NewBuffer
    BY <1>8 DEF Refused, Kept, fs, fil, args
  <2>2. Opened' => Opened  BY <2>1 DEF Opened
  <2> QED BY <2>1, <2>2, OtherStep DEF Calls
<1> QED BY <1>2, <1>3, <1>4, <1>5, <1>6, <1>7, <1>8

LEMMA VolumeIs == \A v \in Volumes : v # None
<1> SUFFICES ASSUME NEW v \in Volumes PROVE v # None  OBVIOUS
<1>1. v \in Cards \X (0..4)  BY Constants
<1> QED BY <1>1 DEF None

\* A file without a cluster is empty to ByteFile, and its position is 0.
LEMMA FileSizeIs ==
    ASSUME ReadInv, Opened
    PROVE  /\ [v \in Volumes |-> FileSize(v)][vol] = IF obj.sclust = 0 THEN 0 ELSE obj.objsize
           /\ obj.sclust = 0 => fptr = 0 /\ (pc = "seek" => ofs = 0)
<1>1. /\ obj.sclust = Entry[vol].sclust /\ obj.objsize = Entry[vol].objsize
      /\ vol \in Volumes /\ fptr \in Nat /\ ofs \in Nat
  BY InCall DEF ReadInv, ClusterInv
<1>2. obj.sclust = 0 => fptr = 0 /\ (pc = "seek" => ofs = 0)
  BY <1>1 DEF ReadInv, ClusterInv
<1> QED BY <1>1, <1>2 DEF FileSize

LEMMA BeginSteps ==
    ASSUME ReadInv,
           (\E n \in 0..MaxRead : Read(n)) \/ (\E n \in 0..MaxSeek : Seek(n)) \/ ReadDone
    PROVE  F!Next
<1> USE DEF ReadInv
<1>1. CASE \E n \in 0..MaxRead : Read(n)
  <2>1. PICK n \in 0..MaxRead : Read(n)  BY <1>1
  <2>2. /\ pc = "idle" /\ pc' = "read" /\ Opened /\ NewBuffer
        /\ UNCHANGED <<obj, vol, id, err, fs_type, fptr, res>>
        /\ ofs' = Least(n, obj.objsize - fptr)
    BY <2>1, InCall DEF Read, Kept, fs, fil
  <2>3. Opened'  BY <2>2 DEF Opened
  <2>4. /\ obj.objsize = Entry[vol].objsize /\ fptr \in Nat /\ obj.objsize \in Nat /\ n \in Int
        /\ vol \in Volumes /\ vol # None
    BY <2>2, InCall, VolumeIs DEF ClusterInv
  <2>5. fptr + ofs' = F!Least(fptr + n, obj.objsize)
    BY <2>2, <2>4 DEF Least, F!Least
  <2>6. [v \in Volumes |-> FileSize(v)][vol] = IF obj.sclust = 0 THEN 0 ELSE obj.objsize
    BY <2>2, FileSizeIs
  <2>7. (IF obj'.sclust # 0 THEN fptr' + ofs' ELSE 0)
          = F!Least(fptr + n, IF obj.sclust = 0 THEN 0 ELSE obj.objsize)
    <3>1. CASE obj.sclust = 0
      BY <2>2, <2>4, <3>1 DEF F!Least
    <3>2. CASE obj.sclust # 0
      BY <2>2, <2>5, <3>2
    <3> QED BY <3>1, <3>2
  <2>8. F!Read(n)
    BY <2>2, <2>3, <2>4, <2>6, <2>7
    DEF F!Read, F!Begin, F!NewBuffer, NewBuffer, None, F!Lost
  <2> QED BY <2>8 DEF F!Next
<1>2. CASE \E n \in 0..MaxSeek : Seek(n)
  <2>1. PICK n \in 0..MaxSeek : Seek(n)  BY <1>2
  <2>2. /\ pc = "idle" /\ pc' = "seek" /\ Opened /\ NewBuffer
        /\ UNCHANGED <<obj, vol, id, err, fs_type, res>>
    BY <2>1, InCall DEF Seek, Kept, fs, fil
  <2>3. Opened'  BY <2>2 DEF Opened
  <2>4. /\ obj.objsize = Entry[vol].objsize /\ obj.objsize \in Nat /\ n \in Int
        /\ vol \in Volumes /\ vol # None
    BY <2>2, InCall, VolumeIs DEF ClusterInv
  <2>5. fptr' + ofs' = IF obj.sclust = 0 THEN 0 ELSE Clip(n)
    <3> DEFINE from == IF Clip(n) > 0 /\ Onward(Clip(n)) THEN ((fptr - 1) \div Bcs) * Bcs ELSE 0
    <3>1. /\ fptr' = from /\ ofs' = IF clust' = 0 THEN 0 ELSE Clip(n) - from
          /\ clust' = IF Clip(n) > 0 /\ ~Onward(Clip(n)) THEN obj.sclust ELSE clust
      BY <2>1 DEF Seek
    <3>2. from \in Nat
      <4>1. CacheInv'  BY <2>1, SeekCache
      <4> QED BY <3>1, <4>1 DEF CacheInv, TypeOK
    <3>3. Clip(n) \in Nat  BY <2>2, <2>4, InCall, LeastIs DEF Clip
    <3>4. Onward(Clip(n)) => clust # 0 /\ obj.sclust # 0
      BY <2>2 DEF Onward, ClusterInv
    <3>5. ~(Clip(n) > 0 /\ Onward(Clip(n))) => from = 0  OBVIOUS
    <3> HIDE DEF from
    <3>6. CASE Clip(n) > 0 /\ Onward(Clip(n))
      BY <3>1, <3>2, <3>3, <3>4, <3>6
    <3>7. CASE Clip(n) > 0 /\ ~Onward(Clip(n))
      BY <3>1, <3>3, <3>5, <3>7
    <3>8. CASE Clip(n) = 0
      BY <3>1, <3>5, <3>8
    <3> QED BY <3>3, <3>6, <3>7, <3>8
  <2>6. [v \in Volumes |-> FileSize(v)][vol] = IF obj.sclust = 0 THEN 0 ELSE obj.objsize
    BY <2>2, FileSizeIs
  <2>7. (IF obj'.sclust # 0 THEN fptr' + ofs' ELSE 0)
          = F!Least(n, IF obj.sclust = 0 THEN 0 ELSE obj.objsize)
    <3>1. Clip(n) = F!Least(n, obj.objsize)  BY DEF Clip, Least, F!Least
    <3>2. CASE obj.sclust = 0
      BY <2>2, <2>4, <3>2 DEF F!Least
    <3>3. CASE obj.sclust # 0
      BY <2>2, <2>5, <3>1, <3>3
    <3> QED BY <3>2, <3>3
  <2>8. F!Begin("seek", n)
    BY <2>2, <2>3, <2>4, <2>5, <2>6, <2>7
    DEF F!Begin, F!NewBuffer, NewBuffer, None, F!Lost
  <2>9. F!Seek(n)
    <3>1. fptr' + ofs' = IF obj'.sclust # 0 THEN fptr' + ofs' ELSE 0
      BY <2>2, <2>5
    <3> QED BY <2>2, <2>3, <2>8, <3>1 DEF F!Seek
  <2> QED BY <2>9 DEF F!Next
<1>3. CASE ReadDone
  <2>1. /\ pc = "read" /\ pc' = "idle" /\ Opened /\ ofs = 0 /\ res' = "ok"
        /\ UNCHANGED <<obj, vol, id, err, fs_type, fptr, rbuff, br>>
    BY <1>3, InCall DEF ReadDone, Return, Kept, fs, fil, args, Calls
  <2>2. Opened' /\ fptr \in Nat  BY <2>1, InCall DEF Opened
  <2>3. obj.sclust = 0 => fptr = 0  BY <2>1, FileSizeIs
  <2>4. F!Succeed  BY <2>1, <2>2, <2>3 DEF F!Succeed
  <2> QED BY <2>4 DEF F!Next
<1> QED BY <1>1, <1>2, <1>3

\* The program's buffer keeps its size.
LEMMA RbuffKept == [Next]_vars => DOMAIN rbuff' = DOMAIN rbuff
<1> SUFFICES ASSUME [Next]_vars PROVE DOMAIN rbuff' = DOMAIN rbuff  OBVIOUS
<1>1. CASE Step
  <2>1. CASE ReadPart \/ ReadWhole \/ ReadSector
    BY <2>1 DEF ReadPart, ReadWhole, ReadSector, Copy
  <2>2. CASE ~(ReadPart \/ ReadWhole \/ ReadSector)
    <3>1. UNCHANGED rbuff
      BY <1>1, <2>2 DEF Step, Initialize, Boot, Scan, FollowPath, ReadDone, ReadCluster,
         ReadSameCluster, NoSector, SeekFollow, SeekEnd, out
    <3> QED BY <3>1
  <2> QED BY <2>1, <2>2
<1>2. CASE Program
  BY <1>2 DEF Program, Mount, Open, Refused, Read, Seek, NewBuffer
<1>3. CASE User
  BY <1>3 DEF User, out
<1>4. CASE UNCHANGED vars
  BY <1>4 DEF vars, out
<1> QED BY <1>1, <1>2, <1>3, <1>4 DEF Next

Filled == DOMAIN rbuff = 0..(MaxRead - 1)

\* What a file and its buffers look like to ByteFile while f_read works.
LEMMA InRead ==
    ASSUME ReadInv, pc \in {"read", "sector"}
    PROVE  /\ Opened /\ fptr \in Nat /\ ofs \in Nat /\ br \in Nat
           /\ br + ofs <= MaxRead /\ MaxRead \in Nat /\ br <= MaxRead
           /\ SS \in Nat \ {0} /\ vol[1] = media
BY InCall DEF ReadInv, Calls

LEMMA ReadPartStep == ReadInv /\ ReadPart => F!Next
<1> SUFFICES ASSUME ReadInv, ReadPart PROVE F!Next  OBVIOUS
<1> DEFINE n == Least(ofs, SS - (fptr % SS))
<1>1. /\ pc = "read" /\ pc' = "read" /\ Opened /\ fptr % SS # 0
      /\ UNCHANGED <<obj, vol, id, err, fs_type, res>>
      /\ fptr' = fptr + n /\ br' = br + n /\ ofs' = ofs - n
      /\ rbuff' = [i \in DOMAIN rbuff |->
                      IF i \in br..(br + n - 1) THEN <<buf, (fptr + i - br) % SS>> ELSE rbuff[i]]
  BY InRead DEF ReadPart, Copy, Kept, fs
<1>2. Opened'  BY <1>1 DEF Opened
<1>3. /\ fptr \in Nat /\ ofs \in Nat /\ br \in Nat /\ SS \in Nat \ {0}
      /\ br + ofs <= MaxRead /\ MaxRead \in Nat
  BY <1>1, InRead
<1>4. fptr % SS \in 0..(SS - 1)  BY <1>3, DivMod
<1>5. n \in Nat /\ n <= ofs /\ n + (fptr % SS) <= SS
  BY <1>3, <1>4 DEF Least
<1> HIDE DEF n
<1>6. clust = Chain[vol][fptr \div Bcs] /\ buf = <<vol[1], SectorAt(clust, fptr)>>
  BY <1>1, ChainHere DEF BufInv, ReadInv
<1>7. ASSUME NEW i \in DOMAIN rbuff, i \in br..(br + n - 1)
      PROVE  <<buf, (fptr + i - br) % SS>> = FileByte(vol, fptr + i - br)
  <2>1. i - br \in Nat /\ (fptr % SS) + (i - br) < SS /\ fptr + i - br = fptr + (i - br)
    BY <1>3, <1>4, <1>5, <1>7
  <2>2. FileByte(vol, fptr + (i - br))
          = <<<<vol[1], SectorAt(clust, fptr)>>, (fptr + (i - br)) % SS>>
    BY <1>1, <1>6, <2>1, ByteHere DEF ReadInv
  <2> QED BY <1>6, <2>1, <2>2
<1>8. rbuff' = [i \in DOMAIN rbuff |->
                   IF i \in br..(br + n - 1) THEN FileByte(vol, fptr + i - br) ELSE rbuff[i]]
  BY <1>1, <1>7
<1>9. obj.sclust # 0
  <2>1. fptr # 0
    <3>1. 0 % SS = 0  BY <1>3
    <3> QED BY <1>1, <3>1
  <2> QED BY <1>1, <2>1, FileSizeIs
<1> QED BY <1>1, <1>2, <1>3, <1>5, <1>8, <1>9, DeliverStep

LEMMA ReadSectorStep == ReadInv /\ ReadSector => F!Next
<1> SUFFICES ASSUME ReadInv, ReadSector PROVE F!Next  OBVIOUS
<1> DEFINE s == Clst2Sect(clust) + Csect
<1>1. /\ pc = "sector" /\ Opened /\ ofs < SS /\ Clst2Sect(clust) # 0
      /\ UNCHANGED <<obj, vol, id, fs_type>>
  BY InRead DEF ReadSector, Kept, fs
<1>2. \/ Abort /\ UNCHANGED <<rbuff, br>>
      \/ /\ pc' = "read" /\ UNCHANGED <<err, res>>
         /\ fptr' = fptr + ofs /\ br' = br + ofs /\ ofs' = ofs - ofs
         /\ \E from : /\ \/ from = buf /\ sect = s
                         \/ from = <<media, s>>
                      /\ rbuff' = [i \in DOMAIN rbuff |->
                                      IF i \in br..(br + ofs - 1)
                                      THEN <<from, (fptr + i - br) % SS>> ELSE rbuff[i]]
  BY DEF ReadSector, Copy
<1>3. CASE Abort /\ UNCHANGED <<rbuff, br>>
  <2>1. ~Opened' /\ pc' = "idle" /\ res' = "error"  BY <1>3 DEF Abort, Return, Opened
  <2> QED BY <1>1, <1>3, <2>1, FailStep DEF Calls
<1>4. CASE /\ pc' = "read" /\ UNCHANGED <<err, res>>
           /\ fptr' = fptr + ofs /\ br' = br + ofs /\ ofs' = ofs - ofs
           /\ \E from : /\ \/ from = buf /\ sect = s
                           \/ from = <<media, s>>
                        /\ rbuff' = [i \in DOMAIN rbuff |->
                                        IF i \in br..(br + ofs - 1)
                                        THEN <<from, (fptr + i - br) % SS>> ELSE rbuff[i]]
  <2>1. PICK from : /\ \/ from = buf /\ sect = s
                       \/ from = <<media, s>>
                    /\ rbuff' = [i \in DOMAIN rbuff |->
                                    IF i \in br..(br + ofs - 1)
                                    THEN <<from, (fptr + i - br) % SS>> ELSE rbuff[i]]
    BY <1>4
  <2>2. s = SectorAt(clust, fptr) /\ s # 0  BY <1>1, SectorHere DEF ReadInv
  <2> HIDE DEF s
  <2>3. /\ fptr \in Nat /\ ofs \in Nat /\ br \in Nat /\ SS \in Nat \ {0}
        /\ br + ofs <= MaxRead /\ MaxRead \in Nat /\ vol[1] = media
    BY <1>1, InRead
  <2>4. from = <<vol[1], SectorAt(clust, fptr)>>
    <3>1. sect # 0 => buf = <<media, sect>>  BY <1>1, InCall DEF ReadInv
    <3> QED BY <2>1, <2>2, <2>3, <3>1
  <2>5. clust = Chain[vol][fptr \div Bcs] /\ fptr % SS = 0
    BY <1>1 DEF ReadInv, ClusterInv, Reached
  <2>6. ASSUME NEW i \in DOMAIN rbuff, i \in br..(br + ofs - 1)
        PROVE  <<from, (fptr + i - br) % SS>> = FileByte(vol, fptr + i - br)
    <3>1. i - br \in Nat /\ (fptr % SS) + (i - br) < SS /\ fptr + i - br = fptr + (i - br)
      BY <1>1, <2>3, <2>5, <2>6
    <3>2. FileByte(vol, fptr + (i - br))
            = <<<<vol[1], SectorAt(clust, fptr)>>, (fptr + (i - br)) % SS>>
      BY <1>1, <2>5, <3>1, ByteHere DEF ReadInv
    <3> QED BY <2>4, <3>1, <3>2
  <2>7. rbuff' = [i \in DOMAIN rbuff |->
                     IF i \in br..(br + ofs - 1) THEN FileByte(vol, fptr + i - br) ELSE rbuff[i]]
    BY <2>1, <2>6
  <2>8. Opened' /\ ofs <= ofs /\ obj.sclust # 0
    BY <1>1, <1>4, <2>3 DEF Opened, ReadInv, ClusterInv
  <2> QED BY <1>1, <1>4, <2>3, <2>7, <2>8, DeliverStep
<1> QED BY <1>2, <1>3, <1>4

LEMMA ReadWholeStep == ReadInv /\ Filled /\ ReadWhole => F!Next
<1> SUFFICES ASSUME ReadInv, Filled, ReadWhole PROVE F!Next  OBVIOUS
<1> DEFINE cc == Least(ofs \div SS, Geo.csize - Csect)
           first == Clst2Sect(clust) + Csect
           d == cc * SS
<1>1. /\ pc = "sector" /\ Opened /\ Clst2Sect(clust) # 0
      /\ UNCHANGED <<obj, vol, id, fs_type>>
  BY InRead DEF ReadWhole, Kept, fs
<1>2. \/ /\ rbuff' = [i \in DOMAIN rbuff |->
                         IF i \in br..(br + d - 1)
                         THEN <<<<media, first + (i - br) \div SS>>, (i - br) % SS>>
                         ELSE rbuff[i]]
         /\ br' = br + d /\ fptr' = fptr + d /\ ofs' = ofs - d
         /\ pc' = "read" /\ UNCHANGED <<err, res>>
      \/ /\ Abort /\ br' = br
         /\ rbuff' = [i \in DOMAIN rbuff |-> IF i < br THEN rbuff[i] ELSE None]
  BY DEF ReadWhole
<1>3. cc \in Nat /\ cc <= Geo.csize - Csect /\ d \in Nat /\ d <= ofs
  BY <1>1, ReadWholeRoom DEF ReadInv
<1> HIDE DEF cc
<1>4. /\ fptr \in Nat /\ ofs \in Nat /\ br \in Nat /\ SS \in Nat \ {0} /\ br <= MaxRead
      /\ br + ofs <= MaxRead /\ MaxRead \in Nat /\ vol[1] = media
  BY <1>1, InRead
<1>5. CASE /\ Abort /\ br' = br
           /\ rbuff' = [i \in DOMAIN rbuff |-> IF i < br THEN rbuff[i] ELSE None]
  <2>1. ~Opened' /\ pc' = "idle" /\ res' = "error"  BY <1>5 DEF Abort, Return, Opened
  <2>2. ASSUME NEW i \in 0..(br - 1) PROVE rbuff'[i] = rbuff[i]
    <3>1. i \in DOMAIN rbuff /\ i < br  BY <1>4, <2>2 DEF Filled
    <3> QED BY <1>5, <3>1
  <2> QED BY <1>1, <1>5, <2>1, <2>2, FailStep DEF Calls
<1>6. CASE /\ rbuff' = [i \in DOMAIN rbuff |->
                           IF i \in br..(br + d - 1)
                           THEN <<<<media, first + (i - br) \div SS>>, (i - br) % SS>>
                           ELSE rbuff[i]]
           /\ br' = br + d /\ fptr' = fptr + d /\ ofs' = ofs - d
           /\ pc' = "read" /\ UNCHANGED <<err, res>>
  <2>1. first = SectorAt(clust, fptr)  BY <1>1, SectorHere DEF ReadInv
  <2> HIDE DEF first
  <2>2. clust = Chain[vol][fptr \div Bcs] /\ fptr % SS = 0
    BY <1>1 DEF ReadInv, ClusterInv, Reached
  <2>3. ASSUME NEW i \in DOMAIN rbuff, i \in br..(br + d - 1)
        PROVE  <<<<media, first + (i - br) \div SS>>, (i - br) % SS>>
                 = FileByte(vol, fptr + i - br)
    <3>1. i - br \in Nat /\ i - br < cc * SS /\ fptr + i - br = fptr + (i - br)
      BY <1>3, <1>4, <2>3
    <3>2. FileByte(vol, fptr + (i - br))
            = <<<<vol[1], SectorAt(clust, fptr) + (i - br) \div SS>>, (i - br) % SS>>
      BY <1>1, <1>3, <2>2, <3>1, ByteAfter DEF ReadInv
    <3> QED BY <1>4, <2>1, <3>1, <3>2
  <2>4. rbuff' = [i \in DOMAIN rbuff |->
                     IF i \in br..(br + d - 1) THEN FileByte(vol, fptr + i - br) ELSE rbuff[i]]
    BY <1>6, <2>3
  <2>5. Opened' /\ obj.sclust # 0  BY <1>1, <1>6 DEF Opened, ReadInv, ClusterInv
  <2> HIDE DEF d
  <2> QED BY <1>1, <1>3, <1>4, <1>6, <2>4, <2>5, DeliverStep
<1> QED BY <1>2, <1>5, <1>6

\* Steps that follow the chain, and the end of f_lseek.
LEMMA FollowSteps ==
    ASSUME ReadInv,
           ReadCluster \/ ReadSameCluster \/ NoSector \/ SeekFollow \/ SeekEnd
    PROVE  F!Next \/ UNCHANGED F!vars
<1> USE DEF ReadInv
<1>1. /\ pc \in Calls /\ Opened /\ UNCHANGED <<obj, vol, id, fs_type, rbuff, br>>
      /\ fptr \in Nat /\ ofs \in Nat /\ Bcs \in Nat
  <2>1. pc \in Calls
    BY DEF ReadCluster, ReadSameCluster, NoSector, SeekFollow, SeekEnd, Calls
  <2>2. UNCHANGED <<obj, vol, id, fs_type, rbuff, br>>
    BY DEF ReadCluster, ReadSameCluster, NoSector, SeekFollow, SeekEnd, Kept, fs, fil, out
  <2>3. Opened /\ fptr \in Nat /\ ofs \in Nat /\ Bcs \in Nat
    BY <2>1, InCall
  <2> QED BY <2>1, <2>2, <2>3
<1>2. CASE Abort
  <2>1. ~Opened' /\ pc' = "idle" /\ res' = "error"  BY <1>2 DEF Abort, Return, Opened
  <2> QED BY <1>1, <2>1, FailStep
<1>3. CASE ReadCluster /\ ~Abort
  <2>1. pc = "read" /\ pc' = "sector" /\ UNCHANGED <<err, res, fptr, ofs>>
    BY <1>3 DEF ReadCluster, args
  <2>2. Opened'  BY <1>1, <2>1 DEF Opened
  <2> QED BY <1>1, <2>1, <2>2, StutterStep
<1>4. CASE ReadSameCluster
  <2>1. pc = "read" /\ pc' = "sector" /\ UNCHANGED <<err, res, fptr, ofs>>
    BY <1>4 DEF ReadSameCluster, args, fil, out
  <2>2. Opened'  BY <1>1, <2>1 DEF Opened
  <2> QED BY <1>1, <2>1, <2>2, StutterStep
<1>5. CASE NoSector
  BY <1>2, <1>5 DEF NoSector
<1>6. CASE SeekFollow /\ ~Abort
  <2>1. /\ pc = "seek" /\ pc' = "seek" /\ UNCHANGED <<err, res>>
        /\ fptr' = fptr + Bcs /\ ofs' = ofs - Bcs
    BY <1>6 DEF SeekFollow
  <2>2. Opened'  BY <1>1, <2>1 DEF Opened
  <2>3. fptr' + ofs' = fptr + ofs  BY <1>1, <2>1
  <2> QED BY <1>1, <2>1, <2>2, <2>3, StutterStep
<1>7. CASE SeekEnd /\ ~Abort
  <2>1. /\ pc = "seek" /\ pc' = "idle" /\ res' = "ok" /\ UNCHANGED err
        /\ fptr' = fptr + ofs
    BY <1>7 DEF SeekEnd, Return
  <2>2. Opened'  BY <1>1, <2>1 DEF Opened
  <2>3. obj.sclust = 0 => fptr + ofs = 0  BY <1>1, <2>1, FileSizeIs
  <2>4. F!Succeed  BY <1>1, <2>1, <2>2, <2>3 DEF F!Succeed
  <2> QED BY <2>4 DEF F!Next
<1> QED BY <1>2, <1>3, <1>4, <1>5, <1>6, <1>7

LEMMA UserStep == User \/ UNCHANGED vars => UNCHANGED F!vars
BY DEF User, vars, disk, fs, window, fil, args, out, F!vars, Opened

LEMMA InitFile == Init => F!Init
BY DEF Init, F!Init, Opened, None, F!Lost

\* What a program reads is the file that it opened, from the position that it
\* asked for, or an error: f_open, f_read and f_lseek do what ByteFile promises
\* whatever cards come and go and however their chains are damaged.
THEOREM ReadsCorrect == Spec => ReadsTheFile
<1>1. Init => F!Init  BY InitFile
<1>2. Init => Filled  BY DEF Init, Filled
<1>3. Filled /\ [Next]_vars => Filled'  BY RbuffKept DEF Filled
<1>4. ReadInv /\ Filled /\ [Next]_vars => [F!Next]_F!vars
  <2> SUFFICES ASSUME ReadInv, Filled, [Next]_vars PROVE F!Next \/ UNCHANGED F!vars
    OBVIOUS
  <2>1. CASE Step
    BY <2>1, OtherSteps, BeginSteps, ReadPartStep, ReadSectorStep, ReadWholeStep, FollowSteps
    DEF Step
  <2>2. CASE Program
    BY <2>2, OtherSteps, BeginSteps DEF Program
  <2>3. CASE User \/ UNCHANGED vars
    BY <2>3, UserStep
  <2> QED BY <2>1, <2>2, <2>3 DEF Next
<1> QED BY <1>1, <1>2, <1>3, <1>4, ReadInvariant, PTL DEF Spec, ReadsTheFile, F!Spec

=============================================================================
