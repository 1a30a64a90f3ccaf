----------------------------- MODULE MCFatFile -----------------------------
(* Three cards for FatFile.  "floppy" has a volume in sector 0, its file   *)
(* in three clusters out of order.  "disk" has three volumes whose files   *)
(* have damaged chains: a loop, a free cluster, a number that is no        *)
(* cluster's; and a boot sector that is not usable.  The file of "stub"    *)
(* has a size, and no cluster.                                             *)
EXTENDS FatFile, TLC

MCCards == {"floppy", "disk", "stub"}
Unparted == [i \in 0..4 |-> IF i = 0 THEN "fat" ELSE "none"]
MCLayout == "floppy" :> Unparted @@ "stub" :> Unparted
            @@ ("disk" :> [i \in 0..4 |-> IF i = 0 THEN "boot" ELSE IF i = 4 THEN "bad" ELSE "fat"])
MCBase == [c \in MCCards |-> [i \in 1..4 |-> IF c = "disk" THEN 30 * i ELSE 0]]

V(i) == IF i = 0 THEN <<"floppy", 0>> ELSE IF i = 4 THEN <<"stub", 0>> ELSE <<"disk", i>>
G(start, size) == [fatbase |-> start + 1, dir |-> start + 4, database |-> start + 5,
                   csize |-> size, n_fatent |-> 6]
MCGeometry == V(0) :> G(0, 2) @@ V(1) :> G(30, 1) @@ V(2) :> G(60, 1) @@ V(3) :> G(90, 2) @@ V(4) :> G(0, 1)
T(a, b, c, d) == 2 :> a @@ 3 :> b @@ 4 :> c @@ 5 :> d
MCFat == V(0) :> T(7, 2, 0, 3) @@ V(1) :> T(4, 0, 2, 0)
         @@ V(2) :> T(0, 0, 0, 0) @@ V(3) :> T(7, 0, 0, 0) @@ V(4) :> T(0, 0, 0, 0)
E(first, size) == [sclust |-> first, objsize |-> size]
MCEntry == V(0) :> E(5, 10) @@ V(1) :> E(2, 6) @@ V(2) :> E(3, 3) @@ V(3) :> E(2, 6) @@ V(4) :> E(0, 3)
MCChain == [v \in DOMAIN MCFat |->
               LET Link(c) == IF c \in 2..5 THEN MCFat[v][c] ELSE 1
                   s == MCEntry[v].sclust
               IN [k \in 0..3 |-> IF k = 0 THEN s ELSE IF k = 1 THEN Link(s)
                                  ELSE IF k = 2 THEN Link(Link(s)) ELSE Link(Link(Link(s)))]]
=============================================================================
