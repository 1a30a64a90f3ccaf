------------------------------ MODULE MCLoader ------------------------------
(* Cards for Loader: a root of two sectors, or of a second cluster, with   *)
(* the three files or without, in any order, and files that are not what   *)
(* they are called; with a volume that starts the card or is a partition,  *)
(* and one that has none.                                                  *)
EXTENDS Loader, TLC

Chains == (4 :> 9 @@ 9 :> End @@ 5 :> 6 @@ 6 :> End @@ 7 :> 8 @@ 8 :> End @@ 3 :> End @@ 10 :> End)

Item(kind, j, chain, s) ==
    [kind |-> kind, name |-> j, cluster |-> IF chain = <<>> THEN 0 ELSE chain[1], size |-> s, chain |-> chain]
Free == Item("free", "core", <<>>, 0)
Folder == Item("folder", "core", <<10>>, 0)
Core == Item("file", "core", <<4, 9>>, 3)
Bios == Item("file", "bios", <<5, 6>>, 3)
Mult == Item("file", "mult", <<7, 8>>, 4)
Cut == Item("file", "mult", <<7, 8>>, 3)

Short == Item("file", "bios", <<10>>, 2)
Firsts == {<<Folder, Bios>>, <<Free, Core>>, <<Free>>, <<Mult, Bios>>, <<Short, Mult>>}
Seconds == {<<Mult>>, <<Core, Mult>>, <<Bios, Cut>>, <<Short, Mult>>, <<Free>>}

\* A directory has a name once.
Names(s) == {s[i].name : i \in {i \in DOMAIN s : s[i].kind = "file"}}
Roots == {r \in Firsts \X Seconds : Names(r[1]) \cap Names(r[2]) = {}}

Card(fat32, link, dirs) ==
    [start |-> IF fat32 THEN "partition" ELSE "first", fat32 |-> fat32, root |-> IF fat32 THEN 2 ELSE 0, dirs |-> dirs,
     next |-> IF fat32 THEN (2 :> link) @@ Chains ELSE Chains]

MCCards == {Card(FALSE, End, 0 :> r) : r \in Roots} \cup {Card(TRUE, End, 2 :> r) : r \in Roots}
           \cup {Card(TRUE, 3, 2 :> <<r[1], <<Free>>>> @@ 3 :> <<r[2], <<Free>>>>) : r \in Roots}
           \cup {[Card(FALSE, End, 0 :> <<<<Free>>>>) EXCEPT !.start = "none"]}
MCBlocks == "core" :> 3 @@ "bios" :> 3 @@ "mult" :> 4
MCAnyLink == {0, 5, End}
=============================================================================
