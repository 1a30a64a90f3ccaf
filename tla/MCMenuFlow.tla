----------------------------- MODULE MCMenuFlow -----------------------------
(* Cards for MenuFlow.  "games" has a COLECO folder, a deeper one whose     *)
(* name fits no more and one whose files do not.  "mixed" has none in its   *)
(* root, more entries than the list takes, and a COLECO folder in another.  *)
(* "files" has no folder at all.  The others have any three of five entries *)
(* in their COLECO folder.                                                  *)
EXTENDS MenuFlow, TLC

D(n) == [name |-> n, dir |-> TRUE, pages |-> 0]
E(n, pages) == [name |-> n, dir |-> FALSE, pages |-> pages]
Of(n) == IF n \in {"d", "f"} THEN D(n) ELSE E(n, 1)

MCCards == {<<"games">>, <<"mixed">>, <<"files">>} \cup [1..3 -> {"a", "b", "c", "d", "f"}]
MCTree == [c \in MCCards |->
    IF c = <<"games">>
    THEN <<>> :> <<D("d"), E("a", 2), D("COLECO")>>
         @@ <<"d">> :> <<E("a", 2)>>
         @@ <<"COLECO">> :> <<E("b", 3), D("d"), E("a", 1)>>
         @@ <<"COLECO", "d">> :> <<D("long"), E("b", 2), E(".h", 1)>>
         @@ <<"COLECO", "d", "long">> :> <<E("a", 1)>>
    ELSE IF c = <<"mixed">>
    THEN <<>> :> <<D("d"), E("c", 0), E(".h", 1), E("a", 2), E("b", 2), E("e", 1)>>
         @@ <<"d">> :> <<E("a", 3), D("COLECO")>>
         @@ <<"d", "COLECO">> :> <<>>
    ELSE IF c = <<"files">> THEN <<>> :> <<E("b", 1), E("a", 2)>>
    ELSE <<>> :> <<D("COLECO")>>
         @@ <<"COLECO">> :> [i \in 1..3 |-> Of(c[i])]
         @@ <<"COLECO", "d">> :> <<>> @@ <<"COLECO", "f">> :> <<>>]
\* mystrcmp takes some of the names for equal.
MCOrder(n) == CASE n \in {"a", "f"} -> 1 [] n \in {"b", "c"} -> 2 [] n = "d" -> 3
                [] n = "COLECO" -> 4 [] n = "e" -> 5 [] OTHER -> 0
\* Titles of a list before: files, a folder and the way up.
MCJunk == [k \in 0..4 |-> IF k = 0 THEN [name |-> "e", pages |-> 1]
                          ELSE IF k = 4 THEN DotDot ELSE [name |-> "d", pages |-> 0]]
MCNameLen(n) == IF n = "long" THEN 4 ELSE 2

\* Bound of the model: one of those is not exchanged for another.
Apart == \/ slot = NoCard \/ media = NoCard \/ slot = media
         \/ {slot, media} \subseteq {<<"games">>, <<"mixed">>, <<"files">>}

MCSpec == Init /\ [][Next /\ Apart']_vars /\ WF_vars(Program)
=============================================================================
