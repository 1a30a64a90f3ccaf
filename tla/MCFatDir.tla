------------------------------ MODULE MCFatDir ------------------------------
(* Directories for FatDir: every one of three slots, and those of four that *)
(* end with a first part and a file; one with a name that is too long, one  *)
(* with parts behind the end of the name and one that is too long itself;   *)
(* and some that go round.                                                  *)
EXTENDS FatDir

Other(k) == [kind |-> k]
File(n, c) == [kind |-> "short", name |-> <<n>>, sum |-> c]
Label == [kind |-> "label", name |-> <<"b">>, sum |-> 1]
Dot == [kind |-> "dot", name |-> <<".">>, sum |-> 1]
Part(n, last, c, text) == [kind |-> "long", ord |-> n, last |-> last, sum |-> c,
                           text |-> text, clear |-> TRUE]

Files == {File("a", 1), File("b", 2)}
First == Part(1, FALSE, 1, <<"a", "b">>)
Slots == Files \cup {First, Dot, Label, Other("end"), Other("free"), Other("volume"),
                     Part(1, TRUE, 1, <<"b", Nul>>), Part(1, TRUE, 2, <<"w", Nul>>),
                     Part(1, TRUE, 1, <<"b", "z">>), Part(2, TRUE, 1, <<"b", Nul>>),
                     Part(2, TRUE, 2, <<"a", "b">>), Part(2, TRUE, 1, <<"a", "b">>)}

MCDirs == {[slots |-> s, loop |-> FALSE] : s \in [1..3 -> Slots]}
          \cup {[slots |-> <<x, y, First, f>>, loop |-> FALSE] : x, y \in Slots, f \in Files}
          \cup {[slots |-> <<x, y>>, loop |-> TRUE] : x, y \in Slots}
          \cup {[slots |-> s, loop |-> FALSE] :
                    s \in {<<Part(3, TRUE, 1, <<"a", Nul>>), Part(2, FALSE, 1, <<"a", "b">>),
                             First, File("a", 1)>>,
                           <<Part(2, TRUE, 1, <<"b", Nul>>), Part(1, FALSE, 1, <<"a", Nul>>),
                             File("b", 1)>>,
                           <<Dot, Dot, Dot, Dot, Dot, Dot, File("a", 1)>>}}
MCSought == {<<"a">>, <<"b">>, <<"w">>, <<"a", "b", "b">>, <<"a", "b", "a", "b", "a">>}
MCByte(c) == CASE c = "w" -> "a" [] c = "z" -> Nul [] OTHER -> c
=============================================================================
