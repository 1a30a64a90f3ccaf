---------------------------- MODULE ByteExchange ----------------------------
(***************************************************************************)
(* What port >57 promises a program: each IN or OUT exchanges exactly one  *)
(* byte with the card, and is over only once it has.                       *)
(*                                                                         *)
(* The port moves bits without looking at them, so a bit is named by where *)
(* it comes from: k is bit k of the program's byte (1 the first sent), -k  *)
(* bit k of the card's, and One a constant 1.                              *)
(***************************************************************************)
EXTENDS Integers

CONSTANTS Bits      \* bits in a byte; SdSpi assumes that it is positive

VARIABLES
    request,    \* what the program is doing: "none", "read", "write", "control"
    selected,   \* the card is selected
    answer,     \* what the program gets, Nothing before the exchange
    heard       \* what the card got of this request, Nothing if it got none

vars == <<request, selected, answer, heard>>

One == 0
Token == (-Bits)..Bits
Word == [1..Bits -> Token]
Nothing == [i \in {} |-> One]

\* A read sends ones; a card that is not selected leaves the line at one.
Sent(k)  == [i \in 1..Bits |-> IF k = "write" THEN i ELSE One]
Reply(s) == [i \in 1..Bits |-> IF s THEN -i ELSE One]

Init == /\ request = "none" /\ selected = FALSE
        /\ answer = Nothing /\ heard = Nothing

Ask(k) == /\ request = "none" /\ request' = k
          /\ UNCHANGED <<selected, answer, heard>>

Exchange == /\ request \in {"read", "write"} /\ answer = Nothing
            /\ answer' = Reply(selected)
            /\ heard' = IF selected THEN Sent(request) ELSE Nothing
            /\ UNCHANGED <<request, selected>>

Take == /\ request \in {"read", "write"} /\ answer # Nothing
        /\ request' = "none"
        /\ answer' = Nothing /\ heard' = Nothing
        /\ UNCHANGED selected

\* Port >56 selects the card or lets it go.
Control(s) == /\ request = "control" /\ request' = "none"
              /\ selected' = s
              /\ UNCHANGED <<answer, heard>>

Reset == /\ request' = "none" /\ selected' = FALSE
         /\ answer' = Nothing /\ heard' = Nothing

Next == \/ \E k \in {"read", "write", "control"} : Ask(k)
        \/ \E s \in BOOLEAN : Control(s)
        \/ Exchange \/ Take \/ Reset

Spec == Init /\ [][Next]_vars
=============================================================================
