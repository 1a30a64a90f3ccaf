------------------------------ MODULE ByteFile ------------------------------
(***************************************************************************)
(* What f_open, f_read and f_lseek promise a program: an open file is the  *)
(* bytes of one file of one volume, and a position in it.  A call that     *)
(* succeeds did what was asked; one that fails loses the file until it is  *)
(* opened again, and so does mounting a volume.                            *)
(***************************************************************************)
EXTENDS Integers

CONSTANTS
    Volumes,
    Size,           \* Size[v]: bytes in the file of volume v
    Byte(_, _),     \* Byte(v, i): byte i of that file
    MaxRead,        \* bytes of the longest read
    MaxSeek         \* the farthest position asked for

VARIABLES
    file,           \* the volume of the open file, or Lost
    pos,            \* the next byte to read
    rbuff, br,      \* the program's buffer, and how much of it was read
    op,             \* "idle", or the call that runs: "read", "seek", "other"
    goal,           \* the position it is to reach
    res             \* "ok" or "error": how the last call ended

vars == <<file, pos, rbuff, br, op, goal, res>>

Lost == <<>>
Least(a, b) == IF a < b THEN a ELSE b

Init == /\ file = Lost /\ pos = 0
        /\ rbuff = [i \in 0..(MaxRead - 1) |-> Lost] /\ br = 0
        /\ op = "other" /\ goal = 0 /\ res = "ok"

NewBuffer == rbuff' = [i \in DOMAIN rbuff |-> Lost] /\ br' = 0

\* A call on a file that is lost is refused.
Refuse == /\ op = "idle" /\ file = Lost
          /\ res' = "error" /\ NewBuffer
          /\ UNCHANGED <<file, pos, op, goal>>

Begin(call, target) == /\ op = "idle" /\ file # Lost
                       /\ op' = call /\ goal' = Least(target, Size[file])
                       /\ NewBuffer
                       /\ UNCHANGED <<file, res>>

Read(n) == Begin("read", pos + n) /\ UNCHANGED pos
Seek(n) == Begin("seek", n) /\ pos' = goal'

Deliver(k) ==
    /\ op = "read" /\ pos + k <= goal
    /\ pos' = pos + k /\ br' = br + k
    /\ rbuff' = [i \in DOMAIN rbuff |->
                    IF i \in br..(br + k - 1) THEN Byte(file, pos + i - br) ELSE rbuff[i]]
    /\ UNCHANGED <<file, op, goal, res>>

Succeed == /\ op \in {"read", "seek"} /\ pos = goal
           /\ op' = "idle" /\ goal' = 0 /\ res' = "ok"
           /\ UNCHANGED <<file, pos, rbuff, br>>

\* What a failed read has counted in br is right; the rest of the buffer may
\* be anything.
Fail == /\ op \in {"read", "seek"}
        /\ file' = Lost /\ pos' = 0
        /\ op' = "idle" /\ goal' = 0 /\ res' = "error"
        /\ \A i \in 0..(br - 1) : rbuff'[i] = rbuff[i]
        /\ UNCHANGED br

\* f_mount and f_open leave the file as it was until they lose or open one.
Other == /\ op \in {"idle", "other"} /\ op' \in {"idle", "other"}
         /\ \/ UNCHANGED <<file, pos>>
            \/ file' \in Volumes \cup {Lost} /\ pos' = 0
         /\ res' \in {"ok", "error"}
         /\ NewBuffer \/ UNCHANGED <<rbuff, br>>
         /\ UNCHANGED goal

Next == \/ Refuse \/ Succeed \/ Fail \/ Other
        \/ \E n \in 0..MaxRead : Read(n) \/ Deliver(n)
        \/ \E n \in 0..MaxSeek : Seek(n)

Spec == Init /\ [][Next]_vars
=============================================================================
