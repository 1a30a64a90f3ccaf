----------------------------- MODULE MCFrameNmi -----------------------------
(* FrameNmi with the assembly routines of the menu; waits of up to three   *)
(* frames, the longest that the program asks for.                          *)
EXTENDS FrameNmi

MCRoutines == {"memcpy", "memset", "memmove", "vdpmemcpyfast", "rcvr_mmc"}
MCArgs == [r \in MCRoutines |-> IF r = "rcvr_mmc" THEN 2 ELSE 3]
MCSaved == [r \in MCRoutines |-> IF r \in {"vdpmemcpyfast", "rcvr_mmc"} THEN 4 ELSE 0]
MCSpills == {"memmove"}
=============================================================================
