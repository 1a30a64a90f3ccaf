------------------------------ MODULE FrameNmi ------------------------------
(***************************************************************************)
(* The frame interrupt of the boot program and the menu.                   *)
(*                                                                         *)
(* The F18A raises the NMI of the CPU once a frame, and not again before   *)
(* its status is read; the handler of crt0_bios.s leaves a mark in vdpLimi *)
(* that waitVblanks waits for.  A wait returns with the interrupt armed,   *)
(* so one NMI falls somewhere into the code that follows, which may be one *)
(* of the assembly routines that read their arguments by moving the stack  *)
(* pointer above their own return address.                                 *)
(*                                                                         *)
(* A step of the program is an instruction, or several between which an    *)
(* NMI makes no difference.  The stack is seen in words: 0 is the return   *)
(* address of the routine, 1, 2... its arguments, -1, -2... what it saved. *)
(* Of a word only whether an NMI has written over it matters.              *)
(*                                                                         *)
(* The Bug... operators are plausible mistakes in the code, each put in    *)
(* place of the definition that follows it to show what a property is for. *)
(***************************************************************************)
EXTENDS Integers

CONSTANTS
    Routines,   \* the assembly routines
    Args,       \* words of arguments of each
    Saved,      \* registers that each saves, in words
    Spills,     \* those that keep a word on the stack while they copy
    Frames      \* bound of the frames waited for in one call

ASSUME RoutinesAssumption == /\ Args \in [Routines -> 1..3]
                             /\ Saved \in [Routines -> 0..4]
                             /\ Spills \subseteq Routines
ASSUME FramesAssumption == Frames \in Nat \ {0}

VARIABLES
    frame,      \* F18A: the frame flag of the status register
    ie,         \* F18A: interrupts enabled in register 1
    nmi,        \* T80: "none", "raised", or "due" at the end of the instruction
    vdpLimi,    \* bit 7 of vdpLimi: the handler ran
    pc,
    cnt,        \* waitVblanks: frames left to wait for
    owed,       \* history: cnt of the call less the frames begun since
    routine,    \* the assembly routine that is running
    sp,         \* stack pointer, relative to the routine's return address
    torn,       \* words from sp's lowest position up that an NMI overwrote
    early       \* history: an NMI fell between moving sp and the last argument

vdp == <<frame, ie>>
wait == <<cnt, owed>>
asm == <<routine, sp, torn, early>>
nmiVars == <<vdp, nmi, vdpLimi, pc, wait, asm>>

Waiting == pc \in {"enter", "forget", "test", "spin", "clear", "read"}
Copying == pc \in {"save", "raise", "pop", "spill", "copy", "lower", "restore", "ret"}

-----------------------------------------------------------------------------
(* The interrupt *)

\* The line is low while the flag is up and enabled; the CPU keeps its edge.
Falls(f, i) == (f /\ i) /\ ~(frame /\ ie)
Keep  == IF nmi = "raised" THEN "due" ELSE nmi

\* An instruction of the program, which leaves the flag f and the enable i.  An
\* NMI is taken at its end, or at the end of the next one if it came late.
Instruction(f, i) == /\ nmi # "due"
                     /\ frame' = f /\ ie' = i
                     /\ nmi' = IF Falls(f, i) /\ nmi = "none" THEN "raised" ELSE Keep

\* A frame that ends in the very clock of a status read leaves no trace.
Vblank == /\ frame' = TRUE
          /\ nmi' = IF Falls(TRUE, ie) /\ nmi = "none" THEN "raised" ELSE nmi
          /\ owed' = IF owed > 0 THEN owed - 1 ELSE owed
          /\ UNCHANGED <<ie, vdpLimi, pc, cnt, asm>>

\* The words below sp that the NMI (PC) and its handler (AF, HL) use.
BugPushed == {sp - 1, sp - 2, sp - 3, sp - 4}
Pushed == {sp - 1, sp - 2, sp - 3}

\* vdpLimi's bit 0 is never set: the handler calls nothing.
Nmi == /\ nmi # "none"
       /\ nmi' = "none" /\ vdpLimi' = TRUE
       /\ IF Copying
          THEN /\ torn' = torn \cup Pushed
               /\ early' = (early \/ pc = "pop")
          ELSE UNCHANGED <<torn, early>>
       /\ UNCHANGED <<vdp, pc, wait, routine, sp>>

-----------------------------------------------------------------------------
(* C code *)

\* VDP_SET_REGISTER of register 1.
SetIe(b) == /\ pc = "c" /\ Instruction(frame, b)
            /\ UNCHANGED <<vdpLimi, pc, wait, asm>>

-----------------------------------------------------------------------------
(* waitVblanks.  VDP_CLEAR_VBLANK forgets the mark, then reads the status. *)

Goto(from, to) == pc = from /\ pc' = to /\ Instruction(frame, ie)

\* It is only called with the interrupt enabled.
WaitCall == /\ Goto("c", "enter") /\ ie
            /\ cnt' \in 1..Frames /\ owed' = cnt'
            /\ UNCHANGED <<vdpLimi, asm>>

Forget(from, to) == /\ Goto(from, to) /\ vdpLimi' = FALSE
                    /\ UNCHANGED <<wait, asm>>

ReadStatus(from, to) == /\ pc = from /\ pc' = to
                        /\ Instruction(FALSE, ie)
                        /\ UNCHANGED <<vdpLimi, wait, asm>>

\* f18a.c and startCartridge poll the status themselves.
PollStatus == ReadStatus("c", "c")

BugClearVblank(from, between, to) == \/ ReadStatus(from, between)
                                     \/ Forget(between, to)
ClearVblank(from, between, to) == \/ Forget(from, between)
                                  \/ ReadStatus(between, to)

WaitTest == /\ IF cnt > 0 THEN Goto("test", "spin") /\ cnt' = cnt - 1
                          ELSE Goto("test", "c") /\ UNCHANGED cnt
            /\ UNCHANGED <<vdpLimi, owed, asm>>

BugSpin == /\ Goto("spin", "clear")
           /\ UNCHANGED <<vdpLimi, wait, asm>>
Spin == /\ Goto("spin", IF vdpLimi THEN "clear" ELSE "spin")
        /\ UNCHANGED <<vdpLimi, wait, asm>>

WaitVblanks == \/ WaitCall \/ WaitTest \/ Spin
               \/ ClearVblank("enter", "forget", "test")
               \/ ClearVblank("clear", "read", "test")

-----------------------------------------------------------------------------
(* The assembly routines *)

Asm(from, to) == Goto(from, to) /\ UNCHANGED <<vdpLimi, wait>>

AsmCall(r) == /\ Asm("c", "save")
              /\ routine' = r /\ sp' = 0 /\ torn' = {} /\ early' = FALSE

\* A word pushed replaces what an NMI left there.
Save == /\ IF sp > -Saved[routine]
           THEN /\ Asm("save", "save")
                /\ sp' = sp - 1 /\ torn' = torn \ {sp - 1}
           ELSE Asm("save", "raise") /\ UNCHANGED <<sp, torn>>
        /\ UNCHANGED <<routine, early>>

\* ld sp,hl: from now on sp is above the return address.
Raise == /\ Asm("raise", "pop") /\ sp' = 1
         /\ UNCHANGED <<routine, torn, early>>

Pop == /\ sp' = sp + 1
       /\ Asm("pop", IF sp < Args[routine] THEN "pop"
                     ELSE IF routine \in Spills THEN "spill" ELSE "copy")
       /\ UNCHANGED <<routine, torn, early>>

\* memmove pushes its source to find out the direction if the source is the
\* lower of the two, ...
Spill == /\ Asm("spill", "copy")
         /\ \/ sp' = sp - 1 /\ torn' = torn \ {sp - 1}
            \/ UNCHANGED <<sp, torn>>
         /\ UNCHANGED <<routine, early>>

\* ... and copies downwards before it pops it again, or upwards after.
Unspill == /\ sp = Args[routine] /\ sp' = sp + 1
           /\ (Asm("copy", "copy") \/ Asm("copy", "lower"))
           /\ UNCHANGED <<routine, torn, early>>

Copy == /\ \/ Asm("copy", "copy")
           \/ sp = Args[routine] + 1 /\ Asm("copy", "lower")
        /\ UNCHANGED asm

Lower == /\ Asm("lower", "restore")
         /\ sp' = sp - (Args[routine] + 1) - Saved[routine]
         /\ UNCHANGED <<routine, torn, early>>

Restore == /\ IF sp < 0 THEN Asm("restore", "restore") /\ sp' = sp + 1
                        ELSE Asm("restore", "ret") /\ UNCHANGED sp
           /\ UNCHANGED <<routine, torn, early>>

\* A return address that an NMI wrote over leads nowhere.
Ret == /\ Asm("ret", IF 0 \in torn THEN "lost" ELSE "c")
       /\ sp' = 1
       /\ UNCHANGED <<routine, torn, early>>

AsmRoutine == \/ \E r \in Routines : AsmCall(r)
              \/ Save \/ Raise \/ Pop \/ Spill \/ Unspill \/ Copy \/ Lower \/ Restore \/ Ret

-----------------------------------------------------------------------------

NmiInit == /\ frame \in BOOLEAN /\ ie = FALSE
           /\ nmi = "none" /\ vdpLimi = FALSE
           /\ pc = "c" /\ cnt = 0 /\ owed = 0
           /\ routine \in Routines /\ sp = 0 /\ torn = {} /\ early = FALSE

Program == (\E b \in BOOLEAN : SetIe(b)) \/ PollStatus \/ WaitVblanks \/ AsmRoutine

NmiNext == Vblank \/ Nmi \/ Program

\* Frames keep coming, and the CPU runs.
NmiSpec == NmiInit /\ [][NmiNext]_nmiVars /\ WF_nmiVars(Vblank) /\ WF_nmiVars(Nmi) /\ WF_nmiVars(Program)

-----------------------------------------------------------------------------
(* Properties *)

Pcs == {"c", "lost", "enter", "forget", "test", "spin", "clear", "read",
        "save", "raise", "pop", "spill", "copy", "lower", "restore", "ret"}

\* The stack pointer stays within the words of the routine that runs.
NmiTypeOK ==
    /\ frame \in BOOLEAN /\ ie \in BOOLEAN /\ vdpLimi \in BOOLEAN /\ early \in BOOLEAN
    /\ nmi \in {"none", "raised", "due"} /\ pc \in Pcs
    /\ cnt \in 0..Frames /\ owed \in 0..Frames
    /\ routine \in Routines
    /\ sp \in (-Saved[routine])..(Args[routine] + 1)
    /\ torn \in SUBSET ((-7)..3)

\* Every wait ends: the mark is never forgotten with the interrupt disarmed.
WaitEnds == Waiting ~> pc = "c"

\* waitVblanks(n) returns only after n frames have begun since it was called.
WaitsFrames == pc = "test" => owed <= cnt

\* The words that a routine has yet to restore and return by.
ToCome == {i \in (-Saved[routine])..0 :
               pc \in {"save", "restore", "ret"} => i >= sp}

\* A routine of three arguments survives an NMI while it copies: PC, AF and
\* HL fall into the three words of arguments that it has already read.
Survives == Copying /\ Args[routine] = 3 /\ routine \notin Spills /\ ~early
            => torn \cap ToCome = {}

\* "restore the stack and return", rcvr_mmc (diskio_rcvrmmc.c).
RcvrReturns == pc = "ret" /\ routine = "rcvr_mmc" /\ ~early => 0 \notin torn
=============================================================================
