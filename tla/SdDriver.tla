------------------------------ MODULE SdDriver ------------------------------
(***************************************************************************)
(* The SD-card driver of the menu, gameMenus/coleco/src/fatFs/diskio_*.c:  *)
(* disk_initialize, disk_read and disk_status over send_cmd and            *)
(* rcvr_datablock, and a card that may miss packets, fail, and be pulled   *)
(* out or changed at any time.                                             *)
(*                                                                         *)
(* A step is the exchange of a byte the driver looks at, a packet, or a    *)
(* block.  Dummy bytes and delays are parts of the step beside them.  pc   *)
(* is where a function of the driver is, site the call of send_cmd it came *)
(* from.  Operators named Bug... are wrong forms of what follows them.     *)
(***************************************************************************)
EXTENDS SdCard

CONSTANTS
    ReadyTries, ResponseTries, TokenTries, InitTries,   \* 5000, 10, 1000, 1000
    MaxCount    \* sectors of one call

ASSUME DriverAssumption ==
    /\ {ReadyTries, ResponseTries, TokenTries, InitTries, MaxCount} \subseteq Nat \ {0}
    /\ Latency < ResponseTries

VARIABLES
    sel, fast,      \* csLow is in the port; csHigh, csLow are for high speed
    Stat, CardType,
    pc, site,
    prefix,         \* send_cmd is at the CMD55 before an ACMD
    d,              \* what send_cmd returned
    tries, tmr,     \* attempts left: for a byte, for a command
    ty,             \* disk_initialize: the type found
    sector, asked,  \* disk_read: its arguments
    count,          \* disk_read: sectors left to read
    buff,           \* disk_read: the block that is in each part of buff
    call, res,      \* history: "init" or "read", and what it returned
    known,          \* history: the card was not changed since it answered the
                    \* CMD0 of the last initialisation, which did not fail
    swapped         \* history: it was pulled out or pushed in in this call

bus  == <<sel, fast>>
lib  == <<Stat, CardType>>
cmdVars == <<site, prefix, d>>
args == <<sector, asked, call, res>>
hist == <<known, swapped>>
vars == <<cardVars, bus, lib, pc, cmdVars, tries, tmr, ty, args, count, buff, hist>>

STA_NOINIT == 1
STA_NODISK == 2
CT_MMC == 1
CT_SD1 == 2
CT_SD2 == 4
CT_BLOCK == 8

-----------------------------------------------------------------------------
(* send_cmd *)

AppSites == {"acmd41", "probe", "acmd41v1"}

Number == [cmd0 |-> 0, cmd1 |-> 1, cmd8 |-> 8, stop |-> 12, cmd16 |-> 16,
           probe |-> 41, acmd41 |-> 41, acmd41v1 |-> 41, cmd58 |-> 58]

Command == IF prefix THEN 55
           ELSE IF site = "read" THEN IF asked > 1 THEN 18 ELSE 17
           ELSE Number[site]

\* The address of a sector, in bytes unless the card addresses blocks.
BugAddress == sector * SectorBytes
Address == IF CardType >= CT_BLOCK THEN sector ELSE sector * SectorBytes

\* The argument; of ACMD41 its highest byte.
Argument == IF prefix THEN 0
            ELSE IF site = "read" THEN Address
            ELSE IF site = "acmd41" THEN 64 ELSE 0

\* A stop goes to a card that is sending: it is not selected anew.
Send(s) == /\ site' = s /\ prefix' = (s \in AppSites)
           /\ pc' = IF s = "stop" THEN "packet" ELSE "select"
           /\ UNCHANGED d

\* rcvr_mmc: nothing drives the line of a card that is not selected.
Rcvr(v) == IF sel THEN Byte(v) ELSE v = 255 /\ UNCHANGED cardVars

Bytes == {0, 1, 4, 5, 8, 64, 65, 170, 254, 255, 426}

Select == /\ pc = "select" /\ pc' = "ready"
          /\ sel' = TRUE /\ tries' = ReadyTries
          /\ Drop
          /\ UNCHANGED <<fast, lib, cmdVars, tmr, ty, args, count, buff, hist>>

BugWaitReady == /\ pc = "ready" /\ pc' = "packet"
                /\ UNCHANGED <<cardVars, bus, lib, cmdVars, tries, tmr, ty, args, count, buff, hist>>
WaitReady == /\ pc = "ready"
             /\ \E v \in Bytes : Rcvr(v) /\
                  \/ /\ v = 255 /\ pc' = "packet"
                     /\ UNCHANGED <<sel, d, tries>>
                  \/ /\ v # 255 /\ tries > 1 /\ tries' = tries - 1
                     /\ UNCHANGED <<pc, sel, d>>
                  \/ /\ v # 255 /\ tries = 1
                     /\ pc' = "answered" /\ sel' = FALSE /\ d' = 255
                     /\ UNCHANGED tries
             /\ UNCHANGED <<fast, lib, site, prefix, tmr, ty, args, count, buff, hist>>

Xmit == /\ pc = "packet"
        /\ pc' = IF Command = 12 THEN "stuff" ELSE "response"
        /\ tries' = ResponseTries
        /\ IF sel THEN Packet(Command, Argument) ELSE UNCHANGED cardVars
        /\ UNCHANGED <<bus, lib, cmdVars, tmr, ty, args, count, buff, hist>>

Stuff == /\ pc = "stuff" /\ pc' = "response"
         /\ \E v \in Bytes : Rcvr(v)
         /\ UNCHANGED <<bus, lib, cmdVars, tries, tmr, ty, args, count, buff, hist>>

Response == /\ pc = "response"
            /\ \E v \in Bytes : /\ Rcvr(v) /\ d' = v
                                /\ IF v >= 128 /\ tries > 1 THEN pc' = pc ELSE pc' = "answered"
            /\ tries' = IF tries > 1 THEN tries - 1 ELSE tries
            /\ UNCHANGED <<bus, lib, site, prefix, tmr, ty, args, count, buff, hist>>

\* CMD55 was answered: the command proper follows, unless it was refused.
Prefixed == /\ pc = "answered" /\ prefix /\ prefix' = FALSE
            /\ pc' = IF d > 1 THEN "answered" ELSE "select"
            /\ UNCHANGED <<cardVars, bus, lib, site, d, tries, tmr, ty, args, count, buff, hist>>

Answered(s) == pc = "answered" /\ ~prefix /\ site = s

-----------------------------------------------------------------------------
(* disk_initialize *)

Common == <<args, count, buff, hist>>

\* A call begins; the locals of the functions are new.
Enter(c, s) == /\ pc = "idle" /\ pc' = "select"
               /\ call' = c /\ swapped' = FALSE
               /\ site' = s /\ prefix' = FALSE
               /\ d' = 0 /\ tries' = 0 /\ tmr' = 0 /\ ty' = 0

Arguments(n, k, left) == /\ sector' = n /\ asked' = k /\ count' = left
                         /\ buff' = [i \in 0..(MaxCount - 1) |-> None]

End(t) == pc' = "end" /\ ty' = t /\ UNCHANGED <<cmdVars, tmr>>

Initialize == /\ Enter("init", "cmd0") /\ Arguments(0, 1, 0) /\ res' = 0
              /\ sel' = FALSE /\ fast' = FALSE
              /\ known' = FALSE
              /\ UNCHANGED <<cardVars, lib>>

Cmd0 == /\ Answered("cmd0")
        /\ IF d = 1 THEN Send("cmd8") /\ fast' = TRUE /\ UNCHANGED <<tmr, ty>>
                    ELSE End(0) /\ UNCHANGED fast
        /\ known' = (d = 1 /\ card = "idle")
        /\ UNCHANGED <<cardVars, sel, lib, tries, args, count, buff, swapped>>

Cmd8 == /\ Answered("cmd8")
        /\ IF d = 1 THEN pc' = "trail" /\ UNCHANGED cmdVars ELSE Send("probe")
        /\ UNCHANGED <<cardVars, bus, lib, tries, tmr, ty, Common>>

BugTrail == /\ pc = "trail"
            /\ \E v \in Bytes : Rcvr(v) /\
                 IF site = "cmd8" /\ v = 426 THEN Send("acmd41") /\ tmr' = InitTries /\ UNCHANGED ty
                                            ELSE End(IF site = "cmd58" THEN CT_SD2 ELSE 0)
            /\ UNCHANGED <<bus, lib, tries, Common>>
\* The four bytes after the response to CMD8 and CMD58.
Trail == /\ pc = "trail"
         /\ \E v \in Bytes : Rcvr(v) /\
              IF site = "cmd8"
              THEN IF v = 426 THEN Send("acmd41") /\ tmr' = InitTries /\ UNCHANGED ty
                              ELSE End(0)
              ELSE End(IF (v \div 64) % 2 = 1 THEN CT_SD2 + CT_BLOCK ELSE CT_SD2)
         /\ UNCHANGED <<bus, lib, tries, Common>>

BugAgain(s, then) == /\ Answered(s)
                     /\ IF d = 0 THEN Send(then) ELSE Send(s)
                     /\ UNCHANGED <<cardVars, bus, lib, tries, tmr, ty, Common>>
\* The card leaves its idle state, or is asked again, for a limited time.
Again(s, then) == /\ Answered(s)
                  /\ IF d = 0 THEN Send(then) /\ UNCHANGED <<tmr, ty>>
                     ELSE IF tmr > 1 THEN Send(s) /\ tmr' = tmr - 1 /\ UNCHANGED ty
                     ELSE End(0)
                  /\ UNCHANGED <<cardVars, bus, lib, tries, Common>>

Cmd58 == /\ Answered("cmd58")
         /\ IF d = 0 THEN pc' = "trail" /\ UNCHANGED <<cmdVars, tmr, ty>> ELSE End(0)
         /\ UNCHANGED <<cardVars, bus, lib, tries, Common>>

Probe == /\ Answered("probe") /\ tmr' = InitTries
         /\ IF d <= 1 THEN ty' = CT_SD1 /\ Send("acmd41v1")
                      ELSE ty' = CT_MMC /\ Send("cmd1")
         /\ UNCHANGED <<cardVars, bus, lib, tries, Common>>

Cmd16 == /\ Answered("cmd16")
         /\ End(IF d = 0 THEN ty ELSE 0)
         /\ UNCHANGED <<cardVars, bus, lib, tries, Common>>

InitEnd == /\ pc = "end" /\ call = "init" /\ pc' = "idle"
           /\ CardType' = ty /\ Stat' = (IF ty # 0 THEN 0 ELSE STA_NOINIT)
           /\ sel' = FALSE
           /\ res' = Stat' /\ known' = (known /\ ty # 0)
           /\ UNCHANGED <<cardVars, fast, cmdVars, tries, tmr, ty, sector, asked, call, count, buff, swapped>>

-----------------------------------------------------------------------------
(* disk_read *)

DiskStatus == IF card # "absent" THEN Stat ELSE STA_NODISK

RES_OK == 0
RES_ERROR == 1
RES_NOTRDY == 3

\* Only an initialised card is read, if there is one: disk_status says nothing
\* of STA_NOINIT when there is not.
DiskRead(n, k) == /\ call # "none" /\ DiskStatus # STA_NOINIT
                  /\ Enter("read", "read") /\ Arguments(n, k, k) /\ res' = RES_OK
                  /\ UNCHANGED <<cardVars, bus, lib, known>>

NotReady(n, k) == /\ call # "none" /\ DiskStatus = STA_NOINIT
                  /\ pc = "idle" /\ call' = "read" /\ swapped' = FALSE
                  /\ Arguments(n, k, k) /\ res' = RES_NOTRDY
                  /\ UNCHANGED <<cardVars, bus, lib, pc, cmdVars, tries, tmr, ty, known>>

\* After the blocks, read or not, a multiple read is stopped.
Finish == IF asked > 1 THEN Send("stop") ELSE pc' = "end" /\ UNCHANGED cmdVars

ReadAnswered == /\ Answered("read")
                /\ IF d = 0 THEN pc' = "token" /\ tries' = TokenTries /\ UNCHANGED cmdVars
                            ELSE pc' = "end" /\ UNCHANGED <<cmdVars, tries>>
                /\ UNCHANGED <<cardVars, bus, lib, tmr, ty, Common>>

WaitToken == /\ pc = "token"
             /\ \E v \in Bytes : Rcvr(v) /\
                  \/ /\ v = 255 /\ tries > 1 /\ tries' = tries - 1
                     /\ UNCHANGED <<pc, cmdVars>>
                  \/ v = 254 /\ pc' = "data" /\ UNCHANGED <<cmdVars, tries>>
                  \/ (v = 255 => tries = 1) /\ v # 254 /\ Finish /\ UNCHANGED tries
             /\ UNCHANGED <<bus, lib, tmr, ty, Common>>

RcvrBlock == /\ pc = "data" /\ pc' = "crc"
             /\ Data
             /\ buff' = [buff EXCEPT ![asked - count] = IF part = "data" THEN block ELSE None]
             /\ UNCHANGED <<bus, lib, cmdVars, tries, tmr, ty, args, count, hist>>

RcvrCrc == /\ pc = "crc" /\ Crc
           /\ count' = count - 1
           /\ IF count > 1 THEN pc' = "token" /\ tries' = TokenTries /\ UNCHANGED cmdVars
                           ELSE Finish /\ UNCHANGED tries
           /\ UNCHANGED <<bus, lib, tmr, ty, args, buff, hist>>

Stopped == /\ Answered("stop") /\ pc' = "end"
           /\ UNCHANGED <<cardVars, bus, lib, cmdVars, tries, tmr, ty, Common>>

ReadEnd == /\ pc = "end" /\ call = "read" /\ pc' = "idle"
           /\ sel' = FALSE
           /\ res' = (IF count # 0 THEN RES_ERROR ELSE RES_OK)
           /\ UNCHANGED <<cardVars, fast, lib, cmdVars, tries, tmr, ty, sector, asked, call, count, buff, hist>>

-----------------------------------------------------------------------------

\* BSS is cleared by crt0; csHigh and csLow are set by the first Initialize.
Init == /\ CardInit
        /\ sel = FALSE /\ fast = TRUE
        /\ Stat = STA_NOINIT /\ CardType = 0
        /\ pc = "idle" /\ site = "cmd0" /\ prefix = FALSE /\ d = 0
        /\ tries = 0 /\ tmr = 0 /\ ty = 0
        /\ sector = 0 /\ asked = 1 /\ count = 0
        /\ buff = [i \in 0..(MaxCount - 1) |-> None]
        /\ call = "none" /\ res = 0 /\ known = FALSE /\ swapped = FALSE

SendCmd == Select \/ WaitReady \/ Xmit \/ Stuff \/ Response \/ Prefixed

DiskInitialize == \/ Cmd0 \/ Cmd8 \/ Trail \/ Cmd58 \/ Probe \/ Cmd16 \/ InitEnd
                  \/ Again("acmd41", "cmd58")
                  \/ Again("acmd41v1", "cmd16") \/ Again("cmd1", "cmd16")

ReadSectors == ReadAnswered \/ WaitToken \/ RcvrBlock \/ RcvrCrc \/ Stopped \/ ReadEnd

Driver == SendCmd \/ DiskInitialize \/ ReadSectors

Caller == \/ Initialize
          \/ \E n \in 0..Sectors, k \in 1..MaxCount : DiskRead(n, k) \/ NotReady(n, k)

User == /\ Swap /\ known' = FALSE /\ swapped' = TRUE
        /\ UNCHANGED <<bus, lib, pc, cmdVars, tries, tmr, ty, args, count, buff>>

Next == Driver \/ Caller \/ User

\* The program runs; nothing is asked of the card and its user.
Spec == Init /\ [][Next]_vars /\ WF_vars(Driver)

-----------------------------------------------------------------------------
(* Properties *)

Sites == AppSites \cup {"cmd0", "cmd8", "cmd58", "cmd1", "cmd16", "read", "stop"}
Pcs == {"idle", "select", "ready", "packet", "stuff", "response", "answered",
        "trail", "token", "data", "crc", "end"}

TypeOK ==
    /\ kind \in Kinds /\ card \in {"absent", "native", "idle", "ready"}
    /\ reply \in Bytes \cup {None} /\ tail \in Bytes \cup {None} /\ late \in 0..Latency
    /\ part \in {"none", "token", "data", "crc"} /\ block \in 0..Sectors
    /\ Stat \in {0, STA_NOINIT} /\ CardType \in {0, 1, 2, 4, 12} /\ ty \in {0, 1, 2, 4, 12}
    /\ pc \in Pcs /\ site \in Sites /\ d \in Bytes
    /\ tries \in 0..(ReadyTries + ResponseTries + TokenTries) /\ tmr \in 0..InitTries
    /\ sector \in 0..Sectors /\ asked \in 1..MaxCount /\ count \in 0..asked
    /\ buff \in [0..(MaxCount - 1) -> (0..Sectors) \cup {None}]

\* A card that was initialised and is still there is ready, and is addressed
\* in the unit it expects, whatever packets and answers were lost.
TypeKnown == known /\ (call = "init" => pc = "idle") =>
                      /\ card = "ready" /\ CardType # 0 /\ Stat = 0
                      /\ CardType >= CT_BLOCK <=> kind = "HC"

\* A read that succeeds, from a card that stayed in its slot, has put the
\* sectors asked for into the buffer, in order, and from the card that was
\* initialised: never those of another, or of a failed initialisation.
ReadsRight == pc = "idle" /\ call = "read" /\ res = RES_OK /\ ~swapped
              => /\ known
                 /\ \A i \in 0..(asked - 1) : buff[i] = sector + i

\* A busy card is sent nothing but a stop.
NotWhileBusy == [][pc = "packet" /\ pc' # "packet" /\ busy /\ sel => Command = 12]_vars

\* Until a card that is being initialised has answered CMD0 it is clocked slowly.
SlowToIdle == call = "init" /\ pc # "idle" /\ card = "native" /\ ~swapped => ~fast

\* What an SD card asks of whoever drives it.
CardRules == []SlowToIdle /\ NotWhileBusy

\* Every call returns.
CallsEnd == pc # "idle" ~> pc = "idle"
=============================================================================
