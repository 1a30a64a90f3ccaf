----------------------------- MODULE RomLoader -----------------------------
(***************************************************************************)
(* The ROM loader, ROMs/romloader/src/main.c: a loop that runs once for    *)
(* each frame and looks for an SD card, a cartridge and the stick, the     *)
(* initialisation and reading of the card, and the NMI that counts frames. *)
(*                                                                         *)
(* sd_send_cmd_ex is a step that selects the card anew, one that sends the *)
(* packet, and one for each byte of its answer; a pass of the loop is a    *)
(* step for each device.  Texts on the screen and the clock of the card    *)
(* are left out.  Operators named Bug... are wrong forms of what follows.  *)
(***************************************************************************)
EXTENDS SdCard

CONSTANTS
    SdTicks, CartTicks, JoyTicks,   \* 20, 40, 4 frames of debouncing
    ResponseTries,                  \* 255
    InitTries, TokenTries,          \* 25000
    Wanted                          \* 2048, the sector that is shown

ASSUME LoaderAssumption ==
    /\ {SdTicks, CartTicks, JoyTicks, Wanted} \subseteq Nat
    /\ {ResponseTries, InitTries, TokenTries} \subseteq Nat \ {0}
    /\ Latency < ResponseTries

VARIABLES
    frame,          \* the flag in the VDP's status; it holds its INT line low
    news,           \* nmi_last_cnt # nmi_count_g
    pc,
    site, d, tries, \* the command sent, its answer, attempts left for a byte
    refused,        \* i: CMD55 was not answered
    wait,           \* of 25000, while the card initialises itself
    addr_size, g_sd_type, g_sd_status,
    offered,        \* the card was told HCS in an ACMD41
    buff, rtn,      \* 6400h, and what sd_read_block returned
    sd, sd_delay, cart, cart_delay, have_cart, joy, joy_delay, cursor,
    known,          \* history: the card was not changed since it answered the
                    \* CMD0 of the last initialisation
    removed,        \* history: no card was seen since the last initialisation
    seen, acted     \* history: frames the cartridge was seen in without a
                    \* break; an action since the stick was last at rest

vdp  == <<frame, news>>
cmd  == <<site, d, tries, refused, wait>>
type == <<addr_size, g_sd_type>>
data == <<buff, rtn>>
pads == <<cart, cart_delay, have_cart, joy, joy_delay, cursor, seen, acted>>
slot == <<sd, sd_delay, removed>>
vars == <<cardVars, vdp, pc, cmd, type, g_sd_status, offered, data, pads, slot, known>>

-----------------------------------------------------------------------------
(* Frames.  The NMI comes when the INT line falls, so once until the status *)
(* is read.                                                                 *)

Frame == /\ frame' = TRUE /\ news' = (news \/ ~frame)
         /\ UNCHANGED <<cardVars, pc, cmd, type, g_sd_status, offered, data, pads, slot, known>>

Kept == <<cardVars, cmd, type, g_sd_status, offered, data, pads, slot, known>>

Check == /\ pc = "check" /\ pc' = (IF news THEN "status" ELSE pc)
         /\ UNCHANGED <<vdp, Kept>>

ReadStatus == /\ pc = "status" /\ pc' = "count"
              /\ frame' = FALSE
              /\ UNCHANGED <<news, Kept>>

TakeCount == /\ pc = "count" /\ pc' = "sd"
             /\ news' = FALSE
             /\ UNCHANGED <<frame, Kept>>

-----------------------------------------------------------------------------
(* sd_send_cmd_ex *)

Send(s) == site' = s /\ pc' = "select" /\ d' = 0

Number == [cmd0 |-> 0, cmd8 |-> 8, volt |-> 58, cmd55 |-> 55, acmd41 |-> 41, cmd1 |-> 1,
           again55 |-> 55, again41 |-> 41, again1 |-> 1, css |-> 58, cmd16 |-> 16, read |-> 17]

BugAddress == Wanted * SectorBytes
Address == IF addr_size = "byte" THEN Wanted * SectorBytes ELSE Wanted

\* HCS goes with the first ACMD41 only; a card may keep it in mind.
Arguments == IF site = "read" THEN {Address}
             ELSE IF site = "acmd41" /\ addr_size = "block" THEN {64}
             ELSE IF offered THEN {0, 64} ELSE {0}

\* The deselection and the byte after the answer before this are part of it: a card
\* that is not selected takes and sends nothing.
Select == /\ pc = "select" /\ pc' = "packet"
          /\ Drop
          /\ UNCHANGED <<vdp, cmd, type, g_sd_status, offered, data, pads, slot, known>>

Packets == /\ pc = "packet" /\ pc' = "response" /\ tries' = ResponseTries
           /\ \E arg \in Arguments : Packet(Number[site], arg)
           /\ offered' = (site # "cmd0" /\ (offered \/ 64 \in Arguments))
           /\ UNCHANGED <<vdp, site, d, refused, wait, type, g_sd_status, data, pads, slot, known>>

Bytes == {0, 1, 4, 5, 8, 64, 65, 170, 254, 255, 426}

Response == /\ pc = "response"
            /\ \E v \in Bytes : Byte(v) /\ d' = v
            /\ IF d' = 255 /\ tries > 1 THEN tries' = tries - 1 /\ UNCHANGED pc
                                        ELSE tries' = 0 /\ pc' = "answered"
            /\ UNCHANGED <<vdp, site, refused, wait, type, g_sd_status, offered, data, pads, slot, known>>

-----------------------------------------------------------------------------
(* sd_card_init *)

Answered(s) == pc = "answered" /\ site = s /\ UNCHANGED <<vdp, tries, offered, pads, sd_delay, removed>>

\* It returns, and sd_card_detect with it.  The sector is read once.
InitEnd(status) ==
    /\ g_sd_status' = status
    /\ IF status = "ok" THEN sd' = "found" /\ Send("read")
                        ELSE sd' = "initfail" /\ pc' = "pads" /\ site' = "cmd0" /\ d' = 0
    /\ refused' = FALSE /\ wait' = 0

Goes == UNCHANGED <<g_sd_status, sd>>
Bad == d > 1

Cmd0 == /\ Answered("cmd0")
        /\ IF d = 1 THEN Send("cmd8") /\ UNCHANGED <<refused, wait>> /\ Goes
                    ELSE InitEnd("spi_mode_failed")
        /\ known' = (d = 1 /\ card = "idle")
        /\ UNCHANGED <<cardVars, type, data>>

Trail == pc' = "trail" /\ UNCHANGED <<site, d, refused, wait>> /\ Goes

Cmd8 == /\ Answered("cmd8")
        /\ IF d = 1 THEN Trail ELSE Send("volt") /\ UNCHANGED <<refused, wait>> /\ Goes
        /\ UNCHANGED <<cardVars, type, data, known>>

\* CMD58, for the voltages of a card that did not take CMD8, or for its CSS bit.
Cmd58(s, status) == /\ Answered(s)
                    /\ IF Bad THEN InitEnd(status) ELSE Trail
                    /\ UNCHANGED <<cardVars, type, data, known>>

BugCss(v) == TRUE
Css(v) == (v \div 64) % 2 = 1

\* The four bytes after the answer.
Echo == /\ pc = "trail" /\ site = "cmd8"
        /\ \E v \in Bytes : Byte(v) /\
             IF v = 426 THEN g_sd_type' = "SDHC" /\ Send("cmd55") /\ UNCHANGED <<refused, wait>> /\ Goes
                        ELSE InitEnd("bad_cmd8_voltage") /\ UNCHANGED g_sd_type
        /\ UNCHANGED <<vdp, tries, addr_size, offered, data, pads, sd_delay, removed, known>>

Voltage == /\ pc = "trail" /\ site = "volt"
           /\ \E v \in Bytes : Byte(v)
           /\ \/ /\ addr_size' = "byte" /\ g_sd_type' = "SDSC"
                 /\ Send("cmd55") /\ UNCHANGED <<refused, wait>> /\ Goes
              \/ InitEnd("bad_ocr_voltage") /\ UNCHANGED type
           /\ UNCHANGED <<vdp, tries, offered, data, pads, sd_delay, removed, known>>

Capacity == /\ pc = "trail" /\ site = "css"
            /\ \E v \in Bytes : Byte(v) /\
                 IF Css(v) THEN UNCHANGED type ELSE addr_size' = "byte" /\ g_sd_type' = "SDSC"
            /\ InitEnd("ok")
            /\ UNCHANGED <<vdp, tries, offered, data, pads, sd_delay, removed, known>>

Cmd55 == /\ Answered("cmd55")
         /\ refused' = Bad /\ Send("acmd41") /\ UNCHANGED wait /\ Goes
         /\ UNCHANGED <<cardVars, type, data, known>>

BugAgain(w, t) ==
    IF d = 1 THEN /\ Send(IF t = "MMC" THEN "again1" ELSE "again55")
                  /\ wait' = InitTries /\ UNCHANGED refused /\ Goes
    ELSE IF d # 0 THEN InitEnd("init_failed")
    ELSE Send(IF addr_size = "block" THEN "css" ELSE "cmd16") /\ UNCHANGED <<refused, wait>> /\ Goes
\* The card leaves its idle state, or is asked again; w attempts are left.
Again(w, t) ==
    IF w > 0 /\ d = 1
    THEN /\ Send(IF t = "MMC" THEN "again1" ELSE "again55")
         /\ wait' = w /\ UNCHANGED refused /\ Goes
    ELSE IF w = 0 THEN InitEnd("init_timeout")
    ELSE IF d # 0 THEN InitEnd("init_failed")
    ELSE Send(IF addr_size = "block" THEN "css" ELSE "cmd16") /\ UNCHANGED <<refused, wait>> /\ Goes

Acmd41 == /\ Answered("acmd41")
          /\ IF refused \/ Bad THEN Send("cmd1") /\ UNCHANGED <<refused, wait>> /\ Goes
                               ELSE Again(InitTries, g_sd_type)
          /\ UNCHANGED <<cardVars, type, data, known>>

Cmd1 == /\ Answered("cmd1")
        /\ IF Bad THEN InitEnd("mmc_failed") /\ UNCHANGED g_sd_type
                  ELSE g_sd_type' = "MMC" /\ Again(InitTries, "MMC")
        /\ UNCHANGED <<cardVars, addr_size, data, known>>

Again55 == /\ Answered("again55")
           /\ Send("again41") /\ UNCHANGED <<refused, wait>> /\ Goes
           /\ UNCHANGED <<cardVars, type, data, known>>

AgainAnswered(s) == /\ Answered(s)
                    /\ Again(wait - 1, g_sd_type)
                    /\ UNCHANGED <<cardVars, type, data, known>>

Cmd16 == /\ Answered("cmd16")
         /\ InitEnd(IF Bad THEN "set_bsize_failed" ELSE "ok")
         /\ UNCHANGED <<cardVars, type, data, known>>

-----------------------------------------------------------------------------
(* sd_read_block: main does not look at what it returns *)

ReadEnd(status) == pc' = "pads" /\ rtn' = status /\ site' = "cmd0" /\ d' = 0 /\ tries' = 0

Still == UNCHANGED <<vdp, refused, wait, type, g_sd_status, offered, pads, slot, known>>

ReadAnswered ==
    /\ pc = "answered" /\ site = "read"
    /\ IF d = 0 THEN pc' = "token" /\ tries' = TokenTries /\ UNCHANGED <<rtn, site, d>>
                ELSE ReadEnd("read_block_failed")
    /\ UNCHANGED <<cardVars, buff>> /\ Still

\* A start token, or one of the error tokens 00h to 0Fh.
Tokens == {0, 1, 4, 5, 8}

WaitToken == /\ pc = "token"
             /\ \E v \in Bytes : Byte(v) /\
                  IF v = 254 THEN pc' = "data" /\ UNCHANGED <<rtn, site, d, tries>>
                  ELSE IF v \notin Tokens /\ tries > 1
                  THEN tries' = tries - 1 /\ UNCHANGED <<pc, rtn, site, d>>
                  ELSE ReadEnd("token_timeout")
             /\ UNCHANGED buff /\ Still

ReadData == /\ pc = "data" /\ Data
            /\ buff' = IF part = "data" THEN block ELSE None
            /\ ReadEnd("ok") /\ Still

-----------------------------------------------------------------------------
(* Detection *)

\* What was there in more than 'ticks' frames, without a break, is there now too.
Debounced(there, delay, ticks) == there /\ delay > ticks

Delay(there, delay, ticks) == IF there /\ delay <= ticks THEN delay + 1 ELSE 0

SdSample == card # "absent"

\* A card that was initialised, or was not, must be pulled out first.
Gone == ~SdSample

SdDetect ==
    /\ pc = "sd"
    /\ removed' = (removed \/ ~SdSample) /\ sd_delay' = (IF sd = "notfound" THEN Delay(SdSample, sd_delay, SdTicks) ELSE 0)
    /\ \/ /\ sd = "notfound"
          /\ sd' = IF Debounced(SdSample, sd_delay, SdTicks) THEN "init" ELSE sd
       \/ sd = "found" /\ sd' = "ready"
       \/ sd \in {"initfail", "ready"} /\ sd' = IF Gone THEN "notfound" ELSE sd
    /\ pc' = "pads"
    /\ UNCHANGED <<cardVars, vdp, cmd, type, g_sd_status, offered, data, pads, known>>

SdCardInit ==
    /\ pc = "sd" /\ sd = "init"
    /\ addr_size' = "block" /\ g_sd_type' = "????"
    /\ Send("cmd0") /\ removed' = FALSE /\ known' = FALSE
    /\ rtn' = "none"
    /\ UNCHANGED <<cardVars, vdp, tries, refused, wait, g_sd_status, offered, buff, pads, sd, sd_delay>>

CartDetect(sample) ==
    /\ cart' = IF cart THEN sample ELSE Debounced(sample, cart_delay, CartTicks)
    /\ cart_delay' = IF cart THEN 0 ELSE Delay(sample, cart_delay, CartTicks)
    /\ have_cart' = cart'
    /\ seen' = IF ~sample THEN 0 ELSE IF seen < CartTicks + 2 THEN seen + 1 ELSE seen

\* "side" is left and right, which do nothing.
Actions == {"up", "down", "side", "fire"}

BugRest(sample) == TRUE
\* No other action before the stick was at rest.
Rest(sample) == sample = "none"

JoystickRead(sample) ==
    LET there == sample # "none" IN
    /\ joy' = IF joy = "none" THEN IF Debounced(there, joy_delay, JoyTicks) THEN "scan" ELSE joy
              ELSE IF joy = "scan" THEN IF there THEN sample ELSE "wait"
              ELSE IF joy = "wait" THEN IF Rest(sample) THEN "none" ELSE joy
              ELSE "wait"
    /\ joy_delay' = IF joy = "none" THEN Delay(there, joy_delay, JoyTicks) ELSE 0
    /\ acted' = (there /\ (acted \/ joy' \in Actions))

BugHaveCart == TRUE
HaveCart == have_cart'

\* The rest of a pass: swapin_real_cart gives the machine to the BIOS.
Pads == /\ pc = "pads"
        /\ \E there \in BOOLEAN : CartDetect(there)
        /\ \E sample \in Actions \cup {"none"} : JoystickRead(sample)
        /\ cursor' = IF joy' \in {"up", "down"} THEN 3 - cursor ELSE cursor
        /\ pc' = IF joy' = "fire" /\ cursor = 2 /\ HaveCart THEN "bios" ELSE "check"
        /\ UNCHANGED <<cardVars, vdp, cmd, type, g_sd_status, offered, data, slot, known>>

-----------------------------------------------------------------------------

Init == /\ CardInit
        /\ frame \in BOOLEAN /\ news = frame
        /\ pc = "check"
        /\ site = "cmd0" /\ d = 0 /\ tries = 0 /\ refused = FALSE /\ wait = 0
        /\ addr_size = "block" /\ g_sd_type = "????" /\ g_sd_status = "no_card"
        /\ offered = FALSE /\ buff = None /\ rtn = "none"
        /\ sd = "notfound" /\ sd_delay = 0
        /\ cart = FALSE /\ cart_delay = 0 /\ have_cart = FALSE
        /\ joy = "none" /\ joy_delay = 0 /\ cursor = 1
        /\ known = FALSE /\ removed = TRUE /\ seen = 0 /\ acted = FALSE

SdCommand == Select \/ Packets \/ Response

SdInit == \/ SdCardInit \/ Cmd0 \/ Cmd8 \/ Echo \/ Voltage \/ Capacity
          \/ Cmd58("volt", "bad_ocr_read") \/ Cmd58("css", "bad_ssc_read")
          \/ Cmd55 \/ Acmd41 \/ Cmd1 \/ Again55
          \/ AgainAnswered("again41") \/ AgainAnswered("again1") \/ Cmd16

SdReadBlock == ReadAnswered \/ WaitToken \/ ReadData

Program == \/ Check \/ ReadStatus \/ TakeCount \/ SdDetect \/ Pads
           \/ SdCommand \/ SdInit \/ SdReadBlock

User == /\ Swap /\ known' = FALSE /\ offered' = FALSE
        /\ UNCHANGED <<vdp, pc, cmd, type, g_sd_status, data, pads, slot>>

\* After the hand-over the BIOS runs.
Next == pc # "bios" /\ (Program \/ Frame \/ User)

\* The program runs and the VDP shows frames.
Spec == Init /\ [][Next]_vars /\ WF_vars(Program) /\ WF_vars(Frame)

-----------------------------------------------------------------------------
(* Properties *)

\* Counters stay within their limits, and the cursor on its two lines.
TypeOK ==
    /\ pc \in {"check", "status", "count", "sd", "select", "packet", "response", "answered",
               "trail", "token", "data", "pads", "bios"}
    /\ kind \in Kinds /\ card \in {"absent", "native", "idle", "ready"} /\ d \in Bytes
    /\ site \in DOMAIN Number /\ tries \in 0..(ResponseTries + TokenTries)
    /\ wait \in 0..InitTries
    /\ addr_size \in {"byte", "block"} /\ g_sd_type \in {"????", "SDHC", "SDSC", "MMC"}
    /\ buff \in Nat \cup {None}
    /\ sd \in {"notfound", "init", "found", "initfail", "ready"}
    /\ joy \in Actions \cup {"none", "scan", "wait"} /\ cursor \in 1..2
    /\ sd_delay \in 0..(SdTicks + 1) /\ cart_delay \in 0..(CartTicks + 1)
    /\ joy_delay \in 0..(JoyTicks + 1) /\ seen \in 0..(CartTicks + 2)

\* A card that was initialised and has not been changed since is ready, and is
\* addressed in the unit it expects, whatever packets it missed.
CardKnown == known /\ sd \in {"found", "ready"} =>
                card = "ready" /\ (addr_size = "block" <=> kind = "HC")

\* A read that succeeds from such a card has the sector that was wanted.
ReadsWanted == known /\ rtn = "ok" => buff = Wanted

\* Numbers are in their range, and card and sector are what they are taken for.
ReadsRight == TypeOK /\ CardKnown /\ ReadsWanted

\* "If the card failed, it must be removed and reinserted before another
\* attempt will be made", and so for one that did not.
OncePerInsertion == [][SdCardInit => removed]_vars

\* A push of the stick is one action, however long it lasts and however it moves.
OnePerPush == [][joy' \in Actions /\ joy \notin Actions => ~acted]_vars

\* Neither a card nor a push is taken for two.
OnceEach == OncePerInsertion /\ OnePerPush

\* The machine is given to a cartridge that has been there in all the frames
\* of its debouncing, this one included.
SwapsInCart == pc = "bios" => have_cart /\ seen = CartTicks + 2 /\ cursor = 2

Working == pc \notin {"check", "status", "count", "sd", "pads", "bios"}

\* Initialising and reading a card end, whatever it answers.
CallsEnd == Working ~> pc = "pads"

Passes == []<>(pc = "status")

\* While frames are counted, a card that stays is found to work or not, and
\* one that stays away is missed.
CardNoticed == Passes => /\ <>[]SdSample => <>[](sd \in {"ready", "initfail"})
                         /\ <>[]~SdSample => <>[](sd = "notfound")

\* The loop gets somewhere, whatever the card does.
Responds == CallsEnd /\ CardNoticed

\* "There is NO VDP ACCESS in this NMI, which makes it safe to have enabled
\* all the time": the loop goes on, or the BIOS runs.
KeepsRunning == []<>(pc \in {"status", "bios"})
=============================================================================
