----------------------------- MODULE PhoenixBus -----------------------------
(***************************************************************************)
(* The CPU bus of the Phoenix core, rtl/colecovision.vhd: the memory map,  *)
(* the extended I/O ports that control it and the MegaCart bank register.  *)
(*                                                                         *)
(* The CPU's clock and the registers tick together, at the 3.58MHz enable. *)
(* A bus cycle of the T80 shows its request during one tick, and at least  *)
(* one tick (T1) without a request precedes it; only the sound chip and    *)
(* the SD port, both I/O, stop the CPU while a request is shown.           *)
(* In that period of seven 25MHz clocks the RAMs, which run at 25MHz, have *)
(* finished: a write is an effect of the tick that ends the request.       *)
(*                                                                         *)
(* Registers carry the names of the source without the suffix _r, and an   *)
(* operator with suffix _x is the next value of the register so named.     *)
(* The SD-card bits of ports >56 and >57 are the subject of SdSpi.         *)
(*                                                                         *)
(* An operator named Bug... is a wrong form of the definition that follows *)
(* it.  Nothing uses it: it is put in that definition's place to see that  *)
(* a property notices.                                                     *)
(***************************************************************************)
EXTENDS Integers

CONSTANTS
    MemAddr,    \* CPU addresses the program uses, a subset of Address
    IoPort,     \* I/O ports it uses, a subset of 0..255
    Byte,       \* bytes it writes, a subset of 0..255
    ExtCell,    \* the cells of the 512K SRAM whose content is watched
    CvCell      \* the cells of the ColecoVision's 1K RAM that are watched

\* A CPU address as the decoder takes it apart: A15..13, A12..10, A9..0.
Address == [region : 0..7, block : 0..7, offset : 0..1023]

\* A cell of the SRAM: one of 64 pages of 8K, and the same low 13 bits.
Cell == [page : 0..63, block : 0..7, offset : 0..1023]

ASSUME BusAssumption ==
    /\ MemAddr \subseteq Address
    /\ IoPort \subseteq 0..255
    /\ Byte \subseteq 0..255
    /\ ExtCell \subseteq Cell
    /\ CvCell \subseteq 0..1023

VARIABLES
    bus,            \* the request on the CPU bus, or Idle
    sgm_en,         \* Super Game Module enabled, port >53
    sgm_8k_en,      \* 8K of RAM instead of the BIOS at >0000, port >7F
    ext_ram_bank,   \* 32K page of the SRAM shown at >8000, port >54
    rom_loader_en,  \* the loader ROM covers >0000 .. >5FFF
    real_cart,      \* the cartridge port, not the SRAM, answers >8000 up
    bank_mode,      \* banking scheme, port >55 bits 1..0
    upmem_mode,     \* upper memory operation, port >55 bits 5..4
    mc_mem_size,    \* MegaCart address mask, port >59
    mc_bank,        \* MegaCart bank, the last access to >FFC0 .. >FFFF
    mc_addr,        \* the masked bank, registered one tick later
    mc_en,          \* MegaCart banking enabled
    ext,            \* the watched cells of the SRAM
    cv,             \* the watched cells of the 1K RAM
    staged          \* history: the offsets in >6000 .. >63FF the loader has written

regs == <<sgm_en, sgm_8k_en, ext_ram_bank, rom_loader_en, real_cart,
          bank_mode, upmem_mode, mc_mem_size, mc_bank, mc_addr, mc_en>>
vars == <<bus, regs, ext, cv, staged>>

-----------------------------------------------------------------------------
(* The bus *)

Idle == [kind |-> "idle"]

Requests == [kind : {"MemRead", "MemWrite"}, addr : MemAddr, data : Byte]
            \cup [kind : {"IoRead", "IoWrite"}, port : IoPort, data : Byte]

Bit(d, weight) == (d \div weight) % 2

MemAccess     == bus.kind \in {"MemRead", "MemWrite"}
MemWrite      == bus.kind = "MemWrite"
IoRead(port)  == bus.kind = "IoRead" /\ bus.port = port
IoWrite(port) == bus.kind = "IoWrite" /\ bus.port = port

-----------------------------------------------------------------------------
(* Memory decode: who answers address a, and which SRAM cell it selects    *)

BugNoMask == mc_bank
\* MegaCart bank select.  The image lies at the top of the 512K.
mc_addr_x == IF mc_mem_size = 1  THEN 30 + (mc_bank % 2)  ELSE
             IF mc_mem_size = 3  THEN 28 + (mc_bank % 4)  ELSE
             IF mc_mem_size = 7  THEN 24 + (mc_bank % 8)  ELSE
             IF mc_mem_size = 15 THEN 16 + (mc_bank % 16) ELSE mc_bank

\* A13 selects the half of a 16K page, A14..13 the quarter of a 32K page.
ExtPage(a) ==
    IF a.region < 4 THEN a.region
    ELSE IF mc_en = 1
    THEN 2 * (IF a.region \in {4, 5} THEN 31 ELSE mc_addr) + (a.region % 2)
    ELSE 4 * ext_ram_bank + (a.region % 4)

ExtAddr(a) == [page |-> ExtPage(a), block |-> a.block, offset |-> a.offset]

\* The loader or the SGM covers the 1K RAM at >6000 .. >7FFF.
Covered == rom_loader_en = 1 \/ sgm_en = 1

Device(a) ==
    IF a.region >= 4 THEN IF real_cart = 1 THEN "cart" ELSE "ext"
    ELSE IF a.region = 3 THEN IF Covered THEN "ext" ELSE "cv"
    ELSE IF rom_loader_en = 1 THEN "loader"
    ELSE IF a.region = 0 THEN IF sgm_8k_en = 1 /\ sgm_en = 1 THEN "ext" ELSE "bios"
    ELSE IF sgm_en = 1 THEN "ext" ELSE "cart"

BugInhibitBit == Bit(upmem_mode, 2) = 1
\* A read-only mode of the upper memory.
upmem_we_inhibit == Bit(upmem_mode, 1) = 1

\* Enable and write enable of the SRAM for an access to a.
ExtEnable(a) == \/ sgm_en = 1 \/ real_cart = 0
                \/ a.region = 3 /\ rom_loader_en = 1
ExtWritable(a) == Device(a) = "ext" /\ (a.region >= 4 => ~upmem_we_inhibit)

BugNoShadow(a) == a.region = 3 /\ ~Covered
BugShadowAll(a) == a.region = 3 /\ (Covered => rom_loader_en = 1)
\* The 1K RAM answers when neither the loader nor the SGM covers it, and
\* shadows writes to >6000 .. >63FF while the loader runs.
CvEnable(a) == /\ a.region = 3
               /\ Covered => a.block = 0 /\ rom_loader_en = 1

ExtWrites(c) == MemWrite /\ ExtEnable(bus.addr) /\ ExtWritable(bus.addr)
                /\ c = ExtAddr(bus.addr)
CvWrites(c)  == MemWrite /\ CvEnable(bus.addr) /\ c = bus.addr.offset

ext_x == [c \in ExtCell |-> IF ExtWrites(c) THEN bus.data ELSE ext[c]]
cv_x  == [c \in CvCell  |-> IF CvWrites(c)  THEN bus.data ELSE cv[c]]

\* Any access to >FFC0 .. >FFFF selects the bank in its five low bits.
mc_bank_x == IF /\ MemAccess
                /\ bus.addr.region = 7 /\ bus.addr.block = 7
                /\ bus.addr.offset \div 64 = 15
             THEN bus.addr.offset % 32 ELSE mc_bank

-----------------------------------------------------------------------------
(* Extended I/O ports *)

sgm_en_x        == IF IoWrite(83) THEN Bit(bus.data, 1) ELSE sgm_en
sgm_8k_en_x     == IF IoWrite(127) THEN 1 - Bit(bus.data, 2) ELSE sgm_8k_en
BugBankZero == IF IoWrite(84) THEN bus.data % 16 ELSE ext_ram_bank

ext_ram_bank_x  == IF IoWrite(84) /\ bus.data % 16 # 0
                   THEN bus.data % 16 ELSE ext_ram_bank
rom_loader_en_x == IF IoRead(85) THEN 0 ELSE rom_loader_en
real_cart_x     == IF IoWrite(85)
                   THEN IF Bit(bus.data, 2) = 0 /\ Bit(bus.data, 1) = 0
                        THEN 1 ELSE 0
                   ELSE real_cart
bank_mode_x     == IF IoWrite(85) THEN bus.data % 4 ELSE bank_mode
upmem_mode_x    == IF IoWrite(85) THEN (bus.data \div 16) % 4 ELSE upmem_mode
mc_en_x         == IF IoWrite(85)
                   THEN IF /\ Bit(bus.data, 2) = 0 /\ Bit(bus.data, 1) = 1
                           /\ Bit(bus.data, 32) # Bit(bus.data, 16)
                        THEN 1 ELSE 0
                   ELSE mc_en
mc_mem_size_x   == IF IoWrite(89) THEN bus.data % 32 ELSE mc_mem_size

-----------------------------------------------------------------------------
(* Actions *)

Init ==
    /\ bus = Idle
    /\ sgm_en = 0 /\ sgm_8k_en = 0
    /\ ext_ram_bank = 1
    /\ rom_loader_en = 1
    /\ real_cart = 1
    /\ bank_mode = 0 /\ upmem_mode = 0
    /\ mc_mem_size = 15 /\ mc_bank = 31 /\ mc_addr = 31
    /\ mc_en = 0
    /\ ext \in [ExtCell -> Byte] /\ cv \in [CvCell -> Byte]
    /\ staged = {}

\* History: the loader writes code at >6000 .. >63FF; a later program writes
\* over it, there or at a mirror of the 1K RAM, or anyone does through the
\* upper memory, where a 512K MegaCart image overlaps the SGM's RAM.
Stages   == MemWrite /\ bus.addr.region = 3 /\ bus.addr.block = 0
            /\ rom_loader_en = 1
Unstages == \/ MemWrite /\ bus.addr.region = 3 /\ rom_loader_en = 0
            \/ MemWrite /\ bus.addr.region >= 4 /\ ExtPage(bus.addr) = 3

\* Every register takes its next value; the RAMs finish the request.
Tick ==
    /\ sgm_en' = sgm_en_x
    /\ sgm_8k_en' = sgm_8k_en_x
    /\ ext_ram_bank' = ext_ram_bank_x
    /\ rom_loader_en' = rom_loader_en_x
    /\ real_cart' = real_cart_x
    /\ bank_mode' = bank_mode_x
    /\ upmem_mode' = upmem_mode_x
    /\ mc_mem_size' = mc_mem_size_x
    /\ mc_bank' = mc_bank_x
    /\ mc_addr' = mc_addr_x
    /\ mc_en' = mc_en_x
    /\ ext' = ext_x
    /\ cv' = cv_x
    /\ staged' = IF Stages THEN staged \cup {bus.addr.offset} ELSE
                 IF Unstages THEN staged \ {bus.addr.offset} ELSE staged

\* T1 of a bus cycle ends and the CPU shows its request.
Drive(req) == bus = Idle /\ Tick /\ bus' = req

\* The sound chip or the SD port stops the CPU for a tick.
Hold == bus.kind \in {"IoRead", "IoWrite"} /\ Tick /\ UNCHANGED bus

\* The CPU samples the data and withdraws the request.
Complete == bus # Idle /\ Tick /\ bus' = Idle

\* Internal cycles, refresh and interrupt acknowledge select nothing.
IdleTick == bus = Idle /\ Tick /\ UNCHANGED bus

\* reset_i also resets the CPU, so a write under way may be cut off, in one
\* RAM and not in the other.
Reset ==
    /\ bus' = Idle
    /\ sgm_en' = 0 /\ sgm_8k_en' = 0
    /\ ext_ram_bank' = 1
    /\ rom_loader_en' = 1
    /\ real_cart' = 1
    /\ bank_mode' = 0 /\ upmem_mode' = 0
    /\ mc_mem_size' = 15 /\ mc_bank' = 31 /\ mc_addr' = 31
    /\ mc_en' = 0
    /\ ext' \in {ext, ext_x} /\ cv' \in {cv, cv_x}
    /\ staged' = {}

Next == \/ \E req \in Requests : Drive(req)
        \/ Hold \/ Complete \/ IdleTick \/ Reset

Spec == Init /\ [][Next]_vars

-----------------------------------------------------------------------------
(* Properties *)

RegsOK ==
    /\ sgm_en \in 0..1 /\ sgm_8k_en \in 0..1
    /\ ext_ram_bank \in 1..15
    /\ rom_loader_en \in 0..1 /\ real_cart \in 0..1
    /\ bank_mode \in 0..3 /\ upmem_mode \in 0..3
    /\ mc_mem_size \in 0..31 /\ mc_bank \in 0..31 /\ mc_addr \in 0..31
    /\ mc_en \in 0..1

RamOK == ext \in [ExtCell -> Byte] /\ cv \in [CvCell -> Byte]

\* Every register stays within its width (and the SRAM bank is never 0),
\* every watched cell holds a byte.
TypeOK == /\ bus \in Requests \cup {Idle}
          /\ RegsOK /\ RamOK
          /\ staged \subseteq 0..1023

\* What port >55 was last told is kept in three forms that decide different
\* things (real_cart: who answers; mc_en: how the SRAM is addressed;
\* upmem_mode: whether it is writable).  They never disagree.
ModesAgree == /\ real_cart = 1 <=> bank_mode = 0
              /\ mc_en = 1 <=> bank_mode = 1 /\ upmem_mode \in {1, 2}

\* 16K pages in the image, as port >59 gives it.
Pages == IF mc_mem_size \in {1, 3, 7, 15} THEN mc_mem_size + 1 ELSE 32

\* The masked bank lags its bank register by a tick.  No bus cycle sees the
\* lag: a request always meets the page, counted from the start of an image
\* that ends at the top of the SRAM, that the last bank access selected.
BankSettled == MemAccess => mc_addr = (32 - Pages) + (mc_bank % Pages)

\* The address of offset o in >6000 .. >63FF, and its cell in the SRAM.
At6000(o) == [region |-> 3, block |-> 0, offset |-> o]
Shadow(o) == [page |-> 3, block |-> 0, offset |-> o]

\* Offsets whose cells in both RAMs are watched.
Watched == {o \in CvCell : Shadow(o) \in ExtCell}

\* What the loader wrote to >6000 .. >63FF is in both RAMs behind those
\* addresses, until the program writes there with the loader gone.
Mirrored == \A o \in staged \cap Watched : ext[Shadow(o)] = cv[o]

\* Registers and memories agree with each other, whatever the program does.
MapAgrees == TypeOK /\ ModesAgree /\ Mirrored

\* The data the CPU reads at a from one of the two RAMs.
DataAt(a) == IF Device(a) = "ext" THEN ext[ExtAddr(a)] ELSE cv[a.offset]

\* "The code that reads port >55 better be in the 1K RAM": when the loader
\* is switched off, the code it staged there reads the same in the next map,
\* with the SGM on or off.
TrampolineSurvives ==
    [][rom_loader_en = 1 /\ rom_loader_en' = 0 =>
           \A o \in staged \cap Watched :
               DataAt(At6000(o))' = DataAt(At6000(o))]_vars

\* Port >55: with upper memory a ROM (operation 01 or 11), or a physical
\* cartridge selected, no access changes the SRAM above the SGM's 32K.
RomStable ==
    [][real_cart = 1 \/ upmem_mode \in {1, 3} =>
           \A c \in ExtCell : c.page >= 4 => ext'[c] = ext[c]]_vars

\* The SGM's 32K at the bottom of the SRAM is out of reach of an access to
\* the upper memory, unless a MegaCart image of the whole 512K is declared.
SgmPrivate ==
    [][MemWrite /\ bus.addr.region >= 4 /\ (mc_en = 1 => Pages < 32) =>
           \A c \in ExtCell : c.page < 4 => ext'[c] = ext[c]]_vars
=============================================================================
