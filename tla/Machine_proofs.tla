-------------------------- MODULE Machine_proofs --------------------------
(***************************************************************************)
(* The machine the programs run on: the memory map of PhoenixBus, for every *)
(* program (any set of addresses, ports and bytes, and any cells of the    *)
(* two RAMs), and the frame interrupt of FrameNmi, for any set of assembly *)
(* routines and waits of any length.  The two share no state; the second   *)
(* begins at "The frame interrupt".                                        *)
(***************************************************************************)
EXTENDS PhoenixBus, FrameNmi, TLAPS

-----------------------------------------------------------------------------
(* Arithmetic of the bytes the ports take apart *)

\* The program's bytes are bytes.
LEMMA ByteRange == Byte \subseteq 0..255
BY BusAssumption

\* The fields of a byte are within their widths.
LEMMA ByteParts ==
    ASSUME NEW d \in 0..255
    PROVE  /\ d % 16 \in 0..15 /\ d % 4 \in 0..3 /\ d % 32 \in 0..31
           /\ (d \div 16) % 4 \in 0..3
OBVIOUS

\* A single bit is 0 or 1.
LEMMA BitRange ==
    ASSUME NEW d \in 0..255
    PROVE  /\ Bit(d, 1) \in 0..1 /\ Bit(d, 2) \in 0..1
           /\ 1 - Bit(d, 2) \in 0..1
BY DEF Bit

\* Bits 1 and 0 of a byte are its value modulo 4.
LEMMA LowBits ==
    ASSUME NEW d \in 0..255
    PROVE  /\ Bit(d, 2) = 0 /\ Bit(d, 1) = 0 <=> d % 4 = 0
           /\ Bit(d, 2) = 0 /\ Bit(d, 1) = 1 <=> d % 4 = 1
BY DEF Bit

\* Bits 5 and 4 differ exactly in the operations 01 and 10.
LEMMA UpperBits ==
    ASSUME NEW d \in 0..255
    PROVE  Bit(d, 32) # Bit(d, 16) <=> (d \div 16) % 4 \in {1, 2}
BY DEF Bit

-----------------------------------------------------------------------------
(* Type correctness *)

\* The fields of a request.
LEMMA BusRange ==
    ASSUME TypeOK
    PROVE  /\ MemAccess => /\ bus.addr \in MemAddr /\ bus.addr \in Address
                           /\ bus.data \in Byte
           /\ \A p : IoWrite(p) => bus.data \in Byte /\ bus.data \in 0..255
           /\ bus = Idle => bus.kind = "idle"
<1>1. CASE bus = Idle
  BY <1>1 DEF Idle, MemAccess, IoWrite
<1>2. CASE bus \in [kind : {"MemRead", "MemWrite"}, addr : MemAddr, data : Byte]
  BY <1>2, BusAssumption DEF Idle, MemAccess, IoWrite
<1>3. CASE bus \in [kind : {"IoRead", "IoWrite"}, port : IoPort, data : Byte]
  <2>1. bus.kind \in {"IoRead", "IoWrite"} /\ bus.data \in Byte
    BY <1>3
  <2>2. bus.data \in 0..255
    BY <2>1, ByteRange
  <2> QED
    BY <2>1, <2>2 DEF Idle, MemAccess, IoWrite
<1> QED
  BY <1>1, <1>2, <1>3 DEF TypeOK, Requests

\* The fields of a CPU address.
LEMMA AddressRange ==
    ASSUME NEW a \in Address
    PROVE  a.region \in 0..7 /\ a.block \in 0..7 /\ a.offset \in 0..1023
BY DEF Address

\* The bank in the low bits of an address.
LEMMA OffsetBank == ASSUME NEW o \in 0..1023 PROVE o % 32 \in 0..31
OBVIOUS

\* The next content of the RAMs, whatever is on the bus.
LEMMA RamType ==
    ASSUME TypeOK
    PROVE  ext_x \in [ExtCell -> Byte] /\ cv_x \in [CvCell -> Byte]
BY BusRange DEF TypeOK, RamOK, ext_x, cv_x, ExtWrites, CvWrites, MemWrite,
                MemAccess

\* The next value of every register and cell is within its width.
LEMMA TickType ==
    ASSUME TypeOK, Tick
    PROVE  RegsOK' /\ RamOK' /\ staged' \subseteq 0..1023
<1>1. \A p : IoWrite(p) => bus.data \in 0..255
  BY BusRange
<1>2. MemAccess => bus.addr.offset \in 0..1023
  BY BusRange, AddressRange
<1>3. sgm_en' \in 0..1 /\ sgm_8k_en' \in 0..1 /\ rom_loader_en' \in 0..1
  <2>1. sgm_en' \in 0..1
    BY <1>1, BitRange DEF TypeOK, RegsOK, Tick, sgm_en_x
  <2>2. sgm_8k_en' \in 0..1
    <3>1. sgm_8k_en \in 0..1 /\ sgm_8k_en' = sgm_8k_en_x
      BY DEF TypeOK, RegsOK, Tick
    <3>2. IoWrite(127) => 1 - Bit(bus.data, 2) \in 0..1
      BY <1>1, BitRange
    <3> QED
      BY <3>1, <3>2 DEF sgm_8k_en_x
  <2>3. rom_loader_en' \in 0..1
    BY DEF TypeOK, RegsOK, Tick, rom_loader_en_x
  <2> QED
    BY <2>1, <2>2, <2>3
<1>4. real_cart' \in 0..1 /\ mc_en' \in 0..1
  BY <1>1, BitRange DEF TypeOK, RegsOK, Tick, real_cart_x, mc_en_x
<1>5. ext_ram_bank' \in 1..15
  BY <1>1, ByteParts DEF TypeOK, RegsOK, Tick, ext_ram_bank_x
<1>6. bank_mode' \in 0..3 /\ upmem_mode' \in 0..3 /\ mc_mem_size' \in 0..31
  <2>1. bank_mode' \in 0..3
    BY <1>1, ByteParts DEF TypeOK, RegsOK, Tick, bank_mode_x
  <2>2. upmem_mode' \in 0..3
    BY <1>1, ByteParts DEF TypeOK, RegsOK, Tick, upmem_mode_x
  <2>3. mc_mem_size' \in 0..31
    BY <1>1, ByteParts DEF TypeOK, RegsOK, Tick, mc_mem_size_x
  <2> QED
    BY <2>1, <2>2, <2>3
<1>7. mc_bank' \in 0..31
  <2>1. mc_bank \in 0..31 /\ mc_bank' = mc_bank_x
    BY DEF TypeOK, RegsOK, Tick
  <2>2. MemAccess => bus.addr.offset % 32 \in 0..31
    BY <1>2, OffsetBank
  <2> QED
    BY <2>1, <2>2 DEF mc_bank_x
<1>8. mc_addr' \in 0..31
  BY DEF TypeOK, RegsOK, Tick, mc_addr_x
<1>9. staged' \subseteq 0..1023
  <2>1. MemWrite => bus.addr.offset \in 0..1023
    BY <1>2 DEF MemWrite, MemAccess
  <2>2. staged \subseteq 0..1023
    BY DEF TypeOK
  <2>3. CASE Stages
    <3>1. bus.addr.offset \in 0..1023
      BY <2>1, <2>3 DEF Stages
    <3>2. staged' = staged \cup {bus.addr.offset}
      BY <2>3 DEF Tick
    <3> QED
      <4> SUFFICES ASSUME NEW o \in staged' PROVE o \in 0..1023
        OBVIOUS
      <4>1. o \in staged \/ o = bus.addr.offset
        BY <3>2
      <4>2. CASE o \in staged
        BY <2>2, <4>2
      <4>3. CASE o = bus.addr.offset
        BY <3>1, <4>3
      <4> QED
        BY <4>1, <4>2, <4>3
  <2>4. CASE ~Stages
    <3>1. staged' \subseteq staged
      BY <2>4 DEF Tick
    <3> SUFFICES ASSUME NEW o \in staged' PROVE o \in 0..1023
      OBVIOUS
    <3>2. o \in staged
      BY <3>1
    <3> QED
      BY <2>2, <3>2
  <2> QED
    BY <2>3, <2>4
<1>10. RamOK'
  BY RamType DEF Tick, RamOK
<1> QED
  BY <1>3, <1>4, <1>5, <1>6, <1>7, <1>8, <1>9, <1>10 DEF RegsOK

\* The values at reset are within the widths.
LEMMA ResetType ==
    ASSUME Reset
    PROVE  RegsOK' /\ staged' \subseteq 0..1023
<1>1. staged' \subseteq 0..1023
  BY DEF Reset
<1>2. RegsOK'
  BY DEF Reset, RegsOK
<1> QED
  BY <1>1, <1>2

\* One step of any kind keeps the types.
LEMMA TypeStep == TypeOK /\ [Next]_vars => TypeOK'
<1> SUFFICES ASSUME TypeOK, [Next]_vars PROVE TypeOK'
  OBVIOUS
<1>1. ASSUME NEW req \in Requests, Drive(req) PROVE TypeOK'
  BY <1>1, TickType DEF Drive, TypeOK
<1>2. CASE Hold
  BY <1>2, TickType DEF Hold, TypeOK
<1>3. CASE Complete
  BY <1>3, TickType DEF Complete, TypeOK
<1>4. CASE IdleTick
  BY <1>4, TickType DEF IdleTick, TypeOK
<1>5. CASE Reset
  <2>1. bus' = Idle
    BY <1>5 DEF Reset
  <2>2. RamOK'
    BY <1>5, RamType DEF Reset, TypeOK, RamOK
  <2> QED
    BY <1>5, <2>1, <2>2, ResetType DEF TypeOK
<1>6. CASE UNCHANGED vars
  BY <1>6 DEF vars, regs, TypeOK, RegsOK, RamOK
<1> QED
  BY <1>1, <1>2, <1>3, <1>4, <1>5, <1>6 DEF Next

\* The types hold when the FPGA is configured.
LEMMA TypeInit == Init => TypeOK
<1> SUFFICES ASSUME Init PROVE TypeOK
  OBVIOUS
<1>1. RegsOK
  BY DEF Init, RegsOK
<1>2. RamOK
  BY DEF Init, RamOK
<1>3. staged \subseteq 0..1023
  BY DEF Init
<1> QED
  BY <1>1, <1>2, <1>3 DEF Init, TypeOK

\* No sequence of accesses and resets takes a register out of its width.
THEOREM TypeCorrect == Spec => []TypeOK
BY TypeInit, TypeStep, PTL DEF Spec

-----------------------------------------------------------------------------
(* The banking registers *)

\* The invariant behind the two properties of port >55.
LEMMA ModesStep == TypeOK /\ ModesAgree /\ [Next]_vars => ModesAgree'
<1> SUFFICES ASSUME TypeOK, ModesAgree, [Next]_vars PROVE ModesAgree'
  OBVIOUS
<1>1. ASSUME Tick PROVE ModesAgree'
  <2>1. CASE IoWrite(85)
    <3>1. bus.data \in 0..255
      BY <2>1, BusRange
    <3>2. /\ real_cart' = 1 <=> Bit(bus.data, 2) = 0 /\ Bit(bus.data, 1) = 0
          /\ bank_mode' = bus.data % 4
          /\ upmem_mode' = (bus.data \div 16) % 4
          /\ mc_en' = 1 <=> /\ Bit(bus.data, 2) = 0 /\ Bit(bus.data, 1) = 1
                            /\ Bit(bus.data, 32) # Bit(bus.data, 16)
      BY <1>1, <2>1 DEF Tick, real_cart_x, bank_mode_x, upmem_mode_x, mc_en_x
    <3> QED
      BY <3>1, <3>2, LowBits, UpperBits DEF ModesAgree
  <2>2. CASE ~IoWrite(85)
    BY <1>1, <2>2
       DEF Tick, real_cart_x, bank_mode_x, upmem_mode_x, mc_en_x, ModesAgree
  <2> QED
    BY <2>1, <2>2
<1>2. CASE Reset
  BY <1>2 DEF Reset, ModesAgree
<1>3. CASE UNCHANGED vars
  BY <1>3 DEF vars, regs, ModesAgree
<1> QED
  BY <1>1, <1>2, <1>3 DEF Next, Drive, Hold, Complete, IdleTick

\* The three registers port >55 sets agree in every reachable state.
THEOREM ModesCorrect == Spec => []ModesAgree
<1>1. Init => TypeOK /\ ModesAgree
  BY TypeInit DEF Init, ModesAgree
<1> QED
  BY <1>1, TypeStep, ModesStep, PTL DEF Spec

\* The mask of each size selects the page counted from the image's start.
LEMMA MaskedPage ==
    ASSUME mc_mem_size \in 0..31, mc_bank \in 0..31
    PROVE  mc_addr_x = (32 - Pages) + (mc_bank % Pages)
<1>1. CASE mc_mem_size \in {1, 3, 7, 15}
  BY <1>1 DEF mc_addr_x, Pages
<1>2. CASE mc_mem_size \notin {1, 3, 7, 15}
  BY <1>2 DEF mc_addr_x, Pages
<1> QED
  BY <1>1, <1>2

\* A tick that shows a new request finds the bank registers at rest.
LEMMA BankStep == TypeOK /\ BankSettled /\ [Next]_vars => BankSettled'
<1> SUFFICES ASSUME TypeOK, BankSettled, [Next]_vars PROVE BankSettled'
  OBVIOUS
<1>1. ASSUME NEW req \in Requests, Drive(req) PROVE BankSettled'
  <2>1. /\ ~MemAccess /\ ~IoWrite(89)
    BY <1>1 DEF Drive, Idle, MemAccess, IoWrite
  <2>2. mc_bank' = mc_bank /\ mc_mem_size' = mc_mem_size /\ mc_addr' = mc_addr_x
    BY <1>1, <2>1 DEF Drive, Tick, mc_bank_x, mc_mem_size_x
  <2>3. mc_addr_x = (32 - Pages) + (mc_bank % Pages)
    BY MaskedPage DEF TypeOK, RegsOK
  <2> QED
    BY <2>2, <2>3 DEF BankSettled, Pages
<1>2. CASE Hold
  BY <1>2 DEF Hold, BankSettled, MemAccess
<1>3. CASE Complete
  BY <1>3 DEF Complete, BankSettled, MemAccess, Idle
<1>4. CASE IdleTick
  BY <1>4 DEF IdleTick, BankSettled, MemAccess, Idle
<1>5. CASE Reset
  BY <1>5 DEF Reset, BankSettled, MemAccess, Idle
<1>6. CASE UNCHANGED vars
  BY <1>6 DEF vars, regs, BankSettled, MemAccess, Pages
<1> QED
  BY <1>1, <1>2, <1>3, <1>4, <1>5, <1>6 DEF Next

\* No memory access meets the tick in which the masked bank is stale.
THEOREM BankCorrect == Spec => []BankSettled
<1>1. Init => TypeOK /\ BankSettled
  BY TypeInit DEF Init, BankSettled, MemAccess, Idle
<1> QED
  BY <1>1, TypeStep, BankStep, PTL DEF Spec

-----------------------------------------------------------------------------
(* The SRAM *)

\* Every step leaves a cell alone, or writes the one the request selects.
LEMMA ExtStep ==
    ASSUME TypeOK, [Next]_vars, NEW c \in ExtCell, ~ExtWrites(c)
    PROVE  ext'[c] = ext[c]
<1>1. ext_x[c] = ext[c]
  BY DEF ext_x
<1>2. ext' \in {ext, ext_x}
  BY DEF Next, Drive, Hold, Complete, IdleTick, Reset, Tick, vars
<1> QED
  BY <1>1, <1>2

\* An access to the upper memory selects a page of the declared image, or of
\* the bank that is never 0; one to the lower memory a page of the SGM.
LEMMA PageRange ==
    ASSUME TypeOK, BankSettled, MemAccess
    PROVE  /\ bus.addr.region < 4 => ExtPage(bus.addr) < 4
           /\ bus.addr.region >= 4 /\ (mc_en = 1 => Pages < 32)
                  => ExtPage(bus.addr) >= 4
<1>1. bus.addr.region \in 0..7
  BY BusRange, AddressRange
<1>2. mc_addr \in 0..31 /\ ext_ram_bank \in 1..15 /\ mc_bank \in 0..31
      /\ mc_mem_size \in 0..31
  BY DEF TypeOK, RegsOK
<1>3. Pages < 32 => mc_addr >= 16
  BY <1>2 DEF BankSettled, Pages
<1> DEFINE r == bus.addr.region
<1>4. r % 2 \in 0..1 /\ r % 4 \in 0..3
  BY <1>1
<1>5. CASE r < 4
  BY <1>1, <1>5 DEF ExtPage
<1>6. CASE r >= 4
  BY <1>1, <1>2, <1>3, <1>4, <1>6 DEF ExtPage
<1> QED
  BY <1>1, <1>5, <1>6

\* A ROM in the upper memory, or a cartridge, is never changed by the CPU.
THEOREM RomCorrect == Spec => RomStable
<1>1. TypeOK /\ ModesAgree /\ BankSettled /\ [Next]_vars =>
          [real_cart = 1 \/ upmem_mode \in {1, 3} =>
               \A c \in ExtCell : c.page >= 4 => ext'[c] = ext[c]]_vars
  <2> SUFFICES ASSUME TypeOK, BankSettled, [Next]_vars,
                      real_cart = 1 \/ upmem_mode \in {1, 3},
                      NEW c \in ExtCell, c.page >= 4
               PROVE  ext'[c] = ext[c]
    OBVIOUS
  <2>1. ~ExtWrites(c)
    <3> SUFFICES ASSUME ExtWrites(c) PROVE FALSE
      OBVIOUS
    <3>1. MemWrite /\ ExtWritable(bus.addr) /\ c = ExtAddr(bus.addr)
      BY DEF ExtWrites
    <3>2. MemAccess
      BY <3>1 DEF MemWrite, MemAccess
    <3>3. bus.addr.region \in 0..7
      BY <3>2, BusRange, AddressRange
    <3>4. c.page = ExtPage(bus.addr)
      BY <3>1 DEF ExtAddr
    <3>5. ExtPage(bus.addr) \in Int
      BY <3>3 DEF ExtPage, TypeOK, RegsOK
    <3>6. bus.addr.region >= 4
      BY <3>2, <3>3, <3>4, <3>5, PageRange
    <3>7. CASE real_cart = 1
      BY <3>1, <3>6, <3>7 DEF ExtWritable, Device
    <3>8. CASE upmem_mode \in {1, 3}
      BY <3>1, <3>6, <3>8 DEF ExtWritable, upmem_we_inhibit, Bit
    <3> QED
      BY <3>7, <3>8
  <2> QED
    BY <2>1, ExtStep
<1>2. Init => TypeOK /\ ModesAgree /\ BankSettled
  BY TypeInit DEF Init, ModesAgree, BankSettled, MemAccess, Idle
<1> QED
  BY <1>1, <1>2, TypeStep, ModesStep, BankStep, PTL DEF Spec, RomStable

\* Upper memory never reaches the SGM's RAM, but for a 512K MegaCart image.
THEOREM SgmCorrect == Spec => SgmPrivate
<1>1. TypeOK /\ BankSettled /\ [Next]_vars =>
          [MemWrite /\ bus.addr.region >= 4 /\ (mc_en = 1 => Pages < 32) =>
               \A c \in ExtCell : c.page < 4 => ext'[c] = ext[c]]_vars
  <2> SUFFICES ASSUME TypeOK, BankSettled, [Next]_vars, MemWrite,
                      bus.addr.region >= 4, mc_en = 1 => Pages < 32,
                      NEW c \in ExtCell, c.page < 4
               PROVE  ext'[c] = ext[c]
    OBVIOUS
  <2>1. MemAccess /\ bus.addr.region \in 0..7
    BY BusRange, AddressRange DEF MemWrite, MemAccess
  <2>2. ExtPage(bus.addr) >= 4 /\ ExtPage(bus.addr) \in Int
    BY <2>1, PageRange DEF ExtPage, TypeOK, RegsOK
  <2>3. ~ExtWrites(c)
    BY <2>2 DEF ExtWrites, ExtAddr
  <2> QED
    BY <2>3, ExtStep
<1>2. Init => TypeOK /\ BankSettled
  BY TypeInit DEF Init, BankSettled, MemAccess, Idle
<1> QED
  BY <1>1, <1>2, TypeStep, BankStep, PTL DEF Spec, SgmPrivate
-----------------------------------------------------------------------------
(* The hand-over from the loader *)

\* A write by the loader to >6000 .. >63FF lands in both RAMs.
LEMMA StagedBoth ==
    ASSUME Stages
    PROVE  /\ ExtWrites(Shadow(bus.addr.offset))
           /\ CvWrites(bus.addr.offset)
<1>1. bus.addr.region = 3 /\ bus.addr.block = 0 /\ rom_loader_en = 1 /\ MemWrite
  BY DEF Stages
<1>2. ExtAddr(bus.addr) = Shadow(bus.addr.offset)
  BY <1>1 DEF ExtAddr, ExtPage, Shadow
<1>3. ExtEnable(bus.addr) /\ ExtWritable(bus.addr)
  BY <1>1 DEF ExtEnable, ExtWritable, Device, Covered
<1> QED
  BY <1>1, <1>2, <1>3 DEF ExtWrites, CvWrites, CvEnable

\* Any other write to one of the two cells ends the staging of its offset.
LEMMA OthersUnstage ==
    ASSUME TypeOK, ~Stages, NEW o, ExtWrites(Shadow(o)) \/ CvWrites(o)
    PROVE  Unstages /\ o = bus.addr.offset
<1>1. MemWrite /\ bus.addr.region \in 0..7
  BY BusRange, AddressRange DEF ExtWrites, CvWrites, MemWrite, MemAccess
<1>2. CASE CvWrites(o)
  BY <1>1, <1>2
     DEF CvWrites, CvEnable, Covered, Stages, Unstages, TypeOK, RegsOK
<1>3. CASE ExtWrites(Shadow(o))
  <2>1. ExtPage(bus.addr) = 3 /\ bus.addr.block = 0 /\ bus.addr.offset = o
    BY <1>3 DEF ExtWrites, ExtAddr, Shadow
  <2>2. bus.addr.region >= 4 \/ bus.addr.region = 3
    BY <1>1, <2>1 DEF ExtPage
  <2> QED
    BY <1>1, <2>1, <2>2 DEF Stages, Unstages, TypeOK, RegsOK
<1> QED
  BY <1>2, <1>3

\* A tick keeps the two copies of every staged cell equal.
LEMMA MirroredStep == TypeOK /\ Mirrored /\ [Next]_vars => Mirrored'
<1> SUFFICES ASSUME TypeOK, Mirrored, [Next]_vars PROVE Mirrored'
  OBVIOUS
<1>1. ASSUME Tick PROVE Mirrored'
  <2> SUFFICES ASSUME NEW o \in staged' \cap Watched
               PROVE  ext'[Shadow(o)] = cv'[o]
    BY DEF Mirrored, Shadow, Watched
  <2>1. o \in CvCell /\ Shadow(o) \in ExtCell
    BY DEF Watched
  <2>2. /\ ext'[Shadow(o)] = IF ExtWrites(Shadow(o)) THEN bus.data
                             ELSE ext[Shadow(o)]
        /\ cv'[o] = IF CvWrites(o) THEN bus.data ELSE cv[o]
    BY <1>1, <2>1 DEF Tick, ext_x, cv_x
  <2>3. CASE Stages /\ o = bus.addr.offset
    BY <2>2, <2>3, StagedBoth
  <2>4. CASE Stages /\ o # bus.addr.offset
    <3>1. ~ExtWrites(Shadow(o)) /\ ~CvWrites(o)
      BY <2>4 DEF ExtWrites, ExtAddr, Shadow, CvWrites
    <3>2. o \in staged
      BY <1>1, <2>4 DEF Tick
    <3> QED
      BY <2>2, <3>1, <3>2 DEF Mirrored
  <2>5. CASE ~Stages
    <3>1. o \in staged /\ ~(Unstages /\ o = bus.addr.offset)
      BY <1>1, <2>5 DEF Tick
    <3>2. ~ExtWrites(Shadow(o)) /\ ~CvWrites(o)
      BY <2>5, <3>1, OthersUnstage
    <3> QED
      BY <2>2, <3>1, <3>2 DEF Mirrored
  <2> QED
    BY <2>3, <2>4, <2>5
<1>2. CASE Reset
  BY <1>2 DEF Reset, Mirrored
<1>3. CASE UNCHANGED vars
  BY <1>3 DEF vars, Mirrored, Shadow, Watched
<1> QED
  BY <1>1, <1>2, <1>3 DEF Next, Drive, Hold, Complete, IdleTick

\* Both RAMs hold what the loader staged, however the program interleaves.
THEOREM MirrorCorrect == Spec => []Mirrored
<1>1. Init => TypeOK /\ Mirrored
  BY TypeInit DEF Init, Mirrored
<1> QED
  BY <1>1, TypeStep, MirroredStep, PTL DEF Spec

\* Registers and memories agree with each other, whatever the program does.
THEOREM MapCorrect == Spec => []MapAgrees
<1>1. TypeOK /\ ModesAgree /\ Mirrored => MapAgrees
  BY DEF MapAgrees
<1> QED
  BY <1>1, TypeCorrect, ModesCorrect, MirrorCorrect, PTL

\* The code that switches the loader off still reads the same afterwards.
THEOREM TrampolineCorrect == Spec => TrampolineSurvives
<1>1. TypeOK /\ Mirrored /\ [Next]_vars =>
          [rom_loader_en = 1 /\ rom_loader_en' = 0 =>
               \A o \in staged \cap Watched :
                   DataAt(At6000(o))' = DataAt(At6000(o))]_vars
  <2> SUFFICES ASSUME TypeOK, Mirrored, [Next]_vars,
                      rom_loader_en = 1, rom_loader_en' = 0,
                      NEW o \in staged \cap Watched
               PROVE  DataAt(At6000(o))' = DataAt(At6000(o))
    OBVIOUS
  <2>1. Tick
    BY DEF Next, Drive, Hold, Complete, IdleTick, Reset, vars, regs
  <2>2. ~MemWrite
    BY <2>1 DEF Tick, rom_loader_en_x, IoRead, MemWrite
  <2>3. o \in CvCell /\ Shadow(o) \in ExtCell
    BY DEF Watched
  <2>4. ext'[Shadow(o)] = ext[Shadow(o)] /\ cv'[o] = cv[o]
    BY <2>1, <2>2, <2>3 DEF Tick, ext_x, cv_x, ExtWrites, CvWrites
  <2>5. DataAt(At6000(o)) = ext[Shadow(o)]
    BY DEF DataAt, At6000, Device, Covered, ExtAddr, ExtPage, Shadow
  <2>6. DataAt(At6000(o))' \in {ext'[Shadow(o)], cv'[o]}
    BY DEF DataAt, At6000, Device, Covered, ExtAddr, ExtPage, Shadow
  <2>7. ext[Shadow(o)] = cv[o]
    BY DEF Mirrored
  <2> QED
    BY <2>4, <2>5, <2>6, <2>7
<1>2. Init => TypeOK /\ Mirrored
  BY TypeInit DEF Init, Mirrored
<1> QED
  BY <1>1, <1>2, TypeStep, MirroredStep, PTL DEF Spec, TrampolineSurvives

-----------------------------------------------------------------------------
(* The frame interrupt: where the stack pointer is *)

\* In C, and while it waits, the program is outside of the routines.
Outside == {"c", "lost", "enter", "forget", "test", "spin", "clear", "read"}

\* The stack pointer of a routine of a arguments that saves s registers.
At(a, s, spills) ==
    /\ pc \in Outside => sp \in 0..1
    /\ pc \in {"save", "restore"} => sp \in (-s)..0
    /\ pc = "raise" => sp = -s
    /\ pc = "pop" => sp \in 1..a
    /\ pc \in {"spill", "lower"} => sp = a + 1
    /\ pc = "spill" => spills
    /\ pc = "copy" => sp = a + 1 \/ (sp = a /\ spills)
    /\ pc = "ret" => sp = 0

SpOK == At(Args[routine], Saved[routine], routine \in Spills)

Typed == NmiTypeOK /\ SpOK

\* What the actions leave a routine with.
LEMMA Shape == ASSUME NmiTypeOK
               PROVE  /\ Args[routine] \in 1..3 /\ Saved[routine] \in 0..4
                      /\ Args[routine] \in Int /\ Saved[routine] \in Int /\ sp \in Int
<1>1. routine \in Routines
  BY DEF NmiTypeOK
<1>2. Args[routine] \in 1..3 /\ Saved[routine] \in 0..4
  BY <1>1, RoutinesAssumption
<1>3. QED
  BY <1>2 DEF NmiTypeOK

\* An instruction leaves the latch of the NMI in one of its three states.
LEMMA Latch == ASSUME nmi \in {"none", "raised", "due"}, NEW f, NEW i, Instruction(f, i)
               PROVE  nmi' \in {"none", "raised", "due"} /\ frame' = f /\ ie' = i
BY DEF Instruction, Keep

-----------------------------------------------------------------------------
(* Types *)

\* The program outside of the routines.
LEMMA OutsideStep ==
    ASSUME Typed, \/ \E b \in BOOLEAN : SetIe(b)
                  \/ PollStatus \/ WaitVblanks
    PROVE  /\ UNCHANGED asm /\ pc \in Outside /\ pc' \in Outside \ {"lost"}
           /\ frame' \in BOOLEAN /\ ie' \in BOOLEAN /\ vdpLimi' \in BOOLEAN
           /\ nmi' \in {"none", "raised", "due"}
           /\ cnt' \in 0..Frames /\ owed' \in 0..Frames
<1>0. frame \in BOOLEAN /\ ie \in BOOLEAN /\ vdpLimi \in BOOLEAN
      /\ nmi \in {"none", "raised", "due"} /\ cnt \in 0..Frames /\ owed \in 0..Frames
  BY DEF Typed, NmiTypeOK
<1>1. CASE \E b \in BOOLEAN : SetIe(b)
  BY <1>0, <1>1, Latch DEF SetIe, wait, asm, Outside
<1>2. CASE PollStatus
  BY <1>0, <1>2, Latch DEF PollStatus, ReadStatus, wait, asm, Outside
<1>3. CASE WaitCall
  <2>1. owed' \in 0..Frames /\ cnt' \in 0..Frames
    BY <1>3, FramesAssumption DEF WaitCall
  <2>2. QED
    BY <1>0, <1>3, <2>1, Latch DEF WaitCall, Goto, asm, Outside
<1>4. CASE WaitTest
  <2>1. cnt' \in 0..Frames
    BY <1>0, <1>4, FramesAssumption DEF WaitTest
  <2>2. QED
    BY <1>0, <1>4, <2>1, Latch DEF WaitTest, Goto, asm, Outside
<1>5. CASE Spin
  BY <1>0, <1>5, Latch DEF Spin, Goto, wait, asm, Outside
<1>6. CASE Forget("enter", "forget") \/ Forget("clear", "read")
  BY <1>0, <1>6, Latch DEF Forget, Goto, wait, asm, Outside
<1>7. CASE ReadStatus("forget", "test") \/ ReadStatus("read", "test")
  BY <1>0, <1>7, Latch DEF ReadStatus, wait, asm, Outside
<1>8. QED
  BY <1>1, <1>2, <1>3, <1>4, <1>5, <1>6, <1>7 DEF WaitVblanks, ClearVblank

\* A step of a routine.
LEMMA AsmStep ==
    ASSUME Typed, AsmRoutine
    PROVE  /\ routine' \in Routines /\ SpOK'
           /\ torn' \in SUBSET ((-7)..3) /\ early' \in BOOLEAN /\ pc' \in Pcs
           /\ UNCHANGED <<vdp, vdpLimi, wait>>
           /\ nmi' \in {"none", "raised", "due"}
<1> DEFINE Moved == /\ UNCHANGED <<vdp, vdpLimi, wait>>
                    /\ nmi' \in {"none", "raised", "due"}
           Rest == /\ routine' \in Routines /\ torn' \in SUBSET ((-7)..3) /\ early' \in BOOLEAN
                   /\ pc' \in Pcs
<1>0. /\ routine \in Routines /\ torn \in SUBSET ((-7)..3) /\ early \in BOOLEAN
      /\ nmi \in {"none", "raised", "due"}
  BY DEF Typed, NmiTypeOK
<1>a. PICK a : a = Args[routine]
  OBVIOUS
<1>s. PICK r : r = Saved[routine]
  OBVIOUS
<1>t. /\ a \in 1..3 /\ r \in 0..4 /\ sp \in Int
  BY <1>a, <1>s, Shape DEF Typed
<1>i. At(a, r, routine \in Spills)
  BY <1>a, <1>s DEF Typed, SpOK
<1>m. ASSUME NEW from, NEW to, Asm(from, to)
      PROVE  Moved /\ pc = from /\ pc' = to
  BY <1>0, <1>m, Latch DEF Asm, Goto, vdp
<1>k. ASSUME routine' = routine
      PROVE  a = Args[routine'] /\ r = Saved[routine']
  BY <1>a, <1>s, <1>k
<1>1. CASE \E q \in Routines : AsmCall(q)
  <2>1. PICK q \in Routines : AsmCall(q)
    BY <1>1
  <2>2. Moved /\ pc' = "save" /\ routine' = q /\ sp' = 0 /\ torn' = {} /\ early' = FALSE
    BY <2>1, <1>m DEF AsmCall
  <2>3. Saved[q] \in 0..4
    BY RoutinesAssumption
  <2>4. 0 \in (-Saved[q])..0
    BY <2>3
  <2>5. SpOK'
    BY <2>2, <2>4 DEF SpOK, At, Outside
  <2>6. QED
    BY <2>2, <2>5 DEF Pcs
<1>2. CASE Save
  <2>1. Moved /\ pc = "save" /\ pc' \in {"save", "raise"} /\ routine' = routine /\ early' = early
        /\ torn' \subseteq torn
    BY <1>2, <1>m DEF Save
  <2>2. sp \in (-r)..0
    BY <2>1, <1>i DEF At
  <2>3. CASE sp > -r
    <3>1. pc' = "save" /\ sp' = sp - 1
      BY <1>2, <2>3, <1>m, <1>s DEF Save
    <3>2. sp' \in (-r)..0
      BY <3>1, <2>2, <2>3, <1>t
    <3>3. SpOK'
      BY <3>1, <3>2, <2>1, <1>s DEF SpOK, At, Outside
    <3>4. QED
      BY <2>1, <3>1, <3>3, <1>0 DEF Pcs
  <2>4. CASE ~(sp > -r)
    <3>1. pc' = "raise" /\ sp' = sp
      BY <1>2, <2>4, <1>m, <1>s DEF Save
    <3>2. sp' = -r
      BY <3>1, <2>2, <2>4, <1>t
    <3>3. SpOK'
      BY <3>1, <3>2, <2>1, <1>s DEF SpOK, At, Outside
    <3>4. QED
      BY <2>1, <3>1, <3>3, <1>0 DEF Pcs
  <2>5. QED
    BY <2>3, <2>4
<1>3. CASE Raise
  <2>1. Moved /\ pc' = "pop" /\ sp' = 1 /\ UNCHANGED <<routine, torn, early>>
    BY <1>3, <1>m DEF Raise
  <2>2. 1 \in 1..a
    BY <1>t
  <2>3. SpOK'
    BY <2>1, <2>2, <1>a DEF SpOK, At, Outside
  <2>4. QED
    BY <2>1, <2>3, <1>0 DEF Pcs
<1>4. CASE Pop
  <2>1. /\ Moved /\ pc = "pop" /\ sp' = sp + 1 /\ UNCHANGED <<routine, torn, early>>
        /\ pc' = (IF sp < a THEN "pop" ELSE IF routine \in Spills THEN "spill" ELSE "copy")
    BY <1>4, <1>m, <1>a DEF Pop
  <2>2. sp \in 1..a
    BY <2>1, <1>i DEF At
  <2>3. IF sp < a THEN sp + 1 \in 1..a ELSE sp + 1 = a + 1
    BY <2>2, <1>t
  <2>4. SpOK'
    BY <2>1, <2>3, <1>a DEF SpOK, At, Outside
  <2>5. QED
    BY <2>1, <2>4, <1>0 DEF Pcs
<1>5. CASE Spill
  <2>1. /\ Moved /\ pc = "spill" /\ pc' = "copy" /\ UNCHANGED <<routine, early>>
        /\ torn' \subseteq torn /\ (sp' = sp - 1 \/ sp' = sp)
    BY <1>5, <1>m DEF Spill
  <2>2. sp = a + 1 /\ routine \in Spills
    BY <2>1, <1>i DEF At
  <2>3. sp' = a \/ sp' = a + 1
    BY <2>1, <2>2, <1>t
  <2>4. SpOK'
    BY <2>1, <2>2, <2>3, <1>a DEF SpOK, At, Outside
  <2>5. QED
    BY <2>1, <2>4, <1>0 DEF Pcs
<1>6. CASE Unspill
  <2>1. /\ Moved /\ pc' \in {"copy", "lower"} /\ UNCHANGED <<routine, torn, early>>
        /\ sp = a /\ sp' = sp + 1
    BY <1>6, <1>m, <1>a DEF Unspill
  <2>2. sp' = a + 1
    BY <2>1
  <2>3. SpOK'
    BY <2>1, <2>2, <1>a DEF SpOK, At, Outside
  <2>4. QED
    BY <2>1, <2>3, <1>0 DEF Pcs
<1>7. CASE Copy
  <2>1. /\ Moved /\ pc = "copy" /\ UNCHANGED asm
        /\ pc' = "copy" \/ (pc' = "lower" /\ sp = a + 1)
    BY <1>7, <1>m, <1>a DEF Copy
  <2>2. sp = a + 1 \/ (sp = a /\ routine \in Spills)
    BY <2>1, <1>i DEF At
  <2>3. SpOK'
    BY <2>1, <2>2, <1>a DEF SpOK, At, Outside, asm
  <2>4. QED
    BY <2>1, <2>3, <1>0 DEF Pcs, asm
<1>8. CASE Lower
  <2>1. /\ Moved /\ pc = "lower" /\ pc' = "restore" /\ UNCHANGED <<routine, torn, early>>
        /\ sp' = sp - (a + 1) - r
    BY <1>8, <1>m, <1>a, <1>s DEF Lower
  <2>2. sp = a + 1
    BY <2>1, <1>i DEF At
  <2>3. sp' \in (-r)..0
    BY <2>1, <2>2, <1>t
  <2>4. SpOK'
    BY <2>1, <2>3, <1>s DEF SpOK, At, Outside
  <2>5. QED
    BY <2>1, <2>4, <1>0 DEF Pcs
<1>9. CASE Restore
  <2>1. /\ Moved /\ pc = "restore" /\ UNCHANGED <<routine, torn, early>>
        /\ IF sp < 0 THEN pc' = "restore" /\ sp' = sp + 1 ELSE pc' = "ret" /\ sp' = sp
    BY <1>9, <1>m DEF Restore
  <2>2. sp \in (-r)..0
    BY <2>1, <1>i DEF At
  <2>3. IF sp < 0 THEN sp + 1 \in (-r)..0 ELSE sp = 0
    BY <2>2, <1>t
  <2>4. SpOK'
    BY <2>1, <2>3, <1>s DEF SpOK, At, Outside
  <2>5. QED
    BY <2>1, <2>4, <1>0 DEF Pcs
<1>10. CASE Ret
  <2>1. Moved /\ pc' \in {"lost", "c"} /\ sp' = 1 /\ UNCHANGED <<routine, torn, early>>
    BY <1>10, <1>m DEF Ret
  <2>2. SpOK'
    BY <2>1 DEF SpOK, At, Outside
  <2>3. QED
    BY <2>1, <2>2, <1>0 DEF Pcs
<1>11. QED
  BY <1>1, <1>2, <1>3, <1>4, <1>5, <1>6, <1>7, <1>8, <1>9, <1>10 DEF AsmRoutine

LEMMA TypedInit == NmiInit => Typed
<1> SUFFICES ASSUME NmiInit PROVE Typed
  OBVIOUS
<1>1. NmiTypeOK
  <2>1. 0 \in 0..Frames
    BY FramesAssumption
  <2>2. routine \in Routines /\ Args[routine] \in 1..3 /\ Saved[routine] \in 0..4
    BY RoutinesAssumption DEF NmiInit
  <2>3. 0 \in (-Saved[routine])..(Args[routine] + 1)
    BY <2>2
  <2>4. QED
    BY <2>1, <2>2, <2>3 DEF NmiInit, NmiTypeOK, Pcs
<1>2. SpOK
  BY DEF NmiInit, SpOK, At, Outside
<1>3. QED
  BY <1>1, <1>2 DEF Typed

LEMMA SpInRange ==
    ASSUME Typed
    PROVE  sp \in (-Saved[routine])..(Args[routine] + 1) /\ sp \in (-4)..4
<1>1. Args[routine] \in 1..3 /\ Saved[routine] \in 0..4
  BY Shape DEF Typed
<1>2. QED
  BY <1>1 DEF Typed, NmiTypeOK

LEMMA TypedNext == Typed /\ [NmiNext]_nmiVars => Typed'
<1> SUFFICES ASSUME Typed, [NmiNext]_nmiVars PROVE Typed'
  OBVIOUS
<1>0. /\ routine \in Routines /\ torn \in SUBSET ((-7)..3) /\ early \in BOOLEAN
      /\ frame \in BOOLEAN /\ ie \in BOOLEAN /\ vdpLimi \in BOOLEAN /\ pc \in Pcs
      /\ nmi \in {"none", "raised", "due"} /\ cnt \in 0..Frames /\ owed \in 0..Frames
      /\ SpOK
  BY DEF Typed, NmiTypeOK
<1>1. CASE UNCHANGED nmiVars
  BY <1>1, <1>0, SpInRange DEF Typed, NmiTypeOK, SpOK, At, nmiVars, vdp, wait, asm
<1>2. CASE Vblank
  <2>1. owed' \in 0..Frames
    BY <1>2, <1>0, FramesAssumption DEF Vblank
  <2>2. nmi' \in {"none", "raised", "due"} /\ frame' \in BOOLEAN
    BY <1>2, <1>0 DEF Vblank
  <2>3. UNCHANGED <<ie, vdpLimi, pc, cnt, routine, sp, torn, early>>
    BY <1>2 DEF Vblank, asm
  <2>4. QED
    BY <2>1, <2>2, <2>3, <1>0, SpInRange DEF Typed, NmiTypeOK, SpOK, At
<1>3. CASE Nmi
  <2>1. /\ nmi' = "none" /\ vdpLimi' = TRUE /\ UNCHANGED <<frame, ie, pc, cnt, owed, routine, sp>>
        /\ torn' = torn \/ torn' = torn \cup Pushed
        /\ early' \in BOOLEAN
    BY <1>3, <1>0 DEF Nmi, vdp, wait
  <2>2. Pushed \subseteq (-7)..3
    BY SpInRange DEF Pushed
  <2>3. torn' \in SUBSET ((-7)..3)
    BY <2>1, <2>2, <1>0
  <2>4. QED
    BY <2>1, <2>3, <1>0, SpInRange DEF Typed, NmiTypeOK, SpOK, At
<1>4. CASE (\E b \in BOOLEAN : SetIe(b)) \/ PollStatus \/ WaitVblanks
  <2>1. /\ UNCHANGED asm /\ pc \in Outside /\ pc' \in Outside \ {"lost"}
        /\ frame' \in BOOLEAN /\ ie' \in BOOLEAN /\ vdpLimi' \in BOOLEAN
        /\ nmi' \in {"none", "raised", "due"}
        /\ cnt' \in 0..Frames /\ owed' \in 0..Frames
    BY <1>4, OutsideStep
  <2>2. UNCHANGED <<routine, sp, torn, early>>
    BY <2>1 DEF asm
  <2>3. pc' \in Pcs
    BY <2>1 DEF Outside, Pcs
  <2>4. SpOK'
    BY <2>1, <2>2, <1>0 DEF SpOK, At, Outside
  <2>5. NmiTypeOK'
    BY <2>1, <2>2, <2>3, <1>0, SpInRange DEF NmiTypeOK
  <2>6. QED
    BY <2>4, <2>5 DEF Typed
<1>5. CASE AsmRoutine
  <2>1. /\ routine' \in Routines /\ SpOK'
        /\ torn' \in SUBSET ((-7)..3) /\ early' \in BOOLEAN /\ pc' \in Pcs
        /\ UNCHANGED <<vdp, vdpLimi, wait>>
        /\ nmi' \in {"none", "raised", "due"}
    BY <1>5, AsmStep
  <2>2. UNCHANGED <<frame, ie, vdpLimi, cnt, owed>>
    BY <2>1 DEF vdp, wait
  <2>3. PICK a : a = Args[routine']
    OBVIOUS
  <2>4. PICK r : r = Saved[routine']
    OBVIOUS
  <2>5. a \in 1..3 /\ r \in 0..4
    BY <2>1, <2>3, <2>4, RoutinesAssumption
  <2>6. /\ pc' \in Outside => sp' \in 0..1
        /\ pc' \in {"save", "restore"} => sp' \in (-r)..0
        /\ pc' = "raise" => sp' = -r
        /\ pc' = "pop" => sp' \in 1..a
        /\ pc' \in {"spill", "lower"} => sp' = a + 1
        /\ pc' = "copy" => sp' = a + 1 \/ sp' = a
        /\ pc' = "ret" => sp' = 0
    BY <2>1, <2>3, <2>4 DEF SpOK, At
  <2>7. sp' \in (-r)..(a + 1)
    BY <2>1, <2>5, <2>6 DEF Outside, Pcs
  <2>8. NmiTypeOK'
    BY <2>1, <2>2, <2>3, <2>4, <2>7, <1>0 DEF NmiTypeOK
  <2>9. QED
    BY <2>1, <2>8 DEF Typed
<1>6. QED
  BY <1>1, <1>2, <1>3, <1>4, <1>5 DEF NmiNext, Program

\* The stack pointer and the counters keep to their ranges, whatever the
\* arguments and the saved registers of the assembly routines.
THEOREM NmiTypeCorrect == NmiSpec => []NmiTypeOK
<1>1. NmiSpec => []Typed
  BY TypedInit, TypedNext, PTL DEF NmiSpec
<1>2. Typed => NmiTypeOK
  BY DEF Typed
<1>3. QED
  BY <1>1, <1>2, PTL

-----------------------------------------------------------------------------
(* Waits *)

Credit(b) == IF b THEN 1 ELSE 0

\* The frames that were seen to begin and have not been waited for yet.
Marks == Credit(vdpLimi) + Credit(nmi # "none")

OwedCovered(marks, n) == owed = 0 \/ owed + marks <= n

\* Every mark, and every NMI on its way to leave one, belongs to a frame begun
\* since the call; on entry only one raised since, for one due comes first.
WaitOK ==
    /\ pc = "enter" => OwedCovered(Credit(nmi = "raised"), cnt)
    /\ pc \in {"forget", "test", "read"} => OwedCovered(Marks, cnt)
    /\ pc = "spin" => OwedCovered(Marks, cnt + 1)
    /\ pc = "clear" => OwedCovered(Credit(nmi # "none"), cnt)

LEMMA WaitInit == NmiInit => WaitOK
BY DEF NmiInit, WaitOK

LEMMA Credits == ASSUME NEW b PROVE Credit(b) \in {0, 1}
BY DEF Credit

LEMMA WaitNext == Typed /\ WaitOK /\ [NmiNext]_nmiVars => WaitOK'
<1> SUFFICES ASSUME Typed, WaitOK, [NmiNext]_nmiVars PROVE WaitOK'
  OBVIOUS
<1>0. /\ cnt \in Nat /\ owed \in Nat /\ nmi \in {"none", "raised", "due"}
  BY FramesAssumption DEF Typed, NmiTypeOK
<1>1. CASE UNCHANGED nmiVars
  BY <1>1 DEF WaitOK, OwedCovered, Marks, nmiVars, vdp, wait
<1>2. CASE Vblank
  <2>1. /\ UNCHANGED <<pc, vdpLimi, cnt>>
        /\ owed' = (IF owed > 0 THEN owed - 1 ELSE owed)
        /\ nmi' = nmi \/ (nmi = "none" /\ nmi' = "raised")
    BY <1>2 DEF Vblank
  <2>2. owed' = 0 \/ (owed' = owed - 1 /\ owed > 0)
    BY <2>1, <1>0
  <2>3. Credit(nmi' # "none") <= Credit(nmi # "none") + 1
        /\ Credit(nmi' = "raised") <= Credit(nmi = "raised") + 1
    BY <2>1 DEF Credit
  <2>4. Credit(vdpLimi) \in Int /\ Credit(nmi # "none") \in Int /\ Credit(nmi = "raised") \in Int
        /\ Credit(nmi' # "none") \in Int /\ Credit(nmi' = "raised") \in Int
    BY DEF Credit
  <2>5. ASSUME NEW n \in Nat, NEW m \in Int, NEW k \in Int, OwedCovered(m, n), k <= m + 1
        PROVE  owed' = 0 \/ owed' + k <= n
    BY <2>2, <2>5, <1>0 DEF OwedCovered
  <2>6. QED
    BY <2>1, <2>3, <2>4, <2>5, <1>0 DEF WaitOK, OwedCovered, Marks
<1>3. CASE Nmi
  BY <1>3, <1>0 DEF Nmi, wait, WaitOK, OwedCovered, Marks, Credit
<1>4. CASE WaitCall
  <2>1. nmi' # "raised" /\ pc' = "enter"
    BY <1>4, <1>0 DEF WaitCall, Goto, Instruction, Falls, Keep
  <2>2. PICK n \in Int : cnt' = n /\ owed' = n
    BY <1>4, FramesAssumption DEF WaitCall
  <2>3. n + 0 <= n
    OBVIOUS
  <2>4. QED
    BY <2>1, <2>2, <2>3 DEF WaitOK, OwedCovered, Credit
<1>5. CASE WaitTest
  BY <1>5, <1>0 DEF WaitTest, Goto, Instruction, Falls, Keep, WaitOK, OwedCovered, Marks, Credit
<1>6. CASE Spin
  BY <1>6, <1>0 DEF Spin, Goto, Instruction, Falls, Keep, wait, WaitOK, OwedCovered, Marks, Credit
<1>7. CASE Forget("enter", "forget") \/ Forget("clear", "read")
  BY <1>7, <1>0 DEF Forget, Goto, Instruction, Falls, Keep, wait, WaitOK, OwedCovered, Marks, Credit
<1>8. CASE ReadStatus("forget", "test") \/ ReadStatus("read", "test")
  BY <1>8, <1>0 DEF ReadStatus, Instruction, Falls, Keep, wait, WaitOK, OwedCovered, Marks, Credit
<1>9. CASE (\E b \in BOOLEAN : SetIe(b)) \/ PollStatus
  BY <1>9 DEF SetIe, PollStatus, ReadStatus, WaitOK
<1>10. CASE AsmRoutine
  BY <1>10 DEF AsmRoutine, AsmCall, Save, Raise, Pop, Spill, Unspill, Copy, Lower, Restore, Ret,
               Asm, Goto, WaitOK
<1>11. QED
  BY <1>1, <1>2, <1>3, <1>4, <1>5, <1>6, <1>7, <1>8, <1>9, <1>10
     DEF NmiNext, Program, WaitVblanks, ClearVblank

\* waitVblanks(n) returns only after n frames have begun, for every n and
\* wherever the NMI falls.
THEOREM WaitsCorrect == NmiSpec => []WaitsFrames
<1>1. NmiInit => Typed /\ WaitOK
  BY TypedInit, WaitInit
<1>2. Typed /\ WaitOK /\ [NmiNext]_nmiVars => (Typed /\ WaitOK)'
  BY TypedNext, WaitNext
<1>3. Typed /\ WaitOK => WaitsFrames
  <2> SUFFICES ASSUME Typed, WaitOK, pc = "test" PROVE owed <= cnt
    BY DEF WaitsFrames
  <2>1. owed \in Nat /\ cnt \in Nat
    BY FramesAssumption DEF Typed, NmiTypeOK
  <2>2. OwedCovered(Marks, cnt)
    BY DEF WaitOK
  <2>3. Marks \in Nat
    BY DEF Marks, Credit
  <2>4. QED
    BY <2>1, <2>2, <2>3 DEF OwedCovered
<1>4. QED
  BY <1>1, <1>2, <1>3, PTL DEF NmiSpec

-----------------------------------------------------------------------------
(* The stack of the routines *)

\* The words that a routine of saved registers s has yet to restore.
Ahead(s) == {i \in (-s)..0 : pc \in {"save", "restore", "ret"} => i >= sp}

LEMMA SurvivesNext == Typed /\ Typed' /\ Survives /\ [NmiNext]_nmiVars => Survives'
<1> SUFFICES ASSUME Typed, Typed', Survives, [NmiNext]_nmiVars, Copying', ~early',
                    Args[routine'] = 3, routine' \notin Spills
             PROVE  torn' \cap ToCome' = {}
  BY DEF Survives
<1>s. PICK s : s = Saved[routine]
  OBVIOUS
<1>0. s \in 0..4 /\ s \in Int /\ sp \in Int
  BY <1>s, Shape DEF Typed
<1>n. ASSUME routine' = routine
      PROVE  ToCome' = Ahead(s)' /\ Saved[routine'] = s
  BY <1>n, <1>s DEF ToCome, Ahead
<1>t. ToCome = Ahead(s)
  BY <1>s DEF ToCome, Ahead
<1>b. ASSUME routine' = routine, Copying, ~early
      PROVE  torn \cap Ahead(s) = {}
  BY <1>b, <1>t DEF Survives
<1>1. CASE UNCHANGED nmiVars \/ Vblank
  <2>1. UNCHANGED <<pc, routine, sp, torn, early>>
    BY <1>1 DEF nmiVars, asm, Vblank
  <2>2. torn \cap Ahead(s) = {}
    BY <2>1, <1>b DEF Copying
  <2>3. QED
    BY <2>1, <2>2, <1>n DEF Ahead
<1>2. CASE Nmi
  <2>1. /\ UNCHANGED <<pc, routine, sp>> /\ Copying
        /\ torn' = torn \cup Pushed /\ ~early /\ pc # "pop"
    BY <1>2 DEF Nmi, Copying
  <2>2. torn \cap Ahead(s) = {}
    BY <2>1, <1>b
  <2>3. Ahead(s)' = Ahead(s)
    BY <2>1 DEF Ahead
  <2>4. pc \in {"spill", "copy", "lower"} => sp = 4
    BY <2>1 DEF Typed, SpOK, At
  <2>5. pc = "raise" => sp = -s
    BY <1>s DEF Typed, SpOK, At
  <2>6. Pushed \cap Ahead(s) = {}
    <3> SUFFICES ASSUME NEW i \in Ahead(s), i \in Pushed PROVE FALSE
      OBVIOUS
    <3>1. i \in (-s)..0 /\ i < sp
      BY <1>0 DEF Ahead, Pushed
    <3>2. pc \notin {"save", "restore", "ret"}
      BY <3>1, <1>0 DEF Ahead
    <3>3. pc \in {"raise", "spill", "copy", "lower"}
      BY <3>2, <2>1 DEF Copying
    <3>4. i >= -s /\ i <= 0 /\ i \in Int
      BY <3>1, <1>0
    <3>5. CASE pc = "raise"
      BY <3>5, <2>5, <3>1, <3>4, <1>0
    <3>6. CASE sp = 4
      BY <3>6, <3>4 DEF Pushed
    <3>7. QED
      BY <3>3, <3>5, <3>6, <2>4
  <2>7. QED
    BY <2>1, <2>2, <2>3, <2>6, <1>n
<1>3. CASE (\E b \in BOOLEAN : SetIe(b)) \/ PollStatus \/ WaitVblanks
  BY <1>3, OutsideStep DEF Outside, Copying
<1>4. CASE \E r \in Routines : AsmCall(r)
  BY <1>4 DEF AsmCall
<1>5. CASE Save
  <2>1. UNCHANGED <<routine, early>> /\ Copying /\ pc = "save"
    BY <1>5 DEF Save, Asm, Goto, Copying
  <2>2. torn \cap Ahead(s) = {}
    BY <1>b, <2>1
  <2>3. sp \in (-s)..0
    BY <2>1, <1>s DEF Typed, SpOK, At
  <2>4. CASE sp > -s
    <3>1. pc' = "save" /\ sp' = sp - 1 /\ torn' = torn \ {sp - 1}
      BY <1>5, <2>4, <1>s DEF Save, Asm, Goto
    <3>2. Ahead(s)' \subseteq Ahead(s) \cup {sp - 1}
      BY <3>1, <2>1, <1>0 DEF Ahead
    <3>3. QED
      BY <2>1, <2>2, <3>1, <3>2, <1>n
  <2>5. CASE ~(sp > -s)
    <3>1. torn' = torn /\ sp = -s
      BY <1>5, <2>5, <2>3, <1>0, <1>s DEF Save
    <3>2. Ahead(s) = (-s)..0
      BY <3>1, <1>0 DEF Ahead
    <3>3. Ahead(s)' \subseteq Ahead(s)
      BY <3>2 DEF Ahead
    <3>4. QED
      BY <2>1, <2>2, <3>1, <3>3, <1>n
  <2>6. QED
    BY <2>4, <2>5
<1>6. CASE Raise \/ Pop \/ Spill \/ Unspill \/ Copy \/ Lower
  <2>1. /\ UNCHANGED <<routine, early>> /\ Copying
        /\ pc \in {"raise", "pop", "spill", "copy", "lower"} /\ torn' \subseteq torn
    BY <1>6 DEF Raise, Pop, Spill, Unspill, Copy, Lower, Asm, Goto, Copying, asm
  <2>2. torn \cap Ahead(s) = {}
    BY <1>b, <2>1
  <2>3. Ahead(s)' \subseteq Ahead(s)
    BY <2>1 DEF Ahead
  <2>4. QED
    BY <2>1, <2>2, <2>3, <1>n
<1>7. CASE Restore
  <2>1. /\ UNCHANGED <<routine, early, torn>> /\ Copying
        /\ pc = "restore" /\ pc' \in {"restore", "ret"} /\ (sp' = sp + 1 \/ sp' = sp)
    BY <1>7 DEF Restore, Asm, Goto, Copying
  <2>2. torn \cap Ahead(s) = {}
    BY <1>b, <2>1
  <2>3. Ahead(s)' \subseteq Ahead(s)
    BY <2>1, <1>0 DEF Ahead
  <2>4. QED
    BY <2>1, <2>2, <2>3, <1>n
<1>8. CASE Ret
  BY <1>8 DEF Ret, Asm, Goto, Copying
<1>9. QED
  BY <1>1, <1>2, <1>3, <1>4, <1>5, <1>6, <1>7, <1>8 DEF NmiNext, Program, AsmRoutine

\* Every routine of three arguments that keeps nothing else on the stack finds
\* the registers it saved and its return address as it left them, wherever an
\* NMI falls once the arguments are read.
THEOREM SurvivesCorrect == NmiSpec => []Survives
<1>1. NmiInit => Typed /\ Survives
  BY TypedInit DEF NmiInit, Survives, Copying
<1>2. Typed /\ Survives /\ [NmiNext]_nmiVars => (Typed /\ Survives)'
  BY TypedNext, SurvivesNext
<1>3. QED
  BY <1>1, <1>2, PTL DEF NmiSpec
=============================================================================
