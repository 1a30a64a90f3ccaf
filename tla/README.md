# Verification of the Phoenix ColecoVision core

The Phoenix is a console built around an FPGA. Its ColecoVision core
(`rtl/`, VHDL) is a Z80 machine with an F18A video processor, two sound chips,
512K of SRAM and an SD-card port; a menu (`gameMenus/coleco/src/`, C for that
Z80) reads the card, loads a game into the SRAM and starts it. This directory
holds TLA+ models of that hardware and software, the TLC configurations that
check them, and TLAPS proofs of their main properties. Paths below are relative
to the repository's root.

## 1. The system

| component | source | state | operations | talks to |
|---|---|---|---|---|
| CPU bus, memory map, MegaCart | `rtl/colecovision.vhd` | loader and SGM enables, SRAM bank, banking mode, upper-memory mode, MegaCart mask, bank and masked bank | memory and I/O cycles, ports >53, >54, >55, >59, >7F, reads of >FFC0 up, reset | every device, through selects decoded from the bus; the CPU through its clock enable |
| SD-card SPI port | `rtl/peripheral/sdcard.vhd` | shift register, bit count, divider, SCLK, wait | IN and OUT of port >57, select and clock in port >56 | stops the CPU clock; the card, by SPI |
| SRAM controller | `rtl/ext512x8sram.vhd` | two-state cycle | read, write | CPU bus, SRAM chip |
| Controllers | `rtl/peripheral/cv_ctrl.vhd` | synchronisers, RC filters, quadrature latch, mode | select keypad or stick, read, interrupt | CPU bus, INT |
| PS/2 keyboard, SNES pad | `rtl/peripheral/ps2kbd.vhd`, `keyboard.vhd`, `snespad/` | shift registers, timeouts, key matrix | receive a code, poll a pad | controllers |
| Sound chips | `rtl/audio/*.vhd` | registers, dividers | write, read | CPU bus; the SN76489 stops the CPU clock |
| F18A | `rtl/f18a/*.vhd` | registers, VRAM address, status, GPU | host port, GPU, picture | CPU bus, NMI |
| Clocks and reset | `rtl/phoenix_top.vhd` | CPU clock divider, reset counter | power on, soft reset | everything |
| T80 | `rtl/t80/*.vhd` | Z80 registers, machine cycle | instructions | CPU bus |
| Frame interrupt, assembly routines | `gameMenus/coleco/src/crt0_bios.s`, `vdp_memcpyfast.c`, `fatFs/diskio_rcvrmmc.c` | the mark in `vdpLimi`, the stack | NMI handler, copies between memory, VRAM and card | F18A, everything in C |
| Boot and configuration | `gameMenus/coleco/src/phoenixBoot.c` | options, controller values | configuration menu, cartridge header, hand-over to the BIOS | ports >53 .. >59, the menu |
| Game menu | `gameMenus/coleco/src/menu.c` | path, list of titles in the SRAM, cursor, files | read and sort a directory, move, open a directory, load a game | FatFs, SRAM, F18A |
| SD-card driver | `gameMenus/coleco/src/fatFs/diskio_*.c` | card status and type | commands, block reads, initialisation | SPI port |
| FatFs | `gameMenus/coleco/src/fatFs/ff_*.c` | volume, file, directory, the window of one sector | mount, open, read, seek, list a directory | driver |
| ROM loader | `ROMs/romloader/src/main.c` | the state of card, cartridge and stick, the type of the card | detect, debounce, initialise, read a sector, start a cartridge | a card, by the SPI port; VDP |
| SD loader | `ROMs/loader/src/` | directory and file positions, the sector buffered, the flash | find and read files, update the core, start BIOS and multicart | a card, the flash |
| Other ROM programs, utilities, deprecated code | `ROMs/`, `Utils/`, `deprecated/` | | | not part of the machine's build, or host tools |

What is hard in this code:

* **Two clocks and one CPU.** Everything runs from 25MHz; the CPU advances every
  seventh clock unless the SD port, the sound chip or the wait generator stop
  it. Registered waits arrive a clock late, so correctness depends on phases.
* **A memory map that changes under the program.** Reading port >55 removes the
  ROM the CPU executes from. Bank registers take effect a tick after the access.
* **An interrupt that cannot be masked.** The frame NMI reaches the program at any
  instruction, and its assembly routines move the stack pointer above their own
  return address.
* **One SRAM for everything.** The Super Game Module's RAM, the menu's
  directory and the game being loaded share 512K; sizes are counted in unsigned
  chars, pages in four-bit registers that ignore zero.
* **Partial failure.** The card can fail at any read, half way through a load, a
  directory, a chain of clusters, or the update of the flash the machine boots from.
* **Cards that change.** The card can be pulled out, or exchanged, at any instruction,
  and is looked at seldom. Whether what is known of a card (its type, the volume, the
  open file, the sector in a buffer, the list on the screen) is still about the card
  in the slot is decided from flags in five places.
* **One buffer for several things.** FatFs and the SD loader keep sectors of the boot
  record, of the allocation table and of directories in one buffer, and decide from a
  number which of them is there.
* **Data from outside.** Chains of clusters and directories are what other machines
  have left on the card: loops, ends that come early, long names without a file.
* **Unsigned chars** as list indices and page numbers, near their limits.

What makes each component correct: the bus decodes to exactly the device the map
says, whatever was last written to its ports, and protects what it should; the
SPI port exchanges one byte for one instruction; the driver takes a card for what it
is and reads the sectors asked for; a file read is the file opened, from where it was
asked, and a directory lists each of its files once; the menu shows the folder its
path names, opens the file selected, and has its cursor on the screen and on a title;
an interrupt leaves whatever it interrupts as it was; a started game finds its image
in the banks it selects and a game that does not start leaves the menu as it was; the
flash is touched only for a core that is there, and is whole when the loader says so.
Each of these is to hold whatever fails on the way, and every call is to return.

How the modules fit together. They form a chain, each taking as given what the one
before it shows: `SdSpi` exchanges bytes; `SdDriver` makes block reads of byte
exchanges, and its `disk_read` either fails or returns the sectors of the card that
`disk_initialize` found; `FatFile` and `FatDir` take a read of a sector to be just
that, and show that files and directories are what the card holds, or an error;
`MenuFlow` takes calls of FatFs to be just that, and `MenuLoader` and `MenuCursor` are
the two parts of it that work on the SRAM and on the screen; `PhoenixBus` is the
machine they run on, `FrameNmi` the interrupt that reaches them.

## 2. The modules

| module | models | proofs |
|---|---|---|
| `PhoenixBus`, `MCPhoenixBus` | memory map, extended ports, MegaCart banking | `Machine_proofs` |
| `ByteExchange` | what port >57 promises a program (abstract) | |
| `SdSpi`, `MCSdSpi` | the SPI port, CPU clock gate, I/O cycle and card; implements `ByteExchange` | `SdSpi_proofs` |
| `MenuCursor`, `MCMenuCursor` | the title list's cursor, paging and highlight bar | `Menu_proofs` |
| `MenuLoader`, `MCMenuLoader` | loading a game from the card, and the directory beside it | `MenuLoader_proofs` |
| `FrameNmi`, `MCFrameNmi` | the frame interrupt, `waitVblanks`, the stack of the assembly routines | `Machine_proofs` |
| `SdCard` | an SD or MMC card that may fail (external) | |
| `SdDriver`, `MCSdDriver` | `disk_initialize`, `disk_read`, `disk_status` and what they call, with an `SdCard` | `SdDriver_proofs` |
| `ByteFile` | what `f_open`, `f_read` and `f_lseek` promise a program (abstract) | |
| `FatFile`, `MCFatFile` | those calls and `f_mount`, with their caches of sectors; implements `ByteFile` | `FatFile_proofs` |
| `FatDir`, `MCFatDir` | `f_opendir`, `f_readdir`, `dir_find`: long and short names | `Menu_proofs` |
| `MenuFlow`, `MCMenuFlow` | `menu()`: card, folders, reading and sorting of titles, opening of a file | `Menu_proofs` |
| `RomLoader`, `MCRomLoader` | the ROM loader, with an `SdCard` | `RomLoader_proofs` |
| `Loader`, `MCLoader` | the SD loader: update of the core, BIOS and multicart, FAT reader | `Loader_proofs` |

Names follow the source; an operator named `Bug...` is a wrong form of the
definition after it, kept to show that a property notices that bug. Where modules are
proved side by side in one, the general names of all but one begin with their own:
`NmiInit`, `NmiNext`, `NmiSpec` and `NmiTypeOK` in `FrameNmi`, `CursorInit` to
`CursorTypeOK` in `MenuCursor`, `DirInit` to `DirTypeOK` in `FatDir`.

### PhoenixBus

Variables are the registers of `colecovision.vhd` (without `_r`) and watched
cells of the SRAM and of the ColecoVision's 1K RAM. A step is a tick of the
3.58MHz enable. The CPU drives a request (`Drive`), may be held by a slow device
(`Hold`, I/O only), and completes it (`Complete`); every register takes its next
value (`..._x`, as in the source) at every tick; `Reset` can cut a write off in
one RAM and not in the other. The program is arbitrary: any memory or I/O access
of the given sets, in any order.
`staged` is a history variable: the bytes at >6000 .. >63FF written by the
loader, which both RAMs behind that address must hold for the code there to
survive the read of port >55.

The T80 is represented by its bus cycle (request one tick at least after
another). VDP, sound and controller selects have no effect on this state and are
left out. The contents of a RAM after power-on are arbitrary.

### SdSpi and ByteExchange

A step of `SdSpi` is one 25MHz clock: the state machine (`Idle`, `Clk1`,
`Clk0`, `WaitEoc`), its divider, the register stage for the card select, the
card (SPI mode 0), the CPU clock divider, and the I/O cycle of the T80, which
shows a read for two CPU clocks and a write for one. Bits are named by their
origin, since the port never looks at them. `Reset` comes at any clock.
`ByteExchange` is the promise: one request, one byte each way, over only after
the exchange. The refinement mapping shows the shift register as the answer while
the port is in `wait_eoc` for the request.

### MenuCursor

`getUserSelection`, `drawTitles`, `drawSelect`, `undrawSelect` on `listSize`,
`listOffset`, `listSelect` (unsigned chars, modulo `Width`) and the background of
every screen row. Blanking, auto-repeat and palettes are left out.

### MenuLoader

The control of `menu()` from `dirLoop` on, of `loadCartridgeRom` and
`loadMegacartRom`, on the 32 banks of the SRAM. A bank holds the directory, the
k-th block of the selected file, or something else; reads of 512 bytes are one
step for each 16K bank, and an error may come before, within or after any of
them. Sizes pass through the byte in which `readDir` keeps them, pages through an
unsigned char and the four-bit register of port >54. A file is its number of whole
blocks, a tail (none, under 512 bytes, more) and whether its first and last blocks
carry a header. FatFs is external: opening a file yields it, seeking beyond the end
stops there, a read returns what is left.

### FrameNmi

The F18A's frame flag and its enable in register 1, the CPU's latch of the NMI's
edge, the handler's mark in `vdpLimi`, and the program: C code that calls
`waitVblanks` (one action per access to the mark or the status register) and the
assembly routines (one per push, pop and move of the stack pointer; the copy itself
is a step that may repeat). An NMI is taken at the end of the instruction during
which the line fell or, if the edge comes too late for that, of the next one. The
stack is a set of words an NMI has written over. `owed` and `early` are history
variables: the frames still to come in a wait, and whether an NMI fell between the
first move of the stack pointer and the last argument. In that window, a few
instructions long, no routine is safe, and `Survives` excludes it. `waitVblanks` is
called with the interrupt enabled only (`WaitCall`); the screen is off, without
interrupt, between `menu.c:1048` and 1069 and in `startCartridge`, where nothing
waits.

### SdDriver and SdCard

`SdDriver` is the program counter of the driver (`pc`, with `site`, the call of
`send_cmd` it is in) and its variables: `Stat`, `CardType`, the retries left, the
arguments of a read and its buffer, which holds block numbers. A step is the
exchange of one byte the driver looks at, of a command packet, of the four bytes
after a response, or of the 512 of a block; dummy bytes and delays are part of the
step beside them. Locals start afresh at every call. That `sector*512` wraps at 32
bits is left out: no card of bytes is large enough. `sel` and `fast` are the two
bits of port >56.

`SdCard` is not in the repository. It is a card of one of four kinds (version 2
with block or byte addresses, version 1, MMC), and says of each packet what such a
card does: nothing (it may miss any), a response after at most `Latency` idle bytes,
for a read the blocks from its address on, each of which may be replaced by silence
or by something that is no token, for a stop a busy line of any length. What it has
not sent is lost when it is selected again. `User` pulls the card out, or pushes
one in, at any step. `Latency < ResponseTries` is assumed: an answer that comes at
all comes within the ten bytes the driver waits, which is what SPI mode grants.

`call`, `res`, `known` and `swapped` are history variables: the current or last call,
what it returned, whether the card in the slot is the one the last initialisation
reset and did not fail with, and whether a card was moved during the call.

### FatFile and ByteFile

`FatFile` has the one FATFS and one FIL of the program, the window with the number of
the sector it is taken for, the file's own buffer with its number, the drive's status,
and a card slot. A step reads at most one sector; any read may fail, a read succeeds
only from the card that was initialised and has not left since (what `SdDriver`
shows), and `User` moves cards between any two steps. `f_mount` and `find_volume` are
`Initialize`, `Boot` and one `Scan` for each of the four partitions; `f_open` ends with
`FollowPath`, a search that is one step here and yields the entry of the file;
`f_read` is a loop of `ReadCluster` or `ReadSameCluster`, then `ReadWhole`,
`ReadSector` or `NoSector`, and `ReadPart`; `f_lseek` is `Seek`, a `SeekFollow` for each
cluster, and `SeekEnd`. The contents of a byte are named by the card, sector and offset
it comes from. A constant `Fat` gives the allocation table of each volume, any
numbers; `Chain` is what follows from it for the file, and stays defined behind the
first link that leads nowhere. A window that is not what its number says makes
`GetFat` return any number at all. `ByteFile` has an open file, a position in it and
a program's buffer: a call that succeeds has done what was asked, one that fails
loses the file until it is opened again. The refinement takes the file for lost
as soon as the volume is not the one it was opened on.

Chains and entries are what is on the card, damaged or not. An entry may have a size
and no cluster: `f_lseek` then counts no position, returns FR_OK at position 0
(`ff_lseek.c:155`), and the read that follows fails.

Left out: the fields of the boot sector (a sector is a usable FAT volume, a spoiled
one, a partition table or nothing of the kind), FAT12 and exFAT and everything that
writes, which the build of the menu does not have.

### FatDir

A directory is a sequence of slots: free, volume, label, dot, end, short entry, or part
of a long name with its number, its checksum and its text. `volume` is a volume label,
`label` one whose attributes also say hidden or system: `dir_read` takes that for a file
(`ff_dirread.c:88` compares all attributes but one), `dir_find` passes it by
(`ff_dirfind.c:86` looks at the one bit). A step is a turn of the loop of
`dir_read` or of `dir_find`, which looks at one slot, or the end of a call. `dir.loop`
is a chain that goes round, so that only `MAX_DIR` ends a search. `lfnbuf` keeps what
was in it between calls, as the static buffer does. The code pages are two operators:
`Byte`, the low byte of a character, which is what `get_fileinfo` returns, and the
comparison of equals; upper and lower case are not told apart.

The properties read a name off the directory at once: `HasLong(k, n)` says that the n
slots before slot k are all the parts of a long name for it, and `Text(k, n)` is that
name, up to its first Nul. Which of these names a call takes is a condition of its own:
`Fits` for `f_readdir`, which wants room behind the last part. `dir_find` may take any
(`AnyLong`) but is sure to take those that are `Whole`: no part but the last has a Nul, and
the last does not reach beyond `MaxLfn`. Behind the Nul of another part `cmp_lfn` compares
the rest of the name with what an earlier one left in `lfnbuf`, so that such an entry is
found or not as the buffer happens to be.

### MenuFlow

The program counter of `menu()` and its calls (`readDir`, `sortDir`, `waitSDCard`,
`getUserSelection`, `displayErrorString`), the path as a sequence of names, the titles
read, the sorted list as numbers of titles, the selection and the switch `firstScan`.
A step is a call of FatFs (which fails at will, or does what was asked on the card
mounted, if that has been in the slot since), one title read, one title sorted, one
look at the slot, or a thing the user does. `Tree` gives the folders of each card. The
size of a file passes through the byte `readDir` keeps it in, so a file can be a
folder for the rest of the code. `selection` is `listSelect`, `Leave` and `Enter` are the
ways out of a folder and into one. `Rank` counts the entries of a folder that are listed
before one, so that `TitlesOf` says of each title which entry it shows. The sorted list
has pointers to titles, as the code does: a number is the room for that title, 0 the
address 0. `Junk` is what is found where the list has no title, left from a list before
or never written: any file, folder or way up; and where `sortDir` loses a file, any
pointer comes into the list. `Move` goes anywhere in the list, since `MenuCursor`
says where the cursor goes; `Load` is the whole of loading in one step, with the outcomes
that `MenuLoader` has, which has the control.

### RomLoader

The loop of `main` with the state machines of `sd_card_detect`, `cart_detect` and
`joystick_read`, `sd_card_init` command by command with `sd_send_cmd_ex` in three steps
(select, packet, a byte of the answer each; the deselection and the byte after an answer
are part of the next selection, since a card that is not selected takes and sends nothing), and `sd_read_block`, against an `SdCard`.
`frame` is the flag in the VDP's status, which holds the NMI line, `news` whether the
NMI has run since it was looked at. `known`, `removed`, `seen` and `acted` are
history. What the contacts of cartridge and stick give is arbitrary in each pass.

### Loader

`main` of the SD loader, `FindDrive`, `FileOpen`, `FileRead` and `GetCluster`. A step
reads a boot sector, searches a sector of the root, follows a link, reads a block,
programs a page (two to a block), or erases 64K. Of the checks of a boot sector it has
where they end: `start` says whether the first sector of a card is a volume, leads to one
in its first partition (`FindVolume`), or neither.
`buffer` is what the one sector buffer holds, `index` the sector of the table it is
taken for. `mem` has the sectors read, in order; `flash` says of each page whether it is
old, erased, or which sector's half was programmed, and `mixed` where programming met
a page that was not erased. `Reset` restarts the program at any step, with any card, and
keeps the flash. `lost` is a history variable: a link could not be read.

## 3. The runs

Each run asks one question of one module. Where the types of a module are a theorem
(section 4) its run does not repeat them.

| run | instance | what it shows |
|---|---|---|
| `PhoenixBus` | two programs: five addresses below >8000 and the ports of the loader's hand-over; the upper 32K with bank selects, the banking ports and five bytes | the registers of port >55 agree and both RAMs behind >6000 hold the loader's bytes (`MapAgrees`); the loader's code reads the same after it has switched itself off (`TrampolineSurvives`); no access sees a stale bank; ROM is not written; the SGM's RAM is private |
| `SdSpi` | the board's numbers: 8 bits, slow clock 1/32, CPU 1/7 | refinement of `ByteExchange`; SPI timing (`SpiTiming`: MOSI and select are still where they must be, the slow clock is slow); every request ends |
| `MenuCursor` | 4 rows, 5-bit counters, lists of every size | one bar, on the selected row; that row is on the screen, and holding right reaches the last title, if the counter has a screen of room after the list |
| `MenuLoader` | files of 0 to 9, 15 to 17, 28 to 36, 255 to 258 and 288 blocks, any tail and headers, any sequence of loads | the directory is never shown after a load has overwritten it; started games are in place |
| `FrameNmi` | the five assembly routines, waits of up to three frames | waits end, and not before their frames have begun; `memcpy`, `memset` and `vdpmemcpyfast` survive an NMI |
| `FrameNmiSd` | the same | the first disagreement of section 5 |
| `SdDriver` | a card of each kind with four sectors, reads of one to three, at any sector and past the end | an initialised card is taken for what it is (`TypeKnown`); a read that succeeds has the right sectors of that card (`ReadsRight`); the clock is slow until the card has answered and no packet goes to a busy card (`CardRules`); every call returns |
| `FatFile` | three cards, five volumes: one file in three clusters out of order, one in a loop, one whose next cluster is free, one that ends too early, one that has a size and no cluster; a spoiled boot sector | both buffers are what their numbers say (`CachesTrue`); the current cluster is the chain's (`ClusterTrue`); refinement of `ByteFile` (`ReadsTheFile`); every call returns |
| `FatDir` | every directory of three slots of fourteen sorts, those of four that end with a first part and a file, loops, a name that is too long, one with a part behind its end, a directory longer than may be read; five names, one as long as the limit | `f_readdir` returns each file once, with the name that belongs to it (`ReadsNext`); `dir_find` finds only what has the name, and passes nothing by that has it as a short or a `Whole` long name (`FindsNamed`); both end |
| `MenuFlow` | cards with a COLECO folder and without one, with files alone, with any three of five entries in it, with more entries than the list takes, with names too long for a path or for a file | the list shown is the folder's the path names: its first entries, and each once and sorted where a folder is the first of them (`ListTrue`; section 5 says what happens where none is); the file opened is the one selected (`OpensSelected`); COLECO is entered once, from the root (`ColecoFromRoot`); the program comes back to the user (`Responds`) |
| `RomLoader` | a card of each kind, two frames of debouncing | an initialised card is ready, addressed in its unit, and the sector shown is the one wanted (`ReadsRight`); one initialisation for an insertion, one action for a push (`OnceEach`); the machine goes only to a cartridge that was there throughout (`SwapsInCart`); cards are noticed and calls end (`Responds`) |
| `Loader` | FAT16 and FAT32, with partitions or without, and a card without a volume; roots of one sector or two or of two clusters, the files there or not, cut short, or a folder of their name; two failing reads, one reset | OK is shown for a flash that holds the core and nothing else (`UpdatesWhole`); what is started was read whole (`StartsWhole`); nothing is erased without a core, no file is missed (`OpensRight`); the loader ends (`Ends`) |

The bounds. `PhoenixBus` decodes addresses by region, so one address of each
region and block that the decode tells apart suffices, and two or five bytes set
every combination of the control bits the properties depend on; the theorems hold
for all. `SdSpi` runs at full size. The 5-bit `MenuCursor` keeps the proportions of
rows to counter (a screen is less than the counter, lists may exceed it less a
screen). `MenuLoader` runs at the real sizes of memory and registers; the file
sizes are those around every threshold of the code (0, 1, 2 blocks, powers of two,
30 to 36 where the first page wraps, 255 to 258 where the size does, 288 which
looks like 512K). `FrameNmi` has the arguments and saved registers of the real
routines; the program waits for three frames at most. `SdDriver` makes two attempts
where the code makes 5000, 10, 1000 and 1000: enough for a loop to be left after its
first pass, after its last, and by exhaustion, which is all its result depends on; a sector is
two units long, so that an address in the wrong unit is that of another place; three
blocks have a first, a middle and a last. `RomLoader` does the same with its loops of
255 and 25000, and its sector is the second of three; the cartridge and the stick share
with the card only the pass of the loop they are looked at in, and are at rest while
there is a card (`Apart`). `FatFile` has sectors of two bytes and clusters of one or two
sectors: a file of five sectors has a cluster boundary, a sector boundary within a
cluster and a part of a sector, reads of up to four bytes reach across each, and seeks
go on, back and beyond the end; two mounts let a file be stale. `MaxMounts` bounds
`Fsid`, 16 bits in the code, whose overflow would need 65536 mounts between opening
and reading. `FatDir` has segments of two characters where the code has 13 and names
of five where it has 127: a name has one, two or three parts, of which the last
is full, ends in the slot or has no room. A directory has up to six slots where the code
stops after 65536, and one of seven is cut. `MenuFlow` has four titles where the code
has 255, and lists of up to that; names whose order is equal; paths whose limit falls
between two folders and between a folder and its file; a card of the third kind is not
exchanged for another (`Apart`), the two others are at any time. `Loader` has clusters
of two sectors, tables of four links, a core of three blocks in a flash of eight
pages; `MaxFails` and `MaxResets` bound what goes wrong, and suffice for a failure
in an update after one that was cut short.

Fairness. `SdSpi` assumes that clocks keep coming (`WF_vars(Tick)`): the
oscillator is not gated. `MenuCursor` assumes, for `RightReachesEnd` alone, that a
program that loops goes on and that its user does hold the stick. `FrameNmi` assumes
that frames keep coming, that the CPU runs and takes its NMIs; nothing is assumed
about when. `SdDriver`, `FatFile`, `FatDir`, `MenuFlow` and `Loader` assume that the
program runs (`WF_vars` of its steps): that a call returns asks nothing of the card, and
that the menu comes back asks nothing of its user. `RomLoader` assumes that the program
runs and that the VDP shows frames. No other property needs any. Deadlock is checked
in every run but those of `MenuFlow`, `RomLoader` and `Loader`, where a game, a
cartridge or the core that was written takes over and the program stops.

## 4. The theorems

All are proved for every value of the constants, from the assumptions named beside
the constants and nothing else.

| module | theorem | property |
|---|---|---|
| `Machine_proofs` (`PhoenixBus`) | `TypeCorrect`, `ModesCorrect`, `MirrorCorrect`, `MapCorrect`, `BankCorrect`, `TrampolineCorrect`, `RomCorrect`, `SgmCorrect` | `TypeOK`, `ModesAgree` and `Mirrored` (together `MapAgrees`), `BankSettled`, `TrampolineSurvives`, `RomStable`, `SgmPrivate` |
| `SdSpi_proofs` | `TypeCorrect`, `ExchangeCorrect`, `MosiCorrect`, `SelectCorrect`, `SlowCorrect`, `TimingCorrect` | `TypeOK`, `ExchangesBytes`, `MosiStable`, `SelectStable` and `SlowEnough` (together `SpiTiming`) |
| `Menu_proofs` (`MenuCursor`) | `CursorTypeCorrect`, `CursorCorrect`, `BarCorrect` | `CursorTypeOK`, `CursorOnScreen`, `OneBar` |
| `Menu_proofs` (`MenuFlow`) | `FlowInvariant`, `ListCorrect`, `OpensCorrect`, `ColecoCorrect` | `FlowInv`, `ListTrue`, `OpensSelected`, `ColecoFromRoot` |
| `MenuLoader_proofs` | `TypeCorrect`, `DirectoryCorrect`, `MegaCorrect`, `CartCorrect` | `TypeOK`, `DirectorySafe`, `ImageBanked`, `CartInPlace` |
| `Machine_proofs` (`FrameNmi`) | `NmiTypeCorrect`, `WaitsCorrect`, `SurvivesCorrect` | `NmiTypeOK`, `WaitsFrames`, `Survives` |
| `SdDriver_proofs` | `TypeCorrect`, `KnownCorrect`, `ReadsCorrect`, `SlowCorrect`, `BusyCorrect`, `RulesCorrect` | `TypeOK`, `TypeKnown`, `ReadsRight`, `SlowToIdle` and `NotWhileBusy` (together `CardRules`) |
| `Menu_proofs` (`FatDir`) | `DirInvariant`, `ReadsCorrect`, `FindsCorrect` | `DirInv`, `ReadsNext`, `FindsNamed` |
| `FatFile_proofs` | `CachesCorrect`, `ClusterCorrect`, `ReadsCorrect` | `CachesTrue`, `ClusterTrue`, `ReadsTheFile` |
| `RomLoader_proofs` | `Invariant`, `ReadsCorrect`, `SwapCorrect`, `OnceCorrect` | `IInv`, `ReadsRight`, `SwapsInCart`, `OnceEach` |
| `Loader_proofs` | `Invariant`, `UpdatesCorrect`, `StartsCorrect`, `OpensCorrect` | `IInv`, `UpdatesWhole`, `StartsWhole`, `OpensRight` |

How the proofs go.

* **PhoenixBus.** `BankSettled` is not inductive: that a request never meets the
  lag between `mc_bank` and `mc_addr` needs that a bus cycle starts only after
  a tick without a request. `Mirrored` needs that whatever is written at
  >6000 .. >63FF while the loader runs goes to both RAMs, and that no access to the
  upper memory reaches the SGM's page except under an image of 512K.
* **SdSpi.** The invariant has a part for each concern: `HandshakeInv` (wait_n and
  state agree with the request, so the CPU goes on only in `wait_eoc`),
  `SelectInv` (the card select is a clock behind and still while a byte moves),
  `ClockInv` (where SCLK and the divider are in each state), `ShiftInv`, `CardInv`
  and `HeardInv` (how many bits have crossed, and which), and `SinceInv` (how long
  SCLK has been still). Steps are split into a beat, in which the state machine
  moves, a lull, in which the divider holds it, and the CPU's step. Each part is
  preserved from the parts before it.
* **MenuCursor.** The offset is that of a title and the selection within a screen
  of it; a short last page is corrected when the list is drawn. `CursorOnScreen`
  is about lists that leave the counter a screen of room; for longer ones it is
  false (section 5). `OneBar` holds for all.
* **MenuLoader.** `SafeInv` says when the directory is whole during a load: below
  page 14, and at page 255, which only files of 33 and 34 blocks start at and which
  leads through page 0, where the hardware stays at page 15. `ImageInv` counts the
  blocks in place from the bank where an image of that size begins, and derives at
  the end of the file that its length is what the list said, although the list
  keeps it modulo 256.
* **FrameNmi.** `SpOK` says where the stack pointer is at each point of a routine.
  `WaitOK` counts marks: the mark in `vdpLimi` and an NMI on its way each belong to
  a frame begun since the call, once the call has forgotten the mark, so frames
  owed and marks together never exceed the count left. On entry a latched NMI may
  be older, but it is due at the next instruction and its mark is forgotten.
  `Survives` is inductive given `SpOK`: below the stack pointer, or in the three
  words of arguments, an NMI meets nothing that is still needed.

* **SdDriver.** The invariant is proved in three layers. `CoreInv` is types, the site
  of each place (`SiteInv`) and `QuietInv`: from the selection of a card to its
  response nothing else comes from it, because selection drops what it was sending
  and `wait_ready` outlasts its being busy; without that an old byte could be taken
  for an answer. `InitInv` follows an initialisation: once CMD0 is answered, the card
  that serves is the one that answered (`ServeInv`), since another would have to be
  reset first; what it has answered since tells its kind (`FoundInv`), and afterwards
  `CardType` does (`KnownInv`). A lost CMD8 or CMD55 sends the driver down another
  branch, where a card that addresses blocks never leaves its idle state.
  `ReadInv` follows a read: the block on its way is the first one plus those read
  (`SendInv`), and those read are in their places (`FillInv`). A card that was
  changed between two calls does not answer CMD17, which is why a stale `CardType`
  does no harm (`MineInv`).

* **FatFile.** Three layers, each proved given the ones before. `CacheInv` has the
  types, what is mounted and open at each place (`PhaseInv`), that what is left of a
  call leads beyond neither the file nor the buffer (`RoomInv`), and the two properties
  of the buffers. `WindowTrue` holds because `check_fs` forgets the window before each
  of its reads, and a read that succeeds while a volume is mounted is of the card
  that was initialised for it; `BufferTrue` because a read into the buffer that fails
  leaves the object with an error. `ClusterInv` is `ClusterTrue` with the cases of a
  call in progress: while `f_lseek` counts, the position is a multiple of a cluster
  and the current cluster that of the byte after it, also behind a damaged link,
  where `GetFat` yields what `Chain` has there; a seek into the current cluster keeps
  it, because both positions are counted from the byte before. `BufInv` says which
  sector the file's buffer holds: once a position lies within a sector, the buffer is
  that sector of the file, whichever of `f_read` and `f_lseek` put it there.
  `ReadInv` joins them, and the refinement takes each step to a `Deliver`, a
  `Begin`, a `Succeed`, a `Fail` or a stutter of `ByteFile`. That a byte is the file's
  is arithmetic of sectors and clusters (`ByteAfter` and the lemmas before it). The
  assumption on `Chain` is that it is defined up to the end of the file, which holds
  for any table: behind a link that is no cluster it is 1.

* **RomLoader.** The layers of `SdDriver` in small: `CoreInv` has the types, the place in
  each call and `QuietInv` (what comes after a packet is the answer to it); `TypeInv`
  says at each step of the initialisation what is known of the card (`FoundInv`), where
  an answer that was lost leads down the branch of another kind of card, and that no
  voltage was offered before CMD8 (`OfferInv`); `ReadInv` follows the one block
  (`SendInv`). `PadsInv` ties the debounce counters to what was seen, which gives
  `OnceEach`, and `SwapsInCart` is inductive with it. The run keeps cartridge and stick
  at rest while there is a card (`Apart`); the theorems do not.

* **Loader.** The theorems rest on `Volume`, an assumption about the cards: the root is a
  directory in which a name stands once, and the links lead along the chain of a file,
  which has a cluster for every sector of its size. That is what a formatted card is and
  what `Loader` reads of one; a file cut short is a smaller one, not a broken chain. The
  code checks none of it. The invariant is types, the stage `main` is at (`Stages`)
  and, as long as no link was lost and no FAT32 root is longer than a cluster (the two
  conditions the properties have), five parts: what is in the one buffer (`ReaderOK`),
  what the search has passed (`SearchOK`), at which sector of the chain the reader is
  (`PlaceOK`), that what was read is in its place (`MemOK`), and what is in the
  flash, page by page, while it is erased and programmed (`FlashOK`), whatever an update
  that was cut short has left there.

* **MenuFlow.** `FlowInv` says what the list is at each stage. While `readDir` reads, the
  titles are those of the entries before `pos` (`ReadOK`): their number is `Rank`, which
  grows with each entry that is not hidden (`RankGrows`). While `sortDir` sorts, the list
  holds the numbers of the titles it has come to, in order (`SortOK`). That `Insert` keeps
  the order is `InsertIs`: the place it finds is one all before which stay before and all
  after which go after (`PlaceIs`), and a file that is lost behind the list's last place
  shows that the first title is no folder, which is why `InOrder` asks for one. Where the
  list is shown it is whole (`ShowOK`), and no step until the next `readDir` changes
  folder or titles, also those of calls that fail on a card that has left. That a counter
  that goes up or down stops somewhere is an induction; it is made with the least element
  of a set of numbers (`LeastNat`). `ColecoFromRoot` rests on `ScanInv`: a first
  scan that outlives its `readDir` does so because the card is gone, and then no folder can
  be opened before the next mount. The run does not exchange the third card (`Apart`); the
  theorems do. The assumption names one thing the constants need, that COLECO is a name.

* **FatDir.** Two parts of `DirInv` face each other. `RunHeld`: if a part is expected
  (`ord` is not 0xFF), the slots passed since the last part was met are a run of parts with
  falling numbers and the checksum kept in `sum`, and each agrees with the buffer;
  `f_readdir` put them there, and `dir_find` compared them with the name it looks for.
  `DueHeld`: where the first slots of a name that the call must take have been passed,
  `ord` and `sum` are those its next part has. At a file the first gives that a name taken
  is the one in the directory (`RunName`, `MatchNamed`), the second that a name that is
  there is taken (`DueHere`, `MissNamed`); and two names cannot both be the file's
  (`OneName`). That a later part does not overwrite an earlier one in the buffer is
  arithmetic of segments (`AtGrows`, `PickedAgrees`), and that the parts in the buffer make
  up the text with its Nul where it is, is `TextHeld`. `AllPassed` has the slots already
  passed, and `Begun` that nothing in use lies beyond the end. The assumption on the
  directories is the format of a slot, that a directory has one, and that the name looked
  for has no Nul and no more characters than `create_name` lets pass.

Only model-checked: liveness (`RequestEnds`, `WaitEnds`, `RightReachesEnd`, the `CallsEnd`
of `SdDriver`, `FatFile` and `FatDir`, `Ends` and both `Responds`), which is out of the
prover's reach. Every property that a run shows to hold beside these is a theorem.

## 5. Where the code and its comments disagree

Shown by a run:

* `FrameNmiSd`: `rcvr_mmc` (`diskio_rcvrmmc.c:74`) copies a block with the stack
  pointer two words above its return address; an NMI and its handler push three,
  and the routine returns to the wrong place. `memmove` has the same weakness while
  it copies downwards (`crt0_bios.s:259`), and every routine for a few instructions
  while it reads its arguments.

Stated as properties that no run checks, since they are false of the code; adding
one to the configuration named shows how:

* `RowOnScreen` (`MenuCursor.cfg`): with 255 titles, paging right wraps `listSelect` but
  not `listOffset` (`menu.c:911`), and the bar is computed far off the screen.
* `StripesRestored` (`MenuCursor.cfg`): erasing the highlight uses the parity of the row,
  drawing that of the title (`menu.c:830` and 466): after an odd scroll the erased row
  keeps the wrong stripe.
* `ValidSizes` (`MenuLoader.cfg`): 512K images are handled as 30 blocks (`menu.c:703`), so
  an image of 480K is accepted as well (line 782), with every bank two blocks off.
* `KeepsRunning` (`RomLoader.cfg`): "There is NO VDP ACCESS in this NMI, which makes it
  safe to have enabled all the time", but a frame that begins between the read of the
  status and the copy of the counter (`romloader/src/main.c:1260` and 1261) leaves
  its flag set and its count taken for seen: no NMI comes again and the loop stands
  still.

Met while modelling, and kept in the models as the code has it:

* `sortDir` (`menu.c:546`): a file that goes before everything in a list without a
  folder leaves the loop with `idx` 255 and is stored nowhere it is looked for, although
  line 510 says that wherever the loop exits is where it is stored. Any folder below
  the root has `..`, so only a card whose root has neither a folder nor COLECO is
  affected. What comes into the list instead is whatever pointer was there before. `ListTrue`
  asks for the order only where the first title is a folder; without that condition the card `<<"files">>` of `MCMenuFlow` violates it.
* The size byte of a title is 0 for a file of no bytes and of a multiple of 4MB
  (`menu.c:416`), which are then folders.
* The comment of `mystrcmp` (`menu.c:313`) says underscores count as spaces; `_` has bit 6
  set, so the branch that does it is not reached.
* The root of an empty card fails as "Failed to open directory" (`menu.c:1020`); "No files
  found" (1032) is not reached.
* `getUserSelection` returns 0 for a card that is gone (`menu.c:859`), and `menu()` looks at
  the slot once more (1098): if the card is back by then the first title is taken to
  be selected. It is a title of that list, and the calls on it fail.
* `waitSDCard` passes 0xe2 to `handleBlanking` (`menu.c:608`) as `menu()` does, although
  the list is not on the screen.
* A long name of 126 or 127 characters is listed by its short one
  (`ff_picklfn.c:69`), and one of 127 is not found by `dir_find` either, since the Nul in
  its last part counts as a character (`ff_cmplfn.c:59`). A name is listed by the low bytes
  of its characters, by which it is then not found. An entry whose long name has a part
  behind its end is listed, but found only if the buffer holds that part by chance.
* A volume label that is also hidden or a system file is listed by `f_readdir`
  (`ff_dirread.c:88`) and not found by `dir_find` (`ff_dirfind.c:86`), so that it cannot
  be opened.
* `romloader/src/main.c`: HCS is sent with the first ACMD41 only, though lines 719 and 720
  say that without it a card never becomes ready; a card that is ready at the last of
  its attempts is refused (`wait == 0`, line 749); the comment at 1018 wants AA55h or
  55AAh of a cartridge, the code looks at the first byte.
* The SD loader (`ROMs/loader/src`): with a FAT32 root of two clusters or more, bytes of the
  directory are followed as links (`fat.c:98` and 228); a link that cannot be read is
  cluster 0, and `FileRead` still succeeds (303); a card that is gone hangs `FileOpen`
  in a FAT32 root (274); a directory sector that cannot be read is not noticed (241);
  the sizes of core and BIOS are not looked at (`main.c:337` and 399, comments); a read
  that fails during an update (364) leaves the flash erased. The properties of `Loader`
  exclude the first two (`OneCluster`, `lost`) and hold in spite of the others.

## 6. Not modelled

Hazards without a property: the window while an assembly routine raises the stack
pointer (`crt0_bios.s:146`) and the extra word of `memmove` (259), which `Survives`
excludes by its condition; the checksum that is discarded (`diskio_rcvrdatablock.c:43`),
a matter of the card's bytes, which the models name and do not count. Nor has a property
that holds been found where the code does not handle its hazard: the counters that wrap
with 255 titles (`menu.c:911`) and the stall of the ROM loader
(`romloader/src/main.c:1261`), both above; a card exchanged for another while
`sd_card_init` works (`romloader/src/main.c:984`), which is shown as ready, uninitialised,
and of which `ReadsRight` says nothing (`known`); a link that cannot be read
(`loader/src/fat.c:303`), after which the rest of a file is read from elsewhere (`lost`).
Of two more a property covers a part only: the index of the table is forgotten when
`FileOpen` starts, and not on its way to a second cluster of a FAT32 root (`fat.c:98`,
`OneCluster`); and `Ends` is about a card that is gone for some reads, not for good
(`fat.c:274`, `MaxFails`).

Components, and why they are left:

* **Controllers, PS/2 keyboard, SNES pad.** Their outputs are arbitrary inputs of every
  program here. What the spinner interrupt must do is said by programs that the
  repository does not hold.
* **SRAM controller, clocks and reset.** Two states, and counters: `PhoenixBus` and
  `SdSpi` have the access within a tick, the clock enable and the resets at any step.
  The rest is the timing of chips.
* **F18A beyond its frame flag, T80, sound, video output.** Third-party cores, or data
  paths without a protocol of their own; the bus cycle, the NMI and the wait that the
  rest relies on are in `PhoenixBus`, `FrameNmi` and `SdSpi`.
* **FatFs.** The tables of Unicode and the code pages, the fields of the boot sector,
  FAT12, exFAT and writing; `follow_path` is one step in `FatFile`, and a search in one
  directory in `FatDir`.
* **Boot and configuration** (`phoenixBoot.c`). The configuration menu and the
  joystick test are screens; what the hand-over needs of the memory map is in
  `PhoenixBus`, its waits in `FrameNmi`.
* **The multicart, the utilities, ROM tables, generated clocks, deprecated code.** Not
  part of the machine's build, or without behaviour.

What could follow: liveness by hand, where a measure falls with every step (the slots left
in `FatDir`, the attempts left in `SdDriver`), since the provers here have none.
