----------------------------- MODULE MenuLoader -----------------------------
(***************************************************************************)
(* How the menu loads a game, gameMenus/coleco/src/menu.c: from the list   *)
(* of titles through the two header checks of menu() to loadCartridgeRom   *)
(* or loadMegacartRom, with an error of the card at any read.              *)
(*                                                                         *)
(* The directory lies in the same 512K SRAM as the game, out of the way of *)
(* the load.  The SRAM is 32 banks of 16K, the unit in which files are     *)
(* counted; reads of 512 bytes are gathered into one step for each bank.   *)
(* page and fsize are unsigned chars.  Operators named Bug... are wrong    *)
(* forms of the definition that follows them.                              *)
(***************************************************************************)
EXTENDS Integers

CONSTANT
    Blocks      \* whole 16K blocks that a file on the card can have

ASSUME LoaderAssumption == Blocks \subseteq Nat

VARIABLES
    phase,      \* "dir": dirLoop, "list": drawLoop, "check" and "seek": the
                \* two headers, "cart" and "mega": loading, "game": started
    ram,        \* what each bank holds: the directory, the k-th block of
                \* the selected file, or something else
    bank,       \* 32K page of the SRAM at >8000, register of port >54
    blocks, tail,       \* size of the selected file, see Tails
    cartHeader,         \* 1: it starts with >AA55 or >55AA
    megaHeader,         \* so does the block that menu() takes for its last
    fsize,      \* size in blocks as the menu knows it
    page,       \* 32K page being loaded
    half,       \* p: 0 below >C000, 1 from there
    pos,        \* block at the read pointer of the file
    cartMask,   \* MegaCart address mask, port >59
    game        \* what was started: "none", "cart" or "mega"

file == <<blocks, tail, cartHeader, megaHeader>>
load == <<fsize, page, half, pos>>
vars == <<phase, ram, bank, file, load, cartMask, game>>

DIRECTORY_PAGE  == 14
CART_FIRST_PAGE == 1
CART_LAST_PAGE  == 15

Banks    == 0..31
DirBanks == {2 * DIRECTORY_PAGE, 2 * DIRECTORY_PAGE + 1}
Dir      == -1
Other    == -2

\* Bytes in a file beyond its whole blocks: none, less than 512, more.
Tails == 0..2

-----------------------------------------------------------------------------
(* Sizes and pages *)

\* readDir: the number of blocks, rounded up, in one byte.
SizeByte(n, t) == (n + (IF t = 0 THEN 0 ELSE 1)) % 256

\* Block k of the file has 512 bytes to read at its start.
Readable(k) == k < blocks \/ (k = blocks /\ tail = 2)

\* Port >54 keeps four bits, and its page when they are zero.
Selected(p) == IF p % 16 = 0 THEN bank ELSE p % 16

\* Of a 512K image, the first 32K has no room.
Kept(n)  == IF n = 32 THEN 30 ELSE n
Start(n) == IF n = 32 THEN 2 ELSE 0

BugFromBottom(n) == CART_FIRST_PAGE
\* The image ends with the last page.
FirstPage(n) == (CART_LAST_PAGE - ((n - 1) \div 2)) % 256

\* The bank at p.
Target == 2 * bank + half

\* The masks for the sizes accepted.
Mask(n) == IF n = 30 THEN 31 ELSE n - 1
Padded == {2, 4, 8, 16, 30}

-----------------------------------------------------------------------------
(* Returns *)

\* drawLoop selects the directory's page again.
ToList == phase' = "list" /\ bank' = DIRECTORY_PAGE

BugReload(p) == IF p > DIRECTORY_PAGE THEN phase' = "dir" /\ UNCHANGED bank
                ELSE ToList
\* loadMegacartRom failed at page p.
Return(p) == IF p >= DIRECTORY_PAGE THEN phase' = "dir" /\ UNCHANGED bank
             ELSE ToList

\* A read stops short in the bank at p, or before it.
Torn == ram' = ram \/ ram' = [ram EXCEPT ![Target] = Other]

-----------------------------------------------------------------------------
(* Actions *)

Init == /\ phase = "dir"
        /\ ram = [k \in Banks |-> Other]
        /\ bank = 1
        /\ blocks = 0 /\ tail = 0 /\ cartHeader = 0 /\ megaHeader = 0
        /\ fsize = 0 /\ page = 0 /\ half = 0 /\ pos = 0
        /\ cartMask = 15 /\ game = "none"

\* dirLoop and readDir.
ReadDir ==
    /\ phase = "dir"
    /\ ram' = [k \in Banks |-> IF k \in DirBanks THEN Dir ELSE ram[k]]
    /\ ToList
    /\ UNCHANGED <<file, load, cartMask, game>>

\* The card is gone or does not read; the menu waits for one and returns.
ReadDirFails ==
    /\ phase = "dir"
    /\ bank' = DIRECTORY_PAGE
    /\ ram' = [k \in Banks |-> IF k \in DirBanks THEN Other ELSE ram[k]]
    /\ UNCHANGED <<phase, file, load, cartMask, game>>

\* A directory is selected, or the card was removed.
Leave == /\ phase = "list"
         /\ phase' = "dir"
         /\ UNCHANGED <<ram, bank, file, load, cartMask, game>>

\* FIRE on a file of n blocks and a tail, which opens.  Blocks in the SRAM
\* are now those of some other file.
Select(n, t, c, m) ==
    /\ phase = "list"
    /\ SizeByte(n, t) # 0
    /\ SizeByte(n, t) = 1 => m = c
    /\ blocks' = n /\ tail' = t /\ cartHeader' = c /\ megaHeader' = m
    /\ fsize' = SizeByte(n, t)
    /\ bank' = CART_FIRST_PAGE
    /\ ram' = [k \in Banks |-> IF ram[k] = Dir THEN Dir ELSE Other]
    /\ half' = 0 /\ pos' = 0
    /\ phase' = "check"
    /\ UNCHANGED <<page, cartMask, game>>

\* The first 512 bytes, to >8000.
Check ==
    /\ phase = "check"
    /\ Readable(0)
    /\ ram' = [ram EXCEPT ![2 * bank] = Other]
    /\ phase' = IF cartHeader = 1 THEN "cart" ELSE "seek"
    /\ UNCHANGED <<bank, file, load, cartMask, game>>

\* 512 bytes of the last block, to >8200: a MegaCart.
Seek ==
    /\ phase = "seek"
    /\ Readable(fsize - 1)
    /\ ram' = [ram EXCEPT ![2 * bank] = Other]
    /\ megaHeader = 1
    /\ fsize' = Kept(fsize)
    /\ page' = FirstPage(fsize')
    /\ bank' = Selected(page')
    /\ half' = fsize' % 2
    /\ pos' = Start(fsize)
    /\ phase' = "mega"
    /\ UNCHANGED <<file, cartMask, game>>

\* An error, a short read, or no header: not a game.
Unrecognized ==
    /\ phase \in {"check", "seek"}
    /\ ram' = ram \/ ram' = [ram EXCEPT ![2 * bank] = Other]
    /\ ToList
    /\ UNCHANGED <<file, load, cartMask, game>>

BugNoEof == TRUE
\* f_eof, after the block at pos was read.
Eof == pos' = blocks /\ tail = 0

\* startTitle: the menu is gone.
StartTitle(kind) == phase' = "game" /\ game' = kind

\* loadCartridgeRom reads a whole block.
CartBlock ==
    /\ phase = "cart"
    /\ pos < blocks
    /\ ram' = [ram EXCEPT ![Target] = pos]
    /\ pos' = pos + 1
    /\ IF half = 0 THEN /\ half' = 1
                        /\ UNCHANGED <<phase, bank, game>>
       ELSE /\ IF Eof THEN StartTitle("cart") /\ UNCHANGED bank
               ELSE ToList /\ UNCHANGED game
            /\ UNCHANGED half
    /\ UNCHANGED <<file, fsize, page, cartMask>>

\* ... or meets the end of the file.
CartEnd ==
    /\ phase = "cart"
    /\ pos = blocks
    /\ ram' = IF tail = 0 THEN ram ELSE [ram EXCEPT ![Target] = pos]
    /\ StartTitle("cart")
    /\ UNCHANGED <<bank, file, load, cartMask>>

CartFails ==
    /\ phase = "cart"
    /\ Torn
    /\ ToList
    /\ UNCHANGED <<file, load, cartMask, game>>

\* The end of loadMegacartRom, with page p reached.
Finish(p) == IF fsize \in Padded
             THEN /\ StartTitle("mega")
                  /\ cartMask' = Mask(fsize)
                  /\ bank' = CART_FIRST_PAGE
             ELSE /\ Return(p)
                  /\ UNCHANGED <<cartMask, game>>

\* loadMegacartRom reads a whole block.
MegaBlock ==
    /\ phase = "mega"
    /\ pos < blocks
    /\ ram' = [ram EXCEPT ![Target] = pos]
    /\ pos' = pos + 1
    /\ IF half = 0
       THEN half' = 1 /\ UNCHANGED <<phase, bank, page, cartMask, game>>
       ELSE /\ half' = 0
            /\ page' = (page + 1) % 256
            /\ IF page' <= CART_LAST_PAGE
               THEN bank' = Selected(page') /\ UNCHANGED <<phase, cartMask, game>>
               ELSE IF Eof THEN Finish(page')
               ELSE Return(page') /\ UNCHANGED <<cartMask, game>>
    /\ UNCHANGED <<file, fsize>>

\* ... or meets the end of the file.
MegaEnd ==
    /\ phase = "mega"
    /\ pos = blocks
    /\ ram' = IF tail = 0 THEN ram ELSE [ram EXCEPT ![Target] = pos]
    /\ Finish(page)
    /\ UNCHANGED <<file, load>>

\* The card does not seek or read.
MegaFails ==
    /\ phase = "mega"
    /\ Torn
    /\ Return(page)
    /\ UNCHANGED <<file, load, cartMask, game>>

\* The console is reset; the SRAM keeps its contents.
Reset ==
    /\ phase' = "dir" /\ bank' = 1 /\ cartMask' = 15 /\ game' = "none"
    /\ UNCHANGED <<ram, file, load>>

Next == \/ ReadDir \/ ReadDirFails \/ Leave
        \/ \E n \in Blocks, t \in Tails, c, m \in 0..1 : Select(n, t, c, m)
        \/ Check \/ Seek \/ Unrecognized
        \/ CartBlock \/ CartEnd \/ CartFails
        \/ MegaBlock \/ MegaEnd \/ MegaFails
        \/ Reset

Spec == Init /\ [][Next]_vars

-----------------------------------------------------------------------------
(* Properties *)

\* The SRAM holds the directory, blocks and other things; registers and
\* unsigned chars keep to their widths.
TypeOK ==
    /\ phase \in {"dir", "list", "check", "seek", "cart", "mega", "game"}
    /\ ram \in [Banks -> Int] /\ bank \in 1..15
    /\ blocks \in Nat /\ tail \in Tails
    /\ cartHeader \in 0..1 /\ megaHeader \in 0..1
    /\ fsize \in 0..255 /\ page \in 0..255 /\ half \in 0..1 /\ pos \in Nat
    /\ cartMask \in 0..31 /\ game \in {"none", "cart", "mega"}

\* "The directory should be safe!": whenever the menu shows its list, the
\* page at >8000 is the directory as readDir left it, whatever was loaded
\* since, how far it came and where it failed.
DirectorySafe ==
    phase = "list" => bank = DIRECTORY_PAGE /\ \A k \in DirBanks : ram[k] = Dir

\* The bank of the SRAM that answers >C000 for MegaCart bank b.
Shown(b) == IF cartMask = 1  THEN 30 + (b % 2)  ELSE
            IF cartMask = 3  THEN 28 + (b % 4)  ELSE
            IF cartMask = 7  THEN 24 + (b % 8)  ELSE
            IF cartMask = 15 THEN 16 + (b % 16) ELSE b

\* Blocks of the selected file, the last one rounded up.
Image == blocks + (IF tail = 0 THEN 0 ELSE 1)

\* A MegaCart game meets in every bank it selects the block of its file that
\* a cartridge of that size would show there, and in the fixed bank at >8000
\* the last one; except in the first 32K of a 512K image, which has no room.
\* (An image of 480K is not a MegaCart: see ValidSizes.)
ImageBanked ==
    game = "mega" /\ Image # 30 =>
        /\ \A b \in Banks : Shown(b) \notin {0, 1} => ram[Shown(b)] = b % Image
        /\ ram[31] = Image - 1

\* A 32K cartridge is whole, starts at >8000 and is mapped there.
CartInPlace ==
    game = "cart" => /\ bank = CART_FIRST_PAGE
                     /\ Image \in 1..2
                     /\ \A k \in 0..(Image - 1) : ram[2 * bank + k] = k

\* "Valid sizes then are 32k, 64k, 128k, 256k, 512k."
ValidSizes == game = "mega" => Image \in {2, 4, 8, 16, 32}
=============================================================================
