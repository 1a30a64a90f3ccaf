-------------------------- MODULE MenuLoader_proofs --------------------------
(* The menu's directory is never shown from memory a load has overwritten,  *)
(* and a started game meets its image where it selects it, for files of     *)
(* every size.                                                              *)
EXTENDS MenuLoader, TLAPS

-----------------------------------------------------------------------------
(* Pages *)

\* Every page of 32K has its two banks in the SRAM.
LEMMA TargetInBanks ==
    ASSUME NEW b \in 1..15, NEW h \in 0..1
    PROVE  2 * b + h \in Banks
BY DEF Banks

\* What port >54 makes of an unsigned char.
LEMMA SelectedPage ==
    ASSUME bank \in 1..15, NEW p \in 0..255
    PROVE  /\ Selected(p) \in 1..15
           /\ p \in 1..15 => Selected(p) = p
           /\ p = 0 => Selected(p) = bank
           /\ p = 255 => Selected(p) = 15
BY DEF Selected

\* The first page of an image, and which ones wrap below zero.
LEMMA FirstPageRange ==
    ASSUME NEW n \in 1..255
    PROVE  FirstPage(n) \in 0..255
BY DEF FirstPage, CART_LAST_PAGE

\* The next page of an unsigned char.
LEMMA NextPage ==
    ASSUME NEW p \in 0..255
    PROVE  /\ (p + 1) % 256 \in 0..255
           /\ p = 255 => (p + 1) % 256 = 0
           /\ p # 255 => (p + 1) % 256 = p + 1
OBVIOUS

\* The size of a file in an unsigned char.
LEMMA SizeByteRange ==
    ASSUME NEW n \in Nat, NEW t \in Tails
    PROVE  SizeByte(n, t) \in 0..255
BY DEF SizeByte, Tails

\* The loader's count for a file: 1 at least, and 32 no longer.
LEMMA KeptRange ==
    ASSUME NEW n \in 1..255
    PROVE  Kept(n) \in 1..255 /\ Start(n) \in {0, 2}
BY DEF Kept, Start

-----------------------------------------------------------------------------
(* Types *)

LEMMA TypeInit == Init => TypeOK
BY DEF Init, TypeOK, Banks, Other, Tails

\* What TypeOK says, by variable.
LEMMA Types ==
    ASSUME TypeOK
    PROVE  /\ ram \in [Banks -> Int] /\ bank \in 1..15
           /\ blocks \in Nat /\ tail \in 0..2
           /\ fsize \in 0..255 /\ page \in 0..255 /\ half \in 0..1 /\ pos \in Nat
           /\ cartMask \in 0..31
BY DEF TypeOK, Tails

\* The directory is in its place.
Intact == \A k \in DirBanks : ram[k] = Dir

\* The directory is whole wherever the menu could still decide to show it.
\* While a MegaCart is read that is so below page 14, and also at page 255,
\* which only a file of 33 or 34 blocks starts at, and which is followed by
\* page 0 with the hardware still at page 15.
SafeInv ==
    /\ phase \in {"list", "check", "seek", "cart"} => Intact
    /\ phase = "list" => bank = 14
    /\ phase \in {"check", "seek", "cart"} => bank = 1
    /\ phase \in {"check", "seek"} => fsize \in 1..255
    /\ phase = "mega" => /\ page < 14 \/ page = 255 => Intact
                         /\ page \in 1..15 => bank = page
                         /\ page = 0 => bank \in {1, 15}
                         /\ page = 255 => bank = 15

\* The size the list shows for the selected file.
Size == SizeByte(blocks, tail)

\* The bank where a MegaCart image of that size begins; bank 0 and 1 are
\* never loaded.
Base == 32 - Size

\* Blocks of the image are in place in the banks below n.
Placed(n) == \A k \in Banks : k >= 2 /\ k >= Base /\ k < n => ram[k] = k - Base

\* A 32K cartridge under way has its blocks in place so far; so does a
\* MegaCart of a size that will be accepted.
ImageInv ==
    /\ phase \in {"check", "seek"} => fsize = Size /\ pos = 0 /\ half = 0
    /\ phase = "cart" => /\ pos = half /\ pos <= blocks /\ Readable(0)
                         /\ half = 1 => ram[2] = 0
    /\ phase = "mega" => /\ Size # 0 /\ fsize = Kept(Size)
                         /\ pos <= blocks
    /\ phase = "mega" /\ fsize \in Padded =>
           /\ page \in 1..15
           /\ pos = 2 * page + half - Base
           /\ Placed(2 * page + half)

\* A started game is complete.
GameInv ==
    /\ game # "none" => phase = "game"
    /\ game = "cart" => /\ bank = 1
                        /\ Image \in 1..2
                        /\ ram[2] = 0
                        /\ Image = 2 => ram[3] = 1
    /\ game = "mega" => /\ Image = Size /\ fsize = Kept(Size)
                        /\ fsize \in Padded /\ cartMask = Mask(fsize)
                        /\ Placed(32)

IInv == TypeOK /\ SafeInv /\ ImageInv /\ GameInv


-----------------------------------------------------------------------------
(* Types are preserved *)

LEMMA TypeStep ==
    ASSUME TypeOK, [Next]_vars
    PROVE  TypeOK'
<1>1. 2 * bank + half \in Banks /\ 2 * bank \in Banks
  BY Types, TargetInBanks DEF Banks
<1> USE DEF ToList, DIRECTORY_PAGE, CART_FIRST_PAGE, file, load
<1>2. CASE ReadDir \/ ReadDirFails \/ Leave \/ Reset
  BY <1>2 DEF TypeOK, ReadDir, ReadDirFails, Leave, Reset, Dir, Other
<1>3. CASE \E n \in Blocks, t \in Tails, c, m \in 0..1 : Select(n, t, c, m)
  <2>1. PICK n \in Blocks, t \in Tails, c \in 0..1, m \in 0..1 : Select(n, t, c, m)
    BY <1>3
  <2>2. n \in Nat /\ SizeByte(n, t) \in 0..255
    BY LoaderAssumption, SizeByteRange
  <2> QED
    BY <2>1, <2>2 DEF TypeOK, Select, Dir, Other
<1>4. CASE Check \/ Unrecognized
  BY <1>1, <1>4 DEF TypeOK, Check, Unrecognized, Other
<1>5. CASE Seek
  <2>1. fsize \in 0..255 /\ fsize' = Kept(fsize) /\ bank \in 1..15
    BY <1>5, Types DEF Seek
  <2>2. fsize' \in 0..255 /\ pos' \in Nat /\ half' \in 0..1
    BY <1>5, <2>1 DEF Seek, Kept, Start
  <2>3. page' \in 0..255
    BY <1>5, <2>2 DEF Seek, FirstPage, CART_LAST_PAGE
  <2>4. bank' \in 1..15
    BY <1>5, <2>1, <2>3, SelectedPage DEF Seek
  <2> QED
    BY <1>1, <1>5, <2>2, <2>3, <2>4 DEF TypeOK, Seek, Other
<1>6. CASE CartBlock \/ CartEnd \/ CartFails
  BY <1>1, <1>6 DEF TypeOK, CartBlock, CartEnd, CartFails, StartTitle, Torn,
                    Target, Other
<1>7. CASE MegaBlock \/ MegaEnd \/ MegaFails
  <2>1. /\ ram' \in [Banks -> Int]
        /\ fsize' = fsize /\ half' \in 0..1 /\ pos' \in Nat
        /\ UNCHANGED file
    BY <1>1, <1>7 DEF TypeOK, MegaBlock, MegaEnd, MegaFails, Torn, Target, Other
  <2>2. page' \in 0..255
    BY <1>7, Types, NextPage DEF MegaBlock, MegaEnd, MegaFails
  <2>3. Selected(page') \in 1..15
    BY <2>2, SelectedPage, Types
  <2>4. ASSUME fsize \in Padded
        PROVE  Mask(fsize) \in 0..31
    BY <2>4 DEF Padded, Mask
  <2>5. /\ bank' \in 1..15 /\ cartMask' \in 0..31
        /\ game' \in {"none", "cart", "mega"}
        /\ phase' \in {"dir", "list", "mega", "game"}
    BY <1>7, <2>3, <2>4 DEF TypeOK, MegaBlock, MegaEnd, MegaFails, Finish,
                            Return, StartTitle
  <2> QED
    BY <2>1, <2>2, <2>5 DEF TypeOK
<1>8. CASE UNCHANGED vars
  BY <1>8 DEF TypeOK, vars
<1> QED
  BY <1>2, <1>3, <1>4, <1>5, <1>6, <1>7, <1>8 DEF Next

-----------------------------------------------------------------------------
(* The directory is safe *)

\* A write outside page 14 leaves the directory alone.
LEMMA WriteOutside ==
    ASSUME TypeOK, Intact, NEW k \in Int, k \notin DirBanks, NEW v \in Int,
           ram' = ram \/ ram' = [ram EXCEPT ![k] = v]
    PROVE  Intact'
BY DEF Intact, TypeOK, DirBanks, Banks, DIRECTORY_PAGE

LEMMA TargetOutside ==
    ASSUME bank \in 1..15, half \in 0..1, bank # 14
    PROVE  /\ Target \in Int /\ Target \notin DirBanks
           /\ 2 * bank \in Int /\ 2 * bank \notin DirBanks
BY DEF Target, DirBanks, DIRECTORY_PAGE

LEMMA SafeInit == Init => SafeInv
BY DEF Init, SafeInv

LEMMA SafeStep ==
    ASSUME TypeOK, SafeInv, [Next]_vars
    PROVE  SafeInv'
<1>1. /\ ram \in [Banks -> Int] /\ bank \in 1..15 /\ half \in 0..1
      /\ page \in 0..255 /\ pos \in Nat /\ fsize \in 0..255
      /\ blocks \in Nat /\ Other \in Int
  BY Types DEF Other
<1>2. ASSUME UNCHANGED ram
      PROVE  Intact => Intact'
  BY <1>2 DEF Intact
<1> USE DEF DIRECTORY_PAGE, CART_FIRST_PAGE
<1>3. CASE ReadDir
  <2>1. Intact' /\ phase' = "list" /\ bank' = 14
    BY <1>3 DEF ReadDir, ToList, Intact, DirBanks, Banks
  <2> QED
    BY <2>1 DEF SafeInv
<1>4. CASE ReadDirFails \/ Leave \/ Reset
  BY <1>4 DEF ReadDirFails, Leave, Reset, SafeInv
<1>5. CASE \E n \in Blocks, t \in Tails, c, m \in 0..1 : Select(n, t, c, m)
  <2>1. PICK n \in Blocks, t \in Tails, c \in 0..1, m \in 0..1 : Select(n, t, c, m)
    BY <1>5
  <2>2. Intact /\ phase' = "check" /\ bank' = 1 /\ fsize' # 0
    BY <2>1 DEF Select, SafeInv
  <2>3. Intact'
    BY <2>1, <2>2 DEF Select, Intact, DirBanks, Banks
  <2>4. fsize' \in 0..255
    BY <2>1, LoaderAssumption, SizeByteRange DEF Select
  <2> QED
    BY <2>2, <2>3, <2>4 DEF SafeInv
<1>6. CASE Check
  <2>1. Intact /\ bank = 1 /\ fsize \in 1..255
    BY <1>6 DEF Check, SafeInv
  <2>2. ram' = [ram EXCEPT ![2 * bank] = Other] /\ 2 * bank \in Int /\ 2 * bank \notin DirBanks
    BY <1>1, <1>6, <2>1, TargetOutside DEF Check
  <2>3. Intact'
    BY <1>1, <2>1, <2>2, WriteOutside
  <2> QED
    BY <1>6, <2>1, <2>3 DEF Check, SafeInv, load
<1>7. CASE Unrecognized
  <2>1. Intact /\ bank = 1
    BY <1>7 DEF Unrecognized, SafeInv
  <2>2. /\ ram' = ram \/ ram' = [ram EXCEPT ![2 * bank] = Other]
        /\ 2 * bank \in Int /\ 2 * bank \notin DirBanks
    BY <1>1, <1>7, <2>1, TargetOutside DEF Unrecognized
  <2>3. Intact'
    BY <1>1, <2>1, <2>2, WriteOutside
  <2> QED
    BY <1>7, <2>3 DEF Unrecognized, ToList, SafeInv
<1>8. CASE Seek
  <2>1. Intact /\ bank = 1 /\ fsize \in 1..255
    BY <1>8 DEF Seek, SafeInv
  <2>2. ram' = [ram EXCEPT ![2 * bank] = Other] /\ 2 * bank \in Int /\ 2 * bank \notin DirBanks
    BY <1>1, <1>8, <2>1, TargetOutside DEF Seek
  <2>3. Intact'
    BY <1>1, <2>1, <2>2, WriteOutside
  <2>4. page' \in 0..255
    BY <1>8, <2>1, KeptRange, FirstPageRange DEF Seek
  <2>5. bank' = Selected(page') /\ phase' = "mega"
    BY <1>8 DEF Seek
  <2> QED
    BY <1>1, <2>1, <2>3, <2>4, <2>5, SelectedPage DEF SafeInv
<1>9. CASE CartBlock \/ CartEnd \/ CartFails
  <2>1. Intact /\ bank = 1 /\ phase = "cart"
    BY <1>9 DEF CartBlock, CartEnd, CartFails, SafeInv
  <2>2. Target \in Int /\ Target \notin DirBanks
    BY <1>1, <2>1, TargetOutside
  <2>3. PICK v \in Int : ram' = ram \/ ram' = [ram EXCEPT ![Target] = v]
    BY <1>1, <1>9 DEF CartBlock, CartEnd, CartFails, Torn
  <2>4. Intact'
    BY <1>1, <2>1, <2>2, <2>3, WriteOutside
  <2>5. /\ phase' \in {"cart", "game", "list"}
        /\ phase' = "list" => bank' = 14
        /\ phase' = "cart" => bank' = 1
    BY <1>9, <2>1 DEF CartBlock, CartEnd, CartFails, ToList, StartTitle
  <2> QED
    BY <2>4, <2>5 DEF SafeInv
<1>10. CASE MegaBlock \/ MegaEnd \/ MegaFails
  <2>1. /\ phase = "mega"
        /\ page < 14 \/ page = 255 => Intact /\ bank # 14
        /\ page \in 1..15 => bank = page
        /\ page = 0 => bank \in {1, 15}
        /\ page = 255 => bank = 15
    BY <1>1, <1>10 DEF MegaBlock, MegaEnd, MegaFails, SafeInv
  <2>2. PICK v \in Int : ram' = ram \/ ram' = [ram EXCEPT ![Target] = v]
    BY <1>1, <1>10 DEF MegaBlock, MegaEnd, MegaFails, Torn
  <2>3. page < 14 \/ page = 255 => Intact'
    BY <1>1, <2>1, <2>2, TargetOutside, WriteOutside
  <2>4. CASE MegaEnd \/ MegaFails
    <3>1. \/ phase' = "game"
          \/ phase' = "dir"
          \/ phase' = "list" /\ bank' = 14 /\ ~(page >= 14)
      BY <2>4 DEF MegaEnd, MegaFails, Finish, Return, ToList, StartTitle
    <3> QED
      BY <1>1, <2>3, <3>1 DEF SafeInv
  <2>5. CASE MegaBlock
    <3>1. CASE half = 0
      <4>1. UNCHANGED <<phase, bank, page>>
        BY <2>5, <3>1 DEF MegaBlock
      <4> QED
        BY <1>1, <2>1, <2>3, <4>1 DEF SafeInv
    <3>2. CASE half # 0
      <4>1. /\ page' = (page + 1) % 256
            /\ page' \in 0..255
            /\ page = 255 => page' = 0
            /\ page # 255 => page' = page + 1
        BY <1>1, <2>5, <3>2, NextPage DEF MegaBlock
      <4>2. CASE page' <= 15
        <5>1. phase' = "mega" /\ bank' = Selected(page')
          BY <2>1, <2>5, <3>2, <4>2 DEF MegaBlock, CART_LAST_PAGE
        <5>2. /\ page' \in 1..15 => bank' = page'
              /\ page' = 0 => bank' = bank /\ page = 255
          BY <1>1, <4>1, <5>1, SelectedPage
        <5>3. page' < 14 => Intact'
          BY <1>1, <2>3, <4>1
        <5> QED
          BY <2>1, <4>1, <4>2, <5>1, <5>2, <5>3 DEF SafeInv
      <4>3. CASE ~(page' <= 15)
        <5>1. page' >= 14
          BY <4>1, <4>3
        <5>2. phase' = "game" \/ phase' = "dir"
          BY <2>5, <3>2, <4>3, <5>1 DEF MegaBlock, Finish, Return, StartTitle,
                                        CART_LAST_PAGE
        <5> QED
          BY <5>2 DEF SafeInv
      <4> QED
        BY <4>2, <4>3
    <3> QED
      BY <3>1, <3>2
  <2> QED
    BY <1>10, <2>4, <2>5
<1>11. CASE UNCHANGED vars
  BY <1>2, <1>11 DEF vars, load, SafeInv
<1> QED
  BY <1>3, <1>4, <1>5, <1>6, <1>7, <1>8, <1>9, <1>10, <1>11 DEF Next

-----------------------------------------------------------------------------
(* A started game is in place *)

\* The sizes that are accepted, as the list shows them.
LEMMA PaddedSizes ==
    ASSUME NEW n \in 1..255, Kept(n) \in Padded
    PROVE  /\ n \in {2, 4, 8, 16, 30, 32}
           /\ 2 * FirstPage(Kept(n)) = 32 - Kept(n)
           /\ Kept(n) % 2 = 0
           /\ FirstPage(Kept(n)) \in 1..15
           /\ Start(n) = n - Kept(n)
<1>1. n \in {2, 4, 8, 16, 30, 32}
  BY DEF Kept, Padded
<1> QED
  BY <1>1 DEF Kept, FirstPage, Start, CART_LAST_PAGE

LEMMA ImageInit == Init => ImageInv /\ GameInv
BY DEF Init, ImageInv, GameInv

\* Before it has started, and when it has failed, there is nothing to show.
LEMMA NoGame ==
    ASSUME GameInv, phase # "game", game' = game
    PROVE  game = "none" /\ GameInv'
BY DEF GameInv

LEMMA CartStep ==
    ASSUME TypeOK, SafeInv, ImageInv, GameInv,
           CartBlock \/ CartEnd \/ CartFails
    PROVE  ImageInv' /\ GameInv'
<1>1. /\ ram \in [Banks -> Int] /\ half \in 0..1
      /\ pos \in Nat /\ blocks \in Nat /\ tail \in 0..2
  BY Types
<1>2. /\ phase = "cart" /\ bank = 1 /\ game = "none"
      /\ pos = half /\ pos <= blocks
      /\ half = 1 => ram[2] = 0
      /\ blocks > 0 \/ tail = 2
      /\ UNCHANGED file
  BY <1>1 DEF CartBlock, CartEnd, CartFails, SafeInv, ImageInv, GameInv, Readable
<1>3. Target = 2 + half /\ 2 \in Banks /\ 3 \in Banks
  BY <1>1, <1>2 DEF Target, Banks
<1>4. CASE CartFails
  BY <1>2, <1>4 DEF CartFails, ToList, ImageInv, GameInv
<1>5. CASE CartEnd
  <2>1. phase' = "game" /\ game' = "cart" /\ bank' = 1 /\ pos = blocks
    BY <1>2, <1>5 DEF CartEnd, StartTitle
  <2>2. Image' = blocks + (IF tail = 0 THEN 0 ELSE 1)
    BY <1>2 DEF Image, file
  <2>3. CASE half = 0
    <3>1. blocks = 0 /\ pos = 0
      BY <1>2, <2>1, <2>3
    <3>2. tail = 2 /\ Image' = 1
      BY <1>2, <2>2, <3>1
    <3>3. ram' = [ram EXCEPT ![2] = 0]
      BY <1>3, <1>5, <2>3, <3>1, <3>2 DEF CartEnd
    <3>4. ram'[2] = 0
      BY <1>1, <1>3, <3>3
    <3> QED
      BY <2>1, <3>2, <3>4 DEF ImageInv, GameInv
  <2>4. CASE half = 1
    <3>1. blocks = 1 /\ pos = 1 /\ ram[2] = 0 /\ Target = 3
      <4>1. ram[2] = 0
        BY <1>2, <2>4
      <4>2. pos = 1 /\ blocks = 1
        BY <1>2, <2>1, <2>4
      <4>3. Target = 3
        BY <1>3, <2>4
      <4> QED
        BY <4>1, <4>2, <4>3
    <3>2. /\ tail = 0 => ram' = ram
          /\ tail # 0 => ram' = [ram EXCEPT ![3] = 1]
      <4>1. /\ tail = 0 => ram' = ram
            /\ tail # 0 => ram' = [ram EXCEPT ![Target] = pos]
        BY <1>5 DEF CartEnd
      <4> QED
        BY <3>1, <4>1
    <3>3. CASE tail = 0
      <4>1. Image' = 1 /\ ram'[2] = 0
        BY <2>2, <3>1, <3>2, <3>3
      <4> QED
        BY <2>1, <4>1 DEF ImageInv, GameInv
    <3>4. CASE tail # 0
      <4>1. Image' = 2 /\ ram' = [ram EXCEPT ![3] = 1]
        BY <2>2, <3>1, <3>2, <3>4
      <4>2. ram'[2] = 0 /\ ram'[3] = 1
        BY <1>1, <1>3, <3>1, <4>1
      <4> QED
        BY <2>1, <4>1, <4>2 DEF ImageInv, GameInv
    <3> QED
      BY <3>3, <3>4
  <2> QED
    BY <1>1, <2>3, <2>4
<1>6. CASE CartBlock
  <2>1. pos < blocks /\ pos' = pos + 1 /\ ram' = [ram EXCEPT ![Target] = pos]
    BY <1>6 DEF CartBlock
  <2>2. CASE half = 0
    <3>1. phase' = "cart" /\ half' = 1 /\ game' = game
      BY <1>2, <1>6, <2>2 DEF CartBlock, ToList
    <3>2. ram'[2] = 0 /\ pos' = 1 /\ blocks' = blocks /\ blocks >= 1
      BY <1>1, <1>2, <1>3, <2>1, <2>2 DEF file
    <3>3. Readable(0)' /\ pos' <= blocks'
      BY <1>1, <3>2 DEF Readable
    <3>4. GameInv'
      BY <1>2, <3>1, NoGame
    <3> QED
      BY <3>1, <3>2, <3>3, <3>4 DEF ImageInv
  <2>3. CASE half = 1
    <3>1. CASE Eof
      <4>1. /\ phase' = "game" /\ game' = "cart" /\ bank' = 1
            /\ blocks = 2 /\ tail = 0
        BY <1>1, <1>2, <1>6, <2>1, <2>3, <3>1 DEF CartBlock, StartTitle, Eof
      <4>2. ram'[2] = 0 /\ ram'[3] = 1
        BY <1>1, <1>2, <1>3, <2>1, <2>3
      <4>3. Image' = 2
        BY <1>2, <4>1 DEF Image, file
      <4> QED
        BY <4>1, <4>2, <4>3 DEF ImageInv, GameInv
    <3>2. CASE ~Eof
      <4>1. phase' = "list" /\ game' = game
        BY <1>6, <2>3, <3>2 DEF CartBlock, ToList
      <4> QED
        BY <1>2, <4>1, NoGame DEF ImageInv
    <3> QED
      BY <3>1, <3>2
  <2> QED
    BY <1>1, <2>2, <2>3
<1> QED
  BY <1>4, <1>5, <1>6

\* A block read into the bank at p extends the image by that bank.
LEMMA PlacedStep ==
    ASSUME ram \in [Banks -> Int], NEW n \in Banks, Placed(n), Base \in Int,
           Base' = Base, ram' = [ram EXCEPT ![n] = n - Base]
    PROVE  Placed(n + 1)'
<1>1. ASSUME NEW k \in Banks, k >= 2, k >= Base, k < n + 1
      PROVE  ram'[k] = k - Base
  <2>1. CASE k = n
    BY <2>1
  <2>2. CASE k # n
    <3>1. k < n
      BY <1>1, <2>2 DEF Banks
    <3> QED
      BY <1>1, <2>2, <3>1 DEF Placed
  <2> QED
    BY <2>1, <2>2
<1> QED
  BY <1>1 DEF Placed

\* What holds while a MegaCart of an accepted size is read.
LEMMA MegaImage ==
    ASSUME TypeOK, SafeInv, ImageInv, phase = "mega", fsize \in Padded
    PROVE  /\ Size \in {2, 4, 8, 16, 30, 32} /\ Base = 32 - Size
           /\ page \in 1..15 /\ Target = 2 * page + half
           /\ Target \in 2..31
           /\ pos = Target - Base /\ Placed(Target)
<1>1. Size \in 1..255 /\ fsize = Kept(Size)
  BY Types, SizeByteRange DEF ImageInv, Size, Tails
<1>2. Size \in {2, 4, 8, 16, 30, 32}
  BY <1>1, PaddedSizes
<1>3. page \in 1..15 /\ bank = page
  BY DEF ImageInv, SafeInv
<1>4. Target = 2 * page + half
  BY <1>3 DEF Target
<1>5. half \in 0..1
  BY Types
<1>6. Target \in 2..31
  BY <1>3, <1>4, <1>5
<1>7. pos = 2 * page + half - Base /\ Placed(2 * page + half)
  BY DEF ImageInv
<1>8. Base = 32 - Size
  BY DEF Base
<1>9. pos = Target - Base
  BY <1>2, <1>3, <1>4, <1>5, <1>7, <1>8
<1>10. Placed(Target)
  BY <1>4, <1>7
<1> QED
  BY <1>2, <1>3, <1>4, <1>6, <1>8, <1>9, <1>10

\* The file that ended exactly with the last bank, or within it, is as long
\* as the list says.
LEMMA WholeImage ==
    ASSUME blocks \in Nat, tail \in 0..2, Size \in {2, 4, 8, 16, 30, 32},
           blocks <= Size, blocks = Size => tail = 0
    PROVE  Image = Size /\ (tail = 0 => blocks = Size) /\ (tail # 0 => blocks = Size - 1)
<1>1. CASE tail = 0
  <2>1. Size = blocks % 256 /\ Image = blocks
    BY <1>1 DEF Size, SizeByte, Image
  <2>2. blocks % 256 = blocks
    OBVIOUS
  <2> QED
    BY <1>1, <2>1, <2>2
<1>2. CASE tail # 0
  <2>1. Size = (blocks + 1) % 256 /\ Image = blocks + 1
    BY <1>2 DEF Size, SizeByte, Image
  <2>2. (blocks + 1) % 256 = blocks + 1
    OBVIOUS
  <2> QED
    BY <1>2, <2>1, <2>2
<1> QED
  BY <1>1, <1>2

LEMMA MegaStep ==
    ASSUME TypeOK, SafeInv, ImageInv, GameInv,
           MegaBlock \/ MegaEnd \/ MegaFails
    PROVE  ImageInv' /\ GameInv'
<1>1. /\ ram \in [Banks -> Int] /\ half \in 0..1 /\ page \in 0..255
      /\ pos \in Nat /\ blocks \in Nat /\ tail \in 0..2
  BY Types
<1>2. /\ phase = "mega" /\ game = "none"
      /\ Size # 0 /\ fsize = Kept(Size) /\ pos <= blocks
      /\ UNCHANGED <<file, fsize>>
  BY DEF MegaBlock, MegaEnd, MegaFails, ImageInv, GameInv, load
<1>3. Size' = Size /\ Base' = Base /\ Image' = Image /\ UNCHANGED <<blocks, tail>>
  BY <1>2 DEF Size, Base, Image, file
<1>4. CASE phase' \in {"dir", "list"} /\ game' = game
  <2>1. GameInv'
    BY <1>2, <1>4, NoGame
  <2> QED
    BY <1>4, <2>1 DEF ImageInv
<1>5. CASE MegaFails
  BY <1>4, <1>5 DEF MegaFails, Return, ToList
<1>6. CASE MegaEnd
  <2>1. CASE fsize \notin Padded
    BY <1>4, <1>6, <2>1 DEF MegaEnd, Finish, Return, ToList
  <2>2. CASE fsize \in Padded
    <3>1. /\ phase' = "game" /\ game' = "mega" /\ cartMask' = Mask(fsize)
          /\ pos = blocks
          /\ tail = 0 => ram' = ram
          /\ tail # 0 => ram' = [ram EXCEPT ![Target] = pos]
      BY <1>6, <2>2 DEF MegaEnd, Finish, StartTitle
    <3>2. /\ Size \in {2, 4, 8, 16, 30, 32} /\ Base = 32 - Size
          /\ Target \in 2..31 /\ pos = Target - Base /\ Placed(Target)
      BY <1>2, <2>2, MegaImage
    <3>3. blocks < Size
      BY <3>1, <3>2
    <3>4. Image = Size /\ tail # 0 /\ blocks = Size - 1
      BY <1>1, <3>2, <3>3, WholeImage
    <3>5. Base \in Int /\ Target = 31 /\ pos = 31 - Base
      <4>1. Size \in Int
        BY <3>2
      <4>5. Base = 32 - Size
        BY <3>2
      <4>6. pos = Size - 1
        BY <3>1, <3>4
      <4>2. Target \in Int /\ pos = Target - Base
        BY <3>2
      <4>3. Base \in Int
        BY <4>1, <4>5
      <4>4. Target = 31 /\ pos = 31 - Base
        BY <4>1, <4>2, <4>5, <4>6
      <4> QED
        BY <4>3, <4>4
    <3>6. ram' = [ram EXCEPT ![31] = 31 - Base] /\ Placed(31) /\ 31 \in Banks
      BY <3>1, <3>2, <3>4, <3>5 DEF Banks
    <3>7. Placed(31 + 1)'
      BY <1>1, <1>3, <3>5, <3>6, PlacedStep
    <3>8. Placed(32)'
      BY <3>7
    <3> QED
      BY <1>2, <1>3, <2>2, <3>1, <3>4, <3>8 DEF ImageInv, GameInv
  <2> QED
    BY <2>1, <2>2
<1>7. CASE MegaBlock
  <2>1. pos < blocks /\ pos' = pos + 1 /\ ram' = [ram EXCEPT ![Target] = pos]
    BY <1>7 DEF MegaBlock
  <2>2. pos' <= blocks'
    BY <1>1, <1>3, <2>1
  <2>3. CASE fsize \notin Padded
    <3>1. \/ phase' \in {"dir", "list"} /\ game' = game
          \/ phase' = "mega" /\ game' = game
      BY <1>2, <1>7, <2>3 DEF MegaBlock, Finish, Return, ToList
    <3>2. CASE phase' = "mega" /\ game' = game
      BY <1>2, <1>3, <2>2, <2>3, <3>2, NoGame DEF ImageInv
    <3> QED
      BY <1>4, <3>1, <3>2
  <2>4. CASE fsize \in Padded
    <3>1. /\ Size \in {2, 4, 8, 16, 30, 32} /\ Base = 32 - Size
          /\ page \in 1..15 /\ Target = 2 * page + half
          /\ Target \in 2..31 /\ pos = Target - Base /\ Placed(Target)
      BY <1>2, <2>4, MegaImage
    <3>2. PICK n \in Banks : n = Target
      BY <3>1 DEF Banks
    <3>3. Placed(n)
      BY <3>1, <3>2
    <3>4. Base \in Int /\ pos = n - Base /\ ram' = [ram EXCEPT ![n] = n - Base]
      BY <2>1, <3>1, <3>2
    <3>5. Placed(n + 1)'
      BY <1>1, <1>3, <3>3, <3>4, PlacedStep
    <3>10. half' \in 0..1 /\ Base \in Int
      BY <1>1, <1>3, <1>7, <3>4 DEF MegaBlock
    <3>6. pos' = n + 1 - Base
      BY <1>3, <2>1, <3>2, <3>4 DEF Banks
    <3>7. CASE half = 0
      <4>1. phase' = "mega" /\ half' = 1 /\ page' = page /\ game' = game
        BY <1>2, <1>7, <3>7 DEF MegaBlock
      <4>2. page' \in 1..15 /\ 2 * page' + half' = n + 1
        BY <3>1, <3>2, <3>7, <4>1
      <4>3. pos' = 2 * page' + half' - Base
        <5>1. n = 2 * page /\ page' = page /\ half' = 1 /\ page \in Int
          BY <3>1, <3>2, <3>7, <4>1
        <5> QED
          BY <3>6, <3>10, <5>1
      <4>4. Placed(2 * page + half)'
        BY <3>5, <4>2 DEF Placed
      <4>5. GameInv'
        BY <1>2, <4>1, NoGame
      <4> QED
        BY <1>2, <1>3, <2>2, <4>1, <4>2, <4>3, <4>4, <4>5 DEF ImageInv
    <3>8. CASE half = 1 /\ page < 15
      <4>1. page' = page + 1
        BY <1>1, <1>7, <3>8, NextPage DEF MegaBlock
      <4>2. phase' = "mega" /\ half' = 0 /\ game' = game
        BY <1>1, <1>2, <1>7, <3>8, <4>1 DEF MegaBlock, CART_LAST_PAGE
      <4>3. page' \in 1..15 /\ 2 * page' + half' = n + 1
        BY <3>1, <3>2, <3>8, <4>1, <4>2
      <4>4. pos' = 2 * page' + half' - Base
        <5>1. n = 2 * page + 1 /\ page' = page + 1 /\ half' = 0 /\ page \in Int
          BY <3>1, <3>2, <3>8, <4>1, <4>2
        <5> QED
          BY <3>6, <3>10, <5>1
      <4>5. Placed(2 * page + half)'
        BY <3>5, <4>3 DEF Placed
      <4>6. GameInv'
        BY <1>2, <4>2, NoGame
      <4> QED
        BY <1>2, <1>3, <2>2, <4>2, <4>3, <4>4, <4>5, <4>6 DEF ImageInv
    <3>9. CASE half = 1 /\ page = 15
      <4>1. page' = 16 /\ n = 31
        BY <1>1, <1>7, <3>1, <3>2, <3>9, NextPage DEF MegaBlock
      <4>2. Eof \/ (phase' \in {"dir", "list"} /\ game' = game)
        BY <1>7, <3>9, <4>1 DEF MegaBlock, CART_LAST_PAGE, Return, ToList
      <4>3. CASE Eof
        <5>1. /\ phase' = "game" /\ game' = "mega" /\ cartMask' = Mask(fsize)
              /\ blocks = pos' /\ tail = 0
          BY <1>7, <2>4, <3>9, <4>1, <4>3 DEF MegaBlock, CART_LAST_PAGE, Finish,
                                              StartTitle, Eof
        <5>2. blocks = Size
          BY <2>1, <3>1, <3>2, <4>1, <5>1
        <5>3. Image = Size
          BY <1>1, <3>1, <5>1, <5>2, WholeImage
        <5>4. Placed(32)'
          BY <3>5, <4>1 DEF Placed
        <5> QED
          BY <1>2, <1>3, <2>4, <5>1, <5>3, <5>4 DEF ImageInv, GameInv
      <4> QED
        BY <1>4, <4>2, <4>3
    <3> QED
      BY <1>1, <3>1, <3>7, <3>8, <3>9
  <2> QED
    BY <2>3, <2>4
<1> QED
  BY <1>5, <1>6, <1>7

LEMMA ImageStep ==
    ASSUME TypeOK, SafeInv, ImageInv, GameInv, [Next]_vars
    PROVE  ImageInv' /\ GameInv'
<1>1. CASE ReadDir \/ ReadDirFails \/ Leave \/ Unrecognized
  <2>1. /\ phase # "game" /\ phase' \in {"dir", "list"}
        /\ game' = game
    BY <1>1 DEF ReadDir, ReadDirFails, Leave, Unrecognized, ToList
  <2> QED
    BY <2>1, NoGame DEF ImageInv
<1>2. CASE Reset
  BY <1>2 DEF Reset, ImageInv, GameInv
<1>3. CASE \E n \in Blocks, t \in Tails, c, m \in 0..1 : Select(n, t, c, m)
  <2>1. PICK n \in Blocks, t \in Tails, c \in 0..1, m \in 0..1 : Select(n, t, c, m)
    BY <1>3
  <2>2. /\ phase = "list" /\ phase' = "check" /\ game' = game
        /\ fsize' = SizeByte(blocks', tail') /\ pos' = 0 /\ half' = 0
    BY <2>1 DEF Select
  <2>3. GameInv'
    BY <2>2, NoGame
  <2> QED
    BY <2>2, <2>3 DEF ImageInv, Size
<1>4. CASE Check
  <2>1. /\ phase = "check" /\ phase' \in {"cart", "seek"} /\ game' = game
        /\ UNCHANGED <<blocks, tail, fsize, pos, half>> /\ Readable(0)
    BY <1>4 DEF Check, file, load
  <2>2. fsize = Size /\ pos = 0 /\ half = 0 /\ blocks \in Nat
    BY <2>1, Types DEF ImageInv
  <2>3. Size' = Size /\ Readable(0)' /\ pos' <= blocks'
    BY <2>1, <2>2 DEF Size, Readable
  <2>4. GameInv'
    BY <2>1, NoGame
  <2> QED
    BY <2>1, <2>2, <2>3, <2>4 DEF ImageInv
<1>5. CASE Seek
  <2>1. /\ phase = "seek" /\ phase' = "mega" /\ game' = game
        /\ UNCHANGED <<blocks, tail>>
        /\ fsize' = Kept(fsize) /\ page' = FirstPage(fsize')
        /\ half' = fsize' % 2 /\ pos' = Start(fsize)
        /\ Readable(fsize - 1)
    BY <1>5 DEF Seek, file
  <2>2. fsize \in 1..255 /\ fsize = Size /\ Size' = Size /\ Base' = Base
    BY <2>1 DEF SafeInv, ImageInv, Size, Base
  <2>3. blocks \in Nat /\ fsize - 1 <= blocks
    BY <2>1, Types DEF Readable
  <2>4. pos' <= blocks'
    BY <2>1, <2>2, <2>3 DEF Start
  <2>5. GameInv'
    BY <2>1, NoGame
  <2>6. ASSUME fsize' \in Padded
        PROVE  /\ page' \in 1..15
               /\ pos' = 2 * page' + half' - Base
               /\ Placed(2 * page + half)'
    <3>1. /\ fsize \in {2, 4, 8, 16, 30, 32} /\ page' \in 1..15
          /\ 2 * page' = 32 - fsize' /\ half' = 0
          /\ pos' = fsize - fsize'
      BY <2>1, <2>2, <2>6, PaddedSizes
    <3>2. Base = 32 - fsize
      BY <2>2 DEF Base
    <3>3. fsize' \in Int /\ fsize \in Int
      <4>1. fsize \in 1..255 /\ fsize' = Kept(fsize)
        BY <2>1, <2>2
      <4>2. Kept(fsize) \in 1..255
        BY <4>1, KeptRange
      <4> QED
        BY <4>1, <4>2
    <3>4. pos' = 2 * page' + half' - Base
      BY <3>1, <3>2, <3>3
    <3>5. 2 * page' + half' = 2 \/ 2 * page' + half' = Base
      BY <2>1, <3>1, <3>2, <3>3 DEF Kept
    <3>6. Placed(2 * page + half)'
      <4>1. ASSUME NEW k \in Banks, k >= 2, k >= Base, k < 2 * page' + half'
            PROVE  FALSE
        <5>1. k \in Int /\ Base \in Int
          BY <3>2, <3>3 DEF Banks
        <5> QED
          BY <3>5, <4>1, <5>1
      <4> QED
        BY <2>2, <4>1 DEF Placed
    <3> QED
      BY <3>1, <3>4, <3>6
  <2> QED
    BY <2>1, <2>2, <2>4, <2>5, <2>6 DEF ImageInv
<1>6. CASE CartBlock \/ CartEnd \/ CartFails
  BY <1>6, CartStep
<1>7. CASE MegaBlock \/ MegaEnd \/ MegaFails
  BY <1>7, MegaStep
<1>8. CASE UNCHANGED vars
  <2>1. Size' = Size /\ Base' = Base /\ Image' = Image
    BY <1>8 DEF vars, file, Size, Base, Image
  <2> QED
    BY <1>8, <2>1 DEF vars, file, load, ImageInv, GameInv, Placed, Readable
<1> QED
  BY <1>1, <1>2, <1>3, <1>4, <1>5, <1>6, <1>7, <1>8 DEF Next

-----------------------------------------------------------------------------
(* Theorems *)

LEMMA Invariance == Spec => []IInv
<1>1. Init => IInv
  BY TypeInit, SafeInit, ImageInit DEF IInv
<1>2. IInv /\ [Next]_vars => IInv'
  BY TypeStep, SafeStep, ImageStep DEF IInv
<1> QED
  BY <1>1, <1>2, PTL DEF Spec

\* The variables of the menu keep to the widths of the C types, whatever
\* the size of the file and wherever a load fails.
THEOREM TypeCorrect == Spec => []TypeOK
BY Invariance, PTL DEF IInv

\* The list is never drawn from memory that a load has written.
THEOREM DirectoryCorrect == Spec => []DirectorySafe
<1>1. IInv => DirectorySafe
  BY DEF IInv, SafeInv, Intact, DirectorySafe, DIRECTORY_PAGE
<1> QED
  BY <1>1, Invariance, PTL

\* A 32K cartridge that starts is whole and in place.
THEOREM CartCorrect == Spec => []CartInPlace
<1>1. ASSUME IInv, game = "cart"
      PROVE  /\ bank = CART_FIRST_PAGE /\ Image \in 1..2
             /\ \A k \in 0..(Image - 1) : ram[2 * bank + k] = k
  <2>1. bank = 1 /\ Image \in 1..2 /\ ram[2] = 0 /\ (Image = 2 => ram[3] = 1)
    BY <1>1 DEF IInv, GameInv
  <2>2. ASSUME NEW k \in 0..(Image - 1)
        PROVE  ram[2 * bank + k] = k
    <3>1. CASE k = 0
      BY <2>1, <3>1
    <3>2. CASE k = 1
      BY <2>1, <2>2, <3>2
    <3> QED
      BY <2>1, <2>2, <3>1, <3>2
  <2> QED
    BY <2>1, <2>2 DEF CART_FIRST_PAGE
<1>2. IInv => CartInPlace
  BY <1>1 DEF CartInPlace
<1> QED
  BY <1>2, Invariance, PTL

\* A MegaCart that starts shows in each bank the block of its image.
THEOREM MegaCorrect == Spec => []ImageBanked
<1>1. ASSUME IInv, game = "mega", Image # 30
      PROVE  /\ \A b \in Banks : Shown(b) \notin {0, 1} => ram[Shown(b)] = b % Image
             /\ ram[31] = Image - 1
  <2>1. /\ Image = Size /\ fsize = Kept(Size) /\ fsize \in Padded
        /\ cartMask = Mask(fsize) /\ Placed(32)
    BY <1>1 DEF IInv, GameInv
  <2>2. Size \in 0..255
    BY <1>1, Types, SizeByteRange DEF IInv, Size, Tails
  <2>3. Size \in {2, 4, 8, 16, 32}
    BY <1>1, <2>1, <2>2 DEF Kept, Padded
  <2>4. /\ Size = 32 => cartMask = 31
        /\ Size # 32 => cartMask = Size - 1
    BY <2>1, <2>3 DEF Kept, Mask
  <2>5. \A k \in 2..31 : k >= 32 - Size => ram[k] = k - (32 - Size)
    BY <2>1 DEF Placed, Base, Banks
  <2>6. ram[31] = Image - 1
    BY <2>1, <2>3, <2>5
  <2>7. ASSUME NEW b \in Banks, Shown(b) \notin {0, 1}
        PROVE  ram[Shown(b)] = b % Image
    <3>1. b \in 0..31
      BY <2>7 DEF Banks
    <3>2. CASE Size = 2
      BY <2>1, <2>4, <2>5, <3>1, <3>2 DEF Shown
    <3>3. CASE Size = 4
      BY <2>1, <2>4, <2>5, <3>1, <3>3 DEF Shown
    <3>4. CASE Size = 8
      BY <2>1, <2>4, <2>5, <3>1, <3>4 DEF Shown
    <3>5. CASE Size = 16
      BY <2>1, <2>4, <2>5, <3>1, <3>5 DEF Shown
    <3>6. CASE Size = 32
      BY <2>1, <2>4, <2>5, <2>7, <3>1, <3>6 DEF Shown
    <3> QED
      BY <2>3, <3>2, <3>3, <3>4, <3>5, <3>6
  <2> QED
    BY <2>6, <2>7
<1>2. IInv => ImageBanked
  BY <1>1 DEF ImageBanked
<1> QED
  BY <1>2, Invariance, PTL

=============================================================================
