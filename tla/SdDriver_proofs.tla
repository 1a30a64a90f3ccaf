-------------------------- MODULE SdDriver_proofs --------------------------
(***************************************************************************)
(* Proofs about SdDriver: whatever is lost on the way to a card and        *)
(* whenever it is changed, the driver knows the card it has initialised    *)
(* for what it is, and a read that succeeds has the right sectors.         *)
(***************************************************************************)
EXTENDS SdDriver, TLAPS

InitSites == AppSites \cup {"cmd0", "cmd8", "cmd58", "cmd1", "cmd16"}

\* The card's part of the type invariant; a block that is sent is one of its own.
CardTypes ==
    /\ kind \in Kinds /\ card \in {"absent", "native", "idle", "ready"}
    /\ prefixed \in BOOLEAN /\ busy \in BOOLEAN /\ many \in BOOLEAN
    /\ reply \in Bytes \cup {None} /\ tail \in Bytes \cup {None} /\ late \in 0..Latency
    /\ part \in {"none", "token", "data", "crc"} /\ block \in 0..Sectors
    /\ part # "none" => block < Sectors

\* The driver's part: its flags,
FlagTypes ==
    /\ sel \in BOOLEAN /\ fast \in BOOLEAN /\ prefix \in BOOLEAN
    /\ known \in BOOLEAN /\ swapped \in BOOLEAN

\* where it is and what it counts and has found,
PlaceTypes ==
    /\ pc \in Pcs /\ site \in Sites /\ d \in Bytes
    /\ tries \in 0..(ReadyTries + ResponseTries + TokenTries) /\ tmr \in 0..InitTries
    /\ Stat \in {0, STA_NOINIT} /\ CardType \in {0, 1, 2, 4, 12} /\ ty \in {0, 1, 2, 4, 12}

\* and the read in progress.
ReadTypes ==
    /\ sector \in 0..Sectors /\ asked \in 1..MaxCount /\ count \in 0..asked
    /\ buff \in [0..(MaxCount - 1) -> (0..Sectors) \cup {None}]

DriverTypes == FlagTypes /\ PlaceTypes /\ ReadTypes

\* Where each function can be, for which call.
SiteInv ==
    /\ call \in {"none", "init", "read"} /\ res \in {0, 1, 3}
    /\ call = "none" => pc = "idle"
    /\ call = "init" /\ pc # "idle" => site \in InitSites
    /\ call = "read" /\ pc # "idle" => site \in {"read", "stop"}
    /\ prefix => site \in AppSites
    /\ pc \in {"token", "data", "crc"} => call = "read" /\ site = "read" /\ count >= 1
    /\ pc \in {"select", "ready", "packet", "response", "answered"} /\ site = "read"
          => count = asked
    /\ pc = "trail" => site \in {"cmd8", "cmd58"}
    /\ pc = "stuff" => site = "stop"
    /\ pc \in {"select", "ready"} => site # "stop"
    /\ pc \in {"ready", "packet", "stuff", "response", "trail", "token", "data", "crc"} => sel
    /\ pc = "answered" /\ d # 255 => sel

\* Between the selection of a card and its response nothing else comes.
QuietInv ==
    /\ pc \in {"ready", "packet"} /\ site # "stop"
          => reply = None /\ tail = None /\ part = "none"
    /\ pc \in {"packet", "response"} /\ site # "stop" => ~busy
    /\ pc = "response" /\ site # "stop" => reply < 128
    /\ pc = "response" /\ site \notin {"read", "stop"} => part = "none"
    /\ pc = "answered" /\ site # "stop" /\ d # 255 => ~busy
    /\ pc = "trail" => ~busy

CoreInv == CardTypes /\ DriverTypes /\ SiteInv /\ QuietInv

Initialising == call = "init" /\ pc # "idle"

\* Until CMD0 is answered nothing is known of the card.
ResetInv ==
    Initialising /\ site = "cmd0" =>
        /\ ty = 0 /\ ~fast /\ ~known
        /\ pc = "response" /\ reply # None => card = "idle"
        /\ pc = "answered" /\ d = 1 => card # "ready" /\ (~swapped => card = "idle")

\* Then the card that serves is the one that answered it.
ServeInv ==
    Initialising /\ site # "cmd0" =>
        /\ Serves <=> known
        /\ ~swapped => known

Ocr == IF kind = "HC" THEN 64 ELSE 0

\* What it has answered tells what it is.
FoundInv ==
    Initialising /\ known =>
        /\ site \in {"cmd8", "probe", "acmd41v1", "cmd1", "cmd16"} /\ kind = "HC" => card = "idle"
        /\ site \in {"cmd58", "cmd16"} => card = "ready"
        /\ pc = "response" /\ reply = 0 => card = "ready"
        /\ pc = "answered" /\ d = 0 => card = "ready"
        /\ site \in {"acmd41v1", "cmd1", "cmd16"} => ty \in {0, CT_MMC, CT_SD1}
        /\ site = "cmd58" =>
              /\ pc = "response" /\ reply # None => tail = Ocr
              /\ pc = "answered" /\ d = 0 => reply = Ocr /\ late = 0
              /\ pc = "trail" => reply = Ocr /\ late = 0
        /\ pc = "end" /\ ty # 0 => card = "ready" /\ (ty >= CT_BLOCK <=> kind = "HC")

\* Between initialisations.
KnownInv ==
    ~Initialising =>
        /\ known => /\ card = "ready" /\ CardType # 0 /\ Stat = 0
                    /\ CardType >= CT_BLOCK <=> kind = "HC"
        /\ card = "ready" /\ Stat = 0 => known

InitInv == ResetInv /\ ServeInv /\ FoundInv /\ KnownInv

Reading == call = "read" /\ pc # "idle" /\ ~swapped

\* A card that stays in its slot and serves is the one that was initialised.
MineInv == Reading => /\ card = "ready" => known
                      /\ count < asked => known

\* What was read is where it belongs.
FillInv == Reading => \A i \in 0..(asked - count - 1) : buff[i] = sector + i

\* The block the driver waits for is the one that comes.
Sending == reply = None /\ known /\ block = sector + (asked - count)

SendInv ==
    Reading /\ site = "read" =>
        /\ pc = "response" /\ reply = 0 =>
              tail = None /\ known /\ block = sector /\ part = "token"
        /\ pc = "response" /\ reply # 0 => part = "none"
        /\ pc = "answered" /\ d = 0 => Sending /\ part = "token"
        /\ pc = "token" => /\ reply = None /\ known /\ part \in {"token", "none"}
                           /\ part = "token" => Sending
        /\ pc = "data" => Sending /\ part = "data"
        /\ pc = "crc" => Sending /\ part = "crc" /\ buff[asked - count] = block

ReadInv == MineInv /\ FillInv /\ SendInv /\ ReadsRight

IInv == CoreInv /\ InitInv /\ ReadInv

-----------------------------------------------------------------------------
(* The card *)

\* What each call of send_cmd sends.
LEMMA CommandSite ==
    ASSUME CoreInv
    PROVE  /\ prefix => Command = 55
           /\ Command = 55 => prefix
           /\ site = "cmd0" <=> Command = 0
           /\ site = "cmd1" <=> Command = 1
           /\ site = "cmd8" <=> Command = 8
           /\ site = "stop" <=> Command = 12
           /\ site = "cmd16" <=> Command = 16
           /\ site = "read" <=> Command \in {17, 18}
           /\ site \in AppSites /\ ~prefix <=> Command = 41
           /\ site = "cmd58" <=> Command = 58
           /\ site \in AppSites /\ Argument # 0 => site = "acmd41"
           /\ site = "read" => Argument = Address
           /\ Argument \in Nat
  <1>. /\ site \in Sites
       /\ prefix => site \in AppSites
       /\ prefix \in BOOLEAN /\ sector \in Nat /\ SectorBytes \in Nat
    BY CardAssumption DEF CoreInv, DriverTypes, FlagTypes, PlaceTypes, ReadTypes, SiteInv
  <1>1. sector * SectorBytes \in Nat
    OBVIOUS
  <1>2. Argument \in Nat
    BY <1>1 DEF Argument, Address
  <1>3. CASE prefix
    <2>1. Command = 55 /\ Argument = 0
      BY <1>3 DEF Command, Argument
    <2>. QED BY <1>3, <2>1 DEF AppSites
  <1>4. CASE ~prefix /\ site = "read"
    BY <1>2, <1>4 DEF Command, Argument, AppSites
  <1>5. CASE ~prefix /\ site # "read"
    <2>1. Command = Number[site]
      BY <1>5 DEF Command
    <2>. QED BY <1>2, <1>5, <2>1 DEF Number, Argument, AppSites, Sites
  <1>. QED BY <1>3, <1>4, <1>5

\* Bytes come from the answer before the block, and change nothing else.
LEMMA ByteStep ==
    ASSUME CardTypes, NEW v \in Bytes, Byte(v)
    PROVE  /\ CardTypes'
           /\ kind' = kind /\ card' = card /\ block' = block /\ (busy' => busy)
           /\ busy => v = 0 /\ reply' = reply /\ tail' = tail /\ part' = part
           /\ ~busy =>
                \/ v = 255 /\ reply' = reply /\ tail' = tail /\ part' = part /\ (reply # None => late > 0)
                \/ reply # None /\ late = 0 /\ v = reply /\ reply' = tail /\ tail' = None /\ late' = late /\ part' = part
                \/ /\ reply = None /\ part = "token" /\ reply' = reply /\ tail' = tail
                   /\ v = 254 => part' = "data"
                   /\ v # 254 => v = 8 /\ part' = "none"
                \/ reply = None /\ part \in {"data", "crc"} /\ reply' = reply /\ tail' = tail /\ part' = part
  <1>. Latency \in Nat /\ Sectors \in Nat
    BY CardAssumption
  <1>. CASE Idle(v)
    BY DEF Idle, CardTypes, cardVars, answer, stream
  <1>. CASE Busy(v)
    BY DEF Busy, CardTypes, cardVars, answer, stream
  <1>. CASE Late(v)
    BY DEF Late, CardTypes, cardVars, answer, stream
  <1>. CASE Reply(v)
    BY DEF Reply, CardTypes, cardVars, answer, stream, None
  <1>. CASE Token(v)
    BY DEF Token, CardTypes, cardVars, answer, stream
  <1>. CASE Inside(v)
    BY DEF Inside, CardTypes, cardVars, answer, stream
  <1>. QED BY DEF Byte

\* What a packet does, by the place in the driver that sends it: to the card,
PacketCard ==
    /\ kind' = kind
    /\ site = "cmd0" => IF reply' = None THEN card' \in {card, "idle"} ELSE card' = "idle"
    /\ site # "cmd0" /\ card' # card =>
          /\ card = "idle" /\ card' = "ready"
          /\ site \in {"cmd1", "acmd41", "acmd41v1", "probe"}
          /\ kind = "HC" => site = "acmd41"

\* and to its answer.
PacketAnswer ==
    /\ site # "stop" => ~busy' /\ reply' < 128
    /\ site \notin {"read", "stop"} => part' = "none"
    /\ site \notin {"cmd0", "stop"} /\ reply' = 0 => card' = "ready"
    /\ site = "cmd58" /\ reply' # None => tail' = IF kind = "HC" /\ card = "ready" THEN 64 ELSE 0
    /\ site = "read" =>
          /\ reply' = 0 => tail' = None /\ part' = "token" /\ block' = Block(Address)
          /\ reply' # 0 => part' = "none"

\* A packet leaves a card in one of its states, with an answer of its kind.
LEMMA PacketStep ==
    ASSUME CoreInv, pc = "packet", Packet(Command, Argument)
    PROVE  CardTypes' /\ PacketCard /\ PacketAnswer
  <1>. CardTypes
    BY DEF CoreInv
  <1>. Latency \in Nat /\ Sectors \in Nat /\ Kinds \subseteq {"HC", "SC", "SD1", "MMC"}
    BY CardAssumption
  <1>. site # "stop" => ~busy /\ part = "none" /\ reply = None /\ tail = None
    BY DEF CoreInv, QuietInv
  <1>1. CASE UNCHANGED cardVars
    BY <1>1 DEF CardTypes, PacketCard, PacketAnswer, cardVars, answer, stream, None, Bytes
  <1>2. CASE Obeys(Command, Argument) /\ prefixed' = (Command = 55 /\ kind # "MMC")
    <2>. prefixed' \in BOOLEAN
      BY <1>2
    <2>1. CASE Command = 0 /\ GoIdle
      <3>. site = "cmd0"
        BY <2>1, CommandSite
      <3>1. CardTypes'
        BY <2>1 DEF CardTypes, Answers, Plain, Bytes, None, R1, Illegal, GoIdle
      <3>2. PacketCard
        BY <2>1 DEF CardTypes, PacketCard, AppSites, Answers, Plain, Bytes, None, R1, Illegal, GoIdle
      <3>3. PacketAnswer
        BY <2>1 DEF CardTypes, PacketAnswer, Serves, AppSites, Answers, Plain, Bytes, None, R1, Illegal, GoIdle
      <3>. QED BY <3>1, <3>2, <3>3
    <2>2. CASE Serves /\ Command = 1 /\ IF kind = "SC" THEN Plain(Illegal) ELSE OpCond(FALSE)
      <3>. site = "cmd1"
        BY <2>2, CommandSite
      <3>1. CardTypes'
        BY <2>2 DEF CardTypes, Answers, Plain, Bytes, None, R1, Illegal, OpCond
      <3>2. PacketCard
        BY <2>2 DEF CardTypes, PacketCard, Serves, AppSites, Answers, Plain, Bytes, None, R1, Illegal, OpCond
      <3>3. PacketAnswer
        BY <2>2 DEF CardTypes, PacketAnswer, Serves, AppSites, Answers, Plain, Bytes, None, R1, Illegal, OpCond
      <3>. QED BY <3>1, <3>2, <3>3
    <2>3. CASE Serves /\ Command = 8 /\ IfCond
      <3>. site = "cmd8"
        BY <2>3, CommandSite
      <3>1. CardTypes'
        BY <2>3 DEF CardTypes, Answers, Plain, Bytes, None, R1, Illegal, IfCond
      <3>2. PacketCard
        BY <2>3 DEF CardTypes, PacketCard, AppSites, Answers, Plain, Bytes, None, R1, Illegal, IfCond
      <3>3. PacketAnswer
        BY <2>3 DEF CardTypes, PacketAnswer, Serves, AppSites, Answers, Plain, Bytes, None, R1, Illegal, IfCond
      <3>. QED BY <3>1, <3>2, <3>3
    <2>4. CASE Command = 12 /\ Stop
      <3>. site = "stop"
        BY <2>4, CommandSite
      <3>1. CardTypes'
        BY <2>4 DEF CardTypes, Answers, Plain, Bytes, None, R1, Illegal, Stop
      <3>2. PacketCard
        BY <2>4 DEF CardTypes, PacketCard, AppSites, Answers, Plain, Bytes, None, R1, Illegal, Stop
      <3>3. PacketAnswer
        BY <2>4 DEF CardTypes, PacketAnswer, Serves, AppSites, Answers, Plain, Bytes, None, R1, Illegal, Stop
      <3>. QED BY <3>1, <3>2, <3>3
    <2>5. CASE Serves /\ Command = 16 /\ Plain(IF card = "ready" THEN 0 ELSE Illegal)
      <3>. site = "cmd16"
        BY <2>5, CommandSite
      <3>1. CardTypes'
        BY <2>5 DEF CardTypes, Answers, Plain, Bytes, None, R1, Illegal
      <3>2. PacketCard
        BY <2>5 DEF CardTypes, PacketCard, AppSites, Answers, Plain, Bytes, None, R1, Illegal
      <3>3. PacketAnswer
        BY <2>5 DEF CardTypes, PacketAnswer, Serves, AppSites, Answers, Plain, Bytes, None, R1, Illegal
      <3>. QED BY <3>1, <3>2, <3>3
    <2>6. CASE Serves /\ Command \in {17, 18} /\ Read(Argument, Command = 18)
      <3>. site = "read" /\ Argument = Address
        BY <2>6, CommandSite
      <3>. Block(Argument) \in Nat
        BY CommandSite, CardAssumption DEF Block
      <3>a. many' \in BOOLEAN
        BY <2>6 DEF CardTypes, Answers, Plain, Read
      <3>b. kind' \in Kinds /\ card' \in {"absent", "native", "idle", "ready"} /\ busy' \in BOOLEAN
        BY <2>6 DEF CardTypes, Answers, Plain, Read
      <3>c. reply' \in Bytes \cup {None} /\ tail' \in Bytes \cup {None}
        BY <2>6 DEF CardTypes, Answers, Plain, Read, Bytes, None, R1, Illegal
      <3>d. late' \in 0..Latency
        BY <2>6 DEF CardTypes, Answers, Plain, Read
      <3>e. part' \in {"none", "token", "data", "crc"} /\ block' \in 0..Sectors /\ (part' # "none" => block' < Sectors)
        BY <2>6 DEF CardTypes, Answers, Plain, Read
      <3>1. CardTypes'
        BY <3>a, <3>b, <3>c, <3>d, <3>e DEF CardTypes
      <3>2. PacketCard
        BY <2>6 DEF CardTypes, PacketCard, AppSites, Answers, Plain, Bytes, None, R1, Illegal, Read
      <3>3. PacketAnswer
        BY <2>6 DEF CardTypes, PacketAnswer, Serves, AppSites, Answers, Plain, Bytes, None, R1, Illegal, Read
      <3>. QED BY <3>1, <3>2, <3>3
    <2>7. CASE Serves /\ Command = 41 /\ IF prefixed THEN OpCond(Argument # 0) ELSE Plain(Illegal)
      <3>. site \in AppSites /\ (Argument # 0 => site = "acmd41")
        BY <2>7, CommandSite
      <3>1. CardTypes'
        BY <2>7 DEF CardTypes, Answers, Plain, Bytes, None, R1, Illegal, OpCond
      <3>2. PacketCard
        BY <2>7 DEF CardTypes, PacketCard, Serves, AppSites, Answers, Plain, Bytes, None, R1, Illegal, OpCond
      <3>3. PacketAnswer
        BY <2>7 DEF CardTypes, PacketAnswer, Serves, AppSites, Answers, Plain, Bytes, None, R1, Illegal, OpCond
      <3>. QED BY <3>1, <3>2, <3>3
    <2>8. CASE Serves /\ Command = 55 /\ Plain(IF kind = "MMC" THEN Illegal ELSE R1)
      <3>. site \in AppSites
        BY <2>8, CommandSite DEF CoreInv, SiteInv
      <3>1. CardTypes'
        BY <2>8 DEF CardTypes, Answers, Plain, Bytes, None, R1, Illegal
      <3>2. PacketCard
        BY <2>8 DEF CardTypes, PacketCard, AppSites, Answers, Plain, Bytes, None, R1, Illegal
      <3>3. PacketAnswer
        BY <2>8 DEF CardTypes, PacketAnswer, Serves, AppSites, Answers, Plain, Bytes, None, R1, Illegal
      <3>. QED BY <3>1, <3>2, <3>3
    <2>9. CASE Serves /\ Command = 58 /\ ReadOcr
      <3>. site = "cmd58"
        BY <2>9, CommandSite
      <3>1. CardTypes'
        BY <2>9 DEF CardTypes, Answers, Plain, Bytes, None, R1, Illegal, ReadOcr
      <3>2. PacketCard
        BY <2>9 DEF CardTypes, PacketCard, AppSites, Answers, Plain, Bytes, None, R1, Illegal, ReadOcr
      <3>3. PacketAnswer
        BY <2>9 DEF CardTypes, PacketAnswer, Serves, AppSites, Answers, Plain, Bytes, None, R1, Illegal, ReadOcr
      <3>. QED BY <3>1, <3>2, <3>3
    <2>. QED BY <1>2, <2>1, <2>2, <2>3, <2>4, <2>5, <2>6, <2>7, <2>8, <2>9 DEF Obeys
  <1>. QED BY <1>1, <1>2 DEF Packet

-----------------------------------------------------------------------------
(* Types, and where the driver is *)

\* The machine starts with nothing selected and nothing on its way.
LEMMA CoreInit == Init => CoreInv
  <1>. SUFFICES ASSUME Init PROVE CoreInv
    OBVIOUS
  <1>. /\ Latency \in Nat /\ Sectors \in Nat /\ MaxCount \in Nat \ {0} /\ InitTries \in Nat
       /\ ReadyTries + ResponseTries + TokenTries \in Nat
    BY CardAssumption, DriverAssumption
  <1>1. CardTypes
    <2>1. kind \in Kinds /\ card \in {"absent", "native", "idle", "ready"}
      BY DEF Init, CardInit
    <2>2. prefixed \in BOOLEAN /\ busy \in BOOLEAN /\ many \in BOOLEAN
      BY DEF Init, CardInit
    <2>3. reply \in Bytes \cup {None} /\ tail \in Bytes \cup {None} /\ late \in 0..Latency
      BY DEF Init, CardInit
    <2>4. part \in {"none", "token", "data", "crc"} /\ block \in 0..Sectors /\ (part # "none" => block < Sectors)
      BY DEF Init, CardInit
    <2>. QED BY <2>1, <2>2, <2>3, <2>4 DEF CardTypes
  <1>2. FlagTypes
    BY DEF Init, FlagTypes
  <1>3. PlaceTypes
    BY DEF Init, PlaceTypes, Pcs, Sites, Bytes, STA_NOINIT
  <1>4. ReadTypes
    BY DEF Init, ReadTypes
  <1>5. SiteInv /\ QuietInv
    BY DEF Init, CardInit, SiteInv, QuietInv, None
  <1>. QED BY <1>1, <1>2, <1>3, <1>4, <1>5 DEF CoreInv, DriverTypes

\* Only an ACMD is preceded by CMD55.
LEMMA SendFlag ==
    ASSUME NEW s, Send(s)
    PROVE  prefix' \in BOOLEAN
  <1>1. prefix' = (s \in AppSites)
    BY DEF Send
  <1>. QED BY <1>1

\* A byte that is looked at comes from a card that is selected.
LEMMA Selected ==
    ASSUME CoreInv, pc \in {"ready", "stuff", "response", "trail", "token"}, NEW v, Rcvr(v)
    PROVE  Byte(v)
  BY DEF CoreInv, SiteInv, Rcvr

\* Types, sites and the quiet line are kept by every step.
LEMMA CoreStep ==
    ASSUME CoreInv, [Next]_vars
    PROVE  CoreInv'
  <1>. /\ Latency \in Nat /\ Sectors \in Nat /\ MaxCount \in Nat
       /\ ReadyTries \in Nat \ {0} /\ ResponseTries \in Nat \ {0}
       /\ TokenTries \in Nat \ {0} /\ InitTries \in Nat \ {0}
    BY CardAssumption, DriverAssumption
  <1>. CardTypes /\ FlagTypes /\ PlaceTypes /\ ReadTypes /\ SiteInv /\ QuietInv
    BY DEF CoreInv, DriverTypes
  <1>1. CASE Select
    <2>. CardTypes'
      BY <1>1, CardAssumption DEF Select, Drop, CardTypes, SiteInv, None
    <2>1. DriverTypes'
      BY <1>1 DEF Select, Drop, lib, cmdVars, args, hist, DriverTypes, FlagTypes, PlaceTypes,
         ReadTypes, CardTypes, Pcs, Sites, AppSites, InitSites, Bytes, None, STA_NOINIT, SiteInv
    <2>2. SiteInv' /\ QuietInv'
      BY <1>1 DEF Select, Drop, lib, cmdVars, args, hist, SiteInv, FlagTypes, PlaceTypes,
         ReadTypes, STA_NOINIT, AppSites, InitSites, QuietInv, None, Bytes
    <2>. QED BY <2>1, <2>2 DEF CoreInv, DriverTypes
  <1>2. CASE WaitReady
    <2>1. pc = "ready" /\ UNCHANGED <<fast, lib, site, prefix, tmr, ty, args, count, buff, hist>>
      BY <1>2 DEF WaitReady
    <2>2. PICK v \in Bytes : Rcvr(v) /\
                         \/ v = 255 /\ pc' = "packet" /\ UNCHANGED <<sel, d, tries>>
                         \/ v # 255 /\ tries > 1 /\ tries' = tries - 1 /\ UNCHANGED <<pc, sel, d>>
                         \/ /\ v # 255 /\ tries = 1
                            /\ pc' = "answered" /\ sel' = FALSE /\ d' = 255 /\ UNCHANGED tries
      BY <1>2 DEF WaitReady
    <2>3. Byte(v)
      BY <2>1, <2>2, Selected
    <2>. CardTypes' /\ (busy' => busy)
      BY <2>3, ByteStep
    <2>4. /\ reply' = reply \/ site = "stop"
          /\ tail' = tail \/ site = "stop"
          /\ part' = part \/ site = "stop"
          /\ v = 255 => ~busy'
      BY <2>1, <2>3, ByteStep DEF QuietInv
    <2>. sel
      BY <2>1 DEF SiteInv
    <2>5. FlagTypes'
      BY <2>1, <2>2 DEF lib, args, hist, FlagTypes
    <2>. 255 \in Bytes
      BY DEF Bytes
        <2>6. d' = d \/ d' = 255
      BY <2>2
        <2>7. d' \in Bytes
      BY <2>6 DEF PlaceTypes
        <2>8. tries' = tries \/ (tries > 1 /\ tries' = tries - 1)
      BY <2>2
        <2>9. tries' \in 0..(ReadyTries + ResponseTries + TokenTries)
      BY <2>8 DEF PlaceTypes
        <2>10. pc' \in Pcs
      BY <2>1, <2>2 DEF Pcs
        <2>11. PlaceTypes'
      BY <2>1, <2>7, <2>9, <2>10 DEF lib, PlaceTypes
    <2>12. ReadTypes'
      BY <2>1, <2>2 DEF lib, args, hist, ReadTypes, CardTypes, SiteInv, None
    <2>13. SiteInv'
      BY <2>1, <2>2 DEF lib, args, hist, SiteInv, FlagTypes, PlaceTypes, ReadTypes, STA_NOINIT,
         AppSites, InitSites
    <2>14. QuietInv'
      BY <2>1, <2>2, <2>3, <2>4 DEF lib, args, hist, QuietInv, SiteInv, FlagTypes, PlaceTypes,
         AppSites, None, Bytes, cardVars, answer, stream
    <2>. QED BY <2>5, <2>11, <2>12, <2>13, <2>14 DEF CoreInv, DriverTypes
  <1>3. CASE Xmit
    <2>. Packet(Command, Argument)
      BY <1>3 DEF Xmit, SiteInv
    <2>. CardTypes' /\ PacketAnswer
      BY <1>3, PacketStep DEF Xmit
    <2>1. DriverTypes'
      BY <1>3 DEF Xmit, bus, lib, cmdVars, args, hist, DriverTypes, FlagTypes, PlaceTypes,
         ReadTypes, CardTypes, Pcs, Sites, AppSites, InitSites, Bytes, None, STA_NOINIT, CT_BLOCK,
         SiteInv
    <2>2. SiteInv' /\ QuietInv'
      BY <1>3, CommandSite DEF Xmit, bus, lib, cmdVars, args, hist, SiteInv, FlagTypes,
         PlaceTypes, ReadTypes, STA_NOINIT, AppSites, InitSites, QuietInv, PacketAnswer, None,
         Bytes, cardVars, answer, stream
    <2>. QED BY <2>1, <2>2 DEF CoreInv, DriverTypes
  <1>4. CASE Stuff
    <2>1. pc = "stuff" /\ pc' = "response" /\ UNCHANGED <<bus, lib, cmdVars, tries, tmr, ty, args, count, buff, hist>>
      BY <1>4 DEF Stuff
    <2>2. PICK v \in Bytes : Rcvr(v)
      BY <1>4 DEF Stuff
    <2>3. Byte(v)
      BY <2>1, <2>2, Selected
    <2>. CardTypes' /\ (busy' => busy)
      BY <2>3, ByteStep
    <2>4. DriverTypes'
      BY <2>1, <2>2 DEF bus, lib, cmdVars, args, hist, DriverTypes, FlagTypes, PlaceTypes,
         ReadTypes, CardTypes, Pcs, Sites, AppSites, InitSites, Bytes, None, STA_NOINIT, SiteInv
    <2>5. SiteInv'
      BY <2>1, <2>2 DEF bus, lib, cmdVars, args, hist, SiteInv, FlagTypes, PlaceTypes, ReadTypes,
         STA_NOINIT, AppSites, InitSites
    <2>6. QuietInv'
      BY <2>1, <2>2, <2>3, ByteStep DEF bus, lib, cmdVars, args, hist, QuietInv, SiteInv,
         FlagTypes, PlaceTypes, AppSites, None, Bytes, cardVars, answer, stream
    <2>. QED BY <2>4, <2>5, <2>6 DEF CoreInv, DriverTypes
  <1>5. CASE Response
    <2>1. /\ pc = "response" /\ tries' = IF tries > 1 THEN tries - 1 ELSE tries
        /\ UNCHANGED <<bus, lib, site, prefix, tmr, ty, args, count, buff, hist>>
      BY <1>5 DEF Response
    <2>2. PICK v \in Bytes : /\ Rcvr(v) /\ d' = v
                                     /\ IF v >= 128 /\ tries > 1 THEN pc' = pc ELSE pc' = "answered"
      BY <1>5 DEF Response
    <2>3. Byte(v)
      BY <2>1, <2>2, Selected
    <2>. CardTypes' /\ (busy' => busy)
      BY <2>3, ByteStep
    <2>4. /\ reply' = reply \/ v = reply \/ site = "stop"
          /\ part = "none" => part' = "none"
      BY <2>1, <2>3, ByteStep DEF QuietInv
    <2>5. FlagTypes'
      BY <2>1, <2>2 DEF bus, lib, args, hist, FlagTypes
    <2>6. PlaceTypes'
      BY <2>1, <2>2 DEF bus, lib, args, hist, PlaceTypes, Pcs, Sites, AppSites, InitSites, Bytes,
         None, STA_NOINIT, SiteInv
    <2>7. ReadTypes'
      BY <2>1, <2>2 DEF bus, lib, args, hist, ReadTypes, CardTypes, SiteInv, None
    <2>8. SiteInv'
      BY <2>1, <2>2 DEF bus, lib, args, hist, SiteInv, FlagTypes, PlaceTypes, ReadTypes,
         STA_NOINIT, AppSites, InitSites
    <2>9. QuietInv'
      BY <2>1, <2>2, <2>3, <2>4 DEF bus, lib, args, hist, QuietInv, SiteInv, FlagTypes,
         PlaceTypes, AppSites, None, Bytes, cardVars, answer, stream
    <2>. QED BY <2>5, <2>6, <2>7, <2>8, <2>9 DEF CoreInv, DriverTypes
  <1>6. CASE Prefixed
    <2>. CardTypes'
      BY <1>6 DEF Prefixed, CardTypes, cardVars, answer, stream
    <2>1. FlagTypes'
      BY <1>6 DEF Prefixed, bus, lib, args, hist, FlagTypes
    <2>2. PlaceTypes'
      BY <1>6 DEF Prefixed, bus, lib, args, hist, PlaceTypes, Pcs, Sites, AppSites, InitSites,
         Bytes, None, STA_NOINIT, SiteInv
    <2>3. ReadTypes'
      BY <1>6 DEF Prefixed, bus, lib, args, hist, ReadTypes, CardTypes, SiteInv, None
    <2>4. SiteInv' /\ QuietInv'
      BY <1>6 DEF Prefixed, bus, lib, args, hist, SiteInv, FlagTypes, PlaceTypes, ReadTypes,
         STA_NOINIT, AppSites, InitSites, QuietInv, None, Bytes, cardVars, answer, stream
    <2>. QED BY <2>1, <2>2, <2>3, <2>4 DEF CoreInv, DriverTypes
  <1>7. CASE Cmd0
    <2>. CardTypes'
      BY <1>7 DEF Cmd0, CardTypes, cardVars, answer, stream
    <2>. prefix' \in BOOLEAN
      BY <1>7, SendFlag DEF Cmd0, Answered, End, lib, cmdVars, args, FlagTypes
    <2>1. FlagTypes'
      BY <1>7 DEF Cmd0, Answered, FlagTypes, End, lib, cmdVars, args
    <2>2. PlaceTypes'
      BY <1>7 DEF Cmd0, Answered, Send, End, lib, cmdVars, args, PlaceTypes, Pcs, Sites, AppSites,
         InitSites, Bytes, None, STA_NOINIT, SiteInv
    <2>3. ReadTypes'
      BY <1>7 DEF Cmd0, Answered, Send, End, lib, cmdVars, args, ReadTypes, CardTypes, SiteInv, None
    <2>4. SiteInv' /\ QuietInv'
      BY <1>7 DEF Cmd0, Answered, Send, End, lib, cmdVars, args, SiteInv, FlagTypes, PlaceTypes,
         ReadTypes, STA_NOINIT, AppSites, InitSites, QuietInv, None, Bytes, cardVars, answer,
         stream
    <2>. QED BY <2>1, <2>2, <2>3, <2>4 DEF CoreInv, DriverTypes
  <1>8. CASE Cmd8
    <2>. CardTypes'
      BY <1>8 DEF Cmd8, CardTypes, cardVars, answer, stream
    <2>. prefix' \in BOOLEAN
      BY <1>8, SendFlag DEF Cmd8, Answered, bus, lib, cmdVars, args, hist, Common, FlagTypes
    <2>1. FlagTypes'
      BY <1>8 DEF Cmd8, Answered, FlagTypes, bus, lib, cmdVars, args, hist, Common
    <2>2. PlaceTypes'
      BY <1>8 DEF Cmd8, Answered, Send, bus, lib, cmdVars, args, hist, Common, PlaceTypes, Pcs,
         Sites, AppSites, InitSites, Bytes, None, STA_NOINIT, SiteInv
    <2>3. ReadTypes'
      BY <1>8 DEF Cmd8, Answered, Send, bus, lib, cmdVars, args, hist, Common, ReadTypes,
         CardTypes, SiteInv, None
    <2>4. SiteInv' /\ QuietInv'
      BY <1>8 DEF Cmd8, Answered, Send, bus, lib, cmdVars, args, hist, Common, SiteInv, FlagTypes,
         PlaceTypes, ReadTypes, STA_NOINIT, AppSites, InitSites, QuietInv, None, Bytes, cardVars,
         answer, stream
    <2>. QED BY <2>1, <2>2, <2>3, <2>4 DEF CoreInv, DriverTypes
  <1>9. CASE Trail
    <2>1. pc = "trail" /\ UNCHANGED <<bus, lib, tries, args, count, buff, hist>>
      BY <1>9 DEF Trail, Common
    <2>2. PICK v \in Bytes : Rcvr(v) /\
                         IF site = "cmd8"
                         THEN IF v = 426 THEN Send("acmd41") /\ tmr' = InitTries /\ UNCHANGED ty
                                         ELSE End(0)
                         ELSE End(IF (v \div 64) % 2 = 1 THEN CT_SD2 + CT_BLOCK ELSE CT_SD2)
      BY <1>9 DEF Trail
    <2>3. Byte(v)
      BY <2>1, <2>2, Selected
    <2>. CardTypes' /\ (busy' => busy)
      BY <2>3, ByteStep
    <2>. prefix' \in BOOLEAN
      BY <2>1, <2>2, SendFlag DEF End, bus, lib, cmdVars, args, hist, Common, FlagTypes
    <2>4. FlagTypes'
      BY <2>1, <2>2 DEF FlagTypes, End, bus, lib, cmdVars, args, hist, Common
    <2>5. PlaceTypes'
      BY <2>1, <2>2 DEF Send, End, bus, lib, cmdVars, args, hist, Common, PlaceTypes, Pcs, Sites,
         AppSites, InitSites, Bytes, None, STA_NOINIT, CT_SD2, CT_BLOCK, SiteInv
    <2>6. ReadTypes'
      BY <2>1, <2>2 DEF Send, End, bus, lib, cmdVars, args, hist, Common, ReadTypes, CardTypes,
         SiteInv, None
    <2>7. SiteInv'
      BY <2>1, <2>2 DEF Send, End, bus, lib, cmdVars, args, hist, Common, SiteInv, FlagTypes,
         PlaceTypes, ReadTypes, STA_NOINIT, AppSites, InitSites
    <2>8. QuietInv'
      BY <2>1, <2>2, <2>3, ByteStep DEF Send, End, bus, lib, cmdVars, args, hist, Common,
         QuietInv, SiteInv, FlagTypes, PlaceTypes, AppSites, None, Bytes, cardVars, answer, stream
    <2>. QED BY <2>4, <2>5, <2>6, <2>7, <2>8 DEF CoreInv, DriverTypes
  <1>10. CASE Cmd58
    <2>. CardTypes'
      BY <1>10 DEF Cmd58, CardTypes, cardVars, answer, stream
    <2>1. FlagTypes'
      BY <1>10 DEF Cmd58, Answered, End, bus, lib, cmdVars, args, hist, Common, FlagTypes
    <2>2. PlaceTypes'
      BY <1>10 DEF Cmd58, Answered, End, bus, lib, cmdVars, args, hist, Common, PlaceTypes, Pcs,
         Sites, AppSites, InitSites, Bytes, None, STA_NOINIT, SiteInv
    <2>3. ReadTypes'
      BY <1>10 DEF Cmd58, Answered, End, bus, lib, cmdVars, args, hist, Common, ReadTypes,
         CardTypes, SiteInv, None
    <2>4. SiteInv' /\ QuietInv'
      BY <1>10 DEF Cmd58, Answered, End, bus, lib, cmdVars, args, hist, Common, SiteInv,
         FlagTypes, PlaceTypes, ReadTypes, STA_NOINIT, AppSites, InitSites, QuietInv, None, Bytes,
         cardVars, answer, stream
    <2>. QED BY <2>1, <2>2, <2>3, <2>4 DEF CoreInv, DriverTypes
  <1>11. CASE Probe
    <2>. CardTypes'
      BY <1>11 DEF Probe, CardTypes, cardVars, answer, stream
    <2>. prefix' \in BOOLEAN
      BY <1>11, SendFlag DEF Probe, Answered, bus, lib, args, hist, Common, FlagTypes
    <2>1. FlagTypes'
      BY <1>11 DEF Probe, Answered, FlagTypes, bus, lib, args, hist, Common
    <2>2. PlaceTypes'
      BY <1>11 DEF Probe, Answered, Send, bus, lib, args, hist, Common, PlaceTypes, Pcs, Sites,
         AppSites, InitSites, Bytes, None, STA_NOINIT, CT_MMC, CT_SD1, SiteInv
    <2>3. ReadTypes'
      BY <1>11 DEF Probe, Answered, Send, bus, lib, args, hist, Common, ReadTypes, CardTypes,
         SiteInv, None
    <2>4. SiteInv' /\ QuietInv'
      BY <1>11 DEF Probe, Answered, Send, bus, lib, args, hist, Common, SiteInv, FlagTypes,
         PlaceTypes, ReadTypes, STA_NOINIT, AppSites, InitSites, QuietInv, None, Bytes, cardVars,
         answer, stream
    <2>. QED BY <2>1, <2>2, <2>3, <2>4 DEF CoreInv, DriverTypes
  <1>12. CASE Cmd16
    <2>. CardTypes'
      BY <1>12 DEF Cmd16, CardTypes, cardVars, answer, stream
    <2>1. FlagTypes'
      BY <1>12 DEF Cmd16, Answered, End, bus, lib, cmdVars, args, hist, Common, FlagTypes
    <2>2. PlaceTypes'
      BY <1>12 DEF Cmd16, Answered, End, bus, lib, cmdVars, args, hist, Common, PlaceTypes, Pcs,
         Sites, AppSites, InitSites, Bytes, None, STA_NOINIT, SiteInv
    <2>3. ReadTypes'
      BY <1>12 DEF Cmd16, Answered, End, bus, lib, cmdVars, args, hist, Common, ReadTypes,
         CardTypes, SiteInv, None
    <2>4. SiteInv' /\ QuietInv'
      BY <1>12 DEF Cmd16, Answered, End, bus, lib, cmdVars, args, hist, Common, SiteInv,
         FlagTypes, PlaceTypes, ReadTypes, STA_NOINIT, AppSites, InitSites, QuietInv, None, Bytes,
         cardVars, answer, stream
    <2>. QED BY <2>1, <2>2, <2>3, <2>4 DEF CoreInv, DriverTypes
  <1>13. CASE InitEnd
    <2>. CardTypes'
      BY <1>13 DEF InitEnd, CardTypes, cardVars, answer, stream
    <2>1. FlagTypes'
      BY <1>13 DEF InitEnd, cmdVars, FlagTypes
    <2>2. PlaceTypes'
      BY <1>13 DEF InitEnd, cmdVars, PlaceTypes, Pcs, Sites, AppSites, InitSites, Bytes, None,
         STA_NOINIT, SiteInv
    <2>3. ReadTypes'
      BY <1>13 DEF InitEnd, cmdVars, ReadTypes, CardTypes, SiteInv, None
    <2>4. SiteInv' /\ QuietInv'
      BY <1>13 DEF InitEnd, cmdVars, SiteInv, FlagTypes, PlaceTypes, ReadTypes, STA_NOINIT,
         AppSites, InitSites, QuietInv, None, Bytes, cardVars, answer, stream
    <2>. QED BY <2>1, <2>2, <2>3, <2>4 DEF CoreInv, DriverTypes
  <1>14. CASE Again("acmd41", "cmd58")
    <2>. CardTypes'
      BY <1>14 DEF Again, CardTypes, cardVars, answer, stream
    <2>. prefix' \in BOOLEAN
      BY <1>14, SendFlag DEF Again, Answered, End, bus, lib, cmdVars, args, hist, Common, FlagTypes
    <2>1. FlagTypes'
      BY <1>14 DEF Again, Answered, FlagTypes, End, bus, lib, cmdVars, args, hist, Common
    <2>2. PlaceTypes'
      BY <1>14 DEF Again, Answered, Send, End, bus, lib, cmdVars, args, hist, Common, PlaceTypes,
         Pcs, Sites, AppSites, InitSites, Bytes, None, STA_NOINIT, SiteInv
    <2>3. ReadTypes'
      BY <1>14 DEF Again, Answered, Send, End, bus, lib, cmdVars, args, hist, Common, ReadTypes,
         CardTypes, SiteInv, None
    <2>4. SiteInv' /\ QuietInv'
      BY <1>14 DEF Again, Answered, Send, End, bus, lib, cmdVars, args, hist, Common, SiteInv,
         FlagTypes, PlaceTypes, ReadTypes, STA_NOINIT, AppSites, InitSites, QuietInv, None, Bytes,
         cardVars, answer, stream
    <2>. QED BY <2>1, <2>2, <2>3, <2>4 DEF CoreInv, DriverTypes
  <1>15. CASE Again("acmd41v1", "cmd16")
    <2>. CardTypes'
      BY <1>15 DEF Again, CardTypes, cardVars, answer, stream
    <2>. prefix' \in BOOLEAN
      BY <1>15, SendFlag DEF Again, Answered, End, bus, lib, cmdVars, args, hist, Common, FlagTypes
    <2>1. FlagTypes'
      BY <1>15 DEF Again, Answered, FlagTypes, End, bus, lib, cmdVars, args, hist, Common
    <2>2. PlaceTypes'
      BY <1>15 DEF Again, Answered, Send, End, bus, lib, cmdVars, args, hist, Common, PlaceTypes,
         Pcs, Sites, AppSites, InitSites, Bytes, None, STA_NOINIT, SiteInv
    <2>3. ReadTypes'
      BY <1>15 DEF Again, Answered, Send, End, bus, lib, cmdVars, args, hist, Common, ReadTypes,
         CardTypes, SiteInv, None
    <2>4. SiteInv' /\ QuietInv'
      BY <1>15 DEF Again, Answered, Send, End, bus, lib, cmdVars, args, hist, Common, SiteInv,
         FlagTypes, PlaceTypes, ReadTypes, STA_NOINIT, AppSites, InitSites, QuietInv, None, Bytes,
         cardVars, answer, stream
    <2>. QED BY <2>1, <2>2, <2>3, <2>4 DEF CoreInv, DriverTypes
  <1>16. CASE Again("cmd1", "cmd16")
    <2>. CardTypes'
      BY <1>16 DEF Again, CardTypes, cardVars, answer, stream
    <2>. prefix' \in BOOLEAN
      BY <1>16, SendFlag DEF Again, Answered, End, bus, lib, cmdVars, args, hist, Common, FlagTypes
    <2>1. FlagTypes'
      BY <1>16 DEF Again, Answered, FlagTypes, End, bus, lib, cmdVars, args, hist, Common
    <2>2. PlaceTypes'
      BY <1>16 DEF Again, Answered, Send, End, bus, lib, cmdVars, args, hist, Common, PlaceTypes,
         Pcs, Sites, AppSites, InitSites, Bytes, None, STA_NOINIT, SiteInv
    <2>3. ReadTypes'
      BY <1>16 DEF Again, Answered, Send, End, bus, lib, cmdVars, args, hist, Common, ReadTypes,
         CardTypes, SiteInv, None
    <2>4. SiteInv' /\ QuietInv'
      BY <1>16 DEF Again, Answered, Send, End, bus, lib, cmdVars, args, hist, Common, SiteInv,
         FlagTypes, PlaceTypes, ReadTypes, STA_NOINIT, AppSites, InitSites, QuietInv, None, Bytes,
         cardVars, answer, stream
    <2>. QED BY <2>1, <2>2, <2>3, <2>4 DEF CoreInv, DriverTypes
  <1>17. CASE ReadAnswered
    <2>. CardTypes'
      BY <1>17 DEF ReadAnswered, CardTypes, cardVars, answer, stream
    <2>1. FlagTypes'
      BY <1>17 DEF ReadAnswered, Answered, bus, lib, cmdVars, args, hist, Common, FlagTypes
    <2>2. PlaceTypes'
      BY <1>17 DEF ReadAnswered, Answered, bus, lib, cmdVars, args, hist, Common, PlaceTypes, Pcs,
         Sites, AppSites, InitSites, Bytes, None, STA_NOINIT, SiteInv
    <2>3. ReadTypes'
      BY <1>17 DEF ReadAnswered, Answered, bus, lib, cmdVars, args, hist, Common, ReadTypes,
         CardTypes, SiteInv, None
    <2>4. SiteInv' /\ QuietInv'
      BY <1>17 DEF ReadAnswered, Answered, bus, lib, cmdVars, args, hist, Common, SiteInv,
         FlagTypes, PlaceTypes, ReadTypes, STA_NOINIT, AppSites, InitSites, QuietInv, None, Bytes,
         cardVars, answer, stream
    <2>. QED BY <2>1, <2>2, <2>3, <2>4 DEF CoreInv, DriverTypes
  <1>18. CASE WaitToken
    <2>1. pc = "token" /\ UNCHANGED <<bus, lib, tmr, ty, args, count, buff, hist>>
      BY <1>18 DEF WaitToken, Common
    <2>2. PICK v \in Bytes : Rcvr(v) /\
                         \/ v = 255 /\ tries > 1 /\ tries' = tries - 1 /\ UNCHANGED <<pc, cmdVars>>
                         \/ v = 254 /\ pc' = "data" /\ UNCHANGED <<cmdVars, tries>>
                         \/ (v = 255 => tries = 1) /\ v # 254 /\ Finish /\ UNCHANGED tries
      BY <1>18 DEF WaitToken
    <2>3. Byte(v)
      BY <2>1, <2>2, Selected
    <2>. CardTypes' /\ (busy' => busy)
      BY <2>3, ByteStep
    <2>. prefix' \in BOOLEAN
      BY <2>1, <2>2, SendFlag DEF Finish, bus, lib, cmdVars, args, hist, Common, FlagTypes
    <2>4. FlagTypes'
      BY <2>1, <2>2 DEF Finish, FlagTypes, bus, lib, cmdVars, args, hist, Common
    <2>5. PlaceTypes'
      BY <2>1, <2>2 DEF Finish, Send, bus, lib, cmdVars, args, hist, Common, PlaceTypes, Pcs,
         Sites, AppSites, InitSites, Bytes, None, STA_NOINIT, SiteInv
    <2>6. ReadTypes'
      BY <2>1, <2>2 DEF Finish, Send, bus, lib, cmdVars, args, hist, Common, ReadTypes, CardTypes,
         SiteInv, None
    <2>7. SiteInv'
      BY <2>1, <2>2 DEF Finish, Send, bus, lib, cmdVars, args, hist, Common, SiteInv, FlagTypes,
         PlaceTypes, ReadTypes, STA_NOINIT, AppSites, InitSites
    <2>8. QuietInv'
      BY <2>1, <2>2, <2>3, ByteStep DEF Finish, Send, bus, lib, cmdVars, args, hist, Common,
         QuietInv, SiteInv, FlagTypes, PlaceTypes, AppSites, None, Bytes, cardVars, answer, stream
    <2>. QED BY <2>4, <2>5, <2>6, <2>7, <2>8 DEF CoreInv, DriverTypes
  <1>19. CASE RcvrBlock
    <2>. CardTypes'
      BY <1>19, CardAssumption DEF RcvrBlock, Data, CardTypes, SiteInv, cardVars, answer, stream,
         None
    <2>1. DriverTypes'
      BY <1>19 DEF RcvrBlock, Data, bus, lib, cmdVars, args, hist, DriverTypes, FlagTypes,
         PlaceTypes, ReadTypes, CardTypes, Pcs, Sites, AppSites, InitSites, Bytes, None,
         STA_NOINIT, SiteInv
    <2>2. SiteInv' /\ QuietInv'
      BY <1>19 DEF RcvrBlock, Data, bus, lib, cmdVars, args, hist, SiteInv, FlagTypes, PlaceTypes,
         ReadTypes, STA_NOINIT, AppSites, InitSites, QuietInv, None, Bytes, cardVars, answer,
         stream
    <2>. QED BY <2>1, <2>2 DEF CoreInv, DriverTypes
  <1>20. CASE RcvrCrc
    <2>. CardTypes'
      BY <1>20, CardAssumption DEF RcvrCrc, Crc, Finish, Send, CardTypes, SiteInv, answer, None
    <2>. prefix' \in BOOLEAN
      BY <1>20, SendFlag DEF RcvrCrc, Crc, Finish, bus, lib, cmdVars, args, hist, FlagTypes
    <2>1. FlagTypes'
      BY <1>20 DEF RcvrCrc, Crc, Finish, FlagTypes, bus, lib, cmdVars, args, hist
    <2>2. PlaceTypes'
      BY <1>20 DEF RcvrCrc, Crc, Finish, Send, bus, lib, cmdVars, args, hist, PlaceTypes, Pcs,
         Sites, AppSites, InitSites, Bytes, None, STA_NOINIT, SiteInv
    <2>3. ReadTypes'
      BY <1>20 DEF RcvrCrc, Crc, Finish, Send, bus, lib, cmdVars, args, hist, ReadTypes,
         CardTypes, SiteInv, None
    <2>4. SiteInv' /\ QuietInv'
      BY <1>20 DEF RcvrCrc, Crc, Finish, Send, bus, lib, cmdVars, args, hist, SiteInv, FlagTypes,
         PlaceTypes, ReadTypes, STA_NOINIT, AppSites, InitSites, QuietInv, None, Bytes, answer
    <2>. QED BY <2>1, <2>2, <2>3, <2>4 DEF CoreInv, DriverTypes
  <1>21. CASE Stopped
    <2>. CardTypes'
      BY <1>21 DEF Stopped, CardTypes, cardVars, answer, stream
    <2>1. FlagTypes'
      BY <1>21 DEF Stopped, Answered, bus, lib, cmdVars, args, hist, Common, FlagTypes
    <2>2. PlaceTypes'
      BY <1>21 DEF Stopped, Answered, bus, lib, cmdVars, args, hist, Common, PlaceTypes, Pcs,
         Sites, AppSites, InitSites, Bytes, None, STA_NOINIT, SiteInv
    <2>3. ReadTypes'
      BY <1>21 DEF Stopped, Answered, bus, lib, cmdVars, args, hist, Common, ReadTypes, CardTypes,
         SiteInv, None
    <2>4. SiteInv' /\ QuietInv'
      BY <1>21 DEF Stopped, Answered, bus, lib, cmdVars, args, hist, Common, SiteInv, FlagTypes,
         PlaceTypes, ReadTypes, STA_NOINIT, AppSites, InitSites, QuietInv, None, Bytes, cardVars,
         answer, stream
    <2>. QED BY <2>1, <2>2, <2>3, <2>4 DEF CoreInv, DriverTypes
  <1>22. CASE ReadEnd
    <2>. CardTypes'
      BY <1>22 DEF ReadEnd, CardTypes, cardVars, answer, stream
    <2>1. FlagTypes'
      BY <1>22 DEF ReadEnd, lib, cmdVars, hist, FlagTypes
    <2>2. PlaceTypes'
      BY <1>22 DEF ReadEnd, lib, cmdVars, hist, PlaceTypes, Pcs, Sites, AppSites, InitSites,
         Bytes, None, STA_NOINIT, SiteInv
    <2>3. ReadTypes'
      BY <1>22 DEF ReadEnd, lib, cmdVars, hist, ReadTypes, CardTypes, SiteInv, None
    <2>4. SiteInv' /\ QuietInv'
      BY <1>22 DEF ReadEnd, lib, cmdVars, hist, RES_OK, RES_ERROR, SiteInv, FlagTypes, PlaceTypes,
         ReadTypes, STA_NOINIT, AppSites, InitSites, QuietInv, None, Bytes, cardVars, answer,
         stream
    <2>. QED BY <2>1, <2>2, <2>3, <2>4 DEF CoreInv, DriverTypes
  <1>23. CASE Initialize
    <2>. CardTypes'
      BY <1>23 DEF Initialize, CardTypes, cardVars, answer, stream
    <2>1. FlagTypes'
      BY <1>23 DEF Initialize, Enter, Arguments, lib, FlagTypes
    <2>2. PlaceTypes'
      BY <1>23 DEF Initialize, Enter, Arguments, lib, PlaceTypes, Pcs, Sites, AppSites, InitSites,
         Bytes, None, STA_NOINIT, SiteInv
    <2>3. ReadTypes'
      BY <1>23 DEF Initialize, Enter, Arguments, lib, ReadTypes, CardTypes, SiteInv, None
    <2>4. SiteInv' /\ QuietInv'
      BY <1>23 DEF Initialize, Enter, Arguments, lib, SiteInv, FlagTypes, PlaceTypes, ReadTypes,
         STA_NOINIT, AppSites, InitSites, QuietInv, None, Bytes, cardVars, answer, stream
    <2>. QED BY <2>1, <2>2, <2>3, <2>4 DEF CoreInv, DriverTypes
  <1>24. CASE \E n \in 0..Sectors, k \in 1..MaxCount : DiskRead(n, k)
    <2>. CardTypes'
      BY <1>24 DEF DiskRead, CardTypes, cardVars, answer, stream
    <2>1. FlagTypes'
      BY <1>24 DEF DiskRead, Enter, Arguments, RES_OK, bus, lib, FlagTypes
    <2>2. PlaceTypes'
      BY <1>24 DEF DiskRead, Enter, Arguments, RES_OK, bus, lib, PlaceTypes, Pcs, Sites, AppSites,
         InitSites, Bytes, None, STA_NOINIT, SiteInv
    <2>3. ReadTypes'
      BY <1>24 DEF DiskRead, Enter, Arguments, RES_OK, bus, lib, ReadTypes, CardTypes, SiteInv, None
    <2>4. SiteInv' /\ QuietInv'
      BY <1>24 DEF DiskRead, Enter, Arguments, RES_OK, bus, lib, SiteInv, FlagTypes, PlaceTypes,
         ReadTypes, STA_NOINIT, AppSites, InitSites, QuietInv, None, Bytes, cardVars, answer,
         stream
    <2>. QED BY <2>1, <2>2, <2>3, <2>4 DEF CoreInv, DriverTypes
  <1>25. CASE \E n \in 0..Sectors, k \in 1..MaxCount : NotReady(n, k)
    <2>. CardTypes'
      BY <1>25 DEF NotReady, CardTypes, cardVars, answer, stream
    <2>1. FlagTypes'
      BY <1>25 DEF NotReady, Arguments, RES_NOTRDY, bus, lib, cmdVars, FlagTypes
    <2>2. PlaceTypes'
      BY <1>25 DEF NotReady, Arguments, RES_NOTRDY, bus, lib, cmdVars, PlaceTypes, Pcs, Sites,
         AppSites, InitSites, Bytes, None, STA_NOINIT, SiteInv
    <2>3. ReadTypes'
      BY <1>25 DEF NotReady, Arguments, RES_NOTRDY, bus, lib, cmdVars, ReadTypes, CardTypes,
         SiteInv, None
    <2>4. SiteInv' /\ QuietInv'
      BY <1>25 DEF NotReady, Arguments, RES_NOTRDY, bus, lib, cmdVars, SiteInv, FlagTypes,
         PlaceTypes, ReadTypes, STA_NOINIT, AppSites, InitSites, QuietInv, None, Bytes, cardVars,
         answer, stream
    <2>. QED BY <2>1, <2>2, <2>3, <2>4 DEF CoreInv, DriverTypes
  <1>26. CASE User
    <2>. Swap
      BY <1>26 DEF User
    <2>. kind' \in Kinds /\ card' \in {"absent", "native", "idle", "ready"}
      BY DEF Swap, CardTypes
    <2>1. prefixed' \in BOOLEAN /\ busy' \in BOOLEAN /\ many' \in BOOLEAN
      BY DEF Swap
    <2>2. reply' \in Bytes \cup {None} /\ tail' \in Bytes \cup {None} /\ late' \in 0..Latency
      BY DEF Swap
    <2>3. part' \in {"none", "token", "data", "crc"} /\ block' \in 0..Sectors /\ (part' # "none" => block' < Sectors)
      BY DEF Swap
    <2>. CardTypes'
      BY <2>1, <2>2, <2>3 DEF CardTypes
    <2>4. FlagTypes'
      BY <1>26 DEF User, Swap, bus, lib, cmdVars, args, FlagTypes
    <2>5. PlaceTypes'
      BY <1>26 DEF User, Swap, bus, lib, cmdVars, args, PlaceTypes, Pcs, Sites, AppSites,
         InitSites, Bytes, None, STA_NOINIT, SiteInv
    <2>6. ReadTypes'
      BY <1>26 DEF User, Swap, bus, lib, cmdVars, args, ReadTypes, CardTypes, SiteInv, None
    <2>7. SiteInv' /\ QuietInv'
      BY <1>26 DEF User, Swap, bus, lib, cmdVars, args, SiteInv, FlagTypes, PlaceTypes, ReadTypes,
         STA_NOINIT, AppSites, InitSites, QuietInv, None, Bytes
    <2>. QED BY <2>4, <2>5, <2>6, <2>7 DEF CoreInv, DriverTypes
  <1>27. CASE UNCHANGED vars
    BY <1>27 DEF vars, bus, lib, cmdVars, args, hist, CoreInv, CardTypes, DriverTypes, FlagTypes,
       PlaceTypes, ReadTypes, SiteInv, QuietInv, cardVars, answer, stream
  <1>. QED
    BY <1>1, <1>2, <1>3, <1>4, <1>5, <1>6, <1>7, <1>8, <1>9, <1>10, <1>11, <1>12, <1>13, <1>14,
       <1>15, <1>16, <1>17, <1>18, <1>19, <1>20, <1>21, <1>22, <1>23, <1>24, <1>25, <1>26, <1>27
    DEF Next, Driver, SendCmd, DiskInitialize, ReadSectors, Caller

-----------------------------------------------------------------------------
(* The card is known for what it is *)

\* Nothing has been initialised at the start.
LEMMA InitInit == Init => InitInv
  BY CardAssumption DEF Init, CardInit, InitInv, ResetInv, ServeInv, FoundInv, KnownInv,
     Initialising

\* What an initialisation has found of the card is kept by every step.
LEMMA InitStep ==
    ASSUME CoreInv, CoreInv', InitInv, [Next]_vars
    PROVE  InitInv'
  <1>. CardTypes /\ FlagTypes /\ PlaceTypes /\ SiteInv /\ QuietInv
    BY DEF CoreInv, DriverTypes
  <1>. ResetInv /\ ServeInv /\ FoundInv /\ KnownInv
    BY DEF InitInv
  <1>. Kinds \subseteq {"HC", "SC", "SD1", "MMC"}
    BY CardAssumption
  <1>. USE DEF InitInv, ResetInv, ServeInv, FoundInv, KnownInv, Initialising, Serves, Ocr, CT_MMC,
     CT_SD1, CT_SD2, CT_BLOCK, STA_NOINIT, SiteInv, QuietInv, CardTypes, FlagTypes, PlaceTypes,
     AppSites, InitSites, None
  <1>1. CASE Select
    BY <1>1 DEF Select, Drop, lib, cmdVars, args, hist
  <1>2. CASE WaitReady
    <2>1. pc = "ready" /\ UNCHANGED <<fast, lib, site, prefix, tmr, ty, args, count, buff, hist>>
      BY <1>2 DEF WaitReady
    <2>2. PICK v \in Bytes : Rcvr(v) /\
                         \/ v = 255 /\ pc' = "packet" /\ UNCHANGED <<sel, d, tries>>
                         \/ v # 255 /\ tries > 1 /\ tries' = tries - 1 /\ UNCHANGED <<pc, sel, d>>
                         \/ /\ v # 255 /\ tries = 1
                            /\ pc' = "answered" /\ sel' = FALSE /\ d' = 255 /\ UNCHANGED tries
      BY <1>2 DEF WaitReady
    <2>3. Byte(v)
      BY <2>1, <2>2, Selected
    <2>4. kind' = kind /\ card' = card
      BY <2>3, ByteStep
    <2>5. pc' \in {"ready", "packet"} \/ (pc' = "answered" /\ d' = 255)
      BY <2>1, <2>2
    <2>. QED BY <2>1, <2>4, <2>5 DEF bus, lib, cmdVars, args, hist, Common
  <1>3. CASE Xmit
    <2>1. PacketCard /\ PacketAnswer /\ card' \in {"absent", "native", "idle", "ready"}
      BY <1>3, PacketStep DEF Xmit
    <2>. QED BY <1>3, <2>1 DEF Xmit, bus, lib, cmdVars, args, hist, Common, PacketCard, PacketAnswer
  <1>4. CASE Stuff
    <2>1. pc = "stuff" /\ pc' = "response" /\ UNCHANGED <<bus, lib, cmdVars, tries, tmr, ty, args, count, buff, hist>>
      BY <1>4 DEF Stuff
    <2>2. PICK v \in Bytes : Rcvr(v)
      BY <1>4 DEF Stuff
    <2>3. Byte(v)
      BY <2>1, <2>2, Selected
    <2>4. kind' = kind /\ card' = card
      BY <2>3, ByteStep
    <2>. QED BY <2>1, <2>2, <2>4 DEF bus, lib, cmdVars, args, hist, Common
  <1>5. CASE Response
    <2>1. /\ pc = "response" /\ tries' = IF tries > 1 THEN tries - 1 ELSE tries
        /\ UNCHANGED <<bus, lib, site, prefix, tmr, ty, args, count, buff, hist>>
      BY <1>5 DEF Response
    <2>2. PICK v \in Bytes : /\ Rcvr(v) /\ d' = v
                                     /\ IF v >= 128 /\ tries > 1 THEN pc' = pc ELSE pc' = "answered"
      BY <1>5 DEF Response
    <2>3. Byte(v)
      BY <2>1, <2>2, Selected
    <2>4. kind' = kind /\ card' = card
      BY <2>3, ByteStep
    <2>5. site # "stop" /\ part = "none" =>
              \/ v = 255 /\ reply' = reply /\ tail' = tail
              \/ reply # None /\ v = reply /\ v < 128 /\ reply' = tail /\ late' = 0
      BY <2>1, <2>3, ByteStep
    <2>. v \in Nat
      BY DEF Bytes
    <2>6. Initialising => site # "stop" /\ part = "none"
      BY <2>1
    <2>7. Initialising =>
              \/ d' = 255 /\ reply' = reply /\ tail' = tail
              \/ d' = reply /\ pc' = "answered" /\ reply' = tail /\ late' = 0
      BY <2>2, <2>5, <2>6
    <2>8. pc' \in {"response", "answered"}
      BY <2>1, <2>2
    <2>. QED BY <2>1, <2>4, <2>7, <2>8 DEF bus, lib, cmdVars, args, hist, Common
  <1>6. CASE Prefixed
    BY <1>6 DEF Prefixed, bus, lib, args, hist, cardVars, answer, stream
  <1>7. CASE Cmd0
    BY <1>7 DEF Cmd0, Answered, Send, End, lib, cmdVars, args, cardVars, answer, stream
  <1>8. CASE Cmd8
    BY <1>8 DEF Cmd8, Answered, Send, bus, lib, cmdVars, args, hist, Common, cardVars, answer,
       stream
  <1>9. CASE Trail
    <2>1. pc = "trail" /\ UNCHANGED <<bus, lib, tries, args, count, buff, hist>>
      BY <1>9 DEF Trail, Common
    <2>2. PICK v \in Bytes : Rcvr(v) /\
                         IF site = "cmd8"
                         THEN IF v = 426 THEN Send("acmd41") /\ tmr' = InitTries /\ UNCHANGED ty
                                         ELSE End(0)
                         ELSE End(IF (v \div 64) % 2 = 1 THEN CT_SD2 + CT_BLOCK ELSE CT_SD2)
      BY <1>9 DEF Trail
    <2>3. Byte(v)
      BY <2>1, <2>2, Selected
    <2>4. kind' = kind /\ card' = card
      BY <2>3, ByteStep
    <2>5. reply = Ocr /\ late = 0 => v = Ocr
      BY <2>1, <2>3, ByteStep
    <2>. QED BY <2>1, <2>2, <2>4, <2>5 DEF Send, End, bus, lib, cmdVars, args, hist, Common
  <1>10. CASE Cmd58
    BY <1>10 DEF Cmd58, Answered, End, bus, lib, cmdVars, args, hist, Common, cardVars, answer,
       stream
  <1>11. CASE Probe
    BY <1>11 DEF Probe, Answered, Send, bus, lib, args, hist, Common, cardVars, answer, stream
  <1>12. CASE Cmd16
    BY <1>12 DEF Cmd16, Answered, End, bus, lib, cmdVars, args, hist, Common, cardVars, answer,
       stream
  <1>13. CASE InitEnd
    <2>1. known => card = "ready" \/ ty = 0
      BY <1>13 DEF InitEnd
    <2>2. card = "ready" /\ ty # 0 => known
      BY <1>13 DEF InitEnd
    <2>3. known' => known /\ ty # 0
      BY <1>13 DEF InitEnd
    <2>4. known /\ ty # 0 => known'
      BY <1>13 DEF InitEnd
    <2>5. Stat' = 0 <=> ty # 0
      BY <1>13 DEF InitEnd
    <2>6. UNCHANGED <<kind, card>> /\ CardType' = ty
      BY <1>13 DEF InitEnd, cardVars
    <2>7. known /\ ty # 0 => card = "ready" /\ (ty >= CT_BLOCK <=> kind = "HC")
      BY <1>13 DEF InitEnd
    <2>8. ResetInv'
      BY <1>13 DEF InitEnd, cmdVars, cardVars, answer, stream
    <2>9. ServeInv'
      BY <1>13 DEF InitEnd, cmdVars, cardVars, answer, stream
    <2>10. FoundInv'
      BY <1>13 DEF InitEnd, cmdVars, cardVars, answer, stream
    <2>11. KnownInv'
      BY <2>2, <2>3, <2>4, <2>5, <2>6, <2>7
    <2>. QED BY <2>8, <2>9, <2>10, <2>11
  <1>14. CASE Again("acmd41", "cmd58")
    BY <1>14 DEF Again, Answered, Send, End, bus, lib, cmdVars, args, hist, Common, cardVars,
       answer, stream
  <1>15. CASE Again("acmd41v1", "cmd16")
    BY <1>15 DEF Again, Answered, Send, End, bus, lib, cmdVars, args, hist, Common, cardVars,
       answer, stream
  <1>16. CASE Again("cmd1", "cmd16")
    BY <1>16 DEF Again, Answered, Send, End, bus, lib, cmdVars, args, hist, Common, cardVars,
       answer, stream
  <1>17. CASE ReadAnswered
    BY <1>17 DEF ReadAnswered, Answered, bus, lib, cmdVars, args, hist, Common, cardVars, answer,
       stream
  <1>18. CASE WaitToken
    <2>1. pc = "token" /\ UNCHANGED <<bus, lib, tmr, ty, args, count, buff, hist>>
      BY <1>18 DEF WaitToken, Common
    <2>2. PICK v \in Bytes : Rcvr(v) /\
                         \/ v = 255 /\ tries > 1 /\ tries' = tries - 1 /\ UNCHANGED <<pc, cmdVars>>
                         \/ v = 254 /\ pc' = "data" /\ UNCHANGED <<cmdVars, tries>>
                         \/ (v = 255 => tries = 1) /\ v # 254 /\ Finish /\ UNCHANGED tries
      BY <1>18 DEF WaitToken
    <2>3. Byte(v)
      BY <2>1, <2>2, Selected
    <2>4. kind' = kind /\ card' = card
      BY <2>3, ByteStep
    <2>. QED BY <2>1, <2>2, <2>4 DEF Finish, Send, bus, lib, cmdVars, args, hist, Common
  <1>19. CASE RcvrBlock
    BY <1>19 DEF RcvrBlock, Data, bus, lib, cmdVars, args, hist, cardVars, answer, stream
  <1>20. CASE RcvrCrc
    BY <1>20 DEF RcvrCrc, Crc, Finish, Send, bus, lib, cmdVars, args, hist, answer
  <1>21. CASE Stopped
    BY <1>21 DEF Stopped, Answered, bus, lib, cmdVars, args, hist, Common, cardVars, answer, stream
  <1>22. CASE ReadEnd
    BY <1>22 DEF ReadEnd, lib, cmdVars, hist, cardVars, answer, stream
  <1>23. CASE Initialize
    BY <1>23 DEF Initialize, Enter, Arguments, lib, cardVars, answer, stream
  <1>24. CASE \E n \in 0..Sectors, k \in 1..MaxCount : DiskRead(n, k)
    BY <1>24 DEF DiskRead, Enter, Arguments, RES_OK, bus, lib, cardVars, answer, stream
  <1>25. CASE \E n \in 0..Sectors, k \in 1..MaxCount : NotReady(n, k)
    BY <1>25 DEF NotReady, Arguments, RES_NOTRDY, bus, lib, cmdVars, cardVars, answer, stream
  <1>26. CASE User
    BY <1>26 DEF User, Swap, bus, lib, cmdVars, args
  <1>27. CASE UNCHANGED vars
    BY <1>27 DEF vars, bus, lib, cmdVars, args, hist, InitInv, ResetInv, ServeInv, FoundInv,
       KnownInv, Initialising, Serves, Ocr, cardVars, answer, stream
  <1>. QED
    BY <1>1, <1>2, <1>3, <1>4, <1>5, <1>6, <1>7, <1>8, <1>9, <1>10, <1>11, <1>12, <1>13, <1>14,
       <1>15, <1>16, <1>17, <1>18, <1>19, <1>20, <1>21, <1>22, <1>23, <1>24, <1>25, <1>26, <1>27
    DEF Next, Driver, SendCmd, DiskInitialize, ReadSectors, Caller

-----------------------------------------------------------------------------
(* What is read is what was asked for *)

\* Nothing has been read at the start.
LEMMA ReadInit == Init => ReadInv
  BY DEF Init, ReadInv, MineInv, FillInv, SendInv, ReadsRight, Reading

\* A card that is known is sent the address of the sector, in its own unit.
LEMMA Addressed ==
    ASSUME CoreInv, KnownInv, ~Initialising, known
    PROVE  Block(Address) = sector
  <1>. sector \in Nat /\ SectorBytes \in Nat \ {0} /\ CardType \in Nat
    BY CardAssumption DEF CoreInv, DriverTypes, PlaceTypes, ReadTypes
  <1>1. (sector * SectorBytes) \div SectorBytes = sector
    OBVIOUS
  <1>. QED BY <1>1 DEF KnownInv, Block, Address, CT_BLOCK

\* The blocks in the buffer and the one on its way are kept by every step.
LEMMA ReadStep ==
    ASSUME CoreInv, CoreInv', InitInv, ReadInv, [Next]_vars
    PROVE  ReadInv'
  <1>. CardTypes /\ FlagTypes /\ PlaceTypes /\ ReadTypes /\ SiteInv /\ QuietInv
    BY DEF CoreInv, DriverTypes
  <1>. KnownInv /\ MineInv /\ FillInv /\ SendInv /\ ReadsRight
    BY DEF InitInv, ReadInv
  <1>. USE DEF ReadInv, MineInv, FillInv, SendInv, ReadsRight, Reading, Sending, KnownInv,
     Initialising, STA_NOINIT, SiteInv, QuietInv, CardTypes, FlagTypes, PlaceTypes, ReadTypes,
     AppSites, InitSites, None
  <1>1. CASE Select
    BY <1>1 DEF Select, Drop, lib, cmdVars, args, hist
  <1>2. CASE WaitReady
    <2>1. pc = "ready" /\ UNCHANGED <<fast, lib, site, prefix, tmr, ty, args, count, buff, hist>>
      BY <1>2 DEF WaitReady
    <2>2. PICK v \in Bytes : Rcvr(v) /\
                         \/ v = 255 /\ pc' = "packet" /\ UNCHANGED <<sel, d, tries>>
                         \/ v # 255 /\ tries > 1 /\ tries' = tries - 1 /\ UNCHANGED <<pc, sel, d>>
                         \/ /\ v # 255 /\ tries = 1
                            /\ pc' = "answered" /\ sel' = FALSE /\ d' = 255 /\ UNCHANGED tries
      BY <1>2 DEF WaitReady
    <2>3. Byte(v)
      BY <2>1, <2>2, Selected
    <2>4. kind' = kind /\ card' = card /\ block' = block
      BY <2>3, ByteStep
    <2>5. pc' \in {"ready", "packet"} \/ (pc' = "answered" /\ d' = 255)
      BY <2>1, <2>2
    <2>. QED BY <2>1, <2>4, <2>5 DEF bus, lib, cmdVars, args, hist, Common, DiskStatus, RES_OK,
       RES_ERROR, RES_NOTRDY
  <1>3. CASE Xmit
    <2>1. PacketCard /\ PacketAnswer
      BY <1>3, PacketStep DEF Xmit
    <2>. QED BY <1>3, <2>1, Addressed DEF Xmit, bus, lib, cmdVars, args, hist, Common, PacketCard,
       PacketAnswer, DiskStatus, RES_OK, RES_ERROR, RES_NOTRDY
  <1>4. CASE Stuff
    <2>1. pc = "stuff" /\ pc' = "response" /\ UNCHANGED <<bus, lib, cmdVars, tries, tmr, ty, args, count, buff, hist>>
      BY <1>4 DEF Stuff
    <2>2. PICK v \in Bytes : Rcvr(v)
      BY <1>4 DEF Stuff
    <2>3. Byte(v)
      BY <2>1, <2>2, Selected
    <2>4. kind' = kind /\ card' = card /\ block' = block
      BY <2>3, ByteStep
    <2>. QED BY <2>1, <2>2, <2>4 DEF bus, lib, cmdVars, args, hist, Common, DiskStatus, RES_OK,
       RES_ERROR, RES_NOTRDY
  <1>5. CASE Response
    <2>1. /\ pc = "response" /\ tries' = IF tries > 1 THEN tries - 1 ELSE tries
        /\ UNCHANGED <<bus, lib, site, prefix, tmr, ty, args, count, buff, hist>>
      BY <1>5 DEF Response
    <2>2. PICK v \in Bytes : /\ Rcvr(v) /\ d' = v
                                     /\ IF v >= 128 /\ tries > 1 THEN pc' = pc ELSE pc' = "answered"
      BY <1>5 DEF Response
    <2>3. Byte(v)
      BY <2>1, <2>2, Selected
    <2>4. kind' = kind /\ card' = card /\ block' = block
      BY <2>3, ByteStep
    <2>. v \in Nat
      BY DEF Bytes
    <2>5. site # "stop" =>
              \/ d' = 255 /\ reply' = reply /\ tail' = tail /\ part' = part
              \/ d' = reply /\ pc' = "answered" /\ reply' = tail /\ part' = part
              \/ reply = None /\ part # "none"
      BY <2>1, <2>2, <2>3, ByteStep
    <2>6. pc' \in {"response", "answered"}
      BY <2>1, <2>2
    <2>. QED BY <2>1, <2>4, <2>5, <2>6 DEF bus, lib, cmdVars, args, hist, Common, DiskStatus,
       RES_OK, RES_ERROR, RES_NOTRDY
  <1>6. CASE Prefixed
    BY <1>6 DEF Prefixed, bus, lib, args, hist, cardVars, answer, stream
  <1>7. CASE Cmd0
    BY <1>7 DEF Cmd0, Answered, Send, End, lib, cmdVars, args, cardVars, answer, stream
  <1>8. CASE Cmd8
    BY <1>8 DEF Cmd8, Answered, Send, bus, lib, cmdVars, args, hist, Common, cardVars, answer,
       stream
  <1>9. CASE Trail
    <2>1. pc = "trail" /\ UNCHANGED <<bus, lib, tries, args, count, buff, hist>>
      BY <1>9 DEF Trail, Common
    <2>2. PICK v \in Bytes : Rcvr(v) /\
                         IF site = "cmd8"
                         THEN IF v = 426 THEN Send("acmd41") /\ tmr' = InitTries /\ UNCHANGED ty
                                         ELSE End(0)
                         ELSE End(IF (v \div 64) % 2 = 1 THEN CT_SD2 + CT_BLOCK ELSE CT_SD2)
      BY <1>9 DEF Trail
    <2>3. Byte(v)
      BY <2>1, <2>2, Selected
    <2>4. kind' = kind /\ card' = card /\ block' = block
      BY <2>3, ByteStep
    <2>. QED BY <2>1, <2>2, <2>4 DEF Send, End, bus, lib, cmdVars, args, hist, Common, DiskStatus,
       RES_OK, RES_ERROR, RES_NOTRDY
  <1>10. CASE Cmd58
    BY <1>10 DEF Cmd58, Answered, End, bus, lib, cmdVars, args, hist, Common, cardVars, answer,
       stream
  <1>11. CASE Probe
    BY <1>11 DEF Probe, Answered, Send, bus, lib, args, hist, Common, cardVars, answer, stream
  <1>12. CASE Cmd16
    BY <1>12 DEF Cmd16, Answered, End, bus, lib, cmdVars, args, hist, Common, cardVars, answer,
       stream
  <1>13. CASE InitEnd
    BY <1>13 DEF InitEnd, cmdVars, cardVars, answer, stream
  <1>14. CASE Again("acmd41", "cmd58")
    BY <1>14 DEF Again, Answered, Send, End, bus, lib, cmdVars, args, hist, Common, cardVars,
       answer, stream
  <1>15. CASE Again("acmd41v1", "cmd16")
    BY <1>15 DEF Again, Answered, Send, End, bus, lib, cmdVars, args, hist, Common, cardVars,
       answer, stream
  <1>16. CASE Again("cmd1", "cmd16")
    BY <1>16 DEF Again, Answered, Send, End, bus, lib, cmdVars, args, hist, Common, cardVars,
       answer, stream
  <1>17. CASE ReadAnswered
    BY <1>17 DEF ReadAnswered, Answered, bus, lib, cmdVars, args, hist, Common, cardVars, answer,
       stream
  <1>18. CASE WaitToken
    <2>1. pc = "token" /\ UNCHANGED <<bus, lib, tmr, ty, args, count, buff, hist>>
      BY <1>18 DEF WaitToken, Common
    <2>2. PICK v \in Bytes : Rcvr(v) /\
                         \/ v = 255 /\ tries > 1 /\ tries' = tries - 1 /\ UNCHANGED <<pc, cmdVars>>
                         \/ v = 254 /\ pc' = "data" /\ UNCHANGED <<cmdVars, tries>>
                         \/ (v = 255 => tries = 1) /\ v # 254 /\ Finish /\ UNCHANGED tries
      BY <1>18 DEF WaitToken
    <2>3. Byte(v)
      BY <2>1, <2>2, Selected
    <2>4. kind' = kind /\ card' = card /\ block' = block
      BY <2>3, ByteStep
    <2>5. reply = None /\ part \in {"token", "none"} =>
              /\ reply' = None
              /\ v = 255 => part' = part
              /\ v = 254 => part = "token" /\ part' = "data"
      BY <2>1, <2>3, ByteStep
    <2>. QED BY <2>1, <2>2, <2>4, <2>5 DEF Finish, Send, bus, lib, cmdVars, args, hist, Common,
       DiskStatus, RES_OK, RES_ERROR, RES_NOTRDY
  <1>19. CASE RcvrBlock
    <2>1. asked - count \in 0..(MaxCount - 1)
      BY <1>19, DriverAssumption DEF RcvrBlock
    <2>2. buff \in [0..(MaxCount - 1) -> (0..Sectors) \cup {None}]
      OBVIOUS
    <2>3. buff' = [buff EXCEPT ![asked - count] = IF part = "data" THEN block ELSE None]
      BY <1>19 DEF RcvrBlock
    <2>4. part = "data" => buff'[asked - count] = block
      BY <2>1, <2>2, <2>3
    <2>5. MineInv'
      BY <1>19, <2>4 DEF RcvrBlock, Data, bus, lib, cmdVars, args, hist, cardVars, answer, stream
    <2>6. FillInv'
      BY <1>19, <2>4 DEF RcvrBlock, Data, bus, lib, cmdVars, args, hist, cardVars, answer, stream
    <2>7. SendInv'
      BY <1>19, <2>4 DEF RcvrBlock, Data, bus, lib, cmdVars, args, hist, cardVars, answer, stream
    <2>8. ReadsRight'
      BY <1>19, <2>4 DEF RcvrBlock, Data, bus, lib, cmdVars, args, hist, cardVars, answer, stream,
         RES_OK
    <2>. QED BY <2>5, <2>6, <2>7, <2>8
  <1>20. CASE RcvrCrc
    <2>1. /\ pc = "crc" /\ count' = count - 1
          /\ UNCHANGED <<sector, asked, buff, call, swapped>>
      BY <1>20 DEF RcvrCrc, args, hist
    <2>2. asked \in Nat /\ count \in Nat /\ site = "read"
      BY <2>1
    <2>3. ASSUME Reading', NEW i \in 0..(asked' - count' - 1)
          PROVE  buff'[i] = sector' + i
      <3>1. Reading
        BY <2>1, <2>3
      <3>2. CASE i = asked - count
        BY <2>1, <2>2, <3>1, <3>2
      <3>3. CASE i # asked - count
        <4>1. i \in 0..(asked - count - 1)
          BY <2>1, <2>2, <3>3
        <4>. QED BY <2>1, <3>1, <4>1
      <3>. QED BY <3>2, <3>3
    <2>4. MineInv'
      BY <1>20 DEF RcvrCrc, Crc, Finish, Send, bus, lib, cmdVars, args, hist, answer
    <2>5. FillInv'
      BY <2>3
    <2>6. SendInv'
      BY <1>20 DEF RcvrCrc, Crc, Finish, Send, bus, lib, cmdVars, args, hist, answer
    <2>7. ReadsRight'
      BY <1>20 DEF RcvrCrc, Crc, Finish, Send, bus, lib, cmdVars, args, hist, answer, RES_OK
    <2>. QED BY <2>4, <2>5, <2>6, <2>7
  <1>21. CASE Stopped
    BY <1>21 DEF Stopped, Answered, bus, lib, cmdVars, args, hist, Common, cardVars, answer, stream
  <1>22. CASE ReadEnd
    BY <1>22 DEF ReadEnd, lib, cmdVars, hist, cardVars, answer, stream, RES_OK, RES_ERROR
  <1>23. CASE Initialize
    BY <1>23 DEF Initialize, Enter, Arguments, lib, cardVars, answer, stream
  <1>24. CASE \E n \in 0..Sectors, k \in 1..MaxCount : DiskRead(n, k)
    BY <1>24 DEF DiskRead, Enter, Arguments, RES_OK, bus, lib, cardVars, answer, stream, DiskStatus
  <1>25. CASE \E n \in 0..Sectors, k \in 1..MaxCount : NotReady(n, k)
    <2>1. MineInv'
      BY <1>25 DEF NotReady, Arguments, RES_NOTRDY, bus, lib, cmdVars, cardVars, answer, stream,
         DiskStatus
    <2>2. FillInv'
      BY <1>25 DEF NotReady, Arguments, RES_NOTRDY, bus, lib, cmdVars, cardVars, answer, stream
    <2>3. SendInv'
      BY <1>25 DEF NotReady, Arguments, RES_NOTRDY, bus, lib, cmdVars, cardVars, answer, stream
    <2>4. ReadsRight'
      BY <1>25 DEF NotReady, Arguments, RES_NOTRDY, bus, lib, cmdVars, cardVars, answer, stream,
         RES_OK
    <2>. QED BY <2>1, <2>2, <2>3, <2>4
  <1>26. CASE User
    BY <1>26 DEF User, Swap, bus, lib, cmdVars, args
  <1>27. CASE UNCHANGED vars
    BY <1>27 DEF vars, bus, lib, cmdVars, args, hist, ReadInv, MineInv, FillInv, SendInv, Sending,
       ReadsRight, Reading, cardVars, answer, stream
  <1>. QED
    BY <1>1, <1>2, <1>3, <1>4, <1>5, <1>6, <1>7, <1>8, <1>9, <1>10, <1>11, <1>12, <1>13, <1>14,
       <1>15, <1>16, <1>17, <1>18, <1>19, <1>20, <1>21, <1>22, <1>23, <1>24, <1>25, <1>26, <1>27
    DEF Next, Driver, SendCmd, DiskInitialize, ReadSectors, Caller

-----------------------------------------------------------------------------
(* The theorems *)

\* The strengthened invariant is inductive.
THEOREM Invariance == Spec => []IInv
  <1>1. Init => IInv
    BY CoreInit, InitInit, ReadInit DEF IInv
  <1>2. IInv /\ [Next]_vars => IInv'
    BY CoreStep, InitStep, ReadStep DEF IInv
  <1>. QED BY <1>1, <1>2, PTL DEF Spec

\* Every variable stays within its type: no counter passes its limits, and
\* count, an unsigned int in disk_read, never goes below 0.
THEOREM TypeCorrect == Spec => []TypeOK
  <1>1. IInv => TypeOK
    BY DEF IInv, CoreInv, CardTypes, DriverTypes, PlaceTypes, ReadTypes, TypeOK
  <1>. QED BY <1>1, Invariance, PTL

\* disk_initialize takes no card for one of another kind, whatever packets
\* and answers are lost.
THEOREM KnownCorrect == Spec => []TypeKnown
  <1>1. IInv => TypeKnown
    BY DEF IInv, InitInv, KnownInv, Initialising, TypeKnown
  <1>. QED BY <1>1, Invariance, PTL

\* disk_read succeeds with the sectors asked for, of the card that was
\* initialised, or it fails.
THEOREM ReadsCorrect == Spec => []ReadsRight
  <1>1. IInv => ReadsRight
    BY DEF IInv, ReadInv
  <1>. QED BY <1>1, Invariance, PTL

\* The clock is slow until a card that is being initialised has answered.
THEOREM SlowCorrect == Spec => []SlowToIdle
  <1>1. IInv => SlowToIdle
    BY DEF IInv, InitInv, ResetInv, ServeInv, Serves, Initialising, SlowToIdle
  <1>. QED BY <1>1, Invariance, PTL

\* send_cmd sends nothing but a stop to a card that is busy.
THEOREM BusyCorrect == Spec => NotWhileBusy
  <1>1. IInv /\ [Next]_vars => [pc = "packet" /\ pc' # "packet" /\ busy /\ sel => Command = 12]_vars
    BY CommandSite DEF IInv, CoreInv, QuietInv
  <1>. QED BY <1>1, Invariance, PTL DEF Spec, NotWhileBusy

\* The clock is slow until a card has answered, and a busy one is left alone.
THEOREM RulesCorrect == Spec => CardRules
  BY SlowCorrect, BusyCorrect, PTL DEF CardRules
=============================================================================
