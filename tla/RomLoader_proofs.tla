-------------------------- MODULE RomLoader_proofs --------------------------
(***************************************************************************)
(* Proofs about RomLoader: a card that was initialised is addressed in its  *)
(* unit and gives the sector that is shown, a card and a push are taken     *)
(* once, and the machine is given to a cartridge that was there throughout. *)
(***************************************************************************)
EXTENDS RomLoader, TLAPS

\* The card; the loader sends no CMD12, so that it is never busy.
CardTypes ==
    /\ kind \in Kinds /\ card \in {"absent", "native", "idle", "ready"}
    /\ prefixed \in BOOLEAN /\ busy = FALSE /\ many = FALSE
    /\ reply \in Bytes \cup {None} /\ tail \in Bytes \cup {None} /\ late \in 0..Latency
    /\ part \in {"none", "token", "data", "crc"} /\ block \in Nat

FlagTypes ==
    /\ frame \in BOOLEAN /\ news \in BOOLEAN /\ refused \in BOOLEAN /\ offered \in BOOLEAN
    /\ known \in BOOLEAN /\ removed \in BOOLEAN
    /\ cart \in BOOLEAN /\ have_cart \in BOOLEAN /\ acted \in BOOLEAN

Initialising == Working /\ site # "read"

\* Where the loop can be, for which command.
PlaceInv ==
    /\ pc = "trail" => site \in {"cmd8", "volt", "css"}
    /\ pc \in {"token", "data"} => site = "read"
    /\ Initialising => sd = "init" /\ rtn = "none"
    /\ Working /\ site = "read" => sd = "found"
    /\ Initialising /\ site = "cmd0" => ~known
    /\ sd = "notfound" => removed
    /\ sd = "init" /\ ~Working => removed

Responses == {0, 1, 4, 5, 64, 65, None}

\* From the selection of a card to its response nothing else comes from it.
QuietInv ==
    /\ pc = "packet" => reply = None /\ tail = None /\ part = "none"
    /\ pc = "response" => reply \in Responses
    /\ pc = "response" /\ site # "read" => part = "none"
    /\ pc = "response" /\ site = "read" => part \in {"none", "token"} /\ (reply = None => part = "none")

CoreInv == CardTypes /\ FlagTypes /\ TypeOK /\ PlaceInv /\ QuietInv

\* A card that addresses blocks is not told that the host can before ACMD41, and
\* never where it is taken for one that addresses bytes.
Untold == \/ site \in {"cmd8", "volt"} \/ addr_size = "byte"
          \/ site = "cmd0" /\ pc \in {"response", "answered"}
OfferInv == Initialising /\ Untold => ~offered

Ocr == IF kind = "HC" THEN 64 ELSE 0

\* What the card that answered CMD0 has answered since tells what it is.
FoundInv ==
    Initialising /\ known =>
        /\ card \in {"idle", "ready"}
        /\ kind = "HC" /\ (site \in {"cmd8", "volt"} \/ addr_size = "byte") => card = "idle"
        /\ pc = "response" /\ reply = 0 => card = "ready"
        /\ pc = "answered" /\ d = 0 => card = "ready"
        /\ site \in {"css", "cmd16"} => card = "ready"
        /\ site = "cmd16" => addr_size = "byte"
        /\ site = "css" =>
              /\ addr_size = "block"
              /\ pc = "response" /\ reply # None => tail = Ocr
              /\ pc = "answered" /\ d <= 1 => reply = Ocr /\ late = 0
              /\ pc = "trail" => reply = Ocr /\ late = 0

TypeInv == OfferInv /\ FoundInv /\ CardKnown

Sending == reply = None /\ part = "token" /\ block = Wanted

\* The block the loader waits for is the one that comes.
SendInv ==
    Working /\ site = "read" /\ known =>
        /\ pc = "response" /\ reply = 0 => tail = None /\ part = "token" /\ block = Wanted
        /\ pc = "response" /\ reply # 0 => part = "none"
        /\ pc = "answered" /\ d = 0 => Sending
        /\ pc = "token" => Sending
        /\ pc = "data" => part = "data" /\ block = Wanted

ReadInv == SendInv /\ ReadsWanted

\* The counters of the cartridge and of the stick, against what was seen of them.
PadsInv ==
    /\ have_cart = cart
    /\ cart => seen = CartTicks + 2
    /\ cart_delay <= seen
    /\ acted => joy \in Actions \cup {"wait"}

-----------------------------------------------------------------------------
(* The card *)

\* Bytes come from the answer before the block, and change nothing else.
LEMMA ByteStep ==
    ASSUME CardTypes, NEW v \in Bytes, Byte(v)
    PROVE  /\ CardTypes'
           /\ kind' = kind /\ card' = card /\ block' = block
           /\ \/ /\ v = 255 /\ reply' = reply /\ tail' = tail /\ part' = part
                 /\ reply = None => part \in {"none", "token"}
                 /\ late' # late => reply # None
              \/ /\ reply # None /\ late = 0 /\ v = reply
                 /\ reply' = tail /\ tail' = None /\ late' = 0 /\ part' = part
              \/ /\ reply = None /\ part = "token" /\ reply' = reply /\ tail' = tail
                 /\ \/ v = 254 /\ part' = "data"
                    \/ v = 8 /\ part' = "none"
              \/ reply = None /\ part \in {"data", "crc"} /\ reply' = reply /\ tail' = tail /\ part' = part
           /\ reply # None /\ late = 0 => v = reply
  <1>. Latency \in Nat
    BY CardAssumption
  <1>. CASE Idle(v)
    BY DEF Idle, CardTypes, cardVars, answer, stream
  <1>. CASE Busy(v)
    BY DEF Busy, CardTypes
  <1>. CASE Late(v)
    BY DEF Late, CardTypes, cardVars, answer, stream
  <1>. CASE Reply(v)
    BY DEF Reply, CardTypes, cardVars, answer, stream, None
  <1>. CASE Token(v)
    BY DEF Token, CardTypes, cardVars, answer, stream
  <1>. CASE Inside(v)
    BY DEF Inside, CardTypes, cardVars, answer, stream
  <1>. QED BY DEF Byte

\* What a packet does to the card, by the command sent, and to its answer.
PacketCard(arg) ==
    /\ kind' = kind
    /\ site = "cmd0" => card' \in {card, "idle"}
    /\ site # "cmd0" /\ card' # card =>
          /\ card = "idle" /\ card' = "ready"
          /\ site \in {"cmd1", "again1", "acmd41", "again41"}
          /\ kind = "HC" => arg # 0

PacketAnswer(arg) ==
    /\ reply' \in Responses
    /\ site # "read" => part' = "none"
    /\ site # "cmd0" /\ reply' = 0 => card' = "ready"
    /\ site = "css" /\ reply' # None => tail' = IF kind = "HC" /\ card = "ready" THEN 64 ELSE 0
    /\ site = "read" =>
          /\ reply' = 0 => tail' = None /\ part' = "token" /\ block' = Block(arg)
          /\ reply' # 0 => part' = "none"

\* The packets that are sent.
LEMMA CommandSite ==
    ASSUME TypeOK
    PROVE  /\ Number[site] \in {0, 1, 8, 16, 17, 41, 55, 58}
           /\ site = "cmd0" <=> Number[site] = 0
           /\ Number[site] = 8 => site = "cmd8"
           /\ Number[site] = 16 => site = "cmd16"
           /\ site = "read" <=> Number[site] = 17
           /\ Number[site] = 1 => site \in {"cmd1", "again1"}
           /\ Number[site] = 41 => site \in {"acmd41", "again41"}
           /\ Number[site] = 55 => site \in {"cmd55", "again55"}
           /\ Number[site] = 58 <=> site \in {"volt", "css"}
  BY DEF TypeOK, Number

LEMMA AddressNat == Address \in Nat
  <1>1. Wanted \in Nat /\ SectorBytes \in Nat
    BY CardAssumption, LoaderAssumption
  <1>2. Wanted * SectorBytes \in Nat
    BY <1>1
  <1>. QED BY <1>1, <1>2 DEF Address

\* A packet leaves a card in one of its states, with an answer of its kind.
LEMMA PacketStep ==
    ASSUME CoreInv, pc = "packet", NEW arg \in Nat, Packet(Number[site], arg)
    PROVE  CardTypes' /\ PacketCard(arg) /\ PacketAnswer(arg)
  <1>. CardTypes /\ TypeOK
    BY DEF CoreInv
  <1>. Latency \in Nat /\ Kinds \subseteq {"HC", "SC", "SD1", "MMC"}
    BY CardAssumption
  <1>. part = "none" /\ reply = None /\ tail = None
    BY DEF CoreInv, QuietInv
  <1>1. CASE UNCHANGED cardVars
    BY <1>1 DEF CardTypes, PacketCard, PacketAnswer, Responses, cardVars, answer, stream, None, Bytes
  <1>2. CASE Obeys(Number[site], arg) /\ prefixed' = (Number[site] = 55 /\ kind # "MMC")
    <2>. prefixed' \in BOOLEAN
      BY <1>2
    <2>. DEFINE n == Number[site]
    <2>. n = Number[site]
      OBVIOUS
    <2>. HIDE DEF n
    <2>1. CASE n = 0 /\ GoIdle
      <3>. site = "cmd0"
        BY <2>1, CommandSite
      <3>. QED BY <2>1 DEF CardTypes, PacketCard, PacketAnswer, Responses, Answers, Plain, Bytes, None, GoIdle
    <2>2. CASE Serves /\ n = 1 /\ IF kind = "SC" THEN Plain(Illegal) ELSE OpCond(FALSE)
      <3>. site \in {"cmd1", "again1"}
        BY <2>2, CommandSite
      <3>. QED BY <2>2 DEF CardTypes, PacketCard, PacketAnswer, Responses, Serves, Answers, Plain, Bytes, None, R1, Illegal, OpCond
    <2>3. CASE Serves /\ n = 8 /\ IfCond
      <3>. site = "cmd8"
        BY <2>3, CommandSite
      <3>. QED BY <2>3 DEF CardTypes, PacketCard, PacketAnswer, Responses, Serves, Answers, Plain, Bytes, None, R1, Illegal, IfCond
    <2>4. CASE Serves /\ n = 16 /\ Plain(IF card = "ready" THEN 0 ELSE Illegal)
      <3>. site = "cmd16"
        BY <2>4, CommandSite
      <3>. QED BY <2>4 DEF CardTypes, PacketCard, PacketAnswer, Responses, Serves, Answers, Plain, Bytes, None, R1, Illegal
    <2>5. CASE Serves /\ n \in {17, 18} /\ Read(arg, n = 18)
      <3>. site = "read" /\ n # 18
        BY <2>5, CommandSite
      <3>. Block(arg) \in Nat
        BY CardAssumption DEF Block
      <3>a. many' = FALSE
        <4>1. many' = (n = 18) \/ many' = many
          BY <2>5 DEF Answers, Plain, Read
        <4>2. (n = 18) = FALSE
          OBVIOUS
        <4>. QED BY <4>1, <4>2 DEF CardTypes
      <3>1. CardTypes'
        BY <2>5, <3>a DEF CardTypes, Answers, Plain, Bytes, None, R1, Illegal, Read
      <3>2. PacketCard(arg)
        BY <2>5 DEF PacketCard, Answers, Plain, Read
      <3>3. PacketAnswer(arg)
        BY <2>5 DEF CardTypes, PacketAnswer, Responses, Answers, Plain, None, R1, Illegal, Read
      <3>. QED BY <3>1, <3>2, <3>3
    <2>6. CASE Serves /\ n = 41 /\ IF prefixed THEN OpCond(arg # 0) ELSE Plain(Illegal)
      <3>. site \in {"acmd41", "again41"}
        BY <2>6, CommandSite
      <3>. QED BY <2>6 DEF CardTypes, PacketCard, PacketAnswer, Responses, Serves, Answers, Plain, Bytes, None, R1, Illegal, OpCond
    <2>7. CASE Serves /\ n = 55 /\ Plain(IF kind = "MMC" THEN Illegal ELSE R1)
      <3>. site \in {"cmd55", "again55"}
        BY <2>7, CommandSite
      <3>. QED BY <2>7 DEF CardTypes, PacketCard, PacketAnswer, Responses, Serves, Answers, Plain, Bytes, None, R1, Illegal
    <2>8. CASE Serves /\ n = 58 /\ ReadOcr
      <3>. site \in {"volt", "css"}
        BY <2>8, CommandSite
      <3>. QED BY <2>8 DEF CardTypes, PacketCard, PacketAnswer, Responses, Serves, Answers, Plain, Bytes, None, R1, Illegal, ReadOcr
    <2>. n \in {0, 1, 8, 16, 17, 41, 55, 58}
      BY CommandSite
    <2>9. Obeys(n, arg) /\ n # 12
      BY <1>2, CommandSite
    <2>. QED BY <2>1, <2>2, <2>3, <2>4, <2>5, <2>6, <2>7, <2>8, <2>9 DEF Obeys
  <1>. QED BY <1>1, <1>2 DEF Packet

-----------------------------------------------------------------------------
(* What an answer makes of the initialisation *)

InitSites == {"cmd0", "cmd8", "volt", "cmd55", "acmd41", "cmd1", "again55", "again41",
              "again1", "css", "cmd16"}

\* The next command is sent, or four more bytes are read, or it has ended.
Continues == pc' = "select" /\ site' \in InitSites \ {"cmd0"} /\ d' = 0 /\ sd' = sd
ReadsOn   == pc' = "trail" /\ site' = site /\ site \in {"cmd8", "volt", "css"} /\ d' = d /\ sd' = sd
Succeeds  == pc' = "select" /\ site' = "read" /\ d' = 0 /\ sd' = "found"
Fails     == pc' = "pads" /\ site' = "cmd0" /\ d' = 0 /\ sd' = "initfail"

Handled ==
    /\ pc \in {"answered", "trail"} /\ site # "read"
    /\ Continues \/ ReadsOn \/ Succeeds \/ Fails
    /\ refused' \in BOOLEAN /\ wait' \in 0..InitTries
    /\ addr_size' \in {"byte", "block"} /\ g_sd_type' \in {"????", "SDHC", "SDSC", "MMC"}
    /\ known' \in BOOLEAN
    /\ CardTypes' /\ UNCHANGED <<kind, card>>
    /\ UNCHANGED <<vdp, tries, offered, data, pads, sd_delay, removed>>

LEMMA EndStep ==
    ASSUME NEW status, InitEnd(status)
    PROVE  /\ status # "ok" => Fails
           /\ status = "ok" => Succeeds
           /\ refused' \in BOOLEAN /\ wait' \in 0..InitTries
  <1>. 0 \in 0..InitTries
    BY LoaderAssumption
  <1>1. refused' = FALSE /\ wait' = 0
    BY DEF InitEnd
  <1>2. CASE status = "ok"
    BY <1>1, <1>2 DEF InitEnd, Send, Succeeds
  <1>3. CASE status # "ok"
    BY <1>1, <1>3 DEF InitEnd, Fails
  <1>. QED BY <1>2, <1>3

\* Attempts that are left are counted down, and none is left when it ends.
LEMMA AgainStep ==
    ASSUME TypeOK, refused \in BOOLEAN, NEW w \in Int, w <= InitTries, NEW t, Again(w, t)
    PROVE  /\ Continues \/ Fails
           /\ refused' \in BOOLEAN /\ wait' \in 0..InitTries
  <1>. InitTries \in Nat
    BY LoaderAssumption
  <1>. wait \in 0..InitTries
    BY DEF TypeOK
  <1>1. CASE w > 0 /\ d = 1
    <2>1. Send(IF t = "MMC" THEN "again1" ELSE "again55") /\ wait' = w /\ UNCHANGED refused /\ Goes
      BY <1>1 DEF Again
    <2>. QED BY <1>1, <2>1 DEF Send, Goes, Continues, InitSites
  <1>2. CASE ~(w > 0 /\ d = 1) /\ (w = 0 \/ d # 0)
    BY <1>2, EndStep DEF Again
  <1>3. CASE w # 0 /\ d = 0
    BY <1>3 DEF Again, Send, Goes, Continues, InitSites
  <1>. QED BY <1>1, <1>2, <1>3

\* Each answer is handled so.
LEMMA HandledStep ==
    ASSUME CoreInv, SdInit, pc # "sd"
    PROVE  Handled
  <1>. CardTypes /\ FlagTypes /\ TypeOK /\ PlaceInv
    BY DEF CoreInv
  <1>. InitTries \in Nat \ {0}
    BY LoaderAssumption
  <1>. USE DEF Handled
  <1>1. UNCHANGED cardVars => CardTypes' /\ UNCHANGED <<kind, card>>
    BY DEF cardVars, answer, stream, CardTypes
  <1>2. CASE Cmd0
    <2>1. known' \in BOOLEAN
      BY <1>2 DEF Cmd0
    <2>2. CASE d = 1
      BY <1>1, <1>2, <2>1, <2>2 DEF Cmd0, Answered, Send, Goes, type, Continues, InitSites, TypeOK, FlagTypes
    <2>3. CASE d # 1
      BY <1>1, <1>2, <2>1, <2>3, EndStep DEF Cmd0, Answered, type, TypeOK, FlagTypes
    <2>. QED BY <2>2, <2>3
  <1>3. CASE Cmd8
    BY <1>1, <1>3 DEF Cmd8, Answered, Trail, Send, Goes, type, Continues, ReadsOn, InitSites, TypeOK, FlagTypes
  <1>4. ASSUME NEW s \in {"volt", "css"}, NEW status, status # "ok", Cmd58(s, status) PROVE Handled
    <2>1. CASE Bad
      BY <1>1, <1>4, <2>1, EndStep DEF Cmd58, Answered, type, TypeOK, FlagTypes
    <2>2. CASE ~Bad
      BY <1>1, <1>4, <2>2 DEF Cmd58, Answered, Trail, Goes, type, ReadsOn, TypeOK, FlagTypes
    <2>. QED BY <2>1, <2>2
  <1>5. CASE Echo
    <2>1. PICK v \in Bytes : Byte(v) /\
             IF v = 426 THEN g_sd_type' = "SDHC" /\ Send("cmd55") /\ UNCHANGED <<refused, wait>> /\ Goes
                        ELSE InitEnd("bad_cmd8_voltage") /\ UNCHANGED g_sd_type
      BY <1>5 DEF Echo
    <2>2. CardTypes' /\ UNCHANGED <<kind, card>>
      BY <2>1, ByteStep
    <2>3. CASE v = 426
      BY <1>5, <2>1, <2>2, <2>3 DEF Echo, Send, Goes, Continues, InitSites, TypeOK, FlagTypes
    <2>4. CASE v # 426
      BY <1>5, <2>1, <2>2, <2>4, EndStep DEF Echo, TypeOK, FlagTypes
    <2>. QED BY <2>3, <2>4
  <1>6. CASE Voltage
    <2>1. PICK v \in Bytes : Byte(v)
      BY <1>6 DEF Voltage
    <2>2. CardTypes' /\ UNCHANGED <<kind, card>>
      BY <2>1, ByteStep
    <2>3. CASE /\ addr_size' = "byte" /\ g_sd_type' = "SDSC"
               /\ Send("cmd55") /\ UNCHANGED <<refused, wait>> /\ Goes
      BY <1>6, <2>2, <2>3 DEF Voltage, Send, Goes, Continues, InitSites, TypeOK, FlagTypes
    <2>4. CASE InitEnd("bad_ocr_voltage") /\ UNCHANGED type
      BY <1>6, <2>2, <2>4, EndStep DEF Voltage, type, TypeOK, FlagTypes
    <2>. QED BY <1>6, <2>3, <2>4 DEF Voltage
  <1>7. CASE Capacity
    <2>1. PICK v \in Bytes : Byte(v) /\
             IF Css(v) THEN UNCHANGED type ELSE addr_size' = "byte" /\ g_sd_type' = "SDSC"
      BY <1>7 DEF Capacity
    <2>2. CardTypes' /\ UNCHANGED <<kind, card>>
      BY <2>1, ByteStep
    <2>3. addr_size' \in {"byte", "block"} /\ g_sd_type' \in {"????", "SDHC", "SDSC", "MMC"}
      BY <2>1 DEF type, TypeOK
    <2>. QED BY <1>7, <2>2, <2>3, EndStep DEF Capacity, FlagTypes
  <1>8. CASE Cmd55
    BY <1>1, <1>8 DEF Cmd55, Answered, Send, Goes, Bad, type, Continues, InitSites, TypeOK, FlagTypes
  <1>9. CASE Acmd41
    <2>1. CASE refused \/ Bad
      BY <1>1, <1>9, <2>1 DEF Acmd41, Answered, Send, Goes, type, Continues, InitSites, TypeOK, FlagTypes
    <2>2. CASE ~(refused \/ Bad)
      BY <1>1, <1>9, <2>2, AgainStep DEF Acmd41, Answered, type, TypeOK, FlagTypes
    <2>. QED BY <2>1, <2>2
  <1>10. CASE Cmd1
    <2>1. CASE Bad
      BY <1>1, <1>10, <2>1, EndStep DEF Cmd1, Answered, TypeOK, FlagTypes
    <2>2. CASE ~Bad
      <3>1. Again(InitTries, "MMC") /\ g_sd_type' = "MMC"
        BY <1>10, <2>2 DEF Cmd1
      <3>2. Continues \/ Fails
        BY <3>1, AgainStep DEF FlagTypes
      <3>3. refused' \in BOOLEAN /\ wait' \in 0..InitTries
        BY <3>1, AgainStep DEF FlagTypes
      <3>. QED BY <1>1, <1>10, <3>1, <3>2, <3>3 DEF Cmd1, Answered, TypeOK, FlagTypes
    <2>. QED BY <2>1, <2>2
  <1>11. CASE Again55
    BY <1>1, <1>11 DEF Again55, Answered, Send, Goes, type, Continues, InitSites, TypeOK, FlagTypes
  <1>12. ASSUME NEW s \in {"again41", "again1"}, AgainAnswered(s) PROVE Handled
    <2>1. Again(wait - 1, g_sd_type) /\ wait - 1 \in Int /\ wait - 1 <= InitTries
      BY <1>12 DEF AgainAnswered, TypeOK
    <2>. QED BY <1>1, <1>12, <2>1, AgainStep DEF AgainAnswered, Answered, type, TypeOK, FlagTypes
  <1>13. CASE Cmd16
    <2>1. CASE Bad
      BY <1>1, <1>13, <2>1, EndStep DEF Cmd16, Answered, type, TypeOK, FlagTypes
    <2>2. CASE ~Bad
      BY <1>1, <1>13, <2>2, EndStep DEF Cmd16, Answered, type, TypeOK, FlagTypes
    <2>. QED BY <2>1, <2>2
  <1>. QED BY <1>2, <1>3, <1>4, <1>5, <1>6, <1>7, <1>8, <1>9, <1>10, <1>11, <1>12, <1>13 DEF SdInit, SdCardInit

-----------------------------------------------------------------------------
(* Types, and where the loop is *)

LEMMA CoreInit == Init => CoreInv /\ PadsInv
  <1>. SUFFICES ASSUME Init PROVE CoreInv /\ PadsInv
    OBVIOUS
  <1>. /\ Latency \in Nat /\ ResponseTries + TokenTries \in Nat /\ InitTries \in Nat
       /\ SdTicks \in Nat /\ CartTicks \in Nat /\ JoyTicks \in Nat
    BY CardAssumption, LoaderAssumption
  <1>1. CardTypes
    <2>1. CardInit
      BY DEF Init
    <2>2. prefixed \in BOOLEAN /\ busy = FALSE /\ many = FALSE
      BY <2>1 DEF CardInit
    <2>. QED BY <2>1, <2>2 DEF CardInit, CardTypes
  <1>2. FlagTypes
    BY DEF Init, FlagTypes
  <1>3. TypeOK
    BY DEF Init, CardInit, TypeOK, Bytes, Number, Actions
  <1>4. PlaceInv /\ QuietInv
    <2>1. pc = "check" /\ sd = "notfound" /\ removed
      BY DEF Init
    <2>2. ~Working
      BY <2>1 DEF Working
    <2>3. PlaceInv
      BY <2>1, <2>2 DEF PlaceInv, Initialising
    <2>4. QuietInv
      BY <2>1 DEF QuietInv
    <2>. QED BY <2>3, <2>4
  <1>5. PadsInv
    <2>1. ~cart /\ ~acted /\ have_cart = cart /\ cart_delay = 0 /\ seen = 0
      BY DEF Init
    <2>. QED BY <2>1 DEF PadsInv
  <1>. QED BY <1>1, <1>2, <1>3, <1>4, <1>5 DEF CoreInv

\* Frames and the interrupt touch nothing else.
Looks == \/ Frame \/ Check \/ ReadStatus \/ TakeCount
         \/ UNCHANGED vars

LEMMA LooksStep ==
    ASSUME CoreInv, Looks
    PROVE  /\ CoreInv'
           /\ Working' <=> Working
           /\ pc' # pc => ~Working /\ pc' \notin {"bios", "pads"}
           /\ UNCHANGED Kept
  <1>. CardTypes /\ FlagTypes /\ TypeOK /\ PlaceInv /\ QuietInv
    BY DEF CoreInv
  <1>1. UNCHANGED Kept
    BY DEF Looks, Frame, Check, ReadStatus, TakeCount, Kept, vars
  <1>2. \/ pc' = pc
        \/ pc \in {"check", "status", "count"} /\ pc' \in {"status", "count", "sd"}
    BY DEF Looks, Frame, Check, ReadStatus, TakeCount, vars
  <1>3. frame' \in BOOLEAN /\ news' \in BOOLEAN
    <2>1. frame \in BOOLEAN /\ news \in BOOLEAN
      BY DEF FlagTypes
    <2>2. /\ frame' \in {frame, TRUE, FALSE}
          /\ news' \in {news, (news \/ ~frame), FALSE}
      BY DEF Looks, Frame, Check, ReadStatus, TakeCount, vars, vdp
    <2>. QED BY <2>1, <2>2
  <1>. UNCHANGED <<kind, card, prefixed, busy, reply, tail, late, part, many, block,
                   site, d, tries, refused, wait, addr_size, g_sd_type, g_sd_status, offered,
                   buff, rtn, cart, cart_delay, have_cart, joy, joy_delay, cursor, seen, acted,
                   sd, sd_delay, removed, known>>
    BY <1>1 DEF Kept, cardVars, answer, stream, cmd, type, data, pads, slot
  <1>4. (Working' <=> Working) /\ (pc' # pc => ~Working /\ pc' \notin {"bios", "pads"})
    <2>1. CASE pc' = pc
      BY <2>1 DEF Working
    <2>2. CASE pc' # pc
      BY <1>2, <2>2 DEF Working
    <2>. QED BY <2>1, <2>2
  <1>5. CardTypes'
    BY DEF CardTypes
  <1>6. FlagTypes'
    BY <1>3 DEF FlagTypes
  <1>7. TypeOK'
    BY <1>2 DEF TypeOK
  <1>8. PlaceInv' /\ QuietInv'
    BY <1>2, <1>4 DEF PlaceInv, QuietInv, Initialising
  <1>. QED BY <1>1, <1>4, <1>5, <1>6, <1>7, <1>8 DEF CoreInv

\* Debouncing counts to its limit.
LEMMA DelayRange ==
    ASSUME NEW ticks \in Nat, NEW delay \in 0..(ticks + 1), NEW there
    PROVE  Delay(there, delay, ticks) \in 0..(ticks + 1)
  BY DEF Delay

\* The cartridge and the stick.
LEMMA PadsStep ==
    ASSUME TypeOK, FlagTypes, PadsInv, Pads
    PROVE  /\ PadsInv'
           /\ TypeOK' /\ FlagTypes'
           /\ pc = "pads" /\ pc' \in {"bios", "check"}
           /\ pc' = "bios" => have_cart' /\ cursor' = 2
           /\ joy' \in Actions /\ joy \notin Actions => ~acted
  <1>. SdTicks \in Nat /\ CartTicks \in Nat /\ JoyTicks \in Nat
    BY LoaderAssumption
  <1>1. PICK there \in BOOLEAN : CartDetect(there)
    BY DEF Pads
  <1>2. PICK sample \in Actions \cup {"none"} : JoystickRead(sample)
    BY DEF Pads
  <1>3. /\ cursor' = IF joy' \in {"up", "down"} THEN 3 - cursor ELSE cursor
        /\ pc = "pads"
        /\ pc' = IF joy' = "fire" /\ cursor = 2 /\ HaveCart THEN "bios" ELSE "check"
        /\ UNCHANGED <<cardVars, vdp, cmd, type, g_sd_status, offered, data, slot, known>>
    BY DEF Pads
  <1>. UNCHANGED <<kind, card, prefixed, busy, reply, tail, late, part, many, block,
                   frame, news, site, d, tries, refused, wait, addr_size, g_sd_type,
                   g_sd_status, offered, buff, rtn, sd, sd_delay, removed, known>>
    BY <1>3 DEF cardVars, answer, stream, vdp, cmd, type, data, slot
  <1>4. cart' \in BOOLEAN /\ have_cart' = cart'
    <2>1. cart' \in {there, Debounced(there, cart_delay, CartTicks)} /\ have_cart' = cart'
      BY <1>1 DEF CartDetect
    <2>. QED BY <2>1 DEF Debounced
  <1>5. cart_delay' \in 0..(CartTicks + 1) /\ joy_delay' \in 0..(JoyTicks + 1)
    BY <1>1, <1>2, DelayRange DEF CartDetect, JoystickRead, TypeOK
  <1>6. seen' \in 0..(CartTicks + 2)
    BY <1>1 DEF CartDetect, TypeOK
  <1>7. cart' => seen' = CartTicks + 2
    <2>1. CASE cart'
      <3>1. there
        BY <1>1, <2>1 DEF CartDetect, Debounced
      <3>2. seen >= CartTicks + 1
        <4>1. cart \/ cart_delay > CartTicks
          BY <1>1, <2>1 DEF CartDetect, Debounced
        <4>. QED BY <4>1 DEF TypeOK, PadsInv
      <3>. QED BY <1>1, <3>1, <3>2 DEF CartDetect, TypeOK
    <2>. QED BY <2>1
  <1>8. cart_delay' <= seen'
    BY <1>1 DEF CartDetect, Delay, TypeOK, PadsInv
  <1>9. joy' \in Actions \cup {"none", "scan", "wait"}
    BY <1>2 DEF JoystickRead, Rest, TypeOK
  <1>10. acted' = (sample # "none" /\ (acted \/ joy' \in Actions))
    BY <1>2 DEF JoystickRead
  <1>11. acted' \in BOOLEAN
    BY <1>10
  <1>12. joy' \in Actions /\ joy \notin Actions => joy = "scan"
    BY <1>2 DEF JoystickRead, Rest, Actions, TypeOK
  <1>13. acted' => joy' \in Actions \cup {"wait"}
    <2>1. CASE joy' \in Actions
      BY <2>1
    <2>2. CASE joy' \notin Actions /\ acted'
      <3>1. acted /\ sample # "none"
        BY <1>10, <2>2
      <3>2. joy \in Actions \cup {"wait"}
        BY <3>1 DEF PadsInv
      <3>. QED BY <1>2, <3>1, <3>2 DEF JoystickRead, Rest, Actions
    <2>. QED BY <2>1, <2>2
  <1>14. PadsInv'
    BY <1>4, <1>7, <1>8, <1>13 DEF PadsInv
  <1>15. cursor' \in 1..2
    BY <1>3 DEF TypeOK
  <1>16. pc' = "bios" => have_cart' /\ cursor' = 2
    BY <1>3 DEF HaveCart
  <1>17. TypeOK'
    BY <1>3, <1>5, <1>6, <1>9, <1>15 DEF TypeOK
  <1>18. FlagTypes'
    BY <1>4, <1>11 DEF FlagTypes
  <1>19. joy' \in Actions /\ joy \notin Actions => ~acted
    BY <1>12 DEF PadsInv, Actions
  <1>. QED BY <1>3, <1>14, <1>16, <1>17, <1>18, <1>19

\* Types, places and the quiet line are kept by every step.
LEMMA CoreStep ==
    ASSUME CoreInv, PadsInv, [Next]_vars
    PROVE  CoreInv' /\ PadsInv'
  <1>. CardTypes /\ FlagTypes /\ TypeOK /\ PlaceInv /\ QuietInv
    BY DEF CoreInv
  <1>. /\ SdTicks \in Nat /\ CartTicks \in Nat /\ JoyTicks \in Nat
       /\ ResponseTries \in Nat \ {0} /\ TokenTries \in Nat \ {0} /\ InitTries \in Nat \ {0}
    BY LoaderAssumption
  <1>0. UNCHANGED cardVars => CardTypes'
    BY DEF cardVars, answer, stream, CardTypes
  <1>a. UNCHANGED pads => PadsInv'
    BY DEF pads, PadsInv
  <1>1. CASE Looks
    <2>1. CoreInv' /\ UNCHANGED pads
      BY <1>1, LooksStep DEF Kept
    <2>. QED BY <1>a, <2>1
  <1>2. CASE Pads
    <2>1. TypeOK' /\ FlagTypes' /\ PadsInv' /\ pc = "pads" /\ pc' \in {"bios", "check"}
      BY <1>2, PadsStep
    <2>2. UNCHANGED <<cardVars, data, slot, known>>
      BY <1>2 DEF Pads
    <2>3. PlaceInv'
      BY <2>1, <2>2 DEF PlaceInv, Initialising, Working, data, slot
    <2>4. QuietInv'
      BY <2>1 DEF QuietInv
    <2>. QED BY <1>0, <2>1, <2>2, <2>3, <2>4 DEF CoreInv
  <1>3. CASE SdDetect
    <2>1. /\ pc = "sd" /\ pc' = "pads"
          /\ removed' = (removed \/ ~SdSample)
          /\ sd_delay' = (IF sd = "notfound" THEN Delay(SdSample, sd_delay, SdTicks) ELSE 0)
          /\ UNCHANGED <<cardVars, vdp, cmd, type, g_sd_status, offered, data, pads, known>>
      BY <1>3 DEF SdDetect
    <2>2. \/ sd = "notfound" /\ sd' \in {"init", "notfound"}
          \/ sd = "found" /\ sd' = "ready"
          \/ sd \in {"initfail", "ready"} /\ sd' = sd
          \/ sd \in {"initfail", "ready"} /\ sd' = "notfound" /\ ~SdSample
      BY <1>3 DEF SdDetect, Gone
    <2>3. sd_delay' \in 0..(SdTicks + 1)
      BY <2>1, DelayRange DEF TypeOK
    <2>4. removed' \in BOOLEAN
      BY <2>1
    <2>5. TypeOK'
      BY <2>1, <2>2, <2>3 DEF TypeOK, cardVars, vdp, cmd, type, data, pads
    <2>6. FlagTypes'
      BY <2>1, <2>4 DEF FlagTypes, vdp, cmd, pads
    <2>7. sd' \in {"init", "notfound"} => removed'
      BY <2>1, <2>2 DEF PlaceInv
    <2>8. PlaceInv'
      BY <2>1, <2>7 DEF PlaceInv, Initialising, Working
    <2>9. QuietInv'
      BY <2>1 DEF QuietInv
    <2>. QED BY <1>0, <1>a, <2>1, <2>5, <2>6, <2>8, <2>9 DEF CoreInv
  <1>4. CASE SdCardInit
    <2>1. /\ pc = "sd" /\ sd = "init" /\ pc' = "select" /\ site' = "cmd0" /\ d' = 0
          /\ addr_size' = "block" /\ g_sd_type' = "????" /\ removed' = FALSE /\ known' = FALSE
          /\ rtn' = "none"
          /\ UNCHANGED <<cardVars, vdp, tries, refused, wait, g_sd_status, offered, buff, pads, sd, sd_delay>>
      BY <1>4 DEF SdCardInit, Send
    <2>2. TypeOK'
      BY <2>1 DEF TypeOK, Bytes, Number, cardVars, vdp, pads
    <2>3. FlagTypes'
      <3>1. removed' \in BOOLEAN /\ known' \in BOOLEAN
        BY <2>1
      <3>. QED BY <2>1, <3>1 DEF FlagTypes, vdp, pads
    <2>4. ~known'
      BY <2>1
    <2>5. PlaceInv'
      BY <2>1, <2>4 DEF PlaceInv, Initialising, Working
    <2>6. QuietInv'
      BY <2>1 DEF QuietInv
    <2>. QED BY <1>0, <1>a, <2>1, <2>2, <2>3, <2>5, <2>6 DEF CoreInv
  <1>5. CASE Select
    <2>1. /\ pc = "select" /\ pc' = "packet" /\ Drop
          /\ UNCHANGED <<vdp, cmd, type, g_sd_status, offered, data, pads, slot, known>>
      BY <1>5 DEF Select
    <2>2. CardTypes'
      BY <2>1, CardAssumption DEF Drop, CardTypes
    <2>3. TypeOK'
      BY <2>1 DEF TypeOK, Drop, vdp, cmd, type, data, pads, slot
    <2>4. FlagTypes'
      BY <2>1 DEF FlagTypes, vdp, cmd, pads, slot
    <2>5. PlaceInv'
      BY <2>1 DEF PlaceInv, Initialising, Working, cmd, data, slot
    <2>6. QuietInv'
      BY <2>1 DEF QuietInv, Drop
    <2>. QED BY <1>a, <2>1, <2>2, <2>3, <2>4, <2>5, <2>6 DEF CoreInv
  <1>6. CASE Packets
    <2>1. /\ pc = "packet" /\ pc' = "response" /\ tries' = ResponseTries
          /\ UNCHANGED <<vdp, site, d, refused, wait, type, g_sd_status, data, pads, slot, known>>
      BY <1>6 DEF Packets
    <2>2. PICK arg \in Arguments : Packet(Number[site], arg)
      BY <1>6 DEF Packets
    <2>3. arg \in Nat
      BY <2>2, AddressNat DEF Arguments
    <2>4. CardTypes' /\ PacketCard(arg) /\ PacketAnswer(arg)
      BY <2>1, <2>2, <2>3, PacketStep
    <2>5. TypeOK'
      BY <2>1, <2>4 DEF TypeOK, CardTypes, vdp, type, data, pads, slot
    <2>6. offered' \in BOOLEAN
      BY <1>6 DEF Packets
    <2>7. FlagTypes'
      BY <2>1, <2>6 DEF FlagTypes, vdp, pads, slot
    <2>8. PlaceInv'
      BY <2>1 DEF PlaceInv, Initialising, Working, data, slot
    <2>9. QuietInv'
      BY <2>1, <2>4 DEF QuietInv, PacketAnswer, Responses, None
    <2>. QED BY <1>a, <2>1, <2>4, <2>5, <2>7, <2>8, <2>9 DEF CoreInv
  <1>7. CASE Response
    <2>1. /\ pc = "response"
          /\ UNCHANGED <<vdp, site, refused, wait, type, g_sd_status, offered, data, pads, slot, known>>
      BY <1>7 DEF Response
    <2>2. PICK v \in Bytes : Byte(v) /\ d' = v
      BY <1>7 DEF Response
    <2>3. IF d' = 255 /\ tries > 1 THEN tries' = tries - 1 /\ UNCHANGED pc
                                    ELSE tries' = 0 /\ pc' = "answered"
      BY <1>7 DEF Response
    <2>4. CardTypes' /\ kind' = kind /\ card' = card
      BY <2>2, ByteStep
    <2>5. pc' \in {"response", "answered"} /\ tries' \in 0..(ResponseTries + TokenTries)
      BY <2>1, <2>3 DEF TypeOK
    <2>6. TypeOK'
      BY <2>1, <2>2, <2>4, <2>5 DEF TypeOK, vdp, type, data, pads, slot
    <2>7. FlagTypes'
      BY <2>1 DEF FlagTypes, vdp, pads, slot
    <2>8. PlaceInv'
      BY <2>1, <2>5 DEF PlaceInv, Initialising, Working, data, slot
    <2>9. pc' = "response" => reply' = reply /\ part' = part
      BY <2>1, <2>2, <2>3, ByteStep DEF QuietInv, Responses, None
    <2>10. QuietInv'
      BY <2>1, <2>5, <2>9 DEF QuietInv
    <2>. QED BY <1>a, <2>1, <2>4, <2>6, <2>7, <2>8, <2>10 DEF CoreInv
  <1>8. CASE SdInit /\ ~SdCardInit
    <2>. pc # "sd"
      BY <1>8 DEF SdInit, SdCardInit, Cmd0, Cmd8, Echo, Voltage, Capacity, Cmd58, Cmd55, Acmd41, Cmd1,
                  Again55, AgainAnswered, Cmd16, Answered
    <2>1. Handled
      BY <1>8, HandledStep
    <2>2. TypeOK'
      BY <2>1 DEF Handled, Continues, ReadsOn, Succeeds, Fails, TypeOK, InitSites, Number, Bytes, data, pads
    <2>3. FlagTypes'
      BY <2>1 DEF Handled, FlagTypes, vdp, pads
    <2>4. PlaceInv'
      <3>1. Initialising /\ UNCHANGED <<data, removed>>
        BY <2>1 DEF Handled, Initialising, Working
      <3>2. CASE Continues
        BY <2>1, <3>1, <3>2 DEF Continues, PlaceInv, Initialising, Working, InitSites, data
      <3>3. CASE ReadsOn
        BY <2>1, <3>1, <3>3 DEF ReadsOn, PlaceInv, Initialising, Working, data
      <3>4. CASE Succeeds \/ Fails
        BY <2>1, <3>1, <3>4 DEF Succeeds, Fails, PlaceInv, Initialising, Working, data
      <3>. QED BY <2>1, <3>2, <3>3, <3>4 DEF Handled
    <2>5. QuietInv'
      BY <2>1 DEF Handled, Continues, ReadsOn, Succeeds, Fails, QuietInv
    <2>. QED BY <1>a, <2>1, <2>2, <2>3, <2>4, <2>5 DEF CoreInv, Handled
  <1>9. CASE SdReadBlock
    <2>1. /\ pc \in {"answered", "token", "data"} /\ site = "read"
          /\ Still
      BY <1>9 DEF SdReadBlock, ReadAnswered, WaitToken, ReadData, PlaceInv
    <2>. UNCHANGED <<vdp, refused, wait, type, g_sd_status, offered, pads, slot, known>>
      BY <2>1 DEF Still
    <2>2. CardTypes' /\ kind' = kind /\ card' = card
      <3>1. CASE ReadAnswered
        BY <1>0, <3>1 DEF ReadAnswered, cardVars
      <3>2. CASE WaitToken
        BY <3>2, ByteStep DEF WaitToken
      <3>3. CASE ReadData
        BY <3>3 DEF ReadData, Data, CardTypes, cardVars, answer, stream
      <3>. QED BY <1>9, <3>1, <3>2, <3>3 DEF SdReadBlock
    <2>3. buff' \in Nat \cup {None}
      BY <1>9 DEF SdReadBlock, ReadAnswered, WaitToken, ReadData, TypeOK, CardTypes
    <2>4. \/ pc' \in {"token", "data"} /\ site' = site /\ d' = d /\ tries' \in 0..(ResponseTries + TokenTries)
          \/ pc' = "pads" /\ site' = "cmd0" /\ d' = 0 /\ tries' = 0
      <3>1. CASE ReadAnswered
        BY <3>1 DEF ReadAnswered, ReadEnd
      <3>2. CASE WaitToken
        BY <3>2 DEF WaitToken, ReadEnd, TypeOK
      <3>3. CASE ReadData
        BY <3>3 DEF ReadData, ReadEnd
      <3>. QED BY <1>9, <3>1, <3>2, <3>3 DEF SdReadBlock
    <2>5. TypeOK'
      BY <2>2, <2>3, <2>4 DEF TypeOK, Number, Bytes, vdp, type, pads, slot
    <2>6. FlagTypes'
      BY <2>1 DEF FlagTypes, vdp, pads, slot
    <2>7. PlaceInv'
      BY <2>1, <2>4 DEF PlaceInv, Initialising, Working, slot
    <2>8. QuietInv'
      BY <2>4 DEF QuietInv
    <2>. QED BY <1>a, <2>1, <2>2, <2>5, <2>6, <2>7, <2>8 DEF CoreInv
  <1>10. CASE User
    <2>1. /\ Swap /\ known' = FALSE /\ offered' = FALSE
          /\ UNCHANGED <<vdp, pc, cmd, type, g_sd_status, data, pads, slot>>
      BY <1>10 DEF User
    <2>2. CardTypes'
      <3>1. prefixed' \in BOOLEAN /\ busy' = FALSE /\ many' = FALSE
        BY <2>1 DEF Swap
      <3>. QED BY <2>1, <3>1, CardAssumption DEF Swap, CardTypes
    <2>3. TypeOK'
      BY <2>1, <2>2 DEF TypeOK, CardTypes, vdp, cmd, type, data, pads, slot
    <2>4. FlagTypes'
      <3>1. known' \in BOOLEAN /\ offered' \in BOOLEAN
        BY <2>1
      <3>. QED BY <2>1, <3>1 DEF FlagTypes, vdp, cmd, pads, slot
    <2>5. ~known'
      BY <2>1
    <2>6. PlaceInv'
      BY <2>1, <2>5 DEF PlaceInv, Initialising, Working, cmd, data, slot
    <2>7. QuietInv'
      BY <2>1 DEF Swap, QuietInv, Responses, cmd
    <2>. QED BY <1>a, <2>1, <2>2, <2>3, <2>4, <2>6, <2>7 DEF CoreInv
  <1>. QED BY <1>1, <1>2, <1>3, <1>4, <1>5, <1>6, <1>7, <1>8, <1>9, <1>10
           DEF Next, Program, SdCommand, Looks

-----------------------------------------------------------------------------
(* What is known of a card *)

\* An initialisation that has failed says nothing of the card.
LEMMA FailedType == Fails => TypeInv'
  <1>. SUFFICES ASSUME Fails PROVE TypeInv'
    OBVIOUS
  <1>1. pc' = "pads" /\ sd' = "initfail"
    BY DEF Fails
  <1>2. ~Initialising'
    BY <1>1 DEF Initialising, Working
  <1>. QED BY <1>1, <1>2 DEF TypeInv, OfferInv, FoundInv, CardKnown

\* From which answer the initialisation comes to which command.
Route ==
    /\ site' \in {"cmd8", "volt"} => site \in {"cmd0", "cmd8", "volt"}
    /\ addr_size' = addr_size \/ (site = "volt" /\ site' = "cmd55")
    /\ site' \in {"css", "cmd16"} /\ site' # site => pc = "answered" /\ d = 0 /\ site # "cmd0"
    /\ site' = "cmd16" /\ site # "cmd16" => addr_size = "byte"
    /\ site' = "css" /\ site # "css" => addr_size = "block"
    /\ pc' = "trail" => pc = "answered" /\ site' = site /\ d <= 1 /\ UNCHANGED cardVars
    /\ site = "cmd0" => pc = "answered" /\ (known' => card = "idle")
    /\ site # "cmd0" => known' = known

LEMMA AgainRoute ==
    ASSUME NEW w, NEW t, Again(w, t), Continues
    PROVE  /\ site' \notin {"cmd8", "volt"}
           /\ site' \in {"css", "cmd16"} => d = 0
           /\ site' = "cmd16" => addr_size # "block"
           /\ site' = "css" => addr_size = "block"
  <1>1. CASE w > 0 /\ d = 1
    BY <1>1 DEF Again, Send
  <1>2. CASE ~(w > 0 /\ d = 1) /\ (w = 0 \/ d # 0)
    <2>. \E status : InitEnd(status)
      BY <1>2 DEF Again
    <2>. QED BY DEF InitEnd, Send, Continues, InitSites
  <1>3. CASE ~(w > 0 /\ d = 1) /\ ~(w = 0 \/ d # 0)
    BY <1>3 DEF Again, Send
  <1>. QED BY <1>1, <1>2, <1>3

LEMMA RouteStep ==
    ASSUME CoreInv, SdInit, pc # "sd", Continues \/ ReadsOn
    PROVE  Route
  <1>. TypeOK
    BY DEF CoreInv
  <1>. pc' \in {"select", "trail"} /\ sd' = sd /\ sd = "init"
    BY HandledStep DEF Handled, Continues, ReadsOn, CoreInv, PlaceInv, Initialising, Working
  <1>. ~\E status : InitEnd(status)
    BY DEF InitEnd
  <1>1. CASE Cmd0
    BY <1>1 DEF Cmd0, Answered, Send, type, Route
  <1>2. CASE Cmd8
    BY <1>2 DEF Cmd8, Answered, Send, Trail, type, Route
  <1>3. ASSUME NEW s \in {"volt", "css"}, NEW status, Cmd58(s, status) PROVE Route
    BY <1>3 DEF Cmd58, Answered, Trail, Bad, type, Route, TypeOK, Bytes
  <1>4. CASE Echo
    BY <1>4 DEF Echo, Send, Route
  <1>5. CASE Voltage
    BY <1>5 DEF Voltage, Send, Route
  <1>6. CASE Capacity
    BY <1>6 DEF Capacity
  <1>7. CASE Cmd55
    BY <1>7 DEF Cmd55, Answered, Send, type, Route
  <1>8. CASE Acmd41
    <2>1. CASE refused \/ Bad
      BY <1>8, <2>1 DEF Acmd41, Answered, Send, type, Route
    <2>2. CASE ~(refused \/ Bad)
      <3>1. Again(InitTries, g_sd_type)
        BY <1>8, <2>2 DEF Acmd41
      <3>2. Continues
        BY <1>8 DEF Acmd41, Answered, ReadsOn
      <3>. QED BY <1>8, <3>1, <3>2, AgainRoute DEF Acmd41, Answered, Continues, type, Route, TypeOK
    <2>. QED BY <2>1, <2>2
  <1>9. CASE Cmd1
    <2>1. Again(InitTries, "MMC")
      BY <1>9 DEF Cmd1
    <2>2. Continues
      BY <1>9 DEF Cmd1, Answered, ReadsOn
    <2>. QED BY <1>9, <2>1, <2>2, AgainRoute DEF Cmd1, Answered, Continues, Route, TypeOK
  <1>10. CASE Again55
    BY <1>10 DEF Again55, Answered, Send, type, Route
  <1>11. ASSUME NEW s \in {"again41", "again1"}, AgainAnswered(s) PROVE Route
    <2>1. Again(wait - 1, g_sd_type)
      BY <1>11 DEF AgainAnswered
    <2>2. Continues
      BY <1>11 DEF AgainAnswered, Answered, ReadsOn
    <2>. QED BY <1>11, <2>1, <2>2, AgainRoute DEF AgainAnswered, Answered, Continues, type, Route, TypeOK
  <1>12. CASE Cmd16
    BY <1>12 DEF Cmd16
  <1>. QED BY <1>1, <1>2, <1>3, <1>4, <1>5, <1>6, <1>7, <1>8, <1>9, <1>10, <1>11, <1>12 DEF SdInit, SdCardInit

\* Commands of the initialisation.
LEMMA TypeHandled ==
    ASSUME CoreInv, TypeInv, SdInit, pc # "sd"
    PROVE  TypeInv'
  <1>. CardTypes /\ FlagTypes /\ TypeOK /\ PlaceInv /\ OfferInv /\ FoundInv
    BY DEF CoreInv, TypeInv
  <1>1. Handled /\ Initialising /\ UNCHANGED <<kind, card, offered>>
    BY HandledStep DEF Handled, Initialising, Working
  <1>2. site = "cmd0" => ~known
    BY <1>1 DEF PlaceInv
  <1>3. CASE Fails
    BY <1>3, FailedType
  <1>4. CASE Succeeds
    <2>1. site \in {"css", "cmd16"} /\ known' = known
      BY <1>4 DEF SdInit, SdCardInit, Cmd0, Cmd8, Echo, Voltage, Capacity, Cmd58, Cmd55, Acmd41, Cmd1,
         Again55, AgainAnswered, Cmd16, Answered, Trail, Send, InitEnd, Again, Succeeds
    <2>2. ~Initialising'
      BY <1>4 DEF Succeeds, Initialising
    <2>3. known => card = "ready" /\ (addr_size' = "block" <=> kind = "HC")
      <3>1. CASE Capacity
        <4>1. PICK v \in Bytes : Byte(v) /\
                 IF Css(v) THEN UNCHANGED type ELSE addr_size' = "byte" /\ g_sd_type' = "SDSC"
          BY <3>1 DEF Capacity
        <4>2. pc = "trail" /\ site = "css"
          BY <3>1 DEF Capacity
        <4>3. known => card = "ready" /\ addr_size = "block" /\ reply = Ocr /\ late = 0
          BY <1>1, <4>2 DEF FoundInv
        <4>4. known => v = Ocr
          BY <4>1, <4>3, ByteStep DEF Ocr, None
        <4>5. Css(64) /\ ~Css(0)
          BY DEF Css
        <4>. QED BY <4>1, <4>3, <4>4, <4>5 DEF Ocr, type
      <3>2. CASE Cmd16
        <4>1. site = "cmd16" /\ addr_size' = addr_size
          BY <3>2 DEF Cmd16, Answered, type
        <4>. QED BY <1>1, <4>1 DEF FoundInv
      <3>3. ~Cmd58("css", "bad_ssc_read")
        BY <1>4 DEF Cmd58, Trail, InitEnd, Succeeds
      <3>4. Capacity \/ Cmd16 \/ Cmd58("css", "bad_ssc_read")
        BY <2>1 DEF SdInit, SdCardInit, Cmd0, Cmd8, Echo, Voltage, Cmd58, Cmd55, Acmd41, Cmd1,
           Again55, AgainAnswered, Answered
      <3>. QED BY <3>1, <3>2, <3>3, <3>4
    <2>. QED BY <1>1, <2>1, <2>2, <2>3 DEF TypeInv, OfferInv, FoundInv, CardKnown
  <1>5. CASE Continues \/ ReadsOn
    <2>1. sd' = "init"
      BY <1>1, <1>5 DEF Continues, ReadsOn, PlaceInv
    <2>2. CardKnown'
      BY <2>1 DEF CardKnown
    <2>3. Route
      BY <1>5, RouteStep
    <2>4. pc' \in {"select", "trail"} /\ site' # "cmd0" /\ site' # "read"
      BY <1>1, <1>5 DEF Continues, ReadsOn, InitSites, Initialising
    <2>5. ASSUME site' \in {"cmd8", "volt"} \/ addr_size' = "byte"
          PROVE  Untold
      BY <2>3, <2>5 DEF Route, Untold
    <2>6. OfferInv'
      BY <1>1, <2>4, <2>5 DEF OfferInv, Untold
    <2>7. FoundInv'
      <3>. SUFFICES ASSUME Initialising', known' PROVE
              /\ card \in {"idle", "ready"}
              /\ kind = "HC" /\ (site' \in {"cmd8", "volt"} \/ addr_size' = "byte") => card = "idle"
              /\ site' \in {"css", "cmd16"} => card = "ready"
              /\ site' = "cmd16" => addr_size' = "byte"
              /\ site' = "css" => addr_size' = "block" /\ (pc' = "trail" => reply' = Ocr' /\ late' = 0)
        BY <1>1, <2>4 DEF FoundInv
      <3>1. CASE site = "cmd0"
        BY <2>3, <3>1 DEF Route
      <3>2. CASE site # "cmd0"
        <4>1. known
          BY <2>3, <3>2 DEF Route
        <4>2. /\ card \in {"idle", "ready"}
              /\ kind = "HC" /\ (site \in {"cmd8", "volt"} \/ addr_size = "byte") => card = "idle"
              /\ pc = "answered" /\ d = 0 => card = "ready"
              /\ site \in {"css", "cmd16"} => card = "ready"
              /\ site = "cmd16" => addr_size = "byte"
              /\ site = "css" => addr_size = "block" /\ (pc = "answered" /\ d <= 1 => reply = Ocr /\ late = 0)
          BY <1>1, <4>1 DEF FoundInv
        <4>3. Ocr' = Ocr
          BY <1>1 DEF Ocr
        <4>4. kind = "HC" /\ (site' \in {"cmd8", "volt"} \/ addr_size' = "byte") => card = "idle"
          BY <2>3, <3>2, <4>2 DEF Route
        <4>5. site' \in {"css", "cmd16"} => card = "ready"
          BY <2>3, <4>2 DEF Route
        <4>6. site' = "cmd16" => addr_size' = "byte"
          BY <2>3, <4>2, <1>1 DEF Route, TypeOK
        <4>7. site' = "css" => addr_size' = "block"
          BY <2>3, <4>2 DEF Route
        <4>8. site' = "css" /\ pc' = "trail" => reply' = Ocr' /\ late' = 0
          BY <2>3, <4>2, <4>3 DEF Route, cardVars, answer
        <4>. QED BY <4>2, <4>4, <4>5, <4>6, <4>7, <4>8
      <3>. QED BY <3>1, <3>2
    <2>. QED BY <2>2, <2>6, <2>7 DEF TypeInv
  <1>. QED BY <1>1, <1>3, <1>4, <1>5 DEF Handled

LEMMA TypeStep ==
    ASSUME CoreInv, TypeInv, [Next]_vars
    PROVE  TypeInv'
  <1>. CardTypes /\ FlagTypes /\ TypeOK /\ PlaceInv /\ QuietInv /\ OfferInv /\ FoundInv /\ CardKnown
    BY DEF CoreInv, TypeInv
  <1>1. CASE Looks
    <2>1. /\ UNCHANGED Kept
          /\ Working' <=> Working
          /\ pc' # pc => ~Working
      BY <1>1, LooksStep
    <2>. UNCHANGED <<kind, card, reply, tail, late, site, d, addr_size, offered, sd, known>>
      BY <2>1 DEF Kept, cardVars, answer, cmd, type, slot
    <2>2. CardKnown'
      BY DEF CardKnown
    <2>3. CASE pc' = pc
      BY <2>2, <2>3 DEF TypeInv, OfferInv, Untold, FoundInv, Initialising, Working, Ocr
    <2>4. CASE pc' # pc
      BY <2>1, <2>2, <2>4 DEF TypeInv, OfferInv, FoundInv, Initialising
    <2>. QED BY <2>3, <2>4
  <1>2. CASE Pads \/ SdDetect
    <2>1. /\ pc' \in {"bios", "check", "pads"}
          /\ sd' \in {"found", "ready"} => sd \in {"found", "ready"}
          /\ UNCHANGED <<cardVars, type, known>>
      BY <1>2 DEF Pads, SdDetect, Gone, slot
    <2>2. ~Initialising'
      BY <2>1 DEF Initialising, Working
    <2>3. CardKnown'
      BY <2>1 DEF CardKnown, cardVars, type
    <2>. QED BY <2>2, <2>3 DEF TypeInv, OfferInv, FoundInv
  <1>3. CASE SdCardInit
    <2>1. pc' = "select" /\ site' = "cmd0" /\ addr_size' = "block" /\ ~known'
      BY <1>3 DEF SdCardInit, Send
    <2>. QED BY <2>1 DEF TypeInv, OfferInv, Untold, FoundInv, CardKnown
  <1>4. CASE Select
    <2>1. /\ pc = "select" /\ pc' = "packet"
          /\ UNCHANGED <<kind, card, site, d, addr_size, offered, sd, known>>
      BY <1>4 DEF Select, Drop, cmd, type, slot
    <2>. QED BY <2>1 DEF TypeInv, OfferInv, Untold, FoundInv, CardKnown, Initialising, Working
  <1>5. CASE Packets
    <2>1. /\ pc = "packet" /\ pc' = "response"
          /\ UNCHANGED <<site, d, addr_size, sd, known>>
          /\ offered' = (site # "cmd0" /\ (offered \/ 64 \in Arguments))
      BY <1>5 DEF Packets, type, slot
    <2>2. PICK arg \in Arguments : Packet(Number[site], arg)
      BY <1>5 DEF Packets
    <2>3. arg \in Nat
      BY <2>2, AddressNat DEF Arguments
    <2>4. CardTypes' /\ PacketCard(arg) /\ PacketAnswer(arg)
      BY <2>1, <2>2, <2>3, PacketStep
    <2>5. site # "read" /\ ~offered /\ (site # "acmd41" \/ addr_size = "byte") => Arguments = {0}
      BY DEF Arguments
    <2>6. OfferInv'
      <3>. SUFFICES ASSUME Initialising', Untold' PROVE ~offered'
        BY DEF OfferInv
      <3>1. site # "read"
        BY <2>1 DEF Initialising
      <3>2. CASE site = "cmd0"
        BY <2>1, <3>2
      <3>3. CASE site # "cmd0"
        <4>1. (site \in {"cmd8", "volt"} \/ addr_size = "byte") /\ ~offered
          BY <2>1, <3>1, <3>3 DEF Untold, OfferInv, Initialising, Working
        <4>2. 64 \notin Arguments
          BY <2>5, <3>1, <4>1
        <4>. QED BY <2>1, <4>1, <4>2
      <3>. QED BY <3>2, <3>3
    <2>7. FoundInv'
      <3>. SUFFICES ASSUME Initialising', known' PROVE FoundInv'
        BY DEF FoundInv
      <3>1. Initialising /\ known /\ site # "cmd0"
        BY <2>1 DEF Initialising, Working, PlaceInv
      <3>2. /\ card \in {"idle", "ready"}
            /\ kind = "HC" /\ (site \in {"cmd8", "volt"} \/ addr_size = "byte") => card = "idle" /\ ~offered
            /\ site \in {"css", "cmd16"} => card = "ready"
            /\ site = "cmd16" => addr_size = "byte"
            /\ site = "css" => addr_size = "block"
        BY <3>1 DEF FoundInv, OfferInv, Untold
      <3>3. kind = "HC" /\ (site \in {"cmd8", "volt"} \/ addr_size = "byte") => card' = "idle"
        BY <2>2, <2>4, <2>5, <3>1, <3>2 DEF PacketCard, Initialising
      <3>4. site = "css" /\ reply' # None => tail' = Ocr'
        BY <2>4, <3>2 DEF PacketAnswer, PacketCard, Ocr
      <3>. QED BY <2>1, <2>4, <3>1, <3>2, <3>3, <3>4 DEF FoundInv, PacketCard, PacketAnswer
    <2>8. CardKnown'
      <3>. SUFFICES ASSUME known, sd \in {"found", "ready"} PROVE card' = card /\ kind' = kind
        BY <2>1 DEF CardKnown
      <3>1. site = "read"
        BY <2>1 DEF PlaceInv, Initialising, Working
      <3>. QED BY <2>4, <3>1 DEF PacketCard
    <2>. QED BY <2>6, <2>7, <2>8 DEF TypeInv
  <1>6. CASE Response
    <2>1. /\ pc = "response" /\ pc' \in {"response", "answered"}
          /\ UNCHANGED <<site, addr_size, offered, sd, known>>
      BY <1>6 DEF Response, type, slot
    <2>2. PICK v \in Bytes : Byte(v) /\ d' = v /\ (pc' = "response" => v = 255)
      BY <1>6 DEF Response
    <2>3. UNCHANGED <<kind, card>>
      BY <2>2, ByteStep
    <2>4. CardKnown' /\ OfferInv'
      BY <2>1, <2>3 DEF CardKnown, OfferInv, Untold, Initialising, Working
    <2>5. Initialising' => \/ v = 255 /\ UNCHANGED <<reply, tail>>
                           \/ v = reply /\ v # 255 /\ late' = 0 /\ reply' = tail
      BY <2>1, <2>2, ByteStep DEF QuietInv, Initialising, Responses, None
    <2>6. Initialising' => Initialising
      BY <2>1 DEF Initialising, Working
    <2>7. FoundInv'
      <3>. SUFFICES ASSUME Initialising, Initialising', known PROVE FoundInv'
        BY <2>1, <2>6 DEF FoundInv
      <3>1. CASE v = 255 /\ UNCHANGED <<reply, tail>>
        BY <2>1, <2>2, <2>3, <3>1 DEF FoundInv, Ocr
      <3>2. CASE v = reply /\ v # 255 /\ late' = 0 /\ reply' = tail
        BY <2>1, <2>2, <2>3, <3>2 DEF FoundInv, Ocr, Bytes, None
      <3>. QED BY <2>5, <3>1, <3>2
    <2>. QED BY <2>4, <2>7 DEF TypeInv
  <1>7. CASE SdInit /\ ~SdCardInit
    <2>. pc # "sd"
      BY <1>7 DEF SdInit, SdCardInit, Cmd0, Cmd8, Echo, Voltage, Capacity, Cmd58, Cmd55, Acmd41, Cmd1,
                  Again55, AgainAnswered, Cmd16, Answered
    <2>. QED BY <1>7, TypeHandled
  <1>8. CASE SdReadBlock
    <2>1. /\ pc \in {"answered", "token", "data"} /\ site = "read"
          /\ UNCHANGED <<addr_size, sd, known>>
      BY <1>8 DEF SdReadBlock, ReadAnswered, WaitToken, ReadData, PlaceInv, Still, type, slot
    <2>2. UNCHANGED <<kind, card>>
      <3>1. CASE ReadAnswered
        BY <3>1 DEF ReadAnswered, cardVars
      <3>2. CASE WaitToken
        BY <3>2, ByteStep DEF WaitToken
      <3>3. CASE ReadData
        BY <3>3 DEF ReadData, Data, cardVars
      <3>. QED BY <1>8, <3>1, <3>2, <3>3 DEF SdReadBlock
    <2>3. site' = "read" \/ pc' = "pads"
      BY <1>8, <2>1 DEF SdReadBlock, ReadAnswered, WaitToken, ReadData, ReadEnd
    <2>4. ~Initialising'
      BY <2>3 DEF Initialising, Working
    <2>. QED BY <2>1, <2>2, <2>4 DEF TypeInv, OfferInv, FoundInv, CardKnown
  <1>9. CASE User
    <2>1. ~known' /\ ~offered'
      BY <1>9 DEF User
    <2>. QED BY <2>1 DEF TypeInv, OfferInv, FoundInv, CardKnown
  <1>. QED BY <1>1, <1>2, <1>3, <1>4, <1>5, <1>6, <1>7, <1>8, <1>9
           DEF Next, Program, SdCommand, Looks

-----------------------------------------------------------------------------
(* The sector that is read *)

\* The address that is sent is that of the sector, if the card is the one known.
LEMMA RightBlock ==
    ASSUME CoreInv, CardKnown, known, sd = "found"
    PROVE  Block(Address) = Wanted
  <1>1. addr_size = "block" <=> kind = "HC"
    BY DEF CardKnown
  <1>2. Wanted \in Nat /\ SectorBytes \in Nat \ {0}
    BY CardAssumption, LoaderAssumption
  <1>3. (Wanted * SectorBytes) \div SectorBytes = Wanted
    BY <1>2
  <1>4. CASE kind = "HC"
    BY <1>1, <1>4 DEF Block, Address
  <1>5. CASE kind # "HC"
    <2>1. Address = Wanted * SectorBytes
      BY <1>1, <1>5 DEF CoreInv, TypeOK, Address
    <2>2. Block(Address) = Address \div SectorBytes
      BY <1>5 DEF Block
    <2>. QED BY ONLY <1>3, <2>1, <2>2, Zenon
  <1>. QED BY <1>4, <1>5

LEMMA ReadStep ==
    ASSUME CoreInv, TypeInv, ReadInv, [Next]_vars
    PROVE  ReadInv'
  <1>. CardTypes /\ TypeOK /\ PlaceInv /\ QuietInv /\ CardKnown /\ SendInv /\ ReadsWanted
    BY DEF CoreInv, TypeInv, ReadInv
  <1>. USE DEF ReadInv
  <1>1. CASE Looks
    <2>1. /\ UNCHANGED Kept
          /\ Working' <=> Working
          /\ pc' # pc => ~Working
      BY <1>1, LooksStep
    <2>. UNCHANGED <<reply, tail, part, block, site, d, buff, rtn, known>>
      BY <2>1 DEF Kept, cardVars, answer, stream, cmd, data
    <2>. QED BY <2>1 DEF SendInv, Sending, ReadsWanted
  <1>2. CASE Pads \/ SdDetect
    <2>1. /\ pc' \in {"bios", "check", "pads"}
          /\ UNCHANGED <<data, known>>
      BY <1>2 DEF Pads, SdDetect
    <2>2. ~Working'
      BY <2>1 DEF Working
    <2>. QED BY <2>1, <2>2 DEF SendInv, ReadsWanted, data
  <1>3. CASE SdCardInit
    <2>1. ~known'
      BY <1>3 DEF SdCardInit
    <2>. QED BY <2>1 DEF SendInv, ReadsWanted
  <1>4. CASE Select
    <2>1. pc' = "packet" /\ UNCHANGED <<buff, rtn, known>>
      BY <1>4 DEF Select, data
    <2>. QED BY <2>1 DEF SendInv, ReadsWanted
  <1>5. CASE Packets
    <2>1. /\ pc = "packet" /\ pc' = "response"
          /\ UNCHANGED <<site, d, buff, rtn, known>>
      BY <1>5 DEF Packets, data
    <2>2. PICK arg \in Arguments : Packet(Number[site], arg)
      BY <1>5 DEF Packets
    <2>3. arg \in Nat
      BY <2>2, AddressNat DEF Arguments
    <2>4. PacketAnswer(arg)
      BY <2>1, <2>2, <2>3, PacketStep
    <2>5. ASSUME site = "read", known PROVE Block(arg) = Wanted
      <3>1. arg = Address
        BY <2>2, <2>5 DEF Arguments
      <3>2. sd = "found"
        BY <2>1, <2>5 DEF PlaceInv, Working
      <3>. QED BY <2>5, <3>1, <3>2, RightBlock
    <2>6. SendInv'
      BY <2>1, <2>4, <2>5 DEF SendInv, PacketAnswer
    <2>. QED BY <2>1, <2>6 DEF ReadsWanted
  <1>6. CASE Response
    <2>1. /\ pc = "response" /\ pc' \in {"response", "answered"}
          /\ UNCHANGED <<site, buff, rtn, known>>
      BY <1>6 DEF Response, data
    <2>2. PICK v \in Bytes : Byte(v) /\ d' = v /\ (pc' = "response" => v = 255)
      BY <1>6 DEF Response
    <2>3. SendInv'
      <3>. SUFFICES ASSUME site = "read", known PROVE SendInv'
        BY <2>1 DEF SendInv
      <3>1. /\ reply = 0 => tail = None /\ part = "token" /\ block = Wanted
            /\ reply # 0 => part = "none"
            /\ reply \in Responses
        BY <2>1 DEF SendInv, QuietInv, Working
      <3>2. CASE v = 255 /\ UNCHANGED <<reply, tail, part, block>>
        BY <2>1, <2>2, <3>1, <3>2 DEF SendInv
      <3>3. CASE v = reply /\ v # 255 /\ reply' = tail /\ UNCHANGED <<part, block>>
        BY <2>1, <2>2, <3>1, <3>3 DEF SendInv, Sending
      <3>. QED BY <2>2, <3>1, <3>2, <3>3, ByteStep DEF Responses, None
    <2>. QED BY <2>1, <2>3 DEF ReadsWanted
  <1>7. CASE SdInit /\ ~SdCardInit
    <2>. pc # "sd"
      BY <1>7 DEF SdInit, SdCardInit, Cmd0, Cmd8, Echo, Voltage, Capacity, Cmd58, Cmd55, Acmd41, Cmd1,
                  Again55, AgainAnswered, Cmd16, Answered
    <2>1. Handled /\ Initialising /\ UNCHANGED <<buff, rtn>>
      BY <1>7, HandledStep DEF Handled, Initialising, Working, data
    <2>2. rtn = "none" /\ pc' \in {"select", "trail", "pads"}
      BY <2>1 DEF PlaceInv, Handled, Continues, ReadsOn, Succeeds, Fails
    <2>. QED BY <2>1, <2>2 DEF SendInv, ReadsWanted
  <1>8. CASE SdReadBlock
    <2>1. /\ pc \in {"answered", "token", "data"} /\ site = "read" /\ known' = known
      BY <1>8 DEF SdReadBlock, ReadAnswered, WaitToken, ReadData, PlaceInv, Still
    <2>2. known => /\ pc = "answered" /\ d = 0 => Sending
                   /\ pc = "token" => Sending
                   /\ pc = "data" => part = "data" /\ block = Wanted
      BY <2>1 DEF SendInv, Working
    <2>3. CASE ReadAnswered
      BY <2>1, <2>2, <2>3 DEF ReadAnswered, ReadEnd, SendInv, Sending, ReadsWanted, cardVars, answer, stream, Working
    <2>4. CASE WaitToken
      <3>1. PICK v \in Bytes : Byte(v) /\
                  IF v = 254 THEN pc' = "data" /\ UNCHANGED <<rtn, site, d, tries>>
                  ELSE IF v \notin Tokens /\ tries > 1
                  THEN tries' = tries - 1 /\ UNCHANGED <<pc, rtn, site, d>>
                  ELSE ReadEnd("token_timeout")
        BY <2>4 DEF WaitToken
      <3>2. pc = "token" /\ buff' = buff
        BY <2>4 DEF WaitToken
      <3>3. known => \/ v = 255 /\ UNCHANGED <<reply, part, block>>
                     \/ v = 254 /\ part' = "data" /\ UNCHANGED <<reply, block>>
                     \/ v = 8
        BY <2>2, <3>1, <3>2, ByteStep DEF Sending
      <3>4. CASE v = 254
        BY <2>1, <2>2, <3>1, <3>2, <3>3, <3>4 DEF SendInv, ReadsWanted, Sending
      <3>5. CASE v # 254 /\ v \notin Tokens /\ tries > 1
        BY <2>1, <2>2, <3>1, <3>2, <3>3, <3>5 DEF SendInv, ReadsWanted, Sending, Tokens
      <3>6. CASE v # 254 /\ ReadEnd("token_timeout")
        BY <3>6 DEF ReadEnd, SendInv, ReadsWanted, Working
      <3>. QED BY <3>1, <3>4, <3>5, <3>6
    <2>5. CASE ReadData
      <3>1. pc = "data" /\ buff' = (IF part = "data" THEN block ELSE None) /\ ReadEnd("ok")
        BY <2>5 DEF ReadData
      <3>. QED BY <2>1, <2>2, <3>1 DEF ReadEnd, SendInv, ReadsWanted, Working
    <2>. QED BY <1>8, <2>3, <2>4, <2>5 DEF SdReadBlock
  <1>9. CASE User
    <2>1. ~known'
      BY <1>9 DEF User
    <2>. QED BY <2>1 DEF SendInv, ReadsWanted
  <1>. QED BY <1>1, <1>2, <1>3, <1>4, <1>5, <1>6, <1>7, <1>8, <1>9
           DEF Next, Program, SdCommand, Looks

-----------------------------------------------------------------------------
(* The results *)

IInv == CoreInv /\ PadsInv /\ TypeInv /\ ReadInv /\ SwapsInCart

LEMMA InvInit == Init => IInv
  <1>. SUFFICES ASSUME Init PROVE IInv
    OBVIOUS
  <1>1. CoreInv /\ PadsInv
    BY CoreInit
  <1>2. pc = "check" /\ sd = "notfound" /\ rtn = "none"
    BY DEF Init
  <1>3. ~Working
    BY <1>2 DEF Working
  <1>. QED BY <1>1, <1>2, <1>3 DEF IInv, TypeInv, OfferInv, FoundInv, CardKnown, ReadInv, SendInv,
              ReadsWanted, SwapsInCart, Initialising

LEMMA SwapStep ==
    ASSUME CoreInv, PadsInv, SwapsInCart, [Next]_vars
    PROVE  SwapsInCart'
  <1>1. CASE UNCHANGED vars
    BY <1>1 DEF SwapsInCart, vars, pads
  <1>2. CASE Pads
    <2>1. PadsInv' /\ (pc' = "bios" => have_cart' /\ cursor' = 2)
      BY <1>2, PadsStep DEF CoreInv
    <2>. QED BY <2>1 DEF PadsInv, SwapsInCart
  <1>3. CASE Next /\ ~Pads
    <2>1. pc # "bios"
      BY <1>3 DEF Next
    <2>2. ASSUME pc' = "bios" PROVE FALSE
      <3>1. CASE Looks
        BY <2>1, <2>2, <3>1, LooksStep
      <3>2. CASE SdInit /\ pc # "sd"
        BY <2>2, <3>2, HandledStep DEF Handled, Continues, ReadsOn, Succeeds, Fails
      <3>3. CASE SdInit /\ pc = "sd"
        BY <2>2, <3>3 DEF SdInit, SdCardInit, Send, Cmd0, Cmd8, Echo, Voltage, Capacity, Cmd58, Cmd55,
                  Acmd41, Cmd1, Again55, AgainAnswered, Cmd16, Answered
      <3>4. CASE SdDetect \/ SdCommand \/ SdReadBlock \/ User
        BY <2>1, <2>2, <3>4 DEF SdDetect, SdCommand, Select, Packets, Response, SdReadBlock, ReadAnswered,
                  WaitToken, ReadData, ReadEnd, User
      <3>. QED BY <1>3, <3>1, <3>2, <3>3, <3>4 DEF Next, Program, Looks
    <2>. QED BY <2>2 DEF SwapsInCart
  <1>. QED BY <1>1, <1>2, <1>3

\* The inductive invariant holds throughout.
THEOREM Invariant == Spec => []IInv
  <1>1. IInv /\ [Next]_vars => IInv'
    BY CoreStep, TypeStep, ReadStep, SwapStep DEF IInv
  <1>. QED BY InvInit, <1>1, PTL DEF Spec

\* A card that was initialised and has not been changed since is ready and
\* addressed in its unit; a read that succeeds from it gives the sector that was
\* wanted; counters stay in their range.
THEOREM ReadsCorrect == Spec => []ReadsRight
  <1>1. IInv => ReadsRight
    BY DEF IInv, CoreInv, TypeInv, ReadInv, ReadsRight
  <1>. QED BY <1>1, Invariant, PTL

\* The machine is given only to a cartridge that was there in all the frames of its
\* debouncing.
THEOREM SwapCorrect == Spec => []SwapsInCart
  <1>1. IInv => SwapsInCart
    BY DEF IInv
  <1>. QED BY <1>1, Invariant, PTL

\* A card is initialised once for an insertion, and a push of the stick is one action.
THEOREM OnceCorrect == Spec => OnceEach
  <1>1. IInv /\ [Next]_vars => (SdCardInit => removed)
    <2>. SUFFICES ASSUME CoreInv, SdCardInit PROVE removed
      BY DEF IInv
    <2>. QED BY DEF CoreInv, PlaceInv, SdCardInit, Working
  <1>2. IInv /\ [Next]_vars => [joy' \in Actions /\ joy \notin Actions => ~acted]_vars
    <2>. SUFFICES ASSUME CoreInv, PadsInv, [Next]_vars, joy' \in Actions, joy \notin Actions PROVE ~acted
      BY DEF IInv
    <2>1. Pads
      BY DEF Next, vars, pads, Program, Frame, Check, ReadStatus, TakeCount, Kept, SdDetect, SdCommand, Select,
         Packets, Response, SdInit, SdCardInit, Cmd0, Cmd8, Echo, Voltage, Capacity, Cmd58, Cmd55,
         Acmd41, Cmd1, Again55, AgainAnswered, Cmd16, Answered, SdReadBlock, ReadAnswered, WaitToken,
         ReadData, Still, User
    <2>. QED BY <2>1, PadsStep DEF CoreInv
  <1>. QED BY <1>1, <1>2, Invariant, PTL DEF Spec, OnceEach, OncePerInsertion, OnePerPush
=============================================================================
