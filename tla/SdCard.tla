------------------------------- MODULE SdCard -------------------------------
(***************************************************************************)
(* An SD or MMC card on the SPI port, as the driver of the menu sees it:   *)
(* packets go in, bytes come out.                                          *)
(*                                                                         *)
(* It is not part of the repository.  It answers what a card of its kind   *)
(* answers, or not at all, after at most Latency idle bytes; it may refuse *)
(* or fail to deliver a block, and may be busy for any time after a stop.  *)
(* What it has not sent is lost when it is selected again.                 *)
(***************************************************************************)
EXTENDS Integers

CONSTANTS
    Kinds,      \* "HC" addresses blocks; "SC", "SD1" and "MMC" address bytes
    Sectors,    \* number of blocks of a card
    SectorBytes,    \* 512
    Latency     \* idle bytes before an answer, at most

ASSUME CardAssumption == /\ Kinds \subseteq {"HC", "SC", "SD1", "MMC"}
                         /\ Sectors \in Nat /\ Latency \in Nat
                         /\ SectorBytes \in Nat \ {0}

VARIABLES
    kind,       \* the card that is in the slot, or was last
    card,       \* "absent", "native" until its first CMD0, "idle", "ready"
    prefixed,   \* CMD55 came last
    busy,       \* it holds its output low
    reply,      \* the byte it answers next, or None
    tail,       \* what follows that, or None
    late,       \* idle bytes before it answers
    part,       \* of the block it sends: "token", "data", "crc" or "none"
    many,       \* it goes on with the next block
    block       \* that it sends

answer == <<reply, tail, late>>
stream == <<part, many, block>>
cardVars == <<kind, card, prefixed, busy, answer, stream>>

None == -1

CardInit == /\ kind \in Kinds /\ card \in {"absent", "native"}
            /\ prefixed = FALSE /\ busy = FALSE
            /\ reply = None /\ tail = None /\ late = 0
            /\ part = "none" /\ many = FALSE /\ block = 0

\* A card is pulled out, or another pushed in.
Swap == /\ \/ card # "absent" /\ card' = "absent" /\ UNCHANGED kind
           \/ card = "absent" /\ card' = "native" /\ kind' \in Kinds
        /\ prefixed' = FALSE /\ busy' = FALSE
        /\ reply' = None /\ tail' = None /\ late' = 0
        /\ part' = "none" /\ many' = FALSE /\ block' = 0

\* What is left of an answer or a block is dropped.
Drop == /\ reply' = None /\ tail' = None /\ late' = 0 /\ part' = "none"
        /\ UNCHANGED <<kind, card, prefixed, busy, many, block>>

-----------------------------------------------------------------------------
(* Packets *)

Serves  == card \in {"idle", "ready"}
R1      == IF card = "idle" THEN 1 ELSE 0
Illegal == 4 + R1

\* It answers r, then t.
Answers(r, t) == /\ reply' = r /\ tail' = t /\ late' \in 0..Latency
                 /\ part' = "none"
                 /\ UNCHANGED <<kind, many, block>>

Plain(r) == Answers(r, None) /\ UNCHANGED <<card, busy>>

GoIdle == card # "absent" /\ Answers(1, None) /\ card' = "idle" /\ busy' = FALSE

\* CMD8: the echo of its argument, or none if the card needs another voltage.
IfCond == IF kind \in {"HC", "SC"}
          THEN \E echo \in {426, 170} : Answers(R1, echo) /\ UNCHANGED <<card, busy>>
          ELSE Plain(Illegal)

\* Initialisation takes any time.  A card that addresses blocks waits for a
\* host that says it can.
OpCond(hcs) == \/ Plain(R1)
               \/ (kind = "HC" => hcs) /\ Answers(0, None) /\ card' = "ready" /\ UNCHANGED busy

\* CMD58: the first byte of the OCR, whose bit 6 tells block addressing.
ReadOcr == /\ Answers(R1, IF kind = "HC" /\ card = "ready" THEN 64 ELSE 0)
           /\ UNCHANGED <<card, busy>>

Block(arg) == IF kind = "HC" THEN arg ELSE arg \div SectorBytes

\* CMD17 and CMD18.
Read(arg, more) == \/ /\ card = "ready" /\ Block(arg) < Sectors
                      /\ reply' = 0 /\ tail' = None /\ late' \in 0..Latency
                      /\ part' = "token" /\ many' = more /\ block' = Block(arg)
                      /\ UNCHANGED <<kind, card, busy>>
                   \/ Plain(Illegal) \/ Plain(64 + R1)

\* CMD12: the first byte is left over from the block.
Stop == /\ reply' = 255 /\ tail' = R1 /\ late' = 0 /\ part' = "none"
        /\ busy' \in BOOLEAN
        /\ UNCHANGED <<kind, card, many, block>>

Obeys(cmd, arg) ==
    \/ cmd = 0 /\ GoIdle
    \/ /\ Serves
       /\ \/ cmd = 1 /\ IF kind = "SC" THEN Plain(Illegal) ELSE OpCond(FALSE)
          \/ cmd = 8 /\ IfCond
          \/ cmd = 12 /\ Stop
          \/ cmd = 16 /\ Plain(IF card = "ready" THEN 0 ELSE Illegal)
          \/ cmd \in {17, 18} /\ Read(arg, cmd = 18)
          \/ cmd = 41 /\ IF prefixed THEN OpCond(arg # 0) ELSE Plain(Illegal)
          \/ cmd = 55 /\ Plain(IF kind = "MMC" THEN Illegal ELSE R1)
          \/ cmd = 58 /\ ReadOcr

\* A packet arrives, and the card obeys or misses it.
Packet(cmd, arg) ==
    \/ Obeys(cmd, arg) /\ prefixed' = (cmd = 55 /\ kind # "MMC")
    \/ UNCHANGED cardVars

-----------------------------------------------------------------------------
(* Bytes *)

\* The next byte of a selected card is v; its parts in a block are not told
\* apart.
Idle(v)  == /\ v = 255 /\ ~busy /\ reply = None /\ part \in {"none", "token"}
            /\ UNCHANGED cardVars

Busy(v)  == /\ v = 0 /\ busy /\ busy' \in BOOLEAN
            /\ UNCHANGED <<kind, card, prefixed, answer, stream>>

Late(v)  == /\ v = 255 /\ ~busy /\ reply # None /\ late > 0
            /\ late' = late - 1
            /\ UNCHANGED <<kind, card, prefixed, busy, reply, tail, stream>>

Reply(v) == /\ ~busy /\ reply # None /\ late = 0
            /\ v = reply /\ reply' = tail /\ tail' = None
            /\ UNCHANGED <<kind, card, prefixed, busy, late, stream>>

\* The token of a block, or an error in its place.
Token(v) == /\ ~busy /\ reply = None /\ part = "token"
            /\ \/ v = 254 /\ part' = "data"
               \/ v = 8 /\ part' = "none"
            /\ UNCHANGED <<kind, card, prefixed, busy, answer, many, block>>

Inside(v) == /\ ~busy /\ reply = None /\ part \in {"data", "crc"}
             /\ UNCHANGED cardVars

Byte(v) == Idle(v) \/ Busy(v) \/ Late(v) \/ Reply(v) \/ Token(v) \/ Inside(v)

\* The bytes of a block, read at once; then its checksum.
Data == IF part = "data" THEN part' = "crc" /\ UNCHANGED <<kind, card, prefixed, busy, answer, many, block>>
        ELSE UNCHANGED cardVars

Crc  == /\ IF part = "crc"
           THEN /\ part' = IF many /\ block + 1 < Sectors THEN "token" ELSE "none"
                /\ block' = block + 1
           ELSE UNCHANGED <<part, block>>
        /\ UNCHANGED <<kind, card, prefixed, busy, answer, many>>
=============================================================================
