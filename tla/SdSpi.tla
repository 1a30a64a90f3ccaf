------------------------------- MODULE SdSpi -------------------------------
(***************************************************************************)
(* The SD-card port of the Phoenix core, rtl/peripheral/sdcard.vhd, with   *)
(* the part of rtl/colecovision.vhd that stops the CPU while a byte is     *)
(* shifted, and the I/O cycle of the T80 around it.                        *)
(*                                                                         *)
(* A step is one 25MHz clock.  Registers carry the names of the source     *)
(* without the suffix _r; bits are named as in ByteExchange.  Operators    *)
(* named Bug... are wrong forms of the definition that follows them.       *)
(***************************************************************************)
EXTENDS Integers

CONSTANTS
    Bits,       \* bits in a byte, 8
    Divide,     \* clocks in a slow state, 32
    Enable      \* clocks in a CPU clock, 7

\* With Enable = 1 the CPU would run on before it sees wait_n.
ASSUME SpiAssumption ==
    /\ Bits \in Nat \ {0}
    /\ Divide \in Nat /\ Divide >= 2
    /\ Enable \in Nat /\ Enable >= 2

VARIABLES
    state,      \* "idle", "clk1", "clk0", "wait_eoc"
    shift,      \* shift register; the first bit drives MOSI
    count,
    din,        \* the bit sampled from MISO
    clk,        \* SPI clock
    wait_n,     \* 0: the CPU waits
    slow_clk,   \* divider
    spi_ss_n,   \* card select, one clock behind port >56
    tick,       \* clocks into the CPU clock; it is enabled on the last one
    cpu,        \* the I/O request on the bus, "none", "read", "write", "control"
    left,       \* CPU clocks it will last
    sd_slow_clk, sd_spi_ss_n,   \* port >56
    pos,        \* the card: bits of the current byte that are over
    heard,      \* the card: the bits it sampled
    since       \* history: clocks since SCLK last changed, at most Divide

port == <<state, shift, count, din, clk, wait_n, slow_clk, spi_ss_n>>
control == <<sd_slow_clk, sd_spi_ss_n>>
request == <<cpu, left>>
vars == <<port, tick, request, control, pos, heard, since>>

One == 0
Token == (-Bits)..Bits
Ones == [i \in 1..Bits |-> One]

-----------------------------------------------------------------------------
(* The port *)

\* cs_n is low while the bus shows a read or write of port >57.
Selected == cpu \in {"read", "write"}

\* dmux: a write sends the CPU's byte, a read sends ones.
Sent(k) == [i \in 1..Bits |-> IF k = "write" THEN i ELSE One]

mosi == shift[1]
miso == IF spi_ss_n = 1 THEN One ELSE -(pos + 1)

\* Whether the divider runs, and when it lets the state and SCLK change.
SlowEn == sd_slow_clk = 1 /\ (state \in {"clk1", "clk0"} \/ (state = "idle" /\ Selected))
RtEn   == SlowEn => slow_clk = 0
ClkEn  == SlowEn => slow_clk = 1

BugDivider == slow_clk' = IF SlowEn
                          THEN IF slow_clk = 0 THEN Divide \div 2 - 1 ELSE slow_clk - 1
                          ELSE slow_clk
Divider == slow_clk' = IF SlowEn THEN (slow_clk - 1) % Divide ELSE slow_clk

Goto(s, sh, c) == IF RtEn THEN state' = s /\ shift' = sh /\ count' = c
                          ELSE UNCHANGED <<state, shift, count>>
Sclk(v) == clk' = IF ClkEn THEN v ELSE clk

Idle == /\ state = "idle"
        /\ wait_n' = IF Selected THEN 0 ELSE 1
        /\ IF Selected THEN Goto("clk1", Sent(cpu), Bits - 1)
                       ELSE UNCHANGED <<state, shift, count>>
        /\ Sclk(0)
        /\ UNCHANGED din

Clk1 == /\ state = "clk1"
        /\ wait_n' = 0
        /\ Goto("clk0", shift, count)
        /\ Sclk(1)
        /\ din' = miso

Shifted == [i \in 1..Bits |-> IF i < Bits THEN shift[i + 1] ELSE din]

Clk0 == /\ state = "clk0"
        /\ wait_n' = 0
        /\ Goto(IF count = 0 THEN "wait_eoc" ELSE "clk1", Shifted, (count - 1) % Bits)
        /\ Sclk(0)
        /\ UNCHANGED din

BugWaitNoRelease == /\ state = "wait_eoc"
                    /\ wait_n' = IF Selected THEN 0 ELSE 1
                    /\ state' = IF Selected THEN state ELSE "idle"
                    /\ UNCHANGED <<shift, count, din, clk>>
BugWaitEoc == /\ state = "wait_eoc"
              /\ wait_n' = 1
              /\ state' = "idle"
              /\ UNCHANGED <<shift, count, din, clk>>
\* One request is one exchange: wait for the end of the CPU's I/O cycle.
WaitEoc == /\ state = "wait_eoc"
           /\ wait_n' = 1
           /\ state' = IF Selected THEN state ELSE "idle"
           /\ UNCHANGED <<shift, count, din, clk>>

-----------------------------------------------------------------------------
(* The card, SPI mode 0: samples on the rising edge, moves on the falling  *)
(* one, and drops an unfinished byte when it is let go.                    *)

Card ==
    /\ heard' = IF spi_ss_n = 1 THEN Ones
                ELSE IF clk = 0 /\ clk' = 1 THEN [heard EXCEPT ![pos + 1] = mosi]
                ELSE heard
    /\ pos' = IF spi_ss_n = 1 THEN 0
              ELSE IF clk = 1 /\ clk' = 0 THEN (pos + 1) % Bits ELSE pos

\* Everything a 25MHz clock does but the CPU.
Clock ==
    /\ Idle \/ Clk1 \/ Clk0 \/ WaitEoc
    /\ Divider
    /\ spi_ss_n' = sd_spi_ss_n
    /\ Card
    /\ since' = IF clk' # clk THEN 1 ELSE IF since < Divide THEN since + 1 ELSE since

-----------------------------------------------------------------------------
(* The CPU *)

CpuEnable == tick = Enable - 1 /\ wait_n = 1

Advance == Clock /\ tick' = (tick + 1) % Enable

\* No enable, or the CPU is stopped, or it does something else.
Elsewhere == /\ Advance
             /\ CpuEnable => cpu = "none"
             /\ UNCHANGED <<request, control>>

\* The T80 shows an I/O read for two of its clocks, a write for one.
Begin(k) == /\ CpuEnable /\ cpu = "none"
            /\ cpu' = k
            /\ left' = IF k = "read" THEN 2 ELSE 1
            /\ Advance /\ UNCHANGED control

AutoWait == /\ CpuEnable /\ left = 2
            /\ left' = 1
            /\ Advance /\ UNCHANGED <<cpu, control>>

\* The CPU takes the data and withdraws the request.
Finish == /\ CpuEnable /\ left = 1
          /\ cpu' = "none" /\ left' = 0
          /\ IF cpu = "control"
             THEN sd_slow_clk' \in 0..1 /\ sd_spi_ss_n' \in 0..1
             ELSE UNCHANGED control
          /\ Advance

Tick == \/ \E k \in {"read", "write", "control"} : Begin(k)
        \/ Elsewhere \/ AutoWait \/ Finish

\* The bit din starts with is never used.
\* reset_i resets the port, its control register and the CPU; not the card.
Reset == /\ state' = "idle" /\ shift' = Ones /\ count' = Bits - 1
         /\ din' = One /\ clk' = 0 /\ wait_n' = 1 /\ slow_clk' = 0
         /\ spi_ss_n' = 1 /\ sd_slow_clk' = 1 /\ sd_spi_ss_n' = 1
         /\ cpu' = "none" /\ left' = 0
         /\ tick' = (tick + 1) % Enable
         /\ since' = IF clk = 1 THEN 1 ELSE IF since < Divide THEN since + 1 ELSE since
         /\ UNCHANGED <<pos, heard>>

Init == /\ state = "idle" /\ shift = Ones /\ count = Bits - 1
        /\ din = One /\ clk = 0 /\ wait_n = 1 /\ slow_clk = 0
        /\ spi_ss_n = 1 /\ sd_slow_clk = 1 /\ sd_spi_ss_n = 1
        /\ cpu = "none" /\ left = 0
        /\ tick \in 0..(Enable - 1)
        /\ pos = 0 /\ heard = Ones
        /\ since = Divide

Next == Tick \/ Reset

\* The oscillator does not stop.
Spec == Init /\ [][Next]_vars /\ WF_vars(Tick)

-----------------------------------------------------------------------------
(* Properties *)

\* Registers within their widths; a request lasts one or two CPU clocks.
TypeOK ==
    /\ state \in {"idle", "clk1", "clk0", "wait_eoc"}
    /\ shift \in [1..Bits -> Token] /\ count \in 0..(Bits - 1) /\ din \in Token
    /\ clk \in 0..1 /\ wait_n \in 0..1 /\ slow_clk \in 0..(Divide - 1)
    /\ spi_ss_n \in 0..1 /\ sd_slow_clk \in 0..1 /\ sd_spi_ss_n \in 0..1
    /\ tick \in 0..(Enable - 1)
    /\ cpu \in {"none", "read", "write", "control"} /\ left \in 0..2
    /\ pos \in 0..(Bits - 1) /\ heard \in [1..Bits -> Token]
    /\ since \in 1..Divide

Done == state = "wait_eoc" /\ Selected

Byte == INSTANCE ByteExchange WITH
    request  <- cpu,
    selected <- sd_spi_ss_n = 0,
    answer   <- IF Done THEN shift ELSE [i \in {} |-> One],
    heard    <- IF Done /\ spi_ss_n = 0 THEN heard ELSE [i \in {} |-> One]

\* Each IN or OUT of port >57 exchanges one byte, the right way round, and
\* the CPU goes on only after it, at either clock and whatever its phase.
ExchangesBytes == Byte!Spec

\* "SPI Mode 0 ... sample on rising edge": MOSI is still while SCLK is high
\* and as it rises.  Reset may cut a byte off.
MosiStable == [][clk' = 1 => mosi' = mosi]_vars

\* The card stays selected, or unselected, for the whole of a byte, even
\* though its select is not part of the transfer but of port >56.
SelectStable == [][state # "idle" /\ Tick => spi_ss_n' = spi_ss_n]_vars

\* With the slow clock, which an SD card needs while it is initialised,
\* every phase of SCLK lasts at least Divide clocks.
SlowEnough == [][sd_slow_clk = 1 /\ clk' # clk /\ Tick => since = Divide]_vars

\* What the card is promised of its three lines, at both clocks and while the
\* program switches between them.
SpiTiming == MosiStable /\ SelectStable /\ SlowEnough

\* The CPU is never stopped for good: every request is finished or reset.
RequestEnds == cpu # "none" ~> cpu = "none"
=============================================================================
