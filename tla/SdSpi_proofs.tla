---------------------------- MODULE SdSpi_proofs ----------------------------
(* The SD port exchanges bytes (it implements ByteExchange), keeps SPI mode *)
(* 0 and its slow clock, for every width of the byte, every divider and     *)
(* every ratio of the CPU's clock to the system's, from 2 up.               *)
EXTENDS SdSpi, TLAPS

-----------------------------------------------------------------------------
(* The inductive invariant *)

\* Bits of the byte that are over, and bit k of what the card sends.
Over == Bits - 1 - count
In(k) == IF spi_ss_n = 1 THEN One ELSE -k

\* The shift register, with n bits over.
Register(n) == [i \in 1..Bits |->
                  IF i + n <= Bits THEN Sent(cpu)[i + n] ELSE In(i + n - Bits)]

Shifting == state \in {"clk1", "clk0"}

\* With the slow clock SCLK moves one clock before the state does.
Moved == sd_slow_clk = 1 /\ slow_clk = 0

CpuInv ==
    /\ cpu = "none" <=> left = 0
    /\ left = 2 => cpu = "read"

\* The port is ready again before the CPU can ask again, and the CPU is
\* stopped before it can go on.
HandshakeInv ==
    /\ Shifting => Selected /\ wait_n = 0
    /\ state = "idle" /\ Selected => wait_n = 0 \/ tick = 0
    /\ ~Selected /\ (tick > 0 \/ cpu = "control") => state = "idle"

SelectInv == tick > 0 \/ cpu # "none" \/ state # "idle" => spi_ss_n = sd_spi_ss_n

ClockInv == clk = IF \/ state = "clk1" /\ Moved
                     \/ state = "clk0" /\ ~Moved
                  THEN 1 ELSE 0

ShiftInv ==
    /\ Shifting => shift = Register(Over)
    /\ state = "clk0" => din = In(Over + 1)
    /\ Done => shift = Register(Bits)

\* The card is in step with the port.
CardInv == spi_ss_n = 0 =>
    /\ state \in {"idle", "wait_eoc"} => pos = 0
    /\ state = "clk1" \/ (state = "clk0" /\ ~Moved) => pos = Over
    /\ state = "clk0" /\ Moved => pos = (Over + 1) % Bits

HeardInv == spi_ss_n = 0 =>
    /\ state = "clk1" => \A i \in 1..Bits : i <= Over => heard[i] = Sent(cpu)[i]
    /\ state = "clk1" /\ Moved => heard[Over + 1] = Sent(cpu)[Over + 1]
    /\ state = "clk0" => \A i \in 1..Bits : i <= Over + 1 => heard[i] = Sent(cpu)[i]
    /\ Done => heard = Sent(cpu)

SinceInv == sd_slow_clk = 1 /\ Shifting =>
    since >= IF slow_clk = 0 THEN 1 ELSE Divide + 1 - slow_clk

-----------------------------------------------------------------------------
(* Counters *)

LEMMA Up ==
    ASSUME NEW n \in Nat \ {0}, NEW x \in 0..(n - 1)
    PROVE  (x + 1) % n = IF x = n - 1 THEN 0 ELSE x + 1
<1>1. CASE x = n - 1
  BY <1>1
<1>2. CASE x # n - 1
  BY <1>2
<1> QED
  BY <1>1, <1>2

LEMMA Down ==
    ASSUME NEW n \in Nat \ {0}, NEW x \in 0..(n - 1)
    PROVE  (x - 1) % n = IF x = 0 THEN n - 1 ELSE x - 1
<1>1. CASE x = 0
  BY <1>1
<1>2. CASE x # 0
  BY <1>2
<1> QED
  BY <1>1, <1>2

-----------------------------------------------------------------------------
(* The CPU *)

\* What a clock can do to the CPU, with the state of the port it then meets.
Stays  == cpu' = cpu /\ UNCHANGED control
Begins == /\ state = "idle" /\ cpu = "none" /\ tick' = 0 /\ tick > 0
          /\ cpu' \in {"read", "write", "control"} /\ UNCHANGED control
Takes  == /\ state = "wait_eoc" /\ Selected /\ tick' = 0
          /\ cpu' = "none" /\ UNCHANGED control
Controls == /\ state = "idle" /\ cpu = "control" /\ tick' = 0
            /\ cpu' = "none" /\ sd_slow_clk' \in 0..1 /\ sd_spi_ss_n' \in 0..1

LEMMA CpuStep ==
    ASSUME TypeOK, CpuInv, HandshakeInv, Tick
    PROVE  /\ Clock
           /\ tick' = IF tick = Enable - 1 THEN 0 ELSE tick + 1
           /\ cpu' \in {"none", "read", "write", "control"} /\ left' \in 0..2
           /\ CpuInv'
           /\ Stays \/ Begins \/ Takes \/ Controls
<1> USE SpiAssumption
<1>1. tick \in 0..(Enable - 1) /\ Enable \in Nat /\ Enable >= 2
  BY DEF TypeOK
<1>0. cpu \in {"none", "read", "write", "control"} /\ left \in 0..2
  BY DEF TypeOK
<1>2. tick' = IF tick = Enable - 1 THEN 0 ELSE tick + 1
  BY <1>1, Up DEF Tick, Begin, Elsewhere, AutoWait, Finish, Advance
<1>3. Clock
  BY DEF Tick, Begin, Elsewhere, AutoWait, Finish, Advance
<1>4. CpuEnable /\ Selected => state = "wait_eoc"
  BY <1>1 DEF CpuEnable, HandshakeInv, Shifting, TypeOK
<1>5. CpuEnable /\ ~Selected => state = "idle" /\ tick > 0
  BY <1>1 DEF CpuEnable, HandshakeInv
<1>6. ASSUME NEW k \in {"read", "write", "control"}, Begin(k)
      PROVE  /\ cpu' \in {"none", "read", "write", "control"} /\ left' \in 0..2
             /\ CpuInv' /\ Begins
  BY <1>1, <1>2, <1>5, <1>6 DEF Begin, Begins, CpuInv, Selected, CpuEnable
<1>7. CASE Elsewhere
  BY <1>0, <1>2, <1>3, <1>7 DEF Elsewhere, Stays, CpuInv, request, control
<1>8. CASE AutoWait
  BY <1>0, <1>2, <1>3, <1>8 DEF AutoWait, Stays, CpuInv, control
<1>9. CASE Finish
  <2>1. cpu' = "none" /\ tick' = 0 /\ cpu # "none" /\ CpuEnable
    BY <1>1, <1>2, <1>9 DEF Finish, CpuEnable, CpuInv
  <2>2. CASE cpu = "control"
    BY <1>0, <1>2, <1>3, <1>5, <1>9, <2>1, <2>2 DEF CpuInv, Finish, Controls, Selected, control
  <2>3. CASE cpu # "control"
    BY <1>0, <1>2, <1>3, <1>4, <1>9, <2>1, <2>3 DEF CpuInv, Finish, Takes, Selected, control
  <2> QED
    BY <2>2, <2>3
<1> QED
  BY <1>2, <1>3, <1>6, <1>7, <1>8, <1>9 DEF Tick

-----------------------------------------------------------------------------
(* The handshake between the CPU and the port *)

LEMMA HandshakeStep ==
    ASSUME TypeOK, CpuInv, HandshakeInv, SelectInv, Tick
    PROVE  HandshakeInv' /\ SelectInv'
<1>1. /\ tick \in 0..(Enable - 1) /\ Enable \in Nat /\ Enable >= 2
      /\ cpu \in {"none", "read", "write", "control"}
      /\ state \in {"idle", "clk1", "clk0", "wait_eoc"}
  BY SpiAssumption DEF TypeOK
<1>2. /\ tick' = IF tick = Enable - 1 THEN 0 ELSE tick + 1
      /\ Stays \/ Begins \/ Takes \/ Controls
      /\ Idle \/ Clk1 \/ Clk0 \/ WaitEoc
      /\ spi_ss_n' = sd_spi_ss_n
  BY CpuStep DEF Clock
<1>3. tick' # 0 => tick' > 0
  BY <1>1, <1>2
<1>4. CASE Begins
  <2>1. state' = "idle" /\ ~Selected /\ Idle
    BY <1>2, <1>4 DEF Begins, Idle, Clk1, Clk0, WaitEoc, Selected
  <2> QED
    BY <1>1, <1>2, <1>4, <2>1 DEF Begins, HandshakeInv, SelectInv, Shifting, Selected, control
<1>5. CASE Takes
  <2>1. state' = "wait_eoc"
    BY <1>2, <1>5 DEF Takes, Idle, Clk1, Clk0, WaitEoc
  <2> QED
    BY <1>1, <1>2, <1>5, <2>1 DEF Takes, HandshakeInv, SelectInv, Shifting, Selected, control
<1>6. CASE Controls
  <2>1. state' = "idle"
    BY <1>2, <1>6 DEF Controls, Idle, Clk1, Clk0, WaitEoc, Selected
  <2> QED
    BY <1>1, <1>2, <1>6, <2>1 DEF Controls, HandshakeInv, SelectInv, Shifting, Selected
<1>7. CASE Stays
  <2>1. SelectInv'
    BY <1>1, <1>2, <1>7 DEF Stays, SelectInv, control
  <2>2. Selected' <=> Selected
    BY <1>7 DEF Stays, Selected
  <2>3. CASE Idle
    BY <1>1, <1>2, <1>7, <2>1, <2>2, <2>3 DEF Stays, HandshakeInv, Shifting, Idle, Goto
  <2>4. CASE Clk1
    BY <1>1, <1>2, <1>7, <2>1, <2>2, <2>4 DEF Stays, HandshakeInv, Shifting, Clk1, Goto
  <2>5. CASE Clk0
    BY <1>1, <1>2, <1>7, <2>1, <2>2, <2>5 DEF Stays, HandshakeInv, Shifting, Clk0, Goto
  <2>6. CASE WaitEoc
    BY <1>1, <1>2, <1>7, <2>1, <2>2, <2>6 DEF Stays, HandshakeInv, Shifting, WaitEoc
  <2> QED
    BY <1>2, <2>3, <2>4, <2>5, <2>6
<1> QED
  BY <1>2, <1>4, <1>5, <1>6, <1>7

\* Within a byte the CPU stands still and port >56 keeps its value.
LEMMA Still ==
    ASSUME TypeOK, CpuInv, HandshakeInv, SelectInv, Tick, Shifting \/ (state = "idle" /\ Selected)
    PROVE  /\ Selected /\ Stays /\ Selected'
           /\ sd_slow_clk' = sd_slow_clk /\ sd_spi_ss_n' = sd_spi_ss_n
           /\ spi_ss_n = sd_spi_ss_n /\ spi_ss_n' = spi_ss_n
<1>1. Selected /\ (Shifting => state # "idle" /\ state # "wait_eoc")
  BY DEF HandshakeInv, Shifting
<1>2. Stays
  BY <1>1, CpuStep DEF Begins, Takes, Controls, Selected
<1> QED
  BY <1>1, <1>2, CpuStep DEF Stays, Selected, control, SelectInv, Clock

-----------------------------------------------------------------------------
(* The divider: within a byte a clock is one of three                      *)

Busy  == Shifting \/ (state = "idle" /\ Selected)
Level == IF state = "clk1" THEN 1 ELSE 0

Rests == /\ ~Moved /\ ~Moved' /\ UNCHANGED <<state, shift, count, clk>>
         /\ sd_slow_clk = 1 /\ slow_clk > 1 /\ slow_clk' = slow_clk - 1
Edges == /\ ~Moved /\ Moved' /\ UNCHANGED <<state, shift, count>> /\ clk' = Level
         /\ sd_slow_clk = 1 /\ slow_clk = 1 /\ slow_clk' = 0
Turns == /\ RtEn /\ ~Moved' /\ clk' = Level
         /\ sd_slow_clk = 1 => Moved /\ slow_clk' = Divide - 1 /\ clk' = clk

LEMMA Beat ==
    ASSUME TypeOK, CpuInv, HandshakeInv, SelectInv, ClockInv, Tick, Busy
    PROVE  Rests \/ Edges \/ Turns
<1>1. /\ Divide \in Nat /\ Divide >= 2 /\ slow_clk \in 0..(Divide - 1)
      /\ clk \in 0..1 /\ sd_slow_clk \in 0..1
  BY SpiAssumption DEF TypeOK
<1>2. sd_slow_clk' = sd_slow_clk
  BY Still DEF Busy
<1>3. /\ Idle \/ Clk1 \/ Clk0
      /\ slow_clk' = IF SlowEn THEN (slow_clk - 1) % Divide ELSE slow_clk
  BY CpuStep DEF Clock, Divider, Busy, Shifting, WaitEoc
<1>4. SlowEn <=> sd_slow_clk = 1
  BY DEF SlowEn, Busy, Shifting
<1>5. Sclk(Level)
  BY <1>3 DEF Idle, Clk1, Clk0, Level
<1>6. CASE sd_slow_clk = 1
  <2>1. slow_clk' = IF slow_clk = 0 THEN Divide - 1 ELSE slow_clk - 1
    <3>1. Divide \in Nat \ {0}
      BY <1>1
    <3>2. (slow_clk - 1) % Divide = IF slow_clk = 0 THEN Divide - 1 ELSE slow_clk - 1
      BY <1>1, <3>1, Down
    <3> QED
      BY <1>3, <1>4, <1>6, <3>2
  <2>2. CASE slow_clk = 0
    <3>1. clk = Level
      BY <1>3, <1>6, <2>2 DEF ClockInv, Level, Moved, Idle, Clk1, Clk0
    <3> QED
      BY <1>1, <1>2, <1>4, <1>5, <1>6, <2>1, <2>2, <3>1 DEF Turns, RtEn, ClkEn, Sclk, Moved
  <2>3. CASE slow_clk = 1
    <3>1. UNCHANGED <<state, shift, count>>
      BY <1>3, <1>4, <1>6, <2>3 DEF Idle, Clk1, Clk0, Goto, RtEn, Busy, Shifting
    <3> QED
      BY <1>1, <1>2, <1>4, <1>5, <1>6, <2>1, <2>3, <3>1 DEF Edges, ClkEn, Sclk, Moved
  <2>4. CASE slow_clk > 1
    <3>1. UNCHANGED <<state, shift, count>>
      BY <1>3, <1>4, <1>6, <2>4 DEF Idle, Clk1, Clk0, Goto, RtEn, Busy, Shifting
    <3> QED
      BY <1>1, <1>2, <1>4, <1>5, <1>6, <2>1, <2>4, <3>1 DEF Rests, ClkEn, Sclk, Moved
  <2> QED
    BY <1>1, <2>2, <2>3, <2>4
<1>7. CASE sd_slow_clk # 1
  BY <1>1, <1>2, <1>4, <1>5, <1>7 DEF Turns, RtEn, ClkEn, Sclk, Moved
<1> QED
  BY <1>6, <1>7

\* Outside a byte nothing moves.
LEMMA Lull ==
    ASSUME TypeOK, CpuInv, HandshakeInv, SelectInv, ClockInv, Tick, ~Busy
    PROVE  /\ UNCHANGED <<shift, count, din, clk>> /\ clk = 0
           /\ state' = IF Selected THEN "wait_eoc" ELSE "idle"
           /\ Selected => state = "wait_eoc"
<1>1. state \in {"idle", "wait_eoc"} /\ clk = 0
  BY DEF TypeOK, Busy, Shifting, ClockInv
<1>2. Idle \/ WaitEoc
  BY <1>1, CpuStep DEF Clock, Clk1, Clk0
<1> QED
  BY <1>1, <1>2 DEF Idle, WaitEoc, Busy, Sclk

LEMMA ClockStep ==
    ASSUME TypeOK, CpuInv, HandshakeInv, SelectInv, ClockInv, SinceInv, Tick
    PROVE  ClockInv' /\ SinceInv'
<1>1. /\ Divide \in Nat /\ Divide >= 2 /\ slow_clk \in 0..(Divide - 1)
      /\ clk \in 0..1 /\ sd_slow_clk \in 0..1 /\ since \in 1..Divide
  BY SpiAssumption DEF TypeOK
<1>2. /\ since' = IF clk' # clk THEN 1 ELSE IF since < Divide THEN since + 1 ELSE since
      /\ Idle \/ Clk1 \/ Clk0 \/ WaitEoc
  BY CpuStep DEF Clock
<1>3. CASE Busy
  <2>1. sd_slow_clk' = sd_slow_clk
    BY <1>3, Still DEF Busy
  <2>2. CASE Rests
    BY <1>1, <1>2, <1>3, <2>1, <2>2 DEF Rests, ClockInv, SinceInv, Shifting
  <2>3. CASE Edges
    BY <1>1, <1>2, <1>3, <2>1, <2>3 DEF Edges, ClockInv, SinceInv, Shifting, Level, Busy
  <2>4. CASE Turns
    <3>1. \/ state = "clk1" /\ state' = "clk0"
          \/ state # "clk1" /\ state' \in {"clk1", "wait_eoc"}
      BY <1>2, <1>3, <2>4 DEF Turns, Idle, Clk1, Clk0, WaitEoc, Goto, Busy, Shifting
    <3>2. ClockInv'
      BY <2>4, <3>1 DEF Turns, ClockInv, Level
    <3>3. SinceInv'
      BY <1>1, <1>2, <2>1, <2>4 DEF Turns, SinceInv
    <3> QED
      BY <3>2, <3>3
  <2> QED
    BY <1>3, <2>2, <2>3, <2>4, Beat
<1>4. CASE ~Busy
  BY <1>4, Lull DEF ClockInv, SinceInv, Shifting
<1> QED
  BY <1>3, <1>4

-----------------------------------------------------------------------------
(* The bits *)

\* Shifting the register leaves one more bit over.
LEMMA Shifts ==
    ASSUME Bits \in Nat \ {0}, NEW n \in 0..(Bits - 1),
           shift = Register(n), din = In(n + 1)
    PROVE  Shifted = Register(n + 1)
<1>1. ASSUME NEW i \in 1..Bits
      PROVE  (IF i < Bits THEN shift[i + 1] ELSE din)
             = IF i + (n + 1) <= Bits THEN Sent(cpu)[i + (n + 1)] ELSE In(i + (n + 1) - Bits)
  <2>1. CASE i < Bits
    <3>1. /\ i + 1 \in 1..Bits /\ (i + 1) + n = i + (n + 1)
      BY <2>1
    <3>2. shift[i + 1] = IF (i + 1) + n <= Bits THEN Sent(cpu)[(i + 1) + n]
                         ELSE In((i + 1) + n - Bits)
      BY <3>1 DEF Register
    <3> QED
      BY <2>1, <3>1, <3>2
  <2>2. CASE i = Bits
    <3>1. i + (n + 1) > Bits /\ i + (n + 1) - Bits = n + 1 /\ ~(i < Bits)
      BY <2>2
    <3> QED
      BY <3>1
  <2> QED
    BY <2>1, <2>2
<1> QED
  BY <1>1 DEF Shifted, Register

\* With no bit over the register holds what the CPU sends, with all of them
\* over what the card sent.
LEMMA Loaded == Bits \in Nat \ {0} => Register(0) = Sent(cpu)
<1>1. \A i \in 1..Bits : Bits \in Nat => (i + 0 <= Bits /\ i + 0 = i)
  OBVIOUS
<1> QED
  BY <1>1 DEF Register, Sent

LEMMA FirstBit ==
    ASSUME Bits \in Nat \ {0}, NEW n \in 0..(Bits - 1), shift = Register(n)
    PROVE  mosi = Sent(cpu)[n + 1]
<1>1. 1 \in 1..Bits /\ 1 + n <= Bits /\ 1 + n = n + 1
  OBVIOUS
<1> QED
  BY <1>1 DEF mosi, Register

LEMMA ShiftStep ==
    ASSUME TypeOK, CpuInv, HandshakeInv, SelectInv, ClockInv, ShiftInv, CardInv, Tick
    PROVE  ShiftInv' /\ count' \in 0..(Bits - 1)
<1>1. /\ Bits \in Nat \ {0} /\ count \in 0..(Bits - 1) /\ Over \in 0..(Bits - 1)
      /\ Over + 1 = Bits - count /\ spi_ss_n \in 0..1
  BY SpiAssumption DEF TypeOK, Over
<1>2. Idle \/ Clk1 \/ Clk0 \/ WaitEoc
  BY CpuStep DEF Clock
<1>3. CASE Busy
  <2>1. /\ Selected /\ Selected' /\ cpu' = cpu /\ spi_ss_n' = spi_ss_n
        /\ state # "wait_eoc"
    BY <1>3, Still DEF Busy, Stays, Shifting
  <2>2. \A n : Register(n)' = Register(n) /\ In(n)' = In(n)
    BY <2>1 DEF Register, In, Sent
  <2>3. CASE Rests \/ Edges
    <3>1. UNCHANGED <<state, shift, count>>
      BY <2>3 DEF Rests, Edges
    <3>2. state = "clk0" => UNCHANGED din
      BY <1>2 DEF Idle, Clk1, Clk0, WaitEoc
    <3>3. Over' = Over
      BY <3>1 DEF Over
    <3> QED
      BY <1>1, <2>1, <2>2, <3>1, <3>2, <3>3 DEF ShiftInv, Shifting, Done
  <2>4. CASE Turns /\ state = "idle"
    <3>1. state' = "clk1" /\ shift' = Sent(cpu) /\ count' = Bits - 1
      BY <1>2, <2>1, <2>4 DEF Turns, Idle, Clk1, Clk0, WaitEoc, Goto
    <3>2. Over' = 0
      BY <1>1, <3>1 DEF Over
    <3>3. shift' = Register(Over)'
      BY <1>1, <2>2, <3>1, <3>2, Loaded DEF Register
    <3> QED
      BY <1>1, <3>1, <3>3 DEF ShiftInv, Shifting, Done
  <2>5. CASE Turns /\ state = "clk1"
    <3>1. state' = "clk0" /\ UNCHANGED <<shift, count>> /\ din' = miso
      BY <1>2, <2>5 DEF Turns, Idle, Clk1, Clk0, WaitEoc, Goto
    <3>2. miso = In(Over + 1)
      BY <1>1, <2>5 DEF miso, In, CardInv
    <3>3. Over' = Over
      BY <3>1 DEF Over
    <3> QED
      BY <1>1, <2>2, <2>5, <3>1, <3>2, <3>3 DEF ShiftInv, Shifting, Done
  <2>6. CASE Turns /\ state = "clk0"
    <3>1. /\ state' = IF count = 0 THEN "wait_eoc" ELSE "clk1"
          /\ shift' = Shifted /\ count' = (count - 1) % Bits
      BY <1>2, <2>6 DEF Turns, Idle, Clk1, Clk0, WaitEoc, Goto
    <3>2. (count - 1) % Bits = IF count = 0 THEN Bits - 1 ELSE count - 1
      BY <1>1, Down
    <3>3. Shifted = Register(Over + 1)
      BY <1>1, <2>6, Shifts DEF ShiftInv, Shifting
    <3>4. count = 0 => Over + 1 = Bits
      BY <1>1 DEF Over
    <3>5. count # 0 => Over' = Over + 1
      BY <1>1, <3>1, <3>2 DEF Over
    <3> QED
      BY <1>1, <2>2, <3>1, <3>2, <3>3, <3>4, <3>5 DEF ShiftInv, Shifting, Done
  <2> QED
    BY <1>3, <2>3, <2>4, <2>5, <2>6, Beat DEF Busy, Shifting
<1>4. CASE ~Busy
  <2>1. /\ UNCHANGED <<shift, count>> /\ state' \in {"idle", "wait_eoc"}
        /\ state' = "wait_eoc" => Selected /\ state = "wait_eoc"
    BY <1>4, Lull
  <2>2. CASE Stays
    <3>1. cpu' = cpu /\ (Selected' <=> Selected)
      BY <2>2 DEF Stays, Selected
    <3>2. Done' => Done /\ spi_ss_n' = spi_ss_n
      BY <2>1, <3>1, CpuStep DEF Done, Clock, SelectInv
    <3>3. Done' => Register(Bits)' = Register(Bits)
      BY <3>1, <3>2 DEF Register, In, Sent
    <3> QED
      BY <1>1, <2>1, <3>2, <3>3 DEF ShiftInv, Shifting
  <2>3. CASE ~Stays
    <3>1. ~Done'
      BY <2>1, <2>3, CpuStep DEF Done, Begins, Takes, Controls, Selected
    <3> QED
      BY <1>1, <2>1, <3>1 DEF ShiftInv, Shifting
  <2> QED
    BY <2>2, <2>3
<1> QED
  BY <1>3, <1>4

LEMMA CardStep ==
    ASSUME TypeOK, CpuInv, HandshakeInv, SelectInv, ClockInv, CardInv, Tick
    PROVE  CardInv' /\ pos' \in 0..(Bits - 1)
<1>1. /\ Bits \in Nat \ {0} /\ count \in 0..(Bits - 1) /\ Over \in 0..(Bits - 1)
      /\ pos \in 0..(Bits - 1) /\ spi_ss_n \in 0..1 /\ clk \in 0..1
      /\ (count = 0 <=> Over = Bits - 1)
  BY SpiAssumption DEF TypeOK, Over
<1>2. /\ Idle \/ Clk1 \/ Clk0 \/ WaitEoc
      /\ pos' = IF spi_ss_n = 1 THEN 0
                ELSE IF clk = 1 /\ clk' = 0 THEN (pos + 1) % Bits ELSE pos
  BY CpuStep DEF Clock, Card
<1>3. /\ (pos + 1) % Bits = IF pos = Bits - 1 THEN 0 ELSE pos + 1
      /\ (Over + 1) % Bits = IF Over = Bits - 1 THEN 0 ELSE Over + 1
  BY <1>1, Up
<1>4. pos' \in 0..(Bits - 1)
  BY <1>1, <1>2, <1>3
<1>5. CASE Busy
  <2>1. spi_ss_n' = spi_ss_n /\ state # "wait_eoc"
    BY <1>5, Still DEF Busy, Shifting
  <2>2. CASE spi_ss_n = 1
    BY <1>4, <2>1, <2>2 DEF CardInv
  <2>3. CASE spi_ss_n = 0 /\ Rests
    <3>1. Over' = Over /\ pos' = pos
      BY <1>2, <2>3 DEF Rests, Over
    <3> QED
      BY <1>4, <2>1, <2>3, <3>1 DEF CardInv, Rests
  <2>4. CASE spi_ss_n = 0 /\ Edges /\ state # "clk0"
    <3>1. clk = 0 /\ Over' = Over /\ pos' = pos
      BY <1>1, <1>2, <2>4 DEF Edges, ClockInv, Over
    <3> QED
      BY <1>4, <2>1, <2>4, <3>1 DEF CardInv, Edges
  <2>5. CASE spi_ss_n = 0 /\ Edges /\ state = "clk0"
    <3>1. clk = 1 /\ clk' = 0 /\ Over' = Over
      BY <2>5 DEF Edges, ClockInv, Over, Level
    <3>2. pos = Over /\ pos' = (Over + 1) % Bits
      BY <1>2, <2>5, <3>1 DEF CardInv, Edges
    <3>3. ((Over + 1) % Bits)' = (Over + 1) % Bits
      BY <3>1
    <3> QED
      BY <1>4, <2>1, <2>5, <3>1, <3>2, <3>3 DEF CardInv, Edges
  <2>6. CASE spi_ss_n = 0 /\ Turns /\ state = "idle"
    <3>1. clk = 0 /\ state' = "clk1" /\ count' = Bits - 1
      BY <1>2, <1>5, <2>6 DEF Turns, ClockInv, Idle, Clk1, Clk0, WaitEoc, Goto, Busy, Shifting
    <3>2. Over' = 0 /\ pos' = 0
      BY <1>1, <1>2, <2>6, <3>1 DEF Over, CardInv
    <3> QED
      BY <1>4, <3>1, <3>2 DEF CardInv
  <2>7. CASE spi_ss_n = 0 /\ Turns /\ state = "clk1"
    <3>1. clk' = 1 /\ state' = "clk0" /\ UNCHANGED count /\ ~Moved'
      BY <1>2, <2>7 DEF Turns, Level, Idle, Clk1, Clk0, WaitEoc, Goto
    <3>2. Over' = Over /\ pos' = Over
      BY <1>2, <2>7, <3>1 DEF Over, CardInv
    <3> QED
      BY <1>4, <3>1, <3>2 DEF CardInv
  <2>8. CASE spi_ss_n = 0 /\ Turns /\ state = "clk0"
    <3>1. /\ state' = IF count = 0 THEN "wait_eoc" ELSE "clk1"
          /\ count' = (count - 1) % Bits /\ clk' = 0
      BY <1>2, <2>8 DEF Turns, Level, Idle, Clk1, Clk0, WaitEoc, Goto
    <3>2. (count - 1) % Bits = IF count = 0 THEN Bits - 1 ELSE count - 1
      BY <1>1, Down
    <3>3. pos' = (Over + 1) % Bits
      <4>1. CASE Moved
        <5>1. clk = 0
          BY <2>8, <4>1 DEF ClockInv
        <5> QED
          BY <1>2, <2>8, <4>1, <5>1 DEF CardInv
      <4>2. CASE ~Moved
        <5>1. clk = 1
          BY <2>8, <4>2 DEF ClockInv
        <5> QED
          BY <1>2, <2>8, <3>1, <4>2, <5>1 DEF CardInv
      <4> QED
        BY <4>1, <4>2
    <3>4. Over' = Bits - 1 - count'
      BY DEF Over
    <3>5. count # 0 => Over' = Over + 1 /\ Over # Bits - 1
      BY <1>1, <3>1, <3>2, <3>4 DEF Over
    <3> QED
      BY <1>1, <1>3, <1>4, <3>1, <3>3, <3>5 DEF CardInv
  <2> QED
    BY <1>1, <1>5, <2>2, <2>3, <2>4, <2>5, <2>6, <2>7, <2>8, Beat DEF Busy, Shifting
<1>6. CASE ~Busy
  <2>1. /\ UNCHANGED clk /\ state' \in {"idle", "wait_eoc"} /\ clk = 0
        /\ state \in {"idle", "wait_eoc"}
    BY <1>6, Lull DEF TypeOK, Busy, Shifting
  <2> QED
    BY <1>1, <1>2, <1>4, <2>1 DEF CardInv
<1> QED
  BY <1>5, <1>6

LEMMA HeardStep ==
    ASSUME TypeOK, CpuInv, HandshakeInv, SelectInv, ClockInv, ShiftInv, CardInv, HeardInv, Tick
    PROVE  HeardInv'
<1>1. /\ Bits \in Nat \ {0} /\ count \in 0..(Bits - 1) /\ Over \in 0..(Bits - 1)
      /\ heard \in [1..Bits -> Token] /\ Over + 1 \in 1..Bits /\ clk \in 0..1
      /\ (count = 0 <=> Over + 1 = Bits)
  BY SpiAssumption DEF TypeOK, Over
<1>2. /\ Idle \/ Clk1 \/ Clk0 \/ WaitEoc
      /\ spi_ss_n = 0 => heard' = IF clk = 0 /\ clk' = 1
                                 THEN [heard EXCEPT ![pos + 1] = mosi] ELSE heard
  BY CpuStep DEF Clock, Card
<1>3. SUFFICES ASSUME spi_ss_n' = 0 PROVE HeardInv'
  BY DEF HeardInv
<1>4. CASE Busy
  <2>1. /\ spi_ss_n = 0 /\ cpu' = cpu /\ Selected /\ state # "wait_eoc"
    BY <1>3, <1>4, Still DEF Busy, Shifting, Stays
  <2>2. Sent(cpu)' = Sent(cpu)
    BY <2>1 DEF Sent
  <2>3. \* A rising edge: the card takes the next bit.
        ASSUME state = "clk1", clk = 0, clk' = 1
        PROVE  \A i \in 1..Bits : i <= Over + 1 => heard'[i] = Sent(cpu)[i]
    <3>1. pos = Over /\ mosi = Sent(cpu)[Over + 1]
      BY <1>1, <2>1, <2>3, FirstBit DEF CardInv, ShiftInv, Shifting
    <3>2. heard' = [heard EXCEPT ![Over + 1] = Sent(cpu)[Over + 1]]
      BY <1>2, <2>1, <2>3, <3>1
    <3>3. \A i \in 1..Bits : i <= Over => heard[i] = Sent(cpu)[i]
      BY <2>1, <2>3 DEF HeardInv
    <3> QED
      BY <1>1, <3>2, <3>3
  <2>4. clk' # 1 \/ clk = 1 => heard' = heard
    BY <1>2, <2>1
  <2>5. CASE Rests
    BY <1>4, <2>1, <2>2, <2>4, <2>5 DEF HeardInv, Rests, Over, Done
  <2>6. CASE Edges /\ state = "clk1"
    <3>1. clk = 0 /\ clk' = 1 /\ state' = "clk1" /\ Over' = Over
      BY <1>1, <2>6 DEF Edges, ClockInv, Level, Over
    <3> QED
      BY <1>1, <2>2, <2>3, <2>6, <3>1 DEF HeardInv, Done
  <2>7. CASE Edges /\ state # "clk1"
    <3>1. clk' = 0 /\ UNCHANGED state /\ Over' = Over
      BY <2>7 DEF Edges, Level, Over
    <3> QED
      BY <1>1, <2>1, <2>2, <2>4, <2>7, <3>1 DEF HeardInv, Done
  <2>8. CASE Turns /\ state = "idle"
    <3>1. clk' = 0 /\ state' = "clk1" /\ count' = Bits - 1 /\ ~Moved'
      BY <1>2, <2>1, <2>8 DEF Turns, Level, Idle, Clk1, Clk0, WaitEoc, Goto
    <3>2. Over' = 0
      BY <1>1, <3>1 DEF Over
    <3> QED
      BY <1>1, <3>1, <3>2 DEF HeardInv, Done
  <2>9. CASE Turns /\ state = "clk1"
    <3>1. clk' = 1 /\ state' = "clk0" /\ UNCHANGED count /\ ~Moved'
      BY <1>2, <2>9 DEF Turns, Level, Idle, Clk1, Clk0, WaitEoc, Goto
    <3>2. Over' = Over
      BY <3>1 DEF Over
    <3>3. \A i \in 1..Bits : i <= Over + 1 => heard'[i] = Sent(cpu)[i]
      <4>1. CASE clk = 0
        BY <2>3, <2>9, <3>1, <4>1
      <4>2. CASE clk = 1
        <5>1. Moved /\ heard' = heard
          BY <2>4, <2>9, <4>2 DEF ClockInv
        <5> QED
          BY <1>1, <2>1, <2>9, <5>1 DEF HeardInv
      <4> QED
        BY <1>1, <4>1, <4>2
    <3> QED
      BY <2>2, <3>1, <3>2, <3>3 DEF HeardInv, Done
  <2>10. CASE Turns /\ state = "clk0"
    <3>1. /\ state' = IF count = 0 THEN "wait_eoc" ELSE "clk1"
          /\ count' = (count - 1) % Bits /\ clk' = 0 /\ ~Moved'
      BY <1>2, <2>10 DEF Turns, Level, Idle, Clk1, Clk0, WaitEoc, Goto
    <3>2. (count - 1) % Bits = IF count = 0 THEN Bits - 1 ELSE count - 1
      BY <1>1, Down
    <3>3. \A i \in 1..Bits : i <= Over + 1 => heard'[i] = Sent(cpu)[i]
      BY <2>1, <2>4, <2>10, <3>1 DEF HeardInv
    <3>4. CASE count = 0
      <4>1. \A i \in 1..Bits : heard'[i] = Sent(cpu)[i]
        BY <1>1, <3>3, <3>4
      <4>2. heard' = heard
        BY <2>4, <3>1
      <4>3. heard' = Sent(cpu)
        BY <1>1, <4>1, <4>2 DEF Sent
      <4> QED
        BY <2>2, <3>1, <3>4, <4>3 DEF HeardInv
    <3>5. CASE count # 0
      <4>1. Over' = Over + 1 /\ state' = "clk1"
        BY <1>1, <3>1, <3>2, <3>5 DEF Over
      <4> QED
        BY <2>2, <3>1, <3>3, <4>1 DEF HeardInv, Done
    <3> QED
      BY <3>4, <3>5
  <2> QED
    BY <1>4, <2>1, <2>5, <2>6, <2>7, <2>8, <2>9, <2>10, Beat DEF Busy, Shifting
<1>5. CASE ~Busy
  <2>1. /\ UNCHANGED clk /\ state' \in {"idle", "wait_eoc"} /\ clk = 0
        /\ state' = "wait_eoc" => Selected /\ state = "wait_eoc"
    BY <1>5, Lull
  <2>2. ASSUME Done' PROVE heard' = Sent(cpu)'
    <3>1. Selected /\ state = "wait_eoc" /\ cpu' = cpu
      BY <2>1, <2>2, CpuStep DEF Done, Begins, Takes, Controls, Selected, Stays
    <3>2. spi_ss_n = 0
      BY <1>3, <3>1, CpuStep DEF SelectInv, Clock
    <3> QED
      BY <1>2, <2>1, <3>1, <3>2 DEF HeardInv, Sent, Done
  <2> QED
    BY <2>1, <2>2 DEF HeardInv
<1> QED
  BY <1>4, <1>5

LEMMA TypeStep ==
    ASSUME TypeOK, CpuInv, HandshakeInv, SelectInv, ClockInv, ShiftInv, CardInv, Tick
    PROVE  TypeOK'
<1>1. /\ Bits \in Nat \ {0} /\ Divide \in Nat \ {0} /\ Enable \in Nat \ {0}
      /\ -Bits \in Int
  BY SpiAssumption
<1>2. /\ Clock /\ count' \in 0..(Bits - 1) /\ pos' \in 0..(Bits - 1)
      /\ cpu' \in {"none", "read", "write", "control"} /\ left' \in 0..2
  BY CpuStep, ShiftStep, CardStep
<1>3. miso \in Token /\ mosi \in Token
  BY <1>1 DEF TypeOK, miso, mosi, Token, One
<1>4. din' \in Token
  BY <1>2, <1>3 DEF TypeOK, Clock, Idle, Clk1, Clk0, WaitEoc
<1>5. \A k : Sent(k) \in [1..Bits -> Token]
  BY <1>1 DEF Sent, Token, One
<1>6. Shifted \in [1..Bits -> Token]
  BY <1>1 DEF TypeOK, Shifted
<1>7. shift' \in [1..Bits -> Token] /\ state' \in {"idle", "clk1", "clk0", "wait_eoc"}
  <2>1. CASE Idle
    BY <1>5, <2>1 DEF TypeOK, Idle, Goto
  <2>2. CASE Clk1
    BY <2>2 DEF TypeOK, Clk1, Goto
  <2>3. CASE Clk0
    BY <1>6, <2>3 DEF TypeOK, Clk0, Goto
  <2>4. CASE WaitEoc
    BY <2>4 DEF TypeOK, WaitEoc
  <2> QED
    BY <1>2, <2>1, <2>2, <2>3, <2>4 DEF Clock
<1>8. clk' \in 0..1 /\ wait_n' \in 0..1
  BY <1>2 DEF TypeOK, Clock, Idle, Clk1, Clk0, WaitEoc, Sclk
<1>9. slow_clk' \in 0..(Divide - 1)
  <2>1. slow_clk \in 0..(Divide - 1)
    BY DEF TypeOK
  <2>2. (slow_clk - 1) % Divide = IF slow_clk = 0 THEN Divide - 1 ELSE slow_clk - 1
    BY <1>1, <2>1, Down
  <2> QED
    BY <1>1, <1>2, <2>1, <2>2 DEF Clock, Divider
<1>10. /\ spi_ss_n' \in 0..1 /\ sd_slow_clk' \in 0..1 /\ sd_spi_ss_n' \in 0..1
       /\ tick' \in 0..(Enable - 1)
  <2>1. spi_ss_n' \in 0..1
    BY <1>2 DEF TypeOK, Clock
  <2>2. sd_slow_clk' \in 0..1 /\ sd_spi_ss_n' \in 0..1
    BY CpuStep DEF TypeOK, Stays, Begins, Takes, Controls, control
  <2>3. tick' \in 0..(Enable - 1)
    BY <1>1, CpuStep DEF TypeOK
  <2> QED
    BY <2>1, <2>2, <2>3
<1>11. heard' \in [1..Bits -> Token]
  <2>1. Ones \in [1..Bits -> Token] /\ heard \in [1..Bits -> Token]
    BY <1>1 DEF Ones, Token, One, TypeOK
  <2>2. [heard EXCEPT ![pos + 1] = mosi] \in [1..Bits -> Token]
    BY <1>3, <2>1
  <2> QED
    BY <1>2, <2>1, <2>2 DEF Clock, Card
<1>12. since' \in 1..Divide
  BY <1>1, <1>2 DEF TypeOK, Clock
<1> QED
  BY <1>2, <1>4, <1>7, <1>8, <1>9, <1>10, <1>11, <1>12 DEF TypeOK

-----------------------------------------------------------------------------
(* The theorems *)

IInv == /\ TypeOK /\ CpuInv /\ HandshakeInv /\ SelectInv /\ ClockInv
        /\ ShiftInv /\ CardInv /\ HeardInv /\ SinceInv

LEMMA IInit == Init => IInv
<1> SUFFICES ASSUME Init PROVE IInv
  OBVIOUS
<1>1. TypeOK
  BY SpiAssumption DEF Init, TypeOK, Ones, One, Token
<1>2. CpuInv /\ HandshakeInv /\ SelectInv /\ ClockInv
  BY DEF Init, CpuInv, HandshakeInv, SelectInv, ClockInv, Shifting, Selected
<1>3. ShiftInv /\ CardInv /\ HeardInv /\ SinceInv
  BY DEF Init, ShiftInv, CardInv, HeardInv, SinceInv, Shifting, Done
<1> QED
  BY <1>1, <1>2, <1>3 DEF IInv

LEMMA ResetStep == IInv /\ Reset => IInv'
<1> SUFFICES ASSUME IInv, Reset PROVE IInv'
  OBVIOUS
<1>1. TypeOK'
  <2>1. tick' \in 0..(Enable - 1)
    BY SpiAssumption DEF IInv, TypeOK, Reset
  <2>2. since' \in 1..Divide
    BY SpiAssumption DEF IInv, TypeOK, Reset
  <2> QED
    BY <2>1, <2>2, SpiAssumption DEF IInv, TypeOK, Reset, Ones, One, Token
<1>2. CpuInv' /\ HandshakeInv' /\ SelectInv' /\ ClockInv'
  BY DEF Reset, CpuInv, HandshakeInv, SelectInv, ClockInv, Shifting, Selected
<1>3. ShiftInv' /\ CardInv' /\ HeardInv' /\ SinceInv'
  BY DEF Reset, ShiftInv, CardInv, HeardInv, SinceInv, Shifting, Done
<1> QED
  BY <1>1, <1>2, <1>3 DEF IInv

LEMMA IStutter == IInv /\ UNCHANGED vars => IInv'
<1> SUFFICES ASSUME IInv, UNCHANGED vars PROVE IInv'
  OBVIOUS
<1>1. /\ UNCHANGED <<state, shift, count, din, clk, wait_n, slow_clk, spi_ss_n>>
      /\ UNCHANGED <<tick, cpu, left, sd_slow_clk, sd_spi_ss_n, pos, heard, since>>
  BY DEF vars, port, request, control
<1>2. /\ Over' = Over /\ (Done' <=> Done) /\ (Selected' <=> Selected)
      /\ (Shifting' <=> Shifting) /\ (Moved' <=> Moved)
  BY <1>1 DEF Over, Done, Selected, Shifting, Moved
<1>3. \A n : In(n)' = In(n) /\ Register(n)' = Register(n)
  BY <1>1 DEF In, Register, Sent
<1>4. TypeOK'
  BY <1>1 DEF IInv, TypeOK
<1>5. CpuInv' /\ HandshakeInv' /\ SelectInv' /\ ClockInv' /\ SinceInv'
  BY <1>1, <1>2 DEF IInv, CpuInv, HandshakeInv, SelectInv, ClockInv, SinceInv
<1>6. ShiftInv'
  BY <1>1, <1>2, <1>3 DEF IInv, ShiftInv
<1>7. CardInv' /\ HeardInv'
  BY <1>1, <1>2 DEF IInv, CardInv, HeardInv, Sent
<1> QED
  BY <1>4, <1>5, <1>6, <1>7 DEF IInv

LEMMA INext == IInv /\ [Next]_vars => IInv'
<1> SUFFICES ASSUME IInv, [Next]_vars PROVE IInv'
  OBVIOUS
<1>1. CASE Tick
  BY <1>1, CpuStep, HandshakeStep, ClockStep, ShiftStep, CardStep, HeardStep, TypeStep DEF IInv
<1>2. CASE Reset
  BY <1>2, ResetStep
<1>3. CASE UNCHANGED vars
  BY <1>3, IStutter
<1> QED
  BY <1>1, <1>2, <1>3 DEF Next

LEMMA Invariance == Spec => []IInv
BY IInit, INext, PTL DEF Spec

\* Registers stay within their widths, for every byte width and divider.
THEOREM TypeCorrect == Spec => []TypeOK
BY Invariance, PTL DEF IInv

\* MOSI is still while SCLK is high and as it rises.
THEOREM MosiCorrect == Spec => MosiStable
<1>1. ASSUME IInv, [Next]_vars PROVE [clk' = 1 => mosi' = mosi]_vars
  <2>1. SUFFICES ASSUME Next, clk' = 1 PROVE shift' = shift
    BY <1>1 DEF mosi
  <2>2. CASE Tick /\ Busy
    <3>1. Idle \/ Clk1 \/ Clk0
      BY <1>1, <2>2, CpuStep DEF IInv, Clock, WaitEoc, Busy, Shifting
    <3>2. CASE Turns
      <4>1. state = "clk1"
        BY <2>1, <3>2 DEF Turns, Level
      <4> QED
        BY <3>1, <4>1 DEF Idle, Clk1, Clk0, Goto
    <3> QED
      BY <1>1, <2>2, <3>2, Beat DEF IInv, Rests, Edges
  <2>3. CASE Tick /\ ~Busy
    BY <1>1, <2>3, Lull DEF IInv
  <2>4. CASE Reset
    BY <2>1, <2>4 DEF Reset
  <2> QED
    BY <2>1, <2>2, <2>3, <2>4 DEF Next
<1> QED
  BY <1>1, Invariance, PTL DEF Spec, MosiStable

\* The card's select does not move within a byte.
THEOREM SelectCorrect == Spec => SelectStable
<1>1. ASSUME IInv, [Next]_vars
      PROVE  [state # "idle" /\ Tick => spi_ss_n' = spi_ss_n]_vars
  BY <1>1, CpuStep DEF IInv, SelectInv, Clock
<1> QED
  BY <1>1, Invariance, PTL DEF Spec, SelectStable

\* With the slow clock a phase of SCLK lasts at least Divide clocks.
THEOREM SlowCorrect == Spec => SlowEnough
<1>1. ASSUME IInv, [Next]_vars
      PROVE  [sd_slow_clk = 1 /\ clk' # clk /\ Tick => since = Divide]_vars
  <2>1. SUFFICES ASSUME sd_slow_clk = 1, clk' # clk, Tick PROVE since = Divide
    OBVIOUS
  <2>2. Busy
    BY <1>1, <2>1, Lull DEF IInv
  <2>3. Edges
    BY <1>1, <2>1, <2>2, Beat DEF IInv, Rests, Turns
  <2>4. Shifting
    BY <1>1, <2>1, <2>2, <2>3 DEF Edges, Busy, Level, IInv, ClockInv
  <2>5. since >= Divide /\ since \in 1..Divide
    BY <1>1, <2>1, <2>3, <2>4, SpiAssumption DEF Edges, IInv, SinceInv, TypeOK
  <2> QED
    BY <2>5, SpiAssumption
<1> QED
  BY <1>1, Invariance, PTL DEF Spec, SlowEnough

-----------------------------------------------------------------------------
(* The port implements ByteExchange *)

\* A byte, wherever its bits come from, is something.
LEMMA Something ==
    ASSUME Bits \in Nat \ {0}, NEW w, DOMAIN w = 1..Bits
    PROVE  w # Byte!Nothing
<1>1. 1 \in 1..Bits
  OBVIOUS
<1>2. DOMAIN Byte!Nothing = {}
  BY DEF Byte!Nothing
<1> QED
  BY <1>1, <1>2

LEMMA AllOver ==
    ASSUME Bits \in Nat \ {0}, spi_ss_n \in 0..1
    PROVE  Register(Bits) = Byte!Reply(spi_ss_n = 0)
<1>1. ASSUME NEW i \in 1..Bits
      PROVE  (IF i + Bits <= Bits THEN Sent(cpu)[i + Bits] ELSE In(i + Bits - Bits))
             = IF spi_ss_n = 0 THEN -i ELSE Byte!One
  <2>1. ~(i + Bits <= Bits) /\ i + Bits - Bits = i
    OBVIOUS
  <2> QED
    BY <2>1 DEF In, Byte!One, One
<1> QED
  BY <1>1 DEF Register, Byte!Reply

Answer == IF Done THEN shift ELSE Byte!Nothing
Heard  == IF Done /\ spi_ss_n = 0 THEN heard ELSE Byte!Nothing

\* Each IN or OUT of port >57 exchanges one byte.
THEOREM ExchangeCorrect == Spec => ExchangesBytes
<1>1. Init => Byte!Init
  BY DEF Init, Byte!Init, Done, Byte!Nothing, Byte!One, One
<1>2. ASSUME IInv, [Next]_vars PROVE [Byte!Next]_(Byte!vars)
  <2>1. Bits \in Nat \ {0} /\ spi_ss_n \in 0..1 /\ clk \in 0..1
    BY <1>2, SpiAssumption DEF IInv, TypeOK
  <2>2. ASSUME Tick, Stays, Busy PROVE [Byte!Next]_(Byte!vars)
    <3>1. /\ ~Done /\ Selected /\ Selected' /\ cpu' = cpu
          /\ sd_spi_ss_n' = sd_spi_ss_n /\ spi_ss_n = sd_spi_ss_n /\ spi_ss_n' = spi_ss_n
      BY <1>2, <2>2, Still DEF IInv, Busy, Shifting, Done, Stays
    <3>2. ShiftInv' /\ HeardInv'
      BY <1>2, <2>2, ShiftStep, HeardStep DEF IInv
    <3>3. CASE state' = "wait_eoc"
      <4>1. Done'
        BY <3>1, <3>3 DEF Done
      <4>2. shift' = Register(Bits)
        BY <3>1, <3>2, <4>1 DEF ShiftInv, Register, In, Sent
      <4>3. spi_ss_n' = 0 => heard' = Sent(cpu)
        BY <3>1, <3>2, <4>1 DEF HeardInv, Sent
      <4>4. Answer' = Byte!Reply(sd_spi_ss_n = 0)
        BY <2>1, <3>1, <4>1, <4>2, AllOver DEF Answer
      <4>5. Heard' = IF sd_spi_ss_n = 0 THEN Byte!Sent(cpu) ELSE Byte!Nothing
        BY <3>1, <4>1, <4>3 DEF Heard, Byte!Sent, Sent, One, Byte!One
      <4>6. Answer = Byte!Nothing
        BY <3>1 DEF Answer
      <4>7. Byte!Exchange
        BY <3>1, <4>4, <4>5, <4>6 DEF Answer, Heard, Byte!Nothing, Byte!One, Byte!Exchange, Selected
      <4> QED
        BY <4>7 DEF Byte!Next
    <3>4. CASE state' # "wait_eoc"
      <4>1. ~Done'
        BY <3>4 DEF Done
      <4>2. Answer' = Answer /\ Heard' = Heard
        BY <3>1, <4>1 DEF Answer, Heard, Byte!Nothing, Byte!One
      <4> QED
        BY <3>1, <4>2 DEF Answer, Heard, Byte!Nothing, Byte!One, Byte!vars
    <3> QED
      BY <3>3, <3>4
  <2>3. ASSUME Tick, Stays, ~Busy PROVE [Byte!Next]_(Byte!vars)
    <3>1. /\ cpu' = cpu /\ (Selected' <=> Selected) /\ sd_spi_ss_n' = sd_spi_ss_n
      BY <2>3 DEF Stays, Selected, control
    <3>2. UNCHANGED <<shift, clk>> /\ (Done' <=> Done)
      BY <1>2, <2>3, <3>1, Lull DEF IInv, Done
    <3>3. Done /\ spi_ss_n = 0 => heard' = heard
      BY <1>2, <2>1, <2>3, <3>2, CpuStep DEF IInv, Clock, Card
    <3>4. Done => spi_ss_n' = spi_ss_n
      BY <1>2, <2>3, CpuStep DEF IInv, SelectInv, Clock, Done
    <3>5. Answer' = Answer /\ Heard' = Heard
      BY <3>2, <3>3, <3>4 DEF Answer, Heard, Byte!Nothing, Byte!One
    <3> QED
      BY <3>1, <3>5 DEF Answer, Heard, Byte!Nothing, Byte!One, Byte!vars
  <2>4. ASSUME Tick, Begins PROVE [Byte!Next]_(Byte!vars)
    <3>1. ~Done /\ ~Busy
      BY <2>4 DEF Begins, Done, Busy, Shifting, Selected
    <3>2. ~Done'
      BY <1>2, <2>4, <3>1, Lull DEF IInv, Begins, Done, Selected
    <3>3. Answer' = Answer /\ Heard' = Heard
      BY <3>1, <3>2 DEF Answer, Heard, Byte!Nothing, Byte!One
    <3>4. Byte!Ask(cpu')
      BY <2>4, <3>3 DEF Answer, Heard, Byte!Nothing, Byte!One, Byte!Ask, Begins, control
    <3> QED
      BY <2>4, <3>4 DEF Byte!Next, Begins
  <2>5. ASSUME Tick, Takes PROVE [Byte!Next]_(Byte!vars)
    <3>1. Done /\ ~Done'
      BY <2>5 DEF Takes, Done, Selected
    <3>2. shift \in [1..Bits -> Token]
      BY <1>2 DEF IInv, TypeOK
    <3>3. Answer # Byte!Nothing
      BY <2>1, <3>1, <3>2, Something DEF Answer
    <3>4. Answer' = Byte!Nothing /\ Heard' = Byte!Nothing
      BY <3>1 DEF Answer, Heard, Byte!Nothing, Byte!One
    <3>5. Byte!Take
      BY <2>5, <3>3, <3>4 DEF Answer, Heard, Byte!Nothing, Byte!One, Byte!Take, Takes, Selected, control
    <3> QED
      BY <3>5 DEF Byte!Next
  <2>6. ASSUME Tick, Controls PROVE [Byte!Next]_(Byte!vars)
    <3>1. ~Done /\ ~Done'
      BY <2>6 DEF Controls, Done, Selected
    <3>2. Answer' = Answer /\ Heard' = Heard
      BY <3>1 DEF Answer, Heard, Byte!Nothing, Byte!One
    <3>3. Byte!Control((sd_spi_ss_n = 0)')
      BY <2>6, <3>2 DEF Answer, Heard, Byte!Nothing, Byte!One, Byte!Control, Controls
    <3> QED
      BY <3>3 DEF Byte!Next
  <2>7. CASE Reset
    <3>1. ~Done'
      BY <2>7 DEF Reset, Done, Selected
    <3>2. Answer' = Byte!Nothing /\ Heard' = Byte!Nothing
      BY <3>1 DEF Answer, Heard, Byte!Nothing, Byte!One
    <3>3. Byte!Reset
      BY <2>7, <3>2 DEF Answer, Heard, Byte!Nothing, Byte!One, Byte!Reset, Reset
    <3> QED
      BY <3>3 DEF Byte!Next
  <2>8. CASE UNCHANGED vars
    <3>1. UNCHANGED <<state, shift, spi_ss_n, cpu, sd_spi_ss_n, heard>>
      BY <2>8 DEF vars, port, request, control
    <3> QED
      BY <3>1 DEF Byte!vars, Done, Selected
  <2> QED
    BY <1>2, <2>2, <2>3, <2>4, <2>5, <2>6, <2>7, <2>8, CpuStep DEF Next, IInv
<1> QED
  BY <1>1, <1>2, Invariance, PTL DEF Spec, ExchangesBytes, Byte!Spec

\* The card sees SPI mode 0, at both clocks and while the program switches.
THEOREM TimingCorrect == Spec => SpiTiming
BY MosiCorrect, SelectCorrect, SlowCorrect DEF SpiTiming

=============================================================================
