---------------------------- MODULE MCPhoenixBus ----------------------------
(* Small programs for PhoenixBus.  Each keeps to one half of the memory     *)
(* map, its ports, its bytes and the RAM cells that it can reach.           *)
EXTENDS PhoenixBus

VARIABLE half   \* the half this program keeps to

A(r, b, o) == [region |-> r, block |-> b, offset |-> o]
C(p, b, o) == [page |-> p, block |-> b, offset |-> o]

\* The lower 32K and the hand-over from the loader; the upper 32K, with the
\* bank registers and the last page of 16K.
Halves == {"lower", "upper"}
Addrs == [lower |-> {A(0, 0, 0), A(1, 0, 0), A(3, 0, 0), A(3, 1, 0), A(4, 0, 0)},
          upper |-> {A(4, 0, 0), A(6, 0, 0)} \cup {A(7, 7, o) : o \in {960, 963, 991}}]
Ports == [lower |-> {83, 84, 85, 127}, upper |-> {84, 85, 89}]
Bytes == [lower |-> {0, 3}, upper |-> {0, 1, 3, 17, 33}]
Cells == [lower |-> {C(1, 0, 0), C(3, 0, 0)}, upper |-> {C(0, 0, 0), C(62, 0, 0)}]
MCCv  == {0}

All(f) == f["lower"] \cup f["upper"]
MCAddr == All(Addrs)
MCPort == All(Ports)
MCByte == All(Bytes)
MCExt  == All(Cells)

Keeps(req) == \/ req = Idle
              \/ /\ req.data \in Bytes[half]
                 /\ IF req.kind \in {"IoRead", "IoWrite"} THEN req.port \in Ports[half]
                    ELSE req.addr \in Addrs[half]

\* The other half's cells hold 0, and 1K RAM is watched from below.
MCInit == /\ half \in Halves /\ Init
          /\ \A c \in MCExt : ext[c] \in IF c \in Cells[half] THEN Bytes[half] ELSE {0}
          /\ \A c \in MCCv : cv[c] \in IF half = "lower" THEN Bytes[half] ELSE {0}
MCSpec == MCInit /\ [][Next /\ UNCHANGED half /\ Keeps(bus')]_<<vars, half>>
=============================================================================
