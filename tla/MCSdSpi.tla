------------------------------ MODULE MCSdSpi ------------------------------
(* SdSpi with the numbers of the board: no bounds are needed.              *)
EXTENDS SdSpi
=============================================================================
