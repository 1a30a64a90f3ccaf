----------------------------- MODULE MCSdDriver -----------------------------
(* SdDriver with a card of each kind.                                       *)
EXTENDS SdDriver

AllKinds == {"HC", "SC", "SD1", "MMC"}
=============================================================================
