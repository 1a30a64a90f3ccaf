---------------------------- MODULE MCRomLoader ----------------------------
(* RomLoader with a card of each kind and two frames of debouncing.  The    *)
(* cartridge and the stick share nothing with the card but the pass of the  *)
(* loop they are looked at in: they are at rest while there is one.        *)
EXTENDS RomLoader

AllKinds == {"HC", "SC", "SD1", "MMC"}

AtRest == ~cart /\ cart_delay = 0 /\ joy = "none" /\ joy_delay = 0 /\ cursor = 1
Apart == Working \/ card # "absent" => AtRest

MCSpec == Init /\ [][Next /\ Apart']_vars /\ WF_vars(Program) /\ WF_vars(Frame)
=============================================================================
