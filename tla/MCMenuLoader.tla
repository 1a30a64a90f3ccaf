---------------------------- MODULE MCMenuLoader ----------------------------
(* Files of the sizes about which the loader decides, up to 4.5MB.          *)
EXTENDS MenuLoader

Sizes == 0..9 \cup 15..17 \cup 28..36 \cup {255, 256, 257, 258, 288}
=============================================================================
