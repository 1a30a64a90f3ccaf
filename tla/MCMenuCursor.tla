---------------------------- MODULE MCMenuCursor ----------------------------
(* Lists for MenuCursor.  A 4-bit counter and 4 rows keep the proportions   *)
(* of 8 bits and 24 rows: SafeSizes are those whose last page plus a        *)
(* screen still fits the counter.                                           *)
EXTENDS MenuCursor

SafeSizes == 1..(Width - Rows + 1)
AllSizes == 1..(Width - 1)
Longest == {Width - 1}
=============================================================================
