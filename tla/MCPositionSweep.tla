--------------------------- MODULE MCPositionSweep ---------------------------
(***************************************************************************)
(* One wallet with two assets, a page holding one of them: a fetch takes   *)
(* two pages, and a full answer reaches the maximum offset.                *)
(***************************************************************************)
EXTENDS PositionSweep

CONSTANTS w1, a1, a2

TwoAssets == <<a1, a2>>
=============================================================================
