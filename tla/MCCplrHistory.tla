--------------------------- MODULE MCCplrHistory ---------------------------
(***************************************************************************)
(* A small instance of CplrHistory for TLC.                                *)
(***************************************************************************)
EXTENDS CplrHistory, TLC
=============================================================================
