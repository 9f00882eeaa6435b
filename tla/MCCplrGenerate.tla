--------------------------- MODULE MCCplrGenerate ---------------------------
(***************************************************************************)
(* A small instance of CplrGenerate for TLC: fragments of one line and of  *)
(* two.                                                                    *)
(***************************************************************************)
EXTENDS CplrGenerate

MCText   == {"f", "two lines"}
MCHeight == [t \in MCText |-> IF t = "f" THEN 1 ELSE 2]
=============================================================================
