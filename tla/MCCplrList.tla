----------------------------- MODULE MCCplrList -----------------------------
(***************************************************************************)
(* Small instances of CplrList for TLC.  Addresses are interchangeable.    *)
(***************************************************************************)
EXTENDS CplrList, TLC

MCStable    == {"defs"}
MCVolatile  == {"stms"}
MCUnmanaged == {"optf"}

\* Nodes differ only by their address, and so do strings.
Addresses == Permutations(Node) \cup Permutations(Str)
=============================================================================
