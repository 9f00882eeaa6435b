--------------------------- MODULE MCCplrPackage ---------------------------
(***************************************************************************)
(* A small instance of CplrPackage for TLC, with two options that take an  *)
(* argument.  pkg-config may print any sequence of a few tokens: options   *)
(* with and without argument, blanks, and characters out of place.         *)
(***************************************************************************)
EXTENDS CplrPackage, SequencesExt

CONSTANT MaxTokens

Token == { <<"-", "I">>, <<"-", "l", "x">>, <<"-", "pthread">>, <<"-", "x">>,
           <<" ">>, <<"I">>, <<"e">> }

MCOutputs ==
    { FlattenSeq(s) \o end : s \in BoundedSeq(Token, MaxTokens), end \in {<<>>, <<"newline">>} }
=============================================================================
