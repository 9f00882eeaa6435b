---------------------------- MODULE PilerSession ----------------------------
(***************************************************************************)
(* What the interactor promises its user, without contexts, piles or       *)
(* compilers: a session is one growing environment.  Each unit of code     *)
(* that loads gets the next number and the symbols it defines become its   *)
(* own; every other symbol keeps the definition it had, so a later unit    *)
(* sees the most recent definition of each name.  Hidden names (main and   *)
(* the compiler's own) are never handed from one unit to the next.         *)
(***************************************************************************)
EXTENDS Naturals

CONSTANTS Sym,     \* the names code may define
          Hidden   \* the names a unit keeps to itself

VARIABLES open,    \* the session still accepts code
          loaded,  \* number of units loaded so far
          env      \* the unit whose definition of a name is visible, 0 if none

sessionVars == <<open, loaded, env>>

Nothing == [s \in Sym |-> 0]

Init == open = TRUE /\ loaded = 0 /\ env = Nothing

\* A unit that defines the names D loads.
Load(D) ==
    /\ open
    /\ loaded' = loaded + 1
    /\ env' = [s \in Sym |-> CASE s \in D                   -> loaded + 1
                               [] s \in Hidden \ D          -> 0
                               [] s \notin D \cup Hidden    -> env[s]]
    /\ UNCHANGED open

\* The session ends and forgets everything.
Close ==
    /\ open
    /\ open' = FALSE
    /\ loaded' = 0
    /\ env' = Nothing

Next == Close \/ \E D \in SUBSET Sym : Load(D)

Spec == Init /\ [][Next]_sessionVars
=============================================================================
