---------------------------- MODULE CplrHistory ----------------------------
(***************************************************************************)
(* The history file, which all sessions of a user share.  A session that   *)
(* finds a terminal and no statement reads the file before it runs         *)
(* anything (cplr_main.c); every interactive session, also one that was    *)
(* asked for with -y, writes its lines over the file at its end.  Nothing  *)
(* locks the file in between.  The program of the user runs in the process *)
(* of its session and may end it, and then nothing is written.             *)
(*                                                                         *)
(* A line is a session and a number, as every line typed is a line of its  *)
(* own.  Batch calls touch no history and are left out.                    *)
(***************************************************************************)
EXTENDS Naturals, Sequences, SequencesExt

CONSTANTS
    Session,   \* the interactive sessions of a user
    MaxLines   \* bound: lines typed in a session

ASSUME HistoryAssumption == MaxLines \in Nat

Line == Session \X (1..MaxLines)

VARIABLES
    pc,       \* new, open, lost (the process was ended), closed
    forced,   \* the session was asked for with -y and has not read the file
    list,     \* the history list of the process (readline)
    typed,    \* how many lines were typed
    file,     \* the history file
    since     \* history variable: lines other sessions have saved since this one began

vars == <<pc, forced, list, typed, file, since>>

TypeOK ==
    /\ pc \in [Session -> {"new", "open", "lost", "closed"}]
    /\ forced \in [Session -> BOOLEAN]
    /\ list \in [Session -> Seq(Line)]
    /\ typed \in [Session -> 0..MaxLines]
    /\ file \in Seq(Line)
    /\ since \in [Session -> SUBSET Line]

Init ==
    /\ pc = [s \in Session |-> "new"]
    /\ forced = [s \in Session |-> FALSE]
    /\ list = [s \in Session |-> <<>>]
    /\ typed = [s \in Session |-> 0]
    /\ file = <<>>
    /\ since = [s \in Session |-> {}]

-----------------------------------------------------------------------------
\* The terminal alone makes the session interactive, but nothing is read.
Slip_BeginAuto(s) ==
    /\ pc[s] = "new"
    /\ pc' = [pc EXCEPT ![s] = "open"]
    /\ UNCHANGED <<forced, list, typed, file, since>>

\* On a terminal and without a statement the history is read.
BeginAuto(s) ==
    /\ pc[s] = "new"
    /\ pc' = [pc EXCEPT ![s] = "open"]
    /\ list' = [list EXCEPT ![s] = file]
    /\ UNCHANGED <<forced, typed, file, since>>

\* With -y on a command line that has a statement, or without a terminal, it is not.
BeginForced(s) ==
    /\ pc[s] = "new"
    /\ pc' = [pc EXCEPT ![s] = "open"]
    /\ forced' = [forced EXCEPT ![s] = TRUE]
    /\ UNCHANGED <<list, typed, file, since>>

\* The number is taken before it is counted up.
Slip_Type(s) ==
    /\ pc[s] = "open" /\ typed[s] < MaxLines
    /\ typed' = [typed EXCEPT ![s] = @ + 1]
    /\ list' = [list EXCEPT ![s] = Append(@, <<s, typed[s]>>)]
    /\ UNCHANGED <<pc, forced, file, since>>

\* cplr_interact: every line that is not empty, before it is obeyed.
Type(s) ==
    /\ pc[s] = "open" /\ typed[s] < MaxLines
    /\ typed' = [typed EXCEPT ![s] = @ + 1]
    /\ list' = [list EXCEPT ![s] = Append(@, <<s, typed[s] + 1>>)]
    /\ UNCHANGED <<pc, forced, file, since>>

\* An exit handler writes the history after its list was cleared.
Slip_Exit(s) ==
    /\ pc[s] = "open"
    /\ pc' = [pc EXCEPT ![s] = "lost"]
    /\ file' = <<>>
    /\ UNCHANGED <<forced, list, typed, since>>

\* The line runs a program that exits or faults, or a dump nobody takes.
Exit(s) ==
    /\ pc[s] = "open"
    /\ pc' = [pc EXCEPT ![s] = "lost"]
    /\ UNCHANGED <<forced, list, typed, file, since>>

\* The file is appended to.
Slip_Saved(s) == file \o list[s]

\* Only the lines of the session are written.
Slip_OwnLines(s) == SelectSeq(list[s], LAMBDA l : l[1] = s)

\* write_history: the list takes the place of the file.
Saved(s) == list[s]

\* main at done: quit, the end of the input, or an error on the way there.
End(s) ==
    /\ pc[s] = "open"
    /\ pc' = [pc EXCEPT ![s] = "closed"]
    /\ file' = Saved(s)
    /\ since' = [r \in Session |-> IF pc[r] = "open" /\ r # s
                                   THEN since[r] \cup Range(Saved(s)) ELSE since[r]]
    /\ UNCHANGED <<forced, list, typed>>

Done ==
    /\ \A s \in Session : pc[s] \in {"lost", "closed"}
    /\ UNCHANGED vars

Next == \/ \E s \in Session : BeginAuto(s) \/ BeginForced(s) \/ Type(s) \/ Exit(s) \/ End(s)
        \/ Done

Spec == Init /\ [][Next]_vars
-----------------------------------------------------------------------------
(* Properties                                                              *)

\* No line comes twice, although every session writes back what it has read, and the
\* lines of a session stay in the order they were typed.
LinesInOrder ==
    \A j, k \in 1..Len(file) :
        j < k => file[j] # file[k] /\ (file[j][1] = file[k][1] => file[j][2] < file[k][2])

\* A line only leaves the file when a session ends that has not read it: the session
\* was forced, or another has saved the line after it began.  Above all, a session
\* that is ended by its program takes nothing from the others.
LossExplained ==
    [][\A l \in Range(file) \ Range(file') :
          \E s \in Session : /\ pc[s] = "open" /\ pc'[s] = "closed"
                             /\ forced[s] \/ l \in since[s]]_vars

\* As long as no session is forced, none is ended by its program and none saves
\* lines while another is open, all that was ever typed in a closed session is kept.
Orderly == \A s \in Session : ~forced[s] /\ pc[s] # "lost" /\ since[s] = {}

SerialKeepsAll ==
    Orderly => \A s \in Session : pc[s] = "closed" =>
                   \A n \in 1..typed[s] : <<s, n>> \in Range(file)
=============================================================================
