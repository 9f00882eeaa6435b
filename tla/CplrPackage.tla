----------------------------- MODULE CplrPackage -----------------------------
(***************************************************************************)
(* Preparing one package (cplr_pkgconfig_prepare): pkg-config is asked     *)
(* whether it knows the package and for its options (cpkg.c), the answer   *)
(* is read into a buffer of fixed size, and a cursor takes the options     *)
(* from it (cplr_pkgconfig_add).                                           *)
(*                                                                         *)
(* A string is a sequence of symbols: a character, or the word pthread,    *)
(* which the parser compares as a whole.                                   *)
(***************************************************************************)
EXTENDS Naturals, Sequences

CONSTANTS
    Letter,    \* letters of the options that take an argument: D, I, L, l
    Plain,     \* other printable characters
    Strange,   \* characters that are neither printable nor blank
    Size,      \* the size of the buffer
    Outputs,   \* what pkg-config may print
    NULL

Blank == {" ", "newline"}
Graph == Letter \cup Plain \cup {"-", "pthread"}
Char  == Graph \cup Blank \cup Strange

ASSUME PackageAssumption ==
    /\ Size \in Nat \ {0}
    /\ Outputs \subseteq Seq(Char)
    /\ NULL \notin Char
    /\ Graph \cap Blank = {} /\ Strange \cap (Graph \cup Blank) = {}
    /\ "-" \notin Letter \cup Plain /\ "pthread" \notin Letter \cup Plain
    /\ Letter \cap Plain = {}

VARIABLES
    pc,      \* exists, read, parse, done
    ret,     \* the result, or NULL
    text,    \* what pkg-config prints about this package; it never changes
    answer,  \* args: the string that is parsed
    o,       \* the cursor; Len(answer) + 1 stands for the terminating 0
    dash,    \* the cursor is behind a dash
    opt,     \* the letter whose argument begins at the cursor, or NULL
    piles    \* the strings taken, by letter: defs, incdirs, libdirs, libs

vars == <<pc, ret, text, answer, o, dash, opt, piles>>
cursor == <<o, dash, opt>>

TypeOK ==
    /\ pc \in {"exists", "read", "parse", "done"}
    /\ ret \in {0, 1, NULL}
    /\ text \in Seq(Char) /\ answer \in Seq(Char)
    /\ o \in Nat
    /\ dash \in BOOLEAN
    /\ opt \in Letter \cup {NULL}
    /\ piles \in [Letter -> Seq(Seq(Char))]

Init ==
    /\ pc = "exists" /\ ret = NULL
    /\ text \in Outputs /\ answer = <<>>
    /\ o = 1 /\ dash = FALSE /\ opt = NULL
    /\ piles = [x \in Letter |-> <<>>]

Return(r) == pc' = "done" /\ ret' = r

-----------------------------------------------------------------------------
(* Asking pkg-config                                                       *)

\* cpkg_exists: the shell or pkg-config fail, or the package is there.
Exists ==
    /\ pc = "exists"
    /\ \/ Return(1)
       \/ pc' = "read" /\ UNCHANGED ret
    /\ UNCHANGED <<text, answer, cursor, piles>>

\* What does not fit is left in the pipe.
Slip_Fits(t) == Len(t) >= 0

\* fread fills the buffer at most, and there must be room for the final 0.
Fits(t) == Len(t) < Size

Delivered(t) == IF Len(t) < Size THEN t ELSE SubSeq(t, 1, Size)

Chomp(t) == IF t # <<>> /\ t[Len(t)] = "newline" THEN SubSeq(t, 1, Len(t) - 1) ELSE t

\* cpkg_retrieve: no pipe, or an answer too long, or an answer.  The exit status of
\* pkg-config is not looked at.
Retrieve ==
    /\ pc = "read"
    /\ \/ Return(1) /\ UNCHANGED answer
       \/ /\ Fits(text)
          /\ answer' = Chomp(Delivered(text))
          /\ pc' = "parse" /\ UNCHANGED ret
    /\ UNCHANGED <<text, cursor, piles>>

-----------------------------------------------------------------------------
(* Taking the options                                                      *)

End == Len(answer) + 1
At(ch) == o < End /\ answer[o] \in ch

\* Where the printable characters from a position end.
Stop(k) ==
    CHOOSE e \in k..End : /\ e < End => answer[e] \notin Graph
                          /\ \A j \in k..(e - 1) : answer[j] \in Graph

\* The last character is stepped over, too, when it is the terminating 0.
Slip_StepFrom(e) == o' = e + 1 /\ UNCHANGED <<pc, ret>>

\* while(*o++): behind the next character, or out of the loop at the end.
StepFrom(e) ==
    IF e < End THEN o' = e + 1 /\ UNCHANGED <<pc, ret>>
    ELSE o' = e /\ Return(0)

ParseEnd ==
    /\ pc = "parse" /\ o = End
    /\ Return(0)
    /\ UNCHANGED <<text, answer, cursor, piles>>

\* The letter is not forgotten.
Slip_Argument ==
    /\ pc = "parse" /\ o < End /\ opt # NULL
    /\ piles' = [piles EXCEPT ![opt] = Append(@, SubSeq(answer, o, Stop(o) - 1))]
    /\ StepFrom(Stop(o))
    /\ UNCHANGED <<text, answer, dash, opt>>

\* Behind a letter: everything up to the next character that is not printable.
Argument ==
    /\ pc = "parse" /\ o < End /\ opt # NULL
    /\ piles' = [piles EXCEPT ![opt] = Append(@, SubSeq(answer, o, Stop(o) - 1))]
    /\ StepFrom(Stop(o))
    /\ opt' = NULL
    /\ UNCHANGED <<text, answer, dash>>

BehindDash == pc = "parse" /\ opt = NULL /\ dash

\* Every character is taken for an option with an argument.
Slip_OptionLetter ==
    /\ BehindDash /\ At(Letter \cup Plain)
    /\ opt' = answer[o]
    /\ dash' = FALSE
    /\ StepFrom(o)
    /\ UNCHANGED <<text, answer, piles>>

OptionLetter ==
    /\ BehindDash /\ At(Letter)
    /\ opt' = answer[o]
    /\ dash' = FALSE
    /\ StepFrom(o)
    /\ UNCHANGED <<text, answer, piles>>

\* -pthread is for the compiler alone.
OptionThread ==
    /\ BehindDash /\ At({"pthread"})
    /\ dash' = FALSE
    /\ StepFrom(o)
    /\ UNCHANGED <<text, answer, opt, piles>>

\* Only the letter of the option is skipped.
Slip_OptionUnknown ==
    /\ BehindDash /\ At(Char \ (Letter \cup {"pthread"}))
    /\ dash' = FALSE
    /\ StepFrom(o)
    /\ UNCHANGED <<text, answer, opt, piles>>

\* An option nobody knows is skipped with a warning.
OptionUnknown ==
    /\ BehindDash /\ At(Char \ (Letter \cup {"pthread"}))
    /\ dash' = FALSE
    /\ StepFrom(Stop(o))
    /\ UNCHANGED <<text, answer, opt, piles>>

Between == pc = "parse" /\ opt = NULL /\ ~dash

Dash ==
    /\ Between /\ At({"-"})
    /\ dash' = TRUE
    /\ StepFrom(o)
    /\ UNCHANGED <<text, answer, opt, piles>>

\* The cursor stays on the blank.
Slip_Space ==
    /\ Between /\ At(Blank)
    /\ UNCHANGED vars

Space ==
    /\ Between /\ At(Blank)
    /\ StepFrom(o)
    /\ UNCHANGED <<text, answer, dash, opt, piles>>

Invalid ==
    /\ Between /\ At(Char \ (Blank \cup {"-"}))
    /\ Return(1)
    /\ UNCHANGED <<text, answer, cursor, piles>>

-----------------------------------------------------------------------------
Ask   == Exists \/ Retrieve
Parse == ParseEnd \/ Argument \/ OptionLetter \/ OptionThread \/ OptionUnknown
             \/ Dash \/ Space \/ Invalid
Stay  == pc = "done" /\ UNCHANGED vars

Next == Ask \/ Parse \/ Stay

Spec == Init /\ [][Next]_vars

\* pkg-config and the pipe answer or fail, and the loop does not wait.
FairSpec == Spec /\ WF_vars(Ask) /\ WF_vars(Parse)
-----------------------------------------------------------------------------
(* The answer by words                                                     *)

Word(a, b) ==
    /\ \A j \in a..b : answer[j] \notin Blank
    /\ a = 1 \/ answer[a - 1] \in Blank
    /\ b = Len(answer) \/ answer[b + 1] \in Blank

Words == { ab \in (1..Len(answer)) \X (1..Len(answer)) : ab[1] <= ab[2] /\ Word(ab[1], ab[2]) }

\* Only options, the ones that need an argument have it in the same word, and
\* -pthread is a word.
WellFormed ==
    \A ab \in Words :
        /\ answer[ab[1]] = "-" /\ ab[2] > ab[1]
        /\ \A j \in ab[1]..ab[2] : answer[j] \in Graph
        /\ answer[ab[1] + 1] \in Letter => ab[2] > ab[1] + 1
        /\ answer[ab[1] + 1] = "pthread" => ab[2] = ab[1] + 1

WordsOf(x) == { ab \in Words : answer[ab[1] + 1] = x }

\* f lists the words of an option up to a position in their order, and q is the list
\* of their arguments.
Lists(f, q, x, e) ==
    /\ \A k, m \in DOMAIN f : k < m => f[k][1] < f[m][1]
    /\ \A ab \in WordsOf(x) : ab[2] < e <=> \E k \in DOMAIN f : f[k] = ab
    /\ \A k \in DOMAIN f : q[k] = SubSeq(answer, f[k][1] + 2, f[k][2])

ArgumentsBefore(x, e) ==
    \E f \in [1..Len(piles[x]) -> WordsOf(x)] : Lists(f, piles[x], x, e)

-----------------------------------------------------------------------------
(* Properties                                                              *)

\* An answer that is parsed is complete: no option is cut in the middle at the end
\* of the buffer (cpkg.c).
WholeAnswer == pc = "parse" => answer = Chomp(text)

\* The cursor never leaves the string, however its options are nested or cut off.
CursorInside == o <= End

\* Whatever pkg-config prints, a string that becomes a define, a directory or a
\* library stands in the answer right behind its letter and a dash, and is all that is
\* printable there: it ends where the answer does or at a character that is not.
TakenAsGiven ==
    \A x \in Letter : \A k \in 1..Len(piles[x]) :
        \E a \in 3..End, b \in 0..Len(answer) :
            /\ answer[a - 1] = x /\ answer[a - 2] = "-"
            /\ a <= b + 1 /\ piles[x][k] = SubSeq(answer, a, b)
            /\ \A j \in a..b : answer[j] \in Graph
            /\ b < Len(answer) => answer[b + 1] \notin Graph

\* From an answer that is well formed every option is taken, once and in order.
OptionsTaken ==
    pc = "done" /\ o > 1 /\ WellFormed =>
        ret = 0 /\ \A x \in Letter : ArgumentsBefore(x, End)

\* Every turn of the loop takes the cursor further along the same answer, or is the
\* last: there are no more turns than characters.
CursorAdvances == [][Parse => answer' = answer /\ (o < o' \/ pc' = "done")]_vars

\* The preparation of a package always comes to an end.
PackageEnds == <>(pc = "done")
=============================================================================
