---------------------------- MODULE CplrGenerate ----------------------------
(***************************************************************************)
(* cplr_generate.c: the piles of a context become one compilation unit,    *)
(* emitted piece by piece.  The emitter decides from what it emitted last  *)
(* whether a piece needs a #line directive, so that the compiler reports   *)
(* every error at the label of its fragment: statements_2:1.  The same     *)
(* pieces go to a dump, which a filter program shows.                      *)
(*                                                                         *)
(* A session generates again and again: for a run, for the dump command,   *)
(* after more pushes, and in new contexts.                                 *)
(***************************************************************************)
EXTENDS Naturals, Sequences

CONSTANTS
    Text,       \* fragments a pile can hold
    Height,     \* the number of lines of a fragment
    MaxItems    \* bound: fragments of a context

ASSUME GenerateAssumption ==
    /\ Height \in [Text -> Nat \ {0}]
    /\ MaxItems \in Nat

\* Functions come before the declarations they may use.
Slip_Section ==
    << [name |-> "defsysinclude", pile |-> "defsys"],
       [name |-> "sysinclude",    pile |-> "syss"],
       [name |-> "include",       pile |-> "incs"],
       [name |-> "toplevel",      pile |-> "tlfs"],
       [name |-> "declarations",  pile |-> "tlds"],
       [name |-> "definition",    pile |-> "tlds"],
       [name |-> "main",          pile |-> "none"],
       [name |-> "before",        pile |-> "befs"],
       [name |-> "statements",    pile |-> "stms"],
       [name |-> "after",         pile |-> "afts"],
       [name |-> "done",          pile |-> "none"] >>

\* The sections of the unit, and the pile each one prints; main stands between.
Section ==
    << [name |-> "defsysinclude", pile |-> "defsys"],
       [name |-> "sysinclude",    pile |-> "syss"],
       [name |-> "include",       pile |-> "incs"],
       [name |-> "declarations",  pile |-> "tlds"],
       [name |-> "definition",    pile |-> "tlds"],
       [name |-> "toplevel",      pile |-> "tlfs"],
       [name |-> "main",          pile |-> "none"],
       [name |-> "before",        pile |-> "befs"],
       [name |-> "statements",    pile |-> "stms"],
       [name |-> "after",         pile |-> "afts"],
       [name |-> "done",          pile |-> "none"] >>

Main == 7
Done == 11
Pile == {"defsys", "syss", "incs", "tlds", "tlfs", "befs", "stms", "afts"}
Volatile == {"tlfs", "befs", "stms", "afts"}

\* What #line names: a section and a number, or the program itself.
Internal == <<"internal", 0>>
NoFile   == <<>>

VARIABLES
    pc,     \* idle, emit (cplr_generate_code), show (cplr_generate_dump), dead
    piles,  \* the piles of the last context
    dump,   \* the dump level
    saved,  \* the dump level the dump command restores
    sect,   \* the section being printed
    i,      \* how many of its items are printed
    g,      \* the g_ fields: state, prevfile, prevline, code and dump buffer;
            \* and, as history, where the compiler sees the next piece, and
            \* where it saw each one
    shown   \* how much of the dump the filter has been given

vars == <<pc, piles, dump, saved, sect, i, g, shown>>

\* What a unit is made of.
Title == {Section[k].name : k \in 1..Done}
Own   == {"int main(int argc, char **argv) {", "int ret = 0;", "return ret;", "}"}
File  == (Title \cup {"internal"}) \X Nat
Piece == [kind : {"comment"}, body : Title, lines : {1}]
         \cup [kind : {"text"}, body : Text \cup Own, lines : Nat \ {0}]
         \cup [kind : {"line"}, file : File, line : Nat \ {0}]

Emitter == [state : {"INITIAL", "INTERNAL", "PREPROC", "STATEMENT"},
            file : File \cup {NoFile}, line : Nat,
            code : Seq(Piece), dump : Seq(Piece),
            at : (File \cup {NoFile}) \X Nat,
            marks : SUBSET [own : File \X Nat, at : (File \cup {NoFile}) \X Nat]]

TypeOK ==
    /\ pc \in {"idle", "emit", "show", "dead"}
    /\ piles \in [Pile -> Seq(Text)]
    /\ dump \in 0..2 /\ saved \in 0..2
    /\ sect \in 1..Done
    /\ i \in Nat
    /\ g \in Emitter
    /\ shown \in 0..Len(g.dump)

Fresh == [state |-> "INITIAL", file |-> NoFile, line |-> 0, code |-> <<>>, dump |-> <<>>,
          at |-> <<NoFile, 1>>, marks |-> {}]

Init ==
    /\ pc = "idle"
    /\ piles = [p \in Pile |-> <<>>]
    /\ dump \in 0..2 /\ saved = dump
    /\ sect = 1 /\ i = 0
    /\ g = Fresh
    /\ shown = 0

-----------------------------------------------------------------------------
(* Emitting one piece                                                      *)

Comment(t)      == [kind |-> "comment", body |-> t, lines |-> 1]
Fragment(t, n)  == [kind |-> "text", body |-> t, lines |-> n]
Directive(f, n) == [kind |-> "line", file |-> f, line |-> n]

\* The file is not compared.
Slip_NeedLineFile(e, nstate, file, line) ==
    /\ nstate # "COMMENT"
    /\ \/ e.state # nstate
       \/ nstate # "PREPROC" /\ e.line # 0 /\ line # e.line + 1

\* cplr_emit: comments need no directive, other pieces unless they go on in the
\* state and the file of the piece before, on the next line.
NeedLine(e, nstate, file, line) ==
    /\ nstate # "COMMENT"
    /\ \/ e.state # nstate
       \/ e.file # file
       \/ nstate # "PREPROC" /\ e.line # 0 /\ line # e.line + 1

\* The directive goes into every dump.
Slip_DumpLines(need, directive, piece) ==
    IF dump = 0 THEN <<>> ELSE IF need THEN <<directive, piece>> ELSE <<piece>>

\* The dump shows directives from level 2.
Dumped(need, directive, piece) ==
    IF dump = 0 THEN <<>>
    ELSE IF need /\ dump > 1 THEN <<directive, piece>> ELSE <<piece>>

Emit(e, nstate, file, line, piece) ==
    LET need == NeedLine(e, nstate, file, line)
        here == Directive(file, line)
        at   == IF need THEN <<file, line>> ELSE e.at
        own  == nstate # "COMMENT"
    IN  [state |-> IF own THEN nstate ELSE e.state,
         file  |-> IF own THEN file ELSE e.file,
         line  |-> IF own THEN line ELSE e.line,
         code  |-> e.code \o IF need THEN <<here, piece>> ELSE <<piece>>,
         dump  |-> e.dump \o Dumped(need, here, piece),
         at    |-> <<at[1], at[2] + piece.lines>>,
         marks |-> IF own THEN e.marks \cup {[own |-> <<file, line>>, at |-> at]}
                          ELSE e.marks]

EmitComment(e, t)           == Emit(e, "COMMENT", NoFile, 1, Comment(t))
EmitInternal(e, line, t)    == Emit(e, "INTERNAL", Internal, line, Fragment(t, 1))
EmitItem(e, state, file, t) == Emit(e, state, file, 1, Fragment(t, Height[t]))

-----------------------------------------------------------------------------
(* A session                                                               *)

Items == Len(piles["defsys"]) + Len(piles["syss"]) + Len(piles["incs"]) + Len(piles["tlds"])
         + Len(piles["tlfs"]) + Len(piles["befs"]) + Len(piles["stms"]) + Len(piles["afts"])

Push ==
    /\ pc = "idle" /\ Items < MaxItems
    /\ \E p \in Pile, t \in Text : piles' = [piles EXCEPT ![p] = Append(@, t)]
    /\ UNCHANGED <<pc, dump, saved, sect, i, g, shown>>

\* cplr_chain: a fresh generator, and no volatile items.
Chain ==
    /\ pc = "idle"
    /\ piles' = [p \in Pile |-> IF p \in Volatile THEN <<>> ELSE piles[p]]
    /\ g' = Fresh
    /\ shown' = 0
    /\ UNCHANGED <<pc, dump, saved, sect, i>>

\* The old code stays in the buffer.
Slip_OpenKeeps == [g EXCEPT !.dump = <<>>, !.at = <<NoFile, 1>>, !.marks = {}]

\* Free the old buffers and open empty ones; the compiler will begin at their start.
Opened == [g EXCEPT !.code = <<>>, !.dump = <<>>, !.at = <<NoFile, 1>>, !.marks = {}]

Generate ==
    /\ pc' = "emit"
    /\ sect' = 1 /\ i' = 0
    /\ g' = Opened
    /\ shown' = 0
    /\ UNCHANGED piles

\* cplr_run.
Run == pc = "idle" /\ saved' = dump /\ Generate /\ UNCHANGED dump

\* cmd_dump.
CmdDump == pc = "idle" /\ saved' = dump /\ dump' = 1 /\ Generate

-----------------------------------------------------------------------------
(* Generating                                                              *)

NextSection == sect' = sect + 1 /\ i' = 0

Printing == pc = "emit" /\ sect \notin {Main, Done}
Content  == piles[Section[sect].pile]

\* The loop does not go past an empty section.
Slip_StayEmpty ==
    /\ Printing /\ Content = <<>>
    /\ UNCHANGED vars

\* A section whose pile is empty is left out.
SkipSection ==
    /\ Printing /\ Content = <<>>
    /\ NextSection
    /\ UNCHANGED <<pc, piles, dump, saved, g, shown>>

\* The loop looks for the end one item too late.
Slip_NextItem == IF i = Len(Content) THEN NextSection ELSE i' = i + 1 /\ UNCHANGED sect

NextItem == IF i + 1 = Len(Content) THEN NextSection ELSE i' = i + 1 /\ UNCHANGED sect

\* cplr_generate_section: the name of the section, then item by item.  What runs
\* after the statements comes in reverse order, numbered down to 1.
PrintItem ==
    /\ Printing /\ i < Len(Content)
    /\ LET name == Section[sect].name
           e    == IF i = 0 THEN EmitComment(g, name) ELSE g
           back == Len(Content) - i
       IN  g' = IF name = "after"
                THEN EmitItem(e, "STATEMENT", <<name, back>>, Content[back])
                ELSE EmitItem(e, "PREPROC", <<name, i>>, Content[i + 1])
    /\ NextItem
    /\ UNCHANGED <<pc, piles, dump, saved, shown>>

OpenMain ==
    /\ pc = "emit" /\ sect = Main
    /\ LET a == EmitComment(g, "main")
           b == EmitInternal(a, 186, "int main(int argc, char **argv) {")
       IN  g' = EmitInternal(b, 187, "int ret = 0;")
    /\ NextSection
    /\ UNCHANGED <<pc, piles, dump, saved, shown>>

\* There is one section more.
Slip_CloseMain ==
    /\ pc = "emit" /\ sect = Done
    /\ NextSection
    /\ UNCHANGED <<pc, piles, dump, saved, g, shown>>

CloseMain ==
    /\ pc = "emit" /\ sect = Done
    /\ LET a == EmitComment(g, "done")
           b == EmitInternal(a, 201, "return ret;")
       IN  g' = EmitInternal(b, 202, "}")
    /\ pc' = "show"
    /\ UNCHANGED <<piles, dump, saved, sect, i, shown>>

\* cplr_generate_dump: chunk by chunk to the filter; the process ends when the
\* filter does not take one.
ShowDump ==
    /\ pc = "show" /\ dump > 0 /\ shown < Len(g.dump)
    /\ \/ shown' = shown + 1 /\ UNCHANGED pc
       \/ pc' = "dead" /\ UNCHANGED shown
    /\ UNCHANGED <<piles, dump, saved, sect, i, g>>

\* cplr_generate_finish, and the dump command restores the level.
Finish ==
    /\ pc = "show" /\ (dump = 0 \/ shown = Len(g.dump))
    /\ pc' = "idle"
    /\ dump' = saved
    /\ g' = [g EXCEPT !.file = NoFile]
    /\ UNCHANGED <<piles, saved, sect, i, shown>>

Dead == pc = "dead" /\ UNCHANGED vars

-----------------------------------------------------------------------------
Use   == Push \/ Chain \/ Run \/ CmdDump
Steps == SkipSection \/ PrintItem \/ OpenMain \/ CloseMain \/ ShowDump \/ Finish

Next == Use \/ Steps \/ Dead

Spec == Init /\ [][Next]_vars

\* cplr_generate is called by one thread and does not wait for its user.
FairSpec == Spec /\ WF_vars(Steps)
-----------------------------------------------------------------------------
(* The unit the documentation describes                                    *)

\* The k-th fragment of a section and its label; what runs after the statements
\* comes in reverse.
Part(s, k) ==
    LET c    == piles[s.pile]
        back == Len(c) + 1 - k
    IN  IF s.name = "after" THEN [label |-> <<s.name, back>>, text |-> c[back]]
        ELSE [label |-> <<s.name, k - 1>>, text |-> c[k]]

Placed(s, k) == Directive(Part(s, k).label, 1)
Body(s, k)   == Fragment(Part(s, k).text, Height[Part(s, k).text])

\* The name of the section and its first n fragments, with or without directives.
Opening(s, n, lines) ==
    IF lines
    THEN [k \in 1..(2 * n + 1) |-> IF k = 1 THEN Comment(s.name)
                                   ELSE IF k % 2 = 0 THEN Placed(s, k \div 2)
                                   ELSE Body(s, k \div 2)]
    ELSE [k \in 1..(n + 1) |-> IF k = 1 THEN Comment(s.name) ELSE Body(s, k - 1)]

SectionCode(s, lines) ==
    LET n == Len(piles[s.pile])
    IN  IF n = 0 THEN <<>> ELSE Opening(s, n, lines)

\* Two lines of the program itself, the first under a directive.
OwnCode(name, line, t, u, lines) ==
    IF lines THEN <<Comment(name), Directive(Internal, line), Fragment(t, 1), Fragment(u, 1)>>
    ELSE <<Comment(name), Fragment(t, 1), Fragment(u, 1)>>

MainCode(lines) == OwnCode("main", 186, "int main(int argc, char **argv) {", "int ret = 0;", lines)
DoneCode(lines) == OwnCode("done", 201, "return ret;", "}", lines)

\* Every fragment once, in its section, in the order of its pile (or the reverse),
\* and under its own label.  The order of the sections is the one C code needs:
\* headers first, those of the system before those of the user; declarations before
\* the functions that use them; and what runs in main before, with and after the
\* statements in that order.
Unit(lines) ==
    LET S(name, pile) == SectionCode([name |-> name, pile |-> pile], lines)
    IN  S("defsysinclude", "defsys") \o S("sysinclude", "syss") \o S("include", "incs")
        \o S("declarations", "tlds") \o S("definition", "tlds") \o S("toplevel", "tlfs")
        \o MainCode(lines)
        \o S("before", "befs") \o S("statements", "stms") \o S("after", "afts")
        \o DoneCode(lines)

-----------------------------------------------------------------------------
(* Properties                                                              *)

\* The compiler sees every fragment at its own label and line, whatever was
\* emitted before it: comments, fragments of several lines, other sections,
\* earlier units (cplr_emit).
Attribution == \A m \in g.marks : m.at = m.own

\* Generating is repeatable (cplr.h:165): the unit is determined by the piles
\* alone, however often, in whichever context and at whichever dump level the
\* session has generated before.
Repeatable == pc = "show" => g.code = Unit(TRUE)

\* The user is shown the unit that is compiled: all of it, with its directives from
\* level 2 and without them at level 1, before cplr_generate returns.
DumpShowsCode ==
    [][pc = "show" /\ pc' = "idle" =>
          IF dump = 0 THEN g.dump = <<>> /\ shown = 0
          ELSE shown = Len(g.dump) /\ g.dump = Unit(dump > 1)]_vars

\* On, within what there is: to a later item, a later section, a later chunk of the
\* dump, or out.
Onward ==
    \/ /\ pc = "emit" /\ pc' = "emit"
       /\ \/ sect' = sect /\ i < i' /\ i' < Len(Content)
          \/ sect < sect' /\ sect' <= Done
    \/ pc = "emit" /\ pc' = "show"
    \/ pc = "show" /\ pc' = "show" /\ shown < shown' /\ shown' <= Len(g.dump) /\ g' = g
    \/ pc' \in {"idle", "dead"}

\* A generation only moves on, through piles it does not change: nothing is printed
\* twice, no loop runs past its list, and there is an end.
GenerationMoves == [][Steps => Onward /\ UNCHANGED piles]_vars

\* A generation that has begun returns to the session, or the process ends.
GenerateEnds == pc = "emit" ~> pc \in {"idle", "dead"}
=============================================================================
