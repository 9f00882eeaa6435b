------------------------------- MODULE MCCplr -------------------------------
(***************************************************************************)
(* Small instances of Cplr for TLC.  The names a program uses are x, which *)
(* contexts hand on, and h, which the redefinition filter hides (such as   *)
(* _h).  Items are fragments that define or use them.                      *)
(***************************************************************************)
EXTENDS Cplr

MCSym    == {"x", "h"}
MCHidden == {"h"}

MCItem == {"header",   \* the default headers
           "type",     \* a declaration others need
           "fun",      \* defines x
           "wrap",     \* defines x and refers to h
           "priv",     \* defines h
           "call",     \* refers to x, needs the type
           "plain",    \* a statement of its own
           "bad",      \* a syntax error
           "pkg",      \* a package
           "opt",      \* the option the package contributes
           "std",      \* the definitions given by default
           "lib",      \* a source file that defines x
           "user"}     \* a statement that needs the package's option

MCDefs == [i \in MCItem |-> CASE i \in {"fun", "wrap", "lib"} -> {"x"}
                              [] i = "priv" -> {"h"}
                              [] OTHER -> {}]
MCUses == [i \in MCItem |-> CASE i = "call" -> {"x"}
                              [] i = "wrap" -> {"h"}
                              [] OTHER -> {}]
MCNeeds == [i \in MCItem |-> CASE i = "call" -> {"type"}
                               [] i = "user" -> {"opt"}
                               [] OTHER -> {}]
MCBroken      == {"bad"}
MCPkgOpts     == [i \in MCItem |-> IF i = "pkg" THEN <<"opt">> ELSE <<>>]
MCDefaultIncs == <<"header">>
MCDefaultOpts == <<"std">>

-----------------------------------------------------------------------------
\* Command lines: the piles they fill, their flags, and how parsing ends.

Given(p, s) == [EmptyPiles EXCEPT ![p] = s]
Call(flags, o, p) == [res |-> 0, flags |-> flags, out |-> o, pile |-> p]
Early(r, flags)   == [res |-> r, flags |-> flags, out |-> FALSE, pile |-> EmptyPiles]

\* Interactive sessions: plain, with -n, and with code to run first.
SessionCalls == { Call({"INTERACTIVE"}, FALSE, EmptyPiles),
                  Call({"INTERACTIVE", "NORUN"}, FALSE, EmptyPiles),
                  Call({}, FALSE, Given("srcs", <<"lib">>)) }

\* One statement or one function at a time, and one that does not compile.
SessionLines == {<<"tlds", "type">>, <<"tlfs", "fun">>, <<"tlfs", "wrap">>,
                 <<"tlfs", "priv">>, <<"stms", "call">>}

\* Everything a command line can combine: errors, help, -o, -n, -y, -p,
\* packages, source files, right and wrong statements.
BatchPiles ==
    { EmptyPiles } \cup
    { [Given("stms", s) EXCEPT !["pkgs"] = q, !["srcs"] = f, !["afts"] = a] :
        s \in {<<>>, <<"plain">>, <<"user">>, <<"bad">>},
        q \in {<<>>, <<"pkg">>, <<"pkg", "pkg">>},
        f \in {<<>>, <<"lib">>, <<"lib", "bad">>},
        a \in {<<>>, <<"plain", "call">>} }

BatchCalls ==
    { Early(r, f) : r \in 1..2, f \in SUBSET {"INTERACTIVE"} } \cup
    { Call(f, o, p) : f \in SUBSET OptFlag, o \in BOOLEAN, p \in BatchPiles }

BatchLines == {<<"stms", "plain">>}

\* All of these and the sessions, with lines the compiler takes and refuses.
FailureCalls == BatchCalls \cup SessionCalls
FailureLines == {<<"stms", "plain">>, <<"stms", "bad">>}

\* A declaration that is also a definition, such as that of a struct.
DeclarationLines == {<<"tlds", "priv">>, <<"stms", "plain">>}

PackageCalls == { Call({"INTERACTIVE"}, FALSE, Given("pkgs", <<"pkg">>)) }
OutputCalls  == { Call({"INTERACTIVE"}, TRUE, EmptyPiles) }
HistoryCalls == { Call({"INTERACTIVE"}, FALSE, Given("stms", <<"plain">>)) }
=============================================================================
