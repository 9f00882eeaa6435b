-------------------------------- MODULE Cplr --------------------------------
(***************************************************************************)
(* One process of the C piler: main parses the command line into the root  *)
(* context, runs its pile, and may then hand it to the interactor, which   *)
(* reads lines, pushes code onto piles, runs them, and chains a fresh      *)
(* context behind every context whose code has been loaded.                *)
(*                                                                         *)
(* A context is an index k of the chain; its fields are functions of k.    *)
(* The compiler (libtcc), pkg-config, readline and the user's own program  *)
(* are outside; they appear as the choices their callers have to survive.  *)
(*                                                                         *)
(* A definition Slip_... is wrong on purpose: it is what a likely mistake  *)
(* in the code would be.  Nothing uses it; put in the place of the         *)
(* definition below it, it makes a property of this module fail.           *)
(***************************************************************************)
EXTENDS Naturals, Sequences, SequencesExt

CONSTANTS
    Item,         \* what a pile holds: fragments, headers, options, packages
    Sym,          \* names the code may define or refer to
    Defs, Uses,   \* [Item -> SUBSET Sym]: names an item defines, refers to
    Needs,        \* [Item -> SUBSET Item]: items an item does not compile without
    Broken,       \* items no compiler accepts
    Hidden,       \* names the redefinition filter skips
    PkgOpts,      \* [Item -> Seq(Item)]: options pkg-config prints for a package
    DefaultIncs,  \* the default system headers
    DefaultOpts,  \* the default definitions of the preprocessor
    Invocations,  \* command lines: how cplr_optparse ends and what it collects
    Lines,        \* the <<pile, item>> pairs a user may push
    MaxChain,     \* bound: contexts of a session
    MaxPile       \* bound: items of a pile that are pushed interactively

-----------------------------------------------------------------------------
(* Flags and piles of a context                                            *)

OptFlag   == {"NODEFAULTS", "NORUN", "INTERACTIVE"}
PhaseFlag == {"GENERATED", "PREPARED", "COMPILED", "LOADED", "EXECUTED", "FINISHED"}
Flag      == OptFlag \cup PhaseFlag

\* "incs" stands for the three header piles, "opts" for the compiler-option piles.
StablePile   == {"pkgs", "opts", "incs", "tlds"}
VolatilePile == {"srcs", "tlfs", "befs", "stms", "afts"}
Pile         == StablePile \cup VolatilePile
Piles        == [Pile -> Seq(Item)]

Invocation == [res : 0..2, flags : SUBSET OptFlag, out : BOOLEAN, pile : Piles]

ASSUME BoundsAssumption == MaxChain \in Nat \ {0} /\ MaxPile \in Nat
ASSUME CodeAssumption ==
    /\ Defs \in [Item -> SUBSET Sym]
    /\ Uses \in [Item -> SUBSET Sym]
    /\ Needs \in [Item -> SUBSET Item]
    /\ Broken \subseteq Item
    /\ Hidden \subseteq Sym
    /\ PkgOpts \in [Item -> Seq(Item)]
    /\ DefaultIncs \in Seq(Item)
    /\ DefaultOpts \in Seq(Item)
ASSUME InputAssumption ==
    /\ Invocations \subseteq Invocation
    /\ Lines \subseteq {"tlds", "tlfs", "befs", "stms", "afts"} \X Item

-----------------------------------------------------------------------------
VARIABLES
    pc,        \* where the process is
    caller,    \* who called cplr_run: main, or the interactor
    ret,       \* main's ret, the exit status once the process has ended
    res,       \* result of the last call main or the interactor looks at
    cur,       \* index of the current context; the chain is 1..cur
    npkg,      \* packages the running cplr_prepare has processed
    flag,      \* flag word of each context
    out,       \* the context has an output file
    pile,      \* piles of each context
    code,      \* g_codebuf: the code last generated
    tcc,       \* life of the compiler instance
    objs,      \* source files given to the compiler
    unit,      \* code compiled by the compiler
    syms,      \* per name the context whose definition the compiler holds, or 0
    written,   \* the output file has been produced
    hist,      \* lines of earlier sessions are in the readline history
    histfile   \* what the history file holds

fileVars  == <<written, hist, histfile>>
mainVars  == <<caller, ret, hist, histfile>>
chainVars == <<flag, out, pile, code, tcc, objs, unit, syms>>
vars      == <<pc, caller, ret, res, cur, npkg, chainVars, fileVars>>

Context == 1..MaxChain
TccState == {"none", "partial", "ready", "tainted", "compiled", "relocated"}
Pc == {"start", "setup", "run", "packages", "generate", "compile", "execute",
       "running", "result", "prompt", "command", "free", "done", "exit", "dead"}

NoSyms     == [s \in Sym |-> 0]
EmptyPiles == [p \in Pile |-> <<>>]

TypeOK ==
    /\ pc \in Pc
    /\ caller \in {"main", "repl"}
    /\ ret \in 0..1
    /\ res \in 0..2
    /\ cur \in Context
    /\ npkg \in Nat
    /\ flag \in [Context -> SUBSET Flag]
    /\ out \in [Context -> BOOLEAN]
    /\ pile \in [Context -> Piles]
    /\ code \in [Context -> Seq(Item)]
    /\ tcc \in [Context -> TccState]
    /\ objs \in [Context -> Seq(Item)]
    /\ unit \in [Context -> Seq(Item)]
    /\ syms \in [Context -> [Sym -> 0..MaxChain]]
    /\ written \in BOOLEAN
    /\ hist \in BOOLEAN
    /\ histfile \in {"earlier", "both", "session"}

Init ==
    /\ pc = "start" /\ caller = "main" /\ ret = 1 /\ res = 0
    /\ cur = 1 /\ npkg = 0
    /\ flag = [k \in Context |-> {}]
    /\ out = [k \in Context |-> FALSE]
    /\ pile = [k \in Context |-> EmptyPiles]
    /\ code = [k \in Context |-> <<>>]
    /\ tcc = [k \in Context |-> "none"]
    /\ objs = [k \in Context |-> <<>>]
    /\ unit = [k \in Context |-> <<>>]
    /\ syms = [k \in Context |-> NoSyms]
    /\ written = FALSE /\ hist = FALSE /\ histfile = "earlier"

Has(f) == f \in flag[cur]
SetFlags(fs) == flag' = [flag EXCEPT ![cur] = @ \cup fs]

\* cplr_empty: no code at all (declarations alone do not count).
Empty(p) == \A v \in VolatilePile : p[v] = <<>>

-----------------------------------------------------------------------------
(* What is compiled, and what it means to the compiler                     *)

\* The order of cplr_generate_code; declarations are emitted in two sections.
GenerateCode(p) ==
    p["incs"] \o p["tlds"] \o p["tlds"] \o p["tlfs"]
        \o p["befs"] \o p["stms"] \o Reverse(p["afts"])

NamesIn(Names, items) == UNION { Names[items[i]] : i \in DOMAIN items }

\* The linked program of context k.
Program(k) == objs[k] \o unit[k]

\* The compiler accepts the code c after the source files: every fragment is
\* well formed and finds what it needs among the options or before itself, and
\* no name is defined twice.
Accepts(opts, files, c) ==
    LET p == files \o c
    IN  /\ \A i \in DOMAIN c :
            /\ c[i] \notin Broken
            /\ Needs[c[i]] \subseteq ToSet(opts) \cup { c[j] : j \in 1..(i - 1) }
        /\ \A i, j \in DOMAIN p : i # j => Defs[p[i]] \cap Defs[p[j]] = {}

Compilable == Accepts(pile[cur]["opts"], objs[cur], code[cur])

\* The filter lets the previous definition win, or the root is listed instead
\* of the previous context.
Slip_OldNamesWin ==
    LET own == NamesIn(Defs, objs[cur] \o code[cur])
    IN  [s \in Sym |-> IF cur > 1 /\ s \notin Hidden /\ syms[cur - 1][s] # 0
                         THEN syms[cur - 1][s]
                       ELSE IF s \in own THEN cur ELSE 0]
Slip_RootNames ==
    LET own == NamesIn(Defs, objs[cur] \o code[cur])
    IN  [s \in Sym |-> IF s \in own THEN cur
                       ELSE IF cur > 1 /\ s \notin Hidden THEN syms[1][s]
                       ELSE 0]

\* The names known to the current compiler once the code is compiled: its own
\* definitions, and through tcc_list_symbols those of the previous context.
SymTable ==
    LET own == NamesIn(Defs, objs[cur] \o code[cur])
    IN  [s \in Sym |-> IF s \in own THEN cur
                       ELSE IF cur > 1 /\ s \notin Hidden THEN syms[cur - 1][s]
                       ELSE 0]

\* Relocation succeeds when every name the program refers to has a definition.
Linkable == \A s \in NamesIn(Uses, Program(cur)) : syms[cur][s] # 0

-----------------------------------------------------------------------------
(* main                                                                    *)

\* cplr_optparse fills the root context; an error or a request for help ends
\* the process before anything is run.
OptParse ==
    /\ pc = "start"
    /\ \E inv \in Invocations :
        /\ SetFlags(inv.flags \cup IF inv.out THEN {"NORUN"} ELSE {})
        /\ out' = [out EXCEPT ![1] = inv.out]
        /\ pile' = [pile EXCEPT ![1] = inv.pile]
        /\ res' = inv.res
        /\ pc' = IF inv.res = 0 THEN "setup" ELSE "done"
        /\ ret' = IF inv.res = 2 THEN 0 ELSE 1
    /\ UNCHANGED <<caller, cur, npkg, code, tcc, objs, unit, syms, fileVars>>

\* cplr_defaults appends the default headers and definitions.
Defaults == [pile EXCEPT ![1]["incs"] = @ \o DefaultIncs, ![1]["opts"] = @ \o DefaultOpts]

\* Defaults, the switch to interactive on a terminal, and the dispatch.
Setup ==
    /\ pc = "setup"
    /\ \E tty \in BOOLEAN :
        LET auto == tty /\ pile[1]["stms"] = <<>>
        IN  /\ SetFlags(IF auto THEN {"INTERACTIVE"} ELSE {})
            /\ hist' = auto
            /\ pc' = IF ~Empty(pile[1]) THEN "run"
                     ELSE IF auto \/ Has("INTERACTIVE") THEN "prompt"
                     ELSE "done"
    /\ pile' = IF Has("NODEFAULTS") THEN pile ELSE Defaults
    /\ UNCHANGED <<caller, ret, res, cur, npkg, out, code, tcc, objs, unit, syms,
                   written, histfile>>

\* Leave main: save the history of an interactive session, free the root.
Done ==
    /\ pc = "done"
    /\ histfile' = IF ~Has("INTERACTIVE") THEN histfile
                   ELSE IF hist THEN "both" ELSE "session"
    /\ pc' = "exit"
    /\ UNCHANGED <<caller, ret, res, cur, npkg, chainVars, written, hist>>

-----------------------------------------------------------------------------
(* cplr_run: prepare, generate, compile, execute                           *)

\* cplr_prepare begins: a compiler instance, then the packages in order.
PrepareBegin ==
    /\ pc = "run" /\ ~Has("PREPARED")
    /\ tcc' = [tcc EXCEPT ![cur] = "partial"]
    /\ npkg' = 0
    /\ pc' = "packages"
    /\ UNCHANGED <<mainVars, res, cur, flag, out, pile, code, objs, unit, syms, written>>

\* Every way out of cplr_prepare flags the context.
PrepareFails ==
    /\ SetFlags({"PREPARED"})
    /\ res' = 1
    /\ pc' = "result"

\* cplr_pkgconfig_prepare: the package's options go to the compiler and onto
\* the context's own piles; a failure may leave some of them behind.
PreparePackage ==
    /\ pc = "packages" /\ npkg < Len(pile[cur]["pkgs"])
    /\ LET opts == PkgOpts[pile[cur]["pkgs"][npkg + 1]]
       IN  \/ /\ pile' = [pile EXCEPT ![cur]["opts"] = @ \o opts]
              /\ npkg' = npkg + 1
              /\ UNCHANGED <<pc, res, flag>>
           \/ /\ \E n \in 0..Len(opts) :
                    pile' = [pile EXCEPT ![cur]["opts"] = @ \o SubSeq(opts, 1, n)]
              /\ PrepareFails
              /\ UNCHANGED npkg
    /\ UNCHANGED <<mainVars, cur, out, code, tcc, objs, unit, syms, written>>

\* Options, directories, libraries, then the source files in order; any of
\* them may be refused, and a broken source file always is.
PrepareFiles ==
    /\ pc = "packages" /\ npkg = Len(pile[cur]["pkgs"])
    /\ LET srcs == pile[cur]["srcs"]
       IN  \/ /\ \A i \in DOMAIN srcs : srcs[i] \notin Broken
              /\ objs' = [objs EXCEPT ![cur] = srcs]
              /\ tcc' = [tcc EXCEPT ![cur] = "ready"]
              /\ SetFlags({"PREPARED"})
              /\ pc' = "generate"
              /\ UNCHANGED res
           \/ /\ \E n \in 0..Len(srcs) :
                    /\ n = 0 \/ n < Len(srcs)
                    /\ \A i \in 1..n : srcs[i] \notin Broken
                    /\ objs' = [objs EXCEPT ![cur] = SubSeq(srcs, 1, n)]
              /\ PrepareFails
              /\ UNCHANGED tcc
    /\ UNCHANGED <<mainVars, cur, npkg, out, pile, code, unit, syms, written>>

SkipPrepare ==
    /\ pc = "run" /\ Has("PREPARED")
    /\ pc' = "generate"
    /\ UNCHANGED <<mainVars, res, cur, npkg, chainVars, written>>

\* cplr_generate: a fresh buffer every time.  Where the code is also dumped, a filter
\* that stops reading ends the process first; the dump level and the dump itself are
\* the state of CplrGenerate.
Generated(next) ==
    /\ code' = [code EXCEPT ![cur] = GenerateCode(pile[cur])]
    /\ \/ SetFlags({"GENERATED"}) /\ pc' = next
       \/ pc' = "dead" /\ UNCHANGED flag

Generate ==
    /\ pc = "generate" /\ ~Has("COMPILED")
    /\ Generated("compile")
    /\ UNCHANGED <<mainVars, res, cur, npkg, out, pile, tcc, objs, unit, syms, written>>

SkipCompile ==
    /\ pc = "generate" /\ Has("COMPILED")
    /\ pc' = "execute"
    /\ UNCHANGED <<mainVars, res, cur, npkg, chainVars, written>>

\* What a successful tcc_compile_string and the redefinition leave behind.
Compiled(fs) ==
    /\ Compilable
    /\ SetFlags(fs)
    /\ unit' = [unit EXCEPT ![cur] = code[cur]]
    /\ syms' = [syms EXCEPT ![cur] = SymTable]
    /\ tcc' = [tcc EXCEPT ![cur] = "compiled"]

\* A compilation to memory also marks the context as loaded.
CompileMemory ==
    /\ pc = "compile" /\ ~out[cur]
    /\ Compiled({"COMPILED", "LOADED"})
    /\ pc' = "execute"
    /\ UNCHANGED <<mainVars, res, cur, npkg, out, pile, code, objs, written>>

\* The result of tcc_output_file is ignored.
Slip_OutputUnchecked ==
    /\ pc = "compile" /\ out[cur]
    /\ Compiled({"COMPILED"})
    /\ \/ written' = TRUE
       \/ UNCHANGED written
    /\ pc' = "execute"
    /\ UNCHANGED <<mainVars, res, cur, npkg, out, pile, code, objs>>

\* A compilation to a file still has to write it.
CompileFile ==
    /\ pc = "compile" /\ out[cur]
    /\ Compiled({"COMPILED"})
    /\ \/ written' = TRUE /\ pc' = "execute" /\ UNCHANGED res
       \/ res' = 1 /\ pc' = "result" /\ UNCHANGED written
    /\ UNCHANGED <<mainVars, cur, npkg, out, pile, code, objs>>

\* The flags are set before the compiler's answer is looked at.
Slip_FlaggedTooEarly ==
    /\ pc = "compile"
    /\ ~Compilable \/ tcc[cur] # "ready"
    /\ SetFlags({"COMPILED", "LOADED"})
    /\ tcc' = [tcc EXCEPT ![cur] = "tainted"]
    /\ res' = 1
    /\ pc' = "result"
    /\ UNCHANGED <<mainVars, cur, npkg, out, pile, code, objs, unit, syms, written>>

\* Wrong code never compiles; right code may be refused by a compiler that is
\* not fully prepared or has already failed once.
CompileFail ==
    /\ pc = "compile"
    /\ ~Compilable \/ tcc[cur] # "ready"
    /\ tcc' = [tcc EXCEPT ![cur] = "tainted"]
    /\ res' = 1
    /\ pc' = "result"
    /\ UNCHANGED <<mainVars, cur, npkg, flag, out, pile, code, objs, unit, syms, written>>

SkipExecute ==
    /\ pc = "execute" /\ Has("NORUN")
    /\ res' = 0
    /\ pc' = "result"
    /\ UNCHANGED <<mainVars, cur, npkg, chainVars, written>>

\* cplr_execute up to the user's main; an unresolved name ends it at once.
Execute ==
    /\ pc = "execute" /\ ~Has("NORUN")
    /\ IF Linkable
       THEN /\ tcc' = [tcc EXCEPT ![cur] = "relocated"]
            /\ SetFlags({"EXECUTED"})
            /\ pc' = "running"
            /\ UNCHANGED res
       ELSE /\ SetFlags({"EXECUTED", "FINISHED"})
            /\ res' = 1
            /\ pc' = "result"
            /\ UNCHANGED tcc
    /\ UNCHANGED <<mainVars, cur, npkg, out, pile, code, objs, unit, syms, written>>

\* The user's program returns, with any status.
Return ==
    /\ pc = "running"
    /\ res' \in 0..1
    /\ SetFlags({"FINISHED"})
    /\ pc' = "result"
    /\ UNCHANGED <<mainVars, cur, npkg, out, pile, code, tcc, objs, unit, syms, written>>

\* The user's program runs in this process and may take it down.
Crash ==
    /\ pc = "running"
    /\ pc' = "dead"
    /\ UNCHANGED <<mainVars, res, cur, npkg, chainVars, written>>

\* A failed run is tried again.
Slip_Retry ==
    /\ pc = "result"
    /\ ret' = IF caller = "main" THEN (IF res = 0 THEN 0 ELSE 1) ELSE ret
    /\ pc' = IF res = 1 THEN "run"
             ELSE IF caller = "repl" \/ Has("INTERACTIVE") THEN "prompt" ELSE "done"
    /\ UNCHANGED <<caller, res, cur, npkg, chainVars, fileVars>>

\* cplr_run returns: main goes on only after a success, the interactor always.
Result ==
    /\ pc = "result"
    /\ IF caller = "main"
       THEN /\ ret' = IF res = 0 THEN 0 ELSE 1
            /\ pc' = IF res = 0 /\ Has("INTERACTIVE") THEN "prompt" ELSE "done"
       ELSE /\ pc' = "prompt"
            /\ UNCHANGED ret
    /\ UNCHANGED <<caller, res, cur, npkg, chainVars, fileVars>>

-----------------------------------------------------------------------------
(* The interactor                                                          *)

\* Chaining looks at another flag, only follows a success, or tests the root.
Slip_WhenFinished  == Has("FINISHED")
Slip_AfterSuccess  == Has("LOADED") /\ res = 0
Slip_RootIsLoaded  == "LOADED" \in flag[1]

\* A loaded context takes no more code.
NeedsNewContext == Has("LOADED")

\* All flags are reset, or one too few; a pile is missing from those cleared, or one
\* too many.
Slip_ResetAll(fs)    == fs \cap {"INTERACTIVE"}
Slip_KeepCompiled(fs) == fs \ {"PREPARED", "LOADED", "EXECUTED", "FINISHED"}
Slip_KeepSources(p)  == [q \in Pile |-> IF q \in VolatilePile \ {"srcs"} THEN <<>> ELSE p[q]]
Slip_ClearDecls(p)   == [q \in Pile |-> IF q \in VolatilePile \cup {"tlds"} THEN <<>> ELSE p[q]]
Slip_ClearOptions(p) == [q \in Pile |-> IF q \in VolatilePile \cup {"opts"} THEN <<>> ELSE p[q]]

\* cplr_chain: clone the context, reset its flags, clear its volatile piles.
ChainFlags(fs) == fs \ {"PREPARED", "COMPILED", "LOADED", "EXECUTED", "FINISHED"}
ChainPiles(p)  == [q \in Pile |-> IF q \in VolatilePile THEN <<>> ELSE p[q]]

Chain ==
    /\ cur < MaxChain
    /\ cur' = cur + 1
    /\ flag' = [flag EXCEPT ![cur + 1] = ChainFlags(flag[cur])]
    /\ out' = [out EXCEPT ![cur + 1] = FALSE]
    /\ pile' = [pile EXCEPT ![cur + 1] = ChainPiles(pile[cur])]
    /\ code' = [code EXCEPT ![cur + 1] = <<>>]
    /\ tcc' = [tcc EXCEPT ![cur + 1] = "none"]
    /\ objs' = [objs EXCEPT ![cur + 1] = <<>>]
    /\ unit' = [unit EXCEPT ![cur + 1] = <<>>]
    /\ syms' = [syms EXCEPT ![cur + 1] = NoSyms]

\* A line arrives, be it empty or not.
ReadLine ==
    /\ pc = "prompt"
    /\ IF NeedsNewContext THEN Chain ELSE UNCHANGED <<cur, chainVars>>
    /\ pc' = "command"
    /\ UNCHANGED <<mainVars, res, npkg, written>>

\* End of input leaves the loop without chaining.
Eof ==
    /\ pc = "prompt"
    /\ ret' = 0
    /\ pc' = "free"
    /\ UNCHANGED <<caller, res, cur, npkg, chainVars, fileVars>>

\* Empty lines, help, listings, system commands, unknown commands.
Idle ==
    /\ pc = "command"
    /\ pc' = "prompt"
    /\ UNCHANGED <<mainVars, res, cur, npkg, chainVars, written>>

\* cplr_find_syms: the symbols \y lists are those of the last loaded context.
FindSyms == Max({0} \cup { k \in 1..cur : "LOADED" \in flag[k] })

\* \d generates the code once more and shows it.
Dump ==
    /\ pc = "command"
    /\ Generated("prompt")
    /\ UNCHANGED <<mainVars, res, cur, npkg, out, pile, tcc, objs, unit, syms, written>>

Quit ==
    /\ pc = "command"
    /\ ret' = 0
    /\ pc' = "free"
    /\ UNCHANGED <<caller, res, cur, npkg, chainVars, fileVars>>

PushItem(p, i) ==
    /\ <<p, i>> \in Lines
    /\ Len(pile[cur][p]) < MaxPile
    /\ pile' = [pile EXCEPT ![cur][p] = Append(@, i)]

\* @S ^S <S >S .S : push only.
Push ==
    /\ pc = "command"
    /\ \E line \in Lines : PushItem(line[1], line[2])
    /\ pc' = "prompt"
    /\ UNCHANGED <<mainVars, res, cur, npkg, flag, out, code, tcc, objs, unit, syms, written>>

CallRun ==
    /\ caller' = "repl"
    /\ pc' = "run"

\* S : push a statement and run the pile.
PushRun ==
    /\ pc = "command"
    /\ \E line \in Lines : line[1] = "stms" /\ PushItem(line[1], line[2])
    /\ CallRun
    /\ UNCHANGED <<ret, res, cur, npkg, flag, out, code, tcc, objs, unit, syms, fileVars>>

\* . : run the pile.
RunPile ==
    /\ pc = "command"
    /\ CallRun
    /\ UNCHANGED <<ret, res, cur, npkg, chainVars, fileVars>>

\* The loop runs past the root.
Slip_FreeRoot ==
    /\ pc = "free"
    /\ cur' = cur - 1
    /\ pc' = IF cur = 1 THEN "done" ELSE pc
    /\ UNCHANGED <<mainVars, res, npkg, chainVars, written>>

\* Free the chain from its end back to the root, which main frees.
FreeContext ==
    /\ pc = "free"
    /\ IF cur # 1
       THEN cur' = cur - 1 /\ UNCHANGED pc
       ELSE pc' = "done" /\ UNCHANGED cur
    /\ UNCHANGED <<mainVars, res, npkg, chainVars, written>>

Terminated ==
    /\ pc \in {"exit", "dead"}
    /\ UNCHANGED vars

-----------------------------------------------------------------------------
MainStep    == OptParse \/ Setup \/ Done \/ Result
PrepareStep == PrepareBegin \/ PreparePackage \/ PrepareFiles \/ SkipPrepare
CompileStep == Generate \/ SkipCompile \/ CompileMemory \/ CompileFile \/ CompileFail
ExecuteStep == SkipExecute \/ Execute \/ Return \/ Crash
CommandStep == Idle \/ Dump \/ Quit \/ Push \/ PushRun \/ RunPile
SystemStep  == MainStep \/ PrepareStep \/ CompileStep \/ ExecuteStep
                   \/ CommandStep \/ FreeContext
UserStep    == ReadLine \/ Eof

Next == SystemStep \/ UserStep \/ Terminated

Spec == Init /\ [][Next]_vars

\* The program is sequential and its own steps are never withheld; only the
\* user at the prompt may stay silent.  Taking Return or Crash is an
\* assumption on the user's programs: each of them ends.
FairSpec == Spec /\ WF_vars(SystemStep)
-----------------------------------------------------------------------------
(* Safety: what one context owes the next, and what a run may claim        *)

\* A context that was loaded holds exactly the code on its piles: nothing was
\* pushed onto it later, and no stale buffer was compiled (cplr_interact chains
\* before it hands a line on).
LoadedIsPile ==
    \A k \in 1..cur : "LOADED" \in flag[k] => unit[k] = GenerateCode(pile[k])

\* cplr_execute is "non-repeatable" (cplr.h:174): however lines and runs
\* follow each other, no context reaches it twice.
RunsOnce == pc = "execute" => ~Has("EXECUTED")

\* The option -n, "inhibit execution", covers every context of the session.
NoRunRespected ==
    "NORUN" \in flag[1] => pc # "running" /\ \A k \in 1..cur : "EXECUTED" \notin flag[k]

\* What a run leaves out has been done before: code is generated and compiled by a
\* compiler that exists, and a run to memory that reports success, whichever phases
\* flags made it skip, has its pile compiled, loaded and, unless -n forbids it, placed
\* and started (the flags of cplr_run, and those cplr_chain takes back).
SuccessIsDone ==
    /\ pc \in {"generate", "compile", "execute"} => tcc[cur] # "none"
    /\ pc = "result" /\ res = 0 /\ ~out[cur] =>
          /\ Has("LOADED") /\ unit[cur] = GenerateCode(pile[cur])
          /\ Has("NORUN") \/ tcc[cur] = "relocated"

\* Only the last context may be unfinished: cplr_find_syms and the redefinition
\* of symbols both rely on every earlier one being loaded.
EarlierLoaded == \A k \in 1..(cur - 1) : "LOADED" \in flag[k]

Defines(k, s) == s \in NamesIn(Defs, Program(k))

\* d is the latest context up to k to define s, or 0 if there is none; a name
\* the redefinition filter skips is known only where it is defined.
Latest(d, k, s) ==
    /\ d # 0 => d <= k /\ Defines(d, s) /\ (s \in Hidden => d = k)
    /\ \A j \in (d + 1)..k : Defines(j, s) => s \in Hidden /\ j < k

\* A loaded context resolves every name to the latest definition the session
\* has seen, over any number of contexts in between: cplr_tcc_redefsym_cb hands
\* each table on to the next and never lets an old definition win.
LatestDefinition ==
    \A k \in 1..cur, s \in Sym : "LOADED" \in flag[k] => Latest(syms[k][s], k, s)

\* Source files are linked into the root only: a chained context reaches them
\* through their symbols, a second copy would have a second state.
SourcesOnce == \A k \in 2..cur : objs[k] = <<>>

\* Declarations outlive the context they were pushed in ("stable piles (kept in
\* chaining)", cplr.h:131).
DeclarationsKept ==
    \A k \in 2..cur : IsPrefix(pile[k - 1]["tlds"], pile[k]["tlds"])

\* Exit status 0 of a non-interactive run means that everything asked for was
\* done: a complete preparation, the output file written, the program run.
BatchSuccess ==
    /\ pc = "exit" /\ ret = 0
    /\ "INTERACTIVE" \notin flag[1] /\ "PREPARED" \in flag[1]
    => /\ unit[1] = GenerateCode(pile[1]) /\ objs[1] = pile[1]["srcs"]
       /\ out[1] => written
       /\ "NORUN" \notin flag[1] => "FINISHED" \in flag[1] /\ tcc[1] = "relocated"

\* Behind the first m options on a pile come those of the first n packages, whole
\* and in their order, and no others.
Follow(opts, pkgs, n, m) ==
    \E f \in [0..n -> 0..Len(opts)] :
        /\ f[0] = m /\ f[n] = Len(opts)
        /\ \A i \in 1..n :
            LET own == PkgOpts[pkgs[i]]
            IN  /\ f[i] = f[i - 1] + Len(own)
                /\ \A j \in 1..Len(own) : opts[f[i - 1] + j] = own[j]

\* The first m options are those of the context before.
Inherited(opts, before, m) == m = Len(before) /\ \A j \in 1..m : opts[j] = before[j]

\* Code is compiled under the options its context inherited and, behind them, one
\* round of those of its packages: preparing writes to the piles it reads, the next
\* context inherits the outcome and adds one round more (cplr_package.c).
OptionsAdded ==
    pc = "compile" /\ tcc[cur] = "ready" =>
        LET opts == pile[cur]["opts"]
            pkgs == pile[cur]["pkgs"]
        IN  \E m \in 0..Len(opts) :
                /\ cur > 1 => Inherited(opts, pile[cur - 1]["opts"], m)
                /\ Follow(opts, pkgs, Len(pkgs), m)

-----------------------------------------------------------------------------
(* What no step may do                                                     *)

\* Loaded code is frozen as long as its context lives: later contexts hold
\* addresses into it.
LoadedIsFrozen ==
    [][\A k \in Context : k <= cur /\ k <= cur' /\ "LOADED" \in flag[k] =>
          UNCHANGED <<pile[k], objs[k], unit[k], syms[k]>>]_vars

\* One line the compiler refuses is never got rid of: it stays on its pile, so
\* its context is never loaded and the session never moves on to a fresh one.
ErrorIsSticky ==
    [][\A k \in Context : k = cur /\ cur' > cur =>
          ToSet(GenerateCode(pile[k])) \cap Broken = {}]_vars

\* How many steps of the process are left, at most, before it waits for the user or
\* has ended.
StepsLeft ==
    LET pkgs == Len(pile[cur]["pkgs"])
    IN  CASE pc \in {"prompt", "exit", "dead"} -> 0
          [] pc = "done" -> 1
          [] pc = "result" -> 2
          [] pc = "running" -> 3
          [] pc = "execute" -> 4
          [] pc = "compile" -> 5
          [] pc = "generate" -> 6
          [] pc = "packages" -> 7 + (pkgs - npkg)
          [] pc = "run" -> 8 + pkgs
          [] pc = "setup" -> 9 + pkgs
          [] pc = "command" -> 9 + pkgs + cur
          [] pc = "free" -> 1 + cur
          [] pc = "start" -> 0

\* Once the command line is read, every step of the process brings the next prompt or
\* its end nearer: no phase is entered again for the same line, whatever fails.
AnswerNears ==
    [][SystemStep => pc = "start" \/ StepsLeft' \in 0..(StepsLeft - 1)]_vars

-----------------------------------------------------------------------------
(* Liveness                                                                *)

\* The command line and every line the user enters are answered by the next prompt,
\* or end the process; no line makes the interactor run in circles, and without an
\* interactor the process always comes to an end.
LinesAnswered == pc \in {"start", "command"} ~> pc \in {"prompt", "exit", "dead"}

-----------------------------------------------------------------------------
(* The session a user sees                                                 *)

SessionOpen   == pc \notin {"free", "done", "exit", "dead"}
SessionLoaded == IF SessionOpen THEN FindSyms ELSE 0
SessionEnv    == IF SessionLoaded = 0 THEN NoSyms ELSE syms[SessionLoaded]

Session == INSTANCE PilerSession WITH
               open <- SessionOpen, loaded <- SessionLoaded, env <- SessionEnv

\* The chain of contexts behaves as one growing environment of definitions.
SessionSpec == Session!Spec

-----------------------------------------------------------------------------
(* What comments, help and tests say of the program and the code does not do *)

\* main reads the history and saves it: the earlier lines survive.
HistoryKept == histfile # "session"

\* cplr_run prepares before it compiles: no compilation by a compiler whose
\* preparation failed.
PreparedBeforeCompile == pc = "compile" => tcc[cur] # "partial"

\* "S Push and run": a run that reports success has built what was pushed.
SuccessBuildsPile ==
    pc = "result" /\ res = 0 => unit[cur] = GenerateCode(pile[cur])

\* "Push declaration": code that compiles with each declaration stated once
\* compiles as generated.
DeclarationsUsable ==
    LET p == pile[cur]
        once == p["incs"] \o p["tlds"] \o p["tlfs"]
                    \o p["befs"] \o p["stms"] \o Reverse(p["afts"])
    IN  pc = "compile" /\ Accepts(p["opts"], objs[cur], once) => Compilable

\* A context flagged as loaded has code in memory: a running program is bound
\* only to names whose code has been placed there.
BoundToPlacedCode ==
    pc = "running" =>
        \A s \in NamesIn(Uses, Program(cur)) : tcc[syms[cur][s]] = "relocated"
=============================================================================
