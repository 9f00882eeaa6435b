----------------------------- MODULE CplrProofs -----------------------------
(***************************************************************************)
(* Theorems about Cplr, for every value of its constants.                  *)
(***************************************************************************)
EXTENDS Cplr, TLAPS

-----------------------------------------------------------------------------
(* What the operators of the model return                                  *)

\* Reversing a sequence (the order of the "after" pile) yields a sequence.
LEMMA ReverseType == \A S : \A s \in Seq(S) : Reverse(s) \in Seq(S)
  BY DEF Reverse

\* Generated code is a sequence of the pushed items.
LEMMA GenerateType == \A p \in Piles : GenerateCode(p) \in Seq(Item)
  <1> SUFFICES ASSUME NEW p \in Piles PROVE GenerateCode(p) \in Seq(Item)
    OBVIOUS
  <1>1. \A q \in Pile : p[q] \in Seq(Item)
    BY DEF Piles
  <1>2. Reverse(p["afts"]) \in Seq(Item)
    BY <1>1, ReverseType DEF Pile, VolatilePile
  <1> QED
    BY <1>1, <1>2 DEF GenerateCode, Pile, StablePile, VolatilePile

\* A symbol table maps every name to a context or to 0.
LEMMA SymTableType ==
    ASSUME TypeOK  PROVE SymTable \in [Sym -> 0..MaxChain]
  <1>1. cur \in 0..MaxChain /\ \A k \in Context, s \in Sym : syms[k][s] \in 0..MaxChain
    BY BoundsAssumption DEF TypeOK, Context
  <1>2. cur > 1 => cur - 1 \in Context
    BY BoundsAssumption DEF TypeOK, Context
  <1> QED
    BY <1>1, <1>2, BoundsAssumption DEF SymTable

\* The piles of a fresh context.
LEMMA ChainPilesType == \A p \in Piles : ChainPiles(p) \in Piles
  BY DEF ChainPiles, Piles

\* Replacing one pile of one context by another sequence keeps the type.
LEMMA PileUpdate ==
    ASSUME TypeOK, NEW k \in Context, NEW q \in Pile, NEW s \in Seq(Item)
    PROVE  [pile EXCEPT ![k][q] = s] \in [Context -> Piles]
  BY DEF TypeOK, Piles

\* Headers and options written to a context leave its other piles alone.
LEMMA HeadersOnly ==
    ASSUME NEW f \in [Context -> Piles], NEW j, NEW headers, NEW options,
           NEW k \in Context, NEW p \in Pile, p # "incs", p # "opts"
    PROVE  [f EXCEPT ![j]["incs"] = headers, ![j]["opts"] = options][k][p] = f[k][p]
  <1>1. CASE k = j
    BY <1>1, Zenon DEF Piles
  <1>2. CASE k # j
    BY <1>2, Zenon
  <1> QED
    BY <1>1, <1>2

\* The set-up appends to these two, or to none.
LEMMA DefaultsGiven ==
    ASSUME TypeOK, Setup
    PROVE  /\ pile' \in [Context -> Piles]
           /\ \A k \in Context, p \in Pile : p # "incs" /\ p # "opts" => pile'[k][p] = pile[k][p]
  <1>1. 1 \in Context /\ "incs" \in Pile /\ "opts" \in Pile
    BY BoundsAssumption DEF Context, Pile, StablePile
  <1>2. PICK a, b : a = pile[1]["incs"] \o DefaultIncs /\ b = pile[1]["opts"] \o DefaultOpts
    OBVIOUS
  <1>3. a \in Seq(Item) /\ b \in Seq(Item)
    BY <1>1, <1>2, CodeAssumption DEF TypeOK, Piles
  <1>4. pile \in [Context -> Piles]
    BY DEF TypeOK
  <1>5. Defaults = [pile EXCEPT ![1]["incs"] = a, ![1]["opts"] = b]
    BY <1>1, <1>2, <1>4 DEF Defaults, Piles
  <1>6. [pile EXCEPT ![1]["incs"] = a, ![1]["opts"] = b] \in [Context -> Piles]
    BY <1>1, <1>3, <1>4 DEF Piles
  <1>7. pile' = pile \/ pile' = [pile EXCEPT ![1]["incs"] = a, ![1]["opts"] = b]
    BY <1>5 DEF Setup
  <1> QED
    BY <1>4, <1>6, <1>7, HeadersOnly

\* Adding phases to the current context keeps the type.
LEMMA FlagUpdate ==
    ASSUME TypeOK, NEW fs \in SUBSET PhaseFlag, SetFlags(fs)
    PROVE  flag' \in [Context -> SUBSET Flag]
  BY DEF TypeOK, SetFlags, Flag

\* Every option and every phase is a flag.
LEMMA FlagFacts ==
    /\ OptFlag \in SUBSET Flag
    /\ \A f \in PhaseFlag : f \in Flag
    /\ \A f \in OptFlag : f \in Flag
  BY DEF Flag

\* What a package does, whether it fails or not: options are appended to one pile
\* of the current context, and a failure ends the run.
LEMMA PackageStep ==
    ASSUME PreparePackage
    PROVE  /\ pc = "packages"
           /\ \E s : pile' = [pile EXCEPT ![cur]["opts"] = @ \o s]
           /\ \/ pc' = pc /\ flag' = flag
              \/ pc' = "result" /\ SetFlags({"PREPARED"})
           /\ cur' = cur /\ out' = out /\ code' = code
           /\ objs' = objs /\ unit' = unit /\ syms' = syms
  BY Zenon DEF PreparePackage, PrepareFails

-----------------------------------------------------------------------------
(* Type correctness                                                        *)

\* Every context field and every control variable keeps its range.
LEMMA TypeInit == Init => TypeOK
  <1> SUFFICES ASSUME Init PROVE TypeOK
    OBVIOUS
  <1>1. EmptyPiles \in Piles /\ NoSyms \in [Sym -> 0..MaxChain] /\ 1 \in Context
    BY BoundsAssumption DEF EmptyPiles, Piles, NoSyms, Context
  <1>2. flag \in [Context -> SUBSET Flag] /\ out \in [Context -> BOOLEAN]
    BY DEF Init
  <1>3. /\ code \in [Context -> Seq(Item)] /\ objs \in [Context -> Seq(Item)]
        /\ unit \in [Context -> Seq(Item)]
    BY DEF Init
  <1>4. /\ pile \in [Context -> Piles] /\ syms \in [Context -> [Sym -> 0..MaxChain]]
        /\ tcc \in [Context -> TccState]
    BY <1>1 DEF Init, TccState
  <1>5. /\ pc \in Pc /\ caller \in {"main", "repl"} /\ ret \in 0..1 /\ res \in 0..2
        /\ cur \in Context /\ npkg \in Nat
    BY <1>1 DEF Init, Pc
  <1>6. /\ written \in BOOLEAN /\ hist \in BOOLEAN
        /\ histfile \in {"earlier", "both", "session"}
    BY DEF Init
  <1> QED
    BY <1>1, <1>2, <1>3, <1>4, <1>5, <1>6 DEF TypeOK

\* No step of the program leaves the types.
LEMMA TypeNext == TypeOK /\ [Next]_vars => TypeOK'
  <1> SUFFICES ASSUME TypeOK, [Next]_vars PROVE TypeOK'
    OBVIOUS
  <1> USE FlagFacts
  <1>0. /\ pc \in Pc /\ res \in 0..2 /\ npkg \in Nat /\ cur \in Context
        /\ tcc \in [Context -> TccState] /\ written \in BOOLEAN
    BY DEF TypeOK
  <1>1. CASE OptParse
    <2> PICK inv \in Invocations :
            /\ SetFlags(inv.flags \cup IF inv.out THEN {"NORUN"} ELSE {})
            /\ out' = [out EXCEPT ![1] = inv.out]
            /\ pile' = [pile EXCEPT ![1] = inv.pile]
            /\ res' = inv.res
            /\ pc' = IF inv.res = 0 THEN "setup" ELSE "done"
            /\ ret' = IF inv.res = 2 THEN 0 ELSE 1
      BY <1>1 DEF OptParse
    <2>1. inv \in Invocation
      BY InputAssumption
    <2>2. flag' \in [Context -> SUBSET Flag]
      BY <2>1 DEF SetFlags, TypeOK, Invocation, OptFlag
    <2>3. out' \in [Context -> BOOLEAN] /\ pile' \in [Context -> Piles] /\ res' \in 0..2
      BY <2>1 DEF TypeOK, Invocation
    <2> QED
      BY <1>1, <2>2, <2>3 DEF OptParse, TypeOK, Pc, fileVars
  <1>2. CASE Setup
    <2>1. pile' \in [Context -> Piles]
      BY <1>2, DefaultsGiven
    <2>2. flag' \in [Context -> SUBSET Flag] /\ hist' \in BOOLEAN /\ pc' \in Pc
      BY <1>2 DEF Setup, SetFlags, TypeOK, OptFlag, Pc
    <2> QED
      BY <1>2, <2>1, <2>2 DEF Setup, TypeOK
  <1>3. CASE Done
    BY <1>3 DEF Done, TypeOK, Pc, chainVars
  <1>4. CASE PrepareBegin
    BY <1>4 DEF PrepareBegin, TypeOK, Pc, TccState, mainVars
  <1>5. CASE PreparePackage
    <2> DEFINE opts == PkgOpts[pile[cur]["pkgs"][npkg + 1]]
    <2>1. "pkgs" \in Pile /\ "opts" \in Pile
      BY DEF Pile, StablePile
    <2>2. opts \in Seq(Item)
      <3>1. npkg + 1 \in 1..Len(pile[cur]["pkgs"])
        <4>1. npkg < Len(pile[cur]["pkgs"])
          BY <1>5, Zenon DEF PreparePackage
        <4>2. pile[cur]["pkgs"] \in Seq(Item)
          BY <1>0, <2>1 DEF TypeOK, Piles
        <4> QED
          BY <1>0, <4>1, <4>2
      <3>2. pile[cur]["pkgs"][npkg + 1] \in Item
        BY <1>0, <2>1, <3>1 DEF TypeOK, Piles
      <3> QED
        BY <3>2, CodeAssumption
    <2>3. \A n \in 0..Len(opts) : SubSeq(opts, 1, n) \in Seq(Item)
      BY <2>2
    <2>4. \A s \in Seq(Item) : pile[cur]["opts"] \o s \in Seq(Item)
      BY <2>1 DEF TypeOK, Piles
    <2> HIDE DEF opts
    <2>5. \A s \in Seq(Item) :
            [pile EXCEPT ![cur]["opts"] = @ \o s] \in [Context -> Piles]
      BY <2>1, <2>4, PileUpdate DEF TypeOK
    <2>6. \/ /\ pile' = [pile EXCEPT ![cur]["opts"] = @ \o opts]
             /\ npkg' = npkg + 1
             /\ UNCHANGED <<pc, res, flag>>
          \/ /\ \E n \in 0..Len(opts) :
                   pile' = [pile EXCEPT ![cur]["opts"] = @ \o SubSeq(opts, 1, n)]
             /\ PrepareFails
             /\ UNCHANGED npkg
      BY <1>5, Zenon DEF PreparePackage, opts
    <2>7. pile' \in [Context -> Piles]
      BY <2>2, <2>3, <2>5, <2>6
    <2>8. flag' \in [Context -> SUBSET Flag]
      BY <2>6, FlagUpdate DEF PrepareFails, PhaseFlag, TypeOK
    <2>9. pc' \in Pc /\ res' \in 0..2 /\ npkg' \in Nat
      BY <2>6, <1>0 DEF PrepareFails, Pc
    <2> QED
      <3>1. UNCHANGED <<mainVars, cur, out, code, tcc, objs, unit, syms, written>>
        BY <1>5, Zenon DEF PreparePackage
      <3> QED
        BY <2>7, <2>8, <2>9, <3>1 DEF TypeOK, mainVars
  <1>6. CASE PrepareFiles
    <2> DEFINE srcs == pile[cur]["srcs"]
    <2>1. srcs \in Seq(Item)
      BY DEF TypeOK, Piles, Pile, VolatilePile
    <2>2. \A n \in 0..Len(srcs) : SubSeq(srcs, 1, n) \in Seq(Item)
      BY <2>1
    <2> HIDE DEF srcs
    <2>3. \/ /\ objs' = [objs EXCEPT ![cur] = srcs]
             /\ tcc' = [tcc EXCEPT ![cur] = "ready"]
             /\ SetFlags({"PREPARED"})
             /\ pc' = "generate"
             /\ UNCHANGED res
          \/ /\ \E n \in 0..Len(srcs) : objs' = [objs EXCEPT ![cur] = SubSeq(srcs, 1, n)]
             /\ PrepareFails
             /\ UNCHANGED tcc
      BY <1>6 DEF PrepareFiles, srcs
    <2>4. objs' \in [Context -> Seq(Item)]
      BY <2>1, <2>2, <2>3 DEF TypeOK
    <2>5. flag' \in [Context -> SUBSET Flag]
      BY <2>3, FlagUpdate DEF PrepareFails, PhaseFlag
    <2>6. tcc' \in [Context -> TccState] /\ pc' \in Pc /\ res' \in 0..2
      BY <2>3, <1>0 DEF PrepareFails, Pc, TccState
    <2> QED
      BY <1>6, <2>4, <2>5, <2>6 DEF PrepareFiles, TypeOK, mainVars
  <1>7. CASE SkipPrepare
    BY <1>7 DEF SkipPrepare, TypeOK, Pc, chainVars, mainVars
  <1>8. ASSUME NEW next \in Pc, Generated(next)
        PROVE  pc' \in Pc /\ code' \in [Context -> Seq(Item)] /\ flag' \in [Context -> SUBSET Flag]
    <2>1. GenerateCode(pile[cur]) \in Seq(Item)
      BY GenerateType DEF TypeOK
    <2> QED
      BY <1>8, <2>1 DEF Generated, SetFlags, PhaseFlag, TypeOK, Pc
  <1>9. CASE Generate
    BY <1>8, <1>9 DEF Generate, TypeOK, Pc, mainVars
  <1>10. CASE SkipCompile
    BY <1>10 DEF SkipCompile, TypeOK, Pc, chainVars, mainVars
  <1>11. ASSUME NEW fs \in SUBSET PhaseFlag, Compiled(fs)
         PROVE  /\ flag' \in [Context -> SUBSET Flag]
                /\ unit' \in [Context -> Seq(Item)]
                /\ syms' \in [Context -> [Sym -> 0..MaxChain]]
                /\ tcc' \in [Context -> TccState]
    BY <1>11, SymTableType DEF Compiled, SetFlags, TypeOK, TccState
  <1>12. CASE CompileMemory
    BY <1>12, <1>11 DEF CompileMemory, PhaseFlag, TypeOK, Pc, mainVars
  <1>13. CASE CompileFile
    <2>1. {"COMPILED"} \in SUBSET PhaseFlag /\ Compiled({"COMPILED"})
      BY <1>13 DEF CompileFile, PhaseFlag
    <2>2. /\ flag' \in [Context -> SUBSET Flag] /\ unit' \in [Context -> Seq(Item)]
          /\ syms' \in [Context -> [Sym -> 0..MaxChain]] /\ tcc' \in [Context -> TccState]
      BY <2>1, <1>11
    <2>3. \/ written' = TRUE /\ pc' = "execute" /\ UNCHANGED res
          \/ res' = 1 /\ pc' = "result" /\ UNCHANGED written
      BY <1>13 DEF CompileFile
    <2>4. pc' \in Pc /\ res' \in 0..2
      BY <2>3, <1>0 DEF Pc
    <2>5. written' \in BOOLEAN
      BY <2>3, <1>0
    <2> QED
      BY <1>13, <2>2, <2>4, <2>5 DEF CompileFile, TypeOK, mainVars
  <1>14. CASE CompileFail
    BY <1>14 DEF CompileFail, TypeOK, Pc, TccState, mainVars
  <1>15. CASE SkipExecute
    BY <1>15 DEF SkipExecute, TypeOK, Pc, chainVars, mainVars
  <1>16. CASE Execute
    <2>1. flag' \in [Context -> SUBSET Flag]
      BY <1>16, FlagUpdate DEF Execute, PhaseFlag
    <2>2. pc' \in Pc /\ res' \in 0..2 /\ tcc' \in [Context -> TccState]
      BY <1>16, <1>0 DEF Execute, Pc, TccState
    <2> QED
      BY <1>16, <2>1, <2>2 DEF Execute, TypeOK, mainVars
  <1>17. CASE Return
    BY <1>17 DEF Return, SetFlags, PhaseFlag, TypeOK, Pc, mainVars
  <1>18. CASE Crash
    BY <1>18 DEF Crash, TypeOK, Pc, chainVars, mainVars
  <1>19. CASE Result
    BY <1>19 DEF Result, TypeOK, Pc, chainVars, fileVars
  <1>20. CASE ReadLine
    <2>1. CASE Chain
      <3>1. cur + 1 \in Context
        BY <2>1, BoundsAssumption DEF Chain, TypeOK, Context
      <3>2. /\ ChainFlags(flag[cur]) \in SUBSET Flag
            /\ ChainPiles(pile[cur]) \in Piles
            /\ NoSyms \in [Sym -> 0..MaxChain]
        BY ChainPilesType, BoundsAssumption DEF TypeOK, ChainFlags, NoSyms
      <3> QED
        BY <1>20, <2>1, <3>1, <3>2 DEF ReadLine, Chain, TypeOK, Pc, TccState, mainVars
    <2>2. CASE UNCHANGED <<cur, chainVars>>
      BY <1>20, <2>2 DEF ReadLine, TypeOK, Pc, chainVars, mainVars
    <2> QED
      BY <1>20, <2>1, <2>2 DEF ReadLine
  <1>21. CASE Eof
    BY <1>21 DEF Eof, TypeOK, Pc, chainVars, fileVars
  <1>22. CASE Idle
    BY <1>22 DEF Idle, TypeOK, Pc, chainVars, mainVars
  <1>23. CASE Dump
    BY <1>23, <1>8 DEF Dump, TypeOK, Pc, mainVars
  <1>24. CASE Quit
    BY <1>24 DEF Quit, TypeOK, Pc, chainVars, fileVars
  <1>25. ASSUME NEW p, NEW i, PushItem(p, i)
         PROVE  pile' \in [Context -> Piles]
    <2>1. p \in Pile /\ i \in Item
      BY <1>25, InputAssumption DEF PushItem, Pile, VolatilePile, StablePile
    <2>2. Append(pile[cur][p], i) \in Seq(Item)
      BY <2>1 DEF TypeOK, Piles
    <2>3. pile' = [pile EXCEPT ![cur][p] = Append(pile[cur][p], i)]
      BY <1>25, <2>1 DEF PushItem, TypeOK, Piles
    <2> QED
      BY <2>1, <2>2, <2>3, PileUpdate DEF TypeOK
  <1>26. CASE Push
    BY <1>26, <1>25 DEF Push, TypeOK, Pc, mainVars
  <1>27. CASE PushRun
    BY <1>27, <1>25 DEF PushRun, CallRun, TypeOK, Pc, fileVars
  <1>28. CASE RunPile
    BY <1>28 DEF RunPile, CallRun, TypeOK, Pc, chainVars, fileVars
  <1>29. CASE FreeContext
    <2>1. cur' \in Context
      BY <1>29, BoundsAssumption DEF FreeContext, TypeOK, Context
    <2> QED
      BY <1>29, <2>1 DEF FreeContext, TypeOK, Pc, chainVars, mainVars
  <1>30. CASE Terminated
    BY <1>30 DEF Terminated, TypeOK, vars, chainVars, fileVars
  <1>31. CASE UNCHANGED vars
    BY <1>31 DEF TypeOK, vars, chainVars, fileVars
  <1> QED
    BY <1>1, <1>2, <1>3, <1>4, <1>5, <1>6, <1>7, <1>9, <1>10, <1>12, <1>13, <1>14,
       <1>15, <1>16, <1>17, <1>18, <1>19, <1>20, <1>21, <1>22, <1>23, <1>24,
       <1>26, <1>27, <1>28, <1>29, <1>30, <1>31
    DEF Next, SystemStep, UserStep, MainStep, PrepareStep, CompileStep,
        ExecuteStep, CommandStep

\* Every reachable state is well typed, whatever the command line, the lines
\* entered, and the bounds.
THEOREM TypeCorrect == Spec => []TypeOK
  BY TypeInit, TypeNext, PTL DEF Spec

-----------------------------------------------------------------------------
(* Which phase a context is in, wherever the process is                    *)

\* Until options and defaults are applied there is only the root.
RootFirst ==
    /\ pc \in {"start", "setup"} => cur = 1
    /\ pc = "start" => flag[1] = {}

\* An output file inhibits execution, a memory compilation loads, and only
\* loaded code is executed, never under -n.
PhaseOrder ==
    \A k \in 1..cur :
        /\ out[k] => "NORUN" \in flag[k]
        /\ "COMPILED" \in flag[k] /\ ~out[k] => "LOADED" \in flag[k]
        /\ "EXECUTED" \in flag[k] => "LOADED" \in flag[k] /\ "NORUN" \notin flag[k]

\* The option -n is the same in every context.
NoRunShared == \A k \in 1..cur : "NORUN" \in flag[k] <=> "NORUN" \in flag[1]

\* Where the current context is worked on, it has not been loaded yet, and
\* where it is about to be executed, it has been compiled but not executed.
Freshness ==
    /\ pc \in {"start", "setup", "run", "packages", "generate", "compile", "command"}
         => ~Has("LOADED")
    /\ pc = "execute" => Has("COMPILED") /\ ~Has("EXECUTED")
    /\ pc = "running" => ~Has("NORUN")

Control == RootFirst /\ PhaseOrder /\ NoRunShared /\ Freshness /\ EarlierLoaded

\* The start of the process satisfies the control invariant.
LEMMA ControlInit == Init => Control
  BY BoundsAssumption
  DEF Init, Control, RootFirst, PhaseOrder, NoRunShared, Freshness, EarlierLoaded,
      Has, Context

\* Every step keeps the control invariant: one case per action.
LEMMA ControlNext == TypeOK /\ Control /\ [Next]_vars => Control'
  <1> SUFFICES ASSUME TypeOK, Control, [Next]_vars PROVE Control'
    OBVIOUS
  <1>0. /\ cur \in Nat /\ cur >= 1 /\ 1 \in Context /\ cur \in Context
        /\ \A k \in 1..cur : k \in Context
        /\ flag \in [Context -> SUBSET Flag] /\ out \in [Context -> BOOLEAN]
    BY BoundsAssumption DEF TypeOK, Context
  <1>1. CASE OptParse
    BY <1>1, <1>0, InputAssumption
    DEF OptParse, SetFlags, OptFlag, Invocation, Control, RootFirst, PhaseOrder,
        NoRunShared, Freshness, EarlierLoaded, Has
  <1>2. CASE Setup
    BY <1>2, <1>0
    DEF Setup, SetFlags, Control, RootFirst, PhaseOrder,
        NoRunShared, Freshness, EarlierLoaded, Has
  <1>3. CASE Done
    BY <1>3, <1>0
    DEF Done, chainVars, Control, RootFirst, PhaseOrder,
        NoRunShared, Freshness, EarlierLoaded, Has
  <1>4. CASE Result
    BY <1>4, <1>0
    DEF Result, chainVars, Control, RootFirst, PhaseOrder,
        NoRunShared, Freshness, EarlierLoaded, Has
  <1>5. CASE PrepareBegin
    BY <1>5, <1>0
    DEF PrepareBegin, Control, RootFirst, PhaseOrder,
        NoRunShared, Freshness, EarlierLoaded, Has
  <1>6. CASE PreparePackage
    <2>1. /\ pc = "packages" /\ cur' = cur /\ out' = out
          /\ \/ pc' = pc /\ flag' = flag
             \/ pc' = "result" /\ SetFlags({"PREPARED"})
      BY <1>6, PackageStep
    <2> QED
      BY <2>1, <1>0 DEF SetFlags, Control, RootFirst, PhaseOrder,
         NoRunShared, Freshness, EarlierLoaded, Has
  <1>7. CASE PrepareFiles
    BY <1>7, <1>0
    DEF PrepareFiles, PrepareFails, SetFlags, Control, RootFirst, PhaseOrder,
        NoRunShared, Freshness, EarlierLoaded, Has
  <1>8. CASE SkipPrepare
    BY <1>8, <1>0
    DEF SkipPrepare, chainVars, Control, RootFirst, PhaseOrder,
        NoRunShared, Freshness, EarlierLoaded, Has
  <1>9. CASE Generate
    BY <1>9, <1>0
    DEF Generate, Generated, SetFlags, Control, RootFirst, PhaseOrder,
        NoRunShared, Freshness, EarlierLoaded, Has
  <1>10. CASE SkipCompile
    BY <1>10, <1>0
    DEF SkipCompile, chainVars, Control, RootFirst, PhaseOrder,
        NoRunShared, Freshness, EarlierLoaded, Has
  <1>11. CASE CompileMemory
    BY <1>11, <1>0
    DEF CompileMemory, Compiled, SetFlags, Control, RootFirst, PhaseOrder,
        NoRunShared, Freshness, EarlierLoaded, Has
  <1>12. CASE CompileFile
    BY <1>12, <1>0
    DEF CompileFile, Compiled, SetFlags, Control, RootFirst, PhaseOrder,
        NoRunShared, Freshness, EarlierLoaded, Has
  <1>13. CASE CompileFail
    BY <1>13, <1>0
    DEF CompileFail, Control, RootFirst, PhaseOrder,
        NoRunShared, Freshness, EarlierLoaded, Has
  <1>14. CASE SkipExecute
    BY <1>14, <1>0
    DEF SkipExecute, chainVars, Control, RootFirst, PhaseOrder,
        NoRunShared, Freshness, EarlierLoaded, Has
  <1>15. CASE Execute
    BY <1>15, <1>0
    DEF Execute, SetFlags, Control, RootFirst, PhaseOrder,
        NoRunShared, Freshness, EarlierLoaded, Has
  <1>16. CASE Return
    BY <1>16, <1>0
    DEF Return, SetFlags, Control, RootFirst, PhaseOrder,
        NoRunShared, Freshness, EarlierLoaded, Has
  <1>17. CASE Crash
    BY <1>17, <1>0
    DEF Crash, chainVars, Control, RootFirst, PhaseOrder,
        NoRunShared, Freshness, EarlierLoaded, Has
  <1>18. CASE ReadLine
    <2>1. CASE NeedsNewContext
      <3>1. Chain /\ pc = "prompt" /\ pc' = "command" /\ "LOADED" \in flag[cur]
        BY <1>18, <2>1 DEF ReadLine, NeedsNewContext, Has
      <3>2. cur' = cur + 1 /\ cur + 1 \in Context
        BY <3>1, <1>0, BoundsAssumption DEF Chain, Context
      <3>3. /\ flag' = [flag EXCEPT ![cur + 1] = ChainFlags(flag[cur])]
            /\ out' = [out EXCEPT ![cur + 1] = FALSE]
        BY <3>1 DEF Chain
      <3>4. \A k \in 1..cur : k \in Context /\ k # cur + 1
        BY <1>0
      <3>5. \A k \in 1..cur : flag'[k] = flag[k] /\ out'[k] = out[k]
        BY <3>3, <3>4, <1>0
      <3>6. flag'[cur + 1] = ChainFlags(flag[cur]) /\ out'[cur + 1] = FALSE
        BY <3>2, <3>3, <1>0
      <3> QED
        BY <3>1, <3>2, <3>5, <3>6, <1>0 DEF Control, RootFirst, PhaseOrder, NoRunShared,
           Freshness, EarlierLoaded, ChainFlags, Has, Context
    <2>2. CASE ~NeedsNewContext /\ UNCHANGED <<cur, chainVars>>
      BY <1>18, <2>2, <1>0 DEF ReadLine, Control, RootFirst, PhaseOrder, NoRunShared,
         Freshness, EarlierLoaded, NeedsNewContext, Has, chainVars
    <2> QED
      BY <1>18, <2>1, <2>2 DEF ReadLine, NeedsNewContext
  <1>19. CASE Eof
    BY <1>19, <1>0
    DEF Eof, chainVars, Control, RootFirst, PhaseOrder,
        NoRunShared, Freshness, EarlierLoaded, Has
  <1>20. CASE Idle
    BY <1>20, <1>0
    DEF Idle, chainVars, Control, RootFirst, PhaseOrder,
        NoRunShared, Freshness, EarlierLoaded, Has
  <1>21. CASE Dump
    BY <1>21, <1>0
    DEF Dump, Generated, SetFlags, Control, RootFirst, PhaseOrder,
        NoRunShared, Freshness, EarlierLoaded, Has
  <1>22. CASE Quit
    BY <1>22, <1>0
    DEF Quit, chainVars, Control, RootFirst, PhaseOrder,
        NoRunShared, Freshness, EarlierLoaded, Has
  <1>23. CASE Push
    BY <1>23, <1>0
    DEF Push, Control, RootFirst, PhaseOrder,
        NoRunShared, Freshness, EarlierLoaded, Has
  <1>24. CASE PushRun
    BY <1>24, <1>0
    DEF PushRun, CallRun, Control, RootFirst, PhaseOrder,
        NoRunShared, Freshness, EarlierLoaded, Has
  <1>25. CASE RunPile
    BY <1>25, <1>0
    DEF RunPile, CallRun, chainVars, Control, RootFirst, PhaseOrder,
        NoRunShared, Freshness, EarlierLoaded, Has
  <1>26. CASE FreeContext
    BY <1>26, <1>0
    DEF FreeContext, chainVars, Control, RootFirst, PhaseOrder,
        NoRunShared, Freshness, EarlierLoaded, Has
  <1>27. CASE Terminated
    BY <1>27, <1>0
    DEF Terminated, vars, chainVars, Control, RootFirst, PhaseOrder,
        NoRunShared, Freshness, EarlierLoaded, Has
  <1>28. CASE UNCHANGED vars
    BY <1>28 DEF Control, RootFirst, PhaseOrder, NoRunShared, Freshness,
        EarlierLoaded, Has, vars, chainVars
  <1> QED
    BY <1>1, <1>2, <1>3, <1>4, <1>5, <1>6, <1>7, <1>8, <1>9, <1>10, <1>11,
       <1>12, <1>13, <1>14, <1>15, <1>16, <1>17, <1>18, <1>19, <1>20, <1>21,
       <1>22, <1>23, <1>24, <1>25, <1>26, <1>27, <1>28
    DEF Next, SystemStep, UserStep, MainStep, PrepareStep, CompileStep,
        ExecuteStep, CommandStep

\* cplr_execute runs at most once per context, whatever the lines and the
\* outcomes of earlier runs.
THEOREM ExecutedOnce == Spec => []RunsOnce
  <1>1. Init => TypeOK /\ Control
    BY TypeInit, ControlInit
  <1>2. TypeOK /\ Control /\ [Next]_vars => (TypeOK /\ Control)'
    BY TypeNext, ControlNext
  <1>3. Control => RunsOnce
    BY DEF Control, Freshness, RunsOnce
  <1> QED
    BY <1>1, <1>2, <1>3, PTL DEF Spec

\* Under -n no context of the session is ever executed.
THEOREM NothingRuns == Spec => []NoRunRespected
  <1>1. Init => TypeOK /\ Control
    BY TypeInit, ControlInit
  <1>2. TypeOK /\ Control /\ [Next]_vars => (TypeOK /\ Control)'
    BY TypeNext, ControlNext
  <1>3. TypeOK /\ Control => NoRunRespected
    BY BoundsAssumption DEF TypeOK, Context, Control, NoRunShared, PhaseOrder, Freshness,
       NoRunRespected, Has
  <1> QED
    BY <1>1, <1>2, <1>3, PTL DEF Spec

\* All contexts but the last are loaded.
THEOREM ChainIsLoaded == Spec => []EarlierLoaded
  <1>1. Init => TypeOK /\ Control
    BY TypeInit, ControlInit
  <1>2. TypeOK /\ Control /\ [Next]_vars => (TypeOK /\ Control)'
    BY TypeNext, ControlNext
  <1>3. Control => EarlierLoaded
    BY DEF Control
  <1> QED
    BY <1>1, <1>2, <1>3, PTL DEF Spec

-----------------------------------------------------------------------------
(* Loaded code                                                             *)

\* No step touches the code of a loaded context that stays in the chain: where
\* piles, objects, units or symbols are written, the current context is not
\* loaded, and a new context is written beyond the chain.
LEMMA LoadedFrame ==
    ASSUME TypeOK, Control, [Next]_vars,
           NEW k \in Context, k <= cur, k <= cur', "LOADED" \in flag[k]
    PROVE  /\ pile'[k] = pile[k] /\ objs'[k] = objs[k]
           /\ unit'[k] = unit[k] /\ syms'[k] = syms[k]
           /\ "LOADED" \in flag'[k]
  <1>a. /\ pc \in {"start", "setup", "run", "packages", "generate", "compile", "command"}
              => k # cur
        /\ pc \in {"start", "setup"} => cur = 1
    BY DEF Control, Freshness, RootFirst, Has
  <1>b. /\ cur \in Context /\ flag \in [Context -> SUBSET Flag]
        /\ pile \in [Context -> Piles] /\ objs \in [Context -> Seq(Item)]
        /\ unit \in [Context -> Seq(Item)] /\ syms \in [Context -> [Sym -> 0..MaxChain]]
    BY DEF TypeOK
  <1>c. k \in Nat /\ cur \in Nat /\ k >= 1
    BY <1>b, BoundsAssumption DEF Context
  <1>1. CASE OptParse
    BY <1>1, <1>a, <1>b, <1>c DEF OptParse, SetFlags, OptFlag, Invocation, RootFirst
  <1>2. CASE Setup
    BY <1>2, <1>a, <1>b, <1>c DEF Setup, Defaults, SetFlags, RootFirst
  <1>3. CASE Done
    BY <1>3, <1>a, <1>b, <1>c DEF Done, chainVars
  <1>4. CASE Result
    BY <1>4, <1>a, <1>b, <1>c DEF Result, chainVars
  <1>5. CASE PrepareBegin
    BY <1>5, <1>a, <1>b, <1>c DEF PrepareBegin
  <1>6. CASE PreparePackage
    BY <1>6, <1>a, <1>b, <1>c, PackageStep DEF SetFlags
  <1>7. CASE PrepareFiles
    BY <1>7, <1>a, <1>b, <1>c DEF PrepareFiles, PrepareFails, SetFlags
  <1>8. CASE SkipPrepare
    BY <1>8, <1>a, <1>b, <1>c DEF SkipPrepare, chainVars
  <1>9. CASE Generate
    BY <1>9, <1>a, <1>b, <1>c DEF Generate, Generated, SetFlags
  <1>10. CASE SkipCompile
    BY <1>10, <1>a, <1>b, <1>c DEF SkipCompile, chainVars
  <1>11. CASE CompileMemory
    BY <1>11, <1>a, <1>b, <1>c DEF CompileMemory, Compiled, SetFlags
  <1>12. CASE CompileFile
    BY <1>12, <1>a, <1>b, <1>c DEF CompileFile, Compiled, SetFlags
  <1>13. CASE CompileFail
    BY <1>13, <1>a, <1>b, <1>c DEF CompileFail
  <1>14. CASE SkipExecute
    BY <1>14, <1>a, <1>b, <1>c DEF SkipExecute, chainVars
  <1>15. CASE Execute
    BY <1>15, <1>a, <1>b, <1>c DEF Execute, SetFlags
  <1>16. CASE Return
    BY <1>16, <1>a, <1>b, <1>c DEF Return, SetFlags
  <1>17. CASE Crash
    BY <1>17, <1>a, <1>b, <1>c DEF Crash, chainVars
  <1>18. CASE ReadLine
    <2>1. CASE NeedsNewContext
      <3>1. Chain
        BY <1>18, <2>1 DEF ReadLine
      <3>2. cur' = cur + 1 /\ cur + 1 \in Context
        BY <3>1, <1>a, <1>b, <1>c, BoundsAssumption DEF Chain, Context
      <3> QED
        BY <3>1, <3>2, <1>a, <1>b, <1>c DEF Chain, ChainFlags
    <2>2. CASE ~NeedsNewContext
      BY <1>18, <2>2, <1>a, <1>b, <1>c DEF ReadLine, chainVars
    <2> QED
      BY <2>1, <2>2
  <1>19. CASE Eof
    BY <1>19, <1>a, <1>b, <1>c DEF Eof, chainVars
  <1>20. CASE Idle
    BY <1>20, <1>a, <1>b, <1>c DEF Idle, chainVars
  <1>21. CASE Dump
    BY <1>21, <1>a, <1>b, <1>c DEF Dump, Generated, SetFlags
  <1>22. CASE Quit
    BY <1>22, <1>a, <1>b, <1>c DEF Quit, chainVars
  <1>23. CASE Push
    BY <1>23, <1>a, <1>b, <1>c DEF Push, PushItem
  <1>24. CASE PushRun
    BY <1>24, <1>a, <1>b, <1>c DEF PushRun, PushItem, CallRun
  <1>25. CASE RunPile
    BY <1>25, <1>a, <1>b, <1>c DEF RunPile, CallRun, chainVars
  <1>26. CASE FreeContext
    BY <1>26, <1>a, <1>b, <1>c DEF FreeContext, chainVars
  <1>27. CASE Terminated
    BY <1>27, <1>a, <1>b, <1>c DEF Terminated, vars, chainVars
  <1>28. CASE UNCHANGED vars
    BY <1>28, <1>a, <1>b, <1>c DEF vars, chainVars
  <1> QED
    BY <1>1, <1>2, <1>3, <1>4, <1>5, <1>6, <1>7, <1>8, <1>9, <1>10, <1>11,
       <1>12, <1>13, <1>14, <1>15, <1>16, <1>17, <1>18, <1>19, <1>20, <1>21,
       <1>22, <1>23, <1>24, <1>25, <1>26, <1>27, <1>28
    DEF Next, SystemStep, UserStep, MainStep, PrepareStep, CompileStep,
        ExecuteStep, CommandStep

\* Only a compilation to memory loads a context, and only the current one.
LEMMA NewlyLoaded ==
    ASSUME TypeOK, Control, [Next]_vars,
           NEW k \in Context, k <= cur', "LOADED" \in flag'[k]
    PROVE  \/ k <= cur /\ "LOADED" \in flag[k]
           \/ k = cur /\ CompileMemory
  <1>0. /\ cur \in Context /\ k \in Nat /\ cur \in Nat /\ k >= 1
        /\ flag \in [Context -> SUBSET Flag] /\ InputAssumption
        /\ pc \in {"start", "setup"} => cur = 1
    BY BoundsAssumption, InputAssumption DEF TypeOK, Context, Control, RootFirst
  <1>1. CASE OptParse
    BY <1>1, <1>0 DEF OptParse, SetFlags, OptFlag, Invocation, RootFirst
  <1>2. CASE Setup
    BY <1>2, <1>0 DEF Setup, Defaults, SetFlags, RootFirst
  <1>3. CASE Done
    BY <1>3, <1>0 DEF Done, chainVars
  <1>4. CASE Result
    BY <1>4, <1>0 DEF Result, chainVars
  <1>5. CASE PrepareBegin
    BY <1>5, <1>0 DEF PrepareBegin
  <1>6. CASE PreparePackage
    <2>1. cur' = cur /\ (flag' = flag \/ SetFlags({"PREPARED"}))
      BY <1>6, PackageStep
    <2> QED
      BY <2>1, <1>0 DEF SetFlags
  <1>7. CASE PrepareFiles
    BY <1>7, <1>0 DEF PrepareFiles, PrepareFails, SetFlags
  <1>8. CASE SkipPrepare
    BY <1>8, <1>0 DEF SkipPrepare, chainVars
  <1>9. CASE Generate
    BY <1>9, <1>0 DEF Generate, Generated, SetFlags
  <1>10. CASE SkipCompile
    BY <1>10, <1>0 DEF SkipCompile, chainVars
  <1>11. CASE CompileMemory
    BY <1>11, <1>0 DEF CompileMemory, Compiled, SetFlags
  <1>12. CASE CompileFile
    BY <1>12, <1>0 DEF CompileFile, Compiled, SetFlags
  <1>13. CASE CompileFail
    BY <1>13, <1>0 DEF CompileFail
  <1>14. CASE SkipExecute
    BY <1>14, <1>0 DEF SkipExecute, chainVars
  <1>15. CASE Execute
    BY <1>15, <1>0 DEF Execute, SetFlags
  <1>16. CASE Return
    BY <1>16, <1>0 DEF Return, SetFlags
  <1>17. CASE Crash
    BY <1>17, <1>0 DEF Crash, chainVars
  <1>18. CASE ReadLine
    <2>1. CASE NeedsNewContext
      <3>1. Chain
        BY <1>18, <2>1 DEF ReadLine
      <3>2. cur' = cur + 1 /\ cur + 1 \in Context
        BY <3>1, <1>0, BoundsAssumption DEF Chain, Context
      <3> QED
        BY <3>1, <3>2, <1>0 DEF Chain, ChainFlags
    <2>2. CASE ~NeedsNewContext
      BY <1>18, <2>2, <1>0 DEF ReadLine, chainVars
    <2> QED
      BY <2>1, <2>2
  <1>19. CASE Eof
    BY <1>19, <1>0 DEF Eof, chainVars
  <1>20. CASE Idle
    BY <1>20, <1>0 DEF Idle, chainVars
  <1>21. CASE Dump
    BY <1>21, <1>0 DEF Dump, Generated, SetFlags
  <1>22. CASE Quit
    BY <1>22, <1>0 DEF Quit, chainVars
  <1>23. CASE Push
    BY <1>23, <1>0 DEF Push, PushItem
  <1>24. CASE PushRun
    BY <1>24, <1>0 DEF PushRun, PushItem, CallRun
  <1>25. CASE RunPile
    BY <1>25, <1>0 DEF RunPile, CallRun, chainVars
  <1>26. CASE FreeContext
    BY <1>26, <1>0 DEF FreeContext, chainVars
  <1>27. CASE Terminated
    BY <1>27, <1>0 DEF Terminated, vars, chainVars
  <1>28. CASE UNCHANGED vars
    BY <1>28, <1>0 DEF vars, chainVars
  <1> QED
    BY <1>1, <1>2, <1>3, <1>4, <1>5, <1>6, <1>7, <1>8, <1>9, <1>10, <1>11,
       <1>12, <1>13, <1>14, <1>15, <1>16, <1>17, <1>18, <1>19, <1>20, <1>21,
       <1>22, <1>23, <1>24, <1>25, <1>26, <1>27, <1>28
    DEF Next, SystemStep, UserStep, MainStep, PrepareStep, CompileStep,
        ExecuteStep, CommandStep

\* The loaded contexts of a session are never changed again.
THEOREM LoadedStays == Spec => LoadedIsFrozen
  <1>1. Init => TypeOK /\ Control
    BY TypeInit, ControlInit
  <1>2. TypeOK /\ Control /\ [Next]_vars => (TypeOK /\ Control)'
    BY TypeNext, ControlNext
  <1>3. TypeOK /\ Control /\ [Next]_vars =>
           [\A k \in Context : k <= cur /\ k <= cur' /\ "LOADED" \in flag[k] =>
               UNCHANGED <<pile[k], objs[k], unit[k], syms[k]>>]_vars
    BY LoadedFrame
  <1> QED
    BY <1>1, <1>2, <1>3, PTL DEF Spec, LoadedIsFrozen

\* The compiler is reached from the generator only.
LEMMA CompileEntry ==
    ASSUME [Next]_vars, pc' = "compile"
    PROVE  Generate \/ UNCHANGED vars
  <1>1. CASE OptParse
    BY <1>1 DEF OptParse
  <1>2. CASE Setup
    BY <1>2 DEF Setup
  <1>3. CASE Done
    BY <1>3 DEF Done
  <1>4. CASE Result
    BY <1>4 DEF Result
  <1>5. CASE PrepareBegin
    BY <1>5 DEF PrepareBegin
  <1>6. CASE PreparePackage
    BY <1>6, PackageStep
  <1>7. CASE PrepareFiles
    BY <1>7 DEF PrepareFiles, PrepareFails
  <1>8. CASE SkipPrepare
    BY <1>8 DEF SkipPrepare
  <1>9. CASE Generate
    BY <1>9 DEF Generate
  <1>10. CASE SkipCompile
    BY <1>10 DEF SkipCompile
  <1>11. CASE CompileMemory
    BY <1>11 DEF CompileMemory
  <1>12. CASE CompileFile
    BY <1>12 DEF CompileFile
  <1>13. CASE CompileFail
    BY <1>13 DEF CompileFail
  <1>14. CASE SkipExecute
    BY <1>14 DEF SkipExecute
  <1>15. CASE Execute
    BY <1>15 DEF Execute
  <1>16. CASE Return
    BY <1>16 DEF Return
  <1>17. CASE Crash
    BY <1>17 DEF Crash
  <1>18. CASE ReadLine
    BY <1>18 DEF ReadLine
  <1>19. CASE Eof
    BY <1>19 DEF Eof
  <1>20. CASE Idle
    BY <1>20 DEF Idle
  <1>21. CASE Dump
    BY <1>21 DEF Dump, Generated
  <1>22. CASE Quit
    BY <1>22 DEF Quit
  <1>23. CASE Push
    BY <1>23 DEF Push
  <1>24. CASE PushRun
    BY <1>24 DEF PushRun, CallRun
  <1>25. CASE RunPile
    BY <1>25 DEF RunPile, CallRun
  <1>26. CASE FreeContext
    BY <1>26 DEF FreeContext
  <1>27. CASE Terminated
    BY <1>27 DEF Terminated, vars
  <1>28. CASE UNCHANGED vars
    BY <1>28
  <1> QED
    BY <1>1, <1>2, <1>3, <1>4, <1>5, <1>6, <1>7, <1>8, <1>9, <1>10, <1>11,
       <1>12, <1>13, <1>14, <1>15, <1>16, <1>17, <1>18, <1>19, <1>20, <1>21,
       <1>22, <1>23, <1>24, <1>25, <1>26, <1>27, <1>28
    DEF Next, SystemStep, UserStep, MainStep, PrepareStep, CompileStep,
        ExecuteStep, CommandStep

\* The buffer about to be compiled is the code of the piles as they are.
CodeFresh == pc = "compile" => code[cur] = GenerateCode(pile[cur])

\* At the start nothing is compiled or loaded.
LEMMA PileInit == Init => CodeFresh /\ LoadedIsPile
  BY BoundsAssumption DEF Init, CodeFresh, LoadedIsPile, Context

\* A context loads the buffer just generated, and keeps it unchanged.
LEMMA PileNext ==
    TypeOK /\ Control /\ CodeFresh /\ LoadedIsPile /\ [Next]_vars
        => (CodeFresh /\ LoadedIsPile)'
  <1> SUFFICES ASSUME TypeOK, Control, CodeFresh, LoadedIsPile, [Next]_vars
               PROVE  CodeFresh' /\ LoadedIsPile'
    OBVIOUS
  <1>0. TypeOK'
    BY TypeNext
  <1>1. CodeFresh'
    <2> SUFFICES ASSUME pc' = "compile"
                 PROVE  code'[cur'] = (GenerateCode(pile[cur]))'
      BY DEF CodeFresh
    <2>1. CASE Generate
      <3>1. cur' = cur /\ pile' = pile /\ code'[cur] = GenerateCode(pile[cur])
        BY <2>1 DEF Generate, Generated, TypeOK
      <3> QED
        BY <3>1 DEF GenerateCode
    <2>2. CASE UNCHANGED vars
      BY <2>2 DEF CodeFresh, GenerateCode, vars, chainVars
    <2> QED
      BY <2>1, <2>2, CompileEntry
  <1>2. LoadedIsPile'
    <2> SUFFICES ASSUME NEW k \in (1..cur)', "LOADED" \in flag'[k]
                 PROVE  unit'[k] = (GenerateCode(pile[k]))'
      BY DEF LoadedIsPile
    <2>1. k \in Context /\ k <= cur' /\ k \in Nat /\ k >= 1
      BY <1>0, BoundsAssumption DEF TypeOK, Context
    <2>2. CASE k <= cur /\ "LOADED" \in flag[k]
      <3>1. pile'[k] = pile[k] /\ unit'[k] = unit[k]
        BY <2>1, <2>2, LoadedFrame
      <3>2. k \in 1..cur
        BY <2>1, <2>2, BoundsAssumption DEF TypeOK, Context
      <3>3. unit[k] = GenerateCode(pile[k])
        BY <2>2, <3>2, Zenon DEF LoadedIsPile
      <3> QED
        BY <3>1, <3>3 DEF GenerateCode
    <2>3. CASE k = cur /\ CompileMemory
      <3>1. unit'[k] = code[cur] /\ pile' = pile
        BY <2>3 DEF CompileMemory, Compiled, TypeOK
      <3>2. code[cur] = GenerateCode(pile[cur])
        BY <2>3 DEF CompileMemory, CodeFresh
      <3> QED
        BY <2>3, <3>1, <3>2 DEF GenerateCode
    <2> QED
      BY <2>1, <2>2, <2>3, NewlyLoaded
  <1> QED
    BY <1>1, <1>2

\* What was loaded is what was pushed, in every context of the session.
THEOREM LoadedCode == Spec => []LoadedIsPile
  <1>1. Init => TypeOK /\ Control /\ CodeFresh /\ LoadedIsPile
    BY TypeInit, ControlInit, PileInit
  <1>2. TypeOK /\ Control /\ CodeFresh /\ LoadedIsPile /\ [Next]_vars
            => (TypeOK /\ Control /\ CodeFresh /\ LoadedIsPile)'
    BY TypeNext, ControlNext, PileNext
  <1> QED
    BY <1>1, <1>2, PTL DEF Spec

-----------------------------------------------------------------------------
(* Names                                                                   *)

\* A loaded context and everything before it is loaded, so it keeps its program.
LEMMA ProgramFrame ==
    ASSUME TypeOK, Control, [Next]_vars,
           NEW k \in Context, k <= cur, k <= cur', "LOADED" \in flag[k],
           NEW j \in 1..k
    PROVE  NamesIn(Defs, Program(j))' = NamesIn(Defs, Program(j))
  <1>0. cur \in Nat /\ cur' \in Nat /\ k \in Nat /\ j \in Nat
    <2>1. TypeOK'
      BY TypeNext
    <2> QED
      BY <2>1, BoundsAssumption DEF TypeOK, Context
  <1>1. j \in Context /\ j <= cur /\ j <= cur'
    BY <1>0, BoundsAssumption DEF Context
  <1>2. "LOADED" \in flag[j]
    BY BoundsAssumption DEF Control, EarlierLoaded, TypeOK, Context
  <1>3. objs'[j] = objs[j] /\ unit'[j] = unit[j]
    BY <1>1, <1>2, LoadedFrame
  <1> QED
    BY <1>3 DEF Program, NamesIn

\* At the start nothing is loaded.
LEMMA LatestInit == Init => LatestDefinition
  BY BoundsAssumption DEF Init, LatestDefinition, Context

\* A context that loads takes its own definitions, or those of the context
\* before it, which are the latest by the hypothesis.
LEMMA LatestNext ==
    TypeOK /\ Control /\ LatestDefinition /\ [Next]_vars => LatestDefinition'
  <1> SUFFICES ASSUME TypeOK, Control, LatestDefinition, [Next]_vars,
                      NEW k \in (1..cur)', NEW s \in Sym, "LOADED" \in flag'[k]
               PROVE  Latest(syms[k][s], k, s)'
    BY DEF LatestDefinition
  <1>0. TypeOK'
    BY TypeNext
  <1>1. k \in Context /\ k <= cur' /\ k \in Nat /\ k >= 1
    BY <1>0, BoundsAssumption DEF TypeOK, Context
  <1>2. CASE k <= cur /\ "LOADED" \in flag[k]
    <2>1. syms'[k] = syms[k]
      BY <1>1, <1>2, LoadedFrame
    <2>2. Latest(syms[k][s], k, s)
      BY <1>1, <1>2, BoundsAssumption DEF LatestDefinition, TypeOK, Context
    <2>3. \A j \in 1..k : Defines(j, s)' <=> Defines(j, s)
      BY <1>1, <1>2, ProgramFrame DEF Defines
    <2>4. syms[k][s] \in Nat
      BY <1>1, BoundsAssumption DEF TypeOK
    <2> QED
      BY <1>1, <2>1, <2>2, <2>3, <2>4 DEF Latest
  <1>3. CASE k = cur /\ CompileMemory
    <2> DEFINE own == NamesIn(Defs, objs[cur] \o code[cur])
    <2>1. cur' = cur /\ syms'[k] = SymTable
      BY <1>1, <1>3 DEF CompileMemory, Compiled, TypeOK
    <2>2. Defines(k, s)' <=> s \in own
      BY <1>1, <1>3 DEF Defines, Program, NamesIn, CompileMemory, Compiled, TypeOK
    <2>3. syms'[k][s] = IF s \in own THEN k
                        ELSE IF k > 1 /\ s \notin Hidden THEN syms[k - 1][s]
                        ELSE 0
      BY <1>3, <2>1 DEF SymTable
    <2> HIDE DEF own
    <2>4. CASE s \in own
      BY <1>1, <2>2, <2>3, <2>4 DEF Latest
    <2>5. CASE s \notin own /\ k > 1
      <3>1. k - 1 \in Context /\ k - 1 \in 1..cur /\ "LOADED" \in flag[k - 1] /\ k - 1 <= cur'
        BY <1>1, <1>3, <2>1, <2>5, BoundsAssumption DEF Control, EarlierLoaded, Context
      <3>2. Latest(syms[k - 1][s], k - 1, s)
        BY <3>1 DEF LatestDefinition
      <3>3. \A j \in 1..(k - 1) : Defines(j, s)' <=> Defines(j, s)
        BY <3>1, ProgramFrame, BoundsAssumption DEF Defines, Context
      <3>4. syms[k - 1][s] \in Nat
        BY <3>1, BoundsAssumption DEF TypeOK
      <3>5. CASE s \in Hidden
        <4>1. syms'[k][s] = 0
          BY <2>3, <2>5, <3>5
        <4>2. \A j \in 1..k : Defines(j, s)' => j < k
          BY <1>1, <2>2, <2>5
        <4> QED
          BY <4>1, <4>2, <3>5 DEF Latest
      <3>6. CASE s \notin Hidden
        <4>1. syms'[k][s] = syms[k - 1][s]
          BY <2>3, <2>5, <3>6
        <4>2. ~Defines(k, s)'
          BY <2>2, <2>5
        <4> QED
          BY <1>1, <3>2, <3>3, <3>4, <3>6, <4>1, <4>2 DEF Latest
      <3> QED
        BY <3>5, <3>6
    <2>6. CASE s \notin own /\ k = 1
      <3>1. syms'[k][s] = 0 /\ ~Defines(k, s)'
        BY <2>2, <2>3, <2>6
      <3> QED
        BY <2>6, <3>1 DEF Latest
    <2> QED
      BY <1>1, <2>4, <2>5, <2>6
  <1> QED
    BY <1>1, <1>2, <1>3, NewlyLoaded

\* However long the session, a loaded context resolves every name to its
\* latest definition.
THEOREM NamesAreLatest == Spec => []LatestDefinition
  <1>1. Init => TypeOK /\ Control /\ LatestDefinition
    BY TypeInit, ControlInit, LatestInit
  <1>2. TypeOK /\ Control /\ LatestDefinition /\ [Next]_vars
            => (TypeOK /\ Control /\ LatestDefinition)'
    BY TypeNext, ControlNext, LatestNext
  <1> QED
    BY <1>1, <1>2, PTL DEF Spec

-----------------------------------------------------------------------------
(* How the chain moves                                                     *)

\* The chain grows behind a loaded context, and shrinks once the session is
\* closed; a closed session stays closed.
LEMMA ChainMoves ==
    ASSUME [Next]_vars
    PROVE  /\ \/ cur' = cur
              \/ Chain /\ "LOADED" \in flag[cur]
              \/ pc = "free" /\ cur' = cur - 1
           /\ ~SessionOpen => ~SessionOpen'
  <1> USE DEF SessionOpen
  <1>1. CASE OptParse
    BY <1>1 DEF OptParse
  <1>2. CASE Setup
    BY <1>2 DEF Setup
  <1>3. CASE Done
    BY <1>3 DEF Done
  <1>4. CASE Result
    BY <1>4 DEF Result
  <1>5. CASE PrepareBegin
    BY <1>5 DEF PrepareBegin
  <1>6. CASE PreparePackage
    BY <1>6, PackageStep
  <1>7. CASE PrepareFiles
    BY <1>7 DEF PrepareFiles, PrepareFails
  <1>8. CASE SkipPrepare
    BY <1>8 DEF SkipPrepare
  <1>9. CASE Generate
    BY <1>9 DEF Generate
  <1>10. CASE SkipCompile
    BY <1>10 DEF SkipCompile
  <1>11. CASE CompileMemory
    BY <1>11 DEF CompileMemory
  <1>12. CASE CompileFile
    BY <1>12 DEF CompileFile
  <1>13. CASE CompileFail
    BY <1>13 DEF CompileFail
  <1>14. CASE SkipExecute
    BY <1>14 DEF SkipExecute
  <1>15. CASE Execute
    BY <1>15 DEF Execute
  <1>16. CASE Return
    BY <1>16 DEF Return
  <1>17. CASE Crash
    BY <1>17 DEF Crash
  <1>18. CASE ReadLine
    BY <1>18 DEF ReadLine, NeedsNewContext, Has
  <1>19. CASE Eof
    BY <1>19 DEF Eof
  <1>20. CASE Idle
    BY <1>20 DEF Idle
  <1>21. CASE Dump
    BY <1>21 DEF Dump
  <1>22. CASE Quit
    BY <1>22 DEF Quit
  <1>23. CASE Push
    BY <1>23 DEF Push
  <1>24. CASE PushRun
    BY <1>24 DEF PushRun, CallRun
  <1>25. CASE RunPile
    BY <1>25 DEF RunPile, CallRun
  <1>26. CASE FreeContext
    BY <1>26 DEF FreeContext
  <1>27. CASE Terminated
    BY <1>27 DEF Terminated, vars
  <1>28. CASE UNCHANGED vars
    BY <1>28 DEF vars
  <1> QED
    BY <1>1, <1>2, <1>3, <1>4, <1>5, <1>6, <1>7, <1>8, <1>9, <1>10, <1>11,
       <1>12, <1>13, <1>14, <1>15, <1>16, <1>17, <1>18, <1>19, <1>20, <1>21,
       <1>22, <1>23, <1>24, <1>25, <1>26, <1>27, <1>28
    DEF Next, SystemStep, UserStep, MainStep, PrepareStep, CompileStep,
        ExecuteStep, CommandStep

-----------------------------------------------------------------------------
(* Source files                                                            *)

\* No context but the root has source files, on its pile or in its compiler.
NoSources == \A k \in 2..cur : pile[k]["srcs"] = <<>> /\ objs[k] = <<>>

\* Nothing the user can push is a source file.
LEMMA PushedPile ==
    ASSUME TypeOK, NEW p, NEW i, PushItem(p, i), NEW k \in Context
    PROVE  pile'[k]["srcs"] = pile[k]["srcs"]
  <1>1. p \in {"tlds", "tlfs", "befs", "stms", "afts"}
    BY InputAssumption DEF PushItem
  <1>2. p \in Pile /\ p # "srcs" /\ "srcs" \in Pile
    BY <1>1 DEF Pile, StablePile, VolatilePile
  <1> QED
    BY <1>2 DEF PushItem, TypeOK, Piles

\* A chained context without source files gets none: only the command line
\* brings any, and a preparation takes those on the pile.
LEMMA SourcesFrame ==
    ASSUME TypeOK, Control, [Next]_vars, NEW k \in 2..cur,
           pile[k]["srcs"] = <<>>, objs[k] = <<>>
    PROVE  pile'[k]["srcs"] = <<>> /\ objs'[k] = <<>>
  <1>t. /\ cur \in Context /\ pile \in [Context -> Piles]
        /\ objs \in [Context -> Seq(Item)]
    BY DEF TypeOK
  <1>a. /\ k \in Context /\ k \in Nat /\ k >= 2 /\ k <= cur /\ cur \in Context
        /\ pile \in [Context -> Piles] /\ objs \in [Context -> Seq(Item)]
    BY <1>t, BoundsAssumption DEF Context
  <1>b. "srcs" \in Pile /\ "opts" \in Pile /\ "incs" \in Pile
    BY DEF Pile, StablePile, VolatilePile
  <1>c. pc \in {"start", "setup"} => cur = 1
    BY DEF Control, RootFirst
  <1>1. CASE OptParse
    BY <1>1, <1>a, <1>c DEF OptParse
  <1>2. CASE Setup
    BY <1>2, <1>a, <1>c DEF Setup
  <1>3. CASE PreparePackage
    <2>1. objs' = objs /\ \E s : pile' = [pile EXCEPT ![cur]["opts"] = @ \o s]
      BY <1>3, PackageStep
    <2> QED
      BY <2>1, <1>a, <1>b DEF Piles
  <1>4. CASE PrepareFiles
    <2>1. \A n \in 0..Len(<<>>) : SubSeq(<<>>, 1, n) = <<>>
      OBVIOUS
    <2> QED
      BY <1>4, <1>a, <2>1 DEF PrepareFiles
  <1>5. CASE ReadLine
    <2>1. CASE Chain
      <3>1. k # cur + 1
        BY <1>a, BoundsAssumption DEF Context
      <3> QED
        BY <2>1, <3>1, <1>a DEF Chain
    <2>2. CASE UNCHANGED <<cur, chainVars>>
      BY <2>2 DEF chainVars
    <2> QED
      BY <1>5, <2>1, <2>2 DEF ReadLine
  <1>6. CASE Push
    BY <1>6, <1>a, PushedPile DEF Push
  <1>7. CASE PushRun
    BY <1>7, <1>a, PushedPile DEF PushRun
  <1>8. CASE UNCHANGED <<pile, objs>>
    BY <1>8
  <1>9. Generate \/ Dump \/ CompileMemory \/ CompileFile \/ CompileFail \/ Return
          \/ PrepareBegin \/ Execute => UNCHANGED <<pile, objs>>
    BY DEF Generate, Dump, CompileMemory, CompileFile, CompileFail, Return,
       PrepareBegin, Execute
  <1>10. SkipPrepare \/ SkipCompile \/ SkipExecute \/ Crash \/ Idle \/ Done \/ Result
          \/ Eof \/ Quit \/ RunPile \/ FreeContext => UNCHANGED <<pile, objs>>
    BY DEF SkipPrepare, SkipCompile, SkipExecute, Crash, Idle, Done, Result,
       Eof, Quit, RunPile, FreeContext, chainVars
  <1>11. Terminated \/ UNCHANGED vars => UNCHANGED <<pile, objs>>
    BY DEF Terminated, vars, chainVars
  <1> QED
    BY <1>1, <1>2, <1>3, <1>4, <1>5, <1>6, <1>7, <1>8, <1>9, <1>10, <1>11
    DEF Next, SystemStep, UserStep, MainStep, PrepareStep, CompileStep,
        ExecuteStep, CommandStep

\* A chained context starts without source files and prepares none.
LEMMA SourcesNext ==
    TypeOK /\ Control /\ NoSources /\ [Next]_vars => NoSources'
  <1> SUFFICES ASSUME TypeOK, Control, NoSources, [Next]_vars, NEW k \in (2..cur)'
               PROVE  pile'[k]["srcs"] = <<>> /\ objs'[k] = <<>>
    BY DEF NoSources
  <1>a. TypeOK'
    BY TypeNext
  <1>0. /\ k \in Context /\ k \in Nat /\ k >= 2 /\ k <= cur'
        /\ cur \in Nat /\ cur >= 1 /\ cur' \in Nat /\ cur \in Context
    BY <1>a, BoundsAssumption DEF TypeOK, Context
  <1>1. CASE k \in 2..cur
    BY <1>1, SourcesFrame DEF NoSources
  <1>2. CASE k \notin 2..cur
    <2>1. k > cur /\ cur' > cur
      BY <1>0, <1>2
    <2>2. Chain
      BY <1>0, <2>1, ChainMoves
    <2>3. k = cur + 1
      BY <1>0, <2>1, <2>2 DEF Chain
    <2>4. pile'[k] = ChainPiles(pile[cur]) /\ objs'[k] = <<>>
      BY <1>0, <2>2, <2>3 DEF Chain, TypeOK
    <2> QED
      BY <2>4 DEF ChainPiles, Pile, VolatilePile
  <1> QED
    BY <1>1, <1>2

\* A source file of the command line is linked once, into the root.
THEOREM SourcesInRoot == Spec => []SourcesOnce
  <1>1. Init => TypeOK /\ Control /\ NoSources
    BY TypeInit, ControlInit DEF Init, NoSources
  <1>2. TypeOK /\ Control /\ NoSources /\ [Next]_vars => (TypeOK /\ Control /\ NoSources)'
    BY TypeNext, ControlNext, SourcesNext
  <1>3. NoSources => SourcesOnce
    BY DEF NoSources, SourcesOnce
  <1> QED
    BY <1>1, <1>2, <1>3, PTL DEF Spec

-----------------------------------------------------------------------------
(* Errors                                                                  *)

\* Wrong code is never in a loaded context.
LoadedIsRight ==
    \A k \in 1..cur : "LOADED" \in flag[k] =>
        \A i \in DOMAIN unit[k] : unit[k][i] \notin Broken

\* What is loaded was accepted by the compiler, and stays as it was.
LEMMA RightNext ==
    TypeOK /\ Control /\ LoadedIsRight /\ [Next]_vars => LoadedIsRight'
  <1> SUFFICES ASSUME TypeOK, Control, LoadedIsRight, [Next]_vars,
                      NEW k \in (1..cur)', "LOADED" \in flag'[k]
               PROVE  \A i \in DOMAIN unit'[k] : unit'[k][i] \notin Broken
    BY DEF LoadedIsRight
  <1>0. TypeOK'
    BY TypeNext
  <1>1. k \in Context /\ k <= cur' /\ k \in Nat /\ k >= 1
    BY <1>0, BoundsAssumption DEF TypeOK, Context
  <1>2. CASE k <= cur /\ "LOADED" \in flag[k]
    <2>1. unit'[k] = unit[k]
      BY <1>1, <1>2, LoadedFrame
    <2>2. k \in 1..cur
      BY <1>1, <1>2, BoundsAssumption DEF TypeOK, Context
    <2> QED
      BY <1>2, <2>1, <2>2 DEF LoadedIsRight
  <1>3. CASE k = cur /\ CompileMemory
    <2>1. unit'[k] = code[cur] /\ Compilable
      BY <1>3 DEF CompileMemory, Compiled, TypeOK
    <2> QED
      BY <2>1 DEF Compilable, Accepts
  <1> QED
    BY <1>1, <1>2, <1>3, NewlyLoaded

\* A line the compiler refuses keeps its context from being left, in any session.
THEOREM ErrorsStick == Spec => ErrorIsSticky
  <1>1. Init => TypeOK /\ Control /\ CodeFresh /\ LoadedIsPile /\ LoadedIsRight
    BY TypeInit, ControlInit, PileInit, BoundsAssumption DEF Init, LoadedIsRight, Context
  <1>2. TypeOK /\ Control /\ CodeFresh /\ LoadedIsPile /\ LoadedIsRight /\ [Next]_vars
            => (TypeOK /\ Control /\ CodeFresh /\ LoadedIsPile /\ LoadedIsRight)'
    BY TypeNext, ControlNext, PileNext, RightNext
  <1>3. ASSUME TypeOK, LoadedIsPile, LoadedIsRight, [Next]_vars
        PROVE  [\A k \in Context : k = cur /\ cur' > cur =>
                   ToSet(GenerateCode(pile[k])) \cap Broken = {}]_vars
    <2>1. SUFFICES ASSUME cur' > cur
                   PROVE  ToSet(GenerateCode(pile[cur])) \cap Broken = {}
      OBVIOUS
    <2>2. cur \in 1..cur /\ cur \in Nat
      BY <1>3, BoundsAssumption DEF TypeOK, Context
    <2>3. "LOADED" \in flag[cur]
      BY <1>3, <2>1, <2>2, ChainMoves
    <2>4. unit[cur] = GenerateCode(pile[cur])
      BY <1>3, <2>2, <2>3 DEF LoadedIsPile
    <2>5. \A i \in DOMAIN unit[cur] : unit[cur][i] \notin Broken
      BY <1>3, <2>2, <2>3 DEF LoadedIsRight
    <2> QED
      BY <2>4, <2>5 DEF ToSet
  <1> QED
    BY <1>1, <1>2, <1>3, PTL DEF Spec, ErrorIsSticky

-----------------------------------------------------------------------------
(* Declarations                                                            *)

\* A sequence keeps its prefixes when it grows.
LEMMA PrefixGrows ==
    ASSUME NEW S, NEW s \in Seq(S), NEW t \in Seq(S), IsPrefix(s, t), NEW x \in S
    PROVE  IsPrefix(s, Append(t, x))
  BY DEF IsPrefix

\* No step takes declarations from the last of several contexts.
LEMMA DeclarationsFrame ==
    ASSUME TypeOK, Control, [Next]_vars, cur # 1
    PROVE  LET d == pile[cur]["tlds"]
           IN  pile'[cur]["tlds"] = d \/ \E x \in Item : pile'[cur]["tlds"] = Append(d, x)
  <1>a. /\ cur \in Context /\ cur \in Nat /\ cur + 1 # cur
        /\ pile \in [Context -> Piles] /\ "tlds" \in Pile /\ "opts" \in Pile
        /\ pc \notin {"start", "setup"}
    BY BoundsAssumption
    DEF TypeOK, Context, Pile, StablePile, VolatilePile, Control, RootFirst
  <1>1. ASSUME NEW p, NEW x, PushItem(p, x)
        PROVE  LET d == pile[cur]["tlds"]
               IN  pile'[cur]["tlds"] = d \/ (pile'[cur]["tlds"] = Append(d, x) /\ x \in Item)
    <2>1. p \in Pile /\ x \in Item /\ pile' = [pile EXCEPT ![cur][p] = Append(@, x)]
      BY <1>1, InputAssumption DEF PushItem, Pile, StablePile, VolatilePile
    <2> QED
      BY <1>a, <2>1 DEF Piles
  <1>2. CASE OptParse \/ Setup
    BY <1>2, <1>a DEF OptParse, Setup
  <1>3. CASE PreparePackage
    <2>1. \E s : pile' = [pile EXCEPT ![cur]["opts"] = @ \o s]
      BY <1>3, PackageStep
    <2> QED
      BY <2>1, <1>a DEF Piles
  <1>4. CASE ReadLine
    <2>1. CASE Chain
      BY <1>a, <2>1 DEF Chain
    <2>2. CASE UNCHANGED <<cur, chainVars>>
      BY <2>2 DEF chainVars
    <2> QED
      BY <1>4, <2>1, <2>2 DEF ReadLine
  <1>5. CASE Push
    BY <1>5, <1>1 DEF Push
  <1>6. CASE PushRun
    BY <1>6, <1>1 DEF PushRun
  <1>7. CASE UNCHANGED pile
    BY <1>7
  <1>8. Generate \/ Dump \/ CompileMemory \/ CompileFile \/ CompileFail \/ Return
          \/ PrepareBegin \/ PrepareFiles \/ Execute => UNCHANGED pile
    BY DEF Generate, Dump, CompileMemory, CompileFile, CompileFail, Return,
       PrepareBegin, PrepareFiles, Execute
  <1>9. SkipPrepare \/ SkipCompile \/ SkipExecute \/ Crash \/ Idle \/ Done \/ Result
          \/ Eof \/ Quit \/ RunPile \/ FreeContext => UNCHANGED pile
    BY DEF SkipPrepare, SkipCompile, SkipExecute, Crash, Idle, Done, Result,
       Eof, Quit, RunPile, FreeContext, chainVars
  <1>10. Terminated \/ UNCHANGED vars => UNCHANGED pile
    BY DEF Terminated, vars, chainVars
  <1> QED
    BY <1>2, <1>3, <1>4, <1>5, <1>6, <1>7, <1>8, <1>9, <1>10
    DEF Next, SystemStep, UserStep, MainStep, PrepareStep, CompileStep,
        ExecuteStep, CommandStep

\* Earlier contexts are frozen, the last one grows, and a new one begins with the
\* declarations of the last.
LEMMA DeclarationsNext ==
    TypeOK /\ Control /\ DeclarationsKept /\ [Next]_vars => DeclarationsKept'
  <1> SUFFICES ASSUME TypeOK, Control, DeclarationsKept, [Next]_vars, NEW k \in (2..cur)'
               PROVE  IsPrefix(pile'[k - 1]["tlds"], pile'[k]["tlds"])
    BY DEF DeclarationsKept
  <1>0. TypeOK'
    BY TypeNext
  <1>1. /\ k \in Context /\ k - 1 \in Context /\ k \in Nat /\ k >= 2 /\ k <= cur'
        /\ cur \in Nat /\ cur' \in Nat /\ cur \in Context
    BY <1>0, BoundsAssumption DEF TypeOK, Context
  <1>2. \A j \in Context : pile[j]["tlds"] \in Seq(Item)
    BY DEF TypeOK, Piles, Pile, StablePile, VolatilePile
  <1>3. \A j \in Context : j < cur /\ j <= cur' => pile'[j] = pile[j]
    <2> SUFFICES ASSUME NEW j \in Context, j < cur, j <= cur'
                 PROVE  pile'[j] = pile[j]
      OBVIOUS
    <2>1. j \in 1..(cur - 1) /\ j <= cur
      BY <1>1, BoundsAssumption DEF Context
    <2>2. "LOADED" \in flag[j]
      BY <2>1 DEF Control, EarlierLoaded
    <2> QED
      BY <2>1, <2>2, LoadedFrame
  <1>4. CASE k < cur
    <2>1. pile'[k] = pile[k] /\ pile'[k - 1] = pile[k - 1] /\ k \in 2..cur
      BY <1>1, <1>3, <1>4
    <2> QED
      BY <2>1 DEF DeclarationsKept
  <1>5. CASE k = cur
    <2>1. pile'[k - 1] = pile[k - 1] /\ k \in 2..cur /\ cur # 1
      BY <1>1, <1>3, <1>5
    <2>2. IsPrefix(pile[k - 1]["tlds"], pile[k]["tlds"])
      BY <2>1 DEF DeclarationsKept
    <2>3. \/ pile'[k]["tlds"] = pile[k]["tlds"]
          \/ \E x \in Item : pile'[k]["tlds"] = Append(pile[k]["tlds"], x)
      BY <1>5, <2>1, DeclarationsFrame
    <2> QED
      BY <1>1, <1>2, <2>1, <2>2, <2>3, PrefixGrows
  <1>6. CASE k > cur
    <2>1. Chain /\ cur' = cur + 1
      BY <1>1, <1>6, ChainMoves DEF Chain
    <2>2. k = cur + 1 /\ k - 1 = cur
      BY <1>1, <1>6, <2>1
    <2>3. pile'[k] = ChainPiles(pile[cur]) /\ pile'[k - 1] = pile[cur]
      BY <1>1, <2>1, <2>2 DEF Chain, TypeOK
    <2>4. pile'[k]["tlds"] = pile[cur]["tlds"]
      BY <2>3 DEF ChainPiles, Pile, StablePile, VolatilePile
    <2> QED
      BY <1>1, <1>2, <2>3, <2>4 DEF IsPrefix
  <1> QED
    BY <1>1, <1>4, <1>5, <1>6

\* Over any number of contexts, declarations are never lost nor reordered.
THEOREM DeclarationsReachAll == Spec => []DeclarationsKept
  <1>1. Init => TypeOK /\ Control /\ DeclarationsKept
    BY TypeInit, ControlInit DEF Init, DeclarationsKept
  <1>2. TypeOK /\ Control /\ DeclarationsKept /\ [Next]_vars
            => (TypeOK /\ Control /\ DeclarationsKept)'
    BY TypeNext, ControlNext, DeclarationsNext
  <1> QED
    BY <1>1, <1>2, PTL DEF Spec

-----------------------------------------------------------------------------
(* The exit status                                                         *)

\* The root is compiled from all its piles, and the output is written.
Built ==
    /\ unit[1] = GenerateCode(pile[1]) /\ objs[1] = pile[1]["srcs"]
    /\ out[1] => written

\* Everything that was asked for was done.
AllDone ==
    /\ Built
    /\ "NORUN" \notin flag[1] => "FINISHED" \in flag[1] /\ tcc[1] = "relocated"

\* How far a run without an interactor is, phase by phase.
BatchPhase ==
    /\ pc \in {"run", "start", "setup"} => {"PREPARED", "COMPILED"} \cap flag[1] = {}
    /\ pc \in {"packages", "generate", "compile"} => "COMPILED" \notin flag[1]
    /\ pc \in {"generate", "compile"} => objs[1] = pile[1]["srcs"]
    /\ pc \in {"execute", "running"} => Built
    /\ pc = "running" => tcc[1] = "relocated"
    /\ pc = "result" /\ res = 0 => AllDone
    /\ pc \in {"done", "exit"} /\ ret = 0 /\ "PREPARED" \in flag[1] => AllDone

Alone == cur = 1 /\ caller = "main" /\ pc \notin {"prompt", "command", "free"}

BatchInv ==
    /\ pc \in {"start", "setup"} => Alone /\ BatchPhase
    /\ "INTERACTIVE" \notin flag[1] => Alone /\ BatchPhase

\* After the set-up flags of the root are only added.
LEMMA RootFlags ==
    ASSUME TypeOK, Next
    PROVE  \/ OptParse \/ Setup \/ Terminated
           \/ flag[1] \subseteq flag'[1] /\ pc' \notin {"start", "setup"}
  <1>t. /\ 1 \in Context /\ flag \in [Context -> SUBSET Flag] /\ cur \in Context
        /\ cur \in Nat /\ cur >= 1
    BY BoundsAssumption DEF TypeOK, Context
  <1>1. ASSUME NEW fs, SetFlags(fs)
        PROVE  flag[1] \subseteq flag'[1]
    BY <1>t, <1>1 DEF SetFlags
  <1>2. CASE Done \/ Result \/ SkipPrepare \/ SkipCompile \/ SkipExecute \/ Crash \/ Idle
             \/ Eof \/ Quit \/ RunPile \/ FreeContext
    BY <1>2 DEF Done, Result, SkipPrepare, SkipCompile, SkipExecute, Crash, Idle, Eof, Quit,
       RunPile, CallRun, FreeContext, chainVars
  <1>3. CASE PrepareBegin \/ CompileFail \/ Push \/ PushRun
    BY <1>3 DEF PrepareBegin, CompileFail, Push, PushRun, CallRun
  <1>4. CASE PreparePackage
    BY <1>1, <1>4, PackageStep
  <1>5. CASE PrepareFiles
    BY <1>1, <1>5 DEF PrepareFiles, PrepareFails
  <1>6. CASE Generate \/ Dump
    BY <1>1, <1>6 DEF Generate, Dump, Generated
  <1>7. CASE CompileMemory \/ CompileFile
    BY <1>1, <1>7 DEF CompileMemory, CompileFile, Compiled
  <1>8. CASE Execute \/ Return
    BY <1>1, <1>8 DEF Execute, Return
  <1>9. CASE ReadLine
    <2>1. CASE Chain
      BY <1>t, <1>9, <2>1 DEF Chain, ReadLine
    <2>2. CASE UNCHANGED <<cur, chainVars>>
      BY <1>9, <2>2 DEF ReadLine, chainVars
    <2> QED
      BY <1>9, <2>1, <2>2 DEF ReadLine
  <1> QED
    BY <1>2, <1>3, <1>4, <1>5, <1>6, <1>7, <1>8, <1>9
    DEF Next, SystemStep, UserStep, MainStep, PrepareStep, CompileStep,
        ExecuteStep, CommandStep

\* The phases of a run without an interactor, one after the other; each leaves what
\* the next one builds on.
LEMMA BatchPhases ==
    ASSUME TypeOK, CodeFresh, Alone, BatchPhase, Next,
           pc \notin {"start", "setup"}, "INTERACTIVE" \notin flag[1]
    PROVE  Alone' /\ BatchPhase'
  <1>t. /\ 1 \in Context /\ flag \in [Context -> SUBSET Flag] /\ pile \in [Context -> Piles]
        /\ objs \in [Context -> Seq(Item)] /\ unit \in [Context -> Seq(Item)]
        /\ tcc \in [Context -> TccState] /\ out \in [Context -> BOOLEAN]
        /\ cur = 1 /\ caller = "main" /\ pc \notin {"prompt", "command", "free"}
    BY BoundsAssumption DEF TypeOK, Context, Alone
  <1>1. CASE Done
    BY <1>t, <1>1 DEF Done, chainVars, Alone, BatchPhase, AllDone, Built, GenerateCode
  <1>2. CASE Result
    <2>1. pc = "result" /\ pc' = "done" /\ (ret' = 0 => res = 0)
          /\ UNCHANGED <<caller, cur, chainVars, written>>
      BY <1>t, <1>2 DEF Result, Has, fileVars
    <2> QED
      BY <1>t, <2>1 DEF chainVars, Alone, BatchPhase, AllDone, Built, GenerateCode
  <1>3. CASE PrepareBegin
    BY <1>t, <1>3 DEF PrepareBegin, mainVars, Alone, BatchPhase
  <1>4. CASE PreparePackage
    <2>1. /\ pc = "packages" /\ UNCHANGED <<cur, caller>>
          /\ \/ pc' = "packages" /\ flag' = flag
             \/ pc' = "result" /\ res' = 1
      BY <1>4, Zenon DEF PreparePackage, PrepareFails, mainVars
    <2> QED
      BY <1>t, <2>1 DEF Alone, BatchPhase
  <1>5. CASE PrepareFiles
    <2>1. /\ pc = "packages" /\ UNCHANGED <<cur, caller, pile>>
          /\ flag'[1] = flag[1] \cup {"PREPARED"}
          /\ \/ pc' = "generate" /\ objs'[1] = pile[1]["srcs"]
             \/ pc' = "result" /\ res' = 1
      BY <1>t, <1>5 DEF PrepareFiles, PrepareFails, mainVars, SetFlags
    <2> QED
      BY <1>t, <2>1 DEF Alone, BatchPhase
  <1>6. CASE Generate
    <2>1. /\ pc = "generate" /\ pc' \in {"compile", "dead"}
          /\ UNCHANGED <<cur, caller, pile, objs>>
          /\ flag'[1] = flag[1] \cup {"GENERATED"} \/ flag'[1] = flag[1]
      BY <1>t, <1>6 DEF Generate, Generated, mainVars, SetFlags
    <2> QED
      BY <1>t, <2>1 DEF Alone, BatchPhase
  <1>7. CASE CompileMemory \/ CompileFile
    <2>1. /\ pc = "compile" /\ UNCHANGED <<cur, caller, pile, objs, out>>
          /\ unit'[1] = code[1]
          /\ \/ pc' = "execute" /\ (out[1] => written')
             \/ pc' = "result" /\ res' = 1
      BY <1>t, <1>7 DEF CompileMemory, CompileFile, Compiled, mainVars
    <2>2. code[1] = GenerateCode(pile[1]) /\ objs[1] = pile[1]["srcs"]
      BY <1>t, <2>1 DEF CodeFresh, BatchPhase
    <2>3. pc' = "execute" => Built'
      BY <2>1, <2>2 DEF Built, GenerateCode
    <2> QED
      BY <1>t, <2>1, <2>3 DEF Alone, BatchPhase
  <1>8. CASE CompileFail
    BY <1>t, <1>8 DEF CompileFail, mainVars, Alone, BatchPhase
  <1>9. CASE SkipExecute
    BY <1>t, <1>9 DEF SkipExecute, Has, mainVars, chainVars, Alone, BatchPhase, AllDone, Built,
       GenerateCode
  <1>10. CASE Execute
    <2>1. /\ pc = "execute" /\ UNCHANGED <<cur, caller, pile, objs, out, unit, written>>
          /\ \/ pc' = "running" /\ tcc'[1] = "relocated"
             \/ pc' = "result" /\ res' = 1
      BY <1>t, <1>10 DEF Execute, mainVars
    <2>2. Built'
      BY <2>1 DEF Built, GenerateCode, BatchPhase
    <2> QED
      BY <1>t, <2>1, <2>2 DEF Alone, BatchPhase
  <1>11. CASE Return
    <2>1. /\ pc = "running" /\ pc' = "result"
          /\ UNCHANGED <<cur, caller, pile, objs, out, unit, written, tcc>>
          /\ "FINISHED" \in flag'[1]
      BY <1>t, <1>11 DEF Return, mainVars, SetFlags
    <2>2. Built' /\ tcc'[1] = "relocated"
      BY <2>1 DEF Built, GenerateCode, BatchPhase
    <2> QED
      BY <1>t, <2>1, <2>2 DEF Alone, BatchPhase, AllDone
  <1>12. CASE Crash
    BY <1>t, <1>12 DEF Crash, mainVars, Alone, BatchPhase
  <1>13. CASE SkipPrepare \/ SkipCompile
    BY <1>t, <1>13 DEF SkipPrepare, SkipCompile, Has, BatchPhase
  <1>14. CASE Terminated
    BY <1>t, <1>14 DEF Terminated, vars, chainVars, fileVars, Alone, BatchPhase, AllDone, Built,
       GenerateCode
  <1>15. ~(OptParse \/ Setup \/ ReadLine \/ Eof \/ CommandStep \/ FreeContext)
    BY <1>t DEF OptParse, Setup, ReadLine, Eof, CommandStep, Idle, Dump, Quit, Push, PushRun,
       RunPile, FreeContext
  <1> QED
    BY <1>1, <1>2, <1>3, <1>4, <1>5, <1>6, <1>7, <1>8, <1>9, <1>10, <1>11, <1>12, <1>13,
       <1>14, <1>15
    DEF Next, SystemStep, UserStep, MainStep, PrepareStep, CompileStep, ExecuteStep

\* With an interactor nothing is claimed; without one the phases keep the invariant.
LEMMA BatchNext ==
    ASSUME TypeOK, CodeFresh, BatchInv, [Next]_vars
    PROVE  BatchInv'
  <1>t. 1 \in Context /\ flag \in [Context -> SUBSET Flag]
    BY BoundsAssumption DEF TypeOK, Context
  <1>1. CASE OptParse
    <2>1. pc = "start" /\ cur = 1 /\ caller = "main" /\ BatchPhase /\ UNCHANGED <<cur, caller>>
      BY <1>1 DEF OptParse, BatchInv, Alone
    <2>2. {"PREPARED", "COMPILED"} \cap flag'[1] = {}
      BY <1>1, <1>t, <2>1, InputAssumption
      DEF OptParse, SetFlags, Invocation, OptFlag, BatchPhase
    <2>3. pc' \in {"setup", "done"}
      BY <1>1 DEF OptParse
    <2> QED
      BY <2>1, <2>2, <2>3 DEF BatchInv, Alone, BatchPhase
  <1>2. CASE Setup
    <2>1. pc = "setup" /\ Alone /\ {"PREPARED", "COMPILED"} \cap flag[1] = {}
          /\ UNCHANGED <<cur, caller>>
      BY <1>2 DEF Setup, BatchInv, BatchPhase
    <2>2. PICK auto \in BOOLEAN :
              /\ SetFlags(IF auto THEN {"INTERACTIVE"} ELSE {})
              /\ pc' = IF ~Empty(pile[1]) THEN "run"
                       ELSE IF auto \/ Has("INTERACTIVE") THEN "prompt" ELSE "done"
      BY <1>2 DEF Setup
    <2>3. flag'[1] = flag[1] \cup IF auto THEN {"INTERACTIVE"} ELSE {}
      BY <1>t, <2>1, <2>2 DEF SetFlags, Alone
    <2>4. {"PREPARED", "COMPILED"} \cap flag'[1] = {}
      BY <2>1, <2>3
    <2>5. "INTERACTIVE" \notin flag'[1] => pc' \in {"run", "done"}
      BY <2>1, <2>2, <2>3 DEF Has, Alone
    <2>6. pc' \notin {"start", "setup"}
      BY <2>2
    <2> QED
      BY <2>1, <2>4, <2>5, <2>6 DEF BatchInv, Alone, BatchPhase
  <1>3. CASE UNCHANGED vars
    BY <1>3, Zenon DEF vars, chainVars, fileVars, BatchInv, Alone, BatchPhase, AllDone, Built,
       GenerateCode
  <1>4. CASE Next /\ ~OptParse /\ ~Setup /\ ~UNCHANGED vars
    <2>1. pc \notin {"start", "setup"}
      BY <1>4, Zenon
      DEF Next, SystemStep, UserStep, MainStep, PrepareStep, CompileStep, ExecuteStep,
          CommandStep, Done, Result, PrepareBegin, PreparePackage, PrepareFiles, SkipPrepare,
          Generate, SkipCompile, CompileMemory, CompileFile, CompileFail, SkipExecute,
          Execute, Return, Crash, ReadLine, Eof, Idle, Dump, Quit, Push, PushRun, RunPile,
          FreeContext, Terminated
    <2>2. flag[1] \subseteq flag'[1] /\ pc' \notin {"start", "setup"}
      BY <1>4, RootFlags DEF Terminated
    <2>3. CASE "INTERACTIVE" \in flag[1]
      BY <2>2, <2>3 DEF BatchInv
    <2>4. CASE "INTERACTIVE" \notin flag[1]
      BY <1>4, <2>1, <2>2, <2>4, BatchPhases DEF BatchInv
    <2> QED
      BY <2>3, <2>4
  <1> QED
    BY <1>1, <1>2, <1>3, <1>4

\* Exit status 0 of a run without an interactor means that all was done.
THEOREM StatusIsHonest == Spec => []BatchSuccess
  <1>1. Init => TypeOK /\ Control /\ CodeFresh /\ LoadedIsPile /\ BatchInv
    <2>1. Init => BatchInv
      BY BoundsAssumption DEF Init, BatchInv, Alone, BatchPhase, Context
    <2> QED
      BY <2>1, TypeInit, ControlInit, PileInit
  <1>2. TypeOK /\ Control /\ CodeFresh /\ LoadedIsPile /\ BatchInv /\ [Next]_vars
            => (TypeOK /\ Control /\ CodeFresh /\ LoadedIsPile /\ BatchInv)'
    BY TypeNext, ControlNext, PileNext, BatchNext
  <1>3. BatchInv => BatchSuccess
    BY DEF BatchInv, BatchPhase, AllDone, Built, BatchSuccess
  <1> QED
    BY <1>1, <1>2, <1>3, PTL DEF Spec

-----------------------------------------------------------------------------
(* The session a user sees                                                 *)

\* The walk of cplr_find_syms ends at the current context or the one before.
FindSymsOK == FindSyms = IF Has("LOADED") THEN cur ELSE cur - 1

LEMMA FindSymsValue == TypeOK /\ Control => FindSymsOK
  <1> SUFFICES ASSUME TypeOK, Control PROVE FindSymsOK
    OBVIOUS
  <1> DEFINE S == {0} \cup { k \in 1..cur : "LOADED" \in flag[k] }
             m == IF Has("LOADED") THEN cur ELSE cur - 1
  <1>1. cur \in Nat /\ cur >= 1
    BY BoundsAssumption DEF TypeOK, Context
  <1>2. \A k \in 1..(cur - 1) : "LOADED" \in flag[k]
    BY DEF Control, EarlierLoaded
  <1>3. m \in S /\ S \subseteq Nat
    BY <1>1, <1>2 DEF Has
  <1>4. \A x \in S : m >= x
    BY <1>1 DEF Has
  <1> HIDE DEF S, m
  <1>5. \A x \in S : (\A y \in S : x >= y) => x = m
    BY <1>1, <1>3, <1>4
  <1>6. (CHOOSE x \in S : \A y \in S : x >= y) = m
    <2> DEFINE c == CHOOSE x \in S : \A y \in S : x >= y
    <2>1. c \in S /\ \A y \in S : c >= y
      BY <1>3, <1>4
    <2> HIDE DEF c
    <2>2. c = m
      BY <2>1, <1>5
    <2> QED
      BY <2>2 DEF c
  <1> QED
    BY <1>6 DEF FindSymsOK, FindSyms, Max, S, m

\* Compiling to memory is the loading of a unit.
LEMMA CompileLoads ==
    ASSUME TypeOK, Control, [Next]_vars, CompileMemory
    PROVE  Session!Load(NamesIn(Defs, objs[cur] \o code[cur]) \cap Sym)
  <1> DEFINE own == NamesIn(Defs, objs[cur] \o code[cur])
  <1>0. cur \in Nat /\ cur >= 1 /\ cur \in Context
    BY BoundsAssumption DEF TypeOK, Context
  <1>1. SessionOpen /\ SessionOpen'
    BY DEF SessionOpen, CompileMemory
  <1>2. cur' = cur /\ "LOADED" \in flag'[cur] /\ "LOADED" \notin flag[cur]
    BY <1>0 DEF CompileMemory, Compiled, SetFlags, Control, Freshness, Has, TypeOK
  <1>3. SessionLoaded = cur - 1
    BY <1>1, <1>2, FindSymsValue DEF FindSymsOK, SessionLoaded, Has
  <1>4. TypeOK' /\ Control'
    BY TypeNext, ControlNext
  <1>5. FindSymsOK'
    BY <1>4, FindSymsValue, PTL
  <1>6. SessionLoaded' = cur
    BY <1>1, <1>2, <1>5 DEF FindSymsOK, SessionLoaded, Has
  <1>7. SessionEnv' = SymTable
    BY <1>0, <1>2, <1>6 DEF SessionEnv, CompileMemory, Compiled, TypeOK
  <1>8. SymTable = [s \in Sym |-> CASE s \in own \cap Sym -> SessionLoaded + 1
                                    [] s \in Hidden \ (own \cap Sym) -> 0
                                    [] s \notin (own \cap Sym) \cup Hidden -> SessionEnv[s]]
    <2> SUFFICES ASSUME NEW s \in Sym
                 PROVE  (IF s \in own THEN cur
                         ELSE IF cur > 1 /\ s \notin Hidden THEN syms[cur - 1][s] ELSE 0)
                        = CASE s \in own \cap Sym -> SessionLoaded + 1
                            [] s \in Hidden \ (own \cap Sym) -> 0
                            [] s \notin (own \cap Sym) \cup Hidden -> SessionEnv[s]
      BY DEF SymTable
    <2> HIDE DEF own
    <2>1. CASE s \in own
      BY <1>0, <1>3, <2>1
    <2>2. CASE s \notin own /\ s \in Hidden
      BY <2>2
    <2>3. CASE s \notin own /\ s \notin Hidden
      <3>1. SessionEnv[s] = IF cur > 1 THEN syms[cur - 1][s] ELSE 0
        BY <1>0, <1>3 DEF SessionEnv, NoSyms
      <3> QED
        BY <2>3, <3>1
    <2> QED
      BY <2>1, <2>2, <2>3
  <1> QED
    BY <1>0, <1>1, <1>3, <1>7, <1>8, <1>6 DEF Session!Load

\* Every step of the process loads one unit, closes the session, or stutters.
LEMMA SessionStep ==
    TypeOK /\ Control /\ [Next]_vars => [Session!Next]_Session!sessionVars
  <1> SUFFICES ASSUME TypeOK, Control, [Next]_vars
               PROVE  [Session!Next]_Session!sessionVars
    OBVIOUS
  <1>1. TypeOK' /\ Control'
    BY TypeNext, ControlNext
  <1>2. FindSymsOK /\ FindSymsOK'
    BY <1>1, FindSymsValue, PTL
  <1>0. cur \in Nat /\ cur >= 1 /\ cur \in Context
    BY BoundsAssumption DEF TypeOK, Context
  <1>3. CASE CompileMemory
    BY <1>3, CompileLoads DEF Session!Next
  <1>4. CASE SessionOpen /\ ~SessionOpen'
    BY <1>4 DEF SessionLoaded, SessionEnv, NoSyms, Session!Next, Session!Close,
       Session!Nothing
  <1>5. CASE ~SessionOpen
    <2>1. ~SessionOpen'
      BY <1>5, ChainMoves
    <2>2. SessionOpen' = SessionOpen
      BY <1>5, <2>1 DEF SessionOpen
    <2>3. SessionLoaded' = SessionLoaded /\ SessionEnv' = SessionEnv
      BY <1>5, <2>1 DEF SessionLoaded, SessionEnv, NoSyms
    <2> QED
      BY <2>2, <2>3 DEF Session!sessionVars
  <1>6. CASE SessionOpen /\ SessionOpen' /\ ~CompileMemory
    <2>1. FindSyms = IF "LOADED" \in flag[cur] THEN cur ELSE cur - 1
      BY <1>2 DEF FindSymsOK, Has
    <2>2. FindSyms' = IF "LOADED" \in flag'[cur'] THEN cur' ELSE cur' - 1
      BY <1>2 DEF FindSymsOK, Has
    <2>3. cur' = cur \/ (cur' = cur + 1 /\ "LOADED" \in flag[cur])
      BY <1>6, ChainMoves DEF SessionOpen, Chain
    <2>4. FindSyms' = FindSyms
      <3>1. CASE cur' = cur
        <4>1. "LOADED" \in flag'[cur] <=> "LOADED" \in flag[cur]
          <5>1. ASSUME "LOADED" \in flag[cur] PROVE "LOADED" \in flag'[cur]
            BY <1>0, <3>1, <5>1, LoadedFrame
          <5>2. ASSUME "LOADED" \in flag'[cur] PROVE "LOADED" \in flag[cur]
            BY <1>0, <1>6, <3>1, <5>2, NewlyLoaded
          <5> QED
            BY <5>1, <5>2
        <4> QED
          BY <2>1, <2>2, <3>1, <4>1
      <3>2. CASE cur' = cur + 1 /\ "LOADED" \in flag[cur]
        <4>1. cur + 1 \in Context
          BY <1>1, <3>2 DEF TypeOK
        <4>2. "LOADED" \notin flag'[cur + 1]
          BY <1>0, <1>6, <3>2, <4>1, NewlyLoaded
        <4> QED
          BY <1>0, <2>1, <2>2, <3>2, <4>2
      <3> QED
        BY <2>3, <3>1, <3>2
    <2>5. FindSyms # 0 => syms'[FindSyms] = syms[FindSyms]
      <3> SUFFICES ASSUME FindSyms # 0 PROVE syms'[FindSyms] = syms[FindSyms]
        OBVIOUS
      <3>1. FindSyms \in Context /\ FindSyms <= cur /\ FindSyms <= cur'
        BY <1>0, <2>1, <2>3, BoundsAssumption DEF Context
      <3>2. "LOADED" \in flag[FindSyms]
        BY <1>0, <2>1, <3>1, BoundsAssumption DEF Control, EarlierLoaded, Context
      <3> QED
        BY <3>1, <3>2, LoadedFrame
    <2> QED
      BY <1>6, <2>4, <2>5 DEF SessionLoaded, SessionEnv, NoSyms, Session!sessionVars
  <1> QED
    BY <1>3, <1>4, <1>5, <1>6

\* The process starts with an open and empty session.
LEMMA SessionInit == Init => Session!Init
  <1> SUFFICES ASSUME Init PROVE Session!Init
    OBVIOUS
  <1>1. SessionOpen
    BY DEF Init, SessionOpen
  <1>2. FindSyms = 0
    BY TypeInit, ControlInit, FindSymsValue, BoundsAssumption DEF FindSymsOK, Init, Has, Context
  <1> QED
    BY <1>1, <1>2 DEF SessionLoaded, SessionEnv, NoSyms, Session!Init, Session!Nothing

\* The chain of contexts implements the abstract session: one environment that
\* grows by the definitions of each loaded unit and ends with the session.
THEOREM ImplementsSession == Spec => SessionSpec
  <1>1. Init => TypeOK /\ Control
    BY TypeInit, ControlInit
  <1>2. TypeOK /\ Control /\ [Next]_vars => (TypeOK /\ Control)'
    BY TypeNext, ControlNext
  <1> QED
    BY <1>1, <1>2, SessionInit, SessionStep, PTL DEF Spec, SessionSpec, Session!Spec

-----------------------------------------------------------------------------
(* Success                                                                 *)

\* How far the current context is, as long as the session goes on: which compiler it
\* has in a phase, or once a phase is flagged.
Phases ==
    SessionOpen =>
        /\ pc \in {"packages", "generate", "compile", "execute"} \/ Has("PREPARED")
             => tcc[cur] # "none"
        /\ pc = "running" => tcc[cur] = "relocated" /\ Has("COMPILED")
        /\ pc = "result" /\ res = 0 =>
              Has("COMPILED") /\ (Has("NORUN") \/ tcc[cur] = "relocated")

\* Every step keeps it: one case per group of actions that leave alike.
LEMMA PhasesNext ==
    ASSUME TypeOK, Control, Phases, [Next]_vars
    PROVE  Phases'
  <1> SUFFICES ASSUME SessionOpen'
               PROVE  Phases'
    BY DEF Phases
  <1>0. /\ cur \in Context /\ 1 \in Context /\ flag \in [Context -> SUBSET Flag]
        /\ tcc \in [Context -> TccState]
    BY BoundsAssumption DEF TypeOK, Context
  <1>1. CASE OptParse
    <2>1. cur = 1 /\ cur' = 1 /\ flag[1] = {} /\ tcc' = tcc
      BY <1>1 DEF OptParse, Control, RootFirst
    <2>2. "PREPARED" \notin flag'[1]
      BY <1>0, <1>1, <2>1, InputAssumption DEF OptParse, SetFlags, Invocation, OptFlag
    <2>3. pc' \in {"setup", "done"}
      BY <1>1 DEF OptParse
    <2> QED
      BY <2>1, <2>2, <2>3 DEF Phases, Has
  <1>2. CASE Setup
    <2>1. /\ cur' = cur /\ tcc' = tcc /\ pc' \in {"run", "prompt", "done"}
          /\ \E fs \in SUBSET {"INTERACTIVE"} : SetFlags(fs)
      BY <1>2 DEF Setup
    <2>2. "PREPARED" \in flag'[cur] <=> "PREPARED" \in flag[cur]
      BY <1>0, <2>1 DEF SetFlags
    <2>3. SessionOpen
      BY <1>2 DEF Setup, SessionOpen
    <2> QED
      BY <2>1, <2>2, <2>3 DEF Phases, Has
  <1>3. CASE PrepareBegin
    <2>1. cur' = cur /\ tcc'[cur] = "partial" /\ pc' = "packages"
      BY <1>0, <1>3 DEF PrepareBegin, mainVars
    <2> QED
      BY <2>1 DEF Phases
  <1>4. CASE PreparePackage
    <2>1. pc = "packages" /\ cur' = cur /\ tcc' = tcc
          /\ (pc' = "packages" \/ (pc' = "result" /\ res' = 1))
      BY <1>4, Zenon DEF PreparePackage, PrepareFails
    <2> QED
      BY <2>1 DEF Phases, SessionOpen
  <1>5. CASE PrepareFiles
    <2>1. /\ pc = "packages" /\ cur' = cur
          /\ tcc'[cur] = "ready" \/ tcc'[cur] = tcc[cur]
          /\ pc' = "generate" \/ (pc' = "result" /\ res' = 1)
      BY <1>0, <1>5 DEF PrepareFiles, PrepareFails
    <2> QED
      BY <2>1 DEF Phases, SessionOpen
  <1>6. CASE Generate \/ Dump
    <2>1. /\ pc \in {"generate", "command"} /\ cur' = cur /\ tcc' = tcc
          /\ pc' = (IF pc = "generate" THEN "compile" ELSE "prompt") \/ pc' = "dead"
          /\ "PREPARED" \in flag'[cur] <=> "PREPARED" \in flag[cur]
      BY <1>0, <1>6 DEF Generate, Dump, Generated, SetFlags
    <2> QED
      BY <2>1 DEF Phases, SessionOpen, Has
  <1>7. CASE CompileMemory \/ CompileFile \/ CompileFail
    <2>1. /\ pc = "compile" /\ cur' = cur /\ tcc'[cur] \in {"compiled", "tainted"}
          /\ pc' = "execute" \/ (pc' = "result" /\ res' = 1)
      BY <1>0, <1>7 DEF CompileMemory, CompileFile, CompileFail, Compiled
    <2> QED
      BY <2>1 DEF Phases
  <1>8. CASE SkipExecute
    <2>1. /\ cur' = cur /\ tcc' = tcc /\ flag' = flag /\ pc' = "result" /\ pc = "execute"
          /\ "NORUN" \in flag[cur] /\ "COMPILED" \in flag[cur]
      BY <1>8 DEF SkipExecute, chainVars, Control, Freshness, Has
    <2> QED
      BY <2>1 DEF Phases, SessionOpen, Has
  <1>9. CASE Execute
    <2>1. /\ cur' = cur /\ "COMPILED" \in flag'[cur] /\ pc = "execute"
          /\ \/ pc' = "running" /\ tcc'[cur] = "relocated"
             \/ pc' = "result" /\ res' = 1 /\ tcc' = tcc
      BY <1>0, <1>9 DEF Execute, SetFlags, Control, Freshness, Has
    <2> QED
      BY <2>1 DEF Phases, SessionOpen, Has
  <1>10. CASE Return
    <2>1. /\ cur' = cur /\ flag'[cur] = flag[cur] \cup {"FINISHED"} /\ pc = "running"
          /\ pc' = "result" /\ tcc' = tcc
      BY <1>0, <1>10 DEF Return, SetFlags
    <2> QED
      BY <2>1 DEF Phases, SessionOpen, Has
  <1>11. CASE ReadLine /\ Has("LOADED")
    <2>1. Chain /\ pc' = "command"
      BY <1>11 DEF ReadLine, NeedsNewContext
    <2>2. PICK k : k = cur + 1 /\ k = cur'
      BY <2>1 DEF Chain
    <2>3. k \in Context
      BY <1>0, <2>1, <2>2, BoundsAssumption DEF Chain, Context
    <2>4. "PREPARED" \notin flag'[k]
      BY <1>0, <2>1, <2>2, <2>3 DEF Chain, ChainFlags
    <2> QED
      BY <2>1, <2>2, <2>4 DEF Phases, Has
  <1>12. CASE ReadLine /\ ~Has("LOADED")
    <2>1. cur' = cur /\ tcc' = tcc /\ flag' = flag /\ pc' = "command" /\ pc = "prompt"
      BY <1>12 DEF ReadLine, NeedsNewContext, chainVars
    <2> QED
      BY <2>1 DEF Phases, SessionOpen, Has
  <1>13. CASE Push \/ PushRun
    <2>1. /\ cur' = cur /\ tcc' = tcc /\ flag' = flag /\ pc' \in {"prompt", "run"}
          /\ pc = "command"
      BY <1>13 DEF Push, PushRun, CallRun
    <2> QED
      BY <2>1 DEF Phases, SessionOpen, Has
  <1>14. CASE Result \/ SkipPrepare \/ SkipCompile \/ Idle \/ RunPile
    <2>1. /\ cur' = cur /\ tcc' = tcc /\ flag' = flag
          /\ pc \in {"result", "run", "generate", "command"}
          /\ \/ pc' \in {"prompt", "done", "run"}
             \/ pc' = "generate" /\ Has("PREPARED")
             \/ pc' = "execute" /\ pc = "generate"
      BY <1>14 DEF Result, SkipPrepare, SkipCompile, Idle, RunPile, CallRun, chainVars
    <2> QED
      BY <2>1 DEF Phases, SessionOpen, Has
  <1>15. Crash \/ Quit \/ Eof \/ FreeContext \/ Done \/ Terminated => ~SessionOpen'
    BY DEF Crash, Quit, Eof, FreeContext, Done, Terminated, vars, SessionOpen
  <1>16. CASE UNCHANGED vars
    BY <1>16 DEF vars, chainVars, Phases, SessionOpen, Has
  <1> QED
    BY <1>1, <1>2, <1>3, <1>4, <1>5, <1>6, <1>7, <1>8, <1>9, <1>10, <1>11, <1>12, <1>13,
       <1>14, <1>15, <1>16
    DEF Next, SystemStep, UserStep, MainStep, PrepareStep, CompileStep, ExecuteStep,
        CommandStep

\* A run to memory that reports success has compiled and loaded the pile as it is, and
\* placed and started it unless -n was given; no phase is left out that was not done.
THEOREM SuccessIsHonest == Spec => []SuccessIsDone
  <1>1. Init => TypeOK /\ Control /\ CodeFresh /\ LoadedIsPile /\ Phases
    <2>1. Init => Phases
      BY BoundsAssumption DEF Init, Phases, Has, Context
    <2> QED
      BY <2>1, TypeInit, ControlInit, PileInit
  <1>2. TypeOK /\ Control /\ CodeFresh /\ LoadedIsPile /\ Phases /\ [Next]_vars
            => (TypeOK /\ Control /\ CodeFresh /\ LoadedIsPile /\ Phases)'
    BY TypeNext, ControlNext, PileNext, PhasesNext
  <1>3. ASSUME TypeOK, Control, LoadedIsPile, Phases
        PROVE  SuccessIsDone
    <2>1. cur \in 1..cur
      BY <1>3, BoundsAssumption DEF TypeOK, Context
    <2>2. Has("COMPILED") /\ ~out[cur] => Has("LOADED")
      BY <1>3, <2>1 DEF Control, PhaseOrder, Has
    <2>3. Has("LOADED") => unit[cur] = GenerateCode(pile[cur])
      BY <1>3, <2>1, Zenon DEF LoadedIsPile, Has
    <2> QED
      BY <1>3, <2>2, <2>3 DEF Phases, SessionOpen, SuccessIsDone
  <1> QED
    BY <1>1, <1>2, <1>3, PTL DEF Spec

-----------------------------------------------------------------------------
(* The way to the next prompt                                              *)

\* The packages of the current context stay while the process is on its way.
LEMMA PackagesKept ==
    ASSUME TypeOK, SystemStep, pc # "start", cur' = cur
    PROVE  pile'[cur]["pkgs"] = pile[cur]["pkgs"]
  <1>a. /\ cur \in Context /\ pile \in [Context -> Piles]
        /\ "pkgs" \in Pile /\ "opts" \in Pile
    BY DEF TypeOK, Pile, StablePile, VolatilePile
  <1>1. ASSUME NEW p, NEW x, PushItem(p, x)
        PROVE  pile'[cur]["pkgs"] = pile[cur]["pkgs"]
    <2>1. p # "pkgs" /\ pile' = [pile EXCEPT ![cur][p] = Append(@, x)]
      BY <1>1, InputAssumption DEF PushItem
    <2> QED
      BY <1>a, <2>1 DEF Piles
  <1>2. CASE Setup
    BY <1>2, <1>a, DefaultsGiven
  <1>3. CASE PreparePackage
    <2>1. \E s : pile' = [pile EXCEPT ![cur]["opts"] = @ \o s]
      BY <1>3, PackageStep
    <2> QED
      BY <2>1, <1>a DEF Piles
  <1>4. CASE Push
    BY <1>4, <1>1 DEF Push
  <1>5. CASE PushRun
    BY <1>5, <1>1 DEF PushRun
  <1>6. OptParse => FALSE
    BY DEF OptParse
  <1>7. Generate \/ Dump \/ CompileMemory \/ CompileFile \/ CompileFail \/ Return
          \/ PrepareBegin \/ PrepareFiles \/ Execute => UNCHANGED pile
    BY DEF Generate, Dump, CompileMemory, CompileFile, CompileFail, Return,
       PrepareBegin, PrepareFiles, Execute
  <1>8. SkipPrepare \/ SkipCompile \/ SkipExecute \/ Crash \/ Idle \/ Done \/ Result
          \/ Quit \/ RunPile \/ FreeContext => UNCHANGED pile
    BY DEF SkipPrepare, SkipCompile, SkipExecute, Crash, Idle, Done, Result,
       Quit, RunPile, FreeContext, chainVars
  <1> QED
    BY <1>2, <1>3, <1>4, <1>5, <1>6, <1>7, <1>8
    DEF SystemStep, MainStep, PrepareStep, CompileStep, ExecuteStep, CommandStep

\* How far a step of the process takes it, phase by phase.
LEMMA NearerStep ==
    ASSUME TypeOK, SystemStep, pc # "start"
    PROVE  StepsLeft' \in 0..(StepsLeft - 1)
  <1> DEFINE P == Len(pile[cur]["pkgs"])
  <1>1. cur \in Nat /\ cur >= 1 /\ npkg \in Nat /\ P \in Nat /\ pc \in Pc
    <2>1. cur \in Context /\ pile[cur] \in Piles /\ "pkgs" \in Pile
      BY DEF TypeOK, Pile, StablePile
    <2>2. P \in Nat
      BY <2>1 DEF Piles
    <2> QED
      BY <2>1, <2>2, BoundsAssumption DEF TypeOK, Context
  <1>2. cur' = cur => Len(pile'[cur]["pkgs"]) = P
    BY PackagesKept
  <1> HIDE DEF P
  <1>3. StepsLeft = CASE pc \in {"prompt", "exit", "dead"} -> 0
                      [] pc = "done" -> 1
                      [] pc = "result" -> 2
                      [] pc = "running" -> 3
                      [] pc = "execute" -> 4
                      [] pc = "compile" -> 5
                      [] pc = "generate" -> 6
                      [] pc = "packages" -> 7 + (P - npkg)
                      [] pc = "run" -> 8 + P
                      [] pc = "setup" -> 9 + P
                      [] pc = "command" -> 9 + P + cur
                      [] pc = "free" -> 1 + cur
                      [] pc = "start" -> 0
    BY DEF StepsLeft, P
  <1>4. /\ pc' \in {"prompt", "exit", "dead"} => StepsLeft' = 0
        /\ pc' = "done" => StepsLeft' = 1
        /\ pc' = "result" => StepsLeft' = 2
        /\ pc' = "running" => StepsLeft' = 3
        /\ pc' = "execute" => StepsLeft' = 4
        /\ pc' = "compile" => StepsLeft' = 5
        /\ pc' = "generate" => StepsLeft' = 6
        /\ pc' = "packages" /\ cur' = cur => StepsLeft' = 7 + (P - npkg')
        /\ pc' = "run" /\ cur' = cur => StepsLeft' = 8 + P
        /\ pc' = "free" => StepsLeft' = 1 + cur'
    BY <1>2 DEF StepsLeft
  <1>5. CASE MainStep
    <2>1. CASE Setup
      <3>1. pc = "setup" /\ pc' \in {"run", "prompt", "done"} /\ cur' = cur
        BY <2>1 DEF Setup
      <3> QED
        BY <1>1, <1>3, <1>4, <3>1
    <2>2. CASE Done
      BY <1>3, <1>4, <2>2 DEF Done
    <2>3. CASE Result
      <3>1. pc = "result" /\ pc' \in {"prompt", "done"}
        BY <2>3 DEF Result
      <3> QED
        BY <1>3, <1>4, <3>1
    <2> QED
      BY <1>5, <2>1, <2>2, <2>3 DEF MainStep, OptParse
  <1>6. CASE PrepareStep
    <2>1. CASE PrepareBegin
      BY <1>1, <1>3, <1>4, <2>1 DEF PrepareBegin
    <2>2. CASE PreparePackage
      <3>0. P = Len(pile[cur]["pkgs"])
        BY DEF P
      <3>1. /\ pc = "packages" /\ npkg < P /\ cur' = cur
            /\ \/ pc' = "packages" /\ npkg' = npkg + 1
               \/ pc' = "result"
        BY <2>2, <3>0, Zenon DEF PreparePackage, PrepareFails
      <3> QED
        BY <1>1, <1>3, <1>4, <3>1
    <2>3. CASE PrepareFiles
      <3>1. pc = "packages" /\ npkg = P /\ pc' \in {"generate", "result"}
        BY <2>3 DEF PrepareFiles, PrepareFails, P
      <3> QED
        BY <1>1, <1>3, <1>4, <3>1
    <2>4. CASE SkipPrepare
      BY <1>1, <1>3, <1>4, <2>4 DEF SkipPrepare
    <2> QED
      BY <1>6, <2>1, <2>2, <2>3, <2>4 DEF PrepareStep
  <1>7. CASE CompileStep
    <2>1. \/ pc = "generate" /\ pc' \in {"compile", "execute", "dead"}
          \/ pc = "compile" /\ pc' \in {"execute", "result"}
      BY <1>7 DEF CompileStep, Generate, Generated, SkipCompile, CompileMemory, CompileFile, CompileFail
    <2> QED
      BY <1>3, <1>4, <2>1
  <1>8. CASE ExecuteStep
    <2>1. \/ pc = "execute" /\ pc' \in {"running", "result"}
          \/ pc = "running" /\ pc' \in {"result", "dead"}
      BY <1>8 DEF ExecuteStep, SkipExecute, Execute, Return, Crash
    <2> QED
      BY <1>3, <1>4, <2>1
  <1>9. CASE CommandStep
    <2>1. pc = "command" /\ pc' \in {"prompt", "free", "run", "dead"} /\ cur' = cur
      BY <1>9 DEF CommandStep, Idle, Dump, Generated, Quit, Push, PushRun, RunPile, CallRun,
         chainVars
    <2> QED
      BY <1>1, <1>3, <1>4, <2>1
  <1>10. CASE FreeContext
    <2>1. pc = "free" /\ ((pc' = "free" /\ cur' = cur - 1 /\ cur # 1) \/ pc' = "done")
      BY <1>10 DEF FreeContext
    <2> QED
      BY <1>1, <1>3, <1>4, <2>1
  <1> QED
    BY <1>5, <1>6, <1>7, <1>8, <1>9, <1>10 DEF SystemStep

\* The process never takes more steps between two prompts than its packages and contexts
\* account for, whatever fails on the way: the part of LinesAnswered that
\* does not depend on fairness.
THEOREM AnswerComesNearer == Spec => AnswerNears
  <1> DEFINE A == SystemStep => pc = "start" \/ StepsLeft' \in 0..(StepsLeft - 1)
  <1>1. TypeOK /\ [Next]_vars => [A]_vars
    BY NearerStep
  <1> QED
    BY <1>1, TypeCorrect, PTL DEF Spec, AnswerNears

-----------------------------------------------------------------------------
(* One round of options per context                                        *)

\* One package more: its options are appended, and everything before stays.
LEMMA FollowMore ==
    ASSUME NEW opts \in Seq(Item), NEW pkgs \in Seq(Item), NEW n \in Nat, n < Len(pkgs),
           NEW m \in Nat, Follow(opts, pkgs, n, m)
    PROVE  Follow(opts \o PkgOpts[pkgs[n + 1]], pkgs, n + 1, m)
  <1> DEFINE own == PkgOpts[pkgs[n + 1]]
             more == opts \o own
  <1>1. own \in Seq(Item)
    <2>1. pkgs[n + 1] \in Item
      BY DEF Follow
    <2> QED
      BY <2>1, CodeAssumption
  <1> HIDE DEF own
  <1>2. PICK f \in [0..n -> 0..Len(opts)] :
            /\ f[0] = m /\ f[n] = Len(opts)
            /\ \A i \in 1..n :
                /\ f[i] = f[i - 1] + Len(PkgOpts[pkgs[i]])
                /\ \A j \in 1..Len(PkgOpts[pkgs[i]]) : opts[f[i - 1] + j] = PkgOpts[pkgs[i]][j]
    BY DEF Follow
  <1>3. /\ Len(opts) \in Nat /\ Len(own) \in Nat /\ Len(more) = Len(opts) + Len(own)
        /\ \A j \in 1..Len(opts) : more[j] = opts[j]
        /\ \A j \in 1..Len(own) : more[Len(opts) + j] = own[j]
    BY <1>1
  <1> HIDE DEF more
  <1>4. PICK h : h = [i \in 0..(n + 1) |-> IF i = n + 1 THEN Len(more) ELSE f[i]]
    OBVIOUS
  <1>5. /\ h \in [0..(n + 1) -> 0..Len(more)] /\ h[n + 1] = Len(more)
        /\ \A i \in 0..n : h[i] = f[i] /\ f[i] \in 0..Len(opts)
    <2>1. \A i \in 0..n : f[i] \in 0..Len(opts) /\ i \in 0..(n + 1) /\ i # n + 1
      BY <1>2
    <2>2. \A i \in 0..(n + 1) : i = n + 1 \/ i \in 0..n
      OBVIOUS
    <2>3. 0..Len(opts) \subseteq 0..Len(more) /\ Len(more) \in 0..Len(more)
      BY <1>3
    <2> QED
      BY <1>4, <2>1, <2>2, <2>3
  <1>6. ASSUME NEW i \in 1..(n + 1)
        PROVE  /\ h[i] = h[i - 1] + Len(PkgOpts[pkgs[i]])
               /\ \A j \in 1..Len(PkgOpts[pkgs[i]]) : more[h[i - 1] + j] = PkgOpts[pkgs[i]][j]
    <2>1. CASE i = n + 1
      <3>1. h[i - 1] = Len(opts) /\ h[i] = Len(more) /\ PkgOpts[pkgs[i]] = own
        BY <1>2, <1>5, <2>1 DEF own
      <3> QED
        BY <1>3, <3>1
    <2>2. CASE i # n + 1
      <3>1. i \in 1..n /\ i \in 0..n /\ i - 1 \in 0..n
        BY <2>2
      <3>2. /\ h[i] = f[i] /\ h[i - 1] = f[i - 1]
            /\ f[i] \in 0..Len(opts) /\ f[i - 1] \in 0..Len(opts)
        BY <1>5, <3>1
      <3>3. PICK p : p = PkgOpts[pkgs[i]]
        OBVIOUS
      <3>4. f[i] = f[i - 1] + Len(p) /\ \A j \in 1..Len(p) : opts[f[i - 1] + j] = p[j]
        BY <1>2, <3>1, <3>3
      <3>5. Len(p) \in Nat
        <4>1. pkgs[i] \in Item
          BY <3>1
        <4> QED
          BY <3>3, <4>1, CodeAssumption
      <3>6. ASSUME NEW j \in 1..Len(p)
            PROVE  more[f[i - 1] + j] = p[j]
        <4>1. f[i - 1] + j \in 1..Len(opts)
          BY <1>3, <3>2, <3>4, <3>5
        <4> QED
          BY <1>3, <3>4, <4>1
      <3> QED
        BY <3>2, <3>3, <3>4, <3>6
    <2> QED
      BY <2>1, <2>2
  <1>7. h[0] = m
    BY <1>2, <1>5
  <1> QED
    BY <1>5, <1>6, <1>7 DEF Follow, more, own

\* Before the first package nothing has followed yet.
LEMMA FollowNone ==
    ASSUME NEW opts \in Seq(Item), NEW pkgs
    PROVE  Follow(opts, pkgs, 0, Len(opts))
  <1>1. PICK f : f = [i \in 0..0 |-> Len(opts)]
    OBVIOUS
  <1>2. f \in [0..0 -> 0..Len(opts)] /\ f[0] = Len(opts)
    BY <1>1
  <1> QED
    BY <1>2 DEF Follow

\* The options of the first n packages are on the pile of the current context, behind
\* what it has inherited.
Added(n) ==
    \E m \in 0..Len(pile[cur]["opts"]) :
        /\ cur > 1 => Inherited(pile[cur]["opts"], pile[cur - 1]["opts"], m)
        /\ Follow(pile[cur]["opts"], pile[cur]["pkgs"], n, m)

\* A context begins with the options of the one before; package by package they are
\* added; once the compiler is ready, all of them are.
Rounds ==
    SessionOpen =>
        /\ ~Has("PREPARED") /\ pc # "packages" /\ cur > 1
             => pile[cur]["opts"] = pile[cur - 1]["opts"]
        /\ pc = "packages" => tcc[cur] # "ready" /\ Added(npkg)
        /\ tcc[cur] = "ready" => Has("PREPARED") /\ Added(Len(pile[cur]["pkgs"]))
        /\ pc \in {"start", "setup"} => tcc[cur] # "ready"

\* What does not touch options, packages or the context before keeps what is added.
LEMMA AddedKept ==
    ASSUME NEW n, Added(n), cur' = cur, cur > 1 => pile'[cur - 1] = pile[cur - 1],
           pile'[cur]["opts"] = pile[cur]["opts"], pile'[cur]["pkgs"] = pile[cur]["pkgs"]
    PROVE  Added(n)'
  BY DEF Added

\* The context before the current one stays while it is current.
LEMMA PreviousKept ==
    ASSUME TypeOK, Control, [Next]_vars, cur' = cur, cur > 1
    PROVE  pile'[cur - 1] = pile[cur - 1]
  <1>1. cur - 1 \in Context /\ cur - 1 <= cur /\ cur - 1 <= cur' /\ cur - 1 \in 1..(cur - 1)
    BY BoundsAssumption DEF TypeOK, Context
  <1>2. "LOADED" \in flag[cur - 1]
    BY <1>1 DEF Control, EarlierLoaded
  <1>3. PICK k : k = cur - 1
    OBVIOUS
  <1> QED
    BY <1>1, <1>2, <1>3, LoadedFrame

\* The steps that neither prepare nor chain: they leave options and packages, and no
\* compiler becomes ready by them.
Quiet ==
    /\ cur' = cur
    /\ pile'[cur]["opts"] = pile[cur]["opts"] /\ pile'[cur]["pkgs"] = pile[cur]["pkgs"]
    /\ tcc'[cur] = "ready" => tcc[cur] = "ready"
    /\ "PREPARED" \in flag'[cur] <=> "PREPARED" \in flag[cur]
    /\ pc' = "packages" <=> pc = "packages"
    /\ pc' \in {"start", "setup"} => pc' = pc
    /\ npkg' = npkg
    /\ SessionOpen

\* Every other step prepares, chains, reads the command line, applies the defaults or
\* ends the session.
LEMMA MostAreQuiet ==
    ASSUME TypeOK, Control, [Next]_vars, SessionOpen'
    PROVE  \/ OptParse \/ Setup \/ PrepareBegin \/ PreparePackage \/ PrepareFiles
           \/ ReadLine /\ NeedsNewContext
           \/ Quiet
  <1>a. /\ cur \in Context /\ pile \in [Context -> Piles] /\ tcc \in [Context -> TccState]
        /\ flag \in [Context -> SUBSET Flag]
        /\ "pkgs" \in Pile /\ "opts" \in Pile
    BY DEF TypeOK, Pile, StablePile, VolatilePile
  <1>1. ASSUME NEW p, NEW x, PushItem(p, x)
        PROVE  pile'[cur]["pkgs"] = pile[cur]["pkgs"] /\ pile'[cur]["opts"] = pile[cur]["opts"]
    <2>1. p # "pkgs" /\ p # "opts" /\ pile' = [pile EXCEPT ![cur][p] = Append(@, x)]
      BY <1>1, InputAssumption DEF PushItem
    <2> QED
      BY <1>a, <2>1 DEF Piles
  <1>3. CASE Push
    BY <1>3, <1>1, <1>a DEF Push, Quiet, SessionOpen
  <1>4. CASE PushRun
    BY <1>4, <1>1, <1>a DEF PushRun, CallRun, fileVars, Quiet, SessionOpen
  <1>5. CASE ReadLine /\ ~NeedsNewContext
    BY <1>5, <1>a DEF ReadLine, mainVars, chainVars, Quiet, SessionOpen
  <1>6. CASE Generate \/ Dump
    BY <1>6, <1>a DEF Generate, Dump, Generated, SetFlags, mainVars, Quiet, SessionOpen
  <1>7. CASE CompileMemory \/ CompileFile \/ CompileFail
    BY <1>7, <1>a DEF CompileMemory, CompileFile, CompileFail, Compiled, SetFlags, mainVars,
       Quiet, SessionOpen
  <1>8. CASE Execute \/ Return
    BY <1>8, <1>a DEF Execute, Return, SetFlags, mainVars, Quiet, SessionOpen
  <1>9. CASE SkipPrepare \/ SkipCompile \/ SkipExecute \/ Idle \/ Result \/ RunPile
    BY <1>9, <1>a DEF SkipPrepare, SkipCompile, SkipExecute, Idle, Result, RunPile, CallRun,
       chainVars, mainVars, fileVars, Quiet, SessionOpen
  <1>10. Crash \/ Quit \/ Eof \/ FreeContext \/ Done \/ Terminated => ~SessionOpen'
    BY DEF Crash, Quit, Eof, FreeContext, Done, Terminated, vars, SessionOpen
  <1>11. CASE UNCHANGED vars
    BY <1>11 DEF vars, chainVars, Quiet, SessionOpen
  <1> QED
    BY <1>3, <1>4, <1>5, <1>6, <1>7, <1>8, <1>9, <1>10, <1>11
    DEF Next, SystemStep, UserStep, MainStep, PrepareStep, CompileStep,
        ExecuteStep, CommandStep

\* The rounds go on from step to step.
LEMMA RoundsNext ==
    ASSUME TypeOK, Control, Rounds, [Next]_vars
    PROVE  Rounds'
  <1> SUFFICES ASSUME SessionOpen'
               PROVE  Rounds'
    BY DEF Rounds
  <1>a. /\ cur \in Context /\ cur \in Nat /\ cur >= 1 /\ pile[cur] \in Piles
        /\ pile \in [Context -> Piles] /\ tcc \in [Context -> TccState]
        /\ flag \in [Context -> SUBSET Flag]
        /\ pile[cur]["opts"] \in Seq(Item) /\ pile[cur]["pkgs"] \in Seq(Item)
    <2>1. cur \in Context /\ pile[cur] \in Piles /\ "pkgs" \in Pile /\ "opts" \in Pile
      BY DEF TypeOK, Pile, StablePile
    <2>2. pile[cur]["opts"] \in Seq(Item) /\ pile[cur]["pkgs"] \in Seq(Item)
      BY <2>1 DEF Piles
    <2>3. cur \in Nat /\ cur >= 1
      BY <2>1, BoundsAssumption DEF Context
    <2> QED
      BY <2>1, <2>2, <2>3 DEF TypeOK
  <1>b. cur' = cur /\ cur > 1 => pile'[cur - 1] = pile[cur - 1]
    BY PreviousKept
  <1>1. CASE OptParse
    <2>1. cur = 1 /\ cur' = 1 /\ pc' # "packages" /\ tcc' = tcc /\ pc = "start"
      BY <1>1 DEF OptParse, Control, RootFirst
    <2>2. tcc[1] # "ready"
      BY <2>1 DEF Rounds, SessionOpen
    <2> QED
      BY <2>1, <2>2 DEF Rounds
  <1>7. CASE Setup
    <2>1. cur = 1 /\ cur' = 1 /\ pc' # "packages" /\ tcc' = tcc /\ pc = "setup"
      BY <1>7 DEF Setup, Control, RootFirst
    <2>2. tcc[1] # "ready"
      BY <2>1 DEF Rounds, SessionOpen
    <2> QED
      BY <2>1, <2>2 DEF Rounds
  <1>2. CASE PrepareBegin
    <2>1. /\ pc = "run" /\ ~Has("PREPARED") /\ cur' = cur /\ pile' = pile /\ npkg' = 0
          /\ pc' = "packages" /\ tcc'[cur] = "partial"
      BY <1>2, <1>a DEF PrepareBegin, mainVars
    <2>2. PICK opts, pkgs : opts = pile[cur]["opts"] /\ pkgs = pile[cur]["pkgs"]
      OBVIOUS
    <2>3. Follow(opts, pkgs, 0, Len(opts)) /\ Len(opts) \in 0..Len(opts)
      BY <1>a, <2>2, FollowNone
    <2>4. cur > 1 => Inherited(opts, pile[cur - 1]["opts"], Len(opts))
      BY <2>1, <2>2 DEF Rounds, SessionOpen, Inherited
    <2>5. Added(0)
      BY <2>2, <2>3, <2>4 DEF Added
    <2>6. Added(0)'
      BY <1>b, <2>1, <2>5, AddedKept
    <2> QED
      BY <2>1, <2>6 DEF Rounds
  <1>3. CASE PreparePackage
    <2>0. /\ pc = "packages" /\ npkg < Len(pile[cur]["pkgs"])
          /\ cur' = cur /\ tcc' = tcc
      BY <1>3, Zenon DEF PreparePackage
    <2>1. pc = "packages" /\ tcc[cur] # "ready" /\ Added(npkg) /\ npkg < Len(pile[cur]["pkgs"])
          /\ cur' = cur /\ tcc' = tcc
      BY <2>0 DEF Rounds, SessionOpen
    <2>2. CASE pc' = "packages"
      <3>1. PICK opts, pkgs : opts = pile[cur]["opts"] /\ pkgs = pile[cur]["pkgs"]
        OBVIOUS
      <3>2. PICK more : more = opts \o PkgOpts[pkgs[npkg + 1]]
        OBVIOUS
      <3>3. npkg' = npkg + 1 /\ pile' = [pile EXCEPT ![cur]["opts"] = more]
        BY <1>3, <1>a, <2>2, <3>1, <3>2 DEF PreparePackage, PrepareFails
      <3>4. pile'[cur]["opts"] = more /\ pile'[cur]["pkgs"] = pkgs
        BY <1>a, <3>1, <3>3 DEF Piles, Pile, StablePile, VolatilePile
      <3>5. PICK m \in 0..Len(opts) : /\ cur > 1 => Inherited(opts, pile[cur - 1]["opts"], m)
                                      /\ Follow(opts, pkgs, npkg, m)
        BY <2>1, <3>1 DEF Added
      <3>6. PICK n \in Nat : n = npkg
        BY DEF TypeOK
      <3>7. Follow(more, pkgs, n + 1, m)
        BY <1>a, <2>1, <3>1, <3>2, <3>5, <3>6, FollowMore
      <3>8. /\ Len(more) \in Nat /\ Len(opts) <= Len(more)
            /\ \A j \in 1..Len(opts) : more[j] = opts[j]
        <4>1. pkgs[npkg + 1] \in Item
          BY <1>a, <2>1, <3>1 DEF TypeOK
        <4>2. PICK s : s = PkgOpts[pkgs[npkg + 1]]
          OBVIOUS
        <4>3. s \in Seq(Item) /\ opts \in Seq(Item) /\ more = opts \o s
          BY <1>a, <3>1, <3>2, <4>1, <4>2, CodeAssumption
        <4> QED
          BY <4>3
      <3>9. cur > 1 => Inherited(more, pile[cur - 1]["opts"], m)
        BY <1>a, <3>1, <3>5, <3>8 DEF Inherited
      <3>10. m \in 0..Len(more)
        BY <1>a, <3>1, <3>5, <3>8
      <3>11. Added(n + 1)'
        BY <1>b, <2>1, <3>4, <3>7, <3>9, <3>10 DEF Added
      <3>12. Added(npkg)'
        BY <3>3, <3>6, <3>11 DEF Added
      <3> QED
        BY <2>1, <2>2, <3>12 DEF Rounds
    <2>3. CASE pc' # "packages"
      <3>1. PrepareFails
        BY <1>3, <2>1, <2>3, Zenon DEF PreparePackage
      <3>2. "PREPARED" \in flag'[cur]
        BY <1>a, <3>1 DEF PrepareFails, SetFlags
      <3> QED
        BY <2>1, <2>3, <3>2 DEF Rounds, Has
    <2> QED
      BY <2>2, <2>3
  <1>4. CASE PrepareFiles
    <2>1. /\ pc = "packages" /\ npkg = Len(pile[cur]["pkgs"]) /\ cur' = cur /\ pile' = pile
          /\ pc' \in {"generate", "result"} /\ "PREPARED" \in flag'[cur]
      BY <1>4, <1>a DEF PrepareFiles, PrepareFails, SetFlags, mainVars
    <2>2. PICK n : n = Len(pile[cur]["pkgs"])
      OBVIOUS
    <2>3. Added(n)
      BY <2>1, <2>2 DEF Rounds, SessionOpen
    <2>4. Added(n)'
      BY <1>b, <2>1, <2>3, AddedKept
    <2>5. Added(Len(pile[cur]["pkgs"]))'
      BY <2>1, <2>2, <2>4 DEF Added
    <2> QED
      BY <2>1, <2>5 DEF Rounds, Has
  <1>5. CASE ReadLine /\ NeedsNewContext
    <2>1. Chain /\ pc' = "command"
      BY <1>5 DEF ReadLine
    <2>2. cur' = cur + 1 /\ cur + 1 \in Context /\ (cur + 1) - 1 = cur /\ cur # cur + 1
      BY <1>a, <2>1, BoundsAssumption DEF Chain, Context
    <2>3. /\ pile' = [pile EXCEPT ![cur + 1] = ChainPiles(pile[cur])]
          /\ tcc' = [tcc EXCEPT ![cur + 1] = "none"]
      BY <2>1 DEF Chain
    <2>4. /\ pile'[cur + 1]["opts"] = pile[cur]["opts"] /\ pile'[cur] = pile[cur]
          /\ tcc'[cur + 1] = "none"
      BY <1>a, <2>2, <2>3 DEF ChainPiles, Pile, StablePile, VolatilePile
    <2> QED
      BY <2>1, <2>2, <2>4 DEF Rounds
  <1>6. CASE Quiet
    <2>1. /\ cur' = cur /\ SessionOpen /\ npkg' = npkg
          /\ pile'[cur]["opts"] = pile[cur]["opts"] /\ pile'[cur]["pkgs"] = pile[cur]["pkgs"]
          /\ tcc'[cur] = "ready" => tcc[cur] = "ready"
          /\ "PREPARED" \in flag'[cur] <=> "PREPARED" \in flag[cur]
          /\ pc' = "packages" <=> pc = "packages"
          /\ pc' \in {"start", "setup"} => pc' = pc
      BY <1>6 DEF Quiet
    <2>2. ASSUME NEW n, Added(n)
          PROVE  Added(n)'
      BY <1>b, <2>1, <2>2, AddedKept
    <2>3. ~Has("PREPARED")' /\ pc' # "packages" /\ cur' > 1
              => pile'[cur']["opts"] = pile'[cur' - 1]["opts"]
      BY <1>b, <2>1 DEF Rounds, Has
    <2>4. pc' = "packages" => tcc'[cur'] # "ready" /\ Added(npkg)'
      <3>1. PICK n : n = npkg
        OBVIOUS
      <3>2. pc' = "packages" => tcc[cur] # "ready" /\ Added(n)
        BY <2>1, <3>1 DEF Rounds
      <3>3. Added(n)' => Added(npkg)'
        BY <2>1, <3>1 DEF Added
      <3> QED
        BY <2>1, <2>2, <3>2, <3>3
    <2>5. tcc'[cur'] = "ready" => Has("PREPARED")' /\ Added(Len(pile[cur]["pkgs"]))'
      <3>1. PICK n : n = Len(pile[cur]["pkgs"])
        OBVIOUS
      <3>2. tcc'[cur'] = "ready" => Has("PREPARED") /\ Added(n)
        BY <2>1, <3>1 DEF Rounds
      <3>3. Added(n)' => Added(Len(pile[cur]["pkgs"]))'
        BY <2>1, <3>1 DEF Added
      <3> QED
        BY <2>1, <2>2, <3>2, <3>3 DEF Has
    <2>6. pc' \in {"start", "setup"} => tcc'[cur'] # "ready"
      BY <2>1 DEF Rounds
    <2> QED
      BY <2>3, <2>4, <2>5, <2>6 DEF Rounds
  <1> QED
    BY <1>1, <1>2, <1>3, <1>4, <1>5, <1>6, <1>7, MostAreQuiet

\* A context that compiles under a complete preparation has the options it inherited and
\* exactly one round of its packages' options behind them.
THEOREM OneRoundEach == Spec => []OptionsAdded
  <1>1. Init => TypeOK /\ Control /\ Rounds
    <2>1. Init => Rounds
      BY BoundsAssumption DEF Init, Rounds, Context
    <2> QED
      BY <2>1, TypeInit, ControlInit
  <1>2. TypeOK /\ Control /\ Rounds /\ [Next]_vars => (TypeOK /\ Control /\ Rounds)'
    BY TypeNext, ControlNext, RoundsNext
  <1>3. Rounds => OptionsAdded
    BY DEF Rounds, SessionOpen, Added, OptionsAdded
  <1> QED
    BY <1>1, <1>2, <1>3, PTL DEF Spec
=============================================================================
