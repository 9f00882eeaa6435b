SPECIFICATION FairSpec
CONSTANTS
    Item <- MCItem
    Sym <- MCSym
    Defs <- MCDefs
    Uses <- MCUses
    Needs <- MCNeeds
    Broken <- MCBroken
    Hidden <- MCHidden
    PkgOpts <- MCPkgOpts
    DefaultIncs <- MCDefaultIncs
    DefaultOpts <- MCDefaultOpts
    Invocations <- FailureCalls
    Lines <- FailureLines
    MaxChain = 2
    MaxPile = 2
INVARIANT BatchSuccess
INVARIANT SuccessIsDone
INVARIANT OptionsAdded
PROPERTY ErrorIsSticky
PROPERTY LinesAnswered
PROPERTY AnswerNears
