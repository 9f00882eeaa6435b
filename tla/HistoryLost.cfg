SPECIFICATION Spec
CONSTANTS
    Item <- MCItem
    Sym <- MCSym
    Defs <- MCDefs
    Uses <- MCUses
    Needs <- MCNeeds
    Broken <- MCBroken
    Hidden <- MCHidden
    PkgOpts <- MCPkgOpts
    DefaultIncs <- MCDefaultIncs
    DefaultOpts <- MCDefaultOpts
    Invocations <- HistoryCalls
    Lines <- BatchLines
    MaxChain = 1
    MaxPile = 1
INVARIANT HistoryKept
