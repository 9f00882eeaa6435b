SPECIFICATION Spec
CONSTANTS
    Item <- MCItem
    Sym <- MCSym
    Defs <- MCDefs
    Uses <- MCUses
    Needs <- MCNeeds
    Broken <- MCBroken
    Hidden <- MCHidden
    PkgOpts <- MCPkgOpts
    DefaultIncs <- MCDefaultIncs
    DefaultOpts <- MCDefaultOpts
    Invocations <- OutputCalls
    Lines <- BatchLines
    MaxChain = 2
    MaxPile = 2
INVARIANT SuccessBuildsPile
