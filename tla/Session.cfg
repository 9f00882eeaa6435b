SPECIFICATION Spec
CONSTANTS
    Item <- MCItem
    Sym <- MCSym
    Defs <- MCDefs
    Uses <- MCUses
    Needs <- MCNeeds
    Broken <- MCBroken
    Hidden <- MCHidden
    PkgOpts <- MCPkgOpts
    DefaultIncs <- MCDefaultIncs
    DefaultOpts <- MCDefaultOpts
    Invocations <- SessionCalls
    Lines <- SessionLines
    MaxChain = 3
    MaxPile = 1
INVARIANT TypeOK
INVARIANT LoadedIsPile
INVARIANT RunsOnce
INVARIANT NoRunRespected
INVARIANT EarlierLoaded
INVARIANT LatestDefinition
INVARIANT SourcesOnce
INVARIANT DeclarationsKept
PROPERTY LoadedIsFrozen
PROPERTY SessionSpec
