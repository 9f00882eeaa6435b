SPECIFICATION FairSpec
CONSTANTS
    Text <- MCText
    Height <- MCHeight
    MaxItems = 3
INVARIANT TypeOK
INVARIANT Attribution
INVARIANT Repeatable
PROPERTY DumpShowsCode
PROPERTY GenerationMoves
PROPERTY GenerateEnds
