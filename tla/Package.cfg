SPECIFICATION FairSpec
CONSTANTS
    Letter = {"I", "l"}
    Plain = {"x"}
    Strange = {"e"}
    Size = 10
    MaxTokens = 5
    Outputs <- MCOutputs
    NULL = NULL
INVARIANT TypeOK
INVARIANT WholeAnswer
INVARIANT CursorInside
INVARIANT TakenAsGiven
INVARIANT OptionsTaken
PROPERTY PackageEnds
