SPECIFICATION Spec
CONSTANTS
    Session = {a, b, c}
    MaxLines = 2
INVARIANT TypeOK
INVARIANT LinesInOrder
INVARIANT SerialKeepsAll
PROPERTY LossExplained
