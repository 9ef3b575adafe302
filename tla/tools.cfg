\* Every tool, called with every number of five bits and texts of four bytes.
CONSTANTS
    Width = 5
    Precision = 3
    DefaultMax = 7
    Bytes <- MCBytes
    ToolCalls <- MCToolCalls
    None = None
SPECIFICATION ToolsSpec
INVARIANTS
    AnswersAreHonest
    DeclaredCallsAreServed
    ModIsTheRemainder
    SmallIntervalsAreKept
    TextIsCounted
CHECK_DEADLOCK FALSE
