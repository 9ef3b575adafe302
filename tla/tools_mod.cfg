\* The remainder of the smallest integer.
CONSTANTS
    Width = 5
    Precision = 3
    DefaultMax = 7
    Bytes <- MCBytes
    ToolCalls <- MCToolCalls
    None = None
SPECIFICATION ToolsSpec
INVARIANTS
    CalculateAnswers
CHECK_DEADLOCK FALSE
