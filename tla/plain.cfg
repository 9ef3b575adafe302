\* Two plain requests over a shared history, and a transport that completes
\* every operation.
CONSTANTS
    PlainRequests = {p1, p2}
    Text <- MCText
    Strings <- MCStrings
    UserMessages <- MCUserMessages
    MaxNodes = 2
    Absent = Absent
    Parse <- MCParse
    Model = "a"
    HttpCodes = {200, 300}
    Bodies <- MCBodies
    NotJson = NotJson
SPECIFICATION FairPlainSpec
INVARIANTS
    PlainTypeOK
    PlainAnsweredExactlyOnce
    PlainAnswerContinuesTheRequest
    PlainFailureIsEmpty
PROPERTIES
    PlainEventuallyAnswered
CHECK_DEADLOCK FALSE
