\* Two requests over a shared history, with messages appended in between and
\* a transport that completes every operation.
CONSTANTS
    Requests = {r1, r2}
    Text <- MCText
    Strings <- MCStrings
    UserMessages <- MCUserMessages
    MaxNodes = 2
    Absent = Absent
    Parse <- MCParse
    Model = "a"
    Payloads <- OnePayload
    EmptyData = EmptyData
    DoneMarker = DoneMarker
    InvalidData = InvalidData
    HttpCodes = {200, 300}
    MaxEvents = 1
SPECIFICATION FairStreamSpec
INVARIANTS
    AnsweredExactlyOnce
    AnswerContinuesTheRequest
PROPERTIES
    KeepsTheContract
    EventuallyAnswered
CHECK_DEADLOCK FALSE
