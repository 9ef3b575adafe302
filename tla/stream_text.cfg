\* One request; every stream of up to 4 events, in every cut into chunks.
CONSTANTS
    Requests = {r1}
    Text <- MCText
    Strings <- MCStrings
    UserMessages <- MCUserMessages
    MaxNodes = 1
    Absent = Absent
    Parse <- MCParse
    Model = "a"
    Payloads <- TextPayloads
    EmptyData = EmptyData
    DoneMarker = DoneMarker
    InvalidData = InvalidData
    HttpCodes = {200, 300}
    MaxEvents = 4
SPECIFICATION StreamSpec
INVARIANTS
    StreamTypeOK
    AnswerIsWhatWasStreamed
    DeltasSpellTheAnswer
    StatusAgreesWithError
PROPERTIES
    SilentAfterDone
    KeepsTheContract
CHECK_DEADLOCK FALSE
