\* One request; every stream of up to 4 events that carry pieces of tool calls.
CONSTANTS
    Requests = {r1}
    Text <- MCText
    Strings <- MCStrings
    UserMessages <- MCUserMessages
    MaxNodes = 1
    Absent = Absent
    Parse <- MCParse
    Model = "a"
    Payloads <- ToolPayloads
    EmptyData = EmptyData
    DoneMarker = DoneMarker
    InvalidData = InvalidData
    HttpCodes = {200}
    MaxEvents = 4
SPECIFICATION StreamSpec
INVARIANTS
    CallsAreWhatWasStreamed
CHECK_DEADLOCK FALSE
