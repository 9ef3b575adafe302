\* A plain and a streaming request whose answers hold tool calls, with
\* messages appended in between.
CONSTANTS
    PlainRequests = {p1}
    Requests = {r1}
    Text <- MCText
    Strings <- MCStrings
    UserMessages <- MCUserMessages
    MaxNodes = 2
    Absent = Absent
    Parse <- MCParse
    Model = "a"
    HttpCodes = {200}
    Bodies <- MCBodies
    NotJson = NotJson
    Payloads <- MCPayloads
    EmptyData = EmptyData
    DoneMarker = DoneMarker
    InvalidData = InvalidData
    MaxEvents = 1
    Atoms <- MCAtoms
    Serialize <- MCSerialize
    Params <- MCParams
    ToolLists <- MCToolLists
SPECIFICATION FactorySpec
INVARIANTS
    HistoryReadsBack
    RequestFieldsAreTheRequests
    AnswersKeepApart
PROPERTIES
    ConversationsAreImmutable
CHECK_DEADLOCK FALSE
