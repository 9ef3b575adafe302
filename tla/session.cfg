\* Plain sessions of two lines and streaming ones of one, up to three rounds.
CONSTANTS
    PlainRequests = {1, 2, 3, 4, 5, 6}
    Requests = {1, 2, 3, 4, 5, 6}
    Text <- MCText
    Strings <- MCStrings
    UserMessages = {}
    MaxNodes = 24
    Absent = Absent
    Parse <- MCParse
    Model = "a"
    HttpCodes = {200, 300}
    Bodies <- MCBodies
    NotJson = NotJson
    Payloads <- MCPayloads
    EmptyData = EmptyData
    DoneMarker = DoneMarker
    InvalidData = InvalidData
    MaxEvents = 2
    Options <- MCModes
    System <- MCSystem
    Lines <- MCLines
    ToolResults = {"result"}
    MaxLines <- MCMaxLines
SPECIFICATION FairSessionSpec
INVARIANTS
    RequestsAreWellFormed
    ResultsReachTheModel
    ExitIsHonest
PROPERTIES
    IsADialogue
    TurnsEnd
