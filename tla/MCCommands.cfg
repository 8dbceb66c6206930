SPECIFICATION CommandsSpec
CONSTANTS
    Jobs = {j1, j2}
    Requests <- MCRequests
    StartsWith <- MCStartsWith
    Resources <- MCResources
    BaseUrl = "/"
    LoginUrl = "/login"
    NoJob = NoJob
    BufferSize = 3
    MaxFaults = 1
INVARIANTS VerdictIsTrue BrowsersClosed
CHECK_DEADLOCK FALSE
