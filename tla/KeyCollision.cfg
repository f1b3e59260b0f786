SPECIFICATION Spec
CONSTANTS
    r1 = r1
    r2 = r2
    None = None
    Unknown = Unknown
    Calls = {r1, r2}
    Labels = {"lab", "caps", "nope"}
    Endpoints = {"api.one:6443", "api.two:6443", "api.alias"}
    Schemes = {"https", "http", "HTTPS"}
    LowerCase <- MCLowerCase
    Names = {"a", "b", "c"}
    Settings <- OneSetting
    Environments <- MCEnvironments
    Requests <- SeparatorRequests
    Clients = {"openshift-browser-client", "own", "lab-client"}
    DefaultClient = "openshift-browser-client"
CHECK_DEADLOCK FALSE
INVARIANTS
    LookupKeysDistinct
