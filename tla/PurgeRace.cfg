SPECIFICATION Spec
CONSTANTS
    r1 = r1
    r2 = r2
    p1 = p1
    p2 = p2
    c1 = c1
    c2 = c2
    sa1 = sa1
    sa2 = sa2
    bad = bad
    h1 = h1
    h2 = h2
    broken = broken
    typo = typo
    None = None
    Unknown = Unknown
    Calls = {r1, r2}
    Profiles = {p1}
    Clusters = {c1}
    ServiceAccounts = {}
    InvalidNames = {}
    Hostnames = {h1}
    Resolved <- OneCluster
    Configured = None
    Lifetimes = {1, 4}
    MinValids = {0}
    MaxTime = 4
    HostMayFail = FALSE
    Issued = {"login", "purge"}
    Leeway = 1
CHECK_DEADLOCK FALSE
PROPERTIES
    PurgeKeepsLive
