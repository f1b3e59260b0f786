SPECIFICATION Spec
CONSTANTS
    Posts = {a, b}
    Pending = Pending
    Error = Error
    Empty = Empty
CHECK_DEADLOCK FALSE
INVARIANTS
    ToldTheTruth
