SPECIFICATION Spec
CONSTANTS
    Posts = {a, b}
    Pending = Pending
    Error = Error
    Empty = Empty
CHECK_DEADLOCK FALSE
INVARIANTS
    TypeOK
    AnsweredBeforeReturn
PROPERTIES
    ReachesOneVerdict
    HandlersEnd
