SPECIFICATION BoundedSpec
CONSTANTS
    r1 = r1
    r2 = r2
    Request = {r1, r2}
    Reader = {c1}
    Envelope = {e1}
    Legacy = {old}
    NoDoc = NoDoc
    Payload = {p1}
    Blockable = {e1}
    MaxSeq = 2
    Conditions <- EveryKind
    CacheCapacity = 1
SYMMETRY Requests
INVARIANTS
    ServedIsComplete
    AnswersAreFresh
    BlockedNotAnswered
PROPERTIES
    ImplementsRegister
    ReplacesItsBase
