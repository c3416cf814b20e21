CONSTANTS
    c1 = c1
    c2 = c2
    Creator = Creator
    NoOwner = NoOwner
    NoResult = NoResult
    Loops = {FALSE, TRUE}
    Callers <- MCOneCaller
SPECIFICATION Spec
INVARIANTS
    TypeOK
    ProtocolInSync
    DeadlineArmedWhileBusy
PROPERTY
    CallsReturn
