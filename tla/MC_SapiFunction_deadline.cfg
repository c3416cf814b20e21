CONSTANTS
    c1 = c1
    c2 = c2
    Creator = Creator
    NoOwner = NoOwner
    NoResult = NoResult
    Loops = {FALSE, TRUE}
    Callers <- MCTwoCallers
SPECIFICATION Spec
PROPERTY
    CallsReturn
