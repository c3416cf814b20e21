\* Two objects from either factory: the reload loop, shutdown, InvokeAllNow.
CONSTANTS
    p1 = p1
    p2 = p2
    Instances <- MCInstances
    Kinds <- MCKinds
SPECIFICATION Spec
INVARIANT TypeOK
PROPERTY DestructionCompletes
PROPERTY RefreshRecurs
CHECK_DEADLOCK FALSE
