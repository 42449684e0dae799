SPECIFICATION Spec
CONSTANTS
    IntMax = 7
    UseTypes = TRUE
    ProcessId = "p1"
    Capacity = 3
    MaxBack = 1
    Builtin <- MCBuiltin
    Registered <- MCRegistered
    TypeSpecOf <- MCTypeSpecOf
    Calls <- MCCalls
    Ends <- TheEnds
    Peer <- Other
    Bodies <- MCBodies
    WriteValue <- Write
    ReadValue <- Read
    LookAlike <- Alike
INVARIANTS
    TypeOK
    InSync
    FrameIntact
    
    
    FreedAsBuilt
PROPERTIES
    CallReturns
    StreamSpec
\* An end may be gone for good: CHECK_DEADLOCK is off.
CHECK_DEADLOCK FALSE
