SPECIFICATION Spec
CONSTANTS
    client1 = client1
    client2 = client2
    outer = outer
    inner = inner
    Procs = {client1, client2}
    Spaces = {outer, inner}
    UTS = UTS
    Watcher = Watcher
    Threads = {w1, w2}
    Programs <- MCPrograms
SYMMETRY Symmetry
INVARIANTS
    TypeOK
    
    
    KilllockReturned
    DeadHoldNothing
    NoLeak

    
CHECK_DEADLOCK FALSE
