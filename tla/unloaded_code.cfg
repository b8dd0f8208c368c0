CONSTANTS
    main = main
    t1 = t1
    None = None
    Session = Session
    Threads = {main, t1}
    Main = main
    Does <- Roles
    Wedges = {}
    MaxSuspend = 1

SPECIFICATION Spec
INVARIANTS NoThreadRunsUnloadedCode
CHECK_DEADLOCK FALSE
