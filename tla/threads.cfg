CONSTANTS
    main = main
    t1 = t1
    None = None
    Session = Session
    Threads = {main, t1}
    Main = main
    Does <- Roles
    Wedges = {main, t1}
    MaxSuspend = 1

SPECIFICATION Spec
INVARIANTS SuspendIsPrompt ExecutingIsAlive JoinedBeforeUnload
PROPERTIES TerminationIsFinal ToldThreadsGoOn ShutdownReturns
CHECK_DEADLOCK FALSE
