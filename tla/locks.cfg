CONSTANTS
    a = a
    b = b
    c = c
    Threads = {a, b, c}
    header = header
    writer = writer
    reader = reader
    None = None
    Events = {header, writer}
    Semaphores = {reader}
    Header = header
    WriterEvent = writer
    ReaderSemaphore = reader
    Terminates = {a}
    RunsOn = {}
    MaxFailures = 1
    MaxDepth = 2
    Word = 16

SPECIFICATION FairSpec
CHECK_DEADLOCK FALSE
INVARIANTS SectionExclusive SectionHandOver RwHandOver
PROPERTY WaitersEnter
