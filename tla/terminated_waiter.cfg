CONSTANTS
    a = a
    b = b
    c = c
    Threads = {a, b, c}
    header = header
    writer = writer
    reader = reader
    None = None
    Events = {header, writer}
    Semaphores = {reader}
    Header = header
    WriterEvent = writer
    ReaderSemaphore = reader
    Terminates = {a}
    RunsOn = {a}
    MaxFailures = 0
    MaxDepth = 2
    Word = 16

SPECIFICATION Spec
CHECK_DEADLOCK FALSE
INVARIANT LivingOwnersRemain
