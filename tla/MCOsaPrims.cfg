\* Three threads, three buffers and two frames, so that all threads can be between
\* the halves of a Switch and the pool runs dry; a list of up to three nodes, with
\* equal data; a pipe of four bytes, of which two go in at once, in a process of
\* seven descriptors, for messages of one size, of two sizes and of a size that does
\* not go in at once.
CONSTANTS
    Threads = {t1, t2, t3}
    NumBuf = 3
    f1 = f1
    f2 = f2
    Frames = {f1, f2}
    Nodes = {n1, n2, n3}
    Data = {a, b}
    Null = Null
    NoData = NoData
    MaxSize = 3
    MaxFd = 6
    PipeCap = 4
    PipeBuf = 2
    Usages = {{2}, {1, 2}, {3}}
    MaxCount = 2
SPECIFICATION Spec
INVARIANTS OneOwner NoneLost PutNeverWaits ListShape NotReserved CountFollows
PROPERTIES FramesInOrder ListIsSequence
CHECK_DEADLOCK FALSE
