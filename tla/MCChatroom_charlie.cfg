CONSTANTS
    Conn = {c1, c2}
    Host = host
    Frames = {}
    Hangups = {}
    MaxFrames = 0
    SocketBuf = 1
    Fd = {f1, f2}
    ListenFd = listen
    StdinFd = stdin
    NoFd = NoFd
    None = None
    HostNameSizes = {5}
    LineSizes = {}
    MaxLines = 0
    MaxEvents = 4
    Interruptible = FALSE
    EpollMayRefuse = FALSE
    Readers = {}
    Number <- MCNumber
    NameSizes = {5}
    TypedSizes = {5}
    MaxTyped = 1
SPECIFICATION ChatroomSpec
INVARIANTS LeavingSparesRoom
CHECK_DEADLOCK FALSE
