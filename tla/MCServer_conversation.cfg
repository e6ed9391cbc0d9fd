CONSTANTS
    Conn = {c1, c2}
    Host = host
    Frames <- MCFrames
    Hangups = {}
    MaxFrames = 3
    SocketBuf = 2
    Fd = {f1, f2}
    ListenFd = listen
    StdinFd = stdin
    NoFd = NoFd
    None = None
    HostNameSizes = {5}
    LineSizes = {5}
    MaxLines = 0
    MaxEvents = 2
    Interruptible = FALSE
    EpollMayRefuse = FALSE
    Readers = {}
    Number <- MCNumber
SYMMETRY Symmetry
SPECIFICATION Spec
INVARIANTS TypeOK ChatOrder HelloFirst OneConversation
CHECK_DEADLOCK FALSE
