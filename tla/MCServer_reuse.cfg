CONSTANTS
    Conn = {c1, c2, c3}
    Host = host
    Frames <- MCGarbage
    Hangups = {"rst"}
    MaxFrames = 1
    SocketBuf = 1
    Fd = {f1, f2}
    ListenFd = listen
    StdinFd = stdin
    NoFd = NoFd
    None = None
    HostNameSizes = {5}
    LineSizes = {5}
    MaxLines = 0
    MaxEvents = 2
    Interruptible = FALSE
    EpollMayRefuse = TRUE
    Readers = {}
    Number <- MCNumber
SYMMETRY Symmetry
SPECIFICATION Spec
INVARIANTS FreshEvents EventDiscipline
CHECK_DEADLOCK FALSE
