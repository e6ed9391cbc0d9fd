CONSTANTS
    Conn = {c1, c2}
    Host = host
    Frames <- MCHello
    Hangups = {"fin"}
    MaxFrames = 1
    SocketBuf = 4
    Fd = {f1, f2}
    ListenFd = listen
    StdinFd = stdin
    NoFd = NoFd
    None = None
    HostNameSizes = {5}
    LineSizes = {}
    MaxLines = 1
    MaxEvents = 1
    Interruptible = FALSE
    EpollMayRefuse = FALSE
    Readers = {c1, c2}
    Number <- MCNumber
    Backends = {"poll"}
    Address = {a1, a2}
SPECIFICATION FairBackend
PROPERTIES LargeRoomCloses
CHECK_DEADLOCK FALSE
