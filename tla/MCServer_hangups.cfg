CONSTANTS
    Conn = {c1, c2}
    Host = host
    Frames <- MCFrames
    Hangups = {"fin", "rst"}
    MaxFrames = 2
    SocketBuf = 1
    Fd = {f1, f2}
    ListenFd = listen
    StdinFd = stdin
    NoFd = NoFd
    None = None
    HostNameSizes = {5}
    LineSizes = {5}
    MaxLines = 0
    MaxEvents = 2
    Interruptible = FALSE
    EpollMayRefuse = FALSE
    Readers = {}
    Number <- MCNumber
SYMMETRY Symmetry
SPECIFICATION Spec
INVARIANTS WriteInterest FreshEvents
PROPERTIES ImplementsRoom
CHECK_DEADLOCK FALSE
