CONSTANTS
    Conn = {c1, c2}
    Host = host
    Frames <- MCHellos
    Hangups = {"rst"}
    MaxFrames = 1
    SocketBuf = 1
    Fd = {f1, f2}
    ListenFd = listen
    StdinFd = stdin
    NoFd = NoFd
    None = None
    HostNameSizes = {5}
    LineSizes <- MCLineSizes
    MaxLines = 2
    MaxEvents = 2
    Interruptible = TRUE
    EpollMayRefuse = TRUE
    Readers = {}
    Number <- MCNumber
SYMMETRY Symmetry
SPECIFICATION Spec
INVARIANTS OrderlyClose WriteInterest StreamIsLegal
PROPERTIES ImplementsRoom
CHECK_DEADLOCK FALSE
