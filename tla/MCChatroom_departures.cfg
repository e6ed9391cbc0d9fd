CONSTANTS
    Conn = {c1}
    Host = host
    Frames = {}
    Hangups = {}
    MaxFrames = 0
    SocketBuf = 2
    Fd = {f1}
    ListenFd = listen
    StdinFd = stdin
    NoFd = NoFd
    None = None
    HostNameSizes = {5}
    LineSizes = {}
    MaxLines = 1
    MaxEvents = 4
    Interruptible = FALSE
    EpollMayRefuse = FALSE
    Readers = {}
    Number <- MCNumber
    NameSizes = {5}
    TypedSizes = {5}
    MaxTyped = 3
SPECIFICATION FairChatroom
INVARIANTS LinesArrive
PROPERTIES DepartureNoticed RoomCloses
CHECK_DEADLOCK FALSE
