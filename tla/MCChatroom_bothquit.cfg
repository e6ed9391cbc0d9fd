CONSTANTS
    Conn = {c1}
    Host = host
    Frames = {}
    Hangups = {}
    MaxFrames = 0
    SocketBuf = 1
    Fd = {f1}
    ListenFd = listen
    StdinFd = stdin
    NoFd = NoFd
    None = None
    HostNameSizes = {5}
    LineSizes = {5}
    MaxLines = 2
    MaxEvents = 4
    Interruptible = FALSE
    EpollMayRefuse = FALSE
    Readers = {}
    Number <- MCNumber
    NameSizes = {5}
    TypedSizes = {5}
    MaxTyped = 3
SPECIFICATION FairChatroom
PROPERTIES QuitAlwaysEnds
CHECK_DEADLOCK FALSE
