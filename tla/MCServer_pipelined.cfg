CONSTANTS
    Conn = {c1}
    Host = host
    Frames <- MCChatFrames
    Hangups = {}
    MaxFrames = 2
    SocketBuf = 2
    Fd = {f1}
    ListenFd = listen
    StdinFd = stdin
    NoFd = NoFd
    None = None
    HostNameSizes = {5}
    LineSizes = {5}
    MaxLines = 0
    MaxEvents = 2
    Interruptible = FALSE
    EpollMayRefuse = FALSE
    Readers = {c1}
    Number <- MCNumber
SPECIFICATION FairSpec
PROPERTIES BufferedFramesAreParsed
CHECK_DEADLOCK FALSE
