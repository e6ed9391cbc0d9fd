CONSTANTS
    Conn = {c1, c2, c3}
    Host = host
    Frames <- MCHello
    Hangups = {"fin"}
    MaxFrames = 1
    SocketBuf = 1
    Fd = {f1, f2}
    ListenFd = listen
    StdinFd = stdin
    NoFd = NoFd
    None = None
    HostNameSizes = {5}
    LineSizes = {5}
    MaxLines = 0
    MaxEvents = 2
    Interruptible = FALSE
    EpollMayRefuse = TRUE
    Readers = {}
    Number <- MCNumber
    Backends = {"epoll", "poll"}
    Address = {a1, a2}
SYMMETRY Symmetry
SPECIFICATION BackendSpec
INVARIANTS BackendTypeOK FreshEvents EventDiscipline LookupFindsOwner RegistrationsMatch
CHECK_DEADLOCK FALSE
