CONSTANTS
    Conn = {c1}
    Host = host
    Frames = {}
    Hangups = {}
    MaxFrames = 0
    SocketBuf = 2
    Interruptible = TRUE
    NameSizes <- MCNameSizes
    TypedSizes <- MCTypedSizes
    MaxTyped = 3
    Replies <- MCAnyReplies
    MaxReplies = 3
SPECIFICATION FairSpec
INVARIANTS ClientTypeOK NothingLostOrRepeated ShowsWhatItReads WriteInterest HelloBeforeChat
PROPERTIES QuitEnds EndIsNoticed
CHECK_DEADLOCK FALSE
