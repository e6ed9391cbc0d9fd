CONSTANTS
    Messages <- MCMessages
    Headers <- MCHeaders
    MaxMessages = 2
    LinkSize = 8
SPECIFICATION FairSpec
INVARIANTS FramingTypeOK NoFrameWaits RefusesExactlyTooLong
PROPERTIES ImplementsFrameQueue EverythingArrives
CHECK_DEADLOCK FALSE
