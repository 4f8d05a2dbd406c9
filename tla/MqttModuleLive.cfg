CONSTANTS
    Handles = {h1, h2}
    Watched = {"disconnected"}
    MaxCallbacksPerFrame = 1
    MaxConnects = 1
    MaxRequests = 1
    MaxMessages = 0
    NoEvent = NoEvent
SPECIFICATION FairSpec
PROPERTIES
    DestroyReturns
    FrameEnds
    RequestHeard
    FreedIsSilent
    ImplementsDispatcher
