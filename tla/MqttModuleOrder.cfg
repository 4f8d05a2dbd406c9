CONSTANTS
    Handles = {h1}
    Watched = {"disconnected", "connected"}
    MaxCallbacksPerFrame = 2
    MaxConnects = 2
    MaxRequests = 1
    MaxMessages = 1
    NoEvent = NoEvent
SPECIFICATION Spec
INVARIANTS
    EachCauseToldOnce
    ConnectsAlternate
