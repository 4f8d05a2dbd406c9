\* The module may be refused and never called again.
CHECK_DEADLOCK FALSE
CONSTANTS
    Clients = {c1, c2}
    MaxCallbacksPerFrame = 2
    MaxQueue = 3
SPECIFICATION Spec
INVARIANTS
    OneHook
    EventsHaveFrames
    ObjectsHaveFrames
    DetachedIsQuiet
