CONSTANTS
    MaxClients = 2
    MaxHandle = 3
    ForwardIds = {f1, f2, f3, f4}
    NoForward = NoForward
SYMMETRY Symmetry
SPECIFICATION Spec
INVARIANTS
    SlotOwnsForward
    MessageForwardNotLeaked
    NoHandleSkipped
PROPERTIES
    HandleNeverReused
