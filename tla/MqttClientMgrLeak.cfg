CONSTANTS
    MaxClients = 1
    MaxHandle = 1
    ForwardIds = {f1, f2}
    NoForward = NoForward
SPECIFICATION Spec
INVARIANTS
    DestroyReleasesForwards
