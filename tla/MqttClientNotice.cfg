CHECK_DEADLOCK FALSE
CONSTANTS
    MaxConnects = 1
    MaxDisconnects = 1
SPECIFICATION Spec
INVARIANTS
    DisconnectNoticeMeansDown
