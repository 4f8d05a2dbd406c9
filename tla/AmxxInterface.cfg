\* A refused module is never called again.
CHECK_DEADLOCK FALSE
CONSTANTS
    AMXX_INTERFACE_VERSION = 4
    CoreVersions = {3, 4}
SPECIFICATION Spec
INVARIANTS
    NoCallThroughNull
    RefusedLeavesNothing
