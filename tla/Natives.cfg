CONSTANTS
    MaxHandle = 2
    MaxIndex = 1
    MaxForwards = 1
    Unset = Unset
SPECIFICATION Spec
INVARIANTS
    ForwardsFit
PROPERTIES
    RequestsAsDocumented
    FailedCallChangesNothing
