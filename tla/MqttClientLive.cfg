\* A destroyed client stops for good.
CHECK_DEADLOCK FALSE
CONSTANTS
    MaxConnects = 1
    MaxDisconnects = 2
SPECIFICATION FairSpec
PROPERTIES
    DestroyCompletes
    EveryDisconnectAnswered
