\* A destroyed client stops for good; DestroyCompletes shows it never stops
\* earlier.
CHECK_DEADLOCK FALSE
CONSTANTS
    MaxConnects = 2
    MaxDisconnects = 2
SPECIFICATION Spec
INVARIANTS
    MutexHeldBriefly
    FlagTracksLink
    StateBeforeNotice
    AnsweredOnce
    SilentDuringDestruction
    MembersOutliveCallbacks
