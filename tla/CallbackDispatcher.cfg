CONSTANTS
    Handles = {h1, h2}
    CallbackTypes = {Message, Disconnected}
    MaxCallbacksPerFrame = 2
    MaxEvents = 3
    NoEvent = NoEvent
SPECIFICATION FairSpec
INVARIANTS
    TypeOK
    QueueIsUntakenLog
    StoppedMeansEmpty
    FrameBudget
    EventBelongsToSession
PROPERTIES
    NoCallbackAfterDestroy
    ImplementsChannel
    EveryEventTaken
