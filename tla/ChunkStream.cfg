SPECIFICATION FairSpec
CONSTANTS
    Events <- PlainEvents
    MaxEvents = 2
    InitialCapacity = 1
    CanCrash = TRUE
INVARIANTS
    TypeOK
    RoomForTerminator
PROPERTY
    ImplementsEventStream
