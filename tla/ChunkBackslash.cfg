SPECIFICATION FairSpec
CONSTANTS
    Events <- BackslashEvents
    MaxEvents = 2
    InitialCapacity = 2
    CanCrash = FALSE
PROPERTY
    EveryEventDelivered
