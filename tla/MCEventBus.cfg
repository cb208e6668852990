SPECIFICATION FairSpec
CONSTANTS
    Sessions = {s1}
    ReplayCapacity = 3
    SubscriberCapacity = 2
    MaxSequence = 8
INVARIANTS
    TypeOK
    GapFree
    NoHoleBehindReplay
PROPERTIES
    ResumedIffWithinCapacity
    ImplementsStream
    EventuallyDelivered
