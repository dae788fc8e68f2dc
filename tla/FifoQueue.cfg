\* Three consumers, a queue of two, enough messages for the window to slide
\* past its initial position, wakeups that nobody asked for.
CONSTANTS
    Consumers = {c1, c2, c3}
    MaxSize = 2
    MaxAdds = 5
    SpuriousWakeups = TRUE
SPECIFICATION FairSpec
INVARIANTS
    TypeOK
    QueueIsNewest
    Accounting
    NoLostWakeup
PROPERTIES
    DeliveryInOrder
    DropsOldest
    NoSleepingOnData
\* The producer may stop adding and no consumer has to call.
CHECK_DEADLOCK FALSE
