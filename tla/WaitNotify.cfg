SPECIFICATION WaitSpec
CONSTANTS
    Threads = {t1, t2, t3}
    Addresses = {a1, a2}
    my_mutex = a1
    Values = {0, 1}
    Forever = Forever
    Timeouts = {Forever, 2}
    MaxCounted = 1
    Endable = {t1}
    NumIter = 2
INVARIANTS WaitListsAreExact WokenMeansCounted LockIsExclusive
PROPERTIES SleepersReturn EveryThreadFinishes
