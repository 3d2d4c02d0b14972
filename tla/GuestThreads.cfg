SPECIFICATION Spec
CONSTANTS
    Envs = {main, e1, e2}
    Main = main
    NoOne = NoOne
    MaxThreads = 2
    TID_MIN = 1
    TID_MAX = 2
    TID_ALLOCATOR_INIT_SIZE = 1
    Creators = {main}
    Joiners = {main}
    Cancellers = {e2}
INVARIANTS   IdsBelongToThreads JoinedHaveReturned StacksHaveOwners
PROPERTIES ImplementsPool ExceptionEndsAll ClusterIsFreed 
