SPECIFICATION Spec
CONSTANTS
    Group = {"first", "second"}
    Count <- MCCount
    MaxThreads = 3
INVARIANTS
    TaskOutlivesJobs
    EachJobOnce
    OwnThread
    TakenIsAlive
PROPERTIES
    GroupsEnd
    ThreadsEnd
