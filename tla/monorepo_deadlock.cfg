CONSTANTS
    a = a
    b = b
    feature = feature
    second = second
    bootstrap = bootstrap
    NoOne = NoOne
    NoJob = NoJob
    Workers <- TwoWorkers
    Jobs <- TwoJobs
    Memory <- NoMemory
    Projects <- MCProjects
    Repos <- MCRepos
    ProjectOf <- MCProjectOf
    RepoOf <- OneRepo
    CanonicalOf <- MCCanonicalOf
    Timeout = 2
    Grace = 1
    Limit <- LimitCalm
SPECIFICATION Spec
CHECK_DEADLOCK FALSE
INVARIANT NoLockCycle
