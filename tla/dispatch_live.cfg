CONSTANTS
    a = a
    b = b
    feature = feature
    second = second
    bootstrap = bootstrap
    NoOne = NoOne
    NoJob = NoJob
    Workers <- TwoWorkers
    Jobs <- TwoJobs
    Memory <- NoMemory
    Projects <- MCProjects
    Repos <- MCRepos
    ProjectOf <- MCProjectOf
    RepoOf <- RepoEach
    CanonicalOf <- MCCanonicalOf
    Timeout = 2
    Grace = 1
    Limit <- LimitStorm
SPECIFICATION FairSpec
CHECK_DEADLOCK FALSE
PROPERTY JobsSettle
