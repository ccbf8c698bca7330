CONSTANTS
    a = a
    b = b
    feature = feature
    second = second
    bootstrap = bootstrap
    NoOne = NoOne
    NoJob = NoJob
    Workers <- TwoWorkers
    Jobs <- Bootstrap
    Memory <- OneMemory
    Projects <- MCProjects
    Repos <- MCRepos
    ProjectOf <- MCProjectOf
    RepoOf <- RepoEach
    CanonicalOf <- MCCanonicalOf
    Timeout = 2
    Grace = 1
    Limit <- LimitCalm
SPECIFICATION Spec
CHECK_DEADLOCK FALSE
PROPERTY ReapsOnlyTheDead
