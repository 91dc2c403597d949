SPECIFICATION MCSpec
CONSTANTS
    Runs <- MCRuns
    StartedBy <- MCStartedBy
    Cli = "cli"
    MaxRestarts = 1
    OldRuns <- MCOldRuns
    Commits = {1, 2}
    CommitOf <- MCCommitOf
    COMMITS_PER_PAGE = 1
    MaxTouches = 2
INVARIANTS
    TypeOK
    AtMostOneEmail
    NobodyLeftWaiting
    DeletionTypeOK
    NothingSkipped
PROPERTIES
    NotBeforeTheEnd
    OnlyWhatItMay
CHECK_DEADLOCK FALSE
