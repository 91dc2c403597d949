SPECIFICATION Spec
CONSTANTS
    Runs <- MCRuns
    StartedBy <- MCStartedBy
    Cli = "cli"
    MaxRestarts = 1
PROPERTY
    NoEmailOnceStopped
CHECK_DEADLOCK FALSE
