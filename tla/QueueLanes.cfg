\* the two lanes of a worker
SPECIFICATION FairToUsersSpec
CONSTANTS
    MaxJobs = 2
    Workers = {w1}
    Lanes = {"maintenance", "interactive"}
    Kinds = {hard_delete, delete_runs}
    Interactive = {delete_runs}
    Concurrent = {delete_runs}
    Admins = {alice}
    Forces = {TRUE}
    MaxAttempts = 2
    Faults = {"kill"}
    MaxFaults = 1
    NoJob = NoJob
    NoWorker = NoWorker
    NoKind = NoKind
INVARIANTS OneActivePerKind
PROPERTIES UsersDontWait
