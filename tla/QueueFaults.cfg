\* two workers compete for a job and its successor; they are killed, told to stop, and
\* lose the database
SPECIFICATION Spec
CONSTANTS
    MaxJobs = 2
    Workers = {w1, w2}
    Lanes = {"maintenance"}
    Kinds = {hard_delete}
    Interactive = {}
    Concurrent = {}
    Admins = {alice}
    Forces = {TRUE}
    MaxAttempts = 2
    Faults = {"kill", "term", "db"}
    MaxFaults = 2
    NoJob = NoJob
    NoWorker = NoWorker
    NoKind = NoKind
SYMMETRY Symmetry
INVARIANTS TypeOK OneRunner
PROPERTIES NoRedo ImplementsLifecycle
