\* two workers, two schedules of one kind and a request at a time, as clocks change in spring
SPECIFICATION FairSpec
CONSTANTS
    Never = Never
    nightly = nightly
    weekly = weekly
    storage_usage = storage_usage
    Schedules = {nightly, weekly}
    Kinds = {storage_usage}
    KindOf <- MCKindOf
    Crons <- SpringCrons
    Zones <- SpringZones
    Times <- SpringTimes
    Workers = {w1, w2}
    Admins = {alice}
    MaxFailures = 1
INVARIANTS TypeOK EnabledRunsAgain AnsweredIsNotDue
PROPERTIES OncePerDueTime DisabledStaysQuiet DueIsAnswered
