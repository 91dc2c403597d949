\* the runs listed for expressions, zones and dates at the edges of the calendar
SPECIFICATION Spec
CONSTANTS
    Never = Never
    Crons <- MCCrons
    Zones <- MCZones
    Starts <- MCStarts
    Listed = 5
INVARIANTS NextIsFirst NeverIsNever
\* a listing ends
CHECK_DEADLOCK FALSE
