SPECIFICATION PersistSpec
CONSTANTS
    Requests = {req1, req2}
    Job = job
    MaxEntries = 3
    MaxQueued = 2
    MaxFaults = 2
    MaxJobRuns = 1
INVARIANTS
    LocalAnchorsHold
    LocalAnchorsPublished
    NothingLeftUnsaved
PROPERTIES
    SavesOnlyGrow
    SavedInTheEnd
CHECK_DEADLOCK FALSE
