SPECIFICATION PersistSpec
CONSTANTS
    Requests = {req1, req2}
    Job = job
    MaxEntries = 3
    MaxQueued = 2
    MaxFaults = 2
    MaxJobRuns = 1
PROPERTY JobOnlyAppends
CHECK_DEADLOCK FALSE
