SPECIFICATION RemindersSpec
CONSTANTS
    Attorneys = {att}
    Slots <- MCSlots
    Durations <- MCDurations
    Offsets <- MCOffsets
    MaxAppts = 2
    Senders = {run1}
    Reachable <- MCReachable
    MaxTime = 2
    MaxFailures = 1
PROPERTIES
    DueIsSettled
    NotToldAgain
