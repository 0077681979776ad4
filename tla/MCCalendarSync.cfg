SPECIFICATION SyncSpec
CONSTANTS
    Attorneys = {att}
    Slots <- MCSlots
    Durations <- MCDurations
    Offsets <- MCOffsets
    MaxAppts = 2
    Runs = {run1}
    MaxFaults = 1
INVARIANTS
    NoDoubleBooking
PROPERTY PendingIsSynced
