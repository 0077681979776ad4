SPECIFICATION ReviewSpec
CONSTANTS
    Matters = {m1}
    Attorneys = {att1, att2}
    Paralegals = {para}
    Clients = {}
    OtherActors = {}
    NoMatter = NoMatter
    DeadlineMatters = {m1}
    DeadlineTypes = {trial, bail}
    Dates = {d1, d2}
    Humans = {att1, att2}
    Agent = Agent
    CalendarSystem = CalendarSystem
    Kinds <- MCKinds
    RequiredFlags <- MCRequired
    ContextFlags <- MCContext
    Contents = {c1, c2}
    MaxDrafts = 1
    MaxCalculations = 3
INVARIANTS
    ReleasedAsApproved
    NeverSingleSourced
PROPERTY ConflictStays
SYMMETRY ReviewSymmetry
