SPECIFICATION PanelsSpec
CONSTANTS
    Lawyers = {att}
    Employees = {staff}
    Outsiders = {client}
    WorkDays = {0, 1}
    RateCents = {0, 2, 4}
    HandHours = {0, 1}
    Scale = 2
    MaxIds = 3
    Payees = {staff}
    MaxTime = 2
    DayLength = 2
    TicksPerMilli = 2
    TypedTimes = {0, 2}
    MaxShifts = 2
    Unsent = Unsent
    Colleagues = {a1, a2}
    MaxConversations = 2
    MaxMessages = 2
    Owners = {o1, o2}
    Requests = {1, 2, 3}
    Callbacks = {k1, k2}
    Matters = {m1, m2}
    Attorneys = {esq}
    Paralegals = {para}
    Clients = {cl}
    OtherActors = {}
    NoMatter = NoMatter
    MaxUploads = 2
    MaxRestarts = 1
    DeadlineMatters = {d1, d2}
    DeadlineTypes = {arraignment}
    Dates = {1, 3}
    Humans = {}
    Agent = Agent
    CalendarSystem = CalendarSystem
    Partners = {p1}
    Unassigned = Unassigned
    Addresses = {own, desk, bad}
    BadAddresses = {bad}
    NoAddress = NoAddress
    CatchAlls = {desk, NoAddress}
    WithinDays = 1
    MaxDay = 3
SYMMETRY PanelSymmetry
INVARIANTS
    PunchesDontOverlap
    PaidOnceAsWorked
    OneDirectPerPair
    MessagesStayWhereWritten
    ConnectedByItsOwner
    SharedByChoice
    NothingDropsOff
PROPERTY RateAppliesFromItsDate
CHECK_DEADLOCK FALSE
