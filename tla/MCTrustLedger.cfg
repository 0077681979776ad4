SPECIFICATION MatterSpec
CONSTANTS
    Matters = {m1, m2}
    Filed = {m1}
    Attorneys = {att}
    Paralegals = {para}
    Clients = {}
    OtherActors = {sys}
    NoMatter = NoMatter
    Amounts <- MCAmounts
    MaxEntries = 4
    Tokens <- MCTokens
    Names <- MCNames
    Honorifics = {"mr"}
    Generational = {"jr"}
    EntityMarkers = {"inc", "corp"}
    TooShort = {"mr", "j", "q", "jr"}
    Initial <- MCInitial
    PartyLists <- MCPartyLists
    RetentionYears = 7
    Unsent = Unsent
    Spellings <- MCSpellings
INVARIANTS
    NeverOverdrawn
    ReversedAtMostOnce
    LedgerTotalIsEveryMovement
    ClosedWhenEmpty
    AdverseIsCaught
PROPERTY ImplementsTrustAccount
