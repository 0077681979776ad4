SPECIFICATION InvoicingSpec
CONSTANTS
    Matters = {m1}
    Attorneys = {att}
    Paralegals = {}
    Clients = {client}
    OtherActors = {}
    NoMatter = NoMatter
    Amounts <- MCAmounts
    MaxEntries = 3
    LineAmounts <- MCLineAmounts
    PayAmounts <- MCPayAmounts
    Bound <- MCBound
    MaxWork = 5
INVARIANTS
    StatusMatchesMoney
    HourBilledOnce
    TrustPaymentsBacked
    AnsweredSessionAccounted
PROPERTIES
    IssuedLinesLocked
    ImplementsReceivable
