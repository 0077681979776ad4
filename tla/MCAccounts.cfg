SPECIFICATION Spec
CONSTANTS
    Attorneys = {ann, bob}
    Staff = {}
    FirstAttorney = ann
    Ips = {ip}
    Passwords = {p1, p2}
    Passkeys = {key}
    NoPassword = NoPassword
    ChallengeTtl = 1
    LinkTtl = 1
    Drift = 1
    MaxFailures = 2
    Window = 2
    Lockout = 2
    MaxWork = 6
    MaxAsking = 2
SYMMETRY Symmetry
INVARIANTS
    AnAttorneyRemains
    SessionsAreCurrent
    AcceptedOnce
    GuessesBounded
PROPERTIES
    DisabledUntilEnabled
CHECK_DEADLOCK FALSE
