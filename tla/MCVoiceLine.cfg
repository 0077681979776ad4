SPECIFICATION VoiceSpec
CONSTANTS
    Calls = {call}
    Webhooks = {w1, w2}
    Places = {s1, s2}
    NoSession = NoSession
    Questions <- MCQuestions
    Names = {"acme", "other", "sued"}
    Conflicted = {"acme"}
    Utterances <- MCUtterances
SYMMETRY SessionSymmetry
INVARIANTS
    GatesBeforeSubstance
    EmergencyEndsIntake
    FinishedLeavesLine
