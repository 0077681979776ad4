---------------------------- MODULE MCReviewGate ----------------------------
(* Model-checking instance of ReviewGate: one matter, two attorneys, one   *)
(* paralegal, drafts from a template that the context can flag and a       *)
(* research summary that is always flagged, two deadlines and two dates.   *)
EXTENDS ReviewGate, TLC

MCKinds    == {"template", "research"}
MCRequired == [template |-> {}, research |-> {"verify"}]
MCContext  == [template |-> {"advisory"}, research |-> {}]

\* Nothing but their names tells these values apart.
ReviewSymmetry ==
    Permutations(Attorneys) \cup Permutations(DeadlineTypes) \cup
    Permutations(Dates) \cup Permutations(Contents)
=============================================================================
