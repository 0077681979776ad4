----------------------------- MODULE MCVoiceLine -----------------------------
(* Model-checking instance of VoiceLine: one call, two webhooks at once,   *)
(* sessions of the line and of the demo, and a caller's words of every     *)
(* kind the receptionist tells apart.                                      *)
EXTENDS VoiceLine, TLC

SessionSymmetry == Permutations(Places) \cup Permutations(Webhooks)

Asked(id, gating) == [id |-> id, gating |-> gating]
MCQuestions == <<Asked("charge_type", FALSE), Asked("in_custody", TRUE),
                 Asked("court_date", TRUE)>>

Words == [signals |-> {}, court |-> FALSE, inHours |-> Unsaid, inDays |-> Unsaid,
          soon |-> FALSE, states |-> {}, yes |-> FALSE, refuses |-> FALSE,
          runs |-> {}, names |-> {}]

Run(name, lone) == [name |-> name, lone |-> lone, stopword |-> FALSE]

MCUtterances ==
    {Words,
     [Words EXCEPT !.states = {"new"}],
     [Words EXCEPT !.states = {"existing", "family"}],
     [Words EXCEPT !.states = {"existing"}, !.yes = TRUE],
     [Words EXCEPT !.states = {"billing"}],
     [Words EXCEPT !.refuses = TRUE],
     [Words EXCEPT !.refuses = TRUE, !.signals = {"crisis"}],
     [Words EXCEPT !.signals = {"advice", "vulnerable"}],
     [Words EXCEPT !.signals = {"opt_out", "in_custody"}],
     [Words EXCEPT !.signals = {"opt_out"}],
     [Words EXCEPT !.signals = {"vulnerable"}],
     \* "in 2 days", an answer to the question about court dates
     [Words EXCEPT !.inDays = 2],
     \* "I have court tomorrow", and in three days
     [Words EXCEPT !.court = TRUE, !.soon = TRUE],
     [Words EXCEPT !.court = TRUE, !.inDays = 3],
     \* "Acme Corp", "acme corp", "Sued by acme corp", and the first one
     \* with "I want to die"
     [Words EXCEPT !.runs = {Run("acme", FALSE)}, !.names = {"acme"}],
     [Words EXCEPT !.names = {"acme"}],
     [Words EXCEPT !.runs = {Run("sued", TRUE)}, !.names = {"acme"}],
     [Words EXCEPT !.runs = {Run("acme", FALSE)}, !.names = {"acme"},
                   !.signals = {"crisis"}],
     \* a name the firm does not know
     [Words EXCEPT !.runs = {Run("other", FALSE)}, !.names = {"other"}]}
=============================================================================
