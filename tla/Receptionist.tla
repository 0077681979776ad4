----------------------------- MODULE Receptionist -----------------------------
(***************************************************************************)
(* One conversation with the AI receptionist: what is read out of a        *)
(* caller's words (receptionist/signal-extraction.ts), when a person has   *)
(* to take over (core/escalation.ts), the gates in front of the intake     *)
(* (core/router.ts) and the turn that puts them together                   *)
(* (receptionist/chat-agent.ts).  Everything here is synchronous: a turn   *)
(* is one function of the session and of what the caller said.             *)
(*                                                                         *)
(* The words of a caller are the record of what the patterns find in them. *)
(* Scripts, branding and office hours are left out, and of the answers     *)
(* their number: question i is asked once i - 1 are answered.  A session's *)
(* utilization entry is open for as long as the session has no outcome.    *)
(***************************************************************************)
EXTENDS Naturals, Sequences

CONSTANTS
    Questions,      \* the practice area's questions, each [id, gating]
    Names,          \* names, and other words a sentence may open with
    Conflicted,     \* names an attorney must review when they are adverse
    Utterances      \* what callers say

ASSUME QuestionsAssumption == Questions \in Seq([id : STRING, gating : BOOLEAN])

Emergencies == {"in_custody", "police_questioning", "court", "protective_order", "crisis"}
HardAlerts  == {"advice", "narrative", "opt_out", "vulnerable"}
CallerTypes == {"family_or_third_party", "existing_client", "billing", "new_client", "unknown"}
Directives  == {"disclose_recording_consent_then_continue", "hold_for_conflict_check",
                "continue_standard_triage", "connect_crisis_resources_immediately",
                "connect_human_immediately", "redirect_no_answer_then_handoff",
                "route_to_human_workflow", "connect_human_gently"}
Gates       == {"caller_type", "disclose_recording_consent_then_continue",
                "hold_for_conflict_check", "intake_question", "over"}

\* The directives that finish the conversation with a hand-off.
HandOffs == Directives \ {"disclose_recording_consent_then_continue",
                          "hold_for_conflict_check", "continue_standard_triage"}
Outcomes == HandOffs \cup {"none", "consent_refused", "conflict", "billing",
                           "take_message", "wrap_up"}

\* interpreterNeeded is FALSE in every session the program creates, and the
\* router lets it overwrite what was heard, so the interpreter gate, which
\* would come first, is never reached and is left out.
NewSession(allowed, screened) ==
    [gate |-> "caller_type", caller |-> "unknown", consent |-> FALSE,
     checked |-> FALSE, clear |-> FALSE, answered |-> 0, outcome |-> "none",
     allowed  |-> allowed,      \* the actor may read the intake category
     screened |-> screened,     \* the session was given a conflict checker
     heard |-> {}, named |-> {}] \* history: emergencies heard, names screened

Over(s) == s.outcome # "none"
Finish(s, outcome) == [s EXCEPT !.outcome = outcome, !.gate = "over"]

\* orderIntakeQuestions
Gating(q) == q.gating
NotGating(q) == ~q.gating
Ordered == SelectSeq(Questions, Gating) \o SelectSeq(Questions, NotGating)

----------------------------------------------------------------------------
(* What is heard.                                                          *)

Unsaid == 999   \* no timing phrase; above every number a phrase can hold
Window == 48    \* COURT_APPEARANCE_ESCALATION_WINDOW_HOURS

\* parseHoursUntil: "in n hours", else "in n days", else today or tomorrow.
HoursUntil(u) ==
    CASE u.inHours # Unsaid -> u.inHours
      [] u.inHours = Unsaid /\ u.inDays # Unsaid -> 24 * u.inDays
      [] OTHER -> IF u.soon THEN 24 ELSE Unsaid

Imminent(u) == HoursUntil(u) <= Window

\* extractSignalsFromText: hours count when the court is mentioned.
Extract(u) == u.signals \cup {c \in {"court"} : u.court /\ Imminent(u)}

\* #answerContext and the module's deriveEscalationSignals.
Derive(id, u) ==
    {e \in {"in_custody", "protective_order"} : id = e /\ u.yes}
        \cup {c \in {"court"} : id = "court_date" /\ Imminent(u)}

\* The signals of a turn: an answer's question adds to the words, never less.
Signals(s, u) ==
    Extract(u) \cup (IF s.gate = "intake_question"
                     THEN Derive(Ordered[s.answered + 1].id, u) ELSE {})

\* identifyCallerType: a third party first.
IdentifyCallerType(states) ==
    CASE "family" \in states -> "family_or_third_party"
      [] "family" \notin states /\ "existing" \in states -> "existing_client"
      [] states \cap {"family", "existing"} = {} /\ "billing" \in states -> "billing"
      [] OTHER -> IF "new" \in states THEN "new_client" ELSE "unknown"

\* extractCandidatePartyNames: the capitalized runs but for lone stopwords,
\* or the whole answer, and with it every name in it, when there are none.
CandidateNames(u) ==
    LET kept == {run.name : run \in {r \in u.runs : ~(r.lone /\ r.stopword)}}
    IN  IF kept = {} THEN u.names ELSE kept

----------------------------------------------------------------------------
(* What is done about it.                                                  *)

\* evaluate: what the alerts alone call for.
Evaluate(signals) ==
    CASE "crisis" \in signals -> "connect_crisis_resources_immediately"
      [] "crisis" \notin signals /\ signals \cap Emergencies # {} ->
            "connect_human_immediately"
      [] signals \cap Emergencies = {} /\ signals \cap {"advice", "narrative"} # {} ->
            "redirect_no_answer_then_handoff"
      [] OTHER -> IF "opt_out" \in signals THEN "route_to_human_workflow"
                  ELSE IF "vulnerable" \in signals THEN "connect_human_gently"
                  ELSE "continue_standard_triage"

\* Mutant: the gates come first, an emergency waits its turn.
RouteGatesFirst(s, signals) ==
    CASE ~s.consent -> "disclose_recording_consent_then_continue"
      [] s.consent /\ ~(s.checked /\ s.clear) -> "hold_for_conflict_check"
      [] OTHER -> Evaluate(signals)

\* Mutant: a client the firm already has is not asked for names again.
RouteTrustingClients(s, signals) ==
    IF Evaluate(signals) # "continue_standard_triage" THEN Evaluate(signals)
    ELSE IF ~s.consent THEN "disclose_recording_consent_then_continue"
    ELSE IF ~(s.checked /\ s.clear) /\ s.caller # "existing_client"
         THEN "hold_for_conflict_check"
    ELSE "continue_standard_triage"

\* Router.route
Route(s, signals) ==
    IF Evaluate(signals) # "continue_standard_triage" THEN Evaluate(signals)
    ELSE IF ~s.consent THEN "disclose_recording_consent_then_continue"
    ELSE IF ~(s.checked /\ s.clear) THEN "hold_for_conflict_check"
    ELSE "continue_standard_triage"

\* handleMessage, its first half: the answer to the pending gate.
AnswerGate(s, u) ==
    LET hit == s.screened /\ CandidateNames(u) \cap Conflicted # {}
        run == [s EXCEPT !.checked = TRUE, !.clear = ~hit, !.named = @ \cup u.names]
    IN  CASE s.gate = "caller_type" ->
                [s EXCEPT !.caller = IdentifyCallerType(u.states)]
          [] s.gate = "disclose_recording_consent_then_continue" ->
                IF u.refuses THEN Finish(s, "consent_refused")
                ELSE [s EXCEPT !.consent = TRUE]
          [] s.gate = "hold_for_conflict_check" ->
                IF hit THEN Finish(run, "conflict") ELSE run
          [] s.gate = "intake_question" -> [s EXCEPT !.answered = @ + 1]

\* handleMessage, once every gate is clear.
Proceed(s) ==
    CASE s.caller = "billing" -> Finish(s, "billing")
      [] s.caller \in {"family_or_third_party", "unknown"} -> Finish(s, "take_message")
      [] OTHER -> IF s.answered = Len(Ordered) THEN Finish(s, "wrap_up")
                  ELSE [s EXCEPT !.gate = "intake_question"]

\* ReceptionistChatSession.handleMessage.  An actor without the intake
\* category makes the router throw after the gate took its answer.
HandleMessage(s, u) ==
    LET heard == [s EXCEPT !.heard = @ \cup (Signals(s, u) \cap Emergencies)]
        g == AnswerGate(heard, u)
        d == Route(g, Signals(s, u))
    IN  IF Over(s) THEN s
        ELSE IF Over(g) THEN g
        ELSE IF d \in HandOffs THEN Finish(g, d)
        ELSE IF d # "continue_standard_triage" THEN [g EXCEPT !.gate = d]
        ELSE IF g.allowed THEN Proceed(g) ELSE g

----------------------------------------------------------------------------
Session == [gate : Gates, caller : CallerTypes, consent : BOOLEAN, checked : BOOLEAN,
            clear : BOOLEAN, answered : Nat, outcome : Outcomes,
            allowed : BOOLEAN, screened : BOOLEAN,
            heard : SUBSET Emergencies, named : SUBSET Names]

Utterance == [signals : SUBSET (Emergencies \cup HardAlerts), court : BOOLEAN,
              inHours : Nat, inDays : Nat, soon : BOOLEAN, yes : BOOLEAN,
              refuses : BOOLEAN, names : SUBSET Names,
              states : SUBSET {"family", "existing", "billing", "new"},
              runs : SUBSET [name : Names, lone : BOOLEAN, stopword : BOOLEAN]]

ASSUME UtterancesAssumption == Utterances \subseteq Utterance
=============================================================================
