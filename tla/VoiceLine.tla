------------------------------ MODULE VoiceLine ------------------------------
(***************************************************************************)
(* The receptionist's conversations in progress: the telephone line        *)
(* (handleVoiceRequest in review-ui/server.ts over                         *)
(* receptionist/voice-call-sessions.ts and voice-agent.ts) and the intake  *)
(* demo of the dashboard (review-ui/intake-demo.ts).                       *)
(*                                                                         *)
(* A turn of a call is a webhook that waits for the recording, for its     *)
(* transcript and for the spoken reply; each can fail, and the carrier may *)
(* deliver webhooks at any time, one of a call beside another included.    *)
(* A turn keeps the session it found, whatever becomes of the line.  Audio *)
(* clips and the carrier's signature are left out.                         *)
(***************************************************************************)
EXTENDS Receptionist

CONSTANTS
    Calls,          \* call ids of the carrier
    Webhooks,       \* bound: webhooks under way at once
    Places,         \* bound: sessions held at once, by the line, a turn or the demo
    NoSession       \* a call the line knows nothing of

ASSUME VoiceAssumption == NoSession \notin Places

VARIABLES
    sessions,       \* sessions[i]: the session object i
    line,           \* line[c]: the session of call c, or NoSession
    demos,          \* the sessions of the dashboard's demo
    turns           \* turns[w]: what webhook w is waiting for

voiceVars == <<sessions, line, demos, turns>>

Blank == NewSession(FALSE, FALSE)
Idle == [at |-> "idle"]
Greeting(c, i) == [at |-> "greeting", call |-> c, session |-> i]
Downloading(c) == [at |-> "downloading", call |-> c]
Transcribing(c, i) == [at |-> "transcribing", call |-> c, session |-> i]
Speaking(c, i, done) == [at |-> "speaking", call |-> c, session |-> i, done |-> done]

Held(i) ==
    \/ i \in demos
    \/ \E c \in Calls : line[c] = i
    \/ \E w \in Webhooks : turns[w].at \notin {"idle", "downloading"} /\ turns[w].session = i

\* A session object that nothing holds any more is gone.
Collect == sessions' = [i \in Places |-> IF Held(i)' THEN sessions[i] ELSE Blank]

\* VoiceCallSessions.start: a second start of a call takes the line over.
CallStarts(w, c, i) ==
    /\ turns[w] = Idle /\ ~Held(i)
    /\ line' = [line EXCEPT ![c] = i]
    /\ turns' = [turns EXCEPT ![w] = Greeting(c, i)]
    /\ UNCHANGED demos
    /\ sessions' = [k \in Places |-> IF k = i THEN NewSession(TRUE, FALSE)
                                     ELSE IF Held(k)' THEN sessions[k] ELSE Blank]

RecordingArrives(w, c) ==
    /\ turns[w] = Idle
    /\ turns' = [turns EXCEPT ![w] = Downloading(c)]
    /\ UNCHANGED <<sessions, line, demos>>

\* handleTurn looks the session up once the recording is there.
Downloaded(w) ==
    /\ turns[w].at = "downloading" /\ line[turns[w].call] # NoSession
    /\ turns' = [turns EXCEPT ![w] = Transcribing(turns[w].call, line[turns[w].call])]
    /\ UNCHANGED <<sessions, line, demos>>

\* handleAudioTurn: the transcript is acted on in the session the turn holds.
Transcribed(w, u) ==
    /\ turns[w].at = "transcribing"
    /\ LET i == turns[w].session
           s == HandleMessage(sessions[i], u)
       IN  /\ sessions' = [sessions EXCEPT ![i] = s]
           /\ turns' = [turns EXCEPT ![w] = Speaking(turns[w].call, i, Over(s))]
    /\ UNCHANGED <<line, demos>>

\* Silence or low confidence: the caller is asked again, nothing is acted on.
Misheard(w) ==
    /\ turns[w].at = "transcribing"
    /\ turns' = [turns EXCEPT ![w] = Speaking(turns[w].call, turns[w].session, FALSE)]
    /\ UNCHANGED <<sessions, line, demos>>

\* The reply is spoken and answered with; the call's session goes with the
\* last one, whichever session that is by now.
Spoken(w) ==
    /\ turns[w].at \in {"greeting", "speaking"}
    /\ line' = IF turns[w].at = "speaking" /\ turns[w].done
               THEN [line EXCEPT ![turns[w].call] = NoSession] ELSE line
    /\ turns' = [turns EXCEPT ![w] = Idle]
    /\ UNCHANGED demos
    /\ Collect

\* Mutant: a reply that could not be spoken leaves the call where it is.
FailsKeeping(w) ==
    /\ turns[w] # Idle
    /\ turns' = [turns EXCEPT ![w] = Idle]
    /\ UNCHANGED <<line, demos>>
    /\ Collect

\* Any failure on the way, and a turn of a call without a session, hangs up.
Fails(w) ==
    /\ turns[w] # Idle
    /\ line' = [line EXCEPT ![turns[w].call] = NoSession]
    /\ turns' = [turns EXCEPT ![w] = Idle]
    /\ UNCHANGED demos
    /\ Collect

\* IntakeDemoSessions.start, by an actor with or without the intake category.
DemoStarts(i, allowed) ==
    /\ ~Held(i)
    /\ sessions' = [sessions EXCEPT ![i] = NewSession(allowed, TRUE)]
    /\ demos' = demos \cup {i}
    /\ UNCHANGED <<line, turns>>

\* IntakeDemoSessions.handleMessage
DemoMessage(i, u) ==
    /\ i \in demos
    /\ LET s == HandleMessage(sessions[i], u)
       IN  /\ sessions' = [sessions EXCEPT ![i] = IF Over(s) THEN Blank ELSE s]
           /\ demos' = IF Over(s) THEN demos \ {i} ELSE demos
    /\ UNCHANGED <<line, turns>>

\* Nothing of this is saved: a restarted server knows no call.
Restart ==
    /\ line' = [c \in Calls |-> NoSession]
    /\ demos' = {}
    /\ turns' = [w \in Webhooks |-> Idle]
    /\ Collect

----------------------------------------------------------------------------
VoiceInit ==
    /\ sessions = [i \in Places |-> Blank]
    /\ line = [c \in Calls |-> NoSession]
    /\ demos = {}
    /\ turns = [w \in Webhooks |-> Idle]

TurnNext(w) ==
    \/ \E c \in Calls : RecordingArrives(w, c) \/ \E i \in Places : CallStarts(w, c, i)
    \/ \E u \in Utterances : Transcribed(w, u)
    \/ Downloaded(w) \/ Misheard(w) \/ Spoken(w) \/ Fails(w)

DemoNext == \E i \in Places :
    \/ \E allowed \in BOOLEAN : DemoStarts(i, allowed)
    \/ \E u \in Utterances : DemoMessage(i, u)

VoiceNext == (\E w \in Webhooks : TurnNext(w)) \/ DemoNext \/ Restart

VoiceSpec == VoiceInit /\ [][VoiceNext]_voiceVars

----------------------------------------------------------------------------
Turns ==
    {Idle} \cup [at : {"greeting", "transcribing"}, call : Calls, session : Places]
           \cup [at : {"downloading"}, call : Calls]
           \cup [at : {"speaking"}, call : Calls, session : Places, done : BOOLEAN]

VoiceTypeOK ==
    /\ sessions \in [Places -> Session]
    /\ line \in [Calls -> Places \cup {NoSession}]
    /\ demos \subseteq Places
    /\ turns \in [Webhooks -> Turns]

(* Nothing of substance is asked or answered before the recording was      *)
(* consented to, the conflict check ran and came out clear, and the caller *)
(* turned out to be a client and not a relative or a stranger (core/       *)
(* router.ts, core/confidentiality.ts), whatever two webhooks of a call do *)
(* to one session and in whichever order the answers come back.            *)
GatesBeforeSubstance ==
    \A i \in Places :
        sessions[i].answered > 0 \/ sessions[i].gate = "intake_question" =>
            /\ sessions[i].consent /\ sessions[i].checked /\ sessions[i].clear
            /\ sessions[i].caller \in {"existing_client", "new_client"}
            /\ sessions[i].allowed

(* An emergency preempts every gate (core/escalation.ts "no exceptions"):  *)
(* a session that ever heard one, in free words or in the answer to a      *)
(* question, is over: the caller was handed to a person, or the same       *)
(* sentence refused the recording or hit a conflict, which get a script    *)
(* of their own.                                                           *)
EmergencyEndsIntake ==
    \A i \in Places : sessions[i].heard # {} =>
        sessions[i].outcome \in {"connect_crisis_resources_immediately",
                                 "connect_human_immediately",
                                 "consent_refused", "conflict"}

(* A finished conversation does not stay on the line: while a call still   *)
(* has one, the turn that finished it is waiting to be spoken, through     *)
(* overlapping turns, failures of any service and a call that starts over. *)
FinishedLeavesLine ==
    \A c \in Calls : line[c] # NoSession /\ Over(sessions[line[c]]) =>
        \E w \in Webhooks :
            turns[w] = Speaking(c, line[c], TRUE)

(* Voice: a caller who names a party the firm must not act against is      *)
(* taken no further ("A caller naming an adverse party in an open matter   *)
(* must stop here", receptionist/chat-agent.ts).                           *)
CallersAreScreened ==
    \A c \in Calls : line[c] # NoSession =>
        \/ sessions[line[c]].named \cap Conflicted = {}
        \/ Over(sessions[line[c]])
=============================================================================
