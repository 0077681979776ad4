----------------------------- MODULE Persistence -----------------------------
(***************************************************************************)
(* How the server keeps its state (persistence/, persist of                *)
(* review-ui/start.ts) and anchors its audit log                           *)
(* (review-ui/audit-service.ts), next to the anchoring job                 *)
(* (integrations/anchor-audit.ts), a process of its own that works on the  *)
(* same stored state.                                                      *)
(*                                                                         *)
(* Every mutating request answers its caller and chains a save: a snapshot *)
(* of the whole state, written in one atomic replacement.  Of the state    *)
(* only the audit log and its anchors are kept here: every mutation writes *)
(* an entry, and the log says which mutations a state has seen.            *)
(***************************************************************************)
EXTENDS AuditAnchors

CONSTANTS
    Requests,       \* anchoring requests that can be under way in the server
    Job,            \* the anchoring job
    MaxQueued,      \* bound: saves waiting in the chain
    MaxFaults,      \* bound: failed writes and publications, restarts of the
                    \* server and deaths of the job, together
    MaxJobRuns      \* bound: runs of the job that get to publishing

ASSUME PersistenceAssumption ==
    /\ MaxEntries \in Nat /\ MaxQueued \in Nat /\ MaxFaults \in Nat
    /\ MaxJobRuns \in Nat /\ Job \notin Requests

VARIABLES
    memory,         \* the server's state
    disk,           \* the stored snapshot
    due,            \* the log as it was when a save was last asked for
    queued,         \* pendingSave: saves that wait for the one before them
    writing,        \* the snapshots being written
    failed,         \* the last write failed
    anchoring,      \* anchoring[r]: how far an anchoring has come, and its head
    jobState,       \* the state the job loaded and works on
    published,      \* the anchors at the destination
    lastId, faults, jobRuns, jobSaves

saveVars   == <<due, queued, writing, failed>>
anchorVars == <<anchoring, jobState, published>>
countVars  == <<lastId, faults, jobRuns, jobSaves>>
persistVars == <<memory, disk, saveVars, anchorVars, countVars>>

Idle == [phase |-> "idle", head |-> <<>>]

Phases == {"idle", "publishing", "published", "saving"}

Fault == faults < MaxFaults /\ faults' = faults + 1

\* The next audit entry gets an id of its own.
NewEntry == lastId < MaxEntries /\ lastId' = lastId + 1

----------------------------------------------------------------------------
(* The server's requests and its chain of saves                            *)

\* Mutant: a save that is under way is taken to cover this change too.
PersistCoalesced ==
    /\ queued < MaxQueued
    /\ queued' = IF writing = {} THEN queued + 1 ELSE queued
    /\ due' = memory'.log
    /\ UNCHANGED <<writing, failed>>

\* persist: chains a save of whatever the state will be when its turn comes.
Persist ==
    /\ queued < MaxQueued
    /\ queued' = queued + 1
    /\ due' = memory'.log
    /\ UNCHANGED <<writing, failed>>

\* A mutating request, with its onMutated.
Mutate ==
    /\ NewEntry
    /\ memory' = WithEntry(memory, lastId', "work")
    /\ Persist
    /\ UNCHANGED <<disk, anchorVars, faults, jobRuns, jobSaves>>

\* A route that writes an entry and calls no onMutated, as a sign-in with a
\* passkey does.
MutateOnly ==
    /\ NewEntry
    /\ memory' = WithEntry(memory, lastId', "work")
    /\ UNCHANGED <<disk, saveVars, anchorVars, faults, jobRuns, jobSaves>>

\* Mutant: saves are not chained.
StartSaveAtOnce ==
    /\ queued > 0
    /\ queued' = queued - 1
    /\ writing' = writing \cup {memory}
    /\ UNCHANGED <<memory, disk, due, failed, anchorVars, countVars>>

\* Mutant: a rejected save rejects the chain after it.
StartSaveUnlessFailed ==
    /\ queued > 0 /\ writing = {} /\ ~failed
    /\ queued' = queued - 1
    /\ writing' = {memory}
    /\ UNCHANGED <<memory, disk, due, failed, anchorVars, countVars>>

\* saveSystemState up to the write: the snapshot is taken in one go.
StartSave ==
    /\ queued > 0 /\ writing = {}
    /\ queued' = queued - 1
    /\ writing' = {memory}
    /\ UNCHANGED <<memory, disk, due, failed, anchorVars, countVars>>

\* Mutant: the snapshot shares the array of anchors with the live state.
WriteLandsShared(state) ==
    /\ disk' = [state EXCEPT !.anchors = memory.anchors]
    /\ writing' = writing \ {state}
    /\ failed' = FALSE
    /\ UNCHANGED <<memory, due, queued, anchorVars, countVars>>

\* StateStore.write: the file is renamed, or the row updated, as a whole.
WriteLands(state) ==
    /\ disk' = state
    /\ writing' = writing \ {state}
    /\ failed' = FALSE
    /\ UNCHANGED <<memory, due, queued, anchorVars, countVars>>

\* The failure is logged and the chain goes on.
WriteFails(state) ==
    /\ Fault
    /\ writing' = writing \ {state}
    /\ failed' = TRUE
    /\ UNCHANGED <<memory, disk, due, queued, anchorVars, lastId, jobRuns, jobSaves>>

\* The process dies, with a write under way landing or not, and a new one
\* loads what is stored.
Restart ==
    /\ Fault
    /\ \E state \in {disk} \cup writing :
          /\ disk' = state
          /\ memory' = state
          /\ due' = state.log
    /\ queued' = 0
    /\ writing' = {}
    /\ failed' = FALSE
    /\ anchoring' = [r \in DOMAIN anchoring |-> IF r \in Requests THEN Idle ELSE anchoring[r]]
    /\ UNCHANGED <<jobState, published, lastId, jobRuns, jobSaves>>

----------------------------------------------------------------------------
(* Anchoring                                                               *)

Anchoring(r, phase, head) == anchoring' = [anchoring EXCEPT ![r] = [phase |-> phase, head |-> head]]

\* AuditService.anchorNow up to its await.
BeginAnchor(r) ==
    /\ anchoring[r] = Idle
    /\ SomethingNew(memory)
    /\ Anchoring(r, "publishing", memory.log)
    /\ UNCHANGED <<memory, disk, saveVars, jobState, published, countVars>>

\* Nothing to anchor is answered as such, and the route saves all the same.
RefuseAnchor ==
    /\ ~SomethingNew(memory)
    /\ UNCHANGED memory
    /\ Persist
    /\ UNCHANGED <<disk, anchorVars, countVars>>

\* External: the destination takes the anchor, of a request or of the job.
PublishLands(r) ==
    /\ anchoring[r].phase = "publishing"
    /\ published' = published \cup {anchoring[r].head}
    /\ Anchoring(r, "published", anchoring[r].head)
    /\ UNCHANGED <<memory, disk, saveVars, jobState, countVars>>

\* The receipt arrives: the anchor is recorded, and that it was.
RecordAnchor(r) ==
    /\ anchoring[r].phase = "published"
    /\ NewEntry
    /\ memory' = WithAnchor(memory, anchoring[r].head, lastId')
    /\ Persist
    /\ anchoring' = [anchoring EXCEPT ![r] = Idle]
    /\ UNCHANGED <<disk, jobState, published, faults, jobRuns, jobSaves>>

\* Mutant: a publication that failed is recorded like any other.
PublishFailsRecorded(r) ==
    /\ anchoring[r] # Idle
    /\ Fault /\ NewEntry
    /\ memory' = WithAnchor(memory, anchoring[r].head, lastId')
    /\ anchoring' = [anchoring EXCEPT ![r] = Idle]
    /\ UNCHANGED <<disk, saveVars, jobState, published, jobRuns, jobSaves>>

\* The destination refuses or its answer is lost: nothing is recorded, and
\* the route does not save.
PublishFails(r) ==
    /\ anchoring[r] # Idle
    /\ Fault
    /\ anchoring' = [anchoring EXCEPT ![r] = Idle]
    /\ UNCHANGED <<memory, disk, saveVars, jobState, published, lastId, jobRuns, jobSaves>>

----------------------------------------------------------------------------
(* The anchoring job (main of integrations/anchor-audit.ts)                *)

\* It loads the stored state and goes on when the log agrees with the anchors:
\* those read back from the destination or, when it cannot be read or holds
\* none, those in the state.
JobBegins ==
    /\ anchoring[Job] = Idle
    /\ jobRuns < MaxJobRuns
    /\ \/ published # {} /\ AnchorsHold(disk.log, published)
       \/ AnchorsHold(disk.log, ToSet(disk.anchors))
    /\ SomethingNew(disk)
    /\ jobState' = disk
    /\ jobRuns' = jobRuns + 1
    /\ Anchoring(Job, "publishing", disk.log)
    /\ UNCHANGED <<memory, disk, saveVars, published, lastId, faults, jobSaves>>

JobRecords ==
    /\ anchoring[Job].phase = "published"
    /\ NewEntry
    /\ jobState' = WithAnchor(jobState, anchoring[Job].head, lastId')
    /\ Anchoring(Job, "saving", <<>>)
    /\ UNCHANGED <<memory, disk, saveVars, published, faults, jobRuns, jobSaves>>

\* The state it loaded is written back, with the anchor, as a whole.
JobSaves ==
    /\ anchoring[Job].phase = "saving"
    /\ disk' = jobState
    /\ jobSaves' = jobSaves + 1
    /\ jobState' = Empty
    /\ Anchoring(Job, "idle", <<>>)
    /\ UNCHANGED <<memory, saveVars, published, lastId, faults, jobRuns>>

\* Its publication or its save fails, or it is killed.
JobDies ==
    /\ anchoring[Job] # Idle
    /\ Fault
    /\ jobState' = Empty
    /\ Anchoring(Job, "idle", <<>>)
    /\ UNCHANGED <<memory, disk, saveVars, published, lastId, jobRuns, jobSaves>>

----------------------------------------------------------------------------
PersistInit ==
    /\ memory = Empty /\ disk = Empty /\ jobState = Empty
    /\ due = <<>> /\ queued = 0 /\ writing = {} /\ failed = FALSE
    /\ anchoring = [r \in Requests \cup {Job} |-> Idle]
    /\ published = {}
    /\ lastId = 0 /\ faults = 0 /\ jobRuns = 0 /\ jobSaves = 0

RequestNext == \E r \in Requests : BeginAnchor(r) \/ RecordAnchor(r) \/ PublishFails(r)

WriteNext == \E state \in writing : WriteLands(state) \/ WriteFails(state)

PersistNext ==
    \/ Mutate \/ MutateOnly \/ StartSave \/ WriteNext \/ Restart
    \/ RequestNext \/ RefuseAnchor
    \/ \E r \in Requests \cup {Job} : PublishLands(r)
    \/ JobBegins \/ JobRecords \/ JobSaves \/ JobDies

\* A chained save starts when the one before it has ended, and a write that
\* was issued ends, one way or the other.
PersistFairness == WF_persistVars(StartSave) /\ WF_persistVars(WriteNext)

PersistSpec == PersistInit /\ [][PersistNext]_persistVars /\ PersistFairness

----------------------------------------------------------------------------
PersistTypeOK ==
    /\ {memory, disk, jobState} \cup writing \subseteq State
    /\ due \in Log
    /\ queued \in 0 .. MaxQueued
    /\ failed \in BOOLEAN
    /\ anchoring \in [Requests \cup {Job} -> [phase : Phases, head : Log]]
    /\ published \subseteq Log
    /\ lastId \in 0 .. MaxEntries /\ faults \in 0 .. MaxFaults
    /\ jobRuns \in 0 .. MaxJobRuns /\ jobSaves \in 0 .. MaxJobRuns

States == {memory, disk, jobState} \cup writing

(* Anchors and log of one state belong together: whatever is live, stored, *)
(* under way to the store or in the hands of the job, its own anchors      *)
(* verify against its own log (core/audit.ts verifyAgainstAnchors), so the *)
(* fallback to the local record never reports tampering that was not.      *)
LocalAnchorsHold == \A state \in States : AnchorsHold(state.log, ToSet(state.anchors))

(* "a local record of an anchor that never left the building would be a    *)
(* false assurance" (review-ui/audit-service.ts): every recorded anchor,   *)
(* over failed publications, crashes and the job, is at the destination.   *)
LocalAnchorsPublished == \A state \in States : ToSet(state.anchors) \subseteq published

(* "the last write still wins (which is correct - it holds the newest      *)
(* state)" (review-ui/start.ts persist): as long as the job has not        *)
(* written, what is stored never loses an entry, with failed writes,       *)
(* restarts and any number of requests between two writes.                 *)
SavesOnlyGrow == [][jobSaves' = 0 => IsPrefix(disk.log, disk'.log)]_persistVars

(* When the chain is at rest and its last write did not fail, what was     *)
(* answered before the last save was asked for is stored.                  *)
NothingLeftUnsaved ==
    queued = 0 /\ writing = {} /\ ~failed /\ jobSaves = 0 => IsPrefix(due, disk.log)

Calm == faults = MaxFaults /\ jobRuns = MaxJobRuns /\ anchoring[Job] = Idle

(* "keep serving and let the next mutation retry" (review-ui/start.ts):    *)
(* once nothing fails any more and the job is done, every entry for which  *)
(* a save is asked, those of saves that failed included, is stored.        *)
SavedInTheEnd ==
    \A id \in 1 .. MaxEntries :
        Calm /\ queued > 0 /\ id \in Ids(due) ~> id \in Ids(disk.log)

(* "It never edits the log - the only write is appending the anchor        *)
(* record" (integrations/anchor-audit.ts).  It does not hold: what the     *)
(* server stored after the job loaded is gone when the job has saved.      *)
JobOnlyAppends ==
    [][jobSaves' # jobSaves => IsPrefix(disk.log, disk'.log)]_persistVars
=============================================================================
