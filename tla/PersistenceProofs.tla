------------------------- MODULE PersistenceProofs -------------------------
(***************************************************************************)
(* Proofs about the stored state and the anchors, for any numbers of       *)
(* entries, requests, waiting saves, faults and runs of the job.           *)
(***************************************************************************)
EXTENDS Persistence, TLAPS

(* A state of the right type whose anchors verify against its own log and  *)
(* are all in P.                                                           *)
StateOK(s, P) ==
    /\ s \in State
    /\ \A i \in DOMAIN s.anchors : IsPrefix(s.anchors[i], s.log) /\ s.anchors[i] \in P

StatesOK == \A s \in States : StateOK(s, published)

(* An anchoring under way holds a head of the log it will be recorded in,  *)
(* and one that was published is at the destination.                       *)
HeadOK(a, log) ==
    /\ a.phase \in {"publishing", "published"} => IsPrefix(a.head, log)
    /\ a.phase = "published" => a.head \in published

HeadsOK ==
    /\ \A r \in Requests : HeadOK(anchoring[r], memory.log)
    /\ HeadOK(anchoring[Job], jobState.log)

(* One write at a time, of a state the server was in; while the job has    *)
(* not written, what is stored, being written and live extend one another. *)
ChainOK ==
    /\ writing = {} \/ \E s \in writing : writing = {s}
    /\ IsPrefix(due, memory.log)
    /\ \A s \in writing : IsPrefix(s.log, memory.log)
    /\ queued = 0 => \A s \in writing : IsPrefix(due, s.log)
    /\ jobSaves = 0 => /\ IsPrefix(disk.log, memory.log)
                       /\ \A s \in writing : IsPrefix(disk.log, s.log)

RestTypeOK ==
    /\ due \in Log
    /\ queued \in 0 .. MaxQueued
    /\ failed \in BOOLEAN
    /\ anchoring \in [Requests \cup {Job} -> [phase : Phases, head : Log]]
    /\ published \subseteq Log
    /\ lastId \in 0 .. MaxEntries /\ faults \in 0 .. MaxFaults
    /\ jobRuns \in 0 .. MaxJobRuns /\ jobSaves \in 0 .. MaxJobRuns

(* A run of the job saves at most once.                                    *)
JobCountOK ==
    /\ jobSaves <= jobRuns
    /\ anchoring[Job] # Idle => jobSaves < jobRuns

(* The inductive invariant.                                                *)
PersistInv ==
    RestTypeOK /\ StatesOK /\ HeadsOK /\ ChainOK /\ JobCountOK /\ NothingLeftUnsaved

----------------------------------------------------------------------------
(* Prefixes                                                                *)

LEMMA PrefixByElement ==
    ASSUME NEW S, NEW s \in Seq(S), NEW t \in Seq(S)
    PROVE  IsPrefix(s, t) <=> Len(s) <= Len(t) /\ \A i \in 1 .. Len(s) : s[i] = t[i]
<1>1. ASSUME Len(s) <= Len(t)
      PROVE  (SubSeq(s, 1, Len(s)) = SubSeq(t, 1, Len(s)))
                 <=> \A i \in 1 .. Len(s) : s[i] = t[i]
    <2>1. /\ SubSeq(s, 1, Len(s)) = [i \in 1 .. Len(s) |-> s[i]]
          /\ SubSeq(t, 1, Len(s)) = [i \in 1 .. Len(s) |-> t[i]]
        BY <1>1
    <2> QED BY <2>1
<1> QED BY <1>1 DEF IsPrefix

LEMMA PrefixOfItself ==
    ASSUME NEW S, NEW s \in Seq(S)
    PROVE  IsPrefix(s, s)
BY PrefixByElement

LEMMA PrefixOfPrefix ==
    ASSUME NEW S, NEW s \in Seq(S), NEW t \in Seq(S), NEW u \in Seq(S),
           IsPrefix(s, t), IsPrefix(t, u)
    PROVE  IsPrefix(s, u)
<1>1. /\ Len(s) <= Len(t) /\ \A i \in 1 .. Len(s) : s[i] = t[i]
      /\ Len(t) <= Len(u) /\ \A i \in 1 .. Len(t) : t[i] = u[i]
    BY PrefixByElement
<1>2. Len(s) <= Len(u) /\ \A i \in 1 .. Len(s) : s[i] = u[i]
    BY <1>1
<1> QED BY <1>2, PrefixByElement

LEMMA PrefixOfLonger ==
    ASSUME NEW S, NEW s \in Seq(S), NEW e \in S
    PROVE  Append(s, e) \in Seq(S) /\ IsPrefix(s, Append(s, e))
<1>1. /\ Append(s, e) \in Seq(S)
      /\ Len(s) <= Len(Append(s, e))
      /\ \A i \in 1 .. Len(s) : s[i] = Append(s, e)[i]
    OBVIOUS
<1> QED BY <1>1, PrefixByElement

----------------------------------------------------------------------------
(* The operations on a state                                               *)

(* Appending an entry keeps a state good, and its log extends the old one. *)
LEMMA EntryAppended ==
    ASSUME NEW P, NEW s, StateOK(s, P), NEW id \in 1 .. MaxEntries, NEW action \in Actions
    PROVE  LET t == WithEntry(s, id, action)
           IN  StateOK(t, P) /\ IsPrefix(s.log, t.log) /\ t.anchors = s.anchors
<1> DEFINE e == [id |-> id, action |-> action]
           t == WithEntry(s, id, action)
<1>1. s.log \in Seq(Entry) /\ e \in Entry /\ s.anchors \in Seq(Log)
    BY DEF StateOK, State, Log, Entry
<1>2. Append(s.log, e) \in Seq(Entry) /\ IsPrefix(s.log, Append(s.log, e))
    BY <1>1, PrefixOfLonger
<1>3. t \in State /\ t.log = Append(s.log, e) /\ t.anchors = s.anchors
    BY <1>2 DEF StateOK, State, Log, WithEntry
<1>4. ASSUME NEW i \in DOMAIN t.anchors
      PROVE  IsPrefix(t.anchors[i], t.log) /\ t.anchors[i] \in P
    <2>1. IsPrefix(s.anchors[i], s.log) /\ s.anchors[i] \in P /\ s.anchors[i] \in Seq(Entry)
        BY <1>1, <1>3, <1>4 DEF StateOK, Log
    <2>2. IsPrefix(s.anchors[i], Append(s.log, e))
        BY <1>1, <1>2, <2>1, PrefixOfPrefix
    <2> QED BY <1>3, <2>1, <2>2
<1> QED BY <1>2, <1>3, <1>4 DEF StateOK

(* Recording an anchor that is a head of the log, too.                     *)
LEMMA AnchorAppended ==
    ASSUME NEW P, NEW s, StateOK(s, P), NEW id \in 1 .. MaxEntries,
           NEW head \in Log, IsPrefix(head, s.log), head \in P
    PROVE  LET t == WithAnchor(s, head, id)
           IN  StateOK(t, P) /\ IsPrefix(s.log, t.log)
<1> DEFINE u == WithEntry(s, id, "audit_anchored")
           t == WithAnchor(s, head, id)
<1>1. StateOK(u, P) /\ IsPrefix(s.log, u.log) /\ u.anchors = s.anchors
    BY EntryAppended DEF Actions
<1>2. /\ t \in State /\ t.log = u.log /\ t.anchors = Append(u.anchors, head)
      /\ u.anchors \in Seq(Log)
    <2>1. t = [log |-> u.log, anchors |-> Append(s.anchors, head)]
        BY DEF WithAnchor
    <2>2. u.log \in Log /\ s.anchors \in Seq(Log)
        BY <1>1 DEF StateOK, State
    <2> HIDE DEF t, u
    <2> QED BY <1>1, <2>1, <2>2 DEF State
<1>3. IsPrefix(head, u.log)
    BY <1>1, PrefixOfPrefix DEF StateOK, State, Log
<1>4. ASSUME NEW i \in DOMAIN t.anchors
      PROVE  IsPrefix(t.anchors[i], t.log) /\ t.anchors[i] \in P
    <2>1. CASE i \in DOMAIN u.anchors
        BY <1>1, <1>2, <2>1 DEF StateOK
    <2>2. CASE i = Len(u.anchors) + 1
        BY <1>2, <1>3, <2>2
    <2> QED BY <1>2, <2>1, <2>2
<1> QED BY <1>1, <1>2, <1>4 DEF StateOK

LEMMA MorePublished ==
    ASSUME NEW P, NEW Q, P \subseteq Q, NEW s, StateOK(s, P)
    PROVE  StateOK(s, Q)
BY DEF StateOK

(* The named invariants are parts of the inductive one.                    *)
LEMMA InvImplies ==
    PersistInv => /\ PersistTypeOK /\ LocalAnchorsHold
                  /\ LocalAnchorsPublished /\ NothingLeftUnsaved
BY DEF PersistInv, RestTypeOK, StatesOK, StateOK, States, PersistTypeOK,
       LocalAnchorsHold, LocalAnchorsPublished, AnchorsHold, ToSet

----------------------------------------------------------------------------
(* Every action keeps the inductive invariant                              *)

LEMMA LogsTyped ==
    ASSUME PersistInv
    PROVE  /\ memory.log \in Seq(Entry) /\ disk.log \in Seq(Entry)
           /\ jobState.log \in Seq(Entry) /\ due \in Seq(Entry)
           /\ \A s \in writing : s.log \in Seq(Entry)
           /\ \A r \in Requests \cup {Job} : anchoring[r].head \in Seq(Entry)
BY DEF PersistInv, RestTypeOK, StatesOK, StateOK, States, State, Log

(* The live state grows and nothing else does.                             *)
LEMMA MemoryGrows ==
    ASSUME PersistInv, StateOK(memory', published), IsPrefix(memory.log, memory'.log),
           UNCHANGED <<disk, writing, jobState, published>>
    PROVE  /\ StatesOK' /\ memory'.log \in Seq(Entry)
           /\ \A r \in Requests : HeadOK(anchoring[r], memory'.log)
           /\ IsPrefix(due, memory'.log) /\ IsPrefix(memory'.log, memory'.log)
           /\ \A s \in writing : IsPrefix(s.log, memory'.log)
           /\ jobSaves = 0 => IsPrefix(disk.log, memory'.log)
<1>1. memory'.log \in Seq(Entry)
    BY DEF StateOK, State, Log
<1>2. ASSUME NEW l \in Seq(Entry), IsPrefix(l, memory.log)
      PROVE  IsPrefix(l, memory'.log)
    BY <1>1, <1>2, LogsTyped, PrefixOfPrefix
<1>3. StatesOK'
    BY DEF PersistInv, StatesOK, States, StateOK
<1>4. \A r \in Requests : HeadOK(anchoring[r], memory'.log)
    BY <1>2, LogsTyped DEF PersistInv, HeadsOK, HeadOK
<1>5. /\ IsPrefix(due, memory'.log)
      /\ \A s \in writing : IsPrefix(s.log, memory'.log)
      /\ jobSaves = 0 => IsPrefix(disk.log, memory'.log)
    BY <1>2, LogsTyped DEF PersistInv, ChainOK
<1> QED BY <1>1, <1>3, <1>4, <1>5, PrefixOfItself

(* A request that grows the live state and chains a save.                  *)
LEMMA GrowAndPersist ==
    ASSUME PersistInv, StateOK(memory', published), IsPrefix(memory.log, memory'.log),
           Persist, UNCHANGED <<disk, jobState, published, jobSaves>>
    PROVE  StatesOK' /\ ChainOK' /\ NothingLeftUnsaved' /\ due' \in Log /\ queued' \in 0 .. MaxQueued
<1>1. UNCHANGED <<disk, writing, failed, jobState, published, jobSaves>>
    BY DEF Persist
<1>2. queued' \in 0 .. MaxQueued /\ queued' # 0 /\ due' = memory'.log
    BY PersistenceAssumption DEF Persist, PersistInv, RestTypeOK
<1>3. /\ StatesOK' /\ memory'.log \in Seq(Entry)
      /\ IsPrefix(memory'.log, memory'.log)
      /\ \A s \in writing : IsPrefix(s.log, memory'.log)
      /\ jobSaves = 0 => IsPrefix(disk.log, memory'.log)
    BY <1>1, MemoryGrows
<1>4. ChainOK'
    BY <1>1, <1>2, <1>3 DEF PersistInv, ChainOK
<1> QED BY <1>2, <1>3, <1>4 DEF NothingLeftUnsaved, Log

LEMMA MutateStep == PersistInv /\ Mutate => PersistInv'
<1> SUFFICES ASSUME PersistInv, Mutate PROVE PersistInv'
    OBVIOUS
<1>1. lastId' \in 1 .. MaxEntries
    BY PersistenceAssumption DEF Mutate, NewEntry, PersistInv, RestTypeOK
<1>2. StateOK(memory', published) /\ IsPrefix(memory.log, memory'.log)
    BY <1>1, EntryAppended DEF Mutate, PersistInv, StatesOK, States, Actions
<1>3. /\ Persist
      /\ UNCHANGED <<disk, anchoring, jobState, published, writing, failed, faults, jobRuns, jobSaves>>
    BY DEF Mutate, Persist, anchorVars
<1>4. /\ StatesOK' /\ ChainOK' /\ NothingLeftUnsaved'
      /\ due' \in Log /\ queued' \in 0 .. MaxQueued
    BY <1>2, <1>3, GrowAndPersist
<1>5. RestTypeOK' /\ JobCountOK'
    BY <1>1, <1>3, <1>4 DEF PersistInv, RestTypeOK, JobCountOK
<1>6. HeadsOK'
    BY <1>2, <1>3, MemoryGrows DEF PersistInv, HeadsOK, HeadOK
<1> QED BY <1>4, <1>5, <1>6 DEF PersistInv

LEMMA MutateOnlyStep == PersistInv /\ MutateOnly => PersistInv'
<1> SUFFICES ASSUME PersistInv, MutateOnly PROVE PersistInv'
    OBVIOUS
<1>1. lastId' \in 1 .. MaxEntries
    BY PersistenceAssumption DEF MutateOnly, NewEntry, PersistInv, RestTypeOK
<1>2. StateOK(memory', published) /\ IsPrefix(memory.log, memory'.log)
    BY <1>1, EntryAppended DEF MutateOnly, PersistInv, StatesOK, States, Actions
<1>3. UNCHANGED <<disk, due, queued, anchoring, jobState, published, writing, failed,
                  faults, jobRuns, jobSaves>>
    BY DEF MutateOnly, saveVars, anchorVars
<1>4. /\ StatesOK'
      /\ \A r \in Requests : HeadOK(anchoring[r], memory'.log)
      /\ IsPrefix(due, memory'.log)
      /\ \A s \in writing : IsPrefix(s.log, memory'.log)
      /\ jobSaves = 0 => IsPrefix(disk.log, memory'.log)
    BY <1>2, <1>3, MemoryGrows
<1>5. RestTypeOK' /\ JobCountOK'
    BY <1>1, <1>3 DEF PersistInv, RestTypeOK, JobCountOK
<1>6. HeadsOK'
    BY <1>3, <1>4 DEF PersistInv, HeadsOK, HeadOK
<1>7. ChainOK' /\ NothingLeftUnsaved'
    BY <1>3, <1>4 DEF PersistInv, ChainOK, NothingLeftUnsaved
<1> QED BY <1>4, <1>5, <1>6, <1>7 DEF PersistInv

LEMMA RefuseAnchorStep == PersistInv /\ RefuseAnchor => PersistInv'
<1> SUFFICES ASSUME PersistInv, RefuseAnchor PROVE PersistInv'
    OBVIOUS
<1>1. StateOK(memory', published) /\ IsPrefix(memory.log, memory'.log)
    BY LogsTyped, PrefixOfItself DEF RefuseAnchor, PersistInv, StatesOK, States
<1>2. /\ Persist
      /\ UNCHANGED <<memory, disk, anchoring, jobState, published, writing, failed,
                     lastId, faults, jobRuns, jobSaves>>
    BY DEF RefuseAnchor, Persist, anchorVars, countVars
<1>3. /\ StatesOK' /\ ChainOK' /\ NothingLeftUnsaved'
      /\ due' \in Log /\ queued' \in 0 .. MaxQueued
    BY <1>1, <1>2, GrowAndPersist
<1>4. RestTypeOK' /\ JobCountOK' /\ HeadsOK'
    BY <1>2, <1>3 DEF PersistInv, RestTypeOK, JobCountOK, HeadsOK, HeadOK
<1> QED BY <1>3, <1>4 DEF PersistInv

LEMMA StartSaveStep == PersistInv /\ StartSave => PersistInv'
<1> SUFFICES ASSUME PersistInv, StartSave PROVE PersistInv'
    OBVIOUS
<1>1. /\ queued > 0 /\ writing = {} /\ queued' = queued - 1 /\ writing' = {memory}
      /\ UNCHANGED <<memory, disk, due, failed, anchoring, jobState, published,
                     lastId, faults, jobRuns, jobSaves>>
    BY DEF StartSave, anchorVars, countVars
<1>2. StatesOK'
    BY <1>1 DEF PersistInv, StatesOK, States, StateOK
<1>3. ChainOK' /\ NothingLeftUnsaved'
    BY <1>1, LogsTyped, PrefixOfItself DEF PersistInv, ChainOK, NothingLeftUnsaved
<1>4. RestTypeOK' /\ JobCountOK' /\ HeadsOK'
    BY <1>1, PersistenceAssumption
    DEF PersistInv, RestTypeOK, JobCountOK, HeadsOK, HeadOK
<1> QED BY <1>2, <1>3, <1>4 DEF PersistInv

LEMMA WriteLandsStep ==
    ASSUME PersistInv, NEW state \in writing, WriteLands(state)
    PROVE  PersistInv'
<1>1. /\ disk' = state /\ writing' = writing \ {state} /\ failed' = FALSE
      /\ UNCHANGED <<memory, due, queued, anchoring, jobState, published,
                     lastId, faults, jobRuns, jobSaves>>
    BY DEF WriteLands, anchorVars, countVars
<1>2. writing = {state} /\ writing' = {}
    BY <1>1 DEF PersistInv, ChainOK
<1>3. StatesOK'
    BY <1>1, <1>2 DEF PersistInv, StatesOK, States, StateOK
<1>4. ChainOK' /\ NothingLeftUnsaved'
    BY <1>1, <1>2 DEF PersistInv, ChainOK, NothingLeftUnsaved
<1>5. RestTypeOK' /\ JobCountOK' /\ HeadsOK'
    BY <1>1 DEF PersistInv, RestTypeOK, JobCountOK, HeadsOK, HeadOK
<1> QED BY <1>3, <1>4, <1>5 DEF PersistInv

LEMMA WriteFailsStep ==
    ASSUME PersistInv, NEW state \in writing, WriteFails(state)
    PROVE  PersistInv'
<1>1. /\ faults' \in 0 .. MaxFaults /\ writing' = writing \ {state} /\ failed' = TRUE
      /\ UNCHANGED <<memory, disk, due, queued, anchoring, jobState, published,
                     lastId, jobRuns, jobSaves>>
    BY PersistenceAssumption DEF WriteFails, Fault, anchorVars, PersistInv, RestTypeOK
<1>2. writing = {state} /\ writing' = {}
    BY <1>1 DEF PersistInv, ChainOK
<1>3. StatesOK'
    BY <1>1, <1>2 DEF PersistInv, StatesOK, States, StateOK
<1>4. ChainOK' /\ NothingLeftUnsaved'
    BY <1>1, <1>2 DEF PersistInv, ChainOK, NothingLeftUnsaved
<1>5. RestTypeOK' /\ JobCountOK' /\ HeadsOK'
    BY <1>1 DEF PersistInv, RestTypeOK, JobCountOK, HeadsOK, HeadOK
<1> QED BY <1>3, <1>4, <1>5 DEF PersistInv

LEMMA RestartStep == PersistInv /\ Restart => PersistInv'
<1> SUFFICES ASSUME PersistInv, Restart PROVE PersistInv'
    OBVIOUS
<1>1. PICK state \in {disk} \cup writing : disk' = state /\ memory' = state /\ due' = state.log
    BY DEF Restart
<1>2. /\ faults' \in 0 .. MaxFaults
      /\ queued' = 0 /\ writing' = {} /\ failed' = FALSE
      /\ UNCHANGED <<jobState, published, lastId, jobRuns, jobSaves>>
    BY PersistenceAssumption DEF Restart, Fault, PersistInv, RestTypeOK
<1>3. state.log \in Seq(Entry) /\ IsPrefix(state.log, state.log)
    BY LogsTyped, PrefixOfItself
<1>4. anchoring' = [r \in Requests \cup {Job} |->
                       IF r \in Requests THEN Idle ELSE anchoring[r]]
    BY DEF Restart, PersistInv, RestTypeOK
<1>5. StatesOK'
    BY <1>1, <1>2 DEF PersistInv, StatesOK, States, StateOK
<1>6. ChainOK' /\ NothingLeftUnsaved'
    BY <1>1, <1>2, <1>3 DEF ChainOK, NothingLeftUnsaved
<1>7. /\ \A r \in Requests : anchoring'[r] = Idle
      /\ anchoring'[Job] = anchoring[Job]
    BY <1>4, PersistenceAssumption
<1>8. anchoring' \in [Requests \cup {Job} -> [phase : Phases, head : Log]]
    <2>1. <<>> \in Log /\ Idle \in [phase : Phases, head : Log]
        BY DEF Idle, Phases, Log
    <2> QED BY <1>4, <2>1 DEF PersistInv, RestTypeOK
<1>9. RestTypeOK'
    <2>1. due' \in Log
        BY <1>1, <1>3 DEF Log
    <2>2. queued' \in 0 .. MaxQueued
        BY <1>2, PersistenceAssumption
    <2>3. failed' \in BOOLEAN
        BY <1>2
    <2>4. /\ faults' \in 0 .. MaxFaults
          /\ UNCHANGED <<published, lastId, jobRuns, jobSaves>>
        BY <1>2
    <2> QED BY <1>8, <2>1, <2>2, <2>3, <2>4 DEF PersistInv, RestTypeOK
<1>10. HeadsOK' /\ JobCountOK'
    BY <1>2, <1>7 DEF PersistInv, HeadsOK, HeadOK, JobCountOK, Idle
<1> QED BY <1>5, <1>6, <1>9, <1>10 DEF PersistInv

(* Actions that leave the states, the chain of saves and what is stored    *)
(* alone.                                                                  *)
LEMMA StatesUntouched ==
    ASSUME PersistInv, published \subseteq published',
           UNCHANGED <<memory, disk, saveVars, jobState, jobSaves>>
    PROVE  StatesOK' /\ ChainOK' /\ NothingLeftUnsaved'
<1>1. UNCHANGED <<memory, disk, due, queued, writing, failed, jobState, jobSaves>>
    BY DEF saveVars
<1>2. StatesOK'
    <2>1. \A s \in States : StateOK(s, published')
        BY MorePublished DEF PersistInv, StatesOK
    <2>2. States' = States
        BY <1>1 DEF States
    <2> QED BY <2>1, <2>2 DEF StatesOK, StateOK
<1>3. ChainOK' /\ NothingLeftUnsaved'
    BY <1>1 DEF PersistInv, ChainOK, NothingLeftUnsaved
<1> QED BY <1>2, <1>3

LEMMA BeginAnchorStep ==
    ASSUME PersistInv, NEW r \in Requests, BeginAnchor(r)
    PROVE  PersistInv'
<1>1. UNCHANGED <<memory, disk, saveVars, jobState, published, lastId, faults, jobRuns, jobSaves>>
    BY DEF BeginAnchor, countVars
<1>2. UNCHANGED <<due, queued, writing, failed>>
    BY <1>1 DEF saveVars
<1>3. anchoring' = [anchoring EXCEPT ![r] = [phase |-> "publishing", head |-> memory.log]]
    BY DEF BeginAnchor, Anchoring
<1>4. /\ anchoring'[r] = [phase |-> "publishing", head |-> memory.log]
      /\ \A q \in Requests \cup {Job} : q # r => anchoring'[q] = anchoring[q]
      /\ r # Job
    BY <1>3, PersistenceAssumption DEF PersistInv, RestTypeOK
<1>5. anchoring' \in [Requests \cup {Job} -> [phase : Phases, head : Log]]
    BY <1>3, LogsTyped DEF PersistInv, RestTypeOK, Phases, Log
<1>6. RestTypeOK'
    BY <1>1, <1>2, <1>5 DEF PersistInv, RestTypeOK
<1>7. HeadsOK' /\ JobCountOK'
    BY <1>1, <1>4, LogsTyped, PrefixOfItself DEF PersistInv, HeadsOK, HeadOK, JobCountOK
<1> QED BY <1>1, <1>6, <1>7, StatesUntouched DEF PersistInv

LEMMA PublishLandsStep ==
    ASSUME PersistInv, NEW r \in Requests \cup {Job}, PublishLands(r)
    PROVE  PersistInv'
<1>1. /\ UNCHANGED <<memory, disk, saveVars, jobState, lastId, faults, jobRuns, jobSaves>>
      /\ published' = published \cup {anchoring[r].head}
      /\ anchoring[r].phase = "publishing"
    BY DEF PublishLands, countVars
<1>2. UNCHANGED <<due, queued, writing, failed>>
    BY <1>1 DEF saveVars
<1>3. anchoring' = [anchoring EXCEPT ![r] = [phase |-> "published", head |-> anchoring[r].head]]
    BY DEF PublishLands, Anchoring
<1>4. /\ anchoring'[r] = [phase |-> "published", head |-> anchoring[r].head]
      /\ \A q \in Requests \cup {Job} : q # r => anchoring'[q] = anchoring[q]
    BY <1>3 DEF PersistInv, RestTypeOK
<1>5. anchoring' \in [Requests \cup {Job} -> [phase : Phases, head : Log]]
    BY <1>3, LogsTyped DEF PersistInv, RestTypeOK, Phases, Log
<1>6. RestTypeOK'
    BY <1>1, <1>2, <1>5, LogsTyped DEF PersistInv, RestTypeOK, Log
<1>7. HeadsOK'
    <2>1. \A q \in Requests : HeadOK(anchoring[q], memory.log)'
        BY <1>1, <1>4 DEF PersistInv, HeadsOK, HeadOK
    <2>2. HeadOK(anchoring[Job], jobState.log)'
        BY <1>1, <1>4 DEF PersistInv, HeadsOK, HeadOK
    <2> QED BY <2>1, <2>2 DEF HeadsOK
<1>8. JobCountOK'
    BY <1>1, <1>4 DEF PersistInv, JobCountOK, Idle
<1> QED BY <1>1, <1>6, <1>7, <1>8, StatesUntouched DEF PersistInv

LEMMA PublishFailsStep ==
    ASSUME PersistInv, NEW r \in Requests, PublishFails(r)
    PROVE  PersistInv'
<1>1. /\ UNCHANGED <<memory, disk, saveVars, jobState, published, lastId, jobRuns, jobSaves>>
      /\ faults' \in 0 .. MaxFaults
    BY PersistenceAssumption DEF PublishFails, Fault, PersistInv, RestTypeOK
<1>2. UNCHANGED <<due, queued, writing, failed>>
    BY <1>1 DEF saveVars
<1>3. anchoring' = [anchoring EXCEPT ![r] = Idle]
    BY DEF PublishFails
<1>4. /\ anchoring'[r] = Idle
      /\ \A q \in Requests \cup {Job} : q # r => anchoring'[q] = anchoring[q]
      /\ r # Job
    BY <1>3, PersistenceAssumption DEF PersistInv, RestTypeOK
<1>5. anchoring' \in [Requests \cup {Job} -> [phase : Phases, head : Log]]
    BY <1>3 DEF PersistInv, RestTypeOK, Phases, Log, Idle
<1>6. RestTypeOK'
    BY <1>1, <1>2, <1>5 DEF PersistInv, RestTypeOK
<1>7. HeadsOK' /\ JobCountOK'
    BY <1>1, <1>4 DEF PersistInv, HeadsOK, HeadOK, JobCountOK, Idle
<1> QED BY <1>1, <1>6, <1>7, StatesUntouched DEF PersistInv

LEMMA RecordAnchorStep ==
    ASSUME PersistInv, NEW r \in Requests, RecordAnchor(r)
    PROVE  PersistInv'
<1> DEFINE head == anchoring[r].head
<1>1. /\ lastId' \in 1 .. MaxEntries
      /\ anchoring[r].phase = "published"
      /\ memory' = WithAnchor(memory, head, lastId')
    BY PersistenceAssumption DEF RecordAnchor, NewEntry, PersistInv, RestTypeOK
<1>2. head \in Log /\ IsPrefix(head, memory.log) /\ head \in published
    BY <1>1 DEF PersistInv, RestTypeOK, HeadsOK, HeadOK
<1>3. StateOK(memory', published) /\ IsPrefix(memory.log, memory'.log)
    BY <1>1, <1>2, AnchorAppended DEF PersistInv, StatesOK, States
<1>4. /\ Persist
      /\ UNCHANGED <<disk, jobState, published, writing, failed, faults, jobRuns, jobSaves>>
    BY DEF RecordAnchor, Persist
<1>5. /\ StatesOK' /\ ChainOK' /\ NothingLeftUnsaved'
      /\ due' \in Log /\ queued' \in 0 .. MaxQueued
    BY <1>3, <1>4, GrowAndPersist
<1>6. anchoring' = [anchoring EXCEPT ![r] = Idle]
    BY DEF RecordAnchor
<1>7. /\ anchoring'[r] = Idle
      /\ \A q \in Requests \cup {Job} : q # r => anchoring'[q] = anchoring[q]
      /\ r # Job
    BY <1>6, PersistenceAssumption DEF PersistInv, RestTypeOK
<1>8. anchoring' \in [Requests \cup {Job} -> [phase : Phases, head : Log]]
    BY <1>6 DEF PersistInv, RestTypeOK, Phases, Log, Idle
<1>9. RestTypeOK'
    BY <1>1, <1>4, <1>5, <1>8 DEF PersistInv, RestTypeOK
<1>10. HeadsOK'
    <2>1. \A q \in Requests : HeadOK(anchoring[q], memory'.log)
        BY <1>3, <1>4, MemoryGrows
    <2> QED BY <1>4, <1>7, <2>1 DEF PersistInv, HeadsOK, HeadOK, Idle
<1>11. JobCountOK'
    BY <1>4, <1>7 DEF PersistInv, JobCountOK
<1> QED BY <1>5, <1>9, <1>10, <1>11 DEF PersistInv

(* What the actions of the job have in common: the server goes on as it    *)
(* was, and what the job holds or has stored stays good.                   *)
LEMMA JobStep ==
    ASSUME PersistInv,
           NEW a \in [phase : Phases, head : Log],
           anchoring' = [anchoring EXCEPT ![Job] = a],
           UNCHANGED <<memory, saveVars, published>>
    PROVE  /\ UNCHANGED <<due, queued, writing, failed>>
           /\ anchoring' \in [Requests \cup {Job} -> [phase : Phases, head : Log]]
           /\ anchoring'[Job] = a
           /\ \A r \in Requests : HeadOK(anchoring[r], memory.log)'
<1>1. /\ anchoring' \in [Requests \cup {Job} -> [phase : Phases, head : Log]]
      /\ anchoring'[Job] = a
      /\ \A r \in Requests : anchoring'[r] = anchoring[r]
    BY PersistenceAssumption DEF PersistInv, RestTypeOK
<1> QED BY <1>1 DEF PersistInv, HeadsOK, HeadOK, saveVars

LEMMA EmptyOK == StateOK(Empty, published)
<1>1. <<>> \in Seq(Entry) /\ <<>> \in Seq(Log) /\ DOMAIN <<>> = {}
    OBVIOUS
<1>2. Empty \in State /\ DOMAIN Empty.anchors = {}
    BY <1>1 DEF Empty, State, Log
<1> QED BY <1>2 DEF StateOK

LEMMA JobBeginsStep == PersistInv /\ JobBegins => PersistInv'
<1> SUFFICES ASSUME PersistInv, JobBegins PROVE PersistInv'
    OBVIOUS
<1> DEFINE a == [phase |-> "publishing", head |-> disk.log]
<1>1. /\ UNCHANGED <<memory, disk, saveVars, published, lastId, faults, jobSaves>>
      /\ anchoring[Job] = Idle /\ jobRuns < MaxJobRuns
      /\ jobState' = disk /\ jobRuns' = jobRuns + 1
      /\ anchoring' = [anchoring EXCEPT ![Job] = a]
    BY DEF JobBegins, Anchoring
<1>2. a \in [phase : Phases, head : Log]
    BY LogsTyped DEF Phases, Log
<1>3. /\ UNCHANGED <<due, queued, writing, failed>>
      /\ anchoring' \in [Requests \cup {Job} -> [phase : Phases, head : Log]]
      /\ anchoring'[Job] = a
      /\ \A r \in Requests : HeadOK(anchoring[r], memory.log)'
    BY <1>1, <1>2, JobStep
<1>4. RestTypeOK' /\ JobCountOK'
    BY <1>1, <1>3, PersistenceAssumption DEF PersistInv, RestTypeOK, JobCountOK
<1>5. StatesOK'
    BY <1>1, <1>3 DEF PersistInv, StatesOK, States, StateOK
<1>6. HeadsOK'
    BY <1>1, <1>3, LogsTyped, PrefixOfItself DEF HeadsOK, HeadOK
<1>7. ChainOK' /\ NothingLeftUnsaved'
    BY <1>1, <1>3 DEF PersistInv, ChainOK, NothingLeftUnsaved
<1> QED BY <1>4, <1>5, <1>6, <1>7 DEF PersistInv

LEMMA JobRecordsStep == PersistInv /\ JobRecords => PersistInv'
<1> SUFFICES ASSUME PersistInv, JobRecords PROVE PersistInv'
    OBVIOUS
<1> DEFINE a == [phase |-> "saving", head |-> <<>>]
           head == anchoring[Job].head
<1>1. /\ UNCHANGED <<memory, disk, saveVars, published, faults, jobRuns, jobSaves>>
      /\ anchoring[Job].phase = "published"
      /\ lastId' \in 1 .. MaxEntries
      /\ jobState' = WithAnchor(jobState, head, lastId')
      /\ anchoring' = [anchoring EXCEPT ![Job] = a]
    BY PersistenceAssumption DEF JobRecords, NewEntry, Anchoring, PersistInv, RestTypeOK
<1>2. a \in [phase : Phases, head : Log]
    BY DEF Phases, Log
<1>3. /\ UNCHANGED <<due, queued, writing, failed>>
      /\ anchoring' \in [Requests \cup {Job} -> [phase : Phases, head : Log]]
      /\ anchoring'[Job] = a
      /\ \A r \in Requests : HeadOK(anchoring[r], memory.log)'
    BY <1>1, <1>2, JobStep
<1>4. head \in Log /\ IsPrefix(head, jobState.log) /\ head \in published
    BY <1>1 DEF PersistInv, RestTypeOK, HeadsOK, HeadOK
<1>5. StateOK(jobState', published)
    BY <1>1, <1>4, AnchorAppended DEF PersistInv, StatesOK, States
<1>6. StatesOK'
    BY <1>1, <1>3, <1>5 DEF PersistInv, StatesOK, States, StateOK
<1>7. RestTypeOK' /\ JobCountOK'
    BY <1>1, <1>3 DEF PersistInv, RestTypeOK, JobCountOK, Idle
<1>8. HeadsOK'
    BY <1>3 DEF HeadsOK, HeadOK
<1>9. ChainOK' /\ NothingLeftUnsaved'
    BY <1>1, <1>3 DEF PersistInv, ChainOK, NothingLeftUnsaved
<1> QED BY <1>6, <1>7, <1>8, <1>9 DEF PersistInv

LEMMA JobSavesStep == PersistInv /\ JobSaves => PersistInv'
<1> SUFFICES ASSUME PersistInv, JobSaves PROVE PersistInv'
    OBVIOUS
<1>1. /\ UNCHANGED <<memory, saveVars, published, lastId, faults, jobRuns>>
      /\ anchoring[Job].phase = "saving"
      /\ disk' = jobState /\ jobState' = Empty /\ jobSaves' = jobSaves + 1
      /\ anchoring' = [anchoring EXCEPT ![Job] = Idle]
    BY DEF JobSaves, Anchoring, Idle
<1>2. Idle \in [phase : Phases, head : Log]
    BY DEF Phases, Log, Idle
<1>3. /\ UNCHANGED <<due, queued, writing, failed>>
      /\ anchoring' \in [Requests \cup {Job} -> [phase : Phases, head : Log]]
      /\ anchoring'[Job] = Idle
      /\ \A r \in Requests : HeadOK(anchoring[r], memory.log)'
    BY <1>1, <1>2, JobStep
<1>4. jobSaves < jobRuns
    BY <1>1 DEF PersistInv, JobCountOK, Idle
<1>5. StatesOK'
    BY <1>1, <1>3, EmptyOK DEF PersistInv, StatesOK, States, StateOK
<1>6. RestTypeOK' /\ JobCountOK'
    BY <1>1, <1>3, <1>4, PersistenceAssumption DEF PersistInv, RestTypeOK, JobCountOK
<1>7. HeadsOK'
    BY <1>3 DEF HeadsOK, HeadOK, Idle
<1>8. jobSaves' # 0
    BY <1>1 DEF PersistInv, RestTypeOK
<1>9. ChainOK' /\ NothingLeftUnsaved'
    BY <1>1, <1>3, <1>8 DEF PersistInv, ChainOK, NothingLeftUnsaved
<1> QED BY <1>5, <1>6, <1>7, <1>9 DEF PersistInv

LEMMA JobDiesStep == PersistInv /\ JobDies => PersistInv'
<1> SUFFICES ASSUME PersistInv, JobDies PROVE PersistInv'
    OBVIOUS
<1>1. /\ UNCHANGED <<memory, disk, saveVars, published, lastId, jobRuns, jobSaves>>
      /\ faults' \in 0 .. MaxFaults
      /\ jobState' = Empty
      /\ anchoring' = [anchoring EXCEPT ![Job] = Idle]
    BY PersistenceAssumption DEF JobDies, Fault, Anchoring, Idle, PersistInv, RestTypeOK
<1>2. Idle \in [phase : Phases, head : Log]
    BY DEF Phases, Log, Idle
<1>3. /\ UNCHANGED <<due, queued, writing, failed>>
      /\ anchoring' \in [Requests \cup {Job} -> [phase : Phases, head : Log]]
      /\ anchoring'[Job] = Idle
      /\ \A r \in Requests : HeadOK(anchoring[r], memory.log)'
    BY <1>1, <1>2, JobStep
<1>4. StatesOK'
    BY <1>1, <1>3, EmptyOK DEF PersistInv, StatesOK, States, StateOK
<1>5. RestTypeOK' /\ JobCountOK'
    BY <1>1, <1>3 DEF PersistInv, RestTypeOK, JobCountOK
<1>6. HeadsOK'
    BY <1>3 DEF HeadsOK, HeadOK, Idle
<1>7. ChainOK' /\ NothingLeftUnsaved'
    BY <1>1, <1>3 DEF PersistInv, ChainOK, NothingLeftUnsaved
<1> QED BY <1>4, <1>5, <1>6, <1>7 DEF PersistInv

LEMMA InitStep == PersistInit => PersistInv
<1> SUFFICES ASSUME PersistInit PROVE PersistInv
    OBVIOUS
<1>1. /\ \A r \in Requests \cup {Job} : anchoring[r] = Idle
      /\ anchoring \in [Requests \cup {Job} -> [phase : Phases, head : Log]]
    <2>1. Idle \in [phase : Phases, head : Log]
        BY DEF Idle, Phases, Log
    <2> QED BY <2>1 DEF PersistInit
<1>2. RestTypeOK /\ JobCountOK
    <2>1. <<>> \in Log /\ FALSE \in BOOLEAN
        BY DEF Log
    <2>2. 0 \in 0 .. MaxQueued /\ 0 \in 0 .. MaxEntries /\ 0 \in 0 .. MaxFaults /\ 0 \in 0 .. MaxJobRuns
        BY PersistenceAssumption
    <2>3. /\ due = <<>> /\ queued = 0 /\ failed = FALSE /\ published = {}
          /\ lastId = 0 /\ faults = 0 /\ jobRuns = 0 /\ jobSaves = 0
        BY DEF PersistInit
    <2>4. RestTypeOK
        BY <1>1, <2>1, <2>2, <2>3 DEF RestTypeOK
    <2> QED BY <1>1, <2>3, <2>4 DEF JobCountOK
<1>3. StatesOK
    BY EmptyOK DEF PersistInit, StatesOK, States
<1>4. HeadsOK
    BY <1>1 DEF HeadsOK, HeadOK, Idle
<1>5. <<>> \in Seq(Entry) /\ memory.log = <<>> /\ disk.log = <<>> /\ due = <<>> /\ writing = {}
    BY DEF PersistInit, Empty
<1>6. ChainOK /\ NothingLeftUnsaved
    BY <1>5, PrefixOfItself DEF ChainOK, NothingLeftUnsaved
<1> QED BY <1>2, <1>3, <1>4, <1>6 DEF PersistInv

LEMMA StutterStep == PersistInv /\ UNCHANGED persistVars => PersistInv'
<1> SUFFICES ASSUME PersistInv, UNCHANGED persistVars PROVE PersistInv'
    OBVIOUS
<1>1. UNCHANGED <<memory, disk, due, queued, writing, failed, anchoring, jobState,
                  published, lastId, faults, jobRuns, jobSaves>>
    BY DEF persistVars, saveVars, anchorVars, countVars
<1> QED BY <1>1 DEF PersistInv, RestTypeOK, StatesOK, States, StateOK, HeadsOK, HeadOK,
                    ChainOK, JobCountOK, NothingLeftUnsaved

LEMMA NextStep == PersistInv /\ [PersistNext]_persistVars => PersistInv'
<1> SUFFICES ASSUME PersistInv, [PersistNext]_persistVars PROVE PersistInv'
    OBVIOUS
<1>1. CASE Mutate \/ MutateOnly \/ RefuseAnchor
    BY <1>1, MutateStep, MutateOnlyStep, RefuseAnchorStep
<1>2. CASE StartSave \/ Restart
    BY <1>2, StartSaveStep, RestartStep
<1>3. CASE WriteNext
    BY <1>3, WriteLandsStep, WriteFailsStep DEF WriteNext
<1>4. CASE RequestNext
    BY <1>4, BeginAnchorStep, RecordAnchorStep, PublishFailsStep DEF RequestNext
<1>5. CASE \E r \in Requests \cup {Job} : PublishLands(r)
    BY <1>5, PublishLandsStep
<1>6. CASE JobBegins \/ JobRecords \/ JobSaves \/ JobDies
    BY <1>6, JobBeginsStep, JobRecordsStep, JobSavesStep, JobDiesStep
<1>7. CASE UNCHANGED persistVars
    BY <1>7, StutterStep
<1> QED BY <1>1, <1>2, <1>3, <1>4, <1>5, <1>6, <1>7 DEF PersistNext

----------------------------------------------------------------------------
(* The theorems                                                            *)

(* The inductive invariant holds of persist, the store, anchorNow and the  *)
(* job together.                                                           *)
THEOREM PersistInvariant == PersistSpec => []PersistInv
BY InitStep, NextStep, PTL DEF PersistSpec

(* What is live, stored, under way or in the job's hands is a state of the *)
(* system, and no counter leaves its bound.                                *)
THEOREM PersistTypes == PersistSpec => []PersistTypeOK
BY PersistInvariant, InvImplies, PTL

(* verifyAgainstAnchors never reports tampering on a state's own anchors,  *)
(* over crashes, overlapping anchorings and the job's overwriting.         *)
THEOREM AnchorsHoldLocally == PersistSpec => []LocalAnchorsHold
BY PersistInvariant, InvImplies, PTL

(* No anchor is on record that did not reach its destination               *)
(* (review-ui/audit-service.ts anchorNow).                                 *)
THEOREM AnchorsArePublished == PersistSpec => []LocalAnchorsPublished
BY PersistInvariant, InvImplies, PTL

(* A chain of saves at rest after a write that succeeded has stored what   *)
(* was answered before the last save was asked for (persist of             *)
(* review-ui/start.ts).                                                    *)
THEOREM ChainSavesAll == PersistSpec => []NothingLeftUnsaved
BY PersistInvariant, InvImplies, PTL

(* The stored log only grows until the job writes: snapshots land in the   *)
(* order they were taken, one at a time (persist of review-ui/start.ts).   *)
THEOREM StoredLogGrows == PersistSpec => SavesOnlyGrow
<1>1. ASSUME PersistInv, [PersistNext]_persistVars
      PROVE  [jobSaves' = 0 => IsPrefix(disk.log, disk'.log)]_persistVars
    <2> SUFFICES ASSUME PersistNext, jobSaves' = 0
                 PROVE  IsPrefix(disk.log, disk'.log)
        BY <1>1
    <2>1. IsPrefix(disk.log, disk.log)
        BY <1>1, LogsTyped, PrefixOfItself
    <2>2. CASE Mutate \/ MutateOnly \/ RefuseAnchor \/ StartSave
        BY <2>1, <2>2 DEF Mutate, MutateOnly, RefuseAnchor, StartSave
    <2>3. CASE WriteNext
        <3>1. PICK state \in writing : WriteLands(state) \/ WriteFails(state)
            BY <2>3 DEF WriteNext
        <3>2. CASE WriteLands(state)
            <4>1. disk' = state /\ jobSaves = 0
                BY <3>2 DEF WriteLands, countVars
            <4> QED BY <1>1, <4>1 DEF PersistInv, ChainOK
        <3>3. CASE WriteFails(state)
            BY <2>1, <3>3 DEF WriteFails
        <3> QED BY <3>1, <3>2, <3>3
    <2>4. CASE Restart
        <3>1. PICK state \in {disk} \cup writing : disk' = state
            BY <2>4 DEF Restart
        <3>2. jobSaves = 0
            BY <2>4 DEF Restart
        <3> QED BY <1>1, <2>1, <3>1, <3>2 DEF PersistInv, ChainOK
    <2>5. CASE RequestNext \/ \E r \in Requests \cup {Job} : PublishLands(r)
        BY <2>1, <2>5 DEF RequestNext, BeginAnchor, RecordAnchor, PublishFails, PublishLands
    <2>6. CASE JobBegins \/ JobRecords \/ JobDies
        BY <2>1, <2>6 DEF JobBegins, JobRecords, JobDies
    <2>7. CASE JobSaves
        BY <1>1, <2>7 DEF JobSaves, PersistInv, RestTypeOK
    <2> QED BY <2>2, <2>3, <2>4, <2>5, <2>6, <2>7 DEF PersistNext
<1>2. PersistSpec => [][PersistNext]_persistVars
    BY PTL DEF PersistSpec
<1> QED BY <1>1, <1>2, PersistInvariant, PTL DEF SavesOnlyGrow
=============================================================================
