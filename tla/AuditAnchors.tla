---------------------------- MODULE AuditAnchors ----------------------------
(***************************************************************************)
(* The hash-chained audit log and its anchors (core/audit.ts,              *)
(* core/audit-anchor.ts, anchorNow of review-ui/audit-service.ts) as       *)
(* operators on the part of the system's state they read and write.        *)
(*                                                                         *)
(* The hash of an entry covers the entry and the hash before it.  Hashes   *)
(* are taken to be free of collisions, so the hash at a sequence number is *)
(* modelled as the log up to there: two logs have the same hash at n       *)
(* exactly when their first n entries are the same.  An anchor, the        *)
(* sequence number of the newest entry with its hash, is then the whole    *)
(* log at the moment it was taken.  Ids tell entries apart whose content   *)
(* and timestamp differ.                                                   *)
(***************************************************************************)
EXTENDS Naturals, SequencesExt

CONSTANT MaxEntries     \* bound: entries ever written, in any process

Actions == {"work", "audit_anchored"}

Entry == [id : 1 .. MaxEntries, action : Actions]
Log   == Seq(Entry)

\* What a snapshot holds of this component.
State == [log : Log, anchors : Seq(Log)]

Empty == [log |-> <<>>, anchors |-> <<>>]

Ids(log) == {log[i].id : i \in DOMAIN log}

\* AuditLog.append
WithEntry(state, id, action) ==
    [log |-> Append(state.log, [id |-> id, action |-> action]),
     anchors |-> state.anchors]

\* AuditLog.verifyAgainstAnchors: neither truncated nor rewritten since.
AnchorsHold(log, anchors) == \A a \in anchors : IsPrefix(a, log)

\* AuditLog.countSince(sequence, ["audit_anchored"]) # 0
WorkSince(log, n) == \E i \in DOMAIN log : i > n /\ log[i].action # "audit_anchored"

\* AuditService.anchorNow up to the publication: there is something to
\* anchor, and the newest local anchor is not the last word.
SomethingNew(state) ==
    /\ state.log # <<>>
    /\ state.anchors # <<>> => WorkSince(state.log, Len(Last(state.anchors)))

\* AuditService.anchorNow after the publication.
WithAnchor(state, head, id) ==
    [log |-> WithEntry(state, id, "audit_anchored").log,
     anchors |-> Append(state.anchors, head)]
=============================================================================
