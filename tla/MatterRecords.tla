---------------------------- MODULE MatterRecords ----------------------------
(***************************************************************************)
(* The records of matters (core/matters.ts), who may edit, close and       *)
(* reopen them (review-ui/matters-service.ts, behind /api/matters in       *)
(* review-ui/server.ts), beside the trust ledger that a close asks for the *)
(* money still held, and the conflict checks run over the records.         *)
(*                                                                         *)
(* Times are positions of the ledger: a file closed when the ledger had n  *)
(* entries has closedAt = n.  Caption, court, key dates and the other      *)
(* descriptive fields are left out, and of a closing its note and its      *)
(* retention date keep only whether they are there.                        *)
(***************************************************************************)
EXTENDS TrustLedger, Conflicts

CONSTANTS
    Filed,          \* bound: the matters whose records requests touch
    PartyLists,     \* the sets of parties an edit can send
    RetentionYears, \* the firm's default, 0 for no retention date
    Unsent,         \* a field the request leaves out
    Spellings       \* Spellings[n]: the ways the name n may be written

ASSUME MatterAssumption ==
    /\ Filed \subseteq Matters /\ {} \in PartyLists /\ RetentionYears \in Nat
    /\ Unsent \notin {"prospective", "open", "closed"}

\* Names are written in ways the comparison is to see through.
ASSUME SpellingAssumption ==
    \A p \in UNION PartyLists :
        /\ p.name \in Names /\ Spellings[p.name] \subseteq Names
        /\ \A n \in Spellings[p.name] : SameName(n, p.name)

VARIABLES matters   \* matters[m]: the record of matter m, or NoRecord

matterVars == <<trustVars, matters>>

\* The route casts body["status"] to the status without checking it:
\* "prospective" stands for it and for any unlisted string, which nothing
\* here tells apart.
MatterStatuses == {"prospective", "open", "closed"}

NoRecord == [status |-> "none"]
NotClosed == MaxEntries + 1 \* closedAt and the rest of a file not closed

Record == [status : MatterStatuses, parties : PartyLists,
           closedAt : 0 .. NotClosed, noted : BOOLEAN, retained : BOOLEAN]

OnFile(m) == matters[m] # NoRecord
Records == [m \in {x \in Matters : OnFile(x)} |-> matters[m]]

\* Mutant: the closing note outlives a reopening.
UpsertKeepsNote(m, status, parties, noted, retained) ==
    LET old == IF OnFile(m) THEN matters[m]
               ELSE [status |-> "open", parties |-> {}, closedAt |-> NotClosed,
                     noted |-> FALSE, retained |-> FALSE]
        now == IF status = Unsent THEN old.status ELSE status
    IN  matters' = [matters EXCEPT ![m] =
            [status   |-> now,
             parties  |-> IF parties = Unsent THEN old.parties ELSE parties,
             closedAt |-> IF now # "closed" THEN NotClosed
                          ELSE IF old.closedAt # NotClosed THEN old.closedAt
                          ELSE Len(entries),
             noted    |-> noted \/ old.noted,
             retained |-> now = "closed" /\ (retained \/ old.retained)]]

\* MatterStore.upsert: a field not sent keeps its value; what belongs to a
\* closing is stamped by the first close and cleared by any other status.
Upsert(m, status, parties, noted, retained) ==
    LET old == IF OnFile(m) THEN matters[m]
               ELSE [status |-> "open", parties |-> {}, closedAt |-> NotClosed,
                     noted |-> FALSE, retained |-> FALSE]
        now == IF status = Unsent THEN old.status ELSE status
    IN  matters' = [matters EXCEPT ![m] =
            [status   |-> now,
             parties  |-> IF parties = Unsent THEN old.parties ELSE parties,
             closedAt |-> IF now # "closed" THEN NotClosed
                          ELSE IF old.closedAt # NotClosed THEN old.closedAt
                          ELSE Len(entries),
             noted    |-> now = "closed" /\ (noted \/ old.noted),
             retained |-> now = "closed" /\ (retained \/ old.retained)]]

\* MattersService.upsert: an edit sends neither note nor retention date, and
\* setting the status to closed asks nothing of the trust ledger.  A field
\* left out is as one sent with the value it has, or with its default.
EditMatter(actor, m, status, parties) ==
    /\ actor \in Attorneys
    /\ Upsert(m, status, parties, FALSE, FALSE)
    /\ UNCHANGED trustVars

\* MattersService.close with a note; years is the request's or the firm's.
CloseMatter(actor, m, years) ==
    /\ actor \in Attorneys
    /\ AuthorizedStaff(actor, m)
    /\ matters[m].status # "closed"
    /\ BalanceForMatter(entries, m) <= 0
    /\ Upsert(m, "closed", Unsent, TRUE, years > 0)
    /\ UNCHANGED trustVars

\* MattersService.reopen, of any matter whatever its status.
ReopenMatter(actor, m) ==
    /\ actor \in Attorneys
    /\ AuthorizedStaff(actor, m)
    /\ Upsert(m, "open", Unsent, FALSE, FALSE)
    /\ UNCHANGED trustVars

\* MattersService.listRetentionDue, once every date has passed.
RetentionDue == {m \in Matters : OnFile(m) /\ matters[m].status = "closed"
                                  /\ matters[m].retained}

----------------------------------------------------------------------------
MatterInit == TrustInit /\ matters = [m \in Matters |-> NoRecord]

MatterNext ==
    \/ \E actor \in Actors, m \in Filed :
        \/ \E status \in MatterStatuses, parties \in PartyLists :
                EditMatter(actor, m, status, parties)
        \/ \E years \in {RetentionYears, 0} : CloseMatter(actor, m, years)
        \/ ReopenMatter(actor, m)
    \/ TrustNext /\ UNCHANGED matters

MatterSpec == MatterInit /\ [][MatterNext]_matterVars

----------------------------------------------------------------------------
MatterTypeOK ==
    TrustTypeOK /\ matters \in [Matters -> Record \cup {NoRecord}]

\* The balance of a matter when the ledger had n entries.
BalanceAt(m, n) == BalanceForMatter(SubSeq(entries, 1, n), m)

(* A file that close() closed, and any file that comes up for destruction  *)
(* when its retention period is over, held no money of the client at the   *)
(* moment it was closed ("a matter holding client funds in trust cannot be *)
(* closed", matters-service.ts close), through any order of closing,       *)
(* reopening, editing and moving money: what it holds now came in later.   *)
(* The note tells such a file from one that an edit of the record set to   *)
(* closed, which asks the ledger nothing.                                  *)
ClosedWhenEmpty ==
    \A m \in Matters :
        OnFile(m) /\ (matters[m].noted \/ m \in RetentionDue) =>
            /\ matters[m].closedAt \in 0 .. Len(entries)
            /\ BalanceAt(m, matters[m].closedAt) = 0

(* Screening is firm-wide and outlives the matter: whatever the status of  *)
(* the matter and the way the name is written, a searched name that would  *)
(* sit opposite a recorded party calls for an attorney's review.           *)
OppositeOf(role) == IF role = "client" THEN "adverse" ELSE "client"

AdverseIsCaught ==
    \A m \in Matters : OnFile(m) =>
        \A p \in {x \in matters[m].parties : x.role \in {"client", "adverse"}} :
            \A n \in Spellings[p.name] :
                RequiresAttorneyReview(Records,
                    {[name |-> n, role |-> OppositeOf(p.role), padded |-> FALSE]}, {})
=============================================================================
