----------------------------- MODULE TrustLedger -----------------------------
(***************************************************************************)
(* The client trust ledger (core/trust-ledger.ts) behind its service       *)
(* (review-ui/trust-service.ts) and route (review-ui/server.ts).           *)
(*                                                                         *)
(* The ledger is one append-only list of entries over every matter.  An    *)
(* entry is never edited: it carries the running balance of its own matter *)
(* and a mistake is corrected by appending the inverse.  Nothing is ever   *)
(* removed and nextId is saved with the list, so the id trust_<n> of an    *)
(* entry is its position n and an entry is named here by its position.     *)
(* Descriptions, references, reasons and timestamps are left out.          *)
(***************************************************************************)
EXTENDS AccessControl, Integers, Sequences, SequencesExt

CONSTANTS
    Amounts,        \* amounts a request can carry, valid or not
    MaxEntries      \* bound: entries in the ledger

ASSUME TrustAssumption == Amounts \subseteq Int /\ MaxEntries \in Nat

VARIABLES entries   \* the ledger, oldest entry first

trustVars == <<accessVars, entries>>

OutboundTypes == {"disbursement", "earned_fee_transfer", "refund"}

\* The route casts body["type"] to the entry type without checking it, so
\* besides the four types a client of the API should send, "reversal" and
\* "unlisted" (standing for any other string) reach the service too.
UncheckedTypes == {"reversal", "unlisted"}
RequestTypes   == {"deposit"} \cup OutboundTypes \cup UncheckedTypes

NoEntry == 0

Entry == [matter : Matters, type : RequestTypes, amount : Int,
          reversalOf : Nat, balanceAfter : Int, by : Actors]

LastOnMatter(log, m) == SelectLastInSeq(log, LAMBDA e : e.matter = m)

\* Mutant: the running balance of the account, not of the matter.
BalanceOfAccount(log, m) == IF log = <<>> THEN 0 ELSE log[Len(log)].balanceAfter

\* TrustLedger.balanceForMatter: the running balance on the matter's last entry.
BalanceForMatter(log, m) ==
    LET last == LastOnMatter(log, m)
    IN  IF last = 0 THEN 0 ELSE log[last].balanceAfter

\* INCREASES_BALANCE holds "deposit" alone: any other type takes money out.
SignedDelta(type, amount) == IF type = "deposit" THEN amount ELSE -amount

\* What entry e of the log did to its matter's balance.
Effect(log, e) ==
    IF e.reversalOf = NoEntry
    THEN SignedDelta(e.type, e.amount)
    ELSE -SignedDelta(log[e.reversalOf].type, log[e.reversalOf].amount)

ReversedIn(log) == {log[i].reversalOf : i \in DOMAIN log} \ {NoEntry}

\* TrustLedger.totalBalanceCents, the ledger side of a reconciliation.
MattersSeen == {entries[i].matter : i \in DOMAIN entries}
LedgerTotal == SumFunction([m \in MattersSeen |-> BalanceForMatter(entries, m)])

----------------------------------------------------------------------------
(* core/trust-ledger.ts.  Each operation throws, changing nothing, where   *)
(* its guard is false.                                                     *)

\* Mutant: the account as a whole must not be overdrawn, a matter may be.
MayPostOnTotal(m, delta) ==
    /\ Len(entries) < MaxEntries
    /\ LedgerTotal + delta >= 0

MayPost(m, delta) ==
    /\ Len(entries) < MaxEntries
    /\ BalanceForMatter(entries, m) + delta >= 0

\* TrustLedger.#append
AppendEntry(m, type, amount, reversalOf, by, delta) ==
    /\ MayPost(m, delta)
    /\ entries' = Append(entries,
                    [matter |-> m, type |-> type, amount |-> amount,
                     reversalOf |-> reversalOf, by |-> by,
                     balanceAfter |-> BalanceForMatter(entries, m) + delta])

\* TrustLedger.record
LedgerRecord(by, m, type, amount) ==
    /\ amount > 0
    /\ AppendEntry(m, type, amount, NoEntry, by, SignedDelta(type, amount))

\* Mutant: an entry that was already reversed can be reversed again.
LedgerReverseAgain(by, i) ==
    /\ i \in DOMAIN entries
    /\ entries[i].type # "reversal"
    /\ AppendEntry(entries[i].matter, "reversal", entries[i].amount, i, by,
                   -SignedDelta(entries[i].type, entries[i].amount))

\* Mutant: a reversal always puts the amount back, even of a deposit.
LedgerReverseUpwards(by, i) ==
    /\ i \in DOMAIN entries
    /\ entries[i].type # "reversal"
    /\ i \notin ReversedIn(entries)
    /\ AppendEntry(entries[i].matter, "reversal", entries[i].amount, i, by,
                   entries[i].amount)

\* TrustLedger.reverse
LedgerReverse(by, i) ==
    /\ i \in DOMAIN entries
    /\ entries[i].type # "reversal"
    /\ i \notin ReversedIn(entries)
    /\ AppendEntry(entries[i].matter, "reversal", entries[i].amount, i, by,
                   -SignedDelta(entries[i].type, entries[i].amount))

----------------------------------------------------------------------------
(* review-ui/trust-service.ts.  reconcile() only reads the ledger.         *)

\* TrustService.record
RecordEntry(actor, m, type, amount) ==
    /\ AuthorizedStaff(actor, m)
    /\ type \in OutboundTypes => actor \in Attorneys
    /\ LedgerRecord(actor, m, type, amount)
    /\ UNCHANGED accessVars

\* TrustService.reverse: the entry is looked up among matter m's entries.
ReverseEntry(actor, m, i) ==
    /\ AuthorizedStaff(actor, m)
    /\ actor \in Attorneys
    /\ i \in DOMAIN entries /\ entries[i].matter = m
    /\ LedgerReverse(actor, i)
    /\ UNCHANGED accessVars

----------------------------------------------------------------------------
TrustInit == AccessInit /\ entries = <<>>

TrustNext ==
    \/ \E actor \in Actors, m \in Matters, type \in RequestTypes, amount \in Amounts :
            RecordEntry(actor, m, type, amount)
    \/ \E actor \in Actors, m \in Matters, i \in DOMAIN entries :
            ReverseEntry(actor, m, i)
    \/ StaffAccessNext /\ UNCHANGED entries

TrustSpec == TrustInit /\ [][TrustNext]_trustVars

----------------------------------------------------------------------------
TrustTypeOK == AccessTypeOK /\ entries \in Seq(Entry)

(* The no-overdraw rule: no running balance of any matter, at any point of *)
(* the history, is negative - "no path can bypass it"                      *)
(* (core/trust-ledger.ts record).                                          *)
NeverOverdrawn == \A i \in DOMAIN entries : entries[i].balanceAfter >= 0

(* An entry is reversed at most once, by an entry of the same matter and   *)
(* amount that comes after it, and a reversal is never itself reversed:    *)
(* however many corrections are appended, money is put back only once.     *)
ReversedAtMostOnce ==
    \A i \in DOMAIN entries :
        LET r == entries[i].reversalOf
        IN  r # NoEntry =>
                /\ r \in 1 .. (i - 1)
                /\ entries[r].type # "reversal"
                /\ entries[r].matter = entries[i].matter
                /\ entries[r].amount = entries[i].amount
                /\ \A j \in DOMAIN entries : entries[j].reversalOf = r => j = i

(* Reconciliation is sound: the sum of the running balances that           *)
(* totalBalanceCents reads off each matter's last entry is the sum of      *)
(* every movement ever recorded, over all matters together.                *)
LedgerTotalIsEveryMovement ==
    LedgerTotal = SumFunction([i \in DOMAIN entries |-> Effect(entries, entries[i])])

(* Whatever lowered a matter's balance was recorded by an attorney, or     *)
(* under a type that is none of the API's.  "Money leaving the account is  *)
(* attorney-only" (review-ui/trust-service.ts) is less than true: the type *)
(* is not checked, and only the three that take money out ask for an       *)
(* attorney.  An entry that reverses none and bears such a type is the     *)
(* whole of the difference.                                                *)
LoweredByAttorneys ==
    \A i \in DOMAIN entries :
        Effect(entries, entries[i]) < 0 =>
            \/ entries[i].by \in Attorneys
            \/ entries[i].reversalOf = NoEntry /\ entries[i].type \in UncheckedTypes

(* The ledger implements the trust account: the funds are the running      *)
(* balances, a movement is an entry that reverses none, and reversing it   *)
(* undoes exactly that movement on exactly that matter.                    *)
Movements == {i \in DOMAIN entries : entries[i].reversalOf = NoEntry}

Account == INSTANCE TrustAccount WITH
    Ids    <- 1 .. MaxEntries,
    Deltas <- {a \in Amounts : a > 0} \cup {-a : a \in {b \in Amounts : b > 0}},
    funds  <- [m \in Matters |-> BalanceForMatter(entries, m)],
    moved  <- [i \in Movements |->
                 [matter |-> entries[i].matter,
                  delta  |-> SignedDelta(entries[i].type, entries[i].amount)]],
    undone <- ReversedIn(entries)

ImplementsTrustAccount == Account!Spec
=============================================================================
