# A verification project for Docket

Docket is the practice-management server of a small criminal-defence firm: one
Node process (`src/review-ui/server.ts`, started by `src/review-ui/start.ts`)
that keeps every record in memory, saves one snapshot of all of it after each
mutation (`src/persistence/`), and is driven by a web UI, by a few jobs cron
starts (`src/integrations/`) and by Stripe's and Twilio's webhooks. All paths
below are relative to the repository's `src/` directory.

These modules model the parts of it where an order of events decides whether the
firm's records are right: client money in trust, invoices and the ways they are
paid, the matters they belong to, appointments and the jobs that work on them, the gate an
attorney guards, accounts, the receptionist on the telephone, and the panels of the dashboard that
several people work in at once. TLC checks them on small instances, and for the cores TLAPS proves the
properties for every instance.

## 1. Inventory

| Component | State | Operations | What makes it hard | What makes it correct |
|---|---|---|---|---|
| Trust ledger (`core/trust-ledger.ts`, `review-ui/trust-service.ts`) | append-only entries, each with its matter's running balance | record, reverse, reconcile | balance cached on entries of interleaved matters; corrections of corrections | no matter below zero; one reversal each; the total is the sum of the movements; of the API's entry types, only attorneys record those that take money out |
| Access control (`core/access-control.ts`, `review-ui/accounts-service.ts`) | a paralegal's one matter, a client's matters | assign, unassign, grant, revoke | changes between any two requests | every handler checks at the time it acts |
| Invoicing (`core/invoicing.ts`, `review-ui/invoicing-service.ts`) | invoices with lines and a status, payments, deliveries | draft, add, remove, send, void, record, charge, pay from trust, mail, remind, checkout, webhook | awaits on the processor, the mail transport and Stripe; webhooks late or twice | status and money agree; issued lines are locked; trust payments are backed; no hour twice |
| Billable hours (`core/billing-hours.ts`) | logged hours, next id | log, delete, bill | ids recomputed by a restart | an hour is billed at most once |
| Appointments (`core/scheduling.ts`) | appointments with status, reminders, calendar event and a pending flag | book, move, cancel, complete, write-backs | ids restart with the process | no attorney in two places |
| Calendar sync (`integrations/appointment-calendar-sync.ts`) | the copies a run fetched | fetch, push, record | desk and calendar change under a run; crashes | what is pending gets synced |
| Reminders (`integrations/appointment-reminders.ts`) | the copies a run fetched | fetch, send, mark | send and mark are apart | due is settled; nobody is told twice |
| Deadlines (`core/deadline.ts`) | calculations with their sources | record, status | who counts as independent | never single-sourced; conflicts stay |
| Review gate (`core/review-gate.ts`, `paralegal/drafting.ts`, `review-ui/drafting-service.ts`, `review-ui/review-service.ts`) | work products with status, content and flags | draft, revise, submit, request revision, reject, approve, release, clear flag | rounds of revision; a restart that reuses ids | what leaves is what was approved |
| Accounts and login (`core/auth.ts`, `core/login-throttle.ts`) | users, sessions, pending ceremonies, failures | login, reset, MFA, passkeys, disable | user records held across awaits; a failure counted an await after the throttle was asked; sliding windows | a disabled account stays out; one attorney stays in |
| Audit and anchors (`core/audit.ts`, `review-ui/audit-service.ts`, `integrations/anchor-audit.ts`) | hash chain, anchors | append, anchor, verify | publish before record; a second process saves the whole state | anchors agree with the log |
| Persistence (`persistence/`, `persist()` in `review-ui/start.ts`) | snapshot, save chain | save, load | answers before saves; failed saves | what was answered survives, and what does not is known |
| Time clock and payroll (`core/time-clock.ts`, `core/payroll.ts` and their services) | shifts, worked hours, rates | punch, correct, post, record, delete, set a rate | posting spans two stores; corrections take any times; rates are back-dated | a shift is paid once and as worked; a rate applies from its date onward |
| Matters (`core/matters.ts`, `review-ui/matters-service.ts`) | matters with status, parties and what belongs to a closing | edit, close, reopen | closing asks the trust ledger once; an edit can set the status too | what close() closed was empty then |
| Conflicts (`core/conflicts.ts`) | none: reads the matters | check a name | one name in many writings; closed matters; sides | whoever sits opposite is caught |
| Receptionist (`receptionist/`, `core/escalation.ts`, `core/router.ts`, `review-ui/intake-demo.ts`) | a session per call or demo, the webhooks under way | start, turn, end | webhooks overlap and repeat; three awaits a turn; gates and emergencies in one sentence | gates before substance; an emergency ends the intake; what is over leaves the line |
| Staff messaging (`core/messaging.ts`, `review-ui/messaging-service.ts`) | conversations, an index of pairs, messages | start, group, add, remove, post | index and counters are not saved | one conversation per pair; a message stays where it was written |
| Calendar connections (`core/calendar-connections.ts`, `review-ui/calendar-connection-service.ts`) | pending states, connections | begin, callback, disconnect | an await between spending the state and storing the connection | one agreement, one connection, of whoever began it |
| Documents and portal (`core/document-store.ts`, `review-ui/documents-service.ts`, `review-ui/client-portal-service.ts`) | documents with who sees them | upload, share, unshare, delete, list | requests by id off an old page; ids given out again | clients see what somebody chose to show |
| Deadline alerts (`integrations/deadline-alerts.ts`, `calendar-deadline-sync.ts`) | a run's digests | fetch, send | a failed send ends the run; everything changes between runs | what came up once is never dropped |
| Client messages, research library, staff schedule, reports, search, vendor clients, pages | see PROJECT.json | | | not modelled, with the reason there |

How they interact: every service is handed the same stores. Invoicing writes to
the trust ledger (`payFromTrust`) and reads the hours; drafting writes to the
deadline tracker, and the gate asks it before a flag is cleared; the jobs
reach appointments only through the server's HTTP routes with the system
credential; everything asks access control first and the snapshot holds it all.
JavaScript runs a handler without interruption up to its next `await`, so a
synchronous handler is one action and an asynchronous one is one action per
stretch between awaits, with the outside's answer as an action of its own.

`PROJECT.json` lists the hazards, each at its line, with the properties that are
there because of it, and in a note what the code does that no property rules out.

## 2. Modules

| Module | Models | Notes |
|---|---|---|
| `AccessControl` | `AccessControl.authorize`, the accounts service's assignments | shared by the modules below |
| `TrustAccount` | nothing in the code: what a trust account promises | abstract specification |
| `TrustLedger` | the ledger and its service | implements `TrustAccount` |
| `Receivable` | what a bill promises | abstract specification |
| `Invoices` | the invoice store and the hours store | operations without access checks |
| `Invoicing` | the services over both, mail, processor, checkout, webhook, restart | composes `TrustLedger`, `AccessControl` and `Invoices`; implements `Receivable` |
| `Scheduling` | the appointment store and the desk | no specification of its own |
| `CalendarSync` | the sync job over `Scheduling` and a calendar | |
| `Reminders` | the reminder job over `Scheduling` and time | |
| `Deadlines` | the deadline tracker | |
| `SignOff` | what a review before anything leaves promises | abstract specification |
| `ReviewGate` | drafting, the gate, the attorney's side | composes `Deadlines` and `AccessControl`; implements `SignOff` |
| `AuditAnchors` | the hash-chained log and its anchors, as operators on a state | a hash is the log up to its entry |
| `Persistence` | the chain of saves of `start.ts`, the store, `anchorNow` and the anchoring job | of the state, only log and anchors |
| `LoginThrottle` | the login throttle, as operators on the failures of a key | |
| `Accounts` | `auth.ts`, the account operations of `accounts-service.ts` and their routes | with `LoginThrottle` |
| `Filtering` | what `Array.filter` returns | by positions, so that proofs can speak of it; used by `LoginThrottle` and `Conflicts` |
| `Conflicts` | how a name is reduced, compared and classified, as operators | |
| `MatterRecords` | the matters' records and their service | composes `TrustLedger` and `Conflicts` |
| `Receptionist` | a turn of a conversation as a function of the session and the words | signals, escalation, router and intake |
| `VoiceLine` | the sessions of calls and demos and the webhooks under way | over `Receptionist` |
| `Payroll`, `TimeClock` | rates and hours; shifts, and their posting | `TimeClock` composes both |
| `Messaging` | staff conversations, their index and counters | |
| `CalendarConnections` | staff connecting their Google Calendar | |
| `ClientFile` | the documents of a matter, for staff and clients | composes `AccessControl` |
| `DeadlineAlerts` | the list of what is coming due and the digest job | composes `Deadlines` |
| `MC*` | the instances TLC checks | with one `.cfg` per question |
| `*Proofs` | theorems of the module they are named for | `CollectionProofs` holds the lemmas about numbers, finite sets and filtered sequences the others cite; `TrustLedgerProofs` is about `MatterRecords` and `Conflicts` too and holds the lemmas about sums; `InvoicingProofs` builds on it; `SchedulingProofs` is about `CalendarSync` and `Reminders`; `GateProofs` about `ReviewGate` and `VoiceLine`; `StaffPanelProofs` about `TimeClock`, `CalendarConnections`, `Messaging`, `ClientFile` and `DeadlineAlerts` |

Definitions whose comment starts with "Mutant:" are not part of any
specification. Each is a plausible bug of the definition after it, and shows that
a property notices.

### How state and actions correspond to the code

*TrustLedger.* `entries` is the ledger's array; an id `trust_<n>` is the position n,
which the snapshot keeps. `balanceAfter` is the field the code caches, and
`BalanceForMatter` reads it off the last entry of the matter, as
`balanceForMatter` does. `RecordEntry` and `ReverseEntry` are the two service methods with
every check before them; a request that throws changes nothing and is a step the
model does not have. Amounts a request can carry include 0 and negative ones.

*Invoices, Invoicing.* An invoice is its matter, its status and its lines (an amount and
perhaps the hour it bills). `chargePayment`, `emailInvoice` and `emailReminder` are a Begin
action up to the `await`, an answer from outside, and a Finish action, with
anything else in between. A checkout session keeps the balance it was made
with; `Webhook` can come at any time after the client paid, and again. `Restart`
drops the handlers that were waiting, keeps what the outside did, and recomputes the
next hour id from the hours kept.

*Scheduling, CalendarSync, Reminders.* `apptSeq` is the module-level counter of
`core/scheduling.ts`; it is not in the snapshot, so `RestoreSchedule` sets it to 0 and the
next booking replaces appointment 1, as the code's `Map.set` does. A run of a job is a
record of the copies it fetched and how far it is with the first of them. The calendar is
external: it hands out event ids, and an owner can remove an event.

*Deadlines, ReviewGate.* The calculations are a set, because only which sources named which
dates matters. A product's `relies` (the deadline its draft was made with) and
`approved` (the content of the last approval) are history variables: no action reads
them. The counter of work products is lost in a restart like the one of appointments.

*AuditAnchors, Persistence.* A state is its audit log and its anchors: every mutation
writes an entry, so the log says which mutations a state has seen, and what is lost
with the log is lost with everything else. `memory` is the server's state, `disk` what
the store would return, `queued` the saves chained behind `pendingSave`, `writing` the snapshots
handed to `StateStore.write` (`StartSave` takes the snapshot in one synchronous stretch,
`WriteLands` is the rename or the upsert), `failed` whether the last write was caught.
`due` is a history variable: the log when a save was last asked for. An anchoring is in phase
`publishing` until the destination has it, `published` until the receipt is back, and in the job
`saving` until `saveSystemState` is through. The hash of an entry is modelled as the log up to it, which is
what it commits to.

*Accounts.* A user record keeps what decides who gets in: `disabled`, the password, the authenticator
(its secret and last used step), recovery codes, the pending secret and passkeys; secrets, sets of codes, links and
challenges are ids. A request of a signed-in user has two steps, `Arrive` (the session, and with it
the role, is resolved) and the handler, which acts once the body has been read: a user who was
disabled in between still acts, as in the code. Signing in, resetting by link and logging out have no
await after what they check and are one action each. A passkey ceremony has four: ask the provider
(`BeginPasskey*`), keep its challenge (`ChallengeIssued`), spend the challenge and read the
record (`CompletePasskey*`), and write it back on the verdict (`FinishPasskey*`). To begin one is an await also when it is refused at
once (`RefusePasskeyLogin`): the failure is counted in `BeginFails`, with anything in between; a provider that
throws counts none (`ProviderFails`). `passkey/complete` never asks the throttle, so its failures are counted in the step that fails. `WriteBack` also
records in `undone` which newer parts of the record were lost: that an account was disabled or
enabled, its password, or its factors. `spent`, `spentTwice` and `together` are history too.

*MatterRecords, Conflicts.* A matter's record keeps its status, its parties and what a closing stamps: when (as the
length of the ledger then), a note, a retention date. `Upsert` is `MatterStore.upsert`, which
`EditMatter`, `CloseMatter` and `ReopenMatter` call with what each of them sends. A raw name is the list of its words, already lower-case tokens, and
the place of its comma; `NormalizeName`, `CompareNames` and `Classify` are the three functions of
`conflicts.ts`, and `Check` goes over every party of every record.

*Receptionist, VoiceLine.* What a caller says is the record of what the patterns find in it. `HandleMessage` is
`ReceptionistChatSession.handleMessage`: the answer to the pending gate, `Route` (`Router.route` over `Evaluate`, the
escalation rules), and the next question. A webhook of a call (`turns[w]`) waits for the recording, the transcript and
the spoken reply, holds the session it looked up, and takes the call off the line when it is through or fails.
`heard` and `named` are history.

*Payroll, TimeClock.* Rates are appended, hours are recorded and deleted, shifts never go away. Posting records the hours and
marks the shift in one step, as the code does in one turn. `RateOn` is the stable sort by effective date: of two rates
from one day the later one set.

*Messaging, CalendarConnections, ClientFile.* Each has the counters, indexes and pending requests the snapshot does
not keep, and a restart that works them out again from a saved copy that may be old. `under` (the pair or founder a message was
written under), `completed` (connections made of a state), `upload` and `chosen` (which upload a document is, and what a
share of it was meant for) are history.

*DeadlineAlerts.* A run reads the list in one request (`FetchUpcoming`), groups it by recipient and sends one digest after the other;
a failed send ends it. Between two sends anything may happen. `listed` is history.

## 3. Runs

| Run | Question | States | Result |
|---|---|---|---|
| `trust_ledger` | Do interleaved matters, reversals, reassignments, closings and reopenings keep ledger and files sound, does the ledger implement the account, and does the conflict check catch who sits opposite? | 495 thousand | holds |
| `invoicing` | Do payments of four kinds, mail, edits and restarts keep invoices, trust and hours consistent? | 318 thousand | holds |
| `calendar_sync` | Is nobody booked twice, and is everything pending synced in the end? | 1.02 million | holds |
| `calendar_lost_change` | Is what is not pending on the calendar? | | violated |
| `reminders` | Is every due reminder settled, and nobody told again? | 180 thousand | holds |
| `review_gate` | Does only the approved leave, and is no deadline single-sourced? | 169 thousand | holds |
| `persistence` | Does the chain of saves lose nothing it was asked to store, and do anchors agree with the log, over failed writes and crashes? | 254 thousand | holds |
| `persistence_job` | Does the anchoring job only append to what is stored? | | violated |
| `accounts` | Does an attorney stay enabled, do sessions fit their accounts, is nothing accepted twice, are guesses bounded and do the disabled stay out? | 8.70 million | holds |
| `staff_panels` | Do shifts, messages, calendar connections, documents and the deadline digest keep their promises over corrections, old pages, overlapping callbacks and restarts? | 2.06 million | holds |
| `reception` | Do the gates come before substance, emergencies before the gates, and does what is over leave the line, with overlapping and failing webhooks? | 505 thousand | holds |
| `reception_unscreened` | Is a caller on the telephone who names an adverse party stopped? | | violated |

The three violated runs each state a sentence of the code's own comments, quoted in
`PROJECT.json` under findings, and TLC's trace is a sequence of legal calls that
contradicts it:

* an appointment is moved after the sync job fetched it, and the job's write-back
  clears the flag of the move;
* the server saves while the anchoring job awaits the destination, and the job then writes back the
  state it had loaded;
* a caller on the telephone names a party the firm must not act against, and is asked the intake
  questions: the line's sessions have no conflict checker, which only the demo of the dashboard is given.

Three more disagreements of code and comments are visible in the models without a run of their own: the draft
is edited while `emailInvoice` awaits the transport, then issued as edited (`review-ui/invoicing-service.ts:739` calls the
portal's copy "The exact document that was emailed"); a checkout session is paid after a check was recorded for part of
the invoice (`:760-762`: "a partially paid invoice can't be charged twice for the already-paid portion"); and an attorney
clears the deadline flag naming another deadline of the same matter that happens to be confirmed
(`review-ui/review-service.ts:123-125`).

The properties of the new components name what they do not promise, and those cases are reachable too:
`ClosedWhenEmpty` is about files that `close()` closed, because an edit that sets the status to closed asks nothing of the ledger;
`PunchesDontOverlap` about shifts nobody corrected, because a correction is compared with no other shift; `SharedByChoice`
about pages of this life of the server, because document ids are given out again after the last document is deleted and the server restarted;
`RateAppliesFromItsDate` is about the days before a rate's date: on the days from its date on, a rate changes what is on record, also when it is set later than they were, and `EmergencyEndsIntake` allows the two other
scripts that a sentence with an emergency in it may get; `NothingDropsOff` speaks of runs that end, because one refused address ends a run for everyone after it.

`accounts` holds with exceptions that its properties name, and they are reachable: a passkey
registration or sign-in that was under way brings back a disabled account or an old password, and lets a spent
code be used again, because it writes back the record it read before its await. `core/auth.ts:54`
says that disabled accounts can never log in again, and `core/auth.ts:657` that a recovery code
works exactly once; with the exceptions of `undone` removed, TLC finds both untrue within the bounds.
`GuessesBounded` counts the failures the throttle let through: `passkey/complete` records failures
without asking it. Its bound is more than the maximum: `passkey/begin` asks the throttle (`review-ui/server.ts:660`), awaits
`beginPasskeyLogin` and counts a failure when that has been refused (`:666-670`), so attempts under way together do not see each other's
failures. `together` is the most that were under way on a key when one more was let through, and the failures exceed the maximum by no more
than that; TLC reaches the bound. `/api/login` asks and counts in one step. The comment at `:644-651` says that `begin` has
"the same throttle keys/accounting", which is true of attempts that come one at a time.

Two more promises of comments hold in part, and the properties state the part. `core/payroll.ts:16-18` says that a raise "never silently
restates what someone was already paid, so recomputing an old period gives the same answer": `setRate` takes any date, and one that
is past restates the days since. `review-ui/trust-service.ts:19` says "Money leaving the account is attorney-only": only `disbursement`, `earned_fee_transfer` and
`refund` ask for an attorney, and the route hands on any string as the type (`review-ui/server.ts:2219-2220`), "reversal" included, which the ledger
takes for money going out. `LoweredByAttorneys` is the claim with that exception, and without it TLC finds the entry.

Two hazards are covered less than their properties' names suggest. A reminder whose mark is lost, because the run dies between the
send and the write, is sent again: `NotToldAgain` is about marked ones. And no property notices that a flag was
cleared on another deadline than the draft's: a draft names none, so `NeverSingleSourced` can only speak of a date of the matter.

### Bounds and why they are enough

* `trust_ledger`: two matters so that one's money could pay for the other, one paralegal
  who can be moved between them, amounts 0 and 1 so that a refused and a good one occur, four entries so that a deposit,
  a withdrawal, the reversal of one and a further attempt fit; the record of one matter, with two lists of parties,
  beside them. A client and an adverse company are each written in every way the code reduces: with a comma, a title,
  an initial, a suffix, another company form.
* `invoicing`: `Bound` lets two invoices share two hours, and two sessions and two
  payments meet on an invoice; `MaxWork` bounds their sum so that any few of them
  combine but not all at once. A line comes to 0 or 2, a payment to 1 or 2: part and full
  payment and an invoice over nothing occur.
* `calendar_sync`, `reminders`: two appointments that can overlap, lengths 1 and 2 for the
  calendar, two reminders each for the reminder job; one fault of any kind. One run at a time,
  which is how cron runs a job that ends before the next start; what overlapping runs
  do is in the hazards.
* `review_gate`: one draft per life of the process, and a restart after which the next draft
  takes its place; two attorneys, so that two humans can agree; two deadlines, two
  dates and three calculations, so that one confirmed and one single-sourced deadline
  coexist.

* `persistence`: three entries, so that an anchor can be followed by work and recorded late,
  two waiting saves behind one under way, two anchoring requests that overlap, one run of the
  job, and two faults, so that a save fails and the server dies, or dies twice.

* `accounts`: two attorneys, one of whom the other creates, two passwords (symmetric), one passkey and one
  address; `MaxWork` is six operations, failures and steps of the clock together, in any mixture: enough to sign
  in, enroll, create the other, begin a ceremony and disable during it, and for a link or challenge, valid for
  one step, to expire. `MaxAsking`: two handlers await the beginning of a ceremony at once, and a third attempt can pass beside them; with two failures
  allowed, keys go past the maximum by one and by two. Arrivals, verdicts and the end of sessions are free.

* `staff_panels`: the panels share no state and no step of one looks at another, so which panel is in use is chosen once and
  the others rest: what holds of each holds of all together. (Documents and the rest of the system share access control, which `ClientFile` moves
  freely; deadlines share the tracker, which `DeadlineAlerts` does too.) Per panel: two shifts, three ids of
  payroll (a rate, hours that earn it and a later rate, or two rates and hours), two days and shifts of no, half and a whole thousandth of an hour; two colleagues, two
  conversations and messages, with any number of restarts; two owners, three states and two callbacks at once; two matters, two uploads, one
  restart; two matters with one deadline each, two dates and two sources (the agent and the calendar), one attorney, a good, a bad and a catch-all address, four days.
* `reception`: one call with two webhooks at once and two sessions, so that a call can start over under a turn and a demo
  run beside it; nineteen utterances, one for each thing the receptionist tells apart and the combinations that compete; three questions,
  of which two gate.

### Fairness

Only the jobs and the chain of saves have it. `Persistence` assumes that a chained save
starts when the one before it has ended, which is what `.then` after `.catch` means, and that a write
that was issued lands or fails. Of the jobs: `CalendarSync` and `Reminders` assume that a run that is
started goes on and that cron starts the next (weak fairness of a run's own
step). It is justified by the jobs' code, which catches the failure of every single item
and continues, and by the crontab the integrations are written for. Failures, crashes and
restarts are never fair and are bounded by `MaxFaults`: "once failures stop" is part of what the
liveness properties say. The desk, attorneys, clients, Stripe and the mail transport need
never act. `PendingIsSynced` has one exception that the code really has: an appointment that
names an event the calendar no longer has fails for ever.

Deadlock is checked in every run but the two of `Persistence`, where entries, faults and runs of the
job are used up and nothing is left to save, `accounts`, where the work is used up and nobody signed in, and `staff_panels`, where ids, time and
uploads are: bounded as the records are, there is otherwise always somebody who
can still act (an assignment can change, an appointment can be cancelled again, a server
can restart).

## 4. Theorems

All proofs are for every value of the constants that meets the named assumptions
(`AccessAssumption`, `TrustAssumption` and so on), which ask no more than that the sets of
actors are disjoint, amounts are integers, bounds are naturals, the empty list of parties can be sent
(`MatterAssumption`) and the days hours can be dated have a last one (`PayrollAssumption`, without which
the latest rate that applies need not exist), that a lockout lasts no shorter than the window failures are counted in, as the defaults do
(`ThrottleAssumption`, without which a key over its limit could try again), and, for the screening, that a party's other spellings are the same name in the
sense of `SameName` (`SpellingAssumption`, below). The type invariants of the proved modules are theorems and not part of the runs.

* **Trust ledger** (`TrustLedgerProofs`). The safety invariants are not inductive alone: that a matter
  is never overdrawn rests on the balances the entries carry. `LedgerInv` adds
  `BalancesDefined` (the last balance of every matter is a natural number, 0 without entries)
  and `ReversalsAreTyped` (only reversals point back, and to entries of the right kind). From
  it follow `LedgerNeverOverdrawn`, `EntriesReversedAtMostOnce`,
  `LedgerLoweredByAttorneys` (with `AmountsPositive`, an entry's type says which way it moved the balance), and, step by step, that the ledger implements
  `TrustAccount` (`LedgerImplementsTrustAccount`).
* **Matters** (there too). `MattersKeepTheLedger` carries everything above over to the run's specification, because
  requests about matters only read the ledger. `ClosedWhenEmpty` looks at a note, a retention date and a time that any later
  edit inherits, so `FileSound` adds that a file that is not closed has none of the three; and that the ledger
  only grows (`LedgerGrows`) keeps the balance at the time of closing what it was.
* **Conflict screening** (there too). `SameName` says of two names as they were written when they are one: the words that say who it is are the same or fewer, in any
  order and between any titles, suffixes and company forms, or the last word of the family part is the same and the first of the given part has the same initial (the parts are those before and behind the comma, or the whole name). `SameNamesMatch` is about the function and not about
  states: the comparison matches any two such names. It goes through what reducing keeps: turning a name around moves its words (`TurnedAround`), the tokens left are those that
  say who it is (`NormalIdentity`), counting them decides which of two names is the shorter, so that a contained name is contained (`ShortensMatches`), and the first and the last of them are the first name and the surname wherever the comma was (`NormalEnds`). `AdverseIsAlwaysCaught` follows for every state, whatever
  became of the matters. Outside `SameName`: a name that is nothing but titles, which the code matches with nothing, and one that is but one token of one or two letters, which it matches with itself only. `ScreeningIsSymmetric`: which name is searched and which is on record makes no difference for names that repeat no word. The condition is
  needed: "smith smith john" contains no word "john q smith" lacks and matches it strongly, and the other way round nothing matches.
* **Sums** (there too). What an amount adds up to over a finite set is defined by a choice of elements, and the induction it asks for is done by
  a smallest counterexample: every subset of a finite set is good when each is whose smaller ones are (`SubsetInduction`). From it, adding one element
  adds its amount (`SumOneMore`), and `LedgerAddsUp`: the total of the balances is the sum of all movements.
* **Invoicing** (`InvoicingProofs`). `InvoicingInv` is `LedgerInv` with the types of the store and of what waits outside (`OutsideTypeOK`), that whatever
  waits is about an invoice that is there (`PointersOK`: a webhook or a charge lands after any number of other steps), and the properties themselves. Every step of
  every actor is one of six things done to the store (`BillStep`) and one of five done to the money (`MoneyStep`); each is shown to keep the
  invariant, and not to take anything back (`BillsGrow`), once. That a transfer is never left without its payment rests on the check before it and the store's
  being the same. From the same case split follow `SentInvoicesLock` and, bill by bill, that the invoices implement `Receivable`
  (`InvoicesImplementBills`): the largest total a bill can be issued with exists because the amounts of a line are finitely many (`InvoicesAssumption`).
  The ledger keeps its promises in this composition too: every step leaves it alone, records one entry or reverses one (`LedgerSteps`), so it still implements the trust account
  (`InvoicingImplementsTrustAccount`, for the amounts payments can have as well) and its total is still every movement (`InvoicingAddsUp`).
* **Appointments and calendar** (`SchedulingProofs`). `SyncInv` is the type
  invariant with `NoDoubleBooking`; the lemmas are one per desk operation and the two jobs'
  write-backs, which change neither times nor statuses. The types of the fetched copies are
  needed because a write-back after a restart lands on whatever has the id by then.
* **Reminders** (there too). `ToldOnce` assumes that one run is alive at a time. Its invariant is that nothing the run still has to send is marked:
  the desk only takes marks back, and the run has no two copies of one reminder.
* **Review gate** (`GateProofs`). `ReviewInv` is the type invariant with `ReleasedAsApproved` and
  `NeverSingleSourced`. The second needs that calculations only grow, so redundancy,
  once reached, stays; the same fact gives `ConflictsAreNeverResolved`, an action property. `ReviewImplementsSignOff` shows, action by action, that the gate implements `SignOff`, whose
  documents are `Documents` here: drafts, submissions and requests for a revision are all work on a document, approval signs it, and a signed document changes no more. That a later draft can take
  the number of a released product is in `SignOff` as `Forget`, the restart: within one life of the process no number is used twice.
* **Persistence** (`PersistenceProofs`). Neither `NothingLeftUnsaved` nor the growth of what is stored is
  inductive: both rest on `ChainOK`, that at most one write is under way, that its snapshot extends what is
  stored and is extended by the live state, and that an empty queue means the write under way covers
  what is due. `HeadsOK` (an anchoring under way holds a head of the log it will be recorded in, and
  what was published is at the destination) carries the two invariants about anchors over the
  await, restarts and the job's overwriting of the store. `StoredLogGrows` is the action property.
* **Accounts** (`AccountsProofs`). `AccountsInv` is the type invariant with three parts. `WhoGetsIn` holds the two
  invariants about attorneys and sessions and what they need, that a sign-in ceremony read an enabled record. `FactorsOnce`
  says of every record, also of those in a ceremony's hands, that its codes were issued so far, and that nothing accepted is in it
  any more unless its factors were put back. `TicketsOnce` says where a challenge is: being asked for, pending or in one handler's
  hands, never in two of them. Most handlers are one of four kinds of step, proved once each: the records stay (`QuietStep`), a record changes and nothing
  is accepted (`PlainStep`), a code is (`CodeStep`), or a ceremony writes back (`FinishStep`). `DisabledStaysDisabled` is the action property.
* **Throttle** (there too). `ThrottleOK` says of every key, addresses as well as usernames, that the failures within the window which the throttle let through and the attempts
  under way that may still add one are together at most the maximum and the most that were under way when one more was let through; an attempt under way is a guess not counted yet. `ThrottleStep` lists what a step can do.
  An attempt that is let through, counted at once or later, is the argument: it found fewer failures than the maximum in the window, or a lockout that had run out, and since a lockout outlasts
  the window, then nothing in it (`RoomLeft`); and as many attempts under way as the history is raised to (`AfterLetThrough`). One that is counted later only turns from an attempt under way into a failure. What remains of the failures is the filtered sequence, each kept at a place of its own (`KeptElements`).
* **Voice line** (`GateProofs`). `GatesBeforeSubstance` and `EmergencyEndsIntake` speak of one session and follow from
  `SessionSound`, which adds that an answer of substance was taken only behind the gates and that a session is over when its gate says so. `FinishedLeavesLine` needs
  `OneOwner`: a session is on one line at most, and only its own call's webhooks act on it.
* **Time clock** (`StaffPanelProofs`). `ShiftsSound` adds that punched times are in the past, so the next punch comes after them, and that a
  posted shift is closed and the only one of its entry; `OneOpenShift` that nobody is on the clock twice. `RateAppliesFromItsDate` is an action property; that
  there is a rate to compare with (`RateIsThere`) rests on the latest day that applies, which is there by well-foundedness.
* **Other staff panels** (there too). For connections: a state that was spent is pending no more, and a callback under way holds one that was spent.
  For messages: the index of pairs and the conversations agree, the counters are beyond every number in use, and the saved copy
  is one of these states too. For documents: what clients can see was chosen for the upload that has the id now, in the live store and in the saved one.

* **Deadline digests** (there too). `StillListed`: what was ever listed is coming due now, because dates are only added and the soonest of a deadline only comes nearer. `Accounted`: a run that has
  not failed has told of what is listed, skipped it, or holds it in a digest still to be sent. That grouping by recipient loses nobody needs only that the chosen order of the recipients is an order of all of them.

Filters are written in `Filtering` as the elements at a set of positions: the community module's `SelectSeq` is recursive, and what it leaves cannot be proved. The inductive invariants can be evaluated by TLC: those
of the throttle and of the digests were checked on the instances of their runs before they were proved, and so were the refinements no run has among its properties (`SignOff`, and the trust account under invoicing).

What is only model-checked: liveness (`PendingIsSynced`, `DueIsSettled`, `SavedInTheEnd`), which is out of this prover's reach. Every other property of a passing run is a theorem. What the three violated runs
state is untrue of the code, and there is nothing to prove.

## 5. Plan

What is left to prove: abstract specifications of the desk's diary and of the time clock, as there are of the ledger, the invoices and the gate. What is left
of the code: client messages and the routes of the components that are not modelled.

## 6. Not modelled

* *Text*: rendering of invoices and reports, prompts, search, speech, and which words make a name's tokens or a caller's signal.
* *Vendors' protocols*: SMTP, Stripe's, Google's and Twilio's APIs appear as an answer from outside.
* *Cryptography*: signatures and hashes are taken at their word.
* *Dates and numbers of invoices, business hours, the automatic choice of an attorney*: no property depends on them.
* *Client messages, research library, staff schedule, audio clips*: keyed records that one synchronous handler stores, lists or deletes, and that
  nothing else reads; there is nothing to interleave.
* *The interpreter gate*: no session reaches it, because the signal it waits for is overwritten before it is evaluated (`core/router.ts:65`).
* *The type of a trust entry off the wire* (`review-ui/server.ts:2220`) is modelled as any string, and no property rules out what an unlisted one does:
  it takes money out without the attorney's check (section 3).
