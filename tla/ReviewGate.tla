----------------------------- MODULE ReviewGate -----------------------------
(***************************************************************************)
(* The attorney checkpoint: drafts written through the drafting service    *)
(* (review-ui/drafting-service.ts, paralegal/drafting.ts), the state       *)
(* machine each of them goes through (core/review-gate.ts), the store that *)
(* holds them (core/work-product-store.ts) and the attorney's side of it   *)
(* (review-ui/review-service.ts).                                          *)
(*                                                                         *)
(* A work product's id wp_<kind>_<n> takes n from a counter of the process *)
(* that no snapshot restores: after a restart a draft of the same kind     *)
(* takes the place of a stored product with its id.  Templates differ in   *)
(* the flags they can carry only; what an agent's time was spent on is     *)
(* left out.                                                               *)
(***************************************************************************)
EXTENDS AccessControl, Deadlines

CONSTANTS
    Kinds,          \* kinds of work product that are drafted
    RequiredFlags,  \* RequiredFlags[k]: flags every draft of kind k gets
    ContextFlags,   \* ContextFlags[k]: flags the request's context can add
    Contents,
    MaxDrafts,      \* bound: drafts made by one process
    MaxCalculations \* bound: calculations recorded

ASSUME ReviewAssumption ==
    /\ DeadlineMatters = Matters /\ Humans = Attorneys
    /\ DOMAIN RequiredFlags = Kinds /\ DOMAIN ContextFlags = Kinds
    /\ MaxDrafts \in Nat /\ MaxCalculations \in Nat

VARIABLES
    products,       \* the store: a function from <<kind, number>> to products
    productSeq      \* workProductSequence

reviewVars == <<accessVars, calculations, products, productSeq>>

Statuses == {"draft", "pending_review", "revision_requested", "approved",
             "released", "rejected"}

DeadlineFlag == "deadline_requires_redundant_verification"
NoDeadline   == "none"
KindFlags == UNION {RequiredFlags[k] \cup ContextFlags[k] : k \in Kinds}
Flags     == KindFlags \cup {DeadlineFlag}

\* relies is the type of the deadline the draft was made with, which only
\* the tracker keeps, and approved holds the content of the last approval.
Product == [matter : Matters, status : Statuses, content : Contents,
            flags : SUBSET Flags, relies : DeadlineTypes \cup {NoDeadline},
            approved : SUBSET Contents]

Editable(id) == products[id].status \in {"draft", "revision_requested"}

Moves(id, status) ==
    /\ products' = [products EXCEPT ![id].status = status]
    /\ UNCHANGED <<accessVars, calculations, productSeq>>

----------------------------------------------------------------------------
(* DraftingService                                                         *)

\* #startDraft and what each kind of draft adds to it.  Agent dates are
\* recorded as the agent's whoever drafts.
StartDraft(actor, m, kind, content, context, type, date) ==
    LET id == <<kind, productSeq + 1>>
        flags == RequiredFlags[kind] \cup context \cup
                   (IF type = NoDeadline THEN {} ELSE {DeadlineFlag})
    IN  /\ AuthorizedStaff(actor, m)
        /\ productSeq < MaxDrafts
        /\ productSeq' = productSeq + 1
        /\ products' = [x \in DOMAIN products \cup {id} |->
                          IF x = id
                          THEN [matter |-> m, status |-> "draft", content |-> content,
                                flags |-> flags, relies |-> type,
                                approved |-> {}]
                          ELSE products[x]]
        /\ IF type = NoDeadline
           THEN UNCHANGED calculations
           ELSE /\ Cardinality(calculations) < MaxCalculations
                /\ RecordDeadline(m, type, date, Agent)
        /\ UNCHANGED accessVars

\* Mutant: the content is locked at release, not at submission.
ReviseDraftLate(actor, m, id, content) ==
    /\ AuthorizedStaff(actor, m)
    /\ products[id].matter = m
    /\ products[id].status \notin {"released", "rejected"}
    /\ products' = [products EXCEPT ![id].content = content]
    /\ UNCHANGED <<accessVars, calculations, productSeq>>

ReviseDraft(actor, m, id, content) ==
    /\ AuthorizedStaff(actor, m)
    /\ products[id].matter = m
    /\ Editable(id)
    /\ products' = [products EXCEPT ![id].content = content]
    /\ UNCHANGED <<accessVars, calculations, productSeq>>

SubmitForReview(actor, m, id) ==
    /\ AuthorizedStaff(actor, m)
    /\ products[id].matter = m
    /\ Editable(id)
    /\ Moves(id, "pending_review")

----------------------------------------------------------------------------
(* ReviewGateService                                                       *)

RequestRevision(actor, id) ==
    /\ actor \in Attorneys
    /\ products[id].status = "pending_review"
    /\ Moves(id, "revision_requested")

Reject(actor, id) ==
    /\ actor \in Attorneys
    /\ products[id].status = "pending_review"
    /\ Moves(id, "rejected")

Approve(actor, id) ==
    /\ actor \in Attorneys
    /\ products[id].status = "pending_review"
    /\ products[id].flags = {}
    /\ products' = [products EXCEPT
                      ![id].status = "approved",
                      ![id].approved = {products[id].content}]
    /\ UNCHANGED <<accessVars, calculations, productSeq>>

Release(actor, id) ==
    /\ actor \in Attorneys
    /\ products[id].status = "approved"
    /\ Moves(id, "released")

\* The deadline flag needs a confirmed deadline of the product's matter: the
\* type is the caller's choice, not the one the draft was made with.
ClearFlag(actor, id, flag, type) ==
    /\ actor \in Attorneys
    /\ flag \in products[id].flags
    /\ flag = DeadlineFlag => type # NoDeadline /\ Confirmed(products[id].matter, type)
    /\ products' = [products EXCEPT ![id].flags = @ \ {flag}]
    /\ UNCHANGED <<accessVars, calculations, productSeq>>

\* Attorneys record as humans, the system credential as the calendar.
ConfirmDeadline(actor, m, type, date) ==
    /\ Cardinality(calculations) < MaxCalculations
    /\ actor \in Attorneys \cup {CalendarSystem}
    /\ RecordDeadline(m, type, date, actor)
    /\ UNCHANGED <<accessVars, products, productSeq>>

\* The store and the tracker come back from the snapshot, the counter does not.
RestartReview ==
    /\ productSeq # 0
    /\ productSeq' = 0
    /\ UNCHANGED <<accessVars, calculations, products>>

----------------------------------------------------------------------------
ReviewInit ==
    /\ AccessInit
    /\ calculations = {}
    /\ products = [id \in {} |-> NoDeadline]
    /\ productSeq = 0

DraftingNext ==
    \E actor \in LegalStaff, m \in Matters :
        \/ \E kind \in Kinds, content \in Contents :
              \E context \in SUBSET ContextFlags[kind] :
                 \/ StartDraft(actor, m, kind, content, context, NoDeadline, NoDeadline)
                 \/ \E type \in DeadlineTypes, date \in Dates :
                       /\ kind = "template"
                       /\ StartDraft(actor, m, kind, content, context, type, date)
        \/ \E id \in DOMAIN products :
              \/ \E content \in Contents : ReviseDraft(actor, m, id, content)
              \/ SubmitForReview(actor, m, id)

AttorneyNext ==
    \E actor \in Attorneys, id \in DOMAIN products :
        \/ RequestRevision(actor, id)
        \/ Reject(actor, id)
        \/ Approve(actor, id)
        \/ Release(actor, id)
        \/ \E flag \in products[id].flags, type \in DeadlineTypes \cup {NoDeadline} :
              ClearFlag(actor, id, flag, type)

ReviewNext ==
    \/ DraftingNext
    \/ AttorneyNext
    \/ \E actor \in Attorneys \cup {CalendarSystem}, m \in Matters,
          type \in DeadlineTypes, date \in Dates :
             ConfirmDeadline(actor, m, type, date)
    \/ StaffAccessNext /\ UNCHANGED <<calculations, products, productSeq>>
    \/ RestartReview

ReviewSpec == ReviewInit /\ [][ReviewNext]_reviewVars

----------------------------------------------------------------------------
ReviewTypeOK ==
    /\ AccessTypeOK
    /\ calculations \subseteq Calculation
    /\ DOMAIN products \subseteq Kinds \X (1 .. MaxDrafts)
    /\ \A id \in DOMAIN products : products[id] \in Product
    /\ productSeq \in 0 .. MaxDrafts

(* "Nothing produced by either agent reaches a client, a filing, or an     *)
(* invoice without passing through a human attorney checkpoint"            *)
(* (core/review-gate.ts): what is approved or released is, letter for      *)
(* letter, what an attorney approved, and no flag on it is left.           *)
ReleasedAsApproved ==
    \A id \in DOMAIN products :
        products[id].status \in {"approved", "released"} =>
            /\ products[id].approved = {products[id].content}
            /\ products[id].flags = {}

(* "Deadline calculations are never single-sourced" (core/deadline.ts): a  *)
(* draft that was made with a deadline loses its deadline flag only when   *)
(* two independent sources had named a date for the matter.                *)
NeverSingleSourced ==
    \A id \in DOMAIN products :
        products[id].relies # NoDeadline /\ DeadlineFlag \notin products[id].flags =>
            \E type \in DeadlineTypes : Redundant(products[id].matter, type)

(* A conflict is "never silently resolved by picking one"                  *)
(* (core/deadline.ts): whoever records whatever after it, and over         *)
(* restarts, a deadline in conflict stays in conflict.                     *)
ConflictStays ==
    [][\A m \in Matters, type \in DeadlineTypes :
          Conflict(m, type) => Conflict(m, type)']_reviewVars
=============================================================================
