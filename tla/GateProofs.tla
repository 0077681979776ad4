------------------------------ MODULE GateProofs ------------------------------
(***************************************************************************)
(* Proofs about the two gates.  What leaves the firm passes the attorney   *)
(* checkpoint and the redundant deadlines: for any staff, matters, kinds   *)
(* of draft, flags, contents and bounds.  What a caller tells comes after  *)
(* the questions that screen it: for any questions, utterances, calls and  *)
(* webhooks that overlap, demos and restarts.                              *)
(***************************************************************************)
EXTENDS ReviewGate, VoiceLine, TLAPS

----------------------------------------------------------------------------
(* The review gate.                                                        *)

ReviewInv == ReviewTypeOK /\ ReleasedAsApproved /\ NeverSingleSourced

(* Redundant, of any set of calculations.                                  *)
RedundantIn(C, m, type) ==
    \E c, d \in {x \in C : x.matter = m /\ x.type = type} : c.source # d.source

(* What the three invariants ask of one product, given the calculations.   *)
ProductOK(p, C) ==
    /\ p \in Product
    /\ p.status \in {"approved", "released"} => p.approved = {p.content} /\ p.flags = {}
    /\ p.relies # NoDeadline /\ DeadlineFlag \notin p.flags =>
          \E type \in DeadlineTypes : RedundantIn(C, p.matter, type)

RestOK == /\ AccessTypeOK
          /\ calculations \subseteq Calculation
          /\ DOMAIN products \subseteq Kinds \X (1 .. MaxDrafts)
          /\ productSeq \in 0 .. MaxDrafts

AllOK == \A id \in DOMAIN products : ProductOK(products[id], calculations)

(* The invariant is one condition on every product, and the types of the   *)
(* rest.                                                                   *)
LEMMA InvParts == ReviewInv <=> RestOK /\ AllOK
BY DEF ReviewInv, ReviewTypeOK, ReleasedAsApproved, NeverSingleSourced, ProductOK,
       RestOK, AllOK, Redundant, RedundantIn, CalculationsOf

(* The same of the state after a step.                                     *)
LEMMA InvPartsNext == RestOK' /\ AllOK' => ReviewInv'
BY DEF ReviewInv, ReviewTypeOK, ReleasedAsApproved, NeverSingleSourced, ProductOK,
       RestOK, AllOK, Redundant, RedundantIn, CalculationsOf

(* Calculations are only added, so what was redundant stays redundant.     *)
LEMMA ProductStaysOK ==
    ASSUME NEW C, NEW D, C \subseteq D, NEW p, ProductOK(p, C)
    PROVE  ProductOK(p, D)
BY DEF ProductOK, RedundantIn

(* A step that puts one good product at one id and leaves the others as    *)
(* they are keeps every product good.                                      *)
LEMMA OneProductChanges ==
    ASSUME AllOK, calculations \subseteq calculations',
           NEW id, NEW p, ProductOK(p, calculations'),
           DOMAIN products' \subseteq DOMAIN products \cup {id},
           \A x \in DOMAIN products' : products'[x] = IF x = id THEN p ELSE products[x]
    PROVE  AllOK'
<1> SUFFICES ASSUME NEW x \in DOMAIN products'
             PROVE  ProductOK(products'[x], calculations')
    BY DEF AllOK
<1>1. CASE x = id
    BY <1>1
<1>2. CASE x # id
    <2>1. ProductOK(products[x], calculations) /\ products'[x] = products[x]
        BY <1>2 DEF AllOK
    <2> QED BY <2>1, ProductStaysOK
<1> QED BY <1>1, <1>2

(* A new draft is not approved and keeps the flag of its deadline.         *)
LEMMA DraftStep ==
    ASSUME RestOK, AllOK, NEW actor, NEW m \in Matters, NEW kind \in Kinds,
           NEW content \in Contents, NEW context \in SUBSET ContextFlags[kind],
           NEW type \in DeadlineTypes \cup {NoDeadline}, NEW date,
           type # NoDeadline => date \in Dates,
           StartDraft(actor, m, kind, content, context, type, date)
    PROVE  RestOK' /\ AllOK' /\ calculations \subseteq calculations'
<1> DEFINE id == <<kind, productSeq + 1>>
           flags == RequiredFlags[kind] \cup context \cup
                      (IF type = NoDeadline THEN {} ELSE {DeadlineFlag})
           new == [matter |-> m, status |-> "draft", content |-> content,
                   flags |-> flags, relies |-> type, approved |-> {}]
<1>1. /\ calculations \subseteq calculations'
      /\ calculations' \subseteq Calculation
    <2>1. CASE type = NoDeadline
        BY <2>1 DEF StartDraft, RestOK
    <2>2. CASE type # NoDeadline
        <3>1. RecordDeadline(m, type, date, Agent)
            BY <2>2 DEF StartDraft
        <3>2. [matter |-> m, type |-> type, date |-> date, source |-> Agent] \in Calculation
            BY <2>2, ReviewAssumption DEF Calculation, Sources
        <3> QED BY <3>1, <3>2 DEF RecordDeadline, RestOK
    <2> QED BY <2>1, <2>2
<1>2. id \in Kinds \X (1 .. MaxDrafts) /\ productSeq' \in 0 .. MaxDrafts
    <2>1. /\ productSeq \in 0 .. MaxDrafts /\ MaxDrafts \in Nat
          /\ productSeq < MaxDrafts /\ productSeq' = productSeq + 1
        BY ReviewAssumption DEF StartDraft, RestOK
    <2> QED BY <2>1
<1>3. flags \subseteq Flags
    <2> DEFINE S == {RequiredFlags[k] \cup ContextFlags[k] : k \in Kinds}
               F == RequiredFlags[kind] \cup ContextFlags[kind]
    <2>1. F \in S
        OBVIOUS
    <2>2. KindFlags = UNION S
        BY DEF KindFlags
    <2> HIDE DEF S, F
    <2>3. F \subseteq KindFlags
        BY <2>1, <2>2, Zenon
    <2> QED BY <2>3 DEF F, Flags
<1>4. new \in Product
    BY <1>3 DEF Product, Statuses
<1>5. ProductOK(new, calculations')
    BY <1>4 DEF ProductOK
<1>6. /\ DOMAIN products' = DOMAIN products \cup {id}
      /\ \A x \in DOMAIN products' : products'[x] = IF x = id THEN new ELSE products[x]
    BY DEF StartDraft
<1>7. AllOK'
    <2> HIDE DEF new, id
    <2> QED BY <1>1, <1>5, <1>6, OneProductChanges
<1>8. AccessTypeOK'
    BY DEF StartDraft, accessVars, AccessTypeOK, RestOK
<1>9. DOMAIN products' \subseteq Kinds \X (1 .. MaxDrafts)
    BY <1>2, <1>6 DEF RestOK
<1> QED BY <1>1, <1>2, <1>7, <1>8, <1>9 DEF RestOK

(* A step that only changes one stored product.                            *)
Replaced(id, p) ==
    /\ DOMAIN products' = DOMAIN products
    /\ products'[id] = p
    /\ \A x \in DOMAIN products : x # id => products'[x] = products[x]

(* Replacing one good product by another keeps the invariant.              *)
LEMMA EditStep ==
    ASSUME RestOK, AllOK, NEW id \in DOMAIN products, NEW p, ProductOK(p, calculations),
           UNCHANGED <<accessVars, calculations, productSeq>>,
           Replaced(id, p)
    PROVE  RestOK' /\ AllOK'
<1>1. /\ DOMAIN products' = DOMAIN products
      /\ \A x \in DOMAIN products' : products'[x] = IF x = id THEN p ELSE products[x]
    BY DEF Replaced
<1>2. AllOK'
    BY <1>1, OneProductChanges
<1>3. AccessTypeOK'
    BY DEF accessVars, AccessTypeOK, RestOK
<1> QED BY <1>1, <1>2, <1>3 DEF RestOK

(* A step that leaves the products alone and only adds calculations.       *)
LEMMA TrackerStep ==
    ASSUME AllOK, calculations \subseteq calculations', UNCHANGED products
    PROVE  AllOK'
BY ProductStaysOK DEF AllOK

(* Everything that happens to a product once it was drafted.               *)
LEMMA ProductStep ==
    ASSUME RestOK, AllOK, NEW id \in DOMAIN products, NEW actor, NEW m,
           NEW content \in Contents, NEW flag, NEW type \in DeadlineTypes \cup {NoDeadline},
           \/ ReviseDraft(actor, m, id, content)
           \/ SubmitForReview(actor, m, id)
           \/ RequestRevision(actor, id)
           \/ Reject(actor, id)
           \/ Approve(actor, id)
           \/ Release(actor, id)
           \/ ClearFlag(actor, id, flag, type)
    PROVE  RestOK' /\ AllOK' /\ calculations' = calculations
<1> DEFINE p == products[id]
           with(status, text, flags, approved) ==
               [matter |-> p.matter, status |-> status, content |-> text,
                flags |-> flags, relies |-> p.relies, approved |-> approved]
<1>1. ProductOK(p, calculations)
    BY DEF AllOK
<1>2. p \in Product
    BY <1>1 DEF ProductOK
<1>3. ASSUME NEW q, q \in Product, q.matter = p.matter, q.relies = p.relies,
             DeadlineFlag \in p.flags => DeadlineFlag \in q.flags,
             q.status \in {"approved", "released"} => q.approved = {q.content} /\ q.flags = {}
      PROVE  ProductOK(q, calculations)
    BY <1>1, <1>3 DEF ProductOK
<1>4. CASE ReviseDraft(actor, m, id, content)
    <2> DEFINE q == with(p.status, content, p.flags, p.approved)
    <2>1. Replaced(id, q)
        BY <1>2, <1>4 DEF ReviseDraft, Product, Replaced
    <2>2. ProductOK(q, calculations)
        BY <1>2, <1>3, <1>4 DEF ReviseDraft, Editable, Product
    <2> QED BY <1>4, <2>1, <2>2, EditStep DEF ReviseDraft
<1>5. ASSUME NEW status \in Statuses, Moves(id, status),
             status \in {"approved", "released"} => p.status = "approved"
      PROVE  RestOK' /\ AllOK' /\ calculations' = calculations
    <2> DEFINE q == with(status, p.content, p.flags, p.approved)
    <2>1. Replaced(id, q)
        BY <1>2, <1>5 DEF Moves, Product, Replaced
    <2>2. q \in Product
        BY <1>2, <1>5 DEF Product
    <2>3. ProductOK(q, calculations)
        BY <1>1, <1>3, <1>5, <2>2 DEF ProductOK
    <2> QED BY <1>5, <2>1, <2>3, EditStep DEF Moves
<1>6. CASE \/ SubmitForReview(actor, m, id) \/ RequestRevision(actor, id)
           \/ Reject(actor, id) \/ Release(actor, id)
    BY <1>5, <1>6 DEF SubmitForReview, RequestRevision, Reject, Release, Statuses
<1>7. CASE Approve(actor, id)
    <2> DEFINE q == with("approved", p.content, p.flags, {p.content})
    <2>1. Replaced(id, q)
        BY <1>2, <1>7 DEF Approve, Product, Replaced
    <2>2. q \in Product
        BY <1>2 DEF Product, Statuses
    <2>3. ProductOK(q, calculations)
        BY <1>3, <1>7, <2>2 DEF Approve
    <2> QED BY <1>7, <2>1, <2>3, EditStep DEF Approve
<1>8. CASE ClearFlag(actor, id, flag, type)
    <2> DEFINE q == with(p.status, p.content, p.flags \ {flag}, p.approved)
    <2>1. Replaced(id, q)
        BY <1>2, <1>8 DEF ClearFlag, Product, Replaced
    <2>2. q \in Product
        BY <1>2 DEF Product
    <2>3. flag = DeadlineFlag =>
             \E t \in DeadlineTypes : RedundantIn(calculations, p.matter, t)
        BY <1>8 DEF ClearFlag, Confirmed, Redundant, CalculationsOf, RedundantIn
    <2>4. ProductOK(q, calculations)
        BY <1>1, <2>2, <2>3 DEF ProductOK
    <2> QED BY <1>8, <2>1, <2>4, EditStep DEF ClearFlag
<1> QED BY <1>4, <1>6, <1>7, <1>8

(* Recording a date touches no product.                                    *)
LEMMA ConfirmStep ==
    ASSUME RestOK, AllOK, NEW actor, NEW m \in Matters, NEW type \in DeadlineTypes,
           NEW date \in Dates, ConfirmDeadline(actor, m, type, date)
    PROVE  RestOK' /\ AllOK' /\ calculations \subseteq calculations'
<1>1. [matter |-> m, type |-> type, date |-> date, source |-> actor] \in Calculation
    BY ReviewAssumption DEF Calculation, Sources, ConfirmDeadline
<1>2. calculations \subseteq calculations' /\ calculations' \subseteq Calculation
    BY <1>1 DEF ConfirmDeadline, RecordDeadline, RestOK
<1>3. AllOK'
    BY <1>2, TrackerStep DEF ConfirmDeadline
<1> QED BY <1>2, <1>3 DEF RestOK, ConfirmDeadline, accessVars, AccessTypeOK

(* Moving a paralegal between matters keeps the assignment typed.          *)
LEMMA AccessStep ==
    ASSUME AccessTypeOK, StaffAccessNext
    PROVE  AccessTypeOK'
BY DEF AccessTypeOK, StaffAccessNext, AssignMatter, UnassignMatter

(* Every step keeps the invariant and takes no calculation away.           *)
LEMMA ReviewStep ==
    ASSUME RestOK, AllOK, [ReviewNext]_reviewVars
    PROVE  RestOK' /\ AllOK' /\ calculations \subseteq calculations'
<1>1. CASE DraftingNext
    <2>1. ASSUME NEW actor \in LegalStaff, NEW m \in Matters, NEW kind \in Kinds,
                 NEW content \in Contents, NEW context \in SUBSET ContextFlags[kind],
                 \/ StartDraft(actor, m, kind, content, context, NoDeadline, NoDeadline)
                 \/ \E type \in DeadlineTypes, date \in Dates :
                       StartDraft(actor, m, kind, content, context, type, date)
          PROVE  RestOK' /\ AllOK' /\ calculations \subseteq calculations'
        <3>1. CASE StartDraft(actor, m, kind, content, context, NoDeadline, NoDeadline)
            BY <3>1, DraftStep
        <3>2. CASE \E type \in DeadlineTypes, date \in Dates :
                      StartDraft(actor, m, kind, content, context, type, date)
            BY <3>2, DraftStep
        <3> QED BY <2>1, <3>1, <3>2
    <2>2. ASSUME NEW actor \in LegalStaff, NEW m \in Matters, NEW id \in DOMAIN products,
                 \/ \E content \in Contents : ReviseDraft(actor, m, id, content)
                 \/ SubmitForReview(actor, m, id)
          PROVE  RestOK' /\ AllOK' /\ calculations \subseteq calculations'
        <3>1. PICK content \in Contents : TRUE
            BY DEF AllOK, ProductOK, Product
        <3> QED BY <2>2, <3>1, ProductStep
    <2> QED BY <1>1, <2>1, <2>2 DEF DraftingNext
<1>2. CASE AttorneyNext
    <2> SUFFICES ASSUME NEW actor \in Attorneys, NEW id \in DOMAIN products,
                        \/ RequestRevision(actor, id)
                        \/ Reject(actor, id)
                        \/ Approve(actor, id)
                        \/ Release(actor, id)
                        \/ \E flag \in products[id].flags,
                              type \in DeadlineTypes \cup {NoDeadline} :
                                 ClearFlag(actor, id, flag, type)
                 PROVE  RestOK' /\ AllOK' /\ calculations \subseteq calculations'
        BY <1>2 DEF AttorneyNext
    <2>1. products[id].content \in Contents
        BY DEF AllOK, ProductOK, Product
    <2> QED BY <2>1, ProductStep
<1>3. CASE \E actor \in Attorneys \cup {CalendarSystem}, m \in Matters,
              type \in DeadlineTypes, date \in Dates :
                 ConfirmDeadline(actor, m, type, date)
    BY <1>3, ConfirmStep
<1>4. CASE StaffAccessNext /\ UNCHANGED <<calculations, products, productSeq>>
    BY <1>4, AccessStep, TrackerStep DEF RestOK
<1>5. CASE RestartReview
    BY <1>5, ReviewAssumption, TrackerStep
       DEF RestartReview, RestOK, accessVars, AccessTypeOK
<1>6. CASE UNCHANGED reviewVars
    BY <1>6, TrackerStep DEF reviewVars, RestOK, accessVars, AccessTypeOK
<1> QED BY <1>1, <1>2, <1>3, <1>4, <1>5, <1>6 DEF ReviewNext

----------------------------------------------------------------------------
(* The inductive invariant of the review gate.                             *)
THEOREM ReviewInvariant == ReviewSpec => []ReviewInv
<1>1. ReviewInit => ReviewInv
    BY ReviewAssumption
       DEF ReviewInit, AccessInit, AccessTypeOK, ReviewInv, ReviewTypeOK,
           ReleasedAsApproved, NeverSingleSourced
<1>2. ReviewInv /\ [ReviewNext]_reviewVars => ReviewInv'
    BY InvParts, InvPartsNext, ReviewStep
<1> QED BY <1>1, <1>2, PTL DEF ReviewSpec

(* Every stored product and every calculation keeps its type.              *)
THEOREM ReviewTypeCorrect == ReviewSpec => []ReviewTypeOK
<1>1. ReviewInv => ReviewTypeOK
    BY DEF ReviewInv
<1> QED BY <1>1, ReviewInvariant, PTL

(* What is approved or released is what an attorney approved.              *)
THEOREM OnlyApprovedIsReleased == ReviewSpec => []ReleasedAsApproved
<1>1. ReviewInv => ReleasedAsApproved
    BY DEF ReviewInv
<1> QED BY <1>1, ReviewInvariant, PTL

(* No draft loses its deadline flag on the word of one source.             *)
THEOREM DeadlinesNeverSingleSourced == ReviewSpec => []NeverSingleSourced
<1>1. ReviewInv => NeverSingleSourced
    BY DEF ReviewInv
<1> QED BY <1>1, ReviewInvariant, PTL

(* No step of anybody resolves a conflict between two sources.             *)
THEOREM ConflictsAreNeverResolved == ReviewSpec => ConflictStays
<1>1. ReviewInv /\ [ReviewNext]_reviewVars =>
         [\A m \in Matters, type \in DeadlineTypes :
             Conflict(m, type) => Conflict(m, type)']_reviewVars
    <2> SUFFICES ASSUME ReviewInv, [ReviewNext]_reviewVars,
                        NEW m \in Matters, NEW type \in DeadlineTypes, Conflict(m, type)
                 PROVE  Conflict(m, type)'
        OBVIOUS
    <2>1. calculations \subseteq calculations'
        BY InvParts, ReviewStep
    <2> QED BY <2>1 DEF Conflict, Redundant, Agreed, CalculationsOf
<1> QED BY <1>1, ReviewInvariant, PTL DEF ReviewSpec, ConflictStays

(* The gate as a sign-off: drafts, submissions and requests for a revision *)
(* are all work on a document.                                             *)
Stage(status) ==
    CASE status = "approved" -> "signed"
      [] status = "released" -> "sent"
      [] status = "rejected" -> "dropped"
      [] OTHER               -> "in work"

DocumentOf(p) == [at |-> Stage(p.status), content |-> p.content, warnings |-> p.flags]
Documents     == [id \in DOMAIN products |-> DocumentOf(products[id])]

Gate == INSTANCE SignOff WITH
    Numbers <- 1 .. MaxDrafts, Warnings <- Flags,
    folders <- Documents,      used     <- 1 .. productSeq

(* A step that replaces one product replaces its document.                 *)
LEMMA OneDocumentChanges ==
    ASSUME NEW id \in DOMAIN products, NEW p, Replaced(id, p)
    PROVE  Documents' = [Documents EXCEPT ![id] = DocumentOf(p)]
<1>1. /\ DOMAIN products' = DOMAIN products /\ products'[id] = p
      /\ \A x \in DOMAIN products : x # id => products'[x] = products[x]
    BY DEF Replaced
<1>2. \A x \in DOMAIN products :
         DocumentOf(products'[x]) = IF x = id THEN DocumentOf(p) ELSE DocumentOf(products[x])
    BY <1>1
<1> QED BY <1>1, <1>2 DEF Documents

(* A new draft is a document begun in work, under a number not used since  *)
(* the counter was last lost.                                              *)
LEMMA DraftBegins ==
    ASSUME RestOK, AllOK, NEW actor, NEW m \in Matters, NEW kind \in Kinds,
           NEW content \in Contents, NEW context \in SUBSET ContextFlags[kind],
           NEW type \in DeadlineTypes \cup {NoDeadline}, NEW date,
           type # NoDeadline => date \in Dates,
           StartDraft(actor, m, kind, content, context, type, date)
    PROVE  Gate!Next
<1> DEFINE n == productSeq + 1
           id == <<kind, n>>
           flags == RequiredFlags[kind] \cup context \cup
                      (IF type = NoDeadline THEN {} ELSE {DeadlineFlag})
           new == [matter |-> m, status |-> "draft", content |-> content,
                   flags |-> flags, relies |-> type, approved |-> {}]
<1>1. /\ DOMAIN products' = DOMAIN products \cup {id}
      /\ \A x \in DOMAIN products' : products'[x] = IF x = id THEN new ELSE products[x]
    BY DEF StartDraft
<1>2. /\ n \in 1 .. MaxDrafts /\ n \notin 1 .. productSeq
      /\ 1 .. productSeq' = (1 .. productSeq) \cup {n}
    <2>1. /\ productSeq \in 0 .. MaxDrafts /\ MaxDrafts \in Nat
          /\ productSeq < MaxDrafts /\ productSeq' = productSeq + 1
        BY ReviewAssumption DEF StartDraft, RestOK
    <2> QED BY <2>1
<1>3. flags \in SUBSET Flags
    <2>1. AllOK' /\ id \in DOMAIN products'
        BY <1>1, DraftStep
    <2>2. products'[id] \in Product /\ products'[id] = new
        BY <1>1, <2>1 DEF AllOK, ProductOK
    <2> QED BY <2>2 DEF Product
<1>4. DocumentOf(new) = [at |-> "in work", content |-> content, warnings |-> flags]
    BY DEF DocumentOf, Stage
<1> HIDE DEF id, flags, new
<1>5. Documents' = [f \in DOMAIN Documents \cup {id} |->
                      IF f = id THEN [at |-> "in work", content |-> content, warnings |-> flags]
                      ELSE Documents[f]]
    BY <1>1, <1>4 DEF Documents
<1>6. Gate!Begin(kind, n, content, flags)
    BY <1>2, <1>5 DEF Gate!Begin, id
<1> QED BY <1>2, <1>3, <1>6 DEF Gate!Next

(* Whatever happens to a product once it was drafted is one thing done to  *)
(* its document, or nothing.                                               *)
LEMMA DocumentMoves ==
    ASSUME RestOK, AllOK, NEW id \in DOMAIN products, NEW actor, NEW m,
           NEW content \in Contents, NEW flag, NEW type \in DeadlineTypes \cup {NoDeadline},
           \/ ReviseDraft(actor, m, id, content)
           \/ SubmitForReview(actor, m, id)
           \/ RequestRevision(actor, id)
           \/ Reject(actor, id)
           \/ Approve(actor, id)
           \/ Release(actor, id)
           \/ ClearFlag(actor, id, flag, type)
    PROVE  [Gate!Next]_Gate!signVars
<1> DEFINE p == products[id]
           d == Documents[id]
<1>1. p \in Product /\ id \in DOMAIN Documents /\ DOMAIN Documents = DOMAIN products
    BY DEF AllOK, ProductOK, Documents
<1>2. /\ d.at = Stage(p.status) /\ d.content = p.content /\ d.warnings = p.flags
      /\ d = [at |-> Stage(p.status), content |-> p.content, warnings |-> p.flags]
    BY DEF Documents, DocumentOf
<1>3. productSeq' = productSeq /\ UNCHANGED (1 .. productSeq)
    BY DEF ReviseDraft, SubmitForReview, RequestRevision, Reject, Approve, Release, ClearFlag, Moves
<1>4. CASE ReviseDraft(actor, m, id, content)
    <2> DEFINE q == [p EXCEPT !.content = content]
    <2>1. Replaced(id, q) /\ DocumentOf(q) = [d EXCEPT !.content = content]
        BY <1>1, <1>2, <1>4 DEF ReviseDraft, Product, Replaced, DocumentOf
    <2>2. Documents' = [Documents EXCEPT ![id].content = content]
        BY <2>1, OneDocumentChanges
    <2>3. d.at = "in work"
        BY <1>2, <1>4 DEF ReviseDraft, Editable, Stage
    <2> QED BY <1>1, <1>3, <2>2, <2>3 DEF Gate!Next, Gate!Rewrite
<1>5. ASSUME NEW status \in Statuses, Moves(id, status)
      PROVE  Documents' = [Documents EXCEPT ![id].at = Stage(status)]
    <2> DEFINE q == [p EXCEPT !.status = status]
    <2>1. Replaced(id, q) /\ DocumentOf(q) = [d EXCEPT !.at = Stage(status)]
        BY <1>1, <1>2, <1>5 DEF Moves, Product, Replaced, DocumentOf
    <2> QED BY <2>1, OneDocumentChanges
<1>6. CASE SubmitForReview(actor, m, id) \/ RequestRevision(actor, id)
    <2>1. Documents' = [Documents EXCEPT ![id].at = "in work"] /\ d.at = "in work"
        BY <1>2, <1>5, <1>6 DEF SubmitForReview, RequestRevision, Editable, Stage, Statuses
    <2>2. Documents' = Documents
        BY <1>1, <1>2, <2>1 DEF Documents, DocumentOf
    <2> QED BY <1>3, <2>2 DEF Gate!signVars
<1>7. CASE Reject(actor, id)
    <2>1. Documents' = [Documents EXCEPT ![id].at = "dropped"] /\ d.at = "in work"
        BY <1>2, <1>5, <1>7 DEF Reject, Stage, Statuses
    <2> QED BY <1>1, <1>3, <2>1 DEF Gate!Next, Gate!Drop
<1>8. CASE Approve(actor, id)
    <2> DEFINE q == [p EXCEPT !.status = "approved", !.approved = {p.content}]
    <2>1. Replaced(id, q) /\ DocumentOf(q) = [d EXCEPT !.at = "signed"]
        <3>1. Replaced(id, q)
            BY <1>1, <1>8 DEF Approve, Product, Replaced
        <3>2. q.status = "approved" /\ q.content = p.content /\ q.flags = p.flags
            BY <1>1 DEF Product
        <3> HIDE DEF q
        <3>3. DocumentOf(q) = [at |-> "signed", content |-> p.content, warnings |-> p.flags]
            BY <3>2 DEF DocumentOf, Stage
        <3> QED BY <1>2, <3>1, <3>3
    <2>2. Documents' = [Documents EXCEPT ![id].at = "signed"]
        BY <2>1, OneDocumentChanges
    <2>3. d.at = "in work" /\ d.warnings = {}
        BY <1>2, <1>8 DEF Approve, Stage
    <2> QED BY <1>1, <1>3, <2>2, <2>3 DEF Gate!Next, Gate!Sign
<1>9. CASE Release(actor, id)
    <2>1. Documents' = [Documents EXCEPT ![id].at = "sent"] /\ d.at = "signed"
        BY <1>2, <1>5, <1>9 DEF Release, Stage, Statuses
    <2> QED BY <1>1, <1>3, <2>1 DEF Gate!Next, Gate!Send
<1>10. CASE ClearFlag(actor, id, flag, type)
    <2> DEFINE q == [p EXCEPT !.flags = @ \ {flag}]
    <2>1. Replaced(id, q) /\ DocumentOf(q) = [d EXCEPT !.warnings = @ \ {flag}]
        BY <1>1, <1>2, <1>10 DEF ClearFlag, Product, Replaced, DocumentOf
    <2>2. Documents' = [Documents EXCEPT ![id].warnings = @ \ {flag}]
        BY <2>1, OneDocumentChanges
    <2>3. flag \in d.warnings /\ flag \in Flags
        BY <1>1, <1>2, <1>10 DEF ClearFlag, Product
    <2> QED BY <1>1, <1>3, <2>2, <2>3 DEF Gate!Next, Gate!Settle
<1> QED BY <1>4, <1>6, <1>7, <1>8, <1>9, <1>10

(* The gate implements the sign-off: what an attorney approved stays as it *)
(* was approved until it is released and for ever after, unless a restart  *)
(* let a new draft take its number.                                        *)
THEOREM ReviewImplementsSignOff == ReviewSpec => Gate!Spec
<1>1. ReviewInit => Gate!Init
    BY DEF ReviewInit, Gate!Init, Documents
<1>2. ReviewInv /\ [ReviewNext]_reviewVars => [Gate!Next]_Gate!signVars
    <2> SUFFICES ASSUME ReviewInv, [ReviewNext]_reviewVars
                 PROVE  [Gate!Next]_Gate!signVars
        OBVIOUS
    <2>1. RestOK /\ AllOK
        BY InvParts
    <2>2. CASE DraftingNext
        <3>1. ASSUME NEW actor \in LegalStaff, NEW m \in Matters, NEW kind \in Kinds,
                     NEW content \in Contents, NEW context \in SUBSET ContextFlags[kind],
                     \/ StartDraft(actor, m, kind, content, context, NoDeadline, NoDeadline)
                     \/ \E type \in DeadlineTypes, date \in Dates :
                           StartDraft(actor, m, kind, content, context, type, date)
              PROVE  Gate!Next
            BY <2>1, <3>1, DraftBegins
        <3>2. ASSUME NEW actor \in LegalStaff, NEW m \in Matters, NEW id \in DOMAIN products,
                     \/ \E content \in Contents : ReviseDraft(actor, m, id, content)
                     \/ SubmitForReview(actor, m, id)
              PROVE  [Gate!Next]_Gate!signVars
            <4>1. products[id].content \in Contents
                BY <2>1 DEF AllOK, ProductOK, Product
            <4> QED BY <2>1, <3>2, <4>1, DocumentMoves
        <3> QED BY <2>2, <3>1, <3>2 DEF DraftingNext
    <2>3. CASE AttorneyNext
        <3> SUFFICES ASSUME NEW actor \in Attorneys, NEW id \in DOMAIN products,
                            \/ RequestRevision(actor, id)
                            \/ Reject(actor, id)
                            \/ Approve(actor, id)
                            \/ Release(actor, id)
                            \/ \E flag \in products[id].flags,
                                  type \in DeadlineTypes \cup {NoDeadline} :
                                     ClearFlag(actor, id, flag, type)
                     PROVE  [Gate!Next]_Gate!signVars
            BY <2>3 DEF AttorneyNext
        <3>1. products[id].content \in Contents
            BY <2>1 DEF AllOK, ProductOK, Product
        <3> QED BY <2>1, <3>1, DocumentMoves
    <2>4. CASE RestartReview
        <3>1. 1 .. productSeq' = {} /\ Documents' = Documents
            BY <2>4 DEF RestartReview, Documents
        <3> QED BY <3>1 DEF Gate!Next, Gate!Forget
    <2>5. CASE UNCHANGED <<products, productSeq>>
        BY <2>5 DEF Gate!signVars, Documents
    <2> QED BY <2>2, <2>3, <2>4, <2>5 DEF ReviewNext, ConfirmDeadline, reviewVars
<1> QED BY <1>1, <1>2, ReviewInvariant, PTL DEF ReviewSpec, Gate!Spec

----------------------------------------------------------------------------
(* The telephone line: one turn.                                           *)

LEMMA FinishTypes ==
    ASSUME NEW s \in Session, NEW o \in Outcomes
    PROVE  /\ Finish(s, o) \in Session
           /\ Finish(s, o).gate = "over" /\ Finish(s, o).outcome = o
           /\ Finish(s, o).answered = s.answered /\ Finish(s, o).heard = s.heard
           /\ Finish(s, o).consent = s.consent /\ Finish(s, o).checked = s.checked
           /\ Finish(s, o).clear = s.clear /\ Finish(s, o).caller = s.caller
           /\ Finish(s, o).allowed = s.allowed
BY DEF Finish, Session, Gates

LEMMA EvaluateTypes ==
    ASSUME NEW signals
    PROVE  /\ Evaluate(signals) \in HandOffs \cup {"continue_standard_triage"}
           /\ signals \cap Emergencies # {} =>
                 Evaluate(signals) \in {"connect_crisis_resources_immediately",
                                        "connect_human_immediately"}
BY DEF Evaluate, HandOffs, Directives, Emergencies

LEMMA RouteTypes ==
    ASSUME NEW s \in Session, NEW signals
    PROVE  /\ Route(s, signals) \in Directives
           /\ Route(s, signals) \notin HandOffs =>
                 \/ Route(s, signals) = "disclose_recording_consent_then_continue" /\ ~s.consent
                 \/ Route(s, signals) = "hold_for_conflict_check" /\ ~(s.checked /\ s.clear)
                 \/ /\ Route(s, signals) = "continue_standard_triage"
                    /\ s.consent /\ s.checked /\ s.clear
           /\ signals \cap Emergencies # {} =>
                 Route(s, signals) \in {"connect_crisis_resources_immediately",
                                        "connect_human_immediately"}
BY EvaluateTypes DEF Route, HandOffs, Directives

\* What is true of every session, over or not.
SessionSound(s) ==
    /\ s.answered > 0 => s.gate \in {"intake_question", "over"}
    /\ s.answered > 0 \/ s.gate = "intake_question" =>
          /\ s.consent /\ s.checked /\ s.clear
          /\ s.caller \in {"existing_client", "new_client"}
          /\ s.allowed
    /\ s.heard # {} => s.outcome \in {"connect_crisis_resources_immediately",
                                      "connect_human_immediately",
                                      "consent_refused", "conflict"}
    /\ s.gate = "over" <=> Over(s)

LEMMA NewSessionSound ==
    ASSUME NEW allowed \in BOOLEAN, NEW screened \in BOOLEAN
    PROVE  /\ NewSession(allowed, screened) \in Session
           /\ SessionSound(NewSession(allowed, screened))
           /\ ~Over(NewSession(allowed, screened))
BY DEF NewSession, Session, SessionSound, Over, Gates, CallerTypes, Outcomes

(* The answer to a gate: only the caller type, the consent and the conflict *)
(* check can change, each at its own gate, and a question is counted at     *)
(* none but its own.                                                        *)
LEMMA AnswerGateTypes ==
    ASSUME NEW s \in Session, NEW u \in Utterance, s.gate # "over"
    PROVE  /\ AnswerGate(s, u) \in Session
           /\ AnswerGate(s, u).heard = s.heard
           /\ AnswerGate(s, u).allowed = s.allowed
           /\ \/ /\ AnswerGate(s, u).outcome = s.outcome
                 /\ AnswerGate(s, u).gate = s.gate
              \/ /\ AnswerGate(s, u).outcome \in {"consent_refused", "conflict"}
                 /\ AnswerGate(s, u).gate = "over"
                 /\ AnswerGate(s, u).answered = s.answered
                 /\ s.gate # "intake_question"
           /\ s.gate = "intake_question" =>
                 /\ AnswerGate(s, u).consent = s.consent
                 /\ AnswerGate(s, u).checked = s.checked
                 /\ AnswerGate(s, u).clear = s.clear
                 /\ AnswerGate(s, u).caller = s.caller
           /\ s.gate # "intake_question" => AnswerGate(s, u).answered = s.answered
<1> DEFINE hit == s.screened /\ CandidateNames(u) \cap Conflicted # {}
           run == [s EXCEPT !.checked = TRUE, !.clear = ~hit, !.named = @ \cup u.names]
<1>1. CASE s.gate = "caller_type"
  <2>1. AnswerGate(s, u) = [s EXCEPT !.caller = IdentifyCallerType(u.states)]
    BY <1>1 DEF AnswerGate
  <2>2. IdentifyCallerType(u.states) \in CallerTypes
    BY DEF IdentifyCallerType, CallerTypes
  <2> QED BY <1>1, <2>1, <2>2 DEF Session
<1>2. CASE s.gate = "disclose_recording_consent_then_continue"
  <2>1. AnswerGate(s, u) = IF u.refuses THEN Finish(s, "consent_refused")
                           ELSE [s EXCEPT !.consent = TRUE]
    BY <1>2 DEF AnswerGate
  <2>2. "consent_refused" \in Outcomes
    BY DEF Outcomes
  <2>3. CASE u.refuses
    BY <1>2, <2>1, <2>2, <2>3, FinishTypes
  <2>4. CASE ~u.refuses
    BY <1>2, <2>1, <2>4 DEF Session
  <2> QED BY <2>3, <2>4
<1>3. CASE s.gate = "hold_for_conflict_check"
  <2>1. AnswerGate(s, u) = IF hit THEN Finish(run, "conflict") ELSE run
    BY <1>3 DEF AnswerGate
  <2>2. "conflict" \in Outcomes /\ hit \in BOOLEAN /\ u.names \subseteq Names
    BY DEF Outcomes, Utterance, Session
  <2> HIDE DEF hit
  <2>3. /\ run \in Session
        /\ run.heard = s.heard /\ run.allowed = s.allowed /\ run.outcome = s.outcome
        /\ run.gate = s.gate /\ run.answered = s.answered
    BY <2>2 DEF Session
  <2> HIDE DEF run
  <2>4. CASE hit
    BY <1>3, <2>1, <2>2, <2>3, <2>4, FinishTypes
  <2>5. CASE ~hit
    BY <1>3, <2>1, <2>3, <2>5
  <2> QED BY <2>4, <2>5
<1>4. CASE s.gate = "intake_question"
  <2>1. AnswerGate(s, u) = [s EXCEPT !.answered = @ + 1]
    BY <1>4 DEF AnswerGate
  <2> QED BY <1>4, <2>1 DEF Session
<1> QED BY <1>1, <1>2, <1>3, <1>4 DEF Session, Gates

LEMMA ProceedSound ==
    ASSUME NEW s \in Session, SessionSound(s), ~Over(s), s.heard = {},
           s.consent, s.checked, s.clear, s.allowed
    PROVE  Proceed(s) \in Session /\ SessionSound(Proceed(s))
<1>1. /\ "billing" \in Outcomes /\ "take_message" \in Outcomes /\ "wrap_up" \in Outcomes
  BY DEF Outcomes
<1>2. ASSUME NEW o \in {"billing", "take_message", "wrap_up"}
      PROVE  Finish(s, o) \in Session /\ SessionSound(Finish(s, o))
  <2>1. o \in Outcomes /\ o # "none"
    BY <1>1
  <2> QED BY <2>1, FinishTypes DEF SessionSound, Over
<1>3. CASE s.caller \in {"existing_client", "new_client"} /\ Proceed(s) = [s EXCEPT !.gate = "intake_question"]
  BY <1>3 DEF Session, SessionSound, Over, Gates
<1> QED BY <1>2, <1>3 DEF Proceed, Session, CallerTypes

(* A turn: an emergency, wherever in it, ends the conversation, and the     *)
(* questions come after the gates.                                          *)
LEMMA HandleMessageSound ==
    ASSUME NEW s \in Session, SessionSound(s), NEW u \in Utterance
    PROVE  HandleMessage(s, u) \in Session /\ SessionSound(HandleMessage(s, u))
<1>1. CASE Over(s)
  BY <1>1 DEF HandleMessage
<1>2. CASE ~Over(s)
  <2> DEFINE signals == Signals(s, u)
             h == s.heard \cup (signals \cap Emergencies)
             heard == [s EXCEPT !.heard = h]
             g == AnswerGate(heard, u)
             d == Route(g, signals)
  <2>1. s.heard = {} /\ s.outcome = "none" /\ s.gate # "over"
    BY <1>2 DEF SessionSound, Over
  <2>2. /\ HandleMessage(s, u) =
             IF Over(g) THEN g
             ELSE IF d \in HandOffs THEN Finish(g, d)
             ELSE IF d # "continue_standard_triage" THEN [g EXCEPT !.gate = d]
             ELSE IF g.allowed THEN Proceed(g) ELSE g
    BY <1>2 DEF HandleMessage
  <2>3. h = signals \cap Emergencies /\ h \subseteq Emergencies
    BY <2>1
  <2> HIDE DEF signals, h
  <2>4. /\ heard \in Session
        /\ heard.heard = h /\ heard.gate = s.gate /\ heard.outcome = "none"
        /\ heard.answered = s.answered /\ heard.caller = s.caller
        /\ heard.consent = s.consent /\ heard.checked = s.checked /\ heard.clear = s.clear
        /\ heard.allowed = s.allowed
    BY <2>1, <2>3 DEF Session
  <2> HIDE DEF heard
  <2>5. /\ g \in Session
        /\ g.heard = h
        /\ g.allowed = s.allowed
        /\ \/ g.outcome = "none" /\ g.gate = s.gate
           \/ /\ g.outcome \in {"consent_refused", "conflict"} /\ g.gate = "over"
              /\ g.answered = s.answered
              /\ s.gate # "intake_question"
        /\ s.gate = "intake_question" =>
              g.consent = s.consent /\ g.checked = s.checked /\ g.clear = s.clear
                 /\ g.caller = s.caller
        /\ s.gate # "intake_question" => g.answered = s.answered
    BY <2>1, <2>4, AnswerGateTypes
  <2> HIDE DEF g
  <2>6. g.answered > 0 => s.gate = "intake_question" \/ Over(g)
    BY <2>1, <2>4, <2>5 DEF SessionSound, Over
  <2>7. CASE Over(g)
    <3>1. SessionSound(g)
      BY <2>1, <2>5, <2>7 DEF SessionSound, Over
    <3> QED BY <2>2, <2>5, <2>7, <3>1
  <2>8. CASE ~Over(g)
    <3>1. g.outcome = "none" /\ g.gate = s.gate
      BY <2>5, <2>8 DEF Over
    <3>2. s.gate = "intake_question" =>
             /\ g.consent /\ g.checked /\ g.clear /\ g.allowed
             /\ g.caller \in {"existing_client", "new_client"}
      BY <2>5 DEF SessionSound
    <3>3. /\ d \in Directives
          /\ d \notin HandOffs =>
                \/ d = "disclose_recording_consent_then_continue" /\ ~g.consent
                \/ d = "hold_for_conflict_check" /\ ~(g.checked /\ g.clear)
                \/ d = "continue_standard_triage" /\ g.consent /\ g.checked /\ g.clear
          /\ h # {} => d \in {"connect_crisis_resources_immediately",
                              "connect_human_immediately"}
      BY <2>3, <2>5, RouteTypes
    <3> HIDE DEF d
    <3>4. CASE d \in HandOffs
      <4>1. d \in Outcomes /\ d # "none"
        BY <3>4 DEF Outcomes, HandOffs, Directives
      <4>2. HandleMessage(s, u) = Finish(g, d)
        BY <2>2, <2>8, <3>4
      <4>3. SessionSound(Finish(g, d))
        BY <2>5, <2>6, <2>8, <3>2, <3>3, <4>1, FinishTypes DEF SessionSound, Over
      <4> QED BY <2>5, <4>1, <4>2, <4>3, FinishTypes
    <3>5. CASE d \notin HandOffs
      <4>1. h = {}
        BY <3>3, <3>5 DEF HandOffs, Directives
      <4>2. CASE d # "continue_standard_triage"
        <5>1. HandleMessage(s, u) = [g EXCEPT !.gate = d]
          BY <2>2, <2>8, <3>5, <4>2
        <5>2. /\ [g EXCEPT !.gate = d] \in Session
              /\ s.gate # "intake_question" /\ g.answered = 0
          BY <2>5, <2>6, <2>8, <3>2, <3>3, <3>5, <4>2 DEF Session, Gates
        <5>3. d # "over" /\ d # "intake_question"
          BY <3>3, <3>5, <4>2
        <5> QED BY <2>5, <3>1, <4>1, <5>1, <5>2, <5>3 DEF SessionSound, Over, Session
      <4>3. CASE d = "continue_standard_triage"
        <5>1. g.consent /\ g.checked /\ g.clear
          BY <3>3, <3>5, <4>3
        <5>2. SessionSound(g)
          BY <2>1, <2>5, <2>6, <2>8, <3>1, <3>2, <4>1, <5>1 DEF SessionSound, Over
        <5> QED BY <2>2, <2>5, <2>8, <3>5, <4>1, <4>3, <5>1, <5>2, ProceedSound
      <4> QED BY <4>2, <4>3
    <3> QED BY <3>4, <3>5
  <2> QED BY <2>7, <2>8
<1> QED BY <1>1, <1>2

----------------------------------------------------------------------------
(* The line.                                                               *)

SessionsSound == \A i \in Places : SessionSound(sessions[i])

(* A session belongs to one call or to the demo.                           *)
OneOwner ==
    /\ \A c \in Calls : line[c] \notin demos
    /\ \A c, d \in Calls : line[c] = line[d] /\ line[c] # NoSession => c = d
    /\ \A w \in Webhooks : turns[w].at \notin {"idle", "downloading"} =>
          /\ turns[w].session \notin demos
          /\ \A c \in Calls : line[c] = turns[w].session => c = turns[w].call
          /\ \A v \in Webhooks :
                turns[v].at \notin {"idle", "downloading"} /\ turns[v].session = turns[w].session
                   => turns[v].call = turns[w].call

VoiceInv == VoiceTypeOK /\ SessionsSound /\ OneOwner /\ FinishedLeavesLine

LEMMA TurnFields ==
    ASSUME NEW t \in Turns
    PROVE  /\ t.at \in {"idle", "greeting", "downloading", "transcribing", "speaking"}
           /\ t.at # "idle" => t.call \in Calls
           /\ t.at \notin {"idle", "downloading"} => t.session \in Places
           /\ t.at = "speaking" => t.done \in BOOLEAN
BY DEF Turns, Idle

LEMMA NewTurns ==
    ASSUME NEW c \in Calls, NEW i \in Places, NEW done \in BOOLEAN
    PROVE  /\ Idle \in Turns /\ Greeting(c, i) \in Turns /\ Downloading(c) \in Turns
           /\ Transcribing(c, i) \in Turns /\ Speaking(c, i, done) \in Turns
           /\ Idle.at = "idle" /\ Greeting(c, i).at = "greeting"
           /\ Downloading(c).at = "downloading" /\ Transcribing(c, i).at = "transcribing"
           /\ Speaking(c, i, done).at = "speaking" /\ Speaking(c, i, done).done = done
           /\ Greeting(c, i).session = i /\ Greeting(c, i).call = c
           /\ Transcribing(c, i).session = i /\ Transcribing(c, i).call = c
           /\ Speaking(c, i, done).session = i /\ Speaking(c, i, done).call = c
           /\ Downloading(c).call = c
BY DEF Turns, Idle, Greeting, Downloading, Transcribing, Speaking

LEMMA BlankSound == Blank \in Session /\ SessionSound(Blank) /\ ~Over(Blank)
BY NewSessionSound DEF Blank

LEMMA VoiceInitHolds == VoiceInit => VoiceInv
<1> SUFFICES ASSUME VoiceInit PROVE VoiceInv
  OBVIOUS
<1>1. Idle \in Turns /\ Idle.at = "idle"
  BY DEF Turns, Idle
<1>2. /\ sessions = [i \in Places |-> Blank] /\ line = [c \in Calls |-> NoSession]
      /\ demos = {} /\ turns = [w \in Webhooks |-> Idle]
  BY DEF VoiceInit
<1>3. VoiceTypeOK
  BY <1>1, <1>2, BlankSound DEF VoiceTypeOK
<1>4. SessionsSound
  BY <1>2, BlankSound DEF SessionsSound
<1>5. OneOwner
  BY <1>1, <1>2 DEF OneOwner
<1>6. FinishedLeavesLine
  BY <1>2 DEF FinishedLeavesLine
<1> QED BY <1>3, <1>4, <1>5, <1>6 DEF VoiceInv

(* Letting go of a call and of a turn leaves what is still held as it was.  *)
LEMMA LettingGo ==
    ASSUME VoiceInv, NEW w \in Webhooks, turns' = [turns EXCEPT ![w] = Idle],
           line' \in [Calls -> Places \cup {NoSession}],
           \A d \in Calls : line'[d] \in {line[d], NoSession},
           turns[w].at = "speaking" /\ turns[w].done => line'[turns[w].call] = NoSession,
           demos' = demos, Collect
    PROVE  VoiceInv'
<1>1. Idle \in Turns /\ Idle.at = "idle"
  BY DEF Turns, Idle
<1>2. /\ VoiceTypeOK /\ SessionsSound /\ OneOwner /\ FinishedLeavesLine
  BY DEF VoiceInv
<1>3. /\ sessions' \in [Places -> Session]
      /\ \A i \in Places : sessions'[i] = sessions[i] \/ sessions'[i] = Blank
      /\ \A d \in Calls : line'[d] # NoSession => sessions'[line'[d]] = sessions[line'[d]]
  <2>1. sessions' = [i \in Places |-> IF Held(i)' THEN sessions[i] ELSE Blank]
    BY DEF Collect
  <2>2. \A i \in Places, d \in Calls : line'[d] = i => Held(i)'
    BY DEF Held
  <2>3. \A d \in Calls : line'[d] # NoSession => line'[d] \in Places
    BY <1>2 DEF VoiceTypeOK
  <2> QED BY <1>2, <2>1, <2>2, <2>3, BlankSound DEF VoiceTypeOK
<1>4. /\ line' \in [Calls -> Places \cup {NoSession}]
      /\ \A d \in Calls : line'[d] = line[d] \/ line'[d] = NoSession
  OBVIOUS
<1>5. /\ turns' \in [Webhooks -> Turns]
      /\ turns'[w] = Idle /\ \A v \in Webhooks \ {w} : turns'[v] = turns[v]
  BY <1>1, <1>2 DEF VoiceTypeOK
<1>6. VoiceTypeOK'
  BY <1>2, <1>3, <1>4, <1>5 DEF VoiceTypeOK
<1>7. SessionsSound'
  BY <1>2, <1>3, BlankSound DEF SessionsSound
<1>8. OneOwner'
  <2>1. NoSession \notin Places /\ demos \subseteq Places
    BY <1>2, VoiceAssumption DEF VoiceTypeOK
  <2>2. \A v \in Webhooks : turns[v].at \notin {"idle", "downloading"} =>
                               turns[v].session \in Places
    BY <1>2, TurnFields DEF VoiceTypeOK
  <2> QED BY <1>1, <1>2, <1>4, <1>5, <2>1, <2>2 DEF OneOwner
<1>9. FinishedLeavesLine'
  <2> SUFFICES ASSUME NEW d \in Calls, line'[d] # NoSession, Over(sessions'[line'[d]])
               PROVE  \E v \in Webhooks : turns'[v] = Speaking(d, line'[d], TRUE)
    BY DEF FinishedLeavesLine
  <2>1. line'[d] = line[d] /\ sessions'[line'[d]] = sessions[line[d]]
    BY <1>3, <1>4
  <2>2. PICK v \in Webhooks : turns[v] = Speaking(d, line[d], TRUE)
    BY <1>2, <2>1 DEF FinishedLeavesLine
  <2>3. v # w
    BY <2>1, <2>2, TurnFields DEF Speaking
  <2> QED BY <1>5, <2>1, <2>2, <2>3
<1> QED BY <1>6, <1>7, <1>8, <1>9 DEF VoiceInv

(* A session nothing holds is handed out.                                  *)
LEMMA FreshSession ==
    ASSUME VoiceInv, NEW i \in Places, ~Held(i)
    PROVE  /\ i \notin demos
           /\ \A c \in Calls : line[c] # i
           /\ \A w \in Webhooks : turns[w].at \notin {"idle", "downloading"} =>
                                     turns[w].session # i
BY DEF Held

LEMMA CallStartsStep ==
    ASSUME VoiceInv, NEW w \in Webhooks, NEW c \in Calls, NEW i \in Places,
           CallStarts(w, c, i)
    PROVE  VoiceInv'
<1> DEFINE new == NewSession(TRUE, FALSE)
<1>1. /\ VoiceTypeOK /\ SessionsSound /\ OneOwner /\ FinishedLeavesLine
      /\ turns[w] = Idle /\ Idle.at = "idle" /\ demos' = demos /\ ~Held(i)
  BY DEF VoiceInv, CallStarts, Idle
<1>2. /\ i \notin demos
      /\ \A d \in Calls : line[d] # i
      /\ \A v \in Webhooks : turns[v].at \notin {"idle", "downloading"} => turns[v].session # i
  BY <1>1, FreshSession
<1>3. new \in Session /\ SessionSound(new) /\ ~Over(new)
  BY NewSessionSound
<1>4. /\ line' \in [Calls -> Places \cup {NoSession}]
      /\ line'[c] = i /\ \A d \in Calls \ {c} : line'[d] = line[d]
  BY <1>1 DEF VoiceTypeOK, CallStarts
<1>5. /\ turns' \in [Webhooks -> Turns]
      /\ turns'[w] = Greeting(c, i) /\ \A v \in Webhooks \ {w} : turns'[v] = turns[v]
  BY <1>1, NewTurns DEF VoiceTypeOK, CallStarts
<1>6. Greeting(c, i).at = "greeting" /\ Greeting(c, i).session = i /\ Greeting(c, i).call = c
  BY DEF Greeting
<1>7. /\ sessions' \in [Places -> Session]
      /\ sessions'[i] = new
      /\ \A k \in Places : sessions'[k] \in {new, Blank, sessions[k]}
      /\ \A k \in Places : \A d \in Calls : d # c /\ line[d] = k => sessions'[k] = sessions[k]
  <2> HIDE DEF new
  <2>1. sessions' = [k \in Places |-> IF k = i THEN new
                                      ELSE IF Held(k)' THEN sessions[k] ELSE Blank]
    BY DEF CallStarts, new
  <2>2. \A k \in Places, d \in Calls : line'[d] = k => Held(k)'
    BY DEF Held
  <2> QED BY <1>1, <1>2, <1>3, <1>4, <2>1, <2>2, BlankSound DEF VoiceTypeOK
<1> HIDE DEF new
<1>8. VoiceTypeOK'
  BY <1>1, <1>4, <1>5, <1>7 DEF VoiceTypeOK
<1>9. SessionsSound'
  BY <1>1, <1>3, <1>7, BlankSound DEF SessionsSound
<1>10. OneOwner'
  <2>1. NoSession \notin Places /\ demos \subseteq Places
    BY <1>1, VoiceAssumption DEF VoiceTypeOK
  <2> QED BY <1>1, <1>2, <1>4, <1>5, <1>6, <2>1 DEF OneOwner
<1>11. FinishedLeavesLine'
  <2> SUFFICES ASSUME NEW d \in Calls, line'[d] # NoSession, Over(sessions'[line'[d]])
               PROVE  \E v \in Webhooks : turns'[v] = Speaking(d, line'[d], TRUE)
    BY DEF FinishedLeavesLine
  <2>1. d # c /\ line'[d] = line[d]
    BY <1>3, <1>4, <1>7
  <2>2. line[d] \in Places
    BY <1>1, <2>1 DEF VoiceTypeOK
  <2>3. sessions'[line'[d]] = sessions[line[d]]
    BY <1>7, <2>1, <2>2
  <2>4. PICK v \in Webhooks : turns[v] = Speaking(d, line[d], TRUE)
    BY <1>1, <2>1, <2>3 DEF FinishedLeavesLine
  <2>5. v # w
    BY <1>1, <2>4 DEF Speaking
  <2> QED BY <1>5, <2>1, <2>4, <2>5
<1> QED BY <1>8, <1>9, <1>10, <1>11 DEF VoiceInv

(* A turn moves on and the sessions stay.                                  *)
LEMMA TurnMoves ==
    ASSUME VoiceInv, NEW w \in Webhooks, NEW t \in Turns,
           turns' = [turns EXCEPT ![w] = t], UNCHANGED <<sessions, line, demos>>,
           ~(turns[w].at = "speaking"),
           t.at \notin {"idle", "downloading"} =>
              \/ t.call = turns[w].call /\ line[t.call] = t.session
              \/ /\ turns[w].at \notin {"idle", "downloading"}
                 /\ t.call = turns[w].call /\ t.session = turns[w].session,
           turns[w].at # "idle" => turns[w].call \in Calls
    PROVE  VoiceInv'
<1>1. /\ VoiceTypeOK /\ SessionsSound /\ OneOwner /\ FinishedLeavesLine
  BY DEF VoiceInv
<1>2. /\ turns' \in [Webhooks -> Turns]
      /\ turns'[w] = t /\ \A v \in Webhooks \ {w} : turns'[v] = turns[v]
  BY <1>1 DEF VoiceTypeOK
<1>3. t.at # "idle" => t.call \in Calls
  BY TurnFields
<1>4. t.at \notin {"idle", "downloading"} => t.session \in Places
  BY TurnFields
<1>5. VoiceTypeOK' /\ SessionsSound'
  BY <1>1, <1>2 DEF VoiceTypeOK, SessionsSound
<1>6. OneOwner'
  <2>1. t.at \notin {"idle", "downloading"} =>
           /\ t.session \notin demos
           /\ \A c \in Calls : line[c] = t.session => c = t.call
           /\ \A v \in Webhooks :
                turns[v].at \notin {"idle", "downloading"} /\ turns[v].session = t.session
                   => turns[v].call = t.call
    <3>1. NoSession \notin Places
      BY VoiceAssumption
    <3> QED BY <1>1, <1>3, <1>4, <3>1 DEF OneOwner
  <2> QED BY <1>1, <1>2, <2>1 DEF OneOwner
<1>7. FinishedLeavesLine'
  <2> SUFFICES ASSUME NEW d \in Calls, line[d] # NoSession, Over(sessions[line[d]])
               PROVE  \E v \in Webhooks : turns'[v] = Speaking(d, line[d], TRUE)
    BY DEF FinishedLeavesLine
  <2>1. PICK v \in Webhooks : turns[v] = Speaking(d, line[d], TRUE)
    BY <1>1 DEF FinishedLeavesLine
  <2>2. v # w
    BY <2>1 DEF Speaking
  <2> QED BY <1>2, <2>1, <2>2
<1> QED BY <1>5, <1>6, <1>7 DEF VoiceInv

LEMMA TranscribedStep ==
    ASSUME VoiceInv, NEW w \in Webhooks, NEW u \in Utterances, Transcribed(w, u)
    PROVE  VoiceInv'
<1> DEFINE c == turns[w].call
           i == turns[w].session
           s == HandleMessage(sessions[i], u)
           t == Speaking(c, i, Over(s))
<1>1. /\ VoiceTypeOK /\ SessionsSound /\ OneOwner /\ FinishedLeavesLine
      /\ turns[w].at = "transcribing" /\ line' = line /\ demos' = demos
      /\ sessions' = [sessions EXCEPT ![i] = s] /\ turns' = [turns EXCEPT ![w] = t]
  BY DEF VoiceInv, Transcribed
<1>2. turns[w] \in Turns /\ u \in Utterance
  BY <1>1, UtterancesAssumption DEF VoiceTypeOK
<1>3. c \in Calls /\ i \in Places
  BY <1>1, <1>2, TurnFields
<1>4. s \in Session /\ SessionSound(s) /\ Over(s) \in BOOLEAN
  BY <1>1, <1>2, <1>3, HandleMessageSound DEF VoiceTypeOK, SessionsSound, Over
<1> HIDE DEF s
<1>5. /\ t \in Turns /\ t.at = "speaking" /\ t.call = c /\ t.session = i
  BY <1>3, <1>4, NewTurns
<1>6. /\ turns' \in [Webhooks -> Turns]
      /\ turns'[w] = t /\ \A v \in Webhooks \ {w} : turns'[v] = turns[v]
  <2> HIDE DEF t
  <2> QED BY <1>1, <1>5 DEF VoiceTypeOK
<1>7. /\ sessions' \in [Places -> Session]
      /\ sessions'[i] = s /\ \A k \in Places \ {i} : sessions'[k] = sessions[k]
  BY <1>1, <1>3, <1>4 DEF VoiceTypeOK
<1>8. VoiceTypeOK' /\ SessionsSound'
  <2> HIDE DEF t, c, i
  <2> QED BY <1>1, <1>4, <1>6, <1>7 DEF VoiceTypeOK, SessionsSound
<1>9. OneOwner'
  <2> HIDE DEF t
  <2> QED BY <1>1, <1>5, <1>6 DEF OneOwner
<1>10. FinishedLeavesLine'
  <2> SUFFICES ASSUME NEW d \in Calls, line[d] # NoSession, Over(sessions'[line[d]])
               PROVE  \E v \in Webhooks : turns'[v] = Speaking(d, line[d], TRUE)
    BY <1>1 DEF FinishedLeavesLine
  <2>1. CASE line[d] = i
    <3>1. d = c
      BY <1>1, <2>1 DEF OneOwner
    <3>2. Over(s) = TRUE
      BY <1>4, <1>7, <2>1
    <3>3. t = Speaking(d, line[d], TRUE)
      BY <2>1, <3>1, <3>2
    <3> QED BY <1>6, <3>3
  <2>2. CASE line[d] # i
    <3>1. line[d] \in Places
      BY <1>1 DEF VoiceTypeOK
    <3>2. PICK v \in Webhooks : turns[v] = Speaking(d, line[d], TRUE)
      BY <1>1, <1>7, <2>2, <3>1 DEF FinishedLeavesLine
    <3>3. v # w
      BY <1>1, <3>2 DEF Speaking
    <3> QED BY <1>6, <3>2, <3>3
  <2> QED BY <2>1, <2>2
<1> QED BY <1>8, <1>9, <1>10 DEF VoiceInv

LEMMA RestartStep == VoiceInv /\ Restart => VoiceInv'
<1> SUFFICES ASSUME VoiceInv, Restart PROVE VoiceInv'
  OBVIOUS
<1>1. VoiceTypeOK /\ SessionsSound /\ Idle \in Turns /\ Idle.at = "idle"
  BY DEF VoiceInv, Turns, Idle
<1>2. /\ line' = [c \in Calls |-> NoSession] /\ demos' = {}
      /\ turns' = [w \in Webhooks |-> Idle]
  BY DEF Restart
<1>3. /\ sessions' \in [Places -> Session]
      /\ \A i \in Places : sessions'[i] = sessions[i] \/ sessions'[i] = Blank
  <2>1. sessions' = [i \in Places |-> IF Held(i)' THEN sessions[i] ELSE Blank]
    BY DEF Restart, Collect
  <2> QED BY <1>1, <2>1, BlankSound DEF VoiceTypeOK
<1>4. VoiceTypeOK' /\ SessionsSound'
  BY <1>1, <1>2, <1>3, BlankSound DEF VoiceTypeOK, SessionsSound
<1>5. OneOwner' /\ FinishedLeavesLine'
  BY <1>1, <1>2 DEF OneOwner, FinishedLeavesLine
<1> QED BY <1>4, <1>5 DEF VoiceInv

(* The demo works on sessions no call knows of.                            *)
LEMMA DemoSession ==
    ASSUME VoiceInv, NEW i \in Places, NEW s \in Session, SessionSound(s),
           sessions' = [sessions EXCEPT ![i] = s], demos' \subseteq demos \cup {i},
           UNCHANGED <<line, turns>>,
           \A c \in Calls : line[c] # i,
           \A w \in Webhooks : turns[w].at \notin {"idle", "downloading"} =>
                                  turns[w].session # i
    PROVE  VoiceInv'
<1>1. VoiceTypeOK /\ SessionsSound /\ OneOwner /\ FinishedLeavesLine
  BY DEF VoiceInv
<1>2. /\ sessions' \in [Places -> Session]
      /\ sessions'[i] = s /\ \A k \in Places \ {i} : sessions'[k] = sessions[k]
  BY <1>1 DEF VoiceTypeOK
<1>3. VoiceTypeOK' /\ SessionsSound'
  BY <1>1, <1>2 DEF VoiceTypeOK, SessionsSound
<1>4. OneOwner'
  BY <1>1 DEF OneOwner
<1>5. FinishedLeavesLine'
  <2>1. \A c \in Calls : line[c] # NoSession => sessions'[line[c]] = sessions[line[c]]
    BY <1>1, <1>2 DEF VoiceTypeOK
  <2> QED BY <1>1, <2>1 DEF FinishedLeavesLine
<1> QED BY <1>3, <1>4, <1>5 DEF VoiceInv

LEMMA DemoStep == VoiceInv /\ DemoNext => VoiceInv'
<1>1. ASSUME VoiceInv, NEW i \in Places, NEW allowed \in BOOLEAN, DemoStarts(i, allowed)
      PROVE  VoiceInv'
  BY <1>1, NewSessionSound, FreshSession, DemoSession DEF DemoStarts
<1>2. ASSUME VoiceInv, NEW i \in Places, NEW u \in Utterances, DemoMessage(i, u)
      PROVE  VoiceInv'
  <2> DEFINE h == HandleMessage(sessions[i], u)
             s == IF Over(h) THEN Blank ELSE h
  <2>1. VoiceTypeOK /\ SessionsSound /\ OneOwner /\ u \in Utterance /\ i \in demos
    BY <1>2, UtterancesAssumption DEF VoiceInv, DemoMessage
  <2>2. h \in Session /\ SessionSound(h)
    BY <2>1, HandleMessageSound DEF VoiceTypeOK, SessionsSound
  <2>3. /\ sessions' = [sessions EXCEPT ![i] = s] /\ demos' \subseteq demos \cup {i}
        /\ UNCHANGED <<line, turns>>
    BY <1>2 DEF DemoMessage
  <2> HIDE DEF h
  <2>4. s \in Session /\ SessionSound(s)
    BY <2>2, BlankSound
  <2> HIDE DEF s
  <2>5. /\ \A c \in Calls : line[c] # i
        /\ \A w \in Webhooks : turns[w].at \notin {"idle", "downloading"} =>
                                  turns[w].session # i
    BY <2>1 DEF OneOwner
  <2> QED BY <1>2, <2>3, <2>4, <2>5, DemoSession
<1> QED BY <1>1, <1>2 DEF DemoNext

LEMMA TurnStep ==
    ASSUME VoiceInv, NEW w \in Webhooks, TurnNext(w)
    PROVE  VoiceInv'
<1>1. turns[w] \in Turns /\ line \in [Calls -> Places \cup {NoSession}]
  BY DEF VoiceInv, VoiceTypeOK
<1>2. turns[w].at # "idle" => turns[w].call \in Calls
  BY <1>1, TurnFields
<1>3. ASSUME NEW c \in Calls, RecordingArrives(w, c)
      PROVE  VoiceInv'
  <2>1. /\ Downloading(c) \in Turns /\ Downloading(c).at = "downloading"
        /\ turns[w].at = "idle"
    BY <1>3 DEF Turns, Downloading, RecordingArrives, Idle
  <2> QED BY <1>2, <1>3, <2>1, TurnMoves DEF RecordingArrives
<1>4. ASSUME NEW c \in Calls, NEW i \in Places, CallStarts(w, c, i)
      PROVE  VoiceInv'
  BY <1>4, CallStartsStep
<1>5. ASSUME NEW u \in Utterances, Transcribed(w, u)
      PROVE  VoiceInv'
  BY <1>5, TranscribedStep
<1>6. CASE Downloaded(w)
  <2> DEFINE c == turns[w].call
             t == Transcribing(c, line[c])
  <2>1. /\ turns[w].at = "downloading" /\ c \in Calls /\ line[c] \in Places
        /\ turns' = [turns EXCEPT ![w] = t] /\ UNCHANGED <<sessions, line, demos>>
    BY <1>1, <1>2, <1>6 DEF Downloaded
  <2>2. t \in Turns /\ t.at = "transcribing" /\ t.call = c /\ t.session = line[c]
    BY <2>1 DEF Turns, Transcribing
  <2> QED BY <1>2, <2>1, <2>2, TurnMoves
<1>7. CASE Misheard(w)
  <2> DEFINE t == Speaking(turns[w].call, turns[w].session, FALSE)
  <2>1. /\ turns[w].at = "transcribing"
        /\ turns' = [turns EXCEPT ![w] = t] /\ UNCHANGED <<sessions, line, demos>>
    BY <1>7 DEF Misheard
  <2>2. turns[w].call \in Calls /\ turns[w].session \in Places
    BY <1>1, <2>1, TurnFields
  <2>3. /\ t \in Turns /\ t.at = "speaking" /\ t.call = turns[w].call
        /\ t.session = turns[w].session
    BY <2>2 DEF Turns, Speaking
  <2> QED BY <1>2, <2>1, <2>3, TurnMoves
<1>8. CASE Spoken(w)
  <2>1. /\ turns[w].at \in {"greeting", "speaking"} /\ turns' = [turns EXCEPT ![w] = Idle]
        /\ demos' = demos /\ Collect
        /\ line' = IF turns[w].at = "speaking" /\ turns[w].done
                   THEN [line EXCEPT ![turns[w].call] = NoSession] ELSE line
    BY <1>8 DEF Spoken
  <2>2. /\ line' \in [Calls -> Places \cup {NoSession}]
        /\ \A d \in Calls : line'[d] \in {line[d], NoSession}
        /\ turns[w].at = "speaking" /\ turns[w].done => line'[turns[w].call] = NoSession
    BY <1>1, <1>2, <2>1
  <2> QED BY <2>1, <2>2, LettingGo
<1>9. CASE Fails(w)
  <2>1. turns[w].at # "idle"
    BY <1>1, <1>9 DEF Fails, Turns, Idle
  <2>2. /\ turns' = [turns EXCEPT ![w] = Idle] /\ demos' = demos /\ Collect
        /\ line' = [line EXCEPT ![turns[w].call] = NoSession]
    BY <1>9 DEF Fails
  <2>3. /\ line' \in [Calls -> Places \cup {NoSession}]
        /\ \A d \in Calls : line'[d] \in {line[d], NoSession}
        /\ line'[turns[w].call] = NoSession
    BY <1>1, <1>2, <2>1, <2>2
  <2> QED BY <2>2, <2>3, LettingGo
<1> QED BY <1>3, <1>4, <1>5, <1>6, <1>7, <1>8, <1>9 DEF TurnNext

LEMMA VoiceStep == VoiceInv /\ [VoiceNext]_voiceVars => VoiceInv'
<1>1. CASE UNCHANGED voiceVars
  <2>1. UNCHANGED <<sessions, line, demos, turns>>
    BY <1>1 DEF voiceVars
  <2> QED BY <2>1 DEF VoiceInv, VoiceTypeOK, SessionsSound, OneOwner, FinishedLeavesLine
<1> QED BY <1>1, TurnStep, DemoStep, RestartStep DEF VoiceNext

LEMMA VoiceInvHolds == VoiceSpec => []VoiceInv
BY VoiceInitHolds, VoiceStep, PTL DEF VoiceSpec

----------------------------------------------------------------------------
(* The telephone line: a session, a call, a demo and a turn are always     *)
(* what the code means by them, whatever webhooks the carrier delivers.    *)
THEOREM VoiceTypes == VoiceSpec => []VoiceTypeOK
BY VoiceInvHolds, PTL DEF VoiceInv

(* The gates come first, for any questions and any caller: no session asks  *)
(* or takes an answer of substance before the recording was consented to,  *)
(* the conflict check came out clear and the caller is a client.           *)
THEOREM GatesComeFirst == VoiceSpec => []GatesBeforeSubstance
<1>1. VoiceInv => GatesBeforeSubstance
  BY DEF VoiceInv, SessionsSound, SessionSound, GatesBeforeSubstance
<1> QED BY <1>1, VoiceInvHolds, PTL

(* An emergency ends the intake, wherever in it the caller mentions one:   *)
(* no gate, pending question or caller type comes before the hand-off.     *)
THEOREM EmergencyEnds == VoiceSpec => []EmergencyEndsIntake
<1>1. VoiceInv => EmergencyEndsIntake
  BY DEF VoiceInv, SessionsSound, SessionSound, EmergencyEndsIntake
<1> QED BY <1>1, VoiceInvHolds, PTL

(* A finished conversation leaves the line: while a call still has one,    *)
(* the turn that finished it is waiting for its reply to be spoken, for    *)
(* any number of overlapping webhooks, failures and calls that start over. *)
THEOREM FinishedLeaves == VoiceSpec => []FinishedLeavesLine
BY VoiceInvHolds, PTL DEF VoiceInv
=============================================================================
