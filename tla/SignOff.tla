------------------------------- MODULE SignOff -------------------------------
(***************************************************************************)
(* What a review before anything leaves the house promises, with no        *)
(* actors, matters, deadlines or rounds of revision: a document is written *)
(* until it is signed, signed with no warning left on it, sent as it was   *)
(* signed, and nothing happens to it afterwards.  Its folder is labelled   *)
(* with a kind and a number; the house forgets now and then which numbers  *)
(* it has used, and only then can a new document take an old one's folder. *)
(***************************************************************************)
EXTENDS Integers

CONSTANTS
    Kinds, Numbers, Contents,
    Warnings    \* what can have to be settled before a document is signed

VARIABLES
    folders,    \* a function from <<kind, number>> to [at, content, warnings]
    used        \* the numbers the house remembers having used

signVars == <<folders, used>>

Init == folders = [f \in {} |-> 0] /\ used = {}

Begin(k, n, c, ws) ==
    /\ n \notin used
    /\ used' = used \cup {n}
    /\ folders' = [f \in DOMAIN folders \cup {<<k, n>>} |->
                     IF f = <<k, n>> THEN [at |-> "in work", content |-> c, warnings |-> ws]
                     ELSE folders[f]]

Forget == used' = {} /\ UNCHANGED folders

Rewrite(f, c) ==
    /\ folders[f].at = "in work"
    /\ folders' = [folders EXCEPT ![f].content = c]

Settle(f, w) ==
    /\ w \in folders[f].warnings
    /\ folders' = [folders EXCEPT ![f].warnings = @ \ {w}]

Sign(f) ==
    /\ folders[f].at = "in work" /\ folders[f].warnings = {}
    /\ folders' = [folders EXCEPT ![f].at = "signed"]

Send(f) ==
    /\ folders[f].at = "signed"
    /\ folders' = [folders EXCEPT ![f].at = "sent"]

Drop(f) ==
    /\ folders[f].at = "in work"
    /\ folders' = [folders EXCEPT ![f].at = "dropped"]

Next ==
    \/ \E k \in Kinds, n \in Numbers, c \in Contents, ws \in SUBSET Warnings : Begin(k, n, c, ws)
    \/ Forget
    \/ /\ UNCHANGED used
       /\ \E f \in DOMAIN folders :
             \/ \E c \in Contents : Rewrite(f, c)
             \/ \E w \in Warnings : Settle(f, w)
             \/ Sign(f) \/ Send(f) \/ Drop(f)

Spec == Init /\ [][Next]_signVars
=============================================================================
