------------------------------ MODULE Conflicts ------------------------------
(***************************************************************************)
(* Conflict-of-interest screening (core/conflicts.ts): how a name is       *)
(* reduced to tokens, how two names are compared, how a match is           *)
(* classified, and what a check over the firm's records reports.           *)
(*                                                                         *)
(* A raw name is its words, each already a lower-case token without        *)
(* accents or punctuation, and the word its one comma follows.  Titles and *)
(* explanations of a hit, and the order hits are sorted in, are left out.  *)
(***************************************************************************)
EXTENDS Filtering, SequencesExt

CONSTANTS
    Tokens, Names,  \* words, and the raw names requests and records carry
    Honorifics, Generational, EntityMarkers,    \* tokens that carry no identity
    TooShort,       \* tokens of fewer than three characters
    Initial         \* the first letter of each token

ASSUME ConflictsAssumption ==
    /\ Honorifics \cup Generational \cup EntityMarkers \cup TooShort \subseteq Tokens
    /\ DOMAIN Initial = Tokens
    /\ Names \subseteq [words : Seq(Tokens), comma : Nat]

PartyRoles == {"client", "adverse", "related"}

\* commaParts: "smith, john" is turned around, "acme, inc" is not.
TurnAround(n) ==
    IF /\ n.comma \in 1 .. (Len(n.words) - 1)
       /\ ~(n.comma + 1 = Len(n.words) /\ Last(n.words) \in EntityMarkers)
    THEN SubSeq(n.words, n.comma + 1, Len(n.words)) \o SubSeq(n.words, 1, n.comma)
    ELSE n.words

NoIdentity == Honorifics \cup Generational \cup EntityMarkers

\* normalizeName
NormalizeName(n) ==
    LET words == TurnAround(n)
    IN  AtPositions(words, {i \in DOMAIN words : words[i] \notin NoIdentity})

\* compareNames: the first strength that applies.
CompareNames(a, b) ==
    LET left    == NormalizeName(a)
        right   == NormalizeName(b)
        shorter == IF Len(left) <= Len(right) THEN left ELSE right
        longer  == IF Len(left) <= Len(right) THEN right ELSE left
        Within  == /\ ToSet(shorter) \subseteq ToSet(longer)
                   /\ Len(shorter) = 1 => shorter[1] \notin TooShort
        Akin    == /\ Len(left) > 1 /\ Len(right) > 1
                   /\ Last(left) = Last(right)
                   /\ Initial[left[1]] = Initial[right[1]]
    IN  IF left = <<>> \/ right = <<>> THEN "none"
        ELSE IF left = right THEN "exact"
        ELSE IF Within THEN "strong"
        ELSE IF Akin THEN "possible"
        ELSE "none"

Strength == [pair \in Names \X Names |-> CompareNames(pair[1], pair[2])]

(* What the comparison is to see through, told by the words as they were   *)
(* written ("Handles the shapes that actually show up in intake",          *)
(* normalizeName): the words that say who it is in any order, between      *)
(* titles and suffixes, fewer or more of them, and an initial for the      *)
(* first name.  A name that is nothing but one or two letters says too     *)
(* little.                                                                 *)
Identity(n) == ToSet(n.words) \ NoIdentity
Telling(n)  == Identity(n) # {} /\ \A t \in TooShort : Identity(n) # {t}

Shortens(a, b) ==
    /\ Telling(a) /\ Identity(a) \subseteq Identity(b)
    /\ Identity(b) \subseteq Identity(a) \/ IsInjective(a.words)

Bearing(n)      == {i \in DOMAIN n.words : n.words[i] \notin NoIdentity}
SurnameFirst(n) == n.comma \in 1 .. (Len(n.words) - 1)
FamilyPart(n)   == {i \in Bearing(n) : SurnameFirst(n) => i <= n.comma}
GivenPart(n)    == {i \in Bearing(n) : SurnameFirst(n) => i > n.comma}
Surname(n)      == n.words[Max(FamilyPart(n))]
FirstName(n)    == n.words[Min(GivenPart(n))]

Abbreviates(a, b) ==
    /\ \A n \in {a, b} :
          Cardinality(Bearing(n)) > 1 /\ FamilyPart(n) # {} /\ GivenPart(n) # {}
    /\ Surname(a) = Surname(b) /\ Initial[FirstName(a)] = Initial[FirstName(b)]

SameName(a, b) == Shortens(a, b) \/ Shortens(b, a) \/ Abbreviates(a, b)

Opposed(incoming, role) ==
    \/ incoming = "adverse" /\ role = "client"
    \/ incoming = "client" /\ role = "adverse"

\* Mutant: only matters that are open count.
ClassifyOpenOnly(status, role, incoming) ==
    IF status = "open" /\ Opposed(incoming, role) THEN "direct"
    ELSE IF incoming = "client" /\ role = "client" THEN "same_side"
    ELSE "informational"

\* classify: Rule 1.7 on a live matter, Rule 1.9 on a closed one.
Classify(status, role, incoming) ==
    CASE Opposed(incoming, role) /\ status # "closed" -> "direct"
      [] Opposed(incoming, role) /\ status = "closed" -> "former_client"
      [] OTHER -> IF incoming = "client" /\ role = "client"
                  THEN "same_side" ELSE "informational"

\* The side a searched name takes: its name is looked up trimmed among
\* keys that were not, so a padded name has lost its side, and a name
\* without a side is taken for a client.
IncomingRole(searched) ==
    IF searched.padded \/ searched.role \notin PartyRoles THEN "client"
    ELSE searched.role

\* ConflictChecker.check: every party of every record on file but that of
\* the matter left out, against every searched name.
Check(records, names, excluded) ==
    {hit \in [matter : DOMAIN records \ excluded,
              party : UNION {records[m].parties : m \in DOMAIN records},
              searched : names] :
        /\ hit.party \in records[hit.matter].parties
        /\ Strength[<<hit.searched.name, hit.party.name>>] # "none"}

Severity(records, hit) ==
    Classify(records[hit.matter].status, hit.party.role, IncomingRole(hit.searched))

RequiresAttorneyReview(records, names, excluded) ==
    \E hit \in Check(records, names, excluded) :
        Severity(records, hit) \in {"direct", "former_client"}
=============================================================================
