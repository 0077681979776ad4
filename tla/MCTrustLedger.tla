---------------------------- MODULE MCTrustLedger ----------------------------
(* Model-checking instance of MatterRecords over TrustLedger: two matters, *)
(* one attorney, one paralegal that can be reassigned between them, and    *)
(* requests that carry valid and invalid amounts; a record may name an     *)
(* adverse company and a client whose names are written in several ways.   *)
EXTENDS MatterRecords, TLC

MCAmounts == 0 .. 1

MCTokens  == {"mr", "j", "john", "q", "smith", "jr", "acme", "inc", "corp"}
MCInitial == [t \in MCTokens |-> CASE t \in {"j", "john", "jr"} -> "j"
                                   [] t \in {"mr"} -> "m"
                                   [] t \in {"q"} -> "q"
                                   [] t \in {"smith"} -> "s"
                                   [] t \in {"acme"} -> "a"
                                   [] OTHER -> "i"]

Written(words, comma) == [words |-> words, comma |-> comma]
JohnSmith == Written(<<"john", "smith">>, 0)
AcmeInc   == Written(<<"acme", "inc">>, 1)      \* "Acme, Inc."

MCSpellings == (JohnSmith :>
                   {JohnSmith,
                    Written(<<"smith", "john">>, 1),
                    Written(<<"smith", "jr", "mr", "john", "q">>, 2),
                    Written(<<"john", "q", "smith">>, 0),
                    Written(<<"j", "smith">>, 0),
                    Written(<<"smith", "jr", "mr", "j">>, 2),
                    Written(<<"smith">>, 0)})
            @@ (AcmeInc :>
                   {AcmeInc, Written(<<"acme", "corp">>, 0), Written(<<"acme">>, 0)})

MCPartyLists == {{}, {[name |-> JohnSmith, role |-> "client"],
                      [name |-> AcmeInc, role |-> "adverse"]}}

MCNames == UNION {MCSpellings[n] : n \in DOMAIN MCSpellings}
=============================================================================
