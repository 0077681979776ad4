---------------------------- MODULE LoginThrottle ----------------------------
(***************************************************************************)
(* The login throttle (core/login-throttle.ts) as operators on the         *)
(* failures kept for each key, a username or a client address.             *)
(***************************************************************************)
EXTENDS Filtering, Integers, SequencesExt

CONSTANTS
    MaxFailures,    \* failures within the window that lock a key
    Window,         \* how long a failure counts
    Lockout         \* how long a key stays locked after its last failure

(* A lockout that ended before its failures left the window would let a    *)
(* key that is over its limit try again.  The defaults are the same.       *)
ASSUME ThrottleAssumption ==
    /\ MaxFailures \in Nat \ {0} /\ Window \in Nat \ {0} /\ Lockout \in Nat
    /\ Lockout >= Window

\* When a failure was recorded, and whether its attempt had passed check before
\* (the latter is looked at by properties only).
Failure == [at : Nat, checked : BOOLEAN]

\* #recentFailures
Recent(kept, now) == AtPositions(kept, {i \in DOMAIN kept : kept[i].at > now - Window})

\* Mutant: one failure too many is allowed.
LockedLate(kept, now) ==
    LET recent == Recent(kept, now)
    IN  Len(recent) > MaxFailures /\ Last(recent).at + Lockout > now

\* check, of one key
Locked(kept, now) ==
    LET recent == Recent(kept, now)
    IN  Len(recent) >= MaxFailures /\ Last(recent).at + Lockout > now

\* check: any key of an attempt locks it out.
LockedOut(failures, keys, now) == \E k \in keys : Locked(failures[k], now)

RecordFailure(failures, keys, now, checked) ==
    [k \in DOMAIN failures |->
        IF k \in keys THEN Append(Recent(failures[k], now), [at |-> now, checked |-> checked])
                      ELSE failures[k]]

RecordSuccess(failures, keys) ==
    [k \in DOMAIN failures |-> IF k \in keys THEN <<>> ELSE failures[k]]
=============================================================================
