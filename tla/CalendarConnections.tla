------------------------- MODULE CalendarConnections -------------------------
(***************************************************************************)
(* Staff connecting their own Google Calendar (core/calendar-              *)
(* connections.ts, review-ui/calendar-connection-service.ts, and the       *)
(* routes in review-ui/server.ts): a request is begun under a fresh state, *)
(* the browser comes back with it once the account's owner agreed, and the *)
(* callback awaits the exchange of the code before it stores the           *)
(* connection.  Pending requests live in memory for ten minutes; the       *)
(* connections are part of the saved state.                                *)
(*                                                                         *)
(* A state is named by its number: randomness makes them distinct.  The    *)
(* connected address and the short-lived access tokens that the calendar   *)
(* job asks for are left out: both only read a connection.                 *)
(***************************************************************************)
EXTENDS Naturals, FiniteSets

CONSTANTS
    Owners,         \* staff with a calendar of their own
    Requests,       \* bound: the states that can be given out
    Callbacks       \* bound: callbacks under way at once

VARIABLES
    owner,          \* owner[r]: who began request r, or Nobody
    pending,        \* the requests a callback may still complete
    stale,          \* those that are older than ten minutes
    exchanging,     \* exchanging[k]: the request callback k awaits, or NoRequest
    connections,    \* connections[a]: the request a's connection came from
    completed,      \* history: completed[r]: the connections made of request r
    savedConnections

connectionVars == <<owner, pending, stale, exchanging, connections, completed,
                    savedConnections>>

Nobody == "nobody"
NoRequest == 0

ASSUME ConnectionAssumption == Nobody \notin Owners /\ NoRequest \notin Requests

\* beginConnect sweeps, then gives out a state.
BeginConnect(a, r) ==
    /\ owner[r] = Nobody
    /\ owner' = [owner EXCEPT ![r] = a]
    /\ pending' = (pending \ stale) \cup {r}
    /\ UNCHANGED <<stale, exchanging, connections, completed, savedConnections>>

TenMinutesPass ==
    /\ pending \ stale # {}
    /\ stale' = {r \in Requests : owner[r] # Nobody}
    /\ UNCHANGED <<owner, pending, exchanging, connections, completed, savedConnections>>

\* Mutant: the state is spent when the connection is stored.
CallbackSpendsLate(k, r) ==
    /\ exchanging[k] = NoRequest
    /\ r \in pending \ stale
    /\ pending' = pending \ stale
    /\ exchanging' = [exchanging EXCEPT ![k] = r]
    /\ UNCHANGED <<owner, stale, connections, completed, savedConnections>>

\* completeConnect up to its first await: the state is spent.
Callback(k, r) ==
    /\ exchanging[k] = NoRequest
    /\ r \in pending \ stale
    /\ pending' = (pending \ stale) \ {r}
    /\ exchanging' = [exchanging EXCEPT ![k] = r]
    /\ UNCHANGED <<owner, stale, connections, completed, savedConnections>>

\* completeConnect after the exchange, which brought a refresh token.
Connected(k) ==
    LET r == exchanging[k]
    IN  /\ r # NoRequest
        /\ connections' = [connections EXCEPT ![owner[r]] = r]
        /\ completed' = [completed EXCEPT ![r] = @ + 1]
        /\ exchanging' = [exchanging EXCEPT ![k] = NoRequest]
        /\ UNCHANGED <<owner, pending, stale, savedConnections>>

\* The exchange failed or brought no refresh token: the state is spent.
ExchangeFails(k) ==
    /\ exchanging[k] # NoRequest
    /\ exchanging' = [exchanging EXCEPT ![k] = NoRequest]
    /\ UNCHANGED <<owner, pending, stale, connections, completed, savedConnections>>

\* disconnect leaves requests and callbacks under way as they are.
Disconnect(a) ==
    /\ connections' = [connections EXCEPT ![a] = NoRequest]
    /\ UNCHANGED <<owner, pending, stale, exchanging, completed, savedConnections>>

SaveConnections ==
    /\ savedConnections' = connections
    /\ UNCHANGED <<owner, pending, stale, exchanging, connections, completed>>

RestartConnections ==
    /\ connections' = savedConnections
    /\ pending' = {}
    /\ exchanging' = [k \in Callbacks |-> NoRequest]
    /\ UNCHANGED <<owner, stale, completed, savedConnections>>

----------------------------------------------------------------------------
ConnectionInit ==
    /\ owner = [r \in Requests |-> Nobody]
    /\ pending = {} /\ stale = {}
    /\ exchanging = [k \in Callbacks |-> NoRequest]
    /\ connections = [a \in Owners |-> NoRequest]
    /\ completed = [r \in Requests |-> 0]
    /\ savedConnections = connections

ConnectionNext ==
    \/ \E a \in Owners : Disconnect(a) \/ \E r \in Requests : BeginConnect(a, r)
    \/ \E k \in Callbacks :
        Connected(k) \/ ExchangeFails(k) \/ \E r \in Requests : Callback(k, r)
    \/ TenMinutesPass \/ SaveConnections \/ RestartConnections

ConnectionSpec == ConnectionInit /\ [][ConnectionNext]_connectionVars

----------------------------------------------------------------------------
(* One agreement, one connection, and to the calendar of whoever began it: *)
(* a state is good for one connection at most ("single-use and             *)
(* short-lived", calendar-connection-service.ts), with the browser coming  *)
(* back twice at once, requests crossing and restarts in between, and      *)
(* every connection in use, saved or not, is one of its owner's requests.  *)
ConnectedByItsOwner ==
    /\ \A r \in Requests : completed[r] <= 1
    /\ \A a \in Owners : \A r \in {connections[a], savedConnections[a]} \ {NoRequest} :
          owner[r] = a /\ completed[r] = 1
=============================================================================
