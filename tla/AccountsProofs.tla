---------------------------- MODULE AccountsProofs ----------------------------
(***************************************************************************)
(* Proofs about accounts, sessions and sign-in, for any accounts,          *)
(* passwords, passkeys, lifetimes and interleavings of the handlers.       *)
(***************************************************************************)
EXTENDS Accounts, CollectionProofs

----------------------------------------------------------------------------
(* Types.                                                                  *)

(* What the account of u becomes and what everything else keeps.           *)
LEMMA ReplaceTypes ==
    ASSUME AccountsTypeOK, NEW u \in Known, NEW r, UserOK(r), ReplaceUser(u, r)
    PROVE  /\ Known' = Known /\ Known \subseteq Users
           /\ accounts'[u] = r /\ \A w \in Known \ {u} : accounts'[w] = accounts[w]
           /\ \A w \in Known : UserOK(accounts'[w])
BY DEF AccountsTypeOK, ReplaceUser, Known

LEMMA InitTypes == Init => AccountsTypeOK
<1> SUFFICES ASSUME Init PROVE AccountsTypeOK
  OBVIOUS
<1>1. PICK p \in Passwords : accounts = [u \in {FirstAttorney} |-> Fresh(p)]
  BY DEF Init
<1>2. UserOK(Fresh(p))
  BY DEF UserOK, Fresh, Record
<1>3. Known \subseteq Users /\ \A u \in Known : UserOK(accounts[u])
  BY <1>1, <1>2, AccountsAssumption DEF Known, Users
<1> QED BY <1>3, AccountsAssumption DEF Init, AccountsTypeOK

(* No record changes.                                                      *)
LEMMA QuietStep ==
    ASSUME AccountsTypeOK, accounts' = accounts,
           sessions' \subseteq sessions \cup
               [user : Known, proof : Passwords \cup {NoPassword}],
           DOMAIN failures' = Keys, links' \subseteq [id : Nat, user : Known, expires : Nat, used : BOOLEAN],
           challenges' \subseteq [ceremony : Ceremonies, user : Known, id : Nat, expires : Nat],
           \A a \in asking' :
               \/ a \in asking
               \/ /\ a \in [ceremony : Ceremonies, user : Users, id : Nat,
                           keys : SUBSET Keys, granted : BOOLEAN]
                  /\ a.granted => a.user \in Known,
           \A v \in verifying' :
               \/ v \in verifying
               \/ /\ v \in [ceremony : Ceremonies, user : Known, id : Nat, read : Record]
                  /\ UserOK(v.read),
           arrived' \subseteq Known, undone' = undone, now' \in Nat, work' \in 0 .. MaxWork
    PROVE  AccountsTypeOK'
BY DEF AccountsTypeOK, Known

LEMMA WorkTypes ==
    ASSUME AccountsTypeOK, Work
    PROVE  work' \in 0 .. MaxWork /\ work' \in Nat \ {0} /\ work' = work + 1
BY AccountsAssumption DEF AccountsTypeOK, Work

LEMMA Lifetimes ==
    ASSUME AccountsTypeOK
    PROVE  /\ ChallengeTtl \in Nat /\ LinkTtl \in Nat /\ Drift \in Nat /\ now \in Nat
           /\ now + ChallengeTtl \in Nat /\ now + LinkTtl \in Nat
           /\ \A t \in ValidSteps : t \in Nat /\ t > 0
BY AccountsAssumption DEF AccountsTypeOK, ValidSteps

LEMMA DomainsStay ==
    ASSUME AccountsTypeOK, NEW keys, NEW n, NEW checked
    PROVE  /\ DOMAIN RecordFailure(failures, keys, n, checked) = Keys
           /\ DOMAIN RecordSuccess(failures, keys) = Keys
BY DEF AccountsTypeOK, RecordFailure, RecordSuccess

LEMMA WriteBackTypes ==
    ASSUME AccountsTypeOK, NEW u \in Known, NEW read, NEW written, WriteBack(u, read, written)
    PROVE  undone \subseteq undone' /\ undone' \subseteq Users \X Parts /\ ReplaceUser(u, written)
BY DEF AccountsTypeOK, WriteBack, Parts

(* A handler that asks for a challenge is one of those that await it.      *)
LEMMA AskTypes ==
    ASSUME AccountsTypeOK, Work, NEW u \in Users, NEW ceremony \in Ceremonies,
           NEW keys \in SUBSET Keys, NEW granted \in BOOLEAN, granted => u \in Known,
           Ask(ceremony, u, keys, granted)
    PROVE  \A a \in asking' :
              \/ a \in asking
              \/ /\ a \in [ceremony : Ceremonies, user : Users, id : Nat,
                          keys : SUBSET Keys, granted : BOOLEAN]
                 /\ a.granted => a.user \in Known
<1> DEFINE new == [ceremony |-> ceremony, user |-> u, id |-> work',
                   keys |-> keys, granted |-> granted]
<1>1. /\ new \in [ceremony : Ceremonies, user : Users, id : Nat,
                  keys : SUBSET Keys, granted : BOOLEAN]
      /\ new.granted => new.user \in Known
  BY WorkTypes
<1>2. \A a \in asking' : a \in asking \/ a = new
  BY DEF Ask
<1> QED BY <1>1, <1>2

(* Every action that leaves the records alone.                             *)
Quiet ==
    \/ \E u \in Users, ip \in Ips :
        \/ SignInFails(u, ip) \/ Login(u, ip)
        \/ BeginPasskeyLogin(u, ip) \/ RefusePasskeyLogin(u, ip) \/ CompletePasskeyFails(u, ip)
    \/ \E s \in sessions : EndSession(s)
    \/ \E a \in asking : ChallengeIssued(a) \/ ProviderFails(a) \/ BeginFails(a)
    \/ \E u \in Users : CompletePasskeyLogin(u)
    \/ \E v \in verifying : \/ CeremonyFails(v)
                            \/ \E ip \in Ips : PasskeyLoginUnverified(v, ip)
    \/ \E u \in Users : \/ Arrive(u) \/ RequestFails(u) \/ RequestPasswordReset(u)
                        \/ BeginPasskeyRegistration(u) \/ CompletePasskeyRegistration(u)
    \/ \E a, u \in Users : ClearLoginLockout(a, u)
    \/ Tick

LEMMA QuietTypes == AccountsTypeOK /\ Quiet => AccountsTypeOK'
<1> SUFFICES ASSUME AccountsTypeOK, Quiet PROVE AccountsTypeOK'
  OBVIOUS
<1> DEFINE Opened == [ceremony : Ceremonies, user : Known, id : Nat, read : Record]
<1>1. ASSUME NEW u \in Users, NEW ip \in Ips, SignInFails(u, ip)
      PROVE  AccountsTypeOK'
  BY <1>1, WorkTypes, DomainsStay, QuietStep
     DEF SignInFails, AccountsTypeOK, ceremonyVars
<1>2. ASSUME NEW u \in Users, NEW ip \in Ips, Login(u, ip)
      PROVE  AccountsTypeOK'
  <2>1. accounts[u].password \in Passwords /\ u \in Known
    BY <1>2 DEF Login, Enabled, AccountsTypeOK, UserOK, Record
  <2> QED BY <1>2, <2>1, WorkTypes, DomainsStay, QuietStep
             DEF Login, SignedIn, AccountsTypeOK, ceremonyVars
<1>3. ASSUME NEW u \in Users, NEW ip \in Ips, BeginPasskeyLogin(u, ip) \/ RefusePasskeyLogin(u, ip)
      PROVE  AccountsTypeOK'
  <2>1. /\ {u, ip} \in SUBSET Keys /\ "login" \in Ceremonies
        /\ BeginPasskeyLogin(u, ip) => u \in Known
    BY DEF Keys, Ceremonies, BeginPasskeyLogin, Enabled
  <2>2. \A a \in asking' :
           \/ a \in asking
           \/ /\ a \in [ceremony : Ceremonies, user : Users, id : Nat,
                       keys : SUBSET Keys, granted : BOOLEAN]
              /\ a.granted => a.user \in Known
    <3>1. CASE BeginPasskeyLogin(u, ip)
      <4>1. Work /\ Ask("login", u, {u, ip}, TRUE)
        BY <3>1 DEF BeginPasskeyLogin
      <4>2. u \in Known
        BY <2>1, <3>1
      <4> QED BY <2>1, <4>1, <4>2, AskTypes
    <3>2. CASE RefusePasskeyLogin(u, ip)
      <4>1. Work /\ Ask("login", u, {u, ip}, FALSE)
        BY <3>2 DEF RefusePasskeyLogin
      <4> QED BY <2>1, <4>1, AskTypes
    <3> QED BY <1>3, <3>1, <3>2
  <2> QED BY <1>3, <2>2, WorkTypes, QuietStep
             DEF BeginPasskeyLogin, RefusePasskeyLogin, AccountsTypeOK, sessionVars
<1>4. ASSUME NEW u \in Users, NEW ip \in Ips, CompletePasskeyFails(u, ip)
      PROVE  AccountsTypeOK'
  <2>1. challenges' \subseteq challenges
    BY <1>4 DEF CompletePasskeyFails
  <2> QED BY <1>4, <2>1, WorkTypes, DomainsStay, QuietStep
             DEF CompletePasskeyFails, AccountsTypeOK
<1>5. ASSUME NEW s \in sessions, EndSession(s)
      PROVE  AccountsTypeOK'
  BY <1>5, QuietStep DEF EndSession, AccountsTypeOK, ceremonyVars
<1>6. ASSUME NEW a \in asking, ChallengeIssued(a)
      PROVE  AccountsTypeOK'
  <2>1. challenges' \subseteq [ceremony : Ceremonies, user : Known, id : Nat, expires : Nat]
    BY <1>6, Lifetimes DEF ChallengeIssued, AccountsTypeOK
  <2> QED BY <1>6, <2>1, QuietStep DEF ChallengeIssued, AccountsTypeOK, sessionVars
<1>17. ASSUME NEW a \in asking, ProviderFails(a) \/ BeginFails(a)
       PROVE  AccountsTypeOK'
  BY <1>17, DomainsStay, QuietStep DEF ProviderFails, BeginFails, AccountsTypeOK, sessionVars
<1>7. ASSUME NEW u \in Users, CompletePasskeyLogin(u)
      PROVE  AccountsTypeOK'
  <2>1. u \in Known /\ UserOK(accounts[u]) /\ accounts[u] \in Record /\ "login" \in Ceremonies
    BY <1>7 DEF CompletePasskeyLogin, Enabled, AccountsTypeOK, UserOK, Ceremonies
  <2>2. \A c \in challenges : c.id \in Nat
    BY DEF AccountsTypeOK
  <2>3. \A v \in verifying' : v \in verifying \/ (v \in Opened /\ UserOK(v.read))
    BY <1>7, <2>1, <2>2 DEF CompletePasskeyLogin, Redeem, Pending, Unexpired
  <2>4. challenges' \subseteq challenges
    BY <1>7 DEF CompletePasskeyLogin, Redeem
  <2> QED BY <1>7, <2>3, <2>4, QuietStep
             DEF CompletePasskeyLogin, AccountsTypeOK, sessionVars
<1>8. ASSUME NEW v \in verifying, CeremonyFails(v)
      PROVE  AccountsTypeOK'
  BY <1>8, QuietStep DEF CeremonyFails, AccountsTypeOK, sessionVars
<1>9. ASSUME NEW v \in verifying, NEW ip \in Ips, PasskeyLoginUnverified(v, ip)
      PROVE  AccountsTypeOK'
  BY <1>9, DomainsStay, QuietStep DEF PasskeyLoginUnverified, AccountsTypeOK
<1>10. ASSUME NEW u \in Users, Arrive(u)
       PROVE  AccountsTypeOK'
  <2>1. u \in Known
    BY <1>10 DEF Arrive, AccountsTypeOK
  <2> QED BY <1>10, <2>1, QuietStep DEF Arrive, AccountsTypeOK, sessionVars, ceremonyVars
<1>11. ASSUME NEW u \in Users, RequestFails(u)
       PROVE  AccountsTypeOK'
  BY <1>11, QuietStep DEF RequestFails, AccountsTypeOK, sessionVars, ceremonyVars
<1>12. ASSUME NEW u \in Users, RequestPasswordReset(u)
       PROVE  AccountsTypeOK'
  <2>1. links' \subseteq [id : Nat, user : Known, expires : Nat, used : BOOLEAN]
    <3>1. work' \in Nat /\ now + LinkTtl \in Nat
      BY <1>12, Lifetimes, WorkTypes DEF RequestPasswordReset
    <3>2. \A w \in {w \in {u} : Enabled(w)} :
             [id |-> work', user |-> w, expires |-> now + LinkTtl, used |-> FALSE]
                \in [id : Nat, user : Known, expires : Nat, used : BOOLEAN]
      BY <3>1 DEF Enabled
    <3>3. links \subseteq [id : Nat, user : Known, expires : Nat, used : BOOLEAN]
      BY DEF AccountsTypeOK
    <3> QED BY <1>12, <3>2, <3>3 DEF RequestPasswordReset
  <2> QED BY <1>12, <2>1, WorkTypes, QuietStep
             DEF RequestPasswordReset, AccountsTypeOK, sessionVars, ceremonyVars
<1>13. ASSUME NEW u \in Users, BeginPasskeyRegistration(u)
       PROVE  AccountsTypeOK'
  <2>1. u \in Known /\ {} \in SUBSET Keys /\ "register" \in Ceremonies
    BY <1>13 DEF BeginPasskeyRegistration, Handle, AccountsTypeOK, Ceremonies
  <2>2. \A a \in asking' :
           \/ a \in asking
           \/ /\ a \in [ceremony : Ceremonies, user : Users, id : Nat,
                       keys : SUBSET Keys, granted : BOOLEAN]
              /\ a.granted => a.user \in Known
    <3>1. Work /\ Ask("register", u, {}, TRUE)
      BY <1>13 DEF BeginPasskeyRegistration, Handle
    <3> QED BY <2>1, <3>1, AskTypes
  <2> QED BY <1>13, <2>2, WorkTypes, QuietStep
             DEF BeginPasskeyRegistration, Handle, AccountsTypeOK, sessionVars
<1>14. ASSUME NEW u \in Users, CompletePasskeyRegistration(u)
       PROVE  AccountsTypeOK'
  <2>1. u \in Known /\ UserOK(accounts[u]) /\ accounts[u] \in Record /\ "register" \in Ceremonies
    BY <1>14 DEF CompletePasskeyRegistration, AccountsTypeOK, UserOK, Ceremonies
  <2>2. \A c \in challenges : c.id \in Nat
    BY DEF AccountsTypeOK
  <2>3. \A v \in verifying' : v \in verifying \/ (v \in Opened /\ UserOK(v.read))
    BY <1>14, <2>1, <2>2 DEF CompletePasskeyRegistration, Redeem, Pending, Unexpired
  <2>4. challenges' \subseteq challenges
    BY <1>14 DEF CompletePasskeyRegistration, Redeem
  <2> QED BY <1>14, <2>3, <2>4, QuietStep
             DEF CompletePasskeyRegistration, AccountsTypeOK, sessionVars
<1>15. ASSUME NEW a \in Users, NEW u \in Users, ClearLoginLockout(a, u)
       PROVE  AccountsTypeOK'
  BY <1>15, WorkTypes, DomainsStay, QuietStep
     DEF ClearLoginLockout, Handle, AccountsTypeOK, ceremonyVars
<1>16. CASE Tick
  BY <1>16, WorkTypes, QuietStep DEF Tick, AccountsTypeOK, sessionVars, ceremonyVars
<1> QED
  BY <1>1, <1>2, <1>3, <1>4, <1>5, <1>6, <1>7, <1>8, <1>9, <1>10, <1>11, <1>12, <1>13,
     <1>14, <1>15, <1>16, <1>17 DEF Quiet

----------------------------------------------------------------------------
(* The inductive invariant.                                                *)

(* A sign-in ceremony holds a record that was enabled when it was read.    *)
CeremoniesOK == \A v \in verifying : v.ceremony = "login" => ~v.read.disabled

IdsWithin(record, n) ==
    record.totp <= n /\ record.pendingTotp <= n /\ record.codes \subseteq 1 .. n

(* A record under which nothing of S can be accepted again.                *)
Safe(record, u, S) ==
    \A x \in S : x.user = u =>
        /\ x.kind = "totp" =>
              /\ x.id # record.pendingTotp
              /\ x.id = record.totp => x.step <= record.lastUsedStep
        /\ x.kind = "recovery" => x.id \notin record.codes

Tokens(n) == [kind : {"totp", "recovery", "challenge", "link"}, user : Known,
              id : 1 .. n, step : Nat]

(* The codes of an account: what was accepted is not there any more, unless *)
(* a ceremony put it back.                                                 *)
FactorsOnce ==
    /\ spent \subseteq Tokens(work) /\ spentTwice \subseteq spent
    /\ \A u \in Known : IdsWithin(accounts[u], work)
    /\ \A v \in verifying : IdsWithin(v.read, work)
    /\ \A u \in Known : Undid(u, "factors") \/ Safe(accounts[u], u, spent)
    /\ \A x \in spentTwice : x.kind \in {"totp", "recovery"} => Undid(x.user, "factors")

(* A challenge is in one place at a time, in one handler's hands when it   *)
(* is spent, and a link that was used says so.                             *)
TicketsOnce ==
    /\ \A l \in links : l.id \in 1 .. work
    /\ \A l, m \in links : l.id = m.id => l = m
    /\ \A l \in links : ~l.used => Token("link", l.user, l.id, 0) \notin spent
    /\ \A a \in asking \cup challenges \cup verifying :
          a.id \in 1 .. work /\ Token("challenge", a.user, a.id, 0) \notin spent
    /\ \A a, b \in asking : a.id = b.id => a = b
    /\ \A a, b \in challenges : a.id = b.id => a = b
    /\ \A a, b \in verifying : a.id = b.id => a = b
    /\ \A a \in asking, c \in challenges : a.id # c.id
    /\ \A a \in asking, v \in verifying : a.id # v.id
    /\ \A c \in challenges, v \in verifying : c.id # v.id
    /\ \A x \in spentTwice : x.kind \in {"totp", "recovery"}

WhoGetsIn == CeremoniesOK /\ AnAttorneyRemains /\ SessionsAreCurrent

AccountsInv == AccountsTypeOK /\ WhoGetsIn /\ FactorsOnce /\ TicketsOnce

LEMMA InitAccountsInv == Init => AccountsInv
<1> SUFFICES ASSUME Init PROVE AccountsInv
  OBVIOUS
<1>1. PICK p \in Passwords : accounts = [u \in {FirstAttorney} |-> Fresh(p)]
  BY DEF Init
<1>2. /\ sessions = {} /\ links = {} /\ challenges = {} /\ asking = {} /\ verifying = {}
      /\ spent = {} /\ spentTwice = {} /\ work = 0 /\ Known = {FirstAttorney}
  BY <1>1 DEF Init, Known
<1>3. accounts[FirstAttorney] = Fresh(p) /\ FirstAttorney \in Attorneys
  BY <1>1, AccountsAssumption
<1>4. WhoGetsIn
  BY <1>2, <1>3
     DEF WhoGetsIn, CeremoniesOK, AnAttorneyRemains, SessionsAreCurrent, Enabled, Fresh
<1>5. FactorsOnce
  BY <1>2, <1>3 DEF FactorsOnce, IdsWithin, Safe, Fresh
<1>6. TicketsOnce
  BY <1>2 DEF TicketsOnce
<1> QED BY <1>4, <1>5, <1>6, InitTypes DEF AccountsInv

----------------------------------------------------------------------------
(* Steps that leave the records alone.                                     *)

LEMMA QuietRest ==
    ASSUME AccountsInv, accounts' = accounts, undone' = undone, UNCHANGED spentVars,
           work' \in Nat, work <= work',
           \A s \in sessions' : s \in sessions \/
               (Enabled(s.user) /\ s.proof \in {accounts[s.user].password, NoPassword}),
           \A v \in verifying' : v \in verifying \/
               (v.user \in Known /\ v.read = accounts[v.user]
                  /\ (v.ceremony = "login" => ~v.read.disabled))
    PROVE  WhoGetsIn' /\ FactorsOnce'
<1>1. /\ AccountsTypeOK /\ WhoGetsIn /\ FactorsOnce /\ Known' = Known /\ work \in Nat
      /\ spent' = spent /\ spentTwice' = spentTwice
  BY AccountsAssumption DEF AccountsInv, AccountsTypeOK, Known, spentVars
<1>2. WhoGetsIn'
  BY <1>1 DEF WhoGetsIn, CeremoniesOK, AnAttorneyRemains, SessionsAreCurrent, Enabled, Undid
<1>3. ASSUME NEW record, UserOK(record), IdsWithin(record, work) PROVE IdsWithin(record, work')
  BY <1>1, <1>3 DEF IdsWithin, UserOK, Record
<1>4. \A u \in Known : UserOK(accounts[u])
  BY <1>1 DEF AccountsTypeOK
<1>5. \A v \in verifying : UserOK(v.read)
  BY <1>1 DEF AccountsTypeOK
<1>6. spent \subseteq Tokens(work')
  BY <1>1 DEF FactorsOnce, Tokens
<1>7. \A v \in verifying' : IdsWithin(v.read, work')
  BY <1>1, <1>3, <1>4, <1>5 DEF FactorsOnce
<1>8. Tokens(work)' = Tokens(work')
  BY <1>1 DEF Tokens
<1>9. FactorsOnce'
  BY <1>1, <1>3, <1>4, <1>6, <1>7, <1>8 DEF FactorsOnce, Undid
<1> QED BY <1>2, <1>9

(* The tickets there are, or some of them, and codes accepted beside them. *)
LEMMA TicketsStay ==
    ASSUME AccountsInv, links' \subseteq links, challenges' \subseteq challenges,
           asking' \subseteq asking, verifying' \subseteq verifying,
           work' \in Nat, work <= work',
           \A x \in spent' : x \in spent \/ x.kind \in {"totp", "recovery"},
           \A x \in spentTwice' : x \in spentTwice \/ x.kind \in {"totp", "recovery"}
    PROVE  TicketsOnce'
<1>1. TicketsOnce /\ work \in Nat
  BY AccountsAssumption DEF AccountsInv, AccountsTypeOK
<1>2. \A l \in links' : ~l.used => Token("link", l.user, l.id, 0) \notin spent'
  BY <1>1 DEF TicketsOnce, Token
<1>3. \A a \in asking' \cup challenges' \cup verifying' :
         a.id \in 1 .. work' /\ Token("challenge", a.user, a.id, 0) \notin spent'
  <2>1. \A a \in asking' \cup challenges' \cup verifying' :
           a.id \in 1 .. work /\ Token("challenge", a.user, a.id, 0) \notin spent
    BY <1>1 DEF TicketsOnce
  <2>2. \A n \in 1 .. work : n \in 1 .. work'
    BY <1>1
  <2>3. \A u, n : Token("challenge", u, n, 0) \in spent' => Token("challenge", u, n, 0) \in spent
    BY DEF Token
  <2> QED BY <2>1, <2>2, <2>3
<1>4. \A l \in links' : l.id \in 1 .. work'
  BY <1>1 DEF TicketsOnce
<1>5. \A x \in spentTwice' : x.kind \in {"totp", "recovery"}
  BY <1>1 DEF TicketsOnce
<1> QED BY <1>1, <1>2, <1>3, <1>4, <1>5 DEF TicketsOnce

(* A number nothing has yet, for a challenge that is asked for.            *)
LEMMA AskTickets ==
    ASSUME AccountsInv, Work, NEW u, NEW ceremony, NEW keys, NEW granted,
           Ask(ceremony, u, keys, granted),
           UNCHANGED <<links, challenges, verifying, spent, spentTwice>>
    PROVE  TicketsOnce'
<1> DEFINE a == [ceremony |-> ceremony, user |-> u, id |-> work',
                 keys |-> keys, granted |-> granted]
<1>1. /\ TicketsOnce /\ FactorsOnce /\ work \in Nat /\ work' = work + 1
      /\ asking' = asking \cup {a}
  BY WorkTypes, AccountsAssumption DEF AccountsInv, AccountsTypeOK, Ask
<1>2. \A x \in spent : x.id # work'
  BY <1>1 DEF FactorsOnce, Tokens
<1>3. a.id = work' /\ a.user = u /\ Token("challenge", u, work', 0) \notin spent
  BY <1>2 DEF Token
<1> HIDE DEF a
<1>4. \A b \in asking \cup challenges \cup verifying : b.id \in 1 .. work /\ b.id # work'
  BY <1>1 DEF TicketsOnce
<1> QED BY <1>1, <1>3, <1>4 DEF TicketsOnce

LEMMA IssueTickets ==
    ASSUME AccountsInv, NEW a \in asking, ChallengeIssued(a)
    PROVE  TicketsOnce'
<1> DEFINE c == [ceremony |-> a.ceremony, user |-> a.user, id |-> a.id,
                 expires |-> now + ChallengeTtl]
<1>1. /\ TicketsOnce /\ asking' = asking \ {a}
      /\ challenges' \subseteq challenges \cup {c}
      /\ UNCHANGED <<links, verifying, work, spent, spentTwice>>
  BY DEF AccountsInv, ChallengeIssued, spentVars
<1>2. c.id = a.id /\ c.user = a.user
  OBVIOUS
<1> HIDE DEF c
<1> QED BY <1>1, <1>2 DEF TicketsOnce

LEMMA RedeemTickets ==
    ASSUME AccountsInv, NEW u, NEW ceremony,
           Redeem(ceremony, u, Unexpired(Pending(ceremony, u))),
           UNCHANGED <<links, asking, work, spent, spentTwice>>
    PROVE  TicketsOnce'
<1> DEFINE pending == Pending(ceremony, u)
           Opened(c) == [ceremony |-> ceremony, user |-> u, id |-> c.id, read |-> accounts[u]]
<1>1. /\ TicketsOnce /\ challenges' = challenges \ pending
      /\ verifying' = verifying \cup {Opened(c) : c \in Unexpired(pending)}
  BY DEF AccountsInv, Redeem
<1>2. Unexpired(pending) \subseteq pending /\ \A c \in pending : c \in challenges /\ c.user = u
  BY DEF Pending, Unexpired
<1> HIDE DEF pending
<1>3. \A v \in verifying' : v \in verifying \/
         \E c \in pending : v = Opened(c) /\ v.id = c.id /\ v.user = c.user
  BY <1>1, <1>2
<1>4. \A v \in verifying' : v.id \in 1 .. work /\ Token("challenge", v.user, v.id, 0) \notin spent
  BY <1>1, <1>2, <1>3 DEF TicketsOnce
<1>5. \A v, w \in verifying' : v.id = w.id => v = w
  <2>1. \A c, d \in pending : c.id = d.id => c = d
    BY <1>1, <1>2 DEF TicketsOnce
  <2>2. \A c \in pending, v \in verifying : c.id # v.id
    BY <1>1, <1>2 DEF TicketsOnce
  <2> HIDE DEF Opened
  <2> QED BY <1>1, <1>3, <2>1, <2>2 DEF TicketsOnce
<1>6. \A c \in challenges', v \in verifying' : c.id # v.id
  <2>1. \A c \in challenges', d \in pending : c.id # d.id
    BY <1>1, <1>2 DEF TicketsOnce
  <2> HIDE DEF Opened
  <2> QED BY <1>1, <1>3, <2>1 DEF TicketsOnce
<1>7. \A a \in asking, v \in verifying' : a.id # v.id
  <2> HIDE DEF Opened
  <2> QED BY <1>1, <1>2, <1>3 DEF TicketsOnce
<1> HIDE DEF Opened
<1> QED BY <1>1, <1>4, <1>5, <1>6, <1>7 DEF TicketsOnce

LEMMA LinkTickets ==
    ASSUME AccountsInv, NEW u \in Users, RequestPasswordReset(u)
    PROVE  TicketsOnce'
<1>1. /\ TicketsOnce /\ FactorsOnce /\ work \in Nat /\ work' = work + 1
      /\ UNCHANGED <<asking, challenges, verifying, spent, spentTwice>>
  BY WorkTypes, AccountsAssumption
     DEF AccountsInv, AccountsTypeOK, RequestPasswordReset, ceremonyVars, spentVars
<1> DEFINE new == [id |-> work', user |-> u, expires |-> now + LinkTtl, used |-> FALSE]
<1>2. \A l \in links' : l \in links \/ l = new
  BY DEF RequestPasswordReset
<1>3. new.id = work' /\ new.user = u
  OBVIOUS
<1> HIDE DEF new
<1>4. \A x \in spent : x.id # work'
  BY <1>1 DEF FactorsOnce, Tokens
<1>5. Token("link", u, work', 0) \notin spent
  BY <1>4 DEF Token
<1>6. \A l \in links : l.id \in 1 .. work /\ l.id # work'
  BY <1>1 DEF TicketsOnce
<1>7. \A l \in links' : /\ l.id \in 1 .. work'
                        /\ ~l.used => Token("link", l.user, l.id, 0) \notin spent
  BY <1>1, <1>2, <1>3, <1>5, <1>6 DEF TicketsOnce
<1>8. \A l, m \in links' : l.id = m.id => l = m
  BY <1>1, <1>2, <1>3, <1>6 DEF TicketsOnce
<1>9. \A a \in asking \cup challenges \cup verifying :
         a.id \in 1 .. work' /\ Token("challenge", a.user, a.id, 0) \notin spent
  BY <1>1 DEF TicketsOnce
<1> QED BY <1>1, <1>7, <1>8, <1>9 DEF TicketsOnce

LEMMA QuietInv == AccountsInv /\ Quiet => AccountsInv'
<1> SUFFICES ASSUME AccountsInv, Quiet PROVE AccountsInv'
  OBVIOUS
<1>1. AccountsTypeOK /\ AccountsTypeOK' /\ work \in Nat /\ work' \in Nat
  BY QuietTypes, AccountsAssumption DEF AccountsInv, AccountsTypeOK
<1>2. \A v \in verifying : v.user \in Known
  BY <1>1 DEF AccountsTypeOK
<1> SUFFICES WhoGetsIn' /\ FactorsOnce' /\ TicketsOnce'
  BY <1>1 DEF AccountsInv
<1>3. ASSUME NEW u \in Users, NEW ip \in Ips, SignInFails(u, ip)
      PROVE  WhoGetsIn' /\ FactorsOnce' /\ TicketsOnce'
  BY <1>1, <1>3, WorkTypes, QuietRest, TicketsStay DEF SignInFails, ceremonyVars, spentVars
<1>4. ASSUME NEW u \in Users, NEW ip \in Ips, Login(u, ip)
      PROVE  WhoGetsIn' /\ FactorsOnce' /\ TicketsOnce'
  BY <1>1, <1>4, WorkTypes, QuietRest, TicketsStay DEF Login, SignedIn, ceremonyVars, spentVars
<1>5. ASSUME NEW u \in Users, NEW ip \in Ips, BeginPasskeyLogin(u, ip) \/ RefusePasskeyLogin(u, ip)
      PROVE  WhoGetsIn' /\ FactorsOnce' /\ TicketsOnce'
  <2>1. TicketsOnce'
    <3>1. \/ Work /\ Ask("login", u, {u, ip}, TRUE)
          \/ Work /\ Ask("login", u, {u, ip}, FALSE)
      BY <1>5 DEF BeginPasskeyLogin, RefusePasskeyLogin
    <3>2. UNCHANGED <<links, challenges, verifying, spent, spentTwice>>
      BY <1>5 DEF BeginPasskeyLogin, RefusePasskeyLogin, spentVars
    <3> QED BY <3>1, <3>2, AskTickets
  <2>2. /\ Work
        /\ UNCHANGED <<accounts, sessions, undone, verifying, spent, spentTwice>>
    BY <1>5 DEF BeginPasskeyLogin, RefusePasskeyLogin, sessionVars, spentVars
  <2>3. work <= work'
    BY <1>1, <2>2, WorkTypes
  <2> QED BY <1>1, <2>1, <2>2, <2>3, QuietRest DEF spentVars
<1>6. ASSUME NEW u \in Users, NEW ip \in Ips, CompletePasskeyFails(u, ip)
      PROVE  WhoGetsIn' /\ FactorsOnce' /\ TicketsOnce'
  <2>1. challenges' \subseteq challenges
    BY <1>6 DEF CompletePasskeyFails
  <2> QED BY <1>1, <1>6, <2>1, WorkTypes, QuietRest, TicketsStay
             DEF CompletePasskeyFails, spentVars
<1>7. ASSUME NEW s \in sessions, EndSession(s)
      PROVE  WhoGetsIn' /\ FactorsOnce' /\ TicketsOnce'
  BY <1>1, <1>7, QuietRest, TicketsStay DEF EndSession, ceremonyVars, spentVars
<1>8. ASSUME NEW a \in asking, ChallengeIssued(a)
      PROVE  WhoGetsIn' /\ FactorsOnce' /\ TicketsOnce'
  BY <1>1, <1>8, QuietRest, IssueTickets DEF ChallengeIssued, sessionVars
<1>18. ASSUME NEW a \in asking, ProviderFails(a) \/ BeginFails(a)
       PROVE  WhoGetsIn' /\ FactorsOnce' /\ TicketsOnce'
  <2>1. /\ asking' \subseteq asking
        /\ UNCHANGED <<accounts, sessions, links, challenges, verifying, undone, work, spent, spentTwice>>
    BY <1>18 DEF ProviderFails, BeginFails, sessionVars, spentVars
  <2>2. TicketsOnce'
    BY <1>1, <2>1, TicketsStay
  <2> QED BY <1>1, <2>1, <2>2, QuietRest DEF spentVars
<1>9. ASSUME NEW u \in Users, CompletePasskeyLogin(u)
      PROVE  WhoGetsIn' /\ FactorsOnce' /\ TicketsOnce'
  <2>1. \A v \in verifying' : v \in verifying \/
           (v.user \in Known /\ v.read = accounts[v.user]
              /\ (v.ceremony = "login" => ~v.read.disabled))
    BY <1>9 DEF CompletePasskeyLogin, Redeem, Enabled
  <2> QED BY <1>1, <1>9, <2>1, QuietRest, RedeemTickets
             DEF CompletePasskeyLogin, sessionVars, spentVars
<1>10. ASSUME NEW v \in verifying, CeremonyFails(v)
       PROVE  WhoGetsIn' /\ FactorsOnce' /\ TicketsOnce'
  BY <1>1, <1>10, QuietRest, TicketsStay DEF CeremonyFails, sessionVars, spentVars
<1>11. ASSUME NEW v \in verifying, NEW ip \in Ips, PasskeyLoginUnverified(v, ip)
       PROVE  WhoGetsIn' /\ FactorsOnce' /\ TicketsOnce'
  BY <1>1, <1>11, QuietRest, TicketsStay DEF PasskeyLoginUnverified, spentVars
<1>12. ASSUME NEW u \in Users, Arrive(u) \/ RequestFails(u)
       PROVE  WhoGetsIn' /\ FactorsOnce' /\ TicketsOnce'
  BY <1>1, <1>12, QuietRest, TicketsStay
     DEF Arrive, RequestFails, sessionVars, ceremonyVars, spentVars
<1>13. ASSUME NEW u \in Users, RequestPasswordReset(u)
       PROVE  WhoGetsIn' /\ FactorsOnce' /\ TicketsOnce'
  BY <1>1, <1>13, WorkTypes, QuietRest, LinkTickets
     DEF RequestPasswordReset, sessionVars, ceremonyVars
<1>14. ASSUME NEW u \in Users, BeginPasskeyRegistration(u)
       PROVE  WhoGetsIn' /\ FactorsOnce' /\ TicketsOnce'
  <2>1. TicketsOnce'
    <3>1. /\ Work /\ Ask("register", u, {}, TRUE)
          /\ UNCHANGED <<links, challenges, verifying, spent, spentTwice>>
      BY <1>14 DEF BeginPasskeyRegistration, Handle, spentVars
    <3> QED BY <3>1, AskTickets
  <2> QED BY <1>1, <1>14, <2>1, WorkTypes, QuietRest
             DEF BeginPasskeyRegistration, Handle, sessionVars
<1>15. ASSUME NEW u \in Users, CompletePasskeyRegistration(u)
       PROVE  WhoGetsIn' /\ FactorsOnce' /\ TicketsOnce'
  <2>1. u \in Known
    BY <1>1, <1>15 DEF CompletePasskeyRegistration, AccountsTypeOK
  <2>2. \A v \in verifying' : v \in verifying \/
           (v.user \in Known /\ v.read = accounts[v.user]
              /\ (v.ceremony = "login" => ~v.read.disabled))
    BY <1>15, <2>1 DEF CompletePasskeyRegistration, Redeem
  <2> QED BY <1>1, <1>15, <2>2, QuietRest, RedeemTickets
             DEF CompletePasskeyRegistration, sessionVars, spentVars
<1>16. ASSUME NEW a \in Users, NEW u \in Users, ClearLoginLockout(a, u)
       PROVE  WhoGetsIn' /\ FactorsOnce' /\ TicketsOnce'
  BY <1>1, <1>16, WorkTypes, QuietRest, TicketsStay
     DEF ClearLoginLockout, Handle, ceremonyVars, spentVars
<1>17. CASE Tick
  BY <1>1, <1>17, WorkTypes, QuietRest, TicketsStay
     DEF Tick, sessionVars, ceremonyVars, spentVars
<1> QED
  BY <1>3, <1>4, <1>5, <1>6, <1>7, <1>8, <1>9, <1>10, <1>11, <1>12, <1>13, <1>14, <1>15,
     <1>16, <1>17, <1>18 DEF Quiet

----------------------------------------------------------------------------
(* Steps that change one record.                                           *)

(* What such a step has to see to: who the record lets in, and that no     *)
(* code accepted before, or by this step, is in it.                        *)
LEMMA RecordStep ==
    ASSUME AccountsInv, NEW u \in Known, NEW r, UserOK(r), ReplaceUser(u, r),
           sessions' \subseteq sessions \cup
               [user : {u}, proof : Passwords \cup {NoPassword}],
           DOMAIN failures' = Keys,
           links' \subseteq [id : Nat, user : Known, expires : Nat, used : BOOLEAN],
           challenges' = challenges, asking' = asking,
           verifying' \subseteq verifying, arrived' \subseteq arrived,
           undone \subseteq undone', undone' \subseteq Users \X Parts,
           now' = now, work' \in 0 .. MaxWork, work <= work',
           r.disabled => \/ accounts[u].disabled \/ <<u, "enabling">> \in undone'
                         \/ MayDisable(u) /\ \A s \in sessions' : s.user # u,
           \A s \in sessions' : s.user = u =>
               /\ s \notin sessions => ~r.disabled /\ s.proof \in {r.password, NoPassword}
               /\ r.password = accounts[u].password \/ <<u, "password">> \in undone'
                     \/ s \notin sessions,
           IdsWithin(r, work'),
           spent' \subseteq Tokens(work'), spentTwice' \subseteq spent',
           \A x \in spent' : x \in spent \/ x.user = u,
           <<u, "factors">> \in undone' \/ Safe(r, u, spent'),
           \A x \in spentTwice' : x \in spentTwice \/
               (x.kind \in {"totp", "recovery"} => <<x.user, "factors">> \in undone')
    PROVE  AccountsTypeOK' /\ WhoGetsIn' /\ FactorsOnce'
<1>1. /\ AccountsTypeOK /\ WhoGetsIn /\ FactorsOnce /\ work \in Nat /\ work' \in Nat
  BY AccountsAssumption DEF AccountsInv, AccountsTypeOK
<1>2. /\ Known' = Known /\ Known \subseteq Users
      /\ accounts'[u] = r /\ \A w \in Known \ {u} : accounts'[w] = accounts[w]
      /\ \A w \in Known : UserOK(accounts'[w])
  BY <1>1, ReplaceTypes
<1>3. AccountsTypeOK'
  BY <1>1, <1>2 DEF AccountsTypeOK
<1>4. CeremoniesOK'
  BY <1>1 DEF WhoGetsIn, CeremoniesOK
<1>5. AnAttorneyRemains'
  <2>1. CASE \E a \in Attorneys : Undid(a, "enabling")
    BY <2>1 DEF AnAttorneyRemains, Undid
  <2>2. CASE ~\E a \in Attorneys : Undid(a, "enabling")
    <3>1. PICK a \in Attorneys : a \in Known /\ ~accounts[a].disabled
      BY <1>1, <2>2 DEF WhoGetsIn, AnAttorneyRemains, Enabled
    <3>2. CASE a # u
      BY <1>2, <3>1, <3>2 DEF AnAttorneyRemains, Enabled
    <3>3. CASE a = u /\ r.disabled /\ MayDisable(u)
      <4>1. PICK w \in (Known \cap Attorneys) \ {u} : ~accounts[w].disabled
        BY <3>1, <3>3 DEF MayDisable
      <4> QED BY <1>2, <4>1 DEF AnAttorneyRemains, Enabled
    <3>4. CASE a = u /\ r.disabled /\ ~MayDisable(u)
      BY <3>1, <3>4 DEF AnAttorneyRemains, Undid
    <3>5. CASE a = u /\ ~r.disabled
      BY <1>2, <3>1, <3>5 DEF AnAttorneyRemains, Enabled
    <3> QED BY <3>2, <3>3, <3>4, <3>5
  <2> QED BY <2>1, <2>2
<1>6. SessionsAreCurrent'
  <2> SUFFICES ASSUME NEW s \in sessions'
               PROVE  /\ accounts'[s.user].disabled => <<s.user, "enabling">> \in undone'
                      /\ \/ s.proof \in {accounts'[s.user].password, NoPassword}
                         \/ <<s.user, "password">> \in undone'
    BY DEF SessionsAreCurrent, Undid
  <2>1. CASE s \in sessions
    <3>1. /\ accounts[s.user].disabled => <<s.user, "enabling">> \in undone
          /\ \/ s.proof \in {accounts[s.user].password, NoPassword}
             \/ <<s.user, "password">> \in undone
      BY <1>1, <2>1 DEF WhoGetsIn, SessionsAreCurrent, Undid
    <3>2. s.user \in Known
      BY <1>1, <2>1 DEF AccountsTypeOK
    <3>3. CASE s.user # u
      BY <1>2, <3>1, <3>2, <3>3
    <3>4. CASE s.user = u
      BY <1>2, <2>1, <3>1, <3>4
    <3> QED BY <3>3, <3>4
  <2>2. CASE s \notin sessions
    <3>1. s.user = u
      BY <2>2
    <3> QED BY <1>2, <2>2, <3>1
  <2> QED BY <2>1, <2>2
<1>7. FactorsOnce'
  <2>1. Tokens(work)' = Tokens(work')
    BY <1>2 DEF Tokens
  <2>2. ASSUME NEW record, UserOK(record), IdsWithin(record, work)
        PROVE  IdsWithin(record, work')
    BY <1>1, <2>2 DEF IdsWithin, UserOK, Record
  <2>3. \A w \in Known : IdsWithin(accounts'[w], work')
    BY <1>1, <1>2, <2>2 DEF FactorsOnce, AccountsTypeOK
  <2>4. \A v \in verifying' : IdsWithin(v.read, work')
    BY <1>1, <2>2 DEF FactorsOnce, AccountsTypeOK
  <2>5. \A w \in Known : <<w, "factors">> \in undone' \/ Safe(accounts'[w], w, spent')
    <3> SUFFICES ASSUME NEW w \in Known \ {u}, <<w, "factors">> \notin undone'
                 PROVE  Safe(accounts[w], w, spent')
      BY <1>2
    <3>1. Safe(accounts[w], w, spent)
      BY <1>1 DEF FactorsOnce, Undid
    <3> QED BY <3>1 DEF Safe
  <2>6. \A x \in spentTwice' : x.kind \in {"totp", "recovery"} => <<x.user, "factors">> \in undone'
    BY <1>1 DEF FactorsOnce, Undid
  <2> QED BY <1>2, <2>1, <2>3, <2>4, <2>5, <2>6 DEF FactorsOnce, Undid
<1> QED BY <1>3, <1>4, <1>5, <1>6, <1>7 DEF WhoGetsIn

(* Factors as they were, none, or numbers that nothing has yet.            *)
FactorsFrom(r, old) ==
    /\ r.totp = 0 \/ (r.totp = old.totp /\ r.lastUsedStep = old.lastUsedStep)
    /\ r.pendingTotp \in {old.pendingTotp, 0, work'}
    /\ r.codes \subseteq old.codes \cup {work'}

LEMMA FactorsStay ==
    ASSUME AccountsInv, Work, NEW u \in Known, NEW r, UserOK(r), FactorsFrom(r, accounts[u])
    PROVE  /\ IdsWithin(r, work') /\ spent \subseteq Tokens(work')
           /\ Undid(u, "factors") \/ Safe(r, u, spent)
<1>1. /\ FactorsOnce /\ work \in Nat /\ work' = work + 1
      /\ UserOK(accounts[u]) /\ IdsWithin(accounts[u], work)
  BY WorkTypes, AccountsAssumption DEF AccountsInv, AccountsTypeOK, FactorsOnce
<1>2. \A x \in spent : x.id \in Nat /\ x.id > 0 /\ x.id <= work
  BY <1>1 DEF FactorsOnce, Tokens
<1>3. IdsWithin(r, work')
  <2>1. \A n \in 1 .. work : n \in 1 .. work'
    BY <1>1
  <2>2. work' \in 1 .. work' /\ 0 <= work'
    BY <1>1
  <2>3. r.codes \subseteq 1 .. work'
    BY <1>1, <2>1, <2>2 DEF FactorsFrom, IdsWithin
  <2>4. r.totp <= work' /\ r.pendingTotp <= work'
    BY <1>1, <2>2 DEF FactorsFrom, IdsWithin, UserOK, Record
  <2> QED BY <2>3, <2>4 DEF IdsWithin
<1>4. spent \subseteq Tokens(work')
  BY <1>1 DEF FactorsOnce, Tokens
<1>5. Undid(u, "factors") \/ Safe(r, u, spent)
  <2> SUFFICES ASSUME Safe(accounts[u], u, spent) PROVE Safe(r, u, spent)
    BY <1>1 DEF FactorsOnce
  <2>1. \A x \in spent : x.id # 0 /\ x.id # work'
    BY <1>1, <1>2
  <2> QED BY <2>1 DEF Safe, FactorsFrom
<1> QED BY <1>3, <1>4, <1>5

(* One record changes and nothing is accepted.                             *)
LEMMA PlainStep ==
    ASSUME AccountsInv, Work, NEW u \in Known, NEW r, UserOK(r), ReplaceUser(u, r),
           FactorsFrom(r, accounts[u]), sessions' \subseteq sessions, arrived' \subseteq arrived,
           UNCHANGED <<failures, links, challenges, asking, verifying, undone, now,
                       spent, spentTwice>>,
           r.disabled => accounts[u].disabled
                            \/ (MayDisable(u) /\ \A s \in sessions' : s.user # u),
           r.password = accounts[u].password \/ \A s \in sessions' : s.user # u
    PROVE  AccountsInv'
<1>1. /\ AccountsTypeOK /\ FactorsOnce /\ work' \in 0 .. MaxWork /\ work \in Nat
      /\ work' \in Nat /\ work <= work'
  BY WorkTypes, AccountsAssumption DEF AccountsInv, AccountsTypeOK
<1>2. /\ IdsWithin(r, work') /\ spent \subseteq Tokens(work')
      /\ Undid(u, "factors") \/ Safe(r, u, spent)
  BY FactorsStay
<1>3. /\ DOMAIN failures = Keys /\ undone \subseteq Users \X Parts
      /\ links \subseteq [id : Nat, user : Known, expires : Nat, used : BOOLEAN]
      /\ spentTwice \subseteq spent
  BY <1>1 DEF AccountsTypeOK, FactorsOnce
<1>4. AccountsTypeOK' /\ WhoGetsIn' /\ FactorsOnce'
  BY <1>1, <1>2, <1>3, RecordStep DEF Undid
<1>5. TicketsOnce'
  BY <1>1, TicketsStay
<1> QED BY <1>4, <1>5 DEF AccountsInv

LEMMA HandlesKnown ==
    ASSUME AccountsInv, NEW u \in Users, Handle(u)
    PROVE  /\ Work /\ u \in Known /\ arrived' \subseteq arrived
           /\ UserOK(accounts[u]) /\ accounts[u] \in Record
           /\ work' \in Nat
BY WorkTypes DEF AccountsInv, AccountsTypeOK, Handle, UserOK

LEMMA KnownRecord ==
    ASSUME AccountsInv, NEW u \in Known
    PROVE  UserOK(accounts[u]) /\ accounts[u] \in Record
BY DEF AccountsInv, AccountsTypeOK, UserOK

LEMMA WithoutTotpTypes ==
    ASSUME NEW old, UserOK(old)
    PROVE  LET r == WithoutTotp(old) IN
           /\ UserOK(r) /\ r.totp = 0 /\ r.pendingTotp = 0 /\ r.codes = {}
           /\ r.disabled = old.disabled /\ r.password = old.password
           /\ UserOK([r EXCEPT !.passkeys = {}])
BY DEF UserOK, Record, WithoutTotp

LEMMA NewPasswordInv ==
    ASSUME AccountsInv, Work, NEW u \in Known, NEW p \in Passwords, ApplyNewPassword(u, p),
           arrived' \subseteq arrived,
           UNCHANGED <<failures, links, challenges, asking, verifying, undone, now,
                       spent, spentTwice>>
    PROVE  AccountsInv'
<1> DEFINE r == [accounts[u] EXCEPT !.password = p]
<1>1. UserOK(accounts[u]) /\ accounts[u] \in Record
  BY KnownRecord
<1>2. /\ UserOK(r) /\ r.disabled = accounts[u].disabled /\ FactorsFrom(r, accounts[u])
  BY <1>1 DEF UserOK, Record, FactorsFrom
<1>3. /\ ReplaceUser(u, r) /\ sessions' \subseteq sessions /\ \A s \in sessions' : s.user # u
  BY DEF ApplyNewPassword, RevokeAllSessions
<1> HIDE DEF r
<1> QED BY <1>2, <1>3, PlainStep

LEMMA OwnRecordInv ==
    ASSUME AccountsInv, NEW u \in Users,
           \/ RemovePasskey(u) \/ BeginMfaEnrollment(u) \/ DisableMfa(u)
           \/ RegenerateRecoveryCodes(u) \/ ChangePassword(u)
    PROVE  AccountsInv'
<1>1. CASE RemovePasskey(u)
  <2>1. PICK k \in accounts[u].passkeys :
           /\ ReplaceUser(u, [accounts[u] EXCEPT !.passkeys = @ \ {k}])
           /\ sessions' = sessions \/ RevokeAllSessions(u)
    BY <1>1 DEF RemovePasskey
  <2> DEFINE r == [accounts[u] EXCEPT !.passkeys = @ \ {k}]
  <2>2. /\ Work /\ u \in Known /\ arrived' \subseteq arrived
        /\ UserOK(accounts[u]) /\ accounts[u] \in Record
    BY <1>1, HandlesKnown DEF RemovePasskey
  <2>3. /\ UserOK(r) /\ r.disabled = accounts[u].disabled /\ r.password = accounts[u].password
        /\ FactorsFrom(r, accounts[u])
    BY <2>2 DEF UserOK, Record, FactorsFrom
  <2>4. sessions' \subseteq sessions
    BY <2>1 DEF RevokeAllSessions
  <2> HIDE DEF r
  <2> QED BY <1>1, <2>1, <2>2, <2>3, <2>4, PlainStep
          DEF RemovePasskey, ceremonyVars, spentVars, r
<1>2. CASE BeginMfaEnrollment(u)
  <2> DEFINE r == [accounts[u] EXCEPT !.pendingTotp = work']
  <2>1. /\ Work /\ u \in Known /\ arrived' \subseteq arrived /\ work' \in Nat
        /\ UserOK(accounts[u]) /\ accounts[u] \in Record /\ accounts[u].totp = 0
    BY <1>2, HandlesKnown DEF BeginMfaEnrollment
  <2>2. /\ UserOK(r) /\ r.disabled = accounts[u].disabled /\ r.password = accounts[u].password
        /\ FactorsFrom(r, accounts[u])
    BY <2>1 DEF UserOK, Record, FactorsFrom
  <2> HIDE DEF r
  <2> QED BY <1>2, <2>1, <2>2, PlainStep
          DEF BeginMfaEnrollment, sessionVars, ceremonyVars, spentVars, r
<1>3. CASE DisableMfa(u)
  <2> DEFINE r == WithoutTotp(accounts[u])
  <2>1. Work /\ u \in Known /\ arrived' \subseteq arrived /\ UserOK(accounts[u])
    BY <1>3, HandlesKnown DEF DisableMfa
  <2>2. /\ UserOK(r) /\ r.disabled = accounts[u].disabled /\ r.password = accounts[u].password
        /\ FactorsFrom(r, accounts[u])
    BY <2>1, WithoutTotpTypes DEF FactorsFrom
  <2> HIDE DEF r
  <2> QED BY <1>3, <2>1, <2>2, PlainStep
          DEF DisableMfa, RevokeAllSessions, ceremonyVars, spentVars, r
<1>4. CASE RegenerateRecoveryCodes(u)
  <2> DEFINE r == [accounts[u] EXCEPT !.codes = {work'}]
  <2>1. /\ Work /\ u \in Known /\ arrived' \subseteq arrived /\ work' \in Nat
        /\ UserOK(accounts[u]) /\ accounts[u] \in Record /\ accounts[u].totp # 0
    BY <1>4, HandlesKnown DEF RegenerateRecoveryCodes
  <2>2. /\ UserOK(r) /\ r.disabled = accounts[u].disabled /\ r.password = accounts[u].password
        /\ FactorsFrom(r, accounts[u])
    BY <2>1 DEF UserOK, Record, FactorsFrom
  <2> HIDE DEF r
  <2> QED BY <1>4, <2>1, <2>2, PlainStep
          DEF RegenerateRecoveryCodes, sessionVars, ceremonyVars, spentVars, r
<1>5. CASE ChangePassword(u)
  <2>1. Work /\ u \in Known /\ arrived' \subseteq arrived
    BY <1>5, HandlesKnown DEF ChangePassword
  <2> QED BY <1>5, <2>1, NewPasswordInv DEF ChangePassword, ceremonyVars, spentVars
<1> QED BY <1>1, <1>2, <1>3, <1>4, <1>5

LEMMA AdministerInv ==
    ASSUME AccountsInv, NEW a \in Users, NEW u \in Users,
           Disable(a, u) \/ Enable(a, u) \/ ResetPassword(a, u) \/ ResetMfa(a, u)
    PROVE  AccountsInv'
<1>1. /\ Work /\ u \in Known /\ arrived' \subseteq arrived
      /\ UserOK(accounts[u]) /\ accounts[u] \in Record
  BY HandlesKnown, KnownRecord DEF Disable, Enable, ResetPassword, ResetMfa
<1>2. CASE Disable(a, u)
  <2> DEFINE r == [accounts[u] EXCEPT !.disabled = TRUE]
  <2>1. /\ UserOK(r) /\ r.password = accounts[u].password /\ FactorsFrom(r, accounts[u])
    BY <1>1 DEF UserOK, Record, FactorsFrom
  <2> HIDE DEF r
  <2> QED BY <1>1, <1>2, <2>1, PlainStep
          DEF Disable, RevokeAllSessions, ceremonyVars, spentVars, r
<1>3. CASE Enable(a, u)
  <2> DEFINE r == [accounts[u] EXCEPT !.disabled = FALSE]
  <2>1. /\ UserOK(r) /\ r.password = accounts[u].password /\ ~r.disabled
        /\ FactorsFrom(r, accounts[u])
    BY <1>1 DEF UserOK, Record, FactorsFrom
  <2> HIDE DEF r
  <2> QED BY <1>1, <1>3, <2>1, PlainStep
          DEF Enable, sessionVars, ceremonyVars, spentVars, r
<1>4. CASE ResetPassword(a, u)
  BY <1>1, <1>4, NewPasswordInv DEF ResetPassword, ceremonyVars, spentVars
<1>5. CASE ResetMfa(a, u)
  <2> DEFINE w == WithoutTotp(accounts[u])
             r == [w EXCEPT !.passkeys = {}]
  <2>1. /\ UserOK(w) /\ UserOK(r) /\ w.totp = 0 /\ w.pendingTotp = 0 /\ w.codes = {}
        /\ w.disabled = accounts[u].disabled /\ w.password = accounts[u].password
    BY <1>1, WithoutTotpTypes
  <2> HIDE DEF w
  <2>2. /\ r.disabled = accounts[u].disabled /\ r.password = accounts[u].password
        /\ FactorsFrom(r, accounts[u])
    BY <2>1 DEF FactorsFrom, UserOK, Record
  <2> HIDE DEF r
  <2> QED BY <1>1, <1>5, <2>1, <2>2, PlainStep
          DEF ResetMfa, RevokeAllSessions, ceremonyVars, spentVars, r, w
<1> QED BY <1>2, <1>3, <1>4, <1>5

----------------------------------------------------------------------------
(* A new account.                                                          *)

LEMMA CreateInv ==
    ASSUME AccountsInv, NEW a \in Users, NEW u \in Users, Create(a, u)
    PROVE  AccountsInv'
<1>1. PICK p \in Passwords :
         accounts' = [w \in Known \cup {u} |-> IF w = u THEN Fresh(p) ELSE accounts[w]]
  BY DEF Create
<1>2. /\ AccountsTypeOK /\ WhoGetsIn /\ FactorsOnce /\ u \notin Known
      /\ UNCHANGED <<sessions, failures, links, challenges, asking, verifying, undone, now,
                     spent, spentTwice>>
      /\ arrived' \subseteq arrived /\ work' \in 0 .. MaxWork /\ work' \in Nat
      /\ work \in Nat /\ work <= work'
  BY WorkTypes, AccountsAssumption
     DEF AccountsInv, AccountsTypeOK, Create, Handle, sessionVars, ceremonyVars, spentVars
<1>3. /\ Known' = Known \cup {u} /\ accounts'[u] = Fresh(p)
      /\ \A w \in Known : accounts'[w] = accounts[w]
  BY <1>1, <1>2 DEF Known
<1>4. UserOK(Fresh(p)) /\ IdsWithin(Fresh(p), work') /\ ~Fresh(p).disabled
  BY <1>2 DEF UserOK, Fresh, Record, IdsWithin
<1>5. AccountsTypeOK'
  <2>1. /\ Known' \subseteq Users /\ \A w \in Known' : UserOK(accounts'[w])
    BY <1>2, <1>3, <1>4 DEF AccountsTypeOK
  <2>2. /\ sessions \subseteq [user : Known', proof : Passwords \cup {NoPassword}]
        /\ links \subseteq [id : Nat, user : Known', expires : Nat, used : BOOLEAN]
        /\ challenges \subseteq [ceremony : Ceremonies, user : Known', id : Nat, expires : Nat]
        /\ \A b \in asking : b.granted => b.user \in Known'
    BY <1>2, <1>3 DEF AccountsTypeOK
  <2>3. \A v \in verifying :
          /\ v \in [ceremony : Ceremonies, user : Known', id : Nat, read : Record]
          /\ UserOK(v.read)
    BY <1>2, <1>3 DEF AccountsTypeOK
  <2> QED BY <1>2, <1>3, <2>1, <2>2, <2>3 DEF AccountsTypeOK
<1>6. WhoGetsIn'
  <2>1. \A s \in sessions : s.user \in Known
    BY <1>2 DEF AccountsTypeOK
  <2> QED BY <1>2, <1>3, <2>1
          DEF WhoGetsIn, CeremoniesOK, AnAttorneyRemains, SessionsAreCurrent, Enabled, Undid
<1>7. FactorsOnce'
  <2>1. spent \subseteq Tokens(work') /\ \A x \in spent : x.user # u
    BY <1>2 DEF FactorsOnce, Tokens
  <2>2. Tokens(work') \subseteq Tokens(work)'
    BY <1>3 DEF Tokens
  <2>3. Safe(Fresh(p), u, spent)
    BY <2>1 DEF Safe
  <2>4. ASSUME NEW record, UserOK(record), IdsWithin(record, work)
        PROVE  IdsWithin(record, work')
    BY <1>2, <2>4 DEF IdsWithin, UserOK, Record
  <2>5. \A w \in Known' : IdsWithin(accounts'[w], work')
    BY <1>2, <1>3, <1>4, <2>4 DEF FactorsOnce, AccountsTypeOK
  <2>6. \A v \in verifying : IdsWithin(v.read, work')
    BY <1>2, <2>4 DEF FactorsOnce, AccountsTypeOK
  <2> QED BY <1>2, <1>3, <2>1, <2>2, <2>3, <2>5, <2>6 DEF FactorsOnce, Undid
<1>8. TicketsOnce'
  BY <1>2, TicketsStay
<1> QED BY <1>5, <1>6, <1>7, <1>8 DEF AccountsInv

----------------------------------------------------------------------------
(* Steps that accept a code.                                               *)

LEMMA SpendFacts ==
    ASSUME NEW token, Spend(token)
    PROVE  /\ spent' = spent \cup {token}
           /\ spentTwice' \subseteq spentTwice \cup {token}
           /\ token \notin spent => spentTwice' = spentTwice
           /\ spentTwice \subseteq spent => spentTwice' \subseteq spent'
BY DEF Spend

(* A code is good once for the record that had it, or the record is one    *)
(* that a ceremony put back.                                               *)
LEMMA CodeStep ==
    ASSUME AccountsInv, Work, NEW u \in Known, NEW r, UserOK(r), ReplaceUser(u, r),
           r.disabled = accounts[u].disabled, r.password = accounts[u].password,
           IdsWithin(r, work'), sessions' \subseteq sessions \cup
               [user : {n \in {u} : ~r.disabled}, proof : {r.password, NoPassword}],
           DOMAIN failures' = Keys, arrived' \subseteq arrived,
           UNCHANGED <<links, challenges, asking, verifying, undone, now>>,
           NEW kind \in {"totp", "recovery"}, NEW n \in 1 .. work, NEW t \in Nat,
           Spend(Token(kind, u, n, t)),
           Safe(accounts[u], u, spent) =>
               Token(kind, u, n, t) \notin spent /\ Safe(r, u, spent \cup {Token(kind, u, n, t)})
    PROVE  AccountsInv'
<1> DEFINE token == Token(kind, u, n, t)
<1>1. /\ AccountsTypeOK /\ FactorsOnce /\ work' \in 0 .. MaxWork /\ work \in Nat
      /\ work' = work + 1 /\ r.password \in Passwords
      /\ undone' = undone
  BY WorkTypes, AccountsAssumption DEF AccountsInv, AccountsTypeOK, UserOK, Record
<1>2. /\ token \in Tokens(work') /\ token.user = u /\ token.kind = kind
  BY <1>1 DEF Token, Tokens
<1>3. spent \subseteq Tokens(work') /\ spentTwice \subseteq spent
  BY <1>1 DEF FactorsOnce, Tokens
<1>4. /\ spent' = spent \cup {token} /\ spentTwice' \subseteq spentTwice \cup {token}
      /\ token \notin spent => spentTwice' = spentTwice
      /\ spentTwice' \subseteq spent'
  BY <1>3, SpendFacts
<1>5. Undid(u, "factors") \/ (token \notin spent /\ Safe(r, u, spent'))
  BY <1>1, <1>4 DEF FactorsOnce
<1> HIDE DEF token
<1>6. /\ spent' \subseteq Tokens(work') /\ \A x \in spent' : x \in spent \/ x.user = u
      /\ <<u, "factors">> \in undone' \/ Safe(r, u, spent')
      /\ \A x \in spentTwice' : x \in spentTwice \/
            (x.kind \in {"totp", "recovery"} => <<x.user, "factors">> \in undone')
      /\ undone' \subseteq Users \X Parts /\ undone \subseteq undone'
  BY <1>1, <1>2, <1>3, <1>4, <1>5 DEF Undid, AccountsTypeOK
<1>7. /\ sessions' \subseteq sessions \cup [user : {u}, proof : Passwords \cup {NoPassword}]
      /\ \A s \in sessions' : s.user = u =>
            /\ s \notin sessions => ~r.disabled /\ s.proof \in {r.password, NoPassword}
            /\ r.password = accounts[u].password \/ <<u, "password">> \in undone'
                  \/ s \notin sessions
  BY <1>1
<1>8. links' \subseteq [id : Nat, user : Known, expires : Nat, used : BOOLEAN]
  BY <1>1 DEF AccountsTypeOK
<1>9. AccountsTypeOK' /\ WhoGetsIn' /\ FactorsOnce'
  <2>1. r.disabled => accounts[u].disabled
    OBVIOUS
  <2>2. /\ work' \in 0 .. MaxWork /\ work <= work' /\ now' = now
        /\ challenges' = challenges /\ asking' = asking /\ verifying' = verifying
    BY <1>1
  <2> QED BY <1>4, <1>6, <1>7, <1>8, <2>1, <2>2, RecordStep
<1>10. TicketsOnce'
  BY <1>1, <1>2, <1>4, TicketsStay
<1> QED BY <1>9, <1>10 DEF AccountsInv

LEMMA SignedInTypes ==
    ASSUME AccountsTypeOK, NEW u, NEW ip, NEW proof, SignedIn(u, ip, proof)
    PROVE  /\ sessions' = sessions \cup {[user |-> u, proof |-> proof]}
           /\ DOMAIN failures' = Keys
BY DomainsStay DEF SignedIn

LEMMA LoginTotpInv ==
    ASSUME AccountsInv, NEW u \in Users, NEW ip \in Ips, LoginTotp(u, ip)
    PROVE  AccountsInv'
<1>1. PICK t \in ValidSteps :
         /\ Unused(u, t)
         /\ ReplaceUser(u, [accounts[u] EXCEPT !.lastUsedStep = t])
         /\ Spend(Token("totp", u, accounts[u].totp, t))
  BY DEF LoginTotp
<1> DEFINE old == accounts[u]
           r == [old EXCEPT !.lastUsedStep = t]
           token == Token("totp", u, old.totp, t)
<1>2. /\ AccountsTypeOK /\ Work /\ u \in Known /\ ~old.disabled /\ old.totp # 0
      /\ UserOK(old) /\ old \in Record /\ IdsWithin(old, work) /\ work \in Nat
      /\ work' = work + 1 /\ t \in Nat /\ t > old.lastUsedStep
      /\ UNCHANGED <<links, challenges, asking, verifying, undone, now, arrived>>
  BY <1>1, KnownRecord, Lifetimes, WorkTypes, AccountsAssumption
     DEF AccountsInv, AccountsTypeOK, LoginTotp, Enabled, FactorsOnce, Unused, ceremonyVars
<1>3. ReplaceUser(u, r) /\ Spend(token)
  BY <1>1
<1>4. SignedIn(u, ip, old.password)
  BY DEF LoginTotp
<1> HIDE DEF old
<1>5. /\ UserOK(r) /\ r.disabled = old.disabled /\ r.password = old.password
      /\ r.totp = old.totp /\ r.pendingTotp = 0 /\ r.codes = old.codes
      /\ r.lastUsedStep = t /\ old.pendingTotp = 0
  BY <1>2 DEF UserOK, Record
<1>6. IdsWithin(r, work') /\ old.totp \in 1 .. work /\ old.lastUsedStep \in Nat
  BY <1>2, <1>5 DEF IdsWithin, UserOK, Record
<1>7. token.kind = "totp" /\ token.user = u /\ token.id = old.totp /\ token.step = t
  BY DEF Token
<1> HIDE DEF r, token
<1>8. Safe(old, u, spent) => token \notin spent /\ Safe(r, u, spent \cup {token})
  <2> SUFFICES ASSUME Safe(old, u, spent)
               PROVE  token \notin spent /\ Safe(r, u, spent \cup {token})
    OBVIOUS
  <2>1. token \notin spent
    BY <1>2, <1>6, <1>7 DEF Safe
  <2>2. \A x \in spent : x.id \in Nat \ {0} /\ x.step \in Nat
    BY DEF AccountsInv, FactorsOnce, Tokens
  <2>3. \A x \in spent : x.step <= old.lastUsedStep => x.step <= t
    BY <1>2, <1>6, <2>2
  <2> QED BY <1>2, <1>5, <1>6, <1>7, <2>1, <2>2, <2>3 DEF Safe
<1>9. /\ DOMAIN failures' = Keys
      /\ sessions' \subseteq sessions \cup
            [user : {w \in {u} : ~r.disabled}, proof : {r.password, NoPassword}]
  BY <1>2, <1>4, <1>5, SignedInTypes
<1> QED BY <1>2, <1>3, <1>5, <1>6, <1>8, <1>9, CodeStep DEF token, old

LEMMA LoginRecoveryInv ==
    ASSUME AccountsInv, NEW u \in Users, NEW ip \in Ips, LoginRecovery(u, ip)
    PROVE  AccountsInv'
<1>1. PICK c \in accounts[u].codes :
         /\ ReplaceUser(u, [accounts[u] EXCEPT !.codes = @ \ {c}])
         /\ Spend(Token("recovery", u, c, 0))
  BY DEF LoginRecovery
<1> DEFINE old == accounts[u]
           r == [old EXCEPT !.codes = @ \ {c}]
           token == Token("recovery", u, c, 0)
<1>2. /\ AccountsTypeOK /\ Work /\ u \in Known /\ ~old.disabled
      /\ UserOK(old) /\ old \in Record /\ IdsWithin(old, work) /\ work \in Nat
      /\ work' = work + 1 /\ c \in 1 .. work /\ c \in old.codes
      /\ UNCHANGED <<links, challenges, asking, verifying, undone, now, arrived>>
  BY <1>1, KnownRecord, WorkTypes, AccountsAssumption
     DEF AccountsInv, AccountsTypeOK, LoginRecovery, Enabled, FactorsOnce, IdsWithin,
         ceremonyVars
<1>3. ReplaceUser(u, r) /\ Spend(token)
  BY <1>1
<1>4. SignedIn(u, ip, old.password)
  BY DEF LoginRecovery
<1> HIDE DEF old
<1>5. /\ UserOK(r) /\ r.disabled = old.disabled /\ r.password = old.password
      /\ r.totp = old.totp /\ r.pendingTotp = old.pendingTotp /\ r.codes = old.codes \ {c}
      /\ r.lastUsedStep = old.lastUsedStep
  BY <1>2 DEF UserOK, Record
<1>6. IdsWithin(r, work')
  <2>1. r.totp <= work /\ r.pendingTotp <= work /\ r.codes \subseteq 1 .. work
    BY <1>2, <1>5 DEF IdsWithin
  <2>2. r.totp \in Nat /\ r.pendingTotp \in Nat /\ 1 .. work \subseteq 1 .. work'
    BY <1>2, <1>5 DEF UserOK, Record
  <2> QED BY <1>2, <2>1, <2>2 DEF IdsWithin
<1>7. token.kind = "recovery" /\ token.user = u /\ token.id = c
  BY DEF Token
<1> HIDE DEF r, token
<1>8. Safe(old, u, spent) => token \notin spent /\ Safe(r, u, spent \cup {token})
  BY <1>2, <1>5, <1>7 DEF Safe
<1>9. /\ DOMAIN failures' = Keys
      /\ sessions' \subseteq sessions \cup
            [user : {w \in {u} : ~r.disabled}, proof : {r.password, NoPassword}]
  BY <1>2, <1>4, <1>5, SignedInTypes
<1> QED BY <1>2, <1>3, <1>5, <1>6, <1>8, <1>9, CodeStep DEF token, old

LEMMA ConfirmInv ==
    ASSUME AccountsInv, NEW u \in Users, ConfirmMfaEnrollment(u)
    PROVE  AccountsInv'
<1> DEFINE old == accounts[u]
           r(t) == [old EXCEPT !.totp = old.pendingTotp, !.pendingTotp = 0,
                               !.lastUsedStep = t, !.codes = {work'}]
<1>1. PICK t \in ValidSteps : /\ ReplaceUser(u, r(t))
                              /\ Spend(Token("totp", u, old.pendingTotp, t))
  BY DEF ConfirmMfaEnrollment
<1> DEFINE token == Token("totp", u, old.pendingTotp, t)
<1>2. /\ AccountsTypeOK /\ FactorsOnce /\ Work /\ u \in Known /\ arrived' \subseteq arrived
      /\ UserOK(old) /\ old \in Record /\ IdsWithin(old, work) /\ work \in Nat
      /\ work' = work + 1 /\ t \in Nat /\ old.totp = 0 /\ old.pendingTotp # 0
      /\ DOMAIN failures' = Keys
      /\ UNCHANGED <<sessions, links, challenges, asking, verifying, undone, now>>
  BY <1>1, HandlesKnown, Lifetimes, WorkTypes, AccountsAssumption
     DEF AccountsInv, AccountsTypeOK, ConfirmMfaEnrollment, Handle, FactorsOnce,
         sessionVars, ceremonyVars
<1> HIDE DEF old
<1>3. /\ UserOK(r(t)) /\ r(t).disabled = old.disabled /\ r(t).password = old.password
      /\ r(t).totp = old.pendingTotp /\ r(t).pendingTotp = 0 /\ r(t).codes = {work'}
      /\ r(t).lastUsedStep = t
  <2>1. old \in Record /\ old.pendingTotp \in Nat /\ work' \in Nat /\ {work'} \subseteq Nat
    BY <1>2 DEF Record
  <2>2. r(t) \in Record
    BY <1>2, <2>1 DEF Record
  <2>3. /\ r(t).disabled = old.disabled /\ r(t).password = old.password
        /\ r(t).totp = old.pendingTotp /\ r(t).pendingTotp = 0 /\ r(t).codes = {work'}
        /\ r(t).lastUsedStep = t
    BY <2>1 DEF Record
  <2> HIDE DEF r
  <2> QED BY <1>2, <2>2, <2>3 DEF UserOK
<1>4. IdsWithin(r(t), work') /\ old.pendingTotp \in 1 .. work
  BY <1>2, <1>3 DEF IdsWithin, UserOK, Record
<1>5. token.kind = "totp" /\ token.user = u /\ token.id = old.pendingTotp /\ token.step = t
  BY DEF Token
<1> HIDE DEF r, token
<1>6. Safe(old, u, spent) => token \notin spent /\ Safe(r(t), u, spent \cup {token})
  <2>1. \A x \in spent : x.id # 0 /\ x.id # work'
    BY <1>2 DEF FactorsOnce, Tokens
  <2>2. t <= t
    BY <1>2
  <2> QED BY <1>2, <1>3, <1>5, <2>1, <2>2 DEF Safe
<1> QED BY <1>1, <1>2, <1>3, <1>4, <1>6, CodeStep DEF token, old

----------------------------------------------------------------------------
(* Steps that accept a challenge or a link.                                *)

(* Writing back a record says what it undoes.                              *)
LEMMA WriteBackUndoes ==
    ASSUME AccountsTypeOK, NEW u \in Known, NEW read, UserOK(read), NEW written,
           WriteBack(u, read, written)
    PROVE  /\ ReplaceUser(u, written)
           /\ undone \subseteq undone' /\ undone' \subseteq Users \X Parts
           /\ accounts[u].disabled /\ ~read.disabled => <<u, "disabling">> \in undone'
           /\ ~accounts[u].disabled /\ read.disabled => <<u, "enabling">> \in undone'
           /\ accounts[u].password # read.password => <<u, "password">> \in undone'
           /\ \/ <<u, "factors">> \in undone'
              \/ /\ read.totp = accounts[u].totp /\ read.lastUsedStep = accounts[u].lastUsedStep
                 /\ read.pendingTotp = accounts[u].pendingTotp
                 /\ read.codes = accounts[u].codes
<1> DEFINE kept == [read EXCEPT !.disabled = accounts[u].disabled,
                                !.password = accounts[u].password]
<1>1. ReplaceUser(u, written) /\ undone \subseteq undone' /\ undone' \subseteq Users \X Parts
  BY WriteBackTypes
<1>2. /\ accounts[u].disabled /\ ~read.disabled => <<u, "disabling">> \in undone'
      /\ ~accounts[u].disabled /\ read.disabled => <<u, "enabling">> \in undone'
      /\ accounts[u].password # read.password => <<u, "password">> \in undone'
      /\ accounts[u] # kept => <<u, "factors">> \in undone'
  BY DEF WriteBack
<1>3. /\ kept.totp = read.totp /\ kept.lastUsedStep = read.lastUsedStep
      /\ kept.pendingTotp = read.pendingTotp /\ kept.codes = read.codes
  BY DEF UserOK, Record
<1> HIDE DEF kept
<1> QED BY <1>1, <1>2, <1>3

LEMMA FinishStep ==
    ASSUME AccountsInv, NEW v \in verifying, verifying' = verifying \ {v},
           NEW r, UserOK(r), WriteBack(v.user, v.read, r),
           r.disabled = v.read.disabled, r.password = v.read.password,
           r.totp = v.read.totp, r.lastUsedStep = v.read.lastUsedStep,
           r.pendingTotp = v.read.pendingTotp, r.codes = v.read.codes,
           Spend(Token("challenge", v.user, v.id, 0)),
           DOMAIN failures' = Keys,
           sessions' = sessions \/
               (~v.read.disabled
                  /\ sessions' = sessions \cup {[user |-> v.user, proof |-> NoPassword]}),
           UNCHANGED <<links, challenges, asking, arrived, now, work>>
    PROVE  AccountsInv'
<1> DEFINE u == v.user
           token == Token("challenge", v.user, v.id, 0)
<1>1. /\ AccountsTypeOK /\ FactorsOnce /\ TicketsOnce /\ u \in Known /\ UserOK(v.read)
      /\ IdsWithin(v.read, work) /\ v.id \in 1 .. work /\ token \notin spent
      /\ work \in 0 .. MaxWork /\ work \in Nat
  BY AccountsAssumption DEF AccountsInv, AccountsTypeOK, FactorsOnce, TicketsOnce
<1>2. /\ ReplaceUser(u, r)
      /\ undone \subseteq undone' /\ undone' \subseteq Users \X Parts
      /\ ~accounts[u].disabled /\ r.disabled => <<u, "enabling">> \in undone'
      /\ accounts[u].password # r.password => <<u, "password">> \in undone'
      /\ \/ <<u, "factors">> \in undone'
         \/ /\ r.totp = accounts[u].totp /\ r.lastUsedStep = accounts[u].lastUsedStep
            /\ r.pendingTotp = accounts[u].pendingTotp /\ r.codes = accounts[u].codes
  BY <1>1, WriteBackUndoes
<1>3. spent' = spent \cup {token} /\ spentTwice' = spentTwice
  BY <1>1, SpendFacts
<1>4. /\ token.kind = "challenge" /\ token.user = u /\ token.id = v.id /\ token \in Tokens(work)
  BY <1>1 DEF Token, Tokens
<1>5. IdsWithin(r, work)
  BY <1>1 DEF IdsWithin
<1>6. /\ spent' \subseteq Tokens(work) /\ spentTwice' \subseteq spent'
      /\ \A x \in spent' : x \in spent \/ x.user = u
  BY <1>1, <1>3, <1>4 DEF FactorsOnce
<1>7. <<u, "factors">> \in undone' \/ Safe(r, u, spent')
  <2>1. Undid(u, "factors") \/ Safe(accounts[u], u, spent)
    BY <1>1 DEF FactorsOnce
  <2> QED BY <1>2, <1>3, <1>4, <2>1 DEF Safe, Undid
<1>8. /\ sessions' \subseteq sessions \cup [user : {u}, proof : Passwords \cup {NoPassword}]
      /\ \A s \in sessions' : s.user = u =>
            /\ s \notin sessions => ~r.disabled /\ s.proof \in {r.password, NoPassword}
            /\ r.password = accounts[u].password \/ <<u, "password">> \in undone'
                  \/ s \notin sessions
  BY <1>2
<1>9. links' \subseteq [id : Nat, user : Known, expires : Nat, used : BOOLEAN]
  BY <1>1 DEF AccountsTypeOK
<1> DEFINE n == work
<1>10. /\ work' = n /\ work' \in 0 .. MaxWork /\ work <= work' /\ IdsWithin(r, work')
       /\ spent' \subseteq Tokens(work')
  BY <1>1, <1>5, <1>6
<1> HIDE DEF u, token, n
<1>11. AccountsTypeOK' /\ WhoGetsIn' /\ FactorsOnce'
  <2>1. \A x \in spentTwice' : x \in spentTwice \/
           (x.kind \in {"totp", "recovery"} => <<x.user, "factors">> \in undone')
    BY <1>3
  <2>2. r.disabled => accounts[u].disabled \/ <<u, "enabling">> \in undone'
    BY <1>2
  <2>3. verifying' \subseteq verifying /\ challenges' = challenges /\ asking' = asking
        /\ arrived' \subseteq arrived /\ now' = now
    OBVIOUS
  <2>4. u \in Known
    BY <1>1
  <2> QED BY <1>2, <1>6, <1>7, <1>8, <1>9, <1>10, <2>1, <2>2, <2>3, <2>4, RecordStep
<1>12. TicketsOnce'
  <2>1. \A a \in asking \cup challenges \cup (verifying \ {v}) : a.id # v.id
    BY <1>1 DEF TicketsOnce
  <2>2. \A a \in asking \cup challenges \cup (verifying \ {v}) :
           Token("challenge", a.user, a.id, 0) \notin spent'
    BY <1>1, <1>3, <2>1 DEF TicketsOnce, Token, token
  <2>3. \A l \in links : ~l.used => Token("link", l.user, l.id, 0) \notin spent'
    BY <1>1, <1>3 DEF TicketsOnce, Token, token
  <2> QED BY <1>1, <1>3, <2>2, <2>3 DEF TicketsOnce
<1> QED BY <1>11, <1>12 DEF AccountsInv

LEMMA FinishInv ==
    ASSUME AccountsInv, NEW v \in verifying,
           FinishPasskeyRegistration(v) \/ \E ip \in Ips : FinishPasskeyLogin(v, ip)
    PROVE  AccountsInv'
<1>1. /\ AccountsTypeOK /\ UserOK(v.read) /\ v.read \in Record
      /\ v.ceremony = "login" => ~v.read.disabled
  BY DEF AccountsInv, AccountsTypeOK, UserOK, WhoGetsIn, CeremoniesOK
<1>2. ASSUME NEW ip \in Ips, FinishPasskeyLogin(v, ip)
      PROVE  AccountsInv'
  <2>1. /\ sessions' = sessions \cup {[user |-> v.user, proof |-> NoPassword]}
        /\ DOMAIN failures' = Keys
    BY <1>1, <1>2, SignedInTypes DEF FinishPasskeyLogin
  <2> QED BY <1>1, <1>2, <2>1, FinishStep DEF FinishPasskeyLogin
<1>3. CASE FinishPasskeyRegistration(v)
  <2>1. PICK k \in Passkeys : WriteBack(v.user, v.read, [v.read EXCEPT !.passkeys = @ \cup {k}])
    BY <1>3 DEF FinishPasskeyRegistration
  <2> DEFINE r == [v.read EXCEPT !.passkeys = @ \cup {k}]
  <2>2. /\ UserOK(r) /\ r.disabled = v.read.disabled /\ r.password = v.read.password
        /\ r.totp = v.read.totp /\ r.lastUsedStep = v.read.lastUsedStep
        /\ r.pendingTotp = v.read.pendingTotp /\ r.codes = v.read.codes
    BY <1>1 DEF UserOK, Record
  <2>3. DOMAIN failures' = Keys
    BY <1>1, <1>3 DEF FinishPasskeyRegistration, sessionVars, AccountsTypeOK
  <2>4. WriteBack(v.user, v.read, r)
    BY <2>1
  <2> HIDE DEF r
  <2> QED BY <1>3, <2>2, <2>3, <2>4, FinishStep DEF FinishPasskeyRegistration, sessionVars
<1> QED BY <1>2, <1>3

LEMMA LinkInv ==
    ASSUME AccountsInv, NEW l \in links, ResetPasswordWithToken(l)
    PROVE  AccountsInv'
<1>1. PICK p \in Passwords : ApplyNewPassword(l.user, p)
  BY DEF ResetPasswordWithToken
<1> DEFINE u == l.user
           r == [accounts[u] EXCEPT !.password = p]
           token == Token("link", u, l.id, 0)
           used == [l EXCEPT !.used = TRUE]
<1>2. /\ AccountsTypeOK /\ FactorsOnce /\ TicketsOnce /\ Work
      /\ l \in [id : Nat, user : Known, expires : Nat, used : BOOLEAN] /\ u \in Known
      /\ UserOK(accounts[u]) /\ accounts[u] \in Record /\ l.id \in 1 .. work
      /\ token \notin spent /\ work \in Nat /\ work' = work + 1 /\ work' \in 0 .. MaxWork
      /\ DOMAIN failures = Keys /\ undone \subseteq Users \X Parts
  BY WorkTypes, AccountsAssumption
     DEF AccountsInv, AccountsTypeOK, ResetPasswordWithToken, TicketsOnce, UserOK
<1>3. /\ UserOK(r) /\ r.disabled = accounts[u].disabled /\ FactorsFrom(r, accounts[u])
  BY <1>2 DEF UserOK, Record, FactorsFrom
<1>4. /\ ReplaceUser(u, r) /\ sessions' \subseteq sessions /\ \A s \in sessions' : s.user # u
  BY <1>1 DEF ApplyNewPassword, RevokeAllSessions
<1>5. /\ spent' = spent \cup {token} /\ spentTwice' = spentTwice
      /\ links' = (links \ {l}) \cup {used}
      /\ UNCHANGED <<failures, challenges, asking, verifying, undone, arrived, now>>
  BY <1>2, SpendFacts DEF ResetPasswordWithToken, ceremonyVars
<1>6. /\ IdsWithin(r, work') /\ spent \subseteq Tokens(work')
      /\ Undid(u, "factors") \/ Safe(r, u, spent)
  BY <1>2, <1>3, FactorsStay
<1>7. token.kind = "link" /\ token.user = u /\ token.id = l.id /\ token \in Tokens(work')
  BY <1>2 DEF Token, Tokens
<1>8. used \in [id : Nat, user : Known, expires : Nat, used : BOOLEAN]
      /\ used.id = l.id /\ used.used
  BY <1>2
<1> HIDE DEF r, token, used, u
<1>9. /\ links' \subseteq [id : Nat, user : Known, expires : Nat, used : BOOLEAN]
      /\ spent' \subseteq Tokens(work') /\ spentTwice' \subseteq spent'
      /\ \A x \in spent' : x \in spent \/ x.user = u
      /\ <<u, "factors">> \in undone' \/ Safe(r, u, spent')
      /\ \A x \in spentTwice' : x \in spentTwice
  <2>1. links' \subseteq [id : Nat, user : Known, expires : Nat, used : BOOLEAN]
    BY <1>2, <1>5, <1>8 DEF AccountsTypeOK
  <2>2. spentTwice \subseteq spent
    BY <1>2 DEF FactorsOnce
  <2> QED BY <1>5, <1>6, <1>7, <2>1, <2>2 DEF Safe, Undid
<1>10. AccountsTypeOK' /\ WhoGetsIn' /\ FactorsOnce'
  <2>1. r.disabled => accounts[u].disabled
    BY <1>3
  <2>2. /\ work' \in 0 .. MaxWork /\ work <= work' /\ now' = now /\ DOMAIN failures' = Keys
        /\ challenges' = challenges /\ asking' = asking /\ verifying' = verifying
        /\ arrived' \subseteq arrived /\ undone' \subseteq Users \X Parts
        /\ undone \subseteq undone'
    BY <1>2, <1>5
  <2>3. u \in Known
    BY <1>2
  <2> QED BY <1>3, <1>4, <1>6, <1>9, <2>1, <2>2, <2>3, RecordStep
<1>11. TicketsOnce'
  <2>1. \A m \in links \ {l} : m.id # l.id
    BY <1>2 DEF TicketsOnce
  <2>2. \A m \in links' : m = used \/ (m \in links \ {l})
    BY <1>5
  <2>3. \A i \in 1 .. work : i \in 1 .. work'
    BY <1>2
  <2>4. \A m \in links' : m.id \in 1 .. work'
    BY <1>2, <1>8, <2>2, <2>3 DEF TicketsOnce
  <2>5. \A m, k \in links' : m.id = k.id => m = k
    BY <1>2, <1>8, <2>1, <2>2 DEF TicketsOnce
  <2>6. \A m \in links' : ~m.used => Token("link", m.user, m.id, 0) \notin spent'
    BY <1>2, <1>5, <1>8, <2>1, <2>2 DEF TicketsOnce, Token, token
  <2>7. \A a \in asking \cup challenges \cup verifying :
           a.id \in 1 .. work' /\ Token("challenge", a.user, a.id, 0) \notin spent'
    <3>1. \A a \in asking \cup challenges \cup verifying :
             a.id \in 1 .. work /\ Token("challenge", a.user, a.id, 0) \notin spent
      BY <1>2 DEF TicketsOnce
    <3>2. \A a : Token("challenge", a.user, a.id, 0) # token
      BY DEF Token, token
    <3> QED BY <1>5, <2>3, <3>1, <3>2
  <2> QED BY <1>2, <1>5, <2>4, <2>5, <2>6, <2>7 DEF TicketsOnce
<1> QED BY <1>10, <1>11 DEF AccountsInv

----------------------------------------------------------------------------
LEMMA NextAccountsInv == AccountsInv /\ [Next]_vars => AccountsInv'
<1> SUFFICES ASSUME AccountsInv, [Next]_vars PROVE AccountsInv'
  OBVIOUS
<1>1. CASE UNCHANGED vars
  <2>1. UNCHANGED <<accounts, sessions, failures, links, challenges, asking, verifying, undone,
                    arrived, now, work, spent, spentTwice>>
    BY <1>1 DEF vars, sessionVars, ceremonyVars, spentVars
  <2>2. AccountsTypeOK' /\ WhoGetsIn'
    BY <2>1
       DEF AccountsInv, AccountsTypeOK, WhoGetsIn, CeremoniesOK, AnAttorneyRemains,
           SessionsAreCurrent, Enabled, Undid, Known
  <2>3. Tokens(work)' = Tokens(work) /\ Known' = Known
    BY <2>1 DEF Tokens, Known
  <2>4. FactorsOnce' /\ TicketsOnce'
    BY <2>1, <2>3 DEF AccountsInv, FactorsOnce, TicketsOnce, Undid
  <2> QED BY <2>2, <2>4 DEF AccountsInv
<1>2. CASE Quiet
  BY <1>2, QuietInv
<1>3. ASSUME NEW u \in Users, SignIn(u)
      PROVE  AccountsInv'
  BY <1>2, <1>3, LoginTotpInv, LoginRecoveryInv DEF SignIn, Quiet
<1>4. ASSUME NEW u \in Users, OwnAccount(u)
      PROVE  AccountsInv'
  BY <1>2, <1>4, OwnRecordInv, ConfirmInv DEF OwnAccount, Quiet
<1>5. ASSUME NEW a \in Users, NEW u \in Users, Administer(a, u)
      PROVE  AccountsInv'
  BY <1>2, <1>5, CreateInv, AdministerInv DEF Administer, Quiet
<1>6. CASE Ceremony
  BY <1>2, <1>6, FinishInv DEF Ceremony, Quiet
<1>7. CASE Tick \/ \E s \in sessions : EndSession(s)
  BY <1>2, <1>7 DEF Quiet
<1> QED BY <1>1, <1>3, <1>4, <1>5, <1>6, <1>7, LinkInv DEF Next

LEMMA AccountsInvHolds == Spec => []AccountsInv
BY InitAccountsInv, NextAccountsInv, PTL DEF Spec

(* Whatever the interleaving, an account stands for a user that exists,    *)
(* and its record is one replaceUser could have put together: no pending   *)
(* secret beside a confirmed one, no codes without an authenticator.       *)
THEOREM AccountTypes == Spec => []AccountsTypeOK
<1>1. AccountsInv => AccountsTypeOK
  BY DEF AccountsInv
<1> QED BY <1>1, AccountsInvHolds, PTL

(* setDisabled never leaves the firm without an enabled attorney, unless a *)
(* passkey ceremony undid an enabling.                                     *)
THEOREM SomeoneRunsTheFirm == Spec => []AnAttorneyRemains
<1>1. AccountsInv => AnAttorneyRemains
  BY DEF AccountsInv, WhoGetsIn
<1> QED BY <1>1, AccountsInvHolds, PTL

(* Every live session is one that its user's account, as it is now, would  *)
(* still grant, save for what a passkey ceremony undid.                    *)
THEOREM SessionsStayCurrent == Spec => []SessionsAreCurrent
<1>1. AccountsInv => SessionsAreCurrent
  BY DEF AccountsInv, WhoGetsIn
<1> QED BY <1>1, AccountsInvHolds, PTL

(* No link or challenge is accepted twice, and no code except where a      *)
(* passkey ceremony put the account's factors back.                        *)
THEOREM NothingAcceptedTwice == Spec => []AcceptedOnce
<1>1. AccountsInv => AcceptedOnce
  BY DEF AccountsInv, FactorsOnce, TicketsOnce, AcceptedOnce
<1> QED BY <1>1, AccountsInvHolds, PTL

----------------------------------------------------------------------------
(* Who is disabled stays so.                                               *)

LEMMA DisabledStep ==
    ASSUME AccountsInv, Next, NEW u \in Known,
           accounts[u].disabled, ~accounts'[u].disabled
    PROVE  (\E a \in Attorneys : Enable(a, u)) \/ <<u, "disabling">> \in undone'
<1>1. /\ \A w \in Known : accounts[w] \in Record
      /\ \A v \in verifying : v.user \in Known /\ v.read \in Record /\ UserOK(v.read)
      /\ AccountsTypeOK
  BY DEF AccountsInv, AccountsTypeOK, UserOK
<1>2. \A w, r : ReplaceUser(w, r) => w = u /\ accounts'[u] = r
  BY DEF ReplaceUser, Known
<1>3. ASSUME NEW w, NEW r, ReplaceUser(w, r), r.disabled = accounts[w].disabled
      PROVE  FALSE
  BY <1>2, <1>3
<1>4. ASSUME NEW old \in Record, NEW x
      PROVE  /\ [old EXCEPT !.lastUsedStep = x].disabled = old.disabled
             /\ [old EXCEPT !.codes = x].disabled = old.disabled
             /\ [old EXCEPT !.pendingTotp = x].disabled = old.disabled
             /\ [old EXCEPT !.passkeys = x].disabled = old.disabled
             /\ [old EXCEPT !.password = x].disabled = old.disabled
             /\ WithoutTotp(old).disabled = old.disabled
             /\ [WithoutTotp(old) EXCEPT !.passkeys = x].disabled = old.disabled
  BY DEF Record, WithoutTotp
<1>5. ASSUME NEW w, NEW p, ApplyNewPassword(w, p)
      PROVE  FALSE
  <2>1. w = u /\ ReplaceUser(u, [accounts[u] EXCEPT !.password = p])
    BY <1>2, <1>5 DEF ApplyNewPassword
  <2>2. [accounts[u] EXCEPT !.password = p].disabled = accounts[u].disabled
    <3>1. accounts[u] \in Record
      BY <1>1
    <3> QED BY <1>4, <3>1, Zenon
  <2> QED BY <1>3, <2>1, <2>2
<1>6. ~Quiet
  BY DEF Quiet, SignInFails, Login, BeginPasskeyLogin, RefusePasskeyLogin, CompletePasskeyFails,
         EndSession, ProviderFails, BeginFails, ChallengeIssued, CompletePasskeyLogin, CeremonyFails, PasskeyLoginUnverified, Arrive,
         RequestFails, RequestPasswordReset, BeginPasskeyRegistration,
         CompletePasskeyRegistration, ClearLoginLockout, Tick
<1>7. \A w \in Users : ~SignIn(w)
  <2>1. \A w \in Users, ip \in Ips : ~LoginTotp(w, ip)
    BY <1>1, <1>3, <1>4 DEF LoginTotp, Enabled
  <2>2. \A w \in Users, ip \in Ips : ~LoginRecovery(w, ip)
    BY <1>1, <1>3, <1>4 DEF LoginRecovery, Enabled
  <2> QED BY <1>6, <2>1, <2>2 DEF SignIn, Quiet
<1>8. \A w \in Users : ~OwnAccount(w)
  <2>1. \A w \in Users : Handle(w) => w \in Known
    BY <1>1 DEF Handle, AccountsTypeOK
  <2>2. ASSUME NEW w \in Users, RemovePasskey(w)
        PROVE  FALSE
    <3>1. PICK k : ReplaceUser(w, [accounts[w] EXCEPT !.passkeys = @ \ {k}])
      BY <2>2 DEF RemovePasskey
    <3>2. [accounts[w] EXCEPT !.passkeys = @ \ {k}].disabled = accounts[w].disabled
      BY <1>1, <1>4, <2>1, <2>2 DEF RemovePasskey
    <3> QED BY <1>3, <3>1, <3>2
  <2>3. ASSUME NEW w \in Users, BeginMfaEnrollment(w) \/ RegenerateRecoveryCodes(w)
        PROVE  FALSE
    <3>1. /\ [accounts[w] EXCEPT !.pendingTotp = work'].disabled = accounts[w].disabled
          /\ [accounts[w] EXCEPT !.codes = {work'}].disabled = accounts[w].disabled
      BY <1>1, <1>4, <2>1, <2>3 DEF BeginMfaEnrollment, RegenerateRecoveryCodes
    <3> QED BY <1>3, <2>3, <3>1 DEF BeginMfaEnrollment, RegenerateRecoveryCodes
  <2>4. ASSUME NEW w \in Users, ConfirmMfaEnrollment(w)
        PROVE  FALSE
    <3> DEFINE r(t) == [accounts[w] EXCEPT !.totp = accounts[w].pendingTotp, !.pendingTotp = 0,
                                           !.lastUsedStep = t, !.codes = {work'}]
    <3>1. PICK t : ReplaceUser(w, r(t))
      BY <2>4 DEF ConfirmMfaEnrollment
    <3>2. accounts[w] \in Record
      BY <1>1, <2>1, <2>4 DEF ConfirmMfaEnrollment
    <3>3. r(t).disabled = accounts[w].disabled
      BY <3>2 DEF Record
    <3> HIDE DEF r
    <3> QED BY <1>3, <3>1, <3>3
  <2>5. \A w \in Users : ~DisableMfa(w)
    BY <1>1, <1>3, <1>4, <2>1 DEF DisableMfa
  <2>6. \A w \in Users : ~ChangePassword(w)
    BY <1>5 DEF ChangePassword
  <2> QED BY <1>6, <2>1, <2>2, <2>3, <2>4, <2>5, <2>6 DEF OwnAccount, Quiet
<1>9. \A l \in links : ~ResetPasswordWithToken(l)
  BY <1>5 DEF ResetPasswordWithToken
<1>10. ASSUME NEW a \in Users, NEW w \in Users, Administer(a, w)
       PROVE  \E b \in Attorneys : Enable(b, u)
  <2>1. ~Create(a, w)
    BY DEF Create, Known
  <2>2. ~Disable(a, w)
    BY <1>1, <1>2 DEF Disable, Record
  <2>3. ~ResetPassword(a, w)
    BY <1>5 DEF ResetPassword
  <2>4. ASSUME ResetMfa(a, w)
        PROVE  FALSE
    <3>1. [WithoutTotp(accounts[w]) EXCEPT !.passkeys = {}].disabled = accounts[w].disabled
      BY <1>1, <1>4, <2>4 DEF ResetMfa
    <3> QED BY <1>3, <2>4, <3>1 DEF ResetMfa
  <2>5. Enable(a, w) => w = u /\ a \in Attorneys
    BY <1>2 DEF Enable
  <2> QED BY <1>6, <1>10, <2>1, <2>2, <2>3, <2>4, <2>5 DEF Administer, Quiet
<1>11. ASSUME NEW v \in verifying, NEW r, WriteBack(v.user, v.read, r),
              r.disabled = v.read.disabled
       PROVE  <<u, "disabling">> \in undone'
  BY <1>1, <1>2, <1>11, WriteBackUndoes
<1>12. ASSUME NEW v \in verifying, FinishPasskeyRegistration(v)
       PROVE  <<u, "disabling">> \in undone'
  <2>1. PICK k \in Passkeys : WriteBack(v.user, v.read, [v.read EXCEPT !.passkeys = @ \cup {k}])
    BY <1>12 DEF FinishPasskeyRegistration
  <2>2. [v.read EXCEPT !.passkeys = @ \cup {k}].disabled = v.read.disabled
    BY <1>1 DEF Record
  <2> QED BY <1>11, <2>1, <2>2
<1>13. ASSUME NEW v \in verifying, NEW ip \in Ips, FinishPasskeyLogin(v, ip)
       PROVE  <<u, "disabling">> \in undone'
  BY <1>11, <1>13 DEF FinishPasskeyLogin
<1>14. Ceremony => <<u, "disabling">> \in undone'
  BY <1>6, <1>12, <1>13 DEF Ceremony, Quiet
<1>15. ~Tick /\ \A s \in sessions : ~EndSession(s)
  BY <1>6 DEF Quiet
<1> QED BY <1>7, <1>8, <1>9, <1>10, <1>14, <1>15 DEF Next

(* A disabled account comes back only by an attorney's enabling it, or by  *)
(* a passkey ceremony that had read it before it was disabled.             *)
THEOREM DisabledStaysDisabled == Spec => DisabledUntilEnabled
<1>1. AccountsInv /\ [Next]_vars =>
         [\A u \in Known :
            accounts[u].disabled /\ ~accounts'[u].disabled =>
                \/ \E a \in Attorneys : Enable(a, u)
                \/ <<u, "disabling">> \in undone']_vars
  BY DisabledStep
<1> QED BY <1>1, AccountsInvHolds, PTL DEF Spec, DisabledUntilEnabled

----------------------------------------------------------------------------
(* The throttle.                                                           *)

\* The positions of the guesses that count at t.
GuessesIn(kept, t) == {i \in DOMAIN kept : kept[i].checked /\ kept[i].at > t - Window}

LEMMA GuessesCount ==
    ASSUME NEW kept \in Seq(Failure), NEW t
    PROVE  IsFiniteSet(GuessesIn(kept, t)) /\ Cardinality(GuessesIn(kept, t)) \in Nat
<1>1. Len(kept) \in Nat /\ GuessesIn(kept, t) \in SUBSET (1 .. Len(kept))
  BY DEF GuessesIn
<1> QED BY <1>1, UpToIsFinite, FS_Subset, FS_CardinalityType

(* Pruning keeps what is in the window, which is every guess, and adds     *)
(* none.                                                                   *)
LEMMA RecentKeeps ==
    ASSUME NEW kept \in Seq(Failure), NEW t \in Nat
    PROVE  /\ Recent(kept, t) \in Seq(Failure)
           /\ \A j \in DOMAIN Recent(kept, t) : Recent(kept, t)[j].at > t - Window
           /\ Cardinality(GuessesIn(Recent(kept, t), t)) <= Cardinality(GuessesIn(kept, t))
           /\ Cardinality(GuessesIn(kept, t)) <= Len(Recent(kept, t))
<1> DEFINE I == {i \in DOMAIN kept : kept[i].at > t - Window}
           recent == Recent(kept, t)
           c == Cardinality(I)
<1>1. I \in SUBSET (DOMAIN kept) /\ recent = AtPositions(kept, I)
  BY DEF Recent
<1>2. GuessesIn(kept, t) \in SUBSET I
  BY DEF GuessesIn
<1> HIDE DEF I
<1>3. recent \in Seq(Failure) /\ DOMAIN recent = 1 .. c
  BY <1>1, KeptElements
<1>4. PICK e \in Injection(1 .. c, I) : \A j \in 1 .. c : recent[j] = kept[e[j]]
  <2>1. \E e \in Injection(1 .. c, I) : \A j \in 1 .. c : AtPositions(kept, I)[j] = kept[e[j]]
    BY <1>1, KeptElements, Zenon
  <2> QED BY <1>1, <2>1, Zenon
<1>5. /\ \A j \in 1 .. c : e[j] \in I
      /\ \A j, k \in 1 .. c : e[j] = e[k] => j = k
  BY <1>4 DEF Injection, IsInjective
<1>6. \A j \in 1 .. c : recent[j].at > t - Window
  BY <1>4, <1>5 DEF I
<1> DEFINE G == GuessesIn(recent, t)
           K == GuessesIn(kept, t)
           g == [j \in G |-> e[j]]
<1>7. \A j \in G : j \in 1 .. c /\ e[j] \in K
  BY <1>1, <1>3, <1>4, <1>5 DEF GuessesIn
<1>8. g \in Injection(G, K)
  <2>1. g \in [G -> K]
    BY <1>7
  <2>2. \A j, k \in G : g[j] = g[k] => j = k
    BY <1>5, <1>7
  <2> HIDE DEF g, G, K
  <2> QED BY <2>1, <2>2 DEF Injection, IsInjective
<1>9. Cardinality(G) <= Cardinality(K)
  <2>1. IsFiniteSet(K)
    BY GuessesCount
  <2> HIDE DEF g, G, K
  <2> QED BY <1>8, <2>1, FS_Injection
<1>10. Cardinality(K) <= Len(recent)
  <2>1. IsFiniteSet(I)
    <3>1. Len(kept) \in Nat /\ I \in SUBSET (1 .. Len(kept))
      BY <1>1
    <3> QED BY <3>1, UpToIsFinite, FS_Subset
  <2>2. Cardinality(K) <= c /\ c \in Nat
    <3> HIDE DEF K
    <3> QED BY <1>2, <2>1, FS_Subset, FS_CardinalityType DEF K
  <2>3. Len(recent) = c
    <3> HIDE DEF recent
    <3>1. Len(recent) \in Nat /\ DOMAIN recent = 1 .. Len(recent)
      BY <1>3
    <3> QED BY <1>3, <2>2, <3>1
  <2> QED BY <2>2, <2>3
<1> QED BY <1>3, <1>6, <1>9, <1>10

(* What check lets through has room for a guess: a lockout lasts as long   *)
(* as the failures that caused it count.                                   *)
LEMMA RoomLeft ==
    ASSUME NEW kept \in Seq(Failure), NEW t \in Nat, ~Locked(kept, t)
    PROVE  Cardinality(GuessesIn(kept, t)) < MaxFailures
<1> DEFINE recent == Recent(kept, t)
           n == Len(recent)
<1>1. /\ recent \in Seq(Failure)
      /\ \A j \in DOMAIN recent : recent[j].at > t - Window
      /\ Cardinality(GuessesIn(kept, t)) <= n
  BY RecentKeeps
<1>2. ~(n >= MaxFailures /\ Last(recent).at + Lockout > t)
  BY DEF Locked
<1> HIDE DEF recent
<1>3. n \in Nat /\ DOMAIN recent = 1 .. n /\ \A j \in 1 .. n : recent[j] \in Failure
  BY <1>1
<1>4. MaxFailures \in Nat \ {0} /\ Window \in Nat /\ Lockout \in Nat /\ Lockout >= Window
  BY ThrottleAssumption
<1>5. n < MaxFailures
  <2> SUFFICES ASSUME n >= MaxFailures PROVE FALSE
    BY <1>3, <1>4
  <2>1. n \in 1 .. n
    BY <1>3, <1>4
  <2>2. Last(recent) = recent[n]
    BY DEF Last
  <2>3. Last(recent).at \in Nat /\ Last(recent).at > t - Window
    BY <1>1, <1>3, <2>1, <2>2 DEF Failure
  <2> QED BY <1>2, <1>4, <2>3
<1> QED BY <1>1, <1>3, <1>4, <1>5, GuessesCount

LEMMA OneMore ==
    ASSUME NEW S, NEW x, IsFiniteSet(S)
    PROVE  /\ IsFiniteSet(S \cup {x})
           /\ Cardinality(S) \in Nat /\ Cardinality(S \cup {x}) \in Nat
           /\ Cardinality(S \cup {x}) <= Cardinality(S) + 1
<1>1. /\ IsFiniteSet(S \cup {x})
      /\ Cardinality(S \cup {x}) = IF x \in S THEN Cardinality(S) ELSE Cardinality(S) + 1
  BY FS_AddElement
<1>2. Cardinality(S) \in Nat
  BY FS_CardinalityType
<1>3. Cardinality(S \cup {x}) \in Nat
  BY <1>1, FS_CardinalityType
<1> QED BY <1>1, <1>2, <1>3

(* A failure that asked the throttle is one guess more at most; one that   *)
(* did not is none.                                                        *)
LEMMA FailureCounts ==
    ASSUME NEW kept \in Seq(Failure), NEW t \in Nat, NEW checked \in BOOLEAN
    PROVE  LET after == Append(Recent(kept, t), [at |-> t, checked |-> checked])
           IN  /\ after \in Seq(Failure)
               /\ Cardinality(GuessesIn(after, t)) <= Cardinality(GuessesIn(kept, t)) + 1
               /\ ~checked => Cardinality(GuessesIn(after, t)) <= Cardinality(GuessesIn(kept, t))
<1> DEFINE recent == Recent(kept, t)
           last == [at |-> t, checked |-> checked]
           new == Append(recent, last)
           n == Len(recent)
           G == GuessesIn(recent, t)
           A == GuessesIn(new, t)
<1>1. recent \in Seq(Failure) /\ Cardinality(G) <= Cardinality(GuessesIn(kept, t))
  BY RecentKeeps
<1>2. last \in Failure /\ last.checked = checked
  BY DEF Failure
<1> HIDE DEF last, recent
<1>3. /\ new \in Seq(Failure) /\ n \in Nat /\ DOMAIN new = 1 .. (n + 1) /\ DOMAIN recent = 1 .. n
      /\ \A j \in 1 .. n : new[j] = recent[j]
      /\ new[n + 1] = last
  BY <1>1, <1>2
<1>4. /\ IsFiniteSet(G) /\ Cardinality(G) \in Nat /\ IsFiniteSet(A) /\ Cardinality(A) \in Nat
      /\ Cardinality(GuessesIn(kept, t)) \in Nat
  BY <1>1, <1>3, GuessesCount
<1> HIDE DEF new, n
<1>5. A \in SUBSET (G \cup {n + 1}) /\ (~checked => A \in SUBSET G)
  BY <1>2, <1>3 DEF GuessesIn
<1> HIDE DEF G, A
<1>6. /\ IsFiniteSet(G \cup {n + 1})
      /\ Cardinality(G \cup {n + 1}) <= Cardinality(G) + 1
      /\ Cardinality(G \cup {n + 1}) \in Nat
  BY <1>4, OneMore
<1>7. Cardinality(A) <= Cardinality(G \cup {n + 1}) /\ (~checked => Cardinality(A) <= Cardinality(G))
  BY <1>4, <1>5, <1>6, FS_Subset
<1>8. Cardinality(A) <= Cardinality(G) + 1
  BY <1>4, <1>6, <1>7
<1>9. /\ Cardinality(A) <= Cardinality(GuessesIn(kept, t)) + 1
      /\ ~checked => Cardinality(A) <= Cardinality(GuessesIn(kept, t))
  BY <1>1, <1>4, <1>7, <1>8
<1> QED BY <1>3, <1>9 DEF A, new, last, recent

(* A guess leaves the window, and none comes back into it, as time passes. *)
LEMMA FewerGuesses ==
    ASSUME NEW kept \in Seq(Failure), NEW t \in Nat
    PROVE  Cardinality(GuessesIn(kept, t + 1)) <= Cardinality(GuessesIn(kept, t))
<1>1. \A i \in DOMAIN kept : kept[i].at \in Nat
  <2>1. \A f \in Failure : f.at \in Nat
    BY DEF Failure
  <2> QED BY <2>1
<1>2. GuessesIn(kept, t + 1) \in SUBSET GuessesIn(kept, t)
  BY <1>1, ThrottleAssumption DEF GuessesIn
<1> QED BY <1>2, GuessesCount, FS_Subset

LEMMA NoGuesses ==
    ASSUME NEW t
    PROVE  <<>> \in Seq(Failure) /\ Cardinality(GuessesIn(<<>>, t)) = 0
<1>1. GuessesIn(<<>>, t) = {}
  BY DEF GuessesIn
<1> QED BY <1>1, FS_EmptySet

\* The handlers among S that may still count a failure of k.
Waiting(S, k) == {a \in S : k \in a.keys}

LEMMA WaitingCounts ==
    ASSUME NEW S, IsFiniteSet(S), NEW k
    PROVE  /\ IsFiniteSet(Waiting(S, k)) /\ Cardinality(Waiting(S, k)) \in Nat
           /\ \A a : /\ IsFiniteSet(S \cup {a})
                     /\ Cardinality(Waiting(S \cup {a}, k)) \in Nat
                     /\ Cardinality(Waiting(S \cup {a}, k)) <= Cardinality(Waiting(S, k)) + 1
                     /\ k \notin a.keys => Waiting(S \cup {a}, k) = Waiting(S, k)
           /\ \A a \in S :
                  /\ IsFiniteSet(S \ {a})
                  /\ Cardinality(Waiting(S \ {a}, k)) \in Nat
                  /\ Cardinality(Waiting(S \ {a}, k)) <= Cardinality(Waiting(S, k))
                  /\ k \in a.keys =>
                        Cardinality(Waiting(S \ {a}, k)) = Cardinality(Waiting(S, k)) - 1
<1>1. \A T : T \in SUBSET S => IsFiniteSet(T) /\ Cardinality(T) \in Nat
  BY FS_Subset, FS_CardinalityType
<1>2. Waiting(S, k) \in SUBSET S
  BY DEF Waiting
<1>3. IsFiniteSet(Waiting(S, k)) /\ Cardinality(Waiting(S, k)) \in Nat
  BY <1>1, <1>2
<1>4. ASSUME NEW a
      PROVE  /\ IsFiniteSet(S \cup {a})
             /\ Cardinality(Waiting(S \cup {a}, k)) \in Nat
             /\ Cardinality(Waiting(S \cup {a}, k)) <= Cardinality(Waiting(S, k)) + 1
             /\ k \notin a.keys => Waiting(S \cup {a}, k) = Waiting(S, k)
  <2> DEFINE W == Waiting(S, k)
             V == Waiting(S \cup {a}, k)
  <2>1. V = W \/ V = W \cup {a}
    BY DEF Waiting
  <2>2. k \notin a.keys => V = W
    BY DEF Waiting
  <2> HIDE DEF W, V
  <2>3. Cardinality(V) \in Nat /\ Cardinality(V) <= Cardinality(W) + 1
    <3>1. IsFiniteSet(W) /\ Cardinality(W) \in Nat
      BY <1>3 DEF W
    <3>2. CASE V = W
      BY <3>1, <3>2
    <3>3. CASE V = W \cup {a}
      BY <3>1, <3>3, OneMore
    <3> QED BY <2>1, <3>2, <3>3
  <2>4. IsFiniteSet(S \cup {a})
    BY OneMore
  <2> QED BY <2>2, <2>3, <2>4 DEF W, V
<1>5. ASSUME NEW a \in S
      PROVE  /\ IsFiniteSet(S \ {a})
             /\ Cardinality(Waiting(S \ {a}, k)) \in Nat
             /\ Cardinality(Waiting(S \ {a}, k)) <= Cardinality(Waiting(S, k))
             /\ k \in a.keys => Cardinality(Waiting(S \ {a}, k)) = Cardinality(Waiting(S, k)) - 1
  <2> DEFINE W == Waiting(S, k)
             V == Waiting(S \ {a}, k)
  <2>1. V \in SUBSET W /\ V = W \ {a} /\ (k \in a.keys => a \in W)
    BY DEF Waiting
  <2> HIDE DEF W, V
  <2>2. /\ Cardinality(V) <= Cardinality(W)
        /\ k \in a.keys => Cardinality(V) = Cardinality(W) - 1
    BY <1>3, <2>1, FS_Subset, FS_RemoveElement DEF W
  <2>3. Cardinality(V) \in Nat /\ IsFiniteSet(S \ {a})
    BY <1>1, <1>2, <2>1 DEF W
  <2> QED BY <2>2, <2>3 DEF W, V
<1> QED BY <1>3, <1>4, <1>5

(* The throttle's memory of a key, and the attempts on it under way.  Both *)
(* together are what the invariant has to bound: an attempt under way is a *)
(* guess that is not counted yet.                                          *)
KeyOK(kept, waiting, most, t) ==
    /\ kept \in Seq(Failure) /\ most \in Nat
    /\ waiting <= most + 1
    /\ Cardinality(GuessesIn(kept, t)) + waiting <= MaxFailures + most

ThrottleOK ==
    /\ IsFiniteSet(asking)
    /\ \A k \in Keys : KeyOK(failures[k], Cardinality(Waiting(asking, k)), together[k], now)

(* What a step can do to them.  Nothing, or a handler leaves that counts   *)
(* no failure, or one asks for a challenge that never will.                *)
Passes ==
    /\ UNCHANGED <<failures, together>> /\ now' \in {now, now + 1}
    /\ \/ asking' = asking
       \/ \E a \in asking : asking' = asking \ {a}
       \/ \E a : a.keys = {} /\ asking' = asking \cup {a}

Forgets ==
    /\ UNCHANGED <<asking, together, now>>
    /\ \E keys : failures' = RecordSuccess(failures, keys)

CountsUnasked ==
    /\ UNCHANGED <<asking, together, now>>
    /\ \E keys : failures' = RecordFailure(failures, keys, now, FALSE)

\* An attempt that is counted in the step that asked.
CountsAtOnce(keys) ==
    /\ UNCHANGED <<asking, now>>
    /\ ~LockedOut(failures, keys, now) /\ LetThrough(keys)
    /\ failures' = RecordFailure(failures, keys, now, TRUE)

\* An attempt that may be counted later, and one that is.
Begins(keys) ==
    /\ UNCHANGED <<failures, now>>
    /\ ~LockedOut(failures, keys, now) /\ LetThrough(keys)
    /\ \E a : a.keys = keys /\ asking' = asking \cup {a}

CountsLate(a) ==
    /\ UNCHANGED <<together, now>>
    /\ a \in asking /\ asking' = asking \ {a}
    /\ failures' = RecordFailure(failures, a.keys, now, TRUE)

ThrottleStep ==
    \/ Passes \/ Forgets \/ CountsUnasked
    \/ \E keys : CountsAtOnce(keys) \/ Begins(keys)
    \/ \E a : CountsLate(a)

(* What the throttle, and its history, hold of a key after a failure and   *)
(* after an attempt was let through.                                       *)
LEMMA AfterFailure ==
    ASSUME AccountsTypeOK, NEW keys, NEW checked \in BOOLEAN, NEW k \in Keys,
           failures[k] \in Seq(Failure),
           failures' = RecordFailure(failures, keys, now, checked)
    PROVE  /\ k \notin keys => failures'[k] = failures[k]
           /\ failures'[k] \in Seq(Failure)
           /\ Cardinality(GuessesIn(failures'[k], now))
                 <= Cardinality(GuessesIn(failures[k], now)) + 1
           /\ ~checked => Cardinality(GuessesIn(failures'[k], now))
                             <= Cardinality(GuessesIn(failures[k], now))
<1>1. now \in Nat /\ DOMAIN failures = Keys
  BY DEF AccountsTypeOK
<1>2. failures'[k] = IF k \in keys
                     THEN Append(Recent(failures[k], now), [at |-> now, checked |-> checked])
                     ELSE failures[k]
  BY <1>1 DEF RecordFailure
<1>3. CASE k \in keys
  BY <1>1, <1>2, <1>3, FailureCounts
<1>4. CASE k \notin keys
  BY <1>2, <1>4, GuessesCount
<1> QED BY <1>3, <1>4

LEMMA AfterLetThrough ==
    ASSUME ThrottleOK, NEW keys, NEW k \in Keys, LetThrough(keys)
    PROVE  /\ k \notin keys => together'[k] = together[k]
           /\ together'[k] \in Nat /\ together[k] <= together'[k]
           /\ k \in keys => Cardinality(Waiting(asking, k)) <= together'[k]
<1>1. /\ together[k] \in Nat /\ Cardinality(Waiting(asking, k)) \in Nat
      /\ UnderWay(k) = Waiting(asking, k)
  BY WaitingCounts DEF ThrottleOK, KeyOK, UnderWay, Waiting
<1>2. together'[k] = IF k \in keys /\ Cardinality(Waiting(asking, k)) > together[k]
                     THEN Cardinality(Waiting(asking, k)) ELSE together[k]
  BY <1>1 DEF LetThrough
<1> QED BY <1>1, <1>2

LEMMA ThrottleStays ==
    ASSUME AccountsTypeOK, ThrottleOK, ThrottleStep
    PROVE  ThrottleOK'
<1>1. /\ now \in Nat /\ DOMAIN failures = Keys /\ IsFiniteSet(asking)
      /\ MaxFailures \in Nat \ {0}
  BY ThrottleAssumption DEF AccountsTypeOK, ThrottleOK
<1>2. IsFiniteSet(asking')
  <2>1. \/ asking' = asking
        \/ \E a : asking' = asking \ {a} \/ asking' = asking \cup {a}
    BY DEF ThrottleStep, Passes, Forgets, CountsUnasked, CountsAtOnce, Begins, CountsLate
  <2>2. \A a : asking \ {a} \in SUBSET asking /\ IsFiniteSet(asking \cup {a})
    BY <1>1, OneMore
  <2> QED BY <1>1, <2>1, <2>2, FS_Subset
<1> SUFFICES ASSUME NEW k \in Keys
             PROVE  KeyOK(failures'[k], Cardinality(Waiting(asking', k)), together'[k], now')
  BY <1>2 DEF ThrottleOK, Waiting
<1> DEFINE C == Cardinality(GuessesIn(failures[k], now))
           D == Cardinality(GuessesIn(failures'[k], now'))
           P == Cardinality(Waiting(asking, k))
           Q == Cardinality(Waiting(asking', k))
           T == together[k]
<1>3. /\ failures[k] \in Seq(Failure) /\ C \in Nat /\ P \in Nat /\ T \in Nat
      /\ P <= T + 1 /\ C + P <= MaxFailures + T
  BY <1>1, GuessesCount, WaitingCounts DEF ThrottleOK, KeyOK
<1>4. ASSUME failures'[k] \in Seq(Failure), D <= C, Q <= P, together'[k] = T
      PROVE  KeyOK(failures'[k], Q, together'[k], now')
  <2>1. D \in Nat /\ Q \in Nat
    BY <1>2, <1>4, GuessesCount, WaitingCounts
  <2> HIDE DEF C, D, P, Q, T
  <2>2. Q <= together'[k] + 1 /\ D + Q <= MaxFailures + together'[k]
    BY <1>1, <1>3, <1>4, <2>1
  <2> QED BY <1>3, <1>4, <2>2 DEF KeyOK, D
<1>5. CASE Passes
  <2>1. failures'[k] = failures[k] /\ together'[k] = T
    BY <1>5 DEF Passes
  <2>2. D <= C
    <3>1. CASE now' = now
      BY <1>3, <2>1, <3>1
    <3>2. CASE now' = now + 1
      BY <1>1, <1>3, <2>1, <3>2, FewerGuesses
    <3> QED BY <1>5, <3>1, <3>2 DEF Passes
  <2>3. Q <= P
    <3>1. CASE asking' = asking
      BY <1>3, <3>1
    <3>2. ASSUME NEW a \in asking, asking' = asking \ {a}
          PROVE  Q <= P
      BY <1>1, <3>2, WaitingCounts
    <3>3. ASSUME NEW a, a.keys = {}, asking' = asking \cup {a}
          PROVE  Q <= P
      <4>1. k \notin a.keys
        BY <3>3
      <4>2. Waiting(asking \cup {a}, k) = Waiting(asking, k)
        BY <4>1 DEF Waiting
      <4> QED BY <1>3, <3>3, <4>2
    <3> QED BY <1>5, <3>1, <3>2, <3>3 DEF Passes
  <2> QED BY <1>3, <1>4, <2>1, <2>2, <2>3
<1>6. CASE Forgets
  <2>1. PICK keys : failures' = RecordSuccess(failures, keys)
    BY <1>6 DEF Forgets
  <2>2. failures'[k] = IF k \in keys THEN <<>> ELSE failures[k]
    BY <1>1, <2>1 DEF RecordSuccess
  <2>3. failures'[k] \in Seq(Failure) /\ D <= C
    BY <1>3, <1>6, <2>2, NoGuesses DEF Forgets
  <2>4. Q <= P /\ together'[k] = T
    BY <1>3, <1>6 DEF Forgets
  <2> QED BY <1>4, <2>3, <2>4
<1>7. CASE CountsUnasked
  <2>1. PICK keys : failures' = RecordFailure(failures, keys, now, FALSE)
    BY <1>7 DEF CountsUnasked
  <2>2. failures'[k] \in Seq(Failure) /\ D <= C
    BY <1>3, <1>7, <2>1, AfterFailure DEF CountsUnasked
  <2>3. Q <= P /\ together'[k] = T
    BY <1>3, <1>7 DEF CountsUnasked
  <2> QED BY <1>4, <2>2, <2>3
<1>8. ASSUME NEW keys, CountsAtOnce(keys)
      PROVE  KeyOK(failures'[k], Q, together'[k], now')
  <2>1. /\ now' = now /\ Q = P /\ LetThrough(keys)
        /\ failures' = RecordFailure(failures, keys, now, TRUE)
    BY <1>8 DEF CountsAtOnce
  <2>2. failures'[k] \in Seq(Failure) /\ D <= C + 1 /\ (k \notin keys => D = C)
    BY <1>3, <2>1, AfterFailure
  <2>3. /\ together'[k] \in Nat /\ T <= together'[k]
        /\ k \notin keys => together'[k] = T
        /\ k \in keys => P <= together'[k]
    BY <2>1, AfterLetThrough
  <2>4. k \in keys => C < MaxFailures
    BY <1>1, <1>3, <1>8, RoomLeft DEF CountsAtOnce, LockedOut
  <2>5. D \in Nat
    BY <2>2, GuessesCount
  <2> HIDE DEF C, D, P, Q, T
  <2>6. Q <= together'[k] + 1 /\ D + Q <= MaxFailures + together'[k]
    BY <1>1, <1>3, <2>1, <2>2, <2>3, <2>4, <2>5
  <2> QED BY <2>2, <2>3, <2>6 DEF KeyOK, D
<1>9. ASSUME NEW keys, Begins(keys)
      PROVE  KeyOK(failures'[k], Q, together'[k], now')
  <2>1. failures'[k] = failures[k] /\ D = C /\ LetThrough(keys)
    BY <1>9 DEF Begins
  <2>2. Q \in Nat /\ Q <= P + 1 /\ (k \notin keys => Q = P)
    <3>1. PICK a : a.keys = keys /\ asking' = asking \cup {a}
      BY <1>9 DEF Begins
    <3>2. /\ Cardinality(Waiting(asking \cup {a}, k)) \in Nat
          /\ Cardinality(Waiting(asking \cup {a}, k)) <= P + 1
          /\ k \notin a.keys => Waiting(asking \cup {a}, k) = Waiting(asking, k)
      BY <1>1, WaitingCounts
    <3> QED BY <3>1, <3>2
  <2>3. /\ together'[k] \in Nat /\ T <= together'[k]
        /\ k \notin keys => together'[k] = T
        /\ k \in keys => P <= together'[k]
    BY <2>1, AfterLetThrough
  <2>4. k \in keys => C < MaxFailures
    BY <1>1, <1>3, <1>9, RoomLeft DEF Begins, LockedOut
  <2>5. failures'[k] \in Seq(Failure)
    BY <1>3, <2>1
  <2> HIDE DEF C, D, P, Q, T
  <2>6. Q <= together'[k] + 1 /\ D + Q <= MaxFailures + together'[k]
    BY <1>1, <1>3, <2>1, <2>2, <2>3, <2>4
  <2> QED BY <2>3, <2>5, <2>6 DEF KeyOK, D
<1>10. ASSUME NEW a, CountsLate(a)
       PROVE  KeyOK(failures'[k], Q, together'[k], now')
  <2>1. /\ now' = now /\ together'[k] = T /\ a \in asking /\ asking' = asking \ {a}
        /\ failures' = RecordFailure(failures, a.keys, now, TRUE)
    BY <1>10 DEF CountsLate
  <2>2. failures'[k] \in Seq(Failure) /\ D <= C + 1 /\ (k \notin a.keys => D = C)
    BY <1>3, <2>1, AfterFailure
  <2>3. Q \in Nat /\ Q <= P /\ (k \in a.keys => Q = P - 1)
    BY <1>1, <2>1, WaitingCounts
  <2>4. D \in Nat
    BY <2>2, GuessesCount
  <2> HIDE DEF C, D, P, Q, T
  <2>5. Q <= together'[k] + 1 /\ D + Q <= MaxFailures + together'[k]
    BY <1>1, <1>3, <2>1, <2>2, <2>3, <2>4
  <2> QED BY <1>3, <2>1, <2>2, <2>5 DEF KeyOK, D
<1> QED BY <1>5, <1>6, <1>7, <1>8, <1>9, <1>10 DEF ThrottleStep

LEMMA QuietThrottle ==
    ASSUME UNCHANGED <<failures, together, asking, now>>
    PROVE  ThrottleStep
BY DEF ThrottleStep, Passes

(* What every handler does to the throttle: the failures of a sign-in ask  *)
(* it first, in the same step or before an await, those of                 *)
(* passkey/complete are counted unasked, and a success, a finished         *)
(* ceremony and a cleared lockout forget.                                  *)
LEMMA NextThrottle ==
    ASSUME [Next]_vars
    PROVE  ThrottleStep
<1>1. CASE UNCHANGED vars
  BY <1>1, QuietThrottle DEF vars, sessionVars, ceremonyVars
<1>2. ASSUME NEW u \in Users, SignIn(u)
      PROVE  ThrottleStep
  <2> PICK ip \in Ips : \/ SignInFails(u, ip) \/ Login(u, ip) \/ LoginTotp(u, ip)
                        \/ LoginRecovery(u, ip) \/ BeginPasskeyLogin(u, ip)
                        \/ RefusePasskeyLogin(u, ip) \/ CompletePasskeyFails(u, ip)
    BY <1>2 DEF SignIn
  <2>1. CASE SignInFails(u, ip)
    <3>1. CountsAtOnce({u, ip})
      BY <2>1 DEF SignInFails, MayTry, CountsAtOnce
    <3> QED BY <3>1 DEF ThrottleStep
  <2>2. CASE Login(u, ip) \/ LoginTotp(u, ip) \/ LoginRecovery(u, ip)
    <3>1. Forgets
      BY <2>2 DEF Login, LoginTotp, LoginRecovery, SignedIn, Forgets, ceremonyVars
    <3> QED BY <3>1 DEF ThrottleStep
  <2>3. CASE BeginPasskeyLogin(u, ip) \/ RefusePasskeyLogin(u, ip)
    <3>1. \E granted : Ask("login", u, {u, ip}, granted)
      BY <2>3 DEF BeginPasskeyLogin, RefusePasskeyLogin
    <3>2. \E a : a.keys = {u, ip} /\ asking' = asking \cup {a}
      BY <3>1 DEF Ask
    <3>3. Begins({u, ip})
      BY <2>3, <3>2 DEF BeginPasskeyLogin, RefusePasskeyLogin, MayTry, Begins, sessionVars
    <3> QED BY <3>3 DEF ThrottleStep
  <2>4. CASE CompletePasskeyFails(u, ip)
    <3>1. CountsUnasked
      BY <2>4 DEF CompletePasskeyFails, CountsUnasked
    <3> QED BY <3>1 DEF ThrottleStep
  <2> QED BY <2>1, <2>2, <2>3, <2>4
<1>3. ASSUME NEW u \in Users, OwnAccount(u)
      PROVE  ThrottleStep
  <2>1. CASE BeginPasskeyRegistration(u)
    <3>1. \E a : a.keys = {} /\ asking' = asking \cup {a}
      BY <2>1 DEF BeginPasskeyRegistration, Ask
    <3>2. Passes
      BY <2>1, <3>1 DEF BeginPasskeyRegistration, Passes, sessionVars
    <3> QED BY <3>2 DEF ThrottleStep
  <2>2. CASE ~BeginPasskeyRegistration(u)
    BY <1>3, <2>2, QuietThrottle
       DEF OwnAccount, Arrive, RequestFails, CompletePasskeyRegistration,
           RemovePasskey, BeginMfaEnrollment, ConfirmMfaEnrollment, DisableMfa,
           RegenerateRecoveryCodes, ChangePassword, RequestPasswordReset,
           sessionVars, ceremonyVars
  <2> QED BY <2>1, <2>2
<1>4. ASSUME NEW a \in Users, NEW u \in Users, Administer(a, u)
      PROVE  ThrottleStep
  <2>1. CASE ClearLoginLockout(a, u)
    <3>1. Forgets
      BY <2>1 DEF ClearLoginLockout, Forgets, ceremonyVars
    <3> QED BY <3>1 DEF ThrottleStep
  <2>2. CASE ~ClearLoginLockout(a, u)
    BY <1>4, <2>2, QuietThrottle
       DEF Administer, Create, Disable, Enable, ResetPassword, ResetMfa, sessionVars, ceremonyVars
  <2> QED BY <2>1, <2>2
<1>5. CASE Ceremony
  <2>1. ASSUME NEW v \in verifying, NEW ip \in Ips, FinishPasskeyLogin(v, ip)
        PROVE  ThrottleStep
    <3>1. Forgets
      BY <2>1 DEF FinishPasskeyLogin, SignedIn, Forgets
    <3> QED BY <3>1 DEF ThrottleStep
  <2>2. ASSUME NEW v \in verifying, NEW ip \in Ips, PasskeyLoginUnverified(v, ip)
        PROVE  ThrottleStep
    <3>1. CountsUnasked
      BY <2>2 DEF PasskeyLoginUnverified, CountsUnasked
    <3> QED BY <3>1 DEF ThrottleStep
  <2>3. ASSUME NEW a, ChallengeIssued(a) \/ ProviderFails(a)
        PROVE  ThrottleStep
    <3>1. Passes
      BY <2>3 DEF ChallengeIssued, ProviderFails, Passes, sessionVars
    <3> QED BY <3>1 DEF ThrottleStep
  <2>4. ASSUME NEW a, BeginFails(a)
        PROVE  ThrottleStep
    <3>1. CountsLate(a)
      BY <2>4 DEF BeginFails, CountsLate
    <3> QED BY <3>1 DEF ThrottleStep
  <2>5. ASSUME NEW u, CompletePasskeyLogin(u)
        PROVE  ThrottleStep
    BY <2>5, QuietThrottle DEF CompletePasskeyLogin, sessionVars
  <2>6. ASSUME NEW v, FinishPasskeyRegistration(v) \/ CeremonyFails(v)
        PROVE  ThrottleStep
    BY <2>6, QuietThrottle DEF FinishPasskeyRegistration, CeremonyFails, sessionVars
  <2> QED BY <1>5, <2>1, <2>2, <2>3, <2>4, <2>5, <2>6 DEF Ceremony
<1>6. ASSUME NEW s, EndSession(s)
      PROVE  ThrottleStep
  BY <1>6, QuietThrottle DEF EndSession, ceremonyVars
<1>7. ASSUME NEW l, ResetPasswordWithToken(l)
      PROVE  ThrottleStep
  BY <1>7, QuietThrottle DEF ResetPasswordWithToken, ceremonyVars
<1>8. CASE Tick
  <2>1. Passes
    BY <1>8 DEF Tick, Passes, sessionVars, ceremonyVars
  <2> QED BY <2>1 DEF ThrottleStep
<1> QED BY <1>1, <1>2, <1>3, <1>4, <1>5, <1>6, <1>7, <1>8 DEF Next

(* However attempts, time, successes and cleared lockouts follow each      *)
(* other, a username or an address has at most MaxFailures failures that   *)
(* check let through within any window, and one more for each attempt      *)
(* another was let through beside - for any limits with a lockout as long  *)
(* as the window.                                                          *)
THEOREM GuessesAreBounded == Spec => []GuessesBounded
<1>1. Init => ThrottleOK
  <2> SUFFICES ASSUME Init PROVE ThrottleOK
    OBVIOUS
  <2>1. /\ asking = {} /\ failures = [k \in Keys |-> <<>>] /\ together = [k \in Keys |-> 0]
    BY DEF Init
  <2>2. \A k : Waiting({}, k) = {}
    BY DEF Waiting
  <2>3. IsFiniteSet({}) /\ Cardinality({}) = 0
    BY FS_EmptySet
  <2>4. ASSUME NEW k \in Keys
        PROVE  KeyOK(failures[k], Cardinality(Waiting(asking, k)), together[k], now)
    <3>1. failures[k] = <<>> /\ together[k] = 0 /\ Cardinality(Waiting(asking, k)) = 0
      BY <2>1, <2>2, <2>3
    <3>2. <<>> \in Seq(Failure) /\ Cardinality(GuessesIn(<<>>, now)) = 0
      BY NoGuesses
    <3>3. MaxFailures \in Nat \ {0}
      BY ThrottleAssumption
    <3> QED BY <3>1, <3>2, <3>3 DEF KeyOK
  <2> QED BY <2>1, <2>3, <2>4 DEF ThrottleOK
<1>2. AccountsTypeOK /\ ThrottleOK /\ [Next]_vars => ThrottleOK'
  BY NextThrottle, ThrottleStays
<1>3. ThrottleOK => GuessesBounded
  <2> SUFFICES ASSUME ThrottleOK, NEW k \in Keys
               PROVE  Cardinality(Guesses(k)) <= MaxFailures + together[k]
    BY DEF GuessesBounded
  <2>1. /\ failures[k] \in Seq(Failure) /\ together[k] \in Nat /\ IsFiniteSet(asking)
        /\ Cardinality(GuessesIn(failures[k], now)) + Cardinality(Waiting(asking, k))
              <= MaxFailures + together[k]
    BY DEF ThrottleOK, KeyOK
  <2>2. /\ Cardinality(GuessesIn(failures[k], now)) \in Nat
        /\ Cardinality(Waiting(asking, k)) \in Nat
    BY <2>1, GuessesCount, WaitingCounts
  <2>3. Guesses(k) = GuessesIn(failures[k], now)
    BY DEF Guesses, GuessesIn
  <2> QED BY <2>1, <2>2, <2>3, ThrottleAssumption
<1> QED BY <1>1, <1>2, <1>3, AccountTypes, PTL DEF Spec
=============================================================================
