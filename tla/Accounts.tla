------------------------------ MODULE Accounts ------------------------------
(***************************************************************************)
(* Accounts, sessions and sign-in (core/auth.ts,                           *)
(* review-ui/accounts-service.ts and their routes in review-ui/server.ts)  *)
(* with the login throttle.                                                *)
(*                                                                         *)
(* A handler runs without interruption between awaits.  An authenticated   *)
(* request resolves its session first and then awaits its body; the        *)
(* passkey ceremonies await the provider, and write back the whole user    *)
(* record they had read before.  /api/login asks the throttle and counts a *)
(* failure in one go; passkey/begin counts it after an await.              *)
(***************************************************************************)
EXTENDS LoginThrottle, FiniteSets

CONSTANTS
    Attorneys, Staff,       \* the accounts there can be, by role
    FirstAttorney,          \* the account of the first start
    Ips, Passwords, Passkeys,
    NoPassword,             \* proof of a session that was not made with a password
    ChallengeTtl, LinkTtl,  \* how long challenges and reset links are valid
    Drift,                  \* authenticator codes are valid this many steps around now
    MaxWork,                \* bound: operations, failures and steps of the clock
    MaxAsking               \* bound: handlers that await the beginning of a ceremony at once

Users == Attorneys \cup Staff
Keys  == Users \cup Ips

ASSUME AccountsAssumption ==
    /\ Attorneys \cap Staff = {} /\ FirstAttorney \in Attorneys
    /\ Users \cap Ips = {} /\ NoPassword \notin Passwords
    /\ {ChallengeTtl, LinkTtl, Drift, MaxWork, MaxAsking} \subseteq Nat

VARIABLES
    accounts,       \* the accounts that exist
    sessions,       \* live sessions; sessions alike are one
    failures,       \* the throttle
    links,          \* #passwordResetRequests
    challenges,     \* pending challenges, at most one a ceremony and user
    asking,         \* handlers that await AuthService's answer to begin a ceremony
    verifying,      \* handlers that await a verdict, with the record they read
    arrived,        \* authenticated requests that await their body, by user
    now, work,
    spent,          \* history: codes, challenges and links that were accepted
    spentTwice,     \* history: those accepted again
    undone,         \* history: what a ceremony has put back over something newer
    together        \* history: most attempts on a key under way when one more was let through

sessionVars  == <<sessions, failures>>
ceremonyVars == <<challenges, asking, verifying, undone, together>>
spentVars    == <<spent, spentTwice>>
vars == <<accounts, sessionVars, links, ceremonyVars, arrived, now, work, spentVars>>

Ceremonies == {"register", "login"}
Parts      == {"disabling", "enabling", "password", "factors"}

\* The parts of User that decide who gets in.  Secrets, sets of recovery codes, links
\* and challenges are ids, one code to a set; totp is 0 with no authenticator enrolled.
Record == [disabled : BOOLEAN, password : Passwords,
           totp : Nat, lastUsedStep : Nat, codes : SUBSET Nat,
           pendingTotp : Nat, passkeys : SUBSET Passkeys]

Fresh(password) == [disabled |-> FALSE, password |-> password,
                    totp |-> 0, lastUsedStep |-> 0, codes |-> {},
                    pendingTotp |-> 0, passkeys |-> {}]

Known == DOMAIN accounts

Enabled(u) == u \in Known /\ ~accounts[u].disabled

\* An operation; its number is the id of what it issues.
Work == work < MaxWork /\ work' = work + 1

\* The steps whose authenticator code is valid now (verifyTotp).
ValidSteps == {t \in (now - Drift) .. (now + Drift) : t > 0}

\* What is to be accepted once: a code, a challenge or a link.
Token(kind, u, id, t) == [kind |-> kind, user |-> u, id |-> id, step |-> t]

Spend(token) ==
    /\ spent' = spent \cup {token}
    /\ spentTwice' = spentTwice \cup ({token} \cap spent)

RevokeAllSessions(u) == sessions' = {s \in sessions : s.user # u}

ReplaceUser(u, record) == accounts' = [accounts EXCEPT ![u] = record]

\* A ceremony writes back the record it read: what changed meanwhile is undone.
WriteBack(u, read, written) ==
    /\ ReplaceUser(u, written)
    /\ undone' = undone \cup
           ({u} \X ({p \in {"disabling"} : accounts[u].disabled /\ ~read.disabled}
               \cup {p \in {"enabling"} : ~accounts[u].disabled /\ read.disabled}
               \cup {p \in {"password"} : accounts[u].password # read.password}
               \cup {p \in {"factors"} :
                        accounts[u] # [read EXCEPT !.disabled = accounts[u].disabled,
                                                   !.password = accounts[u].password]}))

-----------------------------------------------------------------------------
(* Sign-in.  The throttle is asked before the password is looked at.       *)

MayTry(u, ip) == ~LockedOut(failures, {u, ip}, now)

SignedIn(u, ip, proof) ==
    /\ sessions' = sessions \cup {[user |-> u, proof |-> proof]}
    /\ failures' = RecordSuccess(failures, {u, ip})

\* Handlers that passed the throttle and may still count a failure of the key.
UnderWay(k) == {a \in asking : k \in a.keys}

\* One more attempt on these keys, beside those under way.
LetThrough(keys) ==
    together' = [k \in Keys |-> IF k \in keys /\ Cardinality(UnderWay(k)) > together[k]
                                THEN Cardinality(UnderWay(k)) ELSE together[k]]

\* /api/login with a wrong password or code, or an account that is unknown or disabled.
SignInFails(u, ip) ==
    /\ Work /\ MayTry(u, ip) /\ LetThrough({u, ip})
    /\ failures' = RecordFailure(failures, {u, ip}, now, TRUE)
    /\ UNCHANGED <<accounts, sessions, links, challenges, asking, verifying, undone,
                   arrived, now, spentVars>>

Login(u, ip) ==
    /\ Work /\ MayTry(u, ip) /\ Enabled(u)
    /\ accounts[u].totp = 0 /\ accounts[u].passkeys = {}
    /\ SignedIn(u, ip, accounts[u].password)
    /\ UNCHANGED <<accounts, links, ceremonyVars, arrived, now, spentVars>>

\* Mutant: the last step is accepted again.
UnusedOrLast(u, t) == t >= accounts[u].lastUsedStep

\* #consumeSecondFactor: the step must be later than the last one used.
Unused(u, t) == t > accounts[u].lastUsedStep

LoginTotp(u, ip) ==
    /\ Work /\ MayTry(u, ip) /\ Enabled(u) /\ accounts[u].totp # 0
    /\ \E t \in ValidSteps :
        /\ Unused(u, t)
        /\ ReplaceUser(u, [accounts[u] EXCEPT !.lastUsedStep = t])
        /\ Spend(Token("totp", u, accounts[u].totp, t))
    /\ SignedIn(u, ip, accounts[u].password)
    /\ UNCHANGED <<links, ceremonyVars, arrived, now>>

LoginRecovery(u, ip) ==
    /\ Work /\ MayTry(u, ip) /\ Enabled(u) /\ accounts[u].totp # 0
    /\ \E c \in accounts[u].codes :
        /\ ReplaceUser(u, [accounts[u] EXCEPT !.codes = @ \ {c}])
        /\ Spend(Token("recovery", u, c, 0))
    /\ SignedIn(u, ip, accounts[u].password)
    /\ UNCHANGED <<links, ceremonyVars, arrived, now>>

\* /api/logout, and a session that is found to have expired.
EndSession(s) ==
    /\ sessions' = sessions \ {s}
    /\ UNCHANGED <<accounts, failures, links, ceremonyVars, arrived, now, work, spentVars>>

-----------------------------------------------------------------------------
(* The passkey ceremonies: ask for a challenge, issue it, read the record  *)
(* and spend the challenge, and write the record back on the verdict.      *)

Pending(ceremony, u) == {c \in challenges : c.ceremony = ceremony /\ c.user = u}
Unexpired(pending)   == {c \in pending : c.expires >= now}

\* To begin a ceremony, in a handler that counts a failure of these keys.  What
\* AuthService refuses at once reaches the handler only after its await.
Ask(ceremony, u, keys, granted) ==
    /\ Cardinality(asking) < MaxAsking
    /\ asking' = asking \cup {[ceremony |-> ceremony, user |-> u, id |-> work',
                               keys |-> keys, granted |-> granted]}

\* Each handler issues its challenge when the provider has answered, in whatever order.
ChallengeIssued(a) ==
    /\ a \in asking /\ a.granted /\ asking' = asking \ {a}
    /\ challenges' = (challenges \ Pending(a.ceremony, a.user)) \cup
           {[ceremony |-> a.ceremony, user |-> a.user, id |-> a.id, expires |-> now + ChallengeTtl]}
    /\ UNCHANGED <<accounts, sessionVars, links, verifying, undone, together, arrived, now,
                   work, spentVars>>

\* The provider fails, which counts as no failure of the keys.
ProviderFails(a) ==
    /\ a \in asking /\ a.granted /\ asking' = asking \ {a}
    /\ UNCHANGED <<accounts, sessionVars, links, challenges, verifying, undone, together,
                   arrived, now, work, spentVars>>

BeginPasskeyLogin(u, ip) ==
    /\ Work /\ MayTry(u, ip) /\ LetThrough({u, ip})
    /\ Enabled(u) /\ accounts[u].passkeys # {}
    /\ Ask("login", u, {u, ip}, TRUE)
    /\ UNCHANGED <<accounts, sessionVars, links, challenges, verifying, undone,
                   arrived, now, spentVars>>

\* A wrong password, an account that is unknown or disabled or has no passkey.
RefusePasskeyLogin(u, ip) ==
    /\ Work /\ MayTry(u, ip) /\ LetThrough({u, ip})
    /\ Ask("login", u, {u, ip}, FALSE)
    /\ UNCHANGED <<accounts, sessionVars, links, challenges, verifying, undone,
                   arrived, now, spentVars>>

\* Refused, or answered without a challenge.  The failure is counted now, whatever
\* the throttle would say by now.
BeginFails(a) ==
    /\ a \in asking /\ asking' = asking \ {a}
    /\ failures' = RecordFailure(failures, a.keys, now, TRUE)
    /\ UNCHANGED <<accounts, sessions, links, challenges, verifying, undone, together,
                   arrived, now, work, spentVars>>

\* Mutant: it is deleted only by the next one.
RedeemAgain(ceremony, u, redeemed) ==
    /\ challenges' = challenges
    /\ verifying' = verifying \cup
           {[ceremony |-> ceremony, user |-> u, id |-> c.id, read |-> accounts[u]] : c \in redeemed}

\* The pending challenge is deleted before the provider is asked.
Redeem(ceremony, u, redeemed) ==
    /\ challenges' = challenges \ Pending(ceremony, u)
    /\ verifying' = verifying \cup
           {[ceremony |-> ceremony, user |-> u, id |-> c.id, read |-> accounts[u]] : c \in redeemed}

CompletePasskeyLogin(u) ==
    /\ Enabled(u) /\ accounts[u].passkeys # {}
    /\ Unexpired(Pending("login", u)) # {}
    /\ Redeem("login", u, Unexpired(Pending("login", u)))
    /\ UNCHANGED <<accounts, sessionVars, links, asking, undone, together, arrived, now, work,
                   spentVars>>

\* Without a valid challenge or a known passkey.  The throttle counts it and is not asked.
CompletePasskeyFails(u, ip) ==
    /\ Work
    /\ challenges' = IF Enabled(u) THEN challenges \ Pending("login", u) ELSE challenges
    /\ failures' = RecordFailure(failures, {u, ip}, now, FALSE)
    /\ UNCHANGED <<accounts, sessions, links, asking, verifying, undone, together, arrived, now,
                   spentVars>>

FinishPasskeyLogin(v, ip) ==
    /\ v \in verifying /\ v.ceremony = "login" /\ verifying' = verifying \ {v}
    /\ WriteBack(v.user, v.read, v.read)
    /\ Spend(Token("challenge", v.user, v.id, 0))
    /\ SignedIn(v.user, ip, NoPassword)
    /\ UNCHANGED <<links, challenges, asking, together, arrived, now, work>>

PasskeyLoginUnverified(v, ip) ==
    /\ v \in verifying /\ v.ceremony = "login" /\ verifying' = verifying \ {v}
    /\ failures' = RecordFailure(failures, {v.user, ip}, now, FALSE)
    /\ UNCHANGED <<accounts, sessions, links, challenges, asking, undone, together, arrived, now,
                   work, spentVars>>

\* A registration that is not verified, and a provider that fails.
CeremonyFails(v) ==
    /\ v \in verifying /\ verifying' = verifying \ {v}
    /\ UNCHANGED <<accounts, sessionVars, links, challenges, asking, undone, together, arrived,
                   now, work, spentVars>>

-----------------------------------------------------------------------------
(* What an account's holder does to it.  The session is resolved when the  *)
(* request arrives, the handler acts when its body has: who has lost the   *)
(* session meanwhile still acts.  Where the handler asks for the password, *)
(* it is the one at the time it acts.                                      *)

Arrive(u) ==
    /\ \E s \in sessions : s.user = u
    /\ arrived' = arrived \cup {u}
    /\ UNCHANGED <<accounts, sessionVars, links, ceremonyVars, now, work, spentVars>>

\* The body is refused, or what it asks for is.
RequestFails(u) ==
    /\ u \in arrived /\ arrived' = arrived \ {u}
    /\ UNCHANGED <<accounts, sessionVars, links, ceremonyVars, now, work, spentVars>>

Handle(u) == Work /\ u \in arrived /\ arrived' = arrived \ {u}

BeginPasskeyRegistration(u) ==
    /\ Handle(u)
    /\ Ask("register", u, {}, TRUE)
    /\ UNCHANGED <<accounts, sessionVars, links, challenges, verifying, undone, together, now,
                   spentVars>>

\* With an expired challenge only the challenge goes.
CompletePasskeyRegistration(u) ==
    /\ u \in arrived /\ arrived' = arrived \ {u}
    /\ Redeem("register", u, Unexpired(Pending("register", u)))
    /\ UNCHANGED <<accounts, sessionVars, links, asking, undone, together, now, work, spentVars>>

FinishPasskeyRegistration(v) ==
    /\ v \in verifying /\ v.ceremony = "register" /\ verifying' = verifying \ {v}
    /\ \E k \in Passkeys : WriteBack(v.user, v.read, [v.read EXCEPT !.passkeys = @ \cup {k}])
    /\ Spend(Token("challenge", v.user, v.id, 0))
    /\ UNCHANGED <<sessionVars, links, challenges, asking, together, arrived, now, work>>

\* Sessions end only with the last factor.
RemovePasskey(u) ==
    /\ Handle(u)
    /\ \E k \in accounts[u].passkeys :
        /\ ReplaceUser(u, [accounts[u] EXCEPT !.passkeys = @ \ {k}])
        /\ IF accounts[u].totp = 0 /\ accounts[u].passkeys = {k}
           THEN RevokeAllSessions(u) ELSE UNCHANGED sessions
    /\ UNCHANGED <<failures, links, ceremonyVars, now, spentVars>>

BeginMfaEnrollment(u) ==
    /\ Handle(u) /\ accounts[u].totp = 0
    /\ ReplaceUser(u, [accounts[u] EXCEPT !.pendingTotp = work'])
    /\ UNCHANGED <<sessionVars, links, ceremonyVars, now, spentVars>>

\* The code that confirms counts as used.
ConfirmMfaEnrollment(u) ==
    /\ Handle(u) /\ accounts[u].totp = 0 /\ accounts[u].pendingTotp # 0
    /\ \E t \in ValidSteps :
        /\ ReplaceUser(u, [accounts[u] EXCEPT !.totp = accounts[u].pendingTotp, !.pendingTotp = 0,
                                              !.lastUsedStep = t, !.codes = {work'}])
        /\ Spend(Token("totp", u, accounts[u].pendingTotp, t))
    /\ UNCHANGED <<sessionVars, links, ceremonyVars, now>>

WithoutTotp(record) ==
    [record EXCEPT !.totp = 0, !.lastUsedStep = 0, !.codes = {}, !.pendingTotp = 0]

DisableMfa(u) ==
    /\ Handle(u)
    /\ ReplaceUser(u, WithoutTotp(accounts[u]))
    /\ RevokeAllSessions(u)
    /\ UNCHANGED <<failures, links, ceremonyVars, now, spentVars>>

RegenerateRecoveryCodes(u) ==
    /\ Handle(u) /\ accounts[u].totp # 0
    /\ ReplaceUser(u, [accounts[u] EXCEPT !.codes = {work'}])
    /\ UNCHANGED <<sessionVars, links, ceremonyVars, now, spentVars>>

\* Mutant: the account starts afresh.
ApplyNewPasswordFresh(u, password) ==
    /\ ReplaceUser(u, Fresh(password))
    /\ RevokeAllSessions(u)

\* Mutant: its sessions live on.
ApplyNewPasswordUnrevoked(u, password) ==
    /\ ReplaceUser(u, [accounts[u] EXCEPT !.password = password])
    /\ UNCHANGED sessions

ApplyNewPassword(u, password) ==
    /\ ReplaceUser(u, [accounts[u] EXCEPT !.password = password])
    /\ RevokeAllSessions(u)

ChangePassword(u) ==
    /\ Handle(u)
    /\ \E p \in Passwords : ApplyNewPassword(u, p)
    /\ UNCHANGED <<failures, links, ceremonyVars, now, spentVars>>

\* An unknown or a disabled account gets no link; expired ones go either way.
RequestPasswordReset(u) ==
    /\ Work
    /\ links' = {l \in links : l.expires >= now} \cup
           {[id |-> work', user |-> w, expires |-> now + LinkTtl, used |-> FALSE] :
                w \in {w \in {u} : Enabled(w)}}
    /\ UNCHANGED <<accounts, sessionVars, ceremonyVars, arrived, now, spentVars>>

\* The link is enough, also for an account that was disabled since.
ResetPasswordWithToken(l) ==
    /\ Work /\ l \in links /\ ~l.used /\ l.expires >= now
    /\ links' = (links \ {l}) \cup {[l EXCEPT !.used = TRUE]}
    /\ \E p \in Passwords : ApplyNewPassword(l.user, p)
    /\ Spend(Token("link", l.user, l.id, 0))
    /\ UNCHANGED <<failures, ceremonyVars, arrived, now>>

-----------------------------------------------------------------------------
(* What an attorney does to accounts.  The role, too, is the one of the    *)
(* session that was resolved when the request arrived.                     *)

Create(a, u) ==
    /\ Handle(a) /\ a \in Attorneys /\ u \notin Known
    /\ \E p \in Passwords :
        accounts' = [w \in Known \cup {u} |-> IF w = u THEN Fresh(p) ELSE accounts[w]]
    /\ UNCHANGED <<sessionVars, links, ceremonyVars, now, spentVars>>

\* Mutant: another attorney, enabled or not.
MayDisableBesides(u) ==
    u \in Attorneys => (Known \cap Attorneys) \ {u} # {}

\* setDisabled: another enabled attorney must remain.
MayDisable(u) ==
    u \in Attorneys => \E w \in (Known \cap Attorneys) \ {u} : ~accounts[w].disabled

Disable(a, u) ==
    /\ Handle(a) /\ a \in Attorneys /\ u \in Known /\ MayDisable(u)
    /\ ReplaceUser(u, [accounts[u] EXCEPT !.disabled = TRUE])
    /\ RevokeAllSessions(u)
    /\ UNCHANGED <<failures, links, ceremonyVars, now, spentVars>>

Enable(a, u) ==
    /\ Handle(a) /\ a \in Attorneys /\ u \in Known
    /\ ReplaceUser(u, [accounts[u] EXCEPT !.disabled = FALSE])
    /\ UNCHANGED <<sessionVars, links, ceremonyVars, now, spentVars>>

ResetPassword(a, u) ==
    /\ Handle(a) /\ a \in Attorneys /\ u \in Known
    /\ \E p \in Passwords : ApplyNewPassword(u, p)
    /\ UNCHANGED <<failures, links, ceremonyVars, now, spentVars>>

\* resetAllSecondFactors
ResetMfa(a, u) ==
    /\ Handle(a) /\ a \in Attorneys /\ u \in Known
    /\ ReplaceUser(u, [WithoutTotp(accounts[u]) EXCEPT !.passkeys = {}])
    /\ RevokeAllSessions(u)
    /\ UNCHANGED <<failures, links, ceremonyVars, now, spentVars>>

ClearLoginLockout(a, u) ==
    /\ Handle(a) /\ a \in Attorneys
    /\ failures' = RecordSuccess(failures, {u})
    /\ UNCHANGED <<accounts, sessions, links, ceremonyVars, now, spentVars>>

-----------------------------------------------------------------------------
Tick ==
    /\ Work
    /\ now' = now + 1
    /\ UNCHANGED <<accounts, sessionVars, links, ceremonyVars, arrived, spentVars>>

Init ==
    /\ \E p \in Passwords : accounts = [u \in {FirstAttorney} |-> Fresh(p)]
    /\ failures = [k \in Keys |-> <<>>] /\ together = [k \in Keys |-> 0]
    /\ now = 1 /\ work = 0
    /\ sessions = {} /\ links = {} /\ challenges = {} /\ asking = {} /\ verifying = {}
    /\ arrived = {} /\ spent = {} /\ spentTwice = {} /\ undone = {}

SignIn(u) ==
    \E ip \in Ips :
        \/ SignInFails(u, ip) \/ Login(u, ip) \/ LoginTotp(u, ip) \/ LoginRecovery(u, ip)
        \/ BeginPasskeyLogin(u, ip) \/ RefusePasskeyLogin(u, ip) \/ CompletePasskeyFails(u, ip)

Ceremony ==
    \/ \E a \in asking : ChallengeIssued(a) \/ ProviderFails(a) \/ BeginFails(a)
    \/ \E u \in Users : CompletePasskeyLogin(u)
    \/ \E v \in verifying :
        \/ FinishPasskeyRegistration(v) \/ CeremonyFails(v)
        \/ \E ip \in Ips : FinishPasskeyLogin(v, ip) \/ PasskeyLoginUnverified(v, ip)

OwnAccount(u) ==
    \/ Arrive(u) \/ RequestFails(u)
    \/ BeginPasskeyRegistration(u) \/ CompletePasskeyRegistration(u) \/ RemovePasskey(u)
    \/ BeginMfaEnrollment(u) \/ ConfirmMfaEnrollment(u) \/ DisableMfa(u)
    \/ RegenerateRecoveryCodes(u) \/ ChangePassword(u) \/ RequestPasswordReset(u)

Administer(a, u) ==
    \/ Create(a, u) \/ Disable(a, u) \/ Enable(a, u)
    \/ ResetPassword(a, u) \/ ResetMfa(a, u) \/ ClearLoginLockout(a, u)

Next ==
    \/ \E u \in Users : SignIn(u) \/ OwnAccount(u)
    \/ \E s \in sessions : EndSession(s)
    \/ \E l \in links : ResetPasswordWithToken(l)
    \/ \E a, u \in Users : Administer(a, u)
    \/ Ceremony
    \/ Tick

Spec == Init /\ [][Next]_vars

-----------------------------------------------------------------------------
\* A second factor is enrolled or pending, never both.
UserOK(record) ==
    /\ record \in Record
    /\ record.totp # 0 => record.pendingTotp = 0
    /\ record.totp = 0 => record.lastUsedStep = 0 /\ record.codes = {}

(* Types, and what replaceUser keeps of a record however it is put         *)
(* together: an authenticator that is confirmed has no pending secret, and *)
(* one that is turned off leaves no codes.                                 *)
AccountsTypeOK ==
    /\ Known \subseteq Users /\ \A u \in Known : UserOK(accounts[u])
    /\ sessions \subseteq [user : Known, proof : Passwords \cup {NoPassword}]
    /\ DOMAIN failures = Keys
    /\ links \subseteq [id : Nat, user : Known, expires : Nat, used : BOOLEAN]
    /\ challenges \subseteq [ceremony : Ceremonies, user : Known, id : Nat, expires : Nat]
    /\ asking \subseteq [ceremony : Ceremonies, user : Users, id : Nat,
                         keys : SUBSET Keys, granted : BOOLEAN]
    /\ \A a \in asking : a.granted => a.user \in Known
    /\ \A v \in verifying :
        /\ v \in [ceremony : Ceremonies, user : Known, id : Nat, read : Record]
        /\ UserOK(v.read)
    /\ arrived \subseteq Known
    /\ undone \subseteq Users \X Parts
    /\ now \in Nat /\ work \in 0 .. MaxWork

Undid(u, part) == <<u, part>> \in undone

(* Someone can always run the firm: whoever disables whom, also through    *)
(* requests that were under way when their sender was disabled, one        *)
(* attorney stays enabled - unless a ceremony wrote a record back that was *)
(* read before the account was enabled, which setDisabled's check never    *)
(* sees.                                                                   *)
AnAttorneyRemains ==
    \/ \E a \in Attorneys : Enabled(a)
    \/ \E a \in Attorneys : Undid(a, "enabling")

(* A session is one its user could still get: it was made with the         *)
(* password the account has now, and the account is not disabled - however *)
(* sign-ins, resets, links and disabling interleave, save for what a       *)
(* ceremony undid.                                                         *)
SessionsAreCurrent ==
    \A s \in sessions :
        /\ accounts[s.user].disabled => Undid(s.user, "enabling")
        /\ s.proof \in {accounts[s.user].password, NoPassword} \/ Undid(s.user, "password")

(* No link and no challenge is accepted twice, and no code is, except      *)
(* where a ceremony put back the factors it had read before the code was   *)
(* spent.                                                                  *)
AcceptedOnce ==
    \A x \in spentTwice : x.kind \in {"totp", "recovery"} /\ Undid(x.user, "factors")

(* Nobody gets more guesses than the throttle allows, however attempts,    *)
(* time, successes and cleared lockouts follow each other: a username or   *)
(* an address whose attempts came one at a time has at most MaxFailures    *)
(* failures within the window, and one more for each attempt another was   *)
(* let through beside: passkey/begin asks the throttle, awaits and then    *)
(* counts, so an attempt under way with it does not see its failure.  The  *)
(* failures of passkey/complete, which does not ask, come on top.          *)
Guesses(k) ==
    {i \in DOMAIN failures[k] : failures[k][i].checked /\ failures[k][i].at > now - Window}

GuessesBounded ==
    \A k \in Keys : Cardinality(Guesses(k)) <= MaxFailures + together[k]

(* Once disabled an account stays so until an attorney enables it: no      *)
(* reset, link or change of a factor brings it back.  A ceremony that read *)
(* the record before does (undone).                                        *)
DisabledUntilEnabled ==
    [][\A u \in Known :
        accounts[u].disabled /\ ~accounts'[u].disabled =>
            \/ \E a \in Attorneys : Enable(a, u)
            \/ <<u, "disabling">> \in undone']_vars
=============================================================================
