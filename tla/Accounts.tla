------------------------------- MODULE Accounts -------------------------------
(***************************************************************************)
(* AuthService, PasskeyService and the /v1/auth and /v1/me routes: the     *)
(* accounts behind one email address, their sessions, the links they are   *)
(* mailed and their passkeys.                                              *)
(*                                                                         *)
(* Each request runs its program on Handlers.  The tables are SqlStore's:  *)
(* an UPDATE brings no row back (MemoryStore's would).                     *)
(***************************************************************************)
EXTENDS Handlers

CONSTANTS
    User, Session, Link,      \* ids: of users, sessions, mailed links
    Credential, Challenge,    \* ids: of passkeys, of WebAuthn challenges
    Overlap,        \* may credential changes of one account overlap?
    MaxPasswords    \* bound on the passwords chosen

Request == {"register", "verify", "forgot", "reset", "login", "change",
            "logoutAll", "logout", "refresh", "delete", "passkeyOptions",
            "passkeyEnrol", "passkeyChallenge", "passkeyLogin", "passkeyRemove",
            "askConfirmation", "confirm"}

\* A row of users; passwords are numbered in the order they were chosen.
UserRow == [tv : Nat, password : Nat, verified : BOOLEAN]

\* A mailed link: a pending registration, a password reset or a confirmation.
LinkRow == [kind : {"pending", "reset", "confirm"}, user : User \cup {None},
            live : BOOLEAN, password : Nat, epoch : Nat]

\* What a client was handed for a session, or after the first of two factors.
Token == [user : User, tv : Nat, proof : Nat]

CredentialRow == [user : User, count : Nat, live : BOOLEAN]
ChallengeRow  == [user : User, kind : {"register", "authenticate"}, live : BOOLEAN]

ASSUME AccountsAssumption ==
    /\ None \notin User \cup Session \cup Link \cup Credential \cup Challenge \cup Handler
    /\ None \notin UserRow \cup LinkRow \cup CredentialRow \cup ChallengeRow \cup Token
    /\ User # {} /\ Overlap \in BOOLEAN
    /\ Mixes \subseteq [requests : SUBSET Request, account : BOOLEAN,
                       passkeys : SUBSET Credential, counted : Nat,
                       counts : SUBSET Nat, failures : Nat]
    /\ MaxPasswords \in Nat \ {0}

VARIABLES
    users,        \* id |-> row or None
    sessions,     \* id |-> "none", "live" or "revoked"
    links,        \* id |-> row or None
    creds,        \* id |-> row or None
    challenges,   \* id |-> row or None
    \* What clients hold.
    tokens,       \* session |-> the token for it, or None
    mfa,          \* mfa tokens handed out
    \* Auxiliary: no action decides by them.
    passwords,    \* how many were chosen
    erased,       \* users whose account was deleted
    settled,      \* challenge |-> how many ceremonies it settled
    bornLate,     \* users created by a link from before an erasure
    resting       \* passkey |-> its counter when last it had no sign-in under way

store   == <<users, sessions, links, creds, challenges>>
held    == <<tokens, mfa>>
history == <<passwords, erased, settled, bornLate, resting>>
vars    == <<store, held, history, control>>

-----------------------------------------------------------------------------
(* Handlers. *)

\* Who asks, with which token; what was typed, chosen or received; rows read.
Blank == [op |-> "none", user |-> None, session |-> None, tv |-> 0, proof |-> 0,
          typed |-> 0, new |-> 0, target |-> None, link |-> None,
          challenge |-> None, cred |-> None, count |-> 0,
          row |-> None, challengeRow |-> None, credRow |-> None, listed |-> {}]

Read(h, step, ok, c) == /\ At(h, step)
                        /\ Check(h, ok, c)
                        /\ UNCHANGED <<store, held, history>>

-----------------------------------------------------------------------------
(* The programs, named for the functions and routes they translate. *)

\* userPrincipal: token, user row, session row; then the body is read.
requireUser == <<"wait", "checkVersion", "checkSession", "wait">>

requestRegistration == <<"wait", "noUser", "burnPending", "wait", "createPending">>

completeSignUp == <<"wait", "readPending", "useLink", "burnPending", "noUser",
                    "createUser", "startSession">>

requestEmailVerification == <<"findUser", "unconfirmed", "burnConfirm", "wait",
                              "createConfirm">>

confirmAddress == <<"wait", "readConfirm", "readUser", "useLink", "burnConfirm",
                    "writeConfirmed">>

requestPasswordReset == <<"findUser", "burnResets", "wait", "createReset">>

resetPassword == <<"wait", "readReset", "readUser", "wait", "useLink",
                   "burnResets", "listSessions", "revokeSessions",
                   "writePassword", "startSession">>

\* The password, and then a session or, with a passkey enrolled, an mfa token.
login == <<"findUser", "verifyPassword", "listPasskeys", "startSession">>

changePassword == requireUser \o <<"readUser", "verifyPassword", "wait",
                  "listSessions", "revokeSessions", "writePassword", "startSession">>

revokeAllSessions == requireUser \o <<"readUser", "listSessions", "revokeSessions",
                                      "writeVersion">>

revokeSession == requireUser \o <<"readTarget", "revokeTarget">>

\* Mutant: the new tokens are signed between the read and the write.
refreshLate == <<"wait", "checkVersion", "checkSession", "wait", "touchSession">>

refreshSession == <<"wait", "checkVersion", "checkSession", "touchSession">>

\* Mutant: links that are not for an account are forgotten.
eraseWithoutPending == <<"eraseSessions", "eraseCreds", "eraseChallenges",
                         "burnResets", "burnConfirm", "eraseUser">>

\* Statement by statement; the families go first (Families).
deleteUserCascade == <<"eraseSessions", "eraseCreds", "eraseChallenges",
                       "burnResets", "burnConfirm", "burnPending", "eraseUser">>

deleteAccount == requireUser \o <<"readUser", "verifyPassword">> \o deleteUserCascade

registerOptions == requireUser \o <<"createChallenge">>

\* Mutant: the challenge is deleted when the ceremony is over.
spendLate == <<"readChallenge", "checkChallenge", "wait", "deleteChallenge">>

spendChallenge == <<"readChallenge", "deleteChallenge", "checkChallenge">>

register == requireUser \o spendChallenge \o <<"verifyAttestation", "createCred">>

loginOptions == <<"wait", "checkVersion", "hasPasskeys", "createChallenge">>

passkeyLogin == <<"wait", "checkVersion", "wait">> \o spendChallenge
                \o <<"readCred", "verifyAssertion", "writeCred", "startSession">>

\* Mutant: the list is not looked at.
removeAnyPasskey == requireUser \o <<"readCred", "deleteCred">>

remove == requireUser \o <<"readCred", "notTheLast", "deleteCred">>

Program == [
    register |-> requestRegistration, verify |-> completeSignUp,
    askConfirmation |-> requestEmailVerification, confirm |-> confirmAddress,
    forgot |-> requestPasswordReset, reset |-> resetPassword, login |-> login,
    change |-> changePassword, logoutAll |-> revokeAllSessions,
    logout |-> revokeSession, refresh |-> refreshSession, delete |-> deleteAccount,
    passkeyOptions |-> registerOptions, passkeyEnrol |-> register,
    passkeyChallenge |-> loginOptions, passkeyLogin |-> passkeyLogin,
    passkeyRemove |-> remove]

-----------------------------------------------------------------------------
(* Requests. *)

\* Requests that write back an account they read before a wait.
Changes == {"reset", "change", "logoutAll", "confirm"}

\* No sign-in with the passkey is under way.
AtRest(d) == \A h \in Handler : call[h].op = "passkeyLogin" => call[h].cred # d

Accept(h, op, c) ==
    /\ op \in mix.requests
    /\ Overlap \/ op \notin Changes \/ \A g \in Handler : call[g].op \notin Changes
    /\ Start(h, Program[op], [c EXCEPT !.op = op])
    /\ resting' = IF op = "passkeyLogin" /\ AtRest(c.cred) /\ creds[c.cred] # None
                  THEN [resting EXCEPT ![c.cred] = creds[c.cred].count] ELSE resting
    /\ UNCHANGED <<store, tokens, mfa, erased, settled, bornLate>>

NewPassword == passwords < MaxPasswords /\ passwords' = passwords + 1

\* Without a token: sign up, sign in, ask for or follow a mailed link.
Anonymous(h) ==
    \/ /\ NewPassword
       /\ \/ Accept(h, "register", [Blank EXCEPT !.new = passwords'])
          \/ \E l \in Link : links[l] # None /\
                Accept(h, "reset", [Blank EXCEPT !.link = l, !.new = passwords'])
    \/ /\ UNCHANGED passwords
       /\ \/ \E op \in {"forgot", "askConfirmation"} : Accept(h, op, Blank)
          \/ \E op \in {"verify", "confirm"}, l \in Link : links[l] # None /\
                Accept(h, op, [Blank EXCEPT !.link = l])
          \/ \E n \in 1 .. passwords :
                Accept(h, "login", [Blank EXCEPT !.typed = n])

Bearer(t) == [Blank EXCEPT !.user = t.user, !.tv = t.tv, !.proof = t.proof]

\* With the token of a session.
SignedIn(h) ==
    \E s \in {x \in Session : tokens[x] # None} :
        LET c == [Bearer(tokens[s]) EXCEPT !.session = s] IN
        \/ /\ NewPassword
           /\ \E n \in 1 .. passwords :
                Accept(h, "change", [c EXCEPT !.typed = n, !.new = passwords'])
        \/ /\ UNCHANGED passwords
           /\ \/ \E op \in {"logoutAll", "refresh", "passkeyOptions"} : Accept(h, op, c)
              \/ \E n \in 1 .. passwords : Accept(h, "delete", [c EXCEPT !.typed = n])
              \/ \E x \in Session : Accept(h, "logout", [c EXCEPT !.target = x])
              \/ \E k \in Challenge, d \in Credential : creds[d] = None /\
                    Accept(h, "passkeyEnrol", [c EXCEPT !.challenge = k, !.cred = d])
              \/ \E d \in Credential : Accept(h, "passkeyRemove", [c EXCEPT !.cred = d])

\* The second half of a sign-in; a copied authenticator or an assertion held
\* back reports any count.
SecondFactor(h) ==
    \E t \in mfa :
        /\ UNCHANGED passwords
        /\ \/ Accept(h, "passkeyChallenge", Bearer(t))
           \/ \E k \in Challenge, d \in Credential, n \in mix.counts :
                Accept(h, "passkeyLogin",
                       [Bearer(t) EXCEPT !.challenge = k, !.cred = d, !.count = n])

-----------------------------------------------------------------------------
(* Steps that read and check. *)

Accounts == {u \in User : users[u] # None}     \* at the one address
Passkeys(u) == {d \in Credential : Live(creds, d) /\ creds[d].user = u}
SessionsOf(u) == {s \in Session : sessions[s] = "live" /\ tokens[s].user = u}

ReadAccount(h) ==
    LET c == call[h] IN
    \/ Read(h, "wait", TRUE, c)
    \/ Read(h, "noUser", Accounts = {}, c)
    \/ \E u \in User : /\ Accounts \in {{}, {u}}
                       /\ Read(h, "findUser", Accounts # {},
                               [c EXCEPT !.user = u, !.row = users[u]])
    \/ Read(h, "readUser", users[c.user] # None, [c EXCEPT !.row = users[c.user]])
    \/ Read(h, "checkVersion", users[c.user] # None /\ users[c.user].tv = c.tv,
            [c EXCEPT !.row = users[c.user]])
    \/ Read(h, "checkSession", sessions[c.session] = "live", c)
    \/ Read(h, "listSessions", TRUE, [c EXCEPT !.listed = SessionsOf(c.user)])
    \/ Read(h, "readTarget",
            sessions[c.target] # "none" /\ tokens[c.target].user = c.user, c)
    \/ Read(h, "unconfirmed", ~c.row.verified, c)
    \/ Read(h, "verifyPassword", c.typed = c.row.password, [c EXCEPT !.proof = c.typed])

ReadLink(h) ==
    LET c == call[h]
        link == links[c.link] IN
    \/ Read(h, "readPending", link.live /\ link.kind = "pending",
            [c EXCEPT !.new = link.password])
    \/ Read(h, "readReset", link.live /\ link.kind = "reset",
            [c EXCEPT !.user = link.user])
    \/ Read(h, "readConfirm", link.live /\ link.kind = "confirm",
            [c EXCEPT !.user = link.user])

\* What the ceremony is for; a challenge is bound to it and to the account.
Purpose(op) == IF op \in {"passkeyEnrol", "passkeyOptions"} THEN "register"
                                                          ELSE "authenticate"

ReadPasskey(h) ==
    LET c == call[h]
        row == c.challengeRow IN
    \/ Read(h, "readChallenge", Live(challenges, c.challenge),
            [c EXCEPT !.challengeRow = challenges[c.challenge]])
    \/ Read(h, "checkChallenge", row.kind = Purpose(c.op) /\ row.user = c.user, c)
    \/ Read(h, "readCred", Live(creds, c.cred) /\ creds[c.cred].user = c.user,
            [c EXCEPT !.credRow = creds[c.cred]])
    \/ Read(h, "hasPasskeys", Passkeys(c.user) # {}, c)
    \/ Read(h, "notTheLast", Cardinality(Passkeys(c.user)) > 1, c)

-----------------------------------------------------------------------------
(* Steps that write accounts, sessions and links. *)

\* One table changes to "new"; an UPDATE finds its row or does nothing.
Write(h, step, c) == At(h, step) /\ GoOn(h, c) /\ UNCHANGED mfa

\* Mutant: the version stays.
WithoutBump(row, p) == [row EXCEPT !.password = p]

WithPassword(row, p) == [row EXCEPT !.password = p, !.tv = @ + 1]
Update(u, row) == IF users[u] = None THEN users ELSE [users EXCEPT ![u] = row]

\* A second tap on the link of an account that is confirmed writes nothing.
Confirm(c) == IF c.row.verified THEN users
              ELSE Update(c.user, [c.row EXCEPT !.verified = TRUE])

\* The row goes back whole, as it was read before the wait.
UpdateUser(h) ==
    LET c == call[h]
        Put(step, row, d) == /\ Write(h, step, [d EXCEPT !.row = row])
                             /\ users' = Update(c.user, row) IN
    /\ \/ Put("writePassword", WithPassword(c.row, c.new), [c EXCEPT !.proof = c.new])
       \/ Put("writeVersion", [c.row EXCEPT !.tv = @ + 1], c)
       \/ /\ Write(h, "writeConfirmed", [c EXCEPT !.row.verified = TRUE])
          /\ users' = Confirm(c)
    /\ UNCHANGED <<sessions, links, creds, challenges, tokens, history>>

\* users.email is UNIQUE in SQL: the INSERT of a second account throws.
createUser(h) ==
    LET c == call[h]
        u == CHOOSE x \in User \ erased : users[x] = None
        row == [tv |-> 0, password |-> c.new, verified |-> TRUE] IN
    /\ \E x \in User \ erased : users[x] = None
    /\ At(h, "createUser")
    /\ Check(h, Accounts = {}, [c EXCEPT !.user = u, !.row = row, !.proof = c.new])
    /\ users' = IF Accounts = {} THEN [users EXCEPT ![u] = row] ELSE users
    /\ bornLate' = IF Accounts = {} /\ links[c.link].epoch < Cardinality(erased)
                   THEN bornLate \cup {u} ELSE bornLate
    /\ UNCHANGED <<sessions, links, creds, challenges, held>>
    /\ UNCHANGED <<passwords, erased, settled, resting>>

\* Mutant: an unconfirmed account gets the row and no tokens.
MintedIfVerified(c) ==
    IF c.row.verified THEN [user |-> c.user, tv |-> c.row.tv, proof |-> c.proof] ELSE None

\* The tokens are minted for the row the handler holds, not for the row there is.
Minted(c) == [user |-> c.user, tv |-> c.row.tv, proof |-> c.proof]

startSession(h) ==
    LET c == call[h]
        s == Fresh(tokens) IN
    /\ HasFresh(tokens)
    /\ Write(h, "startSession", c)
    /\ sessions' = [sessions EXCEPT ![s] = "live"]
    /\ tokens' = [tokens EXCEPT ![s] = Minted(c)]
    /\ UNCHANGED <<users, links, creds, challenges, history>>

\* With a passkey enrolled the password alone buys an mfa token.
listPasskeys(h) ==
    LET c == call[h]
        alone == Passkeys(c.user) = {} IN
    /\ At(h, "listPasskeys")
    /\ Check(h, alone, c)
    /\ mfa' = IF alone THEN mfa
              ELSE mfa \cup {Minted(c)}
    /\ UNCHANGED <<store, tokens, history>>

Marked(s, value) == [sessions EXCEPT ![s] = IF @ = "none" THEN "none" ELSE value]

UpdateSession(h) ==
    LET c == call[h] IN
    /\ \/ /\ Write(h, "touchSession", c)      \* whole, with the revokedAt it had
          /\ sessions' = Marked(c.session, "live")
       \/ /\ Write(h, "revokeTarget", c)
          /\ sessions' = Marked(c.target, "revoked")
       \/ /\ Write(h, "eraseSessions", c)
          /\ sessions' = [s \in Session |-> IF tokens[s] # None /\ tokens[s].user = c.user
                                            THEN "none" ELSE sessions[s]]
    /\ UNCHANGED <<users, links, creds, challenges, tokens, history>>

\* revokeAllSessions and its likes revoke the rows they listed one by one.
revokeListed(h) ==
    LET c == call[h] IN
    /\ At(h, "revokeSessions")
    /\ \/ /\ c.listed = {}
          /\ GoOn(h, c)
          /\ UNCHANGED sessions
       \/ \E s \in c.listed :
            /\ Run(h, pc[h], [c EXCEPT !.listed = @ \ {s}])
            /\ sessions' = Marked(s, "revoked")
    /\ UNCHANGED <<users, links, creds, challenges, held, history>>

LinksOf(kind, u) == {l \in Link : /\ links[l] # None /\ links[l].kind = kind
                                  /\ kind # "pending" => links[l].user = u}

NewLink(kind, c) == [kind |-> kind, user |-> c.user, live |-> TRUE,
                     password |-> c.new, epoch |-> Cardinality(erased)]

UpdateLinks(h) ==
    LET c == call[h]
        Create(step, kind) ==
            /\ HasFresh(links)
            /\ Write(h, step, c)
            /\ links' = [links EXCEPT ![Fresh(links)] = NewLink(kind, c)]
        Burn(step, kind) ==
            /\ Write(h, step, c)
            /\ links' = Dead(links, LinksOf(kind, c.user)) IN
    /\ \/ Create("createPending", "pending") \/ Create("createReset", "reset")
       \/ Create("createConfirm", "confirm")
       \/ Burn("burnPending", "pending") \/ Burn("burnResets", "reset")
       \/ Burn("burnConfirm", "confirm")
       \/ Write(h, "useLink", c) /\ links' = Dead(links, {c.link})
    /\ UNCHANGED <<users, sessions, creds, challenges, tokens, history>>

eraseUser(h) ==
    LET c == call[h] IN
    /\ Write(h, "eraseUser", c)
    /\ users' = [users EXCEPT ![c.user] = None]
    /\ erased' = erased \cup {c.user}
    /\ UNCHANGED <<sessions, links, creds, challenges, tokens>>
    /\ UNCHANGED <<passwords, settled, bornLate, resting>>

-----------------------------------------------------------------------------
(* Steps that write passkeys and challenges. *)

\* Mutant: what the service itself looks at, behind the library's back.
OnlyBackwards(reported, stored) == ~(stored > 0 /\ reported < stored)

\* The library refuses a counter that does not move forward; a synced passkey
\* reports zero for ever.
CounterMoves(reported, stored) == reported > stored \/ (reported = 0 /\ stored = 0)

\* The answer verifies: the challenge has settled a ceremony.
Settle(h) ==
    LET c == call[h]
        ok == c.op = "passkeyLogin" => CounterMoves(c.count, c.credRow.count) IN
    /\ At(h, "verifyAssertion") \/ At(h, "verifyAttestation")
    /\ Check(h, ok, c)
    /\ settled' = IF ok THEN [settled EXCEPT ![c.challenge] = @ + 1] ELSE settled
    /\ UNCHANGED <<store, held, passwords, erased, bornLate, resting>>

UpdateChallenges(h) ==
    LET c == call[h] IN
    /\ \/ /\ HasFresh(challenges)
          /\ Write(h, "createChallenge", c)
          /\ challenges' = [challenges EXCEPT ![Fresh(challenges)] =
                 [user |-> c.user, kind |-> Purpose(c.op), live |-> TRUE]]
       \/ /\ Write(h, "deleteChallenge", c)
          /\ challenges' = Dead(challenges, {c.challenge})
       \/ /\ Write(h, "eraseChallenges", c)
          /\ challenges' = Dead(challenges, {k \in Challenge :
                Live(challenges, k) /\ challenges[k].user = c.user})
    /\ UNCHANGED <<users, sessions, links, creds, tokens, history>>

UpdateCreds(h) ==
    LET c == call[h] IN
    /\ \/ /\ Write(h, "createCred", c)
          /\ creds[c.cred] = None
          /\ creds' = [creds EXCEPT ![c.cred] =
                 [user |-> c.user, count |-> 0, live |-> TRUE]]
       \/ /\ Write(h, "writeCred", c)
          /\ creds' = [creds EXCEPT ![c.cred].count = c.count]
       \/ /\ Write(h, "deleteCred", c)
          /\ creds' = Dead(creds, {c.cred})
       \/ /\ Write(h, "eraseCreds", c)
          /\ creds' = Dead(creds, Passkeys(c.user))
    /\ UNCHANGED <<users, sessions, links, challenges, tokens, history>>

-----------------------------------------------------------------------------
(* A link's time runs out; a call throws or the process dies. *)

Expire(l) ==
    /\ Live(links, l)
    /\ links' = Dead(links, {l})
    /\ UNCHANGED <<users, sessions, creds, challenges, held, history, control>>

Fail(h) == Break(h) /\ UNCHANGED <<store, held, history>>

-----------------------------------------------------------------------------
\* Nothing yet, or one account with a session and with passkeys.
Init ==
    /\ HandlersInit
    /\ LET u == CHOOSE x \in User : TRUE
           s == CHOOSE x \in Session : TRUE
           there == mix.account IN
       /\ users = [x \in User |-> IF there /\ x = u
              THEN [tv |-> 0, password |-> 1, verified |-> FALSE] ELSE None]
       /\ sessions = [x \in Session |-> IF there /\ x = s THEN "live" ELSE "none"]
       /\ tokens = [x \in Session |-> IF there /\ x = s
              THEN [user |-> u, tv |-> 0, proof |-> 1] ELSE None]
       /\ creds = [d \in Credential |-> IF there /\ d \in mix.passkeys
              THEN [user |-> u, count |-> mix.counted, live |-> TRUE] ELSE None]
       /\ passwords = IF there THEN 1 ELSE 0
    /\ links = [l \in Link |-> None]
    /\ challenges = [k \in Challenge |-> None]
    /\ mfa = {}
    /\ erased = {} /\ bornLate = {}
    /\ settled = [k \in Challenge |-> 0]
    /\ resting = [d \in Credential |-> 0]

Next ==
    \/ \E h \in Handler :
        \/ Anonymous(h) \/ SignedIn(h) \/ SecondFactor(h)
        \/ ReadAccount(h) \/ ReadLink(h) \/ ReadPasskey(h)
        \/ UpdateUser(h) \/ createUser(h) \/ startSession(h) \/ listPasskeys(h)
        \/ UpdateSession(h) \/ revokeListed(h) \/ UpdateLinks(h) \/ eraseUser(h)
        \/ Settle(h) \/ UpdateChallenges(h) \/ UpdateCreds(h) \/ Fail(h)
    \/ \E l \in Link : Expire(l)

Spec == Init /\ [][Next]_vars

-----------------------------------------------------------------------------
(* Properties. *)

TypeOK ==
    /\ users \in [User -> UserRow \cup {None}]
    /\ sessions \in [Session -> {"none", "live", "revoked"}]
    /\ links \in [Link -> LinkRow \cup {None}]
    /\ creds \in [Credential -> CredentialRow \cup {None}]
    /\ challenges \in [Challenge -> ChallengeRow \cup {None}]
    /\ tokens \in [Session -> Token \cup {None}]
    /\ mfa \subseteq Token
    /\ TurnOK
    /\ \A s \in Session : sessions[s] # "none" => tokens[s] # None

\* What userPrincipal accepts.
SignsIn(s) ==
    /\ sessions[s] = "live"
    /\ LET row == users[tokens[s].user] IN row # None /\ row.tv = tokens[s].tv

\* After a reset or a change of the password no session opened with an older one
\* signs anybody in, on any build and whatever logins were under way ("the
\* attacker's tokens die at the same instant").  Needs: no two changes overlap.
OldPasswordIsOut ==
    \A s \in Session : SignsIn(s) => tokens[s].proof = users[tokens[s].user].password

\* With a synchronous store a session that was signed out, here or everywhere,
\* stays out: no refresh, late login or older row brings it back.
SignedOutStaysOut ==
    [][sync => \A s \in Session : tokens[s] # None /\ ~SignsIn(s) => ~SignsIn(s)']_vars

\* A deleted account is gone for good, whatever was under way when it went ...
ErasedStaysErased == \A u \in erased : users[u] = None

\* ... and no link from before the deletion creates an account (synchronous
\* store; deleteUserCascade reads the address first for this).
ErasedIsNotRecreated == sync => bornLate = {}

\* What a deletion leaves behind: no row, and no link that makes one.
DeletedIsGone == ErasedStaysErased /\ ErasedIsNotRecreated

\* With a synchronous store a challenge settles one ceremony at most
\* ("takeWebAuthnChallenge deletes as it reads, so a replay finds nothing").
ChallengeSettlesOnce == sync => \A k \in Challenge : settled[k] <= 1

BeingDeleted(u) == \E h \in Handler : call[h].op = "delete" /\ call[h].user = u

\* With a synchronous store an account that has enrolled a passkey keeps one until
\* it is deleted ("Remove a passkey - but never the last one").
AlwaysAPasskey ==
    [][sync => \A u \in User : Passkeys(u) # {} /\ Passkeys(u)' = {} => BeingDeleted(u)]_vars

\* The assertion of a sign-in that is under way has been accepted.
Verified(h) == pc[h] # <<>> /\ Head(pc[h]) \in {"writeCred", "startSession"}

\* However the sign-ins with one passkey overlap and whichever of them writes
\* last, its counter is never below what it was before the first of them began,
\* and none of them gets through with that counter or a lower one: "a counter
\* that does not move forward means the same credential is being used from two
\* places".  Zero after zero is a synced passkey.
CounterHoldsItsGround ==
    /\ \A d \in Credential : creds[d] # None => creds[d].count >= resting[d]
    /\ \A h \in Handler : Verified(h) /\ call[h].op = "passkeyLogin" =>
          LET d == call[h].cred IN
          call[h].count > resting[d] \/ (call[h].count = 0 /\ resting[d] = 0)
================================================================================
