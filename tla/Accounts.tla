------------------------------- MODULE Accounts -------------------------------
(***************************************************************************)
(* The auth application (apps/auth): principals, anonymous and user        *)
(* sessions, Google sign-in and the creation quota, as one browser with    *)
(* several tabs sees them.                                                 *)
(*                                                                         *)
(* A request carries the cookies the browser had when it was sent, and     *)
(* works in steps: what a service loaded is kept in the request and saved  *)
(* later.  TypeORM's save reads the row again and writes every column that *)
(* differs from the entity in memory, so a late save puts old values back. *)
(* A database transaction reads once and commits once; the unique indexes  *)
(* are checked at the commit.                                              *)
(*                                                                         *)
(* Left out: token signatures and hashes, the delivery address, profiles   *)
(* without an address, and the email and password methods, which no route  *)
(* calls.                                                                  *)
(***************************************************************************)
EXTENDS Naturals, FiniteSets

CONSTANTS
    Principal,       \* rows of principals that can be created
    Email,           \* addresses; a user is named by its address
    Subject,         \* Google identities
    EmailOf,         \* EmailOf[s]: the address in s's profile
    Verified,        \* subjects whose address Google has verified
    Authoritative,   \* subjects whose address Google speaks for
    Session,         \* rows of user_sessions that can be created
    Nonce,           \* sign-ins that can be begun
    Request,         \* requests that can be under way at once
    CreationLimit,   \* anonymous principals per address and day
    MaxRequests,     \* bound: requests sent
    MaxEvents,       \* bound: expiries, disabled accounts, lost answers
    None             \* no row, no cookie

ASSUME BoundsAssumption ==
    CreationLimit \in Nat /\ MaxRequests \in Nat /\ MaxEvents \in Nat
ASSUME IdentityAssumption ==
    /\ EmailOf \in [Subject -> Email]
    /\ Verified \subseteq Subject /\ Authoritative \subseteq Verified
ASSUME NoneAssumption ==
    None \notin Principal \cup Email \cup Subject \cup Session \cup Nonce

VARIABLES
    principal,   \* principal[p]: "absent", "anonymous" or "user"
    anonymous,   \* anonymous[p]: the anonymous session created with p
    owner,       \* owner[e]: the principal of the user with address e, or None
    link,        \* link[s]: the user the Google identity s signs in, or None
    session,     \* session[s]: a user session, its user and its state
    disabled,    \* users whose account is disabled
    created,     \* created_count of the browser's address today
    redeemed,    \* nonces whose authorization code Google has exchanged
    cookie,      \* the browser's cookies
    begun,       \* nonces handed to the browser
    req,         \* requests under way
    sent,        \* number of requests sent
    events       \* number of expiries, disablings and lost answers

vars == <<principal, anonymous, owner, link, session, disabled, created,
          redeemed, cookie, begun, req, sent, events>>
rows == <<principal, anonymous, owner, link, session, disabled, created, redeemed>>

SessionStates == {"absent", "live", "revoked", "expired"}
Kinds == {"anonymous", "user"}
Access == [of : Principal, kind : Kinds]
Jar == [access : Access \cup {None}, refresh : Session \cup {None},
        anonymous : Principal \cup {None}, state : Nonce \cup {None}]

Steps == {"access", "user", "saveSession", "savePrincipal", "anonymous",
          "saveAnonymous", "saveShopper", "create", "callback", "identify",
          "commit", "logout", "revoke", "answered"}
Idle == [kind |-> "idle"]

(* A request: its cookies, what it has loaded (a principal and the kind it
   had, a user session, the user to sign in or to create) and the cookies its
   answer sets. *)
NewRequest(kind, step, nonce, subject) ==
    [kind |-> kind, step |-> step, jar |-> cookie, nonce |-> nonce,
     subject |-> subject, who |-> None, seen |-> "anonymous", session |-> None,
     user |-> None, creates |-> FALSE, sets |-> <<>>]

Init ==
    /\ principal = [p \in Principal |-> "absent"]
    /\ anonymous = [p \in Principal |-> "absent"]
    /\ owner = [e \in Email |-> None]
    /\ link = [s \in Subject |-> None]
    /\ session = [s \in Session |-> [user |-> None, state |-> "absent"]]
    /\ disabled = {} /\ created = 0 /\ redeemed = {} /\ begun = {}
    /\ cookie = [access |-> None, refresh |-> None, anonymous |-> None, state |-> None]
    /\ req = [r \in Request |-> Idle]
    /\ sent = 0 /\ events = 0

At(r, step) == req[r].kind # "idle" /\ req[r].step = step
Goto(r, step) == req' = [req EXCEPT ![r].step = step]
\* The handler is done; its answer sets the given cookies.
Reply(r, sets) == req' = [req EXCEPT ![r].step = "answered", ![r].sets = sets]
AccessTo(p, kind) == [of |-> p, kind |-> kind]
Unrevoked(state) == IF state = "revoked" THEN "live" ELSE state
Revoked(state) == IF state = "expired" THEN "expired" ELSE "revoked"

-----------------------------------------------------------------------------
(* The browser and the world around it. *)

Send(r) ==
    /\ req[r] = Idle /\ sent < MaxRequests
    /\ sent' = sent + 1
    /\ \/ req' = [req EXCEPT ![r] = NewRequest("session", "access", None, None)]
       \/ req' = [req EXCEPT ![r] = NewRequest("shopper", "access", None, None)]
       \/ req' = [req EXCEPT ![r] = NewRequest("logout", "logout", None, None)]
       \/ \E n \in begun, s \in Subject :
            req' = [req EXCEPT ![r] = NewRequest("callback", "callback", n, s)]
    /\ UNCHANGED <<rows, cookie, begun, events>>

\* GET /auth/google: a fresh nonce in the state cookie, over an older one.
StartGoogleSignIn(n) ==
    /\ n \notin begun
    /\ begun' = begun \cup {n}
    /\ cookie' = [cookie EXCEPT !.state = n]
    /\ UNCHANGED <<rows, req, sent, events>>

Receive(r) ==
    /\ At(r, "answered")
    /\ LET sets == req[r].sets IN
       cookie' = [k \in DOMAIN cookie |-> IF k \in DOMAIN sets THEN sets[k] ELSE cookie[k]]
    /\ req' = [req EXCEPT ![r] = Idle]
    /\ UNCHANGED <<rows, begun, sent, events>>

Event == events < MaxEvents /\ events' = events + 1

LoseAnswer(r) ==
    /\ Event /\ At(r, "answered")
    /\ req' = [req EXCEPT ![r] = Idle]
    /\ UNCHANGED <<rows, cookie, begun, sent>>

\* The access cookie lives for fifteen minutes, the sessions for weeks.
Expire ==
    /\ Event
    /\ \/ /\ cookie.access # None
          /\ cookie' = [cookie EXCEPT !.access = None]
          /\ UNCHANGED <<session, anonymous>>
       \/ \E s \in Session :
            /\ session[s].state \in {"live", "revoked"}
            /\ session' = [session EXCEPT ![s].state = "expired"]
            /\ UNCHANGED <<cookie, anonymous>>
       \/ \E p \in Principal :
            /\ anonymous[p] \in {"live", "revoked"}
            /\ anonymous' = [anonymous EXCEPT ![p] = "expired"]
            /\ UNCHANGED <<cookie, session>>
    /\ UNCHANGED <<principal, owner, link, disabled, created, redeemed, begun,
                   req, sent>>

Disable(e) ==
    /\ Event /\ owner[e] # None /\ e \notin disabled
    /\ disabled' = disabled \cup {e}
    /\ UNCHANGED <<principal, anonymous, owner, link, session, created, redeemed,
                   cookie, begun, req, sent>>

-----------------------------------------------------------------------------
(* AuthSessionService. *)

\* getPrincipalFromAccessToken: the token is good for the principal it names
\* as long as the principal has the kind it names.
CheckAccess(r) ==
    LET a == req[r].jar.access IN
    /\ At(r, "access")
    /\ IF a # None /\ principal[a.of] = a.kind
       THEN Reply(r, <<>>)
       ELSE Goto(r, "user")
    /\ UNCHANGED <<rows, cookie, begun, sent, events>>

\* Mutant: revoked sessions are found as well.
FoundRevoked(s) == s # None /\ session[s].state \in {"live", "revoked"}

Found(s) == s # None /\ session[s].state = "live"

\* Mutant: the relation is not loaded and the kind falls back to the default.
KindLoadedDefault(p) == "anonymous"

KindLoaded(p) == principal[p]

\* refreshUserSession, as far as its query; a disabled user's session is revoked.
LoadUserSession(r) ==
    LET s == req[r].jar.refresh IN
    /\ At(r, "user")
    /\ IF ~Found(s) THEN Goto(r, "anonymous") /\ UNCHANGED session
       ELSE IF session[s].user \in disabled
       THEN /\ session' = [session EXCEPT ![s].state = "revoked"]
            /\ Goto(r, "anonymous")
       ELSE LET p == owner[session[s].user] IN
            /\ req' = [req EXCEPT ![r].step = "saveSession", ![r].session = s,
                                  ![r].who = p, ![r].seen = KindLoaded(p)]
            /\ UNCHANGED session
    /\ UNCHANGED <<principal, anonymous, owner, link, disabled, created, redeemed,
                   cookie, begun, sent, events>>

\* The session is saved as it was loaded: not revoked.
SaveUserSession(r) ==
    /\ At(r, "saveSession")
    /\ session' = [session EXCEPT ![req[r].session].state = Unrevoked(@)]
    /\ Goto(r, "savePrincipal")
    /\ UNCHANGED <<principal, anonymous, owner, link, disabled, created, redeemed,
                   cookie, begun, sent, events>>

\* So is its principal; the answer renews the access cookie.
SavePrincipal(r) ==
    /\ At(r, "savePrincipal")
    /\ principal' = [principal EXCEPT ![req[r].who] = req[r].seen]
    /\ Reply(r, [access |-> AccessTo(req[r].who, req[r].seen)])
    /\ UNCHANGED <<anonymous, owner, link, session, disabled, created, redeemed,
                   cookie, begun, sent, events>>

\* getExistingAnonymousSession; without one, only POST anonymous-session goes on.
LoadAnonymousSession(r) ==
    LET p == req[r].jar.anonymous IN
    /\ At(r, "anonymous")
    /\ IF p # None /\ anonymous[p] = "live"
       THEN req' = [req EXCEPT ![r].step = "saveAnonymous", ![r].who = p,
                               ![r].seen = KindLoaded(p)]
       ELSE IF req[r].kind = "shopper" THEN Goto(r, "create") ELSE Reply(r, <<>>)
    /\ UNCHANGED <<rows, cookie, begun, sent, events>>

SaveAnonymousSession(r) ==
    /\ At(r, "saveAnonymous")
    /\ anonymous' = [anonymous EXCEPT ![req[r].who] = Unrevoked(@)]
    /\ Goto(r, "saveShopper")
    /\ UNCHANGED <<principal, owner, link, session, disabled, created, redeemed,
                   cookie, begun, sent, events>>

SaveShopper(r) ==
    /\ At(r, "saveShopper")
    /\ principal' = [principal EXCEPT ![req[r].who] = req[r].seen]
    /\ Reply(r, [access |-> AccessTo(req[r].who, req[r].seen),
                 anonymous |-> req[r].who])
    /\ UNCHANGED <<anonymous, owner, link, session, disabled, created, redeemed,
                   cookie, begun, sent, events>>

\* Mutant: the limit is tested before this creation is counted.
ExceedsLimitLate(n) == n - 1 > CreationLimit

ExceedsLimit(n) == n > CreationLimit

\* createAnonymousPrincipal in a transaction, which the quota's row serialises:
\* past the limit everything is rolled back, the count included.
CreateAnonymousPrincipal(r) ==
    /\ At(r, "create")
    /\ IF ExceedsLimit(created + 1)
       THEN Reply(r, <<>>) /\ UNCHANGED <<created, principal, anonymous>>
       ELSE \E p \in Principal :
            /\ principal[p] = "absent"
            /\ created' = created + 1
            /\ principal' = [principal EXCEPT ![p] = "anonymous"]
            /\ anonymous' = [anonymous EXCEPT ![p] = "live"]
            /\ Reply(r, [access |-> AccessTo(p, "anonymous"), anonymous |-> p])
    /\ UNCHANGED <<owner, link, session, disabled, redeemed, cookie, begun, sent, events>>

-----------------------------------------------------------------------------
(* AuthController and OAuthSignInService. *)

ClearState == [state |-> None]

\* handleGoogleCallback: the state cookie must hold the callback's nonce; Google
\* exchanges a code once, and the profile's address must be verified.  The
\* shopper may decline, and the exchange may fail, the code spent or not.
HandleGoogleCallback(r) ==
    LET n == req[r].nonce IN
    /\ At(r, "callback")
    /\ \/ req[r].jar.state # n /\ Reply(r, <<>>) /\ UNCHANGED redeemed
       \/ /\ req[r].jar.state = n
          /\ Reply(r, ClearState)
          /\ redeemed' \in {redeemed, redeemed \cup {n}}
       \/ /\ req[r].jar.state = n
          /\ n \notin redeemed /\ req[r].subject \in Verified
          /\ Goto(r, "identify")
          /\ redeemed' = redeemed \cup {n}
    /\ UNCHANGED <<principal, anonymous, owner, link, session, disabled, created,
                   cookie, begun, sent, events>>

\* The queries of signInWithGoogle: the linked user, else the user with the
\* address (if Google speaks for it), else a new user, who takes over the
\* principal of the browser's anonymous session if there is one.
Identify(r) ==
    LET s == req[r].subject
        e == EmailOf[s]
        p == req[r].jar.anonymous
        Known(u) == IF u \in disabled THEN Reply(r, ClearState)
                    ELSE req' = [req EXCEPT ![r].step = "commit", ![r].user = u,
                                            ![r].who = owner[u]]
    IN
    /\ At(r, "identify")
    /\ IF link[s] # None THEN Known(link[s])
       ELSE IF owner[e] # None
       THEN IF s \in Authoritative THEN Known(e) ELSE Reply(r, ClearState)
       ELSE req' = [req EXCEPT ![r].step = "commit", ![r].user = e,
                        ![r].who = IF p # None /\ anonymous[p] = "live" THEN p ELSE None,
                        ![r].creates = TRUE]
    /\ UNCHANGED <<rows, cookie, begun, sent, events>>

\* Mutant: no unique index on the users' principals.
ConflictsByAddress(r) == req[r].creates /\ owner[req[r].user] # None

\* The unique indexes a new user runs into: its address, its principal.
Conflicts(r) ==
    /\ req[r].creates
    /\ \/ owner[req[r].user] # None
       \/ req[r].who \in {owner[e] : e \in Email} \ {None}

\* The transaction commits: identity, user and principal are saved, the
\* anonymous session is revoked, and a user session begins.
CommitSignIn(r) ==
    LET s == req[r].subject  e == req[r].user IN
    /\ At(r, "commit")
    /\ ~Conflicts(r) /\ link[s] \in {None, e}
    /\ \E p \in Principal, t \in Session :
        /\ IF req[r].who # None THEN p = req[r].who ELSE principal[p] = "absent"
        /\ session[t].state = "absent"
        /\ principal' = [principal EXCEPT ![p] = "user"]
        /\ owner' = [owner EXCEPT ![e] = p]
        /\ link' = [link EXCEPT ![s] = e]
        /\ anonymous' = IF req[r].creates /\ req[r].who # None
                        THEN [anonymous EXCEPT ![p] = Revoked(@)] ELSE anonymous
        /\ session' = [session EXCEPT ![t] = [user |-> e, state |-> "live"]]
        /\ Reply(r, [access |-> AccessTo(p, "user"), refresh |-> t,
                     anonymous |-> None, state |-> None])
    /\ UNCHANGED <<disabled, created, redeemed, cookie, begun, sent, events>>

\* Another sign-in has taken the address, the principal or the identity.
RollBackSignIn(r) ==
    /\ At(r, "commit")
    /\ Conflicts(r) \/ link[req[r].subject] \notin {None, req[r].user}
    /\ Reply(r, ClearState)
    /\ UNCHANGED <<rows, cookie, begun, sent, events>>

-----------------------------------------------------------------------------
(* UserAuthService.logout. *)

SignedOut == [access |-> None, refresh |-> None, anonymous |-> None]

Logout(r) ==
    LET s == req[r].jar.refresh IN
    /\ At(r, "logout")
    /\ IF s # None /\ session[s].state \in {"live", "expired"}
       THEN Goto(r, "revoke") ELSE Reply(r, SignedOut)
    /\ UNCHANGED <<rows, cookie, begun, sent, events>>

RevokeSession(r) ==
    /\ At(r, "revoke")
    /\ session' = [session EXCEPT ![req[r].jar.refresh].state = Revoked(@)]
    /\ Reply(r, SignedOut)
    /\ UNCHANGED <<principal, anonymous, owner, link, disabled, created, redeemed,
                   cookie, begun, sent, events>>

-----------------------------------------------------------------------------

\* The steps the service and the network take on their own.
Handle(r) ==
    \/ CheckAccess(r) \/ LoadUserSession(r) \/ SaveUserSession(r) \/ SavePrincipal(r)
    \/ LoadAnonymousSession(r) \/ SaveAnonymousSession(r) \/ SaveShopper(r)
    \/ CreateAnonymousPrincipal(r)
    \/ HandleGoogleCallback(r) \/ Identify(r) \/ CommitSignIn(r) \/ RollBackSignIn(r)
    \/ Logout(r) \/ RevokeSession(r) \/ Receive(r)

Next ==
    \/ \E r \in Request : Send(r) \/ Handle(r) \/ LoseAnswer(r)
    \/ \E n \in Nonce : StartGoogleSignIn(n)
    \/ Expire
    \/ \E e \in Email : Disable(e)

Spec == Init /\ [][Next]_vars

-----------------------------------------------------------------------------
(* Properties. *)

TypeOK ==
    /\ principal \in [Principal -> {"absent"} \cup Kinds]
    /\ anonymous \in [Principal -> SessionStates]
    /\ owner \in [Email -> Principal \cup {None}]
    /\ link \in [Subject -> Email \cup {None}]
    /\ session \in [Session -> [user : Email \cup {None}, state : SessionStates]]
    /\ disabled \subseteq Email /\ created \in Nat
    /\ redeemed \subseteq Nonce /\ begun \subseteq Nonce
    /\ cookie \in Jar
    /\ \A r \in Request : req[r] = Idle \/ req[r].step \in Steps
    /\ sent \in 0 .. MaxRequests /\ events \in 0 .. MaxEvents

\* The quota's row and the principals it pays for agree, and stay within the
\* limit, however requests overlap and whichever of them are rolled back.
QuotaHeld ==
    /\ created = Cardinality({p \in Principal : anonymous[p] # "absent"})
    /\ created <= CreationLimit

\* A principal, and with it a cart and lists, belongs to one user for good: no
\* two users share one, whatever sign-ins and upgrades race, and a session's
\* user always has one.
OneOwner ==
    /\ \A d, e \in Email : d # e /\ owner[d] # None => owner[d] # owner[e]
    /\ \A s \in Session : session[s].user # None => owner[session[s].user] # None

\* A user keeps the principal it was created with.
OwnersFixed ==
    [][\A e \in Email : owner[e] # None => owner'[e] = owner[e]]_vars

SaveSteps == {"saveSession", "savePrincipal", "saveAnonymous", "saveShopper"}
Saving(r) == req[r].kind # "idle" /\ req[r].step \in SaveSteps

\* Nobody is about to save session s as it was before its revocation.
RevokedForGood(s) ==
    /\ session[s].state \in {"revoked", "expired"}
    /\ \A r \in Request : Saving(r) /\ req[r].step = "saveSession" => req[r].session # s

UpgradedForGood(p) ==
    /\ principal[p] = "user"
    /\ \A r \in Request : Saving(r) => req[r].who # p \/ req[r].seen = "user"

\* A late save may bring a revoked user session back, but only if it was loaded
\* before the revocation: once such requests are through, it stays revoked.
RevokedSettles == [][\A s \in Session : RevokedForGood(s) => RevokedForGood(s)']_vars

\* Likewise a late save may turn an upgraded principal anonymous again (the next
\* sign-in repairs it), but only one that loaded it before the upgrade.
UpgradeSettles == [][\A p \in Principal : UpgradedForGood(p) => UpgradedForGood(p)']_vars
=============================================================================
