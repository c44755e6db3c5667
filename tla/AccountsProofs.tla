---------------------------- MODULE AccountsProofs ----------------------------
(***************************************************************************)
(* Proofs about Accounts for every set of principals, users, identities,   *)
(* sessions and nonces, any number of requests at a time and any quota.    *)
(***************************************************************************)
EXTENDS Accounts, FiniteSetTheorems, TLAPS

-----------------------------------------------------------------------------
(* The inductive invariant.  What a request has loaded stays true enough   *)
(* of the rows while it waits: principals and anonymous sessions never     *)
(* disappear, and a user never loses its principal.                        *)

Keys == {"access", "refresh", "anonymous", "state"}
Values == Access \cup Session \cup Principal \cup Nonce \cup {None}

\* What an answer may set.
SetsOK(f) ==
    /\ "access" \in DOMAIN f => f["access"] \in Access \cup {None}
    /\ "refresh" \in DOMAIN f => f["refresh"] \in Session \cup {None}
    /\ "anonymous" \in DOMAIN f => f["anonymous"] \in Principal \cup {None}
    /\ "state" \in DOMAIN f => f["state"] \in Nonce \cup {None}
Sets == {f \in UNION {[K -> Values] : K \in SUBSET Keys} : SetsOK(f)}

Reqs == [kind : {"session", "shopper", "logout", "callback"}, step : Steps, jar : Jar,
         nonce : Nonce \cup {None}, subject : Subject \cup {None},
         who : Principal \cup {None}, seen : Kinds, session : Session \cup {None},
         user : Email \cup {None}, creates : BOOLEAN, sets : Sets]

Types ==
    /\ principal \in [Principal -> {"absent"} \cup Kinds]
    /\ anonymous \in [Principal -> SessionStates]
    /\ owner \in [Email -> Principal \cup {None}]
    /\ link \in [Subject -> Email \cup {None}]
    /\ session \in [Session -> [user : Email \cup {None}, state : SessionStates]]
    /\ disabled \subseteq Email /\ created \in Nat
    /\ redeemed \subseteq Nonce /\ begun \subseteq Nonce
    /\ cookie \in Jar
    /\ DOMAIN req = Request
    /\ sent \in 0 .. MaxRequests /\ events \in 0 .. MaxEvents

\* A request's record, and what it has loaded by its step.
ReqOK(r) ==
    req[r] # Idle =>
      /\ req[r] \in Reqs
      /\ req[r].step \in SaveSteps =>
            req[r].who \in Principal /\ principal[req[r].who] # "absent"
      /\ req[r].step = "saveSession" => req[r].session \in Session
      /\ req[r].step \in {"saveAnonymous", "saveShopper"} =>
            anonymous[req[r].who] # "absent"
      /\ req[r].step \in {"callback", "identify", "commit"} => req[r].subject \in Subject
      /\ req[r].step = "callback" => req[r].nonce \in Nonce
      /\ req[r].step \in {"callback", "identify"} => ~req[r].creates
      /\ req[r].step = "commit" =>
            /\ req[r].user \in Email
            /\ ~req[r].creates => req[r].who # None /\ owner[req[r].user] = req[r].who
            /\ req[r].creates /\ req[r].who # None => anonymous[req[r].who] # "absent"
      /\ req[r].step = "revoke" =>
            /\ req[r].jar.refresh \in Session
            /\ session[req[r].jar.refresh].state # "absent"

\* Rows that others refer to are there.
References ==
    /\ \A p \in Principal : principal[p] = "absent" => anonymous[p] = "absent"
    /\ \A e \in Email : owner[e] # None => principal[owner[e]] # "absent"
    /\ \A s \in Subject : link[s] # None => owner[link[s]] # None
    /\ \A s \in Session : session[s].state # "absent" => session[s].user # None

Shoppers == {p \in Principal : anonymous[p] # "absent"}

Rows == References /\ OneOwner /\ QuotaHeld /\ IsFiniteSet(Shoppers)

IInv ==
    /\ Types
    /\ \A r \in Request : ReqOK(r)
    /\ Rows

\* What no step undoes.
Grows ==
    /\ \A p \in Principal : principal[p] # "absent" => principal'[p] # "absent"
    /\ \A p \in Principal : anonymous[p] # "absent" => anonymous'[p] # "absent"
    /\ \A e \in Email : owner[e] # None => owner'[e] = owner[e]
    /\ \A s \in Session : session[s].state # "absent" => session'[s].state # "absent"

\* No session changes its user, or comes or goes.
SessionsKept ==
    /\ session' \in [Session -> [user : Email \cup {None}, state : SessionStates]]
    /\ \A s \in Session : /\ session'[s].user = session[s].user
                          /\ session'[s].state = "absent" <=> session[s].state = "absent"

-----------------------------------------------------------------------------
(* Cookies and records. *)

LEMMA EmptySets == <<>> \in Sets
<1>1. DOMAIN <<>> = {}
  OBVIOUS
<1>2. <<>> \in [{} -> Values]
  OBVIOUS
<1>3. {} \in SUBSET Keys
  OBVIOUS
<1> QED BY <1>1, <1>2, <1>3 DEF Sets, SetsOK

LEMMA Accesses ==
    \A p \in Principal, kind \in Kinds : AccessTo(p, kind) \in Access
BY DEF AccessTo, Access

LEMMA ManyCookies ==
    /\ \A a \in Access : [access |-> a] \in Sets
    /\ \A a \in Access, p \in Principal : [access |-> a, anonymous |-> p] \in Sets
    /\ SignedOut \in Sets
    /\ \A a \in Access, s \in Session :
         [access |-> a, refresh |-> s, anonymous |-> None, state |-> None] \in Sets
    /\ ClearState \in Sets
<1>1. ASSUME NEW a \in Access, NEW p \in Principal
      PROVE  [access |-> a, anonymous |-> p] \in Sets
  <2>1. [access |-> a, anonymous |-> p] \in [{"access", "anonymous"} -> Values]
    BY DEF Values
  <2>2. {"access", "anonymous"} \in SUBSET Keys
    BY DEF Keys
  <2> QED BY <2>1, <2>2 DEF Sets, SetsOK
<1>2. SignedOut \in Sets
  <2>1. SignedOut \in [{"access", "refresh", "anonymous"} -> Values]
    BY DEF Values, SignedOut
  <2>2. {"access", "refresh", "anonymous"} \in SUBSET Keys
    BY DEF Keys
  <2> QED BY <2>1, <2>2 DEF Sets, SetsOK, SignedOut
<1>3. ASSUME NEW a \in Access, NEW s \in Session
      PROVE  [access |-> a, refresh |-> s, anonymous |-> None, state |-> None] \in Sets
  <2>1. [access |-> a, refresh |-> s, anonymous |-> None, state |-> None] \in [Keys -> Values]
    BY DEF Values, Keys
  <2> QED BY <2>1 DEF Sets, SetsOK, Keys
<1>4. ClearState \in Sets
  <2>1. ClearState \in [{"state"} -> Values] /\ {"state"} \in SUBSET Keys
    BY DEF ClearState, Values, Keys
  <2> QED BY <2>1 DEF Sets, SetsOK, ClearState
<1>5. ASSUME NEW a \in Access PROVE [access |-> a] \in Sets
  <2>1. [access |-> a] \in [{"access"} -> Values] /\ {"access"} \in SUBSET Keys
    BY DEF Values, Keys
  <2> QED BY <2>1 DEF Sets, SetsOK
<1> QED BY <1>1, <1>2, <1>3, <1>4, <1>5

\* A browser that takes over what an answer sets still has a jar of cookies.
LEMMA JarMerged ==
    ASSUME NEW f \in Sets, NEW c \in Jar
    PROVE  [k \in DOMAIN c |-> IF k \in DOMAIN f THEN f[k] ELSE c[k]] \in Jar
<1> DEFINE g == [k \in DOMAIN c |-> IF k \in DOMAIN f THEN f[k] ELSE c[k]]
<1>1. DOMAIN c = Keys
  BY DEF Jar, Keys
<1>2. SetsOK(f)
  BY DEF Sets
<1>3. /\ g["access"] \in Access \cup {None} /\ g["refresh"] \in Session \cup {None}
      /\ g["anonymous"] \in Principal \cup {None} /\ g["state"] \in Nonce \cup {None}
  BY <1>1, <1>2 DEF SetsOK, Jar, Keys
<1>4. g = [access |-> g["access"], refresh |-> g["refresh"],
           anonymous |-> g["anonymous"], state |-> g["state"]]
  BY <1>1 DEF Keys
<1> HIDE DEF g
<1>5. g \in Jar
  BY <1>3, <1>4 DEF Jar
<1> QED BY <1>5 DEF g
LEMMA Requests ==
    ASSUME Types, NEW kind \in {"session", "shopper", "logout", "callback"},
           NEW step \in Steps, NEW n \in Nonce \cup {None}, NEW s \in Subject \cup {None}
    PROVE  LET q == NewRequest(kind, step, n, s) IN
           /\ q \in Reqs /\ q.step = step /\ q.subject = s /\ q.nonce = n
           /\ ~q.creates /\ q # Idle
<1> DEFINE q == NewRequest(kind, step, n, s)
<1>1. q = [kind |-> kind, step |-> step, jar |-> cookie, nonce |-> n, subject |-> s,
           who |-> None, seen |-> "anonymous", session |-> None, user |-> None,
           creates |-> FALSE, sets |-> <<>>]
  BY DEF NewRequest
<1>2. cookie \in Jar /\ <<>> \in Sets
  BY EmptySets DEF Types
<1>3. q \in Reqs /\ q.step = step /\ q.subject = s /\ q.nonce = n /\ ~q.creates
  BY <1>1, <1>2 DEF Reqs, Kinds
<1>4. q # Idle
  BY <1>3 DEF Reqs, Idle
<1> QED BY <1>3, <1>4

LEMMA IdleFacts ==
    /\ Idle.kind = "idle"
    /\ \A q \in Reqs : q # Idle /\ q.kind # "idle"
BY DEF Idle, Reqs

\* A request that is at a step has its record.
LEMMA AtStep ==
    ASSUME NEW r \in Request, ReqOK(r), NEW step, At(r, step)
    PROVE  req[r] \in Reqs /\ req[r] # Idle /\ req[r].step = step
BY IdleFacts DEF At, ReqOK

\* Going on to another step, or answering, changes nothing else of the record.
LEMMA Going ==
    ASSUME NEW q \in Reqs, NEW step \in Steps
    PROVE  LET v == [q EXCEPT !.step = step] IN
           /\ v \in Reqs /\ v # Idle /\ v.step = step
           /\ v.who = q.who /\ v.jar = q.jar /\ v.subject = q.subject
           /\ v.session = q.session /\ v.seen = q.seen /\ v.kind = q.kind
           /\ v.creates = q.creates
<1> DEFINE v == [q EXCEPT !.step = step]
<1>1. /\ v \in Reqs /\ v.step = step
      /\ v.who = q.who /\ v.jar = q.jar /\ v.subject = q.subject
      /\ v.session = q.session /\ v.seen = q.seen /\ v.kind = q.kind
      /\ v.creates = q.creates
  BY DEF Reqs
<1> HIDE DEF v
<1> QED BY <1>1, IdleFacts DEF v

LEMMA Replying ==
    ASSUME NEW q \in Reqs, NEW f \in Sets
    PROVE  LET v == [q EXCEPT !.step = "answered", !.sets = f] IN
           v \in Reqs /\ v # Idle /\ v.step = "answered"
<1> DEFINE v == [q EXCEPT !.step = "answered", !.sets = f]
<1>1. v \in Reqs /\ v.step = "answered"
  BY DEF Reqs, Steps
<1> HIDE DEF v
<1> QED BY <1>1, IdleFacts DEF v

LEMMA Answered ==
    ASSUME NEW r \in Request, req'[r] \in Reqs, req'[r].step \in {"answered", "access", "user",
           "anonymous", "create", "logout"}
    PROVE  ReqOK(r)'
BY DEF ReqOK, SaveSteps

\* What a step that grows the rows leaves true of the other requests.
LEMMA OtherRequests ==
    ASSUME IInv, NEW r \in Request, NEW v, req' = [req EXCEPT ![r] = v], Grows
    PROVE  /\ DOMAIN req' = Request
           /\ req'[r] = v
           /\ \A q \in Request : q # r => ReqOK(q)'
<1>1. /\ DOMAIN req' = Request
      /\ req'[r] = v
      /\ \A q \in Request : q # r => req'[q] = req[q]
  BY DEF IInv, Types
<1>2. ASSUME NEW q \in Request, q # r PROVE ReqOK(q)'
  <2>1. ReqOK(q) /\ req'[q] = req[q]
    BY <1>1, <1>2 DEF IInv
  <2>2. CASE req[q] = Idle
    BY <2>1, <2>2 DEF ReqOK
  <2>3. CASE req[q] # Idle
    <3>1. req[q] \in Reqs
      BY <2>1, <2>3 DEF ReqOK
    <3>2. req[q].who \in Principal \cup {None}
      BY <3>1 DEF Reqs
    <3>3. /\ req[q].step \in SaveSteps =>
                req[q].who \in Principal /\ principal'[req[q].who] # "absent"
          /\ req[q].step \in {"saveAnonymous", "saveShopper"} =>
                req[q].who \in Principal /\ anonymous'[req[q].who] # "absent"
      BY <2>1, <2>3 DEF ReqOK, Grows, SaveSteps
    <3>4. req[q].step = "commit" =>
            /\ req[q].user \in Email
            /\ ~req[q].creates => req[q].who # None /\ owner'[req[q].user] = req[q].who
            /\ req[q].creates /\ req[q].who # None => anonymous'[req[q].who] # "absent"
      BY <2>1, <2>3, <3>2 DEF ReqOK, Grows
    <3>5. req[q].step = "revoke" =>
            /\ req[q].jar.refresh \in Session
            /\ session'[req[q].jar.refresh].state # "absent"
      BY <2>1, <2>3 DEF ReqOK, Grows
    <3> QED BY <2>1, <2>3, <3>1, <3>3, <3>4, <3>5 DEF ReqOK
  <2> QED BY <2>2, <2>3
<1> QED BY <1>1, <1>2

\* Most steps neither create nor connect rows.
LEMMA RowsKept ==
    ASSUME IInv, owner' = owner, link' = link, created' = created,
           \A p \in Principal : principal'[p] = "absent" <=> principal[p] = "absent",
           \A p \in Principal : anonymous'[p] = "absent" <=> anonymous[p] = "absent",
           SessionsKept
    PROVE  Rows' /\ Grows
<1>1. Shoppers' = Shoppers
  BY DEF Shoppers
<1>2. QuotaHeld'
  BY <1>1 DEF IInv, Rows, QuotaHeld, Shoppers
<1>3. OneOwner'
  BY DEF IInv, Rows, OneOwner, SessionsKept
<1>4. References'
  BY DEF IInv, Rows, References, Types, SessionsKept
<1> QED BY <1>1, <1>2, <1>3, <1>4 DEF Rows, IInv, Grows, SessionsKept

LEMMA SameRows ==
    ASSUME IInv, UNCHANGED rows
    PROVE  Rows' /\ Grows
BY RowsKept DEF rows, SessionsKept, IInv, Types

LEMMA InitInv == Init => IInv
<1> SUFFICES ASSUME Init PROVE IInv
  OBVIOUS
<1>1. Types
  BY BoundsAssumption DEF Init, Types, Kinds, SessionStates, Jar
<1>2. \A r \in Request : ReqOK(r)
  BY DEF Init, ReqOK
<1>3. References /\ OneOwner
  BY DEF Init, References, OneOwner
<1>4. Shoppers = {}
  BY DEF Init, Shoppers
<1>5. IsFiniteSet(Shoppers) /\ Cardinality(Shoppers) = 0
  BY <1>4, FS_EmptySet
<1>6. QuotaHeld
  BY <1>5, BoundsAssumption DEF Init, QuotaHeld, Shoppers
<1> QED BY <1>1, <1>2, <1>3, <1>5, <1>6 DEF IInv, Rows
-----------------------------------------------------------------------------
(* The browser and the world around it. *)

LEMMA SendInv ==
    ASSUME IInv, NEW r \in Request, Send(r)
    PROVE  IInv' /\ Grows
<1>1. /\ Rows' /\ Grows
      /\ UNCHANGED <<rows, cookie, begun, events>>
      /\ sent' \in 0 .. MaxRequests
  BY SameRows, BoundsAssumption DEF Send, IInv, Types
<1>2. PICK v \in Reqs : /\ req' = [req EXCEPT ![r] = v]
                        /\ v.step \in {"access", "logout", "callback"}
                        /\ v.step = "callback" =>
                              v.subject \in Subject /\ v.nonce \in Nonce /\ ~v.creates
  <2>1. Types
    BY DEF IInv
  <2>2. CASE \/ req' = [req EXCEPT ![r] = NewRequest("session", "access", None, None)]
             \/ req' = [req EXCEPT ![r] = NewRequest("shopper", "access", None, None)]
             \/ req' = [req EXCEPT ![r] = NewRequest("logout", "logout", None, None)]
    <3>1. /\ "access" \in Steps /\ "logout" \in Steps
      BY DEF Steps
    <3> QED BY <2>1, <2>2, <3>1, Requests
  <2>3. CASE \E n \in begun, s \in Subject :
               req' = [req EXCEPT ![r] = NewRequest("callback", "callback", n, s)]
    <3>1. PICK n \in begun, s \in Subject :
               req' = [req EXCEPT ![r] = NewRequest("callback", "callback", n, s)]
      BY <2>3
    <3> DEFINE v == NewRequest("callback", "callback", n, s)
    <3>2. "callback" \in Steps /\ n \in Nonce \cup {None} /\ s \in Subject \cup {None}
      BY <2>1 DEF Steps, Types
    <3>3. v \in Reqs /\ v.step = "callback" /\ v.subject = s /\ v.nonce = n /\ ~v.creates
      BY <2>1, <3>2, Requests
    <3> HIDE DEF v
    <3>4. s \in Subject /\ n \in Nonce /\ req' = [req EXCEPT ![r] = v]
      BY <2>1, <3>1 DEF v, Types
    <3> QED BY <3>3, <3>4
  <2> QED BY <2>2, <2>3 DEF Send
<1>3. /\ DOMAIN req' = Request /\ req'[r] = v
      /\ \A q \in Request : q # r => ReqOK(q)'
  BY <1>1, <1>2, OtherRequests
<1>4. ReqOK(r)'
  BY <1>2, <1>3 DEF ReqOK, SaveSteps
<1>5. Types'
  BY <1>1, <1>3 DEF IInv, Types, rows
<1> QED BY <1>1, <1>3, <1>4, <1>5 DEF IInv

LEMMA StartGoogleSignInInv ==
    ASSUME IInv, NEW n \in Nonce, StartGoogleSignIn(n)
    PROVE  IInv' /\ Grows
<1>1. /\ Rows' /\ Grows
      /\ UNCHANGED <<rows, req, sent, events>>
  BY SameRows DEF StartGoogleSignIn
<1>2. cookie' \in Jar /\ begun' \subseteq Nonce
  BY DEF StartGoogleSignIn, IInv, Types, Jar
<1>3. Types'
  BY <1>1, <1>2 DEF IInv, Types, rows
<1>4. \A r \in Request : ReqOK(r)'
  BY <1>1 DEF IInv, ReqOK, rows
<1> QED BY <1>1, <1>3, <1>4 DEF IInv

LEMMA ReceiveInv ==
    ASSUME IInv, NEW r \in Request, Receive(r)
    PROVE  IInv' /\ Grows
<1>1. /\ Rows' /\ Grows
      /\ UNCHANGED <<rows, begun, sent, events>>
      /\ req' = [req EXCEPT ![r] = Idle]
  BY SameRows DEF Receive
<1>2. req[r].sets \in Sets
  BY AtStep DEF Receive, IInv, Reqs
<1>3. cookie' \in Jar
  BY <1>2, JarMerged DEF Receive, IInv, Types
<1>4. /\ DOMAIN req' = Request /\ req'[r] = Idle
      /\ \A q \in Request : q # r => ReqOK(q)'
  BY <1>1, OtherRequests
<1>5. ReqOK(r)'
  BY <1>4 DEF ReqOK
<1>6. Types'
  BY <1>1, <1>3, <1>4 DEF IInv, Types, rows
<1> QED BY <1>1, <1>4, <1>5, <1>6 DEF IInv

LEMMA LoseAnswerInv ==
    ASSUME IInv, NEW r \in Request, LoseAnswer(r)
    PROVE  IInv' /\ Grows
<1>1. /\ Rows' /\ Grows
      /\ UNCHANGED <<rows, cookie, begun, sent>>
      /\ events' \in 0 .. MaxEvents
      /\ req' = [req EXCEPT ![r] = Idle]
  BY SameRows, BoundsAssumption DEF LoseAnswer, Event, IInv, Types
<1>2. /\ DOMAIN req' = Request /\ req'[r] = Idle
      /\ \A q \in Request : q # r => ReqOK(q)'
  BY <1>1, OtherRequests
<1>3. ReqOK(r)'
  BY <1>2 DEF ReqOK
<1>4. Types'
  BY <1>1, <1>2 DEF IInv, Types, rows
<1> QED BY <1>1, <1>2, <1>3, <1>4 DEF IInv

\* Only cookies and the states of sessions change.
LEMMA ExpireInv ==
    ASSUME IInv, Expire
    PROVE  IInv' /\ Grows
<1>1. /\ UNCHANGED <<principal, owner, link, disabled, created, redeemed, begun, req, sent>>
      /\ events' \in 0 .. MaxEvents
  BY BoundsAssumption DEF Expire, Event, IInv, Types
<1>2. /\ cookie' \in Jar
      /\ SessionsKept
      /\ anonymous' \in [Principal -> SessionStates]
      /\ \A p \in Principal : anonymous'[p] = "absent" <=> anonymous[p] = "absent"
  <2>1. CASE cookie' = [cookie EXCEPT !.access = None] /\ UNCHANGED <<session, anonymous>>
    BY <2>1 DEF IInv, Types, Jar, SessionsKept
  <2>2. CASE /\ \E s \in Session :
                  /\ session[s].state \in {"live", "revoked"}
                  /\ session' = [session EXCEPT ![s].state = "expired"]
             /\ UNCHANGED <<cookie, anonymous>>
    BY <2>2 DEF IInv, Types, SessionStates, SessionsKept
  <2>3. CASE /\ \E p \in Principal : /\ anonymous[p] \in {"live", "revoked"}
                                     /\ anonymous' = [anonymous EXCEPT ![p] = "expired"]
             /\ UNCHANGED <<cookie, session>>
    BY <2>3 DEF IInv, Types, SessionStates, SessionsKept
  <2> QED BY <2>1, <2>2, <2>3 DEF Expire
<1>3. Rows' /\ Grows
  BY <1>1, <1>2, RowsKept
<1>4. Types'
  BY <1>1, <1>2 DEF IInv, Types, SessionsKept
<1>5. \A r \in Request : ReqOK(r)'
  <2> TAKE r \in Request
  <2>1. ReqOK(r) /\ req'[r] = req[r]
    BY <1>1 DEF IInv
  <2>2. req[r] # Idle => req[r].who \in Principal \cup {None}
    BY <2>1 DEF ReqOK, Reqs
  <2> QED BY <1>1, <1>2, <2>1, <2>2 DEF ReqOK, SaveSteps, SessionsKept
<1> QED BY <1>3, <1>4, <1>5 DEF IInv

LEMMA DisableInv ==
    ASSUME IInv, NEW e \in Email, Disable(e)
    PROVE  IInv' /\ Grows
<1>1. /\ UNCHANGED <<principal, anonymous, owner, link, session, created, redeemed,
                     cookie, begun, req, sent>>
      /\ disabled' \subseteq Email /\ events' \in 0 .. MaxEvents
  BY BoundsAssumption DEF Disable, Event, IInv, Types
<1>2. Rows' /\ Grows
  BY <1>1, RowsKept DEF SessionsKept, IInv, Types
<1>3. Types'
  BY <1>1 DEF IInv, Types
<1>4. \A r \in Request : ReqOK(r)'
  BY <1>1 DEF IInv, ReqOK
<1> QED BY <1>2, <1>3, <1>4 DEF IInv

-----------------------------------------------------------------------------
(* AuthSessionService. *)

\* A step that only moves the request of slot r to a step that knows nothing.
LEMMA MovesInv ==
    ASSUME IInv, NEW r \in Request, NEW v \in Reqs, req' = [req EXCEPT ![r] = v],
           v.step \in {"answered", "access", "user", "anonymous", "create", "logout"},
           UNCHANGED <<principal, anonymous, owner, link, disabled, created, cookie,
                       begun, sent, events>>,
           redeemed' \subseteq Nonce,
           SessionsKept
    PROVE  IInv' /\ Grows
<1>1. Rows' /\ Grows
  BY RowsKept
<1>2. /\ DOMAIN req' = Request /\ req'[r] = v
      /\ \A q \in Request : q # r => ReqOK(q)'
  BY <1>1, OtherRequests
<1>3. ReqOK(r)'
  BY <1>2, Answered
<1>4. Types'
  BY <1>2 DEF IInv, Types, SessionsKept
<1> QED BY <1>1, <1>2, <1>3, <1>4 DEF IInv

LEMMA RepliesInv ==
    ASSUME IInv, NEW r \in Request, NEW step, At(r, step), NEW f \in Sets, Reply(r, f),
           UNCHANGED <<principal, anonymous, owner, link, disabled, created, cookie,
                       begun, sent, events>>,
           redeemed' \subseteq Nonce,
           SessionsKept
    PROVE  IInv' /\ Grows
<1> DEFINE v == [req[r] EXCEPT !.step = "answered", !.sets = f]
<1>1. v \in Reqs /\ v.step = "answered"
  BY AtStep, Replying DEF IInv
<1>2. req' = [req EXCEPT ![r] = v]
  BY DEF Reply
<1> HIDE DEF v
<1> QED BY <1>1, <1>2, MovesInv

LEMMA GoesInv ==
    ASSUME IInv, NEW r \in Request, NEW step, At(r, step),
           NEW to \in {"user", "anonymous", "create"}, Goto(r, to),
           UNCHANGED <<principal, anonymous, owner, link, disabled, created, cookie,
                       begun, sent, events>>,
           redeemed' \subseteq Nonce,
           SessionsKept
    PROVE  IInv' /\ Grows
<1> DEFINE v == [req[r] EXCEPT !.step = to]
<1>1. v \in Reqs /\ v.step = to
  <2>1. to \in Steps
    BY DEF Steps
  <2> QED BY <2>1, AtStep, Going DEF IInv
<1>2. req' = [req EXCEPT ![r] = v]
  BY DEF Goto
<1> HIDE DEF v
<1> QED BY <1>1, <1>2, MovesInv

LEMMA CheckAccessInv ==
    ASSUME IInv, NEW r \in Request, CheckAccess(r)
    PROVE  IInv' /\ Grows
<1>1. /\ UNCHANGED <<rows, cookie, begun, sent, events>> /\ At(r, "access")
      /\ Reply(r, <<>>) \/ Goto(r, "user")
  BY DEF CheckAccess
<1>2. redeemed' \subseteq Nonce /\ SessionsKept
  BY <1>1 DEF rows, IInv, Types, SessionsKept
<1> QED BY <1>1, <1>2, EmptySets, RepliesInv, GoesInv DEF rows
\* What a request loads of a session is there, and stays there.
LEMMA LoadUserSessionInv ==
    ASSUME IInv, NEW r \in Request, LoadUserSession(r)
    PROVE  IInv' /\ Grows
<1> DEFINE s == req[r].jar.refresh
<1>1. /\ UNCHANGED <<principal, anonymous, owner, link, disabled, created, redeemed,
                     cookie, begun, sent, events>>
      /\ At(r, "user") /\ redeemed' \subseteq Nonce
      /\ session \in [Session -> [user : Email \cup {None}, state : SessionStates]]
  BY DEF LoadUserSession, IInv, Types
<1>2. req[r] \in Reqs /\ s \in Session \cup {None}
  BY <1>1, AtStep DEF IInv, Reqs, Jar
<1>3. CASE ~Found(s)
  <2>1. SessionsKept /\ Goto(r, "anonymous")
    BY <1>1, <1>3 DEF LoadUserSession, SessionsKept
  <2> QED BY <1>1, <2>1, GoesInv
<1>4. CASE Found(s) /\ session[s].user \in disabled
  <2>1. /\ session' = [session EXCEPT ![s].state = "revoked"] /\ Goto(r, "anonymous")
    BY <1>4 DEF LoadUserSession
  <2>2. SessionsKept
    BY <1>1, <1>4, <2>1 DEF SessionStates, SessionsKept, Found
  <2> QED BY <1>1, <2>1, <2>2, GoesInv
<1>5. CASE Found(s) /\ session[s].user \notin disabled
  <2> DEFINE p == owner[session[s].user]
             v == [req[r] EXCEPT !.step = "saveSession", !.session = s, !.who = p, !.seen = KindLoaded(p)]
  <2>1. req' = [req EXCEPT ![r] = v] /\ session' = session
    BY <1>5 DEF LoadUserSession
  <2>2. s \in Session /\ session[s].state = "live"
    BY <1>2, <1>5 DEF Found
  <2>3. session[s].user # None
    BY <2>2 DEF IInv, Rows, References
  <2>4. p \in Principal /\ principal[p] \in Kinds
    <3>1. session[s].user \in Email /\ owner[session[s].user] # None
      BY <1>1, <2>2, <2>3 DEF IInv, Rows, OneOwner
    <3> QED BY <3>1 DEF IInv, Types, Rows, References
  <2>5. v \in Reqs /\ v.step = "saveSession" /\ v.who = p /\ v.session = s
    BY <1>2, <2>2, <2>4 DEF Reqs, Steps, KindLoaded
  <2> HIDE DEF v, p
  <2>6. Rows' /\ Grows
    BY <1>1, <2>1, RowsKept DEF SessionsKept
  <2>7. /\ DOMAIN req' = Request /\ req'[r] = v
        /\ \A q \in Request : q # r => ReqOK(q)'
    BY <2>1, <2>6, OtherRequests
  <2>8. ReqOK(r)'
    BY <1>1, <2>2, <2>4, <2>5, <2>7 DEF ReqOK, SaveSteps, Kinds
  <2>9. Types'
    BY <1>1, <2>1, <2>7 DEF IInv, Types
  <2> QED BY <2>6, <2>7, <2>8, <2>9 DEF IInv
<1> QED BY <1>3, <1>4, <1>5

LEMMA SaveUserSessionInv ==
    ASSUME IInv, NEW r \in Request, SaveUserSession(r)
    PROVE  IInv' /\ Grows
<1> DEFINE v == [req[r] EXCEPT !.step = "savePrincipal"]
<1>1. /\ UNCHANGED <<principal, anonymous, owner, link, disabled, created, redeemed,
                     cookie, begun, sent, events>>
      /\ At(r, "saveSession") /\ req' = [req EXCEPT ![r] = v]
      /\ session' = [session EXCEPT ![req[r].session].state = Unrevoked(@)]
  BY DEF SaveUserSession, Goto
<1>2. /\ req[r] \in Reqs /\ req[r] # Idle /\ req[r].step = "saveSession" /\ ReqOK(r)
  BY <1>1, AtStep DEF IInv
<1>3. /\ req[r].who \in Principal /\ principal[req[r].who] # "absent"
      /\ req[r].session \in Session
  BY <1>2 DEF ReqOK, SaveSteps
<1>4. v \in Reqs /\ v.step = "savePrincipal" /\ v.who = req[r].who
  BY <1>2, Going, ZenonT(60) DEF Steps
<1>5. SessionsKept
  BY <1>1, ZenonT(60) DEF IInv, Types, Unrevoked, SessionStates, SessionsKept
<1> HIDE DEF v
<1>6. Rows' /\ Grows
  BY <1>1, <1>5, RowsKept
<1>7. /\ DOMAIN req' = Request /\ req'[r] = v
      /\ \A q \in Request : q # r => ReqOK(q)'
  BY <1>1, <1>6, OtherRequests
<1>8. ReqOK(r)'
  BY <1>1, <1>3, <1>4, <1>7 DEF ReqOK
<1>9. Types'
  BY <1>1, <1>5, <1>7 DEF IInv, Types, SessionsKept
<1> QED BY <1>6, <1>7, <1>8, <1>9 DEF IInv
\* A late save writes a kind: it may be the older one, but never none.
LEMMA KindSavedInv ==
    ASSUME IInv, NEW r \in Request, NEW step \in SaveSteps, At(r, step),
           principal' = [principal EXCEPT ![req[r].who] = req[r].seen],
           UNCHANGED <<anonymous, owner, link, session, disabled, created, redeemed,
                       cookie, begun, sent, events>>,
           NEW f \in Sets, Reply(r, f)
    PROVE  IInv' /\ Grows
<1> DEFINE v == [req[r] EXCEPT !.step = "answered", !.sets = f]
<1>1. /\ req[r] \in Reqs /\ req[r].who \in Principal /\ principal[req[r].who] # "absent"
      /\ req[r].seen \in Kinds
  BY AtStep DEF IInv, ReqOK, Reqs
<1>2. v \in Reqs /\ v.step = "answered"
  BY <1>1, Replying
<1>3. req' = [req EXCEPT ![r] = v]
  BY DEF Reply
<1> HIDE DEF v
<1>4. /\ principal' \in [Principal -> {"absent"} \cup Kinds]
      /\ \A p \in Principal : principal'[p] = "absent" <=> principal[p] = "absent"
  BY <1>1 DEF IInv, Types, Kinds
<1>5. Rows' /\ Grows
  BY <1>4, RowsKept DEF SessionsKept, IInv, Types
<1>6. /\ DOMAIN req' = Request /\ req'[r] = v
      /\ \A q \in Request : q # r => ReqOK(q)'
  BY <1>3, <1>5, OtherRequests
<1>7. ReqOK(r)'
  BY <1>2, <1>6, Answered
<1>8. Types'
  BY <1>4, <1>6 DEF IInv, Types
<1> QED BY <1>5, <1>6, <1>7, <1>8 DEF IInv

LEMMA SavePrincipalInv ==
    ASSUME IInv, NEW r \in Request, SavePrincipal(r) \/ SaveShopper(r)
    PROVE  IInv' /\ Grows
<1> DEFINE a == AccessTo(req[r].who, req[r].seen)
<1>1. PICK step \in {"savePrincipal", "saveShopper"} : At(r, step)
  BY DEF SavePrincipal, SaveShopper
<1>2. req[r] \in Reqs /\ req[r].who \in Principal
  BY <1>1, AtStep DEF IInv, ReqOK, SaveSteps
<1>3. a \in Access
  BY <1>2, Accesses DEF Reqs
<1> HIDE DEF a
<1>4. [access |-> a] \in Sets /\ [access |-> a, anonymous |-> req[r].who] \in Sets
  BY <1>2, <1>3, ManyCookies
<1>5. CASE SavePrincipal(r)
  <2>1. /\ Reply(r, [access |-> a])
        /\ principal' = [principal EXCEPT ![req[r].who] = req[r].seen]
        /\ UNCHANGED <<anonymous, owner, link, session, disabled, created, redeemed,
                       cookie, begun, sent, events>>
    BY <1>5 DEF SavePrincipal, a
  <2> QED BY <1>1, <1>4, <2>1, KindSavedInv DEF SaveSteps
<1>6. CASE SaveShopper(r)
  <2>1. /\ Reply(r, [access |-> a, anonymous |-> req[r].who])
        /\ principal' = [principal EXCEPT ![req[r].who] = req[r].seen]
        /\ UNCHANGED <<anonymous, owner, link, session, disabled, created, redeemed,
                       cookie, begun, sent, events>>
    BY <1>6 DEF SaveShopper, a
  <2> QED BY <1>1, <1>4, <2>1, KindSavedInv DEF SaveSteps
<1> QED BY <1>5, <1>6

LEMMA LoadAnonymousSessionInv ==
    ASSUME IInv, NEW r \in Request, LoadAnonymousSession(r)
    PROVE  IInv' /\ Grows
<1> DEFINE p == req[r].jar.anonymous
           v == [req[r] EXCEPT !.step = "saveAnonymous", !.who = p, !.seen = KindLoaded(p)]
<1>1. /\ UNCHANGED <<rows, cookie, begun, sent, events>> /\ At(r, "anonymous")
      /\ redeemed' \subseteq Nonce /\ SessionsKept
  BY DEF LoadAnonymousSession, rows, IInv, Types, SessionsKept
<1>2. req[r] \in Reqs /\ p \in Principal \cup {None}
  BY <1>1, AtStep DEF IInv, Reqs, Jar
<1>3. CASE ~(p # None /\ anonymous[p] = "live")
  <2>1. Goto(r, "create") \/ Reply(r, <<>>)
    BY <1>3 DEF LoadAnonymousSession
  <2> QED BY <1>1, <2>1, GoesInv, RepliesInv, EmptySets DEF rows
<1>4. CASE p # None /\ anonymous[p] = "live"
  <2>1. req' = [req EXCEPT ![r] = v]
    BY <1>4 DEF LoadAnonymousSession
  <2>2. p \in Principal /\ anonymous[p] # "absent" /\ principal[p] \in Kinds
    BY <1>2, <1>4 DEF IInv, Rows, References, Types
  <2>3. v \in Reqs /\ v.step = "saveAnonymous" /\ v.who = p
    BY <1>2, <2>2 DEF Reqs, Steps, KindLoaded
  <2> HIDE DEF v, p
  <2>4. Rows' /\ Grows
    BY <1>1, SameRows
  <2>5. /\ DOMAIN req' = Request /\ req'[r] = v
        /\ \A q \in Request : q # r => ReqOK(q)'
    BY <2>1, <2>4, OtherRequests
  <2>6. ReqOK(r)'
    BY <1>1, <2>2, <2>3, <2>5 DEF ReqOK, SaveSteps, Kinds, rows
  <2>7. Types'
    BY <1>1, <2>5 DEF IInv, Types, rows
  <2> QED BY <2>4, <2>5, <2>6, <2>7 DEF IInv
<1> QED BY <1>3, <1>4

LEMMA SaveAnonymousSessionInv ==
    ASSUME IInv, NEW r \in Request, SaveAnonymousSession(r)
    PROVE  IInv' /\ Grows
<1> DEFINE v == [req[r] EXCEPT !.step = "saveShopper"]
<1>1. /\ UNCHANGED <<principal, owner, link, session, disabled, created, redeemed,
                     cookie, begun, sent, events>>
      /\ At(r, "saveAnonymous") /\ req' = [req EXCEPT ![r] = v]
      /\ anonymous' = [anonymous EXCEPT ![req[r].who] = Unrevoked(@)]
  BY DEF SaveAnonymousSession, Goto
<1>2. /\ req[r] \in Reqs /\ req[r].who \in Principal
      /\ principal[req[r].who] # "absent" /\ anonymous[req[r].who] # "absent"
  BY <1>1, AtStep DEF IInv, ReqOK, SaveSteps
<1>3. v \in Reqs /\ v.step = "saveShopper" /\ v.who = req[r].who
  BY <1>2, Going, ZenonT(60) DEF Steps
<1> HIDE DEF v
<1>4. /\ anonymous' \in [Principal -> SessionStates]
      /\ \A p \in Principal : anonymous'[p] = "absent" <=> anonymous[p] = "absent"
  BY <1>1, <1>2 DEF IInv, Types, Unrevoked, SessionStates
<1>5. Rows' /\ Grows
  BY <1>1, <1>4, RowsKept DEF SessionsKept, IInv, Types
<1>6. /\ DOMAIN req' = Request /\ req'[r] = v
      /\ \A q \in Request : q # r => ReqOK(q)'
  BY <1>1, <1>5, OtherRequests
<1>7. ReqOK(r)'
  BY <1>1, <1>2, <1>3, <1>4, <1>6 DEF ReqOK
<1>8. Types'
  BY <1>1, <1>4, <1>6 DEF IInv, Types
<1> QED BY <1>5, <1>6, <1>7, <1>8 DEF IInv

\* A creation is counted, and the principal it pays for was not there before.
LEMMA CreateInv ==
    ASSUME IInv, NEW r \in Request, CreateAnonymousPrincipal(r)
    PROVE  IInv' /\ Grows
<1>1. /\ UNCHANGED <<owner, link, session, disabled, redeemed, cookie, begun, sent, events>>
      /\ At(r, "create") /\ redeemed' \subseteq Nonce /\ SessionsKept
  BY DEF CreateAnonymousPrincipal, IInv, Types, SessionsKept
<1>2. CASE ExceedsLimit(created + 1)
  <2>1. Reply(r, <<>>) /\ UNCHANGED <<created, principal, anonymous>>
    BY <1>2 DEF CreateAnonymousPrincipal
  <2> QED BY <1>1, <2>1, RepliesInv, EmptySets
<1>3. CASE ~ExceedsLimit(created + 1)
  <2>1. PICK p \in Principal :
          /\ principal[p] = "absent"
          /\ created' = created + 1
          /\ principal' = [principal EXCEPT ![p] = "anonymous"]
          /\ anonymous' = [anonymous EXCEPT ![p] = "live"]
          /\ Reply(r, [access |-> AccessTo(p, "anonymous"), anonymous |-> p])
    BY <1>3 DEF CreateAnonymousPrincipal
  <2> DEFINE f == [access |-> AccessTo(p, "anonymous"), anonymous |-> p]
             v == [req[r] EXCEPT !.step = "answered", !.sets = f]
  <2>2. f \in Sets
    BY Accesses, ManyCookies DEF Kinds
  <2> HIDE DEF f
  <2>3. req[r] \in Reqs /\ v \in Reqs /\ v.step = "answered"
    BY <1>1, <2>2, AtStep, Replying DEF IInv
  <2>4. req' = [req EXCEPT ![r] = v]
    BY <2>1 DEF Reply, f
  <2> HIDE DEF v
  <2>5. /\ principal' \in [Principal -> {"absent"} \cup Kinds]
        /\ anonymous' \in [Principal -> SessionStates]
        /\ principal'[p] = "anonymous" /\ anonymous'[p] = "live"
        /\ \A q \in Principal : q # p => principal'[q] = principal[q] /\ anonymous'[q] = anonymous[q]
    BY <2>1 DEF IInv, Types, Kinds, SessionStates
  <2>6. Shoppers' = Shoppers \cup {p} /\ p \notin Shoppers
    BY <2>1, <2>5 DEF Shoppers, IInv, Rows, References
  <2>7. /\ IsFiniteSet(Shoppers')
        /\ Cardinality(Shoppers') = Cardinality(Shoppers) + 1
    BY <2>6, FS_AddElement DEF IInv, Rows
  <2>8. QuotaHeld'
    <3>1. created' <= CreationLimit
      BY <1>3, <2>1, BoundsAssumption DEF ExceedsLimit, IInv, Types
    <3>2. created = Cardinality(Shoppers)
      BY DEF IInv, Rows, QuotaHeld, Shoppers
    <3> QED BY <2>1, <2>7, <3>1, <3>2 DEF QuotaHeld, Shoppers
  <2>9. OneOwner' /\ References'
    <3>1. OneOwner'
      BY <1>1 DEF IInv, Rows, OneOwner
    <3>2. References'
      BY <1>1, <2>5 DEF IInv, Rows, References, Types
    <3> QED BY <3>1, <3>2
  <2>10. Grows
    BY <1>1, <2>5 DEF Grows
  <2>11. /\ DOMAIN req' = Request /\ req'[r] = v
         /\ \A q \in Request : q # r => ReqOK(q)'
    BY <2>4, <2>10, OtherRequests
  <2>12. ReqOK(r)'
    BY <2>3, <2>11, Answered
  <2>13. Types'
    BY <1>1, <2>1, <2>5, <2>11 DEF IInv, Types
  <2> QED BY <2>7, <2>8, <2>9, <2>10, <2>11, <2>12, <2>13 DEF IInv, Rows
<1> QED BY <1>2, <1>3

-----------------------------------------------------------------------------
(* AuthController and OAuthSignInService. *)

LEMMA HandleGoogleCallbackInv ==
    ASSUME IInv, NEW r \in Request, HandleGoogleCallback(r)
    PROVE  IInv' /\ Grows
<1> DEFINE n == req[r].nonce
           v == [req[r] EXCEPT !.step = "identify"]
<1>1. /\ UNCHANGED <<principal, anonymous, owner, link, session, disabled, created,
                     cookie, begun, sent, events>>
      /\ At(r, "callback") /\ SessionsKept
  BY DEF HandleGoogleCallback, IInv, Types, SessionsKept
\* The nonce of a callback is one the browser was handed.
<1>2. req[r] \in Reqs /\ req[r].subject \in Subject /\ n \in Nonce /\ ~req[r].creates
  BY <1>1, AtStep DEF IInv, ReqOK
<1>3. CASE req[r].jar.state # n /\ Reply(r, <<>>) /\ UNCHANGED redeemed
  <2>1. redeemed' \subseteq Nonce
    BY <1>3 DEF IInv, Types
  <2> QED BY <1>1, <1>3, <2>1, RepliesInv, EmptySets
<1>4. ASSUME redeemed' \in {redeemed, redeemed \cup {n}} PROVE redeemed' \subseteq Nonce
  BY <1>2, <1>4 DEF IInv, Types
<1>5. CASE /\ req[r].jar.state = n /\ Reply(r, ClearState)
           /\ redeemed' \in {redeemed, redeemed \cup {n}}
  BY <1>1, <1>4, <1>5, RepliesInv, ManyCookies
<1>6. CASE req[r].jar.state = n /\ Goto(r, "identify") /\ redeemed' = redeemed \cup {n}
  <2>1. v \in Reqs /\ v.step = "identify" /\ v.subject = req[r].subject /\ ~v.creates
    BY <1>2, Going, ZenonT(60) DEF Steps
  <2>2. req' = [req EXCEPT ![r] = v]
    BY <1>6 DEF Goto
  <2> HIDE DEF v
  <2>3. Rows' /\ Grows
    BY <1>1, RowsKept
  <2>4. /\ DOMAIN req' = Request /\ req'[r] = v
        /\ \A q \in Request : q # r => ReqOK(q)'
    BY <2>2, <2>3, OtherRequests
  <2>5. ReqOK(r)'
    BY <1>2, <2>1, <2>4 DEF ReqOK, SaveSteps
  <2>6. Types'
    BY <1>1, <1>4, <1>6, <2>4 DEF IInv, Types
  <2> QED BY <2>3, <2>4, <2>5, <2>6 DEF IInv
<1> QED BY <1>3, <1>5, <1>6 DEF HandleGoogleCallback
\* The user to sign in has its principal; a new user takes over a shopper's.
LEMMA IdentifyInv ==
    ASSUME IInv, NEW r \in Request, Identify(r)
    PROVE  IInv' /\ Grows
<1> DEFINE s == req[r].subject
           e == EmailOf[s]
           p == req[r].jar.anonymous
<1>1. /\ UNCHANGED <<rows, cookie, begun, sent, events>>
      /\ At(r, "identify") /\ SessionsKept /\ redeemed' \subseteq Nonce
  BY DEF Identify, rows, IInv, Types, SessionsKept
<1>2. /\ req[r] \in Reqs /\ s \in Subject /\ e \in Email /\ p \in Principal \cup {None}
      /\ link[s] # None => link[s] \in Email /\ owner[link[s]] # None
      /\ Rows' /\ Grows
  <2>1. req[r] \in Reqs /\ s \in Subject
    BY <1>1, AtStep DEF IInv, ReqOK
  <2> QED BY <1>1, <2>1, SameRows, IdentityAssumption DEF Reqs, Jar, IInv, Types, Rows, References
<1>3. CASE Reply(r, ClearState)
  BY <1>1, <1>3, RepliesInv, ManyCookies DEF rows
<1>4. ASSUME NEW u \in Email, owner[u] # None,
             req' = [req EXCEPT ![r].step = "commit", ![r].user = u, ![r].who = owner[u],
                                ![r].creates = req[r].creates],
             ~req[r].creates
      PROVE  IInv' /\ Grows
  <2> DEFINE v == [req[r] EXCEPT !.step = "commit", !.user = u, !.who = owner[u],
                                 !.creates = req[r].creates]
  <2>1. owner[u] \in Principal
    BY <1>4 DEF IInv, Types
  <2>2. /\ v \in Reqs /\ v.step = "commit" /\ v.user = u /\ v.who = owner[u]
        /\ v.creates = FALSE /\ v.subject = s
    BY <1>2, <1>4, <2>1 DEF Reqs, Steps
  <2>3. req' = [req EXCEPT ![r] = v]
    BY <1>4
  <2> HIDE DEF v
  <2>4. /\ DOMAIN req' = Request /\ req'[r] = v
        /\ \A q \in Request : q # r => ReqOK(q)'
    BY <1>2, <2>3, OtherRequests
  <2>5. ReqOK(r)'
    BY <1>1, <1>2, <1>4, <2>1, <2>2, <2>4, ZenonT(60) DEF ReqOK, SaveSteps, rows
  <2>6. Types'
    BY <1>1, <2>4 DEF IInv, Types, rows
  <2> QED BY <1>2, <2>4, <2>5, <2>6 DEF IInv
<1>5. CASE req' = [req EXCEPT ![r].step = "commit", ![r].user = e,
                     ![r].who = IF p # None /\ anonymous[p] = "live" THEN p ELSE None,
                     ![r].creates = TRUE]
  <2> DEFINE w == IF p # None /\ anonymous[p] = "live" THEN p ELSE None
             v == [req[r] EXCEPT !.step = "commit", !.user = e, !.who = w, !.creates = TRUE]
  <2>1. w \in Principal \cup {None} /\ (w # None => anonymous[w] # "absent")
    BY <1>2
  <2>2. req' = [req EXCEPT ![r] = v]
    BY <1>5
  <2> HIDE DEF w
  <2>3. /\ v \in Reqs /\ v.step = "commit" /\ v.user = e /\ v.who = w
        /\ v.creates = TRUE /\ v.subject = s
    BY <1>2, <2>1 DEF Reqs, Steps
  <2> HIDE DEF v
  <2>4. /\ DOMAIN req' = Request /\ req'[r] = v
        /\ \A q \in Request : q # r => ReqOK(q)'
    BY <1>2, <2>2, OtherRequests
  <2>5. ReqOK(r)'
    BY <1>1, <1>2, <2>1, <2>3, <2>4 DEF ReqOK, SaveSteps, rows
  <2>6. Types'
    BY <1>1, <2>4 DEF IInv, Types, rows
  <2> QED BY <1>2, <2>4, <2>5, <2>6 DEF IInv
<1>6. ~req[r].creates
  BY <1>1, AtStep DEF IInv, ReqOK
<1>7. ASSUME NEW u \in Email, owner[u] # None,
             req' = [req EXCEPT ![r].step = "commit", ![r].user = u, ![r].who = owner[u]]
      PROVE  IInv' /\ Grows
  <2>1. req' = [req EXCEPT ![r].step = "commit", ![r].user = u, ![r].who = owner[u],
                           ![r].creates = req[r].creates]
    BY <1>2, <1>7 DEF Reqs
  <2> QED BY <1>4, <1>6, <1>7, <2>1
<1> HIDE DEF s, e, p
<1>8. \/ Reply(r, ClearState)
      \/ \E u \in Email : /\ owner[u] # None
                          /\ req' = [req EXCEPT ![r].step = "commit", ![r].user = u, ![r].who = owner[u]]
      \/ req' = [req EXCEPT ![r].step = "commit", ![r].user = e,
                     ![r].who = IF p # None /\ anonymous[p] = "live" THEN p ELSE None,
                     ![r].creates = TRUE]
  <2>1. CASE link[s] # None
    BY <1>2, <2>1 DEF Identify, s, e, p
  <2>2. CASE link[s] = None /\ owner[e] # None
    BY <1>2, <2>2 DEF Identify, s, e, p
  <2>3. CASE link[s] = None /\ owner[e] = None
    BY <1>2, <2>3 DEF Identify, s, e, p
  <2> QED BY <2>1, <2>2, <2>3
<1> QED BY <1>3, <1>5, <1>7, <1>8

\* The unique indexes keep principals apart: the committed user's is nobody else's.
LEMMA CommitSignInInv ==
    ASSUME IInv, NEW r \in Request, CommitSignIn(r)
    PROVE  IInv' /\ Grows
<1> DEFINE s == req[r].subject
           e == req[r].user
<1>1. PICK p \in Principal, t \in Session :
        /\ IF req[r].who # None THEN p = req[r].who ELSE principal[p] = "absent"
        /\ session[t].state = "absent"
        /\ principal' = [principal EXCEPT ![p] = "user"]
        /\ owner' = [owner EXCEPT ![e] = p]
        /\ link' = [link EXCEPT ![s] = e]
        /\ anonymous' = IF req[r].creates /\ req[r].who # None
                        THEN [anonymous EXCEPT ![p] = Revoked(@)] ELSE anonymous
        /\ session' = [session EXCEPT ![t] = [user |-> e, state |-> "live"]]
        /\ Reply(r, [access |-> AccessTo(p, "user"), refresh |-> t,
                     anonymous |-> None, state |-> None])
  BY DEF CommitSignIn
<1>2. /\ UNCHANGED <<disabled, created, redeemed, cookie, begun, sent, events>>
      /\ At(r, "commit") /\ ~Conflicts(r)
  BY DEF CommitSignIn
<1>3. /\ req[r] \in Reqs /\ s \in Subject /\ e \in Email
      /\ ~req[r].creates => req[r].who # None /\ owner[e] = req[r].who
      /\ req[r].creates /\ req[r].who # None => anonymous[req[r].who] # "absent"
  BY <1>2, AtStep DEF IInv, ReqOK
<1>4. /\ owner[e] # None => owner[e] = p
      /\ \A d \in Email : d # e /\ owner[d] # None => owner[d] # p
      /\ principal[p] = "absent" \/ p = req[r].who
      /\ req[r].creates /\ req[r].who # None => anonymous[p] # "absent"
  <2>1. CASE req[r].creates
    <3>1. owner[e] = None /\ req[r].who \notin {owner[d] : d \in Email} \ {None}
      BY <1>2, <2>1 DEF Conflicts
    <3>2. CASE req[r].who # None
      BY <1>1, <1>3, <2>1, <3>1, <3>2
    <3>3. CASE req[r].who = None
      <4>1. principal[p] = "absent"
        BY <1>1, <3>3
      <4> QED BY <3>1, <3>3, <4>1 DEF IInv, Rows, References
    <3> QED BY <3>2, <3>3
  <2>2. CASE ~req[r].creates
    BY <1>1, <1>3, <2>2 DEF IInv, Rows, OneOwner
  <2> QED BY <2>1, <2>2
<1> DEFINE f == [access |-> AccessTo(p, "user"), refresh |-> t, anonymous |-> None, state |-> None]
           v == [req[r] EXCEPT !.step = "answered", !.sets = f]
<1>5. v \in Reqs /\ v.step = "answered" /\ req' = [req EXCEPT ![r] = v]
  <2>1. f \in Sets
    BY Accesses, ManyCookies DEF Kinds
  <2>2. Reply(r, f)
    BY <1>1
  <2> HIDE DEF f
  <2> QED BY <1>3, <2>1, <2>2, Replying DEF Reply
<1> HIDE DEF v, f, e, s
<1>6. /\ principal' \in [Principal -> {"absent"} \cup Kinds]
      /\ principal'[p] = "user" /\ \A q \in Principal : q # p => principal'[q] = principal[q]
  BY <1>1 DEF IInv, Types, Kinds
<1>7. /\ owner' \in [Email -> Principal \cup {None}]
      /\ owner'[e] = p /\ \A d \in Email : d # e => owner'[d] = owner[d]
  BY <1>1, <1>3 DEF IInv, Types, e
<1>8. /\ link' \in [Subject -> Email \cup {None}]
      /\ link'[s] = e /\ \A q \in Subject : q # s => link'[q] = link[q]
  BY <1>1, <1>3 DEF IInv, Types, e, s
<1>9. /\ session' \in [Session -> [user : Email \cup {None}, state : SessionStates]]
      /\ session'[t].user = e /\ session'[t].state = "live"
      /\ \A q \in Session : q # t => session'[q] = session[q]
  BY <1>1, <1>3 DEF IInv, Types, SessionStates, e
<1>10. /\ anonymous' \in [Principal -> SessionStates]
       /\ \A q \in Principal : anonymous'[q] = "absent" <=> anonymous[q] = "absent"
  <2>1. CASE req[r].creates /\ req[r].who # None
    BY <1>1, <1>4, <2>1 DEF IInv, Types, Revoked, SessionStates
  <2>2. CASE ~(req[r].creates /\ req[r].who # None)
    BY <1>1, <2>2 DEF IInv, Types
  <2> QED BY <2>1, <2>2
<1>11. p # None /\ e # None
  BY <1>3, NoneAssumption DEF e
<1>12. Grows
  <2>1. \A q \in Session : session[q].state # "absent" => session'[q].state # "absent"
    BY <1>1, <1>9
  <2> QED BY <1>4, <1>6, <1>7, <1>10, <1>3, <2>1 DEF Grows, e
<1>13. OneOwner'
  <2>1. \A d, c \in Email : d # c /\ owner'[d] # None => owner'[d] # owner'[c]
    BY <1>3, <1>4, <1>7, <1>11 DEF IInv, Rows, OneOwner, e
  <2>2. \A q \in Session : session'[q].user # None => owner'[session'[q].user] # None
    <3> TAKE q \in Session
    <3>1. CASE q = t
      BY <3>1, <1>7, <1>9, <1>11
    <3>2. CASE q # t
      <4>1. session[q].user \in Email \cup {None}
        BY DEF IInv, Types
      <4> QED BY <3>2, <4>1, <1>7, <1>9, <1>11 DEF IInv, Rows, OneOwner
    <3> QED BY <3>1, <3>2
  <2> QED BY <2>1, <2>2 DEF OneOwner
<1>14. References'
  <2>1. \A q \in Principal : principal'[q] = "absent" => anonymous'[q] = "absent"
    BY <1>6, <1>10 DEF IInv, Rows, References
  <2>2. \A d \in Email : owner'[d] # None => principal'[owner'[d]] # "absent"
    <3> TAKE d \in Email
    <3>1. owner[d] \in Principal \cup {None}
      BY DEF IInv, Types
    <3> QED BY <3>1, <1>6, <1>7 DEF IInv, Rows, References
  <2>3. \A q \in Subject : link'[q] # None => owner'[link'[q]] # None
    <3> TAKE q \in Subject
    <3>1. link[q] \in Email \cup {None}
      BY DEF IInv, Types
    <3> QED BY <3>1, <1>7, <1>8, <1>11 DEF IInv, Rows, References
  <2>4. \A q \in Session : session'[q].state # "absent" => session'[q].user # None
    BY <1>9, <1>11 DEF IInv, Rows, References
  <2> QED BY <2>1, <2>2, <2>3, <2>4 DEF References
<1>15. QuotaHeld' /\ IsFiniteSet(Shoppers')
  <2>1. Shoppers' = Shoppers
    BY <1>10 DEF Shoppers
  <2> QED BY <2>1, <1>2 DEF IInv, Rows, QuotaHeld, Shoppers
<1>16. /\ DOMAIN req' = Request /\ req'[r] = v
       /\ \A q \in Request : q # r => ReqOK(q)'
  BY <1>5, <1>12, OtherRequests
<1>17. ReqOK(r)'
  BY <1>5, <1>16, Answered
<1>18. Types'
  BY <1>2, <1>6, <1>7, <1>8, <1>9, <1>10, <1>16 DEF IInv, Types
<1> QED BY <1>12, <1>13, <1>14, <1>15, <1>16, <1>17, <1>18 DEF IInv, Rows

LEMMA RollBackSignInInv ==
    ASSUME IInv, NEW r \in Request, RollBackSignIn(r)
    PROVE  IInv' /\ Grows
<1>1. /\ UNCHANGED <<rows, cookie, begun, sent, events>>
      /\ At(r, "commit") /\ Reply(r, ClearState)
      /\ redeemed' \subseteq Nonce /\ SessionsKept
  BY DEF RollBackSignIn, rows, IInv, Types, SessionsKept
<1> QED BY <1>1, RepliesInv, ManyCookies DEF rows

-----------------------------------------------------------------------------
(* UserAuthService.logout. *)

LEMMA LogoutInv ==
    ASSUME IInv, NEW r \in Request, Logout(r)
    PROVE  IInv' /\ Grows
<1> DEFINE v == [req[r] EXCEPT !.step = "revoke"]
<1>1. /\ UNCHANGED <<rows, cookie, begun, sent, events>> /\ At(r, "logout")
      /\ redeemed' \subseteq Nonce /\ SessionsKept
  BY DEF Logout, rows, IInv, Types, SessionsKept
<1>2. req[r] \in Reqs /\ req[r].jar.refresh \in Session \cup {None}
  BY <1>1, AtStep DEF IInv, Reqs, Jar
<1>3. CASE Reply(r, SignedOut)
  BY <1>1, <1>3, RepliesInv, ManyCookies DEF rows
<1>4. CASE /\ req[r].jar.refresh # None /\ Goto(r, "revoke")
           /\ session[req[r].jar.refresh].state \in {"live", "expired"}
  <2>1. v \in Reqs /\ v.step = "revoke" /\ v.jar = req[r].jar
    BY <1>2, Going DEF Steps
  <2>2. req' = [req EXCEPT ![r] = v]
    BY <1>4 DEF Goto
  <2> HIDE DEF v
  <2>3. Rows' /\ Grows
    BY <1>1, SameRows
  <2>4. /\ DOMAIN req' = Request /\ req'[r] = v
        /\ \A q \in Request : q # r => ReqOK(q)'
    BY <2>2, <2>3, OtherRequests
  <2>5. ReqOK(r)'
    BY <1>1, <1>2, <1>4, <2>1, <2>4 DEF ReqOK, SaveSteps, rows
  <2>6. Types'
    BY <1>1, <2>4 DEF IInv, Types, rows
  <2> QED BY <2>3, <2>4, <2>5, <2>6 DEF IInv
<1> QED BY <1>3, <1>4 DEF Logout

LEMMA RevokeSessionInv ==
    ASSUME IInv, NEW r \in Request, RevokeSession(r)
    PROVE  IInv' /\ Grows
<1>1. /\ UNCHANGED <<principal, anonymous, owner, link, disabled, created, redeemed,
                     cookie, begun, sent, events>>
      /\ At(r, "revoke") /\ Reply(r, SignedOut) /\ redeemed' \subseteq Nonce
      /\ session' = [session EXCEPT ![req[r].jar.refresh].state = Revoked(@)]
  BY DEF RevokeSession, IInv, Types
<1>2. req[r].jar.refresh \in Session /\ session[req[r].jar.refresh].state # "absent"
  BY <1>1, AtStep DEF IInv, ReqOK
<1>3. SessionsKept
  BY <1>1, <1>2 DEF SessionsKept, IInv, Types, Revoked, SessionStates
<1> QED BY <1>1, <1>3, RepliesInv, ManyCookies

-----------------------------------------------------------------------------
(* The theorems. *)

LEMMA NextInv == IInv /\ [Next]_vars => IInv' /\ Grows
<1> SUFFICES ASSUME IInv, [Next]_vars PROVE IInv' /\ Grows
  OBVIOUS
<1>1. ASSUME NEW r \in Request, Handle(r) PROVE IInv' /\ Grows
  BY <1>1, CheckAccessInv, LoadUserSessionInv, SaveUserSessionInv, SavePrincipalInv,
     LoadAnonymousSessionInv, SaveAnonymousSessionInv, CreateInv, HandleGoogleCallbackInv,
     IdentifyInv, CommitSignInInv, RollBackSignInInv, LogoutInv, RevokeSessionInv,
     ReceiveInv DEF Handle
<1>2. CASE UNCHANGED vars
  <2>1. UNCHANGED <<rows, cookie, begun, req, sent, events>>
    BY <1>2 DEF vars, rows
  <2>2. Rows' /\ Grows
    BY <2>1, SameRows
  <2>3. Types' /\ \A r \in Request : ReqOK(r)'
    BY <2>1 DEF IInv, Types, ReqOK, rows
  <2> QED BY <2>2, <2>3 DEF IInv
<1> QED BY <1>1, <1>2, SendInv, LoseAnswerInv, StartGoogleSignInInv, ExpireInv, DisableInv
        DEF Next

THEOREM Invariance == Spec => []IInv
BY InitInv, NextInv, PTL DEF Spec

\* Rows, cookies and the steps of requests are well formed.
THEOREM TypeCorrect == Spec => []TypeOK
<1>1. IInv => TypeOK
  <2>1. \A r \in Request : ReqOK(r) => req[r] = Idle \/ req[r].step \in Steps
    BY DEF ReqOK, Reqs
  <2> QED BY <2>1 DEF IInv, Types, TypeOK
<1> QED BY <1>1, Invariance, PTL

\* The quota's count is the number of shoppers created, and stays within the limit.
THEOREM QuotaIsHeld == Spec => []QuotaHeld
<1>1. IInv => QuotaHeld
  BY DEF IInv, Rows
<1> QED BY <1>1, Invariance, PTL

\* No two users share a principal, and the user of every session has one.
THEOREM OneOwnerEach == Spec => []OneOwner
<1>1. IInv => OneOwner
  BY DEF IInv, Rows
<1> QED BY <1>1, Invariance, PTL

\* A user keeps its principal for good.
THEOREM OwnersStay == Spec => OwnersFixed
<1>1. IInv /\ [Next]_vars =>
        [\A e \in Email : owner[e] # None => owner'[e] = owner[e]]_vars
  BY NextInv DEF Grows
<1> QED BY <1>1, Invariance, PTL DEF Spec, OwnersFixed

-----------------------------------------------------------------------------
(* Late saves come to an end: a revocation, and an upgrade of an anonymous *)
(* principal, are final once the requests that had loaded the rows before  *)
(* are through.                                                            *)

Over == {"revoked", "expired"}

\* What the step of a request leaves alone: other requests, sessions that are over,
\* principals of users.
Others(r) == \A q \in Request : q # r => req'[q] = req[q]
StayOver == \A s \in Session : session[s].state \in Over => session'[s].state \in Over
StayUsers == \A p \in Principal : principal[p] = "user" => principal'[p] = "user"

Settles ==
    /\ \A s \in Session : RevokedForGood(s) => RevokedForGood(s)'
    /\ \A p \in Principal : UpgradedForGood(p) => UpgradedForGood(p)'

-----------------------------------------------------------------------------
(* Steps that begin no save. *)

LEMMA QuietStep ==
    ASSUME NEW r \in Request, Others(r), ~Saving(r)', StayOver, StayUsers
    PROVE  Settles
<1>1. \A q \in Request : Saving(q)' => q # r /\ Saving(q) /\ req'[q] = req[q]
  BY DEF Others, Saving
<1> QED BY <1>1 DEF Settles, RevokedForGood, UpgradedForGood, StayOver, StayUsers, Over

LEMMA Changing ==
    ASSUME IInv, NEW r \in Request, NEW v, req' = [req EXCEPT ![r] = v]
    PROVE  Others(r) /\ req'[r] = v
BY DEF IInv, Types, Others

LEMMA QuietMove ==
    ASSUME IInv, NEW r \in Request, NEW place, At(r, place),
           NEW f, NEW step \in Steps \ SaveSteps,
           Goto(r, step) \/ Reply(r, f)
    PROVE  Others(r) /\ ~Saving(r)'
<1>1. req[r] \in Reqs
  BY AtStep DEF IInv
<1>2. CASE Goto(r, step)
  <2> DEFINE v == [req[r] EXCEPT !.step = step]
  <2>1. v.step = step
    BY <1>1 DEF Reqs
  <2>2. req' = [req EXCEPT ![r] = v]
    BY <1>2 DEF Goto
  <2> HIDE DEF v
  <2> QED BY <2>1, <2>2, Changing DEF Saving
<1>3. CASE Reply(r, f)
  <2> DEFINE v == [req[r] EXCEPT !.step = "answered", !.sets = f]
  <2>1. v.step = "answered"
    BY <1>1 DEF Reqs
  <2>2. req' = [req EXCEPT ![r] = v]
    BY <1>3 DEF Reply
  <2> HIDE DEF v
  <2> QED BY <2>1, <2>2, Changing DEF Saving, SaveSteps
<1> QED BY <1>2, <1>3

\* A request that moves on, while no session and no principal goes back.
LEMMA QuietMoveSettles ==
    ASSUME IInv, NEW r \in Request, NEW place, At(r, place),
           NEW f, NEW step \in Steps \ SaveSteps,
           Goto(r, step) \/ Reply(r, f), StayOver, StayUsers
    PROVE  Settles
BY QuietMove, QuietStep

LEMMA SameStays ==
    /\ session' = session => StayOver
    /\ principal' = principal => StayUsers
BY DEF StayOver, StayUsers

-----------------------------------------------------------------------------
(* The browser and the world. *)

LEMMA SendSettles ==
    ASSUME IInv, NEW r \in Request, Send(r)
    PROVE  Settles
<1>1. ASSUME NEW kind, NEW step \in {"access", "logout", "callback"}, NEW n, NEW s
      PROVE  NewRequest(kind, step, n, s).step = step
  BY DEF NewRequest
<1>2. ASSUME NEW kind, NEW step \in {"access", "logout", "callback"}, NEW n, NEW s,
             req' = [req EXCEPT ![r] = NewRequest(kind, step, n, s)]
      PROVE  Others(r) /\ ~Saving(r)'
  <2> DEFINE v == NewRequest(kind, step, n, s)
  <2>1. v.step = step
    BY <1>1
  <2>2. req' = [req EXCEPT ![r] = v]
    BY <1>2
  <2> HIDE DEF v
  <2> QED BY <2>1, <2>2, Changing DEF Saving, SaveSteps
<1>3. Others(r) /\ ~Saving(r)'
  <2>1. CASE req' = [req EXCEPT ![r] = NewRequest("session", "access", None, None)]
    BY <1>2, <2>1
  <2>2. CASE req' = [req EXCEPT ![r] = NewRequest("shopper", "access", None, None)]
    BY <1>2, <2>2
  <2>3. CASE req' = [req EXCEPT ![r] = NewRequest("logout", "logout", None, None)]
    BY <1>2, <2>3
  <2>4. ASSUME NEW n \in begun, NEW s \in Subject,
               req' = [req EXCEPT ![r] = NewRequest("callback", "callback", n, s)]
        PROVE  Others(r) /\ ~Saving(r)'
    BY <1>2, <2>4
  <2> QED BY <2>1, <2>2, <2>3, <2>4 DEF Send
<1>4. StayOver /\ StayUsers
  BY SameStays DEF Send, rows
<1> QED BY <1>3, <1>4, QuietStep

LEMMA ForgottenSettles ==
    ASSUME IInv, NEW r \in Request, req' = [req EXCEPT ![r] = Idle],
           UNCHANGED <<session, principal>>
    PROVE  Settles
<1>1. Others(r) /\ ~Saving(r)'
  BY Changing, IdleFacts DEF Saving
<1>2. StayOver /\ StayUsers
  BY SameStays
<1> QED BY <1>1, <1>2, QuietStep

\* No request moves.
LEMMA RestSettles ==
    ASSUME req' = req, StayOver, StayUsers
    PROVE  Settles
BY DEF Settles, RevokedForGood, UpgradedForGood, StayOver, StayUsers, Over, Saving

LEMMA ExpireSettles ==
    ASSUME IInv, Expire
    PROVE  Settles
<1>1. req' = req /\ StayUsers
  BY SameStays DEF Expire
<1>2. StayOver
  <2>1. session \in [Session -> [user : Email \cup {None}, state : SessionStates]]
    BY DEF IInv, Types
  <2>2. CASE session' = session
    BY <2>2, SameStays
  <2>3. ASSUME NEW s \in Session, session' = [session EXCEPT ![s].state = "expired"]
        PROVE  StayOver
    BY <2>1, <2>3 DEF StayOver, Over
  <2> QED BY <2>2, <2>3 DEF Expire
<1> QED BY <1>1, <1>2, RestSettles

-----------------------------------------------------------------------------
(* Steps of a handler that begin no save. *)

LEMMA QuietHandlers ==
    ASSUME IInv, NEW r \in Request,
           \/ CheckAccess(r) \/ HandleGoogleCallback(r) \/ RollBackSignIn(r) \/ Logout(r)
    PROVE  Settles
<1>1. PICK place : At(r, place)
  BY DEF CheckAccess, HandleGoogleCallback, RollBackSignIn, Logout
<1>2. PICK step, f : step \in {"user", "identify", "revoke"} /\ (Goto(r, step) \/ Reply(r, f))
  BY DEF CheckAccess, HandleGoogleCallback, RollBackSignIn, Logout
<1>3. step \in Steps \ SaveSteps
  BY <1>2 DEF Steps, SaveSteps
<1>4. StayOver /\ StayUsers
  BY SameStays DEF CheckAccess, HandleGoogleCallback, RollBackSignIn, Logout, rows
<1> QED BY <1>1, <1>2, <1>3, <1>4, QuietMoveSettles

LEMMA IdentifySettles ==
    ASSUME IInv, NEW r \in Request, Identify(r)
    PROVE  Settles
<1>1. At(r, "identify") /\ StayOver /\ StayUsers
  BY SameStays DEF Identify, rows
<1>2. req[r] \in Reqs
  BY <1>1, AtStep DEF IInv
<1>3. CASE Reply(r, ClearState)
  BY <1>1, <1>3, QuietMoveSettles DEF Steps, SaveSteps
<1>4. ASSUME NEW u, NEW w, NEW b,
             \/ req' = [req EXCEPT ![r].step = "commit", ![r].user = u, ![r].who = w]
             \/ req' = [req EXCEPT ![r].step = "commit", ![r].user = u, ![r].who = w,
                                   ![r].creates = b]
      PROVE  Settles
  <2> DEFINE v == [req[r] EXCEPT !.step = "commit", !.user = u, !.who = w]
             x == [req[r] EXCEPT !.step = "commit", !.user = u, !.who = w, !.creates = b]
  <2>1. v.step = "commit" /\ x.step = "commit"
    BY <1>2 DEF Reqs
  <2>2. req' = [req EXCEPT ![r] = v] \/ req' = [req EXCEPT ![r] = x]
    BY <1>4
  <2> HIDE DEF v, x
  <2>3. Others(r) /\ (req'[r] = v \/ req'[r] = x)
    BY <2>2, Changing
  <2>4. ~Saving(r)'
    BY <2>1, <2>3 DEF Saving, SaveSteps
  <2> QED BY <1>1, <2>3, <2>4, QuietStep
<1> DEFINE s == req[r].subject
           e == EmailOf[s]
           p == IF req[r].jar.anonymous # None /\ anonymous[req[r].jar.anonymous] = "live"
                THEN req[r].jar.anonymous ELSE None
<1>5. \/ Reply(r, ClearState)
      \/ req' = [req EXCEPT ![r].step = "commit", ![r].user = link[s],
                            ![r].who = owner[link[s]]]
      \/ req' = [req EXCEPT ![r].step = "commit", ![r].user = e, ![r].who = owner[e]]
      \/ req' = [req EXCEPT ![r].step = "commit", ![r].user = e, ![r].who = p,
                            ![r].creates = TRUE]
  BY DEF Identify
<1> HIDE DEF s, e, p
<1>6. CASE req' = [req EXCEPT ![r].step = "commit", ![r].user = link[s],
                              ![r].who = owner[link[s]]]
  BY <1>4, <1>6
<1>7. CASE req' = [req EXCEPT ![r].step = "commit", ![r].user = e, ![r].who = owner[e]]
  BY <1>4, <1>7
<1>8. CASE req' = [req EXCEPT ![r].step = "commit", ![r].user = e, ![r].who = p,
                              ![r].creates = TRUE]
  BY <1>4, <1>8
<1> QED BY <1>3, <1>5, <1>6, <1>7, <1>8

LEMMA CreateSettles ==
    ASSUME IInv, NEW r \in Request, CreateAnonymousPrincipal(r)
    PROVE  Settles
<1>1. At(r, "create") /\ session' = session
  BY DEF CreateAnonymousPrincipal
<1>2. PICK f : Reply(r, f)
  BY DEF CreateAnonymousPrincipal
<1>3. StayUsers
  <2>1. CASE principal' = principal
    BY <2>1, SameStays
  <2>2. ASSUME NEW p \in Principal, principal[p] = "absent",
               principal' = [principal EXCEPT ![p] = "anonymous"]
        PROVE  StayUsers
    BY <2>2 DEF StayUsers, IInv, Types
  <2> QED BY <2>1, <2>2 DEF CreateAnonymousPrincipal
<1>4. "answered" \in Steps \ SaveSteps
  BY DEF Steps, SaveSteps
<1> QED BY <1>1, <1>2, <1>3, <1>4, SameStays, QuietMoveSettles

\* A session that begins was not there before; the principal becomes a user's.
LEMMA CommitSettles ==
    ASSUME IInv, NEW r \in Request, CommitSignIn(r)
    PROVE  Settles
<1> DEFINE e == req[r].user
<1>1. At(r, "commit")
  BY DEF CommitSignIn
<1>2. PICK p \in Principal, t \in Session :
        /\ session[t].state = "absent"
        /\ principal' = [principal EXCEPT ![p] = "user"]
        /\ session' = [session EXCEPT ![t] = [user |-> e, state |-> "live"]]
        /\ Reply(r, [access |-> AccessTo(p, "user"), refresh |-> t,
                     anonymous |-> None, state |-> None])
  BY DEF CommitSignIn
<1>3. StayOver
  BY <1>2 DEF StayOver, Over, IInv, Types
<1>4. StayUsers
  BY <1>2 DEF StayUsers, IInv, Types
<1>5. "answered" \in Steps \ SaveSteps
  BY DEF Steps, SaveSteps
<1> QED BY <1>1, <1>2, <1>3, <1>4, <1>5, QuietMoveSettles

LEMMA RevokeSettles ==
    ASSUME IInv, NEW r \in Request, RevokeSession(r)
    PROVE  Settles
<1>1. At(r, "revoke") /\ Reply(r, SignedOut) /\ principal' = principal
      /\ session' = [session EXCEPT ![req[r].jar.refresh].state = Revoked(@)]
  BY DEF RevokeSession
<1>2. req[r].jar.refresh \in Session
  BY <1>1, AtStep DEF IInv, ReqOK
<1>3. StayOver
  BY <1>1, <1>2 DEF StayOver, Over, IInv, Types, Revoked
<1>4. "answered" \in Steps \ SaveSteps
  BY DEF Steps, SaveSteps
<1> QED BY <1>1, <1>3, <1>4, SameStays, QuietMoveSettles

-----------------------------------------------------------------------------
(* Loads and saves: what is loaded is neither over nor out of date, and what is *)
(* saved was loaded by a request that the premises speak of.                *)

LEMMA LoadUserSettles ==
    ASSUME IInv, NEW r \in Request, LoadUserSession(r)
    PROVE  Settles
<1> DEFINE s == req[r].jar.refresh
<1>1. At(r, "user") /\ principal' = principal
  BY DEF LoadUserSession
<1>2. req[r] \in Reqs /\ s \in Session \cup {None}
  BY <1>1, AtStep DEF IInv, Reqs, Jar
<1>3. "anonymous" \in Steps \ SaveSteps
  BY DEF Steps, SaveSteps
<1>4. CASE ~Found(s)
  <2>1. Goto(r, "anonymous") /\ session' = session
    BY <1>4 DEF LoadUserSession
  <2> QED BY <1>1, <1>3, <2>1, SameStays, QuietMoveSettles
<1>5. CASE Found(s) /\ session[s].user \in disabled
  <2>1. session' = [session EXCEPT ![s].state = "revoked"] /\ Goto(r, "anonymous")
    BY <1>5 DEF LoadUserSession
  <2>2. StayOver
    BY <2>1 DEF StayOver, Over, IInv, Types
  <2> QED BY <1>1, <1>3, <2>1, <2>2, SameStays, QuietMoveSettles
<1>6. CASE Found(s) /\ session[s].user \notin disabled
  <2> DEFINE p == owner[session[s].user]
             v == [req[r] EXCEPT !.step = "saveSession", !.session = s, !.who = p,
                                 !.seen = KindLoaded(p)]
  <2>1. req' = [req EXCEPT ![r] = v] /\ session' = session
    BY <1>6 DEF LoadUserSession
  <2>2. session[s].state = "live"
    BY <1>6 DEF Found
  <2>3. v.session = s /\ v.who = p /\ v.seen = principal[p]
    BY <1>2 DEF Reqs, KindLoaded
  <2> HIDE DEF v, p
  <2>4. Others(r) /\ req'[r] = v
    BY <2>1, Changing
  <2>5. \A q \in Request : q # r => (Saving(q)' <=> Saving(q))
    BY <2>4 DEF Others, Saving
  <2>6. ASSUME NEW t \in Session, RevokedForGood(t) PROVE RevokedForGood(t)'
    BY <2>1, <2>2, <2>3, <2>4, <2>5, <2>6 DEF RevokedForGood, Others
  <2>7. ASSUME NEW x \in Principal, UpgradedForGood(x) PROVE UpgradedForGood(x)'
    BY <1>1, <2>3, <2>4, <2>5, <2>7 DEF UpgradedForGood, Others
  <2> QED BY <2>6, <2>7 DEF Settles
<1> QED BY <1>4, <1>5, <1>6

LEMMA LoadAnonymousSettles ==
    ASSUME IInv, NEW r \in Request, LoadAnonymousSession(r)
    PROVE  Settles
<1> DEFINE p == req[r].jar.anonymous
           v == [req[r] EXCEPT !.step = "saveAnonymous", !.who = p, !.seen = KindLoaded(p)]
<1>1. At(r, "anonymous") /\ principal' = principal /\ session' = session
  BY DEF LoadAnonymousSession, rows
<1>2. req[r] \in Reqs
  BY <1>1, AtStep DEF IInv
<1>3. CASE Goto(r, "create") \/ Reply(r, <<>>)
  <2>1. "create" \in Steps \ SaveSteps
    BY DEF Steps, SaveSteps
  <2> QED BY <1>1, <1>3, <2>1, SameStays, QuietMoveSettles
<1>4. CASE req' = [req EXCEPT ![r] = v]
  <2>1. v.step = "saveAnonymous" /\ v.who = p /\ v.seen = principal[p]
    BY <1>2 DEF Reqs, KindLoaded
  <2> HIDE DEF v, p
  <2>2. Others(r) /\ req'[r] = v
    BY <1>4, Changing
  <2>3. \A q \in Request : q # r => (Saving(q)' <=> Saving(q))
    BY <2>2 DEF Others, Saving
  <2>4. ASSUME NEW t \in Session, RevokedForGood(t) PROVE RevokedForGood(t)'
    BY <1>1, <2>1, <2>2, <2>3, <2>4 DEF RevokedForGood, Others
  <2>5. ASSUME NEW x \in Principal, UpgradedForGood(x) PROVE UpgradedForGood(x)'
    BY <1>1, <2>1, <2>2, <2>3, <2>5 DEF UpgradedForGood, Others
  <2> QED BY <2>4, <2>5 DEF Settles
<1> QED BY <1>3, <1>4 DEF LoadAnonymousSession

\* A save that goes on to the next: the same principal, and no session to come.
LEMMA NextSaveSettles ==
    ASSUME IInv, NEW r \in Request, principal' = principal,
           SaveUserSession(r) \/ SaveAnonymousSession(r)
    PROVE  Settles
<1>1. PICK step \in {"savePrincipal", "saveShopper"} : Goto(r, step)
  BY DEF SaveUserSession, SaveAnonymousSession
<1>2. PICK place \in {"saveSession", "saveAnonymous"} :
        /\ At(r, place)
        /\ place = "saveAnonymous" => session' = session
        /\ place = "saveSession" =>
             session' = [session EXCEPT ![req[r].session].state = Unrevoked(@)]
  BY DEF SaveUserSession, SaveAnonymousSession
<1> DEFINE v == [req[r] EXCEPT !.step = step]
<1>3. req[r] \in Reqs /\ Saving(r) /\ req[r].step = place
  BY <1>2, AtStep, IdleFacts DEF IInv, Saving, SaveSteps
<1>4. v.step = step /\ v.who = req[r].who /\ v.seen = req[r].seen
  BY <1>3 DEF Reqs
<1>5. req' = [req EXCEPT ![r] = v]
  BY <1>1 DEF Goto
<1> HIDE DEF v
<1>6. Others(r) /\ req'[r] = v
  BY <1>5, Changing
<1>7. \A q \in Request : q # r => (Saving(q)' <=> Saving(q))
  BY <1>6 DEF Others, Saving
<1>8. ASSUME NEW t \in Session, RevokedForGood(t) PROVE RevokedForGood(t)'
  <2>1. place = "saveSession" => req[r].session # t
    BY <1>3, <1>8 DEF RevokedForGood
  <2>2. session'[t] = session[t]
    BY <1>2, <2>1 DEF IInv, Types
  <2>3. \A q \in Request : Saving(q)' /\ req'[q].step = "saveSession" => req'[q].session # t
    BY <1>4, <1>6, <1>7, <1>8 DEF RevokedForGood, Others
  <2> QED BY <1>8, <2>2, <2>3 DEF RevokedForGood
<1>9. ASSUME NEW x \in Principal, UpgradedForGood(x) PROVE UpgradedForGood(x)'
  BY <1>3, <1>4, <1>6, <1>7, <1>9 DEF UpgradedForGood, Others
<1> QED BY <1>8, <1>9 DEF Settles

LEMMA LastSaveSettles ==
    ASSUME IInv, NEW r \in Request, SavePrincipal(r) \/ SaveShopper(r)
    PROVE  Settles
<1>1. PICK place \in {"savePrincipal", "saveShopper"} : At(r, place)
  BY DEF SavePrincipal, SaveShopper
<1>2. PICK f : Reply(r, f)
  BY DEF SavePrincipal, SaveShopper
<1>3. principal' = [principal EXCEPT ![req[r].who] = req[r].seen] /\ session' = session
  BY DEF SavePrincipal, SaveShopper
<1>4. "answered" \in Steps \ SaveSteps
  BY DEF Steps, SaveSteps
<1>5. Others(r) /\ ~Saving(r)'
  BY <1>1, <1>2, <1>4, QuietMove
<1>6. Saving(r)
  BY <1>1, AtStep, IdleFacts DEF IInv, Saving, SaveSteps
<1>7. \A q \in Request : Saving(q)' => q # r /\ Saving(q) /\ req'[q] = req[q]
  BY <1>5 DEF Others, Saving
<1>8. ASSUME NEW t \in Session, RevokedForGood(t) PROVE RevokedForGood(t)'
  BY <1>3, <1>7, <1>8 DEF RevokedForGood
<1>9. ASSUME NEW x \in Principal, UpgradedForGood(x) PROVE UpgradedForGood(x)'
  <2>1. req[r].who # x \/ req[r].seen = "user"
    BY <1>6, <1>9 DEF UpgradedForGood
  <2>2. principal'[x] = "user"
    BY <1>3, <1>9, <2>1 DEF UpgradedForGood, IInv, Types
  <2> QED BY <1>7, <1>9, <2>2 DEF UpgradedForGood
<1> QED BY <1>8, <1>9 DEF Settles

-----------------------------------------------------------------------------
(* The theorems. *)

LEMMA NextSettles == IInv /\ [Next]_vars => Settles
<1> SUFFICES ASSUME IInv, [Next]_vars PROVE Settles
  OBVIOUS
<1>1. ASSUME NEW r \in Request, Handle(r) PROVE Settles
  <2>1. CASE Receive(r)
    BY <2>1, ForgottenSettles DEF Receive, rows
  <2>2. CASE SaveUserSession(r)
    BY <2>2, NextSaveSettles DEF SaveUserSession
  <2>3. CASE SaveAnonymousSession(r)
    BY <2>3, NextSaveSettles DEF SaveAnonymousSession
  <2> QED BY <1>1, <2>1, <2>2, <2>3, QuietHandlers, IdentifySettles, CreateSettles,
             CommitSettles, RevokeSettles, LoadUserSettles, LoadAnonymousSettles,
             LastSaveSettles DEF Handle
<1>2. ASSUME NEW r \in Request, Send(r) \/ LoseAnswer(r) PROVE Settles
  BY <1>2, SendSettles, ForgottenSettles DEF LoseAnswer, rows
<1>3. ASSUME NEW n \in Nonce, StartGoogleSignIn(n) PROVE Settles
  BY <1>3, RestSettles, SameStays DEF StartGoogleSignIn, rows
<1>4. ASSUME NEW e \in Email, Disable(e) PROVE Settles
  BY <1>4, RestSettles, SameStays DEF Disable
<1>5. CASE UNCHANGED vars
  BY <1>5, RestSettles, SameStays DEF vars
<1> QED BY <1>1, <1>2, <1>3, <1>4, <1>5, ExpireSettles DEF Next

\* A revoked session stays revoked once no request that loaded it before is left.
THEOREM RevocationsSettle == Spec => RevokedSettles
<1>1. IInv /\ [Next]_vars =>
        [\A s \in Session : RevokedForGood(s) => RevokedForGood(s)']_vars
  BY NextSettles DEF Settles
<1> QED BY <1>1, Invariance, PTL DEF Spec, RevokedSettles

\* An upgraded principal stays a user's once no request that loaded it before is left.
THEOREM UpgradesSettle == Spec => UpgradeSettles
<1>1. IInv /\ [Next]_vars =>
        [\A p \in Principal : UpgradedForGood(p) => UpgradedForGood(p)']_vars
  BY NextSettles DEF Settles
<1> QED BY <1>1, Invariance, PTL DEF Spec, UpgradeSettles
=============================================================================
