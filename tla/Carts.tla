-------------------------------- MODULE Carts --------------------------------
(***************************************************************************)
(* The cart of a browser tab (ui-v2 CartContext and the checkout page),    *)
(* the cart rows behind it (api CartService and CheckoutService with its   *)
(* rate limiter) and the nightly clean-up of the scheduler.                *)
(*                                                                         *)
(* A cart is the set of its variants.  calls holds the tab's requests in   *)
(* the order they were sent; each is served in the service's steps, and    *)
(* answers arrive in any order.  The tab changes at once and sends the     *)
(* whole cart after every change.                                          *)
(*                                                                         *)
(* Left out: the undo history (an undo is a change like any other), the    *)
(* deliveries chosen, a second tab, CartContext's sync (nobody calls it),  *)
(* the lock that forbids changes while an optimized cart is filled in, the *)
(* retry after a 401, and the limiter's second key, the address.           *)
(***************************************************************************)
EXTENDS Naturals, FiniteSets, SequencesExt

CONSTANTS
    Principal,    \* owners of carts
    Variant,      \* variants on offer
    MaxCartItems, \* size limit of a cart
    CheckoutLimit,\* builds per principal and window
    InOrder,      \* requests are served in the order they are sent
    Early,        \* the shopper may change the cart before it is loaded
    Stored,       \* carts stored before: owner -> set of variants, or NoCart
    MaxCalls,     \* bound: requests under way
    MaxChanges,   \* bound: changes of the cart, page openings and switches
    MaxEvents,    \* bound: faults, sell-outs, timeouts
    None

VARIABLES
    items,      \* what the tab shows
    version,    \* syncVersionRef
    me,         \* the principal the tab is signed in as
    page,       \* the checkout page
    calls,      \* requests, in the order they were sent
    cart,       \* cart[p]: the row of p, with its age
    inStock,    \* variants the shops have
    hits, ttl,  \* the limiter's counter of the tab's principal, and its expiry
    registered, \* principals with a row in users
    cleanup,    \* the clean-up under way
    broken,     \* history: a request has failed
    changes, events

tab == <<items, version, me, page>>
vars == <<items, version, me, page, calls, cart, inStock, hits, ttl, registered,
          cleanup, broken, changes, events>>

NoCart == [ids |-> None, old |-> FALSE]
Carts == {NoCart} \cup [ids : SUBSET Variant, old : BOOLEAN]

\* What is assumed of the constants.
BoundsAssumption ==
    /\ (\A ids \in SUBSET Variant : ids # None) /\ Stored \in [Principal -> Carts]
    /\ MaxCartItems \in Nat /\ CheckoutLimit \in Nat
    /\ MaxCalls \in Nat /\ MaxChanges \in Nat /\ MaxEvents \in Nat
    /\ InOrder \in BOOLEAN /\ Early \in BOOLEAN

Kinds == {"put", "delete", "get", "push", "prepare", "build"}
Places == {"sent", "found", "written", "first", "counted", "answered", "failed"}
Calls == [kind : Kinds, who : Principal, version : Nat, ids : SUBSET Variant,
          at : Places, found : SUBSET Variant, live : BOOLEAN]
Closed == [open |-> FALSE, asked |-> None, state |-> "idle", links |-> {}]
NoCleanup == [at |-> "idle", doomed |-> {}, spared |-> {}]

Init ==
    /\ items \in SUBSET Variant /\ version = 0 /\ me \in Principal
    /\ page = Closed
    /\ cart = Stored /\ inStock = Variant
    /\ calls = <<[kind |-> "get", who |-> me, version |-> 0, ids |-> {}, at |-> "sent",
                  found |-> {}, live |-> TRUE]>>
    /\ hits = 0 /\ ttl = FALSE
    /\ registered = {} /\ cleanup = NoCleanup
    /\ broken = FALSE /\ changes = 0 /\ events = 0

Indices == DOMAIN calls
Room == Len(calls) < MaxCalls
Call(kind, ids, v) ==
    [kind |-> kind, who |-> me, version |-> v, ids |-> ids, at |-> "sent",
     found |-> {}, live |-> TRUE]
Loading == \E i \in Indices : calls[i].kind \in {"get", "push"} /\ calls[i].live

\* Mutant: requests of a page that was left still report to it.
AbortedNothing(cs) == cs

\* The checkout page gives up what it was building: its requests are aborted.
Aborted(cs) ==
    [i \in DOMAIN cs |-> IF cs[i].kind \in {"prepare", "build"}
                         THEN [cs[i] EXCEPT !.live = FALSE] ELSE cs[i]]

\* Mutant: the page keeps the links it has until it gets new ones.
ShownWithOldLinks(new, cs) ==
    /\ items' = new
    /\ IF page.open /\ new = {}
       THEN page' = Closed /\ calls' = Aborted(cs)
       ELSE IF page.open /\ page.asked # new
       THEN /\ page' = [page EXCEPT !.asked = new]
            /\ calls' = Append(Aborted(cs), Call("prepare", new, 0))
       ELSE page' = page /\ calls' = cs

\* A change of the shown cart reaches the checkout page: links of another cart
\* are dropped, and the page asks for new ones (buildCheckoutLinks).
Shown(new, cs) ==
    /\ items' = new
    /\ IF page.open /\ new = {}
       THEN page' = Closed /\ calls' = Aborted(cs)
       ELSE IF page.open /\ page.asked # new
       THEN /\ page' = [open |-> TRUE, asked |-> new, state |-> "building", links |-> {}]
            /\ calls' = Append(Aborted(cs), Call("prepare", new, 0))
       ELSE page' = page /\ calls' = cs

-----------------------------------------------------------------------------
(* The shopper: CartContext's operations. *)

Change ==
    /\ Room /\ changes < MaxChanges /\ changes' = changes + 1
    /\ Early \/ ~Loading
    /\ UNCHANGED <<me, cart, inStock, hits, ttl, registered, cleanup, broken, events>>

\* add, addMany, and the undo of a removal: without duplicates, up to capacity.
AddMany(new) ==
    /\ Change
    /\ new # {} /\ new \cap items = {} /\ Cardinality(items \cup new) <= MaxCartItems
    /\ version' = version + 1
    /\ Shown(items \cup new, Append(calls, Call("put", items \cup new, version + 1)))

\* remove, and the undo of an addition.
RemoveItem(x) ==
    /\ Change
    /\ x \in items
    /\ version' = version + 1
    /\ Shown(items \ {x}, Append(calls, Call("put", items \ {x}, version + 1)))

Clear ==
    /\ Change
    /\ version' = version + 1
    /\ Shown({}, Append(calls, Call("delete", {}, version + 1)))

OpenCheckout ==
    /\ Room /\ changes < MaxChanges /\ changes' = changes + 1
    /\ ~page.open /\ items # {}
    /\ page' = [open |-> TRUE, asked |-> items, state |-> "building", links |-> {}]
    /\ calls' = Append(calls, Call("prepare", items, 0))
    /\ UNCHANGED <<items, version, me, cart, inStock, hits, ttl, registered,
                   cleanup, broken, events>>

\* Links that failed are built anew on a click.
Retry ==
    /\ Room /\ changes < MaxChanges /\ changes' = changes + 1
    /\ page.open /\ page.state \in {"idle", "error"}
    /\ page' = [page EXCEPT !.state = "building", !.asked = items]
    /\ calls' = Append(Aborted(calls), Call("prepare", items, 0))
    /\ UNCHANGED <<items, version, me, cart, inStock, hits, ttl, registered,
                   cleanup, broken, events>>

\* The page is loaded again, perhaps signed in as somebody else: the requests of
\* the old page go on without it, and the cart of the principal is loaded.
Reload(p) ==
    /\ Room /\ changes < MaxChanges /\ changes' = changes + 1
    /\ me' = p /\ version' = 0 /\ page' = Closed
    /\ calls' = Append([i \in Indices |-> [calls[i] EXCEPT !.live = FALSE]],
                       [Call("get", {}, 0) EXCEPT !.who = p])
    /\ hits' = IF p = me THEN hits ELSE 0
    /\ ttl' = (p = me /\ ttl)
    /\ UNCHANGED <<items, cart, inStock, registered, cleanup, broken, events>>

-----------------------------------------------------------------------------
(* The API: CartService and CheckoutService, one await at a time. *)

At(i, kinds, place) ==
    /\ calls[i].kind \in kinds /\ calls[i].at = place
    /\ InOrder => \A j \in 1 .. (i - 1) : calls[j].at \in {"answered", "failed"}
Move(i, place) == calls' = [calls EXCEPT ![i].at = place]
Served == UNCHANGED <<tab, inStock, registered, cleanup, broken, changes, events>>
UnlimitedServed == Served /\ UNCHANGED <<hits, ttl>>

\* replaceCart looks the variants up.
FindVariants(i) ==
    /\ At(i, {"put", "push", "prepare"}, "sent")
    /\ calls' = [calls EXCEPT ![i].found = @ \cup (calls[i].ids \cap inStock),
                              ![i].at = "found"]
    /\ UnlimitedServed /\ UNCHANGED cart

UpsertCart(i) ==
    /\ \/ At(i, {"put", "push", "prepare"}, "found")
       \/ At(i, {"delete"}, "sent")
    /\ cart' = [cart EXCEPT ![calls[i].who] = [ids |-> calls[i].found, old |-> FALSE]]
    /\ Move(i, "written")
    /\ UnlimitedServed

\* The row is read again; another request may have written it by now, and its
\* items are shown as far as this request has looked them up.
ReadBack(i) ==
    /\ At(i, {"put", "push", "prepare", "delete"}, "written")
    /\ LET row == cart[calls[i].who] IN
       IF row = NoCart THEN Move(i, "failed")
       ELSE calls' = [calls EXCEPT ![i].found = @ \cap row.ids, ![i].at = "answered"]
    /\ UnlimitedServed /\ UNCHANGED cart

\* getCart: the stored variants that are in stock.
StoredItems(p) == IF cart[p] = NoCart THEN {} ELSE cart[p].ids \cap inStock

GetCart(i) ==
    /\ At(i, {"get"}, "sent")
    /\ calls' = [calls EXCEPT ![i].found = StoredItems(calls[i].who), ![i].at = "answered"]
    /\ UnlimitedServed /\ UNCHANGED cart

\* CheckoutRateLimiterService.check: INCR, then EXPIRE by the first in a window.
Count(i) ==
    /\ At(i, {"build"}, "sent")
    /\ hits' = hits + 1
    /\ Move(i, IF hits = 0 THEN "first"
               ELSE IF hits + 1 > CheckoutLimit THEN "failed" ELSE "counted")
    /\ Served /\ UNCHANGED <<cart, ttl>>

SetExpiry(i) ==
    /\ At(i, {"build"}, "first")
    /\ ttl' = (hits > 0)
    /\ Move(i, IF CheckoutLimit = 0 THEN "failed" ELSE "counted")
    /\ Served /\ UNCHANGED <<cart, hits>>

\* The links are made of the cart as it is stored now; an empty cart is refused.
BuildLinks(i) ==
    LET found == StoredItems(calls[i].who) IN
    /\ At(i, {"build"}, "counted")
    /\ calls' = [calls EXCEPT ![i].found = found,
                              ![i].at = IF found = {} THEN "failed" ELSE "answered"]
    /\ UnlimitedServed /\ UNCHANGED cart

-----------------------------------------------------------------------------
(* Answers. *)

Without(i) == RemoveAt(calls, i)
Received == UNCHANGED <<me, cart, inStock, hits, ttl, registered, cleanup, broken,
                        changes, events>>

\* An answer nobody waits for, or that reports an error outside the checkout
\* page: the tab stays as it is.
Ignore(i) ==
    /\ calls[i].at \in {"answered", "failed"}
    /\ \/ ~calls[i].live
       \/ calls[i].at = "failed" /\ calls[i].kind \notin {"prepare", "build"}
    /\ calls' = Without(i)
    /\ Received /\ UNCHANGED <<items, version, page>>

Arrives(i, kinds) == calls[i].kind \in kinds /\ calls[i].at = "answered" /\ calls[i].live

\* Mutant: every answer is shown.
LatestAny(i) == TRUE
Latest(i) == calls[i].version = version

\* persist and clear: an answer counts only if no later change was made.
Persisted(i) ==
    /\ Arrives(i, {"put", "delete"})
    /\ IF Latest(i) THEN Shown(calls[i].found, Without(i))
       ELSE calls' = Without(i) /\ UNCHANGED <<items, page>>
    /\ Received /\ UNCHANGED version

\* hydrateCart: a stored cart replaces the shown one; otherwise the shown one is
\* stored.
Hydrated(i) ==
    /\ Arrives(i, {"get"})
    /\ IF calls[i].found # {}
       THEN Shown(calls[i].found, Without(i))
       ELSE /\ calls' = IF items = {} THEN Without(i)
                        ELSE Append(Without(i), Call("push", items, 0))
            /\ UNCHANGED <<items, page>>
    /\ Received /\ UNCHANGED version

Pushed(i) ==
    /\ Arrives(i, {"push"})
    /\ Shown(calls[i].found, Without(i))
    /\ Received /\ UNCHANGED version

\* The checkout page: after its own replaceCart it asks for the links.
Prepared(i) ==
    /\ Arrives(i, {"prepare"})
    /\ calls' = Append(Without(i), [Call("build", calls[i].ids, 0) EXCEPT !.who = calls[i].who])
    /\ Received /\ UNCHANGED <<items, version, page>>

\* Links of a cart that changed while they were built are discarded.
Built(i) ==
    /\ Arrives(i, {"build"})
    /\ page' = IF calls[i].ids = items
               THEN [page EXCEPT !.state = "ready", !.links = calls[i].found]
               ELSE [page EXCEPT !.state = "idle"]
    /\ calls' = Without(i)
    /\ Received /\ UNCHANGED <<items, version>>

CheckoutFails(i) ==
    /\ calls[i].at = "failed" /\ calls[i].live /\ calls[i].kind \in {"prepare", "build"}
    /\ page' = [page EXCEPT !.state = "error"]
    /\ calls' = Without(i)
    /\ Received /\ UNCHANGED <<items, version>>

-----------------------------------------------------------------------------
(* Faults and the world. *)

Event == events < MaxEvents /\ events' = events + 1

\* A request dies on the way, in the service or with its answer; its statements
\* so far stay.
Break(i) ==
    /\ Event
    /\ calls[i].at \in {"sent", "found", "written", "first", "counted"}
    /\ Move(i, "failed") /\ broken' = TRUE
    /\ UNCHANGED <<tab, cart, inStock, hits, ttl, registered, cleanup, changes>>

SellOut(x) ==
    /\ Event
    /\ x \in inStock
    /\ inStock' = inStock \ {x}
    /\ UNCHANGED <<tab, calls, cart, hits, ttl, registered, cleanup, broken, changes>>

\* The checkout page waits fifteen seconds.
TimeOut ==
    /\ Event
    /\ page.state = "building"
    /\ page' = [page EXCEPT !.state = "error"]
    /\ calls' = Aborted(calls)
    /\ UNCHANGED <<items, version, me, cart, inStock, hits, ttl, registered,
                   cleanup, broken, changes>>

\* The limiter's window ends.
WindowEnds ==
    /\ ttl
    /\ hits' = 0 /\ ttl' = FALSE
    /\ UNCHANGED <<tab, calls, cart, inStock, registered, cleanup, broken, changes, events>>

\* A cart is not touched for the retention time; its owner registers.
Age(p) ==
    /\ Event
    /\ cart[p] # NoCart /\ ~cart[p].old
    /\ cart' = [cart EXCEPT ![p].old = TRUE]
    /\ UNCHANGED <<tab, calls, inStock, hits, ttl, registered, cleanup, broken, changes>>

Register(p) ==
    /\ Event
    /\ p \notin registered
    /\ registered' = registered \cup {p}
    /\ UNCHANGED <<tab, calls, cart, inStock, hits, ttl, cleanup, broken, changes>>

-----------------------------------------------------------------------------
(* CartCleanupService.deleteExpiredAnonymousCarts: two databases, three steps. *)

CleanupServed == UNCHANGED <<tab, calls, inStock, hits, ttl, registered, broken, changes,
                             events>>

Candidates == {p \in Principal : cart[p] # NoCart /\ cart[p].old}

\* spared is history: what the clean-up must keep.
SelectCandidates ==
    /\ cleanup.at = "idle" /\ Candidates # {}
    /\ cleanup' = [at |-> "selected", doomed |-> Candidates,
                   spared |-> (Principal \ Candidates) \cup registered]
    /\ CleanupServed /\ UNCHANGED cart

\* Mutant: one batch of owners is not looked up.
FindRegisteredPartly(owners) ==
    LET missed == IF owners = {} THEN {} ELSE {CHOOSE p \in owners : TRUE}
    IN registered \cap (owners \ missed)

FindRegistered(owners) == registered \cap owners

ExcludeRegistered ==
    /\ cleanup.at = "selected"
    /\ cleanup' = [cleanup EXCEPT !.at = "checked",
                                  !.doomed = @ \ FindRegistered(@)]
    /\ CleanupServed /\ UNCHANGED cart

DeleteCarts ==
    /\ cleanup.at = "checked"
    /\ cart' = [p \in Principal |-> IF p \in cleanup.doomed THEN NoCart ELSE cart[p]]
    /\ cleanup' = NoCleanup
    /\ CleanupServed

-----------------------------------------------------------------------------

Serve(i) ==
    \/ FindVariants(i) \/ UpsertCart(i) \/ ReadBack(i) \/ GetCart(i)
    \/ Count(i) \/ SetExpiry(i) \/ BuildLinks(i)
Answer(i) ==
    \/ Ignore(i) \/ Persisted(i) \/ Hydrated(i) \/ Pushed(i) \/ Prepared(i)
    \/ Built(i) \/ CheckoutFails(i)

Next ==
    \/ \E new \in SUBSET Variant : AddMany(new)
    \/ \E x \in Variant : RemoveItem(x) \/ SellOut(x)
    \/ Clear \/ OpenCheckout \/ Retry
    \/ \E p \in Principal : Reload(p) \/ Age(p) \/ Register(p)
    \/ \E i \in Indices : Serve(i) \/ Answer(i) \/ Break(i)
    \/ TimeOut \/ WindowEnds
    \/ SelectCandidates \/ ExcludeRegistered \/ DeleteCarts

Spec == Init /\ [][Next]_vars

-----------------------------------------------------------------------------
(* Properties. *)

TypeOK ==
    /\ items \subseteq Variant /\ version \in 0 .. MaxChanges /\ me \in Principal
    /\ page \in [open : BOOLEAN, asked : (SUBSET Variant) \cup {None},
                 state : {"idle", "building", "ready", "error"}, links : SUBSET Variant]
    /\ page.open \/ page = Closed
    /\ calls \in Seq(Calls)
    /\ cart \in [Principal -> Carts] /\ inStock \subseteq Variant
    /\ hits \in Nat /\ ttl \in BOOLEAN /\ registered \subseteq Principal
    /\ cleanup \in [at : {"idle", "selected", "checked"}, doomed : SUBSET Principal,
                    spared : SUBSET Principal]
    /\ broken \in BOOLEAN /\ changes \in 0 .. MaxChanges /\ events \in 0 .. MaxEvents

\* With no request under way and none failed, the tab shows the cart that is
\* stored (persist, clear, hydrateCart), except for variants that have sold out.
QuietAgreement ==
    calls = <<>> /\ ~broken /\ cart[me] # NoCart =>
        items \cap inStock = cart[me].ids \cap inStock

\* The links the checkout page offers lead to the cart it shows: nothing the
\* shopper has taken out or never put in, and only sold-out variants missing.
LinksMatchCart ==
    page.state = "ready" =>
        /\ page.links \subseteq items
        /\ items \ page.links \subseteq Variant \ inStock

\* A cart in use, or of a registered principal, when a clean-up begins survives it.
SparedCartsKept ==
    [][\A p \in cleanup.spared : cart[p] # NoCart => cart'[p] # NoCart]_vars
=============================================================================
