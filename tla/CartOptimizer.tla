---------------------------- MODULE CartOptimizer ----------------------------
(***************************************************************************)
(* An optimization job: CardOptimizationService reads the list's entries    *)
(* and the offers for them, keeps each store's cheapest, and optimizeCart  *)
(* goes through the subsets of the stores until it is done or out of time. *)
(*                                                                         *)
(* A condition is its rank, DMG = 1 to NM = 5, 0 for an unknown one.  Left *)
(* out: the value policy for higher conditions, quantities and penalties by *)
(* step, which the service never passes, and the reasons of missing cards. *)
(* Prices are counted in parts of a dollar, and sums of them are exact.    *)
(***************************************************************************)
EXTENDS Integers, FiniteSets, FiniteSetsExt

CONSTANTS
    Entry,     \* positions of the list
    CardOf,    \* the card of each position
    Prefers,   \* its preferred set, or None
    Offer,     \* offers that may be in stock, by variant ID
    Store,     \* stores, in the order of their keys
    Shipping,  \* shipping cost of each store
    Request,   \* requests: see createOptimization
    Dollar,    \* what a dollar counts
    None

VARIABLES
    request,   \* the job's data
    offers,    \* IDs of the fresh offers in stock
    candidates,\* for each position: prepared once, before the enumeration
    mask,      \* the subset of stores to be evaluated next
    best,      \* the best cart so far: an offer, or None, for each position
    at,        \* "queued", "running" or "done"
    optimal

vars == <<request, offers, candidates, mask, best, at, optimal>>

\* What is assumed of the constants: variant IDs, ranks and prices are numbers, a price
\* is not negative (prepareCandidates), nor are shipping (createOptimization) and the
\* penalty (OptimizeListQueryDto).
OptimizerAssumption ==
    /\ IsFiniteSet(Entry) /\ IsFiniteSet(Store) /\ Store \subseteq Nat
    /\ DOMAIN Offer \subseteq Nat /\ None \notin DOMAIN Offer
    /\ \A W \in SUBSET Entry : None \notin [W -> DOMAIN Offer \cup {None}]
    /\ \A o \in DOMAIN Offer : /\ Offer[o].store \in Store /\ Offer[o].price \in Nat
                              /\ Offer[o].condition \in 0 .. 5
    /\ Shipping \in [Store -> Nat]
    /\ \A r \in Request : /\ r.minimum \in 0 .. 5 /\ r.maxSteps \in Nat /\ r.penalty \in Nat
                         /\ \A held \in r.cart : held.store \in Store
    /\ Dollar \in Nat

Modes == {"strict", "needed", "cheaper"}

Wanted == {e \in Entry : \A held \in request.cart : held.card # CardOf[e]}

-----------------------------------------------------------------------------
(* The candidates. *)

Price(o) == Offer[o].price
Lowest(S, value(_)) == {o \in S : \A p \in S : value(o) <= value(p)}

EligibleConditions ==
    IF request.mode = "strict" THEN request.minimum .. 5
    ELSE (IF request.minimum = 0 THEN 5 ELSE request.minimum) - request.maxSteps .. 5

OfSet(e, o) == Prefers[e] = None \/ Offer[o].set = Prefers[e]

\* The offers the query ranks for a position.
Rows(e) ==
    {o \in offers : /\ Offer[o].card = CardOf[e] /\ OfSet(e, o)
                    /\ Offer[o].condition >= 1 /\ Offer[o].condition \in EligibleConditions}

\* Mutant: the ranks are those of the position, not of each store.
CheapestOverall(S) == {o \in S : o = Min(Lowest(S, Price))}
\* price_rank = 1: one offer per store, by price and then by ID.
CheapestPerStore(S) ==
    {Min(Lowest({p \in S : Offer[p].store = Offer[o].store}, Price)) : o \in S}

Steps(o) == Max({0, request.minimum - Offer[o].condition})

Meets(o) == Steps(o) = 0

\* prepareCandidates on what the query found.
Prepared(e) ==
    {o \in CheapestPerStore(Rows(e)) :
        /\ request.mode = "strict" => Meets(o)
        /\ Steps(o) <= request.maxSteps}

\* applyDowngradeSavingsPolicy: MP or better, 25 percent and a dollar below the cheapest
\* copy of the requested condition, if there is one.
WorthIt(o, S) ==
    LET baseline == Lowest({p \in S : Meets(p)}, Price) IN
    /\ Offer[o].condition >= 3
    /\ \A b \in baseline :
         /\ Price(b) >= 2 * Dollar
         /\ 4 * Price(o) <= 3 * Price(b)
         /\ Price(b) - Price(o) >= Dollar

Prepare(e) ==
    IF request.mode # "cheaper" THEN Prepared(e)
    ELSE {o \in Prepared(e) : Meets(o) \/ WorthIt(o, Prepared(e))}

-----------------------------------------------------------------------------
(* The enumeration. *)

CandidateStores == {Offer[o].store : o \in UNION {candidates[e] : e \in Wanted}}

Bit(store) == Cardinality({s \in CandidateStores : s < store})
\* The stores of a mask.
Allowed(m) == {s \in CandidateStores : (m \div 2^Bit(s)) % 2 = 1}

Cost(o) == Price(o) + Steps(o) * request.penalty

\* The cheapest candidate; by price and the order of the candidates among equals.
Choice(e, stores) ==
    LET C == {o \in candidates[e] : Offer[o].store \in stores} IN
    IF C = {} THEN None
    ELSE CHOOSE o \in Lowest(Lowest(C, Cost), Price) :
           \A p \in Lowest(Lowest(C, Cost), Price) : Offer[o].store <= Offer[p].store

Cart(stores) == [e \in Wanted |-> Choice(e, stores)]

Filled(c) == {e \in DOMAIN c : c[e] # None}
Missing(c) == Cardinality(DOMAIN c \ Filled(c))

StoresUsed(c) == {held.store : held \in request.cart} \cup {Offer[c[e]].store : e \in Filled(c)}

Objective(c) ==
    MapThenSumSet(LAMBDA e : Cost(c[e]), Filled(c))
      + MapThenSumSet(LAMBDA s : Shipping[s], StoresUsed(c))

\* Mutant: what is cheaper is better, whatever it leaves out.
CheaperFirst(c, d) == Objective(c) < Objective(d)
Better(c, d) ==
    \/ Missing(c) < Missing(d)
    \/ Missing(c) = Missing(d) /\ Objective(c) < Objective(d)

Init ==
    /\ request \in Request /\ offers \in SUBSET DOMAIN Offer
    /\ candidates = [e \in Entry |-> {}]
    /\ mask = 0 /\ best = None
    /\ at = "queued" /\ optimal = TRUE

\* The worker takes the job: execute up to optimizeCart's loop.
Load ==
    /\ at = "queued" /\ at' = "running"
    /\ candidates' = [e \in Entry |-> IF e \in Wanted THEN Prepare(e) ELSE {}]
    /\ UNCHANGED <<request, offers, mask, best, optimal>>

\* One subset: its cart replaces the best one only if it is better.
Evaluate ==
    /\ at = "running" /\ mask < 2 ^ Cardinality(CandidateStores)
    /\ LET c == Cart(Allowed(mask)) IN
       best' = IF best = None \/ Better(c, best) THEN c ELSE best
    /\ mask' = mask + 1
    /\ UNCHANGED <<request, offers, candidates, at, optimal>>

\* The time budget is spent: what was found so far is the result.
Deadline ==
    /\ at = "running" /\ mask < 2 ^ Cardinality(CandidateStores)
    /\ at' = "done" /\ optimal' = FALSE
    /\ UNCHANGED <<request, offers, candidates, mask, best>>

Finish ==
    /\ at = "running" /\ mask = 2 ^ Cardinality(CandidateStores)
    /\ at' = "done"
    /\ UNCHANGED <<request, offers, candidates, mask, best, optimal>>

Next == Load \/ Evaluate \/ Deadline \/ Finish

Spec == Init /\ [][Next]_vars

-----------------------------------------------------------------------------
(* Properties. *)

TypeOK ==
    /\ request \in Request /\ offers \subseteq DOMAIN Offer
    /\ mask \in 0 .. 2 ^ Cardinality(Store)
    /\ candidates \in [Entry -> SUBSET offers]
    /\ best = None \/ best \in [Wanted -> offers \cup {None}]
    /\ at \in {"queued", "running", "done"} /\ optimal \in BOOLEAN

\* The offers among which the result is to be the best: all that may be chosen, where
\* the query's choice by price cannot lose a better one.
Choosable(e) ==
    IF request.mode = "cheaper" \/ request.penalty > 0 THEN candidates[e] ELSE Rows(e)

Carts == [Wanted -> offers \cup {None}]

\* A job that is not cut short finds the best cart there is: no other choice of offers,
\* of whatever stores, leaves fewer cards out, or as many at a lower cost with shipping
\* (optimizeCart with the query of CardOptimizationService).
NoBetterCart ==
    at = "done" /\ optimal =>
        \A c \in Carts :
            Better(c, best) => \E e \in Wanted : c[e] # None /\ c[e] \notin Choosable(e)

\* A copy in the requested condition is found, whatever lower copies its store offers
\* ("never automatically downgrades below MP" of cart-optimizer.spec.ts keeps the near
\* mint copy at 10 beside a heavily played one at 1).
RequestedConditionFound ==
    at = "done" /\ optimal =>
        \A e \in Wanted :
            (\E o \in Rows(e) : Meets(o)) => best[e] # None

\* Only "cheaper" leaves out a card that can be bought: in the other modes the query and
\* prepareCandidates, which count the steps down each in its own way, allow the same
\* copies, and no cart is preferred that has fewer cards for less (optimizeCart).
MissingUnavailable ==
    at = "done" /\ optimal /\ request.mode # "cheaper" =>
        \A e \in Wanted : Rows(e) # {} => best[e] # None
=============================================================================
