---------------------------- MODULE FillBestCards ----------------------------
(***************************************************************************)
(* "Fill Best Cards": the builder page lets the optimizer choose offers    *)
(* for the cards of a list and puts them into the cart (runOptimization,   *)
(* startQuotedFill of build.$listId.$slug.tsx), with the API behind it     *)
(* (createOptimization, getOptimizationStatus, createDeliveryQuote) and    *)
(* the lock that keeps the shopper from changing the cart meanwhile.       *)
(*                                                                         *)
(* Left out: how offers are chosen (CartOptimizer), answers of the cart's  *)
(* requests out of order and other clients (Carts), the size of a cart,    *)
(* the history, saving the address, and what delivery costs: a selection   *)
(* is the fill it was made for.  No card is on the list twice.             *)
(***************************************************************************)
EXTENDS Naturals, Sequences, FiniteSets

CONSTANTS
    Offer, CardOf, StoreOf,  \* the offers of the list's cards
    Store,
    Mount,       \* the page, each time it is shown: 1, 2, ...
    MaxFills,    \* bound: fills and quotes asked for
    MaxEvents,   \* bound: changes by the shopper, failed requests, offers that sell out
    None         \* no fill, no quote, no result yet

\* What is assumed of the constants.
FillAssumption ==
    /\ IsFiniteSet(Offer) /\ StoreOf \in [Offer -> Store]
    /\ 1 \in Mount /\ None \notin Mount
    /\ MaxFills \in Nat /\ MaxEvents \in Nat

VARIABLES
    items,           \* the tab's cart
    puts,            \* carts on their way to the API, in order
    stored,          \* the cart row
    onSale,          \* offers the shops have
    locked,          \* mutationLockedRef
    delivery,        \* delivery[s]: the fill its selection was made for, or 0
    mounted,         \* the page that is shown
    dialog,          \* of that page
    fill,            \* fill[m]: what page m has under way
    turn, events

cartVars == <<items, puts, stored, onSale>>
counters == <<turn, events>>
vars == <<cartVars, locked, delivery, mounted, dialog, fill, counters>>

Cards(offers) == {CardOf[o] : o \in offers}
Closed == [open |-> FALSE, loading |-> FALSE, quote |-> None, pending |-> None]
Idle == [at |-> "idle", quoted |-> FALSE, turn |-> 0, clean |-> FALSE,
         job |-> "none", initial |-> {}, result |-> {}, seen |-> FALSE, added |-> {}, priced |-> {}]

Active == {m \in Mount : fill[m].at # "idle"}
Settled == puts = <<>> /\ stored = items
Event == events < MaxEvents /\ events' = events + 1

Init ==
    /\ items \in {{}} \cup {{o} : o \in Offer} /\ stored = items
    /\ puts = <<>> /\ onSale = Offer
    /\ locked = FALSE /\ delivery = [s \in Store |-> 0]
    /\ mounted = 1 /\ dialog = Closed /\ fill = [m \in Mount |-> Idle]
    /\ turn = 0 /\ events = 0

-----------------------------------------------------------------------------
(* The cart. *)

\* persist, on behalf of a fill or of nobody.
Persist(new, by) ==
    /\ items' = new
    /\ puts' = Append(puts, [ids |-> new, by |-> by])

\* Mutant: the lock is not looked at.
MayChangeAlways == TRUE
MayChange == ~locked

\* The shopper, unless a dialog is in the way.
Change ==
    /\ MayChange /\ ~dialog.open
    /\ Event
    /\ UNCHANGED <<stored, onSale, locked, mounted, dialog, fill, turn>>

Add(o) == Change /\ o \notin items /\ Persist(items \cup {o}, None) /\ UNCHANGED delivery
Remove(o) == Change /\ o \in items /\ Persist(items \ {o}, None) /\ UNCHANGED delivery
Clear == Change /\ Persist({}, None) /\ delivery' = [s \in Store |-> 0]

\* setDeliverySelections
Selected(stores) ==
    delivery' = [s \in Store |-> IF s \in stores /\ ~locked THEN turn' ELSE delivery[s]]

\* Mutant: a page that is left unlocks nothing.
IfMounted(m) == (m # mounted /\ locked)
Unlocked(m) == FALSE

\* The end of page m's fill or quote: finally.
Ended(m) ==
    /\ fill' = [fill EXCEPT ![m] = Idle]
    /\ locked' = Unlocked(m)
    /\ dialog' = IF m = mounted THEN [dialog EXCEPT !.loading = FALSE] ELSE dialog

\* addMany's answer, or its failure, which it swallows.
Answered(by) ==
    IF by = None THEN UNCHANGED <<fill, locked, dialog>>
    ELSE /\ fill' = [fill EXCEPT ![by] = Idle]
         /\ locked' = Unlocked(by)
         /\ dialog' = IF by = mounted /\ fill[by].quoted
                      THEN [dialog EXCEPT !.pending = None] ELSE dialog

\* replaceCart keeps what is in stock; the tab takes over the answer to its last
\* request only (syncVersionRef).
ServePut ==
    /\ puts # <<>>
    /\ LET put == Head(puts) IN
        /\ stored' = put.ids \cap onSale
        /\ items' = IF Len(puts) = 1 THEN stored' ELSE items
        /\ Answered(put.by)
    /\ puts' = Tail(puts)
    /\ UNCHANGED <<onSale, delivery, mounted, counters>>

\* A request fails, before or after it is served.
LosePut ==
    /\ puts # <<>> /\ Event
    /\ stored' \in {stored, Head(puts).ids \cap onSale}
    /\ Answered(Head(puts).by)
    /\ puts' = Tail(puts)
    /\ UNCHANGED <<items, onSale, delivery, mounted, turn>>

SellOut(o) ==
    /\ o \in onSale /\ Event /\ onSale' = onSale \ {o}
    /\ UNCHANGED <<items, puts, stored, locked, delivery, mounted, dialog, fill, turn>>

-----------------------------------------------------------------------------
(* The page. *)

\* handleAddBestCards
Reopened == [dialog EXCEPT !.open = TRUE, !.quote = None]

OpenDialog ==
    /\ mounted \notin Active /\ ~dialog.open
    /\ dialog' = Reopened
    /\ UNCHANGED <<cartVars, locked, delivery, mounted, fill, counters>>

CloseDialog ==
    /\ dialog.open /\ ~dialog.loading
    /\ dialog' = [dialog EXCEPT !.open = FALSE]
    /\ UNCHANGED <<cartVars, locked, delivery, mounted, fill, counters>>

\* The shopper leaves the page and comes back: what it has under way goes on.
Leave ==
    /\ mounted + 1 \in Mount /\ mounted' = mounted + 1
    /\ dialog' = Closed
    /\ UNCHANGED <<cartVars, locked, delivery, fill, counters>>

\* Two fills at a time spoil each other.
Begin(m, new) ==
    fill' = [n \in Mount |->
                IF n = m THEN new
                ELSE IF n \in Active THEN [fill[n] EXCEPT !.clean = FALSE] ELSE fill[n]]

Asking ==
    /\ dialog.open /\ ~dialog.loading
    /\ locked' = TRUE
    /\ UNCHANGED <<cartVars, mounted, events>>

NextTurn == turn < MaxFills /\ turn' = turn + 1

Started(quoted) ==
    [Idle EXCEPT !.at = "create", !.quoted = quoted, !.clean = (Settled /\ Active = {})]

\* startEstimatedFill, skipDeliveryQuotes
StartEstimatedFill ==
    /\ Asking /\ NextTurn
    /\ Selected(Store)
    /\ dialog' = [dialog EXCEPT !.open = FALSE]
    /\ Begin(mounted, [Started(FALSE) EXCEPT !.turn = turn', !.priced = Store])

LoadDeliveryOptions ==
    /\ Asking /\ dialog.quote = None
    /\ dialog' = [dialog EXCEPT !.loading = TRUE]
    /\ Begin(mounted, Started(TRUE))
    /\ UNCHANGED <<delivery, turn>>

\* addMany, up to its request.
Adding(m, with, offers) ==
    /\ Persist(items \cup offers, m)
    /\ Begin(m, [Idle EXCEPT !.at = "add", !.added = offers, !.quoted = with.quoted,
                             !.turn = with.turn, !.clean = with.clean, !.priced = with.priced])
    /\ UNCHANGED <<stored, onSale>>

\* Mutant: the deliveries are selected once the cart is locked.
SelectedLate(stores) == UNCHANGED delivery
SelectedFirst(stores) == Selected(stores)

\* The offers the quote was asked for, with its methods for the stores it has some for.
StartQuotedFill ==
    /\ dialog.open /\ dialog.quote # None /\ dialog.pending # None /\ NextTurn
    /\ SelectedFirst(dialog.quote)
    /\ LET new == dialog.pending.offers \ items
       IN  IF new = {}
           THEN /\ locked' = FALSE /\ UNCHANGED <<cartVars, fill>>
                /\ dialog' = [dialog EXCEPT !.open = FALSE, !.pending = None]
           ELSE /\ Adding(mounted, [quoted |-> TRUE, turn |-> turn', priced |-> dialog.quote,
                                    clean |-> dialog.pending.clean /\ Active = {}], new)
                /\ locked' = TRUE
                /\ dialog' = [dialog EXCEPT !.open = FALSE]
    /\ UNCHANGED <<mounted, events>>

-----------------------------------------------------------------------------
(* The optimization: the page asks, the API answers, the worker works. *)

Waiting(m, place) == fill[m].at = place /\ UNCHANGED <<delivery, mounted, counters>>
Now(m, new) ==
    /\ fill' = [fill EXCEPT ![m] = new]
    /\ UNCHANGED <<cartVars, locked, dialog>>
GivesUp(m) == Ended(m) /\ UNCHANGED cartVars

InitialCart == stored \cap onSale

\* createOptimization
CreateJob(m) ==
    /\ Waiting(m, "create")
    /\ Now(m, [fill[m] EXCEPT !.at = "wait", !.job = "queued", !.initial = InitialCart])

\* The worker: an offer for some cards of the list that the initial cart lacks.
Optimize(m) ==
    /\ fill[m].job = "queued"
    /\ \/ Now(m, [fill[m] EXCEPT !.job = "failed"])
       \/ \E result \in SUBSET onSale :
            /\ Cards(result) \cap Cards(fill[m].initial) = {}
            /\ Cardinality(Cards(result)) = Cardinality(result)
            /\ Now(m, [fill[m] EXCEPT !.job = "done", !.result = result])
    /\ UNCHANGED <<delivery, mounted, counters>>

\* getOptimizationStatus: the job is read, and then its state.
ReadJob(m) ==
    /\ Waiting(m, "wait")
    /\ Now(m, [fill[m] EXCEPT !.at = "read", !.seen = (fill[m].job = "done")])

ReadState(m) ==
    /\ Waiting(m, "read")
    /\ \/ /\ fill[m].job = "queued"
          /\ Now(m, [fill[m] EXCEPT !.at = "wait"])
       \/ /\ fill[m].job # "queued"
          /\ fill[m].job = "failed" \/ ~fill[m].seen \/ fill[m].result = {}
          /\ GivesUp(m)
       \/ /\ fill[m].job = "done" /\ fill[m].seen /\ fill[m].result # {}
          /\ IF fill[m].quoted
             THEN /\ fill' = [fill EXCEPT ![m].at = "quote"]
                  /\ dialog' = IF m # mounted THEN dialog
                               ELSE [dialog EXCEPT !.pending = [offers |-> fill[m].result,
                                                                clean |-> fill[m].clean]]
                  /\ UNCHANGED <<cartVars, locked>>
             ELSE LET new == fill[m].result \ items
                  IN  IF new = {} THEN GivesUp(m)
                      ELSE Adding(m, fill[m], new) /\ UNCHANGED <<locked, dialog>>

\* createDeliveryQuote: refused when an offer is sold out; a store may have no method to offer.
GetQuote(m) ==
    /\ Waiting(m, "quote")
    /\ fill[m].result \subseteq onSale
    /\ \E priced \in SUBSET {StoreOf[o] : o \in fill[m].result} :
         /\ fill' = [fill EXCEPT ![m] = Idle] /\ locked' = Unlocked(m)
         /\ dialog' = IF m # mounted THEN dialog
                      ELSE [dialog EXCEPT !.loading = FALSE, !.quote = priced]
    /\ UNCHANGED cartVars

RefuseQuote(m) ==
    /\ Waiting(m, "quote") /\ ~(fill[m].result \subseteq onSale)
    /\ GivesUp(m)

\* After ten seconds; what the page adds to the cart is not aborted.
TimerFires(m) ==
    /\ fill[m].at \in {"create", "wait", "read", "quote"} /\ GivesUp(m)
    /\ UNCHANGED <<delivery, mounted, counters>>

\* An error of the API, or of the network.
RequestFails(m) ==
    /\ fill[m].at \in {"create", "wait", "quote"} /\ Event /\ GivesUp(m)
    /\ UNCHANGED <<delivery, mounted, turn>>

-----------------------------------------------------------------------------
Next ==
    \/ \E o \in Offer : Add(o) \/ Remove(o) \/ SellOut(o)
    \/ Clear \/ ServePut \/ LosePut
    \/ OpenDialog \/ CloseDialog \/ Leave
    \/ StartEstimatedFill \/ LoadDeliveryOptions \/ StartQuotedFill
    \/ \E m \in Mount :
         \/ CreateJob(m) \/ Optimize(m) \/ ReadJob(m) \/ ReadState(m)
         \/ GetQuote(m) \/ RefuseQuote(m) \/ TimerFires(m) \/ RequestFails(m)

Spec == Init /\ [][Next]_vars

Puts == [ids : SUBSET Offer, by : Mount \cup {None}]
Pending == [offers : SUBSET Offer, clean : BOOLEAN]
Dialogs ==
    [open : BOOLEAN, loading : BOOLEAN, quote : (SUBSET Store) \cup {None},
     pending : Pending \cup {None}]
Fills ==
    [at : {"idle", "create", "wait", "read", "quote", "add"}, quoted : BOOLEAN,
     turn : 0 .. MaxFills, clean : BOOLEAN, job : {"none", "queued", "failed", "done"},
     initial : SUBSET Offer, result : SUBSET Offer, seen : BOOLEAN,
     added : SUBSET Offer, priced : SUBSET Store]

TypeOK ==
    /\ {items, stored, onSale} \subseteq SUBSET Offer
    /\ puts \in Seq(Puts)
    /\ locked \in BOOLEAN /\ delivery \in [Store -> 0 .. MaxFills] /\ mounted \in Mount
    /\ dialog \in Dialogs /\ fill \in [Mount -> Fills]
    /\ turn \in 0 .. MaxFills /\ events \in 0 .. MaxEvents

-----------------------------------------------------------------------------
(* Properties. *)

\* A fill that began with a saved cart, alone, has reached the cart.
Filled(m) == fill[m].at = "add" /\ fill[m].clean

\* It completes the cart: no card it brings was there already, whatever was put into the
\* cart, sold out or quoted while the optimizer worked or the dialog was open.
FillAddsMissing ==
    \A m \in Mount : Filled(m) =>
        \A new \in fill[m].added, old \in items :
            CardOf[new] = CardOf[old] /\ old \in onSale => new = old

\* Each store it was priced for has the delivery this fill selected, not an earlier one's.
DeliveryMatchesFill ==
    \A m \in Mount : Filled(m) => \A s \in fill[m].priced : delivery[s] = fill[m].turn

\* The cart is locked for a page that still works on a fill, shown or not: nothing else
\* would unlock it.
LockHasOwner == locked => Active # {}
=============================================================================
