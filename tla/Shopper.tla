-------------------------------- MODULE Shopper --------------------------------
(***************************************************************************)
(* What a shopper works with: the cart (Carts), the card lists (CardLists), *)
(* the optimization jobs (CartOptimizer) and the filling of the cart from  *)
(* a list (FillBestCards).  They share no state, so they are explored side *)
(* by side: a behaviour is one of one of them, with the others at rest.    *)
(***************************************************************************)
EXTENDS FillBestCards

CONSTANTS
    Principal, Variant, MaxCartItems, CheckoutLimit, StoredCarts, \* of Carts
    List, Card, Known, Name, StoredLists, MaxLists, MaxLength, Contents, \* of CardLists
    Entry, EntryCard, Prefers, Copy, Shop, Shipping, Request, Dollar, \* of CartOptimizer
    MaxCalls, MaxChanges,  \* bounds of Carts
    MaxListCalls, MaxSent  \* bounds of CardLists

VARIABLES part, cartItems, version, me, page, calls, cart, inStock, hits, ttl, registered,
          cleanup, broken, changes, cartEvents,
          row, shown, listCalls, cooldown, refreshes, filled, overlapped,
          listsBroken, disturbed, sent, listEvents,
          request, offers, candidates, mask, best, at, optimal

\* The requests of a tab are served in order, and the cart is changed when it is loaded.
C == INSTANCE Carts WITH
       InOrder <- TRUE, Early <- FALSE, Stored <- StoredCarts,
       items <- cartItems, events <- cartEvents

L == INSTANCE CardLists WITH
       InOrder <- TRUE, Stored <- StoredLists, MaxCalls <- MaxListCalls,
       calls <- listCalls, broken <- listsBroken, events <- listEvents

O == INSTANCE CartOptimizer WITH CardOf <- EntryCard, Offer <- Copy, Store <- Shop

ASSUME ShopperAssumption ==
    /\ C!BoundsAssumption /\ L!ListsAssumption /\ O!OptimizerAssumption /\ FillAssumption

cartsVars == <<cartItems, version, me, page, calls, cart, inStock, hits, ttl, registered,
               cleanup, broken, changes, cartEvents>>
listVars == <<row, shown, listCalls, cooldown, refreshes, filled, overlapped,
              listsBroken, disturbed, sent, listEvents>>
optimizerVars == <<request, offers, candidates, mask, best, at, optimal>>
shopperVars == <<part, cartsVars, listVars, optimizerVars, vars>>

ShopperInit ==
    /\ part \in {"carts", "lists", "optimizer", "fill"}
    /\ O!Init /\ C!Init /\ L!Init /\ Init

ShopperNext ==
    \/ part = "carts" /\ C!Next /\ UNCHANGED <<part, listVars, optimizerVars, vars>>
    \/ part = "lists" /\ L!Next /\ UNCHANGED <<part, cartsVars, optimizerVars, vars>>
    \/ part = "optimizer" /\ O!Next /\ UNCHANGED <<part, cartsVars, listVars, vars>>
    \/ part = "fill" /\ Next /\ UNCHANGED <<part, cartsVars, listVars, optimizerVars>>

ShopperSpec == ShopperInit /\ [][ShopperNext]_shopperVars

-----------------------------------------------------------------------------
(* The properties of Carts, CardLists and CartOptimizer, by their names there. *)

\* The tab shows the stored cart once all is quiet (persist, clear, hydrateCart).
QuietAgreement == C!QuietAgreement
\* The links lead to the cart the checkout page shows (CheckoutService).
LinksMatchCart == C!LinksMatchCart
\* A clean-up takes no cart in use or of a registered principal (CartCleanupService).
SparedCartsKept == C!SparedCartsKept
\* Rows, requests, answers, keys and jobs are well formed, list positions from 1 on.
ShopperTypeOK == C!TypeOK /\ L!TypeOK /\ O!TypeOK
\* No edit of a list empties it (replaceCards, addCardById).
NeverEmptied == L!NeverEmptied
\* Only overlapping requests exceed the limit of lists (createList).
LimitHeldAlone == L!LimitHeldAlone
\* A tab shows what is stored once its requests are through (ListsContext).
ShownIsStored == L!ShownIsStored
\* One refresh per cooldown (ListRefreshService.request).
RefreshedOnce == L!RefreshedOnce
\* An optimization that is not cut short finds the best cart (optimizeCart).
NoBetterCart == O!NoBetterCart
\* Only mode "cheaper" leaves out a card that can be bought (eligibleConditions).
MissingUnavailable == O!MissingUnavailable
\* A copy in the requested condition is found (cart-optimizer.spec.ts).
RequestedConditionFound == O!RequestedConditionFound
=============================================================================
