------------------------------- MODULE MCShopper -------------------------------
(***************************************************************************)
(* TLC instances of Shopper.  Carts: two owners, one with an older cart.   *)
(* CardLists: one stored list, room for one more row.  CartOptimizer: two  *)
(* positions, the second with a preferred set; any of eight offers of two  *)
(* stores.  FillBestCards: a card in two stores, two fills, a page left    *)
(* once.                                                                   *)
(***************************************************************************)
EXTENDS Shopper, TLC

CONSTANTS p1, p2, a, b, l1, l2, n1, n2, known, unknown

\* Each offer is in a store of its own, which goes by its name.
MCCardOf == a :> 1 @@ b :> 1
MCStoreOf == a :> a @@ b :> b

MCStoredCarts == p1 :> [ids |-> None, old |-> FALSE] @@ p2 :> [ids |-> {a, b}, old |-> TRUE]

MCStoredLists == [l \in {l1, l2} |->
                     IF l = l1 THEN [name |-> n1, cards |-> <<known>>] ELSE None]
MCContents == {<<unknown>>, <<unknown, known>>}

MCEntryCard == <<1, 2>>
MCPrefers == <<None, "A">>
CopyOf(card, store, condition, price, set) ==
    [card |-> card, store |-> store, condition |-> condition, price |-> price, set |-> set]
\* Store 1 has the first card near mint, heavily played and moderately played, store 2
\* a little dearer; the second card is cheapest in a set that is not asked for.
MCCopy ==
    <<CopyOf(1, 1, 5, 8, "A"), CopyOf(1, 1, 2, 3, "A"), CopyOf(1, 1, 3, 6, "B"),
      CopyOf(1, 2, 5, 9, "A"), CopyOf(1, 2, 3, 5, "B"),
      CopyOf(2, 1, 5, 4, "A"), CopyOf(2, 2, 4, 2, "B"), CopyOf(2, 2, 5, 3, "A")>>
MCShipping == <<3, 4>>

\* The page asks for two steps down at most; a cart may hold the second card already.
MCRequest ==
    {r \in [mode : {"strict", "needed", "cheaper"}, minimum : {0, 4, 5}, maxSteps : {2},
            penalty : {0, 2}, cart : SUBSET {[card |-> 2, store |-> 2]}] :
        r.mode = "strict" => r.penalty = 0}
AtRest == [mode |-> "strict", minimum |-> 5, maxSteps |-> 2, penalty |-> 0, cart |-> {}]

Swap == Permutations({a, b})

\* A part that is at rest has one initial state.
MCInit ==
    /\ ShopperInit
    /\ part # "optimizer" => request = AtRest /\ offers = {}
    /\ part # "carts" => cartItems = {} /\ me = p1
    /\ part # "fill" => items = {}

MCSpec == MCInit /\ [][ShopperNext]_shopperVars
=============================================================================
