-------------------------- MODULE MCProductPipeline --------------------------
(***************************************************************************)
(* TLC instances of ProductPipeline.                                       *)
(***************************************************************************)
EXTENDS ProductPipeline

\* Every judgement of the matchers, two of them with both stocks.
EveryAnswer ==
    { [match |-> "printing", stock |-> "in"], [match |-> "printing", stock |-> "out"],
      [match |-> "name", stock |-> "in"], [match |-> "none", stock |-> "out"],
      [match |-> "empty", stock |-> "out"], [match |-> "art", stock |-> "in"],
      [match |-> "gone", stock |-> "out"] }

\* A product that has a card, or matches nothing.
CardOrNothing ==
    { [match |-> "printing", stock |-> "in"], [match |-> "none", stock |-> "out"] }

OneFirstHandle == [p \in Product |-> "h1"]

\* Discovery has a slot of its own; the other handlers share one.
TwoSlots == [s \in Slot |-> IF s = 1 THEN {"page"} ELSE Kinds \ {"page"}]
==============================================================================
