------------------------- MODULE CatalogueDiscovery -------------------------
(***************************************************************************)
(* What the discovery of a store's catalogue promises, without jobs, pages *)
(* or failures: once it has been opened, every product of the catalogue is *)
(* owed until it is processed or reported as not discoverable, and the     *)
(* discovery closes only when nothing is owed.                             *)
(***************************************************************************)
CONSTANT Product

VARIABLES
    fate,  \* "owed", "reported" or "processed", for every product
    open   \* discovery still has work in the queue

vars == <<fate, open>>

Fates == {"owed", "reported", "processed"}

Init ==
    /\ fate = [p \in Product |-> "owed"]
    /\ open = FALSE

\* A discovery run is planned.
Start ==
    /\ open' = TRUE
    /\ UNCHANGED fate

\* Some products are processed or reported; none goes back.
Advance ==
    /\ open
    /\ fate' \in [Product -> Fates]
    /\ \A p \in Product :
        \/ fate'[p] = fate[p]
        \/ fate[p] = "owed"
        \/ fate[p] = "reported" /\ fate'[p] = "processed"
    /\ open' = TRUE \/ (open' = FALSE /\ \A p \in Product : fate'[p] # "owed")

Next == Start \/ Advance

Spec == Init /\ [][Next]_vars
=============================================================================
