------------------------------- MODULE Scheduler -------------------------------
(***************************************************************************)
(* What the scheduler starts: the extraction runs (ExtractionRuns) and the *)
(* import of new card sets with what the scrapers make of it               *)
(* (CatalogueSync).  They share no state, so they are explored side by     *)
(* side: a behaviour is one of either, with the other at rest.             *)
(***************************************************************************)
EXTENDS ExtractionRuns, FiniteSets

CONSTANTS
    CardSet, Product, SetOf, Worker, Task, \* of CatalogueSync
    MaxSyncFaults  \* bound: failures, crashes, lost messages of CatalogueSync

ASSUME CatalogueAssumption == SetOf \in [Product -> CardSet] /\ MaxSyncFaults \in Nat

VARIABLES part, released, imported, sync, mail, cache, warm, gen, status, delayed, todo,
          task, silent, deaf, syncFaults

\* A query is answered before a later warm-up is through.
C == INSTANCE CatalogueSync WITH
       Prompt <- TRUE, MaxFaults <- MaxSyncFaults, faults <- syncFaults

syncVars == <<released, imported, sync, mail, cache, warm, gen, status, delayed, todo,
              task, silent, deaf, syncFaults>>

EitherInit == Init /\ C!Init /\ part \in {"runs", "catalogue"}

EitherNext ==
    \/ part = "runs" /\ Next /\ UNCHANGED <<part, syncVars>>
    \/ part = "catalogue" /\ C!Next /\ UNCHANGED <<part, vars>>

EitherSpec ==
    /\ EitherInit /\ [][EitherNext]_<<part, vars, syncVars>>
    /\ \/ part = "runs" /\ Fairness
       \/ part = "catalogue" /\ C!Fairness

-----------------------------------------------------------------------------
(* The properties of CatalogueSync, by their names there. *)

\* A re-match never concludes from the time before the import (syncMissingSets).
RematchSeesTheSet == C!RematchSeesTheSet
\* A worker that has heard of a set holds no negative answer for it (match).
NoStickyMiss == C!NoStickyMiss
\* A product of an imported set is matched in the end (syncMissingSets, match).
MatchedAtLast == C!MatchedAtLast
=============================================================================
