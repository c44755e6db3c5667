------------------------------ MODULE MCScheduler ------------------------------
(***************************************************************************)
(* TLC instances of Scheduler.  ExtractionRuns: two stores, two rows.      *)
(* CatalogueSync: two sets, one of them with a product on sale, and a      *)
(* worker that matches two at a time.                                      *)
(***************************************************************************)
EXTENDS Scheduler

MCSetOf == <<1>>
=============================================================================
