------------------------ MODULE MCBatchAccumulator ------------------------
(***************************************************************************)
(* TLC instances of BatchAccumulator: products with two variants.          *)
(***************************************************************************)
EXTENDS BatchAccumulator, TLC

CONSTANTS a, b

\* Both variants in stock; one withdrawn and the other sold out.
MCAnswer == { [offered |-> {a, b}, stock |-> {a, b}], [offered |-> {a}, stock |-> {}] }
\* One failure, crash or stop: a crash during a drain is left to MCJobs.
OneMishap == faults + stops <= 1

\* Workers and runs are interchangeable.
Symmetry == Permutations(Worker) \cup Permutations(Run)
=============================================================================
