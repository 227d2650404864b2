------------------------- MODULE MCDispatchService -------------------------
(***************************************************************************)
(* Instances of DispatchService for TLC: two jobs with different sinks, so  *)
(* that some batches mix them.                                             *)
(***************************************************************************)
EXTENDS DispatchService, TLC

CONSTANTS j1, j2

MCSinkMode == [j \in Jobs |-> IF j = j1 THEN "local" ELSE "local_and_elastic"]

\* The queue ids are interchangeable, and so are the threads that start with
\* the service; only the safety run uses this.
Interchangeable == Permutations(QueueIds) \union Permutations(FirstWorkers)
=============================================================================
