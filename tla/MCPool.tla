------------------------------- MODULE MCPool -------------------------------
(***************************************************************************)
(* Values for the constants of WorkerPool and Overtaking.                  *)
(***************************************************************************)
EXTENDS Overtaking

CONSTANTS a, b, c, d, w1, w2, w3

\* All kinds of commands a submitter can hand over: two programs, an empty
\* command and exit.
MCMixedJobs == {a, b, c, d}
MCMixedKind == (a :> "program") @@ (b :> "program") @@ (c :> "empty") @@ (d :> "exit")
MCMixedPriority == [j \in MCMixedJobs |-> 0]

\* Programs only, the workload of the benchmark.
MCPrograms == {a, b, c}
MCProgramKind == [j \in MCPrograms |-> "program"]
MCDistinct == (a :> 0) @@ (b :> 1) @@ (c :> 2)

MCTwoWorkers == {w1, w2}
MCThreeWorkers == {w1, w2, w3}
MCWorkerSymmetry == Permutations(Workers)
=============================================================================
