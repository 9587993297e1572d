----------------------------- MODULE MCRankPool -----------------------------
(* Instances of RankPool: up to four pairs on two PPS, with one worker (the  *)
(* only core), two (the default of Go) or three (set in the environment),   *)
(* and two lists a pair.  Four pairs among three workers make two tasks      *)
(* only; three pairs among two leave a short last task.                      *)
EXTENDS RankPool

AllImpls == {"go", "kotlin", "rust"}
MCEnvWorkers == {-1, 3}
=============================================================================
