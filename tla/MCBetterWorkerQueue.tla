------------------------ MODULE MCBetterWorkerQueue ------------------------
(* Instances of BetterWorkerQueue for TLC.  Tasks are interchangeable, and  *)
(* so are the schedulers.                                                  *)
EXTENDS BetterWorkerQueue, TLC

Symmetry == Permutations(Tasks) \cup Permutations(Servers) \cup Permutations(Schedulers)

============================================================================
