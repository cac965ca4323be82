---------------------------- MODULE MCScheduler ----------------------------
(* Small instances of Scheduler for TLC.                                   *)
EXTENDS Scheduler, TLC

\* Coroutines are interchangeable, and so are threads and schedulers: the
\* specification names none of them.
SafetySymmetry ==
  Permutations(Coros) \cup Permutations(Threads) \cup Permutations(Schedulers)

=============================================================================
