----------------------------- MODULE MCContext -----------------------------
(* Small instances of Context for TLC.                                     *)
EXTENDS Context, TLC

CONSTANTS t1, t2, t3, s1, s2

\* A worker and a thread that never enters run().
HomeWorker == t1 :> s1 @@ t2 :> Nil
\* Two workers of one context and a thread outside.
HomePool == t1 :> s1 @@ t2 :> s1 @@ t3 :> Nil

=============================================================================
