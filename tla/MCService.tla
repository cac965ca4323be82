----------------------------- MODULE MCService -----------------------------
(* A small instance of Service for TLC.                                    *)
EXTENDS Service, TLC

CONSTANTS t1, t2, s1, f1

\* Two workers of one service; each launches, posts and stops until it calls
\* run(), and again when run() has returned.
HomeBoth == t1 :> s1 @@ t2 :> s1

OwnerOne == f1 :> s1

=============================================================================
