------------------------------ MODULE FifoLock ------------------------------
(***************************************************************************)
(* What async_mutex promises: one owner at a time, and the lock is handed  *)
(* to those who had to wait in the order in which they started to wait.    *)
(***************************************************************************)
EXTENDS Sequences

CONSTANTS Coros, None

VARIABLES owner, waiters

vars == <<owner, waiters>>

Init == owner = None /\ waiters = <<>>

Waits(c) == \E i \in DOMAIN waiters : waiters[i] = c

Acquire(c) ==
  /\ owner = None
  /\ owner' = c
  /\ UNCHANGED waiters

Enqueue(c) ==
  /\ owner \notin {None, c} /\ ~Waits(c)
  /\ waiters' = Append(waiters, c)
  /\ UNCHANGED owner

Release ==
  /\ owner # None /\ waiters = <<>>
  /\ owner' = None
  /\ UNCHANGED waiters

HandOff ==
  /\ owner # None /\ waiters # <<>>
  /\ owner' = Head(waiters)
  /\ waiters' = Tail(waiters)

Next == Release \/ HandOff \/ \E c \in Coros : Acquire(c) \/ Enqueue(c)

Spec == Init /\ [][Next]_vars

=============================================================================
