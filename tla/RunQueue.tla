------------------------------ MODULE RunQueue ------------------------------
(***************************************************************************)
(* What scheduler<I> promises, without its pointers: one FIFO of posted    *)
(* coroutines per scheduler; a thread takes all that is pending at once    *)
(* and runs its batch in the order of the posts.                           *)
(***************************************************************************)
EXTENDS Sequences

CONSTANTS Schedulers, Threads, Coros

VARIABLES
  pending,  \* pending[s]: posted to s and not taken, oldest first
  batch,    \* batch[t]: taken by t and not resumed, next one first
  state     \* state[c]: what the owner of coroutine c sees

vars == <<pending, batch, state>>

Init ==
  /\ pending = [s \in Schedulers |-> <<>>]
  /\ batch = [t \in Threads |-> <<>>]
  /\ state = [c \in Coros |-> "new"]

Becomes(c, from, to) == state[c] = from /\ state' = [state EXCEPT ![c] = to]

Start(c)  == Becomes(c, "new", "running") /\ UNCHANGED <<pending, batch>>
Finish(c) == Becomes(c, "running", "done") /\ UNCHANGED <<pending, batch>>

\* c waits for something other than its turn, and goes on.
Wait(c)   == Becomes(c, "running", "waiting") /\ UNCHANGED <<pending, batch>>
GoOn(c)   == Becomes(c, "waiting", "running") /\ UNCHANGED <<pending, batch>>

Post(s, c) ==
  /\ Becomes(c, "running", "queued")
  /\ pending' = [pending EXCEPT ![s] = Append(@, c)]
  /\ UNCHANGED batch

Take(t, s) ==
  /\ batch[t] = <<>> /\ pending[s] # <<>>
  /\ batch' = [batch EXCEPT ![t] = pending[s]]
  /\ pending' = [pending EXCEPT ![s] = <<>>]
  /\ UNCHANGED state

Run(t) ==
  /\ batch[t] # <<>>
  /\ Becomes(Head(batch[t]), "queued", "running")
  /\ batch' = [batch EXCEPT ![t] = Tail(@)]
  /\ UNCHANGED pending

Next ==
  \/ \E c \in Coros : Start(c) \/ Finish(c) \/ Wait(c) \/ GoOn(c)
  \/ \E c \in Coros, s \in Schedulers : Post(s, c)
  \/ \E t \in Threads : Run(t) \/ \E s \in Schedulers : Take(t, s)

Spec == Init /\ [][Next]_vars

=============================================================================
