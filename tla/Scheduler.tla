----------------------------- MODULE Scheduler -----------------------------
(***************************************************************************)
(* The intrusive run queue of ice/scheduler.hpp and the co_await protocol  *)
(* of schedule<>: coroutines push themselves on a lock-free stack, a       *)
(* thread inside run() takes the whole stack with one exchange, reverses   *)
(* it in place and resumes the coroutines in the order they were posted.   *)
(*                                                                         *)
(* A schedule<> object lives in the frame of the coroutine that awaits it, *)
(* and a coroutine awaits one at a time: the node IS the coroutine.  Every *)
(* access to the shared head_ is one atomic step; head_ is accessed with   *)
(* release (push) and acquire (take), so the relaxed accesses to `next` of *)
(* a node happen while one thread owns it and are folded into the step of  *)
(* their owner.  The failure of a weak compare-exchange without a change   *)
(* of head_ is a stuttering step.                                          *)
(***************************************************************************)
EXTENDS Integers, Sequences, FiniteSets, SequencesExt

CONSTANTS Schedulers,  \* objects derived from scheduler<I>: contexts, services
          Threads,     \* OS threads, inside some run() or outside
          Coros,       \* coroutines (each with its schedule<> node)
          Nil,         \* nullptr
          MaxAwaits    \* bound: co_await schedule() operations per coroutine

ASSUME SchedulerAssumption ==
  /\ Nil \notin Coros
  /\ Nil \notin Schedulers
  /\ MaxAwaits \in Nat
  /\ IsFiniteSet(Coros)

VARIABLES
  head,    \* head[s]: scheduler::head_, newest posted node or Nil
  next,    \* next[c]: schedule::next of c's node
  at,      \* at[c]: where coroutine c is
  target,  \* target[c]: the scheduler c last awaited, Nil before the first
  awaits,  \* awaits[c]: number of schedule() operations awaited so far
  pc,      \* pc[t]: what thread t is doing
  cur,     \* cur[t]: the coroutine on t's stack, or Nil
  index,   \* index[t]: the scheduler whose run() is on t's stack (TLS index_)
  seen,    \* seen[t]: `head` of post(): the expected value of the exchange
  list,    \* list[t]: `head` of acquire() and of the resume loop
  prev     \* prev[t]: `prev` of acquire(): the part already reversed

queue   == <<head, next>>
coros   == <<at, target, awaits>>
threads == <<pc, cur, index, seen, list, prev>>
schedulerVars == <<head, next, at, target, awaits, pc, cur, index, seen, list, prev>>

Node == Coros \cup {Nil}

TypeOK ==
  /\ head \in [Schedulers -> Node]
  /\ next \in [Coros -> Node]
  /\ at \in [Coros -> {"new", "running", "waiting", "posting", "queued", "done"}]
  /\ target \in [Coros -> Schedulers \cup {Nil}]
  /\ awaits \in [Coros -> 0..MaxAwaits]
  /\ pc \in [Threads -> {"idle", "exec", "load", "cas", "reverse", "drain"}]
  /\ cur \in [Threads -> Node]
  /\ index \in [Threads -> Schedulers \cup {Nil}]
  /\ seen \in [Threads -> Node]
  /\ list \in [Threads -> Node]
  /\ prev \in [Threads -> Node]

Init ==
  /\ head = [s \in Schedulers |-> Nil]
  /\ next = [c \in Coros |-> Nil]
  /\ at = [c \in Coros |-> "new"]
  /\ target = [c \in Coros |-> Nil]
  /\ awaits = [c \in Coros |-> 0]
  /\ pc = [t \in Threads |-> "idle"]
  /\ cur = [t \in Threads |-> Nil]
  /\ index = [t \in Threads |-> Nil]
  /\ seen = [t \in Threads |-> Nil]
  /\ list = [t \in Threads |-> Nil]
  /\ prev = [t \in Threads |-> Nil]

-----------------------------------------------------------------------------
(* run() is entered and left: the thread_local_storage lock.               *)

Enter(t, s) ==
  /\ pc[t] = "idle" /\ index[t] = Nil
  /\ index' = [index EXCEPT ![t] = s]
  /\ UNCHANGED <<queue, coros, pc, cur, seen, list, prev>>

Leave(t) ==
  /\ pc[t] = "idle" /\ index[t] # Nil
  /\ index' = [index EXCEPT ![t] = Nil]
  /\ UNCHANGED <<queue, coros, pc, cur, seen, list, prev>>

\* Faulty variant: one thread-local flag for all schedulers.
AnyCurrent(t, s) == index[t] # Nil

(* schedule::is_current() as the constructor of schedule<> evaluates it    *)
IsCurrent(t, s) == index[t] = s

-----------------------------------------------------------------------------
(* Coroutines.  A thread outside any run() starts one (a task runs on its  *)
(* caller's stack until it first suspends); a running one awaits a         *)
(* scheduler or something else, or returns.                                *)

Launch(t, c) ==
  /\ pc[t] = "idle" /\ index[t] = Nil /\ at[c] = "new"
  /\ at' = [at EXCEPT ![c] = "running"]
  /\ cur' = [cur EXCEPT ![t] = c]
  /\ pc' = [pc EXCEPT ![t] = "exec"]
  /\ UNCHANGED <<queue, target, awaits, index, seen, list, prev>>

\* Control goes back to whoever resumed the coroutine: the resume loop of
\* run(), or the code that launched it.
BackTo(t) == IF index[t] = Nil THEN "idle" ELSE "drain"

CountAwait(c, s) ==
  /\ awaits[c] < MaxAwaits
  /\ awaits' = [awaits EXCEPT ![c] = @ + 1]
  /\ target' = [target EXCEPT ![c] = s]

\* co_await s.schedule(post) with ready_ = true: no suspension.
AwaitReady(t, s) ==
  /\ pc[t] = "exec" /\ IsCurrent(t, s)
  /\ CountAwait(cur[t], s)
  /\ UNCHANGED <<queue, at, threads>>

\* co_await s.schedule(post) with ready_ = false: await_suspend calls post.
AwaitSuspend(t, s, post) ==
  /\ pc[t] = "exec" /\ (post \/ ~IsCurrent(t, s))
  /\ CountAwait(cur[t], s)
  /\ at' = [at EXCEPT ![cur[t]] = "posting"]
  /\ pc' = [pc EXCEPT ![t] = "load"]
  /\ UNCHANGED <<queue, cur, index, seen, list, prev>>

\* co_await of something that s completes, such as an I/O event: whoever
\* completes it resumes the coroutine on a thread inside s.run().
Suspend(t, s) ==
  /\ pc[t] = "exec"
  /\ CountAwait(cur[t], s)
  /\ at' = [at EXCEPT ![cur[t]] = "waiting"]
  /\ cur' = [cur EXCEPT ![t] = Nil]
  /\ pc' = [pc EXCEPT ![t] = BackTo(t)]
  /\ UNCHANGED <<queue, index, seen, list, prev>>

Complete(t, c) ==
  /\ pc[t] = "idle" /\ index[t] # Nil
  /\ at[c] = "waiting" /\ target[c] = index[t]
  /\ at' = [at EXCEPT ![c] = "running"]
  /\ cur' = [cur EXCEPT ![t] = c]
  /\ pc' = [pc EXCEPT ![t] = "exec"]
  /\ UNCHANGED <<queue, target, awaits, index, seen, list, prev>>

Finish(t) ==
  /\ pc[t] = "exec"
  /\ at' = [at EXCEPT ![cur[t]] = "done"]
  /\ cur' = [cur EXCEPT ![t] = Nil]
  /\ pc' = [pc EXCEPT ![t] = BackTo(t)]
  /\ UNCHANGED <<queue, target, awaits, index, seen, list, prev>>

-----------------------------------------------------------------------------
(* scheduler::post                                                         *)

PostLoad(t) ==
  /\ pc[t] = "load"
  /\ seen' = [seen EXCEPT ![t] = head[target[cur[t]]]]
  /\ pc' = [pc EXCEPT ![t] = "cas"]
  /\ UNCHANGED <<queue, coros, cur, index, list, prev>>

PostRetry(t) ==
  /\ pc[t] = "cas" /\ head[target[cur[t]]] # seen[t]
  /\ seen' = [seen EXCEPT ![t] = head[target[cur[t]]]]
  /\ UNCHANGED <<queue, coros, pc, cur, index, list, prev>>

\* Faulty variant: a store in place of the compare-exchange.
PostPublishBlindly(t) ==
  /\ pc[t] = "cas"
  /\ next' = [next EXCEPT ![cur[t]] = seen[t]]
  /\ head' = [head EXCEPT ![target[cur[t]]] = cur[t]]
  /\ at' = [at EXCEPT ![cur[t]] = "queued"]
  /\ cur' = [cur EXCEPT ![t] = Nil]
  /\ pc' = [pc EXCEPT ![t] = BackTo(t)]
  /\ UNCHANGED <<target, awaits, index, seen, list, prev>>

PostPublish(t) ==
  /\ pc[t] = "cas" /\ head[target[cur[t]]] = seen[t]
  /\ next' = [next EXCEPT ![cur[t]] = seen[t]]
  /\ head' = [head EXCEPT ![target[cur[t]]] = cur[t]]
  /\ at' = [at EXCEPT ![cur[t]] = "queued"]
  /\ cur' = [cur EXCEPT ![t] = Nil]
  /\ pc' = [pc EXCEPT ![t] = BackTo(t)]
  /\ UNCHANGED <<target, awaits, index, seen, list, prev>>

-----------------------------------------------------------------------------
(* scheduler::acquire and the resume loop of process() and context::run(). *)

\* Faulty variant: no reversal.
AcquireNewestFirst(t) ==
  /\ pc[t] = "idle" /\ index[t] # Nil /\ head[index[t]] # Nil
  /\ head' = [head EXCEPT ![index[t]] = Nil]
  /\ list' = [list EXCEPT ![t] = head[index[t]]]
  /\ pc' = [pc EXCEPT ![t] = "drain"]
  /\ UNCHANGED <<next, coros, cur, index, seen, prev>>

Acquire(t) ==
  /\ pc[t] = "idle" /\ index[t] # Nil
  /\ LET node == head[index[t]] IN
       /\ node # Nil
       /\ head' = [head EXCEPT ![index[t]] = Nil]
       /\ list' = [list EXCEPT ![t] = node]
       /\ pc' = [pc EXCEPT ![t] = IF next[node] = Nil THEN "drain" ELSE "reverse"]
  /\ UNCHANGED <<next, coros, cur, index, seen, prev>>

\* One turn of the loop that reverses the list, or its end.
ReverseOne(t) ==
  /\ pc[t] = "reverse" /\ list[t] # Nil
  /\ list' = [list EXCEPT ![t] = next[list[t]]]
  /\ next' = [next EXCEPT ![list[t]] = prev[t]]
  /\ prev' = [prev EXCEPT ![t] = list[t]]
  /\ UNCHANGED <<head, coros, pc, cur, index, seen>>

Reversed(t) ==
  /\ pc[t] = "reverse" /\ list[t] = Nil
  /\ list' = [list EXCEPT ![t] = prev[t]]
  /\ prev' = [prev EXCEPT ![t] = Nil]
  /\ pc' = [pc EXCEPT ![t] = "drain"]
  /\ UNCHANGED <<queue, coros, cur, index, seen>>

\* The link is read before resume(): the node dies with the co_await.
Resume(t) ==
  /\ pc[t] = "drain" /\ list[t] # Nil
  /\ list' = [list EXCEPT ![t] = next[list[t]]]
  /\ cur' = [cur EXCEPT ![t] = list[t]]
  /\ at' = [at EXCEPT ![list[t]] = "running"]
  /\ pc' = [pc EXCEPT ![t] = "exec"]
  /\ UNCHANGED <<queue, target, awaits, index, seen, prev>>

Return(t) ==
  /\ pc[t] = "drain" /\ list[t] = Nil
  /\ pc' = [pc EXCEPT ![t] = "idle"]
  /\ UNCHANGED <<queue, coros, cur, index, seen, list, prev>>

-----------------------------------------------------------------------------
\* What a thread does once a coroutine or the queue gave it work.
Work(t) ==
  \/ PostLoad(t) \/ PostRetry(t) \/ PostPublish(t)
  \/ ReverseOne(t) \/ Reversed(t) \/ Resume(t) \/ Return(t)

Await(t) == \E s \in Schedulers :
  AwaitReady(t, s) \/ \E post \in BOOLEAN : AwaitSuspend(t, s, post)

Next == \E t \in Threads :
  \/ \E s \in Schedulers : Enter(t, s)
  \/ \E s \in Schedulers : Suspend(t, s)
  \/ \E c \in Coros : Launch(t, c) \/ Complete(t, c)
  \/ Leave(t) \/ Await(t) \/ Finish(t) \/ Acquire(t) \/ Work(t)

Spec == Init /\ [][Next]_schedulerVars

-----------------------------------------------------------------------------
(* Properties                                                              *)

Queued == {c \in Coros : at[c] = "queued"}

(* Every pointer that some thread may still follow (a head_, the local     *)
(* lists of a thread that takes or drains a batch, the link of a queued    *)
(* node) leads to a queued coroutine: acquire() and the resume loop never  *)
(* touch the node of a coroutine that runs or whose frame is gone.         *)
NoDangling ==
  /\ \A s \in Schedulers : head[s] # Nil => head[s] \in Queued
  /\ \A t \in Threads : list[t] # Nil => list[t] \in Queued
  /\ \A t \in Threads : prev[t] # Nil => prev[t] \in Queued
  /\ \A c \in Queued : next[c] # Nil => next[c] \in Queued

(* No two such pointers lead to the same coroutine, so nobody resumes a    *)
(* coroutine that another thread (or the same one, later) resumes as well. *)
NoSharing ==
  /\ \A s1, s2 \in Schedulers : head[s1] = head[s2] /\ head[s1] # Nil => s1 = s2
  /\ \A t1, t2 \in Threads : list[t1] = list[t2] /\ list[t1] # Nil => t1 = t2
  /\ \A t1, t2 \in Threads : prev[t1] = prev[t2] /\ prev[t1] # Nil => t1 = t2
  /\ \A c1, c2 \in Queued : next[c1] = next[c2] /\ next[c1] # Nil => c1 = c2
  /\ \A s \in Schedulers, t \in Threads : head[s] # Nil => head[s] \notin {list[t], prev[t]}
  /\ \A t1, t2 \in Threads : list[t1] # Nil => list[t1] # prev[t2]
  /\ \A c \in Queued, s \in Schedulers : next[c] # Nil => next[c] # head[s]
  /\ \A c \in Queued, t \in Threads : next[c] # Nil => next[c] \notin {list[t], prev[t]}

(* A posted coroutine is never dropped by the push, the take or the        *)
(* reversal: something still leads to it until it is resumed.              *)
NoLoss == \A c \in Queued :
  \/ \E s \in Schedulers : head[s] = c
  \/ \E t \in Threads : c \in {list[t], prev[t]}
  \/ \E d \in Queued : next[d] = c

(* Pointers and queued coroutines correspond one to one, at every access   *)
(* to head_ and to the links, whoever pushes, takes, reverses and resumes. *)
QueueIntact == NoDangling /\ NoSharing /\ NoLoss

(* What tests/context.cpp asks of co_await: after co_await s.schedule() a  *)
(* coroutine runs on a thread inside s.run(), whichever thread posted it,  *)
(* and at most one thread has it on its stack.                             *)
RunsOnTarget == \A t \in Threads : cur[t] # Nil /\ at[cur[t]] = "running" =>
  /\ target[cur[t]] # Nil => index[t] = target[cur[t]]
  /\ \A u \in Threads \ {t} : cur[u] # cur[t]

(* What makes the properties above inductive: how the locals of a thread   *)
(* hang together ...                                                       *)
ThreadShape == \A t \in Threads :
  /\ pc[t] \in {"exec", "load", "cas"} <=> cur[t] # Nil
  /\ pc[t] = "exec" => at[cur[t]] = "running"
  /\ pc[t] \in {"load", "cas"} => at[cur[t]] = "posting" /\ target[cur[t]] # Nil
  /\ pc[t] \in {"reverse", "drain"} => index[t] # Nil
  /\ pc[t] = "idle" \/ index[t] = Nil => list[t] = Nil
  /\ pc[t] # "reverse" => prev[t] = Nil
  /\ \A u \in Threads : cur[t] = cur[u] /\ cur[t] # Nil => t = u

(* ... and that a list never mixes coroutines of two schedulers.           *)
ListsOnTarget ==
  /\ \A c \in Coros : at[c] = "new" => target[c] = Nil
  /\ \A s \in Schedulers : head[s] # Nil => target[head[s]] = s
  /\ \A t \in Threads : list[t] # Nil => target[list[t]] = index[t]
  /\ \A t \in Threads : prev[t] # Nil => target[prev[t]] = index[t]
  /\ \A c \in Queued : next[c] # Nil => target[next[c]] = target[c]
  /\ \A t \in Threads : pc[t] = "exec" /\ target[cur[t]] # Nil => index[t] = target[cur[t]]

IInv == TypeOK /\ ThreadShape /\ NoDangling /\ NoSharing /\ NoLoss /\ ListsOnTarget

INSTANCE LinkedList WITH Nodes <- Coros, End <- Nil

(* What the lists hold: a head_ leads to the newest node, acquire()        *)
(* reverses, and the resume loop goes on with the oldest one.              *)
Posted == [s \in Schedulers |-> Reverse(Walk(head[s], next))]
Batch   == [t \in Threads |-> IF pc[t] = "reverse"
                              THEN Reverse(Walk(list[t], next)) \o Walk(prev[t], next)
                              ELSE Walk(list[t], next)]
State   == [c \in Coros |-> IF at[c] = "posting" THEN "running" ELSE at[c]]

(* The scheduler implements a FIFO run queue: acquire() hands the oldest   *)
(* coroutine out first and leaves nothing behind, post() appends.          *)
Queue == INSTANCE RunQueue WITH pending <- Posted, batch <- Batch, state <- State

RunQueueSpec == Queue!Spec

=============================================================================
