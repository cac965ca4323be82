----------------------------- MODULE AsyncMutex -----------------------------
(***************************************************************************)
(* async_mutex of ice/async.hpp: coroutines that run on different threads  *)
(* lock and unlock one mutex.  m_state is not_locked, locked_no_waiters or *)
(* the newest of a stack of waiting lock operations; m_waiters is the list *)
(* the current owner took from that stack, oldest first.  unlock() resumes *)
(* the next owner on its own stack: the unlocking coroutine goes on only   *)
(* when the resumed one gives control back.                                *)
(*                                                                         *)
(* A coroutine has at most one lock operation at a time, in its frame: the *)
(* operation is the coroutine.  locked_no_waiters is 0, the null pointer,  *)
(* and ends the stack.  Each access to m_state is a step; a weak exchange  *)
(* that fails spuriously is a stuttering step.  m_waiters and m_next are   *)
(* plain fields: m_waiters is accessed by the holder of the mutex only, so *)
(* MutualExclusion makes its accesses free of races.                       *)
(***************************************************************************)
EXTENDS Integers, Sequences, FiniteSets, SequencesExt

CONSTANTS Coros,      \* coroutines that share the mutex
          Nil,        \* nullptr, and locked_no_waiters
          NotLocked   \* not_locked

ASSUME MutexAssumption ==
  /\ Nil \notin Coros
  /\ NotLocked \notin Coros \cup {Nil}
  /\ IsFiniteSet(Coros)

VARIABLES
  m_state,    \* NotLocked, Nil (locked_no_waiters) or the newest waiter
  m_waiters,  \* the list of waiters that was taken, or Nil
  m_next,     \* m_next[c]: link of c's lock operation
  pc,         \* pc[c]: what coroutine c is doing
  seen,       \* seen[c]: oldState of await_suspend
  first,      \* first[c]: waitersHead of unlock
  rest,       \* rest[c]: `next` of unlock, what is left to reverse
  resumer     \* resumer[c]: whose unlock() is on the stack below c, or Nil

local == <<seen, first, rest>>
vars == <<m_state, m_waiters, m_next, pc, seen, first, rest, resumer>>

Node == Coros \cup {Nil}

\* The coroutine owns the mutex: it is in its critical section or in unlock().
Holding == {"owner", "free", "take", "reverse", "handoff"}

TypeOK ==
  /\ m_state \in Node \cup {NotLocked}
  /\ m_waiters \in Node
  /\ m_next \in [Coros -> Node]
  /\ pc \in [Coros -> Holding \cup {"idle", "load", "cas", "suspended", "nested", "done"}]
  /\ seen \in [Coros -> Node \cup {NotLocked}]
  /\ first \in [Coros -> Node]
  /\ rest \in [Coros -> Node]
  /\ resumer \in [Coros -> Node]

Init ==
  /\ m_state = NotLocked
  /\ m_waiters = Nil
  /\ m_next = [c \in Coros |-> Nil]
  /\ pc = [c \in Coros |-> "idle"]
  /\ seen = [c \in Coros |-> Nil]
  /\ first = [c \in Coros |-> Nil]
  /\ rest = [c \in Coros |-> Nil]
  /\ resumer = [c \in Coros |-> Nil]

Goto(c, from, to) == pc[c] = from /\ pc' = [pc EXCEPT ![c] = to]

\* c gives its thread back: the unlock() that resumed c, if any, returns.
GiveBack(c, from, to) ==
  /\ pc[c] = from
  /\ pc' = [d \in Coros |-> IF d = c THEN to ELSE IF d = resumer[c] THEN "idle" ELSE pc[d]]
  /\ resumer' = [resumer EXCEPT ![c] = Nil]

-----------------------------------------------------------------------------
(* try_lock, and await_suspend of lock_async and scoped_lock_async         *)

\* A try_lock that finds the mutex locked returns false and changes nothing.
TryLock(c) ==
  /\ Goto(c, "idle", "owner")
  /\ m_state = NotLocked
  /\ m_state' = Nil
  /\ UNCHANGED <<m_waiters, m_next, local, resumer>>

LockAsync(c) ==
  /\ Goto(c, "idle", "load")
  /\ UNCHANGED <<m_state, m_waiters, m_next, local, resumer>>

AwaitLoad(c) ==
  /\ Goto(c, "load", "cas")
  /\ seen' = [seen EXCEPT ![c] = m_state]
  /\ UNCHANGED <<m_state, m_waiters, m_next, first, rest, resumer>>

AwaitRetry(c) ==
  /\ pc[c] = "cas" /\ m_state # seen[c]
  /\ seen' = [seen EXCEPT ![c] = m_state]
  /\ UNCHANGED <<m_state, m_waiters, m_next, pc, first, rest, resumer>>

\* Faulty variant: a store in place of the compare-exchange.
AwaitAcquireBlindly(c) ==
  /\ Goto(c, "cas", "owner")
  /\ seen[c] = NotLocked
  /\ m_state' = Nil
  /\ UNCHANGED <<m_waiters, m_next, local, resumer>>

AwaitAcquire(c) ==
  /\ Goto(c, "cas", "owner")
  /\ seen[c] = NotLocked /\ m_state = seen[c]
  /\ m_state' = Nil
  /\ UNCHANGED <<m_waiters, m_next, local, resumer>>

AwaitEnqueue(c) ==
  /\ seen[c] # NotLocked /\ m_state = seen[c]
  /\ GiveBack(c, "cas", "suspended")
  /\ m_next' = [m_next EXCEPT ![c] = seen[c]]
  /\ m_state' = c
  /\ UNCHANGED <<m_waiters, local>>

-----------------------------------------------------------------------------
(* unlock, called directly or by the destructor of async_mutex_lock        *)

Unlock(c) ==
  /\ Goto(c, "owner", IF m_waiters = Nil THEN "free" ELSE "handoff")
  /\ first' = [first EXCEPT ![c] = m_waiters]
  /\ UNCHANGED <<m_state, m_waiters, m_next, seen, rest, resumer>>

Free(c) ==
  /\ Goto(c, "free", IF m_state = Nil THEN "idle" ELSE "take")
  /\ m_state' = IF m_state = Nil THEN NotLocked ELSE m_state
  /\ UNCHANGED <<m_waiters, m_next, local, resumer>>

\* Faulty variant: the stack is not reversed.
TakeNewestFirst(c) ==
  /\ Goto(c, "take", "handoff")
  /\ first' = [first EXCEPT ![c] = m_state]
  /\ m_state' = Nil
  /\ UNCHANGED <<m_waiters, m_next, seen, rest, resumer>>

\* Faulty variant: m_state is loaded, not exchanged.
TakeByLoad(c) ==
  /\ Goto(c, "take", "reverse")
  /\ rest' = [rest EXCEPT ![c] = m_state]
  /\ UNCHANGED <<m_state, m_waiters, m_next, seen, first, resumer>>

Take(c) ==
  /\ Goto(c, "take", "reverse")
  /\ rest' = [rest EXCEPT ![c] = m_state]
  /\ m_state' = Nil
  /\ UNCHANGED <<m_waiters, m_next, seen, first, resumer>>

\* One turn of the do-while loop, which ends when nothing is left.
ReverseOne(c) ==
  /\ Goto(c, "reverse", IF m_next[rest[c]] = Nil THEN "handoff" ELSE "reverse")
  /\ rest' = [rest EXCEPT ![c] = m_next[rest[c]]]
  /\ m_next' = [m_next EXCEPT ![rest[c]] = first[c]]
  /\ first' = [first EXCEPT ![c] = rest[c]]
  /\ UNCHANGED <<m_state, m_waiters, seen, resumer>>

\* Faulty variants: what waitersHead leads to is dropped, or m_waiters still
\* leads to waitersHead.
HandOffDropsRest(c) ==
  /\ pc[c] = "handoff"
  /\ m_waiters' = Nil
  /\ pc' = [pc EXCEPT ![c] = "nested", ![first[c]] = "owner"]
  /\ resumer' = [resumer EXCEPT ![first[c]] = c]
  /\ first' = [first EXCEPT ![c] = Nil]
  /\ UNCHANGED <<m_state, m_next, seen, rest>>

HandOffKeepsFirst(c) ==
  /\ pc[c] = "handoff"
  /\ m_waiters' = first[c]
  /\ pc' = [pc EXCEPT ![c] = "nested", ![first[c]] = "owner"]
  /\ resumer' = [resumer EXCEPT ![first[c]] = c]
  /\ first' = [first EXCEPT ![c] = Nil]
  /\ UNCHANGED <<m_state, m_next, seen, rest>>

HandOff(c) ==
  /\ pc[c] = "handoff"
  /\ m_waiters' = m_next[first[c]]
  /\ pc' = [pc EXCEPT ![c] = "nested", ![first[c]] = "owner"]
  /\ resumer' = [resumer EXCEPT ![first[c]] = c]
  /\ first' = [first EXCEPT ![c] = Nil]
  /\ UNCHANGED <<m_state, m_next, seen, rest>>

-----------------------------------------------------------------------------
(* The rest of a coroutine: it ends, or it suspends for something else     *)
(* (with or without the lock) and goes on elsewhere.                       *)

Finish(c) ==
  /\ GiveBack(c, "idle", "done")
  /\ UNCHANGED <<m_state, m_waiters, m_next, local>>

MoveAway(c) ==
  /\ resumer[c] # Nil
  /\ \E p \in {"idle", "owner"} : GiveBack(c, p, p)
  /\ UNCHANGED <<m_state, m_waiters, m_next, local>>

-----------------------------------------------------------------------------
\* What is not a coroutine's choice: it goes on once it holds the thread.
Step(c) ==
  \/ AwaitLoad(c) \/ AwaitRetry(c) \/ AwaitAcquire(c) \/ AwaitEnqueue(c)
  \/ Unlock(c) \/ Free(c) \/ Take(c) \/ ReverseOne(c) \/ HandOff(c)

Next == \E c \in Coros :
  Step(c) \/ TryLock(c) \/ LockAsync(c) \/ Finish(c) \/ MoveAway(c)

(* Critical sections end.  Outside of the mutex nobody has to lock, to     *)
(* end or to give the thread back.                                         *)
Fairness == \A c \in Coros : WF_vars(Step(c))

Spec == Init /\ [][Next]_vars
FairSpec == Spec /\ Fairness

-----------------------------------------------------------------------------
(* Properties                                                              *)

Holders   == {c \in Coros : pc[c] \in Holding}
Suspended == {c \in Coros : pc[c] = "suspended"}

(* The purpose of the class: two coroutines never own the mutex.           *)
MutualExclusion == \A c, d \in Holders : c = d

(* The assert()s of unlock() and of the destructor; `take` and `handoff`   *)
(* are where a null or invalid pointer would be dereferenced.              *)
Assertions == \A c \in Coros :
  /\ pc[c] \in Holding => m_state # NotLocked
  /\ pc[c] = "take" => m_state \in Suspended
  /\ pc[c] = "handoff" => first[c] \in Suspended
  /\ (\A d \in Coros : pc[d] \in {"idle", "done"}) => m_state = NotLocked /\ m_waiters = Nil

(* Whoever suspended in co_await lock_async() gets the mutex.              *)
Served == \A c \in Coros : pc[c] = "suspended" ~> pc[c] = "owner"

(* unlock() runs the next owner on its own stack, and that one's unlock()  *)
(* the owner after it.  One that never returns has a coroutine above it    *)
(* that is outside of the mutex for ever, or comes back there again and    *)
(* again, or tries for ever to lock, and never suspends; nothing in        *)
(* unlock() itself, such as a list without an end, keeps it.               *)
Unlocking == {"free", "take", "reverse", "handoff", "nested"}

Below(d) == {c \in Coros : \A S \in SUBSET Coros :
  (\A e \in S \cup {d} : resumer[e] \in S \cup {Nil}) => c \in S}

OnlyCoroutinesKeepUnlock == \A c \in Coros :
  \/ []<>(pc[c] \notin Unlocking)
  \/ \E d \in Coros : <>[](c \in Below(d)) /\ []<>(pc[d] \in {"idle", "cas"})

(* Who waits is not forgotten: something leads to every suspended one.     *)
NoLostWaiter == \A c \in Suspended :
  \/ c \in {m_state, m_waiters}
  \/ \E d \in Holders : c \in {first[d], rest[d]}
  \/ \E d \in Suspended : m_next[d] = c

(* What makes these inductive: what m_state, m_waiters and the locals of   *)
(* unlock() can be at each point of it, ...                                *)
HolderShape ==
  /\ m_state = NotLocked <=> Holders = {}
  /\ m_state = NotLocked => m_waiters = Nil
  /\ \A c \in Coros :
       /\ pc[c] \in {"free", "take", "reverse"} => m_waiters = Nil
       /\ pc[c] = "handoff" => m_waiters \in {Nil, first[c]}
       /\ pc[c] = "handoff" <=> first[c] # Nil /\ rest[c] = Nil
       /\ pc[c] = "reverse" <=> rest[c] # Nil
       /\ pc[c] = "take" => m_state # Nil

(* ... whose unlock() waits for whom, ...                                  *)
ResumerShape == \A c \in Coros : resumer[c] # Nil =>
  /\ resumer[c] # c /\ pc[resumer[c]] = "nested"
  /\ pc[c] \notin {"suspended", "done"}
  /\ \A d \in Coros : resumer[d] = resumer[c] => d = c

(* ... that all pointers lead to suspended coroutines, ...                 *)
NoDangling ==
  /\ m_state \in Suspended \cup {Nil, NotLocked}
  /\ m_waiters \in Suspended \cup {Nil}
  /\ \A c \in Coros : first[c] \in Suspended \cup {Nil} /\ rest[c] \in Suspended \cup {Nil}
  /\ \A c \in Suspended : m_next[c] \in Suspended \cup {Nil}

(* ... and that no two lead to the same one.                               *)
NoSharing ==
  /\ m_state \in Coros => m_state # m_waiters /\ \A c \in Coros : m_state \notin {first[c], rest[c]}
  /\ \A c \in Coros : first[c] # Nil => first[c] # rest[c]
  /\ \A c \in Suspended : m_next[c] # Nil =>
       /\ m_next[c] \notin {m_state, m_waiters}
       /\ \A d \in Coros : m_next[c] \notin {first[d], rest[d]}
       /\ \A d \in Suspended : m_next[c] = m_next[d] => c = d

IInv == /\ TypeOK /\ MutualExclusion /\ HolderShape /\ ResumerShape
        /\ NoDangling /\ NoSharing /\ NoLostWaiter

INSTANCE LinkedList WITH Nodes <- Coros, End <- Nil

Owner == IF Holders = {} THEN Nil ELSE CHOOSE h \in Holders : TRUE

(* Who waits, in the order of the successful exchanges: those the owner    *)
(* took from the stack, then the stack from its bottom up.                 *)
Stack == IF m_state = NotLocked THEN Nil ELSE m_state

Taken == IF Owner = Nil THEN <<>>
         ELSE CASE pc[Owner] = "handoff" -> Walk(first[Owner], m_next)
                [] pc[Owner] = "reverse" -> Reverse(Walk(rest[Owner], m_next)) \o Walk(first[Owner], m_next)
                [] OTHER                 -> Walk(m_waiters, m_next)

Waiting == Taken \o Reverse(Walk(Stack, m_next))

(* The mutex is a FIFO lock: the stack, its reversal and m_waiters keep    *)
(* everybody in that order.                                                *)
Lock == INSTANCE FifoLock WITH None <- Nil, owner <- Owner, waiters <- Waiting

FifoLockSpec == Lock!Spec

=============================================================================
