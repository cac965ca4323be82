------------------------------- MODULE Async -------------------------------
(***************************************************************************)
(* async<T> of ice/async.hpp: a coroutine that is started by the one that  *)
(* awaits it and that may end on another thread.  After the awaited        *)
(* coroutine gave control back, the awaiting thread sets the continuation  *)
(* and exchanges m_state; the awaited one exchanges m_state when it ends.  *)
(* Whoever comes second goes on with the awaiter: try_set_continuation     *)
(* returning false, or final_awaitable resuming the continuation.          *)
(*                                                                         *)
(* Coroutines may suspend for other reasons ("hop": they are resumed by    *)
(* any thread, such as a worker of a context).  A thread has a stack of    *)
(* calls of await_suspend (or starter::start) that wait for resume() to    *)
(* return: host[c] is the thread on whose stack the one for c is, and      *)
(* below[c] the one under it.                                              *)
(***************************************************************************)
EXTENDS Integers, FiniteSets

CONSTANTS Threads, Coros, Nil,
          Callback,  \* a continuation that calls a function: starter::start
          MaxHops    \* bound: suspensions of a coroutine for other reasons

ASSUME AsyncAssumption ==
  /\ Nil \notin Coros \cup Threads
  /\ Callback \notin Coros \cup {Nil}
  /\ MaxHops \in Nat

VARIABLES
  frame,           \* frame[c]: where coroutine c is
  parent,          \* parent[c]: the coroutine that owns the async<T>, or Nil
  m_state,         \* m_state[c]
  m_continuation,  \* m_continuation[c]
  outcome,         \* outcome[c]: what return_value or unhandled_exception stored
  called,          \* called[c]: the callback of c was called
  hops,            \* hops[c]: suspensions so far
  host, below,     \* the stacks of the threads
  cur,             \* cur[t]: the coroutine that runs on t, or Nil
  pc               \* pc[t]: "run", or the step of the handshake t is in

promises == <<m_state, m_continuation, outcome>>
stacks   == <<host, below>>
vars == <<frame, parent, m_state, m_continuation, outcome, called, hops, host, below, cur, pc>>

TypeOK ==
  /\ frame \in [Coros -> {"none", "initial", "body", "hop", "await", "final", "gone"}]
  /\ parent \in [Coros -> Coros \cup {Nil}]
  /\ m_state \in [Coros -> BOOLEAN]
  /\ m_continuation \in [Coros -> Coros \cup {Nil, Callback}]
  /\ outcome \in [Coros -> {"none", "value", "exception"}]
  /\ called \in [Coros -> BOOLEAN]
  /\ hops \in [Coros -> 0..MaxHops]
  /\ host \in [Coros -> Threads \cup {Nil}]
  /\ below \in [Coros -> Coros \cup {Nil}]
  /\ cur \in [Threads -> Coros \cup {Nil}]
  /\ pc \in [Threads -> {"run", "link", "final", "resume"}]

Init ==
  /\ frame = [c \in Coros |-> "none"]
  /\ parent = [c \in Coros |-> Nil]
  /\ m_state = [c \in Coros |-> FALSE]
  /\ m_continuation = [c \in Coros |-> Nil]
  /\ outcome = [c \in Coros |-> "none"]
  /\ called = [c \in Coros |-> FALSE]
  /\ hops = [c \in Coros |-> 0]
  /\ host = [c \in Coros |-> Nil]
  /\ below = [c \in Coros |-> Nil]
  /\ cur = [t \in Threads |-> Nil]
  /\ pc = [t \in Threads |-> "run"]

Running(t, c) == pc[t] = "run" /\ cur[t] = c
Hosted(t) == {c \in Coros : host[c] = t}
Idle(t) == Running(t, Nil) /\ Hosted(t) = {}
IsTop(t, c) == c \in Hosted(t) /\ \A d \in Hosted(t) : below[d] # c

\* c's async<T> is the one that w owns at present.
Owns(w, c) == parent[c] = w /\ frame[c] \notin {"none", "gone"}

\* resume() of c from await_suspend or start(), on top of what t runs already.
Push(t, c) ==
  /\ host' = [host EXCEPT ![c] = t]
  /\ \/ Hosted(t) = {} /\ below' = [below EXCEPT ![c] = Nil]
     \/ \E d \in Coros : IsTop(t, d) /\ below' = [below EXCEPT ![c] = d]
  /\ cur' = [cur EXCEPT ![t] = c]

-----------------------------------------------------------------------------
(* The owner of an async<T>: a coroutine, or code that uses get_starter(). *)

\* starter::start.  (For an empty handle or a coroutine that is done it calls
\* the callback at once, and touches no promise.)
Start(t, c) ==
  /\ Idle(t) /\ frame[c] = "none"
  /\ frame' = [frame EXCEPT ![c] = "body"]
  /\ Push(t, c)
  /\ UNCHANGED <<parent, promises, called, hops, pc>>

\* A call of an asynchronous function: the frame waits at initial_suspend.
Create(t, w, c) ==
  /\ Running(t, w) /\ frame[c] = "none" /\ \A d \in Coros : ~Owns(w, d)
  /\ frame' = [frame EXCEPT ![c] = "initial"]
  /\ parent' = [parent EXCEPT ![c] = w]
  /\ UNCHANGED <<promises, called, hops, stacks, cur, pc>>

\* co_await: await_suspend resumes c.  (If c is done, await_ready is true and
\* the awaiter goes on at once: a stuttering step.)
Await(t, w, c) ==
  /\ Running(t, w) /\ Owns(w, c) /\ frame[c] = "initial"
  /\ frame' = [frame EXCEPT ![w] = "await", ![c] = "body"]
  /\ Push(t, c)
  /\ UNCHANGED <<parent, promises, called, hops, pc>>

\* ~async, in whatever state c is: the owner runs, or was called back.
Destroy(t, c) ==
  /\ frame[c] \notin {"none", "gone"}
  /\ \/ parent[c] # Nil /\ Running(t, parent[c])
     \/ parent[c] = Nil /\ Idle(t) /\ called[c]
  /\ frame' = [frame EXCEPT ![c] = "gone"]
  /\ UNCHANGED <<parent, promises, called, hops, stacks, cur, pc>>

-----------------------------------------------------------------------------
(* The body of a coroutine                                                 *)

Hop(t, c) ==
  /\ Running(t, c) /\ hops[c] < MaxHops
  /\ hops' = [hops EXCEPT ![c] = @ + 1]
  /\ frame' = [frame EXCEPT ![c] = "hop"]
  /\ cur' = [cur EXCEPT ![t] = Nil]
  /\ UNCHANGED <<parent, promises, called, stacks, pc>>

Land(t, c) ==
  /\ Idle(t) /\ frame[c] = "hop"
  /\ frame' = [frame EXCEPT ![c] = "body"]
  /\ cur' = [cur EXCEPT ![t] = c]
  /\ UNCHANGED <<parent, promises, called, hops, stacks, pc>>

\* Faulty variant: the exception is not kept.
ReturnForgetsException(t, c) ==
  /\ Running(t, c) /\ \A d \in Coros : ~Owns(c, d)
  /\ \E o \in {"value", "none"} : outcome' = [outcome EXCEPT ![c] = o]
  /\ frame' = [frame EXCEPT ![c] = "final"]
  /\ pc' = [pc EXCEPT ![t] = "final"]
  /\ UNCHANGED <<parent, m_state, m_continuation, called, hops, stacks, cur>>

\* co_return or an exception; what the body owned is destroyed before.
Return(t, c) ==
  /\ Running(t, c) /\ \A d \in Coros : ~Owns(c, d)
  /\ \E o \in {"value", "exception"} : outcome' = [outcome EXCEPT ![c] = o]
  /\ frame' = [frame EXCEPT ![c] = "final"]
  /\ pc' = [pc EXCEPT ![t] = "final"]
  /\ UNCHANGED <<parent, m_state, m_continuation, called, hops, stacks, cur>>

-----------------------------------------------------------------------------
(* The handshake                                                           *)

\* The thread goes on with the owner of c.
Continue(t, c, k) ==
  \/ /\ k = Callback
     /\ called' = [called EXCEPT ![c] = TRUE]
     /\ cur' = [cur EXCEPT ![t] = Nil]
     /\ UNCHANGED frame
  \/ /\ k \in Coros
     /\ frame' = [frame EXCEPT ![k] = "body"]
     /\ cur' = [cur EXCEPT ![t] = k]
     /\ UNCHANGED called

GiveUp(t) == cur' = [cur EXCEPT ![t] = Nil] /\ UNCHANGED <<frame, called>>

Continuation(c) == IF parent[c] = Nil THEN Callback ELSE parent[c]

\* Faulty variant: the continuation is not stored.
SetNoContinuation(t, c) ==
  /\ Running(t, Nil) /\ IsTop(t, c)
  /\ pc' = [pc EXCEPT ![t] = "link"]
  /\ UNCHANGED <<frame, parent, promises, called, hops, stacks, cur>>

\* try_set_continuation, once resume() has returned.
SetContinuation(t, c) ==
  /\ Running(t, Nil) /\ IsTop(t, c)
  /\ m_continuation' = [m_continuation EXCEPT ![c] = Continuation(c)]
  /\ pc' = [pc EXCEPT ![t] = "link"]
  /\ UNCHANGED <<frame, parent, m_state, outcome, called, hops, stacks, cur>>

\* Faulty variants: the answer of try_set_continuation is not looked at, and
\* the awaiter always goes on, or always stays suspended.
LinkAndGoOn(t, c) ==
  /\ pc[t] = "link" /\ IsTop(t, c)
  /\ m_state' = [m_state EXCEPT ![c] = TRUE]
  /\ host' = [host EXCEPT ![c] = Nil]
  /\ below' = [below EXCEPT ![c] = Nil]
  /\ pc' = [pc EXCEPT ![t] = "run"]
  /\ Continue(t, c, Continuation(c))
  /\ UNCHANGED <<parent, m_continuation, outcome, hops>>

LinkAndSuspend(t, c) ==
  /\ pc[t] = "link" /\ IsTop(t, c)
  /\ m_state' = [m_state EXCEPT ![c] = TRUE]
  /\ host' = [host EXCEPT ![c] = Nil]
  /\ below' = [below EXCEPT ![c] = Nil]
  /\ pc' = [pc EXCEPT ![t] = "run"]
  /\ GiveUp(t)
  /\ UNCHANGED <<parent, m_continuation, outcome, hops>>

Link(t, c) ==
  /\ pc[t] = "link" /\ IsTop(t, c)
  /\ m_state' = [m_state EXCEPT ![c] = TRUE]
  /\ host' = [host EXCEPT ![c] = Nil]
  /\ below' = [below EXCEPT ![c] = Nil]
  /\ pc' = [pc EXCEPT ![t] = "run"]
  /\ IF m_state[c] THEN Continue(t, c, Continuation(c)) ELSE GiveUp(t)
  /\ UNCHANGED <<parent, m_continuation, outcome, hops>>

\* Faulty variant: whoever completes resumes the continuation that is there.
FinalResumes(t, c) ==
  /\ pc[t] = "final" /\ cur[t] = c
  /\ m_state' = [m_state EXCEPT ![c] = TRUE]
  /\ IF m_continuation[c] # Nil THEN pc' = [pc EXCEPT ![t] = "resume"] /\ UNCHANGED <<cur, frame, called>>
     ELSE pc' = [pc EXCEPT ![t] = "run"] /\ GiveUp(t)
  /\ UNCHANGED <<parent, m_continuation, outcome, hops, stacks>>

\* final_awaitable::await_suspend
FinalSuspend(t, c) ==
  /\ pc[t] = "final" /\ cur[t] = c
  /\ m_state' = [m_state EXCEPT ![c] = TRUE]
  /\ IF m_state[c] THEN pc' = [pc EXCEPT ![t] = "resume"] /\ UNCHANGED <<cur, frame, called>>
     ELSE pc' = [pc EXCEPT ![t] = "run"] /\ GiveUp(t)
  /\ UNCHANGED <<parent, m_continuation, outcome, hops, stacks>>

ResumeContinuation(t, c) ==
  /\ pc[t] = "resume" /\ cur[t] = c
  /\ Continue(t, c, m_continuation[c])
  /\ pc' = [pc EXCEPT ![t] = "run"]
  /\ UNCHANGED <<parent, promises, hops, stacks>>

-----------------------------------------------------------------------------
Handshake(t, c) ==
  SetContinuation(t, c) \/ Link(t, c) \/ FinalSuspend(t, c) \/ ResumeContinuation(t, c)

Owner(t, c) ==
  \/ Start(t, c) \/ Destroy(t, c)
  \/ \E w \in Coros : Create(t, w, c) \/ Await(t, w, c)

Next == \E t \in Threads, c \in Coros :
  Owner(t, c) \/ Hop(t, c) \/ Land(t, c) \/ Return(t, c) \/ Handshake(t, c)

\* What t has in hand: a body goes on to its end, and then the handshake.
Work(t) == \E c \in Coros :
  \/ Handshake(t, c) \/ Return(t, c)
  \/ parent[c] # Nil /\ (Await(t, parent[c], c) \/ Destroy(t, c))

(* A thread goes on with what it has in hand, and some thread resumes a    *)
(* coroutine that suspended for other reasons.  Nobody has to call         *)
(* anything, or to hop.                                                    *)
Fairness ==
  /\ \A t \in Threads : WF_vars(Work(t))
  /\ \A c \in Coros : SF_vars(\E t \in Threads : Land(t, c))

Spec == Init /\ [][Next]_vars
FairSpec == Spec /\ Fairness

-----------------------------------------------------------------------------
(* Properties                                                              *)

(* A coroutine is resumed only when it is suspended, by one thread: every  *)
(* coroutine in its body is on one stack, what runs is in its body, and    *)
(* once the callback was called nobody is left who would call it again.    *)
RunsOnce ==
  /\ \A t, u \in Threads : cur[t] = cur[u] /\ cur[t] # Nil => t = u
  /\ \A t \in Threads : cur[t] # Nil => frame[cur[t]] = IF pc[t] = "run" THEN "body" ELSE "final"
  /\ \A c \in Coros : frame[c] = "body" => \E t \in Threads : Running(t, c)
  /\ \A c \in Coros : called[c] => host[c] = Nil /\ \A t \in Threads : cur[t] # c

(* The promise is accessed while its frame is there: by the thread that    *)
(* completes, and by the one that has await_suspend on its stack; and the  *)
(* continuation that is resumed is the one of the owner.  An owner that is *)
(* not suspended at its co_await owns a coroutine that was not started or  *)
(* is at its end, where await_resume finds a value or an exception.        *)
PromiseAlive ==
  /\ \A t \in Threads : pc[t] \in {"final", "resume"} => cur[t] # Nil /\ frame[cur[t]] = "final"
  /\ \A t \in Threads : pc[t] = "resume" => m_continuation[cur[t]] = Continuation(cur[t])
  /\ \A c \in Coros : host[c] # Nil => frame[c] \notin {"none", "initial", "gone"}
  /\ \A c \in Coros : parent[c] # Nil /\ frame[parent[c]] # "await" =>
       frame[c] \in {"initial", "gone"} \/ (frame[c] = "final" /\ outcome[c] # "none")

(* ~async_promise destroys the result if m_state says "completed" and      *)
(* there is no exception; m_state is also true when only the continuation  *)
(* was set, so the two must agree whenever an async<T> is destroyed.       *)
DestroysResult == [][\A c \in Coros : frame[c] # "gone" /\ frame'[c] = "gone" =>
  (m_state[c] /\ outcome[c] # "exception" <=> outcome[c] = "value")]_vars

(* Whoever comes second goes on with the owner: a coroutine that awaits    *)
(* goes on, and the callback of a starter is called.                       *)
OwnerGoesOn == \A c \in Coros :
  /\ frame[c] = "await" ~> frame[c] = "body"
  /\ parent[c] = Nil /\ frame[c] # "none" ~> called[c]

(* co_await of an async<T> is a call.                                      *)
callState == [c \in Coros |-> CASE frame[c] = "initial" -> "created"
                                [] frame[c] \in {"body", "hop"} -> "active"
                                [] frame[c] = "await" -> "waiting"
                                [] frame[c] = "final" -> "done"
                                [] OTHER -> frame[c]]

Calls == INSTANCE AsyncCall WITH Nobody <- Nil, caller <- parent, state <- callState

CallSpec == Calls!Spec

-----------------------------------------------------------------------------
(* The inductive invariant                                                 *)

\* c has come neither to its end nor to the exchange after it.
Active(c) == frame[c] \in {"body", "hop", "await"} \/ \E t \in Threads : cur[t] = c

\* The owner of c has not gone on yet.
Pending(c) == host[c] # Nil \/ Active(c)

\* Only the thread between the exchange and resume() has no body to run.
ThreadShape == \A t \in Threads :
  /\ pc[t] = "link" => cur[t] = Nil
  /\ pc[t] \in {"final", "resume"} => cur[t] # Nil
  /\ pc[t] = "resume" => host[cur[t]] = Nil

\* The calls on a stack hang together and one of them is the newest: the one
\* whose continuation is set and linked next.
StackShape ==
  /\ \A c \in Coros : below[c] # Nil => host[c] # Nil /\ host[below[c]] = host[c]
  /\ \A t \in Threads, c, d \in Coros : IsTop(t, c) /\ IsTop(t, d) => c = d
  /\ \A t \in Threads, c \in Coros : pc[t] = "link" /\ IsTop(t, c) => m_continuation[c] = Continuation(c)

\* Of the two exchanges of m_state, the one that finds TRUE is the second:
\* m_state tells whether the other side has been there.
HandshakeShape == \A c \in Coros :
  /\ frame[c] \in {"none", "initial"} => host[c] = Nil /\ ~m_state[c] /\ ~called[c] /\ outcome[c] = "none"
  /\ host[c] # Nil => frame[c] \notin {"none", "initial", "gone"} /\ (m_state[c] <=> ~Active(c))
  /\ host[c] = Nil /\ Active(c) => m_state[c] /\ m_continuation[c] = Continuation(c)
  /\ frame[c] \in {"body", "hop", "await"} => outcome[c] = "none"
  /\ frame[c] = "final" => outcome[c] # "none" /\ (m_state[c] \/ Active(c))
  /\ called[c] => frame[c] \in {"final", "gone"}

\* A coroutine owns one async<T> at a time and awaits it until it is done.
OwnerShape == \A c \in Coros :
  /\ parent[c] # Nil => frame[c] # "none"
  /\ parent[c] # Nil /\ Pending(c) => frame[parent[c]] = "await"
  /\ \A w, d \in Coros : Owns(w, c) /\ Owns(w, d) => c = d

IInv == TypeOK /\ RunsOnce /\ ThreadShape /\ StackShape /\ HandshakeShape /\ OwnerShape

=============================================================================
