---------------------------- MODULE AsyncProofs ----------------------------
(***************************************************************************)
(* async<T> of ice/async.hpp for any number of coroutines and threads: the *)
(* handshake of awaiter and awaited coroutine goes on with the awaiter     *)
(* exactly once, and co_await implements a call (module AsyncCall).        *)
(*                                                                         *)
(* That only one side goes on is not inductive: it needs to be known what  *)
(* m_state says of the other side (HandshakeShape), that whoever waits for *)
(* c is suspended (OwnerShape), and which call of await_suspend goes on    *)
(* when resume() returns (StackShape).                                     *)
(***************************************************************************)
EXTENDS Async, TLAPS

(* Nothing has been called at the start.                                   *)
LEMMA InitEstablishesIInv == Init => IInv
BY AsyncAssumption
   DEF Init, IInv, TypeOK, RunsOnce, ThreadShape, StackShape, HandshakeShape, OwnerShape, Active,
       Pending, Owns, IsTop, Hosted, Running

(* Whoever has to go on with the owner of c finds it suspended: the        *)
(* callback has not been called, the coroutine that awaits c is on no      *)
(* thread.                                                                 *)
LEMMA OwnerSuspended ==
  ASSUME TypeOK, RunsOnce, HandshakeShape, OwnerShape, NEW c \in Coros, Pending(c)
  PROVE  /\ frame[c] \notin {"none", "initial", "gone"}
         /\ parent[c] # Nil => /\ parent[c] \in Coros
                                /\ frame[parent[c]] = "await"
                                /\ \A t \in Threads : cur[t] # parent[c]
                                /\ \A d \in Coros : parent[d] = parent[c] /\ Pending(d) => d = c
<1> USE AsyncAssumption DEF Pending
<1>1. frame[c] \notin {"none", "initial", "gone"}
  BY DEF TypeOK, RunsOnce, HandshakeShape, Active
<1>2. ASSUME parent[c] # Nil PROVE parent[c] \in Coros /\ frame[parent[c]] = "await"
  BY <1>2 DEF TypeOK, OwnerShape
<1>3. ASSUME parent[c] # Nil, NEW t \in Threads PROVE cur[t] # parent[c]
  BY <1>2, <1>3 DEF RunsOnce
<1>4. ASSUME parent[c] # Nil, NEW d \in Coros, parent[d] = parent[c], Pending(d) PROVE d = c
  <2>1. frame[d] \notin {"none", "initial", "gone"}
    BY <1>4 DEF TypeOK, RunsOnce, HandshakeShape, Active
  <2>2. parent[c] \in Coros
    BY <1>2, <1>4
  <2> QED BY <1>1, <1>4, <2>1, <2>2 DEF OwnerShape, Owns
<1> QED BY <1>1, <1>2, <1>3, <1>4

(* The second of the two exchanges comes after the end of c.               *)
LEMMA SecondExchange ==
  ASSUME TypeOK, RunsOnce, ThreadShape, StackShape, HandshakeShape,
         NEW t \in Threads, NEW c \in Coros
  PROVE  /\ pc[t] = "link" /\ IsTop(t, c) =>
              /\ Pending(c) /\ cur[t] = Nil /\ m_continuation[c] = Continuation(c)
              /\ m_state[c] => frame[c] = "final" /\ ~Active(c)
              /\ ~m_state[c] => Active(c)
         /\ pc[t] \in {"final", "resume"} /\ cur[t] = c => frame[c] = "final" /\ Pending(c)
         /\ pc[t] = "resume" /\ cur[t] = c =>
              host[c] = Nil /\ m_state[c] /\ m_continuation[c] = Continuation(c)
BY AsyncAssumption
   DEF TypeOK, RunsOnce, ThreadShape, StackShape, HandshakeShape, Pending, Active, IsTop, Hosted

(* The stacks stay as they are when a step leaves the calls alone.         *)
LEMMA StackUntouched ==
  ASSUME StackShape, UNCHANGED <<parent, m_continuation, host, below>>,
         \A t \in Threads : pc'[t] = "link" => pc[t] = "link"
  PROVE  StackShape'
BY DEF StackShape, IsTop, Hosted, Continuation

(* A call on top of the newest one of its thread is the newest one then.   *)
LEMMA PushKeepsStack ==
  ASSUME TypeOK, StackShape, NEW t \in Threads, NEW c \in Coros, host[c] = Nil, pc[t] = "run",
         Push(t, c), UNCHANGED <<parent, m_continuation, pc>>
  PROVE  StackShape'
<1>1. /\ t # Nil /\ \A d \in Coros : d # Nil
      /\ host \in [Coros -> Threads \cup {Nil}] /\ below \in [Coros -> Coros \cup {Nil}]
  BY AsyncAssumption DEF TypeOK
<1>2. below[c] = Nil /\ \A d \in Coros : below[d] # c
  BY <1>1 DEF StackShape
<1>3. host' = [host EXCEPT ![c] = t]
  BY DEF Push
<1>4. \A d \in Coros \ {c} : host'[d] = host[d] /\ below'[d] = below[d]
  BY <1>1, <1>3 DEF Push
<1>5. \/ below'[c] = Nil /\ Hosted(t) = {}
      \/ below'[c] \in Coros /\ IsTop(t, below'[c])
  BY <1>1 DEF Push
<1>6. \A d \in Coros : below'[d] # Nil => host'[d] # Nil /\ host'[below'[d]] = host'[d]
  <2> SUFFICES ASSUME NEW d \in Coros, below'[d] # Nil
               PROVE  host'[d] # Nil /\ host'[below'[d]] = host'[d]
    OBVIOUS
  <2>1. CASE d = c
    BY <2>1, <1>1, <1>3, <1>5 DEF IsTop, Hosted
  <2>2. CASE d # c
    BY <2>2, <1>1, <1>2, <1>3, <1>4 DEF StackShape
  <2> QED BY <2>1, <2>2
<1>7. \A d \in Coros : IsTop(t, d)' => d = c
  <2> SUFFICES ASSUME NEW d \in Coros, d # c, IsTop(t, d)' PROVE FALSE
    OBVIOUS
  <2>1. host[d] = t /\ IsTop(t, d)
    BY <1>1, <1>3, <1>4, <1>2 DEF IsTop, Hosted
  <2>2. below'[c] = d
    BY <2>1, <1>5 DEF StackShape, Hosted
  <2> QED BY <2>2, <1>1, <1>3 DEF IsTop, Hosted
<1>8. \A u \in Threads \ {t}, d \in Coros : IsTop(u, d)' => IsTop(u, d)
  <2> SUFFICES ASSUME NEW u \in Threads \ {t}, NEW d \in Coros, IsTop(u, d)'
               PROVE  IsTop(u, d)
    OBVIOUS
  <2>1. u # Nil /\ host'[d] = u /\ \A e \in Coros : host'[e] = u => below'[e] # d
    BY AsyncAssumption DEF IsTop, Hosted
  <2>2. \A e \in Coros : host[e] = u => e # c /\ host'[e] = u
    BY <2>1, <1>4
  <2>3. host[d] = u
    BY <2>1, <1>1, <1>3, <1>4
  <2> QED BY <2>1, <2>2, <2>3, <1>4 DEF IsTop, Hosted
<1>9. \A u \in Threads, d, e \in Coros : IsTop(u, d)' /\ IsTop(u, e)' => d = e
  BY <1>7, <1>8 DEF StackShape
<1>10. \A u \in Threads, d \in Coros :
         pc'[u] = "link" /\ IsTop(u, d)' => m_continuation'[d] = Continuation(d)'
  BY <1>8 DEF StackShape, Continuation
<1> QED BY <1>6, <1>9, <1>10 DEF StackShape

(* When the newest call of a thread is gone the one below it is the newest.*)
LEMMA PopKeepsStack ==
  ASSUME TypeOK, StackShape, NEW t \in Threads, NEW c \in Coros, IsTop(t, c), pc'[t] = "run",
         host' = [host EXCEPT ![c] = Nil], below' = [below EXCEPT ![c] = Nil],
         UNCHANGED <<parent, m_continuation>>, \A u \in Threads \ {t} : pc'[u] = pc[u]
  PROVE  StackShape'
<1>1. /\ t # Nil /\ \A d \in Coros : d # Nil
      /\ host \in [Coros -> Threads \cup {Nil}] /\ below \in [Coros -> Coros \cup {Nil}]
  BY AsyncAssumption DEF TypeOK
<1>2. host[c] = t /\ \A d \in Coros : below[d] # c
  BY <1>1 DEF StackShape, IsTop, Hosted
<1>3. \A d \in Coros : below'[d] # Nil => host'[d] # Nil /\ host'[below'[d]] = host'[d]
  BY <1>1, <1>2 DEF StackShape
<1>4. \A u \in Threads \ {t}, d \in Coros : IsTop(u, d)' => IsTop(u, d)
  <2> SUFFICES ASSUME NEW u \in Threads \ {t}, NEW d \in Coros, IsTop(u, d)'
               PROVE  IsTop(u, d)
    OBVIOUS
  <2>1. u # Nil /\ host'[d] = u /\ \A e \in Coros : host'[e] = u => below'[e] # d
    BY AsyncAssumption DEF IsTop, Hosted
  <2>2. \A e \in Coros : e # c => host'[e] = host[e] /\ below'[e] = below[e]
    BY <1>1
  <2>3. host[d] = u /\ \A e \in Coros : host[e] = u => e # c
    BY <2>1, <2>2, <1>1, <1>2
  <2> QED BY <2>1, <2>2, <2>3 DEF IsTop, Hosted
<1>5. \A d \in Coros : IsTop(t, d)' => below[c] = d
  <2> SUFFICES ASSUME NEW d \in Coros, IsTop(t, d)', below[c] # d PROVE FALSE
    OBVIOUS
  <2>1. host[d] = t /\ d # c /\ IsTop(t, d)
    BY <1>1, <1>2 DEF IsTop, Hosted
  <2> QED BY <2>1 DEF StackShape
<1>6. \A u \in Threads, d, e \in Coros : IsTop(u, d)' /\ IsTop(u, e)' => d = e
  BY <1>4, <1>5 DEF StackShape
<1>7. \A u \in Threads, d \in Coros :
        pc'[u] = "link" /\ IsTop(u, d)' => m_continuation'[d] = Continuation(d)'
  BY <1>4 DEF StackShape, Continuation
<1> QED BY <1>3, <1>6, <1>7 DEF StackShape

(* Every step stores what belongs into the variable it stores to.          *)
LEMMA TypeOKStep ==
  ASSUME TypeOK, HandshakeShape, [Next]_vars
  PROVE  TypeOK'
<1> USE AsyncAssumption DEF TypeOK, Continuation
<1>1. ASSUME NEW t \in Threads, NEW c \in Coros, Start(t, c) PROVE TypeOK'
  BY <1>1 DEF Start, Idle, Running, Hosted, Push, promises, stacks
<1>2. ASSUME NEW t \in Threads, NEW w \in Coros, NEW c \in Coros, Create(t, w, c) PROVE TypeOK'
  BY <1>2 DEF Create, Running, promises, stacks
<1>3. ASSUME NEW t \in Threads, NEW w \in Coros, NEW c \in Coros, Await(t, w, c) PROVE TypeOK'
  BY <1>3 DEF Await, Running, Hosted, Push, promises, stacks
<1>4. ASSUME NEW t \in Threads, NEW c \in Coros, Destroy(t, c) PROVE TypeOK'
  BY <1>4 DEF Destroy, Running, Idle, promises, stacks
<1>5. ASSUME NEW t \in Threads, NEW c \in Coros, Hop(t, c) PROVE TypeOK'
  BY <1>5 DEF Hop, Running, promises, stacks
<1>6. ASSUME NEW t \in Threads, NEW c \in Coros, Land(t, c) PROVE TypeOK'
  BY <1>6 DEF Land, Running, Idle, promises, stacks
<1>7. ASSUME NEW t \in Threads, NEW c \in Coros, Return(t, c) PROVE TypeOK'
  BY <1>7 DEF Return, Running, promises, stacks
<1>8. ASSUME NEW t \in Threads, NEW c \in Coros, SetContinuation(t, c) PROVE TypeOK'
  BY <1>8 DEF SetContinuation, Running, promises, stacks
<1>9. ASSUME NEW t \in Threads, NEW c \in Coros, Link(t, c) PROVE TypeOK'
  BY <1>9 DEF Link, Continue, GiveUp, promises, stacks
<1>10. ASSUME NEW t \in Threads, NEW c \in Coros, FinalSuspend(t, c) PROVE TypeOK'
  BY <1>10 DEF FinalSuspend, Continue, GiveUp, promises, stacks
<1>11. ASSUME NEW t \in Threads, NEW c \in Coros, ResumeContinuation(t, c) PROVE TypeOK'
  <2>1. CASE m_continuation[c] \in Coros
    BY <1>11, <2>1 DEF ResumeContinuation, Continue, promises, stacks
  <2>2. CASE m_continuation[c] \notin Coros
    BY <1>11, <2>2 DEF ResumeContinuation, Continue, promises, stacks
  <2> QED BY <2>1, <2>2
<1>12. CASE UNCHANGED vars
  BY <1>12 DEF vars
<1> QED
  BY <1>1, <1>2, <1>3, <1>4, <1>5, <1>6, <1>7, <1>8, <1>9, <1>10, <1>11, <1>12
  DEF Next, Owner, Handshake

(* A coroutine is resumed when it is suspended: at its start, after a hop, *)
(* and by the second of the two exchanges, when its owner waits for it and *)
(* nobody else can go on with it.                                          *)
LEMMA RunsOnceStep ==
  ASSUME TypeOK, RunsOnce, ThreadShape, StackShape, HandshakeShape, OwnerShape, [Next]_vars
  PROVE  RunsOnce'
<1> USE AsyncAssumption
    DEF TypeOK, RunsOnce, ThreadShape, HandshakeShape, OwnerShape, Continuation, Active,
        Pending, IsTop, Hosted, Owns, Running
<1>1. ASSUME NEW t \in Threads, NEW c \in Coros, Start(t, c) PROVE RunsOnce'
  BY <1>1 DEF Start, Idle, Running, Hosted, Push, promises, stacks
<1>2. ASSUME NEW t \in Threads, NEW w \in Coros, NEW c \in Coros, Create(t, w, c) PROVE RunsOnce'
  BY <1>2 DEF Create, Running, promises, stacks
<1>3. ASSUME NEW t \in Threads, NEW w \in Coros, NEW c \in Coros, Await(t, w, c) PROVE RunsOnce'
  <2>1. /\ pc[t] = "run" /\ cur[t] = w /\ parent[c] = w /\ frame[c] = "initial"
        /\ frame[w] = "body" /\ host[c] = Nil /\ \A u \in Threads : cur[u] = w => u = t
    BY <1>3 DEF Await
  <2>2. /\ frame' = [frame EXCEPT ![w] = "await", ![c] = "body"]
        /\ cur' = [cur EXCEPT ![t] = c] /\ host' = [host EXCEPT ![c] = t]
        /\ UNCHANGED <<parent, m_state, m_continuation, outcome, called, hops, pc>>
    BY <1>3 DEF Await, Push, promises
  <2>3. /\ c # w /\ \A u \in Threads : cur[u] # c
    BY <2>1
  <2> QED BY <2>1, <2>2, <2>3
<1>4. ASSUME NEW t \in Threads, NEW c \in Coros, Destroy(t, c) PROVE RunsOnce'
  BY <1>4 DEF Destroy, Running, Idle, promises, stacks
<1>5. ASSUME NEW t \in Threads, NEW c \in Coros, Hop(t, c) PROVE RunsOnce'
  BY <1>5 DEF Hop, Running, promises, stacks
<1>6. ASSUME NEW t \in Threads, NEW c \in Coros, Land(t, c) PROVE RunsOnce'
  BY <1>6 DEF Land, Running, Idle, promises, stacks
<1>7. ASSUME NEW t \in Threads, NEW c \in Coros, Return(t, c) PROVE RunsOnce'
  BY <1>7 DEF Return, Running, promises, stacks
<1>8. ASSUME NEW t \in Threads, NEW c \in Coros, SetContinuation(t, c) PROVE RunsOnce'
  BY <1>8 DEF SetContinuation, Running, promises, stacks
<1>9. ASSUME NEW t \in Threads, NEW c \in Coros, Link(t, c) PROVE RunsOnce'
  <2>1. /\ pc[t] = "link" /\ IsTop(t, c) /\ Pending(c) /\ cur[t] = Nil
        /\ m_continuation[c] = Continuation(c)
    BY <1>9, SecondExchange DEF Link
  <2>2. CASE ~m_state[c]
    <3>1. Active(c)
      BY <2>1, <2>2, SecondExchange
    <3>2. cur' = [cur EXCEPT ![t] = Nil] /\ UNCHANGED <<frame, called>>
      BY <1>9, <2>2 DEF Link, GiveUp
    <3> QED BY <1>9, <2>1, <2>2, <3>1, <3>2 DEF Link
  <2>3. CASE m_state[c] /\ parent[c] = Nil
    <3>1. /\ frame[c] = "final" /\ ~Active(c)
          /\ called' = [called EXCEPT ![c] = TRUE] /\ UNCHANGED <<frame, cur>>
      BY <1>9, <2>1, <2>3, SecondExchange DEF Link, Continue
    <3> QED BY <1>9, <2>1, <2>3, <3>1 DEF Link
  <2>4. CASE m_state[c] /\ parent[c] # Nil
    <3>1. /\ frame[c] = "final" /\ ~Active(c)
          /\ parent[c] \in Coros /\ frame[parent[c]] = "await"
          /\ \A u \in Threads : cur[u] # parent[c]
          /\ \A d \in Coros : parent[d] = parent[c] /\ Pending(d) => d = c
          /\ frame' = [frame EXCEPT ![parent[c]] = "body"]
          /\ cur' = [cur EXCEPT ![t] = parent[c]] /\ UNCHANGED called
      BY <1>9, <2>1, <2>4, SecondExchange, OwnerSuspended DEF Link, Continue
    <3> QED BY <1>9, <2>1, <2>4, <3>1 DEF Link
  <2> QED BY <2>2, <2>3, <2>4
<1>10. ASSUME NEW t \in Threads, NEW c \in Coros, FinalSuspend(t, c) PROVE RunsOnce'
  <2>1. pc[t] = "final" /\ cur[t] = c /\ frame[c] = "final" /\ Pending(c)
    BY <1>10, SecondExchange DEF FinalSuspend
  <2>2. m_state' = [m_state EXCEPT ![c] = TRUE] /\ UNCHANGED <<frame, called>>
    BY <1>10 DEF FinalSuspend, GiveUp
  <2>3. CASE m_state[c]
    <3>1. pc' = [pc EXCEPT ![t] = "resume"] /\ UNCHANGED cur
      BY <1>10, <2>3 DEF FinalSuspend
    <3> QED BY <1>10, <2>1, <2>2, <2>3, <3>1 DEF FinalSuspend, stacks
  <2>4. CASE ~m_state[c]
    <3>1. pc' = [pc EXCEPT ![t] = "run"] /\ cur' = [cur EXCEPT ![t] = Nil]
      BY <1>10, <2>4 DEF FinalSuspend, GiveUp
    <3> QED BY <1>10, <2>1, <2>2, <2>4, <3>1 DEF FinalSuspend, stacks
  <2> QED BY <2>3, <2>4
<1>11. ASSUME NEW t \in Threads, NEW c \in Coros, ResumeContinuation(t, c) PROVE RunsOnce'
  <2>1. /\ pc[t] = "resume" /\ cur[t] = c /\ frame[c] = "final" /\ Pending(c)
        /\ host[c] = Nil /\ m_state[c] /\ m_continuation[c] = Continuation(c)
    BY <1>11, SecondExchange DEF ResumeContinuation
  <2>2. CASE parent[c] = Nil
    <3>1. /\ called' = [called EXCEPT ![c] = TRUE] /\ UNCHANGED frame
          /\ cur' = [cur EXCEPT ![t] = Nil]
      BY <1>11, <2>1, <2>2 DEF ResumeContinuation, Continue
    <3> QED BY <1>11, <2>1, <2>2, <3>1 DEF ResumeContinuation, promises, stacks
  <2>3. CASE parent[c] # Nil
    <3>1. /\ parent[c] \in Coros /\ frame[parent[c]] = "await"
          /\ \A u \in Threads : cur[u] # parent[c]
          /\ \A d \in Coros : parent[d] = parent[c] /\ Pending(d) => d = c
          /\ frame' = [frame EXCEPT ![parent[c]] = "body"]
          /\ cur' = [cur EXCEPT ![t] = parent[c]] /\ UNCHANGED called
      BY <1>11, <2>1, <2>3, OwnerSuspended DEF ResumeContinuation, Continue
    <3> QED BY <1>11, <2>1, <2>3, <3>1 DEF ResumeContinuation, promises, stacks
  <2> QED BY <2>2, <2>3
<1>12. CASE UNCHANGED vars
  BY <1>12 DEF vars
<1> QED
  BY <1>1, <1>2, <1>3, <1>4, <1>5, <1>6, <1>7, <1>8, <1>9, <1>10, <1>11, <1>12
  DEF Next, Owner, Handshake

(* A thread ends a body, or exchanges m_state, and goes on.                *)
LEMMA ThreadShapeStep ==
  ASSUME TypeOK, RunsOnce, ThreadShape, HandshakeShape, [Next]_vars
  PROVE  ThreadShape'
<1> USE AsyncAssumption
    DEF TypeOK, RunsOnce, ThreadShape, HandshakeShape, Continuation, Active, IsTop, Hosted
<1>1. ASSUME NEW t \in Threads, NEW c \in Coros, Start(t, c) PROVE ThreadShape'
  BY <1>1 DEF Start, Idle, Running, Hosted, Push, promises, stacks
<1>2. ASSUME NEW t \in Threads, NEW w \in Coros, NEW c \in Coros, Create(t, w, c) PROVE ThreadShape'
  BY <1>2 DEF Create, Running, promises, stacks
<1>3. ASSUME NEW t \in Threads, NEW w \in Coros, NEW c \in Coros, Await(t, w, c) PROVE ThreadShape'
  BY <1>3 DEF Await, Running, Hosted, Push, promises, stacks
<1>4. ASSUME NEW t \in Threads, NEW c \in Coros, Destroy(t, c) PROVE ThreadShape'
  BY <1>4 DEF Destroy, Running, Idle, promises, stacks
<1>5. ASSUME NEW t \in Threads, NEW c \in Coros, Hop(t, c) PROVE ThreadShape'
  BY <1>5 DEF Hop, Running, promises, stacks
<1>6. ASSUME NEW t \in Threads, NEW c \in Coros, Land(t, c) PROVE ThreadShape'
  BY <1>6 DEF Land, Running, Idle, promises, stacks
<1>7. ASSUME NEW t \in Threads, NEW c \in Coros, Return(t, c) PROVE ThreadShape'
  BY <1>7 DEF Return, Running, promises, stacks
<1>8. ASSUME NEW t \in Threads, NEW c \in Coros, SetContinuation(t, c) PROVE ThreadShape'
  BY <1>8 DEF SetContinuation, Running, promises, stacks
<1>9. ASSUME NEW t \in Threads, NEW c \in Coros, Link(t, c) PROVE ThreadShape'
  BY <1>9 DEF Link, Continue, GiveUp, promises, stacks
<1>10. ASSUME NEW t \in Threads, NEW c \in Coros, FinalSuspend(t, c) PROVE ThreadShape'
  BY <1>10 DEF FinalSuspend, Continue, GiveUp, promises, stacks
<1>11. ASSUME NEW t \in Threads, NEW c \in Coros, ResumeContinuation(t, c) PROVE ThreadShape'
  BY <1>11 DEF ResumeContinuation, Continue, promises, stacks
<1>12. CASE UNCHANGED vars
  BY <1>12 DEF vars
<1> QED
  BY <1>1, <1>2, <1>3, <1>4, <1>5, <1>6, <1>7, <1>8, <1>9, <1>10, <1>11, <1>12
  DEF Next, Owner, Handshake

(* resume() is called by what runs, on top, and returns to the newest call.*)
LEMMA StackShapeStep ==
  ASSUME TypeOK, ThreadShape, StackShape, HandshakeShape, OwnerShape, [Next]_vars
  PROVE  StackShape'
<1>1. ASSUME NEW t \in Threads, NEW c \in Coros, Start(t, c) PROVE StackShape'
  BY <1>1, PushKeepsStack DEF Start, Idle, Running, promises, HandshakeShape
<1>2. ASSUME NEW t \in Threads, NEW w \in Coros, NEW c \in Coros, Create(t, w, c) PROVE StackShape'
  <2>1. host[c] = Nil /\ UNCHANGED <<m_continuation, host, below, pc>>
    BY <1>2 DEF Create, promises, stacks, HandshakeShape
  <2>2. \A u \in Threads, d \in Coros : IsTop(u, d)' => IsTop(u, d) /\ d # c
    BY <2>1, AsyncAssumption DEF IsTop, Hosted
  <2>3. \A d \in Coros \ {c} : parent'[d] = parent[d]
    BY <1>2 DEF Create, TypeOK
  <2> QED BY <2>1, <2>2, <2>3 DEF StackShape, Continuation
<1>3. ASSUME NEW t \in Threads, NEW w \in Coros, NEW c \in Coros, Await(t, w, c) PROVE StackShape'
  BY <1>3, PushKeepsStack DEF Await, Running, promises, HandshakeShape
<1>4. ASSUME NEW t \in Threads, NEW c \in Coros, Destroy(t, c) PROVE StackShape'
  BY <1>4, StackUntouched DEF Destroy, promises, stacks
<1>5. ASSUME NEW t \in Threads, NEW c \in Coros, Hop(t, c) PROVE StackShape'
  BY <1>5, StackUntouched DEF Hop, promises, stacks
<1>6. ASSUME NEW t \in Threads, NEW c \in Coros, Land(t, c) PROVE StackShape'
  BY <1>6, StackUntouched DEF Land, promises, stacks
<1>7. ASSUME NEW t \in Threads, NEW c \in Coros, Return(t, c) PROVE StackShape'
  BY <1>7, StackUntouched DEF Return, stacks, TypeOK
<1>8. ASSUME NEW t \in Threads, NEW c \in Coros, SetContinuation(t, c) PROVE StackShape'
  <2>1. /\ IsTop(t, c) /\ UNCHANGED <<parent, host, below>>
        /\ \A u \in Threads : pc'[u] = "link" => u = t \/ pc[u] = "link"
        /\ m_continuation'[c] = Continuation(c)
        /\ \A d \in Coros \ {c} : m_continuation'[d] = m_continuation[d]
    BY <1>8 DEF SetContinuation, stacks, TypeOK
  <2>2. \A u \in Threads, d \in Coros : IsTop(u, d)' <=> IsTop(u, d)
    BY <2>1 DEF IsTop, Hosted
  <2> QED BY <2>1, <2>2 DEF StackShape, Continuation
<1>9. ASSUME NEW t \in Threads, NEW c \in Coros, Link(t, c) PROVE StackShape'
  BY <1>9, PopKeepsStack DEF Link, TypeOK
<1>10. ASSUME NEW t \in Threads, NEW c \in Coros, FinalSuspend(t, c) PROVE StackShape'
  BY <1>10, StackUntouched DEF FinalSuspend, stacks, TypeOK
<1>11. ASSUME NEW t \in Threads, NEW c \in Coros, ResumeContinuation(t, c) PROVE StackShape'
  BY <1>11, StackUntouched DEF ResumeContinuation, promises, stacks, TypeOK
<1>12. CASE UNCHANGED vars
  BY <1>12 DEF vars, StackShape, IsTop, Hosted, Continuation
<1> QED
  BY <1>1, <1>2, <1>3, <1>4, <1>5, <1>6, <1>7, <1>8, <1>9, <1>10, <1>11, <1>12
  DEF Next, Owner, Handshake

(* m_state is set once by each side, and each side leaves it to the other  *)
(* what it has to find there: the result, and the continuation.            *)
LEMMA HandshakeShapeStep ==
  ASSUME TypeOK, RunsOnce, ThreadShape, StackShape, HandshakeShape, OwnerShape, [Next]_vars
  PROVE  HandshakeShape'
<1> USE AsyncAssumption
    DEF TypeOK, RunsOnce, ThreadShape, StackShape, HandshakeShape, OwnerShape, Continuation,
        Active, Pending, IsTop, Hosted, Owns, Running
<1>1. ASSUME NEW t \in Threads, NEW c \in Coros, Start(t, c) PROVE HandshakeShape'
  BY <1>1 DEF Start, Idle, Running, Hosted, Push, promises, stacks
<1>2. ASSUME NEW t \in Threads, NEW w \in Coros, NEW c \in Coros, Create(t, w, c) PROVE HandshakeShape'
  BY <1>2 DEF Create, Running, promises, stacks
<1>3. ASSUME NEW t \in Threads, NEW w \in Coros, NEW c \in Coros, Await(t, w, c) PROVE HandshakeShape'
  <2>1. /\ pc[t] = "run" /\ cur[t] = w /\ parent[c] = w /\ frame[c] = "initial"
        /\ frame[w] = "body" /\ host[c] = Nil /\ \A u \in Threads : cur[u] = w => u = t
    BY <1>3 DEF Await
  <2>2. /\ frame' = [frame EXCEPT ![w] = "await", ![c] = "body"]
        /\ cur' = [cur EXCEPT ![t] = c] /\ host' = [host EXCEPT ![c] = t]
        /\ UNCHANGED <<parent, m_state, m_continuation, outcome, called, hops, pc>>
    BY <1>3 DEF Await, Push, promises
  <2>3. /\ c # w /\ \A u \in Threads : cur[u] # c
    BY <2>1
  <2> QED BY <2>1, <2>2, <2>3
<1>4. ASSUME NEW t \in Threads, NEW c \in Coros, Destroy(t, c) PROVE HandshakeShape'
  BY <1>4 DEF Destroy, Running, Idle, promises, stacks
<1>5. ASSUME NEW t \in Threads, NEW c \in Coros, Hop(t, c) PROVE HandshakeShape'
  BY <1>5 DEF Hop, Running, promises, stacks
<1>6. ASSUME NEW t \in Threads, NEW c \in Coros, Land(t, c) PROVE HandshakeShape'
  BY <1>6 DEF Land, Running, Idle, promises, stacks
<1>7. ASSUME NEW t \in Threads, NEW c \in Coros, Return(t, c) PROVE HandshakeShape'
  BY <1>7 DEF Return, Running, promises, stacks
<1>8. ASSUME NEW t \in Threads, NEW c \in Coros, SetContinuation(t, c) PROVE HandshakeShape'
  BY <1>8 DEF SetContinuation, Running, promises, stacks
<1>9. ASSUME NEW t \in Threads, NEW c \in Coros, Link(t, c) PROVE HandshakeShape'
  <2>1. /\ pc[t] = "link" /\ IsTop(t, c) /\ Pending(c) /\ cur[t] = Nil
        /\ m_continuation[c] = Continuation(c)
    BY <1>9, SecondExchange DEF Link
  <2>2. CASE ~m_state[c]
    <3>1. Active(c)
      BY <2>1, <2>2, SecondExchange
    <3>2. cur' = [cur EXCEPT ![t] = Nil] /\ UNCHANGED <<frame, called>>
      BY <1>9, <2>2 DEF Link, GiveUp
    <3> QED BY <1>9, <2>1, <2>2, <3>1, <3>2 DEF Link
  <2>3. CASE m_state[c] /\ parent[c] = Nil
    <3>1. /\ frame[c] = "final" /\ ~Active(c)
          /\ called' = [called EXCEPT ![c] = TRUE] /\ UNCHANGED <<frame, cur>>
      BY <1>9, <2>1, <2>3, SecondExchange DEF Link, Continue
    <3> QED BY <1>9, <2>1, <2>3, <3>1 DEF Link
  <2>4. CASE m_state[c] /\ parent[c] # Nil
    <3>1. /\ frame[c] = "final" /\ ~Active(c)
          /\ parent[c] \in Coros /\ frame[parent[c]] = "await"
          /\ \A u \in Threads : cur[u] # parent[c]
          /\ \A d \in Coros : parent[d] = parent[c] /\ Pending(d) => d = c
          /\ frame' = [frame EXCEPT ![parent[c]] = "body"]
          /\ cur' = [cur EXCEPT ![t] = parent[c]] /\ UNCHANGED called
      BY <1>9, <2>1, <2>4, SecondExchange, OwnerSuspended DEF Link, Continue
    <3> QED BY <1>9, <2>1, <2>4, <3>1 DEF Link
  <2> QED BY <2>2, <2>3, <2>4
<1>10. ASSUME NEW t \in Threads, NEW c \in Coros, FinalSuspend(t, c) PROVE HandshakeShape'
  <2>1. pc[t] = "final" /\ cur[t] = c /\ frame[c] = "final" /\ Pending(c)
    BY <1>10, SecondExchange DEF FinalSuspend
  <2>2. m_state' = [m_state EXCEPT ![c] = TRUE] /\ UNCHANGED <<frame, called>>
    BY <1>10 DEF FinalSuspend, GiveUp
  <2>3. CASE m_state[c]
    <3>1. pc' = [pc EXCEPT ![t] = "resume"] /\ UNCHANGED cur
      BY <1>10, <2>3 DEF FinalSuspend
    <3> QED BY <1>10, <2>1, <2>2, <2>3, <3>1 DEF FinalSuspend, stacks
  <2>4. CASE ~m_state[c]
    <3>1. pc' = [pc EXCEPT ![t] = "run"] /\ cur' = [cur EXCEPT ![t] = Nil]
      BY <1>10, <2>4 DEF FinalSuspend, GiveUp
    <3> QED BY <1>10, <2>1, <2>2, <2>4, <3>1 DEF FinalSuspend, stacks
  <2> QED BY <2>3, <2>4
<1>11. ASSUME NEW t \in Threads, NEW c \in Coros, ResumeContinuation(t, c) PROVE HandshakeShape'
  <2>1. /\ pc[t] = "resume" /\ cur[t] = c /\ frame[c] = "final" /\ Pending(c)
        /\ host[c] = Nil /\ m_state[c] /\ m_continuation[c] = Continuation(c)
    BY <1>11, SecondExchange DEF ResumeContinuation
  <2>2. CASE parent[c] = Nil
    <3>1. /\ called' = [called EXCEPT ![c] = TRUE] /\ UNCHANGED frame
          /\ cur' = [cur EXCEPT ![t] = Nil]
      BY <1>11, <2>1, <2>2 DEF ResumeContinuation, Continue
    <3> QED BY <1>11, <2>1, <2>2, <3>1 DEF ResumeContinuation, promises, stacks
  <2>3. CASE parent[c] # Nil
    <3>1. /\ parent[c] \in Coros /\ frame[parent[c]] = "await"
          /\ \A u \in Threads : cur[u] # parent[c]
          /\ \A d \in Coros : parent[d] = parent[c] /\ Pending(d) => d = c
          /\ frame' = [frame EXCEPT ![parent[c]] = "body"]
          /\ cur' = [cur EXCEPT ![t] = parent[c]] /\ UNCHANGED called
      BY <1>11, <2>1, <2>3, OwnerSuspended DEF ResumeContinuation, Continue
    <3> QED BY <1>11, <2>1, <2>3, <3>1 DEF ResumeContinuation, promises, stacks
  <2> QED BY <2>2, <2>3
<1>12. CASE UNCHANGED vars
  BY <1>12 DEF vars
<1> QED
  BY <1>1, <1>2, <1>3, <1>4, <1>5, <1>6, <1>7, <1>8, <1>9, <1>10, <1>11, <1>12
  DEF Next, Owner, Handshake

(* An async<T> is created by a running coroutine that has none, and its    *)
(* owner waits from the start of c until one of the two sides goes on.     *)
LEMMA OwnerShapeStep ==
  ASSUME TypeOK, RunsOnce, ThreadShape, StackShape, HandshakeShape, OwnerShape, [Next]_vars
  PROVE  OwnerShape'
<1> USE AsyncAssumption
    DEF TypeOK, RunsOnce, ThreadShape, HandshakeShape, OwnerShape, Continuation, Active,
        Pending, IsTop, Hosted, Owns, Running
<1>1. ASSUME NEW t \in Threads, NEW c \in Coros, Start(t, c) PROVE OwnerShape'
  BY <1>1 DEF Start, Idle, Running, Hosted, Push, promises, stacks
<1>2. ASSUME NEW t \in Threads, NEW w \in Coros, NEW c \in Coros, Create(t, w, c) PROVE OwnerShape'
  BY <1>2 DEF Create, Running, promises, stacks
<1>3. ASSUME NEW t \in Threads, NEW w \in Coros, NEW c \in Coros, Await(t, w, c) PROVE OwnerShape'
  BY <1>3 DEF Await, Running, Hosted, Push, promises, stacks
<1>4. ASSUME NEW t \in Threads, NEW c \in Coros, Destroy(t, c) PROVE OwnerShape'
  BY <1>4 DEF Destroy, Running, Idle, promises, stacks
<1>5. ASSUME NEW t \in Threads, NEW c \in Coros, Hop(t, c) PROVE OwnerShape'
  BY <1>5 DEF Hop, Running, promises, stacks
<1>6. ASSUME NEW t \in Threads, NEW c \in Coros, Land(t, c) PROVE OwnerShape'
  BY <1>6 DEF Land, Running, Idle, promises, stacks
<1>7. ASSUME NEW t \in Threads, NEW c \in Coros, Return(t, c) PROVE OwnerShape'
  BY <1>7 DEF Return, Running, promises, stacks
<1>8. ASSUME NEW t \in Threads, NEW c \in Coros, SetContinuation(t, c) PROVE OwnerShape'
  BY <1>8 DEF SetContinuation, Running, promises, stacks
<1>9. ASSUME NEW t \in Threads, NEW c \in Coros, Link(t, c) PROVE OwnerShape'
  <2>1. /\ pc[t] = "link" /\ IsTop(t, c) /\ Pending(c) /\ cur[t] = Nil
        /\ m_continuation[c] = Continuation(c)
    BY <1>9, SecondExchange DEF Link
  <2>2. CASE ~m_state[c]
    <3>1. Active(c)
      BY <2>1, <2>2, SecondExchange
    <3>2. cur' = [cur EXCEPT ![t] = Nil] /\ UNCHANGED <<frame, called>>
      BY <1>9, <2>2 DEF Link, GiveUp
    <3> QED BY <1>9, <2>1, <2>2, <3>1, <3>2 DEF Link
  <2>3. CASE m_state[c] /\ parent[c] = Nil
    <3>1. /\ frame[c] = "final" /\ ~Active(c)
          /\ called' = [called EXCEPT ![c] = TRUE] /\ UNCHANGED <<frame, cur>>
      BY <1>9, <2>1, <2>3, SecondExchange DEF Link, Continue
    <3> QED BY <1>9, <2>1, <2>3, <3>1 DEF Link
  <2>4. CASE m_state[c] /\ parent[c] # Nil
    <3>1. /\ frame[c] = "final" /\ ~Active(c)
          /\ parent[c] \in Coros /\ frame[parent[c]] = "await"
          /\ \A u \in Threads : cur[u] # parent[c]
          /\ \A d \in Coros : parent[d] = parent[c] /\ Pending(d) => d = c
          /\ frame' = [frame EXCEPT ![parent[c]] = "body"]
          /\ cur' = [cur EXCEPT ![t] = parent[c]] /\ UNCHANGED called
      BY <1>9, <2>1, <2>4, SecondExchange, OwnerSuspended DEF Link, Continue
    <3> QED BY <1>9, <2>1, <2>4, <3>1 DEF Link
  <2> QED BY <2>2, <2>3, <2>4
<1>10. ASSUME NEW t \in Threads, NEW c \in Coros, FinalSuspend(t, c) PROVE OwnerShape'
  BY <1>10 DEF FinalSuspend, Continue, GiveUp, promises, stacks
<1>11. ASSUME NEW t \in Threads, NEW c \in Coros, ResumeContinuation(t, c) PROVE OwnerShape'
  <2>1. /\ pc[t] = "resume" /\ cur[t] = c /\ frame[c] = "final" /\ Pending(c)
        /\ host[c] = Nil /\ m_state[c] /\ m_continuation[c] = Continuation(c)
    BY <1>11, SecondExchange DEF ResumeContinuation
  <2>2. CASE parent[c] = Nil
    <3>1. /\ called' = [called EXCEPT ![c] = TRUE] /\ UNCHANGED frame
          /\ cur' = [cur EXCEPT ![t] = Nil]
      BY <1>11, <2>1, <2>2 DEF ResumeContinuation, Continue
    <3> QED BY <1>11, <2>1, <2>2, <3>1 DEF ResumeContinuation, promises, stacks
  <2>3. CASE parent[c] # Nil
    <3>1. /\ parent[c] \in Coros /\ frame[parent[c]] = "await"
          /\ \A u \in Threads : cur[u] # parent[c]
          /\ \A d \in Coros : parent[d] = parent[c] /\ Pending(d) => d = c
          /\ frame' = [frame EXCEPT ![parent[c]] = "body"]
          /\ cur' = [cur EXCEPT ![t] = parent[c]] /\ UNCHANGED called
      BY <1>11, <2>1, <2>3, OwnerSuspended DEF ResumeContinuation, Continue
    <3> QED BY <1>11, <2>1, <2>3, <3>1 DEF ResumeContinuation, promises, stacks
  <2> QED BY <2>2, <2>3
<1>12. CASE UNCHANGED vars
  BY <1>12 DEF vars
<1> QED
  BY <1>1, <1>2, <1>3, <1>4, <1>5, <1>6, <1>7, <1>8, <1>9, <1>10, <1>11, <1>12
  DEF Next, Owner, Handshake

-----------------------------------------------------------------------------
(* What ~async destroys is a coroutine that was never started or that is   *)
(* done: its owner runs, hence does not wait for it.                       *)
LEMMA DestroyedWhenIdle ==
  ASSUME IInv, NEW t \in Threads, NEW c \in Coros, Destroy(t, c)
  PROVE  ~Pending(c) /\ frame[c] \in {"initial", "final"}
<1> USE AsyncAssumption DEF IInv, TypeOK, RunsOnce, HandshakeShape, OwnerShape, Pending, Active
<1>1. CASE parent[c] # Nil
  BY <1>1 DEF Destroy, Running
<1>2. CASE parent[c] = Nil
  BY <1>2 DEF Destroy
<1> QED BY <1>1, <1>2

(* No other step ends a frame.                                             *)
LEMMA FrameEnds ==
  ASSUME IInv, [Next]_vars, NEW c \in Coros, frame[c] # "gone", frame'[c] = "gone"
  PROVE  \E t \in Threads : Destroy(t, c)
<1>1. Next
  BY DEF vars, IInv, TypeOK
<1>2. PICK t \in Threads, d \in Coros :
        Owner(t, d) \/ Hop(t, d) \/ Land(t, d) \/ Return(t, d) \/ Handshake(t, d)
  BY <1>1 DEF Next
<1> USE DEF IInv, TypeOK
<1>3. CASE Destroy(t, d)
  BY <1>3 DEF Destroy
<1>4. CASE Start(t, d) \/ Hop(t, d) \/ Land(t, d) \/ Return(t, d)
  BY <1>4 DEF Start, Hop, Land, Return
<1>5. CASE \E w \in Coros : Create(t, w, d) \/ Await(t, w, d)
  BY <1>5 DEF Create, Await
<1>6. CASE Handshake(t, d)
  BY <1>6 DEF Handshake, SetContinuation, Link, FinalSuspend, ResumeContinuation, Continue, GiveUp
<1> QED BY <1>2, <1>3, <1>4, <1>5, <1>6 DEF Owner

-----------------------------------------------------------------------------
(* The refinement: a step changes the state of the coroutines whose frame  *)
(* it changes, and of no other.                                            *)
LEMMA CallStateOne ==
  ASSUME TypeOK, NEW c \in Coros, NEW p, frame' = [frame EXCEPT ![c] = p],
         NEW q, q = (CASE p = "initial" -> "created" [] p \in {"body", "hop"} -> "active"
                       [] p = "await" -> "waiting" [] p = "final" -> "done" [] OTHER -> p)
  PROVE  callState' = [callState EXCEPT ![c] = q]
BY DEF TypeOK, callState

(* The frames of a coroutine and of its awaiter change at once when it is  *)
(* awaited; the others stay.                                               *)
LEMMA CallStateAwait ==
  ASSUME TypeOK, NEW w \in Coros, NEW c \in Coros, w # c,
         frame' = [frame EXCEPT ![w] = "await", ![c] = "body"]
  PROVE  callState' = [callState EXCEPT ![w] = "waiting", ![c] = "active"]
BY DEF TypeOK, callState

(* Whichever of the two exchanges comes second is the return to the caller.*)
LEMMA ContinueIsGoOn ==
  ASSUME IInv, NEW t \in Threads, NEW c \in Coros, Pending(c), frame[c] = "final",
         Continue(t, c, Continuation(c)), UNCHANGED parent
  PROVE  [Calls!Next]_(Calls!vars)
<1>1. CASE parent[c] = Nil
  <2>1. UNCHANGED frame
    BY <1>1, AsyncAssumption DEF Continue, Continuation
  <2> QED BY <2>1 DEF Calls!vars, callState
<1>2. CASE parent[c] # Nil
  <2> DEFINE w == parent[c]
  <2>1. w \in Coros /\ frame[w] = "await" /\ frame' = [frame EXCEPT ![w] = "body"]
    BY <1>2, OwnerSuspended, AsyncAssumption DEF IInv, Continue, Continuation
  <2>2. callState' = [callState EXCEPT ![w] = "active"]
    BY <2>1, CallStateOne DEF IInv
  <2>3. callState[w] = "waiting" /\ callState[c] = "done"
    BY <2>1 DEF callState
  <2>4. Calls!GoOn(w, c)
    BY <2>2, <2>3 DEF Calls!GoOn, Calls!Becomes
  <2> QED BY <2>1, <2>4 DEF Calls!Next
<1> QED BY <1>1, <1>2

(* Every step of the handshake is a step of a call, or internal.           *)
LEMMA CallStep ==
  ASSUME IInv, [Next]_vars
  PROVE  [Calls!Next]_(Calls!vars)
<1>1. TypeOK /\ RunsOnce
  BY DEF IInv
<1>2. ASSUME NEW t \in Threads, NEW c \in Coros, Start(t, c) PROVE Calls!Start(c)
  <2>1. frame[c] = "none" /\ frame' = [frame EXCEPT ![c] = "body"] /\ UNCHANGED parent
    BY <1>2 DEF Start
  <2>2. callState' = [callState EXCEPT ![c] = "active"]
    BY <2>1, <1>1, CallStateOne
  <2> QED BY <2>1, <2>2 DEF Calls!Start, Calls!Becomes, callState
<1>3. ASSUME NEW t \in Threads, NEW w \in Coros, NEW c \in Coros, Create(t, w, c)
      PROVE  Calls!Create(w, c)
  <2>1. /\ frame[w] = "body" /\ frame[c] = "none" /\ frame' = [frame EXCEPT ![c] = "initial"]
        /\ parent' = [parent EXCEPT ![c] = w]
    BY <1>1, <1>3, AsyncAssumption DEF Create, Running, RunsOnce
  <2>2. callState' = [callState EXCEPT ![c] = "created"]
    BY <2>1, <1>1, CallStateOne
  <2> QED BY <2>1, <2>2 DEF Calls!Create, Calls!Becomes, callState
<1>4. ASSUME NEW t \in Threads, NEW w \in Coros, NEW c \in Coros, Await(t, w, c)
      PROVE  Calls!Call(w, c)
  <2>1. /\ frame[w] = "body" /\ frame[c] = "initial" /\ parent[c] = w /\ UNCHANGED parent
        /\ frame' = [frame EXCEPT ![w] = "await", ![c] = "body"]
    BY <1>1, <1>4, AsyncAssumption DEF Await, Running, RunsOnce, Owns
  <2>2. callState' = [callState EXCEPT ![w] = "waiting", ![c] = "active"]
    BY <2>1, <1>1, CallStateAwait
  <2> QED BY <2>1, <2>2 DEF Calls!Call, callState
<1>5. ASSUME NEW t \in Threads, NEW c \in Coros, Destroy(t, c) PROVE Calls!Discard(c)
  <2>1. /\ frame[c] \in {"initial", "final"} /\ frame' = [frame EXCEPT ![c] = "gone"]
        /\ UNCHANGED parent
    BY <1>5, DestroyedWhenIdle DEF Destroy
  <2>2. parent[c] # Nil => parent[c] \in Coros /\ frame[parent[c]] = "body"
    BY <1>1, <1>5 DEF Destroy, Running, RunsOnce, TypeOK
  <2>3. callState' = [callState EXCEPT ![c] = "gone"]
    BY <2>1, <1>1, CallStateOne
  <2> QED BY <2>1, <2>2, <2>3 DEF Calls!Discard, Calls!Becomes, callState
<1>6. ASSUME NEW t \in Threads, NEW c \in Coros, Hop(t, c) \/ Land(t, c)
      PROVE  UNCHANGED Calls!vars
  <2>1. /\ frame[c] \in {"body", "hop"} /\ UNCHANGED parent
        /\ \E p \in {"body", "hop"} : frame' = [frame EXCEPT ![c] = p]
    BY <1>1, <1>6, AsyncAssumption DEF Hop, Land, Running, RunsOnce
  <2>2. callState' = callState
    BY <2>1, <1>1 DEF TypeOK, callState
  <2> QED BY <2>1, <2>2 DEF Calls!vars
<1>7. ASSUME NEW t \in Threads, NEW c \in Coros, Return(t, c) PROVE Calls!Return(c)
  <2>1. frame[c] = "body" /\ frame' = [frame EXCEPT ![c] = "final"] /\ UNCHANGED parent
    BY <1>1, <1>7, AsyncAssumption DEF Return, Running, RunsOnce
  <2>2. callState' = [callState EXCEPT ![c] = "done"]
    BY <2>1, <1>1, CallStateOne
  <2> QED BY <2>1, <2>2 DEF Calls!Return, Calls!Becomes, callState
<1>8. ASSUME NEW t \in Threads, NEW c \in Coros, Handshake(t, c)
      PROVE  [Calls!Next]_(Calls!vars)
  <2>1. CASE UNCHANGED <<frame, parent>>
    BY <2>1 DEF Calls!vars, callState
  <2>2. CASE Link(t, c) /\ m_state[c]
    BY <2>2, ContinueIsGoOn, SecondExchange DEF IInv, Link
  <2>3. CASE ResumeContinuation(t, c)
    BY <2>3, ContinueIsGoOn, SecondExchange DEF IInv, ResumeContinuation
  <2>4. (Link(t, c) /\ m_state[c]) \/ ResumeContinuation(t, c) \/ UNCHANGED <<frame, parent>>
    BY <1>8 DEF Handshake, SetContinuation, Link, FinalSuspend, GiveUp
  <2> QED BY <2>1, <2>2, <2>3, <2>4
<1>9. CASE UNCHANGED vars
  BY <1>9 DEF vars, Calls!vars, callState
<1> QED BY <1>2, <1>3, <1>4, <1>5, <1>6, <1>7, <1>8, <1>9 DEF Next, Owner, Calls!Next

-----------------------------------------------------------------------------
(* The invariant of the handshake, for any number of coroutines, threads   *)
(* and suspensions for other reasons.                                      *)
THEOREM AsyncInvariance == Spec => []IInv
<1>1. IInv /\ [Next]_vars => IInv'
  BY TypeOKStep, RunsOnceStep, ThreadShapeStep, StackShapeStep, HandshakeShapeStep, OwnerShapeStep
  DEF IInv
<1> QED BY InitEstablishesIInv, <1>1, PTL DEF Spec

(* m_state is a Boolean, m_continuation nothing, a coroutine or a callback,*)
(* every frame in one of its seven places.                                 *)
THEOREM AsyncTypes == Spec => []TypeOK
<1>1. IInv => TypeOK BY DEF IInv
<1> QED BY AsyncInvariance, <1>1, PTL

(* try_set_continuation and final_awaitable never both go on with the      *)
(* owner of an async<T>: no coroutine is on two threads, nobody is called  *)
(* back twice.                                                             *)
THEOREM AsyncRunsOnce == Spec => []RunsOnce
<1>1. IInv => RunsOnce BY DEF IInv
<1> QED BY AsyncInvariance, <1>1, PTL

(* await_suspend and final_awaitable touch the promise only while the      *)
(* frame is there, what is resumed is the owner's continuation, and        *)
(* await_resume() finds a value or an exception.                           *)
THEOREM AsyncPromiseAlive == Spec => []PromiseAlive
<1> DEFINE Ready(c) == frame[c] \in {"initial", "gone"} \/ (frame[c] = "final" /\ outcome[c] # "none")
<1>1. ASSUME IInv, NEW c \in Coros, parent[c] # Nil, frame[parent[c]] # "await"
      PROVE  Ready(c)
  BY <1>1 DEF IInv, TypeOK, HandshakeShape, OwnerShape, Pending, Active
<1>2. IInv => PromiseAlive
  BY <1>1, AsyncAssumption
     DEF IInv, TypeOK, RunsOnce, ThreadShape, HandshakeShape, Active, PromiseAlive
<1> QED BY AsyncInvariance, <1>2, PTL

(* ~async_promise takes m_state for "there is a result": an async<T> is    *)
(* destroyed only when that is the case.                                   *)
THEOREM AsyncDestroysResult == Spec => DestroysResult
<1> DEFINE Right(c) == m_state[c] /\ outcome[c] # "exception" <=> outcome[c] = "value"
<1>1. ASSUME IInv, [Next]_vars, NEW c \in Coros, frame[c] # "gone", frame'[c] = "gone"
      PROVE  Right(c)
  <2>1. PICK t \in Threads : Destroy(t, c)
    BY <1>1, FrameEnds
  <2>2. ~Pending(c) /\ frame[c] \in {"initial", "final"}
    BY <1>1, <2>1, DestroyedWhenIdle
  <2> QED BY <1>1, <2>2 DEF IInv, TypeOK, HandshakeShape, Pending
<1>2. IInv /\ [Next]_vars =>
        [\A c \in Coros : frame[c] # "gone" /\ frame'[c] = "gone" => Right(c)]_vars
  BY <1>1
<1> QED BY AsyncInvariance, <1>2, PTL DEF Spec, DestroysResult

(* co_await f() is a call: the caller goes on once, after f has returned.  *)
THEOREM AsyncImplementsCall == Spec => CallSpec
<1>1. Init => Calls!Init
  BY DEF Init, Calls!Init, callState
<1>2. IInv /\ [Next]_vars => [Calls!Next]_(Calls!vars)
  BY CallStep
<1> QED BY AsyncInvariance, <1>1, <1>2, PTL DEF Spec, CallSpec, Calls!Spec

=============================================================================
