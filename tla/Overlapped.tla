----------------------------- MODULE Overlapped -----------------------------
(***************************************************************************)
(* The Windows build of the network: tcp::socket starts an overlapped call *)
(* of the kernel and awaits an event, whose completion any thread inside   *)
(* service::run() may take off the completion port, before the coroutine   *)
(* has suspended or after.  The flag ready_ of the event decides who goes  *)
(* on: await_suspend() or resume(), whichever comes second.  The event is  *)
(* in the frame of the operation and ends with the call it was made for.   *)
(*                                                                         *)
(* Module Service models post() and the run queue; here run() is modelled  *)
(* as far as completions and stop() are concerned.                         *)
(***************************************************************************)
EXTENDS Operation, Integers, FiniteSets

CONSTANTS
  Threads,     \* threads that launch coroutines and call run()
  Tasks,       \* coroutines, each with a socket of its own
  MaxOps,      \* operations of all coroutines
  MaxResets,   \* connections that end before accept() gets them
  MaxStops,    \* calls of stop()
  BufferSize   \* what one wait may return

ASSUME OverlappedAssumption ==
  /\ Nil \notin Tasks
  /\ {MaxOps, MaxSize, MaxResets, MaxStops} \subseteq Nat
  /\ BufferSize \in Nat \ {0}

VARIABLES
  awaiter_, ready_, \* the event of a coroutine's current call
  io,               \* that call: "none", "pending" or "queued" in the port
  on,               \* the coroutine a thread runs
  loc, local, todo, \* where a thread is in run(), its `stop`, its entries
  reload,           \* is there an interrupt among them?
  stop,             \* stop_
  interrupts        \* packets without an event in the port

event  == <<awaiter_, ready_>>
worker == <<loc, local, todo, reload>>
port   == <<stop, interrupts>>
overlappedVars == <<op, at, size, event, io, on, worker, port, budget>>

OverlappedInit ==
  /\ op = [c \in Tasks |-> "none"] /\ at = [c \in Tasks |-> "new"]
  /\ size = [c \in Tasks |-> 0]
  /\ awaiter_ = [c \in Tasks |-> FALSE] /\ ready_ = [c \in Tasks |-> FALSE]
  /\ io = [c \in Tasks |-> "none"]
  /\ on = [t \in Threads |-> Nil]
  /\ loc = [t \in Threads |-> "out"] /\ local = [t \in Threads |-> FALSE]
  /\ todo = [t \in Threads |-> {}] /\ reload = [t \in Threads |-> FALSE]
  /\ stop = FALSE /\ interrupts = 0
  /\ budget = [ops |-> MaxOps, resets |-> MaxResets, stops |-> MaxStops]

-----------------------------------------------------------------------------
(* What an operation does when a call has succeeded or failed: it returns  *)
(* to the body of the coroutine, or makes another call.                    *)

Goto(c, to) == at' = [at EXCEPT ![c] = to]

\* Only ERROR_CONNECTION_RESET is tried again.
AcceptEnds(c, ok) ==
  /\ op[c] = "accept" /\ UNCHANGED size
  /\ \/ Goto(c, "body") /\ UNCHANGED budget
     \/ /\ ~ok /\ budget.resets > 0
        /\ Goto(c, "call")
        /\ budget' = [budget EXCEPT !.resets = @ - 1]

ConnectEnds(c, ok) == op[c] = "connect" /\ Goto(c, "body") /\ UNCHANGED <<size, budget>>

RecvEnds(c, ok) == op[c] = "recv" /\ Goto(c, "body") /\ UNCHANGED <<size, budget>>

\* send() ends when nothing was sent, be it without an error.
SendEnds(c, ok) ==
  /\ op[c] = "send" /\ UNCHANGED budget
  /\ IF ok
     THEN \E n \in 0..size[c] :
            /\ size' = [size EXCEPT ![c] = @ - n]
            /\ Goto(c, IF n = 0 \/ size[c] = n THEN "body" ELSE "call")
     ELSE Goto(c, "body") /\ UNCHANGED size

CallEnds(c, ok) == AcceptEnds(c, ok) \/ ConnectEnds(c, ok) \/ RecvEnds(c, ok) \/ SendEnds(c, ok)

\* Faulty variant: the event is made once, before the loop of send().
CallWithOldEvent(t, c) ==
  /\ on[t] = c /\ at[c] = "call"
  /\ \/ \E ok \in BOOLEAN : CallEnds(c, ok) /\ UNCHANGED io
     \/ /\ io' = [io EXCEPT ![c] = "pending"]
        /\ Goto(c, "suspend")
        /\ UNCHANGED <<size, budget>>
  /\ UNCHANGED <<op, on, event, worker, port>>

\* The call: a new event; success at once posts no packet to the port, for
\* create() asked for FILE_SKIP_COMPLETION_PORT_ON_SUCCESS.
Call(t, c) ==
  /\ on[t] = c /\ at[c] = "call"
  /\ awaiter_' = [awaiter_ EXCEPT ![c] = FALSE]
  /\ ready_' = [ready_ EXCEPT ![c] = FALSE]
  /\ \/ \E ok \in BOOLEAN : CallEnds(c, ok) /\ UNCHANGED io
     \/ /\ io' = [io EXCEPT ![c] = "pending"]
        /\ Goto(c, "suspend")
        /\ UNCHANGED <<size, budget>>
  /\ UNCHANGED <<op, on, worker, port>>

\* GetOverlappedResult()
Result(t, c) ==
  /\ on[t] = c /\ at[c] = "result"
  /\ \E ok \in BOOLEAN : CallEnds(c, ok)
  /\ UNCHANGED <<op, event, io, on, worker, port>>

-----------------------------------------------------------------------------
(* The event.                                                              *)

StoreAwaiter(t, c) ==
  /\ on[t] = c /\ at[c] = "suspend"
  /\ awaiter_' = [awaiter_ EXCEPT ![c] = TRUE]
  /\ Goto(c, "exchange")
  /\ UNCHANGED <<op, size, ready_, io, on, worker, port, budget>>

\* await_suspend() resumes the coroutine itself if resume() was there first.
AwaitSuspend(t, c) ==
  /\ on[t] = c /\ at[c] = "exchange"
  /\ ready_' = [ready_ EXCEPT ![c] = TRUE]
  /\ \/ ready_[c] /\ Goto(c, "result") /\ UNCHANGED on
     \/ ~ready_[c] /\ Goto(c, "suspended") /\ on' = [on EXCEPT ![t] = Nil]
  /\ UNCHANGED <<op, size, awaiter_, io, worker, port, budget>>

\* Faulty variant: whoever completes leaves the coroutine to await_suspend().
ResumeEventNever(t, c) ==
  /\ loc[t] = "batch" /\ on[t] = Nil /\ c \in todo[t]
  /\ todo' = [todo EXCEPT ![t] = @ \ {c}]
  /\ io' = [io EXCEPT ![c] = "none"]
  /\ ready_' = [ready_ EXCEPT ![c] = TRUE]
  /\ UNCHANGED <<op, at, size, awaiter_, on, loc, local, reload, port, budget>>

ResumeEvent(t, c) ==
  /\ loc[t] = "batch" /\ on[t] = Nil /\ c \in todo[t]
  /\ todo' = [todo EXCEPT ![t] = @ \ {c}]
  /\ io' = [io EXCEPT ![c] = "none"]
  /\ ready_' = [ready_ EXCEPT ![c] = TRUE]
  /\ \/ ready_[c] /\ Goto(c, "result") /\ on' = [on EXCEPT ![t] = c]
     \/ ~ready_[c] /\ UNCHANGED <<at, on>>
  /\ UNCHANGED <<op, size, awaiter_, loc, local, reload, port, budget>>

-----------------------------------------------------------------------------
(* run()                                                                   *)

EnterRun(t) ==
  /\ loc[t] \in {"out", "left"} /\ on[t] = Nil
  /\ loc' = [loc EXCEPT ![t] = "wait"]
  /\ local' = [local EXCEPT ![t] = stop]
  /\ UNCHANGED <<op, at, size, event, io, on, todo, reload, port, budget>>

Queued == {c \in Tasks : io[c] = "queued" /\ \A t \in Threads : c \notin todo[t]}

\* GetQueuedCompletionStatusEx()
Wait(t) ==
  /\ loc[t] = "wait"
  /\ \E entries \in SUBSET Queued, k \in {0, 1} :
       /\ k <= interrupts /\ Cardinality(entries) + k \in 1..BufferSize
       /\ todo' = [todo EXCEPT ![t] = entries]
       /\ reload' = [reload EXCEPT ![t] = k = 1]
       /\ interrupts' = interrupts - k
  /\ loc' = [loc EXCEPT ![t] = "batch"]
  /\ UNCHANGED <<op, at, size, event, io, on, local, stop, budget>>

\* The timeout is 1ms once `stop` is set; stop_ is not looked at again.
Timeout(t) ==
  /\ loc[t] = "wait" /\ local[t] /\ Queued = {} /\ interrupts = 0
  /\ loc' = [loc EXCEPT ![t] = "left"]
  /\ UNCHANGED <<op, at, size, event, io, on, local, todo, reload, port, budget>>

HandleInterrupt(t) ==
  /\ loc[t] = "batch" /\ on[t] = Nil /\ reload[t]
  /\ local' = [local EXCEPT ![t] = stop]
  /\ reload' = [reload EXCEPT ![t] = FALSE]
  /\ UNCHANGED <<op, at, size, event, io, on, loc, todo, port, budget>>

EndOfBatch(t) ==
  /\ loc[t] = "batch" /\ on[t] = Nil /\ todo[t] = {} /\ ~reload[t]
  /\ loc' = [loc EXCEPT ![t] = "wait"]
  /\ UNCHANGED <<op, at, size, event, io, on, local, todo, reload, port, budget>>

\* stop_ and the packet of interrupt().
Stop(t, b) ==
  /\ on[t] # Nil \/ loc[t] \in {"out", "left"}
  /\ on[t] # Nil => at[on[t]] = "body"
  /\ budget.stops > 0 /\ budget' = [budget EXCEPT !.stops = @ - 1]
  /\ stop' = b /\ interrupts' = interrupts + 1
  /\ UNCHANGED <<op, at, size, event, io, on, worker>>

-----------------------------------------------------------------------------
(* The coroutines, and the kernel.                                         *)

Launch(t, c) ==
  /\ on[t] = Nil /\ loc[t] \in {"out", "left"} /\ at[c] = "new"
  /\ on' = [on EXCEPT ![t] = c] /\ Goto(c, "body")
  /\ UNCHANGED <<op, size, event, io, worker, port, budget>>

BeginOperation(t, c) ==
  /\ on[t] = c /\ at[c] = "body" /\ budget.ops > 0
  /\ budget' = [budget EXCEPT !.ops = @ - 1]
  /\ \E o \in {"accept", "connect", "recv", "send"}, n \in 0..MaxSize :
       /\ op' = [op EXCEPT ![c] = o] /\ size' = [size EXCEPT ![c] = IF o = "send" THEN n ELSE 0]
  /\ Goto(c, "call")
  /\ UNCHANGED <<event, io, on, worker, port>>

Finish(t, c) ==
  /\ on[t] = c /\ at[c] = "body"
  /\ Goto(c, "done") /\ on' = [on EXCEPT ![t] = Nil]
  /\ UNCHANGED <<op, size, event, io, worker, port, budget>>

\* The call ends, well or not, or is cancelled.
Completes(c) ==
  /\ io[c] = "pending"
  /\ io' = [io EXCEPT ![c] = "queued"]
  /\ UNCHANGED <<op, at, size, event, on, worker, port, budget>>

Coroutine(t, c) ==
  Call(t, c) \/ Result(t, c) \/ StoreAwaiter(t, c) \/ AwaitSuspend(t, c) \/ Finish(t, c)

RunLoop(t) == Wait(t) \/ Timeout(t) \/ HandleInterrupt(t) \/ EndOfBatch(t) \/ \E c \in Tasks : ResumeEvent(t, c)

OverlappedNext ==
  \/ \E t \in Threads :
       \/ EnterRun(t) \/ RunLoop(t)
       \/ \E b \in BOOLEAN : Stop(t, b)
       \/ \E c \in Tasks : Launch(t, c) \/ BeginOperation(t, c) \/ Coroutine(t, c)
  \/ \E c \in Tasks : Completes(c)

(* Threads run, and every one calls run() once.                            *)
OverlappedFairness == \A t \in Threads :
  /\ WF_overlappedVars(RunLoop(t) \/ (\E c \in Tasks : Coroutine(t, c)))
  /\ WF_overlappedVars(loc[t] = "out" /\ EnterRun(t))

OverlappedSpec == OverlappedInit /\ [][OverlappedNext]_overlappedVars /\ OverlappedFairness

-----------------------------------------------------------------------------
(* Properties                                                              *)

(* No coroutine runs on two threads, and a packet leads to the event of    *)
(* the call that is still awaited: neither resume() nor await_suspend()    *)
(* touches an event that ended with its operation, or an awaiter that is   *)
(* not stored yet, and each call ends before the next one begins.          *)
OneGoesOn ==
  /\ \A t, u \in Threads : on[t] = on[u] /\ on[t] # Nil => t = u
  /\ \A c \in Tasks :
       /\ io[c] # "none" => at[c] \in {"suspend", "exchange", "suspended"}
       /\ at[c] = "suspended" <=> ready_[c] /\ io[c] # "none"
       /\ at[c] = "suspended" => awaiter_[c] /\ \A t \in Threads : on[t] # c
       /\ at[c] \in {"body", "call", "suspend", "exchange", "result"} => \E t \in Threads : on[t] = c
       /\ at[c] = "result" => ready_[c] /\ awaiter_[c]
  /\ \A t, u \in Threads : t # u => todo[t] \cap todo[u] = {}
  /\ \A t \in Threads : \A c \in todo[t] : io[c] = "queued"

(* Once its call has ended a coroutine goes on, unless every thread has    *)
(* returned from run().                                                    *)
Completed == \A c \in Tasks :
  (at[c] \in {"suspend", "exchange", "suspended"} /\ io[c] # "pending") ~>
    (at[c] = "result" \/ \A t \in Threads : loc[t] = "left")

=============================================================================
