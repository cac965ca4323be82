------------------------------- MODULE Logger -------------------------------
(***************************************************************************)
(* The logger of ice/log.cpp: one thread that runs a context, and any      *)
(* number of threads that call log::queue().  While fewer than g_limit     *)
(* entries are queued, queue() posts a coroutine and returns; otherwise it *)
(* blocks until the logger has printed its entry, with a flag and a        *)
(* condition variable on its own stack.  One thread calls log::stop().     *)
(*                                                                         *)
(* The context is the one of module Context with one worker: its mutex is  *)
(* left out, because nobody else locks it, but the steps between finding   *)
(* the queue empty and going to sleep are not.                             *)
(***************************************************************************)
EXTENDS Integers, Sequences, FiniteSets, Functions

CONSTANTS
  Clients,     \* threads that log
  MaxEntries,  \* entries of each of them
  Limit,       \* g_limit
  Nil

ASSUME LoggerAssumption ==
  /\ IsFiniteSet(Clients) /\ Clients # {} /\ Nil \notin Clients
  /\ MaxEntries \in Nat /\ Limit \in Nat

VARIABLES
  pc,         \* where a client is in queue() or stop()
  made,       \* how many entries it has queued
  completed,  \* the flag on its stack
  g_count,
  queue,      \* head_ of the context, oldest first
  stop,       \* stop_ of the context
  worker,     \* where the logger's thread is
  batch,      \* what it took and has not printed yet
  printed     \* what it printed

clientVars == <<pc, made, completed>>
contextVars == <<queue, stop>>
workerVars == <<batch, printed>>
vars == <<clientVars, g_count, contextVars, worker, workerVars>>

Entries == [by : Clients, no : 1..MaxEntries, wait : BOOLEAN]

Init ==
  /\ pc = [c \in Clients |-> "idle"]
  /\ made = [c \in Clients |-> 0]
  /\ completed = [c \in Clients |-> FALSE]
  /\ g_count = 0
  /\ queue = <<>> /\ stop = FALSE
  /\ worker = "acquire" /\ batch = <<>> /\ printed = <<>>

Goto(c, from, to) ==
  /\ pc[c] = from
  /\ pc' = [pc EXCEPT ![c] = to]

\* cv_.notify_one() and notify_all(): lost unless the worker is in wait().
Notify == worker' = IF worker = "asleep" THEN "predicate" ELSE worker

-----------------------------------------------------------------------------
(* log::queue()                                                            *)

\* Faulty variant: one more.
CheckLimitOff(c) ==
  /\ made[c] < MaxEntries
  /\ \/ g_count <= Limit /\ Goto(c, "idle", "count")
     \/ g_count > Limit /\ Goto(c, "idle", "pushwait")
  /\ made' = [made EXCEPT ![c] = @ + 1]
  /\ completed' = [completed EXCEPT ![c] = FALSE]
  /\ UNCHANGED <<g_count, contextVars, worker, workerVars>>

CheckLimit(c) ==
  /\ made[c] < MaxEntries
  /\ \/ g_count < Limit /\ Goto(c, "idle", "count")
     \/ g_count >= Limit /\ Goto(c, "idle", "pushwait")
  /\ made' = [made EXCEPT ![c] = @ + 1]
  /\ completed' = [completed EXCEPT ![c] = FALSE]
  /\ UNCHANGED <<g_count, contextVars, worker, workerVars>>

Count(c) ==
  /\ Goto(c, "count", "push")
  /\ g_count' = g_count + 1
  /\ UNCHANGED <<made, completed, contextVars, worker, workerVars>>

\* co_await context_.schedule(true)
Push(c) ==
  /\ pc[c] \in {"push", "pushwait"}
  /\ queue' = Append(queue, [by |-> c, no |-> made[c], wait |-> pc[c] = "pushwait"])
  /\ pc' = [pc EXCEPT ![c] = IF pc[c] = "push" THEN "notify" ELSE "notifywait"]
  /\ UNCHANGED <<made, completed, g_count, stop, worker, workerVars>>

Posted(c) ==
  /\ Goto(c, "notify", "idle") \/ Goto(c, "notifywait", "pred")
  /\ Notify
  /\ UNCHANGED <<made, completed, g_count, contextVars, workerVars>>

\* The predicate of cv.wait(lock, ...), and the sleep.
Predicate(c) ==
  /\ \/ completed[c] /\ Goto(c, "pred", "idle")
     \/ ~completed[c] /\ Goto(c, "pred", "block")
  /\ UNCHANGED <<made, completed, g_count, contextVars, worker, workerVars>>

Block(c) ==
  /\ Goto(c, "block", "waiting")
  /\ UNCHANGED <<made, completed, g_count, contextVars, worker, workerVars>>

SpuriousWake(c) ==
  /\ Goto(c, "waiting", "pred")
  /\ UNCHANGED <<made, completed, g_count, contextVars, worker, workerVars>>

(* log::stop(): stop_, the notification, and join().                       *)
Stop(c) ==
  /\ ~stop /\ Goto(c, "idle", "notifystop")
  /\ stop' = TRUE
  /\ UNCHANGED <<made, completed, g_count, queue, worker, workerVars>>

Stopped(c) ==
  /\ Goto(c, "notifystop", "join")
  /\ Notify
  /\ UNCHANGED <<made, completed, g_count, contextVars, workerVars>>

Join(c) ==
  /\ worker = "left" /\ Goto(c, "join", "idle")
  /\ UNCHANGED <<made, completed, g_count, contextVars, worker, workerVars>>

-----------------------------------------------------------------------------
(* The thread of the logger: context::run() ...                            *)

\* acquire(), by the loop and by the predicate.
AcquireBatch ==
  /\ worker \in {"acquire", "predicate"}
  /\ \/ /\ queue # <<>>
        /\ batch' = queue /\ queue' = <<>>
        /\ worker' = "print"
     \/ /\ queue = <<>>
        /\ worker' = IF worker = "acquire" THEN "loop" ELSE "predstop"
        /\ UNCHANGED <<batch, queue>>
  /\ UNCHANGED <<clientVars, g_count, stop, printed>>

\* `stop_`, by the loop and by the predicate, and the sleep.
CheckStop ==
  /\ \/ worker = "loop" /\ worker' = IF stop THEN "left" ELSE "predicate"
     \/ worker = "predstop" /\ worker' = IF stop THEN "left" ELSE "sleep"
     \/ worker = "sleep" /\ worker' = "asleep"
     \/ worker = "asleep" /\ worker' = "predicate"
  /\ UNCHANGED <<clientVars, g_count, contextVars, workerVars>>

\* Faulty variant: the batch is resumed newest first.
PrintOutOfTurn ==
  /\ worker = "print" /\ batch # <<>>
  /\ printed' = Append(printed, batch[Len(batch)])
  /\ batch' = SubSeq(batch, 1, Len(batch) - 1)
  /\ g_count' = IF batch[Len(batch)].wait THEN g_count ELSE g_count - 1
  /\ worker' = IF batch[Len(batch)].wait THEN "store" ELSE "print"
  /\ UNCHANGED <<clientVars, contextVars>>

(* ... and the coroutines it resumes.                                      *)
PrintEntry ==
  /\ worker = "print"
  /\ \/ /\ batch # <<>>
        /\ printed' = Append(printed, Head(batch))
        /\ worker' = IF Head(batch).wait THEN "store" ELSE "discount"
        /\ batch' = Tail(batch)
     \/ batch = <<>> /\ worker' = "acquire" /\ UNCHANGED workerVars
  /\ UNCHANGED <<clientVars, contextVars, g_count>>

Discount ==
  /\ worker = "discount" /\ worker' = "print"
  /\ g_count' = g_count - 1
  /\ UNCHANGED <<clientVars, contextVars, workerVars>>

\* The entry that was printed last.
Current == printed[Len(printed)]

\* Faulty variant: the flag is not set.
CompleteNothing ==
  /\ worker = "store" /\ worker' = "notify"
  /\ UNCHANGED <<clientVars, g_count, contextVars, workerVars>>

Complete ==
  /\ worker = "store" /\ worker' = "notify"
  /\ completed' = [completed EXCEPT ![Current.by] = TRUE]
  /\ UNCHANGED <<pc, made, g_count, contextVars, workerVars>>

\* cv.notify_one(): the client may have returned, and cv with it.
NotifyClient ==
  /\ worker = "notify" /\ worker' = "print"
  /\ pc' = [pc EXCEPT ![Current.by] = IF @ = "waiting" THEN "pred" ELSE @]
  /\ UNCHANGED <<made, completed, g_count, contextVars, workerVars>>

-----------------------------------------------------------------------------
Client(c) ==
  Count(c) \/ Push(c) \/ Posted(c) \/ Predicate(c) \/ Block(c) \/ Stopped(c) \/ Join(c)

\* Without the wake-ups that nobody has to deliver.
Worker ==
  AcquireBatch \/ (worker # "asleep" /\ CheckStop) \/ PrintEntry \/ Discount \/ Complete \/ NotifyClient

Next ==
  \/ \E c \in Clients : Client(c) \/ CheckLimit(c) \/ Stop(c) \/ SpuriousWake(c)
  \/ Worker \/ CheckStop

Fairness == WF_vars(Worker) /\ \A c \in Clients : WF_vars(Client(c))

Spec == Init /\ [][Next]_vars /\ Fairness

-----------------------------------------------------------------------------
(* Properties                                                              *)

Waits(c) == pc[c] \in {"pred", "block", "waiting"}

(* An entry is printed at most once and the entries of a thread in order;  *)
(* queue() with completion does not return before, and the coroutine sets  *)
(* the flag while it is on the stack of its caller; g_count is the number  *)
(* of the other entries that are on their way and not printed yet.         *)
PrintedInOrder ==
  /\ \A i, j \in 1..Len(printed) :
       i < j /\ printed[i].by = printed[j].by => printed[i].no < printed[j].no
  /\ \A c \in Clients : completed[c] => \E i \in 1..Len(printed) :
       printed[i] = [by |-> c, no |-> made[c], wait |-> TRUE]
  /\ worker = "store" => Current.no = made[Current.by] /\
       (Waits(Current.by) \/ pc[Current.by] = "notifywait")
  /\ g_count = Cardinality({c \in Clients : pc[c] = "push"})
                 + Cardinality({e \in Range(queue) \cup Range(batch) : ~e.wait})
                 + (IF worker = "discount" THEN 1 ELSE 0)

\* Threads between the check of g_limit and the increment of g_count.
Counting == {c \in Clients : pc[c] = "count"}

(* The check of g_limit is not atomic with the increment of g_count: every *)
(* thread may pass it once, and no more.                                   *)
LimitOvershoot == g_count + Cardinality(Counting) < Limit + Cardinality(Clients)

(* Whoever waits in queue() or stop() waits for ever only if the worker    *)
(* sleeps through a notification or is gone, or the client slept through   *)
(* the one of its own entry.                                               *)
OnlySleepBlocks == \A c \in Clients :
  \/ []<>(pc[c] = "idle")
  \/ <>[](worker \in {"asleep", "left"} \/ (pc[c] = "waiting" /\ completed[c]))

=============================================================================
