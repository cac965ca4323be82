--------------------------- MODULE AsyncGenerator ---------------------------
(***************************************************************************)
(* async_generator<T> of ice/async.hpp: a consumer asks for values, the    *)
(* producer yields them, and both may suspend for other reasons and go on  *)
(* on other threads.  m_state says whether a value is ready and whether    *)
(* the other side is active or suspended; whoever finds the other one      *)
(* suspended resumes it, on top of its own stack.  ~async_generator may    *)
(* come while the producer is still active: then the producer destroys     *)
(* the frame.                                                              *)
(*                                                                         *)
(* One generator, one consumer (m_consumerCoroutine is always that one).   *)
(* Every access to m_state is a step.  After an access that found the      *)
(* other side suspended nobody else changes m_state until the store and    *)
(* the resume() that follow, which are part of that step.                  *)
(***************************************************************************)
EXTENDS Integers

CONSTANTS MaxValues,  \* bound: values the producer yields at most
          MaxHops,    \* bound: suspensions of each side for other reasons
          None        \* no value

ASSUME GeneratorAssumption ==
  /\ MaxValues \in Nat /\ MaxHops \in Nat
  /\ None \notin 0..MaxValues /\ None \notin {"producer", "consumer"}

VARIABLES
  m_state,         \* value_not_ready_... or value_ready_..., or cancelled
  m_currentValue,  \* the number of the value, 0 for nullptr, or None
  m_exception,     \* the body of the producer has thrown
  producer,        \* where the producer is
  consumer,        \* where the consumer is
  found, noticed,  \* the m_state that consumer and producer have read
  top,             \* who runs on top of the other one's resume(), or None
  held,            \* what the consumer has in hand
  asked, yields, taken,  \* questions, answers made, answers received
  hops             \* hops[w]: suspensions of w so far

data == <<m_currentValue, m_exception, yields>>
vars == <<m_state, data, producer, consumer, found, noticed, top, held, asked, taken, hops>>

States == {"not_ready_consumer_active", "not_ready_consumer_suspended",
           "ready_producer_active", "ready_producer_suspended", "cancelled"}

Finished == 0  \* m_currentValue is nullptr

TypeOK ==
  /\ m_state \in States
  /\ m_currentValue \in 0..MaxValues \cup {None}
  /\ m_exception \in BOOLEAN
  /\ producer \in {"suspended", "body", "hop", "yield", "called", "offer", "recalled", "drop", "gone"}
  /\ consumer \in {"body", "hop", "call", "await", "recall", "last", "waiting", "resume", "done"}
  /\ found \in States /\ noticed \in States
  /\ top \in {None, "producer", "consumer"}
  /\ held \in 0..MaxValues \cup {None}
  /\ yields \in 0..MaxValues + 1
  /\ asked \in 0..MaxValues + 1
  /\ taken \in 0..MaxValues + 1
  /\ hops \in [{"producer", "consumer"} -> 0..MaxHops]

Init ==
  /\ m_state = "ready_producer_suspended"
  /\ m_currentValue = None /\ m_exception = FALSE
  /\ producer = "suspended" /\ consumer = "body"
  /\ found = "cancelled" /\ noticed = "cancelled"
  /\ top = None /\ held = None
  /\ asked = 0 /\ yields = 0 /\ taken = 0
  /\ hops = [w \in {"producer", "consumer"} |-> 0]

\* w gives control back; if it was resumed by the other side, to that one.
Leaves(w) == top' = IF top = w THEN None ELSE top

-----------------------------------------------------------------------------
(* The consumer                                                            *)

\* Faulty variant: the store before resume() is missing.
CallProducerOnly(p) ==
  /\ UNCHANGED m_state
  /\ producer' = "body"
  /\ consumer' = p
  /\ top' = "producer"

\* The store and the resume() of the producer, from place p.
CallProducer(p) ==
  /\ m_state' = "not_ready_consumer_active"
  /\ producer' = "body"
  /\ consumer' = p
  /\ top' = "producer"

\* begin() or ++: the constructor of the advance operation.
Advance ==
  /\ consumer = "body" /\ held # Finished
  /\ held' = None /\ asked' = asked + 1
  /\ IF m_state = "ready_producer_suspended"
     THEN CallProducer("call") /\ UNCHANGED found
     ELSE found' = m_state /\ consumer' = "await" /\ UNCHANGED <<m_state, producer, top>>
  /\ UNCHANGED <<data, noticed, taken, hops>>

\* Faulty variant: what the producer left is taken for a value.
AdvanceReturnsReady ==
  /\ consumer = "call" /\ top # "producer"
  /\ found' = m_state /\ consumer' = "resume"
  /\ UNCHANGED <<m_state, data, producer, noticed, top, held, asked, taken, hops>>

\* resume() has returned; await_ready.
AdvanceReturns ==
  /\ consumer = "call" /\ top # "producer"
  /\ found' = m_state
  /\ consumer' = IF m_state = "ready_producer_suspended" THEN "resume" ELSE "await"
  /\ UNCHANGED <<m_state, data, producer, noticed, top, held, asked, taken, hops>>

\* await_suspend, the value being ready when the operation was made.
AwaitReady ==
  /\ consumer = "await" /\ found = "ready_producer_active"
  /\ IF m_state = "ready_producer_active"
     THEN /\ m_state' = "not_ready_consumer_suspended" /\ consumer' = "waiting"
          /\ Leaves("consumer")
          /\ UNCHANGED <<found, producer>>
     ELSE found' = m_state /\ CallProducer("recall")
  /\ UNCHANGED <<data, noticed, held, asked, taken, hops>>

AwaitReturns ==
  /\ consumer = "recall" /\ top # "producer"
  /\ found' = m_state
  /\ consumer' = IF m_state = "ready_producer_suspended" THEN "resume" ELSE "last"
  /\ UNCHANGED <<m_state, data, producer, noticed, top, held, asked, taken, hops>>

\* The compare-exchange at the end of await_suspend.
AwaitLast ==
  /\ \/ consumer = "last"
     \/ consumer = "await" /\ found # "ready_producer_active"
  /\ IF m_state = found
     THEN m_state' = "not_ready_consumer_suspended" /\ consumer' = "waiting" /\ Leaves("consumer")
     ELSE consumer' = "resume" /\ UNCHANGED <<m_state, top>>
  /\ UNCHANGED <<data, producer, found, noticed, held, asked, taken, hops>>

\* await_resume
Take ==
  /\ consumer = "resume"
  /\ consumer' = "body" /\ held' = m_currentValue /\ taken' = taken + 1
  /\ UNCHANGED <<m_state, data, producer, found, noticed, top, asked, hops>>

\* Faulty variant: the frame is destroyed whatever the producer does.
DestroyAlways ==
  /\ consumer \in {"body", "await"}
  /\ m_state' = "cancelled" /\ consumer' = "done" /\ held' = None
  /\ producer' = "gone"
  /\ Leaves("consumer")
  /\ UNCHANGED <<data, found, noticed, asked, taken, hops>>

\* ~async_generator and request_cancellation, which may come after an operation
\* was made that nobody awaits; the consumer ends with it.
Destroy ==
  /\ consumer \in {"body", "await"}
  /\ m_state' = "cancelled" /\ consumer' = "done" /\ held' = None
  /\ producer' = IF m_state = "ready_producer_suspended" THEN "gone" ELSE producer
  /\ Leaves("consumer")
  /\ UNCHANGED <<data, found, noticed, asked, taken, hops>>

ConsumerHop ==
  /\ consumer = "body" /\ hops["consumer"] < MaxHops
  /\ consumer' = "hop" /\ hops' = [hops EXCEPT !["consumer"] = @ + 1]
  /\ Leaves("consumer")
  /\ UNCHANGED <<m_state, data, producer, found, noticed, held, asked, taken>>

ConsumerLand ==
  /\ consumer = "hop" /\ consumer' = "body"
  /\ UNCHANGED <<m_state, data, producer, found, noticed, top, held, asked, taken, hops>>

-----------------------------------------------------------------------------
(* The producer                                                            *)

\* The store and the resume() of the consumer, from place p.
CallConsumer(p) ==
  /\ m_state' = "ready_producer_active"
  /\ consumer' = "resume"
  /\ producer' = p
  /\ top' = "consumer"

Suspend ==
  /\ m_state' = "ready_producer_suspended" /\ producer' = "suspended"
  /\ Leaves("producer")
  /\ UNCHANGED <<noticed, consumer>>

\* co_yield
Yield ==
  /\ producer = "body" /\ yields < MaxValues
  /\ yields' = yields + 1 /\ m_currentValue' = yields + 1
  /\ producer' = "yield"
  /\ UNCHANGED <<m_state, m_exception, consumer, found, noticed, top, held, asked, taken, hops>>

\* The body ends, with or without an exception; final_suspend.
Finish ==
  /\ producer = "body"
  /\ m_exception' \in (IF m_state = "cancelled" THEN {m_exception} ELSE BOOLEAN)
  /\ yields' = yields + 1 /\ m_currentValue' = Finished
  /\ producer' = "yield"
  /\ UNCHANGED <<m_state, consumer, found, noticed, top, held, asked, taken, hops>>

\* internal_yield_value
InternalYieldValue ==
  /\ producer = "yield"
  /\ IF m_state = "not_ready_consumer_suspended"
     THEN CallConsumer("called") /\ UNCHANGED noticed
     ELSE noticed' = m_state /\ producer' = "offer" /\ UNCHANGED <<m_state, consumer, top>>
  /\ UNCHANGED <<data, found, held, asked, taken, hops>>

\* Faulty variant: await_ready does not look whether the consumer asked again.
YieldReturnsReady ==
  /\ producer = "called" /\ top # "consumer"
  /\ noticed' = m_state
  /\ producer' = IF m_state # "cancelled" THEN "body" ELSE "offer"
  /\ UNCHANGED <<m_state, data, consumer, found, top, held, asked, taken, hops>>

\* resume() has returned; await_ready of the yield operation.
YieldReturns ==
  /\ producer = "called" /\ top # "consumer"
  /\ noticed' = m_state
  /\ producer' = IF m_state = "not_ready_consumer_suspended" THEN "body" ELSE "offer"
  /\ UNCHANGED <<m_state, data, consumer, found, top, held, asked, taken, hops>>

\* Faulty variant: a store in place of the compare-exchange.
OfferValueBlindly ==
  /\ producer = "offer" /\ noticed = "not_ready_consumer_active"
  /\ Suspend
  /\ UNCHANGED <<data, found, held, asked, taken, hops>>

\* await_suspend of the yield operation: the consumer was active, without a value.
OfferValue ==
  /\ producer = "offer" /\ noticed = "not_ready_consumer_active"
  /\ \/ m_state = "not_ready_consumer_active" /\ Suspend
     \/ m_state = "not_ready_consumer_suspended" /\ CallConsumer("recalled") /\ UNCHANGED noticed
     \/ /\ m_state \notin {"not_ready_consumer_active", "not_ready_consumer_suspended"}
        /\ noticed' = m_state /\ UNCHANGED <<m_state, producer, consumer, top>>
  /\ UNCHANGED <<data, found, held, asked, taken, hops>>

OfferReturns ==
  /\ producer = "recalled" /\ top # "consumer"
  /\ noticed' = m_state
  /\ producer' = IF m_state = "not_ready_consumer_suspended" THEN "body"
                 ELSE IF m_state = "ready_producer_active" THEN "offer" ELSE "drop"
  /\ UNCHANGED <<m_state, data, consumer, found, top, held, asked, taken, hops>>

\* await_suspend: the consumer has the value.
WaitForConsumer ==
  /\ producer = "offer" /\ noticed = "ready_producer_active"
  /\ \/ m_state = "ready_producer_active" /\ Suspend
     \/ /\ m_state # "ready_producer_active"
        /\ noticed' = m_state
        /\ producer' = IF m_state = "not_ready_consumer_suspended" THEN "body" ELSE "drop"
        /\ UNCHANGED <<m_state, consumer, top>>
  /\ UNCHANGED <<data, found, held, asked, taken, hops>>

\* Faulty variant: the producer suspends and leaves the frame to nobody.
DropNothing ==
  /\ \/ producer = "drop"
     \/ producer = "offer" /\ noticed \notin {"not_ready_consumer_active", "ready_producer_active"}
  /\ producer' = "suspended" /\ Leaves("producer")
  /\ UNCHANGED <<m_state, data, consumer, found, noticed, held, asked, taken, hops>>

\* await_suspend: cancelled, the producer destroys its own frame.
Drop ==
  /\ \/ producer = "drop"
     \/ producer = "offer" /\ noticed \notin {"not_ready_consumer_active", "ready_producer_active"}
  /\ producer' = "gone" /\ Leaves("producer")
  /\ UNCHANGED <<m_state, data, consumer, found, noticed, held, asked, taken, hops>>

ProducerHop ==
  /\ producer = "body" /\ hops["producer"] < MaxHops
  /\ producer' = "hop" /\ hops' = [hops EXCEPT !["producer"] = @ + 1]
  /\ Leaves("producer")
  /\ UNCHANGED <<m_state, data, consumer, found, noticed, held, asked, taken>>

ProducerLand ==
  /\ producer = "hop" /\ producer' = "body"
  /\ UNCHANGED <<m_state, data, consumer, found, noticed, top, held, asked, taken, hops>>

-----------------------------------------------------------------------------
Consume == AdvanceReturns \/ AwaitReady \/ AwaitReturns \/ AwaitLast \/ Take
Produce ==
  \/ Yield \/ Finish \/ InternalYieldValue \/ YieldReturns \/ OfferValue \/ OfferReturns
  \/ WaitForConsumer \/ Drop \/ ProducerLand

Next == Consume \/ Advance \/ Destroy \/ ConsumerHop \/ ConsumerLand \/ Produce \/ ProducerHop

Spec == Init /\ [][Next]_vars

(* Both sides go on with what they have begun, and the body of the         *)
(* producer comes to its next co_yield or its end.  The consumer need not  *)
(* ask again.                                                              *)
FairSpec == Spec /\ WF_vars(Consume) /\ WF_vars(Produce)

-----------------------------------------------------------------------------
(* Properties                                                              *)

\* The consumer is about to get an answer.
Asking == consumer \in {"call", "await", "recall", "last", "waiting", "resume"}

(* The assertions of the code: in request_cancellation,                    *)
(* internal_yield_value, and the two await_suspend.                        *)
Assertions ==
  /\ consumer \in {"body", "await"} => m_state \notin {"not_ready_consumer_suspended", "cancelled"}
  /\ producer = "yield" => m_state \notin {"ready_producer_active", "ready_producer_suspended"}
  /\ producer = "offer" /\ noticed \notin {"not_ready_consumer_active", "ready_producer_active"} =>
       noticed = "cancelled"
  /\ producer = "drop" => noticed = "cancelled"
  /\ consumer = "await" /\ found = "ready_producer_active" =>
       m_state \in {"ready_producer_active", "ready_producer_suspended"}
  /\ consumer = "await" /\ found # "ready_producer_active" => found = "not_ready_consumer_active"
  /\ consumer = "last" => found = "not_ready_consumer_active"

(* While the consumer has a value in hand the producer stays at its        *)
(* co_yield (the value is an object of its frame), and whatever is handed  *)
(* to the consumer is what was yielded last.  A producer at its end is not *)
(* resumed.                                                                *)
ValueStable ==
  /\ consumer = "resume" => m_currentValue # None
  /\ held # None => /\ m_currentValue = held
                    /\ producer \in {"suspended", "called", "offer", "recalled"}
  /\ m_currentValue = Finished => producer \notin {"body", "hop"}

(* The frame ends once: by ~async_generator if the producer is suspended,  *)
(* else by the producer, after ~async_generator.                           *)
FrameEndsOnce == [][producer' = "gone" /\ producer # "gone" =>
  \/ producer = "suspended" /\ consumer \in {"body", "await"}
  \/ producer \in {"offer", "drop"} /\ consumer = "done"]_vars

(* Every co_await of begin() or ++ is answered.                            *)
ConsumerServed == Asking ~> consumer \in {"body", "done"}

(* After ~async_generator the frame is destroyed, whoever has to do it.    *)
FrameFreed == consumer = "done" ~> producer = "gone"

(* Values are produced on demand and received once, in order.              *)
Stream == INSTANCE PullStream WITH
  End <- Finished, offered <- yields, answer <- m_currentValue, got <- held

StreamSpec == Stream!Spec

-----------------------------------------------------------------------------
(* The inductive invariant                                                 *)

\* The producer works at its answer, offers it, or knows that the consumer
\* has it.
Answering == producer \in {"body", "hop"}
Offering  == \/ producer = "yield"
             \/ producer = "offer" /\ noticed = "not_ready_consumer_active"
Delivered == \/ producer \in {"called", "recalled"}
             \/ producer = "offer" /\ noticed = "ready_producer_active"

\* What m_state says of the places of the two.
StateShape ==
  /\ m_state = "not_ready_consumer_active" =>
       /\ Answering \/ Offering
       /\ \/ consumer \in {"call", "recall"}
          \/ consumer \in {"await", "last"} /\ found = "not_ready_consumer_active"
  /\ m_state = "not_ready_consumer_suspended" =>
       consumer = "waiting" /\ (Answering \/ Offering \/ Delivered)
  /\ m_state = "ready_producer_active" =>
       /\ Delivered
       /\ \/ consumer \in {"resume", "body", "hop"}
          \/ consumer = "await" /\ found = "ready_producer_active"
  /\ m_state = "ready_producer_suspended" =>
       /\ producer = "suspended"
       /\ \/ consumer \in {"body", "hop", "call", "recall", "resume"}
          \/ consumer = "await" /\ found = "ready_producer_active"
          \/ consumer \in {"await", "last"} /\ found = "not_ready_consumer_active"
  /\ m_state = "cancelled" =>
       /\ consumer = "done" /\ producer # "suspended"
       /\ producer = "drop" => noticed = "cancelled"
       /\ producer = "offer" => noticed \in {"not_ready_consumer_active", "ready_producer_active", "cancelled"}

\* How many answers there are, in each of these places.
CountShape ==
  /\ taken <= yields /\ yields <= asked /\ asked <= taken + 1
  /\ IF consumer \in {"body", "hop"} THEN asked = taken /\ held = m_currentValue ELSE held = None
  /\ Asking => asked = taken + 1
  /\ consumer = "resume" => yields = asked
  /\ Answering => yields < asked
  /\ Offering => yields = asked
  /\ m_state = "not_ready_consumer_suspended" /\ Delivered => yields < asked
  /\ consumer = "await" /\ found = "ready_producer_active" => yields < asked
  /\ m_state = "ready_producer_suspended" =>
       /\ consumer \in {"call", "recall"} => yields = asked
       /\ consumer \in {"await", "last"} /\ found = "not_ready_consumer_active" => yields = asked
  /\ yields < asked => m_currentValue # Finished
  /\ m_currentValue # Finished => yields <= MaxValues
  /\ (m_currentValue = None) <=> (yields = 0)

IInv == TypeOK /\ StateShape /\ CountShape

=============================================================================
