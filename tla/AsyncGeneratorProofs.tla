------------------------ MODULE AsyncGeneratorProofs ------------------------
(***************************************************************************)
(* async_generator<T> of ice/async.hpp, for every number of values and of  *)
(* suspensions: its assertions hold, a value stays where it is while the   *)
(* consumer has it, the frame ends once and is not used after that, and    *)
(* every value is received once, in order.                                 *)
(*                                                                         *)
(* None of this is inductive by itself: IInv says for each m_state where   *)
(* producer and consumer can be (StateShape), and how many questions and   *)
(* answers there are then (CountShape).                                    *)
(***************************************************************************)
EXTENDS AsyncGenerator, TLAPS

(* Before begin() the producer is suspended at its start.                  *)
LEMMA InitEstablishesIInv == Init => IInv
<1> SUFFICES ASSUME Init PROVE IInv
  OBVIOUS
<1>1. TypeOK
  <2>1. 0 \in 0..MaxHops /\ 0 \in 0..MaxValues + 1
    BY GeneratorAssumption
  <2>2. hops \in [{"producer", "consumer"} -> 0..MaxHops]
    BY <2>1 DEF Init
  <2> QED BY <2>1, <2>2 DEF Init, TypeOK, States
<1>2. StateShape
  BY DEF Init, StateShape
<1>3. CountShape
  BY GeneratorAssumption DEF Init, CountShape, Answering, Offering, Delivered, Asking, Finished
<1> QED BY <1>1, <1>2, <1>3 DEF IInv

(* No count exceeds its bound, because no question follows the last answer.*)
LEMMA TypeOKStep ==
  ASSUME TypeOK, StateShape, CountShape, [Next]_vars
  PROVE  TypeOK'
<1> USE GeneratorAssumption DEF TypeOK, StateShape, CountShape, Answering, Offering, Delivered, Asking, States, Finished, data
<1>1. CASE Advance
  BY <1>1 DEF Advance, CallProducer
<1>2. CASE AdvanceReturns
  BY <1>2 DEF AdvanceReturns
<1>3. CASE AwaitReady
  BY <1>3 DEF AwaitReady, CallProducer, Leaves
<1>4. CASE AwaitReturns
  BY <1>4 DEF AwaitReturns
<1>5. CASE AwaitLast
  BY <1>5 DEF AwaitLast, Leaves
<1>6. CASE Take
  BY <1>6 DEF Take
<1>7. CASE Destroy
  BY <1>7 DEF Destroy, Leaves
<1>8. CASE ConsumerHop
  BY <1>8 DEF ConsumerHop, Leaves
<1>9. CASE ConsumerLand
  BY <1>9 DEF ConsumerLand
<1>10. CASE Yield
  BY <1>10 DEF Yield
<1>11. CASE Finish
  BY <1>11 DEF Finish
<1>12. CASE InternalYieldValue
  BY <1>12 DEF InternalYieldValue, CallConsumer
<1>13. CASE YieldReturns
  BY <1>13 DEF YieldReturns
<1>14. CASE OfferValue
  BY <1>14 DEF OfferValue, CallConsumer, Suspend, Leaves
<1>15. CASE OfferReturns
  BY <1>15 DEF OfferReturns
<1>16. CASE WaitForConsumer
  BY <1>16 DEF WaitForConsumer, Suspend, Leaves
<1>17. CASE Drop
  BY <1>17 DEF Drop, Leaves
<1>18. CASE ProducerHop
  BY <1>18 DEF ProducerHop, Leaves
<1>19. CASE ProducerLand
  BY <1>19 DEF ProducerLand
<1>20. CASE UNCHANGED vars
  BY <1>20 DEF vars
<1> QED
  BY <1>1, <1>2, <1>3, <1>4, <1>5, <1>6, <1>7, <1>8, <1>9, <1>10, <1>11, <1>12, <1>13, <1>14, <1>15, <1>16, <1>17, <1>18, <1>19, <1>20
  DEF Next, Consume, Produce

(* Each side changes m_state to what says where it goes and where it left  *)
(* the other one.                                                          *)
LEMMA StateShapeStep ==
  ASSUME TypeOK, StateShape, CountShape, [Next]_vars
  PROVE  StateShape'
<1> USE GeneratorAssumption DEF TypeOK, StateShape, CountShape, Answering, Offering, Delivered, Asking, States, Finished, data
<1>1. CASE Advance
  BY <1>1 DEF Advance, CallProducer
<1>2. CASE AdvanceReturns
  BY <1>2 DEF AdvanceReturns
<1>3. CASE AwaitReady
  BY <1>3 DEF AwaitReady, CallProducer, Leaves
<1>4. CASE AwaitReturns
  BY <1>4 DEF AwaitReturns
<1>5. CASE AwaitLast
  BY <1>5 DEF AwaitLast, Leaves
<1>6. CASE Take
  BY <1>6 DEF Take
<1>7. CASE Destroy
  BY <1>7 DEF Destroy, Leaves
<1>8. CASE ConsumerHop
  BY <1>8 DEF ConsumerHop, Leaves
<1>9. CASE ConsumerLand
  BY <1>9 DEF ConsumerLand
<1>10. CASE Yield
  BY <1>10 DEF Yield
<1>11. CASE Finish
  BY <1>11 DEF Finish
<1>12. CASE InternalYieldValue
  BY <1>12 DEF InternalYieldValue, CallConsumer
<1>13. CASE YieldReturns
  BY <1>13 DEF YieldReturns
<1>14. CASE OfferValue
  BY <1>14 DEF OfferValue, CallConsumer, Suspend, Leaves
<1>15. CASE OfferReturns
  BY <1>15 DEF OfferReturns
<1>16. CASE WaitForConsumer
  BY <1>16 DEF WaitForConsumer, Suspend, Leaves
<1>17. CASE Drop
  BY <1>17 DEF Drop, Leaves
<1>18. CASE ProducerHop
  BY <1>18 DEF ProducerHop, Leaves
<1>19. CASE ProducerLand
  BY <1>19 DEF ProducerLand
<1>20. CASE UNCHANGED vars
  BY <1>20 DEF vars
<1> QED
  BY <1>1, <1>2, <1>3, <1>4, <1>5, <1>6, <1>7, <1>8, <1>9, <1>10, <1>11, <1>12, <1>13, <1>14, <1>15, <1>16, <1>17, <1>18, <1>19, <1>20
  DEF Next, Consume, Produce

(* The producer answers when it was asked, the consumer takes an answer    *)
(* when there is one.                                                      *)
LEMMA CountShapeStep ==
  ASSUME TypeOK, StateShape, CountShape, [Next]_vars
  PROVE  CountShape'
<1> USE GeneratorAssumption DEF TypeOK, StateShape, CountShape, Answering, Offering, Delivered, Asking, States, Finished, data
<1>1. CASE Advance
  BY <1>1 DEF Advance, CallProducer
<1>2. CASE AdvanceReturns
  BY <1>2 DEF AdvanceReturns
<1>3. CASE AwaitReady
  BY <1>3 DEF AwaitReady, CallProducer, Leaves
<1>4. CASE AwaitReturns
  BY <1>4 DEF AwaitReturns
<1>5. CASE AwaitLast
  BY <1>5 DEF AwaitLast, Leaves
<1>6. CASE Take
  BY <1>6 DEF Take
<1>7. CASE Destroy
  BY <1>7 DEF Destroy, Leaves
<1>8. CASE ConsumerHop
  BY <1>8 DEF ConsumerHop, Leaves
<1>9. CASE ConsumerLand
  BY <1>9 DEF ConsumerLand
<1>10. CASE Yield
  BY <1>10 DEF Yield
<1>11. CASE Finish
  BY <1>11 DEF Finish
<1>12. CASE InternalYieldValue
  BY <1>12 DEF InternalYieldValue, CallConsumer
<1>13. CASE YieldReturns
  BY <1>13 DEF YieldReturns
<1>14. CASE OfferValue
  BY <1>14 DEF OfferValue, CallConsumer, Suspend, Leaves
<1>15. CASE OfferReturns
  BY <1>15 DEF OfferReturns
<1>16. CASE WaitForConsumer
  BY <1>16 DEF WaitForConsumer, Suspend, Leaves
<1>17. CASE Drop
  BY <1>17 DEF Drop, Leaves
<1>18. CASE ProducerHop
  BY <1>18 DEF ProducerHop, Leaves
<1>19. CASE ProducerLand
  BY <1>19 DEF ProducerLand
<1>20. CASE UNCHANGED vars
  BY <1>20 DEF vars
<1> QED
  BY <1>1, <1>2, <1>3, <1>4, <1>5, <1>6, <1>7, <1>8, <1>9, <1>10, <1>11, <1>12, <1>13, <1>14, <1>15, <1>16, <1>17, <1>18, <1>19, <1>20
  DEF Next, Consume, Produce

-----------------------------------------------------------------------------
(* The invariant of the five states, for any number of values.             *)
THEOREM GeneratorInvariance == Spec => []IInv
<1>1. IInv /\ [Next]_vars => IInv'
  BY TypeOKStep, StateShapeStep, CountShapeStep DEF IInv
<1> QED BY InitEstablishesIInv, <1>1, PTL DEF Spec

(* Every variable keeps its type, and the counts their bounds.             *)
THEOREM GeneratorTypes == Spec => []TypeOK
<1>1. IInv => TypeOK BY DEF IInv
<1> QED BY GeneratorInvariance, <1>1, PTL

(* The assertions of request_cancellation, internal_yield_value and the    *)
(* two await_suspend hold.                                                 *)
THEOREM GeneratorAssertions == Spec => []Assertions
<1>1. IInv => Assertions
  BY DEF IInv, TypeOK, StateShape, Answering, Offering, Delivered, States, Assertions
<1> QED BY GeneratorInvariance, <1>1, PTL

(* operator* refers to an object of the producer's frame: the producer     *)
(* stays at its co_yield while the consumer has the value.                 *)
THEOREM GeneratorValueStable == Spec => []ValueStable
<1>1. IInv => ValueStable
  BY GeneratorAssumption
     DEF IInv, TypeOK, StateShape, CountShape, Answering, Offering, Delivered, Asking, States,
         Finished, ValueStable
<1> QED BY GeneratorInvariance, <1>1, PTL

(* ~async_generator destroys a suspended producer; an active one destroys  *)
(* itself, after ~async_generator.                                         *)
THEOREM GeneratorFrameEndsOnce == Spec => FrameEndsOnce
<1> DEFINE Ends == producer' = "gone" /\ producer # "gone" =>
                     \/ producer = "suspended" /\ consumer \in {"body", "await"}
                     \/ producer \in {"offer", "drop"} /\ consumer = "done"
<1>1. ASSUME IInv, Next PROVE Ends
  <2>1. CASE Destroy
    BY <1>1, <2>1 DEF Destroy, IInv, StateShape, Answering, Offering, Delivered
  <2>2. CASE Drop
    BY <1>1, <2>2 DEF Drop, IInv, TypeOK, States, StateShape, Answering, Offering, Delivered
  <2>3. CASE Consume \/ Advance
    BY <2>3
    DEF Consume, Advance, AdvanceReturns, AwaitReady, AwaitReturns, AwaitLast, Take, CallProducer
  <2>4. CASE ConsumerHop \/ ConsumerLand \/ ProducerHop \/ ProducerLand
    BY <2>4 DEF ConsumerHop, ConsumerLand, ProducerHop, ProducerLand
  <2>5. CASE Yield \/ Finish \/ InternalYieldValue \/ YieldReturns \/ OfferValue \/ OfferReturns
               \/ WaitForConsumer
    BY <2>5
    DEF Yield, Finish, InternalYieldValue, YieldReturns, OfferValue, OfferReturns,
        WaitForConsumer, CallConsumer, Suspend
  <2> QED BY <1>1, <2>1, <2>2, <2>3, <2>4, <2>5 DEF Next, Produce
<1>2. IInv /\ [Next]_vars => [Ends]_vars
  BY <1>1
<1> QED BY GeneratorInvariance, <1>2, PTL DEF Spec, FrameEndsOnce

-----------------------------------------------------------------------------
(* A step asks, answers, takes an answer, gives up, or does nothing of it. *)
LEMMA StreamStep ==
  ASSUME IInv, [Next]_vars
  PROVE  [Stream!Next]_(Stream!vars)
<1> USE GeneratorAssumption DEF IInv, TypeOK
<1>1. CASE Advance
  BY <1>1 DEF Advance, CountShape, data, Finished, Stream!Next, Stream!Ask
<1>2. CASE Yield \/ Finish
  BY <1>2 DEF Yield, Finish, CountShape, Answering, Finished, Stream!Next, Stream!Answer
<1>3. CASE Take
  BY <1>3 DEF Take, CountShape, Asking, data, Stream!Next, Stream!Take
<1>4. CASE Destroy
  BY <1>4 DEF Destroy, data, Stream!Next, Stream!Discard
<1>5. CASE AdvanceReturns \/ AwaitReady \/ AwaitReturns \/ AwaitLast \/ ConsumerHop \/ ConsumerLand
  BY <1>5
  DEF AdvanceReturns, AwaitReady, AwaitReturns, AwaitLast, ConsumerHop, ConsumerLand, data,
      Stream!vars
<1>6. CASE InternalYieldValue \/ YieldReturns \/ OfferValue \/ OfferReturns \/ WaitForConsumer
  BY <1>6
  DEF InternalYieldValue, YieldReturns, OfferValue, OfferReturns, WaitForConsumer, data, Stream!vars
<1>7. CASE Drop \/ ProducerHop \/ ProducerLand
  BY <1>7 DEF Drop, ProducerHop, ProducerLand, data, Stream!vars
<1>8. CASE UNCHANGED vars
  BY <1>8 DEF vars, data, Stream!vars
<1> QED
  BY <1>1, <1>2, <1>3, <1>4, <1>5, <1>6, <1>7, <1>8 DEF Next, Consume, Produce

(* for co_await over an async_generator receives every value that was      *)
(* yielded, once and in order, and the producer works on demand only.      *)
THEOREM GeneratorImplementsStream == Spec => StreamSpec
<1>1. Init => Stream!Init
  BY DEF Init, Stream!Init
<1>2. IInv /\ [Next]_vars => [Stream!Next]_(Stream!vars)
  BY StreamStep
<1> QED BY GeneratorInvariance, <1>1, <1>2, PTL DEF Spec, StreamSpec, Stream!Spec

=============================================================================
