----------------------------- MODULE PullStream -----------------------------
(***************************************************************************)
(* What an async_generator promises: values are produced on demand, one at *)
(* a time, and every one reaches the consumer once, in order.              *)
(***************************************************************************)
EXTENDS Naturals

CONSTANTS End,  \* what the consumer gets at the end; the values are 1, 2, ...
          None

VARIABLES
  asked,    \* how often the consumer asked
  offered,  \* how many answers the producer has made, the end included
  taken,    \* how many of them the consumer has received
  answer,   \* the latest answer
  got       \* what the consumer has in hand

vars == <<asked, offered, taken, answer, got>>

Init ==
  /\ asked = 0 /\ offered = 0 /\ taken = 0
  /\ answer = None /\ got = None

\* The consumer gives back what it has and asks for the next value.
Ask ==
  /\ asked = taken /\ got # End
  /\ asked' = asked + 1 /\ got' = None
  /\ UNCHANGED <<offered, taken, answer>>

Answer ==
  /\ offered < asked
  /\ offered' = offered + 1
  /\ answer' \in {offered + 1, End}
  /\ UNCHANGED <<asked, taken, got>>

Take ==
  /\ taken < offered
  /\ taken' = taken + 1 /\ got' = answer
  /\ UNCHANGED <<asked, offered, answer>>

Discard == got' = None /\ UNCHANGED <<asked, offered, taken, answer>>

Next == Ask \/ Answer \/ Take \/ Discard

Spec == Init /\ [][Next]_vars

=============================================================================
