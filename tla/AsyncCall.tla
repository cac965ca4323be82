----------------------------- MODULE AsyncCall -----------------------------
(***************************************************************************)
(* What async<T> promises: co_await f() is a call.  The caller goes on     *)
(* once, after the callee has returned, whatever threads they run on, and  *)
(* nobody runs in a frame that is gone.                                    *)
(***************************************************************************)
CONSTANTS Coros, Nobody

VARIABLES
  state,   \* state[c]: "none", "created", "active", "waiting", "done" or "gone"
  caller   \* caller[c]: who called c, or Nobody

vars == <<state, caller>>

Init ==
  /\ state = [c \in Coros |-> "none"]
  /\ caller = [c \in Coros |-> Nobody]

Becomes(c, from, to) == state[c] = from /\ state' = [state EXCEPT ![c] = to]

\* Called by code that is not a coroutine, which is called back at the end.
Start(c)  == Becomes(c, "none", "active") /\ UNCHANGED caller
Return(c) == Becomes(c, "active", "done") /\ UNCHANGED caller

Create(w, c) ==
  /\ state[w] = "active"
  /\ Becomes(c, "none", "created")
  /\ caller' = [caller EXCEPT ![c] = w]

Call(w, c) ==
  /\ state[w] = "active" /\ state[c] = "created" /\ caller[c] = w
  /\ state' = [state EXCEPT ![w] = "waiting", ![c] = "active"]
  /\ UNCHANGED caller

GoOn(w, c) ==
  /\ state[c] = "done" /\ caller[c] = w
  /\ Becomes(w, "waiting", "active")
  /\ UNCHANGED caller

Discard(c) ==
  /\ caller[c] # Nobody => state[caller[c]] = "active"
  /\ Becomes(c, "created", "gone") \/ Becomes(c, "done", "gone")
  /\ UNCHANGED caller

Next == \E c \in Coros :
  \/ Start(c) \/ Return(c) \/ Discard(c)
  \/ \E w \in Coros : Create(w, c) \/ Call(w, c) \/ GoOn(w, c)

Spec == Init /\ [][Next]_vars

=============================================================================
