----------------------------- MODULE SshSession -----------------------------
(***************************************************************************)
(* ssh::session (ssh/src/ice/net/ssh/session.cpp) on Linux: libssh2 in     *)
(* non-blocking mode.  An operation calls a function of libssh2 until it   *)
(* returns something else than EAGAIN and waits for the socket in io().    *)
(* libssh2 reads and writes the socket by the callbacks on_recv() and      *)
(* on_send(), which note in operation_ what they could not do.             *)
(*                                                                         *)
(* Two coroutines of one service thread use a session: a user connects,    *)
(* authenticates, asks for a shell, sends and disconnects, and a reader    *)
(* receives at the same time.  What libssh2 does with a call is a list of  *)
(* packets to send and replies to receive.                                 *)
(***************************************************************************)
EXTENDS Operation, Integers, Sequences

CONSTANTS
  OutboxRoom,   \* packets that the socket takes before it would block
  MaxConnects,  \* calls of connect()
  MaxData,      \* what the server sends on its own
  MaxErrors     \* requests that the server refuses, or connections that end

ASSUME SessionAssumption ==
  /\ Nil \notin {"user", "reader"}
  /\ OutboxRoom \in Nat \ {0} /\ {MaxConnects, MaxSize, MaxData, MaxErrors} \subseteq Nat

Users == {"user", "reader"}

(* at[c] is "call", "io" or "suspended" in an operation, and "returned"    *)
(* outside; size counts packets.                                           *)

\* What a function of libssh2 does with the connection.
Steps == [handshake |-> <<"send", "recv">>, userauth |-> <<"send", "recv">>,
          open |-> <<"send", "recv">>, request |-> <<"send", "recv">>,
          write |-> <<"send">>, read |-> <<"recv">>, close |-> <<"send">>, bye |-> <<"send">>]

Replies == {"handshake", "userauth", "open", "request"}
Packets == Replies \cup {"data"}

VARIABLES
  socket_, session_, channel_,  \* the handles: do they hold something?
  operation_,                   \* what the callbacks could not do
  call, steps,                  \* the function of libssh2, and what it still has to do
  failed,                       \* did the operation fail?
  waiter,                       \* who waits for the descriptor in epoll
  running,                      \* who has the thread of the service
  connection,                   \* the connection: "down" or "up"
  inbox, outbox,                \* packets in the socket, both ways
  packets                       \* packets that libssh2 has read and nobody asked for yet

handles == <<socket_, session_, channel_>>
users   == <<op, call, steps, at, failed, size>>
network == <<connection, inbox, outbox>>
sessionVars == <<handles, operation_, users, waiter, running, network, packets, budget>>

NoPackets == [p \in Packets |-> 0]

SessionInit ==
  /\ socket_ = FALSE /\ session_ = FALSE /\ channel_ = FALSE
  /\ operation_ = "none"
  /\ op = [c \in Users |-> "none"] /\ call = [c \in Users |-> "none"]
  /\ steps = [c \in Users |-> <<>>]
  /\ at = [c \in Users |-> "returned"] /\ failed = [c \in Users |-> FALSE]
  /\ size = 0
  /\ waiter = Nil /\ running = Nil
  /\ connection = "down" /\ inbox = <<>> /\ outbox = <<>>
  /\ packets = NoPackets
  /\ budget = [connects |-> MaxConnects, data |-> MaxData, errors |-> MaxErrors]

-----------------------------------------------------------------------------
Calls(c, f) ==
  /\ call' = [call EXCEPT ![c] = f] /\ steps' = [steps EXCEPT ![c] = Steps[f]]

\* The thread is taken from a coroutine that suspends or returns to nobody.
Leave(c, fails) ==
  /\ at' = [at EXCEPT ![c] = "returned"] /\ failed' = [failed EXCEPT ![c] = fails]
  /\ running' = Nil

Start(c, o, f) ==
  /\ running = Nil /\ running' = c
  /\ op' = [op EXCEPT ![c] = o] /\ at' = [at EXCEPT ![c] = "call"]
  /\ failed' = [failed EXCEPT ![c] = FALSE]
  /\ Calls(c, f)

\* What the reader waits for is a packet of data, anyone else a reply.
Wanted(c) == IF call[c] = "read" THEN "data" ELSE call[c]

\* Faulty variant: the callbacks forget to say what they could not do.
AgainSilently(c) ==
  /\ at' = [at EXCEPT ![c] = "io"]
  /\ UNCHANGED operation_

\* The callback returns -EAGAIN, libssh2 EAGAIN, and the loop awaits io().
Again(c) ==
  /\ operation_' = Head(steps[c])
  /\ at' = [at EXCEPT ![c] = "io"]

\* Faulty variant: connect() leaves what it made to the next close().
FailCallOnly(c) ==
  /\ Leave(c, TRUE)
  /\ UNCHANGED <<handles, op, call, steps, size>>

\* loop() and its relatives return an error; only connect() cleans up.
FailCall(c) ==
  /\ Leave(c, TRUE)
  /\ IF op[c] = "connect" THEN session_' = FALSE /\ socket_' = FALSE ELSE UNCHANGED <<session_, socket_>>
  /\ UNCHANGED <<channel_, op, call, steps, size>>

\* on_send() when libssh2 has a packet to write.
OnSend(c) ==
  /\ steps[c] # <<>> /\ Head(steps[c]) = "send"
  /\ \/ /\ connection = "up" /\ Len(outbox) < OutboxRoom
        /\ outbox' = Append(outbox, call[c])
        /\ steps' = [steps EXCEPT ![c] = Tail(@)]
        /\ UNCHANGED <<handles, operation_, op, call, at, failed, size, running>>
     \/ /\ connection = "up" /\ Len(outbox) = OutboxRoom
        /\ Again(c)
        /\ UNCHANGED <<handles, op, call, steps, failed, size, running, outbox>>
     \/ /\ connection = "down" /\ operation_' = "send"
        /\ FailCall(c)
        /\ UNCHANGED outbox
  /\ UNCHANGED <<waiter, connection, inbox, packets, budget>>

\* libssh2 looks at what it has read already, then calls on_recv(); it takes
\* any packet off the socket, whoever it is for.  The end of the connection
\* is an error or a read of nothing, which notes nothing.
OnRecv(c) ==
  /\ steps[c] # <<>> /\ Head(steps[c]) = "recv"
  /\ \/ /\ packets[Wanted(c)] > 0
        /\ packets' = [packets EXCEPT ![Wanted(c)] = @ - 1]
        /\ steps' = [steps EXCEPT ![c] = Tail(@)]
        /\ UNCHANGED <<handles, operation_, op, call, at, failed, size, running, inbox>>
     \/ /\ packets[Wanted(c)] = 0 /\ inbox # <<>>
        /\ packets' = [packets EXCEPT ![Head(inbox)] = @ + 1]
        /\ inbox' = Tail(inbox)
        /\ UNCHANGED <<handles, operation_, users, running>>
     \/ /\ packets[Wanted(c)] = 0 /\ inbox = <<>> /\ connection = "up"
        /\ Again(c)
        /\ UNCHANGED <<handles, op, call, steps, failed, size, running, packets, inbox>>
     \/ /\ packets[Wanted(c)] = 0 /\ inbox = <<>> /\ connection = "down"
        /\ operation_' \in {operation_, "recv"}
        /\ FailCall(c)
        /\ UNCHANGED <<packets, inbox>>
  /\ UNCHANGED <<waiter, connection, outbox, budget>>

\* The server refuses.
Refused(c) ==
  /\ steps[c] = <<>> /\ call[c] \in Replies /\ budget.errors > 0
  /\ budget' = [budget EXCEPT !.errors = @ - 1]
  /\ FailCall(c)
  /\ UNCHANGED <<operation_, waiter, network, packets>>

-----------------------------------------------------------------------------
(* What follows a call that returned LIBSSH2_ERROR_NONE.                   *)

\* connect(), request_pty(), open_shell(), exec() and recv() are done.
CallReturns(c) ==
  /\ call[c] \in {"handshake", "request", "read"}
  /\ Leave(c, FALSE)
  /\ UNCHANGED <<handles, op, call, steps, size>>

\* authenticate() opens the channel when the user is known.
Authenticated(c) ==
  \/ /\ call[c] = "userauth" /\ Calls(c, "open")
     /\ UNCHANGED <<handles, op, at, failed, size, running>>
  \/ /\ call[c] = "open" /\ channel_' = TRUE
     /\ Leave(c, FALSE)
     /\ UNCHANGED <<socket_, session_, op, call, steps, size>>


Written(c) ==
  /\ call[c] = "write"
  /\ \/ /\ size > 1 /\ size' = size - 1 /\ Calls(c, "write")
        /\ UNCHANGED <<at, failed, running>>
     \/ /\ size <= 1 /\ size' = 0 /\ Leave(c, FALSE)
        /\ UNCHANGED <<call, steps>>
  /\ UNCHANGED <<handles, op>>

\* disconnect() runs off its end without a co_return: any result.
Disconnected(c) ==
  \/ /\ call[c] = "close" /\ channel_' = FALSE /\ Calls(c, "bye")
     /\ UNCHANGED <<socket_, session_, op, at, failed, size, running>>
  \/ /\ call[c] = "bye" /\ session_' = FALSE /\ socket_' = FALSE
     /\ \E fails \in BOOLEAN : Leave(c, fails)
     /\ UNCHANGED <<channel_, op, call, steps, size>>

Succeeded(c) ==
  /\ steps[c] = <<>>
  /\ CallReturns(c) \/ Authenticated(c) \/ Written(c) \/ Disconnected(c)
  /\ UNCHANGED <<operation_, waiter, network, packets, budget>>

-----------------------------------------------------------------------------
(* io(): the event is for input, whatever operation_ is; without one, or   *)
(* if another coroutine has registered the descriptor, io() returns an     *)
(* error at once, which the loops ignore.                                  *)
Io(c) ==
  /\ at[c] = "io"
  /\ \/ /\ operation_ # "none" /\ waiter = Nil
        /\ waiter' = c /\ running' = Nil
        /\ at' = [at EXCEPT ![c] = "suspended"]
     \/ /\ operation_ = "none" \/ waiter # Nil
        /\ at' = [at EXCEPT ![c] = "call"]
        /\ UNCHANGED <<waiter, running>>
  /\ UNCHANGED <<handles, operation_, op, call, steps, failed, size, network, packets, budget>>

SessionResume(c) ==
  /\ at[c] = "suspended" /\ running = Nil
  /\ inbox # <<>> \/ connection = "down"
  /\ waiter' = Nil /\ running' = c
  /\ at' = [at EXCEPT ![c] = "call"]
  /\ UNCHANGED <<handles, operation_, op, call, steps, failed, size, network, packets, budget>>

SessionRun(c) ==
  \/ running = c /\ at[c] = "call" /\ (OnSend(c) \/ OnRecv(c) \/ Refused(c) \/ Succeeded(c))
  \/ Io(c)
  \/ SessionResume(c)

-----------------------------------------------------------------------------
(* The programs: connect() and disconnect() are not called while the       *)
(* reader receives.                                                        *)

Alone == running = Nil /\ \A c \in Users : at[c] = "returned"

\* connect() begins with close(); the connection is made, or not.
SessionConnect ==
  /\ Alone /\ budget.connects > 0
  /\ budget' = [budget EXCEPT !.connects = @ - 1]
  /\ channel_' = FALSE /\ packets' = NoPackets /\ inbox' = <<>> /\ outbox' = <<>>
  /\ \/ /\ Start("user", "connect", "handshake")
        /\ socket_' = TRUE /\ session_' = TRUE /\ connection' = "up"
     \/ /\ Leave("user", TRUE) /\ op' = [op EXCEPT !["user"] = "connect"]
        /\ socket_' = FALSE /\ session_' = FALSE /\ connection' = "down"
        /\ UNCHANGED <<call, steps>>
  /\ UNCHANGED <<operation_, size, waiter>>

Authenticate ==
  /\ at["user"] = "returned" /\ op["user"] = "connect" /\ ~failed["user"]
  /\ Start("user", "authenticate", "userauth")
  /\ UNCHANGED <<handles, operation_, size, waiter, network, packets, budget>>

\* request_pty(), open_shell() and exec() do the same.
Request ==
  /\ at["user"] = "returned" /\ op["user"] = "authenticate" /\ ~failed["user"]
  /\ Start("user", "request", "request")
  /\ UNCHANGED <<handles, operation_, size, waiter, network, packets, budget>>

SessionSend ==
  /\ at["user"] = "returned" /\ op["user"] = "request" /\ ~failed["user"]
  /\ \E n \in 1..MaxSize : size' = n
  /\ Start("user", "send", "write")
  /\ UNCHANGED <<handles, operation_, waiter, network, packets, budget>>

SessionRecv ==
  /\ at["reader"] = "returned" /\ ~failed["reader"] /\ channel_
  /\ op["user"] \in {"request", "send"} /\ (op["user"] = "request" => at["user"] = "returned")
  /\ Start("reader", "recv", "read")
  /\ UNCHANGED <<handles, operation_, size, waiter, network, packets, budget>>

\* disconnect(), as far as there is something to end.
Disconnect ==
  /\ Alone /\ op["user"] # "disconnect"
  /\ \/ channel_ /\ Start("user", "disconnect", "close")
     \/ ~channel_ /\ session_ /\ Start("user", "disconnect", "bye")
  /\ UNCHANGED <<handles, operation_, size, waiter, network, packets, budget>>

\* close(), by the user or by the destructor.
SessionClose ==
  /\ Alone /\ socket_
  /\ socket_' = FALSE /\ session_' = FALSE /\ channel_' = FALSE
  /\ op' = [op EXCEPT !["user"] = "close"]
  /\ UNCHANGED <<operation_, call, steps, at, failed, size, waiter, running, network, packets, budget>>

SessionProgram == SessionConnect \/ Authenticate \/ Request \/ SessionSend \/ SessionRecv \/ Disconnect \/ SessionClose

(* The server reads what it is sent and answers requests.  It may send     *)
(* data when it likes, and the connection may end.                         *)
ServerReads ==
  /\ connection = "up" /\ outbox # <<>>
  /\ outbox' = Tail(outbox)
  /\ inbox' = IF Head(outbox) \in Replies THEN Append(inbox, Head(outbox)) ELSE inbox
  /\ UNCHANGED <<handles, operation_, users, waiter, running, connection, packets, budget>>

ServerTalks ==
  /\ connection = "up" /\ channel_ /\ budget.data > 0
  /\ budget' = [budget EXCEPT !.data = @ - 1]
  /\ inbox' = Append(inbox, "data")
  /\ UNCHANGED <<handles, operation_, users, waiter, running, connection, outbox, packets>>

ConnectionEnds ==
  /\ connection = "up" /\ budget.errors > 0
  /\ budget' = [budget EXCEPT !.errors = @ - 1]
  /\ connection' = "down"
  /\ UNCHANGED <<handles, operation_, users, waiter, running, inbox, outbox, packets>>

SessionNext == SessionProgram \/ ServerReads \/ ServerTalks \/ ConnectionEnds \/ \E c \in Users : SessionRun(c)

(* The thread runs, events are delivered and the server reads.             *)
SessionFairness == WF_sessionVars(ServerReads) /\ \A c \in Users : WF_sessionVars(SessionRun(c))

SessionSpec == SessionInit /\ [][SessionNext]_sessionVars /\ SessionFairness

-----------------------------------------------------------------------------
(* Properties                                                              *)

(* A channel has a session and a session a socket, also after an operation *)
(* that failed half way; whoever is in a call of libssh2 finds them there, *)
(* and a failed connect() leaves nothing behind.                           *)
Ownership ==
  /\ channel_ => session_
  /\ session_ <=> socket_
  /\ \A c \in Users : at[c] # "returned" =>
       session_ /\ (call[c] \in {"request", "write", "read", "close"} => channel_)
  /\ (op["user"] = "connect" /\ at["user"] = "returned" /\ failed["user"]) => ~session_

(* io() is only awaited after a callback has said why, and on one thread   *)
(* what it said is what this coroutine could not do, not the other one.    *)
IoHasDirection == \A c \in Users : at[c] = "io" =>
  steps[c] # <<>> /\ operation_ = Head(steps[c]) /\ running = c

(* An operation that does not return waits for input while the server is  *)
(* silent, be it to send, or finds the descriptor taken for ever by the    *)
(* other coroutine; nothing else stops it, and what it waits for has not   *)
(* been read already.                                                      *)
Silence(c) ==
  /\ connection = "up" /\ inbox = <<>>
  /\ Head(steps[c]) = "recv" => packets[Wanted(c)] = 0


=============================================================================
