----------------------------- MODULE TcpSocket -----------------------------
(***************************************************************************)
(* tcp::socket on Linux (ice/net/tcp/socket.cpp, the POSIX branch): every  *)
(* operation is a loop around a system call that looks at errno after a    *)
(* call and waits for an event of epoll when the call would block.  Module *)
(* Service shows that such an event is delivered.                          *)
(*                                                                         *)
(* A client connects, sends, shuts down and closes; a reader receives from *)
(* the same socket at the same time; a server accepts and receives until   *)
(* the end of the stream, or closes earlier.  The kernel may interrupt any *)
(* call by a signal, refuse the connection and reset it.                   *)
(***************************************************************************)
EXTENDS Operation, Integers, Sequences

CONSTANTS
  Room,        \* bytes the kernel buffers between the two ends
  MaxSignals,  \* how many calls fail with EINTR
  MaxFaults    \* how many connections are refused or reset

ASSUME SocketAssumption ==
  /\ MaxSize \in Nat /\ Room \in Nat \ {0}
  /\ MaxSignals \in Nat /\ MaxFaults \in Nat
  /\ Nil \notin {"client", "reader", "server"}

Coros == {"client", "reader", "server"}

\* What errno may be on a thread that comes to the loop of send(): nothing
\* failed before, or the last failure there was any of these.
Stale == {"0", "EINTR", "EAGAIN", "EEXIST"}

(* at[c] is "call", "errno" or "suspended" in an operation, and "returned" *)
(* outside; op[c] is also what the program of c does next.                 *)
VARIABLES
  errno,       \* errno of the thread that runs it
  ec,          \* what the last operation returned
  data,        \* send(): bytes before the pointer into the buffer; size: after it
  data_size,   \* send(): the size it was called with
  registered,  \* the epoll registration of a descriptor
  link,        \* the connection, as the kernel knows it
  pipe, got,   \* bytes in flight, and bytes that recv() gave to the server
  ended        \* who sends no more, or closed

coros  == <<op, at, errno, ec, registered>>
kernel == <<link, pipe, ended>>
buffer == <<data, size, data_size>>
socketVars   == <<coros, buffer, kernel, got, budget>>

\* The descriptor an operation uses: client and reader share one.
Fd(c) == IF c # "server" THEN "client" ELSE IF op[c] = "accept" THEN "listen" ELSE "accepted"

WouldBlock == [accept |-> "EAGAIN", connect |-> "EINPROGRESS", recv |-> "EAGAIN", send |-> "EAGAIN"]

SocketInit ==
  /\ op = [c \in Coros |-> CASE c = "client" -> "connect" [] c = "reader" -> "idle" [] OTHER -> "accept"]
  /\ at = [c \in Coros |-> IF c = "reader" THEN "returned" ELSE "call"]
  /\ errno = [c \in Coros |-> "0"]
  /\ ec = [c \in Coros |-> "0"]
  /\ data = 0 /\ size = 0 /\ data_size = 0
  /\ registered = [f \in {"client", "listen", "accepted"} |-> Nil]
  /\ link = "none" /\ pipe = <<>> /\ got = <<>> /\ ended = {}
  /\ budget = [signals |-> MaxSignals, faults |-> MaxFaults]

-----------------------------------------------------------------------------
(* The common part of the loops.                                           *)

Return(c, code) ==
  /\ at' = [at EXCEPT ![c] = "returned"]
  /\ ec' = [ec EXCEPT ![c] = code]

Fail(c, code) ==
  /\ at' = [at EXCEPT ![c] = "errno"]
  /\ errno' = [errno EXCEPT ![c] = code]
  /\ UNCHANGED <<op, ec, registered>>

\* Around the loop: only the one of send() has a condition.
Loop(c) ==
  /\ at' = [at EXCEPT ![c] = IF op[c] = "send" /\ size = 0 THEN "returned" ELSE "call"]
  /\ UNCHANGED ec

\* Faulty variant: the registration of the other direction is replaced.
AwaitEventReplacing(c) ==
  /\ registered' = [registered EXCEPT ![Fd(c)] = c]
  /\ at' = [at EXCEPT ![c] = "suspended"]
  /\ UNCHANGED ec

\* co_await event: EPOLL_CTL_ADD fails if the descriptor is registered.
AwaitEvent(c) ==
  \/ /\ registered[Fd(c)] = Nil
     /\ registered' = [registered EXCEPT ![Fd(c)] = c]
     /\ at' = [at EXCEPT ![c] = "suspended"]
     /\ UNCHANGED ec
  \/ /\ registered[Fd(c)] # Nil
     /\ Return(c, "EEXIST")
     /\ UNCHANGED registered

Errno(c) ==
  /\ at[c] = "errno"
  /\ \/ errno[c] = "EINTR" /\ Loop(c) /\ UNCHANGED registered
     \/ errno[c] = WouldBlock[op[c]] /\ AwaitEvent(c)
     \/ errno[c] \notin {"EINTR", WouldBlock[op[c]]} /\ Return(c, errno[c]) /\ UNCHANGED registered
  /\ UNCHANGED <<op, errno, buffer, kernel, got, budget>>

\* A signal arrives during the call.
Interrupted(c) ==
  /\ budget.signals > 0
  /\ budget' = [budget EXCEPT !.signals = @ - 1]
  /\ Fail(c, "EINTR")

-----------------------------------------------------------------------------
(* accept(), connect(), recv() and send() up to the value of errno.        *)

AcceptCall(c) ==
  /\ \/ /\ link = "queued" /\ link' = "up"
        /\ Return(c, "0")
        /\ UNCHANGED <<op, errno, registered, budget>>
     \/ link \notin {"queued", "reset"} /\ Fail(c, "EAGAIN") /\ UNCHANGED <<link, budget>>
     \/ link = "reset" /\ Fail(c, "ECONNABORTED") /\ UNCHANGED <<link, budget>>
     \/ Interrupted(c) /\ UNCHANGED link
  /\ UNCHANGED <<buffer, pipe, ended, got>>

\* An interrupted connect() goes on in the background.
ConnectCall(c) ==
  /\ \/ /\ link = "none" /\ link' = "queued"
        /\ Return(c, "0")
        /\ UNCHANGED <<op, errno, registered, budget>>
     \/ link = "none" /\ link' = "syn" /\ Interrupted(c)
     \/ link = "none" /\ link' = "syn" /\ Fail(c, "EINPROGRESS") /\ UNCHANGED budget
     \/ link = "syn" /\ Fail(c, "EALREADY") /\ UNCHANGED <<link, budget>>
     \/ link \in {"queued", "up"} /\ Fail(c, "EISCONN") /\ UNCHANGED <<link, budget>>
     \/ link \in {"refused", "reset"} /\ Fail(c, "ECONNREFUSED") /\ UNCHANGED <<link, budget>>
  /\ UNCHANGED <<buffer, pipe, ended, got>>

\* The end of the stream as c sees it: the peer ended it, or shutdown().
Ended(c) == IF c = "server" THEN "client" \in ended ELSE ended # {}

\* Faulty variant: the end of the stream is taken for an empty buffer.
RecvCallNoEof(c) ==
  LET from == IF c = "server" THEN pipe ELSE <<>> IN
  /\ \/ /\ link # "reset" /\ from # <<>>
        /\ \E n \in 1..Len(from) : /\ got' = got \o SubSeq(from, 1, n)
                                   /\ pipe' = SubSeq(from, n + 1, Len(from))
        /\ Return(c, "0")
        /\ UNCHANGED <<op, errno, registered, budget>>
     \/ /\ link # "reset" /\ from = <<>>
        /\ Fail(c, "EAGAIN") /\ UNCHANGED <<budget, pipe, got>>
     \/ link = "reset" /\ Fail(c, "ECONNRESET") /\ UNCHANGED <<budget, pipe, got>>
     \/ Interrupted(c) /\ UNCHANGED <<pipe, got>>
  /\ UNCHANGED <<buffer, link, ended>>

RecvCall(c) ==
  LET from == IF c = "server" THEN pipe ELSE <<>> IN
  /\ \/ /\ link # "reset" /\ from # <<>>
        /\ \E n \in 1..Len(from) : /\ got' = got \o SubSeq(from, 1, n)
                                   /\ pipe' = SubSeq(from, n + 1, Len(from))
        /\ Return(c, "0")
        /\ UNCHANGED <<op, errno, registered, budget>>
     \/ /\ link # "reset" /\ from = <<>> /\ Ended(c)
        /\ Return(c, "eof")
        /\ UNCHANGED <<op, errno, registered, budget, pipe, got>>
     \/ /\ link # "reset" /\ from = <<>> /\ ~Ended(c)
        /\ Fail(c, "EAGAIN") /\ UNCHANGED <<budget, pipe, got>>
     \/ link = "reset" /\ Fail(c, "ECONNRESET") /\ UNCHANGED <<budget, pipe, got>>
     \/ Interrupted(c) /\ UNCHANGED <<pipe, got>>
  /\ UNCHANGED <<buffer, link, ended>>

\* Faulty variant: the pointer is not advanced.
SendCallAgain(c) ==
  LET free == Room - Len(pipe) IN
  /\ \E n \in 1..(IF size < free THEN size ELSE free) :
       /\ pipe' = pipe \o [i \in 1..n |-> data + i]
       /\ size' = size - n
  /\ at' = [at EXCEPT ![c] = "errno"]
  /\ UNCHANGED <<op, errno, ec, registered, budget, data, data_size, link, ended, got>>

\* write() may take less than it is given, and leaves errno alone when it
\* succeeds.  It returns 0 for an empty buffer.
SendCall(c) ==
  LET free == Room - Len(pipe)
      broken == link = "reset" \/ "server" \in ended IN
  /\ \/ /\ ~broken
        /\ \E n \in 1..(IF size < free THEN size ELSE free) :
             /\ pipe' = pipe \o [i \in 1..n |-> data + i]
             /\ data' = data + n /\ size' = size - n
        /\ at' = [at EXCEPT ![c] = "errno"]
        /\ UNCHANGED <<op, errno, ec, registered, budget>>
     \/ /\ size = 0 /\ Return(c, "0")
        /\ UNCHANGED <<op, errno, registered, budget, data, size, pipe>>
     \/ ~broken /\ size > 0 /\ free = 0 /\ Fail(c, "EAGAIN") /\ UNCHANGED <<budget, data, size, pipe>>
     \/ broken /\ Fail(c, "EPIPE") /\ UNCHANGED <<budget, data, size, pipe>>
     \/ Interrupted(c) /\ UNCHANGED <<data, size, pipe>>
  /\ UNCHANGED <<data_size, link, ended, got>>

Accept(c)  == op[c] = "accept"  /\ ((at[c] = "call" /\ AcceptCall(c)) \/ Errno(c))
Connect(c) == op[c] = "connect" /\ ((at[c] = "call" /\ ConnectCall(c)) \/ Errno(c))
Recv(c)    == op[c] = "recv"    /\ ((at[c] = "call" /\ RecvCall(c)) \/ Errno(c))
Send(c)    == op[c] = "send"    /\ ((at[c] = "call" /\ SendCall(c)) \/ Errno(c))

-----------------------------------------------------------------------------
(* Events.                                                                 *)

Ready(c) ==
  CASE op[c] = "accept"  -> link \in {"queued", "reset"}
    [] op[c] = "connect" -> link # "syn"
    [] op[c] = "recv"    -> link = "reset" \/ Ended(c) \/ (c = "server" /\ pipe # <<>>)
    [] op[c] = "send"    -> link = "reset" \/ "server" \in ended \/ Len(pipe) < Room

\* Faulty variant: SO_ERROR is not read.
NoSocketError == "0"

\* getsockopt(SO_ERROR) after the event of connect().
SocketError == IF link \in {"refused", "reset"} THEN "ECONNREFUSED" ELSE "0"

\* event::resume(), on a thread whose errno is what others left.
Resume(c) ==
  /\ at[c] = "suspended" /\ Ready(c)
  /\ registered' = [registered EXCEPT ![Fd(c)] = Nil]
  /\ \E e \in IF op[c] = "send" THEN Stale ELSE {"0"} : errno' = [errno EXCEPT ![c] = e]
  /\ IF op[c] = "connect" THEN Return(c, SocketError) ELSE Loop(c)
  /\ UNCHANGED <<op, buffer, kernel, got, budget>>

-----------------------------------------------------------------------------
(* The programs, and the kernel.                                           *)

Begin(c, o, e) ==
  /\ op' = [op EXCEPT ![c] = o] /\ at' = [at EXCEPT ![c] = "call"]
  /\ errno' = [errno EXCEPT ![c] = e] /\ ec' = [ec EXCEPT ![c] = "0"]
  /\ UNCHANGED <<registered, kernel, got, budget>>

BeginSend ==
  /\ op["client"] = "connect" /\ at["client"] = "returned" /\ ec["client"] = "0"
  /\ \E n \in 0..MaxSize, e \in Stale : Begin("client", "send", e) /\ size' = n /\ data_size' = n
  /\ UNCHANGED data

BeginRecv(c) ==
  /\ at[c] = "returned" /\ ec[c] = "0"
  /\ \/ c = "reader" /\ op[c] = "idle" /\ op["client"] = "send"
     \/ c = "server" /\ op[c] \in {"accept", "recv"}
  /\ Begin(c, "recv", "0")
  /\ UNCHANGED buffer

\* socket::shutdown(both) of the client, which ends the recv() of the reader.
Shutdown ==
  /\ op["client"] = "send" /\ at["client"] = "returned"
  /\ op' = [op EXCEPT !["client"] = "close"]
  /\ ended' = ended \cup {"client"}
  /\ UNCHANGED <<at, errno, ec, registered, buffer, link, pipe, got, budget>>

\* socket::close(): the descriptor is gone from epoll as well.  A close()
\* that a signal interrupts has freed it; the call after it finds none.
Close(c) ==
  /\ at[c] = "returned" /\ op[c] # "closed"
  /\ \/ c = "server" /\ (op[c] # "accept" \/ ec[c] # "0")
     \/ c = "client" /\ op[c] = "close" /\ at["reader"] = "returned"
     \/ c = "client" /\ op[c] = "connect" /\ ec[c] # "0"
  /\ op' = [op EXCEPT ![c] = "closed"]
  /\ ended' = ended \cup {c}
  /\ UNCHANGED <<at, errno, ec, registered, buffer, link, pipe, got, budget>>

Program(c) == BeginRecv(c) \/ Close(c) \/ (c = "client" /\ (BeginSend \/ Shutdown))

Establish == link = "syn" /\ link' = "queued" /\ UNCHANGED <<coros, buffer, pipe, ended, got, budget>>

\* Refused, or reset: what was in flight is lost.
Fault ==
  /\ budget.faults > 0
  /\ budget' = [budget EXCEPT !.faults = @ - 1]
  /\ \/ link = "syn" /\ link' = "refused"
     \/ link \in {"queued", "up"} /\ link' = "reset"
  /\ pipe' = <<>>
  /\ UNCHANGED <<coros, buffer, ended, got>>

Step(c) == Accept(c) \/ Connect(c) \/ Recv(c) \/ Send(c) \/ Resume(c)

SocketNext == Establish \/ Fault \/ \E c \in Coros : Step(c) \/ Program(c)

(* Threads run, events are delivered, a handshake that is not refused      *)
(* ends, and the programs go on.  No connection need be refused or reset.  *)
SocketFairness ==
  /\ WF_socketVars(Establish)
  /\ \A c \in Coros : WF_socketVars(Step(c)) /\ WF_socketVars(Program(c))

SocketSpec == SocketInit /\ [][SocketNext]_socketVars /\ SocketFairness

-----------------------------------------------------------------------------
(* Properties                                                              *)

(* However the writes are cut, repeated and interrupted, the server gets   *)
(* the bytes of the buffer once and in order, and the count that send()    *)
(* returns, data_size - size, is what the kernel took from it.             *)
StreamIntact ==
  LET bytes == got \o pipe IN
  /\ bytes = [i \in 1..Len(bytes) |-> i]
  /\ link # "reset" => Len(bytes) = data_size - size
  /\ Len(bytes) <= data_size - size

(* connect() returns success for an established connection only, and an    *)
(* error for a connection that goes on only if a signal interrupted it.    *)
ConnectTells == op["client"] = "connect" /\ at["client"] = "returned" =>
  /\ ec["client"] = "0" => link \in {"queued", "up", "reset"}
  /\ ec["client"] # "0" => link \in {"refused", "reset"} \/ budget.signals < MaxSignals

(* epoll leads to the coroutine that waits, and a coroutine that waits is  *)
(* in epoll, although reader and client wait for the same descriptor.      *)
Registered == \A c \in Coros : at[c] = "suspended" <=> registered[Fd(c)] = c

(* Every operation returns, accept() if there is a connection to accept:   *)
(* signals, short writes and what errno happened to be do not stop it, and *)
(* no connection has to be reset for it.                                   *)
Finishes == \A c \in Coros :
  (at[c] # "returned" /\ (op[c] = "accept" => link \in {"queued", "up"})) ~> at[c] = "returned"

=============================================================================
