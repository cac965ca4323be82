-------------------------------- MODULE NetProofs ---------------------------
(* What is proved of the components of the network: the POSIX tcp socket,  *)
(* the event of the overlapped operations on Windows, the session of       *)
(* libssh2 and the parser of a stream, each for every value of its         *)
(* constants and each from an inductive invariant of its own.              *)
EXTENDS TcpSocket, Overlapped, SshSession, Parser,
        FiniteSetTheorems, SequenceTheorems, WellFoundedInduction, TLAPS

-----------------------------------------------------------------------------
(* tcp::socket: the stream, the answer of connect() and the registrations  *)
(* in epoll, for any size of the buffers and any number of signals and     *)
(* faults.                                                                 *)

Files == {"client", "listen", "accepted"}

Codes == {"0", "EINTR", "EAGAIN", "EINPROGRESS", "EEXIST", "EALREADY", "EISCONN",
          "ECONNREFUSED", "ECONNRESET", "ECONNABORTED", "EPIPE", "eof"}

Connected == {"queued", "up", "reset"}

(* Every variable has its type, and every coroutine its own operations.    *)
SocketTypes ==
  /\ op \in [Coros -> {"idle", "connect", "send", "close", "closed", "accept", "recv"}]
  /\ op["client"] \in {"connect", "send", "close", "closed"}
  /\ op["reader"] \in {"idle", "recv"}
  /\ op["server"] \in {"accept", "recv", "closed"}
  /\ at \in [Coros -> {"call", "errno", "suspended", "returned"}]
  /\ errno \in [Coros -> Codes] /\ ec \in [Coros -> Codes]
  /\ registered \in [Files -> Coros \cup {Nil}]
  /\ data \in Nat /\ size \in Nat /\ data_size \in Nat
  /\ link \in {"none", "syn", "refused"} \cup Connected
  /\ pipe \in Seq(Nat) /\ got \in Seq(Nat)
  /\ ended \in SUBSET Coros
  /\ budget \in [signals : 0..MaxSignals, faults : Nat]

(* send() knows what it has sent, and before there is a connection nothing *)
(* was sent.                                                               *)
SendShape ==
  /\ data + size = data_size
  /\ link \notin Connected \/ op["client"] = "connect" => data_size = 0

(* Where connect() can be, and what it knows there.  An interrupted call   *)
(* has used a signal, and only such a call is made again.                  *)
ConnectShape ==
  /\ op["client"] \in {"send", "close"} => link \in Connected
  /\ op["reader"] = "idle" => at["reader"] = "returned"
  /\ op["client"] = "connect" =>
       /\ op["reader"] = "idle"
       /\ at["client"] = "call" => link = "none" \/ budget.signals < MaxSignals
       /\ at["client"] = "errno" =>
            \/ errno["client"] \in {"EINTR", "EALREADY", "EISCONN"} /\ budget.signals < MaxSignals
            \/ errno["client"] = "ECONNREFUSED" /\ link \in {"refused", "reset"}
            \/ errno["client"] = "EINPROGRESS" /\ link # "none"
       /\ at["client"] = "suspended" => link # "none"

(* A registration leads to the coroutine that waits for this descriptor.   *)
RegisteredShape == \A f \in Files : registered[f] # Nil =>
  at[registered[f]] = "suspended" /\ Fd(registered[f]) = f

SocketInv == SocketTypes /\ SendShape /\ ConnectShape /\ RegisteredShape
        /\ StreamIntact /\ ConnectTells /\ Registered

-----------------------------------------------------------------------------
(* A signal or a fault of the budget is used.                              *)
LEMMA BudgetSpent ==
  ASSUME NEW b \in [signals : 0..MaxSignals, faults : Nat]
  PROVE  /\ b.signals > 0 => [b EXCEPT !.signals = @ - 1] \in [signals : 0..MaxSignals, faults : Nat]
         /\ b.faults > 0 => [b EXCEPT !.faults = @ - 1] \in [signals : 0..MaxSignals, faults : Nat]
<1>1. b.signals \in 0..MaxSignals /\ b.faults \in Nat /\ MaxSignals \in Nat
  BY SocketAssumption
<1>2. /\ b.signals > 0 => b.signals - 1 \in 0..MaxSignals
      /\ b.faults > 0 => b.faults - 1 \in Nat
  BY <1>1
<1> QED
  BY <1>1, <1>2

(* A read moves a part of the pipe to the reader and changes no byte.      *)
LEMMA Reading ==
  ASSUME NEW g \in Seq(Nat), NEW p \in Seq(Nat), NEW n \in 1..Len(p)
  PROVE  /\ g \o SubSeq(p, 1, n) \in Seq(Nat)
         /\ SubSeq(p, n + 1, Len(p)) \in Seq(Nat)
         /\ (g \o SubSeq(p, 1, n)) \o SubSeq(p, n + 1, Len(p)) = g \o p
<1> DEFINE a == SubSeq(p, 1, n)
           b == SubSeq(p, n + 1, Len(p))
<1>1. a \in Seq(Nat) /\ Len(a) = n
  OBVIOUS
<1>2. b \in Seq(Nat) /\ Len(b) = Len(p) - n
  OBVIOUS
<1>3. a \o b = p
  BY <1>1, <1>2
<1> HIDE DEF a, b
<1>4. g \o a \in Seq(Nat)
  BY <1>1
<1>5. (g \o a) \o b = g \o (a \o b)
  <2>1. g \o (a \o b) \in Seq(Nat) /\ (g \o a) \o b \in Seq(Nat)
    BY <1>1, <1>2
  <2>2. Len(g \o (a \o b)) = Len((g \o a) \o b)
    BY <1>1, <1>2
  <2>3. ASSUME NEW i \in 1..Len((g \o a) \o b)
        PROVE  ((g \o a) \o b)[i] = (g \o (a \o b))[i]
    BY <1>1, <1>2
  <2> QED
    BY <2>1, <2>2, <2>3, SeqEqual
<1> QED
  BY <1>2, <1>3, <1>4, <1>5 DEF a, b

\* The n bytes of the buffer that follow the first d.
Bytes(d, n) == [i \in 1..n |-> d + i]

(* A write appends the bytes that follow.                                  *)
LEMMA Writing ==
  ASSUME NEW g \in Seq(Nat), NEW p \in Seq(Nat), NEW d \in Nat, NEW n \in Nat
  PROVE  /\ p \o Bytes(d, n) \in Seq(Nat)
         /\ Len(g \o (p \o Bytes(d, n))) = Len(g \o p) + n
         /\ g \o p = Bytes(0, d) => g \o (p \o Bytes(d, n)) = Bytes(0, d + n)
<1> DEFINE w == Bytes(d, n)
           q == p \o w
<1>1. w \in Seq(Nat) /\ Len(w) = n
  BY DEF Bytes
<1> HIDE DEF w
<1>2. q \in Seq(Nat) /\ Len(q) = Len(p) + n
  <2>1. q \in Seq(Nat)
    BY <1>1
  <2>2. Len(q) = Len(p) + Len(w)
    BY <1>1, ConcatProperties
  <2> QED
    BY <1>1, <2>1, <2>2
<1>3. g \o q \in Seq(Nat) /\ Len(g \o q) = Len(g \o p) + n
  <2> HIDE DEF q
  <2>1. g \o q \in Seq(Nat)
    BY <1>2
  <2>2. Len(g \o q) = Len(g) + Len(q) /\ Len(g \o p) = Len(g) + Len(p)
    BY <1>2, ConcatProperties
  <2> QED
    BY <1>2, <2>1, <2>2
<1>4. ASSUME g \o p = Bytes(0, d) PROVE g \o q = Bytes(0, d + n)
  <2>1. Len(g) + Len(p) = d
    BY <1>4 DEF Bytes
  <2>2. ASSUME NEW i \in 1..d + n PROVE (g \o q)[i] = i
    <3>1. CASE i \in 1..d
      <4>1. (g \o q)[i] = (g \o p)[i]
        BY <3>1, <2>1, <1>1, <1>2
      <4> QED
        BY <4>1, <3>1, <1>4 DEF Bytes
    <3>2. CASE i \notin 1..d
      <4>1. (g \o q)[i] = q[i - Len(g)]
        BY <3>2, <2>1, <1>2
      <4>2. q[i - Len(g)] = w[(i - Len(g)) - Len(p)]
        BY <3>2, <2>1, <1>1, <1>2
      <4>3. w[i - d] = i
        BY <3>2 DEF w, Bytes
      <4>4. (i - Len(g)) - Len(p) = i - d
        BY <2>1
      <4> QED
        BY <2>1, <4>1, <4>2, <4>3, <4>4
    <3> QED
      BY <3>1, <3>2
  <2>3. g \o q \in Seq(Nat) /\ Len(g \o q) = d + n
    BY <2>1, <1>3, ConcatProperties
  <2>4. Bytes(0, d + n) \in Seq(Nat) /\ Len(Bytes(0, d + n)) = d + n
    BY DEF Bytes
  <2>5. \A i \in 1..Len(g \o q) : (g \o q)[i] = Bytes(0, d + n)[i]
    BY <2>2, <2>3 DEF Bytes
  <2> HIDE DEF q
  <2> QED
    BY <2>3, <2>4, <2>5, SeqEqual
<1> QED
  BY <1>2, <1>3, <1>4 DEF w

(* Before the first operation nothing is registered or sent.               *)
LEMMA InitEstablishesSocketInv == SocketInit => SocketInv
<1> SUFFICES ASSUME SocketInit PROVE SocketInv
  OBVIOUS
<1> USE SocketAssumption DEF SocketInit, Coros, Files, Codes, Connected
<1>1. SocketTypes
  BY DEF SocketTypes
<1>2. SendShape /\ ConnectShape /\ ConnectTells
  BY DEF SendShape, ConnectShape, ConnectTells
<1>3. RegisteredShape /\ Registered
  BY DEF RegisteredShape, Registered, Fd
<1>4. StreamIntact
  BY DEF StreamIntact
<1> QED
  BY <1>1, <1>2, <1>3, <1>4 DEF SocketInv

(* Every step moves one coroutine, or is one of the kernel.                *)
LEMMA TypesStep ==
  ASSUME SocketTypes, [SocketNext]_socketVars
  PROVE  SocketTypes'
<1> USE SocketAssumption DEF SocketTypes, Coros, Files, Codes, Connected, kernel, buffer, coros
<1>1. ASSUME NEW c \in Coros, AcceptCall(c) PROVE SocketTypes'
  <2>1. budget' \in [signals : 0..MaxSignals, faults : Nat]
    BY <1>1, BudgetSpent DEF AcceptCall, Interrupted
  <2>2. CASE Return(c, "0") /\ UNCHANGED <<op, errno, registered>>
    BY <1>1, <2>1, <2>2 DEF AcceptCall, Return
  <2>3. CASE \E e \in Codes : Fail(c, e)
    BY <1>1, <2>1, <2>3 DEF AcceptCall, Fail
  <2> QED
    BY <1>1, <2>2, <2>3 DEF AcceptCall, Interrupted
<1>2. ASSUME NEW c \in Coros, ConnectCall(c) PROVE SocketTypes'
  <2>1. budget' \in [signals : 0..MaxSignals, faults : Nat]
    BY <1>2, BudgetSpent DEF ConnectCall, Interrupted
  <2>2. link' \in {"none", "syn", "refused"} \cup Connected
    BY <1>2 DEF ConnectCall
  <2>3. CASE Return(c, "0") /\ UNCHANGED <<op, errno, registered>>
    BY <1>2, <2>1, <2>2, <2>3 DEF ConnectCall, Return
  <2>4. CASE \E e \in Codes : Fail(c, e)
    BY <1>2, <2>1, <2>2, <2>4 DEF ConnectCall, Fail
  <2> QED
    BY <1>2, <2>3, <2>4 DEF ConnectCall, Interrupted
<1>3. ASSUME NEW c \in Coros, RecvCall(c) PROVE SocketTypes'
  <2>1. pipe' \in Seq(Nat) /\ got' \in Seq(Nat)
    <3>1. CASE UNCHANGED <<pipe, got>>
      BY <3>1
    <3>2. ASSUME NEW n \in 1..Len(pipe),
                 got' = got \o SubSeq(pipe, 1, n), pipe' = SubSeq(pipe, n + 1, Len(pipe))
          PROVE  pipe' \in Seq(Nat) /\ got' \in Seq(Nat)
      BY <3>2, Reading
    <3> QED
      BY <1>3, <3>1, <3>2 DEF RecvCall
  <2>2. budget' \in [signals : 0..MaxSignals, faults : Nat]
    BY <1>3, BudgetSpent DEF RecvCall, Interrupted
  <2>3. /\ at' \in [Coros -> {"call", "errno", "suspended", "returned"}]
        /\ errno' \in [Coros -> Codes] /\ ec' \in [Coros -> Codes]
        /\ UNCHANGED <<op, registered>>
    <3>1. CASE (\E e \in Codes : Return(c, e)) /\ UNCHANGED <<op, errno, registered>>
      BY <3>1 DEF Return
    <3>2. CASE \E e \in Codes : Fail(c, e)
      BY <3>2 DEF Fail
    <3> QED
      BY <1>3, <3>1, <3>2 DEF RecvCall, Interrupted
  <2> QED
    BY <1>3, <2>1, <2>2, <2>3 DEF RecvCall
<1>4. ASSUME NEW c \in Coros, SendCall(c) PROVE SocketTypes'
  <2>1. pipe' \in Seq(Nat) /\ data' \in Nat /\ size' \in Nat
    <3>1. CASE UNCHANGED <<data, size, pipe>>
      BY <3>1
    <3>2. ASSUME NEW n \in 1..(IF size < Room - Len(pipe) THEN size ELSE Room - Len(pipe)),
                 pipe' = pipe \o [i \in 1..n |-> data + i], data' = data + n, size' = size - n
          PROVE  pipe' \in Seq(Nat) /\ data' \in Nat /\ size' \in Nat
      BY <3>2, Writing DEF Bytes
    <3> QED
      BY <1>4, <3>1, <3>2 DEF SendCall
  <2>2. budget' \in [signals : 0..MaxSignals, faults : Nat]
    BY <1>4, BudgetSpent DEF SendCall, Interrupted
  <2>3. /\ at' \in [Coros -> {"call", "errno", "suspended", "returned"}]
        /\ errno' \in [Coros -> Codes] /\ ec' \in [Coros -> Codes]
        /\ UNCHANGED <<op, registered>>
    <3>1. CASE (\E e \in Codes : Return(c, e)) /\ UNCHANGED <<op, errno, registered>>
      BY <3>1 DEF Return
    <3>2. CASE \E e \in Codes : Fail(c, e)
      BY <3>2 DEF Fail
    <3>3. CASE at' = [at EXCEPT ![c] = "errno"] /\ UNCHANGED <<op, errno, ec, registered>>
      BY <3>3
    <3> QED
      BY <1>4, <3>1, <3>2, <3>3 DEF SendCall, Interrupted
  <2> QED
    BY <1>4, <2>1, <2>2, <2>3 DEF SendCall
<1>5. ASSUME NEW c \in Coros, Errno(c) PROVE SocketTypes'
  BY <1>5 DEF Errno, Loop, AwaitEvent, Return
<1>6. ASSUME NEW c \in Coros, Resume(c) PROVE SocketTypes'
  BY <1>6 DEF Resume, Loop, Return, Stale, SocketError, Fd
<1>7. CASE BeginSend
  BY <1>7 DEF BeginSend, Begin, Stale
<1>8. ASSUME NEW c \in Coros, BeginRecv(c) PROVE SocketTypes'
  BY <1>8 DEF BeginRecv, Begin
<1>9. CASE Shutdown
  BY <1>9 DEF Shutdown
<1>10. ASSUME NEW c \in Coros, Close(c) PROVE SocketTypes'
  BY <1>10 DEF Close
<1>11. CASE Establish
  BY <1>11 DEF Establish
<1>12. CASE Fault
  <2>1. budget' \in [signals : 0..MaxSignals, faults : Nat]
    BY <1>12, BudgetSpent DEF Fault
  <2>2. pipe' \in Seq(Nat) /\ link' \in {"none", "syn", "refused"} \cup Connected
    BY <1>12 DEF Fault
  <2> QED
    BY <1>12, <2>1, <2>2 DEF Fault
<1>13. CASE UNCHANGED socketVars
  BY <1>13 DEF socketVars
<1> QED
  BY <1>1, <1>2, <1>3, <1>4, <1>5, <1>6, <1>7, <1>8, <1>9, <1>10, <1>11, <1>12, <1>13
  DEF SocketNext, Step, Program, Accept, Connect, Recv, Send

(* send() moves bytes from after the pointer to before it, and begins on a *)
(* connection that has not carried a byte.                                 *)
LEMMA SendShapeStep ==
  ASSUME SocketTypes, SendShape, ConnectTells, [SocketNext]_socketVars
  PROVE  SendShape'
<1> USE SocketAssumption DEF SendShape, Coros, Connected, kernel, buffer, coros
<1>1. ASSUME NEW c \in Coros, AcceptCall(c) PROVE SendShape'
  BY <1>1 DEF AcceptCall, Return, Fail, Interrupted
<1>2. ASSUME NEW c \in Coros, op[c] = "connect", ConnectCall(c) PROVE SendShape'
  BY <1>2 DEF ConnectCall, Return, Fail, Interrupted, SocketTypes
<1>3. ASSUME NEW c \in Coros, RecvCall(c) PROVE SendShape'
  BY <1>3 DEF RecvCall, Return, Fail, Interrupted
<1>4. ASSUME NEW c \in Coros, SendCall(c) PROVE SendShape'
  BY <1>4 DEF SendCall, Return, Fail, Interrupted, SocketTypes
<1>5. ASSUME NEW c \in Coros, Errno(c) PROVE SendShape'
  BY <1>5 DEF Errno
<1>6. ASSUME NEW c \in Coros, Resume(c) PROVE SendShape'
  BY <1>6 DEF Resume
<1>7. CASE BeginSend
  BY <1>7 DEF BeginSend, Begin, ConnectTells, SocketTypes
<1>8. ASSUME NEW c \in Coros, BeginRecv(c) PROVE SendShape'
  BY <1>8 DEF BeginRecv, Begin, SocketTypes
<1>9. CASE Shutdown
  BY <1>9 DEF Shutdown, SocketTypes
<1>10. ASSUME NEW c \in Coros, Close(c) PROVE SendShape'
  BY <1>10 DEF Close, SocketTypes
<1>11. CASE Establish
  BY <1>11 DEF Establish
<1>12. CASE Fault
  BY <1>12 DEF Fault
<1>13. CASE UNCHANGED socketVars
  BY <1>13 DEF socketVars
<1> QED
  BY <1>1, <1>2, <1>3, <1>4, <1>5, <1>6, <1>7, <1>8, <1>9, <1>10, <1>11, <1>12, <1>13
  DEF SocketNext, Step, Program, Accept, Connect, Recv, Send

(* connect() alone uses the descriptor, so that its registration succeeds; *)
(* and after the event the kernel has decided.                             *)
LEMMA ConnectStep ==
  ASSUME SocketTypes, ConnectShape, ConnectTells, RegisteredShape, [SocketNext]_socketVars
  PROVE  ConnectShape' /\ ConnectTells'
<1> USE SocketAssumption DEF ConnectShape, ConnectTells, Coros, Connected, kernel, buffer, coros
<1>1. ASSUME NEW c \in Coros, op[c] = "accept", AcceptCall(c) PROVE ConnectShape' /\ ConnectTells'
  BY <1>1 DEF AcceptCall, Return, Fail, Interrupted, SocketTypes
<1>2. ASSUME NEW c \in Coros, op[c] = "connect", at[c] = "call", ConnectCall(c)
      PROVE  ConnectShape' /\ ConnectTells'
  BY <1>2 DEF ConnectCall, Return, Fail, Interrupted, SocketTypes
<1>3. ASSUME NEW c \in Coros, op[c] = "recv", RecvCall(c) PROVE ConnectShape' /\ ConnectTells'
  <2>1. \A d \in Coros \ {c} : at'[d] = at[d] /\ errno'[d] = errno[d] /\ ec'[d] = ec[d]
    BY <1>3 DEF RecvCall, Return, Fail, Interrupted, SocketTypes
  <2>2. UNCHANGED <<op, link>> /\ (budget.signals < MaxSignals => budget'.signals < MaxSignals)
    BY <1>3 DEF RecvCall, Return, Fail, Interrupted, SocketTypes
  <2>3. op["client"] # "recv"
    BY DEF SocketTypes
  <2> QED
    BY <1>3, <2>1, <2>2, <2>3 DEF SocketTypes
<1>4. ASSUME NEW c \in Coros, op[c] = "send", SendCall(c) PROVE ConnectShape' /\ ConnectTells'
  BY <1>4 DEF SendCall, Return, Fail, Interrupted, SocketTypes
<1>5. ASSUME NEW c \in Coros, op[c] # "idle", Errno(c) PROVE ConnectShape' /\ ConnectTells'
  <2>1. CASE op[c] # "connect"
    BY <1>5, <2>1 DEF Errno, Loop, AwaitEvent, Return, SocketTypes
  <2>2. CASE op[c] = "connect" /\ errno[c] = "EINPROGRESS"
    <3>1. registered["client"] = Nil
      BY <1>5, <2>2 DEF Errno, RegisteredShape, SocketTypes, Files, Fd
    <3> QED
      BY <1>5, <2>2, <3>1 DEF Errno, AwaitEvent, WouldBlock, SocketTypes, Fd
  <2>3. CASE op[c] = "connect" /\ errno[c] # "EINPROGRESS"
    BY <1>5, <2>3 DEF Errno, Loop, Return, WouldBlock, SocketTypes
  <2> QED
    BY <2>1, <2>2, <2>3
<1>6. ASSUME NEW c \in Coros, Resume(c) PROVE ConnectShape' /\ ConnectTells'
  <2>1. CASE op[c] = "connect"
    BY <1>6, <2>1 DEF Resume, Ready, Return, SocketError, SocketTypes
  <2>2. CASE op[c] # "connect"
    BY <1>6, <2>2 DEF Resume, Loop, SocketTypes
  <2> QED
    BY <2>1, <2>2
<1>7. CASE BeginSend
  BY <1>7 DEF BeginSend, Begin, SocketTypes
<1>8. ASSUME NEW c \in Coros, BeginRecv(c) PROVE ConnectShape' /\ ConnectTells'
  BY <1>8 DEF BeginRecv, Begin, SocketTypes
<1>9. CASE Shutdown
  BY <1>9 DEF Shutdown, SocketTypes
<1>10. ASSUME NEW c \in Coros, Close(c) PROVE ConnectShape' /\ ConnectTells'
  BY <1>10 DEF Close, SocketTypes
<1>11. CASE Establish
  BY <1>11 DEF Establish
<1>12. CASE Fault
  BY <1>12 DEF Fault, SocketTypes
<1>13. CASE UNCHANGED socketVars
  BY <1>13 DEF socketVars
<1> QED
  BY <1>1, <1>2, <1>3, <1>4, <1>5, <1>6, <1>7, <1>8, <1>9, <1>10, <1>11, <1>12, <1>13
  DEF SocketNext, Step, Program, Accept, Connect, Recv, Send

(* A registration is made by the coroutine that suspends, and removed by   *)
(* the event that resumes it.                                              *)
LEMMA RegisteredStep ==
  ASSUME SocketTypes, RegisteredShape, Registered, [SocketNext]_socketVars
  PROVE  RegisteredShape' /\ Registered'
<1> USE SocketAssumption DEF RegisteredShape, Registered, Fd, Files, Coros, kernel, buffer, coros
<1>1. ASSUME NEW c \in Coros, at[c] = "call", AcceptCall(c) PROVE RegisteredShape' /\ Registered'
  BY <1>1 DEF AcceptCall, Return, Fail, Interrupted, SocketTypes
<1>2. ASSUME NEW c \in Coros, at[c] = "call", ConnectCall(c) PROVE RegisteredShape' /\ Registered'
  BY <1>2 DEF ConnectCall, Return, Fail, Interrupted, SocketTypes
<1>3. ASSUME NEW c \in Coros, at[c] = "call", RecvCall(c) PROVE RegisteredShape' /\ Registered'
  <2>1. /\ at' = [at EXCEPT ![c] = "returned"] \/ at' = [at EXCEPT ![c] = "errno"]
        /\ UNCHANGED <<op, registered>>
    BY <1>3 DEF RecvCall, Return, Fail, Interrupted
  <2> QED
    BY <1>3, <2>1 DEF SocketTypes
<1>4. ASSUME NEW c \in Coros, at[c] = "call", SendCall(c) PROVE RegisteredShape' /\ Registered'
  <2>1. /\ at' = [at EXCEPT ![c] = "returned"] \/ at' = [at EXCEPT ![c] = "errno"]
        /\ UNCHANGED <<op, registered>>
    BY <1>4 DEF SendCall, Return, Fail, Interrupted
  <2> QED
    BY <1>4, <2>1 DEF SocketTypes
<1>5. ASSUME NEW c \in Coros, Errno(c) PROVE RegisteredShape' /\ Registered'
  BY <1>5 DEF Errno, Loop, AwaitEvent, Return, SocketTypes
<1>6. ASSUME NEW c \in Coros, Resume(c) PROVE RegisteredShape' /\ Registered'
  BY <1>6 DEF Resume, Loop, Return, SocketTypes
<1>7. CASE BeginSend
  BY <1>7 DEF BeginSend, Begin, SocketTypes
<1>8. ASSUME NEW c \in Coros, BeginRecv(c) PROVE RegisteredShape' /\ Registered'
  BY <1>8 DEF BeginRecv, Begin, SocketTypes
<1>9. CASE Shutdown
  BY <1>9 DEF Shutdown, SocketTypes
<1>10. ASSUME NEW c \in Coros, Close(c) PROVE RegisteredShape' /\ Registered'
  BY <1>10 DEF Close, SocketTypes
<1>11. CASE Establish
  BY <1>11 DEF Establish
<1>12. CASE Fault
  BY <1>12 DEF Fault
<1>13. CASE UNCHANGED socketVars
  BY <1>13 DEF socketVars
<1> QED
  BY <1>1, <1>2, <1>3, <1>4, <1>5, <1>6, <1>7, <1>8, <1>9, <1>10, <1>11, <1>12, <1>13
  DEF SocketNext, Step, Program, Accept, Connect, Recv, Send

(* What write() takes from the pointer on follows what was written.        *)
LEMMA WrittenNext ==
  ASSUME SocketTypes, got \o pipe = Bytes(0, data), NEW n \in Nat
  PROVE  /\ Len(got \o (pipe \o Bytes(data, n))) = Len(got \o pipe) + n
         /\ got \o (pipe \o Bytes(data, n)) = Bytes(0, data + n)
<1>1. pipe \in Seq(Nat) /\ got \in Seq(Nat) /\ data \in Nat
  BY DEF SocketTypes
<1>2. Len(got \o (pipe \o Bytes(data, n))) = Len(got \o pipe) + n
  BY <1>1, Writing
<1>3. got \o (pipe \o Bytes(data, n)) = Bytes(0, data + n)
  BY <1>1, Writing
<1> QED
  BY <1>2, <1>3

(* The bytes that were written are the first of the buffer, and what a     *)
(* reset loses is at their end.                                            *)
LEMMA StreamStep ==
  ASSUME SocketTypes, SendShape, StreamIntact, [SocketNext]_socketVars
  PROVE  StreamIntact'
<1> USE SocketAssumption DEF StreamIntact, kernel, buffer, coros
<1>1. ASSUME NEW c \in Coros, AcceptCall(c) PROVE StreamIntact'
  BY <1>1 DEF AcceptCall
<1>2. ASSUME NEW c \in Coros, ConnectCall(c) PROVE StreamIntact'
  BY <1>2 DEF ConnectCall
<1>3. ASSUME NEW c \in Coros, RecvCall(c) PROVE StreamIntact'
  <2>1. CASE UNCHANGED <<pipe, got>>
    BY <1>3, <2>1 DEF RecvCall
  <2>2. ASSUME NEW n \in 1..Len(pipe),
               got' = got \o SubSeq(pipe, 1, n), pipe' = SubSeq(pipe, n + 1, Len(pipe))
        PROVE  StreamIntact'
    <3>1. got' \o pipe' = got \o pipe
      BY <2>2, Reading DEF SocketTypes
    <3> QED
      BY <1>3, <3>1 DEF RecvCall
  <2> QED
    BY <1>3, <2>1, <2>2 DEF RecvCall, SocketTypes
<1>4. ASSUME NEW c \in Coros, SendCall(c) PROVE StreamIntact'
  <2>1. CASE UNCHANGED <<data, size, pipe>>
    BY <1>4, <2>1 DEF SendCall
  <2>2. ASSUME link # "reset",
               NEW n \in 1..(IF size < Room - Len(pipe) THEN size ELSE Room - Len(pipe)),
               pipe' = pipe \o [i \in 1..n |-> data + i], data' = data + n, size' = size - n
        PROVE  StreamIntact'
    <3>1. n \in Nat
      BY <2>2 DEF SocketTypes
    <3>2. Len(got \o pipe) = data
      BY <2>2 DEF SendShape, SocketTypes
    <3>3. got \o pipe = Bytes(0, data)
      BY <3>2 DEF Bytes
    <3>4. Len(got \o pipe') = data + n /\ got \o pipe' = Bytes(0, data + n)
      <4>1. pipe' = pipe \o Bytes(data, n)
        BY <2>2 DEF Bytes
      <4>2. /\ Len(got \o (pipe \o Bytes(data, n))) = Len(got \o pipe) + n
            /\ got \o (pipe \o Bytes(data, n)) = Bytes(0, data + n)
        BY <3>1, <3>3, WrittenNext
      <4> QED
        BY <4>1, <4>2, <3>2
    <3>5. got' = got /\ link' = link /\ data_size' - size' = data + n
      BY <1>4, <2>2, <3>1 DEF SendCall, SendShape, SocketTypes
    <3> QED
      BY <3>1, <3>4, <3>5 DEF Bytes, SocketTypes
  <2> QED
    BY <1>4, <2>1, <2>2 DEF SendCall
<1>5. ASSUME NEW c \in Coros, Errno(c) PROVE StreamIntact'
  BY <1>5 DEF Errno
<1>6. ASSUME NEW c \in Coros, Resume(c) PROVE StreamIntact'
  BY <1>6 DEF Resume
<1>7. CASE BeginSend
  <2>1. Len(got \o pipe) = 0 /\ data = 0 /\ data_size' = size' /\ UNCHANGED <<got, pipe>>
    BY <1>7 DEF BeginSend, Begin, SendShape, SocketTypes
  <2> QED
    BY <2>1, <1>7 DEF BeginSend, SocketTypes
<1>8. ASSUME NEW c \in Coros, BeginRecv(c) PROVE StreamIntact'
  BY <1>8 DEF BeginRecv, Begin
<1>9. CASE Shutdown
  BY <1>9 DEF Shutdown
<1>10. ASSUME NEW c \in Coros, Close(c) PROVE StreamIntact'
  BY <1>10 DEF Close
<1>11. CASE Establish
  BY <1>11 DEF Establish
<1>12. CASE Fault
  <2>1. got' \o pipe' = got /\ got \in Seq(Nat)
    BY <1>12, ConcatEmptySeq DEF Fault, SocketTypes
  <2>2. Len(got) <= Len(got \o pipe) /\ \A i \in 1..Len(got) : got[i] = i
    <3>1. Len(got \o pipe) = Len(got) + Len(pipe)
      BY DEF SocketTypes
    <3>2. \A i \in 1..Len(got) : (got \o pipe)[i] = got[i]
      BY DEF SocketTypes
    <3>3. \A i \in 1..Len(got \o pipe) : (got \o pipe)[i] = i
      OBVIOUS
    <3> QED
      BY <3>1, <3>2, <3>3 DEF SocketTypes
  <2>3. got = [i \in 1..Len(got) |-> i]
    BY <2>1, <2>2
  <2>4. link' # "reset" => Len(got) = data_size - size
    BY <1>12, <2>2 DEF Fault, SendShape, Connected, SocketTypes
  <2> QED
    BY <1>12, <2>1, <2>2, <2>3, <2>4 DEF Fault, SocketTypes
<1>13. CASE UNCHANGED socketVars
  BY <1>13 DEF socketVars
<1> QED
  BY <1>1, <1>2, <1>3, <1>4, <1>5, <1>6, <1>7, <1>8, <1>9, <1>10, <1>11, <1>12, <1>13
  DEF SocketNext, Step, Program, Accept, Connect, Recv, Send

(* Every operation of the sockets, whatever the kernel answers, keeps the  *)
(* invariant.                                                              *)
THEOREM TcpInvariance == SocketSpec => []SocketInv
<1>1. SocketInv /\ [SocketNext]_socketVars => SocketInv'
  BY TypesStep, SendShapeStep, ConnectStep, RegisteredStep, StreamStep DEF SocketInv
<1> QED
  BY InitEstablishesSocketInv, <1>1, PTL DEF SocketSpec

(* What send() reports and what the server receives agree: the server gets *)
(* the bytes of the buffer once and in order, however the calls of write() *)
(* are cut, interrupted and repeated, whatever errno was before them.      *)
THEOREM StreamHolds == SocketSpec => []StreamIntact
BY TcpInvariance, PTL DEF SocketInv

(* connect() returns no success for a connection that was refused or is    *)
(* not yet established, and no error for one that is, unless a signal      *)
(* interrupted it.                                                         *)
THEOREM ConnectHolds == SocketSpec => []ConnectTells
BY TcpInvariance, PTL DEF SocketInv

(* The event of a descriptor resumes the coroutine that suspended on it,   *)
(* and no coroutine is suspended without a registration, although reader   *)
(* and client of a socket register the same descriptor.                    *)
THEOREM RegistrationsHold == SocketSpec => []Registered
BY TcpInvariance, PTL DEF SocketInv

-----------------------------------------------------------------------------
(* The overlapped operations: event::await_suspend() on one thread         *)
(* against event::resume() on another, for any numbers of threads and      *)
(* coroutines.                                                             *)

Running == {"body", "call", "suspend", "exchange", "result"}

(* Every variable that says who goes on has its type.                      *)
OverlappedTypes ==
  /\ at \in [Tasks -> Running \cup {"new", "suspended", "done"}]
  /\ io \in [Tasks -> {"none", "pending", "queued"}]
  /\ awaiter_ \in [Tasks -> BOOLEAN] /\ ready_ \in [Tasks -> BOOLEAN]
  /\ on \in [Threads -> Tasks \cup {Nil}]
  /\ todo \in [Threads -> SUBSET Tasks]

(* Who is on a thread goes on, and until await_suspend() has exchanged it  *)
(* ready_ says whether resume() was there.                                 *)
HandoverShape ==
  /\ \A t \in Threads : on[t] # Nil => at[on[t]] \in Running
  /\ \A c \in Tasks : at[c] \in {"suspend", "exchange"} => (ready_[c] <=> io[c] = "none")
  /\ \A c \in Tasks : at[c] = "exchange" => awaiter_[c]

(* What every step of run() and of the coroutines keeps.                   *)
OverlappedInv == OverlappedTypes /\ HandoverShape /\ OneGoesOn

(* Before the first coroutine is launched there is no packet and nobody    *)
(* on a thread.                                                            *)
LEMMA InitEstablishesOverlappedInv == OverlappedInit => OverlappedInv
BY OverlappedAssumption DEF OverlappedInit, OverlappedInv, OverlappedTypes, HandoverShape, OneGoesOn, Running

(* Where a call leaves the coroutine that made it.                         *)
LEMMA CallEndsWhere ==
  ASSUME OverlappedTypes, NEW c \in Tasks, NEW ok \in BOOLEAN, CallEnds(c, ok)
  PROVE  \E to \in {"body", "call"} : at' = [at EXCEPT ![c] = to]
BY DEF CallEnds, AcceptEnds, ConnectEnds, RecvEnds, SendEnds, Goto, OverlappedTypes

(* A call that begins has a new event and nobody who knows it; it ends at  *)
(* once or is pending.                                                     *)
LEMMA CallStep ==
  ASSUME OverlappedInv, NEW t \in Threads, NEW c \in Tasks, Call(t, c)
  PROVE  OverlappedInv'
<1>1. UNCHANGED <<on, todo>> /\ on[t] = c /\ at[c] = "call" /\ io[c] = "none"
  BY DEF Call, worker, OverlappedInv, OverlappedTypes, OneGoesOn
<1>2. awaiter_' = [awaiter_ EXCEPT ![c] = FALSE] /\ ready_' = [ready_ EXCEPT ![c] = FALSE]
  BY DEF Call
<1>3. \/ UNCHANGED io /\ \E to \in {"body", "call"} : at' = [at EXCEPT ![c] = to]
      \/ io' = [io EXCEPT ![c] = "pending"] /\ at' = [at EXCEPT ![c] = "suspend"]
  BY CallEndsWhere DEF Call, Goto, OverlappedInv
<1>4. OverlappedTypes'
  BY <1>1, <1>2, <1>3 DEF OverlappedInv, OverlappedTypes, Running
<1>5. HandoverShape'
  BY <1>1, <1>2, <1>3, OverlappedAssumption DEF OverlappedInv, OverlappedTypes, HandoverShape, Running
<1>6. OneGoesOn'
  BY <1>1, <1>2, <1>3 DEF OverlappedInv, OverlappedTypes, OneGoesOn, Running
<1> QED
  BY <1>4, <1>5, <1>6 DEF OverlappedInv

(* await_resume() finds the call ended, and its thread goes on with the    *)
(* coroutine.                                                              *)
LEMMA ResultStep ==
  ASSUME OverlappedInv, NEW t \in Threads, NEW c \in Tasks, Result(t, c)
  PROVE  OverlappedInv'
<1>1. UNCHANGED <<awaiter_, ready_, io, on, todo>> /\ on[t] = c /\ at[c] = "result" /\ io[c] = "none"
  BY DEF Result, worker, event, OverlappedInv, OverlappedTypes, OneGoesOn
<1>2. \E to \in {"body", "call"} : at' = [at EXCEPT ![c] = to]
  BY CallEndsWhere DEF Result, OverlappedInv
<1>4. OverlappedTypes'
  BY <1>1, <1>2 DEF OverlappedInv, OverlappedTypes, Running
<1>5. HandoverShape'
  BY <1>1, <1>2, OverlappedAssumption DEF OverlappedInv, OverlappedTypes, HandoverShape, Running
<1>6. OneGoesOn'
  BY <1>1, <1>2 DEF OverlappedInv, OverlappedTypes, OneGoesOn, Running
<1> QED
  BY <1>4, <1>5, <1>6 DEF OverlappedInv

(* await_suspend()                                                         *)
LEMMA SuspendStep ==
  ASSUME OverlappedInv, NEW t \in Threads, NEW c \in Tasks, StoreAwaiter(t, c) \/ AwaitSuspend(t, c)
  PROVE  OverlappedInv'
<1>1. CASE StoreAwaiter(t, c)
  <2>1. OverlappedTypes'
    BY <1>1 DEF StoreAwaiter, Goto, worker, OverlappedInv, OverlappedTypes, Running
  <2>2. HandoverShape'
    BY <1>1, OverlappedAssumption DEF StoreAwaiter, Goto, worker, OverlappedInv, OverlappedTypes, HandoverShape, Running
  <2>3. OneGoesOn'
    BY <1>1 DEF StoreAwaiter, Goto, worker, OverlappedInv, OverlappedTypes, OneGoesOn, Running
  <2> QED
    BY <2>1, <2>2, <2>3 DEF OverlappedInv
<1>2. CASE AwaitSuspend(t, c)
  <2>0. on[t] = c /\ at[c] = "exchange" /\ (ready_[c] <=> io[c] = "none") /\ awaiter_[c]
    BY <1>2 DEF AwaitSuspend, OverlappedInv, HandoverShape
  <2>1. OverlappedTypes'
    BY <1>2 DEF AwaitSuspend, Goto, worker, OverlappedInv, OverlappedTypes, Running
  <2>2. HandoverShape'
    BY <1>2, <2>0, OverlappedAssumption DEF AwaitSuspend, Goto, worker, OverlappedInv, OverlappedTypes, HandoverShape, OneGoesOn, Running
  <2>3. OneGoesOn'
    <3>1. CASE ready_[c]
      BY <1>2, <2>0, <3>1 DEF AwaitSuspend, Goto, worker, OverlappedInv, OverlappedTypes, OneGoesOn, Running
    <3>2. CASE ~ready_[c]
      BY <1>2, <2>0, <3>2, OverlappedAssumption DEF AwaitSuspend, Goto, worker, OverlappedInv, OverlappedTypes, OneGoesOn, HandoverShape, Running
    <3> QED
      BY <3>1, <3>2
  <2> QED
    BY <2>1, <2>2, <2>3 DEF OverlappedInv
<1> QED
  BY <1>1, <1>2

(* resume(), on a thread that has the packet of c.                         *)
LEMMA ResumeEventStep ==
  ASSUME OverlappedInv, NEW t \in Threads, NEW c \in Tasks, ResumeEvent(t, c)
  PROVE  OverlappedInv'
<1>0. on[t] = Nil /\ c \in todo[t] /\ io[c] = "queued" /\ at[c] \in {"suspend", "exchange", "suspended"}
  BY DEF ResumeEvent, OverlappedInv, OneGoesOn
<1>1. OverlappedTypes'
  BY DEF ResumeEvent, Goto, port, OverlappedInv, OverlappedTypes, Running
<1>2. HandoverShape'
  BY <1>0, OverlappedAssumption DEF ResumeEvent, Goto, port, OverlappedInv, OverlappedTypes, HandoverShape, OneGoesOn, Running
<1>3. OneGoesOn'
  <2>1. CASE ready_[c]
    <3>1. at[c] = "suspended" /\ awaiter_[c] /\ \A u \in Threads : on[u] # c
      BY <1>0, <2>1 DEF OverlappedInv, OneGoesOn
    <3> QED
      BY <1>0, <2>1, <3>1, OverlappedAssumption DEF ResumeEvent, Goto, port, OverlappedInv, OverlappedTypes, OneGoesOn, Running
  <2>2. CASE ~ready_[c]
    BY <1>0, <2>2 DEF ResumeEvent, Goto, port, OverlappedInv, OverlappedTypes, OneGoesOn, Running
  <2> QED
    BY <2>1, <2>2
<1> QED
  BY <1>1, <1>2, <1>3 DEF OverlappedInv

(* GetQueuedCompletionStatusEx() gives a packet to one thread.             *)
LEMMA WaitStep ==
  ASSUME OverlappedInv, NEW t \in Threads, Wait(t)
  PROVE  OverlappedInv'
<1>1. PICK entries \in SUBSET Queued : todo' = [todo EXCEPT ![t] = entries]
  BY DEF Wait
<1>2. UNCHANGED <<at, awaiter_, ready_, io, on>>
  BY DEF Wait, event
<1>3. \A c \in entries : c \in Tasks /\ io[c] = "queued" /\ \A u \in Threads : c \notin todo[u]
  BY DEF Queued
<1>4. OverlappedTypes' /\ HandoverShape'
  BY <1>1, <1>2, <1>3 DEF OverlappedInv, OverlappedTypes, HandoverShape
<1>5. OneGoesOn'
  BY <1>1, <1>2, <1>3 DEF OverlappedInv, OverlappedTypes, OneGoesOn
<1> QED
  BY <1>4, <1>5 DEF OverlappedInv

(* A coroutine is launched, begins an operation or ends; a call completes. *)
LEMMA TaskStep ==
  ASSUME OverlappedInv, NEW c \in Tasks,
         \/ \E t \in Threads : Launch(t, c) \/ BeginOperation(t, c) \/ Finish(t, c)
         \/ Completes(c)
  PROVE  OverlappedInv'
<1>1. ASSUME NEW t \in Threads, Launch(t, c)
      PROVE  OverlappedInv'
  <2>1. OverlappedTypes'
    BY <1>1 DEF Launch, Goto, worker, event, OverlappedInv, OverlappedTypes, Running
  <2>2. HandoverShape'
    BY <1>1, OverlappedAssumption DEF Launch, Goto, worker, event, OverlappedInv, OverlappedTypes, HandoverShape, Running
  <2>3. OneGoesOn'
    BY <1>1, OverlappedAssumption DEF Launch, Goto, worker, event, OverlappedInv, OverlappedTypes, HandoverShape, OneGoesOn, Running
  <2> QED
    BY <2>1, <2>2, <2>3 DEF OverlappedInv
<1>2. ASSUME NEW t \in Threads, BeginOperation(t, c)
      PROVE  OverlappedInv'
  <2>0. on[t] = c /\ at[c] = "body" /\ at' = [at EXCEPT ![c] = "call"] /\ UNCHANGED <<awaiter_, ready_, io, on, todo>>
    BY <1>2 DEF BeginOperation, Goto, worker, event
  <2>1. OverlappedTypes' /\ HandoverShape'
    BY <2>0, OverlappedAssumption DEF OverlappedInv, OverlappedTypes, HandoverShape, Running
  <2>2. OneGoesOn'
    BY <2>0 DEF OverlappedInv, OverlappedTypes, OneGoesOn, Running
  <2> QED
    BY <2>1, <2>2 DEF OverlappedInv
<1>3. ASSUME NEW t \in Threads, Finish(t, c)
      PROVE  OverlappedInv'
  <2>1. OverlappedTypes'
    BY <1>3 DEF Finish, Goto, worker, event, OverlappedInv, OverlappedTypes, Running
  <2>2. HandoverShape'
    BY <1>3, OverlappedAssumption DEF Finish, Goto, worker, event, OverlappedInv, OverlappedTypes, HandoverShape, OneGoesOn, Running
  <2>3. OneGoesOn'
    BY <1>3, OverlappedAssumption DEF Finish, Goto, worker, event, OverlappedInv, OverlappedTypes, OneGoesOn, Running
  <2> QED
    BY <2>1, <2>2, <2>3 DEF OverlappedInv
<1>4. CASE Completes(c)
  BY <1>4 DEF Completes, worker, event, OverlappedInv, OverlappedTypes, HandoverShape, OneGoesOn
<1> QED
  BY <1>1, <1>2, <1>3, <1>4

(* The rest of run(), and stop(), have nothing to do with the events.      *)
LEMMA LoopStep ==
  ASSUME OverlappedInv,
         \/ \E t \in Threads : \/ EnterRun(t) \/ Timeout(t) \/ HandleInterrupt(t) \/ EndOfBatch(t)
                               \/ \E b \in BOOLEAN : Stop(t, b)
         \/ UNCHANGED overlappedVars
  PROVE  OverlappedInv'
<1>1. UNCHANGED <<at, awaiter_, ready_, io, on, todo>>
  BY DEF EnterRun, Timeout, HandleInterrupt, EndOfBatch, Stop, worker, event, overlappedVars
<1> QED
  BY <1>1 DEF OverlappedInv, OverlappedTypes, HandoverShape, OneGoesOn

(* Every step keeps the invariant.                                         *)
LEMMA OverlappedStep == OverlappedInv /\ [OverlappedNext]_overlappedVars => OverlappedInv'
<1> SUFFICES ASSUME OverlappedInv, [OverlappedNext]_overlappedVars PROVE OverlappedInv'
  OBVIOUS
<1> USE CallStep, ResultStep, SuspendStep, ResumeEventStep, WaitStep, TaskStep, LoopStep
<1> QED
  BY DEF OverlappedNext, RunLoop, Coroutine

(* Whatever the order of the packets, of await_suspend() and of resume()   *)
(* on the threads of a service, the events and the coroutines agree.       *)
THEOREM OverlappedInvariance == OverlappedSpec => []OverlappedInv
<1> QED
  BY InitEstablishesOverlappedInv, OverlappedStep, PTL DEF OverlappedSpec

(* No coroutine is resumed twice or on two threads, and no event is        *)
(* touched after the operation it belonged to.                             *)
THEOREM OverlappedHolds == OverlappedSpec => []OneGoesOn
<1>1. OverlappedInv => OneGoesOn
  BY DEF OverlappedInv
<1> QED
  BY <1>1, OverlappedInvariance, PTL

-----------------------------------------------------------------------------
(* ssh::session: the handles, and what io() awaits, for any number of      *)
(* connections, packets and refusals.                                      *)

(* What the functions of libssh2 are that an operation calls.              *)
CallsOf == [none |-> {}, connect |-> {"handshake"}, authenticate |-> {"userauth", "open"},
            request |-> {"request"}, send |-> {"write"}, disconnect |-> {"close", "bye"},
            close |-> {}, recv |-> {"read"}]

Operations == {"none", "connect", "authenticate", "request", "send", "disconnect", "close", "recv"}

SessionTypes ==
  /\ socket_ \in BOOLEAN /\ session_ \in BOOLEAN /\ channel_ \in BOOLEAN
  /\ op \in [Users -> Operations]
  /\ op["user"] # "recv" /\ op["reader"] \in {"none", "recv"}
  /\ at \in [Users -> {"call", "io", "suspended", "returned"}]
  /\ call \in [Users -> DOMAIN Steps \cup {"none"}]
  /\ steps \in [Users -> Seq({"send", "recv"})]
  /\ failed \in [Users -> BOOLEAN]
  /\ running \in Users \cup {Nil}

(* The programs: an operation makes its own calls, the user goes on only   *)
(* after a success, and the reader is there while there is a channel.      *)
ProgramShape ==
  /\ \A c \in Users : at[c] # "returned" => call[c] \in CallsOf[op[c]]
  /\ at["reader"] # "returned" =>
       op["user"] = "send" \/ (op["user"] = "request" /\ at["user"] = "returned")
  /\ op["user"] \in {"request", "send"} => channel_
  /\ op["user"] = "authenticate" /\ at["user"] = "returned" /\ ~failed["user"] => channel_
  /\ op["user"] = "connect" => ~channel_
  /\ at["user"] # "returned" /\ call["user"] = "bye" => ~channel_
  /\ op["user"] = "connect" /\ at["user"] = "returned" /\ ~failed["user"] => session_

(* What every step of an operation keeps.                                  *)
SessionInv == SessionTypes /\ ProgramShape /\ Ownership /\ IoHasDirection

(* The calls, and what each has to do at its beginning.                    *)
LEMMA CallFacts ==
  /\ DOMAIN Steps = {"handshake", "userauth", "open", "request", "write", "read", "close", "bye"}
  /\ \A f \in DOMAIN Steps : Steps[f] \in Seq({"send", "recv"})
<1>1. DOMAIN Steps = {"handshake", "userauth", "open", "request", "write", "read", "close", "bye"}
  BY DEF Steps
<1>2. <<"send", "recv">> \in Seq({"send", "recv"}) /\ <<"send">> \in Seq({"send", "recv"})
      /\ <<"recv">> \in Seq({"send", "recv"})
  OBVIOUS
<1>3. \A f \in DOMAIN Steps : Steps[f] \in {<<"send", "recv">>, <<"send">>, <<"recv">>}
  BY <1>1 DEF Steps
<1> QED
  BY <1>1, <1>2, <1>3

(* A call begins.                                                          *)
LEMMA CallsTypes ==
  ASSUME SessionTypes, NEW c \in Users, NEW f \in DOMAIN Steps, Calls(c, f)
  PROVE  /\ call' \in [Users -> DOMAIN Steps \cup {"none"}]
         /\ steps' \in [Users -> Seq({"send", "recv"})]
BY CallFacts DEF Calls, SessionTypes

(* A session begins with no handles and no calls.                          *)
LEMMA InitEstablishesSessionInv == SessionInit => SessionInv
<1>1. SessionInit => SessionTypes
  <2> SUFFICES ASSUME SessionInit PROVE SessionTypes
    OBVIOUS
  <2>1. <<>> \in Seq({"send", "recv"})
    OBVIOUS
  <2>2. steps \in [Users -> Seq({"send", "recv"})]
    BY <2>1 DEF SessionInit
  <2> QED
    BY <2>2 DEF SessionInit, SessionTypes, Users, Operations
<1>2. SessionInit => ProgramShape /\ Ownership /\ IoHasDirection
  BY DEF SessionInit, ProgramShape, Ownership, IoHasDirection, Users
<1> QED
  BY <1>1, <1>2 DEF SessionInv

(* A call of libssh2 fails and with it the operation.                      *)
LEMMA FailStep ==
  ASSUME SessionInv, NEW c \in Users, running = c, at[c] = "call", FailCall(c)
  PROVE  SessionInv'
<1>1. SessionTypes'
  BY DEF FailCall, Leave, SessionInv, SessionTypes, Users
<1>2. ProgramShape'
  BY DEF FailCall, Leave, SessionInv, SessionTypes, ProgramShape, Users, CallsOf, Operations
<1>3. Ownership'
  BY DEF FailCall, Leave, SessionInv, SessionTypes, ProgramShape, Ownership, Users, CallsOf, Operations
<1>4. IoHasDirection'
  BY DEF FailCall, Leave, SessionInv, SessionTypes, IoHasDirection, Users
<1> QED
  BY <1>1, <1>2, <1>3, <1>4 DEF SessionInv

(* It would block: the callback says so, and the loop awaits io().         *)
LEMMA AgainStep ==
  ASSUME SessionInv, NEW c \in Users, running = c, at[c] = "call", Again(c), steps[c] # <<>>,
         UNCHANGED <<handles, op, call, steps, failed, running>>
  PROVE  SessionInv'
<1>1. SessionTypes'
  BY DEF Again, handles, SessionInv, SessionTypes, Users
<1>2. ProgramShape' /\ Ownership'
  BY DEF Again, handles, SessionInv, SessionTypes, ProgramShape, Ownership, Users
<1>3. IoHasDirection'
  BY DEF Again, handles, SessionInv, SessionTypes, IoHasDirection, Users
<1> QED
  BY <1>1, <1>2, <1>3 DEF SessionInv

(* It goes on with what the call has to do.                                *)
LEMMA ProgressStep ==
  ASSUME SessionInv, NEW c \in Users, running = c, at[c] = "call",
         steps' = steps \/ (steps[c] # <<>> /\ steps' = [steps EXCEPT ![c] = Tail(@)]),
         UNCHANGED <<handles, operation_, op, call, at, failed, running>>
  PROVE  SessionInv'
<1>1. SessionTypes'
  <2>1. steps' \in [Users -> Seq({"send", "recv"})]
    <3>1. steps \in [Users -> Seq({"send", "recv"})] /\ steps[c] \in Seq({"send", "recv"})
      BY DEF SessionInv, SessionTypes
    <3>2. steps[c] # <<>> => Tail(steps[c]) \in Seq({"send", "recv"})
      BY <3>1
    <3> QED
      BY <3>1, <3>2
  <2> QED
    BY <2>1 DEF handles, SessionInv, SessionTypes
<1>2. ProgramShape' /\ Ownership'
  BY DEF handles, SessionInv, SessionTypes, ProgramShape, Ownership, Users
<1>3. IoHasDirection'
  BY DEF handles, SessionInv, SessionTypes, IoHasDirection, Users
<1> QED
  BY <1>1, <1>2, <1>3 DEF SessionInv

(* What the callbacks of libssh2 do, for whoever is in a call.             *)
LEMMA CallbackStep ==
  ASSUME SessionInv, NEW c \in Users, running = c, at[c] = "call", OnSend(c) \/ OnRecv(c) \/ Refused(c)
  PROVE  SessionInv'
<1>1. CASE OnSend(c)
  BY <1>1, FailStep, AgainStep, ProgressStep DEF OnSend, handles
<1>2. CASE OnRecv(c)
  BY <1>2, FailStep, AgainStep, ProgressStep DEF OnRecv, handles, users
<1>3. CASE Refused(c)
  BY <1>3, FailStep DEF Refused
<1> QED
  BY <1>1, <1>2, <1>3

(* A call has succeeded.                                                   *)
LEMMA SucceededStep ==
  ASSUME SessionInv, NEW c \in Users, running = c, at[c] = "call", Succeeded(c)
  PROVE  SessionInv'
<1>1. SessionTypes'
  <2>1. \/ UNCHANGED <<call, steps>>
        \/ \E f \in DOMAIN Steps : Calls(c, f)
    BY CallFacts DEF Succeeded, CallReturns, Authenticated, Written, Disconnected
  <2>2. /\ call' \in [Users -> DOMAIN Steps \cup {"none"}]
        /\ steps' \in [Users -> Seq({"send", "recv"})]
    BY <2>1, CallsTypes DEF SessionInv, SessionTypes
  <2> QED
    BY <2>2 DEF Succeeded, CallReturns, Authenticated, Written, Disconnected, Leave, handles, SessionInv, SessionTypes
<1> USE DEF Succeeded, Leave, Calls, handles
<1>2. CASE CallReturns(c)
  BY <1>1, <1>2 DEF CallReturns, SessionInv, SessionTypes, ProgramShape, Ownership, IoHasDirection, Users, CallsOf, Operations
<1>3. CASE Authenticated(c)
  BY <1>1, <1>3 DEF Authenticated, SessionInv, SessionTypes, ProgramShape, Ownership, IoHasDirection, Users, CallsOf, Operations
<1>4. CASE Written(c)
  BY <1>1, <1>4 DEF Written, SessionInv, SessionTypes, ProgramShape, Ownership, IoHasDirection, Users, CallsOf, Operations
<1>5. CASE Disconnected(c)
  BY <1>1, <1>5 DEF Disconnected, SessionInv, SessionTypes, ProgramShape, Ownership, IoHasDirection, Users, CallsOf, Operations
<1> QED
  BY <1>2, <1>3, <1>4, <1>5

(* io(), and the event that it awaits.                                     *)
LEMMA IoStep ==
  ASSUME SessionInv, NEW c \in Users, Io(c) \/ SessionResume(c)
  PROVE  SessionInv'
<1>1. SessionTypes'
  BY DEF Io, SessionResume, handles, SessionInv, SessionTypes, Users
<1>2. ProgramShape' /\ Ownership'
  BY DEF Io, SessionResume, handles, SessionInv, SessionTypes, ProgramShape, Ownership, Users
<1>3. IoHasDirection'
  BY SessionAssumption DEF Io, SessionResume, handles, SessionInv, SessionTypes, IoHasDirection, Users
<1> QED
  BY <1>1, <1>2, <1>3 DEF SessionInv

(* The programs.                                                           *)
LEMMA SessionConnectStep ==
  ASSUME SessionInv, SessionConnect
  PROVE  SessionInv'
<1>1. SessionTypes'
  <2>1. \/ UNCHANGED <<call, steps>>
        \/ Calls("user", "handshake")
    BY DEF SessionConnect, Start
  <2>2. /\ call' \in [Users -> DOMAIN Steps \cup {"none"}]
        /\ steps' \in [Users -> Seq({"send", "recv"})]
    BY <2>1, CallsTypes, CallFacts DEF SessionInv, SessionTypes, Users
  <2>3. op' = [op EXCEPT !["user"] = "connect"] /\ at' \in [Users -> {"call", "io", "suspended", "returned"}]
        /\ failed' \in [Users -> BOOLEAN] /\ running' \in Users \cup {Nil}
    BY DEF SessionConnect, Start, Leave, SessionInv, SessionTypes, Users
  <2>4. op' \in [Users -> Operations] /\ op'["user"] # "recv" /\ op'["reader"] \in {"none", "recv"}
    BY <2>3 DEF SessionInv, SessionTypes, Users, Operations
  <2>5. socket_' \in BOOLEAN /\ session_' \in BOOLEAN /\ channel_' \in BOOLEAN
    BY DEF SessionConnect
  <2> QED
    BY <2>2, <2>3, <2>4, <2>5 DEF SessionTypes
<1> USE DEF SessionConnect, Alone, Start, Calls, Leave
<1>2. ProgramShape' /\ Ownership'
  BY DEF SessionInv, SessionTypes, ProgramShape, Ownership, Users, CallsOf, Operations
<1>3. IoHasDirection'
  BY DEF SessionInv, SessionTypes, IoHasDirection, Users
<1> QED
  BY <1>1, <1>2, <1>3 DEF SessionInv

(* Every other operation of the programs keeps the handles and starts with *)
(* its first call.                                                         *)
LEMMA StartStep ==
  ASSUME SessionInv, Authenticate \/ Request \/ SessionSend \/ SessionRecv \/ Disconnect
  PROVE  SessionInv'
<1>1. SessionTypes'
  <2>1. \/ \E o \in Operations \ {"recv"}, f \in DOMAIN Steps : Start("user", o, f)
        \/ Start("reader", "recv", "read")
    BY CallFacts DEF Authenticate, Request, SessionSend, SessionRecv, Disconnect, Operations
  <2>2. /\ call' \in [Users -> DOMAIN Steps \cup {"none"}]
        /\ steps' \in [Users -> Seq({"send", "recv"})]
    BY <2>1, CallsTypes, CallFacts DEF Start, SessionInv, SessionTypes, Users
  <2>3. UNCHANGED handles
    BY DEF Authenticate, Request, SessionSend, SessionRecv, Disconnect
  <2>4. /\ at' \in [Users -> {"call", "io", "suspended", "returned"}]
        /\ failed' \in [Users -> BOOLEAN] /\ running' \in Users \cup {Nil}
    <3>1. \E c \in Users : /\ running' = c /\ at' = [at EXCEPT ![c] = "call"]
                           /\ failed' = [failed EXCEPT ![c] = FALSE]
      BY <2>1 DEF Start, Users
    <3> QED
      BY <3>1 DEF SessionInv, SessionTypes
  <2>5. op' \in [Users -> Operations] /\ op'["user"] # "recv" /\ op'["reader"] \in {"none", "recv"}
    BY <2>1 DEF Start, SessionInv, SessionTypes, Users, Operations
  <2> QED
    BY <2>2, <2>3, <2>4, <2>5 DEF handles, SessionInv, SessionTypes
<1> USE SessionAssumption DEF Alone, Start, Calls, handles
<1>2. IoHasDirection'
  BY DEF Authenticate, Request, SessionSend, SessionRecv, Disconnect, SessionInv, SessionTypes, IoHasDirection, Users
<1>3. ProgramShape' /\ Ownership'
  <2>1. CASE Authenticate
    BY <2>1 DEF Authenticate, SessionInv, SessionTypes, ProgramShape, Ownership, Users, CallsOf, Operations
  <2>2. CASE Request
    BY <2>2 DEF Request, SessionInv, SessionTypes, ProgramShape, Ownership, Users, CallsOf, Operations
  <2>3. CASE SessionSend
    BY <2>3 DEF SessionSend, SessionInv, SessionTypes, ProgramShape, Ownership, Users, CallsOf, Operations
  <2>4. CASE SessionRecv
    BY <2>4 DEF SessionRecv, SessionInv, SessionTypes, ProgramShape, Ownership, Users, CallsOf, Operations
  <2>5. CASE Disconnect
    BY <2>5 DEF Disconnect, SessionInv, SessionTypes, ProgramShape, Ownership, Users, CallsOf, Operations
  <2> QED
    BY <2>1, <2>2, <2>3, <2>4, <2>5
<1> QED
  BY <1>1, <1>2, <1>3 DEF SessionInv

(* close() gives up all handles while nobody is in a call.                 *)
LEMMA CloseStep ==
  ASSUME SessionInv, SessionClose
  PROVE  SessionInv'
BY DEF SessionClose, Alone, SessionInv, SessionTypes, ProgramShape, Ownership, IoHasDirection, Users, CallsOf, Operations

(* Every step keeps the invariant.                                         *)
LEMMA SessionStep == SessionInv /\ [SessionNext]_sessionVars => SessionInv'
<1> SUFFICES ASSUME SessionInv, [SessionNext]_sessionVars PROVE SessionInv'
  OBVIOUS
<1>1. CASE SessionProgram
  BY <1>1, SessionConnectStep, StartStep, CloseStep DEF SessionProgram
<1>2. ASSUME NEW c \in Users, SessionRun(c)
      PROVE  SessionInv'
  BY <1>2, CallbackStep, SucceededStep, IoStep DEF SessionRun
<1>3. CASE ServerReads \/ ServerTalks \/ ConnectionEnds \/ UNCHANGED sessionVars
  BY <1>3 DEF ServerReads, ServerTalks, ConnectionEnds, sessionVars, handles, users,
     SessionInv, SessionTypes, ProgramShape, Ownership, IoHasDirection
<1> QED
  BY <1>1, <1>2, <1>3 DEF SessionNext

(* The handles of a session, its operations and what io() awaits stay      *)
(* consistent, whatever the server and the socket do.                      *)
THEOREM SessionInvariance == SessionSpec => []SessionInv
<1> QED
  BY InitEstablishesSessionInv, SessionStep, PTL DEF SessionSpec

(* A channel never outlives its session nor a session its socket, also     *)
(* when an operation fails half way.                                       *)
THEOREM OwnershipHolds == SessionSpec => []Ownership
<1>1. SessionInv => Ownership
  BY DEF SessionInv
<1> QED
  BY <1>1, SessionInvariance, PTL

(* Whenever io() is reached, operation_ is what this coroutine's callback  *)
(* could not do.                                                           *)
THEOREM IoHolds == SessionSpec => []IoHasDirection
<1>1. SessionInv => IoHasDirection
  BY DEF SessionInv
<1> QED
  BY <1>1, SessionInvariance, PTL

-----------------------------------------------------------------------------
(* The parser: what the automaton of parse() makes of a text, for texts    *)
(* of any length and any number of handlers.                               *)

(* Positions in the order of the text.                                     *)
Ascending(s) == \A i, j \in 1..Len(s) : i < j => s[i] < s[j]

LastOf(line) == line[Len(line)]

Offers == {i \in 1..Len(handled) : handled[i].eol}

(* Every variable of parse() has its type; the lines are positions of      *)
(* characters that have come.                                              *)
ParserTypes ==
  /\ pc \in {"out", "recv", "complete", "partial"}
  /\ text \in Seq(Chars)
  /\ cr_ \in BOOLEAN /\ skip_ \in BOOLEAN
  /\ line_ \in Seq(1..Len(text))
  /\ lines_ \in Seq(Seq(1..Len(text)))
  /\ handled \in Seq([line : Seq(1..Len(text)), eol : BOOLEAN, outcome : {"stop", "skip", "next", "none"}])

(* A line has its characters in the order of the text, and the lines that  *)
(* wait or were offered are not empty.                                     *)
LineShape ==
  /\ Ascending(line_)
  /\ \A i \in 1..Len(lines_) : lines_[i] # <<>> /\ Ascending(lines_[i])
  /\ \A i \in 1..Len(handled) : handled[i].line # <<>> /\ Ascending(handled[i].line)

(* The handlers are asked after an ordinary character, which is the last   *)
(* one of the line that has begun; and no line is skipped after a          *)
(* carriage return.                                                        *)
OfferShape ==
  /\ pc \in {"complete", "partial"} =>
       line_ # <<>> /\ LastOf(line_) = Len(text) /\ ~skip_ /\ ~cr_
  /\ cr_ => ~skip_

(* A line that is complete is gone before the next is.                     *)
WaitShape ==
  /\ Len(lines_) <= 1
  /\ (pc = "partial" \/ (pc \in {"recv", "out"} /\ ~Blank(line_))) => lines_ = <<>>

HandledBelow(x) == \A i \in 1..Len(handled) : LastOf(handled[i].line) <= x

LinesBelow(lines, x) == \A k \in 1..Len(lines) : LastOf(lines[k]) <= x

(* Lines wait, and are offered, in the order of the text.                  *)
OrderShape ==
  /\ \A i, j \in 1..Len(handled) : i < j => LastOf(handled[i].line) <= LastOf(handled[j].line)
  /\ \A k \in 1..Len(lines_) : HandledBelow(LastOf(lines_[k]))
  /\ line_ # <<>> => HandledBelow(LastOf(line_)) /\ LinesBelow(lines_, LastOf(line_))

(* skip_ says that a handler gave up the line that the next character      *)
(* belongs to.                                                             *)
SkipShape ==
  skip_ <=> \E q \in GivenUp : \A r \in (q + 1)..Len(text) : text[r] # "LF"

(* The offers of complete lines have an order.                             *)
CompleteShape == \E k \in Seq(Nat) : Ascending(k) /\ Range(k) = Offers

(* line_ has the characters of the line that has begun, or of the line     *)
(* that a carriage return has ended.                                       *)
LineMeans == Range(line_) = Line(IF cr_ THEN Len(text) ELSE Len(text) + 1)

(* The lines that were offered or wait stand, in order, for the ends of    *)
(* the lines of the text.                                                  *)
EndsMean ==
  /\ cr_ => Len(text) \in LineEnds
  /\ \E e \in Seq(Nat) :
       /\ Ascending(e) /\ Range(e) = FullEnds /\ Len(e) = Len(Seen)
       /\ \A i \in 1..Len(e) : Range(Seen[i]) = Line(e[i])

-----------------------------------------------------------------------------
(* Sequences of positions.                                                 *)

(* A set of positions has a first one.                                     *)
LEMMA LeastElement ==
  ASSUME NEW T \in SUBSET Nat, T # {}
  PROVE  \E n \in T : \A m \in T : n <= m
<1>1. PICK n \in T : \A m \in T : <<m, n>> \notin OpToRel(<, Nat)
  BY NatLessThanWellFounded, WFMin
<1>2. ASSUME NEW m \in T
      PROVE  n <= m
  <2>1. <<m, n>> \notin OpToRel(<, Nat) /\ <<m, n>> \in Nat \X Nat
    BY <1>1
  <2> QED
    BY <2>1 DEF OpToRel
<1> QED
  BY <1>2

(* The last position is the highest.                                       *)
LEMMA HighestIsLast ==
  ASSUME NEW s \in Seq(Nat), s # <<>>, Ascending(s)
  PROVE  Max(Range(s)) = LastOf(s)
<1>1. LastOf(s) \in Range(s) /\ LastOf(s) \in Nat
  BY DEF LastOf, Range
<1>2. \A x \in Range(s) : x \in Nat /\ LastOf(s) >= x
  <2> SUFFICES ASSUME NEW i \in 1..Len(s) PROVE s[i] \in Nat /\ LastOf(s) >= s[i]
    BY DEF Range
  <2> QED
    BY DEF LastOf, Ascending
<1> QED
  BY <1>1, <1>2 DEF Max

(* Two ascending enumerations of a set, one of which misses nothing, are   *)
(* the same: where they differ first, each would have the lower position.  *)
LEMMA AscendingUnique ==
  ASSUME NEW n \in Nat, NEW S \in SUBSET Nat,
         NEW r \in [1..n -> S], NEW s \in [1..n -> S],
         \A x \in S : (\E i \in 1..n : r[i] = x) /\ (\E i \in 1..n : s[i] = x),
         \A i, j \in 1..n : i < j => r[i] < r[j] /\ s[i] < s[j]
  PROVE  r = s
<1> DEFINE D == {i \in 1..n : r[i] # s[i]}
<1>1. ASSUME D # {} PROVE FALSE
  <2>1. PICK i \in D : \A j \in D : i <= j
    <3>1. D \in SUBSET Nat
      OBVIOUS
    <3> HIDE DEF D
    <3> QED
      BY <1>1, <3>1, LeastElement
  <2>2. i \in 1..n /\ r[i] # s[i] /\ r[i] \in Nat /\ s[i] \in Nat
    OBVIOUS
  <2>3. \A j \in 1..n : j < i => r[j] = s[j]
    BY <2>1
  <2>4. PICK k \in 1..n : s[k] = r[i]
    OBVIOUS
  <2>5. s[i] < r[i]
    BY <2>2, <2>3, <2>4
  <2>6. PICK m \in 1..n : r[m] = s[i]
    OBVIOUS
  <2>7. r[i] < s[i]
    BY <2>2, <2>3, <2>6
  <2> QED
    BY <2>2, <2>5, <2>7
<1> QED
  BY <1>1

(* So InOrder() is the ascending sequence of a set, if there is one.       *)
LEMMA InOrderIsAscending ==
  ASSUME NEW s \in Seq(Nat), Ascending(s)
  PROVE  InOrder(Range(s)) = s
<1> DEFINE S == Range(s)
           n == Len(s)
<1>1. n \in Nat /\ s \in [1..n -> S] /\ S \in SUBSET Nat
  BY DEF Range
<1>2. \A i, j \in 1..n : i < j => s[i] < s[j]
  BY DEF Ascending
<1>3. \A x \in S : \E i \in 1..n : s[i] = x
  BY DEF Range
<1> HIDE DEF S, n
<1>4. s \in Bijection(1..n, S)
  <2>1. \A i, j \in 1..n : s[i] = s[j] => i = j
    BY <1>1, <1>2
  <2> QED
    BY <1>1, <1>3, <2>1 DEF Bijection, Injection, Surjection, IsInjective
<1>5. Cardinality(S) = n /\ IsFiniteSet(S)
  BY <1>1, <1>4, FS_CountingElements, FS_NatBijection DEF ExistsBijection
<1> DEFINE P(r) == \A i, j \in DOMAIN r : i < j => r[i] < r[j]
<1>6. s \in [1..n -> S] /\ P(s)
  BY <1>1, <1>2
<1>7. InOrder(S) \in [1..n -> S] /\ P(InOrder(S))
  BY <1>5, <1>6 DEF InOrder
<1>8. \A x \in S : \E i \in 1..n : InOrder(S)[i] = x
  <2> DEFINE r == InOrder(S)
  <2>1. r \in [1..n -> S] /\ \A i, j \in 1..n : i < j => r[i] < r[j]
    BY <1>7
  <2> HIDE DEF r
  <2>2. \A i, j \in 1..n : r[i] = r[j] => i = j
    <3>1. \A i \in 1..n : r[i] \in Nat
      BY <1>1, <2>1
    <3> QED
      BY <1>1, <2>1, <3>1
  <2>3. r \in Injection(1..n, S)
    BY <2>1, <2>2 DEF Injection, IsInjective
  <2>4. Cardinality(1..n) = n
    BY <1>1, FS_Interval
  <2>5. r \in Surjection(1..n, S)
    BY <1>5, <2>3, <2>4, FS_Injection
  <2> QED
    BY <2>5 DEF r, Surjection
<1>9. InOrder(S) = s
  BY <1>1, <1>2, <1>3, <1>7, <1>8, AscendingUnique
<1> QED
  BY <1>9 DEF S

(* A position above all others goes to the end.                            *)
LEMMA AppendAscending ==
  ASSUME NEW n \in Nat, NEW s \in Seq(1..n), Ascending(s)
  PROVE  /\ Append(s, n + 1) \in Seq(1..n + 1)
         /\ Append(s, n + 1) # <<>>
         /\ Ascending(Append(s, n + 1))
         /\ Range(Append(s, n + 1)) = Range(s) \cup {n + 1}
         /\ LastOf(Append(s, n + 1)) = n + 1
<1> DEFINE t == Append(s, n + 1)
<1>1. Len(t) = Len(s) + 1 /\ t[Len(s) + 1] = n + 1 /\ \A i \in 1..Len(s) : t[i] = s[i]
  OBVIOUS
<1>2. s \in Seq(1..n + 1) /\ \A i \in 1..Len(s) : s[i] \in 1..n
  OBVIOUS
<1>3. t \in Seq(1..n + 1) /\ t # <<>>
  <2>1. n + 1 \in 1..n + 1
    OBVIOUS
  <2> QED
    BY <1>2, <2>1, AppendProperties
<1> HIDE DEF t
<1>4. Ascending(t)
  BY <1>1, <1>2 DEF Ascending
<1>5. Range(t) = Range(s) \cup {n + 1}
  <2>1. DOMAIN t = 1..Len(s) + 1 /\ DOMAIN s = 1..Len(s)
    BY <1>1, <1>3
  <2> QED
    BY <1>1, <2>1 DEF Range
<1>6. LastOf(t) = n + 1
  BY <1>1 DEF LastOf
<1> QED
  BY <1>3, <1>4, <1>5, <1>6 DEF t

-----------------------------------------------------------------------------
(* What a text means.                                                      *)

(* The fields of what was asked.                                           *)
LEMMA HandledTypes ==
  ASSUME ParserTypes, NEW i \in 1..Len(handled)
  PROVE  /\ handled[i].line \in Seq(1..Len(text))
         /\ handled[i].line \in Seq(Nat)
         /\ handled[i].eol \in BOOLEAN
         /\ handled[i].outcome \in {"stop", "skip", "next", "none"}
<1> DEFINE R == [line : Seq(1..Len(text)), eol : BOOLEAN, outcome : {"stop", "skip", "next", "none"}]
<1>1. handled \in Seq(R) /\ text \in Seq(Chars)
  BY DEF ParserTypes
<1>2. handled[i] \in R
  <2> HIDE DEF R
  <2> QED
    BY <1>1, ElementOfSeq
<1>3. handled[i].line \in Seq(1..Len(text))
  BY <1>2
<1>4. \A l \in Seq(1..Len(text)) : l \in Seq(Nat)
  BY <1>1
<1> QED
  BY <1>2, <1>3, <1>4

(* A handler takes a line at its last character, which is in the text.     *)
LEMMA TakenInText ==
  ASSUME ParserTypes, LineShape
  PROVE  /\ Taken \subseteq 1..Len(text)
         /\ GivenUp \subseteq 1..Len(text)
<1>1. ASSUME NEW h \in Asked
      PROVE  Max(Range(h.line)) \in 1..Len(text)
  <2>1. PICK i \in 1..Len(handled) : h = handled[i]
    BY <1>1 DEF Asked, Range, ParserTypes
  <2>2. h.line \in Seq(1..Len(text)) /\ h.line # <<>> /\ Ascending(h.line)
    <3>1. handled[i].line \in Seq(1..Len(text))
      BY HandledTypes
    <3>2. handled[i].line # <<>> /\ Ascending(handled[i].line)
      BY DEF LineShape
    <3> QED
      BY <2>1, <3>1, <3>2
  <2>3. h.line \in Seq(Nat) /\ LastOf(h.line) \in 1..Len(text)
    BY <2>2 DEF LastOf, ParserTypes
  <2> QED
    BY <2>2, <2>3, HighestIsLast
<1> QED
  BY <1>1 DEF Taken, GivenUp

(* A set of positions that agrees with another up to n has n + 1 or not.   *)
LEMMA OneMore ==
  ASSUME NEW n \in Nat, NEW A \in SUBSET (1..n), NEW B \in SUBSET (1..n + 1), NEW b \in BOOLEAN,
         \A p \in 1..n : p \in B <=> p \in A,
         n + 1 \in B <=> b
  PROVE  B = A \cup (IF b THEN {n + 1} ELSE {})
<1>1. \A p \in 1..n + 1 : p \in 1..n \/ p = n + 1
  OBVIOUS
<1>2. \A p \in 1..n : p \in 1..n + 1 /\ p # n + 1
  OBVIOUS
<1>3. n + 1 \notin A
  OBVIOUS
<1>4. CASE b
  BY <1>1, <1>2, <1>4
<1>5. CASE ~b
  BY <1>1, <1>2, <1>5
<1> QED
  BY <1>4, <1>5

(* A character comes: it is skipped, or it ends the line that had begun,   *)
(* or it belongs to that line.  Nothing changes for what came before.      *)
LEMMA TextGrows ==
  ASSUME ParserTypes, LineShape, SkipShape, NEW c \in Chars,
         text' = Append(text, c), UNCHANGED handled,
         NEW n \in Nat, n = Len(text)
  PROVE  /\ Taken' = Taken /\ GivenUp' = GivenUp
         /\ Skipped' = Skipped \cup (IF skip_ THEN {n + 1} ELSE {})
         /\ LineEnds' = LineEnds \cup (IF ~skip_ /\ c \in {"LF", "CR"} THEN {n + 1} ELSE {})
         /\ \A p \in 1..n + 1 : Line(p)' = Line(p)
         /\ Line(n + 2)' = IF ~skip_ /\ c \in {"LF", "CR"} THEN {}
                           ELSE Line(n + 1) \cup (IF skip_ \/ c = "BS" THEN {} ELSE {n + 1})
<1>1. PICK G, T, Sk, Sk2, E, E2, t : /\ G = GivenUp /\ T = Taken /\ t = text'
                                   /\ Sk = Skipped /\ Sk2 = Skipped' /\ E = LineEnds /\ E2 = LineEnds'
  OBVIOUS
<1>2. Taken' = T /\ GivenUp' = G
  BY <1>1 DEF Taken, GivenUp, Asked
<1>3. T \subseteq 1..n /\ G \subseteq 1..n
  BY <1>1, TakenInText
<1>4. /\ Len(t) = n + 1 /\ t[n + 1] = c
      /\ \A p \in 1..n : t[p] = text[p] /\ text[p] \in Chars
  BY <1>1 DEF ParserTypes
<1>5. skip_ <=> \E q \in G : \A r \in (q + 1)..n : text[r] # "LF"
  BY <1>1 DEF SkipShape
<1>6. /\ Sk \subseteq 1..n
      /\ \A p \in 1..n : p \in Sk <=> \E q \in G : q < p /\ \A r \in (q + 1)..(p - 1) : text[r] # "LF"
  BY <1>1 DEF Skipped
<1>7. /\ Sk2 \subseteq 1..n + 1
      /\ \A p \in 1..n + 1 : p \in Sk2 <=> \E q \in G : q < p /\ \A r \in (q + 1)..(p - 1) : t[r] # "LF"
  BY <1>1, <1>2, <1>4 DEF Skipped
<1>8. E = {p \in (1..n) \ Sk : text[p] \in {"LF", "CR"}}
  BY <1>1 DEF LineEnds
<1>9. E2 = {p \in (1..n + 1) \ Sk2 : t[p] \in {"LF", "CR"}}
  BY <1>1, <1>4 DEF LineEnds
<1>10. \A p : Line(p) = {q \in (1..(p - 1)) \ Sk : text[q] # "BS" /\ \A r \in q..(p - 1) : r \notin E \cup T}
  BY <1>1 DEF Line
<1>11. \A p : Line(p)' = {q \in (1..(p - 1)) \ Sk2 : t[q] # "BS" /\ \A r \in q..(p - 1) : r \notin E2 \cup T}
  BY <1>1, <1>2 DEF Line
<1>12. Sk2 = Sk \cup (IF skip_ THEN {n + 1} ELSE {})
  <2>1. ASSUME NEW p \in 1..n + 1, NEW q \in G
        PROVE  (\A r \in (q + 1)..(p - 1) : t[r] # "LF") <=> (\A r \in (q + 1)..(p - 1) : text[r] # "LF")
    <3>1. \A r \in (q + 1)..(p - 1) : t[r] = text[r]
      BY <1>3, <1>4
    <3> QED
      BY <3>1
  <2>2. ASSUME NEW p \in 1..n
        PROVE  p \in Sk2 <=> p \in Sk
    <3>1. p \in 1..n + 1
      OBVIOUS
    <3> QED
      BY <1>6, <1>7, <2>1, <3>1
  <2>3. n + 1 \in Sk2 <=> skip_
    <3>1. \A q \in G : q < n + 1 /\ (q + 1)..(n + 1 - 1) = (q + 1)..n
      BY <1>3
    <3>2. n + 1 \in Sk2 <=> \E q \in G : q < n + 1 /\ \A r \in (q + 1)..(n + 1 - 1) : text[r] # "LF"
      <4>1. n + 1 \in 1..n + 1
        OBVIOUS
      <4> QED
        BY <1>7, <2>1, <4>1
    <3> QED
      BY <1>5, <3>1, <3>2
  <2> QED
    <3>1. skip_ \in BOOLEAN
      BY DEF ParserTypes
    <3> QED
      BY <1>6, <1>7, <2>2, <2>3, <3>1, OneMore
<1>13. E2 = E \cup (IF ~skip_ /\ c \in {"LF", "CR"} THEN {n + 1} ELSE {})
  BY <1>4, <1>6, <1>8, <1>9, <1>12
<1>14. ASSUME NEW p \in 1..n + 1
       PROVE  Line(p)' = Line(p)
  <2>1. \A q \in 1..(p - 1) : q \in 1..n /\ t[q] = text[q] /\ (q \in Sk2 <=> q \in Sk)
    BY <1>4, <1>12
  <2>2. \A r \in 1..(p - 1) : r \in E2 <=> r \in E
    BY <1>13
  <2>3. {q \in (1..(p - 1)) \ Sk2 : t[q] # "BS" /\ \A r \in q..(p - 1) : r \notin E2 \cup T}
          = {q \in (1..(p - 1)) \ Sk : text[q] # "BS" /\ \A r \in q..(p - 1) : r \notin E \cup T}
    BY <2>1, <2>2
  <2> QED
    BY <1>10, <1>11, <2>3
<1>15. Line(n + 2)' = IF ~skip_ /\ c \in {"LF", "CR"} THEN {}
                     ELSE Line(n + 1) \cup (IF skip_ \/ c = "BS" THEN {} ELSE {n + 1})
  <2>1. PICK L, M : L = Line(n + 2)' /\ M = Line(n + 1)
    OBVIOUS
  <2>2. L = {q \in (1..n + 1) \ Sk2 : t[q] # "BS" /\ \A r \in q..n + 1 : r \notin E2 \cup T}
    <3>1. n + 2 - 1 = n + 1
      OBVIOUS
    <3> QED
      BY <1>11, <2>1, <3>1
  <2>3. M = {q \in (1..n) \ Sk : text[q] # "BS" /\ \A r \in q..n : r \notin E \cup T}
    <3>1. n + 1 - 1 = n
      OBVIOUS
    <3> QED
      BY <1>10, <2>1, <3>1
  <2>4. n + 1 \in E2 <=> ~skip_ /\ c \in {"LF", "CR"}
    BY <1>8, <1>13
  <2>5. n + 1 \notin T
    BY <1>3
  <2>6. n + 1 \in L <=> ~skip_ /\ c \notin {"LF", "CR", "BS"}
    <3>1. n + 1 \in Sk2 <=> skip_
      BY <1>6, <1>12
    <3> QED
      BY <1>4, <2>2, <2>4, <2>5, <3>1
  <2>7. ASSUME NEW q \in 1..n
        PROVE  q \in L <=> (q \in M /\ ~(~skip_ /\ c \in {"LF", "CR"}))
    <3>1. t[q] = text[q] /\ (q \in Sk2 <=> q \in Sk)
      BY <1>4, <1>12
    <3>2. (\A r \in q..n + 1 : r \notin E2 \cup T)
           <=> (\A r \in q..n : r \notin E \cup T) /\ n + 1 \notin E2
      BY <1>13, <2>5
    <3> QED
      BY <2>2, <2>3, <2>4, <3>1, <3>2
  <2>8. L \subseteq 1..n + 1 /\ M \subseteq 1..n
    BY <2>2, <2>3
  <2>9. CASE ~skip_ /\ c \in {"LF", "CR"}
    <3>1. L = {}
      BY <2>6, <2>7, <2>8, <2>9
    <3> QED
      BY <2>1, <2>9, <3>1
  <2>10. CASE ~(~skip_ /\ c \in {"LF", "CR"})
    <3>1. n + 1 \in L <=> ~(skip_ \/ c = "BS")
      BY <2>6, <2>10
    <3>2. \A q \in 1..n : q \in L <=> q \in M
      BY <2>7, <2>10
    <3>3. L = M \cup (IF ~(skip_ \/ c = "BS") THEN {n + 1} ELSE {})
      <4>1. (~(skip_ \/ c = "BS")) \in BOOLEAN
        OBVIOUS
      <4> QED
        BY <2>8, <3>1, <3>2, <4>1, OneMore
    <3> QED
      BY <2>1, <2>10, <3>3
  <2> QED
    BY <2>9, <2>10
<1> QED
  BY <1>1, <1>2, <1>12, <1>13, <1>14, <1>15

(* The character ends a line that is not blank, or leaves the ends as      *)
(* they are.                                                               *)
LEMMA FullEndsGrow ==
  ASSUME ParserTypes, LineShape, SkipShape, NEW c \in Chars,
         text' = Append(text, c), UNCHANGED handled,
         NEW n \in Nat, n = Len(text)
  PROVE  FullEnds' = FullEnds \cup
           (IF ~skip_ /\ c \in {"LF", "CR"} /\ (\E q \in Line(n + 1) : text[q] = "x") THEN {n + 1} ELSE {})
<1>1. PICK E, E2, F, F2, t : /\ E = LineEnds /\ E2 = LineEnds' /\ F = FullEnds /\ F2 = FullEnds' /\ t = text'
  OBVIOUS
<1> DEFINE ends == ~skip_ /\ c \in {"LF", "CR"}
           full == ends /\ \E q \in Line(n + 1) : text[q] = "x"
<1>2. E2 = E \cup (IF ends THEN {n + 1} ELSE {}) /\ \A p \in 1..n + 1 : Line(p)' = Line(p)
  BY <1>1, TextGrows
<1>3. E \subseteq 1..n
  BY <1>1 DEF LineEnds
<1>4. \A p \in 1..n + 1 : Line(p) \subseteq 1..n
  BY DEF Line
<1>5. \A q \in 1..n : t[q] = text[q]
  BY <1>1 DEF ParserTypes
<1>6. F = {p \in E : \E q \in Line(p) : text[q] = "x"}
  BY <1>1 DEF FullEnds
<1>7. F2 = {p \in E2 : \E q \in Line(p)' : t[q] = "x"}
  BY <1>1 DEF FullEnds
<1>8. \A p \in 1..n + 1 : (\E q \in Line(p)' : t[q] = "x") <=> (\E q \in Line(p) : text[q] = "x")
  BY <1>2, <1>4, <1>5
<1>9. \A p \in 1..n : p \in F2 <=> p \in F
  <2>1. \A p \in 1..n : p \in 1..n + 1 /\ p # n + 1
    OBVIOUS
  <2> QED
    BY <1>2, <1>6, <1>7, <1>8, <2>1
<1>10. n + 1 \in F2 <=> full
  <2>1. n + 1 \in 1..n + 1 /\ n + 1 \notin E
    BY <1>3
  <2>2. n + 1 \in E2 <=> ends
    BY <1>2, <2>1
  <2>3. n + 1 \in F2 <=> n + 1 \in E2 /\ \E q \in Line(n + 1)' : t[q] = "x"
    BY <1>7
  <2>4. (\E q \in Line(n + 1)' : t[q] = "x") <=> (\E q \in Line(n + 1) : text[q] = "x")
    BY <1>8, <2>1
  <2> QED
    BY <2>2, <2>3, <2>4
<1>11. F \in SUBSET (1..n) /\ F2 \in SUBSET (1..n + 1)
  <2>1. F \subseteq 1..n
    BY <1>3, <1>6
  <2>2. F2 \subseteq E2
    BY <1>7
  <2>3. 1..n \subseteq 1..n + 1 /\ n + 1 \in 1..n + 1
    OBVIOUS
  <2>4. E2 \subseteq E \cup {n + 1}
    BY <1>2
  <2> QED
    BY <1>3, <2>1, <2>2, <2>3, <2>4
<1>12. full \in BOOLEAN
  OBVIOUS
<1> HIDE DEF full
<1>13. F2 = F \cup (IF full THEN {n + 1} ELSE {})
  BY <1>9, <1>10, <1>11, <1>12, OneMore
<1> QED
  BY <1>1, <1>13 DEF full

(* A line of the text has blanks and other characters, but no ends of      *)
(* lines and no backspaces.                                                *)
LEMMA BlankMeans ==
  ASSUME ParserTypes, NEW p \in 1..Len(text) + 1, NEW line \in Seq(1..Len(text)), Range(line) = Line(p)
  PROVE  ~Blank(line) <=> \E q \in Line(p) : text[q] = "x"
<1>1. ASSUME NEW q \in Line(p)
      PROVE  text[q] \in {"x", " "}
  <2>1. q \in 1..Len(text) /\ q \notin Skipped /\ text[q] # "BS"
    BY DEF Line, ParserTypes
  <2>2. q \notin LineEnds
    BY DEF Line, ParserTypes
  <2>3. text[q] \in Chars
    BY <2>1 DEF ParserTypes
  <2> QED
    BY <2>1, <2>2, <2>3 DEF LineEnds, Chars
<1> QED
  BY <1>1 DEF Blank

(* What has been read stays what it is.                                    *)
LEMMA BlankKept ==
  ASSUME ParserTypes, NEW c \in Chars, text' = Append(text, c), NEW line \in Seq(1..Len(text))
  PROVE  Blank(line)' <=> Blank(line)
<1>1. \A q \in 1..Len(text) : text'[q] = text[q]
  BY DEF ParserTypes
<1>2. Range(line) \subseteq 1..Len(text)
  BY DEF Range
<1> QED
  BY <1>1, <1>2 DEF Blank

-----------------------------------------------------------------------------
(* The lines that were offered.                                            *)

(* The complete lines that were offered, in the order of the offers.       *)
LEMMA CompleteIs ==
  ASSUME ParserTypes, NEW k \in Seq(Nat), Ascending(k), Range(k) = Offers
  PROVE  /\ Complete = [i \in 1..Len(k) |-> handled[k[i]].line]
         /\ Complete \in Seq(Seq(1..Len(text)))
         /\ Len(Complete) = Len(k)
<1>1. DOMAIN handled = 1..Len(handled)
  BY DEF ParserTypes
<1>2. InOrder({i \in DOMAIN handled : handled[i].eol}) = k
  BY <1>1, InOrderIsAscending DEF Offers
<1>3. Complete = [i \in 1..Len(k) |-> handled[k[i]].line]
  <2>1. DOMAIN k = 1..Len(k)
    OBVIOUS
  <2> QED
    BY <1>2, <2>1 DEF Complete
<1>4. ASSUME NEW i \in 1..Len(k)
      PROVE  handled[k[i]].line \in Seq(1..Len(text))
  <2>1. k[i] \in Range(k)
    BY DEF Range
  <2>2. k[i] \in 1..Len(handled)
    BY <2>1 DEF Offers
  <2> QED
    BY <2>2, HandledTypes
<1> QED
  BY <1>3, <1>4

-----------------------------------------------------------------------------
(* Types.                                                                  *)

(* What handle() can have been asked, with lines of positions in S.        *)
Handlings(S) == [line : Seq(S), eol : BOOLEAN, outcome : {"stop", "skip", "next", "none"}]

(* What was a position, a line or an offer still is when the text is       *)
(* longer.                                                                 *)
LEMMA LongerText ==
  ASSUME NEW n \in Nat
  PROVE  /\ Seq(1..n) \subseteq Seq(1..n + 1)
         /\ Seq(Seq(1..n)) \subseteq Seq(Seq(1..n + 1))
         /\ Seq(Handlings(1..n)) \subseteq Seq(Handlings(1..n + 1))
<1>1. 1..n \subseteq 1..n + 1
  OBVIOUS
<1>2. Seq(1..n) \subseteq Seq(1..n + 1)
  BY <1>1, SeqMonotonic
<1>3. Handlings(1..n) \subseteq Handlings(1..n + 1)
  BY <1>2 DEF Handlings
<1> QED
  BY <1>2, <1>3, SeqMonotonic

(* An offer is added at the end.                                           *)
LEMMA HandleTypes ==
  ASSUME ParserTypes, NEW line \in Seq(1..Len(text)), NEW eol \in BOOLEAN, NEW outcome \in Outcomes(eol),
         Handle(line, eol, outcome)
  PROVE  /\ handled' \in Seq(Handlings(1..Len(text)))
         /\ Len(handled') = Len(handled) + 1
         /\ \A i \in 1..Len(handled) : handled'[i] = handled[i]
         /\ handled'[Len(handled) + 1] = [line |-> line, eol |-> eol, outcome |-> outcome]
<1>1. outcome \in {"stop", "skip", "next", "none"}
  BY DEF Outcomes
<1> DEFINE h == [line |-> line, eol |-> eol, outcome |-> outcome]
<1>2. h \in Handlings(1..Len(text))
  BY <1>1 DEF Handlings
<1>3. handled' = Append(handled, h) /\ handled \in Seq(Handlings(1..Len(text)))
  BY DEF Handle, ParserTypes, Handlings
<1> HIDE DEF h
<1>4. /\ handled' \in Seq(Handlings(1..Len(text)))
      /\ Len(handled') = Len(handled) + 1
      /\ \A i \in 1..Len(handled) : handled'[i] = handled[i]
      /\ handled'[Len(handled) + 1] = h
  BY <1>2, <1>3, AppendProperties
<1> QED
  BY <1>4 DEF h

(* The end of a line adds it to the lines that wait.                       *)
LEMMA LinesWithTypes ==
  ASSUME ParserTypes
  PROVE  LinesWith \in Seq(Seq(1..Len(text)))
<1>1. line_ \in Seq(1..Len(text)) /\ lines_ \in Seq(Seq(1..Len(text)))
  BY DEF ParserTypes
<1>2. Append(lines_, line_) \in Seq(Seq(1..Len(text)))
  BY <1>1, AppendProperties
<1> QED
  BY <1>1, <1>2 DEF LinesWith

(* What an ordinary character makes of the line that has begun.            *)
Grown(c) == (IF cr_ THEN <<>> ELSE line_) \o (IF c \in {"CR", "BS"} THEN <<>> ELSE <<Len(text) + 1>>)

(* An ordinary character goes to the end of the line, or begins one after  *)
(* a carriage return; a backspace and a carriage return add nothing.       *)
LEMMA GrownIs ==
  ASSUME ParserTypes, Ascending(line_), NEW c \in Chars, NEW n \in Nat, n = Len(text)
  PROVE  /\ Grown(c) = IF c \in {"CR", "BS"} THEN (IF cr_ THEN <<>> ELSE line_)
                       ELSE Append(IF cr_ THEN <<>> ELSE line_, n + 1)
         /\ Grown(c) \in Seq(1..n + 1)
         /\ Ascending(Grown(c))
         /\ c \notin {"CR", "BS"} => /\ Grown(c) # <<>> /\ LastOf(Grown(c)) = n + 1
                                     /\ Range(Grown(c)) = Range(IF cr_ THEN <<>> ELSE line_) \cup {n + 1}
<1> DEFINE b == IF cr_ THEN <<>> ELSE line_
<1>1. b \in Seq(1..n) /\ Ascending(b)
  <2>1. line_ \in Seq(1..n) /\ Ascending(line_)
    BY DEF ParserTypes
  <2>2. <<>> \in Seq(1..n) /\ Ascending(<<>>)
    BY DEF Ascending
  <2> QED
    BY <2>1, <2>2
<1>2. b \in Seq(1..n + 1)
  BY <1>1, LongerText
<1> HIDE DEF b
<1>3. CASE c \in {"CR", "BS"}
  <2>1. Grown(c) = b \o <<>>
    BY <1>3 DEF Grown, b
  <2>2. b \o <<>> = b
    BY <1>1, ConcatEmptySeq
  <2> QED
    BY <1>1, <1>2, <1>3, <2>1, <2>2 DEF b
<1>4. CASE c \notin {"CR", "BS"}
  <2>1. Grown(c) = b \o <<n + 1>>
    BY <1>4 DEF Grown, b
  <2>2. b \o <<n + 1>> = Append(b, n + 1)
    BY <1>1
  <2>3. /\ Append(b, n + 1) \in Seq(1..n + 1) /\ Append(b, n + 1) # <<>>
        /\ Ascending(Append(b, n + 1)) /\ LastOf(Append(b, n + 1)) = n + 1
        /\ Range(Append(b, n + 1)) = Range(b) \cup {n + 1}
    BY <1>1, AppendAscending
  <2> QED
    BY <1>4, <2>1, <2>2, <2>3 DEF b
<1> QED
  BY <1>3, <1>4

(* What run() and parse() do with a character, as far as the first         *)
(* handler.                                                                *)
ReadStep(c) ==
  /\ pc = "recv" /\ text' = Append(text, c) /\ UNCHANGED handled
  /\ Len(text') = Len(text) + 1 /\ text' \in Seq(Chars)
  /\ pc' \in {"recv", "complete"}
  /\ \/ /\ skip_ /\ skip_' = (c # "LF") /\ pc' = "recv"
        /\ UNCHANGED <<cr_, line_, lines_>>
     \/ /\ ~skip_ /\ c = "LF" /\ skip_' = FALSE /\ pc' = "recv"
        /\ lines_' = LinesWith /\ line_' = <<>> /\ cr_' = FALSE
     \/ /\ ~skip_ /\ c # "LF" /\ skip_' = FALSE
        /\ lines_' = (IF cr_ THEN LinesWith ELSE lines_)
        /\ line_' = Grown(c) /\ cr_' = (c = "CR")
        /\ pc' = IF c \in {"CR", "BS"} THEN "recv" ELSE "complete"

(* A character changes the text and what parse() keeps of it.              *)
LEMMA ParseStep ==
  ASSUME ParserTypes, LineShape, Parse
  PROVE  \E c \in Chars : ReadStep(c)
<1>1. PICK c \in Chars : text' = Append(text, c) /\ (Skip(c) \/ EndOfLine(c) \/ Ordinary(c))
  BY DEF Parse
<1>2. pc = "recv" /\ UNCHANGED handled
  BY DEF Parse
<1>3. text \in Seq(Chars) /\ skip_ \in BOOLEAN
  BY DEF ParserTypes
<1>4. Len(text') = Len(text) + 1 /\ text' \in Seq(Chars)
  BY <1>1, <1>3, AppendProperties
<1>5. CASE Skip(c)
  <2>1. skip_ /\ skip_' = (c # "LF") /\ pc' = "recv" /\ UNCHANGED <<cr_, line_, lines_>>
    BY <1>5 DEF Skip
  <2> QED
    BY <1>1, <1>2, <1>4, <2>1 DEF ReadStep
<1>6. CASE EndOfLine(c)
  <2>1. /\ ~skip_ /\ c = "LF" /\ skip_' = FALSE /\ pc' = "recv"
        /\ lines_' = LinesWith /\ line_' = <<>> /\ cr_' = FALSE
    BY <1>3, <1>6 DEF EndOfLine
  <2> QED
    BY <1>1, <1>2, <1>4, <2>1 DEF ReadStep
<1>7. CASE Ordinary(c)
  <2>1. /\ ~skip_ /\ c # "LF" /\ skip_' = FALSE
        /\ lines_' = (IF cr_ THEN LinesWith ELSE lines_)
        /\ line_' = Grown(c) /\ cr_' = (c = "CR")
        /\ pc' = IF c \in {"CR", "BS"} THEN "recv" ELSE "complete"
    BY <1>3, <1>7 DEF Ordinary, Grown
  <2> QED
    BY <1>1, <1>2, <1>4, <2>1 DEF ReadStep
<1> QED
  BY <1>1, <1>5, <1>6, <1>7

(* No step of run(), parse() or a handler breaks the types.                *)
LEMMA ParserTypesKept ==
  ASSUME ParserTypes, LineShape, [ParserNext]_parserVars
  PROVE  ParserTypes'
<1> DEFINE n == Len(text)
<1>0. /\ n \in Nat /\ text \in Seq(Chars) /\ line_ \in Seq(1..n) /\ lines_ \in Seq(Seq(1..n))
      /\ handled \in Seq(Handlings(1..n)) /\ cr_ \in BOOLEAN /\ skip_ \in BOOLEAN
      /\ pc \in {"out", "recv", "complete", "partial"}
  BY DEF ParserTypes, Handlings
<1> DEFINE Types == /\ pc' \in {"out", "recv", "complete", "partial"}
                    /\ text' \in Seq(Chars)
                    /\ cr_' \in BOOLEAN /\ skip_' \in BOOLEAN
                    /\ line_' \in Seq(1..Len(text'))
                    /\ lines_' \in Seq(Seq(1..Len(text')))
                    /\ handled' \in Seq(Handlings(1..Len(text')))
<1>1. SUFFICES Types
  BY DEF ParserTypes, Handlings
<1>2. CASE Parse
  <2>1. PICK c \in Chars : ReadStep(c)
    BY <1>2, ParseStep
  <2>2. /\ line_ \in Seq(1..n + 1) /\ lines_ \in Seq(Seq(1..n + 1))
        /\ handled \in Seq(Handlings(1..n + 1)) /\ LinesWith \in Seq(Seq(1..n + 1))
    BY <1>0, LongerText, LinesWithTypes
  <2>3. Grown(c) \in Seq(1..n + 1)
    BY <1>0, GrownIs DEF LineShape
  <2>4. <<>> \in Seq(1..n + 1)
    OBVIOUS
  <2> HIDE DEF n
  <2>5. line_' \in Seq(1..n + 1) /\ lines_' \in Seq(Seq(1..n + 1)) /\ handled' \in Seq(Handlings(1..n + 1))
    BY <2>1, <2>2, <2>3, <2>4 DEF ReadStep
  <2>6. cr_' \in BOOLEAN /\ skip_' \in BOOLEAN
    BY <1>0, <2>1 DEF ReadStep
  <2> QED
    BY <2>1, <2>5, <2>6 DEF n, ReadStep
<1>3. CASE CompleteLine
  <2>1. /\ pc' \in {"out", "complete"} /\ UNCHANGED <<text, cr_, skip_, line_>>
        /\ lines_ # <<>> /\ lines_' = Tail(lines_)
    BY <1>3 DEF CompleteLine
  <2>2. PICK outcome \in Outcomes(TRUE) : Handle(Head(lines_), TRUE, outcome)
    BY <1>3 DEF CompleteLine
  <2>3. Head(lines_) \in Seq(1..n) /\ Tail(lines_) \in Seq(Seq(1..n))
    BY <1>0, <2>1, HeadTailProperties
  <2>4. handled' \in Seq(Handlings(1..n))
    BY <2>2, <2>3, HandleTypes
  <2> QED
    BY <1>0, <2>1, <2>3, <2>4
<1>4. CASE PartialLine
  <2>1. UNCHANGED <<text, cr_, lines_>>
    BY <1>4 DEF PartialLine
  <2>2. PICK outcome \in Outcomes(FALSE) :
          /\ Handle(line_, FALSE, outcome) /\ pc' = (IF outcome = "stop" THEN "out" ELSE "recv")
          /\ skip_' = (outcome = "skip")
          /\ line_' = IF outcome \in {"skip", "next"} THEN <<>> ELSE line_
    BY <1>4 DEF PartialLine
  <2>3. handled' \in Seq(Handlings(1..n))
    BY <1>0, <2>2, HandleTypes
  <2>4. line_' \in Seq(1..n)
    <3>1. <<>> \in Seq(1..n)
      OBVIOUS
    <3> QED
      BY <1>0, <2>2, <3>1
  <2> QED
    BY <1>0, <2>1, <2>2, <2>3, <2>4
<1>5. CASE BlankLine \/ ParserRun \/ Failed \/ UNCHANGED parserVars
  <2>1. pc' \in {"out", "recv", "complete", "partial"} /\ UNCHANGED <<text, cr_, skip_, line_, lines_, handled>>
    BY <1>0, <1>5 DEF BlankLine, ParserRun, Failed, parserVars
  <2> QED
    BY <1>0, <2>1
<1> QED
  BY <1>2, <1>3, <1>4, <1>5 DEF ParserNext

-----------------------------------------------------------------------------
(* The shape of the lines.                                                 *)

(* A line that is worth an offer.                                          *)
Whole(line) == line # <<>> /\ Ascending(line)

AllWhole(lines) == \A i \in 1..Len(lines) : Whole(lines[i])

(* The empty line has no characters, and counts as blank.                  *)
LEMMA EmptyLine ==
  /\ Range(<<>>) = {} /\ Ascending(<<>>) /\ Blank(<<>>)
<1>1. Range(<<>>) = {}
  BY DEF Range
<1>2. Blank(<<>>)
  BY <1>1 DEF Blank
<1>3. Ascending(<<>>)
  BY DEF Ascending
<1> QED
  BY <1>1, <1>2, <1>3

(* Only a line that is not blank is added.                                 *)
LEMMA WholeLinesWith ==
  ASSUME ParserTypes, LineShape
  PROVE  AllWhole(LinesWith)
<1>1. line_ \in Seq(1..Len(text)) /\ lines_ \in Seq(Seq(1..Len(text))) /\ AllWhole(lines_)
  BY DEF ParserTypes, LineShape, AllWhole, Whole
<1>2. CASE Blank(line_)
  BY <1>1, <1>2 DEF LinesWith
<1>3. CASE ~Blank(line_)
  <2>1. line_ # <<>>
    BY <1>3, EmptyLine
  <2>2. Whole(line_)
    BY <2>1 DEF LineShape, Whole
  <2>3. /\ Len(Append(lines_, line_)) = Len(lines_) + 1
        /\ Append(lines_, line_)[Len(lines_) + 1] = line_
        /\ \A i \in 1..Len(lines_) : Append(lines_, line_)[i] = lines_[i]
    BY <1>1, AppendProperties
  <2>4. AllWhole(Append(lines_, line_))
    BY <1>1, <2>2, <2>3 DEF AllWhole
  <2> QED
    BY <1>3, <2>4 DEF LinesWith
<1> QED
  BY <1>2, <1>3

(* No step breaks a line up.                                               *)
LEMMA LineShapeKept ==
  ASSUME ParserTypes, LineShape, [ParserNext]_parserVars
  PROVE  LineShape'
<1> DEFINE n == Len(text)
<1>0. /\ n \in Nat /\ line_ \in Seq(1..n) /\ lines_ \in Seq(Seq(1..n)) /\ handled \in Seq(Handlings(1..n))
      /\ Ascending(line_) /\ AllWhole(lines_) /\ \A i \in 1..Len(handled) : Whole(handled[i].line)
  <2>1. n \in Nat /\ line_ \in Seq(1..n) /\ lines_ \in Seq(Seq(1..n)) /\ handled \in Seq(Handlings(1..n))
    BY DEF ParserTypes, Handlings
  <2>2. Ascending(line_) /\ AllWhole(lines_) /\ \A i \in 1..Len(handled) : Whole(handled[i].line)
    BY DEF LineShape, AllWhole, Whole
  <2> QED
    BY <2>1, <2>2
<1> DEFINE Shape == /\ Ascending(line_') /\ AllWhole(lines_')
                    /\ \A i \in 1..Len(handled') : Whole(handled'[i].line)
<1>1. SUFFICES Shape
  BY DEF LineShape, AllWhole, Whole, Ascending
<1>2. Ascending(<<>>)
  BY DEF Ascending
<1>3. ASSUME NEW line \in Seq(1..n), NEW eol \in BOOLEAN, NEW outcome \in Outcomes(eol),
             Handle(line, eol, outcome), Whole(line)
      PROVE  \A i \in 1..Len(handled') : Whole(handled'[i].line)
  <2>1. /\ Len(handled') = Len(handled) + 1
        /\ \A i \in 1..Len(handled) : handled'[i] = handled[i]
        /\ handled'[Len(handled) + 1] = [line |-> line, eol |-> eol, outcome |-> outcome]
    BY <1>3, HandleTypes
  <2>2. handled'[Len(handled) + 1].line = line
    BY <2>1
  <2> QED
    <3>1. \A i \in 1..Len(handled) + 1 : i \in 1..Len(handled) \/ i = Len(handled) + 1
      BY <1>0
    <3> QED
      BY <1>0, <1>3, <2>1, <2>2, <3>1
<1>4. CASE Parse
  <2>1. PICK c \in Chars : ReadStep(c)
    BY <1>4, ParseStep
  <2>2. Ascending(Grown(c))
    BY <1>0, GrownIs
  <2>3. AllWhole(LinesWith)
    BY WholeLinesWith
  <2> QED
    BY <1>0, <1>2, <2>1, <2>2, <2>3 DEF ReadStep
<1>5. CASE CompleteLine
  <2>1. UNCHANGED line_ /\ lines_ # <<>> /\ lines_' = Tail(lines_)
    BY <1>5 DEF CompleteLine
  <2>2. PICK outcome \in Outcomes(TRUE) : Handle(Head(lines_), TRUE, outcome)
    BY <1>5 DEF CompleteLine
  <2>3. /\ Head(lines_) \in Seq(1..n) /\ Whole(Head(lines_))
        /\ Len(Tail(lines_)) = Len(lines_) - 1
        /\ \A i \in 1..Len(Tail(lines_)) : Tail(lines_)[i] = lines_[i + 1]
    BY <1>0, <2>1, HeadTailProperties DEF AllWhole
  <2>4. AllWhole(Tail(lines_))
    <3>1. \A i \in 1..Len(Tail(lines_)) : i + 1 \in 1..Len(lines_)
      BY <1>0, <2>3
    <3> QED
      BY <1>0, <2>3, <3>1 DEF AllWhole
  <2>5. \A i \in 1..Len(handled') : Whole(handled'[i].line)
    BY <1>3, <2>2, <2>3
  <2> QED
    BY <1>0, <2>1, <2>4, <2>5
<1>6. CASE PartialLine
  <2>1. UNCHANGED lines_ /\ ~Blank(line_)
    BY <1>6 DEF PartialLine
  <2>2. PICK outcome \in Outcomes(FALSE) :
          /\ Handle(line_, FALSE, outcome)
          /\ line_' = IF outcome \in {"skip", "next"} THEN <<>> ELSE line_
    BY <1>6 DEF PartialLine
  <2>3. Whole(line_)
    BY <1>0, <2>1, EmptyLine DEF Whole
  <2>4. \A i \in 1..Len(handled') : Whole(handled'[i].line)
    BY <1>0, <1>3, <2>2, <2>3
  <2> QED
    BY <1>0, <1>2, <2>1, <2>2, <2>4
<1>7. CASE BlankLine \/ ParserRun \/ Failed \/ UNCHANGED parserVars
  <2>1. UNCHANGED <<line_, lines_, handled>>
    BY <1>7 DEF BlankLine, ParserRun, Failed, parserVars
  <2> QED
    BY <1>0, <2>1
<1> QED
  BY <1>4, <1>5, <1>6, <1>7 DEF ParserNext

(* The handlers are only asked with the character that has just come.      *)
LEMMA OfferShapeKept ==
  ASSUME ParserTypes, LineShape, OfferShape, [ParserNext]_parserVars
  PROVE  OfferShape'
<1> DEFINE Shape(p, l, t, k, r) ==
      /\ p \in {"complete", "partial"} => l # <<>> /\ LastOf(l) = Len(t) /\ ~k /\ ~r
      /\ r => ~k
<1>1. Shape(pc, line_, text, skip_, cr_)
  BY DEF OfferShape
<1>2. SUFFICES Shape(pc', line_', text', skip_', cr_')
  BY DEF OfferShape, LastOf
<1>3. CASE Parse
  <2>1. PICK c \in Chars : ReadStep(c)
    BY <1>3, ParseStep
  <2>2. c \notin {"CR", "BS"} => Grown(c) # <<>> /\ LastOf(Grown(c)) = Len(text) + 1
    <3>1. Ascending(line_) /\ Len(text) \in Nat
      BY DEF ParserTypes, LineShape
    <3> QED
      BY <3>1, GrownIs
  <2>3. text' = Append(text, c) /\ Len(text') = Len(text) + 1 /\ cr_ \in BOOLEAN /\ skip_ \in BOOLEAN
    BY <2>1 DEF ReadStep, ParserTypes
  <2>4. CASE skip_ /\ pc' = "recv" /\ UNCHANGED <<cr_, line_, lines_>>
    BY <1>1, <2>3, <2>4
  <2>5. CASE skip_' = FALSE /\ pc' = "recv"
    BY <2>5
  <2>6. CASE c \notin {"CR", "BS", "LF"} /\ skip_' = FALSE /\ line_' = Grown(c) /\ cr_' = (c = "CR")
    BY <2>2, <2>3, <2>6
  <2> QED
    BY <2>1, <2>4, <2>5, <2>6 DEF ReadStep
<1>4. CASE CompleteLine
  <2>1. pc = "complete" /\ UNCHANGED <<text, cr_, skip_, line_>>
    BY <1>4 DEF CompleteLine
  <2> QED
    BY <1>1, <2>1
<1>5. CASE PartialLine
  <2>1. pc = "partial" /\ pc' \in {"out", "recv"} /\ cr_' = cr_
    BY <1>5 DEF PartialLine
  <2> QED
    BY <1>1, <2>1
<1>6. CASE BlankLine \/ ParserRun \/ Failed \/ UNCHANGED parserVars
  <2>1. /\ pc' \in {"complete", "partial"} => pc \in {"complete", "partial"}
        /\ UNCHANGED <<text, cr_, skip_, line_>>
    BY <1>6 DEF BlankLine, ParserRun, Failed, parserVars
  <2> QED
    BY <1>1, <2>1
<1> QED
  BY <1>3, <1>4, <1>5, <1>6 DEF ParserNext

(* Of one line nothing is left when it is taken.                           *)
LEMMA OnlyOne ==
  ASSUME NEW S, NEW s \in Seq(S), s # <<>>, Len(s) <= 1
  PROVE  Len(s) = 1 /\ Head(s) = s[1] /\ Tail(s) = <<>>
<1>1. Len(s) \in Nat \ {0}
  BY EmptySeq
<1>2. Tail(s) \in Seq(S) /\ Len(Tail(s)) = Len(s) - 1
  BY HeadTailProperties
<1>3. Len(Tail(s)) = 0
  BY <1>1, <1>2
<1>4. Tail(s) = <<>>
  BY <1>2, <1>3, EmptySeq
<1>5. Len(s) = 1
  BY <1>1
<1>6. Head(s) = s[1]
  OBVIOUS
<1> QED
  BY <1>4, <1>5, <1>6

(* No step adds a complete line while another one waits.                   *)
LEMMA WaitShapeKept ==
  ASSUME ParserTypes, LineShape, WaitShape, [ParserNext]_parserVars
  PROVE  WaitShape'
<1>0. /\ line_ \in Seq(1..Len(text)) /\ lines_ \in Seq(Seq(1..Len(text)))
      /\ Len(lines_) <= 1
      /\ (pc = "partial" \/ (pc \in {"recv", "out"} /\ ~Blank(line_))) => lines_ = <<>>
  BY DEF ParserTypes, WaitShape
<1> DEFINE Waits == /\ Len(lines_') <= 1
                    /\ (pc' = "partial" \/ (pc' \in {"recv", "out"} /\ ~Blank(line_)')) => lines_' = <<>>
<1>1. SUFFICES Waits
  BY DEF WaitShape
<1>2. CASE Parse
  <2>1. PICK c \in Chars : ReadStep(c)
    BY <1>2, ParseStep
  <2>2. pc = "recv" /\ text' = Append(text, c) /\ pc' \in {"recv", "complete"}
    BY <2>1 DEF ReadStep
  <2>3. Blank(line_) <=> (\A q \in Range(line_) : text'[q] = " ")
    BY <1>0, <2>2, BlankKept DEF Blank
  <2>4. line_' = line_ => (Blank(line_)' <=> Blank(line_))
    BY <2>3 DEF Blank
  <2>5. line_' = <<>> => Blank(line_)'
    BY EmptyLine DEF Blank
  <2>6. Len(LinesWith) <= 1
    <3>1. CASE Blank(line_)
      BY <1>0, <3>1 DEF LinesWith
    <3>2. CASE ~Blank(line_)
      <4>1. lines_ = <<>>
        BY <1>0, <2>2, <3>2
      <4>2. LinesWith = Append(lines_, line_)
        BY <3>2 DEF LinesWith
      <4> QED
        BY <1>0, <4>1, <4>2, AppendProperties
    <3> QED
      BY <3>1, <3>2
  <2>7. CASE skip_ /\ UNCHANGED <<cr_, line_, lines_>>
    BY <1>0, <2>2, <2>4, <2>7
  <2>8. CASE lines_' = LinesWith /\ line_' = <<>>
    BY <2>2, <2>5, <2>6, <2>8
  <2>9. CASE /\ lines_' = (IF cr_ THEN LinesWith ELSE lines_) /\ line_' = Grown(c)
             /\ pc' = IF c \in {"CR", "BS"} THEN "recv" ELSE "complete"
    <3>1. c \in {"CR", "BS"} => Grown(c) = IF cr_ THEN <<>> ELSE line_
      BY GrownIs DEF ParserTypes, LineShape
    <3>2. CASE c \in {"CR", "BS"} /\ cr_
      BY <2>5, <2>6, <2>9, <3>1, <3>2
    <3>3. CASE c \in {"CR", "BS"} /\ ~cr_
      BY <1>0, <2>2, <2>4, <2>9, <3>1, <3>3
    <3>4. CASE c \notin {"CR", "BS"}
      BY <1>0, <2>6, <2>9, <3>4
    <3> QED
      BY <3>2, <3>3, <3>4
  <2> QED
    BY <2>1, <2>7, <2>8, <2>9 DEF ReadStep
<1>3. CASE CompleteLine
  <2>1. lines_ # <<>> /\ lines_' = Tail(lines_)
    BY <1>3 DEF CompleteLine
  <2>2. lines_' = <<>>
    BY <1>0, <2>1
  <2> QED
    BY <2>2
<1>4. CASE PartialLine
  <2>1. pc = "partial" /\ UNCHANGED lines_
    BY <1>4 DEF PartialLine
  <2> QED
    BY <1>0, <2>1
<1>5. CASE BlankLine \/ ParserRun \/ Failed \/ UNCHANGED parserVars
  <2>1. UNCHANGED <<line_, lines_, text>>
    BY <1>5 DEF BlankLine, ParserRun, Failed, parserVars
  <2>2. Blank(line_)' <=> Blank(line_)
    BY <2>1 DEF Blank
  <2>3. \/ lines_ = <<>>
        \/ pc = "partial" /\ pc' = "recv" /\ Blank(line_)
        \/ pc \in {"out", "recv"} /\ pc' \in {"out", "recv"}
        \/ pc' = pc
    BY <1>5 DEF BlankLine, ParserRun, Failed, parserVars
  <2> QED
    BY <1>0, <2>1, <2>2, <2>3
<1> QED
  BY <1>2, <1>3, <1>4, <1>5 DEF ParserNext

(* No step puts a line before one that was offered.                        *)
LEMMA OrderShapeKept ==
  ASSUME ParserTypes, LineShape, OrderShape, WaitShape, [ParserNext]_parserVars
  PROVE  OrderShape'
<1> DEFINE n == Len(text)
           m == Len(handled)
           A(i) == LastOf(handled[i].line)
<1>0. /\ n \in Nat /\ m \in Nat /\ line_ \in Seq(1..n) /\ lines_ \in Seq(Seq(1..n))
      /\ \A i \in 1..m : A(i) \in 1..n
      /\ \A k \in 1..Len(lines_) : LastOf(lines_[k]) \in 1..n
      /\ line_ # <<>> => LastOf(line_) \in 1..n
  <2>1. n \in Nat /\ m \in Nat /\ line_ \in Seq(1..n) /\ lines_ \in Seq(Seq(1..n))
    BY DEF ParserTypes
  <2>2. ASSUME NEW l \in Seq(1..n), l # <<>>
        PROVE  LastOf(l) \in 1..n
    BY <2>1, <2>2 DEF LastOf
  <2>3. \A i \in 1..m : handled[i].line \in Seq(1..n) /\ handled[i].line # <<>>
    BY HandledTypes DEF LineShape
  <2>4. \A k \in 1..Len(lines_) : lines_[k] \in Seq(1..n) /\ lines_[k] # <<>>
    BY <2>1 DEF LineShape
  <2> QED
    BY <2>1, <2>2, <2>3, <2>4
<1>1. /\ \A i, j \in 1..m : i < j => A(i) <= A(j)
      /\ \A k \in 1..Len(lines_) : HandledBelow(LastOf(lines_[k]))
      /\ line_ # <<>> => HandledBelow(LastOf(line_)) /\ LinesBelow(lines_, LastOf(line_))
  BY DEF OrderShape
<1>2. CASE Parse
  <2>1. PICK c \in Chars : ReadStep(c)
    BY <1>2, ParseStep
  <2>2. handled' = handled
    BY <2>1 DEF ReadStep
  <2>3. /\ \A k \in 1..Len(LinesWith) : HandledBelow(LastOf(LinesWith[k]))
        /\ LinesBelow(LinesWith, n + 1)
    <3>1. CASE Blank(line_)
      BY <1>0, <1>1, <3>1 DEF LinesWith, LinesBelow
    <3>2. CASE ~Blank(line_)
      <4>1. line_ # <<>>
        BY <3>2, EmptyLine
      <4>2. /\ Len(LinesWith) = Len(lines_) + 1 /\ LinesWith[Len(lines_) + 1] = line_
            /\ \A k \in 1..Len(lines_) : LinesWith[k] = lines_[k]
        BY <1>0, <3>2, AppendProperties DEF LinesWith
      <4>3. \A k \in 1..Len(LinesWith) : k \in 1..Len(lines_) \/ k = Len(lines_) + 1
        BY <1>0, <4>2
      <4>4. \A k \in 1..Len(LinesWith) : HandledBelow(LastOf(LinesWith[k]))
        BY <1>1, <4>1, <4>2, <4>3
      <4>5. \A k \in 1..Len(LinesWith) : LastOf(LinesWith[k]) \in 1..n
        BY <1>0, <4>1, <4>2, <4>3
      <4>6. LinesBelow(LinesWith, n + 1)
        BY <1>0, <4>5 DEF LinesBelow
      <4> QED
        BY <4>4, <4>6
    <3> QED
      BY <3>1, <3>2
  <2>4. LinesBelow(lines_, n + 1) /\ HandledBelow(n + 1)
    BY <1>0 DEF LinesBelow, HandledBelow
  <2>5. /\ c \in {"CR", "BS"} => Grown(c) = IF cr_ THEN <<>> ELSE line_
        /\ c \notin {"CR", "BS"} => LastOf(Grown(c)) = n + 1
    BY GrownIs DEF ParserTypes, LineShape
  <2> DEFINE L == lines_'
             l == line_'
  <2>6. /\ \A k \in 1..Len(L) : HandledBelow(LastOf(L[k]))
        /\ l # <<>> => HandledBelow(LastOf(l)) /\ LinesBelow(L, LastOf(l))
    <3>1. CASE UNCHANGED <<line_, lines_>>
      BY <1>1, <3>1
    <3>2. CASE lines_' = LinesWith /\ line_' = <<>>
      BY <2>3, <3>2
    <3>3. CASE lines_' = (IF cr_ THEN LinesWith ELSE lines_) /\ line_' = Grown(c)
      BY <1>1, <2>3, <2>4, <2>5, <3>3
    <3> QED
      BY <2>1, <3>1, <3>2, <3>3 DEF ReadStep
  <2> QED
    BY <1>1, <2>2, <2>6 DEF OrderShape, HandledBelow, LinesBelow, LastOf
<1>3. ASSUME NEW line \in Seq(1..n), NEW eol \in BOOLEAN, NEW outcome \in Outcomes(eol),
             Handle(line, eol, outcome), HandledBelow(LastOf(line)), line # <<>>
      PROVE  /\ Len(handled') = m + 1
             /\ \A i, j \in 1..m + 1 : i < j => LastOf(handled'[i].line) <= LastOf(handled'[j].line)
             /\ \A i \in 1..m + 1 : LastOf(handled'[i].line) <= LastOf(line)
  <2>1. /\ Len(handled') = m + 1
        /\ \A i \in 1..m : handled'[i] = handled[i]
        /\ handled'[m + 1] = [line |-> line, eol |-> eol, outcome |-> outcome]
    BY <1>3, HandleTypes
  <2>2. handled'[m + 1].line = line /\ LastOf(line) \in 1..n
    BY <1>0, <1>3, <2>1 DEF LastOf
  <2>3. \A i \in 1..m : A(i) <= LastOf(line)
    BY <1>3 DEF HandledBelow
  <2> DEFINE B(i) == LastOf(handled'[i].line)
  <2>4. (\A i \in 1..m : B(i) = A(i)) /\ B(m + 1) = LastOf(line)
    BY <2>1, <2>2
  <2> HIDE DEF A, B, m, n
  <2>5. \A i \in 1..m + 1 : i \in 1..m \/ i = m + 1
    BY <1>0
  <2>6. ASSUME NEW i \in 1..m + 1, NEW j \in 1..m + 1, i < j
        PROVE  B(i) <= B(j)
    <3>1. i \in 1..m
      BY <1>0, <2>6
    <3>2. CASE j \in 1..m
      BY <1>1, <2>4, <2>6, <3>1, <3>2
    <3>3. CASE j = m + 1
      BY <2>3, <2>4, <3>1, <3>3
    <3> QED
      BY <2>5, <3>2, <3>3
  <2>7. \A i \in 1..m + 1 : B(i) <= LastOf(line)
    BY <1>0, <2>2, <2>3, <2>4, <2>5
  <2> QED
    BY <2>1, <2>6, <2>7 DEF B
<1>4. CASE CompleteLine
  <2>1. UNCHANGED line_ /\ lines_ # <<>> /\ lines_' = Tail(lines_)
    BY <1>4 DEF CompleteLine
  <2>2. PICK outcome \in Outcomes(TRUE) : Handle(Head(lines_), TRUE, outcome)
    BY <1>4 DEF CompleteLine
  <2>3. Len(lines_) = 1 /\ lines_' = <<>> /\ Head(lines_) = lines_[1]
    <3>1. lines_ \in Seq(Seq(1..n)) /\ Len(lines_) <= 1
      BY <1>0 DEF WaitShape
    <3> QED
      BY <2>1, <3>1, OnlyOne
  <2>4. /\ lines_[1] \in Seq(1..n) /\ lines_[1] # <<>> /\ HandledBelow(LastOf(lines_[1]))
        /\ line_ # <<>> => LastOf(lines_[1]) <= LastOf(line_)
    <3>1. 1 \in 1..Len(lines_)
      BY <2>3
    <3>2. lines_[1] \in Seq(1..n)
      BY <1>0, <3>1, ElementOfSeq
    <3>3. lines_[1] # <<>>
      BY <3>1 DEF LineShape
    <3>4. line_ # <<>> => LinesBelow(lines_, LastOf(line_))
      BY <1>1
    <3> QED
      BY <1>1, <3>1, <3>2, <3>3, <3>4 DEF LinesBelow
  <2>5. /\ Len(handled') = m + 1
        /\ \A i, j \in 1..m + 1 : i < j => LastOf(handled'[i].line) <= LastOf(handled'[j].line)
        /\ \A i \in 1..m + 1 : LastOf(handled'[i].line) <= LastOf(lines_[1])
    BY <1>3, <2>2, <2>3, <2>4
  <2>6. line_ # <<>> => \A i \in 1..m + 1 : LastOf(handled'[i].line) <= LastOf(line_)
    <3>1. \A i \in 1..m + 1 : LastOf(handled'[i].line) \in Int
      <4>1. handled' \in Seq(Handlings(1..n))
        BY <2>2, <2>3, <2>4, HandleTypes
      <4>2. ParserTypes' /\ LineShape'
        BY ParserTypesKept, LineShapeKept
      <4>3. ASSUME NEW i \in 1..m + 1
            PROVE  LastOf(handled'[i].line) \in Int
        <5>1. handled'[i] \in Handlings(1..n)
          BY <2>5, <4>1, <4>3, ElementOfSeq
        <5>2. handled'[i].line \in Seq(1..n)
          BY <5>1 DEF Handlings
        <5>3. handled'[i].line # <<>>
          BY <2>5, <4>2 DEF LineShape
        <5> QED
          BY <5>2, <5>3 DEF LastOf
      <4> QED
        BY <4>3
    <3>2. line_ # <<>> => LastOf(line_) \in Int /\ LastOf(lines_[1]) \in Int
      BY <1>0, <2>3
    <3> QED
      BY <2>4, <2>5, <3>1, <3>2
  <2>7. \A k \in 1..Len(lines_') : FALSE
    BY <2>3
  <2> QED
    BY <2>1, <2>5, <2>6, <2>7 DEF OrderShape, HandledBelow, LinesBelow, LastOf
<1>5. CASE PartialLine
  <2>1. pc = "partial" /\ UNCHANGED lines_ /\ ~Blank(line_)
    BY <1>5 DEF PartialLine
  <2>2. lines_ = <<>> /\ line_ # <<>>
    BY <2>1, EmptyLine DEF WaitShape
  <2>3. PICK outcome \in Outcomes(FALSE) :
          /\ Handle(line_, FALSE, outcome)
          /\ line_' = IF outcome \in {"skip", "next"} THEN <<>> ELSE line_
    BY <1>5 DEF PartialLine
  <2>4. /\ Len(handled') = m + 1
        /\ \A i, j \in 1..m + 1 : i < j => LastOf(handled'[i].line) <= LastOf(handled'[j].line)
        /\ \A i \in 1..m + 1 : LastOf(handled'[i].line) <= LastOf(line_)
    BY <1>0, <1>1, <1>3, <2>2, <2>3
  <2>5. \A k \in 1..Len(lines_') : FALSE
    BY <2>1, <2>2
  <2>6. line_' # <<>> => line_' = line_
    BY <2>3
  <2> QED
    BY <2>4, <2>5, <2>6 DEF OrderShape, HandledBelow, LinesBelow, LastOf
<1>6. CASE BlankLine \/ ParserRun \/ Failed \/ UNCHANGED parserVars
  <2>1. UNCHANGED <<line_, lines_, handled>>
    BY <1>6 DEF BlankLine, ParserRun, Failed, parserVars
  <2> QED
    BY <2>1 DEF OrderShape, HandledBelow, LinesBelow, LastOf
<1> QED
  BY <1>2, <1>4, <1>5, <1>6 DEF ParserNext

-----------------------------------------------------------------------------
(* The lines that are seen, while the text grows.                          *)

(* What parse() still has of the complete lines.                           *)
Pending == IF cr_ THEN LinesWith ELSE lines_

(* How a line is added at the end of the lines that are seen.              *)
LEMMA SeenOf ==
  ASSUME NEW S, NEW C \in Seq(S), NEW L \in Seq(S), NEW l \in S
  PROVE  /\ C \o L \o <<>> = C \o L
         /\ C \o L \o <<l>> = C \o Append(L, l)
         /\ C \o Append(L, l) = Append(C \o L, l)
<1>1. <<l>> \in Seq(S) /\ C \o L \in Seq(S)
  BY ConcatProperties
<1>2. L \o <<l>> = Append(L, l) /\ (C \o L) \o <<l>> = Append(C \o L, l)
  BY <1>1
<1>3. (C \o L) \o <<l>> = C \o (L \o <<l>>)
  BY <1>1, ConcatAssociative
<1>4. (C \o L) \o <<>> = C \o L
  BY <1>1, ConcatEmptySeq
<1> QED
  BY <1>2, <1>3, <1>4

(* The lines that are seen are those that were offered and those that      *)
(* parse() still has, the one that a carriage return ended included.       *)
LEMMA SeenIs ==
  ASSUME ParserTypes, CompleteShape
  PROVE  /\ Seen = Complete \o Pending
         /\ Complete \in Seq(Seq(1..Len(text)))
         /\ Pending \in Seq(Seq(1..Len(text)))
         /\ Seen \in Seq(Seq(1..Len(text)))
<1> DEFINE T == Seq(1..Len(text))
<1>1. Complete \in Seq(T)
  BY CompleteIs DEF CompleteShape
<1>2. line_ \in T /\ lines_ \in Seq(T)
  BY DEF ParserTypes
<1>3. Pending \in Seq(T)
  BY <1>2, LinesWithTypes DEF Pending
<1> HIDE DEF T
<1>4. /\ Complete \o lines_ \o <<>> = Complete \o lines_
      /\ Complete \o lines_ \o <<line_>> = Complete \o Append(lines_, line_)
  <2>1. <<line_>> \in Seq(T) /\ Complete \o lines_ \in Seq(T)
    BY <1>1, <1>2, ConcatProperties
  <2>2. lines_ \o <<line_>> = Append(lines_, line_)
    BY <1>2
  <2>3. (Complete \o lines_) \o <<line_>> = Complete \o (lines_ \o <<line_>>)
    BY <1>1, <1>2, <2>1, ConcatAssociative
  <2>4. (Complete \o lines_) \o <<>> = Complete \o lines_
    BY <2>1, ConcatEmptySeq
  <2> QED
    BY <2>2, <2>3, <2>4
<1>6. Seen = Complete \o Pending
  BY <1>4 DEF Seen, Pending, LinesWith
<1>7. Complete \o Pending \in Seq(T)
  BY <1>1, <1>3, ConcatProperties
<1> QED
  BY <1>1, <1>3, <1>6, <1>7 DEF T

(* A character that ends a line adds it to the lines that are seen.        *)
EndsALine(c) == ~skip_ /\ c \in {"LF", "CR"} /\ ~cr_ /\ ~Blank(line_)

(* A character adds the line that it ends, unless that is blank, and no    *)
(* other.                                                                  *)
LEMMA SeenGrows ==
  ASSUME ParserTypes, ParserTypes', LineShape, OfferShape, CompleteShape, NEW c \in Chars, ReadStep(c)
  PROVE  Seen' = IF EndsALine(c) THEN Append(Seen, line_) ELSE Seen
<1> DEFINE S == Seq(1..Len(text))
           T == Seq(1..Len(text) + 1)
<1>1. /\ Seen = Complete \o Pending /\ Complete \in Seq(S) /\ Pending \in Seq(S)
      /\ line_ \in S
  BY SeenIs DEF ParserTypes
<1>2. S \subseteq T
  BY LongerText DEF ParserTypes
<1>3. lines_' \in Seq(T) /\ line_' \in T
  BY DEF ParserTypes, ReadStep
<1> HIDE DEF S, T
<1>4. Complete \in Seq(T) /\ Pending \in Seq(T) /\ line_ \in T
  BY <1>1, <1>2, SeqMonotonic
<1>5. Complete' = Complete
  BY DEF ReadStep, Complete
<1> DEFINE b == Blank(line_)'
<1>6. Seen' = Complete \o lines_' \o (IF cr_' /\ ~b THEN <<line_'>> ELSE <<>>)
  BY <1>5 DEF Seen
<1>7. /\ Complete \o lines_' \o <<>> = Complete \o lines_'
      /\ Complete \o lines_' \o <<line_'>> = Complete \o Append(lines_', line_')
  BY <1>3, <1>4, SeenOf
<1>8. Seen' = Complete \o (IF cr_' THEN (IF b THEN lines_' ELSE Append(lines_', line_')) ELSE lines_')
  <2> HIDE DEF b
  <2> QED
    BY <1>6, <1>7
<1>9. (IF cr_' THEN (IF b THEN lines_' ELSE Append(lines_', line_')) ELSE lines_')
        = IF EndsALine(c) THEN Append(Pending, line_) ELSE Pending
  <2>1. line_' = line_ => (b <=> Blank(line_))
    <3>1. line_' = line_ => (Blank(line_)' <=> (\A q \in Range(line_) : text'[q] = " "))
      BY DEF Blank
    <3>2. (\A q \in Range(line_) : text'[q] = " ") <=> Blank(line_)
      BY <1>1, BlankKept DEF ReadStep, Blank, S
    <3> QED
      BY <3>1, <3>2
  <2>2. line_' = <<>> => b
    BY EmptyLine DEF Blank
  <2> HIDE DEF b
  <2>3. LinesWith = IF Blank(line_) THEN lines_ ELSE Append(lines_, line_)
    BY DEF LinesWith
  <2>4. CASE skip_ /\ UNCHANGED <<cr_, line_, lines_>>
    BY <2>4 DEF OfferShape, EndsALine, Pending
  <2>5. CASE ~skip_ /\ c = "LF" /\ lines_' = LinesWith /\ line_' = <<>> /\ cr_' = FALSE
    BY <2>3, <2>5 DEF EndsALine, Pending
  <2>6. CASE /\ ~skip_ /\ c # "LF" /\ lines_' = (IF cr_ THEN LinesWith ELSE lines_)
             /\ line_' = Grown(c) /\ cr_' = (c = "CR")
    <3>1. CASE c # "CR"
      BY <2>6, <3>1 DEF EndsALine, Pending
    <3>2. CASE c = "CR"
      <4>1. line_' = IF cr_ THEN <<>> ELSE line_
        BY <2>6, <3>2, GrownIs DEF ParserTypes, LineShape
      <4>2. CASE cr_
        BY <2>2, <2>6, <3>2, <4>1, <4>2 DEF EndsALine, Pending
      <4>3. CASE ~cr_
        BY <2>1, <2>3, <2>6, <3>2, <4>1, <4>3 DEF EndsALine, Pending
      <4> QED
        BY <4>2, <4>3
    <3> QED
      BY <3>1, <3>2
  <2> QED
    BY <2>4, <2>5, <2>6 DEF ReadStep
<1>10. Complete \o Append(Pending, line_) = Append(Complete \o Pending, line_)
  BY <1>4, SeenOf
<1> QED
  BY <1>1, <1>8, <1>9, <1>10

(* With every character the lines that are seen, and the line that has     *)
(* begun, stay what the text means.                                        *)
LEMMA EndsMeanGrows ==
  ASSUME ParserTypes, ParserTypes', LineShape, OfferShape, SkipShape, CompleteShape, LineMeans, EndsMean,
         NEW c \in Chars, ReadStep(c)
  PROVE  LineMeans' /\ EndsMean'
<1>n. PICK n \in Nat : n = Len(text)
  BY DEF ParserTypes
<1> DEFINE ender == ~skip_ /\ c \in {"LF", "CR"}
<1>0. n = Len(text) /\ text' = Append(text, c) /\ UNCHANGED handled /\ Len(text') = n + 1
  BY <1>n DEF ParserTypes, ReadStep
<1>1. /\ LineEnds' = LineEnds \cup (IF ender THEN {n + 1} ELSE {})
      /\ \A p \in 1..n + 1 : Line(p)' = Line(p)
      /\ Line(n + 2)' = IF ender THEN {} ELSE Line(n + 1) \cup (IF skip_ \/ c = "BS" THEN {} ELSE {n + 1})
  BY <1>0, TextGrows
<1>2. FullEnds' = FullEnds \cup (IF ender /\ (\E q \in Line(n + 1) : text[q] = "x") THEN {n + 1} ELSE {})
  BY <1>0, FullEndsGrow
<1>3. FullEnds \subseteq 1..n
  BY <1>0 DEF FullEnds, LineEnds
<1>4. line_ \in Seq(1..n)
  BY <1>0 DEF ParserTypes
<1>5. IF cr_ THEN Line(n + 1) = {} ELSE Line(n + 1) = Range(line_)
  <2>1. ~cr_ => Line(n + 1) = Range(line_)
    BY <1>0 DEF LineMeans
  <2>2. ASSUME cr_ PROVE Line(n + 1) = {}
    <3>1. n \in LineEnds
      BY <1>0, <2>2 DEF EndsMean
    <3>2. \A q \in 1..(n + 1 - 1) : n \in q..(n + 1 - 1)
      BY <1>0
    <3> QED
      BY <3>1, <3>2 DEF Line
  <2> QED
    BY <2>1, <2>2
<1>6. ender /\ (\E q \in Line(n + 1) : text[q] = "x") <=> EndsALine(c)
  <2>1. CASE cr_
    BY <1>5, <2>1 DEF EndsALine
  <2>2. CASE ~cr_
    <3>1. n + 1 \in 1..n + 1
      BY <1>0
    <3>2. ~Blank(line_) <=> \E q \in Line(n + 1) : text[q] = "x"
      BY <1>0, <1>4, <1>5, <2>2, <3>1, BlankMeans
    <3> QED
      BY <2>2, <3>2 DEF EndsALine
  <2> QED
    BY <2>1, <2>2
<1>7. Seen' = IF EndsALine(c) THEN Append(Seen, line_) ELSE Seen
  BY SeenGrows
<1>8. LineMeans'
  <2> DEFINE base == IF cr_ THEN <<>> ELSE line_
  <2>1. Range(base) = Line(n + 1)
    BY <1>5, EmptyLine
  <2>2. /\ c \in {"CR", "BS"} => Range(Grown(c)) = Line(n + 1)
        /\ c \notin {"CR", "BS"} => Range(Grown(c)) = Line(n + 1) \cup {n + 1}
    BY <1>0, <2>1, GrownIs DEF ParserTypes, LineShape
  <2>3. Range(line_') = IF cr_' THEN Line(n + 1)' ELSE Line(n + 2)'
    <3>1. CASE skip_ /\ UNCHANGED <<cr_, line_, lines_>>
      BY <1>1, <1>5, <3>1 DEF OfferShape
    <3>2. CASE ~skip_ /\ c = "LF" /\ line_' = <<>> /\ cr_' = FALSE
      BY <1>1, <3>2, EmptyLine
    <3>3. CASE ~skip_ /\ c # "LF" /\ line_' = Grown(c) /\ cr_' = (c = "CR")
      <4>1. Line(n + 1)' = Line(n + 1)
        BY <1>0, <1>1
      <4>2. CASE c = "CR"
        BY <2>2, <3>3, <4>1, <4>2
      <4>3. CASE c = "BS"
        BY <1>1, <2>2, <3>3, <4>3
      <4>4. CASE c \notin {"CR", "BS"}
        BY <1>1, <2>2, <3>3, <4>4
      <4> QED
        BY <4>2, <4>3, <4>4
    <3> QED
      BY <3>1, <3>2, <3>3 DEF ReadStep
  <2> QED
    BY <1>0, <2>3 DEF LineMeans
<1>9. EndsMean'
  <2>1. cr_' => n + 1 \in LineEnds'
    <3>1. cr_' => ender
      BY DEF ReadStep, OfferShape
    <3> QED
      BY <1>1, <3>1
  <2>2. PICK e \in Seq(Nat) : /\ Ascending(e) /\ Range(e) = FullEnds /\ Len(e) = Len(Seen)
                             /\ \A i \in 1..Len(e) : Range(Seen[i]) = Line(e[i])
    BY DEF EndsMean
  <2>3. \A i \in 1..Len(e) : e[i] \in 1..n /\ Line(e[i])' = Line(e[i])
    <3>1. ASSUME NEW i \in 1..Len(e) PROVE e[i] \in 1..n
      <4>1. e[i] \in Range(e)
        BY DEF Range
      <4> QED
        BY <1>3, <2>2, <4>1
    <3>2. \A q \in 1..n : q \in 1..n + 1
      OBVIOUS
    <3> QED
      BY <1>1, <3>1, <3>2
  <2>4. PICK f \in Seq(Nat) : /\ Ascending(f) /\ Range(f) = FullEnds' /\ Len(f) = Len(Seen')
                             /\ \A i \in 1..Len(f) : Range(Seen'[i]) = Line(f[i])'
    <3>1. CASE ~EndsALine(c)
      <4>1. Seen' = Seen /\ FullEnds' = FullEnds
        BY <1>2, <1>6, <1>7, <3>1
      <4> QED
        BY <2>2, <2>3, <4>1
    <3>2. CASE EndsALine(c)
      <4>1. Seen' = Append(Seen, line_) /\ FullEnds' = FullEnds \cup {n + 1}
        BY <1>2, <1>6, <1>7, <3>2
      <4>2. e \in Seq(1..n)
        BY <2>2, <2>3
      <4> DEFINE f == Append(e, n + 1)
      <4>3. /\ f \in Seq(Nat) /\ Ascending(f) /\ Range(f) = Range(e) \cup {n + 1}
            /\ Len(f) = Len(e) + 1 /\ f[Len(e) + 1] = n + 1 /\ \A i \in 1..Len(e) : f[i] = e[i]
        BY <2>2, <4>2, AppendAscending
      <4>4. /\ Len(Seen') = Len(e) + 1 /\ Seen'[Len(e) + 1] = line_
            /\ \A i \in 1..Len(e) : Seen'[i] = Seen[i]
        <5>1. Seen \in Seq(Seq(1..n)) /\ line_ \in Seq(1..n)
          BY <1>0, <1>4, SeenIs
        <5> QED
          BY <2>2, <4>1, <5>1, AppendProperties
      <4>5. Range(line_) = Line(n + 1)'
        <5>1. n + 1 \in 1..n + 1
          OBVIOUS
        <5> QED
          BY <1>1, <1>5, <3>2, <5>1 DEF EndsALine
      <4> HIDE DEF f
      <4>6. ASSUME NEW i \in 1..Len(f)
            PROVE  Range(Seen'[i]) = Line(f[i])'
        <5>1. CASE i \in 1..Len(e)
          BY <2>2, <2>3, <4>3, <4>4, <5>1
        <5>2. CASE i = Len(e) + 1
          BY <4>3, <4>4, <4>5, <5>2
        <5>3. i \in 1..Len(e) \/ i = Len(e) + 1
          BY <4>3
        <5> QED
          BY <5>1, <5>2, <5>3
      <4> QED
        BY <2>2, <4>1, <4>3, <4>4, <4>6
    <3> QED
      BY <3>1, <3>2
  <2> QED
    BY <1>0, <2>1, <2>4 DEF EndsMean, Ascending
<1> QED
  BY <1>8, <1>9

-----------------------------------------------------------------------------
(* What the answer of a handler changes.                                   *)

(* Only the answer for a line that has begun takes it, at its last         *)
(* character.                                                              *)
LEMMA TakenGrows ==
  ASSUME ParserTypes, NEW line \in Seq(1..Len(text)), line # <<>>, Ascending(line),
         NEW eol \in BOOLEAN, NEW outcome \in Outcomes(eol), Handle(line, eol, outcome)
  PROVE  /\ Taken' = Taken \cup (IF ~eol /\ outcome \in {"skip", "next"} THEN {LastOf(line)} ELSE {})
         /\ GivenUp' = GivenUp \cup (IF ~eol /\ outcome = "skip" THEN {LastOf(line)} ELSE {})
<1>1. PICK A, B, h : A = Asked /\ B = Asked' /\ h = [line |-> line, eol |-> eol, outcome |-> outcome]
  OBVIOUS
<1>2. B = A \cup {h}
  <2>1. /\ Len(handled') = Len(handled) + 1
        /\ \A i \in 1..Len(handled) : handled'[i] = handled[i]
        /\ handled'[Len(handled) + 1] = h
    BY <1>1, HandleTypes
  <2>2. DOMAIN handled' = 1..Len(handled') /\ DOMAIN handled = 1..Len(handled) /\ Len(handled) \in Nat
    <3>1. handled' \in Seq(Handlings(1..Len(text))) /\ handled \in Seq(Handlings(1..Len(text)))
      BY HandleTypes DEF ParserTypes, Handlings
    <3> QED
      BY <3>1, LenProperties
  <2>3. B = {handled'[i] : i \in 1..Len(handled) + 1} /\ A = {handled[i] : i \in 1..Len(handled)}
    BY <1>1, <2>1, <2>2 DEF Asked, Range
  <2>4. \A i \in 1..Len(handled) + 1 : i \in 1..Len(handled) \/ i = Len(handled) + 1
    BY <2>2
  <2>5. \A i \in 1..Len(handled) : i \in 1..Len(handled) + 1
    BY <2>2
  <2>6. Len(handled) + 1 \in 1..Len(handled) + 1
    BY <2>2
  <2>7. \A g : g \in B <=> g \in A \/ g = h
    BY <2>1, <2>3, <2>4, <2>5, <2>6
  <2> QED
    BY <2>7
<1>3. h.line = line /\ h.eol = eol /\ h.outcome = outcome
  BY <1>1
<1>4. Max(Range(h.line)) = LastOf(line)
  <2>1. line \in Seq(Nat)
    BY DEF ParserTypes
  <2> QED
    BY <1>3, <2>1, HighestIsLast
<1>5. Taken' = Taken \cup (IF ~eol /\ outcome \in {"skip", "next"} THEN {LastOf(line)} ELSE {})
  <2>1. Taken = {Max(Range(g.line)) : g \in {g \in A : ~g.eol /\ g.outcome \in {"skip", "next"}}}
    BY <1>1 DEF Taken
  <2>2. Taken' = {Max(Range(g.line)) : g \in {g \in B : ~g.eol /\ g.outcome \in {"skip", "next"}}}
    BY <1>1 DEF Taken
  <2>3. {g \in B : ~g.eol /\ g.outcome \in {"skip", "next"}}
          = {g \in A : ~g.eol /\ g.outcome \in {"skip", "next"}}
              \cup (IF ~eol /\ outcome \in {"skip", "next"} THEN {h} ELSE {})
    BY <1>2, <1>3
  <2> QED
    BY <1>4, <2>1, <2>2, <2>3
<1>6. GivenUp' = GivenUp \cup (IF ~eol /\ outcome = "skip" THEN {LastOf(line)} ELSE {})
  <2>1. GivenUp = {Max(Range(g.line)) : g \in {g \in A : ~g.eol /\ g.outcome = "skip"}}
    BY <1>1 DEF GivenUp
  <2>2. GivenUp' = {Max(Range(g.line)) : g \in {g \in B : ~g.eol /\ g.outcome = "skip"}}
    BY <1>1 DEF GivenUp
  <2>3. {g \in B : ~g.eol /\ g.outcome = "skip"}
          = {g \in A : ~g.eol /\ g.outcome = "skip"} \cup (IF ~eol /\ outcome = "skip" THEN {h} ELSE {})
    BY <1>2, <1>3
  <2> QED
    BY <1>4, <2>1, <2>2, <2>3
<1> QED
  BY <1>5, <1>6

(* An answer that takes nothing leaves the meaning of the text; one that   *)
(* takes the line that has begun, at the last character, leaves all but    *)
(* the line of the next character, which begins afresh.                    *)
LEMMA MeaningKept ==
  ASSUME UNCHANGED text, Taken' = Taken, GivenUp' = GivenUp
  PROVE  Skipped' = Skipped /\ LineEnds' = LineEnds /\ FullEnds' = FullEnds /\ \A p : Line(p)' = Line(p)
<1>1. Skipped' = Skipped
  BY DEF Skipped
<1>2. LineEnds' = LineEnds
  BY <1>1 DEF LineEnds
<1>3. \A p : Line(p)' = Line(p)
  BY <1>1, <1>2 DEF Line
<1>4. FullEnds' = FullEnds
  BY <1>2, <1>3 DEF FullEnds
<1> QED
  BY <1>1, <1>2, <1>3, <1>4

LEMMA MeaningTaken ==
  ASSUME ParserTypes, LineShape, UNCHANGED text, NEW n \in Nat, n = Len(text),
         Taken' = Taken \cup {n}, GivenUp' = GivenUp \/ GivenUp' = GivenUp \cup {n}
  PROVE  /\ FullEnds' = FullEnds /\ \A p \in 1..n : Line(p)' = Line(p)
         /\ Line(n + 1)' = {}
<1>1. GivenUp \subseteq 1..n
  BY TakenInText
<1>2. Skipped' = Skipped
  <2>1. PICK G, G2 : G = GivenUp /\ G2 = GivenUp'
    OBVIOUS
  <2>2. ASSUME NEW p \in 1..n
        PROVE  (\E q \in G2 : q < p /\ \A r \in (q + 1)..(p - 1) : text[r] # "LF")
                 <=> (\E q \in G : q < p /\ \A r \in (q + 1)..(p - 1) : text[r] # "LF")
    <3>1. ~(n < p)
      OBVIOUS
    <3>2. G2 = G \/ G2 = G \cup {n}
      BY <2>1
    <3> QED
      BY <3>1, <3>2
  <2>3. Skipped = {p \in 1..n : \E q \in G : q < p /\ \A r \in (q + 1)..(p - 1) : text[r] # "LF"}
    BY <2>1 DEF Skipped
  <2>4. Skipped' = {p \in 1..n : \E q \in G2 : q < p /\ \A r \in (q + 1)..(p - 1) : text[r] # "LF"}
    BY <2>1 DEF Skipped
  <2> QED
    BY <2>2, <2>3, <2>4
<1>3. LineEnds' = LineEnds
  BY <1>2 DEF LineEnds
<1>4. PICK E, T, Sk : E = LineEnds /\ T = Taken /\ Sk = Skipped
  OBVIOUS
<1>5. \A p : Line(p) = {q \in (1..(p - 1)) \ Sk : text[q] # "BS" /\ \A r \in q..(p - 1) : r \notin E \cup T}
  BY <1>4 DEF Line
<1>6. \A p : Line(p)' = {q \in (1..(p - 1)) \ Sk :
                          text[q] # "BS" /\ \A r \in q..(p - 1) : r \notin E \cup (T \cup {n})}
  BY <1>2, <1>3, <1>4 DEF Line
<1>7. ASSUME NEW p \in 1..n
      PROVE  Line(p)' = Line(p)
  <2>1. \A q \in 1..(p - 1) : n \notin q..(p - 1)
    OBVIOUS
  <2>2. {q \in (1..(p - 1)) \ Sk : text[q] # "BS" /\ \A r \in q..(p - 1) : r \notin E \cup (T \cup {n})}
          = {q \in (1..(p - 1)) \ Sk : text[q] # "BS" /\ \A r \in q..(p - 1) : r \notin E \cup T}
    BY <2>1
  <2> QED
    BY <1>5, <1>6, <2>2
<1>8. Line(n + 1)' = {}
  <2>1. \A q \in 1..(n + 1 - 1) : n \in q..(n + 1 - 1)
    OBVIOUS
  <2> QED
    BY <1>6, <2>1
<1>9. FullEnds' = FullEnds
  <2>1. LineEnds \subseteq 1..n
    BY DEF LineEnds
  <2> QED
    BY <1>3, <1>7, <2>1 DEF FullEnds
<1> QED
  BY <1>7, <1>8, <1>9

(* An offer of a complete line is the last one.                            *)
LEMMA CompleteGrows ==
  ASSUME ParserTypes, CompleteShape, NEW line \in Seq(1..Len(text)),
         NEW eol \in BOOLEAN, NEW outcome \in Outcomes(eol), Handle(line, eol, outcome)
  PROVE  CompleteShape' /\ Complete' = IF eol THEN Append(Complete, line) ELSE Complete
<1>1. PICK m \in Nat : m = Len(handled)
  BY DEF ParserTypes
<1>2. PICK k \in Seq(Nat) : Ascending(k) /\ Range(k) = Offers
  BY DEF CompleteShape
<1>3. /\ Len(handled') = m + 1
      /\ \A i \in 1..m : handled'[i] = handled[i]
      /\ handled'[m + 1] = [line |-> line, eol |-> eol, outcome |-> outcome]
  BY <1>1, HandleTypes
<1>4. DOMAIN handled' = 1..m + 1
  <2>1. handled' \in Seq(Handlings(1..Len(text)))
    BY HandleTypes
  <2> QED
    BY <1>3, <2>1, LenProperties
<1>5. handled'[m + 1].line = line /\ handled'[m + 1].eol = eol
  BY <1>3
<1>6. k \in Seq(1..m) /\ \A i \in 1..Len(k) : k[i] \in 1..m
  <2>1. \A i \in 1..Len(k) : k[i] \in Range(k)
    BY DEF Range
  <2>2. Range(k) \subseteq 1..m
    BY <1>1, <1>2 DEF Offers
  <2>3. \A i \in 1..Len(k) : k[i] \in 1..m
    BY <2>1, <2>2
  <2>4. k \in Seq(1..m)
    <3>1. k \in [1..Len(k) -> 1..m] /\ Len(k) \in Nat
      BY <2>3, LenProperties
    <3> QED
      BY <3>1
  <2> QED
    BY <2>3, <2>4
<1> DEFINE j == IF eol THEN Append(k, m + 1) ELSE k
           O == {i \in 1..m + 1 : handled'[i].eol}
<1>7. O = Offers \cup (IF eol THEN {m + 1} ELSE {})
  <2>1. Offers \in SUBSET (1..m) /\ O \in SUBSET (1..m + 1)
    BY <1>1 DEF Offers
  <2>2. \A i \in 1..m : i \in O <=> i \in Offers
    BY <1>1, <1>3 DEF Offers
  <2>3. m + 1 \in O <=> eol
    BY <1>5
  <2>4. PICK A, B : A = Offers /\ B = O
    OBVIOUS
  <2> HIDE DEF O
  <2>5. A \in SUBSET (1..m) /\ B \in SUBSET (1..m + 1) /\ (m + 1 \in B <=> eol)
    BY <2>1, <2>3, <2>4
  <2>6. \A i \in 1..m : i \in B <=> i \in A
    BY <2>2, <2>4
  <2>7. B = A \cup (IF eol THEN {m + 1} ELSE {})
    <3>1. \A p \in 1..m + 1 : p \in 1..m \/ p = m + 1
      OBVIOUS
    <3>2. \A p \in 1..m : p \in 1..m + 1 /\ p # m + 1
      OBVIOUS
    <3>3. m + 1 \notin A
      BY <2>5
    <3>4. CASE eol
      BY <2>5, <2>6, <3>1, <3>2, <3>4
    <3>5. CASE ~eol
      BY <2>5, <2>6, <3>1, <3>2, <3>3, <3>5
    <3> QED
      BY <3>4, <3>5
  <2> QED
    BY <2>4, <2>7
<1>8. j \in Seq(Nat) /\ Ascending(j) /\ Range(j) = O
  <2>1. /\ Append(k, m + 1) \in Seq(Nat) /\ Ascending(Append(k, m + 1))
        /\ Range(Append(k, m + 1)) = Range(k) \cup {m + 1}
    <3>1. k \in Seq(1..m) /\ Ascending(k)
      BY <1>2, <1>6
    <3>2. Append(k, m + 1) \in Seq(Nat)
      BY <1>2, AppendProperties
    <3> QED
      BY <3>1, <3>2, AppendAscending
  <2> HIDE DEF O
  <2> QED
    BY <1>2, <1>7, <2>1
<1>9. Offers' = O
  BY <1>3 DEF Offers
<1>10. CompleteShape'
  <2> HIDE DEF j, O
  <2> QED
    BY <1>8, <1>9 DEF CompleteShape, Ascending
<1>11. Complete' = [i \in 1..Len(j) |-> handled'[j[i]].line]
  <2>1. InOrder(O) = j
    <3> HIDE DEF j, O
    <3> QED
      BY <1>8, InOrderIsAscending
  <2>2. {i \in DOMAIN handled' : handled'[i].eol} = O
    BY <1>4
  <2>3. DOMAIN j = 1..Len(j)
    <3> HIDE DEF j, O
    <3> QED
      BY <1>8, LenProperties
  <2> HIDE DEF j, O
  <2> QED
    BY <2>1, <2>2, <2>3 DEF Complete
<1>12. /\ Complete = [i \in 1..Len(k) |-> handled[k[i]].line]
       /\ Complete \in Seq(Seq(1..Len(text))) /\ Len(Complete) = Len(k)
  BY <1>2, CompleteIs
<1>13. CASE ~eol
  <2>1. j = k
    BY <1>13
  <2> HIDE DEF j
  <2>2. \A i \in 1..Len(k) : handled'[k[i]].line = handled[k[i]].line
    BY <1>3, <1>6
  <2>3. Complete' = Complete
    BY <1>11, <1>12, <2>1, <2>2
  <2> QED
    BY <1>10, <1>13, <2>3
<1>14. CASE eol
  <2>1. j = Append(k, m + 1)
    BY <1>14
  <2>2. Len(j) = Len(k) + 1 /\ j[Len(k) + 1] = m + 1 /\ \A i \in 1..Len(k) : j[i] = k[i]
    BY <2>1
  <2> HIDE DEF j
  <2> DEFINE D == [i \in 1..Len(j) |-> handled'[j[i]].line]
             F == Append(Complete, line)
  <2>3. F \in Seq(Seq(1..Len(text))) /\ Len(F) = Len(k) + 1 /\ F[Len(k) + 1] = line
        /\ \A i \in 1..Len(k) : F[i] = Complete[i]
    BY <1>12, AppendProperties
  <2>4. \A i \in 1..Len(k) : handled'[j[i]].line = Complete[i]
    BY <1>3, <1>6, <1>12, <2>2
  <2>5. handled'[j[Len(k) + 1]].line = line
    BY <1>5, <2>2
  <2>6. \A i \in 1..Len(j) : i \in 1..Len(k) \/ i = Len(k) + 1
    BY <2>2
  <2>7. F = [i \in 1..Len(j) |-> F[i]]
    <3> HIDE DEF F
    <3> QED
      BY <2>2, <2>3, LenProperties
  <2>8. \A i \in 1..Len(j) : handled'[j[i]].line = F[i]
    <3> HIDE DEF F
    <3> QED
      BY <2>3, <2>4, <2>5, <2>6
  <2>9. D = F
    <3> HIDE DEF F
    <3> QED
      BY <2>7, <2>8
  <2> QED
    BY <1>10, <1>11, <1>14, <2>9
<1> QED
  BY <1>13, <1>14

-----------------------------------------------------------------------------
(* The inductive invariant.                                                *)

ParserInv ==
  /\ ParserTypes /\ LineShape /\ OfferShape /\ WaitShape /\ OrderShape
  /\ SkipShape /\ CompleteShape /\ LineMeans /\ EndsMean

(* Where neither the lines that are seen nor the ends change, they still   *)
(* match.                                                                  *)
LEMMA EndsMeanSame ==
  ASSUME EndsMean, Seen' = Seen, FullEnds' = FullEnds, \A p \in FullEnds : Line(p)' = Line(p),
         cr_' => Len(text') \in LineEnds'
  PROVE  EndsMean'
<1>1. PICK e \in Seq(Nat) : /\ Ascending(e) /\ Range(e) = FullEnds /\ Len(e) = Len(Seen)
                           /\ \A i \in 1..Len(e) : Range(Seen[i]) = Line(e[i])
  BY DEF EndsMean
<1>2. \A i \in 1..Len(e) : e[i] \in FullEnds
  BY <1>1 DEF Range
<1>3. /\ Range(e) = FullEnds' /\ Len(e) = Len(Seen')
      /\ \A i \in 1..Len(e) : Range(Seen'[i]) = Line(e[i])'
  BY <1>1, <1>2
<1> QED
  BY <1>1, <1>3 DEF EndsMean, Ascending

(* Whether the rest of the line is skipped, and which offers were complete *)
(* lines: a character changes the one and not the other.                   *)
LEMMA SkipShapeGrows ==
  ASSUME ParserTypes, LineShape, SkipShape, CompleteShape, NEW c \in Chars, ReadStep(c)
  PROVE  SkipShape' /\ CompleteShape'
<1>0. PICK n \in Nat : n = Len(text)
  BY DEF ParserTypes
<1>1. PICK G, t : G = GivenUp /\ t = text'
  OBVIOUS
<1>2. GivenUp' = G /\ G \subseteq 1..n
  BY <1>0, <1>1, TakenInText DEF ReadStep, GivenUp, Asked
<1>3. Len(t) = n + 1 /\ t[n + 1] = c /\ \A r \in 1..n : t[r] = text[r]
  BY <1>0, <1>1 DEF ReadStep, ParserTypes
<1>4. skip_' <=> skip_ /\ c # "LF"
  BY DEF ReadStep
<1>5. skip_ <=> \E q \in G : \A r \in (q + 1)..n : text[r] # "LF"
  BY <1>0, <1>1 DEF SkipShape
<1>6. ASSUME NEW q \in G
      PROVE  (\A r \in (q + 1)..(n + 1) : t[r] # "LF") <=> (\A r \in (q + 1)..n : text[r] # "LF") /\ c # "LF"
  <2>1. q \in 1..n /\ n + 1 \in (q + 1)..(n + 1)
    BY <1>2
  <2>2. \A r \in (q + 1)..n : r \in (q + 1)..(n + 1) /\ t[r] = text[r]
    BY <1>3, <2>1
  <2>3. \A r \in (q + 1)..(n + 1) : r \in (q + 1)..n \/ r = n + 1
    BY <2>1
  <2> QED
    BY <1>3, <2>1, <2>2, <2>3
<1>7. skip_' <=> \E q \in G : \A r \in (q + 1)..(n + 1) : t[r] # "LF"
  BY <1>4, <1>5, <1>6
<1>8. SkipShape'
  BY <1>0, <1>1, <1>2, <1>3, <1>7 DEF SkipShape
<1>9. CompleteShape'
  <2>1. Offers' = Offers
    BY DEF ReadStep, Offers
  <2> QED
    BY <2>1 DEF CompleteShape, Ascending
<1> QED
  BY <1>8, <1>9

(* The offer of a complete line moves it from those that wait to those     *)
(* that were offered.                                                      *)
LEMMA CompleteLineKeeps ==
  ASSUME ParserInv, CompleteLine
  PROVE  SkipShape' /\ CompleteShape' /\ LineMeans' /\ EndsMean'
<1> USE DEF ParserInv
<1>1. /\ pc = "complete" /\ lines_ # <<>> /\ lines_' = Tail(lines_)
      /\ UNCHANGED <<text, cr_, skip_, line_>>
  BY DEF CompleteLine
<1>2. PICK outcome \in Outcomes(TRUE) : Handle(Head(lines_), TRUE, outcome)
  BY DEF CompleteLine
<1>3. PICK T : T = Seq(1..Len(text))
  OBVIOUS
<1>4. PICK h \in T : Head(lines_) = h /\ lines_ = <<h>> /\ lines_' = <<>>
  <2>1. lines_ \in Seq(T) /\ Len(lines_) <= 1
    BY <1>3 DEF ParserTypes, WaitShape
  <2>2. Len(lines_) = 1 /\ Head(lines_) = lines_[1] /\ Tail(lines_) = <<>>
    BY <1>1, <2>1, OnlyOne
  <2>3. lines_[1] \in T
    BY <2>1, <2>2, ElementOfSeq
  <2>4. lines_ = <<lines_[1]>>
    BY <2>1, <2>2
  <2> QED
    BY <1>1, <2>2, <2>3, <2>4
<1>5. h # <<>> /\ Ascending(h)
  <2>1. Len(lines_) = 1 /\ lines_[1] = h
    BY <1>4
  <2> QED
    BY <2>1 DEF LineShape
<1>6. Taken' = Taken /\ GivenUp' = GivenUp
  BY <1>2, <1>3, <1>4, <1>5, TakenGrows
<1>7. FullEnds' = FullEnds /\ LineEnds' = LineEnds /\ \A p : Line(p)' = Line(p)
  BY <1>1, <1>6, MeaningKept
<1>8. CompleteShape' /\ Complete' = Append(Complete, h)
  BY <1>2, <1>3, <1>4, CompleteGrows
<1>9. ~cr_
  BY <1>1 DEF OfferShape
<1>10. Seen' = Seen
  <2>1. PICK C : C = Complete
    OBVIOUS
  <2>2. C \in Seq(T)
    BY <1>3, <2>1, SeenIs
  <2>3. Append(C, h) \in Seq(T) /\ <<h>> \in Seq(T)
    BY <1>4, <2>2, AppendProperties
  <2>4. Append(C, h) \o <<>> = Append(C, h) /\ C \o <<h>> = Append(C, h)
    BY <2>2, <2>3, ConcatEmptySeq
  <2>5. Seen = C \o <<h>> \o <<>>
    BY <1>4, <1>9, <2>1 DEF Seen
  <2>6. Seen' = Append(C, h) \o <<>> \o <<>>
    BY <1>1, <1>4, <1>8, <1>9, <2>1 DEF Seen
  <2> QED
    BY <2>4, <2>5, <2>6
<1>11. EndsMean'
  BY <1>1, <1>7, <1>9, <1>10, EndsMeanSame
<1>12. SkipShape'
  BY <1>1, <1>6 DEF SkipShape
<1>13. LineMeans'
  BY <1>1, <1>7, <1>9 DEF LineMeans
<1> QED
  BY <1>8, <1>11, <1>12, <1>13

(* The offer of the line that has begun changes none of the complete       *)
(* lines, and empties it where the answer takes it.                        *)
LEMMA PartialLineKeeps ==
  ASSUME ParserInv, PartialLine
  PROVE  SkipShape' /\ CompleteShape' /\ LineMeans' /\ EndsMean'
<1> USE DEF ParserInv
<1>1. PICK n \in Nat : n = Len(text)
  BY DEF ParserTypes
<1>2. pc = "partial" /\ UNCHANGED <<text, cr_, lines_>>
  BY DEF PartialLine
<1>3. PICK outcome \in Outcomes(FALSE) :
        /\ Handle(line_, FALSE, outcome) /\ skip_' = (outcome = "skip")
        /\ line_' = IF outcome \in {"skip", "next"} THEN <<>> ELSE line_
  BY DEF PartialLine
<1>4. line_ # <<>> /\ LastOf(line_) = n /\ ~skip_ /\ ~cr_
  BY <1>1, <1>2 DEF OfferShape
<1>5. line_ \in Seq(1..Len(text)) /\ Ascending(line_)
  BY DEF ParserTypes, LineShape
<1>6. /\ Taken' = Taken \cup (IF outcome \in {"skip", "next"} THEN {n} ELSE {})
      /\ GivenUp' = GivenUp \cup (IF outcome = "skip" THEN {n} ELSE {})
  <2>1. FALSE \in BOOLEAN
    OBVIOUS
  <2> QED
    BY <1>3, <1>4, <1>5, <2>1, TakenGrows
<1>7. CompleteShape' /\ Complete' = Complete
  BY <1>3, <1>5, CompleteGrows
<1>8. Seen' = Seen
  BY <1>2, <1>4, <1>7 DEF Seen
<1>9. FullEnds \subseteq 1..n
  BY <1>1 DEF FullEnds, LineEnds
<1>10. /\ FullEnds' = FullEnds /\ \A p \in 1..n : Line(p)' = Line(p)
       /\ Line(n + 1)' = IF outcome \in {"skip", "next"} THEN {} ELSE Line(n + 1)
  <2>1. CASE outcome \in {"skip", "next"}
    <3>1. Taken' = Taken \cup {n} /\ (GivenUp' = GivenUp \/ GivenUp' = GivenUp \cup {n})
      BY <1>6, <2>1
    <3>2. UNCHANGED text
      BY <1>2
    <3>3. FullEnds' = FullEnds /\ (\A p \in 1..n : Line(p)' = Line(p)) /\ Line(n + 1)' = {}
      BY <1>1, <3>1, <3>2, MeaningTaken
    <3> QED
      BY <2>1, <3>3
  <2>2. CASE outcome \notin {"skip", "next"}
    <3>1. Taken' = Taken /\ GivenUp' = GivenUp /\ UNCHANGED text
      BY <1>2, <1>6, <2>2
    <3> QED
      BY <2>2, <3>1, MeaningKept
  <2> QED
    BY <2>1, <2>2
<1>11. EndsMean'
  BY <1>2, <1>4, <1>8, <1>9, <1>10, EndsMeanSame
<1>12. LineMeans'
  <2>1. Range(line_) = Line(n + 1)
    BY <1>1, <1>4 DEF LineMeans
  <2>2. Range(line_') = Line(n + 1)'
    BY <1>3, <1>10, <2>1, EmptyLine
  <2> QED
    BY <1>1, <1>2, <1>4, <2>2 DEF LineMeans
<1>13. SkipShape'
  <2>1. PICK G : G = GivenUp'
    OBVIOUS
  <2>2. skip_' <=> \E q \in G : \A r \in (q + 1)..n : text[r] # "LF"
    <3>1. CASE outcome = "skip"
      <4>1. n \in G /\ skip_'
        BY <1>3, <1>6, <2>1, <3>1
      <4>2. \A r \in (n + 1)..n : FALSE
        OBVIOUS
      <4> QED
        BY <4>1, <4>2
    <3>2. CASE outcome # "skip"
      <4>1. G = GivenUp /\ ~skip_'
        BY <1>3, <1>6, <2>1, <3>2
      <4>2. ~ \E q \in GivenUp : \A r \in (q + 1)..n : text[r] # "LF"
        BY <1>1, <1>4 DEF SkipShape
      <4> QED
        BY <4>1, <4>2
    <3> QED
      BY <3>1, <3>2
  <2> QED
    BY <1>1, <1>2, <2>1, <2>2 DEF SkipShape
<1> QED
  BY <1>7, <1>11, <1>12, <1>13

(* The other steps change where run() is and nothing else.                 *)
LEMMA OthersKeep ==
  ASSUME ParserInv, UNCHANGED <<text, cr_, skip_, line_, lines_, handled>>
  PROVE  SkipShape' /\ CompleteShape' /\ LineMeans' /\ EndsMean'
<1> USE DEF ParserInv
<1>1. Taken' = Taken /\ GivenUp' = GivenUp /\ Complete' = Complete /\ Offers' = Offers
  BY DEF Taken, GivenUp, Asked, Complete, Offers
<1>2. FullEnds' = FullEnds /\ LineEnds' = LineEnds /\ \A p : Line(p)' = Line(p)
  BY <1>1, MeaningKept
<1>3. Blank(line_)' <=> Blank(line_)
  BY DEF Blank
<1>4. Seen' = Seen
  BY <1>1, <1>3 DEF Seen
<1>5. EndsMean'
  <2>1. cr_' => Len(text') \in LineEnds'
    BY <1>2 DEF EndsMean
  <2> QED
    BY <1>2, <1>4, <2>1, EndsMeanSame
<1>6. SkipShape' /\ CompleteShape' /\ LineMeans'
  BY <1>1, <1>2 DEF SkipShape, CompleteShape, LineMeans, Ascending
<1> QED
  BY <1>5, <1>6

(* Before the first character there is no line.                            *)
LEMMA InitEstablishesParserInv ==
  ParserInit => ParserInv
<1> SUFFICES ASSUME ParserInit PROVE ParserInv
  OBVIOUS
<1>1. /\ pc = "out" /\ text = <<>> /\ cr_ = FALSE /\ skip_ = FALSE
      /\ line_ = <<>> /\ lines_ = <<>> /\ handled = <<>>
  BY DEF ParserInit
<1>2. Len(text) = 0 /\ Len(lines_) = 0 /\ Len(handled) = 0
  BY <1>1
<1>3. ParserTypes
  <2>1. \A S : <<>> \in Seq(S)
    OBVIOUS
  <2> QED
    BY <1>1, <2>1 DEF ParserTypes
<1>4. LineShape /\ OfferShape /\ OrderShape
  BY <1>1, <1>2, EmptyLine DEF LineShape, OfferShape, OrderShape
<1>5. WaitShape
  BY <1>1, <1>2 DEF WaitShape
<1>6. GivenUp = {}
  BY <1>1, EmptyLine DEF GivenUp, Asked
<1>7. SkipShape
  BY <1>1, <1>6 DEF SkipShape
<1>8. Ascending(<<>>) /\ Range(<<>>) = Offers /\ <<>> \in Seq(Nat) /\ Len(<<>>) = 0
  BY <1>2, EmptyLine DEF Offers
<1>9. CompleteShape
  BY <1>8 DEF CompleteShape
<1>10. Seen = <<>>
  <2>1. Complete \in Seq(Seq(1..Len(text))) /\ Len(Complete) = 0
    BY <1>3, <1>8, CompleteIs
  <2>2. Complete = <<>>
    BY <2>1, EmptySeq
  <2>3. Seen = Complete \o lines_ \o <<>>
    BY <1>1 DEF Seen
  <2> QED
    BY <1>1, <2>2, <2>3
<1>11. LineMeans
  <2>1. Line(1) = {}
    BY DEF Line
  <2> QED
    <3>1. Len(text) + 1 = 1
      BY <1>2
    <3> QED
      BY <1>1, <2>1, <3>1, EmptyLine DEF LineMeans
<1>12. FullEnds = {}
  BY <1>2 DEF FullEnds, LineEnds
<1>13. EndsMean
  <2>1. /\ <<>> \in Seq(Nat) /\ Ascending(<<>>) /\ Range(<<>>) = FullEnds /\ Len(<<>>) = Len(Seen)
        /\ \A i \in 1..Len(<<>>) : FALSE
    BY <1>8, <1>10, <1>12, EmptyLine
  <2> QED
    BY <1>1, <2>1 DEF EndsMean
<1> QED
  BY <1>3, <1>4, <1>5, <1>7, <1>9, <1>11, <1>13 DEF ParserInv

(* Every step keeps all parts of the invariant.                            *)
LEMMA ParserStep ==
  ParserInv /\ [ParserNext]_parserVars => ParserInv'
<1> SUFFICES ASSUME ParserInv, [ParserNext]_parserVars PROVE ParserInv'
  OBVIOUS
<1> USE DEF ParserInv
<1>1. ParserTypes' /\ LineShape' /\ OfferShape' /\ WaitShape' /\ OrderShape'
  BY ParserTypesKept, LineShapeKept, OfferShapeKept, WaitShapeKept, OrderShapeKept
<1>2. SkipShape' /\ CompleteShape' /\ LineMeans' /\ EndsMean'
  <2>1. CASE Parse
    <3>1. PICK c \in Chars : ReadStep(c)
      BY <2>1, ParseStep
    <3> QED
      BY <1>1, <3>1, SkipShapeGrows, EndsMeanGrows
  <2>2. CASE CompleteLine
    BY <2>2, CompleteLineKeeps
  <2>3. CASE PartialLine
    BY <2>3, PartialLineKeeps
  <2>4. CASE BlankLine \/ ParserRun \/ Failed \/ UNCHANGED parserVars
    <3>1. UNCHANGED <<text, cr_, skip_, line_, lines_, handled>>
      BY <2>4 DEF BlankLine, ParserRun, Failed, parserVars
    <3> QED
      BY <3>1, OthersKeep
  <2> QED
    BY <2>1, <2>2, <2>3, <2>4 DEF ParserNext
<1> QED
  BY <1>1, <1>2

(* Whatever stream is read and whatever the handlers answer, the automaton *)
(* of parse() stands for what the text and the answers mean.               *)
THEOREM ParserInvariance == ParserSpec => []ParserInv
<1>1. ParserInit => ParserInv
  BY InitEstablishesParserInv
<1>2. ParserInv /\ [ParserNext]_parserVars => ParserInv'
  BY ParserStep
<1> QED
  BY <1>1, <1>2, PTL DEF ParserSpec

(* parse() keeps at most one complete line, and asks the handlers for it   *)
(* before it asks for the line that has begun.                             *)
THEOREM LinesWaitForTextHolds == ParserSpec => []LinesWaitForText
<1>1. ASSUME ParserInv PROVE LinesWaitForText
  <2>0. ParserTypes /\ LineShape /\ WaitShape /\ OrderShape
    BY <1>1 DEF ParserInv
  <2>1. \A i \in 1..Len(handled) : Max(Range(handled[i].line)) = LastOf(handled[i].line)
    <3>1. \A i \in 1..Len(handled) :
            handled[i].line \in Seq(Nat) /\ handled[i].line # <<>> /\ Ascending(handled[i].line)
      BY <2>0, HandledTypes DEF LineShape
    <3> QED
      BY <3>1, HighestIsLast
  <2>2. \A i, j \in 1..Len(handled) : i < j =>
          Max(Range(handled[i].line)) <= Max(Range(handled[j].line))
    BY <2>0, <2>1 DEF OrderShape
  <2>3. Len(lines_) <= 1
    BY <2>0 DEF WaitShape
  <2>4. (pc = "partial" \/ (pc \in {"recv", "out"} /\ Blank(line_) = FALSE)) => lines_ = <<>>
    <3>1. Blank(line_) = FALSE => ~Blank(line_)
      OBVIOUS
    <3> QED
      BY <2>0, <3>1 DEF WaitShape
  <2> QED
    BY <2>2, <2>3, <2>4 DEF LinesWaitForText
<1> QED
  BY <1>1, ParserInvariance, PTL

(* The lines that are seen have their characters in order.                 *)
LEMMA SeenAscending ==
  ASSUME ParserInv, NEW i \in 1..Len(Seen)
  PROVE  Seen[i] \in Seq(Nat) /\ Ascending(Seen[i])
<1>0. ParserTypes /\ LineShape /\ CompleteShape
  BY DEF ParserInv
<1>1. PICK T, C, P : T = Seq(1..Len(text)) /\ C = Complete /\ P = Pending
  OBVIOUS
<1>2. Seen = C \o P /\ C \in Seq(T) /\ P \in Seq(T)
  BY <1>0, <1>1, SeenIs
<1>3. /\ Len(C \o P) = Len(C) + Len(P) /\ Len(C) \in Nat /\ Len(P) \in Nat
      /\ \A k \in 1..Len(C) + Len(P) : (C \o P)[k] = IF k <= Len(C) THEN C[k] ELSE P[k - Len(C)]
  BY <1>2, ConcatProperties, LenProperties
<1>4. \A k \in 1..Len(C) : Ascending(C[k])
  <2>1. PICK k \in Seq(Nat) : Ascending(k) /\ Range(k) = Offers
    BY <1>0 DEF CompleteShape
  <2>2. C = [j \in 1..Len(k) |-> handled[k[j]].line] /\ Len(C) = Len(k)
    BY <1>0, <1>1, <2>1, CompleteIs
  <2>3. \A j \in 1..Len(k) : k[j] \in 1..Len(handled)
    <3>1. \A j \in 1..Len(k) : k[j] \in Range(k)
      BY DEF Range
    <3> QED
      BY <2>1, <3>1 DEF Offers
  <2>4. \A j \in 1..Len(handled) : Ascending(handled[j].line)
    BY <1>0 DEF LineShape
  <2> QED
    BY <2>2, <2>3, <2>4
<1>5. \A k \in 1..Len(P) : Ascending(P[k])
  <2>1. AllWhole(LinesWith) /\ AllWhole(lines_)
    BY <1>0, WholeLinesWith DEF LineShape, AllWhole, Whole
  <2> QED
    BY <1>1, <2>1 DEF Pending, AllWhole, Whole
<1>6. Ascending(Seen[i])
  <2>1. CASE i <= Len(C)
    BY <1>2, <1>3, <1>4, <2>1
  <2>2. CASE ~(i <= Len(C))
    <3>1. i - Len(C) \in 1..Len(P)
      BY <1>2, <1>3, <2>2
    <3> QED
      BY <1>2, <1>3, <1>5, <2>2, <3>1
  <2> QED
    BY <2>1, <2>2
<1>7. Seen[i] \in Seq(Nat)
  <2>1. Seen \in Seq(T)
    BY <1>2, ConcatProperties
  <2>2. Seen[i] \in Seq(1..Len(text))
    BY <1>1, <2>1, ElementOfSeq
  <2> QED
    BY <2>2
<1> QED
  BY <1>6, <1>7

(* The lines that were offered as complete, or are still to be, are the    *)
(* lines of the text: each once, whole and in order, whatever ended it and *)
(* however often run() was left in between.                                *)
THEOREM LinesHandledOnceHolds == ParserSpec => []LinesHandledOnce
<1>1. ASSUME ParserInv PROVE LinesHandledOnce
  <2>0. ParserTypes /\ LineMeans /\ EndsMean
    BY <1>1 DEF ParserInv
  <2>1. PICK e \in Seq(Nat) : /\ Ascending(e) /\ Range(e) = FullEnds /\ Len(e) = Len(Seen)
                             /\ \A i \in 1..Len(e) : Range(Seen[i]) = Line(e[i])
    BY <2>0 DEF EndsMean
  <2>2. InOrder(FullEnds) = e
    BY <2>1, InOrderIsAscending
  <2>3. \A i \in 1..Len(Seen) : Seen[i] = InOrder(Line(e[i]))
    <3>1. \A i \in 1..Len(Seen) : Seen[i] \in Seq(Nat) /\ Ascending(Seen[i])
      BY <1>1, SeenAscending
    <3>2. \A i \in 1..Len(Seen) : InOrder(Range(Seen[i])) = Seen[i]
      BY <3>1, InOrderIsAscending
    <3> QED
      BY <2>1, <3>2
  <2>4. ~cr_ => Range(line_) = Line(Len(text) + 1)
    BY <2>0 DEF LineMeans
  <2> QED
    BY <2>1, <2>2, <2>3, <2>4 DEF LinesHandledOnce
<1> QED
  BY <1>1, ParserInvariance, PTL

=============================================================================
