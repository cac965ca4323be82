------------------------------- MODULE Operation -------------------------------
(***************************************************************************)
(* What the models of the network have in common (TcpSocket, Overlapped    *)
(* and SshSession): coroutines that are somewhere in an operation, which   *)
(* may take several calls of the system.                                   *)
(***************************************************************************)

CONSTANTS
  MaxSize,  \* the most that send() is given
  Nil       \* no coroutine

VARIABLES
  op,      \* the operation of a coroutine, or the one it did last
  at,      \* where a coroutine is in it
  size,    \* what send() has still to send
  budget   \* bounds: what the network, the kernel and the programs may still do

=============================================================================
