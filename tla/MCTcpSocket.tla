---------------------------- MODULE MCTcpSocket ----------------------------
(* A small instance of TcpSocket for TLC.                                  *)
EXTENDS TcpSocket

=============================================================================
