---------------------------- MODULE MCOverlapped ----------------------------
(* A small instance of Overlapped for TLC.                                 *)
EXTENDS Overlapped

=============================================================================
