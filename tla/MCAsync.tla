------------------------------ MODULE MCAsync ------------------------------
(* A small instance of Async for TLC.                                      *)
EXTENDS Async

=============================================================================
