------------------------------ MODULE MCParser ------------------------------
(* A small instance of Parser for TLC.                                     *)
EXTENDS Parser

=============================================================================
