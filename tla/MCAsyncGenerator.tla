-------------------------- MODULE MCAsyncGenerator --------------------------
(* A small instance of AsyncGenerator for TLC.                             *)
EXTENDS AsyncGenerator
=============================================================================
