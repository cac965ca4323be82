---------------------------- MODULE MCAsyncMutex ----------------------------
(* A small instance of AsyncMutex for TLC.                                 *)
EXTENDS AsyncMutex

=============================================================================
