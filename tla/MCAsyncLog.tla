----------------------------- MODULE MCAsyncLog -----------------------------
(* A small instance of AsyncLog: see the .cfg file for its bounds.          *)
EXTENDS AsyncLog, TLC

\* Buffers of three bytes hold one message of 1 or 2, or two of 1; none holds
\* a message of 3.
MCSizes == {1, 2, 3}
=============================================================================
