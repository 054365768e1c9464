------------------------------- MODULE CkLife -------------------------------
(***************************************************************************)
(* What the IOCP layer promises about the life of a CompleteKeySocket      *)
(* (src/Lib/net/WinNetHelp.h:102-164).  A socket handle is expensive, so   *)
(* it is never closed: it goes round from the pool to a connection and     *)
(* back.                                                                   *)
(*                                                                         *)
(*   fresh    not created yet                                              *)
(*   pooled   in a _dequeCKSocket... pool, free to be taken                *)
(*   setup    taken: an AcceptEx or ConnectEx is being posted or pending   *)
(*   open     bEnable is TRUE: sends are taken, a disconnect may be asked  *)
(*   closing  one DisconnectEx is being posted, pending or handled         *)
(*   leaked   disabled, and no DisconnectEx will ever complete for it      *)
(***************************************************************************)
CONSTANT Sockets

VARIABLE phase

Phases == {"fresh", "pooled", "setup", "open", "closing", "leaked"}

Move(s, from, to) == phase[s] = from /\ phase' = [phase EXCEPT ![s] = to]

Init == phase = [s \in Sockets |-> "fresh"]

\* prepareCkSocket: created ahead of need
Stock(s)   == Move(s, "fresh", "pooled")
\* newCompleteKeySocket: taken from the pool, or created on the spot
Take(s)    == Move(s, "pooled", "setup") \/ Move(s, "fresh", "setup")
\* delCompleteKeySocket after an accept or a connect that failed
Abort(s)   == Move(s, "setup", "pooled")
\* handAccept and handConnect: bEnable = true
Open(s)    == Move(s, "setup", "open")
\* reqDisconnect: the caller that finds bEnable true, and only that one
Close(s)   == Move(s, "open", "closing")
\* handDisconnect: delCompleteKeySocket
Recycle(s) == Move(s, "closing", "pooled")
\* postDisconnect failed: bEnable stays false and nothing completes
Leak(s)    == Move(s, "closing", "leaked")

Next == \E s \in Sockets :
          \/ Stock(s) \/ Take(s) \/ Abort(s) \/ Open(s)
          \/ Close(s) \/ Recycle(s) \/ Leak(s)

Ends(s) == Recycle(s) \/ Leak(s)

\* A disconnect that was asked for comes to an end.
Spec == Init /\ [][Next]_phase /\ \A s \in Sockets : WF_phase(Ends(s))
=============================================================================
