----------------------------- MODULE MCLogFile -----------------------------
(* A small instance of LogFile: see the .cfg file for its bounds.           *)
EXTENDS LogFile

CONSTANTS SecondsPerName, MaxAllowed

\* Local time, coarse enough for a name to come again
LocalTime == [t \in Times |-> t % SecondsPerName]

\* Not more than so many rolls to one name, or bytes while no roll is possible
Bounded == /\ \A f \in Names : allowed[f] <= MaxAllowed
           /\ unflushed <= RollSize + MaxLen
=============================================================================
