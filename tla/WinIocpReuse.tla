---------------------------- MODULE WinIocpReuse ----------------------------
(***************************************************************************)
(* WinIocp with a history of which sockets were handed out again while     *)
(* some thread was still busy with their last connection.  The delay of    *)
(* newCompleteKeySocket (NET_TCP_TIME_WAIT_DELAY) is there to prevent it,  *)
(* but counts from the last receive or disconnect only: a connect that     *)
(* failed leaves the socket ripe in its pool although the thread inside    *)
(* reqConnectAndWait has yet to post a receive on it.                      *)
(***************************************************************************)
EXTENDS WinIocp

VARIABLE overtaken   \* sockets handed out again too early, once or more

Busy(s) == {t \in Threads : th[t].on = s}

ReuseInit == Init /\ overtaken = {}
ReuseNext ==
  /\ Next
  /\ overtaken' = overtaken \cup {s \in used' \ used : Busy(s) # {}}

ReuseSpec == ReuseInit /\ [][ReuseNext]_<<vars, overtaken>>

-----------------------------------------------------------------------------
\* kBufRecv has no lock.  It needs none as long as one receive is pending or
\* handled at a time, over all the connections of the socket: true of every
\* socket that was not overtaken, however late the handlers run, and whether or
\* not its DisconnectEx succeeds.
OneReceive ==
  \A s \in Sockets \ overtaken :
    posted[s]["recv"] + Cardinality({w \in Workers : th[w].job = "recv" /\ th[w].on = s}) <= 1

\* The application sets kFunOnRecv in its accept or connect callback: no
\* receive is pending or handled before that callback has returned, on a
\* socket that was not overtaken.
ReceiveAfterOpen ==
  \A w \in Workers :
    LET s == th[w].on IN
      th[w].at \in {"accOpen", "inAccept", "conOpen", "inConnect"} /\ s \notin overtaken =>
        posted[s]["recv"] = 0 /\ \A v \in Workers : th[v].on = s => th[v].job # "recv"

\* If no handler and no call outlasts the delay, a socket that was disconnected
\* is overtaken in one way only: by a thread in reqConnectAndWait, whose connect
\* failed.  One whose DisconnectEx failed may still have a receive, and its handler.
Stuck == {s \in Sockets : conn[s] = "stuck"}

InConnectAndWait(t) ==
  th[t].at \in {"waitConn", "waitRecv", "waitEnd"} \/ th[t].back = "waitEnd"

OnlyAWaiterIsOvertaken ==
  [][\A s \in (used' \ used) \ Stuck : \A t \in Busy(s) : InConnectAndWait(t)]_vars
=============================================================================
