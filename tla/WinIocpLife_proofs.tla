-------------------------- MODULE WinIocpLife_proofs --------------------------
(***************************************************************************)
(* Further proofs about WinIocp, for every set of sockets and threads,     *)
(* every szAcceptNum, with and without PromptHandlers and WaitInCallback:  *)
(* no open connection goes unheard (NeverDeaf), no accept is dropped or    *)
(* posted twice (AcceptsKept), and WinIocp implements the life cycle of    *)
(* CkLife.                                                                 *)
(*                                                                         *)
(* They rest on the inductive invariant IInv of WinIocp_proofs and the     *)
(* first two on JobsOK, which ties the handler a thread runs to the place  *)
(* it is at or will come back to.  NeverDeaf is not inductive: when        *)
(* handConnect finds bWait set it leaves the receive to the call that      *)
(* waits, so that call must still be there (WaitersStay); and a thread     *)
(* merely on a socket promises nothing, so Attended says which threads     *)
(* will really post a receive or close.  AcceptsKept is inductive with the *)
(* finiteness of the sets it counts and with IInv's "posted once".         *)
(*                                                                         *)
(* For the life cycle a step is looked at through the holder it finds and  *)
(* the holder it leaves: IInv says that a socket has one only, so that     *)
(* whoever holds it tells its phase (PhaseFacts), in both states.  That a  *)
(* disconnect comes to its end is fairness, and left to the runs.          *)
(***************************************************************************)
EXTENDS WinIocp_proofs, FiniteSetTheorems

-----------------------------------------------------------------------------
(* Jobs, places and waiters                                                 *)

\* Where a thread is, or will be once handError or reqDisconnect has returned
Within   == {"error", "postDisc", "postDiscWait", "waitDisc"}
Where(t) == IF th[t].at \in Within THEN th[t].back ELSE th[t].at

AcceptPlaces == {"accOpen", "inAccept", "accRecv", "accDel", "reAccept"}

JobOK(t) ==
  /\ th[t].job = "accept" => Where(t) \in AcceptPlaces \cup {"postAccept"}
  /\ Where(t) \in AcceptPlaces => th[t].job = "accept"
  /\ Where(t) \in {"conOpen", "inConnect", "conRecv", "conDel"} => th[t].job = "connect"
  /\ Where(t) = "inRecv" => th[t].job = "recv"
  /\ th[t].job # "none" => t \in Workers
  /\ Where(t) \in {"postConnect", "waitConn", "waitRecv", "waitEnd"} => t \in Callers

JobsOK == \A t \in Threads : JobOK(t)

-----------------------------------------------------------------------------
\* What a step does to the record of the thread that takes it
OnlyMoves(t) == \A u \in Threads : u # t => th'[u] = th[u]

LEMMA MoveTo ==
  ASSUME TypeOK, NEW t \in Threads, NEW p, Goto(t, p)
  PROVE  /\ th'[t].at = p /\ th'[t].on = th[t].on
         /\ th'[t].job = th[t].job /\ th'[t].back = th[t].back
         /\ OnlyMoves(t)
BY DEF Goto, TypeOK, ThreadState, OnlyMoves

LEMMA MoveToError ==
  ASSUME TypeOK, NEW t \in Threads, NEW p, Fail(t, p)
  PROVE  /\ th'[t].at = "error" /\ th'[t].on = th[t].on
         /\ th'[t].job = th[t].job /\ th'[t].back = p
         /\ OnlyMoves(t)
BY DEF Fail, TypeOK, ThreadState, OnlyMoves

LEMMA MoveAnew ==
  ASSUME TypeOK, NEW t \in Threads, NEW r, Become(t, r)
  PROVE  th'[t] = r /\ OnlyMoves(t)
BY DEF Become, TypeOK, OnlyMoves

LEMMA AgainIs == Again.job = "accept" /\ Again.at = "reAccept" /\ Again.back = "idle"
BY DEF Again, Idle

LEMMA MoveBack ==
  ASSUME TypeOK, NEW t \in Threads, Return(t)
  PROVE  /\ th[t].back = "idle" => th'[t] = Idle
         /\ th[t].back # "idle" => /\ th'[t].at = th[t].back /\ th'[t].back = "idle"
                                   /\ th'[t].on = th[t].on /\ th'[t].job = th[t].job
         /\ OnlyMoves(t)
BY DEF Return, Become, TypeOK, ThreadState, OnlyMoves

-----------------------------------------------------------------------------
(* Jobs and places                                                          *)

LEMMA JobsInit == Init => JobsOK
BY DEF Init, JobsOK, JobOK, Where, Within, AcceptPlaces, Idle

LEMMA JobsMove ==
  ASSUME JobsOK, NEW t \in Threads, JobOK(t)', OnlyMoves(t)
  PROVE  JobsOK'
BY DEF JobsOK, JobOK, Where, OnlyMoves

\* A step that keeps the job and where the thread will be
LEMMA JobsSame ==
  ASSUME JobsOK, NEW t \in Threads, OnlyMoves(t),
         th'[t].job = th[t].job, Where(t)' = Where(t)
  PROVE  JobsOK'
<1>1. JobOK(t)'
  BY DEF JobsOK, JobOK
<1>. QED  BY <1>1, JobsMove

LEMMA JobsIdle ==
  ASSUME JobsOK, NEW t \in Threads, OnlyMoves(t), th'[t] = Idle
  PROVE  JobsOK'
<1>1. JobOK(t)'
  BY DEF JobOK, Where, Within, AcceptPlaces, Idle
<1>. QED  BY <1>1, JobsMove

LEMMA JobsCompletion ==
  ASSUME TypeOK, JobsOK, NEW w \in Workers, NEW s \in Sockets, Completion(w, s)
  PROVE  JobsOK'
<1>1. w \in Threads
  BY DEF Threads
<1>2. JobOK(w)' /\ OnlyMoves(w)
  BY <1>1 DEF TypeOK, Completion, CompleteAccept, CompleteAcceptFails, CompleteConnect,
     CompleteConnectFails, CompleteRecv, CompleteRecvFails, CompleteDisconnect,
     CompleteDisconnectFails, Run, Become,
     JobOK, Where, Within, AcceptPlaces, OnlyMoves
<1>. QED  BY <1>1, <1>2, JobsMove

LEMMA JobsHandler ==
  ASSUME TypeOK, JobsOK, NEW w \in Workers, Handler(w)
  PROVE  JobsOK'
<1>. USE DEF At
<1>1. w \in Threads /\ JobOK(w)
  BY DEF Threads, JobsOK
<1>2. CASE HandAcceptRecv(w) \/ HandAcceptDel(w)
  <2>1. th'[w] = Again /\ OnlyMoves(w)
    BY <1>1, <1>2, MoveAnew DEF HandAcceptRecv, HandAcceptDel
  <2>2. JobOK(w)'
    BY <2>1 DEF JobOK, Where, Within, AcceptPlaces, Again, Idle
  <2>. QED  BY <1>1, <2>1, <2>2, JobsMove
<1>3. CASE \/ HandConnectRecv(w) \/ HandConnectDel(w) \/ HandRecvAgain(w) \/ HandDisconnect(w)
           \/ ConnectCallbackReturns(w) /\ bWait[th[w].on]
  <2>1. th'[w] = Idle /\ OnlyMoves(w)
    BY <1>1, <1>3, MoveAnew DEF HandConnectRecv, HandConnectDel, HandRecvAgain, HandDisconnect,
       ConnectCallbackReturns
  <2>. QED  BY <1>1, <2>1, JobsIdle
<1>4. CASE \/ HandAcceptOpen(w) \/ AcceptCallbackReturns(w) \/ HandConnectOpen(w)
           \/ ConnectCallbackReturns(w) /\ ~ bWait[th[w].on]
  <2>1. /\ \/ th[w].at = "accOpen" /\ th'[w].at = "inAccept"
           \/ th[w].at = "inAccept" /\ th'[w].at = "accRecv"
           \/ th[w].at = "conOpen" /\ th'[w].at = "inConnect"
           \/ th[w].at = "inConnect" /\ th'[w].at = "conRecv"
        /\ th'[w].job = th[w].job /\ OnlyMoves(w)
    BY <1>1, <1>4, MoveTo DEF HandAcceptOpen, AcceptCallbackReturns, HandConnectOpen,
       ConnectCallbackReturns
  <2>2. JobOK(w)'
    BY <1>1, <2>1 DEF JobOK, Where, Within, AcceptPlaces
  <2>. QED  BY <1>1, <2>1, <2>2, JobsMove
<1>5. CASE \/ HandAcceptRecvFails(w) \/ HandConnectRecvFails(w) \/ HandRecvPostFails(w)
           \/ HandRecvOverflow(w)
  <2>1. /\ \/ th[w].at = "accRecv" /\ th'[w].back = "reAccept"
           \/ th[w].at \in {"conRecv", "inRecv"} /\ th'[w].back = "idle"
        /\ th'[w].at = "error" /\ th'[w].job = th[w].job /\ OnlyMoves(w)
    BY <1>1, <1>5, MoveToError DEF HandAcceptRecvFails, HandConnectRecvFails, HandRecvPostFails,
       HandRecvOverflow
  <2>2. JobOK(w)'
    BY <1>1, <2>1 DEF JobOK, Where, Within, AcceptPlaces
  <2>. QED  BY <1>1, <2>1, <2>2, JobsMove
<1>. QED  BY <1>2, <1>3, <1>4, <1>5 DEF Handler

LEMMA JobsCall ==
  ASSUME TypeOK, JobsOK, NEW c \in Callers, Call(c)
  PROVE  JobsOK'
<1>. USE DEF At
<1>1. c \in Threads /\ JobOK(c)
  BY DEF Threads, JobsOK
<1>2. CASE (PostConnect(c) /\ bWait[th[c].on]) \/ WaitConnect(c)
  <2>1. /\ th[c].at \in {"postConnect", "waitConn"} /\ th'[c].at \in {"waitConn", "waitRecv"}
        /\ th'[c].job = th[c].job /\ OnlyMoves(c)
    BY <1>1, <1>2, MoveTo DEF PostConnect, WaitConnect
  <2>2. JobOK(c)'
    BY <1>1, <2>1 DEF JobOK, Where, Within, AcceptPlaces
  <2>. QED  BY <1>1, <2>1, <2>2, JobsMove
<1>3. CASE \/ PostConnect(c) /\ ~ bWait[th[c].on]
           \/ PostConnectFails(c) \/ WaitRecv(c) \/ WaitEnd(c)
  <2>1. th'[c] = Idle /\ OnlyMoves(c)
    BY <1>1, <1>3, MoveAnew DEF PostConnect, PostConnectFails, WaitRecv, WaitEnd
  <2>. QED  BY <1>1, <2>1, JobsIdle
<1>4. CASE WaitRecvFails(c)
  <2>1. /\ th[c].at = "waitRecv" /\ th'[c].at = "error" /\ th'[c].back = "waitEnd"
        /\ th'[c].job = th[c].job /\ OnlyMoves(c)
    BY <1>1, <1>4, MoveToError DEF WaitRecvFails
  <2>2. JobOK(c)'
    BY <1>1, <2>1 DEF JobOK, Where, Within, AcceptPlaces
  <2>. QED  BY <1>1, <2>1, <2>2, JobsMove
<1>. QED  BY <1>2, <1>3, <1>4 DEF Call

\* Coming back from handError or reqDisconnect
LEMMA JobsBack ==
  ASSUME TypeOK, JobsOK, NEW t \in Threads, th[t].at \in Within, Return(t),
         th[t].back \notin Within
  PROVE  JobsOK'
<1>1. CASE th[t].back = "idle"
  BY <1>1, MoveBack, JobsIdle
<1>2. CASE th[t].back # "idle"
  <2>1. Where(t)' = Where(t) /\ th'[t].job = th[t].job /\ OnlyMoves(t)
    BY <1>2, MoveBack DEF Where
  <2>. QED  BY <2>1, JobsSame
<1>. QED  BY <1>1, <1>2

LEMMA JobsShared ==
  ASSUME IInv, JobsOK, NEW t \in Threads, Shared(t)
  PROVE  JobsOK'
<1>. USE DEF At
<1>1. TypeOK /\ ThreadOK(t) /\ JobOK(t)
  BY DEF JobsOK, IInv
<1>2. CASE PostAccept(t) \/ PostAcceptFails(t)
  <2>1. th'[t] = Idle /\ OnlyMoves(t)
    BY <1>1, <1>2, MoveAnew DEF PostAccept, PostAcceptFails
  <2>. QED  BY <2>1, JobsIdle
<1>3. CASE HandError(t) /\ Goto(t, "postDisc")
  <2>1. Where(t)' = Where(t) /\ th'[t].job = th[t].job /\ OnlyMoves(t)
    BY <1>1, <1>3, MoveTo DEF HandError, Where, Within
  <2>. QED  BY <2>1, JobsSame
<1>4. CASE PostDisconnect(t) /\ Goto(t, "waitDisc")
  <2>1. Where(t)' = Where(t) /\ th'[t].job = th[t].job /\ OnlyMoves(t)
    BY <1>1, <1>4, MoveTo DEF PostDisconnect, Where, Within
  <2>. QED  BY <2>1, JobsSame
<1>5. CASE /\ HandError(t) \/ PostDisconnect(t) \/ PostDisconnectFails(t) \/ WaitDisconnect(t)
           /\ Return(t)
  <2>1. th[t].at \in Within
    BY <1>5 DEF HandError, PostDisconnect, PostDisconnectFails, WaitDisconnect, Within
  <2>2. th[t].back \notin Within
    BY <1>1, <2>1 DEF ThreadOK, Within
  <2>. QED  BY <1>1, <1>5, <2>1, <2>2, JobsBack
<1>. QED  BY <1>2, <1>3, <1>4, <1>5 DEF Shared, HandError, PostDisconnect, PostDisconnectFails,
             WaitDisconnect

LEMMA JobsAccepting ==
  ASSUME TypeOK, JobsOK, NEW t \in Threads, Accepting(t)
  PROVE  JobsOK'
<1>. USE DEF At
<1>1. JobOK(t)
  BY DEF JobsOK
<1>2. CASE ReqAcceptNoSocket(t)
  <2>1. th'[t] = Idle /\ OnlyMoves(t)
    BY <1>2, MoveAnew DEF ReqAcceptNoSocket
  <2>. QED  BY <2>1, JobsIdle
<1>3. ASSUME NEW s \in Sockets, ReqAccept(t, s) PROVE JobsOK'
  <2>1. /\ th[t].at \in {"idle", "reAccept"} /\ th'[t].at = "postAccept"
        /\ th'[t].job = th[t].job /\ OnlyMoves(t)
    BY <1>3 DEF ReqAccept, MayAccept, TypeOK, ThreadState, OnlyMoves
  <2>2. JobOK(t)'
    BY <1>1, <2>1 DEF JobOK, Where, Within, AcceptPlaces
  <2>. QED  BY <2>1, <2>2, JobsMove
<1>. QED  BY <1>2, <1>3 DEF Accepting

LEMMA JobsRequest ==
  ASSUME TypeOK, JobsOK, NEW c \in Callers, NEW s \in Sockets, Request(c, s)
  PROVE  JobsOK'
<1>. USE DEF At
<1>1. c \in Threads
  BY DEF Threads
<1>2. CASE PrepareCkSocket(c, s)
  BY <1>2 DEF PrepareCkSocket, JobsOK, JobOK, Where
<1>3. ASSUME NEW wait \in BOOLEAN, ReqConnect(c, s, wait) \/ ReqDisconnect(c, s, wait)
      PROVE  JobsOK'
  <2>1. /\ \E p \in {"postConnect", "postDisc", "postDiscWait"} :
             th'[c] = [Idle EXCEPT !.at = p, !.on = s]
        /\ OnlyMoves(c)
    BY <1>1, <1>3, MoveAnew DEF ReqConnect, ReqDisconnect, DiscPlace
  <2>2. JobOK(c)'
    BY <2>1 DEF JobOK, Where, Within, AcceptPlaces, Idle
  <2>. QED  BY <1>1, <2>1, <2>2, JobsMove
<1>. QED  BY <1>2, <1>3 DEF Request

LEMMA JobsInCallback ==
  ASSUME TypeOK, JobsOK, NEW w \in Workers, NEW wait \in BOOLEAN, ReqDisconnectInCallback(w, wait)
  PROVE  JobsOK'
<1>1. w \in Threads
  BY DEF Threads
<1>2. /\ Where(w)' = Where(w) /\ th'[w].job = th[w].job /\ OnlyMoves(w)
  BY <1>1 DEF ReqDisconnectInCallback, DiscPlace, Callbacks, Where, Within, TypeOK, ThreadState,
     OnlyMoves
<1>. QED  BY <1>1, <1>2, JobsSame

LEMMA JobsStep == IInv /\ JobsOK /\ [Next]_vars => JobsOK'
<1>. SUFFICES ASSUME IInv, JobsOK, [Next]_vars PROVE JobsOK'
  OBVIOUS
<1>0. TypeOK
  BY DEF IInv
<1>1. CASE UNCHANGED th
  BY <1>1 DEF JobsOK, JobOK, Where
<1>2. CASE (\E s \in Sockets : TimeWaitOver(s)) \/ UNCHANGED vars
  BY <1>1, <1>2 DEF TimeWaitOver, vars
<1>. QED  BY <1>0, <1>2, JobsCompletion, JobsHandler, JobsCall, JobsShared, JobsAccepting,
             JobsRequest, JobsInCallback DEF Next

LEMMA PostFacts ==
  ASSUME TypeOK, NEW s \in Sockets, NEW o \in Ops, Post(s, o)
  PROVE  /\ posted'[s][o] = posted[s][o] + 1 /\ posted[s][o] \in Nat
         /\ \A x \in Sockets, p \in Ops : x # s \/ p # o => posted'[x][p] = posted[x][p]
BY DEF Post, TypeOK

LEMMA FinishFacts ==
  ASSUME TypeOK, NEW s \in Sockets, NEW o \in Ops, Finish(s, o)
  PROVE  /\ posted[s][o] > 0
         /\ posted'[s][o] = posted[s][o] - 1 /\ posted[s][o] \in Nat
         /\ \A x \in Sockets, p \in Ops : x # s \/ p # o => posted'[x][p] = posted[x][p]
BY DEF Finish, TypeOK

LEMMA OpsFacts == {"accept", "connect", "recv", "disc"} = Ops
BY DEF Ops

-----------------------------------------------------------------------------
(* The way of a receive                                                     *)

\* The places from which the way leads to a receive
RecvPlaces == {"accOpen", "inAccept", "accRecv", "conOpen", "inConnect", "conRecv", "inRecv",
                "waitRecv"}

\* t has taken the socket and not yet posted its first operation.
Begins(t, s) == th[t].on = s /\ th[t].at \in {"postAccept", "postConnect"}

\* t is in _reqConnect, or in reqConnectAndWait before its receive.
Asks(t, s) == th[t].on = s /\ th[t].at \in {"postConnect", "waitConn", "waitRecv"}

SameOps(s) == \A o \in {"accept", "connect", "recv"} : posted'[s][o] = posted[s][o]

\* Threads that have just begun own their socket.
LEMMA BeginsMine ==
  ASSUME IInv, NEW t \in Threads, NEW s \in Sockets, Begins(t, s)
  PROVE  /\ NoOp(s) /\ ~ bEnable[s]
         /\ conn[s] # "stuck" => posted[s]["recv"] = 0
<1>1. Owns(t, s) /\ th[t].at \notin UpPlaces
  BY DEF Begins, Owns, OwnPlaces, UpPlaces
<1>. QED  BY <1>1, OwnedIsMine DEF Mine, AtRest

\* A thread that is done, or goes on to take a listening socket, has none.
LEMMA NoneOn ==
  ASSUME TypeOK, NEW t \in Threads, Become(t, Idle) \/ Become(t, Again)
  PROVE  th'[t].on \notin Sockets /\ OnlyMoves(t)
<1>1. Idle.on = None /\ Again.on = None
  BY DEF Idle, Again
<1>2. /\ th'[t] = Idle \/ th'[t] = Again
      /\ OnlyMoves(t)
  BY MoveAnew
<1>. QED  BY <1>1, <1>2, NoneAssumption

-----------------------------------------------------------------------------
(* Waiters                                                                  *)

\* The call in reqConnectAndWait that handConnect may leave the receive to
Waits(c, s) == th[c].on = s /\ th[c].at \in {"postConnect", "waitConn"}

Connecting(s) ==
  posted[s]["connect"] > 0 \/ \E w \in Workers : th[w].job = "connect" /\ th[w].on = s

WaitersStay ==
  \A s \in Sockets : bWait[s] /\ Connecting(s) => \E c \in Callers : Waits(c, s)

LEMMA WaitersInit == Init => WaitersStay
BY DEF Init, WaitersStay

\* A step that makes no socket connect or wait, and ends no wait for a connect
LEMMA WaitersKept ==
  ASSUME WaitersStay, NEW t \in Threads, OnlyMoves(t),
         \A s \in Sockets : bWait'[s] =>
           \/ t \in Callers /\ Waits(t, s)'
           \/ /\ bWait[s]
              /\ posted'[s]["connect"] > 0 => Connecting(s)
              /\ t \in Workers /\ th'[t].job = "connect" /\ th'[t].on = s => Connecting(s)
              /\ Waits(t, s) /\ Connecting(s) => Waits(t, s)'
  PROVE  WaitersStay'
<1>. SUFFICES ASSUME NEW s \in Sockets, bWait'[s], Connecting(s)'
              PROVE  \E c \in Callers : Waits(c, s)'
  BY DEF WaitersStay
<1>1. CASE t \in Callers /\ Waits(t, s)'
  BY <1>1
<1>2. CASE ~ (t \in Callers /\ Waits(t, s)')
  <2>1. bWait[s] /\ Connecting(s)
    BY <1>2 DEF Connecting, OnlyMoves, Threads
  <2>2. PICK c \in Callers : Waits(c, s)
    BY <2>1 DEF WaitersStay
  <2>3. Waits(c, s)'
    BY <1>2, <2>1, <2>2 DEF Waits, OnlyMoves, Threads
  <2>. QED  BY <2>3
<1>. QED  BY <1>1, <1>2

\* A step that ends no wait for a connect, of a thread that keeps its job and
\* its socket if it keeps anything
LEMMA WaitersSame ==
  ASSUME WaitersStay, NEW t \in Threads, OnlyMoves(t), th[t].at \notin {"postConnect", "waitConn"},
         \A s \in Sockets : (bWait'[s] => bWait[s]) /\ posted'[s]["connect"] = posted[s]["connect"],
         t \in Workers /\ th'[t].job = "connect" => th'[t].job = th[t].job /\ th'[t].on = th[t].on
  PROVE  WaitersStay'
BY WaitersKept DEF Waits, Connecting

LEMMA DelSocketFacts ==
  ASSUME TypeOK, NEW s, DelSocket(s)
  PROVE  /\ \A x \in Sockets : bWait'[x] => bWait[x] /\ x # s
         /\ \A x \in Sockets : bEnable'[x] => bEnable[x] /\ x # s
BY DEF DelSocket, TypeOK

LEMMA WaitersCompletion ==
  ASSUME TypeOK, WaitersStay, NEW w \in Workers, NEW s \in Sockets, Completion(w, s)
  PROVE  WaitersStay'
<1>. USE OpsFacts
<1>1. w \in Threads /\ w \notin Callers
  BY ThreadsAssumption DEF Threads
<1>2. /\ OnlyMoves(w) /\ th[w].at = "idle" /\ bWait' = bWait
      /\ th'[w].job = "connect" => th'[w].on = s /\ Finish(s, "connect")
  BY <1>1, MoveAnew DEF Completion, CompleteAccept, CompleteAcceptFails, CompleteConnect,
     CompleteConnectFails, CompleteRecv, CompleteRecvFails, CompleteDisconnect,
     CompleteDisconnectFails, Run, At
<1>3. PICK o \in Ops : Finish(s, o)
  BY DEF Completion, CompleteAccept, CompleteAcceptFails, CompleteConnect,
     CompleteConnectFails, CompleteRecv, CompleteRecvFails, CompleteDisconnect,
     CompleteDisconnectFails
<1>4. \A x \in Sockets : posted'[x]["connect"] > 0 => posted[x]["connect"] > 0
  BY <1>3, FinishFacts
<1>5. th'[w].job = "connect" => posted[s]["connect"] > 0
  BY <1>2, FinishFacts
<1>. QED  BY <1>1, <1>2, <1>4, <1>5, WaitersKept DEF Waits, Connecting

LEMMA WaitersHandler ==
  ASSUME IInv, WaitersStay, NEW w \in Workers, Handler(w)
  PROVE  WaitersStay'
<1>. USE OpsFacts DEF At
<1>1. w \in Threads /\ TypeOK /\ ThreadOK(w)
  BY DEF Threads, IInv
<1>2. CASE HandAcceptDel(w) \/ HandConnectDel(w) \/ HandDisconnect(w)
  <2>1. /\ OnlyMoves(w) /\ th'[w].job # "connect" /\ DelSocket(th[w].on) /\ posted' = posted
        /\ th[w].at \in {"accDel", "conDel", "inDisc"}
    BY <1>1, <1>2, MoveAnew, AgainIs DEF HandAcceptDel, HandConnectDel, HandDisconnect, Idle
  <2>. QED  BY <1>1, <2>1, DelSocketFacts, WaitersSame
<1>3. CASE HandAcceptRecv(w) \/ HandConnectRecv(w) \/ HandRecvAgain(w)
  <2>1. /\ OnlyMoves(w) /\ th'[w].job # "connect" /\ bWait' = bWait /\ PostRecvOk(th[w].on)
        /\ th[w].at \in {"accRecv", "conRecv", "inRecv"}
    BY <1>1, <1>3, MoveAnew, AgainIs DEF HandAcceptRecv, HandConnectRecv, HandRecvAgain, Idle
  <2>2. \A x \in Sockets : posted'[x]["connect"] = posted[x]["connect"]
    BY <1>1, <2>1, PostFacts DEF PostRecvOk, ThreadOK
  <2>. QED  BY <1>1, <2>1, <2>2, WaitersSame
<1>4. CASE \/ HandAcceptOpen(w) \/ AcceptCallbackReturns(w) \/ HandConnectOpen(w)
           \/ ConnectCallbackReturns(w) /\ ~ bWait[th[w].on]
  <2>1. /\ OnlyMoves(w) /\ th'[w].job = th[w].job /\ th'[w].on = th[w].on
        /\ bWait' = bWait /\ posted' = posted
        /\ th[w].at \in {"accOpen", "inAccept", "conOpen", "inConnect"}
    BY <1>1, <1>4, MoveTo DEF HandAcceptOpen, AcceptCallbackReturns, HandConnectOpen,
       ConnectCallbackReturns
  <2>. QED  BY <1>1, <2>1, WaitersSame
<1>5. CASE \/ HandAcceptRecvFails(w) \/ HandConnectRecvFails(w) \/ HandRecvPostFails(w)
           \/ HandRecvOverflow(w)
  <2>1. /\ OnlyMoves(w) /\ th'[w].job = th[w].job /\ th'[w].on = th[w].on
        /\ bWait' = bWait /\ posted' = posted
        /\ th[w].at \in {"accRecv", "conRecv", "inRecv"}
    BY <1>1, <1>5, MoveToError DEF HandAcceptRecvFails, HandConnectRecvFails, HandRecvPostFails,
       HandRecvOverflow
  <2>. QED  BY <1>1, <2>1, WaitersSame
<1>6. CASE ConnectCallbackReturns(w) /\ bWait[th[w].on]
  <2>1. /\ OnlyMoves(w) /\ th'[w].job # "connect" /\ bWait' = bWait /\ posted' = posted
        /\ th[w].at = "inConnect"
    BY <1>1, <1>6, MoveAnew DEF ConnectCallbackReturns, Idle
  <2>. QED  BY <1>1, <2>1, WaitersSame
<1>. QED  BY <1>2, <1>3, <1>4, <1>5, <1>6 DEF Handler

LEMMA WaitersCall ==
  ASSUME IInv, WaitersStay, NEW c \in Callers, Call(c)
  PROVE  WaitersStay'
<1>. USE OpsFacts DEF At
<1>. DEFINE s == th[c].on
<1>1. c \in Threads /\ c \notin Workers /\ TypeOK /\ ThreadOK(c)
  BY ThreadsAssumption DEF Threads, IInv
<1>2. CASE PostConnect(c)
  <2>0. PICK r \in Sockets : r = s
    BY <1>1, <1>2 DEF PostConnect, ThreadOK
  <2>1. bWait' = bWait /\ OnlyMoves(c) /\ Post(r, "connect")
    BY <1>1, <1>2, <2>0, MoveTo, MoveAnew DEF PostConnect
  <2>2. bWait[r] => Waits(c, r)'
    BY <1>1, <1>2, <2>0, MoveTo DEF PostConnect, Waits
  <2>3. \A x \in Sockets : x # r => posted'[x]["connect"] = posted[x]["connect"]
    BY <1>1, <2>1, PostFacts
  <2>4. ASSUME NEW x \in Sockets, bWait'[x]
        PROVE  \/ Waits(c, x)'
               \/ /\ bWait[x] /\ (posted'[x]["connect"] > 0 => Connecting(x))
                  /\ ~ Waits(c, x)
    <3>1. CASE x = r
      BY <2>1, <2>2, <2>4, <3>1
    <3>2. CASE x # r
      BY <2>0, <2>1, <2>3, <2>4, <3>2 DEF Waits, Connecting
    <3>. QED  BY <3>1, <3>2
  <2>. QED  BY <1>1, <2>1, <2>4, WaitersKept
<1>3. CASE PostConnectFails(c)
  <2>1. OnlyMoves(c) /\ DelSocket(s) /\ posted' = posted
    BY <1>1, <1>3, MoveAnew DEF PostConnectFails
  <2>. QED  BY <1>1, <2>1, DelSocketFacts, WaitersKept DEF Waits, Connecting
<1>4. CASE WaitConnect(c)
  <2>1. OnlyMoves(c) /\ bWait' = bWait /\ posted' = posted /\ Quiet(s)
    BY <1>1, <1>4, MoveTo DEF WaitConnect
  <2>2. ~ Connecting(s)
    BY <2>1 DEF Quiet, Connecting
  <2>. QED  BY <1>1, <2>1, <2>2, WaitersKept DEF Waits, Connecting
<1>5. CASE WaitRecv(c)
  <2>1. /\ s \in Sockets /\ OnlyMoves(c) /\ bWait' = bWait /\ Post(s, "recv")
        /\ th[c].at = "waitRecv"
    BY <1>1, <1>5, MoveAnew DEF WaitRecv, PostRecvOk, ThreadOK
  <2>2. \A x \in Sockets : posted'[x]["connect"] = posted[x]["connect"]
    BY <1>1, <2>1, PostFacts
  <2>. QED  BY <1>1, <2>1, <2>2, WaitersSame
<1>6. CASE WaitRecvFails(c) \/ WaitEnd(c)
  <2>1. /\ OnlyMoves(c) /\ bWait' = bWait /\ posted' = posted
        /\ th[c].at \in {"waitRecv", "waitEnd"}
    BY <1>1, <1>6, MoveToError, MoveAnew DEF WaitRecvFails, WaitEnd
  <2>. QED  BY <1>1, <2>1, WaitersSame
<1>. QED  BY <1>2, <1>3, <1>4, <1>5, <1>6 DEF Call

LEMMA WaitersShared ==
  ASSUME IInv, WaitersStay, NEW t \in Threads, Shared(t)
  PROVE  WaitersStay'
<1>. USE OpsFacts DEF At
<1>1. TypeOK /\ ThreadOK(t)
  BY DEF IInv
<1>2. CASE PostAccept(t)
  <2>1. /\ th[t].on \in Sockets /\ OnlyMoves(t) /\ bWait' = bWait /\ Post(th[t].on, "accept")
        /\ th[t].at = "postAccept" /\ th'[t].job = "none"
    BY <1>1, <1>2, MoveAnew DEF PostAccept, ThreadOK, Idle
  <2>2. \A x \in Sockets : posted'[x]["connect"] = posted[x]["connect"]
    BY <1>1, <2>1, PostFacts
  <2>. QED  BY <2>1, <2>2, WaitersSame
<1>3. CASE PostAcceptFails(t)
  <2>1. /\ OnlyMoves(t) /\ DelSocket(th[t].on) /\ posted' = posted
        /\ th[t].at = "postAccept" /\ th'[t].job = "none"
    BY <1>1, <1>3, MoveAnew DEF PostAcceptFails, Idle
  <2>. QED  BY <1>1, <2>1, DelSocketFacts, WaitersSame
<1>4. CASE HandError(t) \/ WaitDisconnect(t) \/ PostDisconnect(t) \/ PostDisconnectFails(t)
  <2>1. /\ th[t].at \in {"error", "waitDisc", "postDisc", "postDiscWait"} /\ bWait' = bWait
        /\ Return(t) \/ \E p \in Places : Goto(t, p)
    BY <1>4 DEF HandError, WaitDisconnect, PostDisconnect, PostDisconnectFails, Places
  <2>2. \A x \in Sockets : posted'[x]["connect"] = posted[x]["connect"]
    <3>1. CASE PostDisconnect(t)
      BY <1>1, <3>1, PostFacts DEF PostDisconnect, ThreadOK
    <3>2. CASE ~ PostDisconnect(t)
      BY <1>4, <3>2 DEF HandError, WaitDisconnect, PostDisconnectFails
    <3>. QED  BY <3>1, <3>2
  <2>3. OnlyMoves(t) /\ (th'[t].job = "connect" => th'[t].job = th[t].job /\ th'[t].on = th[t].on)
    BY <1>1, <2>1, MoveBack, MoveTo DEF Idle
  <2>. QED  BY <2>1, <2>2, <2>3, WaitersSame
<1>. QED  BY <1>2, <1>3, <1>4 DEF Shared

LEMMA WaitersAccepting ==
  ASSUME TypeOK, JobsOK, WaitersStay, NEW t \in Threads, Accepting(t)
  PROVE  WaitersStay'
<1>. USE DEF At
<1>1. /\ OnlyMoves(t) /\ bWait' = bWait /\ posted' = posted /\ MayAccept(t)
      /\ th'[t].job = "none" \/ th'[t].job = th[t].job
  BY MoveAnew DEF Accepting, ReqAccept, ReqAcceptNoSocket, Idle, TypeOK, ThreadState, OnlyMoves
<1>2. t \in Workers => th[t].job # "connect"
  BY <1>1, ThreadsAssumption DEF MayAccept, JobsOK, JobOK, Where, Within, AcceptPlaces
<1>3. th[t].at \in {"idle", "reAccept"}
  BY <1>1 DEF MayAccept
<1>. QED  BY <1>1, <1>2, <1>3, WaitersSame

LEMMA WaitersRequest ==
  ASSUME TypeOK, WaitersStay, NEW c \in Callers, NEW s \in Sockets, Request(c, s)
  PROVE  WaitersStay'
<1>. USE DEF At
<1>1. c \in Threads /\ c \notin Workers
  BY ThreadsAssumption DEF Threads
<1>2. CASE PrepareCkSocket(c, s)
  BY <1>2 DEF PrepareCkSocket, WaitersStay, Waits, Connecting
<1>3. ASSUME NEW wait \in BOOLEAN, ReqConnect(c, s, wait) PROVE WaitersStay'
  <2>1. /\ OnlyMoves(c) /\ posted' = posted /\ Waits(c, s)' /\ th[c].at = "idle"
        /\ \A x \in Sockets : x # s => bWait'[x] = bWait[x]
    <3>1. th'[c] = [Idle EXCEPT !.at = "postConnect", !.on = s] /\ OnlyMoves(c)
      BY <1>1, <1>3, MoveAnew DEF ReqConnect
    <3>. QED  BY <1>3, <3>1 DEF ReqConnect, Waits, Idle, TypeOK
  <2>2. ASSUME NEW x \in Sockets, bWait'[x]
        PROVE  \/ Waits(c, x)'
               \/ /\ bWait[x] /\ (posted'[x]["connect"] > 0 => Connecting(x))
                  /\ ~ Waits(c, x)
    BY <2>1, <2>2 DEF Waits, Connecting
  <2>. QED  BY <1>1, <2>1, <2>2, WaitersKept
<1>4. ASSUME NEW wait \in BOOLEAN, ReqDisconnect(c, s, wait) PROVE WaitersStay'
  <2>1. OnlyMoves(c) /\ posted' = posted /\ th[c].at = "idle" /\ bWait' = bWait
    BY <1>1, <1>4, MoveAnew DEF ReqDisconnect
  <2>. QED  BY <1>1, <2>1, WaitersSame
<1>. QED  BY <1>2, <1>3, <1>4 DEF Request

LEMMA WaitersInCallback ==
  ASSUME TypeOK, WaitersStay, NEW w \in Workers, NEW wait \in BOOLEAN,
         ReqDisconnectInCallback(w, wait)
  PROVE  WaitersStay'
<1>1. w \in Threads
  BY DEF Threads
<1>2. /\ OnlyMoves(w) /\ th'[w].job = th[w].job /\ th'[w].on = th[w].on
      /\ bWait' = bWait /\ posted' = posted /\ th[w].at \in Callbacks
  BY <1>1 DEF ReqDisconnectInCallback, TypeOK, ThreadState, OnlyMoves
<1>. QED  BY <1>1, <1>2, WaitersSame DEF Callbacks

LEMMA WaitersStep == IInv /\ JobsOK /\ WaitersStay /\ [Next]_vars => WaitersStay'
<1>. SUFFICES ASSUME IInv, JobsOK, WaitersStay, [Next]_vars PROVE WaitersStay'
  OBVIOUS
<1>0. TypeOK
  BY DEF IInv
<1>1. CASE (\E s \in Sockets : TimeWaitOver(s)) \/ UNCHANGED vars
  BY <1>1 DEF TimeWaitOver, vars, WaitersStay, Waits, Connecting
<1>. QED  BY <1>0, <1>1, WaitersCompletion, WaitersHandler, WaitersCall, WaitersShared,
             WaitersAccepting, WaitersRequest, WaitersInCallback DEF Next

-----------------------------------------------------------------------------
(* Open connections are attended to                                         *)

\* The places from which a thread posts a receive or calls handError
Hearers == {"inAccept", "accRecv", "inConnect", "conRecv", "waitConn", "waitRecv", "inRecv"}

Attends(t, s) == th[t].on = s /\ (th[t].at = "error" \/ Where(t) \in Hearers)

Attended ==
  \A s \in Sockets :
    bEnable[s] => posted[s]["recv"] > 0 \/ \E t \in Threads : Attends(t, s)

LEMMA AttendedInit == Init => Attended
BY DEF Init, Attended

\* A step of a thread that attended to no other socket
LEMMA AttendedKept ==
  ASSUME Attended, NEW t \in Threads, OnlyMoves(t), NEW s \in Sockets,
         \A x \in Sockets : x # s =>
           /\ ~ Attends(t, x)
           /\ bEnable'[x] => bEnable[x]
           /\ posted'[x]["recv"] = posted[x]["recv"],
         bEnable'[s] => \/ Attends(t, s)'
                        \/ posted'[s]["recv"] > 0
                        \/ \E u \in Threads : u # t /\ Attends(u, s)
                        \/ bEnable[s] /\ ~ Attends(t, s) /\ posted'[s]["recv"] = posted[s]["recv"]
  PROVE  Attended'
<1>1. \A u \in Threads, x \in Sockets : u # t => (Attends(u, x)' <=> Attends(u, x))
  BY DEF OnlyMoves, Attends, Where
<1>2. ASSUME NEW x \in Sockets, bEnable'[x]
      PROVE  posted'[x]["recv"] > 0 \/ \E u \in Threads : Attends(u, x)'
  BY <1>1, <1>2 DEF Attended
<1>. QED  BY <1>2 DEF Attended

\* A step of a thread that attends to its socket no longer, or never did
LEMMA AttendedSame ==
  ASSUME Attended, NEW t \in Threads, OnlyMoves(t), \A x \in Sockets : ~ Attends(t, x),
         \A x \in Sockets : /\ bEnable'[x] => bEnable[x]
                            /\ posted'[x]["recv"] = posted[x]["recv"]
  PROVE  Attended'
<1>1. \A u \in Threads, x \in Sockets : Attends(u, x) => Attends(u, x)'
  BY DEF OnlyMoves, Attends, Where
<1>. QED  BY <1>1 DEF Attended

\* A step of a thread that goes on attending to its socket
LEMMA AttendedOn ==
  ASSUME Attended, NEW t \in Threads, OnlyMoves(t),
         \A x \in Sockets : Attends(t, x) => ~ bEnable'[x] \/ Attends(t, x)',
         \A x \in Sockets : /\ bEnable'[x] => bEnable[x]
                            /\ posted'[x]["recv"] = posted[x]["recv"]
  PROVE  Attended'
<1>1. \A u \in Threads, x \in Sockets : bEnable'[x] /\ Attends(u, x) => Attends(u, x)'
  BY DEF OnlyMoves, Attends, Where
<1>. QED  BY <1>1 DEF Attended

LEMMA AttendedCompletion ==
  ASSUME TypeOK, Attended, NEW w \in Workers, NEW s \in Sockets, Completion(w, s)
  PROVE  Attended'
<1>. USE OpsFacts
<1>1. w \in Threads
  BY DEF Threads
<1>2. OnlyMoves(w) /\ th[w].at = "idle" /\ bEnable' = bEnable
  BY <1>1, MoveAnew DEF Completion, CompleteAccept, CompleteAcceptFails, CompleteConnect,
     CompleteConnectFails, CompleteRecv, CompleteRecvFails, CompleteDisconnect,
     CompleteDisconnectFails, Run, At
<1>3. \A x \in Sockets : ~ Attends(w, x)
  BY <1>2 DEF Attends, Where, Within, Hearers
<1>4. CASE CompleteRecv(w, s) \/ CompleteRecvFails(w, s)
  <2>1. Attends(w, s)'
    <3>1. th'[w].on = s /\ th'[w].at \in {"inRecv", "error"}
      BY <1>1, <1>4, MoveAnew DEF CompleteRecv, CompleteRecvFails, Run
    <3>. QED  BY <3>1 DEF Attends, Where, Within, Hearers
  <2>2. \A x \in Sockets : x # s => posted'[x]["recv"] = posted[x]["recv"]
    BY <1>4, FinishFacts DEF CompleteRecv, CompleteRecvFails
  <2>. QED  BY <1>1, <1>2, <1>3, <2>1, <2>2, AttendedKept
<1>5. CASE ~ (CompleteRecv(w, s) \/ CompleteRecvFails(w, s))
  <2>1. PICK o \in Ops : o # "recv" /\ Finish(s, o)
    BY <1>5 DEF Completion, CompleteAccept, CompleteAcceptFails, CompleteConnect,
       CompleteConnectFails, CompleteDisconnect,
       CompleteDisconnectFails
  <2>2. \A x \in Sockets : posted'[x]["recv"] = posted[x]["recv"]
    BY <2>1, FinishFacts
  <2>. QED  BY <1>1, <1>2, <1>3, <2>2, AttendedSame
<1>. QED  BY <1>4, <1>5

\* A receive is posted: the connection is heard whatever the thread does
LEMMA AttendedReceives ==
  ASSUME TypeOK, Attended, NEW t \in Threads, OnlyMoves(t), th[t].on \in Sockets,
         PostRecvOk(th[t].on), bEnable' = bEnable
  PROVE  Attended'
<1>. DEFINE s == th[t].on
<1>1. /\ posted'[s]["recv"] = posted[s]["recv"] + 1 /\ posted[s]["recv"] \in Nat
      /\ \A x \in Sockets : x # s => posted'[x]["recv"] = posted[x]["recv"]
  BY OpsFacts, PostFacts DEF PostRecvOk
<1>2. PICK r \in Sockets : r = s
  OBVIOUS
<1>3. \A x \in Sockets : x # r => ~ Attends(t, x)
  BY <1>2 DEF Attends
<1>. QED  BY <1>1, <1>2, <1>3, AttendedKept

\* The socket is back in its pool
LEMMA AttendedDel ==
  ASSUME TypeOK, Attended, NEW t \in Threads, OnlyMoves(t), DelSocket(th[t].on),
         posted' = posted
  PROVE  Attended'
<1>1. \A x \in Sockets : bEnable'[x] => bEnable[x] /\ x # th[t].on
  BY DelSocketFacts
<1>2. \A x \in Sockets : Attends(t, x) => ~ bEnable'[x]
  BY <1>1 DEF Attends
<1>. QED  BY <1>1, <1>2, AttendedOn

LEMMA AttendedHandler ==
  ASSUME IInv, JobsOK, WaitersStay, Attended, NEW w \in Workers, Handler(w)
  PROVE  Attended'
<1>. USE DEF At
<1>1. w \in Threads /\ TypeOK /\ ThreadOK(w) /\ JobOK(w)
  BY DEF Threads, IInv, JobsOK
<1>2. CASE HandAcceptDel(w) \/ HandConnectDel(w) \/ HandDisconnect(w)
  <2>1. OnlyMoves(w) /\ DelSocket(th[w].on) /\ posted' = posted
    BY <1>1, <1>2, MoveAnew DEF HandAcceptDel, HandConnectDel, HandDisconnect
  <2>. QED  BY <1>1, <2>1, AttendedDel
<1>3. CASE HandAcceptRecv(w) \/ HandConnectRecv(w) \/ HandRecvAgain(w)
  <2>1. /\ OnlyMoves(w) /\ bEnable' = bEnable /\ PostRecvOk(th[w].on) /\ th[w].on \in Sockets
    BY <1>1, <1>3, MoveAnew DEF HandAcceptRecv, HandConnectRecv, HandRecvAgain, ThreadOK
  <2>. QED  BY <1>1, <2>1, AttendedReceives
<1>4. CASE HandAcceptOpen(w) \/ HandConnectOpen(w)
  <2>1. PICK s \in Sockets : s = th[w].on
    BY <1>1, <1>4 DEF HandAcceptOpen, HandConnectOpen, ThreadOK
  <2>2. /\ OnlyMoves(w) /\ posted' = posted /\ bEnable' = [bEnable EXCEPT ![s] = TRUE]
        /\ th'[w].on = s /\ th'[w].at \in {"inAccept", "inConnect"}
    BY <1>1, <1>4, <2>1, MoveTo DEF HandAcceptOpen, HandConnectOpen
  <2>3. Attends(w, s)' /\ \A x \in Sockets : x # s => ~ Attends(w, x)
    BY <2>1, <2>2 DEF Attends, Where, Within, Hearers
  <2>4. \A x \in Sockets : x # s => bEnable'[x] = bEnable[x]
    BY <2>2, <1>1 DEF TypeOK
  <2>. QED  BY <1>1, <2>2, <2>3, <2>4, AttendedKept
<1>5. CASE AcceptCallbackReturns(w) \/ (ConnectCallbackReturns(w) /\ ~ bWait[th[w].on])
  <2>1. /\ OnlyMoves(w) /\ posted' = posted /\ bEnable' = bEnable
        /\ th'[w].on = th[w].on /\ th'[w].at \in {"accRecv", "conRecv"}
    BY <1>1, <1>5, MoveTo DEF AcceptCallbackReturns, ConnectCallbackReturns
  <2>2. \A x \in Sockets : Attends(w, x) => Attends(w, x)'
    BY <2>1 DEF Attends, Where, Within, Hearers
  <2>. QED  BY <1>1, <2>1, <2>2, AttendedOn
<1>6. CASE \/ HandAcceptRecvFails(w) \/ HandConnectRecvFails(w) \/ HandRecvPostFails(w)
           \/ HandRecvOverflow(w)
  <2>1. /\ OnlyMoves(w) /\ posted' = posted /\ bEnable' = bEnable
        /\ th'[w].on = th[w].on /\ th'[w].at = "error"
    BY <1>1, <1>6, MoveToError DEF HandAcceptRecvFails, HandConnectRecvFails, HandRecvPostFails,
       HandRecvOverflow
  <2>2. \A x \in Sockets : Attends(w, x) => Attends(w, x)'
    BY <2>1 DEF Attends
  <2>. QED  BY <1>1, <2>1, <2>2, AttendedOn
\* handConnect leaves the receive to the call that waits, which is still there
<1>7. CASE ConnectCallbackReturns(w) /\ bWait[th[w].on]
  <2>1. PICK s \in Sockets : s = th[w].on
    BY <1>1, <1>7 DEF ConnectCallbackReturns, ThreadOK
  <2>2. /\ OnlyMoves(w) /\ posted' = posted /\ bEnable' = bEnable /\ bWait[s]
        /\ th[w].at = "inConnect"
    BY <1>1, <1>7, <2>1, MoveAnew DEF ConnectCallbackReturns
  <2>3. th[w].job = "connect"
    BY <1>1, <2>2 DEF JobOK, Where, Within
  <2>4. PICK c \in Callers : Waits(c, s)
    BY <2>1, <2>2, <2>3 DEF WaitersStay, Connecting
  <2>5. c \in Threads /\ c # w
    BY ThreadsAssumption DEF Threads
  <2>6. bEnable[s] => Attends(c, s)
    <3>1. bEnable[s] => ~ Owns(c, s)
      BY <2>5, EnabledIsEnabled DEF Enabled, Nobody
    <3>. QED  BY <2>4, <3>1 DEF Waits, Owns, OwnPlaces, Attends, Where, Within, Hearers
  <2>7. \A x \in Sockets : x # s => ~ Attends(w, x)
    BY <2>1 DEF Attends
  <2>. QED  BY <1>1, <2>2, <2>5, <2>6, <2>7, AttendedKept
<1>. QED  BY <1>2, <1>3, <1>4, <1>5, <1>6, <1>7 DEF Handler

LEMMA AttendedCall ==
  ASSUME IInv, Attended, NEW c \in Callers, Call(c)
  PROVE  Attended'
<1>. USE DEF At
<1>1. c \in Threads /\ TypeOK /\ ThreadOK(c)
  BY DEF Threads, IInv
<1>2. CASE PostConnect(c)
  <2>1. OnlyMoves(c) /\ bEnable' = bEnable /\ th[c].at = "postConnect"
    BY <1>1, <1>2, MoveTo, MoveAnew DEF PostConnect
  <2>2. \A x \in Sockets : posted'[x]["recv"] = posted[x]["recv"]
    BY <1>1, <1>2, OpsFacts, PostFacts DEF PostConnect, ThreadOK
  <2>3. \A x \in Sockets : ~ Attends(c, x)
    BY <2>1 DEF Attends, Where, Within, Hearers
  <2>. QED  BY <1>1, <2>1, <2>2, <2>3, AttendedSame
<1>3. CASE PostConnectFails(c)
  <2>1. OnlyMoves(c) /\ DelSocket(th[c].on) /\ posted' = posted
    BY <1>1, <1>3, MoveAnew DEF PostConnectFails
  <2>. QED  BY <1>1, <2>1, AttendedDel
<1>4. CASE WaitConnect(c) \/ WaitRecvFails(c)
  <2>1. /\ OnlyMoves(c) /\ posted' = posted /\ bEnable' = bEnable
        /\ th'[c].on = th[c].on /\ th'[c].at \in {"waitRecv", "error"}
    BY <1>1, <1>4, MoveTo, MoveToError DEF WaitConnect, WaitRecvFails
  <2>2. \A x \in Sockets : Attends(c, x) => Attends(c, x)'
    BY <2>1 DEF Attends, Where, Within, Hearers
  <2>. QED  BY <1>1, <2>1, <2>2, AttendedOn
<1>5. CASE WaitRecv(c)
  <2>1. OnlyMoves(c) /\ bEnable' = bEnable /\ PostRecvOk(th[c].on) /\ th[c].on \in Sockets
    BY <1>1, <1>5, MoveAnew DEF WaitRecv, ThreadOK
  <2>. QED  BY <1>1, <2>1, AttendedReceives
<1>6. CASE WaitEnd(c)
  <2>1. OnlyMoves(c) /\ bEnable' = bEnable /\ posted' = posted /\ th[c].at = "waitEnd"
    BY <1>1, <1>6, MoveAnew DEF WaitEnd
  <2>2. \A x \in Sockets : ~ Attends(c, x)
    BY <2>1 DEF Attends, Where, Within, Hearers
  <2>. QED  BY <1>1, <2>1, <2>2, AttendedSame
<1>. QED  BY <1>2, <1>3, <1>4, <1>5, <1>6 DEF Call

\* A thread that comes back attends to its socket again, if it did before
LEMMA AttendsBack ==
  ASSUME TypeOK, NEW t \in Threads, Return(t), NEW x \in Sockets,
         th[t].at \in Within \ {"error"}, Attends(t, x)
  PROVE  Attends(t, x)'
<1>1. th[t].back \in Hearers /\ th[t].on = x
  BY DEF Attends, Where
<1>2. th'[t].at = th[t].back /\ th'[t].on = x
  BY <1>1, MoveBack DEF Hearers
<1>. QED  BY <1>1, <1>2 DEF Attends, Where, Within, Hearers

LEMMA AttendedShared ==
  ASSUME IInv, Attended, NEW t \in Threads, Shared(t)
  PROVE  Attended'
<1>. USE DEF At
<1>1. TypeOK /\ ThreadOK(t)
  BY DEF IInv
<1>2. CASE PostAccept(t)
  <2>1. OnlyMoves(t) /\ bEnable' = bEnable /\ th[t].at = "postAccept"
    BY <1>1, <1>2, MoveAnew DEF PostAccept
  <2>2. \A x \in Sockets : posted'[x]["recv"] = posted[x]["recv"]
    BY <1>1, <1>2, OpsFacts, PostFacts DEF PostAccept, ThreadOK
  <2>3. \A x \in Sockets : ~ Attends(t, x)
    BY <2>1 DEF Attends, Where, Within, Hearers
  <2>. QED  BY <2>1, <2>2, <2>3, AttendedSame
<1>3. CASE PostAcceptFails(t)
  <2>1. OnlyMoves(t) /\ DelSocket(th[t].on) /\ posted' = posted
    BY <1>1, <1>3, MoveAnew DEF PostAcceptFails
  <2>. QED  BY <1>1, <2>1, AttendedDel
<1>4. CASE HandError(t)
  <2>1. OnlyMoves(t) /\ posted' = posted
    BY <1>1, <1>4, MoveTo, MoveBack DEF HandError
  <2>2. /\ ~ bEnable'[th[t].on] /\ \A x \in Sockets : bEnable'[x] => bEnable[x]
    BY <1>1, <1>4 DEF HandError, Disable, TypeOK, ThreadOK
  <2>3. \A x \in Sockets : Attends(t, x) => ~ bEnable'[x]
    BY <2>2 DEF Attends
  <2>. QED  BY <2>1, <2>2, <2>3, AttendedOn
<1>5. CASE WaitDisconnect(t) \/ PostDisconnect(t) \/ PostDisconnectFails(t)
  <2>1. /\ th[t].at \in Within \ {"error"} /\ bEnable' = bEnable
        /\ Return(t) \/ Goto(t, "waitDisc")
    BY <1>5 DEF WaitDisconnect, PostDisconnect, PostDisconnectFails, Within
  <2>2. \A x \in Sockets : posted'[x]["recv"] = posted[x]["recv"]
    <3>1. CASE PostDisconnect(t)
      BY <1>1, <3>1, OpsFacts, PostFacts DEF PostDisconnect, ThreadOK
    <3>2. CASE ~ PostDisconnect(t)
      BY <1>5, <3>2 DEF WaitDisconnect, PostDisconnectFails
    <3>. QED  BY <3>1, <3>2
  <2>3. OnlyMoves(t)
    BY <1>1, <2>1, MoveBack, MoveTo
  <2>4. ASSUME NEW x \in Sockets, Attends(t, x) PROVE Attends(t, x)'
    <3>1. CASE Return(t)
      BY <1>1, <2>1, <2>4, <3>1, AttendsBack
    <3>2. CASE Goto(t, "waitDisc")
      BY <1>1, <2>1, <2>4, <3>2, MoveTo DEF Attends, Where, Within
    <3>. QED  BY <2>1, <3>1, <3>2
  <2>. QED  BY <2>1, <2>2, <2>3, <2>4, AttendedOn
<1>. QED  BY <1>2, <1>3, <1>4, <1>5 DEF Shared

LEMMA AttendedAccepting ==
  ASSUME TypeOK, Attended, NEW t \in Threads, Accepting(t)
  PROVE  Attended'
<1>1. /\ OnlyMoves(t) /\ bEnable' = bEnable /\ posted' = posted
      /\ th[t].at \in {"idle", "reAccept"}
  BY MoveAnew DEF Accepting, ReqAccept, ReqAcceptNoSocket, MayAccept, At, TypeOK, OnlyMoves
<1>2. \A x \in Sockets : ~ Attends(t, x)
  BY <1>1 DEF Attends, Where, Within, Hearers
<1>. QED  BY <1>1, <1>2, AttendedSame

LEMMA AttendedRequest ==
  ASSUME TypeOK, Attended, NEW c \in Callers, NEW s \in Sockets, Request(c, s)
  PROVE  Attended'
<1>1. c \in Threads
  BY DEF Threads
<1>2. CASE PrepareCkSocket(c, s)
  BY <1>2 DEF PrepareCkSocket, Attended, Attends, Where
<1>3. ASSUME NEW wait \in BOOLEAN, ReqConnect(c, s, wait) \/ ReqDisconnect(c, s, wait)
      PROVE  Attended'
  <2>1. /\ OnlyMoves(c) /\ posted' = posted /\ th[c].at = "idle"
        /\ \A x \in Sockets : bEnable'[x] => bEnable[x]
    BY <1>1, <1>3, MoveAnew DEF ReqConnect, ReqDisconnect, Disable, At, TypeOK
  <2>2. \A x \in Sockets : ~ Attends(c, x)
    BY <2>1 DEF Attends, Where, Within, Hearers
  <2>. QED  BY <1>1, <2>1, <2>2, AttendedSame
<1>. QED  BY <1>2, <1>3 DEF Request

LEMMA AttendedInCallback ==
  ASSUME TypeOK, Attended, NEW w \in Workers, NEW wait \in BOOLEAN,
         ReqDisconnectInCallback(w, wait)
  PROVE  Attended'
<1>1. w \in Threads
  BY DEF Threads
<1>2. OnlyMoves(w) /\ posted' = posted /\ Disable(th[w].on)
  BY <1>1 DEF ReqDisconnectInCallback, TypeOK, OnlyMoves
<1>3. \A x \in Sockets : bEnable'[x] => bEnable[x] /\ x # th[w].on
  BY <1>2 DEF Disable, TypeOK
<1>4. \A x \in Sockets : Attends(w, x) => ~ bEnable'[x]
  BY <1>3 DEF Attends
<1>. QED  BY <1>1, <1>2, <1>3, <1>4, AttendedOn

LEMMA AttendedStep == IInv /\ JobsOK /\ WaitersStay /\ Attended /\ [Next]_vars => Attended'
<1>. SUFFICES ASSUME IInv, JobsOK, WaitersStay, Attended, [Next]_vars PROVE Attended'
  OBVIOUS
<1>0. TypeOK
  BY DEF IInv
<1>1. CASE (\E s \in Sockets : TimeWaitOver(s)) \/ UNCHANGED vars
  BY <1>1 DEF TimeWaitOver, vars, Attended, Attends, Where
<1>. QED  BY <1>0, <1>1, AttendedCompletion, AttendedHandler, AttendedCall, AttendedShared,
             AttendedAccepting, AttendedRequest, AttendedInCallback DEF Next

\* No connection is left open and unheard: for every number of threads and
\* sockets, also with stale handlers and with waits inside callbacks.
THEOREM ConnectionsHeard == Spec => []NeverDeaf
<1>1. Init => JobsOK /\ WaitersStay /\ Attended
  BY JobsInit, WaitersInit, AttendedInit
<1>2. IInv /\ (JobsOK /\ WaitersStay /\ Attended) /\ [Next]_vars
        => (JobsOK /\ WaitersStay /\ Attended)'
  BY JobsStep, WaitersStep, AttendedStep
<1>3. Attended => NeverDeaf
  BY DEF Attended, NeverDeaf, Attends
<1>. QED  BY <1>1, <1>2, <1>3, InvariantHolds, PTL DEF Spec

-----------------------------------------------------------------------------
(* The accepts of the listener                                              *)

Working(t) == th[t].job = "accept" \/ At(t, "postAccept")
Waiting    == {s \in Sockets : posted[s]["accept"] > 0}
Hands      == {t \in Threads : Working(t)}

\* AcceptsKept, with the finiteness its counting rests on
Counted ==
  /\ IsFiniteSet(Waiting) /\ IsFiniteSet(Hands)
  /\ todo + lost + Cardinality(Waiting) + Cardinality(Hands) = AcceptNum

LEMMA CountedInit == Init => Counted
<1>. SUFFICES ASSUME Init PROVE Counted
  OBVIOUS
<1>1. Waiting = {} /\ Hands = {}
  BY DEF Init, Waiting, Hands, Working, At, Idle, Ops
<1>2. todo = AcceptNum /\ lost = 0 /\ AcceptNum \in Nat
  BY ParamAssumption DEF Init
<1>. QED  BY <1>1, <1>2, FS_EmptySet DEF Counted

\* What is counted is a number
LEMMA CountedNumbers ==
  ASSUME Counted, TypeOK
  PROVE  /\ Cardinality(Waiting) \in Nat /\ Cardinality(Hands) \in Nat
         /\ todo \in Nat /\ lost \in Nat
BY FS_CardinalityType DEF Counted, TypeOK

\* A step that moves no accept
LEMMA CountedSame ==
  ASSUME TypeOK, Counted, todo' + lost' = todo + lost,
         \A s \in Sockets : posted'[s]["accept"] = posted[s]["accept"],
         \A t \in Threads : Working(t)' <=> Working(t)
  PROVE  Counted'
<1>1. Waiting' = Waiting /\ Hands' = Hands
  BY DEF Waiting, Hands
<1>. HIDE DEF Waiting, Hands
<1>. QED  BY <1>1, CountedNumbers DEF Counted

\* The same of a step of one thread
LEMMA CountedKept ==
  ASSUME TypeOK, Counted, NEW t \in Threads, OnlyMoves(t), todo' + lost' = todo + lost,
         \A s \in Sockets : posted'[s]["accept"] = posted[s]["accept"],
         Working(t)' <=> Working(t)
  PROVE  Counted'
<1>1. \A u \in Threads : Working(u)' <=> Working(u)
  BY DEF Working, At, OnlyMoves
<1>. QED  BY <1>1, CountedSame

\* A caller takes on one of the accepts reqListen still has to ask for
LEMMA CountedJoins ==
  ASSUME TypeOK, Counted, NEW t \in Threads, OnlyMoves(t), ~ Working(t), Working(t)',
         todo > 0, todo' = todo - 1, lost' = lost, posted' = posted
  PROVE  Counted'
<1>1. Waiting' = Waiting /\ Hands' = Hands \cup {t} /\ t \notin Hands
  BY DEF Waiting, Hands, Working, At, OnlyMoves
<1>. HIDE DEF Waiting, Hands
<1>2. IsFiniteSet(Hands') /\ Cardinality(Hands') = Cardinality(Hands) + 1
  BY <1>1, FS_AddElement DEF Counted
<1>3. /\ Cardinality(Waiting) \in Nat /\ Cardinality(Hands) \in Nat
      /\ todo \in Nat /\ lost \in Nat
  BY CountedNumbers
<1>. QED  BY <1>1, <1>2, <1>3 DEF Counted

\* A thread gives an accept up
LEMMA CountedLost ==
  ASSUME TypeOK, Counted, NEW t \in Threads, OnlyMoves(t), Working(t), ~ Working(t)',
         todo' = todo, lost' = lost + 1, posted' = posted
  PROVE  Counted'
<1>1. Waiting' = Waiting /\ Hands' = Hands \ {t} /\ t \in Hands
  BY DEF Waiting, Hands, Working, At, OnlyMoves
<1>. HIDE DEF Waiting, Hands
<1>2. IsFiniteSet(Hands') /\ Cardinality(Hands') = Cardinality(Hands) - 1
  BY <1>1, FS_RemoveElement DEF Counted
<1>3. /\ Cardinality(Waiting) \in Nat /\ Cardinality(Hands) \in Nat
      /\ todo \in Nat /\ lost \in Nat
  BY CountedNumbers
<1>. QED  BY <1>1, <1>2, <1>3 DEF Counted

\* An accept goes from a thread to the kernel
LEMMA CountedPosts ==
  ASSUME TypeOK, Counted, NEW t \in Threads, NEW s \in Sockets, OnlyMoves(t),
         Working(t), ~ Working(t)', todo' = todo, lost' = lost,
         posted[s]["accept"] = 0, Post(s, "accept")
  PROVE  Counted'
<1>0. /\ posted'[s]["accept"] = 1
      /\ \A x \in Sockets : x # s => posted'[x]["accept"] = posted[x]["accept"]
  BY PostFacts, OpsFacts
<1>1. /\ Waiting' = Waiting \cup {s} /\ s \notin Waiting
      /\ Hands' = Hands \ {t} /\ t \in Hands
  BY <1>0 DEF Waiting, Hands, Working, At, OnlyMoves
<1>. HIDE DEF Waiting, Hands
<1>2. /\ IsFiniteSet(Hands') /\ Cardinality(Hands') = Cardinality(Hands) - 1
      /\ IsFiniteSet(Waiting') /\ Cardinality(Waiting') = Cardinality(Waiting) + 1
  BY <1>1, FS_AddElement, FS_RemoveElement DEF Counted
<1>3. /\ Cardinality(Waiting) \in Nat /\ Cardinality(Hands) \in Nat
      /\ todo \in Nat /\ lost \in Nat
  BY CountedNumbers
<1>. QED  BY <1>2, <1>3 DEF Counted

\* A worker takes a completed accept from the kernel
LEMMA CountedTakes ==
  ASSUME TypeOK, Counted, NEW t \in Threads, NEW s \in Sockets, OnlyMoves(t),
         ~ Working(t), Working(t)', todo' = todo, lost' = lost,
         posted[s]["accept"] = 1, Finish(s, "accept")
  PROVE  Counted'
<1>0. /\ posted'[s]["accept"] = 0
      /\ \A x \in Sockets : x # s => posted'[x]["accept"] = posted[x]["accept"]
  BY FinishFacts, OpsFacts
<1>1. /\ Waiting' = Waiting \ {s} /\ s \in Waiting
      /\ Hands' = Hands \cup {t} /\ t \notin Hands
  BY <1>0 DEF Waiting, Hands, Working, At, OnlyMoves
<1>. HIDE DEF Waiting, Hands
<1>2. /\ IsFiniteSet(Hands') /\ Cardinality(Hands') = Cardinality(Hands) + 1
      /\ IsFiniteSet(Waiting') /\ Cardinality(Waiting') = Cardinality(Waiting) - 1
  BY <1>1, FS_AddElement, FS_RemoveElement DEF Counted
<1>3. /\ Cardinality(Waiting) \in Nat /\ Cardinality(Hands) \in Nat
      /\ todo \in Nat /\ lost \in Nat
  BY CountedNumbers
<1>. QED  BY <1>2, <1>3 DEF Counted

\* A thread at a place outside accept's code works on no accept, and the
\* record of a thread between two calls says so
LEMMA NotWorking ==
  ASSUME NEW t \in Threads, JobOK(t), Where(t) \notin AcceptPlaces \cup {"postAccept"}
  PROVE  ~ Working(t)
BY DEF JobOK, Working, At, Where, Within

LEMMA IdleNotWorking ==
  ASSUME NEW t \in Threads, th'[t] = Idle
  PROVE  ~ Working(t)'
BY DEF Idle, Working, At

LEMMA CountedCompletion ==
  ASSUME IInv, JobsOK, Counted, NEW w \in Workers, NEW s \in Sockets, Completion(w, s)
  PROVE  Counted'
<1>. USE DEF At
<1>1. w \in Threads /\ TypeOK /\ JobOK(w)
  BY DEF Threads, IInv, JobsOK
<1>2. w \in Threads /\ th[w].at = "idle"
  BY <1>1 DEF Completion, CompleteAccept, CompleteAcceptFails, CompleteConnect,
     CompleteConnectFails, CompleteRecv, CompleteRecvFails, CompleteDisconnect,
     CompleteDisconnectFails
<1>3. ~ Working(w)
  BY <1>1, <1>2, NotWorking DEF Where, Within, AcceptPlaces
<1>4. CASE CompleteAccept(w, s) \/ CompleteAcceptFails(w, s)
  <2>1. /\ OnlyMoves(w) /\ th'[w].job = "accept" /\ Finish(s, "accept")
        /\ todo' = todo /\ lost' = lost
    BY <1>1, <1>4, MoveAnew DEF CompleteAccept, CompleteAcceptFails, Run
  <2>2. posted[s]["accept"] = 1
    BY <2>1, PostedIsPending DEF Finish, Pending
  <2>3. Working(w)'
    BY <2>1 DEF Working
  <2>. QED  BY <1>1, <1>3, <2>1, <2>2, <2>3, CountedTakes
<1>5. CASE \/ CompleteConnect(w, s) \/ CompleteConnectFails(w, s) \/ CompleteRecv(w, s)
           \/ CompleteRecvFails(w, s) \/ CompleteDisconnect(w, s)
           \/ CompleteDisconnectFails(w, s)
  <2>1. /\ OnlyMoves(w) /\ th'[w].job \in {"connect", "recv", "disc"}
        /\ th'[w].at # "postAccept" /\ todo' = todo /\ lost' = lost
        /\ \E o \in {"connect", "recv", "disc"} : Finish(s, o)
    BY <1>1, <1>5, MoveAnew DEF CompleteConnect, CompleteConnectFails, CompleteRecv,
       CompleteRecvFails, CompleteDisconnect,
     CompleteDisconnectFails, Run
  <2>2. \A x \in Sockets : posted'[x]["accept"] = posted[x]["accept"]
    BY <1>1, <2>1, FinishFacts, OpsFacts
  <2>3. ~ Working(w)'
    BY <2>1 DEF Working
  <2>4. todo' + lost' = todo + lost
    BY <2>1
  <2>. QED  BY <1>1, <1>3, <2>1, <2>2, <2>3, <2>4, CountedKept
<1>. QED  BY <1>4, <1>5 DEF Completion

\* A step of a thread that posts no accept, takes none, and goes on with it
\* if it was at one
LEMMA CountedGoesOn ==
  ASSUME TypeOK, Counted, NEW t \in Threads, OnlyMoves(t), todo' = todo, lost' = lost,
         \/ posted' = posted
         \/ \E s \in Sockets : \E o \in {"connect", "recv", "disc"} : Post(s, o),
         Working(t)' <=> Working(t)
  PROVE  Counted'
<1>1. \A x \in Sockets : posted'[x]["accept"] = posted[x]["accept"]
  BY PostFacts, OpsFacts
<1>2. todo' + lost' = todo + lost
  OBVIOUS
<1>. QED  BY <1>1, <1>2, CountedKept

LEMMA CountedHandler ==
  ASSUME IInv, JobsOK, Counted, NEW w \in Workers, Handler(w)
  PROVE  Counted'
<1>. USE DEF At
<1>1. w \in Threads /\ TypeOK /\ JobOK(w) /\ ThreadOK(w)
  BY DEF Threads, IInv, JobsOK
<1>2. CASE HandAcceptRecv(w) \/ HandAcceptDel(w)
  <2>1. /\ OnlyMoves(w) /\ th'[w] = Again /\ th[w].at \in {"accRecv", "accDel"}
        /\ todo' = todo /\ lost' = lost
        /\ posted' = posted \/ (th[w].on \in Sockets /\ Post(th[w].on, "recv"))
    BY <1>1, <1>2, MoveAnew DEF HandAcceptRecv, HandAcceptDel, PostRecvOk, ThreadOK
  <2>2. Working(w) /\ Working(w)'
    BY <1>1, <2>1, AgainIs DEF Working, JobOK, Where, Within, AcceptPlaces
  <2>. QED  BY <1>1, <2>1, <2>2, CountedGoesOn
<1>3. CASE \/ HandConnectRecv(w) \/ HandConnectDel(w) \/ HandRecvAgain(w) \/ HandDisconnect(w)
           \/ (ConnectCallbackReturns(w) /\ bWait[th[w].on])
  <2>1. /\ OnlyMoves(w) /\ th'[w] = Idle
        /\ th[w].at \in {"conRecv", "conDel", "inRecv", "inDisc", "inConnect"}
        /\ todo' = todo /\ lost' = lost
        /\ posted' = posted \/ (th[w].on \in Sockets /\ Post(th[w].on, "recv"))
    BY <1>1, <1>3, MoveAnew DEF HandConnectRecv, HandConnectDel, HandRecvAgain, HandDisconnect,
       ConnectCallbackReturns, PostRecvOk, ThreadOK
  <2>2. ~ Working(w)
    BY <1>1, <2>1, NotWorking DEF Where, Within, AcceptPlaces
  <2>3. ~ Working(w)'
    BY <1>1, <2>1, IdleNotWorking
  <2>. QED  BY <1>1, <2>1, <2>2, <2>3, CountedGoesOn
<1>4. CASE \/ HandAcceptOpen(w) \/ AcceptCallbackReturns(w) \/ HandConnectOpen(w)
           \/ (ConnectCallbackReturns(w) /\ ~ bWait[th[w].on])
           \/ HandAcceptRecvFails(w) \/ HandConnectRecvFails(w) \/ HandRecvPostFails(w)
           \/ HandRecvOverflow(w)
  <2>1. /\ OnlyMoves(w) /\ th'[w].job = th[w].job
        /\ th[w].at # "postAccept" /\ th'[w].at # "postAccept"
        /\ todo' = todo /\ lost' = lost /\ posted' = posted
    BY <1>1, <1>4, MoveTo, MoveToError DEF HandAcceptOpen, AcceptCallbackReturns,
       HandConnectOpen, ConnectCallbackReturns, HandAcceptRecvFails, HandConnectRecvFails,
       HandRecvPostFails, HandRecvOverflow
  <2>2. Working(w)' <=> Working(w)
    BY <2>1 DEF Working
  <2>. QED  BY <1>1, <2>1, <2>2, CountedGoesOn
<1>. QED  BY <1>2, <1>3, <1>4 DEF Handler

LEMMA CountedCall ==
  ASSUME IInv, JobsOK, Counted, NEW c \in Callers, Call(c)
  PROVE  Counted'
<1>. USE DEF At
<1>1. c \in Threads /\ TypeOK /\ JobOK(c) /\ ThreadOK(c)
  BY DEF Threads, IInv, JobsOK
<1>2. CASE \/ (PostConnect(c) /\ ~ bWait[th[c].on]) \/ PostConnectFails(c)
           \/ WaitRecv(c) \/ WaitEnd(c)
  <2>1. /\ OnlyMoves(c) /\ th'[c] = Idle
        /\ th[c].at \in {"postConnect", "waitRecv", "waitEnd"}
        /\ todo' = todo /\ lost' = lost
        /\ \/ posted' = posted
           \/ th[c].on \in Sockets /\ (Post(th[c].on, "recv") \/ Post(th[c].on, "connect"))
    BY <1>1, <1>2, MoveAnew DEF PostConnect, PostConnectFails, WaitRecv, WaitEnd, PostRecvOk,
       ThreadOK
  <2>2. ~ Working(c)
    BY <1>1, <2>1, NotWorking DEF Where, Within, AcceptPlaces
  <2>3. ~ Working(c)'
    BY <1>1, <2>1, IdleNotWorking
  <2>. QED  BY <1>1, <2>1, <2>2, <2>3, CountedGoesOn
<1>3. CASE \/ (PostConnect(c) /\ bWait[th[c].on]) \/ WaitConnect(c) \/ WaitRecvFails(c)
  <2>1. /\ OnlyMoves(c) /\ th'[c].job = th[c].job
        /\ th[c].at # "postAccept" /\ th'[c].at # "postAccept"
        /\ todo' = todo /\ lost' = lost
        /\ posted' = posted \/ (th[c].on \in Sockets /\ Post(th[c].on, "connect"))
    BY <1>1, <1>3, MoveTo, MoveToError DEF PostConnect, WaitConnect, WaitRecvFails, ThreadOK
  <2>2. Working(c)' <=> Working(c)
    BY <2>1 DEF Working
  <2>. QED  BY <1>1, <2>1, <2>2, CountedGoesOn
<1>. QED  BY <1>2, <1>3 DEF Call

LEMMA CountedShared ==
  ASSUME IInv, JobsOK, Counted, NEW t \in Threads, Shared(t)
  PROVE  Counted'
<1>. USE DEF At
<1>1. TypeOK /\ JobOK(t) /\ ThreadOK(t)
  BY DEF IInv, JobsOK
<1>2. CASE PostAccept(t)
  <2>1. /\ OnlyMoves(t) /\ th'[t] = Idle /\ th[t].at = "postAccept" /\ th[t].on \in Sockets
        /\ todo' = todo /\ lost' = lost /\ Post(th[t].on, "accept")
    BY <1>1, <1>2, MoveAnew DEF PostAccept, ThreadOK
  <2>2. posted[th[t].on]["accept"] = 0
    BY <2>1, OwnedIsMine DEF Owns, OwnPlaces, Mine, NoOp
  <2>3. Working(t) /\ ~ Working(t)'
    BY <2>1, IdleNotWorking DEF Working
  <2>. QED  BY <1>1, <2>1, <2>2, <2>3, CountedPosts
<1>3. CASE PostAcceptFails(t)
  <2>1. /\ OnlyMoves(t) /\ th'[t] = Idle /\ th[t].at = "postAccept"
        /\ todo' = todo /\ lost' = lost + 1 /\ posted' = posted
    BY <1>1, <1>3, MoveAnew DEF PostAcceptFails
  <2>2. Working(t) /\ ~ Working(t)'
    BY <2>1, IdleNotWorking DEF Working
  <2>. QED  BY <1>1, <2>1, <2>2, CountedLost
<1>4. CASE HandError(t) \/ WaitDisconnect(t) \/ PostDisconnect(t) \/ PostDisconnectFails(t)
  <2>1. /\ th[t].at \in Within /\ todo' = todo /\ lost' = lost
        /\ th[t].on \in Sockets
        /\ Return(t) \/ Goto(t, "postDisc") \/ Goto(t, "waitDisc")
        /\ posted' = posted \/ Post(th[t].on, "disc")
    BY <1>1, <1>4 DEF HandError, WaitDisconnect, PostDisconnect, PostDisconnectFails, Within,
       ThreadOK
  <2>2. th[t].back # "postAccept"
    BY <1>1, <2>1 DEF ThreadOK, Within
  <2>3. OnlyMoves(t)
    BY <1>1, <2>1, MoveBack, MoveTo
  <2>4. Working(t)' <=> Working(t)
    <3>1. CASE Goto(t, "postDisc") \/ Goto(t, "waitDisc")
      BY <1>1, <2>1, <3>1, MoveTo DEF Working, Within
    <3>2. CASE Return(t) /\ th[t].back = "idle"
      <4>1. ~ Working(t)
        BY <1>1, <2>1, <3>2, NotWorking DEF Where, AcceptPlaces
      <4>2. ~ Working(t)'
        BY <1>1, <3>2, MoveBack, IdleNotWorking
      <4>. QED  BY <4>1, <4>2
    <3>3. CASE Return(t) /\ th[t].back # "idle"
      BY <1>1, <2>1, <2>2, <3>3, MoveBack DEF Working, Within
    <3>. QED  BY <2>1, <3>1, <3>2, <3>3
  <2>. QED  BY <1>1, <2>1, <2>3, <2>4, CountedGoesOn
<1>. QED  BY <1>2, <1>3, <1>4 DEF Shared

LEMMA CountedAccepting ==
  ASSUME IInv, JobsOK, Counted, NEW t \in Threads, Accepting(t)
  PROVE  Counted'
<1>. USE DEF At
<1>1. TypeOK /\ JobOK(t) /\ todo \in Nat /\ lost \in Nat
  BY DEF IInv, JobsOK, TypeOK
<1>2. posted' = posted /\ MayAccept(t) /\ CountCall(t) /\ OnlyMoves(t)
  BY <1>1, MoveAnew DEF Accepting, ReqAccept, ReqAcceptNoSocket, TypeOK, OnlyMoves
<1>3. ASSUME th[t].at = "idle"
      PROVE  ~ Working(t) /\ todo > 0 /\ todo' = todo - 1
  BY <1>1, <1>2, <1>3, NotWorking DEF Where, Within, AcceptPlaces, MayAccept, CountCall
<1>4. ASSUME th[t].at # "idle"
      PROVE  Working(t) /\ todo' = todo
  BY <1>1, <1>2, <1>4 DEF MayAccept, CountCall, Working, JobOK, Where, Within, AcceptPlaces
<1>5. CASE ReqAcceptNoSocket(t)
  <2>1. ~ Working(t)' /\ lost' = lost + 1
    BY <1>1, <1>5, MoveAnew, IdleNotWorking DEF ReqAcceptNoSocket
  <2>2. CASE th[t].at = "idle"
    <3>1. todo' + lost' = todo + lost
      BY <1>1, <1>3, <2>1, <2>2
    <3>. QED  BY <1>1, <1>2, <1>3, <2>1, <2>2, <3>1, CountedKept
  <2>3. CASE th[t].at # "idle"
    BY <1>1, <1>2, <1>4, <2>1, <2>3, CountedLost
  <2>. QED  BY <2>2, <2>3
<1>6. ASSUME NEW s \in Sockets, ReqAccept(t, s) PROVE Counted'
  <2>1. Working(t)' /\ lost' = lost
    BY <1>1, <1>6 DEF ReqAccept, Working, TypeOK, ThreadState
  <2>2. CASE th[t].at = "idle"
    BY <1>1, <1>2, <1>3, <2>1, <2>2, CountedJoins
  <2>3. CASE th[t].at # "idle"
    BY <1>1, <1>2, <1>4, <2>1, <2>3, CountedGoesOn
  <2>. QED  BY <2>2, <2>3
<1>. QED  BY <1>5, <1>6 DEF Accepting

LEMMA CountedRequest ==
  ASSUME IInv, JobsOK, Counted, NEW c \in Callers, NEW s \in Sockets, Request(c, s)
  PROVE  Counted'
<1>. USE DEF At
<1>1. c \in Threads /\ TypeOK /\ JobOK(c)
  BY DEF Threads, IInv, JobsOK
<1>2. CASE PrepareCkSocket(c, s)
  BY <1>1, <1>2, CountedSame DEF PrepareCkSocket, Working
<1>3. ASSUME NEW wait \in BOOLEAN, ReqConnect(c, s, wait) \/ ReqDisconnect(c, s, wait)
      PROVE  Counted'
  <2>1. /\ OnlyMoves(c) /\ posted' = posted /\ th[c].at = "idle"
        /\ todo' = todo /\ lost' = lost
        /\ \E p \in {"postConnect", "postDisc", "postDiscWait"} :
             th'[c] = [Idle EXCEPT !.at = p, !.on = s]
    BY <1>1, <1>3, MoveAnew DEF ReqConnect, ReqDisconnect, DiscPlace
  <2>2. ~ Working(c) /\ ~ Working(c)'
    BY <1>1, <2>1, NotWorking DEF Where, Within, AcceptPlaces, Working, Idle
  <2>. QED  BY <1>1, <2>1, <2>2, CountedGoesOn
<1>. QED  BY <1>2, <1>3 DEF Request

LEMMA CountedInCallback ==
  ASSUME IInv, JobsOK, Counted, NEW w \in Workers, NEW wait \in BOOLEAN,
         ReqDisconnectInCallback(w, wait)
  PROVE  Counted'
<1>1. w \in Threads /\ TypeOK
  BY DEF Threads, IInv
<1>2. /\ OnlyMoves(w) /\ posted' = posted /\ todo' = todo /\ lost' = lost
      /\ th'[w].job = th[w].job /\ th'[w].at # "postAccept" /\ th[w].at # "postAccept"
  BY <1>1 DEF ReqDisconnectInCallback, DiscPlace, Callbacks, TypeOK, ThreadState, OnlyMoves
<1>3. Working(w)' <=> Working(w)
  BY <1>2 DEF Working, At
<1>. QED  BY <1>1, <1>2, <1>3, CountedGoesOn

LEMMA CountedStep == IInv /\ JobsOK /\ Counted /\ [Next]_vars => Counted'
<1>. SUFFICES ASSUME IInv, JobsOK, Counted, [Next]_vars PROVE Counted'
  OBVIOUS
<1>0. TypeOK
  BY DEF IInv
<1>1. CASE (\E s \in Sockets : TimeWaitOver(s)) \/ UNCHANGED vars
  BY <1>0, <1>1, CountedSame DEF TimeWaitOver, vars, Working, At
<1>. QED  BY <1>1, CountedCompletion, CountedHandler, CountedCall, CountedShared,
             CountedAccepting, CountedRequest, CountedInCallback DEF Next

\* The listener keeps szAcceptNum accepts going, for every szAcceptNum: each is
\* still to be asked for, pending, in the hands of a thread, or given up.
THEOREM AcceptsKeptUp == Spec => []AcceptsKept
<1>1. Init => JobsOK /\ Counted
  BY JobsInit, CountedInit
<1>2. IInv /\ (JobsOK /\ Counted) /\ [Next]_vars => (JobsOK /\ Counted)'
  BY JobsStep, CountedStep
<1>3. Counted => AcceptsKept
  BY DEF Counted, AcceptsKept, Waiting, Hands, Working
<1>. QED  BY <1>1, <1>2, <1>3, InvariantHolds, PTL DEF Spec


-----------------------------------------------------------------------------
(* Phases                                                                   *)

ClosePlaces == {"postDisc", "postDiscWait", "inDisc"}

\* t closes the socket.
Closes(t, s) == th[t].on = s /\ th[t].at \in ClosePlaces

\* What the holder of a socket tells about its phase
PhaseFacts ==
  \A s \in Sockets :
    /\ s \notin used => Phase(s) = IF Pooled(s) THEN "pooled" ELSE "fresh"
    /\ \A t \in Threads : Owns(t, s) => Phase(s) = IF Closes(t, s) THEN "closing" ELSE "setup"
    /\ bEnable[s] => Phase(s) = "open"
    /\ posted[s]["accept"] > 0 \/ posted[s]["connect"] > 0 => Phase(s) = "setup"
    /\ posted[s]["disc"] > 0 => Phase(s) = "closing"
    /\ s \in leaked => Phase(s) = "leaked"

LEMMA PhaseIsKnown == IInv => PhaseFacts
<1>. SUFFICES ASSUME IInv, NEW s \in Sockets
              PROVE  /\ s \notin used => Phase(s) = IF Pooled(s) THEN "pooled" ELSE "fresh"
                     /\ \A t \in Threads : Owns(t, s) =>
                          Phase(s) = IF Closes(t, s) THEN "closing" ELSE "setup"
                     /\ bEnable[s] => Phase(s) = "open"
                     /\ posted[s]["accept"] > 0 \/ posted[s]["connect"] > 0 => Phase(s) = "setup"
                     /\ posted[s]["disc"] > 0 => Phase(s) = "closing"
                     /\ s \in leaked => Phase(s) = "leaked"
  BY DEF PhaseFacts
<1>. DEFINE Closed == \E u \in Threads : th[u].on = s /\ th[u].at \in ClosePlaces
<1>1. /\ \A t \in Threads : Closes(t, s) => Owns(t, s)
      /\ Closed <=> \E t \in Threads : Closes(t, s)
  BY DEF Closes, ClosePlaces, Owns, OwnPlaces
<1>0. /\ s \in leaked /\ s \in used /\ ~ bEnable[s] /\ posted[s]["disc"] = 0 /\ ~ Closed
           => Phase(s) = "leaked"
      /\ s \notin leaked /\ s \notin used /\ ~ bEnable[s] /\ posted[s]["disc"] = 0 /\ ~ Closed
           => Phase(s) = IF Pooled(s) THEN "pooled" ELSE "fresh"
      /\ s \notin leaked /\ s \in used /\ bEnable[s] /\ posted[s]["disc"] = 0 /\ ~ Closed
           => Phase(s) = "open"
      /\ s \notin leaked /\ s \in used /\ ~ bEnable[s] /\ (posted[s]["disc"] > 0 \/ Closed)
           => Phase(s) = "closing"
      /\ s \notin leaked /\ s \in used /\ ~ bEnable[s] /\ posted[s]["disc"] = 0 /\ ~ Closed
           => Phase(s) = "setup"
  BY DEF Phase, ClosePlaces
<1>. HIDE DEF Closed
<1>2. ASSUME s \notin used PROVE Phase(s) = IF Pooled(s) THEN "pooled" ELSE "fresh"
  <2>1. Free(s)
    BY <1>2, UnusedIsFree
  <2>. QED  BY <1>0, <1>1, <2>1 DEF Free, NoOp, Nobody
<1>3. ASSUME NEW t \in Threads, Owns(t, s)
      PROVE  Phase(s) = IF Closes(t, s) THEN "closing" ELSE "setup"
  <2>1. Mine(t, s)
    BY <1>3, OwnedIsMine
  <2>2. Closed <=> Closes(t, s)
    BY <1>1, <2>1 DEF Mine
  <2>. QED  BY <1>0, <2>1, <2>2 DEF Mine, NoOp
<1>4. ASSUME bEnable[s] PROVE Phase(s) = "open"
  <2>1. Enabled(s)
    BY <1>4, EnabledIsEnabled
  <2>. QED  BY <1>0, <1>1, <2>1 DEF Enabled, NoOp, Nobody
<1>5. ASSUME NEW o \in {"accept", "connect", "disc"}, posted[s][o] > 0
      PROVE  Phase(s) = IF o = "disc" THEN "closing" ELSE "setup"
  <2>1. Pending(s, o)
    BY <1>5, PostedIsPending
  <2>2. ~ Closed /\ (o # "disc" => posted[s]["disc"] = 0)
    BY <1>1, <2>1 DEF Pending, Nobody
  <2>. QED  BY <1>0, <1>5, <2>1, <2>2 DEF Pending
<1>6. ASSUME s \in leaked PROVE Phase(s) = "leaked"
  <2>1. Lost(s)
    BY <1>6 DEF IInv, SocketOK, Free, Enabled, Mine, Pending
  <2>. QED  BY <1>0, <1>1, <2>1 DEF Lost, NoOp, Nobody
<1>. QED  BY <1>2, <1>3, <1>4, <1>5, <1>6

LEMMA PhaseWillBeKnown == IInv' => PhaseFacts'
BY PhaseIsKnown, PTL

\* Nothing that the phase depends on changes.
Untouched(x) ==
  /\ x \in leaked' <=> x \in leaked
  /\ x \in used' <=> x \in used
  /\ Pooled(x)' <=> Pooled(x)
  /\ bEnable'[x] = bEnable[x]
  /\ posted'[x]["disc"] = posted[x]["disc"]
  /\ \A t \in Threads : Closes(t, x)' <=> Closes(t, x)

LEMMA PhaseStays ==
  ASSUME NEW x \in Sockets, Untouched(x) PROVE Phase(x)' = Phase(x)
BY DEF Untouched, Phase, Closes, ClosePlaces

\* The edges of CkLife
Edges == {<<"fresh", "pooled">>, <<"fresh", "setup">>, <<"pooled", "setup">>,
          <<"setup", "pooled">>, <<"setup", "open">>, <<"open", "closing">>,
          <<"closing", "pooled">>, <<"closing", "leaked">>}

\* The step leaves all phases but that of s, which moves along an edge or stays.
Lives(s) ==
  /\ \A x \in Sockets : x # s => Untouched(x)
  /\ <<Phase(s), Phase(s)'>> \in Edges \/ Phase(s)' = Phase(s)

-----------------------------------------------------------------------------
(* The steps                                                                *)

\* The thread goes from where it closes nothing to where it closes nothing.
LEMMA PassesBy ==
  ASSUME NEW t \in Threads, OnlyMoves(t), NEW x \in Sockets,
         ~ Closes(t, x), ~ Closes(t, x)',
         UNCHANGED <<pool, used, bEnable, leaked>>,
         posted'[x]["disc"] = posted[x]["disc"]
  PROVE  Untouched(x)
BY DEF Untouched, Closes, OnlyMoves, Pooled

LEMMA LifeCompletion ==
  ASSUME IInv, IInv', NEW w \in Workers, NEW s \in Sockets, Completion(w, s)
  PROVE  Lives(s)
<1>1. w \in Threads /\ TypeOK /\ At(w, "idle") /\ UNCHANGED <<pool, used, bEnable, leaked>>
  BY DEF Threads, IInv, Completion, CompleteAccept, CompleteAcceptFails, CompleteConnect,
     CompleteConnectFails, CompleteRecv, CompleteRecvFails, CompleteDisconnect,
     CompleteDisconnectFails
<1>2. PICK o \in Ops :
        /\ Finish(s, o) /\ OnlyMoves(w)
        /\ th'[w].on = s
        /\ o \in {"accept", "connect"} =>
             \/ th'[w].at \in {"accOpen", "conOpen"}
             \/ th'[w].at = "error" /\ th'[w].back \in {"accDel", "conDel"}
        /\ o = "recv" => th'[w].at \in {"inRecv", "error"}
        /\ o = "disc" => th'[w].at = "inDisc"
  BY <1>1, MoveAnew DEF Completion, CompleteAccept, CompleteAcceptFails, CompleteConnect,
     CompleteConnectFails, CompleteRecv, CompleteRecvFails, CompleteDisconnect,
     CompleteDisconnectFails, Run, Ops
<1>3. /\ posted[s][o] > 0
      /\ \A x \in Sockets, p \in Ops : x # s \/ p # o => posted'[x][p] = posted[x][p]
  BY <1>1, <1>2, FinishFacts
<1>4. \A x \in Sockets : ~ Closes(w, x)
  BY <1>1 DEF Closes, ClosePlaces, At
<1>5. ASSUME NEW x \in Sockets, x # s PROVE Untouched(x)
  <2>1. ~ Closes(w, x)' /\ posted'[x]["disc"] = posted[x]["disc"]
    BY <1>2, <1>3, <1>5 DEF Closes, Ops
  <2>. QED  BY <1>1, <1>2, <1>4, <2>1, PassesBy
<1>6. Phase(s)' = Phase(s)
  <2>1. CASE o \in {"accept", "connect"}
    <3>1. Owns(w, s)' /\ ~ Closes(w, s)'
      BY <1>2, <2>1 DEF Owns, OwnPlaces, Closes, ClosePlaces, At
    <3>. QED  BY <1>1, <1>3, <2>1, <3>1, PhaseIsKnown, PhaseWillBeKnown DEF PhaseFacts
  <2>2. CASE o = "disc"
    <3>1. Owns(w, s)' /\ Closes(w, s)'
      BY <1>2, <2>2 DEF Owns, OwnPlaces, Closes, ClosePlaces
    <3>. QED  BY <1>1, <1>3, <2>2, <3>1, PhaseIsKnown, PhaseWillBeKnown DEF PhaseFacts
  <2>3. CASE o = "recv"
    <3>1. ~ Closes(w, s)' /\ posted'[s]["disc"] = posted[s]["disc"]
      BY <1>2, <1>3, <2>3 DEF Closes, ClosePlaces, Ops
    <3>. QED  BY <1>1, <1>2, <1>4, <3>1, PassesBy, PhaseStays
  <2>. QED  BY <2>1, <2>2, <2>3 DEF Ops
<1>. QED  BY <1>5, <1>6 DEF Lives

\* delCompleteKeySocket
LEMMA LifeDel ==
  ASSUME IInv, IInv', NEW t \in Threads, Owns(t, th[t].on), th[t].on \in Sockets,
         DelSocket(th[t].on), Become(t, Idle) \/ Become(t, Again), UNCHANGED <<posted, leaked>>
  PROVE  \E s \in Sockets : Lives(s)
<1>0. PICK s \in Sockets : s = th[t].on
  OBVIOUS
<1>1. TypeOK /\ Mine(t, s) /\ Owns(t, s) /\ DelSocket(s)
  BY <1>0, OwnedIsMine DEF IInv
<1>2. \A x \in Sockets : Pooled(x)' <=> Pooled(x) \/ x = s
  BY <1>1, PutSocket DEF DelSocket, Mine
<1>3. OnlyMoves(t) /\ th'[t].at \in {"idle", "reAccept"}
  BY <1>1, IdleFacts, AgainFacts DEF OnlyMoves
<1>4. ASSUME NEW x \in Sockets, x # s PROVE Untouched(x)
  BY <1>0, <1>1, <1>2, <1>3, <1>4 DEF DelSocket, Untouched, Closes, ClosePlaces, OnlyMoves, TypeOK
<1>5. Phase(s)' = "pooled"
  <2>1. s \notin used' /\ Pooled(s)'
    BY <1>1, <1>2 DEF DelSocket
  <2>. QED  BY <2>1, PhaseWillBeKnown DEF PhaseFacts
<1>6. Phase(s) \in {"setup", "closing"}
  BY <1>1, PhaseIsKnown DEF PhaseFacts
<1>. QED  BY <1>4, <1>5, <1>6 DEF Lives, Edges

\* A thread that closes nothing moves, and no holder changes.
LEMMA LifePasses ==
  ASSUME NEW t \in Threads, OnlyMoves(t),
         th[t].at \notin ClosePlaces, th'[t].at \notin ClosePlaces,
         UNCHANGED <<pool, used, bEnable, leaked>>,
         \A x \in Sockets : posted'[x]["disc"] = posted[x]["disc"],
         NEW s \in Sockets
  PROVE  Lives(s)
<1>1. \A x \in Sockets : Untouched(x)
  BY PassesBy DEF Closes
<1>. QED  BY <1>1, PhaseStays DEF Lives

LEMMA LifeHandler ==
  ASSUME IInv, IInv', NEW w \in Workers, Handler(w) PROVE \E s \in Sockets : Lives(s)
<1>1. w \in Threads /\ TypeOK /\ th[w].on \in Sockets
  BY DEF Threads, IInv, ThreadOK, Handler, HandAcceptOpen, AcceptCallbackReturns, HandAcceptRecv,
     HandAcceptRecvFails, HandAcceptDel, HandConnectOpen, ConnectCallbackReturns, HandConnectRecv,
     HandConnectRecvFails, HandConnectDel, HandRecvAgain, HandRecvPostFails, HandRecvOverflow,
     HandDisconnect, At
<1>2. CASE HandAcceptDel(w) \/ HandConnectDel(w) \/ HandDisconnect(w)
  <2>1. /\ Owns(w, th[w].on) /\ DelSocket(th[w].on)
        /\ Become(w, Idle) \/ Become(w, Again)
        /\ UNCHANGED <<posted, leaked>>
    BY <1>2 DEF HandAcceptDel, HandConnectDel, HandDisconnect, Owns, OwnPlaces, At
  <2>. QED  BY <1>1, <2>1, LifeDel
<1>3. CASE HandAcceptOpen(w) \/ HandConnectOpen(w)
  <2>0. PICK s \in Sockets : s = th[w].on
    BY <1>1
  <2>1. /\ bEnable' = [bEnable EXCEPT ![s] = TRUE] /\ UNCHANGED <<pool, used, posted, leaked>>
        /\ th[w].at \in {"accOpen", "conOpen"} /\ th'[w].at \in {"inAccept", "inConnect"}
        /\ OnlyMoves(w)
    BY <1>1, <1>3, <2>0, MoveTo DEF HandAcceptOpen, HandConnectOpen, At
  <2>2. ASSUME NEW x \in Sockets, x # s PROVE Untouched(x)
    BY <1>1, <2>0, <2>1, <2>2 DEF Untouched, Closes, ClosePlaces, OnlyMoves, Pooled, TypeOK
  <2>3. Phase(s) = "setup"
    <3>1. Owns(w, s) /\ ~ Closes(w, s)
      BY <2>0, <2>1 DEF Owns, OwnPlaces, Closes, ClosePlaces
    <3>. QED  BY <1>1, <3>1, PhaseIsKnown DEF PhaseFacts
  <2>4. Phase(s)' = "open"
    <3>1. bEnable'[s]
      BY <1>1, <2>1 DEF TypeOK
    <3>. QED  BY <1>1, <3>1, PhaseWillBeKnown DEF PhaseFacts
  <2>. QED  BY <1>1, <2>2, <2>3, <2>4 DEF Lives, Edges
<1>4. CASE \/ AcceptCallbackReturns(w) \/ HandAcceptRecvFails(w) \/ ConnectCallbackReturns(w)
           \/ HandConnectRecvFails(w) \/ HandRecvPostFails(w) \/ HandRecvOverflow(w)
  <2>1. /\ th[w].at \in {"inAccept", "accRecv", "inConnect", "conRecv", "inRecv"}
        /\ UNCHANGED <<pool, used, bEnable, leaked, posted>>
    BY <1>4 DEF AcceptCallbackReturns, HandAcceptRecvFails, ConnectCallbackReturns,
       HandConnectRecvFails, HandRecvPostFails, HandRecvOverflow, At
  <2>2. OnlyMoves(w) /\ th'[w].at \in {"accRecv", "conRecv", "error", "idle"}
    BY <1>1, <1>4, MoveTo, MoveToError, MoveAnew DEF AcceptCallbackReturns, HandAcceptRecvFails,
       ConnectCallbackReturns, HandConnectRecvFails, HandRecvPostFails, HandRecvOverflow, Idle
  <2>. QED  BY <1>1, <2>1, <2>2, LifePasses DEF ClosePlaces
<1>5. CASE HandAcceptRecv(w) \/ HandConnectRecv(w) \/ HandRecvAgain(w)
  <2>1. /\ th[w].at \in {"accRecv", "conRecv", "inRecv"} /\ Post(th[w].on, "recv")
        /\ UNCHANGED <<pool, used, bEnable, leaked>>
        /\ Become(w, Idle) \/ Become(w, Again)
    BY <1>5 DEF HandAcceptRecv, HandConnectRecv, HandRecvAgain, PostRecvOk, At
  <2>2. OnlyMoves(w) /\ th'[w].at \in {"idle", "reAccept"}
    BY <1>1, <2>1, IdleFacts, AgainFacts DEF OnlyMoves
  <2>3. \A x \in Sockets : posted'[x]["disc"] = posted[x]["disc"]
    BY <1>1, <2>1, PostFacts DEF Ops
  <2>. QED  BY <1>1, <2>1, <2>2, <2>3, LifePasses DEF ClosePlaces
<1>. QED  BY <1>2, <1>3, <1>4, <1>5 DEF Handler

\* AcceptEx or ConnectEx is posted.
LEMMA LifePost ==
  ASSUME IInv, IInv', NEW t \in Threads, NEW o \in {"accept", "connect"},
         th[t].at \in {"postAccept", "postConnect"}, Post(th[t].on, o),
         OnlyMoves(t), th'[t].at \notin ClosePlaces,
         UNCHANGED <<pool, used, bEnable, leaked>>
  PROVE  \E s \in Sockets : Lives(s)
<1>1. TypeOK /\ th[t].on \in Sockets /\ o \in Ops
  BY DEF IInv, ThreadOK, Ops
<1>2. \A x \in Sockets : posted'[x]["disc"] = posted[x]["disc"]
  BY <1>1, PostFacts DEF Ops
<1>. QED  BY <1>1, <1>2, LifePasses DEF ClosePlaces

LEMMA LifeCall ==
  ASSUME IInv, IInv', NEW c \in Callers, Call(c) PROVE \E s \in Sockets : Lives(s)
<1>1. c \in Threads /\ TypeOK /\ th[c].on \in Sockets
  BY DEF Threads, IInv, ThreadOK, Call, PostConnect, PostConnectFails, WaitConnect, WaitRecv,
     WaitRecvFails, WaitEnd, At
<1>2. CASE PostConnectFails(c)
  <2>1. /\ Owns(c, th[c].on) /\ DelSocket(th[c].on) /\ Become(c, Idle)
        /\ UNCHANGED <<posted, leaked>>
    BY <1>2 DEF PostConnectFails, Owns, OwnPlaces, At
  <2>. QED  BY <1>1, <2>1, LifeDel
<1>3. CASE PostConnect(c)
  <2>1. /\ th[c].at = "postConnect" /\ Post(th[c].on, "connect")
        /\ UNCHANGED <<pool, used, bEnable, leaked>>
        /\ Goto(c, "waitConn") \/ Become(c, Idle)
    BY <1>3 DEF PostConnect, At
  <2>2. OnlyMoves(c) /\ th'[c].at \in {"waitConn", "idle"}
    BY <1>1, <2>1, MoveTo, IdleFacts DEF OnlyMoves
  <2>. QED  BY <1>1, <2>1, <2>2, LifePost DEF ClosePlaces
<1>4. CASE WaitConnect(c) \/ WaitRecvFails(c) \/ WaitEnd(c)
  <2>1. /\ th[c].at \in {"waitConn", "waitRecv", "waitEnd"}
        /\ UNCHANGED <<pool, used, bEnable, leaked, posted>>
        /\ Goto(c, "waitRecv") \/ Fail(c, "waitEnd") \/ Become(c, Idle)
    BY <1>4 DEF WaitConnect, WaitRecvFails, WaitEnd, At
  <2>2. OnlyMoves(c) /\ th'[c].at \in {"waitRecv", "error", "idle"}
    BY <1>1, <2>1, MoveTo, MoveToError, IdleFacts DEF OnlyMoves
  <2>. QED  BY <1>1, <2>1, <2>2, LifePasses DEF ClosePlaces
<1>5. CASE WaitRecv(c)
  <2>1. /\ th[c].at = "waitRecv" /\ Post(th[c].on, "recv") /\ Become(c, Idle)
        /\ UNCHANGED <<pool, used, bEnable, leaked>>
    BY <1>5 DEF WaitRecv, PostRecvOk, At
  <2>2. OnlyMoves(c) /\ th'[c].at = "idle"
    BY <1>1, <2>1, IdleFacts DEF OnlyMoves
  <2>3. \A x \in Sockets : posted'[x]["disc"] = posted[x]["disc"]
    BY <1>1, <2>1, PostFacts DEF Ops
  <2>. QED  BY <1>1, <2>1, <2>2, <2>3, LifePasses DEF ClosePlaces
<1>. QED  BY <1>2, <1>3, <1>4, <1>5 DEF Call

\* Whoever finds bEnable true closes the connection.
LEMMA LifeDisable ==
  ASSUME IInv, IInv', NEW t \in Threads, NEW s \in Sockets, Disable(s), OnlyMoves(t),
         th[t].at \notin ClosePlaces \/ th[t].on = s,
         th'[t].at \in {"postDisc", "postDiscWait"}, th'[t].on = s,
         UNCHANGED <<pool, used, posted, leaked>>
  PROVE  Lives(s)
<1>1. TypeOK /\ bEnable[s] /\ bEnable' = [bEnable EXCEPT ![s] = FALSE]
  BY DEF IInv, Disable
<1>2. ASSUME NEW x \in Sockets, x # s PROVE Untouched(x)
  BY <1>1, <1>2 DEF Untouched, Closes, OnlyMoves, Pooled, TypeOK
<1>3. Phase(s) = "open"
  BY <1>1, PhaseIsKnown DEF PhaseFacts
<1>4. Phase(s)' = "closing"
  <2>1. Owns(t, s)' /\ Closes(t, s)'
    BY DEF Owns, OwnPlaces, Closes, ClosePlaces
  <2>. QED  BY <2>1, PhaseWillBeKnown DEF PhaseFacts
<1>. QED  BY <1>2, <1>3, <1>4 DEF Lives, Edges

\* The places that handError and reqDisconnect return to close nothing.
LEMMA BackCloses ==
  ASSUME IInv, NEW t \in Threads,
         th[t].at \in {"error", "postDisc", "postDiscWait", "waitDisc"}, Return(t)
  PROVE  /\ OnlyMoves(t) /\ th'[t].at \notin ClosePlaces
         /\ th'[t].at = th[t].back /\ (th[t].back # "idle" => th'[t].on = th[t].on)
<1>1. TypeOK /\ ThreadOK(t)
  BY DEF IInv
<1>. QED  BY <1>1, ReturnFacts DEF ThreadOK, OnlyMoves, ClosePlaces

LEMMA LifeHandError ==
  ASSUME IInv, IInv', NEW t \in Threads, HandError(t) PROVE \E s \in Sockets : Lives(s)
<1>1. PICK s \in Sockets : s = th[t].on
  BY DEF IInv, ThreadOK, HandError, At
<1>2. TypeOK /\ th[t].at = "error" /\ UNCHANGED <<pool, used, posted, leaked>>
  BY DEF IInv, HandError, At
<1>3. CASE Disable(s) /\ Goto(t, "postDisc")
  <2>1. OnlyMoves(t) /\ th'[t].at = "postDisc" /\ th'[t].on = s
    BY <1>1, <1>2, <1>3, MoveTo
  <2>. QED  BY <1>1, <1>2, <1>3, <2>1, LifeDisable DEF ClosePlaces
<1>4. CASE Return(t) /\ UNCHANGED bEnable
  BY <1>2, <1>4, BackCloses, LifePasses DEF ClosePlaces
<1>. QED  BY <1>1, <1>3, <1>4 DEF HandError

LEMMA LifePostDisconnect ==
  ASSUME IInv, IInv', NEW t \in Threads, PostDisconnect(t) \/ PostDisconnectFails(t)
  PROVE  \E s \in Sockets : Lives(s)
<1>1. PICK s \in Sockets : s = th[t].on
  BY DEF IInv, ThreadOK, PostDisconnect, PostDisconnectFails
<1>2. /\ TypeOK /\ th[t].at \in {"postDisc", "postDiscWait"}
      /\ UNCHANGED <<pool, used, bEnable>>
  BY DEF IInv, PostDisconnect, PostDisconnectFails
<1>3. Phase(s) = "closing"
  <2>1. Owns(t, s) /\ Closes(t, s)
    BY <1>1, <1>2 DEF Owns, OwnPlaces, Closes, ClosePlaces
  <2>. QED  BY <2>1, PhaseIsKnown DEF PhaseFacts
<1>4. OnlyMoves(t) /\ th'[t].at \notin ClosePlaces
  <2>1. CASE Goto(t, "waitDisc")
    BY <1>2, <2>1, MoveTo DEF ClosePlaces
  <2>2. CASE Return(t)
    BY <1>2, <2>2, BackCloses
  <2>. QED  BY <2>1, <2>2 DEF PostDisconnect, PostDisconnectFails
<1>5. CASE PostDisconnect(t)
  <2>1. /\ posted'[s]["disc"] = posted[s]["disc"] + 1 /\ posted[s]["disc"] \in Nat
        /\ \A x \in Sockets : x # s => posted'[x]["disc"] = posted[x]["disc"]
    BY <1>1, <1>2, <1>5, PostFacts DEF PostDisconnect, Ops
  <2>2. UNCHANGED leaked
    BY <1>5 DEF PostDisconnect
  <2>3. ASSUME NEW x \in Sockets, x # s PROVE Untouched(x)
    BY <1>1, <1>2, <1>4, <2>1, <2>2, <2>3, PassesBy DEF Closes
  <2>4. Phase(s)' = "closing"
    BY <2>1, PhaseWillBeKnown DEF PhaseFacts
  <2>. QED  BY <1>3, <2>3, <2>4 DEF Lives
<1>6. CASE PostDisconnectFails(t)
  <2>1. leaked' = leaked \cup {s} /\ UNCHANGED posted
    BY <1>1, <1>6 DEF PostDisconnectFails
  <2>2. ASSUME NEW x \in Sockets, x # s PROVE Untouched(x)
    BY <1>1, <1>2, <1>4, <2>1, <2>2 DEF Untouched, Closes, OnlyMoves, Pooled
  <2>3. Phase(s)' = "leaked"
    BY <2>1, PhaseWillBeKnown DEF PhaseFacts
  <2>. QED  BY <1>3, <2>2, <2>3 DEF Lives, Edges
<1>. QED  BY <1>5, <1>6

LEMMA LifeShared ==
  ASSUME IInv, IInv', NEW t \in Threads, Shared(t) PROVE \E s \in Sockets : Lives(s)
<1>1. TypeOK /\ th[t].on \in Sockets
  BY DEF IInv, ThreadOK, Shared, PostAccept, PostAcceptFails, HandError, WaitDisconnect,
     PostDisconnect, PostDisconnectFails, At
<1>2. CASE PostAccept(t)
  <2>1. /\ th[t].at = "postAccept" /\ Post(th[t].on, "accept") /\ Become(t, Idle)
        /\ UNCHANGED <<pool, used, bEnable, leaked>>
    BY <1>2 DEF PostAccept, At
  <2>2. OnlyMoves(t) /\ th'[t].at = "idle"
    BY <1>1, <2>1, IdleFacts DEF OnlyMoves
  <2>. QED  BY <2>1, <2>2, LifePost DEF ClosePlaces
<1>3. CASE PostAcceptFails(t)
  <2>1. /\ Owns(t, th[t].on) /\ DelSocket(th[t].on) /\ Become(t, Idle)
        /\ UNCHANGED <<posted, leaked>>
    BY <1>3 DEF PostAcceptFails, Owns, OwnPlaces, At
  <2>. QED  BY <1>1, <2>1, LifeDel
<1>4. CASE WaitDisconnect(t)
  <2>1. /\ th[t].at = "waitDisc" /\ Return(t) /\ UNCHANGED <<pool, used, bEnable, leaked, posted>>
    BY <1>4 DEF WaitDisconnect, At
  <2>. QED  BY <1>1, <2>1, BackCloses, LifePasses DEF ClosePlaces
<1>. QED  BY <1>2, <1>3, <1>4, LifeHandError, LifePostDisconnect DEF Shared

LEMMA LifeInCallback ==
  ASSUME IInv, IInv', NEW w \in Workers, NEW wait \in BOOLEAN, ReqDisconnectInCallback(w, wait)
  PROVE  \E s \in Sockets : Lives(s)
<1>1. w \in Threads /\ TypeOK
  BY DEF Threads, IInv
<1>2. PICK s \in Sockets : s = th[w].on
  BY <1>1 DEF IInv, ThreadOK, ReqDisconnectInCallback, Callbacks
<1>3. /\ Disable(s) /\ OnlyMoves(w) /\ UNCHANGED <<pool, used, posted, leaked>>
      /\ th'[w].at \in {"postDisc", "postDiscWait"} /\ th'[w].on = s
  BY <1>1, <1>2 DEF ReqDisconnectInCallback, DiscPlace, TypeOK, ThreadState, OnlyMoves
<1>. QED  BY <1>1, <1>2, <1>3, LifeDisable

\* newCompleteKeySocket
LEMMA LifeTake ==
  ASSUME IInv, IInv', NEW t \in Threads, NEW k \in Kinds, NEW s \in Sockets, NewSocket(k, s),
         OnlyMoves(t), th[t].at \in {"idle", "reAccept"},
         th'[t].at \in {"postAccept", "postConnect"}, th'[t].on = s,
         UNCHANGED <<bEnable, posted, leaked>>
  PROVE  Lives(s)
<1>1. TypeOK /\ used' = used \cup {s}
  BY DEF IInv, NewSocket
<1>2. Free(s) /\ \A x \in Sockets : x # s => (Pooled(x)' <=> Pooled(x))
  <2>1. CASE FrontRipe(k) /\ s = Head(pool[k]) /\ pool' = [pool EXCEPT ![k] = Tail(@)]
    BY <2>1, TakeFront, PooledIsFree DEF FrontRipe
  <2>2. CASE Fresh(s) /\ UNCHANGED pool
    BY <2>2, UnusedIsFree DEF Fresh, Pooled
  <2>. QED  BY <2>1, <2>2 DEF NewSocket
<1>3. ASSUME NEW x \in Sockets, x # s PROVE Untouched(x)
  BY <1>1, <1>2, <1>3 DEF Untouched, Closes, ClosePlaces, OnlyMoves
<1>4. Phase(s) \in {"fresh", "pooled"}
  BY <1>2, PhaseIsKnown DEF PhaseFacts, Free
<1>5. Phase(s)' = "setup"
  <2>1. Owns(t, s)' /\ ~ Closes(t, s)'
    BY DEF Owns, OwnPlaces, Closes, ClosePlaces
  <2>. QED  BY <2>1, PhaseWillBeKnown DEF PhaseFacts
<1>. QED  BY <1>3, <1>4, <1>5 DEF Lives, Edges

LEMMA LifeAccepting ==
  ASSUME IInv, IInv', NEW t \in Threads, Accepting(t), Sockets # {}
  PROVE  \E s \in Sockets : Lives(s)
<1>1. TypeOK
  BY DEF IInv
<1>2. CASE ReqAcceptNoSocket(t)
  <2>1. /\ th[t].at \in {"idle", "reAccept"} /\ Become(t, Idle)
        /\ UNCHANGED <<pool, used, bEnable, leaked, posted>>
    BY <1>2 DEF ReqAcceptNoSocket, MayAccept, At
  <2>2. OnlyMoves(t) /\ th'[t].at = "idle"
    BY <1>1, <2>1, IdleFacts DEF OnlyMoves
  <2>. QED  BY <2>1, <2>2, LifePasses DEF ClosePlaces
<1>3. ASSUME NEW s \in Sockets, ReqAccept(t, s) PROVE Lives(s)
  <2>1. /\ "ACCEPT" \in Kinds /\ NewSocket("ACCEPT", s) /\ th[t].at \in {"idle", "reAccept"}
        /\ th'[t].at = "postAccept" /\ th'[t].on = s /\ OnlyMoves(t)
        /\ UNCHANGED <<bEnable, posted, leaked>>
    BY <1>1, <1>3 DEF ReqAccept, MayAccept, At, TypeOK, ThreadState, OnlyMoves, Kinds
  <2>. QED  BY <2>1, LifeTake
<1>. QED  BY <1>2, <1>3 DEF Accepting

LEMMA LifeRequest ==
  ASSUME IInv, IInv', NEW c \in Callers, NEW s \in Sockets, Request(c, s)
  PROVE  Lives(s)
<1>1. c \in Threads /\ TypeOK
  BY DEF Threads, IInv
<1>2. CASE PrepareCkSocket(c, s)
  <2>1. /\ s \notin used /\ ~ Pooled(s) /\ UNCHANGED <<used, bEnable, posted, leaked, th>>
        /\ pool' = [pool EXCEPT ![Kind[s]] = <<s>> \o @]
    BY <1>2 DEF PrepareCkSocket, Fresh
  <2>2. \A x \in Sockets : Pooled(x)' <=> Pooled(x) \/ x = s
    BY <2>1, PutSocket
  <2>3. ASSUME NEW x \in Sockets, x # s PROVE Untouched(x)
    BY <2>1, <2>2, <2>3 DEF Untouched, Closes
  <2>4. Phase(s) = "fresh" /\ Phase(s)' = "pooled"
    BY <2>1, <2>2, PhaseIsKnown, PhaseWillBeKnown DEF PhaseFacts
  <2>. QED  BY <2>3, <2>4 DEF Lives, Edges
<1>3. ASSUME NEW wait \in BOOLEAN, ReqConnect(c, s, wait) PROVE Lives(s)
  <2>1. /\ "CONNECT" \in Kinds /\ NewSocket("CONNECT", s) /\ th[c].at = "idle"
        /\ th'[c] = [Idle EXCEPT !.at = "postConnect", !.on = s] /\ OnlyMoves(c)
        /\ UNCHANGED <<bEnable, posted, leaked>>
    BY <1>1, <1>3, MoveAnew DEF ReqConnect, At, Kinds
  <2>2. th'[c].at = "postConnect" /\ th'[c].on = s
    BY <2>1 DEF Idle
  <2>. QED  BY <1>1, <2>1, <2>2, LifeTake
<1>4. ASSUME NEW wait \in BOOLEAN, ReqDisconnect(c, s, wait) PROVE Lives(s)
  <2>1. /\ Disable(s) /\ th[c].at = "idle"
        /\ th'[c] = [Idle EXCEPT !.at = DiscPlace(wait), !.on = s] /\ OnlyMoves(c)
        /\ UNCHANGED <<pool, used, posted, leaked>>
    BY <1>1, <1>4, MoveAnew DEF ReqDisconnect, At
  <2>2. th'[c].at \in {"postDisc", "postDiscWait"} /\ th'[c].on = s
    BY <2>1 DEF Idle, DiscPlace
  <2>. QED  BY <1>1, <2>1, <2>2, LifeDisable DEF ClosePlaces
<1>. QED  BY <1>2, <1>3, <1>4 DEF Request

-----------------------------------------------------------------------------
(* The refinement                                                           *)

LEMMA LifeInit == Init => Life!Init
<1>. SUFFICES ASSUME Init, NEW s \in Sockets PROVE Phase(s) = "fresh"
  BY DEF Life!Init
<1>1. s \notin used /\ ~ Pooled(s)
  BY DEF Init, Pooled
<1>. QED  BY <1>1, InitOK, PhaseIsKnown DEF PhaseFacts

\* One socket along an edge is a step of CkLife.
LEMMA EdgeIsStep ==
  ASSUME NEW s \in Sockets, Lives(s)
  PROVE  [Life!Next]_([x \in Sockets |-> Phase(x)])
<1>. DEFINE phase == [x \in Sockets |-> Phase(x)]
<1>1. \A x \in Sockets : x # s => Phase(x)' = Phase(x)
  BY PhaseStays DEF Lives
<1>2. CASE Phase(s)' = Phase(s)
  BY <1>1, <1>2
<1>3. ASSUME NEW e \in Edges, Phase(s) = e[1], Phase(s)' = e[2]
      PROVE  Life!Next
  <2>1. Life!Move(s, e[1], e[2])
    BY <1>1, <1>3 DEF Life!Move
  <2>. QED  BY <2>1 DEF Edges, Life!Next, Life!Stock, Life!Take, Life!Abort, Life!Open,
               Life!Close, Life!Recycle, Life!Leak
<1>. QED  BY <1>2, <1>3 DEF Lives

LEMMA LifeStep == IInv /\ IInv' /\ [Next]_vars => [Life!Next]_([x \in Sockets |-> Phase(x)])
<1>. SUFFICES ASSUME IInv, IInv', [Next]_vars
              PROVE  [Life!Next]_([x \in Sockets |-> Phase(x)])
  OBVIOUS
<1>1. CASE \A x \in Sockets : Untouched(x)
  BY <1>1, PhaseStays
<1>2. CASE UNCHANGED vars
  <2>1. \A x \in Sockets : Untouched(x)
    BY <1>2 DEF vars, Untouched, Closes, Pooled
  <2>. QED  BY <1>1, <2>1
<1>3. CASE \E s \in Sockets : TimeWaitOver(s)
  <2>1. \A x \in Sockets : Untouched(x)
    BY <1>3 DEF TimeWaitOver, Untouched, Closes, Pooled
  <2>. QED  BY <1>1, <2>1
<1>4. CASE Sockets = {}
  BY <1>1, <1>4
<1>5. ASSUME Next, ~ \E s \in Sockets : TimeWaitOver(s), Sockets # {}
      PROVE  \E s \in Sockets : Lives(s)
  BY <1>5, LifeCompletion, LifeHandler, LifeInCallback, LifeCall, LifeRequest, LifeShared,
     LifeAccepting DEF Next
<1>. QED  BY <1>2, <1>3, <1>4, <1>5, EdgeIsStep

\* The pools, the threads and the kernel together keep to the life cycle of
\* CkLife, for every set of sockets and threads: a connection is opened once
\* and closed once, and its socket goes back to the pool from where it was
\* closed, or never opened, only.
THEOREM FollowsLifeCycle ==
  Spec => Life!Init /\ [][Life!Next]_([x \in Sockets |-> Phase(x)])
<1>. QED  BY LifeInit, LifeStep, InvariantHolds, PTL DEF Spec
=============================================================================
