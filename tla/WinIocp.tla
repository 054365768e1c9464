------------------------------ MODULE WinIocp ------------------------------
(***************************************************************************)
(* The connection life cycle of class WinIOCP (src/Lib/net/WinIocp.cpp):   *)
(* the pool of CompleteKeySockets, accept, connect, receive, error and     *)
(* disconnect, run by the worker threads of the Windows thread pool and    *)
(* by the application's own threads.                                       *)
(*                                                                         *)
(* A step runs from one point where other threads can look to the next: a  *)
(* critical section, a posted operation, a callback of the application, or *)
(* the return of a handler.  The send path (ccsSend, szSendBytes,          *)
(* kSendList) is module CkSend.  Two address families give disjoint copies *)
(* of the pools, so one is modelled; so is one listener.                   *)
(***************************************************************************)
EXTENDS Naturals, Sequences, FiniteSets

CONSTANTS
  Sockets,        \* every CompleteKeySocket the process may ever create
  Kind,           \* [Sockets -> {"ACCEPT", "CONNECT"}]: kCKBase.eType
  Workers,        \* thread-pool threads, which run the handlers
  Callers,        \* application threads, which call the req* functions
  AcceptNum,      \* szAcceptNum of reqListen
  PromptHandlers, \* BOOLEAN: 30 s (NET_TCP_TIME_WAIT_DELAY) outlast any call
  WaitInCallback, \* BOOLEAN: a callback may call reqDisconnectAndWait
  None            \* no socket

Kinds   == {"ACCEPT", "CONNECT"}
Ops     == {"accept", "connect", "recv", "disc"}
Threads == Workers \cup Callers

ASSUME KindAssumption    == Kind \in [Sockets -> Kinds]
ASSUME NoneAssumption    == None \notin Sockets
ASSUME ThreadsAssumption == Workers \cap Callers = {}
ASSUME ParamAssumption   == /\ AcceptNum \in Nat
                            /\ PromptHandlers \in BOOLEAN
                            /\ WaitInCallback \in BOOLEAN

VARIABLES
  pool,     \* the two _dequeCKSocket... pools
  used,     \* the _setCKUsed... sets
  bEnable,  \* CompleteKeySocket::bEnable, guarded by ccsSend
  bWait,    \* CompleteKeySocket::bWait
  ripe,     \* GetTickCount64() - llLastDisconnectTime > the delay
  posted,   \* operations given to the kernel and not yet completed
  conn,     \* the kernel's connection: none, up, closing (DisconnectEx), or
            \* stuck, if that has failed
  leaked,   \* sockets whose postDisconnect failed
  todo,     \* reqAccept calls that reqListen has still to make
  lost,     \* accepts that were not posted again
  th        \* what each thread does

vars == <<pool, used, bEnable, bWait, ripe, posted, conn, leaked, todo, lost, th>>

-----------------------------------------------------------------------------
(* Threads.  "job" is the handler a worker runs, "at" where the thread is,  *)
(* "on" the socket, and "back" where it goes on once handError or           *)
(* reqDisconnect has returned.                                              *)

Jobs      == {"none", "accept", "connect", "recv", "disc"}
Places    == {"idle",
              "postAccept", "accOpen", "inAccept", "accRecv", "accDel", "reAccept",
              "postConnect", "conOpen", "inConnect", "conRecv", "conDel",
              "waitConn", "waitRecv", "waitEnd",
              "inRecv", "inDisc",
              "error", "postDisc", "postDiscWait", "waitDisc"}
Callbacks == {"inAccept", "inConnect", "inRecv", "inDisc"}

Idle == [job |-> "none", at |-> "idle", on |-> None, back |-> "idle"]
Again == [Idle EXCEPT !.job = "accept", !.at = "reAccept"]
ThreadState == [job : Jobs, at : Places, on : Sockets \cup {None}, back : Places]

At(t, p)      == th[t].at = p
Become(t, r)  == th' = [th EXCEPT ![t] = r]
Goto(t, p)    == th' = [th EXCEPT ![t].at = p]
Run(w, j, p, s) == Become(w, [job |-> j, at |-> p, on |-> s, back |-> "idle"])
\* enter handError, to go on at place p
Fail(t, p)    == th' = [th EXCEPT ![t].at = "error", ![t].back = p]
\* return from handError or reqDisconnect; a thread back at "idle" is free
Return(t)     == IF th[t].back = "idle"
                 THEN Become(t, Idle)
                 ELSE th' = [th EXCEPT ![t].at = th[t].back, ![t].back = "idle"]

-----------------------------------------------------------------------------
(* The pools and the kernel                                                 *)

Pooled(s) == \E k \in Kinds : \E i \in 1..Len(pool[k]) : pool[k][i] = s
Fresh(s)  == s \notin used /\ ~ Pooled(s)

\* Mutant: the delay is not looked at.
FrontRipeNoDelay(k) == pool[k] # <<>>

FrontRipe(k) == pool[k] # <<>> /\ ripe[Head(pool[k])]

\* newCompleteKeySocket: the front of the pool if its delay is over, and a
\* new socket otherwise, whatever stands behind the front.  Nothing reads the
\* used sets, so that their own critical section is not told apart.
NewSocket(k, s) ==
  /\ Kind[s] = k
  /\ \/ /\ FrontRipe(k)
        /\ s = Head(pool[k])
        /\ pool' = [pool EXCEPT ![k] = Tail(@)]
     \/ /\ ~ FrontRipe(k)
        /\ Fresh(s)
        /\ UNCHANGED pool
  /\ used' = used \cup {s}

\* Mutant: the socket is not erased from the used set.
DelSocketNoErase(s) ==
  /\ bEnable' = [bEnable EXCEPT ![s] = FALSE]
  /\ bWait'   = [bWait EXCEPT ![s] = FALSE]
  /\ pool'    = [pool EXCEPT ![Kind[s]] = Append(@, s)]
  /\ UNCHANGED used

\* delCompleteKeySocket: init(), then back to the end of its pool.  What
\* init() does to the send path is in CkSend.
DelSocket(s) ==
  /\ bEnable' = [bEnable EXCEPT ![s] = FALSE]
  /\ bWait'   = [bWait EXCEPT ![s] = FALSE]
  /\ used'    = used \ {s}
  /\ pool'    = [pool EXCEPT ![Kind[s]] = Append(@, s)]

Post(s, o)   == posted' = [posted EXCEPT ![s][o] = @ + 1]
Finish(s, o) == posted[s][o] > 0 /\ posted' = [posted EXCEPT ![s][o] = @ - 1]

\* WSARecv is refused on a socket with no connection, and may fail at any time
PostRecvOk(s)   == conn[s] # "none" /\ Post(s, "recv")

\* What WaitForThreadpoolIoCallbacks(pkIO of s) waits for: the socket's own
\* operations and handlers.  AcceptEx belongs to the listener's pkIO.
Quiet(s) ==
  /\ \A o \in {"connect", "recv", "disc"} : posted[s][o] = 0
  /\ \A w \in Workers : th[w].on = s => th[w].job \notin {"connect", "recv", "disc"}

-----------------------------------------------------------------------------
(* Stocking the pool                                                        *)

PrepareCkSocket(c, s) ==
  /\ At(c, "idle") /\ Fresh(s)
  /\ pool' = [pool EXCEPT ![Kind[s]] = <<s>> \o @]
  /\ UNCHANGED <<used, bEnable, bWait, ripe, posted, conn, leaked, todo, lost, th>>

\* 30 s pass.  With PromptHandlers no call on the socket lasts that long.
TimeWaitOver(s) ==
  /\ Pooled(s) /\ ~ ripe[s]
  /\ PromptHandlers => \A t \in Threads : th[t].on # s
  /\ ripe' = [ripe EXCEPT ![s] = TRUE]
  /\ UNCHANGED <<pool, used, bEnable, bWait, posted, conn, leaked, todo, lost, th>>

-----------------------------------------------------------------------------
(* Accept: reqAccept and handAccept                                         *)

\* Mutant: one call too many.
MayAcceptOneMore(t) == \/ t \in Callers /\ At(t, "idle")
                       \/ At(t, "reAccept")

\* reqListen calls reqAccept szAcceptNum times, handAccept once more each time
MayAccept(t) == \/ t \in Callers /\ At(t, "idle") /\ todo > 0
                \/ At(t, "reAccept")

CountCall(t) == todo' = IF At(t, "idle") THEN todo - 1 ELSE todo

ReqAccept(t, s) ==
  /\ MayAccept(t) /\ CountCall(t)
  /\ NewSocket("ACCEPT", s)
  /\ th' = [th EXCEPT ![t].at = "postAccept", ![t].on = s]
  /\ UNCHANGED <<bEnable, bWait, ripe, posted, conn, leaked, lost>>

\* newCompleteKeySocket returned NULL: one accept fewer is outstanding
ReqAcceptNoSocket(t) ==
  /\ MayAccept(t) /\ CountCall(t)
  /\ ~ FrontRipe("ACCEPT")
  /\ lost' = lost + 1
  /\ Become(t, Idle)
  /\ UNCHANGED <<pool, used, bEnable, bWait, ripe, posted, conn, leaked>>

\* Winsock takes no socket that is still connected for an AcceptEx or a ConnectEx.
PostAccept(t) ==
  /\ At(t, "postAccept") /\ conn[th[t].on] = "none"
  /\ Post(th[t].on, "accept")
  /\ Become(t, Idle)
  /\ UNCHANGED <<pool, used, bEnable, bWait, ripe, conn, leaked, todo, lost>>

PostAcceptFails(t) ==
  /\ At(t, "postAccept")
  /\ DelSocket(th[t].on)
  /\ lost' = lost + 1
  /\ Become(t, Idle)
  /\ UNCHANGED <<ripe, posted, conn, leaked, todo>>

\* A client connected.
CompleteAccept(w, s) ==
  /\ At(w, "idle") /\ Finish(s, "accept")
  /\ conn' = [conn EXCEPT ![s] = "up"]
  /\ Run(w, "accept", "accOpen", s)
  /\ UNCHANGED <<pool, used, bEnable, bWait, ripe, leaked, todo, lost>>

\* Mutant: IoResult is not looked at.
CompleteAcceptFailsUnseen(w, s) ==
  /\ At(w, "idle") /\ Finish(s, "accept")
  /\ Run(w, "accept", "accOpen", s)
  /\ UNCHANGED <<pool, used, bEnable, bWait, ripe, conn, leaked, todo, lost>>

\* AcceptEx failed (the client was gone): handError, then delCompleteKeySocket
CompleteAcceptFails(w, s) ==
  /\ At(w, "idle") /\ Finish(s, "accept")
  /\ Become(w, [job |-> "accept", at |-> "error", on |-> s, back |-> "accDel"])
  /\ UNCHANGED <<pool, used, bEnable, bWait, ripe, conn, leaked, todo, lost>>

\* Mutant: the first receive is posted before the callback.
HandAcceptOpenRecvFirst(w) ==
  LET s == th[w].on IN
  /\ At(w, "accOpen")
  /\ bEnable' = [bEnable EXCEPT ![s] = TRUE]
  /\ ripe' = [ripe EXCEPT ![s] = FALSE]
  /\ PostRecvOk(s)
  /\ Goto(w, "inAccept")
  /\ UNCHANGED <<pool, used, bWait, conn, leaked, todo, lost>>

\* llLastRecvTime is llLastDisconnectTime: the two share a union
HandAcceptOpen(w) ==
  LET s == th[w].on IN
  /\ At(w, "accOpen")
  /\ bEnable' = [bEnable EXCEPT ![s] = TRUE]
  /\ ripe' = [ripe EXCEPT ![s] = FALSE]
  /\ Goto(w, "inAccept")
  /\ UNCHANGED <<pool, used, bWait, posted, conn, leaked, todo, lost>>

AcceptCallbackReturns(w) ==
  /\ At(w, "inAccept")
  /\ Goto(w, "accRecv")
  /\ UNCHANGED <<pool, used, bEnable, bWait, ripe, posted, conn, leaked, todo, lost>>

HandAcceptRecv(w) ==
  /\ At(w, "accRecv")
  /\ PostRecvOk(th[w].on)
  /\ Become(w, Again)
  /\ UNCHANGED <<pool, used, bEnable, bWait, ripe, conn, leaked, todo, lost>>

HandAcceptRecvFails(w) ==
  /\ At(w, "accRecv")
  /\ Fail(w, "reAccept")
  /\ UNCHANGED <<pool, used, bEnable, bWait, ripe, posted, conn, leaked, todo, lost>>

\* Mutant: no accept replaces one that failed.
HandAcceptDelNoAgain(w) ==
  /\ At(w, "accDel")
  /\ DelSocket(th[w].on)
  /\ Become(w, Idle)
  /\ UNCHANGED <<ripe, posted, conn, leaked, todo, lost>>

HandAcceptDel(w) ==
  /\ At(w, "accDel")
  /\ DelSocket(th[w].on)
  /\ Become(w, Again)
  /\ UNCHANGED <<ripe, posted, conn, leaked, todo, lost>>

-----------------------------------------------------------------------------
(* Connect: _reqConnect, handConnect, reqConnectAndWait                     *)

ReqConnect(c, s, wait) ==
  /\ At(c, "idle")
  /\ NewSocket("CONNECT", s)
  /\ bWait' = [bWait EXCEPT ![s] = wait]
  /\ Become(c, [Idle EXCEPT !.at = "postConnect", !.on = s])
  /\ UNCHANGED <<bEnable, ripe, posted, conn, leaked, todo, lost>>

PostConnect(c) ==
  LET s == th[c].on IN
  /\ At(c, "postConnect") /\ conn[s] = "none"
  /\ Post(s, "connect")
  /\ IF bWait[s] THEN Goto(c, "waitConn") ELSE Become(c, Idle)
  /\ UNCHANGED <<pool, used, bEnable, bWait, ripe, conn, leaked, todo, lost>>

PostConnectFails(c) ==
  /\ At(c, "postConnect")
  /\ DelSocket(th[c].on)
  /\ Become(c, Idle)
  /\ UNCHANGED <<ripe, posted, conn, leaked, todo, lost>>

CompleteConnect(w, s) ==
  /\ At(w, "idle") /\ Finish(s, "connect")
  /\ conn' = [conn EXCEPT ![s] = "up"]
  /\ Run(w, "connect", "conOpen", s)
  /\ UNCHANGED <<pool, used, bEnable, bWait, ripe, leaked, todo, lost>>

CompleteConnectFails(w, s) ==
  /\ At(w, "idle") /\ Finish(s, "connect")
  /\ Become(w, [job |-> "connect", at |-> "error", on |-> s, back |-> "conDel"])
  /\ UNCHANGED <<pool, used, bEnable, bWait, ripe, conn, leaked, todo, lost>>

HandConnectOpen(w) ==
  LET s == th[w].on IN
  /\ At(w, "conOpen")
  /\ bEnable' = [bEnable EXCEPT ![s] = TRUE]
  /\ ripe' = [ripe EXCEPT ![s] = FALSE]
  /\ Goto(w, "inConnect")
  /\ UNCHANGED <<pool, used, bWait, posted, conn, leaked, todo, lost>>

\* Mutant: bWait is not looked at.
ConnectCallbackReturnsToRecv(w) ==
  /\ At(w, "inConnect")
  /\ Goto(w, "conRecv")
  /\ UNCHANGED <<pool, used, bEnable, bWait, ripe, posted, conn, leaked, todo, lost>>

\* bWait is read again once the callback has returned: a disconnect that
\* completed meanwhile has cleared it
ConnectCallbackReturns(w) ==
  /\ At(w, "inConnect")
  /\ IF bWait[th[w].on] THEN Become(w, Idle) ELSE Goto(w, "conRecv")
  /\ UNCHANGED <<pool, used, bEnable, bWait, ripe, posted, conn, leaked, todo, lost>>

HandConnectRecv(w) ==
  /\ At(w, "conRecv")
  /\ PostRecvOk(th[w].on)
  /\ Become(w, Idle)
  /\ UNCHANGED <<pool, used, bEnable, bWait, ripe, conn, leaked, todo, lost>>

HandConnectRecvFails(w) ==
  /\ At(w, "conRecv")
  /\ Fail(w, "idle")
  /\ UNCHANGED <<pool, used, bEnable, bWait, ripe, posted, conn, leaked, todo, lost>>

HandConnectDel(w) ==
  /\ At(w, "conDel")
  /\ DelSocket(th[w].on)
  /\ Become(w, Idle)
  /\ UNCHANGED <<ripe, posted, conn, leaked, todo, lost>>

\* reqConnectAndWait: the wait ends, and whether the connect succeeded is not
\* looked at
WaitConnect(c) ==
  /\ At(c, "waitConn") /\ Quiet(th[c].on)
  /\ Goto(c, "waitRecv")
  /\ UNCHANGED <<pool, used, bEnable, bWait, ripe, posted, conn, leaked, todo, lost>>

WaitRecv(c) ==
  /\ At(c, "waitRecv")
  /\ PostRecvOk(th[c].on)
  /\ Become(c, Idle)
  /\ UNCHANGED <<pool, used, bEnable, bWait, ripe, conn, leaked, todo, lost>>

\* Mutant: what reqRecv returned is not looked at.
WaitRecvFailsUnseen(c) ==
  /\ At(c, "waitRecv")
  /\ Become(c, Idle)
  /\ UNCHANGED <<pool, used, bEnable, bWait, ripe, posted, conn, leaked, todo, lost>>

WaitRecvFails(c) ==
  /\ At(c, "waitRecv")
  /\ Fail(c, "waitEnd")
  /\ UNCHANGED <<pool, used, bEnable, bWait, ripe, posted, conn, leaked, todo, lost>>

WaitEnd(c) ==
  /\ At(c, "waitEnd") /\ Quiet(th[c].on)
  /\ Become(c, Idle)
  /\ UNCHANGED <<pool, used, bEnable, bWait, ripe, posted, conn, leaked, todo, lost>>

-----------------------------------------------------------------------------
(* Receive: handRecv                                                        *)

CompleteRecv(w, s) ==
  /\ At(w, "idle") /\ Finish(s, "recv")
  /\ Run(w, "recv", "inRecv", s)
  /\ UNCHANGED <<pool, used, bEnable, bWait, ripe, conn, leaked, todo, lost>>

\* An error, or zero bytes: the peer closed.
CompleteRecvFails(w, s) ==
  /\ At(w, "idle") /\ Finish(s, "recv")
  /\ Run(w, "recv", "error", s)
  /\ UNCHANGED <<pool, used, bEnable, bWait, ripe, conn, leaked, todo, lost>>

\* The callback returned with kBufRecv within NET_SOCKET_RECV_BUF_MAX: the
\* time is stored and the next receive posted
HandRecvAgain(w) ==
  LET s == th[w].on IN
  /\ At(w, "inRecv")
  /\ ripe' = [ripe EXCEPT ![s] = FALSE]
  /\ PostRecvOk(s)
  /\ Become(w, Idle)
  /\ UNCHANGED <<pool, used, bEnable, bWait, conn, leaked, todo, lost>>

HandRecvPostFails(w) ==
  /\ At(w, "inRecv")
  /\ ripe' = [ripe EXCEPT ![th[w].on] = FALSE]
  /\ Fail(w, "idle")
  /\ UNCHANGED <<pool, used, bEnable, bWait, posted, conn, leaked, todo, lost>>

\* The application left more than NET_SOCKET_RECV_BUF_MAX bytes unread.
HandRecvOverflow(w) ==
  /\ At(w, "inRecv")
  /\ Fail(w, "idle")
  /\ UNCHANGED <<pool, used, bEnable, bWait, ripe, posted, conn, leaked, todo, lost>>

-----------------------------------------------------------------------------
(* Error and disconnect: handError, reqDisconnect(AndWait), handDisconnect  *)

\* Mutant: bEnable is reset without being tested.
DisableAlways(s) == bEnable' = [bEnable EXCEPT ![s] = FALSE]

\* The test and reset of bEnable, under ccsSend: one caller gets through.
Disable(s) == bEnable[s] /\ bEnable' = [bEnable EXCEPT ![s] = FALSE]

HandError(t) ==
  /\ At(t, "error")
  /\ \/ Disable(th[t].on) /\ Goto(t, "postDisc")
     \/ ~ bEnable[th[t].on] /\ Return(t) /\ UNCHANGED bEnable
  /\ UNCHANGED <<pool, used, bWait, ripe, posted, conn, leaked, todo, lost>>

DiscPlace(wait) == IF wait THEN "postDiscWait" ELSE "postDisc"

\* An application thread may disconnect any socket it was ever given.  Where
\* bEnable is FALSE the call returns at once and nothing changes.
ReqDisconnect(c, s, wait) ==
  /\ At(c, "idle")
  /\ Disable(s)
  /\ Become(c, [Idle EXCEPT !.at = DiscPlace(wait), !.on = s])
  /\ UNCHANGED <<pool, used, bWait, ripe, posted, conn, leaked, todo, lost>>

\* So may a callback, on its own socket.
ReqDisconnectInCallback(w, wait) ==
  /\ th[w].at \in Callbacks
  /\ wait => WaitInCallback
  /\ Disable(th[w].on)
  /\ th' = [th EXCEPT ![w].at = DiscPlace(wait), ![w].back = th[w].at]
  /\ UNCHANGED <<pool, used, bWait, ripe, posted, conn, leaked, todo, lost>>

PostDisconnect(t) ==
  LET s == th[t].on IN
  /\ th[t].at \in {"postDisc", "postDiscWait"}
  /\ Post(s, "disc")
  /\ conn' = [conn EXCEPT ![s] = "closing"]
  /\ IF At(t, "postDiscWait") THEN Goto(t, "waitDisc") ELSE Return(t)
  /\ UNCHANGED <<pool, used, bEnable, bWait, ripe, leaked, todo, lost>>

\* Mutant: bEnable is set again, so that the disconnect may be retried.
PostDisconnectFailsRetry(t) ==
  /\ th[t].at \in {"postDisc", "postDiscWait"}
  /\ bEnable' = [bEnable EXCEPT ![th[t].on] = TRUE]
  /\ Return(t)
  /\ UNCHANGED <<pool, used, bWait, ripe, posted, conn, leaked, todo, lost>>

\* bEnable stays FALSE, so nobody asks again: the socket is lost for good
PostDisconnectFails(t) ==
  /\ th[t].at \in {"postDisc", "postDiscWait"}
  /\ leaked' = leaked \cup {th[t].on}
  /\ Return(t)
  /\ UNCHANGED <<pool, used, bEnable, bWait, ripe, posted, conn, todo, lost>>

WaitDisconnect(t) ==
  /\ At(t, "waitDisc") /\ Quiet(th[t].on)
  /\ Return(t)
  /\ UNCHANGED <<pool, used, bEnable, bWait, ripe, posted, conn, leaked, todo, lost>>

\* DisconnectEx completes once the receives on the connection have.
CompleteDisconnect(w, s) ==
  /\ At(w, "idle") /\ posted[s]["recv"] = 0 /\ Finish(s, "disc")
  /\ conn' = [conn EXCEPT ![s] = "none"]
  /\ Run(w, "disc", "inDisc", s)
  /\ UNCHANGED <<pool, used, bEnable, bWait, ripe, leaked, todo, lost>>

\* DisconnectEx failed: handDisconnect does not look at IoResult.  The connection
\* stays, and what receives are pending on it.
CompleteDisconnectFails(w, s) ==
  /\ At(w, "idle") /\ Finish(s, "disc")
  /\ conn' = [conn EXCEPT ![s] = "stuck"]
  /\ Run(w, "disc", "inDisc", s)
  /\ UNCHANGED <<pool, used, bEnable, bWait, ripe, leaked, todo, lost>>

\* kFunOnDisconnect returned: the time is stored, the socket pooled
HandDisconnect(w) ==
  LET s == th[w].on IN
  /\ At(w, "inDisc")
  /\ ripe' = [ripe EXCEPT ![s] = FALSE]
  /\ DelSocket(s)
  /\ Become(w, Idle)
  /\ UNCHANGED <<posted, conn, leaked, todo, lost>>

-----------------------------------------------------------------------------
Init ==
  /\ pool    = [k \in Kinds |-> <<>>]
  /\ used    = {}
  /\ bEnable = [s \in Sockets |-> FALSE]
  /\ bWait   = [s \in Sockets |-> FALSE]
  /\ ripe    = [s \in Sockets |-> TRUE]      \* llLastRecvTime = 0
  /\ posted  = [s \in Sockets |-> [o \in Ops |-> 0]]
  /\ conn    = [s \in Sockets |-> "none"]
  /\ leaked  = {}
  /\ todo    = AcceptNum
  /\ lost    = 0
  /\ th      = [t \in Threads |-> Idle]

\* IoCompletionCallback: a worker takes a completion
Completion(w, s) ==
  \/ CompleteAccept(w, s)     \/ CompleteAcceptFails(w, s)
  \/ CompleteConnect(w, s)    \/ CompleteConnectFails(w, s)
  \/ CompleteRecv(w, s)       \/ CompleteRecvFails(w, s)
  \/ CompleteDisconnect(w, s) \/ CompleteDisconnectFails(w, s)

\* What a handler does of itself once it runs
Handler(w) ==
  \/ HandAcceptOpen(w)         \/ AcceptCallbackReturns(w)
  \/ HandAcceptRecv(w)         \/ HandAcceptRecvFails(w)
  \/ HandAcceptDel(w)
  \/ HandConnectOpen(w)        \/ ConnectCallbackReturns(w)
  \/ HandConnectRecv(w)        \/ HandConnectRecvFails(w)
  \/ HandConnectDel(w)
  \/ HandRecvAgain(w)          \/ HandRecvPostFails(w)
  \/ HandRecvOverflow(w)       \/ HandDisconnect(w)

\* What a call of the application does of itself once it is made
Call(c) ==
  \/ PostConnect(c)            \/ PostConnectFails(c)
  \/ WaitConnect(c)            \/ WaitRecv(c)
  \/ WaitRecvFails(c)          \/ WaitEnd(c)

\* What handlers and calls share
Shared(t) ==
  \/ PostAccept(t)             \/ PostAcceptFails(t)
  \/ HandError(t)              \/ WaitDisconnect(t)
  \/ PostDisconnect(t)         \/ PostDisconnectFails(t)

Accepting(t) == ReqAcceptNoSocket(t) \/ \E s \in Sockets : ReqAccept(t, s)

\* What the application asks for
Request(c, s) ==
  \/ PrepareCkSocket(c, s)
  \/ \E wait \in BOOLEAN : ReqConnect(c, s, wait) \/ ReqDisconnect(c, s, wait)

Next ==
  \/ \E w \in Workers, s \in Sockets : Completion(w, s)
  \/ \E w \in Workers : Handler(w)
  \/ \E w \in Workers, wait \in BOOLEAN : ReqDisconnectInCallback(w, wait)
  \/ \E c \in Callers : Call(c)
  \/ \E c \in Callers, s \in Sockets : Request(c, s)
  \/ \E t \in Threads : Shared(t) \/ Accepting(t)
  \/ \E s \in Sockets : TimeWaitOver(s)

\* A thread that runs goes on running, and the callbacks return.  The thread
\* pool delivers every completion to some worker: a connect attempt ends, a
\* disconnect completes, and a receive on a connection being closed fails.
\* No client need connect, and no peer need send.
Fairness ==
  /\ \A w \in Workers : WF_vars(Handler(w) \/ (At(w, "reAccept") /\ Accepting(w)))
  /\ \A c \in Callers : WF_vars(Call(c))
  /\ \A t \in Threads : WF_vars(Shared(t))
  /\ \A s \in Sockets :
       /\ SF_vars(\E w \in Workers : CompleteConnect(w, s) \/ CompleteConnectFails(w, s))
       /\ SF_vars(\E w \in Workers : CompleteDisconnect(w, s))
       /\ SF_vars(conn[s] = "closing" /\ \E w \in Workers : CompleteRecvFails(w, s))

Spec == Init /\ [][Next]_vars /\ Fairness

-----------------------------------------------------------------------------
(* Properties                                                               *)

TypeOK ==
  /\ pool \in [Kinds -> Seq(Sockets)]
  /\ used \in SUBSET Sockets
  /\ bEnable \in [Sockets -> BOOLEAN]
  /\ bWait \in [Sockets -> BOOLEAN]
  /\ ripe \in [Sockets -> BOOLEAN]
  /\ posted \in [Sockets -> [Ops -> Nat]]
  /\ conn \in [Sockets -> {"none", "up", "closing", "stuck"}]
  /\ leaked \in SUBSET Sockets
  /\ todo \in Nat /\ lost \in Nat
  /\ th \in [Threads -> ThreadState]

\* Where a thread is the only one entitled to decide what becomes of its socket
OwnPlaces == {"postAccept", "accOpen", "accDel", "postConnect", "conOpen",
              "conDel", "postDisc", "postDiscWait", "inDisc"}

Owns(t, s) ==
  /\ th[t].on = s
  /\ th[t].at \in OwnPlaces \/ (At(t, "error") /\ th[t].back \in {"accDel", "conDel"})

\* Who may hold a socket: its pool, one of its operations in the kernel, the
\* application (an enabled connection), nobody ever again, or a thread
Keepers == {"pool", "accept", "connect", "disc", "user", "leak"}
Holders == Keepers \cup Threads

\* A string that names a holder names no thread.
ASSUME KeeperAssumption == Keepers \cap Threads = {}

Holds(h, s) ==
  \/ h = "pool" /\ Pooled(s)
  \/ h \in {"accept", "connect", "disc"} /\ posted[s][h] > 0
  \/ h = "user" /\ bEnable[s]
  \/ h = "leak" /\ s \in leaked
  \/ h \in Threads /\ Owns(h, s)

\* A socket is never handed out twice: of the pool, the pending operations,
\* the connection's user and the threads, one at most holds it at a time, and
\* a socket that was created never drops out of sight of all of them.  Two
\* threads that both got past bEnable, or a socket pooled twice, break it.
OneHolder ==
  \A s \in Sockets :
    /\ \A g, h \in Holders : Holds(g, s) /\ Holds(h, s) => g = h
    /\ s \in used => \E h \in Holders : Holds(h, s)

\* A socket that waits in a pool is really at rest: it is there once, it is
\* not in use, no accept, connect or disconnect refers to it, and unless its
\* DisconnectEx failed, which handDisconnect does not look at, the kernel has no
\* connection and no receive on it.  Late handlers and calls do not change that.
PoolAtRest ==
  /\ \A k \in Kinds : \A i, j \in 1..Len(pool[k]) :
       pool[k][i] = pool[k][j] => i = j
  /\ \A s \in Sockets : Pooled(s) =>
       /\ s \notin used /\ ~ bEnable[s]
       /\ \A o \in Ops \ {"recv"} : posted[s][o] = 0
       /\ conn[s] = "stuck" \/ (conn[s] = "none" /\ posted[s]["recv"] = 0)

\* Sends and disconnects are taken only while the connection is up: nobody
\* finds bEnable true before the kernel connected or once DisconnectEx began,
\* nor ever again on a socket that could not be disconnected.
EnabledIsUp == \A s \in Sockets : bEnable[s] => conn[s] = "up"

\* A listener keeps szAcceptNum accepts going: each is still to be asked for,
\* pending, in the hands of a thread, or one of those that could not be
\* posted.  None is dropped on another path and none is posted twice.
AcceptsKept ==
  todo + lost + Cardinality({s \in Sockets : posted[s]["accept"] > 0})
       + Cardinality({t \in Threads : th[t].job = "accept" \/ At(t, "postAccept")})
    = AcceptNum

\* An open connection always has a receive pending, or a thread at work on
\* the socket that will post one or close the connection: no path of a
\* handler, and no bWait, leaves the peer unheard for ever.
NeverDeaf ==
  \A s \in Sockets :
    bEnable[s] => posted[s]["recv"] > 0 \/ \E t \in Threads : th[t].on = s

\* The waits end when the receives do, which a connection that could not be
\* disconnected leaves to the peer.
WaitsOnStuck(t) ==
  th[t].at \in {"waitConn", "waitEnd", "waitDisc"} /\ conn[th[t].on] = "stuck"

\* Every thread that enters a handler or a call comes out of it: no wait of
\* reqConnectAndWait or reqDisconnectAndWait lasts for ever, unless a DisconnectEx
\* has failed.
ThreadsReturn == \A t \in Threads : []<> (At(t, "idle") \/ WaitsOnStuck(t))

\* WinIocp.h:70: reqDisconnectAndWait blocks until the disconnect succeeded.
DisconnectWaitReturns ==
  \A t \in Threads : At(t, "waitDisc") ~> (~ At(t, "waitDisc") \/ WaitsOnStuck(t))

Phase(s) ==
  CASE s \in leaked -> "leaked"
    [] s \notin used -> IF Pooled(s) THEN "pooled" ELSE "fresh"
    [] bEnable[s] -> "open"
    [] posted[s]["disc"] > 0 -> "closing"
    [] \E t \in Threads : th[t].on = s /\ th[t].at \in {"postDisc", "postDiscWait", "inDisc"} -> "closing"
    [] OTHER -> "setup"

Life == INSTANCE CkLife WITH phase <- [s \in Sockets |-> Phase(s)]

\* All of this amounts to the life cycle of CkLife, in which a connection is
\* opened once and closed once, and in which a close that was asked for ends
\* with the socket back in its pool or known to be lost.
LifeCycle == Life!Spec
=============================================================================
