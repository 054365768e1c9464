---------------------------- MODULE CkRecv_proofs ----------------------------
(***************************************************************************)
(* The receive path, for every finite set of workers, every set of sockets *)
(* and callers, every chunk and every NET_SOCKET_RECV_BUF_MAX.             *)
(*                                                                         *)
(* Nothing but its place in handRecv tells a thread that kBufRecv is its   *)
(* own.  Token: a receive is pending, or with the one thread that handles  *)
(* it or will post the next; and nobody has to do with a socket that is in *)
(* the pool, or for which an accept or a connect is pending.  What a       *)
(* thread does to a socket in any step of WinIocp is one of six things     *)
(* (Does), and each of them keeps Token.                                   *)
(*                                                                         *)
(* All this is said of sockets nobody was late for when they were init()ed *)
(* (late): then nobody is left from there on to where the socket is taken  *)
(* again (ResetAlone), so that a stream begins with an empty kBufRecv      *)
(* (Empty), and a call in reqConnectAndWait that goes on has waited for    *)
(* its own connect (WaitOK).  With these, as long as the socket has a      *)
(* receive, kBufRecv and what is about to be appended to it are what came  *)
(* and was not taken (Flow).                                               *)
(*                                                                         *)
(* UnreadBounded needs none of that: who appends is counted until it       *)
(* measures.                                                               *)
(***************************************************************************)
EXTENDS CkRecv, WinIocpLife_proofs

-----------------------------------------------------------------------------
(* What a thread may do with a socket in a step of WinIocp                  *)

\* t has the receive of the connection, or will post it.
Takes(t, s) == th[t].on = s /\ Where(t) \in RecvPlaces

\* t is in reqConnectAndWait and has yet to get the receive.
WaitsOn(t, s) == th[t].on = s /\ th[t].at = "waitConn"

Engaged(t, s) == Takes(t, s) \/ Begins(t, s) \/ WaitsOn(t, s)

Opens == {"accOpen", "inAccept", "accRecv"}

\* It goes on, or leaves.
Drifts(t, s) ==
  /\ SameOps(s) /\ ~ WaitsOn(t, s)
  /\ ~ Begins(t, s)' /\ ~ WaitsOn(t, s)' /\ ~ Asks(t, s)'
  /\ Takes(t, s)' => /\ Takes(t, s)
                     /\ Where(t)' \in Opens => Where(t) \in Opens
                     /\ bWait[s] /\ Where(t) \in {"conOpen", "inConnect"} =>
                          Where(t)' \in {"conOpen", "inConnect"}
  /\ th[t].on = s /\ Where(t) = "conDel" /\ s \in used' =>
       th'[t].on = s /\ Where(t)' = "conDel"

\* It posts the receive.
Posts(t, s) ==
  /\ Takes(t, s) /\ Where(t) \notin {"conOpen", "inConnect"} /\ th'[t].on # s
  /\ posted'[s]["recv"] = posted[s]["recv"] + 1
  /\ posted'[s]["accept"] = posted[s]["accept"] /\ posted'[s]["connect"] = posted[s]["connect"]

\* It takes a completion.
Completes(t, s) ==
  /\ At(t, "idle") /\ th'[t].on = s
  /\ th'[t].at \notin {"postAccept", "postConnect", "waitConn", "waitRecv"}
  /\ \E o \in Ops :
       /\ posted[s][o] > 0 /\ posted'[s][o] = posted[s][o] - 1
       /\ \A p \in Ops \ {o} : posted'[s][p] = posted[s][p]
       /\ o = "accept"  => Where(t)' \in {"accOpen", "accDel"}
       /\ o = "connect" => Where(t)' \in {"conOpen", "conDel"}
       /\ o = "recv"    => Where(t)' \in {"inRecv", "idle"}
       /\ o = "disc"    => Where(t)' = "inDisc"
       /\ Where(t)' \in {"accOpen", "conOpen"} => conn[s] = "none" /\ conn'[s] = "up"

\* It gets the socket from newCompleteKeySocket.
Acquires(t, s) ==
  /\ s \notin used /\ s \in used' /\ SameOps(s)
  /\ Begins(t, s)'

\* It posts the accept or the connect.
Offers(t, s) ==
  /\ Begins(t, s) /\ ~ Begins(t, s)' /\ ~ Takes(t, s)'
  /\ posted'[s]["recv"] = posted[s]["recv"]
  /\ \/ /\ posted'[s]["accept"] = posted[s]["accept"] + 1
        /\ posted'[s]["connect"] = posted[s]["connect"]
        /\ th'[t].on # s
     \/ /\ posted'[s]["connect"] = posted[s]["connect"] + 1
        /\ posted'[s]["accept"] = posted[s]["accept"]
        /\ th[t].at = "postConnect"
        /\ th'[t].on = s => WaitsOn(t, s)' /\ bWait[s]

\* It has waited in reqConnectAndWait until nothing was left to wait for.
Resumes(t, s) ==
  /\ WaitsOn(t, s) /\ Quiet(s) /\ SameOps(s)
  /\ th'[t].on = s /\ th'[t].at = "waitRecv"

Does(t, s) ==
  \/ /\ s \in used' => s \in used /\ (bWait[s] => bWait'[s])
     /\ \/ Drifts(t, s) \/ Posts(t, s) \/ Completes(t, s)
        \/ Offers(t, s) \/ Resumes(t, s)
  \/ Acquires(t, s)

DoesOne(t) == OnlyMoves(t) /\ \A s \in Sockets : Does(t, s)

-----------------------------------------------------------------------------
LEMMA Leaving ==
  ASSUME NEW t \in Threads, NEW x \in Sockets, SameOps(x), th'[t].on # x, ~ At(t, "waitConn"),
         th[t].on = x /\ Where(t) = "conDel" => x \notin used',
         x \in used' => x \in used /\ (bWait[x] => bWait'[x])
  PROVE  Does(t, x)
BY DEF Does, Drifts, WaitsOn, Begins, Asks, Takes, At

\* A step from a place to one that leads to the same
LEMMA Going ==
  ASSUME NEW t \in Threads, NEW x \in Sockets, SameOps(x), th'[t].on = th[t].on,
         ~ At(t, "waitConn"),
         th'[t].at \notin {"postAccept", "postConnect", "waitConn", "waitRecv"},
         Where(t)' \in RecvPlaces => Where(t) \in RecvPlaces,
         Where(t)' \in Opens => Where(t) \in Opens,
         bWait[th[t].on] /\ Where(t) \in {"conOpen", "inConnect"} =>
           Where(t)' \in {"conOpen", "inConnect"} \/ Where(t)' \notin RecvPlaces,
         Where(t) = "conDel" => Where(t)' = "conDel",
         x \in used' => x \in used /\ (bWait[x] => bWait'[x])
  PROVE  Does(t, x)
BY DEF Does, Drifts, WaitsOn, Begins, Asks, Takes, At

LEMMA PostsRecv ==
  ASSUME TypeOK, NEW t \in Threads, th[t].at \in {"accRecv", "conRecv", "inRecv", "waitRecv"},
         th[t].on \in Sockets, Post(th[t].on, "recv"), th'[t].on \notin Sockets,
         UNCHANGED <<used, bWait>>, NEW x \in Sockets
  PROVE  Does(t, x)
<1>1. /\ posted'[th[t].on]["recv"] = posted[th[t].on]["recv"] + 1
      /\ \A y \in Sockets, p \in Ops : y # th[t].on \/ p # "recv" => posted'[y][p] = posted[y][p]
  BY PostFacts DEF Ops
<1>2. Where(t) = th[t].at /\ th[t].at \in RecvPlaces
  BY DEF Where, Within, RecvPlaces
<1>3. CASE x = th[t].on
  BY <1>1, <1>2, <1>3 DEF Does, Posts, Takes, Ops
<1>4. CASE x # th[t].on
  <2>1. SameOps(x)
    BY <1>1, <1>4 DEF SameOps, Ops
  <2>. QED  BY <1>4, <2>1, Leaving DEF At
<1>. QED  BY <1>3, <1>4

LEMMA DelDoes ==
  ASSUME TypeOK, NEW t \in Threads, th[t].on \in Sockets, DelSocket(th[t].on), UNCHANGED posted,
         ~ At(t, "waitConn"), th'[t].on \notin Sockets, NEW x \in Sockets
  PROVE  Does(t, x)
<1>1. SameOps(x) /\ used' = used \ {th[t].on}
  BY DEF SameOps, DelSocket
<1>2. x \in used' => x \in used /\ x # th[t].on /\ bWait'[x] = bWait[x]
  BY <1>1 DEF DelSocket, TypeOK
<1>. QED  BY <1>1, <1>2, Leaving

LEMMA CompletionDoes ==
  ASSUME IInv, NEW w \in Workers, NEW s \in Sockets, Completion(w, s)
  PROVE  DoesOne(w)
<1>1. w \in Threads /\ TypeOK /\ At(w, "idle") /\ UNCHANGED <<used, bWait>>
  BY DEF Threads, IInv, Completion, CompleteAccept, CompleteAcceptFails, CompleteConnect,
     CompleteConnectFails, CompleteRecv, CompleteRecvFails, CompleteDisconnect,
     CompleteDisconnectFails
<1>2. PICK o \in Ops :
        /\ Finish(s, o) /\ OnlyMoves(w) /\ th'[w].on = s
        /\ \/ o = "accept"  /\ th'[w].at = "accOpen" /\ conn' = [conn EXCEPT ![s] = "up"]
           \/ o = "accept"  /\ th'[w].at = "error" /\ th'[w].back = "accDel"
           \/ o = "connect" /\ th'[w].at = "conOpen" /\ conn' = [conn EXCEPT ![s] = "up"]
           \/ o = "connect" /\ th'[w].at = "error" /\ th'[w].back = "conDel"
           \/ o = "recv"    /\ th'[w].at = "inRecv"
           \/ o = "recv"    /\ th'[w].at = "error" /\ th'[w].back = "idle"
           \/ o = "disc"    /\ th'[w].at = "inDisc"
  BY <1>1, MoveAnew DEF Completion, CompleteAccept, CompleteAcceptFails, CompleteConnect,
     CompleteConnectFails, CompleteRecv, CompleteRecvFails, CompleteDisconnect,
     CompleteDisconnectFails, Run, Ops
<1>3. /\ posted[s][o] > 0 /\ posted'[s][o] = posted[s][o] - 1
      /\ \A x \in Sockets, p \in Ops : x # s \/ p # o => posted'[x][p] = posted[x][p]
  BY <1>1, <1>2, FinishFacts
<1>4. /\ o = "accept"  => Where(w)' \in {"accOpen", "accDel"}
      /\ o = "connect" => Where(w)' \in {"conOpen", "conDel"}
      /\ o = "recv"    => Where(w)' \in {"inRecv", "idle"}
      /\ o = "disc"    => Where(w)' = "inDisc"
      /\ th'[w].at \notin {"postAccept", "postConnect", "waitConn", "waitRecv"}
  BY <1>2 DEF Where, Within
<1>5. Where(w)' \in {"accOpen", "conOpen"} => conn[s] = "none" /\ conn'[s] = "up"
  <2>1. SUFFICES ASSUME Where(w)' \in {"accOpen", "conOpen"}
                 PROVE  conn[s] = "none" /\ conn'[s] = "up"
    OBVIOUS
  <2>2. o \in {"accept", "connect"} /\ conn' = [conn EXCEPT ![s] = "up"]
    BY <1>2, <2>1 DEF Where, Within
  <2>3. Pending(s, o)
    BY <1>3, <2>2, PostedIsPending
  <2>. QED  BY <1>1, <2>2, <2>3 DEF Pending, TypeOK
<1>6. ASSUME NEW x \in Sockets PROVE Does(w, x)
  <2>1. CASE x = s
    <3>1. Completes(w, s)
      BY <1>1, <1>2, <1>3, <1>4, <1>5 DEF Completes
    <3>. QED  BY <1>1, <2>1, <3>1 DEF Does
  <2>2. CASE x # s
    <3>1. SameOps(x)
      BY <1>3, <2>2 DEF SameOps, Ops
    <3>. QED  BY <1>1, <1>2, <2>2, <3>1, Leaving DEF At, Where, Within
  <2>. QED  BY <2>1, <2>2
<1>. QED  BY <1>2, <1>6 DEF DoesOne

LEMMA HandlerDoes ==
  ASSUME IInv, NEW w \in Workers, Handler(w)
  PROVE  DoesOne(w)
<1>. USE DEF At
<1>1. w \in Threads /\ TypeOK /\ (th[w].at \notin {"idle", "reAccept"} => th[w].on \in Sockets)
  BY DEF Threads, IInv, ThreadOK
<1>. SUFFICES ASSUME NEW x \in Sockets PROVE OnlyMoves(w) /\ Does(w, x)
  <2>1. Sockets = {} => OnlyMoves(w)
    BY <1>1 DEF Handler, HandAcceptOpen, AcceptCallbackReturns, HandAcceptRecv,
       HandAcceptRecvFails, HandAcceptDel, HandConnectOpen, ConnectCallbackReturns,
       HandConnectRecv, HandConnectRecvFails, HandConnectDel, HandRecvAgain,
       HandRecvPostFails, HandRecvOverflow, HandDisconnect
  <2>. QED  BY <2>1 DEF DoesOne
<1>2. CASE HandAcceptDel(w) \/ HandConnectDel(w) \/ HandDisconnect(w)
  <2>1. /\ th[w].at \in {"accDel", "conDel", "inDisc"} /\ DelSocket(th[w].on)
        /\ UNCHANGED posted /\ (Become(w, Idle) \/ Become(w, Again))
    BY <1>2 DEF HandAcceptDel, HandConnectDel, HandDisconnect
  <2>. QED  BY <1>1, <2>1, NoneOn, DelDoes
<1>3. CASE ConnectCallbackReturns(w) /\ bWait[th[w].on]
  <2>1. /\ th[w].at = "inConnect" /\ Become(w, Idle) /\ UNCHANGED <<posted, used, bWait>>
    BY <1>3 DEF ConnectCallbackReturns
  <2>2. SameOps(x) /\ th'[w].on # x /\ OnlyMoves(w) /\ Where(w) = "inConnect"
    BY <1>1, <2>1, NoneOn DEF SameOps, Where, Within
  <2>. QED  BY <1>1, <2>1, <2>2, Leaving
<1>4. CASE \/ HandAcceptOpen(w) \/ AcceptCallbackReturns(w) \/ HandConnectOpen(w)
           \/ ConnectCallbackReturns(w) /\ ~ bWait[th[w].on]
  <2>1. /\ th'[w].on = th[w].on /\ OnlyMoves(w) /\ SameOps(x) /\ UNCHANGED <<used, bWait>>
        /\ \/ th[w].at = "accOpen" /\ th'[w].at = "inAccept"
           \/ th[w].at = "inAccept" /\ th'[w].at = "accRecv"
           \/ th[w].at = "conOpen" /\ th'[w].at = "inConnect"
           \/ th[w].at = "inConnect" /\ th'[w].at = "conRecv" /\ ~ bWait[th[w].on]
    BY <1>1, <1>4, MoveTo DEF HandAcceptOpen, AcceptCallbackReturns, HandConnectOpen,
       ConnectCallbackReturns, SameOps
  <2>2. Where(w) = th[w].at /\ Where(w)' = th'[w].at
    BY <2>1 DEF Where, Within
  <2>. QED  BY <1>1, <2>1, <2>2, Going DEF RecvPlaces, Opens
<1>5. CASE \/ HandAcceptRecvFails(w) \/ HandConnectRecvFails(w) \/ HandRecvPostFails(w)
           \/ HandRecvOverflow(w)
  <2>1. /\ th'[w].on = th[w].on /\ OnlyMoves(w) /\ SameOps(x) /\ UNCHANGED <<used, bWait>>
        /\ th[w].at \in {"accRecv", "conRecv", "inRecv"}
        /\ th'[w].at = "error" /\ th'[w].back \in {"reAccept", "idle"}
    BY <1>1, <1>5, MoveToError DEF HandAcceptRecvFails, HandConnectRecvFails, HandRecvPostFails,
       HandRecvOverflow, SameOps
  <2>2. Where(w) = th[w].at /\ Where(w)' \in {"reAccept", "idle"}
    BY <2>1 DEF Where, Within
  <2>. QED  BY <1>1, <2>1, <2>2, Going DEF RecvPlaces, Opens
<1>6. CASE HandAcceptRecv(w) \/ HandConnectRecv(w) \/ HandRecvAgain(w)
  <2>1. /\ Become(w, Idle) \/ Become(w, Again)
        /\ Post(th[w].on, "recv") /\ th[w].at \in {"accRecv", "conRecv", "inRecv"}
        /\ UNCHANGED <<used, bWait>>
    BY <1>6 DEF HandAcceptRecv, HandConnectRecv, HandRecvAgain, PostRecvOk
  <2>2. th'[w].on \notin Sockets /\ OnlyMoves(w)
    BY <1>1, <2>1, NoneOn
  <2>. QED  BY <1>1, <2>1, <2>2, PostsRecv
<1>. QED  BY <1>2, <1>3, <1>4, <1>5, <1>6 DEF Handler

LEMMA OffersDoes ==
  ASSUME IInv, NEW t \in Threads, th[t].at \in {"postAccept", "postConnect"}, UNCHANGED <<used, bWait>>,
         \/ Post(th[t].on, "accept") /\ th'[t].on \notin Sockets
         \/ /\ Post(th[t].on, "connect") /\ th[t].at = "postConnect"
            /\ \/ th'[t].on \notin Sockets
               \/ bWait[th[t].on] /\ th'[t].at = "waitConn" /\ th'[t].on = th[t].on,
         NEW x \in Sockets
  PROVE  Does(t, x)
<1>1. th[t].on \in Sockets /\ TypeOK
  BY DEF IInv, ThreadOK
<1>2. PICK o \in {"accept", "connect"} :
        /\ Post(th[t].on, o)
        /\ o = "accept" => th'[t].on \notin Sockets
        /\ o = "connect" => /\ th[t].at = "postConnect"
                            /\ \/ th'[t].on \notin Sockets
                               \/ bWait[th[t].on] /\ th'[t].at = "waitConn" /\ th'[t].on = th[t].on
  OBVIOUS
<1>3. /\ posted'[th[t].on][o] = posted[th[t].on][o] + 1
      /\ \A y \in Sockets, p \in Ops : y # th[t].on \/ p # o => posted'[y][p] = posted[y][p]
  BY <1>1, <1>2, PostFacts DEF Ops
<1>4. CASE x = th[t].on
  <2>1. Begins(t, x) /\ ~ Begins(t, x)' /\ ~ Takes(t, x)'
    BY <1>1, <1>2, <1>4 DEF Begins, Takes, Where, Within, RecvPlaces
  <2>2. th'[t].on = x => WaitsOn(t, x)' /\ bWait[x] /\ o = "connect"
    BY <1>1, <1>2, <1>4 DEF WaitsOn
  <2>3. Offers(t, x)
    BY <1>2, <1>3, <1>4, <2>1, <2>2 DEF Offers, Ops
  <2>. QED  BY <2>3 DEF Does
<1>5. CASE x # th[t].on
  <2>1. SameOps(x) /\ th'[t].on # x
    BY <1>2, <1>3, <1>5 DEF SameOps, Ops
  <2>. QED  BY <1>5, <2>1, Leaving DEF At
<1>. QED  BY <1>4, <1>5

LEMMA CallDoes ==
  ASSUME IInv, NEW c \in Callers, Call(c)
  PROVE  DoesOne(c)
<1>. USE DEF At
<1>1. c \in Threads /\ TypeOK /\ (th[c].at \notin {"idle", "reAccept"} => th[c].on \in Sockets)
  BY DEF Threads, IInv, ThreadOK
<1>2. OnlyMoves(c)
  BY <1>1, MoveTo, MoveToError, MoveAnew DEF Call, PostConnect, PostConnectFails, WaitConnect,
     WaitRecv, WaitRecvFails, WaitEnd
<1>. SUFFICES ASSUME NEW x \in Sockets PROVE Does(c, x)
  BY <1>2 DEF DoesOne
<1>3. CASE PostConnectFails(c)
  BY <1>1, <1>3, NoneOn, DelDoes DEF PostConnectFails
<1>4. CASE WaitEnd(c)
  <2>1. SameOps(x) /\ th'[c].on # x /\ UNCHANGED <<used, bWait>> /\ th[c].at = "waitEnd"
    BY <1>1, <1>4, NoneOn DEF WaitEnd, SameOps
  <2>. QED  BY <1>1, <2>1, Leaving DEF Where, Within
<1>5. CASE PostConnect(c)
  <2>1. /\ th[c].at = "postConnect" /\ Post(th[c].on, "connect") /\ UNCHANGED <<used, bWait>>
        /\ \/ th'[c].on \notin Sockets
           \/ bWait[th[c].on] /\ th'[c].at = "waitConn" /\ th'[c].on = th[c].on
    BY <1>1, <1>5, NoneOn, MoveTo DEF PostConnect
  <2>. QED  BY <1>1, <2>1, OffersDoes
<1>6. CASE WaitConnect(c)
  <2>1. /\ th[c].at = "waitConn" /\ Quiet(th[c].on) /\ UNCHANGED <<posted, used, bWait>>
        /\ th'[c].at = "waitRecv" /\ th'[c].on = th[c].on
    BY <1>1, <1>6, MoveTo DEF WaitConnect
  <2>2. SameOps(x)
    BY <2>1 DEF SameOps
  <2>3. CASE x = th[c].on
    BY <2>1, <2>2, <2>3 DEF Does, Resumes, WaitsOn
  <2>4. CASE x # th[c].on
    BY <2>1, <2>2, <2>4 DEF Does, Drifts, WaitsOn, Begins, Asks, Takes
  <2>. QED  BY <2>3, <2>4
<1>7. CASE WaitRecv(c)
  <2>1. /\ th[c].at = "waitRecv" /\ Post(th[c].on, "recv") /\ UNCHANGED <<used, bWait>>
        /\ Become(c, Idle)
    BY <1>7 DEF WaitRecv, PostRecvOk
  <2>. QED  BY <1>1, <2>1, NoneOn, PostsRecv
<1>8. CASE WaitRecvFails(c)
  <2>1. /\ th'[c].on = th[c].on /\ SameOps(x) /\ UNCHANGED <<used, bWait>>
        /\ th[c].at = "waitRecv" /\ th'[c].at = "error" /\ th'[c].back = "waitEnd"
    BY <1>1, <1>8, MoveToError DEF WaitRecvFails, SameOps
  <2>2. Where(c) = "waitRecv" /\ Where(c)' = "waitEnd"
    BY <2>1 DEF Where, Within
  <2>. QED  BY <1>1, <2>1, <2>2, Going DEF RecvPlaces, Opens
<1>. QED  BY <1>3, <1>4, <1>5, <1>6, <1>7, <1>8 DEF Call

\* handError and reqDisconnect go on, or return to where they were called.
LEMMA GoingBack ==
  ASSUME IInv, NEW t \in Threads, th[t].at \in Within, UNCHANGED <<used, bWait>>,
         Return(t) \/ Goto(t, "postDisc") \/ Goto(t, "waitDisc"),
         NEW x \in Sockets, SameOps(x)
  PROVE  OnlyMoves(t) /\ Does(t, x)
<1>1. TypeOK /\ ThreadOK(t)
  BY DEF IInv
<1>2. CASE Return(t) /\ th[t].back = "idle"
  <2>1. th'[t].on # x /\ OnlyMoves(t)
    BY <1>1, <1>2, MoveBack, NoneAssumption DEF Idle
  <2>2. Where(t) = "idle" /\ ~ At(t, "waitConn")
    BY <1>2 DEF Where, Within, At
  <2>. QED  BY <2>1, <2>2, Leaving
<1>3. CASE ~ (Return(t) /\ th[t].back = "idle")
  <2>1. /\ th'[t].on = th[t].on /\ OnlyMoves(t)
        /\ \/ th'[t].at = th[t].back
           \/ th'[t].at \in {"postDisc", "waitDisc"} /\ th'[t].back = th[t].back
    BY <1>1, <1>3, MoveBack, MoveTo
  <2>2. th[t].back \notin Within \cup {"postAccept", "postConnect", "waitConn", "waitRecv"}
    BY <1>1 DEF ThreadOK, Within
  <2>3. Where(t)' = Where(t) /\ ~ At(t, "waitConn")
        /\ th'[t].at \notin {"postAccept", "postConnect", "waitConn", "waitRecv"}
    BY <2>1, <2>2 DEF Where, At, Within
  <2>. QED  BY <2>1, <2>3, Going
<1>. QED  BY <1>2, <1>3

LEMMA SharedDoes ==
  ASSUME IInv, NEW t \in Threads, Shared(t)
  PROVE  DoesOne(t)
<1>. USE DEF At
<1>1. TypeOK /\ (th[t].at \notin {"idle", "reAccept"} => th[t].on \in Sockets)
  BY DEF IInv, ThreadOK
<1>2. OnlyMoves(t)
  BY <1>1, MoveTo, MoveAnew, MoveBack DEF Shared, PostAccept, PostAcceptFails, HandError,
     PostDisconnect, PostDisconnectFails, WaitDisconnect
<1>. SUFFICES ASSUME NEW x \in Sockets PROVE Does(t, x)
  BY <1>2 DEF DoesOne
<1>3. CASE PostAcceptFails(t)
  BY <1>1, <1>3, NoneOn, DelDoes DEF PostAcceptFails
<1>4. CASE PostAccept(t)
  <2>1. /\ th[t].at = "postAccept" /\ Post(th[t].on, "accept") /\ UNCHANGED <<used, bWait>>
        /\ th'[t].on \notin Sockets
    BY <1>1, <1>4, NoneOn DEF PostAccept
  <2>. QED  BY <2>1, OffersDoes
<1>5. CASE HandError(t) \/ PostDisconnect(t) \/ PostDisconnectFails(t) \/ WaitDisconnect(t)
  <2>1. /\ th[t].at \in Within /\ UNCHANGED <<used, bWait>>
        /\ Return(t) \/ Goto(t, "postDisc") \/ Goto(t, "waitDisc")
    BY <1>5 DEF HandError, PostDisconnect, PostDisconnectFails, WaitDisconnect, Within
  <2>2. SameOps(x)
    <3>1. CASE PostDisconnect(t)
      <4>1. th[t].on \in Sockets /\ Post(th[t].on, "disc")
        BY <3>1 DEF PostDisconnect, IInv, ThreadOK
      <4>. QED  BY <1>1, <4>1, PostFacts DEF SameOps, Ops
    <3>. QED  BY <1>5, <3>1 DEF HandError, PostDisconnectFails, WaitDisconnect, SameOps
  <2>. QED  BY <2>1, <2>2, GoingBack
<1>. QED  BY <1>3, <1>4, <1>5 DEF Shared

LEMMA InCallbackDoes ==
  ASSUME TypeOK, NEW w \in Workers, NEW wait \in BOOLEAN, ReqDisconnectInCallback(w, wait)
  PROVE  DoesOne(w)
<1>1. w \in Threads
  BY DEF Threads
<1>2. /\ th'[w].on = th[w].on /\ OnlyMoves(w) /\ UNCHANGED <<posted, used, bWait>>
      /\ th'[w].at \in {"postDisc", "postDiscWait"} /\ th'[w].back = th[w].at
      /\ th[w].at \in Callbacks
  BY <1>1 DEF ReqDisconnectInCallback, DiscPlace, TypeOK, ThreadState, OnlyMoves
<1>3. /\ Where(w)' = Where(w) /\ ~ At(w, "waitConn")
      /\ th'[w].at \notin {"postAccept", "postConnect", "waitConn", "waitRecv"}
  BY <1>2 DEF Where, Within, Callbacks, At
<1>4. ASSUME NEW x \in Sockets PROVE Does(w, x)
  <2>1. SameOps(x)
    BY <1>2 DEF SameOps
  <2>. QED  BY <1>1, <1>2, <1>3, <2>1, Going
<1>. QED  BY <1>2, <1>4 DEF DoesOne

\* newCompleteKeySocket gives a socket nobody uses.
LEMMA TakenUnused ==
  ASSUME IInv, NEW k \in Kinds, NEW s \in Sockets, NewSocket(k, s)
  PROVE  s \notin used
<1>1. CASE FrontRipe(k) /\ s = Head(pool[k])
  <2>1. pool[k] \in Seq(Sockets) /\ pool[k] # <<>>
    BY <1>1 DEF FrontRipe, IInv, TypeOK
  <2>2. 1 \in 1..Len(pool[k]) /\ pool[k][1] = s
    BY <1>1, <2>1
  <2>. QED  BY <2>2, PooledIsFree DEF Pooled, Free
<1>2. CASE Fresh(s)
  BY <1>2 DEF Fresh
<1>. QED  BY <1>1, <1>2 DEF NewSocket

LEMMA TakesDoes ==
  ASSUME IInv, NEW t \in Threads, NEW k \in Kinds, NEW s \in Sockets, NewSocket(k, s),
         UNCHANGED posted, th[t].at \in {"idle", "reAccept"},
         th'[t].on = s, th'[t].at \in {"postAccept", "postConnect"},
         \A y \in Sockets \ {s} : bWait'[y] = bWait[y], NEW x \in Sockets
  PROVE  Does(t, x)
<1>1. s \notin used /\ used' = used \cup {s} /\ SameOps(x)
  BY TakenUnused DEF NewSocket, SameOps
<1>2. CASE x = s
  BY <1>1, <1>2 DEF Does, Acquires, Begins
<1>3. CASE x # s
  <2>1. Where(t) # "conDel" /\ ~ At(t, "waitConn")
    BY DEF Where, Within, At
  <2>. QED  BY <1>1, <1>3, <2>1, Leaving
<1>. QED  BY <1>2, <1>3

LEMMA AcceptingDoes ==
  ASSUME IInv, NEW t \in Threads, Accepting(t)
  PROVE  DoesOne(t)
<1>1. TypeOK
  BY DEF IInv
<1>2. CASE ReqAcceptNoSocket(t)
  <2>1. Become(t, Idle) /\ UNCHANGED <<used, posted, bWait>> /\ th[t].at \in {"idle", "reAccept"}
    BY <1>2 DEF ReqAcceptNoSocket, MayAccept, At
  <2>2. th'[t].on \notin Sockets /\ OnlyMoves(t)
    BY <1>1, <2>1, NoneOn
  <2>3. Where(t) # "conDel" /\ ~ At(t, "waitConn")
    BY <2>1 DEF Where, Within, At
  <2>4. ASSUME NEW x \in Sockets PROVE Does(t, x)
    <3>1. SameOps(x) /\ th'[t].on # x
      BY <2>1, <2>2 DEF SameOps
    <3>. QED  BY <2>1, <2>3, <3>1, Leaving
  <2>. QED  BY <2>2, <2>4 DEF DoesOne
<1>3. ASSUME NEW s \in Sockets, ReqAccept(t, s) PROVE DoesOne(t)
  <2>1. /\ "ACCEPT" \in Kinds /\ NewSocket("ACCEPT", s) /\ UNCHANGED <<posted, bWait>>
        /\ th[t].at \in {"idle", "reAccept"}
        /\ th'[t].on = s /\ th'[t].at = "postAccept" /\ OnlyMoves(t)
    BY <1>1, <1>3 DEF ReqAccept, MayAccept, At, TypeOK, ThreadState, OnlyMoves, Kinds
  <2>. QED  BY <2>1, TakesDoes DEF DoesOne
<1>. QED  BY <1>2, <1>3 DEF Accepting

LEMMA RequestDoes ==
  ASSUME IInv, NEW c \in Callers, NEW s \in Sockets, Request(c, s)
  PROVE  UNCHANGED <<th, posted, used, bWait>> \/ DoesOne(c)
<1>1. c \in Threads /\ TypeOK
  BY DEF Threads, IInv
<1>2. CASE PrepareCkSocket(c, s)
  BY <1>2 DEF PrepareCkSocket
<1>3. ASSUME NEW wait \in BOOLEAN, ReqConnect(c, s, wait) PROVE DoesOne(c)
  <2>1. /\ "CONNECT" \in Kinds /\ NewSocket("CONNECT", s) /\ UNCHANGED posted
        /\ th[c].at = "idle" /\ bWait' = [bWait EXCEPT ![s] = wait]
        /\ th'[c] = [Idle EXCEPT !.at = "postConnect", !.on = s] /\ OnlyMoves(c)
    BY <1>1, <1>3, MoveAnew DEF ReqConnect, Kinds, At
  <2>2. th'[c].on = s /\ th'[c].at = "postConnect"
    BY <2>1 DEF Idle
  <2>3. \A y \in Sockets \ {s} : bWait'[y] = bWait[y]
    BY <1>1, <2>1 DEF TypeOK
  <2>. QED  BY <1>1, <2>1, <2>2, <2>3, TakesDoes DEF DoesOne
<1>4. ASSUME NEW wait \in BOOLEAN, ReqDisconnect(c, s, wait) PROVE DoesOne(c)
  <2>1. /\ UNCHANGED <<posted, used, bWait>> /\ th[c].at = "idle"
        /\ th'[c] = [Idle EXCEPT !.at = DiscPlace(wait), !.on = s] /\ OnlyMoves(c)
    BY <1>1, <1>4, MoveAnew DEF ReqDisconnect, At
  <2>2. /\ th'[c].on = s /\ th'[c].back = "idle"
        /\ th'[c].at \in {"postDisc", "postDiscWait"}
    BY <2>1 DEF Idle, DiscPlace
  <2>3. /\ Where(c)' = "idle" /\ Where(c) = "idle" /\ ~ At(c, "waitConn")
    BY <2>1, <2>2 DEF Where, Within, At
  <2>4. ASSUME NEW x \in Sockets PROVE Does(c, x)
    <3>1. SameOps(x) /\ ~ WaitsOn(c, x)
      BY <2>1, <2>3 DEF SameOps, WaitsOn, At
    <3>2. ~ Begins(c, x)' /\ ~ WaitsOn(c, x)' /\ ~ Asks(c, x)' /\ ~ Takes(c, x)'
      BY <2>2, <2>3 DEF Begins, WaitsOn, Asks, Takes, RecvPlaces
    <3>. QED  BY <2>1, <2>3, <3>1, <3>2 DEF Does, Drifts
  <2>. QED  BY <2>1, <2>4 DEF DoesOne
<1>. QED  BY <1>2, <1>3, <1>4 DEF Request

LEMMA StepDoes ==
  ASSUME IInv, Next
  PROVE  UNCHANGED <<th, posted, used, bWait>> \/ \E t \in Threads : DoesOne(t)
<1>1. TypeOK /\ Workers \subseteq Threads /\ Callers \subseteq Threads
  BY DEF IInv, Threads
<1>2. CASE \E s \in Sockets : TimeWaitOver(s)
  BY <1>2 DEF TimeWaitOver
<1>. QED  BY <1>1, <1>2, CompletionDoes, HandlerDoes, CallDoes, SharedDoes, AcceptingDoes,
             RequestDoes, InCallbackDoes DEF Next

-----------------------------------------------------------------------------
(* The receive of a socket that was init()ed in time is one                 *)

\* One receive is pending, or one thread has it.
OneTaker(s) ==
  /\ posted[s]["recv"] <= 1
  /\ \A t \in Threads : Takes(t, s) => posted[s]["recv"] = 0
  /\ \A t, u \in Threads : Takes(t, s) /\ Takes(u, s) => t = u

\* Nobody has to do with a socket that is free or being opened.
Deserted(s) ==
  /\ s \notin used => posted[s]["recv"] = 0 /\ \A t \in Threads : ~ Engaged(t, s)
  /\ \A t \in Threads : Begins(t, s) =>
       posted[s]["recv"] = 0 /\ \A u \in Threads : Engaged(u, s) => u = t
  /\ posted[s]["accept"] > 0 => \A t \in Threads : ~ Engaged(t, s)
  /\ posted[s]["connect"] > 0 => \A t \in Threads : Engaged(t, s) => WaitsOn(t, s)

\* One call asked for the connection, and none where it was accepted.
OneAsker(s) ==
  /\ \A t, u \in Threads : Asks(t, s) /\ Asks(u, s) => t = u
  /\ \A t, u \in Threads : Asks(t, s) /\ Takes(u, s) => Where(u) \notin Opens

Token(s) == OneTaker(s) /\ Deserted(s) /\ OneAsker(s)

FreeAlone(s) ==
  s \notin used => posted[s]["recv"] = 0 /\ \A t \in Threads : ~ Engaged(t, s)

LEMMA OthersStay ==
  ASSUME NEW t \in Threads, OnlyMoves(t), NEW s \in Sockets, NEW u \in Threads, u # t
  PROVE  /\ Takes(u, s)' <=> Takes(u, s)
         /\ Begins(u, s)' <=> Begins(u, s)
         /\ WaitsOn(u, s)' <=> WaitsOn(u, s)
         /\ Engaged(u, s)' <=> Engaged(u, s)
         /\ Asks(u, s)' <=> Asks(u, s)
         /\ Where(u)' = Where(u)
BY DEF OnlyMoves, Takes, Begins, WaitsOn, Engaged, Asks, Where

LEMMA PlacesApart ==
  ASSUME NEW t \in Threads, NEW s \in Sockets
  PROVE  /\ WaitsOn(t, s) => ~ Takes(t, s) /\ ~ Begins(t, s) /\ Asks(t, s)
         /\ Begins(t, s) => ~ Takes(t, s)
         /\ Asks(t, s) => Engaged(t, s)
BY DEF WaitsOn, Takes, Begins, Asks, Engaged, Where, Within, RecvPlaces

\* What IInv says of a socket being opened
LEMMA OpeningFacts ==
  ASSUME IInv, NEW s \in Sockets
  PROVE  /\ \A o \in Ops : posted[s][o] \in Nat
         /\ posted[s]["accept"] > 0 => posted[s]["accept"] = 1 /\ posted[s]["connect"] = 0
                                       /\ posted[s]["recv"] = 0 /\ s \in used
         /\ posted[s]["connect"] > 0 => posted[s]["connect"] = 1 /\ posted[s]["accept"] = 0
                                        /\ posted[s]["recv"] = 0 /\ s \in used
         /\ s \notin used => posted[s]["accept"] = 0 /\ posted[s]["connect"] = 0
<1>1. \A o \in Ops : posted[s][o] \in Nat
  BY DEF IInv, TypeOK
<1>2. \A o \in {"accept", "connect"} : posted[s][o] > 0 => Pending(s, o)
  BY PostedIsPending
<1>3. s \notin used => Free(s)
  BY UnusedIsFree
<1>. QED  BY <1>1, <1>2, <1>3 DEF Pending, Free, NoOp

LEMMA TokenDrifts ==
  ASSUME NEW t \in Threads, OnlyMoves(t), NEW s \in Sockets, Token(s), Drifts(t, s), FreeAlone(s)'
  PROVE  Token(s)'
<1>1. /\ Takes(t, s)' => Takes(t, s) /\ (Where(t)' \in Opens => Where(t) \in Opens)
      /\ ~ Begins(t, s)' /\ ~ WaitsOn(t, s)' /\ ~ Asks(t, s)' /\ ~ WaitsOn(t, s)
      /\ Engaged(t, s)' => Takes(t, s)'
  BY DEF Drifts, Engaged
<1>2. /\ posted'[s]["recv"] = posted[s]["recv"] /\ posted'[s]["accept"] = posted[s]["accept"]
      /\ posted'[s]["connect"] = posted[s]["connect"]
  BY DEF Drifts, SameOps
<1>3. OneTaker(s)'
  BY <1>1, <1>2, OthersStay DEF Token, OneTaker
<1>4. Deserted(s)'
  BY <1>1, <1>2, OthersStay DEF Token, Deserted, FreeAlone, Engaged
<1>5. OneAsker(s)'
  BY <1>1, OthersStay DEF Token, OneAsker
<1>. QED  BY <1>3, <1>4, <1>5 DEF Token

LEMMA TokenPosts ==
  ASSUME NEW t \in Threads, OnlyMoves(t), NEW s \in Sockets, Token(s), Posts(t, s), FreeAlone(s)',
         posted[s]["recv"] \in Nat
  PROVE  Token(s)'
<1>1. /\ ~ Takes(t, s)' /\ ~ Begins(t, s)' /\ ~ WaitsOn(t, s)' /\ ~ Asks(t, s)'
      /\ ~ Engaged(t, s)' /\ Takes(t, s)
  BY DEF Posts, Takes, Begins, WaitsOn, Asks, Engaged
<1>2. /\ posted'[s]["recv"] = posted[s]["recv"] + 1 /\ posted'[s]["accept"] = posted[s]["accept"]
      /\ posted'[s]["connect"] = posted[s]["connect"]
  BY DEF Posts
<1>3. OneTaker(s)'
  BY <1>1, <1>2, OthersStay DEF Token, OneTaker
<1>4. Deserted(s)'
  BY <1>1, <1>2, OthersStay DEF Token, Deserted, FreeAlone, Engaged
<1>5. OneAsker(s)'
  BY <1>1, OthersStay DEF Token, OneAsker
<1>. QED  BY <1>3, <1>4, <1>5 DEF Token

LEMMA TokenCompletes ==
  ASSUME IInv, NEW t \in Threads, OnlyMoves(t), NEW s \in Sockets, Token(s), Completes(t, s),
         FreeAlone(s)'
  PROVE  Token(s)'
<1>. USE OpeningFacts
<1>1. /\ ~ Takes(t, s) /\ ~ Begins(t, s) /\ ~ WaitsOn(t, s) /\ ~ Asks(t, s) /\ ~ Engaged(t, s)
  BY DEF Completes, At, Takes, Begins, WaitsOn, Asks, Engaged, Where, Within, RecvPlaces
<1>2. /\ ~ Begins(t, s)' /\ ~ WaitsOn(t, s)' /\ ~ Asks(t, s)'
      /\ Engaged(t, s)' => Takes(t, s)'
  BY DEF Completes, Begins, WaitsOn, Asks, Engaged
<1>3. PICK o \in Ops :
       /\ posted[s][o] > 0 /\ posted'[s][o] = posted[s][o] - 1
       /\ \A p \in Ops \ {o} : posted'[s][p] = posted[s][p]
       /\ o = "accept"  => Where(t)' \in {"accOpen", "accDel"}
       /\ o = "connect" => Where(t)' \in {"conOpen", "conDel"}
       /\ o = "recv"    => Where(t)' \in {"inRecv", "idle"}
       /\ o = "disc"    => Where(t)' = "inDisc"
  BY DEF Completes
<1>4. CASE o = "accept"
  <2>1. \A u \in Threads : ~ Engaged(u, s)
    BY <1>3, <1>4 DEF Token, Deserted
  <2>2. posted'[s]["recv"] = 0 /\ posted'[s]["accept"] = 0 /\ posted'[s]["connect"] = 0
    BY <1>3, <1>4 DEF Ops
  <2>. QED  BY <1>2, <2>1, <2>2, OthersStay, PlacesApart
            DEF Token, OneTaker, Deserted, OneAsker, FreeAlone, Engaged
<1>5. CASE o = "connect"
  <2>1. \A u \in Threads : Engaged(u, s) => WaitsOn(u, s)
    BY <1>3, <1>5 DEF Token, Deserted
  <2>2. posted'[s]["recv"] = 0 /\ posted'[s]["accept"] = 0 /\ posted'[s]["connect"] = 0
    BY <1>3, <1>5 DEF Ops
  <2>3. \A u \in Threads : u # t => ~ Takes(u, s)' /\ ~ Begins(u, s)'
    BY <2>1, OthersStay, PlacesApart DEF Engaged
  <2>4. Where(t)' \notin Opens
    BY <1>3, <1>5 DEF Opens
  <2>5. OneTaker(s)'
    BY <2>2, <2>3 DEF OneTaker
  <2>6. Deserted(s)'
    BY <1>2, <2>2, <2>3 DEF Deserted, FreeAlone
  <2>7. OneAsker(s)'
    BY <1>2, <2>3, <2>4, OthersStay DEF OneAsker, Token
  <2>. QED  BY <2>5, <2>6, <2>7 DEF Token
<1>6. CASE o = "recv"
  <2>1. posted'[s]["accept"] = 0 /\ posted'[s]["connect"] = 0 /\ posted'[s]["recv"] = 0
    BY <1>3, <1>6 DEF Token, OneTaker, Ops
  <2>2. \A u \in Threads : ~ Takes(u, s) /\ ~ Begins(u, s)
    BY <1>3, <1>6 DEF Token, OneTaker, Deserted
  <2>3. Where(t)' \notin Opens
    BY <1>3, <1>6 DEF Opens
  <2>4. OneTaker(s)'
    BY <2>1, <2>2, OthersStay DEF OneTaker
  <2>5. Deserted(s)'
    BY <1>2, <2>1, <2>2, OthersStay DEF Deserted, FreeAlone
  <2>6. OneAsker(s)'
    BY <1>2, <2>2, <2>3, OthersStay DEF OneAsker, Token
  <2>. QED  BY <2>4, <2>5, <2>6 DEF Token
<1>7. CASE o = "disc"
  <2>1. /\ posted'[s]["recv"] = posted[s]["recv"] /\ posted'[s]["accept"] = posted[s]["accept"]
        /\ posted'[s]["connect"] = posted[s]["connect"]
    BY <1>3, <1>7 DEF Ops
  <2>2. ~ Takes(t, s)' /\ ~ Engaged(t, s)'
    BY <1>2, <1>3, <1>7 DEF Takes, RecvPlaces
  <2>3. OneTaker(s)'
    BY <2>1, <2>2, OthersStay DEF OneTaker, Token
  <2>4. Deserted(s)'
    BY <1>2, <2>1, <2>2, OthersStay DEF Deserted, FreeAlone, Token
  <2>5. OneAsker(s)'
    BY <1>2, <2>2, OthersStay DEF OneAsker, Token
  <2>. QED  BY <2>3, <2>4, <2>5 DEF Token
<1>. QED  BY <1>3, <1>4, <1>5, <1>6, <1>7 DEF Ops

LEMMA TokenAcquires ==
  ASSUME IInv, NEW t \in Threads, OnlyMoves(t), NEW s \in Sockets, Token(s), Acquires(t, s)
  PROVE  Token(s)'
<1>1. posted'[s]["recv"] = 0 /\ posted'[s]["accept"] = 0 /\ posted'[s]["connect"] = 0
  BY OpeningFacts DEF Acquires, SameOps, Token, Deserted
<1>2. \A u \in Threads : u # t => ~ Engaged(u, s)' /\ ~ Takes(u, s)' /\ ~ Asks(u, s)'
  BY OthersStay, PlacesApart DEF Acquires, Token, Deserted, Engaged
<1>3. Begins(t, s)' /\ ~ Takes(t, s)' /\ s \in used'
  BY DEF Acquires, Begins, Takes, Where, Within, RecvPlaces
<1>4. OneTaker(s)'
  BY <1>1, <1>2, <1>3 DEF OneTaker
<1>5. Deserted(s)'
  BY <1>1, <1>2, <1>3 DEF Deserted, Engaged
<1>6. OneAsker(s)'
  BY <1>2, <1>3 DEF OneAsker
<1>. QED  BY <1>4, <1>5, <1>6 DEF Token

LEMMA TokenOffers ==
  ASSUME IInv, NEW t \in Threads, OnlyMoves(t), NEW s \in Sockets, Token(s), Offers(t, s),
         FreeAlone(s)'
  PROVE  Token(s)'
<1>1. posted[s]["recv"] = 0 /\ posted[s]["accept"] = 0 /\ posted[s]["connect"] = 0
  BY BeginsMine DEF Offers, NoOp, Token, Deserted
<1>2. \A u \in Threads : u # t => ~ Engaged(u, s)' /\ ~ Takes(u, s)' /\ ~ Asks(u, s)' /\ ~ Begins(u, s)'
  BY OthersStay, PlacesApart DEF Offers, Token, Deserted, Engaged
<1>3. ~ Begins(t, s)' /\ ~ Takes(t, s)' /\ (Engaged(t, s)' => WaitsOn(t, s)')
  BY DEF Offers, Engaged
<1>4. OneTaker(s)'
  BY <1>1, <1>2, <1>3 DEF OneTaker, Offers
<1>5. posted'[s]["accept"] > 0 => ~ Engaged(t, s)'
  BY <1>1, <1>3 DEF Offers, WaitsOn
<1>6. Deserted(s)'
  BY <1>2, <1>3, <1>5 DEF Deserted, FreeAlone
<1>7. OneAsker(s)'
  BY <1>2, <1>3 DEF OneAsker
<1>. QED  BY <1>4, <1>6, <1>7 DEF Token

\* Nobody but the waiter is to have the receive once its wait is over.
LEMMA AloneWhenResumed ==
  ASSUME IInv, JobsOK, NEW t \in Threads, NEW s \in Sockets, Token(s), Resumes(t, s),
         NEW u \in Threads
  PROVE  ~ Takes(u, s)
<1>. SUFFICES ASSUME Takes(u, s) PROVE FALSE
  OBVIOUS
<1>1. Asks(t, s) /\ th[t].at = "waitConn"
  BY DEF Resumes, WaitsOn, Asks
<1>2. CASE Where(u) \in Opens
  BY <1>1, <1>2 DEF Token, OneAsker
<1>3. CASE Where(u) \in {"conOpen", "inConnect", "conRecv", "inRecv"}
  <2>1. u \in Workers /\ th[u].job \in {"connect", "recv"} /\ th[u].on = s
    BY <1>3 DEF JobsOK, JobOK, Takes
  <2>. QED  BY <2>1 DEF Resumes, Quiet
<1>4. CASE Where(u) = "waitRecv"
  <2>1. th[u].at = "waitRecv"
    BY <1>4 DEF IInv, ThreadOK, Where, Within
  <2>2. Asks(u, s)
    BY <2>1 DEF Asks, Takes
  <2>. QED  BY <1>1, <2>1, <2>2 DEF Token, OneAsker
<1>. QED  BY <1>2, <1>3, <1>4 DEF Takes, RecvPlaces, Opens

LEMMA TokenResumes ==
  ASSUME IInv, JobsOK, NEW t \in Threads, OnlyMoves(t), NEW s \in Sockets, Token(s),
         Resumes(t, s), FreeAlone(s)'
  PROVE  Token(s)'
<1>1. /\ WaitsOn(t, s) /\ Asks(t, s) /\ Engaged(t, s)
  BY DEF Resumes, WaitsOn, Asks, Engaged
<1>2. posted'[s]["recv"] = 0 /\ posted'[s]["accept"] = 0 /\ posted'[s]["connect"] = 0
  BY <1>1, OpeningFacts DEF Resumes, Quiet, SameOps, Token, Deserted, Ops
<1>3. \A u \in Threads : ~ Takes(u, s)
  BY AloneWhenResumed
<1>4. \A u \in Threads : u # t => ~ Begins(u, s)' /\ ~ Takes(u, s)' /\ ~ Asks(u, s)'
  BY <1>1, <1>3, OthersStay, PlacesApart DEF Token, Deserted, OneAsker
<1>5. ~ Begins(t, s)' /\ Where(t)' \notin Opens
  BY DEF Resumes, Begins, Where, Within, Opens
<1>6. OneTaker(s)'
  BY <1>2, <1>4 DEF OneTaker
<1>7. Deserted(s)'
  BY <1>2, <1>4, <1>5 DEF Deserted, FreeAlone
<1>8. OneAsker(s)'
  BY <1>4, <1>5 DEF OneAsker
<1>. QED  BY <1>6, <1>7, <1>8 DEF Token

LEMMA TokenStep ==
  ASSUME IInv, JobsOK, NEW t \in Threads, OnlyMoves(t), NEW s \in Sockets, Does(t, s),
         Token(s), FreeAlone(s)'
  PROVE  Token(s)'
<1>1. posted[s]["recv"] \in Nat
  BY OpeningFacts DEF Ops
<1>. QED  BY <1>1, TokenDrifts, TokenPosts, TokenCompletes, TokenAcquires, TokenOffers, TokenResumes
          DEF Does

-----------------------------------------------------------------------------
(* Steps of CkRecv                                                          *)

\* The steps of RecvNext that leave step and kBuffer alone
Elsewhere ==
  \/ \E w \in Workers, s \in Sockets : Connected(w, s)
  \/ \E w \in Workers : SetFunOnRecv(w)
  \/ \E t \in Threads, s \in Sockets : AcceptAsked(t, s)
  \/ \E t \in Threads : NotOpened(t)
  \/ Other /\ UNCHANGED recvVars

\* The steps of handRecv and init() between two steps of WinIocp
Between(w) ==
  \/ AppendRecv(w) \/ TestFunOnRecv(w) \/ CallFunOnRecv(w) \/ TakeBytes(w)
  \/ FunOnRecvReturns(w) \/ TestListen(w) \/ UseListen(w) \/ InitFunctions(w)

LEMMA RecvSteps ==
  ASSUME RecvNext
  PROVE  \/ Elsewhere
         \/ \E w \in Workers, s \in Sockets : RecvCompletes(w, s)
         \/ \E w \in Workers : RecvOverflow(w) \/ RecvAgain(w) \/ Disconnected(w) \/ Between(w)
BY DEF RecvNext, HandRecv, Elsewhere, Between

LEMMA BetweenStays ==
  ASSUME NEW w \in Workers, Between(w)
  PROVE  UNCHANGED vars
BY DEF Between, AppendRecv, TestFunOnRecv, CallFunOnRecv, TakeBytes, FunOnRecvReturns,
   TestListen, UseListen, InitFunctions

LEMMA RolesKept ==
  ASSUME JobsOK, NEW t \in Threads
  PROVE  /\ t \in Workers \/ t \in Callers
         /\ th[t].at \in AcceptPlaces \cup {"conOpen", "inConnect", "conRecv", "conDel"} =>
              t \in Workers
         /\ th[t].at \in {"postConnect", "waitConn", "waitRecv", "waitEnd"} => t \in Callers
<1>1. th[t].at \notin Within => Where(t) = th[t].at
  BY DEF Where
<1>. QED  BY <1>1 DEF JobsOK, JobOK, AcceptPlaces, Within, Threads

LEMMA ElsewhereIsNext ==
  ASSUME JobsOK, Elsewhere
  PROVE  Next
<1>. USE DEF At
<1>1. Workers \subseteq Threads
  BY DEF Threads
<1>2. CASE \E w \in Workers, s \in Sockets : Connected(w, s)
  BY <1>2 DEF Connected, Next, Completion
<1>3. CASE \E w \in Workers : SetFunOnRecv(w)
  BY <1>3 DEF SetFunOnRecv, Next, Handler
<1>4. CASE \E t \in Threads, s \in Sockets : AcceptAsked(t, s)
  BY <1>4 DEF AcceptAsked, Next, Accepting
<1>5. CASE \E t \in Threads : NotOpened(t)
  <2>1. PICK t \in Threads : NotOpened(t)
    BY <1>5
  <2>2. CASE PostAcceptFails(t)
    BY <2>2 DEF Next, Shared
  <2>3. CASE HandAcceptDel(t) \/ HandConnectDel(t)
    <3>1. t \in Workers
      BY <2>3, RolesKept DEF HandAcceptDel, HandConnectDel, AcceptPlaces
    <3>. QED  BY <2>3, <3>1 DEF Next, Handler
  <2>4. CASE PostConnectFails(t)
    <3>1. t \in Callers
      BY <2>4, RolesKept DEF PostConnectFails
    <3>. QED  BY <2>4, <3>1 DEF Next, Call
  <2>. QED  BY <2>1, <2>2, <2>3, <2>4 DEF NotOpened
<1>6. ASSUME NEW t \in Threads, OtherStep(t) PROVE Next
  <2>1. CASE PostAccept(t) \/ HandError(t) \/ WaitDisconnect(t) \/ PostDisconnect(t)
             \/ PostDisconnectFails(t)
    BY <2>1 DEF Next, Shared
  <2>2. CASE ReqAcceptNoSocket(t)
    BY <2>2 DEF Next, Accepting
  <2>3. CASE \/ HandAcceptOpen(t) \/ HandAcceptRecv(t) \/ HandAcceptRecvFails(t)
             \/ HandConnectOpen(t) \/ HandConnectRecv(t) \/ HandConnectRecvFails(t)
    <3>1. t \in Workers
      BY <2>3, RolesKept DEF HandAcceptOpen, HandAcceptRecv, HandAcceptRecvFails,
         HandConnectOpen, HandConnectRecv, HandConnectRecvFails, AcceptPlaces
    <3>. QED  BY <2>3, <3>1 DEF Next, Handler
  <2>4. CASE PostConnect(t) \/ WaitConnect(t) \/ WaitRecv(t) \/ WaitRecvFails(t) \/ WaitEnd(t)
    <3>1. t \in Callers
      BY <2>4, RolesKept DEF PostConnect, WaitConnect, WaitRecv, WaitRecvFails, WaitEnd
    <3>. QED  BY <2>4, <3>1 DEF Next, Call
  <2>. QED  BY <1>6, <2>1, <2>2, <2>3, <2>4 DEF OtherStep
<1>7. CASE Other
  BY <1>6, <1>7 DEF Other, OtherCompletion, DisconnectInCallback, Next, Completion
<1>. QED  BY <1>2, <1>3, <1>4, <1>5, <1>7 DEF Elsewhere

LEMMA RecvIsNext ==
  ASSUME JobsOK, RecvNext
  PROVE  [Next]_vars
<1>1. ASSUME NEW w \in Workers, NEW s \in Sockets, RecvCompletes(w, s) PROVE Next
  BY <1>1 DEF RecvCompletes, Next, Completion
<1>2. ASSUME NEW w \in Workers, RecvOverflow(w) \/ RecvAgain(w) \/ Disconnected(w) PROVE Next
  BY <1>2 DEF RecvOverflow, RecvAgain, Disconnected, Next, Handler
<1>. QED  BY <1>1, <1>2, RecvSteps, ElsewhereIsNext, BetweenStays

-----------------------------------------------------------------------------
(* Where a worker is, and its step there                                    *)

LinkedTo(w) ==
  /\ step[w] \in {"append", "test", "call", "check", "use", "post", "crash"} => At(w, "inRecv")
  /\ step[w] = "in" => Where(w) = "inRecv"
  /\ step[w] = "reset" => At(w, "inDisc")
  /\ Len(kBuffer[w]) <= MaxChunk

Linked == \A w \in Workers : LinkedTo(w)

\* What the other threads do does not move a worker that is within handRecv.
StepHeld(w) ==
  step[w] # "none" =>
    /\ th'[w].on = th[w].on /\ Where(w)' = Where(w)
    /\ step[w] # "in" => th'[w] = th[w]

LEMMA InStep ==
  ASSUME RecvTypeOK, Linked, NEW w \in Workers, step[w] # "none"
  PROVE  /\ Where(w) \in {"inRecv", "inDisc"}
         /\ \/ th[w].at \in {"inRecv", "inDisc"} /\ (step[w] # "in" \/ At(w, "inRecv"))
            \/ step[w] = "in" /\ th[w].at \in Within /\ th[w].back = "inRecv"
BY DEF RecvTypeOK, Linked, LinkedTo, Steps, Where, At, Within

LEMMA OthersHeld ==
  ASSUME NEW t \in Threads, OnlyMoves(t), NEW w \in Workers, w # t
  PROVE  StepHeld(w)
<1>1. th'[w] = th[w]
  BY DEF OnlyMoves, Threads
<1>. QED  BY <1>1 DEF StepHeld, Where

\* A worker in its step takes none of these steps but a disconnect.
LEMMA MoverHeld ==
  ASSUME TypeOK, RecvTypeOK, Linked, Elsewhere, NEW w \in Workers
  PROVE  StepHeld(w)
<1>. USE DEF At
<1>. SUFFICES ASSUME step[w] # "none" PROVE StepHeld(w)
  BY DEF StepHeld
<1>0. Workers \subseteq Threads /\ Callers \subseteq Threads
  BY DEF Threads
<1>1. /\ th[w].at \in {"inRecv", "inDisc"} \cup Within
      /\ th[w].at \in Within => step[w] = "in" /\ th[w].back = "inRecv"
  BY InStep DEF Within
<1>2. ASSUME NEW v \in Workers, NEW s \in Sockets,
             Connected(v, s) \/ OtherCompletion(v, s)
      PROVE  StepHeld(w)
  <2>1. OnlyMoves(v) /\ th[v].at = "idle"
    BY <1>0, <1>2, MoveAnew DEF Connected, CompleteAccept, CompleteConnect, OtherCompletion,
       CompleteAcceptFails, CompleteConnectFails, CompleteRecvFails, CompleteDisconnect,
     CompleteDisconnectFails, Run
  <2>. QED  BY <1>0, <1>1, <2>1, OthersHeld DEF Within
<1>3. ASSUME NEW v \in Workers, SetFunOnRecv(v) PROVE StepHeld(w)
  <2>1. OnlyMoves(v) /\ th[v].at \in {"inAccept", "inConnect"}
    BY <1>0, <1>3, MoveAnew, MoveTo DEF SetFunOnRecv, AcceptCallbackReturns, ConnectCallbackReturns
  <2>. QED  BY <1>0, <1>1, <2>1, OthersHeld DEF Within
<1>4. ASSUME NEW t \in Threads, NEW s \in Sockets, AcceptAsked(t, s) PROVE StepHeld(w)
  <2>1. OnlyMoves(t) /\ th[t].at \in {"idle", "reAccept"}
    BY <1>4 DEF AcceptAsked, ReqAccept, MayAccept, TypeOK, OnlyMoves
  <2>. QED  BY <1>1, <2>1, OthersHeld DEF Within
<1>5. ASSUME NEW t \in Threads, NotOpened(t) PROVE StepHeld(w)
  <2>1. OnlyMoves(t) /\ th[t].at \in {"postAccept", "accDel", "postConnect", "conDel"}
    BY <1>5, NoneOn DEF NotOpened, PostAcceptFails, HandAcceptDel, PostConnectFails, HandConnectDel
  <2>. QED  BY <1>1, <2>1, OthersHeld DEF Within
<1>6. ASSUME NEW t \in Threads, OtherStep(t) PROVE StepHeld(w)
  <2>1. CASE HandError(t) \/ WaitDisconnect(t) \/ PostDisconnect(t) \/ PostDisconnectFails(t)
    <3>1. /\ th[t].at \in Within /\ OnlyMoves(t)
          /\ Return(t) \/ Goto(t, "postDisc") \/ Goto(t, "waitDisc")
      BY <2>1, MoveBack, MoveTo DEF HandError, WaitDisconnect, PostDisconnect, PostDisconnectFails, Within
    <3>2. CASE t = w
      <4>1. step[w] = "in" /\ th[w].back = "inRecv"
        BY <1>1, <3>1, <3>2 DEF Within
      <4>2. /\ th'[w].on = th[w].on
            /\ th'[w].at = "inRecv" \/ (th'[w].at \in {"postDisc", "waitDisc"} /\ th'[w].back = "inRecv")
        BY <3>1, <3>2, <4>1, MoveBack, MoveTo
      <4>. QED  BY <3>1, <3>2, <4>1, <4>2 DEF StepHeld, Where, Within
    <3>. QED  BY <3>1, <3>2, OthersHeld
  <2>2. CASE ~ (HandError(t) \/ WaitDisconnect(t) \/ PostDisconnect(t) \/ PostDisconnectFails(t))
    <3>1. OnlyMoves(t) /\ th[t].at \notin {"inRecv", "inDisc"} \cup Within
      BY <1>6, <2>2, MoveTo, MoveToError, MoveAnew DEF OtherStep, HandAcceptOpen, HandAcceptRecv,
         HandAcceptRecvFails, HandConnectOpen, HandConnectRecv, HandConnectRecvFails, PostAccept,
         ReqAcceptNoSocket, MayAccept, PostConnect, WaitConnect, WaitRecv, WaitRecvFails, WaitEnd,
         Within
    <3>. QED  BY <1>1, <3>1, OthersHeld
  <2>. QED  BY <2>1, <2>2
<1>7. ASSUME NEW v \in Workers, NEW wait \in BOOLEAN, DisconnectInCallback(v, wait)
      PROVE  StepHeld(w)
  <2>1. /\ th'[v].on = th[v].on /\ OnlyMoves(v) /\ step[v] \in {"none", "in"}
        /\ th'[v].at \in {"postDisc", "postDiscWait"} /\ th'[v].back = th[v].at
        /\ th[v].at \in Callbacks
    BY <1>0, <1>7 DEF DisconnectInCallback, ReqDisconnectInCallback, DiscPlace, TypeOK, ThreadState,
       OnlyMoves
  <2>2. Where(v)' = Where(v)
    BY <2>1 DEF Where, Within, Callbacks
  <2>. QED  BY <1>0, <2>1, <2>2, OthersHeld DEF StepHeld
<1>8. ASSUME NEW c \in Callers, NEW s \in Sockets, Request(c, s) PROVE StepHeld(w)
  <2>1. (OnlyMoves(c) /\ th[c].at = "idle") \/ UNCHANGED th
    BY <1>0, <1>8, MoveAnew DEF Request, PrepareCkSocket, ReqConnect, ReqDisconnect
  <2>. QED  BY <1>0, <1>1, <2>1, OthersHeld DEF Within, StepHeld, Where
<1>9. ASSUME NEW s \in Sockets, TimeWaitOver(s) PROVE StepHeld(w)
  BY <1>9 DEF TimeWaitOver, StepHeld, Where
<1>. QED  BY <1>2, <1>3, <1>4, <1>5, <1>6, <1>7, <1>8, <1>9 DEF Elsewhere, Other

LEMMA LinkedInit == RecvInit => Linked
<1>1. Len(<<>>) <= MaxChunk
  BY RecvAssumption
<1>. QED  BY <1>1 DEF RecvInit, Linked, LinkedTo

\* A worker stands where it stood, at the same step.
LEMMA LinkHeld ==
  ASSUME RecvTypeOK, Linked, NEW w \in Workers, StepHeld(w), step'[w] = step[w],
         kBuffer'[w] = kBuffer[w]
  PROVE  LinkedTo(w)'
<1>1. LinkedTo(w) /\ (step[w] # "none" => th'[w].on = th[w].on /\ Where(w)' = Where(w))
  BY DEF Linked, StepHeld
<1>2. step[w] \in {"append", "test", "call", "check", "use", "post", "crash", "reset"} =>
        th'[w] = th[w]
  BY DEF StepHeld
<1>. QED  BY <1>1, <1>2 DEF LinkedTo, At

LEMMA StreamFacts ==
  ASSUME NEW e \in Nat, NEW from \in Nat, NEW n \in Nat
  PROVE  /\ [i \in 1..n |-> <<e, from + i>>] \in Seq(Byte)
         /\ Len([i \in 1..n |-> <<e, from + i>>]) = n
<1>1. \A i \in 1..n : <<e, from + i>> \in Byte
  BY DEF Byte
<1>. QED  BY <1>1

LEMMA ChunkFacts ==
  ASSUME RecvTypeOK, NEW s \in Sockets, NEW from \in Nat, NEW n \in Nat
  PROVE  Stream(s, from, n) \in Seq(Byte) /\ Len(Stream(s, from, n)) = n
<1>1. PICK e \in Nat : e = epoch[s]
  BY DEF RecvTypeOK
<1>2. Stream(s, from, n) = [i \in 1..n |-> <<e, from + i>>]
  BY <1>1 DEF Stream
<1>3. /\ [i \in 1..n |-> <<e, from + i>>] \in Seq(Byte)
      /\ Len([i \in 1..n |-> <<e, from + i>>]) = n
  BY StreamFacts
<1>. QED  BY <1>2, <1>3, Zenon

LEMMA TailFacts ==
  ASSUME NEW q \in Seq(Byte), NEW n \in 1..Len(q)
  PROVE  /\ SubSeq(q, n + 1, Len(q)) \in Seq(Byte)
         /\ Len(SubSeq(q, n + 1, Len(q))) = Len(q) - n
         /\ \A i \in 1..Len(q) - n : SubSeq(q, n + 1, Len(q))[i] = q[n + i]
<1>1. n \in Nat /\ Len(q) \in Nat /\ n <= Len(q) /\ n + 1 \in Int /\ Len(q) \in Int
  OBVIOUS
<1>2. \A i \in n + 1 .. Len(q) : q[i] \in Byte
  BY <1>1, ElementOfSeq
<1>3. /\ SubSeq(q, n + 1, Len(q)) \in Seq(Byte)
      /\ Len(SubSeq(q, n + 1, Len(q))) = IF n + 1 <= Len(q) THEN Len(q) - (n + 1) + 1 ELSE 0
      /\ \A i \in 1 .. Len(q) - (n + 1) + 1 : SubSeq(q, n + 1, Len(q))[i] = q[(n + 1) + i - 1]
  BY <1>1, <1>2, SubSeqProperties
<1>4. Len(q) - (n + 1) + 1 = Len(q) - n /\ (~ n + 1 <= Len(q) => Len(q) - n = 0)
  BY <1>1
<1>5. \A i \in 1..Len(q) - n : (n + 1) + i - 1 = n + i
  BY <1>1
<1>. QED  BY <1>3, <1>4, <1>5

LEMMA InStepOn ==
  ASSUME IInv, RecvTypeOK, Linked, NEW w \in Workers, step[w] # "none"
  PROVE  w \in Threads /\ th[w].on \in Sockets
<1>1. w \in Threads /\ th[w].at \notin {"idle", "reAccept"}
  BY InStep DEF Threads, Within
<1>. QED  BY <1>1 DEF IInv, ThreadOK

\* What handRecv and init() do to the thread and its step
LEMMA StepMoves ==
  ASSUME IInv, RecvTypeOK, Linked, NEW w \in Workers,
         (\E s \in Sockets : RecvCompletes(w, s)) \/ RecvOverflow(w) \/ RecvAgain(w) \/ Disconnected(w)
  PROVE  /\ w \in Threads /\ OnlyMoves(w)
         /\ \A v \in Workers : v # w => step'[v] = step[v] /\ kBuffer'[v] = kBuffer[v]
         /\ \/ step'[w] = "append" /\ At(w, "inRecv")' /\ At(w, "idle") /\ step[w] = "none"
            \/ step'[w] = "none" /\ kBuffer'[w] = kBuffer[w] /\ step[w] \in {"check", "post", "reset"}
<1>. USE DEF At
<1>0. w \in Threads /\ TypeOK
  BY DEF Threads, IInv
<1>1. CASE \E s \in Sockets : RecvCompletes(w, s)
  <2>1. PICK s \in Sockets : RecvCompletes(w, s)
    BY <1>1
  <2>2. OnlyMoves(w) /\ th'[w].at = "inRecv" /\ At(w, "idle")
    BY <1>0, <2>1, MoveAnew DEF RecvCompletes, CompleteRecv, Run
  <2>3. step[w] = "none"
    BY <2>2, InStep DEF Within
  <2>. QED  BY <1>0, <2>1, <2>2, <2>3 DEF RecvCompletes, StepTo, RecvTypeOK
<1>2. CASE RecvOverflow(w) \/ RecvAgain(w) \/ Disconnected(w)
  <2>1. OnlyMoves(w)
    BY <1>0, <1>2, NoneOn, MoveToError DEF RecvOverflow, RecvAgain, Disconnected, HandRecvAgain,
       HandRecvPostFails, HandRecvOverflow, HandDisconnect
  <2>. QED  BY <1>0, <1>2, <2>1 DEF RecvOverflow, RecvAgain, Disconnected, StepTo, RecvTypeOK
<1>. QED  BY <1>1, <1>2

LEMMA LinkedStep ==
  ASSUME IInv, RecvTypeOK, Linked, RecvNext
  PROVE  Linked'
<1>. SUFFICES ASSUME NEW v \in Workers PROVE LinkedTo(v)'
  BY DEF Linked
<1>0. TypeOK /\ v \in Threads
  BY DEF IInv, Threads
<1>1. CASE Elsewhere
  <2>1. step' = step /\ kBuffer' = kBuffer
    BY <1>1 DEF Elsewhere, Connected, SetFunOnRecv, AcceptAsked, NotOpened, recvVars
  <2>. QED  BY <1>0, <1>1, <2>1, MoverHeld, LinkHeld
<1>2. ASSUME NEW w \in Workers,
             (\E s \in Sockets : RecvCompletes(w, s)) \/ RecvOverflow(w) \/ RecvAgain(w)
             \/ Disconnected(w)
      PROVE  LinkedTo(v)'
  <2>1. /\ w \in Threads /\ OnlyMoves(w)
        /\ \A u \in Workers : u # w => step'[u] = step[u] /\ kBuffer'[u] = kBuffer[u]
        /\ \/ step'[w] = "append" /\ At(w, "inRecv")'
           \/ step'[w] = "none" /\ kBuffer'[w] = kBuffer[w]
    BY <1>2, StepMoves
  <2>2. CASE v # w
    BY <2>1, <2>2, OthersHeld, LinkHeld
  <2>3. CASE v = w /\ step'[w] = "none" /\ kBuffer'[w] = kBuffer[w]
    BY <2>3 DEF Linked, LinkedTo
  <2>4. CASE v = w /\ step'[w] = "append" /\ At(w, "inRecv")'
    <3>1. PICK s \in Sockets : RecvCompletes(w, s)
      BY <1>2, <2>4 DEF RecvOverflow, RecvAgain, Disconnected, StepTo, RecvTypeOK
    <3>2. PICK n \in 1..MaxChunk : kBuffer' = [kBuffer EXCEPT ![w] = Stream(s, arrived[s], n)]
      BY <3>1 DEF RecvCompletes
    <3>3. arrived[s] \in Nat /\ n \in Nat /\ n <= MaxChunk
      BY RecvAssumption DEF RecvTypeOK
    <3>4. kBuffer'[w] = Stream(s, arrived[s], n)
      BY <3>2 DEF RecvTypeOK
    <3>5. Len(kBuffer'[w]) <= MaxChunk
      BY <3>3, <3>4, ChunkFacts
    <3>. QED  BY <2>4, <3>5 DEF LinkedTo
  <2>. QED  BY <2>1, <2>2, <2>3, <2>4
<1>3. ASSUME NEW w \in Workers, Between(w) PROVE LinkedTo(v)'
  <2>0. UNCHANGED vars
    BY <1>3, BetweenStays
  <2>1. th' = th /\ Where(v)' = Where(v)
    BY <2>0 DEF vars, Where
  <2>2. Len(kBuffer'[v]) <= MaxChunk
    <3>1. CASE AppendRecv(w)
      <4>1. kBuffer' = [kBuffer EXCEPT ![w] = <<>>] /\ Len(<<>>) <= MaxChunk
        BY <3>1, RecvAssumption DEF AppendRecv
      <4>. QED  BY <4>1 DEF Linked, LinkedTo, RecvTypeOK
    <3>2. CASE ~ AppendRecv(w)
      <4>1. kBuffer' = kBuffer
        BY <1>3, <3>2 DEF Between, TestFunOnRecv, CallFunOnRecv, TakeBytes, FunOnRecvReturns,
           TestListen, UseListen, InitFunctions
      <4>. QED  BY <4>1 DEF Linked, LinkedTo
    <3>. QED  BY <3>1, <3>2
  <2>3. CASE step'[v] = step[v]
    BY <2>1, <2>2, <2>3 DEF Linked, LinkedTo, At
  <2>4. CASE step'[v] # step[v]
    <3>1. v = w
      BY <1>3, <2>4 DEF Between, AppendRecv, TestFunOnRecv, CallFunOnRecv, TakeBytes,
         FunOnRecvReturns, TestListen, UseListen, InitFunctions, StepTo, RecvTypeOK
    <3>2. \/ /\ step[w] \in {"append", "test", "call", "check", "use"} \/ At(w, "inRecv")
             /\ step'[w] \in {"test", "call", "check", "in", "crash", "use", "post"}
          \/ At(w, "inDisc") /\ step'[w] = "reset"
      BY <1>3, <2>4, <3>1 DEF Between, AppendRecv, TestFunOnRecv, CallFunOnRecv, TakeBytes,
         FunOnRecvReturns, TestListen, UseListen, InitFunctions, StepTo, RecvTypeOK
    <3>3. step'[w] # "reset" => At(w, "inRecv") /\ Where(w) = "inRecv"
      BY <3>2 DEF Linked, LinkedTo, At, Where, Within
    <3>. QED  BY <2>1, <2>2, <3>1, <3>2, <3>3 DEF LinkedTo, At
  <2>. QED  BY <2>3, <2>4
<1>. QED  BY <1>1, <1>2, <1>3, RecvSteps

LEMMA RecvTypeInit == RecvInit => RecvTypeOK
<1>1. Init => TypeOK
  BY InitOK DEF IInv
<1>2. <<>> \in Seq(Byte)
  OBVIOUS
<1>. QED  BY <1>1, <1>2 DEF RecvInit, RecvTypeOK, Steps

LEMMA RecvTypeStep ==
  ASSUME IInv, RecvTypeOK, Linked, RecvNext, TypeOK'
  PROVE  RecvTypeOK'
<1>0. <<>> \in Seq(Byte) /\ Steps = {"none", "append", "test", "call", "in", "check", "use",
        "post", "reset", "crash"}
  BY DEF Steps
<1>1. ASSUME NEW w \in Workers, NEW s \in Sockets, RecvCompletes(w, s) PROVE RecvTypeOK'
  <2>1. PICK n \in 1..MaxChunk :
          /\ kBuffer' = [kBuffer EXCEPT ![w] = Stream(s, arrived[s], n)]
          /\ arrived' = [arrived EXCEPT ![s] = @ + n]
    BY <1>1 DEF RecvCompletes
  <2>2. arrived[s] \in Nat /\ n \in Nat /\ arrived[s] + n \in Nat
    BY RecvAssumption DEF RecvTypeOK
  <2>3. Stream(s, arrived[s], n) \in Seq(Byte)
    BY <2>2, ChunkFacts
  <2>4. kBuffer' \in [Workers -> Seq(Byte)] /\ arrived' \in [Sockets -> Nat]
    BY <2>1, <2>2, <2>3 DEF RecvTypeOK
  <2>. QED  BY <1>0, <1>1, <2>4 DEF RecvCompletes, RecvTypeOK, StepTo, sockVars
<1>2. ASSUME NEW w \in Workers, AppendRecv(w) PROVE RecvTypeOK'
  <2>1. th[w].on \in Sockets
    BY <1>2, InStepOn DEF AppendRecv
  <2>2. kBufRecv[th[w].on] \o kBuffer[w] \in Seq(Byte)
    BY <2>1, ConcatProperties DEF RecvTypeOK
  <2>. QED  BY <1>0, <1>2, <2>2 DEF AppendRecv, RecvTypeOK, StepTo, netVars
<1>3. ASSUME NEW w \in Workers, TakeBytes(w) PROVE RecvTypeOK'
  <2>1. th[w].on \in Sockets
    BY <1>3, InStepOn DEF TakeBytes
  <2>2. PICK n \in 1..Len(kBufRecv[th[w].on]) :
          /\ kBufRecv' = [kBufRecv EXCEPT ![th[w].on] = SubSeq(@, n + 1, Len(@))]
          /\ taken' = [taken EXCEPT ![th[w].on] = @ + n]
    BY <1>3 DEF TakeBytes
  <2>3. kBufRecv[th[w].on] \in Seq(Byte) /\ taken[th[w].on] \in Nat /\ n \in Nat
    BY <2>1 DEF RecvTypeOK
  <2>4. SubSeq(kBufRecv[th[w].on], n + 1, Len(kBufRecv[th[w].on])) \in Seq(Byte)
    BY <2>3, TailFacts
  <2>5. kBufRecv' \in [Sockets -> Seq(Byte)]
    BY <2>2, <2>4 DEF RecvTypeOK
  <2>6. taken[th[w].on] + n \in Nat
    BY <2>3
  <2>7. taken' \in [Sockets -> Nat]
    BY <2>2, <2>6 DEF RecvTypeOK
  <2>. QED  BY <1>3, <2>5, <2>7 DEF TakeBytes, RecvTypeOK
<1>4. ASSUME NEW w \in Workers,
             \/ TestFunOnRecv(w) \/ CallFunOnRecv(w) \/ FunOnRecvReturns(w) \/ TestListen(w)
             \/ UseListen(w) \/ RecvAgain(w)
      PROVE  RecvTypeOK'
  BY <1>0, <1>4 DEF TestFunOnRecv, CallFunOnRecv, FunOnRecvReturns, TestListen, UseListen,
     RecvAgain, RecvTypeOK, StepTo, sockVars, netVars
<1>5. ASSUME NEW w \in Workers, InitFunctions(w) PROVE RecvTypeOK'
  <2>1. th[w].on \in Sockets /\ late \in SUBSET Sockets
    BY <1>5 DEF InitFunctions, At, IInv, ThreadOK, Threads, RecvTypeOK
  <2>2. late' \in SUBSET Sockets
    BY <1>5, <2>1 DEF InitFunctions
  <2>. QED  BY <1>0, <1>5, <2>2 DEF InitFunctions, RecvTypeOK, StepTo
<1>6. ASSUME NEW w \in Workers, RecvOverflow(w) \/ Disconnected(w) PROVE RecvTypeOK'
  <2>1. /\ kBufRecv' = [kBufRecv EXCEPT ![th[w].on] = <<>>]
        /\ step' = [step EXCEPT ![w] = "none"] /\ UNCHANGED <<kBuffer, kFunOnRecv, netVars>>
    BY <1>6 DEF RecvOverflow, Disconnected, InitRest, StepTo
  <2>2. pkCkListen' = pkCkListen \/ pkCkListen' = [pkCkListen EXCEPT ![th[w].on] = FALSE]
    BY <1>6 DEF RecvOverflow, Disconnected, InitRest
  <2>3. kBufRecv' \in [Sockets -> Seq(Byte)] /\ pkCkListen' \in [Sockets -> BOOLEAN]
    BY <1>0, <2>1, <2>2 DEF RecvTypeOK
  <2>. QED  BY <1>0, <2>1, <2>3 DEF RecvTypeOK, netVars
<1>7. CASE Elsewhere
  <2>1. ASSUME NEW w \in Workers, NEW s \in Sockets, Connected(w, s) PROVE RecvTypeOK'
    <3>1. epoch[s] + 1 \in Nat
      BY DEF RecvTypeOK
    <3>. QED  BY <2>1, <3>1 DEF Connected, RecvTypeOK, sockVars
  <2>2. ASSUME NEW w \in Workers, SetFunOnRecv(w) PROVE RecvTypeOK'
    BY <2>2 DEF SetFunOnRecv, RecvTypeOK, netVars
  <2>3. ASSUME NEW t \in Threads, NEW s \in Sockets, AcceptAsked(t, s) PROVE RecvTypeOK'
    BY <2>3 DEF AcceptAsked, RecvTypeOK, netVars
  <2>4. ASSUME NEW t \in Threads, NotOpened(t) PROVE RecvTypeOK'
    <3>1. th[t].on \in Sockets
      BY <2>4 DEF NotOpened, PostAcceptFails, HandAcceptDel, PostConnectFails, HandConnectDel, At,
         IInv, ThreadOK
    <3>2. late' \in SUBSET Sockets
      BY <2>4, <3>1 DEF NotOpened, RecvTypeOK
    <3>. QED  BY <1>0, <2>4, <3>2 DEF NotOpened, InitRest, RecvTypeOK
  <2>5. CASE UNCHANGED recvVars
    BY <2>5 DEF recvVars, sockVars, netVars, RecvTypeOK
  <2>. QED  BY <1>7, <2>1, <2>2, <2>3, <2>4, <2>5 DEF Elsewhere
<1>. QED  BY <1>1, <1>2, <1>3, <1>4, <1>5, <1>6, <1>7, RecvSteps DEF Between

-----------------------------------------------------------------------------
(* What a socket holds unread                                               *)

\* w has appended its receive and not yet measured kBufRecv.
Adds(w, s) == th[w].on = s /\ step[w] \in {"test", "call", "in", "check", "crash"}
Adders(s)  == {w \in Workers : th[w].on = s /\ step[w] \in {"test", "call", "in", "check", "crash"}}

Bound(s) == RecvMax + MaxChunk * Cardinality(Adders(s))

LEMMA TimesFacts ==
  ASSUME NEW m \in Nat, NEW b \in Nat, NEW c \in Nat
  PROVE  b <= b + m * c /\ \A k \in Nat : c <= k => b + m * c <= b + m * k
<1>1. \A k \in Nat : c <= k => m * k = m * c + m * (k - c)
  OBVIOUS
<1>2. \A k \in Nat : c <= k => m * (k - c) \in Nat /\ m * c \in Nat /\ m * k \in Nat
  OBVIOUS
<1>. QED  BY <1>1, <1>2

LEMMA AddersFinite ==
  ASSUME NEW s \in Sockets
  PROVE  /\ IsFiniteSet(Adders(s)) /\ Cardinality(Adders(s)) \in Nat
         /\ IsFiniteSet(Adders(s))' /\ Cardinality(Adders(s))' \in Nat
<1>1. Adders(s) \subseteq Workers /\ Adders(s)' \subseteq Workers
  BY DEF Adders
<1>2. IsFiniteSet(Workers)
  BY RecvAssumption
<1>. QED  BY <1>1, <1>2, FS_Subset, FS_CardinalityType

\* It was measured, or emptied.
LEMMA BoundSmall ==
  ASSUME NEW s \in Sockets, Len(kBufRecv'[s]) \in Nat, Len(kBufRecv'[s]) <= RecvMax
  PROVE  Len(kBufRecv'[s]) <= Bound(s)'
<1>1. PICK c \in Nat : c = Cardinality(Adders(s))'
  BY AddersFinite
<1>2. RecvMax <= RecvMax + MaxChunk * c
  BY RecvAssumption, TimesFacts
<1>3. Bound(s)' = RecvMax + MaxChunk * c
  BY <1>1 DEF Bound
<1>4. RecvMax + MaxChunk * c \in Nat /\ RecvMax \in Nat
  BY RecvAssumption
<1>. QED  BY <1>2, <1>3, <1>4

\* Nothing was added, and whoever adds goes on adding.
LEMMA BoundSame ==
  ASSUME NEW s \in Sockets, Len(kBufRecv[s]) \in Nat, Len(kBufRecv'[s]) \in Nat,
         Len(kBufRecv[s]) <= Bound(s), Len(kBufRecv'[s]) <= Len(kBufRecv[s]),
         \A w \in Workers : Adds(w, s) => Adds(w, s)'
  PROVE  Len(kBufRecv'[s]) <= Bound(s)'
<1>1. Adders(s) \subseteq Adders(s)'
  BY DEF Adders, Adds
<1>2. Cardinality(Adders(s)) <= Cardinality(Adders(s))'
  BY <1>1, AddersFinite, FS_Subset
<1>3. PICK c \in Nat, k \in Nat : c = Cardinality(Adders(s)) /\ k = Cardinality(Adders(s))'
  BY AddersFinite
<1>4. RecvMax + MaxChunk * c <= RecvMax + MaxChunk * k
  BY <1>2, <1>3, RecvAssumption, TimesFacts
<1>5. Bound(s) = RecvMax + MaxChunk * c /\ Bound(s)' = RecvMax + MaxChunk * k
  BY <1>3 DEF Bound
<1>6. RecvMax + MaxChunk * c \in Nat /\ RecvMax + MaxChunk * k \in Nat
  BY RecvAssumption
<1>. QED  BY <1>4, <1>5, <1>6

LEMMA BoundAppend ==
  ASSUME IInv, RecvTypeOK, Linked, NEW w \in Workers, AppendRecv(w), NEW s \in Sockets,
         th[w].on = s, Len(kBufRecv[s]) <= Bound(s)
  PROVE  Len(kBufRecv'[s]) <= Bound(s)'
<1>1. step' = [step EXCEPT ![w] = "test"] /\ step[w] = "append" /\ UNCHANGED vars
  BY DEF AppendRecv, StepTo
<1>2. th' = th
  BY <1>1 DEF vars
<1>3. Adders(s)' = Adders(s) \cup {w} /\ w \notin Adders(s)
  BY <1>1, <1>2 DEF Adders, RecvTypeOK
<1>4. Cardinality(Adders(s))' = Cardinality(Adders(s)) + 1
  BY <1>3, AddersFinite, FS_AddElement
<1>5. PICK c \in Nat : c = Cardinality(Adders(s))
  BY AddersFinite
<1>6. PICK l \in Nat, b \in Nat : l = Len(kBufRecv[s]) /\ b = Len(kBuffer[w])
  BY DEF RecvTypeOK
<1>7. kBufRecv'[s] = kBufRecv[s] \o kBuffer[w]
  BY DEF AppendRecv, RecvTypeOK
<1>8. Len(kBufRecv'[s]) = l + b
  BY <1>6, <1>7, ConcatProperties DEF RecvTypeOK
<1>9. b <= MaxChunk
  BY <1>6 DEF Linked, LinkedTo
<1>10. Bound(s) = RecvMax + MaxChunk * c /\ Bound(s)' = RecvMax + MaxChunk * (c + 1)
  BY <1>4, <1>5 DEF Bound
<1>11. l <= RecvMax + MaxChunk * c
  BY <1>6, <1>10
<1>12. ASSUME NEW m \in Nat, NEW r \in Nat, b <= m, l <= r + m * c
       PROVE  l + b <= r + m * (c + 1)
  <2>1. m * (c + 1) = m * c + m /\ m * c \in Nat
    OBVIOUS
  <2>. QED  BY <1>12, <2>1
<1>. QED  BY <1>8, <1>9, <1>10, <1>11, <1>12, RecvAssumption

LEMMA UnreadInit == RecvInit => UnreadBounded
<1>. SUFFICES ASSUME RecvInit, NEW s \in Sockets PROVE Len(kBufRecv[s]) <= Bound(s)
  BY DEF UnreadBounded, Bound, Adders
<1>1. PICK c \in Nat : c = Cardinality(Adders(s))
  BY AddersFinite
<1>2. Len(kBufRecv[s]) = 0
  BY DEF RecvInit
<1>3. RecvMax + MaxChunk * c \in Nat
  BY RecvAssumption
<1>. QED  BY <1>1, <1>2, <1>3 DEF Bound

LEMMA UnreadStep ==
  ASSUME IInv, RecvTypeOK, RecvTypeOK', Linked, UnreadBounded, RecvNext
  PROVE  UnreadBounded'
<1>. SUFFICES ASSUME NEW s \in Sockets PROVE Len(kBufRecv'[s]) <= Bound(s)'
  BY DEF UnreadBounded, Bound, Adders
<1>0. /\ Len(kBufRecv[s]) <= Bound(s) /\ Len(kBufRecv[s]) \in Nat /\ Len(kBufRecv'[s]) \in Nat
      /\ TypeOK /\ Workers \subseteq Threads
  BY DEF UnreadBounded, Bound, Adders, RecvTypeOK, Threads
<1>1. ASSUME NEW w \in Workers, AppendRecv(w) PROVE Len(kBufRecv'[s]) <= Bound(s)'
  <2>1. CASE th[w].on = s
    BY <1>0, <1>1, <2>1, BoundAppend
  <2>2. CASE th[w].on # s
    <3>1. kBufRecv'[s] = kBufRecv[s]
      BY <1>1, <2>2 DEF AppendRecv, RecvTypeOK
    <3>2. \A v \in Workers : Adds(v, s) => Adds(v, s)'
      BY <1>1, <2>2 DEF AppendRecv, StepTo, Adds, RecvTypeOK, vars
    <3>. QED  BY <1>0, <3>1, <3>2, BoundSame
  <2>. QED  BY <2>1, <2>2
<1>2. ASSUME NEW w \in Workers, TestListen(w) PROVE Len(kBufRecv'[s]) <= Bound(s)'
  <2>0. kBufRecv' = kBufRecv
    BY <1>2 DEF TestListen, sockVars
  <2>1. CASE th[w].on = s
    <3>1. ~ (Len(kBufRecv[s]) > RecvMax)
      BY <1>2, <2>1 DEF TestListen, Overflows
    <3>2. Len(kBufRecv'[s]) <= RecvMax
      BY <1>0, <2>0, <3>1, RecvAssumption
    <3>. QED  BY <1>0, <3>2, BoundSmall
  <2>2. CASE th[w].on # s
    <3>1. \A v \in Workers : Adds(v, s) => Adds(v, s)'
      BY <1>2, <2>2 DEF TestListen, StepTo, Adds, RecvTypeOK, vars
    <3>. QED  BY <1>0, <2>0, <3>1, BoundSame
  <2>. QED  BY <2>1, <2>2
<1>3. ASSUME NEW w \in Workers, TakeBytes(w) PROVE Len(kBufRecv'[s]) <= Bound(s)'
  <2>1. \A v \in Workers : Adds(v, s) => Adds(v, s)'
    BY <1>3 DEF TakeBytes, Adds, vars
  <2>2. PICK n \in 1..Len(kBufRecv[th[w].on]) :
          kBufRecv' = [kBufRecv EXCEPT ![th[w].on] = SubSeq(@, n + 1, Len(@))]
    BY <1>3 DEF TakeBytes
  <2>3. Len(kBufRecv'[s]) <= Len(kBufRecv[s])
    <3>1. CASE th[w].on = s
      <4>1. kBufRecv'[s] = SubSeq(kBufRecv[s], n + 1, Len(kBufRecv[s])) /\ n \in 1..Len(kBufRecv[s])
        BY <2>2, <3>1 DEF RecvTypeOK
      <4>2. Len(kBufRecv'[s]) = Len(kBufRecv[s]) - n
        BY <4>1, TailFacts DEF RecvTypeOK
      <4>. QED  BY <1>0, <4>1, <4>2
    <3>2. CASE th[w].on # s
      <4>1. kBufRecv'[s] = kBufRecv[s]
        BY <2>2, <3>2 DEF RecvTypeOK
      <4>. QED  BY <1>0, <4>1
    <3>. QED  BY <3>1, <3>2
  <2>. QED  BY <1>0, <2>1, <2>3, BoundSame
<1>4. ASSUME NEW w \in Workers,
             \/ TestFunOnRecv(w) \/ CallFunOnRecv(w) \/ FunOnRecvReturns(w) \/ UseListen(w)
             \/ InitFunctions(w)
      PROVE  Len(kBufRecv'[s]) <= Bound(s)'
  <2>1. \A v \in Workers : Adds(v, s) => Adds(v, s)'
    BY <1>4 DEF TestFunOnRecv, CallFunOnRecv, FunOnRecvReturns, UseListen, InitFunctions,
       StepTo, Adds, RecvTypeOK, vars
  <2>2. kBufRecv' = kBufRecv
    BY <1>4 DEF TestFunOnRecv, CallFunOnRecv, FunOnRecvReturns, UseListen, InitFunctions, sockVars
  <2>. QED  BY <1>0, <2>1, <2>2, BoundSame
<1>5. ASSUME NEW w \in Workers,
             (\E x \in Sockets : RecvCompletes(w, x)) \/ RecvOverflow(w) \/ RecvAgain(w)
             \/ Disconnected(w)
      PROVE  Len(kBufRecv'[s]) <= Bound(s)'
  <2>1. /\ OnlyMoves(w) /\ \A v \in Workers : v # w => step'[v] = step[v]
        /\ step[w] \in {"none", "check", "post", "reset"}
    BY <1>5, StepMoves
  <2>2. \A v \in Workers : v # w /\ Adds(v, s) => Adds(v, s)'
    BY <1>0, <2>1 DEF Adds, OnlyMoves
  <2>3. CASE RecvOverflow(w) /\ th[w].on = s
    <3>1. kBufRecv'[s] = <<>>
      BY <2>3 DEF RecvOverflow, RecvTypeOK
    <3>2. Len(kBufRecv'[s]) <= RecvMax
      BY <3>1, RecvAssumption
    <3>. QED  BY <1>0, <3>2, BoundSmall
  <2>4. CASE ~ (RecvOverflow(w) /\ th[w].on = s)
    <3>1. ~ Adds(w, s)
      BY <1>5, <2>1, <2>4 DEF Adds, RecvOverflow, RecvAgain, Disconnected, RecvCompletes, CompleteRecv,
         At, Linked, LinkedTo
    <3>2. kBufRecv'[s] = kBufRecv[s] \/ kBufRecv'[s] = <<>>
      BY <1>5 DEF RecvOverflow, RecvAgain, Disconnected, InitRest, RecvCompletes, RecvTypeOK,
         sockVars
    <3>3. Len(kBufRecv'[s]) <= Len(kBufRecv[s])
      BY <1>0, <3>2
    <3>. QED  BY <1>0, <2>2, <3>1, <3>3, BoundSame
  <2>. QED  BY <2>3, <2>4
<1>6. CASE Elsewhere
  <2>1. step' = step
    BY <1>6 DEF Elsewhere, Connected, SetFunOnRecv, AcceptAsked, NotOpened, recvVars
  <2>2. \A v \in Workers : Adds(v, s) => Adds(v, s)'
    BY <1>0, <1>6, <2>1, MoverHeld DEF Adds, StepHeld
  <2>3. kBufRecv'[s] = kBufRecv[s] \/ kBufRecv'[s] = <<>>
    BY <1>6 DEF Elsewhere, Connected, SetFunOnRecv, AcceptAsked, NotOpened, InitRest, recvVars,
       sockVars, RecvTypeOK
  <2>4. Len(kBufRecv'[s]) <= Len(kBufRecv[s])
    BY <1>0, <2>3
  <2>. QED  BY <1>0, <2>2, <2>4, BoundSame
<1>. QED  BY <1>1, <1>2, <1>3, <1>4, <1>5, <1>6, RecvSteps DEF Between

-----------------------------------------------------------------------------
(* A socket that is init()ed in time is left by all                         *)

\* A socket whose functions are reset is nobody's business any more.
ResetAlone(s) ==
  \A w \in Workers : step[w] = "reset" /\ th[w].on = s =>
    posted[s]["recv"] = 0 /\ \A t \in Threads : ~ Engaged(t, s)

\* kBufRecv is empty when the stream begins.
Opening(s) ==
  \/ s \notin used \/ \E t \in Threads : Begins(t, s)
  \/ posted[s]["accept"] > 0 \/ posted[s]["connect"] > 0

Empty(s) == Opening(s) => kBufRecv[s] = <<>>

LEMMA RecvDoes ==
  ASSUME IInv, JobsOK, RecvNext
  PROVE  UNCHANGED <<th, posted, used, bWait>> \/ \E t \in Threads : DoesOne(t)
BY RecvIsNext, StepDoes DEF vars

\* Nobody joins where there is nothing to join for, and no receive is posted.
LEMMA NoneJoins ==
  ASSUME NEW t \in Threads, OnlyMoves(t), NEW s \in Sockets, Does(t, s), ~ Acquires(t, s),
         posted[s]["accept"] = 0, posted[s]["connect"] = 0, posted[s]["recv"] = 0,
         \A u \in Threads : ~ Engaged(u, s)
  PROVE  posted'[s]["recv"] = 0 /\ \A u \in Threads : ~ Engaged(u, s)'
<1>1. ~ Takes(t, s) /\ ~ Begins(t, s) /\ ~ WaitsOn(t, s)
  BY DEF Engaged
<1>2. CASE Drifts(t, s)
  <2>1. posted'[s]["recv"] = 0 /\ ~ Engaged(t, s)'
    BY <1>1, <1>2 DEF Drifts, SameOps, Engaged
  <2>. QED  BY <2>1, OthersStay
<1>3. CASE Completes(t, s)
  <2>1. posted'[s]["recv"] = 0 /\ Where(t)' = "inDisc"
    BY <1>3 DEF Completes, Ops
  <2>2. ~ Engaged(t, s)'
    BY <1>3, <2>1 DEF Completes, Engaged, Takes, Begins, WaitsOn, RecvPlaces
  <2>. QED  BY <2>1, <2>2, OthersStay
<1>. QED  BY <1>1, <1>2, <1>3 DEF Does, Posts, Offers, Resumes

LEMMA EngagedGoesOn ==
  ASSUME IInv, NEW t \in Threads, NEW s \in Sockets, Owns(t, s),
         NEW u \in Threads, u # t, Engaged(u, s)
  PROVE  th[u].on = s /\ GoesOnReceiving(u)
<1>1. ~ Owns(u, s)
  BY OwnedIsMine DEF Mine
<1>2. th[u].on = s
  BY DEF Engaged, Takes, Begins, WaitsOn
<1>3. ~ Begins(u, s)
  BY <1>1 DEF Begins, Owns, OwnPlaces
<1>4. CASE WaitsOn(u, s)
  BY <1>2, <1>4 DEF WaitsOn, GoesOnReceiving
<1>5. CASE Takes(u, s) /\ th[u].at \notin Within
  <2>1. Where(u) = th[u].at /\ th[u].at \in RecvPlaces
    BY <1>5 DEF Where, Takes
  <2>2. th[u].at \notin {"accOpen", "conOpen"}
    BY <1>1, <1>2 DEF Owns, OwnPlaces
  <2>. QED  BY <1>2, <2>1, <2>2 DEF RecvPlaces, GoesOnReceiving
<1>6. CASE Takes(u, s) /\ th[u].at \in Within
  <2>1. th[u].back \in RecvPlaces
    BY <1>6 DEF Takes, Where
  <2>2. th[u].back \in {"inAccept", "inConnect", "inRecv"}
    BY <1>6, <2>1 DEF IInv, ThreadOK, Within, RecvPlaces
  <2>. QED  BY <1>2, <2>2 DEF GoesOnReceiving
<1>. QED  BY <1>3, <1>4, <1>5, <1>6 DEF Engaged

\* The end of init(): the socket goes to its pool, and kBufRecv was emptied.
Pools(t, s) == th[t].on = s /\ (NotOpened(t) \/ (t \in Workers /\ Disconnected(t)))

LEMMA Removed ==
  ASSUME RecvNext, NEW s \in Sockets, s \in used, s \notin used'
  PROVE  \E t \in Threads : Pools(t, s)
<1>1. ASSUME NEW t \in Threads, NotOpened(t) PROVE th[t].on = s
  BY <1>1 DEF NotOpened, PostAcceptFails, HandAcceptDel, PostConnectFails, HandConnectDel, DelSocket
<1>2. ASSUME NEW w \in Workers, Disconnected(w) PROVE th[w].on = s
  BY <1>2 DEF Disconnected, HandDisconnect, DelSocket
<1>3. ASSUME NEW w \in Workers, (\E x \in Sockets : RecvCompletes(w, x)) \/ RecvOverflow(w)
                                \/ RecvAgain(w) \/ Between(w)
      PROVE  FALSE
  BY <1>3, BetweenStays DEF RecvCompletes, CompleteRecv, RecvOverflow, HandRecvOverflow, RecvAgain,
     HandRecvAgain, HandRecvPostFails, vars
<1>4. ASSUME Elsewhere, ~ \E t \in Threads : NotOpened(t) PROVE FALSE
  <2>1. ASSUME NEW w \in Workers, NEW x \in Sockets, Connected(w, x) PROVE FALSE
    BY <2>1 DEF Connected, CompleteAccept, CompleteConnect
  <2>2. ASSUME NEW w \in Workers, SetFunOnRecv(w) PROVE FALSE
    BY <2>2 DEF SetFunOnRecv, AcceptCallbackReturns, ConnectCallbackReturns
  <2>3. ASSUME NEW t \in Threads, NEW x \in Sockets, AcceptAsked(t, x) PROVE FALSE
    BY <2>3 DEF AcceptAsked, ReqAccept, NewSocket
  <2>4. ASSUME NEW w \in Workers, NEW x \in Sockets, OtherCompletion(w, x) PROVE FALSE
    BY <2>4 DEF OtherCompletion, CompleteAcceptFails, CompleteConnectFails, CompleteRecvFails,
       CompleteDisconnect, CompleteDisconnectFails
  <2>5. ASSUME NEW t \in Threads, OtherStep(t) PROVE FALSE
    BY <2>5 DEF OtherStep, HandAcceptOpen, HandAcceptRecv, HandAcceptRecvFails, HandConnectOpen,
       HandConnectRecv, HandConnectRecvFails, PostAccept, ReqAcceptNoSocket, PostConnect, WaitConnect,
       WaitRecv, WaitRecvFails, WaitEnd, HandError, WaitDisconnect, PostDisconnect,
       PostDisconnectFails
  <2>6. ASSUME NEW w \in Workers, NEW wait \in BOOLEAN, DisconnectInCallback(w, wait) PROVE FALSE
    BY <2>6 DEF DisconnectInCallback, ReqDisconnectInCallback
  <2>7. ASSUME NEW c \in Callers, NEW x \in Sockets, Request(c, x) PROVE FALSE
    BY <2>7 DEF Request, PrepareCkSocket, ReqConnect, NewSocket, ReqDisconnect
  <2>8. ASSUME NEW x \in Sockets, TimeWaitOver(x) PROVE FALSE
    BY <2>8 DEF TimeWaitOver
  <2>. QED  BY <1>4, <2>1, <2>2, <2>3, <2>4, <2>5, <2>6, <2>7, <2>8 DEF Elsewhere, Other
<1>. QED  BY <1>1, <1>2, <1>3, <1>4, RecvSteps DEF Pools, Threads

LEMMA PoolsAlone ==
  ASSUME IInv, RecvTypeOK, Linked, NEW s \in Sockets, s \notin late', ResetAlone(s),
         NEW t \in Threads, Pools(t, s)
  PROVE  /\ OnlyMoves(t) /\ th'[t].on \notin Sockets /\ kBufRecv'[s] = <<>>
         /\ posted'[s]["recv"] = 0
         /\ \A u \in Threads : u # t => ~ Engaged(u, s)
         /\ \A u \in Threads : ~ Engaged(u, s)'
<1>. USE DEF At
<1>0. TypeOK
  BY DEF IInv
<1>1. /\ OnlyMoves(t) /\ th'[t].on \notin Sockets /\ posted' = posted
      /\ th[t].at \in {"postAccept", "accDel", "postConnect", "conDel", "inDisc"}
  BY <1>0, NoneOn DEF Pools, NotOpened, Disconnected, PostAcceptFails, HandAcceptDel,
     PostConnectFails, HandConnectDel, HandDisconnect
<1>2. kBufRecv'[s] = <<>>
  BY DEF Pools, NotOpened, Disconnected, InitRest, RecvTypeOK
<1>3. Owns(t, s) /\ th[t].at \notin UpPlaces
  BY <1>1 DEF Owns, OwnPlaces, Pools, UpPlaces
<1>4. posted[s]["recv"] = 0
  <2>1. CASE NotOpened(t)
    BY <1>0, <2>1 DEF NotOpened, TooEarly, Pools, TypeOK, Ops
  <2>2. CASE t \in Workers /\ Disconnected(t)
    BY <2>2 DEF Disconnected, ResetAlone, Pools
  <2>. QED  BY <2>1, <2>2 DEF Pools
<1>5. ASSUME NEW u \in Threads, u # t PROVE ~ Engaged(u, s)
  <2>1. CASE NotOpened(t)
    <3>1. ~ (\E v \in Threads \ {t} : th[v].on = s /\ GoesOnReceiving(v))
      BY <2>1 DEF NotOpened, TooEarly, Pools
    <3>. QED  BY <1>3, <1>5, <3>1, EngagedGoesOn
  <2>2. CASE t \in Workers /\ Disconnected(t)
    BY <2>2 DEF Disconnected, ResetAlone, Pools
  <2>. QED  BY <2>1, <2>2 DEF Pools
<1>6. \A u \in Threads : ~ Engaged(u, s)'
  <2>1. ~ Engaged(t, s)'
    BY <1>1 DEF Engaged, Takes, Begins, WaitsOn
  <2>. QED  BY <1>1, <1>5, <2>1, OthersStay
<1>. QED  BY <1>1, <1>2, <1>4, <1>5, <1>6

LEMMA FreeStays ==
  ASSUME IInv, JobsOK, RecvTypeOK, Linked, RecvNext, NEW s \in Sockets, s \notin late',
         ResetAlone(s), FreeAlone(s)
  PROVE  FreeAlone(s)'
<1>. SUFFICES ASSUME s \notin used'
              PROVE  posted'[s]["recv"] = 0 /\ \A u \in Threads : ~ Engaged(u, s)'
  BY DEF FreeAlone
<1>1. CASE s \in used
  BY <1>1, Removed, PoolsAlone
<1>2. CASE s \notin used
  <2>1. posted[s]["recv"] = 0 /\ \A u \in Threads : ~ Engaged(u, s)
    BY <1>2 DEF FreeAlone
  <2>2. CASE UNCHANGED <<th, posted, used, bWait>>
    BY <2>1, <2>2 DEF Engaged, Takes, Begins, WaitsOn, Where
  <2>3. CASE \E t \in Threads : DoesOne(t)
    <3>1. posted[s]["accept"] = 0 /\ posted[s]["connect"] = 0
      BY <1>2, OpeningFacts
    <3>. QED  BY <2>1, <2>3, <3>1, NoneJoins DEF DoesOne, Acquires
  <2>. QED  BY <2>2, <2>3, RecvDoes
<1>. QED  BY <1>1, <1>2

LEMMA ResetHeld ==
  ASSUME IInv, RecvTypeOK, Linked, RecvNext, NEW w \in Workers, step'[w] = "reset"
  PROVE  InitFunctions(w) \/ (step[w] = "reset" /\ th'[w] = th[w])
<1>0. TypeOK /\ w \in Threads
  BY DEF IInv, Threads
<1>1. CASE Elsewhere
  <2>1. step' = step
    BY <1>1 DEF Elsewhere, Connected, SetFunOnRecv, AcceptAsked, NotOpened, recvVars
  <2>. QED  BY <1>0, <1>1, <2>1, MoverHeld DEF StepHeld
<1>2. ASSUME NEW v \in Workers,
             (\E x \in Sockets : RecvCompletes(v, x)) \/ RecvOverflow(v) \/ RecvAgain(v)
             \/ Disconnected(v)
      PROVE  step[w] = "reset" /\ th'[w] = th[w]
  BY <1>0, <1>2, StepMoves DEF OnlyMoves
<1>3. ASSUME NEW v \in Workers, Between(v)
      PROVE  InitFunctions(w) \/ (step[w] = "reset" /\ th'[w] = th[w])
  <2>1. th' = th
    BY <1>3, BetweenStays DEF vars
  <2>2. CASE v # w
    BY <1>3, <2>1, <2>2 DEF Between, AppendRecv, TestFunOnRecv, CallFunOnRecv, TakeBytes,
       FunOnRecvReturns, TestListen, UseListen, InitFunctions, StepTo, RecvTypeOK
  <2>3. CASE v = w
    BY <1>3, <2>1, <2>3 DEF Between, AppendRecv, TestFunOnRecv, CallFunOnRecv, TakeBytes,
       FunOnRecvReturns, TestListen, UseListen, StepTo, RecvTypeOK
  <2>. QED  BY <2>2, <2>3
<1>. QED  BY <1>1, <1>2, <1>3, RecvSteps

LEMMA ResetStep ==
  ASSUME IInv, JobsOK, RecvTypeOK, Linked, RecvNext, NEW s \in Sockets, s \notin late',
         ResetAlone(s)
  PROVE  ResetAlone(s)'
<1>. SUFFICES ASSUME NEW w \in Workers, step'[w] = "reset", th'[w].on = s
              PROVE  posted'[s]["recv"] = 0 /\ \A u \in Threads : ~ Engaged(u, s)'
  BY DEF ResetAlone
<1>0. w \in Threads /\ TypeOK
  BY DEF Threads, IInv
<1>1. CASE InitFunctions(w)
  <2>1. /\ UNCHANGED vars /\ At(w, "inDisc") /\ posted' = posted
        /\ \A u \in Threads : Engaged(u, s)' <=> Engaged(u, s)
    BY <1>1 DEF InitFunctions, vars, Engaged, Takes, Begins, WaitsOn, Where
  <2>2. th[w].on = s
    BY <2>1 DEF vars
  <2>3. Owns(w, s)
    BY <2>1, <2>2 DEF Owns, OwnPlaces, At
  <2>4. ~ TooEarly(w)
    BY <1>1, <2>2 DEF InitFunctions
  <2>5. posted[s]["recv"] = 0
    BY <1>0, <2>2, <2>4 DEF TooEarly, TypeOK, Ops
  <2>6. ~ Engaged(w, s)
    BY <2>1 DEF At, Engaged, Takes, Begins, WaitsOn, Where, Within, RecvPlaces
  <2>7. ASSUME NEW u \in Threads \ {w} PROVE ~ Engaged(u, s)
    BY <1>0, <2>2, <2>3, <2>4, EngagedGoesOn DEF TooEarly
  <2>. QED  BY <2>1, <2>5, <2>6, <2>7
<1>2. CASE step[w] = "reset" /\ th'[w] = th[w]
  <2>1. /\ posted[s]["recv"] = 0 /\ \A u \in Threads : ~ Engaged(u, s)
        /\ At(w, "inDisc") /\ th[w].on = s
    BY <1>2 DEF ResetAlone, Linked, LinkedTo
  <2>2. Owns(w, s)
    BY <2>1 DEF Owns, OwnPlaces, At
  <2>3. posted[s]["accept"] = 0 /\ posted[s]["connect"] = 0 /\ s \in used
    BY <1>0, <2>2, OwnedIsMine DEF Mine, NoOp
  <2>4. CASE UNCHANGED <<th, posted, used, bWait>>
    BY <2>1, <2>4 DEF Engaged, Takes, Begins, WaitsOn, Where
  <2>5. CASE \E t \in Threads : DoesOne(t)
    BY <2>1, <2>3, <2>5, NoneJoins DEF DoesOne, Acquires
  <2>. QED  BY <2>4, <2>5, RecvDoes
<1>. QED  BY <1>1, <1>2, ResetHeld

-----------------------------------------------------------------------------
(* A stream begins with an empty buffer                                     *)

LEMMA OpeningStays ==
  ASSUME IInv, NEW t \in Threads, OnlyMoves(t), NEW s \in Sockets, Does(t, s), Opening(s)'
  PROVE  Opening(s) \/ s \notin used'
<1>0. \A o \in Ops : posted[s][o] \in Nat
  BY OpeningFacts
<1>1. CASE Drifts(t, s)
  BY <1>1, OthersStay DEF Drifts, SameOps, Opening
<1>2. CASE Posts(t, s)
  <2>1. ~ Begins(t, s)'
    BY <1>2 DEF Posts, Begins
  <2>. QED  BY <1>2, <2>1, OthersStay DEF Posts, Opening
<1>3. CASE Completes(t, s)
  <2>1. ~ Begins(t, s)'
    BY <1>3 DEF Completes, Begins
  <2>2. \A p \in {"accept", "connect"} : posted'[s][p] > 0 => posted[s][p] > 0
    BY <1>0, <1>3 DEF Completes, Ops
  <2>. QED  BY <2>1, <2>2, OthersStay DEF Opening
<1>4. CASE Offers(t, s) \/ Acquires(t, s)
  BY <1>4 DEF Offers, Acquires, Opening
<1>5. CASE Resumes(t, s)
  <2>1. ~ Begins(t, s)'
    BY <1>5 DEF Resumes, Begins
  <2>. QED  BY <1>5, <2>1, OthersStay DEF Resumes, SameOps, Opening
<1>. QED  BY <1>1, <1>2, <1>3, <1>4, <1>5 DEF Does

\* A receive in a thread's hands excludes an opening.
LEMMA TakenNotOpening ==
  ASSUME NEW s \in Sockets, Token(s), NEW t \in Threads, Takes(t, s)
  PROVE  ~ Opening(s)
BY PlacesApart DEF Token, Deserted, Opening, Engaged

LEMMA BytesChange ==
  ASSUME RecvTypeOK, RecvNext, NEW s \in Sockets
  PROVE  \/ kBufRecv'[s] = kBufRecv[s] \/ kBufRecv'[s] = <<>>
         \/ \E w \in Workers : (AppendRecv(w) \/ TakeBytes(w)) /\ th[w].on = s
<1>1. CASE Elsewhere
  BY <1>1 DEF Elsewhere, Connected, SetFunOnRecv, AcceptAsked, NotOpened, InitRest, recvVars,
     sockVars, RecvTypeOK
<1>2. ASSUME NEW w \in Workers, (\E x \in Sockets : RecvCompletes(w, x)) \/ RecvOverflow(w)
                                \/ RecvAgain(w) \/ Disconnected(w)
      PROVE  kBufRecv'[s] = kBufRecv[s] \/ kBufRecv'[s] = <<>>
  BY <1>2 DEF RecvOverflow, RecvAgain, Disconnected, InitRest, RecvCompletes, RecvTypeOK, sockVars
<1>3. ASSUME NEW w \in Workers, Between(w)
      PROVE  kBufRecv'[s] = kBufRecv[s] \/ ((AppendRecv(w) \/ TakeBytes(w)) /\ th[w].on = s)
  BY <1>3 DEF Between, AppendRecv, TestFunOnRecv, CallFunOnRecv, TakeBytes, FunOnRecvReturns,
     TestListen, UseListen, InitFunctions, RecvTypeOK, sockVars
<1>. QED  BY <1>1, <1>2, <1>3, RecvSteps

LEMMA EmptyStep ==
  ASSUME IInv, JobsOK, RecvTypeOK, Linked, RecvNext, NEW s \in Sockets, s \notin late',
         ResetAlone(s), Token(s), Empty(s)
  PROVE  Empty(s)'
<1>. SUFFICES ASSUME Opening(s)' PROVE kBufRecv'[s] = <<>>
  BY DEF Empty
<1>1. CASE \E w \in Workers : (AppendRecv(w) \/ TakeBytes(w)) /\ th[w].on = s
  <2>1. PICK w \in Workers : (AppendRecv(w) \/ TakeBytes(w)) /\ th[w].on = s
    BY <1>1
  <2>2. UNCHANGED vars /\ step[w] \in {"append", "in"}
    BY <2>1 DEF AppendRecv, TakeBytes
  <2>3. Opening(s)
    BY <2>2 DEF Opening, Begins, vars
  <2>4. Takes(w, s) /\ w \in Threads
    BY <2>1, <2>2 DEF Linked, LinkedTo, At, Takes, Where, Within, RecvPlaces, Threads
  <2>. QED  BY <2>3, <2>4, TakenNotOpening
<1>2. CASE kBufRecv'[s] = kBufRecv[s]
  <2>1. CASE s \in used /\ s \notin used'
    BY <2>1, Removed, PoolsAlone
  <2>2. CASE ~ (s \in used /\ s \notin used')
    <3>1. Opening(s)
      <4>1. CASE UNCHANGED <<th, posted, used, bWait>>
        BY <4>1 DEF Opening, Begins
      <4>2. CASE \E t \in Threads : DoesOne(t)
        BY <2>2, <4>2, OpeningStays DEF DoesOne, Opening
      <4>. QED  BY <4>1, <4>2, RecvDoes
    <3>. QED  BY <1>2, <3>1 DEF Empty
  <2>. QED  BY <2>1, <2>2
<1>. QED  BY <1>1, <1>2, BytesChange

-----------------------------------------------------------------------------
(* A call in reqConnectAndWait waits for the receive to be its own          *)

WaitOK(s) ==
  \A c \in Threads : WaitsOn(c, s) =>
    /\ bWait[s] /\ posted[s]["recv"] = 0
    /\ \A t \in Threads : Takes(t, s) => Where(t) \in {"conOpen", "inConnect"}

LEMMA WaitMoves ==
  ASSUME IInv, NEW t \in Threads, OnlyMoves(t), NEW s \in Sockets, Does(t, s),
         Token(s), FreeAlone(s)', WaitOK(s)
  PROVE  WaitOK(s)'
<1>. SUFFICES ASSUME NEW c \in Threads, WaitsOn(c, s)'
              PROVE  /\ bWait'[s] /\ posted'[s]["recv"] = 0
                     /\ \A u \in Threads : Takes(u, s)' => Where(u)' \in {"conOpen", "inConnect"}
  BY DEF WaitOK
<1>0. s \in used'
  BY DEF FreeAlone, Engaged
<1>1. CASE Drifts(t, s)
  <2>1. c # t /\ WaitsOn(c, s)
    BY <1>1, OthersStay DEF Drifts
  <2>2. /\ bWait[s] /\ posted[s]["recv"] = 0
        /\ \A u \in Threads : Takes(u, s) => Where(u) \in {"conOpen", "inConnect"}
    BY <2>1 DEF WaitOK
  <2>3. bWait'[s] \/ Acquires(t, s)
    BY <1>0, <2>2 DEF Does
  <2>4. ~ Acquires(t, s)
    BY <1>1 DEF Acquires, Drifts
  <2>. QED  BY <1>1, <2>2, <2>3, <2>4, OthersStay DEF Drifts, SameOps
<1>2. CASE Posts(t, s)
  <2>1. c # t /\ WaitsOn(c, s)
    BY <1>2, OthersStay DEF Posts, WaitsOn
  <2>. QED  BY <1>2, <2>1 DEF Posts, WaitOK
<1>3. CASE Completes(t, s)
  <2>1. c # t /\ WaitsOn(c, s) /\ Engaged(c, s)
    BY <1>3, OthersStay DEF Completes, WaitsOn, Engaged
  <2>2. /\ bWait[s] /\ posted[s]["recv"] = 0
        /\ \A u \in Threads : Takes(u, s) => Where(u) \in {"conOpen", "inConnect"}
    BY <2>1 DEF WaitOK
  <2>3. posted[s]["accept"] = 0
    BY <2>1, OpeningFacts DEF Token, Deserted, Ops
  <2>4. PICK o \in Ops :
         /\ posted[s][o] > 0
         /\ \A p \in Ops \ {o} : posted'[s][p] = posted[s][p]
         /\ o = "connect" => Where(t)' \in {"conOpen", "conDel"}
         /\ o = "disc"    => Where(t)' = "inDisc"
    BY <1>3 DEF Completes
  <2>5. o \in {"connect", "disc"}
    BY <2>2, <2>3, <2>4 DEF Ops
  <2>6. posted'[s]["recv"] = 0
    BY <2>2, <2>4, <2>5 DEF Ops
  <2>7. Takes(t, s)' => Where(t)' \in {"conOpen", "inConnect"}
    BY <2>4, <2>5 DEF Takes, RecvPlaces
  <2>8. bWait'[s]
    BY <1>0, <1>3, <2>2 DEF Does, Acquires, Completes, SameOps, Begins
  <2>. QED  BY <2>2, <2>6, <2>7, <2>8, OthersStay
<1>4. CASE Acquires(t, s)
  <2>1. ~ WaitsOn(c, s)
    BY <1>4 DEF Acquires, Token, Deserted, Engaged
  <2>2. ~ WaitsOn(t, s)'
    BY <1>4 DEF Acquires, Begins, WaitsOn
  <2>. QED  BY <2>1, <2>2, OthersStay
<1>5. CASE Offers(t, s)
  <2>1. \A u \in Threads : u # t => ~ Engaged(u, s)
    BY <1>5 DEF Offers, Token, Deserted
  <2>2. c = t /\ \A u \in Threads : ~ Takes(u, s)'
    BY <1>5, <2>1, OthersStay DEF Offers, Engaged
  <2>3. bWait[s]
    BY <1>5, <2>2 DEF Offers, WaitsOn
  <2>4. posted'[s]["recv"] = 0
    BY <1>5 DEF Offers, Token, Deserted
  <2>5. bWait'[s]
    BY <1>0, <1>5, <2>3 DEF Does, Acquires, Offers
  <2>. QED  BY <2>2, <2>4, <2>5
<1>6. CASE Resumes(t, s)
  <2>1. c # t /\ WaitsOn(c, s)
    BY <1>6, OthersStay DEF Resumes, WaitsOn
  <2>2. Asks(c, s) /\ Asks(t, s)
    BY <1>6, <2>1, PlacesApart DEF Resumes
  <2>. QED  BY <2>1, <2>2 DEF Token, OneAsker
<1>. QED  BY <1>1, <1>2, <1>3, <1>4, <1>5, <1>6 DEF Does

LEMMA WaitStep ==
  ASSUME IInv, JobsOK, RecvNext, NEW s \in Sockets, Token(s), FreeAlone(s)', WaitOK(s)
  PROVE  WaitOK(s)'
<1>1. CASE UNCHANGED <<th, posted, used, bWait>>
  BY <1>1 DEF WaitOK, WaitsOn, Takes, Where
<1>2. CASE \E t \in Threads : DoesOne(t)
  BY <1>2, WaitMoves DEF DoesOne
<1>. QED  BY <1>1, <1>2, RecvDoes

-----------------------------------------------------------------------------
(* The stream                                                               *)

\* The connect a call waits for has been dealt with, and succeeded.
Opened(s) == posted[s]["connect"] = 0 /\ \A t \in Threads : th[t].on = s => Where(t) # "conDel"

\* The socket has a receive, or will have one.
Live(s) ==
  \/ posted[s]["recv"] > 0 \/ \E t \in Threads : Takes(t, s)
  \/ Opened(s) /\ \E c \in Threads : WaitsOn(c, s)

Adding(s) == {w \in Workers : step[w] = "append" /\ th[w].on = s}
Unread(s) == Stream(s, taken[s], arrived[s] - taken[s])

\* kBufRecv, with what is about to be appended to it, is what came and was not
\* taken.
Intact(s) ==
  /\ taken[s] <= arrived[s]
  /\ \A w \in Adding(s) : kBufRecv[s] \o kBuffer[w] = Unread(s)
  /\ Adding(s) = {} => kBufRecv[s] = Unread(s)

Flow(s) == Live(s) => Intact(s)

\* A receive begins with a connection.
LEMMA LiveMoves ==
  ASSUME IInv, JobsOK, NEW t \in Threads, OnlyMoves(t), NEW s \in Sockets, Does(t, s),
         Token(s), FreeAlone(s)', Live(s)'
  PROVE  Live(s) \/ (conn[s] = "none" /\ conn'[s] = "up")
<1>0. \A o \in Ops : posted[s][o] \in Nat
  BY OpeningFacts
<1>1. CASE Drifts(t, s)
  <2>1. CASE posted'[s]["recv"] > 0 \/ \E u \in Threads : Takes(u, s)'
    BY <1>1, <2>1, OthersStay DEF Drifts, SameOps, Live
  <2>2. CASE Opened(s)' /\ \E c \in Threads : WaitsOn(c, s)'
    <3>1. PICK c \in Threads : WaitsOn(c, s)'
      BY <2>2
    <3>2. WaitsOn(c, s) /\ s \in used'
      BY <1>1, <3>1, OthersStay DEF Drifts, FreeAlone, Engaged
    <3>3. posted[s]["connect"] = 0
      BY <1>1, <2>2 DEF Drifts, SameOps, Opened
    <3>4. ASSUME NEW u \in Threads, th[u].on = s, Where(u) = "conDel" PROVE FALSE
      <4>1. CASE u = t
        BY <1>1, <2>2, <3>2, <3>4, <4>1 DEF Drifts, Opened
      <4>2. CASE u # t
        BY <2>2, <3>4, <4>2, OthersStay DEF Opened, OnlyMoves
      <4>. QED  BY <4>1, <4>2
    <3>. QED  BY <3>2, <3>3, <3>4 DEF Live, Opened
  <2>. QED  BY <2>1, <2>2 DEF Live
<1>2. CASE Posts(t, s)
  BY <1>2 DEF Posts, Live
<1>3. CASE Completes(t, s)
  <2>1. PICK o \in Ops :
         /\ posted[s][o] > 0 /\ posted'[s][o] = posted[s][o] - 1
         /\ \A p \in Ops \ {o} : posted'[s][p] = posted[s][p]
         /\ o = "accept"  => Where(t)' \in {"accOpen", "accDel"}
         /\ o = "connect" => Where(t)' \in {"conOpen", "conDel"}
         /\ o = "recv"    => Where(t)' \in {"inRecv", "idle"}
         /\ o = "disc"    => Where(t)' = "inDisc"
         /\ Where(t)' \in {"accOpen", "conOpen"} => conn[s] = "none" /\ conn'[s] = "up"
    BY <1>3 DEF Completes
  <2>2. ~ WaitsOn(t, s)' /\ th'[t].on = s /\ Where(t) = "idle"
    BY <1>3 DEF Completes, WaitsOn, At, Where, Within
  <2>3. CASE Where(t)' \in {"accOpen", "conOpen"}
    BY <2>1, <2>3
  <2>4. CASE o = "recv"
    BY <2>1, <2>4 DEF Live
  <2>5. CASE o = "accept" /\ Where(t)' = "accDel"
    <3>1. posted'[s]["recv"] = 0
      BY <2>1, <2>5, OpeningFacts DEF Ops
    <3>2. \A u \in Threads : ~ Engaged(u, s)
      BY <2>1, <2>5 DEF Token, Deserted
    <3>3. ~ Takes(t, s)'
      BY <2>5 DEF Takes, RecvPlaces
    <3>. QED  BY <2>2, <3>1, <3>2, <3>3, OthersStay DEF Live, Engaged
  <2>6. CASE o = "connect" /\ Where(t)' = "conDel"
    <3>1. posted'[s]["recv"] = 0
      BY <2>1, <2>6, OpeningFacts DEF Ops
    <3>2. \A u \in Threads : Engaged(u, s) => WaitsOn(u, s)
      BY <2>1, <2>6 DEF Token, Deserted
    <3>3. \A u \in Threads : ~ Takes(u, s)'
      BY <2>6, <3>2, OthersStay, PlacesApart DEF Engaged, Takes, RecvPlaces
    <3>4. ~ Opened(s)'
      BY <2>2, <2>6 DEF Opened
    <3>. QED  BY <3>1, <3>3, <3>4 DEF Live
  <2>7. CASE o = "disc"
    <3>1. posted'[s]["recv"] = posted[s]["recv"] /\ posted'[s]["connect"] = posted[s]["connect"]
      BY <2>1, <2>7 DEF Ops
    <3>2. ~ Takes(t, s)'
      BY <2>1, <2>7 DEF Takes, RecvPlaces
    <3>3. Opened(s)' => Opened(s)
      <4>1. \A u \in Threads : th[u].on = s /\ Where(u) = "conDel" =>
              th'[u].on = s /\ Where(u)' = "conDel"
        BY <2>2, OthersStay DEF OnlyMoves
      <4>. QED  BY <3>1, <4>1 DEF Opened
    <3>. QED  BY <2>2, <3>1, <3>2, <3>3, OthersStay DEF Live
  <2>. QED  BY <2>1, <2>3, <2>4, <2>5, <2>6, <2>7 DEF Ops
<1>4. CASE Acquires(t, s)
  <2>1. posted'[s]["recv"] = 0
    BY <1>4 DEF Acquires, SameOps, Token, Deserted
  <2>2. \A u \in Threads : ~ Takes(u, s)' /\ ~ WaitsOn(u, s)'
    <3>1. \A u \in Threads : u # t => ~ Takes(u, s) /\ ~ WaitsOn(u, s)
      BY <1>4 DEF Acquires, Token, Deserted, Engaged
    <3>2. ~ Takes(t, s)' /\ ~ WaitsOn(t, s)'
      BY <1>4 DEF Acquires, Begins, Takes, WaitsOn, Where, Within, RecvPlaces
    <3>. QED  BY <3>1, <3>2, OthersStay
  <2>. QED  BY <2>1, <2>2 DEF Live
<1>5. CASE Offers(t, s)
  <2>1. posted'[s]["recv"] = 0
    BY <1>5 DEF Offers, Token, Deserted
  <2>2. \A u \in Threads : u # t => ~ Engaged(u, s)
    BY <1>5 DEF Offers, Token, Deserted
  <2>3. \A u \in Threads : ~ Takes(u, s)' /\ (WaitsOn(u, s)' => u = t)
    BY <1>5, <2>2, OthersStay DEF Offers, Engaged
  <2>4. WaitsOn(t, s)' => posted'[s]["connect"] > 0
    BY <1>0, <1>5 DEF Offers, WaitsOn, Ops
  <2>. QED  BY <2>1, <2>3, <2>4 DEF Live, Opened
<1>6. CASE Resumes(t, s)
  <2>1. posted[s]["connect"] = 0 /\ WaitsOn(t, s)
    BY <1>6 DEF Resumes, Quiet
  <2>2. ASSUME NEW u \in Threads, th[u].on = s, Where(u) = "conDel" PROVE FALSE
    <3>1. u \in Workers /\ th[u].job = "connect"
      BY <2>2 DEF JobsOK, JobOK
    <3>. QED  BY <1>6, <2>2, <3>1 DEF Resumes, Quiet
  <2>. QED  BY <2>1, <2>2 DEF Live, Opened
<1>. QED  BY <1>1, <1>2, <1>3, <1>4, <1>5, <1>6 DEF Does

LEMMA LiveStays ==
  ASSUME IInv, JobsOK, RecvNext, NEW s \in Sockets, Token(s), FreeAlone(s)', Live(s)'
  PROVE  Live(s) \/ (conn[s] = "none" /\ conn'[s] = "up")
<1>1. CASE UNCHANGED <<th, posted, used, bWait>>
  BY <1>1 DEF Live, Opened, WaitsOn, Takes, Where
<1>2. CASE \E t \in Threads : DoesOne(t)
  BY <1>2, LiveMoves DEF DoesOne
<1>. QED  BY <1>1, <1>2, RecvDoes

LEMMA UpIsConnected ==
  ASSUME TypeOK, RecvNext, NEW s \in Sockets, conn[s] = "none", conn'[s] = "up"
  PROVE  \E w \in Workers : Connected(w, s)
<1>1. ASSUME NEW w \in Workers, NEW x \in Sockets, Connected(w, x) PROVE x = s
  BY <1>1 DEF Connected, CompleteAccept, CompleteConnect, TypeOK
<1>2. ASSUME NEW w \in Workers, (\E x \in Sockets : RecvCompletes(w, x)) \/ RecvOverflow(w)
                                \/ RecvAgain(w) \/ Disconnected(w) \/ Between(w)
      PROVE  FALSE
  BY <1>2, BetweenStays DEF RecvCompletes, CompleteRecv, RecvOverflow, HandRecvOverflow, RecvAgain,
     HandRecvAgain, HandRecvPostFails, Disconnected, HandDisconnect, vars
<1>3. ASSUME NEW w \in Workers, SetFunOnRecv(w) PROVE FALSE
  BY <1>3 DEF SetFunOnRecv, AcceptCallbackReturns, ConnectCallbackReturns
<1>4. ASSUME NEW t \in Threads, NEW x \in Sockets, AcceptAsked(t, x) PROVE FALSE
  BY <1>4 DEF AcceptAsked, ReqAccept
<1>5. ASSUME NEW t \in Threads, NotOpened(t) PROVE FALSE
  BY <1>5 DEF NotOpened, PostAcceptFails, HandAcceptDel, PostConnectFails, HandConnectDel
<1>6. ASSUME NEW w \in Workers, NEW x \in Sockets, OtherCompletion(w, x) PROVE FALSE
  BY <1>6 DEF OtherCompletion, CompleteAcceptFails, CompleteConnectFails, CompleteRecvFails,
     CompleteDisconnect, CompleteDisconnectFails, TypeOK
<1>7. ASSUME NEW t \in Threads, OtherStep(t) PROVE FALSE
  <2>1. CASE PostDisconnect(t)
    BY <2>1 DEF PostDisconnect, TypeOK
  <2>. QED  BY <1>7, <2>1 DEF OtherStep, HandAcceptOpen, HandAcceptRecv, HandAcceptRecvFails,
               HandConnectOpen, HandConnectRecv, HandConnectRecvFails, PostAccept, ReqAcceptNoSocket,
               PostConnect, WaitConnect, WaitRecv, WaitRecvFails, WaitEnd, HandError,
               WaitDisconnect, PostDisconnectFails
<1>8. ASSUME NEW w \in Workers, NEW wait \in BOOLEAN, DisconnectInCallback(w, wait) PROVE FALSE
  BY <1>8 DEF DisconnectInCallback, ReqDisconnectInCallback
<1>9. ASSUME NEW c \in Callers, NEW x \in Sockets, Request(c, x) PROVE FALSE
  BY <1>9 DEF Request, PrepareCkSocket, ReqConnect, ReqDisconnect
<1>10. ASSUME NEW x \in Sockets, TimeWaitOver(x) PROVE FALSE
  BY <1>10 DEF TimeWaitOver
<1>. QED  BY <1>1, <1>2, <1>3, <1>4, <1>5, <1>6, <1>7, <1>8, <1>9, <1>10, RecvSteps
          DEF Elsewhere, Other

\* The step leaves the stream of s alone.
SameStream(s) ==
  /\ kBufRecv'[s] = kBufRecv[s] /\ taken'[s] = taken[s]
  /\ arrived'[s] = arrived[s] /\ epoch'[s] = epoch[s]
  /\ \A w \in Workers : w \in Adding(s)' <=> w \in Adding(s)
  /\ \A w \in Adding(s) : kBuffer'[w] = kBuffer[w]

LEMMA IntactSame ==
  ASSUME NEW s \in Sockets, SameStream(s), Intact(s)
  PROVE  Intact(s)'
<1>1. Adding(s)' = Adding(s)
  BY DEF SameStream, Adding
<1>2. Unread(s)' = Unread(s)
  BY DEF SameStream, Unread, Stream
<1>. QED  BY <1>1, <1>2 DEF Intact, SameStream

\* The steps that change the stream of s
Touches(w, s) ==
  \/ RecvCompletes(w, s)
  \/ th[w].on = s /\ (AppendRecv(w) \/ TakeBytes(w) \/ RecvOverflow(w))

LEMMA StreamLeftAlone ==
  ASSUME IInv, RecvTypeOK, Linked, RecvNext, NEW s \in Sockets,
         \A w \in Workers : ~ Connected(w, s) /\ ~ Touches(w, s),
         \A t \in Threads : ~ Pools(t, s)
  PROVE  SameStream(s)
<1>0. TypeOK /\ Workers \subseteq Threads
  BY DEF IInv, Threads
<1>1. CASE Elsewhere
  <2>1. step' = step /\ kBuffer' = kBuffer
    BY <1>1 DEF Elsewhere, Connected, SetFunOnRecv, AcceptAsked, NotOpened, recvVars
  <2>2. /\ kBufRecv'[s] = kBufRecv[s] /\ taken'[s] = taken[s]
        /\ arrived'[s] = arrived[s] /\ epoch'[s] = epoch[s]
    <3>1. ASSUME NEW w \in Workers, NEW x \in Sockets, Connected(w, x), x # s
          PROVE  /\ kBufRecv'[s] = kBufRecv[s] /\ taken'[s] = taken[s]
                 /\ arrived'[s] = arrived[s] /\ epoch'[s] = epoch[s]
      BY <3>1 DEF Connected, sockVars, RecvTypeOK
    <3>2. ASSUME NEW t \in Threads, NotOpened(t), th[t].on # s
          PROVE  /\ kBufRecv'[s] = kBufRecv[s] /\ taken'[s] = taken[s]
                 /\ arrived'[s] = arrived[s] /\ epoch'[s] = epoch[s]
      BY <3>2 DEF NotOpened, InitRest, RecvTypeOK
    <3>3. CASE \/ \E w \in Workers : SetFunOnRecv(w)
               \/ \E t \in Threads, x \in Sockets : AcceptAsked(t, x)
               \/ UNCHANGED recvVars
      BY <3>3 DEF SetFunOnRecv, AcceptAsked, recvVars, sockVars, netVars
    <3>. QED  BY <1>1, <3>1, <3>2, <3>3 DEF Elsewhere, Pools
  <2>3. ASSUME NEW w \in Workers PROVE w \in Adding(s)' <=> w \in Adding(s)
    <3>1. step[w] = "append" => th'[w].on = th[w].on
      BY <1>0, <1>1, MoverHeld DEF StepHeld
    <3>. QED  BY <2>1, <3>1 DEF Adding
  <2>. QED  BY <2>1, <2>2, <2>3 DEF SameStream
<1>2. ASSUME NEW w \in Workers, (\E x \in Sockets : RecvCompletes(w, x)) \/ RecvOverflow(w)
                                \/ RecvAgain(w) \/ Disconnected(w)
      PROVE  SameStream(s)
  <2>1. /\ w \in Threads /\ OnlyMoves(w)
        /\ \A v \in Workers : v # w => step'[v] = step[v] /\ kBuffer'[v] = kBuffer[v]
        /\ \/ step'[w] = "append" /\ At(w, "inRecv")' /\ At(w, "idle") /\ step[w] = "none"
           \/ step'[w] = "none" /\ kBuffer'[w] = kBuffer[w] /\ step[w] \in {"check", "post", "reset"}
    BY <1>2, StepMoves
  <2>2. /\ kBufRecv'[s] = kBufRecv[s] /\ taken'[s] = taken[s]
        /\ arrived'[s] = arrived[s] /\ epoch'[s] = epoch[s]
    <3>1. ASSUME NEW x \in Sockets, RecvCompletes(w, x), x # s
          PROVE  /\ kBufRecv'[s] = kBufRecv[s] /\ taken'[s] = taken[s]
                 /\ arrived'[s] = arrived[s] /\ epoch'[s] = epoch[s]
      BY <3>1 DEF RecvCompletes, sockVars, RecvTypeOK
    <3>2. CASE RecvAgain(w)
      BY <3>2 DEF RecvAgain, sockVars, netVars
    <3>3. CASE (RecvOverflow(w) \/ Disconnected(w)) /\ th[w].on # s
      BY <3>3 DEF RecvOverflow, Disconnected, InitRest, netVars, RecvTypeOK
    <3>. QED  BY <1>2, <2>1, <3>1, <3>2, <3>3 DEF Touches, Pools
  <2>3. w \notin Adding(s) /\ w \notin Adding(s)'
    <3>1. CASE step'[w] = "append"
      <4>1. PICK x \in Sockets : RecvCompletes(w, x)
        BY <1>2, <3>1 DEF RecvOverflow, RecvAgain, Disconnected, StepTo, RecvTypeOK
      <4>2. Become(w, [job |-> "recv", at |-> "inRecv", on |-> x, back |-> "idle"])
        BY <4>1 DEF RecvCompletes, CompleteRecv, Run
      <4>3. th'[w] = [job |-> "recv", at |-> "inRecv", on |-> x, back |-> "idle"]
        BY <1>0, <2>1, <4>2, MoveAnew
      <4>4. th'[w].on = x /\ x # s
        BY <4>1, <4>3 DEF Touches
      <4>. QED  BY <2>1, <3>1, <4>4 DEF Adding
    <3>. QED  BY <2>1, <3>1 DEF Adding
  <2>4. \A v \in Workers : v # w => th'[v] = th[v]
    BY <1>0, <2>1 DEF OnlyMoves
  <2>5. \A v \in Workers : v \in Adding(s)' <=> v \in Adding(s)
    BY <2>1, <2>3, <2>4 DEF Adding
  <2>6. \A v \in Adding(s) : kBuffer'[v] = kBuffer[v]
    BY <2>1, <2>3 DEF Adding
  <2>. QED  BY <2>2, <2>5, <2>6 DEF SameStream
<1>3. ASSUME NEW w \in Workers, Between(w) PROVE SameStream(s)
  <2>0. th' = th
    BY <1>3, BetweenStays DEF vars
  <2>1. CASE AppendRecv(w) \/ TakeBytes(w)
    <3>1. th[w].on # s
      BY <2>1 DEF Touches
    <3>2. /\ kBufRecv'[s] = kBufRecv[s] /\ taken'[s] = taken[s]
          /\ arrived'[s] = arrived[s] /\ epoch'[s] = epoch[s]
      BY <2>1, <3>1 DEF AppendRecv, TakeBytes, netVars, RecvTypeOK
    <3>3. \A v \in Workers : v # w => step'[v] = step[v] /\ kBuffer'[v] = kBuffer[v]
      BY <2>1 DEF AppendRecv, TakeBytes, StepTo, RecvTypeOK
    <3>. QED  BY <2>0, <3>1, <3>2, <3>3 DEF SameStream, Adding
  <2>2. CASE ~ (AppendRecv(w) \/ TakeBytes(w))
    <3>1. /\ kBufRecv' = kBufRecv /\ taken' = taken /\ arrived' = arrived /\ epoch' = epoch
          /\ kBuffer' = kBuffer
      BY <1>3, <2>2 DEF Between, TestFunOnRecv, CallFunOnRecv, FunOnRecvReturns, TestListen,
         UseListen, InitFunctions, sockVars, netVars
    <3>2. \A v \in Workers : step'[v] = "append" <=> step[v] = "append"
      BY <1>3, <2>2 DEF Between, TestFunOnRecv, CallFunOnRecv, FunOnRecvReturns, TestListen,
         UseListen, InitFunctions, StepTo, RecvTypeOK
    <3>. QED  BY <2>0, <3>1, <3>2 DEF SameStream, Adding
  <2>. QED  BY <2>1, <2>2
<1>. QED  BY <1>1, <1>2, <1>3, RecvSteps

-----------------------------------------------------------------------------
(* Bytes of the stream                                                      *)

\* What arrives goes on where what is there ends.
LEMMA StreamGrows ==
  ASSUME RecvTypeOK, NEW s \in Sockets, NEW from \in Nat, NEW n \in Nat, NEW k \in Nat
  PROVE  Stream(s, from, n) \o Stream(s, from + n, k) = Stream(s, from, n + k)
<1>. DEFINE a == Stream(s, from, n)
            b == Stream(s, from + n, k)
            c == Stream(s, from, n + k)
<1>1. /\ a \in Seq(Byte) /\ Len(a) = n /\ b \in Seq(Byte) /\ Len(b) = k
      /\ c \in Seq(Byte) /\ Len(c) = n + k
  <2>1. from + n \in Nat /\ n + k \in Nat
    OBVIOUS
  <2>. QED  BY <2>1, ChunkFacts
<1>2. /\ \A i \in 1..n : a[i] = <<epoch[s], from + i>>
      /\ \A i \in 1..k : b[i] = <<epoch[s], (from + n) + i>>
      /\ \A i \in 1..n + k : c[i] = <<epoch[s], from + i>>
  BY DEF Stream
<1>. HIDE DEF a, b, c
<1>3. /\ a \o b \in Seq(Byte) /\ Len(a \o b) = n + k
      /\ \A i \in 1..n + k : (a \o b)[i] = IF i <= n THEN a[i] ELSE b[i - n]
  BY <1>1, ConcatProperties
<1>4. ASSUME NEW i \in 1..n + k PROVE (a \o b)[i] = c[i]
  <2>1. CASE i <= n
    <3>1. i \in 1..n
      BY <2>1
    <3>. QED  BY <1>2, <1>3, <2>1, <3>1
  <2>2. CASE ~ i <= n
    <3>1. i - n \in 1..k /\ (from + n) + (i - n) = from + i
      BY <2>2
    <3>. QED  BY <1>2, <1>3, <2>2, <3>1
  <2>. QED  BY <2>1, <2>2
<1>5. a \o b = c
  BY <1>1, <1>3, <1>4, SeqEqual
<1>. QED  BY <1>5 DEF a, b, c

\* What is taken leaves the rest.
LEMMA StreamShrinks ==
  ASSUME RecvTypeOK, NEW s \in Sockets, NEW from \in Nat, NEW n \in Nat, NEW k \in 1..n
  PROVE  SubSeq(Stream(s, from, n), k + 1, n) = Stream(s, from + k, n - k)
<1>. DEFINE a == Stream(s, from, n)
            b == SubSeq(a, k + 1, n)
            c == Stream(s, from + k, n - k)
<1>0. k \in Nat /\ n - k \in Nat /\ from + k \in Nat
  OBVIOUS
<1>1. a \in Seq(Byte) /\ Len(a) = n /\ c \in Seq(Byte) /\ Len(c) = n - k
  BY <1>0, ChunkFacts
<1>2. /\ \A i \in 1..n : a[i] = <<epoch[s], from + i>>
      /\ \A i \in 1..n - k : c[i] = <<epoch[s], (from + k) + i>>
  BY DEF Stream
<1>. HIDE DEF a, c
<1>3. /\ b \in Seq(Byte) /\ Len(b) = n - k
      /\ \A i \in 1..n - k : b[i] = a[k + i]
  BY <1>1, TailFacts
<1>. HIDE DEF b
<1>4. ASSUME NEW i \in 1..n - k PROVE b[i] = c[i]
  <2>1. k + i \in 1..n /\ from + (k + i) = (from + k) + i
    OBVIOUS
  <2>. QED  BY <1>2, <1>3, <2>1
<1>5. b = c
  BY <1>1, <1>3, <1>4, SeqEqual
<1>. QED  BY <1>5 DEF a, b, c

-----------------------------------------------------------------------------
(* The steps that change a stream                                           *)

LEMMA AppenderTakes ==
  ASSUME Linked, NEW s \in Sockets, NEW w \in Adding(s)
  PROVE  w \in Workers /\ w \in Threads /\ Takes(w, s)
<1>1. w \in Workers /\ step[w] = "append" /\ th[w].on = s
  BY DEF Adding
<1>2. At(w, "inRecv")
  BY <1>1 DEF Linked, LinkedTo
<1>. QED  BY <1>1, <1>2 DEF Threads, Takes, At, Where, Within, RecvPlaces

LEMMA FlowConnected ==
  ASSUME IInv, RecvTypeOK, RecvTypeOK', Linked, NEW s \in Sockets, Token(s), Empty(s),
         NEW w \in Workers, Connected(w, s)
  PROVE  Intact(s)'
<1>1. PICK o \in {"accept", "connect"} : Finish(s, o)
  BY DEF Connected, CompleteAccept, CompleteConnect
<1>2. TypeOK /\ w \in Threads /\ Opening(s)
  BY <1>1 DEF IInv, Threads, Finish, Opening
<1>3. OnlyMoves(w) /\ At(w, "idle")
  BY <1>2, MoveAnew DEF Connected, CompleteAccept, CompleteConnect, Run
<1>4. Adding(s)' = {}
  <2>1. SUFFICES ASSUME NEW v \in Workers, step'[v] = "append", th'[v].on = s PROVE FALSE
    BY DEF Adding
  <2>2. step[v] = "append"
    BY <2>1 DEF Connected
  <2>3. At(v, "inRecv") /\ v \in Threads
    BY <2>2 DEF Linked, LinkedTo, Threads
  <2>4. th'[v] = th[v]
    BY <1>3, <2>3 DEF OnlyMoves, At
  <2>5. v \in Adding(s)
    BY <2>1, <2>2, <2>4 DEF Adding
  <2>. QED  BY <1>2, <2>5, AppenderTakes, TakenNotOpening
<1>5. kBufRecv'[s] = <<>> /\ taken'[s] = 0 /\ arrived'[s] = 0
  BY <1>2 DEF Connected, sockVars, Empty, RecvTypeOK
<1>6. PICK e \in Nat : e = epoch'[s]
  BY DEF RecvTypeOK
<1>7. Unread(s)' = [i \in 1..0 |-> <<e, 0 + i>>]
  BY <1>5, <1>6 DEF Unread, Stream
<1>8. [i \in 1..0 |-> <<e, 0 + i>>] \in Seq(Byte) /\ Len([i \in 1..0 |-> <<e, 0 + i>>]) = 0
  BY StreamFacts
<1>9. Unread(s)' = <<>>
  BY <1>7, <1>8, EmptySeq
<1>. QED  BY <1>4, <1>5, <1>9 DEF Intact

LEMMA FlowCompletes ==
  ASSUME IInv, RecvTypeOK, Linked, NEW s \in Sockets, Token(s), Flow(s),
         NEW w \in Workers, RecvCompletes(w, s)
  PROVE  Intact(s)'
<1>0. TypeOK /\ w \in Threads
  BY DEF IInv, Threads
<1>1. posted[s]["recv"] > 0
  BY DEF RecvCompletes, CompleteRecv, Finish
<1>2. Adding(s) = {}
  BY <1>0, <1>1, AppenderTakes DEF Token, OneTaker
<1>3. taken[s] <= arrived[s] /\ kBufRecv[s] = Unread(s)
  BY <1>1, <1>2 DEF Flow, Live, Intact
<1>4. OnlyMoves(w) /\ step'[w] = "append" /\ \A v \in Workers : v # w => step'[v] = step[v]
  BY StepMoves DEF RecvCompletes, StepTo, RecvTypeOK
<1>5. Adding(s)' \subseteq {w}
  <2>1. SUFFICES ASSUME NEW v \in Workers, step'[v] = "append", th'[v].on = s, v # w PROVE FALSE
    BY DEF Adding
  <2>2. v \in Adding(s)
    BY <1>4, <2>1 DEF Adding, OnlyMoves, Threads
  <2>. QED  BY <1>2, <2>2
<1>6. w \in Adding(s)'
  <2>1. Become(w, [job |-> "recv", at |-> "inRecv", on |-> s, back |-> "idle"])
    BY DEF RecvCompletes, CompleteRecv, Run
  <2>2. th'[w].on = s
    BY <1>0, <2>1, MoveAnew
  <2>. QED  BY <1>4, <2>2 DEF Adding
<1>7. PICK n \in 1..MaxChunk :
        /\ kBuffer' = [kBuffer EXCEPT ![w] = Stream(s, arrived[s], n)]
        /\ arrived' = [arrived EXCEPT ![s] = @ + n]
  BY DEF RecvCompletes
<1>8. PICK a \in Nat, b \in Nat : a = arrived[s] /\ b = taken[s]
  BY DEF RecvTypeOK
<1>9. n \in Nat /\ b <= a /\ a - b \in Nat /\ b + (a - b) = a /\ (a - b) + n = (a + n) - b
      /\ b <= a + n
  BY <1>3, <1>8, RecvAssumption
<1>10. /\ kBuffer'[w] = Stream(s, a, n) /\ arrived'[s] = a + n /\ taken'[s] = b
       /\ kBufRecv'[s] = kBufRecv[s] /\ epoch' = epoch
  BY <1>7, <1>8 DEF RecvCompletes, RecvTypeOK, sockVars
<1>11. kBufRecv[s] = Stream(s, b, a - b)
  BY <1>3, <1>8 DEF Unread
<1>12. Unread(s)' = Stream(s, b, (a + n) - b)
  BY <1>10 DEF Unread, Stream
<1>13. Stream(s, b, a - b) \o Stream(s, a, n) = Stream(s, b, (a - b) + n)
  <2>1. Stream(s, b, a - b) \o Stream(s, b + (a - b), n) = Stream(s, b, (a - b) + n)
    BY <1>9, StreamGrows
  <2>. QED  BY <1>9, <2>1
<1>14. kBufRecv'[s] \o kBuffer'[w] = Unread(s)'
  BY <1>9, <1>10, <1>11, <1>12, <1>13
<1>. QED  BY <1>5, <1>6, <1>9, <1>10, <1>14 DEF Intact

LEMMA FlowAppend ==
  ASSUME RecvTypeOK, Linked, NEW s \in Sockets, Token(s), Flow(s),
         NEW w \in Workers, AppendRecv(w), th[w].on = s
  PROVE  Intact(s)'
<1>1. w \in Adding(s) /\ th' = th
  BY DEF AppendRecv, Adding, vars
<1>2. Intact(s)
  BY <1>1, AppenderTakes DEF Flow, Live
<1>3. Adding(s)' = {}
  <2>1. SUFFICES ASSUME NEW v \in Workers, step'[v] = "append", th'[v].on = s PROVE FALSE
    BY DEF Adding
  <2>2. v # w /\ step[v] = "append"
    BY <2>1 DEF AppendRecv, StepTo, RecvTypeOK
  <2>3. v \in Adding(s)
    BY <1>1, <2>1, <2>2 DEF Adding
  <2>. QED  BY <1>1, <2>2, <2>3, AppenderTakes DEF Token, OneTaker
<1>4. kBufRecv'[s] = kBufRecv[s] \o kBuffer[w] /\ UNCHANGED netVars
  BY DEF AppendRecv, RecvTypeOK
<1>5. Unread(s)' = Unread(s) /\ taken'[s] = taken[s] /\ arrived'[s] = arrived[s]
  BY <1>4 DEF netVars, Unread, Stream
<1>. QED  BY <1>1, <1>2, <1>3, <1>4, <1>5 DEF Intact

\* Where a receive is in hand and appended, what is in kBufRecv is the stream.
LEMMA InHand ==
  ASSUME Linked, NEW s \in Sockets, Token(s), Flow(s), NEW w \in Workers, th[w].on = s,
         Where(w) = "inRecv", step[w] # "append"
  PROVE  Adding(s) = {} /\ taken[s] <= arrived[s] /\ kBufRecv[s] = Unread(s)
<1>1. Takes(w, s) /\ w \in Threads
  BY DEF Takes, RecvPlaces, Threads
<1>2. Adding(s) = {}
  <2>1. SUFFICES ASSUME NEW v \in Adding(s) PROVE FALSE
    OBVIOUS
  <2>2. v = w
    BY <1>1, AppenderTakes DEF Token, OneTaker
  <2>. QED  BY <2>2 DEF Adding
<1>3. Intact(s)
  BY <1>1 DEF Flow, Live
<1>. QED  BY <1>2, <1>3 DEF Intact

LEMMA FlowTake ==
  ASSUME RecvTypeOK, Linked, NEW s \in Sockets, Token(s), Flow(s),
         NEW w \in Workers, TakeBytes(w), th[w].on = s
  PROVE  Intact(s)'
<1>1. Adding(s) = {} /\ taken[s] <= arrived[s] /\ kBufRecv[s] = Unread(s)
  BY InHand DEF TakeBytes, At, Where, Within
<1>2. Adding(s)' = {}
  BY <1>1 DEF Adding, TakeBytes, vars
<1>3. PICK n \in 1..Len(kBufRecv[s]) :
        /\ kBufRecv' = [kBufRecv EXCEPT ![s] = SubSeq(@, n + 1, Len(@))]
        /\ taken' = [taken EXCEPT ![s] = @ + n]
  BY DEF TakeBytes
<1>4. PICK a \in Nat, b \in Nat : a = arrived[s] /\ b = taken[s]
  BY DEF RecvTypeOK
<1>5. b <= a /\ a - b \in Nat /\ kBufRecv[s] = Stream(s, b, a - b)
  BY <1>1, <1>4 DEF Unread
<1>6. Len(kBufRecv[s]) = a - b /\ n \in 1..(a - b)
  <2>1. Len(Stream(s, b, a - b)) = a - b
    BY <1>5, ChunkFacts
  <2>. QED  BY <1>5, <2>1
<1>7. kBufRecv'[s] = SubSeq(Stream(s, b, a - b), n + 1, a - b)
  BY <1>3, <1>5, <1>6 DEF RecvTypeOK
<1>8. kBufRecv'[s] = Stream(s, b + n, (a - b) - n)
  BY <1>5, <1>6, <1>7, StreamShrinks
<1>9. (a - b) - n = a - (b + n) /\ b + n <= a
  BY <1>5, <1>6
<1>10. taken'[s] = b + n /\ arrived'[s] = a /\ epoch' = epoch
  BY <1>3, <1>4 DEF TakeBytes, RecvTypeOK
<1>11. Unread(s)' = Stream(s, b + n, a - (b + n))
  BY <1>10 DEF Unread, Stream
<1>. QED  BY <1>2, <1>8, <1>9, <1>10, <1>11 DEF Intact

\* The connection is given up: no receive follows.
LEMMA FlowOverflow ==
  ASSUME IInv, Linked, NEW s \in Sockets, Token(s), WaitOK(s),
         NEW w \in Workers, RecvOverflow(w), th[w].on = s
  PROVE  ~ Live(s)'
<1>1. Takes(w, s) /\ w \in Threads /\ Where(w) = "inRecv" /\ TypeOK
  BY DEF RecvOverflow, HandRecvOverflow, At, Where, Within, Takes, RecvPlaces, Threads, IInv
<1>2. /\ th'[w].at = "error" /\ th'[w].back = "idle" /\ OnlyMoves(w) /\ posted' = posted
  BY <1>1, MoveToError DEF RecvOverflow, HandRecvOverflow
<1>3. ~ Takes(w, s)' /\ ~ WaitsOn(w, s)'
  BY <1>2 DEF Takes, WaitsOn, Where, Within, RecvPlaces
<1>4. posted'[s]["recv"] = 0 /\ \A u \in Threads : u # w => ~ Takes(u, s)
  BY <1>1, <1>2 DEF Token, OneTaker
<1>5. \A c \in Threads : ~ WaitsOn(c, s)
  BY <1>1 DEF WaitOK
<1>. QED  BY <1>1, <1>2, <1>3, <1>4, <1>5, OthersStay DEF Live

LEMMA FlowPools ==
  ASSUME IInv, RecvTypeOK, Linked, NEW s \in Sockets, s \notin late', ResetAlone(s),
         NEW t \in Threads, Pools(t, s)
  PROVE  ~ Live(s)'
<1>1. posted'[s]["recv"] = 0 /\ \A u \in Threads : ~ Engaged(u, s)'
  BY PoolsAlone
<1>. QED  BY <1>1 DEF Live, Engaged

LEMMA FlowStep ==
  ASSUME IInv, JobsOK, RecvTypeOK, RecvTypeOK', Linked, RecvNext, NEW s \in Sockets, s \notin late',
         Token(s), FreeAlone(s)', ResetAlone(s), Empty(s), WaitOK(s), Flow(s)
  PROVE  Flow(s)'
<1>. SUFFICES ASSUME Live(s)' PROVE Intact(s)'
  BY DEF Flow
<1>1. CASE \E w \in Workers : Connected(w, s)
  BY <1>1, FlowConnected
<1>2. CASE \E w \in Workers : Touches(w, s)
  BY <1>2, FlowCompletes, FlowAppend, FlowTake, FlowOverflow DEF Touches
<1>3. CASE \E t \in Threads : Pools(t, s)
  BY <1>3, FlowPools
<1>4. CASE /\ \A w \in Workers : ~ Connected(w, s) /\ ~ Touches(w, s)
           /\ \A t \in Threads : ~ Pools(t, s)
  <2>1. SameStream(s)
    BY <1>4, StreamLeftAlone
  <2>2. TypeOK
    BY DEF IInv
  <2>3. Live(s)
    BY <1>4, <2>2, LiveStays, UpIsConnected
  <2>. QED  BY <2>1, <2>3, IntactSame DEF Flow
<1>. QED  BY <1>1, <1>2, <1>3, <1>4

-----------------------------------------------------------------------------
(* What a handler found set is still set                                    *)

LEMMA FieldsChange ==
  ASSUME RecvTypeOK, RecvNext, NEW s \in Sockets
  PROVE  /\ kFunOnRecv[s] /\ ~ kFunOnRecv'[s] =>
              \/ \E w \in Workers : InitFunctions(w) /\ th[w].on = s
              \/ \E t \in Threads : NotOpened(t) /\ th[t].on = s
         /\ pkCkListen[s] /\ ~ pkCkListen'[s] => \E t \in Threads : Pools(t, s)
<1>1. CASE Elsewhere
  <2>1. CASE \E t \in Threads : NotOpened(t)
    BY <2>1 DEF NotOpened, InitRest, RecvTypeOK, Pools
  <2>2. CASE \/ \E w \in Workers, x \in Sockets : Connected(w, x)
             \/ \E w \in Workers : SetFunOnRecv(w)
             \/ \E t \in Threads, x \in Sockets : AcceptAsked(t, x)
             \/ UNCHANGED recvVars
    BY <2>2 DEF Connected, SetFunOnRecv, AcceptAsked, recvVars, sockVars, RecvTypeOK
  <2>. QED  BY <1>1, <2>1, <2>2 DEF Elsewhere
<1>2. ASSUME NEW w \in Workers, (\E x \in Sockets : RecvCompletes(w, x)) \/ RecvOverflow(w)
                                \/ RecvAgain(w)
      PROVE  UNCHANGED <<kFunOnRecv, pkCkListen>>
  BY <1>2 DEF RecvCompletes, RecvOverflow, RecvAgain, sockVars
<1>3. ASSUME NEW w \in Workers, Disconnected(w)
      PROVE  UNCHANGED kFunOnRecv /\ (th[w].on # s => pkCkListen'[s] = pkCkListen[s])
  BY <1>3 DEF Disconnected, InitRest, RecvTypeOK
<1>4. ASSUME NEW w \in Workers, Between(w)
      PROVE  /\ UNCHANGED pkCkListen
             /\ kFunOnRecv'[s] = kFunOnRecv[s] \/ (InitFunctions(w) /\ th[w].on = s)
  BY <1>4 DEF Between, AppendRecv, TestFunOnRecv, CallFunOnRecv, TakeBytes, FunOnRecvReturns,
     TestListen, UseListen, InitFunctions, RecvTypeOK, sockVars
<1>. QED  BY <1>1, <1>2, <1>3, <1>4, RecvSteps DEF Pools, Threads

\* w uses what it found set.
Safe(w) ==
  /\ step[w] \in {"call", "in"} => kFunOnRecv[th[w].on]
  /\ step[w] = "use" => pkCkListen[th[w].on]
  /\ step[w] # "crash"

LEMMA InRecvGoesOn ==
  ASSUME NEW w \in Workers, Where(w) = "inRecv"
  PROVE  GoesOnReceiving(w)
BY DEF Where, GoesOnReceiving, Within

LEMMA LateGrows ==
  ASSUME RecvNext
  PROVE  late \subseteq late'
<1>1. CASE Elsewhere
  BY <1>1 DEF Elsewhere, Connected, SetFunOnRecv, AcceptAsked, NotOpened, recvVars, netVars
<1>2. ASSUME NEW w \in Workers, (\E x \in Sockets : RecvCompletes(w, x)) \/ RecvOverflow(w)
                                \/ RecvAgain(w) \/ Disconnected(w)
      PROVE  late' = late
  BY <1>2 DEF RecvCompletes, RecvOverflow, RecvAgain, Disconnected, netVars
<1>3. ASSUME NEW w \in Workers, Between(w) PROVE late \subseteq late'
  BY <1>3 DEF Between, AppendRecv, TestFunOnRecv, CallFunOnRecv, TakeBytes, FunOnRecvReturns,
     TestListen, UseListen, InitFunctions, netVars
<1>. QED  BY <1>1, <1>2, <1>3, RecvSteps

\* The step of w itself, in handRecv
LEMMA SafeSteps ==
  ASSUME RecvTypeOK, NEW w \in Workers, NEW v \in Workers, Between(v), Safe(w),
         th[w].on \in Sockets
  PROVE  \/ Safe(w)'
         \/ InitFunctions(v) /\ th[v].on = th[w].on /\ step[w] \in {"call", "in"}
<1>0. th' = th
  BY BetweenStays DEF vars
<1>1. CASE v # w
  <2>1. step'[w] = step[w] /\ pkCkListen' = pkCkListen
    BY <1>1 DEF Between, AppendRecv, TestFunOnRecv, CallFunOnRecv, TakeBytes, FunOnRecvReturns,
       TestListen, UseListen, InitFunctions, StepTo, RecvTypeOK, sockVars
  <2>2. kFunOnRecv' = kFunOnRecv \/ (InitFunctions(v) /\ kFunOnRecv' = [kFunOnRecv EXCEPT ![th[v].on] = FALSE])
    BY DEF Between, AppendRecv, TestFunOnRecv, CallFunOnRecv, TakeBytes, FunOnRecvReturns,
       TestListen, UseListen, InitFunctions, sockVars
  <2>3. \/ kFunOnRecv'[th[w].on] = kFunOnRecv[th[w].on]
        \/ InitFunctions(v) /\ th[v].on = th[w].on
    BY <2>2 DEF RecvTypeOK
  <2>. QED  BY <1>0, <2>1, <2>3 DEF Safe
<1>2. CASE v = w
  <2>1. CASE InitFunctions(w)
    BY <1>0, <2>1 DEF InitFunctions, StepTo, RecvTypeOK, Safe
  <2>2. CASE ~ InitFunctions(w)
    <3>1. kFunOnRecv' = kFunOnRecv /\ pkCkListen' = pkCkListen
      BY <1>2, <2>2 DEF Between, AppendRecv, TestFunOnRecv, CallFunOnRecv, TakeBytes, FunOnRecvReturns,
         TestListen, UseListen, sockVars
    <3>2. \/ step'[w] \in {"test", "check", "post"} \/ step'[w] = step[w]
          \/ step'[w] \in {"call", "in"} /\ kFunOnRecv[th[w].on]
          \/ step'[w] = "use" /\ pkCkListen[th[w].on]
      BY <1>2, <2>2 DEF Between, AppendRecv, TestFunOnRecv, CallFunOnRecv, TakeBytes,
         FunOnRecvReturns, TestListen, UseListen, StepTo, RecvTypeOK, Safe
    <3>. QED  BY <1>0, <3>1, <3>2 DEF Safe
  <2>. QED  BY <2>1, <2>2
<1>. QED  BY <1>1, <1>2

LEMMA StillStep ==
  ASSUME IInv, JobsOK, RecvTypeOK, Linked, RecvNext, StillThere,
         \A s \in Sockets \ late : ResetAlone(s)
  PROVE  StillThere'
<1>. SUFFICES ASSUME NEW w \in Workers, th'[w].on \in Sockets, th'[w].on \notin late'
              PROVE  Safe(w)'
  BY DEF StillThere, Safe
<1>0. w \in Threads /\ Workers \subseteq Threads /\ TypeOK /\ step[w] # "crash"
  BY DEF Threads, IInv, RecvNext
<1>1. ASSUME NEW v \in Workers, (\E x \in Sockets : RecvCompletes(v, x)) \/ RecvOverflow(v)
                                \/ RecvAgain(v) \/ Disconnected(v),
             v = w
      PROVE  Safe(w)'
  BY <1>0, <1>1, StepMoves DEF Safe
<1>2. CASE step[w] = "none" /\ step'[w] = "none"
  BY <1>2 DEF Safe
<1>3. CASE th'[w].on = th[w].on /\ ~ (step[w] = "none" /\ step'[w] = "none")
           /\ ~ (\E x \in Sockets : RecvCompletes(w, x)) /\ ~ RecvOverflow(w) /\ ~ RecvAgain(w)
           /\ ~ Disconnected(w)
  <2>1. PICK s \in Sockets : s = th[w].on
    BY <1>3
  <2>2. s \notin late' /\ s \notin late /\ Safe(w)
    BY <1>3, <2>1, LateGrows DEF StillThere, Safe
  <2>3. ASSUME step[w] \in {"call", "in"}, kFunOnRecv[s], ~ kFunOnRecv'[s] PROVE FALSE
    <3>1. Where(w) = "inRecv" /\ GoesOnReceiving(w)
      BY <2>3, InRecvGoesOn DEF Linked, LinkedTo, At, Where, Within
    <3>2. ASSUME NEW v \in Workers, InitFunctions(v), th[v].on = s PROVE FALSE
      <4>1. v # w
        BY <3>1, <3>2 DEF InitFunctions, At, Where, Within
      <4>. QED  BY <1>0, <2>1, <2>2, <3>1, <3>2, <4>1 DEF InitFunctions, TooEarly
    <3>3. ASSUME NEW t \in Threads, NotOpened(t), th[t].on = s PROVE FALSE
      <4>1. th[t].at \in {"postAccept", "accDel", "postConnect", "conDel"}
        BY <3>3 DEF NotOpened, PostAcceptFails, HandAcceptDel, PostConnectFails, HandConnectDel, At
      <4>2. t # w
        BY <3>1, <4>1 DEF Where, Within
      <4>. QED  BY <1>0, <2>1, <2>2, <3>1, <3>3, <4>2 DEF NotOpened, TooEarly
    <3>. QED  BY <2>3, <3>2, <3>3, FieldsChange
  <2>4. ASSUME step[w] = "use", pkCkListen[s], ~ pkCkListen'[s] PROVE FALSE
    <3>1. PICK t \in Threads : Pools(t, s)
      BY <2>4, FieldsChange
    <3>2. Takes(w, s) /\ At(w, "inRecv")
      BY <2>1, <2>4 DEF Linked, LinkedTo, At, Takes, Where, Within, RecvPlaces
    <3>3. t # w
      BY <3>1, <3>2 DEF Pools, NotOpened, Disconnected, PostAcceptFails, HandAcceptDel,
         PostConnectFails, HandConnectDel, HandDisconnect, At
    <3>. QED  BY <1>0, <2>2, <3>1, <3>2, <3>3, PoolsAlone DEF Engaged
  <2>5. CASE \E v \in Workers : Between(v)
    <3>1. PICK v \in Workers : Between(v)
      BY <2>5
    <3>2. CASE InitFunctions(v) /\ th[v].on = th[w].on /\ step[w] \in {"call", "in"}
      <4>1. kFunOnRecv[s] /\ ~ kFunOnRecv'[s]
        BY <2>1, <2>2, <3>2 DEF Safe, InitFunctions, RecvTypeOK
      <4>. QED  BY <2>3, <3>2, <4>1
    <3>. QED  BY <2>1, <2>2, <3>1, <3>2, SafeSteps
  <2>6. CASE ~ (\E v \in Workers : Between(v))
    <3>1. step'[w] = step[w]
      <4>1. CASE Elsewhere
        BY <4>1 DEF Elsewhere, Connected, SetFunOnRecv, AcceptAsked, NotOpened, recvVars
      <4>2. ASSUME NEW v \in Workers, (\E x \in Sockets : RecvCompletes(v, x)) \/ RecvOverflow(v)
                                      \/ RecvAgain(v) \/ Disconnected(v)
            PROVE  step'[w] = step[w]
        BY <1>3, <4>2, StepMoves
      <4>. QED  BY <2>6, <4>1, <4>2, RecvSteps
    <3>. QED  BY <1>3, <2>1, <2>2, <2>3, <2>4, <3>1 DEF Safe
  <2>. QED  BY <2>5, <2>6
<1>4. CASE th'[w].on # th[w].on /\ ~ (\E x \in Sockets : RecvCompletes(w, x)) /\ ~ RecvOverflow(w)
           /\ ~ RecvAgain(w) /\ ~ Disconnected(w)
  <2>1. CASE Elsewhere
    <3>1. step' = step
      BY <2>1 DEF Elsewhere, Connected, SetFunOnRecv, AcceptAsked, NotOpened, recvVars
    <3>2. step[w] = "none"
      BY <1>0, <1>4, <2>1, MoverHeld DEF StepHeld
    <3>. QED  BY <3>1, <3>2 DEF Safe
  <2>2. ASSUME NEW v \in Workers, (\E x \in Sockets : RecvCompletes(v, x)) \/ RecvOverflow(v)
                                  \/ RecvAgain(v) \/ Disconnected(v)
        PROVE  FALSE
    BY <1>0, <1>4, <2>2, StepMoves DEF OnlyMoves
  <2>3. ASSUME NEW v \in Workers, Between(v) PROVE FALSE
    BY <1>4, <2>3, BetweenStays DEF vars
  <2>. QED  BY <2>1, <2>2, <2>3, RecvSteps
<1>. QED  BY <1>1, <1>2, <1>3, <1>4

-----------------------------------------------------------------------------
(* The inductive invariant                                                  *)

Good(s) == Token(s) /\ ResetAlone(s) /\ Empty(s) /\ WaitOK(s) /\ Flow(s)
AllGood == \A s \in Sockets \ late : Good(s)

RInv ==
  IInv /\ JobsOK /\ RecvTypeOK /\ Linked /\ UnreadBounded /\ StillThere /\ AllGood

LEMMA TokenNext ==
  ASSUME IInv, JobsOK, RecvNext, NEW s \in Sockets, Token(s), FreeAlone(s)'
  PROVE  Token(s)'
<1>1. CASE UNCHANGED <<th, posted, used, bWait>>
  BY <1>1 DEF Token, OneTaker, Deserted, OneAsker, Engaged, Takes, Begins, WaitsOn, Asks, Where
<1>2. CASE \E t \in Threads : DoesOne(t)
  BY <1>2, TokenStep DEF DoesOne
<1>. QED  BY <1>1, <1>2, RecvDoes

LEMMA GoodInit == RecvInit => AllGood
<1>. SUFFICES ASSUME RecvInit, NEW s \in Sockets PROVE Good(s)
  BY DEF AllGood
<1>1. \A t \in Threads : th[t].on = None /\ th[t].at = "idle"
  BY DEF RecvInit, Init, Idle
<1>2. \A t \in Threads : ~ Engaged(t, s) /\ ~ Takes(t, s) /\ ~ WaitsOn(t, s) /\ ~ Asks(t, s)
  BY <1>1, NoneAssumption DEF Engaged, Takes, Begins, WaitsOn, Asks
<1>3. posted[s]["recv"] = 0 /\ posted[s]["accept"] = 0 /\ posted[s]["connect"] = 0
  BY DEF RecvInit, Init, Ops
<1>4. Token(s)
  BY <1>2, <1>3, PlacesApart DEF Token, OneTaker, Deserted, OneAsker, Engaged
<1>5. ResetAlone(s) /\ Empty(s)
  BY DEF RecvInit, ResetAlone, Empty
<1>6. WaitOK(s) /\ Flow(s)
  BY <1>2, <1>3 DEF WaitOK, Flow, Live
<1>. QED  BY <1>4, <1>5, <1>6 DEF Good

LEMMA GoodStep ==
  ASSUME IInv, JobsOK, RecvTypeOK, RecvTypeOK', Linked, RecvNext, AllGood
  PROVE  AllGood'
<1>. SUFFICES ASSUME NEW s \in Sockets, s \notin late' PROVE Good(s)'
  BY DEF AllGood
<1>1. Good(s)
  BY LateGrows DEF AllGood
<1>2. Token(s) /\ ResetAlone(s) /\ Empty(s) /\ WaitOK(s) /\ Flow(s) /\ FreeAlone(s)
  BY <1>1 DEF Good, Token, Deserted, FreeAlone
<1>3. FreeAlone(s)'
  BY <1>2, FreeStays
<1>4. Token(s)'
  BY <1>2, <1>3, TokenNext
<1>5. ResetAlone(s)'
  BY <1>2, ResetStep
<1>6. Empty(s)'
  BY <1>2, EmptyStep
<1>7. WaitOK(s)'
  BY <1>2, <1>3, WaitStep
<1>8. Flow(s)'
  BY <1>2, <1>3, FlowStep
<1>. QED  BY <1>4, <1>5, <1>6, <1>7, <1>8 DEF Good

LEMMA RecvInitOK == RecvInit => RInv
<1>. SUFFICES ASSUME RecvInit PROVE RInv
  OBVIOUS
<1>1. IInv /\ JobsOK
  BY InitOK, JobsInit DEF RecvInit
<1>2. StillThere
  BY DEF RecvInit, StillThere
<1>. QED  BY <1>1, <1>2, RecvTypeInit, LinkedInit, UnreadInit, GoodInit DEF RInv

LEMMA RecvStutters == RInv /\ UNCHANGED <<vars, recvVars>> => RInv'
<1>. SUFFICES ASSUME RInv, UNCHANGED <<vars, recvVars>> PROVE RInv'
  OBVIOUS
<1>1. IInv' /\ JobsOK'
  BY Inductive, JobsStep DEF RInv
<1>2. UNCHANGED <<vars, step, kBuffer, kBufRecv, kFunOnRecv, pkCkListen, epoch, arrived, taken, late>>
  BY DEF recvVars, sockVars, netVars
<1>3. UNCHANGED <<th, posted, used, bWait>>
  BY <1>2 DEF vars
<1>4. RecvTypeOK'
  BY <1>1, <1>2 DEF RInv, RecvTypeOK, IInv
<1>5. Linked' /\ UnreadBounded' /\ StillThere'
  BY <1>2, <1>3 DEF RInv, Linked, LinkedTo, UnreadBounded, StillThere, At, Where
<1>6. AllGood'
  <2>. SUFFICES ASSUME NEW s \in Sockets, s \notin late PROVE Good(s)'
    BY <1>2 DEF AllGood
  <2>1. Good(s)
    BY DEF RInv, AllGood
  <2>2. Token(s)'
    BY <1>3, <2>1 DEF Good, Token, OneTaker, Deserted, OneAsker, Engaged, Takes, Begins, WaitsOn,
       Asks, Where
  <2>3. ResetAlone(s)' /\ Empty(s)' /\ WaitOK(s)'
    BY <1>2, <1>3, <2>1 DEF Good, ResetAlone, Empty, Opening, WaitOK, Engaged, Takes, Begins,
       WaitsOn, Where
  <2>4. SameStream(s) /\ (Live(s)' => Live(s))
    BY <1>2, <1>3 DEF SameStream, Adding, Live, Opened, Takes, WaitsOn, Where
  <2>. QED  BY <2>1, <2>2, <2>3, <2>4, IntactSame DEF Good, Flow
<1>. QED  BY <1>1, <1>4, <1>5, <1>6 DEF RInv

LEMMA RecvInductive == RInv /\ [RecvNext]_<<vars, recvVars>> => RInv'
<1>. SUFFICES ASSUME RInv, RecvNext PROVE RInv'
  BY RecvStutters
<1>1. IInv /\ JobsOK /\ RecvTypeOK /\ Linked /\ UnreadBounded /\ StillThere /\ AllGood
  BY DEF RInv
<1>2. IInv' /\ JobsOK'
  BY <1>1, RecvIsNext, Inductive, JobsStep
<1>3. TypeOK'
  BY <1>2 DEF IInv
<1>4. RecvTypeOK' /\ Linked'
  BY <1>1, <1>3, RecvTypeStep, LinkedStep
<1>5. UnreadBounded'
  BY <1>1, <1>4, UnreadStep
<1>6. StillThere'
  <2>1. \A s \in Sockets \ late : ResetAlone(s)
    BY <1>1 DEF AllGood, Good
  <2>. QED  BY <1>1, <2>1, StillStep
<1>7. AllGood'
  BY <1>1, <1>4, GoodStep
<1>. QED  BY <1>2, <1>4, <1>5, <1>6, <1>7 DEF RInv

LEMMA RecvInvariant == RecvSpec => []RInv
<1>. QED  BY RecvInitOK, RecvInductive, PTL DEF RecvSpec

-----------------------------------------------------------------------------
(* The theorems                                                             *)

\* kBufRecv, the buffers of the receives and the steps of handRecv stay within
\* their types, for every number of sockets, workers and callers.
THEOREM RecvTypes == RecvSpec => []RecvTypeOK
<1>1. RInv => RecvTypeOK
  BY DEF RInv
<1>. QED  BY <1>1, RecvInvariant, PTL

\* What the callback of handRecv finds in kBufRecv is what the peer of this
\* connection sent and it has not taken: in order, nothing left out, nothing
\* of an earlier connection, whatever number of workers completes receives and
\* however often the socket is taken from the pool again, on every socket that
\* had no receive left when it was init()ed, pending or in a late thread's hands.
THEOREM StreamArrivesInOrder == RecvSpec => []StreamInOrder
<1>1. ASSUME RInv PROVE StreamInOrder
  <2>. SUFFICES ASSUME NEW w \in Workers, step[w] \in {"call", "in"}, th[w].on \notin late
                PROVE  kBufRecv[th[w].on] =
                         Stream(th[w].on, taken[th[w].on], arrived[th[w].on] - taken[th[w].on])
    BY DEF StreamInOrder
  <2>1. IInv /\ RecvTypeOK /\ Linked
    BY <1>1 DEF RInv
  <2>2. PICK s \in Sockets : s = th[w].on
    BY <2>1, InStepOn
  <2>3. Token(s) /\ Flow(s)
    BY <1>1, <2>2 DEF RInv, AllGood, Good
  <2>4. Where(w) = "inRecv"
    BY <2>1 DEF Linked, LinkedTo, At, Where, Within
  <2>5. kBufRecv[s] = Unread(s)
    BY <2>1, <2>2, <2>3, <2>4, InHand
  <2>. QED  BY <2>2, <2>5 DEF Unread
<1>. QED  BY <1>1, RecvInvariant, PTL

\* A handler that found kFunOnRecv or pkCkListen set, which it reads without a
\* lock, finds it set when it uses it, unless init() overtook the handler: the
\* socket is not disconnected to the end while its receive is handled.
THEOREM FieldsStillThere == RecvSpec => []StillThere
<1>1. RInv => StillThere
  BY DEF RInv
<1>. QED  BY <1>1, RecvInvariant, PTL

\* handRecv measures kBufRecv after every receive, so that a socket never
\* holds more than NET_SOCKET_RECV_BUF_MAX bytes and what the workers that
\* have yet to measure it appended, also where stale handlers append to it.
THEOREM UnreadStaysBounded == RecvSpec => []UnreadBounded
<1>1. RInv => UnreadBounded
  BY DEF RInv
<1>. QED  BY <1>1, RecvInvariant, PTL
=============================================================================
