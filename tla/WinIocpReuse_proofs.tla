------------------------- MODULE WinIocpReuse_proofs -------------------------
(***************************************************************************)
(* Receives are one at a time and come after the callback that opens, on   *)
(* every socket that was not handed out too early: for every set of        *)
(* sockets and threads, with handlers of any length.                       *)
(*                                                                         *)
(* A receive is like a token of its socket: it is pending, or with the one *)
(* thread that handles it or will post the next (Recvs).  A new token is   *)
(* made when an accept or a connect completes, and when a call in          *)
(* reqConnectAndWait stops waiting.  Sound says why there is none yet at   *)
(* that time: the socket was taken with nobody on it, nobody joins until   *)
(* the completion, the only call that waits is the one that asked, and     *)
(* what it waits for are the others.                                       *)
(*                                                                         *)
(* Who is handed out too early, if nobody outlasts the delay: a socket in  *)
(* use, or ripe, with no connection and nobody in init() has nobody at     *)
(* all but its owner and calls in reqConnectAndWait (LeftAlone).           *)
(***************************************************************************)
EXTENDS WinIocpReuse, WinIocpLife_proofs

-----------------------------------------------------------------------------
(* The inductive invariant                                                  *)

\* t has the socket's receive, or will post it.
Recvs(t, s) == th[t].on = s /\ (th[t].job = "recv" \/ Where(t) \in RecvPlaces)

\* One receive is pending, or one thread has it.
OneToken(s) ==
  /\ posted[s]["recv"] <= 1
  /\ \A t \in Threads : Recvs(t, s) => posted[s]["recv"] = 0
  /\ \A t, u \in Threads : Recvs(t, s) /\ Recvs(u, s) => t = u

\* Nobody joins a socket that is being opened.  (One that is stuck never opens.)
Undisturbed(s) == conn[s] # "stuck" =>
  /\ \A t, u \in Threads : Begins(t, s) /\ th[u].on = s => u = t
  /\ posted[s]["accept"] > 0 => \A u \in Threads : th[u].on # s
  /\ posted[s]["connect"] > 0 => \A u \in Threads : th[u].on = s => th[u].at = "waitConn"

\* One call asked for the connection, and none where it was accepted.
OneAsks(s) ==
  /\ \A t, u \in Threads : Asks(t, s) /\ Asks(u, s) => t = u
  /\ \A t \in Threads : Asks(t, s) => th[t].job = "none"
  /\ \A t, u \in Threads : Asks(t, s) /\ th[u].on = s => th[u].job # "accept"

Sound(s) == OneToken(s) /\ Undisturbed(s) /\ OneAsks(s)

AllSound == \A s \in Sockets \ overtaken : Sound(s)

LEMMA SoundInit == ReuseInit => AllSound
<1>. SUFFICES ASSUME ReuseInit, NEW s \in Sockets PROVE Sound(s)
  BY DEF AllSound
<1>1. \A t \in Threads : th[t].on # s
  BY NoneAssumption DEF ReuseInit, Init, Idle
<1>2. \A o \in Ops : posted[s][o] = 0
  BY DEF ReuseInit, Init
<1>. QED  BY <1>1, <1>2 DEF Sound, OneToken, Undisturbed, OneAsks, Recvs, Begins, Asks, Ops

-----------------------------------------------------------------------------
(* A socket that could not be disconnected stays so                         *)

StillStuck(x) == conn[x] = "stuck" => conn'[x] = "stuck"

LEMMA StuckCompletion ==
  ASSUME IInv, NEW w \in Workers, NEW s \in Sockets, Completion(w, s), NEW x \in Sockets
  PROVE  StillStuck(x)
<1>1. conn \in [Sockets -> {"none", "up", "closing", "stuck"}] /\ posted \in [Sockets -> [Ops -> Nat]]
  BY DEF IInv, TypeOK
<1>2. CASE CompleteAccept(w, s) \/ CompleteConnect(w, s) \/ CompleteDisconnect(w, s)
  <2>1. PICK o \in {"accept", "connect", "disc"}, v \in {"up", "none"} :
          posted[s][o] > 0 /\ conn' = [conn EXCEPT ![s] = v]
    BY <1>2 DEF CompleteAccept, CompleteConnect, CompleteDisconnect, Finish
  <2>2. Pending(s, o)
    BY <2>1, PostedIsPending
  <2>3. conn[s] # "stuck"
    BY <2>2 DEF Pending
  <2>. QED  BY <1>1, <2>1, <2>3 DEF StillStuck
<1>3. CASE CompleteDisconnectFails(w, s)
  BY <1>1, <1>3 DEF CompleteDisconnectFails, StillStuck
<1>4. CASE \/ CompleteAcceptFails(w, s) \/ CompleteConnectFails(w, s)
           \/ CompleteRecv(w, s) \/ CompleteRecvFails(w, s)
  BY <1>4 DEF CompleteAcceptFails, CompleteConnectFails, CompleteRecv, CompleteRecvFails, StillStuck
<1>. QED  BY <1>2, <1>3, <1>4 DEF Completion

LEMMA StuckShared ==
  ASSUME IInv, NEW t \in Threads, Shared(t), NEW x \in Sockets
  PROVE  StillStuck(x)
<1>1. CASE PostDisconnect(t)
  <2>1. /\ th[t].on \in Sockets /\ Owns(t, th[t].on) /\ th[t].at \in UpPlaces
        /\ conn' = [conn EXCEPT ![th[t].on] = "closing"]
    BY <1>1 DEF PostDisconnect, IInv, ThreadOK, Owns, OwnPlaces, UpPlaces
  <2>2. conn[th[t].on] = "up"
    BY <2>1, OwnedIsMine DEF Mine
  <2>. QED  BY <2>1, <2>2 DEF StillStuck, IInv, TypeOK
<1>2. CASE ~ PostDisconnect(t)
  BY <1>2 DEF Shared, PostAccept, PostAcceptFails, HandError, WaitDisconnect,
     PostDisconnectFails, StillStuck
<1>. QED  BY <1>1, <1>2

LEMMA StuckStays ==
  ASSUME IInv, Next, NEW x \in Sockets
  PROVE  StillStuck(x)
<1>1. ASSUME NEW w \in Workers, Handler(w) PROVE conn' = conn
  BY <1>1 DEF Handler, HandAcceptOpen, AcceptCallbackReturns, HandAcceptRecv,
     HandAcceptRecvFails, HandAcceptDel, HandConnectOpen, ConnectCallbackReturns,
     HandConnectRecv, HandConnectRecvFails, HandConnectDel, HandRecvAgain, HandRecvPostFails,
     HandRecvOverflow, HandDisconnect
<1>2. ASSUME NEW c \in Callers, Call(c) PROVE conn' = conn
  BY <1>2 DEF Call, PostConnect, PostConnectFails, WaitConnect, WaitRecv, WaitRecvFails, WaitEnd
<1>3. ASSUME NEW t \in Threads, Accepting(t) PROVE conn' = conn
  BY <1>3 DEF Accepting, ReqAcceptNoSocket, ReqAccept
<1>4. ASSUME NEW c \in Callers, NEW s \in Sockets, Request(c, s) PROVE conn' = conn
  BY <1>4 DEF Request, PrepareCkSocket, ReqConnect, ReqDisconnect
<1>5. ASSUME NEW w \in Workers, NEW wait \in BOOLEAN, ReqDisconnectInCallback(w, wait)
      PROVE  conn' = conn
  BY <1>5 DEF ReqDisconnectInCallback
<1>6. ASSUME NEW s \in Sockets, TimeWaitOver(s) PROVE conn' = conn
  BY <1>6 DEF TimeWaitOver
<1>7. conn' = conn => StillStuck(x)
  BY DEF StillStuck
<1>. QED  BY <1>1, <1>2, <1>3, <1>4, <1>5, <1>6, <1>7, StuckCompletion, StuckShared DEF Next

-----------------------------------------------------------------------------
(* What a step of one thread may do to a socket                             *)

\* It goes on, or leaves, without becoming what it was not.
LEMMA SoundStays ==
  ASSUME NEW s \in Sockets, Sound(s), StillStuck(s),
         NEW t \in Threads, OnlyMoves(t), SameOps(s),
         th'[t].on = s =>
           /\ th[t].on = s /\ th'[t].job = th[t].job
           /\ Recvs(t, s)' => Recvs(t, s)
           /\ Begins(t, s)' => Begins(t, s)
           /\ Asks(t, s)' => Asks(t, s)
           /\ posted[s]["connect"] > 0 /\ At(t, "waitConn") => th'[t].at = "waitConn"
  PROVE  Sound(s)'
<1>1. \A u \in Threads : /\ Recvs(u, s)' => Recvs(u, s)
                         /\ Begins(u, s)' => Begins(u, s)
                         /\ Asks(u, s)' => Asks(u, s)
                         /\ th'[u].on = s => th[u].on = s /\ th'[u].job = th[u].job
  BY DEF OnlyMoves, Recvs, Begins, Asks, Where
<1>2. OneToken(s)'
  BY <1>1 DEF Sound, OneToken, SameOps
<1>3. Undisturbed(s)'
  BY <1>1 DEF Sound, Undisturbed, SameOps, OnlyMoves, At, StillStuck
<1>4. OneAsks(s)'
  BY <1>1 DEF Sound, OneAsks, Asks
<1>. QED  BY <1>2, <1>3, <1>4 DEF Sound

\* It gives its token to the kernel.
LEMMA SoundPosts ==
  ASSUME NEW s \in Sockets, Sound(s), StillStuck(s),
         NEW t \in Threads, OnlyMoves(t), TypeOK,
         Recvs(t, s), th'[t].on # s, Post(s, "recv")
  PROVE  Sound(s)'
<1>0. /\ posted'[s]["recv"] = posted[s]["recv"] + 1
      /\ posted'[s]["accept"] = posted[s]["accept"] /\ posted'[s]["connect"] = posted[s]["connect"]
  BY PostFacts DEF Ops
<1>1. \A u \in Threads : /\ Recvs(u, s)' => Recvs(u, s) /\ u # t
                         /\ Begins(u, s)' => Begins(u, s)
                         /\ Asks(u, s)' => Asks(u, s)
                         /\ th'[u].on = s => th[u] = th'[u]
  BY DEF OnlyMoves, Recvs, Begins, Asks, Where
<1>2. OneToken(s)'
  BY <1>0, <1>1 DEF Sound, OneToken
<1>3. Undisturbed(s)'
  BY <1>0, <1>1 DEF Sound, Undisturbed, StillStuck
<1>4. OneAsks(s)'
  BY <1>1 DEF Sound, OneAsks, Asks
<1>. QED  BY <1>2, <1>3, <1>4 DEF Sound

\* Nobody else is on the socket.
LEMMA SoundAlone ==
  ASSUME NEW s \in Sockets, NEW t \in Threads,
         \A u \in Threads : u # t => th'[u].on # s,
         posted'[s]["recv"] = 0,
         th'[t].on = s =>
           /\ posted'[s]["accept"] = 0
           /\ posted'[s]["connect"] > 0 => th'[t].at = "waitConn"
           /\ Asks(t, s)' => th'[t].job = "none",
         posted'[s]["accept"] \in Nat
  PROVE  Sound(s)'
<1>1. OneToken(s)'
  BY DEF OneToken, Recvs
<1>2. Undisturbed(s)'
  BY DEF Undisturbed, Begins
<1>3. OneAsks(s)'
  BY DEF OneAsks, Asks
<1>. QED  BY <1>1, <1>2, <1>3 DEF Sound

\* It joins a socket that is not being opened any more.
LEMMA SoundJoins ==
  ASSUME NEW s \in Sockets, Sound(s), StillStuck(s),
         NEW t \in Threads, OnlyMoves(t),
         posted'[s]["accept"] = 0, posted'[s]["connect"] = 0,
         posted[s]["recv"] \in Nat,
         conn[s] = "stuck" \/ \A u \in Threads : ~ Begins(u, s),
         ~ Begins(t, s)', ~ Asks(t, s)',
         th'[t].job # "accept",
         \/ posted'[s]["recv"] = posted[s]["recv"] /\ ~ Recvs(t, s)'
         \/ posted'[s]["recv"] = 0 /\ \A u \in Threads : ~ Recvs(u, s)
  PROVE  Sound(s)'
<1>1. \A u \in Threads : u # t => /\ Recvs(u, s)' <=> Recvs(u, s)
                                  /\ Begins(u, s)' <=> Begins(u, s)
                                  /\ Asks(u, s)' <=> Asks(u, s)
                                  /\ th'[u] = th[u]
  BY DEF OnlyMoves, Recvs, Begins, Asks, Where
<1>2. OneToken(s)'
  BY <1>1 DEF Sound, OneToken
<1>3. Undisturbed(s)'
  BY <1>1 DEF Undisturbed, StillStuck
<1>4. OneAsks(s)'
  BY <1>1 DEF Sound, OneAsks, Asks
<1>. QED  BY <1>2, <1>3, <1>4 DEF Sound

\* The socket is none of its business any more.
LEMMA SoundLeaves ==
  ASSUME NEW s \in Sockets, Sound(s), StillStuck(s),
         NEW t \in Threads, OnlyMoves(t), SameOps(s), th'[t].on # s
  PROVE  Sound(s)'
BY SoundStays

\* It moves to a place that leads nowhere new.
LEMMA SoundMoves ==
  ASSUME NEW s \in Sockets, Sound(s), StillStuck(s),
         NEW t \in Threads, OnlyMoves(t), SameOps(s),
         th'[t].on = th[t].on, th'[t].job = th[t].job,
         Where(t)' \in RecvPlaces => Where(t) \in RecvPlaces,
         th'[t].at \notin {"postAccept", "postConnect", "waitConn", "waitRecv"},
         ~ At(t, "waitConn")
  PROVE  Sound(s)'
<1>1. Recvs(t, s)' => Recvs(t, s)
  BY DEF Recvs
<1>. QED  BY <1>1, SoundStays DEF Begins, Asks

-----------------------------------------------------------------------------
(* Completions                                                              *)

LEMMA SoundCompletion ==
  ASSUME IInv, JobsOK, NEW w \in Workers, NEW s \in Sockets, Completion(w, s),
         NEW x \in Sockets, Sound(x), StillStuck(x)
  PROVE  Sound(x)'
<1>1. w \in Threads /\ TypeOK /\ At(w, "idle")
  BY DEF Threads, IInv, Completion, CompleteAccept, CompleteAcceptFails, CompleteConnect,
     CompleteConnectFails, CompleteRecv, CompleteRecvFails, CompleteDisconnect,
     CompleteDisconnectFails
<1>2. PICK o \in Ops :
        /\ Finish(s, o) /\ OnlyMoves(w)
        /\ th'[w].on = s
        /\ o = "accept"  => th'[w].job = "accept" /\ th'[w].at \in {"accOpen", "error"}
        /\ o = "connect" => th'[w].job = "connect" /\ th'[w].at \in {"conOpen", "error"}
        /\ o = "recv"    => th'[w].job = "recv" /\ th'[w].at \in {"inRecv", "error"}
        /\ o = "disc"    => th'[w].job = "disc" /\ th'[w].at = "inDisc"
  BY <1>1, MoveAnew DEF Completion, CompleteAccept, CompleteAcceptFails, CompleteConnect,
     CompleteConnectFails, CompleteRecv, CompleteRecvFails, CompleteDisconnect,
     CompleteDisconnectFails, Run, Ops
<1>3. CASE x # s
  <2>1. SameOps(x)
    BY <1>1, <1>2, <1>3, FinishFacts DEF SameOps, Ops
  <2>. QED  BY <1>1, <1>2, <1>3, <2>1, SoundLeaves
<1>4. CASE x = s
  <2>0. /\ posted[s][o] > 0 /\ posted'[s][o] = posted[s][o] - 1
        /\ \A p \in Ops : p # o => posted'[s][p] = posted[s][p]
        /\ \A p \in Ops : posted[s][p] \in Nat
    BY <1>1, <1>2, FinishFacts DEF TypeOK
  <2>. ~ Begins(w, s)' /\ ~ Asks(w, s)'
    BY <1>2 DEF Begins, Asks, Ops
  <2>1. CASE o = "accept"
    <3>1. Pending(s, "accept") /\ \A u \in Threads : th[u].on # s
      BY <1>4, <2>0, <2>1, PostedIsPending DEF Sound, Undisturbed, Pending
    <3>2. \A u \in Threads : u # w => th'[u].on # s
      BY <1>2, <3>1 DEF OnlyMoves
    <3>3. posted'[s]["accept"] = 0 /\ posted'[s]["connect"] = 0 /\ posted'[s]["recv"] = 0
      BY <2>0, <2>1, <3>1 DEF Pending, Ops
    <3>. QED  BY <1>1, <1>4, <3>2, <3>3, SoundAlone
  <2>2. CASE o = "connect"
    <3>1. /\ Pending(s, "connect")
          /\ \A u \in Threads : th[u].on = s => th[u].at = "waitConn" /\ th[u].job = "none"
      BY <1>4, <2>0, <2>2, PostedIsPending DEF Sound, Undisturbed, OneAsks, Asks, Pending
    <3>2. \A u \in Threads : ~ Begins(u, s) /\ ~ Recvs(u, s)
      BY <3>1 DEF Begins, Recvs, Where, Within, RecvPlaces
    <3>3. posted'[s]["accept"] = 0 /\ posted'[s]["connect"] = 0 /\ posted'[s]["recv"] = 0
      BY <2>0, <2>2, <3>1 DEF Pending, Ops
    <3>. QED  BY <1>1, <1>2, <1>4, <2>0, <2>2, <3>2, <3>3, SoundJoins DEF Ops
  <2>3. CASE o = "recv"
    <3>1. posted[s]["recv"] = 1 /\ \A u \in Threads : ~ Recvs(u, s)
      BY <1>4, <2>0, <2>3 DEF Sound, OneToken
    <3>2. posted[s]["accept"] = 0 /\ posted[s]["connect"] = 0
      BY <2>0, <3>1, PostedIsPending DEF Pending, Ops
    <3>3. conn[s] = "stuck" \/ \A u \in Threads : ~ Begins(u, s)
      BY <3>1, BeginsMine
    <3>. QED  BY <1>1, <1>2, <1>4, <2>0, <2>3, <3>1, <3>2, <3>3, SoundJoins DEF Ops
  <2>4. CASE o = "disc"
    <3>1. Pending(s, "disc")
      BY <2>0, <2>4, PostedIsPending
    <3>2. \A u \in Threads : ~ Begins(u, s)
      BY <3>1 DEF Pending, Nobody, Begins, Owns, OwnPlaces
    <3>3. ~ Recvs(w, s)'
      BY <1>2, <2>4 DEF Recvs, Where, Within, RecvPlaces
    <3>. QED  BY <1>1, <1>2, <1>4, <2>0, <2>4, <3>1, <3>2, <3>3, SoundJoins DEF Pending, Ops
  <2>. QED  BY <2>1, <2>2, <2>3, <2>4 DEF Ops
<1>. QED  BY <1>3, <1>4

-----------------------------------------------------------------------------
(* Handlers and calls                                                       *)

LEMMA SoundHandler ==
  ASSUME IInv, JobsOK, NEW w \in Workers, Handler(w), NEW x \in Sockets, Sound(x), StillStuck(x)
  PROVE  Sound(x)'
<1>. USE DEF At
<1>1. w \in Threads /\ TypeOK
  BY DEF Threads, IInv
<1>2. CASE \/ HandAcceptDel(w) \/ HandConnectDel(w) \/ HandDisconnect(w)
           \/ ConnectCallbackReturns(w) /\ bWait[th[w].on]
  <2>1. SameOps(x) /\ (Become(w, Idle) \/ Become(w, Again))
    BY <1>2 DEF HandAcceptDel, HandConnectDel, HandDisconnect, ConnectCallbackReturns, SameOps
  <2>2. th'[w].on # x /\ OnlyMoves(w)
    BY <1>1, <2>1, NoneOn
  <2>. QED  BY <1>1, <2>1, <2>2, SoundLeaves
<1>3. CASE \/ HandAcceptOpen(w) \/ AcceptCallbackReturns(w) \/ HandConnectOpen(w)
           \/ ConnectCallbackReturns(w) /\ ~ bWait[th[w].on]
  <2>1. /\ th'[w].on = th[w].on /\ th'[w].job = th[w].job /\ OnlyMoves(w) /\ SameOps(x)
        /\ th[w].at \in {"accOpen", "inAccept", "conOpen", "inConnect"}
        /\ th'[w].at \in {"inAccept", "accRecv", "inConnect", "conRecv"}
    BY <1>1, <1>3, MoveTo DEF HandAcceptOpen, AcceptCallbackReturns, HandConnectOpen,
       ConnectCallbackReturns, SameOps
  <2>2. Where(w) \in RecvPlaces
    BY <2>1 DEF Where, Within, RecvPlaces
  <2>. QED  BY <1>1, <2>1, <2>2, SoundMoves
<1>4. CASE \/ HandAcceptRecvFails(w) \/ HandConnectRecvFails(w) \/ HandRecvPostFails(w)
           \/ HandRecvOverflow(w)
  <2>1. /\ th'[w].on = th[w].on /\ th'[w].job = th[w].job /\ OnlyMoves(w) /\ SameOps(x)
        /\ th[w].at \in {"accRecv", "conRecv", "inRecv"}
        /\ th'[w].at = "error" /\ th'[w].back \in {"reAccept", "idle"}
    BY <1>1, <1>4, MoveToError DEF HandAcceptRecvFails, HandConnectRecvFails, HandRecvPostFails,
       HandRecvOverflow, SameOps
  <2>2. Where(w)' \notin RecvPlaces
    BY <2>1 DEF Where, Within, RecvPlaces
  <2>. QED  BY <1>1, <2>1, <2>2, SoundMoves
<1>5. CASE HandAcceptRecv(w) \/ HandConnectRecv(w) \/ HandRecvAgain(w)
  <2>1. /\ th'[w].on \notin Sockets /\ OnlyMoves(w) /\ Post(th[w].on, "recv")
        /\ th[w].at \in {"accRecv", "conRecv", "inRecv"}
    <3>1. /\ Become(w, Idle) \/ Become(w, Again)
          /\ Post(th[w].on, "recv") /\ th[w].at \in {"accRecv", "conRecv", "inRecv"}
      BY <1>5 DEF HandAcceptRecv, HandConnectRecv, HandRecvAgain, PostRecvOk
    <3>. QED  BY <1>1, <3>1, NoneOn
  <2>2. th[w].on \in Sockets
    BY <1>1, <2>1 DEF IInv, ThreadOK
  <2>3. CASE x = th[w].on
    <3>1. Recvs(w, x)
      BY <2>1, <2>3 DEF Recvs, Where, Within, RecvPlaces
    <3>. QED  BY <1>1, <2>1, <2>3, <3>1, SoundPosts
  <2>4. CASE x # th[w].on
    <3>1. SameOps(x)
      BY <1>1, <2>1, <2>2, <2>4, PostFacts DEF SameOps, Ops
    <3>. QED  BY <1>1, <2>1, <3>1, SoundLeaves
  <2>. QED  BY <2>3, <2>4
<1>. QED  BY <1>2, <1>3, <1>4, <1>5 DEF Handler

\* reqConnectAndWait has waited until nothing of the socket is pending or
\* handled: then the receive is its own to post.
LEMMA SoundWaits ==
  ASSUME IInv, JobsOK, NEW c \in Callers, WaitConnect(c), NEW s \in Sockets, Sound(s), StillStuck(s),
         th[c].on = s
  PROVE  Sound(s)'
<1>. USE DEF At
<1>1. /\ c \in Threads /\ TypeOK /\ OnlyMoves(c) /\ UNCHANGED posted
      /\ th[c].at = "waitConn" /\ th'[c].at = "waitRecv"
      /\ th'[c].on = s /\ th'[c].job = th[c].job
  BY MoveTo DEF Threads, IInv, WaitConnect
<1>2. Asks(c, s)
  BY <1>1 DEF Asks
<1>3. posted[s]["connect"] = 0 /\ posted[s]["recv"] = 0
  BY DEF WaitConnect, Quiet
<1>4. ASSUME NEW u \in Threads, u # c PROVE ~ Recvs(u, s)
  <2>. SUFFICES ASSUME Recvs(u, s) PROVE FALSE
    OBVIOUS
  <2>1. th[u].on = s /\ JobOK(u) /\ th[u].job # "accept" /\ ~ Asks(u, s)
    BY <1>1, <1>2, <1>4 DEF Recvs, JobsOK, Sound, OneAsks
  <2>2. u \in Workers => th[u].job \notin {"connect", "recv"}
    BY <2>1 DEF WaitConnect, Quiet
  <2>3. Where(u) # "waitRecv"
    <3>1. th[u].at \in Within => th[u].back # "waitRecv"
      BY DEF IInv, ThreadOK, Within
    <3>. QED  BY <2>1, <3>1 DEF Where, Asks
  <2>. QED  BY <2>1, <2>2, <2>3 DEF Recvs, JobOK, AcceptPlaces, RecvPlaces
<1>5. \A u \in Threads : /\ Recvs(u, s)' => u = c
                         /\ Begins(u, s)' => Begins(u, s)
                         /\ Asks(u, s)' <=> Asks(u, s)
                         /\ th'[u].on = th[u].on /\ th'[u].job = th[u].job
  BY <1>1, <1>2, <1>4 DEF OnlyMoves, Recvs, Begins, Asks, Where
<1>6. OneToken(s)'
  BY <1>1, <1>3, <1>5 DEF OneToken
<1>7. Undisturbed(s)'
  BY <1>1, <1>3, <1>5 DEF Sound, Undisturbed, StillStuck
<1>8. OneAsks(s)'
  BY <1>5 DEF Sound, OneAsks
<1>. QED  BY <1>6, <1>7, <1>8 DEF Sound

LEMMA SoundCall ==
  ASSUME IInv, JobsOK, NEW c \in Callers, Call(c), NEW x \in Sockets, Sound(x), StillStuck(x)
  PROVE  Sound(x)'
<1>. USE DEF At
<1>1. c \in Threads /\ TypeOK
  BY DEF Threads, IInv
<1>2. CASE PostConnectFails(c) \/ WaitEnd(c)
  <2>1. th'[c].on # x /\ OnlyMoves(c) /\ SameOps(x)
    BY <1>1, <1>2, MoveAnew, NoneAssumption DEF PostConnectFails, WaitEnd, Idle, SameOps
  <2>. QED  BY <1>1, <2>1, SoundLeaves
<1>3. CASE PostConnect(c)
  <2>1. /\ OnlyMoves(c) /\ th[c].at = "postConnect" /\ Post(th[c].on, "connect")
        /\ conn[th[c].on] = "none"
        /\ \/ th'[c] = Idle
           \/ th'[c].at = "waitConn" /\ th'[c].on = th[c].on /\ th'[c].job = th[c].job
    BY <1>1, <1>3, MoveAnew, MoveTo DEF PostConnect
  <2>2. th[c].on \in Sockets
    BY <1>1, <2>1 DEF IInv, ThreadOK
  <2>3. CASE x = th[c].on
    <3>1. Begins(c, x) /\ Asks(c, x)
      BY <2>1, <2>3 DEF Begins, Asks
    <3>2. NoOp(x) /\ posted[x]["recv"] = 0
      BY <1>1, <2>1, <2>3, <3>1, BeginsMine
    <3>3. /\ posted'[x]["accept"] = 0 /\ posted'[x]["recv"] = 0
      BY <1>1, <2>1, <2>3, <3>2, PostFacts DEF NoOp, Ops
    <3>4. \A u \in Threads : u # c => th'[u].on # x
      BY <1>1, <2>1, <2>3, <3>1 DEF Sound, Undisturbed, OnlyMoves
    <3>5. th'[c].on = x => th'[c].at = "waitConn" /\ th'[c].job = "none"
      BY <1>1, <2>1, <3>1, NoneAssumption DEF Sound, OneAsks, Idle
    <3>. QED  BY <1>1, <3>3, <3>4, <3>5, SoundAlone
  <2>4. CASE x # th[c].on
    <3>1. SameOps(x) /\ th'[c].on # x
      BY <1>1, <2>1, <2>2, <2>4, PostFacts, NoneAssumption DEF SameOps, Ops, Idle
    <3>. QED  BY <1>1, <2>1, <3>1, SoundLeaves
  <2>. QED  BY <2>3, <2>4
<1>4. CASE WaitConnect(c)
  <2>1. CASE x = th[c].on
    BY <1>4, <2>1, SoundWaits
  <2>2. CASE x # th[c].on
    <3>1. th'[c].on # x /\ OnlyMoves(c) /\ SameOps(x)
      BY <1>1, <1>4, <2>2, MoveTo DEF WaitConnect, SameOps
    <3>. QED  BY <1>1, <3>1, SoundLeaves
  <2>. QED  BY <2>1, <2>2
<1>5. CASE WaitRecv(c)
  <2>1. /\ th'[c].on \notin Sockets /\ OnlyMoves(c) /\ Post(th[c].on, "recv")
        /\ th[c].at = "waitRecv"
    BY <1>1, <1>5, MoveAnew, NoneAssumption DEF WaitRecv, PostRecvOk, Idle
  <2>2. th[c].on \in Sockets
    BY <1>1, <2>1 DEF IInv, ThreadOK
  <2>3. CASE x = th[c].on
    <3>1. Recvs(c, x)
      BY <2>1, <2>3 DEF Recvs, Where, Within, RecvPlaces
    <3>. QED  BY <1>1, <2>1, <2>3, <3>1, SoundPosts
  <2>4. CASE x # th[c].on
    <3>1. SameOps(x)
      BY <1>1, <2>1, <2>2, <2>4, PostFacts DEF SameOps, Ops
    <3>. QED  BY <1>1, <2>1, <3>1, SoundLeaves
  <2>. QED  BY <2>3, <2>4
<1>6. CASE WaitRecvFails(c)
  <2>1. /\ th'[c].on = th[c].on /\ th'[c].job = th[c].job /\ OnlyMoves(c) /\ SameOps(x)
        /\ th[c].at = "waitRecv" /\ th'[c].at = "error" /\ th'[c].back = "waitEnd"
    BY <1>1, <1>6, MoveToError DEF WaitRecvFails, SameOps
  <2>2. Where(c)' \notin RecvPlaces
    BY <2>1 DEF Where, Within, RecvPlaces
  <2>. QED  BY <1>1, <2>1, <2>2, SoundMoves
<1>. QED  BY <1>2, <1>3, <1>4, <1>5, <1>6 DEF Call

-----------------------------------------------------------------------------
(* What handlers and calls share, and disconnecting                         *)

LEMMA SoundBack ==
  ASSUME IInv, NEW t \in Threads, th[t].at \in Within, Return(t),
         NEW x \in Sockets, Sound(x), SameOps(x), StillStuck(x)
  PROVE  Sound(x)'
<1>1. TypeOK /\ ThreadOK(t)
  BY DEF IInv
<1>2. CASE th[t].back = "idle"
  <2>1. th'[t].on # x /\ OnlyMoves(t)
    BY <1>1, <1>2, MoveBack, NoneAssumption DEF Idle
  <2>. QED  BY <2>1, SoundLeaves
<1>3. CASE th[t].back # "idle"
  <2>1. /\ th'[t].on = th[t].on /\ th'[t].job = th[t].job /\ OnlyMoves(t)
        /\ th'[t].at = th[t].back
    BY <1>1, <1>3, MoveBack
  <2>2. th[t].back \notin Within \cup {"postAccept", "postConnect", "waitConn", "waitRecv"}
    BY <1>1 DEF ThreadOK, Within
  <2>3. Where(t)' = Where(t) /\ ~ At(t, "waitConn")
    BY <2>1, <2>2 DEF Where, At, Within
  <2>. QED  BY <2>1, <2>2, <2>3, SoundMoves
<1>. QED  BY <1>2, <1>3

LEMMA SoundShared ==
  ASSUME IInv, JobsOK, NEW t \in Threads, Shared(t), NEW x \in Sockets, Sound(x), StillStuck(x)
  PROVE  Sound(x)'
<1>. USE DEF At
<1>1. TypeOK
  BY DEF IInv
<1>2. CASE PostAcceptFails(t)
  <2>1. th'[t].on # x /\ OnlyMoves(t) /\ SameOps(x)
    BY <1>1, <1>2, MoveAnew, NoneAssumption DEF PostAcceptFails, Idle, SameOps
  <2>. QED  BY <2>1, SoundLeaves
<1>3. CASE PostAccept(t)
  <2>1. /\ OnlyMoves(t) /\ th[t].at = "postAccept" /\ Post(th[t].on, "accept")
        /\ th'[t].on \notin Sockets /\ conn[th[t].on] = "none"
    BY <1>1, <1>3, MoveAnew, NoneAssumption DEF PostAccept, Idle
  <2>2. th[t].on \in Sockets
    BY <2>1 DEF IInv, ThreadOK
  <2>3. CASE x = th[t].on
    <3>1. Begins(t, x)
      BY <2>1, <2>3 DEF Begins
    <3>2. posted[x]["recv"] = 0 /\ NoOp(x)
      BY <2>1, <2>3, <3>1, BeginsMine
    <3>3. posted'[x]["recv"] = 0 /\ posted'[x]["accept"] \in Nat
      BY <1>1, <2>1, <2>3, <3>2, PostFacts DEF Ops
    <3>4. \A u \in Threads : u # t => th'[u].on # x
      BY <2>1, <2>3, <3>1 DEF Sound, Undisturbed, OnlyMoves
    <3>. QED  BY <2>1, <3>3, <3>4, SoundAlone
  <2>4. CASE x # th[t].on
    <3>1. SameOps(x)
      BY <1>1, <2>1, <2>2, <2>4, PostFacts DEF SameOps, Ops
    <3>. QED  BY <2>1, <3>1, SoundLeaves
  <2>. QED  BY <2>3, <2>4
<1>4. CASE HandError(t) \/ PostDisconnect(t) \/ PostDisconnectFails(t) \/ WaitDisconnect(t)
  <2>1. th[t].at \in Within
    BY <1>4 DEF HandError, PostDisconnect, PostDisconnectFails, WaitDisconnect, Within
  <2>2. SameOps(x)
    <3>1. CASE PostDisconnect(t)
      <4>1. th[t].on \in Sockets /\ Post(th[t].on, "disc")
        BY <3>1 DEF PostDisconnect, IInv, ThreadOK
      <4>. QED  BY <1>1, <4>1, PostFacts DEF SameOps, Ops
    <3>. QED  BY <1>4, <3>1 DEF HandError, PostDisconnectFails, WaitDisconnect, SameOps
  <2>3. CASE Return(t)
    BY <2>1, <2>2, <2>3, SoundBack
  <2>4. CASE Goto(t, "postDisc") \/ Goto(t, "waitDisc")
    <3>1. /\ th'[t].on = th[t].on /\ th'[t].job = th[t].job /\ th'[t].back = th[t].back
          /\ th'[t].at \in {"postDisc", "waitDisc"} /\ OnlyMoves(t)
      BY <1>1, <2>4, MoveTo
    <3>2. Where(t)' = Where(t) /\ ~ At(t, "waitConn")
      BY <2>1, <3>1 DEF Where, Within
    <3>. QED  BY <2>2, <3>1, <3>2, SoundMoves
  <2>. QED  BY <1>4, <2>3, <2>4 DEF HandError, PostDisconnect, PostDisconnectFails,
                WaitDisconnect
<1>. QED  BY <1>2, <1>3, <1>4 DEF Shared

LEMMA SoundInCallback ==
  ASSUME IInv, NEW w \in Workers, NEW wait \in BOOLEAN, ReqDisconnectInCallback(w, wait),
         NEW x \in Sockets, Sound(x), StillStuck(x)
  PROVE  Sound(x)'
<1>1. w \in Threads /\ TypeOK
  BY DEF Threads, IInv
<1>2. /\ th'[w].on = th[w].on /\ th'[w].job = th[w].job /\ OnlyMoves(w) /\ SameOps(x)
      /\ th'[w].at \in {"postDisc", "postDiscWait"} /\ th'[w].back = th[w].at
      /\ th[w].at \in Callbacks
  BY <1>1 DEF ReqDisconnectInCallback, DiscPlace, TypeOK, ThreadState, OnlyMoves, SameOps
<1>3. Where(w)' = Where(w) /\ ~ At(w, "waitConn")
  BY <1>2 DEF Where, Within, Callbacks, At
<1>. QED  BY <1>1, <1>2, <1>3, SoundMoves

-----------------------------------------------------------------------------
(* Taking a socket, and the other requests                                  *)

\* The socket that is taken was free, and so were all threads of it.
LEMMA TakenAlone ==
  ASSUME IInv, NEW t \in Threads, NEW k \in Kinds, NEW s \in Sockets, NewSocket(k, s),
         OnlyMoves(t), UNCHANGED posted,
         th'[t].on = s, Asks(t, s)' => th'[t].job = "none", ~ Recvs(t, s)',
         NEW x \in Sockets, Sound(x), StillStuck(x), x = s => Busy(x) = {}
  PROVE  Sound(x)'
<1>1. CASE x # s
  BY <1>1, SoundLeaves DEF SameOps
<1>2. CASE x = s
  <2>1. Free(s)
    <3>1. CASE FrontRipe(k) /\ s = Head(pool[k])
      <4>1. pool[k] \in Seq(Sockets) /\ pool[k] # <<>>
        BY <3>1 DEF FrontRipe, IInv, TypeOK
      <4>2. 1 \in 1..Len(pool[k]) /\ pool[k][1] = s
        BY <3>1, <4>1
      <4>. QED  BY <4>2, PooledIsFree DEF Pooled
    <3>2. CASE Fresh(s)
      BY <3>2, UnusedIsFree DEF Fresh
    <3>. QED  BY <3>1, <3>2 DEF NewSocket
  <2>2. \A u \in Threads : u # t => th'[u].on # s
    BY <1>2 DEF Busy, OnlyMoves
  <2>3. posted'[s]["accept"] = 0 /\ posted'[s]["connect"] = 0
    BY <2>1 DEF Free, NoOp
  <2>4. CASE posted[s]["recv"] = 0
    BY <1>2, <2>2, <2>3, <2>4, SoundAlone
  <2>5. CASE conn[s] = "stuck"
    <3>1. OneToken(s)'
      BY <1>2, <2>2 DEF Sound, OneToken, Recvs
    <3>2. Undisturbed(s)'
      BY <1>2, <2>5 DEF Undisturbed, StillStuck
    <3>3. OneAsks(s)'
      BY <2>2 DEF OneAsks, Asks
    <3>. QED  BY <1>2, <3>1, <3>2, <3>3 DEF Sound
  <2>. QED  BY <2>1, <2>4, <2>5 DEF Free, AtRest
<1>. QED  BY <1>1, <1>2

\* The socket a step took out of its pool, or made, was left by all threads.
NotOvertaken(x) == x \in used' \ used => Busy(x) = {}

LEMMA TakenIsNew ==
  ASSUME IInv, NEW k \in Kinds, NEW s \in Sockets, NewSocket(k, s), NotOvertaken(s)
  PROVE  Busy(s) = {}
<1>1. s \notin used
  <2>1. CASE FrontRipe(k) /\ s = Head(pool[k])
    <3>1. pool[k] \in Seq(Sockets) /\ pool[k] # <<>>
      BY <2>1 DEF FrontRipe, IInv, TypeOK
    <3>2. 1 \in 1..Len(pool[k]) /\ pool[k][1] = s
      BY <2>1, <3>1
    <3>. QED  BY <3>2, PooledIsFree DEF Pooled, Free
  <2>2. CASE Fresh(s)
    BY <2>2 DEF Fresh
  <2>. QED  BY <2>1, <2>2 DEF NewSocket
<1>. QED  BY <1>1 DEF NewSocket, NotOvertaken

LEMMA SoundAccepting ==
  ASSUME IInv, JobsOK, NEW t \in Threads, Accepting(t),
         NEW x \in Sockets, Sound(x), StillStuck(x), NotOvertaken(x)
  PROVE  Sound(x)'
<1>1. TypeOK
  BY DEF IInv
<1>2. CASE ReqAcceptNoSocket(t)
  <2>1. SameOps(x) /\ Become(t, Idle)
    BY <1>2 DEF ReqAcceptNoSocket, SameOps
  <2>2. th'[t].on # x /\ OnlyMoves(t)
    BY <1>1, <2>1, NoneOn
  <2>. QED  BY <2>1, <2>2, SoundLeaves
<1>3. ASSUME NEW s \in Sockets, ReqAccept(t, s) PROVE Sound(x)'
  <2>1. /\ "ACCEPT" \in Kinds /\ NewSocket("ACCEPT", s) /\ UNCHANGED posted
        /\ th'[t].on = s /\ th'[t].at = "postAccept" /\ OnlyMoves(t)
    BY <1>1, <1>3 DEF ReqAccept, TypeOK, ThreadState, OnlyMoves, Kinds
  <2>2. x = s => Busy(x) = {}
    BY <2>1, TakenIsNew
  <2>3. ~ Asks(t, s)'
    BY <2>1 DEF Asks
  <2>4. th[t].job # "recv" /\ th'[t].job = th[t].job
    <3>1. JobOK(t) /\ (t \in Callers \/ At(t, "reAccept"))
      BY <1>3 DEF JobsOK, ReqAccept, MayAccept
    <3>2. t \in Callers => th[t].job # "recv"
      BY <3>1, ThreadsAssumption DEF JobOK
    <3>3. At(t, "reAccept") => th[t].job # "recv"
      BY <3>1 DEF JobOK, At, Where, Within, AcceptPlaces
    <3>4. th'[t].job = th[t].job
      BY <1>1, <1>3 DEF ReqAccept, TypeOK, ThreadState
    <3>. QED  BY <3>1, <3>2, <3>3, <3>4
  <2>5. ~ Recvs(t, s)'
    BY <2>1, <2>4 DEF Recvs, Where, Within, RecvPlaces
  <2>. QED  BY <2>1, <2>2, <2>3, <2>5, TakenAlone
<1>. QED  BY <1>2, <1>3 DEF Accepting

LEMMA SoundRequest ==
  ASSUME IInv, NEW c \in Callers, NEW s \in Sockets, Request(c, s),
         NEW x \in Sockets, Sound(x), StillStuck(x), NotOvertaken(x)
  PROVE  Sound(x)'
<1>1. c \in Threads /\ TypeOK
  BY DEF Threads, IInv
<1>2. CASE PrepareCkSocket(c, s)
  <2>1. UNCHANGED <<posted, conn, th>>
    BY <1>2 DEF PrepareCkSocket
  <2>. QED  BY <2>1 DEF Sound, OneToken, Undisturbed, OneAsks, Recvs, Begins, Asks, Where
<1>3. ASSUME NEW wait \in BOOLEAN, ReqConnect(c, s, wait) PROVE Sound(x)'
  <2>1. /\ "CONNECT" \in Kinds /\ NewSocket("CONNECT", s) /\ UNCHANGED posted
        /\ th'[c] = [Idle EXCEPT !.at = "postConnect", !.on = s] /\ OnlyMoves(c)
    BY <1>1, <1>3, MoveAnew DEF ReqConnect, Kinds
  <2>2. th'[c].on = s /\ th'[c].job = "none" /\ th'[c].at = "postConnect"
    BY <2>1 DEF Idle
  <2>3. x = s => Busy(x) = {}
    BY <2>1, TakenIsNew
  <2>4. ~ Recvs(c, s)'
    BY <2>2 DEF Recvs, Where, Within, RecvPlaces
  <2>. QED  BY <1>1, <2>1, <2>2, <2>3, <2>4, TakenAlone
<1>4. ASSUME NEW wait \in BOOLEAN, ReqDisconnect(c, s, wait) PROVE Sound(x)'
  <2>1. /\ UNCHANGED posted /\ bEnable[s]
        /\ th'[c] = [Idle EXCEPT !.at = DiscPlace(wait), !.on = s] /\ OnlyMoves(c)
    BY <1>1, <1>4, MoveAnew DEF ReqDisconnect, Disable
  <2>2. /\ th'[c].on = s /\ th'[c].job = "none" /\ th'[c].back = "idle"
        /\ th'[c].at \in {"postDisc", "postDiscWait"}
    BY <2>1 DEF Idle, DiscPlace
  <2>3. CASE x # s
    BY <1>1, <2>1, <2>2, <2>3, SoundLeaves DEF SameOps
  <2>4. CASE x = s
    <3>1. NoOp(x) /\ Nobody(x)
      BY <2>1, <2>4, EnabledIsEnabled DEF Enabled
    <3>2. \A u \in Threads : ~ Begins(u, x)
      BY <3>1 DEF Nobody, Begins, Owns, OwnPlaces
    <3>3. ~ Begins(c, x)' /\ ~ Asks(c, x)' /\ ~ Recvs(c, x)'
      BY <2>2 DEF Begins, Asks, Recvs, Where, Within, RecvPlaces
    <3>4. posted[x]["recv"] \in Nat
      BY <1>1 DEF TypeOK, Ops
    <3>. QED  BY <1>1, <2>1, <2>2, <3>1, <3>2, <3>3, <3>4, SoundJoins DEF NoOp
  <2>. QED  BY <2>3, <2>4
<1>. QED  BY <1>2, <1>3, <1>4 DEF Request

-----------------------------------------------------------------------------
(* The invariant holds                                                      *)

LEMMA SoundStep ==
  IInv /\ JobsOK /\ AllSound /\ [ReuseNext]_<<vars, overtaken>> => AllSound'
<1>. SUFFICES ASSUME IInv, JobsOK, AllSound, [ReuseNext]_<<vars, overtaken>>,
                     NEW x \in Sockets, x \notin overtaken'
              PROVE  Sound(x)'
  BY DEF AllSound
<1>1. CASE UNCHANGED <<vars, overtaken>>
  <2>1. Sound(x) /\ UNCHANGED <<posted, conn, th>>
    BY <1>1 DEF AllSound, vars
  <2>. QED  BY <2>1 DEF Sound, OneToken, Undisturbed, OneAsks, Recvs, Begins, Asks, Where
<1>2. CASE ReuseNext
  <2>1. Next /\ Sound(x) /\ NotOvertaken(x) /\ StillStuck(x)
    BY <1>2, StuckStays DEF AllSound, ReuseNext, NotOvertaken
  <2>2. CASE \E s \in Sockets : TimeWaitOver(s)
    <3>1. UNCHANGED <<posted, conn, th>>
      BY <2>2 DEF TimeWaitOver
    <3>. QED  BY <2>1, <3>1 DEF Sound, OneToken, Undisturbed, OneAsks, Recvs, Begins, Asks, Where
  <2>. QED  BY <2>1, <2>2, SoundCompletion, SoundHandler, SoundInCallback, SoundCall,
               SoundRequest, SoundShared, SoundAccepting DEF Next
<1>. QED  BY <1>1, <1>2

LEMMA ReuseInvariant == ReuseSpec => [](IInv /\ JobsOK /\ AllSound)
<1>1. ReuseInit => IInv /\ JobsOK /\ AllSound
  BY InitOK, JobsInit, SoundInit DEF ReuseInit
<1>2. [ReuseNext]_<<vars, overtaken>> => [Next]_vars
  BY DEF ReuseNext
<1>3. (IInv /\ JobsOK /\ AllSound) /\ [ReuseNext]_<<vars, overtaken>>
        => (IInv /\ JobsOK /\ AllSound)'
  BY <1>2, Inductive, JobsStep, SoundStep
<1>. QED  BY <1>1, <1>3, PTL DEF ReuseSpec

-----------------------------------------------------------------------------
(* The theorems                                                             *)

\* kBufRecv needs no lock: on a socket that was not handed out too early, one
\* receive at most is pending or being handled, over all its connections.
THEOREM OneReceiveAtATime == ReuseSpec => []OneReceive
<1>1. IInv /\ JobsOK /\ AllSound => OneReceive
  <2>. SUFFICES ASSUME IInv, AllSound, NEW s \in Sockets \ overtaken
                PROVE  posted[s]["recv"]
                         + Cardinality({w \in Workers : th[w].job = "recv" /\ th[w].on = s}) <= 1
    BY DEF OneReceive
  <2>. DEFINE Handling == {w \in Workers : th[w].job = "recv" /\ th[w].on = s}
  <2>1. OneToken(s) /\ posted[s]["recv"] \in Nat
    BY DEF AllSound, Sound, IInv, TypeOK, Ops
  <2>2. \A w \in Handling : w \in Threads /\ Recvs(w, s)
    BY DEF Threads, Recvs
  <2>3. CASE Handling = {}
    <3>1. Cardinality(Handling) = 0
      BY <2>3, FS_EmptySet
    <3>. QED  BY <2>1, <3>1 DEF OneToken
  <2>4. CASE Handling # {}
    <3>1. PICK w \in Handling : TRUE
      BY <2>4
    <3>2. Handling = {w}
      BY <2>1, <2>2, <3>1 DEF OneToken
    <3>3. Cardinality(Handling) = 1
      BY <3>2, FS_Singleton
    <3>4. posted[s]["recv"] = 0
      BY <2>1, <2>2, <3>1 DEF OneToken
    <3>. QED  BY <3>3, <3>4
  <2>. QED  BY <2>3, <2>4
<1>. QED  BY <1>1, ReuseInvariant, PTL

\* The accept or connect callback, which is to set kFunOnRecv, returns before
\* the first receive of the connection is posted, on a socket that was not
\* handed out too early.
THEOREM CallbackFirst == ReuseSpec => []ReceiveAfterOpen
<1>1. IInv /\ JobsOK /\ AllSound => ReceiveAfterOpen
  <2>. SUFFICES ASSUME IInv, JobsOK, AllSound, NEW w \in Workers,
                       th[w].at \in {"accOpen", "inAccept", "conOpen", "inConnect"},
                       th[w].on \notin overtaken
                PROVE  /\ posted[th[w].on]["recv"] = 0
                       /\ \A v \in Workers : th[v].on = th[w].on => th[v].job # "recv"
    BY DEF ReceiveAfterOpen
  <2>1. w \in Threads /\ ThreadOK(w) /\ JobOK(w)
    BY DEF Threads, IInv, JobsOK
  <2>2. th[w].on \in Sockets
    BY <2>1 DEF ThreadOK
  <2>3. /\ OneToken(th[w].on) /\ Recvs(w, th[w].on)
        /\ Where(w) \in {"accOpen", "inAccept", "conOpen", "inConnect"}
    BY <2>2 DEF AllSound, Sound, Recvs, RecvPlaces, Where, Within
  <2>4. th[w].job # "recv"
    BY <2>1, <2>3 DEF JobOK, AcceptPlaces
  <2>5. ASSUME NEW v \in Workers, th[v].on = th[w].on, th[v].job = "recv" PROVE FALSE
    <3>1. v \in Threads /\ Recvs(v, th[w].on)
      BY <2>5 DEF Threads, Recvs
    <3>2. v = w
      BY <2>1, <2>3, <3>1 DEF OneToken
    <3>. QED  BY <2>4, <2>5, <3>2
  <2>. QED  BY <2>1, <2>3, <2>5 DEF OneToken
<1>. QED  BY <1>1, ReuseInvariant, PTL

-----------------------------------------------------------------------------
(* Who is overtaken when nobody outlasts the delay                          *)

\* t is in reqConnectAndWait, after its connect was posted.
WaitPlaces == {"waitConn", "waitRecv", "waitEnd"}
Lingers(t) == Where(t) \in WaitPlaces

\* Nothing but the front of its pool is between the socket and a new owner:
\* it will be pooled ripe, or is.
Reusable(s) ==
  /\ conn[s] = "none" /\ (s \in used \/ ripe[s])
  /\ \A t \in Threads : th[t].on = s => th[t].at # "inDisc"

\* Whoever is on such a socket owns it, or waits in reqConnectAndWait; a
\* socket that was not yet created has nobody.
LeftAlone(s) ==
  /\ Reusable(s) => \A t \in Threads : th[t].on = s => Owns(t, s) \/ Lingers(t)
  /\ Fresh(s) => ripe[s] /\ conn[s] = "none" /\ \A t \in Threads : th[t].on # s

AllLeftAlone == \A s \in Sockets : LeftAlone(s)

LEMMA LeftInit == Init => AllLeftAlone
<1>. SUFFICES ASSUME Init, NEW s \in Sockets PROVE LeftAlone(s)
  BY DEF AllLeftAlone
<1>1. ripe[s] /\ conn[s] = "none" /\ \A t \in Threads : th[t].on # s
  BY NoneAssumption DEF Init, Idle
<1>. QED  BY <1>1 DEF LeftAlone

\* A socket that is no nearer to a new owner stays as it was.
LEMMA LeftStays ==
  ASSUME NEW x \in Sockets, LeftAlone(x), NEW t \in Threads, OnlyMoves(t),
         conn'[x] = "none" => conn[x] = "none",
         x \in used' \/ ripe'[x] => x \in used \/ ripe[x],
         th[t].on = x => th[t].at # "inDisc",
         th'[t].on = x =>
           \/ Owns(t, x)' \/ Lingers(t)' \/ conn'[x] # "none"
           \/ th[t].on = x /\ ~ Owns(t, x) /\ ~ Lingers(t),
         Fresh(x)' => /\ Fresh(x) /\ conn'[x] = conn[x]
                      /\ th'[t].on = x => th[t].on = x
                      /\ ripe'[x] = ripe[x] \/ th[t].on = x
  PROVE  LeftAlone(x)'
<1>1. \A u \in Threads : u # t => /\ th'[u] = th[u]
                                  /\ Owns(u, x)' <=> Owns(u, x)
                                  /\ Lingers(u)' <=> Lingers(u)
  BY DEF OnlyMoves, Owns, Lingers, Where, At
<1>2. ASSUME Reusable(x)', NEW u \in Threads, th'[u].on = x
      PROVE  Owns(u, x)' \/ Lingers(u)'
  <2>1. Reusable(x)
    BY <1>1, <1>2 DEF Reusable
  <2>. QED  BY <1>1, <1>2, <2>1 DEF LeftAlone, Reusable
<1>3. ASSUME Fresh(x)' PROVE ripe'[x] /\ conn'[x] = "none" /\ \A u \in Threads : th'[u].on # x
  BY <1>1, <1>3 DEF LeftAlone
<1>. QED  BY <1>2, <1>3 DEF LeftAlone

\* So does one that the step only passes by.
LEMMA LeftSame ==
  ASSUME NEW x \in Sockets, LeftAlone(x), NEW t \in Threads, OnlyMoves(t),
         UNCHANGED <<pool, used, ripe>>, conn'[x] = "none" => conn[x] = "none",
         Fresh(x) => conn'[x] = conn[x],
         th[t].on = x => th[t].at # "inDisc",
         th'[t].on = x =>
           /\ th[t].on = x \/ ~ Fresh(x)
           /\ \/ Owns(t, x)' \/ Lingers(t)' \/ conn'[x] # "none"
              \/ th[t].on = x /\ ~ Owns(t, x) /\ ~ Lingers(t)
  PROVE  LeftAlone(x)'
<1>1. Fresh(x)' <=> Fresh(x)
  BY DEF Fresh, Pooled
<1>. QED  BY <1>1, LeftStays

\* init(), and the socket goes to its pool.
LEMMA LeftDel ==
  ASSUME IInv, NEW x \in Sockets, LeftAlone(x), NEW t \in Threads, NEW s \in Sockets,
         Owns(t, s), th[t].on = s, DelSocket(s), UNCHANGED conn,
         Become(t, Idle) \/ Become(t, Again),
         IF th[t].at = "inDisc" THEN ripe' = [ripe EXCEPT ![s] = FALSE] ELSE UNCHANGED ripe
  PROVE  LeftAlone(x)'
<1>1. TypeOK /\ Mine(t, s)
  BY OwnedIsMine DEF IInv
<1>2. th'[t].on \notin Sockets /\ OnlyMoves(t)
  BY <1>1, NoneOn
<1>3. used' = used \ {s} /\ \A y \in Sockets : Pooled(y)' <=> Pooled(y) \/ y = s
  BY <1>1, PutSocket DEF DelSocket, Mine
<1>4. Fresh(x)' => Fresh(x) /\ x # s
  BY <1>1, <1>3 DEF Fresh, Mine
<1>5. CASE x = s /\ th[t].at = "inDisc"
  <2>1. ~ ripe'[x] /\ x \notin used' /\ ~ Fresh(x)'
    BY <1>1, <1>3, <1>4, <1>5 DEF TypeOK
  <2>. QED  BY <2>1 DEF LeftAlone, Reusable
<1>6. CASE ~ (x = s /\ th[t].at = "inDisc")
  <2>1. ripe'[x] = ripe[x] /\ (th[t].on = x => th[t].at # "inDisc")
    BY <1>1, <1>6 DEF TypeOK
  <2>2. x \in used' \/ ripe'[x] => x \in used \/ ripe[x]
    BY <1>3, <2>1
  <2>. QED  BY <1>2, <1>4, <2>1, <2>2, LeftStays
<1>. QED  BY <1>5, <1>6

\* A thread that has just taken a socket owns it.
LEMMA LeftTake ==
  ASSUME IInv, NEW x \in Sockets, LeftAlone(x), NEW t \in Threads, NEW k \in Kinds,
         NEW s \in Sockets, LeftAlone(s), NewSocket(k, s), OnlyMoves(t),
         th[t].at \in {"idle", "reAccept"}, th'[t].on = s,
         th'[t].at \in {"postAccept", "postConnect"}, UNCHANGED <<ripe, conn>>
  PROVE  LeftAlone(x)'
<1>1. used' = used \cup {s} /\ ripe[s]
  BY DEF NewSocket, LeftAlone, FrontRipe
<1>2. \A y \in Sockets : y # s => (Pooled(y)' <=> Pooled(y))
  BY TakeFront DEF NewSocket, FrontRipe, Pooled
<1>3. Fresh(x)' => Fresh(x) /\ x # s
  BY <1>1, <1>2 DEF Fresh
<1>4. Owns(t, s)' /\ th[t].at # "inDisc"
  BY DEF Owns, OwnPlaces
<1>5. x \in used' \/ ripe'[x] => x \in used \/ ripe[x]
  BY <1>1
<1>. QED  BY <1>1, <1>3, <1>4, <1>5, LeftStays

LEMMA LeftCompletion ==
  ASSUME IInv, NEW w \in Workers, NEW s \in Sockets, Completion(w, s),
         NEW x \in Sockets, LeftAlone(x), LeftAlone(s)
  PROVE  LeftAlone(x)'
<1>1. w \in Threads /\ TypeOK /\ At(w, "idle") /\ UNCHANGED <<pool, used, ripe>>
  BY DEF Threads, IInv, Completion, CompleteAccept, CompleteAcceptFails, CompleteConnect,
     CompleteConnectFails, CompleteRecv, CompleteRecvFails, CompleteDisconnect,
     CompleteDisconnectFails
<1>2. PICK o \in Ops :
        /\ Finish(s, o) /\ OnlyMoves(w) /\ th'[w].on = s
        /\ o \in {"accept", "connect"} =>
             \/ th'[w].at \in {"accOpen", "conOpen"} /\ conn' = [conn EXCEPT ![s] = "up"]
             \/ /\ th'[w].at = "error" /\ th'[w].back \in {"accDel", "conDel"}
                /\ UNCHANGED conn
        /\ o = "recv" => UNCHANGED conn
        /\ o = "disc" =>
             /\ th'[w].at = "inDisc"
             /\ conn' = [conn EXCEPT ![s] = "none"] \/ conn' = [conn EXCEPT ![s] = "stuck"]
  BY <1>1, MoveAnew DEF Completion, CompleteAccept, CompleteAcceptFails, CompleteConnect,
     CompleteConnectFails, CompleteRecv, CompleteRecvFails, CompleteDisconnect,
     CompleteDisconnectFails, Run, Ops
<1>3. posted[s][o] > 0 /\ th[w].at # "inDisc"
  BY <1>1, <1>2 DEF Finish, At
<1>4. ~ Fresh(s)
  BY <1>3, UnusedIsFree DEF LeftAlone, Fresh, Free, NoOp, AtRest, Ops
<1>5. CASE x # s
  <2>1. conn'[x] = conn[x]
    BY <1>1, <1>2, <1>5 DEF TypeOK, Ops
  <2>. QED  BY <1>1, <1>2, <1>3, <1>5, <2>1, LeftSame
<1>6. CASE x = s /\ o \in {"accept", "connect"}
  <2>1. Owns(w, s)' /\ (conn'[s] = "none" => conn[s] = "none")
    BY <1>1, <1>2, <1>6 DEF Owns, OwnPlaces, At, TypeOK
  <2>. QED  BY <1>1, <1>2, <1>3, <1>4, <1>6, <2>1, LeftSame
<1>7. CASE x = s /\ o = "recv"
  <2>1. conn[s] # "none" /\ conn' = conn
    <3>1. SocketOK(s)
      BY DEF IInv
    <3>. QED  BY <1>2, <1>3, <1>7, <3>1 DEF SocketOK, Free, Enabled, Lost, Mine, Pending, AtRest, UpPlaces
  <2>. QED  BY <1>1, <1>2, <1>3, <1>4, <1>7, <2>1, LeftSame
<1>8. CASE x = s /\ o = "disc"
  <2>1. ~ Reusable(s)'
    BY <1>1, <1>2, <1>8 DEF Reusable
  <2>2. ~ Fresh(s)'
    BY <1>1, <1>4 DEF Fresh, Pooled
  <2>. QED  BY <1>8, <2>1, <2>2 DEF LeftAlone
<1>. QED  BY <1>5, <1>6, <1>7, <1>8 DEF Ops

LEMMA LeftHandler ==
  ASSUME IInv, NEW w \in Workers, Handler(w), NEW x \in Sockets, LeftAlone(x)
  PROVE  LeftAlone(x)'
<1>. USE DEF At
<1>1. w \in Threads /\ TypeOK /\ (th[w].at \notin {"idle", "reAccept"} => th[w].on \in Sockets)
  BY DEF Threads, IInv, ThreadOK
<1>2. CASE HandAcceptDel(w) \/ HandConnectDel(w) \/ HandDisconnect(w)
  <2>1. /\ th[w].on \in Sockets /\ Owns(w, th[w].on) /\ DelSocket(th[w].on) /\ UNCHANGED conn
        /\ Become(w, Idle) \/ Become(w, Again)
        /\ IF th[w].at = "inDisc" THEN ripe' = [ripe EXCEPT ![th[w].on] = FALSE]
                                  ELSE UNCHANGED ripe
    BY <1>1, <1>2 DEF HandAcceptDel, HandConnectDel, HandDisconnect, Owns, OwnPlaces
  <2>. QED  BY <1>1, <2>1, LeftDel
<1>3. CASE HandAcceptOpen(w) \/ HandConnectOpen(w)
  <2>1. /\ th[w].at \in {"accOpen", "conOpen"} /\ th[w].on \in Sockets
        /\ ripe' = [ripe EXCEPT ![th[w].on] = FALSE] /\ UNCHANGED <<pool, used, conn>>
        /\ th'[w].on = th[w].on /\ OnlyMoves(w)
    BY <1>1, <1>3, MoveTo DEF HandAcceptOpen, HandConnectOpen
  <2>2. Mine(w, th[w].on) /\ conn[th[w].on] = "up"
    BY <1>1, <2>1, OwnedIsMine DEF Owns, OwnPlaces, Mine, UpPlaces
  <2>3. Fresh(x)' => Fresh(x) /\ th[w].on # x
    BY <2>1, <2>2 DEF Fresh, Pooled, Mine
  <2>4. (x \in used' \/ ripe'[x] => x \in used \/ ripe[x]) /\ (th[w].on # x => ripe'[x] = ripe[x])
    BY <1>1, <2>1 DEF TypeOK
  <2>. QED  BY <1>1, <2>1, <2>2, <2>3, <2>4, LeftStays
<1>4. CASE AcceptCallbackReturns(w) \/ ConnectCallbackReturns(w)
  <2>1. /\ th[w].at \in {"inAccept", "inConnect"} /\ UNCHANGED <<pool, used, ripe, conn>>
        /\ th'[w].on = th[w].on \/ th'[w].on \notin Sockets
        /\ OnlyMoves(w)
    BY <1>1, <1>4, MoveTo, NoneOn DEF AcceptCallbackReturns, ConnectCallbackReturns
  <2>2. ~ Owns(w, x) /\ ~ Lingers(w)
    BY <2>1 DEF Owns, OwnPlaces, Lingers, Where, Within, WaitPlaces
  <2>. QED  BY <1>1, <2>1, <2>2, LeftSame
<1>5. CASE \/ HandAcceptRecv(w) \/ HandAcceptRecvFails(w)
           \/ HandConnectRecv(w) \/ HandConnectRecvFails(w)
           \/ HandRecvAgain(w) \/ HandRecvPostFails(w) \/ HandRecvOverflow(w)
  <2>1. /\ th[w].at \in {"accRecv", "conRecv", "inRecv"} /\ th[w].on \in Sockets
        /\ UNCHANGED <<pool, used, conn>>
        /\ UNCHANGED ripe \/ ripe' = [ripe EXCEPT ![th[w].on] = FALSE]
    BY <1>1, <1>5 DEF HandAcceptRecv, HandAcceptRecvFails, HandConnectRecv,
       HandConnectRecvFails, HandRecvAgain, HandRecvPostFails, HandRecvOverflow
  <2>2. OnlyMoves(w) /\ (th'[w].on = th[w].on \/ th'[w].on \notin Sockets)
    <3>1. \/ Become(w, Idle) \/ Become(w, Again)
          \/ Fail(w, "reAccept") \/ Fail(w, "idle")
      BY <1>5 DEF HandAcceptRecv, HandAcceptRecvFails, HandConnectRecv,
         HandConnectRecvFails, HandRecvAgain, HandRecvPostFails, HandRecvOverflow
    <3>. QED  BY <1>1, <3>1, NoneOn, MoveToError
  <2>3. ~ Owns(w, x) /\ ~ Lingers(w)
    BY <2>1 DEF Owns, OwnPlaces, Lingers, Where, Within, WaitPlaces
  <2>4. (x \in used' \/ ripe'[x] => x \in used \/ ripe[x]) /\ (th[w].on # x => ripe'[x] = ripe[x])
    BY <1>1, <2>1 DEF TypeOK
  <2>5. Fresh(x)' <=> Fresh(x)
    BY <2>1 DEF Fresh, Pooled
  <2>. QED  BY <1>1, <2>1, <2>2, <2>3, <2>4, <2>5, LeftStays
<1>. QED  BY <1>2, <1>3, <1>4, <1>5 DEF Handler

LEMMA LeftCall ==
  ASSUME IInv, NEW c \in Callers, Call(c), NEW x \in Sockets, LeftAlone(x)
  PROVE  LeftAlone(x)'
<1>. USE DEF At
<1>1. c \in Threads /\ TypeOK /\ (th[c].at \notin {"idle", "reAccept"} => th[c].on \in Sockets)
  BY DEF Threads, IInv, ThreadOK
<1>2. CASE PostConnectFails(c)
  <2>1. /\ th[c].on \in Sockets /\ Owns(c, th[c].on) /\ DelSocket(th[c].on)
        /\ UNCHANGED <<conn, ripe>> /\ Become(c, Idle) /\ th[c].at # "inDisc"
    BY <1>1, <1>2 DEF PostConnectFails, Owns, OwnPlaces
  <2>. QED  BY <1>1, <2>1, LeftDel
<1>3. CASE PostConnect(c) \/ WaitConnect(c) \/ WaitRecv(c) \/ WaitRecvFails(c) \/ WaitEnd(c)
  <2>1. /\ th[c].at \in {"postConnect", "waitConn", "waitRecv", "waitEnd"}
        /\ UNCHANGED <<pool, used, ripe, conn>>
        /\ \/ Goto(c, "waitConn") \/ Goto(c, "waitRecv")
           \/ Fail(c, "waitEnd") \/ Become(c, Idle)
    BY <1>3 DEF PostConnect, WaitConnect, WaitRecv, WaitRecvFails, WaitEnd
  <2>2. /\ OnlyMoves(c) /\ (th'[c].on = th[c].on \/ th'[c].on \notin Sockets)
        /\ th'[c].on \in Sockets => Lingers(c)'
    BY <1>1, <2>1, MoveTo, MoveToError, NoneOn DEF Lingers, Where, Within, WaitPlaces
  <2>. QED  BY <1>1, <2>1, <2>2, LeftSame
<1>. QED  BY <1>2, <1>3 DEF Call

LEMMA LeftShared ==
  ASSUME IInv, NEW t \in Threads, Shared(t), NEW x \in Sockets, LeftAlone(x)
  PROVE  LeftAlone(x)'
<1>. USE DEF At
<1>1. TypeOK /\ ThreadOK(t) /\ (th[t].at \notin {"idle", "reAccept"} => th[t].on \in Sockets)
  BY DEF IInv, ThreadOK
<1>2. CASE PostAcceptFails(t)
  <2>1. /\ th[t].on \in Sockets /\ Owns(t, th[t].on) /\ DelSocket(th[t].on)
        /\ UNCHANGED <<conn, ripe>> /\ Become(t, Idle) /\ th[t].at # "inDisc"
    BY <1>1, <1>2 DEF PostAcceptFails, Owns, OwnPlaces
  <2>. QED  BY <2>1, LeftDel
<1>3. CASE PostAccept(t)
  <2>1. /\ th[t].at = "postAccept" /\ UNCHANGED <<pool, used, ripe, conn>> /\ Become(t, Idle)
    BY <1>3 DEF PostAccept
  <2>2. OnlyMoves(t) /\ th'[t].on \notin Sockets
    BY <1>1, <2>1, NoneOn
  <2>. QED  BY <2>1, <2>2, LeftSame
<1>4. CASE HandError(t) /\ Goto(t, "postDisc")
  <2>1. /\ th[t].at = "error" /\ UNCHANGED <<pool, used, ripe, conn>>
        /\ th'[t].on = th[t].on /\ th'[t].at = "postDisc" /\ OnlyMoves(t)
    BY <1>1, <1>4, MoveTo DEF HandError
  <2>2. th'[t].on = x => Owns(t, x)'
    BY <2>1 DEF Owns, OwnPlaces
  <2>. QED  BY <2>1, <2>2, LeftSame
<1>5. CASE PostDisconnect(t) \/ PostDisconnectFails(t)
  <2>1. /\ th[t].at \in {"postDisc", "postDiscWait"} /\ th[t].on \in Sockets
        /\ UNCHANGED <<pool, used, ripe>>
        /\ conn' = [conn EXCEPT ![th[t].on] = "closing"] \/ conn' = conn
        /\ Goto(t, "waitDisc") \/ Return(t)
    BY <1>1, <1>5 DEF PostDisconnect, PostDisconnectFails
  <2>2. conn[th[t].on] = "up"
    BY <2>1, OwnedIsMine DEF Owns, OwnPlaces, Mine, UpPlaces
  <2>3. OnlyMoves(t) /\ (th'[t].on = th[t].on \/ th'[t].on \notin Sockets)
    BY <1>1, <2>1, MoveTo, MoveBack, NoneAssumption DEF Idle
  <2>4. /\ conn'[x] = "none" => conn[x] = "none"
        /\ th'[t].on = x => conn'[x] # "none"
        /\ Fresh(x) => conn'[x] = conn[x]
    <3>1. Fresh(x) => th[t].on # x
      BY DEF LeftAlone
    <3>. QED  BY <1>1, <2>1, <2>2, <2>3, <3>1 DEF TypeOK
  <2>. QED  BY <2>1, <2>3, <2>4, LeftSame
<1>6. CASE (HandError(t) \/ WaitDisconnect(t)) /\ Return(t)
  <2>1. th[t].at \in {"error", "waitDisc"} /\ UNCHANGED <<pool, used, ripe, conn>>
    BY <1>6 DEF HandError, WaitDisconnect
  <2>2. /\ OnlyMoves(t)
        /\ th[t].back = "idle" => th'[t].on \notin Sockets
        /\ th[t].back # "idle" => th'[t].on = th[t].on /\ th'[t].at = th[t].back
    BY <1>1, <1>6, MoveBack, NoneAssumption DEF Idle
  <2>3. th[t].back # "idle" /\ th[t].on = x /\ Owns(t, x) => Owns(t, x)'
    BY <2>1, <2>2 DEF Owns, OwnPlaces
  <2>4. th[t].back # "idle" /\ Lingers(t) => Lingers(t)'
    BY <2>1, <2>2 DEF Lingers, Where, Within, WaitPlaces
  <2>. QED  BY <2>1, <2>2, <2>3, <2>4, LeftSame
<1>. QED  BY <1>2, <1>3, <1>4, <1>5, <1>6 DEF Shared, HandError, WaitDisconnect

\* Whoever finds bEnable true owns the socket; nobody is in init() then.
LEMMA LeftDisable ==
  ASSUME IInv, NEW t \in Threads, NEW s \in Sockets, Disable(s), OnlyMoves(t),
         th[t].at = "idle" \/ th[t].on = s, th'[t].on = s,
         th'[t].at \in {"postDisc", "postDiscWait"}, UNCHANGED <<pool, used, ripe, conn>>,
         NEW x \in Sockets, LeftAlone(x)
  PROVE  LeftAlone(x)'
<1>1. Enabled(s)
  BY EnabledIsEnabled DEF Disable
<1>2. th[t].at # "inDisc" /\ ~ Fresh(s)
  BY <1>1 DEF Enabled, Nobody, Owns, OwnPlaces, Fresh
<1>3. Owns(t, s)'
  BY DEF Owns, OwnPlaces
<1>. QED  BY <1>2, <1>3, LeftSame

LEMMA LeftInCallback ==
  ASSUME IInv, NEW w \in Workers, NEW wait \in BOOLEAN, ReqDisconnectInCallback(w, wait),
         NEW x \in Sockets, LeftAlone(x)
  PROVE  LeftAlone(x)'
<1>1. w \in Threads /\ TypeOK
  BY DEF Threads, IInv
<1>2. PICK s \in Sockets : s = th[w].on
  BY <1>1 DEF IInv, ThreadOK, ReqDisconnectInCallback, Callbacks
<1>3. /\ Disable(s) /\ OnlyMoves(w) /\ UNCHANGED <<pool, used, ripe, conn>>
      /\ th'[w].at \in {"postDisc", "postDiscWait"} /\ th'[w].on = s
  BY <1>1, <1>2 DEF ReqDisconnectInCallback, DiscPlace, TypeOK, ThreadState, OnlyMoves
<1>. QED  BY <1>1, <1>2, <1>3, LeftDisable

LEMMA LeftAccepting ==
  ASSUME IInv, NEW t \in Threads, Accepting(t), AllLeftAlone, NEW x \in Sockets
  PROVE  LeftAlone(x)'
<1>1. TypeOK /\ LeftAlone(x)
  BY DEF IInv, AllLeftAlone
<1>2. CASE ReqAcceptNoSocket(t)
  <2>1. /\ th[t].at \in {"idle", "reAccept"} /\ UNCHANGED <<pool, used, ripe, conn>>
        /\ Become(t, Idle)
    BY <1>2 DEF ReqAcceptNoSocket, MayAccept, At
  <2>2. OnlyMoves(t) /\ th'[t].on \notin Sockets
    BY <1>1, <2>1, NoneOn
  <2>. QED  BY <1>1, <2>1, <2>2, LeftSame
<1>3. ASSUME NEW s \in Sockets, ReqAccept(t, s) PROVE LeftAlone(x)'
  <2>1. /\ "ACCEPT" \in Kinds /\ NewSocket("ACCEPT", s) /\ th[t].at \in {"idle", "reAccept"}
        /\ th'[t].at = "postAccept" /\ th'[t].on = s /\ OnlyMoves(t) /\ UNCHANGED <<ripe, conn>>
    BY <1>1, <1>3 DEF ReqAccept, MayAccept, At, TypeOK, ThreadState, OnlyMoves, Kinds
  <2>2. LeftAlone(s)
    BY DEF AllLeftAlone
  <2>. QED  BY <1>1, <2>1, <2>2, LeftTake
<1>. QED  BY <1>2, <1>3 DEF Accepting

LEMMA LeftRequest ==
  ASSUME IInv, NEW c \in Callers, NEW s \in Sockets, Request(c, s), AllLeftAlone,
         NEW x \in Sockets
  PROVE  LeftAlone(x)'
<1>1. c \in Threads /\ TypeOK /\ LeftAlone(x) /\ LeftAlone(s)
  BY DEF Threads, IInv, AllLeftAlone
<1>2. CASE PrepareCkSocket(c, s)
  <2>1. /\ UNCHANGED <<used, ripe, conn, th>> /\ ~ Pooled(s)
        /\ pool' = [pool EXCEPT ![Kind[s]] = <<s>> \o @]
    BY <1>2 DEF PrepareCkSocket, Fresh
  <2>2. \A y \in Sockets : Pooled(y)' <=> Pooled(y) \/ y = s
    BY <2>1, PutSocket
  <2>3. Fresh(x)' => Fresh(x)
    BY <2>1, <2>2 DEF Fresh
  <2>. QED  BY <1>1, <2>1, <2>3 DEF LeftAlone, Reusable, Owns, Lingers, Where, At
<1>3. ASSUME NEW wait \in BOOLEAN, ReqConnect(c, s, wait) PROVE LeftAlone(x)'
  <2>1. /\ "CONNECT" \in Kinds /\ NewSocket("CONNECT", s) /\ th[c].at = "idle"
        /\ th'[c] = [Idle EXCEPT !.at = "postConnect", !.on = s] /\ OnlyMoves(c)
        /\ UNCHANGED <<ripe, conn>>
    BY <1>1, <1>3, MoveAnew DEF ReqConnect, At, Kinds
  <2>2. th'[c].at = "postConnect" /\ th'[c].on = s
    BY <2>1 DEF Idle
  <2>. QED  BY <1>1, <2>1, <2>2, LeftTake
<1>4. ASSUME NEW wait \in BOOLEAN, ReqDisconnect(c, s, wait) PROVE LeftAlone(x)'
  <2>1. /\ Disable(s) /\ th[c].at = "idle" /\ OnlyMoves(c)
        /\ th'[c] = [Idle EXCEPT !.at = DiscPlace(wait), !.on = s]
        /\ UNCHANGED <<pool, used, ripe, conn>>
    BY <1>1, <1>4, MoveAnew DEF ReqDisconnect, At
  <2>2. th'[c].at \in {"postDisc", "postDiscWait"} /\ th'[c].on = s
    BY <2>1 DEF Idle, DiscPlace
  <2>. QED  BY <1>1, <2>1, <2>2, LeftDisable
<1>. QED  BY <1>2, <1>3, <1>4 DEF Request

\* The delay ends: with nobody on the socket, as no call lasts that long.
LEMMA LeftTime ==
  ASSUME PromptHandlers, IInv, NEW s \in Sockets, TimeWaitOver(s),
         NEW x \in Sockets, LeftAlone(x)
  PROVE  LeftAlone(x)'
<1>1. /\ Pooled(s) /\ \A t \in Threads : th[t].on # s
      /\ ripe' = [ripe EXCEPT ![s] = TRUE] /\ UNCHANGED <<pool, used, conn, th>>
  BY DEF TimeWaitOver
<1>2. Fresh(x)' => Fresh(x) /\ x # s
  BY <1>1 DEF Fresh, Pooled
<1>3. CASE x = s
  BY <1>1, <1>2, <1>3 DEF LeftAlone
<1>4. CASE x # s
  <2>1. ripe'[x] = ripe[x]
    BY <1>1, <1>4 DEF IInv, TypeOK
  <2>. QED  BY <1>1, <1>2, <2>1 DEF LeftAlone, Reusable, Owns, Lingers, Where, At
<1>. QED  BY <1>3, <1>4

LEMMA LeftStep ==
  ASSUME PromptHandlers
  PROVE  IInv /\ AllLeftAlone /\ [Next]_vars => AllLeftAlone'
<1>. SUFFICES ASSUME IInv, AllLeftAlone, [Next]_vars, NEW x \in Sockets PROVE LeftAlone(x)'
  BY DEF AllLeftAlone
<1>1. \A s \in Sockets : LeftAlone(s)
  BY DEF AllLeftAlone
<1>2. CASE UNCHANGED vars
  BY <1>1, <1>2 DEF vars, LeftAlone, Reusable, Owns, Lingers, Where, At, Fresh, Pooled
<1>3. CASE Next
  BY <1>1, <1>3, LeftCompletion, LeftHandler, LeftInCallback, LeftCall, LeftRequest, LeftShared,
     LeftAccepting, LeftTime DEF Next
<1>. QED  BY <1>2, <1>3

\* The socket that is handed out has nobody but who waits.
LEMMA TakenFromWaiters ==
  ASSUME IInv, AllLeftAlone, NEW k \in Kinds, NEW s \in Sockets, NewSocket(k, s),
         conn[s] # "stuck", NEW t \in Busy(s)
  PROVE  InConnectAndWait(t)
<1>1. /\ t \in Threads /\ th[t].on = s /\ ThreadOK(t) /\ LeftAlone(s)
  BY DEF Busy, IInv, AllLeftAlone
<1>2. Free(s) /\ ripe[s]
  <2>1. CASE FrontRipe(k) /\ s = Head(pool[k])
    BY <2>1, TakeFront, PooledIsFree DEF FrontRipe, NewSocket
  <2>2. CASE Fresh(s)
    BY <1>1, <2>2, UnusedIsFree DEF LeftAlone, Fresh
  <2>. QED  BY <2>1, <2>2 DEF NewSocket
<1>3. Reusable(s) /\ ~ Owns(t, s)
  BY <1>1, <1>2 DEF Reusable, Free, Nobody, AtRest, Owns, OwnPlaces
<1>4. Lingers(t)
  BY <1>1, <1>3 DEF LeftAlone
<1>. QED  BY <1>1, <1>4 DEF Lingers, Where, Within, WaitPlaces, ThreadOK, InConnectAndWait

\* Only newCompleteKeySocket puts a socket into use.
LEMMA OnlyTakingUses ==
  ASSUME Next, NEW s \in used' \ used
  PROVE  \E k \in Kinds : NewSocket(k, s)
<1>. SUFFICES ASSUME \A k \in Kinds : ~ NewSocket(k, s) PROVE used' \subseteq used
  OBVIOUS
<1>0. /\ "ACCEPT" \in Kinds /\ "CONNECT" \in Kinds
      /\ \A y \in Sockets, k \in Kinds : NewSocket(k, y) => y = s \/ s \in used
  BY DEF Kinds, NewSocket
<1>1. ASSUME NEW w \in Workers, NEW y \in Sockets, Completion(w, y) PROVE used' \subseteq used
  BY <1>1 DEF Completion, CompleteAccept, CompleteAcceptFails, CompleteConnect,
     CompleteConnectFails, CompleteRecv, CompleteRecvFails, CompleteDisconnect,
     CompleteDisconnectFails
<1>2. ASSUME NEW w \in Workers, Handler(w) PROVE used' \subseteq used
  BY <1>2 DEF Handler, HandAcceptOpen, AcceptCallbackReturns, HandAcceptRecv,
     HandAcceptRecvFails, HandAcceptDel, HandConnectOpen, ConnectCallbackReturns,
     HandConnectRecv, HandConnectRecvFails, HandConnectDel, HandRecvAgain, HandRecvPostFails,
     HandRecvOverflow, HandDisconnect, DelSocket
<1>3. ASSUME NEW c \in Callers, Call(c) PROVE used' \subseteq used
  BY <1>3 DEF Call, PostConnect, PostConnectFails, WaitConnect, WaitRecv, WaitRecvFails,
     WaitEnd, DelSocket
<1>4. ASSUME NEW t \in Threads, Shared(t) PROVE used' \subseteq used
  BY <1>4 DEF Shared, PostAccept, PostAcceptFails, HandError, WaitDisconnect, PostDisconnect,
     PostDisconnectFails, DelSocket
<1>5. ASSUME NEW t \in Threads, Accepting(t) PROVE used' \subseteq used
  BY <1>0, <1>5 DEF Accepting, ReqAcceptNoSocket, ReqAccept
<1>6. ASSUME NEW c \in Callers, NEW y \in Sockets, Request(c, y) PROVE used' \subseteq used
  BY <1>0, <1>6 DEF Request, PrepareCkSocket, ReqConnect, ReqDisconnect
<1>7. ASSUME NEW w \in Workers, NEW wait \in BOOLEAN, ReqDisconnectInCallback(w, wait)
      PROVE  used' \subseteq used
  BY <1>7 DEF ReqDisconnectInCallback
<1>8. ASSUME NEW y \in Sockets, TimeWaitOver(y) PROVE used' \subseteq used
  BY <1>8 DEF TimeWaitOver
<1>. QED  BY <1>1, <1>2, <1>3, <1>4, <1>5, <1>6, <1>7, <1>8 DEF Next

\* The delay of newCompleteKeySocket is there so that a socket is not handed
\* out again while a handler or a call is at work on it.  If none of them
\* outlasts it, that fails for threads inside reqConnectAndWait only, for any
\* number of sockets and threads.
THEOREM OnlyWaitersOvertaken ==
  ASSUME PromptHandlers PROVE Spec => OnlyAWaiterIsOvertaken
<1>1. Init => IInv /\ AllLeftAlone
  BY InitOK, LeftInit
<1>2. IInv /\ AllLeftAlone /\ [Next]_vars => (IInv /\ AllLeftAlone)'
  BY Inductive, LeftStep
<1>3. IInv /\ IInv' /\ AllLeftAlone /\ [Next]_vars
        => [\A s \in (used' \ used) \ Stuck : \A t \in Busy(s) : InConnectAndWait(t)]_vars
  <2>. SUFFICES ASSUME IInv, IInv', AllLeftAlone, Next,
                       NEW s \in (used' \ used) \ Stuck, NEW t \in Busy(s)
                PROVE  InConnectAndWait(t)
    OBVIOUS
  <2>1. s \in Sockets /\ conn[s] # "stuck"
    BY DEF IInv, TypeOK, Stuck
  <2>. QED  BY <2>1, OnlyTakingUses, TakenFromWaiters
<1>. QED  BY <1>1, <1>2, <1>3, PTL DEF Spec, OnlyAWaiterIsOvertaken
=============================================================================
