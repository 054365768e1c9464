--------------------------- MODULE WinIocp_proofs ---------------------------
(***************************************************************************)
(* Proofs about WinIocp for every set of sockets and threads, with and     *)
(* without PromptHandlers and WaitInCallback.                              *)
(*                                                                         *)
(* OneHolder is not inductive: that no two threads get past bEnable rests  *)
(* on what every other place of a thread says about the socket, on the     *)
(* place a thread returns to, and on the kernel's view of the connection.  *)
(* The inductive invariant IInv adds those.  A step changes one thread and *)
(* one socket, so lemma Frame carries IInv over for all the others and     *)
(* each action has to be looked at on its own socket only.                 *)
(***************************************************************************)
EXTENDS WinIocp, SequenceTheorems, TLAPS

-----------------------------------------------------------------------------
(* The inductive invariant                                                  *)

\* A busy thread has a socket, and goes back only where the code does.
ThreadOK(t) ==
  /\ th[t].at \notin {"idle", "reAccept"} => th[t].on \in Sockets
  /\ th[t].at = "error" => th[t].back \in {"idle", "reAccept", "accDel", "conDel", "waitEnd"}
  /\ th[t].at \in {"postDisc", "postDiscWait", "waitDisc"} =>
       th[t].back \in {"idle", "inAccept", "inConnect", "inRecv", "reAccept", "waitEnd"}

\* A pool has sockets of its kind, each once.
PoolOK(k) ==
  /\ \A i \in 1..Len(pool[k]) : Kind[pool[k][i]] = k
  /\ \A i, j \in 1..Len(pool[k]) : pool[k][i] = pool[k][j] => i = j

NoOp(s)   == posted[s]["accept"] = 0 /\ posted[s]["connect"] = 0 /\ posted[s]["disc"] = 0
Nobody(s) == \A t \in Threads : ~ Owns(t, s)

\* The kernel has no connection and no receive, or one it could not disconnect.
AtRest(s) == conn[s] = "stuck" \/ (conn[s] = "none" /\ posted[s]["recv"] = 0)

\* A socket not in use, pooled or not created yet, is at rest.
Free(s) ==
  /\ s \notin used /\ s \notin leaked /\ ~ bEnable[s]
  /\ NoOp(s) /\ Nobody(s) /\ AtRest(s)

\* The owning places at which the connection is up
UpPlaces == {"accOpen", "conOpen", "postDisc", "postDiscWait"}

\* Thread t has the socket to itself.
Mine(t, s) ==
  /\ s \in used /\ s \notin leaked /\ ~ bEnable[s] /\ ~ Pooled(s)
  /\ NoOp(s) /\ Owns(t, s) /\ \A u \in Threads : u # t => ~ Owns(u, s)
  /\ IF th[t].at \in UpPlaces THEN conn[s] = "up" ELSE AtRest(s)

\* The connection is the application's.
Enabled(s) ==
  /\ s \in used /\ s \notin leaked /\ bEnable[s] /\ ~ Pooled(s)
  /\ NoOp(s) /\ Nobody(s) /\ conn[s] = "up"

\* postDisconnect failed.
Lost(s) ==
  /\ s \in used /\ s \in leaked /\ ~ bEnable[s] /\ ~ Pooled(s)
  /\ NoOp(s) /\ Nobody(s) /\ conn[s] = "up"

\* One AcceptEx, ConnectEx or DisconnectEx is pending.
Pending(s, o) ==
  /\ s \in used /\ s \notin leaked /\ ~ bEnable[s] /\ ~ Pooled(s)
  /\ posted[s][o] = 1 /\ Nobody(s)
  /\ \A p \in {"accept", "connect", "disc"} : p # o => posted[s][p] = 0
  /\ IF o = "disc" THEN conn[s] = "closing"
                   ELSE conn[s] = "none" /\ posted[s]["recv"] = 0

SocketOK(s) ==
  \/ Free(s) \/ Enabled(s) \/ Lost(s)
  \/ \E t \in Threads : Mine(t, s)
  \/ \E o \in {"accept", "connect", "disc"} : Pending(s, o)

IInv == /\ TypeOK
        /\ \A t \in Threads : ThreadOK(t)
        /\ \A k \in Kinds : PoolOK(k)
        /\ \A s \in Sockets : SocketOK(s)

-----------------------------------------------------------------------------
(* How the steps move a thread                                              *)

LEMMA IdleState == Idle \in ThreadState
  BY DEF Idle, ThreadState, Jobs, Places

LEMMA BecomeFacts ==
  ASSUME TypeOK, NEW t \in Threads, NEW r \in ThreadState, Become(t, r)
  PROVE  /\ th' \in [Threads -> ThreadState]
         /\ th'[t] = r
         /\ \A u \in Threads : u # t => th'[u] = th[u]
  BY DEF Become, TypeOK

LEMMA IdleFacts ==
  ASSUME TypeOK, NEW t \in Threads, Become(t, Idle)
  PROVE  /\ th' \in [Threads -> ThreadState]
         /\ th'[t].at = "idle" /\ th'[t].on = None
         /\ \A u \in Threads : u # t => th'[u] = th[u]
<1>1. /\ th' \in [Threads -> ThreadState]
      /\ th'[t] = Idle
      /\ \A u \in Threads : u # t => th'[u] = th[u]
  BY BecomeFacts, IdleState
<1> QED BY <1>1 DEF Idle

LEMMA AgainFacts ==
  ASSUME TypeOK, NEW t \in Threads, Become(t, Again)
  PROVE  /\ th' \in [Threads -> ThreadState]
         /\ th'[t].at = "reAccept"
         /\ \A u \in Threads : u # t => th'[u] = th[u]
<1>1. Again \in ThreadState /\ Again.at = "reAccept"
  BY DEF Again, Idle, ThreadState, Jobs, Places
<1> QED BY <1>1, BecomeFacts

LEMMA GotoFacts ==
  ASSUME TypeOK, NEW t \in Threads, NEW p \in Places, Goto(t, p)
  PROVE  /\ th' \in [Threads -> ThreadState]
         /\ th'[t].at = p /\ th'[t].on = th[t].on /\ th'[t].back = th[t].back
         /\ \A u \in Threads : u # t => th'[u] = th[u]
  BY DEF Goto, TypeOK, ThreadState

LEMMA FailFacts ==
  ASSUME TypeOK, NEW t \in Threads, NEW p \in Places, Fail(t, p)
  PROVE  /\ th' \in [Threads -> ThreadState]
         /\ th'[t].at = "error" /\ th'[t].on = th[t].on /\ th'[t].back = p
         /\ \A u \in Threads : u # t => th'[u] = th[u]
<1>1. "error" \in Places
  BY DEF Places
<1> QED BY <1>1 DEF Fail, TypeOK, ThreadState

LEMMA ReturnFacts ==
  ASSUME TypeOK, NEW t \in Threads, Return(t)
  PROVE  /\ th' \in [Threads -> ThreadState]
         /\ th'[t].at = th[t].back
         /\ th[t].back # "idle" => th'[t].on = th[t].on
         /\ \A u \in Threads : u # t => th'[u] = th[u]
<1>1. CASE th[t].back = "idle"
  <2>1. Become(t, Idle)
    BY <1>1 DEF Return
  <2> QED BY <2>1, <1>1, IdleFacts
<1>2. CASE th[t].back # "idle"
  <2>1. "idle" \in Places
    BY DEF Places
  <2> QED BY <1>2, <2>1 DEF Return, TypeOK, ThreadState
<1> QED BY <1>1, <1>2

-----------------------------------------------------------------------------
(* How the steps change a pool                                              *)

\* Taking the front socket leaves the rest of the pool.
LEMMA TakeFront ==
  ASSUME IInv, NEW k \in Kinds, pool[k] # <<>>,
         pool' = [pool EXCEPT ![k] = Tail(@)]
  PROVE  /\ pool' \in [Kinds -> Seq(Sockets)]
         /\ Head(pool[k]) \in Sockets /\ Pooled(Head(pool[k]))
         /\ \A j \in Kinds : PoolOK(j)'
         /\ \A x \in Sockets : Pooled(x)' <=> Pooled(x) /\ x # Head(pool[k])
<1> DEFINE q == pool[k]
<1>1. q \in Seq(Sockets) /\ pool \in [Kinds -> Seq(Sockets)]
  BY DEF IInv, TypeOK
<1>2. /\ Head(q) = q[1] /\ Len(q) \in Nat \ {0} /\ q[1] \in Sockets
      /\ Tail(q) \in Seq(Sockets) /\ Len(Tail(q)) = Len(q) - 1
      /\ \A i \in 1..Len(q)-1 : Tail(q)[i] = q[i+1]
  BY <1>1
<1>3. pool'[k] = Tail(q) /\ \A j \in Kinds : j # k => pool'[j] = pool[j]
  BY <1>1
<1>4. PoolOK(k)'
  BY <1>2, <1>3 DEF PoolOK, IInv
<1>5. \A j \in Kinds : PoolOK(j)'
  BY <1>3, <1>4 DEF PoolOK, IInv
<1>6. Pooled(q[1])
  BY <1>2 DEF Pooled
<1>7. ASSUME NEW x \in Sockets PROVE Pooled(x)' <=> Pooled(x) /\ x # q[1]
  <2>1. ASSUME Pooled(x)' PROVE Pooled(x) /\ x # q[1]
    <3>0. PICK j \in Kinds : \E i \in 1..Len(pool'[j]) : pool'[j][i] = x
      BY <2>1 DEF Pooled
    <3>1. PICK i \in 1..Len(pool'[j]) : pool'[j][i] = x
      BY <3>0
    <3>2. CASE j = k
      <4>0. i \in 1..Len(q)-1 /\ Tail(q)[i] = x
        BY <1>2, <1>3, <3>1, <3>2
      <4>1. i + 1 \in 1..Len(q) /\ q[i + 1] = x /\ i + 1 # 1
        BY <1>2, <4>0
      <4>2. \A m, n \in 1..Len(q) : q[m] = q[n] => m = n
        BY DEF PoolOK, IInv
      <4> QED BY <1>2, <4>1, <4>2 DEF Pooled
    <3>3. CASE j # k
      <4>1. pool[j][i] = x /\ i \in 1..Len(pool[j])
        BY <1>3, <3>1, <3>3
      <4>2. Kind[q[1]] = k /\ Kind[x] = j
        BY <1>2, <4>1 DEF PoolOK, IInv
      <4> QED BY <3>3, <4>1, <4>2 DEF Pooled
    <3> QED BY <3>2, <3>3
  <2>2. ASSUME Pooled(x), x # q[1] PROVE Pooled(x)'
    <3>0. PICK j \in Kinds : \E i \in 1..Len(pool[j]) : pool[j][i] = x
      BY <2>2 DEF Pooled
    <3>1. PICK i \in 1..Len(pool[j]) : pool[j][i] = x
      BY <3>0
    <3>2. CASE j = k
      <4>1. i # 1 /\ i - 1 \in 1..Len(q)-1 /\ Tail(q)[i-1] = x
        BY <1>2, <2>2, <3>1, <3>2
      <4> QED BY <1>2, <1>3, <3>2, <4>1 DEF Pooled
    <3>3. CASE j # k
      BY <1>3, <3>1, <3>3 DEF Pooled
    <3> QED BY <3>2, <3>3
  <2> QED BY <2>1, <2>2
<1>8. pool' \in [Kinds -> Seq(Sockets)]
  BY <1>1, <1>2
<1> QED BY <1>2, <1>5, <1>6, <1>7, <1>8

\* Adding a socket at either end, when it is not in a pool yet.
LEMMA PutSocket ==
  ASSUME IInv, NEW s \in Sockets, ~ Pooled(s),
         \/ pool' = [pool EXCEPT ![Kind[s]] = Append(@, s)]
         \/ pool' = [pool EXCEPT ![Kind[s]] = <<s>> \o @]
  PROVE  /\ pool' \in [Kinds -> Seq(Sockets)]
         /\ \A j \in Kinds : PoolOK(j)'
         /\ \A x \in Sockets : Pooled(x)' <=> Pooled(x) \/ x = s
<1> DEFINE k == Kind[s]
           q == pool[k]
<1>1. k \in Kinds /\ q \in Seq(Sockets) /\ pool \in [Kinds -> Seq(Sockets)]
  BY KindAssumption DEF IInv, TypeOK
<1>2. PICK a \in {0, 1} :
        /\ pool'[k] \in Seq(Sockets) /\ Len(pool'[k]) = Len(q) + 1
        /\ \A i \in 1..Len(q) : pool'[k][i + a] = q[i]
        /\ pool'[k][IF a = 0 THEN Len(q) + 1 ELSE 1] = s
  <2>1. CASE pool' = [pool EXCEPT ![k] = Append(@, s)]
    <3>1. pool'[k] = Append(q, s)
      BY <1>1, <2>1
    <3> QED BY <1>1, <3>1
  <2>2. CASE pool' = [pool EXCEPT ![k] = <<s>> \o @]
    <3>1. pool'[k] = <<s>> \o q
      BY <1>1, <2>2
    <3> QED BY <1>1, <3>1
  <2> QED BY <2>1, <2>2
<1>3. \A j \in Kinds : j # k => pool'[j] = pool[j]
  BY <1>1
<1>4. Len(q) \in Nat /\ \A i \in 1..Len(q) : q[i] \in Sockets /\ q[i] # s
  BY <1>1 DEF Pooled
<1>5. \A i \in 1..Len(q)+1 :
        \/ pool'[k][i] = s /\ i = (IF a = 0 THEN Len(q) + 1 ELSE 1)
        \/ i - a \in 1..Len(q) /\ pool'[k][i] = q[i - a]
  BY <1>2, <1>4
<1>6. PoolOK(k)'
  <2>1. \A i \in 1..Len(q) : Kind[q[i]] = k
    BY <1>1 DEF PoolOK, IInv
  <2>2. \A i, j \in 1..Len(q) : q[i] = q[j] => i = j
    BY <1>1 DEF PoolOK, IInv
  <2>3. 1..Len(pool'[k]) = 1..Len(q)+1
    BY <1>2
  <2>4. \A i \in 1..Len(q)+1 : Kind[pool'[k][i]] = k
    BY <1>5, <2>1
  <2>5. ASSUME NEW i \in 1..Len(q)+1, NEW j \in 1..Len(q)+1, pool'[k][i] = pool'[k][j]
        PROVE  i = j
    <3>1. CASE pool'[k][i] = s
      BY <1>4, <1>5, <2>5, <3>1
    <3>2. CASE pool'[k][i] # s
      <4>1. i - a \in 1..Len(q) /\ j - a \in 1..Len(q) /\ q[i - a] = q[j - a]
        BY <1>5, <2>5, <3>2
      <4> QED BY <1>4, <2>2, <4>1
    <3> QED BY <3>1, <3>2
  <2> QED BY <2>3, <2>4, <2>5 DEF PoolOK
<1>7. \A j \in Kinds : PoolOK(j)'
  BY <1>3, <1>6 DEF PoolOK, IInv
<1>8. ASSUME NEW x \in Sockets PROVE Pooled(x)' <=> Pooled(x) \/ x = s
  <2>1. ASSUME Pooled(x)' PROVE Pooled(x) \/ x = s
    <3>0. PICK j \in Kinds : \E i \in 1..Len(pool'[j]) : pool'[j][i] = x
      BY <2>1 DEF Pooled
    <3>1. PICK i \in 1..Len(pool'[j]) : pool'[j][i] = x
      BY <3>0
    <3>2. CASE j = k
      BY <1>1, <1>2, <1>4, <1>5, <3>1, <3>2 DEF Pooled
    <3>3. CASE j # k
      BY <1>3, <3>1, <3>3 DEF Pooled
    <3> QED BY <3>2, <3>3
  <2>2. ASSUME Pooled(x) PROVE Pooled(x)'
    <3>0. PICK j \in Kinds : \E i \in 1..Len(pool[j]) : pool[j][i] = x
      BY <2>2 DEF Pooled
    <3>1. PICK i \in 1..Len(pool[j]) : pool[j][i] = x
      BY <3>0
    <3>2. CASE j = k
      <4>1. i + a \in 1..Len(pool'[k]) /\ pool'[k][i + a] = x
        BY <1>2, <1>4, <3>1, <3>2
      <4> QED BY <1>1, <4>1 DEF Pooled
    <3>3. CASE j # k
      BY <1>3, <3>1, <3>3 DEF Pooled
    <3> QED BY <3>2, <3>3
  <2>3. ASSUME x = s PROVE Pooled(x)'
    BY <1>1, <1>2, <1>4, <2>3 DEF Pooled
  <2> QED BY <2>1, <2>2, <2>3
<1>9. pool' \in [Kinds -> Seq(Sockets)]
  BY <1>1, <1>2, <1>3
<1> QED BY <1>7, <1>8, <1>9

-----------------------------------------------------------------------------
(* A step changes one thread and one socket                                 *)

\* Every thread but t, and every socket but s, is as it was; t owns no
\* socket but s, before and after.
Only(t, s) ==
  /\ \A u \in Threads : u # t => th'[u] = th[u]
  /\ \A x \in Sockets : x # s =>
       /\ ~ Owns(t, x) /\ ~ Owns(t, x)'
       /\ x \in used' <=> x \in used
       /\ x \in leaked' <=> x \in leaked
       /\ Pooled(x)' <=> Pooled(x)
       /\ bEnable'[x] = bEnable[x]
       /\ posted'[x] = posted[x]
       /\ conn'[x] = conn[x]

LEMMA Frame ==
  ASSUME IInv, NEW t \in Threads, NEW s \in Sockets, Only(t, s), TypeOK',
         \A k \in Kinds : PoolOK(k)', ThreadOK(t)', SocketOK(s)'
  PROVE  IInv'
<1>1. ASSUME NEW u \in Threads PROVE ThreadOK(u)'
  BY DEF IInv, ThreadOK, Only
<1>2. ASSUME NEW x \in Sockets, x # s PROVE SocketOK(x)'
  <2>1. SocketOK(x)
    BY DEF IInv
  <2>2. \A u \in Threads : Owns(u, x)' <=> Owns(u, x)
    BY <1>2 DEF Only, Owns, At
  <2>3. (Nobody(x)' <=> Nobody(x)) /\ (NoOp(x)' <=> NoOp(x)) /\ (AtRest(x)' <=> AtRest(x))
    BY <1>2, <2>2 DEF Only, Nobody, NoOp, AtRest
  <2>4. CASE Free(x)
    BY <1>2, <2>3, <2>4 DEF SocketOK, Free, Only
  <2>5. CASE Enabled(x)
    BY <1>2, <2>3, <2>5 DEF SocketOK, Enabled, Only
  <2>6. CASE Lost(x)
    BY <1>2, <2>3, <2>6 DEF SocketOK, Lost, Only
  <2>7. ASSUME NEW u \in Threads, Mine(u, x) PROVE Mine(u, x)'
    <3>1. u # t /\ th'[u] = th[u]
      BY <1>2, <2>7 DEF Mine, Only
    <3> QED BY <1>2, <2>2, <2>3, <2>7, <3>1 DEF Mine, Only
  <2>8. ASSUME NEW o \in {"accept", "connect", "disc"}, Pending(x, o) PROVE Pending(x, o)'
    BY <1>2, <2>3, <2>8 DEF Pending, Only
  <2> QED BY <2>1, <2>4, <2>5, <2>6, <2>7, <2>8 DEF SocketOK
<1> QED BY <1>1, <1>2 DEF IInv

LEMMA SamePool ==
  ASSUME IInv, UNCHANGED pool
  PROVE  /\ \A k \in Kinds : PoolOK(k)'
         /\ \A x \in Sockets : Pooled(x)' <=> Pooled(x)
  BY DEF IInv, PoolOK, Pooled

\* A thread that owns nothing, before and after, touches no socket's holder:
\* it may post or take a receive.
LEMMA FrameQuiet ==
  ASSUME IInv, NEW t \in Threads, TypeOK', ThreadOK(t)',
         \A u \in Threads : u # t => th'[u] = th[u],
         \A x \in Sockets : ~ Owns(t, x) /\ ~ Owns(t, x)',
         UNCHANGED <<pool, used, bEnable, conn, leaked>>,
         \A x \in Sockets : /\ \A o \in Ops : o # "recv" => posted'[x][o] = posted[x][o]
                            /\ conn[x] = "none" => posted'[x]["recv"] = posted[x]["recv"]
  PROVE  IInv'
<1>1. ASSUME NEW u \in Threads PROVE ThreadOK(u)'
  BY DEF IInv, ThreadOK
<1>3. \A k \in Kinds : PoolOK(k)'
  BY SamePool
<1>2. ASSUME NEW x \in Sockets PROVE SocketOK(x)'
  <2>1. SocketOK(x)
    BY DEF IInv
  <2>2. \A u \in Threads : Owns(u, x)' <=> Owns(u, x)
    BY <1>2 DEF Owns, At
  <2>3. /\ Nobody(x)' <=> Nobody(x)
        /\ NoOp(x)' <=> NoOp(x)
        /\ Pooled(x)' <=> Pooled(x)
        /\ AtRest(x)' <=> AtRest(x)
    BY <1>2, <2>2 DEF Nobody, NoOp, Pooled, Ops, AtRest
  <2>4. CASE Free(x)
    BY <1>2, <2>3, <2>4 DEF SocketOK, Free
  <2>5. CASE Enabled(x)
    BY <1>2, <2>3, <2>5 DEF SocketOK, Enabled
  <2>6. CASE Lost(x)
    BY <1>2, <2>3, <2>6 DEF SocketOK, Lost
  <2>7. ASSUME NEW u \in Threads, Mine(u, x) PROVE Mine(u, x)'
    <3>1. u # t /\ th'[u] = th[u]
      BY <1>2, <2>7 DEF Mine
    <3> QED BY <1>2, <2>2, <2>3, <2>7, <3>1 DEF Mine
  <2>8. ASSUME NEW o \in {"accept", "connect", "disc"}, Pending(x, o) PROVE Pending(x, o)'
    BY <1>2, <2>3, <2>8 DEF Pending, Ops
  <2> QED BY <2>1, <2>4, <2>5, <2>6, <2>7, <2>8 DEF SocketOK
<1> QED BY <1>1, <1>2, <1>3 DEF IInv

-----------------------------------------------------------------------------
(* What a guard says of the holder                                          *)

LEMMA OwnedIsMine ==
  ASSUME IInv, NEW t \in Threads, NEW s \in Sockets, Owns(t, s) PROVE Mine(t, s)
  BY DEF IInv, SocketOK, Free, Enabled, Lost, Pending, Mine, Nobody

LEMMA EnabledIsEnabled ==
  ASSUME IInv, NEW s \in Sockets, bEnable[s] PROVE Enabled(s)
  BY DEF IInv, SocketOK, Free, Enabled, Lost, Pending, Mine

LEMMA PostedIsPending ==
  ASSUME IInv, NEW s \in Sockets, NEW o \in {"accept", "connect", "disc"}, posted[s][o] > 0
  PROVE  Pending(s, o)
  BY DEF IInv, SocketOK, Free, Enabled, Lost, Pending, Mine, NoOp

LEMMA UnusedIsFree ==
  ASSUME IInv, NEW s \in Sockets, s \notin used PROVE Free(s)
  BY DEF IInv, SocketOK, Free, Enabled, Lost, Pending, Mine

LEMMA PooledIsFree ==
  ASSUME IInv, NEW s \in Sockets, Pooled(s) PROVE Free(s)
  BY DEF IInv, SocketOK, Free, Enabled, Lost, Pending, Mine

-----------------------------------------------------------------------------
(* The steps                                                                *)

-----------------------------------------------------------------------------
(* Steps that concern no socket's holder                                    *)

\* The places of a running thread that owns nothing
Passing == {"inAccept", "accRecv", "inConnect", "conRecv", "inRecv",
            "waitConn", "waitRecv", "waitEnd"}

\* Nothing but the place of thread t changes.
LEMMA PassingKeeps ==
  ASSUME IInv, NEW t \in Threads, th[t].at \in Passing, ripe' \in [Sockets -> BOOLEAN],
         UNCHANGED <<pool, used, bEnable, bWait, posted, conn, leaked, todo, lost>>,
         \/ \E p \in {"accRecv", "conRecv", "waitRecv"} : Goto(t, p)
         \/ \E p \in {"idle", "reAccept", "waitEnd"} : Fail(t, p)
         \/ Become(t, Idle)
  PROVE  IInv'
<1>1. /\ th[t].on \in Sockets /\ TypeOK
  BY DEF IInv, ThreadOK, Passing
<1>2. /\ th' \in [Threads -> ThreadState]
      /\ \A u \in Threads : u # t => th'[u] = th[u]
      /\ \/ th'[t].at \in {"accRecv", "conRecv", "waitRecv"} /\ th'[t].on = th[t].on
         \/ /\ th'[t].at = "error" /\ th'[t].on = th[t].on
            /\ th'[t].back \in {"idle", "reAccept", "waitEnd"}
         \/ th'[t].at = "idle"
  <2>1. CASE \E p \in {"accRecv", "conRecv", "waitRecv"} : Goto(t, p)
    BY <1>1, <2>1, GotoFacts DEF Places
  <2>2. CASE \E p \in {"idle", "reAccept", "waitEnd"} : Fail(t, p)
    BY <1>1, <2>2, FailFacts DEF Places
  <2>3. CASE Become(t, Idle)
    BY <1>1, <2>3, IdleFacts
  <2> QED BY <2>1, <2>2, <2>3
<1>3. TypeOK'
  BY <1>1, <1>2 DEF TypeOK
<1>4. ThreadOK(t)'
  BY <1>1, <1>2 DEF ThreadOK
<1>5. \A x \in Sockets : ~ Owns(t, x) /\ ~ Owns(t, x)'
  BY <1>2 DEF Owns, OwnPlaces, At, Passing
<1> QED BY <1>2, <1>3, <1>4, <1>5, FrameQuiet

\* A receive is posted on a connection, and the thread is done with it.
LEMMA ReceiveKeeps ==
  ASSUME IInv, NEW t \in Threads, th[t].at \in Passing, PostRecvOk(th[t].on),
         ripe' \in [Sockets -> BOOLEAN],
         UNCHANGED <<pool, used, bEnable, bWait, conn, leaked, todo, lost>>,
         Become(t, Idle) \/ Become(t, Again)
  PROVE  IInv'
<1> DEFINE s == th[t].on
<1>1. s \in Sockets /\ TypeOK
  BY DEF IInv, ThreadOK, Passing
<1>2. /\ th' \in [Threads -> ThreadState]
      /\ \A u \in Threads : u # t => th'[u] = th[u]
      /\ th'[t].at \in {"idle", "reAccept"}
  BY <1>1, IdleFacts, AgainFacts
<1>3. conn[s] # "none" /\ posted' = [posted EXCEPT ![s]["recv"] = @ + 1]
  BY DEF PostRecvOk, Post
<1>4. TypeOK'
  BY <1>1, <1>2, <1>3 DEF TypeOK, Ops
<1>5. ThreadOK(t)'
  BY <1>2 DEF ThreadOK
<1>6. \A x \in Sockets : ~ Owns(t, x) /\ ~ Owns(t, x)'
  BY <1>2 DEF Owns, OwnPlaces, At, Passing
<1>7. \A x \in Sockets : /\ \A o \in Ops : o # "recv" => posted'[x][o] = posted[x][o]
                         /\ conn[x] = "none" => posted'[x]["recv"] = posted[x]["recv"]
  BY <1>1, <1>3 DEF TypeOK, Ops
<1> QED BY <1>2, <1>4, <1>5, <1>6, <1>7, FrameQuiet

\* A worker takes the completion of a receive.
LEMMA CompleteRecvKeeps ==
  ASSUME IInv, NEW w \in Workers, NEW s \in Sockets,
         CompleteRecv(w, s) \/ CompleteRecvFails(w, s)
  PROVE  IInv'
<1> DEFINE r(p) == [job |-> "recv", at |-> p, on |-> s, back |-> "idle"]
<1>1. w \in Threads /\ TypeOK /\ At(w, "idle")
  BY DEF IInv, Threads, CompleteRecv, CompleteRecvFails
<1>2. r("inRecv") \in ThreadState /\ r("error") \in ThreadState
  BY DEF ThreadState, Jobs, Places
<1>3. PICK p \in {"inRecv", "error"} : Become(w, r(p))
  BY DEF CompleteRecv, CompleteRecvFails, Run
<1>4. /\ th' \in [Threads -> ThreadState]
      /\ \A u \in Threads : u # w => th'[u] = th[u]
      /\ th'[w].at = p /\ th'[w].on = s /\ th'[w].back = "idle"
  BY <1>1, <1>2, <1>3, BecomeFacts
<1>5. /\ posted[s]["recv"] > 0 /\ posted' = [posted EXCEPT ![s]["recv"] = @ - 1]
      /\ UNCHANGED <<pool, used, bEnable, bWait, ripe, conn, leaked, todo, lost>>
  BY DEF CompleteRecv, CompleteRecvFails, Finish
<1>6. TypeOK'
  <2>1. posted' \in [Sockets -> [Ops -> Nat]]
    BY <1>1, <1>5 DEF TypeOK, Ops
  <2> QED BY <1>1, <1>4, <1>5, <2>1 DEF TypeOK
<1>7. ThreadOK(w)'
  BY <1>4 DEF ThreadOK
<1>8. \A x \in Sockets : ~ Owns(w, x) /\ ~ Owns(w, x)'
  BY <1>1, <1>4 DEF Owns, OwnPlaces, At
<1>9. conn[s] # "none"
  <2>1. SUFFICES ASSUME conn[s] = "none" PROVE posted[s]["recv"] = 0
    BY <1>5
  <2>2. CASE Free(s) \/ \E t \in Threads : Mine(t, s)
    BY <2>1, <2>2 DEF Free, Mine, AtRest
  <2>3. CASE Enabled(s) \/ Lost(s)
    BY <2>1, <2>3 DEF Enabled, Lost
  <2>4. CASE \E o \in {"accept", "connect", "disc"} : Pending(s, o)
    BY <2>1, <2>4 DEF Pending
  <2> QED BY <2>2, <2>3, <2>4 DEF IInv, SocketOK
<1>10. \A x \in Sockets : /\ \A o \in Ops : o # "recv" => posted'[x][o] = posted[x][o]
                          /\ conn[x] = "none" => posted'[x]["recv"] = posted[x]["recv"]
  BY <1>1, <1>5, <1>9 DEF TypeOK, Ops
<1> QED BY <1>1, <1>4, <1>5, <1>6, <1>7, <1>8, <1>10, FrameQuiet

LEMMA NoSocketKeeps ==
  ASSUME IInv, NEW t \in Threads, ReqAcceptNoSocket(t) PROVE IInv'
<1>1. /\ TypeOK /\ th[t].at \in {"idle", "reAccept"}
      /\ UNCHANGED <<pool, used, bEnable, bWait, ripe, posted, conn, leaked>>
  BY DEF IInv, ReqAcceptNoSocket, MayAccept, At
<1>2. /\ th' \in [Threads -> ThreadState]
      /\ \A u \in Threads : u # t => th'[u] = th[u]
      /\ th'[t].at = "idle"
  BY <1>1, IdleFacts DEF ReqAcceptNoSocket
<1>3. TypeOK'
  <2>1. todo' \in Nat /\ lost' \in Nat
    BY <1>1 DEF TypeOK, ReqAcceptNoSocket, MayAccept, CountCall, At
  <2> QED BY <1>1, <1>2, <2>1 DEF TypeOK
<1>4. ThreadOK(t)'
  BY <1>2 DEF ThreadOK
<1>5. \A x \in Sockets : ~ Owns(t, x) /\ ~ Owns(t, x)'
  BY <1>1, <1>2 DEF Owns, OwnPlaces, At
<1> QED BY <1>1, <1>2, <1>3, <1>4, <1>5, FrameQuiet

-----------------------------------------------------------------------------
(* Steps that pass a socket from one holder to the next                     *)

\* The owner gives the socket back to its pool.
LEMMA DelKeeps ==
  ASSUME IInv, NEW t \in Threads, Owns(t, th[t].on), th[t].at \notin UpPlaces,
         th[t].on \in Sockets, DelSocket(th[t].on),
         Become(t, Idle) \/ Become(t, Again),
         ripe' \in [Sockets -> BOOLEAN], todo' \in Nat, lost' \in Nat,
         UNCHANGED <<posted, conn, leaked>>
  PROVE  IInv'
<1>0. PICK s \in Sockets : s = th[t].on
  OBVIOUS
<1>1. s = th[t].on /\ TypeOK /\ Mine(t, s)
  BY <1>0, OwnedIsMine DEF IInv
<1>2. /\ th' \in [Threads -> ThreadState]
      /\ \A u \in Threads : u # t => th'[u] = th[u]
      /\ th'[t].at \in {"idle", "reAccept"}
  BY <1>1, IdleFacts, AgainFacts
<1>3. /\ bEnable' = [bEnable EXCEPT ![s] = FALSE] /\ bWait' = [bWait EXCEPT ![s] = FALSE]
      /\ used' = used \ {s} /\ pool' = [pool EXCEPT ![Kind[s]] = Append(@, s)]
  BY <1>0 DEF DelSocket
<1>4. /\ pool' \in [Kinds -> Seq(Sockets)]
      /\ \A k \in Kinds : PoolOK(k)'
      /\ \A x \in Sockets : Pooled(x)' <=> Pooled(x) \/ x = s
  BY <1>1, <1>3, PutSocket DEF Mine
<1>5. TypeOK'
  BY <1>1, <1>2, <1>3, <1>4 DEF TypeOK
<1>6. Only(t, s)
  BY <1>1, <1>2, <1>3, <1>4 DEF Only, Owns, OwnPlaces, At, TypeOK
<1>7. ThreadOK(t)'
  BY <1>2 DEF ThreadOK
<1>8. Nobody(s)'
  BY <1>1, <1>2 DEF Mine, Nobody, Owns, OwnPlaces, At
<1>9. SocketOK(s)'
  <2>1. AtRest(s)'
    BY <1>1 DEF Mine, AtRest
  <2>2. Free(s)'
    BY <1>1, <1>3, <1>8, <2>1 DEF Free, Mine, NoOp, TypeOK
  <2> QED BY <2>2 DEF SocketOK
<1> QED BY <1>1, <1>4, <1>5, <1>6, <1>7, <1>9, Frame

\* A thread takes a socket that was not in use.
LEMMA TakeKeeps ==
  ASSUME IInv, NEW t \in Threads, NEW s \in Sockets, NEW k \in Kinds, NewSocket(k, s),
         th[t].at \in {"idle", "reAccept"},
         th' \in [Threads -> ThreadState],
         \A u \in Threads : u # t => th'[u] = th[u],
         th'[t].at \in {"postAccept", "postConnect"}, th'[t].on = s,
         bWait' \in [Sockets -> BOOLEAN], todo' \in Nat, lost' \in Nat,
         UNCHANGED <<bEnable, ripe, posted, conn, leaked>>
  PROVE  IInv'
<1>1. TypeOK /\ used' = used \cup {s}
  BY DEF IInv, NewSocket
<1>2. /\ Free(s)
      /\ pool' \in [Kinds -> Seq(Sockets)]
      /\ \A j \in Kinds : PoolOK(j)'
      /\ \A x \in Sockets : Pooled(x)' <=> Pooled(x) /\ x # s
  <2>1. CASE FrontRipe(k) /\ s = Head(pool[k]) /\ pool' = [pool EXCEPT ![k] = Tail(@)]
    BY <2>1, TakeFront, PooledIsFree DEF FrontRipe
  <2>2. CASE Fresh(s) /\ UNCHANGED pool
    BY <1>1, <2>2, UnusedIsFree, SamePool DEF Fresh, TypeOK
  <2> QED BY <2>1, <2>2 DEF NewSocket
<1>3. TypeOK'
  BY <1>1, <1>2 DEF TypeOK
<1>4. Only(t, s)
  BY <1>1, <1>2 DEF Only, Owns, OwnPlaces, At, TypeOK
<1>5. ThreadOK(t)'
  BY DEF ThreadOK
<1>6. Mine(t, s)'
  BY <1>1, <1>2 DEF Free, Mine, NoOp, Nobody, Owns, OwnPlaces, UpPlaces, At, AtRest, TypeOK
<1> QED BY <1>2, <1>3, <1>4, <1>5, <1>6, Frame DEF SocketOK

LEMMA ReqAcceptKeeps ==
  ASSUME IInv, NEW t \in Threads, NEW s \in Sockets, ReqAccept(t, s) PROVE IInv'
<1>1. TypeOK /\ th[t].at \in {"idle", "reAccept"} /\ NewSocket("ACCEPT", s)
  BY DEF IInv, ReqAccept, MayAccept, At
<1>2. /\ th' \in [Threads -> ThreadState]
      /\ \A u \in Threads : u # t => th'[u] = th[u]
      /\ th'[t].at = "postAccept" /\ th'[t].on = s
  <2>1. "postAccept" \in Places
    BY DEF Places
  <2> QED BY <1>1, <2>1 DEF ReqAccept, TypeOK, ThreadState
<1>3. todo' \in Nat /\ UNCHANGED <<bEnable, bWait, ripe, posted, conn, leaked, lost>>
  BY <1>1 DEF ReqAccept, CountCall, MayAccept, At, TypeOK
<1> QED BY <1>1, <1>2, <1>3, TakeKeeps DEF TypeOK, Kinds

LEMMA ReqConnectKeeps ==
  ASSUME IInv, NEW c \in Callers, NEW s \in Sockets, NEW wait \in BOOLEAN,
         ReqConnect(c, s, wait)
  PROVE  IInv'
<1> DEFINE r == [Idle EXCEPT !.at = "postConnect", !.on = s]
<1>1. /\ c \in Threads /\ TypeOK /\ th[c].at = "idle" /\ NewSocket("CONNECT", s)
      /\ bWait' = [bWait EXCEPT ![s] = wait]
      /\ UNCHANGED <<bEnable, ripe, posted, conn, leaked, todo, lost>>
  BY DEF IInv, ReqConnect, At, Threads
<1>2. r \in ThreadState /\ r.at = "postConnect" /\ r.on = s
  BY DEF Idle, ThreadState, Jobs, Places
<1>3. /\ th' \in [Threads -> ThreadState]
      /\ \A u \in Threads : u # c => th'[u] = th[u]
      /\ th'[c].at = "postConnect" /\ th'[c].on = s
  BY <1>1, <1>2, BecomeFacts DEF ReqConnect
<1> QED BY <1>1, <1>3, TakeKeeps DEF TypeOK, Kinds

\* A worker takes the completion of an accept, a connect or a disconnect.
LEMMA CompletionKeeps ==
  ASSUME IInv, NEW w \in Workers, NEW s \in Sockets, NEW o \in {"accept", "connect", "disc"},
         At(w, "idle"), Finish(s, o), NEW r \in ThreadState, Become(w, r), r.on = s,
         UNCHANGED <<pool, used, bEnable, bWait, ripe, leaked, todo, lost>>,
         \/ r.at \in {"accOpen", "conOpen"} /\ conn' = [conn EXCEPT ![s] = "up"]
         \/ r.at = "error" /\ r.back \in {"accDel", "conDel"} /\ o # "disc" /\ UNCHANGED conn
         \/ r.at = "inDisc" /\ posted[s]["recv"] = 0 /\ conn' = [conn EXCEPT ![s] = "none"]
         \/ r.at = "inDisc" /\ conn' = [conn EXCEPT ![s] = "stuck"]
  PROVE  IInv'
<1>1. /\ w \in Threads /\ TypeOK
      /\ posted[s][o] > 0 /\ posted' = [posted EXCEPT ![s][o] = @ - 1]
  BY DEF IInv, Threads, Finish
<1>2. Pending(s, o)
  BY <1>1, PostedIsPending
<1>3. /\ th' \in [Threads -> ThreadState]
      /\ th'[w] = r
      /\ \A u \in Threads : u # w => th'[u] = th[u]
  BY <1>1, BecomeFacts
<1>4. TypeOK'
  <2>1. posted' \in [Sockets -> [Ops -> Nat]]
    BY <1>1 DEF TypeOK, Ops
  <2>2. conn' \in [Sockets -> {"none", "up", "closing", "stuck"}]
    BY <1>1 DEF TypeOK
  <2> QED BY <1>1, <1>3, <2>1, <2>2 DEF TypeOK
<1>5. Only(w, s)
  BY <1>1, <1>3 DEF Only, Owns, OwnPlaces, At, TypeOK, Ops, Pooled
<1>6. ThreadOK(w)'
  BY <1>3 DEF ThreadOK
<1>7. \A p \in {"accept", "connect", "disc", "recv"} :
        posted'[s][p] = IF p = o THEN 0 ELSE posted[s][p]
  BY <1>1, <1>2 DEF Pending, TypeOK, Ops
<1>8. Mine(w, s)'
  BY <1>1, <1>2, <1>3, <1>5, <1>7
     DEF Pending, Mine, NoOp, Nobody, Owns, OwnPlaces, UpPlaces, At, AtRest, TypeOK, Pooled, Only
<1> QED BY <1>1, <1>4, <1>5, <1>6, <1>8, SamePool, Frame DEF SocketOK

\* bEnable = true: the owner gives the connection to the application.
LEMMA OpenKeeps ==
  ASSUME IInv, NEW w \in Workers, HandAcceptOpen(w) \/ HandConnectOpen(w) PROVE IInv'
<1>0. PICK s \in Sockets : s = th[w].on
  BY DEF IInv, ThreadOK, Threads, HandAcceptOpen, HandConnectOpen, At
<1>1. /\ w \in Threads /\ TypeOK /\ s = th[w].on /\ th[w].at \in {"accOpen", "conOpen"}
      /\ bEnable' = [bEnable EXCEPT ![s] = TRUE] /\ ripe' = [ripe EXCEPT ![s] = FALSE]
      /\ UNCHANGED <<pool, used, bWait, posted, conn, leaked, todo, lost>>
  BY <1>0 DEF IInv, Threads, HandAcceptOpen, HandConnectOpen, At
<1>2. Mine(w, s)
  BY <1>1, OwnedIsMine DEF Owns, OwnPlaces
<1>3. /\ th' \in [Threads -> ThreadState]
      /\ th'[w].at \in {"inAccept", "inConnect"} /\ th'[w].on = s
      /\ \A u \in Threads : u # w => th'[u] = th[u]
  BY <1>1, GotoFacts DEF HandAcceptOpen, HandConnectOpen, Places
<1>4. TypeOK'
  BY <1>1, <1>3 DEF TypeOK
<1>5. Only(w, s)
  BY <1>1, <1>3 DEF Only, Owns, Pooled, TypeOK
<1>6. ThreadOK(w)'
  BY <1>1, <1>3 DEF ThreadOK
<1>7. Enabled(s)'
  BY <1>1, <1>2, <1>3 DEF Mine, Enabled, NoOp, Nobody, Owns, OwnPlaces, UpPlaces, At, Pooled, TypeOK
<1>8. SocketOK(s)'
  BY <1>7 DEF SocketOK
<1> QED BY <1>1, <1>4, <1>5, <1>6, <1>8, SamePool, Frame

\* The owner gives the socket to the kernel.
LEMMA PostKeeps ==
  ASSUME IInv, NEW t \in Threads, NEW o \in {"accept", "connect", "disc"},
         Owns(t, th[t].on), th[t].on \in Sockets, Post(th[t].on, o),
         th' \in [Threads -> ThreadState], \A u \in Threads : u # t => th'[u] = th[u],
         th'[t].at = "idle"
           \/ (th'[t].on = th[t].on /\ ThreadOK(t)' /\ ~ Owns(t, th[t].on)'),
         IF o = "disc" THEN conn' = [conn EXCEPT ![th[t].on] = "closing"]
                       ELSE conn[th[t].on] = "none" /\ UNCHANGED conn,
         UNCHANGED <<pool, used, bEnable, bWait, ripe, leaked, todo, lost>>
  PROVE  IInv'
<1>0. PICK s \in Sockets : s = th[t].on
  OBVIOUS
<1>1. s = th[t].on /\ TypeOK /\ Mine(t, s) /\ posted' = [posted EXCEPT ![s][o] = @ + 1]
  BY <1>0, OwnedIsMine DEF IInv, Post
<1>2. TypeOK'
  <2>1. posted' \in [Sockets -> [Ops -> Nat]]
    BY <1>1 DEF TypeOK, Ops
  <2>2. conn' \in [Sockets -> {"none", "up", "closing", "stuck"}]
    BY <1>1 DEF TypeOK
  <2> QED BY <1>1, <2>1, <2>2 DEF TypeOK
<1>3. ~ Owns(t, s)' /\ ThreadOK(t)'
  BY <1>1 DEF Owns, OwnPlaces, At, ThreadOK
<1>4. Only(t, s)
  BY <1>1, <1>3 DEF Only, Owns, OwnPlaces, At, TypeOK, Ops, Pooled
<1>5. \A p \in {"accept", "connect", "disc", "recv"} :
        posted'[s][p] = IF p = o THEN posted[s][p] + 1 ELSE posted[s][p]
  BY <1>1 DEF TypeOK, Ops
<1>6. Nobody(s)'
  BY <1>1, <1>3 DEF Mine, Nobody, Owns, At
<1>7. Pending(s, o)'
  <2>1. IF o = "disc" THEN conn'[s] = "closing"
                      ELSE conn'[s] = "none" /\ posted'[s]["recv"] = 0
    BY <1>1, <1>5 DEF Mine, AtRest, TypeOK
  <2> QED BY <1>1, <1>5, <1>6, <2>1 DEF Mine, Pending, NoOp, TypeOK, Pooled
<1>8. SocketOK(s)'
  BY <1>7 DEF SocketOK
<1> QED BY <1>1, <1>2, <1>3, <1>4, <1>8, SamePool, Frame

LEMMA PostAcceptKeeps ==
  ASSUME IInv, NEW t \in Threads, PostAccept(t) PROVE IInv'
<1>1. TypeOK /\ Owns(t, th[t].on) /\ th[t].on \in Sockets /\ th[t].at \notin UpPlaces
  BY DEF IInv, ThreadOK, PostAccept, At, Owns, OwnPlaces, UpPlaces
<1>2. /\ th' \in [Threads -> ThreadState] /\ th'[t].at = "idle"
      /\ \A u \in Threads : u # t => th'[u] = th[u]
  BY <1>1, IdleFacts DEF PostAccept
<1> QED BY <1>1, <1>2, PostKeeps DEF PostAccept

LEMMA PostConnectKeeps ==
  ASSUME IInv, NEW c \in Callers, PostConnect(c) PROVE IInv'
<1>1. /\ c \in Threads /\ TypeOK /\ Owns(c, th[c].on) /\ th[c].on \in Sockets
      /\ th[c].at \notin UpPlaces
  BY DEF IInv, ThreadOK, PostConnect, At, Owns, OwnPlaces, UpPlaces, Threads
<1>2. /\ th' \in [Threads -> ThreadState]
      /\ th'[c].at = "idle" \/ (th'[c].at = "waitConn" /\ th'[c].on = th[c].on)
      /\ \A u \in Threads : u # c => th'[u] = th[u]
  <2>1. CASE bWait[th[c].on]
    BY <1>1, <2>1, GotoFacts DEF PostConnect, Places
  <2>2. CASE ~ bWait[th[c].on]
    BY <1>1, <2>2, IdleFacts DEF PostConnect
  <2> QED BY <2>1, <2>2
<1>3. th'[c].at = "idle" \/ (th'[c].on = th[c].on /\ ThreadOK(c)' /\ ~ Owns(c, th[c].on)')
  BY <1>1, <1>2 DEF ThreadOK, Owns, OwnPlaces, At
<1> QED BY <1>1, <1>2, <1>3, PostKeeps DEF PostConnect

\* Where reqDisconnect comes back to, once its caller has disabled a socket
LEMMA ReturnFromDisconnect ==
  ASSUME IInv, NEW t \in Threads, th[t].at \in {"postDisc", "postDiscWait", "waitDisc"}
  PROVE  /\ th[t].back \in {"idle", "inAccept", "inConnect", "inRecv", "reAccept", "waitEnd"}
         /\ th[t].on \in Sockets
  BY DEF IInv, ThreadOK

LEMMA PostDisconnectKeeps ==
  ASSUME IInv, NEW t \in Threads, PostDisconnect(t) PROVE IInv'
<1>1. /\ TypeOK /\ Owns(t, th[t].on) /\ th[t].on \in Sockets
      /\ th[t].back \in {"idle", "inAccept", "inConnect", "inRecv", "reAccept", "waitEnd"}
  BY ReturnFromDisconnect DEF IInv, PostDisconnect, Owns, OwnPlaces
<1>2. /\ th' \in [Threads -> ThreadState]
      /\ \/ th'[t].at = "idle"
         \/ th'[t].at \in {"inAccept", "inConnect", "inRecv", "reAccept", "waitEnd"}
              /\ th'[t].on = th[t].on
         \/ th'[t].at = "waitDisc" /\ th'[t].on = th[t].on /\ th'[t].back = th[t].back
      /\ \A u \in Threads : u # t => th'[u] = th[u]
  <2>1. CASE At(t, "postDiscWait")
    BY <1>1, <2>1, GotoFacts DEF PostDisconnect, Places
  <2>2. CASE ~ At(t, "postDiscWait")
    BY <1>1, <2>2, ReturnFacts DEF PostDisconnect
  <2> QED BY <2>1, <2>2
<1>3. th'[t].at = "idle" \/ (th'[t].on = th[t].on /\ ThreadOK(t)' /\ ~ Owns(t, th[t].on)')
  BY <1>1, <1>2 DEF ThreadOK, Owns, OwnPlaces, At
<1> QED BY <1>1, <1>2, <1>3, PostKeeps DEF PostDisconnect

LEMMA PostDisconnectFailsKeeps ==
  ASSUME IInv, NEW t \in Threads, PostDisconnectFails(t) PROVE IInv'
<1>0. PICK s \in Sockets : s = th[t].on
  BY ReturnFromDisconnect DEF PostDisconnectFails
<1>1. /\ TypeOK /\ Owns(t, s) /\ s = th[t].on /\ th[t].at \in {"postDisc", "postDiscWait"}
      /\ th[t].back \in {"idle", "inAccept", "inConnect", "inRecv", "reAccept", "waitEnd"}
      /\ leaked' = leaked \cup {s}
      /\ UNCHANGED <<pool, used, bEnable, bWait, ripe, posted, conn, todo, lost>>
  BY <1>0, ReturnFromDisconnect DEF IInv, PostDisconnectFails, Owns, OwnPlaces
<1>2. Mine(t, s)
  BY <1>1, OwnedIsMine
<1>3. /\ th' \in [Threads -> ThreadState] /\ th'[t].at = th[t].back
      /\ th[t].back # "idle" => th'[t].on = s
      /\ \A u \in Threads : u # t => th'[u] = th[u]
  BY <1>1, ReturnFacts DEF PostDisconnectFails
<1>4. TypeOK'
  BY <1>1, <1>3 DEF TypeOK
<1>5. Only(t, s)
  BY <1>1, <1>3 DEF Only, Owns, OwnPlaces, At, Pooled, TypeOK
<1>6. ThreadOK(t)'
  BY <1>1, <1>3 DEF ThreadOK
<1>7. Lost(s)'
  BY <1>1, <1>2, <1>3 DEF Mine, Lost, NoOp, Nobody, Owns, OwnPlaces, UpPlaces, At, Pooled
<1>8. SocketOK(s)'
  BY <1>7 DEF SocketOK
<1> QED BY <1>1, <1>4, <1>5, <1>6, <1>8, SamePool, Frame

\* bEnable = false: the thread that saw it true owns the socket from then on.
LEMMA DisableKeeps ==
  ASSUME IInv, NEW t \in Threads, NEW s \in Sockets, Disable(s),
         \A x \in Sockets : ~ Owns(t, x),
         th' \in [Threads -> ThreadState], \A u \in Threads : u # t => th'[u] = th[u],
         th'[t].at \in {"postDisc", "postDiscWait"}, th'[t].on = s,
         th'[t].back \in {"idle", "inAccept", "inConnect", "inRecv", "reAccept", "waitEnd"},
         UNCHANGED <<pool, used, bWait, ripe, posted, conn, leaked, todo, lost>>
  PROVE  IInv'
<1>1. TypeOK /\ Enabled(s) /\ bEnable' = [bEnable EXCEPT ![s] = FALSE]
  BY EnabledIsEnabled DEF IInv, Disable
<1>2. TypeOK'
  BY <1>1 DEF TypeOK
<1>3. Only(t, s)
  BY <1>1 DEF Only, Owns, Pooled, TypeOK
<1>4. ThreadOK(t)'
  BY DEF ThreadOK
<1>5. Mine(t, s)'
  BY <1>1 DEF Enabled, Mine, Nobody, NoOp, Pooled, Owns, OwnPlaces, UpPlaces, At, TypeOK
<1>6. SocketOK(s)'
  BY <1>5 DEF SocketOK
<1> QED BY <1>2, <1>3, <1>4, <1>6, SamePool, Frame

LEMMA ReqDisconnectKeeps ==
  ASSUME IInv, NEW c \in Callers, NEW s \in Sockets, NEW wait \in BOOLEAN,
         ReqDisconnect(c, s, wait)
  PROVE  IInv'
<1> DEFINE r == [Idle EXCEPT !.at = DiscPlace(wait), !.on = s]
<1>1. /\ c \in Threads /\ TypeOK /\ At(c, "idle") /\ Disable(s) /\ Become(c, r)
      /\ UNCHANGED <<pool, used, bWait, ripe, posted, conn, leaked, todo, lost>>
  BY DEF IInv, ReqDisconnect, Threads
<1>2. DiscPlace(wait) \in {"postDisc", "postDiscWait"}
  BY DEF DiscPlace
<1>3. r \in ThreadState /\ r.at = DiscPlace(wait) /\ r.on = s /\ r.back = "idle"
  BY <1>2 DEF Idle, ThreadState, Jobs, Places
<1>4. /\ th' \in [Threads -> ThreadState] /\ th'[c] = r
      /\ \A u \in Threads : u # c => th'[u] = th[u]
  BY <1>1, <1>3, BecomeFacts
<1>5. \A x \in Sockets : ~ Owns(c, x)
  BY <1>1 DEF Owns, OwnPlaces, At
<1> HIDE DEF r
<1> QED BY <1>1, <1>2, <1>3, <1>4, <1>5, DisableKeeps

LEMMA ReqDisconnectInCallbackKeeps ==
  ASSUME IInv, NEW w \in Workers, NEW wait \in BOOLEAN, ReqDisconnectInCallback(w, wait)
  PROVE  IInv'
<1>1. /\ w \in Threads /\ TypeOK /\ th[w].at \in Callbacks /\ Disable(th[w].on)
      /\ th[w].on \in Sockets
      /\ th' = [th EXCEPT ![w].at = DiscPlace(wait), ![w].back = th[w].at]
      /\ UNCHANGED <<pool, used, bWait, ripe, posted, conn, leaked, todo, lost>>
  BY DEF IInv, ThreadOK, ReqDisconnectInCallback, Threads, Callbacks
<1>2. DiscPlace(wait) \in {"postDisc", "postDiscWait"}
  BY DEF DiscPlace
<1>3. /\ th' \in [Threads -> ThreadState]
      /\ th'[w].at = DiscPlace(wait) /\ th'[w].on = th[w].on /\ th'[w].back = th[w].at
      /\ \A u \in Threads : u # w => th'[u] = th[u]
  <2>1. DiscPlace(wait) \in Places /\ th[w].at \in Places
    BY <1>1, <1>2 DEF TypeOK, ThreadState, Places
  <2> QED BY <1>1, <2>1 DEF TypeOK, ThreadState
\* in kFunOnDisconnect the thread owns the socket, so it is not enabled
<1>4. th[w].at # "inDisc"
  <2>1. Enabled(th[w].on)
    BY <1>1, EnabledIsEnabled DEF Disable
  <2> QED BY <1>1, <2>1 DEF Enabled, Nobody, Owns, OwnPlaces
<1>5. \A x \in Sockets : ~ Owns(w, x)
  BY <1>1, <1>4 DEF Owns, OwnPlaces, Callbacks, At
<1>6. th'[w].back \in {"idle", "inAccept", "inConnect", "inRecv", "reAccept", "waitEnd"}
  BY <1>1, <1>3, <1>4 DEF Callbacks
<1> QED BY <1>1, <1>2, <1>3, <1>5, <1>6, DisableKeeps

LEMMA HandErrorKeeps ==
  ASSUME IInv, NEW t \in Threads, HandError(t) PROVE IInv'
<1>0. PICK s \in Sockets : s = th[t].on
  BY DEF IInv, ThreadOK, HandError, At
<1>1. /\ s = th[t].on /\ At(t, "error") /\ ThreadOK(t) /\ TypeOK
      /\ th[t].back \in {"idle", "reAccept", "accDel", "conDel", "waitEnd"}
      /\ UNCHANGED <<pool, used, bWait, ripe, posted, conn, leaked, todo, lost>>
  BY <1>0 DEF IInv, ThreadOK, HandError, At
<1>2. CASE Disable(s) /\ Goto(t, "postDisc")
  <2>1. /\ th' \in [Threads -> ThreadState]
        /\ th'[t].at = "postDisc" /\ th'[t].on = s /\ th'[t].back = th[t].back
        /\ \A u \in Threads : u # t => th'[u] = th[u]
    BY <1>1, <1>2, GotoFacts DEF Places
  <2>2. Enabled(s)
    BY <1>2, EnabledIsEnabled DEF Disable
  <2>3. \A x \in Sockets : ~ Owns(t, x)
    BY <1>1, <2>2 DEF Enabled, Nobody, Owns
  <2>4. th[t].back \notin {"accDel", "conDel"}
    BY <1>1, <2>3 DEF Owns
  <2> QED BY <1>1, <1>2, <2>1, <2>3, <2>4, DisableKeeps
<1>3. CASE ~ bEnable[s] /\ Return(t) /\ UNCHANGED bEnable
  <2>1. /\ th' \in [Threads -> ThreadState]
        /\ th'[t].at = th[t].back
        /\ th[t].back # "idle" => th'[t].on = s
        /\ \A u \in Threads : u # t => th'[u] = th[u]
    BY <1>1, <1>3, ReturnFacts
  <2>2. TypeOK'
    BY <1>1, <1>3, <2>1 DEF TypeOK
  <2>3. ThreadOK(t)'
    BY <1>1, <2>1 DEF ThreadOK
  <2>4. CASE th[t].back \in {"accDel", "conDel"}
    <3>1. Mine(t, s)
      BY <1>1, <2>4, OwnedIsMine DEF Owns
    <3>2. Only(t, s)
      BY <1>1, <1>3, <2>1, <2>4 DEF Only, Owns, Pooled, TypeOK
    <3>3. Mine(t, s)'
      BY <1>1, <1>3, <2>1, <2>4, <3>1 DEF Mine, NoOp, Pooled, Owns, OwnPlaces, UpPlaces, At, AtRest
    <3>4. SocketOK(s)'
      BY <3>3 DEF SocketOK
    <3> QED BY <1>1, <2>2, <2>3, <3>2, <3>4, SamePool, Frame
  <2>5. CASE th[t].back \notin {"accDel", "conDel"}
    <3>1. \A x \in Sockets : ~ Owns(t, x) /\ ~ Owns(t, x)'
      BY <1>1, <2>1, <2>5 DEF Owns, OwnPlaces, At
    <3> QED BY <1>1, <1>3, <2>1, <2>2, <2>3, <3>1, FrameQuiet
  <2> QED BY <2>4, <2>5
<1> QED BY <1>1, <1>2, <1>3 DEF HandError

\* What the end of reqDisconnectAndWait's wait returns to
LEMMA WaitDisconnectKeeps ==
  ASSUME IInv, NEW t \in Threads, WaitDisconnect(t) PROVE IInv'
<1>1. /\ TypeOK /\ At(t, "waitDisc") /\ th[t].on \in Sockets
      /\ th[t].back \in {"idle", "inAccept", "inConnect", "inRecv", "reAccept", "waitEnd"}
      /\ UNCHANGED <<pool, used, bEnable, bWait, ripe, posted, conn, leaked, todo, lost>>
  BY ReturnFromDisconnect DEF IInv, WaitDisconnect, At
<1>2. /\ th' \in [Threads -> ThreadState]
      /\ th'[t].at = th[t].back
      /\ th[t].back # "idle" => th'[t].on = th[t].on
      /\ \A u \in Threads : u # t => th'[u] = th[u]
  BY <1>1, ReturnFacts DEF WaitDisconnect
<1>3. TypeOK'
  BY <1>1, <1>2 DEF TypeOK
<1>4. ThreadOK(t)'
  BY <1>1, <1>2 DEF ThreadOK
<1>5. \A x \in Sockets : ~ Owns(t, x) /\ ~ Owns(t, x)'
  BY <1>1, <1>2 DEF Owns, OwnPlaces, At
<1> QED BY <1>1, <1>2, <1>3, <1>4, <1>5, FrameQuiet

\* The pool is stocked with a new socket.
LEMMA PrepareKeeps ==
  ASSUME IInv, NEW c \in Callers, NEW s \in Sockets, PrepareCkSocket(c, s) PROVE IInv'
<1>1. /\ c \in Threads /\ TypeOK /\ At(c, "idle") /\ s \notin used /\ ~ Pooled(s)
      /\ UNCHANGED <<used, bEnable, bWait, ripe, posted, conn, leaked, todo, lost, th>>
  BY DEF IInv, PrepareCkSocket, Fresh, Threads
<1>2. /\ pool' \in [Kinds -> Seq(Sockets)]
      /\ \A k \in Kinds : PoolOK(k)'
      /\ \A x \in Sockets : Pooled(x)' <=> Pooled(x) \/ x = s
  BY <1>1, PutSocket DEF PrepareCkSocket
<1>3. TypeOK'
  BY <1>1, <1>2 DEF TypeOK
<1>4. Only(c, s)
  BY <1>1, <1>2 DEF Only, Owns, OwnPlaces, At
<1>5. ThreadOK(c)'
  BY <1>1 DEF ThreadOK, IInv
<1>6. Free(s)'
  BY <1>1, UnusedIsFree DEF Free, Nobody, NoOp, Owns, At, AtRest
<1>7. SocketOK(s)'
  BY <1>6 DEF SocketOK
<1> QED BY <1>1, <1>2, <1>3, <1>4, <1>5, <1>7, Frame

\* Time passes.
LEMMA TimeKeeps ==
  ASSUME IInv, ripe' \in [Sockets -> BOOLEAN],
         UNCHANGED <<pool, used, bEnable, bWait, posted, conn, leaked, todo, lost, th>>
  PROVE  IInv'
<1>1. TypeOK'
  BY DEF IInv, TypeOK
<1>2. \A t \in Threads : ThreadOK(t)'
  BY DEF IInv, ThreadOK
<1>3. \A k \in Kinds : PoolOK(k)'
  BY SamePool
<1>4. ASSUME NEW s \in Sockets PROVE SocketOK(s)'
  BY DEF IInv, SocketOK, Free, Enabled, Lost, Mine, Pending, NoOp, Nobody, Owns, At, Pooled, AtRest
<1> QED BY <1>1, <1>2, <1>3, <1>4 DEF IInv

-----------------------------------------------------------------------------
(* The invariant is inductive                                               *)

LEMMA InitOK == Init => IInv
<1> SUFFICES ASSUME Init PROVE IInv
  OBVIOUS
<1>1. TypeOK
  BY IdleState, ParamAssumption DEF Init, TypeOK, Kinds, Ops
<1>2. \A t \in Threads : ThreadOK(t)
  BY DEF Init, ThreadOK, Idle
<1>3. \A k \in Kinds : PoolOK(k)
  BY DEF Init, PoolOK
<1>4. ASSUME NEW s \in Sockets PROVE Free(s)
  BY DEF Init, Free, NoOp, Nobody, Owns, OwnPlaces, At, AtRest, Idle, Ops
<1> QED BY <1>1, <1>2, <1>3, <1>4 DEF IInv, SocketOK

LEMMA CompletionStep ==
  ASSUME IInv, NEW w \in Workers, NEW s \in Sockets, Completion(w, s) PROVE IInv'
<1> DEFINE r(j, p, b) == [job |-> j, at |-> p, on |-> s, back |-> b]
<1>1. /\ r("accept", "accOpen", "idle") \in ThreadState
      /\ r("accept", "error", "accDel") \in ThreadState
      /\ r("connect", "conOpen", "idle") \in ThreadState
      /\ r("connect", "error", "conDel") \in ThreadState
      /\ r("disc", "inDisc", "idle") \in ThreadState
  BY DEF ThreadState, Jobs, Places
<1>2. CASE CompleteAccept(w, s)
  BY <1>1, <1>2, CompletionKeeps DEF CompleteAccept, Run
<1>3. CASE CompleteAcceptFails(w, s)
  BY <1>1, <1>3, CompletionKeeps DEF CompleteAcceptFails
<1>4. CASE CompleteConnect(w, s)
  BY <1>1, <1>4, CompletionKeeps DEF CompleteConnect, Run
<1>5. CASE CompleteConnectFails(w, s)
  BY <1>1, <1>5, CompletionKeeps DEF CompleteConnectFails
<1>6. CASE CompleteRecv(w, s) \/ CompleteRecvFails(w, s)
  BY <1>6, CompleteRecvKeeps
<1>7. CASE CompleteDisconnect(w, s)
  BY <1>1, <1>7, CompletionKeeps DEF CompleteDisconnect, Run
<1>8. CASE CompleteDisconnectFails(w, s)
  BY <1>1, <1>8, CompletionKeeps DEF CompleteDisconnectFails, Run
<1> QED BY <1>2, <1>3, <1>4, <1>5, <1>6, <1>7, <1>8 DEF Completion

LEMMA HandlerStep ==
  ASSUME IInv, NEW w \in Workers, Handler(w) PROVE IInv'
<1> DEFINE s == th[w].on
<1>0. w \in Threads /\ TypeOK
  BY DEF Threads, IInv
<1>1. CASE HandAcceptOpen(w) \/ HandConnectOpen(w)
  BY <1>1, OpenKeeps
<1>2. CASE AcceptCallbackReturns(w)
  BY <1>0, <1>2, PassingKeeps DEF AcceptCallbackReturns, Passing, At, TypeOK
<1>3. CASE HandAcceptRecv(w)
  BY <1>0, <1>3, ReceiveKeeps DEF HandAcceptRecv, Passing, At, TypeOK
<1>4. CASE HandAcceptRecvFails(w)
  BY <1>0, <1>4, PassingKeeps DEF HandAcceptRecvFails, Passing, At, TypeOK
<1>5. CASE HandAcceptDel(w)
  BY <1>0, <1>5, DelKeeps DEF HandAcceptDel, Owns, OwnPlaces, UpPlaces, At, TypeOK, IInv, ThreadOK
<1>6. CASE ConnectCallbackReturns(w)
  BY <1>0, <1>6, PassingKeeps DEF ConnectCallbackReturns, Passing, At, TypeOK
<1>7. CASE HandConnectRecv(w)
  BY <1>0, <1>7, ReceiveKeeps DEF HandConnectRecv, Passing, At, TypeOK
<1>8. CASE HandConnectRecvFails(w)
  BY <1>0, <1>8, PassingKeeps DEF HandConnectRecvFails, Passing, At, TypeOK
<1>9. CASE HandConnectDel(w)
  BY <1>0, <1>9, DelKeeps DEF HandConnectDel, Owns, OwnPlaces, UpPlaces, At, TypeOK, IInv, ThreadOK
<1>10. CASE HandRecvAgain(w)
  BY <1>0, <1>10, ReceiveKeeps DEF HandRecvAgain, Passing, At, TypeOK
<1>11. CASE HandRecvPostFails(w)
  BY <1>0, <1>11, PassingKeeps DEF HandRecvPostFails, Passing, At, TypeOK
<1>12. CASE HandRecvOverflow(w)
  BY <1>0, <1>12, PassingKeeps DEF HandRecvOverflow, Passing, At, TypeOK
<1>13. CASE HandDisconnect(w)
  BY <1>0, <1>13, DelKeeps DEF HandDisconnect, Owns, OwnPlaces, UpPlaces, At, TypeOK, IInv, ThreadOK
<1> QED BY <1>1, <1>2, <1>3, <1>4, <1>5, <1>6, <1>7, <1>8, <1>9, <1>10, <1>11,
           <1>12, <1>13 DEF Handler

LEMMA CallStep ==
  ASSUME IInv, NEW c \in Callers, Call(c) PROVE IInv'
<1>0. c \in Threads /\ TypeOK
  BY DEF Threads, IInv
<1>1. CASE PostConnect(c)
  BY <1>1, PostConnectKeeps
<1>2. CASE PostConnectFails(c)
  BY <1>0, <1>2, DelKeeps DEF PostConnectFails, Owns, OwnPlaces, UpPlaces, At, TypeOK, IInv, ThreadOK
<1>3. CASE WaitConnect(c)
  BY <1>0, <1>3, PassingKeeps DEF WaitConnect, Passing, At, TypeOK
<1>4. CASE WaitRecv(c)
  BY <1>0, <1>4, ReceiveKeeps DEF WaitRecv, Passing, At, TypeOK
<1>5. CASE WaitRecvFails(c)
  BY <1>0, <1>5, PassingKeeps DEF WaitRecvFails, Passing, At, TypeOK
<1>6. CASE WaitEnd(c)
  BY <1>0, <1>6, PassingKeeps DEF WaitEnd, Passing, At, TypeOK
<1> QED BY <1>1, <1>2, <1>3, <1>4, <1>5, <1>6 DEF Call

LEMMA SharedStep ==
  ASSUME IInv, NEW t \in Threads, Shared(t) PROVE IInv'
<1>1. CASE PostAcceptFails(t)
  <2>1. /\ th[t].at = "postAccept" /\ th[t].on \in Sockets /\ DelSocket(th[t].on)
        /\ lost' = lost + 1 /\ Become(t, Idle) /\ UNCHANGED <<ripe, posted, conn, leaked, todo>>
    BY <1>1 DEF PostAcceptFails, At, IInv, ThreadOK
  <2>2. ripe' \in [Sockets -> BOOLEAN] /\ todo' \in Nat /\ lost' \in Nat
    BY <2>1 DEF IInv, TypeOK
  <2>3. Owns(t, th[t].on) /\ th[t].at \notin UpPlaces
    BY <2>1 DEF Owns, OwnPlaces, UpPlaces
  <2> QED BY <2>1, <2>2, <2>3, DelKeeps
<1> QED BY <1>1, PostAcceptKeeps, HandErrorKeeps, WaitDisconnectKeeps, PostDisconnectKeeps,
           PostDisconnectFailsKeeps DEF Shared

LEMMA Inductive == IInv /\ [Next]_vars => IInv'
<1> SUFFICES ASSUME IInv, [Next]_vars PROVE IInv'
  OBVIOUS
<1>1. CASE \E w \in Workers, s \in Sockets : Completion(w, s)
  BY <1>1, CompletionStep
<1>2. CASE \E w \in Workers : Handler(w)
  BY <1>2, HandlerStep
<1>3. CASE \E w \in Workers, wait \in BOOLEAN : ReqDisconnectInCallback(w, wait)
  BY <1>3, ReqDisconnectInCallbackKeeps
<1>4. CASE \E c \in Callers : Call(c)
  BY <1>4, CallStep
<1>5. CASE \E c \in Callers, s \in Sockets : Request(c, s)
  BY <1>5, PrepareKeeps, ReqConnectKeeps, ReqDisconnectKeeps DEF Request
<1>6. CASE \E t \in Threads : Shared(t) \/ Accepting(t)
  BY <1>6, SharedStep, NoSocketKeeps, ReqAcceptKeeps DEF Accepting
<1>7. CASE \E s \in Sockets : TimeWaitOver(s)
  BY <1>7, TimeKeeps DEF TimeWaitOver, IInv, TypeOK
<1>8. CASE UNCHANGED vars
  BY <1>8, TimeKeeps DEF vars, IInv, TypeOK
<1> QED BY <1>1, <1>2, <1>3, <1>4, <1>5, <1>6, <1>7, <1>8 DEF Next

LEMMA InvariantHolds == Spec => []IInv
  BY InitOK, Inductive, PTL DEF Spec

-----------------------------------------------------------------------------
(* The theorems                                                             *)

\* The state keeps its type: in particular no count of pending operations
\* and neither todo nor lost ever goes below zero.
THEOREM TypeCorrect == Spec => []TypeOK
<1>1. IInv => TypeOK
  BY DEF IInv
<1> QED BY <1>1, InvariantHolds, PTL

\* No socket is ever held twice, whatever number of threads connects, accepts
\* and disconnects, and however long a call or a handler is delayed; and none
\* that was created is forgotten.
THEOREM SocketsHeldOnce == Spec => []OneHolder
<1>1. IInv => OneHolder
  <2> SUFFICES ASSUME IInv, NEW s \in Sockets
               PROVE  /\ \A g, h \in Holders : Holds(g, s) /\ Holds(h, s) => g = h
                      /\ s \in used => \E h \in Holders : Holds(h, s)
    BY DEF OneHolder
  <2> USE KeeperAssumption DEF Keepers, Holders
  <2>0. TypeOK
    BY DEF IInv
  <2>1. CASE Free(s)
    <3>1. \A h \in Holders : Holds(h, s) => h = "pool"
      BY <2>1 DEF Holds, Free, NoOp, Nobody
    <3> QED BY <2>1, <3>1 DEF Free
  <2>2. CASE Enabled(s)
    <3>1. \A h \in Holders : Holds(h, s) <=> h = "user"
      BY <2>2 DEF Holds, Enabled, NoOp, Nobody
    <3> QED BY <3>1
  <2>3. CASE Lost(s)
    <3>1. \A h \in Holders : Holds(h, s) <=> h = "leak"
      BY <2>3 DEF Holds, Lost, NoOp, Nobody
    <3> QED BY <3>1
  <2>4. ASSUME NEW t \in Threads, Mine(t, s)
        PROVE  \A h \in Holders : Holds(h, s) <=> h = t
    BY <2>4 DEF Holds, Mine, NoOp
  <2>5. ASSUME NEW o \in {"accept", "connect", "disc"}, Pending(s, o)
        PROVE  \A h \in Holders : Holds(h, s) <=> h = o
    BY <2>5 DEF Holds, Pending, Nobody
  <2> QED BY <2>1, <2>2, <2>3, <2>4, <2>5 DEF IInv, SocketOK
<1> QED BY <1>1, InvariantHolds, PTL

\* newCompleteKeySocket only ever hands out sockets at rest: not in use, with
\* no operation pending and no connection in the kernel, or one that a failed
\* DisconnectEx left there.
THEOREM PooledAtRest == Spec => []PoolAtRest
<1>1. IInv => PoolAtRest
  <2> SUFFICES ASSUME IInv PROVE PoolAtRest
    OBVIOUS
  <2>1. \A k \in Kinds : \A i, j \in 1..Len(pool[k]) : pool[k][i] = pool[k][j] => i = j
    BY DEF IInv, PoolOK
  <2>2. ASSUME NEW s \in Sockets, Pooled(s)
        PROVE  /\ s \notin used /\ ~ bEnable[s]
               /\ \A o \in Ops \ {"recv"} : posted[s][o] = 0
               /\ conn[s] = "stuck" \/ (conn[s] = "none" /\ posted[s]["recv"] = 0)
    BY <2>2, PooledIsFree DEF Free, NoOp, Ops, AtRest
  <2> QED BY <2>1, <2>2 DEF PoolAtRest
<1> QED BY <1>1, InvariantHolds, PTL

\* Whoever finds bEnable true has a connection that is up.
THEOREM EnabledConnected == Spec => []EnabledIsUp
<1>1. IInv => EnabledIsUp
  BY EnabledIsEnabled DEF EnabledIsUp, Enabled
<1> QED BY <1>1, InvariantHolds, PTL
=============================================================================
