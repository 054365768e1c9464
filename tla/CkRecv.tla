------------------------------- MODULE CkRecv -------------------------------
(***************************************************************************)
(* The bytes a CompleteKeySocket receives (handRecv, kBufRecv) and the     *)
(* fields its handlers read without a lock (kFunOnRecv, pkCkListen), laid  *)
(* over the life cycle of WinIocp: every step of WinIocp takes place here  *)
(* too, together with what it does to these fields, and handRecv and the   *)
(* init() of handDisconnect are cut into their steps.                      *)
(*                                                                         *)
(* kBufRecv is the queue of bytes NetBuffer implements (ByteQueue), a byte *)
(* the number of its connection and its place in that connection's stream. *)
(***************************************************************************)
EXTENDS WinIocp

CONSTANTS
  MaxChunk,  \* bytes one receive brings at most (NET_POST_RECV_BUF_LEN)
  RecvMax    \* NET_SOCKET_RECV_BUF_MAX

ASSUME RecvAssumption ==
  IsFiniteSet(Workers) /\ MaxChunk \in Nat \ {0} /\ RecvMax \in Nat

VARIABLES
  step,       \* where a worker is within handRecv or init()
  kBuffer,    \* OverlappedRecv::kBuffer of the receive a worker handles
  kBufRecv,   \* CompleteKeySocket::kBufRecv
  kFunOnRecv, \* is the std::function set?
  pkCkListen, \* is the pointer not NULL?
  epoch,      \* connections the socket has had
  arrived,    \* bytes receives brought on this connection
  taken,      \* bytes the callback took from kBufRecv on this connection
  late        \* sockets init()ed while a receive, or a thread with one, went on

sockVars == <<kBufRecv, kFunOnRecv, pkCkListen>>
netVars  == <<epoch, arrived, taken, late>>
recvVars == <<step, kBuffer, sockVars, netVars>>

Steps == {"none", "append", "test", "call", "in", "check", "use", "post",
          "reset", "crash"}
Byte  == Nat \X Nat

Stream(s, from, n) == [i \in 1..n |-> <<epoch[s], from + i>>]

StepTo(w, p) == step' = [step EXCEPT ![w] = p]

-----------------------------------------------------------------------------
(* handRecv                                                                 *)

\* The kernel filled the buffer of the receive with the next bytes.
RecvCompletes(w, s) ==
  /\ CompleteRecv(w, s)
  /\ \E n \in 1..MaxChunk :
       /\ kBuffer' = [kBuffer EXCEPT ![w] = Stream(s, arrived[s], n)]
       /\ arrived' = [arrived EXCEPT ![s] = @ + n]
  /\ StepTo(w, "append")
  /\ UNCHANGED <<sockVars, epoch, taken, late>>

AppendRecv(w) ==
  LET s == th[w].on IN
  /\ step[w] = "append"
  /\ kBufRecv' = [kBufRecv EXCEPT ![s] = @ \o kBuffer[w]]
  /\ kBuffer' = [kBuffer EXCEPT ![w] = <<>>]
  /\ StepTo(w, "test")
  /\ UNCHANGED <<vars, kFunOnRecv, pkCkListen, netVars>>

TestFunOnRecv(w) ==
  /\ step[w] = "test"
  /\ StepTo(w, IF kFunOnRecv[th[w].on] THEN "call" ELSE "check")
  /\ UNCHANGED <<vars, kBuffer, sockVars, netVars>>

\* An empty std::function throws, and nothing catches it.
CallFunOnRecv(w) ==
  /\ step[w] = "call"
  /\ StepTo(w, IF kFunOnRecv[th[w].on] THEN "in" ELSE "crash")
  /\ UNCHANGED <<vars, kBuffer, sockVars, netVars>>

\* The callback takes bytes from the front of kBufRecv.
TakeBytes(w) ==
  LET s == th[w].on IN
  /\ step[w] = "in" /\ At(w, "inRecv")
  /\ \E n \in 1..Len(kBufRecv[s]) :
       /\ kBufRecv' = [kBufRecv EXCEPT ![s] = SubSeq(@, n + 1, Len(@))]
       /\ taken' = [taken EXCEPT ![s] = @ + n]
  /\ UNCHANGED <<vars, step, kBuffer, kFunOnRecv, pkCkListen, epoch, arrived, late>>

FunOnRecvReturns(w) ==
  /\ step[w] = "in" /\ At(w, "inRecv")
  /\ StepTo(w, "check")
  /\ UNCHANGED <<vars, kBuffer, sockVars, netVars>>

\* Mutant: what is in kBufRecv is not measured, only what was received.
OverflowsByChunk(s) == Len(kBufRecv[s]) > RecvMax + MaxChunk

Overflows(s) == Len(kBufRecv[s]) > RecvMax

RecvOverflow(w) ==
  LET s == th[w].on IN
  /\ step[w] = "check" /\ Overflows(s)
  /\ HandRecvOverflow(w)
  /\ kBufRecv' = [kBufRecv EXCEPT ![s] = <<>>]
  /\ StepTo(w, "none")
  /\ UNCHANGED <<kBuffer, kFunOnRecv, pkCkListen, netVars>>

\* Mutant: pkCkListen is used without being tested.
TestListenNot(w) ==
  /\ step[w] = "check" /\ ~ Overflows(th[w].on)
  /\ StepTo(w, "use")
  /\ UNCHANGED <<vars, kBuffer, sockVars, netVars>>

TestListen(w) ==
  /\ step[w] = "check" /\ ~ Overflows(th[w].on)
  /\ StepTo(w, IF pkCkListen[th[w].on] THEN "use" ELSE "post")
  /\ UNCHANGED <<vars, kBuffer, sockVars, netVars>>

\* vllRecvBytes of the listener is counted up: through NULL if init() came first
UseListen(w) ==
  /\ step[w] = "use"
  /\ StepTo(w, IF pkCkListen[th[w].on] THEN "post" ELSE "crash")
  /\ UNCHANGED <<vars, kBuffer, sockVars, netVars>>

RecvAgain(w) ==
  /\ step[w] = "post"
  /\ HandRecvAgain(w) \/ HandRecvPostFails(w)
  /\ StepTo(w, "none")
  /\ UNCHANGED <<kBuffer, sockVars, netVars>>

-----------------------------------------------------------------------------
(* Opening and init()                                                       *)

AcceptAsked(t, s) ==
  /\ ReqAccept(t, s)
  /\ pkCkListen' = [pkCkListen EXCEPT ![s] = TRUE]
  /\ UNCHANGED <<step, kBuffer, kBufRecv, kFunOnRecv, netVars>>

\* A new connection: its stream begins.
Connected(w, s) ==
  /\ CompleteAccept(w, s) \/ CompleteConnect(w, s)
  /\ epoch' = [epoch EXCEPT ![s] = @ + 1]
  /\ arrived' = [arrived EXCEPT ![s] = 0]
  /\ taken' = [taken EXCEPT ![s] = 0]
  /\ UNCHANGED <<step, kBuffer, sockVars, late>>

\* The accept or connect callback sets kFunOnRecv.
SetFunOnRecv(w) ==
  /\ AcceptCallbackReturns(w) \/ ConnectCallbackReturns(w)
  /\ kFunOnRecv' = [kFunOnRecv EXCEPT ![th[w].on] = TRUE]
  /\ UNCHANGED <<step, kBuffer, kBufRecv, pkCkListen, netVars>>

\* Other threads that will append to kBufRecv, set kFunOnRecv or post a receive
GoesOnReceiving(t) ==
  {th[t].at, th[t].back} \cap
    {"inAccept", "accRecv", "inConnect", "conRecv", "inRecv", "waitConn", "waitRecv"} # {}

\* init() comes to s while its receive is with another thread, or pending: the
\* DisconnectEx failed.
TooEarly(t) ==
  LET s == th[t].on IN
  \/ posted[s]["recv"] > 0
  \/ \E u \in Threads \ {t} : th[u].on = s /\ GoesOnReceiving(u)

\* init() empties the std::functions ...
InitFunctions(w) ==
  LET s == th[w].on IN
  /\ At(w, "inDisc") /\ step[w] = "none"
  /\ kFunOnRecv' = [kFunOnRecv EXCEPT ![s] = FALSE]
  /\ late' = IF TooEarly(w) THEN late \cup {s} ELSE late
  /\ StepTo(w, "reset")
  /\ UNCHANGED <<vars, kBuffer, kBufRecv, pkCkListen, epoch, arrived, taken>>

\* Mutant: init() forgets kBufRecv.
InitKeepsBytes(s) ==
  /\ kBufRecv' = kBufRecv
  /\ pkCkListen' = [pkCkListen EXCEPT ![s] = FALSE]

\* ... and then, the part under ccsSend between, the rest.
InitRest(s) ==
  /\ kBufRecv' = [kBufRecv EXCEPT ![s] = <<>>]
  /\ pkCkListen' = [pkCkListen EXCEPT ![s] = FALSE]

Disconnected(w) ==
  /\ step[w] = "reset"
  /\ HandDisconnect(w) /\ InitRest(th[w].on)
  /\ StepTo(w, "none")
  /\ UNCHANGED <<kBuffer, kFunOnRecv, netVars>>

\* delCompleteKeySocket where there was no connection
NotOpened(t) ==
  LET s == th[t].on IN
  /\ PostAcceptFails(t) \/ HandAcceptDel(t) \/ PostConnectFails(t) \/ HandConnectDel(t)
  /\ kFunOnRecv' = [kFunOnRecv EXCEPT ![s] = FALSE]
  /\ InitRest(s)
  /\ late' = IF TooEarly(t) THEN late \cup {s} ELSE late
  /\ UNCHANGED <<step, kBuffer, epoch, arrived, taken>>

-----------------------------------------------------------------------------
(* The rest of WinIocp leaves these fields alone                            *)

OtherCompletion(w, s) ==
  \/ CompleteAcceptFails(w, s) \/ CompleteConnectFails(w, s)
  \/ CompleteRecvFails(w, s)
  \/ CompleteDisconnect(w, s)  \/ CompleteDisconnectFails(w, s)

OtherStep(t) ==
  \/ HandAcceptOpen(t)         \/ HandAcceptRecv(t)      \/ HandAcceptRecvFails(t)
  \/ HandConnectOpen(t)        \/ HandConnectRecv(t)     \/ HandConnectRecvFails(t)
  \/ PostAccept(t)             \/ ReqAcceptNoSocket(t)
  \/ PostConnect(t)            \/ WaitConnect(t)         \/ WaitRecv(t)
  \/ WaitRecvFails(t)          \/ WaitEnd(t)
  \/ HandError(t)              \/ WaitDisconnect(t)
  \/ PostDisconnect(t)         \/ PostDisconnectFails(t)

DisconnectInCallback(w, wait) ==
  /\ step[w] \in {"none", "in"}
  /\ ReqDisconnectInCallback(w, wait)

Other ==
  \/ \E w \in Workers, s \in Sockets : OtherCompletion(w, s)
  \/ \E t \in Threads : OtherStep(t)
  \/ \E w \in Workers, wait \in BOOLEAN : DisconnectInCallback(w, wait)
  \/ \E c \in Callers, s \in Sockets : Request(c, s)
  \/ \E s \in Sockets : TimeWaitOver(s)

-----------------------------------------------------------------------------
RecvInit ==
  /\ Init
  /\ step = [w \in Workers |-> "none"]
  /\ kBuffer = [w \in Workers |-> <<>>]
  /\ kBufRecv = [s \in Sockets |-> <<>>]
  /\ kFunOnRecv = [s \in Sockets |-> FALSE]
  /\ pkCkListen = [s \in Sockets |-> FALSE]
  /\ epoch = [s \in Sockets |-> 0]
  /\ arrived = [s \in Sockets |-> 0]
  /\ taken = [s \in Sockets |-> 0]
  /\ late = {}

HandRecv(w) ==
  \/ AppendRecv(w)      \/ TestFunOnRecv(w)  \/ CallFunOnRecv(w)
  \/ TakeBytes(w)       \/ FunOnRecvReturns(w)
  \/ RecvOverflow(w)    \/ TestListen(w)     \/ UseListen(w)
  \/ RecvAgain(w)

RecvNext ==
  /\ \A w \in Workers : step[w] # "crash"
  /\ \/ \E w \in Workers, s \in Sockets : RecvCompletes(w, s) \/ Connected(w, s)
     \/ \E w \in Workers : HandRecv(w) \/ SetFunOnRecv(w)
     \/ \E w \in Workers : InitFunctions(w) \/ Disconnected(w)
     \/ \E t \in Threads, s \in Sockets : AcceptAsked(t, s)
     \/ \E t \in Threads : NotOpened(t)
     \/ Other /\ UNCHANGED recvVars

RecvSpec == RecvInit /\ [][RecvNext]_<<vars, recvVars>>

-----------------------------------------------------------------------------
(* Properties                                                               *)

RecvTypeOK ==
  /\ TypeOK
  /\ step \in [Workers -> Steps]
  /\ kBuffer \in [Workers -> Seq(Byte)]
  /\ kBufRecv \in [Sockets -> Seq(Byte)]
  /\ kFunOnRecv \in [Sockets -> BOOLEAN]
  /\ pkCkListen \in [Sockets -> BOOLEAN]
  /\ epoch \in [Sockets -> Nat] /\ arrived \in [Sockets -> Nat]
  /\ taken \in [Sockets -> Nat]
  /\ late \in SUBSET Sockets

\* What the callback finds in kBufRecv is all that the peer of this connection
\* sent and it has not taken: in order, nothing left out, nothing of an
\* earlier connection.  So it is on every socket that had no receive left when
\* it was init()ed, pending or in a late thread's hands.
StreamInOrder ==
  \A w \in Workers :
    LET s == th[w].on IN
      step[w] \in {"call", "in"} /\ s \notin late =>
        kBufRecv[s] = Stream(s, taken[s], arrived[s] - taken[s])

\* A handler that found kFunOnRecv or pkCkListen set still finds it set when
\* it uses it, unless init() overtook the handler or its receive.
StillThere ==
  \A w \in Workers : th[w].on \in Sockets \ late =>
    /\ step[w] \in {"call", "in"} => kFunOnRecv[th[w].on]
    /\ step[w] = "use" => pkCkListen[th[w].on]
    /\ step[w] # "crash"

\* Between two receives a socket holds at most NET_SOCKET_RECV_BUF_MAX bytes,
\* also where stale handlers append to it: an application that takes nothing
\* is disconnected, it does not use up the memory.
UnreadBounded ==
  \A s \in Sockets :
    Len(kBufRecv[s]) <= RecvMax + MaxChunk * Cardinality(
      {w \in Workers : th[w].on = s /\ step[w] \in {"test", "call", "in", "check", "crash"}})

\* main.cpp:46: what the callback finds in the buffer was received from the
\* peer of the connection, whose address it logs with it.
OwnBytes ==
  \A w \in Workers : step[w] = "in" =>
    \A i \in 1..Len(kBufRecv[th[w].on]) : kBufRecv[th[w].on][i][1] = epoch[th[w].on]
=============================================================================
