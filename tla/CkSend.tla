------------------------------- MODULE CkSend -------------------------------
(***************************************************************************)
(* The send path of one CompleteKeySocket over the connections it is       *)
(* reused for: reqSend, autoPostSend and handSend of                       *)
(* src/Lib/net/WinIocp.cpp with ccsSend, bEnable, szSendBytes and          *)
(* kSendList, kFunOnSend, and the part of disconnecting that touches them. *)
(*                                                                         *)
(* The thread whose bytes are the only ones counted in szSendBytes posts   *)
(* them; every other thread leaves its bytes in kSendList, and handSend    *)
(* posts those.  The counter is all that says whether somebody posts.      *)
(*                                                                         *)
(* A step is one critical section of ccsSend, one call of the kernel, one  *)
(* look at a field without a lock, or one completion.  A handler and a     *)
(* call of the application need the same thread structure here, so there   *)
(* is one set of threads.                                                  *)
(***************************************************************************)
EXTENDS Naturals, Sequences, SequencesExt, FiniteSetsExt

CONSTANTS
  Threads,   \* workers and application threads
  Lens,      \* lengths of the messages that are sent
  SendMax,   \* NET_SOCKET_SEND_BUF_MAX
  BufNum,    \* NET_OL_BUF_NUM
  SizeMod,   \* 2^64: szSendBytes is a size_t
  MaxNext,   \* bound: bytes offered on one connection
  MaxEpoch,  \* bound: connections the socket is used for
  Accepted   \* the socket is an accepted one: it has a pkCkListen

ASSUME SendAssumption ==
  /\ IsFiniteSet(Threads)
  /\ Lens \subseteq Nat \ {0}
  /\ {SendMax, BufNum, MaxNext, MaxEpoch} \subseteq Nat \ {0}
  /\ SizeMod \in Nat /\ SizeMod > 2 * (SendMax + MaxNext)
  /\ Accepted \in BOOLEAN

VARIABLES
  bEnable, szSendBytes, kSendList,  \* guarded by ccsSend
  ops,      \* the WSASends pending in the kernel, in the order of posting
  conn,     \* the kernel's connection: none, up, closing, or stuck if its
            \* DisconnectEx has failed
  disc,     \* the DisconnectEx: none, posted, or failed
  pooled,   \* the socket is in its pool
  th,       \* what each thread does
  epoch,    \* the connection's number
  next,     \* bytes accepted by reqSend on this connection
  wire,     \* the bytes that went out on this connection
  failed,   \* a WSASend was refused on this connection
  settled,  \* nothing was late when init() last ran: see HandDisconnect
  kFunOnSend, \* is the std::function set?
  pkCkListen, \* is the pointer not NULL?
  told      \* the bytes kFunOnSend was told of on this connection

netVars  == <<epoch, next, wire, failed, settled>>
tellVars == <<kFunOnSend, pkCkListen, told>>
vars     == <<bEnable, szSendBytes, kSendList, ops, conn, disc, pooled, th, netVars, tellVars>>

-----------------------------------------------------------------------------
(* Buffers: the bytes from..to-1 of connection e                            *)

Chunk(n) == [e |-> epoch, from |-> next, to |-> next + n]
Size(c)  == c.to - c.from
Bytes(q) == FoldLeft(LAMBDA n, c : n + Size(c), 0, q)

\* Mutant: hasRead forgotten
RestNothingRead(q, k) == q

\* The buffers q after hasRead of their first k bytes, the empty ones left out:
\* bytes are read from the front, the buffers they empty come first
Rest(q, k) ==
  LET before(i) == Bytes(SubSeq(q, 1, i - 1))
      read(i)   == Min({Size(q[i]), Max({0, k - before(i)})})
      left      == [i \in 1..Len(q) |-> [q[i] EXCEPT !.from = @ + read(i)]]
      emptied   == Max({0} \cup {i \in 1..Len(q) : Size(left[i]) = 0})
  IN  SubSeq(left, emptied + 1, Len(q))

\* The first k bytes of q, one by one
Sent(q, k) ==
  SubSeq(FlattenSeq([i \in 1..Len(q) |->
                       [j \in 1..Size(q[i]) |-> <<q[i].e, q[i].from + j - 1>>]]), 1, k)

Plus(a, b)  == (a + b) % SizeMod
\* Mutant: szSendBytes signed
MinusSigned(a, b) == a - (b % SizeMod)

Minus(a, b) == (a + SizeMod - (b % SizeMod)) % SizeMod

-----------------------------------------------------------------------------
(* Threads.  "op" is the WSASend in the thread's hands, "last" the bytes    *)
(* that handSend has still to take off szSendBytes, "sent" the bytes it     *)
(* tells kFunOnSend of, "err" whether it ends in handError, and "back"      *)
(* where handError goes on.  A crash is the end of the process.             *)

Telling == {"count", "add", "test", "call"}
Places  == Telling \cup {"idle", "post", "auto", "repost", "undo", "error",
                         "postDisc", "init", "clear", "crash"}
Idle    == [at |-> "idle", op |-> <<>>, last |-> 0, sent |-> <<>>, err |-> FALSE,
            back |-> "idle"]
Alive   == \A t \in Threads : th[t].at # "crash"

At(t, p)     == th[t].at = p
Become(t, r) == th' = [th EXCEPT ![t] = r]
Goto(t, p)   == Become(t, IF p = "idle" THEN Idle ELSE [th[t] EXCEPT !.at = p, !.back = "idle"])
\* the end of handSend
EndSend(t)   == IF th[t].err THEN Become(t, [Idle EXCEPT !.at = "error"]) ELSE Become(t, Idle)

\* Who will, or may, still subtract from szSendBytes
Owes(t) == \/ th[t].at \in Telling \cup {"post", "auto", "repost", "undo"}
           \/ th[t].back = "undo"

-----------------------------------------------------------------------------
(* reqSend                                                                  *)

\* A call with bEnable FALSE returns ERROR_SUCCESS and changes nothing.
MaySend(t, n) == At(t, "idle") /\ bEnable /\ next + n <= MaxNext

\* Mutant: an empty kSendList taken for nobody sending
ReqSendPostsIfNoneQueued(t, n) ==
  LET total == Plus(szSendBytes, n) IN
  /\ MaySend(t, n)
  /\ total <= SendMax /\ kSendList = <<>>
  /\ szSendBytes' = total /\ next' = next + n
  /\ Become(t, [Idle EXCEPT !.at = "post", !.op = <<Chunk(n)>>])
  /\ UNCHANGED <<bEnable, kSendList, ops, conn, disc, pooled, epoch, wire, failed,
                 settled, tellVars>>

ReqSendPosts(t, n) ==
  LET total == Plus(szSendBytes, n) IN
  /\ MaySend(t, n)
  /\ total <= SendMax /\ total = n
  /\ szSendBytes' = total /\ next' = next + n
  /\ Become(t, [Idle EXCEPT !.at = "post", !.op = <<Chunk(n)>>])
  /\ UNCHANGED <<bEnable, kSendList, ops, conn, disc, pooled, epoch, wire, failed,
                 settled, tellVars>>

ReqSendQueues(t, n) ==
  LET total == Plus(szSendBytes, n) IN
  /\ MaySend(t, n)
  /\ total <= SendMax /\ total # n
  /\ szSendBytes' = total /\ next' = next + n
  /\ kSendList' = Append(kSendList, Chunk(n))
  /\ UNCHANGED <<bEnable, ops, conn, disc, pooled, th, epoch, wire, failed, settled,
                 tellVars>>

\* postDisconnect, which may fail and then leaves the socket disabled
PostDisc == \/ disc' = "posted" /\ conn' = "closing"
            \/ disc' = "failed" /\ UNCHANGED conn

\* The buffer is full: reqDisconnect under the recursive lock ccsSend, so that
\* no other critical section comes between
ReqSendOverflow(t, n) ==
  LET total == Plus(szSendBytes, n) IN
  /\ MaySend(t, n)
  /\ total > SendMax
  /\ szSendBytes' = total /\ bEnable' = FALSE
  /\ PostDisc
  /\ UNCHANGED <<kSendList, ops, pooled, th, netVars, tellVars>>

PostSend(t) ==
  /\ At(t, "post") /\ conn \in {"up", "stuck"}
  /\ ops' = Append(ops, th[t].op)
  /\ Become(t, Idle)
  /\ UNCHANGED <<bEnable, szSendBytes, kSendList, conn, disc, pooled, netVars,
                 tellVars>>

\* Mutant: the error returned to the caller alone
PostSendFailsNoError(t) ==
  /\ At(t, "post")
  /\ failed' = TRUE
  /\ Goto(t, "undo")
  /\ UNCHANGED <<bEnable, szSendBytes, kSendList, ops, conn, disc, pooled, epoch,
                 next, wire, settled, tellVars>>

\* handError first, and only then the bytes are taken off again
PostSendFails(t) ==
  /\ At(t, "post")
  /\ failed' = TRUE
  /\ Become(t, [th[t] EXCEPT !.at = "error", !.back = "undo"])
  /\ UNCHANGED <<bEnable, szSendBytes, kSendList, ops, conn, disc, pooled, epoch,
                 next, wire, settled, tellVars>>

\* Mutant: nothing taken off again
UndoNothing(t) ==
  /\ At(t, "undo")
  /\ EndSend(t)
  /\ UNCHANGED <<bEnable, szSendBytes, kSendList, ops, conn, disc, pooled, netVars,
                 tellVars>>

\* The subtraction after a refused WSASend.  In autoPostSend it comes before
\* handError, in reqSend after it.
Undo(t) ==
  /\ At(t, "undo")
  /\ szSendBytes' = Minus(szSendBytes, Bytes(th[t].op))
  /\ EndSend(t)
  /\ UNCHANGED <<bEnable, kSendList, ops, conn, disc, pooled, netVars, tellVars>>

-----------------------------------------------------------------------------
(* handSend and autoPostSend                                                *)

RemoveOp(i) == SubSeq(ops, 1, i - 1) \o SubSeq(ops, i + 1, Len(ops))

\* Mutant: kBufSendLast takes whole buffers.
CompleteSendTellsAll(t, i, k) ==
  LET op == ops[i] IN
  /\ At(t, "idle")
  /\ i \in 1..Len(ops) /\ k \in 0..Bytes(op)
  /\ ops' = RemoveOp(i)
  /\ wire' = wire \o Sent(op, k)
  /\ Become(t, [Idle EXCEPT !.at = IF k = 0 THEN "auto" ELSE "count", !.op = Rest(op, k),
                            !.last = k, !.sent = Sent(op, Bytes(op)), !.err = (k = 0)])
  /\ UNCHANGED <<bEnable, szSendBytes, kSendList, conn, disc, pooled, epoch, next, failed,
                 settled, tellVars>>

\* The kernel sent k bytes: all, or fewer, or none and an error, with which it
\* reports no bytes.  The bytes sent are taken off the buffers and are what
\* kFunOnSend will be told of.
CompleteSend(t, i, k) ==
  LET op == ops[i] IN
  /\ At(t, "idle")
  /\ i \in 1..Len(ops) /\ k \in 0..Bytes(op)
  /\ ops' = RemoveOp(i)
  /\ wire' = wire \o Sent(op, k)
  /\ Become(t, [Idle EXCEPT !.at = IF k = 0 THEN "auto" ELSE "count", !.op = Rest(op, k),
                            !.last = k, !.sent = Sent(op, k), !.err = (k = 0)])
  /\ UNCHANGED <<bEnable, szSendBytes, kSendList, conn, disc, pooled, epoch, next, failed,
                 settled, tellVars>>

\* Within handSend: on to p, with no shared field changed
Proceed(t, p) ==
  /\ Become(t, [th[t] EXCEPT !.at = p])
  /\ UNCHANGED <<bEnable, szSendBytes, kSendList, ops, conn, disc, pooled, netVars,
                 kFunOnSend, pkCkListen>>

TestListen(t) ==
  /\ At(t, "count")
  /\ Proceed(t, IF pkCkListen THEN "add" ELSE "test")
  /\ UNCHANGED told

\* vllSendBytes of the listener is counted up: through NULL if init() came first
UseListen(t) ==
  /\ At(t, "add")
  /\ Proceed(t, IF pkCkListen THEN "test" ELSE "crash")
  /\ UNCHANGED told

TestFunOnSend(t) ==
  /\ At(t, "test")
  /\ Proceed(t, IF kFunOnSend THEN "call" ELSE "auto")
  /\ UNCHANGED told

CallFunOnSend(t) ==
  /\ At(t, "call") /\ kFunOnSend
  /\ told' = told \o th[t].sent
  /\ Become(t, [th[t] EXCEPT !.at = "auto", !.sent = <<>>])
  /\ UNCHANGED <<bEnable, szSendBytes, kSendList, ops, conn, disc, pooled, netVars,
                 kFunOnSend, pkCkListen>>

\* An empty std::function throws, and nothing catches it.
CallEmptyFunOnSend(t) ==
  /\ At(t, "call") /\ ~ kFunOnSend
  /\ Proceed(t, "crash")
  /\ UNCHANGED told

\* As many queued buffers as fit behind the n that are left
Filled(q) == LET m == Min({Max({0, BufNum - Len(q)}), Len(kSendList)})
             IN  q \o SubSeq(kSendList, 1, m)
Unfilled(q) == LET m == Min({Max({0, BufNum - Len(q)}), Len(kSendList)})
               IN  SubSeq(kSendList, m + 1, Len(kSendList))

\* Mutants: szSendLast not taken off; kSendList forgotten.
AutoPostSendCountsSent(t) ==
  LET op == th[t].op IN
  /\ At(t, "auto")
  /\ bEnable
  /\ kSendList' = Unfilled(op)
  /\ IF Filled(op) = <<>>
     THEN EndSend(t)
     ELSE Become(t, [th[t] EXCEPT !.at = "repost", !.op = Filled(op), !.last = 0])
  /\ UNCHANGED <<bEnable, szSendBytes, ops, conn, disc, pooled, netVars, tellVars>>

AutoPostSendRestOnly(t) ==
  /\ At(t, "auto")
  /\ bEnable
  /\ szSendBytes' = Minus(szSendBytes, th[t].last)
  /\ IF th[t].op = <<>>
     THEN EndSend(t)
     ELSE Become(t, [th[t] EXCEPT !.at = "repost", !.last = 0])
  /\ UNCHANGED <<bEnable, kSendList, ops, conn, disc, pooled, netVars, tellVars>>

\* autoPostSend runs whether or not the send succeeded
AutoPostSend(t) ==
  LET op == th[t].op IN
  /\ At(t, "auto")
  /\ bEnable
  /\ szSendBytes' = Minus(szSendBytes, th[t].last)
  /\ kSendList' = Unfilled(op)
  /\ IF Filled(op) = <<>>
     THEN EndSend(t)
     ELSE Become(t, [th[t] EXCEPT !.at = "repost", !.op = Filled(op), !.last = 0])
  /\ UNCHANGED <<bEnable, ops, conn, disc, pooled, netVars, tellVars>>

\* Disabled meanwhile: what was not sent is dropped
AutoPostSendDisabled(t) ==
  /\ At(t, "auto")
  /\ ~ bEnable
  /\ szSendBytes' = Minus(szSendBytes, th[t].last)
  /\ EndSend(t)
  /\ UNCHANGED <<bEnable, kSendList, ops, conn, disc, pooled, netVars, tellVars>>

Repost(t) ==
  /\ At(t, "repost") /\ conn \in {"up", "stuck"}
  /\ ops' = Append(ops, th[t].op)
  /\ EndSend(t)
  /\ UNCHANGED <<bEnable, szSendBytes, kSendList, conn, disc, pooled, netVars,
                 tellVars>>

RepostFails(t) ==
  /\ At(t, "repost")
  /\ failed' = TRUE
  /\ Become(t, [th[t] EXCEPT !.at = "undo", !.err = TRUE])
  /\ UNCHANGED <<bEnable, szSendBytes, kSendList, ops, conn, disc, pooled, epoch,
                 next, wire, settled, tellVars>>

-----------------------------------------------------------------------------
(* Disconnecting                                                            *)

Disable(t, back) ==
  /\ bEnable /\ bEnable' = FALSE
  /\ Become(t, [th[t] EXCEPT !.at = "postDisc", !.back = back])

\* Of the application, and of a receive that failed
ReqDisconnect(t) ==
  /\ At(t, "idle")
  /\ Disable(t, "idle")
  /\ UNCHANGED <<szSendBytes, kSendList, ops, conn, disc, pooled, netVars,
                 tellVars>>

HandError(t) ==
  /\ At(t, "error")
  /\ \/ Disable(t, th[t].back)
     \/ ~ bEnable /\ Goto(t, th[t].back) /\ UNCHANGED bEnable
  /\ UNCHANGED <<szSendBytes, kSendList, ops, conn, disc, pooled, netVars,
                 tellVars>>

\* Mutant: the callbacks are given up when the disconnect is asked for.
PostDisconnectForgets(t) ==
  /\ At(t, "postDisc")
  /\ PostDisc
  /\ kFunOnSend' = FALSE
  /\ Goto(t, th[t].back)
  /\ UNCHANGED <<bEnable, szSendBytes, kSendList, ops, pooled, netVars, pkCkListen, told>>

PostDisconnect(t) ==
  /\ At(t, "postDisc")
  /\ PostDisc
  /\ Goto(t, th[t].back)
  /\ UNCHANGED <<bEnable, szSendBytes, kSendList, ops, pooled, netVars, tellVars>>

\* DisconnectEx completes when the pending sends have, or badly and with sends
\* still pending: handDisconnect does not look at IoResult.
CompleteDisconnect(t) ==
  /\ At(t, "idle") /\ disc = "posted" /\ disc' = "none"
  /\ \/ ops = <<>> /\ conn' = "none"
     \/ conn' = "stuck"
  /\ Become(t, [Idle EXCEPT !.at = "init"])
  /\ UNCHANGED <<bEnable, szSendBytes, kSendList, ops, pooled, netVars, tellVars>>

\* handDisconnect: init() empties the std::functions ...
InitFunctions(t) ==
  /\ At(t, "init")
  /\ kFunOnSend' = FALSE
  /\ Goto(t, "clear")
  /\ UNCHANGED <<bEnable, szSendBytes, kSendList, ops, conn, disc, pooled, netVars,
                 pkCkListen, told>>

\* ... and then the rest.  Another thread, or a WSASend, may be late: what it
\* holds of szSendBytes will be subtracted from the new zero.
HandDisconnect(t) ==
  /\ At(t, "clear")
  /\ szSendBytes' = 0 /\ kSendList' = <<>> /\ bEnable' = FALSE
  /\ pooled' = TRUE
  /\ settled' = (ops = <<>> /\ \A u \in Threads : ~ Owes(u))
  /\ wire' = <<>> /\ told' = <<>>
  /\ pkCkListen' = FALSE
  /\ Become(t, Idle)
  /\ UNCHANGED <<ops, conn, disc, epoch, next, failed, kFunOnSend>>

\* The next connection, not before NET_TCP_TIME_WAIT_DELAY: the 30 s outlast
\* every call and handler.  newCompleteKeySocket resets nothing.  reqAccept sets
\* pkCkListen, and the application kFunOnSend, in the callback that opens and
\* that gives it the socket to send on.  A socket that is stuck gets no other
\* connection: AcceptEx and ConnectEx refuse it.
Reuse ==
  /\ pooled /\ conn = "none" /\ epoch < MaxEpoch
  /\ \A t \in Threads : At(t, "idle")
  /\ pooled' = FALSE /\ conn' = "up" /\ bEnable' = TRUE
  /\ epoch' = epoch + 1 /\ next' = 0 /\ failed' = FALSE
  /\ kFunOnSend' = TRUE /\ pkCkListen' = Accepted
  /\ UNCHANGED <<szSendBytes, kSendList, ops, disc, th, wire, settled, told>>

-----------------------------------------------------------------------------
Init ==
  /\ bEnable = TRUE /\ szSendBytes = 0 /\ kSendList = <<>>
  /\ ops = <<>> /\ conn = "up" /\ disc = "none" /\ pooled = FALSE
  /\ th = [t \in Threads |-> Idle]
  /\ epoch = 1 /\ next = 0 /\ wire = <<>>
  /\ failed = FALSE /\ settled = TRUE
  /\ kFunOnSend = TRUE /\ pkCkListen = Accepted /\ told = <<>>

ReqSend(t, n) == ReqSendPosts(t, n) \/ ReqSendQueues(t, n) \/ ReqSendOverflow(t, n)

\* What a thread does of itself once it runs
Step(t) ==
  \/ PostSend(t)       \/ PostSendFails(t)        \/ Undo(t)
  \/ TestListen(t)     \/ UseListen(t)            \/ TestFunOnSend(t)
  \/ CallFunOnSend(t)  \/ CallEmptyFunOnSend(t)
  \/ AutoPostSend(t)   \/ AutoPostSendDisabled(t)
  \/ Repost(t)         \/ RepostFails(t)
  \/ HandError(t)      \/ PostDisconnect(t)
  \/ InitFunctions(t)  \/ HandDisconnect(t)

Completed(t) == \E i \in 1..Len(ops) : \E k \in 0..Bytes(ops[i]) : CompleteSend(t, i, k)

Next ==
  /\ Alive
  /\ \/ \E t \in Threads, n \in Lens : ReqSend(t, n)
     \/ \E t \in Threads : Step(t) \/ Completed(t)
     \/ \E t \in Threads : ReqDisconnect(t) \/ CompleteDisconnect(t)
     \/ Reuse

\* A thread that runs goes on running.  Every WSASend and DisconnectEx is
\* completed, well or badly, and handed to some thread: the peer reads, or the
\* connection breaks.
Fairness ==
  /\ \A t \in Threads : WF_vars(Alive /\ Step(t))
  /\ SF_vars(Alive /\ \E t \in Threads : Completed(t))
  /\ SF_vars(Alive /\ \E t \in Threads : CompleteDisconnect(t))

Spec == Init /\ [][Next]_vars /\ Fairness

-----------------------------------------------------------------------------
(* Properties                                                               *)

Chunks == [e : 1..MaxEpoch, from : 0..MaxNext, to : 0..MaxNext]
Byte   == (1..MaxEpoch) \X (0..MaxNext)

TypeOK ==
  /\ bEnable \in BOOLEAN /\ pooled \in BOOLEAN /\ failed \in BOOLEAN /\ settled \in BOOLEAN
  /\ szSendBytes \in 0..SizeMod - 1
  /\ kSendList \in Seq(Chunks) /\ ops \in Seq(Seq(Chunks))
  /\ conn \in {"none", "up", "closing", "stuck"} /\ disc \in {"none", "posted", "failed"}
  /\ th \in [Threads -> [at : Places, op : Seq(Chunks), last : 0..MaxNext,
                         sent : Seq(Byte), err : BOOLEAN, back : Places]]
  /\ epoch \in 1..MaxEpoch /\ next \in 0..MaxNext
  /\ wire \in Seq(Byte) /\ told \in Seq(Byte)
  /\ kFunOnSend \in BOOLEAN /\ pkCkListen \in BOOLEAN

\* The bytes accepted on this connection and not yet known to be sent: queued,
\* in the kernel, or in some thread's hands
Held(t) == IF Owes(t) THEN th[t].last + Bytes(th[t].op) ELSE 0
Unsent  == Bytes(kSendList) + FoldLeft(LAMBDA n, q : n + Bytes(q), 0, ops)
             + MapThenSumSet(Held, Threads)

\* While the connection is enabled szSendBytes is the number of bytes that are
\* accepted and not yet sent, through queueing, partial and failed sends.
CountsUnsent == bEnable /\ settled => szSendBytes = Unsent

Senders == {t \in Threads : th[t].at \in Telling \cup {"post", "auto", "repost"}}

\* One WSASend at a time: the stream could be reordered otherwise.
OneSender == bEnable /\ settled => Len(ops) + Cardinality(Senders) <= 1

\* Bytes wait in kSendList only as long as somebody will come for them, or
\* for the connection: there is a pending send, a thread about to post, or one
\* on its way to handError.
NotStranded ==
  bEnable /\ settled /\ kSendList # <<>> =>
    \/ ops # <<>> \/ Senders # {}
    \/ \E t \in Threads : th[t].at = "error" \/ th[t].err

\* What goes out is what was accepted on this connection, in order, no byte
\* twice and none of an earlier connection's; and without a gap, unless a
\* WSASend was refused.
StreamIntact ==
  settled => \A i \in 1..Len(wire) :
    /\ wire[i][1] = epoch
    /\ i > 1 => wire[i][2] > wire[i - 1][2]
    /\ ~ failed => wire[i][2] = i - 1

\* As long as it is set, kFunOnSend has been told of every byte that went out, in
\* order and once, but for those of the one completion that is being handled:
\* an application may pace itself by it.  No lock keeps the callbacks of two
\* completions apart, only that handSend calls back before it posts again.
ToldInOrder ==
  LET telling == {t \in Threads : th[t].at \in Telling} IN
  settled /\ kFunOnSend =>
    \/ telling = {} /\ wire = told
    \/ \E t \in Threads : telling = {t} /\ wire = told \o th[t].sent

\* What handSend found set it finds set when it uses it, and the process does
\* not end, until the DisconnectEx has completed: asking for a disconnect
\* takes nothing from a handler.
SetWhileConnected ==
  conn \in {"up", "closing"} => \A t \in Threads :
    /\ At(t, "call") => kFunOnSend
    /\ At(t, "add") => pkCkListen
    /\ ~ At(t, "crash")

\* NetConf.h:10: the send buffer of a socket holds at most
\* NET_SOCKET_SEND_BUF_MAX bytes.  It is only then that reqSend disconnects.
CapOnlyWhenFull ==
  [][\A t \in Threads, n \in Lens : ReqSendOverflow(t, n) => Unsent + n > SendMax]_vars

\* The same as long as init() found nobody late.
CapOnlyWhenFullIfSettled ==
  [][\A t \in Threads, n \in Lens :
       settled /\ ReqSendOverflow(t, n) => Unsent + n > SendMax]_vars

\* What is queued is sent in the end, or the connection is given up.
QueueDrains == kSendList # <<>> /\ settled ~> kSendList = <<>> \/ ~ bEnable
=============================================================================
