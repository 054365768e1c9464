# TLA+ models of WinNet

WinNet is a C++ library for Windows: a TCP layer on I/O completion
(`src/Lib/net`), an asynchronous log (`src/Lib/log`), and a demo that echoes
(`src/WindowsNet/main.cpp`). There are no tests. The models here are translated
from the code, and each definition is tied to its lines in `PROJECT.json`
(`map`).

## 1. Inventory

### 1.1 Connections: class `WinIOCP`

*State.* Every `CompleteKeySocket` (CK below) is created once and never
freed: it moves between a pool (`_dequeCKSocket...`, one per kind and address
family, filled in front by `prepareCkSocket` and at the end by
`delCompleteKeySocket`), the set of used sockets (`_setCKUsed...`), pending
kernel operations and the threads that work on it. Per CK: `bEnable` (a
connection the application may use), `bWait` (made by `reqConnectAndWait`),
the time of the last disconnect, `kBufRecv`, `pkCkListen`, and the send path of
1.2.

*Operations.* `prepareCkSocket`; `reqListen`, `reqAccept`, `handAccept`;
`reqConnect`, `reqConnectAndWait`, `handConnect`; `handRecv`; `reqDisconnect`,
`reqDisconnectAndWait`, `handError`, `handDisconnect`; `newCompleteKeySocket`,
`delCompleteKeySocket`.

*Interaction.* A `req...` call posts an operation; a thread of the Windows
thread pool gets its completion (`IoCompletionCallback`), calls the `hand...`
function, which calls the application back (`kFunOnAccept`, `kFunOnConnect`,
`kFunOnRecv`, `kFunOnSend`, `kFunOnDisconnect`, `kFunOnError`), and the
application calls `req...` from there, or from its own threads at any time.

*Hard.* The application, a failing receive and a failing send may all
disconnect at once; handlers and calls go on to use a CK after it went back to
its pool and even after it was taken again (after 30 s, or sooner where a
connect failed); two calls wait for the callbacks of a CK; a failed post at any point must leave the CK in one place; a `DisconnectEx` that completes badly
is taken for one that did not; `handConnect` and `reqConnectAndWait`
must agree which of them posts the first receive, by a flag that a disconnect
resets.

*Correct when* a CK has one holder at a time and is never lost unnoticed; what
the pool holds is at rest; sends and disconnects are taken only while the
connection is up; an open connection is listened to; at most one receive is
pending or handled (`kBufRecv` has no lock); the accept callback comes before
the first receive; a listener keeps its accepts going; every call and handler
returns; a disconnect that was asked for ends.

*Receive path.* `handRecv` appends what came to `kBufRecv`, tests and calls
`kFunOnRecv`, measures what the application left unread, tests and uses
`pkCkListen`, and posts the next receive; `init()`, when the disconnect has
completed, empties `kFunOnRecv`, `pkCkListen` and `kBufRecv`. None of it is
under a lock. *Hard.* `DisconnectEx` waits for pending receives and not for
their handlers, so that `init()` may run between any two steps of `handRecv`.
*Correct when* the callback gets the stream of its own connection in order, a
handler that found a field set still finds it set, and what a CK keeps unread is
bounded.

### 1.2 Send path of a CK

*State.* `ccsSend` guards `szSendBytes`, `kSendList` and `bEnable`.
*Operations.* `reqSend`, `handSend`, `autoPostSend`, and `init()` when the
connection ends. *Interaction.* Many threads send on one CK. The counter is the
only thing that says who posts: the thread whose bytes are the only ones
counted calls `postSend`, the others leave theirs in the list, and `handSend`
posts those. *Hard.* Partial sends, refused sends, a disconnect and `init()` while
another thread is between two critical sections. *Correct when* one send is
pending at a time, `kFunOnSend` is told of the bytes in order, the stream has no byte lost, doubled, out of order or of an earlier
connection, the counter counts, nothing stays in the list for ever, and the
connection is given up for a full buffer only if the buffer is full.

### 1.3 `AsyncLogFile`

*State.* Two front buffers and a vector under `mCCSecCK`, an auto-reset event,
two spare buffers and a batch of the worker. *Operations.* `append` and `flush`
of any thread; the worker waits (5 s at most), swaps the vectors, trims a batch
of more than 25 buffers, writes it, takes two buffers back, flushes. *Hard.* Buffers
move by pointer and are null in between; the event is reset twice. *Correct
when* a buffer is always there, a signal is not lost, and the file gets the
messages in order, each once, with the two kinds of loss the code has.

### 1.4 The rest

| component | state and operations | what makes it correct |
|---|---|---|
| `LogFile`, `FileBase` | a FILE, bytes written, the times of the last roll, flush and period, a counter of appends; `append`, `flush`, `rollFile`, which look at a clock that may be set back | each time a file is opened it gets its limit and one append, besides what came while no roll was possible; a later day and a due flush are seen within so many lines |
| `NetBuffer` | a vector with read and write positions; append, retrieve, peek, shrink, swap, copy | positions stay in the vector, the vector stays small, and users see a queue of bytes |
| `NetLogger` | a line, put out by the destructor; a fatal line flushes and aborts | the fatal line is in the file |
| socket helpers | options, name resolution, address conversion; the five `post...` | no state of their own |
| lock, allocator, settings | a scoped critical section, a stateless allocator, sizes | are the atomicity and the constants of the models |
| echo demo | callbacks that send back what they read | an application as the models allow |

## 2. Modules

| module | what it is |
|---|---|
| `CkLife` | abstract: the phases of a CK (fresh, pooled, setup, open, closing, leaked) and that a close ends |
| `WinIocp` | 1.1, for one listener and one address family |
| `WinIocpReuse` | `WinIocp` with a history of the CKs that were handed out too early |
| `WinIocp_proofs`, `WinIocpLife_proofs` | theorems about `WinIocp` |
| `WinIocpReuse_proofs` | theorems about `WinIocpReuse` |
| `CkRecv` | the receive path of 1.1, laid over all of `WinIocp` |
| `CkRecv_proofs` | theorems about `CkRecv` |
| `CkSend` | 1.2, one CK over several connections |
| `CkSend_proofs` | theorems about `CkSend` |
| `ByteQueue` | abstract: queues of bytes |
| `NetBuffer` | the class of that name |
| `NetBuffer_proofs` | theorems about `NetBuffer` |
| `LogPipe` | abstract: a log that keeps order and loses for two reasons only |
| `AsyncLog` | 1.3 |
| `AsyncLog_proofs` | theorems about `AsyncLog` |
| `LogFile` | when the log goes to a new file, and when it is flushed |
| `LogFile_proofs` | theorems about `LogFile` |
| `MC...` | instances for TLC; the values are in their `.cfg` files |

`CkRecv` is composed with `WinIocp`: it takes every action of it, with what the
action does to the fields of the receive path. `kBufRecv` in it is the queue
that `NetBuffer` is shown to implement. `CkSend` stands alone: of the life cycle
it has the steps that touch its state. `AsyncLog` hands its messages to a file,
and `LogFile` is what becomes of them there.

### WinIocp

A step goes from one point where another thread can look to the next: a
critical section, a posted operation, a callback, the return of a handler.
`th[t]` is a record of the handler (`job`), the point reached (`at`), the CK
(`on`), and where to go on after `handError` or `reqDisconnect` (`back`), since
those are called from many places. `Completion` is what `IoCompletionCallback`
does, `Handler`, `Call` and `Shared` are what a thread does of itself once it
runs, and `Request` is what the application asks for.

The kernel is modelled by how the code uses it: `posted[s][o]` counts pending
operations, `conn[s]` is none, up, closing once `DisconnectEx` was posted, or stuck once
that has failed. Any operation may fail when posted or when it completes. `WSARecv` is
refused without a connection, and `AcceptEx` and `ConnectEx` with one; `DisconnectEx`
completes well only after the connection's receives, and badly at any time
(`CompleteDisconnectFails`). `handDisconnect` makes no difference between the two, so that a
stuck CK is pooled, and taken again, like any other. `WaitForThreadpoolIoCallbacks` waits until nothing is pending and no
handler runs on the CK's own `pkIO` (`Quiet`); accepts belong to the listener's.

`ripe[s]` is the test of the 30 s. Two switches are worth knowing.
`PromptHandlers` says whether those 30 s outlast every call and handler that
still has a pointer to the CK: the code relies on it and does not enforce it.
`WaitInCallback` says whether a callback calls `reqDisconnectAndWait` on its own
CK.

### WinIocpReuse

`overtaken` collects the CKs that `newCompleteKeySocket` handed out while some
thread was still busy with their last connection. On the others receives are
one at a time and come after the callback, *however long* the handlers take
(`OneReceive`, `ReceiveAfterOpen`), and whether or not a `DisconnectEx` failed. The delay of 30 s is to keep `overtaken`
empty. It nearly does: if no handler and no call outlasts it, only a call in
`reqConnectAndWait` can be overtaken (`OnlyAWaiterIsOvertaken`). Its connect
failed, `init()` left the CK ripe in its pool, and the call, which does not look
at the result (`WinIocp.cpp:607-608`), goes on to post a receive on a CK that
another `reqConnect` has.

### CkRecv

`step[w]` is where a worker is between the lines of `handRecv` and `init()`, and
`kBuffer[w]` the bytes of its receive. A byte is the number of its connection and
its place in the stream. A call on `kBufRecv` is one step: that two overlap is
excluded by `OneReceive`, or is undefined. The callback takes any number of
bytes from the front, or none. Calling an empty `std::function` throws and
using a NULL `pkCkListen` traps, which is `step = "crash"`, the end of the process.
`late` collects the CKs that were `init()`ed while a receive was still pending (after a
failed `DisconnectEx`), or a thread was still going to
append, to set `kFunOnRecv` or to post a receive: on the others the stream
is whole and the fields are there (`StreamInOrder`, `StillThere`). `OwnBytes`
leaves that restriction out, and is finding 3.

### NetBuffer

One action per call, on several objects, since bytes are moved and copied from one to
another. The calls are built from operators on one object (`Shrink`,
`MakeSpace`, `AppendTo`) as the code's are. The vector has every byte, also
those outside the positions, so that one that were read twice would show.
`ByteQueue` has a queue for each object and what the last call returned;
`NetBuffer` implements it with `queue[b]` the bytes between the positions.

### LogFile

A step is one `append`, `flush`, or a change of the clock. `append` reads the
clock once and `rollFile` reads it again, so that the day may change in between. `fwrite`
may write less than it was asked. The branches of `append` are one action each:
over the size, another day, a due flush, nothing due, and no look at the clock
at all; each comes after the write of the line (`Write`), as in the code. `disk` is what is in
the file of each name. A name is any function of the time (`NameOf`), since local time without
the year comes again in the hour that is repeated in autumn, and a year later; a file that is there is
appended to, and `szWrittenBytes` starts from 0 all the same. `allowed` is what the openings of a
name have given it: the limit, one append, and what came while a roll was refused. `overdue`
counts the lines since a later day began, `overdueBefore` has the same of the file that was
closed last, with the line that led to the roll, and `unsaved` counts those since a flush was due.

### CkSend

The same style, on one CK. A buffer is a range of byte numbers of one
connection, so order, loss and doubling are visible. `szSendBytes` wraps at `SizeMod`,
which stands for 2^64. `ops` are the pending `WSASend`s; one completes with any
number of its bytes. `handSend` then tests and uses `pkCkListen` and `kFunOnSend` in steps of
their own (`Telling`), and `init()` empties the functions first and the rest later; a handler that finds
one gone after it had tested it ends the process (`crash`). `told` is what `kFunOnSend`
was told. `settled` records whether, when `init()` last ran, no thread was left that would still
subtract from the counter (finding 2), and no `WSASend` was pending, which it may be
after a failed `DisconnectEx` (`conn = "stuck"`).

### AsyncLog

Messages are numbered by the `append` calls. `Null` is a moved-from pointer, and
since following one is undefined, the actions are only enabled, and the type
invariant only holds, as long as nobody does. `Start` to `Recycle` are the worker's steps,
`AppendFits`, `AppendHandsOver` and `Flush` those of the other threads. The file
is the sequence of messages given to `LogFile::append`, with `flushed` of them flushed: what a
full disk does not take of them (`fwrite`, `NetFile.cpp:24`) is in `LogFile` and not here.

## 3. Runs

Each property has a mutant in `PROJECT.json`: a plausible bug in a mapped
definition under which the run fails.

| run | asks | shows |
|---|---|---|
| `iocp_prompt` | three CKs (two accepting), two workers, two callers, two accepts, `PromptHandlers` | no accept dropped or doubled but for those that could not be posted; only a call in `reqConnectAndWait` is ever overtaken |
| `iocp_stale` | two CKs, two workers, two callers, handlers of any length, waits in callbacks | one holder, a pool at rest but for CKs whose `DisconnectEx` failed, `bEnable` only on a live connection, no open connection unheard: these do not rest on the 30 s; one receive at a time and after the callback, on CKs not overtaken |
| `iocp_live` | two CKs, two workers, one caller, under fairness | every thread comes back, unless it waits on a CK whose `DisconnectEx` failed; `WinIocp` implements `CkLife` |
| `iocp_wait_in_callback` | one CK, waits in callbacks | **violated**: finding 1 |
| `recv` | one CK of each kind, two workers, one caller, handlers of any length | the stream of a connection is whole and in order, tested fields are still set when used, unread bytes are bounded |
| `recv_stale` | one CK, `PromptHandlers` | **violated**: finding 3 |
| `send_safety` | three threads, messages of 1 and 2 bytes, a buffer of 4, two connections | counter, one sender, stream, nothing stranded, `kFunOnSend` told in order, given up only when full, all of them if nothing was late at `init()`; no callback gone while connected |
| `send_live` | two threads, a buffer of 3, under fairness | what is queued goes out or the connection is given up |
| `send_cap` | the same | **violated**: finding 2 |
| `buffer` | two `NetBuffer`s, calls of 0 to 2 bytes | no access outside the vector, no growth without need, a queue of bytes |
| `log_async` | buffers of 3 bytes, messages of 1 to 3, 5 messages, a batch of more than 3 is trimmed | buffers suffice, no signal lost, order, account of every message, ended rounds survive an abort; `AsyncLog` implements `LogPipe` |
| `log_file` | days of three seconds, a clock set to any of six, two names, a limit of 2 bytes | the bytes of a file are those its openings allow; a later day and a due flush are seen in time |

`ThreadsReturn` is asked with one caller. With two, a call in
`reqConnectAndWait` that was overtaken waits for the operations of somebody else's
connection, which need not end.

### Bounds, and why they are enough

* **Sockets 1 to 3.** CKs share the pools and the threads and nothing else.
  Two of a kind show an order in a pool (a front that is not ripe before one that is)
  and one taken while another is pending. One of each kind shows reuse.
* **Threads 2 to 4.** The races of 1.1 are between two: two that disable, one that
  waits and one that handles, one that completes and one that is late. A third
  in `send_safety` is one that sends while a second completes and a third disconnects.
* **`FewLosses`** (in `iocp_prompt`): one CK is leaked or stuck, or one accept lost, not
  more. With more of them there is less left to go wrong; that a stuck CK is tried again, and an
  accept lost by it, is still seen. `iocp_stale` has no such bound.
* **`AcceptNum` 1 or 2** is the number of accepts of a listener, 2 so that one
  can fail while the other is pending.
* **`SendMax` 3 or 4, `BufNum` 2, `Lens` {1, 2}, `MaxNext`, `MaxEpoch`
  2.** A buffer can be full with two messages or with four, a repost takes some of the queued
  buffers and leaves some, a send can be cut within a message, and what
  a connection leaves behind meets one successor. `MaxNext` (5, 4) is
  more than a full buffer. `SizeMod` is larger than anything that could be counted.
* **`Cap` 3, `DropAbove` 3, `MaxMsgs` 5.** A buffer is full with one message
  or with two, a message of 3 fits nowhere, and five messages give four full
  buffers, one more than the batch may have. `DropAbove` is 25 in the code.

* **`CkRecv`: two connections in all, two bytes on each, `MaxChunk` 2,
  `RecvMax` 1, one CK in use at a time, none leaked, and no other besides one that is stuck.** A late handler of the first meets the
  second connection; one receive can bring more than may stay unread, and two can be
  handled one after the other. CKs share no field of the receive path.
* **`NetBuffer`: `MaxLen` 2, `MaxReadable` 3, `MaxCells` 6.** A call can fit behind the
  write position, fit only after moving, overlap what it moves, or make the
  vector grow. `peekUShort` has 0 to 3 bytes to look at.
* **`LogFile`: six seconds, days of three, two names that alternate, lines of up to 2 bytes,
  `RollSize` 2, `FlushInterval` 1, `CheckRollTimes` 1, `MaxAllowed` 9, and `unflushed` up to
  4.** The clock can stand still, pass midnight, and go back over it, between any two lines; a
  name can come back twice (`MaxAllowed` is two openings and a line whose roll was
  refused); one line fits in a file and two need not; the counter is at its limit every
  second line (1024 in the code).

Deadlock is checked in `buffer`, `log_async` and `log_file`. In the others the system may really stop:
all accepts are lost and all CKs leaked, or the last connection of the bound is over.
Symmetry (CKs of a kind, workers, callers) is used in safety runs only.

### Fairness

A thread that runs goes on running, and callbacks return (weak fairness of its
own steps). The thread pool hands every completion to some thread: strong
fairness, because a worker may be busy with others over and over. The kernel completes
connects and disconnects, and the receives of a connection being closed; a `WSASend`
completes, well or badly. No client need connect and no peer need send: `CompleteAccept`
and `CompleteRecv` have no fairness. The worker of the log has weak
fairness: its wait times out after 5 s. The application need not ask for anything.
`CkRecv`, `NetBuffer` and `LogFile` state safety only, and no fairness.

## 4. Findings

1. **`reqDisconnectAndWait` in a callback** (`iocp_wait_in_callback`).
   `WinIocp.h:70-71` says it blocks until the disconnect has succeeded. In a callback of
   the same CK it waits for the callback it is in (`WinIocp.cpp:778`), for ever.
2. **`szSendBytes` wraps** (`send_cap`). When `reqSend` is refused by `WSASend` it
   calls `handError` first and subtracts its bytes afterwards (`WinIocp.cpp:734-736`).
   If the disconnect completes in between, `init()` has set the counter to 0, and it
   wraps. `newCompleteKeySocket` resets nothing, so the next connection's first send
   is taken for an overflow, or is queued with nobody to post it. `autoPostSend` (437-441)
   has the other order.
3. **Bytes of an earlier connection** (`recv_stale`). A receive has completed and its handler has
   not appended yet (`WinIocp.cpp:897-898`) when the application disconnects.
   `DisconnectEx` waits for no handler; it completes on another thread, and
   `init()` resets `kBufRecv` (`WinNetHelp.cpp:38`). Then the handler appends to the pooled
   CK, and `newCompleteKeySocket` resets nothing. The next connection's `kFunOnRecv` gets
   the old peer's bytes first, and `main.cpp:46-48` and `54-56` log them under the new
   peer's address. The 30 s (`NetConf.h:19`) were respected: the handler is done long before.

What else was noticed, and is in the models as the code has it:

* `DisconnectEx` completes with an error: `handDisconnect` (`WinIocp.cpp:1072-1099`) does not look
  at `IoResult`, and pools the CK with its connection (`CompleteDisconnectFails`). Winsock takes
  it for no `AcceptEx` or `ConnectEx`, so that each accept it is tried for is lost, and
  a receive or a send may still be pending on it when `init()` runs. `reqDisconnectAndWait` then waits
  for a receive that only the peer ends (`WaitsOnStuck`).
* `postDisconnect` fails: `bEnable` is already FALSE, so nobody can ask again, and
  the CK is neither pooled nor closed (`leaked`).
* An accept that cannot be posted, or finds no CK, is not tried again (`lost`).
* `newCompleteKeySocket` looks at the front of the pool only, so that one unripe CK
  hides the others and a new one is created. `prepareCkSocket` puts new ones in front.
* `reqConnectAndWait` does not look at the result of the connect, and posts
  a receive on a CK that may be in its pool, or that another `reqConnect` has: with
  two callers it then has two receives, although every handler was prompt.
* `init()` may empty `kFunOnRecv` or `pkCkListen` between the test and the use, in
  a handler that is late (`StillThere` holds for those that are not).
* A line logged with another day's clock closes the file, unless the clock is not past
  the last roll; then the roll is refused and the flush that may be due is not done either.
* A file rolled for its size is longer than `rollSize`, by up to one append (the line is
  written before the test, `NetFile.cpp:64-66`), and of a new day one line more goes to the
  old file than were counted. A name that comes again (no year, `NetFile.cpp:125`) adds to the older file,
  whose size is not counted.
* `peekUShort` (`NetBuffer.cpp:103`) returns 0 where exactly two bytes are there; nothing says what it should,
  nobody calls it, and `ByteQueue` has its condition as it is.
* A fatal line sets the event of the log and aborts; what is certain to be in the file is
  what the worker took in rounds it has ended (`SettledSurvive`), not the line itself.
* The time of the last receive and of the last disconnect share a union, so that
  a CK whose accept was refused is ripe by an older time.
* A log message that does not fit into an empty buffer is lost; of a batch that is too
  long all but two buffers are.

Noticed and abstracted away: an inner `iError` hides the outer one at
`WinIocp.cpp:918` and `982`, so `kFunOnError` gets 0; `vlAcceptNum` is counted up on
accept (980) and again on disconnect (1096); `reset` in the middle of an `append` leaves
positions outside the cleared vector, and `init()` may destroy a `std::function` that is being
executed (both undefined); on an empty vector `begin()` follows the end iterator
(`NetBuffer.h:112`); `fopen_s` may fail and `_pFile` stay NULL (`NetFile.cpp:10`).

## 5. Proofs

`WinIocp_proofs` proves for every set of CKs and threads, both switches either way:

* `TypeCorrect`, `SocketsHeldOnce` (`OneHolder`), `PooledAtRest` (`PoolAtRest`),
  `EnabledConnected` (`EnabledIsUp`).

From the assumptions on constants in `WinIocp`: `Kind` is a function to the two
kinds, `None` is no CK, workers are not callers, `AcceptNum` is a natural number,
and the names of the holders name no thread.

`OneHolder` is not inductive: that two threads never both have the CK rests on
where a thread goes back to after `handError`, and on what the kernel knows.
`IInv` says that each CK is in exactly one of five situations: *free*, *enabled*,
*lost*, *one thread's* (`Mine`), or with *one pending operation* (`Pending`), and in
each of them what `conn`, `posted`, `used`, the pools and the threads are (a free CK is
`AtRest`: it has neither a connection nor a receive, or it is stuck);
that a thread comes back only to places the code returns to (`ThreadOK`); and that
a pool has no CK twice (`PoolOK`). A step touches one thread and one CK, so lemma
`Frame` carries `IInv` over for the others, and each action gets one lemma about its own.
Receives are not part of it: a late handler may post one at any time, on a
CK that has a connection.

`WinIocpLife_proofs` builds on `IInv`, from the same assumptions:

* `ConnectionsHeard` (`NeverDeaf`). `handConnect` does not post the first receive if it
  finds `bWait` set, trusting the caller in `reqConnectAndWait` to do it. Three invariants make
  that good: `JobsOK`, a handler is only at places of its own job; `WaitersStay`, where the
  flag is set and the connect is pending or handled, the call is still there; and `Attended`, which
  threads on an open CK will really post a receive or close it.
* `AcceptsKeptUp` (`AcceptsKept`). `Counted` is that a listener's accepts that are pending,
  handled, still to be posted or lost add up to `AcceptNum`. Every step moves one from one
  of these finite sets to another, and `IInv` says that none is in two of them.
* `FollowsLifeCycle`, the safety part of the refinement `LifeCycle`: the initial states of `WinIocp`
  map to initial states of `CkLife`, and a step moves one CK along one edge of its life cycle, or
  none. The phase of a CK is a nested choice over what many threads do; which of the five situations
  of `IInv` it is in tells the phase at once (`PhaseFacts`), before a step and after it.

`WinIocpReuse_proofs` proves of every CK that was not handed out too early (`overtaken`):

* `OneReceiveAtATime` (`OneReceive`) and `CallbackFirst` (`ReceiveAfterOpen`).

A receive is a token of its CK: it is pending, or with the one thread that handles it or will
post the next (`OneToken`). New tokens are made when an accept or a connect completes, and when
the wait of `reqConnectAndWait` is over. That there is none yet at that moment is what the rest of `Sound`
says: a CK is taken with nobody on it and nobody joins until the completion (`Undisturbed`), and only the
call that asked for the connection waits on it (`OneAsks`), for all the others. A CK whose `DisconnectEx`
failed is taken too, but gets no connection any more, and no new tokens with it (`StillStuck`). The
invariant is kept by a late handler too, since it is *who was on the CK when it was taken* that decides.

And, from the assumption `PromptHandlers`, that no handler or call outlasts the 30 s:

* `OnlyWaitersOvertaken` (`OnlyAWaiterIsOvertaken`).

A CK without a connection (and not stuck with one) that is in use, or ripe, and that nobody is about to `init()`,
has nobody on it but its owner and calls in `reqConnectAndWait` (`LeftAlone`). The time set when a
connection opens, and again by a receive and in `handDisconnect`, holds back all the others; a connect that
fails sets none, which is why the waiting call remains.

`CkRecv_proofs` proves for any sizes of the chunks and of `NET_SOCKET_RECV_BUF_MAX`, and any finite
set of workers (`RecvAssumption`; a process has finitely many threads):

* `RecvTypes` (`RecvTypeOK`), `StreamArrivesInOrder` (`StreamInOrder`), `FieldsStillThere`
  (`StillThere`), `UnreadStaysBounded` (`UnreadBounded`).

`CkRecv` takes the steps of `WinIocp` (`RecvIsNext`), so `IInv` and `JobsOK` hold in it. To those
come where a worker is while it is in a step of `handRecv` or `init()` (`Linked`), and, for each CK
that nothing was late for (`late`), `Good`:

* `Token`. One receive is pending, or one thread has it or will post the next; and nobody has to do with
  a CK that is pooled or whose accept or connect is pending. Every step of `WinIocp` does one of six things
  to a CK (`Does`: a thread drifts on, posts, completes, acquires, offers, resumes), so that all actions
  come down to six cases.
* `ResetAlone`. When `init()` has emptied the functions nobody is left and no receive is pending (`Deserted`), and nobody can come before
  the CK is taken again: where `init()` was in time it stays in time. This also gives `StillThere`.
* `Empty`, `WaitOK`. `kBufRecv` is empty while a CK is pooled or being opened, and a call in
  `reqConnectAndWait` waits with the receive left to it.
* `Flow`. As long as a CK has a receive, `kBufRecv`, with what the worker that has the receive is
  about to append, is the part of the stream between `taken` and `arrived`.

`UnreadBounded` holds of every CK, late or not, and needs `Linked` only: a worker is counted from its
append until it has measured `kBufRecv`.

`CkSend_proofs` proves for any number of threads, bytes and connections, any sizes of messages,
of a buffer and of a `WSASend`:

* `NothingTakenWhileConnected` (`SetWhileConnected`), `SendStateIsTyped` (`TypeOK`),
  `CounterIsUnsent` (`CountsUnsent`), `AtMostOneSender` (`OneSender`), `NothingStranded` (`NotStranded`),
  `StreamGoesOutIntact` (`StreamIntact`), `ToldInOrderAlways` (`ToldInOrder`),
  `GivenUpOnlyWhenFull` (`CapOnlyWhenFullIfSettled`).

From `SendAssumption`: sizes and bounds are positive, a process has finitely many threads, and the
counter is wide enough not to wrap in a connection that gave up nothing.

`init()` clears `kFunOnSend` and `pkCkListen`, and takes no lock against `handSend`. That it never runs
under a connection rests on turns (`Turns`): `bEnable`, the thread that is about to post the
`DisconnectEx`, the `DisconnectEx`, the thread in `init()` and the pool follow one another, one at a time.

The others rest on one invariant, `Carried`. `reqSend` posts if the counter was zero and else relies on
whoever is sending, so the counter alone decides that there is one sender. It is right because the
bytes it counts are always in three places: `l` bytes that went out and are still to be taken off, the
buffers `q` of the current `WSASend`, and `kSendList`. One at most holds `q` and `l`, the
kernel or a thread (`Carries`); and what it holds together with `kSendList` is
the counter, in the order of acceptance and without a gap (`Good`). Every step of the code moves bytes
from one place to the next, or accepts some. Where `init()` ran under a handler (finding 2) or with a
send pending, `settled` is false and this is lost, and these properties claim nothing; that all bytes still
on their way were accepted (`Kept`) is what the types rest on then.

Sums over buffers, threads and operations are folds in the model. The proofs unfold the
library's `MapThenFoldSet` and show, by induction on the number of elements, that such a sum exists,
is unique and takes one more element (`IsSum`, `Total`); a sequence of bytes is flattened in the same way
(`Flattens`). The induction itself is the well-foundedness of `<` on the naturals.

`AsyncLog_proofs` proves for every capacity, set of sizes and number of messages:

* `LogTypeCorrect`, `BuffersNeverRunOut` (`BuffersSuffice`), `WakeupNeverLost`
  (`NoLostWakeup`), `LogOrdered` (`InOrder`).

From: sizes are positive, `Cap` is positive, a trimmed batch may have two
buffers (`DropAbove >= 2`), and `Null` is no buffer. The invariant `Round` is the argument
why two buffers are enough: between rounds the worker has two empty ones and an
empty batch; it gives the second away only if the front had lost its spare, and then
a buffer was handed over, so that the batch has two. `LogOrdered` adds
that no number in the pipeline is above `offered` and reduces each step to one of
four facts about sequences of buffers: a message is added at the end, an
empty buffer is added at the end, the first two are merged, some in the middle are left out.

It also proves `NoMessageForgotten` (`Accounted`) and `EndedRoundsSurvive`
(`SettledSurvive`). `Kept` has the sets of message numbers in the file, the batch, the
vector, the current buffer and among the lost: together they are all numbers up to `offered`
(`EveryKept`), those up to `taken` have left the front (`TakenKept`), and those of ended rounds
are in the flushed part of the file or lost (`SettledKept`). Steps move whole buffers, so each is a
fact about the numbers in a sequence of buffers that grows, is cut, or is emptied.

And `LogIsPipe`, the safety part of the refinement `LogsInOrder`: initial states map to initial
states of `LogPipe`, appends to `Offer`, the end of a round to `Round` (or, if it took nothing, to
no step), and the other steps to none. `Rounds` says what a round has in hand: the front
holds the numbers above `taken` that are not too big; what was written since the last flush
and the batch hold those from `settled` to `taken`, all of them or, if the batch was cut, some. An
append hands over one buffer at most, so a batch of more than `DropAbove` buffers stands for
`DropAbove` messages at least, which is the excuse `LogPipe` asks for.

`NetBuffer_proofs` proves for any set of objects and bytes and any bounds on the calls:

* `BufferTypeCorrect` (`TypeOK`: the positions stay in the vector), `BufferBounded` (`NoBloat`),
  `BufferIsByteQueue` (the refinement of `ByteQueue`: initial states map to initial states, each
  call to a step or to none).

The operators on one object come first: what `Shrink`, `MakeSpace` and `AppendTo` leave
between the positions, and how long they leave the vector. The actions then follow by
citing them.

`LogFile_proofs` proves for every limit, interval and set of clock readings:

* `FileTypeCorrect` (`TypeOK`), `FileSizeBounded` (`SizeBounded`), `DayChangeSeen`
  (`DayBounded`), `FlushSeen` (`FlushBounded`).

The last two rest on `CountsKeepUp`: the code's own `iAppendCnt`, which sends `append` to the
clock, is never behind the lines that are overdue, though it is reset on paths that do
not roll or flush. A reset by a refused roll does no harm because of `Stamped`: the times stored are
those of the open file, so that a reading of the clock which is not past the last roll is not of a later
day. The size rests on `RoomLeft`: what `szWrittenBytes` leaves of the limit, and one append, is still
allowed to the open file's name. How times are named plays no part: `NameOf` is any function.

*Only model-checked:* whatever is liveness, which these provers do not reach: `ThreadsReturn`,
`QueueDrains`, and the fairness of `CkLife` and `LogPipe` in the refinements `LifeCycle` and
`LogsInOrder`.

## 6. Not modelled

* `reqListen`'s own socket, the constructor, `getInstance`, `CreateThread` failing:
  straight-line set-up.
* `kFunOnError` and `kFunOnSend` calling `reqDisconnect(AndWait)`: the first runs inside
  `handError` before `bEnable` is tested, which is a call the application may
  also make on its own just before. With a wait it is finding 1 again.
* The two address families (disjoint pools), the first 30 s of uptime
  (`GetTickCount64` below the delay), threads' error codes, and the wording of log lines.
* `NetLogger`: it formats a line in one thread, keeps nothing, and puts the line out in its
  destructor. What its flush and abort leave of a log is `SettledSurvive`.
* The statistics of a listener (`vllSendBytes`, `vllRecvBytes`, `vlAcceptNum`), which nothing
  reads; the access to them through `pkCkListen` is modelled.
* `kFunOnError` being swapped away while `handError` calls it: as `kFunOnSend` in `CkSend`.
* A file that cannot be opened (`_pFile` stays NULL).
* A short `fwrite` in `AsyncLog` and `LogPipe`: there the file is what is given to `LogFile`.
* A `WSASend` that completes with an error and a number of bytes (Winsock reports none then):
  in `CkSend` it is one or the other.
* `appendBuffer` of a `NetBuffer` to itself: the pointer it copies from dangles after the
  resize, which is undefined.
* Taken as one step: in `CkSend`, `bEnable` and `kFunOnSend` are set together (`Reuse`), as the application has no
  CK to send on before the callback that sets the function; in `WinIocp`, `init()` and
  the push to the pool (`DelSocket`; `CkRecv` and `CkSend` split `init()` where its parts are seen); in
  `CkRecv`, the size check after the callback and the test of `pkCkListen` (`TestListen`).
* Two calls on `kBufRecv` that overlap: undefined, and no value of a model.
* Name resolution, socket options and addresses (`WinNetHelp.cpp:207-461`): calls of Winsock.

## 7. Plan

1. `WinIocp` and `CkSend` together, as `CkRecv` is with `WinIocp`, so that a late send
   completion meets a socket whose connect failed.
2. An abstract pipe of bytes for one connection that `CkSend` implements.
