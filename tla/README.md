# A verification development of asio-async-tcp-frame

TLA+ models of the framework in `src/`, checked with TLC on small instances,
with proofs for every value of the constants checked by TLAPS. The models are
translated from the code; file and line numbers below are the repository's.

## 1. The system

| Component | State | Operations | Talks to |
|---|---|---|---|
| `Session` (`session.cpp`) | socket, `stop_mtx` used as a flag, `send_mtx`, `is_writing`, `is_reading_head`, `bodylen`, `send_buf`, `recv_buf` | `start`, `stop`, `write`; handlers of `async_read_some` and `async_write_some` | its owner through `read_callback` and `error_callback`; asio |
| `asio::streambuf` (vendored) | get, put and end pointers into a vector | `prepare`, `commit`, `consume`, `data` | used by `Session` |
| `ServerTCP` (`server_tcp.cpp`) | acceptor, `session_pool`, `sess_pool_mtx` | `write`, `broadcast`, `run`, `stop`, `close`, `closeAll`; accept handler | its sessions; the user's `onConnect`, `onMessage`, `onError`, `onDisconnect` |
| `ClientTCP` (`client_tcp.cpp`) | one session, an `io_context` | `write`, `run`, `close`, destructor; connect handler | its session; the user's callbacks |
| `ServerUDP`, `ClientUDP` | socket, receive buffer, `io_context` | `write`, `run`, `run_once`, `stop`; handlers | asio; the user's callbacks |
| head and lengths (`config.h`) | none | `PakSize`, `PakHeadData`, `HD_LEN` and the conversions between `size_t` and `int` | all of the above |
| asio | work count and stop flag of an `io_context`, queues of operations | `run`, `run_one`, `stop`, work objects | all of the above |
| examples, build | | | not part of the program's own logic |

What is hard here: any number of threads may sit in `run()` of a shared
`io_context` while others call `write`, `close` and `stop`; a handler may call
back into the object whose handler it is; a mutex is used as a flag by trying
to lock it; a buffer is given to an operation in flight and then written to;
TCP cuts the stream anywhere and UDP loses, repeats and reorders; sessions are
kept alive by `shared_ptr`s held in a map, on stacks and in callbacks the
session itself owns; the user's code runs with a lock held; `run()` returns
when the last operation ends, and never runs again. `PROJECT.json` lists these
hazards at their lines.

What makes each component correct:

- **Session**: what the peer wrote is delivered whole, in order, once, and none
  of it held back; what is written is sent in order and none of it is forgotten;
  one read and one write at a time; a failure is the end of its direction;
  `stop()` is final; calls return.
- **streambuf**: a first-in first-out queue of bytes, whatever `prepare` moves.
- **ServerTCP**: connections introduced one by one, messages after `onConnect`
  and none after a failed read, one `onDisconnect` for each; sessions alive while their handlers can run and destroyed when
  closed, an unbroken chain of accepts.
- **ClientTCP**: `run()` that goes on while the connection is read or a callback
  runs, and ends after `close()` or the loss of the connection; one `onDisconnect`
  for each direction that fails; the right length shown.
- **UDP**: a buffer for each datagram, freed once and not before it was sent; the
  receive buffer left alone under `onMessage`; a server that goes on receiving;
  `run()` that runs until stopped.

## 2. The modules

| Module | What it is |
|---|---|
| `Streambuf` | the pointers of a streambuf, as operators on a record |
| `StreambufMem` | the same with real cells: the reference `Streambuf` is checked against |
| `Session`, `SessionProps` | one connection, thread by thread; what it promises and the fairness of its threads |
| `MessageStream` | abstract specification of the receiving side, as the user sees it |
| `SessionLink` | abstract specification of a session, as its owner sees it |
| `Connections` | abstract specification of a server, as its user sees it |
| `ServerTCP`, `ServerTCPProps` | the server and its promises |
| `PakLength` | the arithmetic on the length of a message |
| `IoContext` | an `io_context`: its work and its stop flag |
| `ClientTCP`, `ClientTCPProps` | the client and its promises |
| `UDP`, `UDPProps` | both UDP classes with a network between them; their promises |
| `SessionInv`, `ServerTCPInv` | inductive invariants |
| `StreambufProofs`, `StreambufMemProofs`, `SessionProofs`, `SessionWriteProofs`, `ServerTCPMoves`, `ServerTCPProofs`, `ClientTCPProofs`, `UDPProofs` | the proofs |
| `MC_Session`, `MC_Server`, `MC_Client`, `MC_UDP` | the instances for TLC |

How they compose:

    MessageStream   SessionLink ---------------+-----------------+      Connections
          ^              ^                     | built on        | keeps to   ^
          | implements   | implements          v                 v            | implements
          +--- Session --+                 ClientTCP         ServerTCP -------+
                  | uses                    |     |
              Streambuf <- StreambufMem  IoContext PakLength
                           checks it        |
                                           UDP

### Session

A thread is at a place (`pc`), and a call it makes from user code or a callback
returns to `ret`. Steps end where another thread can interfere: a mutex, the
flag, a call on the socket, a callback.

| Code | Actions |
|---|---|
| `if (stop_mtx.try_lock()) {unlock; return;}` | `FindStopped` then `EarlyReturn`; otherwise `FindRunning`, or `DoWrite` at the head of `doWrite` |
| `write` 27-44 | `CallWrite`, the check, `WriteAppend` |
| `doWrite` 94-105 | `DoWrite`, `StartWrite` |
| write handler 106-120 | `TakeWrite`, the check, `WriteFailed` or `WriteConsume` and `DoWrite` |
| `start` 10-13, `doRead` 45-55 | `CallStart`, the check, `StartRead` |
| read handler 56-92 | `TakeRead`, the check, `ReadFailed`, or `ReadCommit` then `ParseHeader`, `DeliverPacket`, `PacketReturn` and at last `ReadOn` |
| `stop` 14-26 | `CallStop`, the check, `StopUnlock`, `StopShutdown`, `StopClose` |
| asio and the kernel | `PerformRead`, `FailRead`, `PerformWrite`, `FailWrite`; an operation in flight is an entry of `reads` or `writes` |
| the peer (external) | `PeerWrite`, `PeerClose`, `PeerReset` |

A byte is told by its offset in the stream, so a buffer is a pair of offsets,
and a packet delivered is the offset and length of its body. A view handed to
`async_write_some` is the position it points at; `wireOK` remembers whether
each byte the kernel took was the one that belonged there. `Outlive`, `Intact`,
the mark on a lost view and `wireOK` are the specification's own bookkeeping: no
code computes them, and they are not mapped to any. asio may perform an
operation at once when it is started; that is `PerformRead` or `PerformWrite`
taken next. A call on the socket is one step: what a data race inside asio's
socket object does is not modelled. `~Session` is `stop()` by the last owner.

### Abstract specifications

`MessageStream` is what the user sees of a session's receiving side: messages
sent, those handed over, and a connection that ends after some first part of
them. The refinement (`ImplementsStream`) maps `sent` to the packets that reach
this side whole.

`SessionLink` is what the owner sees: a read that is off, armed, in
`read_callback`, failed or ended; a write likewise; and whether `stop()` was
called. It says that callbacks come one at a time, that none follows a failure
of its direction, and that a chain of operations ends without a callback only
after `stop()`. `Session` implements it (`ImplementsLink`), `ClientTCP` takes its
steps from an instance of it, and `ServerTCP`, which was written out with a read
and a write for each session, is shown to keep to it (`UsesSessions`).

`Connections` is what the user of a server sees: each connection goes from
unknown to arrived, `onConnect`, met, to `onMessage` and back, and is at last
lost, when its read has failed. A new one is only let in when the last has been
greeted, and none after an accept has failed. `onDisconnect` is called at most
once for each, at any time after it has arrived: what `close()` drops from the
pool lives on and goes on being shown its messages, and a `closeAll()` may drop
a connection that nobody has been told of yet. `ServerTCP` implements it
(`ImplementsConnections`); the refinement reads the phase of a session off the
sets `registered` and `connected`, the stacks and the state of its read.

### ServerTCP

A thread's `stack` holds the functions it is in. The accept handler is the
places `register`, `hook`, `connect`, `start`, `rearm`; `read_callback` is
`onMessage`, and for a message too short for its head `onShort` (an `onError`
that is not followed by `close`) before it; `error_callback` is `onError` followed by `close`, or `close` alone
at an eof. `sess_pool_mtx` is not recursive, so `poolMtx` is its owner, and
whoever locks waits for it to be free, itself included. Of a session the module
keeps whether its read and write are outstanding, which is all the server's
code depends on; `Session` has the rest. The user writes to and closes the sessions it
knows (`Known`): those it was given in `onConnect`, in the `onError` of a
failed write (a `broadcast` may write to a session before its `onConnect`) or
in the `onDisconnect` of a `closeAll`. Calls of `Session`'s own `stop()` by
the user are left to `Session`. `Held(s)` says whether a `shared_ptr` exists:
the pool's, one on a stack, or those captured by the session's own callbacks.
A call on an erased iterator is undefined behaviour; the model lets it go on or
crash (`SweepAdvance`, `SweepCrash`).

### ClientTCP

| Code | Actions |
|---|---|
| constructor 4-36 | `Init`: a session whose connect is outstanding, one piece of work |
| connect handler 26-35 | `TakeConnected` (`start()`, then `onConnect`) or `TakeRefused` (`onError`) |
| `read_callback` 9-17 | `TakeMessage`; a frame too short goes through `onShort` (the `onError`) and, as in the code, on to `onMessage`: `ReturnShort`, `ReturnMessage` |
| `error_callback` 18-25 | `TakeReadEnd` at an eof, otherwise `TakeReadError` or `TakeWriteError`, then `ReturnError` to `onDisconnect` |
| `write` 76-86 | `CallWrite` |
| `run` 87-90 | `EnterRun`, `LeaveRun`; handlers run only in a thread that is in it |
| `close` 91 | `CallClose`: `stop()` of the session, which closes the socket under the connect too |
| `~ClientTCP` 68-73 | `Destroy` |

A write before the connection stands is queued behind the connect and is sent,
or fails, when that is over. As there is no pool, the two directions may each
fail and each is followed by an `onDisconnect`: `DisconnectPerFailure` counts
them. The context is the client's own. With the other constructor (37-67) it is
the user's, `run()` does nothing, and what the destructor leaves in that context
is outside the client's control.

`PakLength` has the arithmetic: `write()` adds `HD_LEN` to a `size_t`;
`read_callback` computes `int bodylen = length - HD_LEN`, tests it for being
negative and hands it on as a `size_t`. The widths are parameters (`IntHalf`,
`SizeMod`), conversions are taken modulo them. The server has the same lines
(`server_tcp.cpp:101-108`); module `ServerTCP` has their control and leaves the
lengths to `PakLength`.

`IoContext` counts the outstanding operations: one is work from its start to
the return of its handler; when the count reaches zero the context stops, and
nothing in the framework calls `restart()`.

### UDP

Both classes are in one module, with sides `client` and `server`, since they
send by the same code and one's datagrams are what the other receives.

| Code | Actions |
|---|---|
| `write` (`client_udp.cpp:34-53`, `server_udp.cpp:48-65`) | `Write`: a block from `new[]`, filled, and a send that is performed at once or waits |
| its handler | `TakeSent`, or `TakeSendError` and `ReturnError`: `delete[]` in both |
| `ServerUDP::run`, `ClientUDP::run_once` | `EnterContext`, `LeaveContext` |
| `ClientUDP::run` 16-20 | `EnterClientRun`, `LeaveClientRun`: a work object made and destroyed |
| `stop` | `Stop` |
| `do_receive` and its handler (`server_udp.cpp:67-81`) | `TakeReceive`, then `onMessage` or nothing, then `Rearm` |
| asio and the kernel | `PerformSend`, `FailSend`, `PerformReceive`, `FailReceive` |
| the network (external) | `Arrive` (which may keep a copy), `Lose` |

The heap says what each block holds, so that a block freed early and given out
again would be seen. A datagram is at most 65507 bytes and the receive buffer
is larger, so nothing is truncated. The destructors are left out.

## 3. The runs

| Run | What it asks | Bounds |
|---|---|---|
| `StreambufMem` | `TypeOK`, `ReadableIsFifo`, `OnlyMovesSpoil`: is the pointer arithmetic a queue of bytes, and what takes its bytes from a write in flight | 12 bytes, writes of 1, 2, 3, 5, first block of 4: every mix of shifting, growing within capacity and reallocating occurs |
| `SessionRead` | `StopSticks`, `SingleReader`, `InOrderDelivery`, `NothingHeldBack`, `EventuallyDelivered`, `StopEnds`, refinement of `MessageStream` (`ImplementsStream`) | 2 io threads, 2 packets of 0 or 2 bytes, headers of 2, reads of up to 3: cuts fall inside headers and bodies, and one read spans two packets |
| `SessionWrite` | `TypeOK`, `SingleWriter`, `NoStrandedPacket`, `SendAccounting`, `OnlyMovesSpoil` | 1 io and 2 user threads, 2 writes of a header and 0 or 1 bytes, first block of 3: partial sends, second packets that fit behind the first and others that make the buffer shift or grow |
| `SessionSolo` | `FailureIsFinal`, `StopSilences`, `EventuallySent`, `CallsReturn`, refinement of `SessionLink` (`ImplementsLink`) | 1 thread, 2 packets each way, written and stopped in callbacks |
| `ServerPool` | `TypeOK`, `DisconnectedOnce`, `SessionOutlivesHandlers`, `AcceptChain`, `UsesSessions`, `FailedLeaves`, `ServerReturns`, refinement of `Connections` (`ImplementsConnections`) | 2 io threads, 2 sessions, `write`, `broadcast`, `close` and `stop` (with its `closeAll`) from inside `onMessage`, on sessions known before their `onConnect` too; messages too short |
| `Client` | `TypeOK`, `RunBlocks`, `DisconnectPerFailure`, `MessageLength`, `CloseEndsRun`, `LossEndsRun` | 2 threads in `run()`, a third that calls, 2 writes, an `int` of 3 bits, a `size_t` of 5 and every frame it can announce |
| `Udp` | `TypeOK`, `BufferAccounted`, `DatagramIntact`, `MessageIntact`, `ServerRunBlocks`, `Received` | 1 client and 2 server threads, 2 datagrams, one of them empty, 2 blocks, 2 in the server's socket |

Two of each thing are enough for the hazards listed: each needs one actor that
acts between two steps of another. Two packets give a first, a following and
the boundary between them; two datagrams in a socket give a next one to
overwrite the last. Two threads at most are in a callback in `ServerPool`, but
a call from inside `onMessage` is a call from a thread in all respects, the
locks included. An `int` of 3 bits in a `size_t` of 5 has lengths that fit,
that turn negative and that wrap past the negative ones. Symmetry is used over
interchangeable threads in `SessionWrite`, whose properties are invariants, and in the server's violation runs; never in a run
with a liveness property. Deadlock checking is off everywhere: a stopped
session, a client destroyed, a server that has closed or crashed, or all
bounded input used up is a legal end. The constants of the code
(`recv_ones_bytenum` 1024, `buffer_delta` 128, a header of 8 bytes) are
parameters, taken small.

`InOrderDelivery` and `NothingHeldBack` in `SessionRead` have `SizeTLen = HLen`,
as on 64-bit builds. A wider `size_t` would keep short packets back, a narrower
one parse headers that are not there yet.
`StopSilences` is claimed for one thread: with more, a stopped session can be
taken for a running one while another thread checks; `StopEnds` says what is
left then, that it comes to rest.

`WireIsStream` and `ViewStaysValid` do not hold as they stand (`SessionView`);
`OnlyMovesSpoil` says, step by step, what it takes to break them: a packet
appended while a write waits, for which `send_buf` has no room behind its put
pointer, or one that follows such a packet. The second case needs three packets,
so `SessionWrite` has the first only, and the second is covered by the proof and,
for the buffer alone, by `StreambufMem`. Three properties are proved and not run:
`ErrorOnce` and `ConnectBeforeMessage`, which `FailureIsFinal` and
`ImplementsConnections` go beyond, and `WireIsStream` under the hypothesis of
`AnsweredWritesAreWhole`.

### What the code does not do

Five runs are expected to end in a violation; each checks one statement of the
repository's docs.

| Run | Statement | What happens |
|---|---|---|
| `SessionView` | buffers given to an asynchronous write stay valid until its handler (`basic_stream_socket.hpp:910`) | `write()` in another thread, or in a callback, prepares `send_buf` while a write is in flight; the bytes move or their block is freed |
| `ServerClose` | `close()` closes the connection (`server_tcp.h:31`) | the session's callbacks own the session: it is erased from the pool and lives on, its socket open |
| `ServerRelock` | connections may be closed inside callbacks (`README.md:27`) | `onDisconnect` runs with `sess_pool_mtx` held: a call inside it never returns |
| `ServerCloseAll` | `closeAll()` closes all connections (`server_tcp.h:33`) | it increments the iterator it has erased |
| `UdpRun` | `ClientUDP::run()` blocks (`client_udp.h:13`), as `io_context::run()` does (`io_context.hpp:285`) | it makes a work object and destroys it: it returns with a datagram still to be sent |

Two of them have another side, which is proved (section 4): what a program
has to do, or to leave, so that the statement holds of it.

| Run | The statement holds |
|---|---|
| `SessionView` | until a packet is appended while a write waits and finds no room (`CrowdingSpoils`); so always if nothing is written while something is unsent, as by a client that waits for its answer (`AnsweredWritesAreWhole`) |
| `ServerRelock` | in every callback but `onDisconnect` (`CloseInCallback`) |

What `ServerClose` finds is what protects the handlers, which capture a bare
`this`: `SessionOutlivesHandlers` holds only because of the cycle, and its
mutant, with weak pointers in the callbacks, breaks it. A repair has to do both.

### Fairness

`Session`'s `FairSpec`: weak fairness for the steps of every thread, since
threads run; strong fairness for the return of callbacks, which user code may
delay by further calls but not for ever; strong fairness for taking finished
operations, because the scheduler's queue is first in, first out
(`scheduler.ipp:447-505`); weak fairness for performing operations, which for
writes assumes a peer that reads. A thread of `Session` waits for `send_mtx`
only while another is between two steps of its own, and calls are bounded, so
weak fairness of a thread's step is enough.

`ServerTCP`'s: weak fairness for the steps that need no lock, strong fairness
for getting the mutex and for the return of callbacks. `ServerReturns` and
`FailedLeaves` hold as long as `onDisconnect` does not call the server.

`ClientTCP`'s: callbacks return, threads leave a `run()` that may be left, and
finished operations are handled. Whether the peer ever answers and whether
anybody calls `run()` is left open; `CloseEndsRun` and `LossEndsRun` do without
either. Nor is a write assumed to be performed: `LossEndsRun` speaks of losses
with no write under way.

`UDP`'s: the server's threads call `run()`, its callbacks return, a finished
receive is handled, and the kernel does not fail a receive for ever (strong
fairness of `PerformReceive`). Nothing is assumed of the client or the network.

## 4. The proofs

TLAPS proves, for every set of threads, sessions and datagrams, all sizes and
all bounds, every safety property that a passing run checks. The only
assumptions are those named in the modules (`SessionAssumption`,
`StreambufAssumption`, `ServerAssumption`, `LengthAssumption`,
`ClientAssumption`, `UDPAssumption`), but for the six theorems whose hypothesis
the table gives.

| Theorem | Statement |
|---|---|
| `PrepareMakesRoom`, `CommitAppends`, `ConsumeDrops` | what each operation does to a well-formed streambuf |
| `ViewSurvivesAppendInPlace` | an append that neither shifts nor frees keeps every view |
| `PointersInside`, `Fifo` | `StreambufMem` keeps `TypeOK`, `ReadableIsFifo` |
| `RoomKeepsViews` | it has the action property `OnlyMovesSpoil` |
| `TypesKept` | `Session` keeps `TypeOK` |
| `StopIsFinal` | it keeps `StopSticks` |
| `OneReader`, `OneWriter` | it keeps `SingleReader`, `SingleWriter` |
| `DeliveryInOrder` | if `HLen <= SizeTLen`, it keeps `InOrderDelivery` |
| `NothingWaits` | if `HLen = SizeTLen`, it keeps `NothingHeldBack` |
| `SessionIsStream` | if `HLen <= SizeTLen`, it implements `MessageStream` |
| `NothingLostOrRepeated`, `NothingStranded` | it keeps `SendAccounting`, `NoStrandedPacket` |
| `OneError`, `FailuresAreFinal` | it keeps `ErrorOnce` and has the action property `FailureIsFinal` |
| `SessionIsLink` | it implements `SessionLink` |
| `StopIsSilent` | if there is one thread, `StopSilences` |
| `CrowdingSpoils` | it has the action property `OnlyMovesSpoil` |
| `AnsweredWritesAreWhole` | if a packet is appended only when all before it has been sent (`SettledFirst`), it keeps `WireIsStream` and `ViewStaysValid` |
| `ServerTypes`, `OneAccept`, `MessagesAfterConnect`, `OneDisconnect`, `SessionsHeld` | `ServerTCP` keeps `TypeOK`, `AcceptChain`, `ConnectBeforeMessage`, `DisconnectedOnce`, `SessionOutlivesHandlers` |
| `ServerKeepsLink` | `UsesSessions` |
| `ServerShowsConnections` | it implements `Connections` |
| `MutexIsHeld` | the owner of `sess_pool_mtx` is in the guarded part of `close()` or `closeAll()` |
| `CloseInCallback` | if `onDisconnect` is not among the callbacks that call the server, it keeps `CallbackMayClose` |
| `RoundTrip` | what comes of a length on its way through the frame |
| `LengthsKept`, `ClientTypes`, `ClientRunBlocks`, `ClientDisconnects` | `ClientTCP` keeps `MessageLength`, `TypeOK`, `RunBlocks`, `DisconnectPerFailure` |
| `UDPTypes`, `BlocksAccounted`, `SentAsWritten`, `MessageStays`, `ServerUDPBlocks` | `UDP` keeps `TypeOK`, `BufferAccounted`, `DatagramIntact`, `MessageIntact`, `ServerRunBlocks` |

The arguments:

- *The streambuf.* `MemInv` is `TypeOK`, `ReadableIsFifo` and the view in flight:
  either it still points at the first readable cell, and shows it, or the cells
  it sees are not those it was given. `Prepare` is followed through its three
  cases; the pure facts about the pointers are the lemmas of `StreambufProofs`.
  The lemma `IntactExactly` draws from it that `Intact`, the pointers' word for it
  in `Session`, tells what the cells show, and *RoomKeepsViews* that a write which
  fits behind the put pointer leaves a view that shows its bytes where it is.
- *TypesKept* uses those lemmas: the pointers of `send_buf` stay in order.
- *StopIsFinal*: `FlagInv` says when `stop_mtx` may be locked, in both phases of
  a session's life. It is inductive by itself.
- *OneReader*: there is a token, a read in flight or a thread in the read
  handler, and every step passes it on. `SingleReader` is not inductive: a
  thread could return from a call into the middle of the handler. `ReturnInv`
  says where calls return to, and `ReaderInv` adds that there is no token
  before `start()`.
- *OneWriter* is the same with `is_writing` for the token: it is held by a write
  in flight, by a thread in the handler, or by the thread between setting the
  flag and starting the write, which also holds `send_mtx` (`WriterInv`).
- *NothingLostOrRepeated*: `SendInv` says where the kernel is in the stream for
  each holder of that token. *NothingStranded* rests on `RefillInv`, which holds
  until `stop()`; that a running session is never found stopped is `FlagInv`.
  *OneError* is `FailInv`: after a failure nobody has the token any more.
  *FailuresAreFinal* looks at one step under the same invariants: what receives,
  delivers, sends or consumes needs the token of its direction.
- *DeliveryInOrder*: `FrameInv` says that `recv_buf` begins with a header when
  `is_reading_head` is set and otherwise with the body of the packet whose
  length `bodylen` is. It rests on `LogInv` (packets lie end to end in the
  peer's stream), on `ReadBytesInv` (no byte is in `recv_buf` that was not
  received) and on `OneReader`. The hypothesis is used at one point, where the
  header is read: with it `HasHeader` implies that all of it is there. The code
  compares with `sizeof(size_t)`, so where that is 4 and `PakSize` is 8 bytes
  wide a header would be parsed half-arrived.
- *NothingWaits*: `HoldInv` says that a read is only begun when `recv_buf` has
  neither a whole header nor a whole body left, and that nothing is added while
  it waits. With `FrameInv`, which says where in the stream `recv_buf` begins,
  and `LogInv`, a packet received whole beyond those delivered would have shown
  its header, and then its body, to the loop.
- *SessionIsStream*: the packets that arrive whole are a first part of those
  written, those delivered are among them, and an end of the connection cuts
  the first without touching the second: each step is a `Send`, a `Deliver`, a
  `Cut` or a stutter.
- *SessionIsLink*: each step changes the owner's view as one step of
  `SessionLink` or not at all. What has to be known is who is where:
  `OneReader` and `OneWriter` make the holder of each token unique, `FailInv`
  that failures are final, `FlagInv` that silent ends come after `stop()`.
- *StopIsSilent*: with one thread nobody is between another's `try_lock` and
  `unlock`, so every check after `stop()` finds the session stopped.
- *CrowdingSpoils*: a step that makes a good view bad must move `sendBuf` or the
  view. With `OneWriter` no `consume` comes under a waiting write, and what is
  started takes its view off the buffer; an append with room, in a buffer that
  still begins where the view does, changes neither position nor block
  (`AppendFits`). So the step is a `Crowds`. The kernel takes from a view that is
  good the bytes that are due, since by `SendInv` the write starts where the
  kernel stopped (`SpoilStep`).
- *AnsweredWritesAreWhole* has a hypothesis on behaviours and not on sizes. A
  write that waits has bytes to send (`StartInv`), so while one waits the kernel
  is short of the end of the stream, and `SettledFirst` allows no append: nothing
  ever `Crowds`. Then every waiting view is where `send_buf` begins
  (`PlacedInv`), and what is sent is the stream.
- *The server*: every step of a thread changes the top of its stack, and the
  lemmas of `ServerTCPMoves` say what entering, leaving, replacing and calling do
  to a statement about all frames. With them `ServerInv` is kept: good frames,
  sessions that are used only when registered, at most one accept handler and
  at the bottom of its stack, `onShort` or `onMessage` in the one thread that has the read,
  the mutex held in the guarded parts, and `onDisconnect` counted for those that
  left the pool or are about to.
- *ServerShowsConnections* needs one thing more, `WelcomeInv`: a connection the
  user does not know of yet is the one the accept handler is about to show. As
  there is one such handler (`AcceptInv`), all others have been greeted when the
  next arrives. Each action then moves one session by one step of `Connections`,
  or none; the lemmas of `ServerTCPMoves` about frames tell which sessions keep
  their phase.
- *MutexIsHeld*: `HolderInv` is inductive with `ServerInv`, since the guarded
  parts are left only by unlocking. *CloseInCallback* adds `InnerInv`: where
  `onDisconnect` calls nothing, a guarded part has at most that callback above
  it, so the owner of the mutex is never about to lock it.
- *The client*: `ClientInv` counts: the work of the context is the number of
  operations outstanding plus the handlers under way, so the context stops
  exactly when nothing is left; and `disconnects` with the threads in `onError`
  is the number of directions failed. *ClientRunBlocks* adds `BusyInv`: a message is
  shown in one thread at a time, and meanwhile the read is not over; any other
  thread at a callback is a handler under way. Either is work of the context. The lengths are lemmas about `%`;
  `SizeMod` is a multiple of `2 * IntHalf`.
- *UDP*: `UDPInv` counts each side's work in the same way (the server's receive
  is always one of it until `stop()`), has one receive or handler at a time, and
  a block allocated exactly for each send that is outstanding or in `onError`.
  *MessageStays* follows from the single receive: what `receive_buf` got is what
  its handler was given, and nothing fills it before `Rearm`.

Each inductive invariant was checked by TLC before it was proved.

Only model-checked: liveness (`EventuallyDelivered`, `EventuallySent`, `StopEnds`,
`CallsReturn`, `FailedLeaves`, `ServerReturns`, `CloseEndsRun`, `LossEndsRun`, `Received`), which
is out of reach of the prover (fairness and ENABLED). The five violations are
TLC's as well. No module declares a RECURSIVE operator.

## 5. Mutants

A definition with a comment at its end that stands just above another of the
same shape is a slip the code might have had (`KeepLocked` above `Unlock`, for
instance): put in the other's place it must break a property. `PROJECT.json`
pairs them.

## 6. Plan

*Done*: the core (`Streambuf`, `Session`, `MessageStream`), `ServerTCP`,
`SessionLink` between a session and its owners, `Connections` between a server
and its user, `ClientTCP` on `IoContext` and `PakLength`, `UDP`; the proofs of
every safety property, action property and refinement that is checked, and of
when two of the statements that fail do hold.

*Left*:

1. `TcpLink`: two sessions, each the other's peer. Each session is checked against
   the freest peer there is, so this would show nothing new about safety, only
   that two of them make progress together.
2. `ServerTCP::run` and `~ServerTCP` on `IoContext`: when the server's `run()`
   returns after `stop()`, given the sessions that own themselves.
3. The destructors of the UDP classes, and of a `ClientTCP` in a context of the
   user's.
4. Abstract specifications of a client and of the datagram service, as their
   users see them, with the refinements proved like that of `Connections`.
5. What `onMessage` is shown for every length a frame can announce: `RoundTrip`
   stops at twice an `int`'s range.

## 7. Not modelled, and why

- asio inside. It is vendored, header-only and nearly all of the repository
  (about 180 000 lines against 700 of the framework's own). Of it the models
  have what the framework meets: `basic_streambuf`, the work count and stop flag
  of `io_context`, the order in which operations are performed and their
  handlers taken, what `close()` does to them. The rest is sockets, executors,
  buffers and other protocols the framework does not use, and its own tests are
  not in the repository.
- The contents of packets, the wording of errors, logging: no property is about
  them.
- Lengths of 2 GiB and more inside a streambuf, where `commit()` and `consume()`
  hand an `int` to `pbump` and `gbump`. `PakLength` covers what such a length
  becomes in the callbacks.
- Data races inside asio objects used by two threads without a lock
  (`socket.close()` against an operation being started): the source does not
  say what they do.
- Failure of `new` (`buf == nullptr` never holds: `new` throws).
- `ServerTCP::run()` and destructor, the UDP destructors, and the end of a
  `ClientTCP` in a context of the user's: see the plan.
- The examples, `xmake.lua` and `asio_impl.cpp`: no state of their own.
