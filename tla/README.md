# TLA+ models of IO-model

IO-model is a collection of echo servers, one per concurrency model, with a
coroutine library two of them are built on and a benchmark client. This
directory holds TLA+ models of its parts, TLC configurations that check them on
small instances, and TLAPS proofs of what holds for every instance. Names of
variables and actions are those of the source wherever TLA+ allows it.

## 1. The system

### Parts

| Part | State | Operations | Talks to |
|---|---|---|---|
| Coroutine scheduler, `src/corotine/coroutine.{h,cpp}` | pool of coroutines (state, priority, batch, barrier flag, stack, local variables), pool of batches, `runningCorouineId`, `isMasterCoroutine`, `activityCnt`, `batchFinishList`, `stackCheck` | create, resume (by priority, by id, members of a batch, finished batches), yield, return, BatchInit/Add/Run, local variables, stack check, release of memory | called by main and by the coroutines; one thread |
| Percentile, `src/corotine/percentile.hpp` | ring of samples per key | Stat, GetPercentile | called by ScheduleTryReleaseMemory |
| Codec and blocking messages, `src/echo` | decoder status, buffer, length and message of one connection | EnCode, Decode, GetMessage; SendMsg, RecvMsg, LoopAccept | every server and the benchmark |
| Connections and epoll helpers, `src/epoll_common` | per connection: codec, packet, bytes sent | Read, Write, OneMessage, FinishWrite; add, change, rearm, clear interest | the reactors |
| Coroutine servers, `src/epoll_reactor_singleprocess_coroutine`, `src/epoll_reactor_processpoll_coroutine` | `EventData` per connection (fd, cid), epoll interest, the events of a round, the timeout | main loop, accept, one handler coroutine per connection | scheduler, codec, epoll |
| Reactors, `src/epoll_reactor_singleprocess`, `..._et`, `..._threadpoll` | `Conn` per connection, interest | read, echo, write until done, release | Conn, epoll |
| Half sync half async, `..._threadpoll_hsha` | shared queue with mutex and condition, one-shot interest | io threads read and write, workers encode (and send, with directSend) | Conn, epoll |
| Main and sub reactors, `..._threadpoll_ms` | start barrier, epoll of each sub reactor, round-robin index | main accepts (and waits for the first bytes), sub reactors serve | Conn, epoll |
| epoll, poll, select servers | set of watched descriptors | accept, then serve a ready connection with blocking calls | RecvMsg, SendMsg |
| Blocking servers (single process, process per connection, thread per connection, pools, leader and followers) | descriptors, mutex of the leader | accept, serve, close | RecvMsg, SendMsg |
| Benchmark, `src/test/benchmark.cpp` | descriptors per thread, statistics under a mutex | connect all, send all, receive all, add up | SendMsg, RecvMsg |

### What is hard

* The scheduler's contract is a protocol between main and the coroutines. A
  batch joins several coroutines that yield and return in any order; its
  end travels over three pieces of state (the members' map, the finish list,
  the barrier flag of the waiting coroutine), and five asserts depend on them.
* Slots are reused: whatever a coroutine leaves in its slot (stack, canary,
  local variables, id) meets the next one. The servers keep slot numbers in
  `EventData`.
* Messages arrive in pieces, clients close or reset at any point, and a peer's
  end of file can come with, before or after the last byte.
* Level-triggered, edge-triggered and one-shot events each need their own
  discipline of reading, changing the interest and releasing the connection.
* Threads share the queue, the start barrier and the ownership of connections.
* A descriptor is a number that the kernel reuses at once: a close too many hits
  somebody else's connection, a close too few is never made up for.
* Blocking calls wait for the other side, which may wait for them: the benchmark
  sends everything before it reads anything, and buffers are finite.

PROJECT.json lists each hazard with its line and the properties that would
catch it.

### What makes each part correct

* Scheduler: BatchRun is a join; a finished batch is announced once; asserts do
  not fail for callers that keep the rules; counts and ids stay in step with
  the pool; memory is freed only from idle slots and only as the percentile
  allows.
* Codec: the message is the body of the frame whatever the reads; RecvMsg
  returns as soon as the frame is there, and when the peer is gone.
* Coroutine servers: a connection and its coroutine belong together until both
  end; every connection that was opened is served or released, also when the
  pool is full; a client that is still there gets the whole response.
* Percentile: the answer is that of the last values, however often the ring has
  wrapped and however doubles round.
* Reactors and thread servers: one owner per connection, no event of
  a released connection handled, no lost hand-off, no edge-triggered event used
  up with work left behind, every descriptor closed by the one who serves it.
* Main and sub reactors: the barrier opens, connections are dealt out in turn.
* Blocking servers under the benchmark: it ends, with every connection counted.

## 2. Modules

| Module | Models | Notes |
|---|---|---|
| `Coroutine` | the scheduler, every operation that changes it | one action per function; callers are free except for named habits |
| `Percentile` | the ring of values and its percentile, computed in doubles | functions, and an exact reference definition |
| `CoroutineMemory` | the scheduler with its percentile | composes the two; ScheduleTryReleaseMemory as a whole |
| `MCCoroutine`, `MCMemory` | `Coroutine` and `CoroutineMemory` for TLC | bound what is explored |
| `ForkJoin` | what batches promise | abstract: tasks, children, waiting |
| `CoroutineForkJoin` | `Coroutine` implements `ForkJoin` | refinement mapping |
| `Codec` | one frame from SendMsg to RecvMsg through the decoder | peer, RecvMsg and Decode statement by statement |
| `CoroutineServer` | both coroutine servers | EXTENDS `Coroutine`; clients and epoll are its environment |
| `EpollConn` | `Conn`, the epoll helpers, clients and readiness | one operator per system call; no Next of its own |
| `Hsha` | the half-sync half-async server | EXTENDS `EpollConn` |
| `Reactor` | the loop of a reactor thread, level- or edge-triggered, single or multiple io | EXTENDS `EpollConn`; one action per system call |
| `MainSub` | the four programs of reactors, main and sub reactors among them | EXTENDS `Reactor`; barrier, hand-over, Init, Next |
| `BlockingConn` | connections, socket buffers and descriptor tables under blocking calls | no Next of its own |
| `Blocking` | the ten servers that read and write with blocking calls | EXTENDS `BlockingConn`; tasks that accept and serve |
| `Benchmark` | a thread of the benchmark and other clients, against such a server | EXTENDS `Blocking`; Init, Next |
| `CoroutineProof` | theorems about every use of the scheduler | checked by TLAPS |
| `CoroutineBatchProof` | theorems about batches, for callers that keep the rules; `Coroutine` implements `ForkJoin` | checked by TLAPS |
| `MemoryProof` | theorems about the percentile and the release of memory | checked by TLAPS |
| `CodecProof` | theorems about `Codec` | checked by TLAPS |
| `ServerProof` | theorems about `CoroutineServer` | checked by TLAPS |
| `HshaProof` | theorems about `Hsha` | checked by TLAPS |
| `MainSubProof` | theorems about `MainSub`, and with it `Reactor` | checked by TLAPS |
| `BlockingProof` | theorems about `Blocking` and `Benchmark` | checked by TLAPS |

Definitions marked "mutant" stand next to the definition they are a wrong
version of. No specification uses them; PROJECT.json names the property that
fails when one of them takes the place of the right one.

### Coroutine

The variables are the fields of `Coroutine`, `Batch` and `Schedule`.
`cid2finish` is split into `unfinished[b]` and `finished[b]`. The saved context
of a coroutine is reduced to what its next instruction does to the scheduler:
`barrier[c]` says that it is inside BatchRun of that batch (then resuming it
runs the rest of BatchRun, part of `SwitchTo`), otherwise it is in caller code.
`stack[c]` tells apart no stack, an intact one and one whose canary is
damaged; `local[c][k]` tells apart no variable, one set by this coroutine and a
stale one of an earlier coroutine of the slot.

A `swapcontext` is one step. The two resume functions that loop
(CoroutineResumeInBatch, CoroutineResumeBatchFinish) take one step per resumed
coroutine, with `todo` and `draining` as the loop's position; between two of
their steps the resumed coroutine runs. The part of CoroutineRun after the
entry function has no switch in it and is one action, and so are BatchAdd with
its CoroutineCreate, and BatchRun up to its yield.

Assertions: a failed assertion sets `status` to its name and ends the run. What
callers may do wrong has a name in `Usage`; with `Usage = {}` a guard keeps
them from it:

| Habit | Rule that is broken |
|---|---|
| `nestedBatch` | one batch at a time per coroutine |
| `yieldInBatch` | no yield between BatchInit and BatchRun |
| `abandonBatch` | no return between BatchInit and BatchRun |
| `resumeListed` | no CoroutineResumeById for a coroutine on the finish list |
| `restartBatch` | BatchRun once per BatchInit |
| `reResumeBatch` | no CoroutineResumeInBatch once a member has returned |
| `unguardedAdd` | CoroutineCanCreate before BatchAdd |
| `overrun` | entry functions stay inside their stack |
| `disableCheck`, `clean` | whether these calls are made at all |

Left out: CoroutineIsInBatch and ScheduleGetRunCid (they return a field),
assertions on ids out of range and on calls from the wrong side (master or
slave), which are the signature of the calls, and the values of local variables.
In `Coroutine` the percentile is a set of answers, `PctValues`, so that what is
shown does not depend on what Percentile computes.

### Percentile and CoroutineMemory

`Stat` and `GetPercentile` are functions of a ring. `Sorted` puts the values in an
ascending order, which leaves no choice for integers: what std::sort returns.

The arithmetic is that of doubles. The numbers of the computation are given in
units, `Significand` (2^53) of which are 1: 0.99 is at least 1/2 and so a whole
number of units, and then every product, difference and sum is. `Spacing` is the
distance of the doubles around a number, a power of two, and `Round` takes the
nearest double, the even one of two (IEEE 754 without extended precision or fused
operations, as on x86-64). `Literal` is the double of the constant 0.99, and each
multiplication and addition is rounded; the differences `x - i` and `1 - j` are
doubles themselves. `P99` cuts the answer off as `(int32_t)pctValue` does.

What is meant is `PercentileOf`: of the last values as a sequence (`window`, a
history `CoroutineMemory` keeps beside the ring), by ranks, without ring, index,
sorting or rounding. The two are not the same. For 1024 values the rank is
1023 * 0.99, as a double 1012 + 0.77 - 1.8e-14, and where the values there are 0
and 100 the code computes 76.999..., keeps 76 stacks, and the percentile is 77.
`CutOff` says exactly that much: the whole part, or one less where the percentile
is a whole number. One less is within what the comment at coroutine.cpp:369 asks
for (keep about the 99th percentile), so it is an exception of the properties and
not listed as a finding.

### Codec

Bytes are their positions in the stream, so a buffer is an interval and "the
right bytes" is an equation. Decode's loop is walked statement by statement
(`pc`): decodeHead, decodeBody, the end of the loop, the erase. `HeadAt` is the
value ntohl finds: the body length at position 0, anything elsewhere, so that
a misaligned decoder reads garbage. RecvMsg reads any number of bytes that have
arrived; a failing read sets errno, an end of file does not. The peer's write
takes any part of what is left.

### CoroutineServer

The module extends `Coroutine`: the calls the server makes are its actions,
conjoined with the server's own assignments. `serves[c]` is the `arg` of a
handler; `phase` and the counters `rd`, `wr` stand for the handler's saved
context, its decoder and `sendLen`. Each read or write of the handler is a step
of its own, so that clients act between any two of them. A round of epoll_wait
is a set `events` that main takes apart in any order. `DynamicMsec` tells the
two programs apart: it is the third argument of the one process, and always on
in the process pool, whose processes share nothing but the port.

The environment: a client connects once, sends its request in pieces, takes the
response in pieces, and may shut down its side or reset the connection at any
time. A client that shuts down does not reset afterwards (then write raises
SIGPIPE, which no server handles; see the hazard). epoll is level-triggered and
reports a reset whatever the interest. EINTR and failures of epoll_wait and
accept lead back to the same state and are left out.

### EpollConn and Hsha

`EpollConn` has a step for each system call on a connection: a read or write of
a piece, the one that answers EAGAIN, the one that fails. `Conn::Read` is then
"ReadPiece until ReadAgain or ReadFails", and clients act between any two of
these calls. An end of file found behind a complete request makes Read return
false, as in the code, and the request is dropped. `interest` is what epoll
watches: a one-shot interest in reading ("in1") becomes "off" when epoll_wait
reports it. `Release` is ClearEvent followed by `delete conn`; nothing runs
between the two but the thread itself, so they are one step.

`Hsha` composes io threads and workers. `pc[t]` is the call the io thread
makes next, `cur[t]` the connection in its hands, `events[t]` what is left of
the round. A critical section of `Mutex` is one step; pushInQueue's notify_one
comes after it and is a step of its own, so a worker can find the queue full
or empty in between. `Cond.wait` releases the mutex and starts waiting at once
and asks the predicate again after every wake-up, spurious ones included.
Encode touches only the connection the worker has just taken and belongs to
the same step. Which io thread gets a connection is the kernel's choice
(SO_REUSEPORT): `io` is arbitrary and does not change. `directSend` is either.
The loop of the worker that writes until FinishWrite tries again at once on
EAGAIN, which changes nothing and is no step.

### Reactor and MainSub

`Reactor` is the loop of one thread over the connections of `EpollConn`; its
actions are the system calls, with what the thread does up to the next one.
`program` chooses what runs: `singleIo` and `multiIo` (one process, one read or
write for an event or as many as there are), `et` (edge-triggered),
`threadpool`, and with main reactors `ms` and `msRead` (mainMonitorRead).
`Reported` is where they differ for epoll: level-triggered conditions are
reported while they hold, edge-triggered ones only when the connection is in
`edge`, the kernel's list of what has happened since the last report. Data, an
end of stream, a reset, room to write again, and epoll_ctl on a connection that
is ready put it there (`Armed`).

`home[k]` are the threads in whose epoll a connection is; ADD and DEL change
it. `MainSub` adds the condition variable with its lost, spurious and shared
wake-ups (`waitSubReactor`, `CountReady`, `notify_all`), and moves a connection
in two steps, `ClearEvent` and `HandOver`, between which clients and sub
reactors act. The Conn the sub reactor makes and the one main deletes are the
same descriptor and have no state at that point, so they are not told apart.
CreateListenSocket and epoll_create may fail in the programs of threads: the
thread ends, and a socket it has opened stays open and keeps its share of the
connections.

### Blocking and Benchmark

`table[p]` is the descriptor table of process p; accept takes the lowest free
number, fork copies the table, exit empties it, close of a free number does
nothing, and a connection is closed when no table has it. A task (`pc`,
`clientFd`) only knows numbers, as the code does: what it reads, writes or
closes is what the number stands for at that moment. `program` names the
server: `singleprocess`, `multiprocess`, `multithread`, `processpool1` and
`processpool2`, `threadpool`, `leaderandfollower`, `epoll`, `poll`, `select`.
They differ in who accepts (`Backlog`, `Mutex`), in which process a task runs
(`ProcOf`), and in what follows the handler (`Served`): nothing more, exit,
the event loop's erase and close, or a second close.

A read or write moves a piece and blocks when there is none or no room (`buf`);
the sockets of `src/epoll` give up after half a second (`TimedOut`), which
SetTimeOut's call makes possible at any moment of a blocking call.
RecvMsg failing on a connection makes the handler return without close, as in
the code; event loops close in main, processes exit or close again, threads do
neither.

The benchmark connects `concurrency` times, sends all, receives all, in this
order (`phase`, `i`), and closes with a reset (SO_LINGER). `Others` are clients
that do what they like: stop anywhere, shut down after the request, reset.

## 3. Runs

| Run | Instance | Shows |
|---|---|---|
| `coroutine_batch` | 4 coroutines, 2 batches, one priority, `Usage = {}` | `NoFault`, `FinishListExact`, `BarrierHolds`, `ImplementsForkJoin`; no deadlock |
| `coroutine_any_usage` | 3 coroutines, 2 batches, all ten habits, percentile 1 | `TypeOK`, `ActivityCountOK`, `RunningIdLive`, `LiveStacks` and `NoOverrunStackPooled` hold whatever callers do |
| `coroutine_memory` | 3 coroutines, a ring of 3 values, doubles of 7 bits | `PercentileOfWindow`, `ReleaseKeepsP99` |
| `coroutine_priority` | 2 coroutines, 2 priorities | violation of `BarrierHolds`: see findings |
| `coroutine_locals` | 2 coroutines, 1 key | violation of `BatchSharesLocals`: see findings |
| `codec` | heads of 4 bytes, bodies of 0, 1, 2 and 5, reads of up to 6 | `TypeOK`, `MessageExact`, `WaitsForFrameOnly`, `Aligned`, `FrameAnswered`, `CloseNoticed` |
| `codec_pipelined` | the same, and one byte after the frame | violation of `DecodeReturns`: see findings |
| `coroutine_server` | 2 connections, 2 slots, requests and responses of 2 pieces | `ServerTypeOK`, `CidBinding`, `EventsLive`, `WaitsForItsEvent`, `ReplyUnlessGone` |
| `coroutine_server_full` | 3 connections, 1 slot | `Served` |
| `hsha` | 2 io threads, 2 workers, 2 connections, requests and responses of 2 pieces, with and without directSend | `TypeOK`, `OneOwner`, `NoDeletedConn`, `NoLostWakeup`, `ReplyToOpenClient`, `Served` |
| `reactors` | six set-ups; 2 reactors, 2 main reactors, 2 connections, requests and responses of 2 pieces | `TypeOK`, `OneHome`, `NoMissedEdge`, `ReplyUnlessDropped`, `Balanced`, `BarrierOpens`, `Served` |
| `blocking` | ten servers; 2 workers, 2 connections of the benchmark and one other, messages of 2 pieces, buffers of 1 and 2 | `TypeOK`, `OwnDescriptor`, `NoDescriptorLost`, `BenchmarkEnds` |

Bounds, and why they are enough:

* Four slots and two batches give two waiting coroutines with a member each, or
  one with three members, so the finish list can hold two entries and a slot is
  reused inside the life of a batch. MAX_BATCH_RUN_SIZE is 51200 in the code
  and no action depends on its value.
* `ListBound = 1` (`ShortList`) bounds the states from which TLC goes on in
  `coroutine_any_usage`: a coroutine resumed by id while it is on the finish
  list leaves its entry there, and a caller can repeat this without end. The
  theorems of `CoroutineProof` have no such bound. `StacksOrBatches` lets what
  callers do to stacks (an overrun, a check switched off, ScheduleClean) happen
  only while no batch is open; the theorems have both together.
* MAX_RELEASE is 25 in the code; 1 makes its limit reachable with two slots.
* `codec`: body lengths below, at and above what one read returns, the empty
  body included; `Capacity` is above the longest read.
* `SendBuf = 1` makes every write after the first meet EAGAIN unless the client
  takes the response. One slot for three connections makes the pool full.
* `hsha`: two connections and two workers let a notification meet a queue of
  two, none or one that is already being taken, and two io threads push at the
  same time; `HshaProof` removes the bounds from the safety properties.
* `coroutine_memory`: in the code the ring has 1024 values, doubles 53 bits and
  the percentile is 99/100. Here it is 2/3 of 3 values with doubles of 7 bits
  (`Significand = 128`): the ring wraps, three coroutines give 0 to 3 live ones,
  the rank 4/3 is computed a little too low, and the percentile of 0, 0 and 3,
  which is 1, is cut off to 0. 99/100 with at most 3 coroutines would never give a
  whole number between two values, the only case in which rounding shows.
  `NoBatch` leaves batches to the other runs, and `PctValues` is empty because
  `MemoryNext` takes the percentile from the ring.
* `reactors`: `NProcs = 2` and `mainReactorCnt = 2` (3 in the code) let a
  notification meet two waiting main reactors, let a connection go to a sub
  reactor other than the first, and let each main reactor keep its own turn.
  `MaxFailures = 1` thread fails to start, `MaxEarly = 1` connection begins while
  threads start, `MaxLeaving = 1` client leaves before the end; each bound is on
  the environment only. `Init` lets the kernel's first choice of a socket be a
  fixed one (`AnyConn`, `AnyAcceptor`): threads of a kind are interchangeable,
  so the other choices are renamings.
* `blocking`: `MaxFd = 2` is less than the three connections, so descriptors run
  out and numbers are reused; a message of two pieces fits a buffer of 2 and
  does not fit one of 1; at most `MaxRefused = 1` connect fails; two workers and
  a stalling client leave one worker or, with sockets of their own, sometimes
  none. One connection's socket is fixed as above.
* Connections are opened once and epoll rounds report every ready connection,
  which 2048 events in the code always allow here.
* No symmetry sets: the first free slot is chosen by its number.

Deadlock is checked where the system runs on (`coroutine_batch`); elsewhere
callers that broke a rule end in a failed assertion, or the clients have done
all they can.

### Fairness

* `Codec`: weak fairness of Decode, GetMessage, of reading bytes that are there
  and of the end of file, because RecvMsg is a loop of one thread and read
  returns when there is something. Nothing is assumed of the peer, nor of
  failing reads.
* `CoroutineServer`: weak fairness of `Server`, the process; within it no
  choice is assumed fair. For `Served`, a client that is there goes on sending
  its request and taking the response. The server has no timeout: a client
  that stops in the middle of a request keeps its slot, so without this
  assumption `Served` fails by design of the code. ShutDown and Reset may or
  may not happen.
* `Hsha`: weak fairness of each thread, which is a loop the operating system
  schedules, and `Continue` for the clients as above. Which waiting worker a
  notification wakes, and the order of events in a round, are not assumed fair.
  A critical section is one step, so weak fairness of a worker includes that it
  gets `Mutex`; it holds it only to look at the queue. With directSend a
  client that stops reading keeps a worker busy for ever; `Continue` excludes
  it, otherwise `Served` fails by design of the code.
* `MainSub`: weak fairness of each thread, and `Continue` for the clients as
  above. Which thread gets a connection, the order of events and spurious
  wake-ups are not assumed fair. A monitor's critical section is one step.
* `Benchmark`: weak fairness of each task of the server and of the benchmark's
  thread: a call of read, write or accept that can go on does. Nothing is
  assumed of the other clients; what they can do to `BenchmarkEnds` is spelled
  out in `Stuck`. A mutex of the leader is held across accept, so a follower gets
  it only when the leader has a connection; which follower is not assumed fair.
* Safety runs need none.

### Findings

1. `CoroutineResume` ignores the barrier of a coroutine whose priority is
   smaller (more urgent) than that of the first runnable coroutine without one:
   the last branch of its loop (coroutine.cpp:137-142) takes both "neither has a
   barrier" and "the candidate has none, this one has". The waiting coroutine
   leaves BatchRun while members have not run. With equal priorities the
   branch is never taken for it, which is why `coroutine_batch` has one
   priority.
2. `CoroutineInit` does not clear the local variables of the slot
   (coroutine.cpp:44-53), so a member of a batch can find a value of a coroutine
   that is long gone where it should find that of the batch's owner. They are
   also not freed until the stack is released.
3. `Decode` does not return when it is given bytes behind the end of a frame
   (codec.hpp:53-66): in status FINISH the loop neither consumes nor ends.

What the passing runs have to except, because the code does it:

* A reactor that reads to EAGAIN drops the request of a client that shuts down
  right behind it (conn.hpp:13-16); the one that reads once answers it
  (`ReplyUnlessDropped`).
* A reactor thread whose epoll_create fails leaves its listening socket open:
  connections the kernel puts there are never accepted (`Served`). A sub
  reactor without an epoll keeps every main reactor at the barrier
  (`BarrierOpens`).
* Threads leave a descriptor open when RecvMsg fails (threadpool.cpp:12 and its
  like in multithread and leaderandfollower), and the parent of multiprocess
  when fork fails (`LeftOpen` in `NoDescriptorLost`).
* The benchmark can wait for ever: for a server whose descriptors are used up;
  for a worker a stalled client keeps, even beside idle workers where each has a
  socket of its own; and on itself, when its messages do not fit the buffers and
  the server takes fewer connections at once than it has opened (`Stuck` in
  `BenchmarkEnds`). The timeout of src/epoll rules the last two out, not the
  first: it starts with a read, and a client that sends nothing is never read.

One more follows from `CloseNoticed`, whose second disjunct is the exception:
after a read that was interrupted, the end of the stream sends RecvMsg into an
endless loop, because it looks at errno when read has returned 0
(common.hpp:33-34).

## 4. Proofs

`CoroutineProof` (any sizes of the pools, any priorities, keys and percentile
values, any `Usage`):

* `IInv == TypeOK /\ RunningOK /\ BatchOwned` is inductive. `TypeOK` alone is
  not: that CoroutineRun appends a slot to the finish list needs `BatchOwned`
  (an open batch has an owner), and that a member visited by a resume function
  names a batch needs its second half; that the running coroutine is not idle
  is `RunningOK`. There is a lemma per operation (`CreateInv`, `RunInv`, ...)
  and one per shared part (`SwitchInv`, `VisitInv`); `StepInv` has a step per
  action.
* `TypeCorrect` and `RunningIdNeverStale` follow from it directly.
* `ActivityCount` classifies steps (`LiveStep`): the set of live coroutines and
  `activityCnt` stay, gain one, or lose one; the cardinality facts of
  `FiniteSetTheorems` do the rest.
* `StacksStayLive` and `OverrunNeverPooled` classify what a step does to stacks
  (`StackStep`), with the invariant that says which slots are idle.

`CoroutineBatchProof` (any sizes of the pools; `RulesKept`: `Usage = {}` and
equal priorities, whatever their value). None of the three properties is
inductive, and each needs the others: that an asserted resume succeeds needs
the finish list to be right, that the list is right needs the barriers to be
kept, and a barrier is kept because no resume goes past it. `BInv` conjoins
`IInv` with

* `RunOK`: only the coroutine in control is in state Run;
* `BarrierOK`, `OwnerOK`: a coroutine in BatchRun is suspended, its batch is in
  state Run and is the one it relates to; a coroutine with a barrier either
  waits for its batch or is still filling it;
* `BatchOK`, `MemberOK`: an idle batch is empty, an open one has its owner, and
  its unfinished members are exactly the live coroutines that relate to it;
* `TodoOK`: what CoroutineResumeInBatch has still to visit can be resumed;
* `ListOK`: the finish list holds the coroutines whose batch is done, each once;
* `SlotOK`: no stack is damaged, priorities are those of the callers.

There is a lemma per operation (`AddBatch`, `RunBatch`, `WaitBatch`, ...) and two
for resuming: `SwitchSlave`, where the coroutine has no barrier, and
`SwitchOwner`, where it leaves BatchRun. `AssertionsHold` and `WakeUpsExact`
follow from `BInv`; `BarrierKept` from `BarrierLeft`: the step that lifts a
barrier is a resume that has asked `isBatchDone`. Equal priorities are used in
one place, `PickedSlave`: CoroutineResume then selects a coroutine without a
barrier. `coroutine_priority` shows that it fails otherwise, and
`coroutine_any_usage` reaches the failed assertions when rules are broken.

The second half of the module proves the refinement (same assumptions,
`KeepsForkJoin`): `BInv` makes the children of the refinement
mapping the `unfinished` set of the opened batch (`ChildrenAre`), and then each
action is one of `ForkJoin` or none: create is Start, add is Fork, BatchRun is
Wait, leaving BatchRun is Join, the end of an entry function is Return. Opening
a batch and resuming any other coroutine leave the abstract state alone.

`MemoryProof` (any sizes of the pools and of the ring, any `Usage`) is about
data as much as about steps. An induction over a length is done as its least
counterexample (`LeastNat`, from `WFMin`, which takes a set where the induction
theorems take an operator):

* `AllSortable`: values of any number have an ascending order. A least number
  that has none contradicts `Insertion`, which puts one value more behind the
  last that is not greater. So `Sorted` is ascending and a rearrangement
  (`SortedIs`).
* `RankCount`: in ascending values, the one of rank r is the only one that at
  most r values are below and more than r not above. Counts do not depend on
  the order (`SameCount`), so `OfRank` finds in values of any order what sorting
  puts there (`RankOf`).
* `RingHolds`, the invariant of the ring: the i-th of the last values is in
  place `index + i`, wrapped once. `StatKeeps` shows that Stat keeps it, both
  while the ring fills and when it overwrites the oldest value; `SlotsAreOrder`
  that the places of a full ring are all of its places once.
* Doubles: `RoundIs` bounds one rounding by half a spacing, which by minimality
  of `Spacing` is less than a `Significand`-th of the number; `RankIs` follows the
  literal and the product to the rank, which is at most 2n / `Significand` off for
  n + 1 values and never behind the last one; `SumIs` follows the two weighted
  values and their sum.
* `Close`: an interpolation whose values rise by C at most from one rank to the
  next changes by C times the change of the rank, also across a whole rank, where
  the code takes other neighbours than are meant.
* `PercentileIs` combines them: what the code computes is less than 1 / `PctDen`
  from what is meant, a multiple of 1 / `PctDen`, so that cutting off finds its
  whole part, or one less where it is whole (`CutIs`). That the values are at most
  `coroutineCnt` is `Bounded`, which `ActivityCountOK` gives.

`MInv` adds `RingHolds` and `Bounded` to the scheduler's invariants. `ReleaseKeepsEnough` needs
`LiveStacks` and `ActivityCountOK`: if any stack is released, the idle stacks
before the first such slot are as many as the percentile still grants
(`IdleRank`), and together with the live ones, which are disjoint from them and
counted by `activityCnt`, they reach the percentile. That no more than
`MAX_RELEASE` go is an injection of the released slots into so many numbers.

`CodecProof` (any head and body lengths, read size and capacity, with or
without bytes after the frame): `IInv == TypeOK /\ Decoded`, where `Decoded`
gives for each decoder status the exact range that has been consumed, at every
statement. `TypeCorrect`, `MessageIsBody`, `NeverWaitsInVain` and
`DecodeAligned` follow.

`ServerProof` (any connections, slots, sizes of request, response and socket
buffer). `UsesScheduler`: a step of the server is a step of `Coroutine` or leaves
its variables alone, so the theorems of `CoroutineProof` hold of the server.
`SInv` adds to `CidBinding` and `EventsLive`

* `Plain`: the server opens no batch, so a coroutine's state alone decides
  whether it can be resumed; `NeverAborts` follows;
* `OneRuns`: at most one coroutine is in state Run, the one in control;
* `ConnOK`: how far the request and the response are, for each state of a
  connection, and which interest epoll has (`Unserved`, `InService`, `GivenUp`);
* `MainOK`: while a handler runs main is in the middle of a round, and the
  connection of that handler, or the one main has just created a coroutine for,
  is not among the events still to come. Without it a handler that closes its
  connection could leave an event of it behind.

There is a lemma for what each scheduler call does to `Plain` and to the state
of the coroutine (`PlainCreate`, `PlainResume`, `PlainYield`, `PlainRun`,
`PlainRelease`), and a lemma per action of the handler and of main.

`HshaProof` (any finite numbers of threads, any connections and sizes, with and
without directSend). `OneOwner` is not inductive: that the queue has a
connection once depends on the io thread not seeing an event of it, hence on
the interest in epoll. `HInv == TypeOK /\ Own /\ DataOK` has

* `CurOK`: the steps of a thread at which it has a connection;
* `ArmOK`: exactly the open connections are in epoll, none of them with a
  level-triggered interest in reading;
* `IoUseOK`, `QueueOK`, `WorkerOK`: who has a connection, and with which
  interest it is registered meanwhile ("out" while an io thread writes, else
  "off");
* `Apart`: the three kinds of owners share nothing; `NotLost`: a connection that
  is off in epoll has one of them;
* `DataOK`: what is sent has been encoded, and what is deleted was sent or given
  up by its client.

There is a lemma per way a connection changes hands (`AcceptOwn`, `EpollWaitOwn`,
`NextEventOwn`, `PushOwn`, `PopOwn`, `IoLetsGo`, `WorkerLetsGo`) and per way the
response changes (`WriteData`, `ReleaseData`). `OneOwnerOnly`, `DeletedUnused`
and `OpenClientReplied` follow from `HInv`. `WakeupsKept` is inductive on top
of it: every step moves at most one worker and one notification, and the
lemmas `OneMore` and `OneLess` count them.

`MainSubProof` (all six programs; any numbers of reactors, main reactors and
connections; any sizes; any bounds on what the environment does).
`MInv == TypeOK /\ BarrierOK /\ Own /\ DataOK /\ Dealing /\ NoMissedEdge`:

* `BarrierOK`: `EpollInitCnt` is the number of reactors that have an epoll and
  have counted it, hence a main reactor behind the barrier finds them all; a
  connection is only handed to a thread that runs.
* `Own`: `Placed` says for each state of a connection where it is: in the epoll
  of one running thread and armed, or in no epoll, with interest none, in the
  hands of one main reactor between `ClearEvent` and `HandOver`. `Uses` says that
  a thread has events of its own connections only, for what they are armed for,
  and the connection it handles is not among them. `OneHome` follows.
* `DataOK`: what is sent is encoded, a complete request does not wait to be
  read again, and a closed connection was answered or left.
* `Dealing`: a main reactor has dealt q full rounds, and one connection more to
  the reactors 1 to `index`; `Balanced` follows. It needs `Own`: HandOver adds a
  connection that had no home.
* `NoMissedEdge` itself is inductive once `Own` and `DataOK` say which thread a
  connection is with: a handler goes on to EAGAIN, and epoll_ctl on a connection
  that is ready reports it again.

`BlockingProof` (all ten servers; any connections, workers and descriptors, any
length of messages and sizes of buffers). `OwnDescriptor` speaks of tasks and
`NoDescriptorLost` of tables, and each needs the other: a close is harmless
because the number closed is the task's own, and it is the task's own because
nobody closed it before. `BInv == TypeOK /\ ServerInv /\ BenchOK` has

* `PlaceOK`: which task of which program can be at which place;
* `DescOK`, `Apart`: a task that serves has a descriptor in use, and no other
  task of its process has that number;
* `OneName`, `OnlyAccepted`: a connection has one descriptor in a process, and,
  but for the server that forks, in one process;
* `FreshOK`, `LoopOK`: connections that were not served yet are untouched, the
  set of watched descriptors included;
* `BenchOK`: success and failure count the connections the benchmark has ended;
  `CountedOnce` follows, the safety half of `BenchmarkEnds`.

That accept returns a free number is once more a least element (`Lowest`).

Assumptions: `CoroutineAssumption`, `PercentileAssumption`, `DoubleAssumption`,
`MemoryAssumption`, `CodecAssumption`,
`ServerAssumption`, the two `ConnAssumption`s, `HshaAssumption`,
`ReactorAssumption`, `MainSubAssumption`, `BlockingAssumption` and
`BenchmarkAssumption`: sizes are positive, sets of numbers are such, sets of
threads are finite and not empty, threads of main and sub reactors are numbered
as `EpollFd` is, markers are no connections, workers are no connections, and the
clients beside the benchmark are not the benchmark's connections. `Spacings` are
powers of two up to `Significand`, and 2 * `PctDen` * coroutineCnt * (ring + 1) is
less than `Significand`: in the code, with 10000 coroutines (a server's
ScheduleInit) and a ring of 1024, 2.05e9 against 2^53. TLC evaluates the assumptions
in the runs.

Every safety property of a passing run, invariants and action properties, is
proved, and so is the refinement. Only model-checked are the liveness
properties: `Served` (of three servers), `FrameAnswered`, `CloseNoticed`,
`BarrierOpens` and that the benchmark ends (`BenchmarkEnds`). TLAPS does not
handle liveness under fairness or ENABLED.

## 5. Not modelled

* Failures of socket, bind, listen, epoll_create and epoll_ctl outside
  `Reactor` (each ends the program or fails an assert); of fork when a pool starts,
  after which the pool is smaller; and of std::thread, which throws and ends the
  process.
* SIGPIPE, which a write after the other side's reset raises in a program that
  does not ignore it, servers and benchmark alike; a descriptor beyond FD_SETSIZE (select.cpp:20); a number of
  processors that changes while the program runs: `GetNProcs` is asked again for
  each connection in `addToSubReactor` and in the barrier, while `EpollFd` has
  the length it had at the start.
* EINTR outside RecvMsg, and the limit on the connections one LoopAccept takes:
  what is left stays in the backlog and is reported again.
* In the benchmark: rounds, times, and the sums over its ten threads.
* Message contents, logging and argument parsing.

## 6. Plan

1. Done: scheduler with its percentile, its abstract specification, codec,
   coroutine servers, every reactor, every blocking server, the benchmark, and
   the theorems above.
2. Done: the safety properties of the runs as theorems.
3. Left: an abstract specification of what every server promises to a client
   (answered whole, or the client has gone), which the event-driven servers
   share and each of them refines; so far each has its own statement of it
   (`ReplyUnlessGone`, `ReplyToOpenClient`, `ReplyUnlessDropped`).
