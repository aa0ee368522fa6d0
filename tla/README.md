# Verification of hiaux

hiaux is a C++ library for network services: threads, a task launcher, event
watchers, an HTTP server with a binary API mode, the clients for it, and tools.
This directory holds TLA+ models of it, checked with TLC, and theorems proved
with TLAPS. `PROJECT.json` lists the runs, the source lines of every definition,
the hazards and the findings.

## Inventory

| Component | State | Operations | Hard behaviour |
|---|---|---|---|
| threads: `hThreadPool`, `hThread` | global queue, a queue per thread, `waiting_threads`, `m_running`, `m_nrunning_threads` | `run`, `addTask`, `kill`, `join`, destructor, the loop of a thread | sleep/wakeup races, hand-off of tasks, shutdown |
| threads: locks (`hCondWaiter`, `hLock`, `hAutoLock`, `hRWLock`) | mutexes, a condition | `wait`, `kick`, `lock`, tickets | lost signals, the condition destroyed in `wait` |
| threads: `TaskLauncher` | queue, two atomic counters, flags | `addTask`, `Task`, `checkLaunch`, `checkFinished`, setters | check-then-act on atomics, completion callback |
| events: epoll and kqueue watchers | sockets and the events they wait for | `addSocket`, `enableEvents`, `delSocket`, `handleEvents` | edge-triggered readiness, stale events |
| thirdparty: `http_parser` | state, marks, lengths | `http_parser_execute` | input cut anywhere, overflow of lengths |
| network/HttpServer | connections, their receive and send queues | accept, recv, send, dispatch, clean-up | handlers on other threads, a lock held across callbacks, partial writes, descriptors used again |
| network/HttpApi: binary protocol | framed messages in both directions | the two parsers, `BinClientA`, its connections | chunked input, reconnection, callbacks under a lock |
| network: `HttpClientAsync`, `HttpOutRequestDisp` | transfers, requesters | `call`, `kick`, completion tasks | answers that outlive their requester, a slot taken for ever, destructor handshake |
| tools: `Daemon` | pid file and its lock, processes, signals | `start`, `stop`, `restart`, watcher, worker | crash and restart, SIGCHLD, pids used again |
| strings, crypt/base64, loadconf, url-parser, utf8cpp | none | functions on texts | boundaries, malformed input |
| tools: `RegularTask`, pg, md5, sha1, logs, fs | little or none | | |

How they interact: everything asynchronous runs on a pool; `TaskLauncher` hands
its tasks to a pool and is called back by them; `HttpOutRequestDisp` and
`HttpClientAsync` use a launcher each; the HTTP server and the binary client are
driven by an event watcher that calls back into them; a connection of the server
feeds `http_parser` until it is upgraded, and the binary parser from then on.

What makes each correct:

- pool: a task is run exactly once, a sleeping thread with work is woken, the
  destructor ends and frees nothing that is in use;
- launcher: no task lost, about `max_parallel` in flight, `onFinished` once;
- watcher: a socket with something to do is reported;
- HTTP parser: what it reports does not depend on how the stream is cut;
- HTTP server: one response per request, in order and to the client that asked;
  no connection used after it was erased, no lock taken twice;
- binary protocol: messages survive any cutting of the stream, an answer reaches
  the call it belongs to, every call is reported exactly once;
- HTTP clients: an answer reaches the requester of its call, once; every call is
  done; the destructor waits for the loop that uses the client;
- daemon: one worker at a time, restarted when it fails; `stop` and `restart`
  reach the daemon and nothing else;
- texts: each function agrees with a definition of what it is for, and the inputs
  for which it does not, or is undefined, are known.

## Modules

| Module | Models | State and actions |
|---|---|---|
| `TaskPool` | what a pool promises: an accepted task is started at most once, on a thread that runs nothing else | `Submit`, `Start`, `Finish` |
| `ThreadPool` | `threads/threadpool.cpp`, `hCondWaiter` of `locks.cpp` | threads, executions of `addTask` (any number at once, from any thread) and the owner that calls `run`, `kill`, `join` and the destructor |
| `TaskLauncher` | `threads/tasklauncher.cpp` over a pool as `TaskPool` describes it | one action per access of an atomic counter, of the queue or of `finish_lock` |
| `BinFrames` | frames and the two incremental parsers of the binary API | operators: `Parse`, `Fetch`, `Receive` |
| `BinLink` | `BinClientA` with one connection, the streams of its socket, the server's side of that connection | the handlers of both ends: `OnRead`, `OnWrite`, `PutRequestsToFreeConnections`, `CheckKeepAlive`, `SrvOnRead`, `SrvHandleResponses`, `SrvOnWrite`, the loss of a connection |
| `HttpParser` | `http_parser_execute` for requests, strict mode | one operator per group of states; a call takes the bytes one by one (`Begin`, `TakeByte`, `End`) |
| `HttpReceive` | `HttpConnection` as a receiver, its parser callbacks, `performRecv` | the next receive takes any number of bytes of the stream |
| `HttpServer` | `HttpServer`, `HttpConnection` as a sender, what `HttpRouter` and `HttpApi` answer, the epoll watcher | clients that connect, ask, read, hang up; the event loop, its two response queues and its lock; the threads of asynchronous methods |
| `OutRequests` | `HttpOutRequestDisp` with its requesters over `HttpClientAsync` over libcurl | the dispatcher's tasks, the kick loop, transfers, those of others who may call for ever, the destructor |
| `Daemon` | `tools/Daemon.cpp` | processes by pid, the pid file and its lock, the commands with the steps of `doStop` and `checkLockFile`, signals, time in seconds |
| `Utf8`, `StringUtils`, `UrlParser`, `AhoCorasick`, `Base64` | functions on texts | operators |
| `Texts` | grows texts of each kind part by part and compares the functions with reference definitions | `Grow` |
| `MC...` | give the constants values for TLC | |
| `QueueLemmas` | lemmas about sequences as queues (what `Append`, `Head`, `Tail` and concatenation do to the elements), induction and recursion over numbers in the form of statements about sets | |
| `ThreadPoolProofs` | theorems about `ThreadPool`, the refinement of `TaskPool` among them | |
| `TaskLauncherProofs`, `BinLinkProofs`, `DaemonProofs`, `OutRequestsProofs`, `HttpReceiveProofs`, `HttpServerProofs` | theorems about the module of the name | |

Conventions. Definitions have the names of the methods and members they stand
for; `PROJECT.json` "map" gives the lines. In `ThreadPool` a critical section of
a queue is one step; the mutex of a thread's condition is explicit, because
`wait` and `addTask` hold it across several steps and `kill` does not take it. In
`BinLink` and `HttpServer` a handler is one step, since each end handles its events in one
thread. Bytes of the binary protocol are numbers, so that messages can
hold the bytes that frame them, and lengths are written in a base that is a
parameter, so that short messages have lengths of several digits. The words
`http_parser` knows are parameters, with one or two letters in the instances.
Undefined behaviour is a state or value of its own (`Undefined`, loop
`"undefined"`, a client `"UNDEFINED"` or `"CORRUPT"`) after which the model says nothing
more; properties bound when it is reached. Operators with
a suffix (`Pick_NoPop`) are wrong variants of the definition they precede; they
show that a property notices the mistake.

Assumed of the environment: nobody calls into a pool whose destructor has begun;
`addTask` of a launcher is not called after `setNoMoreTasks`; in `BinLink` a handler
answers every request at once, as `HttpApi::handleRequest` does for a
synchronous method it knows (`HttpServer` has the other kinds); tasks of
`HttpOutRequestDisp` that are left when it is destroyed do nothing; in `Daemon` the
calls `ftruncate`, `write` and `system` do not fail.

## Runs

| Run | Shows |
|---|---|
| `pool_safety` | a thread is handed to one `addTask` at a time, the wakeups of `addTask` arrive, its kicks find a condition, and whenever the destructor is called no thread that has counted itself is inside `run()` when its object is deleted |
| `pool_work` | the pool implements `TaskPool`, so no task is run twice; until it is destroyed a task in a thread's own queue is run, and so is one in the global queue if some thread has yet to look there; the destructor ends unless the kick of a kill task was lost |
| `pool_stranded` | finding: a task can stay in the global queue while every thread sleeps |
| `launcher` | no task lost or doubled through a relaunch; the tasks in flight exceed `max_parallel` by at most one per other actor while that changes; if `setNoMoreTasks` came in time `onFinished` is called, once, and every task is run |
| `link_safety` | what is under way in both directions is one answer per unanswered request, in order, however the streams are cut and wherever keepalives fall; no length is read that is none; also with a break and with messages beyond the limits a call finishes at most once, with its own answer if any, and is never forgotten |
| `link_liveness` | every call finishes, across breaks, unless the connection has gone deaf, is stranded or the client is corrupt (below) |
| `http_parse` | thirty-three streams cut in every way: until a request asks for an upgrade the parser ends in the same state and reports the same, its assertions hold, no length overflows, and requests that arrive whole and alone are understood, up to a NUL in a value or a body |
| `http_split` | finding: a request that arrives in two receives, or two in one, are pushed as requests nobody sent |
| `http_server` | answers reach their own client, in order, although descriptors are used again; table, epoll and objects agree; the loop locks itself out only after a pipelined request and is undefined only with a dead connection or a client that asked to close too early; every other request is answered |
| `texts` | every function against its reference on all texts of the bounds, one property per area: UTF-8, words, queries, names and URLs, codes |
| `daemon` | one worker, a `stop` that kills only the daemon if it has read its pid and that still runs, a `restart` that finds the lock free, a worker that is started again, each but for the exceptions below |
| `out_requests` | an answer reaches the requester of its call, once, or is dropped after that has finished; with more than one slot every call is done unless other calls overlap it for ever; the destructor returns, after the kick loop, unless calls have no end |

What the exceptions in these properties say about the code:

- `DeletedOutsideRun` leaves out a thread that has not counted itself yet: a pool
  destroyed right after `run()` reads `m_nrunning_threads` before (`threadpool.cpp:205`)
  and deletes the object under the thread when it comes to run.
- `DtorEndsUnlessKillLost`: `kill` signals without the condition's mutex
  (`threadpool.cpp:188`); a signal between a thread's test and its wait is lost, and the
  destructor loops.
- `OnFinishedFires` does not say that all tasks are over when `onFinished` is called:
  a task is popped before it is counted (`tasklauncher.cpp:50`, 37).
- `Deaf`, in `EveryCallFinishes`: when a response does not fit the socket,
  `enableEvents` (`EventWatcherEpoll.cpp:62`) tells epoll only the events that were not
  enabled yet, so the server stops to read, and after a second time to send.
- `Stranded`: `onWrite` (`BinClientA.cpp:111`) makes a connection free only if it finds
  the send buffer empty; a keepalive that waited there leaves it idle and not free.
- `Corrupt`: when the send of a new request loses the connection, `removeConnection`
  takes it out of `m_free_connections` (`BinClientA.cpp:251-253`), and
  `putRequestsToFreeConnections` then erases the same iterator again (221). What the client
  does after that is undefined and nothing is said of it.
- `CutsDoNotMatter` ends with a request to upgrade: `http_parser_execute` returns behind it,
  and `performRecv` drops the bytes that came with it, while it parses those that come later.
- `LengthIsKept`: of a folded `Content-Length` one line alone counts, which need not be the
  last, and of two such headers the last (`http_parser.cpp:1449`).
- `clean`, in `PlainRequestsArrive`: the parser's callbacks overwrite the piece before.
  `AsStrings`: they make a `std::string` of a `char *` (`ConnectionParsing.impl:92`, 127),
  so that a value or a body ends at its first NUL.
- In a binary connection of `HttpServer` a message that is none has the parser throw, and
  the connection is killed. The request right before it is lost, since `getRequest` parses
  on before it returns (`BinServer/Parser.cpp:87`); earlier ones of the same receive are
  pushed and end with the connection. `EveryRequestAnswered` leaves out such a client.
- `LoopGoesOn`: `handleEvents` holds `m_sendq_mtx` while `handleResponse` starts
  the next request, whose handler locks it again (`HttpServer.impl:294`); and a dead
  connection has `erase` given an iterator that is `end()` or is used afterwards (240, 279).
  A connection is dead as well when its client asked to close before it had the answers to
  what it asked for before: the connection ends after the answer that is being sent.
- `OneWorker`: the lock is the watcher's alone; a worker outlives a killed watcher.
- `RestartFindsTheLockFree`: `restart` waits two seconds, a watcher may sleep three, and
  another command may take the lock meanwhile; the property is about a restart that found
  its watcher waiting for its child, with no other command under way.
- `StopFindsItsDaemon`: `doStop` reads the pid file (`Daemon.cpp:268`) and signals later
  (273), and a starting daemon has the lock (81) before its pid is in the file (97). A stop may
  so kill a stranger although a daemon holds the lock. The property is about the stops in
  `sighted`, those that have read the pid of a daemon that was up and still is. A daemon
  told to stop before it blocks the signals (114) dies of it.
- `ServiceComesBack`: after a failed fork the watcher loops without a worker.
- `EveryCallIsDone` needs `max_parallel > 1`, since `kickTask` has a slot for itself, and
  excuses calls of others that are made without end while some are under way: `kick()` hands
  results on only when no transfer is running (`HttpClientAsync.cpp:187`), so that calls that
  overlap can hold back for ever one that has long ended. `DtorReturns` has the same excuse,
  since `kick()` does not return meanwhile. The calls of others (`ForeignCall`) have no bound.
- `Others`, in `OutRequests`: the launcher tests the count and takes a task in two steps, so
  that other threads may go beyond `max_parallel` by one each (`BoundedOvershoot`). Progress
  is assumed only below `max_parallel`.
- `DtorOutlivesKicking` allows the last signal of `kickTask` to come too late.
- `texts`: `replaceString` never ends if the new text holds the old; `parseGET` unescapes
  twice; `removeRedundantDelimeters` joins words or runs past the end after an even run;
  `removeEndingSpaces` takes the last letter with the spaces; a text that ends inside a UTF-8
  sequence is not repaired; a configuration without a last newline loses its last character.
  The comments of `Texts` have the others.

So several properties draw a line around a defect instead of excluding it; in
`PROJECT.json` the note of the hazard says so.

Bounds. Two threads and two calls of `addTask` are what the races of the pool need: one
thread between its test and its sleep, one that is busy, two callers that look for a thread
at once. `kill`, `join`, the destructor and one spurious wakeup are all in. The launcher has
three tasks, two threads, a client and a task that is relaunched once: enough for a task
that is queued, one that is popped and one that ends. The link has four requests (a message
being parsed, one behind it in the token, one still to be sent, and one the server finds too
long) with dumps and answers made of the framing bytes, an empty answer and one the client
finds too long, streams shorter than a frame, a keepalive and a break; its liveness run has
two requests. The streams of `http_parse` reach every state of the parser and every error; a
length may have two digits and 63 is the largest. The server has two clients and two
descriptors, so that one is used again, scripts with every pair of kinds that could disturb
each other, and two faults. The daemon has five pids, for two services side by side, three
commands and two faults. `out_requests` has two requesters, one with two calls, two slots
and one thread that may go beyond them, so that two answers of one requester are handled
beside `kickTask`. Texts have up to four to seven parts out of the bytes at the edges of
each function's cases. Counters that only bound a run (`MaxBreaks`, `MaxKeepAlives`,
`MaxRelaunch`, `MaxFaults`, `MaxCommands`, `MaxCalls`, spurious wakeups) are named
constants.

Fairness. Weak fairness of every step of a thread: the operating system runs runnable
threads and a task returns. None for what the application, a client or a user may leave
undone (`addTask`, `kill`, `join`, destroying, `call`, asking, commands), nor for spurious
wakeups, faults and keepalives. Strong fairness of the mutexes, which pthreads does not
promise, is not assumed. For `launcher` and `out_requests` (`OnFinishedFires`,
`EveryCallIsDone`, `DtorReturns`) the pool is assumed to start what it was given, which
`pool_stranded` shows the real pool may fail to do. For the link and the server both ends
call `handleEvents` in a loop and the network delivers. In `out_requests` transfers end,
since they have a timeout, and `select` does not fail for ever (strong fairness of the step
in which it succeeds). Nothing is assumed of when transfers end and begin between two such
steps: that would let `kick()` always find the handle idle.

## Theorems

Each theorem holds for every value of the constants that satisfies the `ASSUME` of
the module that declares them. A property of a run that a theorem states is named in
parentheses. None of the properties is inductive; each module has an inductive
invariant, its parts kept beside the properties in the component's own module (but for
`LinkInv`, see below), and the proofs have one lemma per action, or per action and part.

| Module | Theorems |
|---|---|
| `ThreadPoolProofs` | `TypeCorrect`, `WakeupsArrive` (`NoLostWakeup`), `HandOffIsExclusive` (`ExclusiveHandOff`), `KickIsDefined` (`KickFindsCondition`), `ShutDownIsSafe` (`DeletedOutsideRun`), `PoolRefines` (`ImplementsTaskPool`) |
| `TaskLauncherProofs` | `TypeCorrect`, `NoTaskDoubledOrDropped` (`TaskInOnePlace`), `OnFinishedAtMostOnce` (`OnFinishedOnce`), `LimitHoldsUpToTheActors` (`BoundedOvershoot`) |
| `OutRequestsProofs` | `TypeCorrect`, `AnswersComeHome` (`OwnAnswerOnce`), `NoCallLostOrDoubled` (`CallInOnePlace`), `DtorIsLast` (`DtorOutlivesKicking`) |
| `DaemonProofs` | `TypeCorrect`, `OneWorkerServes` (`OneWorker`), `StopHitsTheDaemon` (`StopFindsItsDaemon`), `RestartGetsTheLock` (`RestartFindsTheLockFree`) |
| `BinLinkProofs` | `TypeInvariant`, `PlaceInvariant`, `NoCallLostOrDoubled` (`CallInOnePlace`), `DigitsAreRead`, `ReceiveHolds`, `LinkInvariant`, `AlwaysDefined` (`Defined`), `OneAnswerEach` (`AnswersUnderWay`), `OwnAnswers` (`OwnAnswerOnce`) |
| `HttpReceiveProofs` | `NoAssertionFails` (`AssertionsHold`), `CutsNeverMatter` (`CutsDoNotMatter`) |
| `HttpServerProofs` | `TypeCorrect`, `TableAgrees` (`TableIsTrue`), `AnswersReachTheirClient`, `GoesOnInvariant`, `AnswersComeInOrder` (`OwnAnswersInOrder`), `LoopStopsForAReason` (`LoopGoesOn`) |

**Pool.** Any finite set of threads, any sets of callers and tasks. `IndInv` says which
places of a program have a task or a thread in hand (`LocalInv`); who holds the mutex of a
condition, read off the places of the threads and callers (`MutexInv`); that
`m_nrunning_threads` is the number of threads between their first and last step
(`CountInv`); that a thread about to sleep, or asleep, with a task has a kick to come
(`WakeInv`); that a thread in `waiting_threads` or in somebody's hands is waiting with an
empty queue, and is so only once (`HandOffInv`); and which threads exist and have started at
each place of the owner (`OwnerInv`). `ShutDownIsSafe` is for a destructor called at any
time; a thread that has not counted itself is outside what it says. `PoolRefines` maps what
the queues, callers and threads hold to the state of `TaskPool`: with `UniqueInv`, that a
task is in one of these places only, every step is a step of `TaskPool` or changes nothing
it sees.

**Launcher.** Any finite set of actors. `PlaceInv` says of every task that was added where it
is, without counting; `FinishInv` that the test, the flag and the call of `onFinished` are
under `finish_lock`. The limit takes counting: `CountInv` says what the difference of the two
atomic counters counts (tasks in the pool, in the hands of an actor that is about to give
them to it, being run), `RegInv` that a counter read before is not ahead of it, and
`OvershootInv` that `k - 1` tasks beyond the limit leave that many fewer actors who may still
launch on what they read. The theorem is for as long as `tasks_launched`, a `size_t`, has not
gone round (`tasks_launched < SizeModulus`): the difference means nothing after that.

**Outgoing requests.** Any requesters and calls. `StageInv` has every call that was made in
one stage of its way (task, transfer, handler, task, answer) and no other call in any,
whatever number of tasks the launcher runs at once;
`TasksOnce` that no queue has it twice; `TableInv`, `AddInv` and `HeldInv` that an id stays
its requester's from `add` to the answer; `KickInv` how the destructor and `kickTask` shake
hands.

**Daemon.** Any set of pids and any bounds. `LockInv`: the lock is a watcher's, or that of a
command that is about to be one, and its pid is in the file from the write on; `AimInv`: a
stop in `sighted` is going to signal the pid that holds the lock; `ChildInv`: a watcher has
one child; `OrphanInv`: without a kill from outside a worker has its watcher; `SureInv`:
while a restart counts on the lock nobody else can take it. The two action properties follow
from one step of these.

**Binary link.** Any requests, answers, limits, cuts, keepalives and breaks, and any base to
write lengths in. There are two invariants. `PlaceInv` has every call in one of the client's
two queues, once, or at its end, once; it does not depend on what the parsers make of the
streams. `LinkInv`, which does, says of a connection that is up: the calls sent and not yet
answered are those whose answers are on their way back (in the client's parser, in the
network, in the server's buffer or its queues), followed by those whose requests are on
their way to the handler (in the client's buffers, in the network, in the server's parser or
its queue), and both in order. It stands on two theorems about the parsers. `DigitsAreRead`:
a printed length is read back. `ReceiveHolds`: if the parser's token and state together with
the bytes to come hold the messages `ms` (`Holds`: the bytes are frames with keepalives between
them, cut at the point the state says), then a receive hands out a first part of `ms` and the
rest is held afterwards, or one of them exceeds the limit and the parser throws.
What remains for each handler is which sequences it moves bytes between. `LinkInv`
quantifies over all ways to cut a stream into messages and cannot be evaluated by TLC; it
stays in `BinLinkProofs`, and `AnswersUnderWay`, which follows from it, is what the run checks.

The parsers are loops, and the installed provers cannot use the library's induction
theorems, which take an operator as a parameter. `QueueLemmas` therefore has induction as a
fact about a set that contains 0 and with `n` also `n + 1` (`SetInduction`), and recursion as
the existence of the function that iterates a given one (`Iteration`), both from
`WellFoundedInduction`; `BinFrames` writes its recursive definitions as functions.

**HTTP parser.** Any streams, words and limits. A parser that has met no error is `Fit`: a body
has bytes to come, a size has not overflowed, chunks are read only in a message that announced
them, and a chunk's size from its first byte on. `Acts` says of a handler that it does the same
in every call that has a fit parser in hand, whatever the call has marked and told before: the
parser it leaves is fit or in error, and of the callbacks it says which mark is set, whether the
piece ends before the byte, with it or not at all, and which calls without data follow.
There is one such lemma per handler, and `ByteActs` for any byte in any state.
`NoAssertionFails` follows at once. For `CutsNeverMatter` two calls are run side by side, on the
same bytes and from the same parser, that began at different places (`Same`): what either has
told, with the piece that is still open (`Told`), is the same after every byte (`ToldAfter`,
`SameByte`). The call on the whole stream is so compared with the call on its first part, and
then with the call on the last receive. Where these meet, the call that ends has told its open
piece and the one that begins opens an empty one of the same kind, which adds nothing
(`EndTells`, `BeginSound`); this is what the marks set at the start of `http_parser_execute`
are for.

**HTTP server.** Any finite sets of clients and descriptors, any scripts of requests. A step of
the loop is a chain of operators on a record of the variables, and so are the invariants. The
first, `IndInv`: the table, epoll and the objects agree about sockets (`TableInv`), and answers
are queued only for open connections and are their own (`OwnInv`). An answer finds its
connection by the number of a socket, and is right because a connection whose request is in
somebody's hands keeps its number. The second, `GoesOnInv`, is about each connection:

- `Chained`: the numbers of requests go up from what the client has got through what is
  being sent, what waits to be sent, what is in hand or queued, the requests not yet started,
  to what has arrived, and none is above what was asked;
- `Single`: at most one request of a connection is in hand or has its answer queued;
  this needs that such a connection is waiting, or is in its handshake and has no
  other request (`Handshake`), which needs in turn that a client asks for nothing after
  an upgrade until it has the answer in binary form (`Asked`, `NoCustoms`);
- `Life`, `AliveAt`: a listed connection is alive between steps; one with a queued answer that
  is dead or has left the table is so because its client hung up, was shut down or asked to
  close too early, or by its age;
- `EdgeInv`: only sockets watched for edges have one; `Blamed`: who is to blame if the loop
  does not go on.

For the second, `HttpServerProofs` shows for each operator what it does to the flow of its
connection (`Flow...`), then that it leaves the state fit for the next (`Fit...`), then for each
action that it preserves the invariants (`...Runs`).

Only model-checked:

- liveness, which is out of the prover's reach (`LocalTaskRuns`, `GlobalTaskRuns`,
  `DtorEndsUnlessKillLost`, `OnFinishedFires`, `EveryCallFinishes`, `EveryRequestAnswered`,
  `ServiceComesBack`, `EveryCallIsDone`, `DtorReturns`);
- what becomes of the callbacks of the HTTP parser (`LengthIsKept`, `PlainRequestsArrive`),
  which takes the order in which the callbacks of a request come and the bytes around each piece;
- what the functions of `Texts` compute: each is an induction over the text of its own, as
  those of the parsers are.

## Plan

1. The order of the HTTP parser's callbacks, for `PlainRequestsArrive`.
2. `BinClientA` with several connections and the lock it holds across callbacks.

## Not modelled

- md5 and sha1: standard hashes on 32-bit words, out of TLC's reach; nothing depends on
  more than their being functions.
- `pg`: a retry loop around libpq; a query whose result was lost with the connection
  is executed again after the reset. `RegularTask`: `checkRun` ignores its `trylock`.
- The kqueue watcher: not part of the Linux build. Wrappers of single calls
  (`ServerUtils`, `HttpClient`, `HttpApiClient`), logs, files, `hRWLock` (no user).
- The protobuf and JSON encodings of the API; response parsing in `http_parser`; the
  parts of utf8cpp the library does not call.
- Data races whose outcome is a corrupted container: `onSendCustomResponse` against
  `handleEvents`, `call` against `performTransfers`. The models take each access as
  atomic, and `PROJECT.json` lists the second under its hazards.
- Code that is commented out (`batchlauncher`, `hpoolserver`), the build scripts and the
  experiments.
