# Verification of the web server

A TLA+ development kept beside the Rust sources of the server. It models the
parts whose behaviour depends on what several threads, sockets and clients do
at once, checks them with TLC on small instances, and proves the central
invariants with TLAPS for every value of the constants.

## 1. The system

A process (`main.rs`) listens on five ports and runs a pool of worker threads.
Each worker owns one `EPoll`: an epoll descriptor, the sockets waiting for an
event (`lst_pending`) and the sockets whose operation is complete (`lst_done`).
A worker repeats, in `Server::call`:

1. take jobs from the global queues `lstSvc_`, then `lstSvcLow_`, and serve
   them; starting a job may start another worker or flag this one for retirement;
2. take over the sockets other workers left in `lstSocket_` (`EPoll::get`);
3. `EPoll::run`: drain `lst_done` through the callbacks of the services, wait at
   most a second for events, drain again;
4. leave the pending sockets that need not stay to the others (`EPoll::put`);
5. leave the pool if it has been flagged.

A callback that returns a socket makes it a job (`Callback::call`); any worker
may serve it. Everything shared is a `static mut` guarded by a futex mutex that
the project implements itself in assembler.

| Component | State | Operations | Interaction | What makes it correct |
|---|---|---|---|---|
| Futex mutex (`threads.rs`, `mutex.asm`) | futex word | lock, unlock | used by every other part | mutual exclusion, no lost wakeup, a free mutex that is wanted is taken |
| Thread pool (`server.rs`, `main.rs`) | `lstCntrl_`, `lstSvc_`, `lstSvcLow_`, `threadsAvail_`, `rt`, a `StatusControl` per worker | start, register, take, claim, grow, retire, serve, requeue, leave, `can_exit` | jobs from `EPoll` callbacks; Control starts and flags workers; `can_exit` ends the process | the count of available workers covers the idle ones and never underflows; a busy pool grows up to its limit and not beyond; jobs are served; the process ends when and only when all have left |
| Sockets and EPoll (`sockets.rs`) | `lst_pending`, `lst_done`, registrations in the kernel, `Socket.state` | accept, read, write, perform, run, put, get | callbacks of services; sockets handed over through `lstSocket_` and the job queues | a socket is in one place; what is pending is registered and the reverse; answered and abandoned connections are closed, others are not |
| TLS sockets (`ESocket::SSLSocket`) | `rc_`, `rccode_` | the same, through OpenSSL | as above | the event asked for is the one the TLS layer waits for |
| Wake pipes (`lstEPoll_`) | list of all `EPoll`s, a socket pair each | `wake`, `wakeAll`, `EPoll::drop` | a worker wakes all others after queueing | no wake is written to a descriptor that has been closed |
| Services (`service.rs`): Default, Control, Log, PipeService with DefaultPipeServer | per connection: `res_`, `toRead_`, `s_`; global: the log buffer | `done_connected`, `done_reading`, `done_writing`, `done_closed`, `handle_error`, `tick`, `service` | called by `EPoll::lp` and `Server::call` | one answer to each request that the service means to answer; nobody else cut off; no connection left behind |
| ServiceInfo (`server.rs`) | counters and times | `accum`, `accepted`, ... | called by workers, read by Control | nothing is counted twice or lost |
| HTTP messages (`http_message.rs`), URL helpers (`utils.rs`) | a parsed request | `parse_request`, `query_decode`, `url_encode`, `remove_dots`, `s_match` ... | used by WebServer only | parsing and normalisation agree with their reference definitions |
| WebServer (`web_server.rs`) | a state machine over a request | `doneReading`, `perform` ... | a PipeServer; not installed by `main.rs` | a request is parsed once it is complete |
| Load generator (`sockclient.rs`) | its own EPoll | connect, run | client of `EPoll` | every connection is counted and closed |
| `cgi_server.rs`, `macros.rs`, `macro_wrapper.c`, `lib.rs`, `build.rs` | none | | | |

### What is hard here

* The pool is steered by two counters that are updated at different moments:
  `threadsAvail_` counts a thread when it is started, `rt` when it runs. Claiming
  a job, growing and retiring share one lock, flagging by command and the return
  of a credit happen later, under the same lock taken again.
* A worker leaves by three paths: it retires, it is told to, or a service panics
  and `catch_unwind` drops it in the middle of a job. What `keep()` ties to it,
  PipeService's listening socket included, goes with it.
* `Default.tick` completes any operation of a connection that is older than a
  second, whatever it waits for.
* `can_exit` takes an empty `lstCntrl_` for the end, and a thread that is started
  is not yet in that list.
* A socket is an `Arc<RefCell<..>>` that moves between workers without a lock of
  its own: what protects it is that it is in one place only.
* A one-shot registration that is not renewed loses all later events of a
  connection; one that is not removed reports a socket that has gone to another
  worker, and `perform` unwraps the look-up.
* The wake-up of a futex sleeper and the clearing of the word are two steps.
* Up to three mutexes are nested, some of them through callbacks.
* A worker that sleeps in `epoll_wait` does not see that a job has been queued or a
  socket shared: somebody must write to its wake pipe, which may be closed by then.
* A TLS read may wait for output, and the socket may be registered by another
  worker meanwhile.
* `PipeService.done_reading` may start a read and return the socket as a job too.

`PROJECT.json` lists these as hazards, each at its line, with the properties
that cover it.

## 2. Modules

| Module | Models | Uses |
|---|---|---|
| `AbstractLock` | what a mutex promises: one owner at a time, only to who asked, and a wanted free lock does not stay free | |
| `FutexMutex` | `Mutex::lock`, `unlock` over `futex_acquire`, `futex_release`, one action per instruction or system call that other threads can tell apart | `AbstractLock` (by instance) |
| `FutexMutexProofs` | proofs about it, and that it refines `AbstractLock` | `FutexMutex`, `TLAPS` |
| `LockOrder` | the nine mutexes and how the workers and the main thread nest them | `AbstractLock` (an instance for each mutex) |
| `Server` | the workers of `Server::call`, the job queues, the two counters, growth and retirement, the commands of Control, panics, `can_exit` | |
| `ServerProofs` | proofs about it | `Server`, `TLAPS` |
| `LockOrderProofs`, `SocketsProofs`, `WakeRegistryProofs`, `ConnectionProofs`, `LogProofs` | proofs about the modules they are named after | that module, `TLAPS` |
| `TextProofs` | proofs about the functions on text | `Url`, `Match`, `HttpRequest`, `TLAPS` |
| `MCServer` | symmetry for TLC | `Server` |
| `Sockets` | the `EPoll` of each worker, the callbacks of Default, Control and PipeService, the three lists through which sockets move, with clients and the kernel as environment | |
| `MCSockets` | symmetry for TLC | `Sockets` |
| `WakeRegistry` | `lstEPoll_` and the wake pipes, with the rounds of `Server::call`, `fini`, `EPoll::drop` and `can_exit` as far as they sleep, wake and share | |
| `Exchange` | what a service promises one client | |
| `Connection` | one connection in full: plain or TLS, behind Default, Log, or PipeService with DefaultPipeServer or WebServer | `Exchange` (by instance) |
| `Ascii` | the characters that the functions on text treat specially | |
| `Url` | `url_encode` and `url_decode` of `utils.rs`, on what has arrived of an encoding | `Ascii` |
| `Match` | `s_match` of `utils.rs`, and what a pattern means | `Ascii` |
| `HttpRequest` | the path of a request: `parse_request` of `http_message.rs`, `remove_dots` and `remove_slashes` of `utils.rs` | `Ascii` |
| `Log` | the buffer of the log | |
| `MCText` | one instance for TLC, in each behaviour of which one of these four runs | `Url`, `Match`, `HttpRequest`, `Log` |

Each module reduces the others to what its properties can tell apart:

* `FutexMutex` shows that a mutex is an `AbstractLock`, `LockOrder` that the
  threads use nine of them without waiting in a circle. On the strength of the
  two, a critical section is one action in `Server`, `Sockets` and `WakeRegistry`.
* `Server` reduces a socket to what its service does to the pool; `Sockets`
  reduces the pool to a fixed set of workers that may leave. They meet in the two
  job queues.
* `WakeRegistry` reduces both to who holds a socket and who sleeps; `Sockets` and
  `Connection` may ignore waking, because there each worker can always go on.
* `Connection` takes one socket out of `Sockets` and opens what is a single
  choice there: partial requests, TLS negotiations, the PipeServer.
  What may happen to one connection, commands aside, is in both: ticks, panics, and
  the end of the worker that must keep it.

The definitions whose comment begins with "Mutant" are faulty forms of the
definition that follows; no specification uses them, they record which bug each
property catches.

### `FutexMutex`

`m_` is the word; `pc` says where a thread is: about to `cmpxchg`, about to call
`FUTEX_WAIT`, asleep, owning, about to call `FUTEX_WAKE`. The kernel compares
and queues in one step; it may return without a wake. Register moves are left out.

### `Server`

| Action | Code (`server.rs` unless said) |
|---|---|
| `Enter`, `Register` | `rt += 1`; the `StatusControl` pushed to `lstCntrl_`, 203-222 |
| `TakeJob`, `TakeLow`, `NoMore` | 226-244, under three locks, hence one action each |
| `Claim`, `Grow`, `Retire` | 246-259: three actions, since other locks are taken in between; `cntrlM` is the holder of `lstCntrlM_` meanwhile |
| `Reply`, `PrepareRequest`, `CommandShutdown`, `CommandStart`, `StartOne`, `StartedAll`, `Panic` | `service()` of the services in `service.rs` |
| `Finish`, `Requeue` | 266-279 |
| `Submit`, `Poll` | `Callback::call` and the rest of `EPoll::run`, 304-305 |
| `CheckShutdown` | 325-336 |
| `Unregister`, `Leave`, `Exit` | `fini`, 340-356, and the end of the thread |
| `CanExit` | 371-383 |

A critical section is one action; that its mutex makes it so is what
`FutexMutex` is about. Names of threads are used again once a thread is over. A
thread can only be started while a name is free; the instances have more names
than the pool may have threads (`MaxThreads` and those started by command).
`can_exit` sleeps a second before it looks at `lstCntrl_` for the first time;
the model assumes that the first worker has registered by then.

### `Sockets`

A socket is held by the list, or the worker's variable, that has it. What a
worker does with sockets only it holds is one action, so an action is a whole
callback with the read or write it starts. `armed` is what the epoll descriptor
will still report, `batch` what it has reported and `perform` has not looked at.
The kernel decides whether input is there and whether output is taken; clients
connect, send a request, wait for the answer, and leave at any time, also with a
reset that discards what they sent. The configuration is that of `Cargo.toml`:
the feature `service` is off, so Default answers by itself. `perform` of
DefaultPipeServer is an answer or a panic. One write that does not go through at
once goes through after the kernel has been drained once.

| Action | Code |
|---|---|
| `TakeJob`, `TakeLow`, `NoMore`, `Requeue`, `PutServed`, `Get`, `PutAll`, `Stay` | the round of `Server::call`; `Put`, `Get` are `EPoll::put`, `get` |
| `Execute`, `ShutDown`, `Perform`, `Prepare` | `service()` of Control, by command, and of PipeService, by `toRead_` |
| `Dispatch`, `LpEnd` | `EPoll::lp` with the callbacks `Greet` to `DoneClosed` |
| `EpollWait`, `AcceptAll`, `Event`, `Tick` | `EPoll::perform` up to its end |
| `Retire`, `Panic` | the ways to leave: flagged by a command or by itself, or a panic in `service()`; `Abandon` is what is dropped |
| `End` | `can_exit` finds nobody, and the process ends |

Commands are `status`, which stands for everything that is answered, `start` without
a number, on which Control panics, and `shutdown`, which flags the registered
workers, writes nothing and lets go of the socket. (`start n` answers like `status`;
its threads are in `Server`.) A panic drops the socket being served and all that the
`EPoll` holds: the connections of Default have no service and are never in hand, those
of Control may be, and a PipeService socket stays open through `s_` but nobody serves
it any more. `CutOff` collects the ways in which the code closes a connection under a
client that waits, `Stranded` is the PipeService connection without a worker.
`accept` is taken to succeed: when the kernel refuses a registration twice
(`sockets.rs:913`), the code drops the socket.

### `LockOrder`

A *passage* is a stretch of code that takes locks: `Ways` gives the sequences of
acquisitions and releases it can make under its conditions, `Then` the passages
that may follow. A thread enters a passage, carries out its `todo` one lock at a
time, and goes on.

| Passages | Code |
|---|---|
| `new`, `drop` | `EPoll::new`, `EPoll::drop`, `sockets.rs` |
| `enter`, `register`, `take`, `claim`, `finish`, `requeue`, `put`, `get`, `status`, `report`, `putAll`, `wakeAll`, `check` | the loop of `Server::call`, `server.rs` 203-336 |
| `control`, `start` | `Control::service`, `start_thread`: the command, and the loop of `start n` |
| `accum`, `conn`, `call`, `log` | `ServiceInfo`, `Callback::call`, `Log::log` |
| `fini`, `wakeFini`, `leave` | `Server::fini` |
| `main`, `perform`, `relock`, `exit` | `can_exit`, which holds `lstCntrlM_` while it looks and gives it back to sleep |

A service that panics goes to `fini`; `AutoLock` has released by then, in the
reverse order of acquisition. A thread that has ended stands for the next one
that is started.

### `WakeRegistry`

| Action | Code |
|---|---|
| `Test`, `Create`, `List` | `EPoll::new`: is there a list, make one, push under the lock (`sockets.rs` 865 ff.) |
| `Enter`, `Take`, `NoJob`, `Service`, `Get` | the round of `Server::call` up to `EPoll::run`; `Take` may start a thread, `Service` may panic |
| `Callback`, `NoneDone`, `Perform`, `Put` | `EPoll::lp` before and after `EPoll::perform`, and `EPoll::put` |
| `Notify` | `if lstSvc_.len() > 0 { wakeAll }`, and the end of the round |
| `Fini`, `WakeFini`, `Close`, `Unlist` | `fini`; `EPoll::drop`, which closes before it takes itself off the list |
| `Look`, `MainPerform` | `can_exit` |
| `WakeAll` | `EPoll::wakeAll`: one action, since `lstEPollM_` is held throughout |

A wake pipe holds a byte or none. `epoll_wait` returns for a byte, for what
is `Reported`, or after a second. Whether a callback makes a job, starts an
operation or lets go of the socket is left open; which service a connection has
matters in one respect: what PipeService has (`Kept`) is not shared by `put`, and is
dropped with its worker, the listening socket included. `Held` says who may still
count on being heard: of the clients of PipeService, those in the backlog do only
until the worker that has the listening socket leaves.
`Slept` states the one assumption on time: the second that `can_exit` sleeps
before it makes its own `EPoll` is enough for the first thread to register.
What a descriptor number stands for after it has been closed is not modelled:
`RegistryCurrent` says when a wake may be written to one.

### `Exchange` and `Connection`

`Exchange` says what each service promises one client, and where it falls short. A
client is waiting, has asked, has been answered, has left (`gone`), has been cut off
(`cut`) or lost with its worker (`lost`), and none of the last four is ever left. Log
and DefaultPipeServer answer who has asked; Default may also answer who has not
(`Hurry`) and cut off who takes the answer too slowly (`Cut`), as its `tick` does not
look; WebServer has no answers yet (`prepare_response` is empty) and closes the
connection; both PipeServers may lose a client with the worker (`Lose`). `Connection`
implements it through `Phase`.

| Action | Code |
|---|---|
| `Dispatch`: `DoneConnected`, `SayHello`, `FirstRead`, `ReadMore`, `DoneWriting`, `DoneClosed` | `EPoll::lp` with `done_connected`, `done_reading`, `done_writing`, `done_closed`, `handle_error` of the services |
| `Attempt` | `EPoll::read`, `write`: `read_imm`, `write_imm`, then `push_done` or `accept` with the event that `rc_` and `rccode_` ask for |
| `TakeJob`; `Prepare`, `Perform`, `Performed`, `Nothing` | the queues; `PipeService.service` by the value of `toRead_` |
| `Event`, `Tick` | `EPoll::perform` for this socket: what is reported, and the ticks after that |
| `Handover` | `put` by one worker and `get` by another |
| `Panic`, `Abandon` | `perform` cannot start its child; the worker that keeps the socket leaves, or panics in another job |
| `Send`, `Negotiate`, `Drain`, `Leave` | the client and the kernel |

Three things the code does are kept as they are, and shape the properties:

* `PipeService::service` gives `prepare_request` a clone of itself. What is read
  later goes to the original, so that `WebServer` never sees the end of a request
  that takes more than one read, and such a request is never answered.
  `Asked` counts a request for `WebServer` only if one read returned all of it.
* With `toRead_` above zero `done_reading` starts a read and returns the socket,
  which may then be pending, or done, and a job as well.
  `DoubledOnlyWhileReading` and `PerformedOnce` show that this ends before
  anything is performed and that the second job has no effect.
* PipeService keeps the socket in `s_` and forgets it in `done_writing` only. When
  the client leaves or the connection fails before that, the socket and its
  service hold one another and the descriptor is never closed.
  `ClosedAfterAnswer` is about the connections that got their answer or were cut off.

A request body cannot occur: no header is ever recorded (see `HttpRequest`), so
`WebServer` takes every request as one without.

### `Url`, `Match`, `HttpRequest`, `Log`, `MCText`

The functions are state machines on sequences of code points: their loops are steps
over an argument that any initial state may have, their iterators are numbers of
characters consumed, and the calls of `s_match` that wait are a stack. That
makes what they compute an invariant, which holds for texts of any length.
`bhex`, `xdigit`, `p_iter` and `c_iter` keep their names.

| Action | Code |
|---|---|
| `url_encode`, `url_decode`, `Decoded` | one round of the loop; `Take` an escape or a character, `Break` at an escape cut off |
| `Arrive` | `url_encode` returns, and any beginning of what it returned reaches `url_decode` |
| `PattEnd`, `One`, `FirstStar`, `SkipStar`, `LastStar` | the arms of the `match` in `s_match`, and its inner loop over stars |
| `Call`, `Return`, `Fail` | the recursion, and what a caller does when it was in vain |
| `path_`, `parse_request` | what is taken for the path, and `splitn(1, '?')` |
| `NextPart`, `LastPart` | `split`, `fold` and the end of either half of `remove_dots` |
| `remove_slashes`, `Parsed` | its outer and its inner loop |
| `ReadLine` | `Log::log` |

A character above 255 makes `url_encode` or `url_decode` panic and is left out.
`MatchesMeaning` compares the backtracking search of `s_match` with the existence of
a cut of the text; the meaning it states is that of the code, in which a star
followed by something else takes at least one character.

`parse_request` splits with `splitn(1, ..)`, which yields one part: the query stays
in the path, undecoded, and header lines leave no trace. A uri that begins with
`http://` is split the same way, so that the whole of it is taken for the domain and
its path is lost: `path_` is then a slash. `PathNormal` is about the path that results,
and says both; `from` and `kept` are history variables that say where each of its
characters was in `path_`. `remove_dots` drops a
`..` segment and not the segment in front of it; `DotSegmentsGo` compares what it
leaves with the positions of the dot segments, for paths in which no two of them
are adjacent and no inner segment is empty. For the others the result depends
on which occurrence `split` finds first, and there is no reference it could be held
against.

`Log::log` keeps up to 1001 entries, since it looks at the length before it adds.
`LogIsTail` derives the buffer from everything ever logged. The repeat count is
an `i32` in the code and a natural number here: two thousand million equal lines
are out of the model.

## 3. Runs

| Run | Instance | Question and result |
|---|---|---|
| `FutexMutex` | 4 threads | Exclusion, no lost wakeup, refinement of `AbstractLock` with its liveness: hold |
| `LockOrder` | 2 workers and the main thread | No circle of waiting, no lock leaked on any path, all locks given back in the end, each lock used as `AbstractLock` says: hold |
| `ServerPool` | 3 thread names, `MaxThreads` 2, 3 jobs, replies and CGI, retirement out of reach | Types, growth; every job is taken: hold |
| `MCServerRetire` | 4 names, `MaxThreads` 3, 4 jobs, every job makes a worker old enough | Retirement never empties the pool; the assertion in `fini` holds |
| `ServerCommands` | 3 names, `MaxThreads` 2, 2 jobs: CGI with panics, `start` with and without a number, `shutdown`; retirement | The count of available workers is exact, the pool is bounded, and once all that exist are flagged the process ends: hold |
| `ServerShutdownRace` | 3 names, one `shutdown` | "shutting down" leads to the end of the process: **violated** |
| `ServerFiniPanic` | replies and `start` without a number | the assertion in `fini`: **violated** |
| `MCSocketsShared` | 2 workers, two clients of one or two of the three services, one request each; commands, timeouts, retirement, panics | One holder per socket; lists and registrations agree; a connection is closed only after its answer or when its client has gone, those that `CutOff` names excepted: hold |
| `SocketsClients` | 2 workers, one client, of any of the three services, up to 2 commands; timeouts, retirement, panics | Each request that the service means to answer is answered, unless the client is cut off or its PipeService connection is stranded; an abandoned connection is closed: hold |
| `Connection` | 2 workers, 1 to 3 segments, 2 complications | The right event is awaited, a doubled socket does no harm, the exchange is implemented, with its ways of falling short, an answered connection is closed: hold |
| `WakeRegistry` | 2 workers and the main thread, a connection to PipeService and another, 2 events | The list of `EPoll`s is current; nothing waits while all sleep; `can_exit` notices the end; jobs are taken, and events heard as long as somebody can be expected to: hold |
| `MCText` | see the bounds | Encoding, slashes, matching, paths, dot segments, the log: hold |

### The bounds

The limits of the code (`rt < 100`, `threads_avail() > 3`, `serviced_ > 2000`)
are the constants `MaxThreads`, `Reserve` and `RetireAfter`; small values make
the limit, the reserve and the retirement happen within a few jobs. Two or three
threads at the limit with one job more than threads is the smallest instance in
which a worker is the last available one, another stands between two of its
critical sections and a third has been started and not yet run. `MaxJobs` and
`MaxAsked` bound the clients only: the workers go round for ever. `serviced_` is
counted up to the value at which it makes no further difference. For `Sockets`,
two workers are enough for a handover, with one of them at any point of its round,
flagged or about to panic; a third would do what the second does, since a list is
taken over whole, and the invariants are proved for any number. A socket's path does
not depend on how many others there are, except in `put` and `get`, which move sets.
One client is enough for `SocketsClients`, whose properties are about one connection;
`MCSocketsShared` has two, since a panic over one of them may take the other along.

`LockOrder` has no bound besides the number of threads. Two workers and the main
thread stand in every pair of passages. More threads add no new nesting, and the
pairs of locks that `Ways` nests order the locks: `lstCntrlM_` before
`threadsAvailM_`, `rtM_`, `lstSocketM_` and `l`; `lstSvcM_` before `lstSvcLowM_`
and `lstEPollM_`; `lstSvcLowM_` before `rtM_`, `rtM_` before `threadsAvailM_`.

`Connection` needs two workers for a socket that is pending with one and a job of
another; three segments let a request be split where the PipeServer waits for more
and once again. `MaxTurns` bounds how often the kernel fills up or the TLS layer
begins to negotiate: two are enough for a negotiation that finds the kernel full.

In `WakeRegistry` a worker that queues a job and one that falls asleep, with the
main thread, are the parties to every property; the second worker may be started
while the first is at any point. Two connections, one of which is kept, make a job and a shared socket
wait at the same time, and two events reach each or one twice.

For `Url`, four characters of seven, one of each treatment, are more than the
longest thing the functions look at at once (an escape has three); patterns of four
characters, of three, have a doubled star in front of something and two stars apart.

A uri, with http:// in front or without, is made of a dot, a slash, a question mark
and a letter, up to seven of them: `/../` with something on both sides, or two dot segments apart. A log of
capacity two, instead of 1000, and seven lines of three kinds drops lines while
others are repeated.

Deadlock is checked except where the system really stops:

* `ServerCommands` and the three runs of `Sockets`: `shutdown`, retirement or panics
  have left no worker. The same in the two runs that end with a violation.
* `Connection`: the connection is over, and there is no other.
* `WakeRegistry`: the process has ended.
* `MCText`: the function has returned, or all lines are logged.

### Fairness

The scheduler runs all threads: weak fairness for each. A worker's loop needs
nothing from outside, since `epoll_wait` returns after a second. In detail:

* `FutexMutex`: each thread that can take a step does; a signal that ends
  `FUTEX_WAIT` early may happen and is never counted on.
* `LockOrder`: a thread releases and goes on (weak); a free lock that is wanted is
  given to somebody (weak, for each lock: this is what `AbstractLock` promises, and
  it promises a turn to nobody in particular); the loops over `start n` and over
  the callbacks of one `run` come to an end (strong fairness for leaving them, as
  both run over a finite number).
* `Server`, `Sockets`: weak for each thread, for `End` as a step of the main thread. A lock is got under weak fairness
  because in each instance it is held across steps only a bounded number of times.
* `Connection`: the workers do what there is to do, no particular one of them,
  except that a job that has been taken is finished by who took it. A client that
  waits reads what it is sent (`Drain`, also in `Sockets`) and takes its part in
  the negotiations of its TLS layer (`Negotiate`). It need not send anything.
* `WakeRegistry`: weak for each thread, the timeout of `epoll_wait` included.
  `JobsTaken` fails without the timeout, as its mutant shows: the first `lp()` of a
  round (`sockets.rs:1259`) may queue a job, and its worker goes on to sleep in
  `epoll_wait` without having woken anybody. `early` names these jobs;
  `NoSleepOver` states that all others find somebody awake.

### What the two violated runs show

* `ServerShutdownRace`. The worker that serves `shutdown` was the last available
  one, so taking the command started another thread, counted in `threadsAvail_`
  and not yet in `lstCntrl_`. `Control::service` flags the entries of `lstCntrl_`
  and composes "shutting down" (`service.rs:153`; it is not sent, since `:159` writes
  only when the command is another one); the new thread registers
  afterwards with a fresh flag, stays, and `can_exit` waits for it for ever.
* `ServerFiniPanic`. `assert!(self.pl_.lst_done.is_empty())` (`server.rs:355`)
  is true when a worker leaves through its loop. When a job has written its
  answer at once (`EPoll::write` queues the socket in `lst_done`) and the next
  job of the same round panics, `fini` runs with that socket still queued.

## 4. Proofs

Every theorem holds for all values of the constants that the assumptions named with
its module allow. The plan of each proof is the same: an inductive invariant `IInv`,
which TLC can evaluate on the instances of section 3 (that of `LockOrderProofs`
excepted, which speaks of sets of plans), `Init => IInv`, one lemma or step per
action for `IInv /\ [Next]_vars => IInv'`, and theorems that draw the properties
from it. Lemmas about sequences and about counting rest on the
library's theorems on sequences and finite sets.

### `FutexMutexProofs`

* `Invariant`: `TypeOK`, `MutualExclusion`, `WordTellsOwner`, `NoLostWakeup`
  together are inductive. Exclusion alone is not: it needs that the word is 1
  exactly when there is an owner, and the wakeup argument needs both.
* `Exclusion`, `WakeupsReachSleepers`: consequences.
* `Refinement`: the safety part of `AbstractLock` is implemented; the compare and
  exchange that succeeds is its `Acquire`, `Clear` its `Release`, the rest are
  stutters.

### `LockOrderProofs`

From `ThreadsAssumption`: finitely many workers, the main thread not among them.

* `Invariant`. Of each thread it says that the rest of its passage is *disciplined*
  from what it holds: it takes only locks of higher rank than all it has (`Rank`,
  section 3), releases what it has, and ends with what the next passage expects.
  `Disciplined` says so by a set of pairs, of locks held and steps to come, that is
  closed under what the thread does next, since a definition by recursion over the
  passage is out of the prover's reach. `WaysDisciplined` goes through all
  passages. A second conjunct says that no two threads hold the same lock.
* `NoPathLeaks` (`NothingLeaks`): the end of a passage.
* `NoDeadlock` (`NoCircle`): among a set of threads take those that wait for the
  lock of the highest rank; a holder in the set would wait for a higher one.
* `LocksAreUsed` (`LocksUsed`): each step maps to a step of `AbstractLock` or to a
  stutter, for each of the nine locks.

### `ServerProofs`

From `ThreadsAssumption` (a finite set of names), `KindsAssumption`,
`PanicAssumption` and `BoundsAssumption`:

* `Invariant`: the conjunction `IInv` of
  the control facts (types, `lstCntrlM_` held exactly inside 246-259, a worker not
  flagged before it registers, `lstCntrl_` being the workers between registration
  and `fini`), `AvailCountsIdle`, `RtCounts` (`rt` is the number of threads inside
  `call` or `fini`), `LastSpawned` (a worker about to start another has seen the
  count at zero, so the only threads not yet running were started by command
  since) and `ThreadBound`.
  `abandoned`, a history variable, makes the count exact also after a `shutdown`
  command: the command flags workers that are available, and those leave without
  giving back the credit they hold, so the code's count stays too high by their
  number for as long as other workers live on.
* `TypeCorrect`, `AvailExact`, `PoolBounded`: consequences. `TypeOK` includes
  `threadsAvail \in Nat`: the decrement of the `u32` never wraps, because the
  worker that decrements is itself counted. `PoolBounded` needs `LastSpawned`,
  since `rt < 100` alone says nothing of threads that do not run yet, and
  `LastSpawned` needs that the count covers the idle.

Three more hold under conditions, and TLC shows that they need them:

* `NothingLeft` (`FiniAssertion`), if no service panics (`MayPanic = {}`). With
  panics `ServerFiniPanic` is a counterexample. The invariant `Emptied` says at
  which points of a round `lst_done` is empty.
* `SpareWhileAllStay` (`SpareOrFull`), for behaviours in which no worker has left
  and none was flagged while available (`Staying`). A flagged worker takes its
  credit with it, after which the count no longer reaches zero and nobody is started.
* `PoolLives` (`PoolSurvives`), under `Peaceful`: no commands, no panics, and
  `Reserve >= 1` (3 in the code). The invariant `Survival` follows the one thread
  that may be started and not yet registered (`OneNew`, `LastGrows`): beyond it the
  credits belong to registered workers, so that a worker that sees more than
  `Reserve` of them available and retires is not the last. Neither condition can go.
  With `Reserve` zero the credit seen may be the one new thread's. With commands,
  the threads of `start n` are counted when they are started and registered when
  they run: a worker old enough that serves `start n` with n above the reserve, and
  takes another job before any of them runs, retires and leaves `lstCntrl_` empty,
  and `can_exit` may look at it then.

### `WakeRegistryProofs`

From `NamesAssumption`.

* `Invariant`: the roles of the main thread and the workers; `CreatedOnce`, which
  is where `Slept`, the second that `can_exit` sleeps, is used; descriptors that
  are open; `RegistryCurrent`, `ExitNoticed`; and `SocketSeen` and `JobSeen`. These
  two replace `NoSleepOver`, which is not inductive: it says that somebody is
  awake, they say that somebody is not on the way to `epoll_wait` unwoken, and that
  differs for jobs and sockets, since `get` looks at the sockets and the queue of
  jobs is looked at before.
* `RegistryIsCurrent`, `ExitIsNoticed`, `NobodySleepsOver`: consequences.

### `SocketsProofs`

From `SocketsAssumption`: the connections are finitely many, the three kinds and
`None` are distinct, and none of them is one of the listening sockets.

* `Invariant` has four parts. `Placement`: every place, of those that hold at most
  one socket and those that hold a list, holds sockets only, no two places hold the
  same, no list has one twice, and a connection nobody has accepted is in none.
  `Returned`: what a worker has in hand between `service()` and the queue is
  what the service may return. `Watching`: `Watched`, and what `epoll_wait` has
  reported and not dealt with is in `lst_pending`. `ContentOK`: types of the rest.
  Each action moves sockets from places to places; `Transfer` shows once that
  such a move keeps them apart, and the steps say which move they are.
* `TypeCorrect`, `OneOwner` (`SingleOwner`), `EventsAreMatched`, `PendingIsWatched`:
  consequences. `SingleOwner` counts the places, so that from apart to at most one
  is a step of its own.
* `NobodyIsCutOff` (`ClosedWhenDone`), without conditions: whom the code cuts off is
  part of the property (`CutOff`). Its invariant adds what is being written where:
  what has been asked is answered by a write that ends only when all is written; a
  socket in state `PeerClosed` or `Error` has no client any more; and at the points
  where a worker may panic it has shared the connections of Default, where it may
  leave all that need not stay (`HandedOver`).

### `ConnectionProofs`

From `BoundsAssumption`.

* `Invariant`: one place as a socket (`OneSocket`), one place at all unless the
  PipeServer waits for more (`OnePlace`), the events that are awaited (`Awaiting`),
  how many segments are with the client, the kernel, the buffer and the service
  (`Segments`), and for each value of `toRead_` what jobs there are and whether the
  request has been performed (`Protocol`, `Immediate`, `Over`). A connection that has
  been lost or cut off is part of it: `s_` may hold a socket that is in no place.
* `EventsAreAwaited`, `OneWorkerAtATime` (`DoubledOnlyWhileReading`),
  `RequestPerformedOnce`: consequences.
* `ExchangeIsSafe`: the safety part of `Exchange` is implemented under the refinement
  mapping `Phase`. `RequestStep` and `ClientStep` map each step to one of
  `Exchange` or to a stutter; a tick of a connection that has not asked leads to
  `Hurry` when the answer is written, a tick in the middle of a write to `Cut`.

### `LogProofs`

From `LogAssumption`, for any lines.

* `Invariant`: `LogIsTail`, and that the last line belongs to the last run that
  started. `NewRun` and `SameRun` say what one more line does to the runs.
* `LogKeepsTail` (`LogIsTail`): a consequence, for 1000 as for any other capacity.

### `TextProofs`

From `UrlAssumption`, `MatchAssumption` and `UriAssumption`, for arguments of any
length: the bounds are constants.

* `MatchInvariant`. A call with the iterators at `i` and `n` *decides* whether what
  follows `i` characters of the pattern means what follows `n` of the text (`Means`).
  The invariant (`Decides`): the outermost arguments match exactly when those of the
  innermost call do, or those that one of the waiting calls will still try. One
  lemma for each kind of pattern character takes the first piece off a cut or puts
  it in front of one. `MatchIsMeaning` (`MatchesMeaning`): when the outermost call has
  returned, there is nothing left to try.
* `UrlInvariant`. `EncodingBy` relates a text to its encoding by the function that
  says where the escape of each character begins. `Encoding`: `out` is the encoding of what
  has been consumed; `Decoding`: `url_decode` stands at the beginning of an escape,
  and what it has written is the text up to there. `DecodingUndoes` (`RoundTrip`)
  and `EncodingIsSafe` (`EncodedIsSafe`) follow, the latter from what an escape is
  made of.
* `RequestInvariant`. `Tracking`: each function's result is a selection of characters of
  its argument in their order, and what is not selected is slashes and dots;
  `Splitting` and `Squeezing` say what the loop of `remove_dots` and the two of
  `remove_slashes` have copied so far. `SlashesAreCollapsed` (`SlashesCollapsed`)
  follows.
* `DotsInvariant` adds what `remove_dots` removes. `Folding`: if the separators in the
  argument are apart (`Apart`), all are found from left to right, and what has been
  copied is what lies in none of them, their last slashes excepted. `Removing`: a half of
  `remove_dots` that has ended has left the path without the dot segments of its
  separator (`Without`). The step at the end of a half needs that what is left of a
  path by the first half has its separators where the path has dot segments
  (`FoundSegment`, `SegmentFound`), that these are apart (`FoundApart`), and the same
  for the dot segment at the end (`SuffixSegment`, `SegmentSuffix`); all
  follow from how characters that are neighbours in the one lie in the other
  (`Gap`). `DotSegmentsAreGone` (`DotSegmentsGo`) is the consequence.
* `PathIsNormal` (`PathNormal`) puts the three together: for an absolute uri, of which
  a slash is taken for the path, the other two properties say that it stays one.

### Only checked by TLC

All liveness: `JobsServed`, `ShutdownDrains`, `Answered`, `Freed`,
`ClosedAfterAnswer`, `JobsTaken`, `Heard`, `Released`, and that of the refinements
of `AbstractLock` and `Exchange` (`ImplementsLock`, `ImplementsExchange`): the
prover does not treat fairness.

## 5. Not modelled

* The load generator (`sockclient.rs`), a measuring client with one thread, and the
  connecting sockets that only it uses. Its `tick` (`sockclient.rs:62`), which may count
  a connection twice, goes unchecked.
* `ServiceInfo`: counters that are changed and read under one lock and printed.
  `LockOrder` has the lock; the sums have no invariant beyond the single additions.
* Collections that are created on first use without a lock, `lstEPoll_` excepted:
  what a thread does that still uses a dropped collection cannot be said here.
* The values -2 and -3 of `toRead_`, for a `Pipe` behind PipeService: nothing
  implements `Pipe`.
* Request bodies and queries, which the parser never records, and responses
  (`add_headers` is `unimplemented!`).
* `from_cstr` of `utils.rs`, and characters above 255 in the other functions.
* The creation of SSL objects and outgoing TLS connections.
* The pieces without state of their own: `macros.rs`, `macro_wrapper.c`,
  `cgi_server.rs`, `build.rs`, `lib.rs`, and the declarations of C functions.
* Registrations that the kernel refuses (`sockets.rs:910-915`).
* What a descriptor number stands for after it has been closed.
* Texts: greetings, statistics, the log's wording.

## 6. Plan

The models are complete as far as section 5 allows, and every safety invariant and
action property that a run checks is stated by a theorem. What may still be added:

1. `Server`: which conditions keep the pool alive when there are commands, for
   example how many threads `start n` may start at a time.
2. `HttpRequest`: a reference for paths with adjacent dot segments or empty ones,
   should the code come to promise anything about them.
