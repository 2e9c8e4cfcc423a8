# TLA+ models of LearnInLinux

LearnInLinux is a collection of Linux systems programs in C++: blocking queues,
thread pools, process pools and network servers, written one after the other as
a course advances. This directory holds TLA+ models of the programs whose
correctness depends on interleavings, on the kernel and on who closes what when;
the TLC configurations that check them on small instances; and proofs, checked
by TLAPS, of what can be proved for instances of every size.

To repeat everything: `tlc -config MCx.cfg MCy` for the lines of the table under
*Runs*, and `tlapm xProofs.tla` for the proofs.

## The system

The programs are independent of one another; what connects them is reuse. The
same queue, pool or socket wrapper appears in several directories, sometimes
copied, sometimes changed.

| Component | Source | State it keeps | Operations | What is hard |
|---|---|---|---|---|
| BlockQueue | `11-11/BlockQueue`, `10-14`, copies in `importent-code`, `重要的代码` | a bounded `std::queue`, one mutex, two condition variables | `push`, `pop` | wakeups that are lost, stolen or spurious; an unfair mutex |
| RingQueue | `11-11/RingQueue`, `10-15`, `importent-code/UdpSocket` | a vector, two indices, two semaphores, two mutexes | `push`, `pop` | producers and consumers share no lock; the semaphores are posted in any order |
| Thread pools | `10-16/ThreadPool`, `10-21/ThreadPool`, `importent-code/PthreadPool` | task queue, mutex, condition variable, the singleton pointer | `getThreadPool`, `pushTask`/`push`, the workers' routine | double-checked locking; signals before and after the unlock |
| TCP server on a pool | `10-21/tcp_server.hpp` | the sockets, owned by the acceptor, the queue or a worker | accept, `pushTask`, `service`, `change`, `dictOnline` | a socket passed by value between threads; silent clients; data and end of stream together; SIGPIPE |
| Reactor | `Reactor/reactor` | epoll interest, the map of Connections, an input and an output buffer each | `Dispatcher`, `Accepter`, `Recver`, `Sender`, `Excepter`, `EnableReadWrite` | edge-triggered events, partial sends, pipelined requests, descriptors that are reused, resets at any point |
| Reactor skeleton | `11-7` | epoll interest, the map of Connections | `Accepter`, `Dispatcher` with empty callbacks | edge-triggered accept, descriptors that run out |
| Multiplexing servers | `11-4/selectServer`, `11-4/pollServer`, `11-6/epoll_server` | an array of descriptors, or epoll's interest set | the constructors, `Start`/`loopOnce`, `HandlerEvent(s)`, `Accepter`, `Recver` | readiness that is used after the sweep has closed and accepted; the array or the descriptors run out |
| Network calculator | `10-23/NetCal` | an input buffer per connection, a thread per connection | `MyDaemon`, `Start`, `calculator`, `Decode`, `calculatorHelper`, the client's loop | packages in pieces, ints that overflow or trap, clients that leave in between |
| Iterative server | `11-11/TcpServer`, with `10-21/tcp_client.cc` | the connection it serves | accept, read and write until the end | a silent client, half-read answers, failing writes on both sides |
| Forking servers | `11-12` (forks twice, the grandchild serves), `10-25` (a child for each connection, SIGCHLD ignored), `10-28` (accepts and closes) | who holds each connection | accept, fork, wait, serve | descriptors across fork, zombies, forks that fail |
| UDP servers | `10-20` (relay), `11-11/UdpSocket` (log), `10-19/udp` (sink) and their clients | table of users, one buffer | receive, send to all; the client's two threads | empty datagrams, an uninitialized or overwritten buffer |
| Chat room | `importent-code/UdpSocket` | table of users, mutex, ring queue, two threads | `Recv`, `addUser`, `Boardcast`, the destructor; the client | two locks, and an object that is destroyed while its threads run |
| Process pool | `10-1/processpool` | one pipe per child and who holds its write end | create, dispatch, close and wait, the child's loop | inherited descriptors keep pipes open; the order of close and wait |
| Shared memory | `10-3/shm` | a page and a FIFO with names that outlive processes | create, `Wait`, `Signal`, print, remove | nothing says when the page may be overwritten; a client that is killed; what is left behind for the next server |
| FIFO server | `10-2/fifo` | a FIFO, three children | open, fork, read, wait, unlink | several readers of one stream, clients that come back |
| Ticket sale | `10-12/pthread_mutex.cc` | a counter, a mutex on `main`'s stack | sell, create, join, destroy | test, print and decrement are three steps |
| Thread names | `10-11/demo` | one name buffer for five threads | print a name, create, copy it | the buffer is reused before the thread has run |
| Shells | `minshell`, `shell`, `9-19/shell` | words, redirection status, the buffer behind `putenv` | parse, `cd`, `export`, fork, exec, wait | state that one line leaves for the next |
| Programs that fork one child | `10-1/pipe`, `9-11`, `10-7`, `10-10` | a pipe, a child, a pending SIGCHLD | write, wait, poll, handle | a full pipe, a signal at any point |

The components interact as follows. The thread pool's queue and the ring queue
are both used by servers (`10-21/tcp_server.hpp` pushes sockets to a pool,
`UdpServer.hpp` pushes messages to a ring); they promise the same thing, a
first-in first-out queue, which is a module of its own here. The two reactors
and the multiplexers share what they see of the network, an accept queue and
readiness. `10-21/tcp_client.cc` is the client of the iterative server too. The
processes of one program interact through what they inherit: pipes,
connections, a page, a FIFO. The rest is under *Not modelled*.

## Modules

| Module | Models | Uses |
|---|---|---|
| `BoundedFifo` | what a queue promises: a value that is offered joins the tail once, a consumer takes the head once | |
| `BlockQueue` | `BlockQueue.hpp` under `main.cc` | implements `BoundedFifo` |
| `RingQueue` | `RingQueue.hpp`, `Sem.hpp` under `main.cc` | implements `BoundedFifo` |
| `ThreadPool` | the three pools' `push` and worker loop | implements `BoundedFifo` |
| `PoolSingleton` | `getThreadPool` and its double-checked lock | |
| `PoolProgram` | the main program: each caller gets the pool, then pushes | extends `ThreadPool`, instantiates `PoolSingleton` |
| `PoolServer` | `tcp_server.hpp` with each of its three handlers | extends `ThreadPool` |
| `TcpNet` | clients, accept queue, byte streams (not under `src/`) | |
| `Reactor` | `TcpServer.hpp`, `Epoll.hpp`, `Protocol.hpp`, `main.cc` of the Reactor | extends `TcpNet` |
| `Multiplexer` | the select, poll and epoll servers | |
| `ChatServer` | `UdpServer.hpp`, `LockGuard.hpp`, `Thread.hpp`, `UdpServer.cc` | instantiates `BoundedFifo` as its ring queue |
| `NetCal` | `10-23/NetCal`, server, protocol, daemon and client | |
| `EchoServer` | the iterative server and its client | |
| `ForkServers` | the servers of `11-12`, `10-25`, `10-28` | |
| `UdpServers` | the servers and clients of `10-19`, `10-20`, `11-11/UdpSocket`, and the chat room's client | |
| `ReactorSkeleton` | `11-7` | |
| `Servers` | one of the six above in each behaviour | extends `ChatServer`, instantiates the other five |
| `ProcessPool` | `processpoll.cc`, `task.hpp` | |
| `SharedPage` | `10-3/shm` | |
| `FifoServer` | `10-2/fifo` | |
| `Tickets`, `ThreadNames` | `10-12/pthread_mutex.cc`, `10-11/demo/mythread.cc` | |
| `Shells` | the three shells | |
| `Exercises` | `10-1/pipe/mypipe.cc`, `9-11/proc.c`, `10-7`, `10-10/mysignal.cc` | |
| `Processes` | one of the seven above in each behaviour | extends `ProcessPool`, instantiates the other six |
| `MCx` | a module for TLC for each run | |
| `xProofs` | theorems about module x | extends x and `TLAPS` |
| `ThreadPoolProofs` | theorems about the pool, the singleton and `PoolProgram` | extends `PoolProgram` |
| `PoolServerProofs` | theorems about the server on the pool | extends `PoolServer`, `ThreadPoolProofs` |
| `ServersProofs`, `ProcessesProofs` | theorems about the two hosts and the programs in them | extend `Servers`, `Processes` |

`Servers` and `Processes` are hosts. The small programs do not interact, so a
host composes them by choosing one in the initial state (`program`); only that
one moves. Each component keeps a specification of its own (`CalSpec`,
`PageSpec`, ...), whose fairness the host repeats, and the host's properties are
conjunctions of the components' properties.

Definitions marked *Faulty variant* or *Mutant of* are not part of a
specification. Each is an operator of the model changed as a plausible slip in
the code would change it, and each property has one that breaks it: this is how
we know that the property says something about the code. `PROJECT.json` pairs
them up, and maps each definition to the lines it models.

### How the models relate to the code

*Threads and locks.* A critical section is entered by an action that takes the
mutex and left by one that releases it; between them other threads step. What
happens under one lock and touches nothing that is accessed without it is one
action. A condition variable is the set of its waiters; a signal wakes one of
them, no matter which, and a waiter may wake for no reason. A woken thread must
get the mutex again, so another may come first. Nothing is assumed of the order
in which a mutex is granted.

*Thread pools.* The three pools differ in one thing: two signal while they hold
the mutex, one after releasing it. `Early` is the set of callers that do the
former, and the run has one of each.

*Pool server.* `handler` is chosen in the initial state: `dictOnline`, which
`start()` passes today, answers one word and closes; `change` does the same with
its text; `service` answers lines until the client ends. What they answer is
left out.

*Network.* A byte stream is a sequence of symbols, and a request two of them, so
that a request may arrive in two pieces and two may arrive together. A client
may end or reset its connection at any point. In `PoolServer` and `Multiplexer`,
where the content does not matter, a stream is only whether there is unread data.

*Descriptors.* `Reactor` and `Multiplexer` number descriptors and reuse them, as
the kernel does, since that is where stale tables would show. `Multiplexer`
hands out the lowest free number.

*Reactor.* One action per call that can be interleaved with the network:
`epoll_wait`, one `accept`, one `recv`, one `send`, the handling of one message.
`ready` is the kernel's edge-triggered ready list, to which an arrival adds a
descriptor and from which `epoll_wait` removes it. `EPOLL_CTL_ADD` may fail, the
code does not look, and the socket is then in the map, open and unwatched
(`leaked`), be it a connection or the listening socket. Operands are left out,
so any request may be the division that traps (`NetCalTraps`, `pc = "trapped"`).

*Multiplexers.* `server` is chosen in the initial state, and `up` leads it
through its constructor, each call of which may fail and end the program. One
action for the waiting call, one per entry of the sweep. Blocking is the heart
of the matter: a call on a socket that is not ready stops the server, so it has
no step in the model, and `NeverBlocks` says it is never attempted.
`EPOLL_CTL_ADD` may fail, and the connection is then neither watched nor closed:
the model has this (`leaked`) and the properties except exactly these
connections.

*Chat server.* `main` lets the `UdpServer` go out of scope as soon as `Start`
has created the threads. Its destructor destroys the mutex, which is undefined
behaviour while threads use it; the model has the outcomes of glibc: destroying
a held mutex fails with no effect, and after a successful destruction lock and
unlock return an error and exclude nobody. A copy of the table that runs into
an insertion may miss any of its entries. The destructor then joins threads that
never end, so the rest of it is not reached.

*Calculator.* A package is two pieces that cross the stream apart or together;
`Decode` waits for both. Arithmetic is that of ints up to `MaxInt` (INT_MAX):
sums, differences and products wrap, and the least int divided by -1 traps,
which kills the process and with it every connection. A client that is gone
makes `send` fail, and SIGPIPE is what `MyDaemon` made of it. `calFiles` is what
the first four descriptors refer to. `calSpare` counts those that are left for
connections: a thread that ends closes its own, a connection whose thread could
not be created keeps it for good. While none is left, `accept` fails and is
called again without a pause, which is no step of the model; the client stays in
the backlog.

*Iterative server.* Every answer is the whole buffer of 1024 bytes, of which the
client reads 1023 at a time, so an answer is two symbols; the second is found by
the client's next `recv` and counts as an answer there, as it does in the code.

*Forking servers.* `holders[v]` is who has visitor v's connection open: the
kernel's backlog, the first process, a child, a grandchild. `fork` adds the new
process to every connection its parent holds; a client sees the end of its
stream when nobody is left. `kin` says which processes live, and which are
zombies. A first `recv` may find less than the two words that the HTTP child
takes from a request (`fragment`): that child replies with some page or ends
without a reply, whatever the word that is not there turns out to be.

*UDP.* The network loses, repeats and reorders. A text is a sequence of
characters and `buffer` keeps what is behind its terminating zero, because both
the relay's `key` and the chat room client's address are seen through what was
there before. In the chat room's client, `recvfrom` writes the sender's address
over the message it has just stored, so the line that is printed starts with
`AfInet`, whose text ends after one character. The servers' buffers are not
initialised: they start as `Leftovers`, empty or with garbage in them. `Room` is
how many characters a line has for a text behind each speaker's name; the relay
client's buffer of 1014 bytes and the log's line of 1022 characters cut what is
longer. The relay client then writes its terminating 0 one byte behind the
buffer; in the frames compilers lay out that byte is padding (in the program
that is committed, the next object begins several bytes later), so nothing else
changes.

*Process pool.* `wr` says which process holds which write end, and a child sees
the end of file only when nobody does. `fork` copies the parent's set.

*Shared memory, FIFO.* Servers are numbered, and pages and FIFOs have the number
of the server that made them, because names survive: `shmget` with `IPC_EXCL`
fails if an earlier server left its page behind. The client may be killed
between any two steps. A line that is half written is a text of its own.

*Shells.* A line is a sequence of words, blanks and operators, enough to tell
what `CheckRedir`, the tokenizer and `export` make of it. `environ` holds either
a text or a pointer to `g_myval`, whose text changes with the next `export`;
an `export` of a text without `=` removes the name, as `putenv` does.
The child's files and environment are recorded when it runs its command, with
whether `open` succeeded; if it failed, `dup2` fails too and the stream stays
where it was.

## Runs

| Run | Module, configuration | Bounds | Shows |
|---|---|---|---|
| `block_queue` | `MCBlockQueue` | 2 producers, 2 consumers, 2 values, capacity 2 | `NoLostWakeup`, `ImplementsBoundedFifo`, `Flow` |
| `ring_queue` | `MCRingQueue` | 2 producers, 2 consumers, 2 values, ring of 3 | `NoSlotRace`, `ImplementsBoundedFifo`, `Flow` |
| `thread_pool` | `MCThreadPool` | 2 pushers (one signals early, one late), 2 workers, 3 tasks | `NoLostWakeup`, `OnePool`, `ImplementsFifo`, `TasksRun`, `CallsReturn` |
| `pool_server` | `MCPoolServer` | 1 acceptor, 2 workers, 2 clients that return, 3 handlers | `SocketOwned`, `AnsweredIfSpoke`, `Served` |
| `reactor` | `MCReactor`, `MCReactor.cfg` | 2 clients, one pipelines 2 requests, the other sends none; both may reset; a send buffer of 1 reply; 2 descriptors | `OutputArmed`, `NoRequestParked`, `NoReplyLost`, `RequestAnswered` |
| `reactor_reuse` | `MCReactor`, `MCReactorReuse.cfg` | 3 clients, 2 send a request, one of them may reset; 1 descriptor | `TablesAgree`, `SenderHasOutput`, `NoLostEdge`, `RepliesInOrder`, `RequestAnswered` |
| `reactor_assert` | `MCReactor`, `MCReactorAssert.cfg` | 2 clients, one may reset | violates `EnableReadWriteSucceeds` |
| `multiplexer` | `MCMultiplexer` | 3 servers, 3 clients that return, an array (poll) or descriptors (select, epoll) for 2 | `NeverBlocks`, `TablesAgree`, `Served`, `Answered` |
| `servers` | `MCServers`, `MCServers.cfg` | chat: 3 users, a queue of 2; calculator: 2 clients, ints of 2 bits, 9 requests, 1 or 2 descriptors; iterative: 2 clients, 3 connections; forking: 2 visitors; UDP: 2 speakers, 3 texts, of which one does not fit the line; skeleton: 3 clients, 2 descriptors, 2 events for each wait | `TypesOK`, `SenderIncluded`, `CalAnswersRight`, `CalEndsOnlyByTrap`, `ForkServed`, `UdpSaid`, `Answered` |
| `processes` | `MCProcesses` | pool: 3 children (the source's number), pipes of 2 commands; page: 2 servers, 2 tokens; FIFO: 3 children (as in the source), 3 parts; sale: 4 threads, 4 tickets; 5 names (as in the source); shells: 14 lines; a pipe of 3 bytes | `TypesOK`, `NoStrayWriter`, `ThreadsRight`, `RunsWithLatest`, `AbortsOnlyIfCutOff`, `NobodyWaits` |
| `chat_comment` | `MCChatServer`, `MCChatComment.cfg` | 2 users | violates `OnlineUserProtected` |
| `calc_daemon` | `MCNetCal`, `MCCalDaemon.cfg` | 2 clients | violates `StdioRedirected` |

In words:

- **No wakeup is lost** (`NoLostWakeup`, queues and pools). While a thread sleeps
  on a condition variable, the items it could take are no more than the threads
  of its side that are awake and on their way: a stolen wakeup costs nothing.
- **The queues are queues** (`ImplementsBoundedFifo`, `ImplementsFifo`). Each is
  a refinement of `BoundedFifo`. For the ring the abstract contents are computed
  from the semaphores and the threads that hold their tokens.
- **No slot is touched by two threads** (`NoSlotRace`), though a producer and a
  consumer hold different locks.
- **One pool, complete** (`OnePool`): no caller gets a second pool or one whose
  constructor has not ended; `CallsReturn`: everyone gets it. `TasksRun`: once
  pushes stop, every queued task is run. While they go on nothing promises that:
  the queue has no bound, and a pusher may get the mutex again and again before
  any worker.
- **Sockets have one owner** (`SocketOwned`), who spoke is answered
  (`AnsweredIfSpoke`), and silent clients hold up nobody else as long as there
  are as many workers as clients (`Served`). The source says so too: at most ten.
- **The reactor's tables agree** (`TablesAgree`) when descriptors are reused,
  but for the sockets that `EPOLL_CTL_ADD` refused;
  output is armed exactly while there is output (`OutputArmed`,
  `SenderHasOutput`); no edge is lost between two calls of `epoll_wait`
  (`NoLostEdge`); no complete request waits in a buffer while the server sleeps
  (`NoRequestParked`); replies answer the requests taken, in order, once
  (`NoReplyLost`, `RepliesInOrder`); and every complete, well-formed request of a
  client that stays is answered (`RequestAnswered`), while others are slow, leave
  or reset. That holds of a client that has a descriptor and is watched, as long
  as no assertion or division ends the process, and as long as nobody sends
  without end: each client sends `MaxRequests` at most, and one that never
  stopped would keep the loop of `Recver` to itself. `NoLostEdge` excepts the
  sockets that epoll refused, and the listening socket after an `accept` that
  found no descriptor: `Accepter` gives up, and the clients that wait are seen
  when the next one comes.
- **A reported socket is still ready when its turn comes** (`NeverBlocks`): the
  listening socket is entry 0, so accepting comes before closing in every sweep,
  and no reused descriptor is in what was reported.
- **Senders hear themselves** (`SenderIncluded`), unless the copy was torn.
- **The calculator is right** (`CalAnswersRight`): what a client prints is the
  answer to its own latest request: with code 0 the exact sum, difference or
  product when an int can hold it, with code 0 the quotient rounded towards zero
  or its remainder, and the right code for a zero divisor or an unknown operator.
  Of the requests that the repository's client can send, the one quotient that
  an int cannot hold ends the server, and neither another request nor a client
  that leaves does (`CalEndsOnlyByTrap`). What other programs may send is not in
  the model: text that is no JSON object makes `Protocol.hpp:65` throw, which
  ends the server too.
- **Connections close** (`ForkServed`): when a forking server accepts again it
  holds no connection, nobody but the process that serves one does, and no
  child is left unreaped.
- **What is printed was said** (`UdpSaid`), word for word as far as the line has
  room, by the user that is named, over a network that repeats and reorders. The
  exceptions are in the property: for an empty datagram the log prints what
  another said last or, before the first text, what lay on the stack; and the
  chat room's client prints no word at all.
- **Who waits is answered** (`Answered` of `servers`): every queued chat message
  is sent; a calculator's client gets its answer or learns that the server is
  gone, unless no thread could be created for it or no descriptor is left, be it
  that clients stay or that connections without a thread took them; a client of
  the iterative server is answered unless another keeps the server for itself; a
  request to a forking server is answered if a process could be made, else its
  stream ends, and the parent that serves in place of a child that could not
  fork delays the others; the skeleton accepts whoever it has a descriptor for.
- **The pool of processes stops** (in `NobodyWaits`): by the close and wait of
  its loop, or, if the parent aborts half way through creating it, by itself;
  no child but its own holds a pipe open when it must end (`NoStrayWriter`).
- **A quitting client ends the shared memory server** (in `NobodyWaits`), and
  the assertion in `Wait`, after which no later server starts, fails only if the
  client was killed or attached to an earlier server's page
  (`AbortsOnlyIfCutOff`).
- **Threads get what is theirs** (`ThreadsRight`): each ticket is sold once and
  in order, though test and decrement are apart; and a thread copies its own
  name or a later one, whole or torn, never an earlier one.
- **Commands run with the latest state** (`RunsWithLatest`): a command has the
  redirection of the last operator of its own line, not that of a line before,
  to the text after the operator with its blanks (`>> f` opens " f"); the stream
  stays on the terminal if `open` failed and on no other ground. Earlier
  operators are words like any other (`wc < f > g` runs `wc` with the words `<`
  and `f`). Its environment is that of the latest `export`, apart from the names
  exported before, which it overwrites. The other conjuncts of `NobodyWaits` say
  that prompts come back, the FIFO server ends when its clients are gone and
  loses a line only if no child was reading when it was written, the sale ends,
  and children are reaped, apart from the one that fills a pipe nobody reads.

### Disagreements with the repository's own words

- `reactor_assert`: when `send` fails, `Sender` deletes the Connection through
  `Excepter` and then calls `EnableReadWrite` on it; its `assert(res)`
  (`Reactor/reactor/TcpServer.hpp:139`) fails. It takes a reset between
  `epoll_wait` and `send`. The model stops there (`pc = "aborted"`).
- `chat_comment`: `_mutex` is said to protect `_onlineuser`
  (`UdpServer.hpp:162`), but it is destroyed while the threads run.
- `calc_daemon`: standard input, output and error are said to be redirected
  (`10-23/NetCal/Daemon.hpp:21`), but `dup2` gets its arguments the other way
  round and changes nothing about them.

What a property had to except because the code does it, and no text of the
repository says otherwise: the address over the chat message
(`UdpClient.cc:22`), the speaker of an empty datagram (`10-20/udp_server.hpp:91`,
`11-11`), exported names that vanish (`shell/myshell.c:50`), the full pipe that
stops `mypipe.cc`, the division that traps in the calculator and in the reactor,
SIGPIPE in the pool server, sockets that `EPOLL_CTL_ADD` refused, and the
descriptors of connections that got no thread (`10-23/NetCal/TcpServer.hpp:70`).

### Bounds, and why they are enough

Two threads of each role, because the hazards are between two of one side
(stealing a wakeup, filling two slots out of order) or between the sides; a
capacity of two or three, so that a queue is empty, full and neither, and an
index wraps; more tasks than workers. Clients: one or two more than there are
descriptors in `reactor_reuse` and `multiplexer`, so that somebody waits and
numbers are reused; as many as there are workers or descriptors in `pool_server`
and `reactor`, where the question is whether all are served. Requests are
bounded by `MaxRequests`, two for a client that pipelines, since the interplay
of a full send buffer, a buffered reply and a request yet unread needs two;
clients that both have requests under way are in `reactor_reuse`. `SndBuf` is
one reply, so that a send is partial as soon as two are owed.

Two-bit ints have every case of wider ones: a sum, a difference and a product
that wrap, the quotient that does not fit, both divisions by zero. The three
texts are an empty one, one, and a longer one whose end a shorter one leaves in
the buffer and which one speaker's line has no room for. One descriptor or two
for the calculator's two clients: with one, a connection without a thread takes
the last. `MaxConns` of three lets a client come back while another waits,
`MaxAhead` lets lines and rests of answers pile up. Two servers after one another
show what the first leaves to the second. The shell's lines have each operator,
two operators, blanks, three exports of which two share a name, and one without
a value for each name.

`Multiplexer`, `PoolServer`, `ChatServer`, `BlockQueue`, `RingQueue`,
`UdpServers`, `FifoServer`, `Shells` and the calculator have no bound on the
length of a run: clients return, commands and messages keep coming.

Deadlock is checked in the queues and the pool, and not where a program may end:
the reactor (the assertion, the division), the pool server (SIGPIPE, set-up that
fails), the multiplexers (constructors that fail), `servers` and `processes`.
There the liveness properties say who may stop.

### Fairness

Weak fairness of each thread's or process's own steps: the scheduler runs
whoever can run. Each module says which steps. None is assumed of the order a
mutex is granted in, of signals, or of anything a user or client decides; a
client that is sent replies is assumed to read them only in `RequestAnswered`,
and the clients of the calculator, of the iterative and of the forking servers,
whose programs are modelled, to run their own `recv`. Spurious wakeups happen,
but not for ever. `Delivered` is an instance of how far weak fairness carries:
`Recv` could take the mutex for ever while `Boardcast` waits, but the queue
fills, and then `Recv` sleeps without the mutex. The only strong fairness is of
a successful `accept` in the server of `10-28`, which retries whatever the
error: it does not fail for ever.

## Proofs

Each theorem holds for every value of the constants that satisfies the
assumptions of its module: any number of threads, children, clients and
descriptors, any capacity.

| Module | Theorems |
|---|---|
| `BlockQueueProofs` | `Invariance`, `Wakeups` (`NoLostWakeup`), `Refinement` (`ImplementsBoundedFifo`) |
| `RingQueueProofs` | `RingInvariance`, `TypeCorrect`, `RaceFreedom` (`NoSlotRace`), `Refinement` |
| `ThreadPoolProofs` | `TypeCorrect`, `Wakeups`, `TasksRunOnce` (`RunOnce`: a task is in one place at a time), `Refinement` (`ImplementsFifo`); `ProgramRunsPool`: the program refines the pool; `OnePoolForAll` (`OnePool`) |
| `PoolServerProofs` | `ServerRunsPool`: the server refines the pool; `SocketsOwned` (`SocketOwned`), `AnsweredBeforeClose` (`AnsweredIfSpoke`) |
| `ReactorProofs` | `ReactorInvariance`, `TypeCorrect`, `TablesInvariance` (`TablesAgree`), `OutputInvariance` (`OutputArmed`), `SenderInvariance` (`SenderHasOutput`), `NoEdgeLost` (`NoLostEdge`), `NothingParked` (`NoRequestParked`), `NoReplyIsLost` (`NoReplyLost`), `RepliesComeInOrder` (`RepliesInOrder`) |
| `MultiplexerProofs` | `TypeCorrect`, `NoCallBlocks` (`NeverBlocks`), `TablesStayInStep` (`TablesAgree`) |
| `ServersProofs` | `ServersRunChat`: the host refines the chat server; `SenderHears` (`SenderIncluded`), `ForksServe` (`ForkServed`), `CalculatorAnswers` (`CalAnswersRight`), `CalculatorEndsByTrap` (`CalEndsOnlyByTrap`), `PrintedWasSaid` (`UdpSaid`), `TypesCorrect` (`TypesOK`) |
| `ProcessesProofs` | `ProcessesRunPool`: the host refines the process pool; `StrayWriters` (`NoStrayWriter`), `CommandsRead` (nothing written to a pipe is left unread), `AbortsAreCutOffs` (`AbortsOnlyIfCutOff`), `ThreadsAreRight` (`ThreadsRight`), `CommandsRunWithLatest` (`RunsWithLatest`), `FifoLinesRead` (the safety part of what `NobodyWaits` says of the FIFO server), `TypesCorrect` (`TypesOK`) |

So every invariant and every refinement that the runs check is also a theorem.
The arguments:

- *Queues and pool.* `Consistent` ties program counters to locks and condition
  variables. A lost wakeup is then excluded by counting: each action moves one
  thread in or out of the set of those awake, and each signal pays for the item
  that was added. The counting lemmas (`OneMore`, `OneFewer`, `CountOne`) are
  about cardinalities of finite sets.
- *Ring.* Every slot is accounted for once, by a semaphore or by the thread that
  holds the token it took from one; the stored slots are the arc from `c_step` to
  `p_step`. That gives the free room of the writer's slot and, read as a
  sequence, the refinement mapping. `NoSlotRace` is not inductive without it.
- *Singleton.* `PoolInv`: the mutex is held from the second test to the end of
  the block, who constructs has seen no pool, and a pointer that is set names a
  pool with all its workers. `OnePool` alone says nothing of a caller that is
  between its two tests. The assumption is that somebody calls (`Pushers # {}`).
- *Server on the pool.* Each step of the server is one of the pool's or leaves it
  alone (`ServerPoolStep`), so the pool's invariant holds and each task is in one
  place. `ServerInv` adds that a connection is open exactly while somebody owns
  it, and what a worker owes its client by what it does next: what it is about to
  read is unread or settled, and it closes on a client that cannot speak any more
  or has had its one answer.
- *Reactor.* `ReactorInv` adds to the properties that a waiting connection is
  queued once, that the event being dispatched is the only one for its
  descriptor and of a socket that epoll accepted, and that an output event is
  either still wanted or due to a reset that `Recver` meets first. Without the
  last the claim that `Sender` has output does not survive a step. `EdgesKept`
  says of every descriptor whose input, output or backlog waits that the edge is
  on the ready list, among the events still to be dispatched, or with the
  handler that is running; of the last the server has none when it waits.
  `RequestsInHand`: a complete request is in an input buffer only between `recv`
  and the end of the loop over messages. `Flow` writes what a connection sent as
  what was read of it, what is in its buffer and what is still to come, and the
  replies to the first as what the client got, what is under way and the output
  buffer. What `Replies` computes of a longer stream comes from a lemma by the
  least counterexample (`f[n]` for every n, where induction would be natural).
- *Multiplexers.* Reported descriptors whose turn is still to come have not been
  closed (`Sweepable`, `Reported`), and the array names the listening socket in
  entry 0, so that an `accept` comes before any close of its sweep.
  `LeakedOpen` and `EpollAgrees` keep track of connections that could not be
  watched.
- *Process pool.* `KeptAlive`: no child has exited whose pipe the parent can
  still write to; `ChildHolds`: what a child holds is what it is about to close.
  Together with what the parent holds at each point they are inductive.
- *Chat server.* `Known`: a user whose message is about to be pushed, is in the
  queue or has been popped is in the table, which only grows. That needs
  `Carries`, what `Recv` holds at each point, and `Started`, that it has not run
  before `main` started it. The mutex plays no part.
- *Calculator.* `CalInv` says where a client's latest request or its answer is:
  nowhere, on its way, with the thread, on its way back, each in one or two
  pieces. The answer being right is arithmetic over ints of any width:
  `WrapFits`, `QuotientFits`, `HelperRight`. A crash has its cause in a request
  that traps, whose client asks for nothing more (`Crashed`).
- *Forking servers.* `ForkInv`: the first process holds the connection in hand
  only, one other process holds each connection at most, the parent that waits
  has one unreaped child, and a child that is gone has replied or was left.
- *UDP.* What a reader finds in a buffer after `recvfrom` has filled or overlaid
  it (`FillReads`, `OverlayReads`): texts hold no NUL, and the first byte of an
  address is none. With it, what is in the buffer was said, by the user in `key`
  as soon as there is a user to send to.
- *Shared memory.* `PageInv`, until an abort: whose names exist at each point of
  the server, that the page comes before the FIFO, and that a token that says
  quit was sent by a client of this server or that the client was cut off. After
  an abort the name stays and no server gets further (`Stuck`).
- *FIFO server.* `FifoInv` counts the children still to be waited for; unread data
  without a reader was noticed when it was written.
- *Tickets and names.* `SaleInv`: what was printed and what is left add up to all
  tickets, but for the one printed and not yet subtracted, whose seller has the
  mutex. `NameInv`: what the buffer holds by where the main thread is.
- *Shells.* `ShellInv`: what was parsed belongs to the line; a name that never
  was exported is found as it was inherited, which survives an export because
  what the pointer held before has an exported name or none; the first entry of
  the name that was exported last is the pointer, or there is none. `putenv` and
  what it does when it removes entries are lemmas of their own (`SetenvKeeps`,
  `UnsetenvKeeps`), the latter over the order-preserving numbering of the entries
  that are kept (`NthFacts`).

Left to TLC: liveness and everything under fairness, which TLAPS does not
prove (so `Flow`, `TasksRun`, `CallsReturn`, `RequestAnswered`, `Served`,
`Answered` and `NobodyWaits`), and with it that the fairness of a component
specification follows from its host's.

## What is abstracted

The text of prompts and log lines, and of messages where no property is about
it; JSON; the dictionary; the arithmetic of the Reactor's calculator (whether a
request can be deserialized is kept, and that a division may trap); destructors
that the programs never reach. `recv` into a buffer smaller than what has
arrived is modelled in `EchoServer` and the Reactor only; more events than
`epoll_wait`'s array holds in `ReactorSkeleton` only. `PoolServer` does not
model running out of descriptors, where its acceptor would retry without a
pause, as the calculator's does. The calculator's `Decode` is checked for the
repository's own client, which has one request under way; a client that
pipelines would have its second request wait for the next arrival. `UdpSaid` is
about the frame that the compiler lays out for `10-20`, where `key` keeps its
place between two rounds of the loop.

## Not modelled

- *Copies*: files with the same text as a modelled one, and the empty beginning
  of one (`网络版本计算器`). What is shown of the originals holds of them.
- *Exercises without state*: demonstrations of one call (`fork`, `exec`, `kill`,
  `fcntl`, sections of `10-11`), the progress bar, the library and build
  exercises, the database example. They do one thing after the other and end.
- *Logging*: formats a line and prints it.

Of the files that are modelled, the lines that no definition stands for are
comments, headers, printing, and code that was commented out.

## Plan

Done, in this order: the queues with their abstract specification; the reactor;
the pools and the server on one of them; the process pool; the multiplexers; the
chat server; the calculator, the iterative, forking and UDP servers and the
skeleton, in `Servers`; the shared memory, the FIFO server, tickets, names,
shells and small parents, in `Processes`; set-up and the other handlers of the
pool server, constructors of the multiplexers.

Then the proofs: every invariant and refinement the runs check.

1. A client of the calculator that pipelines, with the answer it is then owed:
   `CalInv` would say how many of its requests are in each place.
2. The iterative server: that a client's lines and the halves of its answers
   correspond, as `Flow` says it of the reactor, and its proof.
3. The chat server: that the messages broadcast are those queued, in order, from
   what `BoundedFifo` promises.
