# Formal models of gridmq

gridmq is a messaging library in C: sockets with a *protocol* (REQ/REP,
PUB/SUB, SURVEY, PUSH/PULL, BUS, PAIR), connected by *transports* (inproc, ipc,
tcp), with state machines that run in a few worker threads and in the threads
of the application.  This directory holds TLA+ models of its core, the
configurations that check them with TLC and the theorems about them that TLAPS
proves.  All paths below are relative to the repository; the library is in
`src/`.

    tlasany M.tla ; tlc -config MCX.cfg MCX.tla ; tlapm XProofs.tla

`PROJECT.json` lists the components, the runs, a plausible bug (*mutant*) that
each property detects, the source lines behind every definition, the findings,
the hazards and the theorems.

## The system

How the parts talk to each other:

- The application calls `core/global.c`, which finds the socket in a table and
  takes a *hold* on it.  The call then enters the *context* of the socket
  (`aio/ctx.c`, a mutex with a queue of events): every state machine of a socket
  runs inside its context.
- A socket (`core/sock.c`) owns a protocol object (a `sockbase`), endpoints
  (`core/ep.c`) and, through them, pipes (`core/pipe.c`).  A pipe tells the
  protocol that it can receive or send once more; the protocol tells the socket
  whether it is readable and writable; on leaving the context the socket shows
  that on two event descriptors (`utils/efd.c`) on which blocked callers wait.
- State machines (`aio/fsm.c`) exchange events: synchronously by *actions*, in
  the same context through the queue that is emptied on leaving it, and between
  contexts (`grid_fsm_raiseto`) through a second queue whose events are
  delivered after the first context has been left.
- Timers and OS sockets live in worker threads (`aio/worker.c`).  Their owners
  push *tasks* to the queue of the worker, which enters the owner's context to
  run them.

| Component | State it keeps | Operations | What is hard | What makes it correct |
|---|---|---|---|---|
| timers, worker thread | timer state, task queue, wakeup descriptor, timer set | start, stop, task execution, expiry | owner and worker interleave; expiry against stop | no lost wakeup, order of expiries, an expiry only for the start it belongs to, a stop ends |
| REQ socket | request state, id, body, reply, `sent_to`, resend timer | send, recv, pipe added/out/in/removed, timer events, close | the timer has to be stopped asynchronously while requests, replies and pipes change | a reply only to the current request and once; nothing kept back; closing ends |
| priority list, lb, fq | slots, a cursor per slot, the current slot | add, activate, use, remove | cursor and current slot after any removal | most urgent ready pipe, turns inside a priority, a pipe is in the list iff it is ready |
| inproc transport | endpoints, sessions, one message queue per session, a parked message | bind, connect, handshake, send, recv, disconnect | two contexts, events in flight while either side stops | FIFO without loss or duplicates, exactly one confirmation per message, closing ends |
| socket table and sockets | table, stack of free slots, holds, socket state, two event descriptors, semaphores | `grid_socket`, `grid_close`, `grid_term`, send, recv, bind/connect, shutdown, setsockopt | callers that block while others close; the end of the library | a call always has its socket; closing waits for all calls and ends; blocked callers are woken |
| SURVEYOR socket | survey id, deadline timer, respondents | send, recv, pipe events, timer events, close | the deadline races responses, a new survey and closing, while its timer stops | responses only to the current survey; every survey expires once; closing ends |
| REP and RESPONDENT sockets | backtrace, hash of pipes by key | send, recv, pipe events | the requester leaves in between; keys wrap round; re-hashing | a reply goes back over the connection the request came by, or nowhere |
| PAIR, BUS, PUB, PUSH, PULL, XREQ, XSURVEYOR | one pipe, or lists of pipes | send, recv, pipe added/removed/in/out | pipes that leave a list while it is walked; pushback; a refused peer | the lists hold exactly the usable pipes |
| messages and chunks | reference counts | allocate, free, copy to many, resize | counted ahead for all copies, shared by pipes and users | counts equal the references there are |
| SUB socket and trie | subscriptions in a patricia trie | subscribe, unsubscribe, match | nodes split, merged, rebuilt in three forms | no topic lost or invented |
| usock, poller, pool | state of an OS socket, tasks, polled events | start, listen, accept, connect, send, recv, stop | completions and stop cross between worker and owner | what was started ends; stop ends |
| tcp and ipc | connection state, header exchange, framing, back-off | connect, accept, send, recv, retry | failure in each state, closing in each state | listens and reconnects until closed; counters are right; closing ends |
| device | two sockets, one message in hand | poll, receive, send | peers and the library leave between two calls | every message passed on once, in order, the right way |
| statistics, options, symbols, the rest | counters, values | | locks of the statistics timer | |

## Modules

| Module | Models | Notes |
|---|---|---|
| `TimerOps` | one timer object of `aio/timer.c` and what the worker has of it | pure operators on a record, used by `Timer`, `Req` and `Surveyor` |
| `Timer` | a timer on its own, the *specification* a timer keeps | implemented by `Worker` |
| `Worker` | `worker.c`, `timerset.c`, `timer.c`: the task queue, the batch, the timer set, the loop | every step of the loop between two locks is an action; implements `Timer` for each of its timers |
| `MCWorker` | instance | |
| `ReqClient` | what a REQ socket promises its user | abstract |
| `Req` | `req.c` over `xreq.c`, the timer from `TimerOps`, closing the socket | implements `ReqClient` |
| `MCReq` | instance | |
| `PrioList` | `priolist.c` | pure operators on a record |
| `Scheduler` | what a balancer promises: the most urgent ready pipe | abstract |
| `Balancer` | `lb.c`, `fq.c` and `pipe.c` around the list | implements `Scheduler` |
| `MCBalancer` | instance | |
| `Channel` | two bounded FIFO directions that can be reset | abstract |
| `Inproc` | `binproc.c`, `cinproc.c`, `sinproc.c`, `msgqueue.c`, `ins.c` and the delivery of `ctx.c` | implements `Channel` |
| `MCInproc` | instances | |
| `Handles` | what the table of descriptors promises | abstract |
| `Sock` | `global.c`, `sock.c`, `efd.c` | implements `Handles` |
| `MCSock` | instance | |
| `SurveyClient`, `ReplyService` | what SURVEYOR, and REP or RESPONDENT, promise | abstract |
| `Surveyor` | `surveyor.c` over `xsurveyor.c`, the timer from `TimerOps` | implements `SurveyClient` |
| `Hash` | `hash.c` | pure operators on a record |
| `Replier`, `MCReplier` | `rep.c`, `xrep.c`, `respondent.c`, `xrespondent.c` | implements `ReplyService` |
| `Patterns`, `MCPatterns` | `xpush.c`, `xpull.c`, `xpair.c`, `xpub.c`, `bus.c`, `xbus.c`, `xreq.c`, `xsurveyor.c`, `dist.c`, `excl.c`, `pipe.c`, `chunk.c` | on `PrioList`; one socket of any of these types |
| `Trie` | `trie.c` | recursive operators on nodes, against the set of topics |
| `Sub`, `MCSub` | `xsub.c` on `Trie` | |
| `Usock` | `usock.c`, `poller_epoll.inc`, timers and tasks of one worker | operators on a world |
| `Stream` | `streamhdr.c`, `stcp.c`, `sipc.c`, `pipe.c` | extends `Usock` |
| `Endpoint` | `btcp.c`, `atcp.c`, `ctcp.c`, their ipc forms, `dns_getaddrinfo*.inc`, `backoff.c`, `ep.c` | extends `Stream` |
| `Transport` | the context, the worker, peer, user and resolver around them | the state machine of the three modules |
| `Device` | `device.c` | |
| `TimerLemmas`, `WorkerProofs` | proofs about timers and the worker | |
| `ReqProofs`, `InprocProofs`, `SockProofs` | proofs about the module they are named after | |
| `ProtocolProofs` | proofs about `PrioList`, `Balancer`, `Patterns` and `Surveyor` | the machines of `Balancer` and `Surveyor` are called `BalancerSpec` and `SurveySpec` so that it can extend all of them |
| `TransportProofs` | proofs about `Transport`, with `Endpoint`, `Stream` and `Usock` | |
| `RelayProofs` | proofs about `Hash`, `Replier` and `Device` | |

### Granularity

One action is what happens between taking a lock or a context and leaving it.
That is what other threads can see: an event handler with all the actions it
raises in the same context is one step, also when the C code goes through
several states (`grid_fsm_action` calls the handler recursively).  An assertion
that fails, an event without a case, a freed object that is used: these are
modelled as a step that sets `failed`, after which nothing moves; so that they
do not happen is a property, not an assumption.  Where they do happen, the
property names the exception (`OnlyFreedReplyAborts` of `Req`, `Excused` of
`Transport` and `Device`) or the environment is restricted, as described below.
A freed object may in fact have been allocated anew when it is used; the models
take its use as the end of the process in any case.  One step is not between
locks: `grid_chunk_realloc` reads a count without one, and is two actions of
`Patterns` for that.

### Correspondence with the code

`Worker`: `pc` is the place in `grid_worker_routine` (waiting in the poller,
expiring timers, running a batch of tasks); `tasks` and `batch` are the two
queues; `efd` is the wakeup descriptor; `timerset` is the ordered list with the
time that is left of each entry.  `lag` and `raised` are history variables.
`View(t)` is what the owner of one timer sees: `TimerAlone` says it is a `Timer`.

`Req`: `state` has the names of `req.c:47-56`; `id` numbers requests from 1, up
to `MaxId` of them (the code uses 31 random bits with increments);
`asked`, `reached` and `taken` are history variables: the ids a peer was given,
whether the request got to a peer, and whether the reply was handed out.  A
reply in the `reply` field is the id it answers, or what the handler left when it
terminated a message there: `Stale` when its body was short and is still
readable, `Freed` when its chunk was released.  `unread` is the set of pipes with
a message in the fair queue.  `lb` is for each pipe whether it is absent, busy or
ready.  `sock` is the part of `grid_sock_shutdown` that surrounds the protocol.

`PrioList` and `Balancer`: `pipes`, `cursor` and `current` are the fields of
`grid_priolist`; `pstate` is the in or the out state of a pipe (both follow the
same rules, `pipe.c:102-228`, and a pipe has one of each).  `owed` is a history
variable: who has to be served before a pipe's next turn.

`Inproc`: two sides, the connecting one `"c"` and the bound one `"b"`.  `carried`
is, for each thread, the queue of events it took out of a context on leaving it
(`ctx.c:51-96`) and has not yet delivered into the other: the window in which the
two state machines disagree.  The flags of a session are the ones of
`sinproc.h`; `in` and `out` are the states of its pipe.  A message is a number,
`sent` and `got` count them for the abstract channel.

`Sock`: `sock[s]` has the fields of `grid_sock` that others depend on; endpoints
are counted, in use (`eps`) and shutting down (`sdeps`).  `ready[d]` is how often
the protocol could transfer in direction `d`; the protocol itself is abstract.
`call[c]` is the place of a thread inside the library.  The steps `"wait"` and
`"poll"` are `efd.c:45` and `efd.c:49`: the descriptor is read first and polled
afterwards.  `glock` is used only while a thread waits for a context inside the
global lock, `stat` while the statistics timer is inside a context.

`Surveyor`: `state` has the names of `surveyor.c:38-47`; `surveyid` numbers the
surveys from 1, `sent` is the one that was handed to the pipes last.
`inbox[p]` is the survey that the response waiting in pipe `p` answers.

`Replier`: `conn[p]` numbers the connections a pipe object serves one after the
other, so that a reply to the wrong one shows although the object is the same;
`outpipes` is the hash, with the key function left open (`HashKey`); `backtrace`
is what the socket or the user of a raw socket keeps of a request.

`Patterns`: `instate` and `outstate` are the halves of a pipe, `data` what
`grid_pipe_setdata` keeps, `fq`, `lb`, `dist` and `excl` the lists of the socket,
`offered` and `wire` the messages a transport brings and takes away, `user` the
messages in the hands of the application, `elsewhere` the chunks another socket
still shares.  `refs` is the count in the chunk; `ChunksCounted` compares it with
all these places.  `grid_reallocmsg` of a shared chunk is two steps, the unlocked
look at the count and the copy that gives the chunk up; between them the message
is in `resizing`, and a chunk whose other holders left meanwhile ends in `leaked`,
neither held nor freed.  `Reopen` closes the socket and opens one of another type, so
one run visits all.

`Trie`: a node is a record with the fields of `trie.h`, its children a function
from characters; `Match` returns the set of the answers the code can give, two
when it reads behind the end of a message.  `Sub` keeps beside it the bag of
topics the user subscribed to (`subs`).

`Usock`, `Stream`, `Endpoint`: all objects of one endpoint live in one context,
call each other directly and answer through its event queue.  So the state is one
record `w` with a field per kind of object (`us`, `hdr`, `stcp`, `pipe`, `atcp`,
`tmr`, `ep`, `dns`), the queue `events`, the worker's `tasks` and their `copy`.
A call is an operator from a world to the world after it, or to the set of
worlds the operating system leaves a choice of.  Only `stop`, that the endpoint was
asked to stop, is a variable of its own: it is set once, when the context is entered.  `Transport` says who enters the
context when: `Process` handles the oldest event, and only when none is left may
a task, a timer, the poller, the user or the resolver come in.  An accepted
connection and its usock have the same name; a connected endpoint uses the first.
`us[u].asock` is the partner in an accept; `did` holds what the user already did
in this entry, so that a send or receive which ends at once is not repeated in it
for ever.

`Device`: `end` is what the caller passed, `way` the direction the thread is at,
`ready` the events it has seen and does not poll for (`pfd[i].events == 0`),
`held` the message between `grid_recvmsg` and `grid_sendmsg`.  Its machine is called
`DeviceSpec` because `RelayProofs` extends it together with `Replier`.

## What is checked

| Run | Bounds | Properties |
|---|---|---|
| `worker` | 2 timers, timeouts 0, 1, 2 | `Consistent`: assertions of `timer.c` and `queue.c`, order of the timer set, no lost wakeup. `TimeoutNotEarly`: at most one expiry per start, not before its interval, and for the start it belongs to; how late it may be is bounded by no property. `TimersEnd`: a stop ends, a running timer expires. `TimerAlone`: a timer that shares the worker behaves as `Timer` |
| `req` | 2 pipes, 2 requests, intervals 0 and 60000 | `OnlyFreedReplyAborts`: no assertion but the one on a discarded reply that is used; `Consistent`: timer, request and socket in step, no stale `sent_to`; `NeverIdleWithPeer`; `WaitsEnd`; `ImplementsClient` |
| `balancer` | 4 pipes, 2 priorities | `Consistent`: list, cursors and turns inside a priority; `ImplementsScheduler` |
| `inproc` | 2 threads, 3 calls of bind or connect, 4 messages, buffer of 3 | `Consistent`: no bad event, readable when there is a message; `OneTokenPerSender`; `ImplementsChannel`; `WaitsEnd` |
| `sock` | 2 threads, 1 slot, 2 endpoints, both directions | `NoAbort`; `TableSound`: holds and unused slots (with one slot their order is left to the theorems of `SockProofs`); `SignalsTellTruth`; `ImplementsHandles`; `CallsEnd` |
| `survey` | 2 pipes, 3 surveys, deadlines 0 and 1000 | `SurveyConsistent`: timer, survey and socket in step, no survey lost while the timer stops; `CloseCompletes`; `ImplementsClient` |
| `reply` | 2 pipe objects, 3 connections, 3 keys, 2 slots at first | `HashConsistent`: the hash has every pipe under its key, also after re-hashing, while the key counter goes once round; `ImplementsService` |
| `patterns` | 3 pipes, 3 chunks, 2 priorities, 8 socket types | `ChunksCounted`: the count of a chunk is that of its holders, also during a resize; `ListsConsistent`: the lists hold exactly the usable pipes, and the descriptors say so |
| `sub` | 11 topics of up to 5 characters, 5 subscriptions, 2 children in a sparse node, 2 characters in a prefix | `TrieConsistent`: the topics of the trie are those subscribed to, and its nodes have the shape `trie.h` describes; `FilterRight`: what is delivered matches, what is discarded does not |
| `transport` | both roles, TCP and IPC, 2 connections | `NeverAborts`, with the types; `OperationsEnd`: a send or receive in progress is polled for, queued or answered; `Listening`; `CountersTrue`: the statistics of `sock.c:1097`; `StopCompletes`; `KeepsGoing`: connections are retried, a silent peer is given up |
| `device` | every pair of sockets a caller can pass, 2 messages a side | `HasVerdict`: `grid_device_entry` gives every pair a verdict or a loop (what fails inside the two loops is left aside, see the limits); `Relayed`: what was sent to one side is what came from the other; `MovesOn`; `TermEnds` |

Properties that are conjunctions name their parts; each part is an operator of its
own in the module, with a comment of its own.

Why the bounds are enough for the cases that matter.  Two timers are needed for
one to expire before the other, and timeouts of 0 to 2 for every order of
expiry.  Three surveys allow one that is replaced, one that expires and one that
is answered late; two requests are enough, since `req.c` only compares an id with the
current one; two pipes allow the loss of the one asked while another is free.  Four pipes in two slots give a slot with a pipe before
and after the cursor.  A buffer of three with four messages gives a queue that is
empty, partly filled, full, and a message parked at the sender; three
calls of `grid_bind` or `grid_connect` make a connection and let one side, either
of them, come back once after it closed.  With two threads one
can be anywhere in a call when the other closes.  Three keys for three
connections let the counter start anywhere and pass from the last key to the
first, but not reuse a key: that takes 2^31 connections, and a pipe that still has
the key would then end the process (`hash.c:101`).  Two slots with two items make
the hash grow.  Three
pipes give a distributor one that is skipped, one that becomes busy and one after
it; three chunks give one on the wire, one offered and one in the user's hands.  The
trie's node sizes are constants: with two children in a sparse node and prefixes
of two, four characters give nodes that become dense, grow at either end, shrink
and become sparse, and a topic of five characters needs a chain.  Two connections
give a bound endpoint one that lives while the next is accepted or fails.

`CHECK_DEADLOCK FALSE` stands where the system may really stop: after a close,
after the last request, message or connection of a bound, when every thread is
blocked and nobody sends, or after a documented assertion.  The worker and the
balancer never stop: their runs check deadlock.  Symmetry is used in `patterns`
only, which has invariants alone.

### The run that shows a disagreement

`sub_wide` lifts a restriction of `sub` (`AllowWide`): there a subscribed topic
is never continued by more others than a sparse node has room for.  Without it,
`AnyTopicDelivers` fails: `trie.c:379` and `trie.c:607` rebuild a node with
`refcount = 0`, and the topic that ends at it is forgotten.
`man/grid_pubsub.txt:36` promises "If the socket is subscribed to multiple
topics, message matching any of them will be delivered to the user."

### Environment

Some models restrict their environment in the passing runs, because the code
itself fails outside of it.

- `Sock`, `OrderlyNext`: a thread closes a socket only while no other is in
  bind, connect, shutdown or setsockopt on it (`Quiet`; blocked senders and
  receivers are allowed, they are the interesting case), and `grid_term` is
  called when no socket has endpoints or is being closed (`Calm`).  Without
  `Quiet` an endpoint is added to a socket that is closing (`sock.c:519` does not
  look at the state) and the assertion at `sock.c:926` fails, or
  `grid_setsockopt` calls a protocol that `sock.c:942` destroyed.  Without `Calm`
  a zombie socket takes no event at all (`sock.c:1047`) and ZOMBIFY has no
  transition in STOPPING or FINI (`sock.c:937`, `sock.c:960`).  `Next` is
  unrestricted, and the theorems about the table are about it.
- `Sock`, `StatNext` adds the statistics timer.  With it `grid_close` waits for
  the context of a socket inside the global lock (`global.c:535`) while the timer,
  inside that context, calls `grid_send` (`global.c:1052`) and waits for the
  global lock.  The run leaves it out, since after that nothing moves.
- `Inproc`, `OrderlyNext`: connections are made and broken while no event is
  under way (`Quiet`), messages are transferred while no connection is made or
  broken (`Calm`).  A program with one thread always does so, since a call
  delivers all its events before it returns.  Within these limits both threads
  send, receive and deliver at the same time.  In `Next`, closing an endpoint
  while the event of its last message is on its way reaches the assertions at
  `sinproc.c:296-298`, which deem that impossible.
- `Sub`: only what was subscribed is unsubscribed (see *Not modelled*), and
  `AllowWide` as described above.
- `Transport` and `Device`: the assertions the code does fail are modelled like
  all others and set `failed` or `result`; the constant `Excused` names those
  that `NeverAborts` and `HasVerdict` leave aside.  Taking a name out of it in the `.cfg` gives the
  trace.  They are:

| Excused | What happens |
|---|---|
| `streamhdr: usock event` | `streamhdr.c:261` and `:289` allow only ERROR after the timer of the exchange expired; SENT, RECEIVED or SHUTDOWN may be on their way |
| `usock not active` | a usock breaks and the session, not told yet or ignoring it in STOPPING_TIMER_DONE, calls `grid_usock_recv` or `grid_usock_send` on it (`usock.c:460`) |
| `usock started twice` | `ctcp.c` goes to WAITING when binding fails and leaves the usock in STARTING, so the next attempt starts it again |
| `task queued at term` | a send that could not end at once is a task; ERROR comes first, the connection is stopped and its usock destroyed with the task in the queue |
| `stcp: event when done` | a header larger than allowed moves the session to DONE while SENT is queued |
| `pipe: event after removal` | a pipe is removed in the section that started it, with its event IN still queued |
| `sipc: message type` | `sipc.c:333` asserts that a message of the peer begins with the byte 1, so that over IPC any other byte ends the process |
| `usock: accept` | `accept` fails with an error the code deems impossible (`usock.c:352`, `:922`): Linux reports errors of the network that are pending on the new connection this way |
| `getsockopt` | the device asserts that `grid_getsockopt` works; with a closed socket or after `grid_term` it does not, though `man/grid_device.txt` promises EBADF and ETERM |
| `ENOTSUP` | a loopback device on a socket with one direction |
| `recv EAGAIN`, `send EAGAIN` | a peer leaves between `poll` and the call that does not wait |
| `EINTR` | `device.c:234` asserts before it tests for EINTR, which the manual promises |

Limits of what is modelled: a descriptor number is not used again for another
file (`Sock`); a protocol accepts every pipe (`Inproc`); intervals are not
negative (`Req`: `grid_req_setopt` accepts a negative one, which ends the
process at `timer.c:79` with the next request); an endpoint does not connect to port 0
(`Transport`: `ctcp.c:153` accepts the address and `ctcp.c:559` asserts that the port
is positive when it begins to connect); the sockets of a device are not
closed under it and have no timeouts (`Device`).

### Other differences met while modelling

No run is about these; the models do what the code does, or leave the data out.

- `req.c:184`: a message that arrives after the answer was stored is received into
  the same field and terminated there (`Stale`, `Freed` in `Req`): the stored answer
  is lost, though `req.c:228` says that it is stored in that field.  `grid_recv`
  then hands out the body of the other message, or a released chunk, and closing
  the socket terminates the field once more (`req.c:113`): the tag assertion at
  `chunk.c:211`.  The same in any state in which nothing else arrives before the
  socket is closed, so that one late reply to a cancelled request is enough.
- `req.c:199` returns after a reply it accepts, and `xreq.c:190` stops it at a
  message that is too short: what other pipes have received waits in the fair queue
  until a pipe has its next event (`unread`).
- `priolist.c:114`: a pipe that becomes ready is appended behind the cursor, so
  with two pipes that are always ready a third is never served; `fq.h:30` says
  round robin.
- `global.c:1383`: after `grid_term`, `grid_close` fails with ETERM too, though
  `man/grid_term.txt:23` exempts it.
- `trie.c`: a message that ends inside a topic is compared beyond its end;
  unsubscribing what was not subscribed may follow a NULL pointer.
- `chunk.c`: a message that is resized while the last other holder of its chunk
  lets go leaks the chunk: line 111 reads the count without a lock, line 140 lowers
  it and does not free at zero (`leaked` of `Patterns`).  Resizing a shared chunk copies as many bytes as the old one had, also
  into a smaller one; resizing a trimmed one ignores the empty space.
- `usock.c`: the receive buffer keeps its bytes over a restart of the usock.
- `sipc.c` ignores GRID_RCVMAXSIZE (`man/grid_setsockopt.txt:44`).
- `backoff.c` takes a maximum below the interval as a limit, though the manual
  says it is ignored, and is never reset after a connection.
- Statistics: an attempt that is stopped stays counted as in progress; a
  connection that broke and is then stopped counts as both; the error of an
  endpoint that is destroyed stays counted; bind errors never are.
- A listener that runs out of descriptors is woken again at once, for ever.

### Fairness

- `Worker`: weak fairness of the loop (the thread runs) and of the clock.
  No owner has to do anything.
- `Req`: the worker runs its two tasks and the expiry; an endpoint that was told
  to stop drops its pipes and reports it.  No fairness for users or peers.
- `Balancer`, `Replier`, `Patterns`, `Sub`: none, their properties are about safety.
- `Inproc`: a thread delivers what it carries.  That a sender may
  go on needs that
  the user of the other side keeps receiving: strong fairness, since sending
  and receiving enable and disable each other.
- `Sock`: a thread inside a call goes on (weak fairness: blocking on a
  descriptor is not enabled until it is signalled); endpoints and protocols that
  were told to stop do so.  Nobody has to send, close or time out.
- `Surveyor`: as `Req`.
- `Transport`: events of a context are handled (weak fairness).  The worker runs
  its tasks, serves timers that expired and a lookup ends, with strong fairness:
  the loop of `worker.c:158-254` does each of these in every round, while a
  listener short of descriptors, or a peer that sends without end, keeps the
  poller busy and so disables and enables them for ever.  Peer and user owe
  nothing.
- `Device`: its thread goes on whenever a call of it returns.

## What is proved

`WorkerProofs!TimerIsConsistent`: for a timer on its own, `Spec => []TimerInv` of
`Timer` (stated with the instance of it that a view of the worker is).  The
invariant says for each state of the timer which tasks may be queued and whether it
may be in the timer set; `TimerLemmas` proves for each operator of
`TimerOps` that it preserves it and what it does to the state.  The same lemmas
serve `Req` and `Surveyor`, which own such a timer, and `TimersAreConsistent` is the
same of every timer of a shared worker.

`ReqProofs`: for any set of pipes, any `MaxId` and any set of intervals that are
naturals, `Safety => []X` for X each of `OnlyFreedReplyAborts`,
`Consistent` (`TypeOK`, `TimerFollowsRequest`, `SockFollowsRequest`, `AwaitsPeer`),
and `NeverIdleWithPeer`.  None of these is inductive alone.  `OnlyFreedReplyAborts` needs
to know that the timer is idle when it is started and that the pipe chosen
for a request is ready, that is `TimerFollowsRequest`, which in turn needs
`TimerConsistent` and the relation between `sock` and `state`; `AwaitsPeer`
needs the types.  Their conjunction `IInv` is inductive (theorem `Invariant`):
one lemma per action, under it one step per conjunct.  The hypothesis
`Intervals \subseteq Nat` is what `grid_timer_start` asserts and `grid_req_setopt`
does not check.

`ReqProofs!SocketServesClient`: from the same hypothesis,
`Safety => ImplementsClient`, the step simulation of `ReqClient` by `Req`.  It
needs one more invariant, `AwaitedReached`: an answer is awaited only for a
request that was handed to a peer.  Neither theorem hides what becomes of a
stored reply: the client has `lost`, a later message in its place, and a released
message that is used is the exception in `OnlyFreedReplyAborts`.  One lemma per action says which step of the
client it is, or that the client sees nothing.

`ProtocolProofs`, on `Surveyor`: for any respondents, any `MaxId` and any set of deadlines
that are naturals, `SurveySafety => []SurveyConsistent`, which is inductive as it stands: it
fixes the state of the timer in every state of the socket, so that each event
finds the case it needs and `grid_timer_start` an idle timer; that a survey
held back in `CANCELLING` has an id is what the handler of `STOPPED` needs to send
it.  `SurveyorImplementsClient` is `SurveySafety => Client!Safety`, the step simulation
of `SurveyClient`; its fairness is checked by the run.

`SockProofs`: for any number of threads, slots, endpoints and messages, and for
`Next`, which lets the program call in any order, `Spec => []X` for X each of
`TypeOK`, `HoldsCounted`, `TableConsistent` and their conjunction `TableSound`, and
`Spec => ImplementsHandles`;
`OrderlyIsSpec` carries them to the specification of the runs.  The
inductive invariant `IInv` adds to `HoldsCounted` that a socket without a state
has neither users nor closers, that a closer who is past `grid_sem_wait` finds
no holds, that `termsem` is posted only when the socket is finished, and that no
slot is twice in the free part of the stack: without the last
`grid_socket` could leave a slot in the table that it has just given out.  Most
actions are proved to be `Hidden`, a step that neither the holds nor the table
see, which one lemma treats (`HiddenKeeps`); the six others have a lemma each that
shows both the invariant and the step of `Handles`.  The proof assumes that there are
finitely many threads.  It covers `Spec`; the actions of the statistics timer are
in `StatSpec` only.

`NothingAborts` is `NoAbort` of the specification with the environment of the runs
(`OrderlySpec`).  Its invariant says that an orderly program keeps a socket
configured only while it is active, that a socket which is closing has handed over
all its endpoints, and that each thread past a step of closing finds the state that
step leaves behind.

`SockProofs!SignalsAreTrue`: `SignalsTellTruth` of the same specification.  It is inductive once
types are known: every step that makes a socket anything but active signals its
descriptors, every step that changes what an active socket can do leaves its
context, and nothing else touches them.

`RelayProofs`, on `Replier`: for any pipes and requests, any key space with room for
`MaxConn` keys, any number of slots at first and any hash function into the naturals,
`Spec => []HashConsistent` and `Spec => ImplementsService`.  That a map `Holds` a set of
items, each in the slot of its key, is kept by inserting, erasing and re-hashing,
the last because an item of slot `i` of the doubled array came from slot `i % slots`
(`ModOfMod`).  `IInv` says that the map holds the pipes in use, and that the keys are
those of connections counted from some start (`KeyedFrom`), also the key in a header
whose connection is gone: since the counter goes round once at most, a header finds
the pipe of its own connection or none, which is both why no key is in use twice and
why a reply is never sent to another peer.

`RelayProofs`, on `Device`: `Relayed` for any number of messages.  The inductive invariant adds
that the thread holds a message only between receiving and sending, and that a
direction leads to the opposite socket, which is where the kind of the device that
`grid_device_entry` found comes in.  `DeviceHasVerdict` is `HasVerdict` from the
hypothesis that the failures listed in `Documented` are excused: two sockets whose
directions fit always share one, so the last assertion of `grid_device_entry` is
not reached.

`WorkerProofs`: for any set of timers and any set of intervals that are naturals,
`Spec => []Consistent`, `Spec => TimeoutNotEarly` and `Spec => TimerAlone`.  The
inductive invariant `IInv` relates the state of each timer to four places at once
(`InStep`): an idle timer has no task, no entry in the timer set and is not being
fired; a running one has no stop task, and an interval exactly while its start task
is pending; a stopping one has its stop task pending; a timer whose start task is
pending is neither armed nor fired, and a running one that has expired is none of
these any more (`raised`).  To know what remains when a task is popped
it needs that no two tasks of a timer are queued but a stop behind its start, over the
batch and the queue together (`QueuesInOrder`), and to know that an expiry is not
early that `lag` never exceeds what the worker still waits (`OnTime`).  Lemmas say
what `grid_timerset_add`, `grid_timerset_rm`, taking the first entry and a tick of
the clock do to a timer set in order, and what pushing and popping do to a queue.  The
refinement has a lemma per action: which step of `Timer` it is for the timer it
is about, and that no other timer sees it.

`ProtocolProofs`, on `Balancer`: for any pipes and priorities, `BalancerSpec => []Consistent`
and `BalancerSpec => ImplementsScheduler`.  What all of the module rests on is
`Holds(l, S, d)`: the list `l` has exactly the pipes of `S`, each once and in the slot of
its priority in `d`, the cursors point into their slots, and the current slot is the
best that is not empty.  One lemma for each of activating, advancing and removing says
which `S` the list holds after it and what happens to the order in which pipes come up.
`BalancerInv` adds the turns inside a priority: whoever is still owed a turn before `p`
comes round again stands between the cursor and `p`.

`ProtocolProofs`, on `Patterns`: for every socket type, any finite set of pipes with any
priorities and any set of chunks, `Spec => []ListsConsistent` and
`Spec => []ChunksCounted`.  The inductive invariant has two halves.  `PipesInv` says that
each list `Holds` the ready pipes when the socket type uses that list and none
otherwise, and what the states of a pipe tell of its messages (`PipeSound`: an active
pipe offers a message unless it is receiving, and sends one exactly while it is
`ASYNC`); a socket that a `PAIR` socket was before, or a list that only another type
fills, must be known to be empty, since closing asserts it.  `ChunksInv` says who may hold
a chunk together with whom: a chunk of the user is neither offered nor sent, an offered
one is not sent, no two messages or offers are one chunk, and nobody has a leaked one.  Without that the count
would not be the number of holders: a chunk that is sent must have no pipe yet when
`grid_msg_bulkcopy_start` takes references for all of them.  Each step is first shown to
change one list (`InLists`, `OutLists`, `RmLists`) and one place of a chunk (`Busied`, `Taken`),
whichever socket type it came through.  `dist` is a set: `grid_dist_send`
visits every pipe, and one entered twice would show in `count`.

`InprocProofs`: for any set of threads, any receive buffer that is not empty (what
`sock.c:348` demands) and any number of messages, `OrderlySpec => []Consistent`,
`OrderlySpec => []OneTokenPerSender` and `OrderlySpec => ImplementsChannel`.  None of
the invariants is inductive, since whether an event is expected depends on what the
other side is doing, in another context.  `IInv` therefore is the phase of the
connection (`Phase`): a thread carries one event at most and no event is carried
twice (`OneEach`); while a connection is made or broken exactly one event is on its
way, and which one it is determines the state of both sessions and both endpoints
(`Asked`, `Accepted`, `Confirmed`, `Left`, `Answered`); without an event the sides are
`Apart`, or both are `Live` with a `Token` in each direction.  Each operation has a
lemma that says from which phase to which it leads.  For transfers a lemma says what
the operation does to the sessions (`SendDoes`, `DeliverSentDoes`, ...); both the
invariant and the step of `Channel` follow from it.  Orderly use is a hypothesis: with
`Next` alone the assertions at `sinproc.c:296-298` are reached (see above).

`TransportProofs`: for any finite set of connections that is not empty,
`TransportSpec => []Listening` and `TransportSpec => []CountersTrue`.  Both speak of an
endpoint that was not asked to stop, when its context is left; neither is inductive.  The
inductive invariant, `TransportInvariant`, is about every event in between as well, until
an assertion fails or the endpoint is told to stop.  It has two parts:

- `Core`.  A session runs exactly while its endpoint, or its atcp, counts it as a
  connection, and is being stopped exactly while that waits for it (`LinkOk`).  An event
  of a session or an atcp goes to who runs it, and finds the one that raised it in the
  state it speaks of (`EventsOk`, `AtcpOk`): without this `BROKEN` or `STOPPED` could be
  counted twice.  The counters are what they count (`CountsOk`).  The
  listener is never asked to stop, and its tasks only ask the poller to watch it
  (`ListenerOk`).
- `PhasesOk`.  A bound endpoint is in one of four phases of its wait for the next
  connection: the listener is polled, or about to be, and knows the socket to accept into
  (`Await`); that socket has an event that it was accepted (`Arrived`); the listener has
  an event that there was no descriptor (`Short`); or the atcp tells the endpoint that
  it has its connection (`Reported`).  When no event is left only `Await` remains, which
  is `Listening`.

A handler of these machines calls down through several layers, and each layer may queue
events and tasks, so that the lemmas follow the layers and not the actions.  `UsOp(x, y, c)`
says what any operation on the usock of connection `c` may do to the world, and one lemma for
each operation of `Usock` shows that it does no more; the header exchange and the pipe
are the same, `Sess` and `Turn` are that of a session, `Moved` and `Quiet` that of an endpoint.
For each of them one set of lemmas says what it leaves of `Core` and of `PhasesOk`
(`SessWorld` and those after it, `WidePending` and those after it, `TurnLink`, ...).  Then
there is a lemma for every event an endpoint, an atcp or a session handles (`ConnectedSafe`,
`ArrivedSafe`, `AtcpStoppingKeeps`, `GoneKeeps`, ...), which says that the world after it is `Safe`:
an assertion failed or the invariant holds.  What a failed assertion leaves behind is of no
interest, the process is gone; which assertions can fail is for `NeverAborts`.

Only model-checked:

- everything about liveness and fairness, which the prover does not handle;
- `TrieConsistent`, `FilterRight` and `AnyTopicDelivers` of `Sub`: what `Trie` computes is
  recursion over data, its operators are RECURSIVE and for TLC only;
- `NeverAborts` and `OperationsEnd` of `Transport`.  They hold while an endpoint is being
  stopped as well, where it stops all its connections in one step; that is a fold over
  a set, and what a fold leaves of an invariant takes an induction whose theorem has
  an operator as a parameter.  `NeverAborts` moreover leaves aside the assertions that do
  fail, which `TransportInvariant` need not tell apart.

## Not modelled

- `grid_worker_term` and the end of the library (`global.c:302-347`).
- Parsing of addresses, host names, literals and base64; the values of options;
  byte order and random numbers; system calls.
- The pollers for kqueue and poll, which stand in for epoll on other systems.
- Unsubscribing what was never subscribed (undefined behaviour, see above).
- Several endpoints at one inproc address, socket types that do not match.
- Small messages stored inside a chunk reference (but for the reply field of
  `Req`), and trimming of chunks.
- Publishing statistics, the table of symbols, `grid_poll`: plain data.
- The hooks of REQ for language bindings, which reach the same actions.
- The command line tool, tests and examples.

## What could come next

The composition of REQ with the priority list and of a socket with inproc; the
end of the worker and the library; the assertions of `Transport` one by one, on top of
`TransportInvariant`, beginning with `Usock` (which tasks and events a stopping socket may
still have).
