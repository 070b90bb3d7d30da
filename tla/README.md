# A verification of rdma-client-server

`rdma-client` connects to `rdma-server` over an RDMA reliable connection, both
exchange the address, length and key of a buffer, the client writes its message
straight into the server's memory, reads it back and prints it; the server waits
for the disconnection, prints its buffer and ends. `socket-client` sends one line
over TCP to `socket-server`, which prints what it reads. This directory models
those four programs, the library calls they use, and the calls that can fail.

Line numbers refer to `src/rdma/` and `src/sockets/` of the repository.

## 1. The system

| Component | State | Operations | Modelled in |
|---|---|---|---|
| `process_work_completion_event` (rdma_common.c:39-106) | the completion queue (CQ), its notification request, its event channel, `wc[]`, `total_wc` | wait for one event, renew the notification, poll until the batch is complete, test the statuses, acknowledge | `WorkCompletion`, `CompletionBatch`; inside the programs `RdmaCommon` |
| `process_rdma_event` (rdma_common.c:3-37) | the connection manager (CM) event channel | wait for one event, test its status and type, acknowledge it if it is wrong | `RdmaCommon` |
| `create_rdma_buffer` (rdma_common.c:108-134) | - | allocate and register | `RdmaServer` |
| client (rdma_client.c) | the globals: CM id and channel, protection domain, completion channel and queue, queue pair, four regions, two buffers, the server's metadata | ten functions called in a row by `main`, and `cleanup_client` | `RdmaClient` |
| server (rdma_server.c) | the same, with one listening id and one connection | six functions called in a row by `main`, and `cleanup_server` | `RdmaServer` |
| libibverbs, librdmacm, the device (not in the repository) | queues, connections, memory keys | completions, CM messages, SEND, RDMA WRITE, RDMA READ | `Verbs`, `RdmaFabric` |
| printing and naming of structures (rdma_common.c:136-950) | none | output | not modelled |
| socket-server (socket_server.c) | the listening socket with its queue of pending connections, `client_sockfd`, the buffer of `read_client` | set up, accept one client, read and print until it has disconnected, accept the next | `SocketChat` |
| socket-client (socket_client.c) | its socket and line | connect, read a line from stdin, send it, close | `SocketChat` |
| `main.c`, Makefile, Dockerfile | - | - | not modelled |

The programs are sequential. The concurrency is between a client, the server,
the two devices, the CM and further clients, and it is met at three blocking
calls: `rdma_get_cm_event`, `ibv_get_cq_event` and the polling loop (in the sockets
programs, `accept`, `read` and stdin). `main` of
either RDMA program has one shape: call the next function; if it does not return 0,
run the cleanup function and return. The cleanup functions test each global and
release what is not NULL, so they run on any prefix of the allocations.

How the components interact:

- The client's `rdma_connect` reaches the server as a CONNECT_REQUEST event; the
  server's `rdma_accept` comes back as ESTABLISHED, and the client's readiness
  as ESTABLISHED on the server. All CM events of the server, whatever client
  they are about, are queued on one channel (`cm_event_channel`).
- Each program posts a receive before the connection is up. The client SENDs
  `rdma_buffer_attr` first; the server allocates a buffer of the length it
  names and SENDs its own `rdma_buffer_attr` back. The client's wait for *two*
  completions covers its SEND and that receive.
- WRITE and READ are one-sided: the server's program is not told.
- The client's `rdma_disconnect` reaches the server as DISCONNECTED. The server
  never calls `rdma_disconnect`: the client's own DISCONNECTED, for which
  `cleanup_client` waits, comes when the server destroys its id.
- A socket client is connected as soon as the kernel has queued it; the server may
  accept it later, when the client has sent its line and gone.

What is hard here: a notification that is renewed at the wrong moment loses a
wake-up; one event stands for any number of completions; events of a second
client arrive among those of the first, each with an id that somebody must destroy; either side can die or fail at any call,
and memory that the other side may still write must not be freed; a call can fail
without being noticed. With sockets, a line comes in pieces of any size into a
buffer that is not cleared between them.

## 2. The modules

| Module | Lines it models |
|---|---|
| `Verbs` | completion queues as the programs use them; external |
| `CompletionBatch` | abstract promise of `process_work_completion_event`: post a batch, wait, then have all of it, or fail |
| `EchoService` | abstract promise of the RDMA programs together: choose a client, make a buffer, store its message, show it, report it |
| `WorkCompletion` | the function step by step, one caller that posts and then waits, the device; implements `CompletionBatch` |
| `WorkCompletionProofs` | theorems about `WorkCompletion` |
| `RdmaCommon` | all variables of the session; `process_rdma_event`, `process_work_completion_event`, `main`'s error branches and the releases of both cleanup functions |
| `RdmaClient` | rdma_client.c |
| `RdmaServer` | rdma_server.c and `create_rdma_buffer` |
| `RdmaFabric` | CM and device; external, but for what the metadata contains |
| `RdmaSession` | composes the three above with `RdmaCommon`'s state: Init, Next, fairness, properties |
| `MC_session` | values of the constants for TLC |
| `SocketChat` | socket_client.c, socket_server.c, the comparison of socket_common.c; TCP as they use it |
| `SocketChatProofs` | theorems about `SocketChat` |
| `RdmaTypesProofs`, `RdmaResourcesProofs`, `RdmaConnectionProofs`, `RdmaExchangeProofs`, `RdmaCompletionProofs`, `RdmaEchoProofs` | theorems about `RdmaSession`; each module extends the one before it |

`RdmaSession` EXTENDS its parts, which share the variables of `RdmaCommon`.
`WorkCompletion` is separate and smaller, so that it can be explored and proved
for any batch size; `RdmaCommon` repeats its steps per process and says where
the caller of the moment takes over. `RdmaSession` implements `EchoService`:
`peer` is the chosen client, `buf.data` the memory, `printed` what is shown and
reported. `SocketChat` shares nothing with the other modules, as the programs do.

### State and code

A variable of `RdmaCommon` is a function on processes; its entry for `p` is a
global, or a group of globals, of the program `p`:

- `pc[p]` is the function `p` is in. A function with a wait is two actions: up to
  the wait, and from its end. `wait[p]` is the position inside
  `process_work_completion_event`, `got[p]` its `wc[]`, `ret[p]` its result and
  later that of `main`.
- `held[p]` are the non-NULL globals that need a release, and two things that were
  allocated and that no global points to (`Unreachable`): `leaked_buffer`, which
  `create_rdma_buffer` could not register, and `leaked_cm_id`, the id that came with a
  CONNECT_REQUEST read by another wait (`LostWith`; any number of them counts as
  one, since nothing ever takes one away but the end of the process). `client_queue_pair` and
  `io_completion_channel` of the server are called `queue_pair` and
  `completion_channel`, as in the client.
- `cq[p]` is the completion queue with its channel (`Verbs`); `sq`, `sent`, `rq`
  are the work requests posted, carried out but not completed, and the receives.
- `meta[p]` is the `rdma_buffer_attr` received; address and key stand and fall
  together, so the key alone is kept. `buf` is `server_buffer` with its length,
  `dst[c]` is `dst_buffer`, `printed[p]` what was printed as the message.
- `channel[p]` is the CM event channel; `cl[c]` and `sv[c]` are the two sides of a
  client's connection (states listed at the top of `RdmaFabric`).
- `ub` records undefined behaviour: an event freed twice (`free` then may abort,
  or not: both are steps), an access to freed memory (a READ then returns the old
  bytes or others).

The data is abstract: the message of client `c` is the value `c`, and only its
length `MsgLen[c]` is a number, since it crosses the wire and sizes the server's
buffer.

In `SocketChat`, byte i of client c is `<<c, i>>`. `link[c]` is the connection as the
server's `read` finds it, `sent[c]` and `taken[c]` count the bytes put into it and
read; `serving` is the function the server is in, `fd`, `buffer` and `n` are the
variables of `main` and `read_client`, and `line` is the last line printed: the
buffer up to its first terminator. `MAX_MSG_SIZE` and the 64 of `listen` are
constants.

### What can go wrong

`Faults` names the failures a run allows; every action that fails is in the
module of the function that fails.

| Fault | Meaning |
|---|---|
| `early` | a client is started before the server listens (its request is refused) |
| `call` | a call that allocates, registers, posts or starts something fails, at any point of its function |
| `get_event` | `rdma_get_cm_event` or `ibv_get_cq_event` fails |
| `notify` | `ibv_req_notify_cq` fails (checked by the server and the common code, ignored by the client) |
| `errno` | a verb that returns its error fails and leaves `errno` 0; the caller's `return -errno` is then success |
| `resolve` | address or route is not resolved |
| `timeout` | the CM gives up on connecting, on readiness or on disconnecting |
| `wc` | a request completes with an error, carried out or not |
| `kill` | a process dies; the kernel closes its connections |

`PollErrors` are the numbers k for which `ibv_poll_cq` may return -k.

In `WorkCompletion` the names are `get`, `arm` and `status`; in `SocketChat` they are
`call` (socket, bind, listen, connect), `accept`, `reset` (a connection is lost) and
`kill`.

## 3. What is checked

Passing runs:

| Run | Instance | Question |
|---|---|---|
| `wc_sound` | batches up to 3, all faults, poll error 4 | Is the event protocol right on every interleaving with the device, and does it implement `CompletionBatch`, liveness included? |
| `session_ok` | 1 client, no fault, deadlock checked | Do the programs always complete the echo and end, with everything released? Does each wait get its own completions; does the buffer stay; does the client leave last? |
| `session_peer_faults` | 1 client; early, call, resolve, timeout, wc, kill | With the other side, the network and the device failing: is what is printed the message, is remote access valid and never to freed memory, is a receive posted in time, is no wake-up lost, does the server wait for ever neither for the client it has accepted nor for its end, and is it all what `EchoService` allows? |
| `session_local_faults` | 1 client; call, get_event, notify, errno, poll error 3 | When any library call of either program fails, noticed or not: are regions registered while in use, objects released before what they are made of, has a server that reports no error lost nothing, and does it not report success too early? |
| `session_two_clients` | 2 clients (symmetric); early, resolve, timeout, kill | Does the server serve one client only, print what that client wrote, report an error if it has lost the other's id, and release what it can reach in an order the library allows? |
| `sockets_service` | 2 clients, a queue of 1, a buffer of 4, lines of 0, 1 and 5 bytes, ports 8082, 73618 and 80; call, accept, reset, kill | Is nothing of one client shown as another's, and is every client in the queue served, until all it sent is read, in whatever pieces? |

Runs that end in a violation, each a disagreement of the code with what the
repository says (PROJECT.json quotes the lines):

| Run | What happens |
|---|---|
| `wc_poll_error` | `ibv_poll_cq` returns -k, the function returns +k, which may equal `expected_wc`: a failure is taken for success. |
| `session_second_client` | The CONNECT_REQUEST of a second client is read by the server's wait for DISCONNECTED (or ESTABLISHED); the server cleans up and frees the buffer the first client is using. |
| `session_cleanup_hangs` | A refused client waits in `cleanup_client` for the DISCONNECTED of a connection it never had. |
| `session_errno` | `ibv_post_send` refuses the WRITE and leaves `errno` 0: `client_write_message` returns 0, and the client reads back and prints the zeros of the new buffer. |
| `session_lost_id` | A second client's CONNECT_REQUEST is read by the wait for DISCONNECTED and acknowledged: its id is in no variable, `cleanup_server` does not destroy it and destroys the channel it is on. |
| `sockets_stale_tail` | The second piece of a line is shorter than the first: the print after it ends with bytes of the first, shown twice. |

The properties, by what they are for:

- *Wake-ups.* `NoLostWakeup` in both models; `OneWakeup` (part of `WakeupInv`):
  between calls there is exactly one notification, pending or unread.
  `CleanHandover` and `OwnCompletions`: a call never takes a completion that
  belongs to another. `CallReturns`: each call returns.
- *Results.* `ResultIsCount`, `EchoIntegrity`, `ServerSeesMessage`: success means
  that the whole batch succeeded, and what is printed is what was sent.
  `ImplementsBatch` and `ImplementsService` state the order of it all.
- *Memory.* `RemoteAccessValid`, `NoFreedAccess`, `BufferStays`,
  `ClientRegionsRegistered`, `ReceiverReady`.
- *Resources.* `DependentsFirst`: each library object outlives those made from it;
  with two clients, `ReachableFirst`: the same but for the ids that are lost.
  `NothingLeaked`: a program that returns has released everything, which holds with
  one client and no failing call; two clients refute it. `NothingElseLeaked`: with two
  clients, or whatever fails, a server that has lost something reports an error.
  `CleanupFreesMessage` is what `cleanup_client` does not do.
- *Connections.* `OneConnection`, `ServerWaitsForClient`, `ClientLeavesLast`,
  `EchoHappens`; `AcceptEnds`: once it has accepted, the server does not wait for ever
  for a client that is gone; `ServerEnds`: a server that has handed out its buffer is
  released, whatever becomes of the client.
- *Sockets.* `LineContent`: a line is the bytes just read, in order, and after them
  only earlier bytes of the same connection. `StreamInv`: the server has read only
  what was sent, and its buffer holds bytes of the client it reads from and a
  terminator. `EveryoneServed`: a client in the queue gets its turn, and by the end
  of it all it sent was read. `LineIsWhatWasReceived` is what the code does not do.

Some hold only without some faults, which is why the runs differ:
`EchoIntegrity`, `RemoteAccessValid` and `NoFreedAccess` fail if the *server's*
`ibv_get_cq_event` or `ibv_poll_cq` fails while the client is connected, since the
server then frees its buffer at once; `NoLostWakeup` fails with `notify`, which the
client ignores; `EchoIntegrity` fails with `errno`, as `session_errno` shows;
`NothingLeaked` fails with `call`, because `create_rdma_buffer`
loses its allocation when the registration fails, and with a second client
(`session_lost_id`), and `DependentsFirst` with a second client, whose lost id is still
on the channel that `cleanup_server` destroys. With two clients the server frees
its buffer under the first (`session_second_client`), so the refinement of
`EchoService`, which has no such memory, is stated for one. `ServerEnds` excepts a
client that hangs in `ibv_destroy_cq` because the call that failed did not
acknowledge its event (`StuckInCleanup`), and starts when the buffer is handed out:
before that the server waits for a completion that a dead client will not cause.

Operators whose names begin with `Mutant` are the code with one plausible bug each;
every property of a passing run is refuted when one of them takes the place of
the definition it follows.

### Bounds

- `MaxBatch = 3` in `WorkCompletion`: the programs wait for 1 or 2 completions; 3
  adds a batch of which a poll can take any part. The number of calls is
  unbounded.
- One client is enough for a connection; two are enough for a second request to
  arrive at any moment of the first service. The server serves one and ends, so
  a third adds nothing but a second request of the same kind. Two socket clients
  are enough for one to follow another on the server's buffer, with one in the queue.
- `MsgLen = 2`: lengths are only compared. With length 0 a registration may also be
  refused, which is one of the failures of `call`.
- `MAX_MSG_SIZE = 4` with a line of 5: `fgets` cuts it to 3, and 3 bytes can come in
  every partition, the longer piece first or last; 1 and 0 are the empty line and
  the end of the input. `Backlog = 1` makes the second client wait or retry. The
  ports are a valid one, the one that is cut to it, and one that is not valid.
- No other bound is needed in `RdmaSession`: each program runs once and posts at most four requests.
- `PollErrors`: 4 and 3 are values no wait can expect; 1 and 2 are those of the
  violation run.

Deadlock is checked in `session_ok`. In the other runs the system can really
stop: a process waits for ever for a dead one, or in a cleanup that cannot end.

### Fairness

`WorkCompletion`: the device completes what is posted, and the calling thread
runs when it can; nothing forces a call or a failure. `RdmaSession`: weak fairness
of each program, of the CM for each client (its messages arrive or are given up)
and of each device. It is the fairness of an operating system that schedules
every runnable process, a reliable connection that retries until it succeeds or
reports an error, and a CM with bounded retries. No kill is fair; a failure that
stands beside a success in one action is chosen freely. `SocketChat`: the server is
scheduled, and a client that has sent its line closes. That somebody types a line
is no assumption of the specification; it is the premise of `EveryoneServed`,
because the server serves one client at a time and a silent one keeps the others
waiting. A failed `accept` (the server then spins in `read_client(-1)`) and a dead
server are excepted by name.

## 4. What is proved

The theorems hold for every value of the constants, within the assumptions named
here; PROJECT.json lists them. The theorems of a component are in a module of
their own. `ClientsAssumption`, `ContentsAssumption` and the like, beside the
constants, only tell values apart.

### `WorkCompletionProofs`

For every `MaxBatch`, every `Faults`, and every set
`PollErrors` that contains no number in `1..MaxBatch` (`HarmlessPollErrors`; with
such a number the results are wrong, as `wc_poll_error` shows):

- `WakeupCorrect`: `Spec => [](TypeOK /\ WakeupInv)`
- `TypeCorrect`, `NoLostWakeupCorrect`, `CleanHandoverCorrect`, `ResultIsCountCorrect`
- `WorkCompletionRefinesBatch`: `Spec => Batch!Safety`

The argument. `NoLostWakeup` is not inductive: that a completion in the queue
comes with an event follows only from how the last call left the queue. `IndInv`
adds three facts:

1. `OneWakeup`: the request for notification is a token. `ibv_req_notify_cq`
   makes it, the first completion after that turns it into an event,
   `ibv_get_cq_event` takes the event away. There is exactly one except between
   taking the event and renewing the request.
2. `ArmedWhenEmpty`: between calls, and before the event is read, a pending request
   means an empty queue. It holds because the renewal precedes the polling and
   the polling takes everything the batch had.
3. `Accounted`: queue, device and `wc[]` together hold exactly the batch, which the
   caller had posted, and partly got completed, before it called.

Each action has a lemma that it preserves `IndInv`; `NextIndInv` combines them. The
refinement adds that a poll moves errors between the queue and `wc[]` without
making or hiding one (`PollKeepsErrors`), so that `Broken` changes only when a
completion arrives or the call ends.

### `SocketChatProofs`

For all clients, lines, ports, faults, buffers and queues of any size: `TypeCorrect`,
`StreamCorrect`, `LineContentCorrect`. The inductive
invariant is `TypeOK /\ StreamInv`. `StreamInv` says that `read` has
taken no byte that was not sent, and that the buffer holds, up to some index, bytes
of the client in `fd` that were read, and terminators from there on: that is what
makes the next `read` leave a terminated buffer although the buffer is not cleared
(socket_server.c:41-60). `LineContent` is a property of one step (`ReadIndInv`): what is
shown is the piece just read, then older bytes of the same connection.

### The session

The proofs about `RdmaSession` are for any set of clients unless a condition says
otherwise. Each invariant below is preserved by a step because of those above it:

| Module | Inductive invariant | What it gives | Condition |
|---|---|---|---|
| `RdmaTypesProofs` | `TypeInv`: the types, where a program can be inside a wait, and that the server posts SENDs only, and that CONNECT_REQUESTs are in the server's channel only | `TypeOK` | - |
| `RdmaResourcesProofs` | `ResourcesInv`: at each location, what the functions ahead need is held; an object within reach with those it is made from; a posted request with its region; at the end only what is out of reach | `ReachableFirst`, `ClientRegionsRegistered` | - |
| `RdmaConnectionProofs` | `ConnectionInv`: the states of both ends of a connection, the events about it and the programs agree that it is the chosen client's | `OneConnection`, `ServerWaitsForClient` | - |
| | `RequestInv`, `PatientInv`: while a client waits for an answer its channel is empty, and one event, the right one, comes | `ClientLeavesLast` | `Patience` |
| | `LossesTold`: a server that has lost something is in cleanup with an error | `NothingElseLeaked` | - |
| | `AskInv`, `NoLostId`: each client's request is in the server's channel once at most, and not the chosen client's; no id is lost | `DependentsFirst` | `SingleClient` |
| `RdmaExchangeProofs` | `ReadyInv`: a receive is posted until the other side's SEND has been carried out, and a SEND is always the oldest request | `ReceiverReady` | no `errno` |
| `RdmaCompletionProofs` | `Sized`: the server goes on with a length of 0 only if no receive has succeeded | `NothingLeaked` | `Sizes`, `SingleClient` |
| | `LedgerInv`: an account per process: each request of the step in hand is posted, carried out or completed, once; nothing of an earlier step is left; the token of the notification is where the wait needs it | `OwnCompletions`, `NoLostWakeup` | `Reliable`; `NoLostWakeup` also no `notify` |
| `RdmaEchoProofs` | `StoredInv`: a client whose WRITE was carried out is the chosen one and its message is in the buffer, and the server has printed that buffer only if the client has left | `ServerSeesMessage` | `Reliable` |
| | `ExchangeInv`: see below | `RemoteAccessValid`, `NoFreedAccess` | `Dependable`; `RemoteAccessValid` also `KeysCoincide` |
| | `OutlivesInv`: while the queue pair of a client that was told of the buffer is up, so is the server's | `BufferStays` | `Dependable`, `Undisturbed` |
| | `ReadInv`: a client whose READ was carried out has its own message in `dst_buffer` | `EchoIntegrity`, `ImplementsService` | `Dependable` |

Why the conditions are there; each is what a counterexample of TLC asks for:

- `Patience`: no `kill`, `timeout` or `get_event`. A killed client has its id closed by
  the kernel; a client that the CM has told that the server does not answer, or
  whose wait fails, goes on without the server.
- `SingleClient`: a second client's request can be read by the wait for ESTABLISHED or
  DISCONNECTED, which loses its id (`session_lost_id`). With one client the request is
  read by the wait for it: `AskInv` says that it comes once, so none is left when the
  other waits begin.
- no `errno`: `ibv_post_recv` that fails unnoticed leaves no receive, and
  `ibv_post_send` no request (`session_errno`).
- `Sizes`: no `call`, no empty message, 1 is not in `PollErrors`.
  `create_rdma_buffer` loses its allocation when it cannot register it, which a device
  may also refuse for a length of 0; the length is 0 as well if the server takes a
  poll error for the client's metadata.
- `Reliable`: no `errno`, and 1 and 2 are not in `PollErrors`: otherwise a failed wait
  looks like a complete one (`wc_poll_error`).
- no `notify`: the client ignores that its first request for notification failed.
- `Dependable`: one client, no `errno`, `get_event` or `notify`, `PollErrors` empty. These
  are the conditions of `session_peer_faults`. A second client's CONNECT_REQUEST
  (`session_second_client`), or a wait of the server that fails by itself, sends the
  server to cleanup while its client is still writing and reading.
- `Undisturbed`: no `kill`, no `wc`. `BufferStays` is about every moment in which the
  client's side is up, not only those in which it can access the buffer: a server
  that is killed, or whose SEND seems to fail after the client got it, releases
  its buffer at once.

`Dependable` leaves the faults that come from the other side, the network, the device
and the calls that start something: `early`, `call`, `resolve`, `timeout`, `wc`, `kill`.

`ExchangeInv` is what the echo rests on, and shows why it holds although each side
is never told what the other does:

1. `ServingInv`: from the request on the server has a client, and once it has a
   buffer this contains the zeros or that client's message.
2. `SoundInv`: as long as the server's queue pair is up, every completion it has got or
   will get is a success, so no wait of the server fails before the pair does.
3. `EventsInv`: with one client the server's events come in the order in which its
   functions wait for them, so `disconnect_from_client` is left only for a DISCONNECTED.
4. `ToldInv`: what was sent as metadata is the key of the region and the length of the
   message, and no WRITE or READ is posted before it was received.
5. `ServedInv`: a client that was told, or whose server has posted the SEND that will
   tell it, and that has not started to leave, finds the buffer and its region held
   and of the length of its message, unless the server's queue pair is down, when
   nothing can be accessed. The server leaves only by 2 (its pair is down) or by 3
   and `ConnectionInv` (the client is already leaving).

An access finds both pairs up, so 5 applies to it (`AccessFinds`). `EchoIntegrity` then
follows along the order of the requests: `LedgerInv` makes the READ come after the
completion of the WRITE, `StoredInv` keeps the message in the buffer from there on, and
5 says that the buffer read is not a freed one.

`ImplementsServiceCorrect` is `Spec => Service!Safety`. `ConnectRequest` is `Choose`,
the creation of the buffer in `SendServerMetadata` is `Allocate`, a WRITE carried out is
`Store`, or a stutter if it is carried out on the same message, `ReadComplete` is `Echo`, and
`disconnect_from_client` is `Report`; every other step leaves `peer`, `buf.data` and
`printed` alone. The guards of the abstract steps are instances of the invariants:
that `Echo` comes before `Report`, for example, is that of `StoredInv` about a client that
has not left.

TLC has checked most of these invariants on instances before they were proved: one
client with all faults but `errno` (about 590,000 states), two clients with kills,
timeouts and failed resolutions (1.6 and 2.6 million states), and the instance of
`session_peer_faults`.

### Only model-checked

- The liveness properties (`CallReturns`, the fairness part of `ImplementsBatch`,
  `EchoHappens`, `ServerEnds`, `AcceptEnds`, `EveryoneServed`), and that the programs do not
  deadlock: the proof system does not reason about fairness and ENABLED here.
- The violations, of which TLC gives a trace.

## 5. Assumptions about what is not in the repository

- Connections behave as InfiniBand reliable connections: requests of one queue
  pair are carried out in order, SEND consumes a posted receive, a failed request
  takes its queue pair to the error state and flushes the rest, and so does a
  refused one on the side that refuses it.
- A completion on the receiving side may be seen before the one on the sending side.
- Reading ESTABLISHED on the client brings its queue pair up; `rdma_accept` does so on
  the server. `rdma_disconnect` flushes the queue pair.
- `ibv_destroy_cq` waits for acknowledgements. `ibv_destroy_qp` drops the pair's
  completions. Other releases succeed.
- A library call that returns -1 or NULL sets `errno`; the verbs that return their
  error (`ibv_post_send`, `ibv_post_recv`, `ibv_req_notify_cq`) may leave it 0, which is
  the fault `errno`. `ibv_post_recv` on a null queue pair ends the process; before it the
  region may fail to be registered, which ends in cleanup (`ServerPostsToNoQp`).
- `rdma_ack_cm_event` of an event that is not NULL
  succeeds.
- Reading a CONNECT_REQUEST makes an id for it; acknowledging the event frees the event
  and not the id. `rdma_destroy_event_channel` does not wait for ids that are still on
  the channel. A server that destroys its channel, or dies, refuses the requests it
  never accepted, those whose id it has lost included.
- TCP delivers the bytes of a connection in order; `read` returns any number of those
  that are there, 0 at the end, and reports a reset once. The kernel takes a line of
  the client as a whole. A full queue makes `connect` wait.

## 6. What is not modelled

- The options of the RDMA programs and their defaults, the private data and
  flow-control fields of `conn_param` (uninitialised in both), addresses as numbers,
  the bytes of an RDMA message (so neither the missing terminator in the server's
  print), more than one run of a program.
- The functions that print structures and name flags (rdma_common.c:136-950), most
  of that file: they write to stdout and change no state of a protocol.
- A TCP peer that vanishes silently, and signals.
- Facts of the models no run states, since the code simply behaves so: an event that
  `process_rdma_event` reported as wrong is freed again by `cleanup_client` (action
  `Disconnected`; the process aborts or goes on); a client or server that fails on a bad completion
  status hangs in `ibv_destroy_cq` (`StuckInCleanup`); where the two keys of a region
  differ (`KeysCoincide = FALSE`) every WRITE is refused, since the server sends the
  local key; `cleanup_server` frees the buffer before it deregisters the region;
  a complete echo makes the client exit with 1 (`ReadComplete`); a failed `read` prints
  the message before once more (`ReadFails`), and a failed `accept` ends all service
  (`AcceptFails`).

## 7. Hazards

PROJECT.json lists them with their lines, the properties that guard them, and
for the uncovered ones the reason.

## 8. Plan

Done, in this order: `Verbs`, `CompletionBatch`, `WorkCompletion` and its proofs;
`RdmaCommon`, `RdmaClient`, `RdmaServer`, `RdmaFabric`, `RdmaSession`; `SocketChat`;
`EchoService` and its refinement; the fault `errno`; completions that arrive before
the call that waits for them; the proofs of `SocketChat` and of `RdmaSession`, in the
order of the table in section 4.

Every safety property of a passing run is proved, within the conditions of section 4.
What is left for proofs is to need less: `Dependable` forbids a failing wait in any
program, though one of the client, unless it is mistaken for a success, would not hurt
the echo; faults per process would say so.
