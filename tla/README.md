# A TLA+ model of the concurrent file servers

The repository holds two servers that speak one protocol: `v1_threadpool`, a
pool of worker threads with blocking sockets, and `v2_epoll`, one thread around
`epoll`. A message is a 12-byte header (`magic`, `cmd`, `status`, `length`) and
`length` bytes of payload; the commands are LIST, GET, PUT and QUIT, and a PUT is
two messages: the name, then the data. A client talks over one TCP connection
and asks one thing after the other.

## The system

| component | state it keeps | operations | talks to |
|---|---|---|---|
| v1 thread pool (`threadpool.c`) | task list, `tail`, `stop`, mutex, condition variable, threads | create, submit, destroy, `worker_routine` | the accept loop submits; workers call the handler |
| v1 accept loop (`server.c`) | the listening socket, the pool | accept, submit, close on refusal | pool |
| v1 session (`server.c`, `file_ops.c`) | a socket, at most one file | `client_handler`, `handle_list`, `handle_get`, `handle_put` | client, directory |
| v2 event loop (`v2_epoll/src/server.c`) | `conn_map`, a `conn_t` per connection, descriptors, registered events | accept, five state handlers, `close_conn` | clients, kernel, directory |
| protocol (`protocol.c`, `protocol.h`) | none | `send_all`, `recv_all`, `send_header`, `recv_header` | v1 session, client |
| client (`client.c`, the same file twice) | a socket, at most one open file, the files of its directory | list, get, put, quit | either server |
| logging, `main.c`, Makefiles, stress script | - | - | - |

What is hard in it, and what makes each part correct:

- **Pool.** Workers, the owner and spurious wakeups interleave. No accepted
  connection may be lost, handled twice, overtaken or left on the list while
  everybody sleeps, and create and destroy have to come back.
- **v1 session.** Blocking calls against a peer that may vanish, and an error
  path per call. The stream must stay in step with the client's; a failed
  request must not cost the other sessions anything.
- **v2 event loop.** Bytes arrive cut up anywhere, replies leave in pieces, a
  connection can end in every state, descriptors are reused, and epoll's events
  are older than the state they meet. Every connection must keep to its own
  buffers and descriptors, be watched for the right event, and get its answers
  whole and in order.
- **Client.** It reads one reply per request and trusts the length it is told.
  What it reports as done must be done; whatever it gives up half-way must leave
  the connection in step for the next command; and it must not wait for ever for
  a server that has closed, stopped or is out of descriptors.

`PROJECT.json` lists the hazards at their lines, with the properties that catch
them.

## Modules

| module | what it is |
|---|---|
| `TaskQueue` | what `threadpool.h` promises: tasks start in the order of submission, at most `Capacity` at once, each finishes once, none is accepted after closing |
| `ThreadPool` | `threadpool.c` and the thread that owns the pool; implements `TaskQueue` |
| `ThreadPool_proofs` | theorems about `ThreadPool` |
| `Wire` | what lies between clients and either server: messages, one TCP connection per client, the served directory |
| `Service` | what a client can rely on; `RequestsOf` decodes a byte stream without regard to when it arrives, with each server's own `Refused` and `Quitting` for what ends a connection |
| `Service_proofs` | lemmas about `Wire` and `Service`: what a stream delivers, what `write` at an offset stores, how a reply grows in a log, what `RequestsOf` says of one message more |
| `EpollServer` | extends `Wire` by `v2_epoll/src/server.c`: kernel, event loop, handlers; its invariants |
| `EpollService` | the properties of `Service` for `EpollServer` |
| `EpollServer_proofs` | theorems about `EpollServer` and its framing of replies |
| `EpollService_proofs` | theorems about `EpollService`: replies in order, files stored and served whole |
| `SessionServer` | extends `Service` by v1's `server.c` and `file_ops.c`, over an instance of `TaskQueue`; its properties |
| `SessionServer_proofs` | theorems about `SessionServer` |
| `FileService` | what client and server together promise to the user: files, commands, and no connection in sight |
| `Client` | extends `Wire` by `client.c` and the client's end of the connection |
| `Client_proofs` | lemmas about `Client`: what a command's messages are in the stream, what a client's step is for the server |
| `ClientSession` | `Client` and `SessionServer` together (v1); implements `FileService` |
| `ClientEpoll` | `Client` and `EpollServer` together (v2); implements `FileService` |
| `ClientSession_proofs` | theorems about `ClientSession`: client and server keep in step, connections last, listings are names |
| `ClientEpoll_proofs` | theorems about `ClientEpoll`: client and server keep in step |
| `MCStreams`, `MCEpollServer`, `MCSessionServer` | the streams and directories of the servers' runs; that they satisfy the premises of the theorems |
| `MCScripts`, `MCClientSession`, `MCClientEpoll` | what the users type and the directories of the clients' runs |

Since `ThreadPool` implements `TaskQueue`, `SessionServer` takes the pool in its
abstract form: what is accepted is started in order, by at most `NThreads`
workers, and no thread, mutex or list is needed there.

### Wire

Bytes are units: a header is `HdrLen` units, so that it can arrive in parts; a
name and a piece of data are one each. What a unit is matters only when it is
parsed, so a stream that got out of step is parsed as the code would (`IsHeader`).
`stream`, `sent`, `rcvd` are what a peer means to send, how much of it has
arrived and how much the server has read; `rx` and `unread` the replies written
to its socket and how much of them still fills the socket buffer. `sock` tells a
connection closed by its peer (`"fin"`) from one that was reset (`"rst"`: the next
send is an error) and from one whose error nobody will report any more (`"pipe"`:
the next send raises SIGPIPE). `Connect`, `Send`, `Read`, `Leave` are the peer's
and the network's part.

A server is checked in two settings. With the streams of `MCStreams` its peers
may say anything, well formed or not, without waiting for an answer. Composed
with `Client` it meets what the client program says, in the order in which it
says it, and `stream` is what the client has sent so far.

### ThreadPool

`mtx`, `stop`, `queue` and `tail` are the fields of `struct thread_pool`; `queue`
is the list reachable from `head`. `pc[w]` is where a worker is in
`worker_routine`, `mpc` where the owner is in create, `run_server`'s loop or
destroy. `accepted`, `dispatched`, `finished` and `refused` are history.

A critical section that is never entered half-way is one step (submit, destroy's
broadcast). A worker's section is three steps - lock, test, `pthread_cond_wait` -
because create's failure path changes `stop` and broadcasts without the mutex and
can fall between them. A submit through a `tail` that is not the last node
writes to freed memory, and the node is lost to the list (`Linked`).

`run_server` never leaves its accept loop, so destroy is unreachable in the
program; it is modelled as the operation a caller may use. The handler is the
step `Handled`: that it returns is assumed for liveness and is not true of a
client that stays connected and silent.

### EpollServer

| model | code |
|---|---|
| `conn[p]` | the `conn_t` of peer `p`; `header_buf` and `payload` hold what was read so far (`header_read`, `payload_read`), `out_buf` the one queued reply and `out_sent` how much of it went out |
| `conn_map`, `fdtab`, `interest` | `conn_map[]`, the kernel's descriptor table, the event mask of each socket (`EPOLLRDHUP` is always in it) |
| `batch` | events of the last `epoll_wait` not handled yet |
| `EpollWait`, `AcceptStart`, `AcceptOne`, `AcceptDone`, `Handle` | `run_server`'s loop |
| `HandleReadHeader`, `HandleReadPayload`, `HandlePutStream`, `HandleWriteBuffer`, `HandleWriteGetFile`, `HandleRequest` | the functions of those names |
| `Drop`, `Keep` | `close_conn`, `set_interest_by_state`: how the loop ends every event |
| `EpollWaitFails`, `KilledBySigpipe` | the two ways the process ends |

A handler runs until `recv` or `send` would block, so it is one step that takes
what has arrived and writes what fits. What arrives during the handler is
covered by the step that is taken when it arrived just before. Peers act
between handlers, also between `epoll_wait` and the handler of an event it
returned. `accept` is a step of its own, since peers connect between two of them.

Not in the model: failures before the loop starts; `EINTR` (every call is
retried); partial `write` to a regular file other than one that fails; 32-bit
sizes (`st_size > 0xFFFFFFFF` is refused like a file that is not regular);
the branch at `server.c:329-347`, which no call reaches, because
`handle_read_header` opens a pending upload itself; losing a written reply when
the socket is closed with input unread (`rx` is what was written).

### SessionServer

| model | code |
|---|---|
| `queue`, `serving`, `served` | the pool's `TaskQueue`: submitted connections, those with a worker, those closed |
| `ses[p]` | the locals of the `client_handler` that serves `p`; `at` is the blocking call it is in |
| `Accept`, `Begin`, `Close` | `run_server`'s loop, a worker taking the task, `close(cfd)` and the return |
| `RecvHeader`, `Drain`, `RecvName` | `client_handler` with `recv_header`, `drain_payload`, `recv_filename` |
| `GetRead`, `GetSend`; `RecvPutHeader`, `RecvPutData`, `DrainPut` | the loops of `handle_get` and `handle_put` |
| `SendReply` | `send_header`, and `send_all` for a listing |
| `RecvAll`, `RecvFails`, `SendFails`, `KilledBySigpipe` | how the blocking calls end |

A `recv_all` is one step, taken when all its bytes are there: until then it
changes nothing that anyone else sees. A `send` is a step for what the socket
takes, since the peer sees it. What a session does between two blocking calls is
part of the step before; only `read` and `write` on files that other sessions
share are steps of their own.

Not in the model: `EINTR`, nor an `accept` that fails for another reason, say for
want of descriptors: `run_server` logs it and calls it again, which changes nothing
here, and fairness says that it succeeds in the end; sizes over 32 bits; a block of
which `write` stores a part before it fails; a written reply lost because the socket is closed with
input unread; the order in which `readdir` meets files that are created
meanwhile (a listing is of one moment).

### Client

| model | code |
|---|---|
| `cli[p].at` | where the process is: before `connect_server`, at `main`'s prompt, in `send_all`, in `recv_header`, reading a reply's data, exited |
| `out`, `left` | what `send_all` has still to send; `left` of `handle_get_client`, the rest of the listing in `handle_list_client` |
| `drop` | the loop of `handle_get_client` that reads a reply past because the file could not be opened |
| `told` | a call has already reported that the connection was reset |
| `op` | the command as the user sees it: its name, what was listed, and how it was reported |
| `todo`, `local` | the lines not typed yet, the files in the directory the client runs in |
| `Connects`, `Types`, `InputEnds` | `connect_server`, `main`'s loop with the first half of each `handle_*_client` |
| `Transmits`, `TransmitFails` | `send_all`, and what stops it |
| `RecvReply`, `RecvBody`, `BodyEnds`, `NoReply` | `recv_header` and the second half of each `handle_*_client` |
| `DiskFails`, `Killed` | a failing read or write of the client's own file; a signal from outside |
| `CloseArrives` | `close` as the server sees it |

The actions take two facts about the other end as parameters: `open`, the server
has not closed this connection, and `up`, its process runs. After a reset the
first call reports it (`"failed"`, and the client goes on), and a send after
that raises SIGPIPE, which `client.c` does not handle either (`Exited`).
`CloseArrives` makes `sock` what `Wire` says about it: a close with replies unread
costs a reset, and so does a reply that arrives after the close.

Not in the model: empty lines; lines longer than the 1024 bytes `fgets` reads;
the arguments of `main`; a file that changes while its client uploads it; a
client in the server's own directory; two clients in one directory; the part
of a listing that was printed before an error.

### FileService

The abstract service has the files of the server (`remote`), those of each client
(`local`) and each client's last command (`op`). `Start`, `Show`, `Download`,
`Upload` and `Return` are a command's life; a command may return `"ok"` only when it
is `Done`: after a GET the local file is the remote one, after a PUT the remote
file is the local one, after a LIST everything that existed when it was given and
still fits was shown. A PUT that failed, or whose client was killed, may still
take effect, and may leave a prefix; no other command changes the server's files.

Both compositions implement it under the mapping `remote <- files`, `local`,
`op <- Commands`, the field `op` of each client. What differs is `Shows`: v1 may
stop a listing at `ListCap` names, v2 shows everything that fits its payload
limit, which is all of it here. The premise is `OwnUploadsAssumption`: a name that
one client uploads is used by no other client. Without it, two uploads of a name
write the file at their own offsets and both are acknowledged, which is what the
code does; what still holds then is `FilesUnspoiled`.

## Runs

| run | instance | shows |
|---|---|---|
| `thread_pool` | 3 workers, 3 tasks | no task lost, repeated, reordered or abandoned; no lost wakeup; destroy returns; implements `TaskQueue` |
| `epoll_peers` | 2 peers, one may leave; 4 descriptors of which `conn_map` takes 2; batches of at most 2; writes may fail | descriptors and events stay with their connection, files are stored and served whole, overlapping uploads mix nothing foreign in |
| `epoll_protocol` | 1 peer, 121 pairs of requests, every segmentation, every fault, 2 descriptors | state and buffers agree, replies are framed and in order |
| `epoll_live` | 2 peers with independent requests, one may leave | every request is answered unless a SIGPIPE ends the server, who leaves is closed |
| `session_peers` | 2 peers, 2 workers; 36 pairs of requests next to an upload or a download, every fault; the first peer may leave | replies are framed and in order, files are stored and served whole, overlapping uploads mix nothing foreign in |
| `session_live` | 3 peers, 2 workers, one held by a peer that may leave, inside a name or while it is owed a download | every request is answered unless a SIGPIPE ends the server, who leaves is closed |
| `client_session` | 2 clients, 1 worker; three scripts of up to four commands next to a download or an upload whose client may be killed or lose its disk at any step | implements `FileService`; commands end; client and server are in step between commands; only a refused upload costs the connection; who has ended holds no worker |
| `client_epoll` | 2 clients, 2 descriptors; three scripts next to a download whose client may be killed | implements `FileService`; commands end even with accept out of descriptors; in step between commands |
| `thread_pool_unwind`, `epoll_leak`, `epoll_shortened`, `client_unsafe_put` | the smallest instance that meets it | findings 1, 2, 4 and 5 below |

Why the bounds are enough. Three workers are one that sleeps, one that takes
what a signal announced and one being signalled; three tasks let two wait
behind a busy pool. In `epoll_peers` a descriptor is freed by one connection and
taken by another while events are pending, the third descriptor does not fit
`conn_map`, and a batch leaves out a ready event. In `epoll_protocol` the first
request is every kind of message, well formed or not, and the second every way
to go on or to end; the buffer for replies (`SndBuf = 2`) is smaller than a
listing or a file, and two descriptors are one connection and one file, so an
opened file can leave none. `Segments` are the sizes a stream is cut into (all
of them in `epoll_protocol`, one per message elsewhere). `session_peers` takes
the requests that v1 handles in a way of its own: payloads that are read past, a
name refused without the end of the connection, an upload that cannot be opened
and is drained; one of the drained payloads looks like a request. Its second
session writes the same file or reads the same one. `session_live` has one
connection more than workers, so one waits in the queue. Its leaver sends half a
request, so that its worker waits in `recv`, or has not read its download, which is
longer than `SndBuf`, so that the worker waits in `send`.

`EveryRequestAnswered` has one exception, `EndedBySigpipe`: a server that sends to a
connection that was reset ends with all its sessions. Both live runs take that step
(in v1 already a plain reset inside a name is enough: `recv_filename` fails and
`client_handler` then sends the refusal), and without the exception the property
fails in both. It is the only one: whatever else a peer does when it
leaves, the others get their answers.

`FilesUnspoiled` is about the case the other file properties leave out: both
servers let two connections upload one name at once. A block of the file is then
one that was sent under that name, at its offset, or a hole; in `epoll_peers` and
`session_peers` the second peer uploads the name the first one does.

In `client_session` one worker makes the second client wait until the first has
ended, or the other way round (sessions side by side are in `session_peers`), and
`ListCap = 2` cuts the listing of three names. The scripts have an upload to
a name that is a directory on the server (drained and refused), one of an unsafe
name or one the client does not have, a download into a name that is a directory
on the client (read past), and requests after each. `client_epoll` has room for
one connection and one file: while a file is open, the other client's
connection stays in the backlog and `accept` fails with EMFILE again and again.
`SndBuf = 2` is a header and less than a file, so both ends block on each other's
buffers; `RoomAssumption` is what `recv_all` of a header needs. Client 2 is the
`Fragile` one: killed between any two steps, with its replies in flight, it can
end the server by SIGPIPE, which both runs reach, and the first client's commands
still end. `client_unsafe_put` takes `SndBuf = 3`: with 2, the pair that is out of
step blocks before the wrong reply is taken.

Fairness. `ThreadPool`: threads that can run do run, and the owner's join
returns once it can; nothing forces a submit, a destroy or a spurious wakeup.
`EpollServer`: the server's thread runs, and a peer connects, sends what it
means to send and reads; no peer has to leave. `SessionServer`: every worker
and the accept loop run, and the peers as before; that a worker is free again
is not assumed but follows from QUIT or from the peer leaving; what is sent to a
peer that has closed is answered with a reset, or the worker would block for ever
in a `send` that TCP does not let block. `ClientSession`: `WF` of all steps but
the user's mishaps taken together; no thread of v1 or of a client polls, so this weak form (something that can run does) is
enough. `ClientEpoll`: `WF` of the server's thread and of each client with its
network by itself, because the server may spin on a listening socket that it
cannot accept from. Nothing forces a disk to fail or a client to be killed.
`epoll_live` and
`session_live` leave out the injected failures, since a connection dropped for lack
of memory is not answered.
Deadlock is not checked: a destroyed pool stops, and so does a server whose
clients have gone.

## Findings

1, 2, 4 and 5 have a run that shows them; 3 and 6 were met on the way.

1. `thread_pool_create`: when `pthread_create` fails part-way, `stop` and the
   broadcast are not under the mutex; a worker can miss both and the join hangs
   (`thread_pool_unwind`).
2. v2: the descriptor of a downloaded empty file is never closed once another
   download follows (`epoll_leak`).
3. v2: an upload that cannot be opened is refused without reading its data, and
   the connection is dropped on the "header" that follows. v1 drains the data
   first. (`InStep` of `ClientEpoll` excepts it; `EveryRequestAnswered` fails in
   `EpollServer` with `Streams <- PutOnDirectory`, `Directories <- MixedDir`.)
4. v2: a file that gets shorter during its download leaves the transfer neither
   ended nor failed; the loop spins on it (`epoll_shortened`).
5. v1: an upload with an unsafe name is refused before its second message is
   read, which is then taken for another upload. From then on each reply answers
   an earlier request: a client that goes on is told `GET ok` for a file the
   server does not have, and holds another file's data (`client_unsafe_put`). v2
   closes the connection instead.
6. v1: SIGPIPE is not handled; a client that closes during a download, or is reset
   inside a file name, ends the server and with it everybody's session. `send_all`
   expects an error there (`protocol.c:18-23`, `return -1; // Error`, `return -1; //
   Connection closed`). v2 has the same hole, but only for a close and a reset
   between `epoll_wait` and the send. `EveryRequestAnswered` has it as its exception
   in both live runs. `client_session` and `client_epoll` contain both cases;
   `StaysConnected` is stated for a server that still runs.

`RepliesFramed` holds in v1 only as long as a downloaded file does not change:
`handle_get` announces the size it sees first and sends what it finds. The runs
keep uploads and downloads under different names there.

## Proofs

A theorem holds for every value of the constants: any number of peers, workers,
descriptors, names and blocks, every stream, every directory, every buffer size
and every way to cut up a stream. An invariant is proved by way of a stronger one
that every step keeps; TLC checked those on the runs before they were proved.

### The pool

`ThreadPool_proofs` proves each safety invariant of `thread_pool` and the refinement
`ImplementsTaskQueue` (liveness stays with TLC).

- `IInv` is the inductive invariant. Beside the types and `TailIsLast` it says
  which states of the owner go with which states of the workers and of `stop`
  (nothing was accepted before `run_server` runs; after destroy's broadcast nobody
  is about to wait or waiting; before it nobody has exited), that accepted tasks
  are pairwise different, and that a worker in its critical section holds the
  mutex and what it tested still holds.
- `ListSteps` and `SubmitAppends` say what a pop and a submit do to the list given
  that `tail` is its last node; `TailStep`, `OrderStep` and `ServedStep` follow.
- `NoLostWakeup` counts. `AwakeCount` and `MoveOne` say how the set of workers that
  are up changes with one step: a submit adds a task and wakes one sleeper if
  there is one, a pop takes a task and one worker away, and a worker goes to sleep
  only when the list is empty.
- `NothingDropped`: a worker exits only when the list is empty and `stop` is set,
  and nothing is accepted after `stop`, so once all have exited the list is empty
  and every dispatched task was handled.
- For the refinement every step is an `Accept`, `Start`, `Finish` or `Close` of the
  queue or leaves it alone; that at most `Capacity` run at once is the injection of
  tasks in hand into workers.

### v2

`EpollServer_proofs` proves `TypeOK`, `BuffersMatchState`, `DescriptorsOwned`,
`EventsCurrent` and `RepliesFramed`. None is inductive; `IInv` adds what each leans on:

| conjunct | says | needed because |
|---|---|---|
| `BuffersFit`, `ReplyFits` | what a connection record holds in each state; the queued header announces the body and the file behind it | a handler starts from the record the last one left |
| `TableFit` | an open descriptor has an owner, an open file a name | `DescriptorsOwned` speaks of descriptors that records name, `open` picks from those the table calls free |
| `Queued` | who waits in the backlog waits once, has no descriptor and was sent nothing | `accept` gives it a new record |
| `Watched` | the registered event is the one of the state; without a descriptor the record is a new one | `epoll_wait` reports the registered event, and the handler is chosen by the state |
| `Awaited` | a socket reported writable still has room, or is broken, when its event is handled | otherwise a handler could find nothing to do |
| `Replied` | how much of the last reply was sent is what `out_sent` and `get_left` say | framing |

Each handler has a lemma, from the inside out. `Outcome` is what it may make of the
record and the table, `Ends` is what `close_conn` or `set_interest_by_state` do
after it. A request is an `Answers`, a read handler a `Reads`, and every handler,
the writing ones included, a `Handled`; `HandleInv` says that a `Handled` step
keeps `IInv`. `OthersKept` is the heart of `DescriptorsOwned`: what a handler closes
is its own, whatever numbers were reused. `EventsCurrent` holds because a
connection has one event in a batch, only its handler closes it, and `accept` takes
a descriptor that is free, so no pending event's descriptor changes hands.

`EpollService_proofs` proves `RepliesInOrder`, by `IInv` and `AllFollow`: where each
connection is in its stream. `Following` says it by state. While a header is
read, `header_buf` is the part of the stream that ends at `rcvd`, and what is asked
from its first unit on is what the log still lacks, with `pending_put_name` as the
upload that is due (`AtHeader`); the payload's, the upload's and the reply's
cases say the same from where their request began (`AtPayload`, `AtUpload`,
`AtReply`, `AtFile`). A lemma per handler (`...Does`) says what it makes of record,
table, log and files; `...Follows` that the connection is then where it should
be. The premise is `PlainUploads` of each stream: an upload is there to its last
unit, and its data does not look like a header. Without it the theorem is
false: finding 3. It says nothing about the other messages, well formed or not,
what fails or who leaves. `PlainUploadsAssumption` has TLC evaluate that the
streams of `epoll_peers` and `epoll_protocol` meet it.

`FilesUnspoiled`, `PutStored` and `GetIntact` follow from `AllFollow` under the same
premise. `FilesDone` is all that a handler can do to the files (`HandlerFiles`): it
leaves them alone and holds no upload after it, empties the file of an upload it
opens, or writes the next part of the one under way, whose bytes are what was
received (`StoresFiles`). `StepCases` reduces every other step to the same
connection in the same files (`OtherSteps`).

- `FilesUnspoiled`: each byte written is the one its upload has at this offset,
  whichever upload of the name that is (`WrittenInPlace`).
- `PutStored`: `PutsKept` adds `Storing` for the upload under way: if it is the only
  one of its name, the file is what it has read so far.
  `OwnKeeps` is the connection's own handler; `SameKept` the handlers of others,
  which write other names, and the peers' steps.
- `GetIntact`: `GetsKept` adds `Fetching` for the download that is queued or under way:
  the header announces the file's length, and the body logged so far is the file up
  to the descriptor's offset; `PieceCarried` takes it past one `sendfile`.

### v1

`SessionServer_proofs` proves `TypeOK`, `RepliesFramed`, `RepliesInOrder`,
`FilesUnspoiled`, `PutStored` and `GetIntact`.

- `TypeInv` is `TypeOK` with `LocalsFit` (the locals of a `client_handler` are what
  the blocking call it is in needs) and `Placed` (a connection is in one place:
  backlog, pool's queue, or with a worker). Each handler is a `Serves`, and a
  `Serves` keeps `TypeInv`. A second lemma per handler (`...Does`) says what it does to
  the session, the log and the directory; the other arguments use only these.
- `RepliesFramed`: `Replied` says how much of the last reply is sent. Its theorem
  has the premise `[][DownloadsHeld]_vars`, no file changes while a session sends
  it: `handle_get` announces the size it sees first, and an upload or another process
  that changes the file meanwhile breaks the frame. It is a real condition, which
  `session_peers` meets by keeping the names apart.
- `RepliesInOrder`: `Parsed` ties the session to the stream. A call that reads
  is at a unit of the stream, and what is asked from there on is what the log
  still lacks (`Parsing`, by the place the session is in). `RequestNext` and
  `PutNext` of `Service_proofs` take it past one message. The premise
  `WholeRequests` says of each stream that no message is cut short by another,
  and that each PUT has a safe name and a second message. It excludes finding 5,
  where the theorem is false, and is a condition on peers that the client
  program meets when the user types safe names. `BusyPeersAssumption` has TLC
  evaluate that every stream of `session_peers` meets it. It does not restrict what
  fails, who leaves or when.
- `FilesUnspoiled`: the only step that changes a file is an upload's truncation or
  the block it writes (`FilesChange`), and a block written is the one that the
  stream has at this place of this upload (`StoresOwn`).
- `PutStored`: an upload in progress has stored what it has read so far
  (`Storing`), and an acknowledged one all of it (`StoredWhole`), if it is the only
  upload of its name. A step of another session is the step of another upload,
  and leaves the file alone.
- `GetIntact`: the mirror image; `Fetching` relates the offset of a download to
  what the log has of the file, `Fetched` says it of the replies sent.

What a stream asks for is a recursive function, and facts about it are inductions
over the stream. They are proved without the library's induction theorems, by the
least counterexample (`LeastNatural`): there is a function that satisfies the
equation (`DecodedExists`), and it is typed at every unit (`DecodedType`). That
a stream delivers its units in order and what `write` at an offset leaves are in
`Service_proofs`, and so is how a log grows when a part of a reply goes out.

### Client and server together

`ClientEpoll_proofs` proves `InStep` of `ClientEpoll`, and that the server's
invariants hold there too. There is no premise beyond the assumptions on the
constants: other clients may be killed, lose their disk or send what they like up
to their end, calls may fail and the server may stop.

- `TogetherInv` is `IInv` of the server, `ClientsTyped` of the clients (with: no client has
  more to read than it was sent) and, for each client that is not `Fragile`,
  `InStepFor`. TLC checked it on `client_epoll` before it was proved.
- `Locked` says where the two ends of a connection are by the client's place. `S` is
  all that the client means to send so far (`Means`). At the prompt the server
  `Rests`: it waits for a header, has nothing of one, and has received all of `S`.
  While a request is sent or its reply awaited, either nothing is unread and the
  server `Asks` for the rest of it - the first header, the name, the second header,
  the data - or has its reply queued (`AnswersNext`); or the reply is `InHand`, its
  header the next unit that the client reads. While the client reads a body, what
  is left of it is what is unread and what is not sent yet (`InBody`).
- `CommandAt` says what a command's messages are in `S`, at the unit where the last
  one ended; `MessagesAre` that what `handle_*_client` send is that. The server's
  parsing is led through it by a lemma per handler (`...Serves`), from the same
  `...Does` lemmas that `EpollService_proofs` uses: the header it takes is the one
  that the client built, so it is not turned down for another reason than what the
  files or the descriptors are.
- The handlers that write lengthen the last reply and what is unread by the same
  number (`PartSent`, `CarriedOn`), so `InHand` and `InBody` go on to hold
  (`HandCarried`). When a client has read a reply to its end the server has left it
  too, and `Rests` (`CompleteRests`): this is where the length in the header and
  `close_after_write` matter.
- `StepIs`, `GivenUp` and `Begins` of `Client_proofs` are what a client's step is for the
  server. `UnitsOf`, what a client receives unit by unit, is a recursive function;
  `UnrollsExists` and `UnrollsAgree` say that it exists and does not change as the
  log grows.

The exception in `InStep`, an upload that was refused, is finding 3; without it the
data that v2 leaves unread would break `Rests`.

`ClientSession_proofs` proves `InStep` and `StaysConnected` of `ClientSession`, from
the same lemmas about the client and those of `SessionServer_proofs` about the
server. `InStep` has no exception here: v1 reads past what it refuses.

- `TogetherInv` is `TypeInv` and `Replied` of the server, `ClientsTyped`, and an
  `InStepFor` for each client that is not `Fragile`. TLC checked it on
  `client_session` before it was proved.
- `Locked` has the shape it has for v2, with the places of `client_handler`: the
  server `Rests` in `recv_header`, or before the last look at a file whose bytes are
  all sent; it `Asks` in the calls that read the rest of a command, also in
  `drain_payload` and the loop that reads past a refused upload; `AnswersNext` when
  `send_all` of the reply is next.
- A lemma per call that reads (`...Asks`) takes the server through the command that
  the client sends: how much is read when the reply is due is exactly the command.
  `ReplyLocks`, `BlockLocks` and `ReadLocks` are the calls that send.
  `HandledLocks` sums up the handlers, `HandlingKeeps` makes `TogetherInv` of it.
- `Lost` lists why a client that goes on may have no connection: the server has
  ended, an upload of its own was refused, or it has said QUIT. At the prompt the
  last is excluded, which is `StaysConnected`.

Its three premises are where the statements end to be true.
`Faultless`: no call of the server fails, and a name (one unit in the model) is not
longer than `MAX_FILENAME_LEN`. `recv_filename` without memory leaves a
name unread; a file that cannot be read in the middle, or a connection that is
closed for lack of memory, ends the exchange. `UploadsSafe`: no file is uploaded
under a name that the server refuses, which is finding 5. `[][DownloadsHeld]`: no
file changes while a session sends it, as for `RepliesFramed`. `client_session`
meets all three: its `Faults` are empty, `BusyUploadsAssumption` has TLC evaluate
the second, and the third was checked on it as a property. Clients may be
killed, lose their disk and leave at any step, and take the server with them.

`TogetherTypes` proves `TogetherTypeOK` with none of these premises: any call may
fail, any client may be killed, files may change while they are sent, uploads may
be refused. Most of it is types; the part that is not says that a client which shows a
listing shows names, and never a file's bytes or another reply, although it may by
then be out of step with the server (finding 5). `TogetherInv` is of no use without
its premises, so the invariant is another one, `TogetherTyped`, which TLC checked on
`client_session` before it was proved:

- `NamesAfter` and `ListsWhole`, of all that a client was ever sent, unit by unit: after
  each header that grants a listing come as many names as the header says, or the
  worker is sending the rest of them (`GoesOn`), or the connection is closing.
- `Naming`: the session has a listing to send only with names in it, and is in the
  middle of a reply only if one was begun.
- `ReadsNames`: a client that reads a listing has read such a header, and of what
  follows it as much as it does not wait for. The header that `recv_header` took may
  have been sent for an earlier command; it is a listing's header all the same, and
  what follows it is a listing.

`Begun` says that a call only adds to what was sent; `FirstPartWhole` and
`NextPartWhole` are the two cases of `send_all`, `HandlingNames` sums up the workers'
calls, `RecvReplyShows` and `RecvBodyShows` are the client's two that matter.

### Assumptions

`WorkersAssumption`, `NullAssumption` of the pool; `WireAssumption` (a header and a
socket buffer hold something), `NullAssumption`, `NamesAssumption` (names have a
maximal length, so a directory is finite), `StreamsAssumption` and
`DirectoriesAssumption` (types), `SizeAssumption` (v2's descriptors are numbers, a
batch holds an event), `PoolAssumption`. Of the client: `RoomAssumption` (a socket
buffer holds a header), `ScriptsAssumption` and `LocalAssumption` (types; a `get` or
`put` without a name is no command to `main`), `SilentAssumption` (a client sends
nothing before its user types). `OwnUploadsAssumption` is the premise of
`FileService` alone, and no theorem uses it. The premises of single theorems are named
above. TLC evaluates each assumption on the runs.

Every safety invariant that a passing run checks is stated by a theorem. Only
model-checked: liveness, which needs `ENABLED`; and that both compositions implement
`FileService`.

## Plan

1. `ThreadPool`, `TaskQueue`, their proofs. *Done.*
2. `EpollServer`, `EpollService`. *Done.*
3. `Wire`, `Service`, `SessionServer`. *Done.*
4. `FileService`, `Client`, `ClientSession`, `ClientEpoll`. *Done.*
5. `Listing`, `Names`: the listing buffers and the file-name test as operators
   checked against a reference definition.
6. Proofs about `EpollServer` and `SessionServer`. *Done.*
7. Proofs about the compositions: that client and server keep in step, *done* for
   both; that each composition implements `FileService`.

## Not modelled

`v2_epoll/src/file_ops.c` is a copy of v1's that v2's Makefile does not compile.
Logging prints and keeps no state another part reads; `main.c` parses the command
line and calls `run_server` once; the Makefiles and the stress script are not part
of the running system. What each module leaves out of its own part is named
in its section above.
