---------------------------- MODULE EpollServer ----------------------------
(***************************************************************************)
(* The server of v2_epoll (src/server.c): one thread, epoll in its level-  *)
(* triggered mode, one conn_t per accepted connection.                     *)
(*                                                                         *)
(* The model keeps every branch of the handlers, the file descriptors      *)
(* (lowest free one first, as POSIX requires), conn_map, the registered    *)
(* events, the batch that epoll_wait returned and the directory served.    *)
(* A handler is one step: it takes what has arrived and writes what fits,  *)
(* which is where its recv or send returns EAGAIN.  Peers act in between,  *)
(* also between epoll_wait and the handler of an event it returned.        *)
(***************************************************************************)
EXTENDS Wire

CONSTANTS
    MaxGenericPayload, \* MAX_GENERIC_PAYLOAD
    FdLimit,           \* descriptors 1 .. FdLimit are left for sockets and files
    MaxFdMap,          \* conn_map has room for descriptors below MaxFdMap
    MaxEvents          \* MAX_EVENTS

ASSUME SizeAssumption ==
    /\ MaxGenericPayload \in Nat /\ FdLimit \in Nat
    /\ MaxFdMap \in Nat /\ MaxEvents \in Nat \ {0}

Fds == 1 .. FdLimit
NoFd == 0       \* -1 in the code
LFD == 0        \* the listening socket, in an event

FdEntry == [kind : {"free", "sock", "put", "get"}, peer : Peers \cup {NULL},
            name : SafeNames \cup {NULL}, off : Nat]
Event == [fd : 0 .. FdLimit, hup : BOOLEAN, rd : BOOLEAN, wr : BOOLEAN,
          peer : Peers \cup {NULL}]   \* peer: ghost, whose event it was

Reading == {"READ_HEADER", "READ_PAYLOAD", "READ_PUT_STREAM"}
Writing == {"WRITE_BUFFER", "WRITE_GET_FILE"}

Conn == [fd : 0 .. FdLimit, state : Reading \cup Writing,
         header_buf : Seq(Unit), cur_header : Header,
         payload_len : Nat, payload : Seq(Unit),
         pending_put_name : SafeNames \cup {NULL},
         put_fd : 0 .. FdLimit, put_left : Nat,
         out_buf : Seq(Reply), out_sent : Nat,
         get_fd : 0 .. FdLimit, get_left : Nat,
         close_after_write : BOOLEAN]

VARIABLES
    conn,      \* each peer's conn_t, NoConn when it has none
    conn_map,  \* descriptor -> the peer whose conn_t it is, or NULL
    fdtab,     \* the process's descriptor table
    interest,  \* the event each peer's socket is registered for
    batch,     \* events of the last epoll_wait still to be handled
    accepting, \* inside the accept loop
    running    \* the process has not ended

serverVars == <<conn, conn_map, fdtab, interest, batch, accepting, running>>
vars == <<wireVars, serverVars>>

FreeFd == [kind |-> "free", peer |-> NULL, name |-> NULL, off |-> 0]

NewConn(fd) ==
    [fd |-> fd, state |-> "READ_HEADER", header_buf |-> <<>>,
     cur_header |-> NoHeader, payload_len |-> 0, payload |-> <<>>,
     pending_put_name |-> NULL, put_fd |-> NoFd, put_left |-> 0,
     out_buf |-> <<>>, out_sent |-> 0, get_fd |-> NoFd, get_left |-> 0,
     close_after_write |-> FALSE]

NoConn == NewConn(NoFd)

Init ==
    /\ WireInit
    /\ conn = [p \in Peers |-> NoConn]
    /\ conn_map = [fd \in Fds |-> NULL]
    /\ fdtab = [fd \in Fds |-> FreeFd]
    /\ interest = [p \in Peers |-> "none"]
    /\ batch = {}
    /\ accepting = FALSE
    /\ running = TRUE

-----------------------------------------------------------------------------
(* The peers.                                                              *)

Connected(p) == conn[p].fd # NoFd

(* The server has not closed the connection.                               *)
Attached(p) == Connected(p) \/ p \in Elems(backlog)

PeerConnects(p) == running /\ Connect(p) /\ UNCHANGED serverVars
PeerSends(p) == Attached(p) /\ Send(p) /\ UNCHANGED serverVars
PeerReads(p) == Read(p) /\ UNCHANGED serverVars
PeerLeaves(p) == Attached(p) /\ Leave(p) /\ UNCHANGED serverVars

ShortUnseen(p, n) == n   \* mutant: recv's result is taken to be n

(* A read that needs n more units takes what has arrived of them.          *)
Got(p, n) == MinOf(Avail(p), n)
Received(p, n) == SubSeq(stream[p], rcvd[p] + 1, rcvd[p] + Got(p, n))
Take(p, n) == rcvd' = [rcvd EXCEPT ![p] = @ + Got(p, n)]

-----------------------------------------------------------------------------
(* epoll.                                                                  *)

ListenEvent ==
    [fd |-> LFD, hup |-> FALSE, rd |-> TRUE, wr |-> FALSE, peer |-> NULL]

RdhupLost(p) ==   \* mutant: mod_events does not renew EPOLLRDHUP
    [fd |-> conn[p].fd,
     hup |-> interest[p] = "in" /\ Ended(p),
     rd |-> interest[p] = "in" /\ (Avail(p) > 0 \/ Ended(p)),
     wr |-> interest[p] = "out" /\ (Space(p) > 0 \/ Broken(p)),
     peer |-> p]

EventOf(p) ==
    [fd |-> conn[p].fd,
     hup |-> Ended(p),
     rd |-> interest[p] = "in" /\ (Avail(p) > 0 \/ Ended(p)),
     wr |-> interest[p] = "out" /\ (Space(p) > 0 \/ Broken(p)),
     peer |-> p]

Ready ==
    {e \in {EventOf(p) : p \in {q \in Peers : Connected(q)}} :
        e.hup \/ e.rd \/ e.wr}
    \cup {e \in {ListenEvent} : backlog # <<>>}

EpollWait ==
    /\ running /\ ~accepting /\ batch = {}
    /\ Ready # {}
    /\ batch' \in {b \in SUBSET Ready :
                     Cardinality(b) = MinOf(MaxEvents, Cardinality(Ready))}
    /\ UNCHANGED <<wireVars, conn, conn_map, fdtab, interest, accepting, running>>

(* The process ends; what it had open is closed, the listening socket too. *)
Stop ==
    /\ running' = FALSE
    /\ backlog' = <<>>
    /\ batch' = {}
    /\ conn' = [p \in Peers |-> NoConn]
    /\ conn_map' = [fd \in Fds |-> NULL]
    /\ fdtab' = [fd \in Fds |-> FreeFd]
    /\ interest' = [p \in Peers |-> "none"]
    /\ UNCHANGED <<sock, stream, sent, rcvd, rx, unread, accepting, files>>

(* Any error but EINTR ends the loop, and every connection is closed.      *)
EpollWaitFails ==
    /\ "wait" \in Faults
    /\ running /\ ~accepting /\ batch = {}
    /\ Stop

-----------------------------------------------------------------------------
(* Descriptors.                                                            *)

Free == {fd \in Fds : fdtab[fd].kind = "free"}
LowestFree == CHOOSE fd \in Free : \A other \in Free : fd <= other

WriteUnwatched(state) == "in"   \* mutant: EPOLLOUT is never asked for

FileUnwatched(state) ==         \* mutant: nor for the body of a download
    IF state = "WRITE_BUFFER" THEN "out" ELSE "in"

InterestOf(state) == IF state \in Reading THEN "in" ELSE "out"

(* close_conn and free_conn_buffers.                                       *)
SocketOnly(c) == {c.fd}   \* mutant: open files are not closed with it

Closed(c) == {c.fd, c.put_fd, c.get_fd}

Drop(p, c, ft) ==
    /\ conn' = [conn EXCEPT ![p] = NoConn]
    /\ conn_map' = [conn_map EXCEPT ![c.fd] = NULL]
    /\ fdtab' = [fd \in Fds |-> IF fd \in Closed(c) THEN FreeFd ELSE ft[fd]]
    /\ interest' = [interest EXCEPT ![p] = "none"]

(* set_interest_by_state.                                                  *)
Keep(p, c, ft) ==
    /\ conn' = [conn EXCEPT ![p] = c]
    /\ fdtab' = ft
    /\ interest' = [interest EXCEPT ![p] = InterestOf(c.state)]
    /\ UNCHANGED conn_map

(* A handler ends with c, unless an allocation or epoll_ctl fails.         *)
Settle(p, c, ft) ==
    \/ Keep(p, c, ft)
    \/ "resource" \in Faults /\ Drop(p, c, ft)

-----------------------------------------------------------------------------
(* The listening socket is ready: accept until EAGAIN.                     *)

AcceptStart ==
    /\ ListenEvent \in batch /\ ~accepting
    /\ batch' = batch \ {ListenEvent}
    /\ accepting' = TRUE
    /\ UNCHANGED <<wireVars, conn, conn_map, fdtab, interest, running>>

Accepted(p, fd) ==
    /\ conn' = [conn EXCEPT ![p] = NewConn(fd)]
    /\ conn_map' = [conn_map EXCEPT ![fd] = p]
    /\ fdtab' = [fdtab EXCEPT ![fd] =
                    [kind |-> "sock", peer |-> p, name |-> NULL, off |-> 0]]
    /\ interest' = [interest EXCEPT ![p] = "in"]

InMap(fd) == fd < MaxFdMap

AcceptOne ==
    /\ accepting
    /\ backlog # <<>> /\ Free # {}
    /\ backlog' = Tail(backlog)
    /\ \/ InMap(LowestFree) /\ Accepted(Head(backlog), LowestFree)
       \/ /\ ~InMap(LowestFree) \/ "resource" \in Faults
          /\ UNCHANGED <<conn, conn_map, fdtab, interest>>
    /\ UNCHANGED <<sock, stream, sent, rcvd, rx, unread, batch, accepting,
                   running, files>>

(* EAGAIN, or EMFILE or another error with connections still waiting.      *)
AcceptDone ==
    /\ accepting
    /\ backlog = <<>> \/ Free = {} \/ "resource" \in Faults
    /\ accepting' = FALSE
    /\ UNCHANGED <<wireVars, conn, conn_map, fdtab, interest, batch, running>>

-----------------------------------------------------------------------------
(* Replies.                                                                *)

Closing(c) == [c EXCEPT !.close_after_write = TRUE]

QueueReply(c, cmd, status, body) ==
    [c EXCEPT !.out_buf = <<[cmd |-> cmd, status |-> status,
                             length |-> Len(body), body |-> body]>>,
              !.out_sent = 0,
              !.state = "WRITE_BUFFER"]

(* Every way a request is turned down: refused for good, or just failed.   *)
Refuse(c, cmd) == QueueReply(Closing(c), cmd, 1, <<>>)
Fail(c, cmd) == QueueReply(c, cmd, 1, <<>>)

-----------------------------------------------------------------------------
(* handle_request.  c has given back its payload.                          *)

List(p, c, len) ==
    /\ UNCHANGED files
    /\ \/ len # 0 /\ Settle(p, Refuse(c, "LIST"), fdtab)
       \/ /\ len = 0 /\ Free # {}
          /\ \E l \in Listings : Settle(p, QueueReply(c, "LIST", 0, l), fdtab)
       \/ /\ len = 0
          /\ Free = {} \/ "resource" \in Faults   \* opendir
          /\ Settle(p, Fail(c, "LIST"), fdtab)

(* start_get_transfer: the reply's header alone, the file after it.        *)
StartGet(c, fd, size) ==
    [c EXCEPT !.out_buf = <<[cmd |-> "GET", status |-> 0,
                             length |-> size, body |-> <<>>]>>,
              !.out_sent = 0,
              !.get_fd = fd,
              !.get_left = size,
              !.state = "WRITE_BUFFER"]

GetOpens(name) == Free # {} /\ files[name].kind = "reg"

Get(p, c, units) ==
    /\ UNCHANGED files
    /\ \/ ~Named(units) /\ Settle(p, Refuse(c, "GET"), fdtab)
       \/ /\ Named(units)
          /\ LET name == NameOf(units) IN
                \/ /\ GetOpens(name)
                   /\ Settle(p, StartGet(c, LowestFree, Len(files[name].data)),
                             [fdtab EXCEPT ![LowestFree] =
                                [kind |-> "get", peer |-> p, name |-> name,
                                 off |-> 0]])
                \/ GetOpens(name) /\ "resource" \in Faults /\ Drop(p, c, fdtab)
                \/ /\ ~GetOpens(name) \/ "resource" \in Faults
                   /\ Settle(p, Fail(c, "GET"), fdtab)

(* The first PUT message only names the file; it has no reply.             *)
PutName(p, c, units) ==
    /\ UNCHANGED files
    /\ \/ ~Named(units) /\ Settle(p, Refuse(c, "PUT"), fdtab)
       \/ /\ Named(units)
          /\ Settle(p, [c EXCEPT !.pending_put_name = NameOf(units),
                                 !.state = "READ_HEADER"], fdtab)

HandleRequest(p, c, h, units) ==
    \/ h.cmd = "LIST" /\ List(p, c, h.length)
    \/ h.cmd = "GET" /\ Get(p, c, units)
    \/ h.cmd = "PUT" /\ PutName(p, c, units)
    \/ /\ h.cmd = "QUIT"
       /\ Settle(p, QueueReply(Closing(c), "QUIT", 0, <<>>), fdtab)
       /\ UNCHANGED files
    \/ /\ h.cmd = "OTHER"
       /\ Settle(p, Fail(c, "OTHER"), fdtab)
       /\ UNCHANGED files

-----------------------------------------------------------------------------
(* The second PUT message: open, then the data.                            *)

PutDone(c) == [c EXCEPT !.put_fd = NoFd, !.pending_put_name = NULL]

PutOpens(name) == Free # {} /\ files[name].kind # "dir"

OpenPut(p, c, len) ==
    LET name == c.pending_put_name
        opened == [c EXCEPT !.state = "READ_PUT_STREAM", !.put_left = len,
                            !.put_fd = LowestFree]
    IN  \/ /\ PutOpens(name)
           /\ files' = [files EXCEPT ![name] = Truncated]
           /\ \/ /\ len = 0
                 /\ Settle(p, QueueReply(PutDone(opened), "PUT", 0, <<>>), fdtab)
              \/ /\ len > 0
                 /\ Settle(p, opened,
                           [fdtab EXCEPT ![LowestFree] =
                              [kind |-> "put", peer |-> p, name |-> name,
                               off |-> 0]])
        \/ /\ ~PutOpens(name) \/ "resource" \in Faults
           /\ Settle(p, Fail([c EXCEPT !.put_left = len,
                                       !.pending_put_name = NULL], "PUT"), fdtab)
           /\ UNCHANGED files

StoredAnew(name, off, bytes) ==   \* mutant: every write is at offset 0
    Stored(name, 0, bytes)

Written(name, off, bytes) == Stored(name, off, bytes)

HandlePutStream(p) ==
    LET c == conn[p]
        n == Got(p, c.put_left)
        f == fdtab[c.put_fd]
        left == [c EXCEPT !.put_left = @ - n]
        written == [fdtab EXCEPT ![c.put_fd].off = @ + n]
    IN  /\ Take(p, c.put_left)
        /\ UNCHANGED rx
        /\ \/ /\ files' = Written(f.name, f.off, Bytes(Received(p, n)))
              /\ \/ /\ n = c.put_left
                    /\ Settle(p, QueueReply(PutDone(left), "PUT", 0, <<>>),
                              [fdtab EXCEPT ![c.put_fd] = FreeFd])
                 \/ n < c.put_left /\ Ended(p) /\ Drop(p, c, fdtab)
                 \/ n < c.put_left /\ ~Ended(p) /\ Settle(p, left, written)
           \/ /\ "write" \in Faults                          \* ENOSPC
              /\ \E w \in 0 .. n - 1 :
                    files' = Written(f.name, f.off, Bytes(Received(p, w)))
              /\ Drop(p, c, fdtab)

-----------------------------------------------------------------------------
(* handle_read_header and handle_read_payload.                             *)

TooLong(h) ==
    \/ h.cmd \in {"GET", "PUT"} /\ h.length > MaxFilenameLen
    \/ h.length > MaxGenericPayload

HeaderRead(p, c, h) ==
    \/ /\ c.pending_put_name # NULL /\ h.cmd # "PUT"
       /\ Settle(p, Refuse(c, "PUT"), fdtab)
       /\ UNCHANGED files
    \/ /\ c.pending_put_name # NULL /\ h.cmd = "PUT"
       /\ OpenPut(p, c, h.length)
    \/ /\ c.pending_put_name = NULL
       /\ \/ h.length = 0 /\ HandleRequest(p, c, h, <<>>)
          \/ TooLong(h) /\ Settle(p, Refuse(c, h.cmd), fdtab) /\ UNCHANGED files
          \/ /\ h.length > 0 /\ ~TooLong(h)
             /\ Settle(p, [c EXCEPT !.payload_len = h.length,
                                    !.state = "READ_PAYLOAD"], fdtab)
             /\ UNCHANGED files

HandleReadHeader(p) ==
    LET c == conn[p]
        need == HdrLen - Len(c.header_buf)
        units == c.header_buf \o Received(p, need)
    IN  /\ Take(p, need)
        /\ UNCHANGED rx
        /\ \/ /\ Len(units) < HdrLen
              /\ \/ Ended(p) /\ Drop(p, c, fdtab)
                 \/ ~Ended(p) /\ Settle(p, [c EXCEPT !.header_buf = units], fdtab)
              /\ UNCHANGED files
           \/ /\ Len(units) = HdrLen /\ IsHeader(units)
              /\ HeaderRead(p, [c EXCEPT !.header_buf = <<>>,
                                         !.cur_header = units[1].head],
                            units[1].head)
           \/ /\ Len(units) = HdrLen /\ ~IsHeader(units)   \* wrong magic
              /\ Drop(p, c, fdtab)
              /\ UNCHANGED files

HandleReadPayload(p) ==
    LET c == conn[p]
        need == c.payload_len - Len(c.payload)
        units == c.payload \o Received(p, need)
    IN  /\ Take(p, need)
        /\ UNCHANGED rx
        /\ \/ /\ Len(units) < c.payload_len
              /\ \/ Ended(p) /\ Drop(p, c, fdtab)
                 \/ ~Ended(p) /\ Settle(p, [c EXCEPT !.payload = units], fdtab)
              /\ UNCHANGED files
           \/ /\ Len(units) = c.payload_len
              /\ HandleRequest(p, [c EXCEPT !.payload = <<>>, !.payload_len = 0],
                               c.cur_header, units)

-----------------------------------------------------------------------------
(* handle_write_buffer and handle_write_get_file.                          *)

SentKept(c) == [c EXCEPT !.out_buf = <<>>]   \* mutant: out_sent survives

(* out_buf went out whole.                                                 *)
BufferDone(c) == [c EXCEPT !.out_buf = <<>>, !.out_sent = 0]

BodySkipped(c) == "READ_HEADER"   \* mutant: the file is not sent

(* The state after a reply, unless the connection is to be closed.         *)
AfterReply(c) ==
    IF c.get_fd # NoFd /\ c.get_left > 0 THEN "WRITE_GET_FILE" ELSE "READ_HEADER"

StaysOpen(c) == FALSE   \* mutant: close_after_write is not looked at

CloseNow(c) == AfterReply(c) = "READ_HEADER" /\ c.close_after_write

HandleWriteBuffer(p) ==
    LET c == conn[p]
        r == c.out_buf[1]
        upto == MinOf(c.out_sent + Space(p), Len(r.body) + 1)
        done == BufferDone(c)
    IN  /\ UNCHANGED <<rcvd, files>>
        /\ \/ /\ sock[p] = "rst"
              /\ Drop(p, c, fdtab)
              /\ UNCHANGED <<rx, unread>>
           \/ /\ ~Broken(p)
              /\ rx' = [rx EXCEPT ![p] = Extend(@, r, c.out_sent, upto)]
              /\ unread' = [unread EXCEPT ![p] = @ + (upto - c.out_sent)]
              /\ \/ /\ upto < Len(r.body) + 1
                    /\ Settle(p, [c EXCEPT !.out_sent = upto], fdtab)
                 \/ /\ upto = Len(r.body) + 1 /\ CloseNow(done)
                    /\ Drop(p, done, fdtab)
                 \/ /\ upto = Len(r.body) + 1 /\ ~CloseNow(done)
                    /\ Settle(p, [done EXCEPT !.state = AfterReply(done)], fdtab)

(* sendfile sends what the file still has; at its end it returns 0 and the *)
(* loop is left with get_left > 0.                                         *)
FileLeft(f) == MaxOf(Len(files[f.name].data), f.off) - f.off

FirstPiece(f, n) ==   \* mutant: sendfile is always given offset 0
    SubSeq(files[f.name].data, 1, n)

Piece(f, n) == SubSeq(files[f.name].data, f.off + 1, f.off + n)

GetDone(c) == [c EXCEPT !.get_fd = NoFd, !.state = "READ_HEADER"]

HandleWriteGetFile(p) ==
    LET c == conn[p]
        f == fdtab[c.get_fd]
        n == MinOf(MinOf(Space(p), c.get_left), FileLeft(f))
        left == [c EXCEPT !.get_left = @ - n]
    IN  /\ UNCHANGED <<rcvd, files>>
        /\ \/ /\ sock[p] = "rst" /\ FileLeft(f) > 0
              /\ Drop(p, c, fdtab)
              /\ UNCHANGED <<rx, unread>>
           \/ /\ ~Broken(p) \/ FileLeft(f) = 0
              /\ rx' = [rx EXCEPT ![p][Len(rx[p])].body = @ \o Piece(f, n)]
              /\ unread' = [unread EXCEPT ![p] = @ + n]
              /\ \/ /\ n = c.get_left
                    /\ Settle(p, GetDone(left), [fdtab EXCEPT ![c.get_fd] = FreeFd])
                 \/ /\ n < c.get_left
                    /\ Settle(p, left, [fdtab EXCEPT ![c.get_fd].off = @ + n])

-----------------------------------------------------------------------------
(* One event of the batch.                                                 *)

Handler(p, e) ==
    \/ /\ e.hup
       /\ Drop(p, conn[p], fdtab)
       /\ UNCHANGED <<rcvd, rx, unread, files>>
    \/ /\ ~e.hup /\ e.rd
       /\ UNCHANGED unread
       /\ \/ conn[p].state = "READ_HEADER" /\ HandleReadHeader(p)
          \/ conn[p].state = "READ_PAYLOAD" /\ HandleReadPayload(p)
          \/ conn[p].state = "READ_PUT_STREAM" /\ HandlePutStream(p)
    \/ /\ ~e.hup /\ e.wr
       /\ \/ conn[p].state = "WRITE_BUFFER" /\ HandleWriteBuffer(p)
          \/ conn[p].state = "WRITE_GET_FILE" /\ HandleWriteGetFile(p)

(* send or sendfile on a connection closed and then reset by its peer      *)
(* raises SIGPIPE, for which nothing installs a handler.                   *)
Sends(p) ==
    \/ conn[p].state = "WRITE_BUFFER"
    \/ conn[p].state = "WRITE_GET_FILE" /\ FileLeft(fdtab[conn[p].get_fd]) > 0

KilledBySigpipe(e) ==
    /\ ~accepting
    /\ e.fd # LFD
    /\ conn_map[e.fd] # NULL
    /\ ~e.hup /\ e.wr
    /\ sock[conn_map[e.fd]] = "pipe" /\ Sends(conn_map[e.fd])
    /\ Stop

Handle(e) ==
    /\ ~accepting
    /\ e.fd # LFD
    /\ batch' = batch \ {e}
    /\ conn_map[e.fd] # NULL
    /\ Handler(conn_map[e.fd], e)
    /\ UNCHANGED <<sock, stream, sent, backlog, accepting, running>>

Server ==
    \/ EpollWait \/ EpollWaitFails
    \/ AcceptStart \/ AcceptOne \/ AcceptDone
    \/ \E e \in batch : Handle(e) \/ KilledBySigpipe(e)

Peer(p) ==
    PeerConnects(p) \/ PeerSends(p) \/ PeerReads(p) \/ PeerLeaves(p)

Next == Server \/ \E p \in Peers : Peer(p)

Spec == Init /\ [][Next]_vars

(* The server's thread is scheduled; a peer connects, sends all it means   *)
(* to and reads what it is sent.  No peer has to leave.                    *)
Fairness ==
    /\ WF_vars(Server)
    /\ \A p \in Peers :
        WF_vars(PeerConnects(p)) /\ WF_vars(PeerSends(p)) /\ WF_vars(PeerReads(p))

FairSpec == Spec /\ Fairness

-----------------------------------------------------------------------------
(* The types of the server's records, tables and events.                   *)
TypeOK ==
    /\ WireTypeOK
    /\ conn \in [Peers -> Conn]
    /\ conn_map \in [Fds -> Peers \cup {NULL}]
    /\ fdtab \in [Fds -> FdEntry]
    /\ interest \in [Peers -> {"none", "in", "out"}]
    /\ batch \in SUBSET Event
    /\ accepting \in BOOLEAN
    /\ running \in BOOLEAN

(* What a handler dereferences is there, and nothing is left over from an  *)
(* earlier request.                                                        *)
BuffersFit(c) ==
    /\ c.header_buf # <<>> => c.state = "READ_HEADER"
    /\ Len(c.header_buf) < HdrLen
    /\ c.state = "READ_PAYLOAD" <=> c.payload_len > 0
    /\ c.state = "READ_PAYLOAD" => Len(c.payload) < c.payload_len
    /\ c.state # "READ_PAYLOAD" => c.payload = <<>>
    /\ c.state = "READ_PUT_STREAM" <=> c.put_fd # NoFd
    /\ c.state = "READ_PUT_STREAM" => c.put_left > 0 /\ c.pending_put_name # NULL
    /\ c.state = "WRITE_BUFFER" <=> c.out_buf # <<>>
    /\ c.state = "WRITE_BUFFER" => c.out_sent <= Len(c.out_buf[1].body)
    /\ c.state # "WRITE_BUFFER" => c.out_sent = 0
    /\ c.state = "WRITE_GET_FILE" => c.get_left > 0
    /\ c.get_left > 0 => c.get_fd # NoFd /\ c.state \in Writing
    /\ c.close_after_write => c.state = "WRITE_BUFFER" /\ c.get_left = 0

(* A connection's buffers and descriptors are those its state works on,    *)
(* and a connection to be closed has only its last reply to write          *)
(* (handle_read_header .. handle_write_get_file).                          *)
BuffersMatchState == \A p \in Peers : BuffersFit(conn[p])

(* conn_map, the conn_t's and the descriptor table agree: every connection *)
(* is found under its own descriptor, uses only files it opened itself,    *)
(* and no socket and no uploaded file is left open without a connection    *)
(* (run_server's accept loop, close_conn, free_conn_buffers).              *)
DescriptorsOwned ==
    /\ \A p \in Peers : LET c == conn[p] IN
        /\ Connected(p) =>
               /\ fdtab[c.fd].kind = "sock" /\ fdtab[c.fd].peer = p
               /\ conn_map[c.fd] = p
        /\ c.put_fd # NoFd =>
               /\ fdtab[c.put_fd].kind = "put" /\ fdtab[c.put_fd].peer = p
               /\ fdtab[c.put_fd].name = c.pending_put_name
        /\ c.get_fd # NoFd =>
               fdtab[c.get_fd].kind = "get" /\ fdtab[c.get_fd].peer = p
    /\ \A fd \in Fds :
        /\ conn_map[fd] # NULL => conn[conn_map[fd]].fd = fd
        /\ fdtab[fd].kind = "sock" => conn_map[fd] = fdtab[fd].peer
        /\ fdtab[fd].kind = "put" => conn[fdtab[fd].peer].put_fd = fd

(* An event of the batch is handled on the connection it came from, even   *)
(* when connections were closed and accepted since epoll_wait returned,    *)
(* and finds it in a state that waits for it.  The checks of run_server    *)
(* for a NULL conn_map entry never have to act.                            *)
EventsCurrent ==
    \A e \in batch :
        /\ e.fd # LFD =>
              /\ conn_map[e.fd] = e.peer /\ e.peer # NULL
              /\ e.rd => conn[e.peer].state \in Reading
              /\ e.wr => conn[e.peer].state \in Writing
        /\ \A other \in batch : other.fd = e.fd => other = e

(* Every descriptor opened for a download belongs to a connection that     *)
(* will close it.                                                          *)
NoFdLeak ==
    \A fd \in Fds : fdtab[fd].kind = "get" => conn[fdtab[fd].peer].get_fd = fd
=============================================================================
