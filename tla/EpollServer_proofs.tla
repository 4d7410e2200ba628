------------------------- MODULE EpollServer_proofs -------------------------
(***************************************************************************)
(* The safety properties of EpollServer for every number of peers, of      *)
(* descriptors and of names, every stream and every buffer size, and that  *)
(* replies are framed.  All follow from one inductive invariant, IInv.     *)
(***************************************************************************)
EXTENDS EpollService, Service_proofs

(* A reply that is to be written has its length in its header: what        *)
(* follows the header in the buffer, and the file that follows the buffer. *)
ReplyFits(c) ==
    c.state = "WRITE_BUFFER" =>
        /\ Len(c.out_buf) = 1
        /\ c.out_buf[1].length = Len(c.out_buf[1].body) + c.get_left

Fit(c) == c \in Conn /\ BuffersFit(c) /\ ReplyFits(c)

(* The open descriptors of the table are somebody's, and files have names. *)
TableFit(ft) ==
    \A fd \in Fds :
        /\ ft[fd].kind # "free" => ft[fd].peer \in Peers
        /\ ft[fd].kind \in {"put", "get"} => ft[fd].name \in SafeNames

(* Whoever waits to be accepted does so once, has no connection yet and    *)
(* was sent nothing.                                                       *)
Queued ==
    /\ \A i, j \in 1 .. Len(backlog) : backlog[i] = backlog[j] => i = j
    /\ \A i \in 1 .. Len(backlog) :
           /\ conn[backlog[i]].fd = NoFd /\ sock[backlog[i]] # "idle"
           /\ rx[backlog[i]] = <<>>
    /\ \A p \in Peers : sock[p] = "idle" => conn[p].fd = NoFd /\ rx[p] = <<>>

(* A connection is registered for the event its state waits for; who has   *)
(* none has a record like new.                                             *)
Watched ==
    \A p \in Peers :
        /\ conn[p].fd # NoFd => interest[p] = InterestOf(conn[p].state)
        /\ conn[p].fd = NoFd => conn[p] = NoConn

(* The listening socket's event is the one it always has, and a socket     *)
(* that was writable still is when its event is handled.                   *)
Awaited ==
    \A e \in batch :
        /\ e.fd = LFD => e = ListenEvent
        /\ e.fd # LFD /\ e.wr => Space(e.peer) > 0 \/ Broken(e.peer)

(* How much of the reply begun last has been sent: none of the one in      *)
(* out_buf before out_sent moves, and what get_left lacks of a file.       *)
SentFits(c, log) ==
    /\ c.state # "WRITE_GET_FILE" /\ c.out_sent = 0 => Whole(log)
    /\ c.state = "WRITE_BUFFER" /\ c.out_sent > 0 =>
           /\ log # <<>>
           /\ log[Len(log)].length = c.out_buf[1].length
           /\ Len(log[Len(log)].body) = c.out_sent - 1
    /\ c.state = "WRITE_GET_FILE" =>
           /\ log # <<>>
           /\ log[Len(log)].length = Len(log[Len(log)].body) + c.get_left

Replied ==
    \A p \in Peers :
        /\ LogFits(rx[p])
        /\ conn[p].fd # NoFd => SentFits(conn[p], rx[p])

IInv ==
    /\ TypeOK
    /\ \A p \in Peers : BuffersFit(conn[p]) /\ ReplyFits(conn[p])
    /\ TableFit(fdtab)
    /\ DescriptorsOwned
    /\ EventsCurrent
    /\ Queued
    /\ Watched
    /\ Awaited
    /\ Replied

-----------------------------------------------------------------------------
(* Connection records.                                                     *)

LEMMA NewConnFits ==
    ASSUME NEW fd \in 0 .. FdLimit
    PROVE  Fit(NewConn(fd))
<1> DEFINE d == NewConn(fd)
<1>1. /\ d.header_buf = <<>> /\ d.payload_len = 0 /\ d.payload = <<>>
      /\ d.put_fd = NoFd /\ d.get_left = 0 /\ d.out_buf = <<>> /\ d.out_sent = 0
      /\ d.state = "READ_HEADER" /\ d.close_after_write = FALSE
  BY DEF NewConn
<1>2. <<>> \in Seq(Unit) /\ <<>> \in Seq(Reply) /\ NoHeader \in Header
  BY DEF NoHeader, Header, Cmds
<1>3. d \in Conn
  BY <1>2, SizeAssumption DEF NewConn, Conn, Reading, Writing, NoFd
<1> HIDE DEF d
<1>4. BuffersFit(d) /\ ReplyFits(d)
  BY <1>1, WireAssumption DEF BuffersFit, ReplyFits, Reading, Writing, NoFd
<1>. QED
  BY <1>3, <1>4 DEF Fit, d

(* What a handler has when it queues a reply: nothing half-read, no file   *)
(* half-sent.                                                              *)
Cleared(c) ==
    /\ c \in Conn
    /\ c.header_buf = <<>> /\ c.payload_len = 0 /\ c.payload = <<>>
    /\ c.put_fd = NoFd /\ c.get_left = 0

LEMMA QueueReplyFits ==
    ASSUME NEW c, Cleared(c), NEW cmd \in Cmds, NEW status \in {0, 1},
           NEW body \in Seq(Byte), NEW d, d = QueueReply(c, cmd, status, body)
    PROVE  /\ Fit(d)
           /\ d.state = "WRITE_BUFFER" /\ d.out_sent = 0
           /\ d.fd = c.fd /\ d.put_fd = NoFd /\ d.get_fd = c.get_fd
<1> DEFINE r == [cmd |-> cmd, status |-> status, length |-> Len(body), body |-> body]
<1>1. r \in Reply /\ r.length = Len(r.body) /\ r.body = body /\ Len(body) \in Nat
  BY LenProperties DEF Reply
<1>2. d = [c EXCEPT !.out_buf = <<r>>, !.out_sent = 0, !.state = "WRITE_BUFFER"]
  BY DEF QueueReply
<1> HIDE DEF r
<1>3. <<r>> \in Seq(Reply) /\ Len(<<r>>) = 1 /\ <<r>>[1] = r /\ <<r>> # <<>>
  BY <1>1
<1>4. d \in Conn
  BY <1>2, <1>3 DEF Cleared, Conn, Writing, Reading
<1>5. /\ d.out_buf = <<r>> /\ d.out_sent = 0 /\ d.state = "WRITE_BUFFER"
      /\ d.header_buf = <<>> /\ d.payload_len = 0 /\ d.payload = <<>>
      /\ d.put_fd = NoFd /\ d.get_left = 0 /\ d.fd = c.fd /\ d.get_fd = c.get_fd
  BY <1>2 DEF Cleared, Conn
<1>6. BuffersFit(d)
  BY <1>1, <1>3, <1>5, WireAssumption DEF BuffersFit, Reading, Writing, NoFd
<1>7. ReplyFits(d)
  BY <1>1, <1>3, <1>5 DEF ReplyFits
<1>. QED
  BY <1>4, <1>5, <1>6, <1>7 DEF Fit

LEMMA FailFits ==
    ASSUME NEW c, Cleared(c), NEW cmd \in Cmds, NEW d,
           d \in {Fail(c, cmd), Refuse(c, cmd)}
    PROVE  /\ Fit(d)
           /\ d.state = "WRITE_BUFFER" /\ d.out_sent = 0
           /\ d.fd = c.fd /\ d.put_fd = NoFd /\ d.get_fd = c.get_fd
<1> DEFINE none == <<>>
<1>1. none \in Seq(Byte)
  OBVIOUS
<1> HIDE DEF none
<1>2. CASE d = Fail(c, cmd)
  <2>1. d = QueueReply(c, cmd, 1, none)
    BY <1>2 DEF Fail, none
  <2>. QED
    BY <1>1, <2>1, QueueReplyFits
<1>3. CASE d = Refuse(c, cmd)
  <2>1. Cleared(Closing(c)) /\ Closing(c).fd = c.fd /\ Closing(c).get_fd = c.get_fd
    BY DEF Cleared, Closing, Conn
  <2>2. d = QueueReply(Closing(c), cmd, 1, none)
    BY <1>3 DEF Refuse, none
  <2>3. /\ Fit(d)
        /\ d.state = "WRITE_BUFFER" /\ d.out_sent = 0
        /\ d.fd = Closing(c).fd /\ d.put_fd = NoFd /\ d.get_fd = Closing(c).get_fd
    BY <1>1, <2>1, <2>2, QueueReplyFits
  <2>. QED
    BY <2>1, <2>3
<1>. QED
  BY <1>2, <1>3

LEMMA StartGetFits ==
    ASSUME NEW c, Cleared(c), ~c.close_after_write, NEW fd \in Fds, NEW size \in Nat,
           NEW d, d = StartGet(c, fd, size)
    PROVE  /\ Fit(d)
           /\ d.state = "WRITE_BUFFER" /\ d.out_sent = 0
           /\ d.fd = c.fd /\ d.put_fd = NoFd /\ d.get_fd = fd
<1> DEFINE r == [cmd |-> "GET", status |-> 0, length |-> size, body |-> <<>>]
<1>1. r \in Reply /\ r.length = size /\ r.body = <<>>
  BY DEF Reply, Cmds
<1>2. d = [c EXCEPT !.out_buf = <<r>>, !.out_sent = 0, !.get_fd = fd,
                    !.get_left = size, !.state = "WRITE_BUFFER"]
  BY DEF StartGet
<1> HIDE DEF r
<1>3. <<r>> \in Seq(Reply) /\ Len(<<r>>) = 1 /\ <<r>>[1] = r /\ <<r>> # <<>>
  BY <1>1
<1>4. fd \in 0 .. FdLimit /\ fd # NoFd
  BY SizeAssumption DEF Fds, NoFd
<1>5. d \in Conn
  BY <1>2, <1>3, <1>4 DEF Cleared, Conn, Writing, Reading
<1>6. /\ d.out_buf = <<r>> /\ d.out_sent = 0 /\ d.state = "WRITE_BUFFER"
      /\ d.header_buf = <<>> /\ d.payload_len = 0 /\ d.payload = <<>>
      /\ d.put_fd = NoFd /\ d.get_left = size /\ d.fd = c.fd /\ d.get_fd = fd
      /\ d.close_after_write = FALSE
  BY <1>2 DEF Cleared, Conn
<1>7. BuffersFit(d)
  BY <1>1, <1>3, <1>4, <1>6, WireAssumption DEF BuffersFit, Reading, Writing, NoFd
<1>8. ReplyFits(d)
  BY <1>1, <1>3, <1>6 DEF ReplyFits
<1>. QED
  BY <1>5, <1>6, <1>7, <1>8 DEF Fit

-----------------------------------------------------------------------------
(* Descriptors.                                                            *)

LEMMA LowestFreeType ==
    ASSUME Free # {}
    PROVE  LowestFree \in Fds /\ fdtab[LowestFree].kind = "free"
<1>1. Free \in SUBSET Nat
  BY SizeAssumption DEF Free, Fds
<1>2. \E fd \in Free : \A other \in Free : fd <= other
  BY <1>1, LeastNatural
<1>3. LowestFree \in Free
  BY <1>2 DEF LowestFree
<1>. QED
  BY <1>3 DEF Free

(* What a handler makes of the record and of the table before close_conn   *)
(* or set_interest_by_state: its own files are open, and the descriptors   *)
(* of the others are as they were.                                         *)
Outcome(p, c, ft) ==
    /\ Fit(c) /\ c.fd = conn[p].fd
    /\ ft \in [Fds -> FdEntry] /\ TableFit(ft)
    /\ ft[c.fd].kind = "sock" /\ ft[c.fd].peer = p
    /\ c.put_fd # NoFd =>
           /\ ft[c.put_fd].kind = "put" /\ ft[c.put_fd].peer = p
           /\ ft[c.put_fd].name = c.pending_put_name
    /\ c.get_fd # NoFd => ft[c.get_fd].kind = "get" /\ ft[c.get_fd].peer = p
    /\ \A fd \in Fds :
           /\ \/ ft[fd] = fdtab[fd]
              \/ fdtab[fd].kind = "free"
              \/ fd = conn[p].put_fd \/ fd = conn[p].get_fd
           /\ ft[fd].kind = "sock" => ft[fd] = fdtab[fd]
           /\ ft[fd].kind = "put" /\ fd # c.put_fd =>
                  ft[fd] = fdtab[fd] /\ fdtab[fd].peer # p

Ends(p, c, ft) == Keep(p, c, ft) \/ Drop(p, c, ft)

LEMMA SettleEnds ==
    ASSUME NEW p, NEW c, NEW ft, Settle(p, c, ft)
    PROVE  Ends(p, c, ft)
BY DEF Settle, Ends

(* The parts of IInv about one connection, as they are used.               *)
LEMMA ConnFits ==
    ASSUME IInv, NEW p \in Peers
    PROVE  /\ Fit(conn[p]) /\ conn[p] \in Conn
           /\ conn[p].fd \in 0 .. FdLimit /\ conn[p].put_fd \in 0 .. FdLimit
           /\ conn[p].get_fd \in 0 .. FdLimit
BY DEF IInv, TypeOK, Fit, Conn

LEMMA OpenIsFd ==
    ASSUME NEW fd \in 0 .. FdLimit, fd # NoFd
    PROVE  fd \in Fds
BY SizeAssumption DEF Fds, NoFd

(* A handler that opens and closes nothing leaves the table as it is.      *)
LEMMA SameFiles ==
    ASSUME IInv, NEW p \in Peers, Connected(p), NEW c, Fit(c),
           c.fd = conn[p].fd, c.put_fd = conn[p].put_fd, c.get_fd = conn[p].get_fd,
           c.put_fd # NoFd => c.pending_put_name = conn[p].pending_put_name
    PROVE  Outcome(p, c, fdtab)
<1>1. fdtab \in [Fds -> FdEntry] /\ TableFit(fdtab) /\ DescriptorsOwned
  BY DEF IInv, TypeOK
<1>2. /\ fdtab[c.fd].kind = "sock" /\ fdtab[c.fd].peer = p
      /\ c.put_fd # NoFd =>
             /\ fdtab[c.put_fd].kind = "put" /\ fdtab[c.put_fd].peer = p
             /\ fdtab[c.put_fd].name = c.pending_put_name
      /\ c.get_fd # NoFd => fdtab[c.get_fd].kind = "get" /\ fdtab[c.get_fd].peer = p
  BY <1>1 DEF DescriptorsOwned, Connected
<1>3. ASSUME NEW fd \in Fds, fdtab[fd].kind = "put", fd # c.put_fd
      PROVE  fdtab[fd].peer # p
  BY <1>1, <1>3 DEF DescriptorsOwned
<1>. QED
  BY <1>1, <1>2, <1>3 DEF Outcome

(* The descriptors of other connections are not touched.                   *)
LEMMA OthersKept ==
    ASSUME IInv, NEW p \in Peers, Connected(p), NEW c, NEW ft, Outcome(p, c, ft),
           NEW fd \in Fds, fdtab[fd].kind # "free", fdtab[fd].peer # p
    PROVE  ft[fd] = fdtab[fd] /\ fd \notin Closed(c)
<1>1. conn[p].put_fd = fd => fdtab[fd].peer = p
  BY SizeAssumption DEF IInv, DescriptorsOwned, Fds, NoFd
<1>2. conn[p].get_fd = fd => fdtab[fd].peer = p
  BY SizeAssumption DEF IInv, DescriptorsOwned, Fds, NoFd
<1>3. ft[fd] = fdtab[fd]
  BY <1>1, <1>2 DEF Outcome
<1>4. fd \notin Closed(c)
  BY <1>3, SizeAssumption DEF Outcome, Closed, Fds, NoFd
<1>. QED
  BY <1>3, <1>4

(* However a handler ends, the connection records, conn_map and the        *)
(* descriptor table still agree.                                           *)
LEMMA EndsOwned ==
    ASSUME IInv, NEW p \in Peers, Connected(p), NEW c, NEW ft,
           Outcome(p, c, ft), Ends(p, c, ft)
    PROVE  /\ conn' \in [Peers -> Conn] /\ conn_map' \in [Fds -> Peers \cup {NULL}]
           /\ fdtab' \in [Fds -> FdEntry]
           /\ interest' \in [Peers -> {"none", "in", "out"}]
           /\ \A q \in Peers : BuffersFit(conn'[q]) /\ ReplyFits(conn'[q])
           /\ TableFit(fdtab') /\ DescriptorsOwned' /\ Watched'
           /\ \A q \in Peers \ {p} : conn'[q] = conn[q]
           /\ \A fd \in Fds \ {conn[p].fd} : conn_map'[fd] = conn_map[fd]
           /\ (conn'[p] = c /\ conn_map' = conn_map) \/ conn'[p] = NoConn
<1>1. /\ conn \in [Peers -> Conn] /\ conn_map \in [Fds -> Peers \cup {NULL}]
      /\ fdtab \in [Fds -> FdEntry]
      /\ interest \in [Peers -> {"none", "in", "out"}]
      /\ \A q \in Peers : BuffersFit(conn[q]) /\ ReplyFits(conn[q])
      /\ TableFit(fdtab) /\ DescriptorsOwned /\ Watched
  BY DEF IInv, TypeOK
<1>2. /\ c \in Conn /\ BuffersFit(c) /\ ReplyFits(c) /\ c.fd = conn[p].fd
      /\ ft \in [Fds -> FdEntry] /\ TableFit(ft)
  BY DEF Outcome, Fit
<1>3. c.fd \in Fds /\ c.fd # NoFd
  BY <1>1, <1>2, OpenIsFd DEF Connected, Conn
<1>4. /\ NoConn \in Conn /\ BuffersFit(NoConn) /\ ReplyFits(NoConn)
      /\ NoConn.fd = NoFd /\ NoConn.put_fd = NoFd /\ NoConn.get_fd = NoFd
  <2>1. Fit(NoConn)
    BY NewConnFits, SizeAssumption DEF NoConn, NoFd
  <2>. QED
    BY <2>1 DEF Fit, NoConn, NewConn
<1>5. /\ FreeFd \in FdEntry /\ FreeFd.kind = "free"
  BY DEF FreeFd, FdEntry
<1>6. ASSUME NEW fd \in Fds, ft[fd].kind = "put", fd # c.put_fd
      PROVE  /\ ft[fd] = fdtab[fd] /\ fdtab[fd].peer \in Peers \ {p}
             /\ conn[fdtab[fd].peer].put_fd = fd
  BY <1>1, <1>2, <1>6 DEF Outcome, TableFit, DescriptorsOwned
<1>7. ASSUME NEW fd \in Fds, ft[fd].kind = "sock"
      PROVE  ft[fd] = fdtab[fd] /\ conn_map[fd] = fdtab[fd].peer
  BY <1>1, <1>7 DEF Outcome, DescriptorsOwned
<1>8. ASSUME NEW q \in Peers \ {p}, conn[q].fd # NoFd
      PROVE  /\ conn[q].fd \in Fds /\ conn[q].fd \notin Closed(c)
             /\ ft[conn[q].fd].kind = "sock" /\ ft[conn[q].fd].peer = q
             /\ conn_map[conn[q].fd] = q
  <2>1. /\ conn[q].fd \in Fds /\ fdtab[conn[q].fd].kind = "sock"
        /\ fdtab[conn[q].fd].peer = q /\ conn_map[conn[q].fd] = q
    BY <1>1, <1>8, ConnFits, OpenIsFd DEF DescriptorsOwned, Connected
  <2>. QED
    BY <2>1, OthersKept
<1>9. ASSUME NEW q \in Peers \ {p}, conn[q].put_fd # NoFd
      PROVE  /\ conn[q].put_fd \in Fds /\ conn[q].put_fd \notin Closed(c)
             /\ ft[conn[q].put_fd].kind = "put" /\ ft[conn[q].put_fd].peer = q
             /\ ft[conn[q].put_fd].name = conn[q].pending_put_name
  <2>1. /\ conn[q].put_fd \in Fds /\ fdtab[conn[q].put_fd].kind = "put"
        /\ fdtab[conn[q].put_fd].peer = q
        /\ fdtab[conn[q].put_fd].name = conn[q].pending_put_name
    BY <1>1, <1>9, ConnFits, OpenIsFd DEF DescriptorsOwned
  <2>. QED
    BY <2>1, OthersKept
<1>10. ASSUME NEW q \in Peers \ {p}, conn[q].get_fd # NoFd
       PROVE  /\ conn[q].get_fd \in Fds /\ conn[q].get_fd \notin Closed(c)
              /\ ft[conn[q].get_fd].kind = "get" /\ ft[conn[q].get_fd].peer = q
  <2>1. /\ conn[q].get_fd \in Fds /\ fdtab[conn[q].get_fd].kind = "get"
        /\ fdtab[conn[q].get_fd].peer = q
    BY <1>1, <1>10, ConnFits, OpenIsFd DEF DescriptorsOwned
  <2>. QED
    BY <2>1, OthersKept
<1>11. CASE Keep(p, c, ft)
  <2>1. /\ conn' = [conn EXCEPT ![p] = c] /\ fdtab' = ft /\ conn_map' = conn_map
        /\ interest' = [interest EXCEPT ![p] = InterestOf(c.state)]
    BY <1>11 DEF Keep
  <2>2. conn'[p] = c /\ \A q \in Peers \ {p} : conn'[q] = conn[q]
    BY <1>1, <2>1
  <2>3. /\ conn' \in [Peers -> Conn]
        /\ \A q \in Peers : BuffersFit(conn'[q]) /\ ReplyFits(conn'[q])
    <3>1. conn' \in [Peers -> Conn]
      BY <1>1, <1>2, <2>1
    <3>. QED
      BY <1>1, <1>2, <2>2, <3>1
  <2>4. interest' \in [Peers -> {"none", "in", "out"}]
    BY <1>1, <2>1 DEF InterestOf
  <2>5. Watched'
    BY <1>1, <1>2, <1>3, <2>1, <2>2 DEF Watched
  <2>6. ASSUME NEW q \in Peers
        PROVE  /\ conn'[q].fd # NoFd =>
                      /\ ft[conn'[q].fd].kind = "sock" /\ ft[conn'[q].fd].peer = q
                      /\ conn_map[conn'[q].fd] = q
               /\ conn'[q].put_fd # NoFd =>
                      /\ ft[conn'[q].put_fd].kind = "put"
                      /\ ft[conn'[q].put_fd].peer = q
                      /\ ft[conn'[q].put_fd].name = conn'[q].pending_put_name
               /\ conn'[q].get_fd # NoFd =>
                      ft[conn'[q].get_fd].kind = "get" /\ ft[conn'[q].get_fd].peer = q
    <3>1. CASE q = p
      BY <1>1, <1>2, <1>3, <2>2, <3>1 DEF Outcome, DescriptorsOwned, Connected
    <3>2. CASE q # p
      BY <1>8, <1>9, <1>10, <2>2, <3>2
    <3>. QED
      BY <3>1, <3>2
  <2>7. ASSUME NEW fd \in Fds
        PROVE  /\ conn_map[fd] # NULL => conn'[conn_map[fd]].fd = fd
               /\ ft[fd].kind = "sock" => conn_map[fd] = ft[fd].peer
               /\ ft[fd].kind = "put" => conn'[ft[fd].peer].put_fd = fd
    <3>1. conn_map[fd] # NULL => conn'[conn_map[fd]].fd = fd
      BY <1>1, <1>2, <2>2 DEF DescriptorsOwned
    <3>2. ft[fd].kind = "sock" => conn_map[fd] = ft[fd].peer
      BY <1>7
    <3>3. ft[fd].kind = "put" => conn'[ft[fd].peer].put_fd = fd
      <4>1. CASE fd = c.put_fd
        BY <1>3, <2>2, <4>1, SizeAssumption DEF Outcome, Fds, NoFd
      <4>2. CASE fd # c.put_fd
        BY <1>6, <2>2, <4>2
      <4>. QED
        BY <4>1, <4>2
    <3>. QED
      BY <3>1, <3>2, <3>3
  <2>8. DescriptorsOwned'
    BY <2>1, <2>6, <2>7 DEF DescriptorsOwned, Connected
  <2>. QED
    BY <1>1, <1>2, <2>1, <2>2, <2>3, <2>4, <2>5, <2>8
<1>12. CASE Drop(p, c, ft)
  <2>1. /\ conn' = [conn EXCEPT ![p] = NoConn]
        /\ conn_map' = [conn_map EXCEPT ![c.fd] = NULL]
        /\ fdtab' = [fd \in Fds |-> IF fd \in Closed(c) THEN FreeFd ELSE ft[fd]]
        /\ interest' = [interest EXCEPT ![p] = "none"]
    BY <1>12 DEF Drop
  <2>2. conn'[p] = NoConn /\ \A q \in Peers \ {p} : conn'[q] = conn[q]
    BY <1>1, <2>1
  <2>3. /\ \A fd \in Fds \ {c.fd} : conn_map'[fd] = conn_map[fd]
        /\ conn_map'[c.fd] = NULL
    BY <1>1, <1>3, <2>1
  <2>4. /\ \A fd \in Fds : fd \in Closed(c) => fdtab'[fd] = FreeFd
        /\ \A fd \in Fds : fd \notin Closed(c) => fdtab'[fd] = ft[fd]
        /\ fdtab' \in [Fds -> FdEntry]
    BY <1>2, <1>5, <2>1
  <2>5. /\ conn' \in [Peers -> Conn]
        /\ \A q \in Peers : BuffersFit(conn'[q]) /\ ReplyFits(conn'[q])
    <3>1. conn' \in [Peers -> Conn]
      BY <1>1, <1>4, <2>1
    <3>. QED
      BY <1>1, <1>4, <2>2, <3>1
  <2>6. /\ conn_map' \in [Fds -> Peers \cup {NULL}]
        /\ interest' \in [Peers -> {"none", "in", "out"}]
    BY <1>1, <2>1
  <2>7. Watched'
    BY <1>1, <1>4, <2>1, <2>2 DEF Watched
  <2>8. TableFit(fdtab')
    BY <1>2, <1>5, <2>4 DEF TableFit
  <2>9. ASSUME NEW q \in Peers
        PROVE  /\ conn'[q].fd # NoFd =>
                      /\ fdtab'[conn'[q].fd].kind = "sock"
                      /\ fdtab'[conn'[q].fd].peer = q
                      /\ conn_map'[conn'[q].fd] = q
               /\ conn'[q].put_fd # NoFd =>
                      /\ fdtab'[conn'[q].put_fd].kind = "put"
                      /\ fdtab'[conn'[q].put_fd].peer = q
                      /\ fdtab'[conn'[q].put_fd].name = conn'[q].pending_put_name
               /\ conn'[q].get_fd # NoFd =>
                      /\ fdtab'[conn'[q].get_fd].kind = "get"
                      /\ fdtab'[conn'[q].get_fd].peer = q
    <3>1. CASE q = p
      BY <1>4, <2>2, <3>1
    <3>2. CASE q # p
      <4>1. conn'[q] = conn[q] /\ q \in Peers \ {p}
        BY <2>2, <3>2
      <4>2. conn[q].fd # NoFd => conn[q].fd # c.fd
        BY <1>8, <4>1 DEF Closed
      <4>. QED
        BY <1>8, <1>9, <1>10, <2>3, <2>4, <4>1, <4>2
    <3>. QED
      BY <3>1, <3>2
  <2>10. ASSUME NEW fd \in Fds
         PROVE  /\ conn_map'[fd] # NULL => conn'[conn_map'[fd]].fd = fd
                /\ fdtab'[fd].kind = "sock" => conn_map'[fd] = fdtab'[fd].peer
                /\ fdtab'[fd].kind = "put" => conn'[fdtab'[fd].peer].put_fd = fd
    <3>1. ASSUME conn_map'[fd] # NULL PROVE conn'[conn_map'[fd]].fd = fd
      <4>1. fd # c.fd /\ conn_map'[fd] = conn_map[fd] /\ conn_map[fd] \in Peers
        BY <1>1, <2>3, <3>1
      <4>2. conn[conn_map[fd]].fd = fd
        BY <1>1, <3>1, <4>1 DEF DescriptorsOwned
      <4>. QED
        BY <1>2, <2>2, <4>1, <4>2
    <3>2. ASSUME fdtab'[fd].kind = "sock" PROVE conn_map'[fd] = fdtab'[fd].peer
      <4>1. fd \notin Closed(c) /\ fdtab'[fd] = ft[fd]
        BY <1>5, <2>4, <3>2
      <4>2. fd # c.fd
        BY <4>1 DEF Closed
      <4>. QED
        BY <1>7, <2>3, <3>2, <4>1, <4>2
    <3>3. ASSUME fdtab'[fd].kind = "put" PROVE conn'[fdtab'[fd].peer].put_fd = fd
      <4>1. fd \notin Closed(c) /\ fdtab'[fd] = ft[fd]
        BY <1>5, <2>4, <3>3
      <4>2. fd # c.put_fd
        BY <4>1 DEF Closed
      <4>. QED
        BY <1>6, <2>2, <3>3, <4>1, <4>2
    <3>. QED
      BY <3>1, <3>2, <3>3
  <2>11. DescriptorsOwned'
    BY <2>9, <2>10 DEF DescriptorsOwned, Connected
  <2>. QED
    BY <1>2, <2>2, <2>3, <2>4, <2>5, <2>6, <2>7, <2>8, <2>11
<1>. QED
  BY <1>11, <1>12 DEF Ends

-----------------------------------------------------------------------------
(* The handlers that read.                                                 *)

(* The handler ends with nothing sent of a reply it may have queued.       *)
Answers(p) ==
    \E c, ft : /\ Outcome(p, c, ft) /\ Ends(p, c, ft)
               /\ c.out_sent = 0 /\ c.state # "WRITE_GET_FILE"

LEMMA SameFilesAnswers ==
    ASSUME IInv, NEW p \in Peers, Connected(p), NEW c, Fit(c),
           c.fd = conn[p].fd, c.put_fd = conn[p].put_fd, c.get_fd = conn[p].get_fd,
           c.put_fd # NoFd => c.pending_put_name = conn[p].pending_put_name,
           c.out_sent = 0, c.state # "WRITE_GET_FILE", Settle(p, c, fdtab)
    PROVE  Answers(p)
BY SameFiles, SettleEnds DEF Answers

LEMMA DropAnswers ==
    ASSUME IInv, NEW p \in Peers, Connected(p), conn[p].state \in Reading, NEW c,
           c.fd = conn[p].fd, c.put_fd = conn[p].put_fd, c.get_fd = conn[p].get_fd,
           Drop(p, c, fdtab)
    PROVE  Answers(p)
<1>1. Drop(p, conn[p], fdtab)
  BY DEF Drop, Closed
<1>2. /\ Fit(conn[p]) /\ conn[p].out_sent = 0 /\ conn[p].state # "WRITE_GET_FILE"
  BY ConnFits DEF Fit, BuffersFit, Reading
<1>3. Outcome(p, conn[p], fdtab)
  BY <1>2, SameFiles
<1>. QED
  BY <1>1, <1>2, <1>3 DEF Answers, Ends

(* A handler that opens a file.                                            *)
LEMMA OpenedOutcome ==
    ASSUME IInv, NEW p \in Peers, Connected(p), Free # {}, NEW c, Fit(c),
           conn[p].put_fd = NoFd, c.fd = conn[p].fd, NEW f \in FdEntry,
           f.peer = p, f.name \in SafeNames,
           \/ /\ f.kind = "put" /\ c.put_fd = LowestFree
              /\ c.get_fd = conn[p].get_fd /\ c.pending_put_name = f.name
           \/ f.kind = "get" /\ c.put_fd = NoFd /\ c.get_fd = LowestFree,
           NEW ft, ft = [fdtab EXCEPT ![LowestFree] = f]
    PROVE  Outcome(p, c, ft)
<1>1. /\ fdtab \in [Fds -> FdEntry] /\ TableFit(fdtab) /\ DescriptorsOwned
  BY DEF IInv, TypeOK
<1>2. LowestFree \in Fds /\ fdtab[LowestFree].kind = "free" /\ LowestFree # NoFd
  BY LowestFreeType DEF Fds, NoFd
<1> DEFINE low == LowestFree
<1> HIDE DEF low
<1>3. /\ ft[low] = f /\ \A fd \in Fds \ {low} : ft[fd] = fdtab[fd]
      /\ ft \in [Fds -> FdEntry]
  BY <1>1, <1>2 DEF low
<1>4. TableFit(ft)
  BY <1>1, <1>3 DEF TableFit
<1>5. /\ conn[p].fd \in Fds /\ fdtab[conn[p].fd].kind = "sock"
      /\ fdtab[conn[p].fd].peer = p
  BY <1>1, ConnFits, OpenIsFd DEF DescriptorsOwned, Connected
<1>6. conn[p].get_fd # NoFd =>
          /\ conn[p].get_fd \in Fds /\ fdtab[conn[p].get_fd].kind = "get"
          /\ fdtab[conn[p].get_fd].peer = p
  BY <1>1, ConnFits, OpenIsFd DEF DescriptorsOwned
<1>7. ASSUME NEW fd \in Fds, ft[fd].kind = "put", fd # c.put_fd
      PROVE  ft[fd] = fdtab[fd] /\ fdtab[fd].peer # p
  <2>1. fd # low
    BY <1>3, <1>7 DEF low
  <2>. QED
    BY <1>1, <1>3, <1>7, <2>1, SizeAssumption DEF DescriptorsOwned, Fds, NoFd
<1>8. ASSUME NEW fd \in Fds
      PROVE  /\ ft[fd] = fdtab[fd] \/ fdtab[fd].kind = "free"
             /\ ft[fd].kind = "sock" => ft[fd] = fdtab[fd]
  BY <1>2, <1>3 DEF low
<1>9. /\ ft[c.fd].kind = "sock" /\ ft[c.fd].peer = p
      /\ c.put_fd # NoFd =>
             /\ ft[c.put_fd].kind = "put" /\ ft[c.put_fd].peer = p
             /\ ft[c.put_fd].name = c.pending_put_name
      /\ c.get_fd # NoFd => ft[c.get_fd].kind = "get" /\ ft[c.get_fd].peer = p
  BY <1>2, <1>3, <1>5, <1>6 DEF low
<1>. QED
  BY <1>3, <1>4, <1>7, <1>8, <1>9 DEF Outcome

(* The record when a whole header or payload has been taken out of it.     *)
Parsed(p, c) ==
    /\ Cleared(c) /\ c.out_buf = <<>> /\ c.out_sent = 0 /\ ~c.close_after_write
    /\ c.fd = conn[p].fd /\ c.get_fd = conn[p].get_fd /\ conn[p].put_fd = NoFd
    /\ conn[p].state \in Reading

LEMMA FailAnswers ==
    ASSUME IInv, NEW p \in Peers, Connected(p), NEW c, Parsed(p, c), NEW cmd \in Cmds,
           NEW d, d \in {Fail(c, cmd), Refuse(c, cmd)}, Settle(p, d, fdtab)
    PROVE  Answers(p)
<1>1. /\ Fit(d)
      /\ d.state = "WRITE_BUFFER" /\ d.out_sent = 0
      /\ d.fd = conn[p].fd /\ d.put_fd = conn[p].put_fd /\ d.get_fd = conn[p].get_fd
      /\ d.put_fd = NoFd
  BY FailFits DEF Parsed
<1>. QED
  BY <1>1, SameFilesAnswers

LEMMA ReplyAnswers ==
    ASSUME IInv, NEW p \in Peers, Connected(p), NEW c, Parsed(p, c), NEW cmd \in Cmds,
           NEW body \in Seq(Byte), NEW d, d = QueueReply(c, cmd, 0, body),
           Settle(p, d, fdtab)
    PROVE  Answers(p)
<1>1. /\ Fit(d)
      /\ d.state = "WRITE_BUFFER" /\ d.out_sent = 0
      /\ d.fd = conn[p].fd /\ d.put_fd = conn[p].put_fd /\ d.get_fd = conn[p].get_fd
      /\ d.put_fd = NoFd
  BY QueueReplyFits DEF Parsed
<1>. QED
  BY <1>1, SameFilesAnswers

LEMMA ListAnswers ==
    ASSUME IInv, NEW p \in Peers, Connected(p), NEW c, Parsed(p, c), NEW len,
           List(p, c, len)
    PROVE  Answers(p) /\ files' = files
<1>1. files' = files
  BY DEF List
<1>2. "LIST" \in Cmds
  BY DEF Cmds
<1>3. CASE Settle(p, Refuse(c, "LIST"), fdtab)
  BY <1>1, <1>2, <1>3, FailAnswers
<1>4. CASE Settle(p, Fail(c, "LIST"), fdtab)
  BY <1>1, <1>2, <1>4, FailAnswers
<1>5. CASE \E l \in Listings : Settle(p, QueueReply(c, "LIST", 0, l), fdtab)
  <2>1. PICK l \in Listings : Settle(p, QueueReply(c, "LIST", 0, l), fdtab)
    BY <1>5
  <2>. QED
    BY <1>1, <1>2, <2>1, ListingType, ReplyAnswers
<1>. QED
  BY <1>3, <1>4, <1>5 DEF List

LEMMA GetAnswers ==
    ASSUME IInv, NEW p \in Peers, Connected(p), NEW c, Parsed(p, c), NEW units,
           Get(p, c, units)
    PROVE  Answers(p) /\ files' = files
<1>1. files' = files
  BY DEF Get
<1>2. "GET" \in Cmds
  BY DEF Cmds
<1>3. CASE Settle(p, Refuse(c, "GET"), fdtab)
  BY <1>1, <1>2, <1>3, FailAnswers
<1>4. CASE Settle(p, Fail(c, "GET"), fdtab)
  BY <1>1, <1>2, <1>4, FailAnswers
<1>5. CASE Drop(p, c, fdtab)
  BY <1>1, <1>5, DropAnswers DEF Parsed, Cleared
<1> DEFINE name == NameOf(units)
           f == [kind |-> "get", peer |-> p, name |-> name, off |-> 0]
           d == StartGet(c, LowestFree, Len(files[name].data))
           ft == [fdtab EXCEPT ![LowestFree] = f]
<1>6. CASE Named(units) /\ GetOpens(name) /\ Settle(p, d, ft)
  <2>1. name \in SafeNames /\ Free # {}
    BY <1>6 DEF Named, GetOpens
  <2>2. LowestFree \in Fds
    BY <2>1, LowestFreeType
  <2>3. f \in FdEntry /\ f.peer = p /\ f.name \in SafeNames /\ f.kind = "get"
    BY <2>1 DEF FdEntry
  <2>4. Len(files[name].data) \in Nat
    <3>1. files[name].data \in Seq(Byte)
      BY <2>1 DEF IInv, TypeOK, WireTypeOK, File
    <3>. QED
      BY <3>1, LenProperties
  <2> HIDE DEF f
  <2>5. /\ Fit(d) /\ d.state = "WRITE_BUFFER" /\ d.out_sent = 0
        /\ d.fd = conn[p].fd /\ d.put_fd = NoFd /\ d.get_fd = LowestFree
    BY <2>2, <2>4, StartGetFits DEF Parsed
  <2> HIDE DEF d
  <2>6. Outcome(p, d, ft)
    BY <2>1, <2>3, <2>5, OpenedOutcome DEF Parsed
  <2> HIDE DEF ft
  <2>7. Ends(p, d, ft)
    BY <1>6, SettleEnds
  <2>. QED
    BY <1>1, <2>5, <2>6, <2>7 DEF Answers
<1>. QED
  BY <1>3, <1>4, <1>5, <1>6 DEF Get

LEMMA PutNameAnswers ==
    ASSUME IInv, NEW p \in Peers, Connected(p), NEW c, Parsed(p, c), NEW units,
           PutName(p, c, units)
    PROVE  Answers(p) /\ files' = files
<1>1. files' = files
  BY DEF PutName
<1>2. CASE Settle(p, Refuse(c, "PUT"), fdtab)
  BY <1>1, <1>2, FailAnswers DEF Cmds
<1> DEFINE name == NameOf(units)
           d == [c EXCEPT !.pending_put_name = name, !.state = "READ_HEADER"]
<1>3. CASE Named(units) /\ Settle(p, d, fdtab)
  <2>1. name \in SafeNames
    BY <1>3 DEF Named
  <2>2. d \in Conn
    BY <2>1 DEF Parsed, Cleared, Conn, Reading, Writing
  <2>3. /\ d.state = "READ_HEADER" /\ d.header_buf = <<>> /\ d.payload_len = 0
        /\ d.payload = <<>> /\ d.put_fd = NoFd /\ d.get_left = 0
        /\ d.out_buf = <<>> /\ d.out_sent = 0 /\ ~d.close_after_write
        /\ d.fd = conn[p].fd /\ d.get_fd = conn[p].get_fd
    BY DEF Parsed, Cleared, Conn
  <2> HIDE DEF d
  <2>4. Fit(d)
    BY <2>2, <2>3, WireAssumption
       DEF Fit, BuffersFit, ReplyFits, Reading, Writing, NoFd
  <2>. QED
    BY <1>1, <1>3, <2>3, <2>4, SameFilesAnswers DEF Parsed
<1>. QED
  BY <1>2, <1>3 DEF PutName

LEMMA HandleRequestAnswers ==
    ASSUME IInv, NEW p \in Peers, Connected(p), NEW c, Parsed(p, c), NEW h \in Header,
           NEW units, HandleRequest(p, c, h, units)
    PROVE  Answers(p) /\ files' = files
<1>1. CASE List(p, c, h.length)
  BY <1>1, ListAnswers
<1>2. CASE Get(p, c, units)
  BY <1>2, GetAnswers
<1>3. CASE PutName(p, c, units)
  BY <1>3, PutNameAnswers
<1>4. CASE files' = files /\ Settle(p, Fail(c, "OTHER"), fdtab)
  BY <1>4, FailAnswers DEF Cmds
<1>5. CASE files' = files /\ Settle(p, QueueReply(Closing(c), "QUIT", 0, <<>>), fdtab)
  <2> DEFINE none == <<>>
             d == QueueReply(Closing(c), "QUIT", 0, none)
  <2>1. none \in Seq(Byte) /\ "QUIT" \in Cmds
    BY DEF Cmds
  <2>2. /\ Cleared(Closing(c)) /\ Closing(c).fd = c.fd
        /\ Closing(c).get_fd = c.get_fd
    BY DEF Parsed, Cleared, Closing, Conn
  <2>3. Settle(p, d, fdtab)
    BY <1>5
  <2> HIDE DEF none
  <2>4. /\ Fit(d) /\ d.state = "WRITE_BUFFER" /\ d.out_sent = 0
        /\ d.fd = conn[p].fd /\ d.put_fd = NoFd /\ d.get_fd = conn[p].get_fd
    BY <2>1, <2>2, QueueReplyFits DEF Parsed
  <2> HIDE DEF d
  <2>. QED
    BY <1>5, <2>3, <2>4, SameFilesAnswers DEF Parsed
<1>. QED
  BY <1>1, <1>2, <1>3, <1>4, <1>5 DEF HandleRequest

(* A handler that closes the file it works on, or moves in it.             *)
LEMMA FileOutcome ==
    ASSUME IInv, NEW p \in Peers, Connected(p), NEW c, Fit(c), c.fd = conn[p].fd,
           c.put_fd \in {NoFd, conn[p].put_fd}, c.get_fd \in {NoFd, conn[p].get_fd},
           c.put_fd # NoFd => c.pending_put_name = conn[p].pending_put_name,
           NEW fd \in {conn[p].put_fd, conn[p].get_fd} \ {NoFd}, NEW f \in FdEntry,
           \/ f.kind = "free" /\ c.put_fd # fd /\ c.get_fd # fd
           \/ f.kind = fdtab[fd].kind /\ f.peer = fdtab[fd].peer /\ f.name = fdtab[fd].name,
           c.put_fd # conn[p].put_fd => fd = conn[p].put_fd /\ f.kind = "free",
           NEW ft, ft = [fdtab EXCEPT ![fd] = f]
    PROVE  Outcome(p, c, ft)
<1>1. /\ fdtab \in [Fds -> FdEntry] /\ TableFit(fdtab) /\ DescriptorsOwned
  BY DEF IInv, TypeOK
<1>2. fd \in Fds /\ fdtab[fd].kind \in {"put", "get"} /\ fdtab[fd].peer = p
  BY <1>1, ConnFits, OpenIsFd DEF DescriptorsOwned
<1>3. /\ ft[fd] = f /\ \A other \in Fds \ {fd} : ft[other] = fdtab[other]
      /\ ft \in [Fds -> FdEntry]
  BY <1>1, <1>2
<1>4. TableFit(ft)
  BY <1>1, <1>2, <1>3 DEF TableFit
<1>5. /\ conn[p].fd \in Fds /\ fdtab[conn[p].fd].kind = "sock"
      /\ fdtab[conn[p].fd].peer = p
  BY <1>1, ConnFits, OpenIsFd DEF DescriptorsOwned, Connected
<1>6. ASSUME c.put_fd # NoFd
      PROVE  /\ ft[c.put_fd].kind = "put" /\ ft[c.put_fd].peer = p
             /\ ft[c.put_fd].name = c.pending_put_name
  <2>1. /\ c.put_fd \in Fds /\ fdtab[c.put_fd].kind = "put"
        /\ fdtab[c.put_fd].peer = p /\ fdtab[c.put_fd].name = c.pending_put_name
    BY <1>1, <1>6, ConnFits, OpenIsFd DEF DescriptorsOwned
  <2>. QED
    BY <1>3, <1>6, <2>1
<1>7. ASSUME c.get_fd # NoFd
      PROVE  ft[c.get_fd].kind = "get" /\ ft[c.get_fd].peer = p
  <2>1. /\ c.get_fd \in Fds /\ fdtab[c.get_fd].kind = "get"
        /\ fdtab[c.get_fd].peer = p
    BY <1>1, <1>7, ConnFits, OpenIsFd DEF DescriptorsOwned
  <2>. QED
    BY <1>3, <1>7, <2>1
<1>8. ASSUME NEW other \in Fds, ft[other].kind = "put", other # c.put_fd
      PROVE  ft[other] = fdtab[other] /\ fdtab[other].peer # p
  <2>1. CASE other = fd
    <3>1. fdtab[fd].kind = "put" /\ c.put_fd = conn[p].put_fd
      BY <1>2, <1>3, <1>8, <2>1
    <3>2. conn[p].put_fd = fd
      BY <1>1, <1>2, <3>1 DEF DescriptorsOwned
    <3>. QED
      BY <1>8, <2>1, <3>1, <3>2
  <2>2. CASE other # fd
    <3>1. ft[other] = fdtab[other] /\ fdtab[other].kind = "put"
      BY <1>3, <1>8, <2>2
    <3>2. conn[fdtab[other].peer].put_fd = other
      BY <1>1, <3>1 DEF DescriptorsOwned
    <3>3. fdtab[other].peer # p
      BY <1>8, <2>2, <3>2
    <3>. QED
      BY <3>1, <3>3
  <2>. QED
    BY <2>1, <2>2
<1>9. ASSUME NEW other \in Fds, ft[other].kind = "sock"
      PROVE  ft[other] = fdtab[other]
  BY <1>2, <1>3, <1>9
<1>10. ft[c.fd].kind = "sock" /\ ft[c.fd].peer = p
  BY <1>2, <1>3, <1>5
<1>11. \A other \in Fds : ft[other] = fdtab[other] \/ other = conn[p].put_fd
                          \/ other = conn[p].get_fd
  BY <1>3
<1>. QED
  BY <1>3, <1>4, <1>6, <1>7, <1>8, <1>9, <1>10, <1>11 DEF Outcome

LEMMA OpenPutAnswers ==
    ASSUME IInv, NEW p \in Peers, Connected(p), NEW c, Parsed(p, c), NEW len \in Nat,
           c.pending_put_name # NULL, OpenPut(p, c, len)
    PROVE  Answers(p) /\ files' \in [SafeNames -> File]
<1> DEFINE name == c.pending_put_name
           f == [kind |-> "put", peer |-> p, name |-> name, off |-> 0]
           d == [c EXCEPT !.state = "READ_PUT_STREAM", !.put_left = len,
                          !.put_fd = LowestFree]
           failed == [c EXCEPT !.put_left = len, !.pending_put_name = NULL]
           none == <<>>
           ft == [fdtab EXCEPT ![LowestFree] = f]
<1>1. /\ files \in [SafeNames -> File] /\ name \in SafeNames /\ c \in Conn
  BY DEF IInv, TypeOK, WireTypeOK, Parsed, Cleared, Conn
<1>2. CASE files' = files /\ Settle(p, Fail(failed, "PUT"), fdtab)
  <2>1. Parsed(p, failed)
    BY DEF Parsed, Cleared, Conn
  <2> HIDE DEF failed
  <2>. QED
    BY <1>1, <1>2, <2>1, FailAnswers DEF Cmds
<1>3. CASE /\ PutOpens(name) /\ files' = [files EXCEPT ![name] = Truncated]
           /\ Settle(p, QueueReply(PutDone(d), "PUT", 0, none), fdtab)
  <2>1. files' \in [SafeNames -> File]
    BY <1>1, <1>3 DEF Truncated, File
  <2>2. PutDone(d) = [c EXCEPT !.state = "READ_PUT_STREAM", !.put_left = len,
                               !.put_fd = NoFd, !.pending_put_name = NULL]
    BY <1>1 DEF PutDone, Conn
  <2>3. Parsed(p, PutDone(d))
    <3> DEFINE e == PutDone(d)
    <3>1. NoFd \in 0 .. FdLimit /\ len \in Nat /\ c \in Conn
      BY <1>1, SizeAssumption DEF NoFd
    <3>2. e = [c EXCEPT !.state = "READ_PUT_STREAM", !.put_left = len,
                        !.put_fd = NoFd, !.pending_put_name = NULL]
      BY <2>2
    <3> HIDE DEF e
    <3>3. e \in Conn /\ e.put_fd = NoFd
      BY <3>1, <3>2 DEF Conn, Reading
    <3>4. /\ e.header_buf = c.header_buf /\ e.payload_len = c.payload_len
          /\ e.payload = c.payload /\ e.get_left = c.get_left
          /\ e.out_buf = c.out_buf /\ e.out_sent = c.out_sent
          /\ e.close_after_write = c.close_after_write
          /\ e.fd = c.fd /\ e.get_fd = c.get_fd
      BY <3>1, <3>2 DEF Conn
    <3>5. Parsed(p, e)
      BY <3>3, <3>4 DEF Parsed, Cleared
    <3>. QED
      BY <3>5 DEF e
  <2>4. none \in Seq(Byte)
    OBVIOUS
  <2> HIDE DEF none, d
  <2>. QED
    BY <1>3, <2>1, <2>3, <2>4, ReplyAnswers DEF Cmds
<1>4. CASE /\ PutOpens(name) /\ files' = [files EXCEPT ![name] = Truncated]
           /\ len > 0 /\ Settle(p, d, ft)
  <2>1. files' \in [SafeNames -> File]
    BY <1>1, <1>4 DEF Truncated, File
  <2>2. Free # {} /\ LowestFree \in Fds /\ LowestFree # NoFd
    BY <1>4, LowestFreeType DEF PutOpens, Fds, NoFd
  <2>3. LowestFree \in 0 .. FdLimit
    BY <2>2, SizeAssumption DEF Fds
  <2>4. f \in FdEntry /\ f.peer = p /\ f.name = name /\ f.kind = "put"
    BY <1>1 DEF FdEntry
  <2>5. d \in Conn
    BY <1>1, <2>3 DEF Conn, Reading, Writing
  <2>6. /\ d.state = "READ_PUT_STREAM" /\ d.header_buf = <<>> /\ d.payload_len = 0
        /\ d.payload = <<>> /\ d.put_fd = LowestFree /\ d.put_left = len
        /\ d.get_left = 0 /\ d.out_buf = <<>> /\ d.out_sent = 0
        /\ ~d.close_after_write /\ d.fd = conn[p].fd /\ d.get_fd = conn[p].get_fd
        /\ d.pending_put_name = name
    BY DEF Parsed, Cleared, Conn
  <2> HIDE DEF d, f
  <2>7. Fit(d)
    BY <1>4, <2>2, <2>5, <2>6, WireAssumption
       DEF Fit, BuffersFit, ReplyFits, Reading, Writing, NoFd
  <2>8. Outcome(p, d, ft)
    BY <1>1, <2>2, <2>4, <2>6, <2>7, OpenedOutcome DEF Parsed
  <2> HIDE DEF ft
  <2>9. Ends(p, d, ft)
    BY <1>4, SettleEnds
  <2>. QED
    BY <2>1, <2>6, <2>8, <2>9 DEF Answers
<1>. QED
  BY <1>1, <1>2, <1>3, <1>4 DEF OpenPut

(* What a read takes.                                                      *)
LEMMA TakeType ==
    ASSUME IInv, NEW p \in Peers, NEW n \in Nat
    PROVE  /\ Got(p, n) \in Nat /\ Got(p, n) <= n
           /\ Received(p, n) \in Seq(Unit) /\ Len(Received(p, n)) = Got(p, n)
           /\ Take(p, n) => /\ rcvd' \in [Peers -> Nat]
                            /\ \A q \in Peers : rcvd'[q] <= sent[q]
<1>1. WireTypeOK /\ rcvd \in [Peers -> Nat] /\ sent \in [Peers -> Nat]
      /\ \A q \in Peers : rcvd[q] <= sent[q]
  BY DEF IInv, TypeOK, WireTypeOK
<1>2. Got(p, n) \in Nat /\ Got(p, n) <= n /\ Got(p, n) <= sent[p] - rcvd[p]
  BY <1>1 DEF Got, MinOf, Avail
<1>3. Received(p, n) \in Seq(Unit) /\ Len(Received(p, n)) = Got(p, n)
  BY <1>1, <1>2, UnitsArrived DEF Received
<1>4. Take(p, n) => /\ rcvd' \in [Peers -> Nat]
                    /\ \A q \in Peers : rcvd'[q] <= sent[q]
  BY <1>1, <1>2 DEF Take
<1>. QED
  BY <1>2, <1>3, <1>4

(* What a reading handler does besides.                                    *)
Reads(p) ==
    /\ Answers(p)
    /\ rcvd' \in [Peers -> Nat] /\ \A q \in Peers : rcvd'[q] <= sent[q]
    /\ rx' = rx
    /\ files' \in [SafeNames -> File]

LEMMA PutStreamReads ==
    ASSUME IInv, NEW p \in Peers, Connected(p), conn[p].state = "READ_PUT_STREAM",
           HandlePutStream(p)
    PROVE  Reads(p)
<1> DEFINE c == conn[p]
           n == Got(p, c.put_left)
           f == fdtab[c.put_fd]
           left == [c EXCEPT !.put_left = @ - n]
           moved == [f EXCEPT !.off = @ + n]
           none == <<>>
<1>1. /\ c \in Conn /\ Fit(c) /\ c.put_left \in Nat /\ c.put_fd # NoFd
      /\ c.put_fd \in Fds /\ c.pending_put_name # NULL
      /\ fdtab \in [Fds -> FdEntry] /\ files \in [SafeNames -> File]
  BY ConnFits, OpenIsFd DEF Fit, BuffersFit, Conn, IInv, TypeOK, WireTypeOK
<1>2. f \in FdEntry /\ f.off \in Nat
  BY <1>1 DEF FdEntry
<1>3. /\ n \in Nat /\ n <= c.put_left
      /\ rcvd' \in [Peers -> Nat] /\ \A q \in Peers : rcvd'[q] <= sent[q]
      /\ rx' = rx
  BY <1>1, TakeType DEF HandlePutStream
<1>4. ASSUME NEW m \in Nat PROVE Written(f.name, f.off, Bytes(Received(p, m)))
                                      \in [SafeNames -> File]
  BY <1>1, <1>2, TakeType, BytesType, StoredType DEF Written
<1>5. files' \in [SafeNames -> File]
  <2>1. \/ files' = Written(f.name, f.off, Bytes(Received(p, n)))
        \/ \E w \in 0 .. n - 1 : files' = Written(f.name, f.off, Bytes(Received(p, w)))
    BY DEF HandlePutStream
  <2>2. \A w \in 0 .. n - 1 : w \in Nat
    BY <1>3
  <2> HIDE DEF n, f
  <2>. QED
    BY <1>3, <1>4, <2>1, <2>2
<1>6. CASE Drop(p, c, fdtab)
  BY <1>3, <1>5, <1>6, DropAnswers DEF Reads, Reading
<1>7. CASE /\ n = c.put_left
           /\ Settle(p, QueueReply(PutDone(left), "PUT", 0, none),
                     [fdtab EXCEPT ![c.put_fd] = FreeFd])
  <2> DEFINE d == QueueReply(PutDone(left), "PUT", 0, none)
  <2> DEFINE e == [c EXCEPT !.put_left = c.put_left - n, !.put_fd = NoFd,
                            !.pending_put_name = NULL]
  <2>1. e = PutDone(left)
    BY <1>1 DEF PutDone, Conn
  <2>2. /\ Cleared(PutDone(left)) /\ PutDone(left).fd = c.fd
        /\ PutDone(left).get_fd = c.get_fd
    <3>1. c.put_left - n \in Nat /\ NoFd \in 0 .. FdLimit
      BY <1>1, <1>3, <1>7, SizeAssumption DEF NoFd
    <3>2. e \in Conn
      BY <1>1, <3>1 DEF Conn
    <3>3. /\ e.header_buf = c.header_buf /\ e.payload_len = c.payload_len
          /\ e.payload = c.payload /\ e.put_fd = NoFd /\ e.get_left = c.get_left
          /\ e.fd = c.fd /\ e.get_fd = c.get_fd
      BY <1>1 DEF Conn
    <3> HIDE DEF e
    <3>4. Cleared(e)
      BY <1>1, <3>2, <3>3 DEF Cleared, Fit, BuffersFit, Conn, Reading, Writing
    <3>. QED
      BY <2>1, <3>3, <3>4
  <2>3. none \in Seq(Byte)
    OBVIOUS
  <2>4. Settle(p, d, [fdtab EXCEPT ![c.put_fd] = FreeFd])
    BY <1>7
  <2> HIDE DEF none, left
  <2>5. /\ Fit(d) /\ d.state = "WRITE_BUFFER" /\ d.out_sent = 0
        /\ d.fd = c.fd /\ d.put_fd = NoFd /\ d.get_fd = c.get_fd
    BY <2>2, <2>3, QueueReplyFits DEF Cmds
  <2> HIDE DEF d
  <2>6. FreeFd \in FdEntry /\ FreeFd.kind = "free"
    BY DEF FreeFd, FdEntry
  <2>7. d.get_fd # c.put_fd
    BY <1>1, <2>5, ConnFits, OpenIsFd DEF IInv, DescriptorsOwned
  <2>8. Outcome(p, d, [fdtab EXCEPT ![c.put_fd] = FreeFd])
    BY <1>1, <2>5, <2>6, <2>7, FileOutcome
  <2>9. Ends(p, d, [fdtab EXCEPT ![c.put_fd] = FreeFd])
    BY <2>4, SettleEnds
  <2>. QED
    BY <1>3, <1>5, <2>5, <2>8, <2>9 DEF Reads, Answers
<1>8. CASE n < c.put_left /\ Settle(p, left, [fdtab EXCEPT ![c.put_fd].off = @ + n])
  <2>1. left \in Conn
    <3> DEFINE m == c.put_left - n
    <3>1. m \in Nat
      BY <1>1, <1>3
    <3>2. left = [c EXCEPT !.put_left = m]
      BY <1>1 DEF Conn
    <3> HIDE DEF m, left
    <3>. QED
      BY <1>1, <3>1, <3>2 DEF Conn
  <2>2. /\ left.put_left = c.put_left - n /\ left.fd = c.fd /\ left.put_fd = c.put_fd
        /\ left.get_fd = c.get_fd /\ left.pending_put_name = c.pending_put_name
        /\ left.state = c.state /\ left.header_buf = c.header_buf
        /\ left.payload_len = c.payload_len /\ left.payload = c.payload
        /\ left.out_buf = c.out_buf /\ left.out_sent = c.out_sent
        /\ left.get_left = c.get_left
        /\ left.close_after_write = c.close_after_write
    BY <1>1 DEF Conn
  <2> HIDE DEF left
  <2>3. Fit(left)
    BY <1>1, <1>3, <1>8, <2>1, <2>2 DEF Fit, BuffersFit, ReplyFits
  <2>4. moved \in FdEntry /\ moved.kind = f.kind /\ moved.peer = f.peer
        /\ moved.name = f.name
    BY <1>2, <1>3 DEF FdEntry
  <2>5. [fdtab EXCEPT ![c.put_fd].off = @ + n] = [fdtab EXCEPT ![c.put_fd] = moved]
    BY <1>1
  <2> HIDE DEF moved
  <2>6. Outcome(p, left, [fdtab EXCEPT ![c.put_fd] = moved])
    BY <1>1, <2>2, <2>3, <2>4, FileOutcome
  <2>7. Ends(p, left, [fdtab EXCEPT ![c.put_fd] = moved])
    BY <1>8, <2>5, SettleEnds
  <2>8. left.out_sent = 0 /\ left.state # "WRITE_GET_FILE"
    BY <1>1, <2>2 DEF Fit, BuffersFit
  <2>. QED
    BY <1>3, <1>5, <2>6, <2>7, <2>8 DEF Reads, Answers
<1>. QED
  BY <1>6, <1>7, <1>8 DEF HandlePutStream

LEMMA HeaderReadAnswers ==
    ASSUME IInv, NEW p \in Peers, Connected(p), NEW c, Parsed(p, c), NEW h \in Header,
           HeaderRead(p, c, h)
    PROVE  Answers(p) /\ files' \in [SafeNames -> File]
<1>1. files \in [SafeNames -> File] /\ h.cmd \in Cmds /\ h.length \in Nat
  BY DEF IInv, TypeOK, WireTypeOK, Header
<1>2. CASE files' = files /\ Settle(p, Refuse(c, "PUT"), fdtab)
  BY <1>1, <1>2, FailAnswers DEF Cmds
<1>3. CASE files' = files /\ Settle(p, Refuse(c, h.cmd), fdtab)
  BY <1>1, <1>3, FailAnswers
<1>4. CASE c.pending_put_name # NULL /\ OpenPut(p, c, h.length)
  BY <1>1, <1>4, OpenPutAnswers
<1>5. CASE HandleRequest(p, c, h, <<>>)
  BY <1>1, <1>5, HandleRequestAnswers
<1> DEFINE d == [c EXCEPT !.payload_len = h.length, !.state = "READ_PAYLOAD"]
<1>6. CASE h.length > 0 /\ files' = files /\ Settle(p, d, fdtab)
  <2>1. d \in Conn
    BY <1>1 DEF Parsed, Cleared, Conn, Reading, Writing
  <2>2. /\ d.state = "READ_PAYLOAD" /\ d.header_buf = <<>>
        /\ d.payload_len = h.length /\ d.payload = <<>>
        /\ d.put_fd = NoFd /\ d.get_left = 0 /\ d.out_buf = <<>>
        /\ d.out_sent = 0 /\ ~d.close_after_write
        /\ d.fd = conn[p].fd /\ d.get_fd = conn[p].get_fd
    BY DEF Parsed, Cleared, Conn
  <2> HIDE DEF d
  <2>3. Fit(d)
    BY <1>1, <1>6, <2>1, <2>2, WireAssumption
       DEF Fit, BuffersFit, ReplyFits, Reading, Writing, NoFd
  <2>. QED
    BY <1>1, <1>6, <2>2, <2>3, SameFilesAnswers DEF Parsed
<1>. QED
  BY <1>2, <1>3, <1>4, <1>5, <1>6 DEF HeaderRead

LEMMA ReadHeaderReads ==
    ASSUME IInv, NEW p \in Peers, Connected(p), conn[p].state = "READ_HEADER",
           HandleReadHeader(p)
    PROVE  Reads(p)
<1> DEFINE c == conn[p]
           need == HdrLen - Len(c.header_buf)
           units == c.header_buf \o Received(p, need)
<1>1. /\ c \in Conn /\ Fit(c) /\ Len(c.header_buf) < HdrLen
      /\ c.header_buf \in Seq(Unit) /\ Len(c.header_buf) \in Nat
      /\ files \in [SafeNames -> File]
  BY ConnFits, LenProperties DEF Fit, BuffersFit, Conn, IInv, TypeOK, WireTypeOK
<1>2. need \in Nat
  BY <1>1, WireAssumption
<1>3. /\ Received(p, need) \in Seq(Unit) /\ Len(Received(p, need)) <= need
      /\ Len(Received(p, need)) \in Nat
      /\ rcvd' \in [Peers -> Nat] /\ \A q \in Peers : rcvd'[q] <= sent[q]
      /\ rx' = rx
  BY <1>2, TakeType DEF HandleReadHeader
<1>4. units \in Seq(Unit) /\ Len(units) = Len(c.header_buf) + Len(Received(p, need))
  BY <1>1, <1>3, ConcatProperties
<1>5. CASE files' = files /\ Drop(p, c, fdtab)
  BY <1>1, <1>3, <1>5, DropAnswers DEF Reads, Reading
<1>6. CASE /\ Len(units) < HdrLen /\ files' = files
           /\ Settle(p, [c EXCEPT !.header_buf = units], fdtab)
  <2> DEFINE d == [c EXCEPT !.header_buf = units]
  <2>1. d \in Conn
    BY <1>1, <1>4 DEF Conn
  <2>2. /\ d.header_buf = units /\ d.fd = c.fd /\ d.put_fd = c.put_fd
        /\ d.get_fd = c.get_fd /\ d.pending_put_name = c.pending_put_name
        /\ d.state = c.state /\ d.payload_len = c.payload_len
        /\ d.payload = c.payload /\ d.put_left = c.put_left
        /\ d.out_buf = c.out_buf /\ d.out_sent = c.out_sent
        /\ d.get_left = c.get_left /\ d.close_after_write = c.close_after_write
    BY <1>1 DEF Conn
  <2>3. Settle(p, d, fdtab)
    BY <1>6
  <2> HIDE DEF d
  <2>4. Fit(d) /\ d.out_sent = 0
    BY <1>1, <1>6, <2>1, <2>2 DEF Fit, BuffersFit, ReplyFits
  <2>5. Answers(p)
    BY <2>2, <2>3, <2>4, SameFilesAnswers
  <2>. QED
    BY <1>1, <1>3, <1>6, <2>5 DEF Reads
<1>7. CASE /\ Len(units) = HdrLen
           /\ HeaderRead(p, [c EXCEPT !.header_buf = <<>>,
                                      !.cur_header = units[1].head], units[1].head)
  <2> DEFINE d == [c EXCEPT !.header_buf = <<>>, !.cur_header = units[1].head]
  <2>1. units[1].head \in Header
    <3>1. units[1] \in Unit
      <4>1. 1 \in 1 .. HdrLen
        BY ONLY WireAssumption
      <4>2. Len(units) = HdrLen
        BY <1>7
      <4> HIDE DEF units
      <4>3. 1 \in 1 .. Len(units)
        BY <4>1, <4>2
      <4>. QED
        BY <1>4, <4>3, ElementOfSeq
    <3>. QED
      BY <3>1 DEF Unit
  <2> DEFINE h == units[1].head
  <2> HIDE DEF units, h
  <2>2. d \in Conn
    <3>1. <<>> \in Seq(Unit)
      OBVIOUS
    <3>. QED
      BY <1>1, <2>1, <3>1 DEF Conn, h
  <2>3. /\ d.header_buf = <<>> /\ d.payload_len = c.payload_len
        /\ d.payload = c.payload /\ d.put_fd = c.put_fd
        /\ d.get_left = c.get_left /\ d.out_buf = c.out_buf
        /\ d.out_sent = c.out_sent /\ d.close_after_write = c.close_after_write
        /\ d.fd = c.fd /\ d.get_fd = c.get_fd
    BY <1>1 DEF Conn
  <2>4. HeaderRead(p, d, h)
    BY <1>7 DEF h
  <2> HIDE DEF d
  <2>5. Parsed(p, d)
    BY <1>1, <2>2, <2>3
       DEF Parsed, Cleared, Fit, BuffersFit, Conn, Reading, Writing, NoFd
  <2>6. Answers(p) /\ files' \in [SafeNames -> File]
    BY <2>1, <2>4, <2>5, HeaderReadAnswers DEF h
  <2>. QED
    BY <1>3, <2>6 DEF Reads
<1>. QED
  BY <1>5, <1>6, <1>7 DEF HandleReadHeader

LEMMA ReadPayloadReads ==
    ASSUME IInv, NEW p \in Peers, Connected(p), conn[p].state = "READ_PAYLOAD",
           HandleReadPayload(p)
    PROVE  Reads(p)
<1> DEFINE c == conn[p]
           need == c.payload_len - Len(c.payload)
           units == c.payload \o Received(p, need)
<1>1. /\ c \in Conn /\ Fit(c) /\ Len(c.payload) < c.payload_len
      /\ c.payload \in Seq(Unit) /\ Len(c.payload) \in Nat /\ c.payload_len \in Nat
      /\ c.cur_header \in Header /\ files \in [SafeNames -> File]
  BY ConnFits, LenProperties DEF Fit, BuffersFit, Conn, IInv, TypeOK, WireTypeOK
<1>2. need \in Nat
  BY <1>1
<1>3. /\ Received(p, need) \in Seq(Unit) /\ Len(Received(p, need)) <= need
      /\ Len(Received(p, need)) \in Nat
      /\ rcvd' \in [Peers -> Nat] /\ \A q \in Peers : rcvd'[q] <= sent[q]
      /\ rx' = rx
  BY <1>2, TakeType DEF HandleReadPayload
<1>4. units \in Seq(Unit) /\ Len(units) = Len(c.payload) + Len(Received(p, need))
  BY <1>1, <1>3, ConcatProperties
<1>5. CASE files' = files /\ Drop(p, c, fdtab)
  BY <1>1, <1>3, <1>5, DropAnswers DEF Reads, Reading
<1>6. CASE /\ Len(units) < c.payload_len /\ files' = files
           /\ Settle(p, [c EXCEPT !.payload = units], fdtab)
  <2> DEFINE d == [c EXCEPT !.payload = units]
  <2>1. d \in Conn
    BY <1>1, <1>4 DEF Conn
  <2>2. /\ d.payload = units /\ d.fd = c.fd /\ d.put_fd = c.put_fd
        /\ d.get_fd = c.get_fd /\ d.pending_put_name = c.pending_put_name
        /\ d.state = c.state /\ d.payload_len = c.payload_len
        /\ d.header_buf = c.header_buf /\ d.put_left = c.put_left
        /\ d.out_buf = c.out_buf /\ d.out_sent = c.out_sent
        /\ d.get_left = c.get_left /\ d.close_after_write = c.close_after_write
    BY <1>1 DEF Conn
  <2>3. Settle(p, d, fdtab)
    BY <1>6
  <2> HIDE DEF d
  <2>4. Fit(d) /\ d.out_sent = 0
    BY <1>1, <1>6, <2>1, <2>2 DEF Fit, BuffersFit, ReplyFits
  <2>5. Answers(p)
    BY <2>2, <2>3, <2>4, SameFilesAnswers
  <2>. QED
    BY <1>1, <1>3, <1>6, <2>5 DEF Reads
<1>7. CASE HandleRequest(p, [c EXCEPT !.payload = <<>>, !.payload_len = 0],
                         c.cur_header, units)
  <2> DEFINE d == [c EXCEPT !.payload = <<>>, !.payload_len = 0]
  <2> HIDE DEF units
  <2>1. d \in Conn
    <3>1. <<>> \in Seq(Unit)
      OBVIOUS
    <3>. QED
      BY <1>1, <3>1 DEF Conn
  <2>2. /\ d.header_buf = c.header_buf /\ d.payload_len = 0 /\ d.payload = <<>>
        /\ d.put_fd = c.put_fd /\ d.get_left = c.get_left /\ d.out_buf = c.out_buf
        /\ d.out_sent = c.out_sent /\ d.close_after_write = c.close_after_write
        /\ d.fd = c.fd /\ d.get_fd = c.get_fd
    BY <1>1 DEF Conn
  <2>3. HandleRequest(p, d, c.cur_header, units)
    BY <1>7
  <2> HIDE DEF d
  <2>4. Parsed(p, d)
    BY <1>1, <2>1, <2>2
       DEF Parsed, Cleared, Fit, BuffersFit, Conn, Reading, Writing, NoFd
  <2>5. Answers(p) /\ files' = files
    BY <1>1, <2>3, <2>4, HandleRequestAnswers
  <2>. QED
    BY <1>1, <1>3, <2>5 DEF Reads
<1>. QED
  BY <1>5, <1>6, <1>7 DEF HandleReadPayload

-----------------------------------------------------------------------------
(* The handlers that write, and what all of them come to.                  *)

Handled(p) ==
    /\ \E c, ft : /\ Outcome(p, c, ft)
                  /\ Drop(p, c, ft) \/ (Keep(p, c, ft) /\ SentFits(c, rx'[p]))
    /\ rx' \in [Peers -> Seq(Reply)] /\ LogFits(rx'[p])
    /\ \A q \in Peers \ {p} : rx'[q] = rx[q] /\ unread'[q] = unread[q]
    /\ unread' \in [Peers -> 0 .. SndBuf]
    /\ rcvd' \in [Peers -> Nat] /\ \A q \in Peers : rcvd'[q] <= sent[q]
    /\ files' \in [SafeNames -> File]

(* The parts of IInv about what was sent to one peer.                      *)
LEMMA SentSoFar ==
    ASSUME IInv, NEW p \in Peers, Connected(p)
    PROVE  /\ rx \in [Peers -> Seq(Reply)] /\ LogFits(rx[p]) /\ SentFits(conn[p], rx[p])
           /\ unread \in [Peers -> 0 .. SndBuf] /\ Space(p) \in Nat
           /\ rcvd \in [Peers -> Nat] /\ \A q \in Peers : rcvd[q] <= sent[q]
           /\ files \in [SafeNames -> File]
<1>1. /\ rx \in [Peers -> Seq(Reply)] /\ LogFits(rx[p]) /\ SentFits(conn[p], rx[p])
      /\ rcvd \in [Peers -> Nat] /\ \A q \in Peers : rcvd[q] <= sent[q]
      /\ files \in [SafeNames -> File] /\ unread \in [Peers -> 0 .. SndBuf]
  BY DEF IInv, TypeOK, WireTypeOK, Replied, Connected
<1>2. Space(p) \in Nat
  BY <1>1, WireAssumption DEF Space
<1>. QED
  BY <1>1, <1>2

LEMMA ReadsHandled ==
    ASSUME IInv, NEW p \in Peers, Connected(p), conn[p].state \in Reading,
           Reads(p), unread' = unread
    PROVE  Handled(p)
<1>1. /\ rx \in [Peers -> Seq(Reply)] /\ LogFits(rx[p]) /\ SentFits(conn[p], rx[p])
      /\ unread \in [Peers -> 0 .. SndBuf]
  BY SentSoFar
<1>2. conn[p].out_sent = 0 /\ conn[p].state # "WRITE_GET_FILE"
  BY ConnFits DEF Fit, BuffersFit, Reading
<1>3. Whole(rx[p])
  BY <1>1, <1>2 DEF SentFits
<1>4. PICK c, ft : /\ Outcome(p, c, ft) /\ Ends(p, c, ft)
                   /\ c.out_sent = 0 /\ c.state # "WRITE_GET_FILE"
  BY DEF Reads, Answers
<1>5. SentFits(c, rx[p])
  BY <1>3, <1>4 DEF SentFits
<1>6. rx' = rx
  BY DEF Reads
<1>7. \E d, gt : /\ Outcome(p, d, gt)
                 /\ Drop(p, d, gt) \/ (Keep(p, d, gt) /\ SentFits(d, rx'[p]))
  BY <1>4, <1>5, <1>6 DEF Ends
<1>. QED
  BY <1>1, <1>6, <1>7 DEF Reads, Handled

LEMMA DropHandled ==
    ASSUME IInv, NEW p \in Peers, Connected(p), NEW c,
           c.fd = conn[p].fd, c.put_fd = conn[p].put_fd, c.get_fd = conn[p].get_fd,
           Drop(p, c, fdtab), rx' = rx, unread' = unread, rcvd' = rcvd, files' = files
    PROVE  Handled(p)
<1>1. Drop(p, conn[p], fdtab)
  BY DEF Drop, Closed
<1>2. Fit(conn[p])
  BY ConnFits
<1>3. Outcome(p, conn[p], fdtab)
  BY <1>2, SameFiles
<1>. QED
  BY <1>1, <1>3, SentSoFar DEF Handled

LEMMA WriteBufferHandled ==
    ASSUME IInv, NEW p \in Peers, Connected(p), conn[p].state = "WRITE_BUFFER",
           Space(p) > 0 \/ Broken(p), HandleWriteBuffer(p)
    PROVE  Handled(p)
<1> DEFINE c == conn[p]
           r == c.out_buf[1]
           upto == MinOf(c.out_sent + Space(p), Len(r.body) + 1)
           done == BufferDone(c)
           log == Extend(rx[p], r, c.out_sent, upto)
<1>1. /\ c \in Conn /\ Fit(c) /\ c.put_fd = NoFd
      /\ Len(c.out_buf) = 1 /\ c.out_buf \in Seq(Reply)
      /\ c.out_sent \in Nat /\ c.get_left \in Nat /\ c.out_sent <= Len(r.body)
      /\ r.length = Len(r.body) + c.get_left
  BY ConnFits DEF Fit, BuffersFit, ReplyFits, Conn
<1>2. r \in Reply
  BY <1>1, ElementOfSeq
<1>3. r.body \in Seq(Byte) /\ Len(r.body) \in Nat
  BY <1>2, LenProperties DEF Reply
<1>4. /\ rx \in [Peers -> Seq(Reply)] /\ LogFits(rx[p]) /\ SentFits(c, rx[p])
      /\ unread \in [Peers -> 0 .. SndBuf] /\ Space(p) \in Nat
      /\ rcvd \in [Peers -> Nat] /\ \A q \in Peers : rcvd[q] <= sent[q]
      /\ files \in [SafeNames -> File]
  BY SentSoFar
<1>5. CASE Drop(p, c, fdtab) /\ UNCHANGED <<rx, unread>>
  BY <1>5, DropHandled DEF HandleWriteBuffer
<1>6. CASE /\ ~Broken(p)
           /\ rx' = [rx EXCEPT ![p] = Extend(@, r, c.out_sent, upto)]
           /\ unread' = [unread EXCEPT ![p] = @ + (upto - c.out_sent)]
           /\ \/ /\ upto < Len(r.body) + 1
                 /\ Settle(p, [c EXCEPT !.out_sent = upto], fdtab)
              \/ /\ upto = Len(r.body) + 1 /\ CloseNow(done)
                 /\ Drop(p, done, fdtab)
              \/ /\ upto = Len(r.body) + 1 /\ ~CloseNow(done)
                 /\ Settle(p, [done EXCEPT !.state = AfterReply(done)], fdtab)
  <2>1. /\ upto \in Nat /\ c.out_sent < upto /\ upto <= Len(r.body) + 1
        /\ upto - c.out_sent <= Space(p) /\ upto - c.out_sent \in Nat
    <3> DEFINE a == c.out_sent
               m == Space(p)
               b == Len(r.body)
    <3>1. m > 0
      BY <1>6
    <3>2. a \in Nat /\ m \in Nat /\ b \in Nat /\ a <= b
      BY <1>1, <1>3, <1>4
    <3>3. upto = MinOf(a + m, b + 1)
      OBVIOUS
    <3> HIDE DEF a, m, b, upto
    <3>4. /\ upto \in Nat /\ a < upto /\ upto <= b + 1
          /\ upto - a <= m /\ upto - a \in Nat
      BY <3>1, <3>2, <3>3 DEF MinOf
    <3>. QED
      BY <3>4 DEF a, m, b
  <2> HIDE DEF upto
  <2>2. /\ log \in Seq(Reply) /\ log # <<>> /\ LogFits(log)
        /\ log[Len(log)].length = r.length
        /\ Len(log[Len(log)].body) = upto - 1
    <3>1. Len(r.body) <= r.length
      BY <1>1, <1>3
    <3>2. c.out_sent = 0 => Whole(rx[p])
      BY <1>4 DEF SentFits
    <3>3. c.out_sent > 0 => /\ rx[p] # <<>> /\ rx[p][Len(rx[p])].length = r.length
                            /\ Len(rx[p][Len(rx[p])].body) = c.out_sent - 1
      BY <1>4 DEF SentFits
    <3> DEFINE before == rx[p]
               from == c.out_sent
    <3>4. /\ before \in Seq(Reply) /\ LogFits(before) /\ from \in Nat /\ r \in Reply
          /\ log = Extend(before, r, from, upto) /\ from < upto
          /\ from = 0 => Whole(before)
          /\ from > 0 => /\ before # <<>> /\ before[Len(before)].length = r.length
                         /\ Len(before[Len(before)].body) = from - 1
      BY <1>1, <1>2, <1>4, <2>1, <3>2, <3>3
    <3>5. upto \in Nat /\ upto <= Len(r.body) + 1 /\ Len(r.body) <= r.length
      BY <2>1, <3>1
    <3> HIDE DEF before, from, r, log
    <3>6. Onward(before, r, from, upto) /\ log = Extend(before, r, from, upto)
      BY <3>4, <3>5 DEF Onward
    <3>. QED
      BY <3>6, ExtendFits
  <2>3. rx' = [rx EXCEPT ![p] = log]
    BY <1>6
  <2> HIDE DEF log
  <2>4. /\ rx' \in [Peers -> Seq(Reply)] /\ rx'[p] = log
        /\ \A q \in Peers \ {p} : rx'[q] = rx[q]
    BY <1>4, <2>2, <2>3
  <2>5. /\ unread' \in [Peers -> 0 .. SndBuf]
        /\ \A q \in Peers \ {p} : unread'[q] = unread[q]
    <3> DEFINE m == upto - c.out_sent
    <3>1. m \in Nat /\ m <= SndBuf - unread[p] /\ unread[p] \in 0 .. SndBuf
      BY <1>4, <2>1 DEF Space
    <3>2. unread' = [unread EXCEPT ![p] = unread[p] + m]
      BY <1>6
    <3> HIDE DEF m
    <3>3. unread[p] + m \in 0 .. SndBuf
      BY <3>1, WireAssumption
    <3>. QED
      BY <1>4, <3>2, <3>3
  <2>6. rcvd' = rcvd /\ files' = files
    BY DEF HandleWriteBuffer
  <2>7. ASSUME NEW d, Fit(d), d.fd = c.fd, d.put_fd = c.put_fd, d.get_fd = c.get_fd,
               Settle(p, d, fdtab), SentFits(d, log)
        PROVE  Handled(p)
    <3>1. Outcome(p, d, fdtab)
      BY <1>1, <2>7, SameFiles
    <3>2. Ends(p, d, fdtab)
      BY <2>7, SettleEnds
    <3>3. Drop(p, d, fdtab) \/ (Keep(p, d, fdtab) /\ SentFits(d, rx'[p]))
      BY <2>4, <2>7, <3>2 DEF Ends
    <3>. QED
      BY <1>4, <2>2, <2>4, <2>5, <2>6, <3>1, <3>3 DEF Handled
  <2>8. CASE upto < Len(r.body) + 1 /\ Settle(p, [c EXCEPT !.out_sent = upto], fdtab)
    <3> DEFINE d == [c EXCEPT !.out_sent = upto]
    <3>1. d \in Conn
      BY <1>1, <2>1 DEF Conn
    <3>2. /\ d.header_buf = c.header_buf /\ d.fd = c.fd /\ d.put_fd = c.put_fd
          /\ d.get_fd = c.get_fd /\ d.pending_put_name = c.pending_put_name
          /\ d.state = c.state /\ d.payload_len = c.payload_len
          /\ d.payload = c.payload /\ d.put_left = c.put_left
          /\ d.out_buf = c.out_buf /\ d.out_sent = upto
          /\ d.get_left = c.get_left /\ d.close_after_write = c.close_after_write
      BY <1>1 DEF Conn
    <3>3. Settle(p, d, fdtab)
      BY <2>8
    <3> HIDE DEF d
    <3>4. upto <= Len(r.body) /\ upto > 0
      BY <1>1, <1>3, <2>1, <2>8
    <3>5. Fit(d)
      BY <1>1, <3>1, <3>2, <3>4 DEF Fit, BuffersFit, ReplyFits
    <3>6. SentFits(d, log)
      BY <2>2, <3>2, <3>4 DEF SentFits
    <3>. QED
      BY <2>7, <3>2, <3>3, <3>5, <3>6
  <2>9. ASSUME upto = Len(r.body) + 1
        PROVE  log[Len(log)].length = Len(log[Len(log)].body) + c.get_left
    BY <1>1, <1>3, <2>2, <2>9
  <2>10. /\ done = [c EXCEPT !.out_buf = <<>>, !.out_sent = 0]
         /\ done.fd = c.fd /\ done.put_fd = c.put_fd /\ done.get_fd = c.get_fd
         /\ done.get_left = c.get_left
         /\ done.close_after_write = c.close_after_write
    BY <1>1 DEF BufferDone, Conn
  <2>11. CASE Drop(p, done, fdtab)
    <3>1. Drop(p, conn[p], fdtab)
      BY <2>10, <2>11 DEF Drop, Closed
    <3>2. Outcome(p, conn[p], fdtab)
      BY <1>1, SameFiles
    <3>. QED
      BY <1>4, <2>2, <2>4, <2>5, <2>6, <3>1, <3>2 DEF Handled
  <2>12. CASE /\ upto = Len(r.body) + 1 /\ ~CloseNow(done)
              /\ Settle(p, [done EXCEPT !.state = AfterReply(done)], fdtab)
    <3> DEFINE state == AfterReply(done)
               d == [c EXCEPT !.out_buf = <<>>, !.out_sent = 0, !.state = state]
    <3>1. state \in {"READ_HEADER", "WRITE_GET_FILE"}
      BY DEF AfterReply
    <3>2. state = "WRITE_GET_FILE" <=> c.get_fd # NoFd /\ c.get_left > 0
      BY <2>10 DEF AfterReply
    <3>3. state = "READ_HEADER" => ~c.close_after_write
      BY <2>10, <2>12 DEF CloseNow
    <3>4. [done EXCEPT !.state = state] = d
      BY <1>1, <2>10 DEF Conn
    <3> HIDE DEF state
    <3>5. d \in Conn
      <4>1. <<>> \in Seq(Reply)
        OBVIOUS
      <4>. QED
        BY <1>1, <3>1, <4>1 DEF Conn, Reading, Writing
    <3>6. /\ d.header_buf = c.header_buf /\ d.fd = c.fd /\ d.put_fd = c.put_fd
          /\ d.get_fd = c.get_fd /\ d.pending_put_name = c.pending_put_name
          /\ d.state = state /\ d.payload_len = c.payload_len
          /\ d.payload = c.payload /\ d.put_left = c.put_left
          /\ d.out_buf = <<>> /\ d.out_sent = 0
          /\ d.get_left = c.get_left /\ d.close_after_write = c.close_after_write
      BY <1>1 DEF Conn
    <3>7. Settle(p, d, fdtab)
      BY <2>12, <3>4 DEF state
    <3> HIDE DEF d
    <3>8. c.header_buf = <<>> /\ c.payload = <<>> /\ c.payload_len = 0
          /\ (c.get_left > 0 => c.get_fd # NoFd /\ ~c.close_after_write)
      BY <1>1 DEF Fit, BuffersFit, Conn
    <3>9. Fit(d)
      BY <1>1, <3>1, <3>2, <3>3, <3>5, <3>6, <3>8, WireAssumption
         DEF Fit, BuffersFit, ReplyFits, Writing
    <3>10. SentFits(d, log)
      BY <1>1, <1>3, <2>2, <2>9, <2>12, <3>1, <3>2, <3>6, <3>8
         DEF SentFits, Whole, Complete
    <3>. QED
      BY <2>7, <3>6, <3>7, <3>9, <3>10
  <2>. QED
    BY <1>6, <2>8, <2>11, <2>12
<1>. QED
  BY <1>5, <1>6 DEF HandleWriteBuffer

LEMMA WriteGetFileHandled ==
    ASSUME IInv, NEW p \in Peers, Connected(p), conn[p].state = "WRITE_GET_FILE",
           HandleWriteGetFile(p)
    PROVE  Handled(p)
<1> DEFINE c == conn[p]
           f == fdtab[c.get_fd]
           n == MinOf(MinOf(Space(p), c.get_left), FileLeft(f))
           left == [c EXCEPT !.get_left = @ - n]
           moved == [f EXCEPT !.off = @ + n]
           log == Longer(rx[p], Piece(f, n))
<1>1. /\ c \in Conn /\ Fit(c) /\ c.get_left \in Nat /\ c.get_left > 0
      /\ c.get_fd # NoFd /\ c.get_fd \in Fds /\ c.put_fd = NoFd
      /\ c.header_buf = <<>> /\ c.payload = <<>> /\ c.payload_len = 0
      /\ c.out_buf = <<>> /\ c.out_sent = 0 /\ ~c.close_after_write
  <2>1. c \in Conn /\ Fit(c)
    BY ConnFits
  <2>2. c.get_left > 0 /\ c.get_fd # NoFd /\ c.put_fd = NoFd
        /\ c.header_buf = <<>> /\ c.payload = <<>> /\ c.payload_len = 0
        /\ c.out_buf = <<>> /\ c.out_sent = 0 /\ ~c.close_after_write
    BY <2>1 DEF Fit, BuffersFit, Conn
  <2>. QED
    BY <2>1, <2>2, ConnFits, OpenIsFd DEF Conn
<1>2. /\ fdtab \in [Fds -> FdEntry] /\ f \in FdEntry /\ f.kind = "get"
      /\ f.name \in SafeNames /\ f.off \in Nat
  BY <1>1 DEF IInv, TypeOK, DescriptorsOwned, TableFit, FdEntry
<1>3. /\ rx \in [Peers -> Seq(Reply)] /\ LogFits(rx[p]) /\ SentFits(c, rx[p])
      /\ unread \in [Peers -> 0 .. SndBuf] /\ Space(p) \in Nat
      /\ rcvd \in [Peers -> Nat] /\ \A q \in Peers : rcvd[q] <= sent[q]
      /\ files \in [SafeNames -> File]
  BY SentSoFar
<1>4. files[f.name].data \in Seq(Byte) /\ Len(files[f.name].data) \in Nat
  BY <1>2, <1>3, LenProperties DEF File
<1>5. FileLeft(f) \in Nat /\ (FileLeft(f) > 0 =>
          FileLeft(f) = Len(files[f.name].data) - f.off)
  <2> DEFINE len == Len(files[f.name].data)
             off == f.off
  <2>1. len \in Nat /\ off \in Nat /\ FileLeft(f) = MaxOf(len, off) - off
    BY <1>2, <1>4 DEF FileLeft
  <2> HIDE DEF len, off
  <2>2. FileLeft(f) \in Nat /\ (FileLeft(f) > 0 => FileLeft(f) = len - off)
    BY <2>1 DEF MaxOf
  <2>. QED
    BY <2>2 DEF len, off
<1>6. n \in Nat /\ n <= Space(p) /\ n <= c.get_left /\ n <= FileLeft(f)
  <2> DEFINE a == Space(p)
             b == c.get_left
             m == FileLeft(f)
  <2>1. a \in Nat /\ b \in Nat /\ m \in Nat /\ n = MinOf(MinOf(a, b), m)
    BY <1>1, <1>3, <1>5
  <2> HIDE DEF a, b, m, n
  <2>2. n \in Nat /\ n <= a /\ n <= b /\ n <= m
    BY <2>1 DEF MinOf
  <2>. QED
    BY <2>2 DEF a, b, m
<1> HIDE DEF n
<1>7. Piece(f, n) \in Seq(Byte) /\ Len(Piece(f, n)) = n
  <2>1. \A i \in f.off + 1 .. f.off + n : files[f.name].data[i] \in Byte
    <3>1. ASSUME NEW i \in f.off + 1 .. f.off + n
          PROVE  i \in 1 .. Len(files[f.name].data)
      BY <1>2, <1>4, <1>5, <1>6, SMTT(30)
    <3>. QED
      BY <1>4, <3>1, ElementOfSeq
  <2>2. f.off + 1 \in Int /\ f.off + n \in Int
    BY <1>2, <1>6
  <2>. QED
    BY <1>2, <1>6, <2>1, <2>2, SubSeqProperties DEF Piece
<1>8. CASE Drop(p, c, fdtab) /\ UNCHANGED <<rx, unread>>
  BY <1>8, DropHandled DEF HandleWriteGetFile
<1>9. CASE /\ rx' = [rx EXCEPT ![p][Len(rx[p])].body = @ \o Piece(f, n)]
           /\ unread' = [unread EXCEPT ![p] = @ + n]
           /\ \/ /\ n = c.get_left
                 /\ Settle(p, GetDone(left), [fdtab EXCEPT ![c.get_fd] = FreeFd])
              \/ /\ n < c.get_left
                 /\ Settle(p, left, [fdtab EXCEPT ![c.get_fd].off = @ + n])
  <2> DEFINE before == rx[p]
             last == before[Len(before)]
  <2>1. /\ before \in Seq(Reply) /\ before # <<>> /\ LogFits(before)
        /\ last.length = Len(last.body) + c.get_left /\ Len(last.body) \in Nat
    <3>1. before \in Seq(Reply) /\ before # <<>> /\ LogFits(before)
          /\ last.length = Len(last.body) + c.get_left
      BY <1>3 DEF SentFits
    <3>2. Len(before) \in 1 .. Len(before)
      BY <3>1, EmptySeq
    <3>3. last.body \in Seq(Byte)
      <4>1. last \in Reply
        BY <3>1, <3>2, ElementOfSeq
      <4>. QED
        BY <4>1 DEF Reply
    <3>. QED
      BY <3>1, <3>3, LenProperties
  <2>2. /\ log \in Seq(Reply) /\ log # <<>> /\ LogFits(log)
        /\ log[Len(log)].length = Len(log[Len(log)].body) + (c.get_left - n)
    <3> DEFINE more == Piece(f, n)
    <3>1. Len(before[Len(before)].body) + Len(more) <= before[Len(before)].length
      BY <1>1, <1>6, <1>7, <2>1
    <3>2. more \in Seq(Byte) /\ log = Longer(before, more)
      BY <1>7
    <3>3. before \in Seq(Reply) /\ before # <<>> /\ LogFits(before)
      BY <2>1
    <3> HIDE DEF before, more, log, last
    <3>4. /\ log \in Seq(Reply) /\ log # <<>> /\ LogFits(log)
          /\ log[Len(log)].length = before[Len(before)].length
          /\ Len(log[Len(log)].body) = Len(before[Len(before)].body) + Len(more)
      BY <3>1, <3>2, <3>3, LastLonger
    <3>. QED
      BY <1>1, <1>6, <1>7, <2>1, <3>4 DEF last, more
  <2>3. rx' = [rx EXCEPT ![p] = log]
    BY <1>9 DEF Longer
  <2> HIDE DEF log
  <2>4. /\ rx' \in [Peers -> Seq(Reply)] /\ rx'[p] = log
        /\ \A q \in Peers \ {p} : rx'[q] = rx[q]
    BY <1>3, <2>2, <2>3
  <2>5. /\ unread' \in [Peers -> 0 .. SndBuf]
        /\ \A q \in Peers \ {p} : unread'[q] = unread[q]
    <3>1. n <= SndBuf - unread[p] /\ unread[p] \in 0 .. SndBuf
      BY <1>3, <1>6 DEF Space
    <3>2. unread[p] + n \in 0 .. SndBuf
      BY <1>6, <3>1, WireAssumption
    <3>. QED
      BY <1>3, <1>9, <3>2
  <2>6. rcvd' = rcvd /\ files' = files
    BY DEF HandleWriteGetFile
  <2>7. ASSUME NEW d, NEW ft, Outcome(p, d, ft), Settle(p, d, ft), SentFits(d, log)
        PROVE  Handled(p)
    <3>1. Drop(p, d, ft) \/ (Keep(p, d, ft) /\ SentFits(d, rx'[p]))
      BY <2>4, <2>7, SettleEnds DEF Ends
    <3>. QED
      BY <1>3, <2>2, <2>4, <2>5, <2>6, <2>7, <3>1 DEF Handled
  <2> DEFINE m == c.get_left - n
  <2>8. m \in Nat
    BY <1>1, <1>6
  <2>9. CASE n = c.get_left /\ Settle(p, GetDone(left), [fdtab EXCEPT ![c.get_fd] = FreeFd])
    <3> DEFINE d == [c EXCEPT !.get_left = m, !.get_fd = NoFd, !.state = "READ_HEADER"]
               ft == [fdtab EXCEPT ![c.get_fd] = FreeFd]
    <3>1. d = GetDone(left)
      BY <1>1 DEF GetDone, Conn
    <3>2. m = 0
      BY <1>1, <2>9
    <3> HIDE DEF m, left
    <3>3. d \in Conn
      BY <1>1, <2>8, SizeAssumption DEF Conn, NoFd, Reading, Writing
    <3>4. /\ d.header_buf = <<>> /\ d.fd = c.fd /\ d.put_fd = NoFd
          /\ d.get_fd = NoFd /\ d.state = "READ_HEADER" /\ d.payload_len = 0
          /\ d.payload = <<>> /\ d.out_buf = <<>> /\ d.out_sent = 0
          /\ d.get_left = 0 /\ ~d.close_after_write
      BY <1>1, <3>2 DEF Conn
    <3>5. Settle(p, d, ft)
      BY <2>9, <3>1
    <3> HIDE DEF d
    <3>6. Fit(d)
      BY <3>3, <3>4, WireAssumption DEF Fit, BuffersFit, ReplyFits, Reading, Writing
    <3>7. FreeFd \in FdEntry /\ FreeFd.kind = "free"
      BY DEF FreeFd, FdEntry
    <3>8. Outcome(p, d, ft)
      BY <1>1, <3>4, <3>6, <3>7, FileOutcome
    <3>9. SentFits(d, log)
      <4>1. log[Len(log)].length = Len(log[Len(log)].body) + m
        BY <2>2 DEF m
      <4>2. log[Len(log)].length = Len(log[Len(log)].body)
        <5>1. Len(log) \in 1 .. Len(log)
          BY <2>2, EmptySeq
        <5>2. log[Len(log)].body \in Seq(Byte)
          <6>1. log[Len(log)] \in Reply
            BY <2>2, <5>1, ElementOfSeq
          <6>. QED
            BY <6>1 DEF Reply
        <5>. QED
          BY <3>2, <4>1, <5>2, LenProperties
      <4>. QED
        BY <3>4, <4>2 DEF SentFits, Whole, Complete
    <3>. QED
      BY <2>7, <3>5, <3>8, <3>9
  <2>10. CASE n < c.get_left /\ Settle(p, left, [fdtab EXCEPT ![c.get_fd].off = @ + n])
    <3> DEFINE ft == [fdtab EXCEPT ![c.get_fd] = moved]
    <3>1. left = [c EXCEPT !.get_left = m] /\ m > 0
      BY <1>1, <1>6, <2>10 DEF Conn
    <3>2. SentFits(left, log)
      <4>1. left.state = "WRITE_GET_FILE" /\ left.get_left = m
        BY <1>1, <3>1 DEF Conn
      <4>. QED
        BY <2>2, <4>1 DEF SentFits
    <3> HIDE DEF m, left
    <3>3. left \in Conn
      BY <1>1, <2>8, <3>1 DEF Conn
    <3>4. /\ left.header_buf = c.header_buf /\ left.fd = c.fd
          /\ left.put_fd = c.put_fd /\ left.get_fd = c.get_fd
          /\ left.state = c.state /\ left.payload_len = c.payload_len
          /\ left.payload = c.payload /\ left.out_buf = c.out_buf
          /\ left.out_sent = c.out_sent /\ left.get_left = m
          /\ left.close_after_write = c.close_after_write
      BY <1>1, <3>1 DEF Conn
    <3>5. Fit(left)
      BY <1>1, <3>1, <3>3, <3>4, WireAssumption DEF Fit, BuffersFit, ReplyFits, Reading, Writing
    <3>6. moved \in FdEntry /\ moved.kind = f.kind /\ moved.peer = f.peer
          /\ moved.name = f.name
      BY <1>2, <1>6 DEF FdEntry
    <3>7. [fdtab EXCEPT ![c.get_fd].off = @ + n] = ft
      BY <1>1
    <3> HIDE DEF moved
    <3>8. Outcome(p, left, ft)
      BY <1>1, <3>4, <3>5, <3>6, FileOutcome
    <3>. QED
      BY <2>7, <2>10, <3>2, <3>7, <3>8
  <2>. QED
    BY <1>9, <2>9, <2>10
<1>. QED
  BY <1>8, <1>9 DEF HandleWriteGetFile, n

-----------------------------------------------------------------------------
(* IInv is inductive.                                                      *)

LEMMA WireFacts ==
    ASSUME IInv
    PROVE  /\ sock \in [Peers -> {"idle", "open", "fin", "rst", "pipe"}]
           /\ stream \in [Peers -> Seq(Unit)] /\ sent \in [Peers -> Nat]
           /\ rcvd \in [Peers -> Nat]
           /\ \A p \in Peers : rcvd[p] <= sent[p] /\ sent[p] <= Len(stream[p])
           /\ rx \in [Peers -> Seq(Reply)] /\ unread \in [Peers -> 0 .. SndBuf]
           /\ backlog \in Seq(Peers) /\ files \in [SafeNames -> File]
BY DEF IInv, TypeOK, WireTypeOK

LEMMA ServerFacts ==
    ASSUME IInv
    PROVE  /\ conn \in [Peers -> Conn] /\ conn_map \in [Fds -> Peers \cup {NULL}]
           /\ fdtab \in [Fds -> FdEntry]
           /\ interest \in [Peers -> {"none", "in", "out"}]
           /\ batch \in SUBSET Event /\ accepting \in BOOLEAN /\ running \in BOOLEAN
BY DEF IInv, TypeOK

(* An event of a connection, and the connection it is about.               *)
LEMMA EventFacts ==
    ASSUME IInv, NEW e \in batch, e.fd # LFD
    PROVE  /\ e.fd \in Fds /\ e.peer \in Peers /\ conn_map[e.fd] = e.peer
           /\ conn[e.peer].fd = e.fd /\ Connected(e.peer)
           /\ fdtab[e.fd].kind = "sock"
           /\ e.rd => conn[e.peer].state \in Reading
           /\ e.wr => /\ conn[e.peer].state \in Writing
                      /\ Space(e.peer) > 0 \/ Broken(e.peer)
<1>1. e \in Event /\ e.fd \in Fds
  <2>1. e \in Event
    BY ServerFacts
  <2>2. e.fd \in 0 .. FdLimit
    BY <2>1 DEF Event
  <2>. QED
    BY <2>1, <2>2, OpenIsFd DEF NoFd, LFD
<1>2. /\ conn_map[e.fd] = e.peer /\ e.peer # NULL
      /\ e.rd => conn[e.peer].state \in Reading
      /\ e.wr => conn[e.peer].state \in Writing
  BY DEF IInv, EventsCurrent
<1>3. e.peer \in Peers
  BY <1>1, <1>2, ServerFacts
<1>4. conn[e.peer].fd = e.fd
  BY <1>1, <1>2 DEF IInv, DescriptorsOwned
<1>5. Connected(e.peer)
  BY <1>4 DEF Connected, NoFd, LFD
<1>6. fdtab[e.fd].kind = "sock"
  BY <1>3, <1>4, <1>5 DEF IInv, DescriptorsOwned
<1>7. e.wr => Space(e.peer) > 0 \/ Broken(e.peer)
  BY DEF IInv, Awaited
<1>. QED
  BY <1>1, <1>2, <1>3, <1>4, <1>5, <1>6, <1>7

LEMMA HandlerHandled ==
    ASSUME IInv, NEW e \in batch, e.fd # LFD, NEW p, p = e.peer, Handler(p, e)
    PROVE  Handled(p)
<1>1. /\ p \in Peers /\ Connected(p)
      /\ e.wr => Space(p) > 0 \/ Broken(p)
  BY EventFacts
<1>2. CASE Drop(p, conn[p], fdtab) /\ UNCHANGED <<rcvd, rx, unread, files>>
  BY <1>1, <1>2, DropHandled
<1>3. CASE unread' = unread /\ conn[p].state = "READ_HEADER" /\ HandleReadHeader(p)
  BY <1>1, <1>3, ReadHeaderReads, ReadsHandled DEF Reading
<1>4. CASE unread' = unread /\ conn[p].state = "READ_PAYLOAD" /\ HandleReadPayload(p)
  BY <1>1, <1>4, ReadPayloadReads, ReadsHandled DEF Reading
<1>5. CASE unread' = unread /\ conn[p].state = "READ_PUT_STREAM" /\ HandlePutStream(p)
  BY <1>1, <1>5, PutStreamReads, ReadsHandled DEF Reading
<1>6. CASE e.wr /\ conn[p].state = "WRITE_BUFFER" /\ HandleWriteBuffer(p)
  BY <1>1, <1>6, WriteBufferHandled
<1>7. CASE conn[p].state = "WRITE_GET_FILE" /\ HandleWriteGetFile(p)
  BY <1>1, <1>7, WriteGetFileHandled
<1>. QED
  BY <1>2, <1>3, <1>4, <1>5, <1>6, <1>7 DEF Handler

LEMMA HandleInv ==
    ASSUME IInv, NEW e \in batch, Handle(e)
    PROVE  IInv'
<1> DEFINE p == e.peer
<1>1. /\ p \in Peers /\ Connected(p) /\ conn_map[e.fd] = p /\ conn[p].fd = e.fd
      /\ e.fd # LFD /\ e.fd \in Fds
  BY EventFacts DEF Handle
<1>2. /\ sock' = sock /\ stream' = stream /\ sent' = sent /\ backlog' = backlog
      /\ accepting' = accepting /\ running' = running /\ batch' = batch \ {e}
  BY DEF Handle
<1>3. Handled(p)
  BY <1>1, HandlerHandled DEF Handle
<1> HIDE DEF p
<1>4. PICK c, ft : /\ Outcome(p, c, ft)
                   /\ Drop(p, c, ft) \/ (Keep(p, c, ft) /\ SentFits(c, rx'[p]))
  BY <1>3 DEF Handled
<1>5. /\ conn' \in [Peers -> Conn] /\ conn_map' \in [Fds -> Peers \cup {NULL}]
      /\ fdtab' \in [Fds -> FdEntry]
      /\ interest' \in [Peers -> {"none", "in", "out"}]
      /\ \A q \in Peers : BuffersFit(conn'[q]) /\ ReplyFits(conn'[q])
      /\ TableFit(fdtab') /\ DescriptorsOwned' /\ Watched'
      /\ \A q \in Peers \ {p} : conn'[q] = conn[q]
      /\ \A fd \in Fds \ {conn[p].fd} : conn_map'[fd] = conn_map[fd]
  BY <1>1, <1>4, EndsOwned DEF Ends
<1>6. /\ rx' \in [Peers -> Seq(Reply)] /\ LogFits(rx'[p])
      /\ \A q \in Peers \ {p} : rx'[q] = rx[q] /\ unread'[q] = unread[q]
      /\ unread' \in [Peers -> 0 .. SndBuf]
      /\ rcvd' \in [Peers -> Nat] /\ \A q \in Peers : rcvd'[q] <= sent[q]
      /\ files' \in [SafeNames -> File]
  BY <1>3 DEF Handled
<1>7. conn'[p].fd # NoFd => SentFits(conn'[p], rx'[p])
  <2>1. CASE Drop(p, c, ft)
    <3>1. conn'[p] = NoConn
      BY <1>1, <2>1, ServerFacts DEF Drop
    <3>. QED
      BY <3>1 DEF NoConn, NewConn
  <2>2. CASE Keep(p, c, ft) /\ SentFits(c, rx'[p])
    BY <1>1, <2>2, ServerFacts DEF Keep
  <2>. QED
    BY <1>4, <2>1, <2>2
<1>8. TypeOK'
  BY <1>2, <1>5, <1>6, WireFacts, ServerFacts DEF TypeOK, WireTypeOK
<1>9. ASSUME NEW x \in batch', x.fd # LFD
      PROVE  /\ conn_map'[x.fd] = x.peer /\ x.peer # NULL
             /\ conn'[x.peer] = conn[x.peer] /\ unread'[x.peer] = unread[x.peer]
             /\ x.rd => conn[x.peer].state \in Reading
             /\ x.wr => /\ conn[x.peer].state \in Writing
                        /\ Space(x.peer) > 0 \/ Broken(x.peer)
  <2>1. x \in batch /\ x # e
    BY <1>2
  <2>2. x.fd # e.fd
    BY <2>1 DEF IInv, EventsCurrent
  <2>3. /\ x.fd \in Fds /\ x.peer \in Peers /\ conn_map[x.fd] = x.peer
        /\ conn[x.peer].fd = x.fd
        /\ x.rd => conn[x.peer].state \in Reading
        /\ x.wr => /\ conn[x.peer].state \in Writing
                   /\ Space(x.peer) > 0 \/ Broken(x.peer)
    BY <1>9, <2>1, EventFacts
  <2>4. x.peer # p
    BY <1>1, <2>2, <2>3
  <2>. QED
    BY <1>1, <1>5, <1>6, <2>2, <2>3, <2>4, NullAssumption
<1>10. EventsCurrent'
  <2>1. \A x, other \in batch' : other.fd = x.fd => other = x
    BY <1>2 DEF IInv, EventsCurrent
  <2>. QED
    BY <1>9, <2>1 DEF EventsCurrent
<1>11. Awaited'
  <2>1. \A x \in batch' : x.fd = LFD => x = ListenEvent
    BY <1>2 DEF IInv, Awaited
  <2>. QED
    BY <1>2, <1>9, <2>1 DEF Awaited, Space, Broken, ListenEvent
<1>12. Queued'
  <2>1. \A i \in 1 .. Len(backlog) : backlog[i] \in Peers \ {p}
    <3>1. ASSUME NEW i \in 1 .. Len(backlog) PROVE backlog[i] \in Peers \ {p}
      <4>1. backlog[i] \in Peers
        BY WireFacts, ElementOfSeq
      <4>2. conn[backlog[i]].fd = NoFd
        BY DEF IInv, Queued
      <4>. QED
        BY <1>1, <4>1, <4>2 DEF Connected
    <3>. QED
      BY <3>1
  <2>2. sock[p] # "idle"
    BY <1>1 DEF IInv, Queued, Connected
  <2>3. ASSUME NEW i \in 1 .. Len(backlog)
        PROVE  /\ conn'[backlog[i]].fd = NoFd /\ sock[backlog[i]] # "idle"
               /\ rx'[backlog[i]] = <<>>
    BY <1>5, <1>6, <2>1 DEF IInv, Queued
  <2>4. ASSUME NEW q \in Peers, sock[q] = "idle"
        PROVE  conn'[q].fd = NoFd /\ rx'[q] = <<>>
    <3>1. q \in Peers \ {p}
      BY <2>2, <2>4
    <3>. QED
      BY <1>5, <1>6, <2>4, <3>1 DEF IInv, Queued
  <2>5. \A i, j \in 1 .. Len(backlog) : backlog[i] = backlog[j] => i = j
    BY DEF IInv, Queued
  <2>. QED
    BY <1>2, <2>3, <2>4, <2>5 DEF Queued
<1>13. Replied'
  <2>1. ASSUME NEW q \in Peers
        PROVE  /\ LogFits(rx'[q])
               /\ conn'[q].fd # NoFd => SentFits(conn'[q], rx'[q])
    <3>1. CASE q = p
      BY <1>6, <1>7, <3>1
    <3>2. CASE q # p
      BY <1>5, <1>6, <3>2 DEF IInv, Replied
    <3>. QED
      BY <3>1, <3>2
  <2>. QED
    BY <2>1 DEF Replied
<1>. QED
  BY <1>5, <1>8, <1>10, <1>11, <1>12, <1>13 DEF IInv

(* Fewer events to handle, or the accept loop begun or left.               *)
LEMMA FewerEventsInv ==
    ASSUME IInv, UNCHANGED <<wireVars, conn, conn_map, fdtab, interest, running>>,
           batch' \in SUBSET batch, accepting' \in BOOLEAN
    PROVE  IInv'
<1>1. /\ sock' = sock /\ stream' = stream /\ sent' = sent /\ rcvd' = rcvd /\ rx' = rx
      /\ unread' = unread /\ backlog' = backlog /\ files' = files
      /\ conn' = conn /\ conn_map' = conn_map /\ fdtab' = fdtab
      /\ interest' = interest /\ running' = running
  BY DEF wireVars
<1>2. TypeOK'
  BY <1>1, WireFacts, ServerFacts DEF TypeOK, WireTypeOK
<1>3. EventsCurrent'
  BY <1>1 DEF IInv, EventsCurrent
<1>4. Awaited'
  BY <1>1 DEF IInv, Awaited, Space, Broken, ListenEvent
<1>5. DescriptorsOwned' /\ Queued' /\ Watched' /\ Replied'
  BY <1>1 DEF IInv, DescriptorsOwned, Connected, Queued, Watched, Replied
<1>. QED
  BY <1>1, <1>2, <1>3, <1>4, <1>5 DEF IInv

LEMMA EpollWaitInv ==
    ASSUME IInv, EpollWait
    PROVE  IInv'
<1>1. /\ sock' = sock /\ stream' = stream /\ sent' = sent /\ rcvd' = rcvd /\ rx' = rx
      /\ unread' = unread /\ backlog' = backlog /\ files' = files
      /\ conn' = conn /\ conn_map' = conn_map /\ fdtab' = fdtab
      /\ interest' = interest /\ running' = running /\ accepting' = accepting
      /\ batch' \in SUBSET Ready
  BY DEF EpollWait, wireVars
<1>2. ASSUME NEW e \in Ready, e.fd # LFD
      PROVE  /\ e.fd \in Fds /\ e.peer \in Peers /\ conn[e.peer].fd = e.fd
             /\ conn_map[e.fd] = e.peer /\ e.peer # NULL
             /\ e = EventOf(e.peer) /\ e \in Event
             /\ e.rd => conn[e.peer].state \in Reading
             /\ e.wr => /\ conn[e.peer].state \in Writing
                        /\ Space(e.peer) > 0 \/ Broken(e.peer)
  <2>1. PICK p \in Peers : Connected(p) /\ e = EventOf(p)
    BY <1>2 DEF Ready, ListenEvent
  <2>2. e.fd = conn[p].fd /\ e.peer = p
    BY <2>1 DEF EventOf
  <2>3. conn[p].fd \in Fds
    BY <2>1, ConnFits, OpenIsFd DEF Connected
  <2>4. conn_map[conn[p].fd] = p
    BY <2>1 DEF IInv, DescriptorsOwned
  <2>5. e \in Event
    <3>1. /\ Ended(p) \in BOOLEAN
          /\ (interest[p] = "in" /\ (Avail(p) > 0 \/ Ended(p))) \in BOOLEAN
          /\ (interest[p] = "out" /\ (Space(p) > 0 \/ Broken(p))) \in BOOLEAN
      BY DEF Ended, Broken
    <3>2. conn[p].fd \in 0 .. FdLimit
      BY ConnFits
    <3>. QED
      BY <2>1, <3>1, <3>2 DEF EventOf, Event
  <2>6. e.rd => interest[p] = "in"
    BY <2>1 DEF EventOf
  <2>7. e.wr => interest[p] = "out" /\ (Space(p) > 0 \/ Broken(p))
    BY <2>1 DEF EventOf
  <2>8. interest[p] = InterestOf(conn[p].state)
        /\ conn[p].state \in Reading \cup Writing
    BY <2>1, ServerFacts DEF IInv, Watched, Connected, Conn
  <2>. QED
    BY <2>1, <2>2, <2>3, <2>4, <2>5, <2>6, <2>7, <2>8, NullAssumption DEF InterestOf
<1>3. ASSUME NEW e \in Ready, e.fd = LFD
      PROVE  e = ListenEvent
  <2>1. ASSUME NEW p \in Peers, Connected(p), e = EventOf(p) PROVE FALSE
    BY <1>3, <2>1 DEF EventOf, Connected, LFD, NoFd
  <2>. QED
    BY <2>1 DEF Ready
<1>4. ListenEvent \in Event /\ ListenEvent.fd = LFD
  BY SizeAssumption DEF ListenEvent, Event, LFD
<1>5. batch' \in SUBSET Event
  BY <1>1, <1>2, <1>3, <1>4
<1>6. TypeOK'
  BY <1>1, <1>5, WireFacts, ServerFacts DEF TypeOK, WireTypeOK
<1>7. ASSUME NEW e \in batch', NEW other \in batch', other.fd = e.fd
      PROVE  other = e
  <2>1. CASE e.fd = LFD
    BY <1>1, <1>3, <1>7, <2>1
  <2>2. CASE e.fd # LFD
    BY <1>1, <1>2, <1>7, <2>2
  <2>. QED
    BY <2>1, <2>2
<1>8. EventsCurrent'
  BY <1>1, <1>2, <1>7 DEF EventsCurrent
<1>9. Awaited'
  BY <1>1, <1>2, <1>3 DEF Awaited, Space, Broken, ListenEvent
<1>10. DescriptorsOwned' /\ Queued' /\ Watched' /\ Replied'
  BY <1>1 DEF IInv, DescriptorsOwned, Connected, Queued, Watched, Replied
<1>. QED
  BY <1>1, <1>6, <1>8, <1>9, <1>10 DEF IInv

LEMMA StopInv ==
    ASSUME IInv, Stop
    PROVE  IInv'
<1>1. /\ sock' = sock /\ stream' = stream /\ sent' = sent /\ rcvd' = rcvd /\ rx' = rx
      /\ unread' = unread /\ files' = files /\ accepting' = accepting
      /\ running' = FALSE /\ batch' = {}
      /\ conn' = [p \in Peers |-> NoConn] /\ conn_map' = [fd \in Fds |-> NULL]
      /\ fdtab' = [fd \in Fds |-> FreeFd] /\ interest' = [p \in Peers |-> "none"]
  BY DEF Stop
<1>2. backlog' = <<>>
  BY DEF Stop
<1>3. Fit(NoConn) /\ NoConn.fd = NoFd /\ NoConn.put_fd = NoFd /\ NoConn.get_fd = NoFd
  <2>1. Fit(NoConn)
    BY NewConnFits, SizeAssumption DEF NoConn, NoFd
  <2>. QED
    BY <2>1 DEF NoConn, NewConn
<1>4. FreeFd \in FdEntry /\ FreeFd.kind = "free"
  BY DEF FreeFd, FdEntry
<1>5. backlog' \in Seq(Peers) /\ Len(backlog') = 0
  BY <1>2, EmptySeq
<1>6. TypeOK'
  BY <1>1, <1>3, <1>4, <1>5, WireFacts, ServerFacts DEF TypeOK, WireTypeOK, Fit
<1>7. \A p \in Peers : BuffersFit(conn'[p]) /\ ReplyFits(conn'[p])
  BY <1>1, <1>3 DEF Fit
<1>8. TableFit(fdtab') /\ DescriptorsOwned'
  BY <1>1, <1>3, <1>4 DEF TableFit, DescriptorsOwned, Connected
<1>9. EventsCurrent' /\ Awaited'
  BY <1>1 DEF EventsCurrent, Awaited
<1>10. Queued'
  BY <1>1, <1>3, <1>5 DEF IInv, Queued
<1>11. Watched' /\ Replied'
  BY <1>1, <1>3 DEF IInv, Watched, Replied
<1>. QED
  BY <1>6, <1>7, <1>8, <1>9, <1>10, <1>11 DEF IInv

(* The queue after its first connection has been taken.                    *)
LEMMA TailQueue ==
    ASSUME IInv, backlog # <<>>
    PROVE  /\ Head(backlog) \in Peers /\ Tail(backlog) \in Seq(Peers)
           /\ conn[Head(backlog)].fd = NoFd /\ sock[Head(backlog)] # "idle"
           /\ rx[Head(backlog)] = <<>>
           /\ \A i \in 1 .. Len(Tail(backlog)) :
                  /\ Tail(backlog)[i] \in Peers \ {Head(backlog)}
                  /\ conn[Tail(backlog)[i]].fd = NoFd
                  /\ sock[Tail(backlog)[i]] # "idle" /\ rx[Tail(backlog)[i]] = <<>>
                  /\ \A j \in 1 .. Len(Tail(backlog)) :
                         Tail(backlog)[i] = Tail(backlog)[j] => i = j
<1> DEFINE n == Len(backlog)
           rest == Tail(backlog)
           p == Head(backlog)
<1>1. /\ backlog \in Seq(Peers) /\ n \in Nat /\ n > 0
  BY WireFacts, EmptySeq
<1>2. /\ p = backlog[1] /\ 1 \in 1 .. n
      /\ rest \in Seq(Peers) /\ Len(rest) = n - 1
      /\ \A i \in 1 .. Len(rest) : rest[i] = backlog[i + 1]
  BY <1>1, HeadTailProperties
<1>3. p \in Peers
  BY <1>1, <1>2, ElementOfSeq
<1>4. /\ \A i, j \in 1 .. n : backlog[i] = backlog[j] => i = j
      /\ \A i \in 1 .. n : /\ conn[backlog[i]].fd = NoFd /\ sock[backlog[i]] # "idle"
                           /\ rx[backlog[i]] = <<>>
  BY DEF IInv, Queued
<1> HIDE DEF n, rest, p
<1>5. ASSUME NEW i \in 1 .. Len(rest)
      PROVE  /\ rest[i] = backlog[i + 1] /\ i + 1 \in 1 .. n /\ i + 1 # 1
             /\ rest[i] \in Peers
  BY <1>1, <1>2, <1>5, ElementOfSeq
<1>6. ASSUME NEW i \in 1 .. Len(rest)
      PROVE  /\ rest[i] \in Peers \ {p} /\ conn[rest[i]].fd = NoFd
             /\ sock[rest[i]] # "idle" /\ rx[rest[i]] = <<>>
             /\ \A j \in 1 .. Len(rest) : rest[i] = rest[j] => i = j
  <2>1. ASSUME NEW j \in 1 .. Len(rest), rest[i] = rest[j] PROVE i = j
    <3>1. i + 1 = j + 1
      BY <1>4, <1>5, <2>1
    <3>. QED
      BY <3>1
  <2>2. rest[i] # p
    BY <1>2, <1>4, <1>5
  <2>. QED
    BY <1>4, <1>5, <2>1, <2>2
<1>7. conn[p].fd = NoFd /\ sock[p] # "idle" /\ rx[p] = <<>>
  BY <1>2, <1>4
<1>. QED
  BY <1>2, <1>3, <1>6, <1>7 DEF rest, p

LEMMA AcceptOneInv ==
    ASSUME IInv, AcceptOne
    PROVE  IInv'
<1> DEFINE p == Head(backlog)
           fd == LowestFree
           rest == Tail(backlog)
           sockEntry == [kind |-> "sock", peer |-> p, name |-> NULL, off |-> 0]
           c == NewConn(fd)
<1>1. /\ sock' = sock /\ stream' = stream /\ sent' = sent /\ rcvd' = rcvd /\ rx' = rx
      /\ unread' = unread /\ files' = files /\ accepting' = accepting
      /\ running' = running /\ batch' = batch /\ backlog' = rest
      /\ backlog # <<>> /\ Free # {}
  BY DEF AcceptOne
<1>2. /\ p \in Peers /\ rest \in Seq(Peers)
      /\ conn[p].fd = NoFd /\ sock[p] # "idle" /\ rx[p] = <<>>
      /\ \A i \in 1 .. Len(rest) :
             /\ rest[i] \in Peers \ {p} /\ conn[rest[i]].fd = NoFd
             /\ sock[rest[i]] # "idle" /\ rx[rest[i]] = <<>>
             /\ \A j \in 1 .. Len(rest) : rest[i] = rest[j] => i = j
  BY <1>1, TailQueue
<1>3. fd \in Fds /\ fdtab[fd].kind = "free"
  BY <1>1, LowestFreeType
<1>4. fd \in 0 .. FdLimit /\ fd # NoFd
  BY <1>3, SizeAssumption DEF Fds, NoFd
<1> HIDE DEF p, fd, rest
<1>5. CASE UNCHANGED <<conn, conn_map, fdtab, interest>>
  <2>1. conn' = conn /\ conn_map' = conn_map /\ fdtab' = fdtab /\ interest' = interest
    BY <1>5
  <2>2. TypeOK'
    BY <1>1, <1>2, <2>1, WireFacts, ServerFacts DEF TypeOK, WireTypeOK
  <2>3. EventsCurrent' /\ Awaited'
    BY <1>1, <2>1 DEF IInv, EventsCurrent, Awaited, Space, Broken, ListenEvent
  <2>4. DescriptorsOwned' /\ Watched' /\ Replied'
    BY <1>1, <2>1 DEF IInv, DescriptorsOwned, Connected, Watched, Replied
  <2>5. Queued'
    <3>1. \A q \in Peers : sock[q] = "idle" => conn[q].fd = NoFd /\ rx[q] = <<>>
      BY DEF IInv, Queued
    <3>. QED
      BY <1>1, <1>2, <2>1, <3>1 DEF Queued
  <2>. QED
    BY <2>1, <2>2, <2>3, <2>4, <2>5 DEF IInv
<1>6. CASE Accepted(p, fd)
  <2>1. /\ conn' = [conn EXCEPT ![p] = c] /\ conn_map' = [conn_map EXCEPT ![fd] = p]
        /\ fdtab' = [fdtab EXCEPT ![fd] = sockEntry]
        /\ interest' = [interest EXCEPT ![p] = "in"]
    BY <1>6 DEF Accepted
  <2>2. Fit(c) /\ c.fd = fd /\ c.put_fd = NoFd /\ c.get_fd = NoFd
        /\ c.state = "READ_HEADER" /\ c.out_sent = 0
    <3>1. Fit(c)
      BY <1>4, NewConnFits
    <3>. QED
      BY <3>1 DEF NewConn
  <2>3. sockEntry \in FdEntry /\ sockEntry.kind = "sock" /\ sockEntry.peer = p
    BY <1>2 DEF FdEntry
  <2> HIDE DEF c, sockEntry
  <2>4. /\ conn'[p] = c /\ \A q \in Peers \ {p} : conn'[q] = conn[q]
        /\ conn' \in [Peers -> Conn]
    BY <1>2, <2>1, <2>2, ServerFacts DEF Fit
  <2>5. /\ conn_map'[fd] = p /\ \A other \in Fds \ {fd} : conn_map'[other] = conn_map[other]
        /\ conn_map' \in [Fds -> Peers \cup {NULL}]
    BY <1>2, <1>3, <2>1, ServerFacts
  <2>6. /\ fdtab'[fd] = sockEntry /\ \A other \in Fds \ {fd} : fdtab'[other] = fdtab[other]
        /\ fdtab' \in [Fds -> FdEntry]
    BY <1>3, <2>1, <2>3, ServerFacts
  <2>7. /\ interest'[p] = "in" /\ \A q \in Peers \ {p} : interest'[q] = interest[q]
        /\ interest' \in [Peers -> {"none", "in", "out"}]
    BY <1>2, <2>1, ServerFacts
  <2>8. TypeOK'
    BY <1>1, <1>2, <2>4, <2>5, <2>6, <2>7, WireFacts, ServerFacts DEF TypeOK, WireTypeOK
  <2>9. \A q \in Peers : BuffersFit(conn'[q]) /\ ReplyFits(conn'[q])
    BY <2>2, <2>4 DEF IInv, Fit
  <2>10. TableFit(fdtab')
    BY <1>2, <2>3, <2>6 DEF IInv, TableFit
  <2>11. conn[p].put_fd = NoFd /\ conn[p].get_fd = NoFd
    BY <1>2 DEF IInv, Watched, NoConn, NewConn
  <2>12. ASSUME NEW q \in Peers
         PROVE  /\ conn'[q].fd # NoFd =>
                      /\ fdtab'[conn'[q].fd].kind = "sock"
                      /\ fdtab'[conn'[q].fd].peer = q
                      /\ conn_map'[conn'[q].fd] = q
                /\ conn'[q].put_fd # NoFd =>
                      /\ fdtab'[conn'[q].put_fd].kind = "put"
                      /\ fdtab'[conn'[q].put_fd].peer = q
                      /\ fdtab'[conn'[q].put_fd].name = conn'[q].pending_put_name
                /\ conn'[q].get_fd # NoFd =>
                      /\ fdtab'[conn'[q].get_fd].kind = "get"
                      /\ fdtab'[conn'[q].get_fd].peer = q
    <3>1. CASE q = p
      BY <1>3, <2>2, <2>3, <2>4, <2>5, <2>6, <3>1
    <3>2. CASE q # p
      <4>1. conn'[q] = conn[q]
        BY <2>4, <3>2
      <4>2. conn[q].fd # NoFd =>
                /\ conn[q].fd \in Fds \ {fd} /\ fdtab[conn[q].fd].kind = "sock"
                /\ fdtab[conn[q].fd].peer = q /\ conn_map[conn[q].fd] = q
        BY <1>3, ConnFits, OpenIsFd DEF IInv, DescriptorsOwned, Connected
      <4>3. conn[q].put_fd # NoFd =>
                /\ conn[q].put_fd \in Fds \ {fd} /\ fdtab[conn[q].put_fd].kind = "put"
                /\ fdtab[conn[q].put_fd].peer = q
                /\ fdtab[conn[q].put_fd].name = conn[q].pending_put_name
        BY <1>3, ConnFits, OpenIsFd DEF IInv, DescriptorsOwned
      <4>4. conn[q].get_fd # NoFd =>
                /\ conn[q].get_fd \in Fds \ {fd} /\ fdtab[conn[q].get_fd].kind = "get"
                /\ fdtab[conn[q].get_fd].peer = q
        BY <1>3, ConnFits, OpenIsFd DEF IInv, DescriptorsOwned
      <4>. QED
        BY <2>5, <2>6, <4>1, <4>2, <4>3, <4>4
    <3>. QED
      BY <3>1, <3>2
  <2>13. ASSUME NEW other \in Fds
         PROVE  /\ conn_map'[other] # NULL => conn'[conn_map'[other]].fd = other
                /\ fdtab'[other].kind = "sock" => conn_map'[other] = fdtab'[other].peer
                /\ fdtab'[other].kind = "put" => conn'[fdtab'[other].peer].put_fd = other
    <3>1. CASE other = fd
      BY <2>2, <2>3, <2>4, <2>5, <2>6, <3>1
    <3>2. CASE other # fd
      <4>1. conn_map'[other] = conn_map[other] /\ fdtab'[other] = fdtab[other]
        BY <2>5, <2>6, <3>2
      <4>2. other # NoFd
        BY SizeAssumption DEF Fds, NoFd
      <4>3. conn_map[other] # NULL =>
                conn_map[other] \in Peers \ {p} /\ conn[conn_map[other]].fd = other
        BY <1>2, <4>2, ServerFacts DEF IInv, DescriptorsOwned
      <4>4. fdtab[other].kind = "put" =>
                /\ fdtab[other].peer \in Peers \ {p}
                /\ conn[fdtab[other].peer].put_fd = other
        BY <2>11, <4>2 DEF IInv, DescriptorsOwned, TableFit
      <4>5. fdtab[other].kind = "sock" => conn_map[other] = fdtab[other].peer
        BY DEF IInv, DescriptorsOwned
      <4>. QED
        BY <2>4, <4>1, <4>3, <4>4, <4>5
    <3>. QED
      BY <3>1, <3>2
  <2>14. DescriptorsOwned'
    BY <2>12, <2>13 DEF DescriptorsOwned, Connected
  <2>15. EventsCurrent'
    <3>1. ASSUME NEW e \in batch, e.fd # LFD
          PROVE  /\ conn_map'[e.fd] = e.peer /\ e.peer # NULL
                 /\ e.rd => conn'[e.peer].state \in Reading
                 /\ e.wr => conn'[e.peer].state \in Writing
      <4>1. /\ e.fd \in Fds /\ e.peer \in Peers /\ conn_map[e.fd] = e.peer
            /\ Connected(e.peer) /\ fdtab[e.fd].kind = "sock"
            /\ e.rd => conn[e.peer].state \in Reading
            /\ e.wr => conn[e.peer].state \in Writing
        BY <3>1, EventFacts
      <4>2. e.fd # fd /\ e.peer # p
        BY <1>2, <1>3, <4>1 DEF Connected
      <4>. QED
        BY <2>4, <2>5, <4>1, <4>2, NullAssumption
    <3>2. \A e, other \in batch : other.fd = e.fd => other = e
      BY DEF IInv, EventsCurrent
    <3>. QED
      BY <1>1, <3>1, <3>2 DEF EventsCurrent
  <2>16. Awaited'
    BY <1>1 DEF IInv, Awaited, Space, Broken, ListenEvent
  <2>17. Queued'
    <3>1. ASSUME NEW q \in Peers, sock[q] = "idle"
          PROVE  conn'[q].fd = NoFd /\ rx[q] = <<>>
      BY <1>2, <2>4, <3>1 DEF IInv, Queued
    <3>2. \A i \in 1 .. Len(rest) :
              /\ conn'[rest[i]].fd = NoFd
              /\ sock[rest[i]] # "idle" /\ rx[rest[i]] = <<>>
      BY <1>2, <2>4
    <3>. QED
      BY <1>1, <1>2, <3>1, <3>2 DEF Queued
  <2>18. Watched'
    BY <1>4, <2>2, <2>4, <2>7 DEF IInv, Watched, InterestOf, Reading
  <2>19. Replied'
    <3>1. SentFits(c, rx[p]) /\ LogFits(rx[p])
      BY <1>2, <2>2, EmptySeq DEF SentFits, Whole, LogFits
    <3>. QED
      BY <1>1, <2>4, <3>1 DEF IInv, Replied
  <2>. QED
    BY <2>8, <2>9, <2>10, <2>14, <2>15, <2>16, <2>17, <2>18, <2>19 DEF IInv
<1>. QED
  BY <1>5, <1>6 DEF AcceptOne, p, fd

(* What the peers do leaves the server's state alone.                      *)
LEMMA PeerInv ==
    ASSUME IInv, UNCHANGED serverVars, rx' = rx, WireTypeOK',
           \A p \in Peers : sock'[p] = "idle" => sock[p] = "idle",
           \A p \in Peers : Broken(p) => sock'[p] \in {"rst", "pipe"},
           \A p \in Peers : Space(p) > 0 => SndBuf - unread'[p] > 0,
           Queued'
    PROVE  IInv'
<1>1. /\ conn' = conn /\ conn_map' = conn_map /\ fdtab' = fdtab /\ interest' = interest
      /\ batch' = batch /\ accepting' = accepting /\ running' = running
  BY DEF serverVars
<1>2. TypeOK'
  BY <1>1, ServerFacts DEF TypeOK
<1>3. EventsCurrent'
  BY <1>1 DEF IInv, EventsCurrent
<1>4. Awaited'
  <2>1. ASSUME NEW e \in batch, e.fd # LFD, e.wr
        PROVE  SndBuf - unread'[e.peer] > 0 \/ sock'[e.peer] \in {"rst", "pipe"}
    BY <2>1, EventFacts
  <2>2. \A e \in batch : e.fd = LFD => e = ListenEvent
    BY DEF IInv, Awaited
  <2>. QED
    BY <1>1, <2>1, <2>2 DEF Awaited, Space, Broken, ListenEvent
<1>5. DescriptorsOwned' /\ Watched' /\ Replied'
  BY <1>1 DEF IInv, DescriptorsOwned, Connected, Watched, Replied
<1>. QED
  BY <1>1, <1>2, <1>3, <1>4, <1>5 DEF IInv

LEMMA PeerConnectsInv ==
    ASSUME IInv, NEW p \in Peers, PeerConnects(p)
    PROVE  IInv'
<1> DEFINE n == Len(backlog)
<1>1. /\ sock[p] = "idle" /\ sock' = [sock EXCEPT ![p] = "open"]
      /\ stream' = stream /\ sent' = sent /\ rcvd' = rcvd /\ rx' = rx
      /\ unread' = unread /\ files' = files /\ backlog' = Append(backlog, p)
      /\ UNCHANGED serverVars
  BY DEF PeerConnects, Connect
<1>2. conn' = conn
  BY <1>1 DEF serverVars
<1>3. /\ sock' \in [Peers -> {"idle", "open", "fin", "rst", "pipe"}]
      /\ sock'[p] = "open" /\ \A q \in Peers \ {p} : sock'[q] = sock[q]
  BY <1>1, WireFacts
<1>4. /\ backlog \in Seq(Peers) /\ n \in Nat
      /\ backlog' \in Seq(Peers) /\ Len(backlog') = n + 1 /\ backlog'[n + 1] = p
      /\ \A i \in 1 .. n : backlog'[i] = backlog[i]
  BY <1>1, WireFacts, AppendProperties, LenProperties
<1> HIDE DEF n
<1>5. WireTypeOK'
  BY <1>1, <1>3, <1>4, WireFacts DEF WireTypeOK
<1>6. /\ \A q \in Peers : sock'[q] = "idle" => sock[q] = "idle"
      /\ \A q \in Peers : Broken(q) => sock'[q] \in {"rst", "pipe"}
      /\ \A q \in Peers : Space(q) > 0 => SndBuf - unread'[q] > 0
  BY <1>1, <1>3 DEF Broken, Space
<1>7. ASSUME NEW i \in 1 .. n
      PROVE  /\ backlog[i] \in Peers \ {p} /\ conn[backlog[i]].fd = NoFd
             /\ sock[backlog[i]] # "idle" /\ rx[backlog[i]] = <<>>
             /\ \A j \in 1 .. n : backlog[i] = backlog[j] => i = j
  <2>1. backlog[i] \in Peers
    BY <1>4, ElementOfSeq DEF n
  <2>. QED
    BY <1>1, <2>1 DEF IInv, Queued, n
<1>8. conn[p].fd = NoFd /\ rx[p] = <<>>
  BY <1>1 DEF IInv, Queued
<1>9. ASSUME NEW i \in 1 .. n + 1
      PROVE  /\ conn[backlog'[i]].fd = NoFd /\ sock'[backlog'[i]] # "idle"
             /\ rx[backlog'[i]] = <<>>
             /\ \A j \in 1 .. n + 1 : backlog'[i] = backlog'[j] => i = j
  <2>1. \A k \in 1 .. n + 1 : k \in 1 .. n \/ k = n + 1
    BY <1>4
  <2>2. \A k \in 1 .. n : backlog'[k] # p
    BY <1>4, <1>7
  <2>3. CASE i \in 1 .. n
    <3>1. backlog'[i] = backlog[i] /\ backlog[i] \in Peers \ {p}
      BY <1>4, <1>7, <2>3
    <3>2. /\ conn[backlog[i]].fd = NoFd /\ sock'[backlog[i]] # "idle"
          /\ rx[backlog[i]] = <<>>
      BY <1>3, <1>7, <2>3, <3>1
    <3>3. ASSUME NEW j \in 1 .. n + 1, backlog'[i] = backlog'[j] PROVE i = j
      <4>1. j \in 1 .. n
        BY <1>4, <2>1, <3>1, <3>3
      <4>. QED
        BY <1>4, <1>7, <2>3, <3>3, <4>1
    <3>. QED
      BY <3>1, <3>2, <3>3
  <2>4. CASE i = n + 1
    BY <1>3, <1>4, <1>8, <2>1, <2>2, <2>4
  <2>. QED
    BY <2>1, <2>3, <2>4
<1>10. Queued'
  <2>1. \A q \in Peers : sock'[q] = "idle" => conn[q].fd = NoFd /\ rx[q] = <<>>
    BY <1>6 DEF IInv, Queued
  <2>. QED
    BY <1>1, <1>2, <1>4, <1>9, <2>1 DEF Queued
<1>. QED
  BY <1>1, <1>5, <1>6, <1>10, PeerInv

(* The rest of what peers do leaves the queue as it is.                    *)
LEMMA SameQueue ==
    ASSUME IInv, conn' = conn, rx' = rx, backlog' = backlog,
           \A p \in Peers : sock'[p] = "idle" <=> sock[p] = "idle"
    PROVE  Queued'
<1>1. \A i \in 1 .. Len(backlog) : sock'[backlog[i]] # "idle"
  <2>1. ASSUME NEW i \in 1 .. Len(backlog) PROVE sock'[backlog[i]] # "idle"
    <3>1. backlog[i] \in Peers
      BY WireFacts, ElementOfSeq
    <3>. QED
      BY <3>1 DEF IInv, Queued
  <2>. QED
    BY <2>1
<1>. QED
  BY <1>1 DEF IInv, Queued

LEMMA PeerSendsInv ==
    ASSUME IInv, NEW p \in Peers, PeerSends(p)
    PROVE  IInv'
<1>1. PICK n \in sent[p] + 1 .. Len(stream[p]) : sent' = [sent EXCEPT ![p] = n]
  BY DEF PeerSends, Send
<1>2. /\ sock' = sock /\ stream' = stream /\ rcvd' = rcvd /\ rx' = rx
      /\ unread' = unread /\ files' = files /\ backlog' = backlog
      /\ UNCHANGED serverVars
  BY DEF PeerSends, Send
<1>3. stream[p] \in Seq(Unit) /\ Len(stream[p]) \in Nat /\ sent[p] \in Nat
      /\ rcvd[p] \in Nat /\ rcvd[p] <= sent[p]
  BY WireFacts, LenProperties
<1>4. n \in Nat /\ rcvd[p] <= n /\ n <= Len(stream[p])
  BY <1>1, <1>3
<1>5. WireTypeOK'
  BY <1>1, <1>2, <1>4, WireFacts DEF WireTypeOK
<1>6. Queued'
  BY <1>2, SameQueue DEF serverVars
<1>. QED
  BY <1>2, <1>5, <1>6, PeerInv DEF Broken, Space

LEMMA PeerReadsInv ==
    ASSUME IInv, NEW p \in Peers, PeerReads(p)
    PROVE  IInv'
<1>1. /\ sock' = sock /\ stream' = stream /\ sent' = sent /\ rcvd' = rcvd /\ rx' = rx
      /\ files' = files /\ backlog' = backlog /\ UNCHANGED serverVars
      /\ unread' = [unread EXCEPT ![p] = 0]
  BY DEF PeerReads, Read
<1>2. /\ unread' \in [Peers -> 0 .. SndBuf]
      /\ \A q \in Peers : Space(q) > 0 => SndBuf - unread'[q] > 0
  BY <1>1, WireFacts, WireAssumption DEF Space
<1>3. WireTypeOK'
  BY <1>1, <1>2, WireFacts DEF WireTypeOK
<1>4. Queued'
  BY <1>1, SameQueue DEF serverVars
<1>. QED
  BY <1>1, <1>2, <1>3, <1>4, PeerInv DEF Broken

LEMMA PeerLeavesInv ==
    ASSUME IInv, NEW p \in Peers, PeerLeaves(p)
    PROVE  IInv'
<1>1. /\ stream' = stream /\ sent' = sent /\ rcvd' = rcvd /\ rx' = rx
      /\ unread' = unread /\ files' = files /\ backlog' = backlog
      /\ UNCHANGED serverVars /\ sock[p] \in {"open", "fin"}
      /\ \E s \in {"fin", "rst", "pipe"} : sock' = [sock EXCEPT ![p] = s]
  BY DEF PeerLeaves, Leave
<1>2. /\ sock' \in [Peers -> {"idle", "open", "fin", "rst", "pipe"}]
      /\ \A q \in Peers : sock'[q] = "idle" <=> sock[q] = "idle"
      /\ \A q \in Peers : Broken(q) => sock'[q] \in {"rst", "pipe"}
  BY <1>1, WireFacts DEF Broken
<1>3. WireTypeOK'
  BY <1>1, <1>2, WireFacts DEF WireTypeOK
<1>4. Queued'
  BY <1>1, <1>2, SameQueue DEF serverVars
<1>. QED
  BY <1>1, <1>2, <1>3, <1>4, PeerInv DEF Space

LEMMA InitInv == Init => IInv
<1> SUFFICES ASSUME Init PROVE IInv
  OBVIOUS
<1>1. /\ sock = [p \in Peers |-> "idle"]
      /\ sent = [p \in Peers |-> 0] /\ rcvd = [p \in Peers |-> 0]
      /\ rx = [p \in Peers |-> <<>>] /\ unread = [p \in Peers |-> 0]
      /\ conn = [p \in Peers |-> NoConn] /\ conn_map = [fd \in Fds |-> NULL]
      /\ fdtab = [fd \in Fds |-> FreeFd] /\ interest = [p \in Peers |-> "none"]
      /\ batch = {} /\ accepting = FALSE /\ running = TRUE
  BY DEF Init, WireInit
<1>2. backlog \in Seq(Peers) /\ Len(backlog) = 0
  <2>1. backlog = <<>>
    BY DEF Init, WireInit
  <2>. QED
    BY <2>1, EmptySeq
<1>3. files \in [SafeNames -> File]
  BY DirectoriesAssumption DEF Init, WireInit
<1>4. stream \in [Peers -> Seq(Unit)]
  BY StreamsAssumption DEF Init, WireInit
<1>5. Fit(NoConn) /\ NoConn.fd = NoFd /\ NoConn.put_fd = NoFd /\ NoConn.get_fd = NoFd
  <2>1. Fit(NoConn)
    BY NewConnFits, SizeAssumption DEF NoConn, NoFd
  <2>. QED
    BY <2>1 DEF NoConn, NewConn
<1>6. FreeFd \in FdEntry /\ FreeFd.kind = "free"
  BY DEF FreeFd, FdEntry
<1>7. \A p \in Peers : Len(stream[p]) \in Nat
  BY <1>4, LenProperties
<1>8. rx \in [Peers -> Seq(Reply)]
  BY <1>1, EmptySeq
<1>9. unread \in [Peers -> 0 .. SndBuf]
  BY <1>1, WireAssumption
<1>10. WireTypeOK
  BY <1>1, <1>2, <1>3, <1>4, <1>7, <1>8, <1>9 DEF WireTypeOK
<1>11. TypeOK
  BY <1>1, <1>5, <1>6, <1>10 DEF TypeOK, Fit
<1>12. \A p \in Peers : BuffersFit(conn[p]) /\ ReplyFits(conn[p])
  BY <1>1, <1>5 DEF Fit
<1>13. TableFit(fdtab) /\ DescriptorsOwned
  BY <1>1, <1>5, <1>6 DEF TableFit, DescriptorsOwned, Connected
<1>14. EventsCurrent /\ Awaited
  BY <1>1 DEF EventsCurrent, Awaited
<1>15. Queued
  BY <1>1, <1>2, <1>5 DEF Queued
<1>16. Watched
  BY <1>1, <1>5 DEF Watched
<1>17. Replied
  <2>1. ASSUME NEW p \in Peers PROVE LogFits(rx[p]) /\ conn[p].fd = NoFd
    <3>1. rx[p] = <<>>
      BY <1>1
    <3>. QED
      BY <1>1, <1>5, <3>1, EmptySeq DEF LogFits
  <2>. QED
    BY <2>1 DEF Replied
<1>. QED
  BY <1>11, <1>12, <1>13, <1>14, <1>15, <1>16, <1>17 DEF IInv

LEMMA NextInv ==
    ASSUME IInv, [Next]_vars
    PROVE  IInv'
<1>1. CASE EpollWait
  BY <1>1, EpollWaitInv
<1>2. CASE EpollWaitFails
  BY <1>2, StopInv DEF EpollWaitFails
<1>3. CASE AcceptStart
  <2>1. /\ UNCHANGED <<wireVars, conn, conn_map, fdtab, interest, running>>
        /\ batch' \in SUBSET batch /\ accepting' \in BOOLEAN
    BY <1>3 DEF AcceptStart
  <2>. QED
    BY <2>1, FewerEventsInv
<1>4. CASE AcceptOne
  BY <1>4, AcceptOneInv
<1>5. CASE AcceptDone
  <2>1. /\ UNCHANGED <<wireVars, conn, conn_map, fdtab, interest, running>>
        /\ batch' \in SUBSET batch /\ accepting' \in BOOLEAN
    BY <1>5 DEF AcceptDone
  <2>. QED
    BY <2>1, FewerEventsInv
<1>6. ASSUME NEW e \in batch, Handle(e) PROVE IInv'
  BY <1>6, HandleInv
<1>7. ASSUME NEW e \in batch, KilledBySigpipe(e) PROVE IInv'
  BY <1>7, StopInv DEF KilledBySigpipe
<1>8. ASSUME NEW p \in Peers, Peer(p) PROVE IInv'
  BY <1>8, PeerConnectsInv, PeerSendsInv, PeerReadsInv, PeerLeavesInv DEF Peer
<1>9. CASE UNCHANGED vars
  <2>1. /\ UNCHANGED <<wireVars, conn, conn_map, fdtab, interest, running>>
        /\ batch' \in SUBSET batch /\ accepting' \in BOOLEAN
    BY <1>9, ServerFacts DEF vars, serverVars
  <2>. QED
    BY <2>1, FewerEventsInv
<1>. QED
  BY <1>1, <1>2, <1>3, <1>4, <1>5, <1>6, <1>7, <1>8, <1>9 DEF Next, Server

THEOREM Invariance == Spec => []IInv
<1>1. IInv /\ [Next]_vars => IInv'
  BY NextInv
<1>. QED
  BY <1>1, InitInv, PTL DEF Spec

(* The server's records, tables and events have their types.               *)
THEOREM TypeCorrect == Spec => []TypeOK
<1>1. IInv => TypeOK
  BY DEF IInv
<1>. QED
  BY <1>1, Invariance, PTL

(* A connection's buffers and descriptors are those its state works on.    *)
THEOREM BuffersMatch == Spec => []BuffersMatchState
<1>1. IInv => BuffersMatchState
  BY DEF IInv, BuffersMatchState
<1>. QED
  BY <1>1, Invariance, PTL

(* conn_map, the connections and the descriptor table agree, through every *)
(* accept, close, open and failure.                                        *)
THEOREM DescriptorsSafe == Spec => []DescriptorsOwned
<1>1. IInv => DescriptorsOwned
  BY DEF IInv
<1>. QED
  BY <1>1, Invariance, PTL

(* No event is handled on another connection than its own, in a state that *)
(* does not wait for it: run_server's batch is never stale, whatever the   *)
(* handlers of its earlier events close and accept.                        *)
THEOREM EventsSafe == Spec => []EventsCurrent
<1>1. IInv => EventsCurrent
  BY DEF IInv
<1>. QED
  BY <1>1, Invariance, PTL

LEMMA FramedFollows ==
    ASSUME IInv
    PROVE  RepliesFramed
<1> SUFFICES ASSUME NEW p \in Peers, NEW i \in DOMAIN rx[p]
             PROVE  /\ Len(rx[p][i].body) <= rx[p][i].length
                    /\ \/ i < Len(rx[p])
                       \/ p \in {q \in Peers : Connected(q) /\ conn[q].state \in Reading}
                       => Complete(rx[p][i])
  BY DEF RepliesFramed, Framed
<1>1. rx[p] \in Seq(Reply) /\ LogFits(rx[p])
  BY DEF IInv, TypeOK, WireTypeOK, Replied
<1>2. i \in 1 .. Len(rx[p]) /\ Len(rx[p]) \in Nat
  BY <1>1, LenProperties
<1>3. Len(rx[p][i].body) <= rx[p][i].length
      /\ (i < Len(rx[p]) => Complete(rx[p][i]))
  BY <1>1, <1>2 DEF LogFits
<1>4. ASSUME Connected(p), conn[p].state \in Reading, i = Len(rx[p])
      PROVE  Complete(rx[p][i])
  <2>1. Whole(rx[p])
    <3>1. conn[p].state # "WRITE_GET_FILE" /\ conn[p].out_sent = 0
      BY <1>4, ConnFits DEF Fit, BuffersFit, Reading
    <3>. QED
      BY <1>4, <3>1 DEF IInv, Replied, SentFits, Connected
  <2>2. rx[p] # <<>>
    BY <1>2, EmptySeq
  <2>. QED
    BY <1>4, <2>1, <2>2 DEF Whole
<1>. QED
  BY <1>2, <1>3, <1>4

(* Replies are sent whole, as long as their headers say, one after the     *)
(* other, however full the socket buffer is and whatever fails.            *)
THEOREM RepliesSafe == Spec => []RepliesFramed
<1>1. IInv => RepliesFramed
  BY FramedFollows
<1>. QED
  BY <1>1, Invariance, PTL
=============================================================================
