------------------------- MODULE EpollService_proofs -------------------------
(***************************************************************************)
(* What clients can rely on of EpollServer, for every number of peers, of  *)
(* descriptors and of names, every directory and every way of cutting up   *)
(* the streams: the replies answer the requests, and the files stored and  *)
(* served are those that were sent.                                        *)
(***************************************************************************)
EXTENDS EpollServer_proofs

-----------------------------------------------------------------------------
(* What the handlers do to the connection record, as far as the replies    *)
(* and the files are concerned.                                            *)

(* d has a reply queued, with nothing behind it.                           *)
Replies(d, cmd, status) ==
    /\ d.state = "WRITE_BUFFER" /\ d.out_sent = 0 /\ d.get_left = 0
    /\ d.out_buf[1].cmd = cmd /\ d.out_buf[1].status = status
    /\ (cmd = "LIST" /\ status = 0) \/ d.out_buf[1].body = <<>>

(* d has the header of a reply to GET queued, with the file behind it.     *)
Downloads(d, ft, name, size) ==
    /\ d.state = "WRITE_BUFFER" /\ d.out_sent = 0 /\ d.get_left = size
    /\ d.out_buf[1].cmd = "GET" /\ d.out_buf[1].status = 0
    /\ d.out_buf[1].length = size /\ d.out_buf[1].body = <<>>
    /\ ft[d.get_fd].name = name /\ ft[d.get_fd].off = 0

(* The connection is closed, or it has a new record and table.             *)
Gone(p) == conn'[p] = NoConn
Turns(p, d, ft) == conn'[p] = d /\ fdtab' = ft

LEMMA SettleTurns ==
    ASSUME IInv, NEW p \in Peers, NEW d, NEW ft, Settle(p, d, ft)
    PROVE  Gone(p) \/ Turns(p, d, ft)
BY ServerFacts DEF Settle, Keep, Drop, Gone, Turns

LEMMA DropGone ==
    ASSUME IInv, NEW p \in Peers, NEW d, NEW ft, Drop(p, d, ft)
    PROVE  Gone(p)
BY ServerFacts DEF Drop, Gone

LEMMA QueueReplyIs ==
    ASSUME NEW c \in Conn, c.get_left = 0, NEW cmd, NEW status, NEW body,
           (cmd = "LIST" /\ status = 0) \/ body = <<>>,
           NEW d, d = QueueReply(c, cmd, status, body)
    PROVE  /\ Replies(d, cmd, status) /\ d.pending_put_name = c.pending_put_name
           /\ d.close_after_write = c.close_after_write /\ d.out_buf[1].body = body
<1> DEFINE r == [cmd |-> cmd, status |-> status, length |-> Len(body), body |-> body]
<1>1. r.cmd = cmd /\ r.status = status /\ r.body = body
  OBVIOUS
<1>2. d = [c EXCEPT !.out_buf = <<r>>, !.out_sent = 0, !.state = "WRITE_BUFFER"]
  BY DEF QueueReply
<1> HIDE DEF r
<1>3. /\ d.state = "WRITE_BUFFER" /\ d.out_sent = 0 /\ d.get_left = c.get_left
      /\ d.out_buf = <<r>> /\ d.pending_put_name = c.pending_put_name
      /\ d.close_after_write = c.close_after_write
  BY <1>2 DEF Conn
<1>. QED
  BY <1>1, <1>3 DEF Replies

LEMMA FailIs ==
    ASSUME NEW c \in Conn, c.get_left = 0, NEW cmd, NEW d, d = Fail(c, cmd)
    PROVE  Replies(d, cmd, 1) /\ d.pending_put_name = c.pending_put_name
<1> DEFINE none == <<>>
           bad == 1
<1>1. d = QueueReply(c, cmd, bad, none) /\ none = <<>>
  BY DEF Fail
<1> HIDE DEF none, bad
<1>2. Replies(d, cmd, bad) /\ d.pending_put_name = c.pending_put_name
  BY <1>1, QueueReplyIs
<1>. QED
  BY <1>2 DEF bad

LEMMA RefuseIs ==
    ASSUME NEW c \in Conn, c.get_left = 0, NEW cmd, NEW d, d = Refuse(c, cmd)
    PROVE  /\ Replies(d, cmd, 1) /\ d.pending_put_name = c.pending_put_name
           /\ d.close_after_write
<1> DEFINE none == <<>>
           bad == 1
           e == Closing(c)
<1>1. d = QueueReply(e, cmd, bad, none) /\ none = <<>>
  BY DEF Refuse
<1>2. /\ e \in Conn /\ e.get_left = 0 /\ e.close_after_write
      /\ e.pending_put_name = c.pending_put_name
  BY DEF Closing, Conn
<1> HIDE DEF none, bad, e
<1>3. /\ Replies(d, cmd, bad) /\ d.pending_put_name = e.pending_put_name
      /\ d.close_after_write = e.close_after_write
  <2>1. /\ (cmd = "LIST" /\ bad = 0) \/ none = <<>>
        /\ e \in Conn /\ e.get_left = 0 /\ d = QueueReply(e, cmd, bad, none)
    BY <1>1, <1>2
  <2>. QED
    BY <2>1, QueueReplyIs
<1>. QED
  BY <1>2, <1>3 DEF bad

LEMMA StartGetIs ==
    ASSUME NEW c \in Conn, NEW fd, NEW size, NEW d, d = StartGet(c, fd, size),
           NEW ft, NEW name, ft[fd].name = name, ft[fd].off = 0
    PROVE  /\ Downloads(d, ft, name, size)
           /\ d.pending_put_name = c.pending_put_name
<1> DEFINE r == [cmd |-> "GET", status |-> 0, length |-> size, body |-> <<>>]
<1>1. r.cmd = "GET" /\ r.status = 0 /\ r.length = size /\ r.body = <<>>
  OBVIOUS
<1>2. d = [c EXCEPT !.out_buf = <<r>>, !.out_sent = 0, !.get_fd = fd,
                    !.get_left = size, !.state = "WRITE_BUFFER"]
  BY DEF StartGet
<1> HIDE DEF r
<1>3. /\ d.state = "WRITE_BUFFER" /\ d.out_sent = 0 /\ d.get_left = size
      /\ d.out_buf = <<r>> /\ d.get_fd = fd
      /\ d.pending_put_name = c.pending_put_name
  BY <1>2 DEF Conn
<1>. QED
  BY <1>1, <1>3 DEF Downloads

(* What handle_request makes of a request with the header h and the        *)
(* payload `units`.                                                        *)
Final(h, units) ==
    \/ h.cmd = "QUIT"
    \/ h.cmd = "LIST" /\ h.length # 0
    \/ h.cmd \in {"GET", "PUT"} /\ ~Named(units)

Requested(c, h, units, d, ft) ==
    \/ /\ \E status \in {0, 1} :
              /\ Replies(d, h.cmd, status) /\ (status = 0 => h.cmd \in {"LIST", "QUIT"})
              /\ status = 0 /\ h.cmd = "LIST" => d.out_buf[1].body \in Listings
       /\ d.pending_put_name = c.pending_put_name
       /\ h.cmd = "PUT" => ~Named(units)
       /\ Final(h, units) => d.close_after_write
    \/ /\ h.cmd = "GET" /\ Named(units)
       /\ Downloads(d, ft, NameOf(units), Len(files[NameOf(units)].data))
       /\ d.pending_put_name = c.pending_put_name
    \/ /\ h.cmd = "PUT" /\ Named(units)
       /\ d.state = "READ_HEADER" /\ d.header_buf = <<>>
       /\ d.pending_put_name = NameOf(units)

RequestedFrom(p, c, h, units) == Gone(p) \/ Requested(c, h, units, conn'[p], fdtab')

LEMMA FailRequested ==
    ASSUME IInv, NEW p \in Peers, NEW c, Parsed(p, c), NEW h, NEW units,
           h.cmd \in Cmds, h.cmd = "PUT" => ~Named(units),
           \/ Settle(p, Refuse(c, h.cmd), fdtab)
           \/ ~Final(h, units) /\ Settle(p, Fail(c, h.cmd), fdtab)
    PROVE  RequestedFrom(p, c, h, units)
<1>1. c \in Conn /\ c.get_left = 0
  BY DEF Parsed, Cleared
<1> DEFINE refused == Refuse(c, h.cmd)
           failed == Fail(c, h.cmd)
<1>2. CASE Settle(p, refused, fdtab)
  <2>1. /\ Replies(refused, h.cmd, 1) /\ refused.close_after_write
        /\ refused.pending_put_name = c.pending_put_name
    BY <1>1, RefuseIs
  <2> HIDE DEF refused
  <2>2. Requested(c, h, units, refused, fdtab)
    BY <2>1 DEF Requested
  <2>3. Gone(p) \/ Turns(p, refused, fdtab)
    BY <1>2, SettleTurns
  <2>. QED
    BY <2>2, <2>3 DEF RequestedFrom, Turns
<1>3. CASE ~Final(h, units) /\ Settle(p, failed, fdtab)
  <2>1. /\ Replies(failed, h.cmd, 1)
        /\ failed.pending_put_name = c.pending_put_name
    BY <1>1, FailIs
  <2> HIDE DEF failed
  <2>2. Requested(c, h, units, failed, fdtab)
    BY <1>3, <2>1 DEF Requested
  <2>3. Gone(p) \/ Turns(p, failed, fdtab)
    BY <1>3, SettleTurns
  <2>. QED
    BY <2>2, <2>3 DEF RequestedFrom, Turns
<1>. QED
  BY <1>2, <1>3

LEMMA RequestDoes ==
    ASSUME IInv, NEW p \in Peers, NEW c, Parsed(p, c), NEW h \in Header, NEW units,
           HandleRequest(p, c, h, units)
    PROVE  files' = files /\ RequestedFrom(p, c, h, units)
<1>1. c \in Conn /\ c.get_left = 0 /\ h.cmd \in Cmds
  BY DEF Parsed, Cleared, Header
<1>2. files' = files
  BY DEF HandleRequest, List, Get, PutName
<1>3. CASE h.cmd = "LIST" /\ List(p, c, h.length)
  <2>1. CASE Settle(p, Refuse(c, "LIST"), fdtab)
    BY <1>1, <1>2, <1>3, <2>1, FailRequested
  <2>2. CASE h.length = 0 /\ Settle(p, Fail(c, "LIST"), fdtab)
    <3>1. ~Final(h, units)
      BY <1>3, <2>2 DEF Final
    <3>. QED
      BY <1>1, <1>2, <1>3, <2>2, <3>1, FailRequested
  <2>3. CASE h.length = 0 /\ \E l \in Listings : Settle(p, QueueReply(c, "LIST", 0, l), fdtab)
    <3>1. PICK l \in Listings : Settle(p, QueueReply(c, "LIST", 0, l), fdtab)
      BY <2>3
    <3> DEFINE good == 0
               d == QueueReply(c, h.cmd, good, l)
    <3>2. good \in {0, 1} /\ (good = 0 => h.cmd \in {"LIST", "QUIT"})
      BY <1>3
    <3>3. Settle(p, d, fdtab)
      BY <1>3, <3>1
    <3> HIDE DEF good
    <3>8. h.cmd = "LIST" /\ good = 0
      BY <1>3 DEF good
    <3>4. /\ Replies(d, h.cmd, good) /\ d.pending_put_name = c.pending_put_name
          /\ d.out_buf[1].body = l
      BY <1>1, <3>8, QueueReplyIs
    <3> HIDE DEF d
    <3>5. h.cmd # "PUT" /\ ~Final(h, units)
      BY <1>3, <2>3 DEF Final
    <3>6. Requested(c, h, units, d, fdtab)
      BY <3>2, <3>4, <3>5 DEF Requested
    <3>7. Gone(p) \/ Turns(p, d, fdtab)
      BY <3>3, SettleTurns
    <3>. QED
      BY <1>2, <3>6, <3>7 DEF RequestedFrom, Turns
  <2>. QED
    BY <1>3, <2>1, <2>2, <2>3 DEF List
<1>4. CASE h.cmd = "GET" /\ Get(p, c, units)
  <2>1. CASE Settle(p, Refuse(c, "GET"), fdtab)
    BY <1>1, <1>2, <1>4, <2>1, FailRequested
  <2>2. CASE Named(units) /\ Settle(p, Fail(c, "GET"), fdtab)
    <3>1. ~Final(h, units)
      BY <1>4, <2>2 DEF Final
    <3>. QED
      BY <1>1, <1>2, <1>4, <2>2, <3>1, FailRequested
  <2>3. CASE Drop(p, c, fdtab)
    BY <1>2, <2>3, DropGone DEF RequestedFrom
  <2> DEFINE name == NameOf(units)
             low == LowestFree
             f == [kind |-> "get", peer |-> p, name |-> name, off |-> 0]
             size == Len(files[name].data)
             d == StartGet(c, low, size)
             ft == [fdtab EXCEPT ![low] = f]
  <2>4. CASE Named(units) /\ GetOpens(name) /\ Settle(p, d, ft)
    <3>1. low \in Fds /\ fdtab \in [Fds -> FdEntry]
      BY <2>4, LowestFreeType, ServerFacts DEF GetOpens
    <3>2. f.name = name /\ f.off = 0
      OBVIOUS
    <3> HIDE DEF f, low
    <3>3. ft[low] = f
      BY <3>1
    <3> HIDE DEF ft, size, name
    <3>4. Downloads(d, ft, name, size) /\ d.pending_put_name = c.pending_put_name
      BY <1>1, <3>2, <3>3, StartGetIs
    <3> HIDE DEF d
    <3>5. Requested(c, h, units, d, ft)
      BY <1>4, <2>4, <3>4 DEF Requested, name, size
    <3>6. Gone(p) \/ Turns(p, d, ft)
      BY <2>4, SettleTurns
    <3>. QED
      BY <1>2, <3>5, <3>6 DEF RequestedFrom, Turns
  <2>. QED
    BY <1>4, <2>1, <2>2, <2>3, <2>4 DEF Get
<1>5. CASE h.cmd = "PUT" /\ PutName(p, c, units)
  <2>1. CASE ~Named(units) /\ Settle(p, Refuse(c, "PUT"), fdtab)
    BY <1>1, <1>2, <1>5, <2>1, FailRequested
  <2> DEFINE name == NameOf(units)
             d == [c EXCEPT !.pending_put_name = name, !.state = "READ_HEADER"]
  <2>2. CASE Named(units) /\ Settle(p, d, fdtab)
    <3>1. d.pending_put_name = name /\ d.state = "READ_HEADER" /\ d.header_buf = <<>>
      BY <1>1 DEF Conn, Parsed, Cleared
    <3> HIDE DEF d
    <3>2. Requested(c, h, units, d, fdtab)
      BY <1>5, <2>2, <3>1 DEF Requested
    <3>3. Gone(p) \/ Turns(p, d, fdtab)
      BY <2>2, SettleTurns
    <3>. QED
      BY <1>2, <3>2, <3>3 DEF RequestedFrom, Turns
  <2>. QED
    BY <1>5, <2>1, <2>2 DEF PutName
<1>6. CASE h.cmd = "QUIT" /\ Settle(p, QueueReply(Closing(c), "QUIT", 0, <<>>), fdtab)
  <2> DEFINE good == 0
             none == <<>>
             e == Closing(c)
             d == QueueReply(e, h.cmd, good, none)
  <2>1. /\ good \in {0, 1} /\ (good = 0 => h.cmd \in {"LIST", "QUIT"})
        /\ none = <<>> /\ h.cmd # "LIST"
    BY <1>6
  <2>2. Settle(p, d, fdtab)
    BY <1>6
  <2>3. /\ e \in Conn /\ e.get_left = 0 /\ e.close_after_write
        /\ e.pending_put_name = c.pending_put_name
    BY <1>1 DEF Closing, Conn
  <2> HIDE DEF good, none, e
  <2>4. /\ Replies(d, h.cmd, good) /\ d.pending_put_name = e.pending_put_name
        /\ d.close_after_write = e.close_after_write
    <3>1. /\ (h.cmd = "LIST" /\ good = 0) \/ none = <<>>
          /\ e \in Conn /\ e.get_left = 0
      BY <2>1, <2>3
    <3>. QED
      BY <3>1, QueueReplyIs
  <2> HIDE DEF d
  <2>5. Requested(c, h, units, d, fdtab)
    BY <1>6, <2>1, <2>3, <2>4 DEF Requested
  <2>6. Gone(p) \/ Turns(p, d, fdtab)
    BY <2>2, SettleTurns
  <2>. QED
    BY <1>2, <2>5, <2>6 DEF RequestedFrom, Turns
<1>7. CASE h.cmd = "OTHER" /\ Settle(p, Fail(c, "OTHER"), fdtab)
  <2>1. ~Final(h, units)
    BY <1>7 DEF Final
  <2>. QED
    BY <1>1, <1>2, <1>7, <2>1, FailRequested
<1>. QED
  BY <1>3, <1>4, <1>5, <1>6, <1>7 DEF HandleRequest

(* What handle_read_header makes of the second message of a PUT.           *)
Truncates(name) == files' = [files EXCEPT ![name] = Truncated]

Uploading(d, ft, name, left, off) ==
    /\ d.state = "READ_PUT_STREAM" /\ d.put_left = left /\ d.pending_put_name = name
    /\ ft[d.put_fd].name = name /\ ft[d.put_fd].off = off

OpenedFrom(p, name, len) ==
    \/ Gone(p) /\ (files' = files \/ Truncates(name))
    \/ /\ files' = files
       /\ Replies(conn'[p], "PUT", 1) /\ conn'[p].pending_put_name = NULL
    \/ /\ Truncates(name) /\ len = 0
       /\ Replies(conn'[p], "PUT", 0) /\ conn'[p].pending_put_name = NULL
    \/ /\ Truncates(name) /\ len > 0
       /\ Uploading(conn'[p], fdtab', name, len, 0)

LEMMA OpenPutDoes ==
    ASSUME IInv, NEW p \in Peers, NEW c, Parsed(p, c), NEW len \in Nat,
           OpenPut(p, c, len)
    PROVE  OpenedFrom(p, c.pending_put_name, len)
<1> DEFINE name == c.pending_put_name
           low == LowestFree
           put == "PUT"
           none == <<>>
           good == 0
           opened == [c EXCEPT !.state = "READ_PUT_STREAM", !.put_left = len,
                               !.put_fd = low]
           f == [kind |-> "put", peer |-> p, name |-> name, off |-> good]
           ft == [fdtab EXCEPT ![low] = f]
           unopened == [c EXCEPT !.put_left = len, !.pending_put_name = NULL]
<1>1. c \in Conn /\ c.get_left = 0 /\ fdtab \in [Fds -> FdEntry]
  BY ServerFacts DEF Parsed, Cleared
<1>2. CASE PutOpens(name) /\ Truncates(name) /\ len = 0
           /\ Settle(p, QueueReply(PutDone(opened), put, good, none), fdtab)
  <2> DEFINE e == PutDone(opened)
             d == QueueReply(e, put, good, none)
  <2>1. e \in Conn /\ e.get_left = 0 /\ e.pending_put_name = NULL
    <3>1. /\ e = [c EXCEPT !.state = "READ_PUT_STREAM", !.put_left = len,
                           !.put_fd = NoFd, !.pending_put_name = NULL]
      BY <1>1 DEF PutDone, Conn
    <3>2. NoFd \in 0 .. FdLimit
      BY SizeAssumption DEF NoFd
    <3>3. len \in Nat
      OBVIOUS
    <3> HIDE DEF e
    <3>4. e \in Conn
      BY <1>1, <3>1, <3>2, <3>3 DEF Conn, Reading
    <3>. QED
      BY <1>1, <3>1, <3>4 DEF Conn
  <2>2. Settle(p, d, fdtab)
    BY <1>2
  <2>5. none = <<>>
    OBVIOUS
  <2> HIDE DEF e, good, none, put
  <2>3. Replies(d, put, good) /\ d.pending_put_name = NULL
    BY <2>1, <2>5, QueueReplyIs
  <2> HIDE DEF d
  <2>4. Gone(p) \/ Turns(p, d, fdtab)
    BY <2>2, SettleTurns
  <2>. QED
    BY <1>2, <2>3, <2>4 DEF OpenedFrom, Turns, good, put
<1>3. CASE PutOpens(name) /\ Truncates(name) /\ len > 0 /\ Settle(p, opened, ft)
  <2>1. low \in Fds
    BY <1>3, LowestFreeType DEF PutOpens
  <2>2. f.name = name /\ f.off = good
    OBVIOUS
  <2> HIDE DEF f, low
  <2>3. ft[low] = f
    BY <1>1, <2>1
  <2>4. /\ opened.state = "READ_PUT_STREAM" /\ opened.put_left = len
        /\ opened.put_fd = low /\ opened.pending_put_name = name
    BY <1>1 DEF Conn
  <2> HIDE DEF ft, opened, good
  <2>5. Uploading(opened, ft, name, len, good)
    BY <2>2, <2>3, <2>4 DEF Uploading
  <2>6. Gone(p) \/ Turns(p, opened, ft)
    BY <1>3, SettleTurns
  <2>. QED
    BY <1>3, <2>5, <2>6 DEF OpenedFrom, Turns, good
<1>4. CASE files' = files /\ Settle(p, Fail(unopened, put), fdtab)
  <2> DEFINE d == Fail(unopened, put)
  <2>1. /\ unopened \in Conn /\ unopened.get_left = 0
        /\ unopened.pending_put_name = NULL
    BY <1>1 DEF Conn
  <2>2. Settle(p, d, fdtab)
    BY <1>4
  <2> HIDE DEF unopened, put
  <2>3. Replies(d, put, 1) /\ d.pending_put_name = NULL
    BY <2>1, FailIs
  <2> HIDE DEF d
  <2>4. Gone(p) \/ Turns(p, d, fdtab)
    BY <2>2, SettleTurns
  <2>. QED
    BY <1>4, <2>3, <2>4 DEF OpenedFrom, Turns, put
<1>. QED
  BY <1>2, <1>3, <1>4 DEF OpenPut, Truncates

(* What handle_read_header makes of a whole header.                        *)
RefusedFrom(p, c, cmd) ==
    \/ Gone(p)
    \/ Replies(conn'[p], cmd, 1) /\ conn'[p].close_after_write

Expects(c, h, d) ==
    /\ d.state = "READ_PAYLOAD" /\ d.payload_len = h.length /\ d.payload = <<>>
    /\ d.cur_header = c.cur_header /\ d.pending_put_name = c.pending_put_name

HeaderDone(p, c, h) ==
    \/ /\ c.pending_put_name # NULL /\ h.cmd # "PUT"
       /\ files' = files /\ RefusedFrom(p, c, "PUT")
    \/ /\ c.pending_put_name # NULL /\ h.cmd = "PUT"
       /\ OpenedFrom(p, c.pending_put_name, h.length)
    \/ /\ c.pending_put_name = NULL /\ files' = files
       /\ \/ h.length = 0 /\ RequestedFrom(p, c, h, <<>>)
          \/ TooLong(h) /\ RefusedFrom(p, c, h.cmd)
          \/ h.length > 0 /\ ~TooLong(h) /\ (Gone(p) \/ Expects(c, h, conn'[p]))

LEMMA RefuseDoes ==
    ASSUME IInv, NEW p \in Peers, NEW c, Parsed(p, c), NEW cmd,
           Settle(p, Refuse(c, cmd), fdtab)
    PROVE  RefusedFrom(p, c, cmd)
<1> DEFINE d == Refuse(c, cmd)
<1>1. c \in Conn /\ c.get_left = 0
  BY DEF Parsed, Cleared
<1>2. Replies(d, cmd, 1) /\ d.close_after_write
  BY <1>1, RefuseIs
<1> HIDE DEF d
<1>3. Gone(p) \/ Turns(p, d, fdtab)
  BY SettleTurns DEF d
<1>. QED
  BY <1>2, <1>3 DEF RefusedFrom, Turns

LEMMA HeaderReadDoes ==
    ASSUME IInv, NEW p \in Peers, NEW c, Parsed(p, c), NEW h \in Header,
           HeaderRead(p, c, h)
    PROVE  HeaderDone(p, c, h)
<1>1. c \in Conn /\ h.length \in Nat /\ c.payload = <<>>
  BY DEF Parsed, Cleared, Header
<1>2. CASE /\ c.pending_put_name # NULL /\ h.cmd # "PUT" /\ files' = files
           /\ Settle(p, Refuse(c, "PUT"), fdtab)
  BY <1>2, RefuseDoes DEF HeaderDone
<1>3. CASE c.pending_put_name # NULL /\ h.cmd = "PUT" /\ OpenPut(p, c, h.length)
  BY <1>1, <1>3, OpenPutDoes DEF HeaderDone
<1>4. CASE c.pending_put_name = NULL /\ h.length = 0 /\ HandleRequest(p, c, h, <<>>)
  <2> DEFINE none == <<>>
  <2> HIDE DEF none
  <2>1. HandleRequest(p, c, h, none)
    BY <1>4 DEF none
  <2>2. files' = files /\ RequestedFrom(p, c, h, none)
    BY <2>1, RequestDoes
  <2>. QED
    BY <1>4, <2>2 DEF HeaderDone, none
<1>5. CASE /\ c.pending_put_name = NULL /\ TooLong(h) /\ files' = files
           /\ Settle(p, Refuse(c, h.cmd), fdtab)
  BY <1>5, RefuseDoes DEF HeaderDone
<1> DEFINE d == [c EXCEPT !.payload_len = h.length, !.state = "READ_PAYLOAD"]
<1>6. CASE /\ c.pending_put_name = NULL /\ h.length > 0 /\ ~TooLong(h)
           /\ files' = files /\ Settle(p, d, fdtab)
  <2>1. Expects(c, h, d)
    BY <1>1 DEF Expects, Conn
  <2> HIDE DEF d
  <2>2. Gone(p) \/ Turns(p, d, fdtab)
    BY <1>6, SettleTurns
  <2>. QED
    BY <1>6, <2>1, <2>2 DEF HeaderDone, Turns
<1>. QED
  BY <1>2, <1>3, <1>4, <1>5, <1>6 DEF HeaderRead

-----------------------------------------------------------------------------
(* Where a connection is in its stream.                                    *)

AskedIn(units) == RequestsOf(units, Refused, Quitting)
Owes(units, n, i, name) == OwesFrom(units, Refused, Quitting, n, i, name)

(* After n replies the units from i on are to be answered, unless they do  *)
(* not begin with a header: then nothing is answered any more.             *)
Due(units, n, i, name) == HeaderAt(units, i) => Owes(units, n, i, name)

AtHeader(c, units, n, i, got) ==
    /\ i >= 1 /\ c.header_buf = SubSeq(units, i, got)
    /\ Due(units, n, i, c.pending_put_name)

AtPayload(c, units, n, i, got) ==
    /\ Owes(units, n, i, NULL) /\ HeaderAt(units, i) /\ units[i].head \notin Refused
    /\ c.cur_header = units[i].head /\ c.payload_len = units[i].head.length
    /\ c.payload = SubSeq(units, i + HdrLen, got) /\ c.pending_put_name = NULL

AtUpload(c, f, units, n, i) ==
    /\ Owes(units, n, i, c.pending_put_name) /\ HeaderAt(units, i)
    /\ units[i].head.cmd = "PUT" /\ units[i].head.length = f.off + c.put_left

(* The m-th request is being answered, by the file f if by any.            *)
AtReply(c, f, units, m, got) ==
    /\ 0 < m /\ m <= Len(AskedIn(units)) /\ AskedIn(units)[m].cmd = c.out_buf[1].cmd
    /\ ~c.close_after_write => Due(units, m, got + 1, c.pending_put_name)
    /\ c.get_left > 0 => AskedIn(units)[m].cmd = "GET" /\ AskedIn(units)[m].name = f.name

AtFile(c, f, units, n, got) ==
    /\ 0 < n /\ Due(units, n, got + 1, c.pending_put_name)
    /\ AskedIn(units)[n].cmd = "GET" /\ AskedIn(units)[n].name = f.name

(* n replies were begun and `got` units received.                          *)
Following(c, ft, units, n, got) ==
    /\ c.state = "READ_HEADER" =>
           AtHeader(c, units, n, got + 1 - Len(c.header_buf), got)
    /\ c.state = "READ_PAYLOAD" =>
           AtPayload(c, units, n, got + 1 - Len(c.payload) - HdrLen, got)
    /\ c.state = "READ_PUT_STREAM" =>
           AtUpload(c, ft[c.put_fd], units, n, got + 1 - HdrLen - ft[c.put_fd].off)
    /\ c.state = "WRITE_BUFFER" =>
           AtReply(c, ft[c.get_fd], units, IF c.out_sent = 0 THEN n + 1 ELSE n, got)
    /\ c.state = "WRITE_GET_FILE" => AtFile(c, ft[c.get_fd], units, n, got)

Follows(p) ==
    /\ PlainUploads(stream[p])
    /\ InTurn(rx[p], AskedIn(stream[p]))
    /\ Connected(p) => Following(conn[p], fdtab, stream[p], Len(rx[p]), rcvd[p])
    /\ sock[p] = "idle" \/ p \in Elems(backlog) => rcvd[p] = 0

AllFollow == \A p \in Peers : Follows(p)

-----------------------------------------------------------------------------
(* What was received.                                                      *)

(* Units i to got and the units that follow them up to upto make one run.  *)
Joins(units, i, got, upto) ==
    /\ SubSeq(units, i, got) \o SubSeq(units, got + 1, upto) = SubSeq(units, i, upto)
    /\ SubSeq(units, i, upto) \in Seq(Unit)
    /\ Len(SubSeq(units, i, upto)) = upto + 1 - i
    /\ \A k \in 1 .. upto + 1 - i : SubSeq(units, i, upto)[k] = units[i + k - 1]

LEMMA SubSeqJoin ==
    ASSUME NEW units \in Seq(Unit), NEW i \in Nat, NEW got \in Nat, NEW upto \in Nat,
           i >= 1, i <= got + 1, got <= upto, upto <= Len(units)
    PROVE  Joins(units, i, got, upto)
<1>1. Len(units) \in Nat
  BY LenProperties
<1>2. i \in 1 .. Len(units) + 1 /\ got \in i - 1 .. Len(units) /\ upto \in got .. Len(units)
  BY <1>1
<1>3. SubSeq(units, i, got) \o SubSeq(units, got + 1, upto) = SubSeq(units, i, upto)
  BY <1>2, ConcatAdjacentSubSeq
<1>4. \A k \in i .. upto : units[k] \in Unit
  <2>1. \A k \in i .. upto : k \in 1 .. Len(units)
    BY <1>1
  <2>. QED
    BY <2>1, ElementOfSeq
<1>5. /\ SubSeq(units, i, upto) \in Seq(Unit)
      /\ Len(SubSeq(units, i, upto)) = IF i <= upto THEN upto - i + 1 ELSE 0
      /\ \A k \in 1 .. upto - i + 1 : SubSeq(units, i, upto)[k] = units[i + k - 1]
  BY <1>4, SubSeqProperties
<1>6. upto - i + 1 = upto + 1 - i /\ (~(i <= upto) => upto + 1 - i = 0)
  OBVIOUS
<1>. QED
  BY <1>3, <1>5, <1>6 DEF Joins

LEMMA TakenUnits ==
    ASSUME IInv, NEW p \in Peers, NEW n \in Nat, Take(p, n)
    PROVE  /\ rcvd'[p] \in Nat /\ rcvd[p] \in Nat
           /\ rcvd[p] <= rcvd'[p] /\ rcvd'[p] <= rcvd[p] + n
           /\ rcvd'[p] <= Len(stream[p])
           /\ Received(p, n) = SubSeq(stream[p], rcvd[p] + 1, rcvd'[p])
           /\ \A q \in Peers \ {p} : rcvd'[q] = rcvd[q]
<1>1. Got(p, n) \in Nat /\ Got(p, n) <= n /\ rcvd'[p] <= sent[p]
  BY TakeType
<1>2. rcvd \in [Peers -> Nat] /\ sent[p] \in Nat /\ sent[p] <= Len(stream[p])
      /\ Len(stream[p]) \in Nat
  BY WireFacts, LenProperties
<1>3. rcvd'[p] = rcvd[p] + Got(p, n) /\ \A q \in Peers \ {p} : rcvd'[q] = rcvd[q]
  BY <1>2 DEF Take
<1>4. Received(p, n) = SubSeq(stream[p], rcvd[p] + 1, rcvd'[p])
  BY <1>3 DEF Received
<1>. QED
  BY <1>1, <1>2, <1>3, <1>4

(* What handle_read_header does.                                           *)
HeaderKept(c, units, d) ==
    /\ d.state = "READ_HEADER" /\ d.header_buf = units
    /\ d.pending_put_name = c.pending_put_name

HeaderTaken(p, c, h) ==
    \E e : /\ Parsed(p, e) /\ e.cur_header = h
           /\ e.pending_put_name = c.pending_put_name /\ HeaderDone(p, e, h)

LEMMA ReadHeaderDoes ==
    ASSUME IInv, NEW p \in Peers, conn[p].state = "READ_HEADER", HandleReadHeader(p),
           NEW need, need = HdrLen - Len(conn[p].header_buf),
           NEW units, units = conn[p].header_buf \o Received(p, need)
    PROVE  /\ need \in Nat /\ Take(p, need) /\ rx' = rx
           /\ \/ Gone(p) /\ files' = files
              \/ HeaderKept(conn[p], units, conn'[p]) /\ files' = files
              \/ /\ Len(units) = HdrLen /\ IsHeader(units)
                 /\ units[1].head \in Header => HeaderTaken(p, conn[p], units[1].head)
<1> DEFINE c == conn[p]
           h == units[1].head
<1>1. /\ c \in Conn /\ Fit(c) /\ Len(c.header_buf) < HdrLen
      /\ Len(c.header_buf) \in Nat
  BY ConnFits, LenProperties DEF Fit, BuffersFit, Conn
<1>2. need \in Nat
  BY <1>1, WireAssumption
<1>3. Take(p, need) /\ rx' = rx
  BY DEF HandleReadHeader
<1>4. CASE files' = files /\ Drop(p, c, fdtab)
  BY <1>2, <1>3, <1>4, DropGone
<1>5. CASE files' = files /\ Settle(p, [c EXCEPT !.header_buf = units], fdtab)
  <2> DEFINE d == [c EXCEPT !.header_buf = units]
  <2>1. HeaderKept(c, units, d)
    BY <1>1 DEF HeaderKept, Conn
  <2>2. Settle(p, d, fdtab)
    BY <1>5
  <2> HIDE DEF d
  <2>3. Gone(p) \/ Turns(p, d, fdtab)
    BY <2>2, SettleTurns
  <2>. QED
    BY <1>2, <1>3, <1>5, <2>1, <2>3 DEF Turns
<1>6. CASE /\ Len(units) = HdrLen /\ IsHeader(units)
           /\ HeaderRead(p, [c EXCEPT !.header_buf = <<>>, !.cur_header = h], h)
  <2> SUFFICES ASSUME h \in Header PROVE HeaderTaken(p, c, h)
    BY <1>2, <1>3, <1>6
  <2> DEFINE e == [c EXCEPT !.header_buf = <<>>, !.cur_header = h]
  <2> HIDE DEF h
  <2>1. e \in Conn
    <3>1. <<>> \in Seq(Unit)
      OBVIOUS
    <3>. QED
      BY <1>1, <3>1 DEF Conn
  <2>2. /\ e.header_buf = <<>> /\ e.payload_len = c.payload_len
        /\ e.payload = c.payload /\ e.put_fd = c.put_fd
        /\ e.get_left = c.get_left /\ e.out_buf = c.out_buf
        /\ e.out_sent = c.out_sent /\ e.close_after_write = c.close_after_write
        /\ e.fd = c.fd /\ e.get_fd = c.get_fd
        /\ e.cur_header = h /\ e.pending_put_name = c.pending_put_name
    BY <1>1 DEF Conn
  <2>3. HeaderRead(p, e, h)
    BY <1>6 DEF h
  <2> HIDE DEF e
  <2>4. Parsed(p, e)
    BY <1>1, <2>1, <2>2
       DEF Parsed, Cleared, Fit, BuffersFit, Conn, Reading, Writing, NoFd
  <2>5. HeaderDone(p, e, h)
    BY <2>3, <2>4, HeaderReadDoes
  <2>. QED
    BY <2>2, <2>4, <2>5 DEF HeaderTaken
<1>. QED
  BY <1>4, <1>5, <1>6 DEF HandleReadHeader

(* What handle_read_payload does.                                          *)
PayloadKept(c, units, d) ==
    /\ d.state = "READ_PAYLOAD" /\ d.payload = units
    /\ d.payload_len = c.payload_len /\ d.cur_header = c.cur_header
    /\ d.pending_put_name = c.pending_put_name

PayloadTaken(p, c, units) ==
    \E e : /\ Parsed(p, e) /\ e.pending_put_name = c.pending_put_name
           /\ RequestedFrom(p, e, c.cur_header, units)

LEMMA ReadPayloadDoes ==
    ASSUME IInv, NEW p \in Peers, conn[p].state = "READ_PAYLOAD", HandleReadPayload(p),
           NEW need, need = conn[p].payload_len - Len(conn[p].payload),
           NEW units, units = conn[p].payload \o Received(p, need)
    PROVE  /\ need \in Nat /\ Take(p, need) /\ rx' = rx /\ files' = files
           /\ \/ Gone(p)
              \/ PayloadKept(conn[p], units, conn'[p])
              \/ /\ Len(units) = conn[p].payload_len
                 /\ PayloadTaken(p, conn[p], units)
<1> DEFINE c == conn[p]
           h == c.cur_header
<1>1. /\ c \in Conn /\ Fit(c) /\ Len(c.payload) < c.payload_len
      /\ Len(c.payload) \in Nat /\ c.payload_len \in Nat /\ h \in Header
  BY ConnFits, LenProperties DEF Fit, BuffersFit, Conn
<1>2. need \in Nat
  BY <1>1
<1>3. Take(p, need) /\ rx' = rx
  BY DEF HandleReadPayload
<1>4. CASE files' = files /\ Drop(p, c, fdtab)
  BY <1>2, <1>3, <1>4, DropGone
<1>5. CASE files' = files /\ Settle(p, [c EXCEPT !.payload = units], fdtab)
  <2> DEFINE d == [c EXCEPT !.payload = units]
  <2>1. PayloadKept(c, units, d)
    BY <1>1 DEF PayloadKept, Conn
  <2>2. Settle(p, d, fdtab)
    BY <1>5
  <2> HIDE DEF d
  <2>3. Gone(p) \/ Turns(p, d, fdtab)
    BY <2>2, SettleTurns
  <2>. QED
    BY <1>2, <1>3, <1>5, <2>1, <2>3 DEF Turns
<1>6. CASE /\ Len(units) = c.payload_len
           /\ HandleRequest(p, [c EXCEPT !.payload = <<>>, !.payload_len = 0], h, units)
  <2> DEFINE e == [c EXCEPT !.payload = <<>>, !.payload_len = 0]
  <2>1. e \in Conn
    <3>1. <<>> \in Seq(Unit)
      OBVIOUS
    <3>. QED
      BY <1>1, <3>1 DEF Conn
  <2>2. /\ e.header_buf = c.header_buf /\ e.payload_len = 0 /\ e.payload = <<>>
        /\ e.put_fd = c.put_fd /\ e.get_left = c.get_left /\ e.out_buf = c.out_buf
        /\ e.out_sent = c.out_sent /\ e.close_after_write = c.close_after_write
        /\ e.fd = c.fd /\ e.get_fd = c.get_fd
        /\ e.pending_put_name = c.pending_put_name
    BY <1>1 DEF Conn
  <2>3. HandleRequest(p, e, h, units)
    BY <1>6
  <2> HIDE DEF e, h
  <2>4. Parsed(p, e)
    BY <1>1, <2>1, <2>2
       DEF Parsed, Cleared, Fit, BuffersFit, Conn, Reading, Writing, NoFd
  <2>5. files' = files /\ RequestedFrom(p, e, h, units)
    BY <1>1, <2>3, <2>4, RequestDoes
  <2>. QED
    BY <1>2, <1>3, <1>6, <2>2, <2>4, <2>5 DEF PayloadTaken, h
<1>. QED
  BY <1>4, <1>5, <1>6 DEF HandleReadPayload

(* What handle_put_stream does: the connection goes down when the peer has *)
(* ended or a write failed half-way.                                       *)
Stores(p, w) ==
    files' = Written(fdtab[conn[p].put_fd].name, fdtab[conn[p].put_fd].off,
                     Bytes(Received(p, w)))

LEMMA PutStreamDoes ==
    ASSUME IInv, NEW p \in Peers, conn[p].state = "READ_PUT_STREAM", HandlePutStream(p),
           NEW c, c = conn[p], NEW n, n = Got(p, c.put_left)
    PROVE  /\ c.put_left \in Nat /\ n \in Nat /\ n <= c.put_left
           /\ Take(p, c.put_left) /\ rx' = rx
           /\ \/ Gone(p) /\ \E w \in 0 .. n : Stores(p, w)
              \/ /\ n = c.put_left /\ Stores(p, n)
                 /\ Replies(conn'[p], "PUT", 0) /\ conn'[p].pending_put_name = NULL
              \/ /\ n < c.put_left /\ Stores(p, n)
                 /\ Uploading(conn'[p], fdtab', c.pending_put_name, c.put_left - n,
                              fdtab[c.put_fd].off + n)
<1> DEFINE f == fdtab[c.put_fd]
           left == [c EXCEPT !.put_left = @ - n]
           moved == [f EXCEPT !.off = @ + n]
           none == <<>>
           put == "PUT"
           good == 0
<1>1. /\ c \in Conn /\ Fit(c) /\ c.put_left \in Nat /\ c.put_fd # NoFd
      /\ c.put_fd \in Fds /\ fdtab \in [Fds -> FdEntry] /\ f.name = c.pending_put_name
  BY ConnFits, OpenIsFd DEF Fit, BuffersFit, Conn, IInv, TypeOK, DescriptorsOwned
<1>2. f \in FdEntry /\ f.off \in Nat
  BY <1>1 DEF FdEntry
<1>3. n \in Nat /\ n <= c.put_left
  BY <1>1, TakeType
<1>4. Take(p, c.put_left) /\ rx' = rx
  BY DEF HandlePutStream
<1>5. CASE Drop(p, c, fdtab) /\ \E w \in 0 .. n : Stores(p, w)
  BY <1>1, <1>3, <1>4, <1>5, DropGone
<1>6. CASE /\ n = c.put_left /\ Stores(p, n)
           /\ Settle(p, QueueReply(PutDone(left), put, good, none),
                     [fdtab EXCEPT ![c.put_fd] = FreeFd])
  <2> DEFINE m == c.put_left - n
             e == [c EXCEPT !.put_left = m, !.put_fd = NoFd, !.pending_put_name = NULL]
             ft == [fdtab EXCEPT ![c.put_fd] = FreeFd]
             d == QueueReply(e, put, good, none)
  <2>1. e = PutDone(left)
    BY <1>1 DEF PutDone, Conn
  <2>2. Settle(p, d, ft)
    BY <1>6, <2>1
  <2>3. m \in Nat /\ NoFd \in 0 .. FdLimit
    BY <1>1, <1>3, SizeAssumption DEF NoFd
  <2> HIDE DEF m, left
  <2>4. e \in Conn /\ e.get_left = 0 /\ e.pending_put_name = NULL
    <3>1. e \in Conn /\ e.get_left = c.get_left /\ e.pending_put_name = NULL
      BY <1>1, <2>3 DEF Conn
    <3>2. ~(c.get_left > 0)
      BY <1>1 DEF Fit, BuffersFit, Reading, Writing
    <3>3. c.get_left = 0
      BY <1>1, <3>2 DEF Conn
    <3>. QED
      BY <3>1, <3>3
  <2>8. none = <<>>
    OBVIOUS
  <2> HIDE DEF e, good, none, put, ft
  <2>5. Replies(d, put, good) /\ d.pending_put_name = NULL
    BY <2>4, <2>8, QueueReplyIs
  <2> HIDE DEF d
  <2>6. Gone(p) \/ Turns(p, d, ft)
    BY <2>2, SettleTurns
  <2>7. n \in 0 .. n
    BY <1>3
  <2>. QED
    BY <1>1, <1>3, <1>4, <1>6, <2>5, <2>6, <2>7 DEF Turns, good, put
<1>7. CASE /\ n < c.put_left /\ Stores(p, n)
           /\ Settle(p, left, [fdtab EXCEPT ![c.put_fd].off = @ + n])
  <2> DEFINE m == c.put_left - n
             off == f.off + n
             ft == [fdtab EXCEPT ![c.put_fd] = moved]
  <2>1. left = [c EXCEPT !.put_left = m]
    BY <1>1 DEF Conn
  <2>2. [fdtab EXCEPT ![c.put_fd].off = @ + n] = ft
    BY <1>1
  <2>3. Settle(p, left, ft)
    BY <1>7, <2>2
  <2>4. moved.off = off /\ moved.name = f.name
    BY <1>2 DEF FdEntry
  <2> HIDE DEF moved
  <2>5. ft[c.put_fd] = moved
    BY <1>1
  <2> HIDE DEF m, left, off, ft
  <2>6. /\ left.state = "READ_PUT_STREAM" /\ left.put_left = m
        /\ left.pending_put_name = c.pending_put_name /\ left.put_fd = c.put_fd
    BY <1>1, <2>1 DEF Conn
  <2>7. Uploading(left, ft, c.pending_put_name, m, off)
    BY <1>1, <2>4, <2>5, <2>6 DEF Uploading
  <2>8. Gone(p) \/ Turns(p, left, ft)
    BY <2>3, SettleTurns
  <2>9. n \in 0 .. n
    BY <1>3
  <2>. QED
    BY <1>1, <1>3, <1>4, <1>7, <2>7, <2>8, <2>9 DEF Turns, m, off
<1>8. n \in 0 .. n /\ \A w \in 0 .. n - 1 : w \in 0 .. n
  BY <1>3
<1>. QED
  BY <1>5, <1>6, <1>7, <1>8 DEF HandlePutStream, Stores

(* What handle_write_buffer does.                                          *)
HeaderNext(c, d) ==
    /\ d.state = "READ_HEADER" /\ d.header_buf = <<>>
    /\ d.pending_put_name = c.pending_put_name

GoesOn(c, upto, d) ==
    /\ d.state = "WRITE_BUFFER" /\ d.out_sent = upto /\ d.out_buf = c.out_buf
    /\ d.get_left = c.get_left /\ d.get_fd = c.get_fd
    /\ d.close_after_write = c.close_after_write
    /\ d.pending_put_name = c.pending_put_name

FileNext(c, left, d) ==
    /\ d.state = "WRITE_GET_FILE" /\ d.get_left = left /\ d.get_fd = c.get_fd
    /\ d.pending_put_name = c.pending_put_name

BufferWritten(p, c, upto) ==
    \/ Gone(p)
    \/ /\ upto < Len(c.out_buf[1].body) + 1 /\ fdtab' = fdtab
       /\ GoesOn(c, upto, conn'[p])
    \/ /\ upto = Len(c.out_buf[1].body) + 1 /\ fdtab' = fdtab
       /\ c.get_left > 0 /\ FileNext(c, c.get_left, conn'[p])
    \/ /\ upto = Len(c.out_buf[1].body) + 1 /\ c.get_left = 0
       /\ ~c.close_after_write /\ HeaderNext(c, conn'[p])

LEMMA WriteBufferDoes ==
    ASSUME IInv, NEW p \in Peers, conn[p].state = "WRITE_BUFFER",
           Space(p) > 0 \/ Broken(p), HandleWriteBuffer(p),
           NEW c, c = conn[p], NEW r, r = c.out_buf[1]
    PROVE  /\ rcvd' = rcvd /\ files' = files
           /\ r \in Reply /\ c.out_sent \in Nat
           /\ \/ Gone(p) /\ rx' = rx /\ unread' = unread
              \/ \E upto \in Nat :
                    /\ c.out_sent < upto /\ upto <= Len(r.body) + 1
                    /\ rx'[p] = Extend(rx[p], r, c.out_sent, upto)
                    /\ unread'[p] = unread[p] + (upto - c.out_sent)
                    /\ \A q \in Peers \ {p} : rx'[q] = rx[q]
                    /\ BufferWritten(p, c, upto)
<1> DEFINE upto == MinOf(c.out_sent + Space(p), Len(r.body) + 1)
           done == BufferDone(c)
<1>1. /\ c \in Conn /\ Fit(c) /\ Len(c.out_buf) = 1 /\ c.out_buf \in Seq(Reply)
      /\ c.out_sent \in Nat /\ c.get_left \in Nat /\ c.out_sent <= Len(r.body)
      /\ (c.get_left > 0 => c.get_fd # NoFd) /\ c.header_buf = <<>>
  BY ConnFits DEF Fit, BuffersFit, ReplyFits, Conn
<1>2. r \in Reply
  BY <1>1, ElementOfSeq
<1>3. r.body \in Seq(Byte) /\ Len(r.body) \in Nat
  BY <1>2, LenProperties DEF Reply
<1>4. rx \in [Peers -> Seq(Reply)] /\ unread \in [Peers -> 0 .. SndBuf] /\ Space(p) \in Nat
  BY WireFacts, WireAssumption DEF Space
<1>5. rcvd' = rcvd /\ files' = files
  BY DEF HandleWriteBuffer
<1>6. CASE Drop(p, c, fdtab) /\ rx' = rx /\ unread' = unread
  BY <1>1, <1>2, <1>5, <1>6, DropGone
<1>7. CASE /\ ~Broken(p)
           /\ rx' = [rx EXCEPT ![p] = Extend(@, r, c.out_sent, upto)]
           /\ unread' = [unread EXCEPT ![p] = @ + (upto - c.out_sent)]
           /\ \/ /\ upto < Len(r.body) + 1
                 /\ Settle(p, [c EXCEPT !.out_sent = upto], fdtab)
              \/ /\ upto = Len(r.body) + 1 /\ CloseNow(done)
                 /\ Drop(p, done, fdtab)
              \/ /\ upto = Len(r.body) + 1 /\ ~CloseNow(done)
                 /\ Settle(p, [done EXCEPT !.state = AfterReply(done)], fdtab)
  <2>1. upto \in Nat /\ c.out_sent < upto /\ upto <= Len(r.body) + 1
    <3> DEFINE a == c.out_sent
               m == Space(p)
               b == Len(r.body)
    <3>1. m > 0
      BY <1>7
    <3>2. a \in Nat /\ m \in Nat /\ b \in Nat /\ a <= b
      BY <1>1, <1>3, <1>4
    <3>3. upto = MinOf(a + m, b + 1)
      OBVIOUS
    <3> HIDE DEF a, m, b, upto
    <3>4. upto \in Nat /\ a < upto /\ upto <= b + 1
      BY <3>1, <3>2, <3>3 DEF MinOf
    <3>. QED
      BY <3>4 DEF a, m, b
  <2>2. /\ rx'[p] = Extend(rx[p], r, c.out_sent, upto)
        /\ unread'[p] = unread[p] + (upto - c.out_sent)
        /\ \A q \in Peers \ {p} : rx'[q] = rx[q]
    BY <1>4, <1>7
  <2> HIDE DEF upto
  <2>3. CASE upto < Len(r.body) + 1 /\ Settle(p, [c EXCEPT !.out_sent = upto], fdtab)
    <3> DEFINE d == [c EXCEPT !.out_sent = upto]
    <3>1. GoesOn(c, upto, d)
      BY <1>1 DEF GoesOn, Conn
    <3>2. Settle(p, d, fdtab)
      BY <2>3
    <3> HIDE DEF d
    <3>3. Gone(p) \/ Turns(p, d, fdtab)
      BY <3>2, SettleTurns
    <3>4. BufferWritten(p, c, upto)
      BY <2>3, <3>1, <3>3 DEF BufferWritten, Turns
    <3>. QED
      BY <1>1, <1>2, <1>5, <2>1, <2>2, <3>4
  <2>4. /\ done = [c EXCEPT !.out_buf = <<>>, !.out_sent = 0]
        /\ done.get_fd = c.get_fd /\ done.get_left = c.get_left
        /\ done.close_after_write = c.close_after_write
    BY <1>1 DEF BufferDone, Conn
  <2>5. CASE Drop(p, done, fdtab)
    <3>1. BufferWritten(p, c, upto)
      BY <2>5, DropGone DEF BufferWritten
    <3>. QED
      BY <1>1, <1>2, <1>5, <2>1, <2>2, <3>1
  <2>6. CASE /\ upto = Len(r.body) + 1 /\ ~CloseNow(done)
             /\ Settle(p, [done EXCEPT !.state = AfterReply(done)], fdtab)
    <3> DEFINE state == AfterReply(done)
               d == [c EXCEPT !.out_buf = <<>>, !.out_sent = 0, !.state = state]
    <3>1. IF c.get_left > 0 THEN state = "WRITE_GET_FILE" ELSE state = "READ_HEADER"
      BY <1>1, <2>4 DEF AfterReply
    <3>2. state = "READ_HEADER" => ~c.close_after_write
      BY <2>4, <2>6 DEF CloseNow
    <3>3. [done EXCEPT !.state = state] = d
      BY <1>1, <2>4 DEF Conn
    <3>4. Settle(p, d, fdtab)
      BY <2>6, <3>3
    <3> HIDE DEF state
    <3>5. /\ d.header_buf = <<>> /\ d.get_fd = c.get_fd /\ d.state = state
          /\ d.pending_put_name = c.pending_put_name /\ d.get_left = c.get_left
      BY <1>1 DEF Conn
    <3> HIDE DEF d
    <3>6. Gone(p) \/ Turns(p, d, fdtab)
      BY <3>4, SettleTurns
    <3>7. ~(c.get_left > 0) => c.get_left = 0
      BY <1>1
    <3>8. BufferWritten(p, c, upto)
      BY <2>6, <3>1, <3>2, <3>5, <3>6, <3>7 DEF BufferWritten, Turns, FileNext, HeaderNext
    <3>. QED
      BY <1>1, <1>2, <1>5, <2>1, <2>2, <3>8
  <2>. QED
    BY <1>7, <2>3, <2>5, <2>6 DEF upto
<1>. QED
  BY <1>6, <1>7 DEF HandleWriteBuffer

(* What handle_write_get_file does.                                        *)
FileWritten(p, c, n) ==
    \/ Gone(p)
    \/ n = c.get_left /\ HeaderNext(c, conn'[p])
    \/ /\ n < c.get_left /\ FileNext(c, c.get_left - n, conn'[p])
       /\ fdtab'[c.get_fd].name = fdtab[c.get_fd].name
       /\ fdtab'[c.get_fd].off = fdtab[c.get_fd].off + n

LEMMA WriteGetFileDoes ==
    ASSUME IInv, NEW p \in Peers, conn[p].state = "WRITE_GET_FILE",
           HandleWriteGetFile(p), NEW c, c = conn[p], NEW f, f = fdtab[c.get_fd]
    PROVE  /\ rcvd' = rcvd /\ files' = files
           /\ \/ Gone(p) /\ rx' = rx /\ unread' = unread
              \/ \E n \in Nat :
                    /\ n <= FileLeft(f)
                    /\ Piece(f, n) \in Seq(Byte) /\ Len(Piece(f, n)) = n
                    /\ rx'[p] = Longer(rx[p], Piece(f, n))
                    /\ unread'[p] = unread[p] + n
                    /\ \A q \in Peers \ {p} : rx'[q] = rx[q]
                    /\ FileWritten(p, c, n)
<1> DEFINE n == MinOf(MinOf(Space(p), c.get_left), FileLeft(f))
           left == [c EXCEPT !.get_left = @ - n]
           moved == [f EXCEPT !.off = @ + n]
<1>1. /\ c \in Conn /\ c.get_left \in Nat /\ c.get_left > 0 /\ c.header_buf = <<>>
      /\ c.get_fd # NoFd /\ c.get_fd \in Fds
  <2>1. c \in Conn /\ Fit(c)
    BY ConnFits
  <2>2. c.get_left > 0 /\ c.get_fd # NoFd /\ c.header_buf = <<>>
    BY <2>1 DEF Fit, BuffersFit, Conn
  <2>. QED
    BY <2>1, <2>2, ConnFits, OpenIsFd DEF Conn
<1>2. /\ fdtab \in [Fds -> FdEntry] /\ f \in FdEntry /\ f.name \in SafeNames
      /\ f.off \in Nat
  BY <1>1 DEF IInv, TypeOK, DescriptorsOwned, TableFit, FdEntry
<1>3. /\ rx \in [Peers -> Seq(Reply)] /\ unread \in [Peers -> 0 .. SndBuf]
      /\ Space(p) \in Nat /\ files \in [SafeNames -> File]
  BY WireFacts, WireAssumption DEF Space
<1>4. files[f.name].data \in Seq(Byte) /\ Len(files[f.name].data) \in Nat
  BY <1>2, <1>3, LenProperties DEF File
<1>5. FileLeft(f) \in Nat /\ (FileLeft(f) > 0 =>
          FileLeft(f) = Len(files[f.name].data) - f.off)
  <2> DEFINE len == Len(files[f.name].data)
             off == f.off
  <2>1. len \in Nat /\ off \in Nat /\ FileLeft(f) = MaxOf(len, off) - off
    BY <1>2, <1>4 DEF FileLeft
  <2> HIDE DEF len, off
  <2>2. FileLeft(f) \in Nat /\ (FileLeft(f) > 0 => FileLeft(f) = len - off)
    BY <2>1 DEF MaxOf
  <2>. QED
    BY <2>2 DEF len, off
<1>6. n \in Nat /\ n <= c.get_left /\ n <= FileLeft(f)
  <2> DEFINE a == Space(p)
             b == c.get_left
             m == FileLeft(f)
  <2>1. a \in Nat /\ b \in Nat /\ m \in Nat /\ n = MinOf(MinOf(a, b), m)
    BY <1>1, <1>3, <1>5
  <2> HIDE DEF a, b, m, n
  <2>2. n \in Nat /\ n <= b /\ n <= m
    BY <2>1 DEF MinOf
  <2>. QED
    BY <2>2 DEF b, m
<1> HIDE DEF n
<1>7. Piece(f, n) \in Seq(Byte) /\ Len(Piece(f, n)) = n
  <2>1. \A i \in f.off + 1 .. f.off + n : files[f.name].data[i] \in Byte
    <3>1. ASSUME NEW i \in f.off + 1 .. f.off + n
          PROVE  i \in 1 .. Len(files[f.name].data)
      <4> DEFINE len == Len(files[f.name].data)
                 off == f.off
                 m == FileLeft(f)
      <4>1. /\ len \in Nat /\ off \in Nat /\ m \in Nat /\ n \in Nat /\ n <= m
            /\ (m > 0 => m = len - off) /\ i \in off + 1 .. off + n
        BY <1>2, <1>4, <1>5, <1>6, <3>1
      <4> HIDE DEF len, off, m
      <4>2. i \in 1 .. len
        BY <4>1
      <4>. QED
        BY <4>2 DEF len
    <3>. QED
      BY <1>4, <3>1, ElementOfSeq
  <2>2. f.off + 1 \in Int /\ f.off + n \in Int
    BY <1>2, <1>6
  <2>. QED
    BY <1>2, <1>6, <2>1, <2>2, SubSeqProperties DEF Piece
<1>8. rcvd' = rcvd /\ files' = files
  BY DEF HandleWriteGetFile
<1>9. CASE Drop(p, c, fdtab) /\ rx' = rx /\ unread' = unread
  BY <1>8, <1>9, DropGone
<1>10. CASE /\ rx' = [rx EXCEPT ![p][Len(rx[p])].body = @ \o Piece(f, n)]
            /\ unread' = [unread EXCEPT ![p] = @ + n]
            /\ \/ /\ n = c.get_left
                  /\ Settle(p, GetDone(left), [fdtab EXCEPT ![c.get_fd] = FreeFd])
               \/ /\ n < c.get_left
                  /\ Settle(p, left, [fdtab EXCEPT ![c.get_fd].off = @ + n])
  <2> DEFINE log == Longer(rx[p], Piece(f, n))
             m == c.get_left - n
  <2>1. rx' = [rx EXCEPT ![p] = log]
    BY <1>10 DEF Longer
  <2>2. /\ rx'[p] = log /\ \A q \in Peers \ {p} : rx'[q] = rx[q]
        /\ unread'[p] = unread[p] + n
    BY <1>3, <1>10, <2>1
  <2>3. CASE n = c.get_left /\ Settle(p, GetDone(left), [fdtab EXCEPT ![c.get_fd] = FreeFd])
    <3> DEFINE d == [c EXCEPT !.get_left = m, !.get_fd = NoFd, !.state = "READ_HEADER"]
               ft == [fdtab EXCEPT ![c.get_fd] = FreeFd]
    <3>1. d = GetDone(left)
      BY <1>1 DEF GetDone, Conn
    <3>2. Settle(p, d, ft)
      BY <2>3, <3>1
    <3>3. HeaderNext(c, d)
      BY <1>1 DEF HeaderNext, Conn
    <3> HIDE DEF d, ft
    <3>4. Gone(p) \/ Turns(p, d, ft)
      BY <3>2, SettleTurns
    <3>5. FileWritten(p, c, n)
      BY <2>3, <3>3, <3>4 DEF FileWritten, Turns
    <3>. QED
      BY <1>6, <1>7, <1>8, <2>2, <3>5
  <2>4. CASE n < c.get_left /\ Settle(p, left, [fdtab EXCEPT ![c.get_fd].off = @ + n])
    <3> DEFINE ft == [fdtab EXCEPT ![c.get_fd] = moved]
    <3>1. left = [c EXCEPT !.get_left = m]
      BY <1>1 DEF Conn
    <3>2. [fdtab EXCEPT ![c.get_fd].off = @ + n] = ft
      BY <1>1
    <3>3. Settle(p, left, ft)
      BY <2>4, <3>2
    <3>4. moved.off = f.off + n /\ moved.name = f.name
      BY <1>2 DEF FdEntry
    <3> HIDE DEF moved
    <3>5. ft[c.get_fd] = moved
      BY <1>1, <1>2
    <3> HIDE DEF m, left, ft
    <3>6. FileNext(c, m, left)
      <4>1. /\ left.state = c.state /\ left.get_left = m /\ left.get_fd = c.get_fd
            /\ left.pending_put_name = c.pending_put_name
        BY <1>1, <3>1 DEF Conn
      <4>. QED
        BY <4>1 DEF FileNext
    <3>7. Gone(p) \/ Turns(p, left, ft)
      BY <3>3, SettleTurns
    <3>8. FileWritten(p, c, n)
      BY <2>4, <3>4, <3>5, <3>6, <3>7 DEF FileWritten, Turns, m
    <3>. QED
      BY <1>6, <1>7, <1>8, <2>2, <3>8
  <2>. QED
    BY <1>10, <2>3, <2>4
<1>. QED
  BY <1>9, <1>10 DEF HandleWriteGetFile, n

-----------------------------------------------------------------------------
(* Where each handler leaves its connection in the stream.                 *)

(* A connection that begins to read a header is between two messages.      *)
LEMMA BetweenFollows ==
    ASSUME NEW units \in Seq(Unit), NEW n, NEW got \in Nat, NEW d, NEW ft,
           d.state = "READ_HEADER", d.header_buf = <<>>,
           Due(units, n, got + 1, d.pending_put_name)
    PROVE  Following(d, ft, units, n, got)
<1>1. Len(d.header_buf) = 0 /\ got + 1 - 0 = got + 1 /\ got + 1 >= 1
  OBVIOUS
<1>2. SubSeq(units, got + 1, got) = <<>>
  BY SubSeqEmpty
<1>3. AtHeader(d, units, n, got + 1, got)
  BY <1>1, <1>2 DEF AtHeader
<1>. QED
  BY <1>1, <1>3 DEF Following

(* A reply is queued, to a request that ends the connection or to one      *)
(* after which the stream goes on.                                         *)
LEMMA AnswerFollows ==
    ASSUME NEW units, NEW n \in Nat, NEW got, NEW d, NEW ft, NEW cmd, NEW status,
           Replies(d, cmd, status),
           n + 1 <= Len(AskedIn(units)), AskedIn(units)[n + 1].cmd = cmd,
           d.close_after_write \/ Due(units, n + 1, got + 1, d.pending_put_name)
    PROVE  Following(d, ft, units, n, got)
<1>1. 0 < n + 1
  OBVIOUS
<1>2. AtReply(d, ft[d.get_fd], units, n + 1, got)
  BY <1>1 DEF AtReply, Replies
<1>. QED
  BY <1>2 DEF Following, Replies

(* The header and the last byte of a whole message tell whether it ends    *)
(* the connection.                                                         *)
LEMMA FinalEnds ==
    ASSUME NEW units \in Seq(Unit), NEW i \in 1 .. Len(units) + 1,
           HeaderAt(units, i), WholeAt(units, i),
           NEW h, h = units[i].head, NEW data, data = Payload(units, i),
           NEW byte, byte = LastByte(units, i)
    PROVE  /\ Named(data) <=> byte \in SafeNames
           /\ Named(data) => NameOf(data) = byte
           /\ <<h, byte>> \in Quitting <=> Final(h, data)
<1>1. h \in Header /\ byte \in Byte /\ h.length \in Nat
  BY MessageType DEF Header
<1>2. byte = IF data = <<>> THEN NULL ELSE NameOf(data)
  BY DEF LastByte
<1>3. /\ Named(data) <=> byte \in SafeNames
      /\ Named(data) => NameOf(data) = byte
  BY <1>2, NullAssumption DEF Named
<1>4. h.length > 0 <=> h.length # 0
  BY <1>1
<1> DEFINE m == <<h, byte>>
<1>5. m \in Header \X Byte /\ m[1] = h /\ m[2] = byte
  BY <1>1
<1> HIDE DEF m
<1>6. m \in Quitting <=> Final(h, data)
  BY <1>3, <1>4, <1>5 DEF Quitting, Final
<1>. QED
  BY <1>3, <1>6 DEF m

(* What is asked of a request, in terms of Owes.                           *)
LEMMA RequestOwed ==
    ASSUME NEW units \in Seq(Unit), NEW n \in Nat, NEW i,
           Owes(units, n, i, NULL), HeaderAt(units, i),
           NEW h, h = units[i].head, NEW byte, byte = LastByte(units, i),
           NEW next, next = After(units, i), NEW asked, asked = AskedIn(units)
    PROVE  /\ h \in Refused => n + 1 <= Len(asked) /\ asked[n + 1].cmd = h.cmd
           /\ h \notin Refused /\ WholeAt(units, i) =>
                 /\ <<h, byte>> \in Quitting =>
                       n + 1 <= Len(asked) /\ asked[n + 1].cmd = h.cmd
                 /\ <<h, byte>> \notin Quitting /\ h.cmd # "PUT" =>
                       /\ n + 1 <= Len(asked) /\ asked[n + 1].cmd = h.cmd
                       /\ asked[n + 1].name = byte /\ Owes(units, n + 1, next, NULL)
                 /\ <<h, byte>> \notin Quitting /\ h.cmd = "PUT" =>
                       Owes(units, n, next, byte)
<1> DEFINE all == AskedIn(units)
           head == units[i].head
           last == LastByte(units, i)
           after == After(units, i)
<1>1. OwesFrom(units, Refused, Quitting, n, i, NULL)
  BY DEF Owes
<1>2. /\ head \in Refused => n + 1 <= Len(all) /\ all[n + 1].cmd = head.cmd
      /\ head \notin Refused /\ WholeAt(units, i) =>
            /\ <<head, last>> \in Quitting =>
                  n + 1 <= Len(all) /\ all[n + 1].cmd = head.cmd
            /\ <<head, last>> \notin Quitting /\ head.cmd # "PUT" =>
                  /\ n + 1 <= Len(all) /\ all[n + 1].cmd = head.cmd
                  /\ all[n + 1].name = last
                  /\ OwesFrom(units, Refused, Quitting, n + 1, after, NULL)
            /\ <<head, last>> \notin Quitting /\ head.cmd = "PUT" =>
                  OwesFrom(units, Refused, Quitting, n, after, last)
  BY <1>1, RequestNext DEF AskedIn
<1>. QED
  BY <1>2 DEF Owes

(* handle_request, once the request is there.                              *)
LEMMA RequestFollows ==
    ASSUME NEW units \in Seq(Unit), NEW n \in Nat, NEW i,
           Owes(units, n, i, NULL), HeaderAt(units, i), WholeAt(units, i),
           NEW h, h = units[i].head,
           h \notin Refused \/ (h.cmd \in {"GET", "PUT"} /\ h.length = 0),
           NEW data, data = Payload(units, i),
           NEW got \in Nat, got + 1 = After(units, i),
           NEW c, c.pending_put_name = NULL, NEW d, NEW ft,
           Requested(c, h, data, d, ft)
    PROVE  Following(d, ft, units, n, got)
<1> DEFINE byte == LastByte(units, i)
           next == After(units, i)
           asked == AskedIn(units)
<1>1. i \in 1 .. Len(units) + 1
  BY DEF Owes, OwesFrom
<1>2. /\ Named(data) <=> byte \in SafeNames
      /\ Named(data) => NameOf(data) = byte
      /\ <<h, byte>> \in Quitting <=> Final(h, data)
  BY <1>1, FinalEnds
<1>3. h \in Header /\ h.length \in Nat /\ Len(data) = h.length
  BY <1>1, MessageType DEF Header
<1>4. /\ h \in Refused => n + 1 <= Len(asked) /\ asked[n + 1].cmd = h.cmd
      /\ h \notin Refused =>
            /\ <<h, byte>> \in Quitting =>
                  n + 1 <= Len(asked) /\ asked[n + 1].cmd = h.cmd
            /\ <<h, byte>> \notin Quitting /\ h.cmd # "PUT" =>
                  /\ n + 1 <= Len(asked) /\ asked[n + 1].cmd = h.cmd
                  /\ asked[n + 1].name = byte /\ Owes(units, n + 1, next, NULL)
            /\ <<h, byte>> \notin Quitting /\ h.cmd = "PUT" =>
                  Owes(units, n, next, byte)
  BY RequestOwed
<1> HIDE DEF byte, asked, next
<1>5. h \in Refused => h.cmd \in {"GET", "PUT"} /\ ~Named(data) /\ Final(h, data)
  <2>1. data = <<>> => ~Named(data)
    BY DEF Named
  <2>2. h.length = 0 => data = <<>>
    BY <1>1, <1>3, MessageType, EmptySeq
  <2>. QED
    BY <2>1, <2>2 DEF Final
<1>6. CASE /\ \E status \in {0, 1} :
                 Replies(d, h.cmd, status) /\ (status = 0 => h.cmd \in {"LIST", "QUIT"})
           /\ d.pending_put_name = c.pending_put_name
           /\ h.cmd = "PUT" => ~Named(data)
           /\ Final(h, data) => d.close_after_write
  <2>1. PICK status \in {0, 1} : Replies(d, h.cmd, status)
    BY <1>6
  <2>2. n + 1 <= Len(asked) /\ asked[n + 1].cmd = h.cmd
    BY <1>2, <1>4, <1>6 DEF Final
  <2>3. d.close_after_write \/ Owes(units, n + 1, got + 1, NULL)
    BY <1>2, <1>4, <1>5, <1>6 DEF Final, next
  <2>. QED
    BY <1>6, <2>1, <2>2, <2>3, AnswerFollows DEF Due, asked
<1>7. CASE /\ h.cmd = "GET" /\ Named(data)
           /\ Downloads(d, ft, NameOf(data), Len(files[NameOf(data)].data))
           /\ d.pending_put_name = c.pending_put_name
  <2>1. h \notin Refused /\ ~Final(h, data)
    BY <1>5, <1>7 DEF Final
  <2>2. /\ n + 1 <= Len(asked) /\ asked[n + 1].cmd = "GET"
        /\ asked[n + 1].name = NameOf(data) /\ Owes(units, n + 1, got + 1, NULL)
    BY <1>2, <1>4, <1>7, <2>1 DEF next
  <2>3. 0 < n + 1
    OBVIOUS
  <2>4. AtReply(d, ft[d.get_fd], units, n + 1, got)
    BY <1>7, <2>2, <2>3 DEF AtReply, Downloads, Due, asked
  <2>. QED
    BY <1>7, <2>4 DEF Following, Downloads
<1>8. CASE /\ h.cmd = "PUT" /\ Named(data)
           /\ d.state = "READ_HEADER" /\ d.header_buf = <<>>
           /\ d.pending_put_name = NameOf(data)
  <2>1. h \notin Refused /\ ~Final(h, data)
    BY <1>5, <1>8 DEF Final
  <2>2. Owes(units, n, got + 1, d.pending_put_name)
    BY <1>2, <1>4, <1>8, <2>1 DEF next
  <2>. QED
    BY <1>8, <2>2, BetweenFollows DEF Due
<1>. QED
  BY <1>6, <1>7, <1>8 DEF Requested

(* What is asked of an upload that is there to its last byte.              *)
LEMMA UploadNext ==
    ASSUME NEW units \in Seq(Unit), NEW n \in Nat, NEW i, NEW name, name # NULL,
           Owes(units, n, i, name), HeaderAt(units, i)
    PROVE  /\ units[i].head.cmd # "PUT" =>
                  /\ n + 1 <= Len(AskedIn(units))
                  /\ AskedIn(units)[n + 1].cmd = "PUT"
           /\ units[i].head.cmd = "PUT" /\ WholeAt(units, i) =>
                  /\ n + 1 <= Len(AskedIn(units))
                  /\ AskedIn(units)[n + 1].cmd = "PUT"
                  /\ AskedIn(units)[n + 1].name = name
                  /\ AskedIn(units)[n + 1].bytes = Bytes(Payload(units, i))
                  /\ Owes(units, n + 1, After(units, i), NULL)
<1> DEFINE asked == AskedIn(units)
           head == units[i].head
           next == After(units, i)
           bytes == Bytes(Payload(units, i))
<1>1. OwesFrom(units, Refused, Quitting, n, i, name)
  BY DEF Owes
<1>2. /\ head.cmd # "PUT" => n + 1 <= Len(asked) /\ asked[n + 1].cmd = "PUT"
      /\ head.cmd = "PUT" /\ WholeAt(units, i) =>
            /\ n + 1 <= Len(asked)
            /\ asked[n + 1] = [cmd |-> "PUT", name |-> name, bytes |-> bytes]
            /\ OwesFrom(units, Refused, Quitting, n + 1, next, NULL)
  BY <1>1, PutNext DEF AskedIn
<1> DEFINE r == [cmd |-> "PUT", name |-> name, bytes |-> bytes]
<1>3. r.cmd = "PUT" /\ r.name = name /\ r.bytes = bytes
  OBVIOUS
<1> HIDE DEF asked, head, next, bytes, r
<1>4. /\ head.cmd # "PUT" => n + 1 <= Len(asked) /\ asked[n + 1].cmd = "PUT"
      /\ head.cmd = "PUT" /\ WholeAt(units, i) =>
            /\ n + 1 <= Len(asked) /\ asked[n + 1].cmd = "PUT"
            /\ asked[n + 1].name = name /\ asked[n + 1].bytes = bytes
            /\ Owes(units, n + 1, next, NULL)
  BY <1>2, <1>3 DEF Owes, r
<1>. QED
  BY <1>4 DEF asked, head, next, bytes

(* The second message of a PUT.                                            *)
LEMMA OpenFollows ==
    ASSUME NEW units \in Seq(Unit), PlainUploads(units), NEW n \in Nat, NEW i,
           NEW name, name # NULL, Owes(units, n, i, name), HeaderAt(units, i),
           units[i].head.cmd = "PUT", NEW len, len = units[i].head.length,
           NEW got \in Nat, got + 1 = i + HdrLen,
           NEW p, OpenedFrom(p, name, len)
    PROVE  Gone(p) \/ Following(conn'[p], fdtab', units, n, got)
<1> DEFINE d == conn'[p]
           ft == fdtab'
           next == After(units, i)
           put == "PUT"
<1>1. i \in 1 .. Len(units) + 1 /\ Len(units) \in Nat
  BY LenProperties DEF Owes, OwesFrom
<1>2. len \in Nat /\ i \in Nat
  BY <1>1, MessageType DEF Header
<1>3. next = i + HdrLen + len /\ HdrLen \in Nat
  BY WireAssumption DEF After
<1>4. i \in 1 .. Len(units)
  <2>1. i + HdrLen <= Len(units) + 1 /\ HdrLen > 0 /\ HdrLen \in Nat
    BY WireAssumption DEF HeaderAt
  <2>. QED
    BY <1>1, <2>1
<1>5. WholeAt(units, i) /\ (len > 0 => ~HeaderAt(units, i + HdrLen))
  BY <1>4 DEF PlainUploads
<1>6. /\ n + 1 <= Len(AskedIn(units)) /\ AskedIn(units)[n + 1].cmd = put
      /\ Owes(units, n + 1, next, NULL)
  BY <1>5, UploadNext
<1> HIDE DEF next, put
<1>7. Due(units, n + 1, got + 1, NULL)
  <2>1. len = 0 => next = got + 1
    BY <1>2, <1>3
  <2>2. len = 0 \/ len > 0
    BY <1>2
  <2>. QED
    BY <1>5, <1>6, <2>1, <2>2 DEF Due
<1>8. ASSUME NEW status, Replies(d, put, status), d.pending_put_name = NULL
      PROVE  Following(d, ft, units, n, got)
  BY <1>6, <1>7, <1>8, AnswerFollows
<1>9. ASSUME Uploading(d, ft, name, len, 0)
      PROVE  Following(d, ft, units, n, got)
  <2> DEFINE f == ft[d.put_fd]
  <2>1. /\ d.state = "READ_PUT_STREAM" /\ d.put_left = len
        /\ d.pending_put_name = name /\ f.off = 0
    BY <1>9 DEF Uploading
  <2>2. got + 1 - HdrLen - f.off = i
    BY <1>2, <1>3, <2>1
  <2>3. len = f.off + d.put_left
    BY <1>2, <2>1
  <2> HIDE DEF f
  <2>4. AtUpload(d, f, units, n, i)
    BY <2>1, <2>3 DEF AtUpload
  <2>. QED
    BY <2>1, <2>2, <2>4 DEF Following, f
<1>. QED
  BY <1>8, <1>9 DEF OpenedFrom, put

(* A whole header.                                                         *)
LEMMA HeaderFollows ==
    ASSUME NEW units \in Seq(Unit), PlainUploads(units), NEW n \in Nat,
           NEW i \in Nat, i >= 1, HeaderAt(units, i), NEW e, NEW h, h = units[i].head,
           e.cur_header = h, Due(units, n, i, e.pending_put_name),
           NEW got \in Nat, got + 1 = i + HdrLen, NEW p, HeaderDone(p, e, h)
    PROVE  Gone(p) \/ Following(conn'[p], fdtab', units, n, got)
<1> DEFINE d == conn'[p]
           ft == fdtab'
<1>1. Owes(units, n, i, e.pending_put_name)
  BY DEF Due
<1>2. i \in 1 .. Len(units) + 1
  BY <1>1 DEF Owes, OwesFrom
<1>3. h \in Header /\ h.length \in Nat /\ After(units, i) = i + HdrLen + h.length
  BY <1>2, MessageType DEF Header
<1>4. HdrLen \in Nat /\ Len(units) \in Nat /\ MaxFilenameLen \in Nat
      /\ MaxGenericPayload \in Nat
  BY WireAssumption, SizeAssumption, LenProperties
<1>5. CASE e.pending_put_name # NULL /\ h.cmd # "PUT" /\ RefusedFrom(p, e, "PUT")
  <2>1. n + 1 <= Len(AskedIn(units)) /\ AskedIn(units)[n + 1].cmd = "PUT"
    BY <1>1, <1>5, UploadNext
  <2> DEFINE put == "PUT"
             bad == 1
  <2>2. Gone(p) \/ (Replies(d, put, bad) /\ d.close_after_write)
    BY <1>5 DEF RefusedFrom
  <2>3. AskedIn(units)[n + 1].cmd = put
    BY <2>1
  <2> HIDE DEF put, bad
  <2>. QED
    BY <2>1, <2>2, <2>3, AnswerFollows
<1>6. CASE /\ e.pending_put_name # NULL /\ h.cmd = "PUT"
           /\ OpenedFrom(p, e.pending_put_name, h.length)
  BY <1>1, <1>6, OpenFollows
<1>7. CASE e.pending_put_name = NULL /\ h.length = 0 /\ RequestedFrom(p, e, h, <<>>)
  <2> DEFINE data == Payload(units, i)
  <2>1. got + 1 = After(units, i) /\ WholeAt(units, i)
    BY <1>3, <1>4, <1>7 DEF WholeAt, HeaderAt
  <2>2. data = <<>>
    BY <1>2, <1>7, <2>1, MessageType, EmptySeq
  <2>3. Gone(p) \/ Requested(e, h, data, d, ft)
    BY <1>7, <2>2 DEF RequestedFrom
  <2>4. h \notin Refused \/ (h.cmd \in {"GET", "PUT"} /\ h.length = 0)
    BY <1>3, <1>4, <1>7 DEF Refused, TooLong
  <2>5. Owes(units, n, i, NULL) /\ e.pending_put_name = NULL
    BY <1>1, <1>7
  <2> HIDE DEF data, d, ft
  <2>6. ASSUME Requested(e, h, data, d, ft)
        PROVE  Following(d, ft, units, n, got)
    BY <2>1, <2>4, <2>5, <2>6, RequestFollows DEF data
  <2>. QED
    BY <2>3, <2>6 DEF d, ft
<1>8. CASE e.pending_put_name = NULL /\ TooLong(h) /\ RefusedFrom(p, e, h.cmd)
  <2>1. h \in Refused
    BY <1>3, <1>8 DEF Refused
  <2>2. Owes(units, n, i, NULL)
    BY <1>1, <1>8
  <2> DEFINE byte == LastByte(units, i)
             next == After(units, i)
             asked == AskedIn(units)
  <2>3. n + 1 <= Len(asked) /\ asked[n + 1].cmd = h.cmd
    <3>1. /\ h \in Refused => n + 1 <= Len(asked) /\ asked[n + 1].cmd = h.cmd
          /\ h \notin Refused /\ WholeAt(units, i) =>
                /\ <<h, byte>> \in Quitting =>
                      n + 1 <= Len(asked) /\ asked[n + 1].cmd = h.cmd
                /\ <<h, byte>> \notin Quitting /\ h.cmd # "PUT" =>
                      /\ n + 1 <= Len(asked) /\ asked[n + 1].cmd = h.cmd
                      /\ asked[n + 1].name = byte /\ Owes(units, n + 1, next, NULL)
                /\ <<h, byte>> \notin Quitting /\ h.cmd = "PUT" =>
                      Owes(units, n, next, byte)
      BY <2>2, RequestOwed
    <3>. QED
      BY <2>1, <3>1
  <2> DEFINE bad == 1
  <2>4. Gone(p) \/ (Replies(d, h.cmd, bad) /\ d.close_after_write)
    BY <1>8 DEF RefusedFrom
  <2> HIDE DEF bad
  <2>. QED
    BY <2>3, <2>4, AnswerFollows
<1>9. CASE /\ e.pending_put_name = NULL /\ h.length > 0 /\ ~TooLong(h)
           /\ Gone(p) \/ Expects(e, h, conn'[p])
  <2>1. h \notin Refused
    BY <1>9 DEF Refused
  <2> SUFFICES ASSUME Expects(e, h, d)
               PROVE  Following(d, ft, units, n, got)
    BY <1>9
  <2>2. /\ d.state = "READ_PAYLOAD" /\ d.payload_len = h.length /\ d.payload = <<>>
        /\ d.cur_header = h /\ d.pending_put_name = NULL
    BY <1>9 DEF Expects
  <2>3. SubSeq(units, i + HdrLen, got) = <<>>
    BY <1>4, SubSeqEmpty
  <2> HIDE DEF d, ft
  <2>4. got + 1 - Len(d.payload) - HdrLen = i
    BY <1>4, <2>2
  <2>5. AtPayload(d, units, n, i, got)
    BY <1>1, <1>9, <2>1, <2>2, <2>3 DEF AtPayload
  <2>. QED
    BY <2>2, <2>4, <2>5 DEF Following
<1>. QED
  BY <1>5, <1>6, <1>7, <1>8, <1>9 DEF HeaderDone

-----------------------------------------------------------------------------
(* What the handlers leave of Follows.                                     *)
Followed(p) ==
    /\ InTurn(rx'[p], AskedIn(stream[p]))
    /\ Gone(p) \/ Following(conn'[p], fdtab', stream[p], Len(rx'[p]), rcvd'[p])

LEMMA StreamFacts ==
    ASSUME IInv, NEW p \in Peers
    PROVE  /\ stream[p] \in Seq(Unit) /\ Len(stream[p]) \in Nat
           /\ rx[p] \in Seq(Reply) /\ Len(rx[p]) \in Nat /\ rcvd[p] \in Nat
           /\ HdrLen \in Nat
BY WireFacts, WireAssumption, LenProperties

(* What handle_read_header does when the header, at unit i, is whole: e is *)
(* the record with the header taken out of its buffer.                     *)
HeaderWhole(p, i, e) ==
    LET s == stream[p]
        h == s[i].head
    IN  /\ i >= 1 /\ HeaderAt(s, i) /\ Parsed(p, e) /\ e.cur_header = h
        /\ Due(s, Len(rx[p]), i, e.pending_put_name)
        /\ rcvd'[p] \in Nat /\ rcvd'[p] + 1 = i + HdrLen /\ HeaderDone(p, e, h)

LEMMA HeaderArrives ==
    ASSUME IInv, NEW p \in Peers, Connected(p), Follows(p),
           conn[p].state = "READ_HEADER", HandleReadHeader(p)
    PROVE  /\ rx' = rx
           /\ \/ Gone(p) /\ files' = files
              \/ /\ files' = files /\ conn'[p].state = "READ_HEADER"
                 /\ Following(conn'[p], fdtab', stream[p], Len(rx[p]), rcvd'[p])
              \/ \E i \in Nat : \E e : HeaderWhole(p, i, e)
<1> DEFINE c == conn[p]
           s == stream[p]
           n == Len(rx[p])
           got == rcvd[p]
           new == rcvd'[p]
           buf == c.header_buf
           len == Len(buf)
           i == got + 1 - len
           need == HdrLen - len
           units == buf \o Received(p, need)
           d == conn'[p]
<1>1. /\ s \in Seq(Unit) /\ Len(s) \in Nat /\ n \in Nat /\ got \in Nat
      /\ HdrLen \in Nat /\ len \in Nat
  BY StreamFacts, ConnFits, LenProperties DEF Conn
<1>2. AtHeader(c, s, n, i, got) /\ PlainUploads(s) /\ InTurn(rx[p], AskedIn(s))
  BY DEF Follows, Following
<1>3. /\ need \in Nat /\ Take(p, need) /\ rx' = rx
      /\ \/ Gone(p) /\ files' = files
         \/ HeaderKept(c, units, d) /\ files' = files
         \/ /\ Len(units) = HdrLen /\ IsHeader(units)
            /\ units[1].head \in Header => HeaderTaken(p, c, units[1].head)
  BY ReadHeaderDoes
<1>4. /\ new \in Nat /\ got <= new /\ new <= Len(s)
      /\ Received(p, need) = SubSeq(s, got + 1, new)
  BY <1>3, TakenUnits
<1>5. i \in Nat /\ i >= 1 /\ i <= got + 1 /\ buf = SubSeq(s, i, got)
  BY <1>1, <1>2 DEF AtHeader
<1>6. units = SubSeq(s, i, got) \o SubSeq(s, got + 1, new)
  BY <1>4, <1>5
<1> HIDE DEF s, n, got, new, units, d, c, buf, need, i, len
<1>7. /\ units = SubSeq(s, i, new) /\ Len(units) = new + 1 - i
      /\ \A k \in 1 .. new + 1 - i : units[k] = s[i + k - 1]
  <2>1. Joins(s, i, got, new)
    <3>1. /\ s \in Seq(Unit) /\ i \in Nat /\ got \in Nat /\ new \in Nat
          /\ i >= 1 /\ i <= got + 1 /\ got <= new /\ new <= Len(s)
      BY <1>1, <1>4, <1>5
    <3>. QED
      BY <3>1, SubSeqJoin
  <2>. QED
    BY <1>6, <2>1 DEF Joins
<1>8. ASSUME HeaderKept(c, units, d)
      PROVE  d.state = "READ_HEADER" /\ Following(d, fdtab', s, n, new)
  <2>1. d.state = "READ_HEADER" /\ d.header_buf = units
        /\ d.pending_put_name = c.pending_put_name
    BY <1>8 DEF HeaderKept
  <2>2. new + 1 - Len(d.header_buf) = i
    BY <1>4, <1>5, <1>7, <2>1
  <2>3. AtHeader(d, s, n, i, new)
    BY <1>2, <1>5, <1>7, <2>1 DEF AtHeader
  <2>. QED
    BY <2>1, <2>2, <2>3 DEF Following
<1>9. ASSUME /\ Len(units) = HdrLen /\ IsHeader(units)
             /\ units[1].head \in Header => HeaderTaken(p, c, units[1].head)
      PROVE  \E e : HeaderWhole(p, i, e)
  <2>1. new + 1 = i + HdrLen /\ i + HdrLen - 1 = new /\ i + HdrLen <= Len(s) + 1
    <3>1. new + 1 - i = HdrLen
      BY <1>7, <1>9
    <3>. QED
      BY <1>1, <1>4, <1>5, <3>1
  <2>2. HeaderAt(s, i)
    BY <1>7, <1>9, <2>1 DEF HeaderAt
  <2> DEFINE h == s[i].head
  <2>3. units[1] = s[i]
    <3>1. 1 \in 1 .. new + 1 - i /\ i + 1 - 1 = i
      BY <1>1, <1>5, <2>1, WireAssumption
    <3>. QED
      BY <1>7, <3>1
  <2>4. h \in Header
    <3>1. i \in 1 .. Len(s) + 1
      BY <1>1, <1>5, <2>1
    <3>. QED
      BY <1>1, <2>2, <3>1, MessageType
  <2>5. PICK e : /\ Parsed(p, e) /\ e.cur_header = h
                 /\ e.pending_put_name = c.pending_put_name /\ HeaderDone(p, e, h)
    BY <1>9, <2>3, <2>4 DEF HeaderTaken
  <2>6. Due(s, n, i, e.pending_put_name)
    BY <1>2, <2>5 DEF AtHeader
  <2>. QED
    BY <1>4, <1>5, <2>1, <2>2, <2>5, <2>6 DEF HeaderWhole, s, n, new
<1>. QED
  BY <1>3, <1>5, <1>8, <1>9 DEF s, n, new, d

LEMMA ReadHeaderFollows ==
    ASSUME IInv, NEW p \in Peers, Connected(p), Follows(p),
           conn[p].state = "READ_HEADER", HandleReadHeader(p)
    PROVE  Followed(p)
<1>1. /\ PlainUploads(stream[p]) /\ InTurn(rx[p], AskedIn(stream[p]))
      /\ stream[p] \in Seq(Unit) /\ Len(rx[p]) \in Nat
  BY StreamFacts DEF Follows
<1>2. ASSUME NEW i \in Nat, NEW e, HeaderWhole(p, i, e)
      PROVE  Gone(p) \/ Following(conn'[p], fdtab', stream[p], Len(rx[p]), rcvd'[p])
  <2> DEFINE s == stream[p]
             n == Len(rx[p])
             got == rcvd'[p]
             h == s[i].head
  <2>1. /\ s \in Seq(Unit) /\ PlainUploads(s) /\ n \in Nat /\ i >= 1
        /\ HeaderAt(s, i) /\ e.cur_header = h /\ Due(s, n, i, e.pending_put_name)
        /\ got \in Nat /\ got + 1 = i + HdrLen /\ HeaderDone(p, e, h)
    BY <1>1, <1>2 DEF HeaderWhole
  <2> HIDE DEF h, s, n, got
  <2>2. h = s[i].head
    BY DEF h
  <2>3. Gone(p) \/ Following(conn'[p], fdtab', s, n, got)
    BY <2>1, <2>2, HeaderFollows
  <2>. QED
    BY <2>3 DEF s, n, got
<1>3. rx' = rx /\ (Gone(p) \/ Following(conn'[p], fdtab', stream[p], Len(rx[p]), rcvd'[p]))
  BY <1>2, HeaderArrives
<1>. QED
  BY <1>1, <1>3 DEF Followed

(* What handle_read_payload does when the request at unit i is whole: e is *)
(* the record with the payload taken out of it.                            *)
RequestWhole(p, i, e) ==
    LET s == stream[p] IN
    /\ Owes(s, Len(rx[p]), i, NULL) /\ HeaderAt(s, i) /\ WholeAt(s, i)
    /\ s[i].head \notin Refused
    /\ rcvd'[p] \in Nat /\ rcvd'[p] + 1 = After(s, i) /\ e.pending_put_name = NULL
    /\ RequestedFrom(p, e, s[i].head, Payload(s, i))

LEMMA PayloadArrives ==
    ASSUME IInv, NEW p \in Peers, Connected(p), Follows(p),
           conn[p].state = "READ_PAYLOAD", HandleReadPayload(p)
    PROVE  /\ rx' = rx /\ files' = files
           /\ \/ Gone(p)
              \/ /\ conn'[p].state = "READ_PAYLOAD"
                 /\ Following(conn'[p], fdtab', stream[p], Len(rx[p]), rcvd'[p])
              \/ \E i, e : RequestWhole(p, i, e)
<1> DEFINE c == conn[p]
           s == stream[p]
           n == Len(rx[p])
           got == rcvd[p]
           new == rcvd'[p]
           buf == c.payload
           len == Len(buf)
           i == got + 1 - len - HdrLen
           j == i + HdrLen
           need == c.payload_len - len
           units == buf \o Received(p, need)
           d == conn'[p]
<1>1. /\ s \in Seq(Unit) /\ Len(s) \in Nat /\ n \in Nat /\ got \in Nat
      /\ HdrLen \in Nat /\ len \in Nat /\ c.payload_len \in Nat
  BY StreamFacts, ConnFits, LenProperties DEF Conn
<1>2. AtPayload(c, s, n, i, got) /\ PlainUploads(s) /\ InTurn(rx[p], AskedIn(s))
  BY DEF Follows, Following
<1>3. /\ need \in Nat /\ Take(p, need) /\ rx' = rx /\ files' = files
      /\ \/ Gone(p)
         \/ PayloadKept(c, units, d)
         \/ Len(units) = c.payload_len /\ PayloadTaken(p, c, units)
  BY ReadPayloadDoes
<1>4. /\ new \in Nat /\ got <= new /\ new <= Len(s)
      /\ Received(p, need) = SubSeq(s, got + 1, new)
  BY <1>3, TakenUnits
<1>5. /\ Owes(s, n, i, NULL) /\ HeaderAt(s, i) /\ s[i].head \notin Refused
      /\ c.cur_header = s[i].head /\ c.payload_len = s[i].head.length
      /\ buf = SubSeq(s, j, got) /\ c.pending_put_name = NULL
  BY <1>2 DEF AtPayload
<1>6. units = SubSeq(s, j, got) \o SubSeq(s, got + 1, new)
  BY <1>4, <1>5
<1>7. i \in 1 .. Len(s) + 1
  BY <1>5 DEF Owes, OwesFrom
<1>8. j = got + 1 - len /\ j \in Nat /\ j >= 1 /\ j <= got + 1
  <2> HIDE DEF s, got, len
  <2>. QED
    BY <1>1, <1>7
<1>9. After(s, i) = j + c.payload_len /\ i = j - HdrLen
  BY <1>1, <1>5, <1>7 DEF After
<1> HIDE DEF s, n, got, new, units, d, c, buf, need, i, j, len
<1>10. units = SubSeq(s, j, new) /\ Len(units) = new + 1 - j
  <2>1. Joins(s, j, got, new)
    <3>1. /\ s \in Seq(Unit) /\ j \in Nat /\ got \in Nat /\ new \in Nat
          /\ j >= 1 /\ j <= got + 1 /\ got <= new /\ new <= Len(s)
      BY <1>1, <1>4, <1>8
    <3>. QED
      BY <3>1, SubSeqJoin
  <2>. QED
    BY <1>6, <2>1 DEF Joins
<1>11. ASSUME PayloadKept(c, units, d)
       PROVE  d.state = "READ_PAYLOAD" /\ Following(d, fdtab', s, n, new)
  <2>1. /\ d.state = "READ_PAYLOAD" /\ d.payload = units
        /\ d.payload_len = c.payload_len /\ d.cur_header = c.cur_header
        /\ d.pending_put_name = c.pending_put_name
    BY <1>11 DEF PayloadKept
  <2>2. new + 1 - Len(d.payload) - HdrLen = i
    BY <1>1, <1>4, <1>8, <1>9, <1>10, <2>1
  <2>3. AtPayload(d, s, n, i, new)
    BY <1>5, <1>10, <2>1 DEF AtPayload, j
  <2>. QED
    BY <2>1, <2>2, <2>3 DEF Following
<1>12. ASSUME Len(units) = c.payload_len, PayloadTaken(p, c, units)
       PROVE  \E e : RequestWhole(p, i, e)
  <2> DEFINE h == s[i].head
  <2>1. new + 1 = After(s, i) /\ After(s, i) - 1 = new
    BY <1>1, <1>4, <1>8, <1>9, <1>10, <1>12
  <2>2. WholeAt(s, i)
    BY <1>1, <1>4, <2>1 DEF WholeAt
  <2>3. units = Payload(s, i)
    BY <1>10, <2>1 DEF Payload, j
  <2>4. PICK e : e.pending_put_name = NULL /\ RequestedFrom(p, e, h, units)
    BY <1>5, <1>12 DEF PayloadTaken
  <2>. QED
    BY <1>4, <1>5, <2>1, <2>2, <2>3, <2>4 DEF RequestWhole, s, n, new
<1>. QED
  BY <1>3, <1>11, <1>12 DEF s, n, new, d

LEMMA ReadPayloadFollows ==
    ASSUME IInv, NEW p \in Peers, Connected(p), Follows(p),
           conn[p].state = "READ_PAYLOAD", HandleReadPayload(p)
    PROVE  Followed(p)
<1>1. /\ InTurn(rx[p], AskedIn(stream[p]))
      /\ stream[p] \in Seq(Unit) /\ Len(rx[p]) \in Nat
  BY StreamFacts DEF Follows
<1>2. ASSUME NEW i, NEW e, RequestWhole(p, i, e)
      PROVE  Gone(p) \/ Following(conn'[p], fdtab', stream[p], Len(rx[p]), rcvd'[p])
  <2> DEFINE s == stream[p]
             n == Len(rx[p])
             got == rcvd'[p]
             h == s[i].head
             data == Payload(s, i)
             d == conn'[p]
             ft == fdtab'
  <2>1. /\ s \in Seq(Unit) /\ n \in Nat /\ Owes(s, n, i, NULL) /\ HeaderAt(s, i)
        /\ WholeAt(s, i) /\ h \notin Refused /\ got \in Nat
        /\ got + 1 = After(s, i) /\ e.pending_put_name = NULL
        /\ Gone(p) \/ Requested(e, h, data, d, ft)
    BY <1>1, <1>2 DEF RequestWhole, RequestedFrom
  <2> HIDE DEF h, s, n, got, data, d, ft
  <2>2. h = s[i].head /\ data = Payload(s, i)
    BY DEF h, data
  <2>3. ASSUME Requested(e, h, data, d, ft)
        PROVE  Following(d, ft, s, n, got)
    BY <2>1, <2>2, <2>3, RequestFollows
  <2>. QED
    BY <2>1, <2>3 DEF s, n, got, d, ft
<1>3. rx' = rx /\ (Gone(p) \/ Following(conn'[p], fdtab', stream[p], Len(rx[p]), rcvd'[p]))
  BY <1>2, PayloadArrives
<1>. QED
  BY <1>1, <1>3 DEF Followed

LEMMA PutStreamFollows ==
    ASSUME IInv, NEW p \in Peers, Connected(p), Follows(p),
           conn[p].state = "READ_PUT_STREAM", HandlePutStream(p)
    PROVE  Followed(p)
<1> DEFINE c == conn[p]
           f == fdtab[c.put_fd]
           s == stream[p]
           n == Len(rx[p])
           got == rcvd[p]
           new == rcvd'[p]
           i == got + 1 - HdrLen - f.off
           m == Got(p, c.put_left)
           name == c.pending_put_name
           d == conn'[p]
           ft == fdtab'
           put == "PUT"
           good == 0
<1>1. /\ s \in Seq(Unit) /\ Len(s) \in Nat /\ n \in Nat /\ got \in Nat
      /\ HdrLen \in Nat
  BY StreamFacts
<1>2. f.off \in Nat /\ name # NULL
  <2>1. c \in Conn /\ Fit(c) /\ c.put_fd # NoFd
    BY ConnFits DEF Fit, BuffersFit
  <2>2. c.put_fd \in Fds /\ name # NULL
    BY <2>1, OpenIsFd DEF Fit, BuffersFit, Conn
  <2>. QED
    BY <2>2, ServerFacts DEF FdEntry
<1>3. AtUpload(c, f, s, n, i) /\ PlainUploads(s) /\ InTurn(rx[p], AskedIn(s))
  BY DEF Follows, Following
<1>4. /\ Owes(s, n, i, name) /\ HeaderAt(s, i)
      /\ s[i].head.cmd = "PUT" /\ s[i].head.length = f.off + c.put_left
  BY <1>3 DEF AtUpload
<1>5. /\ c.put_left \in Nat /\ m \in Nat /\ Take(p, c.put_left) /\ rx' = rx
      /\ \/ Gone(p)
         \/ m = c.put_left /\ Replies(d, put, good) /\ d.pending_put_name = NULL
         \/ m < c.put_left /\ Uploading(d, ft, name, c.put_left - m, f.off + m)
  BY PutStreamDoes
<1>6. new \in Nat /\ new <= Len(s) /\ new = got + m
  <2>1. rcvd \in [Peers -> Nat]
    BY WireFacts
  <2>. QED
    BY <1>5, <2>1, TakenUnits DEF Take
<1>7. i \in 1 .. Len(s) + 1
  BY <1>4 DEF Owes, OwesFrom
<1>8. After(s, i) = i + HdrLen + (f.off + c.put_left)
  BY <1>4 DEF After
<1> DEFINE off == f.off
           left == c.put_left
<1>9. i = got + 1 - HdrLen - off /\ off \in Nat /\ left \in Nat
  BY <1>2, <1>5
<1> HIDE DEF s, n, got, new, d, ft, c, i, m, name, put, good
<1>10. ASSUME m = left, Replies(d, put, good), d.pending_put_name = NULL
       PROVE  Following(d, ft, s, n, new)
  <2>1. After(s, i) = new + 1
    <3>1. After(s, i) = i + HdrLen + (off + left)
      BY <1>8
    <3> HIDE DEF off, left
    <3>. QED
      BY <1>1, <1>6, <1>7, <1>9, <1>10, <3>1, SMTT(30)
  <2>2. WholeAt(s, i)
    BY <1>1, <1>6, <2>1 DEF WholeAt
  <2>3. /\ n + 1 <= Len(AskedIn(s)) /\ AskedIn(s)[n + 1].cmd = put
        /\ Owes(s, n + 1, new + 1, NULL)
    BY <1>1, <1>2, <1>4, <2>1, <2>2, UploadNext DEF put
  <2>. QED
    BY <1>1, <1>10, <2>3, AnswerFollows DEF Due
<1>11. ASSUME m < left, Uploading(d, ft, name, left - m, off + m)
       PROVE  Following(d, ft, s, n, new)
  <2> DEFINE g == ft[d.put_fd]
             rest == left - m
             upto == off + m
  <2>1. /\ d.state = "READ_PUT_STREAM" /\ d.put_left = rest
        /\ d.pending_put_name = name /\ g.off = upto
    BY <1>11 DEF Uploading
  <2>2. s[i].head.length = off + left
    BY <1>4
  <2> HIDE DEF off, left
  <2>3. off + left = upto + rest /\ new + 1 - HdrLen - upto = i
    BY <1>1, <1>5, <1>6, <1>9
  <2> HIDE DEF g, rest, upto
  <2>4. AtUpload(d, g, s, n, i)
    BY <1>4, <2>1, <2>2, <2>3 DEF AtUpload, name
  <2>5. new + 1 - HdrLen - g.off = i
    BY <2>1, <2>3
  <2>. QED
    BY <2>1, <2>4, <2>5 DEF Following, g
<1>12. Gone(p) \/ Following(d, ft, s, n, new)
  BY <1>5, <1>10, <1>11
<1>. QED
  BY <1>3, <1>5, <1>12 DEF Followed, s, n, new, d, ft

LEMMA WriteBufferFollows ==
    ASSUME IInv, NEW p \in Peers, Connected(p), Follows(p),
           conn[p].state = "WRITE_BUFFER", Space(p) > 0 \/ Broken(p),
           HandleWriteBuffer(p)
    PROVE  Followed(p)
<1> DEFINE c == conn[p]
           r == c.out_buf[1]
           s == stream[p]
           asked == AskedIn(s)
           log == rx[p]
           n == Len(log)
           m == IF c.out_sent = 0 THEN n + 1 ELSE n
           got == rcvd[p]
           d == conn'[p]
           f == fdtab[c.get_fd]
<1>1. /\ s \in Seq(Unit) /\ n \in Nat /\ got \in Nat /\ log \in Seq(Reply)
  BY StreamFacts
<1>2. AtReply(c, f, s, m, got) /\ InTurn(log, asked)
  BY DEF Follows, Following
<1>3. /\ 0 < m /\ m <= Len(asked) /\ asked[m].cmd = r.cmd
      /\ ~c.close_after_write => Due(s, m, got + 1, c.pending_put_name)
      /\ c.get_left > 0 => asked[m].cmd = "GET" /\ asked[m].name = f.name
  BY <1>2 DEF AtReply
<1>4. c.get_left > 0 => ~c.close_after_write
  BY ConnFits DEF Fit, BuffersFit, Conn
<1>5. /\ rcvd' = rcvd /\ r \in Reply /\ c.out_sent \in Nat
      /\ \/ Gone(p) /\ rx' = rx
         \/ \E upto \in Nat :
               /\ c.out_sent < upto /\ upto <= Len(r.body) + 1
               /\ rx'[p] = Extend(log, r, c.out_sent, upto)
               /\ BufferWritten(p, c, upto)
  BY WriteBufferDoes
<1> HIDE DEF s, asked, log, n, m, got, d, r
<1>6. CASE Gone(p) /\ rx' = rx
  BY <1>2, <1>6 DEF Followed, asked, s, log
<1>7. ASSUME NEW upto \in Nat,
             c.out_sent < upto, upto <= Len(r.body) + 1,
             rx'[p] = Extend(log, r, c.out_sent, upto),
             BufferWritten(p, c, upto)
      PROVE  Followed(p)
  <2> DEFINE new == rx'[p]
             from == c.out_sent
  <2>1. new = Extend(log, r, from, upto) /\ from < upto /\ from \in Nat
    BY <1>5, <1>7
  <2>2. m = IF from = 0 THEN Len(log) + 1 ELSE Len(log)
    BY DEF m, n
  <2> HIDE DEF new, from
  <2>3. Len(new) = m /\ InTurn(new, asked)
    BY <1>1, <1>2, <1>3, <1>5, <1>7, <2>1, <2>2, PartAnswers
  <2>4. upto # 0
    BY <1>7, <2>1
  <2>5. ASSUME GoesOn(c, upto, d), fdtab' = fdtab
        PROVE  Following(d, fdtab', s, m, got)
    <3>1. /\ d.state = "WRITE_BUFFER" /\ d.out_sent = upto /\ d.out_buf[1] = r
          /\ d.get_left = c.get_left /\ d.get_fd = c.get_fd
          /\ d.close_after_write = c.close_after_write
          /\ d.pending_put_name = c.pending_put_name
      BY <2>5 DEF GoesOn, r
    <3>2. AtReply(d, fdtab'[d.get_fd], s, m, got)
      BY <1>3, <2>5, <3>1 DEF AtReply, asked
    <3>. QED
      BY <2>4, <3>1, <3>2 DEF Following
  <2>6. ASSUME c.get_left > 0, fdtab' = fdtab, FileNext(c, c.get_left, d)
        PROVE  Following(d, fdtab', s, m, got)
    <3>1. /\ d.state = "WRITE_GET_FILE" /\ d.get_fd = c.get_fd
          /\ d.pending_put_name = c.pending_put_name
      BY <2>6 DEF FileNext
    <3>2. AtFile(d, fdtab'[d.get_fd], s, m, got)
      BY <1>3, <1>4, <2>6, <3>1 DEF AtFile, asked
    <3>. QED
      BY <3>1, <3>2 DEF Following
  <2>7. ASSUME ~c.close_after_write, HeaderNext(c, d)
        PROVE  Following(d, fdtab', s, m, got)
    <3> DEFINE ft == fdtab'
    <3>1. /\ d.state = "READ_HEADER" /\ d.header_buf = <<>>
          /\ Due(s, m, got + 1, d.pending_put_name)
      BY <1>3, <2>7 DEF HeaderNext
    <3> HIDE DEF ft
    <3>2. Following(d, ft, s, m, got)
      BY <1>1, <3>1, BetweenFollows
    <3>. QED
      BY <3>2 DEF ft
  <2>8. Gone(p) \/ Following(d, fdtab', s, m, got)
    BY <1>7, <2>5, <2>6, <2>7 DEF BufferWritten, d
  <2>. QED
    BY <1>5, <2>3, <2>8 DEF Followed, new, s, asked, got, d
<1>. QED
  BY <1>5, <1>6, <1>7

LEMMA WriteGetFileFollows ==
    ASSUME IInv, NEW p \in Peers, Connected(p), Follows(p),
           conn[p].state = "WRITE_GET_FILE", HandleWriteGetFile(p)
    PROVE  Followed(p)
<1> DEFINE c == conn[p]
           f == fdtab[c.get_fd]
           s == stream[p]
           asked == AskedIn(s)
           log == rx[p]
           n == Len(log)
           got == rcvd[p]
           d == conn'[p]
           ft == fdtab'
<1>1. n \in Nat /\ got \in Nat /\ log \in Seq(Reply)
  BY StreamFacts
<1>2. AtFile(c, f, s, n, got) /\ InTurn(log, asked)
  BY DEF Follows, Following
<1>3. /\ 0 < n /\ Due(s, n, got + 1, c.pending_put_name)
      /\ asked[n].cmd = "GET" /\ asked[n].name = f.name
  BY <1>2 DEF AtFile
<1>4. /\ rcvd' = rcvd
      /\ \/ Gone(p) /\ rx' = rx
         \/ \E m \in Nat :
               /\ Piece(f, m) \in Seq(Byte)
               /\ rx'[p] = Longer(log, Piece(f, m))
               /\ FileWritten(p, c, m)
  BY WriteGetFileDoes
<1> HIDE DEF s, asked, log, n, got, d, ft
<1>5. CASE Gone(p) /\ rx' = rx
  BY <1>2, <1>5 DEF Followed, asked, s, log
<1>6. ASSUME NEW m \in Nat, Piece(f, m) \in Seq(Byte),
             rx'[p] = Longer(log, Piece(f, m)), FileWritten(p, c, m)
      PROVE  Followed(p)
  <2> DEFINE new == rx'[p]
             more == Piece(f, m)
  <2>1. new = Longer(log, more) /\ more \in Seq(Byte)
    BY <1>6
  <2> HIDE DEF new, more
  <2>2. Len(new) = n /\ \A k \in 1 .. Len(log) : new[k].cmd = log[k].cmd
    BY <1>1, <2>1, LongerType DEF n
  <2>3. InTurn(new, asked)
    BY <1>2, <2>2 DEF InTurn, n
  <2>4. ASSUME HeaderNext(c, d)
        PROVE  Following(d, ft, s, n, got)
    <3>1. /\ d.state = "READ_HEADER" /\ d.header_buf = <<>>
          /\ Due(s, n, got + 1, d.pending_put_name)
      BY <1>3, <2>4 DEF HeaderNext
    <3>2. s \in Seq(Unit)
      BY StreamFacts DEF s
    <3>. QED
      BY <1>1, <3>1, <3>2, BetweenFollows
  <2>5. ASSUME NEW left, FileNext(c, left, d), ft[c.get_fd].name = f.name
        PROVE  Following(d, ft, s, n, got)
    <3>1. /\ d.state = "WRITE_GET_FILE" /\ d.get_fd = c.get_fd
          /\ d.pending_put_name = c.pending_put_name
      BY <2>5 DEF FileNext
    <3>2. AtFile(d, ft[d.get_fd], s, n, got)
      BY <1>3, <2>5, <3>1 DEF AtFile, asked
    <3>. QED
      BY <3>1, <3>2 DEF Following
  <2>6. Gone(p) \/ Following(d, ft, s, n, got)
    BY <1>6, <2>4, <2>5 DEF FileWritten, d, ft
  <2>. QED
    BY <1>4, <2>2, <2>3, <2>6 DEF Followed, new, s, asked, got, d, ft
<1>. QED
  BY <1>4, <1>5, <1>6

-----------------------------------------------------------------------------
(* The steps of the whole server.                                          *)

(* Follows depends on a connection's own files alone.                      *)
LEMMA SameFollowing ==
    ASSUME NEW c, Fit(c), NEW ft, NEW other, NEW units, NEW n, NEW got,
           c.put_fd # NoFd => other[c.put_fd] = ft[c.put_fd],
           c.get_fd # NoFd => other[c.get_fd] = ft[c.get_fd],
           Following(c, ft, units, n, got)
    PROVE  Following(c, other, units, n, got)
<1>1. /\ c.state = "READ_PUT_STREAM" => c.put_fd # NoFd
      /\ c.state = "WRITE_GET_FILE" => c.get_fd # NoFd
      /\ c.get_left > 0 => c.get_fd # NoFd
  BY DEF Fit, BuffersFit
<1>2. c.state = "WRITE_BUFFER" =>
          AtReply(c, other[c.get_fd], units, IF c.out_sent = 0 THEN n + 1 ELSE n, got)
  BY <1>1 DEF Following, AtReply
<1>3. c.state = "READ_PUT_STREAM" =>
          AtUpload(c, other[c.put_fd], units, n,
                   got + 1 - HdrLen - other[c.put_fd].off)
  BY <1>1 DEF Following
<1>4. c.state = "WRITE_GET_FILE" => AtFile(c, other[c.get_fd], units, n, got)
  BY <1>1 DEF Following
<1>. QED
  BY <1>2, <1>3, <1>4 DEF Following

LEMMA OtherFollows ==
    ASSUME IInv, NEW q \in Peers, Follows(q),
           stream' = stream, rx'[q] = rx[q], conn'[q] = conn[q], rcvd'[q] = rcvd[q],
           sock'[q] = "idle" => sock[q] = "idle",
           q \in Elems(backlog') => q \in Elems(backlog) \/ sock[q] = "idle",
           conn[q].put_fd # NoFd => fdtab'[conn[q].put_fd] = fdtab[conn[q].put_fd],
           conn[q].get_fd # NoFd => fdtab'[conn[q].get_fd] = fdtab[conn[q].get_fd]
    PROVE  Follows(q)'
<1> DEFINE c == conn[q]
           ft == fdtab'
           s == stream[q]
           n == Len(rx[q])
           got == rcvd[q]
<1>1. Fit(c)
  BY ConnFits
<1>2. /\ PlainUploads(s) /\ InTurn(rx[q], AskedIn(s))
      /\ Connected(q) => Following(c, fdtab, s, n, got)
      /\ sock[q] = "idle" \/ q \in Elems(backlog) => got = 0
  BY DEF Follows
<1>3. Connected(q) => Following(c, ft, s, n, got)
  <2> HIDE DEF c, ft, s, n, got
  <2>1. /\ c.put_fd # NoFd => ft[c.put_fd] = fdtab[c.put_fd]
        /\ c.get_fd # NoFd => ft[c.get_fd] = fdtab[c.get_fd]
    BY DEF c, ft
  <2>. QED
    BY <1>1, <1>2, <2>1, SameFollowing
<1>4. c.fd # NoFd => Following(conn'[q], fdtab', stream'[q], Len(rx'[q]), rcvd'[q])
  BY <1>3 DEF Connected
<1>. QED
  BY <1>2, <1>4 DEF Follows, Connected

(* A handler moves on in the stream of its own connection.                 *)
LEMMA HandlerFollows ==
    ASSUME IInv, NEW e \in batch, e.fd # LFD, NEW p, p = e.peer, Handler(p, e),
           p \in Peers, Follows(p)
    PROVE  /\ Followed(p)
           /\ \A q \in Peers \ {p} : rcvd'[q] = rcvd[q]
<1>1. /\ Connected(p)
      /\ e.wr => Space(p) > 0 \/ Broken(p)
  BY EventFacts
<1>2. ASSUME Drop(p, conn[p], fdtab), rx' = rx
      PROVE  Followed(p)
  <2>1. Gone(p)
    BY <1>2, DropGone
  <2>2. InTurn(rx'[p], AskedIn(stream[p]))
    BY <1>2 DEF Follows
  <2>. QED
    BY <2>1, <2>2 DEF Followed
<1>3. Followed(p)
  BY <1>1, <1>2, ReadHeaderFollows, ReadPayloadFollows, PutStreamFollows,
     WriteBufferFollows, WriteGetFileFollows DEF Handler
<1>4. rcvd' = rcvd \/ \E n : Take(p, n)
  BY DEF Handler, HandleReadHeader, HandleReadPayload, HandlePutStream,
         HandleWriteBuffer, HandleWriteGetFile
<1>5. \A q \in Peers \ {p} : rcvd'[q] = rcvd[q]
  BY <1>4, WireFacts DEF Take
<1>. QED
  BY <1>3, <1>5

(* A handler leaves the other connections as they are.                     *)
SameConnection(q) ==
    /\ conn'[q] = conn[q] /\ rx'[q] = rx[q]
    /\ conn[q].put_fd # NoFd => fdtab'[conn[q].put_fd] = fdtab[conn[q].put_fd]
    /\ conn[q].get_fd # NoFd => fdtab'[conn[q].get_fd] = fdtab[conn[q].get_fd]

LEMMA OthersStay ==
    ASSUME IInv, NEW p \in Peers, Connected(p), Handled(p), NEW q \in Peers \ {p}
    PROVE  SameConnection(q)
<1>1. PICK c, ft : Outcome(p, c, ft) /\ Ends(p, c, ft)
  BY DEF Handled, Ends
<1>2. conn'[q] = conn[q] /\ rx'[q] = rx[q]
  BY <1>1, EndsOwned DEF Handled
<1>3. ASSUME NEW fd \in Fds, fdtab[fd].kind # "free", fdtab[fd].peer # p
      PROVE  fdtab'[fd] = fdtab[fd]
  <2>1. ft[fd] = fdtab[fd] /\ fd \notin Closed(c)
    BY <1>1, <1>3, OthersKept
  <2>. QED
    BY <1>1, <2>1 DEF Ends, Keep, Drop
<1>4. /\ conn[q].put_fd \in 0 .. FdLimit /\ conn[q].get_fd \in 0 .. FdLimit
      /\ conn[q].put_fd # NoFd => /\ fdtab[conn[q].put_fd].kind = "put"
                                  /\ fdtab[conn[q].put_fd].peer = q
      /\ conn[q].get_fd # NoFd => /\ fdtab[conn[q].get_fd].kind = "get"
                                  /\ fdtab[conn[q].get_fd].peer = q
  BY ConnFits DEF IInv, DescriptorsOwned
<1>5. /\ conn[q].put_fd # NoFd => fdtab'[conn[q].put_fd] = fdtab[conn[q].put_fd]
      /\ conn[q].get_fd # NoFd => fdtab'[conn[q].get_fd] = fdtab[conn[q].get_fd]
  BY <1>3, <1>4, OpenIsFd
<1>. QED
  BY <1>2, <1>5 DEF SameConnection

LEMMA HandleFollows ==
    ASSUME IInv, AllFollow, NEW e \in batch, Handle(e)
    PROVE  AllFollow'
<1> DEFINE p == e.peer
<1>1. /\ p \in Peers /\ Connected(p) /\ conn_map[e.fd] = p /\ e.fd # LFD
  BY EventFacts DEF Handle
<1>2. sock' = sock /\ stream' = stream /\ backlog' = backlog
  BY DEF Handle
<1>3. Handler(p, e)
  BY <1>1 DEF Handle
<1>4. Follows(p)
  BY <1>1 DEF AllFollow
<1>5. Handled(p)
  BY <1>1, <1>3, HandlerHandled
<1>6. Followed(p) /\ \A q \in Peers \ {p} : rcvd'[q] = rcvd[q]
  BY <1>1, <1>3, <1>4, HandlerFollows
<1> HIDE DEF p
<1>7. ASSUME NEW q \in Peers \ {p}
      PROVE  Follows(q)'
  <2>1. SameConnection(q)
    BY <1>1, <1>5, OthersStay
  <2>2. Follows(q)
    BY DEF AllFollow
  <2>. QED
    BY <1>2, <1>6, <2>1, <2>2, OtherFollows DEF SameConnection
<1>8. Follows(p)'
  <2>1. sock[p] # "idle"
    BY <1>1 DEF IInv, Queued, Connected
  <2>2. p \notin Elems(backlog)
    <3> SUFFICES ASSUME NEW i \in DOMAIN backlog, backlog[i] = p
                 PROVE  FALSE
      BY DEF Elems
    <3>1. i \in 1 .. Len(backlog)
      BY WireFacts, LenProperties
    <3>. QED
      BY <1>1, <3>1 DEF IInv, Queued, Connected
  <2>3. Gone(p) => conn'[p].fd = NoFd
    BY DEF Gone, NoConn, NewConn
  <2>4. /\ PlainUploads(stream'[p]) /\ InTurn(rx'[p], AskedIn(stream'[p]))
        /\ conn'[p].fd # NoFd =>
               Following(conn'[p], fdtab', stream'[p], Len(rx'[p]), rcvd'[p])
    BY <1>2, <1>4, <1>6, <2>3 DEF Followed, Follows
  <2>. QED
    BY <1>2, <2>1, <2>2, <2>4 DEF Follows, Connected
<1>. QED
  BY <1>7, <1>8 DEF AllFollow

LEMMA StopFollows ==
    ASSUME IInv, AllFollow, Stop
    PROVE  AllFollow'
<1> SUFFICES ASSUME NEW p \in Peers PROVE Follows(p)'
  BY DEF AllFollow
<1>1. /\ sock' = sock /\ stream' = stream /\ rx' = rx /\ rcvd' = rcvd
      /\ backlog' = <<>> /\ conn'[p] = NoConn
  BY DEF Stop
<1>2. conn'[p].fd = NoFd
  BY <1>1 DEF NoConn, NewConn
<1>3. p \notin Elems(backlog')
  BY <1>1 DEF Elems
<1>4. Follows(p)
  BY DEF AllFollow
<1>. QED
  BY <1>1, <1>2, <1>3, <1>4 DEF Follows, Connected

LEMMA AcceptOneFollows ==
    ASSUME IInv, AllFollow, AcceptOne
    PROVE  AllFollow'
<1>0. PICK p : p = Head(backlog)
  OBVIOUS
<1> DEFINE low == LowestFree
           rest == Tail(backlog)
<1>1. /\ sock' = sock /\ stream' = stream /\ rx' = rx /\ rcvd' = rcvd
      /\ backlog # <<>> /\ backlog' = rest /\ Free # {}
      /\ Accepted(p, low) \/ UNCHANGED <<conn, conn_map, fdtab, interest>>
  BY <1>0 DEF AcceptOne
<1>2. /\ p \in Peers /\ rx[p] = <<>> /\ sock[p] # "idle" /\ conn[p].fd = NoFd
      /\ \A i \in 1 .. Len(rest) : rest[i] \in Peers \ {p}
      /\ rest \in Seq(Peers)
  BY <1>0, <1>1, TailQueue
<1>3. low \in Fds /\ fdtab[low].kind = "free"
  BY <1>1, LowestFreeType
<1>4. p \in Elems(backlog) /\ \A q \in Elems(rest) : q \in Elems(backlog)
  <2>1. backlog \in Seq(Peers) /\ Len(backlog) \in Nat /\ Len(backlog) > 0
    BY <1>1, WireFacts, LenProperties, EmptySeq
  <2>2. DOMAIN backlog = 1 .. Len(backlog) /\ DOMAIN rest = 1 .. Len(rest)
    BY <1>2, <2>1, LenProperties
  <2>3. Len(rest) = Len(backlog) - 1 /\ \A i \in 1 .. Len(rest) : rest[i] = backlog[i + 1]
    BY <1>1, <2>1, HeadTailProperties
  <2>4. p = backlog[1] /\ 1 \in 1 .. Len(backlog)
    BY <1>0, <1>1, <2>1, HeadTailProperties
  <2>5. \A i \in 1 .. Len(rest) : i + 1 \in 1 .. Len(backlog)
    BY <2>1, <2>3
  <2>. QED
    BY <2>2, <2>3, <2>4, <2>5 DEF Elems
<1> HIDE DEF low, rest
<1>5. ASSUME NEW q \in Peers, q # p \/ conn' = conn
      PROVE  Follows(q)'
  <2>1. conn'[q] = conn[q]
    BY <1>1, <1>5, ServerFacts DEF Accepted
  <2>2. fdtab' = fdtab \/ \A fd \in Fds \ {low} : fdtab'[fd] = fdtab[fd]
    BY <1>1, ServerFacts DEF Accepted
  <2>3. /\ conn[q].put_fd # NoFd =>
               conn[q].put_fd \in Fds /\ fdtab[conn[q].put_fd].kind = "put"
        /\ conn[q].get_fd # NoFd =>
               conn[q].get_fd \in Fds /\ fdtab[conn[q].get_fd].kind = "get"
    BY ConnFits, OpenIsFd DEF IInv, DescriptorsOwned
  <2>4. /\ conn[q].put_fd # NoFd => fdtab'[conn[q].put_fd] = fdtab[conn[q].put_fd]
        /\ conn[q].get_fd # NoFd => fdtab'[conn[q].get_fd] = fdtab[conn[q].get_fd]
    BY <1>3, <2>2, <2>3
  <2>5. Follows(q)
    BY DEF AllFollow
  <2>. QED
    BY <1>1, <1>4, <2>1, <2>4, <2>5, OtherFollows
<1>6. ASSUME Accepted(p, low)
      PROVE  Follows(p)'
  <2> DEFINE d == NewConn(low)
             s == stream[p]
             ft == fdtab'
             zero == 0
  <2>1. conn'[p] = d
    BY <1>2, <1>6, ServerFacts DEF Accepted
  <2>2. d.state = "READ_HEADER" /\ d.header_buf = <<>> /\ d.pending_put_name = NULL
    BY DEF NewConn
  <2>3. rcvd[p] = 0 /\ PlainUploads(s) /\ InTurn(rx[p], AskedIn(s))
    BY <1>2, <1>4 DEF AllFollow, Follows
  <2>4. Len(rx[p]) = zero /\ zero \in Nat /\ zero + 1 = 1
    BY <1>2
  <2>5. Owes(s, 0, 1, NULL) /\ s \in Seq(Unit)
    BY <1>2, StreamFacts, OwesAll DEF Owes
  <2>6. Due(s, zero, zero + 1, d.pending_put_name)
    BY <2>2, <2>5 DEF Due
  <2> HIDE DEF d, ft, s, zero
  <2>7. Following(d, ft, s, zero, zero)
    BY <2>2, <2>4, <2>5, <2>6, BetweenFollows
  <2>8. Following(conn'[p], fdtab', stream'[p], Len(rx'[p]), rcvd'[p])
    BY <1>1, <2>1, <2>3, <2>4, <2>7 DEF ft, s, zero
  <2>9. /\ rcvd'[p] = 0 /\ PlainUploads(stream'[p])
        /\ InTurn(rx'[p], AskedIn(stream'[p]))
    BY <1>1, <2>3 DEF s
  <2>. QED
    BY <2>8, <2>9 DEF Follows
<1>7. CASE Accepted(p, low)
  BY <1>5, <1>6, <1>7 DEF AllFollow
<1>8. CASE UNCHANGED <<conn, conn_map, fdtab, interest>>
  BY <1>5, <1>8 DEF AllFollow
<1>. QED
  BY <1>1, <1>7, <1>8

LEMMA UntouchedFollows ==
    ASSUME IInv, AllFollow,
           stream' = stream, rx' = rx, rcvd' = rcvd, conn' = conn, fdtab' = fdtab,
           \A q \in Peers : sock'[q] = "idle" => sock[q] = "idle",
           \A q \in Peers : q \in Elems(backlog') => q \in Elems(backlog) \/ sock[q] = "idle"
    PROVE  AllFollow'
<1> SUFFICES ASSUME NEW q \in Peers PROVE Follows(q)'
  BY DEF AllFollow
<1>1. Follows(q)
  BY DEF AllFollow
<1>. QED
  BY <1>1, OtherFollows

LEMMA PeerFollows ==
    ASSUME IInv, AllFollow, NEW p \in Peers, Peer(p)
    PROVE  AllFollow'
<1>1. stream' = stream /\ rx' = rx /\ rcvd' = rcvd /\ conn' = conn /\ fdtab' = fdtab
  BY DEF Peer, PeerConnects, PeerSends, PeerReads, PeerLeaves, Connect, Send, Read,
         Leave, serverVars
<1>2. \A q \in Peers : sock'[q] = "idle" => sock[q] = "idle"
  BY WireFacts DEF Peer, PeerConnects, PeerSends, PeerReads, PeerLeaves, Connect, Send,
                   Read, Leave
<1>3. backlog' = backlog \/ (sock[p] = "idle" /\ backlog' = Append(backlog, p))
  BY DEF Peer, PeerConnects, PeerSends, PeerReads, PeerLeaves, Connect, Send, Read, Leave
<1>4. ASSUME NEW q \in Peers, q \in Elems(backlog'), q \notin Elems(backlog)
      PROVE  sock[q] = "idle"
  <2>1. backlog' = Append(backlog, p) /\ sock[p] = "idle"
    BY <1>3, <1>4
  <2>2. PICK i \in DOMAIN backlog' : backlog'[i] = q
    BY <1>4 DEF Elems
  <2>3. backlog \in Seq(Peers) /\ Len(backlog) \in Nat
    BY WireFacts, LenProperties
  <2>4. /\ backlog' \in Seq(Peers) /\ Len(backlog') = Len(backlog) + 1
        /\ backlog'[Len(backlog) + 1] = p
        /\ \A k \in 1 .. Len(backlog) : backlog'[k] = backlog[k]
    BY <2>1, <2>3, AppendProperties
  <2>5. i \in 1 .. Len(backlog) + 1 /\ DOMAIN backlog = 1 .. Len(backlog)
    BY <2>2, <2>3, <2>4, LenProperties
  <2>6. i \notin 1 .. Len(backlog)
    BY <1>4, <2>2, <2>4, <2>5 DEF Elems
  <2>7. i = Len(backlog) + 1
    BY <2>3, <2>5, <2>6
  <2>. QED
    BY <2>1, <2>2, <2>4, <2>7
<1>. QED
  BY <1>1, <1>2, <1>4, UntouchedFollows

LEMMA NextFollows ==
    ASSUME IInv, AllFollow, [Next]_vars
    PROVE  AllFollow'
<1>1. CASE UNCHANGED <<wireVars, conn, fdtab>>
  BY <1>1, UntouchedFollows DEF wireVars
<1>2. CASE EpollWait \/ AcceptStart \/ AcceptDone \/ UNCHANGED vars
  <2>1. UNCHANGED <<wireVars, conn, fdtab>>
    BY <1>2 DEF EpollWait, AcceptStart, AcceptDone, vars, serverVars
  <2>. QED
    BY <1>1, <2>1
<1>3. CASE EpollWaitFails \/ \E e \in batch : KilledBySigpipe(e)
  BY <1>3, StopFollows DEF EpollWaitFails, KilledBySigpipe
<1>4. CASE AcceptOne
  BY <1>4, AcceptOneFollows
<1>5. CASE \E e \in batch : Handle(e)
  BY <1>5, HandleFollows
<1>6. CASE \E p \in Peers : Peer(p)
  BY <1>6, PeerFollows
<1>. QED
  BY <1>2, <1>3, <1>4, <1>5, <1>6 DEF Next, Server

LEMMA InitFollows ==
    ASSUME \A p \in Peers : \A s \in Streams[p] : PlainUploads(s), Init
    PROVE  AllFollow
<1> SUFFICES ASSUME NEW p \in Peers PROVE Follows(p)
  BY DEF AllFollow
<1>1. stream[p] \in Streams[p] /\ stream[p] \in Seq(Unit)
  BY StreamsAssumption DEF Init, WireInit
<1>2. rx[p] = <<>> /\ rcvd[p] = 0 /\ conn[p].fd = NoFd
  BY DEF Init, WireInit, NoConn, NewConn
<1>3. Len(AskedIn(stream[p])) \in Nat
  BY <1>1, RequestsType DEF AskedIn
<1>4. InTurn(rx[p], AskedIn(stream[p]))
  BY <1>2, <1>3 DEF InTurn
<1>. QED
  BY <1>1, <1>2, <1>4 DEF Follows, Connected

(* The replies answer the requests of the stream one by one and in order,  *)
(* however the streams are cut up, whatever fails and however the events   *)
(* of the peers interleave, for streams whose uploads are whole and not    *)
(* mistaken for requests (handle_read_header, handle_request,              *)
(* handle_put_stream, handle_write_buffer, handle_write_get_file).         *)
THEOREM RepliesAnswer ==
    ASSUME \A p \in Peers : \A s \in Streams[p] : PlainUploads(s)
    PROVE  Spec => []RepliesInOrder
<1>1. Init => IInv /\ AllFollow
  BY InitInv, InitFollows
<1>2. IInv /\ AllFollow /\ [Next]_vars => (IInv /\ AllFollow)'
  BY NextInv, NextFollows
<1>3. IInv /\ AllFollow => RepliesInOrder
  <2> SUFFICES ASSUME IInv, AllFollow, NEW p \in Peers
               PROVE  /\ Len(rx[p]) <= Len(Asked[p])
                      /\ \A i \in DOMAIN rx[p] : rx[p][i].cmd = Asked[p][i].cmd
    BY DEF RepliesInOrder, InOrder
  <2>1. InTurn(rx[p], Asked[p])
    BY DEF AllFollow, Follows, Asked, AskedIn
  <2>2. DOMAIN rx[p] = 1 .. Len(rx[p])
    BY StreamFacts, LenProperties
  <2>. QED
    BY <2>1, <2>2 DEF InTurn
<1>. QED
  BY <1>1, <1>2, <1>3, PTL DEF Spec
-----------------------------------------------------------------------------
(* What the handlers do to the files, and what they leave to be sent.      *)

(* d neither uploads nor has the reply to an upload or a download queued,  *)
(* unless one that failed.                                                 *)
Idle(d) ==
    \/ d.state \in {"READ_HEADER", "READ_PAYLOAD"}
    \/ \E cmd : \E status \in {0, 1} :
          Replies(d, cmd, status) /\ (status = 0 => cmd \in {"LIST", "QUIT"})

Fetches(d, ft, name) ==
    name \in SafeNames /\ Downloads(d, ft, name, Len(files[name].data))

(* The m-th request of p is an upload of `name`, and only this file        *)
(* changes.                                                                *)
Puts(p, m, name) ==
    /\ name \in SafeNames /\ <<p, m>> \in Uploads(Asked, name)
    /\ \A other \in SafeNames \ {name} : files'[other] = files[other]

(* O_TRUNC.                                                                *)
Opens(p, m, name) ==
    /\ Puts(p, m, name) /\ files'[name] = Truncated
    /\ \/ Gone(p)
       \/ Replies(conn'[p], "PUT", 0) /\ Asked[p][m].bytes = <<>>
       \/ \E left : Uploading(conn'[p], fdtab', name, left, 0)

(* The blocks from + 1 .. upto of `bytes` are written at their places.     *)
Writes(old, now, from, upto, bytes) ==
    /\ now \in Seq(Byte) /\ Len(now) = MaxOf(Len(old), upto)
    /\ \A k \in 1 .. Len(now) :
          now[k] = IF k \in from + 1 .. upto THEN bytes[k]
                   ELSE IF k <= Len(old) THEN old[k] ELSE NULL

WritesOn(name, from, upto, bytes) ==
    /\ from \in Nat /\ upto \in Nat /\ from <= upto
    /\ bytes \in Seq(Byte) /\ upto <= Len(bytes)
    /\ \/ from = upto /\ files'[name] = files[name]
       \/ /\ from < upto /\ files'[name] \in File
          /\ files'[name].kind = files[name].kind
          /\ Writes(files[name].data, files'[name].data, from, upto, bytes)

(* The upload under way goes on.                                           *)
GoesOnPutting(p, m, f) ==
    /\ Puts(p, m, f.name)
    /\ \E upto : /\ WritesOn(f.name, f.off, upto, Asked[p][m].bytes)
                 /\ \/ Gone(p)
                    \/ Replies(conn'[p], "PUT", 0) /\ upto = Len(Asked[p][m].bytes)
                    \/ \E left : Uploading(conn'[p], fdtab', f.name, left, upto)

FilesDone(p) ==
    LET m == Len(rx[p]) + 1
    IN  \/ /\ files' = files
           /\ \/ Gone(p) \/ Idle(conn'[p])
              \/ Fetches(conn'[p], fdtab', Asked[p][m].name)
        \/ \E name : Opens(p, m, name)
        \/ /\ conn[p].state = "READ_PUT_STREAM"
           /\ GoesOnPutting(p, m, fdtab[conn[p].put_fd])

(* The upload that p is at, when n replies were begun.                     *)
LEMMA UploadingAt ==
    ASSUME IInv, NEW p \in Peers, NEW n \in Nat, NEW name,
           n + 1 <= Len(AskedIn(stream[p])),
           AskedIn(stream[p])[n + 1].cmd = "PUT", AskedIn(stream[p])[n + 1].name = name
    PROVE  <<p, n + 1>> \in Uploads(Asked, name)
<1> DEFINE asked == AskedIn(stream[p])
           m == n + 1
<1>1. DOMAIN asked = 1 .. Len(asked) /\ Len(asked) \in Nat
  <2>1. stream[p] \in Seq(Unit)
    BY StreamFacts
  <2>. QED
    BY <2>1, RequestsType, LenProperties DEF AskedIn
<1>2. Asked[p] = asked
  BY DEF Asked, AskedIn
<1>3. m \in DOMAIN asked /\ asked[m].cmd = "PUT" /\ asked[m].name = name
  BY <1>1
<1> HIDE DEF asked, m
<1>4. <<p, m>> \in Uploads(Asked, name)
  BY <1>2, <1>3, UploadsHave
<1>. QED
  BY <1>4 DEF m

(* handle_request begins no upload; it begins a download of the file that  *)
(* is asked for.                                                           *)
LEMMA RequestFiles ==
    ASSUME NEW units \in Seq(Unit), NEW n \in Nat, NEW i,
           Owes(units, n, i, NULL), HeaderAt(units, i), WholeAt(units, i),
           NEW h, h = units[i].head, h \notin Refused,
           NEW data, data = Payload(units, i),
           NEW c, NEW d, NEW ft, Requested(c, h, data, d, ft)
    PROVE  Idle(d) \/ Fetches(d, ft, AskedIn(units)[n + 1].name)
<1> DEFINE byte == LastByte(units, i)
           next == After(units, i)
           asked == AskedIn(units)
<1>1. i \in 1 .. Len(units) + 1
  BY DEF Owes, OwesFrom
<1>2. /\ Named(data) <=> byte \in SafeNames
      /\ Named(data) => NameOf(data) = byte
      /\ <<h, byte>> \in Quitting <=> Final(h, data)
  BY <1>1, FinalEnds
<1>3. /\ h \in Refused => n + 1 <= Len(asked) /\ asked[n + 1].cmd = h.cmd
      /\ h \notin Refused /\ WholeAt(units, i) =>
            /\ <<h, byte>> \in Quitting =>
                  n + 1 <= Len(asked) /\ asked[n + 1].cmd = h.cmd
            /\ <<h, byte>> \notin Quitting /\ h.cmd # "PUT" =>
                  /\ n + 1 <= Len(asked) /\ asked[n + 1].cmd = h.cmd
                  /\ asked[n + 1].name = byte /\ Owes(units, n + 1, next, NULL)
            /\ <<h, byte>> \notin Quitting /\ h.cmd = "PUT" =>
                  Owes(units, n, next, byte)
  BY RequestOwed
<1> HIDE DEF byte, asked, next
<1>4. CASE /\ h.cmd = "GET" /\ Named(data)
           /\ Downloads(d, ft, NameOf(data), Len(files[NameOf(data)].data))
  <2>1. ~Final(h, data)
    BY <1>4 DEF Final
  <2>2. asked[n + 1].name = NameOf(data) /\ NameOf(data) \in SafeNames
    BY <1>2, <1>3, <1>4, <2>1
  <2>. QED
    BY <1>4, <2>2 DEF Fetches, asked
<1>5. CASE ~(h.cmd = "GET" /\ Named(data)
             /\ Downloads(d, ft, NameOf(data), Len(files[NameOf(data)].data)))
  BY <1>5 DEF Requested, Idle
<1>. QED
  BY <1>4, <1>5

(* A request without payload names no file.                                *)
LEMMA BareRequestFiles ==
    ASSUME NEW c, NEW h, NEW d, NEW ft, Requested(c, h, <<>>, d, ft)
    PROVE  Idle(d)
<1>1. ~Named(<<>>)
  BY DEF Named
<1>. QED
  BY <1>1 DEF Requested, Idle

LEMMA RefusedFiles ==
    ASSUME NEW p, NEW c, NEW cmd, RefusedFrom(p, c, cmd)
    PROVE  Gone(p) \/ Idle(conn'[p])
<1> DEFINE bad == 1
<1>1. Gone(p) \/ Replies(conn'[p], cmd, bad)
  BY DEF RefusedFrom
<1>2. bad \in {0, 1} /\ bad # 0
  OBVIOUS
<1> HIDE DEF bad
<1>. QED
  BY <1>1, <1>2 DEF Idle

(* The second message of a PUT: O_TRUNC, or a refusal.                     *)
LEMMA OpenFiles ==
    ASSUME IInv, NEW p \in Peers, PlainUploads(stream[p]), NEW n, n = Len(rx[p]),
           NEW i \in Nat, NEW name \in SafeNames, Owes(stream[p], n, i, name),
           HeaderAt(stream[p], i), stream[p][i].head.cmd = "PUT",
           NEW len, len = stream[p][i].head.length, OpenedFrom(p, name, len)
    PROVE  FilesDone(p)
<1> DEFINE s == stream[p]
           m == n + 1
           data == Payload(s, i)
<1>1. s \in Seq(Unit) /\ Len(s) \in Nat /\ n \in Nat /\ HdrLen \in Nat
      /\ files \in [SafeNames -> File]
  BY StreamFacts, WireFacts
<1>2. i \in 1 .. Len(s)
  <2>1. i \in 1 .. Len(s) + 1 /\ i + HdrLen <= Len(s) + 1 /\ HdrLen > 0
    BY WireAssumption DEF HeaderAt, Owes, OwesFrom
  <2>. QED
    BY <1>1, <2>1
<1>3. WholeAt(s, i)
  BY <1>2 DEF PlainUploads
<1>4. name # NULL
  BY NullAssumption
<1>5. /\ n + 1 <= Len(AskedIn(s)) /\ AskedIn(s)[n + 1].cmd = "PUT"
      /\ AskedIn(s)[n + 1].name = name /\ AskedIn(s)[n + 1].bytes = Bytes(data)
  BY <1>1, <1>3, <1>4, UploadNext
<1>6. <<p, m>> \in Uploads(Asked, name) /\ Asked[p][m].bytes = Bytes(data)
  <2>1. <<p, n + 1>> \in Uploads(Asked, name)
    BY <1>1, <1>5, UploadingAt
  <2>. QED
    BY <1>5, <2>1 DEF Asked, AskedIn
<1>7. len = 0 => Bytes(data) = <<>>
  <2>1. i \in 1 .. Len(s) + 1
    BY <1>1, <1>2
  <2>2. data \in Seq(Unit) /\ Len(data) = len
    BY <1>1, <1>3, <2>1, MessageType
  <2> HIDE DEF data
  <2>3. Bytes(data) \in Seq(Byte) /\ Len(Bytes(data)) = len
    BY <2>2, BytesType
  <2>. QED
    BY <2>3, EmptySeq
<1>8. m = Len(rx[p]) + 1
  OBVIOUS
<1> HIDE DEF data, s, m
<1>9. Truncates(name) => Puts(p, m, name) /\ files'[name] = Truncated
  BY <1>1, <1>6 DEF Truncates, Puts
<1>10. ASSUME Replies(conn'[p], "PUT", 1)
       PROVE  Idle(conn'[p])
  <2> DEFINE bad == 1
             put == "PUT"
  <2>1. bad \in {0, 1} /\ bad # 0 /\ Replies(conn'[p], put, bad)
    BY <1>10
  <2> HIDE DEF bad, put
  <2>. QED
    BY <2>1 DEF Idle
<1>11. CASE Gone(p) /\ (files' = files \/ Truncates(name))
  BY <1>8, <1>9, <1>11 DEF FilesDone, Opens
<1>12. CASE files' = files /\ Replies(conn'[p], "PUT", 1)
  BY <1>10, <1>12 DEF FilesDone
<1>13. CASE Truncates(name) /\ len = 0 /\ Replies(conn'[p], "PUT", 0)
  <2>1. Opens(p, m, name)
    BY <1>6, <1>7, <1>9, <1>13 DEF Opens
  <2>. QED
    BY <1>8, <2>1 DEF FilesDone
<1>14. CASE Truncates(name) /\ len > 0 /\ Uploading(conn'[p], fdtab', name, len, 0)
  <2>1. Opens(p, m, name)
    BY <1>9, <1>14 DEF Opens
  <2>. QED
    BY <1>8, <2>1 DEF FilesDone
<1>. QED
  BY <1>11, <1>12, <1>13, <1>14 DEF OpenedFrom

LEMMA HeaderFiles ==
    ASSUME IInv, NEW p \in Peers, PlainUploads(stream[p]),
           NEW i \in Nat, NEW e, HeaderWhole(p, i, e)
    PROVE  FilesDone(p)
<1> DEFINE s == stream[p]
           n == Len(rx[p])
           h == s[i].head
           name == e.pending_put_name
           d == conn'[p]
<1>1. /\ HeaderAt(s, i) /\ Owes(s, n, i, name) /\ HeaderDone(p, e, h)
      /\ name \in SafeNames \cup {NULL}
  BY DEF HeaderWhole, Due, Parsed, Cleared, Conn
<1> HIDE DEF s, n, h, name, d
<1>2. CASE files' = files /\ (RefusedFrom(p, e, "PUT") \/ RefusedFrom(p, e, h.cmd))
  BY <1>2, RefusedFiles DEF FilesDone
<1>3. CASE name # NULL /\ h.cmd = "PUT" /\ OpenedFrom(p, name, h.length)
  BY <1>1, <1>3, OpenFiles DEF s, n, h
<1>4. CASE files' = files /\ RequestedFrom(p, e, h, <<>>)
  <2>1. Gone(p) \/ Requested(e, h, <<>>, d, fdtab')
    BY <1>4 DEF RequestedFrom, d
  <2>2. Gone(p) \/ Idle(d)
    BY <2>1, BareRequestFiles
  <2>. QED
    BY <1>4, <2>2 DEF FilesDone, d
<1>5. CASE files' = files /\ (Gone(p) \/ Expects(e, h, d))
  BY <1>5 DEF Expects, Idle, FilesDone, d
<1>. QED
  BY <1>1, <1>2, <1>3, <1>4, <1>5 DEF HeaderDone, d, name

LEMMA PayloadFiles ==
    ASSUME IInv, NEW p \in Peers, NEW i, NEW e, RequestWhole(p, i, e), files' = files
    PROVE  FilesDone(p)
<1> DEFINE s == stream[p]
           n == Len(rx[p])
           h == s[i].head
           data == Payload(s, i)
           d == conn'[p]
           ft == fdtab'
<1>1. /\ s \in Seq(Unit) /\ n \in Nat /\ Owes(s, n, i, NULL) /\ HeaderAt(s, i)
      /\ WholeAt(s, i) /\ h \notin Refused
      /\ Gone(p) \/ Requested(e, h, data, d, ft)
  BY StreamFacts DEF RequestWhole, RequestedFrom
<1> HIDE DEF s, n, h, data, d, ft
<1>2. h = s[i].head /\ data = Payload(s, i)
  BY DEF h, data
<1>3. ASSUME Requested(e, h, data, d, ft)
      PROVE  Idle(d) \/ Fetches(d, ft, AskedIn(s)[n + 1].name)
  BY <1>1, <1>2, <1>3, RequestFiles
<1>4. AskedIn(s) = Asked[p]
  BY DEF Asked, AskedIn, s
<1>. QED
  BY <1>1, <1>3, <1>4 DEF FilesDone, n, d, ft

(* What the upload under way has to store.                                 *)
UploadHas(p, n, f, left, bytes) ==
    /\ f.name \in SafeNames /\ <<p, n + 1>> \in Uploads(Asked, f.name)
    /\ f.off \in Nat /\ left \in Nat
    /\ bytes \in Seq(Byte) /\ Len(bytes) = f.off + left
    /\ \A k \in 1 .. left : bytes[f.off + k] = stream[p][rcvd[p] + k].byte

LEMMA UploadBytes ==
    ASSUME IInv, NEW p \in Peers, Connected(p), Follows(p),
           conn[p].state = "READ_PUT_STREAM"
    PROVE  UploadHas(p, Len(rx[p]), fdtab[conn[p].put_fd], conn[p].put_left,
                     Asked[p][Len(rx[p]) + 1].bytes)
<1> DEFINE c == conn[p]
           n == Len(rx[p])
           f == fdtab[c.put_fd]
           left == c.put_left
           bytes == Asked[p][n + 1].bytes
           s == stream[p]
           got == rcvd[p]
           off == f.off
           name == f.name
           i == got + 1 - HdrLen - off
           payload == Payload(s, i)
<1>1. /\ c \in Conn /\ left \in Nat /\ c.put_fd # NoFd /\ c.pending_put_name # NULL
      /\ f \in FdEntry /\ name = c.pending_put_name
  <2>1. c \in Conn /\ Fit(c) /\ c.put_fd \in 0 .. FdLimit
    BY ConnFits
  <2>2. c.put_fd # NoFd /\ c.pending_put_name # NULL /\ left \in Nat
    BY <2>1 DEF Fit, BuffersFit, Conn
  <2>3. f \in FdEntry /\ name = c.pending_put_name
    BY <2>1, <2>2, OpenIsFd, ServerFacts DEF IInv, DescriptorsOwned
  <2>. QED
    BY <2>1, <2>2, <2>3
<1>2. off \in Nat /\ name # NULL /\ name \in SafeNames
  BY <1>1 DEF FdEntry, Conn
<1>3. /\ s \in Seq(Unit) /\ Len(s) \in Nat /\ n \in Nat /\ got \in Nat /\ HdrLen \in Nat
  BY StreamFacts
<1>4. PlainUploads(s) /\ AtUpload(c, f, s, n, i)
  BY DEF Follows, Following
<1>5. /\ Owes(s, n, i, name) /\ HeaderAt(s, i)
      /\ s[i].head.cmd = "PUT" /\ s[i].head.length = off + left
  BY <1>1, <1>4 DEF AtUpload
<1>6. i \in 1 .. Len(s) /\ i = got + 1 - HdrLen - off
  <2> HIDE DEF s, got, off
  <2>1. i \in 1 .. Len(s) + 1 /\ i + HdrLen <= Len(s) + 1 /\ HdrLen > 0
    BY <1>5, WireAssumption DEF HeaderAt, Owes, OwesFrom
  <2> HIDE DEF i
  <2>2. i \in 1 .. Len(s)
    BY <1>3, <2>1
  <2>. QED
    BY <2>2 DEF i
<1>7. WholeAt(s, i)
  BY <1>4, <1>5, <1>6 DEF PlainUploads
<1>8. /\ n + 1 <= Len(AskedIn(s)) /\ AskedIn(s)[n + 1].cmd = "PUT"
      /\ AskedIn(s)[n + 1].name = name /\ AskedIn(s)[n + 1].bytes = Bytes(payload)
  <2>1. /\ s \in Seq(Unit) /\ n \in Nat /\ name # NULL
        /\ Owes(s, n, i, name) /\ HeaderAt(s, i) /\ WholeAt(s, i)
        /\ s[i].head.cmd = "PUT"
    BY <1>2, <1>3, <1>5, <1>7
  <2> HIDE DEF s, i, name
  <2>. QED
    BY <2>1, UploadNext DEF payload
<1>9. <<p, n + 1>> \in Uploads(Asked, name) /\ bytes = Bytes(payload)
  <2>1. <<p, n + 1>> \in Uploads(Asked, name)
    BY <1>3, <1>8, UploadingAt
  <2>. QED
    BY <1>8, <2>1 DEF Asked, AskedIn
<1> DEFINE len == off + left
<1>10. /\ payload \in Seq(Unit) /\ Len(payload) = len
       /\ \A k \in 1 .. len : payload[k] = s[i + HdrLen + k - 1]
  <2>1. i \in 1 .. Len(s) + 1
    BY <1>3, <1>6
  <2>. QED
    BY <1>3, <1>5, <1>7, <2>1, MessageType
<1>11. len \in Nat /\ len = off + left
  BY <1>1, <1>2
<1> HIDE DEF s, got, off, name, i, payload, len, bytes, f, left, n
<1>12. /\ bytes \in Seq(Byte) /\ Len(bytes) = len
       /\ \A k \in 1 .. len : bytes[k] = payload[k].byte
  BY <1>9, <1>10, BytesType
<1>13. ASSUME NEW k \in 1 .. left
       PROVE  bytes[off + k] = s[got + k].byte
  <2>1. off + k \in 1 .. len /\ i + HdrLen + (off + k) - 1 = got + k
    BY <1>1, <1>2, <1>3, <1>6, <1>11
  <2>. QED
    BY <1>10, <1>12, <2>1
<1>14. UploadHas(p, n, f, left, bytes)
  BY <1>1, <1>2, <1>9, <1>11, <1>12, <1>13 DEF s, got, off, name, UploadHas
<1>. QED
  BY <1>14 DEF n, f, left, bytes, c

(* The blocks that arrive are the ones that the file has to have next.     *)
LEMMA BlocksArrive ==
    ASSUME IInv, NEW p \in Peers, NEW left \in Nat, NEW w \in Nat, w <= Got(p, left),
           NEW new, new = Bytes(Received(p, w))
    PROVE  /\ new \in Seq(Byte) /\ Len(new) = w
           /\ \A k \in 1 .. w : new[k] = stream[p][rcvd[p] + k].byte
<1> DEFINE s == stream[p]
           got == rcvd[p]
           units == Received(p, w)
<1>1. /\ s \in Seq(Unit) /\ Len(s) \in Nat /\ got \in Nat
      /\ sent[p] \in Nat /\ sent[p] <= Len(s)
  BY StreamFacts, WireFacts
<1>2. Got(p, w) = w /\ w <= sent[p] - got
  <2> DEFINE have == Avail(p)
  <2>1. have \in Int /\ have = sent[p] - got
    BY <1>1 DEF Avail
  <2>2. Got(p, left) = MinOf(have, left) /\ Got(p, w) = MinOf(have, w)
    BY DEF Got
  <2> HIDE DEF have, got
  <2>. QED
    BY <2>1, <2>2 DEF MinOf
<1>3. units \in Seq(Unit) /\ Len(units) = w
  BY <1>2, TakeType
<1>4. units = SubSeq(s, got + 1, got + w)
  BY <1>2 DEF Received
<1>5. new = Bytes(units)
  OBVIOUS
<1> HIDE DEF s, got, units
<1>6. ASSUME NEW k \in 1 .. w
      PROVE  units[k] = s[got + k]
  <2> DEFINE first == got + 1
             last == got + w
  <2>1. /\ first \in Int /\ last \in Int /\ k \in 1 .. last - first + 1
        /\ first + k - 1 = got + k
        /\ \A j \in first .. last : j \in 1 .. Len(s)
    BY <1>1, <1>2
  <2>2. \A j \in first .. last : s[j] \in Unit
    BY <1>1, <2>1, ElementOfSeq
  <2>3. units = SubSeq(s, first, last)
    BY <1>4
  <2> HIDE DEF first, last
  <2>4. units[k] = s[first + k - 1]
    BY <2>1, <2>2, <2>3, SubSeqProperties
  <2>. QED
    BY <2>1, <2>4
<1>7. /\ new \in Seq(Byte) /\ Len(new) = w
      /\ \A k \in 1 .. w : new[k] = units[k].byte
  BY <1>3, <1>5, BytesType
<1>. QED
  BY <1>6, <1>7 DEF s, got

(* write puts what arrived where it belongs.                               *)
LEMMA BlocksWritten ==
    ASSUME NEW old \in Seq(Byte), NEW off \in Nat, NEW new \in Seq(Byte),
           NEW w, w = Len(new), NEW bytes, \A k \in 1 .. w : new[k] = bytes[off + k],
           NEW now, now = WriteAt(old, off, new), NEW upto, upto = off + w
    PROVE  Writes(old, now, off, upto, bytes)
<1>1. /\ now \in Seq(Byte) /\ Len(now) = MaxOf(Len(old), upto)
      /\ \A k \in 1 .. Len(now) :
            now[k] = IF k \in off + 1 .. upto THEN new[k - off]
                     ELSE IF k <= Len(old) THEN old[k] ELSE NULL
  <2>1. /\ WriteAt(old, off, new) \in Seq(Byte)
        /\ Len(WriteAt(old, off, new)) = MaxOf(Len(old), off + Len(new))
        /\ \A k \in 1 .. MaxOf(Len(old), off + Len(new)) :
              WriteAt(old, off, new)[k] =
                 IF k \in off + 1 .. off + Len(new) THEN new[k - off]
                 ELSE IF k <= Len(old) THEN old[k] ELSE NULL
    BY WriteAtProperties
  <2>. QED
    BY <2>1
<1>2. w \in Nat
  BY LenProperties
<1>3. ASSUME NEW k \in off + 1 .. upto
      PROVE  new[k - off] = bytes[k]
  <2> DEFINE j == k - off
  <2>1. j \in 1 .. w /\ off + j = k
    BY <1>2
  <2> HIDE DEF j
  <2>2. new[j] = bytes[off + j]
    BY <2>1
  <2>. QED
    BY <2>1, <2>2 DEF j
<1>. QED
  BY <1>1, <1>3 DEF Writes

LEMMA StoresFiles ==
    ASSUME IInv, NEW p \in Peers, Connected(p), Follows(p),
           conn[p].state = "READ_PUT_STREAM",
           NEW f, f = fdtab[conn[p].put_fd], NEW m, m = Len(rx[p]) + 1,
           NEW w \in Nat, w <= Got(p, conn[p].put_left), w <= conn[p].put_left,
           Stores(p, w)
    PROVE  Puts(p, m, f.name) /\ WritesOn(f.name, f.off, f.off + w, Asked[p][m].bytes)
<1> DEFINE left == conn[p].put_left
           new == Bytes(Received(p, w))
           bytes == Asked[p][m].bytes
           off == f.off
           upto == off + w
           name == f.name
           old == files[name].data
           now == WriteAt(old, off, new)
<1>1. /\ name \in SafeNames /\ <<p, m>> \in Uploads(Asked, name)
      /\ off \in Nat /\ left \in Nat
      /\ bytes \in Seq(Byte) /\ Len(bytes) = off + left
      /\ \A k \in 1 .. left : bytes[off + k] = stream[p][rcvd[p] + k].byte
  <2>1. UploadHas(p, Len(rx[p]), f, left, bytes)
    BY UploadBytes
  <2>2. <<p, m>> = <<p, Len(rx[p]) + 1>>
    OBVIOUS
  <2> HIDE DEF left, bytes
  <2>. QED
    BY <2>1, <2>2 DEF UploadHas
<1>2. /\ new \in Seq(Byte) /\ Len(new) = w
      /\ \A k \in 1 .. w : new[k] = stream[p][rcvd[p] + k].byte
  <2>1. left \in Nat
    <3> HIDE DEF left, bytes, off, name
    <3>. QED
      BY <1>1
  <2>2. w <= Got(p, left) /\ new = Bytes(Received(p, w))
    OBVIOUS
  <2> HIDE DEF left, new
  <2>. QED
    BY <2>1, <2>2, BlocksArrive
<1>3. files \in [SafeNames -> File] /\ files[name] \in File
  <2>1. files \in [SafeNames -> File]
    BY WireFacts
  <2>2. name \in SafeNames
    <3> HIDE DEF left, bytes, off, name
    <3>. QED
      BY <1>1
  <2>. QED
    BY <2>1, <2>2
<1>4. files' = [files EXCEPT ![name].data = IF new = <<>> THEN @ ELSE now]
  BY DEF Stores, Written, Stored
<1>5. w <= left
  OBVIOUS
<1> HIDE DEF new, bytes, left
<1>6. ASSUME NEW k \in 1 .. w
      PROVE  new[k] = bytes[off + k]
  <2>1. k \in 1 .. left
    BY <1>1, <1>5
  <2>. QED
    BY <1>1, <1>2, <2>1
<1>7. old \in Seq(Byte)
  BY <1>3 DEF File
<1>8. Writes(old, now, off, upto, bytes) /\ now \in Seq(Byte)
  <2> HIDE DEF off, old, upto, now
  <2>1. Writes(old, now, off, upto, bytes)
    BY <1>1, <1>2, <1>6, <1>7, BlocksWritten DEF now, upto
  <2>. QED
    BY <2>1 DEF Writes
<1>9. upto \in Nat /\ off <= upto /\ upto <= Len(bytes)
  <2> HIDE DEF off
  <2>. QED
    BY <1>1, <1>5
<1> HIDE DEF off, old, upto, now, name
<1>10. Puts(p, m, name)
  BY <1>1, <1>3, <1>4 DEF Puts
<1>11. CASE w = 0
  <2>1. new = <<>> /\ upto = off
    BY <1>1, <1>2, <1>11, EmptySeq DEF upto
  <2>2. files'[name] = files[name]
    BY <1>1, <1>3, <1>4, <2>1 DEF File
  <2>3. WritesOn(name, off, upto, bytes)
    BY <1>1, <1>9, <2>1, <2>2 DEF WritesOn
  <2>. QED
    BY <1>10, <2>3 DEF name, off, upto, bytes
<1>12. CASE w > 0
  <2>1. new # <<>> /\ off < upto
    BY <1>1, <1>2, <1>12 DEF upto
  <2>2. files' = [files EXCEPT ![name].data = now]
    BY <1>4, <2>1
  <2>3. /\ files'[name].data = now /\ files'[name].kind = files[name].kind
        /\ files'[name] \in File
    BY <1>1, <1>3, <1>8, <2>2 DEF File
  <2>4. WritesOn(name, off, upto, bytes)
    BY <1>1, <1>8, <1>9, <2>1, <2>3 DEF WritesOn, old
  <2>. QED
    BY <1>10, <2>4 DEF name, off, upto, bytes
<1>. QED
  BY <1>11, <1>12

LEMMA PutStreamFiles ==
    ASSUME IInv, NEW p \in Peers, Connected(p), Follows(p),
           conn[p].state = "READ_PUT_STREAM", HandlePutStream(p)
    PROVE  FilesDone(p)
<1> DEFINE c == conn[p]
           f == fdtab[c.put_fd]
           left == c.put_left
           n == Got(p, left)
           m == Len(rx[p]) + 1
           bytes == Asked[p][m].bytes
           d == conn'[p]
<1>1. /\ left \in Nat /\ n \in Nat /\ n <= left
      /\ \/ Gone(p) /\ \E w \in 0 .. n : Stores(p, w)
         \/ n = left /\ Stores(p, n) /\ Replies(d, "PUT", 0)
         \/ /\ n < left /\ Stores(p, n)
            /\ Uploading(d, fdtab', c.pending_put_name, left - n, f.off + n)
  BY PutStreamDoes
<1>2. /\ Len(bytes) = f.off + left /\ f.off \in Nat
  <2>1. UploadHas(p, Len(rx[p]), f, left, bytes)
    BY UploadBytes
  <2>. QED
    BY <2>1 DEF UploadHas
<1>3. f.name = c.pending_put_name
  <2>1. c.put_fd # NoFd
    BY ConnFits DEF Fit, BuffersFit
  <2>. QED
    BY <2>1 DEF IInv, DescriptorsOwned
<1>4. ASSUME NEW w \in 0 .. n, Stores(p, w)
      PROVE  Puts(p, m, f.name) /\ WritesOn(f.name, f.off, f.off + w, bytes)
  <2>1. w \in Nat /\ w <= n /\ w <= left
    BY <1>1, <1>4
  <2>. QED
    BY <1>4, <2>1, StoresFiles
<1>5. n \in 0 .. n
  BY <1>1
<1>6. conn[p].state = "READ_PUT_STREAM"
  OBVIOUS
<1> HIDE DEF c, f, left, n, m, bytes, d
<1>7. GoesOnPutting(p, m, f)
  <2>1. CASE Gone(p) /\ \E w \in 0 .. n : Stores(p, w)
    BY <1>4, <2>1 DEF GoesOnPutting, bytes
  <2>2. CASE n = left /\ Stores(p, n) /\ Replies(d, "PUT", 0)
    BY <1>2, <1>4, <1>5, <2>2 DEF GoesOnPutting, bytes, d
  <2>3. CASE /\ n < left /\ Stores(p, n)
             /\ Uploading(d, fdtab', c.pending_put_name, left - n, f.off + n)
    BY <1>3, <1>4, <1>5, <2>3 DEF GoesOnPutting, bytes, d
  <2>. QED
    BY <1>1, <2>1, <2>2, <2>3
<1>. QED
  BY <1>6, <1>7 DEF FilesDone, f, c, m

-----------------------------------------------------------------------------
(* What a handler does to the files and to the replies.                    *)

LEMMA HandlerFiles ==
    ASSUME IInv, NEW e \in batch, e.fd # LFD, NEW p, p = e.peer, Handler(p, e),
           p \in Peers, Follows(p)
    PROVE  \/ rx' = rx /\ FilesDone(p)
           \/ /\ files' = files /\ conn[p].state = "WRITE_BUFFER"
              /\ Space(p) > 0 \/ Broken(p)
              /\ HandleWriteBuffer(p)
           \/ /\ files' = files /\ conn[p].state = "WRITE_GET_FILE"
              /\ HandleWriteGetFile(p)
<1>1. /\ Connected(p) /\ PlainUploads(stream[p])
      /\ e.wr => Space(p) > 0 \/ Broken(p)
  BY EventFacts DEF Follows
<1>2. CASE Drop(p, conn[p], fdtab) /\ UNCHANGED <<rcvd, rx, unread, files>>
  BY <1>2, DropGone DEF FilesDone
<1>3. CASE conn[p].state = "READ_HEADER" /\ HandleReadHeader(p)
  <2>1. /\ rx' = rx
        /\ \/ Gone(p) /\ files' = files
           \/ conn'[p].state = "READ_HEADER" /\ files' = files
           \/ \E i \in Nat : \E h : HeaderWhole(p, i, h)
    BY <1>1, <1>3, HeaderArrives
  <2>2. CASE \E i \in Nat : \E h : HeaderWhole(p, i, h)
    BY <1>1, <2>1, <2>2, HeaderFiles
  <2>. QED
    BY <2>1, <2>2 DEF FilesDone, Idle
<1>4. CASE conn[p].state = "READ_PAYLOAD" /\ HandleReadPayload(p)
  <2>1. /\ rx' = rx /\ files' = files
        /\ \/ Gone(p)
           \/ conn'[p].state = "READ_PAYLOAD"
           \/ \E i, h : RequestWhole(p, i, h)
    BY <1>1, <1>4, PayloadArrives
  <2>2. CASE \E i, h : RequestWhole(p, i, h)
    BY <2>1, <2>2, PayloadFiles
  <2>. QED
    BY <2>1, <2>2 DEF FilesDone, Idle
<1>5. CASE conn[p].state = "READ_PUT_STREAM" /\ HandlePutStream(p)
  <2>1. rx' = rx
    BY <1>5 DEF HandlePutStream
  <2>. QED
    BY <1>1, <1>5, <2>1, PutStreamFiles
<1>6. CASE e.wr /\ conn[p].state = "WRITE_BUFFER" /\ HandleWriteBuffer(p)
  <2>1. files' = files
    BY <1>1, <1>6, WriteBufferDoes
  <2>. QED
    BY <1>1, <1>6, <2>1
<1>7. CASE conn[p].state = "WRITE_GET_FILE" /\ HandleWriteGetFile(p)
  <2>1. files' = files
    BY <1>7, WriteGetFileDoes
  <2>. QED
    BY <1>7, <2>1
<1>. QED
  BY <1>2, <1>3, <1>4, <1>5, <1>6, <1>7 DEF Handler

(* The steps that are no handler's neither write a file nor send.          *)
LEMMA OtherSteps ==
    ASSUME IInv, [Next]_vars, \A e \in batch : ~Handle(e)
    PROVE  /\ stream' = stream /\ rx' = rx /\ files' = files
           /\ \A q \in Peers : conn'[q].state = "READ_HEADER" \/ SameConnection(q)
<1>1. CASE EpollWait \/ AcceptStart \/ AcceptDone \/ UNCHANGED vars
  <2>1. UNCHANGED <<wireVars, conn, fdtab>>
    BY <1>1 DEF EpollWait, AcceptStart, AcceptDone, vars, serverVars
  <2>. QED
    BY <2>1 DEF wireVars, SameConnection
<1>2. CASE EpollWaitFails \/ \E e \in batch : KilledBySigpipe(e)
  <2>1. Stop
    BY <1>2 DEF EpollWaitFails, KilledBySigpipe
  <2>2. /\ stream' = stream /\ rx' = rx /\ files' = files
        /\ \A q \in Peers : conn'[q] = NoConn
    BY <2>1 DEF Stop
  <2>. QED
    BY <2>2 DEF NoConn, NewConn
<1>3. CASE AcceptOne
  <2> DEFINE low == LowestFree
             p == Head(backlog)
  <2>1. /\ stream' = stream /\ rx' = rx /\ files' = files
        /\ backlog # <<>> /\ Free # {}
        /\ Accepted(p, low) \/ UNCHANGED <<conn, conn_map, fdtab, interest>>
    BY <1>3 DEF AcceptOne
  <2>2. low \in Fds /\ fdtab[low].kind = "free"
    BY <2>1, LowestFreeType
  <2> HIDE DEF low, p
  <2>3. ASSUME NEW q \in Peers, Accepted(p, low)
        PROVE  conn'[q].state = "READ_HEADER" \/ SameConnection(q)
    <3>1. CASE q = p
      <4>1. conn'[q] = NewConn(low)
        BY <2>3, <3>1, ServerFacts DEF Accepted
      <4>. QED
        BY <4>1 DEF NewConn
    <3>2. CASE q # p
      <4>1. conn'[q] = conn[q] /\ \A fd \in Fds \ {low} : fdtab'[fd] = fdtab[fd]
        BY <2>3, <3>2, ServerFacts DEF Accepted
      <4>2. /\ conn[q].put_fd # NoFd =>
                   conn[q].put_fd \in Fds /\ fdtab[conn[q].put_fd].kind = "put"
            /\ conn[q].get_fd # NoFd =>
                   conn[q].get_fd \in Fds /\ fdtab[conn[q].get_fd].kind = "get"
        BY ConnFits, OpenIsFd DEF IInv, DescriptorsOwned
      <4>. QED
        BY <2>1, <2>2, <4>1, <4>2 DEF SameConnection
    <3>. QED
      BY <3>1, <3>2
  <2>. QED
    BY <2>1, <2>3 DEF SameConnection
<1>4. CASE \E p \in Peers : Peer(p)
  <2>1. stream' = stream /\ rx' = rx /\ files' = files /\ conn' = conn /\ fdtab' = fdtab
    BY <1>4 DEF Peer, PeerConnects, PeerSends, PeerReads, PeerLeaves, Connect, Send, Read,
                Leave, serverVars
  <2>. QED
    BY <2>1 DEF SameConnection
<1>. QED
  BY <1>1, <1>2, <1>3, <1>4 DEF Next, Server

(* What a step does to the files, the replies and the connections: nothing *)
(* or what the handler of p does.                                          *)
HandlerOf(p) ==
    /\ Connected(p) /\ Follows(p) /\ Handled(p)
    /\ rx \in [Peers -> Seq(Reply)]
    /\ \A q \in Peers \ {p} : SameConnection(q)
    /\ \/ rx' = rx /\ FilesDone(p)
       \/ /\ files' = files /\ conn[p].state = "WRITE_BUFFER"
          /\ Space(p) > 0 \/ Broken(p)
          /\ HandleWriteBuffer(p)
       \/ /\ files' = files /\ conn[p].state = "WRITE_GET_FILE"
          /\ HandleWriteGetFile(p)

LEMMA StepCases ==
    ASSUME IInv, AllFollow, [Next]_vars
    PROVE  /\ stream' = stream
           /\ \/ \E p \in Peers : HandlerOf(p)
              \/ /\ rx' = rx /\ files' = files
                 /\ \A q \in Peers : conn'[q].state = "READ_HEADER" \/ SameConnection(q)
<1>1. ASSUME NEW e \in batch, Handle(e)
      PROVE  stream' = stream /\ \E p \in Peers : HandlerOf(p)
  <2> DEFINE p == e.peer
  <2>1. /\ p \in Peers /\ Connected(p) /\ conn_map[e.fd] = p /\ e.fd # LFD
        /\ stream' = stream
    BY <1>1, EventFacts DEF Handle
  <2>2. Handler(p, e) /\ Follows(p)
    BY <1>1, <2>1 DEF Handle, AllFollow
  <2>3. Handled(p)
    BY <2>1, <2>2, HandlerHandled
  <2> HIDE DEF p
  <2>4. \A q \in Peers \ {p} : SameConnection(q)
    BY <2>1, <2>3, OthersStay
  <2>5. \/ rx' = rx /\ FilesDone(p)
        \/ /\ files' = files /\ conn[p].state = "WRITE_BUFFER"
           /\ Space(p) > 0 \/ Broken(p)
           /\ HandleWriteBuffer(p)
        \/ /\ files' = files /\ conn[p].state = "WRITE_GET_FILE"
           /\ HandleWriteGetFile(p)
    BY <2>1, <2>2, HandlerFiles DEF p
  <2>6. HandlerOf(p)
    BY <2>1, <2>2, <2>3, <2>4, <2>5, WireFacts DEF HandlerOf
  <2>. QED
    BY <2>1, <2>6
<1>2. ASSUME \A e \in batch : ~Handle(e)
      PROVE  /\ stream' = stream /\ rx' = rx /\ files' = files
             /\ \A q \in Peers : conn'[q].state = "READ_HEADER" \/ SameConnection(q)
  BY <1>2, OtherSteps
<1>. QED
  BY <1>1, <1>2

-----------------------------------------------------------------------------
(* Whose blocks the files have.                                            *)

LEMMA UnspoiledIs ==
    /\ FilesUnspoiled <=> AllInPlace(Asked, files)
    /\ FilesUnspoiled' <=> AllInPlace(Asked', files')
BY DEF FilesUnspoiled, BlocksInPlace, InPlace, AllInPlace

LEMMA SameAsked ==
    ASSUME stream' = stream
    PROVE  Asked' = Asked
BY DEF Asked

LEMMA WrittenInPlace ==
    ASSUME FilesUnspoiled, NEW p, NEW m, NEW name, Puts(p, m, name),
           NEW from, NEW upto, WritesOn(name, from, upto, Asked[p][m].bytes),
           files[name] \in File, NEW k \in DOMAIN files'[name].data
    PROVE  InPlace(Asked, name, k, files'[name].data[k])
<1> DEFINE old == files[name].data
           now == files'[name].data
           bytes == Asked[p][m].bytes
           u == <<p, m>>
<1>1. name \in SafeNames /\ u \in Uploads(Asked, name)
  BY DEF Puts
<1>2. \A j \in DOMAIN old : InPlace(Asked, name, j, old[j])
  BY <1>1, UnspoiledIs DEF AllInPlace
<1>3. CASE from = upto /\ files'[name] = files[name]
  BY <1>2, <1>3
<1>4. CASE /\ from < upto /\ files'[name] \in File
           /\ files'[name].kind = files[name].kind
           /\ Writes(old, now, from, upto, bytes)
  <2>1. /\ now \in Seq(Byte) /\ old \in Seq(Byte) /\ bytes \in Seq(Byte)
        /\ from \in Nat /\ upto \in Nat /\ upto <= Len(bytes)
    BY <1>4 DEF WritesOn, File
  <2>2. /\ k \in 1 .. Len(now)
        /\ now[k] = IF k \in from + 1 .. upto THEN bytes[k]
                    ELSE IF k <= Len(old) THEN old[k] ELSE NULL
    BY <1>4, <2>1, LenProperties DEF Writes
  <2>3. CASE k \in from + 1 .. upto
    <3>1. k \in DOMAIN bytes /\ bytes[k] = now[k]
      BY <2>1, <2>2, <2>3, LenProperties
    <3>2. Asked[u[1]][u[2]].bytes = bytes
      OBVIOUS
    <3> HIDE DEF u, bytes, now
    <3>3. InPlace(Asked, name, k, now[k])
      BY <1>1, <3>1, <3>2 DEF InPlace
    <3>. QED
      BY <3>3 DEF now
  <2>4. CASE k \notin from + 1 .. upto /\ k <= Len(old)
    <3>1. k \in DOMAIN old /\ now[k] = old[k]
      BY <2>1, <2>2, <2>4, LenProperties
    <3>. QED
      BY <1>2, <3>1
  <2>5. CASE k \notin from + 1 .. upto /\ ~(k <= Len(old))
    BY <2>2, <2>5 DEF InPlace
  <2>. QED
    BY <2>3, <2>4, <2>5
<1>. QED
  BY <1>3, <1>4 DEF WritesOn

LEMMA StepUnspoiled ==
    ASSUME IInv, AllFollow, FilesUnspoiled, [Next]_vars
    PROVE  FilesUnspoiled'
<1>1. stream' = stream /\ Asked' = Asked
  BY StepCases, SameAsked
<1>2. ASSUME files' = files
      PROVE  FilesUnspoiled'
  BY <1>1, <1>2, UnspoiledIs
<1>3. ASSUME NEW p \in Peers, FilesDone(p)
      PROVE  FilesUnspoiled'
  <2> DEFINE m == Len(rx[p]) + 1
             f == fdtab[conn[p].put_fd]
  <2>1. ASSUME NEW name, Puts(p, m, name),
               \A k \in DOMAIN files'[name].data : InPlace(Asked, name, k, files'[name].data[k])
        PROVE  FilesUnspoiled'
    <3>1. ASSUME NEW other \in SafeNames, NEW k \in DOMAIN files'[other].data
          PROVE  InPlace(Asked, other, k, files'[other].data[k])
      <4>1. CASE other = name
        BY <2>1, <3>1, <4>1
      <4>2. CASE other # name
        <5>1. files'[other] = files[other]
          BY <2>1, <4>2 DEF Puts
        <5>. QED
          BY <3>1, <5>1, UnspoiledIs DEF AllInPlace
      <4>. QED
        BY <4>1, <4>2
    <3>. QED
      BY <1>1, <3>1, UnspoiledIs DEF AllInPlace
  <2> HIDE DEF m, f
  <2>2. ASSUME NEW name, Opens(p, m, name)
        PROVE  FilesUnspoiled'
    <3>1. Puts(p, m, name) /\ files'[name].data = <<>>
      BY <2>2 DEF Opens, Truncated
    <3>. QED
      BY <2>1, <3>1
  <2>3. ASSUME GoesOnPutting(p, m, f)
        PROVE  FilesUnspoiled'
    <3>1. Puts(p, m, f.name) /\ f.name \in SafeNames
      BY <2>3 DEF GoesOnPutting, Puts
    <3>2. PICK upto : WritesOn(f.name, f.off, upto, Asked[p][m].bytes)
      BY <2>3 DEF GoesOnPutting
    <3>3. files[f.name] \in File
      BY <3>1, WireFacts
    <3>. QED
      BY <2>1, <3>1, <3>2, <3>3, WrittenInPlace
  <2>. QED
    BY <1>2, <1>3, <2>2, <2>3 DEF FilesDone, m, f
<1>. QED
  BY <1>2, <1>3, StepCases DEF HandlerOf

(* Each block of a file is one that was sent under its name, at its place: *)
(* nothing of another connection or of another message gets into a file    *)
(* (handle_put_stream, handle_read_header).                                *)
THEOREM BlocksSafe ==
    ASSUME \A p \in Peers : \A s \in Streams[p] : PlainUploads(s)
    PROVE  Spec => []FilesUnspoiled
<1>1. Init => IInv /\ AllFollow
  BY InitInv, InitFollows
<1>2. Init => FilesUnspoiled
  <2> SUFFICES ASSUME Init PROVE FilesUnspoiled
    OBVIOUS
  <2>1. files \in Directories
    BY DEF Init, WireInit
  <2>2. AllInPlace(Asked, files)
    BY <2>1 DEF InPlace, AllInPlace
  <2>. QED
    BY <2>2, UnspoiledIs
<1>3. IInv /\ AllFollow /\ [Next]_vars => (IInv /\ AllFollow)'
  BY NextInv, NextFollows
<1>4. IInv /\ AllFollow /\ FilesUnspoiled /\ [Next]_vars => FilesUnspoiled'
  BY StepUnspoiled
<1>. QED
  BY <1>1, <1>2, <1>3, <1>4, PTL DEF Spec

-----------------------------------------------------------------------------
(* What the directory holds of the uploads that were acknowledged and of   *)
(* the one under way, as long as nobody else writes their name.            *)
Storing(c, f, asked, p, n, dir) ==
    LET m == IF c.out_sent = 0 THEN n + 1 ELSE n IN
    /\ c.state = "READ_PUT_STREAM" /\ Uploads(asked, f.name) = {<<p, n + 1>>} =>
           dir[f.name] = [kind |-> "reg", data |-> SubSeq(asked[p][n + 1].bytes, 1, f.off)]
    /\ c.state = "WRITE_BUFFER" /\ c.out_buf[1].cmd = "PUT" /\ c.out_buf[1].status = 0 =>
           StoredWhole(asked, p, m, dir)

PutsKept ==
    \A p \in Peers :
        /\ \A i \in 1 .. Len(rx[p]) :
               rx[p][i].status = 0 => StoredWhole(Asked, p, i, files)
        /\ Connected(p) => Storing(conn[p], fdtab[conn[p].put_fd], Asked, p, Len(rx[p]), files)

(* The files of other uploads stay as they are.                            *)
LEMMA UntouchedFile ==
    ASSUME NEW p, FilesDone(p), NEW name \in SafeNames,
           <<p, Len(rx[p]) + 1>> \notin Uploads(Asked, name)
    PROVE  files'[name] = files[name]
BY DEF FilesDone, Opens, GoesOnPutting, Puts

LEMMA StoredStays ==
    ASSUME NEW p, FilesDone(p), NEW q, NEW i, StoredWhole(Asked, q, i, files),
           <<p, Len(rx[p]) + 1>> # <<q, i>>
    PROVE  StoredWhole(Asked, q, i, files')
<1> DEFINE r == Asked[q][i]
           u == <<p, Len(rx[p]) + 1>>
           v == <<q, i>>
<1> HIDE DEF u, v
<1>1. ASSUME r.cmd = "PUT", Uploads(Asked, r.name) = {v}
      PROVE  r.name \in SafeNames /\ files'[r.name] = files[r.name]
  <2>1. r.name \in SafeNames
    BY <1>1 DEF StoredWhole, v
  <2>2. u \notin Uploads(Asked, r.name)
    BY <1>1 DEF u, v
  <2>. QED
    BY <2>1, <2>2, UntouchedFile DEF u
<1>. QED
  BY <1>1 DEF StoredWhole, v

(* Begun, some blocks later, done.                                         *)
LEMMA Beginning ==
    ASSUME NEW bytes \in Seq(Byte), NEW upto \in Nat, upto <= Len(bytes),
           NEW part, part = SubSeq(bytes, 1, upto)
    PROVE  /\ part \in Seq(Byte) /\ Len(part) = upto
           /\ \A k \in 1 .. upto : part[k] = bytes[k]
<1> DEFINE m == 1
<1>1. \A k \in 1 .. upto : k \in 1 .. Len(bytes)
  BY LenProperties
<1>2. \A k \in 1 .. upto : bytes[k] \in Byte
  BY <1>1, ElementOfSeq
<1>3. /\ m \in Int /\ upto \in Int /\ upto - m + 1 = upto
      /\ (IF m <= upto THEN upto - m + 1 ELSE 0) = upto
      /\ \A k \in m .. upto : bytes[k] \in Byte
      /\ \A k \in 1 .. upto : m + k - 1 = k
  BY <1>2
<1>4. part = SubSeq(bytes, m, upto)
  OBVIOUS
<1> HIDE DEF m
<1>5. /\ part \in Seq(Byte) /\ Len(part) = IF m <= upto THEN upto - m + 1 ELSE 0
      /\ \A k \in 1 .. upto - m + 1 : part[k] = bytes[m + k - 1]
  BY <1>3, <1>4, SubSeqProperties
<1>. QED
  BY <1>3, <1>5

LEMMA PartStored ==
    ASSUME NEW bytes \in Seq(Byte), NEW off \in Nat, NEW upto \in Nat,
           off < upto, upto <= Len(bytes), NEW old, old = SubSeq(bytes, 1, off),
           NEW now, Writes(old, now, off, upto, bytes)
    PROVE  now = SubSeq(bytes, 1, upto)
<1> DEFINE all == SubSeq(bytes, 1, upto)
<1>1. Len(bytes) \in Nat /\ off <= Len(bytes)
  <2>1. Len(bytes) \in Nat
    BY LenProperties
  <2>. QED
    BY <2>1
<1>2. all \in Seq(Byte) /\ Len(all) = upto /\ \A k \in 1 .. upto : all[k] = bytes[k]
  BY Beginning
<1>3. old \in Seq(Byte) /\ Len(old) = off /\ \A k \in 1 .. off : old[k] = bytes[k]
  BY <1>1, Beginning
<1> HIDE DEF all
<1>4. MaxOf(off, upto) = upto
  BY DEF MaxOf
<1>5. /\ now \in Seq(Byte) /\ Len(now) = upto
      /\ \A k \in 1 .. upto :
            now[k] = IF k \in off + 1 .. upto THEN bytes[k]
                     ELSE IF k <= off THEN old[k] ELSE NULL
  BY <1>3, <1>4 DEF Writes
<1>6. ASSUME NEW k \in 1 .. upto
      PROVE  now[k] = all[k]
  <2>1. k \in off + 1 .. upto \/ (k \in 1 .. off /\ k <= off)
    OBVIOUS
  <2>2. CASE k \in off + 1 .. upto
    BY <1>2, <1>5, <2>2
  <2>3. CASE k \in 1 .. off /\ k <= off /\ k \notin off + 1 .. upto
    BY <1>2, <1>3, <1>5, <2>3
  <2>. QED
    BY <2>1, <2>2, <2>3
<1>. QED
  BY <1>2, <1>5, <1>6, SeqEqual DEF all

LEMMA NothingStored ==
    ASSUME NEW d, NEW f, NEW asked, NEW p, NEW n, NEW dir, d.state # "READ_PUT_STREAM",
           d.state = "WRITE_BUFFER" => d.out_buf[1].cmd # "PUT" \/ d.out_buf[1].status # 0
    PROVE  Storing(d, f, asked, p, n, dir)
BY DEF Storing
(* What a connection's own handler leaves of the upload it is at.          *)
OwnKept(p) ==
    Gone(p) \/ Storing(conn'[p], fdtab'[conn'[p].put_fd], Asked, p, Len(rx'[p]), files')

LEMMA NamedUpload ==
    ASSUME NEW p, NEW m, NEW name, Puts(p, m, name), NEW bytes, bytes = Asked[p][m].bytes,
           Uploads(Asked, name) = {<<p, m>>} =>
               files'[name] = [kind |-> "reg", data |-> bytes]
    PROVE  StoredWhole(Asked, p, m, files')
<1>1. name \in SafeNames /\ Asked[p][m].name = name
  BY UploadsHave DEF Puts
<1>. QED
  BY <1>1 DEF StoredWhole

LEMMA OpensStores ==
    ASSUME NEW p, NEW n, n = Len(rx[p]), NEW name, Opens(p, n + 1, name), rx' = rx
    PROVE  OwnKept(p)
<1> DEFINE d == conn'[p]
           m == n + 1
           bytes == Asked[p][m].bytes
           f == fdtab'[d.put_fd]
<1>1. Puts(p, m, name) /\ files'[name] = Truncated /\ rx'[p] = rx[p]
  BY DEF Opens
<1>2. \/ Gone(p)
      \/ Replies(d, "PUT", 0) /\ bytes = <<>>
      \/ \E left : Uploading(d, fdtab', name, left, 0)
  BY DEF Opens
<1> HIDE DEF m, bytes, d
<1>3. ASSUME Replies(d, "PUT", 0), bytes = <<>>
      PROVE  Storing(d, f, Asked, p, n, files')
  <2>1. files'[name] = [kind |-> "reg", data |-> bytes]
    BY <1>1, <1>3 DEF Truncated
  <2>2. StoredWhole(Asked, p, m, files')
    BY <1>1, <2>1, NamedUpload DEF bytes
  <2>3. d.state = "WRITE_BUFFER" /\ d.out_sent = 0
    BY <1>3 DEF Replies
  <2>. QED
    BY <2>2, <2>3 DEF Storing, m
<1>4. ASSUME NEW left, Uploading(d, fdtab', name, left, 0)
      PROVE  Storing(d, f, Asked, p, n, files')
  <2>1. d.state = "READ_PUT_STREAM" /\ f.name = name /\ f.off = 0
    BY <1>4 DEF Uploading
  <2>2. SubSeq(bytes, 1, 0) = <<>>
    BY SubSeqEmpty
  <2>3. files'[f.name] = [kind |-> "reg", data |-> SubSeq(bytes, 1, f.off)]
    BY <1>1, <2>1, <2>2 DEF Truncated
  <2>. QED
    BY <2>1, <2>3 DEF Storing, m, bytes
<1>. QED
  BY <1>1, <1>2, <1>3, <1>4 DEF OwnKept, d

LEMMA GoesOnStores ==
    ASSUME IInv, NEW p \in Peers, NEW n, n = Len(rx[p]), NEW f,
           conn[p].state = "READ_PUT_STREAM", GoesOnPutting(p, n + 1, f),
           Storing(conn[p], f, Asked, p, n, files), rx' = rx
    PROVE  OwnKept(p)
<1> DEFINE d == conn'[p]
           m == n + 1
           bytes == Asked[p][m].bytes
           name == f.name
           off == f.off
           old == files[name].data
           now == files'[name].data
<1>1. Puts(p, m, name) /\ rx'[p] = rx[p] /\ files[name] \in File
  BY WireFacts DEF GoesOnPutting, Puts
<1>2. PICK upto :
        /\ WritesOn(name, off, upto, bytes)
        /\ \/ Gone(p)
           \/ Replies(d, "PUT", 0) /\ upto = Len(bytes)
           \/ \E left : Uploading(d, fdtab', name, left, upto)
  BY DEF GoesOnPutting
<1>3. Uploads(Asked, name) = {<<p, m>>} =>
          files[name] = [kind |-> "reg", data |-> SubSeq(bytes, 1, off)]
  BY DEF Storing
<1> HIDE DEF m, bytes, name, off, d, old, now
<1>4. /\ off \in Nat /\ upto \in Nat /\ off <= upto
      /\ bytes \in Seq(Byte) /\ upto <= Len(bytes)
      /\ \/ off = upto /\ files'[name] = files[name]
         \/ /\ off < upto /\ files'[name] \in File
            /\ files'[name].kind = files[name].kind
            /\ Writes(old, now, off, upto, bytes)
  BY <1>2 DEF WritesOn, old, now
<1>5. ASSUME Uploads(Asked, name) = {<<p, m>>}
      PROVE  files'[name] = [kind |-> "reg", data |-> SubSeq(bytes, 1, upto)]
  <2> DEFINE part == SubSeq(bytes, 1, off)
  <2>1. files[name] = [kind |-> "reg", data |-> part]
    BY <1>3, <1>5
  <2> HIDE DEF part
  <2>2. old = part /\ files[name].kind = "reg"
    BY <2>1 DEF old
  <2>3. CASE off = upto /\ files'[name] = files[name]
    BY <2>1, <2>3 DEF part
  <2>4. CASE /\ off < upto /\ files'[name] \in File
             /\ files'[name].kind = files[name].kind
             /\ Writes(old, now, off, upto, bytes)
    <3>1. now = SubSeq(bytes, 1, upto)
      BY <1>4, <2>2, <2>4, PartStored DEF part
    <3>2. files'[name] = [kind |-> "reg", data |-> now]
      BY <2>2, <2>4 DEF File, now
    <3>. QED
      BY <3>1, <3>2
  <2>. QED
    BY <1>4, <2>3, <2>4
<1>6. ASSUME Replies(d, "PUT", 0), upto = Len(bytes), NEW g
      PROVE  Storing(d, g, Asked, p, n, files')
  <2>1. SubSeq(bytes, 1, upto) = bytes
    BY <1>4, <1>6, SubSeqFull
  <2>2. StoredWhole(Asked, p, m, files')
    BY <1>1, <1>5, <2>1, NamedUpload DEF bytes
  <2>3. d.state = "WRITE_BUFFER" /\ d.out_sent = 0
    BY <1>6 DEF Replies
  <2>. QED
    BY <2>2, <2>3 DEF Storing, m
<1>7. ASSUME NEW left, Uploading(d, fdtab', name, left, upto), NEW g, g = fdtab'[d.put_fd]
      PROVE  Storing(d, g, Asked, p, n, files')
  <2>1. d.state = "READ_PUT_STREAM" /\ g.name = name /\ g.off = upto
    BY <1>7 DEF Uploading
  <2>. QED
    BY <1>5, <2>1 DEF Storing, m, bytes
<1>. QED
  BY <1>1, <1>2, <1>6, <1>7 DEF OwnKept, d
LEMMA BufferStores ==
    ASSUME IInv, NEW p \in Peers, NEW g,
           conn[p].state = "WRITE_BUFFER", Space(p) > 0 \/ Broken(p), HandleWriteBuffer(p),
           Storing(conn[p], g, Asked, p, Len(rx[p]), files), files' = files
    PROVE  OwnKept(p)
<1> DEFINE c == conn[p]
           n == Len(rx[p])
           r == c.out_buf[1]
           from == c.out_sent
           m == IF from = 0 THEN n + 1 ELSE n
           log == rx[p]
           new == rx'[p]
           d == conn'[p]
           f == fdtab'[d.put_fd]
<1>1. /\ r \in Reply /\ from \in Nat
      /\ \/ Gone(p)
         \/ \E upto \in Nat :
               /\ from < upto /\ upto <= Len(r.body) + 1
               /\ new = Extend(log, r, from, upto)
               /\ BufferWritten(p, c, upto)
  BY WriteBufferDoes
<1>2. r.cmd = "PUT" /\ r.status = 0 => StoredWhole(Asked, p, m, files)
  BY DEF Storing
<1>3. log \in Seq(Reply)
  BY StreamFacts
<1>4. c.out_buf[1] = r /\ n = Len(log)
  OBVIOUS
<1> HIDE DEF c, r, from, log, new, d, n, f
<1>5. ASSUME NEW upto \in Nat, from < upto, upto <= Len(r.body) + 1,
             new = Extend(log, r, from, upto), GoesOn(c, upto, d)
      PROVE  Storing(d, f, Asked, p, Len(new), files')
  <2>1. Len(new) = m
    BY <1>1, <1>3, <1>4, <1>5, ExtendType
  <2>2. d.state = "WRITE_BUFFER" /\ d.out_sent = upto /\ d.out_buf = c.out_buf
    BY <1>5 DEF GoesOn
  <2>3. upto # 0 /\ d.out_buf[1] = r
    BY <1>1, <1>4, <1>5, <2>2
  <2> HIDE DEF m
  <2>. QED
    BY <1>2, <2>1, <2>2, <2>3 DEF Storing
<1>6. ASSUME d.state \in {"READ_HEADER", "WRITE_GET_FILE"}
      PROVE  Storing(d, f, Asked, p, Len(new), files')
  BY <1>6, NothingStored
<1>7. ASSUME NEW upto, BufferWritten(p, c, upto)
      PROVE  \/ Gone(p) \/ GoesOn(c, upto, d)
             \/ d.state \in {"READ_HEADER", "WRITE_GET_FILE"}
  BY <1>7 DEF BufferWritten, FileNext, HeaderNext, d
<1>8. Gone(p) \/ Storing(d, f, Asked, p, Len(new), files')
  BY <1>1, <1>5, <1>6, <1>7
<1>. QED
  BY <1>8 DEF OwnKept, d, f, new

LEMMA OwnStores ==
    ASSUME IInv, NEW p \in Peers, HandlerOf(p),
           Storing(conn[p], fdtab[conn[p].put_fd], Asked, p, Len(rx[p]), files)
    PROVE  OwnKept(p)
<1> DEFINE n == Len(rx[p])
           d == conn'[p]
           f == fdtab'[d.put_fd]
<1>1. ASSUME d.state # "READ_PUT_STREAM",
             d.state = "WRITE_BUFFER" => d.out_buf[1].cmd # "PUT" \/ d.out_buf[1].status # 0
      PROVE  OwnKept(p)
  <2> HIDE DEF d, f
  <2>1. Storing(d, f, Asked, p, Len(rx'[p]), files')
    BY <1>1, NothingStored
  <2>. QED
    BY <2>1 DEF OwnKept, d, f
<1>2. CASE rx' = rx /\ FilesDone(p)
  <2>1. CASE Gone(p)
    BY <2>1 DEF OwnKept
  <2>2. CASE Idle(d)
    <3>1. /\ d.state # "READ_PUT_STREAM"
          /\ d.state = "WRITE_BUFFER" => d.out_buf[1].cmd # "PUT" \/ d.out_buf[1].status # 0
      BY <2>2 DEF Idle, Replies
    <3>. QED
      BY <1>1, <3>1
  <2>3. CASE Fetches(d, fdtab', Asked[p][n + 1].name)
    <3>1. d.state = "WRITE_BUFFER" /\ d.out_buf[1].cmd = "GET"
      BY <2>3 DEF Fetches, Downloads
    <3>. QED
      BY <1>1, <3>1
  <2>4. CASE \E name : Opens(p, n + 1, name)
    BY <1>2, <2>4, OpensStores
  <2>5. CASE /\ conn[p].state = "READ_PUT_STREAM"
             /\ GoesOnPutting(p, n + 1, fdtab[conn[p].put_fd])
    BY <1>2, <2>5, GoesOnStores
  <2>. QED
    BY <1>2, <2>1, <2>2, <2>3, <2>4, <2>5 DEF FilesDone
<1>3. CASE /\ files' = files /\ conn[p].state = "WRITE_BUFFER"
           /\ Space(p) > 0 \/ Broken(p)
           /\ HandleWriteBuffer(p)
  BY <1>3, BufferStores
<1>4. CASE /\ files' = files /\ conn[p].state = "WRITE_GET_FILE"
           /\ HandleWriteGetFile(p)
  <2>1. Gone(p) \/ \E n1 \in Nat : FileWritten(p, conn[p], n1)
    BY <1>4, WriteGetFileDoes
  <2>2. Gone(p) \/ d.state \in {"READ_HEADER", "WRITE_GET_FILE"}
    BY <2>1 DEF FileWritten, FileNext, HeaderNext
  <2>. QED
    BY <1>1, <2>2 DEF OwnKept
<1>. QED
  BY <1>2, <1>3, <1>4 DEF HandlerOf

(* What a handler changes in the replies that were begun before it, and    *)
(* what reply it begins.                                                   *)
Begun(p) ==
    /\ conn[p].state = "WRITE_BUFFER" /\ conn[p].out_sent = 0
    /\ Len(rx'[p]) = Len(rx[p]) + 1
    /\ rx'[p][Len(rx'[p])].status = conn[p].out_buf[1].status

LEMMA LogStep ==
    ASSUME IInv, NEW p \in Peers, HandlerOf(p)
    PROVE  /\ \A i \in 1 .. Len(rx[p]) : rx'[p][i].status = rx[p][i].status
           /\ Len(rx'[p]) = Len(rx[p]) \/ Begun(p)
<1> DEFINE log == rx[p]
           new == rx'[p]
           c == conn[p]
           r == c.out_buf[1]
           from == c.out_sent
<1>1. log \in Seq(Reply) /\ Len(log) \in Nat
  BY StreamFacts
<1>2. CASE rx' = rx
  BY <1>2
<1> HIDE DEF log, new
<1>3. ASSUME NEW more \in Seq(Byte), new = Longer(log, more)
      PROVE  Len(new) = Len(log) /\ \A i \in 1 .. Len(log) : new[i].status = log[i].status
  BY <1>1, <1>3, LongerType
<1>4. CASE conn[p].state = "WRITE_BUFFER" /\ (Space(p) > 0 \/ Broken(p)) /\ HandleWriteBuffer(p)
  <2>1. /\ r \in Reply /\ from \in Nat
        /\ \/ rx' = rx
           \/ \E upto \in Nat :
                 /\ from < upto /\ upto <= Len(r.body) + 1
                 /\ new = Extend(log, r, from, upto)
    BY <1>4, WriteBufferDoes DEF log, new
  <2>2. ASSUME NEW upto \in Nat, from < upto, upto <= Len(r.body) + 1,
               new = Extend(log, r, from, upto)
        PROVE  /\ \A i \in 1 .. Len(log) : new[i].status = log[i].status
               /\ \/ Len(new) = Len(log)
                  \/ /\ from = 0 /\ Len(new) = Len(log) + 1
                     /\ new[Len(new)].status = r.status
    <3> HIDE DEF r, from
    <3>1. CASE from = 0
      BY <1>1, <2>1, <2>2, <3>1, ExtendBegins
    <3>2. CASE from > 0
      BY <1>1, <1>3, <2>1, <2>2, <3>2, ExtendGoesOn
    <3>. QED
      BY <2>1, <3>1, <3>2
  <2>. QED
    BY <1>2, <1>4, <2>1, <2>2 DEF Begun, log, new
<1>5. CASE conn[p].state = "WRITE_GET_FILE" /\ HandleWriteGetFile(p)
  <2>1. rx' = rx \/ \E more \in Seq(Byte) : new = Longer(log, more)
    BY <1>5, WriteGetFileDoes DEF log, new
  <2>. QED
    BY <1>2, <1>3, <2>1 DEF log, new
<1>. QED
  BY <1>2, <1>4, <1>5 DEF HandlerOf
(* What p is owed of the uploads acknowledged and of the one under way.    *)
KeptFor(p) ==
    /\ \A i \in 1 .. Len(rx[p]) : rx[p][i].status = 0 => StoredWhole(Asked, p, i, files)
    /\ Connected(p) => Storing(conn[p], fdtab[conn[p].put_fd], Asked, p, Len(rx[p]), files)

(* A reply that is begun answers the request that is next.                 *)
LEMMA BegunAnswers ==
    ASSUME IInv, NEW p \in Peers, Connected(p), Follows(p), Begun(p)
    PROVE  /\ Asked[p][Len(rx[p]) + 1].cmd = conn[p].out_buf[1].cmd
           /\ files' = files \/ ~HandlerOf(p)
<1>1. AtReply(conn[p], fdtab[conn[p].get_fd], stream[p], Len(rx[p]) + 1, rcvd[p])
  BY DEF Follows, Following, Begun
<1>2. Len(rx'[p]) # Len(rx[p])
  BY StreamFacts DEF Begun
<1>3. files' = files \/ ~HandlerOf(p)
  BY <1>2 DEF HandlerOf
<1>. QED
  BY <1>1, <1>3 DEF AtReply, Asked, AskedIn

LEMMA OwnKeeps ==
    ASSUME IInv, NEW p \in Peers, HandlerOf(p), Asked' = Asked, KeptFor(p)
    PROVE  KeptFor(p)'
<1> DEFINE n == Len(rx[p])
<1>1. n \in Nat /\ Connected(p) /\ Follows(p)
  BY StreamFacts DEF HandlerOf
<1>2. Storing(conn[p], fdtab[conn[p].put_fd], Asked, p, n, files)
  BY <1>1 DEF KeptFor
<1>3. OwnKept(p)
  BY <1>2, OwnStores
<1>4. Connected(p)' =>
          Storing(conn'[p], fdtab'[conn'[p].put_fd], Asked', p, Len(rx'[p]), files')
  BY <1>3 DEF OwnKept, Gone, NoConn, NewConn, Connected
<1>5. ASSUME NEW i \in 1 .. Len(rx'[p]), rx'[p][i].status = 0
      PROVE  StoredWhole(Asked, p, i, files')
  <2>1. CASE i \in 1 .. n
    <3>1. StoredWhole(Asked, p, i, files)
      <4>1. rx[p][i].status = 0
        BY <1>5, <2>1, LogStep
      <4>. QED
        BY <2>1, <4>1 DEF KeptFor
    <3>2. i # n + 1
      BY <1>1, <2>1
    <3>3. <<p, n + 1>> # <<p, i>>
      BY <3>2
    <3>4. files' = files \/ FilesDone(p)
      BY DEF HandlerOf
    <3>. QED
      BY <3>1, <3>3, <3>4, StoredStays
  <2>2. CASE i \notin 1 .. n
    <3>1. Begun(p)
      BY <1>1, <1>5, <2>2, LogStep
    <3>2. i = n + 1
      BY <1>1, <1>5, <2>2, <3>1 DEF Begun
    <3>3. /\ conn[p].state = "WRITE_BUFFER" /\ conn[p].out_sent = 0
          /\ conn[p].out_buf[1].status = 0
      BY <1>1, <1>5, <3>1, <3>2 DEF Begun
    <3>4. files' = files /\ Asked[p][n + 1].cmd = conn[p].out_buf[1].cmd
      BY <1>1, <3>1, BegunAnswers
    <3>5. CASE conn[p].out_buf[1].cmd = "PUT"
      BY <1>2, <3>2, <3>3, <3>4, <3>5 DEF Storing
    <3>6. CASE conn[p].out_buf[1].cmd # "PUT"
      BY <3>2, <3>4, <3>6 DEF StoredWhole
    <3>. QED
      BY <3>5, <3>6
  <2>. QED
    BY <2>1, <2>2
<1>. QED
  BY <1>4, <1>5 DEF KeptFor

(* A connection that does not move keeps what it has, unless its own file  *)
(* changes.                                                                *)
LEMMA SameKept ==
    ASSUME IInv, NEW q \in Peers, Asked' = Asked, KeptFor(q),
           rx'[q] = rx[q], conn'[q].state = "READ_HEADER" \/ SameConnection(q),
           \A i : StoredWhole(Asked, q, i, files) => StoredWhole(Asked, q, i, files'),
           \A name \in SafeNames : Uploads(Asked, name) = {<<q, Len(rx[q]) + 1>>} =>
               files'[name] = files[name]
    PROVE  KeptFor(q)'
<1> DEFINE c == conn[q]
           n == Len(rx[q])
           f == fdtab[c.put_fd]
<1>1. \A i \in 1 .. n : rx'[q][i].status = 0 => StoredWhole(Asked', q, i, files')
  BY DEF KeptFor
<1>2. CASE conn'[q].state = "READ_HEADER"
  <2>1. Storing(conn'[q], fdtab'[conn'[q].put_fd], Asked', q, Len(rx'[q]), files')
    BY <1>2, NothingStored
  <2>. QED
    BY <1>1, <2>1 DEF KeptFor
<1>3. ASSUME SameConnection(q), Connected(q)
      PROVE  Storing(conn'[q], fdtab'[conn'[q].put_fd], Asked', q, Len(rx'[q]), files')
  <2>1. Storing(c, f, Asked, q, n, files) /\ conn'[q] = c /\ n \in Nat
    BY <1>3, StreamFacts DEF KeptFor, SameConnection
  <2>2. CASE c.state = "READ_PUT_STREAM"
    <3>1. c.put_fd # NoFd /\ c.put_fd \in Fds /\ c.pending_put_name # NULL
      BY <2>2, ConnFits, OpenIsFd DEF Fit, BuffersFit, IInv, DescriptorsOwned
    <3>2. f.name \in SafeNames /\ fdtab'[c.put_fd] = f
      <4>1. f.name = c.pending_put_name /\ c.pending_put_name \in SafeNames
        BY <3>1, ConnFits DEF IInv, DescriptorsOwned, Conn
      <4>. QED
        BY <1>3, <3>1, <4>1 DEF SameConnection
    <3>3. ASSUME Uploads(Asked, f.name) = {<<q, n + 1>>}
          PROVE  files'[f.name] = [kind |-> "reg", data |-> SubSeq(Asked[q][n + 1].bytes, 1, f.off)]
      BY <2>1, <2>2, <3>2, <3>3 DEF Storing
    <3>. QED
      BY <2>1, <2>2, <3>2, <3>3 DEF Storing
  <2>3. CASE c.state # "READ_PUT_STREAM"
    BY <2>1, <2>3 DEF Storing
  <2>. QED
    BY <2>2, <2>3
<1>4. CASE SameConnection(q)
  <2>1. Connected(q)' => Connected(q)
    BY <1>4 DEF SameConnection, Connected
  <2>. QED
    BY <1>1, <1>3, <1>4, <2>1 DEF KeptFor
<1>. QED
  BY <1>2, <1>4

LEMMA StepStored ==
    ASSUME IInv, AllFollow, PutsKept, [Next]_vars
    PROVE  PutsKept'
<1>1. Asked' = Asked
  BY StepCases, SameAsked
<1>2. \A q \in Peers : KeptFor(q)
  BY DEF PutsKept, KeptFor
<1>3. ASSUME NEW p \in Peers, HandlerOf(p), NEW q \in Peers
      PROVE  KeptFor(q)'
  <2>1. CASE q = p
    BY <1>1, <1>2, <1>3, <2>1, OwnKeeps
  <2>2. CASE q # p
    <3> DEFINE u == <<p, Len(rx[p]) + 1>>
               v == <<q, Len(rx[q]) + 1>>
    <3>1. SameConnection(q) /\ rx'[q] = rx[q] /\ (files' = files \/ FilesDone(p))
      BY <1>3, <2>2 DEF HandlerOf, SameConnection
    <3>2. u # v /\ \A i : u # <<q, i>>
      BY <2>2
    <3>3. \A i : StoredWhole(Asked, q, i, files) => StoredWhole(Asked, q, i, files')
      BY <3>1, <3>2, StoredStays
    <3>4. ASSUME NEW name \in SafeNames, Uploads(Asked, name) = {v}
          PROVE  files'[name] = files[name]
      <4> HIDE DEF u, v
      <4>1. u \notin Uploads(Asked, name)
        BY <3>2, <3>4
      <4>. QED
        BY <3>1, <4>1, UntouchedFile DEF u
    <3>. QED
      BY <1>1, <1>2, <3>1, <3>3, <3>4, SameKept
  <2>. QED
    BY <2>1, <2>2
<1>4. ASSUME rx' = rx, files' = files, NEW q \in Peers,
             conn'[q].state = "READ_HEADER" \/ SameConnection(q)
      PROVE  KeptFor(q)'
  BY <1>1, <1>2, <1>4, SameKept
<1>5. \A q \in Peers : KeptFor(q)'
  BY <1>3, <1>4, StepCases
<1>. QED
  BY <1>5 DEF PutsKept, KeptFor

(* A PUT acknowledged with status 0 is stored whole under its name, as     *)
(* long as no other request writes that name (handle_put_stream).          *)
THEOREM PutSafe ==
    ASSUME \A p \in Peers : \A s \in Streams[p] : PlainUploads(s)
    PROVE  Spec => []PutStored
<1>1. Init => IInv /\ AllFollow
  BY InitInv, InitFollows
<1>2. Init => PutsKept
  <2> SUFFICES ASSUME Init PROVE PutsKept
    OBVIOUS
  <2>1. \A p \in Peers : rx[p] = <<>> /\ conn[p].fd = NoFd
    BY DEF Init, WireInit, NoConn, NewConn
  <2>. QED
    BY <2>1 DEF PutsKept, Connected
<1>3. IInv /\ PutsKept => PutStored
  <2> SUFFICES ASSUME IInv, PutsKept, NEW p \in Peers, NEW i \in DOMAIN rx[p],
                      Asked[p][i].cmd = "PUT", rx[p][i].status = 0,
                      Uploads(Asked, Asked[p][i].name) = {<<p, i>>}
               PROVE  files[Asked[p][i].name] = [kind |-> "reg", data |-> Asked[p][i].bytes]
    BY DEF PutStored, UploadsStored
  <2>1. i \in 1 .. Len(rx[p])
    BY StreamFacts, LenProperties
  <2>2. StoredWhole(Asked, p, i, files)
    BY <2>1 DEF PutsKept
  <2>. QED
    BY <2>2 DEF StoredWhole
<1>4. IInv /\ AllFollow /\ [Next]_vars => (IInv /\ AllFollow)'
  BY NextInv, NextFollows
<1>5. IInv /\ AllFollow /\ PutsKept /\ [Next]_vars => PutsKept'
  BY StepStored
<1>. QED
  BY <1>1, <1>2, <1>3, <1>4, <1>5, PTL DEF Spec
-----------------------------------------------------------------------------
(* What was sent of the downloads, as long as nobody writes their file.    *)
Fetching(c, f, asked, p, log, dir) ==
    LET n == Len(log)
        r == c.out_buf[1]
        name == asked[p][n + 1].name
    IN  /\ c.state = "WRITE_BUFFER" /\ r.cmd = "GET" =>
               /\ c.out_sent > 0 => log[n].status # 0
               /\ r.status = 0 \/ c.get_left > 0 =>
                      r.body = <<>> /\ (c.get_left > 0 => f.off = 0)
               /\ r.status = 0 /\ Uploads(asked, name) = {} =>
                      name \in SafeNames /\ r.length = Len(dir[name].data)
        /\ c.state = "WRITE_GET_FILE" /\ Uploads(asked, f.name) = {} =>
               Len(log[n].body) = f.off

FetchedFor(p) ==
    /\ \A i \in 1 .. Len(rx[p]) :
           rx[p][i].status = 0 => Fetched(Asked, p, i, rx[p][i], files)
    /\ Connected(p) => Fetching(conn[p], fdtab[conn[p].get_fd], Asked, p, rx[p], files)

GetsKept == \A p \in Peers : FetchedFor(p)

LEMMA FetchedStays ==
    ASSUME NEW p, FilesDone(p), NEW q, NEW i, NEW reply, Fetched(Asked, q, i, reply, files)
    PROVE  Fetched(Asked, q, i, reply, files')
<1> DEFINE r == Asked[q][i]
           u == <<p, Len(rx[p]) + 1>>
<1> HIDE DEF u
<1>1. ASSUME r.cmd = "GET", Uploads(Asked, r.name) = {}
      PROVE  /\ r.name \in SafeNames /\ files'[r.name] = files[r.name]
             /\ Carries(reply, files[r.name].data)
  <2>1. r.name \in SafeNames /\ Carries(reply, files[r.name].data)
    BY <1>1 DEF Fetched
  <2>2. u \notin Uploads(Asked, r.name)
    BY <1>1
  <2>. QED
    BY <2>1, <2>2, UntouchedFile DEF u
<1>. QED
  BY <1>1 DEF Fetched

LEMMA NothingFetched ==
    ASSUME NEW d, NEW f, NEW asked, NEW p, NEW log, NEW dir, d.state # "WRITE_GET_FILE",
           d.state = "WRITE_BUFFER" =>
               \/ d.out_buf[1].cmd # "GET"
               \/ d.out_buf[1].status # 0 /\ d.out_sent = 0 /\ d.get_left = 0
    PROVE  Fetching(d, f, asked, p, log, dir)
<1>1. d.out_sent = 0 => ~(d.out_sent > 0)
  OBVIOUS
<1>2. d.get_left = 0 => ~(d.get_left > 0)
  OBVIOUS
<1>. QED
  BY <1>1, <1>2 DEF Fetching

(* What sendfile sends is the part of the file it is at.                   *)
LEMMA PieceIs ==
    ASSUME NEW f, NEW data, data = files[f.name].data, data \in Seq(Byte),
           f.off \in Nat, NEW n \in Nat, n <= FileLeft(f)
    PROVE  /\ n > 0 => f.off + n <= Len(data)
           /\ \A k \in 1 .. n : Piece(f, n)[k] = data[f.off + k]
<1> DEFINE off == f.off
           len == Len(data)
<1>1. off \in Nat /\ len \in Nat /\ n <= MaxOf(len, off) - off
  BY LenProperties DEF FileLeft
<1> HIDE DEF off, len
<1>2. n > 0 => off + n <= len
  BY <1>1 DEF MaxOf
<1>3. ASSUME NEW k \in 1 .. n
      PROVE  Piece(f, n)[k] = data[off + k]
  <2> DEFINE first == off + 1
             last == off + n
  <2>1. /\ first \in Int /\ last \in Int /\ k \in 1 .. last - first + 1
        /\ first + k - 1 = off + k /\ \A j \in first .. last : j \in 1 .. len
    BY <1>1, <1>2
  <2>2. \A j \in first .. last : data[j] \in Byte
    BY <2>1, ElementOfSeq DEF len
  <2>3. Piece(f, n) = SubSeq(data, first, last)
    BY DEF Piece, off
  <2> HIDE DEF first, last
  <2>4. Piece(f, n)[k] = data[first + k - 1]
    BY <2>1, <2>2, <2>3, SubSeqProperties
  <2>. QED
    BY <2>1, <2>4
<1>. QED
  BY <1>2, <1>3 DEF off, len

LEMMA LongerOthers ==
    ASSUME NEW log \in Seq(Reply), NEW more, NEW new, new = Longer(log, more),
           NEW i \in 1 .. Len(log), i # Len(log)
    PROVE  new[i] = log[i]
<1>1. log \in [1 .. Len(log) -> Reply]
  BY LenProperties
<1>. QED
  BY <1>1 DEF Longer

(* The next part of the file is appended.                                  *)
LEMMA PieceCarried ==
    ASSUME NEW log \in Seq(Reply), log # <<>>, NEW data \in Seq(Byte),
           Carries(log[Len(log)], data), NEW off \in Nat, off = Len(log[Len(log)].body),
           NEW more \in Seq(Byte), NEW n \in Nat, Len(more) = n,
           n > 0 => off + n <= Len(data), \A k \in 1 .. n : more[k] = data[off + k],
           NEW new, new = Longer(log, more)
    PROVE  Carries(new[Len(log)], data)
<1> DEFINE old == log[Len(log)].body
           now == new[Len(log)].body
           len == Len(data)
<1>1. Len(log) \in 1 .. Len(log) /\ log[Len(log)] \in Reply /\ len \in Nat
  BY LastReply, EmptySeq, LenProperties
<1>2. old \in Seq(Byte)
  BY <1>1 DEF Reply
<1>3. new[Len(log)].length = log[Len(log)].length /\ now = old \o more
  <2>1. log \in [1 .. Len(log) -> Reply]
    BY LenProperties
  <2>. QED
    BY <1>1, <2>1 DEF Longer, Reply
<1>4. log[Len(log)].length = len /\ off <= len /\ \A k \in 1 .. off : old[k] = data[k]
  BY DEF Carries
<1>5. Len(old) = off
  OBVIOUS
<1> HIDE DEF old, now, len
<1>6. /\ Len(now) = off + n
      /\ \A k \in 1 .. off + n : now[k] = IF k <= off THEN old[k] ELSE more[k - off]
  <2>1. /\ Len(old \o more) = Len(old) + Len(more)
        /\ \A k \in 1 .. Len(old) + Len(more) :
               (old \o more)[k] = IF k <= Len(old) THEN old[k] ELSE more[k - Len(old)]
    <3>1. old \in Seq(Byte) /\ more \in Seq(Byte)
      BY <1>2
    <3>. QED
      BY <3>1, ConcatProperties
  <2>. QED
    BY <1>3, <1>5, <2>1
<1>7. ASSUME NEW k \in 1 .. off + n
      PROVE  now[k] = data[k]
  <2>1. CASE k <= off
    BY <1>4, <1>6, <2>1
  <2>2. CASE ~(k <= off)
    <3> DEFINE j == k - off
    <3>1. j \in 1 .. n /\ off + j = k
      BY <2>2
    <3>2. now[k] = more[j]
      BY <1>6, <2>2
    <3> HIDE DEF j
    <3>. QED
      BY <3>1, <3>2
  <2>. QED
    BY <2>1, <2>2
<1>8. off + n <= len
  <2>1. n > 0 => off + n <= len
    BY DEF len
  <2>. QED
    BY <1>1, <1>4, <2>1
<1>. QED
  BY <1>3, <1>4, <1>6, <1>7, <1>8 DEF Carries, now, len
(* The request that the reply queued, or the file being sent, answers.     *)
LEMMA BufferAnswers ==
    ASSUME IInv, NEW p \in Peers, Connected(p), Follows(p), conn[p].state = "WRITE_BUFFER",
           NEW m, m = IF conn[p].out_sent = 0 THEN Len(rx[p]) + 1 ELSE Len(rx[p])
    PROVE  /\ 0 < m /\ Asked[p][m].cmd = conn[p].out_buf[1].cmd
           /\ conn[p].get_left > 0 => conn[p].out_buf[1].cmd = "GET"
<1>1. AtReply(conn[p], fdtab[conn[p].get_fd], stream[p], m, rcvd[p])
  BY DEF Follows, Following
<1>. QED
  BY <1>1 DEF AtReply, Asked, AskedIn

LEMMA FileAnswers ==
    ASSUME IInv, NEW p \in Peers, Connected(p), Follows(p), conn[p].state = "WRITE_GET_FILE",
           NEW f, f = fdtab[conn[p].get_fd]
    PROVE  /\ rx[p] # <<>> /\ rx[p] \in Seq(Reply) /\ Len(rx[p]) \in 1 .. Len(rx[p])
           /\ Asked[p][Len(rx[p])].cmd = "GET" /\ Asked[p][Len(rx[p])].name = f.name
           /\ f.name \in SafeNames /\ f.off \in Nat
           /\ files[f.name].data \in Seq(Byte)
<1>1. AtFile(conn[p], f, stream[p], Len(rx[p]), rcvd[p])
  BY DEF Follows, Following
<1>2. rx[p] \in Seq(Reply) /\ Len(rx[p]) \in 1 .. Len(rx[p]) /\ rx[p] # <<>>
  BY <1>1, StreamFacts, EmptySeq DEF AtFile
<1>3. conn[p].get_fd # NoFd /\ conn[p].get_fd \in Fds
  <2>1. conn[p].get_fd # NoFd /\ conn[p].get_fd \in 0 .. FdLimit
    BY ConnFits DEF Fit, BuffersFit
  <2>. QED
    BY <2>1, OpenIsFd
<1>4. f \in FdEntry /\ f.name \in SafeNames /\ f.off \in Nat
  BY <1>3 DEF IInv, TypeOK, DescriptorsOwned, TableFit, FdEntry
<1>5. files[f.name].data \in Seq(Byte)
  BY <1>4, WireFacts DEF File
<1>. QED
  BY <1>1, <1>2, <1>4, <1>5 DEF AtFile, Asked, AskedIn

(* What a connection's own handler leaves of the download it is at.        *)
OwnFetching(p) ==
    Gone(p) \/ Fetching(conn'[p], fdtab'[conn'[p].get_fd], Asked, p, rx'[p], files')

LEMMA FilesFetches ==
    ASSUME NEW p, rx' = rx, FilesDone(p)
    PROVE  OwnFetching(p)
<1> DEFINE n == Len(rx[p])
           d == conn'[p]
           f == fdtab'[d.get_fd]
           log == rx'[p]
           name == Asked[p][n + 1].name
<1>1. ASSUME d.state # "WRITE_GET_FILE",
             d.state = "WRITE_BUFFER" =>
                 \/ d.out_buf[1].cmd # "GET"
                 \/ d.out_buf[1].status # 0 /\ d.out_sent = 0 /\ d.get_left = 0
      PROVE  OwnFetching(p)
  <2> HIDE DEF d, f, log
  <2>1. Fetching(d, f, Asked, p, log, files')
    BY <1>1, NothingFetched
  <2>. QED
    BY <2>1 DEF OwnFetching, d, f, log
<1>2. CASE Gone(p)
  BY <1>2 DEF OwnFetching
<1>3. CASE Idle(d)
  <2>1. /\ d.state # "WRITE_GET_FILE"
        /\ d.state = "WRITE_BUFFER" =>
               \/ d.out_buf[1].cmd # "GET"
               \/ d.out_buf[1].status # 0 /\ d.out_sent = 0 /\ d.get_left = 0
    BY <1>3 DEF Idle, Replies
  <2>. QED
    BY <1>1, <2>1
<1>4. CASE files' = files /\ Fetches(d, fdtab', name)
  <2>1. /\ d.state = "WRITE_BUFFER" /\ d.out_sent = 0 /\ name \in SafeNames
        /\ d.out_buf[1].length = Len(files[name].data) /\ d.out_buf[1].body = <<>>
        /\ f.off = 0
    BY <1>4 DEF Fetches, Downloads
  <2>2. ~(d.out_sent > 0)
    BY <2>1
  <2>3. log = rx[p]
    OBVIOUS
  <2>4. Fetching(d, f, Asked, p, log, files')
    <3> HIDE DEF d, f
    <3>. QED
      BY <1>4, <2>1, <2>2, <2>3 DEF Fetching
  <2>. QED
    BY <2>4 DEF OwnFetching
<1>5. CASE Replies(d, "PUT", 0)
  BY <1>1, <1>5 DEF Replies
<1>6. CASE \E left, to, off : Uploading(d, fdtab', to, left, off)
  BY <1>1, <1>6 DEF Uploading
<1>. QED
  BY <1>2, <1>3, <1>4, <1>5, <1>6 DEF FilesDone, Opens, GoesOnPutting

LEMMA BufferFetches ==
    ASSUME IInv, NEW p \in Peers, Connected(p), Follows(p),
           conn[p].state = "WRITE_BUFFER", Space(p) > 0 \/ Broken(p), HandleWriteBuffer(p),
           Fetching(conn[p], fdtab[conn[p].get_fd], Asked, p, rx[p], files)
    PROVE  OwnFetching(p)
<1> DEFINE c == conn[p]
           r == c.out_buf[1]
           from == c.out_sent
           log == rx[p]
           new == rx'[p]
           d == conn'[p]
           f == fdtab'[d.get_fd]
<1>1. /\ r \in Reply /\ from \in Nat
      /\ \/ Gone(p)
         \/ \E upto \in Nat :
               /\ from < upto /\ upto <= Len(r.body) + 1
               /\ new = Extend(log, r, from, upto)
               /\ BufferWritten(p, c, upto)
  BY WriteBufferDoes
<1>2. r.cmd = "GET" =>
          /\ from > 0 => log[Len(log)].status # 0
          /\ r.status = 0 \/ c.get_left > 0 =>
                 r.body = <<>> /\ (c.get_left > 0 => fdtab[c.get_fd].off = 0)
  BY DEF Fetching
<1>3. /\ log \in Seq(Reply) /\ Len(log) \in Nat /\ (c.get_left > 0 => r.cmd = "GET")
      /\ from <= Len(r.body) /\ (from # 0 => 0 < Len(log))
  <2>1. from <= Len(r.body)
    BY ConnFits DEF Fit, BuffersFit
  <2> DEFINE m == IF from = 0 THEN Len(log) + 1 ELSE Len(log)
  <2>2. 0 < m /\ (c.get_left > 0 => r.cmd = "GET")
    BY BufferAnswers
  <2>. QED
    BY <2>1, <2>2, StreamFacts
<1>4. c.out_buf[1] = r /\ c.out_sent = from
  OBVIOUS
<1> HIDE DEF c, r, from, log, new, d, f
<1>5. ASSUME NEW upto \in Nat, from < upto, upto < Len(r.body) + 1,
             new = Extend(log, r, from, upto), GoesOn(c, upto, d)
      PROVE  Fetching(d, f, Asked, p, new, files')
  <2>1. /\ d.state = "WRITE_BUFFER" /\ d.out_buf[1] = r /\ d.get_left = c.get_left
    BY <1>4, <1>5 DEF GoesOn
  <2>2. CASE r.cmd = "GET"
    <3>1. r.body # <<>>
      <4> SUFFICES ASSUME r.body = <<>> PROVE FALSE
        OBVIOUS
      <4>1. Len(r.body) = 0
        OBVIOUS
      <4>. QED
        BY <1>1, <1>5, <4>1
    <3>2. ~(r.status = 0 \/ c.get_left > 0)
      BY <1>2, <2>2, <3>1
    <3>3. upto <= Len(r.body) + 1
      <4>1. Len(r.body) \in Nat
        BY <1>1, LenProperties DEF Reply
      <4>. QED
        BY <1>5, <4>1
    <3>4. new[Len(new)].status # 0
      <4>1. CASE from = 0
        <5>1. new[Len(new)].status = r.status
          BY <1>1, <1>3, <1>5, <3>3, <4>1, ExtendBegins
        <5>. QED
          BY <3>2, <5>1
      <4>2. CASE from > 0
        <5>1. /\ new = Longer(log, Rest(r, from, upto)) /\ Rest(r, from, upto) \in Seq(Byte)
              /\ Len(new) = Len(log)
          BY <1>1, <1>3, <1>5, <3>3, <4>2, ExtendGoesOn
        <5>2. \A i \in 1 .. Len(log) : new[i].status = log[i].status
          BY <1>3, <5>1, LongerType
        <5>3. Len(log) \in 1 .. Len(log)
          BY <1>1, <1>3, <4>2
        <5>. QED
          BY <1>2, <2>2, <4>2, <5>1, <5>2, <5>3
      <4>. QED
        BY <1>1, <4>1, <4>2
    <3>. QED
      BY <2>1, <3>2, <3>4 DEF Fetching
  <2>3. CASE r.cmd # "GET"
    BY <2>1, <2>3 DEF Fetching
  <2>. QED
    BY <2>2, <2>3
<1>6. ASSUME NEW upto, upto = Len(r.body) + 1, new = Extend(log, r, from, upto),
             fdtab' = fdtab, c.get_left > 0, FileNext(c, c.get_left, d)
      PROVE  Fetching(d, f, Asked, p, new, files')
  <2>1. r.body = <<>> /\ fdtab[c.get_fd].off = 0
    BY <1>2, <1>3, <1>6
  <2>2. from = 0 /\ upto = 1
    <3>1. Len(r.body) = 0
      BY <2>1
    <3>. QED
      BY <1>1, <1>3, <1>6, <3>1
  <2>3. new = Extend(log, r, 0, upto)
    BY <1>6, <2>2
  <2>4. Len(new[Len(new)].body) = 0
    BY <1>1, <1>3, <2>1, <2>2, <2>3, HeaderCarries
  <2>5. d.state = "WRITE_GET_FILE" /\ f.off = 0
    BY <1>6, <2>1 DEF FileNext, f
  <2>. QED
    BY <2>4, <2>5 DEF Fetching
<1>7. ASSUME d.state = "READ_HEADER"
      PROVE  Fetching(d, f, Asked, p, new, files')
  BY <1>7, NothingFetched
<1>8. ASSUME NEW upto, BufferWritten(p, c, upto)
      PROVE  \/ Gone(p)
             \/ upto < Len(r.body) + 1 /\ GoesOn(c, upto, d)
             \/ /\ upto = Len(r.body) + 1 /\ fdtab' = fdtab
                /\ c.get_left > 0 /\ FileNext(c, c.get_left, d)
             \/ d.state = "READ_HEADER"
  BY <1>4, <1>8 DEF BufferWritten, HeaderNext, d
<1>9. Gone(p) \/ Fetching(d, f, Asked, p, new, files')
  BY <1>1, <1>5, <1>6, <1>7, <1>8
<1>. QED
  BY <1>9 DEF OwnFetching, d, f, new

LEMMA FileFetches ==
    ASSUME IInv, NEW p \in Peers, Connected(p), Follows(p),
           conn[p].state = "WRITE_GET_FILE", HandleWriteGetFile(p),
           Fetching(conn[p], fdtab[conn[p].get_fd], Asked, p, rx[p], files)
    PROVE  OwnFetching(p)
<1> DEFINE c == conn[p]
           g == fdtab[c.get_fd]
           log == rx[p]
           new == rx'[p]
           d == conn'[p]
           f == fdtab'[d.get_fd]
<1>1. \/ Gone(p)
      \/ \E n \in Nat :
            /\ Piece(g, n) \in Seq(Byte) /\ Len(Piece(g, n)) = n
            /\ new = Longer(log, Piece(g, n))
            /\ FileWritten(p, c, n)
  BY WriteGetFileDoes
<1>2. log \in Seq(Reply) /\ Len(log) \in 1 .. Len(log) /\ log[Len(log)].body \in Seq(Byte)
  <2>1. log \in Seq(Reply) /\ log # <<>> /\ Len(log) \in 1 .. Len(log)
    BY FileAnswers
  <2>2. log[Len(log)] \in Reply
    BY <2>1, LastReply
  <2>. QED
    BY <2>1, <2>2 DEF Reply
<1>3. Uploads(Asked, g.name) = {} => Len(log[Len(log)].body) = g.off
  BY DEF Fetching
<1>4. ASSUME d.state = "READ_HEADER"
      PROVE  Fetching(d, f, Asked, p, new, files')
  <2> HIDE DEF d, f, new
  <2>. QED
    BY <1>4, NothingFetched
<1> HIDE DEF c, log, new, d, f
<1>5. ASSUME NEW n \in Nat, NEW more, more = Piece(g, n), more \in Seq(Byte), Len(more) = n,
             new = Longer(log, more), NEW left, FileNext(c, left, d),
             fdtab'[c.get_fd].name = g.name, fdtab'[c.get_fd].off = g.off + n
      PROVE  Fetching(d, f, Asked, p, new, files')
  <2>1. d.state = "WRITE_GET_FILE" /\ f.name = g.name /\ f.off = g.off + n
    BY <1>5 DEF FileNext, f
  <2>2. Len(new) = Len(log) /\ new[Len(log)].body = log[Len(log)].body \o more
    <3>1. /\ Len(new) = Len(log)
          /\ \A i \in 1 .. Len(log) :
                new[i].body = IF i = Len(log) THEN log[i].body \o more ELSE log[i].body
      BY <1>2, <1>5, LongerType, SMTT(30)
    <3>. QED
      BY <1>2, <3>1
  <2>3. Len(new[Len(new)].body) = Len(log[Len(log)].body) + n
    <3> DEFINE old == log[Len(log)].body
    <3>1. old \in Seq(Byte) /\ new[Len(new)].body = old \o more
      BY <1>2, <2>2
    <3> HIDE DEF old
    <3>2. Len(old \o more) = Len(old) + Len(more)
      BY <1>5, <3>1, ConcatProperties
    <3>. QED
      BY <1>5, <3>1, <3>2 DEF old
  <2>. QED
    BY <1>3, <2>1, <2>3 DEF Fetching
<1>6. ASSUME NEW n, FileWritten(p, c, n)
      PROVE  \/ Gone(p) \/ d.state = "READ_HEADER"
             \/ /\ FileNext(c, c.get_left - n, d)
                /\ fdtab'[c.get_fd].name = g.name /\ fdtab'[c.get_fd].off = g.off + n
  BY <1>6 DEF FileWritten, HeaderNext, d, c
<1>7. Gone(p) \/ Fetching(d, f, Asked, p, new, files')
  BY <1>1, <1>4, <1>5, <1>6
<1>. QED
  BY <1>7 DEF OwnFetching, d, f, new

LEMMA OwnFetches ==
    ASSUME IInv, NEW p \in Peers, HandlerOf(p),
           Fetching(conn[p], fdtab[conn[p].get_fd], Asked, p, rx[p], files)
    PROVE  OwnFetching(p)
BY FilesFetches, BufferFetches, FileFetches DEF HandlerOf
(* What the replies of p carry, those begun before and the one it begins.  *)
OwnFetched(p) ==
    \A i \in 1 .. Len(rx'[p]) :
        rx'[p][i].status = 0 => Fetched(Asked, p, i, rx'[p][i], files')

LEMMA BufferFetched ==
    ASSUME IInv, NEW p \in Peers, Connected(p), Follows(p), FetchedFor(p), files' = files,
           conn[p].state = "WRITE_BUFFER", Space(p) > 0 \/ Broken(p), HandleWriteBuffer(p)
    PROVE  OwnFetched(p)
<1> DEFINE c == conn[p]
           r == c.out_buf[1]
           from == c.out_sent
           log == rx[p]
           n == Len(log)
           new == rx'[p]
           m == IF from = 0 THEN n + 1 ELSE n
           q == Asked[p][n + 1]
<1>1. /\ r \in Reply /\ from \in Nat
      /\ \/ new = log
         \/ \E upto \in Nat :
               /\ from < upto /\ upto <= Len(r.body) + 1
               /\ new = Extend(log, r, from, upto)
  BY WriteBufferDoes
<1>2. log \in Seq(Reply) /\ n \in Nat
  BY StreamFacts
<1>3. 0 < m /\ Asked[p][m].cmd = r.cmd
  BY BufferAnswers
<1>4. r.cmd = "GET" =>
          /\ from > 0 => log[n].status # 0
          /\ r.status = 0 => r.body = <<>>
          /\ r.status = 0 /\ Uploads(Asked, q.name) = {} =>
                 q.name \in SafeNames /\ r.length = Len(files[q.name].data)
  BY DEF FetchedFor, Fetching
<1>5. \A i \in 1 .. n : log[i].status = 0 => Fetched(Asked, p, i, log[i], files)
  BY DEF FetchedFor
<1>6. n = Len(log)
  OBVIOUS
<1> HIDE DEF c, r, from, log, n, new, q
<1>7. CASE new = log
  BY <1>5, <1>6, <1>7 DEF OwnFetched, new
<1>8. ASSUME NEW upto \in Nat, from < upto, upto <= Len(r.body) + 1,
             new = Extend(log, r, from, upto), from = 0
      PROVE  OwnFetched(p)
  <2>1. /\ Len(new) = n + 1 /\ new[n + 1].status = r.status
        /\ \A i \in 1 .. n : new[i] = log[i]
    BY <1>1, <1>2, <1>6, <1>8, ExtendBegins
  <2>2. ASSUME r.status = 0
        PROVE  Fetched(Asked, p, n + 1, new[n + 1], files)
    <3> SUFFICES ASSUME q.cmd = "GET", Uploads(Asked, q.name) = {}
                 PROVE  q.name \in SafeNames /\ Carries(new[n + 1], files[q.name].data)
      BY DEF Fetched, q
    <3> DEFINE data == files[q.name].data
    <3>1. r.cmd = "GET"
      BY <1>3, <1>8 DEF q
    <3>2. r.body = <<>> /\ q.name \in SafeNames /\ r.length = Len(data)
      BY <1>4, <2>2, <3>1
    <3>3. Len(data) \in Nat
      BY <3>2, WireFacts, LenProperties DEF File
    <3>4. upto = 1 /\ new = Extend(log, r, 0, upto)
      <4>1. Len(r.body) = 0
        BY <3>2
      <4>. QED
        BY <1>8, <4>1
    <3>5. new[n + 1].length = r.length /\ Len(new[n + 1].body) = 0
      <4>1. new[Len(new)].length = r.length /\ Len(new[Len(new)].body) = 0
        BY <1>1, <1>2, <3>2, <3>4, HeaderCarries
      <4>. QED
        BY <2>1, <4>1
    <3> HIDE DEF data
    <3>6. Carries(new[n + 1], data)
      BY <3>2, <3>3, <3>5 DEF Carries
    <3>. QED
      BY <3>2, <3>6 DEF data
  <2>3. ASSUME NEW i \in 1 .. Len(new), new[i].status = 0
        PROVE  Fetched(Asked, p, i, new[i], files)
    <3>1. CASE i = n + 1
      BY <2>1, <2>2, <2>3, <3>1
    <3>2. CASE i # n + 1
      <4>1. i \in 1 .. n
        BY <1>2, <2>1, <3>2
      <4>. QED
        BY <1>5, <2>1, <2>3, <4>1
    <3>. QED
      BY <3>1, <3>2
  <2>. QED
    BY <2>3 DEF OwnFetched, new
<1>9. ASSUME NEW upto \in Nat, from < upto, upto <= Len(r.body) + 1,
             new = Extend(log, r, from, upto), from > 0
      PROVE  OwnFetched(p)
  <2> DEFINE more == Rest(r, from, upto)
  <2>1. new = Longer(log, more) /\ more \in Seq(Byte) /\ Len(new) = n
    BY <1>1, <1>2, <1>6, <1>9, ExtendGoesOn
  <2> HIDE DEF more
  <2>2. \A i \in 1 .. n : new[i].status = log[i].status
    BY <1>2, <1>6, <2>1, LongerType
  <2>3. \A i \in 1 .. n : i # n => new[i] = log[i]
    BY <1>2, <1>6, <2>1, LongerOthers
  <2>4. Asked[p][n].cmd = r.cmd
    BY <1>3, <1>9
  <2>5. ASSUME NEW i \in 1 .. Len(new), new[i].status = 0
        PROVE  Fetched(Asked, p, i, new[i], files)
    <3>1. i \in 1 .. n /\ log[i].status = 0
      BY <2>1, <2>2, <2>5
    <3>2. CASE i = n
      BY <1>4, <1>9, <2>4, <3>1, <3>2 DEF Fetched
    <3>3. CASE i # n
      BY <1>5, <2>3, <3>1, <3>3
    <3>. QED
      BY <3>2, <3>3
  <2>. QED
    BY <2>5 DEF OwnFetched, new
<1>10. from = 0 \/ from > 0
  BY <1>1
<1>. QED
  BY <1>1, <1>7, <1>8, <1>9, <1>10

LEMMA FileFetched ==
    ASSUME IInv, NEW p \in Peers, Connected(p), Follows(p), FetchedFor(p), files' = files,
           conn[p].state = "WRITE_GET_FILE", HandleWriteGetFile(p)
    PROVE  OwnFetched(p)
<1> DEFINE f == fdtab[conn[p].get_fd]
           log == rx[p]
           n == Len(log)
           new == rx'[p]
           name == f.name
           data == files[name].data
           off == f.off
<1>1. \/ new = log
      \/ \E m \in Nat :
            /\ m <= FileLeft(f)
            /\ Piece(f, m) \in Seq(Byte) /\ Len(Piece(f, m)) = m
            /\ new = Longer(log, Piece(f, m))
  BY WriteGetFileDoes
<1>2. /\ log # <<>> /\ log \in Seq(Reply) /\ n \in 1 .. n
      /\ Asked[p][n].cmd = "GET" /\ Asked[p][n].name = name
      /\ name \in SafeNames /\ off \in Nat /\ data \in Seq(Byte)
  BY FileAnswers
<1>3. Uploads(Asked, name) = {} => Len(log[n].body) = off
  BY DEF FetchedFor, Fetching
<1>4. \A i \in 1 .. n : log[i].status = 0 => Fetched(Asked, p, i, log[i], files)
  BY DEF FetchedFor
<1>5. n = Len(log) /\ off = f.off /\ data = files[f.name].data
  OBVIOUS
<1> HIDE DEF log, n, new, name, data, off, f
<1>6. CASE new = log
  BY <1>4, <1>5, <1>6 DEF OwnFetched, new
<1>7. ASSUME NEW m \in Nat, m <= FileLeft(f), NEW more, more = Piece(f, m),
             more \in Seq(Byte), Len(more) = m, new = Longer(log, more)
      PROVE  OwnFetched(p)
  <2>1. Len(new) = n /\ \A i \in 1 .. n : new[i].status = log[i].status
    BY <1>2, <1>5, <1>7, LongerType
  <2>2. \A i \in 1 .. n : i # n => new[i] = log[i]
    BY <1>2, <1>5, <1>7, LongerOthers
  <2>3. /\ m > 0 => off + m <= Len(data)
        /\ \A k \in 1 .. m : more[k] = data[off + k]
    BY <1>2, <1>5, <1>7, PieceIs
  <2>4. ASSUME log[n].status = 0
        PROVE  Fetched(Asked, p, n, new[n], files)
    <3> SUFFICES ASSUME Uploads(Asked, name) = {}
                 PROVE  Carries(new[n], data)
      BY <1>2 DEF Fetched, data
    <3>1. Carries(log[n], data)
      BY <1>2, <1>4, <2>4 DEF Fetched, data
    <3>2. off = Len(log[Len(log)].body) /\ Carries(log[Len(log)], data)
      BY <1>3, <1>5, <3>1
    <3>3. Carries(new[Len(log)], data)
      BY <1>2, <1>7, <2>3, <3>2, PieceCarried
    <3>. QED
      BY <1>5, <3>3
  <2>5. ASSUME NEW i \in 1 .. Len(new), new[i].status = 0
        PROVE  Fetched(Asked, p, i, new[i], files)
    <3>1. i \in 1 .. n /\ log[i].status = 0
      BY <2>1, <2>5
    <3>2. CASE i = n
      BY <2>4, <3>1, <3>2
    <3>3. CASE i # n
      BY <1>4, <2>2, <3>1, <3>3
    <3>. QED
      BY <3>2, <3>3
  <2>. QED
    BY <2>5 DEF OwnFetched, new
<1>. QED
  BY <1>1, <1>6, <1>7

LEMMA OwnHolds ==
    ASSUME IInv, NEW p \in Peers, HandlerOf(p), FetchedFor(p), Asked' = Asked
    PROVE  FetchedFor(p)'
<1>1. Connected(p) /\ Follows(p)
  BY DEF HandlerOf
<1>2. OwnFetching(p)
  BY <1>1, OwnFetches DEF FetchedFor
<1>3. Connected(p)' =>
          Fetching(conn'[p], fdtab'[conn'[p].get_fd], Asked', p, rx'[p], files')
  BY <1>2 DEF OwnFetching, Gone, NoConn, NewConn, Connected
<1>4. CASE rx' = rx /\ FilesDone(p)
  BY <1>3, <1>4, FetchedStays DEF FetchedFor
<1>5. ASSUME OwnFetched(p)
      PROVE  FetchedFor(p)'
  BY <1>3, <1>5 DEF OwnFetched, FetchedFor
<1>. QED
  BY <1>1, <1>4, <1>5, BufferFetched, FileFetched DEF HandlerOf

(* A connection that does not move keeps what it has.                      *)
LEMMA SameFetched ==
    ASSUME IInv, NEW q \in Peers, Follows(q), Asked' = Asked, FetchedFor(q),
           rx'[q] = rx[q], conn'[q].state = "READ_HEADER" \/ SameConnection(q),
           \A i, reply : Fetched(Asked, q, i, reply, files) =>
                             Fetched(Asked, q, i, reply, files'),
           \A name \in SafeNames : Uploads(Asked, name) = {} => files'[name] = files[name]
    PROVE  FetchedFor(q)'
<1> DEFINE c == conn[q]
           log == rx[q]
           f == fdtab[c.get_fd]
<1>1. \A i \in 1 .. Len(log) :
          rx'[q][i].status = 0 => Fetched(Asked', q, i, rx'[q][i], files')
  BY DEF FetchedFor
<1>2. CASE conn'[q].state = "READ_HEADER"
  <2>1. Fetching(conn'[q], fdtab'[conn'[q].get_fd], Asked', q, rx'[q], files')
    BY <1>2, NothingFetched
  <2>. QED
    BY <1>1, <2>1 DEF FetchedFor
<1>3. ASSUME SameConnection(q), Connected(q)
      PROVE  Fetching(conn'[q], fdtab'[conn'[q].get_fd], Asked', q, rx'[q], files')
  <2>1. /\ Fetching(c, f, Asked, q, log, files) /\ conn'[q] = c
        /\ c.get_fd # NoFd => fdtab'[c.get_fd] = f
    BY <1>3 DEF FetchedFor, SameConnection
  <2>2. CASE c.state = "WRITE_BUFFER"
    <3> DEFINE r == c.out_buf[1]
               name == Asked[q][Len(log) + 1].name
               g == fdtab'[c.get_fd]
    <3>1. r.cmd = "GET" =>
             /\ c.out_sent > 0 => log[Len(log)].status # 0
             /\ r.status = 0 \/ c.get_left > 0 =>
                    r.body = <<>> /\ (c.get_left > 0 => f.off = 0)
             /\ r.status = 0 /\ Uploads(Asked, name) = {} =>
                    name \in SafeNames /\ r.length = Len(files[name].data)
      BY <2>1, <2>2 DEF Fetching
    <3>2. c.get_left > 0 => c.get_fd # NoFd
      BY ConnFits DEF Fit, BuffersFit
    <3>3. c.get_left > 0 => g = f
      BY <2>1, <3>2
    <3> HIDE DEF r, name, f, g
    <3>4. r.cmd = "GET" =>
             /\ c.out_sent > 0 => log[Len(log)].status # 0
             /\ r.status = 0 \/ c.get_left > 0 =>
                    r.body = <<>> /\ (c.get_left > 0 => g.off = 0)
             /\ r.status = 0 /\ Uploads(Asked, name) = {} =>
                    name \in SafeNames /\ r.length = Len(files'[name].data)
      BY <3>1, <3>3
    <3>5. Fetching(c, g, Asked, q, log, files')
      BY <2>2, <3>4 DEF Fetching, r, name
    <3>. QED
      BY <2>1, <3>5 DEF g
  <2>3. CASE c.state = "WRITE_GET_FILE"
    <3>1. c.get_fd # NoFd
      BY <2>3, ConnFits DEF Fit, BuffersFit
    <3>2. Fetching(c, f, Asked, q, log, files')
      BY <2>1, <2>3 DEF Fetching
    <3>. QED
      BY <2>1, <3>1, <3>2
  <2>4. CASE c.state \notin {"WRITE_BUFFER", "WRITE_GET_FILE"}
    <3>1. Fetching(c, fdtab'[c.get_fd], Asked, q, log, files')
      BY <2>4 DEF Fetching
    <3>. QED
      BY <2>1, <3>1
  <2>. QED
    BY <2>2, <2>3, <2>4
<1>4. CASE SameConnection(q)
  <2>1. Connected(q)' => Connected(q)
    BY <1>4 DEF SameConnection, Connected
  <2>. QED
    BY <1>1, <1>3, <1>4, <2>1 DEF FetchedFor
<1>. QED
  BY <1>2, <1>4

LEMMA StepFetched ==
    ASSUME IInv, AllFollow, GetsKept, [Next]_vars
    PROVE  GetsKept'
<1>1. Asked' = Asked /\ \A q \in Peers : Follows(q) /\ FetchedFor(q)
  BY StepCases, SameAsked DEF AllFollow, GetsKept
<1>2. ASSUME NEW p \in Peers, HandlerOf(p), NEW q \in Peers
      PROVE  FetchedFor(q)'
  <2>1. CASE q = p
    BY <1>1, <1>2, <2>1, OwnHolds
  <2>2. CASE q # p
    <3>1. SameConnection(q) /\ rx'[q] = rx[q] /\ (files' = files \/ FilesDone(p))
      BY <1>2, <2>2 DEF HandlerOf, SameConnection
    <3>2. \A i, reply : Fetched(Asked, q, i, reply, files) =>
                            Fetched(Asked, q, i, reply, files')
      BY <3>1, FetchedStays
    <3>3. ASSUME NEW name \in SafeNames, Uploads(Asked, name) = {}
          PROVE  files'[name] = files[name]
      <4> DEFINE u == <<p, Len(rx[p]) + 1>>
      <4>1. u \notin Uploads(Asked, name)
        BY <3>3
      <4> HIDE DEF u
      <4>. QED
        BY <3>1, <4>1, UntouchedFile DEF u
    <3>. QED
      BY <1>1, <3>1, <3>2, <3>3, SameFetched
  <2>. QED
    BY <2>1, <2>2
<1>3. ASSUME rx' = rx, files' = files, NEW q \in Peers,
             conn'[q].state = "READ_HEADER" \/ SameConnection(q)
      PROVE  FetchedFor(q)'
  BY <1>1, <1>3, SameFetched
<1>4. \A q \in Peers : FetchedFor(q)'
  BY <1>2, <1>3, StepCases
<1>. QED
  BY <1>4 DEF GetsKept

(* A complete GET reply carries the file, as long as no request writes its *)
(* name (start_get_transfer, handle_write_get_file).                       *)
THEOREM GetSafe ==
    ASSUME \A p \in Peers : \A s \in Streams[p] : PlainUploads(s)
    PROVE  Spec => []GetIntact
<1>1. Init => IInv /\ AllFollow
  BY InitInv, InitFollows
<1>2. Init => GetsKept
  <2> SUFFICES ASSUME Init PROVE GetsKept
    OBVIOUS
  <2>1. \A p \in Peers : rx[p] = <<>> /\ conn[p].fd = NoFd
    BY DEF Init, WireInit, NoConn, NewConn
  <2>. QED
    BY <2>1 DEF GetsKept, FetchedFor, Connected
<1>3. IInv /\ GetsKept => GetIntact
  <2> SUFFICES ASSUME IInv, GetsKept, NEW p \in Peers, NEW i \in DOMAIN rx[p],
                      Asked[p][i].cmd = "GET", rx[p][i].status = 0, Complete(rx[p][i]),
                      Uploads(Asked, Asked[p][i].name) = {}
               PROVE  rx[p][i].body = files[Asked[p][i].name].data
    BY DEF GetIntact, DownloadsIntact
  <2> DEFINE name == Asked[p][i].name
             data == files[name].data
             body == rx[p][i].body
  <2>1. i \in 1 .. Len(rx[p]) /\ rx[p] \in Seq(Reply)
    BY StreamFacts, LenProperties
  <2>2. name \in SafeNames /\ Carries(rx[p][i], data)
    BY <2>1 DEF GetsKept, FetchedFor, Fetched
  <2>3. rx[p][i] \in Reply
    BY <2>1, ElementOfSeq
  <2>4. body \in Seq(Byte) /\ data \in Seq(Byte)
    BY <2>2, <2>3, WireFacts DEF File, Reply
  <2>5. Len(body) = Len(data) /\ \A k \in 1 .. Len(body) : body[k] = data[k]
    BY <2>2 DEF Carries, Complete
  <2> HIDE DEF body, data
  <2>6. body = data
    BY <2>4, <2>5, SeqEqual
  <2>. QED
    BY <2>6 DEF body, data
<1>4. IInv /\ AllFollow /\ [Next]_vars => (IInv /\ AllFollow)'
  BY NextInv, NextFollows
<1>5. IInv /\ AllFollow /\ GetsKept /\ [Next]_vars => GetsKept'
  BY StepFetched
<1>. QED
  BY <1>1, <1>2, <1>3, <1>4, <1>5, PTL DEF Spec
=============================================================================
