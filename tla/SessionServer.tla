--------------------------- MODULE SessionServer ---------------------------
(***************************************************************************)
(* The server of v1_threadpool: run_server accepts connections and submits *)
(* them to the pool, and a worker runs client_handler (src/server.c) for   *)
(* each one until it ends, with the requests of src/file_ops.c.            *)
(*                                                                         *)
(* The pool is TaskQueue, which ThreadPool implements.  A session's calls  *)
(* block: recv_all is one step, taken when all it needs has arrived or     *)
(* when no more will; a send is a step for what the socket still takes.    *)
(***************************************************************************)
EXTENDS Service

CONSTANTS
    NThreads,  \* the workers of the pool
    ListCap    \* the names that fit handle_list's buffer

ASSUME PoolAssumption == NThreads \in Nat \ {0} /\ ListCap \in Nat

VARIABLES
    queue,     \* connections no worker has taken yet
    serving,   \* connections a worker is busy with
    served,    \* history: connections that were closed by their worker
    ses,       \* the locals of each connection's client_handler
    running    \* the process has not ended

serverVars == <<queue, serving, served, ses, running>>
vars == <<wireVars, serverVars>>

Pool == INSTANCE TaskQueue WITH
    Tasks <- Peers, Capacity <- NThreads,
    pending <- queue, running <- serving, finished <- served, open <- running

Places == {"none", "header", "drain", "name", "put_header", "put_data",
           "put_drain", "reply", "get_read", "get_send", "close"}

Session == [at : Places, cmd : Cmds, left : Nat, name : SafeNames \cup {NULL},
            off : Nat, buf : Seq(Byte),
            out : Seq(Reply), out_sent : Nat, next : Places]

NoSession == [at |-> "none", cmd |-> "OTHER", left |-> 0, name |-> NULL,
              off |-> 0, buf |-> <<>>, out |-> <<>>, out_sent |-> 0,
              next |-> "none"]

Init ==
    /\ WireInit
    /\ queue = <<>>
    /\ serving = {}
    /\ served = {}
    /\ ses = [p \in Peers |-> NoSession]
    /\ running = TRUE

-----------------------------------------------------------------------------
(* The peers, and run_server's loop.                                       *)

(* The server has not closed the connection.                               *)
Attached(p) == p \in Elems(backlog) \cup Elems(queue) \cup serving

PeerConnects(p) == running /\ Connect(p) /\ UNCHANGED serverVars
PeerSends(p) == Attached(p) /\ Send(p) /\ UNCHANGED serverVars
PeerReads(p) == Read(p) /\ UNCHANGED serverVars
PeerLeaves(p) == Attached(p) /\ Leave(p) /\ UNCHANGED serverVars

(* A connection is closed at once if thread_pool_submit has no memory; an  *)
(* accept that fails is logged and tried again, which changes nothing.     *)
Accept ==
    /\ running
    /\ backlog # <<>>
    /\ backlog' = Tail(backlog)
    /\ \/ Pool!Accept(Head(backlog))
       \/ "resource" \in Faults /\ UNCHANGED <<queue, serving, served>>
    /\ UNCHANGED <<sock, stream, sent, rcvd, rx, unread, files, ses, running>>

Begin ==
    /\ running
    /\ Pool!Start
    /\ ses' = [ses EXCEPT ![Head(queue)].at = "header"]
    /\ UNCHANGED <<wireVars, running>>

(* client_handler returns: close(cfd), and the worker is free again.       *)
Close(p) ==
    /\ running
    /\ ses[p].at = "close"
    /\ Pool!Finish(p)
    /\ ses' = [ses EXCEPT ![p] = NoSession]
    /\ UNCHANGED <<wireVars, running>>

-----------------------------------------------------------------------------
(* Blocking calls.                                                         *)

At(p, place) == running /\ ses[p].at = place

Goto(p, s) ==
    /\ ses' = [ses EXCEPT ![p] = s]
    /\ UNCHANGED <<queue, serving, served, running>>

(* The error of a reset is reported once; a send after that is a SIGPIPE.  *)
ErrorReported(p) ==
    sock' = [sock EXCEPT ![p] = IF @ = "rst" THEN "pipe" ELSE @]

AnyArrived(p, n) == Avail(p) > 0   \* mutant: one recv is taken for all

AllArrived(p, n) == Avail(p) >= n

RecvAll(p, n) ==
    /\ AllArrived(p, n)
    /\ rcvd' = [rcvd EXCEPT ![p] = @ + n]
    /\ UNCHANGED <<sock, stream, sent, rx, unread, backlog>>

ClosedUnseen(p) == Broken(p)   \* mutant: recv's 0 is taken for "try again"

NoMoreComes(p) == Ended(p)

RecvFails(p, n) ==
    /\ Avail(p) < n /\ NoMoreComes(p)
    /\ rcvd' = [rcvd EXCEPT ![p] = sent[p]]
    /\ ErrorReported(p)
    /\ UNCHANGED <<stream, sent, rx, unread, backlog>>

Incoming(p, n) == SubSeq(stream[p], rcvd[p] + 1, rcvd[p] + n)

SendFails(p) ==
    /\ sock[p] = "rst"
    /\ ErrorReported(p)
    /\ UNCHANGED <<stream, sent, rcvd, rx, unread, backlog, files>>

Sending == {"reply", "get_send"}

(* Nothing handles SIGPIPE: the process ends with all its sessions.        *)
KilledBySigpipe(p) ==
    /\ running /\ ses[p].at \in Sending
    /\ sock[p] = "pipe"
    /\ running' = FALSE
    /\ backlog' = <<>> /\ queue' = <<>> /\ serving' = {}
    /\ ses' = [q \in Peers |-> NoSession]
    /\ UNCHANGED <<sock, stream, sent, rcvd, rx, unread, files, served>>

-----------------------------------------------------------------------------
(* Replies: send_header, and for a listing send_all after it.              *)

Reply1(s, cmd, status, len, body, next) ==
    [s EXCEPT !.at = "reply", !.next = next, !.out_sent = 0,
              !.out = <<[cmd |-> cmd, status |-> status,
                         length |-> len, body |-> body]>>]

Succeed(s, cmd, body, next) == Reply1(s, cmd, 0, Len(body), body, next)
Fail(s, cmd, next) == Reply1(s, cmd, 1, 0, <<>>, next)
Stop(s) == [s EXCEPT !.at = "close"]

RestartsReply(from) == 0   \* mutant: send_all does not move its pointer

SentSoFar(from) == from

(* Only the answer to an unknown command ignores that it cannot be sent.   *)
SendReply(p) ==
    LET s == ses[p]
        r == s.out[1]
        whole == Len(r.body) + 1
        upto == MinOf(s.out_sent + Space(p), whole)
    IN  /\ At(p, "reply")
        /\ \/ /\ SendFails(p)
              /\ Goto(p, IF r.cmd = "OTHER" THEN [s EXCEPT !.at = s.next] ELSE Stop(s))
           \/ /\ ~Broken(p) /\ Space(p) > 0
              /\ rx' = [rx EXCEPT ![p] = Extend(@, r, SentSoFar(s.out_sent), upto)]
              /\ unread' = [unread EXCEPT ![p] = @ + (upto - s.out_sent)]
              /\ Goto(p, IF upto < whole THEN [s EXCEPT !.out_sent = upto]
                         ELSE [s EXCEPT !.at = s.next, !.out = <<>>, !.out_sent = 0])
              /\ UNCHANGED <<sock, stream, sent, rcvd, backlog, files>>

-----------------------------------------------------------------------------
(* client_handler.                                                         *)

BadName(h) == h.cmd \in {"GET", "PUT"} /\ h.length \notin 1 .. MaxFilenameLen

Dispatch(s, h) ==
    IF BadName(h) THEN Fail(s, h.cmd, "close")
    ELSE [s EXCEPT !.cmd = h.cmd, !.left = h.length,
                   !.at = IF h.cmd \in {"GET", "PUT"} THEN "name" ELSE "drain"]

RecvHeader(p) ==
    LET s == ses[p]
        units == Incoming(p, HdrLen)
    IN  /\ At(p, "header")
        /\ UNCHANGED files
        /\ \/ RecvFails(p, HdrLen) /\ Goto(p, Stop(s))
           \/ /\ RecvAll(p, HdrLen)
              /\ Goto(p, IF IsHeader(units) THEN Dispatch(s, units[1].head)
                         ELSE Stop(s))

DotListed(l) == <<NULL>> \o l   \* mutant: "." is not left out

(* handle_list: the names that fit the buffer.                             *)
Listed(l) == SubSeq(l, 1, MinOf(Len(l), ListCap))

Undrained(p, n) == RecvAll(p, 0)   \* mutant: the payload is left unread

DrainPayload(p, n) == RecvAll(p, n) \/ RecvFails(p, n)

StaysAfterQuit == "header"   \* mutant: no break after the reply to QUIT

AfterQuit == "close"

(* LIST, QUIT and unknown commands: a payload is dropped, even in part.    *)
Drain(p) ==
    LET s == ses[p] IN
    /\ At(p, "drain")
    /\ DrainPayload(p, s.left)
    /\ UNCHANGED files
    /\ \/ /\ s.cmd = "LIST"
          /\ \E l \in Listings : Goto(p, Succeed(s, "LIST", Listed(l), "header"))
       \/ /\ s.cmd = "LIST" /\ "resource" \in Faults      \* opendir
          /\ Goto(p, Fail(s, "LIST", "close"))
       \/ s.cmd = "QUIT" /\ Goto(p, Succeed(s, "QUIT", <<>>, AfterQuit))
       \/ s.cmd = "OTHER" /\ Goto(p, Fail(s, "OTHER", "header"))

GetOpens(name) == files[name].kind = "reg"

RefusalCloses == "close"   \* mutant: a file that is not there ends the session

AfterRefusal == "header"

(* handle_get up to its header: the length is the size at this moment.     *)
Get(s, units) ==
    IF Named(units) /\ GetOpens(NameOf(units))
    THEN Reply1([s EXCEPT !.name = NameOf(units), !.off = 0], "GET", 0,
                Len(files[NameOf(units)].data), <<>>, "get_read")
    ELSE Fail(s, "GET", AfterRefusal)

(* handle_put refuses an unsafe name at once, before the second message.   *)
Put(s, units) ==
    IF Named(units) THEN [s EXCEPT !.at = "put_header", !.name = NameOf(units)]
    ELSE Fail(s, "PUT", "header")

RecvName(p) ==
    LET s == ses[p]
        units == Incoming(p, s.left)
    IN  /\ At(p, "name")
        /\ UNCHANGED files
        /\ \/ RecvFails(p, s.left) /\ Goto(p, Fail(s, s.cmd, "close"))
           \/ /\ "resource" \in Faults                    \* malloc
              /\ Goto(p, Fail(s, s.cmd, "close"))
              /\ UNCHANGED <<sock, stream, sent, rcvd, rx, unread, backlog>>
           \/ /\ RecvAll(p, s.left)
              /\ \/ s.cmd = "GET" /\ Goto(p, Get(s, units))
                 \/ /\ s.cmd = "GET" /\ "resource" \in Faults   \* open
                    /\ Goto(p, Fail(s, "GET", "header"))
                 \/ s.cmd = "PUT" /\ Goto(p, Put(s, units))

-----------------------------------------------------------------------------
(* handle_get: blocks are read and sent until the end of the file.         *)

FirstBlock(data, off) == data[1]   \* mutant: the file position does not move

Block(data, off) == data[off + 1]

GetRead(p) ==
    LET s == ses[p]
        data == files[s.name].data
    IN  /\ At(p, "get_read")
        /\ UNCHANGED wireVars
        /\ \/ /\ s.off < Len(data)
              /\ Goto(p, [s EXCEPT !.at = "get_send", !.off = @ + 1,
                                   !.buf = <<Block(data, s.off)>>])
           \/ s.off >= Len(data) /\ Goto(p, [s EXCEPT !.at = "header"])
           \/ "resource" \in Faults /\ Goto(p, Stop(s))   \* read

GetSend(p) ==
    LET s == ses[p] IN
    /\ At(p, "get_send")
    /\ \/ SendFails(p) /\ Goto(p, [Stop(s) EXCEPT !.buf = <<>>])
       \/ /\ ~Broken(p) /\ Space(p) > 0
          /\ rx' = [rx EXCEPT ![p][Len(rx[p])].body = @ \o s.buf]
          /\ unread' = [unread EXCEPT ![p] = @ + 1]
          /\ Goto(p, [s EXCEPT !.at = "get_read", !.buf = <<>>])
          /\ UNCHANGED <<sock, stream, sent, rcvd, backlog, files>>

-----------------------------------------------------------------------------
(* handle_put: the second header, then the data block by block.            *)

PutOpens(name) == files[name].kind # "dir"

RecvPutHeader(p) ==
    LET s == ses[p]
        units == Incoming(p, HdrLen)
        h == units[1].head
    IN  /\ At(p, "put_header")
        /\ \/ RecvFails(p, HdrLen) /\ Goto(p, Stop(s)) /\ UNCHANGED files
           \/ /\ RecvAll(p, HdrLen)
              /\ \/ ~IsHeader(units) /\ Goto(p, Stop(s)) /\ UNCHANGED files
                 \/ /\ IsHeader(units) /\ h.cmd # "PUT"
                    /\ Goto(p, Fail(s, "PUT", "close"))
                    /\ UNCHANGED files
                 \/ /\ IsHeader(units) /\ h.cmd = "PUT" /\ PutOpens(s.name)
                    /\ files' = [files EXCEPT ![s.name] = Truncated]
                    /\ Goto(p, [s EXCEPT !.at = "put_data", !.left = h.length,
                                         !.off = 0])
                 \/ /\ IsHeader(units) /\ h.cmd = "PUT"
                    /\ ~PutOpens(s.name) \/ "resource" \in Faults
                    /\ Goto(p, [s EXCEPT !.at = "put_drain", !.left = h.length])
                    /\ UNCHANGED files

OffsetKept(s) == [s EXCEPT !.left = @ - 1]   \* mutant: written at one place

BlockWritten(s) == [s EXCEPT !.left = @ - 1, !.off = @ + 1]

RecvPutData(p) ==
    LET s == ses[p]
        bytes == Bytes(Incoming(p, 1))
    IN  /\ At(p, "put_data")
        /\ \/ /\ s.left = 0
              /\ Goto(p, Succeed(s, "PUT", <<>>, "header"))
              /\ UNCHANGED wireVars
           \/ /\ s.left > 0 /\ RecvFails(p, 1)
              /\ Goto(p, Stop(s))
              /\ UNCHANGED files
           \/ /\ s.left > 0 /\ RecvAll(p, 1)
              /\ \/ /\ files' = Stored(s.name, s.off, bytes)
                    /\ Goto(p, BlockWritten(s))
                 \/ /\ "write" \in Faults                 \* ENOSPC
                    /\ Goto(p, Fail(s, "PUT", "close"))
                    /\ UNCHANGED files

(* The file could not be opened: its data is read and dropped.             *)
DrainPut(p) ==
    LET s == ses[p] IN
    /\ At(p, "put_drain")
    /\ UNCHANGED files
    /\ \/ RecvFails(p, s.left) /\ Goto(p, Stop(s))
       \/ RecvAll(p, s.left) /\ Goto(p, Fail(s, "PUT", "close"))

-----------------------------------------------------------------------------
Worker(p) ==
    \/ RecvHeader(p) \/ Drain(p) \/ RecvName(p)
    \/ GetRead(p) \/ GetSend(p)
    \/ RecvPutHeader(p) \/ RecvPutData(p) \/ DrainPut(p)
    \/ SendReply(p) \/ Close(p) \/ KilledBySigpipe(p)

Peer(p) ==
    PeerConnects(p) \/ PeerSends(p) \/ PeerReads(p) \/ PeerLeaves(p)

Next == Accept \/ Begin \/ \E p \in Peers : Worker(p) \/ Peer(p)

Spec == Init /\ [][Next]_vars

(* Every thread that can run does, and a peer connects, sends all it means *)
(* to and reads what it is sent.  No peer has to leave, but what is sent   *)
(* to one that has is answered with a reset, where "pipe" includes it.     *)
Fairness ==
    /\ WF_vars(Accept) /\ WF_vars(Begin)
    /\ \A p \in Peers :
        /\ WF_vars(Worker(p))
        /\ WF_vars(PeerConnects(p)) /\ WF_vars(PeerSends(p)) /\ WF_vars(PeerReads(p))
        /\ WF_vars(Ended(p) /\ PeerLeaves(p))

FairSpec == Spec /\ Fairness

-----------------------------------------------------------------------------
(* The headers, and the headers with the last byte of their payload, that  *)
(* make the server end the connection.                                     *)
Refused == {h \in Header : BadName(h)}
Quitting == {m \in Header \X Byte : m[1].cmd = "QUIT"}

Asked == [p \in Peers |-> RequestsOf(stream[p], Refused, Quitting)]

(* The types of the pool's queue and of the sessions' locals.              *)
TypeOK ==
    /\ WireTypeOK
    /\ queue \in Seq(Peers)
    /\ serving \in SUBSET Peers
    /\ served \in SUBSET Peers
    /\ ses \in [Peers -> Session]
    /\ running \in BOOLEAN

(* A reply is sent whole, as long as its header says, before the next one  *)
(* begins and before another request is read, as long as the file it       *)
(* carries does not change (send_all, handle_get).                         *)
RepliesFramed ==
    Framed({p \in Peers : ses[p].at \in {"header", "name", "drain", "put_header"}})

(* The replies answer the requests one by one and in order: what a failed  *)
(* request leaves unread is not taken for the next one, as long as every   *)
(* upload has a safe name and both its messages.  handle_put reads no data *)
(* of one whose name it refuses (client_handler, drain_payload).           *)
RepliesInOrder == InOrder(Asked)

(* A PUT acknowledged with status 0 is stored whole under its name, as     *)
(* long as no other request writes that name (handle_put).                 *)
PutStored == UploadsStored(Asked)

(* A complete GET reply carries the file, as long as no request writes its *)
(* name (handle_get).                                                      *)
GetIntact == DownloadsIntact(Asked)

(* Uploads of one name that overlap, or that end half-way, may mix block   *)
(* by block, but each block is one that was sent under this name, at its   *)
(* place: nothing of another connection or of another message gets into a  *)
(* file (handle_put, write_all_fd).                                         *)
FilesUnspoiled == BlocksInPlace(Asked)

(* Another peer's connection was reset and sent to again: the process has  *)
(* ended with every session (send in send_all).                            *)
EndedBySigpipe(p) == ~running /\ \E q \in Peers \ {p} : sock[q] = "pipe"

(* A peer that stays and reads gets the whole answer to everything it      *)
(* asks, whatever the others ask and whenever they leave, unless one that  *)
(* left while it was owed an answer ends the server (run_server,           *)
(* client_handler).                                                        *)
EveryRequestAnswered ==
    \A p \in Peers : <>(Ended(p) \/ AllAnswered(Asked, p) \/ EndedBySigpipe(p))

(* The connection of a peer that has gone is closed, and its worker serves *)
(* the next one (client_handler's return).                                 *)
GoneIsClosed == \A p \in Peers : Ended(p) ~> ~Attached(p)

-----------------------------------------------------------------------------
(* Streams of whole requests: no payload is cut short, each PUT has a safe *)
(* name and a second message.  `marks` are the units at which a message    *)
(* begins, each with the file that the first message of a PUT has named    *)
(* before it, or NULL.                                                     *)

Continues(units, marks, i, name) ==
    LET head == units[i].head
        next == After(units, i)
    IN  /\ name # NULL => HeaderAt(units, i)
        /\ /\ HeaderAt(units, i)
           /\ IF name = NULL THEN head \notin Refused ELSE head.cmd = "PUT"
           => /\ WholeAt(units, i)
              /\ name # NULL \/ head.cmd \in {"LIST", "GET", "OTHER"} =>
                     <<next, NULL>> \in marks
              /\ name = NULL /\ head.cmd = "PUT" =>
                     /\ LastByte(units, i) \in SafeNames
                     /\ <<next, LastByte(units, i)>> \in marks

Marks(units, marks) ==
    /\ marks \in SUBSET ((1 .. Len(units) + 1) \X Byte)
    /\ <<1, NULL>> \in marks
    /\ \A m \in marks : Continues(units, marks, m[1], m[2])

WholeRequests(units) == \E marks : Marks(units, marks)
=============================================================================
