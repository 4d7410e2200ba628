---------------------------- MODULE EpollService ----------------------------
(***************************************************************************)
(* The properties of Service, for EpollServer.                             *)
(***************************************************************************)
EXTENDS EpollServer, Service

(* The headers, and the headers with the last byte of their payload, that  *)
(* make the server end the connection.                                     *)
Refused ==
    {h \in Header : TooLong(h) \/ (h.cmd \in {"GET", "PUT"} /\ h.length = 0)}

Quitting ==
    {m \in Header \X Byte :
        \/ m[1].cmd = "QUIT"
        \/ m[1].cmd = "LIST" /\ m[1].length > 0
        \/ m[1].cmd \in {"GET", "PUT"} /\ m[2] \notin SafeNames}

Asked == [p \in Peers |-> RequestsOf(stream[p], Refused, Quitting)]

(* Every upload that a stream begins is there to its last byte, and its    *)
(* data does not look like a request: handle_read_header takes the data of *)
(* an upload it could not open for the next request.                       *)
PlainUploads(units) ==
    \A i \in 1 .. Len(units) :
        HeaderAt(units, i) /\ units[i].head.cmd = "PUT" =>
            /\ WholeAt(units, i)
            /\ units[i].head.length > 0 => ~HeaderAt(units, i + HdrLen)

(* A reply is sent whole, as long as its header says, before the next one  *)
(* begins and before another request is read; only a connection that was   *)
(* closed leaves one unfinished (handle_write_buffer,                      *)
(* handle_write_get_file).                                                 *)
RepliesFramed ==
    Framed({p \in Peers : Connected(p) /\ conn[p].state \in Reading})

(* The replies answer the requests of the stream one by one and in order,  *)
(* however TCP cuts it up: none twice, none out of turn and none after a   *)
(* request that ends the connection, as long as uploads are whole and      *)
(* their data does not look like a header (handle_read_header,             *)
(* handle_request).                                                        *)
RepliesInOrder == InOrder(Asked)

(* A PUT acknowledged with status 0 is stored whole under its name, as     *)
(* long as no other request writes that name (handle_put_stream).          *)
PutStored == UploadsStored(Asked)

(* A complete GET reply carries the file, as long as no request writes its *)
(* name (start_get_transfer, handle_write_get_file).                       *)
GetIntact == DownloadsIntact(Asked)

(* Uploads of one name that overlap, or that end half-way, may mix block   *)
(* by block, but each block is one that was sent under this name, at its   *)
(* place: nothing of another connection or of another message gets into a  *)
(* file (handle_put_stream, handle_read_header).                            *)
FilesUnspoiled == BlocksInPlace(Asked)

(* Another peer's connection was reset and written to again: the process   *)
(* has ended with every connection (send and sendfile of the handlers).    *)
EndedBySigpipe(p) == ~running /\ \E q \in Peers \ {p} : sock[q] = "pipe"

(* A peer that stays and reads gets the whole answer to everything it      *)
(* asks, unless one that left between epoll_wait and its handler ends the  *)
(* server (run_server's loop and set_interest_by_state keep its connection *)
(* going).                                                                 *)
EveryRequestAnswered ==
    \A p \in Peers : <>(Ended(p) \/ AllAnswered(Asked, p) \/ EndedBySigpipe(p))

(* The connection of a peer that has gone is closed (run_server's test for *)
(* EPOLLRDHUP, EPOLLHUP and EPOLLERR, and the accept loop).                *)
GoneIsClosed == \A p \in Peers : Ended(p) ~> ~Attached(p)
=============================================================================
