-------------------------------- MODULE Wire --------------------------------
(***************************************************************************)
(* What lies between the clients and either server: the messages, one TCP  *)
(* connection per client, and the directory a server runs in.              *)
(*                                                                         *)
(* A byte stream is a sequence of units: a header is HdrLen units so that  *)
(* it can arrive in pieces, a name or a block of file data is one unit.    *)
(***************************************************************************)
EXTENDS Naturals, Sequences, FiniteSets

CONSTANTS
    Peers,             \* clients; each connects once
    SafeNames,         \* file names is_safe_filename accepts
    UnsafeNames,       \* and those it refuses
    Data,              \* blocks of file data
    NULL,              \* the null pointer; any byte that is none of the above
    HdrLen,            \* sizeof(msg_header_t), in units
    MaxFilenameLen,    \* MAX_FILENAME_LEN
    SndBuf,            \* what the kernel holds for a peer that does not read
    Segments,          \* bound: the sizes in which a stream may be cut up
    Leavers,           \* bound: the peers that may close or reset
    Streams,           \* Streams[p]: the byte streams peer p may send
    Directories,       \* the directories the server may be started in
    Faults             \* bound: "resource", "write" and "wait", calls that may
                       \* fail; "pipe", a reset may follow a close

Names == SafeNames \cup UnsafeNames
Byte == Names \cup Data \cup {NULL}
Cmds == {"LIST", "GET", "PUT", "QUIT", "OTHER"}

Header == [magic : BOOLEAN, cmd : Cmds, length : Nat]
NoHeader == [magic |-> FALSE, cmd |-> "OTHER", length |-> 0]
Unit == [part : 0 .. HdrLen, head : Header, byte : Byte]
Reply == [cmd : Cmds, status : {0, 1}, length : Nat, body : Seq(Byte)]
File == [kind : {"none", "dir", "reg"}, data : Seq(Byte)]

ASSUME WireAssumption ==
    HdrLen \in Nat \ {0} /\ MaxFilenameLen \in Nat /\ SndBuf \in Nat \ {0}
ASSUME NullAssumption == NULL \notin Peers /\ NULL \notin SafeNames
ASSUME NamesAssumption == IsFiniteSet(SafeNames)   \* names have a maximal length
ASSUME StreamsAssumption ==
    \A p \in Peers : \A s \in Streams[p] : s \in Seq(Unit)
ASSUME DirectoriesAssumption ==
    \A d \in Directories : d \in [SafeNames -> File]

VARIABLES
    sock,      \* "idle", "open", "fin" (peer closed), "rst" (peer reset) or
               \* "pipe" (no error left to report: a send raises SIGPIPE)
    stream,    \* the bytes each peer means to send
    sent,      \* how many of them it has sent
    rcvd,      \* how many of them the server has received
    rx,        \* the replies sent to each peer, the last one maybe in part
    unread,    \* how many units of them the peer has not read
    backlog,   \* connections not accepted yet, oldest first
    files      \* the directory: name -> File

wireVars == <<sock, stream, sent, rcvd, rx, unread, backlog, files>>

MinOf(a, b) == IF a <= b THEN a ELSE b
MaxOf(a, b) == IF a >= b THEN a ELSE b
Elems(s) == {s[i] : i \in DOMAIN s}

WireInit ==
    /\ sock = [p \in Peers |-> "idle"]
    /\ stream \in {s \in [Peers -> UNION {Streams[p] : p \in Peers}] :
                      \A p \in Peers : s[p] \in Streams[p]}
    /\ sent = [p \in Peers |-> 0]
    /\ rcvd = [p \in Peers |-> 0]
    /\ rx = [p \in Peers |-> <<>>]
    /\ unread = [p \in Peers |-> 0]
    /\ backlog = <<>>
    /\ files \in Directories

-----------------------------------------------------------------------------
(* The peers and the kernel between them and the server.                   *)

Connect(p) ==
    /\ sock[p] = "idle"
    /\ sock' = [sock EXCEPT ![p] = "open"]
    /\ backlog' = Append(backlog, p)
    /\ UNCHANGED <<stream, sent, rcvd, rx, unread, files>>

(* TCP delivers a stream in segments, or all the rest at once.             *)
Send(p) ==
    /\ sock[p] = "open"
    /\ \E n \in sent[p] + 1 .. Len(stream[p]) :
          /\ n - sent[p] \in Segments \/ n = Len(stream[p])
          /\ sent' = [sent EXCEPT ![p] = n]
    /\ UNCHANGED <<sock, stream, rcvd, rx, unread, backlog, files>>

Read(p) ==
    /\ sock[p] = "open"
    /\ unread[p] > 0
    /\ unread' = [unread EXCEPT ![p] = 0]
    /\ UNCHANGED <<sock, stream, sent, rcvd, rx, backlog, files>>

(* The peer closes or is reset; data that meets a closed socket is         *)
(* answered with a reset.                                                  *)
Leave(p) ==
    /\ p \in Leavers
    /\ \/ sock[p] = "open" /\ sock' = [sock EXCEPT ![p] = "fin"]
       \/ sock[p] = "open" /\ sock' = [sock EXCEPT ![p] = "rst"]
       \/ /\ "pipe" \in Faults
          /\ sock[p] = "fin" /\ unread[p] > 0
          /\ sock' = [sock EXCEPT ![p] = "pipe"]
    /\ UNCHANGED <<stream, sent, rcvd, rx, unread, backlog, files>>

Broken(p) == sock[p] \in {"rst", "pipe"}         \* send fails
Ended(p) == sock[p] = "fin" \/ Broken(p)         \* recv fails at the end
Avail(p) == sent[p] - rcvd[p]
Space(p) == SndBuf - unread[p]

-----------------------------------------------------------------------------
(* Messages.                                                               *)

HeaderUnits(magic, cmd, len) ==
    [i \in 1 .. HdrLen |->
        [part |-> i, byte |-> NULL,
         head |-> [magic |-> magic, cmd |-> cmd, length |-> len]]]

ByteUnits(bytes) ==
    [i \in DOMAIN bytes |-> [part |-> 0, head |-> NoHeader, byte |-> bytes[i]]]

IsHeader(units) ==
    /\ \A i \in 1 .. HdrLen : units[i].part = i /\ units[i].head = units[1].head
    /\ units[1].head.magic

NameOf(units) == units[Len(units)].byte
Named(units) == units # <<>> /\ NameOf(units) \in SafeNames
Bytes(units) == [i \in DOMAIN units |-> units[i].byte]

(* The peer gets the units from + 1 .. upto of a reply; unit 1 is its      *)
(* header.                                                                 *)
Extend(log, r, from, upto) ==
    IF from = 0
    THEN Append(log, [r EXCEPT !.body = SubSeq(@, 1, upto - 1)])
    ELSE [log EXCEPT ![Len(log)].body = @ \o SubSeq(r.body, from, upto - 1)]

-----------------------------------------------------------------------------
(* The directory.                                                          *)

(* Listings: the names in the order readdir gives them.                    *)
Existing == {n \in SafeNames : files[n].kind # "none"}
Listings ==
    {l \in [1 .. Cardinality(Existing) -> Existing] :
        \A i, j \in DOMAIN l : l[i] = l[j] => i = j}

Truncated == [kind |-> "reg", data |-> <<>>]

(* write(2) at an offset; a hole left by another writer's O_TRUNC is NULL. *)
WriteAt(data, off, bytes) ==
    [i \in 1 .. MaxOf(Len(data), off + Len(bytes)) |->
        IF i \in off + 1 .. off + Len(bytes) THEN bytes[i - off]
        ELSE IF i <= Len(data) THEN data[i] ELSE NULL]

Stored(name, off, bytes) ==
    [files EXCEPT ![name].data = IF bytes = <<>> THEN @ ELSE WriteAt(@, off, bytes)]

-----------------------------------------------------------------------------
(* The types of what a peer sent and was sent, and of the directory; no    *)
(* socket buffer holds more than it can, and nothing is received that was  *)
(* not sent.                                                               *)
WireTypeOK ==
    /\ sock \in [Peers -> {"idle", "open", "fin", "rst", "pipe"}]
    /\ stream \in [Peers -> Seq(Unit)]
    /\ sent \in [Peers -> Nat]
    /\ rcvd \in [Peers -> Nat]
    /\ \A p \in Peers : rcvd[p] <= sent[p] /\ sent[p] <= Len(stream[p])
    /\ rx \in [Peers -> Seq(Reply)]
    /\ unread \in [Peers -> 0 .. SndBuf]
    /\ backlog \in Seq(Peers)
    /\ files \in [SafeNames -> File]
=============================================================================
