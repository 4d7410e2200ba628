------------------------------- MODULE Client -------------------------------
(***************************************************************************)
(* The interactive client (src/client.c, the same file in both versions)   *)
(* and its end of the connection.                                          *)
(*                                                                         *)
(* A command's calls block, one after the other: send_all is a step for    *)
(* what the socket takes, recv_all one for each unit that has come.  The   *)
(* actions take two facts about the other end: `open`, the server has not  *)
(* closed the connection, and `up`, it is running.  A stream is what its   *)
(* client has sent so far.                                                 *)
(***************************************************************************)
EXTENDS Wire

CONSTANTS
    Scripts,           \* Scripts[p]: the lines its user may type
    LocalDirectories,  \* LocalDirectories[p]: the directories it may run in
    Fragile            \* bound: clients whose disk may fail or that are killed

VARIABLES
    cli,       \* each client's process: where it is and what it is doing
    todo,      \* the lines not read yet
    local      \* each client's directory

cliVars == <<cli, todo, local>>

Line(cmd, name) == [cmd |-> cmd, name |-> name]

(* A line that main takes for a get or a put has a name.                   *)
Lines == {l \in [cmd : Cmds, name : Names \cup {""}] :
              l.cmd \in {"GET", "PUT"} => l.name \in Names}

ASSUME RoomAssumption == HdrLen <= SndBuf
ASSUME ScriptsAssumption ==
    \A p \in Peers : \A s \in Scripts[p] : s \in Seq(Lines)
ASSUME LocalAssumption ==
    \A p \in Peers : \A d \in LocalDirectories[p] : d \in [Names -> File]
ASSUME SilentAssumption ==   \* nothing was sent before a command is given
    \A p \in Peers : Streams[p] = {<<>>}

(* A name that one client uploads is used by that client alone.            *)
Used(p, cmds) ==
    UNION {{l.name : l \in {k \in Elems(s) : k.cmd \in cmds}} : s \in Scripts[p]}
ASSUME OwnUploadsAssumption ==
    \A p, q \in Peers : p # q => Used(p, {"PUT"}) \cap Used(q, {"GET", "PUT"}) = {}

(* op is the command as its user sees it, out what it still has to send,   *)
(* left what is still to come of the reply, drop that the reply's data     *)
(* goes nowhere, told that a call has reported the end of the connection.  *)
NoClient == [at |-> "connect", out |-> <<>>, left |-> 0, drop |-> FALSE,
             told |-> FALSE,
             op |-> [cmd |-> "OTHER", name |-> "", had |-> {}, shown |-> <<>>,
                     phase |-> "idle"]]

ClientInit ==
    /\ cli = [p \in Peers |-> NoClient]
    /\ todo \in {s \in [Peers -> UNION {Scripts[p] : p \in Peers}] :
                    \A p \in Peers : s[p] \in Scripts[p]}
    /\ local \in {d \in [Peers -> UNION {LocalDirectories[p] : p \in Peers}] :
                    \A p \in Peers : d[p] \in LocalDirectories[p]}

ClientAt(p, place) == cli[p].at = place

Becomes(p, c) == cli' = [cli EXCEPT ![p] = c] /\ UNCHANGED todo

Exited(c) == [c EXCEPT !.at = "closed", !.out = <<>>, !.left = 0, !.drop = FALSE]

(* A handle_*_client returns; main goes on to the prompt, or closes.       *)
Reports(c, phase) ==
    [c EXCEPT !.at = IF c.op.cmd = "QUIT" THEN "closed" ELSE "prompt",
              !.op.phase = phase, !.out = <<>>, !.left = 0, !.drop = FALSE]

-----------------------------------------------------------------------------
(* main.                                                                   *)

Connects(p, up) ==
    /\ ClientAt(p, "connect")
    /\ \/ /\ up
          /\ Connect(p)
          /\ Becomes(p, [cli[p] EXCEPT !.at = "prompt"])
       \/ /\ ~up
          /\ Becomes(p, Exited(cli[p]))
          /\ UNCHANGED wireVars
    /\ UNCHANGED local

(* The messages of a command: handle_list_client .. handle_quit_client.    *)
Message(cmd, bytes) == HeaderUnits(TRUE, cmd, Len(bytes)) \o ByteUnits(bytes)

OneMore(data) == Len(data) + 1   \* mutant: a terminator is counted

PutLength(data) == Len(data)

Messages(p, line) ==
    CASE line.cmd \in {"LIST", "QUIT"} -> Message(line.cmd, <<>>)
      [] line.cmd = "GET" -> Message("GET", <<line.name>>)
      [] line.cmd = "PUT" -> Message("PUT", <<line.name>>)
            \o HeaderUnits(TRUE, "PUT", PutLength(local[p][line.name].data))
            \o ByteUnits(local[p][line.name].data)

(* handle_put_client looks at the file before it sends anything.           *)
RefusedHere(p, line) == line.cmd = "PUT" /\ local[p][line.name].kind # "reg"

Types(p) ==
    LET line == Head(todo[p])
        op == [cmd |-> line.cmd, name |-> line.name, had |-> Existing,
               shown |-> <<>>, phase |-> "running"]
    IN  /\ ClientAt(p, "prompt")
        /\ todo[p] # <<>>
        /\ todo' = [todo EXCEPT ![p] = Tail(@)]
        /\ \/ /\ line.cmd = "OTHER"                   \* no command, or no name
              /\ UNCHANGED cli
           \/ /\ line.cmd # "OTHER" /\ ~RefusedHere(p, line)
              /\ cli' = [cli EXCEPT ![p].at = "send", ![p].op = op,
                                    ![p].out = Messages(p, line)]
           \/ /\ RefusedHere(p, line)
              /\ cli' = [cli EXCEPT ![p].op = [op EXCEPT !.phase = "failed"]]
        /\ UNCHANGED <<wireVars, local>>

InputEnds(p) ==
    /\ ClientAt(p, "prompt")
    /\ todo[p] = <<>>
    /\ Becomes(p, Exited(cli[p]))
    /\ UNCHANGED <<wireVars, local>>

-----------------------------------------------------------------------------
(* send_all, and the loop of handle_put_client around it.                  *)

Room(p) == SndBuf - (Len(stream[p]) - rcvd[p])

(* Something reached the server after it had closed.                       *)
Reset(p, open) == ~open /\ Len(stream[p]) > rcvd[p]

Transmits(p) ==
    LET n == MinOf(Room(p), Len(cli[p].out))
        rest == SubSeq(cli[p].out, n + 1, Len(cli[p].out))
    IN  /\ ClientAt(p, "send")
        /\ n > 0
        /\ stream' = [stream EXCEPT ![p] = @ \o SubSeq(cli[p].out, 1, n)]
        /\ Becomes(p, [cli[p] EXCEPT !.out = rest,
                                     !.at = IF rest = <<>> THEN "recv" ELSE @])
        /\ UNCHANGED <<sock, sent, rcvd, rx, unread, backlog, files, local>>

(* The first call after a reset reports it; a send after that, or a first  *)
(* one if the close was seen before the reset, raises SIGPIPE.             *)
TransmitFails(p, open) ==
    /\ ClientAt(p, "send")
    /\ Reset(p, open)
    /\ \/ /\ ~cli[p].told
          /\ Becomes(p, [Reports(cli[p], "failed") EXCEPT !.told = TRUE])
       \/ Becomes(p, Exited(cli[p]))
    /\ UNCHANGED <<wireVars, local>>

-----------------------------------------------------------------------------
(* recv_header and recv_all.                                               *)

(* What p was sent, unit by unit: each reply is one for its header, and    *)
(* one for each byte that followed it.                                     *)
ReplyUnits(r) ==
    <<[r EXCEPT !.body = <<>>]>>
    \o [i \in DOMAIN r.body |-> [cmd |-> "OTHER", status |-> 1, length |-> 0,
                                 body |-> <<r.body[i]>>]]
UnitsOf(log) ==
    LET units[n \in 0 .. Len(log)] ==
            IF n = 0 THEN <<>> ELSE units[n - 1] \o ReplyUnits(log[n])
    IN  units[Len(log)]
Sent(p) == UnitsOf(rx[p])

NextUnit(p) == Sent(p)[Len(Sent(p)) - unread[p] + 1]
IsReply(u) == u.body = <<>>
ByteOf(u) == IF IsReply(u) THEN NULL ELSE u.body[1]

TakesUnit(p) ==
    /\ unread[p] > 0
    /\ unread' = [unread EXCEPT ![p] = @ - 1]
    /\ UNCHANGED <<sock, stream, sent, rcvd, rx, backlog, files>>

StatusIgnored(c, u) == u.cmd = c.op.cmd   \* mutant: only cmd is looked at

Granted(c, u) == u.cmd = c.op.cmd /\ u.status = 0

(* The file of a download cannot be opened.                                *)
OpenFails(p, name) == local[p][name].kind = "dir"

Opened(p, name) == local' = [local EXCEPT ![p][name] = Truncated]

LeftUnread(c) == Reports(c, "failed")   \* mutant: its data is not read past

ReadPast(c) == [c EXCEPT !.drop = TRUE]

GetBegins(p, c) ==
    \/ /\ OpenFails(p, c.op.name) \/ p \in Fragile
       /\ Becomes(p, ReadPast(c))
       /\ UNCHANGED local
    \/ /\ ~OpenFails(p, c.op.name)
       /\ Becomes(p, c)
       /\ Opened(p, c.op.name)

RecvReply(p) ==
    LET u == NextUnit(p)
        c == [cli[p] EXCEPT !.at = "body", !.left = u.length]
    IN  /\ ClientAt(p, "recv")
        /\ TakesUnit(p)
        /\ \/ /\ ~IsReply(u) \/ ~Granted(c, u)
              /\ Becomes(p, Reports(c, "failed"))
              /\ UNCHANGED local
           \/ /\ IsReply(u) /\ Granted(c, u)
              /\ \/ c.op.cmd = "GET" /\ GetBegins(p, c)
                 \/ c.op.cmd = "LIST" /\ Becomes(p, c) /\ UNCHANGED local
                 \/ /\ c.op.cmd \in {"PUT", "QUIT"}
                    /\ Becomes(p, Reports(c, "ok"))
                    /\ UNCHANGED local

RecvBody(p) ==
    LET byte == ByteOf(NextUnit(p))
        c == [cli[p] EXCEPT !.left = @ - 1]
        n == c.op.name
    IN  /\ ClientAt(p, "body")
        /\ c.left + 1 > 0
        /\ TakesUnit(p)
        /\ \/ /\ c.op.cmd = "LIST"
              /\ Becomes(p, [c EXCEPT !.op.shown = Append(@, byte)])
              /\ UNCHANGED local
           \/ /\ c.op.cmd = "GET" /\ c.drop
              /\ Becomes(p, c)
              /\ UNCHANGED local
           \/ /\ c.op.cmd = "GET" /\ ~c.drop
              /\ Becomes(p, c)
              /\ local' = [local EXCEPT ![p][n].data = Append(@, byte)]

EndsEarly(c) == c.left = 1   \* mutant: the last unit is not waited for

AllRead(c) == c.left = 0

BodyEnds(p) ==
    /\ ClientAt(p, "body")
    /\ AllRead(cli[p])
    /\ Becomes(p, Reports(cli[p], IF cli[p].drop THEN "failed" ELSE "ok"))
    /\ UNCHANGED <<wireVars, local>>

(* A reset may overtake what was not read yet.                             *)
NoReply(p, open) ==
    /\ ClientAt(p, "recv") \/ (ClientAt(p, "body") /\ cli[p].left > 0)
    /\ ~open
    /\ unread[p] = 0 \/ Reset(p, open)
    /\ unread' = [unread EXCEPT ![p] = 0]
    /\ Becomes(p, [Reports(cli[p], "failed") EXCEPT !.told = TRUE])
    /\ UNCHANGED <<sock, stream, sent, rcvd, rx, backlog, files, local>>

-----------------------------------------------------------------------------
(* What may go wrong on the client's own machine.                          *)

(* A read of the uploaded file or a write of the downloaded one fails.     *)
DiskFails(p) ==
    /\ \/ /\ ClientAt(p, "send") /\ cli[p].op.cmd = "PUT"
          /\ Len(cli[p].out) <= Len(local[p][cli[p].op.name].data)
          /\ UNCHANGED wireVars
       \/ /\ ClientAt(p, "body") /\ cli[p].op.cmd = "GET"
          /\ cli[p].left > 0 /\ ~cli[p].drop
          /\ TakesUnit(p)
    /\ Becomes(p, Reports(cli[p], "failed"))
    /\ UNCHANGED local

Killed(p) ==
    /\ cli[p].at \notin {"connect", "closed"}
    /\ Becomes(p, Exited(cli[p]))
    /\ UNCHANGED <<wireVars, local>>

(* close: replies that have come and were not read cost a reset, else the  *)
(* end of the stream follows what was sent; a reply that comes in later is *)
(* answered with a reset.                                                  *)
CloseArrives(p, open) ==
    /\ ClientAt(p, "closed") /\ open
    /\ \/ sock[p] = "open" /\ unread[p] > 0 /\ sock' = [sock EXCEPT ![p] = "rst"]
       \/ /\ sock[p] = "open" /\ sent[p] = Len(stream[p])
          /\ sock' = [sock EXCEPT ![p] = "fin"]
       \/ sock[p] = "fin" /\ unread[p] > 0 /\ sock' = [sock EXCEPT ![p] = "pipe"]
    /\ UNCHANGED <<stream, sent, rcvd, rx, unread, backlog, files, cliVars>>

-----------------------------------------------------------------------------
(* What a client does as long as nothing goes wrong on its machine.        *)
ClientRuns(p, open, up) ==
    \/ Connects(p, up) \/ Types(p) \/ InputEnds(p)
    \/ Transmits(p) \/ TransmitFails(p, open)
    \/ RecvReply(p) \/ RecvBody(p) \/ BodyEnds(p) \/ NoReply(p, open)
    \/ CloseArrives(p, open)

ClientBreaks(p) == p \in Fragile /\ (DiskFails(p) \/ Killed(p))

-----------------------------------------------------------------------------
(* The commands as FileService sees them.                                  *)
Commands == [p \in Peers |-> cli[p].op]

UploadRefused(p) ==
    \E i \in DOMAIN rx[p] : rx[p][i].cmd = "PUT" /\ rx[p][i].status = 1

(* The types of a client's process, which has nothing left to do between   *)
(* two commands; a listing shows names and nothing else.                   *)
ClientTypeOK ==
    /\ todo \in [Peers -> Seq(Lines)]
    /\ local \in [Peers -> [Names -> File]]
    /\ \A p \in Peers : LET c == cli[p] IN
        /\ c.at \in {"connect", "prompt", "send", "recv", "body", "closed"}
        /\ c.out \in Seq(Unit) /\ (c.out # <<>> <=> c.at = "send")
        /\ c.left \in Nat /\ (c.left > 0 => c.at = "body")
        /\ c.drop => c.at = "body" /\ c.op.cmd = "GET"
        /\ c.op.shown \in Seq(SafeNames) /\ c.op.had \subseteq SafeNames
        /\ c.at \in {"send", "recv", "body"} => c.op.phase = "running"
        /\ c.at \in {"connect", "prompt"} => c.op.phase # "running"

AtEase(p) == ClientAt(p, "prompt") /\ p \notin Fragile

(* What the client has sent was read, and it has read what it was sent.    *)
Level(p) == unread[p] = 0 /\ rcvd[p] = Len(stream[p])
=============================================================================
