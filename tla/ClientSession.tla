---------------------------- MODULE ClientSession ----------------------------
(***************************************************************************)
(* The clients and the server of v1_threadpool together.                   *)
(***************************************************************************)
EXTENDS SessionServer, Client

allVars == <<vars, cliVars>>

TogetherInit == Init /\ ClientInit

ServerRuns == (Accept \/ Begin) /\ UNCHANGED cliVars
WorkerRuns(p) == Worker(p) /\ UNCHANGED cliVars
Arrives(p) == PeerSends(p) /\ UNCHANGED cliVars
UserRuns(p) == ClientRuns(p, Attached(p), running) /\ UNCHANGED serverVars
UserBreaks(p) == ClientBreaks(p) /\ UNCHANGED serverVars

Runs == ServerRuns \/ \E p \in Peers : WorkerRuns(p) \/ Arrives(p) \/ UserRuns(p)

TogetherNext == Runs \/ \E p \in Peers : UserBreaks(p)

Together == TogetherInit /\ [][TogetherNext]_allVars

(* As long as a thread or a client can run, or something sent can arrive,  *)
(* one of them does: no thread waits while it polls, so none is favoured.  *)
FairTogether == Together /\ WF_allVars(Runs)

-----------------------------------------------------------------------------
(* The types of both ends and of what lies between them.                   *)
TogetherTypeOK == TypeOK /\ ClientTypeOK

Promise == INSTANCE FileService WITH
    Clients <- Peers, Storable <- SafeNames, Blocks <- Byte, Shows <- ListCap,
    remote <- files, op <- Commands

(* A command that the client reports as done has had its effect, and files *)
(* change only by commands: every behaviour of the clients and the server, *)
(* with clients that are killed in the middle and calls that fail, is one  *)
(* of the abstract file service (handle_*_client against client_handler).  *)
ImplementsFileService == Promise!Spec

(* What a client reports as done is done: after "GET ok" its file is the    *)
(* server's (client.c:152), after "PUT ok" the server's is its own.        *)
OkMeansDone == \A p \in Peers : cli[p].op.phase = "ok" => Promise!Done(p)

(* A command ends, whatever happens to the server or to other clients: no  *)
(* client waits for a reply that does not come (recv_header, recv_all).    *)
CommandsEnd == \A p \in Peers : <>ClientAt(p, "closed")

(* Between two commands client and server are in step: nothing of a        *)
(* refused or failed request is left on its way, for the next one to meet  *)
(* (drop in handle_get_client, drain_payload and the loop of handle_put).  *)
InStep == \A p \in Peers : AtEase(p) /\ Attached(p) => Level(p)

(* Nothing but a refused upload costs a client its connection              *)
(* (client_handler's breaks).                                              *)
StaysConnected ==
    \A p \in Peers : AtEase(p) /\ running => Attached(p) \/ UploadRefused(p)

(* A client that has ended, or was killed, holds no worker (close).        *)
ClosedIsFreed ==
    \A p \in Peers : ClientAt(p, "closed") ~> ~Attached(p)

-----------------------------------------------------------------------------
(* Scripts without the uploads that put both ends out of step: who types   *)
(* "put" has no such file, or the server takes its name.                   *)
SafeUpload(line, dir) ==
    line.cmd = "PUT" => line.name \in SafeNames \/ dir[line.name].kind # "reg"
SafeLines(lines, dir) == \A i \in 1 .. Len(lines) : SafeUpload(lines[i], dir)
SafeUploads(peers, scripts, dirs) ==
    \A p \in peers : \A s \in scripts[p] : \A d \in dirs[p] : SafeLines(s, d)
=============================================================================
