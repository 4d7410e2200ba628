----------------------------- MODULE ClientEpoll -----------------------------
(***************************************************************************)
(* The clients and the server of v2_epoll together.                        *)
(***************************************************************************)
EXTENDS EpollServer, Client

allVars == <<vars, cliVars>>

TogetherInit == Init /\ ClientInit

ServerRuns == Server /\ UNCHANGED cliVars
Arrives(p) == PeerSends(p) /\ UNCHANGED cliVars
UserRuns(p) == ClientRuns(p, Attached(p), running) /\ UNCHANGED serverVars
UserBreaks(p) == ClientBreaks(p) /\ UNCHANGED serverVars

TogetherNext ==
    ServerRuns \/ \E p \in Peers : Arrives(p) \/ UserRuns(p) \/ UserBreaks(p)

Together == TogetherInit /\ [][TogetherNext]_allVars

(* The server's thread may spin on a listening socket that it cannot       *)
(* accept from, so each client, and what it sent, moves by itself.         *)
FairTogether ==
    /\ Together
    /\ WF_allVars(ServerRuns)
    /\ \A p \in Peers : WF_allVars(Arrives(p) \/ UserRuns(p))

-----------------------------------------------------------------------------
Promise == INSTANCE FileService WITH
    Clients <- Peers, Storable <- SafeNames, Blocks <- Byte,
    Shows <- Cardinality(SafeNames), remote <- files, op <- Commands

(* A command that the client reports as done has had its effect, and files *)
(* change only by commands: every behaviour of the clients and the server, *)
(* with clients that are killed, calls that fail and a server that stops,  *)
(* is one of the abstract file service (handle_*_client against the        *)
(* handlers of server.c).                                                  *)
ImplementsFileService == Promise!Spec

(* A command ends even when the server is out of descriptors and a client  *)
(* waits to be accepted, or when the server stops (run_server's accept     *)
(* loop, recv_header).                                                     *)
CommandsEnd == \A p \in Peers : <>ClientAt(p, "closed")

(* Between two commands client and server are in step, unless an upload    *)
(* was refused (drop in handle_get_client, handle_read_header).            *)
InStep ==
    \A p \in Peers : AtEase(p) /\ Attached(p) /\ ~UploadRefused(p) => Level(p)
=============================================================================
