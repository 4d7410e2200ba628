-------------------------- MODULE MCClientSession --------------------------
(* ClientSession with the scripts and directories of MCScripts.            *)
EXTENDS ClientSession, MCScripts

(* ClientSession_proofs is about scripts like those of client_session: no  *)
(* file is uploaded under a name that the server refuses.                  *)
ASSUME BusyUploadsAssumption ==
    SafeUploads(DOMAIN BusyScripts, BusyScripts, BusyDirectories)
=============================================================================
