--------------------------- MODULE MCClientEpoll ---------------------------
(* ClientEpoll with the scripts and directories of MCScripts.              *)
EXTENDS ClientEpoll, MCScripts
=============================================================================
