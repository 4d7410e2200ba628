---------------------------- MODULE FileService ----------------------------
(***************************************************************************)
(* What the two programs together promise to the person who types the      *)
(* commands: no connection, message or thread is visible here, only the    *)
(* files of the server, those of each client, and the command each client  *)
(* is at.  A command that is reported as done has had its effect, and      *)
(* nothing but a command changes a file.                                   *)
(*                                                                         *)
(* A name that one client uploads is used by that client alone.            *)
(***************************************************************************)
EXTENDS Naturals, Sequences, FiniteSets

CONSTANTS
    Clients,
    Names,     \* the names a command may have
    Storable,  \* those of them the server has files under
    Blocks,    \* pieces of a file
    Shows      \* a listing may stop after this many names

Files == [kind : {"none", "dir", "reg"}, data : Seq(Blocks)]
Phases == {"idle", "running", "ok", "failed"}

VARIABLES
    remote,    \* the server's files
    local,     \* each client's files
    op         \* each client's last command: its name, what existed when it
               \* was given, what was listed, and how it ended

vars == <<remote, local, op>>

NoOp == [cmd |-> "OTHER", name |-> "", had |-> {}, shown |-> <<>>, phase |-> "idle"]

Present == {n \in Storable : remote[n].kind # "none"}
Prefixes(data) == {SubSeq(data, 1, i) : i \in 0 .. Len(data)}
Shown(p) == {op[p].shown[i] : i \in DOMAIN op[p].shown}

(* What it means that the command of p has had its effect.                 *)
Done(p) ==
    LET n == op[p].name IN
    /\ op[p].cmd = "GET" =>
           n \in Storable /\ remote[n].kind = "reg" /\ local[p][n] = remote[n]
    /\ op[p].cmd = "PUT" =>
           n \in Storable /\ local[p][n].kind = "reg" /\ remote[n] = local[p][n]
    /\ op[p].cmd = "LIST" =>
           op[p].had \subseteq Shown(p) \/ Len(op[p].shown) >= Shows

Init ==
    /\ \A n \in Storable : remote[n] \in Files
    /\ \A p \in Clients : \A n \in Names : local[p][n] \in Files
    /\ op = [p \in Clients |-> NoOp]

(* A command is given; it may be refused on the spot.                      *)
Start(p) ==
    /\ op[p].phase # "running"
    /\ \E cmd \in {"LIST", "GET", "PUT", "QUIT"}, n \in Names \cup {""},
          phase \in {"running", "failed"} :
          op' = [op EXCEPT ![p] = [cmd |-> cmd, name |-> n, had |-> Present,
                                   shown |-> <<>>, phase |-> phase]]
    /\ UNCHANGED <<remote, local>>

Show(p) ==
    /\ op[p].cmd = "LIST" /\ op[p].phase = "running"
    /\ \E n \in Present \ Shown(p) : op' = [op EXCEPT ![p].shown = Append(@, n)]
    /\ UNCHANGED <<remote, local>>

Download(p) ==
    /\ op[p].cmd = "GET" /\ op[p].phase = "running"
    /\ op[p].name \in Present
    /\ \E d \in Prefixes(remote[op[p].name].data) :
          local' = [local EXCEPT ![p][op[p].name] = [kind |-> "reg", data |-> d]]
    /\ UNCHANGED <<remote, op>>

(* A PUT whose client gave up, or was killed, may still have effects.      *)
Upload(p) ==
    /\ op[p].cmd = "PUT" /\ op[p].phase \in {"running", "failed"}
    /\ op[p].name \in Storable
    /\ \E d \in Prefixes(local[p][op[p].name].data) :
          remote' = [remote EXCEPT ![op[p].name] = [kind |-> "reg", data |-> d]]
    /\ UNCHANGED <<local, op>>

Return(p) ==
    /\ op[p].phase = "running"
    /\ \E phase \in {"ok", "failed"} :
          /\ phase = "ok" => Done(p)
          /\ op' = [op EXCEPT ![p].phase = phase]
    /\ UNCHANGED <<remote, local>>

Next ==
    \E p \in Clients :
        Start(p) \/ Show(p) \/ Download(p) \/ Upload(p) \/ Return(p)

Spec == Init /\ [][Next]_vars
=============================================================================
