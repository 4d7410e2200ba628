-------------------------- MODULE MCSessionServer --------------------------
(* SessionServer with the streams and directories of MCStreams.            *)
EXTENDS SessionServer, MCStreams

(* The message after the one at m[1], if there is one.                     *)
FollowsIn(units, m) ==
    LET head == units[m[1]].head
        whole == /\ HeaderAt(units, m[1])
                 /\ IF m[2] = NULL THEN head \notin Refused ELSE head.cmd = "PUT"
                 /\ WholeAt(units, m[1])
        named == IF m[2] = NULL /\ head.cmd = "PUT" THEN LastByte(units, m[1]) ELSE NULL
    IN  IF whole THEN {<<After(units, m[1]), named>>} ELSE {}

MarksIn(units) ==
    LET reached[k \in 0 .. Len(units)] ==
            IF k = 0 THEN {<<1, NULL>>}
            ELSE reached[k - 1] \cup UNION {FollowsIn(units, m) : m \in reached[k - 1]}
    IN  reached[Len(units)]

(* The streams that RepliesInOrder, PutStored, GetIntact and               *)
(* FilesUnspoiled are checked with consist of whole requests.              *)
ASSUME BusyPeersAssumption ==
    \A p \in DOMAIN BusyPeers : \A s \in BusyPeers[p] : Marks(s, MarksIn(s))
=============================================================================
