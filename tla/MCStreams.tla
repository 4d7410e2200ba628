----------------------------- MODULE MCStreams -----------------------------
(***************************************************************************)
(* The byte streams and directories the servers are checked with.          *)
(***************************************************************************)
EXTENDS Wire, TLC

CONSTANTS p1, p2, p3, n1, n2, n3, up, d1, d2

Hdr(cmd, len) == HeaderUnits(TRUE, cmd, len)

ListReq == Hdr("LIST", 0)
GetReq(name) == Hdr("GET", 1) \o ByteUnits(<<name>>)
LongGetReq(name) == Hdr("GET", 2) \o ByteUnits(<<NULL, name>>)
PutName1(name) == Hdr("PUT", 1) \o ByteUnits(<<name>>)
PutReq(name, bytes) == PutName1(name) \o Hdr("PUT", Len(bytes)) \o ByteUnits(bytes)
QuitReq == Hdr("QUIT", 0)

None == [kind |-> "none", data |-> <<>>]
Dir == [kind |-> "dir", data |-> <<>>]
Reg(bytes) == [kind |-> "reg", data |-> bytes]

Directory(df, dg, dh) ==
    [n \in SafeNames |-> CASE n = n1 -> df [] n = n2 -> dg [] n = n3 -> dh]

(* Two connections that upload, download and list at the same time.        *)
TwoPeers == p1 :> {PutReq(n1, <<d1, d2>>) \o GetReq(n2)}
         @@ p2 :> {GetReq(n2) \o ListReq, PutReq(n3, <<d2>>) \o QuitReq,
                PutReq(n1, <<d1>>) \o QuitReq}
PlainDir == {Directory(None, Reg(<<d1, d2>>), None)}

(* One connection: every request, well and badly formed, then another one. *)
Requests1 ==
    {ListReq, GetReq(n1), GetReq(n2), LongGetReq(n2), GetReq(n3), GetReq(up),
     PutReq(n1, <<d1, d2>>), PutReq(n1, <<>>), PutReq(n3, <<d1>>),
     Hdr("OTHER", 1) \o ByteUnits(<<NULL>>), Hdr("OTHER", 0)}
LastRequests ==
    {QuitReq, ListReq, GetReq(n2), PutName1(up), Hdr("PUT", 0), Hdr("GET", 0),
     Hdr("LIST", 1) \o ByteUnits(<<NULL>>), Hdr("GET", 3), Hdr("OTHER", 4),
     HeaderUnits(FALSE, "LIST", 0), PutName1(n1) \o ListReq}
OnePeer == p1 :> {a \o b : a \in Requests1, b \in LastRequests}
MixedDir == {Directory(Reg(<<d2>>), Reg(<<d1, d2>>), Dir)}

(* Requests that are each answered whatever the other connection does.     *)
IndependentPeers == p1 :> {PutReq(n1, <<d1, d2>>) \o GetReq(n2)}
                 @@ p2 :> {LongGetReq(n2) \o ListReq}

(* An empty file is downloaded twice over one connection.                  *)
EmptyTwice == p1 :> {GetReq(n1) \o GetReq(n1)}
EmptyDir == {Directory(Reg(<<>>), None, None)}

(* An upload under the name of a directory, then a listing.                *)
PutOnDirectory == p1 :> {PutReq(n3, <<d1>>) \o ListReq}

(* A file is replaced by a shorter one while it is downloaded.             *)
Shortened == p1 :> {GetReq(n2)} @@ p2 :> {PutReq(n2, <<d1>>)}

-----------------------------------------------------------------------------
(* For SessionServer, which closes no connection for a refused name and    *)
(* drains what EpollServer refuses.                                        *)
Requests2 ==
    {Hdr("LIST", 1) \o ByteUnits(<<NULL>>), GetReq(n2), GetReq(up),
     PutReq(n1, <<d1, d2>>), PutReq(n1, <<>>), Hdr("OTHER", 3) \o GetReq(n2)}
LastRequests2 ==
    {Hdr("PUT", 0), Hdr("GET", 3), PutReq(n3, <<d1>>),
     Hdr("QUIT", 1) \o ByteUnits(<<NULL>>), HeaderUnits(FALSE, "LIST", 0),
     PutName1(n1) \o ListReq}
BusyPeers == p1 :> {a \o b : a \in Requests2, b \in LastRequests2}
          @@ p2 :> {PutReq(n1, <<d1>>), GetReq(n2)}
BusyDir == {Directory(Reg(<<d1>>), Reg(<<d1, d2>>), Dir)}

(* One is dropped for a bad header, one quits, and one holds its worker    *)
(* until it leaves: inside a name, or while it is owed a download.         *)
QuittingPeers == p1 :> {PutReq(n1, <<d1>>) \o HeaderUnits(FALSE, "LIST", 0)}
              @@ p2 :> {GetReq(n2) \o QuitReq}
              @@ p3 :> {Hdr("GET", 1), GetReq(n2)}
=============================================================================
