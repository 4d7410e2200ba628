------------------------------ MODULE MCScripts ------------------------------
(***************************************************************************)
(* What the users type, and the directories the clients run in.            *)
(***************************************************************************)
EXTENDS Client, MCStreams

NoStreams == [p \in {p1, p2} |-> {<<>>}]

Type(cmd, name) == <<Line(cmd, name)>>
ListLine == Type("LIST", "")
QuitLine == Type("QUIT", "")

(* An upload between other requests, next to one command of a client that  *)
(* may be killed.  n1 may be a directory on the server, n2 on the client.  *)
BusyScripts ==
    p1 :> {ListLine \o Type("GET", up) \o Type("PUT", n1) \o QuitLine,
           Type("OTHER", "") \o Type("PUT", up) \o Type("GET", n2) \o ListLine,
           Type("PUT", n1) \o Type("GET", n1) \o ListLine}
 @@ p2 :> {Type("GET", n2), Type("PUT", n3)}

ClientDirectory(df, dg, dh) ==
    [n \in Names |->
        CASE n = n1 -> df [] n = n2 -> dg [] n = n3 -> dh [] n = up -> None]

BusyDirectories ==
    p1 :> {ClientDirectory(Reg(<<d1, d2>>), g, None) : g \in {None, Dir}}
 @@ p2 :> {ClientDirectory(None, None, Reg(<<d2, d1>>))}

ServedDirectories == {Directory(f, Reg(<<d1, d2>>), None) : f \in {None, Dir}}

(* Requests next to a download whose client may be killed.                  *)
ShortScripts ==
    p1 :> {ListLine \o Type("PUT", n1) \o QuitLine,
           Type("GET", n2) \o Type("GET", up) \o ListLine,
           Type("PUT", n1) \o Type("GET", n1)}
 @@ p2 :> {Type("GET", n2)}

ShortDirectories ==
    p1 :> {ClientDirectory(Reg(<<d1, d2>>), None, None)}
 @@ p2 :> {ClientDirectory(None, None, Reg(<<d2, d1>>))}

(* An upload under a name the server refuses, then two downloads.          *)
UnsafePut == p1 :> {Type("PUT", up) \o Type("GET", n2) \o Type("GET", n1)}
UnsafeDirectories == p1 :> {[ClientDirectory(None, None, None) EXCEPT ![up] = Reg(<<d1>>)]}
=============================================================================
