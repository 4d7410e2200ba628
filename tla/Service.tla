------------------------------ MODULE Service ------------------------------
(***************************************************************************)
(* What a client can rely on, in terms of the bytes it means to send and   *)
(* the replies it is sent.  Shared by the models of both servers.          *)
(***************************************************************************)
EXTENDS Wire

Ask(cmd, name, bytes) == <<[cmd |-> cmd, name |-> name, bytes |-> bytes]>>

(* The message that begins at unit i.                                      *)
HeaderAt(units, i) ==
    i + HdrLen <= Len(units) + 1 /\ IsHeader(SubSeq(units, i, i + HdrLen - 1))
After(units, i) == i + HdrLen + units[i].head.length
WholeAt(units, i) == After(units, i) <= Len(units) + 1
Payload(units, i) == SubSeq(units, i + HdrLen, After(units, i) - 1)
LastByte(units, i) == IF Payload(units, i) = <<>> THEN NULL ELSE NameOf(Payload(units, i))

(* What the units from i on ask for, when the first message of a PUT has   *)
(* named the file `pending`, or NULL.  later[j][name] is what those from j *)
(* on ask for.  On a header of `refused` alone a server ends the           *)
(* connection; on a header and the last byte of its payload in `ended`,    *)
(* once it has the payload.                                                *)
RequestsFrom(units, i, pending, later, refused, ended) ==
    LET head == units[i].head
        byte == LastByte(units, i)
        next == After(units, i)
    IN  IF ~HeaderAt(units, i) THEN <<>>
        ELSE IF pending # NULL THEN
            IF head.cmd # "PUT" THEN Ask("PUT", NULL, <<>>)
            ELSE IF ~WholeAt(units, i) THEN <<>>
            ELSE Ask("PUT", pending, Bytes(Payload(units, i))) \o later[next][NULL]
        ELSE IF head \in refused THEN Ask(head.cmd, NULL, <<>>)
        ELSE IF ~WholeAt(units, i) THEN <<>>
        ELSE IF <<head, byte>> \in ended THEN Ask(head.cmd, NULL, <<>>)
        ELSE IF head.cmd = "PUT" THEN later[next][byte]
        ELSE Ask(head.cmd, byte, <<>>) \o later[next][NULL]

(* What a stream asks for, decoded from its first unit to its last without *)
(* regard to when the units arrive: the requests that get a reply, in      *)
(* order.                                                                  *)
RequestsOf(units, refused, ended) ==
    LET decode[i \in 1 .. Len(units) + 1] ==
            [pending \in Byte |->
                RequestsFrom(units, i, pending, decode, refused, ended)]
    IN  decode[1][NULL]

-----------------------------------------------------------------------------
(* Below, asked[p] is what the stream of p asks for.                       *)

Complete(r) == Len(r.body) = r.length

(* Replies are sent whole, as long as their headers say, one after the     *)
(* other; a peer in `between` is owed nothing of a reply begun.            *)
Framed(between) ==
    \A p \in Peers : \A i \in DOMAIN rx[p] :
        /\ Len(rx[p][i].body) <= rx[p][i].length
        /\ i < Len(rx[p]) \/ p \in between => Complete(rx[p][i])

(* Replies answer what was asked one by one and in order.                  *)
InOrder(asked) ==
    \A p \in Peers :
        /\ Len(rx[p]) <= Len(asked[p])
        /\ \A i \in DOMAIN rx[p] : rx[p][i].cmd = asked[p][i].cmd

Uploads(asked, name) ==
    UNION {{<<p, i>> : i \in {j \in DOMAIN asked[p] :
                asked[p][j].cmd = "PUT" /\ asked[p][j].name = name}} : p \in Peers}

(* A PUT acknowledged with status 0 is stored whole, as long as no other   *)
(* request writes its name.                                                *)
UploadsStored(asked) ==
    \A p \in Peers : \A i \in DOMAIN rx[p] :
        LET r == asked[p][i] IN
        /\ r.cmd = "PUT" /\ rx[p][i].status = 0
        /\ Uploads(asked, r.name) = {<<p, i>>}
        => files[r.name] = [kind |-> "reg", data |-> r.bytes]

(* A complete GET reply carries the file, as long as no request writes its *)
(* name.                                                                   *)
DownloadsIntact(asked) ==
    \A p \in Peers : \A i \in DOMAIN rx[p] :
        LET r == asked[p][i] IN
        /\ r.cmd = "GET" /\ rx[p][i].status = 0 /\ Complete(rx[p][i])
        /\ Uploads(asked, r.name) = {}
        => rx[p][i].body = files[r.name].data

(* Each block of a file is where an upload of its name, or the file there  *)
(* was at first, has it; or it is a hole, where another upload's O_TRUNC   *)
(* came between two writes.                                                *)
BlocksInPlace(asked) ==
    \A name \in SafeNames : \A i \in DOMAIN files[name].data :
        LET block == files[name].data[i]
            Has(data) == i \in DOMAIN data /\ data[i] = block
        IN  \/ block = NULL
            \/ \E d \in Directories : Has(d[name].data)
            \/ \E u \in Uploads(asked, name) : Has(asked[u[1]][u[2]].bytes)

(* A peer has the whole answer to everything it asks.                      *)
AllAnswered(asked, p) ==
    /\ Len(rx[p]) = Len(asked[p])
    /\ \A i \in DOMAIN rx[p] : Complete(rx[p][i])
=============================================================================
