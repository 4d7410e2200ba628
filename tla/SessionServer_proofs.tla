------------------------ MODULE SessionServer_proofs ------------------------
(***************************************************************************)
(* The safety properties of SessionServer for every number of peers and    *)
(* workers, every directory and every way of cutting up the streams.       *)
(***************************************************************************)
EXTENDS SessionServer, Service_proofs

(* What the locals of client_handler hold at each of its calls.            *)
LocalsFit(s) ==
    /\ s.at = "drain" => s.cmd \in {"LIST", "QUIT", "OTHER"}
    /\ s.at = "name" => s.cmd \in {"GET", "PUT"} /\ s.left > 0
    /\ s.at \in {"put_header", "put_data", "put_drain", "get_read", "get_send"} =>
           s.name \in SafeNames
    /\ s.at = "get_send" => Len(s.buf) = 1
    /\ s.at # "get_send" => s.buf = <<>>
    /\ s.at = "reply" =>
           /\ Len(s.out) = 1 /\ s.out_sent <= Len(s.out[1].body)
           /\ s.next \in {"header", "close", "get_read"}
           /\ s.next # "get_read" => Complete(s.out[1])
           /\ s.next = "get_read" =>
                  /\ s.name \in SafeNames /\ s.off = 0
                  /\ s.out[1].cmd = "GET" /\ s.out[1].body = <<>>
           /\ s.out[1].cmd = "GET" /\ s.out[1].status = 0 => s.next = "get_read"
           /\ s.out[1].cmd \in {"GET", "OTHER"} => s.out[1].body = <<>>

(* A connection waits in the backlog, then in the pool's queue, then it is *)
(* served; nobody is in two places or twice in one.  Before it is served   *)
(* nothing was read from it or sent to it.                                 *)
Placed ==
    /\ Distinct(backlog) /\ Distinct(queue)
    /\ \A p \in Elems(backlog) : p \notin Elems(queue)
    /\ \A p \in Peers :
           /\ p \in Elems(backlog) \cup Elems(queue) =>
                  /\ sock[p] # "idle" /\ p \notin serving
                  /\ rx[p] = <<>> /\ rcvd[p] = 0
           /\ sock[p] = "idle" => p \notin serving /\ rx[p] = <<>> /\ rcvd[p] = 0
           /\ p \notin serving => ses[p] = NoSession

TypeInv ==
    /\ TypeOK
    /\ \A p \in Peers : LocalsFit(ses[p])
    /\ Placed

-----------------------------------------------------------------------------
(* The locals.                                                             *)

(* A reply to be sent.                                                     *)
Replying(s, cmd, status, len, body, next) ==
    /\ s \in Session /\ s.at = "reply" /\ s.next = next /\ s.out_sent = 0
    /\ Len(s.out) = 1
    /\ s.out[1] = [cmd |-> cmd, status |-> status, length |-> len, body |-> body]

LEMMA ReplyingType ==
    ASSUME NEW s \in Session, NEW next \in Places, NEW out \in Seq(Reply), NEW t,
           t = [s EXCEPT !.at = "reply", !.next = next, !.out_sent = 0, !.out = out]
    PROVE  t \in Session
<1>1. "reply" \in Places
  BY DEF Places
<1>. QED
  BY <1>1 DEF Session

LEMMA Reply1Type ==
    ASSUME NEW s \in Session, NEW cmd \in Cmds, NEW status \in {0, 1},
           NEW len \in Nat, NEW body \in Seq(Byte), NEW next \in Places,
           NEW t, t = Reply1(s, cmd, status, len, body, next)
    PROVE  /\ Replying(t, cmd, status, len, body, next)
           /\ t.name = s.name /\ t.off = s.off /\ t.buf = s.buf
<1> DEFINE r == [cmd |-> cmd, status |-> status, length |-> len, body |-> body]
           out == <<r>>
<1>1. r \in Reply
  BY DEF Reply
<1>2. t = [s EXCEPT !.at = "reply", !.next = next, !.out_sent = 0, !.out = out]
  BY DEF Reply1
<1> HIDE DEF r
<1>3. out \in Seq(Reply) /\ Len(out) = 1 /\ out[1] = r
  BY <1>1
<1> HIDE DEF out
<1>4. t \in Session
  BY <1>2, <1>3, ReplyingType
<1>5. /\ t.at = "reply" /\ t.next = next /\ t.out_sent = 0 /\ t.out = out
      /\ t.name = s.name /\ t.off = s.off /\ t.buf = s.buf
  BY <1>2 DEF Session
<1>. QED
  BY <1>3, <1>4, <1>5 DEF Replying, r

LEMMA ReplyFits ==
    ASSUME NEW t, NEW cmd \in Cmds, NEW status \in {0, 1}, NEW body \in Seq(Byte),
           NEW next \in {"header", "close"},
           Replying(t, cmd, status, Len(body), body, next),
           t.buf = <<>>, cmd # "GET" \/ status = 1,
           cmd \in {"GET", "OTHER"} => body = <<>>
    PROVE  LocalsFit(t)
<1>1. /\ t.out[1].body = body /\ t.out[1].length = Len(body)
      /\ t.out[1].cmd = cmd /\ t.out[1].status = status
  BY DEF Replying
<1>2. Complete(t.out[1]) /\ Len(body) \in Nat
  BY <1>1, LenProperties DEF Complete
<1>. QED
  BY <1>1, <1>2 DEF Replying, LocalsFit

LEMMA FailFits ==
    ASSUME NEW s \in Session, s.buf = <<>>, NEW cmd \in Cmds,
           NEW next \in {"header", "close"}, NEW t, t = Fail(s, cmd, next)
    PROVE  /\ Replying(t, cmd, 1, 0, <<>>, next) /\ t \in Session /\ LocalsFit(t)
           /\ t.name = s.name
<1> DEFINE none == <<>>
           failed == 1
           nothing == 0
<1>1. /\ none \in Seq(Byte) /\ Len(none) = nothing
      /\ nothing \in Nat /\ failed \in {0, 1}
  OBVIOUS
<1>2. t = Reply1(s, cmd, failed, nothing, none, next)
  BY DEF Fail
<1> HIDE DEF none, failed, nothing
<1>3. next \in Places
  BY DEF Places
<1>4. Replying(t, cmd, failed, nothing, none, next) /\ t.buf = s.buf /\ t.name = s.name
  BY <1>1, <1>2, <1>3, Reply1Type
<1>5. LocalsFit(t)
  <2>1. none = <<>>
    BY DEF none
  <2>. QED
    BY <1>1, <1>4, <2>1, ReplyFits DEF failed
<1>. QED
  BY <1>4, <1>5 DEF Replying, none, failed, nothing

LEMMA SucceedFits ==
    ASSUME NEW s \in Session, s.buf = <<>>, NEW cmd \in Cmds \ {"GET", "OTHER"},
           NEW body \in Seq(Byte),
           NEW next \in {"header", "close"}, NEW t, t = Succeed(s, cmd, body, next)
    PROVE  /\ Replying(t, cmd, 0, Len(body), body, next) /\ t \in Session /\ LocalsFit(t)
           /\ t.name = s.name
<1>1. t = Reply1(s, cmd, 0, Len(body), body, next)
  BY DEF Succeed
<1>2. next \in Places /\ Len(body) \in Nat
  BY LenProperties DEF Places
<1>3. Replying(t, cmd, 0, Len(body), body, next) /\ t.buf = <<>> /\ t.name = s.name
  BY <1>1, <1>2, Reply1Type
<1>4. LocalsFit(t)
  BY <1>3, ReplyFits
<1>. QED
  BY <1>3, <1>4 DEF Replying

LEMMA StopFits ==
    ASSUME NEW s \in Session, s.buf = <<>>, NEW t, t = Stop(s)
    PROVE  t \in Session /\ LocalsFit(t) /\ t.at = "close"
<1>1. t \in Session /\ t.at = "close" /\ t.buf = <<>>
  BY DEF Stop, Session, Places
<1>. QED
  BY <1>1 DEF LocalsFit

LEMMA NoSessionFits == NoSession \in Session /\ LocalsFit(NoSession)
<1>1. <<>> \in Seq(Byte) /\ <<>> \in Seq(Reply)
  OBVIOUS
<1>2. NoSession \in Session
  BY <1>1 DEF NoSession, Session, Places, Cmds
<1>3. NoSession.at = "none" /\ NoSession.buf = <<>>
  BY DEF NoSession
<1>. QED
  BY <1>2, <1>3 DEF LocalsFit

-----------------------------------------------------------------------------
(* What a step of a worker may change.                                     *)

(* Of the connections and the directory.                                   *)
WireStep(p) ==
    /\ stream' = stream /\ sent' = sent /\ backlog' = backlog
    /\ sock' = sock \/ (sock[p] = "rst" /\ sock' = [sock EXCEPT ![p] = "pipe"])
    /\ rcvd' \in [Peers -> Nat] /\ rcvd[p] <= rcvd'[p] /\ rcvd'[p] <= sent[p]
    /\ rx' \in [Peers -> Seq(Reply)] /\ Len(rx[p]) <= Len(rx'[p])
    /\ \A q \in Peers \ {p} : rcvd'[q] = rcvd[q] /\ rx'[q] = rx[q]
    /\ unread' \in [Peers -> 0 .. SndBuf]

(* Of the sessions: the locals of its own one.                             *)
Serves(p) ==
    /\ WireStep(p)
    /\ files' \in [SafeNames -> File]
    /\ queue' = queue /\ serving' = serving /\ served' = served /\ running' = running
    /\ ses' \in [Peers -> Session]
    /\ \A q \in Peers \ {p} : ses'[q] = ses[q]
    /\ LocalsFit(ses'[p])

LEMMA WireFacts ==
    ASSUME TypeInv, NEW p \in Peers
    PROVE  /\ sock[p] \in {"idle", "open", "fin", "rst", "pipe"}
           /\ stream[p] \in Seq(Unit) /\ Len(stream[p]) \in Nat
           /\ sent[p] \in Nat /\ rcvd[p] \in Nat
           /\ rcvd[p] <= sent[p] /\ sent[p] <= Len(stream[p])
           /\ rx[p] \in Seq(Reply) /\ Len(rx[p]) \in Nat
           /\ unread[p] \in 0 .. SndBuf
           /\ files \in [SafeNames -> File]
           /\ ses[p] \in Session /\ LocalsFit(ses[p])
           /\ SndBuf \in Nat \ {0} /\ HdrLen \in Nat \ {0}
BY LenProperties, WireAssumption DEF TypeInv, TypeOK, WireTypeOK

LEMMA SameWire ==
    ASSUME TypeInv, NEW p \in Peers,
           UNCHANGED <<sock, stream, sent, rcvd, rx, unread, backlog>>
    PROVE  WireStep(p)
<1>1. /\ rcvd \in [Peers -> Nat] /\ rx \in [Peers -> Seq(Reply)]
      /\ unread \in [Peers -> 0 .. SndBuf]
  BY DEF TypeInv, TypeOK, WireTypeOK
<1>2. rcvd[p] \in Nat /\ rcvd[p] <= sent[p] /\ Len(rx[p]) \in Nat
  BY WireFacts
<1>. QED
  BY <1>1, <1>2 DEF WireStep

LEMMA RecvAllStep ==
    ASSUME TypeInv, NEW p \in Peers, NEW n \in Nat, RecvAll(p, n)
    PROVE  /\ WireStep(p) /\ rcvd'[p] = rcvd[p] + n /\ rx' = rx /\ sock' = sock
           /\ n <= sent[p] - rcvd[p]
<1>1. /\ rcvd \in [Peers -> Nat] /\ rx \in [Peers -> Seq(Reply)]
      /\ unread \in [Peers -> 0 .. SndBuf]
  BY DEF TypeInv, TypeOK, WireTypeOK
<1>2. /\ rcvd[p] \in Nat /\ sent[p] \in Nat /\ rcvd[p] <= sent[p]
      /\ Len(rx[p]) \in Nat
  BY WireFacts
<1>3. /\ rcvd' = [rcvd EXCEPT ![p] = rcvd[p] + n]
      /\ UNCHANGED <<sock, stream, sent, rx, unread, backlog>>
      /\ n <= sent[p] - rcvd[p]
  BY <1>2 DEF RecvAll, AllArrived, Avail
<1>4. /\ rcvd' \in [Peers -> Nat] /\ rcvd'[p] = rcvd[p] + n
      /\ \A q \in Peers \ {p} : rcvd'[q] = rcvd[q]
  BY <1>1, <1>2, <1>3
<1>. QED
  BY <1>1, <1>2, <1>3, <1>4 DEF WireStep

LEMMA ErrorReportedStep ==
    ASSUME TypeInv, NEW p \in Peers, ErrorReported(p)
    PROVE  sock' = sock \/ (sock[p] = "rst" /\ sock' = [sock EXCEPT ![p] = "pipe"])
<1>1. sock \in [Peers -> {"idle", "open", "fin", "rst", "pipe"}]
  BY DEF TypeInv, TypeOK, WireTypeOK
<1>2. CASE sock[p] = "rst"
  BY <1>2 DEF ErrorReported
<1>3. CASE sock[p] # "rst"
  <2>1. sock' = [sock EXCEPT ![p] = sock[p]]
    BY <1>1, <1>3 DEF ErrorReported
  <2>2. sock' = sock
    BY <1>1, <2>1
  <2>. QED
    BY <2>2
<1>. QED
  BY <1>2, <1>3

LEMMA RecvFailsStep ==
    ASSUME TypeInv, NEW p \in Peers, NEW n \in Nat, RecvFails(p, n)
    PROVE  /\ WireStep(p) /\ rcvd'[p] = sent[p] /\ rx' = rx
           /\ Ended(p)
<1>1. /\ rcvd \in [Peers -> Nat] /\ rx \in [Peers -> Seq(Reply)]
      /\ unread \in [Peers -> 0 .. SndBuf]
  BY DEF TypeInv, TypeOK, WireTypeOK
<1>2. /\ rcvd[p] \in Nat /\ sent[p] \in Nat /\ rcvd[p] <= sent[p]
      /\ Len(rx[p]) \in Nat
  BY WireFacts
<1>3. /\ rcvd' = [rcvd EXCEPT ![p] = sent[p]]
      /\ UNCHANGED <<stream, sent, rx, unread, backlog>>
      /\ Ended(p) /\ ErrorReported(p)
  BY DEF RecvFails, NoMoreComes
<1>4. /\ rcvd' \in [Peers -> Nat] /\ rcvd'[p] = sent[p]
      /\ \A q \in Peers \ {p} : rcvd'[q] = rcvd[q]
  BY <1>1, <1>2, <1>3
<1>5. sock' = sock \/ (sock[p] = "rst" /\ sock' = [sock EXCEPT ![p] = "pipe"])
  BY <1>3, ErrorReportedStep
<1>. QED
  BY <1>1, <1>2, <1>3, <1>4, <1>5 DEF WireStep

LEMMA SendFailsStep ==
    ASSUME TypeInv, NEW p \in Peers, SendFails(p)
    PROVE  /\ WireStep(p) /\ rcvd' = rcvd /\ rx' = rx /\ files' = files
           /\ sock[p] = "rst" /\ sock' = [sock EXCEPT ![p] = "pipe"]
<1>1. /\ rcvd \in [Peers -> Nat] /\ rx \in [Peers -> Seq(Reply)]
      /\ unread \in [Peers -> 0 .. SndBuf]
      /\ sock \in [Peers -> {"idle", "open", "fin", "rst", "pipe"}]
  BY DEF TypeInv, TypeOK, WireTypeOK
<1>2. rcvd[p] \in Nat /\ rcvd[p] <= sent[p] /\ Len(rx[p]) \in Nat
  BY WireFacts
<1>3. /\ sock[p] = "rst" /\ sock' = [sock EXCEPT ![p] = "pipe"]
      /\ UNCHANGED <<stream, sent, rcvd, rx, unread, backlog, files>>
  BY <1>1 DEF SendFails, ErrorReported
<1>. QED
  BY <1>1, <1>2, <1>3 DEF WireStep

(* A session that is somewhere in client_handler has a worker.             *)
LEMMA Served ==
    ASSUME TypeInv, NEW p \in Peers, ses[p].at # "none"
    PROVE  p \in serving
BY DEF TypeInv, Placed, NoSession

LEMMA GotoServes ==
    ASSUME TypeInv, NEW p \in Peers, NEW s \in Session, LocalsFit(s), Goto(p, s),
           WireStep(p), files' \in [SafeNames -> File]
    PROVE  Serves(p) /\ ses'[p] = s
<1>1. ses \in [Peers -> Session]
  BY DEF TypeInv, TypeOK
<1>2. /\ ses' = [ses EXCEPT ![p] = s]
      /\ UNCHANGED <<queue, serving, served, running>>
  BY DEF Goto
<1>. QED
  BY <1>1, <1>2 DEF Serves

LEMMA ServesInv ==
    ASSUME TypeInv, NEW p \in Peers, p \in serving, Serves(p)
    PROVE  TypeInv'
<1>1. /\ sock \in [Peers -> {"idle", "open", "fin", "rst", "pipe"}]
      /\ stream \in [Peers -> Seq(Unit)] /\ sent \in [Peers -> Nat]
      /\ \A q \in Peers : rcvd[q] <= sent[q] /\ sent[q] <= Len(stream[q])
      /\ backlog \in Seq(Peers) /\ queue \in Seq(Peers)
      /\ serving \in SUBSET Peers /\ served \in SUBSET Peers /\ running \in BOOLEAN
      /\ \A q \in Peers : LocalsFit(ses[q])
  BY DEF TypeInv, TypeOK, WireTypeOK
<1>2. /\ sock' \in [Peers -> {"idle", "open", "fin", "rst", "pipe"}]
      /\ \A q \in Peers : sock'[q] = "idle" <=> sock[q] = "idle"
  BY <1>1 DEF Serves, WireStep
<1>3. \A q \in Peers : rcvd'[q] <= sent'[q] /\ sent'[q] <= Len(stream'[q])
  BY <1>1 DEF Serves, WireStep
<1>4. TypeOK'
  BY <1>1, <1>2, <1>3 DEF Serves, WireStep, TypeOK, WireTypeOK
<1>5. \A q \in Peers : LocalsFit(ses'[q])
  BY <1>1 DEF Serves
<1>6. Placed'
  <2>1. /\ p \notin Elems(backlog) \cup Elems(queue) /\ sock[p] # "idle"
    BY DEF TypeInv, Placed
  <2>2. /\ backlog' = backlog /\ queue' = queue /\ serving' = serving
        /\ \A q \in Peers \ {p} : rx'[q] = rx[q] /\ rcvd'[q] = rcvd[q] /\ ses'[q] = ses[q]
    BY DEF Serves, WireStep
  <2>. QED
    BY <1>2, <2>1, <2>2 DEF TypeInv, Placed
<1>. QED
  BY <1>4, <1>5, <1>6 DEF TypeInv

-----------------------------------------------------------------------------
(* The calls of client_handler.                                            *)

LEMMA IncomingType ==
    ASSUME TypeInv, NEW p \in Peers, NEW n \in Nat, RecvAll(p, n)
    PROVE  /\ Incoming(p, n) \in Seq(Unit) /\ Len(Incoming(p, n)) = n
           /\ \A i \in 1 .. n : Incoming(p, n)[i] \in Unit
<1>1. n <= sent[p] - rcvd[p]
  BY RecvAllStep
<1>2. WireTypeOK
  BY DEF TypeInv, TypeOK
<1>3. Incoming(p, n) \in Seq(Unit) /\ Len(Incoming(p, n)) = n
  BY <1>1, <1>2, UnitsArrived DEF Incoming
<1>. QED
  BY <1>3, ElementOfSeq

LEMMA HeadArrived ==
    ASSUME TypeInv, NEW p \in Peers, RecvAll(p, HdrLen)
    PROVE  Incoming(p, HdrLen)[1].head \in Header
<1>1. HdrLen \in Nat /\ 1 \in 1 .. HdrLen
  BY WireAssumption
<1>2. Incoming(p, HdrLen)[1] \in Unit
  BY <1>1, IncomingType
<1>. QED
  BY <1>2 DEF Unit

LEMMA DispatchFits ==
    ASSUME NEW s \in Session, s.buf = <<>>, NEW h \in Header,
           NEW t, t = Dispatch(s, h)
    PROVE  t \in Session /\ LocalsFit(t)
<1>1. h.cmd \in Cmds /\ h.length \in Nat
  BY DEF Header
<1>2. CASE BadName(h)
  BY <1>1, <1>2, FailFits DEF Dispatch
<1>3. CASE ~BadName(h)
  <2> DEFINE place == IF h.cmd \in {"GET", "PUT"} THEN "name" ELSE "drain"
  <2>1. place \in Places
    BY DEF Places
  <2> HIDE DEF place
  <2>2. t = [s EXCEPT !.cmd = h.cmd, !.left = h.length, !.at = place]
    BY <1>3 DEF Dispatch, place
  <2>3. t \in Session
    BY <1>1, <2>1, <2>2 DEF Session
  <2>4. t.at = place /\ t.cmd = h.cmd /\ t.left = h.length /\ t.buf = <<>>
    BY <1>1, <2>1, <2>2 DEF Session
  <2>5. CASE h.cmd \in {"GET", "PUT"}
    <3>1. h.length > 0
      BY <1>1, <1>3, <2>5 DEF BadName
    <3>2. t.at = "name"
      BY <2>4, <2>5 DEF place
    <3>. QED
      BY <2>3, <2>4, <2>5, <3>1, <3>2 DEF LocalsFit
  <2>6. CASE h.cmd \notin {"GET", "PUT"}
    <3>1. t.at = "drain" /\ t.cmd \in {"LIST", "QUIT", "OTHER"}
      BY <1>1, <2>4, <2>6 DEF place, Cmds
    <3>. QED
      BY <2>3, <2>4, <3>1 DEF LocalsFit
  <2>. QED
    BY <2>5, <2>6
<1>. QED
  BY <1>2, <1>3

LEMMA RecvHeaderServes ==
    ASSUME TypeInv, NEW p \in Peers, RecvHeader(p)
    PROVE  Serves(p)
<1>1. /\ ses[p] \in Session /\ ses[p].buf = <<>>
      /\ files' \in [SafeNames -> File] /\ HdrLen \in Nat
  BY WireFacts DEF RecvHeader, At, LocalsFit
<1>2. CASE RecvFails(p, HdrLen) /\ Goto(p, Stop(ses[p]))
  BY <1>1, <1>2, RecvFailsStep, StopFits, GotoServes
<1>3. CASE /\ RecvAll(p, HdrLen)
           /\ Goto(p, IF IsHeader(Incoming(p, HdrLen))
                      THEN Dispatch(ses[p], Incoming(p, HdrLen)[1].head)
                      ELSE Stop(ses[p]))
  <2>1. WireStep(p)
    BY <1>1, <1>3, RecvAllStep
  <2>2. Incoming(p, HdrLen)[1].head \in Header
    BY <1>3, HeadArrived
  <2>3. CASE IsHeader(Incoming(p, HdrLen))
    BY <1>1, <1>3, <2>1, <2>2, <2>3, DispatchFits, GotoServes
  <2>4. CASE ~IsHeader(Incoming(p, HdrLen))
    BY <1>1, <1>3, <2>1, <2>4, StopFits, GotoServes
  <2>. QED
    BY <2>3, <2>4
<1>. QED
  BY <1>2, <1>3 DEF RecvHeader

LEMMA ListedType ==
    ASSUME NEW l \in Listings
    PROVE  Listed(l) \in Seq(Byte)
<1>1. l \in Seq(Byte) /\ Len(l) \in Nat
  BY ListingType, LenProperties
<1>2. MinOf(Len(l), ListCap) \in Nat /\ MinOf(Len(l), ListCap) <= Len(l)
  BY <1>1, PoolAssumption DEF MinOf
<1> DEFINE m == MinOf(Len(l), ListCap)
<1> HIDE DEF m
<1>3. \A i \in 1 .. m : l[i] \in Byte
  BY <1>1, <1>2, ElementOfSeq DEF m
<1>4. SubSeq(l, 1, m) \in Seq(Byte)
  BY <1>2, <1>3, SubSeqProperties DEF m
<1>. QED
  BY <1>4 DEF Listed, m

LEMMA DrainServes ==
    ASSUME TypeInv, NEW p \in Peers, Drain(p)
    PROVE  Serves(p)
<1> DEFINE s == ses[p]
<1>1. /\ s \in Session /\ s.buf = <<>> /\ s.left \in Nat
      /\ files' \in [SafeNames -> File]
  BY WireFacts DEF Drain, At, LocalsFit, Session
<1>2. WireStep(p)
  <2>1. RecvAll(p, s.left) \/ RecvFails(p, s.left)
    BY DEF Drain, DrainPayload
  <2> HIDE DEF s
  <2>. QED
    BY <1>1, <2>1, RecvAllStep, RecvFailsStep
<1>3. {"LIST", "QUIT"} \subseteq Cmds \ {"GET", "OTHER"} /\ {"LIST", "OTHER"} \subseteq Cmds
  BY DEF Cmds
<1>4. CASE \E l \in Listings : Goto(p, Succeed(s, "LIST", Listed(l), "header"))
  <2>1. PICK l \in Listings : Goto(p, Succeed(s, "LIST", Listed(l), "header"))
    BY <1>4
  <2>2. Listed(l) \in Seq(Byte)
    BY ListedType
  <2> HIDE DEF s
  <2>. QED
    BY <1>1, <1>2, <1>3, <2>1, <2>2, SucceedFits, GotoServes
<1>5. CASE Goto(p, Fail(s, "LIST", "close"))
  <2> HIDE DEF s
  <2>. QED
    BY <1>1, <1>2, <1>3, <1>5, FailFits, GotoServes
<1>6. CASE Goto(p, Succeed(s, "QUIT", <<>>, AfterQuit))
  <2> DEFINE none == <<>>
  <2>1. none \in Seq(Byte) /\ AfterQuit = "close"
    BY DEF AfterQuit
  <2> HIDE DEF s, none
  <2>2. Goto(p, Succeed(s, "QUIT", none, "close"))
    BY <1>6, <2>1 DEF none
  <2>. QED
    BY <1>1, <1>2, <1>3, <2>1, <2>2, SucceedFits, GotoServes
<1>7. CASE Goto(p, Fail(s, "OTHER", "header"))
  <2> HIDE DEF s
  <2>. QED
    BY <1>1, <1>2, <1>3, <1>7, FailFits, GotoServes
<1>. QED
  BY <1>4, <1>5, <1>6, <1>7 DEF Drain

LEMMA NamedType ==
    ASSUME NEW units \in Seq(Unit), Named(units)
    PROVE  NameOf(units) \in SafeNames /\ Len(units) \in 1 .. Len(units)
BY EmptySeq, LenProperties DEF Named

(* handle_get's first reply.                                               *)
LEMMA GetFits ==
    ASSUME TypeInv, NEW s \in Session, s.buf = <<>>, NEW units \in Seq(Unit),
           NEW t, t = Get(s, units)
    PROVE  /\ t \in Session /\ LocalsFit(t)
           /\ \/ /\ Named(units) /\ t.name = NameOf(units)
                 /\ Replying(t, "GET", 0, Len(files[t.name].data), <<>>, "get_read")
              \/ Replying(t, "GET", 1, 0, <<>>, "header")
<1>1. CASE Named(units) /\ GetOpens(NameOf(units))
  <2> DEFINE name == NameOf(units)
             u == [s EXCEPT !.name = name, !.off = 0]
             len == Len(files[name].data)
             none == <<>>
             done == 0
  <2>1. name \in SafeNames
    BY <1>1, NamedType
  <2>2. u \in Session
    BY <2>1 DEF Session
  <2>3. u.name = name /\ u.off = 0 /\ u.buf = <<>>
    BY DEF Session
  <2>4. len \in Nat
    BY <2>1, LenProperties DEF TypeInv, TypeOK, WireTypeOK, File
  <2>5. t = Reply1(u, "GET", done, len, none, "get_read")
    BY <1>1 DEF Get
  <2>6. /\ none \in Seq(Byte) /\ done \in {0, 1} /\ "GET" \in Cmds
        /\ "get_read" \in Places
    BY DEF Cmds, Places
  <2> HIDE DEF name, u, len, none, done
  <2>7. /\ Replying(t, "GET", done, len, none, "get_read")
        /\ t.name = u.name /\ t.off = u.off /\ t.buf = u.buf
    BY <2>2, <2>4, <2>5, <2>6, Reply1Type
  <2>8. t.name = name /\ t.off = 0 /\ t.buf = <<>> /\ t \in Session
    BY <2>3, <2>7 DEF Replying
  <2>9. Len(none) = 0
    BY DEF none
  <2>10. /\ t.at = "reply" /\ t.next = "get_read" /\ t.out_sent = 0 /\ Len(t.out) = 1
         /\ t.out[1].cmd = "GET" /\ t.out[1].body = none
    BY <2>7 DEF Replying
  <2>11. LocalsFit(t)
    BY <2>1, <2>8, <2>9, <2>10 DEF LocalsFit, none
  <2>. QED
    BY <1>1, <2>7, <2>8, <2>11 DEF name, len, none, done
<1>2. CASE ~(Named(units) /\ GetOpens(NameOf(units)))
  <2>1. t = Fail(s, "GET", "header")
    BY <1>2 DEF Get, AfterRefusal
  <2>2. "GET" \in Cmds
    BY DEF Cmds
  <2>. QED
    BY <2>1, <2>2, FailFits
<1>. QED
  BY <1>1, <1>2

LEMMA PutFits ==
    ASSUME NEW s \in Session, s.buf = <<>>, NEW units \in Seq(Unit),
           NEW t, t = Put(s, units)
    PROVE  /\ t \in Session /\ LocalsFit(t)
           /\ \/ Named(units) /\ t.at = "put_header" /\ t.name = NameOf(units)
              \/ ~Named(units) /\ Replying(t, "PUT", 1, 0, <<>>, "header")
<1>1. CASE Named(units)
  <2>1. NameOf(units) \in SafeNames /\ "put_header" \in Places
    BY <1>1, NamedType DEF Places
  <2>2. t = [s EXCEPT !.at = "put_header", !.name = NameOf(units)]
    BY <1>1 DEF Put
  <2>3. /\ t \in Session /\ t.at = "put_header" /\ t.name = NameOf(units)
        /\ t.buf = <<>>
    BY <2>1, <2>2 DEF Session
  <2>4. LocalsFit(t)
    BY <2>1, <2>3 DEF LocalsFit
  <2>. QED
    BY <1>1, <2>3, <2>4
<1>2. CASE ~Named(units)
  <2>1. t = Fail(s, "PUT", "header") /\ "PUT" \in Cmds
    BY <1>2 DEF Put, Cmds
  <2>. QED
    BY <1>2, <2>1, FailFits
<1>. QED
  BY <1>1, <1>2

LEMMA RecvNameServes ==
    ASSUME TypeInv, NEW p \in Peers, RecvName(p)
    PROVE  Serves(p)
<1> DEFINE s == ses[p]
           units == Incoming(p, s.left)
<1>1. /\ s \in Session /\ s.buf = <<>> /\ s.left \in Nat
      /\ s.cmd \in Cmds /\ "GET" \in Cmds
      /\ files' \in [SafeNames -> File]
  BY WireFacts DEF RecvName, At, LocalsFit, Session, Cmds
<1>2. CASE RecvFails(p, s.left) /\ Goto(p, Fail(s, s.cmd, "close"))
  <2> HIDE DEF s
  <2>. QED
    BY <1>1, <1>2, RecvFailsStep, FailFits, GotoServes
<1>3. CASE /\ Goto(p, Fail(s, s.cmd, "close"))
           /\ UNCHANGED <<sock, stream, sent, rcvd, rx, unread, backlog>>
  <2> HIDE DEF s
  <2>. QED
    BY <1>1, <1>3, SameWire, FailFits, GotoServes
<1>4. ASSUME RecvAll(p, s.left)
      PROVE  WireStep(p) /\ units \in Seq(Unit)
  <2> HIDE DEF s
  <2>. QED
    BY <1>1, <1>4, RecvAllStep, IncomingType
<1>5. CASE RecvAll(p, s.left) /\ Goto(p, Get(s, units))
  <2>1. WireStep(p) /\ units \in Seq(Unit)
    BY <1>4, <1>5
  <2> HIDE DEF s, units
  <2>. QED
    BY <1>1, <1>5, <2>1, GetFits, GotoServes
<1>6. CASE RecvAll(p, s.left) /\ Goto(p, Fail(s, "GET", "header"))
  <2>1. WireStep(p)
    BY <1>4, <1>6
  <2> HIDE DEF s, units
  <2>. QED
    BY <1>1, <1>6, <2>1, FailFits, GotoServes
<1>7. CASE RecvAll(p, s.left) /\ Goto(p, Put(s, units))
  <2>1. WireStep(p) /\ units \in Seq(Unit)
    BY <1>4, <1>7
  <2> HIDE DEF s, units
  <2>. QED
    BY <1>1, <1>7, <2>1, PutFits, GotoServes
<1>. QED
  BY <1>2, <1>3, <1>5, <1>6, <1>7 DEF RecvName

(* A block is read into the buffer.                                        *)
Holding(s, block) == [s EXCEPT !.at = "get_send", !.off = @ + 1, !.buf = <<block>>]

LEMMA BlockFits ==
    ASSUME NEW s \in Session, s.name \in SafeNames, NEW block \in Byte,
           NEW t, t = Holding(s, block)
    PROVE  /\ t \in Session /\ LocalsFit(t)
           /\ t.at = "get_send" /\ t.name = s.name /\ t.off = s.off + 1
           /\ t.buf = <<block>>
<1> DEFINE buf == <<block>>
<1>1. buf \in Seq(Byte) /\ Len(buf) = 1 /\ "get_send" \in Places
  BY DEF Places
<1>2. s.off \in Nat
  BY DEF Session
<1>3. t = [s EXCEPT !.at = "get_send", !.off = s.off + 1, !.buf = buf]
  BY DEF Session, Holding
<1> DEFINE off == s.off + 1
           u == [s EXCEPT !.off = off]
           v == [u EXCEPT !.buf = buf]
<1>4. off \in Nat
  BY <1>2
<1>5. t = [v EXCEPT !.at = "get_send"]
  BY <1>3 DEF Session
<1> HIDE DEF buf, off
<1>6. u \in Session /\ u.off = off /\ u.name = s.name
  BY <1>4 DEF Session
<1> HIDE DEF u
<1>7. v \in Session /\ v.off = off /\ v.name = s.name /\ v.buf = buf
  BY <1>1, <1>6 DEF Session
<1> HIDE DEF v
<1>8. /\ t \in Session /\ t.at = "get_send" /\ t.buf = buf /\ t.name = s.name
      /\ t.off = s.off + 1
  BY <1>1, <1>5, <1>7 DEF Session, off
<1>9. LocalsFit(t)
  BY <1>1, <1>8 DEF LocalsFit
<1>. QED
  BY <1>8, <1>9 DEF buf

LEMMA GetReadServes ==
    ASSUME TypeInv, NEW p \in Peers, GetRead(p)
    PROVE  Serves(p)
<1> DEFINE s == ses[p]
           data == files[s.name].data
<1>1. /\ s \in Session /\ s.buf = <<>> /\ s.name \in SafeNames /\ s.off \in Nat
      /\ files' \in [SafeNames -> File] /\ files \in [SafeNames -> File]
      /\ UNCHANGED <<sock, stream, sent, rcvd, rx, unread, backlog>>
  BY WireFacts DEF GetRead, At, LocalsFit, Session, wireVars
<1>2. WireStep(p)
  BY <1>1, SameWire
<1>3. CASE /\ s.off < Len(data)
           /\ Goto(p, [s EXCEPT !.at = "get_send", !.off = @ + 1,
                                !.buf = <<Block(data, s.off)>>])
  <2>1. data \in Seq(Byte) /\ Len(data) \in Nat
    BY <1>1, LenProperties DEF File
  <2>2. s.off + 1 \in 1 .. Len(data)
    BY <1>1, <1>3, <2>1
  <2>3. Block(data, s.off) \in Byte
    BY <2>1, <2>2, ElementOfSeq DEF Block
  <2>4. Goto(p, Holding(s, Block(data, s.off)))
    BY <1>3 DEF Holding
  <2> HIDE DEF s, data
  <2>. QED
    BY <1>1, <1>2, <2>3, <2>4, BlockFits, GotoServes
<1>4. CASE Goto(p, [s EXCEPT !.at = "header"])
  <2>1. [s EXCEPT !.at = "header"] \in Session /\ [s EXCEPT !.at = "header"].at = "header"
        /\ [s EXCEPT !.at = "header"].buf = <<>>
    BY <1>1 DEF Session, Places
  <2>2. LocalsFit([s EXCEPT !.at = "header"])
    BY <2>1 DEF LocalsFit
  <2> HIDE DEF s
  <2>. QED
    BY <1>1, <1>2, <1>4, <2>1, <2>2, GotoServes
<1>5. CASE Goto(p, Stop(s))
  <2> HIDE DEF s
  <2>. QED
    BY <1>1, <1>2, <1>5, StopFits, GotoServes
<1>. QED
  BY <1>3, <1>4, <1>5 DEF GetRead

(* The part of a file that was read goes to the peer.                      *)
LEMMA BlockSent ==
    ASSUME TypeInv, NEW p \in Peers, GetSend(p), ~SendFails(p)
    PROVE  /\ WireStep(p) /\ rx' = [rx EXCEPT ![p] = Longer(rx[p], ses[p].buf)]
           /\ rcvd' = rcvd /\ sock' = sock /\ files' = files
           /\ ~Broken(p)
           /\ Goto(p, [ses[p] EXCEPT !.at = "get_read", !.buf = <<>>])
<1> DEFINE log == rx[p]
           more == ses[p].buf
<1>1. /\ rcvd \in [Peers -> Nat] /\ rx \in [Peers -> Seq(Reply)]
      /\ unread \in [Peers -> 0 .. SndBuf]
  BY DEF TypeInv, TypeOK, WireTypeOK
<1>2. /\ rcvd[p] \in Nat /\ rcvd[p] <= sent[p] /\ log \in Seq(Reply)
      /\ Len(log) \in Nat /\ unread[p] \in 0 .. SndBuf /\ SndBuf \in Nat
      /\ ses[p] \in Session
  BY WireFacts
<1>3. /\ rx' = [rx EXCEPT ![p][Len(rx[p])].body = @ \o ses[p].buf]
      /\ unread' = [unread EXCEPT ![p] = @ + 1] /\ Space(p) > 0 /\ ~Broken(p)
      /\ Goto(p, [ses[p] EXCEPT !.at = "get_read", !.buf = <<>>])
      /\ UNCHANGED <<sock, stream, sent, rcvd, backlog, files>>
  BY DEF GetSend
<1>4. rx' = [rx EXCEPT ![p] = Longer(log, more)]
  BY <1>1, <1>3 DEF Longer
<1>5. more \in Seq(Byte)
  BY <1>2 DEF Session
<1>6. Longer(log, more) \in Seq(Reply) /\ Len(Longer(log, more)) = Len(log)
  BY <1>2, <1>5, LongerType
<1>7. unread[p] + 1 \in 0 .. SndBuf
  BY <1>2, <1>3 DEF Space
<1>8. unread' \in [Peers -> 0 .. SndBuf]
  BY <1>1, <1>3, <1>7
<1> HIDE DEF more
<1>9. /\ rx' \in [Peers -> Seq(Reply)] /\ Len(log) <= Len(rx'[p])
      /\ \A q \in Peers \ {p} : rx'[q] = rx[q]
  BY <1>1, <1>2, <1>4, <1>6
<1>10. WireStep(p)
  BY <1>1, <1>2, <1>3, <1>8, <1>9 DEF WireStep
<1>. QED
  BY <1>3, <1>4, <1>10 DEF more

LEMMA GetSendServes ==
    ASSUME TypeInv, NEW p \in Peers, GetSend(p)
    PROVE  Serves(p)
<1> DEFINE s == ses[p]
<1>1. /\ s \in Session /\ s.name \in SafeNames /\ <<>> \in Seq(Byte)
      /\ files \in [SafeNames -> File]
  BY WireFacts DEF GetSend, At, LocalsFit
<1>2. CASE SendFails(p)
  <2>1. Goto(p, [Stop(s) EXCEPT !.buf = <<>>])
    BY <1>2 DEF GetSend, SendFails, Broken
  <2> DEFINE t == [Stop(s) EXCEPT !.buf = <<>>]
  <2>2. t \in Session /\ t.at = "close" /\ t.buf = <<>>
    <3>1. Stop(s) \in Session /\ Stop(s).at = "close"
      BY <1>1 DEF Stop, Session, Places
    <3>. QED
      BY <1>1, <3>1 DEF Session
  <2>3. LocalsFit(t)
    BY <2>2 DEF LocalsFit
  <2>4. WireStep(p) /\ files' = files
    BY <1>2, SendFailsStep
  <2> HIDE DEF s, t
  <2>5. t \in Session /\ LocalsFit(t) /\ Goto(p, t) /\ files' \in [SafeNames -> File]
    BY <1>1, <2>1, <2>2, <2>3, <2>4 DEF t
  <2>. QED
    BY <2>4, <2>5, GotoServes
<1>3. CASE ~SendFails(p)
  <2> DEFINE t == [s EXCEPT !.at = "get_read", !.buf = <<>>]
  <2>1. Goto(p, t) /\ WireStep(p) /\ files' = files
    BY <1>3, BlockSent
  <2>2. t \in Session /\ t.at = "get_read" /\ t.buf = <<>> /\ t.name = s.name
    BY <1>1 DEF Session, Places
  <2>3. LocalsFit(t)
    BY <1>1, <2>2 DEF LocalsFit
  <2> HIDE DEF s, t
  <2>. QED
    BY <1>1, <2>1, <2>2, <2>3, GotoServes
<1>. QED
  BY <1>2, <1>3

(* A file is open for the data of a PUT, or could not be opened.           *)
Taking(s, place, len, off) == [s EXCEPT !.at = place, !.left = len, !.off = off]

LEMMA PutPlaceFits ==
    ASSUME NEW s \in Session, s.name \in SafeNames, s.buf = <<>>,
           NEW place, place = "put_data" \/ place = "put_drain",
           NEW len \in Nat, NEW off \in Nat,
           NEW t, t = Taking(s, place, len, off)
    PROVE  /\ t \in Session /\ LocalsFit(t)
           /\ t.at = place /\ t.left = len /\ t.off = off /\ t.name = s.name
<1>1. place \in Places
  BY DEF Places
<1>2. t \in Session
  BY <1>1 DEF Session, Taking
<1>3. t.at = place /\ t.left = len /\ t.off = off /\ t.name = s.name /\ t.buf = <<>>
  BY DEF Session, Taking
<1>4. LocalsFit(t)
  BY <1>3 DEF LocalsFit
<1>. QED
  BY <1>2, <1>3, <1>4

LEMMA RecvPutHeaderServes ==
    ASSUME TypeInv, NEW p \in Peers, RecvPutHeader(p)
    PROVE  Serves(p)
<1> DEFINE s == ses[p]
           h == Incoming(p, HdrLen)[1].head
<1>1. /\ s \in Session /\ s.buf = <<>> /\ s.name \in SafeNames /\ s.off \in Nat
      /\ files \in [SafeNames -> File] /\ HdrLen \in Nat /\ "PUT" \in Cmds
  BY WireFacts DEF RecvPutHeader, At, LocalsFit, Session, Cmds
<1>2. ASSUME RecvAll(p, HdrLen) PROVE WireStep(p) /\ h \in Header /\ h.length \in Nat
  BY <1>1, <1>2, RecvAllStep, HeadArrived DEF Header
<1>3. CASE Goto(p, Stop(s)) /\ UNCHANGED files /\ (RecvFails(p, HdrLen) \/ RecvAll(p, HdrLen))
  <2>1. WireStep(p)
    BY <1>1, <1>3, RecvAllStep, RecvFailsStep
  <2> HIDE DEF s
  <2>. QED
    BY <1>1, <1>3, <2>1, StopFits, GotoServes
<1>4. CASE RecvAll(p, HdrLen) /\ Goto(p, Fail(s, "PUT", "close")) /\ UNCHANGED files
  <2>1. WireStep(p)
    BY <1>2, <1>4
  <2> HIDE DEF s
  <2>. QED
    BY <1>1, <1>4, <2>1, FailFits, GotoServes
<1>5. CASE /\ RecvAll(p, HdrLen)
           /\ files' = [files EXCEPT ![s.name] = Truncated]
           /\ Goto(p, [s EXCEPT !.at = "put_data", !.left = h.length, !.off = 0])
  <2>1. WireStep(p) /\ h.length \in Nat
    BY <1>2, <1>5
  <2>2. Truncated \in File
    BY EmptySeq DEF Truncated, File
  <2>3. files' \in [SafeNames -> File]
    BY <1>1, <1>5, <2>2
  <2> DEFINE len == h.length
             off == 0
             place == "put_data"
             t == [s EXCEPT !.at = place, !.left = len, !.off = off]
  <2>4. len \in Nat /\ off \in Nat /\ Goto(p, t) /\ (place = "put_data" \/ place = "put_drain")
    BY <1>5, <2>1
  <2> HIDE DEF s, len, off, place
  <2>6. t = Taking(s, place, len, off)
    BY DEF Taking
  <2> HIDE DEF t
  <2>5. t \in Session /\ LocalsFit(t)
    BY <1>1, <2>4, <2>6, PutPlaceFits
  <2>. QED
    BY <2>1, <2>3, <2>4, <2>5, GotoServes
<1>6. CASE /\ RecvAll(p, HdrLen)
           /\ Goto(p, [s EXCEPT !.at = "put_drain", !.left = h.length])
           /\ UNCHANGED files
  <2>1. WireStep(p) /\ h.length \in Nat
    BY <1>2, <1>6
  <2> DEFINE len == h.length
             place == "put_drain"
             t == [s EXCEPT !.at = place, !.left = len, !.off = s.off]
  <2>2. [s EXCEPT !.at = "put_drain", !.left = len] = t
    BY <1>1 DEF Session
  <2>3. len \in Nat /\ Goto(p, t) /\ (place = "put_data" \/ place = "put_drain")
    <3> HIDE DEF t
    <3>. QED
      BY <1>6, <2>1, <2>2
  <2> HIDE DEF s, len, place
  <2>5. t = Taking(s, place, len, s.off)
    BY DEF Taking
  <2> HIDE DEF t
  <2>4. t \in Session /\ LocalsFit(t)
    BY <1>1, <2>3, <2>5, PutPlaceFits
  <2>. QED
    BY <1>1, <1>6, <2>1, <2>3, <2>4, GotoServes
<1>. QED
  BY <1>3, <1>4, <1>5, <1>6 DEF RecvPutHeader

LEMMA RecvPutDataServes ==
    ASSUME TypeInv, NEW p \in Peers, RecvPutData(p)
    PROVE  Serves(p)
<1> DEFINE s == ses[p]
           bytes == Bytes(Incoming(p, 1))
<1>1. /\ s \in Session /\ s.buf = <<>> /\ s.name \in SafeNames
      /\ s.off \in Nat /\ s.left \in Nat
      /\ files \in [SafeNames -> File] /\ "PUT" \in Cmds \ {"GET", "OTHER"}
  BY WireFacts DEF RecvPutData, At, LocalsFit, Session, Cmds
<1>2. CASE Goto(p, Succeed(s, "PUT", <<>>, "header")) /\ UNCHANGED wireVars
  <2> DEFINE none == <<>>
  <2>1. none \in Seq(Byte) /\ Goto(p, Succeed(s, "PUT", none, "header"))
    BY <1>2
  <2>2. WireStep(p) /\ files' = files
    BY <1>2, SameWire DEF wireVars
  <2> HIDE DEF s, none
  <2>. QED
    BY <1>1, <2>1, <2>2, SucceedFits, GotoServes
<1>3. CASE RecvFails(p, 1) /\ Goto(p, Stop(s)) /\ UNCHANGED files
  <2>1. WireStep(p)
    <3> DEFINE one == 1
    <3>1. one \in Nat /\ RecvFails(p, one)
      BY <1>3
    <3> HIDE DEF one
    <3>. QED
      BY <3>1, RecvFailsStep
  <2> HIDE DEF s
  <2>. QED
    BY <1>1, <1>3, <2>1, StopFits, GotoServes
<1>4. ASSUME RecvAll(p, 1) PROVE WireStep(p) /\ bytes \in Seq(Byte)
  <2> DEFINE one == 1
  <2>1. one \in Nat /\ RecvAll(p, one)
    BY <1>4
  <2> HIDE DEF one
  <2>2. WireStep(p) /\ Incoming(p, one) \in Seq(Unit)
    BY <2>1, RecvAllStep, IncomingType
  <2>3. Bytes(Incoming(p, one)) \in Seq(Byte)
    BY <2>2, BytesType
  <2>. QED
    BY <2>2, <2>3 DEF one
<1>5. CASE /\ s.left > 0 /\ RecvAll(p, 1)
           /\ files' = Stored(s.name, s.off, bytes) /\ Goto(p, BlockWritten(s))
  <2>1. WireStep(p) /\ bytes \in Seq(Byte)
    BY <1>4, <1>5
  <2>2. files' \in [SafeNames -> File]
    <3> HIDE DEF s, bytes
    <3>. QED
      BY <1>1, <1>5, <2>1, StoredType
  <2> DEFINE left == s.left - 1
             off == s.off + 1
             t == [s EXCEPT !.left = left, !.off = off]
  <2>3. left \in Nat /\ off \in Nat
    BY <1>1, <1>5
  <2>4. Goto(p, t)
    BY <1>1, <1>5 DEF BlockWritten, Session
  <2> HIDE DEF left, off
  <2>5. t \in Session /\ t.at = s.at /\ t.name = s.name /\ t.buf = <<>>
    BY <1>1, <2>3 DEF Session
  <2>6. t.at = "put_data"
    BY <2>5 DEF RecvPutData, At
  <2>7. LocalsFit(t)
    BY <1>1, <2>5, <2>6 DEF LocalsFit
  <2> HIDE DEF s, t
  <2>. QED
    BY <2>1, <2>2, <2>4, <2>5, <2>7, GotoServes
<1>6. CASE RecvAll(p, 1) /\ Goto(p, Fail(s, "PUT", "close")) /\ UNCHANGED files
  <2>1. WireStep(p)
    BY <1>4, <1>6
  <2> HIDE DEF s
  <2>. QED
    BY <1>1, <1>6, <2>1, FailFits, GotoServes
<1>. QED
  BY <1>2, <1>3, <1>5, <1>6 DEF RecvPutData

LEMMA DrainPutServes ==
    ASSUME TypeInv, NEW p \in Peers, DrainPut(p)
    PROVE  Serves(p)
<1> DEFINE s == ses[p]
<1>1. /\ s \in Session /\ s.buf = <<>> /\ s.left \in Nat /\ "PUT" \in Cmds
      /\ files' \in [SafeNames -> File]
  BY WireFacts DEF DrainPut, At, LocalsFit, Session, Cmds
<1>2. CASE RecvFails(p, s.left) /\ Goto(p, Stop(s))
  <2> HIDE DEF s
  <2>. QED
    BY <1>1, <1>2, RecvFailsStep, StopFits, GotoServes
<1>3. CASE RecvAll(p, s.left) /\ Goto(p, Fail(s, "PUT", "close"))
  <2> HIDE DEF s
  <2>. QED
    BY <1>1, <1>3, RecvAllStep, FailFits, GotoServes
<1>. QED
  BY <1>2, <1>3 DEF DrainPut

(* How far the next send gets into a reply.                                *)
Upto(p) == MinOf(ses[p].out_sent + Space(p), Len(ses[p].out[1].body) + 1)

(* What comes after a part of a reply, and after its end.                  *)
PartOf(s, n) == [s EXCEPT !.out_sent = n]
Moves(s) == [s EXCEPT !.at = s.next]
Empties(s) == [s EXCEPT !.at = s.next, !.out = <<>>, !.out_sent = 0]

LEMMA ReplyHeld ==
    ASSUME TypeInv, NEW p \in Peers, ses[p].at = "reply"
    PROVE  /\ ses[p].out[1] \in Reply
           /\ ses[p].out[1].body \in Seq(Byte) /\ Len(ses[p].out[1].body) \in Nat
           /\ ses[p].out_sent \in Nat /\ ses[p].out_sent <= Len(ses[p].out[1].body)
           /\ Len(ses[p].out[1].body) <= ses[p].out[1].length
<1> DEFINE out == ses[p].out
           r == out[1]
<1>1. /\ out \in Seq(Reply) /\ Len(out) = 1 /\ ses[p].out_sent \in Nat
      /\ ses[p].out_sent <= Len(r.body)
  BY WireFacts DEF LocalsFit, Session
<1>2. r \in Reply
  <2> HIDE DEF out
  <2>1. 1 \in 1 .. Len(out)
    BY <1>1
  <2>. QED
    BY <1>1, <2>1, ElementOfSeq
<1>3. r.body \in Seq(Byte) /\ Len(r.body) \in Nat /\ r.length \in Nat
  BY <1>2, LenProperties DEF Reply
<1>4. Complete(r) \/ r.body = <<>>
  BY WireFacts DEF LocalsFit
<1>5. Len(r.body) <= r.length
  <2>1. CASE Complete(r)
    BY <1>3, <2>1 DEF Complete
  <2>2. CASE r.body = <<>>
    <3>1. Len(r.body) = 0
      BY <2>2
    <3> HIDE DEF r
    <3>. QED
      BY <1>3, <3>1
  <2>. QED
    BY <1>4, <2>1, <2>2
<1>. QED
  BY <1>1, <1>2, <1>3, <1>5

LEMMA PartSent ==
    ASSUME TypeInv, NEW p \in Peers, SendReply(p), ~SendFails(p)
    PROVE  /\ WireStep(p) /\ files' = files /\ rcvd' = rcvd /\ sock' = sock
           /\ ~Broken(p)
           /\ Upto(p) \in Nat /\ ses[p].out_sent < Upto(p)
           /\ Upto(p) <= Len(ses[p].out[1].body) + 1
           /\ rx' = [rx EXCEPT ![p] = Extend(rx[p], ses[p].out[1], ses[p].out_sent, Upto(p))]
           /\ Goto(p, IF Upto(p) < Len(ses[p].out[1].body) + 1
                      THEN PartOf(ses[p], Upto(p)) ELSE Empties(ses[p]))
<1> DEFINE s == ses[p]
           r == s.out[1]
           n == Len(r.body)
           from == s.out_sent
           upto == Upto(p)
<1>1. /\ rcvd \in [Peers -> Nat] /\ rx \in [Peers -> Seq(Reply)]
      /\ unread \in [Peers -> 0 .. SndBuf]
  BY DEF TypeInv, TypeOK, WireTypeOK
<1>2. /\ rcvd[p] \in Nat /\ rcvd[p] <= sent[p] /\ rx[p] \in Seq(Reply)
      /\ Len(rx[p]) \in Nat /\ unread[p] \in 0 .. SndBuf /\ SndBuf \in Nat
  BY WireFacts
<1>3. s.at = "reply" /\ r \in Reply /\ n \in Nat /\ from \in Nat /\ from <= n
  BY ReplyHeld DEF SendReply, At
<1>4. /\ ~Broken(p) /\ Space(p) > 0
      /\ rx' = [rx EXCEPT ![p] = Extend(rx[p], r, from, upto)]
      /\ unread' = [unread EXCEPT ![p] = unread[p] + (upto - from)]
      /\ Goto(p, IF upto < n + 1 THEN PartOf(s, upto) ELSE Empties(s))
      /\ UNCHANGED <<sock, stream, sent, rcvd, backlog, files>>
  BY <1>1 DEF SendReply, SentSoFar, Upto, PartOf, Empties
<1>5. /\ upto \in Nat /\ from < upto /\ upto <= n + 1
      /\ unread[p] + (upto - from) \in 0 .. SndBuf
  <2>1. Space(p) = SndBuf - unread[p]
    BY DEF Space
  <2>2. upto = IF from + Space(p) <= n + 1 THEN from + Space(p) ELSE n + 1
    BY DEF Upto, MinOf
  <2> HIDE DEF s, r, n, from, upto
  <2>. QED
    BY <1>2, <1>3, <1>4, <2>1, <2>2
<1>6. /\ Extend(rx[p], r, from, upto) \in Seq(Reply)
      /\ Len(rx[p]) <= Len(Extend(rx[p], r, from, upto))
  <2> DEFINE new == Extend(rx[p], r, from, upto)
  <2>1. /\ new \in Seq(Reply)
        /\ from = 0 => Len(new) = Len(rx[p]) + 1
        /\ from > 0 => Len(new) = Len(rx[p])
    <3> HIDE DEF s, r, from, upto
    <3>1. upto <= Len(r.body) + 1
      BY <1>5 DEF n
    <3>2. new = Extend(rx[p], r, from, upto)
      OBVIOUS
    <3> DEFINE log == rx[p]
    <3>3. log \in Seq(Reply) /\ r \in Reply /\ from \in Nat /\ upto \in Nat /\ from < upto
      BY <1>2, <1>3, <1>5
    <3>4. new = Extend(log, r, from, upto)
      BY <3>2
    <3> HIDE DEF new, log, n
    <3>5. /\ new \in Seq(Reply)
          /\ from = 0 => Len(new) = Len(log) + 1
          /\ from > 0 => Len(new) = Len(log)
      <4>1. /\ new \in Seq(Reply)
            /\ Len(new) = IF from = 0 THEN Len(log) + 1 ELSE Len(log)
        BY <3>1, <3>3, <3>4, ExtendType
      <4>. QED
        BY <3>3, <4>1
    <3>. QED
      BY <3>5 DEF log
  <2> HIDE DEF new, s, r, from, upto
  <2>. QED
    BY <1>2, <1>3, <2>1 DEF new
<1> HIDE DEF s, r, n, from, upto
<1>7. /\ rx' \in [Peers -> Seq(Reply)] /\ Len(rx[p]) <= Len(rx'[p])
      /\ \A q \in Peers \ {p} : rx'[q] = rx[q]
  BY <1>1, <1>4, <1>6
<1>8. unread' \in [Peers -> 0 .. SndBuf]
  BY <1>1, <1>4, <1>5
<1>9. WireStep(p)
  BY <1>1, <1>2, <1>4, <1>7, <1>8 DEF WireStep
<1>. QED
  BY <1>4, <1>5, <1>9 DEF s, r, n, from, upto

LEMMA AfterReply ==
    ASSUME NEW s \in Session, LocalsFit(s), s.at = "reply",
           NEW t, t = Moves(s) \/ t = Empties(s)
    PROVE  /\ t \in Session /\ LocalsFit(t)
           /\ t.at = s.next /\ t.name = s.name /\ t.off = s.off /\ t.buf = <<>>
<1>1. s.next \in {"header", "close", "get_read"} /\ s.buf = <<>>
  BY DEF LocalsFit
<1>2. s.next \in Places /\ <<>> \in Seq(Reply)
  BY <1>1 DEF Places
<1>3. Moves(s) \in Session
  BY <1>2 DEF Session, Moves
<1>4. Empties(s) \in Session
  <2> DEFINE none == <<>>
             u == [s EXCEPT !.out = none]
             v == [u EXCEPT !.out_sent = 0]
  <2>1. Empties(s) = [v EXCEPT !.at = s.next]
    BY DEF Empties, Session
  <2>2. none \in Seq(Reply)
    BY <1>2
  <2> HIDE DEF none
  <2>3. u \in Session
    BY <2>2 DEF Session
  <2> HIDE DEF u
  <2>4. v \in Session
    BY <2>3 DEF Session
  <2> HIDE DEF v
  <2>. QED
    BY <1>2, <2>1, <2>4 DEF Session
<1>5. t.at = s.next /\ t.name = s.name /\ t.off = s.off /\ t.buf = <<>>
  BY <1>1 DEF Moves, Empties, Session
<1>6. s.next = "get_read" => s.name \in SafeNames
  BY DEF LocalsFit
<1>7. LocalsFit(t)
  BY <1>1, <1>5, <1>6 DEF LocalsFit
<1>. QED
  BY <1>3, <1>4, <1>5, <1>7

LEMMA SendReplyServes ==
    ASSUME TypeInv, NEW p \in Peers, SendReply(p)
    PROVE  Serves(p)
<1> DEFINE s == ses[p]
           r == s.out[1]
<1>1. /\ s \in Session /\ LocalsFit(s) /\ s.at = "reply" /\ s.buf = <<>>
      /\ files \in [SafeNames -> File]
  BY WireFacts DEF SendReply, At, LocalsFit
<1>2. CASE SendFails(p)
  <2>1. WireStep(p) /\ files' = files
    BY <1>2, SendFailsStep
  <2>2. Goto(p, IF r.cmd = "OTHER" THEN Moves(s) ELSE Stop(s))
    BY <1>2 DEF SendReply, SendFails, Broken, Moves
  <2> HIDE DEF s, r
  <2>3. CASE r.cmd = "OTHER"
    BY <1>1, <2>1, <2>2, <2>3, AfterReply, GotoServes
  <2>4. CASE r.cmd # "OTHER"
    BY <1>1, <2>1, <2>2, <2>4, StopFits, GotoServes
  <2>. QED
    BY <2>3, <2>4
<1>3. CASE ~SendFails(p)
  <2> DEFINE upto == Upto(p)
  <2>1. /\ WireStep(p) /\ files' = files /\ upto \in Nat
        /\ Goto(p, IF upto < Len(r.body) + 1 THEN PartOf(s, upto) ELSE Empties(s))
    BY <1>3, PartSent
  <2>2. CASE upto < Len(r.body) + 1
    <3> DEFINE t == PartOf(s, upto)
    <3>1. upto <= Len(r.body)
      <4>1. Len(r.body) \in Nat
        BY <1>1, ReplyHeld
      <4> HIDE DEF r, upto
      <4>. QED
        BY <2>1, <2>2, <4>1
    <3> HIDE DEF upto
    <3>2. /\ t \in Session /\ t.at = "reply" /\ t.out = s.out /\ t.out_sent = upto
          /\ t.next = s.next /\ t.name = s.name /\ t.off = s.off /\ t.buf = s.buf
      BY <1>1, <2>1 DEF Session, PartOf
    <3>3. LocalsFit(t)
      <4> HIDE DEF t
      <4>. QED
        BY <1>1, <3>1, <3>2 DEF LocalsFit
    <3>4. Goto(p, t)
      BY <2>1, <2>2
    <3> HIDE DEF s, r, t
    <3>. QED
      BY <1>1, <2>1, <3>2, <3>3, <3>4, GotoServes
  <2>3. CASE ~(upto < Len(r.body) + 1)
    <3>1. Goto(p, Empties(s))
      BY <2>1, <2>3
    <3> HIDE DEF s, r, upto
    <3>. QED
      BY <1>1, <2>1, <3>1, AfterReply, GotoServes
  <2>. QED
    BY <2>2, <2>3
<1>. QED
  BY <1>2, <1>3

-----------------------------------------------------------------------------
(* The other steps.                                                        *)

Handling(p) ==
    \/ RecvHeader(p) \/ Drain(p) \/ RecvName(p)
    \/ GetRead(p) \/ GetSend(p)
    \/ RecvPutHeader(p) \/ RecvPutData(p) \/ DrainPut(p)
    \/ SendReply(p)

LEMMA HandlingServes ==
    ASSUME TypeInv, NEW p \in Peers, Handling(p)
    PROVE  Serves(p) /\ p \in serving /\ running
<1>1. Serves(p)
  BY RecvHeaderServes, DrainServes, RecvNameServes, GetReadServes, GetSendServes,
     RecvPutHeaderServes, RecvPutDataServes, DrainPutServes, SendReplyServes
     DEF Handling
<1>2. running /\ ses[p].at # "none"
  BY DEF Handling, At, RecvHeader, Drain, RecvName, GetRead, GetSend, RecvPutHeader,
         RecvPutData, DrainPut, SendReply
<1>. QED
  BY <1>1, <1>2, Served

(* The steps that change nothing but where a connection is, or only what   *)
(* the peer has sent or read.                                              *)
Elsewhere ==
    /\ UNCHANGED <<stream, rcvd, rx, files>>
    /\ sent' \in [Peers -> Nat]
    /\ \A p \in Peers : sent[p] <= sent'[p] /\ sent'[p] <= Len(stream[p])
    /\ sock' \in [Peers -> {"idle", "open", "fin", "rst", "pipe"}]
    /\ \A p \in Peers : sock[p] # "idle" => sock'[p] # "idle"
    /\ \A p \in Peers : Broken(p) => Broken(p)'
    /\ \A p \in Peers : Ended(p) => Ended(p)' /\ sent'[p] = sent[p]

LEMMA PeerSteps ==
    ASSUME TypeInv, NEW p \in Peers, Peer(p)
    PROVE  TypeInv' /\ Elsewhere /\ ses' = ses /\ serving' = serving
<1>1. /\ sock \in [Peers -> {"idle", "open", "fin", "rst", "pipe"}]
      /\ stream \in [Peers -> Seq(Unit)] /\ sent \in [Peers -> Nat]
      /\ rcvd \in [Peers -> Nat]
      /\ \A q \in Peers : rcvd[q] <= sent[q] /\ sent[q] <= Len(stream[q])
      /\ \A q \in Peers : Len(stream[q]) \in Nat
      /\ unread \in [Peers -> 0 .. SndBuf] /\ SndBuf \in Nat
      /\ backlog \in Seq(Peers) /\ Distinct(backlog)
  BY LenProperties, WireAssumption DEF TypeInv, TypeOK, WireTypeOK, Placed
<1>2. UNCHANGED serverVars /\ UNCHANGED <<stream, rcvd, rx, files>>
  BY DEF Peer, PeerConnects, PeerSends, PeerReads, PeerLeaves, Connect, Send, Read, Leave
<1>3. CASE PeerConnects(p)
  <2>1. /\ sock[p] = "idle" /\ sock' = [sock EXCEPT ![p] = "open"]
        /\ backlog' = Append(backlog, p)
        /\ UNCHANGED <<stream, sent, rcvd, rx, unread, files>>
    BY <1>3 DEF PeerConnects, Connect
  <2>2. p \notin Elems(backlog) /\ p \notin Elems(queue) /\ p \notin serving
        /\ rx[p] = <<>> /\ rcvd[p] = 0
    BY <2>1 DEF TypeInv, Placed
  <2>3. /\ backlog' \in Seq(Peers) /\ Distinct(backlog')
        /\ Elems(backlog') = Elems(backlog) \cup {p}
    BY <1>1, <2>1, <2>2, LastJoins
  <2>4. /\ sock' \in [Peers -> {"idle", "open", "fin", "rst", "pipe"}]
        /\ \A q \in Peers : sock'[q] = IF q = p THEN "open" ELSE sock[q]
    BY <1>1, <2>1
  <2>5. Elsewhere
    BY <1>1, <2>1, <2>4 DEF Elsewhere, Broken, Ended
  <2>6. TypeOK'
    BY <1>2, <2>1, <2>3, <2>4 DEF TypeInv, TypeOK, WireTypeOK, serverVars
  <2>7. Placed'
    BY <1>2, <2>1, <2>2, <2>3, <2>4 DEF TypeInv, Placed, serverVars
  <2>8. \A q \in Peers : LocalsFit(ses'[q])
    BY <1>2 DEF TypeInv, serverVars
  <2>. QED
    BY <1>2, <2>5, <2>6, <2>7, <2>8 DEF TypeInv, serverVars
<1>4. CASE PeerSends(p)
  <2>1. PICK n \in sent[p] + 1 .. Len(stream[p]) : sent' = [sent EXCEPT ![p] = n]
    BY <1>4 DEF PeerSends, Send
  <2>2. UNCHANGED <<sock, stream, rcvd, rx, unread, backlog, files>> /\ sock[p] = "open"
    BY <1>4 DEF PeerSends, Send
  <2>3. n \in Nat /\ sent[p] <= n /\ n <= Len(stream[p]) /\ rcvd[p] <= n
    BY <1>1, <2>1
  <2>4. /\ sent' \in [Peers -> Nat]
        /\ \A q \in Peers : sent'[q] = IF q = p THEN n ELSE sent[q]
    BY <1>1, <2>1, <2>3
  <2>5. Elsewhere
    <3>1. \A q \in Peers : Ended(q) => q # p
      BY <2>2 DEF Ended, Broken
    <3>2. ASSUME NEW q \in Peers
          PROVE  sent[q] <= sent'[q] /\ sent'[q] <= Len(stream[q])
      <4>1. CASE q = p
        BY <2>3, <2>4, <4>1
      <4>2. CASE q # p
        BY <1>1, <2>4, <4>2
      <4>. QED
        BY <4>1, <4>2
    <3>. QED
      BY <1>1, <2>2, <2>4, <3>1, <3>2 DEF Elsewhere, Broken, Ended
  <2>6. TypeOK'
    BY <1>1, <1>2, <2>2, <2>3, <2>4 DEF TypeInv, TypeOK, WireTypeOK, serverVars
  <2>7. Placed' /\ \A q \in Peers : LocalsFit(ses'[q])
    BY <1>2, <2>2 DEF TypeInv, Placed, serverVars
  <2>. QED
    BY <1>2, <2>5, <2>6, <2>7 DEF TypeInv, serverVars
<1>5. CASE PeerReads(p)
  <2>1. /\ unread' = [unread EXCEPT ![p] = 0]
        /\ UNCHANGED <<sock, stream, sent, rcvd, rx, backlog, files>>
    BY <1>5 DEF PeerReads, Read
  <2>2. unread' \in [Peers -> 0 .. SndBuf]
    BY <1>1, <2>1
  <2>3. Elsewhere
    BY <1>1, <2>1 DEF Elsewhere, Broken, Ended
  <2>4. TypeOK'
    BY <1>2, <2>1, <2>2 DEF TypeInv, TypeOK, WireTypeOK, serverVars
  <2>5. Placed' /\ \A q \in Peers : LocalsFit(ses'[q])
    BY <1>2, <2>1 DEF TypeInv, Placed, serverVars
  <2>. QED
    BY <1>2, <2>3, <2>4, <2>5 DEF TypeInv, serverVars
<1>6. CASE PeerLeaves(p)
  <2>1. UNCHANGED <<stream, sent, rcvd, rx, unread, backlog, files>>
    BY <1>6 DEF PeerLeaves, Leave
  <2>2. PICK how \in {"fin", "rst", "pipe"} : sock' = [sock EXCEPT ![p] = how]
    BY <1>6 DEF PeerLeaves, Leave
  <2>3. sock[p] \in {"open", "fin"}
    BY <1>6 DEF PeerLeaves, Leave
  <2>4. /\ sock' \in [Peers -> {"idle", "open", "fin", "rst", "pipe"}]
        /\ \A q \in Peers : sock'[q] = IF q = p THEN how ELSE sock[q]
    BY <1>1, <2>2
  <2>5. Elsewhere
    BY <1>1, <2>1, <2>3, <2>4 DEF Elsewhere, Broken, Ended
  <2>6. TypeOK'
    BY <1>2, <2>1, <2>4 DEF TypeInv, TypeOK, WireTypeOK, serverVars
  <2>7. Placed' /\ \A q \in Peers : LocalsFit(ses'[q])
    BY <1>2, <2>1, <2>3, <2>4 DEF TypeInv, Placed, serverVars
  <2>. QED
    BY <1>2, <2>5, <2>6, <2>7 DEF TypeInv, serverVars
<1>. QED
  BY <1>3, <1>4, <1>5, <1>6 DEF Peer

LEMMA AcceptStep ==
    ASSUME TypeInv, Accept
    PROVE  TypeInv' /\ Elsewhere /\ ses' = ses /\ serving' = serving
<1> DEFINE p == Head(backlog)
<1>1. /\ sent \in [Peers -> Nat] /\ sock \in [Peers -> {"idle", "open", "fin", "rst", "pipe"}]
      /\ \A q \in Peers : sent[q] <= Len(stream[q])
      /\ backlog \in Seq(Peers) /\ Distinct(backlog) /\ backlog # <<>>
      /\ queue \in Seq(Peers) /\ Distinct(queue)
      /\ \A q \in Elems(backlog) : q \notin Elems(queue)
  BY DEF TypeInv, TypeOK, WireTypeOK, Placed, Accept
<1>2. /\ p \in Peers /\ p \in Elems(backlog)
      /\ Tail(backlog) \in Seq(Peers) /\ Distinct(Tail(backlog))
      /\ Elems(Tail(backlog)) = Elems(backlog) \ {p}
  BY <1>1, HeadLeaves
<1> HIDE DEF p
<1>3. /\ backlog' = Tail(backlog)
      /\ UNCHANGED <<sock, stream, sent, rcvd, rx, unread, files, ses, running>>
      /\ serving' = serving /\ served' = served
      /\ queue' = Append(queue, p) \/ queue' = queue
  BY DEF Accept, Pool!Accept, p
<1>4. /\ queue' \in Seq(Peers) /\ Distinct(queue')
      /\ Elems(queue') \subseteq Elems(queue) \cup {p}
  <2>1. CASE queue' = queue
    BY <1>1, <2>1
  <2>2. CASE queue' = Append(queue, p)
    BY <1>1, <1>2, <2>2, LastJoins
  <2>. QED
    BY <1>3, <2>1, <2>2
<1>5. Elsewhere
  <2>1. \A q \in Peers : sent[q] <= sent'[q]
    BY <1>1, <1>3
  <2>. QED
    BY <1>1, <1>3, <2>1 DEF Elsewhere, Broken, Ended
<1>6. TypeOK'
  BY <1>2, <1>3, <1>4 DEF TypeInv, TypeOK, WireTypeOK
<1>7. Placed'
  BY <1>1, <1>2, <1>3, <1>4 DEF TypeInv, Placed
<1>8. \A q \in Peers : LocalsFit(ses'[q])
  BY <1>3 DEF TypeInv
<1>. QED
  BY <1>3, <1>5, <1>6, <1>7, <1>8 DEF TypeInv

LEMMA BeginStep ==
    ASSUME TypeInv, Begin
    PROVE  /\ TypeInv' /\ Elsewhere
           /\ \E p \in Peers :
                 /\ p \notin serving /\ serving' = serving \cup {p}
                 /\ rx[p] = <<>> /\ rcvd[p] = 0
                 /\ ses'[p].at = "header"
                 /\ \A q \in Peers \ {p} : ses'[q] = ses[q]
<1> DEFINE p == Head(queue)
<1>1. /\ sent \in [Peers -> Nat] /\ sock \in [Peers -> {"idle", "open", "fin", "rst", "pipe"}]
      /\ \A q \in Peers : sent[q] <= Len(stream[q])
      /\ queue \in Seq(Peers) /\ Distinct(queue) /\ queue # <<>>
      /\ ses \in [Peers -> Session]
  BY DEF TypeInv, TypeOK, WireTypeOK, Placed, Begin, Pool!Start
<1>2. /\ p \in Peers /\ p \in Elems(queue)
      /\ Tail(queue) \in Seq(Peers) /\ Distinct(Tail(queue))
      /\ Elems(Tail(queue)) = Elems(queue) \ {p}
  BY <1>1, HeadLeaves
<1>3. /\ queue' = Tail(queue) /\ serving' = serving \cup {p} /\ served' = served
      /\ ses' = [ses EXCEPT ![p].at = "header"]
      /\ UNCHANGED <<wireVars, running>>
  BY DEF Begin, Pool!Start
<1> HIDE DEF p
<1>4. /\ p \notin serving /\ p \notin Elems(backlog)
      /\ sock[p] # "idle" /\ rx[p] = <<>> /\ rcvd[p] = 0
      /\ ses[p] = NoSession
  BY <1>2 DEF TypeInv, Placed
<1> DEFINE t == [NoSession EXCEPT !.at = "header"]
<1>5. t \in Session /\ t.at = "header" /\ t.buf = <<>>
  <2>1. NoSession \in Session /\ NoSession.buf = <<>> /\ "header" \in Places
    BY NoSessionFits DEF NoSession, Places
  <2>. QED
    BY <2>1 DEF Session
<1>6. LocalsFit(t)
  BY <1>5 DEF LocalsFit
<1>7. ses' = [ses EXCEPT ![p] = t]
  BY <1>1, <1>3, <1>4
<1> HIDE DEF t
<1>8. /\ ses' \in [Peers -> Session] /\ ses'[p] = t
      /\ \A q \in Peers \ {p} : ses'[q] = ses[q]
  BY <1>1, <1>2, <1>5, <1>7
<1>9. Elsewhere
  <2>1. \A q \in Peers : sent[q] <= sent'[q]
    BY <1>1, <1>3 DEF wireVars
  <2>. QED
    BY <1>1, <1>3, <2>1 DEF Elsewhere, Broken, Ended, wireVars
<1>10. TypeOK'
  BY <1>2, <1>3, <1>8 DEF TypeInv, TypeOK, WireTypeOK, wireVars
<1>11. Placed'
  BY <1>2, <1>3, <1>4, <1>8 DEF TypeInv, Placed, wireVars
<1>12. \A q \in Peers : LocalsFit(ses'[q])
  BY <1>6, <1>8 DEF TypeInv
<1>. QED
  BY <1>2, <1>3, <1>4, <1>5, <1>8, <1>9, <1>10, <1>11, <1>12 DEF TypeInv

(* The steps that end sessions.                                            *)
LEMMA CloseStep ==
    ASSUME TypeInv, NEW p \in Peers, Close(p)
    PROVE  /\ TypeInv' /\ UNCHANGED wireVars
           /\ serving' = serving \ {p} /\ \A q \in Peers \ {p} : ses'[q] = ses[q]
<1>1. /\ p \in serving /\ serving' = serving \ {p} /\ served' = served \cup {p}
      /\ queue' = queue /\ ses' = [ses EXCEPT ![p] = NoSession]
      /\ UNCHANGED <<wireVars, running>>
  BY DEF Close, Pool!Finish
<1>2. /\ ses' \in [Peers -> Session] /\ ses'[p] = NoSession
      /\ \A q \in Peers \ {p} : ses'[q] = ses[q]
  BY <1>1, NoSessionFits DEF TypeInv, TypeOK
<1>3. TypeOK'
  BY <1>1, <1>2 DEF TypeInv, TypeOK, WireTypeOK, wireVars
<1>4. Placed'
  BY <1>1, <1>2 DEF TypeInv, Placed, wireVars
<1>5. \A q \in Peers : LocalsFit(ses'[q])
  BY <1>2, NoSessionFits DEF TypeInv
<1>. QED
  BY <1>1, <1>2, <1>3, <1>4, <1>5 DEF TypeInv

LEMMA KilledStep ==
    ASSUME TypeInv, NEW p \in Peers, KilledBySigpipe(p)
    PROVE  /\ TypeInv' /\ serving' = {}
           /\ UNCHANGED <<sock, stream, sent, rcvd, rx, files>>
<1>1. /\ running' = FALSE
      /\ backlog' = <<>> /\ queue' = <<>> /\ serving' = {}
      /\ ses' = [q \in Peers |-> NoSession]
      /\ UNCHANGED <<sock, stream, sent, rcvd, rx, unread, files, served>>
  BY DEF KilledBySigpipe
<1>2. /\ ses' \in [Peers -> Session] /\ \A q \in Peers : ses'[q] = NoSession
  BY <1>1, NoSessionFits
<1>3. /\ <<>> \in Seq(Peers) /\ Distinct(<<>>) /\ Elems(<<>>) = {}
  BY DEF Distinct, Elems
<1>4. TypeOK'
  BY <1>1, <1>2, <1>3 DEF TypeInv, TypeOK, WireTypeOK
<1>5. Placed'
  BY <1>1, <1>2, <1>3 DEF TypeInv, Placed
<1>6. \A q \in Peers : LocalsFit(ses'[q])
  BY <1>2, NoSessionFits
<1>. QED
  BY <1>1, <1>4, <1>5, <1>6 DEF TypeInv

LEMMA InitTypeInv == Init => TypeInv
<1> SUFFICES ASSUME Init PROVE TypeInv
  OBVIOUS
<1>1. /\ ses \in [Peers -> Session] /\ \A q \in Peers : ses[q] = NoSession
      /\ queue = <<>> /\ serving = {} /\ served = {} /\ running = TRUE
  BY NoSessionFits DEF Init
<1>2. /\ <<>> \in Seq(Peers) /\ Distinct(<<>>) /\ Elems(<<>>) = {} /\ <<>> \in Seq(Reply)
  BY DEF Distinct, Elems
<1>3. /\ sock = [p \in Peers |-> "idle"] /\ sent = [p \in Peers |-> 0]
      /\ rcvd = [p \in Peers |-> 0] /\ rx = [p \in Peers |-> <<>>]
      /\ unread = [p \in Peers |-> 0] /\ backlog = <<>> /\ files \in Directories
  BY DEF Init, WireInit
<1>4. stream \in [Peers -> Seq(Unit)]
  <2>1. /\ stream \in [Peers -> UNION {Streams[p] : p \in Peers}]
        /\ \A p \in Peers : stream[p] \in Streams[p]
    BY DEF Init, WireInit
  <2>. QED
    BY <2>1, StreamsAssumption
<1>5. \A p \in Peers : rcvd[p] <= sent[p] /\ sent[p] <= Len(stream[p])
  BY <1>3, <1>4, LenProperties
<1>6. files \in [SafeNames -> File] /\ SndBuf \in Nat
  BY <1>3, DirectoriesAssumption, WireAssumption
<1>7. TypeOK
  BY <1>1, <1>2, <1>3, <1>4, <1>5, <1>6 DEF TypeOK, WireTypeOK
<1>8. Placed
  BY <1>1, <1>2, <1>3 DEF Placed
<1>. QED
  BY <1>1, <1>7, <1>8, NoSessionFits DEF TypeInv

LEMMA SameVars ==
    ASSUME TypeInv, UNCHANGED vars
    PROVE  TypeInv'
BY DEF TypeInv, TypeOK, WireTypeOK, Placed, vars, wireVars, serverVars

LEMMA NextCases ==
    ASSUME Next
    PROVE  Accept \/ Begin \/ \E p \in Peers : Peer(p) \/ Handling(p) \/ Close(p)
                                               \/ KilledBySigpipe(p)
BY DEF Next, Worker, Handling

LEMMA StepTypeInv ==
    ASSUME TypeInv, [Next]_vars
    PROVE  TypeInv'
<1>1. CASE Accept
  BY <1>1, AcceptStep
<1>2. CASE Begin
  BY <1>2, BeginStep
<1>3. ASSUME NEW p \in Peers, Peer(p) \/ Handling(p) \/ Close(p) \/ KilledBySigpipe(p)
      PROVE  TypeInv'
  BY <1>3, PeerSteps, HandlingServes, ServesInv, CloseStep, KilledStep
<1>4. CASE UNCHANGED vars
  BY <1>4, SameVars
<1>. QED
  BY <1>1, <1>2, <1>3, <1>4, NextCases

-----------------------------------------------------------------------------
(* What each call does to its session, to the replies and to the files.    *)

Answering(t, cmd, status, next) ==
    /\ t.at = "reply" /\ t.out_sent = 0 /\ t.next = next
    /\ t.out[1].cmd = cmd /\ t.out[1].status = status

Heading(p) == Incoming(p, HdrLen)[1].head

LEMMA GotoIs ==
    ASSUME TypeInv, NEW p \in Peers, NEW s, Goto(p, s)
    PROVE  ses'[p] = s
BY DEF Goto, TypeInv, TypeOK

LEMMA FailAnswers ==
    ASSUME NEW s \in Session, s.buf = <<>>, NEW cmd \in Cmds,
           NEW next \in {"header", "close"}, NEW t, t = Fail(s, cmd, next)
    PROVE  Answering(t, cmd, 1, next)
<1>1. Replying(t, cmd, 1, 0, <<>>, next)
  BY FailFits
<1>. QED
  BY <1>1 DEF Replying, Answering

LEMMA SucceedAnswers ==
    ASSUME NEW s \in Session, s.buf = <<>>, NEW cmd \in Cmds \ {"GET", "OTHER"},
           NEW body \in Seq(Byte),
           NEW next \in {"header", "close"}, NEW t, t = Succeed(s, cmd, body, next)
    PROVE  Answering(t, cmd, 0, next)
<1>1. Replying(t, cmd, 0, Len(body), body, next)
  BY SucceedFits
<1>. QED
  BY <1>1 DEF Replying, Answering

LEMMA RecvHeaderDoes ==
    ASSUME TypeInv, NEW p \in Peers, RecvHeader(p)
    PROVE  LET t == ses'[p] 
               h == Heading(p) IN
           /\ rx' = rx /\ files' = files /\ ses[p].at = "header"
           /\ \/ t.at = "close"
              \/ /\ RecvAll(p, HdrLen) /\ IsHeader(Incoming(p, HdrLen)) /\ BadName(h)
                 /\ Answering(t, h.cmd, 1, "close")
              \/ /\ RecvAll(p, HdrLen) /\ IsHeader(Incoming(p, HdrLen)) /\ ~BadName(h)
                 /\ t.at = IF h.cmd \in {"GET", "PUT"} THEN "name" ELSE "drain"
                 /\ t.cmd = h.cmd /\ t.left = h.length
<1> DEFINE s == ses[p]
           t == ses'[p]
           h == Heading(p)
<1>1. s \in Session /\ s.buf = <<>> /\ s.at = "header" /\ HdrLen \in Nat /\ files' = files
  BY WireFacts DEF RecvHeader, At, LocalsFit
<1>2. CASE RecvFails(p, HdrLen) /\ Goto(p, Stop(s))
  <2>1. t = Stop(s)
    BY <1>2, GotoIs
  <2>2. t.at = "close"
    BY <1>1, <2>1 DEF Stop, Session
  <2>. QED
    BY <1>1, <1>2, <2>2, RecvFailsStep
<1>3. CASE RecvAll(p, HdrLen) /\ IsHeader(Incoming(p, HdrLen)) /\ Goto(p, Dispatch(s, h))
  <2>1. t = Dispatch(s, h)
    BY <1>3, GotoIs
  <2>2. rx' = rx
    BY <1>1, <1>3, RecvAllStep
  <2>3. h \in Header
    BY <1>3, HeadArrived DEF Heading
  <2>4. h.cmd \in Cmds
    BY <2>3 DEF Header
  <2>5. CASE BadName(h)
    <3>1. t = Fail(s, h.cmd, "close")
      BY <2>1, <2>5 DEF Dispatch
    <3>2. Answering(t, h.cmd, 1, "close")
      <4> HIDE DEF s, t, h
      <4>. QED
        BY <1>1, <2>4, <3>1, FailAnswers
    <3>. QED
      BY <1>1, <1>3, <2>2, <2>5, <3>2
  <2>6. CASE ~BadName(h)
    <3>1. t = [s EXCEPT !.cmd = h.cmd, !.left = h.length,
                        !.at = IF h.cmd \in {"GET", "PUT"} THEN "name" ELSE "drain"]
      BY <2>1, <2>6 DEF Dispatch
    <3>2. /\ t.at = IF h.cmd \in {"GET", "PUT"} THEN "name" ELSE "drain"
          /\ t.cmd = h.cmd /\ t.left = h.length
      <4> HIDE DEF s, t, h
      <4>. QED
        BY <1>1, <3>1 DEF Session
    <3>. QED
      BY <1>1, <1>3, <2>2, <2>6, <3>2
  <2>. QED
    BY <2>5, <2>6
<1>4. CASE RecvAll(p, HdrLen) /\ Goto(p, Stop(s))
  <2>1. t = Stop(s)
    BY <1>4, GotoIs
  <2>2. t.at = "close"
    BY <1>1, <2>1 DEF Stop, Session
  <2>. QED
    BY <1>1, <1>4, <2>2, RecvAllStep
<1>. QED
  BY <1>2, <1>3, <1>4 DEF RecvHeader, Heading

LEMMA DrainDoes ==
    ASSUME TypeInv, NEW p \in Peers, Drain(p)
    PROVE  LET s == ses[p] IN
           /\ rx' = rx /\ files' = files /\ s.at = "drain"
           /\ RecvAll(p, s.left) \/ RecvFails(p, s.left)
           /\ \/ /\ s.cmd \in {"LIST", "QUIT", "OTHER"}
                 /\ \E status \in {0, 1} : Answering(ses'[p], s.cmd, status, "close")
              \/ /\ s.cmd \in {"LIST", "OTHER"}
                 /\ \E status \in {0, 1} : Answering(ses'[p], s.cmd, status, "header")
<1> DEFINE s == ses[p]
           t == ses'[p]
<1>1. /\ s \in Session /\ s.buf = <<>> /\ s.left \in Nat /\ files' = files
      /\ s.at = "drain"
  BY WireFacts DEF Drain, At, LocalsFit, Session
<1>2. (RecvAll(p, s.left) \/ RecvFails(p, s.left)) /\ rx' = rx
  <2>1. RecvAll(p, s.left) \/ RecvFails(p, s.left)
    BY DEF Drain, DrainPayload
  <2>. QED
    BY <2>1 DEF RecvAll, RecvFails
<1>3. {"LIST", "QUIT"} \subseteq Cmds \ {"GET", "OTHER"} /\ {"LIST", "OTHER"} \subseteq Cmds
  BY DEF Cmds
<1>4. CASE s.cmd = "LIST" /\ \E l \in Listings : Goto(p, Succeed(s, "LIST", Listed(l), "header"))
  <2>1. PICK l \in Listings : Goto(p, Succeed(s, "LIST", Listed(l), "header"))
    BY <1>4
  <2>2. Listed(l) \in Seq(Byte)
    BY ListedType
  <2>3. t = Succeed(s, "LIST", Listed(l), "header")
    BY <2>1, GotoIs
  <2> HIDE DEF s, t
  <2>4. Answering(t, "LIST", 0, "header")
    BY <1>1, <1>3, <2>2, <2>3, SucceedAnswers
  <2>. QED
    BY <1>1, <1>2, <1>4, <2>4 DEF s, t
<1>5. CASE s.cmd = "LIST" /\ Goto(p, Fail(s, "LIST", "close"))
  <2>1. t = Fail(s, "LIST", "close")
    BY <1>5, GotoIs
  <2> HIDE DEF s, t
  <2>2. Answering(t, "LIST", 1, "close")
    BY <1>1, <1>3, <2>1, FailAnswers
  <2>. QED
    BY <1>1, <1>2, <1>5, <2>2 DEF s, t
<1>6. CASE s.cmd = "QUIT" /\ Goto(p, Succeed(s, "QUIT", <<>>, AfterQuit))
  <2> DEFINE none == <<>>
  <2>1. none \in Seq(Byte) /\ t = Succeed(s, "QUIT", none, "close")
    BY <1>6, GotoIs DEF AfterQuit
  <2> HIDE DEF s, t, none
  <2>2. Answering(t, "QUIT", 0, "close")
    BY <1>1, <1>3, <2>1, SucceedAnswers
  <2>. QED
    BY <1>1, <1>2, <1>6, <2>2 DEF s, t
<1>7. CASE s.cmd = "OTHER" /\ Goto(p, Fail(s, "OTHER", "header"))
  <2>1. t = Fail(s, "OTHER", "header")
    BY <1>7, GotoIs
  <2> HIDE DEF s, t
  <2>2. Answering(t, "OTHER", 1, "header")
    BY <1>1, <1>3, <2>1, FailAnswers
  <2>. QED
    BY <1>1, <1>2, <1>7, <2>2 DEF s, t
<1>. QED
  BY <1>4, <1>5, <1>6, <1>7 DEF Drain

LEMMA RecvNameDoes ==
    ASSUME TypeInv, NEW p \in Peers, RecvName(p)
    PROVE  LET s == ses[p]
               t == ses'[p]
               units == Incoming(p, s.left) IN
           /\ rx' = rx /\ files' = files /\ s.at = "name"
           /\ \/ Answering(t, s.cmd, 1, "close")
              \/ RecvAll(p, s.left) /\ s.cmd = "GET" /\ Answering(t, "GET", 1, "header")
              \/ /\ RecvAll(p, s.left) /\ s.cmd = "GET" /\ Named(units)
                 /\ Answering(t, "GET", 0, "get_read") /\ t.name = NameOf(units)
                 /\ t.out[1].length = Len(files[t.name].data)
              \/ /\ RecvAll(p, s.left) /\ s.cmd = "PUT" /\ ~Named(units)
                 /\ Answering(t, "PUT", 1, "header")
              \/ /\ RecvAll(p, s.left) /\ s.cmd = "PUT" /\ Named(units)
                 /\ t.at = "put_header" /\ t.name = NameOf(units)
<1> DEFINE s == ses[p]
           t == ses'[p]
           units == Incoming(p, s.left)
<1>1. /\ s \in Session /\ s.buf = <<>> /\ s.left \in Nat /\ s.cmd \in Cmds
      /\ files' = files /\ s.at = "name" /\ "GET" \in Cmds
  BY WireFacts DEF RecvName, At, LocalsFit, Session, Cmds
<1>2. rx' = rx
  BY DEF RecvName, RecvAll, RecvFails
<1>3. CASE Goto(p, Fail(s, s.cmd, "close"))
  <2>1. t = Fail(s, s.cmd, "close")
    BY <1>3, GotoIs
  <2> HIDE DEF s, t, units
  <2>2. Answering(t, s.cmd, 1, "close")
    BY <1>1, <2>1, FailAnswers
  <2>. QED
    BY <1>1, <1>2, <2>2 DEF s, t
<1>4. ASSUME RecvAll(p, s.left)
      PROVE  units \in Seq(Unit)
  <2> HIDE DEF s
  <2>. QED
    BY <1>1, <1>4, IncomingType
<1>5. CASE RecvAll(p, s.left) /\ s.cmd = "GET" /\ Goto(p, Get(s, units))
  <2>1. t = Get(s, units) /\ units \in Seq(Unit)
    BY <1>4, <1>5, GotoIs
  <2> HIDE DEF s, t, units
  <2>2. \/ /\ Named(units) /\ t.name = NameOf(units)
           /\ Replying(t, "GET", 0, Len(files[t.name].data), <<>>, "get_read")
        \/ Replying(t, "GET", 1, 0, <<>>, "header")
    BY <1>1, <2>1, GetFits
  <2>3. \/ /\ Named(units) /\ t.name = NameOf(units)
           /\ Answering(t, "GET", 0, "get_read")
           /\ t.out[1].length = Len(files[t.name].data)
        \/ Answering(t, "GET", 1, "header")
    BY <2>2 DEF Replying, Answering
  <2>. QED
    BY <1>1, <1>2, <1>5, <2>3 DEF s, t, units
<1>6. CASE RecvAll(p, s.left) /\ s.cmd = "GET" /\ Goto(p, Fail(s, "GET", "header"))
  <2>1. t = Fail(s, "GET", "header")
    BY <1>6, GotoIs
  <2> HIDE DEF s, t, units
  <2>2. Answering(t, "GET", 1, "header")
    BY <1>1, <2>1, FailAnswers
  <2>. QED
    BY <1>1, <1>2, <1>6, <2>2 DEF s, t, units
<1>7. CASE RecvAll(p, s.left) /\ s.cmd = "PUT" /\ Goto(p, Put(s, units))
  <2>1. t = Put(s, units) /\ units \in Seq(Unit)
    BY <1>4, <1>7, GotoIs
  <2> HIDE DEF s, t, units
  <2>2. \/ Named(units) /\ t.at = "put_header" /\ t.name = NameOf(units)
        \/ ~Named(units) /\ Replying(t, "PUT", 1, 0, <<>>, "header")
    BY <1>1, <2>1, PutFits
  <2>3. \/ Named(units) /\ t.at = "put_header" /\ t.name = NameOf(units)
        \/ ~Named(units) /\ Answering(t, "PUT", 1, "header")
    BY <2>2 DEF Replying, Answering
  <2>. QED
    BY <1>1, <1>2, <1>7, <2>3 DEF s, t, units
<1>. QED
  BY <1>3, <1>5, <1>6, <1>7 DEF RecvName

LEMMA GetReadDoes ==
    ASSUME TypeInv, NEW p \in Peers, GetRead(p)
    PROVE  LET s == ses[p]
               t == ses'[p]
               data == files[s.name].data IN
           /\ UNCHANGED wireVars /\ s.at = "get_read" /\ s.off \in Nat
           /\ data \in Seq(Byte) /\ Len(data) \in Nat
           /\ \/ /\ s.off < Len(data)
                 /\ t.at = "get_send" /\ t.name = s.name /\ t.off = s.off + 1
                 /\ t.buf = <<data[s.off + 1]>> /\ data[s.off + 1] \in Byte
              \/ s.off >= Len(data) /\ t.at = "header"
              \/ t.at = "close"
<1> DEFINE s == ses[p]
           t == ses'[p]
           data == files[s.name].data
<1>1. /\ s \in Session /\ s.buf = <<>> /\ s.name \in SafeNames /\ s.off \in Nat
      /\ files \in [SafeNames -> File] /\ UNCHANGED wireVars /\ s.at = "get_read"
  BY WireFacts DEF GetRead, At, LocalsFit, Session
<1>2. data \in Seq(Byte) /\ Len(data) \in Nat
  BY <1>1, LenProperties DEF File
<1>3. CASE /\ s.off < Len(data)
           /\ Goto(p, [s EXCEPT !.at = "get_send", !.off = @ + 1,
                                !.buf = <<Block(data, s.off)>>])
  <2> DEFINE block == data[s.off + 1]
  <2>1. t = Holding(s, block)
    BY <1>3, GotoIs DEF Block, Holding
  <2>2. s.off + 1 \in 1 .. Len(data)
    BY <1>1, <1>2, <1>3
  <2>3. block \in Byte
    BY <1>2, <2>2, ElementOfSeq
  <2> HIDE DEF s, t, data, block
  <2>4. t.at = "get_send" /\ t.name = s.name /\ t.off = s.off + 1 /\ t.buf = <<block>>
    BY <1>1, <2>1, <2>3, BlockFits
  <2>. QED
    BY <1>1, <1>2, <1>3, <2>3, <2>4 DEF s, t, data, block
<1>4. CASE s.off >= Len(data) /\ Goto(p, [s EXCEPT !.at = "header"])
  <2>1. t.at = "header"
    BY <1>1, <1>4, GotoIs DEF Session
  <2>. QED
    BY <1>1, <1>2, <1>4, <2>1
<1>5. CASE Goto(p, Stop(s))
  <2>1. t.at = "close"
    BY <1>1, <1>5, GotoIs DEF Session, Stop
  <2>. QED
    BY <1>1, <1>2, <2>1
<1>. QED
  BY <1>3, <1>4, <1>5 DEF GetRead

LEMMA GetSendDoes ==
    ASSUME TypeInv, NEW p \in Peers, GetSend(p)
    PROVE  LET s == ses[p]
               t == ses'[p] IN
           /\ s.at = "get_send" /\ rcvd' = rcvd /\ files' = files
           /\ s.buf \in Seq(Byte) /\ Len(s.buf) = 1
           /\ \/ rx' = rx /\ t.at = "close"
              \/ /\ ~Broken(p) /\ sock' = sock
                 /\ rx'[p] = Longer(rx[p], s.buf)
                 /\ t.at = "get_read" /\ t.name = s.name /\ t.off = s.off
<1> DEFINE s == ses[p]
           t == ses'[p]
<1>1. s \in Session /\ s.at = "get_send" /\ Len(s.buf) = 1
  BY WireFacts DEF GetSend, At, LocalsFit
<1>2. s.buf \in Seq(Byte)
  BY <1>1 DEF Session
<1>3. CASE SendFails(p)
  <2>1. t = [Stop(s) EXCEPT !.buf = <<>>]
    BY <1>3, GotoIs DEF GetSend, SendFails, Broken
  <2>2. t.at = "close"
    BY <1>1, <2>1 DEF Stop, Session
  <2>. QED
    BY <1>1, <1>2, <1>3, <2>2, SendFailsStep
<1>4. CASE ~SendFails(p)
  <2>1. /\ rx' = [rx EXCEPT ![p] = Longer(rx[p], s.buf)] /\ ~Broken(p)
        /\ rcvd' = rcvd /\ sock' = sock /\ files' = files
        /\ t = [s EXCEPT !.at = "get_read", !.buf = <<>>]
    BY <1>4, BlockSent, GotoIs
  <2>2. rx'[p] = Longer(rx[p], s.buf)
    BY <2>1 DEF TypeInv, TypeOK, WireTypeOK
  <2>3. t.at = "get_read" /\ t.name = s.name /\ t.off = s.off
    BY <1>1, <2>1 DEF Session
  <2>. QED
    BY <1>1, <1>2, <2>1, <2>2, <2>3
<1>. QED
  BY <1>3, <1>4

LEMMA RecvPutHeaderDoes ==
    ASSUME TypeInv, NEW p \in Peers, RecvPutHeader(p)
    PROVE  LET s == ses[p]
               t == ses'[p]
               h == Heading(p) IN
           /\ rx' = rx /\ s.at = "put_header" /\ s.name \in SafeNames
           /\ \/ t.at = "close" /\ files' = files
              \/ /\ RecvAll(p, HdrLen) /\ IsHeader(Incoming(p, HdrLen)) /\ h.cmd # "PUT"
                 /\ Answering(t, "PUT", 1, "close") /\ files' = files
              \/ /\ RecvAll(p, HdrLen) /\ IsHeader(Incoming(p, HdrLen)) /\ h.cmd = "PUT"
                 /\ files' = [files EXCEPT ![s.name] = Truncated]
                 /\ t.at = "put_data" /\ t.left = h.length /\ t.off = 0 /\ t.name = s.name
              \/ /\ RecvAll(p, HdrLen) /\ IsHeader(Incoming(p, HdrLen)) /\ h.cmd = "PUT"
                 /\ t.at = "put_drain" /\ t.left = h.length /\ t.name = s.name
                 /\ files' = files
<1> DEFINE s == ses[p]
           t == ses'[p]
           h == Heading(p)
<1>1. /\ s \in Session /\ s.buf = <<>> /\ s.name \in SafeNames /\ s.off \in Nat
      /\ s.at = "put_header" /\ "PUT" \in Cmds
  BY WireFacts DEF RecvPutHeader, At, LocalsFit, Session, Cmds
<1>2. rx' = rx
  BY DEF RecvPutHeader, RecvAll, RecvFails
<1>3. CASE Goto(p, Stop(s)) /\ UNCHANGED files
  <2>1. t = Stop(s)
    BY <1>3, GotoIs
  <2>2. t.at = "close"
    BY <1>1, <2>1 DEF Stop, Session
  <2>. QED
    BY <1>1, <1>2, <1>3, <2>2
<1>4. CASE /\ RecvAll(p, HdrLen) /\ IsHeader(Incoming(p, HdrLen)) /\ h.cmd # "PUT"
           /\ Goto(p, Fail(s, "PUT", "close")) /\ UNCHANGED files
  <2>1. t = Fail(s, "PUT", "close")
    BY <1>4, GotoIs
  <2>2. Answering(t, "PUT", 1, "close")
    <3> HIDE DEF s, t
    <3>. QED
      BY <1>1, <2>1, FailAnswers
  <2>. QED
    BY <1>1, <1>2, <1>4, <2>2
<1>5. CASE /\ RecvAll(p, HdrLen) /\ IsHeader(Incoming(p, HdrLen)) /\ h.cmd = "PUT"
           /\ files' = [files EXCEPT ![s.name] = Truncated]
           /\ Goto(p, [s EXCEPT !.at = "put_data", !.left = h.length, !.off = 0])
  <2>1. t = [s EXCEPT !.at = "put_data", !.left = h.length, !.off = 0]
    BY <1>5, GotoIs
  <2>2. t.at = "put_data" /\ t.left = h.length /\ t.off = 0 /\ t.name = s.name
    <3> HIDE DEF s, t, h
    <3>. QED
      BY <1>1, <2>1 DEF Session
  <2>. QED
    BY <1>1, <1>2, <1>5, <2>2
<1>6. CASE /\ RecvAll(p, HdrLen) /\ IsHeader(Incoming(p, HdrLen)) /\ h.cmd = "PUT"
           /\ Goto(p, [s EXCEPT !.at = "put_drain", !.left = h.length]) /\ UNCHANGED files
  <2>1. t = [s EXCEPT !.at = "put_drain", !.left = h.length]
    BY <1>6, GotoIs
  <2>2. t.at = "put_drain" /\ t.left = h.length /\ t.name = s.name
    <3> HIDE DEF s, t, h
    <3>. QED
      BY <1>1, <2>1 DEF Session
  <2>. QED
    BY <1>1, <1>2, <1>6, <2>2
<1>. QED
  BY <1>3, <1>4, <1>5, <1>6 DEF RecvPutHeader, Heading

LEMMA RecvPutDataDoes ==
    ASSUME TypeInv, NEW p \in Peers, RecvPutData(p)
    PROVE  LET s == ses[p]
               t == ses'[p] IN
           /\ rx' = rx /\ s.at = "put_data" /\ s.name \in SafeNames
           /\ s.left \in Nat /\ s.off \in Nat
           /\ \/ s.left = 0 /\ UNCHANGED wireVars /\ Answering(t, "PUT", 0, "header")
              \/ t.at = "close" /\ files' = files
              \/ /\ s.left > 0 /\ RecvAll(p, 1)
                 /\ files' = Stored(s.name, s.off, Bytes(Incoming(p, 1)))
                 /\ t.at = "put_data" /\ t.name = s.name
                 /\ t.left = s.left - 1 /\ t.off = s.off + 1
              \/ /\ s.left > 0 /\ RecvAll(p, 1)
                 /\ Answering(t, "PUT", 1, "close") /\ files' = files
<1> DEFINE s == ses[p]
           t == ses'[p]
<1>1. /\ s \in Session /\ s.buf = <<>> /\ s.name \in SafeNames
      /\ s.off \in Nat /\ s.left \in Nat /\ s.at = "put_data"
      /\ "PUT" \in Cmds \ {"GET", "OTHER"}
  BY WireFacts DEF RecvPutData, At, LocalsFit, Session, Cmds
<1>2. rx' = rx
  BY DEF RecvPutData, RecvAll, RecvFails, wireVars
<1>3. CASE s.left = 0 /\ Goto(p, Succeed(s, "PUT", <<>>, "header")) /\ UNCHANGED wireVars
  <2> DEFINE none == <<>>
  <2>1. none \in Seq(Byte) /\ t = Succeed(s, "PUT", none, "header")
    BY <1>3, GotoIs
  <2>2. Answering(t, "PUT", 0, "header")
    <3> HIDE DEF s, t, none
    <3>. QED
      BY <1>1, <2>1, SucceedAnswers
  <2>. QED
    BY <1>1, <1>2, <1>3, <2>2
<1>4. CASE Goto(p, Stop(s)) /\ UNCHANGED files
  <2>1. t = Stop(s)
    BY <1>4, GotoIs
  <2>2. t.at = "close"
    BY <1>1, <2>1 DEF Stop, Session
  <2>. QED
    BY <1>1, <1>2, <1>4, <2>2
<1>5. CASE /\ s.left > 0 /\ RecvAll(p, 1)
           /\ files' = Stored(s.name, s.off, Bytes(Incoming(p, 1)))
           /\ Goto(p, BlockWritten(s))
  <2>1. t = [s EXCEPT !.left = @ - 1, !.off = @ + 1]
    BY <1>5, GotoIs DEF BlockWritten
  <2>2. t.at = "put_data" /\ t.name = s.name /\ t.left = s.left - 1 /\ t.off = s.off + 1
    <3> HIDE DEF s, t
    <3>. QED
      BY <1>1, <2>1 DEF Session
  <2>. QED
    BY <1>1, <1>2, <1>5, <2>2
<1>6. CASE /\ s.left > 0 /\ RecvAll(p, 1)
           /\ Goto(p, Fail(s, "PUT", "close")) /\ UNCHANGED files
  <2>1. t = Fail(s, "PUT", "close")
    BY <1>6, GotoIs
  <2>2. Answering(t, "PUT", 1, "close")
    <3> HIDE DEF s, t
    <3>. QED
      BY <1>1, <2>1, FailAnswers
  <2>. QED
    BY <1>1, <1>2, <1>6, <2>2
<1>. QED
  BY <1>3, <1>4, <1>5, <1>6 DEF RecvPutData

LEMMA DrainPutDoes ==
    ASSUME TypeInv, NEW p \in Peers, DrainPut(p)
    PROVE  LET s == ses[p] IN
           /\ rx' = rx /\ files' = files /\ s.at = "put_drain"
           /\ \/ ses'[p].at = "close"
              \/ RecvAll(p, s.left) /\ Answering(ses'[p], "PUT", 1, "close")
<1> DEFINE s == ses[p]
           t == ses'[p]
<1>1. /\ s \in Session /\ s.buf = <<>> /\ "PUT" \in Cmds /\ files' = files
      /\ s.at = "put_drain"
  BY WireFacts DEF DrainPut, At, LocalsFit, Cmds
<1>2. rx' = rx
  BY DEF DrainPut, RecvAll, RecvFails
<1>3. CASE Goto(p, Stop(s))
  <2>1. t = Stop(s)
    BY <1>3, GotoIs
  <2>2. t.at = "close"
    BY <1>1, <2>1 DEF Stop, Session
  <2>. QED
    BY <1>1, <1>2, <2>2
<1>4. CASE RecvAll(p, s.left) /\ Goto(p, Fail(s, "PUT", "close"))
  <2>1. t = Fail(s, "PUT", "close")
    BY <1>4, GotoIs
  <2>2. Answering(t, "PUT", 1, "close")
    <3> HIDE DEF s, t
    <3>. QED
      BY <1>1, <2>1, FailAnswers
  <2>. QED
    BY <1>1, <1>2, <1>4, <2>2
<1>. QED
  BY <1>3, <1>4 DEF DrainPut

LEMMA SendReplyDoes ==
    ASSUME TypeInv, NEW p \in Peers, SendReply(p)
    PROVE  LET s == ses[p]
               t == ses'[p]
               r == s.out[1]
               upto == Upto(p) IN
           /\ s.at = "reply" /\ rcvd' = rcvd /\ files' = files
           /\ \/ rx' = rx /\ t.at = "close"
              \/ rx' = rx /\ t.at = s.next /\ r.cmd = "OTHER" /\ sock[p] = "rst"
              \/ /\ ~Broken(p) /\ sock' = sock
                 /\ upto \in Nat /\ s.out_sent < upto /\ upto <= Len(r.body) + 1
                 /\ rx'[p] = Extend(rx[p], r, s.out_sent, upto)
                 /\ t.name = s.name /\ t.off = s.off
                 /\ \/ /\ upto < Len(r.body) + 1
                       /\ t.at = "reply" /\ t.out = s.out /\ t.next = s.next
                       /\ t.out_sent = upto
                    \/ upto = Len(r.body) + 1 /\ t.at = s.next
<1> DEFINE s == ses[p]
           t == ses'[p]
           r == s.out[1]
           upto == Upto(p)
<1>1. s \in Session /\ LocalsFit(s) /\ s.at = "reply"
  BY WireFacts DEF SendReply, At
<1>2. CASE SendFails(p)
  <2>1. rx' = rx /\ rcvd' = rcvd /\ files' = files /\ sock[p] = "rst"
    BY <1>2, SendFailsStep
  <2>2. t = IF r.cmd = "OTHER" THEN Moves(s) ELSE Stop(s)
    BY <1>2, GotoIs DEF SendReply, SendFails, Broken, Moves
  <2>3. CASE r.cmd = "OTHER"
    <3>1. t = Moves(s)
      BY <2>2, <2>3
    <3>2. t.at = s.next
      BY <1>1, <3>1, AfterReply
    <3>. QED
      BY <1>1, <2>1, <2>3, <3>2
  <2>4. CASE r.cmd # "OTHER"
    <3>1. t = Stop(s)
      BY <2>2, <2>4
    <3>2. t.at = "close"
      BY <1>1, <3>1 DEF Stop, Session
    <3>. QED
      BY <1>1, <2>1, <3>2
  <2>. QED
    BY <2>3, <2>4
<1>3. CASE ~SendFails(p)
  <2>1. /\ ~Broken(p) /\ files' = files /\ rcvd' = rcvd /\ sock' = sock
        /\ upto \in Nat /\ s.out_sent < upto /\ upto <= Len(r.body) + 1
        /\ rx' = [rx EXCEPT ![p] = Extend(rx[p], r, s.out_sent, upto)]
        /\ t = IF upto < Len(r.body) + 1 THEN PartOf(s, upto) ELSE Empties(s)
    BY <1>3, PartSent, GotoIs
  <2>2. rx'[p] = Extend(rx[p], r, s.out_sent, upto)
    BY <2>1 DEF TypeInv, TypeOK, WireTypeOK
  <2>3. CASE upto < Len(r.body) + 1
    <3>1. t = PartOf(s, upto)
      BY <2>1, <2>3
    <3>2. /\ t.at = "reply" /\ t.out = s.out /\ t.next = s.next /\ t.out_sent = upto
          /\ t.name = s.name /\ t.off = s.off
      <4> HIDE DEF s, t, upto, r
      <4>. QED
        BY <1>1, <3>1 DEF PartOf, Session
    <3>. QED
      BY <1>1, <2>1, <2>2, <2>3, <3>2
  <2>4. CASE ~(upto < Len(r.body) + 1)
    <3>1. t = Empties(s)
      BY <2>1, <2>4
    <3>2. t.at = s.next /\ t.name = s.name /\ t.off = s.off
      BY <1>1, <3>1, AfterReply
    <3>3. upto = Len(r.body) + 1
      <4>1. Len(r.body) \in Nat
        BY <1>1, ReplyHeld
      <4> HIDE DEF r, upto
      <4>. QED
        BY <2>1, <2>4, <4>1
    <3>. QED
      BY <1>1, <2>1, <2>2, <3>2, <3>3
  <2>. QED
    BY <2>3, <2>4
<1>. QED
  BY <1>2, <1>3

-----------------------------------------------------------------------------
(* How much of the reply begun last has been sent.  handle_get announces   *)
(* the size of the file before it reads it, so that a download is framed   *)
(* as long as the file keeps its contents until its end.                   *)

Downloading(s) ==
    s.at \in {"get_read", "get_send"} \/ (s.at = "reply" /\ s.next = "get_read")

SentFits(s, log, dir) ==
    /\ s.at \notin {"get_read", "get_send", "close"}
       /\ (s.at = "reply" => s.out_sent = 0) => Whole(log)
    /\ s.at = "reply" /\ s.out_sent > 0 =>
           /\ log # <<>>
           /\ log[Len(log)].length = s.out[1].length
           /\ Len(log[Len(log)].body) = s.out_sent - 1
    /\ s.at = "reply" /\ s.next = "get_read" =>
           s.out[1].length = Len(dir[s.name].data)
    /\ s.at \in {"get_read", "get_send"} =>
           /\ log # <<>>
           /\ log[Len(log)].length = Len(dir[s.name].data)
           /\ s.off = Len(log[Len(log)].body) + (IF s.at = "get_send" THEN 1 ELSE 0)
           /\ s.off <= Len(dir[s.name].data)

Replied ==
    \A p \in Peers :
        /\ LogFits(rx[p])
        /\ p \in serving => SentFits(ses[p], rx[p], files)

(* No file changes while it is downloaded.                                 *)
DownloadsHeld ==
    \A p \in Peers :
        Downloading(ses[p]) => files'[ses[p].name] = files[ses[p].name]

(* Nothing is owed where a session has not begun an answer.                *)
LEMMA NothingOwed ==
    ASSUME NEW t, NEW log, NEW dir, Whole(log),
           t.at \notin {"get_read", "get_send"},
           t.at = "reply" => t.out_sent = 0,
           t.at = "reply" /\ t.next = "get_read" =>
               t.out[1].length = Len(dir[t.name].data)
    PROVE  SentFits(t, log, dir)
<1>1. ~(t.at = "reply" /\ t.out_sent > 0)
  <2> DEFINE begun == t.out_sent
  <2>1. ~(0 > 0)
    OBVIOUS
  <2> HIDE DEF begun
  <2>2. begun = 0 => ~(begun > 0)
    BY <2>1
  <2>. QED
    BY <2>2 DEF begun
<1>. QED
  BY <1>1, Zenon DEF SentFits

LEMMA ClosedOwesNothing ==
    ASSUME NEW t, NEW log, NEW dir, t.at = "close"
    PROVE  SentFits(t, log, dir)
BY DEF SentFits

LEMMA AnswerFits ==
    ASSUME NEW t, NEW log, NEW dir, NEW cmd, NEW status, NEW next, Whole(log),
           Answering(t, cmd, status, next),
           next = "get_read" => t.out[1].length = Len(dir[t.name].data)
    PROVE  SentFits(t, log, dir)
BY NothingOwed DEF Answering

(* Every call but those that send.                                         *)
LEMMA CallFits ==
    ASSUME TypeInv, Replied, NEW p \in Peers,
           \/ RecvHeader(p) \/ Drain(p) \/ RecvName(p)
           \/ RecvPutHeader(p) \/ RecvPutData(p) \/ DrainPut(p)
    PROVE  rx' = rx /\ SentFits(ses'[p], rx[p], files')
<1> DEFINE s == ses[p]
           t == ses'[p]
<1>1. ASSUME s.at \in {"header", "drain", "name", "put_header", "put_data", "put_drain"}
      PROVE  Whole(rx[p])
  <2>1. p \in serving
    BY <1>1, Served
  <2>. QED
    BY <1>1, <2>1 DEF Replied, SentFits
<1>2. CASE RecvHeader(p)
  <2>1. /\ rx' = rx /\ s.at = "header"
        /\ \/ t.at \in {"close", "name", "drain"}
           \/ \E cmd : Answering(t, cmd, 1, "close")
    BY <1>2, RecvHeaderDoes
  <2>. QED
    BY <1>1, <2>1, NothingOwed, AnswerFits
<1>3. CASE Drain(p)
  <2>1. /\ rx' = rx /\ s.at = "drain"
        /\ \E cmd, status : \E next \in {"header", "close"} : Answering(t, cmd, status, next)
    BY <1>3, DrainDoes
  <2>. QED
    BY <1>1, <2>1, AnswerFits
<1>4. CASE RecvName(p)
  <2>1. /\ rx' = rx /\ s.at = "name" /\ files' = files
        /\ \/ \E cmd, status : \E next \in {"header", "close"} : Answering(t, cmd, status, next)
           \/ Answering(t, "GET", 0, "get_read") /\ t.out[1].length = Len(files[t.name].data)
           \/ t.at = "put_header"
    BY <1>4, RecvNameDoes
  <2>. QED
    BY <1>1, <2>1, NothingOwed, AnswerFits
<1>5. CASE RecvPutHeader(p)
  <2>1. /\ rx' = rx /\ s.at = "put_header"
        /\ \/ t.at \in {"close", "put_data", "put_drain"}
           \/ Answering(t, "PUT", 1, "close")
    BY <1>5, RecvPutHeaderDoes
  <2>. QED
    BY <1>1, <2>1, NothingOwed, AnswerFits
<1>6. CASE RecvPutData(p)
  <2>1. /\ rx' = rx /\ s.at = "put_data"
        /\ \/ t.at \in {"close", "put_data"}
           \/ Answering(t, "PUT", 0, "header") \/ Answering(t, "PUT", 1, "close")
    BY <1>6, RecvPutDataDoes
  <2>. QED
    BY <1>1, <2>1, NothingOwed, AnswerFits
<1>7. CASE DrainPut(p)
  <2>1. /\ rx' = rx /\ s.at = "put_drain"
        /\ t.at = "close" \/ Answering(t, "PUT", 1, "close")
    BY <1>7, DrainPutDoes
  <2>. QED
    BY <1>1, <2>1, NothingOwed, AnswerFits
<1>. QED
  BY <1>2, <1>3, <1>4, <1>5, <1>6, <1>7

LEMMA SendReplyFits ==
    ASSUME TypeInv, Replied, NEW p \in Peers, SendReply(p)
    PROVE  LogFits(rx'[p]) /\ SentFits(ses'[p], rx'[p], files')
<1> DEFINE s == ses[p]
           t == ses'[p]
           r == s.out[1]
           upto == Upto(p)
           log == rx[p]
           new == rx'[p]
           from == s.out_sent
<1>1. /\ s \in Session /\ LocalsFit(s) /\ s.at = "reply" /\ p \in serving
      /\ files' = files /\ log \in Seq(Reply)
  BY WireFacts, Served, SendReplyDoes
<1>2. LogFits(log) /\ SentFits(s, log, files)
  BY <1>1 DEF Replied
<1>3. /\ r \in Reply /\ Len(r.body) \in Nat /\ from \in Nat /\ from <= Len(r.body)
      /\ Len(r.body) <= r.length
  BY <1>1, ReplyHeld
<1>4. /\ from = 0 => Whole(log)
      /\ from > 0 => /\ log # <<>> /\ log[Len(log)].length = r.length
                     /\ Len(log[Len(log)].body) = from - 1
      /\ s.next = "get_read" => r.length = Len(files[s.name].data)
  BY <1>1, <1>2 DEF SentFits
<1>5. CASE rx' = rx /\ t.at = "close"
  BY <1>2, <1>5, ClosedOwesNothing
<1>6. CASE rx' = rx /\ t.at = s.next /\ r.cmd = "OTHER"
  <2>1. r.body = <<>> /\ s.next \in {"header", "close"}
    BY <1>1, <1>6 DEF LocalsFit
  <2>2. Len(r.body) = 0
    BY <2>1
  <2>3. from = 0
    <3> HIDE DEF r, from
    <3>. QED
      BY <1>3, <2>2
  <2>4. Whole(log)
    BY <1>4, <2>3
  <2>. QED
    BY <1>2, <1>6, <2>1, <2>4, NothingOwed
<1>7. CASE /\ upto \in Nat /\ from < upto /\ upto <= Len(r.body) + 1
           /\ new = Extend(log, r, from, upto)
           /\ t.name = s.name /\ t.off = s.off
           /\ \/ /\ upto < Len(r.body) + 1
                 /\ t.at = "reply" /\ t.out = s.out /\ t.next = s.next
                 /\ t.out_sent = upto
              \/ upto = Len(r.body) + 1 /\ t.at = s.next
  <2>1. /\ new # <<>> /\ LogFits(new)
        /\ new[Len(new)].length = r.length
        /\ Len(new[Len(new)].body) = upto - 1
    <3> HIDE DEF s, t, r, upto, log, new, from
    <3>1. /\ upto \in Nat /\ from < upto /\ upto <= Len(r.body) + 1
          /\ new = Extend(log, r, from, upto)
      BY <1>7
    <3>2. Onward(log, r, from, upto)
      BY <1>1, <1>2, <1>3, <1>4, <3>1 DEF Onward
    <3>. QED
      BY <3>1, <3>2, ExtendFits
  <2>2. CASE /\ t.at = "reply" /\ t.out = s.out /\ t.next = s.next
             /\ t.out_sent = upto
    <3>1. upto > 0
      <4> HIDE DEF from, upto
      <4>. QED
        BY <1>3, <1>7
    <3>2. /\ t.out[1].length = r.length
          /\ t.next = "get_read" => r.length = Len(files'[t.name].data)
      BY <1>1, <1>4, <1>7, <2>2
    <3> HIDE DEF s, t, r, upto, log, new, from
    <3>. QED
      BY <2>1, <2>2, <3>1, <3>2 DEF SentFits, t, new
  <2>3. CASE upto = Len(r.body) + 1 /\ t.at = s.next
    <3>1. Len(new[Len(new)].body) = Len(r.body)
      <4> HIDE DEF r, upto, new
      <4>. QED
        BY <1>3, <2>1, <2>3
    <3>2. CASE s.next \in {"header", "close"}
      <4>1. Complete(r)
        BY <1>1, <3>2 DEF LocalsFit
      <4>2. Whole(new)
        BY <2>1, <3>1, <4>1 DEF Whole, Complete
      <4>. QED
        BY <2>1, <2>3, <3>2, <4>2, NothingOwed
    <3>3. CASE s.next = "get_read"
      <4>1. s.off = 0 /\ r.body = <<>> /\ s.name \in SafeNames
        BY <1>1, <3>3 DEF LocalsFit
      <4>2. Len(r.body) = 0
        BY <4>1
      <4>3. /\ t.at = "get_read" /\ t.off = Len(new[Len(new)].body) /\ t.off = 0
            /\ new[Len(new)].length = Len(files'[t.name].data)
        BY <1>1, <1>4, <1>7, <2>1, <2>3, <3>1, <3>3, <4>1, <4>2
      <4>4. r.length \in Nat
        BY <1>3 DEF Reply
      <4>5. t.off <= Len(files'[t.name].data)
        <5>1. Len(files'[t.name].data) \in Nat
          BY <2>1, <4>3, <4>4
        <5>. QED
          BY <4>3, <5>1
      <4>6. t.off = Len(new[Len(new)].body) + 0
        BY <3>1, <4>2, <4>3
      <4> HIDE DEF t, new
      <4>. QED
        BY <2>1, <4>3, <4>5, <4>6 DEF SentFits, t, new
    <3>. QED
      BY <1>1, <3>2, <3>3 DEF LocalsFit
  <2>. QED
    BY <1>7, <2>2, <2>3
<1>. QED
  BY <1>5, <1>6, <1>7, SendReplyDoes

LEMMA GetReadFits ==
    ASSUME TypeInv, Replied, NEW p \in Peers, GetRead(p)
    PROVE  LogFits(rx'[p]) /\ SentFits(ses'[p], rx'[p], files')
<1> DEFINE s == ses[p]
           t == ses'[p]
           log == rx[p]
           last == log[Len(log)]
           data == files[s.name].data
<1>1. /\ s.at = "get_read" /\ s.off \in Nat /\ Len(data) \in Nat
      /\ rx' = rx /\ files' = files
  BY GetReadDoes DEF wireVars
<1>2. LogFits(log) /\ SentFits(s, log, files) /\ p \in serving
  BY <1>1, Served DEF Replied
<1>3. /\ log # <<>> /\ last.length = Len(data) /\ s.off = Len(last.body) + 0
      /\ s.off <= Len(data)
  BY <1>1, <1>2 DEF SentFits
<1>4. CASE s.off < Len(data) /\ t.at = "get_send" /\ t.name = s.name /\ t.off = s.off + 1
  <2>1. Len(last.body) \in Nat
    BY <1>3, WireFacts, LastReply
  <2>2. t.off = Len(last.body) + 1 /\ t.off <= Len(data)
    <3> HIDE DEF last, data
    <3>. QED
      BY <1>1, <1>3, <1>4, <2>1
  <2>3. data = files'[t.name].data
    BY <1>1, <1>4
  <2> HIDE DEF s, t, data
  <2>. QED
    BY <1>1, <1>2, <1>3, <1>4, <2>2, <2>3 DEF SentFits, t
<1>5. CASE s.off >= Len(data) /\ t.at = "header"
  <2>1. Len(last.body) \in Nat
    BY <1>3, WireFacts, LastReply
  <2>2. Len(last.body) = last.length
    <3> HIDE DEF last, data
    <3>. QED
      BY <1>1, <1>3, <1>5, <2>1
  <2>3. Whole(log)
    BY <2>2 DEF Whole, Complete
  <2>. QED
    BY <1>1, <1>2, <1>5, <2>3, NothingOwed
<1>6. CASE t.at = "close"
  BY <1>1, <1>2, <1>6, ClosedOwesNothing
<1>. QED
  BY <1>4, <1>5, <1>6, GetReadDoes

LEMMA GetSendFits ==
    ASSUME TypeInv, Replied, NEW p \in Peers, GetSend(p)
    PROVE  LogFits(rx'[p]) /\ SentFits(ses'[p], rx'[p], files')
<1> DEFINE s == ses[p]
           t == ses'[p]
           log == rx[p]
           new == rx'[p]
           last == log[Len(log)]
           data == files[s.name].data
<1>1. /\ s.at = "get_send" /\ files' = files
      /\ s.buf \in Seq(Byte) /\ Len(s.buf) = 1
  BY GetSendDoes
<1>2. LogFits(log) /\ SentFits(s, log, files) /\ log \in Seq(Reply)
  BY <1>1, Served, WireFacts DEF Replied
<1>3. /\ log # <<>> /\ last.length = Len(data) /\ s.off = Len(last.body) + 1
      /\ s.off <= Len(data)
  BY <1>1, <1>2 DEF SentFits
<1>4. CASE rx' = rx /\ t.at = "close"
  BY <1>2, <1>4, ClosedOwesNothing
<1>5. CASE new = Longer(log, s.buf) /\ t.at = "get_read" /\ t.name = s.name /\ t.off = s.off
  <2> DEFINE more == s.buf
  <2>1. more \in Seq(Byte) /\ new = Longer(log, more)
        /\ Len(last.body) + Len(more) <= last.length
    BY <1>1, <1>3, <1>5
  <2>2. /\ new # <<>> /\ LogFits(new)
        /\ new[Len(new)].length = last.length
        /\ Len(new[Len(new)].body) = Len(last.body) + Len(more)
    <3> HIDE DEF log, new, more
    <3>. QED
      BY <1>2, <1>3, <2>1, LastLonger
  <2>3. t.off = Len(new[Len(new)].body)
    BY <1>1, <1>3, <1>5, <2>2
  <2>4. Len(new[Len(new)].body) = Len(new[Len(new)].body) + 0
    <3>1. Len(last.body) \in Nat
      BY <1>2, <1>3, LastReply
    <3>2. Len(last.body) + Len(more) \in Nat
      BY <1>1, <3>1
    <3>. QED
      BY <2>2, <3>2
  <2>5. data = files'[t.name].data
    BY <1>1, <1>5
  <2> HIDE DEF s, t, data, new, last
  <2>. QED
    BY <1>3, <1>5, <2>2, <2>3, <2>4, <2>5 DEF SentFits, t, new
<1>. QED
  BY <1>4, <1>5, GetSendDoes

(* The other sessions do not notice.                                       *)
LEMMA OthersReplied ==
    ASSUME TypeInv, Replied, DownloadsHeld, NEW q \in Peers,
           ses'[q] = ses[q], rx'[q] = rx[q], q \in serving' => q \in serving
    PROVE  LogFits(rx'[q]) /\ (q \in serving' => SentFits(ses'[q], rx'[q], files'))
<1>1. LogFits(rx[q])
  BY DEF Replied
<1>2. ASSUME q \in serving
      PROVE  SentFits(ses[q], rx[q], files')
  <2>1. SentFits(ses[q], rx[q], files)
    BY <1>2 DEF Replied
  <2>2. Downloading(ses[q]) => files'[ses[q].name] = files[ses[q].name]
    BY DEF DownloadsHeld
  <2>. QED
    BY <2>1, <2>2 DEF SentFits, Downloading
<1>. QED
  BY <1>1, <1>2

LEMMA StepReplied ==
    ASSUME TypeInv, Replied, [Next /\ DownloadsHeld]_vars
    PROVE  Replied'
<1>1. ASSUME DownloadsHeld, NEW p \in Peers, Handling(p)
      PROVE  Replied'
  <2>1. Serves(p) /\ p \in serving
    BY <1>1, HandlingServes
  <2>2. LogFits(rx'[p]) /\ SentFits(ses'[p], rx'[p], files')
    <3>1. CASE SendReply(p)
      BY <3>1, SendReplyFits
    <3>2. CASE GetRead(p)
      BY <3>2, GetReadFits
    <3>3. CASE GetSend(p)
      BY <3>3, GetSendFits
    <3>4. CASE \/ RecvHeader(p) \/ Drain(p) \/ RecvName(p)
               \/ RecvPutHeader(p) \/ RecvPutData(p) \/ DrainPut(p)
      <4>1. rx' = rx /\ SentFits(ses'[p], rx[p], files')
        BY <3>4, CallFits
      <4>. QED
        BY <4>1 DEF Replied
    <3>. QED
      BY <1>1, <3>1, <3>2, <3>3, <3>4 DEF Handling
  <2>3. /\ serving' = serving
        /\ \A q \in Peers \ {p} : ses'[q] = ses[q] /\ rx'[q] = rx[q]
    BY <2>1 DEF Serves, WireStep
  <2>4. \A q \in Peers \ {p} :
           LogFits(rx'[q]) /\ (q \in serving' => SentFits(ses'[q], rx'[q], files'))
    BY <1>1, <2>3, OthersReplied
  <2>. QED
    BY <2>2, <2>4 DEF Replied
<1>2. ASSUME DownloadsHeld, rx' = rx,
             \A q \in serving' : q \in serving /\ ses'[q] = ses[q]
      PROVE  Replied'
  <2>1. ASSUME NEW q \in Peers
        PROVE  LogFits(rx'[q]) /\ (q \in serving' => SentFits(ses'[q], rx'[q], files'))
    <3>1. CASE q \in serving'
      BY <1>2, <3>1, OthersReplied
    <3>2. CASE q \notin serving'
      BY <1>2, <3>2 DEF Replied
    <3>. QED
      BY <3>1, <3>2
  <2>. QED
    BY <2>1 DEF Replied
<1>3. CASE DownloadsHeld /\ Accept
  BY <1>2, <1>3, AcceptStep DEF Elsewhere
<1>4. CASE DownloadsHeld /\ Begin
  <2>1. PICK p \in Peers :
             /\ p \notin serving /\ serving' = serving \cup {p}
             /\ rx[p] = <<>> /\ ses'[p].at = "header"
             /\ \A q \in Peers \ {p} : ses'[q] = ses[q]
    BY <1>4, BeginStep
  <2>2. rx' = rx
    BY <1>4, BeginStep DEF Elsewhere
  <2>3. LogFits(rx'[p]) /\ SentFits(ses'[p], rx'[p], files')
    <3>1. Whole(rx[p]) /\ LogFits(rx[p])
      BY <2>1 DEF Whole, Replied
    <3>. QED
      BY <2>1, <2>2, <3>1, NothingOwed
  <2>4. \A q \in Peers \ {p} :
           LogFits(rx'[q]) /\ (q \in serving' => SentFits(ses'[q], rx'[q], files'))
    BY <1>4, <2>1, <2>2, OthersReplied
  <2>. QED
    BY <2>3, <2>4 DEF Replied
<1>5. CASE DownloadsHeld /\ \E p \in Peers : Peer(p)
  BY <1>2, <1>5, PeerSteps DEF Elsewhere
<1>6. ASSUME DownloadsHeld, NEW p \in Peers, Close(p)
      PROVE  Replied'
  <2>1. /\ rx' = rx /\ serving' = serving \ {p}
        /\ \A q \in Peers \ {p} : ses'[q] = ses[q]
    BY <1>6, CloseStep DEF wireVars
  <2>2. serving \subseteq Peers
    BY DEF TypeInv, TypeOK
  <2>. QED
    BY <1>2, <1>6, <2>1, <2>2
<1>7. CASE DownloadsHeld /\ \E p \in Peers : KilledBySigpipe(p)
  BY <1>2, <1>7, KilledStep
<1>8. CASE UNCHANGED vars
  BY <1>8 DEF Replied, vars, wireVars, serverVars
<1>. QED
  BY <1>1, <1>3, <1>4, <1>5, <1>6, <1>7, <1>8, NextCases

-----------------------------------------------------------------------------
(* The units at which the messages of a stream of whole requests begin.    *)
MarksOf(units) == CHOOSE marks : Marks(units, marks)

LEMMA MarksExist ==
    ASSUME NEW units, WholeRequests(units)
    PROVE  Marks(units, MarksOf(units))
BY Zenon DEF WholeRequests, MarksOf

(* What a session at unit i owes the answers to, and that it is at a       *)
(* message there.                                                          *)
AskedIn(units) == RequestsOf(units, Refused, Quitting)

Owes(units, n, i, name) ==
    OwesFrom(units, Refused, Quitting, n, i, name) /\ <<i, name>> \in MarksOf(units)

HasMessage(units, n, i, name, cmd, len) ==
    /\ Owes(units, n, i, name) /\ HeaderAt(units, i)
    /\ units[i].head.cmd = cmd /\ units[i].head.length = len

LEMMA OwesContinues ==
    ASSUME NEW units, WholeRequests(units), NEW n, NEW i, NEW name,
           Owes(units, n, i, name)
    PROVE  Continues(units, MarksOf(units), i, name)
<1> DEFINE marks == MarksOf(units)
           m == <<i, name>>
<1>1. Marks(units, marks) /\ m \in marks
  BY MarksExist DEF Owes
<1>2. m[1] = i /\ m[2] = name
  OBVIOUS
<1> HIDE DEF marks, m
<1>3. Continues(units, marks, m[1], m[2])
  BY <1>1 DEF Marks
<1>. QED
  BY <1>2, <1>3 DEF marks

LEMMA BadNameRefused ==
    ASSUME NEW h \in Header
    PROVE  h \in Refused <=> BadName(h)
BY DEF Refused

(* What a session that meets a header answers, or has to read before it    *)
(* can.                                                                    *)
LEMMA RequestAsks ==
    ASSUME NEW units \in Seq(Unit), WholeRequests(units), NEW n \in Nat, NEW i,
           Owes(units, n, i, NULL), HeaderAt(units, i)
    PROVE  LET asked == AskedIn(units)
               head == units[i].head
               byte == LastByte(units, i)
               next == After(units, i)
           IN  /\ head.cmd # "PUT" \/ head \in Refused =>
                      n + 1 <= Len(asked) /\ asked[n + 1].cmd = head.cmd
               /\ head \notin Refused => WholeAt(units, i)
               /\ head \notin Refused /\ head.cmd \in {"LIST", "GET", "OTHER"} =>
                      asked[n + 1].name = byte /\ Owes(units, n + 1, next, NULL)
               /\ head \notin Refused /\ head.cmd = "PUT" =>
                      byte \in SafeNames /\ Owes(units, n, next, byte)
<1> DEFINE asked == AskedIn(units)
           head == units[i].head
           byte == LastByte(units, i)
           next == After(units, i)
<1>1. /\ OwesFrom(units, Refused, Quitting, n, i, NULL)
      /\ Continues(units, MarksOf(units), i, NULL)
  BY OwesContinues DEF Owes
<1>2. /\ head \in Refused => n + 1 <= Len(asked) /\ asked[n + 1].cmd = head.cmd
      /\ head \notin Refused /\ WholeAt(units, i) =>
            /\ <<head, byte>> \in Quitting =>
                  n + 1 <= Len(asked) /\ asked[n + 1].cmd = head.cmd
            /\ <<head, byte>> \notin Quitting /\ head.cmd # "PUT" =>
                  /\ n + 1 <= Len(asked) /\ asked[n + 1].cmd = head.cmd
                  /\ asked[n + 1].name = byte
                  /\ OwesFrom(units, Refused, Quitting, n + 1, next, NULL)
            /\ <<head, byte>> \notin Quitting /\ head.cmd = "PUT" =>
                  OwesFrom(units, Refused, Quitting, n, next, byte)
  BY <1>1, RequestNext DEF AskedIn
<1>3. head \notin Refused =>
         /\ WholeAt(units, i)
         /\ head.cmd \in {"LIST", "GET", "OTHER"} => <<next, NULL>> \in MarksOf(units)
         /\ head.cmd = "PUT" =>
                byte \in SafeNames /\ <<next, byte>> \in MarksOf(units)
  BY <1>1 DEF Continues
<1>4. <<head, byte>> \in Quitting => head.cmd = "QUIT"
  <2> DEFINE m == <<head, byte>>
  <2>1. m[1] = head
    OBVIOUS
  <2>2. m \in Quitting => m[1].cmd = "QUIT"
    BY DEF Quitting
  <2>. QED
    BY <2>1, <2>2
<1> HIDE DEF asked, head, byte, next
<1>5. \A x : \A j : <<j, x>> \in MarksOf(units) /\ OwesFrom(units, Refused, Quitting, n, j, x)
         => Owes(units, n, j, x)
  BY DEF Owes
<1>6. \A x : \A j : <<j, x>> \in MarksOf(units)
                    /\ OwesFrom(units, Refused, Quitting, n + 1, j, x)
         => Owes(units, n + 1, j, x)
  BY DEF Owes
<1>7. CASE head \in Refused
  BY <1>2, <1>7 DEF asked, head, byte, next
<1>8. CASE head \notin Refused /\ head.cmd = "PUT"
  <2>1. <<head, byte>> \notin Quitting
    BY <1>4, <1>8
  <2>2. WholeAt(units, i) /\ byte \in SafeNames /\ Owes(units, n, next, byte)
    BY <1>2, <1>3, <1>5, <1>8, <2>1
  <2>. QED
    BY <1>8, <2>2 DEF asked, head, byte, next
<1>9. CASE head \notin Refused /\ head.cmd \in {"LIST", "GET", "OTHER"}
  <2>1. <<head, byte>> \notin Quitting
    BY <1>4, <1>9
  <2>2. /\ WholeAt(units, i) /\ n + 1 <= Len(asked) /\ asked[n + 1].cmd = head.cmd
        /\ asked[n + 1].name = byte /\ Owes(units, n + 1, next, NULL)
    BY <1>2, <1>3, <1>6, <1>9, <2>1
  <2>. QED
    BY <1>9, <2>2 DEF asked, head, byte, next
<1>10. CASE head \notin Refused /\ head.cmd \notin {"LIST", "GET", "OTHER", "PUT"}
  <2>1. WholeAt(units, i) /\ n + 1 <= Len(asked) /\ asked[n + 1].cmd = head.cmd
    BY <1>2, <1>3, <1>10
  <2>. QED
    BY <1>10, <2>1 DEF asked, head, byte, next
<1>. QED
  BY <1>7, <1>8, <1>9, <1>10

(* The second message of a PUT.                                            *)
LEMMA PutAsks ==
    ASSUME NEW units \in Seq(Unit), WholeRequests(units), NEW n \in Nat, NEW i,
           NEW name \in SafeNames, Owes(units, n, i, name)
    PROVE  LET asked == AskedIn(units)
               next == After(units, i)
           IN  /\ HeaderAt(units, i)
               /\ n + 1 <= Len(asked) /\ asked[n + 1].cmd = "PUT"
               /\ units[i].head.cmd = "PUT" =>
                      /\ WholeAt(units, i) /\ asked[n + 1].name = name
                      /\ asked[n + 1].bytes = Bytes(Payload(units, i))
                      /\ Owes(units, n + 1, next, NULL)
<1> DEFINE asked == AskedIn(units)
           head == units[i].head
           next == After(units, i)
           bytes == Bytes(Payload(units, i))
<1>1. /\ OwesFrom(units, Refused, Quitting, n, i, name)
      /\ Continues(units, MarksOf(units), i, name) /\ name # NULL
  BY OwesContinues, NullAssumption DEF Owes
<1>2. /\ HeaderAt(units, i)
      /\ head.cmd = "PUT" => WholeAt(units, i) /\ <<next, NULL>> \in MarksOf(units)
  BY <1>1 DEF Continues
<1>3. /\ head.cmd # "PUT" => n + 1 <= Len(asked) /\ asked[n + 1].cmd = "PUT"
      /\ head.cmd = "PUT" /\ WholeAt(units, i) =>
            /\ n + 1 <= Len(asked)
            /\ asked[n + 1] = [cmd |-> "PUT", name |-> name, bytes |-> bytes]
            /\ OwesFrom(units, Refused, Quitting, n + 1, next, NULL)
  BY <1>1, <1>2, PutNext DEF AskedIn
<1> HIDE DEF asked, head, next, bytes
<1>4. CASE head.cmd # "PUT"
  BY <1>2, <1>3, <1>4 DEF asked, head
<1>5. CASE head.cmd = "PUT"
  <2>1. /\ n + 1 <= Len(asked)
        /\ asked[n + 1] = [cmd |-> "PUT", name |-> name, bytes |-> bytes]
        /\ Owes(units, n + 1, next, NULL) /\ WholeAt(units, i)
    BY <1>2, <1>3, <1>5 DEF Owes
  <2>2. asked[n + 1].cmd = "PUT" /\ asked[n + 1].name = name /\ asked[n + 1].bytes = bytes
    BY <2>1
  <2>. QED
    BY <1>2, <1>5, <2>1, <2>2 DEF asked, head, next, bytes
<1>. QED
  BY <1>4, <1>5

-----------------------------------------------------------------------------
(* Where a session is in its stream, and what it answers next.             *)

(* Nothing more will be received.                                          *)
Dry(p) == Ended(p) /\ rcvd[p] = sent[p]

Goes(units, n, i, dry) == dry \/ Owes(units, n, i, NULL)

(* A session that has received the units up to `got` has answered, or is   *)
(* answering, the first n requests.                                        *)
Parsing(s, units, n, got, dry) ==
    LET asked == AskedIn(units)
        i == got + 1 - HdrLen
        m == IF s.out_sent = 0 THEN n + 1 ELSE n
    IN  /\ s.at = "header" => Goes(units, n, got + 1, dry)
        /\ s.at \in {"drain", "name"} =>
               /\ HasMessage(units, n, i, NULL, s.cmd, s.left)
               /\ units[i].head \notin Refused
        /\ s.at = "put_header" => Owes(units, n, got + 1, s.name)
        /\ s.at = "put_data" =>
               HasMessage(units, n, i - s.off, s.name, "PUT", s.off + s.left)
        /\ s.at = "put_drain" => HasMessage(units, n, i, s.name, "PUT", s.left)
        /\ s.at = "reply" =>
               /\ 0 < m /\ m <= Len(asked) /\ asked[m].cmd = s.out[1].cmd
               /\ s.next # "close" => Goes(units, m, got + 1, dry)
               /\ s.next = "get_read" => asked[m].name = s.name
        /\ s.at \in {"get_read", "get_send"} =>
               /\ Goes(units, n, got + 1, dry)
               /\ n > 0 /\ asked[n].cmd = "GET" /\ asked[n].name = s.name

(* A reply that could not be sent on a broken connection is one answered.  *)
Parses(p, n) ==
    /\ n \in Nat /\ Len(rx[p]) <= n /\ n <= Len(AskedIn(stream[p]))
    /\ n = Len(rx[p]) \/ Broken(p)
    /\ Parsing(ses[p], stream[p], n, rcvd[p], Dry(p))

Parsed(p) ==
    /\ WholeRequests(stream[p])
    /\ InTurn(rx[p], AskedIn(stream[p]))
    /\ p \in serving => \E n : Parses(p, n)

LEMMA DryStays ==
    ASSUME TypeInv, NEW p \in Peers, Serves(p)
    PROVE  (Dry(p) => Dry(p)') /\ (Broken(p) => Broken(p)')
<1>1. /\ rcvd[p] \in Nat /\ sent[p] \in Nat /\ rcvd'[p] \in Nat
      /\ rcvd[p] <= rcvd'[p] /\ rcvd'[p] <= sent[p] /\ sent' = sent
      /\ sock' = sock \/ (sock[p] = "rst" /\ sock'[p] = "pipe")
  BY WireFacts DEF Serves, WireStep, TypeInv, TypeOK, WireTypeOK
<1>2. rcvd[p] = sent[p] => rcvd'[p] = sent[p]
  BY <1>1
<1>. QED
  BY <1>1, <1>2 DEF Dry, Ended, Broken

(* A header that was received is in the stream, where the session was.     *)
LEMMA HeaderArrives ==
    ASSUME TypeInv, NEW p \in Peers, RecvAll(p, HdrLen)
    PROVE  /\ rcvd'[p] + 1 - HdrLen = rcvd[p] + 1
           /\ Heading(p) = stream[p][rcvd[p] + 1].head
           /\ Heading(p) \in Header
           /\ IsHeader(Incoming(p, HdrLen)) => HeaderAt(stream[p], rcvd[p] + 1)
           /\ ~Dry(p)
<1> DEFINE got == rcvd[p]
           units == stream[p]
<1>1. /\ got \in Nat /\ sent[p] \in Nat /\ Len(units) \in Nat /\ units \in Seq(Unit)
      /\ sent[p] <= Len(units) /\ HdrLen \in Nat /\ HdrLen > 0
  BY WireFacts, WireAssumption
<1>2. HdrLen <= sent[p] - got /\ rcvd'[p] = got + HdrLen
  BY <1>1, RecvAllStep
<1>3. \A i \in got + 1 .. got + HdrLen : units[i] \in Unit
  <2>1. \A i \in got + 1 .. got + HdrLen : i \in 1 .. Len(units)
    BY <1>1, <1>2
  <2>. QED
    BY <1>1, <2>1, ElementOfSeq
<1> HIDE DEF got, units
<1>4. /\ got + 1 \in Int /\ got + HdrLen \in Int
      /\ 1 \in 1 .. (got + HdrLen) - (got + 1) + 1
      /\ (got + 1) + 1 - 1 = got + 1
      /\ (got + 1) + HdrLen - 1 = got + HdrLen
      /\ (got + 1) + HdrLen <= Len(units) + 1
      /\ (got + HdrLen) + 1 - HdrLen = got + 1
      /\ got # sent[p]
  BY <1>1, <1>2
<1>5. SubSeq(units, got + 1, got + HdrLen)[1] = units[got + 1]
  BY <1>3, <1>4, SubSeqProperties
<1>6. Incoming(p, HdrLen) = SubSeq(units, got + 1, got + HdrLen)
  BY DEF Incoming, got, units
<1>7. Heading(p) = units[got + 1].head
  BY <1>5, <1>6 DEF Heading
<1>8. IsHeader(Incoming(p, HdrLen)) => HeaderAt(units, got + 1)
  BY <1>4, <1>6 DEF HeaderAt
<1>9. ~Dry(p)
  BY <1>4 DEF Dry, got
<1>10. Heading(p) \in Header
  BY HeadArrived DEF Heading
<1>. QED
  BY <1>2, <1>4, <1>7, <1>8, <1>9, <1>10 DEF got, units

(* A payload that was received whole is the one of the message.            *)
LEMMA PayloadArrives ==
    ASSUME TypeInv, NEW p \in Peers, NEW i \in Nat, i = rcvd[p] + 1 - HdrLen,
           NEW len \in Nat, stream[p][i].head.length = len
    PROVE  /\ Incoming(p, len) = Payload(stream[p], i)
           /\ After(stream[p], i) = rcvd[p] + len + 1
<1> DEFINE got == rcvd[p]
           units == stream[p]
<1>1. got \in Nat /\ HdrLen \in Nat
  BY WireFacts, WireAssumption
<1>2. /\ After(units, i) = i + HdrLen + len
      /\ Payload(units, i) = SubSeq(units, i + HdrLen, After(units, i) - 1)
      /\ Incoming(p, len) = SubSeq(units, got + 1, got + len)
  BY DEF After, Payload, Incoming
<1> HIDE DEF got, units
<1>3. i + HdrLen = got + 1 /\ i + HdrLen + len = got + len + 1
      /\ (got + len + 1) - 1 = got + len
  BY <1>1 DEF got
<1>. QED
  BY <1>2, <1>3 DEF got, units

LEMMA CloseParses ==
    ASSUME NEW t, NEW units, NEW n, NEW got, NEW dry, t.at = "close"
    PROVE  Parsing(t, units, n, got, dry)
BY DEF Parsing

LEMMA AnswerParses ==
    ASSUME NEW t, NEW units, NEW n \in Nat, NEW got, NEW dry,
           NEW cmd, NEW status, NEW next, Answering(t, cmd, status, next),
           n + 1 <= Len(AskedIn(units)), AskedIn(units)[n + 1].cmd = cmd,
           next # "close" => Goes(units, n + 1, got + 1, dry),
           next = "get_read" => AskedIn(units)[n + 1].name = t.name
    PROVE  Parsing(t, units, n, got, dry)
<1>1. /\ t.at = "reply" /\ t.out_sent = 0 /\ t.next = next /\ t.out[1].cmd = cmd
  BY DEF Answering
<1>2. (IF t.out_sent = 0 THEN n + 1 ELSE n) = n + 1 /\ 0 < n + 1
  BY <1>1
<1>. QED
  BY <1>1, <1>2, Zenon DEF Parsing

(* The session p has answered n requests, and a call follows.              *)
Progress(p, n) ==
    /\ TypeInv /\ p \in Peers /\ n \in Nat /\ WholeRequests(stream[p])
    /\ Parsing(ses[p], stream[p], n, rcvd[p], Dry(p))

LEMMA RecvHeaderParses ==
    ASSUME NEW p, NEW n, Progress(p, n), RecvHeader(p)
    PROVE  Parsing(ses'[p], stream[p], n, rcvd'[p], Dry(p)')
<1> DEFINE s == ses[p]
           t == ses'[p]
           units == stream[p]
           i == rcvd[p] + 1
           h == Heading(p)
           asked == AskedIn(units)
<1>1. /\ TypeInv /\ p \in Peers /\ n \in Nat /\ WholeRequests(units)
      /\ units \in Seq(Unit) /\ s.at = "header"
      /\ \/ t.at = "close"
         \/ /\ RecvAll(p, HdrLen) /\ IsHeader(Incoming(p, HdrLen)) /\ BadName(h)
            /\ Answering(t, h.cmd, 1, "close")
         \/ /\ RecvAll(p, HdrLen) /\ IsHeader(Incoming(p, HdrLen)) /\ ~BadName(h)
            /\ t.at = IF h.cmd \in {"GET", "PUT"} THEN "name" ELSE "drain"
            /\ t.cmd = h.cmd /\ t.left = h.length
  BY RecvHeaderDoes, WireFacts DEF Progress
<1>2. Goes(units, n, i, Dry(p))
  BY <1>1 DEF Progress, Parsing
<1>3. CASE t.at = "close"
  BY <1>3, CloseParses
<1>4. ASSUME RecvAll(p, HdrLen), IsHeader(Incoming(p, HdrLen))
      PROVE  /\ Owes(units, n, i, NULL) /\ HeaderAt(units, i) /\ h = units[i].head
             /\ rcvd'[p] + 1 - HdrLen = i /\ h \in Header
  <2>1. /\ rcvd'[p] + 1 - HdrLen = i /\ h = units[i].head /\ h \in Header
        /\ HeaderAt(units, i) /\ ~Dry(p)
    BY <1>1, <1>4, HeaderArrives
  <2>. QED
    BY <1>2, <2>1 DEF Goes
<1>5. CASE /\ RecvAll(p, HdrLen) /\ IsHeader(Incoming(p, HdrLen)) /\ BadName(h)
           /\ Answering(t, h.cmd, 1, "close")
  <2>1. n + 1 <= Len(asked) /\ asked[n + 1].cmd = h.cmd
    BY <1>1, <1>4, <1>5, BadNameRefused, RequestAsks
  <2>. QED
    BY <1>1, <1>5, <2>1, AnswerParses
<1>6. CASE /\ RecvAll(p, HdrLen) /\ IsHeader(Incoming(p, HdrLen)) /\ ~BadName(h)
           /\ t.at = IF h.cmd \in {"GET", "PUT"} THEN "name" ELSE "drain"
           /\ t.cmd = h.cmd /\ t.left = h.length
  <2>1. HasMessage(units, n, i, NULL, t.cmd, t.left) /\ units[i].head \notin Refused
    BY <1>4, <1>6, BadNameRefused DEF HasMessage
  <2>2. t.at \in {"drain", "name"} /\ rcvd'[p] + 1 - HdrLen = i
    BY <1>4, <1>6
  <2> HIDE DEF s, t, units, i, h, asked
  <2>3. Parsing(t, units, n, rcvd'[p], Dry(p)')
    BY <2>1, <2>2 DEF Parsing
  <2>. QED
    BY <2>3 DEF t, units
<1>. QED
  BY <1>1, <1>3, <1>5, <1>6

LEMMA DrainParses ==
    ASSUME NEW p, NEW n, Progress(p, n), Drain(p)
    PROVE  Parsing(ses'[p], stream[p], n, rcvd'[p], Dry(p)')
<1> DEFINE s == ses[p]
           t == ses'[p]
           units == stream[p]
           i == rcvd[p] + 1 - HdrLen
           asked == AskedIn(units)
<1>1. /\ TypeInv /\ p \in Peers /\ n \in Nat /\ WholeRequests(units)
      /\ units \in Seq(Unit) /\ s.at = "drain" /\ s.left \in Nat
      /\ RecvAll(p, s.left) \/ RecvFails(p, s.left)
      /\ \/ /\ s.cmd \in {"LIST", "QUIT", "OTHER"}
            /\ \E status \in {0, 1} : Answering(t, s.cmd, status, "close")
         \/ /\ s.cmd \in {"LIST", "OTHER"}
            /\ \E status \in {0, 1} : Answering(t, s.cmd, status, "header")
  BY DrainDoes, WireFacts DEF Progress, Session
<1>2. HasMessage(units, n, i, NULL, s.cmd, s.left) /\ units[i].head \notin Refused
  BY <1>1 DEF Progress, Parsing
<1>3. /\ n + 1 <= Len(asked) /\ asked[n + 1].cmd = s.cmd
      /\ s.cmd \in {"LIST", "OTHER"} => Owes(units, n + 1, After(units, i), NULL)
  BY <1>1, <1>2, RequestAsks DEF HasMessage
<1>4. s.cmd \in {"LIST", "OTHER"} => Goes(units, n + 1, rcvd'[p] + 1, Dry(p)')
  <2>1. CASE RecvFails(p, s.left)
    <3>1. rcvd'[p] = sent[p] /\ sent'[p] = sent[p] /\ Ended(p)
      BY <1>1, <2>1, RecvFailsStep DEF RecvFails
    <3>2. Ended(p)'
      <4>1. Serves(p)
        BY <1>1, DrainServes
      <4>2. sock' = sock \/ (sock[p] = "rst" /\ sock'[p] = "pipe")
        BY <1>1, <4>1 DEF Serves, WireStep, TypeInv, TypeOK, WireTypeOK
      <4>. QED
        BY <3>1, <4>2 DEF Ended, Broken
    <3>. QED
      BY <3>1, <3>2 DEF Goes, Dry
  <2>2. CASE RecvAll(p, s.left)
    <3>1. i \in Nat /\ units[i].head.length = s.left
      BY <1>2 DEF HasMessage, Owes, OwesFrom
    <3>2. After(units, i) = rcvd[p] + s.left + 1
      <4> HIDE DEF s
      <4>. QED
        BY <1>1, <3>1, PayloadArrives
    <3>3. rcvd'[p] = rcvd[p] + s.left
      BY <1>1, <2>2, RecvAllStep
    <3>4. After(units, i) = rcvd'[p] + 1
      BY <3>2, <3>3
    <3>. QED
      BY <1>3, <3>4 DEF Goes
  <2>. QED
    BY <1>1, <2>1, <2>2
<1>5. PICK status \in {0, 1} : \/ Answering(t, s.cmd, status, "close")
                               \/ /\ s.cmd \in {"LIST", "OTHER"}
                                  /\ Answering(t, s.cmd, status, "header")
  BY <1>1
<1>6. CASE Answering(t, s.cmd, status, "close")
  BY <1>1, <1>3, <1>6, AnswerParses
<1>7. CASE s.cmd \in {"LIST", "OTHER"} /\ Answering(t, s.cmd, status, "header")
  BY <1>1, <1>3, <1>4, <1>7, AnswerParses
<1>. QED
  BY <1>5, <1>6, <1>7

LEMMA RecvNameParses ==
    ASSUME NEW p, NEW n, Progress(p, n), RecvName(p)
    PROVE  Parsing(ses'[p], stream[p], n, rcvd'[p], Dry(p)')
<1> DEFINE s == ses[p]
           t == ses'[p]
           units == stream[p]
           i == rcvd[p] + 1 - HdrLen
           name == Incoming(p, s.left)
           asked == AskedIn(units)
<1>1. /\ TypeInv /\ p \in Peers /\ n \in Nat /\ WholeRequests(units)
      /\ units \in Seq(Unit) /\ s.at = "name" /\ s.left \in Nat /\ s.left > 0
      /\ s.cmd \in {"GET", "PUT"}
      /\ \/ Answering(t, s.cmd, 1, "close")
         \/ RecvAll(p, s.left) /\ s.cmd = "GET" /\ Answering(t, "GET", 1, "header")
         \/ /\ RecvAll(p, s.left) /\ s.cmd = "GET" /\ Named(name)
            /\ Answering(t, "GET", 0, "get_read") /\ t.name = NameOf(name)
         \/ /\ RecvAll(p, s.left) /\ s.cmd = "PUT" /\ ~Named(name)
         \/ /\ RecvAll(p, s.left) /\ s.cmd = "PUT" /\ Named(name)
            /\ t.at = "put_header" /\ t.name = NameOf(name)
  BY RecvNameDoes, WireFacts DEF Progress, Session, LocalsFit
<1>2. HasMessage(units, n, i, NULL, s.cmd, s.left) /\ units[i].head \notin Refused
  BY <1>1 DEF Progress, Parsing
<1> DEFINE byte == LastByte(units, i)
           next == After(units, i)
<1>3. /\ i \in Nat /\ units[i].head.cmd = s.cmd /\ units[i].head.length = s.left
      /\ WholeAt(units, i)
      /\ s.cmd = "GET" => /\ n + 1 <= Len(asked) /\ asked[n + 1].cmd = "GET"
                          /\ asked[n + 1].name = byte /\ Owes(units, n + 1, next, NULL)
      /\ s.cmd = "PUT" => byte \in SafeNames /\ Owes(units, n, next, byte)
  <2>1. /\ Owes(units, n, i, NULL) /\ HeaderAt(units, i)
        /\ units[i].head.cmd = s.cmd /\ units[i].head.length = s.left
    BY <1>2 DEF HasMessage
  <2>2. i \in Nat
    BY <2>1 DEF Owes, OwesFrom
  <2> HIDE DEF s, i, units, asked, byte, next
  <2>. QED
    BY <1>1, <1>2, <2>1, <2>2, RequestAsks DEF asked, byte, next
<1>4. s.cmd = "PUT" => n + 1 <= Len(asked) /\ asked[n + 1].cmd = "PUT"
  BY <1>1, <1>3, PutAsks
<1>5. /\ next = rcvd[p] + s.left + 1 /\ name = Payload(units, i)
      /\ RecvAll(p, s.left) => next = rcvd'[p] + 1
  <2>1. next = rcvd[p] + s.left + 1 /\ name = Payload(units, i)
    <3> HIDE DEF s
    <3>. QED
      BY <1>1, <1>3, PayloadArrives DEF name
  <2>2. RecvAll(p, s.left) => rcvd'[p] = rcvd[p] + s.left
    BY <1>1, RecvAllStep
  <2>. QED
    BY <2>1, <2>2
<1>6. RecvAll(p, s.left) => name # <<>> /\ byte = NameOf(name)
  <2>1. RecvAll(p, s.left) => Len(name) = s.left
    BY <1>1, IncomingType
  <2>2. RecvAll(p, s.left) => name # <<>>
    BY <1>1, <2>1
  <2>. QED
    BY <1>5, <2>2 DEF LastByte
<1>7. CASE Answering(t, s.cmd, 1, "close")
  BY <1>1, <1>3, <1>4, <1>7, AnswerParses
<1>8. CASE RecvAll(p, s.left) /\ s.cmd = "GET" /\ Answering(t, "GET", 1, "header")
  <2>1. Goes(units, n + 1, rcvd'[p] + 1, Dry(p)')
    BY <1>3, <1>5, <1>8 DEF Goes
  <2>. QED
    BY <1>1, <1>3, <1>8, <2>1, AnswerParses
<1>9. CASE /\ RecvAll(p, s.left) /\ s.cmd = "GET" /\ Named(name)
           /\ Answering(t, "GET", 0, "get_read") /\ t.name = NameOf(name)
  <2>1. Goes(units, n + 1, rcvd'[p] + 1, Dry(p)')
    BY <1>3, <1>5, <1>9 DEF Goes
  <2>2. asked[n + 1].name = t.name
    BY <1>3, <1>6, <1>9
  <2>. QED
    BY <1>1, <1>3, <1>9, <2>1, <2>2, AnswerParses
<1>10. CASE /\ RecvAll(p, s.left) /\ s.cmd = "PUT" /\ ~Named(name)
  BY <1>3, <1>6, <1>10 DEF Named
<1>11. CASE /\ RecvAll(p, s.left) /\ s.cmd = "PUT"
            /\ t.at = "put_header" /\ t.name = NameOf(name)
  <2>1. Owes(units, n, rcvd'[p] + 1, t.name)
    BY <1>3, <1>5, <1>6, <1>11
  <2> HIDE DEF t, units
  <2>2. Parsing(t, units, n, rcvd'[p], Dry(p)')
    BY <1>11, <2>1 DEF Parsing
  <2>. QED
    BY <2>2 DEF t, units
<1>. QED
  BY <1>1, <1>7, <1>8, <1>9, <1>10, <1>11

LEMMA RecvPutHeaderParses ==
    ASSUME NEW p, NEW n, Progress(p, n), RecvPutHeader(p)
    PROVE  Parsing(ses'[p], stream[p], n, rcvd'[p], Dry(p)')
<1> DEFINE s == ses[p]
           t == ses'[p]
           units == stream[p]
           i == rcvd[p] + 1
           h == Heading(p)
           asked == AskedIn(units)
<1>1. /\ TypeInv /\ p \in Peers /\ n \in Nat /\ WholeRequests(units)
      /\ units \in Seq(Unit) /\ s.at = "put_header" /\ s.name \in SafeNames
      /\ \/ t.at = "close"
         \/ /\ RecvAll(p, HdrLen) /\ IsHeader(Incoming(p, HdrLen)) /\ h.cmd # "PUT"
            /\ Answering(t, "PUT", 1, "close")
         \/ /\ RecvAll(p, HdrLen) /\ IsHeader(Incoming(p, HdrLen)) /\ h.cmd = "PUT"
            /\ t.at = "put_data" /\ t.left = h.length /\ t.off = 0 /\ t.name = s.name
         \/ /\ RecvAll(p, HdrLen) /\ IsHeader(Incoming(p, HdrLen)) /\ h.cmd = "PUT"
            /\ t.at = "put_drain" /\ t.left = h.length /\ t.name = s.name
  BY RecvPutHeaderDoes, WireFacts DEF Progress
<1>2. Owes(units, n, i, s.name)
  BY <1>1 DEF Progress, Parsing
<1>3. HeaderAt(units, i) /\ n + 1 <= Len(asked) /\ asked[n + 1].cmd = "PUT"
  BY <1>1, <1>2, PutAsks
<1>4. CASE t.at = "close"
  BY <1>4, CloseParses
<1>5. CASE Answering(t, "PUT", 1, "close")
  BY <1>1, <1>3, <1>5, AnswerParses
<1>6. ASSUME RecvAll(p, HdrLen), h.cmd = "PUT", t.left = h.length, t.name = s.name
      PROVE  /\ HasMessage(units, n, i, t.name, "PUT", t.left)
             /\ rcvd'[p] + 1 - HdrLen = i /\ i \in Nat /\ t.left \in Nat
  <2>1. /\ rcvd'[p] + 1 - HdrLen = i /\ h = units[i].head /\ h \in Header
    BY <1>1, <1>6, HeaderArrives
  <2>. QED
    BY <1>2, <1>3, <1>6, <2>1 DEF HasMessage, Owes, OwesFrom, Header
<1>7. CASE /\ RecvAll(p, HdrLen) /\ h.cmd = "PUT"
           /\ t.at = "put_data" /\ t.left = h.length /\ t.off = 0 /\ t.name = s.name
  <2>1. i - t.off = i /\ t.off + t.left = t.left
    <3> HIDE DEF t, i
    <3>. QED
      BY <1>6, <1>7
  <2>2. HasMessage(units, n, (rcvd'[p] + 1 - HdrLen) - t.off, t.name, "PUT", t.off + t.left)
    BY <1>6, <1>7, <2>1
  <2> HIDE DEF t, units
  <2>3. Parsing(t, units, n, rcvd'[p], Dry(p)')
    BY <1>7, <2>2 DEF Parsing
  <2>. QED
    BY <2>3 DEF t, units
<1>8. CASE /\ RecvAll(p, HdrLen) /\ h.cmd = "PUT"
           /\ t.at = "put_drain" /\ t.left = h.length /\ t.name = s.name
  <2>1. HasMessage(units, n, rcvd'[p] + 1 - HdrLen, t.name, "PUT", t.left)
    BY <1>6, <1>8
  <2> HIDE DEF t, units
  <2>2. Parsing(t, units, n, rcvd'[p], Dry(p)')
    BY <1>8, <2>1 DEF Parsing
  <2>. QED
    BY <2>2 DEF t, units
<1>. QED
  BY <1>1, <1>4, <1>5, <1>7, <1>8

(* The data of a PUT that is under way is the payload of its message.      *)
LEMMA PutDataAt ==
    ASSUME NEW p, NEW n, Progress(p, n), ses[p].at = "put_data"
    PROVE  LET s == ses[p]
               units == stream[p]
               i == rcvd[p] + 1 - HdrLen - s.off
               asked == AskedIn(units)
           IN  /\ HasMessage(units, n, i, s.name, "PUT", s.off + s.left)
               /\ i \in Nat /\ s.name \in SafeNames /\ s.off \in Nat /\ s.left \in Nat
               /\ WholeAt(units, i)
               /\ n + 1 <= Len(asked) /\ asked[n + 1].cmd = "PUT"
               /\ asked[n + 1].name = s.name
               /\ asked[n + 1].bytes = Bytes(Payload(units, i))
               /\ Owes(units, n + 1, rcvd[p] + s.left + 1, NULL)
<1> DEFINE s == ses[p]
           units == stream[p]
           i == rcvd[p] + 1 - HdrLen - s.off
<1>1. /\ TypeInv /\ p \in Peers /\ n \in Nat /\ WholeRequests(units)
      /\ units \in Seq(Unit) /\ s.name \in SafeNames
      /\ s.off \in Nat /\ s.left \in Nat /\ rcvd[p] \in Nat /\ HdrLen \in Nat
  BY WireFacts, WireAssumption DEF Progress, LocalsFit, Session
<1>2. HasMessage(units, n, i, s.name, "PUT", s.off + s.left)
  <2>1. i = (rcvd[p] + 1 - HdrLen) - s.off
    BY <1>1
  <2>2. Parsing(s, units, n, rcvd[p], Dry(p))
    BY DEF Progress
  <2> HIDE DEF i
  <2>. QED
    BY <2>1, <2>2 DEF Parsing
<1>3. /\ Owes(units, n, i, s.name) /\ i \in Nat
      /\ units[i].head.cmd = "PUT" /\ units[i].head.length = s.off + s.left
  BY <1>2 DEF HasMessage, Owes, OwesFrom
<1>4. After(units, i) = rcvd[p] + s.left + 1
  <2>1. After(units, i) = i + HdrLen + (s.off + s.left)
    BY <1>3 DEF After
  <2> DEFINE got == rcvd[p]
             off == s.off
             left == s.left
             next == After(units, i)
  <2>2. /\ got \in Nat /\ off \in Nat /\ left \in Nat /\ HdrLen \in Nat
        /\ next = (got + 1 - HdrLen - off) + HdrLen + (off + left)
    BY <1>1, <2>1
  <2> HIDE DEF got, off, left, next
  <2>3. next = got + left + 1
    BY <2>2
  <2>. QED
    BY <2>3 DEF got, left, next
<1> HIDE DEF s, units, i
<1>. QED
  BY <1>1, <1>2, <1>3, <1>4, PutAsks, SMTT(30) DEF s, units, i

LEMMA RecvPutDataParses ==
    ASSUME NEW p, NEW n, Progress(p, n), RecvPutData(p)
    PROVE  Parsing(ses'[p], stream[p], n, rcvd'[p], Dry(p)')
<1> DEFINE s == ses[p]
           t == ses'[p]
           units == stream[p]
           i == rcvd[p] + 1 - HdrLen
           asked == AskedIn(units)
<1>1. /\ TypeInv /\ p \in Peers /\ n \in Nat /\ s.at = "put_data"
      /\ rcvd[p] \in Nat /\ HdrLen \in Nat
      /\ s.left \in Nat /\ s.off \in Nat
      /\ \/ s.left = 0 /\ UNCHANGED wireVars /\ Answering(t, "PUT", 0, "header")
         \/ t.at = "close"
         \/ /\ s.left > 0 /\ RecvAll(p, 1)
            /\ t.at = "put_data" /\ t.name = s.name
            /\ t.left = s.left - 1 /\ t.off = s.off + 1
         \/ Answering(t, "PUT", 1, "close")
  BY RecvPutDataDoes, WireFacts, WireAssumption DEF Progress
<1>2. /\ HasMessage(units, n, i - s.off, s.name, "PUT", s.off + s.left)
      /\ n + 1 <= Len(asked) /\ asked[n + 1].cmd = "PUT"
      /\ Owes(units, n + 1, rcvd[p] + s.left + 1, NULL)
  BY <1>1, PutDataAt, SMTT(30)
<1>3. CASE s.left = 0 /\ UNCHANGED wireVars /\ Answering(t, "PUT", 0, "header")
  <2>1. rcvd'[p] + 1 = rcvd[p] + s.left + 1
    BY <1>1, <1>3 DEF wireVars
  <2>2. Goes(units, n + 1, rcvd'[p] + 1, Dry(p)')
    BY <1>2, <2>1 DEF Goes
  <2>. QED
    BY <1>1, <1>2, <1>3, <2>2, AnswerParses
<1>4. CASE t.at = "close"
  BY <1>4, CloseParses
<1>5. CASE /\ s.left > 0 /\ RecvAll(p, 1)
           /\ t.at = "put_data" /\ t.name = s.name
           /\ t.left = s.left - 1 /\ t.off = s.off + 1
  <2>1. rcvd'[p] = rcvd[p] + 1
    BY <1>1, <1>5, RecvAllStep
  <2>2. (rcvd'[p] + 1 - HdrLen) - t.off = i - s.off /\ t.off + t.left = s.off + s.left
    BY <1>1, <1>5, <2>1
  <2>3. HasMessage(units, n, (rcvd'[p] + 1 - HdrLen) - t.off, t.name, "PUT", t.off + t.left)
    BY <1>2, <1>5, <2>2
  <2> HIDE DEF t, units
  <2>4. Parsing(t, units, n, rcvd'[p], Dry(p)')
    BY <1>5, <2>3 DEF Parsing
  <2>. QED
    BY <2>4 DEF t, units
<1>6. CASE Answering(t, "PUT", 1, "close")
  BY <1>1, <1>2, <1>6, AnswerParses
<1>. QED
  BY <1>1, <1>3, <1>4, <1>5, <1>6

LEMMA DrainPutParses ==
    ASSUME NEW p, NEW n, Progress(p, n), DrainPut(p)
    PROVE  Parsing(ses'[p], stream[p], n, rcvd'[p], Dry(p)')
<1> DEFINE s == ses[p]
           t == ses'[p]
           units == stream[p]
           i == rcvd[p] + 1 - HdrLen
           asked == AskedIn(units)
<1>1. /\ TypeInv /\ p \in Peers /\ n \in Nat /\ WholeRequests(units)
      /\ units \in Seq(Unit) /\ s.at = "put_drain" /\ s.name \in SafeNames
      /\ t.at = "close" \/ Answering(t, "PUT", 1, "close")
  BY DrainPutDoes, WireFacts DEF Progress, LocalsFit
<1>2. Owes(units, n, i, s.name)
  BY <1>1 DEF Progress, Parsing, HasMessage
<1>3. n + 1 <= Len(asked) /\ asked[n + 1].cmd = "PUT"
  BY <1>1, <1>2, PutAsks
<1>. QED
  BY <1>1, <1>3, CloseParses, AnswerParses

LEMMA GetReadParses ==
    ASSUME NEW p, NEW n, Progress(p, n), GetRead(p)
    PROVE  Parsing(ses'[p], stream[p], n, rcvd'[p], Dry(p)')
<1> DEFINE s == ses[p]
           t == ses'[p]
           units == stream[p]
           got == rcvd[p]
           dry == Dry(p)
<1>1. /\ s.at = "get_read" /\ rcvd' = rcvd /\ sent' = sent /\ sock' = sock
      /\ \/ t.at = "get_send" /\ t.name = s.name
         \/ t.at = "header"
         \/ t.at = "close"
  BY GetReadDoes DEF Progress, wireVars
<1>2. /\ Goes(units, n, got + 1, dry)
      /\ n > 0 /\ AskedIn(units)[n].cmd = "GET" /\ AskedIn(units)[n].name = s.name
  BY <1>1 DEF Progress, Parsing
<1>3. Dry(p)' = dry /\ rcvd'[p] = got
  BY <1>1 DEF Dry, Ended, Broken
<1> HIDE DEF t, units, got, dry
<1>4. Parsing(t, units, n, got, dry)
  BY <1>1, <1>2 DEF Parsing
<1>. QED
  BY <1>3, <1>4 DEF t, units
(* A session goes on where it was.                                         *)
LEMMA ReadingParses ==
    ASSUME NEW t, NEW units, NEW n, NEW got, NEW dry, NEW place,
           t.at = place, place \in {"header", "get_read"},
           Goes(units, n, got + 1, dry),
           place = "get_read" =>
               n > 0 /\ AskedIn(units)[n].cmd = "GET" /\ AskedIn(units)[n].name = t.name
    PROVE  Parsing(t, units, n, got, dry)
BY DEF Parsing

LEMMA GetSendParses ==
    ASSUME NEW p, NEW n, Progress(p, n), InTurn(rx[p], AskedIn(stream[p])), GetSend(p)
    PROVE  /\ Parsing(ses'[p], stream[p], n, rcvd'[p], Dry(p)')
           /\ Len(rx'[p]) = Len(rx[p]) /\ InTurn(rx'[p], AskedIn(stream[p]))
<1> DEFINE s == ses[p]
           t == ses'[p]
           units == stream[p]
           log == rx[p]
           new == rx'[p]
           asked == AskedIn(units)
           more == s.buf
<1>1. /\ TypeInv /\ p \in Peers /\ s.at = "get_send" /\ rcvd' = rcvd
      /\ more \in Seq(Byte) /\ log \in Seq(Reply)
      /\ \/ rx' = rx /\ t.at = "close"
         \/ /\ new = Longer(log, more)
            /\ t.at = "get_read" /\ t.name = s.name
  BY GetSendDoes, WireFacts DEF Progress
<1>2. /\ Goes(units, n, rcvd[p] + 1, Dry(p))
      /\ n > 0 /\ asked[n].cmd = "GET" /\ asked[n].name = s.name
  BY <1>1 DEF Progress, Parsing
<1>3. Goes(units, n, rcvd'[p] + 1, Dry(p)')
  BY <1>1, <1>2, GetSendServes, DryStays DEF Goes
<1>4. CASE rx' = rx /\ t.at = "close"
  BY <1>4, CloseParses
<1>5. CASE new = Longer(log, more) /\ t.at = "get_read" /\ t.name = s.name
  <2>1. Parsing(t, units, n, rcvd'[p], Dry(p)')
    BY <1>2, <1>3, <1>5, ReadingParses
  <2>2. Len(new) = Len(log) /\ \A i \in 1 .. Len(log) : new[i].cmd = log[i].cmd
    <3> HIDE DEF log, new, more
    <3>. QED
      BY <1>1, <1>5, LongerType
  <2>3. InTurn(new, asked)
    BY <2>2 DEF InTurn
  <2>. QED
    BY <2>1, <2>2, <2>3
<1>. QED
  BY <1>1, <1>4, <1>5

LEMMA SendReplyParses ==
    ASSUME TypeInv, NEW p \in Peers, NEW n, WholeRequests(stream[p]),
           InTurn(rx[p], AskedIn(stream[p])), Parses(p, n), SendReply(p)
    PROVE  (\E m : Parses(p, m)') /\ InTurn(rx'[p], AskedIn(stream[p]))
<1> DEFINE s == ses[p]
           t == ses'[p]
           r == s.out[1]
           from == s.out_sent
           units == stream[p]
           got == rcvd[p]
           log == rx[p]
           new == rx'[p]
           asked == AskedIn(units)
           upto == Upto(p)
<1>1. /\ n \in Nat /\ Len(log) <= n /\ n <= Len(asked)
      /\ n = Len(log) \/ Broken(p)
      /\ Parsing(s, units, n, got, Dry(p))
      /\ s.at = "reply" /\ LocalsFit(s) /\ log \in Seq(Reply) /\ Len(log) \in Nat
      /\ stream' = stream /\ rcvd' = rcvd
  BY SendReplyDoes, WireFacts, SendReplyServes DEF Parses, Serves, WireStep
<1>2. /\ r \in Reply /\ Len(r.body) \in Nat /\ from \in Nat /\ from <= Len(r.body)
  BY <1>1, ReplyHeld
<1> PICK m : m = IF from = 0 THEN n + 1 ELSE n
  OBVIOUS
<1>3. /\ 0 < m /\ m <= Len(asked) /\ asked[m].cmd = r.cmd
      /\ s.next # "close" => Goes(units, m, got + 1, Dry(p))
      /\ s.next = "get_read" => asked[m].name = s.name
  BY <1>1 DEF Parsing
<1>4. (Dry(p) => Dry(p)') /\ (Broken(p) => Broken(p)')
  BY SendReplyServes, DryStays
<1>5. s.next # "close" => Goes(units, m, got + 1, Dry(p)')
  BY <1>3, <1>4 DEF Goes
<1>6. /\ s.next \in {"header", "close", "get_read"}
      /\ s.next = "get_read" => r.cmd = "GET"
      /\ r.cmd = "OTHER" => r.body = <<>>
  BY <1>1 DEF LocalsFit
<1>7. m \in Nat /\ n <= m
  BY <1>1
<1>8. CASE rx' = rx /\ t.at = "close"
  <2>1. Parsing(t, units, n, got, Dry(p)')
    BY <1>8, CloseParses
  <2>2. Parses(p, n)'
    BY <1>1, <1>4, <1>8, <2>1 DEF Parses
  <2>. QED
    BY <1>8, <2>2
<1>9. CASE rx' = rx /\ t.at = s.next /\ r.cmd = "OTHER" /\ sock[p] = "rst"
  <2>1. from = 0
    <3>1. Len(r.body) = 0
      BY <1>6, <1>9
    <3> HIDE DEF r, from
    <3>. QED
      BY <1>2, <3>1
  <2>2. Parsing(t, units, m, got, Dry(p)')
    BY <1>5, <1>6, <1>9, ReadingParses, CloseParses
  <2>3. Len(log) <= m
    BY <1>1, <1>7
  <2>4. Broken(p)'
    BY <1>4, <1>9 DEF Broken
  <2>5. Parses(p, m)'
    <3>1. /\ Len(rx'[p]) <= m /\ m <= Len(AskedIn(stream'[p]))
          /\ Parsing(ses'[p], stream'[p], m, rcvd'[p], Dry(p)')
      BY <1>1, <1>3, <1>9, <2>2, <2>3
    <3>. QED
      BY <1>7, <2>4, <3>1 DEF Parses
  <2>. QED
    BY <1>9, <2>5
<1>10. CASE /\ ~Broken(p) /\ upto \in Nat /\ from < upto /\ upto <= Len(r.body) + 1
            /\ new = Extend(log, r, from, upto) /\ t.name = s.name
            /\ \/ /\ t.at = "reply" /\ t.out = s.out /\ t.next = s.next
                  /\ t.out_sent = upto
               \/ t.at = s.next
  <2>1. Len(new) = m /\ InTurn(new, asked)
    <3>1. m = IF from = 0 THEN Len(log) + 1 ELSE Len(log)
      BY <1>1, <1>10
    <3> HIDE DEF s, r, from, log, new, asked, upto
    <3>. QED
      BY <1>1, <1>2, <1>3, <1>10, <3>1, PartAnswers DEF asked, log
  <2>2. Parsing(t, units, m, got, Dry(p)')
    <3>1. CASE /\ t.at = "reply" /\ t.out = s.out /\ t.next = s.next
               /\ t.out_sent = upto
      <4>1. t.out_sent # 0
        <5> HIDE DEF from, upto, r
        <5>. QED
          BY <1>2, <1>10, <3>1
      <4>2. (IF t.out_sent = 0 THEN m + 1 ELSE m) = m
        BY <4>1
      <4> HIDE DEF units, got
      <4>3. /\ t.at = "reply" /\ 0 < m /\ m <= Len(AskedIn(units))
            /\ AskedIn(units)[m].cmd = t.out[1].cmd
            /\ t.next # "close" => Goes(units, m, got + 1, Dry(p)')
            /\ t.next = "get_read" => AskedIn(units)[m].name = t.name
        BY <1>3, <1>5, <1>10, <3>1
      <4> HIDE DEF t
      <4>. QED
        BY <4>2, <4>3, Zenon DEF Parsing
    <3>2. CASE t.at = s.next
      BY <1>3, <1>5, <1>6, <1>10, <3>2, ReadingParses, CloseParses
    <3>. QED
      BY <1>10, <3>1, <3>2
  <2>3. Parses(p, m)'
    <3>1. /\ Len(rx'[p]) = m /\ m <= Len(AskedIn(stream'[p]))
          /\ Parsing(ses'[p], stream'[p], m, rcvd'[p], Dry(p)')
      BY <1>1, <1>3, <2>1, <2>2
    <3>2. Len(rx'[p]) <= m
      BY <1>7, <3>1
    <3>. QED
      BY <1>7, <3>1, <3>2 DEF Parses
  <2>. QED
    BY <2>1, <2>3
<1>. QED
  BY <1>8, <1>9, <1>10, SendReplyDoes
(* Every call keeps a session in step with its stream.                     *)
LEMMA CallParses ==
    ASSUME TypeInv, NEW p \in Peers, Handling(p), Parsed(p), p \in serving
    PROVE  Parsed(p)'
<1> DEFINE units == stream[p]
           asked == AskedIn(units)
<1>1. Serves(p) /\ stream' = stream /\ (Broken(p) => Broken(p)')
  BY HandlingServes, DryStays DEF Serves, WireStep
<1>2. WholeRequests(units) /\ InTurn(rx[p], asked)
  BY DEF Parsed
<1>3. PICK n : Parses(p, n)
  BY DEF Parsed
<1>4. /\ Progress(p, n)
      /\ Len(rx[p]) <= n /\ n <= Len(asked)
      /\ n = Len(rx[p]) \/ Broken(p)
  BY <1>2, <1>3 DEF Parses, Progress
<1>5. ASSUME Parsing(ses'[p], units, n, rcvd'[p], Dry(p)'),
             Len(rx'[p]) = Len(rx[p]), InTurn(rx'[p], asked)
      PROVE  Parsed(p)'
  <2>1. Parses(p, n)'
    BY <1>1, <1>3, <1>4, <1>5 DEF Parses
  <2>. QED
    BY <1>1, <1>2, <1>5, <2>1 DEF Parsed
<1>6. CASE SendReply(p)
  <2>1. (\E m : Parses(p, m)') /\ InTurn(rx'[p], asked)
    BY <1>2, <1>3, <1>6, SendReplyParses
  <2>. QED
    BY <1>1, <1>2, <2>1 DEF Parsed
<1>7. CASE GetSend(p)
  BY <1>2, <1>4, <1>5, <1>7, GetSendParses
<1>8. CASE GetRead(p)
  <2>1. rx' = rx
    BY <1>8 DEF GetRead, wireVars
  <2>. QED
    BY <1>2, <1>4, <1>5, <1>8, <2>1, GetReadParses
<1>9. CASE \/ RecvHeader(p) \/ Drain(p) \/ RecvName(p)
           \/ RecvPutHeader(p) \/ RecvPutData(p) \/ DrainPut(p)
  <2>1. rx' = rx
    BY <1>9, RecvHeaderDoes, DrainDoes, RecvNameDoes, RecvPutHeaderDoes, RecvPutDataDoes,
       DrainPutDoes
  <2>2. Parsing(ses'[p], units, n, rcvd'[p], Dry(p)')
    BY <1>4, <1>9, RecvHeaderParses, DrainParses, RecvNameParses, RecvPutHeaderParses,
       RecvPutDataParses, DrainPutParses
  <2>. QED
    BY <1>2, <1>5, <2>1, <2>2
<1>. QED
  BY <1>6, <1>7, <1>8, <1>9 DEF Handling

(* The other sessions do not notice; what a peer does does not move its    *)
(* session.                                                                *)
LEMMA OthersParsed ==
    ASSUME NEW p \in Peers, Parsed(p),
           stream'[p] = stream[p], rx'[p] = rx[p], rcvd'[p] = rcvd[p],
           p \in serving' => p \in serving /\ ses'[p] = ses[p],
           Broken(p) => Broken(p)', Dry(p) => Dry(p)'
    PROVE  Parsed(p)'
<1>1. ASSUME p \in serving'
      PROVE  (\E n : Parses(p, n))'
  <2>1. PICK n : Parses(p, n)
    BY <1>1 DEF Parsed
  <2>2. Parsing(ses[p], stream[p], n, rcvd[p], Dry(p)')
    BY <2>1 DEF Parses, Parsing, Goes
  <2>3. Parses(p, n)'
    BY <1>1, <2>1, <2>2 DEF Parses
  <2>. QED
    BY <2>3
<1>2. WholeRequests(stream'[p]) /\ InTurn(rx'[p], AskedIn(stream'[p]))
  BY DEF Parsed
<1>. QED
  BY <1>1, <1>2 DEF Parsed

(* A session begins at the first unit, and owes everything.                *)
LEMMA BeginParses ==
    ASSUME NEW p \in Peers, NEW units, NEW t, NEW dry,
           units \in Seq(Unit), WholeRequests(units), t.at = "header"
    PROVE  Parsing(t, units, 0, 0, dry) /\ 0 <= Len(AskedIn(units))
<1>1. Marks(units, MarksOf(units))
  BY MarksExist
<1>2. Owes(units, 0, 1, NULL)
  BY <1>1, OwesAll DEF Owes, Marks
<1> DEFINE got == 0
<1>3. got + 1 = 1
  OBVIOUS
<1> HIDE DEF got
<1>4. Goes(units, 0, got + 1, dry)
  BY <1>2, <1>3 DEF Goes
<1>5. Parsing(t, units, 0, got, dry)
  BY <1>4 DEF Parsing
<1>6. Len(AskedIn(units)) \in Nat
  BY RequestsType, LenProperties DEF AskedIn
<1>. QED
  BY <1>5, <1>6 DEF got
LEMMA StepParsed ==
    ASSUME TypeInv, \A p \in Peers : Parsed(p), [Next]_vars
    PROVE  \A p \in Peers : Parsed(p)'
<1>1. ASSUME NEW p \in Peers, Handling(p)
      PROVE  \A q \in Peers : Parsed(q)'
  <2>1. Serves(p) /\ p \in serving
    BY <1>1, HandlingServes
  <2>2. Parsed(p)'
    BY <1>1, <2>1, CallParses
  <2>3. ASSUME NEW q \in Peers \ {p}
        PROVE  Parsed(q)'
    <3>1. /\ stream' = stream /\ sent' = sent /\ rx'[q] = rx[q] /\ rcvd'[q] = rcvd[q]
          /\ serving' = serving /\ ses'[q] = ses[q] /\ sock'[q] = sock[q]
      BY <2>1 DEF Serves, WireStep, TypeInv, TypeOK, WireTypeOK
    <3>2. (Broken(q) => Broken(q)') /\ (Dry(q) => Dry(q)')
      BY <3>1 DEF Broken, Dry, Ended
    <3>. QED
      BY <3>1, <3>2, OthersParsed
  <2>. QED
    BY <2>2, <2>3
<1>2. ASSUME NEW q \in Peers, Elsewhere, q \in serving' => q \in serving /\ ses'[q] = ses[q]
      PROVE  Parsed(q)'
  <2>1. (Broken(q) => Broken(q)') /\ (Dry(q) => Dry(q)')
    BY <1>2 DEF Elsewhere, Dry
  <2>. QED
    BY <1>2, <2>1, OthersParsed DEF Elsewhere
<1>3. ASSUME NEW q \in Peers, UNCHANGED <<sock, stream, sent, rcvd, rx>>,
             q \in serving' => q \in serving /\ ses'[q] = ses[q]
      PROVE  Parsed(q)'
  <2>1. (Broken(q) => Broken(q)') /\ (Dry(q) => Dry(q)')
    BY <1>3 DEF Broken, Dry, Ended
  <2>. QED
    BY <1>3, <2>1, OthersParsed
<1>4. CASE Accept
  BY <1>2, <1>4, AcceptStep
<1>5. CASE Begin
  <2>1. PICK p \in Peers :
             /\ p \notin serving /\ serving' = serving \cup {p}
             /\ rx[p] = <<>> /\ rcvd[p] = 0 /\ ses'[p].at = "header"
             /\ \A q \in Peers \ {p} : ses'[q] = ses[q]
    BY <1>5, BeginStep
  <2>2. Elsewhere
    BY <1>5, BeginStep
  <2>3. \A q \in Peers \ {p} : Parsed(q)'
    BY <1>2, <2>1, <2>2
  <2>4. Parsed(p)'
    <3>1. WholeRequests(stream[p]) /\ InTurn(rx[p], AskedIn(stream[p]))
      BY DEF Parsed
    <3>2. /\ Parsing(ses'[p], stream[p], 0, 0, Dry(p)')
          /\ 0 <= Len(AskedIn(stream[p]))
      BY <2>1, <3>1, WireFacts, BeginParses
    <3>3. stream' = stream /\ rx'[p] = <<>> /\ rcvd'[p] = 0 /\ rx' = rx
      BY <2>1, <2>2 DEF Elsewhere
    <3>4. Len(rx'[p]) = 0 /\ 0 <= 0
      BY <3>3
    <3>5. Parses(p, 0)'
      BY <3>2, <3>3, <3>4 DEF Parses
    <3>. QED
      BY <3>1, <3>3, <3>5 DEF Parsed
  <2>. QED
    BY <2>3, <2>4
<1>6. CASE \E p \in Peers : Peer(p)
  BY <1>2, <1>6, PeerSteps
<1>7. ASSUME NEW p \in Peers, Close(p)
      PROVE  \A q \in Peers : Parsed(q)'
  <2>1. /\ UNCHANGED <<sock, stream, sent, rcvd, rx>> /\ serving' = serving \ {p}
        /\ \A q \in Peers \ {p} : ses'[q] = ses[q]
    BY <1>7, CloseStep DEF wireVars
  <2>. QED
    BY <1>3, <2>1
<1>8. CASE \E p \in Peers : KilledBySigpipe(p)
  BY <1>3, <1>8, KilledStep
<1>9. CASE UNCHANGED vars
  BY <1>3, <1>9 DEF vars, wireVars, serverVars
<1>. QED
  BY <1>1, <1>4, <1>5, <1>6, <1>7, <1>8, <1>9, NextCases

LEMMA InitParsed ==
    ASSUME Init, \A p \in Peers : \A s \in Streams[p] : WholeRequests(s)
    PROVE  \A p \in Peers : Parsed(p)
<1>1. /\ serving = {} /\ \A p \in Peers : rx[p] = <<>> /\ stream[p] \in Streams[p]
  BY DEF Init, WireInit
<1>2. ASSUME NEW p \in Peers
      PROVE  Parsed(p)
  <2>1. stream[p] \in Seq(Unit) /\ WholeRequests(stream[p])
    BY <1>1, StreamsAssumption
  <2>2. Len(AskedIn(stream[p])) \in Nat
    BY <2>1, RequestsType DEF AskedIn
  <2>3. Len(rx[p]) = 0
    BY <1>1
  <2>4. InTurn(rx[p], AskedIn(stream[p]))
    BY <2>2, <2>3 DEF InTurn
  <2>. QED
    BY <1>1, <2>1, <2>4 DEF Parsed
<1>. QED
  BY <1>2

-----------------------------------------------------------------------------
(* What an upload puts in its file.                                        *)

LEMMA AskedAre ==
    ASSUME TypeInv, NEW p \in Peers
    PROVE  /\ Asked[p] = AskedIn(stream[p]) /\ Asked[p] \in Seq(Request)
           /\ DOMAIN Asked[p] = 1 .. Len(Asked[p]) /\ Len(Asked[p]) \in Nat
<1>1. stream[p] \in Seq(Unit)
  BY WireFacts
<1>2. Asked[p] = AskedIn(stream[p])
  BY DEF Asked, AskedIn
<1>3. AskedIn(stream[p]) \in Seq(Request)
  BY <1>1, RequestsType DEF AskedIn
<1>. QED
  BY <1>2, <1>3, LenProperties

LEMMA UploadsAre ==
    ASSUME TypeInv, NEW name, NEW p, NEW i
    PROVE  <<p, i>> \in Uploads(Asked, name) <=>
               /\ p \in Peers /\ i \in 1 .. Len(Asked[p])
               /\ Asked[p][i].cmd = "PUT" /\ Asked[p][i].name = name
BY UploadsHave, AskedAre

(* The upload that p is at, when it has answered n requests.               *)
LEMMA UploadingAt ==
    ASSUME NEW p, NEW n, Progress(p, n), NEW name,
           n + 1 <= Len(AskedIn(stream[p])),
           AskedIn(stream[p])[n + 1].cmd = "PUT", AskedIn(stream[p])[n + 1].name = name
    PROVE  <<p, n + 1>> \in Uploads(Asked, name)
<1>1. TypeInv /\ p \in Peers /\ n \in Nat
  BY DEF Progress
<1>2. Asked[p] = AskedIn(stream[p]) /\ Len(Asked[p]) \in Nat
  BY <1>1, AskedAre
<1>3. n + 1 \in 1 .. Len(Asked[p])
  BY <1>1, <1>2
<1> DEFINE j == n + 1
<1> HIDE DEF j
<1>4. <<p, j>> \in Uploads(Asked, name)
  BY <1>1, <1>2, <1>3, UploadsAre DEF j
<1>. QED
  BY <1>4 DEF j

(* O_TRUNC.                                                                *)
LEMMA TruncatesOwn ==
    ASSUME NEW p, NEW n, Progress(p, n), RecvPutHeader(p)
    PROVE  LET s == ses[p] IN
           \/ files' = files /\ ses'[p].at # "put_data"
           \/ /\ files' = [files EXCEPT ![s.name] = Truncated]
              /\ s.name \in SafeNames
              /\ ses'[p].at = "put_data" /\ ses'[p].off = 0 /\ ses'[p].name = s.name
              /\ <<p, n + 1>> \in Uploads(Asked, s.name)
<1> DEFINE s == ses[p]
           t == ses'[p]
           units == stream[p]
           i == rcvd[p] + 1
           h == Heading(p)
<1>1. /\ TypeInv /\ p \in Peers /\ n \in Nat /\ WholeRequests(units)
      /\ units \in Seq(Unit) /\ s.at = "put_header" /\ s.name \in SafeNames
  BY RecvPutHeaderDoes, WireFacts DEF Progress
<1>2. CASE files' = files /\ t.at # "put_data"
  BY <1>2
<1>3. CASE /\ RecvAll(p, HdrLen) /\ h.cmd = "PUT"
           /\ files' = [files EXCEPT ![s.name] = Truncated]
           /\ t.at = "put_data" /\ t.off = 0 /\ t.name = s.name
  <2>1. Owes(units, n, i, s.name)
    BY <1>1 DEF Progress, Parsing
  <2>2. h = units[i].head
    BY <1>1, <1>3, HeaderArrives
  <2>3. /\ n + 1 <= Len(AskedIn(units))
        /\ AskedIn(units)[n + 1].cmd = "PUT" /\ AskedIn(units)[n + 1].name = s.name
    BY <1>1, <1>3, <2>1, <2>2, PutAsks
  <2>4. <<p, n + 1>> \in Uploads(Asked, s.name)
    BY <2>3, UploadingAt
  <2>. QED
    BY <1>1, <1>3, <2>4
<1>4. \/ files' = files /\ t.at # "put_data"
      \/ /\ RecvAll(p, HdrLen) /\ h.cmd = "PUT"
         /\ files' = [files EXCEPT ![s.name] = Truncated]
         /\ t.at = "put_data" /\ t.off = 0 /\ t.name = s.name
  BY <1>1, RecvPutHeaderDoes DEF Answering
<1>. QED
  BY <1>2, <1>3, <1>4

(* What a PUT under way has to store.                                      *)
LEMMA UploadBytes ==
    ASSUME NEW p, NEW n, Progress(p, n), ses[p].at = "put_data"
    PROVE  LET s == ses[p]
               bytes == Asked[p][n + 1].bytes
           IN  /\ <<p, n + 1>> \in Uploads(Asked, s.name) /\ s.name \in SafeNames
               /\ Asked[p][n + 1].name = s.name
               /\ s.off \in Nat /\ s.left \in Nat
               /\ bytes \in Seq(Byte) /\ Len(bytes) = s.off + s.left
               /\ rcvd[p] + s.left <= Len(stream[p])
               /\ s.left > 0 => bytes[s.off + 1] = stream[p][rcvd[p] + 1].byte
<1> DEFINE s == ses[p]
           units == stream[p]
           got == rcvd[p]
           off == s.off
           left == s.left
           i == got + 1 - HdrLen - off
           bytes == Asked[p][n + 1].bytes
           payload == Payload(units, i)
           next == After(units, i)
           size == Len(units)
<1>1. /\ TypeInv /\ p \in Peers /\ units \in Seq(Unit) /\ size \in Nat
      /\ got \in Nat /\ HdrLen \in Nat
  BY WireFacts, WireAssumption DEF Progress
<1>2. /\ HasMessage(units, n, i, s.name, "PUT", off + left) /\ s.name \in SafeNames
      /\ i \in Nat /\ off \in Nat /\ left \in Nat /\ WholeAt(units, i)
      /\ n + 1 <= Len(AskedIn(units)) /\ AskedIn(units)[n + 1].cmd = "PUT"
      /\ AskedIn(units)[n + 1].name = s.name
      /\ AskedIn(units)[n + 1].bytes = Bytes(Payload(units, i))
  BY PutDataAt
<1>3. <<p, n + 1>> \in Uploads(Asked, s.name)
  BY <1>2, UploadingAt
<1>4. bytes = Bytes(payload) /\ Asked[p][n + 1].name = s.name
  BY <1>1, <1>2, AskedAre
<1>5. /\ next = i + HdrLen + (off + left) /\ next <= size + 1
      /\ payload = SubSeq(units, i + HdrLen, next - 1)
      /\ i > 0
  <2>1. units[i].head.length = off + left /\ i \in 1 .. size + 1
    BY <1>2 DEF HasMessage, Owes, OwesFrom
  <2>2. next = i + HdrLen + (off + left)
    BY <2>1 DEF After
  <2>3. next <= size + 1
    BY <1>2 DEF WholeAt
  <2>4. i > 0
    <3> HIDE DEF i
    <3>. QED
      BY <1>1, <2>1
  <2>. QED
    BY <2>2, <2>3, <2>4 DEF Payload
<1>6. i = got + 1 - HdrLen - off
  BY <1>1
<1> HIDE DEF s, units, got, off, left, i, bytes, payload, next, size
<1> DEFINE first == i + HdrLen
           last == next - 1
           len == off + left
<1>7. /\ first \in Nat /\ first > 0 /\ last \in Nat /\ last <= size
      /\ last - first + 1 = len /\ len \in Nat /\ got + left <= size
      /\ left > 0 => off + 1 \in 1 .. len /\ first + (off + 1) - 1 = got + 1
  BY <1>1, <1>2, <1>5, <1>6
<1> HIDE DEF first, last, len
<1>8. /\ payload \in Seq(Unit) /\ Len(payload) = len
      /\ \A k \in 1 .. len : payload[k] = units[first + k - 1]
  <2>1. \A k \in first .. last : k \in 1 .. Len(units)
    BY <1>1, <1>7 DEF size
  <2>2. \A k \in first .. last : units[k] \in Unit
    BY <1>1, <2>1, ElementOfSeq
  <2>3. payload = SubSeq(units, first, last) /\ first \in Int /\ last \in Int
    BY <1>5, <1>7 DEF first, last
  <2>4. /\ payload \in Seq(Unit)
        /\ Len(payload) = IF first <= last THEN last - first + 1 ELSE 0
        /\ \A k \in 1 .. last - first + 1 : payload[k] = units[first + k - 1]
    BY <2>2, <2>3, SubSeqProperties
  <2>5. (IF first <= last THEN last - first + 1 ELSE 0) = len
    BY <1>7
  <2>. QED
    BY <1>7, <2>4, <2>5
<1>9. /\ bytes \in Seq(Byte) /\ Len(bytes) = len
      /\ \A k \in 1 .. len : bytes[k] = payload[k].byte
  BY <1>4, <1>8, BytesType
<1>10. left > 0 => bytes[off + 1] = units[got + 1].byte
  BY <1>7, <1>8, <1>9
<1>. QED
  BY <1>2, <1>3, <1>4, <1>7, <1>9, <1>10 DEF s, bytes, len, off, left, units, got, size

(* The block that arrives is the one the file has to have next.            *)
LEMMA BlockArrives ==
    ASSUME NEW p, NEW n, Progress(p, n), ses[p].at = "put_data",
           ses[p].left > 0, RecvAll(p, 1)
    PROVE  LET new == Bytes(Incoming(p, 1))
           IN  /\ new \in Seq(Byte) /\ Len(new) = 1
               /\ new[1] = Asked[p][n + 1].bytes[ses[p].off + 1]
<1> DEFINE units == stream[p]
           got == rcvd[p]
           left == ses[p].left
           new == Bytes(Incoming(p, 1))
           one == Incoming(p, 1)
           at == got + 1
<1>1. /\ TypeInv /\ p \in Peers /\ units \in Seq(Unit) /\ Len(units) \in Nat
      /\ got \in Nat /\ left \in Nat /\ left > 0 /\ got + left <= Len(units)
      /\ Asked[p][n + 1].bytes[ses[p].off + 1] = units[at].byte
  BY WireFacts, UploadBytes DEF Progress
<1>2. one \in Seq(Unit) /\ Len(one) = 1 /\ one = SubSeq(units, at, at)
  BY <1>1, IncomingType DEF Incoming
<1> HIDE DEF got, left, units
<1>3. at \in 1 .. Len(units) /\ at \in Int
  BY <1>1
<1>4. new = Bytes(one)
  OBVIOUS
<1> HIDE DEF one, at, new
<1>5. \A k \in at .. at : units[k] \in Unit
  <2>1. units[at] \in Unit
    BY <1>1, <1>3, ElementOfSeq
  <2>. QED
    BY <1>3, <2>1
<1>6. 1 \in 1 .. at - at + 1 /\ at + 1 - 1 = at
  BY <1>3
<1>7. one[1] = units[at + 1 - 1]
  BY <1>2, <1>3, <1>5, <1>6, SubSeqProperties
<1>8. 1 \in 1 .. Len(one)
  BY <1>2
<1>9. /\ Bytes(one) \in Seq(Byte) /\ Len(Bytes(one)) = Len(one)
      /\ Bytes(one)[1] = one[1].byte
  BY <1>2, <1>8, BytesType
<1>10. units[at + 1 - 1] = units[at]
  BY <1>6
<1>. QED
  BY <1>1, <1>2, <1>4, <1>7, <1>9, <1>10 DEF new

(* One block is written.                                                   *)
Writes(old, now, off, block) ==
    /\ now \in Seq(Byte) /\ Len(now) = MaxOf(Len(old), off + 1)
    /\ \A k \in 1 .. Len(now) :
          now[k] = IF k = off + 1 THEN block ELSE IF k <= Len(old) THEN old[k] ELSE NULL

LEMMA OneWritten ==
    ASSUME NEW old \in Seq(Byte), NEW off \in Nat, NEW new \in Seq(Byte), Len(new) = 1
    PROVE  Writes(old, WriteAt(old, off, new), off, new[1])
<1> DEFINE now == WriteAt(old, off, new)
<1>1. /\ now \in Seq(Byte) /\ Len(now) = MaxOf(Len(old), off + 1)
      /\ \A k \in 1 .. Len(now) :
            now[k] = IF k \in off + 1 .. off + 1 THEN new[k - off]
                     ELSE IF k <= Len(old) THEN old[k] ELSE NULL
  <2> DEFINE len == Len(new)
  <2>1. /\ now \in Seq(Byte) /\ Len(now) = MaxOf(Len(old), off + len)
        /\ \A k \in 1 .. MaxOf(Len(old), off + len) :
              now[k] = IF k \in off + 1 .. off + len THEN new[k - off]
                       ELSE IF k <= Len(old) THEN old[k] ELSE NULL
    BY WriteAtProperties
  <2> HIDE DEF now
  <2>. QED
    BY <2>1
<1>2. Len(now) \in Nat
  BY <1>1, LenProperties
<1> HIDE DEF now
<1>3. ASSUME NEW k \in 1 .. Len(now)
      PROVE  now[k] = IF k = off + 1 THEN new[1] ELSE IF k <= Len(old) THEN old[k] ELSE NULL
  <2>1. CASE k = off + 1
    <3>1. k \in off + 1 .. off + 1 /\ k - off = 1
      BY <2>1
    <3>. QED
      BY <1>1, <2>1, <3>1
  <2>2. CASE k # off + 1
    <3>1. k \notin off + 1 .. off + 1
      BY <1>2, <2>2
    <3>. QED
      BY <1>1, <2>2, <3>1
  <2>. QED
    BY <2>1, <2>2
<1>. QED
  BY <1>1, <1>3 DEF Writes, now

(* A step that changes the directory begins or goes on with the upload     *)
(* that p is at.                                                           *)
Overwrites(p, n) ==
    LET s == ses[p]
        t == ses'[p]
        bytes == Asked[p][n + 1].bytes
    IN  /\ s.name \in SafeNames /\ <<p, n + 1>> \in Uploads(Asked, s.name)
        /\ \A name \in SafeNames \ {s.name} : files'[name] = files[name]
        /\ t.at = "put_data" /\ t.name = s.name
        /\ \/ t.off = 0 /\ files'[s.name] = Truncated
           \/ /\ s.at = "put_data" /\ t.off = s.off + 1
              /\ bytes \in Seq(Byte) /\ s.off + 1 \in 1 .. Len(bytes)
              /\ files'[s.name].kind = files[s.name].kind
              /\ Writes(files[s.name].data, files'[s.name].data, s.off, bytes[s.off + 1])

LEMMA StoresOwn ==
    ASSUME NEW p, NEW n, Progress(p, n), RecvPutData(p)
    PROVE  \/ files' = files /\ ses'[p].at # "put_data"
           \/ Overwrites(p, n)
<1> DEFINE s == ses[p]
           t == ses'[p]
           bytes == Asked[p][n + 1].bytes
           new == Bytes(Incoming(p, 1))
           old == files[s.name].data
           now == WriteAt(old, s.off, new)
<1>1. /\ TypeInv /\ p \in Peers /\ s.at = "put_data" /\ s.name \in SafeNames
      /\ s.left \in Nat /\ s.off \in Nat
      /\ \/ files' = files /\ t.at # "put_data"
         \/ /\ s.left > 0 /\ RecvAll(p, 1) /\ files' = Stored(s.name, s.off, new)
            /\ t.at = "put_data" /\ t.name = s.name /\ t.off = s.off + 1
  BY RecvPutDataDoes DEF Progress, Answering, wireVars
<1>2. CASE /\ s.left > 0 /\ RecvAll(p, 1) /\ files' = Stored(s.name, s.off, new)
           /\ t.at = "put_data" /\ t.name = s.name /\ t.off = s.off + 1
  <2>1. /\ <<p, n + 1>> \in Uploads(Asked, s.name)
        /\ bytes \in Seq(Byte) /\ Len(bytes) = s.off + s.left
        /\ new \in Seq(Byte) /\ Len(new) = 1 /\ new[1] = bytes[s.off + 1]
    BY <1>1, <1>2, BlockArrives, UploadBytes
  <2>2. files \in [SafeNames -> File] /\ files[s.name] \in File
    BY <1>1 DEF TypeInv, TypeOK, WireTypeOK
  <2>3. old \in Seq(Byte)
    BY <2>2 DEF File
  <2>4. Writes(old, now, s.off, bytes[s.off + 1])
    <3> HIDE DEF new, old, bytes, s
    <3>. QED
      BY <1>1, <2>1, <2>3, OneWritten
  <2>5. new # <<>>
    BY <2>1
  <2>6. files' = [files EXCEPT ![s.name].data = now]
    <3> HIDE DEF new
    <3>. QED
      BY <1>2, <2>5 DEF Stored
  <2>7. /\ files'[s.name].data = now /\ files'[s.name].kind = files[s.name].kind
        /\ \A name \in SafeNames \ {s.name} : files'[name] = files[name]
    <3> HIDE DEF now, s
    <3>. QED
      BY <1>1, <2>2, <2>6 DEF File
  <2>8. s.off + 1 \in 1 .. Len(bytes)
    <3> HIDE DEF bytes, s
    <3>. QED
      BY <1>1, <1>2, <2>1
  <2>. QED
    BY <1>1, <1>2, <2>1, <2>4, <2>7, <2>8 DEF Overwrites
<1>. QED
  BY <1>1, <1>2

LEMMA FilesChange ==
    ASSUME NEW p, NEW n, Progress(p, n), Handling(p)
    PROVE  \/ files' = files /\ ses'[p].at # "put_data"
           \/ Overwrites(p, n)
<1> DEFINE s == ses[p]
           t == ses'[p]
<1>1. TypeInv /\ p \in Peers
  BY DEF Progress
<1>2. CASE RecvPutData(p)
  BY <1>2, StoresOwn
<1>3. CASE RecvPutHeader(p)
  <2>1. CASE /\ files' = [files EXCEPT ![s.name] = Truncated]
             /\ s.name \in SafeNames
             /\ t.at = "put_data" /\ t.off = 0 /\ t.name = s.name
             /\ <<p, n + 1>> \in Uploads(Asked, s.name)
    <3>1. files \in [SafeNames -> File]
      BY <1>1 DEF TypeInv, TypeOK, WireTypeOK
    <3>2. /\ files'[s.name] = Truncated
          /\ \A name \in SafeNames \ {s.name} : files'[name] = files[name]
      BY <2>1, <3>1
    <3>. QED
      BY <2>1, <3>2 DEF Overwrites
  <2>. QED
    BY <1>3, <2>1, TruncatesOwn
<1>4. CASE SendReply(p)
  <2>1. /\ s.next \in {"header", "close", "get_read"} /\ files' = files
        /\ t.at \in {"reply", "close"} \/ t.at = s.next
    BY <1>1, <1>4, SendReplyDoes, WireFacts DEF LocalsFit
  <2>. QED
    BY <2>1
<1>5. CASE GetRead(p) \/ GetSend(p)
  BY <1>1, <1>5, GetReadDoes, GetSendDoes DEF wireVars
<1>6. CASE RecvHeader(p) \/ Drain(p)
  BY <1>1, <1>6, RecvHeaderDoes, DrainDoes DEF Answering
<1>7. CASE RecvName(p) \/ DrainPut(p)
  BY <1>1, <1>7, RecvNameDoes, DrainPutDoes DEF Answering
<1>. QED
  BY <1>2, <1>3, <1>4, <1>5, <1>6, <1>7 DEF Handling

(* The steps of nobody's session but Begin.                                *)
LEMMA OtherSteps ==
    ASSUME TypeInv, [Next]_vars, \A p \in Peers : ~Handling(p)
    PROVE  /\ stream' = stream /\ rx' = rx /\ files' = files
           /\ \A q \in Peers : Broken(q) => Broken(q)'
           /\ \A q \in serving' : \/ q \in serving /\ ses'[q] = ses[q]
                                  \/ ses'[q].at = "header"
<1>1. CASE Accept
  BY <1>1, AcceptStep DEF Elsewhere
<1>2. CASE Begin
  <2>1. PICK p \in Peers :
             /\ serving' = serving \cup {p} /\ ses'[p].at = "header"
             /\ \A q \in Peers \ {p} : ses'[q] = ses[q]
    BY <1>2, BeginStep
  <2>2. Elsewhere /\ serving \subseteq Peers
    BY <1>2, BeginStep DEF TypeInv, TypeOK
  <2>. QED
    BY <2>1, <2>2 DEF Elsewhere
<1>3. CASE \E p \in Peers : Peer(p)
  BY <1>3, PeerSteps DEF Elsewhere
<1>4. ASSUME NEW p \in Peers, Close(p)
      PROVE  /\ stream' = stream /\ rx' = rx /\ files' = files
             /\ \A q \in Peers : Broken(q) => Broken(q)'
             /\ \A q \in serving' : q \in serving /\ ses'[q] = ses[q]
  <2>1. serving \subseteq Peers
    BY DEF TypeInv, TypeOK
  <2>. QED
    BY <1>4, <2>1, CloseStep DEF wireVars, Broken
<1>5. CASE \E p \in Peers : KilledBySigpipe(p)
  BY <1>5, KilledStep DEF Broken
<1>6. CASE UNCHANGED vars
  BY <1>6 DEF vars, wireVars, serverVars, Broken
<1>. QED
  BY <1>1, <1>2, <1>3, <1>4, <1>5, <1>6, NextCases

LEMMA UnspoiledIs ==
    /\ FilesUnspoiled <=> AllInPlace(Asked, files)
    /\ FilesUnspoiled' <=> AllInPlace(Asked', files')
BY DEF FilesUnspoiled, BlocksInPlace, InPlace, AllInPlace

LEMMA SameAsked ==
    ASSUME stream' = stream
    PROVE  Asked' = Asked
BY DEF Asked

LEMMA StepUnspoiled ==
    ASSUME TypeInv, \A p \in Peers : Parsed(p), FilesUnspoiled, [Next]_vars
    PROVE  FilesUnspoiled'
<1>1. ASSUME NEW p \in Peers, Handling(p)
      PROVE  FilesUnspoiled'
  <2> DEFINE s == ses[p]
             old == files[s.name].data
             now == files'[s.name].data
  <2>1. stream' = stream /\ p \in serving
    BY <1>1, HandlingServes DEF Serves, WireStep
  <2>2. PICK n : Progress(p, n)
    BY <2>1 DEF Parsed, Parses, Progress
  <2>3. ASSUME Overwrites(p, n), NEW k \in DOMAIN now
        PROVE  InPlace(Asked, s.name, k, now[k])
    <3> DEFINE bytes == Asked[p][n + 1].bytes
    <3>1. s.name \in SafeNames /\ <<p, n + 1>> \in Uploads(Asked, s.name)
      BY <2>3 DEF Overwrites
    <3>2. files'[s.name] # Truncated
      BY <2>3 DEF Truncated
    <3>3. /\ bytes \in Seq(Byte) /\ s.off + 1 \in 1 .. Len(bytes)
          /\ Writes(old, now, s.off, bytes[s.off + 1])
      BY <2>3, <3>2 DEF Overwrites
    <3>4. /\ k \in 1 .. Len(now)
          /\ now[k] = IF k = s.off + 1 THEN bytes[k] ELSE IF k <= Len(old) THEN old[k] ELSE NULL
      BY <3>3, LenProperties DEF Writes
    <3>5. CASE k = s.off + 1
      <4> DEFINE u == <<p, n + 1>>
      <4>1. u \in Uploads(Asked, s.name) /\ Asked[u[1]][u[2]].bytes = bytes
        BY <3>1
      <4>2. k \in DOMAIN bytes /\ bytes[k] = now[k]
        BY <3>3, <3>4, <3>5, LenProperties
      <4> HIDE DEF u, bytes
      <4>. QED
        BY <4>1, <4>2 DEF InPlace
    <3>6. CASE k # s.off + 1 /\ k <= Len(old)
      <4>1. k \in DOMAIN old
        <5>1. old \in Seq(Byte)
          BY <3>1 DEF TypeInv, TypeOK, WireTypeOK, File
        <5>. QED
          BY <3>3, <3>4, <3>6, <5>1, LenProperties DEF Writes
      <4>. QED
        BY <3>1, <3>4, <3>6, <4>1, UnspoiledIs DEF AllInPlace
    <3>7. CASE k # s.off + 1 /\ ~(k <= Len(old))
      BY <3>4, <3>7 DEF InPlace
    <3>. QED
      BY <3>5, <3>6, <3>7
  <2>4. ASSUME NEW name \in SafeNames, NEW k \in DOMAIN files'[name].data
        PROVE  InPlace(Asked, name, k, files'[name].data[k])
    <3>1. CASE files'[name] = files[name]
      BY <3>1, UnspoiledIs DEF AllInPlace
    <3>2. CASE files'[name] # files[name]
      <4>1. Overwrites(p, n) /\ name = s.name
        BY <1>1, <2>2, <3>2, FilesChange DEF Overwrites
      <4>. QED
        BY <2>3, <4>1
    <3>. QED
      BY <3>1, <3>2
  <2>. QED
    BY <2>1, <2>4, SameAsked, UnspoiledIs DEF AllInPlace
<1>2. ASSUME \A p \in Peers : ~Handling(p)
      PROVE  FilesUnspoiled'
  <2>1. stream' = stream /\ files' = files
    BY <1>2, OtherSteps
  <2>. QED
    BY <2>1, SameAsked, UnspoiledIs DEF AllInPlace
<1>. QED
  BY <1>1, <1>2

-----------------------------------------------------------------------------
(* What the directory holds of the uploads that were acknowledged and of   *)
(* the one under way, as long as nobody else writes their name.            *)

LEMMA UntouchedFile ==
    ASSUME NEW p, NEW n, Progress(p, n), Handling(p), NEW name \in SafeNames,
           <<p, n + 1>> \notin Uploads(Asked, name)
    PROVE  files'[name] = files[name]
BY FilesChange DEF Overwrites

(* What a call changes in the replies that were begun before it, and what  *)
(* reply it begins.                                                        *)
LEMMA LogStep ==
    ASSUME TypeInv, NEW p \in Peers, Handling(p)
    PROVE  /\ \A q \in Peers \ {p} : rx'[q] = rx[q]
           /\ Len(rx'[p]) \in Nat
           /\ \A i \in 1 .. Len(rx[p]) :
                 i \in 1 .. Len(rx'[p]) /\ rx'[p][i].status = rx[p][i].status
           /\ \/ Len(rx'[p]) = Len(rx[p])
              \/ /\ SendReply(p) /\ ~Broken(p) /\ ses[p].out_sent = 0
                 /\ Len(rx'[p]) = Len(rx[p]) + 1
                 /\ rx'[p][Len(rx'[p])].status = ses[p].out[1].status
<1> DEFINE log == rx[p]
           new == rx'[p]
           s == ses[p]
           r == s.out[1]
<1>1. log \in Seq(Reply) /\ Len(log) \in Nat
  BY WireFacts
<1>2. \A q \in Peers \ {p} : rx'[q] = rx[q]
  BY HandlingServes DEF Serves, WireStep
<1>3. CASE rx' = rx
  BY <1>1, <1>2, <1>3
<1>4. ASSUME NEW more \in Seq(Byte), new = Longer(log, more)
      PROVE  Len(new) = Len(log) /\ \A i \in 1 .. Len(log) : new[i].status = log[i].status
  <2> HIDE DEF new, log
  <2>. QED
    BY <1>1, <1>4, LongerType
<1>5. CASE SendReply(p) /\ rx' # rx
  <2> DEFINE upto == Upto(p)
             from == s.out_sent
  <2>1. /\ ~Broken(p) /\ upto \in Nat /\ from < upto /\ upto <= Len(r.body) + 1
        /\ new = Extend(log, r, from, upto) /\ s.at = "reply"
    BY <1>5, SendReplyDoes
  <2>2. r \in Reply /\ from \in Nat
    BY <2>1, ReplyHeld
  <2> HIDE DEF from, upto, r
  <2>3. CASE from = 0
    <3>1. /\ Len(new) = Len(log) + 1 /\ new[Len(new)].status = r.status
          /\ \A i \in 1 .. Len(log) : new[i] = log[i]
      <4> HIDE DEF new, log, s
      <4>. QED
        BY <1>1, <2>1, <2>2, <2>3, ExtendBegins
    <3>2. \A i \in 1 .. Len(log) : i \in 1 .. Len(new) /\ new[i].status = log[i].status
      BY <1>1, <3>1
    <3>. QED
      BY <1>1, <1>2, <1>5, <2>1, <2>3, <3>1, <3>2 DEF from, r
  <2>4. CASE from > 0
    <3> DEFINE more == Rest(r, from, upto)
    <3>1. new = Longer(log, more) /\ more \in Seq(Byte)
      <4> HIDE DEF new, log, s
      <4>. QED
        BY <1>1, <2>1, <2>2, <2>4, ExtendGoesOn
    <3>2. Len(new) = Len(log) /\ \A i \in 1 .. Len(log) : new[i].status = log[i].status
      <4> HIDE DEF more
      <4>. QED
        BY <1>4, <3>1
    <3>. QED
      BY <1>1, <1>2, <3>2
  <2>. QED
    BY <2>2, <2>3, <2>4
<1>6. CASE GetSend(p) /\ rx' # rx
  <2>1. s.buf \in Seq(Byte) /\ new = Longer(log, s.buf)
    BY <1>6, GetSendDoes
  <2>2. Len(new) = Len(log) /\ \A i \in 1 .. Len(log) : new[i].status = log[i].status
    BY <1>4, <2>1
  <2>. QED
    BY <1>1, <1>2, <2>2
<1>7. CASE GetRead(p)
  BY <1>3, <1>7, GetReadDoes DEF wireVars
<1>8. CASE \/ RecvHeader(p) \/ Drain(p) \/ RecvName(p)
           \/ RecvPutHeader(p) \/ RecvPutData(p) \/ DrainPut(p)
  BY <1>3, <1>8, RecvHeaderDoes, DrainDoes, RecvNameDoes, RecvPutHeaderDoes,
     RecvPutDataDoes, DrainPutDoes
<1>. QED
  BY <1>3, <1>5, <1>6, <1>7, <1>8 DEF Handling

(* The upload that a session is at when it has sent n replies.             *)
Storing(s, asked, p, n, dir) ==
    LET m == IF s.out_sent = 0 THEN n + 1 ELSE n IN
    /\ s.at = "put_data" /\ Uploads(asked, s.name) = {<<p, n + 1>>} =>
           dir[s.name] =
               [kind |-> "reg", data |-> SubSeq(asked[p][n + 1].bytes, 1, s.off)]
    /\ s.at = "reply" /\ s.out[1].cmd = "PUT" /\ s.out[1].status = 0 =>
           StoredWhole(asked, p, m, dir)

PutsKept ==
    \A p \in Peers :
        /\ \A i \in 1 .. Len(rx[p]) :
               rx[p][i].status = 0 => StoredWhole(Asked, p, i, files)
        /\ p \in serving /\ ~Broken(p) => Storing(ses[p], Asked, p, Len(rx[p]), files)

(* Only the session whose upload it is undoes it.                          *)
LEMMA StoredStays ==
    ASSUME NEW p, NEW n, Progress(p, n), Handling(p), NEW q, NEW i,
           StoredWhole(Asked, q, i, files), <<p, n + 1>> # <<q, i>>
    PROVE  StoredWhole(Asked, q, i, files')
<1> DEFINE r == Asked[q][i]
<1>1. ASSUME r.cmd = "PUT", Uploads(Asked, r.name) = {<<q, i>>}
      PROVE  r.name \in SafeNames /\ files'[r.name] = files[r.name]
  <2>1. r.name \in SafeNames
    BY <1>1 DEF StoredWhole
  <2>. QED
    BY <1>1, <2>1, UntouchedFile
<1>. QED
  BY <1>1 DEF StoredWhole

(* Begun, a block later, done.                                             *)
LEMMA PartStored ==
    ASSUME NEW bytes \in Seq(Byte), NEW off \in Nat, off + 1 \in 1 .. Len(bytes),
           NEW old, old = SubSeq(bytes, 1, off),
           NEW now, Writes(old, now, off, bytes[off + 1])
    PROVE  now = SubSeq(bytes, 1, off + 1)
<1> DEFINE all == SubSeq(bytes, 1, off + 1)
<1>1. Len(bytes) \in Nat /\ off + 1 <= Len(bytes)
  BY LenProperties
<1>2. \A k \in 1 .. off + 1 : bytes[k] \in Byte
  BY <1>1, ElementOfSeq
<1>3. /\ all \in Seq(Byte) /\ Len(all) = off + 1
      /\ \A k \in 1 .. off + 1 : all[k] = bytes[1 + k - 1]
  <2> DEFINE m == 1
             e == off + 1
  <2>1. /\ m \in Int /\ e \in Int /\ e - m + 1 = off + 1 /\ m <= e
        /\ \A k \in m .. e : bytes[k] \in Byte
    BY <1>2
  <2> HIDE DEF m, e
  <2>2. /\ SubSeq(bytes, m, e) \in Seq(Byte) /\ Len(SubSeq(bytes, m, e)) = e - m + 1
        /\ \A k \in 1 .. e - m + 1 : SubSeq(bytes, m, e)[k] = bytes[m + k - 1]
    BY <2>1, SubSeqProperties
  <2>. QED
    BY <2>1, <2>2 DEF m, e
<1>4. /\ old \in Seq(Byte) /\ Len(old) = off
      /\ \A k \in 1 .. off : old[k] = bytes[k]
  <2> DEFINE m == 1
  <2>1. /\ m \in Int /\ off \in Int /\ off - m + 1 = off
        /\ (IF m <= off THEN off - m + 1 ELSE 0) = off
        /\ \A k \in m .. off : bytes[k] \in Byte
        /\ \A k \in 1 .. off : m + k - 1 = k
    BY <1>2
  <2>2. old = SubSeq(bytes, m, off)
    OBVIOUS
  <2> HIDE DEF m
  <2>3. /\ old \in Seq(Byte) /\ Len(old) = IF m <= off THEN off - m + 1 ELSE 0
        /\ \A k \in 1 .. off - m + 1 : old[k] = bytes[m + k - 1]
    BY <2>1, <2>2, SubSeqProperties
  <2>. QED
    BY <2>1, <2>3
<1> HIDE DEF all
<1>5. /\ now \in Seq(Byte) /\ Len(now) = off + 1
      /\ \A k \in 1 .. off + 1 :
            now[k] = IF k = off + 1 THEN bytes[off + 1]
                     ELSE IF k <= off THEN old[k] ELSE NULL
  <2>1. MaxOf(off, off + 1) = off + 1
    BY DEF MaxOf
  <2>. QED
    BY <1>4, <2>1 DEF Writes
<1>6. \A k \in 1 .. off + 1 : now[k] = all[k]
  BY <1>3, <1>4, <1>5
<1>. QED
  BY <1>3, <1>5, <1>6, SeqEqual DEF all

LEMMA NothingStored ==
    ASSUME NEW t, NEW asked, NEW p, NEW n, NEW dir, t.at # "put_data",
           t.at = "reply" => t.out[1].cmd # "PUT" \/ t.out[1].status # 0
    PROVE  Storing(t, asked, p, n, dir)
BY DEF Storing

(* The last block was stored.                                              *)
LEMMA UploadStored ==
    ASSUME NEW p, NEW n, Progress(p, n), ses[p].at = "put_data", ses[p].left = 0,
           Storing(ses[p], Asked, p, n, files)
    PROVE  StoredWhole(Asked, p, n + 1, files)
<1> DEFINE s == ses[p]
           r == Asked[p][n + 1]
           bytes == r.bytes
<1>1. /\ r.name = s.name /\ s.name \in SafeNames
      /\ s.off \in Nat /\ s.left \in Nat
      /\ bytes \in Seq(Byte) /\ Len(bytes) = s.off + s.left
  BY UploadBytes
<1>2. Len(bytes) = s.off
  <2> DEFINE len == Len(bytes)
             off == s.off
             left == s.left
  <2>1. len = off + left /\ off \in Nat /\ left = 0
    BY <1>1
  <2> HIDE DEF len, off, left
  <2>2. len = off
    BY <2>1
  <2>. QED
    BY <2>2 DEF len, off
<1>3. SubSeq(bytes, 1, s.off) = bytes
  <2> HIDE DEF bytes
  <2>. QED
    BY <1>1, <1>2, SubSeqFull
<1>4. ASSUME Uploads(Asked, r.name) = {<<p, n + 1>>}
      PROVE  files[r.name] = [kind |-> "reg", data |-> bytes]
  BY <1>1, <1>3, <1>4 DEF Storing
<1>. QED
  BY <1>1, <1>4 DEF StoredWhole

LEMMA OverwriteStores ==
    ASSUME NEW p, NEW n, Progress(p, n), Storing(ses[p], Asked, p, n, files),
           Overwrites(p, n), files' \in [SafeNames -> File]
    PROVE  Storing(ses'[p], Asked, p, n, files')
<1> DEFINE s == ses[p]
           t == ses'[p]
           bytes == Asked[p][n + 1].bytes
           old == files[s.name].data
           now == files'[s.name].data
<1>1. /\ s.name \in SafeNames /\ t.at = "put_data" /\ t.name = s.name
      /\ \/ t.off = 0 /\ files'[s.name] = Truncated
         \/ /\ s.at = "put_data" /\ t.off = s.off + 1
            /\ bytes \in Seq(Byte) /\ s.off + 1 \in 1 .. Len(bytes)
            /\ files'[s.name].kind = files[s.name].kind
            /\ Writes(old, now, s.off, bytes[s.off + 1])
  BY DEF Overwrites
<1>2. ASSUME Uploads(Asked, s.name) = {<<p, n + 1>>}
      PROVE  files'[s.name] = [kind |-> "reg", data |-> SubSeq(bytes, 1, t.off)]
  <2>1. CASE t.off = 0 /\ files'[s.name] = Truncated
    <3>1. SubSeq(bytes, 1, 0) = <<>>
      BY SubSeqEmpty
    <3>. QED
      BY <2>1, <3>1 DEF Truncated
  <2>2. CASE /\ s.at = "put_data" /\ t.off = s.off + 1
             /\ bytes \in Seq(Byte) /\ s.off + 1 \in 1 .. Len(bytes)
             /\ files'[s.name].kind = files[s.name].kind
             /\ Writes(old, now, s.off, bytes[s.off + 1])
    <3> DEFINE part == SubSeq(bytes, 1, s.off)
    <3>1. files[s.name] = [kind |-> "reg", data |-> part]
      BY <1>2, <2>2 DEF Storing
    <3>2. old = part /\ files'[s.name].kind = "reg"
      <4> HIDE DEF part
      <4>. QED
        BY <2>2, <3>1
    <3>3. s.off \in Nat
      BY <2>2, UploadBytes
    <3>4. now = SubSeq(bytes, 1, s.off + 1)
      <4> HIDE DEF s, bytes, old, now
      <4>. QED
        BY <2>2, <3>2, <3>3, PartStored
    <3>5. files'[s.name] = [kind |-> "reg", data |-> now]
      BY <1>1, <3>2 DEF File
    <3>. QED
      BY <2>2, <3>4, <3>5
  <2>. QED
    BY <1>1, <2>1, <2>2
<1>. QED
  BY <1>1, <1>2 DEF Storing

LEMMA OwnStoring ==
    ASSUME NEW p, NEW n, Progress(p, n), n = Len(rx[p]), Handling(p),
           Storing(ses[p], Asked, p, n, files)
    PROVE  Storing(ses'[p], Asked, p, Len(rx'[p]), files')
<1> DEFINE s == ses[p]
           t == ses'[p]
<1>1. TypeInv /\ p \in Peers /\ n \in Nat /\ files' \in [SafeNames -> File]
  BY HandlingServes DEF Progress, Serves
<1>2. CASE SendReply(p)
  <2> DEFINE m == IF s.out_sent = 0 THEN n + 1 ELSE n
  <2>1. CASE t.at \in {"header", "close", "get_read"}
    BY <2>1, NothingStored
  <2>2. CASE t.at = "reply" /\ t.out = s.out
    <3>1. Len(rx'[p]) = m /\ t.out_sent # 0 /\ files' = files /\ s.at = "reply"
      <4>1. PICK upto : /\ s.at = "reply" /\ files' = files /\ t.out_sent = upto
                        /\ upto \in Nat /\ s.out_sent < upto
                        /\ upto <= Len(s.out[1].body) + 1
                        /\ rx'[p] = Extend(rx[p], s.out[1], s.out_sent, upto)
        BY <1>1, <1>2, <2>2, SendReplyDoes, WireFacts DEF LocalsFit
      <4>2. s.out[1] \in Reply /\ s.out_sent \in Nat /\ rx[p] \in Seq(Reply)
        BY <1>1, <4>1, ReplyHeld, WireFacts
      <4> DEFINE from == s.out_sent
                 r == s.out[1]
                 log == rx[p]
                 new == rx'[p]
      <4> HIDE DEF from, r, log, new, s, t
      <4>3. Len(new) = IF from = 0 THEN n + 1 ELSE n
        <5>1. Len(new) = IF from = 0 THEN Len(log) + 1 ELSE Len(log)
          BY <4>1, <4>2, ExtendType DEF from, r, log, new
        <5>. QED
          BY <5>1 DEF log
      <4>4. t.out_sent # 0
        <5> DEFINE begun == t.out_sent
        <5>1. begun = upto /\ from < upto /\ upto \in Nat /\ from \in Nat
          BY <4>1, <4>2 DEF from
        <5> HIDE DEF begun
        <5>2. begun # 0
          BY <5>1
        <5>. QED
          BY <5>2 DEF begun
      <4>. QED
        BY <4>1, <4>3, <4>4 DEF from, new
    <3>2. ASSUME s.out[1].cmd = "PUT", s.out[1].status = 0
          PROVE  StoredWhole(Asked, p, m, files)
      BY <3>1, <3>2 DEF Storing
    <3>. QED
      BY <2>2, <3>1, <3>2 DEF Storing
  <2>3. \/ t.at \in {"header", "close", "get_read"}
        \/ t.at = "reply" /\ t.out = s.out
    BY <1>1, <1>2, SendReplyDoes, WireFacts DEF LocalsFit
  <2>. QED
    BY <2>1, <2>2, <2>3
<1>3. CASE ~SendReply(p)
  <2>1. Len(rx'[p]) = n
    BY <1>1, <1>3, LogStep
  <2>2. CASE Overwrites(p, n)
    BY <1>1, <2>1, <2>2, OverwriteStores
  <2>3. CASE files' = files /\ t.at # "put_data"
    <3>1. CASE s.at = "put_data" /\ s.left = 0 /\ Answering(t, "PUT", 0, "header")
      <4>1. StoredWhole(Asked, p, n + 1, files)
        BY <3>1, UploadStored
      <4>. QED
        BY <2>1, <2>3, <3>1, <4>1 DEF Storing, Answering
    <3>2. CASE t.at = "reply" => t.out[1].cmd # "PUT" \/ t.out[1].status # 0
      BY <2>3, <3>2, NothingStored
    <3>3. CASE RecvPutData(p)
      BY <1>1, <2>3, <3>1, <3>2, <3>3, RecvPutDataDoes DEF Answering
    <3>4. CASE RecvHeader(p) \/ RecvName(p)
      BY <1>1, <3>2, <3>4, RecvHeaderDoes, RecvNameDoes DEF Answering
    <3>5. CASE Drain(p)
      BY <1>1, <3>2, <3>5, DrainDoes DEF Answering
    <3>6. CASE RecvPutHeader(p) \/ DrainPut(p)
      BY <1>1, <3>2, <3>6, RecvPutHeaderDoes, DrainPutDoes DEF Answering
    <3>7. CASE GetRead(p) \/ GetSend(p)
      BY <1>1, <3>2, <3>7, GetReadDoes, GetSendDoes
    <3>. QED
      BY <1>3, <3>3, <3>4, <3>5, <3>6, <3>7 DEF Handling
  <2>. QED
    BY <2>2, <2>3, FilesChange
<1>. QED
  BY <1>2, <1>3

LEMMA StepStored ==
    ASSUME TypeInv, \A p \in Peers : Parsed(p), PutsKept, [Next]_vars
    PROVE  PutsKept'
<1> SUFFICES ASSUME NEW q \in Peers
             PROVE  /\ \A i \in 1 .. Len(rx'[q]) :
                          rx'[q][i].status = 0 => StoredWhole(Asked', q, i, files')
                    /\ q \in serving' /\ ~Broken(q)' =>
                          Storing(ses'[q], Asked', q, Len(rx'[q]), files')
  BY DEF PutsKept
<1>1. ASSUME NEW p \in Peers, Handling(p)
      PROVE  /\ \A i \in 1 .. Len(rx'[q]) :
                   rx'[q][i].status = 0 => StoredWhole(Asked, q, i, files')
             /\ q \in serving' /\ ~Broken(q)' =>
                   Storing(ses'[q], Asked, q, Len(rx'[q]), files')
  <2>1. /\ Serves(p) /\ p \in serving /\ serving' = serving
        /\ \A r \in Peers \ {p} : ses'[r] = ses[r] /\ rx'[r] = rx[r] /\ sock'[r] = sock[r]
    <3>1. Serves(p) /\ p \in serving
      BY <1>1, HandlingServes
    <3>2. serving' = serving
      BY <3>1 DEF Serves
    <3>3. ASSUME NEW r \in Peers \ {p}
          PROVE  ses'[r] = ses[r] /\ rx'[r] = rx[r] /\ sock'[r] = sock[r]
      BY <3>1 DEF Serves, WireStep, TypeInv, TypeOK, WireTypeOK
    <3>. QED
      BY <3>1, <3>2, <3>3
  <2>2. PICK n : Parses(p, n) /\ Progress(p, n)
    BY <2>1 DEF Parsed, Parses, Progress
  <2>3. /\ \A i \in 1 .. Len(rx[q]) :
              rx[q][i].status = 0 => StoredWhole(Asked, q, i, files)
        /\ q \in serving /\ ~Broken(q) => Storing(ses[q], Asked, q, Len(rx[q]), files)
    BY DEF PutsKept
  <2>4. CASE q # p
    <3>1. \A i : <<p, n + 1>> # <<q, i>>
      BY <2>4
    <3>2. \A i : StoredWhole(Asked, q, i, files) => StoredWhole(Asked, q, i, files')
      BY <1>1, <2>2, <3>1, StoredStays
    <3>3. ses'[q] = ses[q] /\ rx'[q] = rx[q] /\ (~Broken(q)' => ~Broken(q))
      BY <2>1, <2>4 DEF Broken
    <3>4. ASSUME q \in serving, ~Broken(q)
          PROVE  Storing(ses[q], Asked, q, Len(rx[q]), files')
      <4> DEFINE s == ses[q]
                 k == Len(rx[q]) + 1
      <4>1. s.at = "put_data" => s.name \in SafeNames
        BY WireFacts DEF LocalsFit
      <4>2. s.at = "put_data" /\ Uploads(Asked, s.name) = {<<q, k>>} =>
                files'[s.name] = files[s.name]
        <5>1. <<p, n + 1>> # <<q, k>>
          BY <3>1
        <5> HIDE DEF s, k
        <5>. QED
          BY <1>1, <2>2, <4>1, <5>1, UntouchedFile
      <4>. QED
        BY <2>3, <3>2, <3>4, <4>2 DEF Storing
    <3>. QED
      BY <2>1, <2>3, <3>2, <3>3, <3>4
  <2>5. CASE q = p
    <3>1. n \in Nat /\ Len(rx[p]) <= n /\ (n = Len(rx[p]) \/ Broken(p)) /\ Len(rx[p]) \in Nat
      BY <2>2, WireFacts DEF Parses
    <3>2. ASSUME NEW i \in 1 .. Len(rx'[p]), rx'[p][i].status = 0
          PROVE  StoredWhole(Asked, p, i, files')
      <4>1. CASE i <= Len(rx[p])
        <5>1. i \in 1 .. Len(rx[p]) /\ i # n + 1 /\ rx[p][i].status = 0
          <6>1. i \in 1 .. Len(rx[p])
            BY <3>1, <4>1
          <6>2. i # n + 1
            BY <3>1, <4>1
          <6>3. rx'[p][i].status = rx[p][i].status
            BY <1>1, <6>1, LogStep
          <6>. QED
            BY <3>2, <6>1, <6>2, <6>3
        <5>2. <<p, n + 1>> # <<p, i>>
          BY <5>1
        <5>. QED
          BY <1>1, <2>2, <2>3, <2>5, <5>1, <5>2, StoredStays
      <4>2. CASE ~(i <= Len(rx[p]))
        <5>1. /\ SendReply(p) /\ ~Broken(p) /\ ses[p].out_sent = 0
              /\ i = n + 1 /\ ses[p].out[1].status = 0
          BY <1>1, <3>1, <3>2, <4>2, LogStep
        <5>2. ses[p].at = "reply" /\ files' = files
          BY <5>1, SendReplyDoes
        <5>3. Storing(ses[p], Asked, p, n, files)
          BY <2>1, <2>3, <2>5, <3>1, <5>1
        <5>4. Asked[p][n + 1].cmd = ses[p].out[1].cmd
          BY <2>2, <5>1, <5>2, AskedAre DEF Progress, Parsing
        <5>5. CASE ses[p].out[1].cmd = "PUT"
          BY <5>1, <5>2, <5>3, <5>5 DEF Storing
        <5>6. CASE ses[p].out[1].cmd # "PUT"
          BY <5>1, <5>4, <5>6 DEF StoredWhole
        <5>. QED
          BY <5>5, <5>6
      <4>. QED
        BY <4>1, <4>2
    <3>3. ASSUME ~Broken(p)'
          PROVE  Storing(ses'[p], Asked, p, Len(rx'[p]), files')
      <4>1. ~Broken(p)
        BY <2>1, <3>3, DryStays
      <4>2. n = Len(rx[p]) /\ Storing(ses[p], Asked, p, n, files)
        BY <2>1, <2>3, <2>5, <3>1, <4>1
      <4>. QED
        BY <1>1, <2>2, <4>2, OwnStoring
    <3>. QED
      BY <2>5, <3>2, <3>3
  <2>. QED
    BY <2>4, <2>5
<1>2. ASSUME NEW p \in Peers, Handling(p)
      PROVE  Asked' = Asked
  BY <1>2, HandlingServes, SameAsked DEF Serves, WireStep
<1>3. ASSUME \A p \in Peers : ~Handling(p)
      PROVE  /\ \A i \in 1 .. Len(rx'[q]) :
                   rx'[q][i].status = 0 => StoredWhole(Asked', q, i, files')
             /\ q \in serving' /\ ~Broken(q)' =>
                   Storing(ses'[q], Asked', q, Len(rx'[q]), files')
  <2>1. /\ Asked' = Asked /\ rx' = rx /\ files' = files
        /\ Broken(q) => Broken(q)'
        /\ q \in serving' => (q \in serving /\ ses'[q] = ses[q]) \/ ses'[q].at = "header"
    BY <1>3, OtherSteps, SameAsked
  <2>2. /\ \A i \in 1 .. Len(rx[q]) :
              rx[q][i].status = 0 => StoredWhole(Asked, q, i, files)
        /\ q \in serving /\ ~Broken(q) => Storing(ses[q], Asked, q, Len(rx[q]), files)
    BY DEF PutsKept
  <2>3. ses'[q].at = "header" => Storing(ses'[q], Asked, q, Len(rx[q]), files)
    BY NothingStored
  <2>. QED
    BY <2>1, <2>2, <2>3
<1>. QED
  BY <1>1, <1>2, <1>3
(* The download that a session is at.                                      *)
Fetching(s, asked, log, dir) ==
    LET data == dir[s.name].data
        got == Len(log[Len(log)].body)
    IN  Uploads(asked, s.name) = {} =>
            /\ s.at = "reply" /\ s.next = "get_read" => s.out[1].length = Len(data)
            /\ s.at = "get_read" => s.off = got
            /\ s.at = "get_send" =>
                   s.off = got + 1 /\ s.off <= Len(data) /\ s.buf = <<data[s.off]>>

GetsKept ==
    \A p \in Peers :
        /\ \A i \in 1 .. Len(rx[p]) :
               rx[p][i].status = 0 => Fetched(Asked, p, i, rx[p][i], files)
        /\ p \in serving /\ ~Broken(p) => Fetching(ses[p], Asked, rx[p], files)

LEMMA QuietFile ==
    ASSUME NEW p, NEW n, Progress(p, n), Handling(p), NEW name \in SafeNames,
           Uploads(Asked, name) = {}
    PROVE  files'[name] = files[name]
<1>1. <<p, n + 1>> \notin Uploads(Asked, name)
  OBVIOUS
<1>. QED
  BY <1>1, UntouchedFile

LEMMA FetchedStays ==
    ASSUME NEW p, NEW n, Progress(p, n), Handling(p), NEW q, NEW i, NEW reply,
           Fetched(Asked, q, i, reply, files)
    PROVE  Fetched(Asked, q, i, reply, files')
<1> DEFINE r == Asked[q][i]
<1>1. ASSUME r.cmd = "GET", Uploads(Asked, r.name) = {}
      PROVE  r.name \in SafeNames /\ files'[r.name] = files[r.name]
             /\ Carries(reply, files[r.name].data)
  <2>1. r.name \in SafeNames /\ Carries(reply, files[r.name].data)
    BY <1>1 DEF Fetched
  <2>. QED
    BY <1>1, <2>1, QuietFile
<1>. QED
  BY <1>1 DEF Fetched

LEMMA NothingFetched ==
    ASSUME NEW t, NEW asked, NEW log, NEW dir, t.at \notin {"get_read", "get_send"},
           t.at = "reply" => t.next # "get_read"
    PROVE  Fetching(t, asked, log, dir)
BY DEF Fetching

LEMMA OneByteMore ==
    ASSUME NEW old \in Seq(Byte), NEW buf \in Seq(Byte), Len(buf) = 1
    PROVE  /\ Len(old \o buf) = Len(old) + 1
           /\ \A k \in 1 .. Len(old) + 1 :
                  (old \o buf)[k] = IF k <= Len(old) THEN old[k] ELSE buf[k - Len(old)]
<1> DEFINE all == old \o buf
           one == Len(buf)
<1>1. /\ Len(all) = Len(old) + one
      /\ \A k \in 1 .. Len(old) + one :
             all[k] = IF k <= Len(old) THEN old[k] ELSE buf[k - Len(old)]
  BY ConcatProperties
<1>2. one = 1
  OBVIOUS
<1> HIDE DEF all, one
<1>3. /\ Len(all) = Len(old) + 1
      /\ \A k \in 1 .. Len(old) + 1 :
             all[k] = IF k <= Len(old) THEN old[k] ELSE buf[k - Len(old)]
  BY <1>1, <1>2
<1>. QED
  BY <1>3 DEF all

(* The next block of the file is appended.                                 *)
LEMMA BlockCarried ==
    ASSUME NEW log \in Seq(Reply), log # <<>>, NEW data \in Seq(Byte),
           Carries(log[Len(log)], data), NEW off \in Nat,
           off = Len(log[Len(log)].body) + 1, off <= Len(data),
           NEW buf \in Seq(Byte), Len(buf) = 1, buf[1] = data[off],
           NEW new, new = Longer(log, buf)
    PROVE  Carries(new[Len(log)], data)
<1> DEFINE old == log[Len(log)].body
           now == new[Len(log)].body
<1>1. Len(log) \in 1 .. Len(log) /\ log[Len(log)] \in Reply /\ Len(old) \in Nat
  BY LastReply, EmptySeq, LenProperties
<1>2. old \in Seq(Byte)
  BY <1>1 DEF Reply
<1>3. new[Len(log)].length = log[Len(log)].length /\ now = old \o buf
  <2>1. \A i \in 1 .. Len(log) :
            /\ new[i].length = log[i].length
            /\ new[i].body = IF i = Len(log) THEN log[i].body \o buf ELSE log[i].body
    BY LongerType, SMTT(30)
  <2>. QED
    BY <1>1, <2>1
<1>4. Len(buf) = 1 /\ buf[1] = data[off]
  OBVIOUS
<1>5. log[Len(log)].length = Len(data) /\ Len(old) <= Len(data)
      /\ \A k \in 1 .. Len(old) : old[k] = data[k]
  BY DEF Carries
<1>6. off = Len(old) + 1
  OBVIOUS
<1> HIDE DEF old, now
<1>7. /\ Len(now) = Len(old) + 1
      /\ \A k \in 1 .. Len(old) + 1 :
             now[k] = IF k <= Len(old) THEN old[k] ELSE buf[k - Len(old)]
  BY <1>2, <1>3, <1>4, OneByteMore
<1>8. ASSUME NEW k \in 1 .. Len(now)
      PROVE  now[k] = data[k]
  <2>1. CASE k <= Len(old)
    BY <1>1, <1>5, <1>7, <1>8, <2>1
  <2>2. CASE k = off
    BY <1>1, <1>4, <1>6, <1>7, <1>8, <2>2
  <2>. QED
    BY <1>1, <1>6, <1>7, <1>8, <2>1, <2>2
<1>9. Len(now) <= Len(data)
  BY <1>6, <1>7
<1>. QED
  BY <1>3, <1>5, <1>8, <1>9 DEF Carries, now

LEMMA SendReplyFetching ==
    ASSUME NEW p, NEW n, Progress(p, n), n = Len(rx[p]), SendReply(p),
           Fetching(ses[p], Asked, rx[p], files)
    PROVE  Fetching(ses'[p], Asked, rx'[p], files')
<1> DEFINE s == ses[p]
           t == ses'[p]
           r == s.out[1]
           upto == Upto(p)
<1>1. /\ TypeInv /\ p \in Peers /\ s.at = "reply" /\ files' = files
      /\ s \in Session /\ LocalsFit(s) /\ rx[p] \in Seq(Reply)
      /\ r \in Reply
  BY SendReplyDoes, WireFacts, ReplyHeld DEF Progress
<1>2. CASE t.at \in {"header", "close"}
  BY <1>2, NothingFetched
<1>3. CASE /\ upto \in Nat /\ s.out_sent < upto /\ upto < Len(r.body) + 1
           /\ t.at = "reply" /\ t.next = s.next
  <2>1. r.body # <<>>
    BY <1>1, <1>3, ReplyHeld
  <2>2. t.next # "get_read"
    BY <1>1, <1>3, <2>1 DEF LocalsFit
  <2>. QED
    BY <1>3, <2>2, NothingFetched
<1>4. CASE /\ s.next = "get_read" /\ t.at = "get_read"
           /\ upto \in Nat /\ s.out_sent < upto /\ upto = Len(r.body) + 1
           /\ rx'[p] = Extend(rx[p], r, s.out_sent, upto)
           /\ t.name = s.name /\ t.off = s.off
  <2>1. r.body = <<>> /\ s.off = 0 /\ s.out_sent <= Len(r.body) /\ s.out_sent \in Nat
    BY <1>1, <1>4 DEF LocalsFit, Session
  <2>2. Len(r.body) = 0
    BY <2>1
  <2>3. upto = 1 /\ s.out_sent = 0
    BY <1>4, <2>1, <2>2
  <2>4. rx'[p] = Extend(rx[p], r, 0, upto)
    BY <1>4, <2>3
  <2> HIDE DEF r, upto
  <2>5. Len(rx'[p][Len(rx'[p])].body) = 0
    BY <1>1, <1>4, <2>1, <2>3, <2>4, HeaderCarries
  <2>. QED
    BY <1>4, <2>1, <2>5 DEF Fetching
<1>5. \/ t.at = "close" \/ (t.at = s.next /\ r.cmd = "OTHER")
      \/ /\ upto \in Nat /\ s.out_sent < upto
         /\ rx'[p] = Extend(rx[p], r, s.out_sent, upto)
         /\ t.name = s.name /\ t.off = s.off
         /\ \/ upto < Len(r.body) + 1 /\ t.at = "reply" /\ t.next = s.next
            \/ upto = Len(r.body) + 1 /\ t.at = s.next
  BY <1>1, SendReplyDoes
<1>6. /\ s.next \in {"header", "close", "get_read"}
      /\ s.next = "get_read" => r.cmd = "GET"
  BY <1>1 DEF LocalsFit
<1>. QED
  BY <1>2, <1>3, <1>4, <1>5, <1>6

LEMMA OwnFetching ==
    ASSUME NEW p, NEW n, Progress(p, n), n = Len(rx[p]), Handling(p),
           Fetching(ses[p], Asked, rx[p], files)
    PROVE  Fetching(ses'[p], Asked, rx'[p], files')
<1> DEFINE s == ses[p]
           t == ses'[p]
           last == rx[p][Len(rx[p])]
<1>1. TypeInv /\ p \in Peers /\ rx[p] \in Seq(Reply)
  BY WireFacts DEF Progress
<1>2. CASE SendReply(p)
  BY <1>2, SendReplyFetching
<1>3. CASE RecvName(p)
  <2>1. files' = files
    BY <1>1, <1>3, RecvNameDoes
  <2>2. CASE t.at = "reply" /\ t.next = "get_read"
    <3>1. t.out[1].length = Len(files[t.name].data)
      BY <1>1, <1>3, <2>2, RecvNameDoes DEF Answering
    <3>. QED
      BY <2>1, <2>2, <3>1 DEF Fetching
  <2>3. CASE t.at \notin {"get_read", "get_send"} /\ (t.at = "reply" => t.next # "get_read")
    BY <2>3, NothingFetched
  <2>. QED
    BY <1>1, <1>3, <2>2, <2>3, RecvNameDoes DEF Answering
<1>4. CASE GetRead(p)
  <2> DEFINE data == files[s.name].data
  <2>1. /\ rx' = rx /\ files' = files /\ s.at = "get_read"
        /\ data \in Seq(Byte) /\ Len(data) \in Nat /\ s.off \in Nat
        /\ \/ /\ s.off < Len(data)
              /\ t.at = "get_send" /\ t.name = s.name /\ t.off = s.off + 1
              /\ t.buf = <<data[s.off + 1]>>
           \/ t.at \in {"header", "close"}
    BY <1>1, <1>4, GetReadDoes DEF wireVars
  <2>2. CASE t.at = "get_send"
    <3>1. Uploads(Asked, s.name) = {} => s.off = Len(last.body)
      BY <2>1 DEF Fetching
    <3>2. t.name = s.name /\ t.off = s.off + 1 /\ s.off < Len(data)
          /\ t.buf = <<data[s.off + 1]>>
      BY <2>1, <2>2
    <3>3. t.off <= Len(data) /\ t.buf = <<data[t.off]>>
      <4>1. s.off + 1 <= Len(data)
        BY <2>1, <3>2
      <4>. QED
        BY <3>2, <4>1
    <3>4. files'[t.name].data = data /\ rx'[p] = rx[p]
      BY <2>1, <3>2
    <3>5. Uploads(Asked, t.name) = {} => t.off = Len(rx'[p][Len(rx'[p])].body) + 1
      BY <3>1, <3>2, <3>4
    <3>. QED
      BY <2>2, <3>3, <3>4, <3>5 DEF Fetching
  <2>. QED
    BY <2>1, <2>2, NothingFetched
<1>5. CASE GetSend(p)
  <2>1. files' = files /\ s.at = "get_send" /\ s.buf \in Seq(Byte) /\ Len(s.buf) = 1
        /\ \/ t.at = "close"
           \/ /\ rx'[p] = Longer(rx[p], s.buf)
              /\ t.at = "get_read" /\ t.name = s.name /\ t.off = s.off
    BY <1>1, <1>5, GetSendDoes
  <2>2. CASE t.at = "get_read"
    <3>1. Uploads(Asked, s.name) = {} => s.off = Len(last.body) + 1
      BY <2>1 DEF Fetching
    <3>2. n > 0 /\ n \in Nat
      BY <2>1 DEF Progress, Parsing
    <3>3. Len(rx[p]) \in 1 .. Len(rx[p])
      BY <3>2
    <3>4. last.body \in Seq(Byte)
      <4>1. last \in Reply
        BY <1>1, <3>3, ElementOfSeq
      <4>. QED
        BY <4>1 DEF Reply
    <3>5. Len(rx'[p]) = Len(rx[p]) /\ rx'[p][Len(rx[p])].body = last.body \o s.buf
      <4> DEFINE buf == s.buf
                 log == rx[p]
                 new == rx'[p]
      <4>1. buf \in Seq(Byte) /\ new = Longer(log, buf) /\ log \in Seq(Reply)
        BY <1>1, <2>1, <2>2
      <4> HIDE DEF buf, log, new
      <4>2. Len(new) = Len(log) /\ \A i \in 1 .. Len(log) :
                new[i].body = IF i = Len(log) THEN log[i].body \o buf ELSE log[i].body
        BY <4>1, LongerType
      <4>. QED
        BY <3>3, <4>2 DEF buf, log, new
    <3>6. Len(rx'[p][Len(rx'[p])].body) = Len(last.body) + 1
      <4> DEFINE buf == s.buf
                 old == last.body
      <4>1. buf \in Seq(Byte) /\ Len(buf) = 1 /\ old \in Seq(Byte)
        BY <2>1, <3>4
      <4>2. rx'[p][Len(rx'[p])].body = old \o buf
        BY <3>5
      <4> HIDE DEF buf, old
      <4>3. Len(old \o buf) = Len(old) + 1
        BY <4>1, ConcatProperties
      <4>. QED
        BY <4>2, <4>3 DEF old
    <3>. QED
      BY <2>1, <2>2, <3>1, <3>6 DEF Fetching
  <2>. QED
    BY <2>1, <2>2, NothingFetched
<1>6. CASE RecvHeader(p) \/ Drain(p)
  BY <1>1, <1>6, RecvHeaderDoes, DrainDoes, NothingFetched DEF Answering
<1>7. CASE RecvPutHeader(p) \/ DrainPut(p)
  BY <1>1, <1>7, RecvPutHeaderDoes, DrainPutDoes, NothingFetched DEF Answering
<1>8. CASE RecvPutData(p)
  BY <1>1, <1>8, RecvPutDataDoes, NothingFetched DEF Answering
<1>. QED
  BY <1>2, <1>3, <1>4, <1>5, <1>6, <1>7, <1>8 DEF Handling
(* What the replies of p carry, those begun before and the one it begins.  *)
LEMMA OwnFetched ==
    ASSUME NEW p, NEW n, Progress(p, n), n = Len(rx[p]), ~Broken(p), Handling(p),
           Fetching(ses[p], Asked, rx[p], files),
           \A i \in 1 .. Len(rx[p]) :
               rx[p][i].status = 0 => Fetched(Asked, p, i, rx[p][i], files)
    PROVE  \A i \in 1 .. Len(rx'[p]) :
               rx'[p][i].status = 0 => Fetched(Asked, p, i, rx'[p][i], files')
<1> DEFINE s == ses[p]
           log == rx[p]
           new == rx'[p]
           r == s.out[1]
           upto == Upto(p)
<1>1. /\ TypeInv /\ p \in Peers /\ log \in Seq(Reply) /\ n \in Nat
      /\ s \in Session /\ LocalsFit(s) /\ files \in [SafeNames -> File]
  BY WireFacts DEF Progress
<1>2. ASSUME NEW i, rx[p][i].status = 0, i \in 1 .. n, new[i] = log[i]
      PROVE  Fetched(Asked, p, i, new[i], files')
  BY <1>2, FetchedStays
<1>3. ASSUME new = log
      PROVE  \A i \in 1 .. Len(new) :
                 new[i].status = 0 => Fetched(Asked, p, i, new[i], files')
  BY <1>2, <1>3
<1>4. ASSUME SendReply(p), new # log
      PROVE  \A i \in 1 .. Len(new) :
                 new[i].status = 0 => Fetched(Asked, p, i, new[i], files')
  <2>1. /\ upto \in Nat /\ s.out_sent < upto /\ upto <= Len(r.body) + 1
        /\ new = Extend(log, r, s.out_sent, upto)
        /\ s.at = "reply" /\ files' = files
    BY <1>1, <1>4, SendReplyDoes
  <2>2. r \in Reply /\ s.out_sent \in Nat
    BY <1>1, <2>1, ReplyHeld
  <2>3. LET m == IF s.out_sent = 0 THEN n + 1 ELSE n IN
        /\ Asked[p][m].cmd = r.cmd
        /\ s.next = "get_read" => Asked[p][m].name = s.name
    BY <1>1, <2>1, AskedAre DEF Progress, Parsing
  <2>4. r.cmd = "GET" => r.body = <<>> /\ (r.status = 0 => s.next = "get_read")
    BY <1>1, <2>1 DEF LocalsFit
  <2>5. CASE s.out_sent = 0
    <3>1. /\ Len(new) = n + 1 /\ new[n + 1].status = r.status
          /\ \A i \in 1 .. n : new[i] = log[i]
      <4> DEFINE from == s.out_sent
      <4>1. from \in Nat /\ from < upto /\ new = Extend(log, r, from, upto) /\ from = 0
        BY <2>1, <2>2, <2>5
      <4> HIDE DEF from, new, log, r, upto
      <4>2. /\ Len(new) = Len(log) + 1 /\ new[Len(new)].status = r.status
            /\ \A i \in 1 .. Len(log) : new[i] = log[i]
        BY <1>1, <2>1, <2>2, <4>1, ExtendBegins
      <4>. QED
        BY <4>2 DEF log
    <3>2. ASSUME r.status = 0
          PROVE  Fetched(Asked, p, n + 1, new[n + 1], files')
      <4> DEFINE q == Asked[p][n + 1]
      <4> SUFFICES ASSUME q.cmd = "GET", Uploads(Asked, q.name) = {}
                   PROVE  q.name \in SafeNames /\ Carries(new[n + 1], files'[q.name].data)
        BY DEF Fetched
      <4>1. /\ r.cmd = "GET" /\ s.next = "get_read" /\ q.name = s.name
            /\ r.body = <<>> /\ s.name \in SafeNames
        BY <1>1, <2>1, <2>3, <2>4, <2>5, <3>2 DEF LocalsFit
      <4>2. r.length = Len(files[s.name].data)
        BY <2>1, <4>1 DEF Fetching
      <4>3. new[n + 1].length = r.length /\ Len(new[n + 1].body) = 0
        <5>1. Len(r.body) = 0
          BY <4>1
        <5>2. upto = 1 /\ new = Extend(log, r, 0, upto)
          BY <2>1, <2>5, <5>1
        <5> HIDE DEF new, r, upto
        <5>3. Len(new) = Len(log) + 1 /\ new[Len(new)].length = r.length
              /\ Len(new[Len(new)].body) = 0
          <6> HIDE DEF log
          <6>. QED
            BY <1>1, <2>1, <2>2, <4>1, <5>2, HeaderCarries
        <5>. QED
          BY <5>3
      <4>4. Len(files[s.name].data) \in Nat
        BY <1>1, <4>1, LenProperties DEF File
      <4>5. Carries(new[n + 1], files[s.name].data)
        <5> HIDE DEF new
        <5>. QED
          BY <4>2, <4>3, <4>4 DEF Carries
      <4>. QED
        BY <2>1, <4>1, <4>5
    <3>3. ASSUME NEW i \in 1 .. Len(new), new[i].status = 0
          PROVE  Fetched(Asked, p, i, new[i], files')
      <4>1. CASE i = n + 1
        BY <3>1, <3>2, <3>3, <4>1
      <4>2. CASE i # n + 1
        <5>1. i \in 1 .. n
          BY <1>1, <3>1, <4>2
        <5>. QED
          BY <1>2, <3>1, <3>3, <5>1
      <4>. QED
        BY <4>1, <4>2
    <3>. QED
      BY <3>3
  <2>6. CASE s.out_sent > 0
    <3>1. r.body # <<>>
      BY <1>1, <2>1, <2>6, ReplyHeld
    <3>2. Asked[p][n].cmd # "GET"
      BY <2>3, <2>4, <2>6, <3>1
    <3> DEFINE more == Rest(r, s.out_sent, upto)
    <3>3. /\ Len(new) = n
          /\ \A i \in 1 .. n : new[i].status = log[i].status
          /\ \A i \in 1 .. n : i # n => new[i] = log[i]
      <4> DEFINE from == s.out_sent
      <4>1. from \in Nat /\ from < upto /\ new = Extend(log, r, from, upto) /\ from > 0
        BY <2>1, <2>2, <2>6
      <4>2. new = Longer(log, more) /\ more \in Seq(Byte)
        <5>1. more = Rest(r, from, upto)
          OBVIOUS
        <5> HIDE DEF from, new, log, r, upto, more
        <5>. QED
          BY <1>1, <2>1, <2>2, <4>1, <5>1, ExtendGoesOn
      <4> HIDE DEF new, log, more
      <4>3. Len(new) = Len(log) /\ \A i \in 1 .. Len(log) : new[i].status = log[i].status
        BY <1>1, <4>2, LongerType
      <4>4. \A i \in 1 .. Len(log) : i # Len(log) => new[i] = log[i]
        <5>1. log \in [1 .. Len(log) -> Reply]
          BY <1>1, LenProperties
        <5>. QED
          BY <4>2, <5>1 DEF Longer
      <4>. QED
        BY <4>3, <4>4 DEF log
    <3>4. ASSUME NEW i \in 1 .. Len(new), new[i].status = 0
          PROVE  Fetched(Asked, p, i, new[i], files')
      <4>1. CASE i = n
        BY <3>2, <4>1 DEF Fetched
      <4>2. CASE i # n
        <5>1. i \in 1 .. n /\ log[i].status = 0 /\ new[i] = log[i]
          BY <3>3, <3>4, <4>2
        <5>. QED
          BY <1>2, <5>1
      <4>. QED
        BY <4>1, <4>2
    <3>. QED
      BY <3>4
  <2>. QED
    BY <2>2, <2>5, <2>6
<1>5. ASSUME GetSend(p), new # log
      PROVE  \A i \in 1 .. Len(new) :
                 new[i].status = 0 => Fetched(Asked, p, i, new[i], files')
  <2> DEFINE buf == s.buf
             name == s.name
             data == files[name].data
  <2>1. /\ buf \in Seq(Byte) /\ new = Longer(log, buf) /\ Len(buf) = 1
        /\ s.at = "get_send" /\ files' = files
    BY <1>1, <1>5, GetSendDoes
  <2>2. /\ n > 0 /\ Asked[p][n].name = name /\ Asked[p][n].cmd = "GET"
        /\ name \in SafeNames /\ s.off \in Nat
    BY <1>1, <2>1, AskedAre DEF Progress, Parsing, LocalsFit, Session
  <2>3. /\ Len(new) = n
        /\ \A i \in 1 .. n : new[i].status = log[i].status
        /\ \A i \in 1 .. n : i # n => new[i] = log[i]
    <3>1. new = Longer(log, buf) /\ buf \in Seq(Byte)
      BY <2>1
    <3> HIDE DEF new, log, buf
    <3>2. Len(new) = Len(log) /\ \A i \in 1 .. Len(log) : new[i].status = log[i].status
      BY <1>1, <3>1, LongerType
    <3>3. \A i \in 1 .. Len(log) : i # Len(log) => new[i] = log[i]
      <4>1. log \in [1 .. Len(log) -> Reply]
        BY <1>1, LenProperties
      <4>. QED
        BY <3>1, <4>1 DEF Longer
    <3>. QED
      BY <3>2, <3>3 DEF log
  <2>4. ASSUME new[n].status = 0
        PROVE  Fetched(Asked, p, n, new[n], files')
    <3> SUFFICES ASSUME Uploads(Asked, name) = {}
                 PROVE  Carries(new[n], data)
      BY <2>1, <2>2 DEF Fetched
    <3>1. n \in 1 .. n
      BY <1>1, <2>2
    <3>2. Carries(log[n], data)
      BY <2>2, <2>3, <2>4, <3>1 DEF Fetched
    <3> DEFINE off == s.off
    <3>3. off = Len(log[Len(log)].body) + 1 /\ off <= Len(data) /\ buf = <<data[off]>>
          /\ off \in Nat
      BY <2>1, <2>2 DEF Fetching
    <3>4. data \in Seq(Byte)
      BY <1>1, <2>2 DEF File
    <3>5. Len(buf) = 1 /\ buf[1] = data[off] /\ buf \in Seq(Byte) /\ new = Longer(log, buf)
      <4> DEFINE next == data[off]
      <4>1. buf = <<next>> /\ buf \in Seq(Byte) /\ new = Longer(log, buf)
        BY <2>1, <3>3
      <4> HIDE DEF buf, next, new, log
      <4>2. Len(buf) = 1 /\ buf[1] = next
        BY <4>1
      <4>. QED
        BY <4>1, <4>2 DEF next
    <3>6. log # <<>> /\ Len(log) = n
      BY <1>1, <2>2
    <3> HIDE DEF log, new, buf, data, off
    <3>7. Carries(new[Len(log)], data)
      BY <1>1, <3>2, <3>3, <3>4, <3>5, <3>6, BlockCarried
    <3>. QED
      BY <3>6, <3>7
  <2>5. ASSUME NEW i \in 1 .. Len(new), new[i].status = 0
        PROVE  Fetched(Asked, p, i, new[i], files')
    <3>1. CASE i = n
      BY <2>4, <2>5, <3>1
    <3>2. CASE i # n
      <4>1. i \in 1 .. n /\ log[i].status = 0 /\ new[i] = log[i]
        BY <2>3, <2>5, <3>2
      <4>. QED
        BY <1>2, <4>1
    <3>. QED
      BY <3>1, <3>2
  <2>. QED
    BY <2>5
<1>6. SendReply(p) \/ GetSend(p) \/ new = log
  BY <1>1, RecvHeaderDoes, DrainDoes, RecvNameDoes, GetReadDoes, RecvPutHeaderDoes,
     RecvPutDataDoes, DrainPutDoes DEF Handling, wireVars
<1>. QED
  BY <1>3, <1>4, <1>5, <1>6
LEMMA BrokenGetsNothing ==
    ASSUME TypeInv, NEW p \in Peers, Handling(p), Broken(p)
    PROVE  rx'[p] = rx[p]
<1>1. ~SendReply(p) /\ ~GetSend(p) => rx'[p] = rx[p]
  BY RecvHeaderDoes, DrainDoes, RecvNameDoes, GetReadDoes, RecvPutHeaderDoes,
     RecvPutDataDoes, DrainPutDoes DEF Handling, wireVars
<1>2. SendReply(p) => rx'[p] = rx[p]
  BY SendReplyDoes
<1>3. GetSend(p) => rx'[p] = rx[p]
  BY GetSendDoes
<1>. QED
  BY <1>1, <1>2, <1>3

LEMMA StepFetched ==
    ASSUME TypeInv, \A p \in Peers : Parsed(p), GetsKept, [Next]_vars
    PROVE  GetsKept'
<1> SUFFICES ASSUME NEW q \in Peers
             PROVE  /\ \A i \in 1 .. Len(rx'[q]) :
                          rx'[q][i].status = 0 =>
                              Fetched(Asked', q, i, rx'[q][i], files')
                    /\ q \in serving' /\ ~Broken(q)' =>
                          Fetching(ses'[q], Asked', rx'[q], files')
  BY DEF GetsKept
<1>1. /\ \A i \in 1 .. Len(rx[q]) :
             rx[q][i].status = 0 => Fetched(Asked, q, i, rx[q][i], files)
      /\ q \in serving /\ ~Broken(q) => Fetching(ses[q], Asked, rx[q], files)
  BY DEF GetsKept
<1>2. ASSUME NEW p \in Peers, Handling(p)
      PROVE  /\ \A i \in 1 .. Len(rx'[q]) :
                   rx'[q][i].status = 0 => Fetched(Asked, q, i, rx'[q][i], files')
             /\ q \in serving' /\ ~Broken(q)' =>
                   Fetching(ses'[q], Asked, rx'[q], files')
  <2>1. /\ Serves(p) /\ p \in serving /\ serving' = serving
        /\ \A r \in Peers \ {p} : ses'[r] = ses[r] /\ rx'[r] = rx[r] /\ sock'[r] = sock[r]
    <3>1. Serves(p) /\ p \in serving
      BY <1>2, HandlingServes
    <3>2. serving' = serving
      BY <3>1 DEF Serves
    <3>3. ASSUME NEW r \in Peers \ {p}
          PROVE  ses'[r] = ses[r] /\ rx'[r] = rx[r] /\ sock'[r] = sock[r]
      BY <3>1 DEF Serves, WireStep, TypeInv, TypeOK, WireTypeOK
    <3>. QED
      BY <3>1, <3>2, <3>3
  <2>2. PICK n : Parses(p, n) /\ Progress(p, n)
    BY <2>1 DEF Parsed, Parses, Progress
  <2>3. \A i \in 1 .. Len(rx[q]) :
            rx[q][i].status = 0 => Fetched(Asked, q, i, rx[q][i], files')
    BY <1>1, <1>2, <2>2, FetchedStays
  <2>4. CASE q # p
    <3>1. ses'[q] = ses[q] /\ rx'[q] = rx[q] /\ (~Broken(q)' => ~Broken(q))
      BY <2>1, <2>4 DEF Broken
    <3>2. ASSUME q \in serving, ~Broken(q)
          PROVE  Fetching(ses[q], Asked, rx[q], files')
      <4> DEFINE s == ses[q]
      <4>1. CASE s.at \in {"get_read", "get_send"} \/ (s.at = "reply" /\ s.next = "get_read")
        <5>1. s.name \in SafeNames
          BY <4>1, WireFacts DEF LocalsFit
        <5>2. Uploads(Asked, s.name) = {} => files'[s.name] = files[s.name]
          BY <1>2, <2>2, <5>1, QuietFile
        <5>. QED
          BY <1>1, <3>2, <5>2 DEF Fetching
      <4>2. CASE s.at \notin {"get_read", "get_send"} /\ ~(s.at = "reply" /\ s.next = "get_read")
        BY <4>2, NothingFetched
      <4>. QED
        BY <4>1, <4>2
    <3>. QED
      BY <2>1, <2>3, <3>1, <3>2
  <2>5. CASE q = p
    <3>1. n = Len(rx[p]) \/ Broken(p)
      BY <2>2 DEF Parses
    <3>2. CASE Broken(p)
      <4>1. Broken(p)'
        BY <2>1, <3>2, DryStays
      <4>2. rx'[p] = rx[p]
        BY <1>2, <3>2, BrokenGetsNothing
      <4>. QED
        BY <2>3, <2>5, <4>1, <4>2
    <3>3. CASE ~Broken(p)
      <4>1. n = Len(rx[p]) /\ Fetching(ses[p], Asked, rx[p], files)
        BY <1>1, <2>1, <2>5, <3>1, <3>3
      <4>2. \A i \in 1 .. Len(rx'[p]) :
                rx'[p][i].status = 0 => Fetched(Asked, p, i, rx'[p][i], files')
        BY <1>1, <1>2, <2>2, <2>5, <3>3, <4>1, OwnFetched
      <4>3. Fetching(ses'[p], Asked, rx'[p], files')
        BY <1>2, <2>2, <4>1, OwnFetching
      <4>. QED
        BY <2>5, <4>2, <4>3
    <3>. QED
      BY <3>2, <3>3
  <2>. QED
    BY <2>4, <2>5
<1>3. ASSUME NEW p \in Peers, Handling(p)
      PROVE  Asked' = Asked
  BY <1>3, HandlingServes, SameAsked DEF Serves, WireStep
<1>4. ASSUME \A p \in Peers : ~Handling(p)
      PROVE  /\ \A i \in 1 .. Len(rx'[q]) :
                   rx'[q][i].status = 0 => Fetched(Asked', q, i, rx'[q][i], files')
             /\ q \in serving' /\ ~Broken(q)' =>
                   Fetching(ses'[q], Asked', rx'[q], files')
  <2>1. /\ Asked' = Asked /\ rx' = rx /\ files' = files
        /\ Broken(q) => Broken(q)'
        /\ q \in serving' => (q \in serving /\ ses'[q] = ses[q]) \/ ses'[q].at = "header"
    BY <1>4, OtherSteps, SameAsked
  <2>2. ses'[q].at = "header" => Fetching(ses'[q], Asked, rx[q], files)
    BY NothingFetched
  <2>. QED
    BY <1>1, <2>1, <2>2
<1>. QED
  BY <1>2, <1>3, <1>4


-----------------------------------------------------------------------------
(* The theorems.                                                           *)

(* Every session is where its locals fit, and every connection is in one   *)
(* place: the backlog, the pool's queue, or with a worker.                 *)
THEOREM Typed == Spec => []TypeInv
BY InitTypeInv, StepTypeInv, PTL DEF Spec

(* The types of the pool's queue and of the sessions' locals.              *)
THEOREM TypeCorrect == Spec => []TypeOK
<1>1. TypeInv => TypeOK
  BY DEF TypeInv
<1>. QED
  BY <1>1, Typed, PTL

(* Replies are sent whole, as long as their headers say, one after the     *)
(* other, if no file changes between the header that announces its size    *)
(* and the last of it that is sent (handle_get, send_all).                 *)
THEOREM RepliesSafe == Spec /\ [][DownloadsHeld]_vars => []RepliesFramed
<1>1. Init => Replied
  <2> SUFFICES ASSUME Init PROVE Replied
    OBVIOUS
  <2>1. serving = {} /\ \A p \in Peers : rx[p] = <<>>
    BY DEF Init, WireInit
  <2>. QED
    BY <2>1 DEF Replied, LogFits
<1>2. TypeInv /\ Replied => RepliesFramed
  <2> SUFFICES ASSUME TypeInv, Replied, NEW p \in Peers, NEW i \in DOMAIN rx[p]
               PROVE  /\ Len(rx[p][i].body) <= rx[p][i].length
                      /\ \/ i < Len(rx[p])
                         \/ p \in {q \in Peers : ses[q].at \in
                                      {"header", "name", "drain", "put_header"}}
                         => Complete(rx[p][i])
    BY DEF RepliesFramed, Framed
  <2>1. rx[p] \in Seq(Reply) /\ LogFits(rx[p])
    BY WireFacts DEF Replied
  <2>2. i \in 1 .. Len(rx[p]) /\ Len(rx[p]) \in Nat
    BY <2>1, LenProperties
  <2>3. Len(rx[p][i].body) <= rx[p][i].length
        /\ (i < Len(rx[p]) => Complete(rx[p][i]))
    BY <2>1, <2>2 DEF LogFits
  <2>4. ASSUME ses[p].at \in {"header", "name", "drain", "put_header"}, i = Len(rx[p])
        PROVE  Complete(rx[p][i])
    <3>1. Whole(rx[p])
      <4>1. p \in serving
        BY <2>4, Served
      <4>. QED
        BY <2>4, <4>1 DEF Replied, SentFits
    <3>2. rx[p] # <<>>
      BY <2>2, EmptySeq
    <3>. QED
      BY <2>4, <3>1, <3>2 DEF Whole
  <2>. QED
    BY <2>2, <2>3, <2>4
<1>3. TypeInv /\ Replied /\ [Next]_vars /\ [DownloadsHeld]_vars => Replied'
  BY StepReplied
<1>. QED
  BY <1>1, <1>2, <1>3, Typed, PTL DEF Spec

(* The replies answer the requests one by one and in order, if the peers   *)
(* mean to send whole requests: what a failed request leaves unread is not *)
(* taken for the next one (client_handler, drain_payload, handle_put).     *)
THEOREM RepliesAnswer ==
    ASSUME \A p \in Peers : \A s \in Streams[p] : WholeRequests(s)
    PROVE  Spec => []RepliesInOrder
<1>1. Init => \A p \in Peers : Parsed(p)
  BY InitParsed
<1>2. TypeInv /\ (\A p \in Peers : Parsed(p)) => RepliesInOrder
  <2> SUFFICES ASSUME TypeInv, \A p \in Peers : Parsed(p), NEW p \in Peers
               PROVE  /\ Len(rx[p]) <= Len(Asked[p])
                      /\ \A i \in DOMAIN rx[p] : rx[p][i].cmd = Asked[p][i].cmd
    BY DEF RepliesInOrder, InOrder
  <2>1. Asked[p] = AskedIn(stream[p])
    BY DEF Asked, AskedIn
  <2>2. InTurn(rx[p], AskedIn(stream[p]))
    BY DEF Parsed
  <2>3. DOMAIN rx[p] = 1 .. Len(rx[p])
    BY WireFacts, LenProperties
  <2>. QED
    BY <2>1, <2>2, <2>3 DEF InTurn
<1>3. TypeInv /\ (\A p \in Peers : Parsed(p)) /\ [Next]_vars
      => (\A p \in Peers : Parsed(p))'
  BY StepParsed
<1>. QED
  BY <1>1, <1>2, <1>3, Typed, PTL DEF Spec

(* Each block of a file is one that was sent under its name, at its place: *)
(* nothing of another connection or of another message gets into a file,   *)
(* if the peers mean to send whole requests (handle_put, write_all_fd).    *)
THEOREM BlocksSafe ==
    ASSUME \A p \in Peers : \A s \in Streams[p] : WholeRequests(s)
    PROVE  Spec => []FilesUnspoiled
<1>1. Init => \A p \in Peers : Parsed(p)
  BY InitParsed
<1>2. Init => FilesUnspoiled
  <2> SUFFICES ASSUME Init PROVE FilesUnspoiled
    OBVIOUS
  <2>1. files \in Directories
    BY DEF Init, WireInit
  <2>2. AllInPlace(Asked, files)
    BY <2>1 DEF InPlace, AllInPlace
  <2>. QED
    BY <2>2, UnspoiledIs
<1>3. TypeInv /\ (\A p \in Peers : Parsed(p)) /\ [Next]_vars
      => (\A p \in Peers : Parsed(p))'
  BY StepParsed
<1>4. TypeInv /\ (\A p \in Peers : Parsed(p)) /\ FilesUnspoiled /\ [Next]_vars
      => FilesUnspoiled'
  BY StepUnspoiled
<1>. QED
  BY <1>1, <1>2, <1>3, <1>4, Typed, PTL DEF Spec

(* A PUT acknowledged with status 0 is stored whole under its name, as     *)
(* long as no other request writes that name, if the peers mean to send    *)
(* whole requests (handle_put, recv_all, write_all_fd).                    *)
THEOREM PutSafe ==
    ASSUME \A p \in Peers : \A s \in Streams[p] : WholeRequests(s)
    PROVE  Spec => []PutStored
<1>1. Init => \A p \in Peers : Parsed(p)
  BY InitParsed
<1>2. Init => PutsKept
  <2> SUFFICES ASSUME Init PROVE PutsKept
    OBVIOUS
  <2>1. serving = {} /\ \A p \in Peers : rx[p] = <<>>
    BY DEF Init, WireInit
  <2>. QED
    BY <2>1 DEF PutsKept
<1>3. TypeInv /\ PutsKept => PutStored
  <2> SUFFICES ASSUME TypeInv, PutsKept, NEW p \in Peers, NEW i \in DOMAIN rx[p],
                      Asked[p][i].cmd = "PUT", rx[p][i].status = 0,
                      Uploads(Asked, Asked[p][i].name) = {<<p, i>>}
               PROVE  files[Asked[p][i].name] = [kind |-> "reg", data |-> Asked[p][i].bytes]
    BY DEF PutStored, UploadsStored
  <2>1. i \in 1 .. Len(rx[p])
    BY WireFacts, LenProperties
  <2>2. StoredWhole(Asked, p, i, files)
    BY <2>1 DEF PutsKept
  <2>. QED
    BY <2>2 DEF StoredWhole
<1>4. TypeInv /\ (\A p \in Peers : Parsed(p)) /\ [Next]_vars
      => (\A p \in Peers : Parsed(p))'
  BY StepParsed
<1>5. TypeInv /\ (\A p \in Peers : Parsed(p)) /\ PutsKept /\ [Next]_vars => PutsKept'
  BY StepStored
<1>. QED
  BY <1>1, <1>2, <1>3, <1>4, <1>5, Typed, PTL DEF Spec

(* A complete GET reply carries the file, as long as no request writes its *)
(* name, if the peers mean to send whole requests (handle_get).            *)
THEOREM GetSafe ==
    ASSUME \A p \in Peers : \A s \in Streams[p] : WholeRequests(s)
    PROVE  Spec => []GetIntact
<1>1. Init => \A p \in Peers : Parsed(p)
  BY InitParsed
<1>2. Init => GetsKept
  <2> SUFFICES ASSUME Init PROVE GetsKept
    OBVIOUS
  <2>1. serving = {} /\ \A p \in Peers : rx[p] = <<>>
    BY DEF Init, WireInit
  <2>. QED
    BY <2>1 DEF GetsKept
<1>3. TypeInv /\ GetsKept => GetIntact
  <2> SUFFICES ASSUME TypeInv, GetsKept, NEW p \in Peers, NEW i \in DOMAIN rx[p],
                      Asked[p][i].cmd = "GET", rx[p][i].status = 0, Complete(rx[p][i]),
                      Uploads(Asked, Asked[p][i].name) = {}
               PROVE  rx[p][i].body = files[Asked[p][i].name].data
    BY DEF GetIntact, DownloadsIntact
  <2> DEFINE name == Asked[p][i].name
             data == files[name].data
             body == rx[p][i].body
  <2>1. i \in 1 .. Len(rx[p]) /\ rx[p] \in Seq(Reply)
    BY WireFacts, LenProperties
  <2>2. name \in SafeNames /\ Carries(rx[p][i], data)
    BY <2>1 DEF GetsKept, Fetched
  <2>3. rx[p][i] \in Reply
    BY <2>1, ElementOfSeq
  <2>4. body \in Seq(Byte) /\ data \in Seq(Byte)
    BY <2>2, <2>3, WireFacts DEF File, Reply
  <2>5. Len(body) = Len(data) /\ \A k \in 1 .. Len(body) : body[k] = data[k]
    BY <2>2 DEF Carries, Complete
  <2> HIDE DEF body, data
  <2>6. body = data
    BY <2>4, <2>5, SeqEqual
  <2>. QED
    BY <2>6 DEF body, data
<1>4. TypeInv /\ (\A p \in Peers : Parsed(p)) /\ [Next]_vars
      => (\A p \in Peers : Parsed(p))'
  BY StepParsed
<1>5. TypeInv /\ (\A p \in Peers : Parsed(p)) /\ GetsKept /\ [Next]_vars => GetsKept'
  BY StepFetched
<1>. QED
  BY <1>1, <1>2, <1>3, <1>4, <1>5, Typed, PTL DEF Spec
=============================================================================
