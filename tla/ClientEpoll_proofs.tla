-------------------------- MODULE ClientEpoll_proofs --------------------------
(***************************************************************************)
(* The clients and the server of v2_epoll keep in step, for every number   *)
(* of clients and descriptors, every script and directory, and every size  *)
(* of the buffers.                                                         *)
(***************************************************************************)
EXTENDS ClientEpoll, EpollService_proofs, Client_proofs

(* Where the connection d is when it has received `got` units of S, all    *)
(* that its client means to send so far, and the client waits for the      *)
(* reply to op: the request is on its way,                                 *)
InHeader(d, S, got) ==
    d.state = "READ_HEADER" /\ d.header_buf = SubSeq(S, got + 1 - Len(d.header_buf), got)

AsksHeader(d, S, got, op) ==
    /\ InHeader(d, S, got) /\ d.pending_put_name = NULL
    /\ CommandAt(S, got + 1 - Len(d.header_buf), op)

AsksName(d, S, got, op) ==
    /\ d.state = "READ_PAYLOAD" /\ d.pending_put_name = NULL
    /\ d.payload_len = 1 /\ d.payload = <<>>
    /\ d.cur_header.cmd = op.cmd /\ op.cmd \in {"GET", "PUT"}
    /\ NameAt(S, got + 1, op)

AsksSecond(d, S, got, op) ==
    /\ InHeader(d, S, got) /\ d.pending_put_name # NULL
    /\ op.cmd = "PUT" /\ DataAt(S, got + 1 - Len(d.header_buf))

AsksData(d, S, got, op) ==
    d.state = "READ_PUT_STREAM" /\ op.cmd = "PUT" /\ got + d.put_left = Len(S)

(* or its reply is the next thing to be sent.  The refusal of an upload    *)
(* may leave its data unread, and after the last reply of a connection     *)
(* nothing is read.                                                        *)
AnswersNext(d, S, got, op) ==
    LET r == d.out_buf[1] IN
    /\ d.state = "WRITE_BUFFER" /\ d.out_sent = 0 /\ Fits(r, op)
    /\ \/ r.cmd = "PUT" /\ r.status = 1
       \/ d.close_after_write /\ r.body = <<>>
       \/ d.pending_put_name = NULL /\ got = Len(S)

Asks(d, S, got, op) ==
    \/ AsksHeader(d, S, got, op) \/ AsksName(d, S, got, op)
    \/ AsksSecond(d, S, got, op) \/ AsksData(d, S, got, op)
    \/ AnswersNext(d, S, got, op)

(* The reply was begun, or it was sent.                                    *)
Answering(d, S, got) ==
    /\ d.state \in Writing /\ (d.state = "WRITE_BUFFER" => d.out_sent > 0)
    /\ d.pending_put_name = NULL /\ got = Len(S)

Rests(d, S, got) ==
    /\ d.state = "READ_HEADER" /\ d.header_buf = <<>>
    /\ d.pending_put_name = NULL /\ got = Len(S)

Answered(d, S, got) == Answering(d, S, got) \/ Rests(d, S, got)

(* Client and server are in step, up to the first upload that is refused.  *)
Locked(c, log, un, d, S, got) ==
    /\ c.at = "prompt" => un = 0 /\ Rests(d, S, got)
    /\ c.at \in {"send", "recv"} =>
           \/ un = 0 /\ Asks(d, S, got, c.op)
           \/ InHand(c.op, log, un) /\ Answered(d, S, got)
    /\ c.at = "body" => InBody(c.left, log, un) /\ Answered(d, S, got)

Fresh(p) ==
    /\ sock[p] = "idle" /\ stream[p] = <<>> /\ rcvd[p] = 0 /\ unread[p] = 0

InStepFor(p) ==
    /\ ClientAt(p, "connect") => Fresh(p)
    /\ Attached(p) /\ ~UploadRefused(p) =>
           Locked(cli[p], rx[p], unread[p], conn[p], Means(p), rcvd[p])

TogetherInv ==
    IInv /\ ClientsTyped /\ \A p \in Peers \ Fragile : InStepFor(p)

-----------------------------------------------------------------------------
(* The client's steps.                                                     *)

LEMMA CompleteRests ==
    ASSUME NEW d, Fit(d), NEW log \in Seq(Reply), SentFits(d, log), NEW un, AllComplete(log, un),
           NEW S, NEW got, Answered(d, S, got)
    PROVE  Rests(d, S, got)
<1>1. d \in Conn /\ BuffersFit(d) /\ ReplyFits(d)
  BY DEF Fit
<1>2. d.out_sent \in Nat /\ d.get_left \in Nat
  BY <1>1 DEF Conn
<1>3. log # <<>> /\ Len(LastOf(log).body) = LastOf(log).length
  BY DEF AllComplete, Complete
<1>4. CASE d.state = "WRITE_BUFFER" /\ d.out_sent > 0
  <2> DEFINE n == d.out_sent
             m == Len(d.out_buf[1].body)
             l == d.get_left
  <2>1. /\ n <= m /\ d.out_buf[1].length = m + l
        /\ LastOf(log).length = d.out_buf[1].length /\ Len(LastOf(log).body) = n - 1
    BY <1>1, <1>4 DEF BuffersFit, ReplyFits, SentFits, LastOf
  <2>2. m + l = n - 1
    BY <1>3, <2>1
  <2>3. m \in Nat
    <3>1. d.out_buf \in Seq(Reply) /\ Len(d.out_buf) = 1
      BY <1>1, <1>4 DEF Conn, ReplyFits
    <3>2. d.out_buf[1] \in Reply
      BY <3>1, ElementOfSeq
    <3>. QED
      BY <3>2, LenProperties DEF Reply
  <2> HIDE DEF n, m, l
  <2>4. FALSE
    <3>1. n \in Nat /\ l \in Nat
      BY <1>2 DEF n, l
    <3>. QED
      BY <2>1, <2>2, <2>3, <3>1
  <2>. QED
    BY <2>4
<1>5. CASE d.state = "WRITE_GET_FILE"
  <2> DEFINE m == Len(LastOf(log).body)
             l == d.get_left
  <2>1. l > 0 /\ LastOf(log).length = m + l /\ m = LastOf(log).length
    BY <1>1, <1>3, <1>5 DEF BuffersFit, SentFits, LastOf
  <2>2. m \in Nat
    BY <1>3, LastReply DEF LastOf
  <2> HIDE DEF m, l
  <2>3. l \in Nat
    BY <1>2 DEF l
  <2>. QED
    BY <2>1, <2>2, <2>3
<1>. QED
  BY <1>4, <1>5 DEF Answered, Answering, Writing

LEMMA LockedMoves ==
    ASSUME NEW k, Fit(k), NEW log \in Seq(Reply), SentFits(k, log),
           LogFits(log), NEW un \in Nat, NEW new \in Nat, NEW S \in Seq(Unit), NEW T,
           NEW got \in Nat, NEW c, NEW d, Locked(c, log, un, k, S, got), ClientDoes(c, d, S, T, log, un, new)
    PROVE  Locked(d, log, new, k, T, got)
<1>1. CASE d.at = "closed" /\ c.at # "send" /\ T = S
  BY <1>1 DEF Locked
<1>2. CASE c.at = "prompt" /\ d.at = "prompt" /\ T = S /\ new = un
  BY <1>2 DEF Locked
<1>3. CASE /\ c.at = "prompt" /\ d.at = "send" /\ new = un
           /\ T \in Seq(Unit) /\ CommandAt(T, Len(S) + 1, d.op)
  <2>1. un = 0 /\ Rests(k, S, got)
    BY <1>3 DEF Locked
  <2>2. k.header_buf = <<>> /\ got = Len(S) /\ Len(<<>>) = 0
    BY <2>1 DEF Rests
  <2>3. SubSeq(T, got + 1, got) = <<>>
    BY <1>3
  <2>4. got + 1 - 0 = got + 1
    OBVIOUS
  <2>5. AsksHeader(k, T, got, d.op)
    BY <1>3, <2>1, <2>2, <2>3, <2>4 DEF AsksHeader, InHeader, Rests
  <2>. QED
    BY <1>3, <2>1, <2>5 DEF Locked, Asks
<1>4. CASE c.at = "send" /\ d.at \in {"send", "recv"} /\ d.op = c.op /\ T = S /\ new = un
  BY <1>4 DEF Locked
<1>5. CASE /\ c.at = "recv" /\ d.at = "body" /\ T = S /\ un > 0 /\ c.op.cmd # "QUIT"
           /\ InHand(c.op, log, un) => InBody(d.left, log, new)
  BY <1>5 DEF Locked
<1>6. CASE /\ c.at = "recv" /\ d.at = "prompt" /\ T = S /\ un > 0 /\ c.op.cmd # "QUIT"
           /\ InHand(c.op, log, un) /\ LogFits(log) => AllComplete(log, new)
  <2>1. Answered(k, S, got) /\ AllComplete(log, new)
    BY <1>6 DEF Locked
  <2>2. Rests(k, S, got)
    BY <2>1, CompleteRests
  <2>. QED
    BY <1>6, <2>1, <2>2 DEF Locked, AllComplete
<1>7. CASE /\ c.at = "body" /\ d.at = "body" /\ T = S
           /\ InBody(c.left, log, un) => InBody(d.left, log, new)
  BY <1>7 DEF Locked
<1>8. CASE /\ c.at = "body" /\ d.at = "prompt" /\ T = S
           /\ InBody(c.left, log, un) /\ LogFits(log) => AllComplete(log, new)
  <2>1. Answered(k, S, got) /\ AllComplete(log, new)
    BY <1>8 DEF Locked
  <2>2. Rests(k, S, got)
    BY <2>1, CompleteRests
  <2>. QED
    BY <1>8, <2>1, <2>2 DEF Locked, AllComplete
<1>. QED
  BY <1>1, <1>2, <1>3, <1>4, <1>5, <1>6, <1>7, <1>8 DEF ClientDoes

(* What a client's step leaves of the server's invariant.                  *)
LEMMA EndStepInv ==
    ASSUME IInv, NEW p \in Peers, EndStep(p), UNCHANGED serverVars
    PROVE  IInv'
<1>1. /\ WireTypeOK' /\ rx' = rx /\ backlog' = backlog /\ conn' = conn
      /\ \A q \in Peers \ {p} : sock'[q] = sock[q]
      /\ sock'[p] = "idle" <=> sock[p] = "idle"
      /\ Broken(p) => sock'[p] \in {"rst", "pipe"}
      /\ \A q \in Peers : unread'[q] <= unread[q]
  BY DEF EndStep, serverVars
<1>2. \A q \in Peers : sock'[q] = "idle" <=> sock[q] = "idle"
  BY <1>1
<1>3. Queued'
  BY <1>1, <1>2, SameQueue
<1>4. \A q \in Peers : Broken(q) => sock'[q] \in {"rst", "pipe"}
  BY <1>1 DEF Broken
<1>5. \A q \in Peers : Space(q) > 0 => SndBuf - unread'[q] > 0
  <2>1. TAKE q \in Peers
  <2>2. unread[q] \in Nat /\ unread'[q] \in Nat /\ SndBuf \in Nat
    BY <1>1, WireAssumption DEF IInv, TypeOK, WireTypeOK
  <2>. QED
    BY <1>1, <2>2 DEF Space
<1>. QED
  BY <1>1, <1>2, <1>3, <1>4, <1>5, PeerInv

(* The facts that the steps of client and server leave as they are.        *)
SameFor(q) ==
    /\ cli'[q] = cli[q] /\ sock'[q] = sock[q] /\ stream'[q] = stream[q]
    /\ rx'[q] = rx[q] /\ rcvd'[q] = rcvd[q] /\ unread'[q] = unread[q]
    /\ conn'[q] = conn[q] /\ (q \in Elems(backlog') => q \in Elems(backlog))

LEMMA SameInStep ==
    ASSUME NEW q, SameFor(q), InStepFor(q)
    PROVE  InStepFor(q)'
<1>1. /\ Fresh(q)' <=> Fresh(q)
      /\ ClientAt(q, "connect")' <=> ClientAt(q, "connect")
      /\ Attached(q)' => Attached(q)
      /\ UploadRefused(q)' <=> UploadRefused(q)
      /\ Means(q)' = Means(q)
  BY DEF SameFor, Fresh, ClientAt, Attached, Connected, UploadRefused, Means
<1>2. Locked(cli'[q], rx'[q], unread'[q], conn'[q], Means(q)', rcvd'[q]) <=>
      Locked(cli[q], rx[q], unread[q], conn[q], Means(q), rcvd[q])
  BY <1>1 DEF SameFor
<1>. QED
  BY <1>1, <1>2 DEF InStepFor

LEMMA OthersSame ==
    ASSUME ClientsTyped, NEW p \in Peers, EndStep(p), OwnStep(p), UNCHANGED serverVars,
           NEW q \in Peers \ {p}
    PROVE  SameFor(q)
<1>1. PICK d : Left(p, d)
  BY DEF OwnStep
<1>2. cli'[q] = cli[q]
  BY <1>1, LeftTyped
<1>3. conn' = conn
  BY DEF serverVars
<1>. QED
  BY <1>2, <1>3 DEF EndStep, SameFor

LEMMA StepKeeps ==
    ASSUME TogetherInv, NEW p \in Peers, StepIs(p), UNCHANGED serverVars
    PROVE  TogetherInv'
<1>1. IInv /\ ClientsTyped /\ WireTypeOK /\ EndStep(p) /\ OwnStep(p) /\ DoesFor(p)
  BY DEF TogetherInv, StepIs, IInv, TypeOK
<1>2. IInv' /\ ClientsTyped'
  BY <1>1, EndStepInv, StepTyped
<1>3. \A q \in Peers \ {p} : SameFor(q)
  BY <1>1, OthersSame
<1>4. \A q \in Peers \ Fragile : q # p => InStepFor(q)'
  BY <1>3, SameInStep DEF TogetherInv
<1>5. ASSUME p \notin Fragile
      PROVE  InStepFor(p)'
  <2>1. InStepFor(p)
    BY <1>5 DEF TogetherInv
  <2>2. ~ClientAt(p, "connect")'
    BY <1>1 DEF DoesFor, ClientDoes, ClientAt
  <2>3. conn' = conn /\ rx' = rx /\ rcvd' = rcvd /\ backlog' = backlog
    BY <1>1 DEF EndStep, serverVars
  <2>4. SUFFICES ASSUME Attached(p), ~UploadRefused(p)
                 PROVE  Locked(cli'[p], rx[p], unread'[p], conn[p], Means(p)', rcvd[p])
    BY <2>2, <2>3 DEF InStepFor, Attached, Connected, UploadRefused
  <2>5. Locked(cli[p], rx[p], unread[p], conn[p], Means(p), rcvd[p])
    BY <2>1, <2>4 DEF InStepFor
  <2>6. ClientDoes(cli[p], cli'[p], Means(p), Means(p)', rx[p], unread[p], unread'[p])
    BY <1>1 DEF DoesFor
  <2>7. /\ rx[p] \in Seq(Reply) /\ unread[p] \in Nat /\ unread'[p] \in Nat
        /\ rcvd[p] \in Nat /\ Means(p) \in Seq(Unit)
    BY <1>1, <1>2, MeansIs, WireAssumption DEF WireTypeOK, EndStep
  <2>8. Fit(conn[p]) /\ LogFits(rx[p])
    BY <1>1, ConnFits DEF IInv, Replied
  <2>9. CASE Connected(p)
    <3>1. SentFits(conn[p], rx[p])
      BY <1>1, <2>9 DEF IInv, Replied, Connected
    <3>. QED
      BY <2>5, <2>6, <2>7, <2>8, <3>1, LockedMoves
  <2>10. CASE ~Connected(p)
    <3>1. conn[p] = NoConn /\ rx[p] = <<>>
      <4>1. PICK i \in 1 .. Len(backlog) : backlog[i] = p
        <5>1. backlog \in Seq(Peers) /\ p \in Elems(backlog)
          BY <1>1, <2>4, <2>10 DEF Attached, WireTypeOK
        <5>. QED
          BY <5>1 DEF Elems
      <4>. QED
        BY <1>1, <2>10, <4>1 DEF IInv, Queued, Watched, Connected
    <3>2. SentFits(conn[p], rx[p])
      BY <3>1 DEF SentFits, NoConn, NewConn, Whole
    <3>. QED
      BY <2>5, <2>6, <2>7, <2>8, <3>2, LockedMoves
  <2>. QED
    BY <2>9, <2>10
<1>. QED
  BY <1>2, <1>4, <1>5 DEF TogetherInv

LEMMA GiveUpKeeps ==
    ASSUME TogetherInv, NEW p \in Peers, GivenUp(p), UNCHANGED serverVars,
           p \in Fragile \/ ~Attached(p)
    PROVE  TogetherInv'
<1>1. IInv /\ ClientsTyped /\ WireTypeOK /\ EndStep(p) /\ OwnStep(p) /\ cli'[p].at # "connect"
  BY DEF TogetherInv, GivenUp, IInv, TypeOK
<1>2. IInv' /\ ClientsTyped'
  BY <1>1, EndStepInv, StepTyped
<1>3. \A q \in Peers \ {p} : SameFor(q)
  BY <1>1, OthersSame
<1>4. \A q \in Peers \ Fragile : q # p => InStepFor(q)'
  BY <1>3, SameInStep DEF TogetherInv
<1>5. ASSUME p \notin Fragile
      PROVE  InStepFor(p)'
  <2>1. conn' = conn /\ backlog' = backlog
    BY <1>1 DEF EndStep, serverVars
  <2>2. ~Attached(p)' /\ ~ClientAt(p, "connect")'
    BY <1>1, <1>5, <2>1 DEF Attached, Connected, ClientAt
  <2>. QED
    BY <2>2 DEF InStepFor
<1>. QED
  BY <1>2, <1>4, <1>5 DEF TogetherInv

LEMMA BeginKeeps ==
    ASSUME TogetherInv, NEW p \in Peers, NEW d, cli' = [cli EXCEPT ![p] = d],
           Begins(p, running), UNCHANGED serverVars
    PROVE  TogetherInv'
<1>1. IInv /\ ClientsTyped /\ ClientsTyped' /\ Connect(p) /\ running /\ cli'[p].at = "prompt"
      /\ cli[p].at = "connect" /\ WireTypeOK /\ WireTypeOK'
  BY DEF TogetherInv, Begins, IInv, TypeOK
<1>2. IInv'
  BY <1>1, PeerConnectsInv DEF PeerConnects
<1>3. /\ conn' = conn /\ stream' = stream /\ rcvd' = rcvd /\ rx' = rx /\ unread' = unread
      /\ sock[p] = "idle" /\ sock' = [sock EXCEPT ![p] = "open"]
      /\ backlog' = Append(backlog, p)
  BY <1>1 DEF Connect, serverVars
<1>4. \A q \in Peers \ Fragile : q # p => InStepFor(q)'
  <2>1. SUFFICES ASSUME NEW q \in Peers \ Fragile, q # p
                 PROVE  InStepFor(q)'
    OBVIOUS
  <2>2. q \in Elems(backlog') => q \in Elems(backlog)
    <3>1. backlog \in Seq(Peers)
      BY <1>1 DEF WireTypeOK
    <3>2. /\ Len(backlog') = Len(backlog) + 1
          /\ \A i \in 1 .. Len(backlog) : backlog'[i] = backlog[i]
          /\ backlog'[Len(backlog) + 1] = p
          /\ DOMAIN backlog' = 1 .. Len(backlog) + 1
      BY <1>3, <3>1, AppendProperties
    <3>3. DOMAIN backlog = 1 .. Len(backlog) /\ Len(backlog) \in Nat
      BY <3>1
    <3>4. SUFFICES ASSUME NEW i \in 1 .. Len(backlog) + 1, backlog'[i] = q
                   PROVE  \E j \in 1 .. Len(backlog) : backlog[j] = q
      BY <3>2, <3>3 DEF Elems
    <3>5. i # Len(backlog) + 1
      BY <2>1, <3>2, <3>4
    <3>6. i \in 1 .. Len(backlog)
      BY <3>3, <3>5
    <3>. QED
      BY <3>2, <3>4, <3>6
  <2>3. cli'[q] = cli[q] /\ sock'[q] = sock[q]
    BY <1>1, <1>3, <2>1 DEF ClientsTyped, WireTypeOK
  <2>4. SameFor(q)
    BY <1>3, <2>2, <2>3 DEF SameFor
  <2>. QED
    BY <2>4, SameInStep DEF TogetherInv
<1>5. ASSUME p \notin Fragile
      PROVE  InStepFor(p)'
  <2>1. Fresh(p)
    BY <1>1, <1>5 DEF TogetherInv, InStepFor, ClientAt
  <2>2. conn[p] = NoConn
    BY <1>1, <1>3 DEF IInv, Queued, Watched
  <2>3. Means(p)' = <<>>
    <3>1. cli'[p].out = <<>>
      BY <1>1 DEF ClientsTyped, Between
    <3>2. stream'[p] = <<>>
      BY <1>3, <2>1 DEF Fresh
    <3>3. <<>> \o <<>> = <<>>
      OBVIOUS
    <3>. QED
      BY <3>1, <3>2, <3>3 DEF Means
  <2>4. Rests(conn'[p], Means(p)', rcvd'[p]) /\ unread'[p] = 0
    BY <1>3, <2>1, <2>2, <2>3 DEF Rests, NoConn, NewConn, Fresh
  <2>. QED
    BY <1>1, <2>4 DEF InStepFor, Locked, ClientAt
<1>. QED
  BY <1>1, <1>2, <1>4, <1>5 DEF TogetherInv

LEMMA UserKeeps ==
    ASSUME TogetherInv, NEW p \in Peers, UserRuns(p) \/ UserBreaks(p)
    PROVE  TogetherInv'
<1>1. ClientsTyped /\ WireTypeOK
  BY DEF TogetherInv, IInv, TypeOK
<1>2. UNCHANGED serverVars
  BY DEF UserRuns, UserBreaks
<1>3. CASE Connects(p, running)
  <2>1. \E d : cli' = [cli EXCEPT ![p] = d]
    BY <1>3 DEF Connects, Becomes
  <2>. QED
    BY <1>1, <1>2, <1>3, <2>1, ConnectsIs, BeginKeeps, StepKeeps
<1>4. CASE \/ Types(p) \/ InputEnds(p) \/ Transmits(p) \/ RecvReply(p) \/ RecvBody(p)
           \/ BodyEnds(p) \/ CloseArrives(p, Attached(p))
  <2>1. StepIs(p)
    BY <1>1, <1>4, TypesIs, InputEndsIs, TransmitsIs, RecvReplyIs, RecvBodyIs, BodyEndsIs,
       CloseArrivesIs
  <2>. QED
    BY <1>2, <2>1, StepKeeps
<1>5. CASE TransmitFails(p, Attached(p)) \/ NoReply(p, Attached(p))
  <2>1. ~Attached(p)
    BY <1>5 DEF TransmitFails, NoReply, Reset
  <2>2. GivenUp(p)
    BY <1>1, <1>5, TransmitFailsIs, NoReplyIs
  <2>. QED
    BY <1>2, <2>1, <2>2, GiveUpKeeps
<1>6. CASE p \in Fragile /\ (DiskFails(p) \/ Killed(p))
  BY <1>1, <1>2, <1>6, DiskFailsIs, KilledIs, GiveUpKeeps
<1>. QED
  BY <1>3, <1>4, <1>5, <1>6 DEF UserRuns, UserBreaks, ClientRuns, ClientBreaks

-----------------------------------------------------------------------------
(* The handlers that read: what a client asks for is on its way until its  *)
(* reply is the next thing to be sent.                                     *)

Serves(p, S) ==
    /\ Rests(conn[p], S, rcvd[p]) => Rests(conn'[p], S, rcvd'[p])
    /\ \A op : Asks(conn[p], S, rcvd[p], op) => Asks(conn'[p], S, rcvd'[p], op)

(* The units of `buf` end at what was received; with what has arrived they *)
(* are `units`.                                                            *)
Holds(S, buf, got) == buf \in Seq(Unit) /\ buf = SubSeq(S, got + 1 - Len(buf), got)

Gathers(units, buf, p, n) == units = buf \o Received(p, n)

LEMMA UnitsTaken ==
    ASSUME IInv, ClientsTyped, NEW p \in Peers, NEW S, S = Means(p), NEW n \in Nat, Take(p, n),
           NEW buf, Holds(S, buf, rcvd[p]), Len(buf) <= rcvd[p],
           NEW units, Gathers(units, buf, p, n)
    PROVE  LET i == rcvd[p] + 1 - Len(buf) IN
           /\ rcvd'[p] \in Nat /\ rcvd[p] \in Nat /\ rcvd[p] <= rcvd'[p]
           /\ rcvd'[p] <= Len(S) /\ rcvd'[p] <= rcvd[p] + n
           /\ i \in Nat /\ i >= 1 /\ Len(units) = rcvd'[p] + 1 - i
           /\ Holds(S, units, rcvd'[p])
           /\ \A k \in 1 .. Len(units) : units[k] = S[i + k - 1]
<1> DEFINE got == rcvd[p]
           upto == rcvd'[p]
           i == got + 1 - Len(buf)
           s == stream[p]
<1>1. /\ upto \in Nat /\ got \in Nat /\ got <= upto /\ upto <= got + n
      /\ upto <= Len(s) /\ Received(p, n) = SubSeq(s, got + 1, upto)
  BY TakenUnits
<1>2. /\ S \in Seq(Unit) /\ Len(S) \in Nat /\ Len(s) \in Nat /\ Len(s) <= Len(S)
      /\ \A j \in 1 .. Len(s) : S[j] = s[j]
      /\ s \in Seq(Unit)
  BY StreamIsMeant DEF IInv, TypeOK, WireTypeOK
<1>3. Len(buf) \in Nat /\ Len(buf) <= got /\ buf = SubSeq(S, i, got)
  BY LenProperties DEF Holds
<1> HIDE DEF got, upto, s
<1>10. Len(buf) \in Nat /\ Len(buf) <= got /\ got \in Nat
  BY <1>1, <1>3
<1>11. i \in Nat /\ i >= 1 /\ i <= got + 1
  BY <1>10
<1>12. upto <= Len(S) /\ got + 1 <= upto + 1
  BY <1>1, <1>2
<1>4. i \in Nat /\ i >= 1 /\ i <= got + 1 /\ upto <= Len(S) /\ got + 1 <= upto + 1
  BY <1>11, <1>12
<1> HIDE DEF i
<1>5. SubSeq(s, got + 1, upto) = SubSeq(S, got + 1, upto)
  <2>1. got + 1 \in Nat /\ got + 1 >= 1
    BY <1>1
  <2>. QED
    BY <1>1, <1>2, <1>4, <2>1, SamePart
<1>6. Joins(S, i, got, upto)
  BY <1>1, <1>2, <1>4, SubSeqJoin
<1>7. /\ units = SubSeq(S, i, upto) /\ units \in Seq(Unit) /\ Len(units) = upto + 1 - i
      /\ \A k \in 1 .. upto + 1 - i : units[k] = S[i + k - 1]
  BY <1>1, <1>3, <1>5, <1>6 DEF Joins, Gathers
<1>8. upto + 1 - Len(units) = i
  BY <1>1, <1>4, <1>7
<1>9. Holds(S, units, upto)
  BY <1>7, <1>8 DEF Holds
<1>. QED
  BY <1>1, <1>4, <1>7, <1>9 DEF got, upto, i

(* A reply to op is queued.                                                *)
LEMMA QueuedIsNext ==
    ASSUME NEW d, Fit(d), NEW cmd, NEW status, Replies(d, cmd, status),
           NEW op, status = 1 \/ (status = 0 /\ cmd = op.cmd), NEW S, NEW got,
           \/ cmd = "PUT" /\ status = 1
           \/ d.close_after_write /\ status = 1
           \/ d.pending_put_name = NULL /\ got = Len(S)
    PROVE  Asks(d, S, got, op)
<1> DEFINE r == d.out_buf[1]
<1>1. /\ d.state = "WRITE_BUFFER" /\ d.out_sent = 0 /\ d.get_left = 0
      /\ r.cmd = cmd /\ r.status = status
      /\ (cmd = "LIST" /\ status = 0) \/ r.body = <<>>
  BY DEF Replies
<1>2. r.body = <<>> => r.length = 0
  <2>1. r.length = Len(r.body) + d.get_left
    BY <1>1 DEF Fit, ReplyFits
  <2>. QED
    BY <1>1, <2>1
<1> HIDE DEF r
<1>3. Fits(r, op)
  BY <1>1, <1>2 DEF Fits
<1>4. AnswersNext(d, S, got, op)
  BY <1>1, <1>3 DEF AnswersNext, r
<1>. QED
  BY <1>4 DEF Asks

(* handle_request has the header and the payload of the request op.        *)
LEMMA RequestAsks ==
    ASSUME NEW c, c.pending_put_name = NULL, NEW op, NEW h, h.cmd = op.cmd,
           op.cmd \in {"LIST", "GET", "PUT", "QUIT"},
           NEW units, NEW d, Fit(d), NEW ft, Requested(c, h, units, d, ft),
           NEW S \in Seq(Unit), NEW got \in Nat,
           op.cmd # "PUT" => got = Len(S),
           op.cmd = "PUT" => DataAt(S, got + 1)
    PROVE  Asks(d, S, got, op)
<1>1. CASE /\ \E status \in {0, 1} :
                 /\ Replies(d, h.cmd, status) /\ (status = 0 => h.cmd \in {"LIST", "QUIT"})
                 /\ status = 0 /\ h.cmd = "LIST" => d.out_buf[1].body \in Listings
           /\ d.pending_put_name = c.pending_put_name
  <2>1. PICK status \in {0, 1} :
            Replies(d, h.cmd, status) /\ (status = 0 => h.cmd \in {"LIST", "QUIT"})
    BY <1>1
  <2>2. \/ h.cmd = "PUT" /\ status = 1
        \/ d.pending_put_name = NULL /\ got = Len(S)
    BY <1>1, <2>1
  <2>3. status = 1 \/ (status = 0 /\ h.cmd = op.cmd)
    OBVIOUS
  <2>. QED
    BY <2>1, <2>2, <2>3, QueuedIsNext
<1>2. CASE /\ h.cmd = "GET" /\ Named(units)
           /\ Downloads(d, ft, NameOf(units), Len(files[NameOf(units)].data))
           /\ d.pending_put_name = c.pending_put_name
  <2>1. AnswersNext(d, S, got, op)
    BY <1>2 DEF Downloads, AnswersNext, Fits
  <2>. QED
    BY <2>1 DEF Asks
<1>3. CASE /\ h.cmd = "PUT" /\ Named(units)
           /\ d.state = "READ_HEADER" /\ d.header_buf = <<>>
           /\ d.pending_put_name = NameOf(units)
  <2>1. d.pending_put_name # NULL
    BY <1>3, NullAssumption DEF Named
  <2>2. got + 1 - 0 = got + 1 /\ Len(<<>>) = 0 /\ SubSeq(S, got + 1, got) = <<>>
    OBVIOUS
  <2>3. AsksSecond(d, S, got, op)
    BY <1>3, <2>1, <2>2 DEF AsksSecond, InHeader
  <2>. QED
    BY <2>3 DEF Asks
<1>. QED
  BY <1>1, <1>2, <1>3 DEF Requested

(* The first header of op is whole.                                        *)
LEMMA FirstHeaderAsks ==
    ASSUME NEW p, NEW e, e.pending_put_name = NULL, NEW h, e.cur_header = h,
           HeaderDone(p, e, h), ~Gone(p), Fit(conn'[p]),
           NEW S \in Seq(Unit), NEW i \in Nat, NEW got \in Nat, got + 1 = i + HdrLen,
           NEW op, CommandAt(S, i, op), h.cmd = op.cmd, h.length = NameLen(op.cmd)
    PROVE  Asks(conn'[p], S, got, op)
<1> DEFINE d == conn'[p]
<1>1. Len(S) \in Nat /\ HdrLen \in Nat
  BY WireAssumption
<1>2. op.cmd \in {"LIST", "GET", "PUT", "QUIT"}
  BY DEF CommandAt
<1>3. CASE op.cmd \in {"LIST", "QUIT"}
  <2>1. h.length = 0 /\ Len(S) + 1 = i + HdrLen
    BY <1>3 DEF NameLen, CommandAt
  <2>2. got = Len(S)
    BY <1>1, <2>1
  <2>3. RequestedFrom(p, e, h, <<>>) \/ RefusedFrom(p, e, h.cmd)
    BY <2>1 DEF HeaderDone
  <2>4. CASE RequestedFrom(p, e, h, <<>>)
    <3>1. Requested(e, h, <<>>, d, fdtab')
      BY <2>4 DEF RequestedFrom
    <3> HIDE DEF d
    <3>2. Asks(d, S, got, op)
      BY <1>2, <1>3, <2>2, <3>1, RequestAsks DEF d
    <3>. QED
      BY <3>2 DEF d
  <2>5. CASE RefusedFrom(p, e, h.cmd)
    <3>1. Replies(d, h.cmd, 1) /\ d.close_after_write
      BY <2>5 DEF RefusedFrom
    <3> HIDE DEF d
    <3>2. Asks(d, S, got, op)
      BY <3>1, QueuedIsNext DEF d
    <3>. QED
      BY <3>2 DEF d
  <2>. QED
    BY <2>3, <2>4, <2>5
<1>4. CASE op.cmd \in {"GET", "PUT"}
  <2>1. h.length = 1 /\ NameAt(S, i + HdrLen, op)
    BY <1>4 DEF NameLen, CommandAt
  <2>2. NameAt(S, got + 1, op)
    BY <2>1
  <2>3. RefusedFrom(p, e, h.cmd) \/ Expects(e, h, d)
    BY <2>1 DEF HeaderDone
  <2>4. CASE RefusedFrom(p, e, h.cmd)
    <3>1. Replies(d, h.cmd, 1) /\ d.close_after_write
      BY <2>4 DEF RefusedFrom
    <3> HIDE DEF d
    <3>2. Asks(d, S, got, op)
      BY <3>1, QueuedIsNext DEF d
    <3>. QED
      BY <3>2 DEF d
  <2>5. CASE Expects(e, h, d)
    <3>1. AsksName(d, S, got, op)
      BY <1>4, <2>1, <2>2, <2>5 DEF AsksName, Expects
    <3>. QED
      BY <3>1 DEF Asks
  <2>. QED
    BY <2>3, <2>4, <2>5
<1>. QED
  BY <1>2, <1>3, <1>4

(* So is the second header of a PUT.                                       *)
LEMMA SecondHeaderAsks ==
    ASSUME NEW p, NEW e, e.pending_put_name # NULL, NEW h,
           HeaderDone(p, e, h), ~Gone(p), Fit(conn'[p]),
           NEW S \in Seq(Unit), NEW i \in Nat, NEW got \in Nat, got + 1 = i + HdrLen,
           NEW op, op.cmd = "PUT", DataAt(S, i), h.cmd = "PUT",
           h.length = Len(S) + 1 - (i + HdrLen)
    PROVE  Asks(conn'[p], S, got, op)
<1> DEFINE d == conn'[p]
           len == h.length
<1>1. Len(S) \in Nat /\ HdrLen \in Nat
  BY WireAssumption
<1>2. got + len = Len(S)
  BY <1>1
<1>3. \/ Replies(d, "PUT", 1)
      \/ len = 0 /\ Replies(d, "PUT", 0) /\ d.pending_put_name = NULL
      \/ \E name : Uploading(d, fdtab', name, len, 0)
  BY DEF HeaderDone, OpenedFrom
<1>4. CASE Replies(d, "PUT", 1)
  <2> HIDE DEF d
  <2>1. Asks(d, S, got, op)
    BY <1>4, QueuedIsNext DEF d
  <2>. QED
    BY <2>1 DEF d
<1>5. CASE len = 0 /\ Replies(d, "PUT", 0) /\ d.pending_put_name = NULL
  <2> HIDE DEF d
  <2>1. got = Len(S)
    BY <1>2, <1>5
  <2>2. Asks(d, S, got, op)
    BY <1>5, <2>1, QueuedIsNext DEF d
  <2>. QED
    BY <2>2 DEF d
<1>6. CASE \E name : Uploading(d, fdtab', name, len, 0)
  <2>1. AsksData(d, S, got, op)
    BY <1>2, <1>6 DEF AsksData, Uploading
  <2>. QED
    BY <2>1 DEF Asks
<1>. QED
  BY <1>3, <1>4, <1>5, <1>6

LEMMA ReadHeaderServes ==
    ASSUME IInv, IInv', ClientsTyped, NEW p \in Peers, conn[p].state = "READ_HEADER",
           HandleReadHeader(p), NEW S, S = Means(p)
    PROVE  Gone(p) \/ Serves(p, S)
<1> DEFINE k == conn[p]
           d == conn'[p]
           buf == k.header_buf
           need == HdrLen - Len(buf)
           units == buf \o Received(p, need)
           got == rcvd[p]
           upto == rcvd'[p]
<1>1. /\ need \in Nat /\ Take(p, need)
      /\ \/ Gone(p)
         \/ HeaderKept(k, units, d)
         \/ /\ Len(units) = HdrLen
            /\ units[1].head \in Header => HeaderTaken(p, k, units[1].head)
  BY ReadHeaderDoes
<1>2. /\ S \in Seq(Unit) /\ Len(S) \in Nat /\ got \in Nat /\ HdrLen \in Nat /\ HdrLen > 0
  <2>1. WireTypeOK
    BY DEF IInv, TypeOK
  <2>2. S \in Seq(Unit) /\ Len(S) \in Nat
    BY <2>1, MeansIs
  <2>3. got \in Nat
    BY <2>1 DEF WireTypeOK
  <2>. QED
    BY <2>2, <2>3, WireAssumption
<1>3. buf \in Seq(Unit) /\ Len(buf) \in Nat
  BY ConnFits DEF Conn
<1>4. Fit(d)
  BY DEF IInv, TypeOK, Fit
<1>5. SUFFICES ASSUME ~Gone(p)
               PROVE  Serves(p, S)
  OBVIOUS
<1>6. /\ k = conn[p] /\ d = conn'[p] /\ buf = k.header_buf /\ got = rcvd[p] /\ upto = rcvd'[p]
      /\ units = buf \o Received(p, need) /\ k.state = "READ_HEADER"
  OBVIOUS
<1> HIDE DEF units, need, d, k, buf, got, upto
<1>7. ASSUME Rests(k, S, got)
      PROVE  Rests(d, S, upto)
  <2>1. buf = <<>> /\ got = Len(S) /\ k.pending_put_name = NULL
    BY <1>6, <1>7 DEF Rests
  <2>2. got + 1 - 0 = got + 1 /\ Len(<<>>) = 0 /\ SubSeq(S, got + 1, got) = <<>>
    BY <1>2
  <2>3. Holds(S, buf, got) /\ Len(buf) <= got
    BY <1>2, <1>3, <2>1, <2>2 DEF Holds
  <2>4. /\ upto \in Nat /\ got <= upto /\ upto <= Len(S)
        /\ Len(units) = upto + 1 - (got + 1 - Len(buf)) /\ Holds(S, units, upto)
    <3>1. /\ need \in Nat /\ Take(p, need) /\ Holds(S, buf, rcvd[p]) /\ Len(buf) <= rcvd[p]
          /\ Gathers(units, buf, p, need)
      BY <1>1, <1>6, <2>3 DEF Gathers
    <3>2. LET j == rcvd[p] + 1 - Len(buf) IN
          /\ rcvd'[p] \in Nat /\ rcvd[p] <= rcvd'[p] /\ rcvd'[p] <= Len(S)
          /\ Len(units) = rcvd'[p] + 1 - j /\ Holds(S, units, rcvd'[p])
      BY <3>1, UnitsTaken
    <3>. QED
      BY <1>6, <3>2
  <2>5. upto = got /\ Len(units) = 0
    <3>1. upto = got
      BY <1>2, <2>1, <2>4
    <3>2. Len(buf) = 0
      BY <2>1, <2>2
    <3>. QED
      BY <1>2, <2>4, <3>1, <3>2
  <2>6. units = <<>>
    BY <2>4, <2>5, EmptySeq DEF Holds
  <2>7. HeaderKept(k, units, d)
    BY <1>1, <1>2, <1>5, <2>5
  <2>. QED
    BY <2>1, <2>5, <2>6, <2>7 DEF HeaderKept, Rests
<1>8. ASSUME NEW op, Asks(k, S, got, op)
      PROVE  Asks(d, S, upto, op)
  <2> DEFINE i == got + 1 - Len(buf)
  <2>1. AsksHeader(k, S, got, op) \/ AsksSecond(k, S, got, op)
    BY <1>6, <1>8 DEF Asks, AsksName, AsksData, AnswersNext
  <2>2. /\ buf = SubSeq(S, i, got)
        /\ \/ k.pending_put_name = NULL /\ CommandAt(S, i, op)
           \/ k.pending_put_name # NULL /\ op.cmd = "PUT" /\ DataAt(S, i)
    BY <1>6, <2>1 DEF AsksHeader, AsksSecond, InHeader
  <2>3. i >= 1
    BY <2>2 DEF CommandAt, DataAt, HeaderIs
  <2>4. Holds(S, buf, got) /\ Len(buf) <= got
    BY <1>2, <1>3, <2>2, <2>3 DEF Holds
  <2>5. /\ upto \in Nat /\ i \in Nat /\ Len(units) = upto + 1 - i
        /\ units = SubSeq(S, upto + 1 - Len(units), upto)
        /\ \A j \in 1 .. Len(units) : units[j] = S[i + j - 1]
    <3>1. /\ need \in Nat /\ Take(p, need) /\ Holds(S, buf, rcvd[p]) /\ Len(buf) <= rcvd[p]
          /\ Gathers(units, buf, p, need)
      BY <1>1, <1>6, <2>4 DEF Gathers
    <3>2. LET j == rcvd[p] + 1 - Len(buf) IN
          /\ rcvd'[p] \in Nat /\ j \in Nat /\ Len(units) = rcvd'[p] + 1 - j
          /\ Holds(S, units, rcvd'[p])
          /\ \A m \in 1 .. Len(units) : units[m] = S[j + m - 1]
      BY <3>1, UnitsTaken
    <3>. QED
      BY <1>6, <3>2 DEF Holds
  <2> HIDE DEF i
  <2>6. upto + 1 - Len(units) = i
    BY <2>5
  <2>7. CASE HeaderKept(k, units, d)
    <3>1. InHeader(d, S, upto) /\ upto + 1 - Len(d.header_buf) = i
      BY <2>5, <2>6, <2>7 DEF InHeader, HeaderKept
    <3>2. d.pending_put_name = k.pending_put_name
      BY <2>7 DEF HeaderKept
    <3>3. AsksHeader(d, S, upto, op) \/ AsksSecond(d, S, upto, op)
      BY <2>2, <3>1, <3>2 DEF AsksHeader, AsksSecond
    <3>. QED
      BY <3>3 DEF Asks
  <2>9. i \in Nat /\ RunAt(units, S, i)
    BY <2>5 DEF RunAt
  <2>8. CASE /\ Len(units) = HdrLen
             /\ units[1].head \in Header => HeaderTaken(p, k, units[1].head)
    <3> DEFINE h == units[1].head
    <3>1. upto + 1 = i + HdrLen
      BY <1>2, <2>5, <2>8
    <3>4. Len(units) = HdrLen
      BY <2>8
    <3>2. CASE k.pending_put_name = NULL /\ CommandAt(S, i, op)
      <4> DEFINE n == NameLen(op.cmd)
      <4>1. op.cmd \in Cmds /\ n \in Nat /\ HeaderIs(S, i, op.cmd, n)
        BY <3>2 DEF CommandAt, Cmds, NameLen
      <4> HIDE DEF n
      <4>2. h = Plain(op.cmd, n)
        BY <2>9, <3>4, <4>1, HeaderInBuffer
      <4>3. h \in Header
        BY <4>1, <4>2 DEF Header, Plain
      <4>4. h.cmd = op.cmd /\ h.length = n
        BY <4>2 DEF Plain
      <4>5. PICK e : /\ e.cur_header = h /\ e.pending_put_name = NULL
                     /\ HeaderDone(p, e, h)
        BY <2>8, <3>2, <4>3 DEF HeaderTaken
      <4> HIDE DEF h
      <4>. QED
        BY <1>2, <1>4, <1>5, <1>6, <2>5, <3>1, <3>2, <4>4, <4>5, FirstHeaderAsks DEF n
    <3>3. CASE k.pending_put_name # NULL /\ op.cmd = "PUT" /\ DataAt(S, i)
      <4> DEFINE n == Len(S) + 1 - (i + HdrLen)
      <4>1. HeaderIs(S, i, "PUT", n)
        BY <3>3 DEF DataAt
      <4>2. n \in Nat
        <5>1. i + HdrLen <= Len(S) + 1
          BY <4>1 DEF HeaderIs
        <5>2. i \in Nat /\ Len(S) \in Nat /\ HdrLen \in Nat
          BY <1>2, <2>5
        <5>. QED
          BY <5>1, <5>2
      <4> HIDE DEF n
      <4>3. h = Plain("PUT", n)
        BY <2>9, <3>4, <4>1, HeaderInBuffer
      <4>4. h \in Header
        BY <4>2, <4>3 DEF Header, Cmds, Plain
      <4>5. h.cmd = "PUT" /\ h.length = n
        BY <4>3 DEF Plain
      <4>6. PICK e : /\ e.cur_header = h /\ e.pending_put_name # NULL
                     /\ HeaderDone(p, e, h)
        BY <2>8, <3>3, <4>4 DEF HeaderTaken
      <4> HIDE DEF h
      <4>. QED
        BY <1>2, <1>4, <1>5, <1>6, <2>5, <3>1, <3>3, <4>5, <4>6, SecondHeaderAsks DEF n
    <3>. QED
      BY <2>2, <3>2, <3>3
  <2>. QED
    BY <1>1, <1>5, <2>7, <2>8
<1>. QED
  BY <1>6, <1>7, <1>8 DEF Serves

LEMMA ReadPayloadServes ==
    ASSUME IInv, IInv', ClientsTyped, NEW p \in Peers, conn[p].state = "READ_PAYLOAD",
           HandleReadPayload(p), NEW S, S = Means(p)
    PROVE  Gone(p) \/ Serves(p, S)
<1> DEFINE k == conn[p]
           d == conn'[p]
           need == k.payload_len - Len(k.payload)
           units == k.payload \o Received(p, need)
           got == rcvd[p]
           upto == rcvd'[p]
<1>1. /\ need \in Nat /\ Take(p, need)
      /\ \/ Gone(p)
         \/ PayloadKept(k, units, d)
         \/ Len(units) = k.payload_len /\ PayloadTaken(p, k, units)
  BY ReadPayloadDoes
<1>2. S \in Seq(Unit) /\ Len(S) \in Nat /\ got \in Nat
  BY MeansIs DEF IInv, TypeOK, WireTypeOK
<1>3. Fit(d)
  BY DEF IInv, TypeOK, Fit
<1>4. SUFFICES ASSUME ~Gone(p)
               PROVE  Serves(p, S)
  OBVIOUS
<1>5. ~Rests(k, S, got)
  BY DEF Rests
<1>6. SUFFICES ASSUME NEW op, Asks(k, S, got, op)
               PROVE  Asks(d, S, upto, op)
  BY <1>5 DEF Serves
<1>7. AsksName(k, S, got, op)
  BY <1>6 DEF Asks, AsksHeader, AsksSecond, InHeader, AsksData, AnswersNext
<1>8. k.payload = <<>> /\ k.payload_len = 1
  BY <1>7 DEF AsksName
<1>9. /\ k = conn[p] /\ d = conn'[p] /\ got = rcvd[p] /\ upto = rcvd'[p]
      /\ Gathers(units, k.payload, p, need)
  BY DEF Gathers
<1> HIDE DEF units, need, d, k, got, upto
<1>10. got + 1 - 0 = got + 1 /\ Len(<<>>) = 0 /\ SubSeq(S, got + 1, got) = <<>>
  BY <1>2
<1>11. /\ Holds(S, k.payload, rcvd[p]) /\ Len(k.payload) <= rcvd[p]
       /\ Len(k.payload) = 0
  BY <1>2, <1>8, <1>9, <1>10 DEF Holds
<1>12. LET j == rcvd[p] + 1 - Len(k.payload) IN
       /\ rcvd'[p] \in Nat /\ Len(units) = rcvd'[p] + 1 - j /\ Holds(S, units, rcvd'[p])
  <2> DEFINE buf == k.payload
  <2>1. /\ need \in Nat /\ Take(p, need) /\ Holds(S, buf, rcvd[p]) /\ Len(buf) <= rcvd[p]
        /\ Gathers(units, buf, p, need)
    BY <1>1, <1>9, <1>11
  <2> HIDE DEF buf
  <2>2. LET j == rcvd[p] + 1 - Len(buf) IN
        /\ rcvd'[p] \in Nat /\ Len(units) = rcvd'[p] + 1 - j /\ Holds(S, units, rcvd'[p])
    BY <2>1, UnitsTaken
  <2>. QED
    BY <2>2 DEF buf
<1>13. upto \in Nat /\ Len(units) = upto - got /\ units \in Seq(Unit)
  <2>1. upto \in Nat /\ Len(units) = upto + 1 - (got + 1 - 0) /\ units \in Seq(Unit)
    BY <1>9, <1>11, <1>12 DEF Holds
  <2>. QED
    BY <1>2, <2>1
<1>14. CASE PayloadKept(k, units, d)
  <2>1. d.payload = units /\ d.payload_len = 1 /\ d.state = "READ_PAYLOAD"
    BY <1>8, <1>14 DEF PayloadKept
  <2>2. Len(units) < 1
    BY <1>3, <2>1 DEF Fit, BuffersFit
  <2>3. upto = got
    BY <1>2, <1>13, <2>2
  <2>4. units = <<>>
    BY <1>2, <1>13, <2>3, EmptySeq
  <2>5. AsksName(d, S, upto, op)
    BY <1>7, <1>8, <1>14, <2>1, <2>3, <2>4 DEF AsksName, PayloadKept
  <2>. QED
    BY <2>5 DEF Asks
<1>15. CASE Len(units) = k.payload_len /\ PayloadTaken(p, k, units)
  <2>7. Len(units) = 1
    BY <1>8, <1>15
  <2>1. upto = got + 1
    <3>1. got \in Nat /\ upto \in Nat /\ upto - got = 1
      BY <1>2, <1>13, <2>7
    <3>. QED
      BY <3>1
  <2>2. /\ k.cur_header.cmd = op.cmd /\ op.cmd \in {"GET", "PUT"}
        /\ NameAt(S, upto, op) /\ k.pending_put_name = NULL
    BY <1>7, <2>1 DEF AsksName
  <2>3. PICK e : e.pending_put_name = NULL /\ RequestedFrom(p, e, k.cur_header, units)
    BY <1>15, <2>2 DEF PayloadTaken
  <2>4. Requested(e, k.cur_header, units, d, fdtab')
    BY <1>4, <1>9, <2>3 DEF RequestedFrom
  <2>5. /\ op.cmd # "PUT" => upto = Len(S)
        /\ op.cmd = "PUT" => DataAt(S, upto + 1)
    BY <2>2 DEF NameAt
  <2> DEFINE h == k.cur_header
  <2>6. h.cmd = op.cmd /\ Requested(e, h, units, d, fdtab')
    BY <2>2, <2>4
  <2> HIDE DEF h
  <2>. QED
    BY <1>2, <1>3, <1>13, <2>2, <2>3, <2>5, <2>6, RequestAsks
<1>. QED
  BY <1>1, <1>4, <1>14, <1>15

LEMMA PutStreamServes ==
    ASSUME IInv, IInv', ClientsTyped, NEW p \in Peers, conn[p].state = "READ_PUT_STREAM",
           HandlePutStream(p), NEW S, S = Means(p)
    PROVE  Gone(p) \/ Serves(p, S)
<1> DEFINE k == conn[p]
           d == conn'[p]
           n == Got(p, k.put_left)
           got == rcvd[p]
           upto == rcvd'[p]
<1>1. /\ k.put_left \in Nat /\ n \in Nat /\ n <= k.put_left /\ Take(p, k.put_left)
      /\ \/ Gone(p)
         \/ /\ n = k.put_left /\ Replies(d, "PUT", 0) /\ d.pending_put_name = NULL
         \/ /\ n < k.put_left
            /\ \E off : Uploading(d, fdtab', k.pending_put_name, k.put_left - n, off)
  BY PutStreamDoes
<1>2. Len(S) \in Nat /\ got \in Nat /\ rcvd \in [Peers -> Nat]
  BY MeansIs DEF IInv, TypeOK, WireTypeOK
<1>3. Fit(d)
  BY DEF IInv, TypeOK, Fit
<1>4. SUFFICES ASSUME ~Gone(p)
               PROVE  Serves(p, S)
  OBVIOUS
<1>5. ~Rests(k, S, got)
  BY DEF Rests
<1>6. SUFFICES ASSUME NEW op, Asks(k, S, got, op)
               PROVE  Asks(d, S, upto, op)
  BY <1>5 DEF Serves
<1>7. op.cmd = "PUT" /\ got + k.put_left = Len(S)
  BY <1>6 DEF Asks, AsksName, AsksHeader, AsksSecond, InHeader, AsksData, AnswersNext
<1>8. upto = got + n
  BY <1>1, <1>2 DEF Take
<1> HIDE DEF n, d, k, got, upto
<1>9. CASE n = k.put_left /\ Replies(d, "PUT", 0) /\ d.pending_put_name = NULL
  <2>1. upto = Len(S)
    BY <1>7, <1>8, <1>9
  <2>. QED
    BY <1>3, <1>7, <1>9, <2>1, QueuedIsNext
<1>10. CASE \E off : Uploading(d, fdtab', k.pending_put_name, k.put_left - n, off)
  <2>1. d.state = "READ_PUT_STREAM" /\ d.put_left = k.put_left - n
    BY <1>10 DEF Uploading
  <2>2. upto + d.put_left = Len(S)
    BY <1>1, <1>2, <1>7, <1>8, <2>1
  <2>3. AsksData(d, S, upto, op)
    BY <1>7, <2>1, <2>2 DEF AsksData
  <2>. QED
    BY <2>3 DEF Asks
<1>. QED
  BY <1>1, <1>4, <1>9, <1>10

-----------------------------------------------------------------------------
(* The handlers that write: the reply comes to be what the client has to   *)
(* read.                                                                   *)

(* What the handlers that write leave of a connection that stays open.     *)
WrittenTo(k, upto, d) ==
    \/ GoesOn(k, upto, d)
    \/ FileNext(k, k.get_left, d)
    \/ ~k.close_after_write /\ HeaderNext(k, d)

LEMMA WrittenAnswers ==
    ASSUME NEW k, NEW upto \in Nat, upto > 0, NEW d, NEW left,
           WrittenTo(k, upto, d) \/ FileNext(k, left, d) \/ HeaderNext(k, d),
           k.pending_put_name = NULL, NEW S, NEW got, got = Len(S)
    PROVE  Answered(d, S, got)
<1>1. CASE GoesOn(k, upto, d)
  <2>1. Answering(d, S, got)
    BY <1>1 DEF GoesOn, Answering, Writing
  <2>. QED
    BY <2>1 DEF Answered
<1>2. ASSUME NEW l, FileNext(k, l, d)
      PROVE  Answered(d, S, got)
  <2>1. Answering(d, S, got)
    BY <1>2 DEF FileNext, Answering, Writing
  <2>. QED
    BY <2>1 DEF Answered
<1>3. CASE HeaderNext(k, d)
  <2>1. Rests(d, S, got)
    BY <1>3 DEF HeaderNext, Rests
  <2>. QED
    BY <2>1 DEF Answered
<1>. QED
  BY <1>1, <1>2, <1>3 DEF WrittenTo

LEMMA BufferLocks ==
    ASSUME NEW k, Fit(k), k.state = "WRITE_BUFFER", NEW r \in Reply, r = k.out_buf[1],
           NEW log \in Seq(Reply), SentFits(k, log), NEW upto \in Nat,
           k.out_sent < upto, upto <= Len(r.body) + 1,
           NEW new, new = Extend(log, r, k.out_sent, upto),
           NEW un \in Nat, NEW more, more = un + (upto - k.out_sent),
           NEW d, WrittenTo(k, upto, d),
           k.close_after_write => upto < Len(r.body) + 1 \/ k.get_left > 0,
           NEW S, NEW got, NEW c \in Process, Locked(c, log, un, k, S, got)
    PROVE  PutRefused(new) \/ Locked(c, new, more, d, S, got)
<1> DEFINE from == k.out_sent
           n == upto - from
<1>1. /\ from \in Nat /\ Len(r.body) \in Nat /\ k.get_left \in Nat
      /\ from > 0 => log # <<>>
  BY LenProperties DEF Fit, Conn, SentFits, Reply
<1>2. from < upto /\ upto <= Len(r.body) + 1 /\ new = Extend(log, r, from, upto)
  OBVIOUS
<1> HIDE DEF from
<1>3. n \in Nat /\ upto > 0
  BY <1>1, <1>2
<1>4. /\ new \in Seq(Reply)
      /\ from = 0 => BegunWith(new, r, upto)
      /\ from > 0 => Carried(log, new, n)
  BY <1>1, <1>2, PartJoins
<1> HIDE DEF n
<1>5. more = un + n
  BY DEF n, from
<1>6. ASSUME from > 0
      PROVE  /\ \A op : InHand(op, log, un) => InHand(op, new, more)
             /\ \A left \in Nat : InBody(left, log, un) => InBody(left, new, more)
  <2>1. Carried(log, new, n)
    BY <1>4, <1>6
  <2>. QED
    BY <1>5, <2>1, HandCarried
<1>7. ASSUME k.pending_put_name = NULL, got = Len(S)
      PROVE  Answered(d, S, got)
  BY <1>3, <1>7, WrittenAnswers
<1>8. ASSUME Answered(k, S, got)
      PROVE  from > 0 /\ Answered(d, S, got)
  <2>1. Answering(k, S, got)
    BY <1>8 DEF Answered, Rests
  <2>. QED
    BY <1>7, <2>1 DEF Answering, from
<1>9. ASSUME Asks(k, S, got, c.op), un = 0
      PROVE  \/ PutRefused(new)
             \/ InHand(c.op, new, more) /\ Answered(d, S, got)
  <2>1. AnswersNext(k, S, got, c.op)
    BY <1>9 DEF Asks, AsksHeader, AsksName, AsksSecond, AsksData, InHeader
  <2>2. from = 0 /\ Fits(r, c.op)
    BY <2>1 DEF AnswersNext, from
  <2>3. BegunWith(new, r, upto) /\ more = upto
    BY <1>1, <1>4, <1>5, <1>9, <2>2 DEF n
  <2>4. LastOf(new) \in Reply
    BY <1>4, <2>3, LastReply DEF LastOf, BegunWith
  <2>5. InHand(c.op, new, more)
    BY <2>2, <2>3, <2>4, BegunInHand
  <2>6. CASE r.cmd = "PUT" /\ r.status = 1
    <3>1. Len(new) \in DOMAIN new
      BY <1>4, <2>3, EmptySeq, LenProperties DEF BegunWith
    <3>2. new[Len(new)].cmd = "PUT" /\ new[Len(new)].status = 1
      BY <2>3, <2>6 DEF BegunWith, LastOf
    <3>. QED
      BY <3>1, <3>2 DEF PutRefused
  <2>7. CASE k.close_after_write /\ r.body = <<>>
    <3>1. Len(r.body) = 0 /\ k.get_left = 0
      BY <2>7 DEF Fit, BuffersFit
    <3>. QED
      BY <1>3, <2>7, <3>1
  <2>8. CASE k.pending_put_name = NULL /\ got = Len(S)
    BY <1>7, <2>5, <2>8
  <2>. QED
    BY <2>1, <2>6, <2>7, <2>8 DEF AnswersNext
<1>10. c.at # "prompt"
  BY DEF Locked, Rests
<1>11. ASSUME ~PutRefused(new), c.at \in {"send", "recv"}
       PROVE  InHand(c.op, new, more) /\ Answered(d, S, got)
  <2>1. (un = 0 /\ Asks(k, S, got, c.op)) \/ (InHand(c.op, log, un) /\ Answered(k, S, got))
    BY <1>11 DEF Locked
  <2>. QED
    BY <1>6, <1>8, <1>9, <1>11, <2>1
<1>12. ASSUME c.at = "body"
       PROVE  InBody(c.left, new, more) /\ Answered(d, S, got)
  <2>1. InBody(c.left, log, un) /\ Answered(k, S, got)
    BY <1>12 DEF Locked
  <2>2. c.left \in Nat
    BY DEF Process
  <2>. QED
    BY <1>6, <1>8, <2>1, <2>2
<1>. QED
  BY <1>10, <1>11, <1>12 DEF Locked

PieceWritten(k, d) == HeaderNext(k, d) \/ \E left : FileNext(k, left, d)

LEMMA FileLocks ==
    ASSUME NEW k, Fit(k), k.state = "WRITE_GET_FILE",
           NEW log \in Seq(Reply), SentFits(k, log), NEW piece \in Seq(Byte),
           NEW n, n = Len(piece), NEW new, new = Longer(log, piece),
           NEW un \in Nat, NEW more, more = un + n,
           NEW d, PieceWritten(k, d), NEW S, NEW got, NEW c \in Process, Locked(c, log, un, k, S, got)
    PROVE  Locked(c, new, more, d, S, got)
<1>1. log # <<>>
  BY DEF SentFits
<1>2. Carried(log, new, n)
  BY <1>1, CarriedOn
<1>3. /\ \A op : InHand(op, log, un) => InHand(op, new, more)
      /\ \A l \in Nat : InBody(l, log, un) => InBody(l, new, more)
  BY <1>2, HandCarried
<1>4. ASSUME Answered(k, S, got)
      PROVE  Answered(d, S, got)
  <2>1. k.pending_put_name = NULL /\ got = Len(S)
    BY <1>4 DEF Answered, Answering, Rests
  <2>2. 1 \in Nat /\ 1 > 0
    OBVIOUS
  <2>. QED
    BY <2>1, <2>2, WrittenAnswers DEF PieceWritten
<1>5. ASSUME NEW op
      PROVE  ~Asks(k, S, got, op)
  BY DEF Asks, AsksHeader, AsksName, AsksSecond, AsksData, InHeader, AnswersNext
<1>6. c.at # "prompt"
  BY DEF Locked, Rests
<1>7. c.left \in Nat
  BY DEF Process
<1>. QED
  BY <1>3, <1>4, <1>5, <1>6, <1>7 DEF Locked

LocksOn(p, S, c) ==
    \/ Gone(p)
    \/ PutRefused(rx'[p])
    \/ Locked(c, rx'[p], unread'[p], conn'[p], S, rcvd'[p])

LEMMA WriteBufferLocks ==
    ASSUME IInv, NEW p \in Peers, Connected(p), conn[p].state = "WRITE_BUFFER",
           Space(p) > 0 \/ Broken(p), HandleWriteBuffer(p)
    PROVE  /\ Grows(p)
           /\ \A c \in Process : \A S :
                 Locked(c, rx[p], unread[p], conn[p], S, rcvd[p]) => LocksOn(p, S, c)
<1> DEFINE k == conn[p]
           r == k.out_buf[1]
<1>1. /\ rcvd' = rcvd
      /\ r \in Reply /\ k.out_sent \in Nat
      /\ \/ Gone(p) /\ rx' = rx /\ unread' = unread
         \/ \E upto \in Nat :
               /\ k.out_sent < upto /\ upto <= Len(r.body) + 1
               /\ rx'[p] = Extend(rx[p], r, k.out_sent, upto)
               /\ unread'[p] = unread[p] + (upto - k.out_sent)
               /\ BufferWritten(p, k, upto)
  BY WriteBufferDoes
<1>2. /\ WireTypeOK /\ rx[p] \in Seq(Reply) /\ unread[p] \in Nat
      /\ Fit(k) /\ SentFits(k, rx[p])
  <2>1. WireTypeOK
    BY DEF IInv, TypeOK
  <2>2. rx[p] \in Seq(Reply) /\ unread[p] \in Nat
    BY <2>1, WireAssumption DEF WireTypeOK
  <2>3. SentFits(conn[p], rx[p])
    BY SentSoFar
  <2>4. Fit(conn[p])
    BY ConnFits
  <2>. QED
    BY <2>1, <2>2, <2>3, <2>4
<1> HIDE DEF r
<1>3. CASE Gone(p) /\ rx' = rx /\ unread' = unread
  BY <1>2, <1>3, NothingGrows DEF LocksOn
<1>4. ASSUME NEW upto \in Nat, k.out_sent < upto, upto <= Len(r.body) + 1,
             rx'[p] = Extend(rx[p], r, k.out_sent, upto),
             unread'[p] = unread[p] + (upto - k.out_sent),
             BufferWritten(p, k, upto)
      PROVE  /\ Grows(p)
             /\ \A c \in Process : \A S :
                   Locked(c, rx[p], unread[p], conn[p], S, rcvd[p]) => LocksOn(p, S, c)
  <2>1. k.out_sent > 0 => rx[p] # <<>>
    BY <1>2 DEF SentFits, Fit
  <2>2. /\ Keeps(rx[p], rx'[p])
        /\ Len(UnitsOf(rx'[p])) = Len(UnitsOf(rx[p])) + (upto - k.out_sent)
    <3> DEFINE from == k.out_sent
    <3>1. /\ rx[p] \in Seq(Reply) /\ r \in Reply /\ from \in Nat /\ upto \in Nat
          /\ from < upto /\ upto <= Len(r.body) + 1 /\ (from > 0 => rx[p] # <<>>)
          /\ rx'[p] = Extend(rx[p], r, from, upto)
      BY <1>1, <1>2, <1>4, <2>1
    <3> HIDE DEF from
    <3>2. /\ Keeps(rx[p], rx'[p])
          /\ Len(UnitsOf(rx'[p])) = Len(UnitsOf(rx[p])) + (upto - from)
      BY <3>1, PartJoins, ZenonT(40)
    <3>. QED
      BY <3>2 DEF from
  <2>3. upto - k.out_sent \in Nat
    BY <1>1, <1>4
  <2>4. Grows(p)
    BY <1>4, <2>2, <2>3 DEF Grows
  <2>5. ASSUME ~Gone(p)
        PROVE  /\ WrittenTo(k, upto, conn'[p])
               /\ k.close_after_write => upto < Len(r.body) + 1 \/ k.get_left > 0
    BY <1>4, <2>5 DEF BufferWritten, WrittenTo, r
  <2>6. ASSUME NEW c \in Process, NEW S, ~Gone(p),
               Locked(c, rx[p], unread[p], conn[p], S, rcvd[p])
        PROVE  LocksOn(p, S, c)
    <3>1. r = k.out_buf[1]
      BY DEF r
    <3>2. \/ PutRefused(rx'[p])
          \/ Locked(c, rx'[p], unread'[p], conn'[p], S, rcvd[p])
      <4> DEFINE got == rcvd[p]
      <4>1. /\ Fit(k) /\ k.state = "WRITE_BUFFER" /\ r \in Reply /\ r = k.out_buf[1]
            /\ rx[p] \in Seq(Reply) /\ SentFits(k, rx[p]) /\ upto \in Nat
            /\ k.out_sent < upto /\ upto <= Len(r.body) + 1
            /\ rx'[p] = Extend(rx[p], r, k.out_sent, upto)
            /\ unread[p] \in Nat /\ unread'[p] = unread[p] + (upto - k.out_sent)
        BY <1>1, <1>2, <1>4, <3>1
      <4>2. /\ WrittenTo(k, upto, conn'[p])
            /\ k.close_after_write => upto < Len(r.body) + 1 \/ k.get_left > 0
        BY <2>5, <2>6
      <4>3. c \in Process /\ Locked(c, rx[p], unread[p], k, S, got)
        BY <2>6
      <4> HIDE DEF k, got
      <4>4. PutRefused(rx'[p]) \/ Locked(c, rx'[p], unread'[p], conn'[p], S, got)
        BY <4>1, <4>2, <4>3, BufferLocks
      <4>. QED
        BY <4>4 DEF got
    <3>. QED
      BY <1>1, <3>2 DEF LocksOn
  <2>. QED
    BY <2>4, <2>6 DEF LocksOn
<1>. QED
  BY <1>1, <1>3, <1>4

LEMMA WriteGetFileLocks ==
    ASSUME IInv, NEW p \in Peers, Connected(p), conn[p].state = "WRITE_GET_FILE",
           HandleWriteGetFile(p)
    PROVE  /\ Grows(p)
           /\ \A c \in Process : \A S :
                 Locked(c, rx[p], unread[p], conn[p], S, rcvd[p]) => LocksOn(p, S, c)
<1> DEFINE k == conn[p]
           f == fdtab[k.get_fd]
<1>1. /\ rcvd' = rcvd
      /\ \/ Gone(p) /\ rx' = rx /\ unread' = unread
         \/ \E n \in Nat :
               /\ Piece(f, n) \in Seq(Byte) /\ Len(Piece(f, n)) = n
               /\ rx'[p] = Longer(rx[p], Piece(f, n))
               /\ unread'[p] = unread[p] + n
               /\ FileWritten(p, k, n)
  BY WriteGetFileDoes
<1>2. /\ WireTypeOK /\ rx[p] \in Seq(Reply) /\ unread[p] \in Nat
      /\ Fit(k) /\ SentFits(k, rx[p])
  <2>1. WireTypeOK
    BY DEF IInv, TypeOK
  <2>2. rx[p] \in Seq(Reply) /\ unread[p] \in Nat
    BY <2>1, WireAssumption DEF WireTypeOK
  <2>3. SentFits(conn[p], rx[p])
    BY SentSoFar
  <2>4. Fit(conn[p])
    BY ConnFits
  <2>. QED
    BY <2>1, <2>2, <2>3, <2>4
<1> HIDE DEF f
<1>3. CASE Gone(p) /\ rx' = rx /\ unread' = unread
  BY <1>2, <1>3, NothingGrows DEF LocksOn
<1>4. ASSUME NEW n \in Nat, NEW piece \in Seq(Byte), n = Len(piece),
             rx'[p] = Longer(rx[p], piece),
             unread'[p] = unread[p] + n, FileWritten(p, k, n)
      PROVE  /\ Grows(p)
             /\ \A c \in Process : \A S :
                   Locked(c, rx[p], unread[p], conn[p], S, rcvd[p]) => LocksOn(p, S, c)
  <2>1. rx[p] # <<>>
    BY <1>2 DEF SentFits
  <2>2. /\ Keeps(rx[p], rx'[p])
        /\ Len(UnitsOf(rx'[p])) = Len(UnitsOf(rx[p])) + n
    BY <1>2, <1>4, <2>1, CarriedOn
  <2>3. Grows(p)
    BY <1>4, <2>2 DEF Grows
  <2>4. ASSUME ~Gone(p)
        PROVE  PieceWritten(k, conn'[p])
    BY <1>4, <2>4 DEF FileWritten, PieceWritten
  <2>5. ASSUME NEW c \in Process, NEW S, ~Gone(p),
               Locked(c, rx[p], unread[p], conn[p], S, rcvd[p])
        PROVE  LocksOn(p, S, c)
    <3>1. PieceWritten(k, conn'[p])
      BY <2>4, <2>5
    <3>2. Locked(c, rx'[p], unread'[p], conn'[p], S, rcvd[p])
      <4> DEFINE got == rcvd[p]
      <4>1. /\ Fit(k) /\ k.state = "WRITE_GET_FILE"
            /\ rx[p] \in Seq(Reply) /\ SentFits(k, rx[p]) /\ piece \in Seq(Byte)
            /\ n = Len(piece) /\ rx'[p] = Longer(rx[p], piece)
            /\ unread[p] \in Nat /\ unread'[p] = unread[p] + n
        BY <1>2, <1>4
      <4>2. c \in Process /\ Locked(c, rx[p], unread[p], k, S, got)
        BY <2>5
      <4> HIDE DEF k, got
      <4>3. Locked(c, rx'[p], unread'[p], conn'[p], S, got)
        BY <3>1, <4>1, <4>2, FileLocks
      <4>. QED
        BY <4>3 DEF got
    <3>. QED
      BY <1>1, <3>2 DEF LocksOn
  <2>. QED
    BY <2>3, <2>5 DEF LocksOn
<1>. QED
  BY <1>1, <1>3, <1>4

(* A handler that reads.                                                   *)
LEMMA ServesLocks ==
    ASSUME WireTypeOK, NEW p \in Peers, conn[p].state \in Reading, NEW S,
           Gone(p) \/ Serves(p, S), rx' = rx, unread' = unread,
           NEW c, Locked(c, rx[p], unread[p], conn[p], S, rcvd[p])
    PROVE  LocksOn(p, S, c)
<1>1. CASE Gone(p)
  BY <1>1 DEF LocksOn
<1>2. CASE Serves(p, S)
  <2>1. ~Answering(conn[p], S, rcvd[p])
    BY DEF Answering, Reading, Writing
  <2>2. Answered(conn[p], S, rcvd[p]) => Answered(conn'[p], S, rcvd'[p])
    BY <1>2, <2>1 DEF Serves, Answered
  <2>3. \A op : Asks(conn[p], S, rcvd[p], op) => Asks(conn'[p], S, rcvd'[p], op)
    BY <1>2 DEF Serves
  <2>4. Rests(conn[p], S, rcvd[p]) => Rests(conn'[p], S, rcvd'[p])
    BY <1>2 DEF Serves
  <2>5. Locked(c, rx[p], unread[p], conn'[p], S, rcvd'[p])
    BY <2>2, <2>3, <2>4 DEF Locked
  <2>. QED
    BY <2>5 DEF LocksOn
<1>. QED
  BY <1>1, <1>2

-----------------------------------------------------------------------------
(* The server's steps.                                                     *)

HandledLocks(p) ==
    /\ Grows(p) /\ \A q \in Peers \ {p} : rcvd'[q] = rcvd[q]
    /\ \A c \in Process :
           Locked(c, rx[p], unread[p], conn[p], Means(p), rcvd[p]) =>
               LocksOn(p, Means(p), c)

LEMMA TakesOwn ==
    ASSUME IInv, NEW p \in Peers, NEW n, Take(p, n)
    PROVE  \A q \in Peers \ {p} : rcvd'[q] = rcvd[q]
<1>1. rcvd \in [Peers -> Nat]
  BY DEF IInv, TypeOK, WireTypeOK
<1>. QED
  BY <1>1 DEF Take

LEMMA HandlerLocks ==
    ASSUME IInv, IInv', ClientsTyped, NEW e \in batch, e.fd # LFD, NEW p, p = e.peer, Handler(p, e)
    PROVE  HandledLocks(p)
<1>1. /\ p \in Peers /\ Connected(p)
      /\ e.rd => conn[p].state \in Reading
      /\ e.wr => /\ conn[p].state \in Writing
                 /\ Space(p) > 0 \/ Broken(p)
  BY EventFacts
<1>2. WireTypeOK
  BY DEF IInv, TypeOK
<1>3. CASE /\ e.hup /\ Drop(p, conn[p], fdtab)
           /\ UNCHANGED <<rcvd, rx, unread, files>>
  <2>1. Gone(p)
    BY <1>1, <1>3, DropGone
  <2>2. Grows(p)
    BY <1>1, <1>2, <1>3, NothingGrows
  <2>. QED
    BY <1>3, <2>1, <2>2 DEF HandledLocks, LocksOn
<1>4. ASSUME conn[p].state \in Reading, rx' = rx, unread' = unread,
             Gone(p) \/ Serves(p, Means(p)), NEW n, Take(p, n)
      PROVE  HandledLocks(p)
  <2>1. Grows(p)
    BY <1>1, <1>2, <1>4, NothingGrows
  <2>2. \A q \in Peers \ {p} : rcvd'[q] = rcvd[q]
    BY <1>1, <1>4, TakesOwn
  <2>3. ASSUME NEW c \in Process,
               Locked(c, rx[p], unread[p], conn[p], Means(p), rcvd[p])
        PROVE  LocksOn(p, Means(p), c)
    <3> DEFINE S == Means(p)
    <3>1. /\ Gone(p) \/ Serves(p, S)
          /\ Locked(c, rx[p], unread[p], conn[p], S, rcvd[p])
      BY <1>4, <2>3
    <3> HIDE DEF S
    <3>2. LocksOn(p, S, c)
      BY <1>1, <1>2, <1>4, <3>1, ServesLocks
    <3>. QED
      BY <3>2 DEF S
  <2>. QED
    BY <2>1, <2>2, <2>3 DEF HandledLocks
<1>5. CASE conn[p].state = "READ_HEADER" /\ HandleReadHeader(p) /\ unread' = unread
  <2>1. rx' = rx /\ \E n : Take(p, n)
    BY <1>5 DEF HandleReadHeader
  <2>2. Gone(p) \/ Serves(p, Means(p))
    BY <1>1, <1>5, ReadHeaderServes
  <2>3. conn[p].state \in Reading
    BY <1>5 DEF Reading
  <2>. QED
    BY <1>4, <1>5, <2>1, <2>2, <2>3
<1>6. CASE conn[p].state = "READ_PAYLOAD" /\ HandleReadPayload(p) /\ unread' = unread
  <2>1. rx' = rx /\ \E n : Take(p, n)
    BY <1>6 DEF HandleReadPayload
  <2>2. Gone(p) \/ Serves(p, Means(p))
    BY <1>1, <1>6, ReadPayloadServes
  <2>3. conn[p].state \in Reading
    BY <1>6 DEF Reading
  <2>. QED
    BY <1>4, <1>6, <2>1, <2>2, <2>3
<1>7. CASE conn[p].state = "READ_PUT_STREAM" /\ HandlePutStream(p) /\ unread' = unread
  <2>1. rx' = rx /\ \E n : Take(p, n)
    BY <1>7 DEF HandlePutStream
  <2>2. Gone(p) \/ Serves(p, Means(p))
    BY <1>1, <1>7, PutStreamServes
  <2>3. conn[p].state \in Reading
    BY <1>7 DEF Reading
  <2>. QED
    BY <1>4, <1>7, <2>1, <2>2, <2>3
<1>8. CASE conn[p].state = "WRITE_BUFFER" /\ e.wr /\ HandleWriteBuffer(p)
  <2>1. rcvd' = rcvd
    BY <1>1, <1>8, WriteBufferDoes
  <2>2. /\ Grows(p)
        /\ \A c \in Process : \A S :
              Locked(c, rx[p], unread[p], conn[p], S, rcvd[p]) => LocksOn(p, S, c)
    BY <1>1, <1>8, WriteBufferLocks
  <2>. QED
    BY <2>1, <2>2 DEF HandledLocks
<1>9. CASE conn[p].state = "WRITE_GET_FILE" /\ HandleWriteGetFile(p)
  <2>1. rcvd' = rcvd
    BY <1>9 DEF HandleWriteGetFile
  <2>2. /\ Grows(p)
        /\ \A c \in Process : \A S :
              Locked(c, rx[p], unread[p], conn[p], S, rcvd[p]) => LocksOn(p, S, c)
    BY <1>1, <1>9, WriteGetFileLocks
  <2>. QED
    BY <2>1, <2>2 DEF HandledLocks
<1>. QED
  BY <1>3, <1>5, <1>6, <1>7, <1>8, <1>9 DEF Handler

LEMMA HandleKeeps ==
    ASSUME TogetherInv, NEW e \in batch, Handle(e), UNCHANGED cliVars
    PROVE  TogetherInv'
<1> DEFINE p == e.peer
<1>1. IInv /\ ClientsTyped /\ WireTypeOK /\ e.fd # LFD
  BY DEF TogetherInv, IInv, TypeOK, Handle
<1>2. IInv' /\ WireTypeOK'
  BY <1>1, HandleInv DEF IInv, TypeOK
<1>3. p \in Peers /\ conn_map[e.fd] = p /\ Connected(p)
  BY <1>1, EventFacts
<1>4. /\ Handler(p, e) /\ cli' = cli /\ todo' = todo /\ local' = local
      /\ sock' = sock /\ stream' = stream /\ backlog' = backlog
  BY <1>3 DEF Handle, cliVars
<1>5. Handled(p)
  BY <1>1, <1>4, HandlerHandled
<1>6. HandledLocks(p)
  BY <1>1, <1>2, <1>4, HandlerLocks
<1> HIDE DEF p
<1>7. \A q \in Peers \ {p} : /\ conn'[q] = conn[q] /\ rcvd'[q] = rcvd[q]
                             /\ rx'[q] = rx[q] /\ unread'[q] = unread[q]
  <2>1. PICK c, ft : Outcome(p, c, ft) /\ Ends(p, c, ft)
    BY <1>5 DEF Handled, Ends
  <2>2. \A q \in Peers \ {p} : conn'[q] = conn[q]
    BY <1>1, <1>3, <2>1, EndsOwned
  <2>3. \A q \in Peers \ {p} : rx'[q] = rx[q] /\ unread'[q] = unread[q]
    BY <1>5 DEF Handled
  <2>. QED
    BY <1>6, <2>2, <2>3 DEF HandledLocks
<1>8. PICK n \in Nat : /\ unread'[p] = unread[p] + n
                       /\ Len(UnitsOf(rx'[p])) = Len(UnitsOf(rx[p])) + n
                       /\ Keeps(rx[p], rx'[p])
  BY <1>6 DEF HandledLocks, Grows
<1>9. ClientsTyped'
  <2>1. ASSUME NEW q \in Peers
        PROVE  unread'[q] <= Len(UnitsOf(rx'[q]))
    <3>1. unread[q] <= Len(UnitsOf(rx[q])) /\ rx[q] \in Seq(Reply) /\ unread[q] \in Nat
      BY <1>1, WireAssumption DEF ClientsTyped, Sent, WireTypeOK
    <3>2. Len(UnitsOf(rx[q])) \in Nat
      BY <3>1, UnitsType
    <3>3. CASE q # p
      BY <1>7, <3>1, <3>3
    <3>4. CASE q = p
      <4> DEFINE a == unread[p]
                 b == Len(UnitsOf(rx[p]))
      <4>1. a \in Nat /\ b \in Nat /\ a <= b
        BY <3>1, <3>2, <3>4
      <4> HIDE DEF a, b
      <4>2. a + n <= b + n
        BY <4>1
      <4>. QED
        BY <1>8, <3>4, <4>2 DEF a, b
    <3>. QED
      BY <3>3, <3>4
  <2>. QED
    BY <1>1, <1>4, <2>1 DEF ClientsTyped, Sent
<1>10. ASSUME NEW q \in Peers \ Fragile, q # p
       PROVE  InStepFor(q)'
  <2>1. SameFor(q)
    BY <1>4, <1>7, <1>10 DEF SameFor
  <2>. QED
    BY <1>10, <2>1, SameInStep DEF TogetherInv
<1>11. ASSUME p \notin Fragile
       PROVE  InStepFor(p)'
  <2>1. InStepFor(p)
    BY <1>3, <1>11 DEF TogetherInv
  <2>2. ~ClientAt(p, "connect")
    BY <1>1, <1>3, <2>1 DEF InStepFor, Fresh, IInv, Queued, Connected
  <2>3. ~ClientAt(p, "connect")'
    BY <1>4, <2>2 DEF ClientAt
  <2>4. Means(p)' = Means(p)
    BY <1>4 DEF Means
  <2>5. SUFFICES ASSUME Attached(p)', ~UploadRefused(p)'
                 PROVE  Locked(cli[p], rx'[p], unread'[p], conn'[p], Means(p), rcvd'[p])
    BY <1>4, <2>3, <2>4 DEF InStepFor
  <2>6. ~PutRefused(rx'[p])
    BY <2>5 DEF UploadRefused, PutRefused
  <2>7. ~UploadRefused(p)
    <3>1. rx[p] \in Seq(Reply) /\ rx'[p] \in Seq(Reply)
      BY <1>1, <1>2, <1>3 DEF WireTypeOK
    <3>2. ~PutRefused(rx[p])
      BY <1>8, <2>6, <3>1, RefusalKept
    <3>. QED
      BY <3>2 DEF UploadRefused, PutRefused
  <2>8. Locked(cli[p], rx[p], unread[p], conn[p], Means(p), rcvd[p])
    BY <1>3, <2>1, <2>7 DEF InStepFor, Attached
  <2>9. LocksOn(p, Means(p), cli[p])
    BY <1>1, <1>3, <1>6, <2>8, ClientFacts DEF HandledLocks
  <2>10. ~Gone(p)
    <3>1. p \notin Elems(backlog)
      <4>1. backlog \in Seq(Peers) /\ \A i \in 1 .. Len(backlog) : backlog[i] # p
        BY <1>1, <1>3 DEF IInv, Queued, Connected, WireTypeOK
      <4>. QED
        BY <4>1 DEF Elems
    <3>2. Connected(p)'
      BY <1>4, <2>5, <3>1 DEF Attached
    <3>. QED
      BY <3>2 DEF Connected, Gone, NoConn, NewConn
  <2>. QED
    BY <2>6, <2>9, <2>10 DEF LocksOn
<1>. QED
  BY <1>2, <1>9, <1>10, <1>11 DEF TogetherInv

(* A step that leaves connections and clients as they are.                 *)
LEMMA QuietKeeps ==
    ASSUME TogetherInv, IInv', conn' = conn, UNCHANGED cliVars,
           UNCHANGED <<sock, stream, rcvd, rx, unread, backlog>>
    PROVE  TogetherInv'
<1>1. ClientsTyped'
  BY DEF TogetherInv, ClientsTyped, cliVars, Sent
<1>2. ASSUME NEW q \in Peers \ Fragile
      PROVE  InStepFor(q)'
  <2>1. SameFor(q)
    BY DEF SameFor, cliVars
  <2>. QED
    BY <2>1, SameInStep DEF TogetherInv
<1>. QED
  BY <1>1, <1>2 DEF TogetherInv

LEMMA StopKeeps ==
    ASSUME TogetherInv, IInv', Stop, UNCHANGED cliVars
    PROVE  TogetherInv'
<1>1. ClientsTyped'
  BY DEF TogetherInv, ClientsTyped, cliVars, Sent, Stop
<1>2. ASSUME NEW q \in Peers \ Fragile
      PROVE  InStepFor(q)'
  <2>1. ~Attached(q)'
    BY DEF Stop, Attached, Connected, NoConn, NewConn, Elems
  <2>2. /\ cli' = cli /\ sock' = sock /\ stream' = stream
        /\ rcvd' = rcvd /\ unread' = unread
    BY DEF Stop, cliVars
  <2>3. ClientAt(q, "connect")' => Fresh(q)'
    BY <2>2 DEF TogetherInv, InStepFor, ClientAt, Fresh
  <2>. QED
    BY <2>1, <2>3 DEF InStepFor
<1>. QED
  BY <1>1, <1>2 DEF TogetherInv

(* A connection that is accepted begins where one that waits is.           *)
LEMMA NewConnLocks ==
    ASSUME NEW fd, NEW d, d = NewConn(fd), NEW c, NEW log, NEW un, NEW S, NEW got,
           Locked(c, log, un, NoConn, S, got)
    PROVE  Locked(c, log, un, d, S, got)
<1> DEFINE k == NoConn
<1>1. /\ d.state = "READ_HEADER" /\ k.state = "READ_HEADER"
      /\ d.header_buf = <<>> /\ k.header_buf = <<>>
      /\ d.pending_put_name = NULL /\ k.pending_put_name = NULL
  BY DEF NewConn, NoConn
<1>2. Locked(c, log, un, k, S, got)
  OBVIOUS
<1> HIDE DEF k
<1>3. Answered(k, S, got) => Answered(d, S, got)
  BY <1>1 DEF Answered, Answering, Rests, Writing
<1>4. \A op : Asks(k, S, got, op) => Asks(d, S, got, op)
  BY <1>1 DEF Asks, AsksHeader, AsksName, AsksSecond, AsksData, AnswersNext, InHeader
<1>5. Rests(k, S, got) => Rests(d, S, got)
  BY <1>1 DEF Rests
<1>. QED
  BY <1>2, <1>3, <1>4, <1>5 DEF Locked

LEMMA AcceptKeeps ==
    ASSUME TogetherInv, IInv', AcceptOne, UNCHANGED cliVars
    PROVE  TogetherInv'
<1>1. IInv /\ ClientsTyped /\ backlog # <<>> /\ backlog \in Seq(Peers)
  BY DEF TogetherInv, IInv, TypeOK, WireTypeOK, AcceptOne
<1>2. PICK p \in Peers :
         /\ p = Head(backlog) /\ conn[p].fd = NoFd /\ sock[p] # "idle"
         /\ Tail(backlog) \in Seq(Peers)
         /\ \A i \in 1 .. Len(Tail(backlog)) : Tail(backlog)[i] # p
  BY <1>1, TailQueue
<1>3. /\ backlog' = Tail(backlog) /\ cli' = cli /\ todo' = todo /\ local' = local
      /\ sock' = sock /\ stream' = stream /\ rcvd' = rcvd /\ rx' = rx /\ unread' = unread
      /\ conn' = conn \/ conn' = [conn EXCEPT ![p] = NewConn(LowestFree)]
  BY <1>2 DEF AcceptOne, Accepted, cliVars
<1>4. p \in Elems(backlog) /\ \A q : q \in Elems(backlog') => q \in Elems(backlog)
  <2>1. /\ Len(backlog) \in Nat /\ Len(backlog) > 0 /\ backlog[1] = p
        /\ DOMAIN backlog = 1 .. Len(backlog)
    BY <1>1, <1>2, EmptySeq, LenProperties
  <2>2. /\ Len(Tail(backlog)) = Len(backlog) - 1
        /\ \A i \in 1 .. Len(Tail(backlog)) : Tail(backlog)[i] = backlog[i + 1]
        /\ DOMAIN Tail(backlog) = 1 .. Len(Tail(backlog))
    BY <1>1, <1>2, HeadTailProperties, LenProperties
  <2>3. p \in Elems(backlog)
    BY <2>1 DEF Elems
  <2>4. ASSUME NEW i \in 1 .. Len(Tail(backlog))
        PROVE  Tail(backlog)[i] \in Elems(backlog)
    <3>1. i + 1 \in DOMAIN backlog
      BY <2>1, <2>2
    <3>. QED
      BY <2>2, <3>1 DEF Elems
  <2>. QED
    BY <1>3, <2>2, <2>3, <2>4 DEF Elems
<1>5. p \notin Elems(backlog')
  <2>1. DOMAIN Tail(backlog) = 1 .. Len(Tail(backlog))
    BY <1>2, LenProperties
  <2>. QED
    BY <1>2, <1>3, <2>1 DEF Elems
<1>6. conn \in [Peers -> Conn] /\ conn[p] = NoConn
  BY <1>1, <1>2 DEF IInv, TypeOK, Watched
<1>7. ClientsTyped'
  BY <1>1, <1>3 DEF ClientsTyped, Sent
<1>8. ASSUME NEW q \in Peers \ Fragile, q # p
      PROVE  InStepFor(q)'
  <2>1. conn'[q] = conn[q]
    BY <1>3, <1>6, <1>8
  <2>2. SameFor(q)
    BY <1>3, <1>4, <2>1 DEF SameFor
  <2>. QED
    BY <1>8, <2>2, SameInStep DEF TogetherInv
<1>9. ASSUME p \notin Fragile
      PROVE  InStepFor(p)'
  <2>1. InStepFor(p)
    BY <1>2, <1>9 DEF TogetherInv
  <2>2. ~ClientAt(p, "connect")'
    BY <1>2, <1>3, <2>1 DEF InStepFor, Fresh, ClientAt
  <2>3. Means(p)' = Means(p)
    BY <1>3 DEF Means
  <2>4. SUFFICES ASSUME Attached(p)', ~UploadRefused(p)'
                 PROVE  Locked(cli[p], rx[p], unread[p], conn'[p], Means(p), rcvd[p])
    BY <1>3, <2>2, <2>3 DEF InStepFor
  <2>5. ~UploadRefused(p)
    BY <1>3, <2>4 DEF UploadRefused
  <2>6. Locked(cli[p], rx[p], unread[p], NoConn, Means(p), rcvd[p])
    BY <1>4, <1>6, <2>1, <2>5 DEF InStepFor, Attached
  <2>7. conn' = [conn EXCEPT ![p] = NewConn(LowestFree)]
    BY <1>2, <1>3, <1>5, <2>4 DEF Attached, Connected
  <2>8. conn'[p] = NewConn(LowestFree)
    BY <1>2, <1>6, <2>7
  <2>. QED
    BY <2>6, <2>8, NewConnLocks
<1>. QED
  BY <1>7, <1>8, <1>9 DEF TogetherInv

LEMMA ServerKeeps ==
    ASSUME TogetherInv, ServerRuns
    PROVE  TogetherInv'
<1>1. Server /\ UNCHANGED cliVars
  BY DEF ServerRuns
<1>2. IInv'
  BY <1>1, NextInv DEF TogetherInv, Next
<1>3. CASE EpollWait
  BY <1>1, <1>2, <1>3, QuietKeeps DEF EpollWait, wireVars
<1>4. CASE EpollWaitFails
  BY <1>1, <1>2, <1>4, StopKeeps DEF EpollWaitFails
<1>5. CASE AcceptStart
  BY <1>1, <1>2, <1>5, QuietKeeps DEF AcceptStart, wireVars
<1>6. CASE AcceptOne
  BY <1>1, <1>2, <1>6, AcceptKeeps
<1>7. CASE AcceptDone
  BY <1>1, <1>2, <1>7, QuietKeeps DEF AcceptDone, wireVars
<1>8. ASSUME NEW e \in batch, Handle(e)
      PROVE  TogetherInv'
  BY <1>1, <1>8, HandleKeeps
<1>9. ASSUME NEW e \in batch, KilledBySigpipe(e)
      PROVE  TogetherInv'
  BY <1>1, <1>2, <1>9, StopKeeps DEF KilledBySigpipe
<1>. QED
  BY <1>1, <1>3, <1>4, <1>5, <1>6, <1>7, <1>8, <1>9 DEF Server

LEMMA ArrivesKeeps ==
    ASSUME TogetherInv, NEW p \in Peers, Arrives(p)
    PROVE  TogetherInv'
<1>1. IInv'
  BY PeerSendsInv DEF Arrives, TogetherInv
<1>2. /\ conn' = conn /\ UNCHANGED cliVars
      /\ UNCHANGED <<sock, stream, rcvd, rx, unread, backlog>>
  BY DEF Arrives, PeerSends, Send, serverVars
<1>. QED
  BY <1>1, <1>2, QuietKeeps

-----------------------------------------------------------------------------
(* The invariant, and what follows from it.                                *)

LEMMA TogetherInitInv ==
    ASSUME TogetherInit
    PROVE  TogetherInv
<1>1. Init /\ WireInit /\ ClientInit
  BY DEF TogetherInit, Init
<1>2. IInv
  BY <1>1, InitInv
<1>3. /\ cli = [p \in Peers |-> NoClient]
      /\ \A p \in Peers : todo[p] \in Scripts[p] /\ local[p] \in LocalDirectories[p]
      /\ DOMAIN todo = Peers /\ DOMAIN local = Peers
      /\ todo = [p \in Peers |-> todo[p]] /\ local = [p \in Peers |-> local[p]]
  BY <1>1 DEF ClientInit
<1>4. /\ todo \in [Peers -> Seq(Lines)]
      /\ local \in [Peers -> [Names -> File]]
  BY <1>3, ScriptsAssumption, LocalAssumption
<1>5. ASSUME NEW p \in Peers
      PROVE  /\ cli[p] = NoClient /\ sock[p] = "idle" /\ stream[p] = <<>>
             /\ rcvd[p] = 0 /\ unread[p] = 0 /\ rx[p] = <<>>
  <2>1. stream[p] \in Streams[p]
    BY <1>1 DEF WireInit
  <2>. QED
    BY <1>1, <1>3, <2>1, SilentAssumption DEF WireInit
<1>6. ASSUME NEW p \in Peers
      PROVE  Between(cli[p]) /\ unread[p] <= Len(Sent(p))
  <2>1. Len(Sent(p)) = 0
    BY <1>5, NothingSent DEF Sent
  <2>. QED
    BY <1>5, <2>1, NoClientTyped
<1>7. ClientsTyped
  BY <1>3, <1>4, <1>6, NoClientTyped DEF ClientsTyped
<1>8. ASSUME NEW p \in Peers
      PROVE  InStepFor(p)
  <2>1. Fresh(p) /\ cli[p].at = "connect"
    BY <1>5, NoClientTyped DEF Fresh
  <2>2. Locked(cli[p], rx[p], unread[p], conn[p], Means(p), rcvd[p])
    BY <2>1 DEF Locked
  <2>. QED
    BY <2>1, <2>2 DEF InStepFor
<1>. QED
  BY <1>2, <1>7, <1>8 DEF TogetherInv

LEMMA TogetherStepInv ==
    ASSUME TogetherInv, [TogetherNext]_allVars
    PROVE  TogetherInv'
<1>1. CASE ServerRuns
  BY <1>1, ServerKeeps
<1>2. ASSUME NEW p \in Peers, Arrives(p) \/ UserRuns(p) \/ UserBreaks(p)
      PROVE  TogetherInv'
  BY <1>2, ArrivesKeeps, UserKeeps
<1>3. CASE UNCHANGED allVars
  <2>1. UNCHANGED vars /\ UNCHANGED cliVars
    BY <1>3 DEF allVars
  <2>2. IInv'
    BY <2>1, NextInv DEF TogetherInv
  <2>3. conn' = conn /\ UNCHANGED <<sock, stream, rcvd, rx, unread, backlog>>
    BY <2>1 DEF vars, wireVars, serverVars
  <2>. QED
    BY <2>1, <2>2, <2>3, QuietKeeps
<1>. QED
  BY <1>1, <1>2, <1>3 DEF TogetherNext

(* Clients and server together keep the server's invariant, the types of   *)
(* the clients, and that every exchange is where both ends take it to be   *)
(* (the handlers of server.c against handle_*_client of client.c).         *)
THEOREM TogetherInvariance == Together => []TogetherInv
<1>1. TogetherInit => TogetherInv
  BY TogetherInitInv
<1>2. TogetherInv /\ [TogetherNext]_allVars => TogetherInv'
  BY TogetherStepInv
<1>. QED
  BY <1>1, <1>2, PTL DEF Together

(* Between two commands a client and the server are in step: all that the  *)
(* client has sent was received, and all that it was sent it has read,     *)
(* unless an upload was refused.                                           *)
THEOREM StaysInStep == Together => []InStep
<1>1. ASSUME TogetherInv, NEW p \in Peers, AtEase(p), Attached(p), ~UploadRefused(p)
      PROVE  Level(p)
  <2>1. ClientAt(p, "prompt") /\ p \notin Fragile /\ ClientsTyped /\ WireTypeOK
    BY <1>1 DEF AtEase, TogetherInv, IInv, TypeOK
  <2>2. Locked(cli[p], rx[p], unread[p], conn[p], Means(p), rcvd[p])
    BY <1>1, <2>1 DEF TogetherInv, InStepFor
  <2>3. unread[p] = 0 /\ rcvd[p] = Len(Means(p))
    BY <2>1, <2>2 DEF Locked, Rests, ClientAt
  <2>4. cli[p].out = <<>>
    BY <2>1, ClientFacts DEF Between, ClientAt
  <2>5. Means(p) = stream[p]
    <3>1. stream[p] \in Seq(Unit)
      BY <2>1 DEF WireTypeOK
    <3>. QED
      BY <2>4, <3>1 DEF Means
  <2>. QED
    BY <2>3, <2>5 DEF Level
<1>2. TogetherInv => InStep
  BY <1>1 DEF InStep
<1>. QED
  BY <1>2, TogetherInvariance, PTL

(* The server's own invariants hold with the client program as its peers:  *)
(* descriptors and events stay with their connection and replies are sent  *)
(* whole, also for clients that are killed or lose their disk.             *)
THEOREM ServerStaysSafe ==
    Together => [](BuffersMatchState /\ DescriptorsOwned /\ EventsCurrent /\ RepliesFramed)
<1>1. IInv => RepliesFramed
  BY FramedFollows
<1>2. TogetherInv => BuffersMatchState /\ DescriptorsOwned /\ EventsCurrent /\ RepliesFramed
  BY <1>1 DEF TogetherInv, IInv, BuffersMatchState
<1>. QED
  BY <1>2, TogetherInvariance, PTL

=============================================================================
