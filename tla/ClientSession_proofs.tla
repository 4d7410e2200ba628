------------------------- MODULE ClientSession_proofs -------------------------
(***************************************************************************)
(* The clients and the server of v1_threadpool keep in step, for every     *)
(* number of clients and workers, every script and directory, and every    *)
(* size of the buffers, if no call of the server fails and no file changes *)
(* while it is downloaded; and whatever fails, a client shows as a listing *)
(* nothing but names.                                                      *)
(***************************************************************************)
EXTENDS ClientSession, SessionServer_proofs, Client_proofs

(* A session that has answered everything begins the next request, or ends *)
(* a download whose last byte was sent.                                    *)
AtRest(s, log) ==
    \/ s.at \in {"none", "header"}
    \/ s.at = "get_read" /\ log # <<>> /\ Complete(LastOf(log))

(* A session that has refused an upload is about to close.                 *)
Refuses(s, log) == s.at = "close" /\ PutRefused(log)

(* r is a reply to op that may be the last of it; what is downloaded has a *)
(* safe name.                                                              *)
Suits(r, op) == Fits(r, op) /\ (r.status = 0 /\ op.cmd = "GET" => op.name \in SafeNames)

(* Where the session s is when it has received `got` units of S, all that  *)
(* its client means to send so far, and the client waits for the reply to  *)
(* op: the request is on its way,                                          *)
AsksHeader(s, log, S, got, op) == AtRest(s, log) /\ CommandAt(S, got + 1, op)

AsksPlain(s, S, got, op) ==
    /\ s.at = "drain" /\ s.cmd = op.cmd /\ s.left = 0
    /\ op.cmd \in {"LIST", "QUIT"} /\ got = Len(S)

AsksName(s, S, got, op) ==
    /\ s.at = "name" /\ s.cmd = op.cmd /\ s.left = 1
    /\ op.cmd \in {"GET", "PUT"} /\ NameAt(S, got + 1, op)

AsksSecond(s, S, got, op) == s.at = "put_header" /\ op.cmd = "PUT" /\ DataAt(S, got + 1)

AsksData(s, S, got, op) ==
    s.at \in {"put_data", "put_drain"} /\ op.cmd = "PUT" /\ got + s.left = Len(S)

(* or its reply is the next thing to be sent.                              *)
Last(r, op) == op.cmd = "QUIT" \/ (r.cmd = "PUT" /\ r.status = 1)

AnswersNext(s, S, got, op) ==
    /\ s.at = "reply" /\ s.out_sent = 0 /\ Suits(s.out[1], op) /\ got = Len(S)
    /\ s.next = "close" => Last(s.out[1], op)

Asks(s, log, S, got, op) ==
    \/ AsksHeader(s, log, S, got, op) \/ AsksPlain(s, S, got, op)
    \/ AsksName(s, S, got, op) \/ AsksSecond(s, S, got, op)
    \/ AsksData(s, S, got, op) \/ AnswersNext(s, S, got, op)

(* The reply was begun, or it was sent.                                    *)
Answered(s, log, S, got) ==
    /\ got = Len(S)
    /\ \/ s.at \in {"header", "get_read", "get_send"}
       \/ s.at = "reply" /\ s.out_sent > 0 /\ s.next = "header"
       \/ Refuses(s, log)

Rests(s, log, S, got) == got = Len(S) /\ (AtRest(s, log) \/ Refuses(s, log))

(* What a client has to read: nothing, the reply to its command, or the    *)
(* rest of that.                                                           *)
Hand(op, log, un) == InHand(op, log, un) /\ Suits(LastOf(log), op)

Held(c, log, un) ==
    /\ c.at \in {"prompt", "send"} => un = 0
    /\ c.at = "recv" => un = 0 \/ Hand(c.op, log, un)
    /\ c.at = "body" => InBody(c.left, log, un)

(* Client and server are in step, until the connection is closed.          *)
Locked(c, log, un, s, S, got) ==
    /\ c.at = "prompt" => Rests(s, log, S, got)
    /\ c.at \in {"send", "recv"} /\ un = 0 =>
           Asks(s, log, S, got, c.op) \/ Refuses(s, log)
    /\ c.at = "recv" /\ un > 0 =>
           Answered(s, log, S, got) \/ (s.at = "close" /\ c.op.cmd = "QUIT")
    /\ c.at = "body" => Answered(s, log, S, got)

Fresh(p) ==
    /\ sock[p] = "idle" /\ stream[p] = <<>> /\ rcvd[p] = 0 /\ unread[p] = 0

(* Why the server may have closed the connection.                          *)
Lost(p) ==
    \/ ~running \/ UploadRefused(p)
    \/ cli[p].at \in {"send", "recv"} /\ cli[p].op.cmd = "QUIT"

(* What is being uploaded has a name that the server takes.                *)
SafeOp(c) == c.at \in {"send", "recv"} /\ c.op.cmd = "PUT" => c.op.name \in SafeNames

InStepFor(p) ==
    /\ ClientAt(p, "connect") => Fresh(p)
    /\ cli[p].at \notin {"connect", "closed"} =>
           sock[p] = "open" /\ (Attached(p) \/ Lost(p))
    /\ Held(cli[p], rx[p], unread[p])
    /\ Attached(p) => Locked(cli[p], rx[p], unread[p], ses[p], Means(p), rcvd[p])
    /\ SafeLines(todo[p], local[p]) /\ SafeOp(cli[p])

TogetherInv ==
    TypeInv /\ Replied /\ ClientsTyped /\ \A p \in Peers \ Fragile : InStepFor(p)

-----------------------------------------------------------------------------
(* The client's steps.                                                     *)

(* A session that has sent all of a reply and begun no other is at rest.   *)
LEMMA CompleteRests ==
    ASSUME NEW s \in Session, LocalsFit(s), NEW log \in Seq(Reply), NEW dir,
           SentFits(s, log, dir), AllComplete(log, 0),
           NEW S, NEW got, Answered(s, log, S, got)
    PROVE  Rests(s, log, S, got)
<1>1. log # <<>> /\ Complete(LastOf(log)) /\ Len(LastOf(log).body) = LastOf(log).length
  BY DEF AllComplete, Complete
<1>2. CASE s.at = "reply" /\ s.out_sent > 0 /\ s.next = "header"
  <2> DEFINE n == s.out_sent
             m == Len(s.out[1].body)
             l == s.out[1].length
  <2>1. n <= m /\ m = l
    BY <1>2 DEF LocalsFit, Complete
  <2>2. l = n - 1
    BY <1>1, <1>2 DEF SentFits, LastOf
  <2>3. n \in Nat
    BY DEF Session
  <2> HIDE DEF n, m, l
  <2>4. FALSE
    BY <2>1, <2>2, <2>3
  <2>. QED
    BY <2>4
<1>3. CASE s.at = "get_send"
  <2> DEFINE m == Len(LastOf(log).body)
             l == LastOf(log).length
  <2>1. s.off = m + 1 /\ s.off <= l /\ m = l
    BY <1>1, <1>3 DEF SentFits, LastOf
  <2>2. m \in Nat
    BY <1>1, LastReply DEF LastOf
  <2> HIDE DEF m, l
  <2>3. FALSE
    BY <2>1, <2>2
  <2>. QED
    BY <2>3
<1>. QED
  BY <1>1, <1>2, <1>3 DEF Answered, Rests, AtRest

LEMMA HeldMoves ==
    ASSUME NEW log \in Seq(Reply), LogFits(log), NEW un, NEW new, NEW S, NEW T,
           NEW c, NEW d, Held(c, log, un), ClientDoes(c, d, S, T, log, un, new)
    PROVE  Held(d, log, new)
BY DEF Held, ClientDoes, Hand, AllComplete

LEMMA LockedMoves ==
    ASSUME NEW s \in Session, LocalsFit(s), NEW log \in Seq(Reply), LogFits(log),
           NEW dir, SentFits(s, log, dir), NEW un, NEW new,
           NEW S \in Seq(Unit), NEW T, NEW got \in Nat, NEW c, NEW d,
           Held(c, log, un), Locked(c, log, un, s, S, got),
           ClientDoes(c, d, S, T, log, un, new)
    PROVE  Locked(d, log, new, s, T, got)
<1>1. CASE d.at = "closed" /\ c.at # "send" /\ T = S
  BY <1>1 DEF Locked
<1>2. CASE c.at = "prompt" /\ d.at = "prompt" /\ T = S /\ new = un
  BY <1>2 DEF Locked
<1>3. CASE /\ c.at = "prompt" /\ d.at = "send" /\ new = un
           /\ T \in Seq(Unit) /\ CommandAt(T, Len(S) + 1, d.op)
  <2>1. un = 0 /\ got = Len(S) /\ (AtRest(s, log) \/ Refuses(s, log))
    BY <1>3 DEF Locked, Held, Rests
  <2>2. AtRest(s, log) => AsksHeader(s, log, T, got, d.op)
    BY <1>3, <2>1 DEF AsksHeader
  <2>. QED
    BY <1>3, <2>1, <2>2 DEF Locked, Asks
<1>4. CASE c.at = "send" /\ d.at \in {"send", "recv"} /\ d.op = c.op /\ T = S /\ new = un
  BY <1>4 DEF Locked, Held
<1>5. CASE /\ c.at = "recv" /\ d.at = "body" /\ T = S /\ un > 0 /\ c.op.cmd # "QUIT"
           /\ InHand(c.op, log, un) => InBody(d.left, log, new)
  BY <1>5 DEF Locked
<1>6. CASE /\ c.at = "recv" /\ d.at = "prompt" /\ T = S /\ un > 0 /\ c.op.cmd # "QUIT"
           /\ InHand(c.op, log, un) /\ LogFits(log) => AllComplete(log, new)
  <2>1. Answered(s, log, S, got)
    BY <1>6 DEF Locked
  <2>2. un # 0
    BY <1>6
  <2>3. AllComplete(log, new)
    BY <1>6, <2>2 DEF Held, Hand
  <2>4. AllComplete(log, 0)
    BY <2>3 DEF AllComplete
  <2>5. Rests(s, log, S, got)
    BY <2>1, <2>4, CompleteRests
  <2>. QED
    BY <1>6, <2>5 DEF Locked
<1>7. CASE /\ c.at = "body" /\ d.at = "body" /\ T = S
           /\ InBody(c.left, log, un) => InBody(d.left, log, new)
  BY <1>7 DEF Locked
<1>8. CASE /\ c.at = "body" /\ d.at = "prompt" /\ T = S
           /\ InBody(c.left, log, un) /\ LogFits(log) => AllComplete(log, new)
  <2>1. Answered(s, log, S, got) /\ AllComplete(log, new)
    BY <1>8 DEF Locked, Held
  <2>2. AllComplete(log, 0)
    BY <2>1 DEF AllComplete
  <2>3. Rests(s, log, S, got)
    BY <2>1, <2>2, CompleteRests
  <2>. QED
    BY <1>8, <2>3 DEF Locked
<1>. QED
  BY <1>1, <1>2, <1>3, <1>4, <1>5, <1>6, <1>7, <1>8 DEF ClientDoes

(* What a client's step leaves of the server's invariant.                  *)
LEMMA EndStepTyped ==
    ASSUME TypeInv, NEW p \in Peers, EndStep(p), UNCHANGED serverVars
    PROVE  TypeInv'
<1>1. /\ WireTypeOK' /\ rx' = rx /\ rcvd' = rcvd /\ files' = files /\ backlog' = backlog
      /\ \A q \in Peers : sock'[q] = "idle" <=> sock[q] = "idle"
      /\ queue' = queue /\ serving' = serving /\ served' = served /\ ses' = ses
      /\ running' = running
  BY DEF EndStep, serverVars
<1>2. TypeOK'
  BY <1>1 DEF TypeInv, TypeOK
<1>3. Placed'
  BY <1>1 DEF TypeInv, Placed
<1>4. \A q \in Peers : LocalsFit(ses'[q])
  BY <1>1 DEF TypeInv
<1>. QED
  BY <1>2, <1>3, <1>4 DEF TypeInv

LEMMA EndStepKeeps ==
    ASSUME TypeInv, Replied, NEW p \in Peers, EndStep(p), UNCHANGED serverVars
    PROVE  TypeInv' /\ Replied'
<1>1. rx' = rx /\ files' = files /\ serving' = serving /\ ses' = ses
  BY DEF EndStep, serverVars
<1>2. TypeInv'
  BY EndStepTyped
<1>3. Replied'
  BY <1>1 DEF Replied
<1>. QED
  BY <1>2, <1>3

(* The facts that the steps of client and server leave as they are.        *)
SameFor(q) ==
    /\ cli'[q] = cli[q] /\ todo'[q] = todo[q] /\ local'[q] = local[q]
    /\ sock'[q] = sock[q] /\ stream'[q] = stream[q]
    /\ rx'[q] = rx[q] /\ rcvd'[q] = rcvd[q] /\ unread'[q] = unread[q]
    /\ ses'[q] = ses[q] /\ running' = running
    /\ Attached(q)' <=> Attached(q)

LEMMA SameInStep ==
    ASSUME NEW q, SameFor(q), InStepFor(q)
    PROVE  InStepFor(q)'
<1>1. /\ Fresh(q)' <=> Fresh(q)
      /\ ClientAt(q, "connect")' <=> ClientAt(q, "connect")
      /\ Lost(q)' <=> Lost(q)
      /\ Means(q)' = Means(q)
  BY DEF SameFor, Fresh, ClientAt, Lost, UploadRefused, Means
<1>2. Locked(cli'[q], rx'[q], unread'[q], ses'[q], Means(q)', rcvd'[q]) <=>
      Locked(cli[q], rx[q], unread[q], ses[q], Means(q), rcvd[q])
  BY <1>1 DEF SameFor
<1>3. SafeLines(todo[q], local[q])' <=> SafeLines(todo[q], local[q])
  BY DEF SameFor, SafeLines, SafeUpload
<1>. QED
  BY <1>1, <1>2, <1>3 DEF InStepFor, SameFor

LEMMA OthersSame ==
    ASSUME ClientsTyped, NEW p \in Peers, EndStep(p), OwnStep(p), UNCHANGED serverVars,
           NEW q \in Peers \ {p}, todo'[q] = todo[q], local'[q] = local[q]
    PROVE  SameFor(q)
<1>1. PICK d : Left(p, d)
  BY DEF OwnStep
<1>2. cli'[q] = cli[q]
  BY <1>1, LeftTyped
<1>3. /\ ses' = ses /\ queue' = queue /\ serving' = serving /\ running' = running
      /\ backlog' = backlog
  BY DEF serverVars, EndStep
<1>4. Attached(q)' <=> Attached(q)
  BY <1>3 DEF Attached
<1>. QED
  BY <1>2, <1>3, <1>4 DEF EndStep, SameFor

(* A client leaves the lines and the files of the others alone.            *)
LEMMA OwnFiles ==
    ASSUME ClientsTyped, NEW p \in Peers, UserRuns(p) \/ UserBreaks(p)
    PROVE  \A q \in Peers \ {p} : todo'[q] = todo[q] /\ local'[q] = local[q]
<1>1. todo \in [Peers -> Seq(Lines)] /\ local \in [Peers -> [Names -> File]]
  BY DEF ClientsTyped
<1>2. CASE UNCHANGED <<todo, local>>
  BY <1>2
<1>3. CASE Connects(p, running) \/ InputEnds(p) \/ Transmits(p)
           \/ TransmitFails(p, Attached(p)) \/ BodyEnds(p) \/ NoReply(p, Attached(p))
           \/ CloseArrives(p, Attached(p)) \/ DiskFails(p) \/ Killed(p)
  BY <1>2, <1>3 DEF Connects, InputEnds, Transmits, TransmitFails, BodyEnds, NoReply,
     CloseArrives, DiskFails, Killed, Becomes, cliVars
<1>4. CASE Types(p)
  BY <1>1, <1>4 DEF Types
<1>5. CASE RecvReply(p)
  <2>1. /\ todo' = todo
        /\ \/ local' = local
           \/ \E name : Opened(p, name)
    BY <1>5 DEF RecvReply, GetBegins, Becomes
  <2>. QED
    BY <1>1, <2>1 DEF Opened
<1>6. CASE RecvBody(p)
  <2>1. /\ todo' = todo
        /\ \/ local' = local
           \/ \E name, byte : local' = [local EXCEPT ![p][name].data = Append(@, byte)]
    BY <1>6 DEF RecvBody, Becomes
  <2>. QED
    BY <1>1, <2>1
<1>. QED
  BY <1>3, <1>4, <1>5, <1>6 DEF UserRuns, UserBreaks, ClientRuns, ClientBreaks

(* Only names that the server takes come to be files of a client.          *)
LEMMA SafeLinesKept ==
    ASSUME NEW lines \in Seq(Lines), NEW dir, NEW new, SafeLines(lines, dir),
           \A n \in Names : n \in SafeNames \/ new[n].kind = dir[n].kind
    PROVE  SafeLines(lines, new)
<1>1. SUFFICES ASSUME NEW i \in 1 .. Len(lines)
               PROVE  SafeUpload(lines[i], new)
  BY DEF SafeLines
<1>2. SafeUpload(lines[i], dir) /\ lines[i] \in Lines
  BY <1>1, ElementOfSeq DEF SafeLines
<1>. QED
  BY <1>2 DEF SafeUpload, Lines

LEMMA TailSafe ==
    ASSUME NEW lines \in Seq(Lines), NEW dir, SafeLines(lines, dir), lines # <<>>
    PROVE  /\ SafeLines(Tail(lines), dir) /\ SafeUpload(Head(lines), dir)
           /\ Head(lines) \in Lines
<1>1. /\ Len(lines) \in Nat /\ Len(lines) > 0 /\ Len(Tail(lines)) = Len(lines) - 1
      /\ \A i \in 1 .. Len(Tail(lines)) : Tail(lines)[i] = lines[i + 1]
      /\ Head(lines) = lines[1]
  BY EmptySeq, LenProperties, HeadTailProperties
<1>2. 1 \in 1 .. Len(lines)
  BY <1>1
<1>3. \A i \in 1 .. Len(Tail(lines)) : i + 1 \in 1 .. Len(lines)
  BY <1>1
<1>4. lines[1] \in Lines
  BY <1>2, ElementOfSeq
<1>. QED
  BY <1>1, <1>2, <1>3, <1>4 DEF SafeLines

(* What a step of p's own leaves of its uploads.                           *)
StaysSafe(p) == SafeLines(todo'[p], local'[p]) /\ SafeOp(cli'[p])

LEMMA TypesSafe ==
    ASSUME ClientsTyped, NEW p \in Peers, SafeLines(todo[p], local[p]), Types(p)
    PROVE  StaysSafe(p)
<1> DEFINE line == Head(todo[p])
<1>1. /\ todo[p] # <<>> /\ todo[p] \in Seq(Lines) /\ local' = local
      /\ todo'[p] = Tail(todo[p])
  BY DEF Types, ClientsTyped
<1>2. /\ SafeLines(Tail(todo[p]), local[p]) /\ SafeUpload(line, local[p])
      /\ line \in Lines
  BY <1>1, TailSafe
<1> HIDE DEF line
<1>3. SafeLines(todo'[p], local'[p])
  BY <1>1, <1>2
<1>4. \/ cli' = cli \/ (\E op : cli' = [cli EXCEPT ![p].op = op])
      \/ /\ ~RefusedHere(p, line)
         /\ \E op, out : /\ op.cmd = line.cmd /\ op.name = line.name
                         /\ cli' = [cli EXCEPT ![p].at = "send", ![p].op = op, ![p].out = out]
  BY DEF Types, line
<1>5. cli \in [Peers -> Process] /\ cli[p].at = "prompt"
  BY DEF ClientsTyped, Types, ClientAt
<1>6. CASE cli' = cli \/ \E op : cli' = [cli EXCEPT ![p].op = op]
  <2>1. cli'[p].at = "prompt"
    BY <1>5, <1>6 DEF Process
  <2>. QED
    BY <1>3, <2>1 DEF StaysSafe, SafeOp
<1>7. CASE /\ ~RefusedHere(p, line)
           /\ \E op, out : /\ op.cmd = line.cmd /\ op.name = line.name
                           /\ cli' = [cli EXCEPT ![p].at = "send", ![p].op = op, ![p].out = out]
  <2>1. cli'[p].op.cmd = line.cmd /\ cli'[p].op.name = line.name
    BY <1>5, <1>7 DEF Process
  <2>2. line.cmd = "PUT" => line.name \in SafeNames
    BY <1>2, <1>7 DEF SafeUpload, RefusedHere
  <2>. QED
    BY <1>3, <2>1, <2>2 DEF StaysSafe, SafeOp
<1>. QED
  BY <1>4, <1>6, <1>7

(* recv_header: a file is opened only for a download that was granted.     *)
LEMMA RecvReplySafe ==
    ASSUME WireTypeOK, ClientsTyped, NEW p \in Peers, SafeLines(todo[p], local[p]),
           Held(cli[p], rx[p], unread[p]), RecvReply(p)
    PROVE  StaysSafe(p)
<1> DEFINE u == NextUnit(p)
           name == cli[p].op.name
<1>1. /\ ClientAt(p, "recv") /\ unread[p] > 0 /\ todo' = todo
      /\ \/ local' = local
         \/ /\ u.cmd = cli[p].op.cmd /\ u.status = 0 /\ cli[p].op.cmd = "GET"
            /\ Opened(p, name)
  <2>1. cli[p] \in Process /\ DOMAIN cli[p] = {"at", "out", "left", "drop", "told", "op"}
    BY ClientFacts DEF Process
  <2>2. [cli[p] EXCEPT !.at = "body", !.left = u.length].op = cli[p].op
    BY <2>1
  <2>. QED
    BY <2>2 DEF RecvReply, GetBegins, Granted, Becomes, TakesUnit
<1>2. todo[p] \in Seq(Lines) /\ local[p] \in [Names -> File]
  BY ClientFacts
<1>3. cli'[p].at \notin {"send", "recv"}
  <2>1. StepIs(p)
    BY RecvReplyIs
  <2>2. cli'[p].at \in {"closed", "body", "prompt"}
    BY <1>1, <2>1 DEF StepIs, DoesFor, ClientDoes, ClientAt
  <2>. QED
    BY <2>2
<1>4. CASE local' = local
  BY <1>1, <1>3, <1>4 DEF StaysSafe, SafeOp
<1>5. CASE /\ u.cmd = cli[p].op.cmd /\ u.status = 0 /\ cli[p].op.cmd = "GET"
           /\ Opened(p, name)
  <2>1. Hand(cli[p].op, rx[p], unread[p])
    <3>1. unread[p] # 0
      BY <1>1
    <3>. QED
      BY <1>1, <3>1 DEF Held, ClientAt
  <2>2. HeadOf(u, LastOf(rx[p]))
    BY <2>1, NextIsHead DEF Hand
  <2>3. name \in SafeNames
    BY <1>5, <2>1, <2>2 DEF Hand, Suits, HeadOf
  <2> HIDE DEF name
  <2>4. local'[p] = [local[p] EXCEPT ![name] = Truncated]
    BY <1>5 DEF Opened, ClientsTyped
  <2>5. \A n \in Names : n \in SafeNames \/ local'[p][n].kind = local[p][n].kind
    BY <1>2, <2>3, <2>4
  <2>6. SafeLines(todo[p], local'[p])
    BY <1>2, <2>5, SafeLinesKept
  <2>. QED
    BY <1>1, <1>3, <2>6 DEF StaysSafe, SafeOp
<1>. QED
  BY <1>1, <1>4, <1>5

LEMMA RecvBodySafe ==
    ASSUME WireTypeOK, ClientsTyped, NEW p \in Peers, SafeLines(todo[p], local[p]),
           RecvBody(p)
    PROVE  StaysSafe(p)
<1>1. /\ ClientAt(p, "body") /\ todo' = todo
      /\ \/ local' = local
         \/ \E name, byte : local' = [local EXCEPT ![p][name].data = Append(@, byte)]
  BY DEF RecvBody, Becomes
<1>2. todo[p] \in Seq(Lines) /\ local[p] \in [Names -> File]
  BY ClientFacts
<1>3. cli'[p].at \notin {"send", "recv"}
  <2>1. StepIs(p)
    BY RecvBodyIs
  <2>2. cli'[p].at \in {"closed", "body", "prompt"}
    BY <1>1, <2>1 DEF StepIs, DoesFor, ClientDoes, ClientAt
  <2>. QED
    BY <2>2
<1>4. \A n \in Names : local'[p][n].kind = local[p][n].kind
  <2>1. CASE local' = local
    BY <2>1
  <2>2. ASSUME NEW name, NEW byte,
               local' = [local EXCEPT ![p][name].data = Append(@, byte)]
        PROVE  \A n \in Names : local'[p][n].kind = local[p][n].kind
    <3>1. local'[p] = [local[p] EXCEPT ![name].data = Append(@, byte)]
      BY <2>2 DEF ClientsTyped
    <3>2. \A n \in Names : local[p][n] \in File
      BY <1>2
    <3>. QED
      BY <1>2, <3>1, <3>2 DEF File
  <2>. QED
    BY <1>1, <2>1, <2>2
<1>5. SafeLines(todo[p], local'[p])
  BY <1>2, <1>4, SafeLinesKept
<1>. QED
  BY <1>1, <1>3, <1>5 DEF StaysSafe, SafeOp

(* A call that finds the connection closed ends the command.               *)
LEMMA FailureEnds ==
    ASSUME WireTypeOK, ClientsTyped, NEW p \in Peers, NEW open,
           TransmitFails(p, open) \/ NoReply(p, open)
    PROVE  /\ ~open /\ sock' = sock /\ UNCHANGED <<todo, local>>
           /\ cli[p].at \in {"send", "recv", "body"}
           /\ cli'[p].at = "closed" \/ (cli'[p].at = "prompt" /\ cli[p].op.cmd # "QUIT")
           /\ (cli[p].at = "send" /\ unread' = unread) \/ unread'[p] = 0
<1>1. cli \in [Peers -> Process] /\ cli[p] \in Process /\ unread \in [Peers -> 0 .. SndBuf]
  BY DEF ClientsTyped, WireTypeOK
<1>2. \E d : /\ cli' = [cli EXCEPT ![p] = d]
             /\ d = Exited(cli[p]) \/ d = Reports(cli[p], "failed")
                \/ d = [Reports(cli[p], "failed") EXCEPT !.told = TRUE]
  BY DEF TransmitFails, NoReply, Becomes
<1>3. cli'[p].at = "closed" \/ (cli'[p].at = "prompt" /\ cli[p].op.cmd # "QUIT")
  <2>1. PICK d : /\ cli' = [cli EXCEPT ![p] = d]
                 /\ d = Exited(cli[p]) \/ d = Reports(cli[p], "failed")
                    \/ d = [Reports(cli[p], "failed") EXCEPT !.told = TRUE]
    BY <1>2
  <2>2. cli'[p] = d
    BY <1>1, <2>1
  <2>3. d.at = "closed" \/ (d.at = "prompt" /\ cli[p].op.cmd # "QUIT")
    <3>1. CASE d = Exited(cli[p])
      BY <1>1, <3>1, ExitedIs DEF Over
    <3>2. CASE d = Reports(cli[p], "failed")
      <4>1. Done(cli[p], d)
        BY <1>1, <3>2, ReportsIs
      <4>. QED
        BY <4>1 DEF Done
    <3>3. CASE d = [Reports(cli[p], "failed") EXCEPT !.told = TRUE]
      <4>1. Done(cli[p], d)
        BY <1>1, <3>3, ToldIs
      <4>. QED
        BY <4>1 DEF Done
    <3>. QED
      BY <2>1, <3>1, <3>2, <3>3
  <2>. QED
    BY <2>2, <2>3
<1>4. /\ ~open /\ sock' = sock /\ UNCHANGED <<todo, local>>
      /\ cli[p].at \in {"send", "recv", "body"}
      /\ (cli[p].at = "send" /\ unread' = unread) \/ unread' = [unread EXCEPT ![p] = 0]
  BY DEF TransmitFails, NoReply, Reset, Becomes, ClientAt, wireVars
<1>5. unread' = [unread EXCEPT ![p] = 0] => unread'[p] = 0
  BY <1>1
<1>. QED
  BY <1>3, <1>4, <1>5

LEMMA UserSafe ==
    ASSUME WireTypeOK, ClientsTyped, NEW p \in Peers, SafeLines(todo[p], local[p]),
           SafeOp(cli[p]), Held(cli[p], rx[p], unread[p]), UserRuns(p)
    PROVE  StaysSafe(p)
<1>1. CASE Types(p) \/ RecvReply(p) \/ RecvBody(p)
  BY <1>1, TypesSafe, RecvReplySafe, RecvBodySafe
<1>2. ASSUME UNCHANGED <<todo, local>>, SafeOp(cli'[p])
      PROVE  StaysSafe(p)
  BY <1>2 DEF StaysSafe
<1>3. CASE Connects(p, running)
  <2>1. UNCHANGED <<todo, local>> /\ cli[p].at = "connect"
    BY <1>3 DEF Connects, Becomes, ClientAt
  <2>2. Begins(p, running) \/ StepIs(p)
    BY <1>3, ConnectsIs
  <2>3. cli'[p].at \notin {"send", "recv"}
    BY <2>1, <2>2 DEF Begins, StepIs, DoesFor, ClientDoes
  <2>. QED
    BY <1>2, <2>1, <2>3 DEF SafeOp
<1>4. CASE TransmitFails(p, Attached(p)) \/ NoReply(p, Attached(p))
  <2>1. UNCHANGED <<todo, local>> /\ cli'[p].at \notin {"send", "recv"}
    BY <1>4, FailureEnds
  <2>. QED
    BY <1>2, <2>1 DEF SafeOp
<1>5. CASE InputEnds(p) \/ Transmits(p) \/ BodyEnds(p) \/ CloseArrives(p, Attached(p))
  <2>1. StepIs(p)
    BY <1>5, InputEndsIs, TransmitsIs, BodyEndsIs, CloseArrivesIs
  <2>2. UNCHANGED <<todo, local>>
    BY <1>5 DEF InputEnds, Transmits, BodyEnds, CloseArrives, Becomes, cliVars
  <2>3. ~(cli[p].at = "prompt" /\ cli'[p].at = "send")
    <3>1. CASE InputEnds(p)
      <4>1. cli'[p] = Exited(cli[p]) /\ cli[p] \in Process
        BY <3>1 DEF InputEnds, Becomes, ClientsTyped
      <4>. QED
        BY <4>1, ExitedIs DEF Over
    <3>2. CASE CloseArrives(p, Attached(p))
      BY <3>2 DEF CloseArrives, ClientAt
    <3>3. CASE Transmits(p) \/ BodyEnds(p)
      BY <3>3 DEF Transmits, BodyEnds, ClientAt
    <3>. QED
      BY <1>5, <3>1, <3>2, <3>3
  <2>4. SafeOp(cli'[p])
    BY <2>1, <2>3 DEF SafeOp, StepIs, DoesFor, ClientDoes
  <2>. QED
    BY <1>2, <2>2, <2>4
<1>. QED
  BY <1>1, <1>3, <1>4, <1>5 DEF UserRuns, ClientRuns

(* Its socket stays open until it closes it.                               *)
LEMMA SockKept ==
    ASSUME ClientsTyped, NEW p \in Peers, UserRuns(p), cli[p].at # "connect",
           cli'[p].at # "closed"
    PROVE  sock' = sock
<1>1. CASE CloseArrives(p, Attached(p))
  BY <1>1 DEF CloseArrives, ClientAt, cliVars
<1>2. CASE Connects(p, running)
  BY <1>2 DEF Connects, ClientAt
<1>3. CASE Types(p) \/ InputEnds(p) \/ Transmits(p) \/ TransmitFails(p, Attached(p))
           \/ RecvReply(p) \/ RecvBody(p) \/ BodyEnds(p) \/ NoReply(p, Attached(p))
  BY <1>3 DEF Types, InputEnds, Transmits, TransmitFails, RecvReply, RecvBody, BodyEnds,
     NoReply, TakesUnit, wireVars
<1>. QED
  BY <1>1, <1>2, <1>3 DEF UserRuns, ClientRuns

(* Where a session is that no worker has taken yet.                        *)
LEMMA SessionFacts ==
    ASSUME TypeInv, Replied, NEW p \in Peers
    PROVE  /\ ses[p] \in Session /\ LocalsFit(ses[p])
           /\ rx[p] \in Seq(Reply) /\ LogFits(rx[p])
           /\ rcvd[p] \in Nat /\ unread[p] \in Nat
           /\ Attached(p) => SentFits(ses[p], rx[p], files)
<1>1. /\ ses[p] \in Session /\ LocalsFit(ses[p]) /\ rx[p] \in Seq(Reply)
      /\ rcvd[p] \in Nat /\ unread[p] \in Nat
  BY WireFacts, WireAssumption
<1>2. LogFits(rx[p]) /\ (p \in serving => SentFits(ses[p], rx[p], files))
  BY DEF Replied
<1>3. ASSUME Attached(p), p \notin serving
      PROVE  SentFits(ses[p], rx[p], files)
  <2>1. ses[p] = NoSession /\ rx[p] = <<>>
    BY <1>3 DEF Attached, TypeInv, Placed
  <2>. QED
    BY <2>1 DEF SentFits, NoSession, Whole
<1>. QED
  BY <1>1, <1>2, <1>3

LEMMA StepKeeps ==
    ASSUME TogetherInv, NEW p \in Peers, StepIs(p), UserRuns(p)
    PROVE  TogetherInv'
<1>1. /\ TypeInv /\ Replied /\ ClientsTyped /\ WireTypeOK
      /\ EndStep(p) /\ OwnStep(p) /\ DoesFor(p) /\ UNCHANGED serverVars
  BY DEF TogetherInv, StepIs, TypeInv, TypeOK, UserRuns
<1>2. TypeInv' /\ Replied' /\ ClientsTyped'
  BY <1>1, EndStepKeeps, StepTyped
<1>3. \A q \in Peers \ {p} : SameFor(q)
  BY <1>1, OthersSame, OwnFiles
<1>4. \A q \in Peers \ Fragile : q # p => InStepFor(q)'
  BY <1>3, SameInStep DEF TogetherInv
<1>5. ASSUME p \notin Fragile
      PROVE  InStepFor(p)'
  <2>1. InStepFor(p)
    BY <1>5 DEF TogetherInv
  <2>2. /\ ses' = ses /\ rx' = rx /\ rcvd' = rcvd /\ running' = running
        /\ Attached(p)' <=> Attached(p)
    BY <1>1 DEF EndStep, serverVars, Attached
  <2>3. ClientDoes(cli[p], cli'[p], Means(p), Means(p)', rx[p], unread[p], unread'[p])
    BY <1>1 DEF DoesFor
  <2>4. cli'[p].at # "connect"
    BY <2>3 DEF ClientDoes
  <2>5. /\ ses[p] \in Session /\ LocalsFit(ses[p])
        /\ rx[p] \in Seq(Reply) /\ LogFits(rx[p]) /\ rcvd[p] \in Nat
        /\ Attached(p) => SentFits(ses[p], rx[p], files)
    BY <1>1, SessionFacts
  <2>6. Means(p) \in Seq(Unit)
    BY <1>1, MeansIs
  <2>7. Held(cli'[p], rx[p], unread'[p])
    BY <2>1, <2>3, <2>5, HeldMoves DEF InStepFor
  <2>8. Attached(p) => Locked(cli'[p], rx[p], unread'[p], ses[p], Means(p)', rcvd[p])
    BY <2>1, <2>3, <2>5, <2>6, LockedMoves DEF InStepFor
  <2>9. StaysSafe(p)
    BY <1>1, <2>1, UserSafe DEF InStepFor
  <2>10. ASSUME cli'[p].at # "closed"
         PROVE  sock'[p] = "open" /\ (Attached(p)' \/ Lost(p)')
    <3>1. cli[p].at \notin {"connect", "closed"}
      BY <2>3, <2>10 DEF ClientDoes
    <3>2. sock' = sock
      BY <1>1, <2>10, <3>1, SockKept
    <3>3. Lost(p) => Lost(p)'
      <4>1. CASE ~running \/ UploadRefused(p)
        BY <2>2, <4>1 DEF Lost, UploadRefused
      <4>2. CASE cli[p].at \in {"send", "recv"} /\ cli[p].op.cmd = "QUIT"
        <5>1. cli'[p].at \in {"send", "recv"} /\ cli'[p].op = cli[p].op
          BY <2>3, <2>7, <2>10, <4>2 DEF ClientDoes
        <5>. QED
          BY <4>2, <5>1 DEF Lost
      <4>. QED
        BY <4>1, <4>2 DEF Lost
    <3>. QED
      BY <2>1, <2>2, <3>1, <3>2, <3>3 DEF InStepFor
  <2>. QED
    BY <2>2, <2>4, <2>7, <2>8, <2>9, <2>10 DEF InStepFor, ClientAt, StaysSafe
<1>. QED
  BY <1>2, <1>4, <1>5 DEF TogetherInv

LEMMA GiveUpKeeps ==
    ASSUME TogetherInv, NEW p \in Peers, GivenUp(p), UserRuns(p) \/ UserBreaks(p),
           \/ p \in Fragile
           \/ UserRuns(p) /\ (TransmitFails(p, Attached(p)) \/ NoReply(p, Attached(p)))
    PROVE  TogetherInv'
<1>1. /\ TypeInv /\ Replied /\ ClientsTyped /\ WireTypeOK
      /\ EndStep(p) /\ OwnStep(p) /\ cli'[p].at # "connect" /\ UNCHANGED serverVars
  BY DEF TogetherInv, GivenUp, TypeInv, TypeOK, UserRuns, UserBreaks
<1>2. TypeInv' /\ Replied' /\ ClientsTyped'
  BY <1>1, EndStepKeeps, StepTyped
<1>3. \A q \in Peers \ {p} : SameFor(q)
  BY <1>1, OthersSame, OwnFiles
<1>4. \A q \in Peers \ Fragile : q # p => InStepFor(q)'
  BY <1>3, SameInStep DEF TogetherInv
<1>5. ASSUME p \notin Fragile
      PROVE  InStepFor(p)'
  <2>1. InStepFor(p) /\ UserRuns(p)
    BY <1>5 DEF TogetherInv
  <2>2. /\ ses' = ses /\ rx' = rx /\ rcvd' = rcvd /\ running' = running
        /\ Attached(p)' <=> Attached(p)
    BY <1>1 DEF EndStep, serverVars, Attached
  <2>3. /\ ~Attached(p) /\ sock' = sock
        /\ cli[p].at \in {"send", "recv", "body"}
        /\ cli'[p].at = "closed" \/ (cli'[p].at = "prompt" /\ cli[p].op.cmd # "QUIT")
        /\ (cli[p].at = "send" /\ unread' = unread) \/ unread'[p] = 0
    BY <1>1, <1>5, FailureEnds
  <2>4. Held(cli'[p], rx'[p], unread'[p])
    BY <2>1, <2>3 DEF Held, InStepFor
  <2>5. StaysSafe(p)
    BY <1>1, <2>1, UserSafe DEF InStepFor
  <2>6. sock[p] = "open" /\ Lost(p)
    BY <2>1, <2>3 DEF InStepFor
  <2>7. cli'[p].at # "closed" => Lost(p)'
    <3>1. CASE ~running \/ UploadRefused(p)
      BY <2>2, <3>1 DEF Lost, UploadRefused
    <3>2. CASE cli[p].at \in {"send", "recv"} /\ cli[p].op.cmd = "QUIT"
      BY <2>3, <3>2
    <3>. QED
      BY <2>6, <3>1, <3>2 DEF Lost
  <2>. QED
    BY <1>1, <2>2, <2>3, <2>4, <2>5, <2>6, <2>7 DEF InStepFor, ClientAt, StaysSafe
<1>. QED
  BY <1>2, <1>4, <1>5 DEF TogetherInv

LEMMA BeginKeeps ==
    ASSUME TogetherInv, NEW p \in Peers, NEW d, cli' = [cli EXCEPT ![p] = d],
           Begins(p, running), UserRuns(p)
    PROVE  TogetherInv'
<1>1. /\ TypeInv /\ Replied /\ ClientsTyped /\ ClientsTyped' /\ Connect(p) /\ running
      /\ cli'[p].at = "prompt" /\ cli[p].at = "connect" /\ WireTypeOK /\ WireTypeOK'
      /\ UNCHANGED serverVars
  BY DEF TogetherInv, Begins, TypeInv, TypeOK, UserRuns
<1>2. TypeInv'
  <2>1. Peer(p)
    BY <1>1 DEF Peer, PeerConnects
  <2>. QED
    BY <1>1, <2>1, PeerSteps
<1>3. /\ UNCHANGED <<ses, queue, serving, running, stream, rcvd, rx, unread, files>>
      /\ sock[p] = "idle" /\ sock' = [sock EXCEPT ![p] = "open"]
      /\ backlog' = Append(backlog, p)
  BY <1>1 DEF Connect, serverVars
<1>4. Replied'
  BY <1>1, <1>3 DEF Replied
<1>5. /\ sock \in [Peers -> {"idle", "open", "fin", "rst", "pipe"}]
      /\ backlog \in Seq(Peers) /\ p \notin Elems(backlog) /\ Distinct(backlog)
  BY <1>1, <1>3 DEF WireTypeOK, TypeInv, Placed
<1>6. Elems(backlog') = Elems(backlog) \cup {p}
  BY <1>3, <1>5, LastJoins
<1>7. \A q \in Peers \ Fragile : q # p => InStepFor(q)'
  <2>1. SUFFICES ASSUME NEW q \in Peers \ Fragile, q # p
                 PROVE  InStepFor(q)'
    OBVIOUS
  <2>2. cli'[q] = cli[q] /\ sock'[q] = sock[q]
    BY <1>1, <1>3, <1>5, <2>1 DEF ClientsTyped
  <2>3. Attached(q)' <=> Attached(q)
    BY <1>3, <1>6, <2>1 DEF Attached
  <2>4. todo'[q] = todo[q] /\ local'[q] = local[q]
    BY <1>1, <2>1, OwnFiles
  <2>5. SameFor(q)
    BY <1>3, <2>2, <2>3, <2>4 DEF SameFor
  <2>. QED
    BY <2>5, SameInStep DEF TogetherInv
<1>8. ASSUME p \notin Fragile
      PROVE  InStepFor(p)'
  <2>1. InStepFor(p) /\ Fresh(p)
    BY <1>1, <1>8 DEF TogetherInv, InStepFor, ClientAt
  <2>2. ses[p] = NoSession
    BY <1>1, <1>3 DEF TypeInv, Placed
  <2>3. Means(p)' = <<>>
    <3>1. cli'[p].out = <<>>
      BY <1>1 DEF ClientsTyped, Between
    <3>2. stream'[p] = <<>>
      BY <1>3, <2>1 DEF Fresh
    <3>3. <<>> \o <<>> = <<>>
      OBVIOUS
    <3>. QED
      BY <3>1, <3>2, <3>3 DEF Means
  <2>4. Rests(ses'[p], rx'[p], Means(p)', rcvd'[p]) /\ unread'[p] = 0
    <3>1. rcvd'[p] = 0 /\ unread'[p] = 0 /\ ses'[p].at = "none"
      BY <1>3, <2>1, <2>2 DEF NoSession, Fresh
    <3>2. Len(<<>>) = 0
      OBVIOUS
    <3>. QED
      BY <2>3, <3>1, <3>2 DEF Rests, AtRest
  <2>5. sock'[p] = "open" /\ Attached(p)'
    BY <1>3, <1>5, <1>6 DEF Attached
  <2>6. StaysSafe(p)
    BY <1>1, <2>1, UserSafe DEF InStepFor
  <2>7. Held(cli'[p], rx'[p], unread'[p])
    BY <1>1, <2>4 DEF Held
  <2>. QED
    BY <1>1, <2>4, <2>5, <2>6, <2>7 DEF InStepFor, Locked, ClientAt, StaysSafe
<1>. QED
  BY <1>1, <1>2, <1>4, <1>7, <1>8 DEF TogetherInv

LEMMA UserKeeps ==
    ASSUME TogetherInv, NEW p \in Peers, UserRuns(p) \/ UserBreaks(p)
    PROVE  TogetherInv'
<1>1. ClientsTyped /\ WireTypeOK
  BY DEF TogetherInv, TypeInv, TypeOK
<1>2. CASE UserRuns(p) /\ Connects(p, running)
  <2>1. \E d : cli' = [cli EXCEPT ![p] = d]
    BY <1>2 DEF Connects, Becomes
  <2>. QED
    BY <1>1, <1>2, <2>1, ConnectsIs, BeginKeeps, StepKeeps
<1>3. CASE /\ UserRuns(p)
           /\ \/ Types(p) \/ InputEnds(p) \/ Transmits(p) \/ RecvReply(p) \/ RecvBody(p)
              \/ BodyEnds(p) \/ CloseArrives(p, Attached(p))
  <2>1. StepIs(p)
    BY <1>1, <1>3, TypesIs, InputEndsIs, TransmitsIs, RecvReplyIs, RecvBodyIs, BodyEndsIs,
       CloseArrivesIs
  <2>. QED
    BY <1>3, <2>1, StepKeeps
<1>4. CASE /\ UserRuns(p)
           /\ TransmitFails(p, Attached(p)) \/ NoReply(p, Attached(p))
  <2>1. GivenUp(p)
    BY <1>1, <1>4, TransmitFailsIs, NoReplyIs
  <2>. QED
    BY <1>4, <2>1, GiveUpKeeps
<1>5. CASE UserBreaks(p)
  <2>1. p \in Fragile /\ (DiskFails(p) \/ Killed(p))
    BY <1>5 DEF UserBreaks, ClientBreaks
  <2>. QED
    BY <1>1, <1>5, <2>1, DiskFailsIs, KilledIs, GiveUpKeeps
<1>. QED
  BY <1>2, <1>3, <1>4, <1>5 DEF UserRuns, ClientRuns

-----------------------------------------------------------------------------
(* The calls that read: what a client asks for is on its way until its     *)
(* reply is the next thing to be sent.                                     *)

Faultless == "resource" \notin Faults /\ "write" \notin Faults /\ MaxFilenameLen > 0

(* The session p is in the middle of the request op.                       *)
Waits(p, S, op) ==
    /\ TypeInv /\ ClientsTyped /\ p \in Peers /\ S = Means(p) /\ sock[p] = "open"
    /\ Asks(ses[p], rx[p], S, rcvd[p], op)
    /\ op.cmd = "PUT" => op.name \in SafeNames

AsksOn(p, S, op) == Asks(ses'[p], rx[p], S, rcvd'[p], op)

LEMMA WaitsFacts ==
    ASSUME NEW p, NEW S, NEW op, Waits(p, S, op)
    PROVE  /\ S \in Seq(Unit) /\ Len(S) \in Nat /\ rcvd[p] \in Nat /\ HdrLen \in Nat \ {0}
           /\ \A n : ~RecvFails(p, n)
           /\ ses[p] \in Session /\ LocalsFit(ses[p]) /\ WireTypeOK
<1>1. TypeInv /\ ClientsTyped /\ p \in Peers /\ S = Means(p) /\ sock[p] = "open" /\ WireTypeOK
  BY DEF Waits, TypeInv, TypeOK
<1>2. S \in Seq(Unit) /\ Len(S) \in Nat
  BY <1>1, MeansIs
<1>3. \A n : ~RecvFails(p, n)
  BY <1>1 DEF RecvFails, NoMoreComes, Ended, Broken
<1>. QED
  BY <1>1, <1>2, <1>3, WireFacts

(* What arrives is the next part of all that the client means to send.     *)
LEMMA NextArrives ==
    ASSUME TypeInv, ClientsTyped, NEW p \in Peers, NEW S, S = Means(p), NEW n \in Nat,
           RecvAll(p, n), NEW units, units = Incoming(p, n)
    PROVE  /\ rcvd'[p] = rcvd[p] + n /\ rcvd[p] + n <= Len(S)
           /\ units \in Seq(Unit) /\ Len(units) = n /\ RunAt(units, S, rcvd[p] + 1)
<1> DEFINE got == rcvd[p]
           s == stream[p]
<1>1. /\ rcvd'[p] = got + n /\ n <= sent[p] - got
      /\ got \in Nat /\ sent[p] \in Nat /\ sent[p] <= Len(s) /\ Len(s) \in Nat
      /\ s \in Seq(Unit)
  BY RecvAllStep, WireFacts
<1>2. /\ S \in Seq(Unit) /\ Len(S) \in Nat /\ Len(s) <= Len(S)
      /\ \A i \in 1 .. Len(s) : S[i] = s[i]
  BY StreamIsMeant DEF TypeInv, TypeOK
<1>3. units = SubSeq(s, got + 1, got + n)
  BY DEF Incoming
<1>4. units \in Seq(Unit) /\ Len(units) = n
  BY IncomingType
<1> HIDE DEF got, s
<1>5. got + n <= Len(s) /\ got + n <= Len(S)
  BY <1>1, <1>2
<1>6. \A k \in 1 .. n : units[k] = s[got + k]
  BY <1>1, <1>3, <1>5
<1>7. \A k \in 1 .. n : units[k] = S[got + 1 + k - 1]
  <2>1. SUFFICES ASSUME NEW k \in 1 .. n
                 PROVE  units[k] = S[got + 1 + k - 1]
    OBVIOUS
  <2>2. got + 1 + k - 1 = got + k /\ got + k \in 1 .. Len(s)
    BY <1>1, <1>5, <2>1
  <2>. QED
    BY <1>2, <1>6, <2>2
<1>. QED
  BY <1>1, <1>4, <1>5, <1>7 DEF got, RunAt

(* The header that arrives.                                                *)
LEMMA HeaderArrived ==
    ASSUME NEW S, NEW i \in Nat, NEW cmd, NEW n, HeaderIs(S, i, cmd, n),
           NEW units, Len(units) = HdrLen, RunAt(units, S, i)
    PROVE  IsHeader(units) /\ units[1].head = Plain(cmd, n)
<1>1. units[1].head = Plain(cmd, n)
  BY HeaderInBuffer
<1>2. \A k \in 1 .. HdrLen : units[k].part = k /\ units[k].head = Plain(cmd, n)
  <2>1. \A k \in 1 .. HdrLen : units[k] = S[i + k - 1]
    BY DEF RunAt
  <2>2. \A k \in 1 .. HdrLen : PartIs(S[i + k - 1], k, cmd, n)
    BY DEF HeaderIs
  <2>. QED
    BY <2>1, <2>2 DEF PartIs, Plain
<1>3. Plain(cmd, n).magic
  BY DEF Plain
<1>. QED
  BY <1>1, <1>2, <1>3 DEF IsHeader

LEMMA DispatchIs ==
    ASSUME Faultless, NEW s \in Session, NEW cmd \in {"LIST", "GET", "PUT", "QUIT"},
           NEW t, t = Dispatch(s, Plain(cmd, NameLen(cmd)))
    PROVE  /\ t.cmd = cmd /\ t.left = NameLen(cmd)
           /\ t.at = IF cmd \in {"GET", "PUT"} THEN "name" ELSE "drain"
<1> DEFINE h == Plain(cmd, NameLen(cmd))
<1>1. h.cmd = cmd /\ h.length = NameLen(cmd)
  BY DEF Plain
<1> HIDE DEF h
<1>2. ~BadName(h)
  <2>1. cmd \in {"GET", "PUT"} => h.length = 1
    BY <1>1 DEF NameLen
  <2>2. 1 \in 1 .. MaxFilenameLen
    BY WireAssumption DEF Faultless
  <2>. QED
    BY <1>1, <2>1, <2>2 DEF BadName
<1>3. t = [s EXCEPT !.cmd = h.cmd, !.left = h.length,
                    !.at = IF h.cmd \in {"GET", "PUT"} THEN "name" ELSE "drain"]
  BY <1>2 DEF Dispatch, h
<1>. QED
  BY <1>1, <1>3 DEF Session

LEMMA RecvHeaderAsks ==
    ASSUME Faultless, NEW p, NEW S, NEW op, Waits(p, S, op), RecvHeader(p)
    PROVE  AsksOn(p, S, op)
<1> DEFINE got == rcvd[p]
           upto == rcvd'[p]
           units == Incoming(p, HdrLen)
           s == ses[p]
           t == ses'[p]
<1>1. /\ S \in Seq(Unit) /\ Len(S) \in Nat /\ got \in Nat /\ HdrLen \in Nat
      /\ s \in Session /\ TypeInv /\ ClientsTyped /\ p \in Peers /\ S = Means(p)
      /\ \A n : ~RecvFails(p, n)
  BY WaitsFacts DEF Waits
<1>2. /\ s.at = "header" /\ RecvAll(p, HdrLen)
      /\ t = IF IsHeader(units) THEN Dispatch(s, units[1].head) ELSE Stop(s)
  BY <1>1, GotoIs DEF RecvHeader, At
<1>3. CommandAt(S, got + 1, op)
  BY <1>2 DEF Waits, Asks, AsksHeader, AsksPlain, AsksName, AsksSecond, AsksData, AnswersNext
<1>4. /\ upto = got + HdrLen /\ upto <= Len(S) /\ Len(units) = HdrLen
      /\ RunAt(units, S, got + 1)
  BY <1>1, <1>2, NextArrives
<1> HIDE DEF got, upto, units, s, t
<1> DEFINE cmd == op.cmd
<1>5. cmd \in {"LIST", "GET", "PUT", "QUIT"} /\ HeaderIs(S, got + 1, cmd, NameLen(cmd))
  BY <1>3 DEF CommandAt
<1> HIDE DEF cmd
<1>6. IsHeader(units) /\ units[1].head = Plain(cmd, NameLen(cmd))
  <2>1. got + 1 \in Nat
    BY <1>1
  <2>. QED
    BY <1>4, <1>5, <2>1, HeaderArrived
<1>7. t = Dispatch(s, Plain(cmd, NameLen(cmd)))
  BY <1>2, <1>6
<1>8. /\ t.cmd = cmd /\ t.left = NameLen(cmd)
      /\ t.at = IF cmd \in {"GET", "PUT"} THEN "name" ELSE "drain"
  BY <1>1, <1>5, <1>7, DispatchIs
<1>9. CASE cmd \in {"LIST", "QUIT"}
  <2>1. Len(S) + 1 = got + 1 + HdrLen
    BY <1>3, <1>9 DEF CommandAt, cmd
  <2>2. upto = Len(S)
    BY <1>1, <1>4, <2>1
  <2>3. AsksPlain(t, S, upto, op)
    BY <1>8, <1>9, <2>2 DEF AsksPlain, NameLen, cmd
  <2>. QED
    BY <2>3 DEF AsksOn, Asks, t, upto
<1>10. CASE cmd \in {"GET", "PUT"}
  <2>1. NameAt(S, got + 1 + HdrLen, op)
    BY <1>3, <1>10 DEF CommandAt, cmd
  <2>2. got + 1 + HdrLen = upto + 1
    BY <1>1, <1>4
  <2>3. AsksName(t, S, upto, op)
    BY <1>8, <1>10, <2>1, <2>2 DEF AsksName, NameLen, cmd
  <2>. QED
    BY <2>3 DEF AsksOn, Asks, t, upto
<1>. QED
  BY <1>5, <1>9, <1>10

(* What the session s asks on, once a call has read n units more.          *)
LEMMA DrainAsks ==
    ASSUME Faultless, NEW p, NEW S, NEW op, Waits(p, S, op), Drain(p)
    PROVE  AsksOn(p, S, op)
<1> DEFINE got == rcvd[p]
           upto == rcvd'[p]
           s == ses[p]
           t == ses'[p]
<1>1. /\ S \in Seq(Unit) /\ Len(S) \in Nat /\ got \in Nat
      /\ s \in Session /\ LocalsFit(s) /\ TypeInv /\ ClientsTyped /\ p \in Peers
      /\ S = Means(p) /\ \A n : ~RecvFails(p, n)
  BY WaitsFacts DEF Waits
<1>2. s.at = "drain" /\ DrainPayload(p, s.left)
  BY DEF Drain, At
<1>3. AsksPlain(s, S, got, op)
  BY <1>2 DEF Waits, Asks, AsksHeader, AsksPlain, AsksName, AsksSecond, AsksData, AnswersNext, AtRest
<1>4. upto = Len(S)
  <2>1. RecvAll(p, 0)
    BY <1>1, <1>2, <1>3 DEF DrainPayload, AsksPlain
  <2>2. upto = got + 0
    BY <1>1, <2>1, NextArrives
  <2>. QED
    BY <1>1, <1>3, <2>2 DEF AsksPlain
<1>5. \/ s.cmd = "LIST" /\ \E l \in Listings : t = Succeed(s, "LIST", Listed(l), "header")
      \/ s.cmd = "QUIT" /\ t = Succeed(s, "QUIT", <<>>, "close")
  BY <1>1, <1>3, GotoIs DEF Drain, Faultless, AsksPlain, AfterQuit
<1> HIDE DEF got, upto, s, t
<1>6. s.buf = <<>>
  BY <1>1, <1>2 DEF LocalsFit
<1>7. \/ \E body \in Seq(Byte) : Replying(t, "LIST", 0, Len(body), body, "header") /\ op.cmd = "LIST"
      \/ Replying(t, "QUIT", 0, 0, <<>>, "close") /\ op.cmd = "QUIT"
  <2>1. CASE s.cmd = "LIST" /\ \E l \in Listings : t = Succeed(s, "LIST", Listed(l), "header")
    <3>1. PICK l \in Listings : t = Succeed(s, "LIST", Listed(l), "header")
      BY <2>1
    <3>2. PICK body \in Seq(Byte) : t = Succeed(s, "LIST", body, "header")
      BY <3>1, ListedType
    <3>3. Replying(t, "LIST", 0, Len(body), body, "header")
      BY <1>1, <1>6, <3>2, SucceedFits DEF Cmds
    <3>. QED
      BY <1>3, <2>1, <3>3 DEF AsksPlain
  <2>2. CASE s.cmd = "QUIT" /\ t = Succeed(s, "QUIT", <<>>, "close")
    <3>1. <<>> \in Seq(Byte) /\ Len(<<>>) = 0
      OBVIOUS
    <3>2. Replying(t, "QUIT", 0, Len(<<>>), <<>>, "close")
      BY <1>1, <1>6, <2>2, <3>1, SucceedFits DEF Cmds
    <3>. QED
      BY <1>3, <2>2, <3>1, <3>2 DEF AsksPlain
  <2>. QED
    BY <1>5, <2>1, <2>2
<1>8. AnswersNext(t, S, upto, op)
  <2>1. ASSUME NEW body \in Seq(Byte), Replying(t, "LIST", 0, Len(body), body, "header"),
               op.cmd = "LIST"
        PROVE  AnswersNext(t, S, upto, op)
    BY <1>4, <2>1 DEF AnswersNext, Replying, Suits, Fits
  <2>2. CASE Replying(t, "QUIT", 0, 0, <<>>, "close") /\ op.cmd = "QUIT"
    BY <1>4, <2>2 DEF AnswersNext, Replying, Suits, Fits, Last
  <2>. QED
    BY <1>7, <2>1, <2>2
<1>. QED
  BY <1>8 DEF AsksOn, Asks, t, upto

LEMMA RecvNameAsks ==
    ASSUME Faultless, NEW p, NEW S, NEW op, Waits(p, S, op), RecvName(p)
    PROVE  AsksOn(p, S, op)
<1> DEFINE got == rcvd[p]
           upto == rcvd'[p]
           units == Incoming(p, 1)
           s == ses[p]
           t == ses'[p]
<1>1. /\ S \in Seq(Unit) /\ Len(S) \in Nat /\ got \in Nat
      /\ s \in Session /\ LocalsFit(s) /\ TypeInv /\ ClientsTyped /\ p \in Peers
      /\ S = Means(p) /\ \A n : ~RecvFails(p, n)
  BY WaitsFacts DEF Waits
<1>2. s.at = "name"
  BY DEF RecvName, At
<1>3. AsksName(s, S, got, op)
  BY <1>2 DEF Waits, Asks, AsksHeader, AsksPlain, AsksName, AsksSecond, AsksData, AnswersNext, AtRest
<1>4. /\ s.left = 1 /\ s.cmd = op.cmd
      /\ RecvAll(p, 1)
      /\ \/ s.cmd = "GET" /\ t = Get(s, units)
         \/ s.cmd = "PUT" /\ t = Put(s, units)
  BY <1>1, <1>3, GotoIs DEF RecvName, Faultless, AsksName
<1>5. /\ upto = got + 1 /\ units \in Seq(Unit) /\ Len(units) = 1
      /\ RunAt(units, S, got + 1)
  <2>1. PICK n \in Nat : n = 1
    OBVIOUS
  <2>2. RecvAll(p, n) /\ units = Incoming(p, n)
    BY <1>4, <2>1
  <2>3. /\ upto = got + n /\ units \in Seq(Unit) /\ Len(units) = n
        /\ RunAt(units, S, got + 1)
    BY <1>1, <2>2, NextArrives
  <2>. QED
    BY <2>1, <2>3
<1>6. op.cmd = "PUT" => op.name \in SafeNames
  BY DEF Waits
<1>7. s.buf = <<>>
  BY <1>1, <1>2 DEF LocalsFit
<1>8. s.cmd = "GET" =>
        \/ Named(units) /\ \E n : Replying(t, "GET", 0, n, <<>>, "get_read")
        \/ Replying(t, "GET", 1, 0, <<>>, "header")
  BY <1>1, <1>4, <1>5, <1>7, GetFits
<1>9. s.cmd = "PUT" =>
        \/ Named(units) /\ t.at = "put_header" /\ t.name = NameOf(units)
        \/ ~Named(units)
  BY <1>1, <1>4, <1>5, <1>7, PutFits
<1> HIDE DEF got, upto, units, s, t
<1>10. NameOf(units) = op.name /\ units # <<>>
  <2>1. units[1] = S[got + 1]
    <3>1. 1 \in 1 .. Len(units) /\ got + 1 + 1 - 1 = got + 1
      BY <1>1, <1>5
    <3>. QED
      BY <1>5, <3>1 DEF RunAt
  <2>2. S[got + 1].byte = op.name
    BY <1>3 DEF AsksName, NameAt
  <2>3. units # <<>>
    <3>1. Len(units) # 0
      BY <1>5
    <3>. QED
      BY <3>1, EmptySeq
  <2>. QED
    BY <1>5, <2>1, <2>2, <2>3 DEF NameOf
<1>11. CASE s.cmd = "GET"
  <2>1. upto = Len(S)
    BY <1>1, <1>3, <1>4, <1>5, <1>11 DEF AsksName, NameAt
  <2>2. ASSUME NEW n, Named(units), Replying(t, "GET", 0, n, <<>>, "get_read")
        PROVE  AnswersNext(t, S, upto, op)
    <3>1. op.name \in SafeNames
      BY <1>10, <2>2 DEF Named
    <3>. QED
      BY <1>4, <1>11, <2>1, <2>2, <3>1 DEF AnswersNext, Replying, Suits, Fits
  <2>3. ASSUME Replying(t, "GET", 1, 0, <<>>, "header")
        PROVE  AnswersNext(t, S, upto, op)
    <3>1. /\ t.at = "reply" /\ t.next = "header" /\ t.out_sent = 0
          /\ t.out[1].status = 1 /\ t.out[1].length = 0
      BY <2>3 DEF Replying
    <3>2. Suits(t.out[1], op)
      BY <3>1 DEF Suits, Fits
    <3>. QED
      BY <2>1, <3>1, <3>2 DEF AnswersNext
  <2>4. AnswersNext(t, S, upto, op)
    BY <1>8, <1>11, <2>2, <2>3
  <2>. QED
    BY <2>4 DEF AsksOn, Asks, t, upto
<1>12. CASE s.cmd = "PUT"
  <2>1. Named(units)
    BY <1>4, <1>6, <1>10, <1>12 DEF Named
  <2>2. t.at = "put_header"
    BY <1>9, <1>12, <2>1
  <2>3. DataAt(S, got + 1 + 1)
    BY <1>3, <1>4, <1>12 DEF AsksName, NameAt
  <2>4. AsksSecond(t, S, upto, op)
    BY <1>4, <1>5, <1>12, <2>2, <2>3 DEF AsksSecond
  <2>. QED
    BY <2>4 DEF AsksOn, Asks, t, upto
<1>. QED
  BY <1>4, <1>11, <1>12

LEMMA RecvPutHeaderAsks ==
    ASSUME Faultless, NEW p, NEW S, NEW op, Waits(p, S, op), RecvPutHeader(p)
    PROVE  AsksOn(p, S, op)
<1> DEFINE got == rcvd[p]
           upto == rcvd'[p]
           units == Incoming(p, HdrLen)
           s == ses[p]
           t == ses'[p]
           h == units[1].head
<1>1. /\ S \in Seq(Unit) /\ Len(S) \in Nat /\ got \in Nat /\ HdrLen \in Nat
      /\ s \in Session /\ LocalsFit(s) /\ TypeInv /\ ClientsTyped /\ p \in Peers
      /\ S = Means(p) /\ \A n : ~RecvFails(p, n)
  BY WaitsFacts DEF Waits
<1>2. s.at = "put_header" /\ RecvAll(p, HdrLen)
  BY <1>1 DEF RecvPutHeader, At
<1>3. AsksSecond(s, S, got, op)
  BY <1>2 DEF Waits, Asks, AsksHeader, AsksPlain, AsksName, AsksSecond, AsksData, AnswersNext, AtRest
<1>4. /\ upto = got + HdrLen /\ upto <= Len(S) /\ units \in Seq(Unit) /\ Len(units) = HdrLen
      /\ RunAt(units, S, got + 1)
  BY <1>1, <1>2, NextArrives
<1> DEFINE n == Len(S) + 1 - (got + 1 + HdrLen)
<1>5. HeaderIs(S, got + 1, "PUT", n)
  BY <1>3 DEF AsksSecond, DataAt
<1> HIDE DEF n
<1>6. IsHeader(units) /\ h = Plain("PUT", n)
  <2>1. got + 1 \in Nat
    BY <1>1
  <2> HIDE DEF got, units
  <2>. QED
    BY <1>4, <1>5, <2>1, HeaderArrived
<1>7. h.cmd = "PUT" /\ h.length = n
  BY <1>6 DEF Plain
<1>8. n \in Nat /\ upto + n = Len(S)
  <2>1. /\ upto = got + HdrLen /\ upto <= Len(S) /\ got \in Nat /\ HdrLen \in Nat
        /\ Len(S) \in Nat /\ n = Len(S) + 1 - (got + 1 + HdrLen)
    BY <1>1, <1>4 DEF n
  <2> HIDE DEF upto, got
  <2>. QED
    BY <2>1
<1>9. \/ t = Taking(s, "put_data", n, 0)
      \/ t = [s EXCEPT !.at = "put_drain", !.left = n]
  BY <1>1, <1>6, <1>7, GotoIs DEF RecvPutHeader, Taking
<1> HIDE DEF got, upto, units, s, t
<1>10. t.at \in {"put_data", "put_drain"} /\ t.left = n
  <2>1. CASE t = Taking(s, "put_data", n, 0)
    BY <1>1, <2>1 DEF Taking, Session
  <2>2. CASE t = [s EXCEPT !.at = "put_drain", !.left = n]
    BY <1>1, <2>2 DEF Session
  <2>. QED
    BY <1>9, <2>1, <2>2
<1>11. AsksData(t, S, upto, op)
  BY <1>3, <1>8, <1>10 DEF AsksData, AsksSecond
<1>. QED
  BY <1>11 DEF AsksOn, Asks, t, upto

LEMMA RecvPutDataAsks ==
    ASSUME Faultless, NEW p, NEW S, NEW op, Waits(p, S, op), RecvPutData(p)
    PROVE  AsksOn(p, S, op)
<1> DEFINE got == rcvd[p]
           upto == rcvd'[p]
           s == ses[p]
           t == ses'[p]
<1>1. /\ S \in Seq(Unit) /\ Len(S) \in Nat /\ got \in Nat
      /\ s \in Session /\ LocalsFit(s) /\ TypeInv /\ ClientsTyped /\ p \in Peers
      /\ S = Means(p) /\ \A n : ~RecvFails(p, n)
  BY WaitsFacts DEF Waits
<1>2. s.at = "put_data"
  BY DEF RecvPutData, At
<1>3. AsksData(s, S, got, op)
  BY <1>2 DEF Waits, Asks, AsksHeader, AsksPlain, AsksName, AsksSecond, AsksData, AnswersNext, AtRest
<1>4. \/ s.left = 0 /\ t = Succeed(s, "PUT", <<>>, "header") /\ upto = got
      \/ s.left > 0 /\ RecvAll(p, 1) /\ t = BlockWritten(s)
  BY <1>1, GotoIs DEF RecvPutData, Faultless, wireVars
<1>5. RecvAll(p, 1) => upto = got + 1
  BY <1>1, NextArrives
<1>6. s.buf = <<>> /\ s.left \in Nat
  BY <1>1, <1>2 DEF LocalsFit, Session
<1> HIDE DEF got, upto, s, t
<1>7. CASE s.left = 0 /\ t = Succeed(s, "PUT", <<>>, "header") /\ upto = got
  <2>1. <<>> \in Seq(Byte) /\ Len(<<>>) = 0
    OBVIOUS
  <2>2. Replying(t, "PUT", 0, 0, <<>>, "header")
    BY <1>1, <1>6, <1>7, <2>1, SucceedFits DEF Cmds
  <2>3. upto = Len(S)
    BY <1>1, <1>3, <1>7 DEF AsksData
  <2>4. AnswersNext(t, S, upto, op)
    BY <1>3, <2>2, <2>3 DEF AnswersNext, AsksData, Replying, Suits, Fits
  <2>. QED
    BY <2>4 DEF AsksOn, Asks, t, upto
<1>8. CASE s.left > 0 /\ RecvAll(p, 1) /\ t = BlockWritten(s)
  <2>1. t.at = "put_data" /\ t.left = s.left - 1
    BY <1>1, <1>2, <1>8 DEF BlockWritten, Session
  <2>2. upto + t.left = Len(S)
    BY <1>1, <1>3, <1>5, <1>6, <1>8, <2>1 DEF AsksData
  <2>3. AsksData(t, S, upto, op)
    BY <1>3, <2>1, <2>2 DEF AsksData
  <2>. QED
    BY <2>3 DEF AsksOn, Asks, t, upto
<1>. QED
  BY <1>4, <1>7, <1>8

LEMMA DrainPutAsks ==
    ASSUME Faultless, NEW p, NEW S, NEW op, Waits(p, S, op), DrainPut(p)
    PROVE  AsksOn(p, S, op)
<1> DEFINE got == rcvd[p]
           upto == rcvd'[p]
           s == ses[p]
           t == ses'[p]
<1>1. /\ S \in Seq(Unit) /\ Len(S) \in Nat /\ got \in Nat
      /\ s \in Session /\ LocalsFit(s) /\ TypeInv /\ ClientsTyped /\ p \in Peers
      /\ S = Means(p) /\ \A n : ~RecvFails(p, n)
  BY WaitsFacts DEF Waits
<1>2. s.at = "put_drain" /\ RecvAll(p, s.left) /\ t = Fail(s, "PUT", "close")
  BY <1>1, GotoIs DEF DrainPut, At
<1>3. AsksData(s, S, got, op)
  BY <1>2 DEF Waits, Asks, AsksHeader, AsksPlain, AsksName, AsksSecond, AsksData, AnswersNext, AtRest
<1>4. s.buf = <<>> /\ s.left \in Nat
  BY <1>1, <1>2 DEF LocalsFit, Session
<1>5. upto = Len(S)
  <2>1. upto = got + s.left
    BY <1>1, <1>2, <1>4, NextArrives
  <2>. QED
    BY <1>3, <2>1 DEF AsksData
<1> HIDE DEF got, upto, s, t
<1>6. Replying(t, "PUT", 1, 0, <<>>, "close")
  BY <1>1, <1>2, <1>4, FailFits DEF Cmds
<1>7. AnswersNext(t, S, upto, op)
  BY <1>3, <1>5, <1>6 DEF AnswersNext, AsksData, Replying, Suits, Fits, Last
<1>. QED
  BY <1>7 DEF AsksOn, Asks, t, upto

(* A call that waits for a request waits until there is one.               *)
Reads(p) ==
    \/ RecvHeader(p) \/ Drain(p) \/ RecvName(p)
    \/ RecvPutHeader(p) \/ RecvPutData(p) \/ DrainPut(p)

LEMMA ReadsAsks ==
    ASSUME Faultless, NEW p, NEW S, NEW op, Waits(p, S, op), Reads(p)
    PROVE  AsksOn(p, S, op)
BY RecvHeaderAsks, DrainAsks, RecvNameAsks, RecvPutHeaderAsks, RecvPutDataAsks,
   DrainPutAsks DEF Reads

LEMMA ReadsSomething ==
    ASSUME TypeInv, ClientsTyped, NEW p \in Peers, sock[p] = "open", Reads(p)
    PROVE  /\ ses[p].at \in {"header", "drain", "name", "put_header", "put_data", "put_drain"}
           /\ ses[p].at = "header" => rcvd[p] # Len(Means(p))
           /\ rx' = rx /\ unread' = unread
<1>1. ses[p].at \in {"header", "drain", "name", "put_header", "put_data", "put_drain"}
  BY DEF Reads, RecvHeader, Drain, RecvName, RecvPutHeader, RecvPutData, DrainPut, At
<1>2. rx' = rx /\ unread' = unread
  BY DEF Reads, RecvHeader, Drain, RecvName, RecvPutHeader, RecvPutData, DrainPut,
         DrainPayload, RecvAll, RecvFails, wireVars
<1>3. ASSUME ses[p].at = "header"
      PROVE  rcvd[p] # Len(Means(p))
  <2>1. RecvHeader(p)
    BY <1>3 DEF Reads, Drain, RecvName, RecvPutHeader, RecvPutData, DrainPut, At
  <2>2. ~RecvFails(p, HdrLen)
    BY DEF RecvFails, NoMoreComes, Ended, Broken
  <2>3. RecvAll(p, HdrLen)
    BY <2>1, <2>2 DEF RecvHeader
  <2> DEFINE got == rcvd[p]
             m == Len(Means(p))
  <2>4. got + HdrLen <= m /\ got \in Nat /\ HdrLen \in Nat \ {0} /\ m \in Nat
    BY <2>3, NextArrives, WireFacts, MeansIs DEF TypeInv, TypeOK
  <2> HIDE DEF got, m
  <2>5. got # m
    BY <2>4
  <2>. QED
    BY <2>5 DEF got, m
<1>. QED
  BY <1>1, <1>2, <1>3

LEMMA ReadsLock ==
    ASSUME Faultless, TypeInv, ClientsTyped, NEW p \in Peers, sock[p] = "open", Reads(p),
           NEW c, SafeOp(c),
           Locked(c, rx[p], unread[p], ses[p], Means(p), rcvd[p])
    PROVE  Locked(c, rx[p], unread[p], ses'[p], Means(p), rcvd'[p])
<1> DEFINE S == Means(p)
           s == ses[p]
           got == rcvd[p]
           log == rx[p]
           un == unread[p]
<1>1. /\ s.at \in {"header", "drain", "name", "put_header", "put_data", "put_drain"}
      /\ s.at = "header" => got # Len(S)
  BY ReadsSomething
<1>2. Locked(c, log, un, s, S, got)
  OBVIOUS
<1>3. ASSUME c.at \in {"send", "recv"}, Asks(s, log, S, got, c.op)
      PROVE  Asks(ses'[p], log, S, rcvd'[p], c.op)
  <2>1. c.op.cmd = "PUT" => c.op.name \in SafeNames
    BY <1>3 DEF SafeOp
  <2>2. Waits(p, S, c.op)
    BY <1>3, <2>1 DEF Waits
  <2>3. AsksOn(p, S, c.op)
    BY <2>2, ReadsAsks
  <2>. QED
    BY <2>3 DEF AsksOn
<1> HIDE DEF S, s, got, log, un
<1>4. ~Rests(s, log, S, got) /\ ~Answered(s, log, S, got) /\ ~Refuses(s, log)
  BY <1>1 DEF Rests, AtRest, Refuses, Answered
<1>5. Locked(c, log, un, ses'[p], S, rcvd'[p])
  BY <1>1, <1>2, <1>3, <1>4 DEF Locked
<1>. QED
  BY <1>5 DEF S, log, un

-----------------------------------------------------------------------------
(* The calls that send.                                                    *)

(* A reply that was sent in part or whole, and the session after it.       *)
SentUpto(s, upto, d) ==
    \/ /\ upto < Len(s.out[1].body) + 1
       /\ d.at = "reply" /\ d.out = s.out /\ d.next = s.next /\ d.out_sent = upto
    \/ upto = Len(s.out[1].body) + 1 /\ d.at = s.next

(* Where a session is when a part of an answer was sent.                   *)
Answers(s, r, upto, d, new, op) ==
    /\ s \in Session /\ LocalsFit(s) /\ s.at = "reply" /\ r \in Reply /\ r = s.out[1]
    /\ upto \in Nat /\ upto > 0 /\ upto <= Len(r.body) + 1 /\ SentUpto(s, upto, d)
    /\ Suits(r, op)
    /\ s.next = "close" => Last(r, op)
    /\ r.cmd = "PUT" /\ r.status = 1 => PutRefused(new)

LEMMA SentAnswers ==
    ASSUME NEW s, NEW r, NEW upto, NEW d, NEW new, NEW op, Answers(s, r, upto, d, new, op),
           NEW S, NEW got, got = Len(S)
    PROVE  Answered(d, new, S, got) \/ (d.at = "close" /\ op.cmd = "QUIT")
<1> DEFINE m == Len(r.body)
<1>0. /\ s \in Session /\ LocalsFit(s) /\ s.at = "reply" /\ r \in Reply /\ r = s.out[1]
      /\ upto \in Nat /\ upto > 0 /\ upto <= Len(r.body) + 1 /\ SentUpto(s, upto, d)
      /\ Suits(r, op)
      /\ s.next = "close" => Last(r, op)
      /\ r.cmd = "PUT" /\ r.status = 1 => PutRefused(new)
  BY DEF Answers
<1>1. /\ s.next \in {"header", "close", "get_read"} /\ m \in Nat
      /\ s.next = "get_read" => m = 0
      /\ s.next = "close" => m = r.length
  <2>1. s.next = "get_read" => r.body = <<>>
    BY <1>0 DEF LocalsFit
  <2>. QED
    BY <1>0, <2>1, LenProperties DEF LocalsFit, Reply, Complete
<1>2. s.next = "close" => r.length = 0
  BY <1>0 DEF Suits, Fits, Last
<1>3. \/ upto < m + 1 /\ d.at = "reply" /\ d.next = s.next /\ d.out_sent = upto
      \/ upto = m + 1 /\ d.at = s.next
  BY <1>0 DEF SentUpto
<1> HIDE DEF m
<1>4. CASE upto < m + 1 /\ d.at = "reply" /\ d.next = s.next /\ d.out_sent = upto
  <2>1. m # 0
    BY <1>0, <1>1, <1>4
  <2>2. s.next = "header"
    BY <1>1, <1>2, <2>1
  <2>. QED
    BY <1>0, <1>4, <2>2 DEF Answered
<1>5. CASE upto = m + 1 /\ d.at = s.next
  BY <1>0, <1>1, <1>5 DEF Answered, Last, Refuses
<1>. QED
  BY <1>3, <1>4, <1>5

LEMMA RefusalBegun ==
    ASSUME NEW new \in Seq(Reply), NEW r, NEW upto, BegunWith(new, r, upto),
           r.cmd = "PUT", r.status = 1
    PROVE  PutRefused(new)
<1>1. Len(new) \in DOMAIN new
  BY EmptySeq, LenProperties DEF BegunWith
<1>2. new[Len(new)].cmd = "PUT" /\ new[Len(new)].status = 1
  BY DEF BegunWith, LastOf
<1>. QED
  BY <1>1, <1>2 DEF PutRefused

(* What a client has in hand of a reply that is carried on.                *)
LEMMA HandGrows ==
    ASSUME NEW log \in Seq(Reply), NEW new, NEW n, Carried(log, new, n), NEW un \in Nat,
           NEW more, more = un + n
    PROVE  /\ \A op : Hand(op, log, un) => Hand(op, new, more)
           /\ \A left \in Nat : InBody(left, log, un) => InBody(left, new, more)
<1>1. /\ \A op : InHand(op, log, un) => InHand(op, new, more)
      /\ \A left \in Nat : InBody(left, log, un) => InBody(left, new, more)
  BY HandCarried
<1>2. \A op : Suits(LastOf(log), op) => Suits(LastOf(new), op)
  BY DEF Carried, Suits, Fits
<1>. QED
  BY <1>1, <1>2 DEF Hand

LEMMA ReplyLocks ==
    ASSUME NEW s \in Session, LocalsFit(s), s.at = "reply", NEW r \in Reply, r = s.out[1],
           NEW log \in Seq(Reply), NEW dir, SentFits(s, log, dir), NEW upto \in Nat,
           s.out_sent < upto, upto <= Len(r.body) + 1,
           NEW new, new = Extend(log, r, s.out_sent, upto),
           NEW un \in Nat, NEW more, more = un + (upto - s.out_sent),
           NEW d, SentUpto(s, upto, d),
           NEW S, NEW got, NEW c \in Process, c.at = "send" => got # Len(S),
           Held(c, log, un), Locked(c, log, un, s, S, got)
    PROVE  Held(c, new, more) /\ Locked(c, new, more, d, S, got)
<1> DEFINE from == s.out_sent
           n == upto - from
<1>1. /\ from \in Nat /\ Len(r.body) \in Nat
      /\ from > 0 => log # <<>>
  BY LenProperties DEF Session, SentFits, Reply
<1>2. from < upto /\ upto <= Len(r.body) + 1 /\ new = Extend(log, r, from, upto)
  OBVIOUS
<1> HIDE DEF from
<1>3. n \in Nat /\ upto > 0 /\ n > 0
  BY <1>1, <1>2
<1>4. /\ new \in Seq(Reply)
      /\ from = 0 => BegunWith(new, r, upto)
      /\ from > 0 => Carried(log, new, n)
  BY <1>1, <1>2, PartJoins
<1> HIDE DEF n
<1>5. more = un + n /\ more # 0
  <2>1. more = un + n
    BY DEF n, from
  <2>. QED
    BY <1>3, <2>1
<1>6. ASSUME from > 0
      PROVE  /\ \A op : Hand(op, log, un) => Hand(op, new, more)
             /\ \A left \in Nat : InBody(left, log, un) => InBody(left, new, more)
  <2>1. Carried(log, new, n)
    BY <1>4, <1>6
  <2>. QED
    BY <1>5, <2>1, HandGrows
<1>7. c.at \notin {"prompt", "send"}
  <2>1. c.at # "prompt"
    BY DEF Locked, Rests, AtRest, Refuses
  <2>2. ASSUME c.at = "send"
        PROVE  FALSE
    <3>1. AnswersNext(s, S, got, c.op)
      BY <2>2 DEF Locked, Held, Asks, AsksHeader, AsksPlain, AsksName, AsksSecond, AsksData,
         AtRest, Refuses
    <3>. QED
      BY <2>2, <3>1 DEF AnswersNext
  <2>. QED
    BY <2>1, <2>2
<1>8. ASSUME Answered(s, log, S, got)
      PROVE  from > 0 /\ Answered(d, new, S, got)
  <2>1. got = Len(S) /\ from > 0 /\ s.next = "header"
    BY <1>8 DEF Answered, Refuses, from
  <2>. QED
    BY <1>3, <2>1 DEF SentUpto, Answered
<1>9. ASSUME c.at = "recv", un = 0
      PROVE  /\ Hand(c.op, new, more)
             /\ Answered(d, new, S, got) \/ (d.at = "close" /\ c.op.cmd = "QUIT")
  <2>1. AnswersNext(s, S, got, c.op)
    BY <1>9 DEF Locked, Asks, AsksHeader, AsksPlain, AsksName, AsksSecond, AsksData,
       AtRest, Refuses
  <2>2. from = 0 /\ Suits(r, c.op) /\ got = Len(S) /\ (s.next = "close" => Last(r, c.op))
    BY <2>1 DEF AnswersNext, from
  <2>3. BegunWith(new, r, upto) /\ more = upto
    BY <1>1, <1>4, <1>5, <1>9, <2>2 DEF n
  <2>4. LastOf(new) \in Reply
    BY <1>4, <2>3, LastReply DEF LastOf, BegunWith
  <2>5. InHand(c.op, new, more)
    BY <2>2, <2>3, <2>4, BegunInHand DEF Suits
  <2>6. Suits(LastOf(new), c.op)
    BY <2>2, <2>3 DEF BegunWith, Suits, Fits
  <2>7. r.cmd = "PUT" /\ r.status = 1 => PutRefused(new)
    BY <1>4, <2>3, RefusalBegun
  <2>8. Answered(d, new, S, got) \/ (d.at = "close" /\ c.op.cmd = "QUIT")
    <3>1. Answers(s, r, upto, d, new, c.op)
      BY <1>3, <2>2, <2>7 DEF Answers
    <3>. QED
      BY <2>2, <3>1, SentAnswers
  <2>. QED
    BY <2>5, <2>6, <2>8 DEF Hand
<1>10. ASSUME c.at = "recv", un # 0
       PROVE  Hand(c.op, new, more) /\ Answered(d, new, S, got)
  <2>1. Hand(c.op, log, un) /\ Answered(s, log, S, got)
    BY <1>10 DEF Held, Locked
  <2>. QED
    BY <1>6, <1>8, <2>1
<1>11. ASSUME c.at = "body"
       PROVE  InBody(c.left, new, more) /\ Answered(d, new, S, got)
  <2>1. InBody(c.left, log, un) /\ Answered(s, log, S, got) /\ c.left \in Nat
    BY <1>11 DEF Held, Locked, Process
  <2>. QED
    BY <1>6, <1>8, <2>1
<1>12. Held(c, new, more)
  BY <1>7, <1>9, <1>10, <1>11 DEF Held
<1>13. Locked(c, new, more, d, S, got)
  BY <1>5, <1>7, <1>9, <1>10, <1>11 DEF Locked
<1>. QED
  BY <1>12, <1>13

(* A block of a file is sent.                                              *)
LEMMA BlockLocks ==
    ASSUME NEW s \in Session, s.at = "get_send", NEW log \in Seq(Reply), log # <<>>,
           NEW block \in Seq(Byte), Len(block) = 1,
           NEW new, new = Longer(log, block), NEW un \in Nat, NEW more, more = un + 1,
           NEW d, d.at = "get_read",
           NEW S, NEW got, NEW c \in Process, Held(c, log, un), Locked(c, log, un, s, S, got)
    PROVE  Held(c, new, more) /\ Locked(c, new, more, d, S, got)
<1>1. PICK n : n = 1
  OBVIOUS
<1>2. Carried(log, new, n) /\ more = un + n /\ more # 0
  <2>1. n = Len(block) /\ more = un + n /\ more # 0
    BY <1>1
  <2>. QED
    BY <2>1, CarriedOn
<1>3. /\ \A op : Hand(op, log, un) => Hand(op, new, more)
      /\ \A left \in Nat : InBody(left, log, un) => InBody(left, new, more)
  BY <1>2, HandGrows
<1>4. /\ ~Rests(s, log, S, got) /\ ~Refuses(s, log)
      /\ \A op : ~Asks(s, log, S, got, op)
  BY DEF Rests, AtRest, Refuses, Asks, AsksHeader, AsksPlain, AsksName, AsksSecond,
     AsksData, AnswersNext
<1>5. Answered(s, log, S, got) => Answered(d, new, S, got)
  BY DEF Answered, Refuses
<1>6. c.left \in Nat
  BY DEF Process
<1>7. c.at \notin {"prompt", "send"} /\ (c.at = "recv" => un # 0)
  BY <1>4 DEF Locked, Held
<1>8. c.at \in {"recv", "body"} => Answered(d, new, S, got)
  BY <1>5, <1>7 DEF Locked
<1>9. Held(c, new, more)
  BY <1>3, <1>6, <1>7 DEF Held
<1>. QED
  BY <1>2, <1>7, <1>8, <1>9 DEF Locked

(* The next block is read, or there is none.                               *)
LEMMA ReadLocks ==
    ASSUME NEW s \in Session, s.at = "get_read", NEW log, NEW d, d.at \in {"get_send", "header"},
           d.at = "get_send" => log # <<>> /\ ~Complete(LastOf(log)),
           NEW un, NEW S, NEW got, NEW c, Locked(c, log, un, s, S, got)
    PROVE  Locked(c, log, un, d, S, got)
<1>1. AtRest(s, log) => AtRest(d, log)
  BY DEF AtRest
<1>2. Rests(s, log, S, got) => Rests(d, log, S, got)
  BY <1>1 DEF Rests, Refuses
<1>3. \A op : Asks(s, log, S, got, op) => Asks(d, log, S, got, op)
  BY <1>1 DEF Asks, AsksHeader, AsksPlain, AsksName, AsksSecond, AsksData, AnswersNext
<1>4. Answered(s, log, S, got) => Answered(d, log, S, got)
  BY DEF Answered, Refuses
<1>5. ~Refuses(s, log)
  BY DEF Refuses
<1>. QED
  BY <1>2, <1>3, <1>4, <1>5 DEF Locked

-----------------------------------------------------------------------------
(* A step of a worker leaves its client in step.                           *)
LockedAt(p, c) ==
    /\ SafeOp(c)
    /\ c.at = "send" => rcvd[p] # Len(Means(p))
    /\ Held(c, rx[p], unread[p])
    /\ Locked(c, rx[p], unread[p], ses[p], Means(p), rcvd[p])

LocksOn(p, c) ==
    /\ Held(c, rx'[p], unread'[p])
    /\ Locked(c, rx'[p], unread'[p], ses'[p], Means(p), rcvd'[p])

HandledLocks(p) ==
    /\ Grows(p) /\ \A q \in Peers \ {p} : unread'[q] = unread[q]
    /\ sock[p] = "open" => \A c \in Process : LockedAt(p, c) => LocksOn(p, c)

LEMMA ReadsHandled ==
    ASSUME Faultless, TypeInv, ClientsTyped, NEW p \in Peers, Reads(p)
    PROVE  HandledLocks(p)
<1>1. rx' = rx /\ unread' = unread
  BY DEF Reads, RecvHeader, Drain, RecvName, RecvPutHeader, RecvPutData, DrainPut,
         DrainPayload, RecvAll, RecvFails, wireVars
<1>2. Grows(p)
  BY <1>1, NothingGrows DEF TypeInv, TypeOK
<1>3. ASSUME sock[p] = "open", NEW c \in Process, LockedAt(p, c)
      PROVE  LocksOn(p, c)
  <2>1. Locked(c, rx[p], unread[p], ses'[p], Means(p), rcvd'[p])
    BY <1>3, ReadsLock DEF LockedAt
  <2>. QED
    BY <1>1, <1>3, <2>1 DEF LockedAt, LocksOn
<1>. QED
  BY <1>1, <1>2, <1>3 DEF HandledLocks

LEMMA GetReadHandled ==
    ASSUME Faultless, TypeInv, Replied, NEW p \in Peers, Attached(p), GetRead(p)
    PROVE  HandledLocks(p)
<1> DEFINE s == ses[p]
           t == ses'[p]
           data == files[s.name].data
           log == rx[p]
<1>1. UNCHANGED wireVars /\ s.at = "get_read" /\ s.off \in Nat /\ Len(data) \in Nat
  BY GetReadDoes
<1>2. rx' = rx /\ unread' = unread /\ rcvd' = rcvd
  BY <1>1 DEF wireVars
<1>3. Grows(p)
  BY <1>2, NothingGrows DEF TypeInv, TypeOK
<1>4. s \in Session /\ SentFits(s, log, files)
  BY SessionFacts
<1>5. \/ s.off < Len(data) /\ t.at = "get_send"
      \/ t.at = "header"
  <2>1. \/ s.off < Len(data) /\ t = Holding(s, Block(data, s.off))
        \/ t = [s EXCEPT !.at = "header"]
    BY GotoIs DEF GetRead, Faultless, Holding
  <2> HIDE DEF s, t, data
  <2>2. CASE s.off < Len(data) /\ t = Holding(s, Block(data, s.off))
    BY <1>4, <2>2 DEF Holding, Session
  <2>3. CASE t = [s EXCEPT !.at = "header"]
    BY <1>4, <2>3 DEF Session
  <2>. QED
    BY <2>1, <2>2, <2>3
<1>6. log # <<>> /\ LastOf(log).length = Len(data) /\ s.off = Len(LastOf(log).body) + 0
  BY <1>1, <1>4 DEF SentFits, LastOf
<1>7. s.off < Len(data) => ~Complete(LastOf(log))
  <2> DEFINE m == Len(LastOf(log).body)
             l == Len(data)
  <2>1. s.off = m
    <3>1. m \in Nat
      <4>1. log \in Seq(Reply)
        BY SessionFacts
      <4>. QED
        BY <1>6, <4>1, LastReply DEF LastOf
    <3> HIDE DEF m
    <3>. QED
      BY <1>6, <3>1 DEF m
  <2>. QED
    BY <1>1, <1>6, <2>1 DEF Complete
<1>8. ASSUME NEW c \in Process, LockedAt(p, c)
      PROVE  LocksOn(p, c)
  <2> DEFINE S == Means(p)
             un == unread[p]
             got == rcvd[p]
  <2>1. Locked(c, log, un, s, S, got) /\ Held(c, log, un)
    BY <1>8 DEF LockedAt
  <2>2. /\ s \in Session /\ s.at = "get_read" /\ t.at \in {"get_send", "header"}
        /\ t.at = "get_send" => log # <<>> /\ ~Complete(LastOf(log))
    BY <1>1, <1>4, <1>5, <1>6, <1>7
  <2>3. LocksOn(p, c) <=> Held(c, log, un) /\ Locked(c, log, un, t, S, got)
    BY <1>2 DEF LocksOn
  <2> HIDE DEF S, un, got, s, t, log
  <2>4. Locked(c, log, un, t, S, got)
    BY <2>1, <2>2, ReadLocks
  <2>. QED
    BY <2>1, <2>3, <2>4
<1>. QED
  BY <1>2, <1>3, <1>8 DEF HandledLocks

LEMMA GetSendHandled ==
    ASSUME TypeInv, Replied, NEW p \in Peers, Attached(p), GetSend(p)
    PROVE  HandledLocks(p)
<1> DEFINE s == ses[p]
           t == ses'[p]
           log == rx[p]
           new == rx'[p]
           un == unread[p]
<1>1. CASE SendFails(p)
  <2>1. rx' = rx /\ unread' = unread /\ sock[p] # "open"
    BY <1>1 DEF SendFails
  <2>2. Grows(p)
    BY <2>1, NothingGrows DEF TypeInv, TypeOK
  <2>. QED
    BY <2>1, <2>2 DEF HandledLocks
<1>2. ASSUME ~SendFails(p)
      PROVE  HandledLocks(p)
  <2>1. /\ s \in Session /\ LocalsFit(s) /\ SentFits(s, log, files)
        /\ log \in Seq(Reply) /\ un \in Nat
    BY SessionFacts
  <2>2. /\ s.at = "get_send" /\ s.buf \in Seq(Byte) /\ Len(s.buf) = 1 /\ rcvd' = rcvd
    BY GetSendDoes
  <2>3. rx' = [rx EXCEPT ![p] = Longer(rx[p], s.buf)]
    BY <1>2, BlockSent
  <2>4. unread' = [unread EXCEPT ![p] = @ + 1]
    BY <1>2 DEF GetSend
  <2>5. rx \in [Peers -> Seq(Reply)] /\ unread \in [Peers -> 0 .. SndBuf]
    BY DEF TypeInv, TypeOK, WireTypeOK
  <2>6. new = Longer(log, s.buf)
    BY <2>3, <2>5
  <2>7. unread'[p] = un + 1 /\ \A q \in Peers \ {p} : unread'[q] = unread[q]
    BY <2>4, <2>5
  <2>8. t.at = "get_read"
    <3>1. t = [s EXCEPT !.at = "get_read", !.buf = <<>>]
      BY <1>2, GotoIs DEF GetSend
    <3> HIDE DEF s, t
    <3>. QED
      BY <2>1, <3>1 DEF Session
  <2>9. log # <<>>
    BY <2>1, <2>2 DEF SentFits
  <2>10. Grows(p)
    <3>1. PICK n \in Nat : n = 1
      OBVIOUS
    <3>2. n = Len(s.buf)
      BY <2>2, <3>1
    <3>3. Keeps(log, new) /\ Len(UnitsOf(new)) = Len(UnitsOf(log)) + n
      BY <2>1, <2>2, <2>6, <2>9, <3>2, CarriedOn
    <3>4. unread'[p] = un + n
      BY <2>7, <3>1
    <3>. QED
      BY <3>3, <3>4 DEF Grows
  <2>11. ASSUME NEW c \in Process, LockedAt(p, c)
         PROVE  LocksOn(p, c)
    <3> DEFINE S == Means(p)
               got == rcvd[p]
               block == s.buf
               more == unread'[p]
    <3>1. Locked(c, log, un, s, S, got) /\ Held(c, log, un)
      BY <2>11 DEF LockedAt
    <3>2. /\ s \in Session /\ s.at = "get_send" /\ log \in Seq(Reply) /\ log # <<>>
          /\ block \in Seq(Byte) /\ Len(block) = 1 /\ new = Longer(log, block)
          /\ un \in Nat /\ more = un + 1 /\ t.at = "get_read"
      BY <2>1, <2>2, <2>6, <2>7, <2>8, <2>9
    <3>3. LocksOn(p, c) <=> Held(c, new, more) /\ Locked(c, new, more, t, S, got)
      BY <2>2 DEF LocksOn
    <3> HIDE DEF S, got, block, more, s, t, log, new, un
    <3>4. Held(c, new, more) /\ Locked(c, new, more, t, S, got)
      BY <3>1, <3>2, BlockLocks
    <3>. QED
      BY <3>3, <3>4
  <2>. QED
    BY <2>7, <2>10, <2>11 DEF HandledLocks
<1>. QED
  BY <1>1, <1>2

LEMMA SendReplyHandled ==
    ASSUME TypeInv, Replied, NEW p \in Peers, Attached(p), SendReply(p)
    PROVE  HandledLocks(p)
<1> DEFINE s == ses[p]
           t == ses'[p]
           r == s.out[1]
           log == rx[p]
           new == rx'[p]
           un == unread[p]
<1>1. CASE SendFails(p)
  <2>1. rx' = rx /\ unread' = unread /\ sock[p] # "open"
    <3>1. sock[p] = "rst"
      BY <1>1 DEF SendFails
    <3>. QED
      BY <1>1, <3>1 DEF SendFails
  <2>2. Grows(p)
    BY <2>1, NothingGrows DEF TypeInv, TypeOK
  <2>. QED
    BY <2>1, <2>2 DEF HandledLocks
<1>2. ASSUME ~SendFails(p)
      PROVE  HandledLocks(p)
  <2>1. /\ s \in Session /\ LocalsFit(s) /\ SentFits(s, log, files)
        /\ log \in Seq(Reply) /\ un \in Nat
    BY SessionFacts
  <2>2. s.at = "reply"
    BY DEF SendReply, At
  <2>3. r \in Reply /\ s.out_sent \in Nat
    BY <2>2, ReplyHeld
  <2>4. /\ Upto(p) \in Nat /\ s.out_sent < Upto(p) /\ Upto(p) <= Len(r.body) + 1
        /\ rcvd' = rcvd
        /\ rx' = [rx EXCEPT ![p] = Extend(rx[p], r, s.out_sent, Upto(p))]
        /\ Goto(p, IF Upto(p) < Len(r.body) + 1 THEN PartOf(s, Upto(p)) ELSE Empties(s))
    BY <1>2, PartSent
  <2>5. unread' = [unread EXCEPT ![p] = @ + (Upto(p) - s.out_sent)]
    BY <1>2 DEF SendReply, Upto
  <2>6. rx \in [Peers -> Seq(Reply)] /\ unread \in [Peers -> 0 .. SndBuf]
    BY DEF TypeInv, TypeOK, WireTypeOK
  <2>7. PICK upto \in Nat : upto = Upto(p)
    BY <2>4
  <2>8. s.out_sent < upto /\ upto <= Len(r.body) + 1 /\ new = Extend(log, r, s.out_sent, upto)
    BY <2>4, <2>6, <2>7
  <2>9. /\ unread'[p] = un + (upto - s.out_sent)
        /\ \A q \in Peers \ {p} : unread'[q] = unread[q]
    BY <2>5, <2>6, <2>7
  <2>10. SentUpto(s, upto, t)
    <3>1. t = IF upto < Len(r.body) + 1 THEN PartOf(s, upto) ELSE Empties(s)
      BY <2>4, <2>7, GotoIs
    <3>2. Len(r.body) \in Nat
      BY <2>3 DEF Reply
    <3>3. s.out[1] = r
      OBVIOUS
    <3> HIDE DEF s, t, r
    <3>4. CASE upto < Len(r.body) + 1
      <4>1. t = PartOf(s, upto)
        BY <3>1, <3>4
      <4>. QED
        BY <2>1, <2>2, <3>3, <3>4, <4>1 DEF PartOf, Session, SentUpto
    <3>5. CASE ~(upto < Len(r.body) + 1)
      <4>1. t = Empties(s) /\ upto = Len(r.body) + 1
        BY <2>8, <3>1, <3>2, <3>5
      <4>. QED
        BY <2>1, <3>3, <4>1 DEF Empties, Session, SentUpto
    <3>. QED
      BY <3>4, <3>5
  <2>11. s.out_sent > 0 => log # <<>>
    BY <2>1, <2>2 DEF SentFits
  <2>12. Grows(p)
    <3> DEFINE from == s.out_sent
    <3>1. /\ log \in Seq(Reply) /\ r \in Reply /\ from \in Nat /\ upto \in Nat
          /\ from < upto /\ upto <= Len(r.body) + 1 /\ (from > 0 => log # <<>>)
          /\ new = Extend(log, r, from, upto)
      BY <2>1, <2>3, <2>8, <2>11
    <3>2. /\ unread'[p] = unread[p] + (upto - from)
      BY <2>9
    <3> HIDE DEF from, log, r, new
    <3>3. Keeps(log, new) /\ Len(UnitsOf(new)) = Len(UnitsOf(log)) + (upto - from)
      BY <3>1, PartJoins, ZenonT(40)
    <3>4. upto - from \in Nat
      BY <3>1
    <3>. QED
      BY <3>2, <3>3, <3>4 DEF Grows, log, new
  <2>13. ASSUME sock[p] = "open", NEW c \in Process, LockedAt(p, c)
         PROVE  LocksOn(p, c)
    <3> DEFINE S == Means(p)
               got == rcvd[p]
               more == unread'[p]
    <3>1. /\ c.at = "send" => got # Len(S)
          /\ Locked(c, log, un, s, S, got) /\ Held(c, log, un)
      BY <2>13 DEF LockedAt
    <3>2. /\ s \in Session /\ LocalsFit(s) /\ s.at = "reply" /\ r \in Reply /\ r = s.out[1]
          /\ log \in Seq(Reply) /\ SentFits(s, log, files)
          /\ s.out_sent < upto /\ upto <= Len(r.body) + 1
          /\ new = Extend(log, r, s.out_sent, upto)
          /\ un \in Nat /\ more = un + (upto - s.out_sent) /\ SentUpto(s, upto, t)
      BY <2>1, <2>2, <2>3, <2>8, <2>9, <2>10
    <3>3. LocksOn(p, c) <=> Held(c, new, more) /\ Locked(c, new, more, t, S, got)
      BY <2>4 DEF LocksOn
    <3> HIDE DEF S, got, more, s, t, r, log, new, un
    <3>4. Held(c, new, more) /\ Locked(c, new, more, t, S, got)
      BY <3>1, <3>2, ReplyLocks
    <3>. QED
      BY <3>3, <3>4
  <2>. QED
    BY <2>9, <2>12, <2>13 DEF HandledLocks
<1>. QED
  BY <1>1, <1>2

LEMMA HandlingLocks ==
    ASSUME Faultless, TypeInv, Replied, ClientsTyped, NEW p \in Peers, Handling(p)
    PROVE  HandledLocks(p)
<1>1. Attached(p)
  BY HandlingServes DEF Attached
<1>2. Reads(p) \/ GetRead(p) \/ GetSend(p) \/ SendReply(p)
  BY DEF Handling, Reads
<1>. QED
  BY <1>1, <1>2, ReadsHandled, GetReadHandled, GetSendHandled, SendReplyHandled

LEMMA SentTyped ==
    ASSUME WireTypeOK, ClientsTyped, NEW p \in Peers, HandledLocks(p), UNCHANGED cliVars,
           \A q \in Peers \ {p} : rx'[q] = rx[q]
    PROVE  ClientsTyped'
<1>1. PICK n \in Nat : /\ unread'[p] = unread[p] + n
                       /\ Len(UnitsOf(rx'[p])) = Len(UnitsOf(rx[p])) + n
  BY DEF HandledLocks, Grows
<1>2. ASSUME NEW q \in Peers
      PROVE  unread'[q] <= Len(UnitsOf(rx'[q]))
  <2>1. unread[q] <= Len(UnitsOf(rx[q])) /\ rx[q] \in Seq(Reply) /\ unread[q] \in Nat
    BY WireAssumption DEF ClientsTyped, Sent, WireTypeOK
  <2>2. Len(UnitsOf(rx[q])) \in Nat
    BY <2>1, UnitsType
  <2>3. CASE q # p
    BY <2>1, <2>3 DEF HandledLocks
  <2>4. CASE q = p
    <3> DEFINE a == unread[p]
               b == Len(UnitsOf(rx[p]))
    <3>1. a \in Nat /\ b \in Nat /\ a <= b
      BY <2>1, <2>2, <2>4
    <3> HIDE DEF a, b
    <3>2. a + n <= b + n
      BY <3>1
    <3>. QED
      BY <1>1, <2>4, <3>2 DEF a, b
  <2>. QED
    BY <2>3, <2>4
<1>. QED
  BY <1>2 DEF ClientsTyped, Sent, cliVars

(* A client that is still sending means to send more than was received.    *)
LEMMA SendsMore ==
    ASSUME WireTypeOK, ClientsTyped, NEW p \in Peers, cli[p].at = "send"
    PROVE  rcvd[p] # Len(Means(p))
<1> DEFINE s == stream[p]
           out == cli[p].out
           got == rcvd[p]
<1>1. /\ s \in Seq(Unit) /\ out \in Seq(Unit) /\ out # <<>>
      /\ got \in Nat /\ sent[p] \in Nat /\ got <= sent[p] /\ sent[p] <= Len(s)
  BY ClientFacts DEF Between, WireTypeOK
<1>2. Means(p) = Then(s, out)
  BY DEF Means, Then
<1> HIDE DEF s, out, got
<1>3. Len(Means(p)) = Len(s) + Len(out)
  BY <1>1, <1>2, ThenIs
<1>4. Len(out) > 0 /\ Len(out) \in Nat /\ Len(s) \in Nat
  BY <1>1, EmptySeq, LenProperties
<1>5. got # Len(Means(p))
  BY <1>1, <1>3, <1>4
<1>. QED
  BY <1>5 DEF got

(* Who is served has a connection.                                         *)
LEMMA ServedBegan ==
    ASSUME TypeInv, NEW p \in Peers, p \in serving, InStepFor(p)
    PROVE  ~ClientAt(p, "connect")
BY DEF InStepFor, Fresh, TypeInv, Placed

LEMMA HandlingKeeps ==
    ASSUME Faultless, TogetherInv, TypeInv', Replied', NEW p \in Peers, Handling(p),
           UNCHANGED cliVars
    PROVE  TogetherInv'
<1>1. TypeInv /\ Replied /\ ClientsTyped /\ WireTypeOK
  BY DEF TogetherInv, TypeInv, TypeOK
<1>2. Serves(p) /\ p \in serving
  BY <1>1, HandlingServes
<1>3. /\ stream' = stream /\ backlog' = backlog /\ queue' = queue /\ serving' = serving
      /\ running' = running /\ cli' = cli /\ todo' = todo /\ local' = local
      /\ sock' = sock \/ (sock[p] = "rst" /\ sock' = [sock EXCEPT ![p] = "pipe"])
      /\ \A q \in Peers \ {p} : rcvd'[q] = rcvd[q] /\ rx'[q] = rx[q] /\ ses'[q] = ses[q]
  BY <1>2 DEF Serves, WireStep, cliVars
<1>4. HandledLocks(p)
  BY <1>1, HandlingLocks
<1>5. ClientsTyped'
  BY <1>1, <1>3, <1>4, SentTyped
<1>6. \A q : Attached(q)' <=> Attached(q)
  BY <1>3 DEF Attached
<1>7. ASSUME NEW q \in Peers \ Fragile, q # p
      PROVE  InStepFor(q)'
  <2>1. sock'[q] = sock[q]
    BY <1>1, <1>3, <1>7 DEF WireTypeOK
  <2>2. unread'[q] = unread[q]
    BY <1>4, <1>7 DEF HandledLocks
  <2>3. SameFor(q)
    BY <1>3, <1>6, <1>7, <2>1, <2>2 DEF SameFor
  <2>. QED
    BY <1>7, <2>3, SameInStep DEF TogetherInv
<1>8. ASSUME p \notin Fragile
      PROVE  InStepFor(p)'
  <2>1. InStepFor(p) /\ ~ClientAt(p, "connect") /\ Attached(p)
    BY <1>1, <1>2, <1>8, ServedBegan DEF TogetherInv, Attached
  <2>2. SafeLines(todo[p], local[p])' /\ SafeOp(cli[p])' /\ ~ClientAt(p, "connect")'
    BY <1>3, <2>1 DEF InStepFor, ClientAt, SafeLines, SafeUpload, SafeOp
  <2>3. Means(p)' = Means(p)
    BY <1>3 DEF Means
  <2>4. CASE cli[p].at = "closed"
    BY <1>3, <2>2, <2>4 DEF InStepFor, Held, Locked
  <2>5. CASE cli[p].at # "closed"
    <3>1. sock[p] = "open" /\ sock' = sock
      BY <1>3, <2>1, <2>5 DEF InStepFor, ClientAt
    <3>2. LockedAt(p, cli[p]) /\ cli[p] \in Process
      BY <1>1, <2>1, SendsMore, ClientFacts DEF LockedAt, InStepFor
    <3>3. LocksOn(p, cli[p])
      BY <1>4, <3>1, <3>2 DEF HandledLocks
    <3>. QED
      BY <1>3, <1>6, <2>1, <2>2, <2>3, <3>1, <3>3 DEF InStepFor, LocksOn
  <2>. QED
    BY <2>4, <2>5
<1>. QED
  BY <1>5, <1>7, <1>8 DEF TogetherInv

(* A connection is closed by the worker that serves it.                    *)
LEMMA CloseKeeps ==
    ASSUME TogetherInv, TypeInv', Replied', NEW p \in Peers, Close(p), UNCHANGED cliVars
    PROVE  TogetherInv'
<1>1. TypeInv /\ Replied /\ ClientsTyped /\ p \in serving /\ ses[p].at = "close"
  BY DEF TogetherInv, Close, Pool!Finish
<1>2. /\ UNCHANGED wireVars /\ serving' = serving \ {p} /\ queue' = queue /\ running' = running
      /\ \A q \in Peers \ {p} : ses'[q] = ses[q]
  BY <1>1, CloseStep DEF Close, Pool!Finish
<1>3. /\ stream' = stream /\ backlog' = backlog /\ rcvd' = rcvd /\ rx' = rx /\ unread' = unread
      /\ sock' = sock /\ cli' = cli /\ todo' = todo /\ local' = local
  BY <1>2 DEF wireVars, cliVars
<1>4. ClientsTyped'
  BY <1>1, <1>3 DEF ClientsTyped, Sent
<1>5. ASSUME NEW q \in Peers \ Fragile, q # p
      PROVE  InStepFor(q)'
  <2>1. SameFor(q)
    BY <1>2, <1>3, <1>5 DEF SameFor, Attached
  <2>. QED
    BY <1>5, <2>1, SameInStep DEF TogetherInv
<1>6. ASSUME p \notin Fragile
      PROVE  InStepFor(p)'
  <2>1. InStepFor(p) /\ ~ClientAt(p, "connect")
    BY <1>1, <1>6, ServedBegan DEF TogetherInv
  <2>2. ~Attached(p)'
    BY <1>1, <1>2, <1>3 DEF Attached, TypeInv, Placed
  <2>3. Locked(cli[p], rx[p], unread[p], ses[p], Means(p), rcvd[p])
    BY <1>1, <2>1 DEF InStepFor, Attached
  <2>4. cli[p].at \notin {"connect", "closed"} => Lost(p)
    <3>1. cli[p].at \in {"prompt", "send", "recv", "body"} =>
             PutRefused(rx[p]) \/ (cli[p].at \in {"send", "recv"} /\ cli[p].op.cmd = "QUIT")
      <4> DEFINE c == cli[p]
                 log == rx[p]
                 un == unread[p]
                 s == ses[p]
                 S == Means(p)
                 got == rcvd[p]
      <4>1. /\ Locked(c, log, un, s, S, got) /\ s.at = "close"
            /\ un = 0 \/ un > 0
            /\ c.at = "send" => un = 0
        <5>1. un \in Nat
          BY <1>1, SessionFacts
        <5>2. c.at = "send" => un = 0
          BY <2>1 DEF InStepFor, Held
        <5> HIDE DEF un
        <5>3. un = 0 \/ un > 0
          BY <5>1
        <5>. QED
          BY <1>1, <2>3, <5>2, <5>3 DEF un
      <4> HIDE DEF c, log, un, s, S, got
      <4>2. /\ Rests(s, log, S, got) => PutRefused(log)
            /\ Answered(s, log, S, got) => PutRefused(log)
            /\ Refuses(s, log) => PutRefused(log)
            /\ \A op : ~Asks(s, log, S, got, op)
        BY <4>1 DEF Rests, AtRest, Answered, Refuses, Asks, AsksHeader, AsksPlain, AsksName,
           AsksSecond, AsksData, AnswersNext
      <4>3. c.at \in {"prompt", "send", "recv", "body"} =>
               PutRefused(log) \/ (c.at \in {"send", "recv"} /\ c.op.cmd = "QUIT")
        BY <4>1, <4>2 DEF Locked
      <4>. QED
        BY <4>3 DEF c, log
    <3>2. cli[p].at \in {"connect", "prompt", "send", "recv", "body", "closed"}
      BY <1>1 DEF ClientsTyped, Process
    <3>. QED
      BY <3>1, <3>2 DEF Lost, UploadRefused, PutRefused
  <2>5. Lost(p)' <=> Lost(p)
    BY <1>2, <1>3 DEF Lost, UploadRefused
  <2>6. SafeLines(todo[p], local[p])' /\ SafeOp(cli[p])' /\ ~ClientAt(p, "connect")'
    BY <1>3, <2>1 DEF InStepFor, ClientAt, SafeLines, SafeUpload, SafeOp
  <2>7. Held(cli'[p], rx'[p], unread'[p])
    BY <1>3, <2>1 DEF InStepFor
  <2>. QED
    BY <1>3, <2>1, <2>2, <2>4, <2>5, <2>6, <2>7 DEF InStepFor, ClientAt
<1>. QED
  BY <1>4, <1>5, <1>6 DEF TogetherInv

(* The process ends: every connection is closed.                           *)
LEMMA KilledKeeps ==
    ASSUME TogetherInv, TypeInv', Replied', NEW p \in Peers, KilledBySigpipe(p),
           UNCHANGED cliVars
    PROVE  TogetherInv'
<1>1. /\ stream' = stream /\ rcvd' = rcvd /\ rx' = rx /\ unread' = unread
      /\ sock' = sock /\ cli' = cli /\ todo' = todo /\ local' = local
      /\ running' = FALSE /\ backlog' = <<>> /\ queue' = <<>> /\ serving' = {}
  BY DEF KilledBySigpipe, cliVars
<1>2. ClientsTyped'
  BY <1>1 DEF TogetherInv, ClientsTyped, Sent
<1>3. ASSUME NEW q \in Peers \ Fragile
      PROVE  InStepFor(q)'
  <2>1. ~Attached(q)' /\ Lost(q)'
    BY <1>1 DEF Attached, Lost, Elems
  <2>2. /\ ClientAt(q, "connect")' => Fresh(q)'
        /\ cli'[q].at \notin {"connect", "closed"} => sock'[q] = "open"
        /\ Held(cli'[q], rx'[q], unread'[q])
    BY <1>1, <1>3 DEF TogetherInv, InStepFor, ClientAt, Fresh
  <2>3. SafeLines(todo[q], local[q])' /\ SafeOp(cli[q])'
    BY <1>1, <1>3 DEF TogetherInv, InStepFor, SafeLines, SafeUpload, SafeOp
  <2>. QED
    BY <2>1, <2>2, <2>3 DEF InStepFor
<1>. QED
  BY <1>2, <1>3 DEF TogetherInv

(* A step that leaves sessions, connections and clients as they are.       *)
LEMMA QuietKeeps ==
    ASSUME TogetherInv, TypeInv', Replied', UNCHANGED cliVars,
           UNCHANGED <<sock, stream, rcvd, rx, unread, ses, running>>,
           \A q \in Peers : Attached(q)' <=> Attached(q)
    PROVE  TogetherInv'
<1>1. ClientsTyped'
  BY DEF TogetherInv, ClientsTyped, cliVars, Sent
<1>2. ASSUME NEW q \in Peers \ Fragile
      PROVE  InStepFor(q)'
  <2>1. SameFor(q)
    BY DEF SameFor, cliVars
  <2>. QED
    BY <2>1, SameInStep DEF TogetherInv
<1>. QED
  BY <1>1, <1>2 DEF TogetherInv

LEMMA AcceptKeeps ==
    ASSUME Faultless, TogetherInv, TypeInv', Replied', Accept, UNCHANGED cliVars
    PROVE  TogetherInv'
<1> DEFINE p == Head(backlog)
<1>1. /\ backlog \in Seq(Peers) /\ Distinct(backlog) /\ backlog # <<>>
      /\ queue \in Seq(Peers) /\ Distinct(queue)
      /\ \A q \in Elems(backlog) : q \notin Elems(queue)
  BY DEF TogetherInv, TypeInv, TypeOK, WireTypeOK, Placed, Accept
<1>2. p \in Peers /\ p \in Elems(backlog) /\ Elems(Tail(backlog)) = Elems(backlog) \ {p}
  BY <1>1, HeadLeaves
<1> HIDE DEF p
<1>3. /\ backlog' = Tail(backlog) /\ queue' = Append(queue, p) /\ serving' = serving
      /\ UNCHANGED <<sock, stream, rcvd, rx, unread, ses, running>>
  BY DEF Accept, Pool!Accept, Faultless, p
<1>4. Elems(queue') = Elems(queue) \cup {p}
  BY <1>1, <1>2, <1>3, LastJoins
<1>5. \A q \in Peers : Attached(q)' <=> Attached(q)
  BY <1>2, <1>3, <1>4 DEF Attached
<1>. QED
  BY <1>3, <1>5, QuietKeeps

LEMMA StartKeeps ==
    ASSUME TogetherInv, TypeInv', Replied', Begin, UNCHANGED cliVars
    PROVE  TogetherInv'
<1>1. /\ queue \in Seq(Peers) /\ Distinct(queue) /\ queue # <<>>
      /\ ses \in [Peers -> Session] /\ TypeInv /\ Replied /\ ClientsTyped
  BY DEF TogetherInv, TypeInv, TypeOK, Placed, Begin, Pool!Start
<1>p. PICK p \in Peers : p = Head(queue)
  BY <1>1, HeadLeaves
<1>2. p \in Peers /\ p \in Elems(queue) /\ Elems(Tail(queue)) = Elems(queue) \ {p}
  BY <1>1, <1>p, HeadLeaves
<1>3. /\ queue' = Tail(queue) /\ serving' = serving \cup {p}
      /\ UNCHANGED <<sock, stream, sent, rcvd, rx, unread, backlog, files, running>>
      /\ ses' = [ses EXCEPT ![p].at = "header"]
      /\ cli' = cli /\ todo' = todo /\ local' = local
  BY <1>p DEF Begin, Pool!Start, wireVars, cliVars
<1>4. \A q \in Peers : Attached(q)' <=> Attached(q)
  BY <1>2, <1>3 DEF Attached
<1>5. ClientsTyped'
  BY <1>1, <1>3 DEF ClientsTyped, Sent
<1>6. ASSUME NEW q \in Peers \ Fragile, q # p
      PROVE  InStepFor(q)'
  <2>1. SameFor(q)
    BY <1>3, <1>4, <1>6 DEF SameFor
  <2>. QED
    BY <1>6, <2>1, SameInStep DEF TogetherInv
<1>7. ASSUME p \notin Fragile
      PROVE  InStepFor(p)'
  <2>1. InStepFor(p) /\ Attached(p)
    BY <1>2, <1>7 DEF TogetherInv, Attached
  <2>2. ses[p].at = "none" /\ ses'[p].at = "header"
    <3>1. ses[p] = NoSession
      BY <1>1, <1>2 DEF TypeInv, Placed
    <3>. QED
      BY <1>1, <1>2, <1>3, <3>1 DEF NoSession, Session
  <2>3. Locked(cli[p], rx[p], unread[p], ses[p], Means(p), rcvd[p])
    BY <2>1 DEF InStepFor
  <2>4. Locked(cli[p], rx[p], unread[p], ses'[p], Means(p), rcvd[p])
    <3> DEFINE c == cli[p]
               log == rx[p]
               un == unread[p]
               s == ses[p]
               t == ses'[p]
               S == Means(p)
               got == rcvd[p]
    <3>1. Locked(c, log, un, s, S, got) /\ s.at = "none" /\ t.at = "header"
      BY <2>2, <2>3
    <3> HIDE DEF c, log, un, s, t, S, got
    <3>2. Rests(s, log, S, got) => Rests(t, log, S, got)
      BY <3>1 DEF Rests, AtRest
    <3>3. ~Answered(s, log, S, got) /\ ~Refuses(s, log)
      BY <3>1 DEF Answered, Refuses
    <3>4. \A op : Asks(s, log, S, got, op) => Asks(t, log, S, got, op)
      BY <3>1 DEF Asks, AsksHeader, AtRest, AsksPlain, AsksName, AsksSecond, AsksData,
         AnswersNext
    <3>5. Locked(c, log, un, t, S, got)
      BY <3>1, <3>2, <3>3, <3>4 DEF Locked
    <3>. QED
      BY <3>5 DEF c, log, un, t, S, got
  <2>5. Means(p)' = Means(p)
    BY <1>3 DEF Means
  <2>6. SafeLines(todo[p], local[p])' /\ SafeOp(cli[p])'
    BY <1>3, <2>1 DEF InStepFor, SafeLines, SafeUpload, SafeOp
  <2>7. /\ ClientAt(p, "connect")' => Fresh(p)'
        /\ cli'[p].at \notin {"connect", "closed"} => sock'[p] = "open" /\ Attached(p)'
        /\ Held(cli'[p], rx'[p], unread'[p])
    BY <1>2, <1>3, <1>4, <2>1 DEF InStepFor, ClientAt, Fresh
  <2>. QED
    BY <1>3, <2>4, <2>5, <2>6, <2>7 DEF InStepFor
<1>. QED
  BY <1>5, <1>6, <1>7 DEF TogetherInv

LEMMA ArrivesKeeps ==
    ASSUME TogetherInv, TypeInv', Replied', NEW p \in Peers, Arrives(p)
    PROVE  TogetherInv'
<1>1. /\ UNCHANGED cliVars /\ queue' = queue /\ serving' = serving
      /\ UNCHANGED <<sock, stream, rcvd, rx, unread, backlog, ses, running>>
  BY DEF Arrives, PeerSends, Send, serverVars
<1>2. \A q \in Peers : Attached(q)' <=> Attached(q)
  BY <1>1 DEF Attached
<1>. QED
  BY <1>1, <1>2, QuietKeeps

-----------------------------------------------------------------------------
(* The invariant, and what follows from it.                                *)

(* The clients that nothing happens to upload under such names only.       *)
UploadsSafe == SafeUploads(Peers \ Fragile, Scripts, LocalDirectories)

LEMMA TogetherInitInv ==
    ASSUME UploadsSafe, TogetherInit
    PROVE  TogetherInv
<1>1. Init /\ WireInit /\ ClientInit
  BY DEF TogetherInit, Init
<1>2. TypeInv
  BY <1>1, InitTypeInv
<1>3. /\ cli = [p \in Peers |-> NoClient]
      /\ \A p \in Peers : todo[p] \in Scripts[p] /\ local[p] \in LocalDirectories[p]
      /\ DOMAIN todo = Peers /\ DOMAIN local = Peers
      /\ todo = [p \in Peers |-> todo[p]] /\ local = [p \in Peers |-> local[p]]
  BY <1>1 DEF ClientInit
<1>4. /\ todo \in [Peers -> Seq(Lines)]
      /\ local \in [Peers -> [Names -> File]]
  BY <1>3, ScriptsAssumption, LocalAssumption
<1>5. ASSUME NEW p \in Peers
      PROVE  /\ cli[p] = NoClient /\ sock[p] = "idle" /\ stream[p] = <<>>
             /\ rcvd[p] = 0 /\ unread[p] = 0 /\ rx[p] = <<>>
  <2>1. stream[p] \in Streams[p]
    BY <1>1 DEF WireInit
  <2>. QED
    BY <1>1, <1>3, <2>1, SilentAssumption DEF WireInit
<1>6. ASSUME NEW p \in Peers
      PROVE  Between(cli[p]) /\ unread[p] <= Len(Sent(p))
  <2>1. Len(Sent(p)) = 0
    BY <1>5, NothingSent DEF Sent
  <2>. QED
    BY <1>5, <2>1, NoClientTyped
<1>7. ClientsTyped
  BY <1>3, <1>4, <1>6, NoClientTyped DEF ClientsTyped
<1>8. Replied
  <2>1. serving = {}
    BY <1>1 DEF Init
  <2>. QED
    BY <1>5, <2>1 DEF Replied, LogFits
<1>9. ASSUME NEW p \in Peers \ Fragile
      PROVE  InStepFor(p)
  <2>1. Fresh(p) /\ cli[p].at = "connect"
    BY <1>5, NoClientTyped DEF Fresh
  <2>2. Locked(cli[p], rx[p], unread[p], ses[p], Means(p), rcvd[p])
    BY <2>1 DEF Locked
  <2>3. Held(cli[p], rx[p], unread[p]) /\ SafeOp(cli[p])
    BY <2>1 DEF Held, SafeOp
  <2>4. SafeLines(todo[p], local[p])
    BY <1>3 DEF UploadsSafe, SafeUploads
  <2>. QED
    BY <2>1, <2>2, <2>3, <2>4 DEF InStepFor
<1>. QED
  BY <1>2, <1>7, <1>8, <1>9 DEF TogetherInv

(* What the server does leaves its own invariants standing.                *)
LEMMA ServerInv ==
    ASSUME TogetherInv, Next, DownloadsHeld
    PROVE  TypeInv' /\ Replied'
<1>1. TypeInv /\ Replied
  BY DEF TogetherInv
<1>. QED
  BY <1>1, StepTypeInv, StepReplied

LEMMA WorkerKeeps ==
    ASSUME Faultless, TogetherInv, DownloadsHeld, NEW p \in Peers, WorkerRuns(p)
    PROVE  TogetherInv'
<1>1. Worker(p) /\ UNCHANGED cliVars
  BY DEF WorkerRuns
<1>2. TypeInv' /\ Replied'
  BY <1>1, ServerInv DEF Next
<1>3. Handling(p) \/ Close(p) \/ KilledBySigpipe(p)
  BY <1>1 DEF Worker, Handling
<1>. QED
  BY <1>1, <1>2, <1>3, HandlingKeeps, CloseKeeps, KilledKeeps

LEMMA TogetherStepInv ==
    ASSUME Faultless, TogetherInv, [TogetherNext]_allVars, [DownloadsHeld]_allVars
    PROVE  TogetherInv'
<1>1. ASSUME ServerRuns, DownloadsHeld
      PROVE  TogetherInv'
  <2>1. (Accept \/ Begin) /\ UNCHANGED cliVars
    BY <1>1 DEF ServerRuns
  <2>2. TypeInv' /\ Replied'
    BY <1>1, <2>1, ServerInv DEF Next
  <2>. QED
    BY <2>1, <2>2, AcceptKeeps, StartKeeps
<1>2. ASSUME DownloadsHeld, NEW p \in Peers, WorkerRuns(p)
      PROVE  TogetherInv'
  BY <1>2, WorkerKeeps
<1>3. ASSUME DownloadsHeld, NEW p \in Peers, Arrives(p)
      PROVE  TogetherInv'
  <2>1. TypeInv' /\ Replied'
    BY <1>3, ServerInv DEF Arrives, Peer, Next
  <2>. QED
    BY <1>3, <2>1, ArrivesKeeps
<1>4. ASSUME NEW p \in Peers, UserRuns(p) \/ UserBreaks(p)
      PROVE  TogetherInv'
  BY <1>4, UserKeeps
<1>5. CASE UNCHANGED allVars
  <2>1. /\ UNCHANGED vars /\ UNCHANGED cliVars /\ queue' = queue /\ serving' = serving
        /\ UNCHANGED <<sock, stream, rcvd, rx, unread, backlog, ses, running, files>>
    BY <1>5 DEF allVars, vars, wireVars, serverVars
  <2>2. TypeInv' /\ Replied'
    <3>1. TypeInv /\ Replied
      BY DEF TogetherInv
    <3>. QED
      BY <2>1, <3>1, SameVars DEF Replied
  <2>3. \A q \in Peers : Attached(q)' <=> Attached(q)
    BY <2>1 DEF Attached
  <2>. QED
    BY <2>1, <2>2, <2>3, QuietKeeps
<1>. QED
  BY <1>1, <1>2, <1>3, <1>4, <1>5 DEF TogetherNext, Runs

(* Clients and server together keep the server's invariants, the types of  *)
(* the clients, and that every exchange is where both ends take it to be   *)
(* (client_handler and handle_* of client.c against handle_*_client), if   *)
(* no call of the server fails, no name that is uploaded is refused and no *)
(* file changes while it is downloaded.                                    *)
THEOREM TogetherInvariance ==
    ASSUME Faultless, UploadsSafe
    PROVE  Together /\ [][DownloadsHeld]_allVars => []TogetherInv
<1>1. TogetherInit => TogetherInv
  BY TogetherInitInv
<1>2. TogetherInv /\ [TogetherNext]_allVars /\ [DownloadsHeld]_allVars => TogetherInv'
  BY TogetherStepInv
<1>. QED
  BY <1>1, <1>2, PTL DEF Together

(* Between two commands a client and the server are in step: all that the  *)
(* client has sent was received, and all that it was sent it has read; a   *)
(* refused or failed request leaves nothing on its way.                    *)
THEOREM SessionsInStep ==
    ASSUME Faultless, UploadsSafe
    PROVE  Together /\ [][DownloadsHeld]_allVars => []InStep
<1>1. ASSUME TogetherInv, NEW p \in Peers, AtEase(p), Attached(p)
      PROVE  Level(p)
  <2>1. ClientAt(p, "prompt") /\ p \notin Fragile /\ ClientsTyped /\ WireTypeOK
    BY <1>1 DEF AtEase, TogetherInv, TypeInv, TypeOK
  <2>2. /\ Locked(cli[p], rx[p], unread[p], ses[p], Means(p), rcvd[p])
        /\ Held(cli[p], rx[p], unread[p])
    BY <1>1, <2>1 DEF TogetherInv, InStepFor
  <2>3. unread[p] = 0 /\ rcvd[p] = Len(Means(p))
    BY <2>1, <2>2 DEF Locked, Held, Rests, ClientAt
  <2>4. cli[p].out = <<>>
    BY <2>1, ClientFacts DEF Between, ClientAt
  <2>5. Means(p) = stream[p]
    <3>1. stream[p] \in Seq(Unit)
      BY <2>1 DEF WireTypeOK
    <3>. QED
      BY <2>4, <3>1 DEF Means
  <2>. QED
    BY <2>3, <2>5 DEF Level
<1>2. TogetherInv => InStep
  BY <1>1 DEF InStep
<1>. QED
  BY <1>2, TogetherInvariance, PTL

(* Nothing but a refused upload costs a client its connection while the    *)
(* server runs (client_handler's breaks).                                  *)
THEOREM KeepsConnected ==
    ASSUME Faultless, UploadsSafe
    PROVE  Together /\ [][DownloadsHeld]_allVars => []StaysConnected
<1>1. ASSUME TogetherInv, NEW p \in Peers, AtEase(p), running
      PROVE  Attached(p) \/ UploadRefused(p)
  <2>1. cli[p].at = "prompt" /\ p \notin Fragile
    BY <1>1 DEF AtEase, ClientAt
  <2>2. Attached(p) \/ Lost(p)
    BY <1>1, <2>1 DEF TogetherInv, InStepFor
  <2>. QED
    BY <1>1, <2>1, <2>2 DEF Lost
<1>2. TogetherInv => StaysConnected
  BY <1>1 DEF StaysConnected
<1>. QED
  BY <1>2, TogetherInvariance, PTL

-----------------------------------------------------------------------------
(* What a client shows as a listing.                                       *)

(* The units of the bytes that follow a header.                            *)
BlockUnits(bytes) ==
    [i \in DOMAIN bytes |-> [cmd |-> "OTHER", status |-> 1, length |-> 0,
                             body |-> <<bytes[i]>>]]
HeadUnit(r) == <<[r EXCEPT !.body = <<>>]>>
Units(s, t) == s \o t

LEMMA UnitsJoin ==
    ASSUME NEW a \in Seq(Reply), NEW b \in Seq(Reply), NEW c \in Seq(Reply)
    PROVE  Units(Units(a, b), c) = Units(a, Units(b, c))
BY ConcatAssociative DEF Units

LEMMA BlockUnitsAre ==
    ASSUME NEW bytes \in Seq(Byte), NEW units, units = BlockUnits(bytes)
    PROVE  /\ units \in Seq(Reply) /\ Len(units) = Len(bytes)
           /\ \A i \in 1 .. Len(bytes) :
                 units[i].cmd = "OTHER" /\ ByteOf(units[i]) = bytes[i]
<1> DEFINE unit(b) == [cmd |-> "OTHER", status |-> 1, length |-> 0, body |-> <<b>>]
<1>1. Len(bytes) \in Nat /\ DOMAIN bytes = 1 .. Len(bytes)
  BY LenProperties
<1>2. ASSUME NEW b \in Byte PROVE unit(b) \in Reply /\ unit(b).cmd = "OTHER"
  BY DEF Reply, Cmds
<1>3. ASSUME NEW b PROVE ByteOf(unit(b)) = b
  <2>1. unit(b).body = <<b>> /\ <<b>> # <<>> /\ <<b>>[1] = b
    OBVIOUS
  <2>. QED
    BY <2>1 DEF ByteOf, IsReply
<1>4. \A i \in 1 .. Len(bytes) : bytes[i] \in Byte
  BY <1>1, ElementOfSeq
<1>5. units = [i \in 1 .. Len(bytes) |-> unit(bytes[i])]
  BY <1>1 DEF BlockUnits
<1> HIDE DEF unit
<1>6. units \in Seq(Reply) /\ Len(units) = Len(bytes)
  BY <1>1, <1>2, <1>4, <1>5
<1>. QED
  BY <1>2, <1>3, <1>4, <1>5, <1>6

LEMMA BlocksJoin ==
    ASSUME NEW a \in Seq(Byte), NEW b \in Seq(Byte)
    PROVE  BlockUnits(a \o b) = Units(BlockUnits(a), BlockUnits(b))
<1> DEFINE unit(x) == [cmd |-> "OTHER", status |-> 1, length |-> 0, body |-> <<x>>]
           c == a \o b
<1>1. Len(a) \in Nat /\ Len(b) \in Nat /\ DOMAIN a = 1 .. Len(a) /\ DOMAIN b = 1 .. Len(b)
  BY LenProperties
<1>2. /\ c \in Seq(Byte) /\ Len(c) = Len(a) + Len(b)
      /\ \A i \in 1 .. Len(a) + Len(b) : c[i] = IF i <= Len(a) THEN a[i] ELSE b[i - Len(a)]
  BY ConcatProperties
<1>3. DOMAIN c = 1 .. Len(a) + Len(b)
  BY <1>2, LenProperties
<1> HIDE DEF c
<1>4. /\ BlockUnits(a) = [i \in 1 .. Len(a) |-> unit(a[i])]
      /\ BlockUnits(b) = [i \in 1 .. Len(b) |-> unit(b[i])]
      /\ BlockUnits(c) = [i \in 1 .. Len(a) + Len(b) |-> unit(c[i])]
  BY <1>1, <1>3 DEF BlockUnits
<1> HIDE DEF unit
<1> DEFINE ua == BlockUnits(a)
           ub == BlockUnits(b)
           uc == BlockUnits(c)
<1>5. /\ ua \in Seq(Reply) /\ Len(ua) = Len(a) /\ ub \in Seq(Reply) /\ Len(ub) = Len(b)
      /\ uc \in Seq(Reply) /\ Len(uc) = Len(a) + Len(b)
  BY <1>2, BlockUnitsAre
<1>6. /\ \A i \in 1 .. Len(a) : ua[i] = unit(a[i])
      /\ \A i \in 1 .. Len(b) : ub[i] = unit(b[i])
      /\ \A i \in 1 .. Len(a) + Len(b) : uc[i] = unit(c[i])
  BY <1>4
<1> HIDE DEF ua, ub, uc
<1> DEFINE both == ua \o ub
<1>7. /\ both \in Seq(Reply) /\ Len(both) = Len(a) + Len(b)
      /\ \A i \in 1 .. Len(a) + Len(b) :
            both[i] = IF i <= Len(a) THEN ua[i] ELSE ub[i - Len(a)]
  <2>1. ua \in Seq(Reply) /\ ub \in Seq(Reply)
    BY <1>5
  <2>2. /\ both \in Seq(Reply) /\ Len(both) = Len(ua) + Len(ub)
        /\ \A i \in 1 .. Len(ua) + Len(ub) :
              both[i] = IF i <= Len(ua) THEN ua[i] ELSE ub[i - Len(ua)]
    BY <2>1, ConcatProperties
  <2> HIDE DEF both
  <2>. QED
    BY <1>5, <2>2
<1> HIDE DEF both
<1>8. ASSUME NEW i \in 1 .. Len(a) + Len(b) PROVE uc[i] = both[i]
  <2>1. CASE i <= Len(a)
    BY <1>1, <1>2, <1>6, <1>7, <2>1
  <2>2. CASE ~(i <= Len(a))
    <3>1. i - Len(a) \in 1 .. Len(b)
      BY <1>1, <2>2
    <3>. QED
      BY <1>2, <1>6, <1>7, <2>2, <3>1
  <2>. QED
    BY <2>1, <2>2
<1>9. uc = both
  BY <1>1, <1>5, <1>7, <1>8, SeqEqual
<1>. QED
  BY <1>9 DEF Units, ua, ub, uc, both, c

LEMMA HeadUnitIs ==
    ASSUME NEW r \in Reply, NEW units, units = HeadUnit(r)
    PROVE  /\ units \in Seq(Reply) /\ Len(units) = 1
           /\ units[1].cmd = r.cmd /\ units[1].status = r.status
           /\ units[1].length = r.length
<1> DEFINE head == [r EXCEPT !.body = <<>>]
<1>1. /\ head \in Reply /\ head.cmd = r.cmd /\ head.status = r.status
      /\ head.length = r.length
  BY EmptySeq DEF Reply
<1>2. units = <<head>>
  BY DEF HeadUnit
<1> HIDE DEF head
<1>. QED
  BY <1>1, <1>2

(* A reply with more of its body has the same header.                      *)
LEMMA GrownUnits ==
    ASSUME NEW r \in Reply, NEW more \in Seq(Byte)
    PROVE  ReplyUnits(Grown(r, more)) = Units(ReplyUnits(r), BlockUnits(more))
<1> DEFINE body == r.body
           g == Grown(r, more)
<1>1. body \in Seq(Byte)
  BY DEF Reply
<1>2. g.body = body \o more /\ HeadUnit(g) = HeadUnit(r)
  BY DEF Grown, Reply, HeadUnit
<1>3. /\ ReplyUnits(g) = HeadUnit(g) \o BlockUnits(g.body)
      /\ ReplyUnits(r) = HeadUnit(r) \o BlockUnits(body)
  BY DEF ReplyUnits, HeadUnit, BlockUnits
<1> DEFINE h == HeadUnit(r)
           a == BlockUnits(body)
           b == BlockUnits(more)
<1>4. h \in Seq(Reply) /\ a \in Seq(Reply) /\ b \in Seq(Reply)
  BY <1>1, HeadUnitIs, BlockUnitsAre
<1>5. BlockUnits(g.body) = a \o b
  BY <1>1, <1>2, BlocksJoin DEF Units
<1>6. ReplyUnits(g) = Units(h, Units(a, b)) /\ ReplyUnits(r) = Units(h, a)
  BY <1>2, <1>3, <1>5 DEF Units
<1> HIDE DEF h, a, b, g
<1>7. Units(h, Units(a, b)) = Units(Units(h, a), b)
  BY <1>4, UnitsJoin
<1>. QED
  BY <1>6, <1>7 DEF g, b

LEMMA LongerUnits ==
    ASSUME NEW log \in Seq(Reply), log # <<>>, NEW more \in Seq(Byte)
    PROVE  UnitsOf(Longer(log, more)) = Units(UnitsOf(log), BlockUnits(more))
<1>1. PICK s \in Seq(Reply), r \in Reply : EndsWith(log, s, r)
  BY LogEnds
<1>2. PICK r2 \in Reply : r2 = Grown(r, more)
  BY GrownIs
<1>3. EndsWith(Longer(log, more), s, r2)
  BY <1>1, <1>2, LongerIsAppend
<1>4. /\ UnitsOf(log) = UnitsOf(s) \o ReplyUnits(r)
      /\ UnitsOf(Longer(log, more)) = UnitsOf(s) \o ReplyUnits(r2)
  BY <1>1, <1>3, AppendUnits DEF EndsWith
<1> DEFINE a == UnitsOf(s)
           b == ReplyUnits(r)
           c == BlockUnits(more)
<1>5. a \in Seq(Reply) /\ b \in Seq(Reply) /\ c \in Seq(Reply)
  BY UnitsType, ReplyUnitsAre, BlockUnitsAre
<1>6. ReplyUnits(r2) = Units(b, c)
  BY <1>2, GrownUnits
<1>7. UnitsOf(log) = Units(a, b) /\ UnitsOf(Longer(log, more)) = Units(a, ReplyUnits(r2))
  BY <1>4 DEF Units
<1> HIDE DEF a, b, c
<1>8. Units(a, Units(b, c)) = Units(Units(a, b), c)
  BY <1>5, UnitsJoin
<1>. QED
  BY <1>6, <1>7, <1>8 DEF c

(* n bytes of the body of r; what follows units if a reply is begun, and if *)
(* it goes on.                                                             *)
PartOfBody(bytes, r, n) ==
    /\ bytes \in Seq(Byte) /\ Len(bytes) = n
    /\ r.body \in Seq(SafeNames) => bytes \in Seq(SafeNames)
HeadThen(units, r, bytes) == Units(units, Units(HeadUnit(r), BlockUnits(bytes)))
MoreThen(units, bytes) == Units(units, BlockUnits(bytes))

(* What a part of a reply adds to the units: maybe its header, and bytes.  *)
LEMMA PartUnits ==
    ASSUME NEW log \in Seq(Reply), NEW r \in Reply, NEW from \in Nat, NEW upto \in Nat,
           from < upto, upto <= Len(r.body) + 1, from > 0 => log # <<>>,
           NEW new, new = Extend(log, r, from, upto)
    PROVE  \E bytes :
              IF from = 0 THEN /\ PartOfBody(bytes, r, upto - 1)
                               /\ UnitsOf(new) = HeadThen(UnitsOf(log), r, bytes)
              ELSE /\ PartOfBody(bytes, r, upto - from)
                   /\ UnitsOf(new) = MoreThen(UnitsOf(log), bytes)
<1>1. r.body \in Seq(Byte) /\ Len(r.body) \in Nat
  BY LenProperties DEF Reply
<1> DEFINE first == IF from = 0 THEN 1 ELSE from
           part == SubSeq(r.body, first, upto - 1)
<1>2. first \in 1 .. Len(r.body) + 1 /\ upto - 1 \in first - 1 .. Len(r.body) /\ upto - 1 \in Int
      /\ first \in Int
  BY <1>1
<1>3. /\ part \in Seq(Byte) /\ Len(part) = upto - first
      /\ r.body \in Seq(SafeNames) => part \in Seq(SafeNames)
  <2>1. \A S : r.body \in Seq(S) =>
            /\ SubSeq(r.body, first, upto - 1) \in Seq(S)
            /\ Len(SubSeq(r.body, first, upto - 1)) =
                  IF first <= upto - 1 THEN upto - 1 - first + 1 ELSE 0
    <3>1. SUFFICES ASSUME NEW S, r.body \in Seq(S)
                   PROVE  /\ SubSeq(r.body, first, upto - 1) \in Seq(S)
                          /\ Len(SubSeq(r.body, first, upto - 1)) =
                                IF first <= upto - 1 THEN upto - 1 - first + 1 ELSE 0
      OBVIOUS
    <3>2. ASSUME NEW i \in first .. upto - 1 PROVE r.body[i] \in S
      <4>1. i \in 1 .. Len(r.body)
        BY <1>1, <1>2
      <4>. QED
        BY <3>1, <4>1, ElementOfSeq
    <3> HIDE DEF first
    <3>. QED
      BY <1>2, <3>1, <3>2, SubSeqProperties
  <2>2. (IF first <= upto - 1 THEN upto - 1 - first + 1 ELSE 0) = upto - first
    BY <1>1, <1>2
  <2>. QED
    BY <1>1, <2>1, <2>2
<1>4. CASE from = 0
  <2> DEFINE begun == [r EXCEPT !.body = part]
  <2>1. begun \in Reply /\ begun.body = part /\ HeadUnit(begun) = HeadUnit(r)
    BY <1>3 DEF Reply, HeadUnit
  <2>2. new = Append(log, begun)
    BY <1>4 DEF Extend
  <2>3. ReplyUnits(begun) = Units(HeadUnit(begun), BlockUnits(begun.body))
    BY DEF ReplyUnits, HeadUnit, BlockUnits, Units
  <2> HIDE DEF part, begun
  <2>4. UnitsOf(new) = UnitsOf(log) \o ReplyUnits(begun)
    BY <2>1, <2>2, AppendUnits
  <2>5. UnitsOf(new) = Units(UnitsOf(log), Units(HeadUnit(r), BlockUnits(part)))
    BY <2>1, <2>3, <2>4 DEF Units
  <2>6. Len(part) = upto - 1
    BY <1>3, <1>4
  <2>. QED
    BY <1>3, <1>4, <2>5, <2>6 DEF PartOfBody, HeadThen
<1>5. CASE from # 0
  <2>1. new = Longer(log, Rest(r, from, upto)) /\ from > 0
    BY <1>5, ExtendGoesOn
  <2>2. part = Rest(r, from, upto)
    BY <1>5 DEF Rest
  <2>3. Len(part) = upto - from
    BY <1>3, <1>5
  <2> HIDE DEF part
  <2>4. UnitsOf(new) = Units(UnitsOf(log), BlockUnits(part))
    BY <1>3, <2>1, <2>2, LongerUnits
  <2>. QED
    BY <1>3, <1>5, <2>3, <2>4 DEF PartOfBody, MoreThen
<1>. QED
  BY <1>4, <1>5

-----------------------------------------------------------------------------
(* A listing among the units that a client was sent.                       *)

(* u is the header of one; the units after unit j are its names, as many   *)
(* as its header says.                                                     *)
Lists(u) == u.cmd = "LIST" /\ u.status = 0
NamesAfter(units, j) ==
    \A i \in 1 .. Len(units) :
        j < i /\ i <= j + units[j].length => ByteOf(units[i]) \in SafeNames
Ends(units, j) == j + units[j].length <= Len(units)
(* All of them were sent, or the session s goes on to send them, or will   *)
(* send nothing any more.                                                  *)
GoesOn(s, units, j) ==
    \/ s.at \in {"none", "close"}
    \/ /\ s.at = "reply" /\ s.out_sent > 0 /\ s.out[1].cmd = "LIST"
       /\ s.out[1].length = units[j].length /\ Len(units) + 1 = j + s.out_sent
ListsWhole(s, units) ==
    \A j \in 1 .. Len(units) :
        Lists(units[j]) => NamesAfter(units, j) /\ (Ends(units, j) \/ GoesOn(s, units, j))
AllEnd(units) ==
    \A j \in 1 .. Len(units) : Lists(units[j]) => NamesAfter(units, j) /\ Ends(units, j)

(* The session s has names only to send as a listing.                      *)
Naming(s, log) ==
    /\ s.at = "reply" /\ s.out[1].cmd = "LIST" => s.out[1].body \in Seq(SafeNames)
    /\ (s.at = "reply" /\ s.out_sent > 0) \/ s.at \in {"get_read", "get_send"} => log # <<>>

(* A client that reads a listing has read its header, and as many names as *)
(* it does not wait for.                                                   *)
ReadsNames(c, units, un) ==
    c.at = "body" /\ c.op.cmd = "LIST" =>
        \E j \in 1 .. Len(units) :
            /\ Lists(units[j]) /\ j + un <= Len(units)
            /\ Len(units) + c.left = j + units[j].length + un

(* `new` begins with the units of s.                                       *)
Begun(s, new, n) ==
    /\ new \in Seq(Reply) /\ n \in Nat /\ Len(new) = Len(s) + n
    /\ \A i \in 1 .. Len(s) : new[i] = s[i]

LEMMA ReadsOn ==
    ASSUME NEW c, NEW s \in Seq(Reply), NEW new, NEW n, Begun(s, new, n), NEW un \in Nat,
           c \in Process, ReadsNames(c, s, un)
    PROVE  ReadsNames(c, new, un + n)
<1>1. SUFFICES ASSUME c.at = "body" /\ c.op.cmd = "LIST"
               PROVE  \E j \in 1 .. Len(new) :
                         /\ Lists(new[j]) /\ j + (un + n) <= Len(new)
                         /\ Len(new) + c.left = j + new[j].length + (un + n)
  BY DEF ReadsNames
<1>2. PICK j \in 1 .. Len(s) : /\ Lists(s[j]) /\ j + un <= Len(s)
                               /\ Len(s) + c.left = j + s[j].length + un
  BY <1>1 DEF ReadsNames
<1>3. new[j] = s[j] /\ s[j] \in Reply /\ Len(s) \in Nat /\ n \in Nat /\ Len(new) = Len(s) + n
  BY LenProperties, ElementOfSeq DEF Begun
<1>4. s[j].length \in Nat /\ c.left \in Nat
  BY <1>3 DEF Reply, Process
<1> DEFINE a == Len(s)
           b == Len(new)
           l == s[j].length
           m == c.left
<1>5. /\ a \in Nat /\ n \in Nat /\ b = a + n /\ l \in Nat /\ m \in Nat /\ j \in 1 .. a
      /\ j + un <= a /\ a + m = j + l + un
  BY <1>2, <1>3, <1>4
<1> HIDE DEF a, b, l, m
<1>6. j \in 1 .. b /\ j + (un + n) <= b /\ b + m = j + l + (un + n)
  BY <1>5
<1>. QED
  BY <1>2, <1>3, <1>6 DEF b, l, m

(* More units that are no header, or one header and its bytes.             *)
LEMMA BlocksAdded ==
    ASSUME NEW s \in Seq(Reply), NEW bytes \in Seq(Byte),
           NEW new, new = Units(s, BlockUnits(bytes))
    PROVE  /\ Begun(s, new, Len(bytes))
           /\ \A i \in 1 .. Len(new) :
                 i > Len(s) => new[i].cmd = "OTHER" /\ ByteOf(new[i]) = bytes[i - Len(s)]
                               /\ i - Len(s) \in 1 .. Len(bytes)
<1> DEFINE more == BlockUnits(bytes)
<1>1. /\ more \in Seq(Reply) /\ Len(more) = Len(bytes)
      /\ \A i \in 1 .. Len(bytes) : more[i].cmd = "OTHER" /\ ByteOf(more[i]) = bytes[i]
  BY BlockUnitsAre
<1>2. new = s \o more
  BY DEF Units
<1> HIDE DEF more
<1>3. /\ new \in Seq(Reply) /\ Len(new) = Len(s) + Len(more)
      /\ \A i \in 1 .. Len(s) + Len(more) :
            new[i] = IF i <= Len(s) THEN s[i] ELSE more[i - Len(s)]
  <2>1. more \in Seq(Reply)
    BY <1>1
  <2>. QED
    BY <1>2, <2>1, ConcatProperties
<1>4. Len(s) \in Nat /\ Len(bytes) \in Nat
  BY LenProperties
<1> DEFINE a == Len(s)
           b == Len(bytes)
<1>5. /\ Len(new) = a + b /\ a \in Nat /\ b \in Nat
      /\ \A i \in 1 .. a + b : new[i] = IF i <= a THEN s[i] ELSE more[i - a]
  BY <1>1, <1>3, <1>4
<1>6. ASSUME NEW i \in 1 .. a + b, i > a
      PROVE  i - a \in 1 .. b /\ new[i] = more[i - a]
  <2> HIDE DEF a, b
  <2>1. i - a \in 1 .. b /\ ~(i <= a)
    BY <1>5, <1>6
  <2>. QED
    BY <1>5, <2>1
<1>7. \A i \in 1 .. a : new[i] = s[i]
  <2> HIDE DEF a, b
  <2>1. \A i \in 1 .. a : i \in 1 .. a + b /\ i <= a
    BY <1>5
  <2>. QED
    BY <1>5, <2>1
<1>8. Begun(s, new, b)
  BY <1>3, <1>5, <1>7 DEF Begun
<1>. QED
  BY <1>1, <1>5, <1>6, <1>8

LEMMA HeadAdded ==
    ASSUME NEW s \in Seq(Reply), NEW r \in Reply, NEW bytes \in Seq(Byte),
           NEW new, new = Units(s, Units(HeadUnit(r), BlockUnits(bytes)))
    PROVE  \E mid \in Seq(Reply) :
              /\ Begun(s, mid, 1) /\ new = Units(mid, BlockUnits(bytes))
              /\ mid[Len(s) + 1].cmd = r.cmd /\ mid[Len(s) + 1].status = r.status
              /\ mid[Len(s) + 1].length = r.length
              /\ Begun(s, new, Len(bytes) + 1)
<1> DEFINE h == HeadUnit(r)
           more == BlockUnits(bytes)
           mid == Units(s, h)
<1>1. /\ h \in Seq(Reply) /\ Len(h) = 1
      /\ h[1].cmd = r.cmd /\ h[1].status = r.status /\ h[1].length = r.length
  BY HeadUnitIs
<1>2. more \in Seq(Reply)
  BY BlockUnitsAre
<1>3. new = Units(s, Units(h, more)) /\ mid = Units(s, h) /\ more = BlockUnits(bytes)
  OBVIOUS
<1> HIDE DEF h, more, mid
<1>4. new = Units(mid, more)
  BY <1>1, <1>2, <1>3, UnitsJoin
<1>5. /\ mid \in Seq(Reply) /\ Len(mid) = Len(s) + Len(h)
      /\ \A i \in 1 .. Len(s) + Len(h) :
            mid[i] = IF i <= Len(s) THEN s[i] ELSE h[i - Len(s)]
  BY <1>1, <1>3, ConcatProperties DEF Units
<1>6. Len(s) \in Nat /\ Len(bytes) \in Nat
  BY LenProperties
<1>7. /\ \A i \in 1 .. Len(s) : mid[i] = s[i]
      /\ Len(mid) = Len(s) + 1 /\ mid[Len(s) + 1] = h[1]
  <2> DEFINE a == Len(s)
  <2>1. /\ a \in Nat /\ Len(mid) = a + 1
        /\ \A i \in 1 .. a + 1 : mid[i] = IF i <= a THEN s[i] ELSE h[i - a]
    BY <1>1, <1>5, <1>6
  <2> HIDE DEF a
  <2>2. a + 1 \in 1 .. a + 1 /\ ~(a + 1 <= a) /\ a + 1 - a = 1
    BY <2>1
  <2>3. mid[a + 1] = h[1]
    BY <2>1, <2>2
  <2>4. \A i \in 1 .. a : i \in 1 .. a + 1 /\ i <= a
    BY <2>1
  <2>. QED
    BY <2>1, <2>3, <2>4 DEF a
<1>8. Begun(s, mid, 1)
  BY <1>5, <1>7 DEF Begun
<1>9. Begun(mid, new, Len(bytes))
  BY <1>3, <1>4, <1>5, BlocksAdded
<1>10. Begun(s, new, Len(bytes) + 1)
  <2> DEFINE a == Len(s)
             b == Len(bytes)
  <2>1. /\ a \in Nat /\ b \in Nat /\ Len(mid) = a + 1 /\ Len(new) = (a + 1) + b
        /\ new \in Seq(Reply) /\ \A i \in 1 .. a : mid[i] = s[i]
        /\ \A i \in 1 .. a + 1 : new[i] = mid[i]
    BY <1>6, <1>7, <1>9 DEF Begun
  <2> HIDE DEF a, b
  <2>2. /\ Len(new) = a + (b + 1) /\ b + 1 \in Nat
        /\ \A i \in 1 .. a : i \in 1 .. a + 1
    BY <2>1
  <2>3. \A i \in 1 .. a : new[i] = s[i]
    BY <2>1, <2>2
  <2>. QED
    BY <2>1, <2>2, <2>3 DEF Begun, a, b
<1>. QED
  BY <1>1, <1>3, <1>4, <1>5, <1>7, <1>8, <1>10

(* A session that is not in the middle of a listing has ended them all, and *)
(* then it does not matter what it does.                                   *)
LEMMA AllEnded ==
    ASSUME NEW s, NEW units, ListsWhole(s, units), s.at \notin {"none", "close"},
           ~(s.at = "reply" /\ s.out_sent > 0 /\ s.out[1].cmd = "LIST")
    PROVE  AllEnd(units)
BY DEF ListsWhole, GoesOn, AllEnd

LEMMA EndedWhole ==
    ASSUME NEW t, NEW units, AllEnd(units)
    PROVE  ListsWhole(t, units)
BY DEF ListsWhole, AllEnd

(* The listings of s, and whether they end, are the same in `new`.         *)
LEMMA EndedOn ==
    ASSUME NEW s \in Seq(Reply), NEW new, NEW n, Begun(s, new, n),
           NEW j \in 1 .. Len(s), NamesAfter(s, j), Ends(s, j)
    PROVE  /\ j \in 1 .. Len(new) /\ new[j] = s[j] /\ NamesAfter(new, j) /\ Ends(new, j)
<1>1. /\ new[j] = s[j] /\ s[j] \in Reply /\ Len(s) \in Nat /\ n \in Nat
      /\ Len(new) = Len(s) + n
  BY LenProperties, ElementOfSeq DEF Begun
<1>2. s[j].length \in Nat
  BY <1>1 DEF Reply
<1> DEFINE a == Len(s)
           b == Len(new)
           l == s[j].length
<1>3. a \in Nat /\ n \in Nat /\ b = a + n /\ l \in Nat /\ j \in 1 .. a /\ j + l <= a
  BY <1>1, <1>2 DEF Ends
<1>4. \A i \in 1 .. b : j < i /\ i <= j + l => ByteOf(new[i]) \in SafeNames
  <2>1. ASSUME NEW i \in 1 .. b, j < i, i <= j + l
        PROVE  ByteOf(new[i]) \in SafeNames
    <3> HIDE DEF a, b, l
    <3>1. i \in 1 .. a
      BY <1>3, <2>1
    <3>2. new[i] = s[i]
      BY <3>1 DEF Begun, a
    <3>3. ByteOf(s[i]) \in SafeNames
      BY <2>1, <3>1 DEF NamesAfter, a, l
    <3>. QED
      BY <3>2, <3>3
  <2>. QED
    BY <2>1
<1>5. j \in 1 .. b /\ j + l <= b
  <2> HIDE DEF a, b, l
  <2>. QED
    BY <1>3
<1>. QED
  BY <1>1, <1>4, <1>5 DEF NamesAfter, Ends

(* More of a reply that is no listing.                                     *)
LEMMA BlocksEnd ==
    ASSUME NEW s \in Seq(Reply), AllEnd(s), NEW bytes \in Seq(Byte),
           NEW new, new = Units(s, BlockUnits(bytes))
    PROVE  AllEnd(new)
<1>1. Begun(s, new, Len(bytes))
  BY BlocksAdded
<1>2. ASSUME NEW j \in 1 .. Len(new), Lists(new[j])
      PROVE  NamesAfter(new, j) /\ Ends(new, j)
  <2>1. j \in 1 .. Len(s)
    <3>1. ~(j > Len(s))
      BY <1>2, BlocksAdded DEF Lists
    <3>2. Len(s) \in Nat /\ Len(new) \in Nat
      BY <1>1, LenProperties DEF Begun
    <3>. QED
      BY <3>1, <3>2
  <2>2. new[j] = s[j]
    BY <1>1, <2>1 DEF Begun
  <2>. QED
    BY <1>1, <1>2, <2>1, <2>2, EndedOn DEF AllEnd
<1>. QED
  BY <1>2 DEF AllEnd

(* Bytes are added that are names if unit j, the last header, begins a     *)
(* listing.                                                                *)
LEMMA NamesEnd ==
    ASSUME NEW s \in Seq(Reply), NEW bytes \in Seq(Byte),
           NEW new, new = Units(s, BlockUnits(bytes)),
           NEW j \in 1 .. Len(s),
           \A i \in 1 .. Len(s) :
               i # j /\ Lists(s[i]) => NamesAfter(s, i) /\ Ends(s, i),
           Lists(s[j]) => NamesAfter(s, j) /\ bytes \in Seq(SafeNames),
           NEW t, Lists(s[j]) => Ends(new, j) \/ GoesOn(t, new, j)
    PROVE  ListsWhole(t, new)
<1>1. Begun(s, new, Len(bytes)) /\ Len(s) \in Nat /\ Len(bytes) \in Nat
  BY BlocksAdded, LenProperties
<1>2. ASSUME NEW i \in 1 .. Len(new), Lists(new[i])
      PROVE  NamesAfter(new, i) /\ (Ends(new, i) \/ GoesOn(t, new, i))
  <2>1. i \in 1 .. Len(s)
    <3>1. ~(i > Len(s))
      BY <1>2, BlocksAdded DEF Lists
    <3>2. Len(new) \in Nat
      BY <1>1, LenProperties DEF Begun
    <3>. QED
      BY <1>1, <3>1, <3>2
  <2>2. new[i] = s[i]
    BY <1>1, <2>1 DEF Begun
  <2>3. CASE i # j
    <3>1. NamesAfter(s, i) /\ Ends(s, i)
      BY <1>2, <2>1, <2>2, <2>3
    <3>. QED
      BY <1>1, <2>1, <3>1, EndedOn
  <2>4. CASE i = j
    <3>1. NamesAfter(s, j) /\ bytes \in Seq(SafeNames) /\ (Ends(new, j) \/ GoesOn(t, new, j))
      BY <1>2, <2>2, <2>4
    <3>2. ASSUME NEW k \in 1 .. Len(new), j < k, k <= j + new[j].length
          PROVE  ByteOf(new[k]) \in SafeNames
      <4>1. CASE k > Len(s)
        <5>1. ByteOf(new[k]) = bytes[k - Len(s)] /\ k - Len(s) \in 1 .. Len(bytes)
          BY <4>1, BlocksAdded
        <5>. QED
          BY <3>1, <5>1, ElementOfSeq
      <4>2. CASE ~(k > Len(s))
        <5>1. k \in 1 .. Len(s)
          BY <1>1, <4>2
        <5>2. new[k] = s[k]
          BY <1>1, <5>1 DEF Begun
        <5>. QED
          BY <2>2, <2>4, <3>1, <3>2, <5>1, <5>2 DEF NamesAfter
      <4>. QED
        BY <4>1, <4>2
    <3>. QED
      BY <2>4, <3>1, <3>2 DEF NamesAfter
  <2>. QED
    BY <2>3, <2>4
<1>. QED
  BY <1>2 DEF ListsWhole

-----------------------------------------------------------------------------
(* The steps of a worker.                                                  *)

LEMMA ClosedWhole ==
    ASSUME NEW s, NEW t, NEW units, ListsWhole(s, units), t.at \in {"none", "close"}
    PROVE  ListsWhole(t, units)
BY DEF ListsWhole, GoesOn

LEMMA RestWhole ==
    ASSUME NEW s, NEW t, NEW units, ListsWhole(s, units),
           s.at \notin {"none", "close", "reply"}
    PROVE  ListsWhole(t, units)
<1>1. AllEnd(units)
  BY AllEnded
<1>. QED
  BY <1>1, EndedWhole

(* s sends r, of which `from` units were sent before.                      *)
Sends(s, r, from) ==
    /\ s \in Session /\ LocalsFit(s) /\ s.at = "reply"
    /\ r = s.out[1] /\ from = s.out_sent

(* The first part of a reply is sent.                                      *)
LEMMA FirstPartWhole ==
    ASSUME NEW s, NEW r \in Reply, Sends(s, r, 0),
           NEW log \in Seq(Reply), Naming(s, log), ListsWhole(s, UnitsOf(log)),
           NEW upto \in Nat, 0 < upto, upto <= Len(r.body) + 1,
           NEW t, SentUpto(s, upto, t),
           NEW new, new = Extend(log, r, 0, upto)
    PROVE  ListsWhole(t, UnitsOf(new)) /\ Begun(UnitsOf(log), UnitsOf(new), upto)
<1> DEFINE units == UnitsOf(log)
           all == UnitsOf(new)
<1>1. units \in Seq(Reply) /\ Len(units) \in Nat /\ r.body \in Seq(Byte) /\ Len(r.body) \in Nat
  BY UnitsType, LenProperties DEF Reply
<1>2. AllEnd(units)
  BY AllEnded DEF Sends
<1>3. r.cmd = "LIST" => r.body \in Seq(SafeNames) /\ Len(r.body) = r.length
  BY DEF Sends, Naming, LocalsFit, Complete
<1>4. PICK bytes : PartOfBody(bytes, r, upto - 1) /\ all = HeadThen(units, r, bytes)
  <2>1. PICK from \in Nat : from = 0
    OBVIOUS
  <2>2. /\ from < upto /\ (from > 0 => log # <<>>) /\ new = Extend(log, r, from, upto)
    BY <2>1
  <2>3. \E bytes :
            IF from = 0 THEN /\ PartOfBody(bytes, r, upto - 1)
                             /\ UnitsOf(new) = HeadThen(UnitsOf(log), r, bytes)
            ELSE /\ PartOfBody(bytes, r, upto - from)
                 /\ UnitsOf(new) = MoreThen(UnitsOf(log), bytes)
    BY <2>2, PartUnits
  <2>. QED
    BY <2>1, <2>3
<1> HIDE DEF units, all
<1>b. bytes \in Seq(Byte) /\ Len(bytes) = upto - 1
      /\ (r.body \in Seq(SafeNames) => bytes \in Seq(SafeNames))
  BY <1>4 DEF PartOfBody
<1>5. PICK mid \in Seq(Reply) :
          /\ Begun(units, mid, 1) /\ all = Units(mid, BlockUnits(bytes))
          /\ mid[Len(units) + 1].cmd = r.cmd
          /\ mid[Len(units) + 1].length = r.length
          /\ Begun(units, all, Len(bytes) + 1)
  <2>1. all = Units(units, Units(HeadUnit(r), BlockUnits(bytes)))
    BY <1>4 DEF HeadThen
  <2>2. units \in Seq(Reply) /\ bytes \in Seq(Byte)
    BY <1>1, <1>b
  <2>3. \E mid \in Seq(Reply) :
          /\ Begun(units, mid, 1) /\ all = Units(mid, BlockUnits(bytes))
          /\ mid[Len(units) + 1].cmd = r.cmd /\ mid[Len(units) + 1].status = r.status
          /\ mid[Len(units) + 1].length = r.length
          /\ Begun(units, all, Len(bytes) + 1)
    BY <2>1, <2>2, HeadAdded
  <2>. QED
    BY <2>3
<1> DEFINE n == Len(units)
           j == n + 1
<1>6. /\ n \in Nat /\ Len(mid) = n + 1 /\ Len(all) = n + upto /\ all \in Seq(Reply)
      /\ \A i \in 1 .. n : mid[i] = units[i]
      /\ j \in 1 .. Len(mid) /\ mid[j].cmd = r.cmd /\ mid[j].length = r.length
  <2>1. /\ n \in Nat /\ Len(mid) = n + 1 /\ all \in Seq(Reply)
        /\ Len(all) = n + (Len(bytes) + 1)
    BY <1>1, <1>5 DEF Begun
  <2>2. \A i \in 1 .. n : mid[i] = units[i]
    BY <1>5 DEF Begun
  <2>3. Len(bytes) = upto - 1
    BY <1>b
  <2>4. mid[j].cmd = r.cmd /\ mid[j].length = r.length
    BY <1>5
  <2> HIDE DEF n
  <2>. QED
    BY <2>1, <2>2, <2>3, <2>4
<1>7. ASSUME NEW i \in 1 .. Len(mid), i # j, Lists(mid[i])
      PROVE  NamesAfter(mid, i) /\ Ends(mid, i)
  <2>1. i \in 1 .. n
    <3> HIDE DEF n
    <3>. QED
      BY <1>6, <1>7
  <2>2. Lists(units[i])
    BY <1>6, <1>7, <2>1
  <2>3. NamesAfter(units, i) /\ Ends(units, i)
    BY <1>2, <2>1, <2>2 DEF AllEnd
  <2>. QED
    BY <1>1, <1>5, <2>1, <2>3, EndedOn DEF units
<1>8. NamesAfter(mid, j)
  <2>1. \A i \in 1 .. Len(mid) : ~(j < i)
    <3> HIDE DEF n
    <3>. QED
      BY <1>6
  <2>. QED
    BY <2>1 DEF NamesAfter
<1>9. Lists(mid[j]) => bytes \in Seq(SafeNames)
  BY <1>3, <1>6, <1>b DEF Lists
<1>10. ASSUME Lists(mid[j])
       PROVE  Ends(all, j) \/ GoesOn(t, all, j)
  <2>1. r.cmd = "LIST" /\ Len(r.body) = r.length
    BY <1>3, <1>6, <1>10 DEF Lists
  <2>2. all[j] = mid[j]
    <3>1. Begun(mid, all, Len(bytes))
      BY <1>5, <1>b, BlocksAdded
    <3>. QED
      BY <1>6, <3>1 DEF Begun
  <2>3. all[j].length = Len(r.body)
    BY <1>6, <2>1, <2>2
  <2> DEFINE b == Len(r.body)
  <2>4. b \in Nat /\ Len(all) = n + upto /\ n \in Nat
    BY <1>1, <1>6
  <2>5. CASE upto < b + 1
    <3>1. t.at = "reply" /\ t.out = s.out /\ t.out_sent = upto
      BY <2>5 DEF Sends, SentUpto
    <3>2. Len(all) + 1 = j + t.out_sent
      <4> HIDE DEF n, b
      <4>. QED
        BY <2>4, <3>1 DEF j
    <3>. QED
      BY <2>1, <2>3, <3>1, <3>2 DEF Sends, GoesOn
  <2>6. CASE ~(upto < b + 1)
    <3>1. upto = b + 1
      <4> HIDE DEF n
      <4>1. upto <= b + 1
        OBVIOUS
      <4> HIDE DEF b
      <4>. QED
        BY <2>4, <2>6, <4>1
    <3>2. j + b <= Len(all)
      <4> HIDE DEF n, b
      <4>. QED
        BY <2>4, <3>1 DEF j
    <3>. QED
      BY <2>3, <3>2 DEF Ends
  <2>. QED
    BY <2>5, <2>6
<1> HIDE DEF j, n
<1>11. ListsWhole(t, all)
  BY <1>5, <1>6, <1>7, <1>8, <1>9, <1>10, <1>b, NamesEnd
<1>12. Begun(units, all, upto)
  <2>1. Len(bytes) + 1 = upto
    BY <1>b
  <2>. QED
    BY <1>5, <2>1
<1>. QED
  BY <1>11, <1>12 DEF units, all

(* More of it is sent.                                                     *)
LEMMA NextPartWhole ==
    ASSUME NEW s, NEW r \in Reply, NEW from \in Nat, from > 0, Sends(s, r, from),
           NEW log \in Seq(Reply), Naming(s, log), ListsWhole(s, UnitsOf(log)),
           NEW upto \in Nat, from < upto, upto <= Len(r.body) + 1,
           NEW t, SentUpto(s, upto, t),
           NEW new, new = Extend(log, r, from, upto)
    PROVE  ListsWhole(t, UnitsOf(new)) /\ Begun(UnitsOf(log), UnitsOf(new), upto - from)
<1> DEFINE units == UnitsOf(log)
           all == UnitsOf(new)
<1>1. units \in Seq(Reply) /\ Len(units) \in Nat /\ r.body \in Seq(Byte) /\ Len(r.body) \in Nat
  BY UnitsType, LenProperties DEF Reply
<1>2. log # <<>>
  BY DEF Sends, Naming
<1>3. r.cmd = "LIST" => r.body \in Seq(SafeNames) /\ Len(r.body) = r.length
  BY DEF Sends, Naming, LocalsFit, Complete
<1>4. PICK bytes : PartOfBody(bytes, r, upto - from) /\ all = MoreThen(units, bytes)
  <2>1. \E bytes :
            IF from = 0 THEN /\ PartOfBody(bytes, r, upto - 1)
                             /\ UnitsOf(new) = HeadThen(UnitsOf(log), r, bytes)
            ELSE /\ PartOfBody(bytes, r, upto - from)
                 /\ UnitsOf(new) = MoreThen(UnitsOf(log), bytes)
    BY <1>2, PartUnits
  <2>2. from # 0
    OBVIOUS
  <2>. QED
    BY <2>1, <2>2
<1>b. bytes \in Seq(Byte) /\ Len(bytes) = upto - from
      /\ (r.body \in Seq(SafeNames) => bytes \in Seq(SafeNames))
  BY <1>4 DEF PartOfBody
<1>c. all = Units(units, BlockUnits(bytes))
  BY <1>4 DEF MoreThen
<1>5. ListsWhole(s, units)
  OBVIOUS
<1> HIDE DEF units, all
<1>6. Begun(units, all, upto - from)
  <2>1. Begun(units, all, Len(bytes))
    BY <1>1, <1>b, <1>c, BlocksAdded
  <2>. QED
    BY <1>b, <2>1
<1>7. CASE AllEnd(units)
  <2>1. AllEnd(all)
    BY <1>1, <1>7, <1>b, <1>c, BlocksEnd
  <2>. QED
    BY <1>6, <2>1, EndedWhole DEF units, all
<1>8. CASE ~AllEnd(units)
  <2>1. PICK j \in 1 .. Len(units) :
            Lists(units[j]) /\ ~(NamesAfter(units, j) /\ Ends(units, j))
    BY <1>8 DEF AllEnd
  <2>2. NamesAfter(units, j) /\ GoesOn(s, units, j)
    BY <1>5, <2>1 DEF ListsWhole
  <2>3. /\ r.cmd = "LIST" /\ r.length = units[j].length /\ Len(units) + 1 = j + from
    BY <2>2 DEF Sends, GoesOn
  <2>4. ASSUME NEW i \in 1 .. Len(units), i # j, Lists(units[i])
        PROVE  NamesAfter(units, i) /\ Ends(units, i)
    <3>1. ~GoesOn(s, units, i)
      <4>1. SUFFICES ASSUME Len(units) + 1 = i + from PROVE FALSE
        BY DEF Sends, GoesOn
      <4> DEFINE n == Len(units)
      <4>2. n \in Nat /\ n + 1 = i + from /\ n + 1 = j + from /\ i \in 1 .. n /\ j \in 1 .. n
        BY <1>1, <2>3, <4>1
      <4> HIDE DEF n
      <4>. QED
        BY <2>4, <4>2
    <3>. QED
      BY <1>5, <2>4, <3>1 DEF ListsWhole
  <2>5. bytes \in Seq(SafeNames)
    BY <1>3, <1>b, <2>3
  <2>6. Ends(all, j) \/ GoesOn(t, all, j)
    <3> DEFINE n == Len(units)
               b == Len(r.body)
               m == Len(all)
    <3>1. all[j] = units[j] /\ m = n + (upto - from)
      BY <1>6, <2>1 DEF Begun
    <3>2. b = r.length /\ b = all[j].length
      BY <1>3, <2>3, <3>1
    <3>3. n \in Nat /\ b \in Nat /\ n + 1 = j + from /\ j \in 1 .. n /\ upto <= b + 1
      BY <1>1, <2>3
    <3>4. CASE upto < b + 1
      <4>1. t.at = "reply" /\ t.out = s.out /\ t.out_sent = upto
        BY <3>4 DEF Sends, SentUpto
      <4>2. m + 1 = j + upto
        <5>1. m = n + (upto - from) /\ n \in Nat /\ n + 1 = j + from /\ j \in Nat
          BY <3>1, <3>3
        <5> HIDE DEF n, b, m
        <5>. QED
          BY <5>1
      <4>3. upto > 0
        <5> HIDE DEF n, b, m
        <5>. QED
          OBVIOUS
      <4>. QED
        BY <2>3, <3>2, <4>1, <4>2, <4>3 DEF Sends, GoesOn
    <3>5. CASE ~(upto < b + 1)
      <4>1. j + b <= m
        <5> HIDE DEF n, b, m
        <5>. QED
          BY <3>1, <3>3, <3>5
      <4>. QED
        BY <3>2, <4>1 DEF Ends
    <3>. QED
      BY <3>4, <3>5
  <2>7. ListsWhole(t, all)
    BY <1>1, <1>b, <1>c, <2>2, <2>4, <2>5, <2>6, NamesEnd
  <2>. QED
    BY <1>6, <2>7 DEF units, all
<1>. QED
  BY <1>7, <1>8

(* What a call of the worker of p leaves of the listings.                  *)
HandledNames(p) ==
    /\ Naming(ses'[p], rx'[p]) /\ ListsWhole(ses'[p], UnitsOf(rx'[p]))
    /\ \E n \in Nat : /\ unread'[p] = unread[p] + n
                      /\ Begun(UnitsOf(rx[p]), UnitsOf(rx'[p]), n)
    /\ \A q \in Peers \ {p} : unread'[q] = unread[q]
NamedFor(p) == Naming(ses[p], rx[p]) /\ ListsWhole(ses[p], Sent(p))

LEMMA NothingBegun ==
    ASSUME WireTypeOK, NEW p \in Peers, rx'[p] = rx[p], unread'[p] = unread[p]
    PROVE  \E n \in Nat : /\ unread'[p] = unread[p] + n
                          /\ Begun(UnitsOf(rx[p]), UnitsOf(rx'[p]), n)
<1>1. unread[p] \in Nat /\ rx[p] \in Seq(Reply)
  BY WireAssumption DEF WireTypeOK
<1>2. UnitsOf(rx[p]) \in Seq(Reply) /\ Len(UnitsOf(rx[p])) \in Nat
  BY <1>1, UnitsType
<1>3. unread'[p] = unread[p] + 0 /\ Begun(UnitsOf(rx[p]), UnitsOf(rx'[p]), 0)
  BY <1>1, <1>2 DEF Begun
<1>. QED
  BY <1>3

(* A call that sends nothing.                                              *)
LEMMA SilentNames ==
    ASSUME WireTypeOK, NEW p \in Peers, UNCHANGED <<rx, unread>>, NamedFor(p),
           ses[p].at \notin {"none", "close", "reply"} \/ ses'[p].at = "close",
           Naming(ses'[p], rx[p])
    PROVE  HandledNames(p)
<1>1. ListsWhole(ses'[p], UnitsOf(rx[p]))
  BY ClosedWhole, RestWhole DEF NamedFor, Sent
<1>2. \E n \in Nat : /\ unread'[p] = unread[p] + n
                     /\ Begun(UnitsOf(rx[p]), UnitsOf(rx'[p]), n)
  BY NothingBegun
<1>. QED
  BY <1>1, <1>2 DEF HandledNames

(* handle_list sends names.                                                *)
LEMMA ListedNames ==
    ASSUME NEW l \in Listings
    PROVE  Listed(l) \in Seq(SafeNames)
<1>1. Cardinality(Existing) \in Nat
  <2>1. IsFiniteSet(Existing)
    BY NamesAssumption, FS_Subset DEF Existing
  <2>. QED
    BY <2>1, FS_CardinalityType
<1>2. l \in [1 .. Cardinality(Existing) -> SafeNames]
  BY DEF Listings, Existing
<1>3. l \in Seq(SafeNames) /\ Len(l) \in Nat
  BY <1>1, <1>2, SeqDef, LenProperties
<1>4. MinOf(Len(l), ListCap) \in Nat /\ MinOf(Len(l), ListCap) <= Len(l)
  BY <1>3, PoolAssumption DEF MinOf
<1> DEFINE m == MinOf(Len(l), ListCap)
<1> HIDE DEF m
<1>5. \A i \in 1 .. m : l[i] \in SafeNames
  BY <1>3, <1>4, ElementOfSeq DEF m
<1>6. SubSeq(l, 1, m) \in Seq(SafeNames)
  BY <1>4, <1>5, SubSeqProperties DEF m
<1>. QED
  BY <1>6 DEF Listed, m

AnswersNames(t) ==
    /\ t.at = "reply" /\ t.out_sent = 0
    /\ t.out[1].cmd = "LIST" => t.out[1].body \in Seq(SafeNames)
LEMMA AnswersNaming ==
    ASSUME NEW t, NEW log, AnswersNames(t)
    PROVE  Naming(t, log)
<1>1. ~(t.out_sent > 0)
  BY DEF AnswersNames
<1>. QED
  BY <1>1 DEF AnswersNames, Naming

LEMMA OthersNaming ==
    ASSUME NEW t, NEW log, NEW cmd, cmd # "LIST", NEW status, NEW next,
           Answering(t, cmd, status, next)
    PROVE  Naming(t, log)
<1>1. AnswersNames(t)
  BY DEF Answering, AnswersNames
<1>. QED
  BY <1>1, AnswersNaming

LEMMA ReplyingNaming ==
    ASSUME NEW t, NEW log, NEW status, NEW len, NEW body, NEW next, NEW cmd,
           Replying(t, cmd, status, len, body, next),
           cmd = "LIST" => body \in Seq(SafeNames)
    PROVE  Naming(t, log)
<1>1. t.out[1].cmd = cmd /\ t.out[1].body = body
  BY DEF Replying
<1>2. AnswersNames(t)
  BY <1>1 DEF Replying, AnswersNames
<1>. QED
  BY <1>2, AnswersNaming

LEMMA DrainNaming ==
    ASSUME TypeInv, NEW p \in Peers, Drain(p)
    PROVE  Naming(ses'[p], rx[p])
<1> DEFINE s == ses[p]
           none == <<>>
<1>1. s \in Session /\ s.buf = <<>>
  BY WireFacts DEF Drain, At, LocalsFit
<1>2. {"LIST", "QUIT"} \subseteq Cmds \ {"GET", "OTHER"} /\ {"LIST", "OTHER"} \subseteq Cmds
  BY DEF Cmds
<1>3. none \in Seq(Byte) /\ none \in Seq(SafeNames)
  BY EmptySeq
<1>4. \/ \E l \in Listings : Goto(p, Succeed(s, "LIST", Listed(l), "header"))
      \/ Goto(p, Fail(s, "LIST", "close"))
      \/ Goto(p, Succeed(s, "QUIT", none, "close"))
      \/ Goto(p, Fail(s, "OTHER", "header"))
  BY DEF Drain, AfterQuit
<1> HIDE DEF s, none
<1>5. ASSUME NEW cmd \in {"LIST", "QUIT"}, NEW body \in Seq(Byte),
             cmd = "LIST" => body \in Seq(SafeNames), NEW next \in {"header", "close"},
             Goto(p, Succeed(s, cmd, body, next))
      PROVE  Naming(ses'[p], rx[p])
  <2>1. PICK t : t = Succeed(s, cmd, body, next)
    OBVIOUS
  <2>2. ses'[p] = t
    BY <1>5, <2>1, GotoIs
  <2>3. Replying(t, cmd, 0, Len(body), body, next)
    BY <1>1, <1>2, <1>5, <2>1, SucceedFits
  <2>. QED
    BY <1>5, <2>2, <2>3, ReplyingNaming
<1>6. ASSUME NEW cmd \in {"LIST", "OTHER"}, NEW next \in {"header", "close"},
             Goto(p, Fail(s, cmd, next))
      PROVE  Naming(ses'[p], rx[p])
  <2>1. PICK t : t = Fail(s, cmd, next)
    OBVIOUS
  <2>2. ses'[p] = t
    BY <1>6, <2>1, GotoIs
  <2>3. Replying(t, cmd, 1, 0, none, next)
    BY <1>1, <1>2, <1>6, <2>1, FailFits DEF none
  <2>. QED
    BY <1>3, <2>2, <2>3, ReplyingNaming
<1>7. ASSUME NEW l \in Listings
      PROVE  Listed(l) \in Seq(Byte) /\ Listed(l) \in Seq(SafeNames)
  BY ListedType, ListedNames
<1>. QED
  BY <1>3, <1>4, <1>5, <1>6, <1>7

(* The calls that read, and the one that reads a block of a file.          *)
LEMMA ReadsNaming ==
    ASSUME TypeInv, NEW p \in Peers, NamedFor(p), Reads(p) \/ GetRead(p)
    PROVE  Naming(ses'[p], rx[p]) /\ ses[p].at \notin {"none", "close", "reply"}
<1> DEFINE s == ses[p]
           t == ses'[p]
<1>1. ASSUME t.at \notin {"reply", "get_read", "get_send"}
      PROVE  Naming(t, rx[p])
  BY <1>1 DEF Naming
<1>2. CASE RecvHeader(p)
  <2>1. s.at = "header"
    BY <1>2, RecvHeaderDoes
  <2>2. \/ t.at = "close"
        \/ Heading(p).cmd # "LIST" /\ Answering(t, Heading(p).cmd, 1, "close")
        \/ t.at \in {"name", "drain"}
    BY <1>2, RecvHeaderDoes DEF BadName
  <2>. QED
    BY <1>1, <2>1, <2>2, OthersNaming
<1>3. CASE Drain(p)
  <2>1. s.at = "drain"
    BY <1>3, DrainDoes
  <2>. QED
    BY <1>3, <2>1, DrainNaming
<1>4. CASE RecvName(p)
  <2>1. s.at = "name" /\ s.cmd # "LIST"
    BY <1>4, RecvNameDoes, WireFacts DEF LocalsFit
  <2>2. \/ \E cmd, status, next : cmd # "LIST" /\ Answering(t, cmd, status, next)
        \/ t.at = "put_header"
    BY <1>4, <2>1, RecvNameDoes
  <2>. QED
    BY <1>1, <2>1, <2>2, OthersNaming
<1>5. CASE RecvPutHeader(p)
  <2>1. /\ s.at = "put_header"
        /\ t.at \in {"close", "put_data", "put_drain"} \/ Answering(t, "PUT", 1, "close")
    BY <1>5, RecvPutHeaderDoes
  <2>. QED
    BY <1>1, <2>1, OthersNaming
<1>6. CASE RecvPutData(p)
  <2>1. /\ s.at = "put_data"
        /\ \/ t.at \in {"close", "put_data"} \/ Answering(t, "PUT", 0, "header")
           \/ Answering(t, "PUT", 1, "close")
    BY <1>6, RecvPutDataDoes
  <2>. QED
    BY <1>1, <2>1, OthersNaming
<1>7. CASE DrainPut(p)
  <2>1. s.at = "put_drain" /\ (t.at = "close" \/ Answering(t, "PUT", 1, "close"))
    BY <1>7, DrainPutDoes
  <2>. QED
    BY <1>1, <2>1, OthersNaming
<1>8. CASE GetRead(p)
  <2>1. s.at = "get_read" /\ t.at \in {"get_send", "header", "close"}
    BY <1>8, GetReadDoes
  <2>2. rx[p] # <<>>
    BY <2>1 DEF NamedFor, Naming
  <2>3. Naming(t, rx[p])
    BY <2>1, <2>2 DEF Naming
  <2>. QED
    BY <2>1, <2>3
<1>. QED
  BY <1>2, <1>3, <1>4, <1>5, <1>6, <1>7, <1>8 DEF Reads

LEMMA ReadsNamed ==
    ASSUME TypeInv, NEW p \in Peers, NamedFor(p), Reads(p) \/ GetRead(p)
    PROVE  HandledNames(p)
<1>1. rx' = rx /\ unread' = unread
  BY DEF Reads, RecvHeader, Drain, RecvName, RecvPutHeader, RecvPutData, DrainPut,
         DrainPayload, RecvAll, RecvFails, GetRead, wireVars
<1>2. Naming(ses'[p], rx[p]) /\ ses[p].at \notin {"none", "close", "reply"}
  BY ReadsNaming
<1>. QED
  BY <1>1, <1>2, SilentNames DEF TypeInv, TypeOK

LEMMA GetSendNamed ==
    ASSUME TypeInv, NEW p \in Peers, NamedFor(p), GetSend(p)
    PROVE  HandledNames(p)
<1> DEFINE s == ses[p]
           t == ses'[p]
           log == rx[p]
           new == rx'[p]
           un == unread[p]
<1>0. WireTypeOK
  BY DEF TypeInv, TypeOK
<1>1. CASE SendFails(p)
  <2>1. rx' = rx /\ unread' = unread
    BY <1>1 DEF SendFails
  <2>2. t.at \in {"close", "get_read"} /\ s.at = "get_send"
    BY GetSendDoes
  <2>3. Naming(t, log)
    BY <2>2 DEF NamedFor, Naming
  <2>. QED
    BY <1>0, <2>1, <2>2, <2>3, SilentNames
<1>2. ASSUME ~SendFails(p)
      PROVE  HandledNames(p)
  <2>1. log \in Seq(Reply) /\ un \in Nat
    BY <1>0, WireAssumption DEF WireTypeOK
  <2>2. /\ s.at = "get_send" /\ s.buf \in Seq(Byte) /\ Len(s.buf) = 1
    BY GetSendDoes
  <2>3. rx' = [rx EXCEPT ![p] = Longer(rx[p], s.buf)]
    BY <1>2, BlockSent
  <2>4. unread' = [unread EXCEPT ![p] = @ + 1]
    BY <1>2 DEF GetSend
  <2>5. rx \in [Peers -> Seq(Reply)] /\ unread \in [Peers -> 0 .. SndBuf]
    BY <1>0 DEF WireTypeOK
  <2>6. new = Longer(log, s.buf)
    BY <2>3, <2>5
  <2>7. unread'[p] = un + 1 /\ \A q \in Peers \ {p} : unread'[q] = unread[q]
    BY <2>4, <2>5
  <2>8. t.at = "get_read" \/ t.at = "close"
    BY GetSendDoes
  <2>9. log # <<>> /\ ListsWhole(s, UnitsOf(log))
    BY <2>2 DEF NamedFor, Naming, Sent
  <2>10. AllEnd(UnitsOf(log))
    BY <2>2, <2>9, AllEnded
  <2>11. UnitsOf(log) \in Seq(Reply)
    BY <2>1, UnitsType
  <2>12. UnitsOf(new) = Units(UnitsOf(log), BlockUnits(s.buf))
    BY <2>1, <2>2, <2>6, <2>9, LongerUnits
  <2> HIDE DEF s, t, log, new, un
  <2>13. AllEnd(UnitsOf(new)) /\ Begun(UnitsOf(log), UnitsOf(new), 1)
    BY <2>2, <2>10, <2>11, <2>12, BlocksEnd, BlocksAdded
  <2>14. ListsWhole(t, UnitsOf(new))
    BY <2>13, EndedWhole
  <2>15. new # <<>>
    <3>1. PICK n : n = Len(s.buf)
      OBVIOUS
    <3>2. Carried(log, new, n)
      BY <2>1, <2>2, <2>6, <2>9, <3>1, CarriedOn
    <3>. QED
      BY <3>2 DEF Carried
  <2>16. Naming(t, new)
    BY <2>8, <2>15 DEF Naming
  <2>. QED
    BY <2>7, <2>13, <2>14, <2>16 DEF HandledNames, t, log, new, un
<1>. QED
  BY <1>1, <1>2

LEMMA SendReplyNamed ==
    ASSUME TypeInv, NEW p \in Peers, NamedFor(p), SendReply(p)
    PROVE  HandledNames(p)
<1> DEFINE s == ses[p]
           t == ses'[p]
           r == s.out[1]
           log == rx[p]
           new == rx'[p]
           un == unread[p]
<1>0. /\ WireTypeOK /\ s \in Session /\ LocalsFit(s) /\ s.at = "reply" /\ r \in Reply
      /\ s.out_sent \in Nat /\ s.out_sent <= Len(r.body) /\ Len(r.body) \in Nat
      /\ log \in Seq(Reply) /\ un \in Nat
  <2>1. s.at = "reply" /\ WireTypeOK
    BY DEF SendReply, At, TypeInv, TypeOK
  <2>. QED
    BY <2>1, WireFacts, ReplyHeld, WireAssumption DEF WireTypeOK
<1>1. CASE SendFails(p)
  <2>1. rx' = rx /\ unread' = unread
    BY <1>1 DEF SendFails
  <2>2. ListsWhole(s, UnitsOf(log))
    BY DEF NamedFor, Sent
  <2>3. t.at = "close" \/ (t.at = s.next /\ r.cmd = "OTHER")
    <3>1. Broken(p)
      BY <1>1 DEF SendFails, Broken
    <3>. QED
      BY <3>1, SendReplyDoes
  <2>4. \E n \in Nat : /\ unread'[p] = unread[p] + n
                       /\ Begun(UnitsOf(rx[p]), UnitsOf(rx'[p]), n)
    BY <1>0, <2>1, NothingBegun
  <2>5. CASE t.at = "close"
    <3>1. Naming(t, log)
      BY <2>5 DEF Naming
    <3>2. ListsWhole(t, UnitsOf(log))
      BY <2>2, <2>5, ClosedWhole
    <3>. QED
      BY <2>1, <2>4, <3>1, <3>2 DEF HandledNames
  <2>6. CASE t.at = s.next /\ r.cmd = "OTHER"
    <3>1. t.at \in {"header", "close"}
      BY <1>0, <2>6 DEF LocalsFit
    <3>2. AllEnd(UnitsOf(log))
      BY <1>0, <2>2, <2>6, AllEnded
    <3>3. Naming(t, log)
      BY <3>1 DEF Naming
    <3>. QED
      BY <2>1, <2>4, <3>2, <3>3, EndedWhole DEF HandledNames
  <2>. QED
    BY <2>3, <2>5, <2>6
<1>2. ASSUME ~SendFails(p)
      PROVE  HandledNames(p)
  <2>4. /\ Upto(p) \in Nat /\ s.out_sent < Upto(p) /\ Upto(p) <= Len(r.body) + 1
        /\ rx' = [rx EXCEPT ![p] = Extend(rx[p], r, s.out_sent, Upto(p))]
        /\ Goto(p, IF Upto(p) < Len(r.body) + 1 THEN PartOf(s, Upto(p)) ELSE Empties(s))
    BY <1>2, PartSent
  <2>5. unread' = [unread EXCEPT ![p] = @ + (Upto(p) - s.out_sent)]
    BY <1>2 DEF SendReply, Upto
  <2>6. rx \in [Peers -> Seq(Reply)] /\ unread \in [Peers -> 0 .. SndBuf]
    BY <1>0 DEF WireTypeOK
  <2>7. PICK upto \in Nat : upto = Upto(p)
    BY <2>4
  <2>8. s.out_sent < upto /\ upto <= Len(r.body) + 1 /\ new = Extend(log, r, s.out_sent, upto)
    BY <2>4, <2>6, <2>7
  <2>9. /\ unread'[p] = un + (upto - s.out_sent)
        /\ \A q \in Peers \ {p} : unread'[q] = unread[q]
    BY <2>5, <2>6, <2>7
  <2>10. SentUpto(s, upto, t)
    <3>1. t = IF upto < Len(r.body) + 1 THEN PartOf(s, upto) ELSE Empties(s)
      BY <2>4, <2>7, GotoIs
    <3>3. s.out[1] = r
      OBVIOUS
    <3> HIDE DEF s, t, r
    <3>4. CASE upto < Len(r.body) + 1
      <4>1. t = PartOf(s, upto)
        BY <3>1, <3>4
      <4>. QED
        BY <1>0, <3>3, <3>4, <4>1 DEF PartOf, Session, SentUpto
    <3>5. CASE ~(upto < Len(r.body) + 1)
      <4>1. t = Empties(s) /\ upto = Len(r.body) + 1
        BY <1>0, <2>8, <3>1, <3>5
      <4>. QED
        BY <1>0, <3>3, <4>1 DEF Empties, Session, SentUpto
    <3>. QED
      BY <3>4, <3>5
  <2>11. /\ Naming(s, log) /\ ListsWhole(s, UnitsOf(log))
    BY DEF NamedFor, Sent
  <2>12. PICK from \in Nat : from = s.out_sent
    BY <1>0
  <2>13. /\ Sends(s, r, from) /\ from < upto /\ upto <= Len(r.body) + 1
         /\ new = Extend(log, r, from, upto) /\ unread'[p] = un + (upto - from)
         /\ from > 0 => log # <<>>
    BY <1>0, <2>8, <2>9, <2>11, <2>12 DEF Sends, Naming
  <2> HIDE DEF s, t, r, log, new, un
  <2>14. ListsWhole(t, UnitsOf(new)) /\ Begun(UnitsOf(log), UnitsOf(new), upto - from)
    <3>1. CASE from = 0
      <4>1. 0 < upto /\ Sends(s, r, 0) /\ new = Extend(log, r, 0, upto) /\ upto - from = upto
        BY <2>13, <3>1
      <4>2. ListsWhole(t, UnitsOf(new)) /\ Begun(UnitsOf(log), UnitsOf(new), upto)
        BY <1>0, <2>10, <2>11, <2>13, <4>1, FirstPartWhole
      <4>. QED
        BY <4>1, <4>2
    <3>2. CASE from # 0
      <4>1. from > 0
        BY <3>2
      <4>. QED
        BY <1>0, <2>10, <2>11, <2>13, <4>1, NextPartWhole
    <3>. QED
      BY <3>1, <3>2
  <2>15. new # <<>>
    BY <1>0, <2>13, PartJoins DEF BegunWith, Carried
  <2>16. Naming(t, new)
    <3>1. t.at = "reply" => t.out = s.out
      BY <1>0, <2>10 DEF SentUpto, LocalsFit
    <3>. QED
      BY <1>0, <2>11, <2>15, <3>1 DEF Naming
  <2>17. upto - from \in Nat
    BY <2>13
  <2>. QED
    BY <2>9, <2>13, <2>14, <2>16, <2>17 DEF HandledNames, t, log, new, un
<1>. QED
  BY <1>1, <1>2

LEMMA HandlingNames ==
    ASSUME TypeInv, NEW p \in Peers, NamedFor(p), Handling(p)
    PROVE  HandledNames(p)
BY ReadsNamed, GetSendNamed, SendReplyNamed DEF Handling, Reads

-----------------------------------------------------------------------------
(* The types of both ends: what p is sent as a listing are names, and so   *)
(* is what its client shows.                                               *)
ListsNames(p) ==
    /\ NamedFor(p)
    /\ ReadsNames(cli[p], Sent(p), unread[p])
    /\ cli[p].op.shown \in Seq(SafeNames)
TogetherTyped == TypeInv /\ ClientsTyped /\ \A p \in Peers : ListsNames(p)

LEMMA SameNames ==
    ASSUME NEW q, rx'[q] = rx[q], unread'[q] = unread[q], ses'[q] = ses[q],
           cli'[q] = cli[q], ListsNames(q)
    PROVE  ListsNames(q)'
BY DEF ListsNames, NamedFor, Sent

(* A call of a worker.                                                     *)
LEMMA HandlingTyped ==
    ASSUME TogetherTyped, TypeInv', NEW p \in Peers, Handling(p), UNCHANGED cliVars
    PROVE  TogetherTyped'
<1>1. TypeInv /\ ClientsTyped /\ WireTypeOK /\ ListsNames(p)
  BY DEF TogetherTyped, TypeInv, TypeOK
<1>2. /\ cli' = cli /\ todo' = todo /\ local' = local
      /\ \A q \in Peers \ {p} : rx'[q] = rx[q] /\ ses'[q] = ses[q]
  BY <1>1, HandlingServes DEF Serves, WireStep, cliVars
<1>3. HandledNames(p)
  BY <1>1, HandlingNames DEF ListsNames
<1>4. PICK n \in Nat : /\ unread'[p] = unread[p] + n
                       /\ Begun(UnitsOf(rx[p]), UnitsOf(rx'[p]), n)
  BY <1>3 DEF HandledNames
<1>5. \A q \in Peers : /\ rx[q] \in Seq(Reply) /\ unread[q] \in Nat
                       /\ UnitsOf(rx[q]) \in Seq(Reply) /\ Len(UnitsOf(rx[q])) \in Nat
  BY <1>1, UnitsType, WireAssumption DEF WireTypeOK
<1>6. ASSUME NEW q \in Peers
      PROVE  unread'[q] <= Len(UnitsOf(rx'[q]))
  <2>1. unread[q] <= Len(UnitsOf(rx[q]))
    BY <1>1 DEF ClientsTyped, Sent
  <2>2. CASE q # p
    BY <1>2, <1>3, <2>1, <2>2 DEF HandledNames
  <2>3. CASE q = p
    <3> DEFINE a == unread[p]
               b == Len(UnitsOf(rx[p]))
    <3>1. a \in Nat /\ b \in Nat /\ a <= b
      BY <1>5, <2>1, <2>3
    <3> HIDE DEF a, b
    <3>2. a + n <= b + n
      BY <3>1
    <3>. QED
      BY <1>4, <2>3, <3>2 DEF Begun, a, b
  <2>. QED
    BY <2>2, <2>3
<1>7. ClientsTyped'
  BY <1>1, <1>2, <1>6 DEF ClientsTyped, Sent
<1>8. ListsNames(p)'
  <2>1. NamedFor(p)'
    BY <1>3 DEF HandledNames, NamedFor, Sent
  <2>2. ReadsNames(cli[p], UnitsOf(rx'[p]), unread[p] + n)
    BY <1>1, <1>4, <1>5, ReadsOn DEF ListsNames, Sent, ClientsTyped
  <2>. QED
    BY <1>1, <1>2, <1>4, <2>1, <2>2 DEF ListsNames, Sent
<1>9. ASSUME NEW q \in Peers, q # p
      PROVE  ListsNames(q)'
  <2>1. unread'[q] = unread[q]
    BY <1>3, <1>9 DEF HandledNames
  <2>. QED
    BY <1>2, <1>9, <2>1, SameNames DEF TogetherTyped
<1>. QED
  BY <1>7, <1>8, <1>9 DEF TogetherTyped

(* A session that ends or begins says nothing of what was sent before.     *)
LEMMA SessionNames ==
    ASSUME NEW q, rx' = rx, unread' = unread, cli' = cli, ListsNames(q),
           NamedFor(q)'
    PROVE  ListsNames(q)'
BY DEF ListsNames, Sent

LEMMA EndedNames ==
    ASSUME NEW q, rx' = rx, ses'[q].at = "none", NamedFor(q)
    PROVE  NamedFor(q)'
<1>1. ListsWhole(ses'[q], UnitsOf(rx'[q]))
  BY ClosedWhole DEF NamedFor, Sent
<1>. QED
  BY <1>1 DEF NamedFor, Naming, Sent

LEMMA CloseTyped ==
    ASSUME TogetherTyped, TypeInv', NEW p \in Peers, Close(p), UNCHANGED cliVars
    PROVE  TogetherTyped'
<1>1. TypeInv /\ ClientsTyped /\ ses \in [Peers -> Session]
  BY DEF TogetherTyped, TypeInv, TypeOK
<1>2. /\ rx' = rx /\ unread' = unread /\ cli' = cli /\ todo' = todo /\ local' = local
      /\ ses' = [ses EXCEPT ![p] = NoSession]
  BY DEF Close, wireVars, cliVars
<1>3. ClientsTyped'
  BY <1>1, <1>2 DEF ClientsTyped, Sent
<1>4. ASSUME NEW q \in Peers
      PROVE  ListsNames(q)'
  <2>1. CASE q # p
    <3>1. ses'[q] = ses[q]
      BY <1>1, <1>2, <2>1
    <3>. QED
      BY <1>2, <3>1, SameNames DEF TogetherTyped
  <2>2. CASE q = p
    <3>1. ses'[q].at = "none"
      BY <1>1, <1>2, <2>2 DEF NoSession
    <3>. QED
      BY <1>2, <3>1, EndedNames, SessionNames DEF TogetherTyped, ListsNames
  <2>. QED
    BY <2>1, <2>2
<1>. QED
  BY <1>3, <1>4 DEF TogetherTyped

LEMMA KilledTyped ==
    ASSUME TogetherTyped, TypeInv', NEW p \in Peers, KilledBySigpipe(p), UNCHANGED cliVars
    PROVE  TogetherTyped'
<1>1. /\ rx' = rx /\ unread' = unread /\ cli' = cli /\ todo' = todo /\ local' = local
      /\ ses' = [q \in Peers |-> NoSession]
  BY DEF KilledBySigpipe, cliVars
<1>2. ClientsTyped'
  BY <1>1 DEF TogetherTyped, ClientsTyped, Sent
<1>3. ASSUME NEW q \in Peers
      PROVE  ListsNames(q)'
  <2>1. ses'[q].at = "none"
    BY <1>1 DEF NoSession
  <2>. QED
    BY <1>1, <2>1, EndedNames, SessionNames DEF TogetherTyped, ListsNames
<1>. QED
  BY <1>2, <1>3 DEF TogetherTyped

(* A step that leaves sessions, logs and clients as they are.              *)
LEMMA QuietTyped ==
    ASSUME TogetherTyped, TypeInv', UNCHANGED cliVars, UNCHANGED <<rx, unread, ses>>
    PROVE  TogetherTyped'
<1>1. ClientsTyped'
  BY DEF TogetherTyped, ClientsTyped, cliVars, Sent
<1>2. ASSUME NEW q \in Peers
      PROVE  ListsNames(q)'
  BY SameNames DEF TogetherTyped, cliVars
<1>. QED
  BY <1>1, <1>2 DEF TogetherTyped

LEMMA StartTyped ==
    ASSUME TogetherTyped, TypeInv', Begin, UNCHANGED cliVars
    PROVE  TogetherTyped'
<1>1. /\ queue \in Seq(Peers) /\ Distinct(queue) /\ queue # <<>>
      /\ ses \in [Peers -> Session] /\ TypeInv /\ ClientsTyped
  BY DEF TogetherTyped, TypeInv, TypeOK, Placed, Begin, Pool!Start
<1>2. PICK p \in Peers : p = Head(queue)
  BY <1>1, HeadLeaves
<1>3. /\ rx' = rx /\ unread' = unread /\ cli' = cli /\ todo' = todo /\ local' = local
      /\ ses' = [ses EXCEPT ![p].at = "header"]
  BY <1>2 DEF Begin, wireVars, cliVars
<1>4. ClientsTyped'
  BY <1>1, <1>3 DEF ClientsTyped, Sent
<1>5. ASSUME NEW q \in Peers
      PROVE  ListsNames(q)'
  <2>1. CASE q # p
    <3>1. ses'[q] = ses[q]
      BY <1>1, <1>3, <2>1
    <3>. QED
      BY <1>3, <3>1, SameNames DEF TogetherTyped
  <2>2. CASE q = p
    <3>1. rx[p] = <<>>
      <4>1. p \in Elems(queue)
        BY <1>1, <1>2, HeadLeaves
      <4>. QED
        BY <1>1, <4>1 DEF TypeInv, Placed
    <3>2. ses'[p].at = "header"
      BY <1>1, <1>3 DEF Session
    <3>3. AllEnd(UnitsOf(rx[p]))
      BY <3>1, NothingSent DEF AllEnd
    <3>4. NamedFor(p)'
      BY <1>3, <3>2, <3>3, EndedWhole DEF NamedFor, Naming, Sent
    <3>. QED
      BY <1>3, <2>2, <3>4, SessionNames DEF TogetherTyped
  <2>. QED
    BY <2>1, <2>2
<1>. QED
  BY <1>4, <1>5 DEF TogetherTyped

LEMMA WorkerTyped ==
    ASSUME TogetherTyped, NEW p \in Peers, WorkerRuns(p)
    PROVE  TogetherTyped'
<1>1. Worker(p) /\ UNCHANGED cliVars
  BY DEF WorkerRuns
<1>2. TypeInv'
  BY <1>1, StepTypeInv DEF TogetherTyped, Next
<1>3. Handling(p) \/ Close(p) \/ KilledBySigpipe(p)
  BY <1>1 DEF Worker, Handling
<1>. QED
  BY <1>1, <1>2, <1>3, HandlingTyped, CloseTyped, KilledTyped

LEMMA ServerTyped ==
    ASSUME TogetherTyped, ServerRuns
    PROVE  TogetherTyped'
<1>1. (Accept \/ Begin) /\ UNCHANGED cliVars
  BY DEF ServerRuns
<1>2. TypeInv'
  BY <1>1, StepTypeInv DEF TogetherTyped, Next
<1>3. CASE Accept
  <2>1. UNCHANGED <<rx, unread, ses>>
    BY <1>3 DEF Accept
  <2>. QED
    BY <1>1, <1>2, <2>1, QuietTyped
<1>. QED
  BY <1>1, <1>2, <1>3, StartTyped

-----------------------------------------------------------------------------
(* What a client's step leaves of a listing.                               *)
ShowsNames(p) ==
    /\ ReadsNames(cli'[p], Sent(p), unread'[p])
    /\ cli'[p].op.shown \in Seq(SafeNames)
(* A command that ends shows what it has shown.                            *)
Stopped(c, d) == d.at # "body" /\ d.op.shown = c.op.shown

LEMMA ReportsStops ==
    ASSUME NEW c \in Process, NEW phase \in {"ok", "failed"}, NEW d,
           \/ d = Reports(c, phase) \/ d = [Reports(c, phase) EXCEPT !.told = TRUE]
           \/ d = Exited(c)
    PROVE  Stopped(c, d)
<1>1. c.op \in Command
  BY DEF Process
<1> DEFINE o == c.op
           op == [o EXCEPT !.phase = phase]
           at == IF o.cmd = "QUIT" THEN "closed" ELSE "prompt"
<1>2. op.shown = o.shown
  BY <1>1 DEF Command
<1>3. at # "body"
  OBVIOUS
<1>4. /\ Reports(c, phase) = [c EXCEPT !.at = at, !.op = op, !.out = <<>>, !.left = 0,
                                       !.drop = FALSE]
      /\ Exited(c) = [c EXCEPT !.at = "closed", !.out = <<>>, !.left = 0, !.drop = FALSE]
  BY DEF Reports, Exited, Process
<1> HIDE DEF op, at
<1>5. CASE d = Exited(c)
  BY <1>4, <1>5 DEF Stopped, Process
<1>6. CASE d = Reports(c, phase) \/ d = [Reports(c, phase) EXCEPT !.told = TRUE]
  <2>1. PICK r : r = Reports(c, phase)
    OBVIOUS
  <2>2. r \in Process /\ r.at = at /\ r.op = op
    <3>1. r \in Process
      BY <2>1, ReportsIs DEF Done
    <3>. QED
      BY <1>4, <2>1, <3>1 DEF Process
  <2>3. d.at = at /\ d.op = op
    BY <1>6, <2>1, <2>2 DEF Process
  <2>. QED
    BY <1>2, <1>3, <2>3 DEF Stopped
<1>. QED
  BY <1>5, <1>6

LEMMA StoppedShows ==
    ASSUME ClientsTyped, NEW p \in Peers, ListsNames(p), NEW d,
           cli' = [cli EXCEPT ![p] = d], d.at # "body",
           d.op.shown \in {cli[p].op.shown, <<>>}
    PROVE  ShowsNames(p)
<1>1. cli'[p] = d
  BY DEF ClientsTyped
<1>2. d.op.shown \in Seq(SafeNames)
  BY EmptySeq DEF ListsNames
<1>. QED
  BY <1>1, <1>2 DEF ShowsNames, ReadsNames

LEMMA EndsShowing ==
    ASSUME ClientsTyped, NEW p \in Peers, ListsNames(p),
           NEW phase \in {"ok", "failed"}, NEW d,
           \/ d = Reports(cli[p], phase)
           \/ d = [Reports(cli[p], phase) EXCEPT !.told = TRUE]
           \/ d = Exited(cli[p]),
           cli' = [cli EXCEPT ![p] = d]
    PROVE  ShowsNames(p)
<1>1. Stopped(cli[p], d)
  BY ReportsStops, ClientFacts
<1>. QED
  BY <1>1, StoppedShows DEF Stopped

LEMMA QuietShows ==
    ASSUME ClientsTyped, NEW p \in Peers, ListsNames(p), cli' = cli,
           unread'[p] = unread[p] \/ cli[p].at # "body"
    PROVE  ShowsNames(p)
BY DEF ListsNames, ShowsNames, ReadsNames

(* Types, with the process that it leaves.                                 *)
LEMMA TypesShows ==
    ASSUME ClientsTyped, NEW p \in Peers, ListsNames(p), Types(p)
    PROVE  ShowsNames(p)
<1> DEFINE c == cli[p]
           line == Head(todo[p])
           op == Running(line)
           out == Messages(p, line)
           failed == Behind(c, Phased(op, "failed"))
<1>1. c.at = "prompt" /\ c \in Process
  BY ClientFacts DEF Types, ClientAt
<1>2. \/ cli' = cli
      \/ cli' = [cli EXCEPT ![p] = ToSend(c, op, out)]
      \/ cli' = [cli EXCEPT ![p] = failed]
  BY DEF Types, ToSend, Behind, Running, Phased
<1>3. op.shown = <<>> /\ Phased(op, "failed").shown = <<>>
  BY DEF Running, Phased
<1> HIDE DEF c, op, out
<1>4. ToSend(c, op, out).at = "send" /\ ToSend(c, op, out).op = op
  BY <1>1 DEF ToSend, Process
<1>5. failed.at = "prompt" /\ failed.op.shown = <<>>
  <2> DEFINE o == Phased(op, "failed")
  <2>1. o.shown = <<>> /\ failed = Behind(c, o)
    BY <1>3
  <2> HIDE DEF o, failed
  <2>. QED
    BY <1>1, <2>1 DEF Behind, Process
<1> HIDE DEF failed
<1>6. CASE cli' = cli
  BY <1>1, <1>6, QuietShows DEF c
<1>7. CASE cli' = [cli EXCEPT ![p] = ToSend(c, op, out)]
  BY <1>3, <1>4, <1>7, StoppedShows
<1>8. CASE cli' = [cli EXCEPT ![p] = failed]
  BY <1>5, <1>8, StoppedShows
<1>. QED
  BY <1>2, <1>6, <1>7, <1>8

LEMMA TransmitsShows ==
    ASSUME ClientsTyped, NEW p \in Peers, ListsNames(p), Transmits(p)
    PROVE  ShowsNames(p)
<1> DEFINE c == cli[p]
           n == MinOf(Room(p), Len(c.out))
           rest == OtherUnits(c.out, n)
           d == Shorter(c, rest)
<1>1. c.at = "send" /\ c \in Process
  BY ClientFacts DEF Transmits, ClientAt
<1>2. cli' = [cli EXCEPT ![p] = d]
  BY DEF Transmits, Becomes, Shorter, OtherUnits
<1> HIDE DEF c, rest
<1>3. d.at \in {"send", "recv"} /\ d.op = c.op
  BY <1>1 DEF Shorter, Process
<1> HIDE DEF d
<1>. QED
  BY <1>2, <1>3, StoppedShows DEF c

LEMMA ConnectsShows ==
    ASSUME ClientsTyped, NEW p \in Peers, ListsNames(p), NEW up, Connects(p, up)
    PROVE  ShowsNames(p)
<1> DEFINE c == cli[p]
           d == [c EXCEPT !.at = "prompt"]
<1>1. c \in Process
  BY ClientFacts
<1>2. cli' = [cli EXCEPT ![p] = d] \/ cli' = [cli EXCEPT ![p] = Exited(c)]
  BY DEF Connects, Becomes
<1>3. d.at = "prompt" /\ d.op = c.op
  BY <1>1 DEF Process
<1> HIDE DEF d
<1>. QED
  BY <1>2, <1>3, StoppedShows, EndsShowing

(* recv_header: a listing that is granted has its names before it.         *)
LEMMA RecvReplyShows ==
    ASSUME WireTypeOK, ClientsTyped, NEW p \in Peers, ListsNames(p), RecvReply(p)
    PROVE  ShowsNames(p)
<1> DEFINE b == cli[p]
           u == NextUnit(p)
           c == BodyNext(b, u.length)
           un == unread[p]
           units == Sent(p)
           j == Len(units) - un + 1
<1>1. b.at = "recv" /\ TakesUnit(p)
  BY DEF RecvReply, ClientAt
<1>2. un \in Nat /\ un > 0 /\ unread'[p] = un - 1
  BY <1>1, TakesUnitIs
<1>3. b \in Process /\ u \in Reply /\ u.length \in Nat
  BY <1>2, ClientFacts, NextUnitIs DEF Reply
<1>4. /\ c.at = "body" /\ c.op = b.op /\ c.left = u.length /\ c \in Process
  <2> DEFINE n == u.length
  <2>1. c = BodyNext(b, n) /\ n \in Nat
    BY <1>3
  <2> HIDE DEF b, c, n
  <2>2. b \in Process
    BY <1>3
  <2>3. c.at = "body" /\ c.op = b.op /\ c.left = n /\ c \in Process
    BY <2>1, <2>2 DEF BodyNext, Process
  <2>. QED
    BY <2>3 DEF n
<1>5. \/ cli' = [cli EXCEPT ![p] = Reports(c, "failed")]
      \/ c.op.cmd = "GET" /\ cli' = [cli EXCEPT ![p] = ReadPast(c)]
      \/ c.op.cmd = "GET" /\ cli' = [cli EXCEPT ![p] = c]
      \/ Granted(c, u) /\ c.op.cmd = "LIST" /\ cli' = [cli EXCEPT ![p] = c]
      \/ cli' = [cli EXCEPT ![p] = Reports(c, "ok")]
  BY DEF RecvReply, BodyNext, Becomes, GetBegins
<1> HIDE DEF c
<1>6. CASE cli' = [cli EXCEPT ![p] = Reports(c, "failed")]
           \/ cli' = [cli EXCEPT ![p] = Reports(c, "ok")]
  <2>1. Stopped(c, Reports(c, "failed")) /\ Stopped(c, Reports(c, "ok"))
    BY <1>4, ReportsStops
  <2>. QED
    BY <1>4, <1>6, <2>1, StoppedShows DEF Stopped
<1>7. ASSUME NEW d, d.op = b.op, b.op.cmd = "GET", cli' = [cli EXCEPT ![p] = d]
      PROVE  ShowsNames(p)
  <2>1. cli'[p] = d
    BY <1>7 DEF ClientsTyped
  <2>. QED
    BY <1>7, <2>1 DEF ListsNames, ShowsNames, ReadsNames
<1>8. ReadPast(c).op = c.op
  BY <1>4 DEF ReadPast, Process
<1>9. CASE Granted(c, u) /\ c.op.cmd = "LIST" /\ cli' = [cli EXCEPT ![p] = c]
  <2>1. cli'[p] = c
    BY <1>9 DEF ClientsTyped
  <2>2. units \in Seq(Reply) /\ Len(units) \in Nat
    BY UnitsType DEF WireTypeOK, Sent
  <2>3. un <= Len(units)
    BY ClientFacts
  <2>4. u = units[j]
    BY DEF NextUnit
  <2>5. Lists(u)
    BY <1>9 DEF Granted, Lists
  <2> DEFINE k == Len(units)
             new == unread'[p]
  <2>6. j = k - un + 1 /\ k \in Nat /\ un <= k /\ new = un - 1
    BY <1>2, <2>2, <2>3
  <2> HIDE DEF j, un, k, new
  <2>7. j \in 1 .. k /\ j + new <= k /\ k + u.length = j + u.length + new
    BY <1>2, <1>3, <2>6
  <2>8. ReadsNames(c, units, new)
    BY <1>4, <2>4, <2>5, <2>7 DEF ReadsNames, k
  <2>. QED
    BY <1>4, <2>1, <2>8 DEF ListsNames, ShowsNames, new
<1>. QED
  BY <1>4, <1>5, <1>6, <1>7, <1>8, <1>9

(* recv_all: what is shown of a listing is one of its names.               *)
LEMMA RecvBodyShows ==
    ASSUME WireTypeOK, ClientsTyped, NEW p \in Peers, ListsNames(p), RecvBody(p)
    PROVE  ShowsNames(p)
<1> DEFINE b == cli[p]
           byte == ByteOf(NextUnit(p))
           c == Less(b)
           un == unread[p]
           new == unread'[p]
           units == Sent(p)
<1>1. b.at = "body" /\ c.left + 1 > 0 /\ TakesUnit(p)
  BY DEF RecvBody, ClientAt, Less
<1>2. un \in Nat /\ un > 0 /\ new = un - 1
  BY <1>1, TakesUnitIs
<1>3. b \in Process /\ Between(b) /\ b.left \in Nat /\ b.op \in Command
  BY ClientFacts DEF Process
<1>4. c.left = b.left - 1 /\ c.op = b.op /\ c.at = b.at
  BY <1>3 DEF Less, Process
<1>5. b.left > 0
  BY <1>1, <1>3, <1>4
<1>6. c \in Process /\ c.op.cmd = b.op.cmd /\ c.op.shown = b.op.shown
  <2>1. c = Less(b)
    OBVIOUS
  <2> HIDE DEF b, c
  <2>. QED
    BY <1>1, <1>3, <1>4, <1>5, <2>1, LessIs
<1>7. \/ b.op.cmd = "LIST" /\ cli' = [cli EXCEPT ![p] = Shows(c, byte)]
      \/ b.op.cmd = "GET" /\ cli' = [cli EXCEPT ![p] = c]
  <2>1. \/ c.op.cmd = "LIST" /\ cli' = [cli EXCEPT ![p] = Shows(c, byte)]
        \/ c.op.cmd = "GET" /\ cli' = [cli EXCEPT ![p] = c]
    BY DEF RecvBody, Less, Becomes, Shows
  <2>. QED
    BY <1>6, <2>1
<1> HIDE DEF c
<1>8. CASE b.op.cmd = "GET" /\ cli' = [cli EXCEPT ![p] = c]
  <2>1. cli'[p] = c
    BY <1>8 DEF ClientsTyped
  <2>. QED
    BY <1>6, <1>8, <2>1 DEF ListsNames, ShowsNames, ReadsNames
<1>9. CASE b.op.cmd = "LIST" /\ cli' = [cli EXCEPT ![p] = Shows(c, byte)]
  <2> DEFINE d == Shows(c, byte)
             l == b.left
  <2>1. cli'[p] = d
    BY <1>9 DEF ClientsTyped
  <2>2. units \in Seq(Reply) /\ Len(units) \in Nat /\ NamedFor(p)
    BY UnitsType DEF WireTypeOK, Sent, ListsNames
  <2>3. PICK j \in 1 .. Len(units) :
            /\ Lists(units[j]) /\ j + un <= Len(units)
            /\ Len(units) + l = j + units[j].length + un
    BY <1>1, <1>9 DEF ListsNames, ReadsNames
  <2>4. units[j].length \in Nat
    <3>1. units[j] \in Reply
      BY <2>2, <2>3, ElementOfSeq
    <3>. QED
      BY <3>1 DEF Reply
  <2> DEFINE m == units[j].length
             k == Len(units)
             i == k - un + 1
  <2>5. m \in Nat /\ k \in Nat /\ j \in 1 .. k /\ j + un <= k /\ k + l = j + m + un
        /\ i = k - un + 1 /\ l \in Nat /\ l > 0
    BY <1>3, <1>5, <2>2, <2>3, <2>4
  <2>6. NamesAfter(units, j)
    BY <2>2, <2>3 DEF NamedFor, ListsWhole
  <2>7. byte = ByteOf(units[i])
    BY DEF NextUnit
  <2> HIDE DEF b, l, un, new, m, k, i, byte, units, d
  <2>8. i \in 1 .. k /\ j < i /\ i <= j + m
    BY <1>2, <2>5
  <2>9. byte \in SafeNames
    BY <2>6, <2>7, <2>8 DEF NamesAfter, m, k
  <2>10. j + new <= k /\ k + (l - 1) = j + m + new
    BY <1>2, <2>5
  <2>11. d.at = c.at /\ d.left = l - 1 /\ d.op.cmd = b.op.cmd
         /\ d.op.shown = Append(b.op.shown, byte)
    <3> DEFINE o == c.op
               op == [o EXCEPT !.shown = Append(@, byte)]
    <3>1. o \in Command /\ d = [c EXCEPT !.op = op]
      BY <1>6 DEF d, Shows, Process
    <3>2. op.cmd = o.cmd /\ op.shown = Append(o.shown, byte)
      BY <3>1 DEF Command
    <3> HIDE DEF op
    <3>3. d.at = c.at /\ d.left = c.left /\ d.op = op
      BY <1>6, <3>1 DEF Process
    <3>. QED
      BY <1>4, <1>6, <3>2, <3>3 DEF l
  <2>12. b.op.shown \in Seq(SafeNames)
    BY DEF ListsNames, b
  <2>13. d.op.shown \in Seq(SafeNames)
    BY <2>9, <2>11, <2>12, AppendProperties
  <2>14. ReadsNames(d, units, new)
    <3>1. /\ Lists(units[j]) /\ j + new <= Len(units)
          /\ Len(units) + d.left = j + units[j].length + new
      BY <2>3, <2>10, <2>11 DEF k, m
    <3>. QED
      BY <2>3, <3>1 DEF ReadsNames
  <2>. QED
    BY <2>1, <2>13, <2>14 DEF ShowsNames, new, units
<1>. QED
  BY <1>7, <1>8, <1>9

LEMMA UserShows ==
    ASSUME WireTypeOK, ClientsTyped, NEW p \in Peers, ListsNames(p),
           UserRuns(p) \/ UserBreaks(p)
    PROVE  ShowsNames(p)
<1>1. CASE \/ InputEnds(p) \/ BodyEnds(p) \/ TransmitFails(p, Attached(p))
           \/ NoReply(p, Attached(p)) \/ DiskFails(p) \/ Killed(p)
  <2>1. \E phase \in {"ok", "failed"} : \E d :
           /\ \/ d = Reports(cli[p], phase)
              \/ d = [Reports(cli[p], phase) EXCEPT !.told = TRUE]
              \/ d = Exited(cli[p])
           /\ cli' = [cli EXCEPT ![p] = d]
    BY <1>1 DEF InputEnds, BodyEnds, TransmitFails, NoReply, DiskFails, Killed, Becomes
  <2>. QED
    BY <2>1, EndsShowing
<1>2. CASE CloseArrives(p, Attached(p))
  BY <1>2, QuietShows DEF CloseArrives, cliVars
<1>3. CASE Connects(p, running) \/ Types(p) \/ Transmits(p) \/ RecvReply(p) \/ RecvBody(p)
  BY <1>3, ConnectsShows, TypesShows, TransmitsShows, RecvReplyShows, RecvBodyShows
<1>. QED
  BY <1>1, <1>2, <1>3 DEF UserRuns, UserBreaks, ClientRuns, ClientBreaks

(* The client that asks for its connection.                                *)
LEMMA BeginTyped ==
    ASSUME TypeInv, NEW p \in Peers, Begins(p, running), UNCHANGED serverVars
    PROVE  TypeInv'
<1>1. PeerConnects(p)
  BY DEF Begins, PeerConnects
<1>. QED
  BY <1>1, StepTypeInv DEF Peer, Next

LEMMA UserTyped ==
    ASSUME TogetherTyped, NEW p \in Peers, UserRuns(p) \/ UserBreaks(p)
    PROVE  TogetherTyped'
<1>1. TypeInv /\ ClientsTyped /\ WireTypeOK /\ ListsNames(p)
  BY DEF TogetherTyped, TypeInv, TypeOK
<1>2. UNCHANGED serverVars /\ ses' = ses
  BY DEF UserRuns, UserBreaks, serverVars
<1>3. ShowsNames(p)
  BY <1>1, UserShows
<1>4. (EndStep(p) /\ OwnStep(p)) \/ Begins(p, running)
  <2>1. CASE ClientRuns(p, Attached(p), running)
    BY <1>1, <2>1, ConnectsIs, TypesIs, InputEndsIs, TransmitsIs, TransmitFailsIs,
       RecvReplyIs, RecvBodyIs, BodyEndsIs, NoReplyIs, CloseArrivesIs
       DEF ClientRuns, StepIs, GivenUp
  <2>2. CASE DiskFails(p) \/ Killed(p)
    BY <1>1, <2>2, DiskFailsIs, KilledIs DEF GivenUp
  <2>. QED
    BY <2>1, <2>2 DEF UserRuns, UserBreaks, ClientBreaks
<1>5. /\ TypeInv' /\ ClientsTyped' /\ rx' = rx
      /\ \A q \in Peers \ {p} : cli'[q] = cli[q] /\ unread'[q] = unread[q]
  <2>1. CASE EndStep(p) /\ OwnStep(p)
    <3>1. TypeInv' /\ ClientsTyped'
      BY <1>1, <1>2, <2>1, EndStepTyped, StepTyped
    <3>2. \A q \in Peers \ {p} : cli'[q] = cli[q]
      BY <1>1, <2>1, LeftTyped DEF OwnStep
    <3>. QED
      BY <2>1, <3>1, <3>2 DEF EndStep
  <2>2. CASE Begins(p, running)
    <3>1. TypeInv' /\ ClientsTyped'
      BY <1>1, <1>2, <2>2, BeginTyped DEF Begins
    <3>2. rx' = rx /\ unread' = unread
      BY <2>2 DEF Begins, Connect
    <3>3. \E d : cli' = [cli EXCEPT ![p] = d]
      BY <2>2 DEF UserRuns, UserBreaks, Begins, ClientRuns, ClientBreaks, Connects, Becomes,
         Types, InputEnds, Transmits, TransmitFails, RecvReply, RecvBody, BodyEnds, NoReply,
         CloseArrives, DiskFails, Killed, ClientAt
    <3>. QED
      BY <1>1, <3>1, <3>2, <3>3 DEF ClientsTyped
  <2>. QED
    BY <1>4, <2>1, <2>2
<1>6. ListsNames(p)'
  BY <1>1, <1>2, <1>3, <1>5 DEF ListsNames, ShowsNames, NamedFor, Sent
<1>7. ASSUME NEW q \in Peers, q # p
      PROVE  ListsNames(q)'
  BY <1>2, <1>5, <1>7, SameNames DEF TogetherTyped
<1>. QED
  BY <1>5, <1>6, <1>7 DEF TogetherTyped

-----------------------------------------------------------------------------
(* The invariant of the types of both ends.                                *)
LEMMA TogetherInitTyped ==
    ASSUME TogetherInit
    PROVE  TogetherTyped
<1>1. Init /\ WireInit /\ ClientInit
  BY DEF TogetherInit, Init
<1>2. TypeInv
  BY <1>1, InitTypeInv
<1>3. /\ cli = [p \in Peers |-> NoClient]
      /\ todo \in [Peers -> Seq(Lines)] /\ local \in [Peers -> [Names -> File]]
  <2>1. /\ \A p \in Peers : todo[p] \in Scripts[p] /\ local[p] \in LocalDirectories[p]
        /\ todo = [p \in Peers |-> todo[p]] /\ local = [p \in Peers |-> local[p]]
    BY <1>1 DEF ClientInit
  <2>. QED
    BY <1>1, <2>1, ScriptsAssumption, LocalAssumption DEF ClientInit
<1>4. ASSUME NEW p \in Peers
      PROVE  /\ cli[p] = NoClient /\ unread[p] = 0 /\ rx[p] = <<>> /\ ses[p] = NoSession
             /\ Sent(p) = <<>>
  BY <1>1, <1>3, NothingSent DEF WireInit, Init, Sent
<1>5. ClientsTyped
  BY <1>3, <1>4, NoClientTyped DEF ClientsTyped
<1>6. ASSUME NEW p \in Peers
      PROVE  ListsNames(p)
  <2>1. Naming(ses[p], rx[p])
    BY <1>4 DEF NoSession, Naming
  <2>2. ListsWhole(ses[p], Sent(p))
    BY <1>4 DEF ListsWhole
  <2>3. cli[p].at = "connect" /\ cli[p].op.shown = <<>>
    <3> DEFINE op == [cmd |-> "OTHER", name |-> "", had |-> {}, shown |-> <<>>,
                      phase |-> "idle"]
    <3>1. op.shown = <<>>
      OBVIOUS
    <3>2. NoClient.op = op
      BY DEF NoClient
    <3> HIDE DEF op
    <3>3. NoClient.op.shown = <<>>
      BY <3>1, <3>2
    <3>. QED
      BY <1>4, <3>3, NoClientTyped
  <2>. QED
    BY <2>1, <2>2, <2>3, EmptySeq DEF ListsNames, NamedFor, ReadsNames
<1>. QED
  BY <1>2, <1>5, <1>6 DEF TogetherTyped

LEMMA TogetherStepTyped ==
    ASSUME TogetherTyped, [TogetherNext]_allVars
    PROVE  TogetherTyped'
<1>1. ASSUME NEW p \in Peers, Arrives(p)
      PROVE  TogetherTyped'
  <2>1. TypeInv'
    BY <1>1, StepTypeInv DEF TogetherTyped, Arrives, Peer, Next
  <2>2. UNCHANGED cliVars /\ UNCHANGED <<rx, unread, ses>>
    BY <1>1 DEF Arrives, PeerSends, Send, serverVars
  <2>. QED
    BY <2>1, <2>2, QuietTyped
<1>2. CASE UNCHANGED allVars
  <2>1. UNCHANGED vars /\ UNCHANGED cliVars /\ UNCHANGED <<rx, unread, ses>>
    BY <1>2 DEF allVars, vars, wireVars, serverVars
  <2>2. TypeInv'
    BY <2>1, StepTypeInv DEF TogetherTyped
  <2>. QED
    BY <2>1, <2>2, QuietTyped
<1>. QED
  BY <1>1, <1>2, ServerTyped, WorkerTyped, UserTyped DEF TogetherNext, Runs

(* What a client shows as a listing are names that is_safe_filename takes, *)
(* and never the bytes of a file or of another reply: handle_list sends    *)
(* names only, recv_header and recv_all of the client read a listing from  *)
(* the header that granted it, and an upload, a download or a failed       *)
(* command before it leaves no byte for it.  With the types of both ends,  *)
(* whatever calls fail and whoever is killed.                              *)
THEOREM TogetherTypes == Together => []TogetherTypeOK
<1>1. TogetherInit => TogetherTyped
  BY TogetherInitTyped
<1>2. TogetherTyped /\ [TogetherNext]_allVars => TogetherTyped'
  BY TogetherStepTyped
<1>3. TogetherTyped => TogetherTypeOK
  <2>1. SUFFICES ASSUME TogetherTyped PROVE TogetherTypeOK
    OBVIOUS
  <2>2. TypeOK /\ todo \in [Peers -> Seq(Lines)] /\ local \in [Peers -> [Names -> File]]
    BY <2>1 DEF TogetherTyped, TypeInv, ClientsTyped
  <2>3. ASSUME NEW p \in Peers, NEW c, c = cli[p]
        PROVE  /\ c.at \in {"connect", "prompt", "send", "recv", "body", "closed"}
               /\ c.out \in Seq(Unit) /\ (c.out # <<>> <=> c.at = "send")
               /\ c.left \in Nat /\ (c.left > 0 => c.at = "body")
               /\ c.drop => c.at = "body" /\ c.op.cmd = "GET"
               /\ c.op.shown \in Seq(SafeNames) /\ c.op.had \subseteq SafeNames
               /\ c.at \in {"send", "recv", "body"} => c.op.phase = "running"
               /\ c.at \in {"connect", "prompt"} => c.op.phase # "running"
    <3>1. c \in Process /\ Between(c) /\ c.op.shown \in Seq(SafeNames)
      BY <2>1, <2>3, ClientFacts DEF TogetherTyped, ListsNames
    <3>2. c.op \in Command
      BY <3>1 DEF Process
    <3>3. c.op.had \subseteq SafeNames
      BY <3>2 DEF Command
    <3>. QED
      BY <3>1, <3>3 DEF Process, Between
  <2>. QED
    BY <2>2, <2>3 DEF TogetherTypeOK, ClientTypeOK
<1>. QED
  BY <1>1, <1>2, <1>3, PTL DEF Together

=============================================================================
