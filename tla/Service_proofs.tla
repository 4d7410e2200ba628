---------------------------- MODULE Service_proofs ----------------------------
(***************************************************************************)
(* Facts about the operators of Wire and about the replies sent to a peer, *)
(* which the proofs about the clients and both servers rest on.            *)
(***************************************************************************)
EXTENDS Service, TLAPS, FiniteSetTheorems, SequenceTheorems, WellFoundedInduction

(* A set of natural numbers that has a member has a least one.             *)
LEMMA LeastNatural ==
    ASSUME NEW T \in SUBSET Nat, T # {}
    PROVE  \E n \in T : \A m \in T : n <= m
<1> DEFINE R == OpToRel(<, Nat)
<1>1. IsWellFoundedOn(R, Nat)
  BY NatLessThanWellFounded
<1>2. \A x, y \in Nat : <<x, y>> \in R <=> x < y
  BY DEF OpToRel
<1> HIDE DEF R
<1>3. PICK n \in T : \A m \in T : ~(<<m, n>> \in R)
  BY <1>1, WFMin
<1>4. ASSUME NEW m \in T PROVE n <= m
  <2>1. m \in Nat /\ n \in Nat
    OBVIOUS
  <2>2. ~(m < n)
    BY <2>1, <1>2, <1>3
  <2>. QED
    BY <2>1, <2>2
<1>. QED
  BY <1>4

(* What lies between what was received and what was sent has arrived.      *)
LEMMA UnitsArrived ==
    ASSUME WireTypeOK, NEW p \in Peers, NEW n \in Nat, n <= sent[p] - rcvd[p]
    PROVE  /\ SubSeq(stream[p], rcvd[p] + 1, rcvd[p] + n) \in Seq(Unit)
           /\ Len(SubSeq(stream[p], rcvd[p] + 1, rcvd[p] + n)) = n
<1>1. /\ stream[p] \in Seq(Unit) /\ rcvd[p] \in Nat /\ sent[p] \in Nat
      /\ rcvd[p] + n <= Len(stream[p]) /\ Len(stream[p]) \in Nat
  BY LenProperties DEF WireTypeOK
<1>2. \A i \in rcvd[p] + 1 .. rcvd[p] + n : stream[p][i] \in Unit
  BY <1>1, ElementOfSeq
<1>. QED
  BY <1>1, <1>2, SubSeqProperties

(* The bytes of units.                                                     *)
LEMMA BytesType ==
    ASSUME NEW units \in Seq(Unit)
    PROVE  /\ Bytes(units) \in Seq(Byte)
           /\ Len(Bytes(units)) = Len(units)
           /\ \A i \in 1 .. Len(units) : Bytes(units)[i] = units[i].byte
<1>1. Len(units) \in Nat /\ DOMAIN units = 1 .. Len(units)
  BY LenProperties
<1>2. ASSUME NEW i \in 1 .. Len(units) PROVE units[i].byte \in Byte
  <2>1. units[i] \in Unit
    BY ElementOfSeq
  <2>. QED
    BY <2>1 DEF Unit
<1>3. Bytes(units) = [i \in 1 .. Len(units) |-> units[i].byte]
  BY <1>1 DEF Bytes
<1>4. Bytes(units) \in [1 .. Len(units) -> Byte]
  BY <1>2, <1>3
<1>5. Bytes(units) \in Seq(Byte)
  BY <1>1, <1>4, SeqDef
<1>6. Len(Bytes(units)) = Len(units)
  BY <1>1, <1>3, <1>5, LenProperties
<1>. QED
  BY <1>3, <1>5, <1>6

(* write puts its bytes at the offset, keeps what lies outside of them and *)
(* fills a gap with zeroes.                                                *)
LEMMA WriteAtProperties ==
    ASSUME NEW data \in Seq(Byte), NEW off \in Nat, NEW bytes \in Seq(Byte)
    PROVE  /\ WriteAt(data, off, bytes) \in Seq(Byte)
           /\ Len(WriteAt(data, off, bytes)) = MaxOf(Len(data), off + Len(bytes))
           /\ \A i \in 1 .. MaxOf(Len(data), off + Len(bytes)) :
                 WriteAt(data, off, bytes)[i] =
                    IF i \in off + 1 .. off + Len(bytes) THEN bytes[i - off]
                    ELSE IF i <= Len(data) THEN data[i] ELSE NULL
<1> DEFINE n == MaxOf(Len(data), off + Len(bytes))
           w == WriteAt(data, off, bytes)
<1>1. Len(data) \in Nat /\ Len(bytes) \in Nat /\ n \in Nat
      /\ Len(data) <= n /\ off + Len(bytes) <= n
  BY LenProperties DEF MaxOf
<1>2. NULL \in Byte
  BY DEF Byte
<1> HIDE DEF n
<1>3. w = [i \in 1 .. n |->
              IF i \in off + 1 .. off + Len(bytes) THEN bytes[i - off]
              ELSE IF i <= Len(data) THEN data[i] ELSE NULL]
  BY DEF WriteAt, n
<1>4. ASSUME NEW i \in 1 .. n PROVE w[i] \in Byte
  <2>1. CASE i \in off + 1 .. off + Len(bytes)
    <3>1. i - off \in 1 .. Len(bytes)
      BY <1>1, <2>1
    <3>2. bytes[i - off] \in Byte
      BY <3>1, ElementOfSeq
    <3>. QED
      BY <1>3, <2>1, <3>2
  <2>2. CASE i \notin off + 1 .. off + Len(bytes) /\ i <= Len(data)
    <3>1. data[i] \in Byte
      BY <1>1, <2>2, ElementOfSeq
    <3>. QED
      BY <1>3, <2>2, <3>1
  <2>3. CASE i \notin off + 1 .. off + Len(bytes) /\ ~(i <= Len(data))
    BY <1>2, <1>3, <2>3
  <2>. QED
    BY <2>1, <2>2, <2>3
<1>5. w \in Seq(Byte)
  BY <1>1, <1>3, <1>4, SeqDef
<1>6. Len(w) = n
  BY <1>1, <1>3, <1>5, LenProperties
<1>. QED
  BY <1>3, <1>5, <1>6 DEF n

LEMMA StoredType ==
    ASSUME files \in [SafeNames -> File], NEW name, NEW off \in Nat,
           NEW bytes \in Seq(Byte)
    PROVE  Stored(name, off, bytes) \in [SafeNames -> File]
<1>1. CASE name \in SafeNames
  <2>1. files[name].data \in Seq(Byte) /\ files[name].kind \in {"none", "dir", "reg"}
    BY <1>1 DEF File
  <2>2. WriteAt(files[name].data, off, bytes) \in Seq(Byte)
    BY <2>1, WriteAtProperties
  <2>. QED
    BY <1>1, <2>1, <2>2 DEF Stored, File
<1>2. CASE name \notin SafeNames
  BY <1>2 DEF Stored
<1>. QED
  BY <1>1, <1>2

LEMMA ListingType ==
    ASSUME NEW l \in Listings
    PROVE  l \in Seq(Byte)
<1>1. Cardinality(Existing) \in Nat
  <2>1. IsFiniteSet(Existing)
    BY NamesAssumption, FS_Subset DEF Existing
  <2>. QED
    BY <2>1, FS_CardinalityType
<1>2. l \in [1 .. Cardinality(Existing) -> Byte]
  BY DEF Listings, Existing, Byte, Names
<1>. QED
  BY <1>1, <1>2, SeqDef

-----------------------------------------------------------------------------
(* Queues in which nobody is twice.                                        *)

Distinct(s) == \A i, j \in 1 .. Len(s) : s[i] = s[j] => i = j

LEMMA HeadLeaves ==
    ASSUME NEW S, NEW s \in Seq(S), s # <<>>, Distinct(s)
    PROVE  /\ Head(s) \in S /\ Head(s) \in Elems(s)
           /\ Tail(s) \in Seq(S) /\ Distinct(Tail(s))
           /\ Elems(Tail(s)) = Elems(s) \ {Head(s)}
<1> DEFINE n == Len(s)
           rest == Tail(s)
           first == Head(s)
<1>1. n \in Nat /\ n > 0 /\ DOMAIN s = 1 .. n
  BY EmptySeq, LenProperties
<1>2. /\ first = s[1] /\ 1 \in 1 .. n /\ first \in S
      /\ rest \in Seq(S) /\ Len(rest) = n - 1
      /\ \A i \in 1 .. Len(rest) : rest[i] = s[i + 1]
  BY <1>1, HeadTailProperties
<1>3. DOMAIN rest = 1 .. Len(rest)
  BY <1>2, LenProperties
<1>4. \A i, j \in 1 .. n : s[i] = s[j] => i = j
  BY DEF Distinct
<1> HIDE DEF n, rest, first
<1>5. \A i \in 1 .. n - 1 : i + 1 \in 1 .. n /\ i + 1 # 1
  BY <1>1
<1>6. Distinct(rest)
  <2>1. ASSUME NEW i \in 1 .. Len(rest), NEW j \in 1 .. Len(rest), rest[i] = rest[j]
        PROVE  i = j
    <3>1. i + 1 = j + 1
      BY <1>2, <1>4, <1>5, <2>1
    <3>. QED
      BY <1>1, <1>2, <3>1
  <2>. QED
    BY <2>1 DEF Distinct
<1>7. ASSUME NEW x \in Elems(rest) PROVE x \in Elems(s) \ {first}
  <2>1. PICK i \in 1 .. n - 1 : x = rest[i]
    BY <1>2, <1>3 DEF Elems
  <2>2. x = s[i + 1] /\ i + 1 \in 1 .. n /\ i + 1 # 1
    BY <1>2, <1>5, <2>1
  <2>3. x # first
    BY <1>2, <1>4, <2>2
  <2>. QED
    BY <1>1, <2>2, <2>3 DEF Elems
<1>8. ASSUME NEW x \in Elems(s), x # first PROVE x \in Elems(rest)
  <2>1. PICK i \in 1 .. n : x = s[i]
    BY <1>1 DEF Elems
  <2>2. i # 1
    BY <1>2, <1>8, <2>1
  <2>3. i - 1 \in 1 .. n - 1 /\ (i - 1) + 1 = i
    BY <1>1, <2>2
  <2>4. rest[i - 1] = x
    BY <1>2, <2>1, <2>3
  <2>. QED
    BY <1>2, <1>3, <2>3, <2>4 DEF Elems
<1>9. first \in Elems(s)
  BY <1>1, <1>2 DEF Elems
<1>. QED
  BY <1>2, <1>6, <1>7, <1>8, <1>9 DEF rest, first

LEMMA LastJoins ==
    ASSUME NEW S, NEW s \in Seq(S), Distinct(s), NEW x \in S, x \notin Elems(s)
    PROVE  /\ Append(s, x) \in Seq(S) /\ Distinct(Append(s, x))
           /\ Elems(Append(s, x)) = Elems(s) \cup {x}
<1> DEFINE n == Len(s)
           more == Append(s, x)
<1>1. n \in Nat /\ DOMAIN s = 1 .. n
  BY LenProperties
<1>2. /\ more \in Seq(S) /\ Len(more) = n + 1 /\ more[n + 1] = x
      /\ \A i \in 1 .. n : more[i] = s[i]
  BY AppendProperties
<1>3. DOMAIN more = 1 .. n + 1
  BY <1>2, LenProperties
<1>4. \A i, j \in 1 .. n : s[i] = s[j] => i = j
  BY DEF Distinct
<1>5. \A i \in 1 .. n : s[i] # x
  BY <1>1 DEF Elems
<1> HIDE DEF n, more
<1>6. \A i \in 1 .. n + 1 : i \in 1 .. n \/ i = n + 1
  BY <1>1
<1>7. \A i, j \in 1 .. n + 1 : more[i] = more[j] => i = j
  BY <1>2, <1>4, <1>5, <1>6
<1>8. Distinct(more)
  BY <1>2, <1>7 DEF Distinct
<1>9. \A i \in 1 .. n : i \in 1 .. n + 1
  BY <1>1
<1>10. Elems(more) = Elems(s) \cup {x}
  BY <1>1, <1>2, <1>3, <1>6, <1>9 DEF Elems
<1>. QED
  BY <1>2, <1>8, <1>10 DEF more

-----------------------------------------------------------------------------
(* The replies sent to a peer.                                             *)

(* No reply is longer than its header says, and every one but the last is  *)
(* complete.                                                               *)
LogFits(log) ==
    \A i \in 1 .. Len(log) :
        /\ Len(log[i].body) <= log[i].length
        /\ i < Len(log) => Complete(log[i])

(* Nothing is owed of the last reply.                                      *)
Whole(log) == log = <<>> \/ Complete(log[Len(log)])

(* More of the last reply.                                                 *)
Longer(log, more) == [log EXCEPT ![Len(log)].body = @ \o more]

LEMMA LastReply ==
    ASSUME NEW log \in Seq(Reply), log # <<>>
    PROVE  log[Len(log)] \in Reply /\ Len(log[Len(log)].body) \in Nat
<1>1. Len(log) \in 1 .. Len(log)
  BY EmptySeq, LenProperties
<1>2. log[Len(log)] \in Reply
  BY <1>1, ElementOfSeq
<1>. QED
  BY <1>2, LenProperties DEF Reply

LEMMA LongerType ==
    ASSUME NEW log \in Seq(Reply), NEW more \in Seq(Byte),
           NEW new, new = Longer(log, more)
    PROVE  /\ new \in Seq(Reply) /\ Len(new) = Len(log)
           /\ \A i \in 1 .. Len(log) :
                  /\ new[i].cmd = log[i].cmd /\ new[i].status = log[i].status
                  /\ new[i].length = log[i].length
                  /\ new[i].body = IF i = Len(log) THEN log[i].body \o more
                                   ELSE log[i].body
<1> DEFINE n == Len(log)
           longer == [log[n] EXCEPT !.body = @ \o more]
<1>1. n \in Nat /\ log \in [1 .. n -> Reply]
  BY LenProperties
<1>2. new = [log EXCEPT ![n] = longer]
  BY DEF Longer
<1>3. CASE n = 0
  <2>1. new = log
    BY <1>1, <1>2, <1>3
  <2>. QED
    BY <1>1, <1>3, <2>1
<1>4. CASE n > 0
  <2>1. n \in 1 .. n /\ log[n] \in Reply
    BY <1>1, <1>4
  <2>2. log[n].body \o more \in Seq(Byte)
    BY <2>1, ConcatProperties DEF Reply
  <2>3. /\ longer \in Reply /\ longer.body = log[n].body \o more
        /\ longer.cmd = log[n].cmd /\ longer.status = log[n].status
        /\ longer.length = log[n].length
    BY <2>1, <2>2 DEF Reply
  <2> HIDE DEF longer, n
  <2>4. new \in [1 .. n -> Reply]
        /\ \A i \in 1 .. n : new[i] = IF i = n THEN longer ELSE log[i]
    BY <1>1, <1>2, <2>1, <2>3
  <2>5. new \in Seq(Reply) /\ Len(new) = n
    BY <1>1, <2>4, SeqDef, LenProperties
  <2>. QED
    BY <2>3, <2>4, <2>5 DEF n
<1>5. n = 0 \/ n > 0
  BY <1>1
<1>. QED
  BY <1>3, <1>4, <1>5

(* The bytes among the units from + 1 .. upto of a reply begun before.     *)
Rest(r, from, upto) == SubSeq(r.body, from, upto - 1)

(* What Extend makes of a log: another reply, or more of the last.         *)
LEMMA ExtendBegins ==
    ASSUME NEW log \in Seq(Reply), NEW r \in Reply,
           NEW from \in Nat, NEW upto \in Nat, from = 0,
           NEW new, new = Extend(log, r, from, upto),
           from < upto, upto <= Len(r.body) + 1
    PROVE  /\ new \in Seq(Reply) /\ Len(new) = Len(log) + 1
           /\ \A i \in 1 .. Len(log) : new[i] = log[i]
           /\ new[Len(new)].cmd = r.cmd /\ new[Len(new)].status = r.status
           /\ new[Len(new)].length = r.length
           /\ new[Len(new)].body = SubSeq(r.body, 1, upto - 1)
<1> DEFINE part == [r EXCEPT !.body = SubSeq(@, 1, upto - 1)]
<1>1. r.body \in Seq(Byte) /\ Len(r.body) \in Nat
  BY LenProperties DEF Reply
<1>2. \A i \in 1 .. upto - 1 : r.body[i] \in Byte
  BY <1>1, ElementOfSeq
<1>3. SubSeq(r.body, 1, upto - 1) \in Seq(Byte)
  BY <1>1, <1>2, SubSeqProperties
<1>4. part \in Reply
  BY <1>3 DEF Reply
<1>5. /\ part.cmd = r.cmd /\ part.status = r.status /\ part.length = r.length
      /\ part.body = SubSeq(r.body, 1, upto - 1)
  BY <1>3 DEF Reply
<1>6. new = Append(log, part)
  BY DEF Extend
<1> HIDE DEF part
<1>7. /\ new \in Seq(Reply) /\ Len(new) = Len(log) + 1
      /\ \A i \in 1 .. Len(log) : new[i] = log[i]
      /\ new[Len(new)] = part
  <2> HIDE DEF part
  <2>1. /\ Append(log, part) \in Seq(Reply) /\ Len(Append(log, part)) = Len(log) + 1
        /\ \A i \in 1 .. Len(log) : Append(log, part)[i] = log[i]
        /\ Append(log, part)[Len(log) + 1] = part
    BY <1>4, AppendProperties
  <2>. QED
    BY <1>6, <2>1
<1>. QED
  BY <1>5, <1>7

LEMMA ExtendGoesOn ==
    ASSUME NEW log \in Seq(Reply), NEW r \in Reply,
           NEW from \in Nat, NEW upto \in Nat, from > 0,
           NEW new, new = Extend(log, r, from, upto),
           from < upto, upto <= Len(r.body) + 1
    PROVE  /\ new = Longer(log, Rest(r, from, upto))
           /\ Rest(r, from, upto) \in Seq(Byte)
           /\ new \in Seq(Reply) /\ Len(new) = Len(log)
<1> DEFINE more == Rest(r, from, upto)
<1>1. r.body \in Seq(Byte) /\ Len(r.body) \in Nat
  BY LenProperties DEF Reply
<1>2. \A i \in from .. upto - 1 : r.body[i] \in Byte
  BY <1>1, ElementOfSeq
<1>3. more \in Seq(Byte)
  BY <1>1, <1>2, SubSeqProperties DEF Rest
<1>4. new = Longer(log, more)
  BY DEF Extend, Longer, Rest
<1> HIDE DEF more
<1>5. new \in Seq(Reply) /\ Len(new) = Len(log)
  BY <1>3, <1>4, LongerType
<1>. QED
  BY <1>3, <1>4, <1>5 DEF more

LEMMA ExtendType ==
    ASSUME NEW log \in Seq(Reply), NEW r \in Reply,
           NEW from \in Nat, NEW upto \in Nat,
           NEW new, new = Extend(log, r, from, upto),
           from < upto, upto <= Len(r.body) + 1
    PROVE  /\ new \in Seq(Reply)
           /\ Len(new) = IF from = 0 THEN Len(log) + 1 ELSE Len(log)
<1>1. CASE from = 0
  BY <1>1, ExtendBegins
<1>2. CASE from > 0
  BY <1>2, ExtendGoesOn
<1>. QED
  BY <1>1, <1>2

LEMMA LastLonger ==
    ASSUME NEW log \in Seq(Reply), log # <<>>, LogFits(log), NEW more \in Seq(Byte),
           NEW new, new = Longer(log, more),
           Len(log[Len(log)].body) + Len(more) <= log[Len(log)].length
    PROVE  /\ new \in Seq(Reply) /\ new # <<>> /\ LogFits(new) /\ Len(new) = Len(log)
           /\ new[Len(new)].length = log[Len(log)].length
           /\ Len(new[Len(new)].body) = Len(log[Len(log)].body) + Len(more)
<1> DEFINE n == Len(log)
           last == log[n]
           longer == [last EXCEPT !.body = @ \o more]
<1>1. n \in Nat /\ n \in 1 .. n /\ Len(more) \in Nat
  BY EmptySeq, LenProperties
<1>2. last \in Reply
  BY <1>1, ElementOfSeq
<1>3. last.body \in Seq(Byte) /\ Len(last.body) \in Nat
  BY <1>2, LenProperties DEF Reply
<1>4. last.body \o more \in Seq(Byte)
      /\ Len(last.body \o more) = Len(last.body) + Len(more)
  BY <1>3, ConcatProperties
<1>5. /\ longer \in Reply /\ longer.length = last.length
      /\ longer.body = last.body \o more
  BY <1>2, <1>4 DEF Reply
<1>6. new = [log EXCEPT ![n] = longer]
  BY DEF Longer
<1> HIDE DEF longer
<1>7. /\ new \in Seq(Reply) /\ Len(new) = n
      /\ \A j \in 1 .. n : new[j] = IF j = n THEN longer ELSE log[j]
  <2>1. log \in [1 .. n -> Reply]
    BY LenProperties
  <2> HIDE DEF n
  <2>2. new \in [1 .. n -> Reply]
    BY <1>1, <1>5, <1>6, <2>1
  <2>3. new \in Seq(Reply) /\ Len(new) = n
    BY <1>1, <2>2, SeqDef, LenProperties
  <2>. QED
    BY <1>1, <1>6, <2>1, <2>3
<1>8. new[n] = longer /\ new # <<>>
  BY <1>1, <1>7, LenProperties
<1>9. ASSUME NEW i \in 1 .. n
      PROVE  /\ Len(new[i].body) <= new[i].length
             /\ i < n => Complete(new[i])
  <2>1. CASE i = n
    <3>1. Len(longer.body) <= longer.length
      BY <1>4, <1>5
    <3> HIDE DEF n
    <3>. QED
      BY <1>1, <1>8, <2>1, <3>1
  <2>2. CASE i # n
    BY <1>7, <2>2 DEF LogFits
  <2>. QED
    BY <2>1, <2>2
<1>10. LogFits(new)
  BY <1>7, <1>9 DEF LogFits
<1>. QED
  BY <1>4, <1>5, <1>7, <1>8, <1>10

LEMMA AnotherReply ==
    ASSUME NEW log \in Seq(Reply), LogFits(log), Whole(log), NEW r \in Reply,
           Len(r.body) <= r.length, NEW new, new = Append(log, r)
    PROVE  /\ new \in Seq(Reply) /\ new # <<>> /\ LogFits(new)
           /\ Len(new) = Len(log) + 1 /\ new[Len(new)] = r
<1> DEFINE n == Len(log)
<1>1. n \in Nat
  BY LenProperties
<1>2. /\ new \in Seq(Reply) /\ new # <<>> /\ Len(new) = n + 1 /\ new[n + 1] = r
      /\ \A i \in 1 .. n : new[i] = log[i]
  BY AppendProperties
<1>3. ASSUME NEW i \in 1 .. n + 1
      PROVE  /\ Len(new[i].body) <= new[i].length
             /\ i < n + 1 => Complete(new[i])
  <2>1. CASE i = n + 1
    BY <1>1, <1>2, <2>1
  <2>2. CASE i # n + 1
    <3>1. i \in 1 .. n /\ new[i] = log[i] /\ log # <<>>
      BY <1>1, <1>2, <2>2
    <3>2. i < n => Complete(log[i])
      BY <3>1 DEF LogFits
    <3>3. i = n => Complete(log[i])
      BY <3>1 DEF Whole
    <3>. QED
      BY <1>1, <3>1, <3>2, <3>3 DEF LogFits
  <2>. QED
    BY <2>1, <2>2
<1>. QED
  BY <1>2, <1>3 DEF LogFits

(* The units from + 1 .. upto of r are the next that its peer gets.        *)
Onward(log, r, from, upto) ==
    /\ log \in Seq(Reply) /\ LogFits(log) /\ r \in Reply
    /\ from \in Nat /\ upto \in Nat
    /\ from < upto /\ upto <= Len(r.body) + 1 /\ Len(r.body) <= r.length
    /\ from = 0 => Whole(log)
    /\ from > 0 => /\ log # <<>> /\ log[Len(log)].length = r.length
                   /\ Len(log[Len(log)].body) = from - 1

LEMMA ExtendFits ==
    ASSUME NEW log, NEW r, NEW from, NEW upto, Onward(log, r, from, upto),
           NEW new, new = Extend(log, r, from, upto)
    PROVE  /\ new \in Seq(Reply) /\ new # <<>> /\ LogFits(new)
           /\ new[Len(new)].length = r.length
           /\ Len(new[Len(new)].body) = upto - 1
<1> USE DEF Onward
<1>1. r.body \in Seq(Byte) /\ Len(r.body) \in Nat /\ r.length \in Nat
  BY LenProperties DEF Reply
<1>2. CASE from = 0
  <2> DEFINE part == [r EXCEPT !.body = SubSeq(r.body, 1, upto - 1)]
  <2>1. \A i \in 1 .. upto - 1 : r.body[i] \in Byte
    BY <1>1, ElementOfSeq
  <2>2. /\ SubSeq(r.body, 1, upto - 1) \in Seq(Byte)
        /\ Len(SubSeq(r.body, 1, upto - 1)) = upto - 1
    BY <1>1, <1>2, <2>1, SubSeqProperties
  <2>3. /\ part \in Reply /\ part.length = r.length
        /\ Len(part.body) = upto - 1
    BY <2>2 DEF Reply
  <2>4. new = Append(log, part)
    BY <1>2 DEF Extend
  <2>5. Len(part.body) <= part.length
    BY <1>1, <2>3
  <2> HIDE DEF part
  <2>6. /\ new \in Seq(Reply) /\ new # <<>> /\ LogFits(new)
        /\ Len(new) = Len(log) + 1 /\ new[Len(new)] = part
    <3>1. LogFits(log) /\ Whole(log)
      BY <1>2
    <3>. QED
      BY <2>3, <2>4, <2>5, <3>1, AnotherReply
  <2>. QED
    BY <2>3, <2>6
<1>3. CASE from > 0
  <2> DEFINE more == SubSeq(r.body, from, upto - 1)
  <2>1. \A i \in from .. upto - 1 : r.body[i] \in Byte
    BY <1>1, <1>3, ElementOfSeq
  <2>2. more \in Seq(Byte) /\ Len(more) = upto - from
    BY <1>1, <1>3, <2>1, SubSeqProperties
  <2>3. new = Longer(log, more)
    BY <1>3 DEF Extend, Longer
  <2> HIDE DEF more
  <2>. QED
    <3> DEFINE last == log[Len(log)]
    <3>1. /\ log # <<>> /\ last.length = r.length
          /\ Len(last.body) + Len(more) = upto - 1
      BY <1>3, <2>2
    <3>2. Len(last.body) + Len(more) <= last.length
      BY <1>1, <3>1
    <3>3. /\ new \in Seq(Reply) /\ new # <<>> /\ LogFits(new) /\ Len(new) = Len(log)
          /\ new[Len(new)].length = last.length
          /\ Len(new[Len(new)].body) = Len(last.body) + Len(more)
      <4> HIDE DEF last
      <4>1. more \in Seq(Byte) /\ Len(log[Len(log)].body) + Len(more) <= log[Len(log)].length
        BY <2>2, <3>2 DEF last
      <4>. QED
        BY <2>3, <3>1, <4>1, LastLonger DEF last
    <3>. QED
      BY <3>1, <3>3
<1>. QED
  BY <1>2, <1>3

-----------------------------------------------------------------------------
(* What a stream asks for.                                                 *)

Request == [cmd : Cmds, name : Byte, bytes : Seq(Byte)]

(* later[j][name] is given for every j after i.                            *)
Given(later, units, i) ==
    \A j \in i + 1 .. Len(units) + 1 : \A name \in Byte : later[j][name] \in Seq(Request)

LEMMA NullIsByte == NULL \in Byte
BY DEF Byte

LEMMA MessageType ==
    ASSUME NEW units \in Seq(Unit), NEW i \in 1 .. Len(units) + 1, HeaderAt(units, i)
    PROVE  /\ units[i].head \in Header
           /\ After(units, i) \in Nat /\ After(units, i) >= i + HdrLen /\ After(units, i) > i
           /\ After(units, i) = i + HdrLen + units[i].head.length
           /\ WholeAt(units, i) =>
                 /\ Payload(units, i) \in Seq(Unit)
                 /\ Len(Payload(units, i)) = units[i].head.length
                 /\ LastByte(units, i) \in Byte
                 /\ \A k \in 1 .. units[i].head.length :
                        Payload(units, i)[k] = units[i + HdrLen + k - 1]
<1>1. Len(units) \in Nat /\ HdrLen \in Nat \ {0} /\ i \in Nat
  BY LenProperties, WireAssumption
<1>2. i \in 1 .. Len(units)
  BY <1>1 DEF HeaderAt
<1>3. units[i] \in Unit
  BY <1>2, ElementOfSeq
<1>4. units[i].head \in Header /\ units[i].head.length \in Nat
  BY <1>3 DEF Unit, Header
<1>5. /\ After(units, i) \in Nat /\ After(units, i) >= i + HdrLen
      /\ After(units, i) > i
      /\ After(units, i) = i + HdrLen + units[i].head.length
  BY <1>1, <1>4 DEF After
<1>6. ASSUME WholeAt(units, i)
      PROVE  /\ Payload(units, i) \in Seq(Unit)
             /\ Len(Payload(units, i)) = units[i].head.length
             /\ LastByte(units, i) \in Byte
             /\ \A k \in 1 .. units[i].head.length :
                    Payload(units, i)[k] = units[i + HdrLen + k - 1]
  <2> DEFINE len == units[i].head.length
             data == Payload(units, i)
  <2>1. /\ i + HdrLen \in Int /\ After(units, i) - 1 \in Int
        /\ After(units, i) - 1 <= Len(units)
    BY <1>1, <1>5, <1>6 DEF WholeAt
  <2>2. \A k \in i + HdrLen .. After(units, i) - 1 : k \in 1 .. Len(units)
    BY <1>1, <2>1
  <2>3. \A k \in i + HdrLen .. After(units, i) - 1 : units[k] \in Unit
    BY <2>2, ElementOfSeq
  <2>4. /\ data \in Seq(Unit)
        /\ Len(data) = IF i + HdrLen <= After(units, i) - 1
                       THEN (After(units, i) - 1) - (i + HdrLen) + 1 ELSE 0
        /\ \A k \in 1 .. (After(units, i) - 1) - (i + HdrLen) + 1 :
               data[k] = units[i + HdrLen + k - 1]
    BY <2>1, <2>3, SubSeqProperties DEF Payload
  <2>5. Len(data) = len /\ \A k \in 1 .. len : data[k] = units[i + HdrLen + k - 1]
    <3>2. len \in Nat
      BY <1>4
    <3> HIDE DEF data, len
    <3>1. /\ (After(units, i) - 1) - (i + HdrLen) + 1 = len
          /\ (i + HdrLen <= After(units, i) - 1) <=> (len > 0)
      <4>1. After(units, i) = i + HdrLen + len
        BY <1>5 DEF len
      <4>. QED
        BY <1>1, <3>2, <4>1
    <3>. QED
      BY <2>4, <3>1, <3>2
  <2>6. LastByte(units, i) \in Byte
    <3>1. CASE data = <<>>
      BY <3>1, NullIsByte DEF LastByte
    <3>2. CASE data # <<>>
      <4>1. Len(data) \in 1 .. Len(data)
        BY <2>4, <3>2, EmptySeq
      <4>2. data[Len(data)] \in Unit
        BY <2>4, <4>1, ElementOfSeq
      <4>3. NameOf(data) \in Byte
        BY <4>2 DEF NameOf, Unit
      <4>. QED
        BY <3>2, <4>3 DEF LastByte
    <3>. QED
      BY <3>1, <3>2
  <2>. QED
    BY <2>4, <2>5, <2>6
<1>. QED
  BY <1>4, <1>5, <1>6

LEMMA AskType ==
    ASSUME NEW cmd \in Cmds, NEW name \in Byte, NEW bytes \in Seq(Byte)
    PROVE  /\ Ask(cmd, name, bytes) \in Seq(Request) /\ Len(Ask(cmd, name, bytes)) = 1
           /\ Ask(cmd, name, bytes)[1] = [cmd |-> cmd, name |-> name, bytes |-> bytes]
<1> DEFINE r == [cmd |-> cmd, name |-> name, bytes |-> bytes]
<1>1. r \in Request
  BY DEF Request
<1> HIDE DEF r
<1>2. Ask(cmd, name, bytes) = <<r>>
  BY DEF Ask, r
<1>. QED
  BY <1>1, <1>2 DEF r

(* One request and what comes after it.                                    *)
LEMMA AskThen ==
    ASSUME NEW cmd \in Cmds, NEW name \in Byte, NEW bytes \in Seq(Byte),
           NEW rest \in Seq(Request)
    PROVE  Ask(cmd, name, bytes) \o rest \in Seq(Request)
BY AskType, ConcatProperties

LEMMA RequestsFromType ==
    ASSUME NEW units \in Seq(Unit), NEW refused, NEW ended, NEW later,
           NEW i \in 1 .. Len(units) + 1, NEW pending \in Byte,
           Given(later, units, i)
    PROVE  RequestsFrom(units, i, pending, later, refused, ended) \in Seq(Request)
<1> DEFINE head == units[i].head
           byte == LastByte(units, i)
           next == After(units, i)
           from == RequestsFrom(units, i, pending, later, refused, ended)
<1>1. CASE ~HeaderAt(units, i)
  BY <1>1, EmptySeq DEF RequestsFrom
<1>2. CASE HeaderAt(units, i)
  <2>1. /\ head \in Header /\ next \in Nat /\ next > i
        /\ WholeAt(units, i) => byte \in Byte /\ Payload(units, i) \in Seq(Unit)
    BY <1>2, MessageType
  <2>2. head.cmd \in Cmds /\ NULL \in Byte /\ "PUT" \in Cmds
    BY <2>1, NullIsByte DEF Header, Cmds
  <2>3. ASSUME WholeAt(units, i)
        PROVE  /\ later[next][NULL] \in Seq(Request)
               /\ later[next][byte] \in Seq(Request)
    <3>1. next \in i + 1 .. Len(units) + 1
      BY <2>1, <2>3, LenProperties DEF WholeAt
    <3>. QED
      BY <2>1, <2>2, <2>3, <3>1 DEF Given
  <2>4. /\ <<>> \in Seq(Request) /\ <<>> \in Seq(Byte)
        /\ WholeAt(units, i) => Bytes(Payload(units, i)) \in Seq(Byte)
    BY <2>1, EmptySeq, BytesType
  <2>5. /\ Ask("PUT", NULL, <<>>) \in Seq(Request)
        /\ Ask(head.cmd, NULL, <<>>) \in Seq(Request)
    BY <2>2, <2>4, AskType
  <2>6. WholeAt(units, i) =>
           /\ Ask("PUT", pending, Bytes(Payload(units, i))) \o later[next][NULL] \in Seq(Request)
           /\ Ask(head.cmd, byte, <<>>) \o later[next][NULL] \in Seq(Request)
    BY <2>1, <2>2, <2>3, <2>4, AskThen
  <2>. QED
    BY <1>2, <2>3, <2>4, <2>5, <2>6 DEF RequestsFrom
<1>. QED
  BY <1>1, <1>2

(* What the units from i on ask for depends on what comes after i only.    *)
LEMMA RequestsFromLater ==
    ASSUME NEW units \in Seq(Unit), NEW refused, NEW ended, NEW later, NEW other,
           NEW i \in 1 .. Len(units) + 1, NEW pending \in Byte,
           \A j \in i + 1 .. Len(units) + 1 : later[j] = other[j]
    PROVE  RequestsFrom(units, i, pending, later, refused, ended) =
           RequestsFrom(units, i, pending, other, refused, ended)
<1>1. CASE ~HeaderAt(units, i)
  BY <1>1 DEF RequestsFrom
<1>2. CASE HeaderAt(units, i) /\ ~WholeAt(units, i)
  BY <1>2 DEF RequestsFrom
<1>3. CASE HeaderAt(units, i) /\ WholeAt(units, i)
  <2>1. After(units, i) \in i + 1 .. Len(units) + 1
    BY <1>3, MessageType, LenProperties DEF WholeAt
  <2>2. later[After(units, i)] = other[After(units, i)]
    BY <2>1
  <2>. QED
    BY <2>2 DEF RequestsFrom
<1>. QED
  BY <1>1, <1>2, <1>3

-----------------------------------------------------------------------------
(* The recursive function of RequestsOf exists, and so it is what its      *)
(* equation says.                                                          *)

Decodes(f, from, units, refused, ended) ==
    f = [i \in from .. Len(units) + 1 |->
            [pending \in Byte |-> RequestsFrom(units, i, pending, f, refused, ended)]]

Decoded(units, refused, ended) ==
    CHOOSE f : Decodes(f, 1, units, refused, ended)

LEMMA RequestsDecoded ==
    ASSUME NEW units, NEW refused, NEW ended
    PROVE  RequestsOf(units, refused, ended) = Decoded(units, refused, ended)[1][NULL]
BY DEF RequestsOf, Decoded, Decodes

(* If the units after i can be decoded, so can those from i on.            *)
LEMMA DecodesOneMore ==
    ASSUME NEW units \in Seq(Unit), NEW refused, NEW ended,
           NEW i \in 1 .. Len(units) + 1,
           NEW f, Decodes(f, i + 1, units, refused, ended)
    PROVE  \E g : Decodes(g, i, units, refused, ended)
<1> DEFINE end == Len(units) + 1
           g == [j \in i .. end |->
                    [pending \in Byte |-> RequestsFrom(units, j, pending, f, refused, ended)]]
<1>1. end \in Nat /\ i \in Nat
  BY LenProperties
<1>2. \A j \in i + 1 .. end :
         f[j] = [pending \in Byte |-> RequestsFrom(units, j, pending, f, refused, ended)]
  BY DEF Decodes
<1>3. \A j \in i + 1 .. end : g[j] = f[j]
  BY <1>1, <1>2
<1>4. ASSUME NEW j \in i .. end, NEW pending \in Byte
      PROVE  RequestsFrom(units, j, pending, f, refused, ended) =
             RequestsFrom(units, j, pending, g, refused, ended)
  <2>1. j \in 1 .. Len(units) + 1
    BY <1>1
  <2> HIDE DEF g
  <2>2. \A k \in j + 1 .. Len(units) + 1 : f[k] = g[k]
    <3>1. j + 1 .. Len(units) + 1 \subseteq i + 1 .. end
      BY <1>1
    <3>. QED
      BY <1>3, <3>1
  <2>. QED
    BY <2>1, <2>2, RequestsFromLater
<1>5. Decodes(g, i, units, refused, ended)
  <2>1. g = [j \in i .. end |->
                [pending \in Byte |-> RequestsFrom(units, j, pending, g, refused, ended)]]
    BY <1>4
  <2> HIDE DEF g
  <2>. QED
    BY <2>1 DEF Decodes
<1>. QED
  BY <1>5

LEMMA DecodedExists ==
    ASSUME NEW units \in Seq(Unit), NEW refused, NEW ended
    PROVE  \E f : Decodes(f, 1, units, refused, ended)
<1> DEFINE end == Len(units) + 1
           T == {n \in Nat : n <= end /\ ~\E f : Decodes(f, end + 1 - n, units, refused, ended)}
<1>1. end \in Nat
  BY LenProperties
<1>2. SUFFICES ASSUME end \in T PROVE FALSE
  <2>1. end \notin T
    BY <1>2
  <2>2. \E f : Decodes(f, end + 1 - end, units, refused, ended)
    BY <1>1, <2>1
  <2>3. end + 1 - end = 1
    BY <1>1
  <2> HIDE DEF end
  <2>. QED
    BY <2>2, <2>3
<1>3. PICK n \in T : \A m \in T : n <= m
  <2>1. T \in SUBSET Nat /\ T # {}
    BY <1>2
  <2> HIDE DEF T
  <2>. QED
    BY <2>1, LeastNatural
<1>4. n \in Nat /\ n <= end
  BY <1>3
<1>5. CASE n = 0
  <2>1. end + 1 - n = end + 1 /\ end + 1 .. end = {}
    BY <1>1, <1>5
  <2> DEFINE f == [i \in end + 1 .. end |-> NULL]
  <2>2. f = [i \in end + 1 .. end |->
                [pending \in Byte |-> RequestsFrom(units, i, pending, f, refused, ended)]]
    BY <2>1
  <2>3. Decodes(f, end + 1, units, refused, ended)
    <3> HIDE DEF f
    <3>. QED
      BY <2>2 DEF Decodes
  <2>. QED
    BY <1>3, <2>1, <2>3
<1>6. CASE n > 0
  <2>1. n - 1 \in Nat /\ n - 1 <= end /\ ~(n <= n - 1)
    BY <1>1, <1>4, <1>6
  <2>2. n - 1 \notin T
    BY <1>3, <2>1
  <2>3. PICK f : Decodes(f, end + 1 - (n - 1), units, refused, ended)
    BY <2>1, <2>2
  <2>4. /\ end + 1 - (n - 1) = (end + 1 - n) + 1
        /\ end + 1 - n \in 1 .. end
    BY <1>1, <1>4, <1>6
  <2>5. \E g : Decodes(g, end + 1 - n, units, refused, ended)
    <3> DEFINE i == end + 1 - n
    <3>1. i \in 1 .. Len(units) + 1 /\ Decodes(f, i + 1, units, refused, ended)
      BY <2>3, <2>4
    <3> HIDE DEF i
    <3>2. \E g : Decodes(g, i, units, refused, ended)
      BY <3>1, DecodesOneMore
    <3>. QED
      BY <3>2 DEF i
  <2>. QED
    BY <1>3, <2>5
<1>. QED
  BY <1>4, <1>5, <1>6

(* RequestsFrom, with the units after i decoded by it too.                 *)
LEMMA DecodedAt ==
    ASSUME NEW units \in Seq(Unit), NEW refused, NEW ended,
           NEW i \in 1 .. Len(units) + 1, NEW pending \in Byte
    PROVE  LET f == Decoded(units, refused, ended) IN
           f[i][pending] = RequestsFrom(units, i, pending, f, refused, ended)
<1> DEFINE f == Decoded(units, refused, ended)
<1>1. Decodes(f, 1, units, refused, ended)
  BY DecodedExists, Zenon DEF Decoded
<1> HIDE DEF f
<1>2. f[i][pending] = RequestsFrom(units, i, pending, f, refused, ended)
  BY <1>1 DEF Decodes
<1>. QED
  BY <1>2 DEF f

(* Every part of a stream asks for a sequence of requests.                 *)
LEMMA DecodedType ==
    ASSUME NEW units \in Seq(Unit), NEW refused, NEW ended,
           NEW i \in 1 .. Len(units) + 1, NEW pending \in Byte
    PROVE  Decoded(units, refused, ended)[i][pending] \in Seq(Request)
<1> DEFINE end == Len(units) + 1
           f == Decoded(units, refused, ended)
           Bad(n) == \E name \in Byte : f[end - n][name] \notin Seq(Request)
           T == {n \in Nat : n < end /\ Bad(n)}
<1>1. end \in Nat /\ i \in 1 .. end
  BY LenProperties
<1>2. \A j \in 1 .. end : \A name \in Byte :
         f[j][name] = RequestsFrom(units, j, name, f, refused, ended)
  BY DecodedAt
<1> HIDE DEF f
<1>3. SUFFICES ASSUME T # {} PROVE FALSE
  <2>1. end - i \in Nat /\ end - i < end /\ end - (end - i) = i
    BY <1>1
  <2>2. end - i \notin T
    BY <1>3
  <2>3. f[end - (end - i)][pending] \in Seq(Request)
    BY <2>1, <2>2
  <2>4. f[i][pending] \in Seq(Request)
    BY <2>1, <2>3
  <2>. QED
    BY <2>4 DEF f
<1>4. PICK n \in T : \A m \in T : n <= m
  <2>1. T \in SUBSET Nat
    OBVIOUS
  <2> HIDE DEF T
  <2>. QED
    BY <1>3, <2>1, LeastNatural
<1>5. n \in Nat /\ n < end /\ Bad(n)
  BY <1>4
<1>6. PICK name \in Byte : f[end - n][name] \notin Seq(Request)
  BY <1>5
<1> DEFINE j == end - n
<1>7. j \in 1 .. end
  BY <1>1, <1>5
<1>8. ASSUME NEW k \in j + 1 .. end, NEW other \in Byte
      PROVE  f[k][other] \in Seq(Request)
  <2>1. end - k \in Nat /\ end - k < end /\ ~(n <= end - k) /\ end - (end - k) = k
    BY <1>1, <1>5, <1>7
  <2>2. end - k \notin T
    BY <1>4, <2>1
  <2>3. f[end - (end - k)][other] \in Seq(Request)
    BY <2>1, <2>2
  <2>. QED
    BY <2>1, <2>3
<1> HIDE DEF j
<1>9. Given(f, units, j)
  BY <1>8 DEF Given
<1>10. RequestsFrom(units, j, name, f, refused, ended) \in Seq(Request)
  BY <1>7, <1>9, RequestsFromType
<1>11. f[j][name] \in Seq(Request)
  BY <1>2, <1>7, <1>10
<1>. QED
  BY <1>6, <1>11 DEF j

-----------------------------------------------------------------------------
(* What a session that has read a stream up to a message still has to      *)
(* answer: all of `asked` after the first n, which is `rest`.              *)

Owed(asked, n, rest) ==
    /\ n + Len(rest) = Len(asked)
    /\ \A k \in 1 .. Len(rest) : asked[n + k] = rest[k]

AskBefore(cmd, name, bytes, more) == Ask(cmd, name, bytes) \o more

LEMMA OwedNext ==
    ASSUME NEW asked, NEW n \in Nat, NEW cmd \in Cmds, NEW name \in Byte,
           NEW bytes \in Seq(Byte), NEW more \in Seq(Request), NEW rest,
           rest = AskBefore(cmd, name, bytes, more), Owed(asked, n, rest)
    PROVE  /\ n + 1 <= Len(asked) /\ Owed(asked, n + 1, more)
           /\ asked[n + 1] = [cmd |-> cmd, name |-> name, bytes |-> bytes]
<1> DEFINE one == Ask(cmd, name, bytes)
           r == [cmd |-> cmd, name |-> name, bytes |-> bytes]
<1>1. one \in Seq(Request) /\ Len(one) = 1 /\ one[1] = r
  BY AskType
<1>2. rest = one \o more
  BY DEF AskBefore
<1> HIDE DEF one, r
<1>3. /\ Len(rest) = 1 + Len(more) /\ Len(more) \in Nat
      /\ \A k \in 1 .. Len(rest) : rest[k] = IF k <= 1 THEN one[k] ELSE more[k - 1]
  <2>1. Len(more) \in Nat
    BY LenProperties
  <2>2. /\ Len(one \o more) = Len(one) + Len(more)
        /\ \A k \in 1 .. Len(one) + Len(more) :
              (one \o more)[k] = IF k <= Len(one) THEN one[k] ELSE more[k - Len(one)]
    BY <1>1, ConcatProperties
  <2>. QED
    BY <1>1, <1>2, <2>1, <2>2
<1>4. n + (1 + Len(more)) = Len(asked)
      /\ \A k \in 1 .. Len(rest) : asked[n + k] = rest[k]
  BY <1>3 DEF Owed
<1> DEFINE m == Len(more)
<1>5. n + 1 <= Len(asked) /\ (n + 1) + m = Len(asked)
  <2> HIDE DEF m
  <2>1. m \in Nat /\ n + (1 + m) = Len(asked)
    BY <1>3, <1>4 DEF m
  <2>. QED
    BY <2>1
<1>6. asked[n + 1] = r
  <2>1. 1 \in 1 .. Len(rest) /\ 1 <= 1
    BY <1>3
  <2>. QED
    BY <1>1, <1>3, <1>4, <2>1
<1>7. ASSUME NEW k \in 1 .. m PROVE asked[(n + 1) + k] = more[k]
  <2>1. /\ k + 1 \in 1 .. Len(rest) /\ ~(k + 1 <= 1) /\ (k + 1) - 1 = k
        /\ n + (k + 1) = (n + 1) + k
    BY <1>3
  <2>2. rest[k + 1] = more[k]
    BY <1>3, <2>1
  <2>. QED
    BY <1>4, <2>1, <2>2
<1>. QED
  BY <1>5, <1>6, <1>7 DEF Owed, r

LEMMA OwedLast ==
    ASSUME NEW asked, NEW n \in Nat, NEW cmd \in Cmds, NEW name \in Byte,
           NEW bytes \in Seq(Byte), NEW rest,
           rest = Ask(cmd, name, bytes), Owed(asked, n, rest)
    PROVE  /\ n + 1 <= Len(asked)
           /\ asked[n + 1] = [cmd |-> cmd, name |-> name, bytes |-> bytes]
<1> DEFINE none == <<>>
<1>1. none \in Seq(Request) /\ Ask(cmd, name, bytes) \in Seq(Request)
  BY AskType, EmptySeq
<1>2. rest = AskBefore(cmd, name, bytes, none)
  BY <1>1 DEF AskBefore
<1> HIDE DEF none
<1>. QED
  BY <1>1, <1>2, OwedNext

(* A session that is at unit i of a stream, where the first message of a   *)
(* PUT has named `name` or there was none, owes the answers to the rest.   *)
OwesFrom(units, refused, ended, n, i, name) ==
    /\ i \in 1 .. Len(units) + 1 /\ name \in Byte
    /\ Owed(RequestsOf(units, refused, ended), n, Decoded(units, refused, ended)[i][name])

LEMMA OwesAll ==
    ASSUME NEW units \in Seq(Unit), NEW refused, NEW ended
    PROVE  OwesFrom(units, refused, ended, 0, 1, NULL)
<1> DEFINE asked == RequestsOf(units, refused, ended)
<1>1. 1 \in 1 .. Len(units) + 1 /\ NULL \in Byte
  BY LenProperties, NullIsByte
<1>2. Decoded(units, refused, ended)[1][NULL] = asked
  BY RequestsDecoded
<1>3. Decoded(units, refused, ended)[1][NULL] \in Seq(Request)
  BY <1>1, DecodedType
<1> HIDE DEF asked
<1>4. asked \in Seq(Request) /\ Len(asked) \in Nat
  BY <1>2, <1>3, LenProperties
<1>5. Owed(asked, 0, asked)
  BY <1>4 DEF Owed
<1>. QED
  BY <1>1, <1>2, <1>5 DEF OwesFrom, asked

(* What is asked is a sequence of requests.                                *)
LEMMA RequestsType ==
    ASSUME NEW units \in Seq(Unit), NEW refused, NEW ended
    PROVE  /\ RequestsOf(units, refused, ended) \in Seq(Request)
           /\ Len(RequestsOf(units, refused, ended)) \in Nat
<1>1. 1 \in 1 .. Len(units) + 1 /\ NULL \in Byte
  BY LenProperties, NullIsByte
<1>2. Decoded(units, refused, ended)[1][NULL] \in Seq(Request)
  BY <1>1, DecodedType
<1>. QED
  BY <1>2, RequestsDecoded, LenProperties

(* The header of a request is next.                                        *)
LEMMA RequestNext ==
    ASSUME NEW units \in Seq(Unit), NEW refused, NEW ended, NEW n \in Nat, NEW i,
           OwesFrom(units, refused, ended, n, i, NULL), HeaderAt(units, i)
    PROVE  LET asked == RequestsOf(units, refused, ended)
               head == units[i].head
               byte == LastByte(units, i)
               next == After(units, i)
           IN  /\ head \in refused => n + 1 <= Len(asked) /\ asked[n + 1].cmd = head.cmd
               /\ head \notin refused /\ WholeAt(units, i) =>
                     /\ <<head, byte>> \in ended =>
                           n + 1 <= Len(asked) /\ asked[n + 1].cmd = head.cmd
                     /\ <<head, byte>> \notin ended /\ head.cmd # "PUT" =>
                           /\ n + 1 <= Len(asked) /\ asked[n + 1].cmd = head.cmd
                           /\ asked[n + 1].name = byte
                           /\ OwesFrom(units, refused, ended, n + 1, next, NULL)
                     /\ <<head, byte>> \notin ended /\ head.cmd = "PUT" =>
                           OwesFrom(units, refused, ended, n, next, byte)
<1> DEFINE asked == RequestsOf(units, refused, ended)
           head == units[i].head
           byte == LastByte(units, i)
           next == After(units, i)
           f == Decoded(units, refused, ended)
           none == <<>>
<1>1. i \in 1 .. Len(units) + 1 /\ NULL \in Byte /\ Owed(asked, n, f[i][NULL])
  BY DEF OwesFrom
<1>2. /\ head \in Header /\ next \in Nat /\ next > i
      /\ WholeAt(units, i) => byte \in Byte
  BY <1>1, MessageType
<1>3. head.cmd \in Cmds /\ none \in Seq(Byte)
  BY <1>2, EmptySeq DEF Header
<1>4. f[i][NULL] = RequestsFrom(units, i, NULL, f, refused, ended)
  BY <1>1, DecodedAt
<1>5. ASSUME WholeAt(units, i), NEW name \in Byte
      PROVE  next \in 1 .. Len(units) + 1 /\ f[next][name] \in Seq(Request)
  <2>1. next \in 1 .. Len(units) + 1
    BY <1>1, <1>2, <1>5, LenProperties DEF WholeAt
  <2>. QED
    BY <2>1, DecodedType
<1>6. CASE head \in refused
  <2>1. f[i][NULL] = Ask(head.cmd, NULL, none)
    BY <1>4, <1>6 DEF RequestsFrom
  <2> HIDE DEF asked, head, f, none
  <2>2. n + 1 <= Len(asked) /\ asked[n + 1] = [cmd |-> head.cmd, name |-> NULL, bytes |-> none]
    BY <1>1, <1>3, <2>1, OwedLast
  <2>3. n + 1 <= Len(asked) /\ asked[n + 1].cmd = head.cmd
    BY <2>2
  <2>. QED
    BY <1>6, <2>3 DEF asked, head
<1>7. CASE head \notin refused /\ WholeAt(units, i) /\ <<head, byte>> \in ended
  <2>1. f[i][NULL] = Ask(head.cmd, NULL, none)
    BY <1>4, <1>7 DEF RequestsFrom
  <2> HIDE DEF asked, head, f, none
  <2>2. n + 1 <= Len(asked) /\ asked[n + 1] = [cmd |-> head.cmd, name |-> NULL, bytes |-> none]
    BY <1>1, <1>3, <2>1, OwedLast
  <2>3. n + 1 <= Len(asked) /\ asked[n + 1].cmd = head.cmd
    BY <2>2
  <2>. QED
    BY <1>7, <2>3 DEF asked, head
<1>8. CASE /\ head \notin refused /\ WholeAt(units, i) /\ <<head, byte>> \notin ended
           /\ head.cmd # "PUT"
  <2>1. f[i][NULL] = Ask(head.cmd, byte, none) \o f[next][NULL]
    BY <1>4, <1>8 DEF RequestsFrom
  <2>2. f[next][NULL] \in Seq(Request) /\ next \in 1 .. Len(units) + 1
    BY <1>1, <1>5, <1>8
  <2>3. byte \in Byte
    BY <1>2, <1>8
  <2> DEFINE rest == f[i][NULL]
             more == f[next][NULL]
  <2> HIDE DEF asked, head, byte, next, f, none, rest, more
  <2>4. /\ n + 1 <= Len(asked) /\ Owed(asked, n + 1, more)
        /\ asked[n + 1] = [cmd |-> head.cmd, name |-> byte, bytes |-> none]
    <3>1. more \in Seq(Request) /\ rest = AskBefore(head.cmd, byte, none, more)
          /\ Owed(asked, n, rest)
      BY <1>1, <2>1, <2>2 DEF rest, more, AskBefore
    <3>. QED
      BY <1>3, <2>3, <3>1, OwedNext
  <2>5. asked[n + 1].cmd = head.cmd /\ asked[n + 1].name = byte
    BY <2>4
  <2>6. OwesFrom(units, refused, ended, n + 1, next, NULL)
    BY <1>1, <2>2, <2>4 DEF OwesFrom, asked, f, more
  <2>. QED
    BY <1>8, <2>4, <2>5, <2>6 DEF asked, head, byte, next
<1>9. CASE /\ head \notin refused /\ WholeAt(units, i) /\ <<head, byte>> \notin ended
           /\ head.cmd = "PUT"
  <2>1. f[i][NULL] = f[next][byte]
    BY <1>4, <1>9 DEF RequestsFrom
  <2>2. byte \in Byte /\ next \in 1 .. Len(units) + 1
    BY <1>1, <1>2, <1>5, <1>9
  <2>3. OwesFrom(units, refused, ended, n, next, byte)
    BY <1>1, <2>1, <2>2 DEF OwesFrom
  <2>. QED
    BY <1>9, <2>3
<1>. QED
  BY <1>6, <1>7, <1>8, <1>9

(* The second header of a PUT of `name` is next.                           *)
LEMMA PutNext ==
    ASSUME NEW units \in Seq(Unit), NEW refused, NEW ended, NEW n \in Nat, NEW i,
           NEW name, name # NULL,
           OwesFrom(units, refused, ended, n, i, name), HeaderAt(units, i)
    PROVE  LET asked == RequestsOf(units, refused, ended)
               head == units[i].head
               next == After(units, i)
           IN  /\ head.cmd # "PUT" => n + 1 <= Len(asked) /\ asked[n + 1].cmd = "PUT"
               /\ head.cmd = "PUT" /\ WholeAt(units, i) =>
                     /\ n + 1 <= Len(asked)
                     /\ asked[n + 1] = [cmd |-> "PUT", name |-> name,
                                        bytes |-> Bytes(Payload(units, i))]
                     /\ OwesFrom(units, refused, ended, n + 1, next, NULL)
<1> DEFINE asked == RequestsOf(units, refused, ended)
           head == units[i].head
           next == After(units, i)
           f == Decoded(units, refused, ended)
           none == <<>>
           put == "PUT"
<1>1. i \in 1 .. Len(units) + 1 /\ name \in Byte /\ Owed(asked, n, f[i][name])
  BY DEF OwesFrom
<1>2. /\ next \in Nat /\ next > i
      /\ WholeAt(units, i) => Payload(units, i) \in Seq(Unit)
  BY <1>1, MessageType
<1>3. put \in Cmds /\ none \in Seq(Byte) /\ NULL \in Byte
  BY EmptySeq, NullIsByte DEF Cmds
<1>4. f[i][name] = RequestsFrom(units, i, name, f, refused, ended)
  BY <1>1, DecodedAt
<1>5. CASE head.cmd # "PUT"
  <2>1. f[i][name] = Ask(put, NULL, none)
    BY <1>4, <1>5 DEF RequestsFrom
  <2> HIDE DEF asked, f, none, put
  <2>2. n + 1 <= Len(asked) /\ asked[n + 1] = [cmd |-> put, name |-> NULL, bytes |-> none]
    BY <1>1, <1>3, <2>1, OwedLast
  <2>3. asked[n + 1].cmd = put
    BY <2>2
  <2>. QED
    BY <1>5, <2>2, <2>3 DEF asked, put
<1>6. CASE head.cmd = "PUT" /\ WholeAt(units, i)
  <2> DEFINE bytes == Bytes(Payload(units, i))
             rest == f[i][name]
             more == f[next][NULL]
  <2>1. rest = AskBefore(put, name, bytes, more)
    BY <1>4, <1>6 DEF RequestsFrom, AskBefore
  <2>2. bytes \in Seq(Byte)
    BY <1>2, <1>6, BytesType
  <2>3. next \in 1 .. Len(units) + 1
    BY <1>1, <1>2, <1>6, LenProperties DEF WholeAt
  <2>4. more \in Seq(Request)
    BY <1>3, <2>3, DecodedType
  <2> HIDE DEF asked, f, next, bytes, rest, more, put
  <2>5. /\ n + 1 <= Len(asked) /\ Owed(asked, n + 1, more)
        /\ asked[n + 1] = [cmd |-> put, name |-> name, bytes |-> bytes]
    <3>1. Owed(asked, n, rest)
      BY <1>1 DEF rest
    <3>. QED
      BY <1>1, <1>3, <2>1, <2>2, <2>4, <3>1, OwedNext
  <2>6. OwesFrom(units, refused, ended, n + 1, next, NULL)
    BY <1>3, <2>3, <2>5 DEF OwesFrom, asked, f, more
  <2>. QED
    BY <1>6, <2>5, <2>6 DEF asked, next, bytes, put
<1>. QED
  BY <1>5, <1>6

-----------------------------------------------------------------------------
(* What the replies, and the directory, have to do with what is asked.     *)

(* The replies of `log` answer what is asked.                              *)
InTurn(log, asked) ==
    /\ Len(log) <= Len(asked)
    /\ \A i \in 1 .. Len(log) : log[i].cmd = asked[i].cmd

(* What is sent of a reply belongs to the request it answers, whether it   *)
(* is the first of it or more.                                             *)
LEMMA PartAnswers ==
    ASSUME NEW log \in Seq(Reply), NEW asked, InTurn(log, asked), NEW r \in Reply,
           NEW from \in Nat, NEW upto \in Nat,
           NEW new, new = Extend(log, r, from, upto),
           from < upto, upto <= Len(r.body) + 1,
           NEW m, m = IF from = 0 THEN Len(log) + 1 ELSE Len(log),
           m <= Len(asked), asked[m].cmd = r.cmd
    PROVE  Len(new) = m /\ InTurn(new, asked)
<1>1. CASE from = 0
  <2>1. /\ Len(new) = Len(log) + 1 /\ new[Len(new)].cmd = r.cmd
        /\ \A i \in 1 .. Len(log) : new[i] = log[i]
    BY <1>1, ExtendBegins
  <2>2. Len(log) \in Nat
    BY LenProperties
  <2>3. ASSUME NEW i \in 1 .. Len(new)
        PROVE  new[i].cmd = asked[i].cmd
    <3>1. CASE i \in 1 .. Len(log)
      BY <2>1, <3>1 DEF InTurn
    <3>2. CASE i = m
      BY <1>1, <2>1, <3>2
    <3>. QED
      BY <1>1, <2>1, <2>2, <3>1, <3>2
  <2>. QED
    BY <1>1, <2>1, <2>3 DEF InTurn
<1>2. CASE from > 0
  <2> DEFINE more == Rest(r, from, upto)
  <2>1. new = Longer(log, more) /\ more \in Seq(Byte) /\ Len(new) = Len(log)
    BY <1>2, ExtendGoesOn
  <2> HIDE DEF more
  <2>2. \A i \in 1 .. Len(log) : new[i].cmd = log[i].cmd
    BY <2>1, LongerType
  <2>3. m = Len(log)
    BY <1>2
  <2>. QED
    BY <2>1, <2>2, <2>3 DEF InTurn
<1>. QED
  BY <1>1, <1>2

(* The reply to a download is begun: its header alone.                     *)
LEMMA HeaderCarries ==
    ASSUME NEW log \in Seq(Reply), NEW r \in Reply, r.body = <<>>,
           NEW upto \in Nat, upto = 1,
           NEW new, new = Extend(log, r, 0, upto)
    PROVE  /\ Len(new) = Len(log) + 1 /\ new[Len(new)].length = r.length
           /\ Len(new[Len(new)].body) = 0
<1> DEFINE none == 0
<1>1. none \in Nat /\ none < upto /\ upto <= Len(r.body) + 1 /\ none = 0
      /\ upto - 1 = 0
  OBVIOUS
<1>2. new = Extend(log, r, none, upto)
  OBVIOUS
<1> HIDE DEF none
<1>3. /\ Len(new) = Len(log) + 1 /\ new[Len(new)].length = r.length
      /\ new[Len(new)].body = SubSeq(r.body, 1, upto - 1)
  BY <1>1, <1>2, ExtendBegins
<1>4. new[Len(new)].body = <<>>
  <2> DEFINE first == 1
             end == upto - 1
  <2>1. first \in Int /\ end \in Int /\ end < first
    BY <1>1
  <2>2. new[Len(new)].body = SubSeq(r.body, first, end)
    BY <1>3
  <2> HIDE DEF first, end
  <2>. QED
    BY <2>1, <2>2, SubSeqEmpty
<1>5. Len(new[Len(new)].body) = 0
  BY <1>4
<1>. QED
  BY <1>3, <1>5

LEMMA UploadsHave ==
    ASSUME NEW asked, NEW name, NEW p, NEW i
    PROVE  <<p, i>> \in Uploads(asked, name) <=>
               /\ p \in Peers /\ i \in DOMAIN asked[p]
               /\ asked[p][i].cmd = "PUT" /\ asked[p][i].name = name
<1> DEFINE of(q) == {<<q, j>> : j \in {k \in DOMAIN asked[q] :
                         asked[q][k].cmd = "PUT" /\ asked[q][k].name = name}}
<1>1. ASSUME NEW q, NEW u \in of(q), u = <<p, i>>
      PROVE  /\ q = p /\ i \in DOMAIN asked[p]
             /\ asked[p][i].cmd = "PUT" /\ asked[p][i].name = name
  BY <1>1
<1>2. ASSUME i \in DOMAIN asked[p], asked[p][i].cmd = "PUT", asked[p][i].name = name
      PROVE  <<p, i>> \in of(p)
  BY <1>2
<1>3. Uploads(asked, name) = UNION {of(q) : q \in Peers}
  BY DEF Uploads
<1> HIDE DEF of
<1>4. <<p, i>> \in Uploads(asked, name) <=> \E q \in Peers : <<p, i>> \in of(q)
  BY <1>3
<1>. QED
  BY <1>1, <1>2, <1>4

(* Whose bytes the file `name` may have at place k.                        *)
InPlace(asked, name, k, block) ==
    \/ block = NULL
    \/ \E d \in Directories : k \in DOMAIN d[name].data /\ d[name].data[k] = block
    \/ \E u \in Uploads(asked, name) :
          k \in DOMAIN asked[u[1]][u[2]].bytes /\ asked[u[1]][u[2]].bytes[k] = block

AllInPlace(asked, dir) ==
    \A name \in SafeNames : \A k \in DOMAIN dir[name].data :
        InPlace(asked, name, k, dir[name].data[k])

(* The i-th request of p, if it is the only upload of its name.            *)
StoredWhole(asked, p, i, dir) ==
    LET r == asked[p][i] IN
    r.cmd = "PUT" /\ Uploads(asked, r.name) = {<<p, i>>} =>
        r.name \in SafeNames /\ dir[r.name] = [kind |-> "reg", data |-> r.bytes]

(* What a download carries is the beginning of the file.                   *)
Carries(reply, data) ==
    /\ reply.length = Len(data) /\ Len(reply.body) <= Len(data)
    /\ \A k \in 1 .. Len(reply.body) : reply.body[k] = data[k]

(* The i-th request of p, if nobody uploads its name.                      *)
Fetched(asked, p, i, reply, dir) ==
    LET r == asked[p][i] IN
    r.cmd = "GET" /\ Uploads(asked, r.name) = {} =>
        r.name \in SafeNames /\ Carries(reply, dir[r.name].data)
=============================================================================
