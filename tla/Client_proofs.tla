----------------------------- MODULE Client_proofs -----------------------------
(***************************************************************************)
(* The clients' side of the proofs that clients and server keep in step,   *)
(* whichever server it is: what a client is sent, the messages it sends    *)
(* and what its own steps leave of the types and of the invariant.         *)
(***************************************************************************)
EXTENDS Client, Service_proofs

-----------------------------------------------------------------------------
(* The units of the replies.                                               *)

LEMMA ReplyUnitsAre ==
    ASSUME NEW r \in Reply, NEW units, units = ReplyUnits(r)
    PROVE  /\ units \in Seq(Reply) /\ Len(units) = Len(r.body) + 1
           /\ units[1].body = <<>> /\ units[1].cmd = r.cmd
           /\ units[1].status = r.status /\ units[1].length = r.length
           /\ \A k \in 1 .. Len(r.body) : units[k + 1].body = <<r.body[k]>>
<1> DEFINE first == <<[r EXCEPT !.body = <<>>]>>
           byte(b) == [cmd |-> "OTHER", status |-> 1, length |-> 0, body |-> <<b>>]
           rest == [i \in 1 .. Len(r.body) |-> byte(r.body[i])]
<1>1. r.body \in Seq(Byte) /\ Len(r.body) \in Nat /\ DOMAIN r.body = 1 .. Len(r.body)
  BY LenProperties DEF Reply
<1>2. [r EXCEPT !.body = <<>>] \in Reply /\ <<>> \in Seq(Byte)
  BY EmptySeq DEF Reply
<1>3. first \in Seq(Reply) /\ Len(first) = 1 /\ first[1] = [r EXCEPT !.body = <<>>]
  BY <1>2
<1>4. ASSUME NEW b \in Byte PROVE byte(b) \in Reply /\ byte(b).body = <<b>>
  BY DEF Reply, Cmds
<1>5. \A i \in 1 .. Len(r.body) : r.body[i] \in Byte
  BY <1>1, ElementOfSeq
<1> HIDE DEF byte
<1>6. rest \in Seq(Reply) /\ Len(rest) = Len(r.body)
      /\ \A i \in 1 .. Len(r.body) : rest[i] = byte(r.body[i])
  BY <1>1, <1>4, <1>5
<1>7. units = first \o rest
  BY <1>1 DEF ReplyUnits, byte
<1>8. first[1].body = <<>> /\ first[1].cmd = r.cmd /\ first[1].status = r.status
      /\ first[1].length = r.length
  BY <1>3 DEF Reply
<1> HIDE DEF first, rest
<1>9. /\ units \in Seq(Reply) /\ Len(units) = Len(r.body) + 1
      /\ \A i \in 1 .. Len(r.body) + 1 :
            units[i] = IF i <= 1 THEN first[i] ELSE rest[i - 1]
  <2>1. /\ first \o rest \in Seq(Reply) /\ Len(first \o rest) = Len(first) + Len(rest)
        /\ \A i \in 1 .. Len(first) + Len(rest) :
              (first \o rest)[i] = IF i <= Len(first) THEN first[i] ELSE rest[i - Len(first)]
    <3>1. first \in Seq(Reply) /\ rest \in Seq(Reply)
      BY <1>3, <1>6
    <3>. QED
      BY <3>1, ConcatProperties
  <2>2. Len(first) + Len(rest) = Len(r.body) + 1
    BY <1>1, <1>3, <1>6
  <2>. QED
    BY <1>3, <1>7, <2>1, <2>2
<1>10. units[1] = first[1]
  BY <1>1, <1>9
<1>11. \A k \in 1 .. Len(r.body) : units[k + 1].body = <<r.body[k]>>
  <2>1. TAKE k \in 1 .. Len(r.body)
  <2>2. units[k + 1] = rest[k]
    BY <1>1, <1>9
  <2>. QED
    BY <2>2, <1>4, <1>5, <1>6
<1>. QED
  BY <1>8, <1>9, <1>10, <1>11

(* The recursive function of UnitsOf exists, and so it is what its         *)
(* equation says.                                                          *)
Unrolls(f, log, n) ==
    f = [k \in 0 .. n |-> IF k = 0 THEN <<>> ELSE f[k - 1] \o ReplyUnits(log[k])]
Unrolled(log) == CHOOSE f : Unrolls(f, log, Len(log))

LEMMA UnitsUnrolled ==
    ASSUME NEW log
    PROVE  UnitsOf(log) = Unrolled(log)[Len(log)]
BY DEF UnitsOf, Unrolled, Unrolls

LEMMA UnrollsOneMore ==
    ASSUME NEW log, NEW n \in Nat, NEW f, Unrolls(f, log, n)
    PROVE  \E g : Unrolls(g, log, n + 1)
<1> DEFINE step(h, k) == IF k = 0 THEN <<>> ELSE h[k - 1] \o ReplyUnits(log[k])
           g == [k \in 0 .. n + 1 |-> IF k = n + 1 THEN step(f, k) ELSE f[k]]
<1>1. \A k \in 0 .. n : f[k] = step(f, k)
  BY DEF Unrolls
<1>2. ASSUME NEW k \in 0 .. n + 1 PROVE g[k] = step(g, k)
  <2>1. CASE k = 0
    BY <1>1, <2>1
  <2>2. CASE k # 0
    <3>1. k - 1 \in 0 .. n /\ k - 1 \in 0 .. n + 1 /\ k - 1 # n + 1
      BY <2>2
    <3>2. g[k - 1] = f[k - 1]
      BY <3>1
    <3>3. step(g, k) = step(f, k)
      BY <2>2, <3>2, SMTT(30)
    <3>4. g[k] = step(f, k)
      <4>1. CASE k = n + 1
        BY <4>1
      <4>2. CASE k # n + 1
        <5>1. k \in 0 .. n
          BY <4>2
        <5>. QED
          BY <4>2, <5>1, <1>1
      <4>. QED
        BY <4>1, <4>2
    <3>. QED
      BY <3>3, <3>4
  <2>. QED
    BY <2>1, <2>2
<1>3. g = [k \in 0 .. n + 1 |-> g[k]]
  OBVIOUS
<1> HIDE DEF g
<1>4. g = [k \in 0 .. n + 1 |-> step(g, k)]
  BY <1>2, <1>3
<1>5. Unrolls(g, log, n + 1)
  BY <1>4 DEF Unrolls
<1>. QED
  BY <1>5

LEMMA UnrollsExists ==
    ASSUME NEW log, NEW n \in Nat
    PROVE  \E f : Unrolls(f, log, n)
<1> DEFINE Fails == {k \in Nat : ~\E f : Unrolls(f, log, k)}
<1>1. SUFFICES ASSUME Fails # {} PROVE FALSE
  OBVIOUS
<1>2. PICK k \in Fails : \A m \in Fails : k <= m
  <2>1. Fails \in SUBSET Nat
    OBVIOUS
  <2> HIDE DEF Fails
  <2>. QED
    BY <1>1, <2>1, LeastNatural
<1>3. CASE k = 0
  <2> DEFINE f == [j \in 0 .. 0 |-> <<>>]
  <2>1. f = [j \in 0 .. 0 |-> IF j = 0 THEN <<>> ELSE f[j - 1] \o ReplyUnits(log[j])]
    OBVIOUS
  <2>2. Unrolls(f, log, 0)
    BY <2>1 DEF Unrolls
  <2>. QED
    BY <1>3, <2>2
<1>4. CASE k # 0
  <2>1. k \in Nat /\ k - 1 \in Nat /\ (k - 1) + 1 = k /\ ~(k <= k - 1)
    BY <1>4
  <2>2. PICK f : Unrolls(f, log, k - 1)
    BY <1>2, <2>1
  <2>3. \E g : Unrolls(g, log, (k - 1) + 1)
    BY <2>1, <2>2, UnrollsOneMore
  <2>. QED
    BY <2>1, <2>3
<1>. QED
  BY <1>3, <1>4

(* What a function of that equation is at each place.                      *)
LEMMA UnrollsAt ==
    ASSUME NEW log, NEW n \in Nat, NEW f, Unrolls(f, log, n), NEW k \in 0 .. n
    PROVE  f[k] = IF k = 0 THEN <<>> ELSE f[k - 1] \o ReplyUnits(log[k])
BY DEF Unrolls

(* The units of the first replies are the same in a longer log.            *)
LEMMA UnrollsAgree ==
    ASSUME NEW log, NEW new, NEW m \in Nat, NEW n \in Nat, m <= n,
           \A i \in 1 .. m : new[i] = log[i],
           NEW f, Unrolls(f, log, m), NEW g, Unrolls(g, new, n)
    PROVE  f[m] = g[m]
<1> DEFINE Differ == {k \in 0 .. m : f[k] # g[k]}
<1>1. SUFFICES ASSUME Differ # {} PROVE FALSE
  BY <1>1
<1>2. PICK k \in Differ : \A j \in Differ : k <= j
  <2>1. Differ \in SUBSET Nat
    OBVIOUS
  <2> HIDE DEF Differ
  <2>. QED
    BY <1>1, <2>1, LeastNatural
<1>3. k \in 0 .. m /\ k \in 0 .. n
  BY <1>2
<1>4. /\ f[k] = IF k = 0 THEN <<>> ELSE f[k - 1] \o ReplyUnits(log[k])
      /\ g[k] = IF k = 0 THEN <<>> ELSE g[k - 1] \o ReplyUnits(new[k])
  BY <1>3, UnrollsAt
<1>5. CASE k = 0
  BY <1>2, <1>4, <1>5
<1>6. CASE k # 0
  <2>1. k \in 1 .. m /\ k - 1 \in 0 .. m /\ ~(k <= k - 1)
    BY <1>3, <1>6
  <2>2. f[k - 1] = g[k - 1]
    BY <1>2, <2>1
  <2>3. new[k] = log[k]
    BY <2>1
  <2>4. f[k] = g[k]
    BY <1>4, <1>6, <2>2, <2>3
  <2>. QED
    BY <1>2, <2>4
<1>. QED
  BY <1>5, <1>6

LEMMA UnitsOfIs ==
    ASSUME NEW log \in Seq(Reply)
    PROVE  Unrolls(Unrolled(log), log, Len(log)) /\ Len(log) \in Nat
<1>1. Len(log) \in Nat
  BY LenProperties
<1>2. \E f : Unrolls(f, log, Len(log))
  BY <1>1, UnrollsExists
<1>. QED
  BY <1>1, <1>2 DEF Unrolled

LEMMA NothingSent == UnitsOf(<<>>) = <<>>
<1>1. <<>> \in Seq(Reply) /\ Len(<<>>) = 0
  BY EmptySeq
<1>2. Unrolls(Unrolled(<<>>), <<>>, 0)
  BY <1>1, UnitsOfIs
<1>3. Unrolled(<<>>)[0] = <<>>
  BY <1>2, UnrollsAt
<1>. QED
  BY <1>1, <1>3, UnitsUnrolled

(* Another reply.                                                          *)
LEMMA AppendUnits ==
    ASSUME NEW log \in Seq(Reply), NEW r \in Reply
    PROVE  UnitsOf(Append(log, r)) = UnitsOf(log) \o ReplyUnits(r)
<1> DEFINE new == Append(log, r)
           m == Len(log)
<1>1. /\ m \in Nat /\ new \in Seq(Reply) /\ Len(new) = m + 1 /\ new[m + 1] = r
      /\ \A i \in 1 .. m : new[i] = log[i]
  BY AppendProperties, LenProperties
<1> HIDE DEF new
<1>2. Unrolls(Unrolled(log), log, m) /\ Unrolls(Unrolled(new), new, m + 1)
  BY <1>1, UnitsOfIs
<1> HIDE DEF m
<1>3. Unrolled(log)[m] = Unrolled(new)[m]
  <2>1. m + 1 \in Nat /\ m <= m + 1
    BY <1>1
  <2>. QED
    BY <1>1, <1>2, <2>1, UnrollsAgree
<1>4. Unrolled(new)[m + 1] = Unrolled(new)[m] \o ReplyUnits(r)
  <2> DEFINE n == m + 1
             g == Unrolled(new)
  <2>1. n \in Nat /\ n \in 0 .. n /\ n # 0 /\ n - 1 = m /\ new[n] = r
    BY <1>1
  <2>2. Unrolls(g, new, n)
    BY <1>2
  <2> HIDE DEF n, g
  <2>3. g[n] = IF n = 0 THEN <<>> ELSE g[n - 1] \o ReplyUnits(new[n])
    BY <2>1, <2>2, UnrollsAt
  <2>4. g[n] = g[m] \o ReplyUnits(r)
    BY <2>1, <2>3
  <2>. QED
    BY <2>4 DEF n, g
<1>5. UnitsOf(log) = Unrolled(log)[m] /\ UnitsOf(new) = Unrolled(new)[m + 1]
  BY <1>1, UnitsUnrolled DEF m
<1>. QED
  BY <1>3, <1>4, <1>5 DEF new

LEMMA UnitsType ==
    ASSUME NEW log \in Seq(Reply)
    PROVE  UnitsOf(log) \in Seq(Reply) /\ Len(UnitsOf(log)) \in Nat
<1> DEFINE f == Unrolled(log)
           Fails == {k \in 0 .. Len(log) : f[k] \notin Seq(Reply)}
<1>1. Unrolls(f, log, Len(log)) /\ Len(log) \in Nat
  BY UnitsOfIs
<1>2. Fails = {}
  <2>1. SUFFICES ASSUME Fails # {} PROVE FALSE
    OBVIOUS
  <2>2. PICK k \in Fails : \A j \in Fails : k <= j
    <3>1. Fails \in SUBSET Nat
      OBVIOUS
    <3> HIDE DEF Fails
    <3>. QED
      BY <2>1, <3>1, LeastNatural
  <2> HIDE DEF f
  <2>3. f[k] = IF k = 0 THEN <<>> ELSE f[k - 1] \o ReplyUnits(log[k])
    BY <1>1, UnrollsAt
  <2>4. CASE k = 0
    BY <2>2, <2>3, <2>4, EmptySeq
  <2>5. CASE k # 0
    <3>1. k \in 1 .. Len(log) /\ k - 1 \in 0 .. Len(log) /\ ~(k <= k - 1)
      BY <1>1, <2>5
    <3>2. f[k - 1] \in Seq(Reply)
      BY <2>2, <3>1
    <3>3. ReplyUnits(log[k]) \in Seq(Reply)
      BY <3>1, ElementOfSeq, ReplyUnitsAre
    <3>4. f[k] \in Seq(Reply)
      BY <2>3, <2>5, <3>2, <3>3, ConcatProperties
    <3>. QED
      BY <3>4
  <2>. QED
    BY <2>4, <2>5
<1>3. f[Len(log)] \in Seq(Reply)
  <2> HIDE DEF f
  <2>. QED
    BY <1>1, <1>2
<1>. QED
  BY <1>3, UnitsUnrolled, LenProperties

(* r is the last reply, and s are those before it.                         *)
EndsWith(log, s, r) == log = Append(s, r)

LEMMA LogEnds ==
    ASSUME NEW log \in Seq(Reply), log # <<>>
    PROVE  \E s \in Seq(Reply) : \E r \in Reply :
              EndsWith(log, s, r) /\ r = log[Len(log)] /\ Len(log) = Len(s) + 1
<1>1. PICK s \in Seq(Reply), r \in Reply : log = Append(s, r)
  BY SequenceEmptyOrAppend
<1>2. log[Len(s) + 1] = r /\ Len(log) = Len(s) + 1
  BY <1>1, AppendProperties
<1>. QED
  BY <1>1, <1>2 DEF EndsWith

(* u is the header of r.                                                   *)
HeadOf(u, r) ==
    u.body = <<>> /\ u.cmd = r.cmd /\ u.status = r.status /\ u.length = r.length

(* The header of the last reply is where the reply begins.                 *)
LEMMA UnitsAppended ==
    ASSUME NEW log \in Seq(Reply), NEW r \in Reply, NEW new, EndsWith(new, log, r),
           NEW units, units = UnitsOf(new)
    PROVE  /\ Len(units) = Len(UnitsOf(log)) + 1 + Len(r.body)
           /\ HeadOf(units[Len(UnitsOf(log)) + 1], r)
<1> DEFINE before == UnitsOf(log)
           last == ReplyUnits(r)
           a == Len(before)
           b == Len(r.body)
           c == Len(last)
<1>1. last \in Seq(Reply) /\ c = b + 1 /\ HeadOf(last[1], r)
  BY ReplyUnitsAre DEF HeadOf
<1>2. b \in Nat /\ before \in Seq(Reply) /\ a \in Nat
  BY UnitsType, LenProperties DEF Reply
<1>3. units = before \o last
  BY AppendUnits DEF EndsWith
<1> HIDE DEF before, last
<1>4. /\ Len(units) = a + c
      /\ \A i \in 1 .. a + c : units[i] = IF i <= a THEN before[i] ELSE last[i - a]
  <2>1. before \in Seq(Reply) /\ last \in Seq(Reply)
    BY <1>1, <1>2
  <2>2. /\ Len(before \o last) = Len(before) + Len(last)
        /\ \A i \in 1 .. Len(before) + Len(last) :
              (before \o last)[i] = IF i <= Len(before) THEN before[i]
                                    ELSE last[i - Len(before)]
    BY <2>1, ConcatProperties
  <2>. QED
    BY <1>3, <2>2
<1> HIDE DEF a, b, c
<1>5. a + c = a + 1 + b /\ a + 1 \in 1 .. a + c /\ ~(a + 1 <= a) /\ a + 1 - a = 1
  BY <1>1, <1>2
<1>6. units[a + 1] = last[1]
  <2>1. units[a + 1] = IF a + 1 <= a THEN before[a + 1] ELSE last[a + 1 - a]
    BY <1>2, <1>4, <1>5
  <2>. QED
    BY <1>2, <1>5, <2>1
<1>. QED
  BY <1>1, <1>4, <1>5, <1>6 DEF a, b, before

LEMMA UnitsLast ==
    ASSUME NEW log \in Seq(Reply), log # <<>>
    PROVE  LET r == log[Len(log)]
               units == UnitsOf(log)
               k == Len(units) - Len(r.body)
           IN  k \in 1 .. Len(units) /\ HeadOf(units[k], r)
<1>1. PICK s \in Seq(Reply), r \in Reply : EndsWith(log, s, r) /\ r = log[Len(log)]
  BY LogEnds
<1> DEFINE units == UnitsOf(log)
           a == Len(UnitsOf(s))
           b == Len(r.body)
           d == Len(units)
<1>2. d = a + 1 + b /\ HeadOf(units[a + 1], r)
  BY <1>1, UnitsAppended
<1>3. a \in Nat /\ b \in Nat
  BY UnitsType, LenProperties DEF Reply
<1> HIDE DEF a, b, d
<1>4. d - b = a + 1 /\ a + 1 \in 1 .. d
  BY <1>2, <1>3
<1>5. d - b \in 1 .. d /\ HeadOf(units[d - b], r)
  BY <1>2, <1>4
<1>. QED
  BY <1>1, <1>5 DEF b, d

(* A reply with more of its body.                                          *)
Grown(r, more) == [r EXCEPT !.body = @ \o more]

LEMMA GrownIs ==
    ASSUME NEW r \in Reply, NEW more \in Seq(Byte)
    PROVE  /\ Grown(r, more) \in Reply
           /\ Len(Grown(r, more).body) = Len(r.body) + Len(more)
<1> DEFINE body == r.body
           grown == body \o more
<1>1. body \in Seq(Byte)
  BY DEF Reply
<1> HIDE DEF body
<1>2. grown \in Seq(Byte) /\ Len(grown) = Len(body) + Len(more)
  BY <1>1, ConcatProperties
<1>3. Grown(r, more) = [r EXCEPT !.body = grown]
  BY DEF Grown, body
<1> HIDE DEF grown
<1>4. Grown(r, more) \in Reply /\ Grown(r, more).body = grown
  BY <1>2, <1>3 DEF Reply
<1>. QED
  BY <1>2, <1>4 DEF body

(* a is log with another last reply.                                       *)
LastIs(a, log, r) ==
    /\ a \in Seq(Reply) /\ Len(a) = Len(log)
    /\ \A j \in 1 .. Len(log) : a[j] = IF j = Len(log) THEN r ELSE log[j]

LEMMA LastReplaced ==
    ASSUME NEW log \in Seq(Reply), Len(log) \in 1 .. Len(log), NEW r \in Reply
    PROVE  LastIs([log EXCEPT ![Len(log)] = r], log, r)
BY ExceptSeq DEF LastIs

LEMMA LongerIsAppend ==
    ASSUME NEW s \in Seq(Reply), NEW r \in Reply, NEW log, EndsWith(log, s, r),
           NEW more \in Seq(Byte), NEW more2 \in Reply, more2 = Grown(r, more)
    PROVE  EndsWith(Longer(log, more), s, more2)
<1>1. /\ log \in Seq(Reply) /\ Len(log) = Len(s) + 1 /\ log[Len(log)] = r
      /\ \A i \in 1 .. Len(s) : log[i] = s[i]
  BY AppendProperties DEF EndsWith
<1>2. Len(s) \in Nat /\ Len(log) \in 1 .. Len(log)
  BY <1>1, LenProperties
<1>3. Longer(log, more) = [log EXCEPT ![Len(log)] = more2]
  <2>1. Longer(log, more) = [log EXCEPT ![Len(log)] = Grown(log[Len(log)], more)]
    BY DEF Longer, Grown
  <2>. QED
    BY <1>1, <2>1
<1> DEFINE a == [log EXCEPT ![Len(log)] = more2]
           b == Append(s, more2)
<1>4. /\ a \in Seq(Reply) /\ Len(a) = Len(log)
      /\ \A j \in 1 .. Len(log) : a[j] = IF j = Len(log) THEN more2 ELSE log[j]
  <2>1. LastIs(a, log, more2)
    BY <1>1, <1>2, LastReplaced
  <2>. QED
    BY <2>1 DEF LastIs
<1>5. /\ b \in Seq(Reply) /\ Len(b) = Len(s) + 1 /\ b[Len(s) + 1] = more2
      /\ \A i \in 1 .. Len(s) : b[i] = s[i]
  BY AppendProperties
<1> HIDE DEF a, b
<1>6. \A i \in 1 .. Len(a) : a[i] = b[i]
  <2>1. TAKE i \in 1 .. Len(a)
  <2>2. i \in 1 .. Len(log) /\ i \in 1 .. Len(s) + 1
    BY <1>1, <1>4
  <2>3. CASE i = Len(log)
    BY <1>1, <1>4, <1>5, <2>2, <2>3
  <2>4. CASE i # Len(log)
    <3>1. i \in 1 .. Len(s)
      BY <1>1, <1>2, <2>2, <2>4
    <3>. QED
      BY <1>1, <1>4, <1>5, <2>2, <2>4, <3>1
  <2>. QED
    BY <2>3, <2>4
<1>7. a = b
  BY <1>1, <1>4, <1>5, <1>6, SeqEqual
<1>. QED
  BY <1>3, <1>7 DEF a, b, EndsWith

LEMMA UnitsLonger ==
    ASSUME NEW log \in Seq(Reply), log # <<>>, NEW more \in Seq(Byte)
    PROVE  Len(UnitsOf(Longer(log, more))) = Len(UnitsOf(log)) + Len(more)
<1>1. PICK s \in Seq(Reply), r \in Reply : EndsWith(log, s, r)
  BY LogEnds
<1> DEFINE body == r.body
           r2 == Grown(r, more)
<1>2. body \in Seq(Byte) /\ Len(body) \in Nat /\ Len(more) \in Nat
  BY LenProperties DEF Reply
<1>3. r2 \in Reply /\ Len(r2.body) = Len(body) + Len(more)
  BY GrownIs
<1> HIDE DEF r2
<1>4. r2 = Grown(r, more)
  BY DEF r2
<1>5. EndsWith(Longer(log, more), s, r2)
  <2>1. EndsWith(log, s, r) /\ r2 \in Reply /\ r2 = Grown(r, more)
    BY <1>1, <1>3, <1>4
  <2>. QED
    BY <2>1, LongerIsAppend
<1>6. Len(UnitsOf(log)) = Len(UnitsOf(s)) + 1 + Len(body)
  BY <1>1, UnitsAppended DEF body
<1>7. Len(UnitsOf(Longer(log, more))) = Len(UnitsOf(s)) + 1 + Len(r2.body)
  BY <1>3, <1>5, UnitsAppended
<1>8. Len(UnitsOf(s)) \in Nat
  BY UnitsType
<1> DEFINE a == Len(UnitsOf(s))
           b == Len(body)
           c == Len(more)
           d == Len(r2.body)
           e == Len(UnitsOf(log))
           f == Len(UnitsOf(Longer(log, more)))
<1>9. a \in Nat /\ b \in Nat /\ c \in Nat /\ d = b + c /\ e = a + 1 + b /\ f = a + 1 + d
  BY <1>2, <1>3, <1>4, <1>5, <1>6, <1>7, <1>8
<1> HIDE DEF a, b, c, d, e, f
<1>10. f = e + c
  BY <1>9
<1>. QED
  BY <1>10 DEF c, e, f

(* A part of a reply that is sent has as many units as it says.            *)
LEMMA UnitsExtended ==
    ASSUME NEW log \in Seq(Reply), NEW r \in Reply, NEW from \in Nat, NEW upto \in Nat,
           from < upto, upto <= Len(r.body) + 1, from > 0 => log # <<>>,
           NEW new, new = Extend(log, r, from, upto)
    PROVE  Len(UnitsOf(new)) = Len(UnitsOf(log)) + (upto - from)
<1>1. r.body \in Seq(Byte) /\ Len(r.body) \in Nat
  BY LenProperties DEF Reply
<1>2. CASE from = 0
  <2> DEFINE part == SubSeq(r.body, 1, upto - 1)
             begun == [r EXCEPT !.body = part]
  <2>1. part \in Seq(Byte) /\ Len(part) = upto - 1
    <3>1. \A i \in 1 .. upto - 1 : r.body[i] \in Byte
      <4>1. ASSUME NEW i \in 1 .. upto - 1 PROVE r.body[i] \in Byte
        <5>1. i \in 1 .. Len(r.body)
          BY <1>1, <1>2
        <5>. QED
          BY <1>1, <5>1, ElementOfSeq
      <4>. QED
        BY <4>1
    <3>2. 1 \in Int /\ upto - 1 \in Int /\ (1 <= upto - 1 => upto - 1 - 1 + 1 = upto - 1)
          /\ (~(1 <= upto - 1) => upto - 1 = 0)
      BY <1>2
    <3>. QED
      BY <3>1, <3>2, SubSeqProperties
  <2>2. begun \in Reply /\ begun.body = part
    BY <2>1 DEF Reply
  <2>3. EndsWith(new, log, begun)
    BY <1>2 DEF Extend, EndsWith
  <2>4. Len(UnitsOf(new)) = Len(UnitsOf(log)) + 1 + Len(begun.body)
    BY <2>2, <2>3, UnitsAppended
  <2>5. Len(UnitsOf(new)) = Len(UnitsOf(log)) + 1 + (upto - 1)
    BY <2>1, <2>2, <2>3, <2>4
  <2>6. Len(UnitsOf(log)) \in Nat
    BY UnitsType
  <2> HIDE DEF part, begun
  <2>. QED
    BY <1>2, <2>5, <2>6
<1>3. CASE from # 0
  <2> DEFINE more == Rest(r, from, upto)
  <2>1. new = Longer(log, more) /\ more \in Seq(Byte)
    <3>1. from > 0
      BY <1>3
    <3>. QED
      BY <3>1, ExtendGoesOn
  <2>2. Len(more) = upto - from
    <3>1. \A i \in from .. upto - 1 : r.body[i] \in Byte
      <4>1. ASSUME NEW i \in from .. upto - 1 PROVE r.body[i] \in Byte
        <5>1. i \in 1 .. Len(r.body)
          BY <1>1, <1>3
        <5>. QED
          BY <1>1, <5>1, ElementOfSeq
      <4>. QED
        BY <4>1
    <3>2. from \in Int /\ upto - 1 \in Int /\ from <= upto - 1
          /\ upto - 1 - from + 1 = upto - from
      OBVIOUS
    <3>. QED
      BY <3>1, <3>2, SubSeqProperties DEF Rest
  <2>3. log # <<>>
    BY <1>3
  <2> HIDE DEF more
  <2>4. Len(UnitsOf(Longer(log, more))) = Len(UnitsOf(log)) + Len(more)
    BY <2>1, <2>3, UnitsLonger
  <2>. QED
    BY <2>1, <2>2, <2>4
<1>. QED
  BY <1>2, <1>3

-----------------------------------------------------------------------------
(* Where a command is in the stream S of a client: all that it means to    *)
(* send, of which a part may not be sent yet.                              *)

(* A header begins at unit i.                                              *)
PartIs(u, k, cmd, n) ==
    u.part = k /\ u.head = [magic |-> TRUE, cmd |-> cmd, length |-> n]

HeaderIs(S, i, cmd, n) ==
    /\ i >= 1 /\ i + HdrLen <= Len(S) + 1
    /\ \A k \in 1 .. HdrLen : PartIs(S[i + k - 1], k, cmd, n)

(* The second message of a PUT, with its data, is the rest of S.           *)
DataAt(S, i) == HeaderIs(S, i, "PUT", Len(S) + 1 - (i + HdrLen))

NameAt(S, i, op) ==
    /\ i \in 1 .. Len(S) /\ S[i].byte = op.name
    /\ op.cmd = "GET" => Len(S) = i
    /\ op.cmd = "PUT" => DataAt(S, i + 1)

NameLen(cmd) == IF cmd \in {"GET", "PUT"} THEN 1 ELSE 0

CommandAt(S, i, op) ==
    /\ op.cmd \in {"LIST", "GET", "PUT", "QUIT"}
    /\ HeaderIs(S, i, op.cmd, NameLen(op.cmd))
    /\ op.cmd \in {"LIST", "QUIT"} => Len(S) + 1 = i + HdrLen
    /\ op.cmd \in {"GET", "PUT"} => NameAt(S, i + HdrLen, op)

(* S ends with the units of `more`, which begin at unit i.                 *)
EndsAt(S, i, more) ==
    /\ i \in Nat /\ i >= 1 /\ Len(S) \in Nat /\ Len(S) + 1 = i + Len(more)
    /\ \A k \in 1 .. Len(more) : S[i + k - 1] = more[k]

LEMMA EndsAtJoined ==
    ASSUME NEW s \in Seq(Unit), NEW more \in Seq(Unit)
    PROVE  EndsAt(s \o more, Len(s) + 1, more)
<1> DEFINE S == s \o more
           a == Len(s)
           b == Len(more)
<1>1. /\ a \in Nat /\ b \in Nat /\ Len(S) = a + b
      /\ \A i \in 1 .. a + b : S[i] = IF i <= a THEN s[i] ELSE more[i - a]
  BY ConcatProperties, LenProperties
<1> HIDE DEF S, a, b
<1>2. /\ a + 1 \in Nat /\ a + 1 >= 1 /\ Len(S) \in Nat /\ Len(S) + 1 = a + 1 + b
  BY <1>1
<1>3. ASSUME NEW k \in 1 .. b PROVE S[a + 1 + k - 1] = more[k]
  <2>1. /\ a + 1 + k - 1 \in 1 .. a + b /\ ~(a + 1 + k - 1 <= a)
        /\ a + 1 + k - 1 - a = k
    BY <1>1
  <2>. QED
    BY <1>1, <2>1
<1>. QED
  BY <1>2, <1>3 DEF EndsAt, S, a, b

Then(s, more) == s \o more

LEMMA EndsAtRest ==
    ASSUME NEW S \in Seq(Unit), NEW i, NEW s \in Seq(Unit), NEW more \in Seq(Unit),
           NEW both, both = Then(s, more), EndsAt(S, i, both)
    PROVE  /\ EndsAt(S, i + Len(s), more)
           /\ i + Len(s) <= Len(S) + 1
           /\ \A k \in 1 .. Len(s) : S[i + k - 1] = s[k]
<1> DEFINE a == Len(s)
           b == Len(more)
           m == Len(S)
<1>1. /\ a \in Nat /\ b \in Nat /\ Len(both) = a + b
      /\ \A k \in 1 .. a + b : both[k] = IF k <= a THEN s[k] ELSE more[k - a]
  BY ConcatProperties, LenProperties DEF Then
<1>2. /\ i \in Nat /\ i >= 1 /\ m \in Nat /\ m + 1 = i + (a + b)
      /\ \A k \in 1 .. a + b : S[i + k - 1] = both[k]
  BY <1>1 DEF EndsAt
<1> HIDE DEF a, b, m
<1>3. i + a \in Nat /\ i + a >= 1 /\ m + 1 = (i + a) + b /\ i + a <= m + 1
  BY <1>1, <1>2
<1>4. ASSUME NEW k \in 1 .. b PROVE S[(i + a) + k - 1] = more[k]
  <2>1. /\ a + k \in 1 .. a + b /\ ~(a + k <= a) /\ (a + k) - a = k
        /\ i + (a + k) - 1 = (i + a) + k - 1
    BY <1>1, <1>2
  <2>2. S[i + (a + k) - 1] = both[a + k] /\ both[a + k] = more[(a + k) - a]
    BY <1>1, <1>2, <2>1
  <2>. QED
    BY <2>1, <2>2
<1>5. ASSUME NEW k \in 1 .. a PROVE S[i + k - 1] = s[k]
  <2>1. k \in 1 .. a + b /\ k <= a
    BY <1>1
  <2>. QED
    BY <1>1, <1>2, <2>1
<1>. QED
  BY <1>2, <1>3, <1>4, <1>5 DEF EndsAt, a, b, m

HeaderFor(cmd, n) == HeaderUnits(TRUE, cmd, n)

LEMMA HeaderUnitsAre ==
    ASSUME NEW cmd \in Cmds, NEW n \in Nat, NEW units, units = HeaderFor(cmd, n)
    PROVE  /\ units \in Seq(Unit) /\ Len(units) = HdrLen
           /\ \A k \in 1 .. HdrLen : PartIs(units[k], k, cmd, n)
<1> DEFINE head == [magic |-> TRUE, cmd |-> cmd, length |-> n]
           unit(k) == [part |-> k, byte |-> NULL, head |-> head]
<1>1. HdrLen \in Nat
  BY WireAssumption
<1>2. head \in Header /\ NULL \in Byte
  BY DEF Header, Byte
<1>3. units = [i \in 1 .. HdrLen |-> unit(i)]
  BY DEF HeaderUnits, HeaderFor
<1> HIDE DEF head
<1>4. ASSUME NEW k \in 1 .. HdrLen
      PROVE  unit(k) \in Unit /\ unit(k).part = k /\ unit(k).head = head
  <2>1. k \in 0 .. HdrLen
    BY <1>1
  <2>. QED
    BY <1>2, <2>1 DEF Unit
<1> HIDE DEF unit
<1>5. units \in Seq(Unit) /\ Len(units) = HdrLen /\ \A k \in 1 .. HdrLen : units[k] = unit(k)
  BY <1>1, <1>3, <1>4
<1>. QED
  BY <1>4, <1>5 DEF head, PartIs

LEMMA ByteUnitsAre ==
    ASSUME NEW bytes \in Seq(Byte), NEW units, units = ByteUnits(bytes)
    PROVE  /\ units \in Seq(Unit) /\ Len(units) = Len(bytes)
           /\ \A k \in 1 .. Len(bytes) : units[k].part = 0 /\ units[k].byte = bytes[k]
<1> DEFINE unit(b) == [part |-> 0, head |-> NoHeader, byte |-> b]
<1>1. HdrLen \in Nat
  BY WireAssumption
<1>2. NoHeader \in Header
  BY DEF Header, NoHeader, Cmds
<1>3. Len(bytes) \in Nat /\ DOMAIN bytes = 1 .. Len(bytes)
      /\ \A k \in 1 .. Len(bytes) : bytes[k] \in Byte
  BY LenProperties, ElementOfSeq
<1>4. units = [i \in 1 .. Len(bytes) |-> unit(bytes[i])]
  BY <1>3 DEF ByteUnits
<1>5. ASSUME NEW b \in Byte
      PROVE  unit(b) \in Unit /\ unit(b).part = 0 /\ unit(b).byte = b
  <2>1. 0 \in 0 .. HdrLen
    BY <1>1
  <2>. QED
    BY <1>2, <2>1 DEF Unit
<1> HIDE DEF unit
<1>6. units \in Seq(Unit) /\ Len(units) = Len(bytes)
      /\ \A k \in 1 .. Len(bytes) : units[k] = unit(bytes[k])
  BY <1>3, <1>4, <1>5
<1>. QED
  BY <1>3, <1>5, <1>6

(* A header in S, and what follows it.                                     *)
LEMMA MessageAt ==
    ASSUME NEW S \in Seq(Unit), NEW i, NEW cmd \in Cmds, NEW n \in Nat,
           NEW head, head = HeaderFor(cmd, n), NEW more \in Seq(Unit),
           NEW both, both = Then(head, more), EndsAt(S, i, both)
    PROVE  HeaderIs(S, i, cmd, n) /\ EndsAt(S, i + HdrLen, more)
<1>1. /\ head \in Seq(Unit) /\ Len(head) = HdrLen
      /\ \A k \in 1 .. HdrLen : PartIs(head[k], k, cmd, n)
  BY HeaderUnitsAre
<1>2. /\ EndsAt(S, i + HdrLen, more) /\ i + HdrLen <= Len(S) + 1
      /\ \A k \in 1 .. HdrLen : S[i + k - 1] = head[k]
  <2>1. head \in Seq(Unit) /\ both = Then(head, more) /\ EndsAt(S, i, both)
    BY <1>1
  <2>2. /\ EndsAt(S, i + Len(head), more) /\ i + Len(head) <= Len(S) + 1
        /\ \A k \in 1 .. Len(head) : S[i + k - 1] = head[k]
    BY <2>1, EndsAtRest, SMTT(30)
  <2>. QED
    BY <1>1, <2>2
<1>3. i >= 1
  BY DEF EndsAt
<1>. QED
  BY <1>1, <1>2, <1>3 DEF HeaderIs

-----------------------------------------------------------------------------
(* The types of a client's process, and that nothing is left of one        *)
(* command for the next.                                                   *)
Command == [cmd : Cmds, name : Names \cup {""}, had : SUBSET SafeNames,
            shown : Seq(Byte), phase : {"idle", "running", "ok", "failed"}]

Process == [at : {"connect", "prompt", "send", "recv", "body", "closed"},
            out : Seq(Unit), left : Nat, drop : BOOLEAN, told : BOOLEAN,
            op : Command]

Between(c) ==
    /\ c.out # <<>> <=> c.at = "send"
    /\ c.left > 0 => c.at = "body"
    /\ c.drop => c.at = "body" /\ c.op.cmd = "GET"
    /\ c.at \in {"send", "recv", "body"} => c.op.phase = "running"
    /\ c.at \in {"connect", "prompt"} => c.op.phase # "running"

(* No client has more to read than it was sent.                            *)
ClientsTyped ==
    /\ cli \in [Peers -> Process]
    /\ todo \in [Peers -> Seq(Lines)]
    /\ local \in [Peers -> [Names -> File]]
    /\ \A p \in Peers : Between(cli[p]) /\ unread[p] <= Len(Sent(p))

(* All that p means to send so far.                                        *)
Means(p) == stream[p] \o cli[p].out

LastOf(log) == log[Len(log)]

(* r is a reply to op that may be the last of it.                          *)
Fits(r, op) ==
    /\ r.status = 0 => r.cmd = op.cmd
    /\ r.status = 1 \/ op.cmd \in {"PUT", "QUIT"} => r.length = 0

(* The header of the last reply is what the client reads next.             *)
InHand(op, log, un) ==
    log # <<>> /\ un = Len(LastOf(log).body) + 1 /\ Fits(LastOf(log), op)

(* It has read that header, and still has to read `left` of the body.      *)
InBody(left, log, un) ==
    log # <<>> /\ left + Len(LastOf(log).body) = un + LastOf(log).length

-----------------------------------------------------------------------------
(* What a client sends.                                                    *)

LEMMA ThenIs ==
    ASSUME NEW s \in Seq(Unit), NEW more \in Seq(Unit)
    PROVE  Then(s, more) \in Seq(Unit) /\ Len(Then(s, more)) = Len(s) + Len(more)
BY ConcatProperties DEF Then

LEMMA ThenThen ==
    ASSUME NEW s \in Seq(Unit), NEW t \in Seq(Unit), NEW more \in Seq(Unit)
    PROVE  Then(Then(s, t), more) = Then(s, Then(t, more))
BY ConcatAssociative DEF Then

OneByte(b) == <<b>>

LEMMA OneByteIs ==
    ASSUME NEW b \in Byte, NEW units, units = ByteUnits(OneByte(b))
    PROVE  units \in Seq(Unit) /\ Len(units) = 1 /\ units[1].byte = b
<1> DEFINE bytes == OneByte(b)
<1>1. bytes \in Seq(Byte) /\ Len(bytes) = 1 /\ bytes[1] = b
  BY DEF OneByte
<1> HIDE DEF bytes
<1>2. units = ByteUnits(bytes)
  BY DEF bytes
<1>3. units \in Seq(Unit) /\ Len(units) = Len(bytes)
      /\ \A k \in 1 .. Len(bytes) : units[k].part = 0 /\ units[k].byte = bytes[k]
  BY <1>1, <1>2, ByteUnitsAre
<1>. QED
  BY <1>1, <1>3

(* out is all that op has to send.                                         *)
Gives(out, op) ==
    /\ out \in Seq(Unit) /\ Len(out) > 0
    /\ \A S \in Seq(Unit) : \A i : EndsAt(S, i, out) => CommandAt(S, i, op)

(* A command without a name.                                               *)
LEMMA PlainMessage ==
    ASSUME NEW op, op.cmd \in {"LIST", "QUIT"},
           NEW out, out = Message(op.cmd, <<>>)
    PROVE  Gives(out, op)
<1> DEFINE none == <<>>
           units == ByteUnits(none)
           cmd == op.cmd
           head == HeaderFor(cmd, 0)
<1>1. none \in Seq(Byte) /\ Len(none) = 0
  OBVIOUS
<1>2. out = Then(head, units)
  BY DEF Message, Then, HeaderFor
<1> HIDE DEF none
<1>3. units \in Seq(Unit) /\ Len(units) = 0
  BY <1>1, ByteUnitsAre
<1>4. cmd \in Cmds /\ 0 \in Nat
  BY DEF Cmds
<1> HIDE DEF units, cmd
<1>5. head = HeaderFor(cmd, 0)
  OBVIOUS
<1> HIDE DEF head
<1>6. head \in Seq(Unit) /\ Len(head) = HdrLen
  BY <1>4, <1>5, HeaderUnitsAre
<1>7. HdrLen \in Nat /\ HdrLen > 0
  BY WireAssumption
<1>8. Then(head, units) \in Seq(Unit) /\ Len(Then(head, units)) = HdrLen + 0
  BY <1>3, <1>6, ThenIs
<1>9. ASSUME NEW S \in Seq(Unit), NEW i, EndsAt(S, i, out)
      PROVE  CommandAt(S, i, op)
  <2>1. HeaderIs(S, i, cmd, 0) /\ EndsAt(S, i + HdrLen, units)
    BY <1>2, <1>3, <1>4, <1>5, <1>9, MessageAt
  <2>2. Len(S) + 1 = i + HdrLen
    BY <1>3, <1>7, <1>9, <2>1 DEF EndsAt
  <2>. QED
    BY <2>1, <2>2 DEF CommandAt, NameLen, cmd
<1>. QED
  BY <1>2, <1>7, <1>8, <1>9 DEF Gives

(* S has the first message of a command with a name, and `more` after it.  *)
BeginsNamed(S, i, cmd, name, more) ==
    /\ HeaderIs(S, i, cmd, 1) /\ EndsAt(S, i + HdrLen + 1, more)
    /\ i + HdrLen \in 1 .. Len(S) /\ S[i + HdrLen].byte = name

FirstMessage(cmd, name) == Message(cmd, OneByte(name))

LEMMA FirstMessageIs ==
    ASSUME NEW cmd \in {"GET", "PUT"}, NEW name \in Names,
           NEW first, first = FirstMessage(cmd, name)
    PROVE  \E head, units \in Seq(Unit) :
              /\ first = Then(head, units) /\ head = HeaderFor(cmd, 1)
              /\ Len(head) = HdrLen /\ Len(units) = 1 /\ units[1].byte = name
<1> DEFINE units == ByteUnits(OneByte(name))
           head == HeaderFor(cmd, 1)
<1>1. Len(OneByte(name)) = 1 /\ name \in Byte
  BY DEF OneByte, Byte
<1>2. first = Then(head, units)
  BY <1>1 DEF FirstMessage, Message, Then, HeaderFor
<1>3. units = ByteUnits(OneByte(name)) /\ head = HeaderFor(cmd, 1)
  OBVIOUS
<1> HIDE DEF units, head
<1>4. units \in Seq(Unit) /\ Len(units) = 1 /\ units[1].byte = name
  BY <1>1, <1>3, OneByteIs
<1>5. cmd \in Cmds /\ 1 \in Nat
  BY DEF Cmds
<1>6. head \in Seq(Unit) /\ Len(head) = HdrLen
  BY <1>3, <1>5, HeaderUnitsAre
<1>. QED
  BY <1>2, <1>3, <1>4, <1>6

LEMMA NamedMessage ==
    ASSUME NEW cmd \in {"GET", "PUT"}, NEW name \in Names, NEW more \in Seq(Unit),
           NEW first, first = FirstMessage(cmd, name),
           NEW out, out = Then(first, more)
    PROVE  /\ out \in Seq(Unit) /\ Len(out) > 0
           /\ \A S \in Seq(Unit) : \A i :
                  EndsAt(S, i, out) => BeginsNamed(S, i, cmd, name, more)
<1>1. PICK head, units \in Seq(Unit) :
         /\ first = Then(head, units) /\ head = HeaderFor(cmd, 1)
         /\ Len(head) = HdrLen /\ Len(units) = 1 /\ units[1].byte = name
  BY FirstMessageIs
<1>2. cmd \in Cmds /\ 1 \in Nat
  BY DEF Cmds
<1>3. HdrLen \in Nat /\ HdrLen > 0
  BY WireAssumption
<1> DEFINE rest == Then(units, more)
<1>4. rest = Then(units, more)
  OBVIOUS
<1> HIDE DEF rest
<1>5. rest \in Seq(Unit) /\ Len(rest) = 1 + Len(more) /\ Len(more) \in Nat
  BY <1>1, <1>4, ThenIs, LenProperties
<1>6. out = Then(head, rest)
  <2>1. out = Then(Then(head, units), more)
    BY <1>1
  <2>2. Then(Then(head, units), more) = Then(head, Then(units, more))
    BY ThenThen
  <2>. QED
    BY <1>4, <2>1, <2>2
<1>7. out \in Seq(Unit) /\ Len(out) = HdrLen + (1 + Len(more))
  BY <1>1, <1>5, <1>6, ThenIs
<1>8. ASSUME NEW S \in Seq(Unit), NEW i, EndsAt(S, i, out)
      PROVE  BeginsNamed(S, i, cmd, name, more)
  <2> DEFINE j == i + HdrLen
  <2>1. HeaderIs(S, i, cmd, 1) /\ EndsAt(S, j, rest)
    BY <1>1, <1>2, <1>5, <1>6, <1>8, MessageAt
  <2>2. j \in Nat /\ j >= 1 /\ Len(S) \in Nat /\ Len(S) + 1 = j + (1 + Len(more))
    BY <1>5, <2>1 DEF EndsAt
  <2>3. j = i + HdrLen
    OBVIOUS
  <2>4. i \in Nat
    BY <1>8 DEF EndsAt
  <2> HIDE DEF j
  <2>5. /\ EndsAt(S, j + Len(units), more)
        /\ \A k \in 1 .. Len(units) : S[j + k - 1] = units[k]
    BY <1>4, <1>5, <2>1, EndsAtRest
  <2>6. S[j] = units[1] /\ j \in 1 .. Len(S)
    <3>1. 1 \in 1 .. Len(units) /\ j + 1 - 1 = j
      BY <1>1, <2>2
    <3>2. S[j + 1 - 1] = units[1]
      BY <2>5, <3>1
    <3>3. j <= Len(S)
      BY <1>5, <2>2
    <3>. QED
      BY <2>2, <3>1, <3>2, <3>3
  <2>7. EndsAt(S, j + 1, more)
    BY <1>1, <2>5
  <2>. QED
    BY <1>1, <2>1, <2>3, <2>6, <2>7 DEF BeginsNamed
<1>. QED
  BY <1>3, <1>5, <1>7, <1>8

LEMMA GetMessage ==
    ASSUME NEW op, op.cmd = "GET", op.name \in Names,
           NEW out, out = FirstMessage("GET", op.name)
    PROVE  Gives(out, op)
<1> DEFINE none == <<>>
           name == op.name
<1>1. none \in Seq(Unit) /\ Len(none) = 0
  OBVIOUS
<1>2. name \in Names /\ name = op.name /\ out = FirstMessage("GET", name)
  OBVIOUS
<1> HIDE DEF name
<1>3. PICK head, units \in Seq(Unit) : out = Then(head, units)
  BY <1>2, FirstMessageIs
<1>4. Then(out, none) = out
  <2>1. out \in Seq(Unit)
    BY <1>3, ThenIs
  <2>. QED
    BY <2>1, ConcatEmptySeq DEF Then
<1> HIDE DEF none
<1>5. /\ out \in Seq(Unit) /\ Len(out) > 0
      /\ \A S \in Seq(Unit) : \A i :
             EndsAt(S, i, out) => BeginsNamed(S, i, "GET", name, none)
  BY <1>1, <1>2, <1>4, NamedMessage
<1>6. ASSUME NEW S \in Seq(Unit), NEW i, EndsAt(S, i, out)
      PROVE  CommandAt(S, i, op)
  <2>1. BeginsNamed(S, i, "GET", name, none)
    BY <1>5, <1>6
  <2>2. /\ HeaderIs(S, i, "GET", 1) /\ EndsAt(S, i + HdrLen + 1, none)
        /\ i + HdrLen \in 1 .. Len(S) /\ S[i + HdrLen].byte = op.name
    BY <1>2, <2>1 DEF BeginsNamed
  <2>3. i \in Nat /\ HdrLen \in Nat
    BY <1>6, WireAssumption DEF EndsAt
  <2>4. Len(S) = i + HdrLen
    BY <1>1, <2>2, <2>3 DEF EndsAt
  <2>5. NameAt(S, i + HdrLen, op)
    BY <2>2, <2>4 DEF NameAt
  <2>. QED
    BY <2>2, <2>5 DEF CommandAt, NameLen
<1>. QED
  BY <1>5, <1>6 DEF Gives

(* Both messages of a PUT.                                                 *)
SecondMessage(data) == Then(HeaderFor("PUT", Len(data)), ByteUnits(data))

LEMMA SecondMessageIs ==
    ASSUME NEW data \in Seq(Byte), NEW more, more = SecondMessage(data)
    PROVE  /\ more \in Seq(Unit)
           /\ \A S \in Seq(Unit) : \A i : EndsAt(S, i, more) => DataAt(S, i)
<1> DEFINE head == HeaderFor("PUT", Len(data))
           units == ByteUnits(data)
<1>1. "PUT" \in Cmds /\ Len(data) \in Nat
  BY LenProperties DEF Cmds
<1>2. more = Then(head, units)
  BY DEF SecondMessage
<1>3. head = HeaderFor("PUT", Len(data)) /\ units = ByteUnits(data)
  OBVIOUS
<1> HIDE DEF head, units
<1>4. head \in Seq(Unit)
  BY <1>1, <1>3, HeaderUnitsAre
<1>5. units \in Seq(Unit) /\ Len(units) = Len(data)
  BY <1>3, ByteUnitsAre
<1>6. ASSUME NEW S \in Seq(Unit), NEW i, EndsAt(S, i, more)
      PROVE  DataAt(S, i)
  <2>1. HeaderIs(S, i, "PUT", Len(data)) /\ EndsAt(S, i + HdrLen, units)
    BY <1>1, <1>2, <1>3, <1>5, <1>6, MessageAt
  <2>2. Len(S) + 1 = i + HdrLen + Len(data) /\ i \in Nat /\ HdrLen \in Nat
        /\ Len(S) \in Nat
    BY <1>5, <1>6, <2>1, WireAssumption DEF EndsAt
  <2>3. Len(data) = Len(S) + 1 - (i + HdrLen)
    BY <1>1, <2>2
  <2>. QED
    BY <2>1, <2>3 DEF DataAt
<1>. QED
  BY <1>2, <1>4, <1>5, <1>6, ThenIs

LEMMA PutMessage ==
    ASSUME NEW op, op.cmd = "PUT", op.name \in Names, NEW data \in Seq(Byte),
           NEW out, out = Then(FirstMessage("PUT", op.name), SecondMessage(data))
    PROVE  Gives(out, op)
<1> DEFINE name == op.name
           more == SecondMessage(data)
           first == FirstMessage("PUT", name)
<1>1. /\ name \in Names /\ name = op.name /\ more = SecondMessage(data)
      /\ first = FirstMessage("PUT", name) /\ out = Then(first, more)
  OBVIOUS
<1> HIDE DEF name, more, first
<1>2. /\ more \in Seq(Unit)
      /\ \A S \in Seq(Unit) : \A i : EndsAt(S, i, more) => DataAt(S, i)
  BY <1>1, SecondMessageIs
<1>3. /\ out \in Seq(Unit) /\ Len(out) > 0
      /\ \A S \in Seq(Unit) : \A i :
             EndsAt(S, i, out) => BeginsNamed(S, i, "PUT", name, more)
  BY <1>1, <1>2, NamedMessage
<1>4. ASSUME NEW S \in Seq(Unit), NEW i, EndsAt(S, i, out)
      PROVE  CommandAt(S, i, op)
  <2>1. BeginsNamed(S, i, "PUT", name, more)
    BY <1>3, <1>4
  <2>2. /\ HeaderIs(S, i, "PUT", 1) /\ EndsAt(S, i + HdrLen + 1, more)
        /\ i + HdrLen \in 1 .. Len(S) /\ S[i + HdrLen].byte = op.name
    BY <1>1, <2>1 DEF BeginsNamed
  <2>3. DataAt(S, i + HdrLen + 1)
    BY <1>2, <2>2
  <2>4. NameAt(S, i + HdrLen, op)
    BY <2>2, <2>3 DEF NameAt
  <2>. QED
    BY <2>2, <2>4 DEF CommandAt, NameLen
<1>. QED
  BY <1>3, <1>4 DEF Gives

(* What a client sends is the command that its user gave.                  *)
LEMMA MessagesAre ==
    ASSUME NEW p \in Peers, local \in [Peers -> [Names -> File]],
           NEW line \in Lines, line.cmd # "OTHER",
           NEW op, op.cmd = line.cmd, op.name = line.name,
           NEW out, out = Messages(p, line)
    PROVE  Gives(out, op)
<1>1. line.cmd \in {"LIST", "QUIT", "GET", "PUT"}
      /\ (line.cmd \in {"GET", "PUT"} => line.name \in Names)
  BY DEF Lines, Cmds
<1>2. CASE line.cmd \in {"LIST", "QUIT"}
  <2>1. out = Message(op.cmd, <<>>)
    BY <1>2 DEF Messages
  <2>2. op.cmd \in {"LIST", "QUIT"}
    BY <1>2
  <2>. QED
    BY <2>1, <2>2, PlainMessage
<1>3. CASE line.cmd = "GET"
  <2>1. out = FirstMessage("GET", op.name)
    BY <1>3 DEF Messages, FirstMessage, OneByte
  <2>. QED
    BY <1>1, <1>3, <2>1, GetMessage
<1>4. CASE line.cmd = "PUT"
  <2> DEFINE data == local[p][op.name].data
             name == op.name
             first == FirstMessage("PUT", name)
             head == HeaderFor("PUT", Len(data))
             units == ByteUnits(data)
  <2>1. data \in Seq(Byte) /\ name \in Names
    BY <1>1, <1>4 DEF File
  <2>2. out = Message("PUT", <<name>>) \o HeaderUnits(TRUE, "PUT", Len(data)) \o units
    BY <1>4 DEF Messages, PutLength
  <2>3. Message("PUT", <<name>>) = first /\ HeaderUnits(TRUE, "PUT", Len(data)) = head
    BY DEF FirstMessage, OneByte, HeaderFor
  <2>4. out = Then(Then(first, head), units)
    BY <2>2, <2>3 DEF Then
  <2>5. first = FirstMessage("PUT", name) /\ head = HeaderFor("PUT", Len(data))
        /\ units = ByteUnits(data) /\ name = op.name
    OBVIOUS
  <2> HIDE DEF data, name, first, head, units
  <2>6. first \in Seq(Unit)
    <3>1. \E h, u \in Seq(Unit) : first = Then(h, u)
      BY <2>1, <2>5, FirstMessageIs
    <3>. QED
      BY <3>1, ThenIs
  <2>7. head \in Seq(Unit) /\ units \in Seq(Unit)
    <3>1. "PUT" \in Cmds /\ Len(data) \in Nat
      BY <2>1, LenProperties DEF Cmds
    <3>. QED
      BY <2>1, <2>5, <3>1, HeaderUnitsAre, ByteUnitsAre
  <2>8. out = Then(first, Then(head, units))
    BY <2>4, <2>6, <2>7, ThenThen
  <2>9. out = Then(FirstMessage("PUT", op.name), SecondMessage(data))
    BY <2>5, <2>8 DEF SecondMessage
  <2>10. op.cmd = "PUT" /\ op.name \in Names
    BY <1>4, <2>1, <2>5
  <2>. QED
    BY <2>1, <2>9, <2>10, PutMessage
<1>. QED
  BY <1>1, <1>2, <1>3, <1>4

-----------------------------------------------------------------------------
(* What a client's step makes of its process.                              *)

(* It is back at the prompt, or after QUIT at its end.                     *)
Done(c, d) ==
    /\ d \in Process /\ Between(d) /\ d.out = <<>>
    /\ d.at = IF c.op.cmd = "QUIT" THEN "closed" ELSE "prompt"

Over(d) == d \in Process /\ Between(d) /\ d.at = "closed"

Phased(o, phase) == [o EXCEPT !.phase = phase]

LEMMA PhasedIs ==
    ASSUME NEW o \in Command, NEW phase \in {"ok", "failed"}, NEW op,
           op = Phased(o, phase)
    PROVE  op \in Command /\ op.phase = phase
<1>1. op \in [cmd : Cmds, name : Names \cup {""}, had : SUBSET SafeNames,
              shown : Seq(Byte), phase : {"idle", "running", "ok", "failed"}]
  BY DEF Command, Phased
<1>2. op.phase = phase
  BY DEF Command, Phased
<1>. QED
  BY <1>1, <1>2 DEF Command

LEMMA ReportsIs ==
    ASSUME NEW c \in Process, NEW phase \in {"ok", "failed"}, NEW d, d = Reports(c, phase)
    PROVE  Done(c, d)
<1> DEFINE op == Phased(c.op, phase)
           at == IF c.op.cmd = "QUIT" THEN "closed" ELSE "prompt"
<1>1. c.op \in Command /\ <<>> \in Seq(Unit) /\ c.told \in BOOLEAN
  BY DEF Process
<1>2. op \in Command /\ op.phase = phase
  BY <1>1, PhasedIs
<1>3. d = [at |-> at, out |-> <<>>, left |-> 0, drop |-> FALSE, told |-> c.told, op |-> op]
  BY DEF Reports, Process, Phased
<1>4. at \in {"prompt", "closed"}
  OBVIOUS
<1>5. at = IF c.op.cmd = "QUIT" THEN "closed" ELSE "prompt"
  OBVIOUS
<1> HIDE DEF op, at
<1>6. d \in Process
  BY <1>1, <1>2, <1>3, <1>4 DEF Process
<1>7. d.at = at /\ d.op = op /\ d.out = <<>> /\ d.left = 0 /\ d.drop = FALSE
  BY <1>3
<1>8. Between(d)
  BY <1>2, <1>4, <1>7 DEF Between
<1>. QED
  BY <1>5, <1>6, <1>7, <1>8 DEF Done

LEMMA ToldIs ==
    ASSUME NEW c \in Process, NEW d,
           d = [Reports(c, "failed") EXCEPT !.told = TRUE]
    PROVE  Done(c, d)
<1> DEFINE e == Reports(c, "failed")
<1>1. Done(c, e)
  BY ReportsIs
<1>2. d = [e EXCEPT !.told = TRUE]
  OBVIOUS
<1> HIDE DEF e
<1>3. /\ d \in Process /\ d.at = e.at /\ d.out = e.out /\ d.left = e.left
      /\ d.drop = e.drop /\ d.op = e.op
  BY <1>1, <1>2 DEF Done, Process
<1>. QED
  BY <1>1, <1>3 DEF Done, Between

LEMMA ExitedIs ==
    ASSUME NEW c \in Process, NEW d, d = Exited(c)
    PROVE  Over(d)
<1>1. d = [at |-> "closed", out |-> <<>>, left |-> 0, drop |-> FALSE, told |-> c.told,
           op |-> c.op]
  BY DEF Exited, Process
<1>2. <<>> \in Seq(Unit) /\ c.told \in BOOLEAN /\ c.op \in Command
  BY DEF Process
<1>. QED
  BY <1>1, <1>2 DEF Process, Between, Over

(* p is left with the process d.                                           *)
Left(p, d) == cli' = [cli EXCEPT ![p] = d] /\ d \in Process /\ Between(d)

LEMMA LeftTyped ==
    ASSUME ClientsTyped, NEW p \in Peers, NEW d, Left(p, d)
    PROVE  /\ cli' \in [Peers -> Process] /\ cli'[p] = d
           /\ \A q \in Peers : Between(cli'[q])
           /\ \A q \in Peers \ {p} : cli'[q] = cli[q]
BY DEF ClientsTyped, Left

LEMMA ClientFacts ==
    ASSUME ClientsTyped, NEW p \in Peers
    PROVE  /\ cli[p] \in Process /\ Between(cli[p]) /\ cli[p].out \in Seq(Unit)
           /\ cli[p].op \in Command /\ todo[p] \in Seq(Lines)
           /\ local[p] \in [Names -> File] /\ unread[p] <= Len(Sent(p))
BY DEF ClientsTyped, Process

(* What a client has to read next.                                         *)
LEMMA NextUnitIs ==
    ASSUME WireTypeOK, ClientsTyped, NEW p \in Peers, unread[p] > 0
    PROVE  NextUnit(p) \in Reply /\ ByteOf(NextUnit(p)) \in Byte
<1> DEFINE units == Sent(p)
           k == Len(Sent(p)) - unread[p] + 1
<1>1. unread[p] \in Nat /\ rx[p] \in Seq(Reply) /\ unread[p] <= Len(units)
  BY WireAssumption DEF WireTypeOK, ClientsTyped
<1>2. units \in Seq(Reply) /\ Len(units) \in Nat
  BY <1>1, UnitsType DEF Sent
<1> HIDE DEF units
<1>3. k \in 1 .. Len(units)
  BY <1>1, <1>2 DEF units
<1> HIDE DEF k
<1>4. units[k] \in Reply
  BY <1>2, <1>3, ElementOfSeq
<1>5. NextUnit(p) = units[k]
  BY DEF NextUnit, units, k
<1> DEFINE u == units[k]
<1>6. ByteOf(u) \in Byte
  <2>1. u.body \in Seq(Byte)
    BY <1>4 DEF Reply
  <2>2. CASE u.body = <<>>
    BY <2>2, NullIsByte DEF ByteOf, IsReply
  <2>3. CASE u.body # <<>>
    <3>1. Len(u.body) \in Nat /\ Len(u.body) >= 1
      BY <2>1, <2>3, EmptySeq, LenProperties
    <3>2. u.body[1] \in Byte
      BY <2>1, <3>1, ElementOfSeq
    <3>. QED
      BY <2>3, <3>2 DEF ByteOf, IsReply
  <2>. QED
    BY <2>2, <2>3
<1>. QED
  BY <1>4, <1>5, <1>6

LEMMA NextIsHead ==
    ASSUME WireTypeOK, NEW p \in Peers, NEW op, InHand(op, rx[p], unread[p])
    PROVE  HeadOf(NextUnit(p), LastOf(rx[p]))
<1> DEFINE log == rx[p]
           r == log[Len(log)]
           units == UnitsOf(log)
           k == Len(units) - Len(r.body)
           un == unread[p]
<1>1. log \in Seq(Reply) /\ log # <<>> /\ un = Len(r.body) + 1
  BY DEF WireTypeOK, InHand, LastOf
<1>2. k \in 1 .. Len(units) /\ HeadOf(units[k], r) /\ Len(units) \in Nat
      /\ Len(r.body) \in Nat
  <2> HIDE DEF log
  <2>. QED
    BY <1>1, UnitsLast, UnitsType, LastReply
<1>3. NextUnit(p) = units[Len(units) - un + 1] /\ r = LastOf(rx[p])
  BY DEF NextUnit, Sent, LastOf
<1> DEFINE a == Len(units)
           b == Len(r.body)
<1>4. a \in Nat /\ b \in Nat /\ un = b + 1 /\ k = a - b
  BY <1>1, <1>2
<1> HIDE DEF a, b, un, k
<1>5. a - un + 1 = k
  BY <1>4
<1>. QED
  BY <1>2, <1>3, <1>5 DEF a

(* A client that has read all it was sent of a complete reply.             *)
AllComplete(log, un) == un = 0 /\ log # <<>> /\ Complete(LastOf(log))

(* What a client's step does, as far as the server is concerned.           *)
ClientDoes(c, d, S, T, log, un, new) ==
    \/ d.at = "closed" /\ c.at # "send" /\ T = S
    \/ c.at = "prompt" /\ d.at = "prompt" /\ T = S /\ new = un
    \/ /\ c.at = "prompt" /\ d.at = "send" /\ new = un
       /\ T \in Seq(Unit) /\ CommandAt(T, Len(S) + 1, d.op)
    \/ c.at = "send" /\ d.at \in {"send", "recv"} /\ d.op = c.op /\ T = S /\ new = un
    \/ /\ c.at = "recv" /\ d.at = "body" /\ T = S /\ un > 0 /\ c.op.cmd # "QUIT"
       /\ InHand(c.op, log, un) => InBody(d.left, log, new)
    \/ /\ c.at = "recv" /\ d.at = "prompt" /\ T = S /\ un > 0 /\ c.op.cmd # "QUIT"
       /\ InHand(c.op, log, un) /\ LogFits(log) => AllComplete(log, new)
    \/ /\ c.at = "body" /\ d.at = "body" /\ T = S
       /\ InBody(c.left, log, un) => InBody(d.left, log, new)
    \/ /\ c.at = "body" /\ d.at = "prompt" /\ T = S
       /\ InBody(c.left, log, un) /\ LogFits(log) => AllComplete(log, new)

DoesFor(p) ==
    ClientDoes(cli[p], cli'[p], Means(p), Means(p)', rx[p], unread[p], unread'[p])

(* What it does to its end of the connection, once there is one,           *)
EndStep(p) ==
    /\ WireTypeOK' /\ rx' = rx /\ rcvd' = rcvd /\ sent' = sent /\ files' = files
    /\ backlog' = backlog
    /\ \A q \in Peers : unread'[q] <= unread[q]
    /\ \A q \in Peers \ {p} :
           stream'[q] = stream[q] /\ unread'[q] = unread[q] /\ sock'[q] = sock[q]
    /\ sock'[p] = "idle" <=> sock[p] = "idle"
    /\ Broken(p) => sock'[p] \in {"rst", "pipe"}

(* and to its own state.                                                   *)
OwnStep(p) ==
    /\ \E d : Left(p, d)
    /\ todo' \in [Peers -> Seq(Lines)]
    /\ local' \in [Peers -> [Names -> File]]

LEMMA SameEnds ==
    ASSUME WireTypeOK, NEW p \in Peers, UNCHANGED wireVars
    PROVE  EndStep(p) /\ stream'[p] = stream[p] /\ unread'[p] = unread[p]
<1>1. /\ sock' = sock /\ stream' = stream /\ sent' = sent /\ rcvd' = rcvd /\ rx' = rx
      /\ unread' = unread /\ backlog' = backlog /\ files' = files
  BY DEF wireVars
<1>2. WireTypeOK'
  BY <1>1 DEF WireTypeOK
<1>3. \A q \in Peers : unread'[q] <= unread[q]
  BY <1>1, WireAssumption DEF WireTypeOK
<1>. QED
  BY <1>1, <1>2, <1>3 DEF EndStep, Broken

LEMMA TakesUnitIs ==
    ASSUME WireTypeOK, NEW p \in Peers, TakesUnit(p)
    PROVE  /\ EndStep(p) /\ stream'[p] = stream[p]
           /\ unread[p] \in Nat /\ unread[p] > 0 /\ unread'[p] = unread[p] - 1
<1>1. /\ sock' = sock /\ stream' = stream /\ sent' = sent /\ rcvd' = rcvd /\ rx' = rx
      /\ backlog' = backlog /\ files' = files
      /\ unread' = [unread EXCEPT ![p] = unread[p] - 1] /\ unread[p] > 0
  BY DEF TakesUnit
<1>2. unread \in [Peers -> 0 .. SndBuf] /\ SndBuf \in Nat
  BY WireAssumption DEF WireTypeOK
<1>3. unread[p] - 1 \in 0 .. SndBuf
  BY <1>1, <1>2
<1>4. /\ unread' \in [Peers -> 0 .. SndBuf] /\ unread'[p] = unread[p] - 1
      /\ \A q \in Peers \ {p} : unread'[q] = unread[q]
  BY <1>1, <1>2, <1>3
<1>5. WireTypeOK'
  BY <1>1, <1>4 DEF WireTypeOK
<1>6. \A q \in Peers : unread'[q] <= unread[q]
  <2>1. TAKE q \in Peers
  <2>2. unread[q] \in Nat
    BY <1>2
  <2>. QED
    BY <1>4, <2>2
<1>. QED
  BY <1>1, <1>2, <1>4, <1>5, <1>6 DEF EndStep, Broken

LEMMA StepTyped ==
    ASSUME WireTypeOK, ClientsTyped, NEW p \in Peers, EndStep(p), OwnStep(p)
    PROVE  ClientsTyped'
<1>1. PICK d : Left(p, d)
  BY DEF OwnStep
<1>2. cli' \in [Peers -> Process] /\ \A q \in Peers : Between(cli'[q])
  BY <1>1, LeftTyped
<1>3. \A q \in Peers : unread'[q] <= Len(Sent(q)')
  <2>1. TAKE q \in Peers
  <2>2. /\ unread'[q] <= unread[q] /\ unread[q] <= Len(Sent(q)) /\ Sent(q)' = Sent(q)
        /\ rx[q] \in Seq(Reply)
    BY DEF EndStep, ClientsTyped, Sent, WireTypeOK
  <2>3. unread[q] \in Nat /\ unread'[q] \in Nat /\ Len(Sent(q)) \in Nat
    BY <2>2, UnitsType DEF WireTypeOK, EndStep, Sent
  <2>. QED
    BY <2>2, <2>3
<1>. QED
  BY <1>2, <1>3 DEF ClientsTyped, OwnStep

(* Only what a client has still to send, and sends, changes what it means. *)
LEMMA SameMeans ==
    ASSUME NEW p \in Peers, stream'[p] = stream[p], cli'[p].out = cli[p].out
    PROVE  Means(p)' = Means(p)
BY DEF Means

StepIs(p) == EndStep(p) /\ OwnStep(p) /\ DoesFor(p)

(* The rest of the files and lines stays.                                  *)
SameRest(p) ==
    /\ todo' \in [Peers -> Seq(Lines)]
    /\ local' \in [Peers -> [Names -> File]]

LEMMA EndsIs ==
    ASSUME ClientsTyped, NEW p \in Peers, NEW d, Over(d), Left(p, d), EndStep(p), SameRest(p),
           cli[p].at # "send", stream'[p] = stream[p]
    PROVE  StepIs(p)
<1>1. cli'[p] = d
  BY LeftTyped
<1>2. d.at = "closed" /\ cli[p].out = <<>> /\ d.out = <<>>
  BY ClientFacts DEF Over, Between
<1>3. Means(p)' = Means(p)
  BY <1>1, <1>2, SameMeans
<1>4. DoesFor(p)
  BY <1>1, <1>2, <1>3 DEF DoesFor, ClientDoes
<1>. QED
  BY <1>4 DEF StepIs, OwnStep, SameRest

LEMMA InputEndsIs ==
    ASSUME WireTypeOK, ClientsTyped, NEW p \in Peers, InputEnds(p)
    PROVE  StepIs(p)
<1> DEFINE d == Exited(cli[p])
<1>1. cli' = [cli EXCEPT ![p] = d] /\ todo' = todo /\ local' = local /\ UNCHANGED wireVars
      /\ cli[p].at = "prompt"
  BY DEF InputEnds, Becomes, ClientAt
<1>2. Over(d)
  BY ClientFacts, ExitedIs
<1> HIDE DEF d
<1>3. Left(p, d) /\ SameRest(p)
  BY <1>1, <1>2 DEF Left, Over, SameRest, ClientsTyped
<1>4. EndStep(p) /\ stream'[p] = stream[p]
  BY <1>1, SameEnds
<1>. QED
  BY <1>1, <1>2, <1>3, <1>4, EndsIs

(* A command is given up: in step or not, that leaves the types.           *)
GivenUp(p) == EndStep(p) /\ OwnStep(p) /\ cli'[p].at # "connect"

LEMMA GivesUp ==
    ASSUME WireTypeOK, ClientsTyped, NEW p \in Peers, NEW d,
           d = Reports(cli[p], "failed")
           \/ d = [Reports(cli[p], "failed") EXCEPT !.told = TRUE] \/ d = Exited(cli[p]),
           cli' = [cli EXCEPT ![p] = d], EndStep(p), SameRest(p)
    PROVE  GivenUp(p)
<1>1. d \in Process /\ Between(d) /\ d.at # "connect"
  <2>1. cli[p] \in Process
    BY ClientFacts
  <2>2. CASE d = Reports(cli[p], "failed")
    BY <2>1, <2>2, ReportsIs DEF Done
  <2>3. CASE d = [Reports(cli[p], "failed") EXCEPT !.told = TRUE]
    <3>1. Done(cli[p], d)
      BY <2>1, <2>3, ToldIs
    <3>. QED
      BY <3>1 DEF Done
  <2>4. CASE d = Exited(cli[p])
    BY <2>1, <2>4, ExitedIs DEF Over
  <2>. QED
    BY <2>2, <2>3, <2>4
<1>2. Left(p, d)
  BY <1>1 DEF Left
<1>3. cli'[p] = d
  BY <1>2, LeftTyped
<1>. QED
  BY <1>1, <1>2, <1>3 DEF GivenUp, OwnStep, SameRest

LEMMA TransmitFailsIs ==
    ASSUME WireTypeOK, ClientsTyped, NEW p \in Peers, NEW open, TransmitFails(p, open)
    PROVE  GivenUp(p)
<1>1. PICK d : /\ \/ d = [Reports(cli[p], "failed") EXCEPT !.told = TRUE]
                  \/ d = Exited(cli[p])
               /\ cli' = [cli EXCEPT ![p] = d] /\ todo' = todo
  BY DEF TransmitFails, Becomes
<1>2. UNCHANGED wireVars /\ local' = local
  BY DEF TransmitFails
<1>3. EndStep(p) /\ SameRest(p)
  BY <1>1, <1>2, SameEnds DEF SameRest, ClientsTyped
<1>. QED
  BY <1>1, <1>3, GivesUp

LEMMA NoReplyIs ==
    ASSUME WireTypeOK, ClientsTyped, NEW p \in Peers, NEW open, NoReply(p, open)
    PROVE  GivenUp(p)
<1> DEFINE d == [Reports(cli[p], "failed") EXCEPT !.told = TRUE]
<1>1. cli' = [cli EXCEPT ![p] = d] /\ todo' = todo /\ local' = local
  BY DEF NoReply, Becomes
<1>2. /\ sock' = sock /\ stream' = stream /\ sent' = sent /\ rcvd' = rcvd /\ rx' = rx
      /\ backlog' = backlog /\ files' = files /\ unread' = [unread EXCEPT ![p] = 0]
  BY DEF NoReply
<1>3. unread \in [Peers -> 0 .. SndBuf] /\ SndBuf \in Nat
  BY WireAssumption DEF WireTypeOK
<1>4. /\ unread' \in [Peers -> 0 .. SndBuf]
      /\ \A q \in Peers : unread'[q] <= unread[q]
      /\ \A q \in Peers \ {p} : unread'[q] = unread[q]
  BY <1>2, <1>3
<1>5. WireTypeOK'
  BY <1>2, <1>4 DEF WireTypeOK
<1>6. EndStep(p)
  BY <1>2, <1>4, <1>5 DEF EndStep, Broken
<1>7. SameRest(p)
  BY <1>1 DEF SameRest, ClientsTyped
<1>. QED
  BY <1>1, <1>6, <1>7, GivesUp

LEMMA DiskFailsIs ==
    ASSUME WireTypeOK, ClientsTyped, NEW p \in Peers, DiskFails(p)
    PROVE  GivenUp(p)
<1> DEFINE d == Reports(cli[p], "failed")
<1>1. cli' = [cli EXCEPT ![p] = d] /\ todo' = todo /\ local' = local
      /\ (UNCHANGED wireVars \/ TakesUnit(p))
  BY DEF DiskFails, Becomes
<1>2. EndStep(p)
  BY <1>1, SameEnds, TakesUnitIs
<1>3. SameRest(p)
  BY <1>1 DEF SameRest, ClientsTyped
<1>. QED
  BY <1>1, <1>2, <1>3, GivesUp

LEMMA KilledIs ==
    ASSUME WireTypeOK, ClientsTyped, NEW p \in Peers, Killed(p)
    PROVE  GivenUp(p)
<1> DEFINE d == Exited(cli[p])
<1>1. cli' = [cli EXCEPT ![p] = d] /\ todo' = todo /\ local' = local /\ UNCHANGED wireVars
  BY DEF Killed, Becomes
<1>2. EndStep(p)
  BY <1>1, SameEnds
<1>3. SameRest(p)
  BY <1>1 DEF SameRest, ClientsTyped
<1>. QED
  BY <1>1, <1>2, <1>3, GivesUp

LEMMA CloseArrivesIs ==
    ASSUME WireTypeOK, ClientsTyped, NEW p \in Peers, NEW open, CloseArrives(p, open)
    PROVE  StepIs(p)
<1>1. /\ cli' = cli /\ todo' = todo /\ local' = local /\ cli[p].at = "closed"
      /\ stream' = stream /\ sent' = sent /\ rcvd' = rcvd /\ rx' = rx
      /\ unread' = unread /\ backlog' = backlog /\ files' = files
  BY DEF CloseArrives, cliVars, ClientAt
<1>2. PICK s \in {"rst", "fin", "pipe"} : sock' = [sock EXCEPT ![p] = s]
  BY DEF CloseArrives
<1>3. sock[p] \in {"open", "fin"} /\ sock \in [Peers -> {"idle", "open", "fin", "rst", "pipe"}]
  BY DEF CloseArrives, WireTypeOK
<1>4. /\ sock' \in [Peers -> {"idle", "open", "fin", "rst", "pipe"}] /\ sock'[p] = s
      /\ \A q \in Peers \ {p} : sock'[q] = sock[q]
  BY <1>2, <1>3
<1>5. WireTypeOK'
  BY <1>1, <1>4 DEF WireTypeOK
<1>6. \A q \in Peers : unread'[q] <= unread[q]
  BY <1>1, WireAssumption DEF WireTypeOK
<1>7. EndStep(p)
  BY <1>1, <1>2, <1>3, <1>4, <1>5, <1>6 DEF EndStep, Broken
<1> DEFINE d == cli[p]
<1>8. d \in Process /\ Between(d) /\ d.at = "closed"
  BY <1>1, ClientFacts
<1>9. cli' = [cli EXCEPT ![p] = d]
  BY <1>1 DEF ClientsTyped
<1> HIDE DEF d
<1>10. Left(p, d) /\ SameRest(p) /\ Over(d)
  BY <1>1, <1>8, <1>9 DEF Left, Over, SameRest, ClientsTyped
<1>11. cli[p].at # "send" /\ stream'[p] = stream[p]
  BY <1>1
<1>. QED
  BY <1>7, <1>10, <1>11, EndsIs

(* The command of a line.                                                  *)
Running(line) ==
    [cmd |-> line.cmd, name |-> line.name, had |-> Existing, shown |-> <<>>,
     phase |-> "running"]

LEMMA CommandIs ==
    ASSUME NEW cmd \in Cmds, NEW name \in Names \cup {""}, NEW had \in SUBSET SafeNames,
           NEW shown \in Seq(Byte), NEW phase \in {"idle", "running", "ok", "failed"}
    PROVE  [cmd |-> cmd, name |-> name, had |-> had, shown |-> shown,
            phase |-> phase] \in Command
BY DEF Command

LEMMA RunningIs ==
    ASSUME NEW line \in Lines, NEW op, op = Running(line)
    PROVE  /\ op \in Command /\ op.phase = "running"
           /\ op.cmd = line.cmd /\ op.name = line.name
<1>1. line.cmd \in Cmds /\ line.name \in Names \cup {""}
  BY DEF Lines
<1>2. Existing \in SUBSET SafeNames
  BY DEF Existing
<1>3. <<>> \in Seq(Byte) /\ "running" \in {"idle", "running", "ok", "failed"}
  OBVIOUS
<1>4. op \in Command
  BY <1>1, <1>2, <1>3, CommandIs DEF Running
<1>. QED
  BY <1>4 DEF Running

(* The process of a client at the prompt that goes on to send `out`, or    *)
(* that has another command behind it.                                     *)
ToSend(c, op, out) == [c EXCEPT !.at = "send", !.op = op, !.out = out]
Behind(c, op) == [c EXCEPT !.op = op]

LEMMA ToSendIs ==
    ASSUME NEW c \in Process, Between(c), c.at = "prompt",
           NEW op \in Command, op.phase = "running",
           NEW out \in Seq(Unit), Len(out) > 0, NEW d, d = ToSend(c, op, out)
    PROVE  d \in Process /\ Between(d) /\ d.at = "send" /\ d.op = op /\ d.out = out
<1>1. d = [at |-> "send", out |-> out, left |-> c.left, drop |-> c.drop,
           told |-> c.told, op |-> op]
  BY DEF ToSend, Process
<1>2. c.left \in Nat /\ c.told \in BOOLEAN /\ c.drop \in BOOLEAN
  BY DEF Process
<1>3. d \in Process
  BY <1>1, <1>2 DEF Process
<1>4. ~(c.left > 0) /\ ~c.drop /\ out # <<>>
  BY DEF Between
<1>. QED
  BY <1>1, <1>3, <1>4 DEF Between

LEMMA BehindIs ==
    ASSUME NEW c \in Process, Between(c), c.at = "prompt",
           NEW op \in Command, op.phase # "running", NEW d, d = Behind(c, op)
    PROVE  d \in Process /\ Between(d) /\ d.at = "prompt" /\ d.out = c.out
<1>1. d = [at |-> "prompt", out |-> c.out, left |-> c.left, drop |-> c.drop,
           told |-> c.told, op |-> op]
  BY DEF Behind, Process
<1>2. c.left \in Nat /\ c.told \in BOOLEAN /\ c.drop \in BOOLEAN /\ c.out \in Seq(Unit)
  BY DEF Process
<1>3. d \in Process
  BY <1>1, <1>2 DEF Process
<1>4. ~(c.left > 0) /\ ~c.drop /\ c.out = <<>>
  BY DEF Between
<1>. QED
  BY <1>1, <1>3, <1>4 DEF Between

LEMMA SendsCommand ==
    ASSUME WireTypeOK, NEW p \in Peers, cli[p].at = "prompt", cli[p].out = <<>>,
           cli'[p].at = "send", stream'[p] = stream[p], unread'[p] = unread[p],
           Gives(cli'[p].out, cli'[p].op)
    PROVE  DoesFor(p)
<1> DEFINE s == stream[p]
           out == cli'[p].out
           S == Means(p)
           T == Means(p)'
<1>1. s \in Seq(Unit) /\ out \in Seq(Unit)
  BY DEF WireTypeOK, Gives
<1>2. S = s
  BY <1>1, ConcatEmptySeq DEF Means
<1>3. T = s \o out
  BY DEF Means
<1>4. EndsAt(s \o out, Len(s) + 1, out) /\ s \o out \in Seq(Unit)
  BY <1>1, EndsAtJoined, ConcatProperties
<1>5. T \in Seq(Unit) /\ CommandAt(T, Len(S) + 1, cli'[p].op)
  BY <1>2, <1>3, <1>4 DEF Gives
<1>. QED
  BY <1>5 DEF DoesFor, ClientDoes

LEMMA TypesIs ==
    ASSUME WireTypeOK, ClientsTyped, NEW p \in Peers, Types(p)
    PROVE  StepIs(p)
<1> DEFINE c == cli[p]
           line == Head(todo[p])
           op == Running(line)
           out == Messages(p, line)
<1>1. /\ c.at = "prompt" /\ todo[p] # <<>> /\ todo' = [todo EXCEPT ![p] = Tail(@)]
      /\ UNCHANGED wireVars /\ local' = local
  BY DEF Types, ClientAt
<1>2. /\ c \in Process /\ Between(c) /\ todo[p] \in Seq(Lines)
      /\ todo \in [Peers -> Seq(Lines)] /\ local \in [Peers -> [Names -> File]]
  BY ClientFacts DEF ClientsTyped
<1>3. line \in Lines /\ Tail(todo[p]) \in Seq(Lines)
  BY <1>1, <1>2, HeadTailProperties
<1>4. c.out = <<>>
  BY <1>1, <1>2 DEF Between
<1>5. /\ EndStep(p) /\ stream'[p] = stream[p] /\ unread'[p] = unread[p]
      /\ SameRest(p)
  BY <1>1, <1>2, <1>3, SameEnds DEF SameRest
<1>6. \/ line.cmd = "OTHER" /\ cli' = cli
      \/ /\ line.cmd # "OTHER"
         /\ cli' = [cli EXCEPT ![p] = ToSend(@, op, out)]
      \/ cli' = [cli EXCEPT ![p] = Behind(@, Phased(op, "failed"))]
  BY DEF Types, ToSend, Behind, Running, Phased
<1>7. op \in Command /\ op.phase = "running" /\ op.cmd = line.cmd /\ op.name = line.name
  BY <1>3, RunningIs
<1> HIDE DEF op, c
<1>8. CASE cli' = cli
  <2>1. Left(p, c)
    BY <1>2, <1>8 DEF Left, ClientsTyped, c
  <2>2. Means(p)' = Means(p)
    BY <1>5, <1>8, SameMeans
  <2>3. DoesFor(p)
    BY <1>1, <1>5, <1>8, <2>2 DEF DoesFor, ClientDoes, c
  <2>. QED
    BY <1>5, <2>1, <2>3 DEF StepIs, OwnStep, SameRest
<1>9. CASE cli' = [cli EXCEPT ![p] = ToSend(@, op, out)] /\ line.cmd # "OTHER"
  <2>1. out = Messages(p, line)
    OBVIOUS
  <2> HIDE DEF out
  <2>2. Gives(out, op)
    BY <1>2, <1>3, <1>7, <1>9, <2>1, MessagesAre
  <2> DEFINE d == ToSend(c, op, out)
  <2>3. d \in Process /\ Between(d) /\ d.at = "send" /\ d.op = op /\ d.out = out
    BY <1>1, <1>2, <1>7, <2>2, ToSendIs DEF Gives
  <2>4. cli' = [cli EXCEPT ![p] = d]
    BY <1>9 DEF c
  <2> HIDE DEF d
  <2>5. Left(p, d)
    BY <2>3, <2>4 DEF Left
  <2>6. cli'[p] = d
    BY <2>5, LeftTyped
  <2>7. DoesFor(p)
    BY <1>1, <1>4, <1>5, <2>2, <2>3, <2>6, SendsCommand DEF c
  <2>. QED
    BY <1>5, <2>5, <2>7 DEF StepIs, OwnStep, SameRest
<1>10. CASE cli' = [cli EXCEPT ![p] = Behind(@, Phased(op, "failed"))]
  <2> DEFINE o == Phased(op, "failed")
             d == Behind(c, o)
  <2>1. o \in Command /\ o.phase = "failed"
    BY <1>7, PhasedIs
  <2>2. cli' = [cli EXCEPT ![p] = d]
    BY <1>10 DEF c
  <2> HIDE DEF o
  <2>3. d \in Process /\ Between(d) /\ d.at = "prompt" /\ d.out = c.out
    BY <1>1, <1>2, <2>1, BehindIs
  <2> HIDE DEF d
  <2>4. Left(p, d)
    BY <2>2, <2>3 DEF Left
  <2>5. cli'[p] = d
    BY <2>4, LeftTyped
  <2>6. Means(p)' = Means(p)
    BY <1>5, <2>3, <2>5, SameMeans DEF c
  <2>7. DoesFor(p)
    BY <1>1, <1>5, <2>3, <2>5, <2>6 DEF DoesFor, ClientDoes, c
  <2>. QED
    BY <1>5, <2>4, <2>7 DEF StepIs, OwnStep, SameRest
<1>. QED
  BY <1>6, <1>8, <1>9, <1>10

(* send_all, with what the socket takes.                                   *)
Shorter(c, rest) ==
    [c EXCEPT !.out = rest, !.at = IF rest = <<>> THEN "recv" ELSE @]

LEMMA ShorterIs ==
    ASSUME NEW c \in Process, Between(c), c.at = "send", NEW rest \in Seq(Unit),
           NEW d, d = Shorter(c, rest)
    PROVE  /\ d \in Process /\ Between(d) /\ d.at \in {"send", "recv"} /\ d.op = c.op
           /\ d.out = rest
<1> DEFINE at == IF rest = <<>> THEN "recv" ELSE "send"
<1>1. at \in {"send", "recv"} /\ (rest # <<>> <=> at = "send")
  OBVIOUS
<1>2. d = [at |-> at, out |-> rest, left |-> c.left, drop |-> c.drop,
           told |-> c.told, op |-> c.op]
  BY DEF Shorter, Process
<1>3. c.left \in Nat /\ c.told \in BOOLEAN /\ c.drop \in BOOLEAN /\ c.op \in Command
  BY DEF Process
<1>4. ~(c.left > 0) /\ ~c.drop /\ c.op.phase = "running"
  BY DEF Between
<1> HIDE DEF at
<1>5. d \in Process
  BY <1>1, <1>2, <1>3 DEF Process
<1>. QED
  BY <1>1, <1>2, <1>4, <1>5 DEF Between

(* The units that are sent and those that are left.                        *)
FirstUnits(out, n) == SubSeq(out, 1, n)
OtherUnits(out, n) == SubSeq(out, n + 1, Len(out))

LEMMA SplitUnits ==
    ASSUME NEW s \in Seq(Unit), NEW out \in Seq(Unit), NEW n \in Nat, n <= Len(out),
           NEW some, some = FirstUnits(out, n), NEW rest, rest = OtherUnits(out, n)
    PROVE  /\ some \in Seq(Unit) /\ rest \in Seq(Unit) /\ Len(some) = n
           /\ Then(Then(s, some), rest) = Then(s, out)
<1> DEFINE m == Len(out)
<1>1. m \in Nat /\ m = Len(out)
  BY LenProperties
<1>2. some \in Seq(Unit) /\ Len(some) = n /\ \A k \in 1 .. n : some[k] = out[k]
  <2> HIDE DEF m
  <2>1. 1 \in Nat /\ n + 1 - 1 = n /\ \A k \in 1 .. n : 1 + k - 1 = k /\ k \in 1 .. m
    BY <1>1
  <2>2. some = [k \in 1 .. n |-> out[k]]
    BY <1>1 DEF SubSeq, FirstUnits
  <2>3. \A k \in 1 .. n : out[k] \in Unit
    BY <1>1, <2>1, ElementOfSeq
  <2>. QED
    BY <2>2, <2>3
<1>3. rest \in Seq(Unit) /\ Len(rest) = m - n /\ \A k \in 1 .. m - n : rest[k] = out[n + k]
  <2> HIDE DEF m
  <2>1. m - n \in Nat
    BY <1>1
  <2>2. \A k \in 1 .. m - n : n + 1 + k - 1 = n + k /\ n + k \in 1 .. m
    BY <1>1
  <2>3. rest = [k \in 1 .. m - n |-> out[n + k]]
    <3>1. m - (n + 1) + 1 = m - n
      BY <1>1
    <3>2. rest = SubSeq(out, n + 1, m)
      BY <1>1 DEF OtherUnits
    <3>. QED
      BY <1>1, <2>2, <3>1, <3>2 DEF SubSeq
  <2>4. \A k \in 1 .. m - n : out[n + k] \in Unit
    BY <1>1, <2>2, ElementOfSeq
  <2> DEFINE b == m - n
  <2>5. b \in Nat /\ rest = [k \in 1 .. b |-> out[n + k]] /\ \A k \in 1 .. b : out[n + k] \in Unit
    BY <2>1, <2>3, <2>4
  <2> HIDE DEF b
  <2>6. rest \in Seq(Unit) /\ Len(rest) = b /\ \A k \in 1 .. b : rest[k] = out[n + k]
    BY <2>5
  <2>. QED
    BY <2>6 DEF b
<1>4. Then(some, rest) = out
  <2> DEFINE both == Then(some, rest)
  <2> HIDE DEF m
  <2>1. /\ both \in Seq(Unit) /\ Len(both) = Len(some) + Len(rest)
        /\ \A k \in 1 .. Len(some) + Len(rest) :
               both[k] = IF k <= Len(some) THEN some[k] ELSE rest[k - Len(some)]
    <3>1. some \in Seq(Unit) /\ rest \in Seq(Unit)
      BY <1>2, <1>3
    <3>. QED
      BY <3>1, ConcatProperties DEF Then
  <2> HIDE DEF both
  <2>2. n + (m - n) = m
    BY <1>1
  <2>3. ASSUME NEW k \in 1 .. m PROVE both[k] = out[k]
    <3>1. both[k] = IF k <= n THEN some[k] ELSE rest[k - n]
      BY <1>2, <1>3, <2>1, <2>2
    <3>2. CASE k <= n
      BY <1>2, <3>1, <3>2
    <3>3. CASE ~(k <= n)
      <4>1. k - n \in 1 .. m - n /\ n + (k - n) = k
        BY <1>1, <3>3
      <4>. QED
        BY <1>3, <3>1, <3>3, <4>1
    <3>. QED
      BY <3>2, <3>3
  <2>4. Len(both) = Len(out)
    BY <1>1, <1>2, <1>3, <2>1, <2>2
  <2>5. both = out
    BY <1>1, <2>1, <2>3, <2>4, SeqEqual
  <2>. QED
    BY <2>5 DEF both
<1>5. Then(Then(s, some), rest) = Then(s, Then(some, rest))
  BY <1>2, <1>3, ThenThen
<1>. QED
  BY <1>2, <1>3, <1>4, <1>5

(* A stream that grows.                                                    *)
LEMMA GrowsWire ==
    ASSUME WireTypeOK, NEW p \in Peers, NEW new \in Seq(Unit),
           Len(stream[p]) <= Len(new), stream' = [stream EXCEPT ![p] = new],
           UNCHANGED <<sock, sent, rcvd, rx, unread, backlog, files>>
    PROVE  EndStep(p) /\ stream'[p] = new /\ unread'[p] = unread[p]
<1>1. /\ sock' = sock /\ sent' = sent /\ rcvd' = rcvd /\ rx' = rx
      /\ unread' = unread /\ backlog' = backlog /\ files' = files
  OBVIOUS
<1>2. stream \in [Peers -> Seq(Unit)] /\ unread \in [Peers -> 0 .. SndBuf]
  BY DEF WireTypeOK
<1>3. /\ stream' \in [Peers -> Seq(Unit)] /\ stream'[p] = new
      /\ \A q \in Peers \ {p} : stream'[q] = stream[q]
  BY <1>2
<1>4. \A q \in Peers : sent[q] <= Len(stream'[q])
  <2>1. TAKE q \in Peers
  <2>2. sent[q] \in Nat /\ sent[q] <= Len(stream[q]) /\ stream[q] \in Seq(Unit)
    BY DEF WireTypeOK
  <2>3. Len(stream[q]) \in Nat /\ Len(new) \in Nat
    BY <2>2, LenProperties
  <2>4. CASE q = p
    BY <1>3, <2>2, <2>3, <2>4
  <2>5. CASE q # p
    BY <1>3, <2>2, <2>5
  <2>. QED
    BY <2>4, <2>5
<1>5. WireTypeOK'
  BY <1>1, <1>3, <1>4 DEF WireTypeOK
<1>6. \A q \in Peers : unread'[q] <= unread[q]
  BY <1>1, <1>2, WireAssumption
<1>. QED
  BY <1>1, <1>3, <1>5, <1>6 DEF EndStep, Broken

LEMMA TransmitsIs ==
    ASSUME WireTypeOK, ClientsTyped, NEW p \in Peers, Transmits(p)
    PROVE  StepIs(p)
<1> DEFINE c == cli[p]
           out == c.out
           s == stream[p]
           n == MinOf(Room(p), Len(out))
           some == FirstUnits(out, n)
           rest == OtherUnits(out, n)
           new == Then(s, some)
           d == Shorter(c, rest)
<1>1. /\ c.at = "send" /\ n > 0 /\ stream' = [stream EXCEPT ![p] = new]
      /\ cli' = [cli EXCEPT ![p] = d] /\ todo' = todo /\ local' = local
      /\ UNCHANGED <<sock, sent, rcvd, rx, unread, backlog, files>>
  BY DEF Transmits, Becomes, ClientAt, Shorter, Then, FirstUnits, OtherUnits
<1>2. c \in Process /\ Between(c) /\ out \in Seq(Unit)
  BY ClientFacts
<1>3. s \in Seq(Unit) /\ rcvd[p] \in Nat /\ SndBuf \in Nat
  BY WireAssumption DEF WireTypeOK
<1>4. n \in Nat /\ n <= Len(out)
  <2>1. Len(out) \in Nat /\ Len(s) \in Nat
    BY <1>2, <1>3, LenProperties
  <2>2. Room(p) \in Int
    BY <1>3, <2>1 DEF Room
  <2>. QED
    BY <1>1, <2>1, <2>2 DEF MinOf
<1>5. some = FirstUnits(out, n) /\ rest = OtherUnits(out, n) /\ new = Then(s, some)
  OBVIOUS
<1>6. out = c.out /\ s = stream[p] /\ c = cli[p] /\ d = Shorter(c, rest)
  OBVIOUS
<1> HIDE DEF c, out, s, n, some, rest, new, d
<1>7. /\ some \in Seq(Unit) /\ rest \in Seq(Unit) /\ Len(some) = n
      /\ Then(Then(s, some), rest) = Then(s, out)
  <2>1. s \in Seq(Unit) /\ out \in Seq(Unit) /\ n \in Nat /\ n <= Len(out)
    BY <1>2, <1>3, <1>4
  <2>. QED
    BY <1>5, <2>1, SplitUnits
<1>8. new \in Seq(Unit) /\ Len(s) <= Len(new)
  <2>1. new \in Seq(Unit) /\ Len(new) = Len(s) + n
    BY <1>3, <1>5, <1>7, ThenIs
  <2>2. Len(s) \in Nat
    BY <1>3, LenProperties
  <2>. QED
    BY <1>4, <2>1, <2>2
<1>9. EndStep(p) /\ stream'[p] = new /\ unread'[p] = unread[p]
  BY <1>1, <1>6, <1>8, GrowsWire
<1>10. /\ d \in Process /\ Between(d) /\ d.at \in {"send", "recv"} /\ d.op = c.op
       /\ d.out = rest
  BY <1>1, <1>2, <1>6, <1>7, ShorterIs
<1>11. Left(p, d)
  BY <1>1, <1>10 DEF Left
<1>12. cli'[p] = d
  BY <1>11, LeftTyped
<1>13. Means(p)' = Means(p)
  <2>1. Means(p)' = Then(new, rest) /\ Means(p) = Then(s, out)
    BY <1>6, <1>9, <1>10, <1>12 DEF Means, Then
  <2>. QED
    BY <1>5, <1>7, <2>1
<1>14. DoesFor(p)
  BY <1>1, <1>6, <1>9, <1>10, <1>12, <1>13 DEF DoesFor, ClientDoes
<1>15. OwnStep(p)
  BY <1>1, <1>11 DEF OwnStep, ClientsTyped
<1>. QED
  BY <1>9, <1>14, <1>15 DEF StepIs

(* recv_header: the process of a client that goes on to read the body.     *)
BodyNext(c, n) == [c EXCEPT !.at = "body", !.left = n]

LEMMA ReadingIs ==
    ASSUME NEW c \in Process, Between(c), c.at = "recv", NEW n \in Nat,
           NEW d, d = BodyNext(c, n)
    PROVE  /\ d \in Process /\ Between(d) /\ d.at = "body" /\ d.op = c.op
           /\ d.left = n /\ d.out = <<>> /\ c.out = <<>>
<1>1. d = [at |-> "body", out |-> c.out, left |-> n, drop |-> c.drop,
           told |-> c.told, op |-> c.op]
  BY DEF BodyNext, Process
<1>2. c.told \in BOOLEAN /\ c.drop \in BOOLEAN /\ c.op \in Command /\ c.out \in Seq(Unit)
  BY DEF Process
<1>3. c.drop = FALSE /\ c.op.phase = "running" /\ c.out = <<>>
  BY <1>2 DEF Between
<1>4. d \in Process
  BY <1>1, <1>2 DEF Process
<1>. QED
  BY <1>1, <1>3, <1>4 DEF Between

LEMMA ReadPastIs ==
    ASSUME NEW c \in Process, Between(c), c.at = "body", c.op.cmd = "GET",
           NEW d, d = ReadPast(c)
    PROVE  /\ d \in Process /\ Between(d) /\ d.at = "body" /\ d.op = c.op
           /\ d.left = c.left /\ d.out = c.out
<1>1. d = [at |-> "body", out |-> c.out, left |-> c.left, drop |-> TRUE,
           told |-> c.told, op |-> c.op]
  BY DEF ReadPast, Process
<1>2. /\ c.told \in BOOLEAN /\ c.op \in Command /\ c.out \in Seq(Unit)
      /\ c.left \in Nat
  BY DEF Process
<1>3. d \in Process
  BY <1>1, <1>2 DEF Process
<1>. QED
  BY <1>1, <1>3 DEF Between

(* What the reply in hand begins.                                          *)
LEMMA BodyBegins ==
    ASSUME WireTypeOK, NEW p \in Peers, NEW op, NEW u, u = NextUnit(p),
           NEW un, un + 1 = unread[p], un \in Nat
    PROVE  InHand(op, rx[p], unread[p]) =>
               /\ IsReply(u) /\ InBody(u.length, rx[p], un)
               /\ u.length \in Nat
               /\ (u.cmd = op.cmd /\ u.status = 0 /\ op.cmd \notin {"PUT", "QUIT"})
                  \/ (LogFits(rx[p]) => AllComplete(rx[p], un))
<1> SUFFICES ASSUME InHand(op, rx[p], unread[p])
             PROVE  /\ IsReply(u) /\ InBody(u.length, rx[p], un)
                    /\ u.length \in Nat
                    /\ (u.cmd = op.cmd /\ u.status = 0 /\ op.cmd \notin {"PUT", "QUIT"})
                       \/ (LogFits(rx[p]) => AllComplete(rx[p], un))
  OBVIOUS
<1> DEFINE log == rx[p]
           r == LastOf(log)
<1>1. /\ u.body = <<>> /\ u.cmd = r.cmd /\ u.status = r.status /\ u.length = r.length
  BY NextIsHead DEF HeadOf
<1>2. log \in Seq(Reply) /\ log # <<>> /\ unread[p] = Len(r.body) + 1 /\ Fits(r, op)
  BY DEF WireTypeOK, InHand
<1>3. r \in Reply /\ Len(r.body) \in Nat
  <2> HIDE DEF log
  <2>. QED
    BY <1>2, LastReply DEF LastOf
<1>4. r.length \in Nat /\ r.status \in {0, 1}
  BY <1>3 DEF Reply
<1>5. un = Len(r.body)
  BY <1>2, <1>3
<1>6. InBody(u.length, rx[p], un)
  BY <1>1, <1>2, <1>3, <1>4, <1>5 DEF InBody
<1>7. CASE ~(u.cmd = op.cmd /\ u.status = 0 /\ op.cmd \notin {"PUT", "QUIT"})
  <2>1. r.length = 0
    BY <1>1, <1>2, <1>4, <1>7 DEF Fits
  <2>2. ASSUME LogFits(log) PROVE AllComplete(log, un)
    <3>1. Len(log) \in 1 .. Len(log)
      BY <1>2, EmptySeq, LenProperties
    <3>2. Len(log[Len(log)].body) <= log[Len(log)].length
      BY <2>2, <3>1 DEF LogFits
    <3>3. Len(r.body) = 0
      BY <1>3, <2>1, <3>2 DEF LastOf
    <3>. QED
      BY <1>2, <1>5, <2>1, <3>3 DEF AllComplete, Complete
  <2>. QED
    BY <1>1, <1>4, <1>6, <2>2 DEF IsReply
<1>. QED
  BY <1>1, <1>4, <1>6, <1>7 DEF IsReply

(* A client that has read something and waits for no more, or for more of  *)
(* the body.                                                               *)
LEMMA ReadDoes ==
    ASSUME NEW p \in Peers, NEW c, c = cli[p], NEW d, d = cli'[p],
           c.at \in {"recv", "body"}, c.out = <<>>, d.out = <<>>, stream'[p] = stream[p],
           c.at = "recv" => unread[p] > 0 /\ (c.op.cmd = "QUIT" => d.at = "closed"),
           LET held == IF c.at = "recv" THEN InHand(c.op, rx[p], unread[p])
                       ELSE InBody(c.left, rx[p], unread[p])
           IN  \/ d.at = "closed"
               \/ d.at = "prompt" /\ (held /\ LogFits(rx[p]) => AllComplete(rx[p], unread'[p]))
               \/ d.at = "body" /\ (held => InBody(d.left, rx[p], unread'[p]))
    PROVE  DoesFor(p)
<1>1. Means(p)' = Means(p)
  BY SameMeans
<1>. QED
  BY <1>1 DEF DoesFor, ClientDoes

LEMMA OpenedType ==
    ASSUME ClientsTyped, NEW p, NEW name, Opened(p, name)
    PROVE  local' \in [Peers -> [Names -> File]]
<1>1. local \in [Peers -> [Names -> File]]
  BY DEF ClientsTyped
<1>2. Truncated \in File
  BY DEF Truncated, File
<1> DEFINE truncated == Truncated
<1>3. local' = [local EXCEPT ![p] = [local[p] EXCEPT ![name] = truncated]]
  BY DEF Opened
<1>4. truncated \in File
  BY <1>2
<1> HIDE DEF truncated
<1>5. CASE p \in Peers
  <2>1. [local[p] EXCEPT ![name] = truncated] \in [Names -> File]
    BY <1>1, <1>4, <1>5
  <2>. QED
    BY <1>1, <1>3, <2>1
<1>6. CASE p \notin Peers
  BY <1>1, <1>3, <1>6
<1>. QED
  BY <1>5, <1>6

LEMMA RecvReplyIs ==
    ASSUME WireTypeOK, ClientsTyped, NEW p \in Peers, RecvReply(p)
    PROVE  StepIs(p)
<1> DEFINE b == cli[p]
           u == NextUnit(p)
           c == BodyNext(b, u.length)
           un == unread[p]
           new == unread'[p]
           log == rx[p]
<1>1. b.at = "recv" /\ TakesUnit(p) /\ todo' = todo
  BY DEF RecvReply, ClientAt, Becomes, GetBegins
<1>2. /\ EndStep(p) /\ stream'[p] = stream[p]
      /\ un \in Nat /\ un > 0 /\ new = un - 1
  BY <1>1, TakesUnitIs
<1>3. b \in Process /\ Between(b)
  BY ClientFacts
<1>4. u \in Reply
  BY <1>2, NextUnitIs
<1>5. u.length \in Nat
  BY <1>4 DEF Reply
<1>6. /\ c \in Process /\ Between(c) /\ c.at = "body" /\ c.op = b.op
      /\ c.left = u.length /\ c.out = <<>> /\ b.out = <<>>
  <2> DEFINE n == u.length
  <2>1. c = BodyNext(b, n) /\ n \in Nat /\ b.at = "recv"
    BY <1>1, <1>5
  <2> HIDE DEF b, c, n
  <2>2. b \in Process /\ Between(b)
    BY <1>3
  <2>3. /\ c \in Process /\ Between(c) /\ c.at = "body" /\ c.op = b.op
        /\ c.left = n /\ c.out = <<>> /\ b.out = <<>>
    BY <2>1, <2>2, ReadingIs
  <2>. QED
    BY <2>3 DEF n
<1> DEFINE held == InHand(b.op, log, un)
<1>7. held => /\ IsReply(u) /\ InBody(u.length, log, new)
              /\ \/ u.cmd = b.op.cmd /\ u.status = 0 /\ b.op.cmd \notin {"PUT", "QUIT"}
                 \/ (LogFits(log) => AllComplete(log, new))
  <2>1. new + 1 = un /\ new \in Nat
    BY <1>2
  <2>2. new + 1 = unread[p] /\ u = NextUnit(p)
    BY <2>1
  <2> HIDE DEF new, u
  <2>. QED
    BY <2>1, <2>2, BodyBegins
<1>8. \/ /\ ~IsReply(u) \/ ~Granted(c, u)
         /\ cli' = [cli EXCEPT ![p] = Reports(c, "failed")] /\ local' = local
      \/ /\ Granted(c, u) /\ c.op.cmd = "GET" /\ cli' = [cli EXCEPT ![p] = ReadPast(c)]
         /\ local' = local
      \/ /\ Granted(c, u) /\ c.op.cmd = "GET" /\ cli' = [cli EXCEPT ![p] = c]
         /\ Opened(p, c.op.name)
      \/ /\ Granted(c, u) /\ c.op.cmd = "LIST" /\ cli' = [cli EXCEPT ![p] = c]
         /\ local' = local
      \/ /\ c.op.cmd \in {"PUT", "QUIT"} /\ cli' = [cli EXCEPT ![p] = Reports(c, "ok")]
         /\ local' = local
  BY DEF RecvReply, BodyNext, Becomes, GetBegins
<1>9. local' \in [Peers -> [Names -> File]] /\ todo' \in [Peers -> Seq(Lines)]
  BY <1>1, <1>8, OpenedType DEF ClientsTyped
<1>10. b = cli[p] /\ un = unread[p] /\ new = unread'[p] /\ log = rx[p]
  OBVIOUS
<1> HIDE DEF b, u, c, un, new, log
<1>11. ASSUME NEW d, Left(p, d), d.out = <<>>,
              b.op.cmd = "QUIT" => d.at = "closed",
              \/ d.at = "closed"
              \/ d.at = "prompt" /\ (held /\ LogFits(log) => AllComplete(log, new))
              \/ d.at = "body" /\ (held => InBody(d.left, log, new))
       PROVE  StepIs(p)
  <2>1. d = cli'[p]
    BY <1>11, LeftTyped
  <2>2. DoesFor(p)
    BY <1>1, <1>2, <1>6, <1>10, <1>11, <2>1, ReadDoes
  <2>. QED
    BY <1>2, <1>9, <1>11, <2>2 DEF StepIs, OwnStep
<1>12. ASSUME NEW d, Done(c, d), cli' = [cli EXCEPT ![p] = d],
              ~IsReply(u) \/ ~Granted(c, u) \/ c.op.cmd \in {"PUT", "QUIT"}
       PROVE  StepIs(p)
  <2>1. /\ Left(p, d) /\ d.out = <<>> /\ d.at \in {"closed", "prompt"}
        /\ b.op.cmd = "QUIT" => d.at = "closed"
    BY <1>6, <1>12 DEF Left, Done
  <2>2. held /\ LogFits(log) => AllComplete(log, new)
    BY <1>6, <1>7, <1>12 DEF Granted
  <2>. QED
    BY <1>11, <2>1, <2>2
<1>13. ASSUME NEW d, d \in Process, Between(d), d.at = "body", d.out = <<>>,
              c.op.cmd # "QUIT", d.left = u.length, cli' = [cli EXCEPT ![p] = d]
       PROVE  StepIs(p)
  <2>1. Left(p, d)
    BY <1>13 DEF Left
  <2>2. held => InBody(d.left, log, new)
    BY <1>7, <1>13
  <2>. QED
    BY <1>6, <1>11, <1>13, <2>1, <2>2
<1>14. Done(c, Reports(c, "failed")) /\ Done(c, Reports(c, "ok"))
  BY <1>6, ReportsIs
<1>15. c.op.cmd = "GET" => LET d == ReadPast(c) IN
          d \in Process /\ Between(d) /\ d.at = "body" /\ d.left = c.left /\ d.out = c.out
  BY <1>6, ReadPastIs
<1>. QED
  BY <1>6, <1>8, <1>12, <1>13, <1>14, <1>15

(* recv_all: one unit of the body less to come.                            *)
Less(c) == [c EXCEPT !.left = @ - 1]

LEMMA LessIs ==
    ASSUME NEW c \in Process, Between(c), c.at = "body", c.left > 0,
           NEW d, d = Less(c)
    PROVE  /\ d \in Process /\ Between(d) /\ d.at = "body" /\ d.op = c.op
           /\ d.left = c.left - 1 /\ d.out = <<>> /\ c.out = <<>> /\ c.left \in Nat
<1>1. d = [at |-> "body", out |-> c.out, left |-> c.left - 1, drop |-> c.drop,
           told |-> c.told, op |-> c.op]
  BY DEF Less, Process
<1>2. /\ c.told \in BOOLEAN /\ c.drop \in BOOLEAN /\ c.op \in Command
      /\ c.out \in Seq(Unit) /\ c.left \in Nat
  BY DEF Process
<1>3. c.op.phase = "running" /\ c.out = <<>> /\ (c.drop => c.op.cmd = "GET")
  BY <1>2 DEF Between
<1>4. c.left - 1 \in Nat
  BY <1>2
<1>5. d \in Process
  BY <1>1, <1>2, <1>4 DEF Process
<1>. QED
  BY <1>1, <1>2, <1>3, <1>5 DEF Between

(* The listing grows by a byte.                                            *)
Shows(c, byte) == [c EXCEPT !.op.shown = Append(@, byte)]

LEMMA ShowsIs ==
    ASSUME NEW c \in Process, Between(c), NEW byte \in Byte, NEW d, d = Shows(c, byte)
    PROVE  /\ d \in Process /\ Between(d) /\ d.at = c.at /\ d.out = c.out
           /\ d.left = c.left
<1> DEFINE o == c.op
           shown == Append(o.shown, byte)
           op == [cmd |-> o.cmd, name |-> o.name, had |-> o.had, shown |-> shown,
                  phase |-> o.phase]
<1>1. c.op \in Command
  BY DEF Process
<1>2. /\ o.cmd \in Cmds /\ o.name \in Names \cup {""} /\ o.had \in SUBSET SafeNames
      /\ o.shown \in Seq(Byte) /\ o.phase \in {"idle", "running", "ok", "failed"}
  BY <1>1 DEF Command
<1>3. shown \in Seq(Byte)
  BY <1>2, AppendProperties
<1>4. c.op = [cmd |-> o.cmd, name |-> o.name, had |-> o.had, shown |-> o.shown,
              phase |-> o.phase]
  BY <1>1 DEF Command
<1>5. d = [at |-> c.at, out |-> c.out, left |-> c.left, drop |-> c.drop,
           told |-> c.told, op |-> op]
  BY <1>4 DEF Shows, Process
<1>6. op.cmd = c.op.cmd /\ op.phase = c.op.phase
  OBVIOUS
<1> HIDE DEF shown
<1>7. op \in Command
  BY <1>2, <1>3, CommandIs
<1> HIDE DEF op, o
<1>8. /\ c.told \in BOOLEAN /\ c.drop \in BOOLEAN /\ c.out \in Seq(Unit) /\ c.left \in Nat
      /\ c.at \in {"connect", "prompt", "send", "recv", "body", "closed"}
  BY DEF Process
<1>9. d \in Process
  BY <1>5, <1>7, <1>8 DEF Process
<1>10. d.at = c.at /\ d.out = c.out /\ d.left = c.left /\ d.op = op /\ (d.drop <=> c.drop)
  BY <1>5
<1>11. Between(d)
  BY <1>6, <1>10 DEF Between
<1>. QED
  BY <1>9, <1>10, <1>11

(* A file of the client's grows by a byte.                                 *)
MoreData(f, byte) == [f EXCEPT !.data = Append(@, byte)]

LEMMA MoreDataIs ==
    ASSUME NEW f \in File, NEW byte \in Byte
    PROVE  MoreData(f, byte) \in File
<1> DEFINE s == Append(f.data, byte)
           g == [kind |-> f.kind, data |-> s]
<1>1. f.kind \in {"none", "dir", "reg"} /\ f.data \in Seq(Byte)
  BY DEF File
<1>2. s \in Seq(Byte)
  BY <1>1, AppendProperties
<1>3. f = [kind |-> f.kind, data |-> f.data]
  BY DEF File
<1>4. MoreData(f, byte) = [f EXCEPT !.data = s]
  BY DEF MoreData
<1> HIDE DEF s
<1>5. [f EXCEPT !.data = s] = g
  BY <1>3
<1>. QED
  BY <1>1, <1>2, <1>4, <1>5 DEF File

GrowsFile(p, name, byte) ==
    local' = [local EXCEPT ![p][name].data = Append(@, byte)]

LEMMA GrownFile ==
    ASSUME ClientsTyped, NEW p, NEW name, NEW byte \in Byte, GrowsFile(p, name, byte)
    PROVE  local' \in [Peers -> [Names -> File]]
<1> DEFINE g == MoreData(local[p][name], byte)
<1>1. local \in [Peers -> [Names -> File]]
  BY DEF ClientsTyped
<1>2. local' = [local EXCEPT ![p] = [local[p] EXCEPT ![name] = g]]
  BY DEF GrowsFile, MoreData
<1>3. CASE p \in Peers /\ name \in Names
  <2>1. local[p][name] \in File
    BY <1>1, <1>3
  <2>2. g \in File
    BY <2>1, MoreDataIs
  <2> HIDE DEF g
  <2>6. [local[p] EXCEPT ![name] = g] \in [Names -> File]
    BY <1>1, <1>3, <2>2
  <2>. QED
    BY <1>1, <1>2, <1>3, <2>6
<1>4. CASE p \notin Peers
  <2> HIDE DEF g
  <2>. QED
    BY <1>1, <1>2, <1>4
<1>5. CASE p \in Peers /\ name \notin Names
  <2> HIDE DEF g
  <2>1. [local[p] EXCEPT ![name] = g] = local[p]
    BY <1>1, <1>5
  <2>. QED
    BY <1>1, <1>2, <2>1
<1>. QED
  BY <1>3, <1>4, <1>5

LEMMA RecvBodyIs ==
    ASSUME WireTypeOK, ClientsTyped, NEW p \in Peers, RecvBody(p)
    PROVE  StepIs(p)
<1> DEFINE b == cli[p]
           byte == ByteOf(NextUnit(p))
           c == Less(b)
           un == unread[p]
           new == unread'[p]
           log == rx[p]
<1>1. b.at = "body" /\ c.left + 1 > 0 /\ TakesUnit(p) /\ todo' = todo
  BY DEF RecvBody, ClientAt, Becomes, Less
<1>2. /\ EndStep(p) /\ stream'[p] = stream[p]
      /\ un \in Nat /\ un > 0 /\ new = un - 1
  BY <1>1, TakesUnitIs
<1>3. b \in Process /\ Between(b) /\ b.left \in Nat
  BY ClientFacts DEF Process
<1>4. byte \in Byte
  BY <1>2, NextUnitIs
<1>5. b.left > 0
  <2>1. c.left = b.left - 1
    BY <1>3 DEF Less, Process
  <2>. QED
    BY <1>1, <1>3, <2>1
<1>6. \/ cli' = [cli EXCEPT ![p] = Shows(c, byte)] /\ local' = local
      \/ cli' = [cli EXCEPT ![p] = c] /\ local' = local
      \/ /\ cli' = [cli EXCEPT ![p] = c]
         /\ GrowsFile(p, c.op.name, byte)
  BY DEF RecvBody, Less, Becomes, Shows, GrowsFile
<1>7. c = Less(b) /\ b = cli[p] /\ un = unread[p] /\ new = unread'[p] /\ log = rx[p]
  OBVIOUS
<1> HIDE DEF b, byte, c, un, new, log
<1>8. /\ c \in Process /\ Between(c) /\ c.at = "body" /\ c.op = b.op
      /\ c.left = b.left - 1 /\ c.out = <<>> /\ b.out = <<>>
  BY <1>1, <1>3, <1>5, <1>7, LessIs
<1>9. local' \in [Peers -> [Names -> File]] /\ todo' \in [Peers -> Seq(Lines)]
  BY <1>1, <1>4, <1>6, GrownFile DEF ClientsTyped
<1>10. PICK d : /\ cli' = [cli EXCEPT ![p] = d] /\ d \in Process /\ Between(d)
                /\ d.at = "body" /\ d.out = <<>> /\ d.left = b.left - 1
  <2>1. CASE cli' = [cli EXCEPT ![p] = Shows(c, byte)]
    <3> DEFINE d == Shows(c, byte)
    <3>1. d \in Process /\ Between(d) /\ d.at = c.at /\ d.out = c.out /\ d.left = c.left
      BY <1>4, <1>8, ShowsIs
    <3>2. cli' = [cli EXCEPT ![p] = d]
      BY <2>1
    <3> HIDE DEF d
    <3>. QED
      BY <1>8, <3>1, <3>2
  <2>2. CASE cli' = [cli EXCEPT ![p] = c]
    BY <1>8, <2>2
  <2>. QED
    BY <1>6, <2>1, <2>2
<1>11. Left(p, d)
  BY <1>10 DEF Left
<1>12. d = cli'[p]
  BY <1>11, LeftTyped
<1>13. InBody(b.left, log, un) => InBody(d.left, log, new)
  <2> DEFINE l == b.left
             k == Len(LastOf(log).body)
             m == LastOf(log).length
  <2>1. SUFFICES ASSUME log # <<>>, l + k = un + m PROVE (l - 1) + k = new + m
    BY <1>10 DEF InBody
  <2>2. k \in Nat /\ m \in Nat
    <3>1. log \in Seq(Reply)
      BY <1>7 DEF WireTypeOK
    <3>2. LastOf(log) \in Reply /\ k \in Nat
      BY <2>1, <3>1, LastReply DEF LastOf
    <3>. QED
      BY <3>2 DEF Reply
  <2>3. l \in Nat /\ l > 0
    BY <1>3, <1>5
  <2> HIDE DEF l, k, m
  <2>. QED
    BY <1>2, <2>1, <2>2, <2>3
<1>14. DoesFor(p)
  BY <1>1, <1>2, <1>7, <1>8, <1>10, <1>12, <1>13, ReadDoes
<1>. QED
  BY <1>2, <1>9, <1>11, <1>14 DEF StepIs, OwnStep

LEMMA BodyEndsIs ==
    ASSUME WireTypeOK, ClientsTyped, NEW p \in Peers, BodyEnds(p)
    PROVE  StepIs(p)
<1> DEFINE b == cli[p]
           phase == IF b.drop THEN "failed" ELSE "ok"
           d == Reports(b, phase)
           un == unread[p]
           log == rx[p]
<1>1. /\ b.at = "body" /\ b.left = 0 /\ cli' = [cli EXCEPT ![p] = d] /\ todo' = todo
      /\ local' = local /\ UNCHANGED wireVars
  BY DEF BodyEnds, ClientAt, Becomes, AllRead
<1>2. /\ EndStep(p) /\ stream'[p] = stream[p] /\ unread'[p] = un
  BY <1>1, SameEnds
<1>3. b \in Process /\ Between(b) /\ phase \in {"ok", "failed"}
  BY ClientFacts
<1>4. Done(b, d)
  <2> HIDE DEF b, phase
  <2>. QED
    BY <1>3, ReportsIs
<1>5. b.out = <<>>
  BY <1>1, <1>3 DEF Between
<1>6. b = cli[p] /\ un = unread[p] /\ log = rx[p]
  OBVIOUS
<1> HIDE DEF b, d, un, log
<1>7. Left(p, d)
  BY <1>1, <1>4 DEF Left, Done
<1>8. d = cli'[p]
  BY <1>7, LeftTyped
<1>9. InBody(b.left, log, un) /\ LogFits(log) => AllComplete(log, un)
  <2> DEFINE k == Len(LastOf(log).body)
             m == LastOf(log).length
  <2>1. SUFFICES ASSUME log # <<>>, 0 + k = un + m, LogFits(log) PROVE un = 0 /\ k = m
    BY <1>1 DEF InBody, AllComplete, Complete
  <2>2. log \in Seq(Reply) /\ un \in Nat
    BY <1>6, WireAssumption DEF WireTypeOK
  <2>3. LastOf(log) \in Reply /\ k \in Nat
    BY <2>1, <2>2, LastReply DEF LastOf
  <2>4. m \in Nat
    BY <2>3 DEF Reply
  <2>5. k <= m
    <3>1. Len(log) \in 1 .. Len(log)
      BY <2>1, <2>2, EmptySeq, LenProperties
    <3>. QED
      BY <2>1, <3>1 DEF LogFits, LastOf
  <2> HIDE DEF k, m
  <2>. QED
    BY <2>1, <2>2, <2>3, <2>4, <2>5
<1>10. DoesFor(p)
  BY <1>1, <1>2, <1>4, <1>5, <1>6, <1>8, <1>9, ReadDoes DEF Done
<1>. QED
  BY <1>1, <1>2, <1>7, <1>10 DEF StepIs, OwnStep, ClientsTyped

(* A connection is asked for; a client that cannot have one is done.       *)
Begins(p, up) ==
    /\ up
    /\ cli[p].at = "connect" /\ cli'[p].at = "prompt" /\ Connect(p)
    /\ ClientsTyped' /\ WireTypeOK'

LEMMA ConnectTyped ==
    ASSUME WireTypeOK, NEW p \in Peers, Connect(p)
    PROVE  WireTypeOK'
<1>1. backlog' \in Seq(Peers)
  BY AppendProperties DEF WireTypeOK, Connect
<1>2. sock' \in [Peers -> {"idle", "open", "fin", "rst", "pipe"}]
  BY DEF WireTypeOK, Connect
<1>. QED
  BY <1>1, <1>2 DEF WireTypeOK, Connect

LEMMA ConnectsIs ==
    ASSUME WireTypeOK, ClientsTyped, NEW p \in Peers, NEW up, Connects(p, up)
    PROVE  Begins(p, up) \/ StepIs(p)
<1> DEFINE b == cli[p]
<1>1. b.at = "connect" /\ local' = local /\ todo' = todo
  BY DEF Connects, ClientAt, Becomes
<1>2. b \in Process /\ Between(b)
  BY ClientFacts
<1>3. CASE up /\ Connect(p) /\ Becomes(p, [b EXCEPT !.at = "prompt"])
  <2> DEFINE d == [b EXCEPT !.at = "prompt"]
  <2>1. d \in Process /\ Between(d) /\ d.at = "prompt"
    BY <1>1, <1>2 DEF Process, Between
  <2>2. cli' = [cli EXCEPT ![p] = d]
    BY <1>3 DEF Becomes
  <2> HIDE DEF d
  <2>3. Left(p, d)
    BY <2>1, <2>2 DEF Left
  <2>4. d = cli'[p]
    BY <2>3, LeftTyped
  <2>5. WireTypeOK'
    BY <1>3, ConnectTyped
  <2>6. \A q \in Peers : unread'[q] = unread[q] /\ Sent(q)' = Sent(q)
    BY <1>3 DEF Connect, Sent
  <2>7. ClientsTyped'
    BY <1>1, <2>3, <2>6, LeftTyped DEF ClientsTyped
  <2>. QED
    BY <1>1, <1>3, <2>1, <2>4, <2>5, <2>7 DEF Begins
<1>4. CASE Becomes(p, Exited(b)) /\ UNCHANGED wireVars
  <2> DEFINE d == Exited(b)
  <2>1. cli' = [cli EXCEPT ![p] = d]
    BY <1>4 DEF Becomes
  <2>2. Over(d)
    BY <1>2, ExitedIs
  <2> HIDE DEF d
  <2>3. Left(p, d) /\ SameRest(p)
    BY <1>1, <2>1, <2>2 DEF Left, Over, SameRest, ClientsTyped
  <2>4. EndStep(p) /\ stream'[p] = stream[p]
    BY <1>4, SameEnds
  <2>. QED
    BY <1>1, <2>2, <2>3, <2>4, EndsIs
<1>. QED
  BY <1>3, <1>4 DEF Connects

-----------------------------------------------------------------------------
(* The stream of a client and its log, for the proofs about either server. *)

LEMMA MeansIs ==
    ASSUME WireTypeOK, ClientsTyped, NEW p \in Peers
    PROVE  Means(p) \in Seq(Unit) /\ Len(Means(p)) \in Nat
<1>1. stream[p] \in Seq(Unit) /\ cli[p].out \in Seq(Unit)
  BY ClientFacts DEF WireTypeOK
<1>2. Means(p) \in Seq(Unit)
  BY <1>1, ConcatProperties DEF Means
<1>. QED
  BY <1>2

(* What is received of the stream is part of all that the client means to  *)
(* send.                                                                   *)
LEMMA StreamIsMeant ==
    ASSUME WireTypeOK, ClientsTyped, NEW p \in Peers, NEW S, S = Means(p)
    PROVE  /\ S \in Seq(Unit) /\ Len(S) \in Nat /\ Len(stream[p]) \in Nat
           /\ Len(stream[p]) <= Len(S)
           /\ \A i \in 1 .. Len(stream[p]) : S[i] = stream[p][i]
<1>1. stream[p] \in Seq(Unit) /\ cli[p].out \in Seq(Unit)
  BY ClientFacts DEF WireTypeOK
<1> DEFINE s == stream[p]
           t == cli[p].out
<1>5. S = s \o t
  BY DEF Means
<1>6. s \in Seq(Unit) /\ t \in Seq(Unit)
  BY <1>1
<1> HIDE DEF s, t
<1>7. /\ Len(s \o t) = Len(s) + Len(t)
      /\ \A i \in 1 .. Len(s) + Len(t) : (s \o t)[i] = IF i <= Len(s) THEN s[i] ELSE t[i - Len(s)]
  BY <1>6, ConcatProperties
<1>8. Len(s) \in Nat /\ Len(t) \in Nat
  BY <1>6, LenProperties
<1>2. Len(S) = Len(s) + Len(t)
  BY <1>5, <1>7
<1>9. \A i \in 1 .. Len(s) : S[i] = s[i]
  <2>1. TAKE i \in 1 .. Len(s)
  <2>2. i \in 1 .. Len(s) + Len(t) /\ i <= Len(s)
    BY <1>8
  <2>. QED
    BY <1>5, <1>7, <2>2
<1>3. S \in Seq(Unit)
  BY <1>1, MeansIs
<1>4. Len(s) <= Len(S) /\ Len(S) \in Nat
  BY <1>2, <1>8
<1>. QED
  BY <1>3, <1>4, <1>8, <1>9 DEF s

LEMMA SamePart ==
    ASSUME NEW s \in Seq(Unit), NEW S \in Seq(Unit), NEW i \in Nat, i >= 1, NEW j \in Nat,
           i <= j + 1, j <= Len(s), Len(s) <= Len(S), \A k \in 1 .. Len(s) : S[k] = s[k]
    PROVE  SubSeq(s, i, j) = SubSeq(S, i, j)
<1>1. Len(s) \in Nat /\ Len(S) \in Nat
  OBVIOUS
<1>2. \A k \in i .. j : S[k] = s[k]
  BY <1>1
<1>3. SubSeq(s, i, j) \in Seq(Unit) /\ SubSeq(S, i, j) \in Seq(Unit)
  BY <1>1, SubSeqProperties
<1>4. /\ Len(SubSeq(s, i, j)) = j + 1 - i /\ Len(SubSeq(S, i, j)) = j + 1 - i
      /\ \A k \in 1 .. j + 1 - i : SubSeq(s, i, j)[k] = s[i + k - 1]
      /\ \A k \in 1 .. j + 1 - i : SubSeq(S, i, j)[k] = S[i + k - 1]
  BY <1>1, SubSeqProperties
<1>5. \A k \in 1 .. j + 1 - i : SubSeq(s, i, j)[k] = SubSeq(S, i, j)[k]
  <2>1. TAKE k \in 1 .. j + 1 - i
  <2>2. i + k - 1 \in i .. j
    OBVIOUS
  <2>. QED
    BY <1>2, <1>4, <2>2
<1> DEFINE a == SubSeq(s, i, j)
           b == SubSeq(S, i, j)
<1>6. a \in Seq(Unit) /\ b \in Seq(Unit) /\ Len(a) = Len(b)
      /\ \A k \in 1 .. Len(a) : a[k] = b[k]
  BY <1>3, <1>4, <1>5
<1> HIDE DEF a, b
<1>7. a = b
  BY <1>6, SeqEqual
<1>. QED
  BY <1>7 DEF a, b

(* The header that is in the buffer.                                       *)
Plain(cmd, n) == [magic |-> TRUE, cmd |-> cmd, length |-> n]

RunAt(units, S, i) == \A k \in 1 .. Len(units) : units[k] = S[i + k - 1]

LEMMA HeaderInBuffer ==
    ASSUME NEW S, NEW i \in Nat, NEW cmd, NEW n, HeaderIs(S, i, cmd, n),
           NEW units, Len(units) = HdrLen, RunAt(units, S, i)
    PROVE  units[1].head = Plain(cmd, n)
<1>1. 1 \in 1 .. HdrLen
  BY WireAssumption
<1>2. PartIs(S[i + 1 - 1], 1, cmd, n) /\ units[1] = S[i + 1 - 1]
  BY <1>1 DEF HeaderIs, RunAt
<1>. QED
  BY <1>2 DEF PartIs, Plain

(* The replies of log are all in `new`, the last one maybe with more.      *)
Keeps(log, new) ==
    \A i \in 1 .. Len(log) :
        /\ i \in 1 .. Len(new)
        /\ new[i].cmd = log[i].cmd /\ new[i].status = log[i].status

(* The last reply has n bytes more.                                        *)
Carried(log, new, n) ==
    /\ log # <<>> /\ new # <<>> /\ n \in Nat
    /\ LastOf(new).cmd = LastOf(log).cmd /\ LastOf(new).status = LastOf(log).status
    /\ LastOf(new).length = LastOf(log).length
    /\ Len(LastOf(new).body) = Len(LastOf(log).body) + n

LEMMA CarriedOn ==
    ASSUME NEW log \in Seq(Reply), log # <<>>, NEW more \in Seq(Byte), NEW n, n = Len(more),
           NEW new, new = Longer(log, more)
    PROVE  /\ new \in Seq(Reply) /\ Keeps(log, new) /\ Carried(log, new, n)
           /\ Len(UnitsOf(new)) = Len(UnitsOf(log)) + n
<1>1. /\ new \in Seq(Reply) /\ Len(new) = Len(log)
      /\ \A i \in 1 .. Len(log) :
             /\ new[i].cmd = log[i].cmd /\ new[i].status = log[i].status
             /\ new[i].length = log[i].length
             /\ new[i].body = IF i = Len(log) THEN log[i].body \o more ELSE log[i].body
  BY LongerType
<1>2. Len(log) \in 1 .. Len(log)
  BY EmptySeq, LenProperties
<1>3. new # <<>>
  <2>1. Len(new) > 0
    BY <1>1, <1>2
  <2>. QED
    BY <2>1, EmptySeq
<1>4. n \in Nat
  BY LenProperties
<1>5. Len(LastOf(new).body) = Len(LastOf(log).body) + n
  <2> DEFINE body == LastOf(log).body
  <2>1. body \in Seq(Byte)
    BY LastReply DEF LastOf, Reply
  <2>2. LastOf(new).body = body \o more
    BY <1>1, <1>2 DEF LastOf
  <2> HIDE DEF body
  <2>3. Len(body \o more) = Len(body) + Len(more)
    BY <2>1, ConcatProperties
  <2>. QED
    BY <2>2, <2>3 DEF body
<1>6. Carried(log, new, n)
  BY <1>1, <1>2, <1>3, <1>4, <1>5 DEF Carried, LastOf
<1>7. Len(UnitsOf(new)) = Len(UnitsOf(log)) + n
  BY UnitsLonger
<1>. QED
  BY <1>1, <1>6, <1>7 DEF Keeps

(* Another reply is begun.                                                 *)
BegunWith(new, r, upto) ==
    /\ new # <<>> /\ LastOf(new).cmd = r.cmd /\ LastOf(new).status = r.status
    /\ LastOf(new).length = r.length /\ Len(LastOf(new).body) = upto - 1

LEMMA PartJoins ==
    ASSUME NEW log \in Seq(Reply), NEW r \in Reply, NEW from \in Nat, NEW upto \in Nat,
           from < upto, upto <= Len(r.body) + 1, from > 0 => log # <<>>,
           NEW new, new = Extend(log, r, from, upto)
    PROVE  /\ new \in Seq(Reply) /\ Keeps(log, new)
           /\ Len(UnitsOf(new)) = Len(UnitsOf(log)) + (upto - from)
           /\ from = 0 => BegunWith(new, r, upto)
           /\ from > 0 => Carried(log, new, upto - from)
<1>0. r.body \in Seq(Byte) /\ Len(r.body) \in Nat
  BY LenProperties DEF Reply
<1>1. CASE from = 0
  <2>1. /\ new \in Seq(Reply) /\ Len(new) = Len(log) + 1
        /\ \A i \in 1 .. Len(log) : new[i] = log[i]
        /\ new[Len(new)].cmd = r.cmd /\ new[Len(new)].status = r.status
        /\ new[Len(new)].length = r.length
        /\ new[Len(new)].body = SubSeq(r.body, 1, upto - 1)
    BY <1>1, ExtendBegins
  <2>2. new # <<>>
    BY <2>1, EmptySeq
  <2>3. Len(SubSeq(r.body, 1, upto - 1)) = upto - 1
    BY <1>0, <1>1, SubSeqProperties
  <2>4. BegunWith(new, r, upto)
    BY <2>1, <2>2, <2>3 DEF BegunWith, LastOf
  <2>5. Keeps(log, new)
    BY <2>1 DEF Keeps
  <2>. QED
    BY <1>1, <2>1, <2>4, <2>5, UnitsExtended
<1>2. CASE from > 0
  <2> DEFINE more == Rest(r, from, upto)
  <2>1. new = Longer(log, more) /\ more \in Seq(Byte)
    BY <1>2, ExtendGoesOn
  <2>2. Len(more) = upto - from
    <3>1. from \in 1 .. Len(r.body) + 1 /\ upto - 1 \in from - 1 .. Len(r.body)
      BY <1>0, <1>2
    <3>2. Len(SubSeq(r.body, from, upto - 1)) = upto - 1 + 1 - from
      BY <1>0, <1>2, <3>1, SubSeqProperties
    <3>. QED
      BY <3>2 DEF Rest
  <2> HIDE DEF more
  <2> DEFINE n == upto - from
  <2>3. n = Len(more)
    BY <2>2
  <2> HIDE DEF n
  <2>4. /\ new \in Seq(Reply) /\ Keeps(log, new) /\ Carried(log, new, n)
        /\ Len(UnitsOf(new)) = Len(UnitsOf(log)) + n
    BY <1>2, <2>1, <2>3, CarriedOn
  <2>. QED
    BY <1>2, <2>4 DEF n
<1>. QED
  BY <1>1, <1>2

(* What a client waits for is longer by what it has more to read.          *)
LEMMA HandCarried ==
    ASSUME NEW log \in Seq(Reply), NEW new, NEW n, Carried(log, new, n), NEW un \in Nat,
           NEW more, more = un + n
    PROVE  /\ \A op : InHand(op, log, un) => InHand(op, new, more)
           /\ \A left \in Nat : InBody(left, log, un) => InBody(left, new, more)
<1> DEFINE k == Len(LastOf(log).body)
           m == LastOf(log).length
<1>1. /\ n \in Nat /\ log # <<>> /\ new # <<>> /\ Len(LastOf(new).body) = k + n
      /\ LastOf(new).length = m
  BY DEF Carried
<1>2. LastOf(log) \in Reply /\ k \in Nat
  BY <1>1, LastReply DEF LastOf
<1>3. m \in Nat
  BY <1>2 DEF Reply
<1>4. ASSUME NEW op, InHand(op, log, un)
      PROVE  InHand(op, new, more)
  <2>1. un = k + 1 /\ Fits(LastOf(log), op)
    BY <1>4 DEF InHand
  <2>2. Fits(LastOf(new), op)
    BY <2>1 DEF Fits, Carried
  <2> HIDE DEF k
  <2>3. more = (k + n) + 1
    BY <1>1, <1>2, <2>1
  <2>. QED
    BY <1>1, <2>2, <2>3 DEF InHand
<1>5. ASSUME NEW left \in Nat, InBody(left, log, un)
      PROVE  InBody(left, new, more)
  <2>1. left + k = un + m
    BY <1>5 DEF InBody
  <2> HIDE DEF k, m
  <2>2. left + (k + n) = more + m
    BY <1>1, <1>2, <1>3, <2>1
  <2>. QED
    BY <1>1, <2>2 DEF InBody
<1>. QED
  BY <1>4, <1>5

PutRefused(log) == \E i \in DOMAIN log : log[i].cmd = "PUT" /\ log[i].status = 1

LEMMA RefusalKept ==
    ASSUME NEW log \in Seq(Reply), NEW new \in Seq(Reply), Keeps(log, new), PutRefused(log)
    PROVE  PutRefused(new)
<1>1. DOMAIN log = 1 .. Len(log) /\ DOMAIN new = 1 .. Len(new)
  BY LenProperties
<1>. QED
  BY <1>1 DEF PutRefused, Keeps

(* A reply that is begun is what the client has to read.                   *)
LEMMA BegunInHand ==
    ASSUME NEW new, NEW r, NEW upto \in Nat, BegunWith(new, r, upto),
           LastOf(new) \in Reply, NEW op, Fits(r, op)
    PROVE  InHand(op, new, upto)
<1>1. Fits(LastOf(new), op)
  BY DEF Fits, BegunWith
<1> DEFINE k == Len(LastOf(new).body)
<1>2. k = upto - 1 /\ k \in Nat
  BY LenProperties DEF BegunWith, Reply
<1> HIDE DEF k
<1>3. upto = k + 1
  BY <1>2
<1>. QED
  BY <1>1, <1>3 DEF InHand, BegunWith, k

(* What was sent and not read is longer by what is sent now.               *)
Grows(p) ==
    \E n \in Nat : /\ unread'[p] = unread[p] + n
                   /\ Len(UnitsOf(rx'[p])) = Len(UnitsOf(rx[p])) + n
                   /\ Keeps(rx[p], rx'[p])

LEMMA NothingGrows ==
    ASSUME WireTypeOK, NEW p \in Peers, rx'[p] = rx[p], unread'[p] = unread[p]
    PROVE  Grows(p)
<1>1. unread[p] \in Nat /\ rx[p] \in Seq(Reply)
  BY WireAssumption DEF WireTypeOK
<1>2. Len(UnitsOf(rx[p])) \in Nat
  BY <1>1, UnitsType
<1>3. Keeps(rx[p], rx'[p])
  BY DEF Keeps
<1>4. /\ unread'[p] = unread[p] + 0
      /\ Len(UnitsOf(rx'[p])) = Len(UnitsOf(rx[p])) + 0
  BY <1>1, <1>2
<1>. QED
  BY <1>3, <1>4 DEF Grows

LEMMA NoClientTyped ==
    NoClient \in Process /\ Between(NoClient) /\ NoClient.at = "connect"
<1> DEFINE op == [cmd |-> "OTHER", name |-> "", had |-> {}, shown |-> <<>>,
                  phase |-> "idle"]
<1>1. op \in Command /\ op.phase = "idle"
  BY DEF Command, Cmds
<1>2. NoClient = [at |-> "connect", out |-> <<>>, left |-> 0, drop |-> FALSE,
                  told |-> FALSE, op |-> op]
  BY DEF NoClient
<1> HIDE DEF op
<1>3. NoClient \in Process
  BY <1>1, <1>2 DEF Process
<1>4. /\ NoClient.at = "connect" /\ NoClient.out = <<>> /\ NoClient.left = 0
      /\ ~NoClient.drop /\ NoClient.op = op
  BY <1>2
<1>. QED
  BY <1>1, <1>3, <1>4 DEF Between

=============================================================================
