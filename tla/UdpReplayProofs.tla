---------------------------- MODULE UdpReplayProofs ----------------------------
(***************************************************************************)
(* LoadIsPrefix, AllOrError, OverrunNeedsNoPairs and ReplayIsExact of      *)
(* UdpReplay, for every workload, every size of the buffer and any number  *)
(* of failures, with the round trip of the package format.                 *)
(***************************************************************************)
EXTENDS UdpReplay, SequenceTheorems, WellFoundedInduction, TLAPS

-----------------------------------------------------------------------------
(* size_t. *)

\* Remainders are unique.
LEMMA SameRemainder ==
  ASSUME NEW m \in Nat \ {0}, NEW q \in Int, NEW u \in Int,
         NEW r \in 0 .. m - 1, NEW s \in 0 .. m - 1, q * m + r = u * m + s
  PROVE  r = s
<1>1. CASE q = u
  BY <1>1
<1>2. CASE q < u
  <2>1. (u - q) * m >= m
    BY <1>2
  <2>2. (u - q) * m = u * m - q * m
    OBVIOUS
  <2> QED BY <2>1, <2>2
<1>3. CASE q > u
  <2>1. (q - u) * m >= m
    BY <1>3
  <2>2. (q - u) * m = q * m - u * m
    OBVIOUS
  <2> QED BY <2>1, <2>2
<1> QED BY <1>1, <1>2, <1>3

LEMMA Division ==
  ASSUME NEW m \in Nat \ {0}, NEW k \in Int
  PROVE  k % m \in 0 .. m - 1 /\ k = (k \div m) * m + (k % m) /\ k \div m \in Int
OBVIOUS

LEMMA WrapIs ==
  ASSUME NEW k \in Int
  PROVE  /\ Wrap(k) \in 0 .. SizeMax
         /\ k = (k \div (SizeMax + 1)) * (SizeMax + 1) + Wrap(k)
         /\ k \div (SizeMax + 1) \in Int
<1>1. SizeMax \in Nat /\ SizeMax + 1 \in Nat \ {0}
  BY ReplayAssumption
<1> DEFINE m == SizeMax + 1
<1>2. k % m \in 0 .. m - 1 /\ k = (k \div m) * m + (k % m) /\ k \div m \in Int
  BY <1>1, Division
<1>3. k % m \in 0 .. SizeMax
  BY <1>1, <1>2
<1> QED BY <1>2, <1>3 DEF Wrap

\* Wrapping a part of a sum before the rest is added changes nothing.
LEMMA WrapSum ==
  ASSUME NEW k \in Int, NEW n \in Int
  PROVE  Wrap(Wrap(k) + n) = Wrap(k + n)
<1> DEFINE m == SizeMax + 1
           a == Wrap(k)
           b == Wrap(k + n)
           c == Wrap(a + n)
<1>1. m \in Nat \ {0} /\ SizeMax = m - 1
  BY ReplayAssumption
<1>2. a \in 0 .. SizeMax /\ a + n \in Int
  BY WrapIs, ReplayAssumption
<1>3. PICK q \in Int : k = q * m + a
  BY WrapIs
<1>4. PICK u \in Int : k + n = u * m + b
  BY WrapIs
<1>5. PICK v \in Int : a + n = v * m + c
  BY <1>2, WrapIs, Zenon
<1>6. b \in 0 .. SizeMax /\ c \in 0 .. SizeMax
  <2>1. k + n \in Int
    OBVIOUS
  <2> QED BY <1>2, <2>1, WrapIs, Zenon
<1> HIDE DEF a, b, c, m
<1>7. (q + v) * m + c = u * m + b /\ q + v \in Int
  <2>1. (q + v) * m = q * m + v * m
    BY <1>1
  <2>2. q * m \in Int /\ v * m \in Int /\ u * m \in Int /\ a \in Int /\ b \in Int /\ c \in Int
    BY <1>1, <1>2, <1>6, ReplayAssumption
  <2> QED BY <1>3, <1>4, <1>5, <2>1, <2>2
<1>8. c = b
  <2>1. b \in 0 .. m - 1 /\ c \in 0 .. m - 1
    BY <1>1, <1>6
  <2> QED BY <1>1, <1>7, <2>1, SameRemainder
<1> QED BY <1>8 DEF a, b, c

\* Small numbers are not wrapped, and a whole turn is not seen.
LEMMA WrapSmall ==
  ASSUME NEW k \in 0 .. SizeMax
  PROVE  Wrap(k) = k /\ Wrap(k + SizeMax + 1) = k
<1> DEFINE m == SizeMax + 1
<1>1. m \in Nat \ {0} /\ SizeMax = m - 1 /\ SizeMax \in Nat
  BY ReplayAssumption
<1>2. k \in Int /\ k + SizeMax + 1 \in Int /\ k \in 0 .. m - 1 /\ k + SizeMax + 1 = k + m
  BY <1>1
<1>3. PICK q \in Int : k = q * m + Wrap(k)
  BY <1>2, WrapIs
<1>4. PICK u \in Int : k + SizeMax + 1 = u * m + Wrap(k + SizeMax + 1)
  BY <1>2, WrapIs
<1>5. Wrap(k) \in 0 .. m - 1 /\ Wrap(k + SizeMax + 1) \in 0 .. m - 1
  BY <1>1, <1>2, WrapIs
<1> HIDE DEF m
<1>6. 0 * m + k = k /\ 1 * m + k = k + m
  BY <1>1, <1>2
<1>7. Wrap(k) = k
  BY <1>1, <1>2, <1>3, <1>5, <1>6, SameRemainder
<1>8. Wrap(k + SizeMax + 1) = k
  BY <1>1, <1>2, <1>4, <1>5, <1>6, SameRemainder
<1> QED BY <1>7, <1>8

LEMMA LeastIs ==
  ASSUME NEW a \in Int, NEW b \in Int
  PROVE  Least(a, b) \in Int /\ Least(a, b) <= a /\ Least(a, b) <= b /\ Least(a, b) \in {a, b}
BY DEF Least

-----------------------------------------------------------------------------
(* Induction on numbers, as the absence of a least counterexample. *)

\* Every set of numbers has a least one.
LEMMA LeastNatural ==
  ASSUME NEW T, T \subseteq Nat, T # {}
  PROVE  \E n \in T : \A m \in T : n <= m
<1> DEFINE Before == OpToRel(<, Nat)
<1>1. IsWellFoundedOn(Before, Nat)
  BY NatLessThanWellFounded
<1>2. \A x, y \in Nat : x < y => <<x, y>> \in Before
  BY SMT DEF OpToRel
<1> HIDE DEF Before
<1>3. PICK n \in T : \A m \in T : ~(<<m, n>> \in Before)
  BY <1>1, WFMin
<1>4. \A m \in T : ~(m < n)
  BY <1>2, <1>3
<1>5. \A m \in T : n <= m
  BY ONLY <1>4, T \subseteq Nat, n \in T, SMT
<1> QED BY <1>5

\* A set of numbers with 0 and the successor of each of its elements below n holds 0 .. n.
LEMMA Upwards ==
  ASSUME NEW n \in Nat, NEW S, 0 \in S, \A k \in 0 .. n - 1 : k \in S => k + 1 \in S
  PROVE  0 .. n \subseteq S
<1> DEFINE T == {k \in 0 .. n : k \notin S}
<1> SUFFICES ASSUME T # {} PROVE FALSE
  OBVIOUS
<1>0. T \subseteq Nat
  OBVIOUS
<1>1. PICK k \in T : \A m \in T : k <= m
  BY <1>0, LeastNatural
<1>2. k \in 0 .. n /\ k \notin S /\ k # 0
  BY <1>1
<1>3. PICK j \in 0 .. n - 1 : j + 1 = k /\ j < k /\ j \in 0 .. n
  <2>1. k - 1 \in 0 .. n - 1 /\ (k - 1) + 1 = k /\ k - 1 < k /\ k - 1 \in 0 .. n
    BY <1>2
  <2> QED BY <2>1
<1>4. j \notin T
  BY <1>1, <1>3
<1>5. j \in S
  BY <1>3, <1>4
<1> QED BY <1>2, <1>3, <1>5

-----------------------------------------------------------------------------
(* from_bytes(). *)

ParseState == [pos : Nat, kvs : Seq(Pair), ok : BOOLEAN, fault : BOOLEAN]
ParseStart == [pos |-> HdrLen, kvs |-> <<>>, ok |-> TRUE, fault |-> FALSE]

\* Nothing is accepted that reaches beyond the size, but for the header.
Within(st, size) == st.pos <= size \/ (st.pos = HdrLen /\ st.kvs = <<>>)

LEMMA InsideIs ==
  ASSUME NEW M \in Nat, NEW buf \in [0 .. M - 1 -> Nat], NEW from \in Nat, NEW len \in Nat
  PROVE  /\ Inside(buf, from, len) <=> len = 0 \/ from + len <= M
         /\ Inside(buf, from, len) => \A x \in from .. from + len - 1 : buf[x] \in Nat
<1>1. DOMAIN buf = 0 .. M - 1
  OBVIOUS
<1>2. ASSUME len # 0, Inside(buf, from, len) PROVE from + len <= M
  <2>1. from + len - 1 \in from .. from + len - 1
    BY <1>2
  <2>2. from + len - 1 \in 0 .. M - 1
    BY <1>1, <1>2, <2>1 DEF Inside
  <2> QED BY <2>2
<1>3. ASSUME len = 0 \/ from + len <= M PROVE Inside(buf, from, len)
  <2>1. from .. from + len - 1 \subseteq 0 .. M - 1
    BY <1>3
  <2> QED BY <1>1, <2>1 DEF Inside
<1>4. ASSUME Inside(buf, from, len), NEW x \in from .. from + len - 1 PROVE buf[x] \in Nat
  <2>1. x \in 0 .. M - 1
    BY <1>1, <1>4 DEF Inside
  <2> QED BY <2>1
<1> QED BY <1>2, <1>3, <1>4

LEMMA BytesType ==
  ASSUME NEW M \in Nat, NEW buf \in [0 .. M - 1 -> Nat], NEW from \in Nat, NEW len \in Nat,
         Inside(buf, from, len)
  PROVE  Bytes(buf, from, len) \in Seq(Nat) /\ Len(Bytes(buf, from, len)) = len
<1>1. \A j \in 1 .. len : buf[from + j - 1] \in Nat
  <2> SUFFICES ASSUME NEW j \in 1 .. len PROVE buf[from + j - 1] \in Nat
    OBVIOUS
  <2>1. from + j - 1 \in from .. from + len - 1
    OBVIOUS
  <2>2. from + j - 1 \in 0 .. M - 1
    BY <2>1 DEF Inside
  <2> QED BY <2>2
<1> QED BY <1>1 DEF Bytes

\* What a round of the loop may do.
Rejects(st, nx) == nx = st \/ nx = [st EXCEPT !.ok = FALSE] \/ nx = [st EXCEPT !.fault = TRUE]
Accepts(buf, at, size, st, nx) ==
  LET p == at + st.pos
      end == st.pos + 2 + buf[p] + buf[p + 1]
  IN /\ st.ok /\ ~st.fault
     /\ end <= size /\ Inside(buf, p, 2) /\ Inside(buf, p, end - st.pos)
     /\ nx = [pos |-> end, ok |-> TRUE, fault |-> FALSE,
              kvs |-> Append(st.kvs, [key |-> Bytes(buf, p + 2, buf[p]),
                                      val |-> Bytes(buf, p + 2 + buf[p], buf[p + 1])])]

LEMMA NextPairIs ==
  ASSUME NEW M \in Nat, NEW buf \in [0 .. M - 1 -> Nat], NEW at \in Nat, NEW size \in Nat,
         NEW st \in ParseState
  PROVE  LET nx == NextPair(buf, at, size, st)
         IN Rejects(st, nx) \/ Accepts(buf, at, size, st, nx)
<1> DEFINE p == at + st.pos
           end == st.pos + 2 + buf[p] + buf[p + 1]
           pair == [key |-> Bytes(buf, p + 2, buf[p]), val |-> Bytes(buf, p + 2 + buf[p], buf[p + 1])]
           nx == NextPair(buf, at, size, st)
<1>1. CASE ~st.ok \/ st.fault
  BY <1>1 DEF NextPair, Rejects
<1>2. CASE ~(~st.ok \/ st.fault) /\ st.pos + 2 > size
  BY <1>2 DEF NextPair, Rejects
<1>3. CASE ~(~st.ok \/ st.fault) /\ ~(st.pos + 2 > size) /\ ~Inside(buf, p, 2)
  BY <1>3 DEF NextPair, Rejects
<1>4. CASE /\ ~(~st.ok \/ st.fault) /\ ~(st.pos + 2 > size) /\ Inside(buf, p, 2)
           /\ end > size
  BY <1>4 DEF NextPair, Rejects
<1>5. CASE /\ ~(~st.ok \/ st.fault) /\ ~(st.pos + 2 > size) /\ Inside(buf, p, 2)
           /\ ~(end > size) /\ ~Inside(buf, p, end - st.pos)
  BY <1>5 DEF NextPair, Rejects
<1>6. CASE /\ ~(~st.ok \/ st.fault) /\ ~(st.pos + 2 > size) /\ Inside(buf, p, 2)
           /\ ~(end > size) /\ Inside(buf, p, end - st.pos)
  <2>1. nx = [st EXCEPT !.pos = end, !.kvs = Append(@, pair)]
    BY <1>6 DEF NextPair
  <2>2. nx = [pos |-> end, kvs |-> Append(st.kvs, pair), ok |-> TRUE, fault |-> FALSE]
    BY <1>6, <2>1 DEF ParseState
  <2>3. st.pos \in Nat /\ p \in Nat /\ p \in p .. p + 2 - 1 /\ p + 1 \in p .. p + 2 - 1
    BY DEF ParseState
  <2> HIDE DEF p
  <2>4. buf[p] \in Nat /\ buf[p + 1] \in Nat
    BY <1>6, <2>3, InsideIs
  <2>5. end <= size
    BY <1>6, <2>3, <2>4
  <2> USE DEF p
  <2> QED BY <1>6, <2>2, <2>5 DEF Accepts
<1> QED BY <1>1, <1>2, <1>3, <1>4, <1>5, <1>6

LEMMA NextPairType ==
  ASSUME NEW M \in Nat, NEW buf \in [0 .. M - 1 -> Nat], NEW at \in Nat, NEW size \in Nat,
         NEW st \in ParseState, Within(st, size)
  PROVE  LET nx == NextPair(buf, at, size, st)
         IN nx \in ParseState /\ Within(nx, size)
<1> DEFINE p == at + st.pos
           end == st.pos + 2 + buf[p] + buf[p + 1]
           key == Bytes(buf, p + 2, buf[p])
           val == Bytes(buf, p + 2 + buf[p], buf[p + 1])
           nx == NextPair(buf, at, size, st)
<1>1. CASE Rejects(st, nx)
  BY <1>1 DEF Rejects, ParseState, Within
<1>2. CASE Accepts(buf, at, size, st, nx)
  <2>1. /\ end <= size /\ Inside(buf, p, 2) /\ Inside(buf, p, end - st.pos)
        /\ nx = [pos |-> end, ok |-> TRUE, fault |-> FALSE,
                 kvs |-> Append(st.kvs, [key |-> key, val |-> val])]
    BY <1>2 DEF Accepts
  <2>2. st.pos \in Nat /\ st.kvs \in Seq(Pair)
    BY DEF ParseState
  <2>3. p \in Nat /\ p \in p .. p + 2 - 1 /\ p + 1 \in p .. p + 2 - 1
    BY <2>2
  <2> HIDE DEF p
  <2>4. buf[p] \in Nat /\ buf[p + 1] \in Nat
    BY <2>1, <2>3, InsideIs
  <2>41. PICK o \in Nat, a \in Nat, b \in Nat : o = st.pos /\ a = buf[p] /\ b = buf[p + 1]
    BY <2>2, <2>4
  <2>42. end = o + 2 + a + b
    BY ONLY <2>41
  <2> HIDE DEF end
  <2>43. end \in Nat /\ end - st.pos = 2 + a + b /\ 2 + a + b \in Nat
    <3>1. o + 2 + a + b \in Nat /\ (o + 2 + a + b) - o = 2 + a + b /\ 2 + a + b \in Nat
      OBVIOUS
    <3>2. end \in Nat /\ end - o = 2 + a + b
      BY <2>42, <3>1, Zenon
    <3> QED BY <2>41, <3>1, <3>2, Zenon
  <2>44. p + 2 + a + b <= M
    <3>1. Inside(buf, p, 2 + a + b)
      BY <2>1, <2>43
    <3>2. 2 + a + b # 0
      OBVIOUS
    <3> QED BY <2>3, <2>43, <3>1, <3>2, InsideIs
  <2>5. Inside(buf, p + 2, buf[p]) /\ Inside(buf, p + 2 + buf[p], buf[p + 1])
    <3>1. /\ p + 2 \in Nat /\ p + 2 + buf[p] \in Nat
          /\ p + 2 + buf[p] <= M /\ p + 2 + buf[p] + buf[p + 1] <= M
      <4>1. \A i \in Nat : i + 2 + a + b <= M => i + 2 \in Nat /\ i + 2 + a \in Nat /\ i + 2 + a <= M
        OBVIOUS
      <4>2. p + 2 \in Nat /\ p + 2 + a \in Nat /\ p + 2 + a <= M
        BY <2>3, <2>44, <4>1, Zenon
      <4> QED BY <2>41, <2>44, <4>2, Zenon
    <3> QED BY <2>4, <3>1, InsideIs
  <2>6. key \in Seq(Nat) /\ val \in Seq(Nat)
    <3>1. p + 2 \in Nat /\ p + 2 + buf[p] \in Nat
      BY <2>3, <2>4
    <3> QED BY <2>4, <2>5, <3>1, BytesType
  <2> HIDE DEF key, val
  <2>7. Append(st.kvs, [key |-> key, val |-> val]) \in Seq(Pair)
    BY <2>2, <2>6 DEF Pair
  <2> QED BY <2>1, <2>43, <2>7 DEF ParseState, Within
<1> QED BY <1>1, <1>2, NextPairIs

\* The states the loop goes through, one per round.
Rounds(buf, at, size, n, g) ==
  /\ g \in [0 .. n -> ParseState]
  /\ g[0] = ParseStart
  /\ \A k \in 1 .. n : g[k] = NextPair(buf, at, size, g[k - 1])
  /\ \A k \in 0 .. n : Within(g[k], size)

LEMMA ParseStartType ==
  ASSUME NEW size
  PROVE  ParseStart \in ParseState /\ Within(ParseStart, size)
<1>1. <<>> \in Seq(Pair)
  BY EmptySeq
<1> QED BY <1>1 DEF ParseStart, ParseState, Within, HdrLen

LEMMA RoundsExist ==
  ASSUME NEW M \in Nat, NEW buf \in [0 .. M - 1 -> Nat], NEW at \in Nat, NEW size \in Nat,
         NEW n \in Nat
  PROVE  \E g : Rounds(buf, at, size, n, g)
<1> DEFINE S == {k \in Nat : \E g : Rounds(buf, at, size, k, g)}
<1>1. 0 \in S
  <2> DEFINE g == [j \in 0 .. 0 |-> ParseStart]
  <2>1. Rounds(buf, at, size, 0, g)
    BY ParseStartType DEF Rounds
  <2> QED BY <2>1
<1>2. ASSUME NEW k \in 0 .. n - 1, k \in S PROVE k + 1 \in S
  <2>1. PICK g : Rounds(buf, at, size, k, g)
    BY <1>2
  <2>2. k \in Nat /\ k \in 0 .. k
    OBVIOUS
  <2>3. g[k] \in ParseState /\ Within(g[k], size)
    BY <2>1, <2>2 DEF Rounds
  <2> DEFINE nx == NextPair(buf, at, size, g[k])
  <2>4. nx \in ParseState /\ Within(nx, size)
    BY <2>3, NextPairType
  <2> HIDE DEF nx
  <2> DEFINE h == [j \in 0 .. k + 1 |-> IF j <= k THEN g[j] ELSE nx]
  <2>5. (\A j \in 0 .. k : h[j] = g[j]) /\ h[k + 1] = nx
    BY <2>2
  <2>6. h \in [0 .. k + 1 -> ParseState]
    BY <2>1, <2>2, <2>4 DEF Rounds
  <2> HIDE DEF h
  <2>7. h[0] = ParseStart
    BY <2>1, <2>2, <2>5 DEF Rounds
  <2>8. \A j \in 0 .. k + 1 : Within(h[j], size)
    BY <2>1, <2>2, <2>4, <2>5 DEF Rounds
  <2>9. ASSUME NEW j \in 1 .. k + 1 PROVE h[j] = NextPair(buf, at, size, h[j - 1])
    <3>1. CASE j = k + 1
      <4>1. j - 1 = k
        BY <2>2, <3>1
      <4>2. h[j - 1] = g[k] /\ h[j] = nx
        BY <2>2, <2>5, <3>1, <4>1
      <4> QED BY <4>2 DEF nx
    <3>2. CASE j # k + 1
      <4>1. j \in 1 .. k /\ j - 1 \in 0 .. k /\ j \in 0 .. k
        BY <2>2, <3>2
      <4>2. h[j - 1] = g[j - 1] /\ h[j] = g[j]
        BY <2>5, <4>1
      <4> QED BY <2>1, <4>1, <4>2 DEF Rounds
    <3> QED BY <3>1, <3>2
  <2>10. Rounds(buf, at, size, k + 1, h)
    BY <2>6, <2>7, <2>8, <2>9 DEF Rounds
  <2> QED BY <2>2, <2>10
<1> HIDE DEF S
<1>3. 0 .. n \subseteq S
  BY <1>1, <1>2, Upwards
<1>4. n \in 0 .. n
  OBVIOUS
<1> QED BY <1>3, <1>4 DEF S

\* from_bytes() is what the last of these states says.
Solves(buf, at, size, f) ==
  f = [k \in 0 .. buf[at + 1] |->
         IF k = 0 THEN [pos |-> HdrLen, kvs |-> <<>>, ok |-> TRUE, fault |-> FALSE]
         ELSE NextPair(buf, at, size, f[k - 1])]

LEMMA FromBytesIs ==
  ASSUME NEW M \in Nat, NEW buf \in [0 .. M - 1 -> Nat], NEW at \in Nat, NEW size \in Nat,
         Inside(buf, at, HdrLen)
  PROVE  /\ buf[at] \in Nat /\ buf[at + 1] \in Nat
         /\ \E g : /\ Rounds(buf, at, size, buf[at + 1], g)
                   /\ LET last == g[buf[at + 1]]
                      IN from_bytes(buf, at, size) =
                           [size |-> IF last.ok THEN last.pos ELSE 0, op |-> buf[at],
                            kvs |-> last.kvs, fault |-> last.fault]
<1> DEFINE n == buf[at + 1]
           f == CHOOSE h : Solves(buf, at, size, h)
<1>1. buf[at] \in Nat /\ n \in Nat
  BY InsideIs DEF HdrLen
<1>2. from_bytes(buf, at, size) =
        [size |-> IF f[n].ok THEN f[n].pos ELSE 0, op |-> buf[at], kvs |-> f[n].kvs,
         fault |-> f[n].fault]
  BY DEF from_bytes, Solves
<1> HIDE DEF n
<1>3. PICK g : Rounds(buf, at, size, n, g)
  BY <1>1, RoundsExist
<1>4. Solves(buf, at, size, g)
  <2>1. \A k \in 0 .. n : g[k] = IF k = 0 THEN ParseStart ELSE NextPair(buf, at, size, g[k - 1])
    BY <1>1, <1>3 DEF Rounds
  <2>2. g = [k \in 0 .. n |-> g[k]]
    BY <1>3 DEF Rounds
  <2> QED BY <2>1, <2>2, Zenon DEF Solves, ParseStart, n
<1>5. Solves(buf, at, size, f)
  BY <1>4
<1> HIDE DEF f
<1>6. /\ DOMAIN f = 0 .. n /\ f = [k \in 0 .. n |-> f[k]]
      /\ \A k \in 0 .. n : f[k] = IF k = 0 THEN ParseStart ELSE NextPair(buf, at, size, f[k - 1])
  BY <1>5 DEF Solves, ParseStart, n
<1> DEFINE S == {k \in 0 .. n : f[k] = g[k]}
<1>7. 0 \in S
  <2>1. 0 \in 0 .. n
    BY <1>1
  <2>2. f[0] = ParseStart
    BY <1>6, <2>1, Zenon
  <2> QED BY <1>3, <2>1, <2>2 DEF Rounds
<1>8. ASSUME NEW k \in 0 .. n - 1, k \in S PROVE k + 1 \in S
  <2>1. PICK j \in 1 .. n : j = k + 1 /\ j - 1 = k /\ j \in 0 .. n /\ j # 0
    <3>1. k + 1 \in 1 .. n /\ (k + 1) - 1 = k /\ k + 1 \in 0 .. n /\ k + 1 # 0
      BY <1>1
    <3> QED BY <3>1
  <2>2. f[j] = NextPair(buf, at, size, f[k]) /\ g[j] = NextPair(buf, at, size, g[k])
    BY <1>3, <1>6, <2>1, Zenon DEF Rounds
  <2> QED BY <1>8, <2>1, <2>2
<1> HIDE DEF S
<1>9. 0 .. n \subseteq S
  BY <1>1, <1>7, <1>8, Upwards
<1>10. \A k \in 0 .. n : f[k] = g[k]
  BY <1>9 DEF S
<1>11. f[n] = g[n]
  BY <1>1, <1>10
<1> QED BY <1>1, <1>2, <1>3, <1>11 DEF n

LEMMA FromBytesType ==
  ASSUME NEW M \in Nat, NEW buf \in [0 .. M - 1 -> Nat], NEW at \in Nat, NEW size \in Nat
  PROVE  LET r == from_bytes(buf, at, size)
         IN /\ r.size \in Nat /\ r.op \in Nat /\ r.kvs \in Seq(Pair) /\ r.fault \in BOOLEAN
            /\ r.size <= size \/ (r.size = HdrLen /\ r.kvs = <<>>)
<1>1. CASE ~Inside(buf, at, HdrLen)
  <2>1. from_bytes(buf, at, size) = [size |-> 0, op |-> 0, kvs |-> <<>>, fault |-> TRUE]
    BY <1>1 DEF from_bytes
  <2>2. <<>> \in Seq(Pair)
    BY EmptySeq
  <2> QED BY <2>1, <2>2
<1>2. CASE Inside(buf, at, HdrLen)
  <2> DEFINE n == buf[at + 1]
             r == from_bytes(buf, at, size)
  <2>1. /\ buf[at] \in Nat /\ n \in Nat
        /\ \E g : /\ Rounds(buf, at, size, n, g)
                  /\ r = [size |-> IF g[n].ok THEN g[n].pos ELSE 0, op |-> buf[at],
                          kvs |-> g[n].kvs, fault |-> g[n].fault]
    BY <1>2, FromBytesIs
  <2> HIDE DEF n, r
  <2>2. PICK g : /\ Rounds(buf, at, size, n, g)
                 /\ r = [size |-> IF g[n].ok THEN g[n].pos ELSE 0, op |-> buf[at],
                         kvs |-> g[n].kvs, fault |-> g[n].fault]
    BY <2>1
  <2>3. n \in 0 .. n
    BY <2>1
  <2>4. g[n] \in ParseState /\ Within(g[n], size)
    BY <2>2, <2>3 DEF Rounds
  <2>5. /\ g[n].pos \in Nat /\ g[n].kvs \in Seq(Pair) /\ g[n].ok \in BOOLEAN /\ g[n].fault \in BOOLEAN
        /\ g[n].pos <= size \/ (g[n].pos = HdrLen /\ g[n].kvs = <<>>)
    BY <2>4 DEF ParseState, Within
  <2>6. /\ r.size = IF g[n].ok THEN g[n].pos ELSE 0
        /\ r.op = buf[at] /\ r.kvs = g[n].kvs /\ r.fault = g[n].fault
    BY <2>2
  <2>7. r.size \in Nat /\ r.op \in Nat /\ r.kvs \in Seq(Pair) /\ r.fault \in BOOLEAN
    BY <2>1, <2>5, <2>6
  <2>8. r.size <= size \/ (r.size = HdrLen /\ r.kvs = <<>>)
    BY <2>5, <2>6
  <2> QED BY <2>7, <2>8 DEF r
<1> QED BY <1>1, <1>2

-----------------------------------------------------------------------------
(* FlattenSeq(): where its parts begin. *)

\* The sequences up to the k-th, one after the other.
Glued(ss, g) ==
  /\ g \in [1 .. Len(ss) -> Seq(Nat)]
  /\ \A k \in 1 .. Len(ss) : g[k] = IF k = 1 THEN ss[k] ELSE g[k - 1] \o ss[k]

LEMMA GluedExists ==
  ASSUME NEW ss \in Seq(Seq(Nat))
  PROVE  \E g : Glued(ss, g)
<1> DEFINE n == Len(ss)
           Upto(k, g) == /\ g \in [1 .. k -> Seq(Nat)]
                         /\ \A j \in 1 .. k : g[j] = IF j = 1 THEN ss[j] ELSE g[j - 1] \o ss[j]
           S == {k \in Nat : \E g : Upto(k, g)}
<1>0. n \in Nat /\ \A k \in 1 .. n : ss[k] \in Seq(Nat)
  BY LenProperties, ElementOfSeq
<1>1. 0 \in S
  <2>1. Upto(0, [j \in 1 .. 0 |-> <<>>])
    OBVIOUS
  <2> QED BY <2>1
<1>2. ASSUME NEW k \in 0 .. n - 1, k \in S PROVE k + 1 \in S
  <2>1. PICK g : Upto(k, g)
    BY <1>2
  <2>2. k \in Nat /\ k + 1 \in 1 .. n
    BY <1>0
  <2> DEFINE new == IF k = 0 THEN ss[k + 1] ELSE g[k] \o ss[k + 1]
             h == [j \in 1 .. k + 1 |-> IF j <= k THEN g[j] ELSE new]
  <2>3. new \in Seq(Nat)
    <3>1. ss[k + 1] \in Seq(Nat)
      BY <1>0, <2>2
    <3>2. k # 0 => g[k] \in Seq(Nat)
      <4>1. k # 0 => k \in 1 .. k
        BY <2>2
      <4> QED BY <2>1, <4>1
    <3> QED BY <3>1, <3>2, ConcatProperties
  <2> HIDE DEF new
  <2>4. (\A j \in 1 .. k : h[j] = g[j]) /\ h[k + 1] = new
    BY <2>2
  <2>5. h \in [1 .. k + 1 -> Seq(Nat)]
    BY <2>1, <2>2, <2>3
  <2> HIDE DEF h
  <2>6. ASSUME NEW j \in 1 .. k + 1 PROVE h[j] = IF j = 1 THEN ss[j] ELSE h[j - 1] \o ss[j]
    <3>1. CASE j = k + 1
      <4>1. j - 1 = k /\ (j # 1 => k \in 1 .. k) /\ (j = 1 <=> k = 0)
        BY <2>2, <3>1
      <4>2. h[j] = new /\ (j # 1 => h[j - 1] = g[k])
        BY <2>4, <3>1, <4>1
      <4> QED BY <3>1, <4>1, <4>2 DEF new
    <3>2. CASE j # k + 1
      <4>1. j \in 1 .. k /\ (j # 1 => j - 1 \in 1 .. k)
        BY <2>2, <3>2
      <4>2. h[j] = g[j] /\ (j # 1 => h[j - 1] = g[j - 1])
        BY <2>4, <4>1
      <4> QED BY <2>1, <4>1, <4>2
    <3> QED BY <3>1, <3>2
  <2>7. Upto(k + 1, h)
    BY <2>5, <2>6
  <2>8. k + 1 \in Nat
    BY <2>2
  <2> HIDE DEF Upto
  <2> QED BY <2>7, <2>8
<1>3. PICK g : Upto(n, g)
  <2> HIDE DEF S
  <2>1. 0 .. n \subseteq S
    BY <1>0, <1>1, <1>2, Upwards
  <2>2. n \in S
    BY <1>0, <2>1
  <2> QED BY <2>2 DEF S
<1> QED BY <1>3 DEF Glued

Gluing(ss, f) ==
  f = [k \in 1 .. Len(ss) |-> IF k = 1 THEN ss[k] ELSE f[k - 1] \o ss[k]]

LEMMA FlattenIs ==
  ASSUME NEW ss \in Seq(Seq(Nat))
  PROVE  \E g : /\ Glued(ss, g)
                /\ FlattenSeq(ss) = IF Len(ss) = 0 THEN <<>> ELSE g[Len(ss)]
<1> DEFINE n == Len(ss)
           f == CHOOSE h : Gluing(ss, h)
<1>0. n \in Nat /\ (n = 0 => ss = <<>>) /\ \A k \in 1 .. n : ss[k] \in Seq(Nat)
  BY LenProperties, ElementOfSeq, EmptySeq
<1>1. PICK g : Glued(ss, g)
  BY GluedExists
<1>2. FlattenSeq(ss) = IF n = 0 THEN ss ELSE f[n]
  BY DEF FlattenSeq, Gluing
<1>3. Gluing(ss, g)
  <2>1. \A k \in 1 .. n : g[k] = IF k = 1 THEN ss[k] ELSE g[k - 1] \o ss[k]
    BY <1>1 DEF Glued
  <2>2. g = [k \in 1 .. n |-> g[k]]
    BY <1>1 DEF Glued
  <2> QED BY <2>1, <2>2, Zenon DEF Gluing
<1>4. Gluing(ss, f)
  BY <1>3
<1> HIDE DEF f
<1>5. \A k \in 1 .. n : f[k] = IF k = 1 THEN ss[k] ELSE f[k - 1] \o ss[k]
  BY <1>4 DEF Gluing
<1> DEFINE S == {k \in 0 .. n : k = 0 \/ f[k] = g[k]}
<1>6. 0 \in S
  BY <1>0
<1>7. ASSUME NEW k \in 0 .. n - 1, k \in S PROVE k + 1 \in S
  <2>1. PICK j \in 1 .. n : j = k + 1 /\ j - 1 = k /\ j \in 0 .. n
    <3>1. k + 1 \in 1 .. n /\ (k + 1) - 1 = k /\ k + 1 \in 0 .. n
      BY <1>0
    <3> QED BY <3>1
  <2>2. /\ f[j] = IF j = 1 THEN ss[j] ELSE f[k] \o ss[j]
        /\ g[j] = IF j = 1 THEN ss[j] ELSE g[k] \o ss[j]
    BY <1>1, <1>5, <2>1, Zenon DEF Glued
  <2>3. j # 1 => k # 0
    BY <2>1
  <2> QED BY <1>7, <2>1, <2>2, <2>3
<1> HIDE DEF S
<1>8. 0 .. n \subseteq S
  BY <1>0, <1>6, <1>7, Upwards
<1>9. n # 0 => f[n] = g[n]
  <2>1. n \in 0 .. n
    BY <1>0
  <2> QED BY <1>8, <2>1, Zenon DEF S
<1> QED BY <1>0, <1>1, <1>2, <1>9

\* The k-th part of s begins behind o[k - 1].
Parts(ss, s, o) ==
  /\ o \in [0 .. Len(ss) -> Nat]
  /\ o[0] = 0 /\ o[Len(ss)] = Len(s)
  /\ \A k \in 1 .. Len(ss) :
       /\ o[k] = o[k - 1] + Len(ss[k])
       /\ o[k] <= Len(s)
       /\ \A j \in 1 .. Len(ss[k]) : s[o[k - 1] + j] = ss[k][j]

LEMMA FlattenParts ==
  ASSUME NEW ss \in Seq(Seq(Nat))
  PROVE  FlattenSeq(ss) \in Seq(Nat) /\ \E o : Parts(ss, FlattenSeq(ss), o)
<1> DEFINE n == Len(ss)
<1>0. n \in Nat /\ \A k \in 1 .. n : ss[k] \in Seq(Nat) /\ Len(ss[k]) \in Nat
  BY LenProperties, ElementOfSeq
<1>1. PICK g : Glued(ss, g) /\ FlattenSeq(ss) = IF n = 0 THEN <<>> ELSE g[n]
  BY FlattenIs
<1> HIDE DEF n
<1> DEFINE G == [k \in 0 .. n |-> IF k = 0 THEN <<>> ELSE g[k]]
           o == [k \in 0 .. n |-> Len(G[k])]
<1>2. /\ G[0] = <<>>
      /\ \A k \in 1 .. n : G[k] = g[k]
      /\ \A k \in 0 .. n : G[k] \in Seq(Nat)
  <2>1. \A k \in 1 .. n : g[k] \in Seq(Nat)
    BY <1>1 DEF Glued, n
  <2>2. <<>> \in Seq(Nat)
    BY EmptySeq
  <2> QED BY <1>0, <2>1, <2>2
<1>3. FlattenSeq(ss) = G[n]
  BY <1>0, <1>1, <1>2
<1>4. ASSUME NEW k \in 1 .. n PROVE G[k] = G[k - 1] \o ss[k]
  <2>1. g[k] = IF k = 1 THEN ss[k] ELSE g[k - 1] \o ss[k]
    BY <1>1 DEF Glued, n
  <2>2. CASE k = 1
    <3>1. <<>> \o ss[k] = ss[k]
      BY <1>0, ConcatEmptySeq
    <3>2. k - 1 = 0
      BY <2>2
    <3> QED BY <1>2, <2>1, <2>2, <3>1, <3>2
  <2>3. CASE k # 1
    <3>1. k - 1 \in 1 .. n
      BY <1>0, <2>3
    <3> QED BY <1>2, <2>1, <2>3, <3>1
  <2> QED BY <2>2, <2>3
<1> HIDE DEF G
<1>5. \A k \in 0 .. n : o[k] = Len(G[k]) /\ o[k] \in Nat
  BY <1>2, LenProperties
<1>6. o \in [0 .. n -> Nat]
  BY <1>5
<1>7. o[0] = 0 /\ o[n] = Len(G[n])
  BY <1>0, <1>2, <1>5, EmptySeq
<1> HIDE DEF o
<1>8. ASSUME NEW k \in 1 .. n
      PROVE  /\ o[k] = o[k - 1] + Len(ss[k]) /\ k - 1 \in 0 .. n
             /\ \A j \in 1 .. o[k - 1] : G[k][j] = G[k - 1][j]
             /\ \A j \in 1 .. Len(ss[k]) : G[k][o[k - 1] + j] = ss[k][j]
  <2>1. k - 1 \in 0 .. n /\ k \in 0 .. n
    BY <1>0
  <2>2. G[k - 1] \in Seq(Nat) /\ ss[k] \in Seq(Nat) /\ G[k] = G[k - 1] \o ss[k]
    BY <1>0, <1>2, <1>4, <2>1
  <2>3. o[k] = Len(G[k]) /\ o[k - 1] = Len(G[k - 1]) /\ o[k - 1] \in Nat /\ Len(ss[k]) \in Nat
    BY <1>0, <1>5, <2>1
  <2>4. Len(G[k]) = Len(G[k - 1]) + Len(ss[k])
    BY <2>2, ConcatProperties
  <2>41. PICK a \in Nat, b \in Nat : a = Len(G[k - 1]) /\ b = Len(ss[k]) /\ a = o[k - 1]
    BY <2>3
  <2>5. ASSUME NEW j \in 1 .. o[k - 1] PROVE G[k][j] = G[k - 1][j]
    <3>0. j \in 1 .. a
      BY <2>41
    <3>1. j \in 1 .. a + b /\ j <= a
      BY ONLY a \in Nat, b \in Nat, <3>0
    <3>2. j \in 1 .. Len(G[k - 1]) + Len(ss[k]) /\ j <= Len(G[k - 1])
      BY <2>41, <3>1, Zenon
    <3> QED BY <2>2, <3>2, ConcatProperties
  <2>6. ASSUME NEW j \in 1 .. Len(ss[k]) PROVE G[k][o[k - 1] + j] = ss[k][j]
    <3>1. PICK x \in 1 .. Len(G[k - 1]) + Len(ss[k]) :
             x = o[k - 1] + j /\ ~(x <= Len(G[k - 1])) /\ x - Len(G[k - 1]) = j
      <4>0. j \in 1 .. b
        BY <2>41
      <4>1. a + j \in 1 .. a + b /\ ~(a + j <= a) /\ (a + j) - a = j
        BY ONLY a \in Nat, b \in Nat, <4>0
      <4> QED BY <2>41, <4>1, Zenon
    <3>2. (G[k - 1] \o ss[k])[x] = ss[k][x - Len(G[k - 1])]
      BY <2>2, <3>1, ConcatProperties
    <3> QED BY <2>2, <3>1, <3>2
  <2> QED BY <2>1, <2>3, <2>4, <2>5, <2>6
<1> DEFINE Holds(k, m) == /\ o[k] <= o[m]
                          /\ \A j \in 1 .. Len(ss[k]) : G[m][o[k - 1] + j] = ss[k][j]
           S == {m \in 0 .. n : \A k \in 1 .. m : Holds(k, m)}
<1>9. 0 \in S
  BY <1>0
<1>10. ASSUME NEW m \in 0 .. n - 1, m \in S PROVE m + 1 \in S
  <2>1. PICK x \in 1 .. n : x = m + 1 /\ x - 1 = m /\ m \in Nat /\ x \in 0 .. n /\ m \in 0 .. n
    <3>1. m + 1 \in 1 .. n /\ (m + 1) - 1 = m /\ m \in Nat /\ m + 1 \in 0 .. n /\ m \in 0 .. n
      BY <1>0
    <3> QED BY <3>1
  <2>2. /\ o[x] = o[m] + Len(ss[x])
        /\ \A j \in 1 .. o[m] : G[x][j] = G[m][j]
        /\ \A j \in 1 .. Len(ss[x]) : G[x][o[m] + j] = ss[x][j]
    <3>1. /\ o[x] = o[x - 1] + Len(ss[x])
          /\ \A j \in 1 .. o[x - 1] : G[x][j] = G[x - 1][j]
          /\ \A j \in 1 .. Len(ss[x]) : G[x][o[x - 1] + j] = ss[x][j]
      BY <1>8
    <3> QED BY <2>1, <3>1
  <2>3. o[m] \in Nat /\ o[x] \in Nat /\ Len(ss[x]) \in Nat
    BY <1>0, <1>5, <2>1
  <2>4. ASSUME NEW k \in 1 .. x PROVE Holds(k, x)
    <3>1. CASE k = x
      <4>1. o[k] <= o[x]
        BY <2>3, <3>1
      <4> QED BY <2>1, <2>2, <3>1, <4>1
    <3>2. CASE k # x
      <4>1. k \in 1 .. m /\ k \in 1 .. n /\ k - 1 \in 0 .. n /\ k \in 0 .. n
        BY <1>0, <2>1, <3>2
      <4>2. Holds(k, m)
        BY <1>10, <4>1
      <4>3. o[k] = o[k - 1] + Len(ss[k]) /\ o[k] \in Nat /\ o[k - 1] \in Nat /\ Len(ss[k]) \in Nat
        BY <1>0, <1>5, <1>8, <4>1
      <4>4. o[k] <= o[x]
        <5>1. o[k] <= o[m] /\ o[m] <= o[x]
          BY <2>2, <2>3, <4>2
        <5> QED BY <2>3, <4>3, <5>1
      <4>5. ASSUME NEW j \in 1 .. Len(ss[k]) PROVE G[x][o[k - 1] + j] = ss[k][j]
        <5>0. PICK a \in Nat, b \in Nat, c \in Nat, e \in Nat :
                 a = o[k - 1] /\ b = Len(ss[k]) /\ c = o[m] /\ e = o[k] /\ e = a + b /\ e <= c
          BY <2>3, <4>2, <4>3
        <5>1. o[k - 1] + j \in 1 .. o[m]
          <6>1. j \in 1 .. b /\ a + b <= c
            BY <5>0
          <6>2. a + j \in 1 .. c
            BY ONLY a \in Nat, b \in Nat, c \in Nat, <6>1
          <6> QED BY <5>0, <6>2, Zenon
        <5> QED BY <2>2, <4>2, <5>1
      <4> QED BY <4>4, <4>5
    <3> QED BY <3>1, <3>2
  <2> HIDE DEF Holds
  <2> QED BY <2>1, <2>4
<1>11. n \in S
  <2> HIDE DEF S
  <2>1. 0 .. n \subseteq S
    BY <1>0, <1>9, <1>10, Upwards
  <2> QED BY <1>0, <2>1
<1>12. \A k \in 1 .. n : Holds(k, n)
  BY <1>11
<1>13. \A k \in 1 .. n :
         /\ o[k] = o[k - 1] + Len(ss[k])
         /\ o[k] <= Len(G[n])
         /\ \A j \in 1 .. Len(ss[k]) : G[n][o[k - 1] + j] = ss[k][j]
  BY <1>7, <1>8, <1>12
<1>14. Parts(ss, G[n], o)
  BY <1>6, <1>7, <1>13, Zenon DEF Parts, n
<1>15. G[n] \in Seq(Nat)
  BY <1>0, <1>2
<1> QED BY <1>3, <1>14, <1>15

-----------------------------------------------------------------------------
(* What a client writes. *)

LEMMA Joined ==
  ASSUME NEW s \in Seq(Nat), NEW t \in Seq(Nat)
  PROVE  /\ s \o t \in Seq(Nat) /\ Len(s \o t) = Len(s) + Len(t)
         /\ \A j \in 1 .. Len(s) : (s \o t)[j] = s[j]
         /\ \A j \in 1 .. Len(t) : (s \o t)[Len(s) + j] = t[j]
<1>1. PICK a \in Nat, b \in Nat : a = Len(s) /\ b = Len(t)
  BY LenProperties
<1>2. s \o t \in Seq(Nat) /\ Len(s \o t) = Len(s) + Len(t)
  BY ConcatProperties
<1>3. ASSUME NEW j \in 1 .. Len(s) PROVE (s \o t)[j] = s[j]
  <2>1. j \in 1 .. a + b /\ j <= a
    BY <1>1
  <2>2. j \in 1 .. Len(s) + Len(t) /\ j <= Len(s)
    BY <1>1, <2>1, Zenon
  <2> QED BY <2>2, ConcatProperties
<1>4. ASSUME NEW j \in 1 .. Len(t) PROVE (s \o t)[Len(s) + j] = t[j]
  <2>1. a + j \in 1 .. a + b /\ ~(a + j <= a) /\ (a + j) - a = j
    BY <1>1
  <2>2. PICK x \in 1 .. Len(s) + Len(t) : x = Len(s) + j /\ ~(x <= Len(s)) /\ x - Len(s) = j
    BY <1>1, <2>1, Zenon
  <2>3. (s \o t)[x] = t[x - Len(s)]
    BY <2>2, ConcatProperties
  <2> QED BY <2>2, <2>3
<1> QED BY <1>2, <1>3, <1>4

LEMMA Headed ==
  ASSUME NEW a \in Nat, NEW b \in Nat, NEW s \in Seq(Nat)
  PROVE  /\ <<a, b>> \o s \in Seq(Nat) /\ Len(<<a, b>> \o s) = 2 + Len(s)
         /\ (<<a, b>> \o s)[1] = a /\ (<<a, b>> \o s)[2] = b
         /\ \A j \in 1 .. Len(s) : (<<a, b>> \o s)[2 + j] = s[j]
<1> DEFINE h == <<a, b>>
<1>1. h \in Seq(Nat) /\ Len(h) = 2 /\ h[1] = a /\ h[2] = b
  OBVIOUS
<1> HIDE DEF h
<1>2. /\ h \o s \in Seq(Nat) /\ Len(h \o s) = Len(h) + Len(s)
      /\ \A j \in 1 .. Len(h) : (h \o s)[j] = h[j]
      /\ \A j \in 1 .. Len(s) : (h \o s)[Len(h) + j] = s[j]
  BY <1>1, Joined
<1>3. (h \o s)[1] = a /\ (h \o s)[2] = b
  BY <1>1, <1>2
<1> QED BY <1>1, <1>2, <1>3 DEF h

LEMMA EncodePairIs ==
  ASSUME NEW kv \in Pair
  PROVE  LET e == EncodePair(kv)
         IN /\ e \in Seq(Nat) /\ Len(kv.key) \in Nat /\ Len(kv.val) \in Nat
            /\ Len(e) = 2 + Len(kv.key) + Len(kv.val)
            /\ e[1] = Len(kv.key) /\ e[2] = Len(kv.val)
            /\ \A j \in 1 .. Len(kv.key) : e[2 + j] = kv.key[j]
            /\ \A j \in 1 .. Len(kv.val) : e[2 + Len(kv.key) + j] = kv.val[j]
<1> DEFINE h == <<Len(kv.key), Len(kv.val)>>
           f == h \o kv.key
           e == f \o kv.val
<1>1. kv.key \in Seq(Nat) /\ kv.val \in Seq(Nat)
  BY DEF Pair
<1>2. PICK a \in Nat, b \in Nat : a = Len(kv.key) /\ b = Len(kv.val)
  BY <1>1, LenProperties
<1>3. /\ f \in Seq(Nat) /\ Len(f) = 2 + a /\ f[1] = a /\ f[2] = b
      /\ \A j \in 1 .. a : f[2 + j] = kv.key[j]
  <2>1. h = <<a, b>>
    BY <1>2
  <2> HIDE DEF h
  <2>2. /\ <<a, b>> \o kv.key \in Seq(Nat) /\ Len(<<a, b>> \o kv.key) = 2 + Len(kv.key)
        /\ (<<a, b>> \o kv.key)[1] = a /\ (<<a, b>> \o kv.key)[2] = b
        /\ \A j \in 1 .. Len(kv.key) : (<<a, b>> \o kv.key)[2 + j] = kv.key[j]
    BY <1>1, Headed
  <2> QED BY <1>2, <2>1, <2>2
<1> HIDE DEF f
<1>4. /\ e \in Seq(Nat) /\ Len(e) = Len(f) + Len(kv.val)
      /\ \A j \in 1 .. Len(f) : e[j] = f[j]
      /\ \A j \in 1 .. Len(kv.val) : e[Len(f) + j] = kv.val[j]
  BY <1>1, <1>3, Joined
<1> HIDE DEF e
<1>5. /\ e \in Seq(Nat) /\ Len(e) = 2 + a + b
      /\ \A j \in 1 .. 2 + a : e[j] = f[j]
      /\ \A j \in 1 .. b : e[2 + a + j] = kv.val[j]
  BY <1>2, <1>3, <1>4
<1>6. e[1] = a /\ e[2] = b
  BY <1>3, <1>5
<1>7. \A j \in 1 .. a : e[2 + j] = kv.key[j]
  <2> SUFFICES ASSUME NEW j \in 1 .. a PROVE e[2 + j] = kv.key[j]
    OBVIOUS
  <2>1. 2 + j \in 1 .. 2 + a
    OBVIOUS
  <2>2. e[2 + j] = f[2 + j]
    BY <1>5, <2>1
  <2> QED BY <1>3, <2>2
<1>8. e = EncodePair(kv)
  BY DEF EncodePair, e, f
<1> QED BY <1>2, <1>5, <1>6, <1>7, <1>8

\* The pair of a package that begins behind s[x].
PairAt(s, x, kv) ==
  /\ s[x + 1] = Len(kv.key) /\ s[x + 2] = Len(kv.val)
  /\ \A j \in 1 .. Len(kv.key) : s[x + 2 + j] = kv.key[j]
  /\ \A j \in 1 .. Len(kv.val) : s[x + 2 + Len(kv.key) + j] = kv.val[j]

\* The offsets of the pairs in s, the bytes of a package.
PairsAt(s, kvs, o) ==
  /\ o \in [0 .. Len(kvs) -> Nat] /\ o[0] = 2 /\ o[Len(kvs)] = Len(s)
  /\ \A k \in 1 .. Len(kvs) :
       /\ o[k] = o[k - 1] + 2 + Len(kvs[k].key) + Len(kvs[k].val)
       /\ o[k] <= Len(s)
       /\ PairAt(s, o[k - 1], kvs[k])

LEMMA EncodeIs ==
  ASSUME NEW p \in Request
  PROVE  /\ Encode(p) \in Seq(Nat) /\ Encode(p)[1] = p.op /\ Encode(p)[2] = Len(p.kvs)
         /\ p.op \in Nat /\ p.kvs \in Seq(Pair) /\ Len(p.kvs) \in Nat
         /\ \E o : PairsAt(Encode(p), p.kvs, o)
<1> DEFINE kvs == p.kvs
           n == Len(kvs)
           ss == [k \in DOMAIN kvs |-> EncodePair(kvs[k])]
           s == FlattenSeq(ss)
           e == Encode(p)
<1>1. p.op \in Nat /\ kvs \in Seq(Pair)
  BY DEF Request
<1>2. n \in Nat /\ DOMAIN kvs = 1 .. n /\ \A k \in 1 .. n : kvs[k] \in Pair
  BY <1>1, LenProperties, ElementOfSeq
<1> HIDE DEF kvs, n
<1>3. \A k \in 1 .. n : EncodePair(kvs[k]) \in Seq(Nat)
  BY <1>2, EncodePairIs
<1>4. /\ ss \in Seq(Seq(Nat)) /\ Len(ss) = n
      /\ \A k \in 1 .. n : ss[k] = EncodePair(kvs[k])
  BY <1>2, <1>3
<1> HIDE DEF ss
<1>5. s \in Seq(Nat) /\ \E x : Parts(ss, s, x)
  BY <1>4, FlattenParts
<1>6. PICK x : Parts(ss, s, x)
  BY <1>5
<1>7. e = <<p.op, n>> \o s
  BY DEF Encode, ss, n, kvs
<1> HIDE DEF s, e
<1>8. /\ e \in Seq(Nat) /\ Len(e) = 2 + Len(s) /\ e[1] = p.op /\ e[2] = n
      /\ \A j \in 1 .. Len(s) : e[2 + j] = s[j]
  BY <1>1, <1>2, <1>5, <1>7, Headed
<1>9. /\ x \in [0 .. n -> Nat] /\ x[0] = 0 /\ x[n] = Len(s) /\ Len(s) \in Nat
      /\ \A k \in 1 .. n :
           /\ x[k] = x[k - 1] + Len(ss[k])
           /\ x[k] <= Len(s)
           /\ \A j \in 1 .. Len(ss[k]) : s[x[k - 1] + j] = ss[k][j]
  BY <1>4, <1>5, <1>6, LenProperties DEF Parts
<1> DEFINE o == [k \in 0 .. n |-> 2 + x[k]]
<1>10. o \in [0 .. n -> Nat] /\ o[0] = 2 /\ o[n] = Len(e)
  BY <1>2, <1>8, <1>9
<1>11. ASSUME NEW k \in 1 .. n
       PROVE  /\ o[k] = o[k - 1] + 2 + Len(kvs[k].key) + Len(kvs[k].val)
              /\ o[k] <= Len(e)
              /\ PairAt(e, o[k - 1], kvs[k])
  <2> DEFINE f == EncodePair(kvs[k])
             key == kvs[k].key
             val == kvs[k].val
  <2>1. /\ f \in Seq(Nat) /\ Len(key) \in Nat /\ Len(val) \in Nat
        /\ Len(f) = 2 + Len(key) + Len(val)
        /\ f[1] = Len(key) /\ f[2] = Len(val)
        /\ \A j \in 1 .. Len(key) : f[2 + j] = key[j]
        /\ \A j \in 1 .. Len(val) : f[2 + Len(key) + j] = val[j]
    BY <1>2, EncodePairIs
  <2>2. ss[k] = f
    BY <1>4
  <2> HIDE DEF f, key, val
  <2>3. k - 1 \in 0 .. n /\ k \in 0 .. n
    BY <1>2
  <2>4. PICK a \in Nat, b \in Nat, c \in Nat, d \in Nat, l \in Nat :
           /\ a = Len(key) /\ b = Len(val) /\ c = x[k - 1] /\ d = x[k] /\ l = Len(s)
    BY <1>9, <2>1, <2>3
  <2>5. d = c + (2 + a + b) /\ d <= l /\ \A j \in 1 .. 2 + a + b : s[c + j] = f[j]
    BY <1>9, <2>1, <2>2, <2>4
  <2>6. o[k - 1] = 2 + c /\ o[k] = 2 + d
    BY <2>3, <2>4
  <2> HIDE DEF o
  <2>7. \A j \in 1 .. 2 + a + b : e[2 + c + j] = f[j]
    <3> SUFFICES ASSUME NEW j \in 1 .. 2 + a + b PROVE e[2 + c + j] = f[j]
      OBVIOUS
    <3>1. PICK y \in 1 .. l : y = c + j /\ 2 + y = 2 + c + j
      <4>1. c + j \in 1 .. l /\ 2 + (c + j) = 2 + c + j
        BY <2>5
      <4> QED BY <4>1
    <3>2. e[2 + y] = s[y]
      BY <1>8, <2>4
    <3> QED BY <2>5, <3>1, <3>2, Zenon
  <2>8. e[2 + c + 1] = a /\ e[2 + c + 2] = b
    <3>1. 1 \in 1 .. 2 + a + b /\ 2 \in 1 .. 2 + a + b
      OBVIOUS
    <3> QED BY <2>1, <2>4, <2>7, <3>1, Zenon
  <2>9. ASSUME NEW j \in 1 .. a PROVE e[2 + c + 2 + j] = key[j]
    <3>1. PICK y \in 1 .. 2 + a + b : y = 2 + j /\ 2 + c + y = 2 + c + 2 + j
      <4>1. 2 + j \in 1 .. 2 + a + b /\ 2 + c + (2 + j) = 2 + c + 2 + j
        OBVIOUS
      <4> QED BY <4>1
    <3>2. e[2 + c + y] = f[y] /\ f[2 + j] = key[j]
      BY <2>1, <2>4, <2>7
    <3> QED BY <3>1, <3>2, Zenon
  <2>10. ASSUME NEW j \in 1 .. b PROVE e[2 + c + 2 + a + j] = val[j]
    <3>1. PICK y \in 1 .. 2 + a + b : y = 2 + a + j /\ 2 + c + y = 2 + c + 2 + a + j
      <4>1. 2 + a + j \in 1 .. 2 + a + b /\ 2 + c + (2 + a + j) = 2 + c + 2 + a + j
        OBVIOUS
      <4> QED BY <4>1
    <3>2. e[2 + c + y] = f[y] /\ f[2 + a + j] = val[j]
      BY <2>1, <2>4, <2>7
    <3> QED BY <3>1, <3>2, Zenon
  <2>11. PairAt(e, 2 + c, kvs[k])
    BY <2>4, <2>8, <2>9, <2>10, Zenon DEF PairAt, key, val
  <2>12. 2 + d = 2 + c + 2 + a + b /\ 2 + d <= 2 + l
    BY <2>5
  <2>13. o[k] = o[k - 1] + 2 + Len(key) + Len(val) /\ o[k] <= Len(e)
    BY <1>8, <2>4, <2>6, <2>12
  <2> QED BY <2>6, <2>11, <2>13 DEF key, val
<1>12. PairsAt(e, kvs, o)
  BY <1>10, <1>11, Zenon DEF PairsAt, n
<1> QED BY <1>1, <1>2, <1>8, <1>12 DEF e, kvs, n

-----------------------------------------------------------------------------
(* The round trip: what was written is what is read. *)

\* The bytes s are in the buffer, at offset at.
Holds(buf, at, s) == \A j \in 1 .. Len(s) : buf[at + j - 1] = s[j]

\* A part of s as the bytes of the buffer.
LEMMA ReadBack ==
  ASSUME NEW buf, NEW at \in Nat, NEW s, Len(s) \in Nat, Holds(buf, at, s),
         NEW t \in Seq(Nat), NEW x \in Nat, x + Len(t) <= Len(s),
         \A j \in 1 .. Len(t) : s[x + j] = t[j]
  PROVE  Bytes(buf, at + x, Len(t)) = t
<1>1. PICK l \in Nat, m \in Nat : l = Len(t) /\ m = Len(s)
  BY LenProperties
<1>2. ASSUME NEW j \in 1 .. l PROVE buf[at + x + j - 1] = t[j]
  <2>1. PICK y \in 1 .. m : y = x + j /\ at + y - 1 = at + x + j - 1
    <3>1. x + j \in 1 .. m /\ at + (x + j) - 1 = at + x + j - 1
      BY <1>1
    <3> QED BY <3>1
  <2>2. buf[at + y - 1] = s[y]
    BY <1>1 DEF Holds
  <2>3. s[x + j] = t[j]
    BY <1>1
  <2> QED BY <2>1, <2>2, <2>3, Zenon
<1>3. t = [j \in 1 .. l |-> t[j]]
  BY <1>1, LenProperties
<1> QED BY <1>1, <1>2, <1>3, Zenon DEF Bytes

\* The bytes s are in the buffer, and nothing says that there are fewer.
Available(M, buf, at, size, s) ==
  /\ M \in Nat /\ buf \in [0 .. M - 1 -> Nat] /\ at \in Nat /\ size \in Nat
  /\ s \in Seq(Nat) /\ Holds(buf, at, s) /\ at + Len(s) <= M /\ Len(s) <= size

\* The loop has come to the pair kv of s.
Due(s, kv, st) ==
  /\ kv \in Pair /\ st \in ParseState /\ st.ok = TRUE /\ st.fault = FALSE
  /\ st.pos + 2 + Len(kv.key) + Len(kv.val) <= Len(s)
  /\ PairAt(s, st.pos, kv)

After(st, kv) ==
  [pos |-> st.pos + 2 + Len(kv.key) + Len(kv.val), kvs |-> Append(st.kvs, kv),
   ok |-> TRUE, fault |-> FALSE]

LEMMA NextPairReads ==
  ASSUME NEW M, NEW buf, NEW at, NEW size, NEW s, Available(M, buf, at, size, s),
         NEW kv, NEW st, Due(s, kv, st)
  PROVE  NextPair(buf, at, size, st) = After(st, kv)
<1> DEFINE x == st.pos
<1>01. /\ M \in Nat /\ buf \in [0 .. M - 1 -> Nat] /\ at \in Nat /\ size \in Nat
       /\ s \in Seq(Nat) /\ Holds(buf, at, s) /\ at + Len(s) <= M /\ Len(s) <= size
  BY DEF Available
<1>02. /\ kv \in Pair /\ st \in ParseState /\ st.ok = TRUE /\ st.fault = FALSE
       /\ x + 2 + Len(kv.key) + Len(kv.val) <= Len(s) /\ PairAt(s, x, kv) /\ x \in Nat
  BY DEF Due, ParseState
<1> HIDE DEF x
<1>1. kv.key \in Seq(Nat) /\ kv.val \in Seq(Nat) /\ kv = [key |-> kv.key, val |-> kv.val]
  BY <1>02 DEF Pair
<1>2. PICK a \in Nat, b \in Nat, l \in Nat : a = Len(kv.key) /\ b = Len(kv.val) /\ l = Len(s)
  BY <1>01, <1>1, LenProperties
<1>3. x + 2 + a + b <= l /\ at + l <= M /\ l <= size
  BY <1>01, <1>02, <1>2
<1> DEFINE p == at + x
<1>4. buf[p] = a /\ buf[p + 1] = b
  <2>1. x + 1 \in 1 .. l /\ x + 2 \in 1 .. l /\ at + (x + 1) - 1 = p /\ at + (x + 2) - 1 = p + 1
    BY <1>01, <1>02, <1>3
  <2>2. buf[at + (x + 1) - 1] = s[x + 1] /\ buf[at + (x + 2) - 1] = s[x + 2]
    BY <1>01, <1>2, <2>1 DEF Holds
  <2>3. s[x + 1] = a /\ s[x + 2] = b
    BY <1>02, <1>2 DEF PairAt
  <2> QED BY <2>1, <2>2, <2>3
<1>5. Bytes(buf, p + 2, a) = kv.key
  <2>1. \A j \in 1 .. Len(kv.key) : s[(x + 2) + j] = kv.key[j]
    BY <1>02 DEF PairAt
  <2>2. (x + 2) + Len(kv.key) <= Len(s) /\ x + 2 \in Nat /\ Len(s) \in Nat
    <3>1. (x + 2) + a <= l /\ x + 2 \in Nat
      BY <1>02, <1>3
    <3> QED BY <1>2, <3>1, Zenon
  <2>3. Bytes(buf, at + (x + 2), Len(kv.key)) = kv.key
    BY <1>01, <1>1, <2>1, <2>2, ReadBack
  <2>4. at + (x + 2) = p + 2
    BY <1>01, <1>02
  <2> QED BY <1>2, <2>3, <2>4, Zenon
<1>6. Bytes(buf, p + 2 + a, b) = kv.val
  <2>1. \A j \in 1 .. Len(kv.val) : s[(x + 2 + a) + j] = kv.val[j]
    BY <1>02, <1>2 DEF PairAt
  <2>2. (x + 2 + a) + Len(kv.val) <= Len(s) /\ x + 2 + a \in Nat /\ Len(s) \in Nat
    <3>1. (x + 2 + a) + b <= l /\ x + 2 + a \in Nat
      BY <1>02, <1>3
    <3> QED BY <1>2, <3>1, Zenon
  <2>3. Bytes(buf, at + (x + 2 + a), Len(kv.val)) = kv.val
    BY <1>01, <1>1, <2>1, <2>2, ReadBack
  <2>4. at + (x + 2 + a) = p + 2 + a
    BY <1>01, <1>02
  <2> QED BY <1>2, <2>3, <2>4, Zenon
<1>7. /\ ~(x + 2 > size) /\ ~(x + 2 + a + b > size) /\ p \in Nat
      /\ (x + 2 + a + b) - x = 2 + a + b /\ p + 2 <= M /\ p + (2 + a + b) <= M /\ 2 + a + b \in Nat
  BY <1>01, <1>02, <1>3
<1>8. Inside(buf, p, 2) /\ Inside(buf, p, (x + 2 + a + b) - x)
  BY <1>01, <1>7, InsideIs
<1> HIDE DEF p
<1>9. NextPair(buf, at, size, st) =
        [st EXCEPT !.pos = x + 2 + a + b,
                   !.kvs = Append(@, [key |-> kv.key, val |-> kv.val])]
  <2>1. at + st.pos = p
    BY DEF p, x
  <2>2. st.pos + 2 + buf[p] + buf[p + 1] = x + 2 + a + b
    BY <1>4 DEF x
  <2>3. NextPair(buf, at, size, st) =
          [st EXCEPT !.pos = st.pos + 2 + buf[p] + buf[p + 1],
                     !.kvs = Append(@, [key |-> Bytes(buf, p + 2, buf[p]),
                                        val |-> Bytes(buf, p + 2 + buf[p], buf[p + 1])])]
    BY <1>02, <1>4, <1>7, <1>8, <2>1, <2>2 DEF NextPair, x
  <2> QED BY <1>4, <1>5, <1>6, <2>2, <2>3
<1> QED BY <1>02, <1>1, <1>2, <1>9 DEF ParseState, After, x

\* RoundTrip: from_bytes() makes of the bytes of any package exactly this package, wherever
\* it is in the buffer and whatever follows it, if they are within the size it is told.
THEOREM RoundTrip ==
  ASSUME NEW M \in Nat, NEW buf \in [0 .. M - 1 -> Nat], NEW at \in Nat, NEW size \in Nat,
         NEW p \in Request, Holds(buf, at, Encode(p)), at + Len(Encode(p)) <= M,
         Len(Encode(p)) <= size
  PROVE  from_bytes(buf, at, size) =
           [size |-> Len(Encode(p)), op |-> p.op, kvs |-> p.kvs, fault |-> FALSE]
<1> DEFINE s == Encode(p)
           kvs == p.kvs
           n == Len(kvs)
<1>1. /\ s \in Seq(Nat) /\ s[1] = p.op /\ s[2] = n
      /\ p.op \in Nat /\ kvs \in Seq(Pair) /\ n \in Nat /\ Len(s) \in Nat
      /\ \E o : PairsAt(s, kvs, o)
  BY EncodeIs, LenProperties
<1> HIDE DEF s, kvs
<1>2. PICK o : PairsAt(s, kvs, o)
  BY <1>1
<1>3. /\ o \in [0 .. n -> Nat] /\ o[0] = 2 /\ o[n] = Len(s)
      /\ \A k \in 1 .. n :
           /\ o[k] = o[k - 1] + 2 + Len(kvs[k].key) + Len(kvs[k].val)
           /\ o[k] <= Len(s)
           /\ PairAt(s, o[k - 1], kvs[k])
  BY <1>2 DEF PairsAt
<1>4. /\ \A k \in 1 .. n : kvs[k] \in Pair
      /\ kvs = [k \in 1 .. n |-> kvs[k]]
  BY <1>1, ElementOfSeq, LenProperties
<1>5. Holds(buf, at, s) /\ at + Len(s) <= M /\ Len(s) <= size
  BY DEF s
<1> HIDE DEF n
<1>6. 2 <= Len(s)
  <2>1. CASE n = 0
    BY <1>3, <2>1
  <2>2. CASE n # 0
    <3>1. 1 \in 1 .. n /\ 1 - 1 = 0 /\ 0 \in 0 .. n /\ 1 \in 0 .. n
      BY <1>1, <2>2
    <3>2. o[1] = 2 + 2 + Len(kvs[1].key) + Len(kvs[1].val) /\ o[1] <= Len(s) /\ kvs[1] \in Pair
      BY <1>3, <1>4, <3>1
    <3>3. Len(kvs[1].key) \in Nat /\ Len(kvs[1].val) \in Nat /\ o[1] \in Nat
      BY <1>3, <3>1, <3>2, EncodePairIs
    <3>4. PICK a \in Nat, b \in Nat, c \in Nat, l \in Nat :
             /\ a = Len(kvs[1].key) /\ b = Len(kvs[1].val) /\ c = o[1] /\ l = Len(s)
             /\ c = 2 + 2 + a + b /\ c <= l
      BY <1>1, <3>2, <3>3
    <3>5. c = 2 + 2 + a + b /\ c <= l => 2 <= l
      OBVIOUS
    <3> QED BY <3>4, <3>5, Zenon
  <2> QED BY <2>1, <2>2
<1>7. buf[at] = p.op /\ buf[at + 1] = n
  <2>1. 1 \in 1 .. Len(s) /\ 2 \in 1 .. Len(s) /\ at + 1 - 1 = at /\ at + 2 - 1 = at + 1
    BY <1>1, <1>6
  <2>2. buf[at + 1 - 1] = s[1] /\ buf[at + 2 - 1] = s[2]
    BY <1>5, <2>1 DEF Holds
  <2> QED BY <1>1, <2>1, <2>2 DEF n
<1>8. Inside(buf, at, HdrLen)
  <2>1. at + 2 <= M
    BY <1>1, <1>5, <1>6
  <2> QED BY <2>1, InsideIs DEF HdrLen
<1>9. PICK g : /\ Rounds(buf, at, size, n, g)
               /\ from_bytes(buf, at, size) =
                    [size |-> IF g[n].ok THEN g[n].pos ELSE 0, op |-> p.op,
                     kvs |-> g[n].kvs, fault |-> g[n].fault]
  <2>1. \E g : /\ Rounds(buf, at, size, buf[at + 1], g)
               /\ from_bytes(buf, at, size) =
                    [size |-> IF g[buf[at + 1]].ok THEN g[buf[at + 1]].pos ELSE 0, op |-> buf[at],
                     kvs |-> g[buf[at + 1]].kvs, fault |-> g[buf[at + 1]].fault]
    BY <1>8, FromBytesIs
  <2> QED BY <1>7, <2>1
<1> DEFINE Found(k) == [j \in 1 .. k |-> kvs[j]]
           Good(k) == g[k] = [pos |-> o[k], kvs |-> Found(k), ok |-> TRUE, fault |-> FALSE]
           S == {k \in 0 .. n : Good(k)}
<1>10. 0 \in S
  <2>1. Found(0) = <<>>
    OBVIOUS
  <2>2. g[0] = [pos |-> 2, kvs |-> <<>>, ok |-> TRUE, fault |-> FALSE]
    BY <1>9 DEF Rounds, ParseStart, HdrLen
  <2>3. 0 \in 0 .. n
    BY <1>1
  <2> QED BY <1>3, <2>1, <2>2, <2>3
<1>11. ASSUME NEW k \in 0 .. n - 1, k \in S PROVE k + 1 \in S
  <2>1. PICK x \in 1 .. n : x = k + 1 /\ x - 1 = k /\ x \in 0 .. n /\ k \in 0 .. n /\ k \in Nat
    <3>1. k + 1 \in 1 .. n /\ (k + 1) - 1 = k /\ k + 1 \in 0 .. n /\ k \in 0 .. n /\ k \in Nat
      BY <1>1
    <3> QED BY <3>1
  <2>2. /\ o[x] = o[k] + 2 + Len(kvs[x].key) + Len(kvs[x].val) /\ o[x] <= Len(s)
        /\ PairAt(s, o[k], kvs[x]) /\ kvs[x] \in Pair /\ o[k] \in Nat
    BY <1>3, <1>4, <2>1
  <2>3. g[k] \in ParseState /\ g[x] = NextPair(buf, at, size, g[k])
    BY <1>9, <2>1 DEF Rounds
  <2>4. g[k] = [pos |-> o[k], kvs |-> Found(k), ok |-> TRUE, fault |-> FALSE]
    BY <1>11
  <2> HIDE DEF Found
  <2>5. g[k].pos = o[k] /\ g[k].ok = TRUE /\ g[k].fault = FALSE /\ g[k].kvs = Found(k)
    BY <2>4
  <2>6. NextPair(buf, at, size, g[k]) =
          [pos |-> o[k] + 2 + Len(kvs[x].key) + Len(kvs[x].val),
           kvs |-> Append(g[k].kvs, kvs[x]), ok |-> TRUE, fault |-> FALSE]
    <3>1. o[k] + 2 + Len(kvs[x].key) + Len(kvs[x].val) <= Len(s)
      BY <2>2
    <3>2. Available(M, buf, at, size, s)
      BY <1>1, <1>5 DEF Available
    <3>3. Due(s, kvs[x], g[k])
      BY <2>2, <2>3, <2>5, <3>1 DEF Due
    <3>4. NextPair(buf, at, size, g[k]) = After(g[k], kvs[x])
      BY <3>2, <3>3, NextPairReads
    <3> QED BY <2>5, <3>4, Zenon DEF After
  <2>7. Append(Found(k), kvs[x]) = Found(x)
    <3>0. 1 .. k \subseteq 1 .. n /\ 1 .. x \subseteq 1 .. n
      BY <1>1, <2>1
    <3>1. \A j \in 1 .. k : kvs[j] \in Pair
      BY <1>4, <3>0, Zenon
    <3>2. Found(k) \in Seq(Pair) /\ Len(Found(k)) = k
      BY <2>1, <3>1 DEF Found
    <3>3. \A j \in 1 .. x : kvs[j] \in Pair
      BY <1>4, <3>0, Zenon
    <3>4. Found(x) \in Seq(Pair) /\ Len(Found(x)) = x
      BY <2>1, <3>3 DEF Found
    <3>5. /\ Append(Found(k), kvs[x]) \in Seq(Pair) /\ Len(Append(Found(k), kvs[x])) = x
          /\ \A j \in 1 .. k : Append(Found(k), kvs[x])[j] = Found(k)[j]
          /\ Append(Found(k), kvs[x])[x] = kvs[x]
      BY <2>1, <2>2, <3>2, AppendProperties
    <3>6. \A j \in 1 .. x : Append(Found(k), kvs[x])[j] = Found(x)[j]
      BY <2>1, <3>5 DEF Found
    <3> QED BY <3>4, <3>5, <3>6, SeqEqual
  <2>8. Good(x)
    BY <2>2, <2>3, <2>5, <2>6, <2>7
  <2> HIDE DEF Good
  <2> QED BY <2>1, <2>8
<1>12. Good(n)
  <2> HIDE DEF S
  <2>1. 0 .. n \subseteq S
    BY <1>1, <1>10, <1>11, Upwards
  <2>2. n \in S
    BY <1>1, <2>1
  <2> QED BY <2>2 DEF S
<1>13. g[n].ok /\ g[n].pos = Len(s) /\ g[n].kvs = kvs /\ g[n].fault = FALSE
  BY <1>3, <1>4, <1>12
<1> QED BY <1>9, <1>13 DEF s, kvs

-----------------------------------------------------------------------------
(* The invariant. *)

\* The packages of the workload as they are in the file, and where they begin.
Encoded == [k \in DOMAIN wl.pkgs |-> Encode(wl.pkgs[k])]
Begins == CHOOSE o : Parts(Encoded, FlattenSeq(Encoded), o)

Starting == {"open", "load", "words", "opendb", "reset"}
AllSent == \A k \in 1 .. Len(out) : out[k].total = out[k].body

FileInv == file = SubSeq(Complete, 1, Len(Complete) - wl.cut)

\* The buffer is filled once; without a failure it is as long as what was read.
LoadInv ==
  /\ LoadIsPrefix
  /\ errors = 0 => fpos <= MAX_FILE_SIZE
  /\ errors = 0 /\ pc \in {"words", "opendb", "reset"} => fpos = Least(Len(file), MAX_FILE_SIZE)

\* Every operation but the one that is being answered has its answer.
AnswerInv ==
  /\ pc \in Starting => ops = 0 /\ opcounter = 0 /\ out = <<>> /\ log = <<>>
  /\ pc \in {"receive", "execute", "respond"} => AllSent
  /\ pc = "receive" => opcounter = ops /\ Len(out) = ops
  /\ pc \in {"execute", "respond"} => opcounter = ops - 1 /\ Len(out) = ops - 1
  /\ pc = "chunks" =>
       /\ opcounter = ops - 1 /\ Len(out) = ops
       /\ \A k \in 1 .. ops - 1 : out[k].total = out[k].body
       /\ out[ops].body + bytes = out[ops].total
  /\ AllOrError

\* The next package is where the last one ended.
ReplayInv ==
  /\ pc \in {"opendb", "reset"} \cup Replaying => total_ops = wl_buffer[1]
  /\ Len(log) = ops
  /\ Sound /\ pc \in Replaying => wl_pos = 2 + Begins[ops]
  /\ ReplayIsExact

UdpInv == TypeOK /\ FileInv /\ LoadInv /\ AnswerInv /\ ReplayInv

-----------------------------------------------------------------------------
LEMMA CompleteIs ==
  ASSUME wl \in Workloads
  PROVE  /\ Complete \in Seq(Nat) /\ wl.total \in Nat /\ wl.cut \in Nat
         /\ Len(Complete) >= 2 /\ Complete[2] = wl.total
         /\ wl.pkgs \in Seq(Request) /\ Begins[0] = 0
         /\ \A k \in 1 .. Len(wl.pkgs) :
              /\ wl.pkgs[k] \in Request /\ Encode(wl.pkgs[k]) \in Seq(Nat)
              /\ Begins[k - 1] \in Nat
              /\ Begins[k] = Begins[k - 1] + Len(Encode(wl.pkgs[k]))
              /\ 2 + Begins[k] <= Len(Complete)
              /\ \A j \in 1 .. Len(Encode(wl.pkgs[k])) :
                   Complete[2 + Begins[k - 1] + j] = Encode(wl.pkgs[k])[j]
<1> DEFINE pkgs == wl.pkgs
           n == Len(pkgs)
           s == FlattenSeq(Encoded)
<1>1. wl.total \in Nat /\ wl.cut \in Nat /\ pkgs \in Seq(Request)
  BY ReplayAssumption
<1>2. n \in Nat /\ DOMAIN pkgs = 1 .. n /\ \A k \in 1 .. n : pkgs[k] \in Request
  BY <1>1, LenProperties, ElementOfSeq
<1>3. \A k \in 1 .. n : Encode(pkgs[k]) \in Seq(Nat)
  BY <1>2, EncodeIs
<1>4. /\ Encoded \in Seq(Seq(Nat)) /\ Len(Encoded) = n
      /\ \A k \in 1 .. n : Encoded[k] = Encode(pkgs[k])
  <2> HIDE DEF n
  <2>1. Encoded = [k \in 1 .. n |-> Encode(pkgs[k])]
    BY <1>2 DEF Encoded
  <2> QED BY <1>2, <1>3, <2>1
<1>5. s \in Seq(Nat) /\ Parts(Encoded, s, Begins)
  BY <1>4, FlattenParts DEF Begins
<1>6. Complete = <<0, wl.total>> \o s
  BY DEF Complete, Encoded
<1> HIDE DEF n, s, pkgs
<1>7. /\ Complete \in Seq(Nat) /\ Len(Complete) = 2 + Len(s) /\ Complete[2] = wl.total
      /\ \A j \in 1 .. Len(s) : Complete[2 + j] = s[j]
  <2>1. 0 \in Nat
    OBVIOUS
  <2> QED BY <1>1, <1>5, <1>6, <2>1, Headed
<1>8. PICK l \in Nat : l = Len(s)
  BY <1>5, LenProperties
<1>9. /\ Begins \in [0 .. n -> Nat] /\ Begins[0] = 0
      /\ \A k \in 1 .. n :
           /\ Begins[k] = Begins[k - 1] + Len(Encoded[k])
           /\ Begins[k] <= l
           /\ \A j \in 1 .. Len(Encoded[k]) : s[Begins[k - 1] + j] = Encoded[k][j]
  BY <1>4, <1>5, <1>8 DEF Parts
<1>10. Len(Complete) >= 2
  BY <1>7, <1>8
<1>11. ASSUME NEW k \in 1 .. n
       PROVE  /\ pkgs[k] \in Request /\ Encode(pkgs[k]) \in Seq(Nat)
              /\ Begins[k - 1] \in Nat
              /\ Begins[k] = Begins[k - 1] + Len(Encode(pkgs[k]))
              /\ 2 + Begins[k] <= Len(Complete)
              /\ \A j \in 1 .. Len(Encode(pkgs[k])) :
                   Complete[2 + Begins[k - 1] + j] = Encode(pkgs[k])[j]
  <2> DEFINE e == Encode(pkgs[k])
  <2>1. e = Encoded[k] /\ e \in Seq(Nat) /\ pkgs[k] \in Request
    BY <1>2, <1>3, <1>4
  <2> HIDE DEF e
  <2>2. k - 1 \in 0 .. n /\ k \in 0 .. n
    BY <1>2
  <2>3. PICK a \in Nat, b \in Nat, c \in Nat :
           a = Begins[k - 1] /\ b = Len(e) /\ c = Begins[k] /\ c = a + b /\ c <= l
    BY <1>9, <2>1, <2>2, LenProperties
  <2>4. 2 + c <= 2 + l
    BY <2>3
  <2>5. ASSUME NEW j \in 1 .. b PROVE Complete[2 + a + j] = e[j]
    <3>1. a + j \in 1 .. l /\ 2 + (a + j) = 2 + a + j
      <4>1. a \in Nat /\ b \in Nat /\ l \in Nat /\ j \in 1 .. b /\ a + b <= l
        BY <1>9, <2>3
      <4> QED BY <4>1
    <3>2. s[a + j] = e[j]
      BY <1>9, <2>1, <2>3
    <3>3. Complete[2 + (a + j)] = s[a + j]
      BY <1>7, <1>8, <3>1, Zenon
    <3> QED BY <3>1, <3>2, <3>3, Zenon
  <2> QED BY <1>7, <1>8, <2>1, <2>3, <2>4, <2>5 DEF e
<1> QED BY <1>1, <1>7, <1>9, <1>10, <1>11 DEF n, pkgs

LEMMA FileIs ==
  ASSUME wl \in Workloads, FileInv
  PROVE  file \in Seq(Nat) /\ (wl.cut = 0 => file = Complete)
<1> DEFINE m == Len(Complete) - wl.cut
<1>1. Complete \in Seq(Nat) /\ wl.cut \in Nat /\ Len(Complete) \in Nat
  BY CompleteIs, LenProperties
<1>2. file = SubSeq(Complete, 1, m)
  BY DEF FileInv
<1>3. CASE m >= 1
  <2>1. m \in 1 .. Len(Complete) /\ 1 \in 1 .. Len(Complete)
    BY <1>1, <1>3
  <2>2. SubSeq(Complete, 1, m) \in Seq(Nat)
    BY <1>1, <2>1
  <2>3. wl.cut = 0 => SubSeq(Complete, 1, Len(Complete)) = Complete
    BY <1>1, SubSeqFull
  <2>4. wl.cut = 0 => m = Len(Complete)
    BY <1>1
  <2> QED BY <1>2, <2>2, <2>3, <2>4
<1>4. CASE m < 1
  <2>1. SubSeq(Complete, 1, m) = <<>>
    BY <1>1, <1>4
  <2>2. wl.cut # 0
    BY <1>1, <1>4, CompleteIs
  <2> QED BY <1>2, <2>1, <2>2, EmptySeq
<1> QED BY <1>1, <1>3, <1>4

LEMMA WlSizeIs ==
  ASSUME TypeOK, LoadInv, errors = 0
  PROVE  wl_size = fpos /\ fpos \in 0 .. MAX_FILE_SIZE /\ Offset(wl_size) = fpos
<1>1. fpos \in Nat /\ fpos <= MAX_FILE_SIZE /\ SizeMax \in Nat /\ SizeMax > 2 * MAX_FILE_SIZE
      /\ MAX_FILE_SIZE \in Nat
  BY ReplayAssumption DEF TypeOK, LoadInv
<1>2. fpos \in 0 .. SizeMax /\ fpos + SizeMax + 1 - errors = fpos + SizeMax + 1
  BY <1>1
<1>3. wl_size = fpos
  BY <1>2, WrapSmall DEF LoadInv, LoadIsPrefix
<1>4. ~(fpos > SizeMax \div 2)
  BY <1>1
<1> QED BY <1>1, <1>3, <1>4 DEF Offset

\* What one read() stores.
LEMMA StoredIs ==
  ASSUME TypeOK, NEW n \in 1 .. Least(Room, Len(file) - fpos)
  PROVE  /\ n \in Nat /\ n <= Room /\ fpos + n \in 0 .. Len(file) /\ Offset(wl_size) \in Int
         /\ Stored(n) \in [0 .. MAX_FILE_SIZE - 1 -> Nat]
<1>1. /\ file \in Seq(Nat) /\ fpos \in 0 .. Len(file) /\ Len(file) \in Nat
      /\ wl_buffer \in [0 .. MAX_FILE_SIZE - 1 -> Nat] /\ wl_size \in 0 .. SizeMax
      /\ SizeMax \in Nat /\ MAX_FILE_SIZE \in Nat
  BY ReplayAssumption, LenProperties DEF TypeOK
<1> DEFINE at == Offset(wl_size)
<1>2. at \in Int
  BY <1>1 DEF Offset
<1>3. Room \in Int
  BY <1>1, <1>2 DEF Room
<1>4. n \in Nat /\ n <= Room /\ fpos + n \in 0 .. Len(file)
  BY <1>1, <1>3 DEF Least
<1> HIDE DEF at
<1>5. ASSUME NEW j \in 0 .. MAX_FILE_SIZE - 1, j \in at .. at + n - 1
      PROVE  file[fpos + (j - at) + 1] \in Nat
  <2>1. fpos + (j - at) + 1 \in 1 .. Len(file)
    BY <1>1, <1>2, <1>4, <1>5
  <2> QED BY <1>1, <2>1, ElementOfSeq
<1>6. Stored(n) = [j \in 0 .. MAX_FILE_SIZE - 1 |->
                     IF j \in at .. at + n - 1 THEN file[fpos + (j - at) + 1] ELSE wl_buffer[j]]
  BY <1>1 DEF Stored, at
<1>7. Stored(n) \in [0 .. MAX_FILE_SIZE - 1 -> Nat]
  BY <1>1, <1>5, <1>6
<1> QED BY <1>2, <1>4, <1>7 DEF at

LEMMA NextPackageIs ==
  ASSUME TypeOK
  PROVE  LET r == NextPackage
         IN /\ r.size \in Nat /\ r.fault \in BOOLEAN /\ r.kvs \in Seq(Pair)
            /\ AsLogged(r) \in [size : Nat, op : Nat, kvs : Seq(Pair)]
            /\ \/ r.size <= Wrap(wl_size + SizeMax + 1 - wl_pos)
               \/ r.size = HdrLen /\ r.kvs = <<>>
<1> DEFINE size == Wrap(wl_size + SizeMax + 1 - wl_pos)
           r == NextPackage
<1>1. /\ wl_buffer \in [0 .. MAX_FILE_SIZE - 1 -> Nat] /\ wl_pos \in Nat /\ MAX_FILE_SIZE \in Nat
      /\ wl_size \in Nat /\ SizeMax \in Nat
  BY ReplayAssumption DEF TypeOK
<1>2. wl_size + SizeMax + 1 - wl_pos \in Int
  BY <1>1
<1>3. size \in Nat
  <2>1. size \in 0 .. SizeMax
    BY <1>2, WrapIs, Zenon
  <2> QED BY <1>1, <2>1
<1> HIDE DEF size
<1>4. r = from_bytes(wl_buffer, wl_pos, size)
  BY DEF NextPackage, size
<1> HIDE DEF r
<1>5. /\ r.size \in Nat /\ r.op \in Nat /\ r.kvs \in Seq(Pair) /\ r.fault \in BOOLEAN
      /\ r.size <= size \/ (r.size = HdrLen /\ r.kvs = <<>>)
  BY <1>1, <1>3, <1>4, FromBytesType
<1>6. AsLogged(r) \in [size : Nat, op : Nat, kvs : Seq(Pair)]
  BY <1>5 DEF AsLogged
<1> QED BY <1>5, <1>6 DEF r, size

\* The steps that only change pc.
Control ==
  \/ Open \/ Loaded \/ OpenDB \/ Stop \/ ReceiveFault \/ SendError \/ PrintStats

LEMMA ControlIs ==
  ASSUME Control
  PROVE  /\ UNCHANGED <<fileVars, wlVars, wl_pos, ops, total_ops, sendVars, log>>
         /\ pc' \in Ended \cup Replaying \cup Starting
BY DEF Control, Open, Loaded, OpenDB, Stop, ReceiveFault, SendError, PrintStats, Ended, Replaying,
       Starting

LEMMA UdpTypeStep ==
  ASSUME UdpInv, Next
  PROVE  TypeOK'
<1>1. /\ wl \in Workloads /\ file \in Seq(Nat) /\ fpos \in 0 .. Len(file) /\ errors \in 0 .. MaxErrors
      /\ wl_buffer \in [0 .. MAX_FILE_SIZE - 1 -> Nat]
      /\ wl_pos \in Nat /\ wl_size \in 0 .. SizeMax
      /\ ops \in 0 .. total_ops /\ total_ops \in Nat
      /\ pc \in Ended \cup Replaying \cup Starting
      /\ bytes \in Nat /\ opcounter \in 0 .. ops
      /\ out \in Seq([total : Nat, body : Nat])
      /\ log \in Seq([size : Nat, op : Nat, kvs : Seq(Pair)])
  BY DEF UdpInv, TypeOK, Starting
<1>2. TypeOK /\ AnswerInv /\ MAX_FILE_SIZE \in Nat /\ MAX_FILE_SIZE >= 2 /\ SizeMax \in Nat
  BY ReplayAssumption DEF UdpInv
<1>3. CASE Control
  BY <1>1, <1>3, ControlIs DEF TypeOK, fileVars, wlVars, sendVars, Starting
<1>4. CASE Load
  <2>1. PICK n \in 1 .. Least(Room, Len(file) - fpos) :
           wl_buffer' = Stored(n) /\ wl_size' = Wrap(wl_size + n) /\ fpos' = fpos + n
    BY <1>4 DEF Load
  <2>2. n \in Nat /\ fpos + n \in 0 .. Len(file) /\ Stored(n) \in [0 .. MAX_FILE_SIZE - 1 -> Nat]
    BY <1>2, StoredIs
  <2>3. Wrap(wl_size + n) \in 0 .. SizeMax
    <3>1. wl_size + n \in Int
      BY <1>1, <1>2, <2>2
    <3> QED BY <3>1, WrapIs
  <2>4. UNCHANGED <<wl, file, errors, wl_pos, ops, total_ops, pc, sendVars, log>>
    BY <1>4 DEF Load
  <2> QED BY <1>1, <2>1, <2>2, <2>3, <2>4 DEF TypeOK, sendVars, Starting
<1>5. CASE LoadError
  <2>1. Wrap(wl_size + SizeMax) \in 0 .. SizeMax
    <3>1. wl_size + SizeMax \in Int
      BY <1>1, <1>2
    <3> QED BY <3>1, WrapIs
  <2>2. errors' \in 0 .. MaxErrors
    BY <1>1, <1>5, ReplayAssumption DEF LoadError
  <2> QED BY <1>1, <1>5, <2>1, <2>2 DEF LoadError, TypeOK, sendVars, Starting
<1>6. CASE ReadWords
  <2>1. ops = 0 /\ wl_buffer[1] \in Nat
    BY <1>1, <1>2, <1>6 DEF ReadWords, AnswerInv, Starting
  <2>2. ops' \in 0 .. total_ops' /\ total_ops' \in Nat /\ wl_pos' \in Nat /\ opcounter' \in 0 .. ops'
    BY <1>1, <1>6, <2>1 DEF ReadWords, sendVars
  <2> QED BY <1>1, <1>6, <2>2 DEF ReadWords, TypeOK, fileVars, wlVars, sendVars, Starting
<1>7. CASE reset
  <2>1. opcounter = 0
    BY <1>2, <1>7 DEF reset, AnswerInv, Starting
  <2>2. ops' \in 0 .. total_ops' /\ wl_pos' \in Nat /\ opcounter' \in 0 .. ops'
    BY <1>1, <1>7, <2>1 DEF reset, sendVars
  <2> QED BY <1>1, <1>7, <2>2 DEF reset, TypeOK, fileVars, wlVars, sendVars, Replaying
<1>8. CASE Receive
  <2>1. /\ wl_pos' = wl_pos + NextPackage.size /\ log' = Append(log, AsLogged(NextPackage))
        /\ ops' = ops + 1 /\ ops < total_ops /\ pc' = "execute"
        /\ UNCHANGED <<fileVars, wlVars, total_ops, sendVars>>
    BY <1>8 DEF Receive
  <2>2. NextPackage.size \in Nat /\ AsLogged(NextPackage) \in [size : Nat, op : Nat, kvs : Seq(Pair)]
    BY <1>2, NextPackageIs
  <2>3. log' \in Seq([size : Nat, op : Nat, kvs : Seq(Pair)])
    BY <1>1, <2>1, <2>2, AppendProperties
  <2>4. ops' \in 0 .. total_ops' /\ opcounter' \in 0 .. ops'
    BY <1>1, <2>1 DEF sendVars
  <2>5. wl_pos' \in Nat
    BY <1>1, <2>1, <2>2
  <2> QED BY <1>1, <2>1, <2>3, <2>4, <2>5 DEF TypeOK, fileVars, wlVars, sendVars, Replaying
<1>9. CASE Execute
  BY <1>1, <1>9, ReplayAssumption DEF Execute, TypeOK, fileVars, wlVars, Replaying
<1>10. CASE SendHeader
  <2>1. out' \in Seq([total : Nat, body : Nat])
    <3>1. [total |-> bytes, body |-> 0] \in [total : Nat, body : Nat]
      BY <1>1
    <3>2. out' = Append(out, [total |-> bytes, body |-> 0])
      BY <1>10 DEF SendHeader
    <3> QED BY <1>1, <3>1, <3>2, AppendProperties
  <2> QED BY <1>1, <1>10, <2>1 DEF SendHeader, TypeOK, fileVars, wlVars, Replaying
<1>11. CASE SendChunk
  <2>1. pc = "chunks" /\ bytes > 0
    BY <1>11 DEF SendChunk
  <2>2. Amount \in Nat /\ bytes - Amount \in Nat
    BY <1>1, <2>1, ReplayAssumption DEF Amount, Least
  <2>3. Len(out) \in 1 .. Len(out)
    BY <1>1, <1>2, <2>1, LenProperties DEF AnswerInv
  <2> DEFINE new == [total |-> out[Len(out)].total, body |-> out[Len(out)].body + Amount]
  <2>4. new \in [total : Nat, body : Nat]
    <3>1. out[Len(out)] \in [total : Nat, body : Nat]
      BY <1>1, <2>3, ElementOfSeq
    <3> QED BY <2>2, <3>1
  <2>5. out' = [out EXCEPT ![Len(out)] = new]
    BY <1>11 DEF SendChunk
  <2> HIDE DEF new
  <2>6. out' \in Seq([total : Nat, body : Nat])
    BY <1>1, <2>3, <2>4, <2>5, ExceptSeq
  <2> QED BY <1>1, <1>11, <2>2, <2>6 DEF SendChunk, TypeOK, fileVars, wlVars, Starting
<1>12. CASE Responded
  <2>1. opcounter = ops - 1
    BY <1>2, <1>12 DEF Responded, AnswerInv
  <2>2. opcounter' \in 0 .. ops'
    BY <1>1, <1>12, <2>1 DEF Responded
  <2> QED BY <1>1, <1>12, <2>2 DEF Responded, TypeOK, fileVars, wlVars, Replaying
<1> QED
  BY <1>3, <1>4, <1>5, <1>6, <1>7, <1>8, <1>9, <1>10, <1>11, <1>12 DEF Next, Control

-----------------------------------------------------------------------------
(* Loading. *)

LEMMA WrapTurn ==
  ASSUME NEW k \in Int
  PROVE  Wrap(k + SizeMax + 1) = Wrap(k)
<1>1. SizeMax \in Nat /\ SizeMax + 1 \in Int /\ Wrap(k) \in 0 .. SizeMax
  BY ReplayAssumption, WrapIs
<1>2. Wrap(Wrap(k) + (SizeMax + 1)) = Wrap(k + (SizeMax + 1))
  BY <1>1, WrapSum
<1>3. Wrap(Wrap(k) + SizeMax + 1) = Wrap(k)
  BY <1>1, WrapSmall
<1>4. Wrap(k) + (SizeMax + 1) = Wrap(k) + SizeMax + 1 /\ k + (SizeMax + 1) = k + SizeMax + 1
  BY <1>1
<1> QED BY <1>2, <1>3, <1>4

LoadedPcs == {"words", "opendb", "reset"} \cup Replaying

LEMMA LoadKept ==
  ASSUME LoadInv, UNCHANGED <<fileVars, wlVars>>, pc' \in LoadedPcs => pc \in LoadedPcs
  PROVE  LoadInv'
BY DEF LoadInv, LoadIsPrefix, fileVars, wlVars, LoadedPcs, Replaying

LEMMA LoadStep ==
  ASSUME UdpInv, Next
  PROVE  LoadInv'
<1>1. /\ fpos \in 0 .. Len(file) /\ Len(file) \in Nat /\ fpos \in Nat /\ errors \in Nat /\ wl_size \in Nat
      /\ wl_buffer \in [0 .. MAX_FILE_SIZE - 1 -> Nat] /\ MAX_FILE_SIZE \in Nat /\ SizeMax \in Nat
  BY ReplayAssumption, LenProperties DEF UdpInv, TypeOK
<1>2. TypeOK /\ LoadInv
  BY DEF UdpInv
<1>3. CASE Load
  <2>1. PICK n \in 1 .. Least(Room, Len(file) - fpos) :
           wl_buffer' = Stored(n) /\ wl_size' = Wrap(wl_size + n) /\ fpos' = fpos + n
    BY <1>3 DEF Load
  <2>2. n \in Nat /\ n <= Room /\ fpos + n \in 0 .. Len(file)
    BY <1>2, StoredIs
  <2>3. pc = "load" /\ pc' = pc /\ errors' = errors /\ file' = file
    BY <1>3 DEF Load
  <2>4. wl_size' = Wrap(fpos' + SizeMax + 1 - errors')
    <3>1. fpos + SizeMax + 1 - errors \in Int /\ n \in Int
      BY <1>1, <2>2
    <3>2. Wrap(Wrap(fpos + SizeMax + 1 - errors) + n) = Wrap((fpos + SizeMax + 1 - errors) + n)
      BY <3>1, WrapSum
    <3>3. wl_size = Wrap(fpos + SizeMax + 1 - errors)
      BY <1>2 DEF LoadInv, LoadIsPrefix
    <3>4. (fpos + SizeMax + 1 - errors) + n = (fpos + n) + SizeMax + 1 - errors
      BY <1>1, <2>2
    <3> QED BY <2>1, <2>3, <3>2, <3>3, <3>4
  <2>5. ASSUME errors = 0
        PROVE  /\ fpos' <= MAX_FILE_SIZE
               /\ \A j \in 0 .. MAX_FILE_SIZE - 1 : wl_buffer'[j] = IF j < fpos' THEN file[j + 1] ELSE 0
    <3>1. wl_size = fpos /\ fpos <= MAX_FILE_SIZE /\ Offset(wl_size) = fpos
      BY <1>1, <1>2, <2>5, WlSizeIs
    <3>2. fpos + n <= MAX_FILE_SIZE
      BY <1>1, <2>2, <3>1 DEF Room
    <3> SUFFICES ASSUME NEW j \in 0 .. MAX_FILE_SIZE - 1
                 PROVE  wl_buffer'[j] = IF j < fpos' THEN file[j + 1] ELSE 0
      BY <2>1, <3>2
    <3>3. wl_buffer'[j] = IF j \in fpos .. fpos + n - 1 THEN file[fpos + (j - fpos) + 1] ELSE wl_buffer[j]
      BY <1>1, <2>1, <3>1 DEF Stored
    <3>4. wl_buffer[j] = IF j < fpos THEN file[j + 1] ELSE 0
      BY <1>2, <2>5 DEF LoadInv, LoadIsPrefix
    <3>5. CASE j < fpos
      <4>1. ~(j \in fpos .. fpos + n - 1) /\ j < fpos + n
        BY <1>1, <2>2, <3>5
      <4> QED BY <2>1, <3>3, <3>4, <3>5, <4>1
    <3>6. CASE ~(j < fpos) /\ j < fpos + n
      <4>1. j \in fpos .. fpos + n - 1 /\ fpos + (j - fpos) + 1 = j + 1
        BY <1>1, <2>2, <3>6
      <4> QED BY <2>1, <3>3, <3>6, <4>1
    <3>7. CASE ~(j < fpos) /\ ~(j < fpos + n)
      <4>1. ~(j \in fpos .. fpos + n - 1)
        BY <1>1, <2>2, <3>7
      <4> QED BY <2>1, <3>3, <3>4, <3>7, <4>1
    <3> QED BY <3>5, <3>6, <3>7
  <2> QED BY <2>3, <2>4, <2>5 DEF LoadInv, LoadIsPrefix, Replaying
<1>4. CASE LoadError
  <2>1. /\ pc = "load" /\ pc' = pc /\ errors' = errors + 1 /\ fpos' = fpos
        /\ wl_size' = Wrap(wl_size + SizeMax)
    BY <1>4 DEF LoadError
  <2> DEFINE k == fpos + SizeMax + 1 - errors
  <2>2. k \in Int /\ k - 1 \in Int /\ k + SizeMax = (k - 1) + SizeMax + 1
        /\ fpos + SizeMax + 1 - (errors + 1) = k - 1
    BY <1>1
  <2>3. wl_size = Wrap(k)
    BY <1>2 DEF LoadInv, LoadIsPrefix
  <2> HIDE DEF k
  <2>4. Wrap(Wrap(k) + SizeMax) = Wrap(k + SizeMax)
    BY <1>1, <2>2, WrapSum
  <2>5. Wrap((k - 1) + SizeMax + 1) = Wrap(k - 1)
    BY <2>2, WrapTurn
  <2>6. wl_size' = Wrap(fpos' + SizeMax + 1 - errors')
    BY <2>1, <2>2, <2>3, <2>4, <2>5
  <2>7. errors' # 0
    BY <1>1, <2>1
  <2> QED BY <2>6, <2>7 DEF LoadInv, LoadIsPrefix
<1>5. CASE Loaded
  <2>1. /\ fpos = Len(file) \/ Room = 0
        /\ UNCHANGED <<wl, file, fpos, errors, wl_buffer, wl_size>> /\ pc' = "words"
    BY <1>5 DEF Loaded, fileVars, wlVars
  <2>2. ASSUME errors = 0 PROVE fpos = Least(Len(file), MAX_FILE_SIZE)
    <3>1. fpos <= MAX_FILE_SIZE /\ Offset(wl_size) = fpos
      BY <1>1, <1>2, <2>2, WlSizeIs
    <3>2. fpos = Len(file) \/ fpos = MAX_FILE_SIZE
      BY <1>1, <2>1, <3>1 DEF Room
    <3> QED BY <1>1, <3>1, <3>2 DEF Least
  <2> QED BY <1>2, <2>1, <2>2 DEF LoadInv, LoadIsPrefix, Replaying
<1>6. CASE Open \/ ReadWords \/ OpenDB \/ reset \/ Stop \/ Receive \/ ReceiveFault
           \/ Execute \/ SendHeader \/ SendChunk \/ SendError \/ Responded \/ PrintStats
  <2>1. UNCHANGED <<fileVars, wlVars>> /\ (pc' \in LoadedPcs => pc \in LoadedPcs)
    BY <1>6 DEF Open, ReadWords, OpenDB, reset, Stop, Receive, ReceiveFault, Execute, SendHeader,
                SendChunk, SendError, Responded, PrintStats, LoadedPcs, Replaying
  <2> QED BY <1>2, <2>1, LoadKept
<1> QED BY <1>3, <1>4, <1>5, <1>6 DEF Next

-----------------------------------------------------------------------------
(* Answering. *)

LEMMA AnswerStep ==
  ASSUME UdpInv, Next
  PROVE  AnswerInv'
<1>1. /\ ops \in 0 .. total_ops /\ total_ops \in Nat /\ bytes \in Nat /\ opcounter \in 0 .. ops
      /\ out \in Seq([total : Nat, body : Nat]) /\ Len(out) \in Nat
      /\ \A k \in 1 .. Len(out) : out[k].total \in Nat /\ out[k].body \in Nat
  <2>1. /\ ops \in 0 .. total_ops /\ total_ops \in Nat /\ bytes \in Nat /\ opcounter \in 0 .. ops
        /\ out \in Seq([total : Nat, body : Nat])
    BY DEF UdpInv, TypeOK
  <2>2. Len(out) \in Nat
    BY <2>1, LenProperties
  <2>3. \A k \in 1 .. Len(out) : out[k] \in [total : Nat, body : Nat]
    BY <2>1, ElementOfSeq
  <2> QED BY <2>1, <2>2, <2>3
<1>2. AnswerInv
  BY DEF UdpInv
<1>3. CASE Open \/ Load \/ LoadError \/ Loaded \/ ReadWords \/ OpenDB
  <2>1. /\ pc \in Starting /\ pc' \in Starting \cup {"abort"}
        /\ UNCHANGED <<ops, opcounter, out, log>>
    BY <1>3 DEF Open, Load, LoadError, Loaded, ReadWords, OpenDB, Starting, sendVars
  <2> QED BY <1>2, <2>1 DEF AnswerInv, AllOrError, Starting
<1>4. CASE reset
  <2>1. /\ pc' = "receive" /\ ops' = 0 /\ opcounter' = 0 /\ out' = <<>>
    BY <1>2, <1>4 DEF reset, AnswerInv, Starting, sendVars
  <2>2. Len(out') = 0
    BY <2>1, EmptySeq
  <2> QED BY <2>1, <2>2 DEF AnswerInv, AllOrError, AllSent, Starting
<1>5. CASE Stop
  <2>1. /\ pc = "receive" /\ ops >= total_ops /\ pc' = "stats"
        /\ UNCHANGED <<ops, total_ops, opcounter, out>>
    BY <1>5 DEF Stop, sendVars
  <2>2. opcounter = total_ops /\ AllSent
    BY <1>1, <1>2, <2>1 DEF AnswerInv
  <2> QED BY <2>1, <2>2 DEF AnswerInv, AllOrError, AllSent, Starting
<1>6. CASE Receive
  <2>1. /\ pc = "receive" /\ ops' = ops + 1 /\ pc' = "execute" /\ UNCHANGED <<opcounter, out>>
    BY <1>6 DEF Receive, sendVars
  <2>2. AllSent /\ opcounter = ops /\ Len(out) = ops
    BY <1>2, <2>1 DEF AnswerInv
  <2>3. opcounter' = ops' - 1 /\ Len(out') = ops' - 1
    BY <1>1, <2>1, <2>2
  <2> QED BY <2>1, <2>2, <2>3 DEF AnswerInv, AllOrError, AllSent, Starting
<1>7. CASE Execute
  <2>1. pc = "execute" /\ pc' = "respond" /\ UNCHANGED <<ops, opcounter, out>>
    BY <1>7 DEF Execute
  <2> QED BY <1>2, <2>1 DEF AnswerInv, AllOrError, AllSent, Starting
<1>8. CASE SendHeader
  <2> DEFINE new == [total |-> bytes, body |-> 0]
  <2>1. /\ pc = "respond" /\ pc' = "chunks" /\ out' = Append(out, new)
        /\ UNCHANGED <<ops, opcounter, bytes>>
    BY <1>8 DEF SendHeader
  <2>2. AllSent /\ opcounter = ops - 1 /\ Len(out) = ops - 1
    BY <1>2, <2>1 DEF AnswerInv
  <2>3. new \in [total : Nat, body : Nat] /\ new.body + bytes = new.total
    BY <1>1
  <2> HIDE DEF new
  <2>4. /\ Len(out') = Len(out) + 1 /\ out'[Len(out) + 1] = new
        /\ \A k \in 1 .. Len(out) : out'[k] = out[k]
    BY <1>1, <2>1, <2>3, AppendProperties
  <2>5. Len(out) + 1 = ops
    BY <1>1, <2>2
  <2>6. /\ Len(out') = ops /\ out'[ops] = new
        /\ \A k \in 1 .. ops - 1 : out'[k].total = out'[k].body
    BY <2>2, <2>4, <2>5 DEF AllSent
  <2> QED BY <2>1, <2>2, <2>3, <2>6 DEF AnswerInv, AllOrError, Starting
<1>9. CASE SendChunk
  <2>1. /\ pc = "chunks" /\ bytes > 0 /\ pc' = pc /\ bytes' = bytes - Amount
        /\ out' = [out EXCEPT ![Len(out)] = [total |-> @.total, body |-> @.body + Amount]]
        /\ UNCHANGED <<ops, opcounter>>
    BY <1>9 DEF SendChunk
  <2>2. /\ opcounter = ops - 1 /\ Len(out) = ops
        /\ \A k \in 1 .. ops - 1 : out[k].total = out[k].body
        /\ out[ops].body + bytes = out[ops].total
    BY <1>2, <2>1 DEF AnswerInv
  <2>3. ops \in 1 .. Len(out)
    BY <1>1, <2>2
  <2>4. Amount \in Nat
    BY <1>1, ReplayAssumption DEF Amount, Least
  <2> DEFINE new == [total |-> out[ops].total, body |-> out[ops].body + Amount]
  <2>5. new \in [total : Nat, body : Nat] /\ new.body + (bytes - Amount) = new.total
    BY <1>1, <2>2, <2>3, <2>4
  <2>6. out' = [out EXCEPT ![ops] = new]
    BY <2>1, <2>2
  <2> HIDE DEF new
  <2>7. /\ Len(out') = Len(out)
        /\ \A k \in 1 .. Len(out) : out'[k] = IF k = ops THEN new ELSE out[k]
    <3>1. /\ out \in Seq([total : Nat, body : Nat]) /\ new \in [total : Nat, body : Nat]
      BY <1>1, <2>5
    <3> QED BY <2>3, <2>6, <3>1, ExceptSeq
  <2>8. out'[ops] = new
    BY <2>3, <2>7
  <2>9. \A k \in 1 .. ops - 1 : out'[k].total = out'[k].body
    BY <1>1, <2>2, <2>7
  <2> QED BY <2>1, <2>2, <2>5, <2>7, <2>8, <2>9 DEF AnswerInv, AllOrError, Starting
<1>10. CASE SendError
  <2>1. /\ pc = "respond" \/ (pc = "chunks" /\ bytes > 0)
        /\ pc' = "stats" /\ UNCHANGED <<ops, total_ops, opcounter, out>>
    BY <1>10 DEF SendError, sendVars
  <2>2. opcounter = ops - 1 /\ (Len(out) = ops => out[ops].body < out[ops].total)
    <3>1. CASE pc = "respond"
      BY <1>1, <1>2, <3>1 DEF AnswerInv
    <3>2. CASE pc = "chunks" /\ bytes > 0
      <4>1. opcounter = ops - 1 /\ Len(out) = ops /\ out[ops].body + bytes = out[ops].total
        BY <1>2, <3>2 DEF AnswerInv
      <4>2. ops \in 1 .. Len(out)
        BY <1>1, <4>1
      <4> QED BY <1>1, <3>2, <4>1, <4>2
    <3> QED BY <2>1, <3>1, <3>2
  <2> QED BY <2>1, <2>2 DEF AnswerInv, AllOrError, Starting
<1>11. CASE Responded
  <2>1. /\ pc = "chunks" /\ bytes = 0 /\ pc' = "receive" /\ opcounter' = opcounter + 1
        /\ UNCHANGED <<ops, out>>
    BY <1>11 DEF Responded
  <2>2. /\ opcounter = ops - 1 /\ Len(out) = ops
        /\ \A k \in 1 .. ops - 1 : out[k].total = out[k].body
        /\ out[ops].body + bytes = out[ops].total
    BY <1>2, <2>1 DEF AnswerInv
  <2>3. out[ops].total = out[ops].body
    BY <1>1, <2>1, <2>2
  <2>4. \A k \in 1 .. Len(out) : out[k].total = out[k].body
    BY <1>1, <2>2, <2>3
  <2>5. opcounter' = ops
    BY <1>1, <2>1, <2>2
  <2> QED BY <2>1, <2>2, <2>4, <2>5 DEF AnswerInv, AllOrError, AllSent, Starting
<1>12. CASE ReceiveFault \/ PrintStats
  <2>1. pc' \in {"fault", "sigfpe", "exit"}
    BY <1>12 DEF ReceiveFault, PrintStats
  <2> QED BY <2>1 DEF AnswerInv, AllOrError, Starting
<1> QED
  BY <1>3, <1>4, <1>5, <1>6, <1>7, <1>8, <1>9, <1>10, <1>11, <1>12 DEF Next

-----------------------------------------------------------------------------
(* Replaying. *)

\* The next package of a sound workload is where it is looked for.
LEMMA SoundPackage ==
  ASSUME UdpInv, Sound, pc = "receive", ops < total_ops
  PROVE  /\ ops + 1 \in 1 .. Len(wl.pkgs)
         /\ LET p == wl.pkgs[ops + 1]
            IN /\ NextPackage = [size |-> Len(Encode(p)), op |-> p.op, kvs |-> p.kvs, fault |-> FALSE]
               /\ wl_pos + Len(Encode(p)) = 2 + Begins[ops + 1]
<1>1. /\ wl \in Workloads /\ fpos \in 0 .. Len(file) /\ ops \in Nat /\ total_ops \in Nat
      /\ wl_buffer \in [0 .. MAX_FILE_SIZE - 1 -> Nat] /\ wl_pos \in Nat
      /\ MAX_FILE_SIZE \in Nat /\ MAX_FILE_SIZE >= 2 /\ SizeMax \in Nat /\ SizeMax > 2 * MAX_FILE_SIZE
  BY ReplayAssumption DEF UdpInv, TypeOK
<1>2. errors = 0 /\ wl.cut = 0 /\ Len(file) <= MAX_FILE_SIZE /\ wl.total <= Len(wl.pkgs)
  BY DEF Sound
<1>3. file = Complete
  BY <1>1, <1>2, FileIs DEF UdpInv
<1>4. /\ Complete \in Seq(Nat) /\ wl.total \in Nat /\ Len(Complete) >= 2 /\ Complete[2] = wl.total
      /\ wl.pkgs \in Seq(Request)
  BY <1>1, CompleteIs
<1>5. Len(file) \in Nat /\ Len(wl.pkgs) \in Nat
  BY <1>3, <1>4, LenProperties
<1>6. fpos = Len(file) /\ wl_size = Len(file)
  <2>1. fpos = Least(Len(file), MAX_FILE_SIZE)
    BY <1>2 DEF UdpInv, LoadInv, LoadIsPrefix, Replaying
  <2>2. fpos = Len(file)
    BY <1>1, <1>2, <1>5, <2>1 DEF Least
  <2>3. wl_size = fpos
    BY <1>2, WlSizeIs DEF UdpInv
  <2> QED BY <2>2, <2>3
<1>7. ASSUME NEW x \in 1 .. Len(file) PROVE wl_buffer[x - 1] = Complete[x]
  <2>1. PICK j \in 0 .. MAX_FILE_SIZE - 1 : j = x - 1 /\ j + 1 = x /\ j < fpos
    <3>1. x - 1 \in 0 .. MAX_FILE_SIZE - 1 /\ (x - 1) + 1 = x /\ x - 1 < fpos
      BY <1>1, <1>2, <1>5, <1>6
    <3> QED BY <3>1
  <2>2. wl_buffer[j] = IF j < fpos THEN file[j + 1] ELSE 0
    BY <1>2 DEF UdpInv, LoadInv, LoadIsPrefix
  <2> QED BY <1>3, <2>1, <2>2
<1>8. total_ops = wl.total
  <2>1. total_ops = wl_buffer[1]
    BY DEF UdpInv, ReplayInv, Replaying
  <2>2. 2 \in 1 .. Len(file) /\ 2 - 1 = 1
    BY <1>3, <1>4, <1>5
  <2> QED BY <1>4, <1>7, <2>1, <2>2
<1>9. ops + 1 \in 1 .. Len(wl.pkgs)
  BY <1>1, <1>2, <1>5, <1>8
<1> DEFINE k == ops + 1
           p == wl.pkgs[k]
           e == Encode(p)
<1>10. k - 1 = ops
  BY <1>1
<1>11. /\ p \in Request /\ e \in Seq(Nat) /\ Begins[ops] \in Nat
       /\ Begins[k] = Begins[ops] + Len(e) /\ 2 + Begins[k] <= Len(Complete)
       /\ \A j \in 1 .. Len(e) : Complete[2 + Begins[ops] + j] = e[j]
  <2> HIDE DEF k
  <2>1. k \in 1 .. Len(wl.pkgs)
    BY <1>9 DEF k
  <2>2. /\ p \in Request /\ e \in Seq(Nat) /\ Begins[k - 1] \in Nat
        /\ Begins[k] = Begins[k - 1] + Len(e) /\ 2 + Begins[k] <= Len(Complete)
        /\ \A j \in 1 .. Len(e) : Complete[2 + Begins[k - 1] + j] = e[j]
    BY <1>1, <2>1, CompleteIs
  <2> QED BY <1>10, <2>2
<1>12. wl_pos = 2 + Begins[ops]
  BY DEF UdpInv, ReplayInv, Replaying
<1> HIDE DEF e, p
<1>13. PICK a \in Nat, l \in Nat, m \in Nat :
          /\ a = wl_pos /\ l = Len(e) /\ m = Len(file)
          /\ a + l = 2 + Begins[k] /\ a + l <= m /\ m <= MAX_FILE_SIZE
  <2>1. PICK b \in Nat, l \in Nat : b = Begins[ops] /\ l = Len(e)
    BY <1>11, LenProperties
  <2>2. (2 + b) + l = 2 + (b + l)
    OBVIOUS
  <2>3. wl_pos + Len(e) = 2 + Begins[k]
    BY <1>11, <1>12, <2>1, <2>2, Zenon
  <2>4. wl_pos + Len(e) <= Len(file)
    BY <1>3, <1>11, <2>3
  <2> QED BY <1>1, <1>2, <1>5, <2>1, <2>3, <2>4
<1>14. Holds(wl_buffer, wl_pos, e)
  <2>1. ASSUME NEW j \in 1 .. l PROVE wl_buffer[a + j - 1] = e[j]
    <3>1. a + j \in 1 .. m
      BY <1>13
    <3>2. wl_buffer[a + j - 1] = Complete[a + j]
      BY <1>7, <1>13, <3>1
    <3>3. Complete[a + j] = e[j]
      BY <1>11, <1>12, <1>13
    <3> QED BY <3>2, <3>3
  <2> QED BY <1>13, <2>1, Zenon DEF Holds
<1> DEFINE size == Wrap(wl_size + SizeMax + 1 - wl_pos)
<1>15. size = m - a
  <2>1. m - a \in 0 .. SizeMax /\ wl_size + SizeMax + 1 - wl_pos = (m - a) + SizeMax + 1
    BY <1>1, <1>6, <1>13
  <2> QED BY <2>1, WrapSmall
<1>16. NextPackage = from_bytes(wl_buffer, wl_pos, size)
  BY DEF NextPackage
<1> HIDE DEF size
<1>17. size \in Nat /\ Len(e) <= size /\ wl_pos + Len(e) <= MAX_FILE_SIZE
  <2>1. m - a \in Nat /\ l <= m - a /\ a + l <= MAX_FILE_SIZE
    BY <1>1, <1>13
  <2> QED BY <1>13, <1>15, <2>1, Zenon
<1>18. from_bytes(wl_buffer, wl_pos, size) =
         [size |-> Len(Encode(p)), op |-> p.op, kvs |-> p.kvs, fault |-> FALSE]
  <2>1. /\ MAX_FILE_SIZE \in Nat /\ wl_buffer \in [0 .. MAX_FILE_SIZE - 1 -> Nat]
        /\ wl_pos \in Nat /\ size \in Nat /\ p \in Request
        /\ Holds(wl_buffer, wl_pos, Encode(p)) /\ wl_pos + Len(Encode(p)) <= MAX_FILE_SIZE
        /\ Len(Encode(p)) <= size
    <3>1. MAX_FILE_SIZE \in Nat /\ wl_buffer \in [0 .. MAX_FILE_SIZE - 1 -> Nat] /\ wl_pos \in Nat
      BY ReplayAssumption DEF UdpInv, TypeOK
    <3>2. size \in Nat /\ Len(e) <= size /\ wl_pos + Len(e) <= MAX_FILE_SIZE
          /\ Holds(wl_buffer, wl_pos, e) /\ p \in Request
      BY <1>11, <1>14, <1>17, Zenon
    <3> QED BY <3>1, <3>2, Zenon DEF e
  <2> QED BY <2>1, RoundTrip
<1>19. wl_pos + Len(Encode(p)) = 2 + Begins[k]
  BY <1>13 DEF e
<1> QED BY <1>9, <1>16, <1>18, <1>19 DEF p

\* A workload does not become sound again.
LEMMA SoundKept ==
  ASSUME UdpInv, Next, Sound'
  PROVE  Sound /\ UNCHANGED <<wl, file>>
<1>1. errors \in Nat
  BY DEF UdpInv, TypeOK
<1>2. UNCHANGED <<wl, file>> /\ (errors' = errors \/ errors' = errors + 1)
  BY DEF Next, Open, Load, LoadError, Loaded, ReadWords, OpenDB, reset, Stop, Receive, ReceiveFault,
         Execute, SendHeader, SendChunk, SendError, Responded, PrintStats, fileVars
<1>3. errors' = 0
  BY DEF Sound
<1>4. errors = 0
  BY <1>1, <1>2, <1>3
<1> QED BY <1>2, <1>4 DEF Sound

LEMMA ReplayStep ==
  ASSUME UdpInv, Next
  PROVE  ReplayInv'
<1>1. /\ ops \in Nat /\ wl_pos \in Nat
      /\ log \in Seq([size : Nat, op : Nat, kvs : Seq(Pair)]) /\ Len(log) \in Nat
  BY LenProperties DEF UdpInv, TypeOK
<1>2. ReplayInv /\ TypeOK /\ AnswerInv
  BY DEF UdpInv
<1>3. ASSUME UNCHANGED wl PROVE Begins' = Begins
  BY <1>3 DEF Begins, Encoded
<1>4. CASE Receive
  <2>1. /\ pc = "receive" /\ ops < total_ops /\ ops' = ops + 1 /\ pc' = "execute"
        /\ wl_pos' = wl_pos + NextPackage.size /\ log' = Append(log, AsLogged(NextPackage))
        /\ UNCHANGED <<wl, file, fpos, errors, wl_buffer, wl_size, total_ops>>
    BY <1>4 DEF Receive, fileVars, wlVars
  <2>2. AsLogged(NextPackage) \in [size : Nat, op : Nat, kvs : Seq(Pair)]
    BY <1>2, NextPackageIs
  <2>3. /\ Len(log') = Len(log) + 1 /\ log'[Len(log) + 1] = AsLogged(NextPackage)
        /\ \A k \in 1 .. Len(log) : log'[k] = log[k]
    BY <1>1, <2>1, <2>2, AppendProperties
  <2>4. Len(log) = ops /\ total_ops = wl_buffer[1]
    BY <1>2, <2>1 DEF ReplayInv, Replaying
  <2>5. Len(log') = ops'
    BY <2>1, <2>3, <2>4
  <2>6. ASSUME Sound'
        PROVE  /\ wl_pos' = 2 + Begins'[ops']
               /\ \A k \in 1 .. Len(log') :
                    log'[k] = [size |-> Len(Encode(wl.pkgs[k])), op |-> wl.pkgs[k].op,
                               kvs |-> wl.pkgs[k].kvs]
    <3>1. Sound
      BY <2>6, SoundKept
    <3> DEFINE p == wl.pkgs[ops + 1]
    <3>2. /\ NextPackage = [size |-> Len(Encode(p)), op |-> p.op, kvs |-> p.kvs, fault |-> FALSE]
          /\ wl_pos + Len(Encode(p)) = 2 + Begins[ops + 1]
      BY <2>1, <3>1, SoundPackage
    <3>3. wl_pos' = 2 + Begins'[ops']
      BY <1>3, <2>1, <3>2
    <3>4. AsLogged(NextPackage) = [size |-> Len(Encode(p)), op |-> p.op, kvs |-> p.kvs]
      BY <3>2 DEF AsLogged
    <3>5. ASSUME NEW k \in 1 .. Len(log')
          PROVE  log'[k] = [size |-> Len(Encode(wl.pkgs[k])), op |-> wl.pkgs[k].op,
                            kvs |-> wl.pkgs[k].kvs]
      <4>1. CASE k = ops + 1
        BY <2>3, <2>4, <3>4, <4>1
      <4>2. CASE k # ops + 1
        <5>1. k \in 1 .. Len(log)
          BY <1>1, <2>3, <2>4, <4>2
        <5>2. log[k] = [size |-> Len(Encode(wl.pkgs[k])), op |-> wl.pkgs[k].op,
                        kvs |-> wl.pkgs[k].kvs]
          BY <1>2, <3>1, <5>1 DEF ReplayInv, ReplayIsExact
        <5> QED BY <2>3, <5>1, <5>2
      <4> QED BY <4>1, <4>2
    <3> QED BY <3>3, <3>5
  <2> QED BY <2>1, <2>4, <2>5, <2>6 DEF ReplayInv, ReplayIsExact
<1>5. CASE ReceiveFault
  <2>1. pc = "receive" /\ ops < total_ops /\ NextPackage.fault /\ pc' = "fault"
        /\ UNCHANGED <<ops, log>>
    BY <1>5 DEF ReceiveFault
  <2>2. ~Sound
    BY <2>1, SoundPackage
  <2>3. ~Sound'
    BY <2>2, SoundKept
  <2> QED BY <1>2, <2>1, <2>3 DEF ReplayInv, ReplayIsExact, Replaying
<1>6. CASE ReadWords
  <2>1. /\ total_ops' = wl_buffer'[1] /\ pc' = "opendb" /\ UNCHANGED <<ops, log, wl>>
    BY <1>6 DEF ReadWords, wlVars, fileVars
  <2>2. Sound' => Sound
    BY SoundKept
  <2> QED BY <1>2, <2>1, <2>2 DEF ReplayInv, ReplayIsExact, Replaying
<1>7. CASE reset
  <2>1. /\ pc = "reset" /\ pc' = "receive" /\ ops' = 0 /\ wl_pos' = 2
        /\ UNCHANGED <<wl, wl_buffer, total_ops, log>>
    BY <1>7 DEF reset, wlVars, fileVars
  <2>2. log = <<>> /\ Len(log) = 0 /\ total_ops = wl_buffer[1]
    BY <1>2, <2>1, EmptySeq DEF AnswerInv, ReplayInv, Starting
  <2>3. Begins'[0] = 0
    BY <1>2, <1>3, <2>1, CompleteIs DEF TypeOK
  <2> QED BY <2>1, <2>2, <2>3 DEF ReplayInv, ReplayIsExact
<1>8. CASE Load \/ LoadError
  <2>1. pc = "load" /\ pc' = "load" /\ UNCHANGED <<wl, ops, log>>
    BY <1>8 DEF Load, LoadError
  <2>2. Sound' => Sound
    BY SoundKept
  <2> QED BY <1>2, <2>1, <2>2 DEF ReplayInv, ReplayIsExact, Replaying
<1>9. CASE Open \/ Loaded \/ OpenDB \/ Stop \/ Execute \/ SendHeader \/ SendChunk \/ SendError
           \/ Responded \/ PrintStats
  <2>1. /\ UNCHANGED <<wl, file, errors, wl_buffer, wl_pos, ops, total_ops, log>> /\ pc' # "fault"
        /\ pc' \in {"opendb", "reset"} \cup Replaying => pc \in {"opendb", "reset"} \cup Replaying
        /\ pc' \in Replaying => pc \in Replaying
    BY <1>9 DEF Open, Loaded, OpenDB, Stop, Execute, SendHeader, SendChunk, SendError, Responded,
                PrintStats, fileVars, wlVars, Replaying
  <2>2. Sound' => Sound
    BY SoundKept
  <2>3. Begins' = Begins
    BY <1>3, <2>1
  <2> QED BY <1>2, <2>1, <2>2, <2>3 DEF ReplayInv, ReplayIsExact
<1> QED BY <1>4, <1>5, <1>6, <1>7, <1>8, <1>9 DEF Next

-----------------------------------------------------------------------------
LEMMA UdpInit == Init => UdpInv
<1> SUFFICES ASSUME Init PROVE UdpInv
  OBVIOUS
<1>1. /\ wl \in Workloads /\ fpos = 0 /\ errors = 0 /\ wl_pos = 0 /\ wl_size = 0 /\ ops = 0
      /\ wl_buffer = [j \in 0 .. MAX_FILE_SIZE - 1 |-> 0]
      /\ total_ops = 0 /\ pc = "open" /\ bytes = 0 /\ out = <<>> /\ opcounter = 0 /\ log = <<>>
  BY DEF Init
<1>2. FileInv
  BY DEF Init, FileInv
<1>3. file \in Seq(Nat) /\ Len(file) \in Nat
  BY <1>1, <1>2, FileIs, LenProperties
<1>4. SizeMax \in Nat /\ MAX_FILE_SIZE \in Nat /\ MaxErrors \in Nat
  BY ReplayAssumption
<1>5. /\ <<>> \in Seq([total : Nat, body : Nat]) /\ Len(<<>>) = 0
      /\ <<>> \in Seq([size : Nat, op : Nat, kvs : Seq(Pair)])
  BY EmptySeq
<1>6. TypeOK
  BY <1>1, <1>3, <1>4, <1>5 DEF TypeOK
<1>7. LoadInv
  <2>1. 0 \in 0 .. SizeMax /\ 0 + SizeMax + 1 - 0 = 0 + SizeMax + 1
    BY <1>4
  <2>2. Wrap(0 + SizeMax + 1 - 0) = 0
    BY <2>1, WrapSmall
  <2>3. wl_size = Wrap(fpos + SizeMax + 1 - errors)
    BY <1>1, <2>2, Zenon
  <2>4. \A j \in 0 .. MAX_FILE_SIZE - 1 : wl_buffer[j] = IF j < fpos THEN file[j + 1] ELSE 0
    BY <1>1
  <2> QED BY <1>1, <1>4, <2>3, <2>4 DEF LoadInv, LoadIsPrefix, Replaying
<1>8. AnswerInv
  BY <1>1 DEF AnswerInv, AllOrError
<1>9. ReplayInv
  BY <1>1, <1>5 DEF ReplayInv, ReplayIsExact, Replaying
<1> QED BY <1>2, <1>6, <1>7, <1>8, <1>9 DEF UdpInv

LEMMA UdpStep == UdpInv /\ [Next]_vars => UdpInv'
<1> SUFFICES ASSUME UdpInv, [Next]_vars PROVE UdpInv'
  OBVIOUS
<1>1. CASE Next
  <2>1. UNCHANGED <<wl, file>>
    BY <1>1 DEF Next, Open, Load, LoadError, Loaded, ReadWords, OpenDB, reset, Stop, Receive,
                ReceiveFault, Execute, SendHeader, SendChunk, SendError, Responded, PrintStats, fileVars
  <2>2. FileInv'
    BY <2>1 DEF UdpInv, FileInv, Complete
  <2> QED BY <1>1, <2>2, UdpTypeStep, LoadStep, AnswerStep, ReplayStep DEF UdpInv
<1>2. CASE UNCHANGED vars
  <2>1. /\ UNCHANGED <<wl, file, fpos, errors>> /\ UNCHANGED <<wl_buffer, wl_size>>
        /\ UNCHANGED <<wl_pos, ops, total_ops, pc>> /\ UNCHANGED <<bytes, out, opcounter, log>>
    BY <1>2 DEF vars, fileVars, wlVars, sendVars
  <2>2. TypeOK'
    BY <2>1 DEF UdpInv, TypeOK
  <2>3. FileInv'
    BY <2>1 DEF UdpInv, FileInv, Complete
  <2>4. LoadInv'
    BY <2>1 DEF UdpInv, LoadInv, LoadIsPrefix
  <2>5. AnswerInv'
    BY <2>1 DEF UdpInv, AnswerInv, AllSent, AllOrError
  <2>6. ReplayInv'
    <3>1. Begins' = Begins
      BY <2>1 DEF Begins, Encoded
    <3>2. Sound' <=> Sound
      BY <2>1 DEF Sound
    <3>3. ReplayIsExact'
      BY <2>1, <3>2 DEF UdpInv, ReplayInv, ReplayIsExact
    <3> QED BY <2>1, <3>1, <3>2, <3>3 DEF UdpInv, ReplayInv
  <2> QED BY <2>2, <2>3, <2>4, <2>5, <2>6 DEF UdpInv
<1> QED BY <1>1, <1>2

LEMMA UdpInvariant == Spec => []UdpInv
BY UdpInit, UdpStep, PTL DEF Spec

\* UdpTypeCorrect: every variable keeps its type; in particular no more operations are
\* answered than counted, and no more counted than the second word of the buffer says.
THEOREM UdpTypeCorrect == Spec => []TypeOK
<1>1. UdpInv => TypeOK
  BY DEF UdpInv
<1> QED BY <1>1, UdpInvariant, PTL

\* LoadIsPrefixCorrect: what the constructor leaves in wl_buffer and wl_size, for a file, a
\* buffer and pieces of any size and any number of failed reads, size_t arithmetic included.
THEOREM LoadIsPrefixCorrect == Spec => []LoadIsPrefix
<1>1. UdpInv => LoadIsPrefix
  BY DEF UdpInv, LoadInv
<1> QED BY <1>1, UdpInvariant, PTL

\* AllOrErrorCorrect: when the loop of main ends, the number of operations and the answers
\* fit together, for any results of execute() and any size of the chunks.
THEOREM AllOrErrorCorrect == Spec => []AllOrError
<1>1. UdpInv => AllOrError
  BY DEF UdpInv, AnswerInv
<1> QED BY <1>1, UdpInvariant, PTL

\* ReplayIsExactCorrect: any workload that is sound is replayed exactly as it was written,
\* and from_bytes() stays within the buffer.
THEOREM ReplayIsExactCorrect == Spec => []ReplayIsExact
<1>1. UdpInv => ReplayIsExact
  BY DEF UdpInv, ReplayInv
<1> QED BY <1>1, UdpInvariant, PTL

\* OverrunCorrect: receive() takes wl_pos past wl_size by no more than a header, and only
\* for a package without pairs, whatever the bytes in the buffer are.
THEOREM OverrunCorrect == Spec => OverrunNeedsNoPairs
<1>1. ASSUME UdpInv, [Next]_vars, wl_pos <= wl_size, wl_pos' > wl_size, pc = "receive"
      PROVE  log'[Len(log')].kvs = <<>> /\ wl_pos' - wl_size <= HdrLen
  <2>1. /\ wl_pos \in Nat /\ wl_size \in 0 .. SizeMax /\ SizeMax \in Nat
        /\ log \in Seq([size : Nat, op : Nat, kvs : Seq(Pair)]) /\ Len(log) \in Nat
    <3>1. /\ wl_pos \in Nat /\ wl_size \in 0 .. SizeMax /\ SizeMax \in Nat
          /\ log \in Seq([size : Nat, op : Nat, kvs : Seq(Pair)])
      BY <1>1, ReplayAssumption DEF UdpInv, TypeOK
    <3> QED BY <3>1, LenProperties
  <2>2. Receive
    <3>1. wl_pos' # wl_pos
      BY <1>1, <2>1
    <3> QED BY <1>1, <3>1 DEF vars, Next, Open, Load, LoadError, Loaded, ReadWords, OpenDB, reset, Stop,
              ReceiveFault, Execute, SendHeader, SendChunk, SendError, Responded, PrintStats
  <2> DEFINE r == NextPackage
  <2>3. wl_pos' = wl_pos + r.size /\ log' = Append(log, AsLogged(r))
    BY <2>2 DEF Receive
  <2>4. /\ r.size \in Nat /\ AsLogged(r) \in [size : Nat, op : Nat, kvs : Seq(Pair)]
        /\ \/ r.size <= Wrap(wl_size + SizeMax + 1 - wl_pos)
           \/ r.size = HdrLen /\ r.kvs = <<>>
    BY <1>1, NextPackageIs DEF UdpInv
  <2>5. AsLogged(r).kvs = r.kvs
    BY DEF AsLogged
  <2> HIDE DEF r
  <2>6. Wrap(wl_size + SizeMax + 1 - wl_pos) = wl_size - wl_pos
    <3>1. wl_size - wl_pos \in 0 .. SizeMax
          /\ wl_size + SizeMax + 1 - wl_pos = (wl_size - wl_pos) + SizeMax + 1
      BY <1>1, <2>1
    <3> QED BY <3>1, WrapSmall
  <2>7. r.size = HdrLen /\ r.kvs = <<>>
    BY <1>1, <2>1, <2>3, <2>4, <2>6
  <2>8. log'[Len(log')] = AsLogged(r)
    <3>1. Len(log') = Len(log) + 1 /\ log'[Len(log) + 1] = AsLogged(r)
      BY <2>1, <2>3, <2>4, AppendProperties
    <3> QED BY <3>1
  <2>9. wl_pos' - wl_size <= HdrLen
    BY <1>1, <2>1, <2>3, <2>7 DEF HdrLen
  <2> QED BY <2>5, <2>7, <2>8, <2>9
<1> QED BY <1>1, UdpInvariant, PTL DEF Spec, OverrunNeedsNoPairs
=============================================================================
