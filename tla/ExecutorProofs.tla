---------------------------- MODULE ExecutorProofs ----------------------------
(***************************************************************************)
(* The executor of ycsbserver implements the store of records, for all     *)
(* keys, fields, values and packages; its scans find what they should and  *)
(* abort only for a key that is no long long.                              *)
(***************************************************************************)
EXTENDS LevelDBExecutor, SequenceTheorems, FiniteSetTheorems, WellFoundedInduction, TLAPS

-----------------------------------------------------------------------------
(* Induction, for sets of numbers. *)

\* Every set of numbers has a least one.
LEMMA LeastNumber ==
  ASSUME NEW T, T \subseteq Nat, T # {}
  PROVE  \E z \in T : \A m \in T : z <= m
<1> DEFINE Below == OpToRel(<, Nat)
<1>1. IsWellFoundedOn(Below, Nat)
  BY NatLessThanWellFounded
<1>2. \A x, y \in Nat : x < y => <<x, y>> \in Below
  BY SMT DEF OpToRel
<1> HIDE DEF Below
<1>3. PICK z \in T : \A m \in T : ~(<<m, z>> \in Below)
  BY <1>1, WFMin
<1>4. \A m \in T : ~(m < z)
  BY <1>2, <1>3
<1>5. ASSUME NEW m \in T PROVE z <= m
  <2>1. m \in Nat /\ z \in Nat /\ ~(m < z)
    BY <1>4
  <2> QED BY <2>1
<1> QED BY <1>5

\* A set that holds a number whenever it holds all smaller ones holds all numbers.
LEMMA StrongInduction ==
  ASSUME NEW S, \A z \in Nat : (\A m \in Nat : m < z => m \in S) => z \in S
  PROVE  Nat \subseteq S
<1> DEFINE T == Nat \ S
<1> SUFFICES ASSUME T # {} PROVE FALSE
  OBVIOUS
<1>1. PICK z \in T : \A m \in T : z <= m
  BY LeastNumber
<1>2. \A m \in Nat : m < z => m \in S
  BY <1>1
<1> QED BY <1>1, <1>2

LEMMA StepInduction ==
  ASSUME NEW S, 0 \in S, \A z \in Nat : z \in S => z + 1 \in S
  PROVE  Nat \subseteq S
<1>1. ASSUME NEW z \in Nat, \A m \in Nat : m < z => m \in S PROVE z \in S
  <2>1. CASE z = 0
    BY <2>1
  <2>2. CASE z # 0
    <3>1. z - 1 \in Nat /\ z - 1 < z /\ (z - 1) + 1 = z
      BY <2>2
    <3>2. z - 1 \in S
      BY <1>1, <3>1
    <3>3. (z - 1) + 1 \in S
      BY <3>1, <3>2
    <3> QED BY <3>1, <3>3
  <2> QED BY <2>1, <2>2
<1> QED BY <1>1, StrongInduction

\* A loop of l rounds: step g of round p, begun with x.
Loop(T, x, g, l, f) ==
  f \in [0 .. l -> T] /\ f[0] = x /\ \A p \in 1 .. l : f[p] = g[p][f[p - 1]]

LEMMA LoopExists ==
  ASSUME NEW T, NEW x \in T, NEW l \in Nat, NEW g \in [1 .. l -> [T -> T]]
  PROVE  \E f : Loop(T, x, g, l, f)
<1> DEFINE S == {m \in Nat : m <= l => \E f : Loop(T, x, g, m, f)}
<1>1. 0 \in S
  <2>1. Loop(T, x, g, 0, [p \in 0 .. 0 |-> x])
    BY DEF Loop
  <2> QED BY <2>1
<1>2. ASSUME NEW m \in Nat, m \in S PROVE m + 1 \in S
  <2> SUFFICES ASSUME m + 1 <= l PROVE \E f : Loop(T, x, g, m + 1, f)
    OBVIOUS
  <2>1. PICK f : Loop(T, x, g, m, f)
    BY <1>2
  <2>2. f \in [0 .. m -> T] /\ f[m] \in T /\ m + 1 \in 1 .. l
    BY <2>1 DEF Loop
  <2>3. g[m + 1][f[m]] \in T
    BY <2>2
  <2> DEFINE h == [p \in 0 .. m + 1 |-> IF p <= m THEN f[p] ELSE g[m + 1][f[m]]]
  <2>4. h \in [0 .. m + 1 -> T]
    BY <2>2, <2>3
  <2>5. h[0] = x
    BY <2>1 DEF Loop
  <2>6. ASSUME NEW p \in 1 .. m + 1 PROVE h[p] = g[p][h[p - 1]]
    <3>1. CASE p <= m
      <4>1. p \in 1 .. m /\ h[p] = f[p] /\ h[p - 1] = f[p - 1]
        BY <3>1
      <4> QED BY <2>1, <4>1 DEF Loop
    <3>2. CASE ~(p <= m)
      <4>1. p = m + 1 /\ p - 1 = m
        BY <3>2
      <4>2. h[p] = g[m + 1][f[m]] /\ h[p - 1] = f[m]
        BY <4>1
      <4> QED BY <4>1, <4>2
    <3> QED BY <3>1, <3>2
  <2> HIDE DEF h
  <2>7. Loop(T, x, g, m + 1, h)
    BY <2>4, <2>5, <2>6 DEF Loop
  <2> QED BY <2>7
<1> HIDE DEF S
<1>3. l \in S
  BY <1>1, <1>2, StepInduction
<1> QED BY <1>3 DEF S

-----------------------------------------------------------------------------
(* Numbers in decimal. *)

Digits == 0 .. 9
Written(k, g) == g[k] = IF k < 10 THEN <<k>> ELSE Append(g[k \div 10], k % 10)

LEMMA Tenth ==
  ASSUME NEW k \in Nat
  PROVE  /\ k \div 10 \in Nat /\ k % 10 \in Digits /\ k = 10 * (k \div 10) + (k % 10)
         /\ k >= 10 => k \div 10 < k
  BY DEF Digits

\* The first numbers, as Decimal writes them.
WrittenTo(z, g) == g \in [0 .. z -> Seq(Digits)] /\ \A k \in 0 .. z : Written(k, g)

LEMMA WrittenExists == ASSUME NEW z \in Nat PROVE \E g : WrittenTo(z, g)
<1> DEFINE S == {m \in Nat : \E g : WrittenTo(m, g)}
<1>1. 0 \in S
  <2> DEFINE g == [k \in 0 .. 0 |-> <<0>>]
  <2>1. g \in [0 .. 0 -> Seq(Digits)]
    BY DEF Digits
  <2>2. \A k \in 0 .. 0 : Written(k, g)
    BY DEF Written
  <2>3. WrittenTo(0, g)
    BY <2>1, <2>2 DEF WrittenTo
  <2> QED BY <2>3
<1>2. ASSUME NEW m \in Nat, m \in S PROVE m + 1 \in S
  <2>0. PICK g : WrittenTo(m, g)
    BY <1>2
  <2>1. g \in [0 .. m -> Seq(Digits)] /\ \A k \in 0 .. m : Written(k, g)
    BY <2>0 DEF WrittenTo
  <2> DEFINE e == IF m + 1 < 10 THEN <<m + 1>> ELSE Append(g[(m + 1) \div 10], (m + 1) % 10)
             h == [k \in 0 .. m + 1 |-> IF k <= m THEN g[k] ELSE e]
  <2>2. e \in Seq(Digits)
    <3>1. CASE m + 1 < 10
      <4>1. m + 1 \in Digits
        BY <3>1 DEF Digits
      <4>2. <<m + 1>> \in Seq(Digits)
        BY <4>1
      <4> QED BY <3>1, <4>2
    <3>2. CASE ~(m + 1 < 10)
      <4>1. (m + 1) \div 10 \in 0 .. m /\ (m + 1) % 10 \in Digits
        BY <3>2, Tenth
      <4>2. Append(g[(m + 1) \div 10], (m + 1) % 10) \in Seq(Digits)
        BY <2>1, <4>1, AppendProperties
      <4> QED BY <3>2, <4>2
    <3> QED BY <3>1, <3>2
  <2> HIDE DEF e
  <2>3. h \in [0 .. m + 1 -> Seq(Digits)] /\ \A k \in 0 .. m : h[k] = g[k]
    BY <2>1, <2>2
  <2>4. h[m + 1] = e
    OBVIOUS
  <2> HIDE DEF h
  <2>5. ASSUME NEW k \in 0 .. m + 1 PROVE Written(k, h)
    <3>1. CASE k \in 0 .. m /\ k < 10
      BY <2>1, <2>3, <3>1 DEF Written
    <3>2. CASE k \in 0 .. m /\ ~(k < 10)
      <4>1. k \div 10 \in 0 .. m
        BY <3>2, Tenth
      <4> QED BY <2>1, <2>3, <3>2, <4>1 DEF Written
    <3>3. CASE k = m + 1
      <4>1. ~(k < 10) => k \div 10 \in 0 .. m
        BY <3>3, Tenth
      <4> QED BY <2>3, <2>4, <3>3, <4>1 DEF Written, e
    <3> QED BY <3>1, <3>2, <3>3
  <2>6. WrittenTo(m + 1, h)
    BY <2>3, <2>5 DEF WrittenTo
  <2> QED BY <2>6
<1> HIDE DEF S
<1>3. z \in S
  BY <1>1, <1>2, StepInduction
<1> QED BY <1>3 DEF S

LEMMA WrittenOnce ==
  ASSUME NEW z \in Nat, NEW m \in Nat, NEW g, NEW h, WrittenTo(z, g), WrittenTo(m, h)
  PROVE  \A k \in Nat : k <= z /\ k <= m => g[k] = h[k]
<1> DEFINE S == {k \in Nat : k <= z /\ k <= m => g[k] = h[k]}
<1>1. ASSUME NEW k \in Nat, \A j \in Nat : j < k => j \in S PROVE k \in S
  <2> SUFFICES ASSUME k <= z, k <= m PROVE g[k] = h[k]
    OBVIOUS
  <2>1. Written(k, g) /\ Written(k, h)
    BY DEF WrittenTo
  <2>2. CASE k < 10
    BY <2>1, <2>2 DEF Written
  <2>3. CASE ~(k < 10)
    <3>1. k \div 10 \in Nat /\ k \div 10 < k /\ k \div 10 <= z /\ k \div 10 <= m
      BY <2>3, Tenth
    <3>2. g[k \div 10] = h[k \div 10]
      BY <1>1, <3>1
    <3> QED BY <2>1, <2>3, <3>2 DEF Written
  <2> QED BY <2>2, <2>3
<1> HIDE DEF S
<1>2. Nat \subseteq S
  BY <1>1, StrongInduction
<1> QED BY <1>2 DEF S

LEMMA DecimalIs ==
  ASSUME NEW k \in Nat
  PROVE  Decimal[k] \in Seq(Digits) /\ Written(k, Decimal)
<1> DEFINE part(z) == CHOOSE g : WrittenTo(z, g)
           solves(f) == f = [j \in Nat |-> IF j < 10 THEN <<j>> ELSE Append(f[j \div 10], j % 10)]
           f0 == [j \in Nat |-> part(j)[j]]
<1>1. \A z \in Nat : WrittenTo(z, part(z))
  BY WrittenExists
<1> HIDE DEF part
<1>2. \A z \in Nat : f0[z] = part(z)[z]
  OBVIOUS
<1>3. f0 = [j \in Nat |-> f0[j]]
  OBVIOUS
<1> HIDE DEF f0
<1>4. ASSUME NEW z \in Nat PROVE Written(z, f0) /\ f0[z] \in Seq(Digits)
  <2>1. WrittenTo(z, part(z)) /\ z \in 0 .. z
    BY <1>1
  <2>2. f0[z] \in Seq(Digits) /\ Written(z, part(z))
    BY <1>2, <2>1 DEF WrittenTo
  <2>3. CASE z < 10
    BY <1>2, <2>2, <2>3 DEF Written
  <2>4. CASE ~(z < 10)
    <3>1. z \div 10 \in Nat /\ z \div 10 <= z /\ z \div 10 <= z \div 10
      BY <2>4, Tenth
    <3>2. WrittenTo(z \div 10, part(z \div 10))
      BY <1>1, <3>1
    <3>3. part(z)[z \div 10] = part(z \div 10)[z \div 10]
      BY <2>1, <3>1, <3>2, WrittenOnce
    <3> QED BY <1>2, <2>2, <2>4, <3>1, <3>3 DEF Written
  <2> QED BY <2>3, <2>4, <2>2
<1>5. \A z \in Nat : f0[z] = IF z < 10 THEN <<z>> ELSE Append(f0[z \div 10], z % 10)
  BY <1>4, Zenon DEF Written
<1>6. solves(f0)
  BY <1>3, <1>5, Zenon
<1>7. Decimal = CHOOSE f : solves(f)
  BY DEF Decimal
<1>8. solves(Decimal)
  BY <1>6, <1>7, Zenon
<1>9. \A z \in Nat : Written(z, Decimal)
  BY <1>8, Zenon DEF Written
<1> DEFINE S == {z \in Nat : Decimal[z] \in Seq(Digits)}
<1>10. ASSUME NEW z \in Nat, \A m \in Nat : m < z => m \in S PROVE z \in S
  <2>1. Written(z, Decimal)
    BY <1>9
  <2>2. CASE z < 10
    <3>1. <<z>> \in Seq(Digits)
      <4>1. z \in Digits
        BY <2>2 DEF Digits
      <4> QED BY <4>1
    <3> QED BY <2>1, <2>2, <3>1 DEF Written
  <2>3. CASE ~(z < 10)
    <3>1. z \div 10 \in Nat /\ z \div 10 < z /\ z % 10 \in Digits
      BY <2>3, Tenth
    <3>2. Append(Decimal[z \div 10], z % 10) \in Seq(Digits)
      BY <1>10, <3>1, AppendProperties
    <3> QED BY <2>1, <2>3, <3>2 DEF Written
  <2> QED BY <2>2, <2>3
<1> HIDE DEF S
<1>11. Nat \subseteq S
  BY <1>10, StrongInduction
<1> QED BY <1>9, <1>11 DEF S

\* What Number has read after each digit.
Reads(s, f) == f \in [0 .. Len(s) -> Nat] /\ f[0] = 0 /\ \A p \in 1 .. Len(s) : f[p] = 10 * f[p - 1] + s[p]

LEMMA ReadsExists == ASSUME NEW s \in Seq(Nat) PROVE \E f : Reads(s, f)
<1> DEFINE l == Len(s)
           g == [p \in 1 .. l |-> [x \in Nat |-> 10 * x + s[p]]]
<1>1. l \in Nat
  BY LenProperties
<1>2. \A p \in 1 .. l : s[p] \in Nat
  BY ElementOfSeq
<1>3. \A p \in 1 .. l : g[p] \in [Nat -> Nat] /\ \A x \in Nat : g[p][x] = 10 * x + s[p]
  BY <1>2
<1>4. g \in [1 .. l -> [Nat -> Nat]]
  BY <1>3
<1> HIDE DEF g, l
<1>5. PICK f : Loop(Nat, 0, g, l, f)
  BY <1>1, <1>4, LoopExists
<1>6. ASSUME NEW p \in 1 .. l PROVE f[p] = 10 * f[p - 1] + s[p]
  <2>1. p - 1 \in 0 .. l
    BY <1>1
  <2>2. f[p - 1] \in Nat /\ f[p] = g[p][f[p - 1]]
    BY <1>5, <2>1 DEF Loop
  <2> QED BY <1>3, <2>2
<1>7. Reads(s, f)
  BY <1>5, <1>6 DEF Reads, Loop, l
<1> QED BY <1>7

LEMMA NumberIs == ASSUME NEW s \in Seq(Nat) PROVE \E f : Reads(s, f) /\ Number(s) = f[Len(s)]
<1> DEFINE solves(f) == f = [p \in 0 .. Len(s) |-> IF p = 0 THEN 0 ELSE 10 * f[p - 1] + s[p]]
           c == CHOOSE f : solves(f)
<1>0. Len(s) \in Nat
  BY LenProperties
<1>1. PICK f : Reads(s, f)
  BY ReadsExists
<1>2. \A p \in 0 .. Len(s) : f[p] = IF p = 0 THEN 0 ELSE 10 * f[p - 1] + s[p]
  BY <1>0, <1>1 DEF Reads
<1>3. f = [p \in 0 .. Len(s) |-> f[p]]
  BY <1>1 DEF Reads
<1>4. solves(f)
  BY <1>2, <1>3, Zenon
<1>5. solves(c)
  BY <1>4, Zenon
<1>6. Number(s) = c[Len(s)]
  BY DEF Number
<1> HIDE DEF c
<1>7. \A p \in 0 .. Len(s) : c[p] = IF p = 0 THEN 0 ELSE 10 * c[p - 1] + s[p]
  BY <1>5, Zenon
<1>8. c = [p \in 0 .. Len(s) |-> c[p]]
  BY <1>5, <1>7, Zenon
<1>9. \A p \in 0 .. Len(s) : c[p] = f[p]
  <2> DEFINE S == {p \in Nat : p <= Len(s) => c[p] = f[p]}
  <2>1. 0 \in S
    BY <1>0, <1>2, <1>7
  <2>2. ASSUME NEW p \in Nat, p \in S PROVE p + 1 \in S
    <3> SUFFICES ASSUME p + 1 <= Len(s) PROVE c[p + 1] = f[p + 1]
      OBVIOUS
    <3>1. p + 1 \in 0 .. Len(s) /\ p + 1 # 0 /\ (p + 1) - 1 = p /\ p <= Len(s)
      BY <1>0
    <3> QED BY <1>2, <1>7, <2>2, <3>1
  <2> HIDE DEF S
  <2>3. Nat \subseteq S
    BY <2>1, <2>2, StepInduction
  <2> QED BY <1>0, <2>3 DEF S
<1>10. Number(s) = f[Len(s)]
  BY <1>0, <1>6, <1>9
<1> QED BY <1>1, <1>10

LEMMA NumberAppend ==
  ASSUME NEW s \in Seq(Nat), NEW d \in Nat
  PROVE  Number(Append(s, d)) = 10 * Number(s) + d /\ Number(s) \in Nat
<1> DEFINE t == Append(s, d)
<1>1. /\ t \in Seq(Nat) /\ Len(t) = Len(s) + 1 /\ t[Len(s) + 1] = d
      /\ \A p \in 1 .. Len(s) : t[p] = s[p]
  BY AppendProperties
<1>2. Len(s) \in Nat
  BY LenProperties
<1> HIDE DEF t
<1>3. PICK f : Reads(s, f) /\ Number(s) = f[Len(s)]
  BY NumberIs
<1>4. PICK h : Reads(t, h) /\ Number(t) = h[Len(t)]
  BY <1>1, NumberIs
<1> DEFINE S == {p \in Nat : p <= Len(s) => h[p] = f[p]}
<1>5. 0 \in S
  BY <1>3, <1>4 DEF Reads
<1>6. ASSUME NEW p \in Nat, p \in S PROVE p + 1 \in S
  <2> SUFFICES ASSUME p + 1 <= Len(s) PROVE h[p + 1] = f[p + 1]
    OBVIOUS
  <2>1. p + 1 \in 1 .. Len(s) /\ p + 1 \in 1 .. Len(t) /\ (p + 1) - 1 = p /\ p <= Len(s)
    BY <1>1, <1>2
  <2>2. f[p + 1] = 10 * f[p] + s[p + 1] /\ h[p + 1] = 10 * h[p] + t[p + 1]
    BY <1>3, <1>4, <2>1 DEF Reads
  <2> QED BY <1>1, <1>6, <2>1, <2>2
<1> HIDE DEF S
<1>7. Nat \subseteq S
  BY <1>5, <1>6, StepInduction
<1>8. h[Len(s)] = f[Len(s)]
  BY <1>2, <1>7 DEF S
<1>9. Len(s) + 1 \in 1 .. Len(t) /\ (Len(s) + 1) - 1 = Len(s)
  BY <1>1, <1>2
<1>10. h[Len(s) + 1] = 10 * h[Len(s)] + t[Len(s) + 1]
  BY <1>4, <1>9 DEF Reads
<1>11. Number(t) = 10 * Number(s) + d
  BY <1>1, <1>3, <1>4, <1>8, <1>10
<1>12. Number(s) \in Nat
  BY <1>2, <1>3 DEF Reads
<1> QED BY <1>11, <1>12 DEF t

\* Reading what was written gives the number back.
LEMMA NumberOfDecimal == ASSUME NEW k \in Nat PROVE Number(Decimal[k]) = k
<1> DEFINE S == {z \in Nat : Number(Decimal[z]) = z}
<1>1. ASSUME NEW z \in Nat, \A m \in Nat : m < z => m \in S PROVE z \in S
  <2>1. Written(z, Decimal)
    BY DecimalIs
  <2>2. CASE z < 10
    <3>1. Decimal[z] = <<z>> /\ <<z>> \in Seq(Nat) /\ Len(<<z>>) = 1 /\ <<z>>[1] = z
      BY <2>1, <2>2 DEF Written
    <3>2. PICK f : Reads(<<z>>, f) /\ Number(<<z>>) = f[Len(<<z>>)]
      BY <3>1, NumberIs
    <3>3. f[0] = 0 /\ f[1] = 10 * f[1 - 1] + z
      BY <3>1, <3>2 DEF Reads
    <3>4. f[1] = z
      BY <3>3
    <3> QED BY <3>1, <3>2, <3>4
  <2>3. CASE ~(z < 10)
    <3>1. z \div 10 \in Nat /\ z \div 10 < z /\ z % 10 \in Nat /\ z = 10 * (z \div 10) + (z % 10)
      BY <2>3, Tenth DEF Digits
    <3>2. Decimal[z] = Append(Decimal[z \div 10], z % 10)
      BY <2>1, <2>3 DEF Written
    <3>3. Decimal[z \div 10] \in Seq(Nat)
      <4>1. Decimal[z \div 10] \in Seq(Digits)
        BY <3>1, DecimalIs
      <4> QED BY <4>1 DEF Digits
    <3>4. Number(Decimal[z]) = 10 * Number(Decimal[z \div 10]) + (z % 10)
      BY <3>1, <3>2, <3>3, NumberAppend
    <3>5. Number(Decimal[z \div 10]) = z \div 10
      BY <1>1, <3>1
    <3> QED BY <3>1, <3>4, <3>5
  <2> QED BY <2>2, <2>3
<1> HIDE DEF S
<1>2. Nat \subseteq S
  BY <1>1, StrongInduction
<1> QED BY <1>2 DEF S

-----------------------------------------------------------------------------
(* Records as strings. *)

Strings == Seq(Int)
\* Where field f of record k is kept.
At(k, f) == pack_key(k, <<f>>, FieldPrefix)

LEMMA DecimalString ==
  ASSUME NEW k \in Nat
  PROVE  /\ Decimal[k] \in Strings /\ Len(Decimal[k]) \in Nat
         /\ \A p \in 1 .. Len(Decimal[k]) : Decimal[k][p] \in 0 .. 9
<1>1. Decimal[k] \in Seq(Digits)
  BY DecimalIs
<1>2. Decimal[k] \in Seq(Int)
  BY <1>1 DEF Digits
<1>3. \A p \in 1 .. Len(Decimal[k]) : Decimal[k][p] \in Digits
  BY <1>1, ElementOfSeq
<1> QED BY <1>1, <1>2, <1>3, LenProperties DEF Digits, Strings

Flat(s, l, k, f) ==
  /\ s \in Strings /\ l \in Nat /\ Len(s) = l + 3 /\ DOMAIN s = 1 .. l + 3
  /\ \A p \in 1 .. l : s[p] = Decimal[k][p]
  /\ s[l + 1] = Slash /\ s[l + 2] = Letters /\ s[l + 3] = f

LEMMA AtIs ==
  ASSUME NEW k \in Nat, NEW f \in 0 .. 9
  PROVE  Flat(At(k, f), Len(Decimal[k]), k, f)
<1> DEFINE d == Decimal[k]
           l == Len(d)
           s == At(k, f)
<1>1. d \in Seq(Int) /\ l \in Nat
  BY DecimalString DEF Strings
<1> HIDE DEF d
<1>2. s = ((d \o <<Slash>>) \o <<Letters>>) \o <<f>>
  BY DEF At, pack_key, FieldPrefix, d
<1>3. <<Slash>> \in Seq(Int) /\ <<Letters>> \in Seq(Int) /\ <<f>> \in Seq(Int)
  BY DEF Slash, Letters
<1>4. /\ d \o <<Slash>> \in Seq(Int) /\ Len(d \o <<Slash>>) = l + 1
      /\ \A p \in 1 .. l : (d \o <<Slash>>)[p] = d[p]
      /\ (d \o <<Slash>>)[l + 1] = Slash
  BY <1>1, <1>3
<1> DEFINE d1 == d \o <<Slash>>
<1> HIDE DEF d1
<1>5. d1 \in Seq(Int) /\ Len(d1) = l + 1 /\ (\A p \in 1 .. l : d1[p] = d[p]) /\ d1[l + 1] = Slash
  BY <1>4 DEF d1
<1> DEFINE d2 == d1 \o <<Letters>>
<1>6. /\ d2 \in Seq(Int) /\ Len(d2) = l + 2 /\ (\A p \in 1 .. l + 1 : d2[p] = d1[p])
      /\ d2[l + 2] = Letters
  BY <1>1, <1>3, <1>5
<1>7. s = d2 \o <<f>>
  BY <1>2 DEF d2, d1
<1> HIDE DEF d2, s
<1>8. /\ s \in Seq(Int) /\ Len(s) = l + 3 /\ (\A p \in 1 .. l + 2 : s[p] = d2[p])
      /\ s[l + 3] = f
  BY <1>1, <1>3, <1>6, <1>7
<1>9. \A p \in 1 .. l : s[p] = d[p]
  BY <1>1, <1>5, <1>6, <1>8
<1>10. s[l + 1] = Slash /\ s[l + 2] = Letters
  <2>1. l + 1 \in 1 .. l + 1 /\ l + 1 \in 1 .. l + 2 /\ l + 2 \in 1 .. l + 2
    BY <1>1
  <2> QED BY <1>5, <1>6, <1>8, <2>1
<1>11. DOMAIN s = 1 .. l + 3
  BY <1>8
<1> QED BY <1>1, <1>8, <1>9, <1>10, <1>11 DEF s, d, Strings, Flat

LEMMA SlashOfAt ==
  ASSUME NEW k \in Nat, NEW f \in 0 .. 9
  PROVE  SlashAt(At(k, f)) = Len(Decimal[k]) + 1
<1> DEFINE s == At(k, f)
           l == Len(Decimal[k])
<1>0. Flat(s, l, k, f) /\ \A p \in 1 .. l : Decimal[k][p] \in 0 .. 9
  BY AtIs, DecimalString
<1> HIDE DEF s, l
<1>1. /\ l \in Nat /\ DOMAIN s = 1 .. l + 3 /\ s[l + 1] = Slash
      /\ \A p \in 1 .. l : s[p] # Slash
  BY <1>0 DEF Slash, Flat
<1>2. l + 1 \in DOMAIN s /\ s[l + 1] = Slash /\ \A q \in 1 .. (l + 1) - 1 : s[q] # Slash
  BY <1>1
<1>3. ASSUME NEW p \in DOMAIN s, s[p] = Slash, \A q \in 1 .. p - 1 : s[q] # Slash
      PROVE  p = l + 1
  BY <1>1, <1>3
<1>4. SlashAt(s) = l + 1
  BY <1>2, <1>3 DEF SlashAt
<1> QED BY <1>4 DEF s, l

\* unpack_key gives back what pack_key put together, stream_key keeps the slash.
LEMMA Unpacked ==
  ASSUME NEW k \in Nat, NEW f \in 0 .. 9
  PROVE  /\ KeyOf(At(k, f)) = k
         /\ unpack_key(At(k, f)) = [key |-> k, field |-> <<Letters, f>>]
         /\ stream_key(At(k, f)) = [key |-> k, field |-> <<Slash, Letters, f>>]
<1> DEFINE s == At(k, f)
           l == Len(Decimal[k])
<1>1. /\ s \in Seq(Int) /\ Len(s) = l + 3 /\ l \in Nat
      /\ \A p \in 1 .. l : s[p] = Decimal[k][p]
      /\ s[l + 1] = Slash /\ s[l + 2] = Letters /\ s[l + 3] = f
  BY AtIs DEF Strings, Flat
<1>2. SlashAt(s) = l + 1
  BY SlashOfAt
<1>3. Decimal[k] \in Seq(Int)
  BY DecimalString DEF Strings
<1> HIDE DEF s
<1>4. SubSeq(s, 1, l) = Decimal[k]
  <2>1. SubSeq(s, 1, l) \in Seq(Int) /\ Len(SubSeq(s, 1, l)) = l
    BY <1>1
  <2>2. \A p \in 1 .. l : SubSeq(s, 1, l)[p] = Decimal[k][p]
    BY <1>1
  <2> QED BY <1>3, <2>1, <2>2, SeqEqual
<1>5. KeyOf(s) = k
  <2>1. SlashAt(s) - 1 = l
    BY <1>1, <1>2
  <2> QED BY <1>4, <2>1, NumberOfDecimal DEF KeyOf
<1>6. SubSeq(s, (l + 1) + 1, l + 3) = <<Letters, f>>
  <2> DEFINE t == SubSeq(s, (l + 1) + 1, l + 3)
  <2>1. t \in Seq(Int) /\ Len(t) = 2 /\ t[1] = Letters /\ t[2] = f
    BY <1>1
  <2> HIDE DEF t
  <2>2. t = <<Letters, f>>
    BY <2>1
  <2> QED BY <2>2 DEF t
<1>7. SubSeq(s, l + 1, l + 3) = <<Slash, Letters, f>>
  <2> DEFINE t == SubSeq(s, l + 1, l + 3)
  <2>1. t \in Seq(Int) /\ Len(t) = 3 /\ t[1] = Slash /\ t[2] = Letters /\ t[3] = f
    BY <1>1
  <2> HIDE DEF t
  <2>2. t = <<Slash, Letters, f>>
    BY <2>1
  <2> QED BY <2>2 DEF t
<1>8. unpack_key(s) = [key |-> k, field |-> <<Letters, f>>]
  BY <1>1, <1>2, <1>5, <1>6 DEF unpack_key
<1>9. stream_key(s) = [key |-> k, field |-> <<Slash, Letters, f>>]
  BY <1>1, <1>2, <1>5, <1>7 DEF stream_key
<1> QED BY <1>5, <1>8, <1>9 DEF s

LEMMA AtInjective ==
  ASSUME NEW k \in Nat, NEW f \in 0 .. 9, NEW j \in Nat, NEW g \in 0 .. 9, At(k, f) = At(j, g)
  PROVE  k = j /\ f = g
<1>1. k = j
  BY Unpacked
<1>2. Flat(At(k, f), Len(Decimal[k]), k, f) /\ Flat(At(j, g), Len(Decimal[j]), j, g)
  BY AtIs
<1> QED BY <1>1, <1>2 DEF Flat

-----------------------------------------------------------------------------
(* The order of strings. *)

LEMMA LessIrreflexive == ASSUME NEW s \in Strings PROVE ~StringLess(s, s)
<1>1. \A p \in DOMAIN s : s[p] \in Int
  BY DEF Strings
<1> QED BY <1>1 DEF StringLess

LEMMA LessTransitive ==
  ASSUME NEW s \in Strings, NEW t \in Strings, NEW u \in Strings,
         StringLess(s, t), StringLess(t, u)
  PROVE  StringLess(s, u)
<1>1. /\ DOMAIN s = 1 .. Len(s) /\ DOMAIN t = 1 .. Len(t) /\ DOMAIN u = 1 .. Len(u)
      /\ Len(s) \in Nat /\ Len(t) \in Nat /\ Len(u) \in Nat
      /\ \A p \in DOMAIN s : s[p] \in Int
      /\ \A p \in DOMAIN t : t[p] \in Int
      /\ \A p \in DOMAIN u : u[p] \in Int
  BY DEF Strings
<1>2. PICK a \in DOMAIN t : /\ \A q \in 1 .. a - 1 : q \in DOMAIN s /\ s[q] = t[q]
                            /\ a \in DOMAIN s => s[a] < t[a]
  BY DEF StringLess
<1>3. PICK b \in DOMAIN u : /\ \A q \in 1 .. b - 1 : q \in DOMAIN t /\ t[q] = u[q]
                            /\ b \in DOMAIN t => t[b] < u[b]
  BY DEF StringLess
<1>4. a \in Nat /\ b \in Nat /\ a >= 1 /\ b >= 1
  BY <1>1
<1>5. CASE a < b
  <2>1. a \in 1 .. b - 1 /\ a \in DOMAIN u
    BY <1>1, <1>4, <1>5
  <2>2. \A q \in 1 .. a - 1 : q \in DOMAIN s /\ s[q] = u[q]
    BY <1>2, <1>3, <1>4, <1>5
  <2>3. a \in DOMAIN s => s[a] < u[a]
    BY <1>2, <1>3, <2>1
  <2> QED BY <2>1, <2>2, <2>3 DEF StringLess
<1>6. CASE b < a
  <2>1. b \in 1 .. a - 1 /\ b \in DOMAIN t
    BY <1>1, <1>4, <1>6
  <2>2. \A q \in 1 .. b - 1 : q \in DOMAIN s /\ s[q] = u[q]
    BY <1>2, <1>3, <1>4, <1>6
  <2>3. s[b] < u[b]
    BY <1>2, <1>3, <2>1
  <2> QED BY <2>2, <2>3 DEF StringLess
<1>7. CASE a = b
  <2>1. \A q \in 1 .. a - 1 : q \in DOMAIN s /\ s[q] = u[q]
    BY <1>2, <1>3, <1>7
  <2>2. a \in DOMAIN s => s[a] < u[a]
    BY <1>1, <1>2, <1>3, <1>7
  <2> QED BY <1>7, <2>1, <2>2 DEF StringLess
<1> QED BY <1>4, <1>5, <1>6, <1>7

LEMMA LessTotal ==
  ASSUME NEW s \in Strings, NEW t \in Strings, s # t
  PROVE  StringLess(s, t) \/ StringLess(t, s)
<1>1. /\ DOMAIN s = 1 .. Len(s) /\ DOMAIN t = 1 .. Len(t)
      /\ Len(s) \in Nat /\ Len(t) \in Nat
      /\ \A p \in DOMAIN s : s[p] \in Int
      /\ \A p \in DOMAIN t : t[p] \in Int
  BY DEF Strings
<1> DEFINE D == {p \in DOMAIN s \cup DOMAIN t : ~(p \in DOMAIN s /\ p \in DOMAIN t /\ s[p] = t[p])}
<1>2. D \subseteq Nat
  BY <1>1
<1>3. D # {}
  <2> SUFFICES ASSUME D = {} PROVE FALSE
    OBVIOUS
  <2>1. \A p \in DOMAIN s : p \in DOMAIN t /\ s[p] = t[p]
    OBVIOUS
  <2>2. \A p \in DOMAIN t : p \in DOMAIN s
    OBVIOUS
  <2> HIDE DEF D
  <2>3. Len(s) = Len(t)
    <3>1. 1 .. Len(s) \subseteq 1 .. Len(t) /\ 1 .. Len(t) \subseteq 1 .. Len(s)
      BY <1>1, <2>1, <2>2
    <3>2. Len(s) >= 1 => Len(s) \in 1 .. Len(t)
      BY <1>1, <3>1
    <3>3. Len(t) >= 1 => Len(t) \in 1 .. Len(s)
      BY <1>1, <3>1
    <3>4. \A a, b \in Nat : (a >= 1 => a \in 1 .. b) /\ (b >= 1 => b \in 1 .. a) => a = b
      OBVIOUS
    <3>5. Len(s) \in Nat /\ Len(t) \in Nat
      BY <1>1
    <3> QED BY <3>2, <3>3, <3>4, <3>5, Zenon
  <2>4. s = t
    BY <1>1, <2>1, <2>3, SeqEqual DEF Strings
  <2> QED BY <2>4
<1>4. PICK a \in D : \A m \in D : a <= m
  BY <1>2, <1>3, LeastNumber
<1>5. \A q \in 1 .. a - 1 : q \in DOMAIN s /\ q \in DOMAIN t /\ s[q] = t[q]
  <2> SUFFICES ASSUME NEW q \in 1 .. a - 1 PROVE q \in DOMAIN s /\ q \in DOMAIN t /\ s[q] = t[q]
    OBVIOUS
  <2>1. a \in Nat /\ q \in Nat /\ q < a /\ (a \in DOMAIN s \/ a \in DOMAIN t)
    BY <1>2, <1>4
  <2>2. q \notin D
    BY <1>4, <2>1
  <2>3. q \in DOMAIN s \cup DOMAIN t
    BY <1>1, <2>1
  <2> QED BY <2>2, <2>3
<1>6. CASE a \in DOMAIN s /\ a \in DOMAIN t
  BY <1>1, <1>4, <1>5, <1>6 DEF StringLess
<1>7. CASE a \in DOMAIN t /\ a \notin DOMAIN s
  BY <1>5, <1>7 DEF StringLess
<1>8. CASE a \in DOMAIN s /\ a \notin DOMAIN t
  BY <1>5, <1>8 DEF StringLess
<1> QED BY <1>4, <1>6, <1>7, <1>8

\* The fields of one record come in the order of their names.
LEMMA AtLess ==
  ASSUME NEW k \in Nat, NEW f \in 0 .. 9, NEW g \in 0 .. 9
  PROVE  StringLess(At(k, f), At(k, g)) <=> f < g
<1> DEFINE s == At(k, f)
           t == At(k, g)
           l == Len(Decimal[k])
<1>1. Flat(s, l, k, f) /\ Flat(t, l, k, g) /\ l \in Nat
  BY AtIs, DecimalString
<1> HIDE DEF s, t, l
<1>2. /\ DOMAIN s = 1 .. l + 3 /\ DOMAIN t = 1 .. l + 3
      /\ s[l + 3] = f /\ t[l + 3] = g /\ s[l + 2] = t[l + 2] /\ s[l + 1] = t[l + 1]
      /\ \A p \in 1 .. l : s[p] = t[p]
  BY <1>1 DEF Flat
<1>3. \A p \in 1 .. l + 2 : s[p] = t[p]
  BY <1>1, <1>2
<1>4. s \in Strings /\ t \in Strings
  BY <1>1 DEF Flat
<1>5. ASSUME f < g PROVE StringLess(s, t)
  <2>1. l + 3 \in DOMAIN t /\ (l + 3) - 1 = l + 2
    BY <1>1, <1>2
  <2>2. \A q \in 1 .. (l + 3) - 1 : q \in DOMAIN s /\ s[q] = t[q]
    BY <1>1, <1>2, <1>3, <2>1
  <2>3. s[l + 3] < t[l + 3]
    BY <1>2, <1>5
  <2> QED BY <2>1, <2>2, <2>3 DEF StringLess
<1>6. ASSUME StringLess(s, t) PROVE f < g
  <2>1. PICK p \in DOMAIN t : p \in DOMAIN s => s[p] < t[p]
    BY <1>6 DEF StringLess
  <2>2. p \in 1 .. l + 3 /\ s[p] < t[p]
    BY <1>2, <2>1
  <2>3. CASE p \in 1 .. l + 2
    <3>1. s[p] = t[p]
      BY <1>3, <2>3
    <3>2. s[p] \in Int
      <4>1. p \in 1 .. Len(s)
        BY <1>1, <2>2 DEF Flat
      <4> QED BY <1>4, <4>1, ElementOfSeq DEF Strings
    <3> QED BY <2>2, <3>1, <3>2
  <2>4. CASE p = l + 3
    BY <1>2, <2>2, <2>4
  <2> QED BY <1>1, <2>2, <2>3, <2>4
<1> QED BY <1>5, <1>6 DEF s, t

-----------------------------------------------------------------------------
(* The elements of a finite set, by their rank in an order. *)

Less(R, S, x) == {y \in S : <<y, x>> \in R}
Ordered(R, S) ==
  /\ \A x \in S : ~(<<x, x>> \in R)
  /\ \A x, y \in S : x # y => <<x, y>> \in R \/ <<y, x>> \in R
  /\ \A x, y, z \in S : <<x, y>> \in R /\ <<y, z>> \in R => <<x, z>> \in R

LEMMA RankGrows ==
  ASSUME NEW S, IsFiniteSet(S), NEW R, Ordered(R, S), NEW x \in S, NEW y \in S, <<x, y>> \in R
  PROVE  /\ Cardinality(Less(R, S, x)) \in Nat /\ Cardinality(Less(R, S, y)) \in Nat
         /\ Cardinality(Less(R, S, x)) < Cardinality(Less(R, S, y))
<1> DEFINE X == Less(R, S, x)
           Y == Less(R, S, y)
<1>1. X \in SUBSET S /\ Y \in SUBSET S
  BY DEF Less
<1>2. X \in SUBSET Y /\ x \in Y /\ x \notin X
  BY DEF Less, Ordered
<1>3. IsFiniteSet(Y) /\ IsFiniteSet(X)
  BY <1>1, FS_Subset
<1> HIDE DEF X, Y
<1>4. Cardinality(X) \in Nat /\ Cardinality(Y) \in Nat
  BY <1>3, FS_CardinalityType
<1>5. Cardinality(X) <= Cardinality(Y) /\ (Cardinality(Y) = Cardinality(X) => Y = X)
  BY <1>2, <1>3, FS_Subset
<1> QED BY <1>2, <1>4, <1>5 DEF X, Y

LEMMA RankOnce ==
  ASSUME NEW S, IsFiniteSet(S), NEW R, Ordered(R, S), NEW x \in S, NEW y \in S,
         Cardinality(Less(R, S, x)) = Cardinality(Less(R, S, y))
  PROVE  x = y
<1> SUFFICES ASSUME x # y PROVE FALSE
  OBVIOUS
<1>1. CASE <<x, y>> \in R
  BY <1>1, RankGrows
<1>2. CASE <<y, x>> \in R
  BY <1>2, RankGrows
<1> QED BY <1>1, <1>2 DEF Ordered

LEMMA RankExists ==
  ASSUME NEW S, IsFiniteSet(S), NEW R, Ordered(R, S), NEW p \in 1 .. Cardinality(S)
  PROVE  \E x \in S : Cardinality(Less(R, S, x)) = p - 1
<1> DEFINE l == Cardinality(S)
           r == [x \in S |-> Cardinality(Less(R, S, x))]
<1>1. l \in Nat
  BY FS_CardinalityType
<1>2. ASSUME NEW x \in S PROVE Cardinality(Less(R, S, x)) \in 0 .. l - 1
  <2>1. Less(R, S, x) \in SUBSET S /\ x \notin Less(R, S, x)
    BY DEF Less, Ordered
  <2>2. IsFiniteSet(Less(R, S, x)) /\ Cardinality(Less(R, S, x)) <= l /\ Cardinality(Less(R, S, x)) # l
    BY <2>1, FS_Subset
  <2>3. Cardinality(Less(R, S, x)) \in Nat
    BY <2>2, FS_CardinalityType
  <2> QED BY <1>1, <2>2, <2>3
<1>3. r \in [S -> 0 .. l - 1]
  BY <1>2
<1>4. r \in Injection(S, 0 .. l - 1)
  BY <1>3, RankOnce DEF Injection, IsInjective
<1> HIDE DEF r
<1>5. IsFiniteSet(0 .. l - 1) /\ Cardinality(0 .. l - 1) = l
  <2>1. 0 \in Int /\ l - 1 \in Int
    BY <1>1
  <2>2. /\ IsFiniteSet(0 .. l - 1)
        /\ Cardinality(0 .. l - 1) = IF 0 > l - 1 THEN 0 ELSE l - 1 - 0 + 1
    BY <2>1, FS_Interval
  <2> HIDE DEF l
  <2>3. (IF 0 > l - 1 THEN 0 ELSE l - 1 - 0 + 1) = l
    BY <1>1
  <2> QED BY <2>2, <2>3
<1>6. r \in Surjection(S, 0 .. l - 1)
  BY <1>4, <1>5, FS_Injection
<1>7. p - 1 \in 0 .. l - 1
  BY <1>1
<1>8. \E x \in S : r[x] = p - 1
  BY <1>6, <1>7 DEF Surjection
<1> QED BY <1>8 DEF r

\* The elements of S in the order R.
Listed(R, S) == [p \in 1 .. Cardinality(S) |-> CHOOSE x \in S : Cardinality(Less(R, S, x)) = p - 1]
IsList(R, S, f) ==
  /\ f \in [1 .. Cardinality(S) -> S]
  /\ \A p \in 1 .. Cardinality(S) : Cardinality(Less(R, S, f[p])) = p - 1
  /\ \A x \in S : \E p \in 1 .. Cardinality(S) : f[p] = x
  /\ \A p, q \in 1 .. Cardinality(S) : p < q <=> <<f[p], f[q]>> \in R

LEMMA ListedIs ==
  ASSUME NEW S, IsFiniteSet(S), NEW R, Ordered(R, S)
  PROVE  IsList(R, S, Listed(R, S))
<1> DEFINE l == Cardinality(S)
           f == Listed(R, S)
<1>1. l \in Nat
  BY FS_CardinalityType
<1>2. ASSUME NEW p \in 1 .. l PROVE f[p] \in S /\ Cardinality(Less(R, S, f[p])) = p - 1
  <2>1. \E x \in S : Cardinality(Less(R, S, x)) = p - 1
    BY RankExists
  <2>2. f[p] = CHOOSE x \in S : Cardinality(Less(R, S, x)) = p - 1
    BY DEF Listed
  <2> QED BY <2>1, <2>2, Zenon
<1>3. f \in [1 .. l -> S]
  BY <1>2 DEF Listed
<1> HIDE DEF f
<1>4. ASSUME NEW x \in S PROVE \E p \in 1 .. l : f[p] = x
  <2> DEFINE c == Cardinality(Less(R, S, x))
  <2>1. Less(R, S, x) \in SUBSET S /\ x \notin Less(R, S, x)
    BY DEF Less, Ordered
  <2>2. IsFiniteSet(Less(R, S, x)) /\ c <= l /\ c # l
    BY <2>1, FS_Subset
  <2>3. c \in Nat
    BY <2>2, FS_CardinalityType
  <2>4. c + 1 \in 1 .. l /\ (c + 1) - 1 = c
    BY <1>1, <2>2, <2>3
  <2>5. f[c + 1] \in S /\ Cardinality(Less(R, S, f[c + 1])) = c
    BY <1>2, <2>4
  <2>6. f[c + 1] = x
    BY <2>5, RankOnce
  <2> QED BY <2>4, <2>6
<1>5. ASSUME NEW p \in 1 .. l, NEW q \in 1 .. l PROVE p < q <=> <<f[p], f[q]>> \in R
  <2>1. /\ f[p] \in S /\ f[q] \in S /\ p \in Nat /\ q \in Nat
        /\ Cardinality(Less(R, S, f[p])) = p - 1 /\ Cardinality(Less(R, S, f[q])) = q - 1
    BY <1>1, <1>2
  <2>2. ASSUME <<f[p], f[q]>> \in R PROVE p < q
    <3>1. p - 1 < q - 1
      BY <2>1, <2>2, RankGrows
    <3> QED BY <2>1, <3>1
  <2>3. ASSUME p < q PROVE <<f[p], f[q]>> \in R
    <3>1. f[p] # f[q]
      BY <2>1, <2>3
    <3>2. CASE <<f[q], f[p]>> \in R
      <4>1. q - 1 < p - 1
        BY <2>1, <3>2, RankGrows
      <4> QED BY <2>1, <2>3, <4>1
    <3> QED BY <2>1, <3>1, <3>2 DEF Ordered
  <2> QED BY <2>2, <2>3
<1> QED BY <1>2, <1>3, <1>4, <1>5 DEF IsList, f

StringOrder == {z \in Strings \X Strings : StringLess(z[1], z[2])}
NumberOrder == {z \in Int \X Int : z[1] < z[2]}

LEMMA StringOrdered == ASSUME NEW S, S \subseteq Strings PROVE Ordered(StringOrder, S)
<1>1. \A x, y \in S : <<x, y>> \in StringOrder <=> StringLess(x, y)
  BY DEF StringOrder
<1>2. \A x \in S : ~(<<x, x>> \in StringOrder)
  BY <1>1, LessIrreflexive
<1>3. \A x, y \in S : x # y => <<x, y>> \in StringOrder \/ <<y, x>> \in StringOrder
  BY <1>1, LessTotal
<1>4. \A x, y, z \in S : <<x, y>> \in StringOrder /\ <<y, z>> \in StringOrder => <<x, z>> \in StringOrder
  BY <1>1, LessTransitive
<1> QED BY <1>2, <1>3, <1>4 DEF Ordered

LEMMA NumberOrdered == ASSUME NEW S, S \subseteq Int PROVE Ordered(NumberOrder, S)
  BY DEF Ordered, NumberOrder

LEMMA IteratorIs ==
  ASSUME NEW S, S \subseteq Strings, IsFiniteSet(S)
  PROVE  IsList(StringOrder, S, Iterator(S))
<1>1. ASSUME NEW x \in S PROVE {t \in S : StringLess(t, x)} = Less(StringOrder, S, x)
  BY DEF Less, StringOrder
<1>2. Iterator(S) = [p \in 1 .. Cardinality(S) |->
                       CHOOSE x \in S : Cardinality({t \in S : StringLess(t, x)}) = p - 1]
  BY DEF Iterator
<1>3. ASSUME NEW p \in 1 .. Cardinality(S)
      PROVE  (CHOOSE x \in S : Cardinality({t \in S : StringLess(t, x)}) = p - 1)
               = CHOOSE x \in S : Cardinality(Less(StringOrder, S, x)) = p - 1
  BY <1>1
<1>4. Iterator(S) = Listed(StringOrder, S)
  BY <1>2, <1>3 DEF Listed
<1> QED BY <1>4, StringOrdered, ListedIs

LEMMA AscendingIs ==
  ASSUME NEW S, S \subseteq Int, IsFiniteSet(S)
  PROVE  IsList(NumberOrder, S, Ascending(S))
<1>1. ASSUME NEW x \in S PROVE {t \in S : t < x} = Less(NumberOrder, S, x)
  BY DEF Less, NumberOrder
<1>2. Ascending(S) = [p \in 1 .. Cardinality(S) |->
                       CHOOSE x \in S : Cardinality({t \in S : t < x}) = p - 1]
  BY DEF Ascending
<1>3. ASSUME NEW p \in 1 .. Cardinality(S)
      PROVE  (CHOOSE x \in S : Cardinality({t \in S : t < x}) = p - 1)
               = CHOOSE x \in S : Cardinality(Less(NumberOrder, S, x)) = p - 1
  BY <1>1
<1>4. Ascending(S) = Listed(NumberOrder, S)
  BY <1>2, <1>3 DEF Listed
<1> QED BY <1>4, NumberOrdered, ListedIs

\* Two sets whose orders correspond are listed alike.
Alike(R, S, Q, T, h) ==
  /\ IsFiniteSet(S) /\ Ordered(R, S) /\ IsFiniteSet(T) /\ Ordered(Q, T)
  /\ h \in [T -> S]
  /\ \A x \in S : \E y \in T : h[y] = x
  /\ \A x, y \in T : <<x, y>> \in Q <=> <<h[x], h[y]>> \in R

LEMMA SameList ==
  ASSUME NEW S, NEW R, NEW T, NEW Q, NEW h, Alike(R, S, Q, T, h),
         NEW f, IsList(R, S, f), NEW g, IsList(Q, T, g)
  PROVE  Cardinality(S) = Cardinality(T) /\ \A p \in 1 .. Cardinality(S) : f[p] = h[g[p]]
<1> USE DEF Alike
<1>1. \A x, y \in T : h[x] = h[y] => x = y
  <2> SUFFICES ASSUME NEW x \in T, NEW y \in T, h[x] = h[y], x # y PROVE FALSE
    OBVIOUS
  <2>1. <<x, y>> \in Q \/ <<y, x>> \in Q
    BY DEF Ordered
  <2>2. <<h[x], h[x]>> \in R
    BY <2>1
  <2> QED BY <2>2 DEF Ordered
<1>2. h \in Bijection(T, S)
  BY <1>1 DEF Bijection, Injection, Surjection, IsInjective
<1>3. Cardinality(S) = Cardinality(T)
  BY <1>2, FS_Bijection DEF ExistsBijection
<1>4. ASSUME NEW y \in T PROVE Cardinality(Less(R, S, h[y])) = Cardinality(Less(Q, T, y))
  <2> DEFINE A == Less(Q, T, y)
             B == Less(R, S, h[y])
             i == [x \in A |-> h[x]]
  <2>1. IsFiniteSet(A)
    <3>1. A \in SUBSET T
      BY DEF Less
    <3> QED BY <3>1, FS_Subset
  <2>2. i \in [A -> B]
    BY DEF Less
  <2>3. \A x \in B : \E z \in A : i[z] = x
    BY DEF Less
  <2>4. \A x, z \in A : i[x] = i[z] => x = z
    BY <1>1 DEF Less
  <2> HIDE DEF A, B, i
  <2>5. i \in Bijection(A, B)
    BY <2>2, <2>3, <2>4 DEF Bijection, Injection, Surjection, IsInjective
  <2>6. Cardinality(B) = Cardinality(A)
    BY <2>1, <2>5, FS_Bijection DEF ExistsBijection
  <2> QED BY <2>6 DEF A, B
<1>5. ASSUME NEW p \in 1 .. Cardinality(S) PROVE f[p] = h[g[p]]
  <2>1. f[p] \in S /\ Cardinality(Less(R, S, f[p])) = p - 1
    BY DEF IsList
  <2>2. g[p] \in T /\ Cardinality(Less(Q, T, g[p])) = p - 1
    BY <1>3 DEF IsList
  <2>3. h[g[p]] \in S /\ Cardinality(Less(R, S, h[g[p]])) = p - 1
    BY <1>4, <2>2
  <2> QED BY <2>1, <2>3, RankOnce
<1> QED BY <1>3, <1>5

\* The entries of one record, as the iterator comes by them.
LEMMA RecordListed ==
  ASSUME NEW k \in Nat, NEW F, F \subseteq 0 .. 9
  PROVE  LET S == {At(k, f) : f \in F}
         IN /\ Cardinality(S) = Cardinality(F)
            /\ \A p \in 1 .. Cardinality(F) : Ascending(F)[p] \in F /\ Iterator(S)[p] = At(k, Ascending(F)[p])
            /\ DOMAIN Iterator(S) = DOMAIN Ascending(F)
<1> DEFINE S == {At(k, f) : f \in F}
           h == [f \in F |-> At(k, f)]
<1>1. IsFiniteSet(F) /\ F \subseteq Int
  <2>1. IsFiniteSet(0 .. 9)
    <3>1. 0 \in Int /\ 9 \in Int
      OBVIOUS
    <3> QED BY <3>1, FS_Interval, Zenon
  <2>2. F \in SUBSET (0 .. 9) /\ F \subseteq Int
    OBVIOUS
  <2> QED BY <2>1, <2>2, FS_Subset, Zenon
<1>2. S \subseteq Strings
  BY AtIs DEF Flat
<1>3. h \in [F -> S] /\ \A x \in S : \E y \in F : h[y] = x
  OBVIOUS
<1>4. IsFiniteSet(S)
  <2>1. h \in Surjection(F, S)
    BY <1>3 DEF Surjection
  <2> HIDE DEF S, h
  <2> QED BY <1>1, <2>1, FS_Surjection
<1>5. \A x, y \in F : <<x, y>> \in NumberOrder <=> <<h[x], h[y]>> \in StringOrder
  <2> SUFFICES ASSUME NEW x \in F, NEW y \in F
               PROVE  <<x, y>> \in NumberOrder <=> <<h[x], h[y]>> \in StringOrder
    OBVIOUS
  <2>1. x \in 0 .. 9 /\ y \in 0 .. 9 /\ h[x] = At(k, x) /\ h[y] = At(k, y)
    OBVIOUS
  <2>2. <<x, y>> \in NumberOrder <=> x < y
    BY <2>1 DEF NumberOrder
  <2>3. At(k, x) \in Strings /\ At(k, y) \in Strings
    BY <2>1, AtIs DEF Flat
  <2>4. <<At(k, x), At(k, y)>> \in StringOrder <=> StringLess(At(k, x), At(k, y))
    BY <2>3 DEF StringOrder
  <2> QED BY <2>1, <2>2, <2>4, AtLess
<1>6. Ordered(StringOrder, S) /\ IsList(StringOrder, S, Iterator(S))
  BY <1>2, <1>4, StringOrdered, IteratorIs
<1>7. Ordered(NumberOrder, F) /\ IsList(NumberOrder, F, Ascending(F))
  BY <1>1, NumberOrdered, AscendingIs
<1> HIDE DEF S, h
<1>8. /\ Cardinality(S) = Cardinality(F)
      /\ \A p \in 1 .. Cardinality(S) : Iterator(S)[p] = h[Ascending(F)[p]]
  <2>1. Alike(StringOrder, S, NumberOrder, F, h)
    BY <1>1, <1>3, <1>4, <1>5, <1>6, <1>7 DEF Alike
  <2> DEFINE f == Iterator(S)
             g == Ascending(F)
  <2>2. IsList(StringOrder, S, f) /\ IsList(NumberOrder, F, g)
    BY <1>6, <1>7
  <2> HIDE DEF f, g
  <2>3. Cardinality(S) = Cardinality(F) /\ \A p \in 1 .. Cardinality(S) : f[p] = h[g[p]]
    BY <2>1, <2>2, SameList
  <2> QED BY <2>3 DEF f, g
<1>9. \A p \in 1 .. Cardinality(F) : Ascending(F)[p] \in F
  BY <1>7 DEF IsList
<1>10. \A p \in 1 .. Cardinality(F) : Iterator(S)[p] = At(k, Ascending(F)[p])
  BY <1>8, <1>9 DEF h
<1>11. DOMAIN Iterator(S) = 1 .. Cardinality(S) /\ DOMAIN Ascending(F) = 1 .. Cardinality(F)
  BY <1>6, <1>7 DEF IsList
<1> QED BY <1>8, <1>9, <1>10, <1>11 DEF S

-----------------------------------------------------------------------------
(* The names a package may hold. *)

\* A full name leads to the field, one without "field" leads nowhere.
LEMMA FullName == 
  ASSUME NEW k \in Nat, NEW f \in 0 .. 9
  PROVE  pack_key(k, FieldPrefix \o <<f>>, NoPrefix) = At(k, f)
<1> DEFINE d == Decimal[k]
<1>1. d \in Seq(Int) /\ <<Slash>> \in Seq(Int) /\ <<Letters>> \in Seq(Int) /\ <<f>> \in Seq(Int)
  BY DecimalString DEF Strings, Slash, Letters
<1> HIDE DEF d
<1> DEFINE e == d \o <<Slash>>
<1>2. e \in Seq(Int)
  BY <1>1, ConcatProperties
<1>3. e \o <<>> = e
  BY <1>2, ConcatEmptySeq
<1>4. e \o (<<Letters>> \o <<f>>) = (e \o <<Letters>>) \o <<f>>
  BY <1>1, <1>2, ConcatAssociative
<1> QED BY <1>3, <1>4 DEF pack_key, At, NoPrefix, FieldPrefix, d

LEMMA ShortName ==
  ASSUME NEW k \in Nat, NEW f \in 0 .. 9, NEW j \in Nat, NEW g \in 0 .. 9
  PROVE  pack_key(k, <<f>>, NoPrefix) # At(j, g)
<1> DEFINE d == Decimal[k]
           l == Len(d)
           e == d \o <<Slash>>
           s == e \o <<f>>
           t == At(j, g)
           m == Len(Decimal[j])
<1>1. d \in Seq(Int) /\ l \in Nat /\ <<Slash>> \in Seq(Int) /\ <<f>> \in Seq(Int)
      /\ \A p \in 1 .. l : d[p] \in 0 .. 9
  BY DecimalString DEF Strings, Slash
<1>2. Flat(t, m, j, g) /\ \A p \in 1 .. m : Decimal[j][p] \in 0 .. 9
  BY AtIs, DecimalString
<1> HIDE DEF d
<1>3. e \in Seq(Int) /\ Len(e) = l + 1 /\ (\A p \in 1 .. l : e[p] = d[p]) /\ e[l + 1] = Slash
  BY <1>1
<1>4. e \o <<>> = e
  BY <1>3, ConcatEmptySeq
<1>5. pack_key(k, <<f>>, NoPrefix) = s
  BY <1>4 DEF pack_key, NoPrefix, d
<1> HIDE DEF e, m, t
<1>6. s \in Seq(Int) /\ Len(s) = l + 2 /\ \A p \in 1 .. l + 1 : s[p] = e[p]
  BY <1>1, <1>3
<1> HIDE DEF s
<1>7. s[l + 1] = Slash /\ \A p \in 1 .. l : s[p] # Slash
  <2>1. \A p \in 1 .. l : p \in 1 .. l + 1
    BY <1>1
  <2>2. l + 1 \in 1 .. l + 1
    BY <1>1
  <2>3. s[l + 1] = Slash
    BY <1>3, <1>6, <2>2
  <2>4. ASSUME NEW p \in 1 .. l PROVE s[p] # Slash
    <3>1. s[p] = d[p] /\ d[p] \in 0 .. 9
      BY <1>1, <1>3, <1>6, <2>1
    <3> QED BY <3>1 DEF Slash
  <2> QED BY <2>3, <2>4
<1>8. m \in Nat /\ Len(t) = m + 3 /\ t[m + 1] = Slash /\ \A p \in 1 .. m : t[p] # Slash
  BY <1>2 DEF Flat, Slash
<1>9. ASSUME s = t PROVE FALSE
  <2>1. l = m + 1
    BY <1>1, <1>6, <1>8, <1>9
  <2>2. m + 1 \in 1 .. l
    BY <1>8, <2>1
  <2> QED BY <1>7, <1>8, <1>9, <2>2
<1> QED BY <1>5, <1>9 DEF t

-----------------------------------------------------------------------------
(* The invariant of the executor. *)

\* The database holds packed fields and nothing else.
DbInv ==
  /\ IsFiniteSet(DOMAIN db) /\ db \in [DOMAIN db -> Vals]
  /\ \A s \in DOMAIN db : \E k \in Keys, f \in Fields : s = At(k, f)
PkgInv ==
  /\ pkg \in Packages \cup {NoPackage}
  /\ pc \in {"down", "idle", "execute"}
  /\ pc = "down" => pkg = NoPackage
  /\ pc = "execute" => pkg \in Packages
  /\ pos \in Nat /\ (pc = "execute" => pos >= 1)
ExecInv == DbInv /\ PkgInv

LEMMA EntryIs ==
  ASSUME DbInv, NEW s \in DOMAIN db
  PROVE  /\ s \in Strings /\ db[s] \in Vals
         /\ \E k \in Keys, f \in Fields :
              /\ k \in Nat /\ f \in 0 .. 9 /\ s = At(k, f) /\ KeyOf(s) = k
              /\ unpack_key(s) = [key |-> k, field |-> <<Letters, f>>]
              /\ stream_key(s) = [key |-> k, field |-> <<Slash, Letters, f>>]
<1>1. PICK k \in Keys, f \in Fields : s = At(k, f)
  BY DEF DbInv
<1>2. k \in Nat /\ f \in 0 .. 9
  BY ExecAssumption DEF ExecAssumption
<1>3. /\ KeyOf(s) = k
      /\ unpack_key(s) = [key |-> k, field |-> <<Letters, f>>]
      /\ stream_key(s) = [key |-> k, field |-> <<Slash, Letters, f>>]
  BY <1>1, <1>2, Unpacked
<1>4. Flat(s, Len(Decimal[k]), k, f)
  BY <1>1, <1>2, AtIs
<1>5. s \in Strings
  BY <1>4 DEF Flat
<1>6. db[s] \in Vals
  BY DEF DbInv
<1> QED BY <1>1, <1>2, <1>3, <1>5, <1>6

\* A set of entries is listed completely.
LEMMA EntriesListed ==
  ASSUME DbInv, NEW S, S \subseteq DOMAIN db
  PROVE  /\ IsFiniteSet(S) /\ S \subseteq Strings /\ IsList(StringOrder, S, Iterator(S))
         /\ Iterator(S) \in Seq(DOMAIN db) /\ Len(Iterator(S)) = Cardinality(S)
         /\ Cardinality(S) \in Nat
<1>1. IsFiniteSet(S)
  BY FS_Subset DEF DbInv
<1>2. S \subseteq Strings
  BY EntryIs
<1>3. IsList(StringOrder, S, Iterator(S))
  BY <1>1, <1>2, IteratorIs
<1>4. Cardinality(S) \in Nat
  BY <1>1, FS_CardinalityType
<1> DEFINE it == Iterator(S)
<1>5. it \in [1 .. Cardinality(S) -> DOMAIN db]
  BY <1>3 DEF IsList
<1> HIDE DEF it
<1>6. it \in Seq(DOMAIN db) /\ Len(it) = Cardinality(S)
  BY <1>4, <1>5
<1> QED BY <1>1, <1>2, <1>3, <1>4, <1>6 DEF it

-----------------------------------------------------------------------------
(* A scan, round by round. *)

Kept == {[name |-> unpack_key(s).field, val |-> db[s]] : s \in {t \in DOMAIN db : KeyOf(t) >= pkg.key}}
\* What a scan may have found: fields of records from the key on; it aborts
\* only when the database holds a key that is no long long.
ScanStates ==
  {r \in [res : Seq(Kept), rem : Int, last_key : Int, thrown : BOOLEAN] :
     r.thrown => \E s \in DOMAIN db : KeyOf(s) > LLMax}
ScanBegin == [res |-> <<>>, rem |-> pkg.scan_length, last_key |-> 0, thrown |-> FALSE]
Scanned(it, f) ==
  /\ f \in [0 .. Len(it) -> ScanStates] /\ f[0] = ScanBegin
  /\ \A p \in 1 .. Len(it) : f[p] = Visit(f[p - 1], it[p])

LEMMA VisitIs ==
  ASSUME DbInv, pkg.key \in Nat, NEW st \in ScanStates, NEW s \in DOMAIN db
  PROVE  Visit(st, s) \in ScanStates
<1> DEFINE pair == unpack_key(s)
           taken == take_field(pair.field)
           next == st.last_key # 0 /\ st.last_key # pair.key
           new == [name |-> pair.field, val |-> db[s]]
<1>1. /\ st \in [res : Seq(Kept), rem : Int, last_key : Int, thrown : BOOLEAN]
      /\ st.thrown => \E t \in DOMAIN db : KeyOf(t) > LLMax
  BY DEF ScanStates
<1>2. pair.key = KeyOf(s) /\ KeyOf(s) \in Nat
  BY EntryIs
<1>3. LLMax \in Nat
  BY ExecAssumption DEF ExecAssumption
<1>4. KeyOf(s) >= pkg.key => new \in Kept
  BY DEF Kept
<1> HIDE DEF pair, new
<1>5. CASE st.thrown \/ st.rem = 0
  BY <1>5 DEF Visit
<1>6. CASE ~(st.thrown \/ st.rem = 0) /\ pair.key > LLMax
  <2>1. Visit(st, s) = [st EXCEPT !.thrown = TRUE]
    BY <1>6 DEF Visit, pair
  <2> QED BY <1>1, <1>2, <1>6, <2>1 DEF ScanStates
<1>7. CASE ~(st.thrown \/ st.rem = 0) /\ ~(pair.key > LLMax) /\ pair.key < pkg.key
  <2>1. Visit(st, s) = st
    BY <1>7 DEF Visit, pair
  <2> QED BY <2>1
<1>8. CASE ~(st.thrown \/ st.rem = 0) /\ ~(pair.key > LLMax) /\ ~(pair.key < pkg.key)
  <2>1. Visit(st, s) = [st EXCEPT !.res = IF taken THEN Append(@, new) ELSE @,
                                  !.rem = IF taken /\ next THEN @ - 1 ELSE @,
                                  !.last_key = pair.key]
    BY <1>8 DEF Visit, pair, new
  <2>2. KeyOf(s) >= pkg.key
    BY <1>2, <1>8
  <2>3. Append(st.res, new) \in Seq(Kept)
    BY <1>1, <1>4, <2>2, AppendProperties
  <2> DEFINE r == IF taken THEN Append(st.res, new) ELSE st.res
             m == IF taken /\ next THEN st.rem - 1 ELSE st.rem
  <2>4. r \in Seq(Kept) /\ m \in Int
    BY <1>1, <2>3
  <2>5. Visit(st, s) = [st EXCEPT !.res = r, !.rem = m, !.last_key = pair.key]
    BY <1>1, <2>1
  <2> HIDE DEF r, m
  <2>6. Visit(st, s) \in [res : Seq(Kept), rem : Int, last_key : Int, thrown : BOOLEAN]
    <3>1. pair.key \in Int
      BY <1>2
    <3> QED BY <1>1, <2>4, <2>5, <3>1
  <2>7. Visit(st, s).thrown = st.thrown
    BY <1>1, <2>5
  <2> QED BY <1>1, <2>6, <2>7 DEF ScanStates
<1> QED BY <1>5, <1>6, <1>7, <1>8

LEMMA StartIs ==
  ASSUME DbInv
  PROVE  \E S \in SUBSET DOMAIN db : ScanStart = Iterator(S)
  BY DEF ScanStart, Seek, SeekToFirst

LEMMA ScanIs ==
  ASSUME DbInv, pkg.key \in Nat, pkg.scan_length \in Nat
  PROVE  \E f : Scanned(ScanStart, f) /\ exec_scan = f[Len(ScanStart)]
<1> DEFINE it == ScanStart
           l == Len(it)
           solves(f) == f = [p \in 0 .. l |-> IF p = 0 THEN ScanBegin ELSE Visit(f[p - 1], it[p])]
           c == CHOOSE f : solves(f)
           g == [p \in 1 .. l |-> [st \in ScanStates |-> Visit(st, it[p])]]
<1>1. it \in Seq(DOMAIN db) /\ l \in Nat
  <2>1. PICK S \in SUBSET DOMAIN db : it = Iterator(S)
    BY StartIs
  <2> QED BY <2>1, EntriesListed, LenProperties
<1>2. \A p \in 1 .. l : it[p] \in DOMAIN db
  BY <1>1, ElementOfSeq
<1>3. exec_scan = c[l]
  BY DEF exec_scan, ScanBegin
<1> HIDE DEF it, l
<1>4. ASSUME NEW p \in 1 .. l
      PROVE  g[p] \in [ScanStates -> ScanStates] /\ \A st \in ScanStates : g[p][st] = Visit(st, it[p])
  <2>1. \A st \in ScanStates : Visit(st, it[p]) \in ScanStates
    BY <1>2, VisitIs
  <2> QED BY <2>1
<1>5. g \in [1 .. l -> [ScanStates -> ScanStates]]
  BY <1>4
<1>6. ScanBegin \in ScanStates
  BY DEF ScanBegin, ScanStates
<1> HIDE DEF g
<1>7. PICK f : Loop(ScanStates, ScanBegin, g, l, f)
  BY <1>1, <1>5, <1>6, LoopExists
<1>8. f \in [0 .. l -> ScanStates] /\ f[0] = ScanBegin
  BY <1>7 DEF Loop
<1>9. ASSUME NEW p \in 1 .. l PROVE f[p] = Visit(f[p - 1], it[p])
  <2>1. p - 1 \in 0 .. l
    BY <1>1
  <2>2. f[p - 1] \in ScanStates /\ f[p] = g[p][f[p - 1]]
    BY <1>7, <2>1 DEF Loop
  <2> QED BY <1>4, <2>2
<1>10. \A p \in 0 .. l : f[p] = IF p = 0 THEN ScanBegin ELSE Visit(f[p - 1], it[p])
  <2>1. \A p \in 0 .. l : p # 0 => p \in 1 .. l
    BY <1>1
  <2> QED BY <1>8, <1>9, <2>1, Zenon
<1>11. f = [p \in 0 .. l |-> f[p]]
  BY <1>8
<1>12. solves(f)
  BY <1>10, <1>11, Zenon
<1>13. solves(c)
  BY <1>12, Zenon
<1> HIDE DEF c
<1>14. \A p \in 0 .. l : c[p] = IF p = 0 THEN ScanBegin ELSE Visit(c[p - 1], it[p])
  BY <1>13, Zenon
<1>15. \A p \in 0 .. l : c[p] = f[p]
  <2> DEFINE S == {p \in Nat : p <= l => c[p] = f[p]}
  <2>1. 0 \in S
    BY <1>1, <1>10, <1>14
  <2>2. ASSUME NEW p \in Nat, p \in S PROVE p + 1 \in S
    <3> SUFFICES ASSUME p + 1 <= l PROVE c[p + 1] = f[p + 1]
      OBVIOUS
    <3>1. p + 1 \in 0 .. l /\ p + 1 # 0 /\ (p + 1) - 1 = p /\ p <= l
      BY <1>1
    <3>2. c[p] = f[p]
      BY <2>2, <3>1
    <3>3. c[p + 1] = Visit(c[p], it[p + 1]) /\ f[p + 1] = Visit(f[p], it[p + 1])
      BY <1>10, <1>14, <3>1
    <3> QED BY <3>2, <3>3
  <2> HIDE DEF S
  <2>3. Nat \subseteq S
    BY <2>1, <2>2, StepInduction
  <2> QED BY <1>1, <2>3 DEF S
<1>16. exec_scan = f[l]
  BY <1>1, <1>3, <1>15
<1>17. Scanned(it, f)
  BY <1>8, <1>9 DEF Scanned, l
<1> QED BY <1>16, <1>17 DEF it, l

-----------------------------------------------------------------------------
(* The packages. *)

LEMMA UpToIs == ASSUME NEW S, NEW x \in UpTo(S) PROVE x \in Seq(S)
<1>1. PICK l \in 0 .. MaxKvs : x \in [1 .. l -> S]
  BY DEF UpTo
<1>2. l \in Nat
  BY ExecAssumption DEF ExecAssumption
<1> QED BY <1>1, <1>2

ShortNames == {<<f>> : f \in Fields}

LEMMA PackageIs ==
  ASSUME NEW x \in Packages
  PROVE  /\ x.key \in Keys /\ x.key \in Nat /\ x.scan_length \in Nat
         /\ x.op \in {"INSERT", "UPDATE", "READ", "SCAN", "DELETE", "UNKNOWN"}
         /\ x.op \in {"INSERT", "UPDATE"} => x.kv_pairs \in Seq([name : ShortNames, val : Vals])
         /\ x.op \in {"READ", "SCAN"} => x.kv_pairs \in Seq([name : Names, val : {0}])
         /\ x.op \in {"DELETE", "UNKNOWN"} => x.kv_pairs = <<>>
<1>0. Keys \subseteq Nat /\ ScanLens \subseteq Nat /\ 0 \in Nat
  BY ExecAssumption DEF ExecAssumption
<1>1. CASE x \in WritePackages
  <2>1. x.kv_pairs \in UpTo([name : ShortNames, val : Vals])
    BY <1>1 DEF WritePackages, ShortNames
  <2>2. x.kv_pairs \in Seq([name : ShortNames, val : Vals])
    BY <2>1, UpToIs
  <2>3. x.op \in {"INSERT", "UPDATE"} /\ x.key \in Keys /\ x.scan_length \in {0}
    BY <1>1 DEF WritePackages
  <2>4. x.op \notin {"READ", "SCAN"} /\ x.op \notin {"DELETE", "UNKNOWN"}
        /\ x.op \in {"INSERT", "UPDATE", "READ", "SCAN", "DELETE", "UNKNOWN"}
    BY <2>3
  <2>5. x.key \in Nat /\ x.scan_length \in Nat
    BY <1>0, <2>3, Zenon
  <2> QED BY <2>2, <2>3, <2>4, <2>5, Zenon
<1>2. CASE x \in ReadPackages
  <2>1. x.kv_pairs \in UpTo([name : Names, val : {0}])
    BY <1>2 DEF ReadPackages
  <2>2. x.kv_pairs \in Seq([name : Names, val : {0}])
    BY <2>1, UpToIs
  <2>3. x.op \in {"READ"} /\ x.key \in Keys /\ x.scan_length \in {0}
    BY <1>2 DEF ReadPackages
  <2>4. x.op \notin {"INSERT", "UPDATE"} /\ x.op \notin {"DELETE", "UNKNOWN"}
        /\ x.op \in {"INSERT", "UPDATE", "READ", "SCAN", "DELETE", "UNKNOWN"}
    BY <2>3
  <2>5. x.key \in Nat /\ x.scan_length \in Nat
    BY <1>0, <2>3, Zenon
  <2> QED BY <2>2, <2>3, <2>4, <2>5, Zenon
<1>3. CASE x \in ScanPackages
  <2>1. x.kv_pairs \in UpTo([name : Names, val : {0}])
    BY <1>3 DEF ScanPackages
  <2>2. x.kv_pairs \in Seq([name : Names, val : {0}])
    BY <2>1, UpToIs
  <2>3. x.op \in {"SCAN"} /\ x.key \in Keys /\ x.scan_length \in ScanLens
    BY <1>3 DEF ScanPackages
  <2>4. x.op \notin {"INSERT", "UPDATE"} /\ x.op \notin {"DELETE", "UNKNOWN"}
        /\ x.op \in {"INSERT", "UPDATE", "READ", "SCAN", "DELETE", "UNKNOWN"}
    BY <2>3
  <2>5. x.key \in Nat /\ x.scan_length \in Nat
    BY <1>0, <2>3, Zenon
  <2> QED BY <2>2, <2>3, <2>4, <2>5, Zenon
<1>4. CASE x \in OtherPackages
  <2>1. x.op \in {"DELETE", "UNKNOWN"} /\ x.key \in Keys /\ x.scan_length = 0 /\ x.kv_pairs = <<>>
    BY <1>4 DEF OtherPackages
  <2>2. x.op \notin {"INSERT", "UPDATE"} /\ x.op \notin {"READ", "SCAN"}
        /\ x.op \in {"INSERT", "UPDATE", "READ", "SCAN", "DELETE", "UNKNOWN"}
    BY <2>1
  <2>3. x.key \in Nat /\ x.scan_length \in Nat
    BY <1>0, <2>1, Zenon
  <2> QED BY <2>1, <2>2, <2>3, Zenon
<1> QED BY <1>1, <1>2, <1>3, <1>4 DEF Packages

LEMMA Executed ==
  ASSUME ExecInv, NEW O, Executing(O)
  PROVE  pkg \in Packages /\ pkg.op \in O /\ pc = "execute" /\ pos \in Nat /\ pos >= 1
  BY DEF ExecInv, PkgInv, Executing

\* A pair of an insert names its field by a digit.
LEMMA PairIs ==
  ASSUME ExecInv, Executing({"INSERT", "UPDATE"}), pos <= Len(pkg.kv_pairs)
  PROVE  \E f \in Fields : 
           /\ pkg.kv_pairs[pos].name = <<f>> /\ pkg.kv_pairs[pos].val \in Vals
           /\ pkg.key \in Keys /\ pkg.key \in Nat /\ f \in 0 .. 9
           /\ pack_key(pkg.key, pkg.kv_pairs[pos].name, FieldPrefix) = At(pkg.key, f)
<1>1. pkg \in Packages /\ pkg.op \in {"INSERT", "UPDATE"} /\ pos \in Nat /\ pos >= 1
  BY Executed
<1>2. pkg.kv_pairs \in Seq([name : ShortNames, val : Vals]) /\ pkg.key \in Keys /\ pkg.key \in Nat
  BY <1>1, PackageIs
<1>3. pos \in 1 .. Len(pkg.kv_pairs)
  BY <1>1, <1>2
<1>4. pkg.kv_pairs[pos] \in [name : ShortNames, val : Vals]
  BY <1>2, <1>3, ElementOfSeq
<1>5. PICK f \in Fields : pkg.kv_pairs[pos].name = <<f>>
  BY <1>4 DEF ShortNames
<1>6. f \in 0 .. 9
  BY ExecAssumption DEF ExecAssumption
<1> QED BY <1>2, <1>4, <1>5, <1>6 DEF At

LEMMA InvInit == Init => ExecInv
<1> SUFFICES ASSUME Init PROVE ExecInv
  OBVIOUS
<1>1. DOMAIN db = {} /\ IsFiniteSet({})
  BY FS_EmptySet DEF Init
<1>2. db \in [DOMAIN db -> Vals]
  BY <1>1 DEF Init
<1> QED BY <1>1, <1>2 DEF Init, ExecInv, DbInv, PkgInv

LEMMA DieKeeps == ASSUME ExecInv, Die PROVE ExecInv'
  BY DEF Die, ExecInv, DbInv, PkgInv

LEMMA InvStep == ASSUME ExecInv, [Next]_vars PROVE ExecInv'
<1> USE DEF ExecInv
<1>1. CASE Open
  BY <1>1 DEF Open, DbInv, PkgInv
<1>2. CASE Crash
  BY <1>2, DieKeeps DEF Crash
<1>3. CASE \E p \in Packages : Begin(p)
  <2>1. PICK p \in Packages : Begin(p)
    BY <1>3
  <2>2. DbInv'
    BY <2>1 DEF Begin, DbInv
  <2>3. PkgInv'
    BY <2>1 DEF Begin, PkgInv
  <2> QED BY <2>2, <2>3
<1>4. CASE Put
  <2>1. Executing({"INSERT", "UPDATE"}) /\ pos <= Len(pkg.kv_pairs)
    BY <1>4 DEF Put
  <2>2. PICK f \in Fields :
           /\ pkg.kv_pairs[pos].val \in Vals /\ pkg.key \in Keys
           /\ pack_key(pkg.key, pkg.kv_pairs[pos].name, FieldPrefix) = At(pkg.key, f)
    BY <2>1, PairIs
  <2>3. PkgInv'
    BY <1>4 DEF Put, PkgInv, Executing
  <2>4. CASE db' = db
    BY <2>3, <2>4 DEF DbInv
  <2>5. CASE db' = Updated(At(pkg.key, f), pkg.kv_pairs[pos].val)
    <3> DEFINE s == At(pkg.key, f)
    <3>1. DOMAIN db' = DOMAIN db \cup {s}
      BY <2>5 DEF Updated
    <3>2. IsFiniteSet(DOMAIN db')
      BY <3>1, FS_AddElement DEF DbInv
    <3>3. db' \in [DOMAIN db' -> Vals]
      BY <2>2, <2>5, <3>1 DEF Updated, DbInv
    <3>4. \A t \in DOMAIN db' : \E k \in Keys, g \in Fields : t = At(k, g)
      BY <2>2, <3>1 DEF DbInv
    <3>5. DbInv'
      BY <3>2, <3>3, <3>4 DEF DbInv, At, pack_key
    <3> QED BY <2>3, <3>5
  <2> QED BY <1>4, <2>2, <2>4, <2>5 DEF Put
<1>5. CASE Inserted
  BY <1>5 DEF Inserted, DbInv, PkgInv
<1>6. CASE Read
  BY <1>6 DEF Read, DbInv, PkgInv
<1>7. CASE Scan
  BY <1>7 DEF Scan, DbInv, PkgInv
<1>8. CASE ScanThrows
  BY <1>8, DieKeeps DEF ScanThrows
<1>9. CASE Other
  BY <1>9 DEF Other, DbInv, PkgInv
<1>10. CASE UNCHANGED vars
  BY <1>10 DEF vars, DbInv, PkgInv
<1> QED BY <1>1, <1>2, <1>3, <1>4, <1>5, <1>6, <1>7, <1>8, <1>9, <1>10 DEF Next

LEMMA InvAlways == Spec => []ExecInv
  BY InvInit, InvStep, PTL DEF Spec

-----------------------------------------------------------------------------
(* Step by step, the executor is a store of records. *)

Request == [op |-> RequestOp[pkg.op], key |-> pkg.key, pairs |-> PairsOf(pkg.kv_pairs)]
Pending == IF Executing({"INSERT", "UPDATE"})
           THEN PairsOf(SubSeq(pkg.kv_pairs, pos, Len(pkg.kv_pairs))) ELSE <<>>
Reply == [p \in DOMAIN res |-> [field |-> res[p].name[Len(res[p].name)], val |-> res[p].val]]

LEMMA RequestOpIs ==
  /\ RequestOp["INSERT"] = "write" /\ RequestOp["UPDATE"] = "write"
  /\ RequestOp["READ"] = "read" /\ RequestOp["SCAN"] = "scan"
  /\ RequestOp["DELETE"] = "other" /\ RequestOp["UNKNOWN"] = "other"
  /\ RequestOp["NONE"] = "none"
  BY DEF RequestOp

LEMMA StoreIs ==
  ASSUME NEW k \in Keys, NEW f \in Fields
  PROVE  StoreOf[k][f] = IF At(k, f) \in DOMAIN db THEN db[At(k, f)] ELSE None
  BY DEF StoreOf, At

LEMMA StoreSame == ASSUME db' = db PROVE StoreOf' = StoreOf
  BY DEF StoreOf
LEMMA RequestSame == ASSUME pkg' = pkg PROVE Request' = Request
  BY DEF Request, PairsOf, FieldNo
LEMMA ReplySame == ASSUME res' = res PROVE Reply' = Reply
  BY DEF Reply
LEMMA NoPairs == PairsOf(<<>>) = <<>> /\ PairsOf(<<>>)' = <<>>
  BY DEF PairsOf
LEMMA NoReply == (res = <<>> => Reply = <<>>) /\ (res' = <<>> => Reply' = <<>>)
  BY DEF Reply

LEMMA SimInit == ASSUME Init PROVE Store!StoreInit
<1>1. StoreOf = [k \in Keys |-> [f \in Fields |-> None]]
  <2>1. DOMAIN db = {}
    BY DEF Init
  <2> QED BY <2>1 DEF StoreOf
<1>2. Request = [op |-> "none", key |-> 0, pairs |-> <<>>]
  BY NoPairs, RequestOpIs DEF Init, Request, NoPackage
<1>3. Pending = <<>>
  BY DEF Init, Pending, Executing
<1>4. Reply = <<>>
  BY NoReply DEF Init
<1> QED BY <1>1, <1>2, <1>3, <1>4 DEF Store!StoreInit, Request, Pending, Reply

LEMMA SimStutter ==
  ASSUME UNCHANGED <<db, pkg, res>>, Pending' = Pending
  PROVE  UNCHANGED Store!storeVars
<1>1. StoreOf' = StoreOf /\ Request' = Request /\ Reply' = Reply
  BY StoreSame, RequestSame, ReplySame
<1> QED BY <1>1 DEF Store!storeVars, Request, Pending, Reply

LEMMA SimDie == ASSUME Die PROVE Store!Interrupt
<1>1. StoreOf' = StoreOf
  BY StoreSame DEF Die
<1>2. Request' = [op |-> "none", key |-> 0, pairs |-> <<>>]
  BY NoPairs, RequestOpIs DEF Die, Request, NoPackage
<1>3. Pending' = <<>>
  BY DEF Die, Pending, Executing
<1>4. Reply' = <<>>
  BY NoReply DEF Die
<1> QED BY <1>1, <1>2, <1>3, <1>4 DEF Store!Interrupt, Request, Pending, Reply

LEMMA SimBegin == ASSUME ExecInv, NEW x \in Packages, Begin(x) PROVE Store!Ask
<1>1. StoreOf' = StoreOf
  BY StoreSame DEF Begin
<1>2. Pending = <<>>
  BY DEF Begin, Pending, Executing
<1>3. Reply' = <<>>
  BY NoReply DEF Begin
<1>4. pkg' = x /\ pos' = 1 /\ pc' = "execute"
  BY DEF Begin
<1>5. Request'.op = RequestOp[x.op] /\ Request'.key = x.key /\ Request'.pairs = PairsOf(x.kv_pairs)'
  BY <1>4 DEF Request
<1>6. x.key \in Keys
  BY PackageIs
<1>7. CASE x.op \in {"INSERT", "UPDATE"}
  <2>1. x.kv_pairs \in Seq([name : ShortNames, val : Vals])
    BY <1>7, PackageIs
  <2>2. SubSeq(x.kv_pairs, 1, Len(x.kv_pairs)) = x.kv_pairs
    BY <2>1, SubSeqFull
  <2>3. Executing({"INSERT", "UPDATE"})'
    BY <1>4, <1>7 DEF Executing
  <2>4. Pending' = PairsOf(x.kv_pairs)'
    BY <1>4, <2>2, <2>3 DEF Pending
  <2>5. Request'.op = "write"
    BY <1>5, <1>7, RequestOpIs
  <2> QED BY <1>1, <1>2, <1>3, <1>5, <1>6, <2>4, <2>5 DEF Store!Ask, Request, Pending, Reply
<1>8. CASE x.op \notin {"INSERT", "UPDATE"}
  <2>1. Pending' = <<>>
    BY <1>4, <1>8 DEF Pending, Executing
  <2>2. Request'.op # "write"
    BY <1>5, <1>8, RequestOpIs, PackageIs
  <2> QED BY <1>1, <1>2, <1>3, <2>1, <2>2 DEF Store!Ask, Request, Pending, Reply
<1> QED BY <1>7, <1>8

LEMMA SeqIs ==
  ASSUME NEW T, NEW l \in Nat, NEW f \in [1 .. l -> T]
  PROVE  f \in Seq(T) /\ Len(f) = l
  OBVIOUS

LEMMA RestIs ==
  ASSUME NEW T, NEW s \in Seq(T), NEW a \in Nat, a >= 1, a <= Len(s) + 1
  PROVE  /\ SubSeq(s, a, Len(s)) \in Seq(T) /\ Len(SubSeq(s, a, Len(s))) = Len(s) - a + 1
         /\ \A i \in 1 .. Len(s) - a + 1 : SubSeq(s, a, Len(s))[i] = s[a + i - 1]
  BY SubSeqProperties

Changed(X, Y, A, B, k, f, v) ==
  /\ k \in X /\ f \in Y
  /\ A = [x \in X |-> [y \in Y |-> A[x][y]]]
  /\ B = [x \in X |-> [y \in Y |-> B[x][y]]]
  /\ \A x \in X, y \in Y : B[x][y] = IF x = k /\ y = f THEN v ELSE A[x][y]

LEMMA ChangedAt ==
  ASSUME NEW X, NEW Y, NEW A, NEW B, NEW k, NEW f, NEW v, Changed(X, Y, A, B, k, f, v)
  PROVE  B = [A EXCEPT ![k][f] = v]
<1> USE DEF Changed
<1> DEFINE C == [A EXCEPT ![k][f] = v]
<1>1. ASSUME NEW x \in X PROVE B[x] = C[x]
  <2>1. A[x] = [y \in Y |-> A[x][y]] /\ B[x] = [y \in Y |-> B[x][y]] /\ DOMAIN A = X
    BY Zenon
  <2>2. CASE x = k
    <3>1. C[x] = [A[x] EXCEPT ![f] = v]
      BY <2>1, <2>2
    <3>2. C[x] = [y \in Y |-> IF y = f THEN v ELSE A[x][y]]
      BY <2>1, <3>1
    <3> HIDE DEF C
    <3>3. \A y \in Y : B[x][y] = IF y = f THEN v ELSE A[x][y]
      BY <2>2
    <3> QED BY <2>1, <3>2, <3>3
  <2>3. CASE x # k
    <3>1. C[x] = A[x]
      BY <2>1, <2>3
    <3>2. \A y \in Y : B[x][y] = A[x][y]
      BY <2>3
    <3> HIDE DEF C
    <3> QED BY <2>1, <3>1, <3>2
  <2> QED BY <2>2, <2>3
<1>2. DOMAIN A = X /\ DOMAIN B = X /\ DOMAIN C = X
  BY Zenon
<1>3. B = [x \in X |-> B[x]] /\ C = [x \in X |-> C[x]]
  BY <1>2
<1> QED BY <1>1, <1>3, Zenon

LEMMA WritePairs ==
  ASSUME pkg.op \in {"INSERT", "UPDATE"}, NEW q \in Seq([name : ShortNames, val : Vals])
  PROVE  /\ PairsOf(q) \in Seq([field : Fields, val : Vals]) /\ Len(PairsOf(q)) = Len(q)
         /\ \A i \in 1 .. Len(q) : PairsOf(q)[i] = [field |-> q[i].name[1], val |-> q[i].val]
<1>1. Len(q) \in Nat /\ DOMAIN q = 1 .. Len(q)
  OBVIOUS
<1>2. ASSUME NEW i \in 1 .. Len(q)
      PROVE  FieldNo(q[i].name) = q[i].name[1] /\ q[i].name[1] \in Fields /\ q[i].val \in Vals
  <2>1. q[i] \in [name : ShortNames, val : Vals]
    BY ElementOfSeq
  <2>2. PICK f \in Fields : q[i].name = <<f>>
    BY <2>1 DEF ShortNames
  <2>3. Len(q[i].name) = 1 /\ q[i].name[1] = f
    BY <2>2
  <2>4. pkg.op \notin {"READ", "SCAN"}
    OBVIOUS
  <2> QED BY <2>1, <2>3, <2>4 DEF FieldNo
<1>3. PairsOf(q) = [i \in 1 .. Len(q) |-> [field |-> FieldNo(q[i].name), val |-> q[i].val]]
  BY <1>1 DEF PairsOf
<1>4. PairsOf(q) = [i \in 1 .. Len(q) |-> [field |-> q[i].name[1], val |-> q[i].val]]
  BY <1>2, <1>3
<1>5. \A i \in 1 .. Len(q) : [field |-> q[i].name[1], val |-> q[i].val] \in [field : Fields, val : Vals]
  BY <1>2
<1> DEFINE r == PairsOf(q)
<1>6. r \in [1 .. Len(q) -> [field : Fields, val : Vals]]
  BY <1>4, <1>5
<1>7. \A i \in 1 .. Len(q) : r[i] = [field |-> q[i].name[1], val |-> q[i].val]
  BY <1>4
<1> HIDE DEF r
<1>8. r \in Seq([field : Fields, val : Vals]) /\ Len(r) = Len(q)
  BY <1>1, <1>6, SeqIs
<1> QED BY <1>7, <1>8 DEF r

LEMMA SimPut == ASSUME ExecInv, Put PROVE Store!Write
<1> DEFINE kvs == pkg.kv_pairs
           l == Len(kvs)
           Pair == [name : ShortNames, val : Vals]
           q == SubSeq(kvs, pos, l)
           r == SubSeq(kvs, pos + 1, l)
<1>1. /\ Executing({"INSERT", "UPDATE"}) /\ pos <= Len(pkg.kv_pairs)
      /\ pos' = pos + 1 /\ pc' = pc /\ pkg' = pkg /\ res' = res
  BY DEF Put
<1>2. pkg \in Packages /\ pkg.op \in {"INSERT", "UPDATE"} /\ pos \in Nat /\ pos >= 1
  BY <1>1, Executed
<1>3. kvs \in Seq(Pair) /\ l \in Nat
  BY <1>2, PackageIs, LenProperties
<1>4. PICK f \in Fields :
           /\ kvs[pos].name = <<f>> /\ kvs[pos].val \in Vals
           /\ pkg.key \in Keys /\ pkg.key \in Nat /\ f \in 0 .. 9
           /\ pack_key(pkg.key, kvs[pos].name, FieldPrefix) = At(pkg.key, f)
  BY <1>1, PairIs
<1> DEFINE v == kvs[pos].val
<1>5. Pending = PairsOf(q) /\ Pending' = PairsOf(r)
  <2>1. Executing({"INSERT", "UPDATE"})'
    BY <1>1 DEF Executing
  <2> QED BY <1>1, <2>1 DEF Pending, PairsOf, FieldNo
<1>6. pos <= l
  BY <1>1
<1> HIDE DEF kvs, l
<1>7. /\ q \in Seq(Pair) /\ Len(q) = l - pos + 1 /\ \A i \in 1 .. l - pos + 1 : q[i] = kvs[pos + i - 1]
  <2>1. pos <= l + 1
    BY <1>2, <1>3, <1>6
  <2> HIDE DEF Pair
  <2> QED BY <1>2, <1>3, <2>1, RestIs DEF l
<1>8. /\ r \in Seq(Pair) /\ Len(r) = l - pos /\ \A i \in 1 .. l - pos : r[i] = kvs[pos + i]
  <2>1. pos + 1 \in Nat /\ pos + 1 >= 1 /\ pos + 1 <= l + 1 /\ l - (pos + 1) + 1 = l - pos
    BY <1>2, <1>3, <1>6
  <2> HIDE DEF Pair
  <2>2. /\ r \in Seq(Pair) /\ Len(r) = l - (pos + 1) + 1
        /\ \A i \in 1 .. l - (pos + 1) + 1 : r[i] = kvs[(pos + 1) + i - 1]
    BY <1>3, <2>1, RestIs DEF l
  <2>3. \A i \in 1 .. l - pos : (pos + 1) + i - 1 = pos + i
    BY <1>2, <1>3
  <2> HIDE DEF r
  <2> QED BY <2>1, <2>2, <2>3
<1> HIDE DEF q, r
<1> DEFINE Y == [field : Fields, val : Vals]
<1>9. /\ PairsOf(q) \in Seq(Y) /\ Len(PairsOf(q)) = Len(q)
      /\ \A i \in 1 .. Len(q) : PairsOf(q)[i] = [field |-> q[i].name[1], val |-> q[i].val]
  BY <1>2, <1>7, WritePairs
<1>10. /\ PairsOf(r) \in Seq(Y) /\ Len(PairsOf(r)) = Len(r)
       /\ \A i \in 1 .. Len(r) : PairsOf(r)[i] = [field |-> r[i].name[1], val |-> r[i].val]
  BY <1>2, <1>8, WritePairs
<1> HIDE DEF Y, Pair
<1>11. PairsOf(q) # <<>> /\ PairsOf(q)[1] = [field |-> f, val |-> v]
  <2>1. 1 \in 1 .. l - pos + 1 /\ pos + 1 - 1 = pos
    BY <1>2, <1>3, <1>6
  <2>2. q[1] = kvs[pos]
    BY <1>7, <2>1
  <2>3. PairsOf(q)[1] = [field |-> f, val |-> v]
    BY <1>4, <1>7, <1>9, <2>1, <2>2
  <2>4. Len(PairsOf(q)) # 0
    BY <1>2, <1>3, <1>6, <1>7, <1>9
  <2> QED BY <2>3, <2>4
<1>12. PairsOf(r) = Tail(PairsOf(q))
  <2>1. /\ Tail(PairsOf(q)) \in Seq(Y) /\ Len(Tail(PairsOf(q))) = l - pos
        /\ \A i \in 1 .. l - pos : Tail(PairsOf(q))[i] = PairsOf(q)[i + 1]
    BY <1>2, <1>3, <1>6, <1>7, <1>9, <1>11
  <2>2. ASSUME NEW i \in 1 .. l - pos PROVE PairsOf(r)[i] = Tail(PairsOf(q))[i]
    <3>1. i + 1 \in 1 .. l - pos + 1 /\ pos + (i + 1) - 1 = pos + i
      BY <1>2, <1>3
    <3>2. q[i + 1] = kvs[pos + i] /\ r[i] = kvs[pos + i]
      BY <1>7, <1>8, <3>1
    <3>3. PairsOf(q)[i + 1] = [field |-> q[i + 1].name[1], val |-> q[i + 1].val]
      BY <1>7, <1>9, <3>1
    <3>4. PairsOf(r)[i] = [field |-> r[i].name[1], val |-> r[i].val]
      BY <1>8, <1>10
    <3> QED BY <2>1, <3>2, <3>3, <3>4
  <2> QED BY <1>8, <1>10, <2>1, <2>2, SeqEqual
<1>13. StoreOf' = [StoreOf EXCEPT ![pkg.key][f] = v] \/ StoreOf' = StoreOf
  <2>1. CASE db' = db
    BY <2>1, StoreSame
  <2>2. CASE db' = Updated(At(pkg.key, f), v)
    <3> DEFINE s == At(pkg.key, f)
    <3>1. DOMAIN db' = DOMAIN db \cup {s} /\ db'[s] = v
      BY <2>2 DEF Updated
    <3>2. \A t \in DOMAIN db : t # s => db'[t] = db[t]
      BY <2>2 DEF Updated
    <3>3. ASSUME NEW k \in Keys, NEW g \in Fields
          PROVE  StoreOf'[k][g] = IF k = pkg.key /\ g = f THEN v ELSE StoreOf[k][g]
      <4>1. StoreOf'[k][g] = IF At(k, g) \in DOMAIN db' THEN db'[At(k, g)] ELSE None
        BY DEF StoreOf, At
      <4>2. StoreOf[k][g] = IF At(k, g) \in DOMAIN db THEN db[At(k, g)] ELSE None
        BY StoreIs
      <4>3. k \in Nat /\ g \in 0 .. 9
        BY ExecAssumption DEF ExecAssumption
      <4>4. At(k, g) = s <=> k = pkg.key /\ g = f
        BY <1>4, <4>3, AtInjective
      <4> HIDE DEF s
      <4> QED BY <3>1, <3>2, <4>1, <4>2, <4>4
    <3>4. StoreOf = [k \in Keys |-> [g \in Fields |-> StoreOf[k][g]]]
      BY DEF StoreOf
    <3>5. StoreOf' = [k \in Keys |-> [g \in Fields |-> StoreOf'[k][g]]]
      BY DEF StoreOf
    <3> DEFINE A == StoreOf
               B == StoreOf'
    <3>6. /\ A = [k \in Keys |-> [g \in Fields |-> A[k][g]]]
          /\ B = [k \in Keys |-> [g \in Fields |-> B[k][g]]]
          /\ \A k \in Keys, g \in Fields : B[k][g] = IF k = pkg.key /\ g = f THEN v ELSE A[k][g]
      BY <3>3, <3>4, <3>5
    <3> HIDE DEF A, B, v
    <3>7. B = [A EXCEPT ![pkg.key][f] = v]
      <4>1. Changed(Keys, Fields, A, B, pkg.key, f, v)
        BY <1>4, <3>6 DEF Changed
      <4> QED BY <4>1, ChangedAt
    <3> QED BY <3>7 DEF A, B
  <2> QED BY <1>4, <2>1, <2>2 DEF Put, kvs
<1>14. Request' = Request /\ Reply' = Reply
  BY <1>1, RequestSame, ReplySame
<1>15. Pending # <<>> /\ Pending[1] = [field |-> f, val |-> v] /\ Pending' = Tail(Pending)
  BY <1>5, <1>11, <1>12
<1>16. Request.key = pkg.key /\ Pending[1].field = f /\ Pending[1].val = v
  BY <1>15 DEF Request
<1>17. /\ Pending # <<>> /\ Pending' = Tail(Pending) /\ Request' = Request /\ Reply' = Reply
       /\ \/ StoreOf' = [StoreOf EXCEPT ![Request.key][Pending[1].field] = Pending[1].val]
          \/ StoreOf' = StoreOf
  BY <1>13, <1>14, <1>15, <1>16
<1> QED BY <1>17 DEF Store!Write, Request, Pending, Reply

There(k) == {f \in Fields : StoreOf[k][f] # None}

LEMMA ThereIs ==
  ASSUME ExecInv, NEW k \in Keys, NEW f \in Fields
  PROVE  /\ f \in There(k) <=> At(k, f) \in DOMAIN db
         /\ f \in There(k) => StoreOf[k][f] = db[At(k, f)]
<1>1. StoreOf[k][f] = IF At(k, f) \in DOMAIN db THEN db[At(k, f)] ELSE None
  BY StoreIs
<1>2. At(k, f) \in DOMAIN db => db[At(k, f)] \in Nat
  BY ExecAssumption DEF ExecAssumption, ExecInv, DbInv
<1> QED BY <1>1, <1>2 DEF There, None

\* The entry a read looks up is there exactly when the field is.
LEMMA NameIs ==
  ASSUME ExecInv, pkg \in Packages, pkg.op = "READ", NEW i \in DOMAIN pkg.kv_pairs
  PROVE  LET name == pkg.kv_pairs[i].name
             string == pack_key(pkg.key, name, NoPrefix)
         IN /\ string \in DOMAIN db <=> FieldNo(name) \in There(pkg.key)
            /\ FieldNo(name) \in There(pkg.key) =>
                 FieldNo(name) = name[Len(name)] /\ db[string] = StoreOf[pkg.key][FieldNo(name)]
<1> DEFINE name == pkg.kv_pairs[i].name
           string == pack_key(pkg.key, name, NoPrefix)
           k == pkg.key
<1>1. pkg.kv_pairs \in Seq([name : Names, val : {0}]) /\ k \in Keys /\ k \in Nat
  BY PackageIs
<1>2. pkg.kv_pairs[i] \in [name : Names, val : {0}]
  BY <1>1, ElementOfSeq, LenProperties
<1>3. name \in Names
  BY <1>2
<1> HIDE DEF name, k
<1>4. CASE \E f \in Fields : name = <<f>>
  <2>1. PICK f \in Fields : name = <<f>>
    BY <1>4
  <2>2. f \in 0 .. 9 /\ Len(name) = 1
    BY <2>1, ExecAssumption DEF ExecAssumption
  <2>3. FieldNo(name) = None
    BY <2>2 DEF FieldNo
  <2>4. None \notin Fields
    BY ExecAssumption DEF ExecAssumption, None
  <2>5. FieldNo(name) \notin There(k)
    BY <2>3, <2>4 DEF There
  <2>6. string \notin DOMAIN db
    <3> SUFFICES ASSUME string \in DOMAIN db PROVE FALSE
      OBVIOUS
    <3>1. PICK j \in Keys, g \in Fields : j \in Nat /\ g \in 0 .. 9 /\ string = At(j, g)
      BY EntryIs DEF ExecInv
    <3>2. pack_key(k, <<f>>, NoPrefix) # At(j, g)
      BY <1>1, <2>2, <3>1, ShortName
    <3> QED BY <2>1, <3>1, <3>2 DEF k
  <2> QED BY <2>5, <2>6 DEF name, k
<1>5. CASE \E f \in Fields : name = FieldPrefix \o <<f>>
  <2>1. PICK f \in Fields : name = FieldPrefix \o <<f>>
    BY <1>5
  <2>2. f \in 0 .. 9
    BY ExecAssumption DEF ExecAssumption
  <2>3. string = At(k, f)
    BY <1>1, <2>1, <2>2, FullName DEF k
  <2>4. <<Letters>> \in Seq(Int) /\ <<f>> \in Seq(Int)
    BY <2>2 DEF Letters
  <2>5. Len(name) = 2 /\ name[2] = f
    BY <2>1, <2>4 DEF FieldPrefix
  <2>6. FieldNo(name) = f /\ name[Len(name)] = f
    BY <2>5 DEF FieldNo
  <2> HIDE DEF string
  <2>7. string \in DOMAIN db <=> f \in There(k)
    BY <1>1, <2>3, ThereIs
  <2>8. f \in There(k) => db[string] = StoreOf[k][f]
    BY <1>1, <2>3, ThereIs
  <2> QED BY <2>6, <2>7, <2>8 DEF name, string, k
<1> QED BY <1>3, <1>4, <1>5 DEF Names

LEMMA SimReadAll ==
  ASSUME ExecInv, Read, pkg.kv_pairs = <<>>
  PROVE  Reply' = [p \in DOMAIN Ascending(There(pkg.key)) |->
                     [field |-> Ascending(There(pkg.key))[p],
                      val |-> StoreOf[pkg.key][Ascending(There(pkg.key))[p]]]]
<1> DEFINE k == pkg.key
           F == There(k)
           asc == Ascending(F)
           S == {At(k, f) : f \in F}
           T == {s \in DOMAIN db : stream_key(s).key = k}
           mine == Iterator(S)
<1>1. Executing({"READ"}) /\ res' = exec_read
  BY DEF Read
<1>2. pkg \in Packages /\ pkg.op = "READ"
  BY <1>1, Executed
<1>3. k \in Keys /\ k \in Nat
  BY <1>2, PackageIs
<1> HIDE DEF k
<1>4. F \subseteq Fields /\ F \subseteq 0 .. 9
  BY ExecAssumption DEF ExecAssumption, There
<1>5. T = S
  <2>1. ASSUME NEW s \in T PROVE s \in S
    <3>1. PICK j \in Keys, g \in Fields :
             s = At(j, g) /\ stream_key(s) = [key |-> j, field |-> <<Slash, Letters, g>>]
      BY EntryIs DEF ExecInv
    <3>2. j = k
      BY <3>1
    <3>3. g \in F
      BY <1>3, <3>1, <3>2, ThereIs
    <3> QED BY <3>1, <3>2, <3>3
  <2>2. ASSUME NEW f \in F PROVE At(k, f) \in T
    <3>1. At(k, f) \in DOMAIN db
      BY <1>3, <1>4, ThereIs
    <3>2. stream_key(At(k, f)) = [key |-> k, field |-> <<Slash, Letters, f>>]
      BY <1>3, <1>4, Unpacked
    <3> QED BY <3>1, <3>2
  <2> QED BY <2>1, <2>2
<1>6. /\ DOMAIN mine = DOMAIN asc
      /\ \A p \in DOMAIN asc : asc[p] \in F /\ mine[p] = At(k, asc[p])
  <2>1. /\ \A p \in 1 .. Cardinality(F) : asc[p] \in F /\ mine[p] = At(k, asc[p])
        /\ DOMAIN mine = DOMAIN asc
    BY <1>3, <1>4, RecordListed
  <2>2. DOMAIN asc = 1 .. Cardinality(F)
    BY DEF Ascending
  <2> QED BY <2>1, <2>2
<1>7. exec_read = [p \in DOMAIN mine |-> [name |-> stream_key(mine[p]).field, val |-> db[mine[p]]]]
  <2>1. exec_read = [p \in DOMAIN Iterator(T) |->
                       [name |-> stream_key(Iterator(T)[p]).field, val |-> db[Iterator(T)[p]]]]
    BY DEF exec_read, k
  <2> HIDE DEF S, T
  <2> QED BY <1>5, <2>1
<1> HIDE DEF mine, asc, S, T
<1>8. ASSUME NEW p \in DOMAIN asc
      PROVE  /\ stream_key(mine[p]).field = <<Slash, Letters, asc[p]>>
             /\ db[mine[p]] = StoreOf[k][asc[p]]
  <2>1. asc[p] \in F /\ mine[p] = At(k, asc[p]) /\ asc[p] \in Fields /\ asc[p] \in 0 .. 9
    BY <1>4, <1>6
  <2>2. stream_key(mine[p]).field = <<Slash, Letters, asc[p]>>
    BY <1>3, <2>1, Unpacked
  <2>3. db[mine[p]] = StoreOf[k][asc[p]]
    BY <1>3, <2>1, ThereIs
  <2> QED BY <2>2, <2>3
<1>9. res' = [p \in DOMAIN asc |-> [name |-> <<Slash, Letters, asc[p]>>, val |-> StoreOf[k][asc[p]]]]
  BY <1>1, <1>6, <1>7, <1>8
<1>10. Reply' = [p \in DOMAIN asc |-> [field |-> asc[p], val |-> StoreOf[k][asc[p]]]]
  <2>1. DOMAIN res' = DOMAIN asc
    BY <1>9
  <2>2. ASSUME NEW p \in DOMAIN asc
        PROVE  res'[p].name[Len(res'[p].name)] = asc[p] /\ res'[p].val = StoreOf[k][asc[p]]
    <3>1. res'[p].name = <<Slash, Letters, asc[p]>> /\ res'[p].val = StoreOf[k][asc[p]]
      BY <1>9
    <3> QED BY <3>1
  <2>3. Reply' = [p \in DOMAIN res' |-> [field |-> res'[p].name[Len(res'[p].name)], val |-> res'[p].val]]
    BY DEF Reply
  <2> QED BY <2>1, <2>2, <2>3
<1> QED BY <1>10 DEF asc, k

LEMMA PairsDomain == ASSUME NEW kvs PROVE DOMAIN PairsOf(kvs) = DOMAIN kvs
  BY DEF PairsOf

LEMMA SimReadNamed ==
  ASSUME ExecInv, Read, pkg.kv_pairs # <<>>
  PROVE  LET there == Ascending({p \in DOMAIN Request.pairs : Request.pairs[p].field \in There(pkg.key)})
             field(p) == Request.pairs[there[p]].field
         IN Reply' = [p \in DOMAIN there |-> [field |-> field(p), val |-> StoreOf[pkg.key][field(p)]]]
<1> DEFINE k == pkg.key
           kvs == pkg.kv_pairs
           string(p) == pack_key(k, kvs[p].name, NoPrefix)
           D == {p \in DOMAIN kvs : string(p) \in DOMAIN db}
           E == {p \in DOMAIN Request.pairs : Request.pairs[p].field \in There(k)}
           found == Ascending(D)
<1>1. Executing({"READ"}) /\ res' = exec_read
  BY DEF Read
<1>2. pkg \in Packages /\ pkg.op = "READ"
  BY <1>1, Executed
<1>3. kvs \in Seq([name : Names, val : {0}]) /\ k \in Keys
  BY <1>2, PackageIs
<1>4. /\ DOMAIN Request.pairs = DOMAIN kvs
      /\ \A p \in DOMAIN kvs : Request.pairs[p].field = FieldNo(kvs[p].name)
  <2>1. Request.pairs = PairsOf(kvs)
    BY DEF Request
  <2> QED BY <2>1 DEF PairsOf
<1>5. ASSUME NEW p \in DOMAIN kvs
      PROVE  /\ string(p) \in DOMAIN db <=> FieldNo(kvs[p].name) \in There(k)
             /\ FieldNo(kvs[p].name) \in There(k) =>
                  /\ FieldNo(kvs[p].name) = kvs[p].name[Len(kvs[p].name)]
                  /\ db[string(p)] = StoreOf[k][FieldNo(kvs[p].name)]
  BY <1>2, NameIs
<1>6. exec_read = [p \in DOMAIN found |->
                     [name |-> kvs[found[p]].name, val |-> db[string(found[p])]]]
  BY DEF exec_read
<1> HIDE DEF k, kvs, string
<1>7. D = E
  BY <1>4, <1>5
<1>8. DOMAIN found = 1 .. Cardinality(D) /\ \A p \in DOMAIN found : found[p] \in D
  <2>1. D \in SUBSET (1 .. Len(kvs)) /\ Len(kvs) \in Nat
    BY <1>3
  <2>2. IsFiniteSet(1 .. Len(kvs))
    <3>1. 1 \in Int /\ Len(kvs) \in Int
      BY <2>1
    <3> QED BY <3>1, FS_Interval, Zenon
  <2>3. IsFiniteSet(D) /\ D \subseteq Int
    BY <2>1, <2>2, FS_Subset
  <2> HIDE DEF D
  <2>4. IsList(NumberOrder, D, found)
    BY <2>3, AscendingIs
  <2>5. found \in [1 .. Cardinality(D) -> D]
    BY <2>4 DEF IsList
  <2> HIDE DEF found
  <2> QED BY <2>5
<1> HIDE DEF found
<1>9. ASSUME NEW p \in DOMAIN found
      PROVE  LET f == Request.pairs[found[p]].field
             IN kvs[found[p]].name[Len(kvs[found[p]].name)] = f /\ db[string(found[p])] = StoreOf[k][f]
  <2>1. found[p] \in DOMAIN kvs /\ string(found[p]) \in DOMAIN db
    BY <1>8
  <2> QED BY <1>4, <1>5, <2>1
<1>10. DOMAIN res' = DOMAIN found /\ \A p \in DOMAIN found :
          res'[p].name = kvs[found[p]].name /\ res'[p].val = db[string(found[p])]
  BY <1>1, <1>6
<1>11. Reply' = [p \in DOMAIN res' |-> [field |-> res'[p].name[Len(res'[p].name)], val |-> res'[p].val]]
  BY DEF Reply
<1>12. Reply' = [p \in DOMAIN found |-> [field |-> Request.pairs[found[p]].field,
                                        val |-> StoreOf[k][Request.pairs[found[p]].field]]]
  BY <1>9, <1>10, <1>11
<1>13. found = Ascending(E)
  BY <1>7 DEF found
<1> HIDE DEF E
<1>14. Reply' = [p \in DOMAIN Ascending(E) |-> [field |-> Request.pairs[Ascending(E)[p]].field,
                                        val |-> StoreOf[k][Request.pairs[Ascending(E)[p]].field]]]
  BY <1>12, <1>13
<1> QED BY <1>14 DEF E, k

LEMMA SimRead == ASSUME ExecInv, Read PROVE Store!Read
<1>1. Executing({"READ"}) /\ UNCHANGED <<db, pkg, pos>>
  BY DEF Read
<1>2. pkg \in Packages /\ pkg.op = "READ"
  BY <1>1, Executed
<1>3. StoreOf' = StoreOf /\ Request' = Request
  BY <1>1, StoreSame, RequestSame
<1>4. Pending = <<>> /\ Pending' = <<>>
  BY <1>1, <1>2 DEF Pending, Executing
<1>5. Request.op = "read" /\ Request.key = pkg.key /\ Request.pairs = PairsOf(pkg.kv_pairs)
  BY <1>2, RequestOpIs DEF Request
<1>6. \A S : Store!Ascending(S) = Ascending(S)
  <2>1. \A S : Store!Cardinality(S) = Cardinality(S)
    BY DEF Store!Cardinality, Cardinality
  <2>2. ASSUME NEW S PROVE Store!Ascending(S) = Ascending(S)
    <3>1. ASSUME NEW x \in S
          PROVE  Store!Cardinality({y \in S : y < x}) = Cardinality({y \in S : y < x})
      BY <2>1
    <3>2. ASSUME NEW p \in 1 .. Cardinality(S)
          PROVE  (CHOOSE x \in S : Store!Cardinality({y \in S : y < x}) = p - 1)
                   = CHOOSE x \in S : Cardinality({y \in S : y < x}) = p - 1
      BY <3>1
    <3>3. Store!Cardinality(S) = Cardinality(S)
      BY <2>1
    <3>4. Store!Ascending(S) = [p \in 1 .. Cardinality(S) |->
                                  CHOOSE x \in S : Store!Cardinality({y \in S : y < x}) = p - 1]
      BY <3>3 DEF Store!Ascending
    <3> QED BY <3>2, <3>4 DEF Ascending
  <2> QED BY <2>2
<1>7. Store!Present(pkg.key) = There(pkg.key)
  BY DEF Store!Present, There
<1>8. \A f : Store!Entry(pkg.key, f) = [field |-> f, val |-> StoreOf[pkg.key][f]]
  BY DEF Store!Entry
<1>9. Reply' = [p \in DOMAIN Store!Wanted |-> Store!Entry(pkg.key, Store!Wanted[p])]
  <2>1. CASE pkg.kv_pairs = <<>>
    <3>1. Request.pairs = <<>>
      BY <1>5, <2>1, NoPairs
    <3>2. Store!Wanted = Ascending(There(pkg.key))
      BY <1>6, <1>7, <3>1 DEF Store!Wanted, Request
    <3> QED BY <1>8, <2>1, <3>2, SimReadAll
  <2>2. CASE pkg.kv_pairs # <<>>
    <3> DEFINE E == {p \in DOMAIN Request.pairs : Request.pairs[p].field \in There(pkg.key)}
               there == Ascending(E)
    <3>1. Request.pairs # <<>>
      <4>1. pkg.kv_pairs \in Seq([name : Names, val : {0}])
        BY <1>2, PackageIs
      <4>2. DOMAIN pkg.kv_pairs # {}
        <5>1. Len(pkg.kv_pairs) \in Nat \ {0} /\ DOMAIN pkg.kv_pairs = 1 .. Len(pkg.kv_pairs)
          BY <2>2, <4>1, EmptySeq, LenProperties
        <5>2. 1 \in 1 .. Len(pkg.kv_pairs)
          BY <5>1
        <5> QED BY <5>1, <5>2
      <4>3. DOMAIN Request.pairs # {}
        BY <1>5, <4>2, PairsDomain
      <4> QED BY <4>3
    <3>2. Store!Wanted = [p \in DOMAIN there |-> Request.pairs[there[p]].field]
      BY <1>6, <1>7, <3>1 DEF Store!Wanted, Request
    <3>3. Reply' = [p \in DOMAIN there |-> [field |-> Request.pairs[there[p]].field,
                                           val |-> StoreOf[pkg.key][Request.pairs[there[p]].field]]]
      BY <2>2, SimReadNamed
    <3> HIDE DEF there
    <3> QED BY <1>8, <3>2, <3>3
  <2> QED BY <2>1, <2>2
<1>10. UNCHANGED <<StoreOf, Request, Pending>>
  BY <1>3, <1>4
<1>11. /\ Request.op = "read"
       /\ Reply' = [p \in DOMAIN Store!Wanted |-> Store!Entry(Request.key, Store!Wanted[p])]
  BY <1>5, <1>9
<1> QED BY <1>10, <1>11 DEF Store!Read, Request, Pending, Reply

LEMMA ScanEnd ==
  ASSUME ExecInv, Executing({"SCAN"})
  PROVE  /\ exec_scan \in ScanStates
         /\ pkg \in Packages /\ pkg.op = "SCAN" /\ pkg.key \in Nat /\ pkg.scan_length \in Nat
<1>1. pkg \in Packages /\ pkg.op = "SCAN"
  BY Executed
<1>2. pkg.key \in Nat /\ pkg.scan_length \in Nat
  BY <1>1, PackageIs
<1>3. PICK f : Scanned(ScanStart, f) /\ exec_scan = f[Len(ScanStart)]
  BY <1>2, ScanIs DEF ExecInv
<1>4. Len(ScanStart) \in Nat
  <2>1. PICK S \in SUBSET DOMAIN db : ScanStart = Iterator(S)
    BY StartIs DEF ExecInv
  <2> QED BY <2>1, EntriesListed DEF ExecInv
<1>5. f[Len(ScanStart)] \in ScanStates
  BY <1>3, <1>4 DEF Scanned
<1> QED BY <1>1, <1>2, <1>3, <1>5

LEMMA SimScan == ASSUME ExecInv, Scan PROVE Store!Scan
<1>1. Executing({"SCAN"}) /\ UNCHANGED <<db, pkg, pos>> /\ res' = exec_scan.res
  BY DEF Scan
<1>2. exec_scan \in ScanStates /\ pkg \in Packages /\ pkg.op = "SCAN" /\ pkg.key \in Nat
  BY <1>1, ScanEnd
<1>3. StoreOf' = StoreOf /\ Request' = Request
  BY <1>1, StoreSame, RequestSame
<1>4. Pending = <<>> /\ Pending' = <<>>
  BY <1>1, <1>2 DEF Pending, Executing
<1>5. Request.op = "scan" /\ Request.key = pkg.key
  BY <1>2, RequestOpIs DEF Request
<1>6. res' \in Seq(Kept)
  BY <1>1, <1>2 DEF ScanStates
<1>7. ASSUME NEW p \in DOMAIN Reply'
      PROVE  \E k \in Keys : /\ k >= pkg.key /\ Reply'[p].field \in There(k)
                             /\ Reply'[p] = [field |-> Reply'[p].field, val |-> StoreOf[k][Reply'[p].field]]
  <2>1. p \in DOMAIN res' /\ Reply'[p] = [field |-> res'[p].name[Len(res'[p].name)], val |-> res'[p].val]
    BY DEF Reply
  <2>2. res'[p] \in Kept
    BY <1>6, <2>1
  <2>3. PICK s \in DOMAIN db : KeyOf(s) >= pkg.key /\ res'[p] = [name |-> unpack_key(s).field, val |-> db[s]]
    BY <2>2 DEF Kept
  <2>4. PICK k \in Keys, f \in Fields :
           /\ s = At(k, f) /\ KeyOf(s) = k
           /\ unpack_key(s) = [key |-> k, field |-> <<Letters, f>>]
    BY EntryIs DEF ExecInv
  <2>5. res'[p].name = <<Letters, f>> /\ res'[p].val = db[s]
    BY <2>3, <2>4
  <2>6. res'[p].name[Len(res'[p].name)] = f
    BY <2>5
  <2>7. f \in There(k) /\ StoreOf[k][f] = db[s]
    BY <2>4, ThereIs
  <2> QED BY <2>1, <2>3, <2>4, <2>5, <2>6, <2>7
<1>8. \A k : Store!Present(k) = There(k)
  BY DEF Store!Present, There
<1>9. \A k, f : Store!Entry(k, f) = [field |-> f, val |-> StoreOf[k][f]]
  BY DEF Store!Entry
<1>10. Store!ScanAnswer(Reply')
  BY <1>5, <1>7, <1>8, <1>9 DEF Store!ScanAnswer, Request
<1>11. UNCHANGED <<StoreOf, Request, Pending>>
  BY <1>3, <1>4
<1> QED BY <1>5, <1>10, <1>11 DEF Store!Scan, Request, Pending, Reply

LEMMA SimStep == ASSUME ExecInv, [Next]_vars PROVE [Store!StoreNext]_(Store!storeVars)
<1> USE DEF Store!StoreNext
<1>1. CASE Open
  <2>1. Pending' = Pending
    BY <1>1 DEF Open, Pending, Executing
  <2> QED BY <1>1, <2>1, SimStutter DEF Open
<1>2. CASE Crash
  BY <1>2, SimDie DEF Crash
<1>3. CASE \E p \in Packages : Begin(p)
  BY <1>3, SimBegin
<1>4. CASE Put
  BY <1>4, SimPut
<1>5. CASE Inserted
  <2>1. Executing({"INSERT", "UPDATE"}) /\ pos > Len(pkg.kv_pairs) /\ pc' = "idle"
    BY <1>5 DEF Inserted
  <2>2. Pending' = <<>>
    BY <2>1 DEF Pending, Executing
  <2>3. pkg.kv_pairs \in Seq([name : ShortNames, val : Vals]) /\ pos \in Nat
    BY <2>1, Executed, PackageIs
  <2>4. SubSeq(pkg.kv_pairs, pos, Len(pkg.kv_pairs)) = <<>>
    BY <2>1, <2>3
  <2>5. Pending = <<>>
    BY <2>1, <2>4, NoPairs DEF Pending
  <2> QED BY <1>5, <2>2, <2>5, SimStutter DEF Inserted
<1>6. CASE Read
  BY <1>6, SimRead
<1>7. CASE Scan
  BY <1>7, SimScan
<1>8. CASE ScanThrows
  BY <1>8, SimDie DEF ScanThrows
<1>9. CASE Other
  <2>1. pkg.op \in {"DELETE", "UNKNOWN"} /\ pkg' = pkg
    BY <1>9 DEF Other, Executing
  <2>2. Pending' = Pending
    BY <2>1 DEF Pending, Executing
  <2> QED BY <1>9, <2>2, SimStutter DEF Other
<1>10. CASE UNCHANGED vars
  <2>1. Pending' = Pending
    BY <1>10 DEF vars, Pending, Executing, PairsOf, FieldNo
  <2> QED BY <1>10, <2>1, SimStutter DEF vars
<1> QED BY <1>1, <1>2, <1>3, <1>4, <1>5, <1>6, <1>7, <1>8, <1>9, <1>10 DEF Next

\* Flattening records into strings and back loses nothing (ops.cc): whatever the
\* keys, the fields and the packages, through crashes, lost Puts and scans that
\* abort, every run of the executor is a run of the store of records.
THEOREM ExecutorImplementsStore == Spec => StoreSpec
<1>1. Init => Store!StoreInit
  BY SimInit
<1>2. ExecInv /\ [Next]_vars => [Store!StoreNext]_(Store!storeVars)
  BY SimStep
<1> QED BY <1>1, <1>2, InvAlways, PTL DEF Spec, StoreSpec, Store!StoreSpec

-----------------------------------------------------------------------------
(* Part of a list. *)

\* Of E, the first p of it and the first e of el are the same.
Before(E, it, p, el, e) ==
  \A x \in E : (\E q \in 1 .. p : it[q] = x) <=> (\E q \in 1 .. e : el[q] = x)

\* What a list comes by next is next in the list of a subset, if it is in there.
LEMMA SubList ==
  ASSUME NEW R, NEW S, Ordered(R, S), Cardinality(S) \in Nat, NEW it, IsList(R, S, it),
         NEW E \in SUBSET S, Cardinality(E) \in Nat, NEW el, IsList(R, E, el),
         NEW p \in Nat, p < Cardinality(S), NEW e \in 0 .. Cardinality(E), Before(E, it, p, el, e)
  PROVE  /\ it[p + 1] \in E =>
              e + 1 \in 1 .. Cardinality(E) /\ it[p + 1] = el[e + 1] /\ Before(E, it, p + 1, el, e + 1)
         /\ it[p + 1] \notin E => Before(E, it, p + 1, el, e)
<1> DEFINE L == Cardinality(S)
           M == Cardinality(E)
           y == it[p + 1]
<1>1. L \in Nat /\ M \in Nat /\ e \in Nat /\ e <= M /\ p + 1 \in 1 .. L
  OBVIOUS
<1>2. /\ \A q \in 1 .. L : it[q] \in S
      /\ \A x \in S : \E q \in 1 .. L : it[q] = x
      /\ \A q, r \in 1 .. L : q < r <=> <<it[q], it[r]>> \in R
  BY DEF IsList
<1>3. /\ \A q \in 1 .. M : el[q] \in E
      /\ \A x \in E : \E q \in 1 .. M : el[q] = x
      /\ \A q, r \in 1 .. M : q < r <=> <<el[q], el[r]>> \in R
  BY DEF IsList
<1>4. \A x \in S : ~(<<x, x>> \in R)
  BY DEF Ordered
<1> HIDE DEF L, M
<1>5. ASSUME NEW q \in 1 .. p PROVE it[q] # y
  <2>1. q \in 1 .. L /\ q < p + 1
    BY <1>1
  <2> QED BY <1>1, <1>2, <1>4, <2>1
<1>6. \A x : (\E q \in 1 .. p + 1 : it[q] = x) <=> x = y \/ \E q \in 1 .. p : it[q] = x
  <2> SUFFICES ASSUME NEW x PROVE (\E q \in 1 .. p + 1 : it[q] = x) <=> x = y \/ \E q \in 1 .. p : it[q] = x
    OBVIOUS
  <2>1. p + 1 \in 1 .. p + 1 /\ \A q \in 1 .. p : q \in 1 .. p + 1
    OBVIOUS
  <2>2. \A q \in 1 .. p + 1 : q = p + 1 \/ q \in 1 .. p
    OBVIOUS
  <2> QED BY <2>1, <2>2
<1>7. CASE y \notin E
  BY <1>6, <1>7 DEF Before
<1>8. CASE y \in E
  <2>1. PICK j \in 1 .. M : el[j] = y
    BY <1>3, <1>8
  <2>2. j \in Nat /\ ~(j <= e)
    <3>1. ASSUME j <= e PROVE FALSE
      <4>1. j \in 1 .. e
        BY <1>1, <2>1, <3>1
      <4>2. \E q \in 1 .. p : it[q] = y
        BY <1>8, <2>1, <4>1 DEF Before
      <4> QED BY <1>5, <4>2
    <3> QED BY <1>1, <3>1
  <2>3. e + 1 \in 1 .. M /\ e + 1 <= j
    BY <1>1, <2>2
  <2>4. j = e + 1
    <3> SUFFICES ASSUME e + 1 < j PROVE FALSE
      BY <1>1, <2>2, <2>3
    <3> DEFINE x == el[e + 1]
    <3>1. x \in E /\ <<x, y>> \in R
      BY <1>3, <2>1, <2>3
    <3>2. PICK r \in 1 .. L : it[r] = x
      BY <1>2, <3>1
    <3>3. r < p + 1
      BY <1>1, <1>2, <3>1, <3>2
    <3>4. r \in 1 .. p
      BY <1>1, <3>2, <3>3
    <3>5. PICK q \in 1 .. e : el[q] = x
      BY <3>1, <3>2, <3>4 DEF Before
    <3>6. q \in 1 .. M /\ q < e + 1
      BY <1>1, <3>5
    <3>7. <<x, x>> \in R
      BY <1>3, <2>3, <3>5, <3>6
    <3> QED BY <1>4, <3>1, <3>7
  <2>5. \A x : (\E q \in 1 .. e + 1 : el[q] = x) <=> x = el[e + 1] \/ \E q \in 1 .. e : el[q] = x
    <3> SUFFICES ASSUME NEW x
                 PROVE  (\E q \in 1 .. e + 1 : el[q] = x) <=> x = el[e + 1] \/ \E q \in 1 .. e : el[q] = x
      OBVIOUS
    <3>1. e + 1 \in 1 .. e + 1 /\ \A q \in 1 .. e : q \in 1 .. e + 1
      BY <1>1
    <3>2. \A q \in 1 .. e + 1 : q = e + 1 \/ q \in 1 .. e
      BY <1>1
    <3> QED BY <3>1, <3>2
  <2>6. Before(E, it, p + 1, el, e + 1)
    BY <1>6, <2>1, <2>4, <2>5 DEF Before
  <2> QED BY <1>8, <2>1, <2>3, <2>4, <2>6 DEF M
<1> QED BY <1>7, <1>8

LEMMA SubListBegin ==
  ASSUME NEW E, NEW it, NEW el
  PROVE  Before(E, it, 0, el, 0)
  BY DEF Before

LEMMA SubListEnd ==
  ASSUME NEW R, NEW S, Ordered(R, S), Cardinality(S) \in Nat, NEW it, IsList(R, S, it),
         NEW E \in SUBSET S, Cardinality(E) \in Nat, NEW el, IsList(R, E, el),
         NEW e \in 0 .. Cardinality(E), Before(E, it, Cardinality(S), el, e)
  PROVE  e = Cardinality(E)
<1> DEFINE M == Cardinality(E)
<1> SUFFICES ASSUME e < M PROVE FALSE
  OBVIOUS
<1>1. M \in 1 .. M /\ M \in Nat /\ e \in Nat
  OBVIOUS
<1>2. el[M] \in E /\ el[M] \in S
  BY <1>1 DEF IsList
<1>3. \E q \in 1 .. Cardinality(S) : it[q] = el[M]
  BY <1>2 DEF IsList
<1>4. PICK q \in 1 .. e : el[q] = el[M]
  BY <1>2, <1>3 DEF Before
<1>5. q \in 1 .. M /\ q < M
  BY <1>1, <1>4
<1>6. <<el[q], el[M]>> \in R
  BY <1>1, <1>5 DEF IsList
<1> QED BY <1>2, <1>4, <1>6 DEF Ordered

-----------------------------------------------------------------------------
(* The order of records. *)

LEMMA FirstDigit ==
  ASSUME NEW k \in Nat
  PROVE  Len(Decimal[k]) >= 1 /\ (k > 0 => Decimal[k][1] >= 1)
<1> DEFINE S == {z \in Nat : Len(Decimal[z]) >= 1 /\ (z > 0 => Decimal[z][1] >= 1)}
<1>1. ASSUME NEW z \in Nat, \A m \in Nat : m < z => m \in S PROVE z \in S
  <2>1. Written(z, Decimal)
    BY DecimalIs
  <2>2. CASE z < 10
    BY <2>1, <2>2 DEF Written
  <2>3. CASE z >= 10
    <3> DEFINE m == z \div 10
               d == Decimal[m]
    <3>1. m \in Nat /\ m < z /\ m > 0
      BY <2>3, Tenth
    <3>2. d \in Seq(Digits) /\ z % 10 \in Digits
      BY <3>1, DecimalIs, Tenth
    <3>3. Len(d) >= 1 /\ d[1] >= 1
      BY <1>1, <3>1
    <3>4. Decimal[z] = Append(d, z % 10)
      BY <2>1, <2>3 DEF Written
    <3> HIDE DEF d, m
    <3>5. Len(Append(d, z % 10)) = Len(d) + 1 /\ Append(d, z % 10)[1] = d[1] /\ Len(d) \in Nat
      BY <3>2, <3>3, AppendProperties
    <3>6. Len(Decimal[z]) >= 1 /\ Decimal[z][1] >= 1
      BY <3>3, <3>4, <3>5
    <3> QED BY <3>6
  <2> QED BY <2>2, <2>3
<1>2. Nat \subseteq S
  BY <1>1, StrongInduction
<1> QED BY <1>2

LEMMA LessAsymmetric ==
  ASSUME NEW s \in Strings, NEW t \in Strings, StringLess(s, t)
  PROVE  ~StringLess(t, s)
  BY LessTransitive, LessIrreflexive

\* Nothing comes before record 0.
LEMMA ZeroFirst ==
  ASSUME NEW k \in Nat, NEW f \in 0 .. 9, NEW g \in 0 .. 9, StringLess(At(k, f), At(0, g))
  PROVE  k = 0
<1> SUFFICES ASSUME k > 0 PROVE FALSE
  OBVIOUS
<1> DEFINE s == At(k, f)
           t == At(0, g)
           l == Len(Decimal[k])
           m == Len(Decimal[0])
<1>1. Flat(s, l, k, f) /\ Flat(t, m, 0, g)
  BY AtIs
<1>2. l >= 1 /\ Decimal[k][1] >= 1 /\ l \in Nat /\ Decimal[k][1] \in 0 .. 9
  BY FirstDigit, DecimalString
<1>3. Decimal[0] = <<0>> /\ m = 1
  <2>1. Written(0, Decimal)
    BY DecimalIs
  <2> QED BY <2>1 DEF Written
<1>4. s[1] = Decimal[k][1] /\ 1 \in DOMAIN s /\ t[1] = 0 /\ 1 \in DOMAIN t
  BY <1>1, <1>2, <1>3 DEF Flat
<1>5. StringLess(t, s)
  BY <1>2, <1>4 DEF StringLess
<1>6. s \in Strings /\ t \in Strings
  BY <1>1 DEF Flat
<1> QED BY <1>5, <1>6, LessAsymmetric

\* The entries of a record follow one another.
LEMMA Contiguous ==
  ASSUME NEW k \in Nat, NEW j \in Nat, NEW f \in 0 .. 9, NEW g \in 0 .. 9, NEW h \in 0 .. 9,
         StringLess(At(k, f), At(j, g)), StringLess(At(j, g), At(k, h))
  PROVE  j = k
<1> DEFINE s == At(k, f)
           t == At(j, g)
           u == At(k, h)
           l == Len(Decimal[k])
           m == Len(Decimal[j])
<1>1. Flat(s, l, k, f) /\ Flat(t, m, j, g) /\ Flat(u, l, k, h)
  BY AtIs
<1>2. /\ l \in Nat /\ m \in Nat
      /\ \A p \in 1 .. l : Decimal[k][p] \in 0 .. 9
      /\ \A p \in 1 .. m : Decimal[j][p] \in 0 .. 9
  BY DecimalString
<1>3. StringLess(s, t) /\ StringLess(t, u)
  OBVIOUS
<1> HIDE DEF s, t, u, l, m
<1>4. /\ DOMAIN s = 1 .. l + 3 /\ DOMAIN t = 1 .. m + 3 /\ DOMAIN u = 1 .. l + 3
      /\ \A p \in 1 .. l : s[p] = Decimal[k][p] /\ u[p] = Decimal[k][p]
      /\ \A p \in 1 .. m : t[p] = Decimal[j][p]
      /\ s[l + 1] = Slash /\ u[l + 1] = Slash /\ t[m + 1] = Slash
      /\ s[l + 2] = Letters /\ u[l + 2] = Letters
  BY <1>1 DEF Flat
<1>5. \A p \in 1 .. l + 2 : s[p] = u[p] /\ s[p] \in Int
  <2> SUFFICES ASSUME NEW p \in 1 .. l + 2 PROVE s[p] = u[p] /\ s[p] \in Int
    OBVIOUS
  <2>1. p \in 1 .. l \/ p = l + 1 \/ p = l + 2
    BY <1>2
  <2>2. s[p] = u[p]
    BY <1>4, <2>1
  <2>3. p \in 1 .. Len(s) /\ s \in Seq(Int)
    BY <1>1, <1>2 DEF Flat, Strings
  <2> QED BY <2>2, <2>3, ElementOfSeq
<1>6. \A p \in 1 .. m + 3 : t[p] \in Int
  <2> SUFFICES ASSUME NEW p \in 1 .. m + 3 PROVE t[p] \in Int
    OBVIOUS
  <2>1. p \in 1 .. Len(t) /\ t \in Seq(Int)
    BY <1>1, <1>2 DEF Flat, Strings
  <2> QED BY <2>1, ElementOfSeq
<1>7. PICK a \in DOMAIN t : /\ \A q \in 1 .. a - 1 : q \in DOMAIN s /\ s[q] = t[q]
                            /\ a \in DOMAIN s => s[a] < t[a]
  BY <1>3 DEF StringLess
<1>8. PICK b \in DOMAIN u : /\ \A q \in 1 .. b - 1 : q \in DOMAIN t /\ t[q] = u[q]
                            /\ b \in DOMAIN t => t[b] < u[b]
  BY <1>3 DEF StringLess
<1>9. a \in 1 .. m + 3 /\ b \in 1 .. l + 3 /\ a \in Nat /\ b \in Nat
  BY <1>2, <1>4, <1>7, <1>8
<1>10. a > l + 2
  <2> SUFFICES ASSUME a <= l + 2 PROVE FALSE
    BY <1>2, <1>9
  <2>1. a \in 1 .. l + 2 /\ a \in DOMAIN s
    BY <1>2, <1>4, <1>9
  <2>2. s[a] = u[a] /\ s[a] < t[a] /\ s[a] \in Int /\ t[a] \in Int
    BY <1>5, <1>6, <1>7, <1>9, <2>1
  <2>3. CASE b < a
    <3>1. b \in 1 .. a - 1 /\ b \in 1 .. l + 2 /\ b \in 1 .. m + 3
      BY <1>2, <1>9, <2>3, <2>1
    <3>2. s[b] = t[b] /\ s[b] = u[b] /\ t[b] < u[b]
      BY <1>4, <1>5, <1>7, <1>8, <3>1
    <3> QED BY <1>5, <3>1, <3>2
  <2>4. CASE b = a
    <3>1. t[a] < u[a]
      BY <1>7, <1>8, <2>4
    <3> QED BY <2>2, <3>1
  <2>5. CASE b > a
    <3>1. a \in 1 .. b - 1
      BY <1>9, <2>5
    <3>2. t[a] = u[a]
      BY <1>8, <3>1
    <3> QED BY <2>2, <3>2
  <2> QED BY <1>9, <2>3, <2>4, <2>5
<1>11. l + 3 <= a /\ a <= m + 3 /\ l <= m
  BY <1>2, <1>9, <1>10
<1>12. \A q \in 1 .. l + 2 : s[q] = t[q]
  BY <1>2, <1>7, <1>9, <1>11
<1>13. l = m
  <2> SUFFICES ASSUME l < m PROVE FALSE
    BY <1>2, <1>11
  <2>1. l + 1 \in 1 .. m /\ l + 1 \in 1 .. l + 2
    BY <1>2
  <2>2. t[l + 1] = Slash /\ t[l + 1] \in 0 .. 9
    BY <1>2, <1>4, <1>12, <2>1
  <2> QED BY <2>2 DEF Slash
<1>14. \A p \in 1 .. l : Decimal[k][p] = Decimal[j][p]
  BY <1>2, <1>4, <1>12, <1>13
<1>15. Decimal[k] = Decimal[j]
  BY <1>13, <1>14, SeqEqual, DecimalString DEF l, m, Strings
<1> QED BY <1>15, NumberOfDecimal

-----------------------------------------------------------------------------
(* The records among the entries a scan looks at. *)

Entries == {s \in DOMAIN db : KeyOf(s) >= pkg.key}
KeysIn(p) == {KeyOf(Eligible[q]) : q \in 1 .. p}

LEMMA EligibleIs ==
  ASSUME DbInv
  PROVE  /\ Entries \in SUBSET DOMAIN db /\ Eligible = Iterator(Entries)
         /\ Cardinality(Entries) \in Nat /\ Len(Eligible) = Cardinality(Entries)
         /\ DOMAIN Eligible = 1 .. Cardinality(Entries)
         /\ IsList(StringOrder, Entries, Eligible)
<1>1. Entries \in SUBSET DOMAIN db /\ Eligible = Iterator(Entries)
  BY DEF Entries, Eligible
<1>2. /\ IsList(StringOrder, Entries, Eligible) /\ Len(Eligible) = Cardinality(Entries)
      /\ Cardinality(Entries) \in Nat
  BY <1>1, EntriesListed
<1>3. DOMAIN Eligible = 1 .. Cardinality(Entries)
  BY <1>2 DEF IsList
<1> QED BY <1>1, <1>2, <1>3

LEMMA EligibleKeys ==
  ASSUME DbInv, NEW p \in 1 .. Cardinality(Entries)
  PROVE  /\ Eligible[p] \in Entries /\ Eligible[p] \in DOMAIN db
         /\ KeyOf(Eligible[p]) \in Nat /\ KeyOf(Eligible[p]) \in Keys
         /\ KeyOf(Eligible[p]) >= pkg.key
<1>1. Eligible[p] \in Entries
  BY EligibleIs DEF IsList
<1> QED BY <1>1, EntryIs DEF Entries

LEMMA EligibleOrder ==
  ASSUME DbInv, NEW p \in 1 .. Cardinality(Entries), NEW q \in 1 .. Cardinality(Entries), p < q
  PROVE  /\ StringLess(Eligible[p], Eligible[q])
         /\ KeyOf(Eligible[q]) = 0 => KeyOf(Eligible[p]) = 0
<1> DEFINE s == Eligible[p]
           t == Eligible[q]
<1>1. <<s, t>> \in StringOrder
  BY EligibleIs DEF IsList
<1>2. StringLess(s, t)
  BY <1>1 DEF StringOrder
<1>3. s \in DOMAIN db /\ t \in DOMAIN db
  BY EligibleKeys
<1>4. PICK k \in Nat, f \in 0 .. 9 : s = At(k, f) /\ KeyOf(s) = k
  BY <1>3, EntryIs
<1>5. PICK j \in Nat, g \in 0 .. 9 : t = At(j, g) /\ KeyOf(t) = j
  BY <1>3, EntryIs
<1>6. j = 0 => k = 0
  BY <1>2, <1>4, <1>5, ZeroFirst
<1> QED BY <1>2, <1>4, <1>5, <1>6

\* Between two entries of a record there are only entries of that record.
LEMMA EligibleContiguous ==
  ASSUME DbInv, NEW p \in 1 .. Cardinality(Entries), NEW q \in 1 .. Cardinality(Entries),
         NEW r \in 1 .. Cardinality(Entries), p < q, q < r, KeyOf(Eligible[p]) = KeyOf(Eligible[r])
  PROVE  KeyOf(Eligible[q]) = KeyOf(Eligible[r])
<1> DEFINE s == Eligible[p]
           t == Eligible[q]
           u == Eligible[r]
<1>1. StringLess(s, t) /\ StringLess(t, u)
  BY EligibleOrder
<1>2. s \in DOMAIN db /\ t \in DOMAIN db /\ u \in DOMAIN db
  BY EligibleKeys
<1>3. PICK k \in Nat, f \in 0 .. 9 : s = At(k, f) /\ KeyOf(s) = k
  BY <1>2, EntryIs
<1>4. PICK j \in Nat, g \in 0 .. 9 : t = At(j, g) /\ KeyOf(t) = j
  BY <1>2, EntryIs
<1>5. PICK i \in Nat, h \in 0 .. 9 : u = At(i, h) /\ KeyOf(u) = i
  BY <1>2, EntryIs
<1>6. k = i
  BY <1>3, <1>5
<1>7. StringLess(At(k, f), At(j, g)) /\ StringLess(At(j, g), At(k, h))
  BY <1>1, <1>3, <1>4, <1>5, <1>6
<1>8. j = k
  BY <1>7, Contiguous
<1> QED BY <1>4, <1>5, <1>6, <1>8

LEMMA KeysFinite ==
  ASSUME NEW p \in Nat
  PROVE  IsFiniteSet(KeysIn(p)) /\ RecordsIn(p) = Cardinality(KeysIn(p)) /\ RecordsIn(p) \in Nat
<1> DEFINE h == [q \in 1 .. p |-> KeyOf(Eligible[q])]
           K == KeysIn(p)
<1>1. h \in Surjection(1 .. p, K)
  BY DEF Surjection, KeysIn
<1>2. IsFiniteSet(1 .. p)
  <2>1. 1 \in Int /\ p \in Int
    OBVIOUS
  <2> QED BY <2>1, FS_Interval
<1> HIDE DEF h, K
<1>3. IsFiniteSet(K) /\ Cardinality(K) \in Nat
  BY <1>1, <1>2, FS_Surjection, FS_CardinalityType
<1> QED BY <1>3 DEF K, KeysIn, RecordsIn

LEMMA RecordsGrow ==
  ASSUME NEW p \in Nat, NEW q \in Nat, p <= q
  PROVE  RecordsIn(p) <= RecordsIn(q)
<1>1. KeysIn(p) \in SUBSET KeysIn(q)
  BY DEF KeysIn
<1> QED BY <1>1, KeysFinite, FS_Subset

LEMMA NoRecords == RecordsIn(0) = 0
<1>1. KeysIn(0) = {}
  BY DEF KeysIn
<1> QED BY <1>1, KeysFinite, FS_EmptySet

LEMMA NextRecord ==
  ASSUME DbInv, NEW e \in Nat, e < Cardinality(Entries)
  PROVE  RecordsIn(e + 1) = IF e >= 1 /\ KeyOf(Eligible[e]) = KeyOf(Eligible[e + 1])
                            THEN RecordsIn(e) ELSE RecordsIn(e) + 1
<1> DEFINE M == Cardinality(Entries)
           k == KeyOf(Eligible[e + 1])
<1>1. M \in Nat /\ e + 1 \in 1 .. M /\ e + 1 \in Nat
  BY EligibleIs
<1>2. KeysIn(e + 1) = KeysIn(e) \cup {k}
  <2>1. e + 1 \in 1 .. e + 1 /\ (\A q \in 1 .. e : q \in 1 .. e + 1)
        /\ \A q \in 1 .. e + 1 : q = e + 1 \/ q \in 1 .. e
    OBVIOUS
  <2> QED BY <2>1 DEF KeysIn
<1>3. k \in KeysIn(e) <=> e >= 1 /\ KeyOf(Eligible[e]) = k
  <2>1. ASSUME e >= 1, KeyOf(Eligible[e]) = k PROVE k \in KeysIn(e)
    <3>1. e \in 1 .. e
      BY <2>1
    <3> QED BY <2>1, <3>1 DEF KeysIn
  <2>2. ASSUME k \in KeysIn(e) PROVE e >= 1 /\ KeyOf(Eligible[e]) = k
    <3>1. PICK q \in 1 .. e : KeyOf(Eligible[q]) = k
      BY <2>2 DEF KeysIn
    <3>2. e >= 1 /\ q \in 1 .. M /\ e \in 1 .. M /\ e < e + 1 /\ q <= e
      BY <1>1, <3>1
    <3>3. CASE q = e
      BY <3>1, <3>2, <3>3
    <3>4. CASE q < e
      BY <1>1, <3>1, <3>2, <3>4, EligibleContiguous
    <3> QED BY <3>2, <3>3, <3>4
  <2> QED BY <2>1, <2>2
<1>4. Cardinality(KeysIn(e + 1)) =
        IF k \in KeysIn(e) THEN Cardinality(KeysIn(e)) ELSE Cardinality(KeysIn(e)) + 1
  BY <1>2, KeysFinite, FS_AddElement
<1> QED BY <1>1, <1>3, <1>4, KeysFinite

LEMMA ChargedIs ==
  ASSUME DbInv
  PROVE  /\ Charged \in {0, 1}
         /\ Charged = 1 <=> Cardinality(Entries) >= 1 /\ KeyOf(Eligible[1]) = 0
         /\ \A p \in 1 .. Cardinality(Entries) : KeyOf(Eligible[p]) = 0 => Charged = 1
<1> DEFINE M == Cardinality(Entries)
<1>1. M \in Nat /\ DOMAIN Eligible = 1 .. M
  BY EligibleIs
<1>2. ASSUME NEW p \in 1 .. M, KeyOf(Eligible[p]) = 0 PROVE KeyOf(Eligible[1]) = 0 /\ M >= 1
  <2>1. M >= 1 /\ 1 \in 1 .. M /\ p >= 1
    BY <1>1, <1>2
  <2>2. CASE p = 1
    BY <1>2, <2>1, <2>2
  <2>3. CASE p > 1
    BY <1>2, <2>1, <2>3, EligibleOrder
  <2> QED BY <1>1, <2>1, <2>2, <2>3
<1>3. M >= 1 => 1 \in 1 .. M
  BY <1>1
<1> HIDE DEF M
<1>4. Charged = IF \E p \in 1 .. M : KeyOf(Eligible[p]) = 0 THEN 1 ELSE 0
  BY <1>1 DEF Charged
<1> QED BY <1>2, <1>3, <1>4 DEF M

\* What the first e entries cost: every record but the first, and record 0.
Spent(e) == IF RecordsIn(e) <= 1 + Charged THEN 0 ELSE RecordsIn(e) - 1 - Charged

LEMMA NothingSpent == ASSUME DbInv PROVE Spent(0) = 0
  BY NoRecords, ChargedIs DEF Spent

LEMMA NextSpent ==
  ASSUME DbInv, NEW e \in Nat, e < Cardinality(Entries)
  PROVE  LET last == IF e = 0 THEN 0 ELSE KeyOf(Eligible[e])
             k == KeyOf(Eligible[e + 1])
         IN /\ Spent(e) \in Nat
            /\ last # 0 /\ last # k =>
                 /\ Spent(e + 1) = Spent(e) + 1
                 /\ RecordsIn(e) = Spent(e + 1) + Charged
                 /\ RecordsIn(e + 1) = Spent(e + 1) + Charged + 1
            /\ ~(last # 0 /\ last # k) => Spent(e + 1) = Spent(e)
<1> DEFINE M == Cardinality(Entries)
           last == IF e = 0 THEN 0 ELSE KeyOf(Eligible[e])
           k == KeyOf(Eligible[e + 1])
           a == RecordsIn(e)
           b == RecordsIn(e + 1)
<1>1. M \in Nat /\ e + 1 \in 1 .. M /\ e + 1 \in Nat /\ (e > 0 => e \in 1 .. M)
  BY EligibleIs
<1>2. a \in Nat /\ b \in Nat /\ Charged \in {0, 1}
  BY <1>1, KeysFinite, ChargedIs
<1>3. b = IF e >= 1 /\ last = k THEN a ELSE a + 1
  BY NextRecord
<1>4. CASE e = 0
  <2>1. a = 0 /\ b = 1
    BY <1>3, <1>4, NoRecords
  <2> QED BY <1>2, <1>4, <2>1 DEF Spent
<1>5. CASE e > 0 /\ last = k
  BY <1>2, <1>3, <1>5 DEF Spent
<1>6. CASE e > 0 /\ last # k /\ last = 0
  <2>1. Charged = 1
    BY <1>1, <1>6, ChargedIs
  <2>2. KeysIn(e) = {0}
    <3>1. ASSUME NEW q \in 1 .. e PROVE KeyOf(Eligible[q]) = 0
      <4>1. q \in 1 .. M /\ e \in 1 .. M /\ (q = e \/ q < e)
        BY <1>1, <1>6
      <4> QED BY <1>6, <4>1, EligibleOrder
    <3>2. e \in 1 .. e
      BY <1>6
    <3> QED BY <3>1, <3>2 DEF KeysIn
  <2>3. a = 1
    BY <2>2, KeysFinite, FS_Singleton
  <2> QED BY <1>2, <1>3, <1>6, <2>1, <2>3 DEF Spent
<1>7. CASE e > 0 /\ last # k /\ last # 0
  <2>1. b = a + 1
    BY <1>3, <1>7
  <2>2. last \in KeysIn(e) /\ KeyOf(Eligible[1]) \in KeysIn(e)
    BY <1>7 DEF KeysIn
  <2>3. a >= 1
    <3>1. KeysIn(e) # {}
      BY <2>2
    <3> QED BY <1>2, <3>1, KeysFinite, FS_EmptySet
  <2>4. ASSUME Charged = 1 PROVE a >= 2
    <3>1. KeyOf(Eligible[1]) = 0
      BY <2>4, ChargedIs
    <3>2. ASSUME a = 1 PROVE FALSE
      <4>1. PICK x : KeysIn(e) = {x}
        BY <3>2, KeysFinite, FS_Singleton
      <4> QED BY <1>7, <2>2, <3>1, <4>1
    <3> QED BY <1>2, <2>3, <3>2
  <2> QED BY <1>2, <1>7, <2>1, <2>3, <2>4 DEF Spent
<1> QED BY <1>4, <1>5, <1>6, <1>7

-----------------------------------------------------------------------------
(* A scan of all fields. *)

LEMMA VisitCases ==
  ASSUME DbInv, pkg.key \in Nat, NEW st \in ScanStates, NEW s \in DOMAIN db
  PROVE  LET v == Visit(st, s)
             field == unpack_key(s).field
             next == st.last_key # 0 /\ st.last_key # KeyOf(s)
         IN /\ st.thrown \/ st.rem = 0 => v = st
            /\ ~(st.thrown \/ st.rem = 0) /\ KeyOf(s) > LLMax => v.thrown
            /\ ~(st.thrown \/ st.rem = 0) /\ ~(KeyOf(s) > LLMax) /\ KeyOf(s) < pkg.key => v = st
            /\ ~(st.thrown \/ st.rem = 0) /\ ~(KeyOf(s) > LLMax) /\ ~(KeyOf(s) < pkg.key) =>
                 /\ v.last_key = KeyOf(s) /\ v.thrown = FALSE
                 /\ take_field(field) =>
                      /\ v.res = Append(st.res, [name |-> field, val |-> db[s]])
                      /\ v.rem = IF next THEN st.rem - 1 ELSE st.rem
                 /\ ~take_field(field) => v.res = st.res /\ v.rem = st.rem
<1> DEFINE pair == unpack_key(s)
           taken == take_field(pair.field)
           next == st.last_key # 0 /\ st.last_key # pair.key
           new == [name |-> pair.field, val |-> db[s]]
           v == Visit(st, s)
<1>1. st \in [res : Seq(Kept), rem : Int, last_key : Int, thrown : BOOLEAN]
  BY DEF ScanStates
<1>2. pair.key = KeyOf(s) /\ KeyOf(s) \in Nat
  BY EntryIs
<1> HIDE DEF pair, new
<1>3. ASSUME st.thrown \/ st.rem = 0 PROVE v = st
  BY <1>3 DEF Visit
<1>4. ASSUME ~(st.thrown \/ st.rem = 0), pair.key > LLMax PROVE v.thrown
  <2>1. v = [st EXCEPT !.thrown = TRUE]
    BY <1>4 DEF Visit, pair
  <2> QED BY <1>1, <2>1
<1>5. ASSUME ~(st.thrown \/ st.rem = 0), ~(pair.key > LLMax), pair.key < pkg.key PROVE v = st
  BY <1>5 DEF Visit, pair
<1>6. ASSUME ~(st.thrown \/ st.rem = 0), ~(pair.key > LLMax), ~(pair.key < pkg.key)
      PROVE  /\ v.last_key = pair.key /\ v.thrown = FALSE
             /\ v.res = (IF taken THEN Append(st.res, new) ELSE st.res)
             /\ v.rem = (IF taken /\ next THEN st.rem - 1 ELSE st.rem)
  <2>1. v = [st EXCEPT !.res = IF taken THEN Append(@, new) ELSE @,
                       !.rem = IF taken /\ next THEN @ - 1 ELSE @,
                       !.last_key = pair.key]
    BY <1>6 DEF Visit, pair, new
  <2> DEFINE r == IF taken THEN Append(st.res, new) ELSE st.res
             m == IF taken /\ next THEN st.rem - 1 ELSE st.rem
  <2>2. v = [st EXCEPT !.res = r, !.rem = m, !.last_key = pair.key]
    BY <1>1, <2>1
  <2> HIDE DEF r, m, v
  <2>3. v.res = r /\ v.rem = m /\ v.last_key = pair.key /\ v.thrown = st.thrown
    BY <1>1, <2>2
  <2> QED BY <1>1, <1>6, <2>3 DEF r, m
<1> HIDE DEF v
<1>7. ASSUME ~(st.thrown \/ st.rem = 0), ~(pair.key > LLMax), ~(pair.key < pkg.key), taken
      PROVE  v.res = Append(st.res, new) /\ v.rem = IF next THEN st.rem - 1 ELSE st.rem
  BY <1>6, <1>7
<1>8. ASSUME ~(st.thrown \/ st.rem = 0), ~(pair.key > LLMax), ~(pair.key < pkg.key), ~taken
      PROVE  v.res = st.res /\ v.rem = st.rem
  BY <1>6, <1>8
<1> QED BY <1>2, <1>3, <1>4, <1>5, <1>6, <1>7, <1>8 DEF pair, new, v

Pair(s) == [name |-> unpack_key(s).field, val |-> db[s]]
FoundIn(list, d) == [q \in 1 .. d |-> Pair(list[q])]
Found(d) == FoundIn(Eligible, d)

\* A scan that has used up its length found one entry past the records it was to find.
Stopped(st) ==
  \E d \in 0 .. Cardinality(Entries) :
    /\ st.res = Found(d)
    /\ \/ pkg.scan_length = 0 /\ d = 0
       \/ /\ pkg.scan_length > 0 /\ d >= 1
          /\ RecordsIn(d - 1) = pkg.scan_length + Charged
          /\ RecordsIn(d) = pkg.scan_length + Charged + 1
\* One that has not found all the entries so far.
Running(st, p, e) ==
  /\ st.rem > 0 /\ st.rem = pkg.scan_length - Spent(e)
  /\ st.res = Found(e)
  /\ st.last_key = IF e = 0 THEN 0 ELSE KeyOf(Eligible[e])
  /\ \A q \in 1 .. p : KeyOf(SeekToFirst[q]) <= LLMax
Round(st, p) ==
  \E e \in 0 .. Cardinality(Entries) :
    /\ Before(Entries, SeekToFirst, p, Eligible, e)
    /\ \/ st.thrown
       \/ ~st.thrown /\ st.rem = 0 /\ Stopped(st)
       \/ ~st.thrown /\ Running(st, p, e)

LEMMA FirstIs ==
  ASSUME DbInv
  PROVE  /\ SeekToFirst = Iterator(DOMAIN db) /\ Cardinality(DOMAIN db) \in Nat
         /\ IsList(StringOrder, DOMAIN db, SeekToFirst) /\ Len(SeekToFirst) = Cardinality(DOMAIN db)
         /\ Ordered(StringOrder, DOMAIN db)
  BY EntriesListed, StringOrdered DEF SeekToFirst

LEMMA FoundNext ==
  ASSUME NEW list, NEW e \in Nat
  PROVE  Append(FoundIn(list, e), Pair(list[e + 1])) = FoundIn(list, e + 1)
<1> DEFINE T == {Pair(list[q]) : q \in 1 .. e + 1}
           a == FoundIn(list, e)
           b == FoundIn(list, e + 1)
           x == Pair(list[e + 1])
<1>1. a \in [1 .. e -> T] /\ b \in [1 .. e + 1 -> T] /\ x \in T
  BY DEF FoundIn
<1>2. /\ \A q \in 1 .. e + 1 : b[q] = Pair(list[q])
      /\ \A q \in 1 .. e : a[q] = Pair(list[q])
  BY DEF FoundIn
<1> HIDE DEF a, b, x, T
<1>3. a \in Seq(T) /\ Len(a) = e /\ b \in Seq(T) /\ Len(b) = e + 1
  BY <1>1
<1>4. Append(a, x) \in Seq(T) /\ Len(Append(a, x)) = e + 1
  BY <1>1, <1>3, AppendProperties
<1>5. ASSUME NEW q \in 1 .. e + 1 PROVE Append(a, x)[q] = b[q]
  <2>1. CASE q \in 1 .. e
    <3>1. Append(a, x)[q] = a[q]
      BY <1>1, <1>3, <2>1, AppendProperties
    <3> QED BY <1>2, <2>1, <3>1
  <2>2. CASE q = e + 1
    <3>1. Append(a, x)[q] = x
      BY <1>1, <1>3, <2>2, AppendProperties
    <3> QED BY <1>2, <2>2, <3>1 DEF x
  <2>3. q \in 1 .. e \/ q = e + 1
    OBVIOUS
  <2> QED BY <2>1, <2>2, <2>3
<1>6. Append(a, x) = b
  BY <1>3, <1>4, <1>5, SeqEqual
<1> QED BY <1>6 DEF a, b, x

LEMMA RoundBegin ==
  ASSUME DbInv, pkg.scan_length \in Nat
  PROVE  Round(ScanBegin, 0)
<1>1. Before(Entries, SeekToFirst, 0, Eligible, 0)
  BY SubListBegin
<1>2. 0 \in 0 .. Cardinality(Entries)
  BY EligibleIs
<1>3. ScanBegin.res = Found(0)
  BY DEF ScanBegin, Found, FoundIn
<1>4. CASE pkg.scan_length = 0
  <2>1. Stopped(ScanBegin)
    BY <1>2, <1>3, <1>4 DEF Stopped
  <2> QED BY <1>1, <1>2, <1>4, <2>1 DEF Round, ScanBegin
<1>5. CASE pkg.scan_length > 0
  <2>1. Running(ScanBegin, 0, 0)
    BY <1>3, <1>5, NothingSpent DEF Running, ScanBegin
  <2>2. ~ScanBegin.thrown
    BY DEF ScanBegin
  <2> QED BY <1>1, <1>2, <2>1, <2>2 DEF Round
<1> QED BY <1>4, <1>5

LEMMA RoundNext ==
  ASSUME DbInv, pkg.key \in Nat, pkg.scan_length \in Nat, pkg.kv_pairs = <<>>,
         NEW p \in Nat, p < Cardinality(DOMAIN db), NEW st \in ScanStates, Round(st, p)
  PROVE  Round(Visit(st, SeekToFirst[p + 1]), p + 1)
<1> DEFINE it == SeekToFirst
           el == Eligible
           s == it[p + 1]
           v == Visit(st, s)
           M == Cardinality(Entries)
           field == unpack_key(s).field
           next == st.last_key # 0 /\ st.last_key # KeyOf(s)
<1>1. PICK e \in 0 .. M :
        /\ Before(Entries, it, p, el, e)
        /\ \/ st.thrown
           \/ ~st.thrown /\ st.rem = 0 /\ Stopped(st)
           \/ ~st.thrown /\ Running(st, p, e)
  BY DEF Round
<1>2. M \in Nat /\ e \in Nat /\ e <= M
  BY EligibleIs
<1>3. p + 1 \in 1 .. Cardinality(DOMAIN db)
  BY FirstIs
<1>4. s \in DOMAIN db
  BY <1>3, FirstIs DEF IsList
<1>5. KeyOf(s) \in Nat /\ LLMax \in Nat
  BY <1>4, EntryIs, ExecAssumption DEF ExecAssumption
<1>6. s \in Entries <=> ~(KeyOf(s) < pkg.key)
  BY <1>4, <1>5 DEF Entries
<1>7. /\ s \in Entries => e + 1 \in 1 .. M /\ s = el[e + 1] /\ Before(Entries, it, p + 1, el, e + 1)
      /\ s \notin Entries => Before(Entries, it, p + 1, el, e)
  BY <1>1, FirstIs, EligibleIs, SubList
<1>8. PICK d \in 0 .. M : Before(Entries, it, p + 1, el, d)
  <2>1. e + 1 \in 1 .. M => e + 1 \in 0 .. M
    BY <1>2
  <2> QED BY <1>1, <1>7, <2>1
<1>9. /\ st.thrown \/ st.rem = 0 => v = st
      /\ ~(st.thrown \/ st.rem = 0) /\ KeyOf(s) > LLMax => v.thrown
      /\ ~(st.thrown \/ st.rem = 0) /\ ~(KeyOf(s) > LLMax) /\ KeyOf(s) < pkg.key => v = st
      /\ ~(st.thrown \/ st.rem = 0) /\ ~(KeyOf(s) > LLMax) /\ ~(KeyOf(s) < pkg.key) =>
           /\ v.last_key = KeyOf(s) /\ v.thrown = FALSE
           /\ take_field(field) => /\ v.res = Append(st.res, [name |-> field, val |-> db[s]])
                                   /\ v.rem = IF next THEN st.rem - 1 ELSE st.rem
  BY <1>4, VisitCases
<1> SUFFICES Round(v, p + 1)
  OBVIOUS
<1> HIDE DEF v
<1>10. CASE st.thrown
  BY <1>8, <1>9, <1>10 DEF Round
<1>11. CASE ~st.thrown /\ st.rem = 0 /\ Stopped(st)
  BY <1>8, <1>9, <1>11 DEF Round
<1>12. CASE ~st.thrown /\ Running(st, p, e)
  <2>0. /\ st.rem > 0 /\ st.rem = pkg.scan_length - Spent(e) /\ st.res = Found(e)
        /\ st.last_key = IF e = 0 THEN 0 ELSE KeyOf(Eligible[e])
        /\ \A q \in 1 .. p : KeyOf(it[q]) <= LLMax
    BY <1>12 DEF Running
  <2>1. st.rem \in Int /\ ~(st.thrown \/ st.rem = 0)
    <3>1. st.rem \in Int
      BY DEF ScanStates
    <3> QED BY <1>12, <2>0, <3>1
  <2>2. CASE KeyOf(s) > LLMax
    <3>1. v.thrown
      BY <1>9, <2>1, <2>2
    <3> QED BY <1>8, <3>1 DEF Round
  <2>3. CASE ~(KeyOf(s) > LLMax)
    <3>1. \A q \in 1 .. p + 1 : KeyOf(it[q]) <= LLMax
      <4>1. \A q \in 1 .. p + 1 : q \in 1 .. p \/ q = p + 1
        OBVIOUS
      <4> QED BY <1>5, <2>0, <2>3, <4>1
    <3>2. CASE KeyOf(s) < pkg.key
      <4>1. v = st /\ Before(Entries, it, p + 1, el, e)
        BY <1>6, <1>7, <1>9, <2>1, <2>3, <3>2
      <4>2. Running(v, p + 1, e)
        BY <2>0, <3>1, <4>1 DEF Running
      <4> QED BY <1>12, <4>1, <4>2 DEF Round
    <3>3. CASE ~(KeyOf(s) < pkg.key)
      <4>1. e + 1 \in 1 .. M /\ s = el[e + 1] /\ Before(Entries, it, p + 1, el, e + 1)
        BY <1>6, <1>7, <3>3
      <4>2. take_field(field)
        BY DEF take_field
      <4>3. /\ v.last_key = KeyOf(s) /\ v.thrown = FALSE /\ v.res = Append(st.res, Pair(s))
            /\ v.rem = IF next THEN st.rem - 1 ELSE st.rem
        BY <1>9, <2>1, <2>3, <3>3, <4>2 DEF Pair
      <4>4. v.res = Found(e + 1)
        BY <1>2, <2>0, <4>1, <4>3, FoundNext DEF Found
      <4>5. e < M /\ e + 1 \in 0 .. M /\ e + 1 # 0 /\ (e + 1) - 1 = e
        BY <1>2, <4>1
      <4>6. /\ Spent(e) \in Nat
            /\ next => /\ Spent(e + 1) = Spent(e) + 1
                       /\ RecordsIn(e) = Spent(e + 1) + Charged
                       /\ RecordsIn(e + 1) = Spent(e + 1) + Charged + 1
            /\ ~next => Spent(e + 1) = Spent(e)
        BY <1>2, <2>0, <4>1, <4>5, NextSpent
      <4>7. v.rem = pkg.scan_length - Spent(e + 1) /\ v.rem >= 0 /\ v.rem \in Int
        <5>1. CASE next
          <6>1. v.rem = st.rem - 1 /\ Spent(e + 1) = Spent(e) + 1 /\ Spent(e) \in Nat
            BY <4>3, <4>6, <5>1
          <6> QED BY <2>0, <2>1, <6>1
        <5>2. CASE ~next
          <6>1. v.rem = st.rem /\ Spent(e + 1) = Spent(e) /\ Spent(e) \in Nat
            BY <4>3, <4>6, <5>2
          <6> QED BY <2>0, <2>1, <6>1
        <5> QED BY <5>1, <5>2
      <4>8. CASE v.rem > 0
        <5>1. Running(v, p + 1, e + 1)
          BY <3>1, <4>1, <4>3, <4>4, <4>5, <4>7, <4>8 DEF Running
        <5> QED BY <4>1, <4>3, <4>5, <5>1 DEF Round
      <4>9. CASE v.rem = 0
        <5>0. next
          BY <2>0, <2>1, <4>3, <4>9
        <5>1. pkg.scan_length > 0 /\ Spent(e + 1) = pkg.scan_length
          BY <4>6, <4>7, <4>9, <5>0
        <5>2. RecordsIn(e) = pkg.scan_length + Charged /\ RecordsIn(e + 1) = pkg.scan_length + Charged + 1
          BY <4>6, <5>0, <5>1
        <5>3. e + 1 >= 1
          BY <1>2
        <5>4. Stopped(v)
          BY <4>4, <4>5, <5>1, <5>2, <5>3 DEF Stopped
        <5> QED BY <4>1, <4>3, <4>5, <4>9, <5>4 DEF Round
      <4> QED BY <4>7, <4>8, <4>9
    <3> QED BY <3>2, <3>3
  <2> QED BY <2>2, <2>3
<1> QED BY <1>1, <1>10, <1>11, <1>12

LEMMA AllRounds ==
  ASSUME DbInv, pkg.key \in Nat, pkg.scan_length \in Nat, pkg.kv_pairs = <<>>
  PROVE  Round(exec_scan, Cardinality(DOMAIN db))
<1> DEFINE it == SeekToFirst
           L == Cardinality(DOMAIN db)
<1>1. ScanStart = it
  <2>1. Len(pkg.kv_pairs) = 0
    OBVIOUS
  <2> QED BY <2>1 DEF ScanStart
<1>2. L \in Nat /\ Len(it) = L
  BY FirstIs
<1>3. PICK f : Scanned(it, f) /\ exec_scan = f[L]
  BY <1>1, <1>2, ScanIs
<1>4. /\ f \in [0 .. L -> ScanStates] /\ f[0] = ScanBegin
      /\ \A p \in 1 .. L : f[p] = Visit(f[p - 1], it[p])
  BY <1>2, <1>3 DEF Scanned
<1> DEFINE S == {p \in Nat : p <= L => Round(f[p], p)}
<1> HIDE DEF it, L
<1>5. 0 \in S
  BY <1>4, RoundBegin
<1>6. ASSUME NEW p \in Nat, p \in S PROVE p + 1 \in S
  <2> SUFFICES ASSUME p + 1 <= L PROVE Round(f[p + 1], p + 1)
    OBVIOUS
  <2>1. p < L /\ p + 1 \in 1 .. L /\ (p + 1) - 1 = p /\ p \in 0 .. L
    BY <1>2
  <2>2. Round(f[p], p) /\ f[p] \in ScanStates /\ f[p + 1] = Visit(f[p], it[p + 1])
    BY <1>2, <1>4, <1>6, <2>1
  <2> QED BY <2>1, <2>2, RoundNext DEF it, L
<1> HIDE DEF S
<1>7. L \in S
  BY <1>2, <1>5, <1>6, StepInduction
<1>8. Round(f[L], L)
  BY <1>2, <1>7 DEF S
<1> QED BY <1>3, <1>8 DEF L

\* Where the answer to a scan of all fields ends.
Whole == {p \in 0 .. Len(Eligible) : RecordsIn(p) <= pkg.scan_length + Charged}
AllLen == IF pkg.scan_length = 0 THEN 0 ELSE Min({Max(Whole) + 1, Len(Eligible)})

LEMMA MaxIs ==
  ASSUME NEW S, NEW x \in S, x \in Int, S \subseteq Int, \A y \in S : x >= y
  PROVE  Max(S) = x
<1>1. Max(S) \in S /\ \A y \in S : Max(S) >= y
  BY Zenon DEF Max
<1>2. Max(S) \in Int /\ Max(S) >= x /\ x >= Max(S)
  BY <1>1
<1> DEFINE m == Max(S)
<1> HIDE DEF m
<1>3. m \in Int /\ m >= x /\ x >= m
  BY <1>2 DEF m
<1>4. m = x
  BY <1>3
<1> QED BY <1>4 DEF m

LEMMA MinIs ==
  ASSUME NEW x \in Int, NEW y \in Int
  PROVE  Min({x, y}) = IF x <= y THEN x ELSE y
<1>1. \E z \in {x, y} : \A w \in {x, y} : z =< w
  OBVIOUS
<1>2. Min({x, y}) \in {x, y} /\ \A w \in {x, y} : Min({x, y}) =< w
  BY <1>1, Zenon DEF Min
<1> QED BY <1>2

LEMMA AllFieldsFound ==
  ASSUME DbInv, pkg.key \in Nat, pkg.scan_length \in Nat, pkg.kv_pairs = <<>>, ~exec_scan.thrown
  PROVE  exec_scan.res = Found(AllLen)
<1> DEFINE M == Cardinality(Entries)
           r == exec_scan
           n0 == pkg.scan_length + Charged
<1>1. PICK e \in 0 .. M :
        /\ Before(Entries, SeekToFirst, Cardinality(DOMAIN db), Eligible, e)
        /\ \/ r.rem = 0 /\ Stopped(r)
           \/ Running(r, Cardinality(DOMAIN db), e)
  BY AllRounds DEF Round
<1>2. M \in Nat /\ Len(Eligible) = M
  BY EligibleIs
<1>3. e = M
  BY <1>1, FirstIs, EligibleIs, SubListEnd
<1>4. Charged \in {0, 1} /\ n0 \in Nat
  BY ChargedIs
<1>5. Whole \subseteq Int /\ \A p \in Whole : p \in 0 .. M /\ RecordsIn(p) <= n0
  BY <1>2 DEF Whole
<1>6. CASE Stopped(r)
  <2>1. PICK d \in 0 .. M :
          /\ r.res = Found(d)
          /\ \/ pkg.scan_length = 0 /\ d = 0
             \/ /\ pkg.scan_length > 0 /\ d >= 1
                /\ RecordsIn(d - 1) = n0 /\ RecordsIn(d) = n0 + 1
    BY <1>6 DEF Stopped
  <2>2. CASE pkg.scan_length = 0
    <3>1. d = 0 /\ AllLen = 0
      BY <2>1, <2>2 DEF AllLen
    <3> QED BY <2>1, <3>1
  <2>3. CASE pkg.scan_length > 0
    <3>1. d \in Nat /\ d >= 1 /\ d <= M /\ RecordsIn(d - 1) = n0 /\ RecordsIn(d) = n0 + 1
      BY <1>2, <2>1, <2>3
    <3>2. d - 1 \in 0 .. M /\ d - 1 \in Whole
      BY <1>2, <1>4, <3>1 DEF Whole
    <3>3. ASSUME NEW p \in Whole PROVE d - 1 >= p
      <4>0. p \in Nat /\ RecordsIn(p) <= n0
        BY <1>2, <1>5
      <4>1. p \in Nat /\ RecordsIn(p) \in Nat /\ RecordsIn(p) <= n0
        BY <4>0, KeysFinite
      <4>2. d <= p => RecordsIn(d) <= RecordsIn(p)
        BY <3>1, <4>1, RecordsGrow
      <4> QED BY <1>4, <3>1, <4>1, <4>2
    <3>4. Max(Whole) = d - 1
      <4>1. d - 1 \in Int
        BY <3>1
      <4> QED BY <1>5, <3>2, <3>3, <4>1, MaxIs
    <3>5. AllLen = Min({(d - 1) + 1, M}) /\ (d - 1) + 1 = d
      BY <1>2, <2>3, <3>1, <3>4 DEF AllLen
    <3>6. Min({d, M}) = d
      BY <1>2, <3>1, MinIs
    <3>7. AllLen = d
      BY <3>5, <3>6
    <3> QED BY <2>1, <3>7
  <2> QED BY <2>2, <2>3
<1>7. CASE Running(r, Cardinality(DOMAIN db), M)
  <2>1. r.rem > 0 /\ r.rem = pkg.scan_length - Spent(M) /\ r.res = Found(M)
    BY <1>7 DEF Running
  <2>2. RecordsIn(M) \in Nat
    BY <1>2, KeysFinite
  <2>3. RecordsIn(M) <= n0 /\ pkg.scan_length > 0
    BY <1>4, <2>1, <2>2 DEF Spent
  <2>4. M \in Whole
    BY <1>2, <2>3 DEF Whole
  <2>5. Max(Whole) = M
    BY <1>2, <1>5, <2>4, MaxIs
  <2>6. AllLen = Min({M + 1, M})
    BY <1>2, <2>3, <2>5 DEF AllLen
  <2>7. Min({M + 1, M}) = M
    BY <1>2, MinIs
  <2> QED BY <2>1, <2>6, <2>7
<1> QED BY <1>1, <1>3, <1>6, <1>7

LEMMA RecordIs ==
  ASSUME ExecInv, NEW k
  PROVE  k \in RecordsOf <=> \E s \in DOMAIN db : KeyOf(s) = k
<1>1. ASSUME k \in RecordsOf PROVE \E s \in DOMAIN db : KeyOf(s) = k
  <2>1. PICK f \in Fields : k \in Keys /\ Has(k, f)
    BY <1>1 DEF RecordsOf
  <2>2. At(k, f) \in DOMAIN db
    BY <2>1, ThereIs DEF Has, There
  <2>3. k \in Nat /\ f \in 0 .. 9
    BY <2>1, ExecAssumption DEF ExecAssumption
  <2> QED BY <2>2, <2>3, Unpacked
<1>2. ASSUME NEW s \in DOMAIN db, KeyOf(s) = k PROVE k \in RecordsOf
  <2>1. PICK j \in Keys, f \in Fields : s = At(j, f) /\ KeyOf(s) = j
    BY EntryIs DEF ExecInv
  <2>2. f \in There(j) /\ j = k
    BY <1>2, <2>1, ThereIs
  <2> QED BY <2>1, <2>2 DEF RecordsOf, Has, There
<1> QED BY <1>1, <1>2

LEMMA AllKeysFit ==
  ASSUME ExecInv, pkg.key \in Nat, pkg.scan_length \in Nat, pkg.kv_pairs = <<>>, ~exec_scan.thrown,
         pkg.scan_length > 0, pkg.scan_length >= Cardinality(RecordsOf)
  PROVE  \A k \in RecordsOf : k <= LLMax
<1> DEFINE M == Cardinality(Entries)
           L == Cardinality(DOMAIN db)
           r == exec_scan
<1>1. PICK e \in 0 .. M :
        /\ Before(Entries, SeekToFirst, L, Eligible, e)
        /\ \/ r.rem = 0 /\ Stopped(r)
           \/ Running(r, L, e)
  BY AllRounds DEF Round, ExecInv
<1>2. M \in Nat /\ L \in Nat
  BY EligibleIs, FirstIs DEF ExecInv
<1>3. IsFiniteSet(RecordsOf) /\ Cardinality(RecordsOf) \in Nat
  <2> DEFINE D == DOMAIN db
             h == [s \in D |-> KeyOf(s)]
             T == RecordsOf
  <2>1. h \in Surjection(D, T)
    BY RecordIs DEF Surjection
  <2>2. IsFiniteSet(D)
    BY DEF ExecInv, DbInv
  <2> HIDE DEF D, h, T
  <2>3. IsFiniteSet(T) /\ Cardinality(T) \in Nat
    BY <2>1, <2>2, FS_Surjection, FS_CardinalityType
  <2> QED BY <2>3 DEF T
<1>4. ~Stopped(r)
  <2> SUFFICES ASSUME Stopped(r) PROVE FALSE
    OBVIOUS
  <2>1. PICK d \in 0 .. M : RecordsIn(d) = pkg.scan_length + Charged + 1
    BY DEF Stopped
  <2>2. d \in Nat /\ Charged \in {0, 1}
    BY <1>2, ChargedIs DEF ExecInv
  <2>3. KeysIn(d) \in SUBSET RecordsOf
    <3>1. ASSUME NEW q \in 1 .. d PROVE KeyOf(Eligible[q]) \in RecordsOf
      <4>1. q \in 1 .. M
        BY <1>2, <2>2
      <4>2. Eligible[q] \in DOMAIN db
        BY <4>1, EligibleKeys DEF ExecInv
      <4> QED BY <4>2, RecordIs
    <3> QED BY <3>1 DEF KeysIn
  <2>4. RecordsIn(d) <= Cardinality(RecordsOf)
    BY <1>3, <2>2, <2>3, FS_Subset, KeysFinite
  <2> QED BY <1>3, <2>1, <2>2, <2>4
<1>5. \A q \in 1 .. L : KeyOf(SeekToFirst[q]) <= LLMax
  BY <1>1, <1>4 DEF Running
<1>6. ASSUME NEW k \in RecordsOf PROVE k <= LLMax
  <2>1. PICK s \in DOMAIN db : KeyOf(s) = k
    BY RecordIs
  <2>2. PICK q \in 1 .. L : SeekToFirst[q] = s
    BY FirstIs DEF IsList, ExecInv
  <2> QED BY <1>5, <2>1, <2>2
<1> QED BY <1>6

-----------------------------------------------------------------------------
(* Between the end of a scan and the next package nothing changes. *)

LEMMA OnlyScanFinishes ==
  ASSUME ExecInv, [Next]_vars, Finished("SCAN")'
  PROVE  \/ Scan
         \/ Finished("SCAN") /\ UNCHANGED <<db, pkg, res>>
<1> USE DEF Finished
<1>1. CASE Open
  BY <1>1 DEF Open, ExecInv, PkgInv, NoPackage
<1>2. CASE Crash
  BY <1>2 DEF Crash, Die
<1>3. CASE \E p \in Packages : Begin(p)
  BY <1>3 DEF Begin
<1>4. CASE Put
  BY <1>4 DEF Put, Executing
<1>5. CASE Inserted
  BY <1>5 DEF Inserted, Executing
<1>6. CASE Read
  BY <1>6 DEF Read, Executing
<1>7. CASE ScanThrows
  BY <1>7 DEF ScanThrows, Die
<1>8. CASE Other
  BY <1>8 DEF Other, Executing
<1>9. CASE UNCHANGED vars
  BY <1>9 DEF vars
<1> QED BY <1>1, <1>2, <1>3, <1>4, <1>5, <1>6, <1>7, <1>8, <1>9 DEF Next

LEMMA ScanEnds ==
  ASSUME ExecInv, Scan
  PROVE  /\ ~exec_scan.thrown /\ res' = exec_scan.res /\ UNCHANGED <<db, pkg>>
         /\ pkg.key \in Nat /\ pkg.scan_length \in Nat
  BY ScanEnd DEF Scan

LEMMA AllFieldsIs ==
  ScanAllFields <=> (Finished("SCAN") /\ pkg.kv_pairs = <<>> => res = Found(AllLen))
  BY DEF ScanAllFields, Found, FoundIn, AllLen, Whole, Pair

LEMMA FoundSame ==
  ASSUME UNCHANGED <<db, pkg>>
  PROVE  Found(AllLen)' = Found(AllLen)
<1>1. Eligible' = Eligible
  BY DEF Eligible
<1>2. Charged' = Charged
  BY <1>1 DEF Charged
<1>3. Whole' = Whole
  BY <1>1, <1>2 DEF Whole, RecordsIn
<1>4. AllLen' = AllLen
  BY <1>1, <1>3 DEF AllLen
<1> QED BY <1>1, <1>4 DEF Found, FoundIn, Pair

\* A scan without names (exec_scan in ops.cc) returns the scan_length first
\* records completely and one field of the record after them, whatever the keys,
\* and whatever the order of the database makes of them.
THEOREM ScanAllFieldsCorrect == Spec => []ScanAllFields
<1>1. Init => ScanAllFields
  BY DEF Init, ScanAllFields, Finished
<1>2. ASSUME ExecInv, ScanAllFields, [Next]_vars PROVE ScanAllFields'
  <2> SUFFICES ASSUME Finished("SCAN")', (pkg.kv_pairs = <<>>)' PROVE (res = Found(AllLen))'
    BY DEF ScanAllFields, Found, FoundIn, AllLen, Whole, Pair
  <2>1. CASE Scan
    <3>1. /\ ~exec_scan.thrown /\ res' = exec_scan.res /\ UNCHANGED <<db, pkg>>
          /\ pkg.key \in Nat /\ pkg.scan_length \in Nat
      BY <1>2, <2>1, ScanEnds
    <3>2. exec_scan.res = Found(AllLen)
      BY <1>2, <3>1, AllFieldsFound DEF ExecInv
    <3> QED BY <3>1, <3>2, FoundSame
  <2>2. CASE Finished("SCAN") /\ UNCHANGED <<db, pkg, res>>
    <3>1. res = Found(AllLen)
      BY <1>2, <2>2, AllFieldsIs
    <3> QED BY <2>2, <3>1, FoundSame
  <2> QED BY <1>2, <2>1, <2>2, OnlyScanFinishes
<1> QED BY <1>1, <1>2, InvAlways, PTL DEF Spec

ScansFit ==
  Finished("SCAN") /\ pkg.kv_pairs = <<>> /\ pkg.scan_length >= Cardinality(RecordsOf) =>
    pkg.scan_length = 0 \/ \A k \in RecordsOf : k <= LLMax

LEMMA ScanThrowsOnly == ASSUME ExecInv, ScanThrows PROVE \E k \in RecordsOf : k > LLMax
<1>1. Executing({"SCAN"}) /\ exec_scan.thrown
  BY DEF ScanThrows
<1>2. exec_scan \in ScanStates
  BY <1>1, ScanEnd
<1>3. PICK s \in DOMAIN db : KeyOf(s) > LLMax
  BY <1>1, <1>2 DEF ScanStates
<1> QED BY <1>3, RecordIs

\* Only a key that is no long long makes a scan abort (std::stoll in unpack_key),
\* and a scan long enough for all records that finished has met no such key.
THEOREM StollThrowsCorrect == Spec => StollThrows
<1>1. Init => ScansFit
  BY DEF Init, ScansFit, Finished
<1>2. ASSUME ExecInv, ScansFit, [Next]_vars PROVE ScansFit'
  <2> SUFFICES ASSUME Finished("SCAN")', (pkg.kv_pairs = <<>>)',
                      (pkg.scan_length >= Cardinality(RecordsOf))', (pkg.scan_length # 0)'
               PROVE  (\A k \in RecordsOf : k <= LLMax)'
    BY DEF ScansFit
  <2>0. ASSUME UNCHANGED <<db, pkg>> PROVE RecordsOf' = RecordsOf
    BY <2>0, StoreSame DEF RecordsOf, Has
  <2>1. CASE Scan
    <3>1. /\ ~exec_scan.thrown /\ UNCHANGED <<db, pkg>>
          /\ pkg.key \in Nat /\ pkg.scan_length \in Nat
      BY <1>2, <2>1, ScanEnds
    <3>2. pkg.kv_pairs = <<>> /\ pkg.scan_length >= Cardinality(RecordsOf) /\ pkg.scan_length > 0
      BY <2>0, <3>1
    <3>3. \A k \in RecordsOf : k <= LLMax
      BY <1>2, <3>1, <3>2, AllKeysFit
    <3> QED BY <2>0, <3>1, <3>3
  <2>2. CASE Finished("SCAN") /\ UNCHANGED <<db, pkg, res>>
    <3>1. pkg.kv_pairs = <<>> /\ pkg.scan_length >= Cardinality(RecordsOf) /\ pkg.scan_length # 0
      BY <2>0, <2>2
    <3>2. \A k \in RecordsOf : k <= LLMax
      BY <1>2, <2>2, <3>1 DEF ScansFit
    <3> QED BY <2>0, <2>2, <3>2
  <2> QED BY <1>2, <2>1, <2>2, OnlyScanFinishes
<1>3. ExecInv /\ [Next]_vars => [ScanThrows => \E k \in RecordsOf : k > LLMax]_vars
  BY ScanThrowsOnly
<1>4. Spec => []ScansFit
  BY <1>1, <1>2, InvAlways, PTL DEF Spec
<1>5. Spec => [][ScanThrows => \E k \in RecordsOf : k > LLMax]_vars
  BY <1>3, InvAlways, PTL DEF Spec
<1> QED BY <1>4, <1>5, PTL DEF StollThrows, ScansFit

-----------------------------------------------------------------------------
(* A scan of one field. *)

\* Where two decimals of the same length differ first, the smaller number has the smaller digit.
Differ(k, j) ==
  \E p \in 1 .. Len(Decimal[k]) :
    (\A q \in 1 .. p - 1 : Decimal[k][q] = Decimal[j][q]) /\ Decimal[k][p] < Decimal[j][p]

LEMMA DecimalOrder ==
  ASSUME NEW k \in Nat, NEW j \in Nat, k < j, Len(Decimal[k]) = Len(Decimal[j])
  PROVE  Differ(k, j)
<1> DEFINE S == {z \in Nat : \A i \in Nat : i < z /\ Len(Decimal[i]) = Len(Decimal[z]) => Differ(i, z)}
<1>1. ASSUME NEW z \in Nat, \A m \in Nat : m < z => m \in S PROVE z \in S
  <2> SUFFICES ASSUME NEW i \in Nat, i < z, Len(Decimal[i]) = Len(Decimal[z]) PROVE Differ(i, z)
    OBVIOUS
  <2>1. Written(z, Decimal) /\ Written(i, Decimal)
    BY DecimalIs
  <2>2. CASE z < 10
    <3>1. Decimal[z] = <<z>> /\ Decimal[i] = <<i>>
      BY <2>1, <2>2 DEF Written
    <3>2. 1 \in 1 .. Len(Decimal[i]) /\ Decimal[i][1] < Decimal[z][1]
      BY <3>1
    <3>3. \A q \in 1 .. 1 - 1 : Decimal[i][q] = Decimal[z][q]
      OBVIOUS
    <3> QED BY <3>2, <3>3 DEF Differ
  <2>3. CASE z >= 10
    <3> DEFINE a == i \div 10
               b == z \div 10
               c == i % 10
               d == z % 10
               A == Decimal[a]
               B == Decimal[b]
               l == Len(B)
    <3>1. b \in Nat /\ b < z /\ d \in 0 .. 9 /\ z = 10 * b + d
      BY <2>3, Tenth DEF Digits
    <3>2. a \in Nat /\ c \in 0 .. 9 /\ i = 10 * a + c
      BY Tenth DEF Digits
    <3>3. A \in Seq(Int) /\ B \in Seq(Int) /\ l \in Nat /\ l >= 1
      BY <3>1, <3>2, DecimalString, FirstDigit DEF Strings
    <3>4. Decimal[z] = Append(B, d)
      BY <2>1, <2>3 DEF Written
    <3>5. i < 10 => Decimal[i] = <<i>>
      BY <2>1 DEF Written
    <3>6. ~(i < 10) => Decimal[i] = Append(A, c)
      BY <2>1 DEF Written
    <3>7. \A m \in S : m \in Nat /\ \A h \in Nat : h < m /\ Len(Decimal[h]) = Len(Decimal[m]) => Differ(h, m)
      OBVIOUS
    <3> HIDE DEF a, b, c, d, A, B, l, S
    <3>8. /\ Append(B, d) \in Seq(Int) /\ Len(Append(B, d)) = l + 1
          /\ (\A p \in 1 .. l : Append(B, d)[p] = B[p]) /\ Append(B, d)[l + 1] = d
      BY <3>1, <3>3, AppendProperties DEF l
    <3>9. ~(i < 10)
      <4>1. Len(Decimal[z]) = l + 1
        BY <3>4, <3>8
      <4>2. i < 10 => Len(Decimal[i]) = 1
        <5>1. Len(<<i>>) = 1
          OBVIOUS
        <5> QED BY <3>5, <5>1, Zenon
      <4> QED BY <3>3, <4>1, <4>2
    <3>10. /\ Len(Append(A, c)) = Len(A) + 1 /\ Len(A) \in Nat
           /\ (\A p \in 1 .. Len(A) : Append(A, c)[p] = A[p]) /\ Append(A, c)[Len(A) + 1] = c
      BY <3>2, <3>3, AppendProperties
    <3>11. Len(A) = l
      BY <3>3, <3>4, <3>6, <3>8, <3>9, <3>10
    <3>12. /\ Len(Decimal[i]) = l + 1
           /\ \A p \in 1 .. l : Decimal[i][p] = A[p] /\ Decimal[z][p] = B[p]
           /\ Decimal[i][l + 1] = c /\ Decimal[z][l + 1] = d
      BY <3>4, <3>6, <3>8, <3>9, <3>10, <3>11
    <3>13. a < b \/ (a = b /\ c < d)
      BY <3>1, <3>2
    <3>14. CASE a < b
      <4>1. Differ(a, b)
        BY <1>1, <3>1, <3>2, <3>7, <3>11, <3>14 DEF A, B, l
      <4>2. PICK p \in 1 .. l : (\A q \in 1 .. p - 1 : A[q] = B[q]) /\ A[p] < B[p]
        BY <3>11, <4>1 DEF Differ, A, B
      <4>3. p \in 1 .. l + 1 /\ \A q \in 1 .. p - 1 : q \in 1 .. l
        BY <3>3, <4>2
      <4>4. Decimal[i][p] < Decimal[z][p] /\ \A q \in 1 .. p - 1 : Decimal[i][q] = Decimal[z][q]
        BY <3>12, <4>2, <4>3
      <4> QED BY <3>12, <4>3, <4>4 DEF Differ
    <3>15. CASE a = b /\ c < d
      <4>1. l + 1 \in 1 .. l + 1 /\ (l + 1) - 1 = l
        BY <3>3
      <4>2. \A q \in 1 .. (l + 1) - 1 : Decimal[i][q] = Decimal[z][q]
        BY <3>12, <3>15, <4>1 DEF A, B
      <4>3. Decimal[i][l + 1] < Decimal[z][l + 1]
        BY <3>12, <3>15
      <4> QED BY <3>12, <4>1, <4>2, <4>3 DEF Differ
    <3> QED BY <3>13, <3>14, <3>15
  <2> QED BY <2>2, <2>3
<1>2. Nat \subseteq S
  BY <1>1, StrongInduction
<1> QED BY <1>2

\* Records whose keys have equally many digits come in the order of their keys.
LEMMA AtOrder ==
  ASSUME NEW k \in Nat, NEW j \in Nat, NEW f \in 0 .. 9, NEW g \in 0 .. 9,
         k < j, Len(Decimal[k]) = Len(Decimal[j])
  PROVE  StringLess(At(k, f), At(j, g))
<1> DEFINE s == At(k, f)
           t == At(j, g)
           l == Len(Decimal[k])
<1>1. Flat(s, l, k, f) /\ Flat(t, l, j, g)
  BY AtIs
<1>2. PICK p \in 1 .. l : /\ \A q \in 1 .. p - 1 : Decimal[k][q] = Decimal[j][q]
                          /\ Decimal[k][p] < Decimal[j][p]
  BY DecimalOrder DEF Differ
<1>3. l \in Nat
  BY DecimalString
<1> HIDE DEF s, t, l
<1>4. /\ DOMAIN s = 1 .. l + 3 /\ DOMAIN t = 1 .. l + 3
      /\ \A q \in 1 .. l : s[q] = Decimal[k][q] /\ t[q] = Decimal[j][q]
  BY <1>1 DEF Flat
<1>5. p \in DOMAIN s /\ p \in DOMAIN t /\ \A q \in 1 .. p - 1 : q \in 1 .. l /\ q \in DOMAIN s
  BY <1>2, <1>3, <1>4
<1>6. s[p] < t[p] /\ \A q \in 1 .. p - 1 : s[q] = t[q]
  BY <1>2, <1>4, <1>5
<1>7. StringLess(s, t)
  BY <1>5, <1>6 DEF StringLess
<1> QED BY <1>7 DEF s, t

AskedKeys == {k \in RecordsOf : k >= pkg.key /\ Has(k, Asked)}
Sought == {s \in DOMAIN db : ~StringLess(s, At(pkg.key, Asked))}
Taken == {At(k, Asked) : k \in AskedKeys}

\* A scan of one field, of records whose keys have equally many digits.
OneFieldScan ==
  /\ ExecInv /\ pkg \in Packages /\ pkg.op = "SCAN" /\ OneField
  /\ \A k \in RecordsOf : SameLength(k)

LEMMA OneFieldIs ==
  ASSUME OneFieldScan
  PROVE  /\ Asked \in Fields /\ Asked \in 0 .. 9 /\ pkg.key \in Nat /\ pkg.scan_length \in Nat
         /\ pkg.kv_pairs[1].name = <<Letters, Asked>> /\ DOMAIN pkg.kv_pairs = {1}
         /\ ScanStart = Iterator(Sought)
<1>1. /\ pkg.key \in Nat /\ pkg.scan_length \in Nat
      /\ pkg.kv_pairs \in Seq([name : Names, val : {0}])
  BY PackageIs DEF OneFieldScan
<1>2. Len(pkg.kv_pairs) = 1 /\ Len(pkg.kv_pairs[1].name) = 2
  BY DEF OneFieldScan, OneField
<1>3. DOMAIN pkg.kv_pairs = {1}
  BY <1>1, <1>2
<1> DEFINE T == [name : Names, val : {0}]
           kvs == pkg.kv_pairs
           name == kvs[1].name
<1>4. kvs[1] \in T
  <2>1. kvs \in Seq(T) /\ 1 \in 1 .. Len(kvs)
    BY <1>1, <1>2
  <2> HIDE DEF T, kvs
  <2> QED BY <2>1, ElementOfSeq
<1>5. name \in Names /\ Len(name) = 2
  BY <1>2, <1>4
<1> HIDE DEF name
<1>6. PICK f \in Fields : name = FieldPrefix \o <<f>>
  <2>1. ASSUME NEW f \in Fields, name = <<f>> PROVE FALSE
    BY <1>5, <2>1
  <2> QED BY <1>5, <2>1, Zenon DEF Names
<1>7. name = <<Letters, f>> /\ f \in 0 .. 9
  <2>1. f \in 0 .. 9
    BY ExecAssumption DEF ExecAssumption
  <2>2. <<Letters>> \in Seq(Int) /\ <<f>> \in Seq(Int)
    BY <2>1 DEF Letters
  <2>3. name \in Seq(Int) /\ Len(name) = 2 /\ name[1] = Letters /\ name[2] = f
    BY <1>6, <2>2 DEF FieldPrefix
  <2>4. <<Letters, f>> \in Seq(Int) /\ Len(<<Letters, f>>) = 2
    BY <2>1 DEF Letters
  <2>5. \A q \in 1 .. 2 : name[q] = <<Letters, f>>[q]
    BY <2>3
  <2> QED BY <2>1, <2>3, <2>4, <2>5, SeqEqual
<1>8. Asked = f /\ name = pkg.kv_pairs[1].name
  BY <1>7 DEF Asked, name
<1>9. pack_key(pkg.key, pkg.kv_pairs[1].name, NoPrefix) = At(pkg.key, Asked)
  BY <1>1, <1>6, <1>7, <1>8, FullName
<1>10. ScanStart = Iterator(Sought)
  BY <1>2, <1>9 DEF ScanStart, Seek, Sought
<1> QED BY <1>1, <1>3, <1>7, <1>8, <1>10

\* The entries sought from: those of records from the key on, the ones with the field are taken.
LEMMA SoughtIs ==
  ASSUME OneFieldScan, NEW s \in Sought
  PROVE  /\ s \in DOMAIN db /\ KeyOf(s) >= pkg.key
         /\ take_field(unpack_key(s).field) <=> s \in Taken
<1>1. s \in DOMAIN db /\ ~StringLess(s, At(pkg.key, Asked)) /\ ExecInv /\ DbInv
  BY DEF Sought, OneFieldScan, ExecInv
<1>2. PICK k \in Keys, g \in Fields :
        /\ k \in Nat /\ g \in 0 .. 9 /\ s = At(k, g) /\ KeyOf(s) = k
        /\ unpack_key(s) = [key |-> k, field |-> <<Letters, g>>]
  BY <1>1, EntryIs
<1>3. /\ Asked \in Fields /\ Asked \in 0 .. 9 /\ pkg.key \in Nat
      /\ pkg.kv_pairs[1].name = <<Letters, Asked>> /\ DOMAIN pkg.kv_pairs = {1}
  BY OneFieldIs
<1>4. k \in RecordsOf
  BY <1>1, <1>2, RecordIs
<1>5. Len(Decimal[k]) = Len(Decimal[pkg.key])
  BY <1>4 DEF OneFieldScan, SameLength
<1>6. k >= pkg.key
  <2> SUFFICES ASSUME k < pkg.key PROVE FALSE
    BY <1>2, <1>3
  <2> QED BY <1>1, <1>2, <1>3, <1>5, AtOrder
<1>7. take_field(unpack_key(s).field) <=> g = Asked
  <2>1. unpack_key(s).field = <<Letters, g>>
    BY <1>2
  <2>2. <<Letters, g>> = <<Letters, Asked>> <=> g = Asked
    OBVIOUS
  <2>3. pkg.kv_pairs # <<>>
    BY <1>3
  <2> QED BY <1>3, <2>1, <2>2, <2>3 DEF take_field
<1>8. ASSUME g = Asked PROVE s \in Taken
  <2>1. Has(k, Asked)
    BY <1>1, <1>2, <1>8, ThereIs DEF Has, There
  <2> QED BY <1>2, <1>4, <1>6, <1>8, <2>1 DEF Taken, AskedKeys
<1>9. ASSUME s \in Taken PROVE g = Asked
  <2>1. PICK j \in AskedKeys : s = At(j, Asked)
    BY <1>9 DEF Taken
  <2>2. j \in Nat
    BY <2>1, ExecAssumption DEF AskedKeys, RecordsOf, ExecAssumption
  <2>3. At(k, g) = At(j, Asked)
    BY <1>2, <2>1
  <2> QED BY <1>2, <1>3, <2>2, <2>3, AtInjective
<1> QED BY <1>1, <1>2, <1>6, <1>7, <1>8, <1>9

LEMMA AskedIs ==
  ASSUME OneFieldScan, NEW k \in AskedKeys
  PROVE  /\ k \in Keys /\ k \in Nat /\ k >= pkg.key /\ Len(Decimal[k]) = Len(Decimal[pkg.key])
         /\ At(k, Asked) \in Sought /\ StoreOf[k][Asked] = db[At(k, Asked)]
         /\ At(k, Asked) \in Strings
<1>1. k \in RecordsOf /\ k \in Keys /\ k >= pkg.key /\ Has(k, Asked) /\ ExecInv
  BY DEF AskedKeys, RecordsOf, OneFieldScan
<1>2. k \in Nat
  BY <1>1, ExecAssumption DEF ExecAssumption
<1>3. Asked \in Fields /\ Asked \in 0 .. 9 /\ pkg.key \in Nat
  BY OneFieldIs
<1>4. Len(Decimal[k]) = Len(Decimal[pkg.key])
  BY <1>1 DEF OneFieldScan, SameLength
<1>5. At(k, Asked) \in DOMAIN db /\ StoreOf[k][Asked] = db[At(k, Asked)]
  BY <1>1, <1>3, ThereIs DEF Has, There
<1>6. At(k, Asked) \in Strings /\ At(pkg.key, Asked) \in Strings
  BY <1>2, <1>3, AtIs DEF Flat
<1>7. ~StringLess(At(k, Asked), At(pkg.key, Asked))
  <2>1. CASE k = pkg.key
    BY <1>6, <2>1, LessIrreflexive
  <2>2. CASE k > pkg.key
    <3>1. StringLess(At(pkg.key, Asked), At(k, Asked))
      BY <1>2, <1>3, <1>4, <2>2, AtOrder
    <3> QED BY <1>6, <3>1, LessAsymmetric
  <2> QED BY <1>1, <1>2, <1>3, <2>1, <2>2
<1> QED BY <1>1, <1>2, <1>4, <1>5, <1>6, <1>7 DEF Sought

\* The iterator comes by them in the order of the keys.
LEMMA TakenIs ==
  ASSUME OneFieldScan
  PROVE  LET asc == Ascending(AskedKeys)
             list == Iterator(Taken)
             m == Cardinality(Taken)
         IN /\ m \in Nat /\ Taken \in SUBSET Sought /\ IsList(StringOrder, Taken, list)
            /\ Len(asc) = m
            /\ \A p \in 1 .. m : asc[p] \in AskedKeys /\ list[p] = At(asc[p], Asked)
<1> DEFINE asc == Ascending(AskedKeys)
           list == Iterator(Taken)
           m == Cardinality(Taken)
           h == [k \in AskedKeys |-> At(k, Asked)]
<1>1. Taken \in SUBSET Sought /\ Taken \subseteq DOMAIN db
  BY AskedIs DEF Taken, Sought
<1>2. m \in Nat /\ IsFiniteSet(Taken) /\ IsList(StringOrder, Taken, list) /\ Taken \subseteq Strings
  BY <1>1, EntriesListed DEF OneFieldScan, ExecInv
<1>3. \A x, y \in AskedKeys : <<x, y>> \in NumberOrder <=> <<h[x], h[y]>> \in StringOrder
  <2> SUFFICES ASSUME NEW x \in AskedKeys, NEW y \in AskedKeys
               PROVE  <<x, y>> \in NumberOrder <=> <<h[x], h[y]>> \in StringOrder
    OBVIOUS
  <2>1. /\ x \in Nat /\ y \in Nat /\ Len(Decimal[x]) = Len(Decimal[y])
        /\ At(x, Asked) \in Strings /\ At(y, Asked) \in Strings
    BY AskedIs
  <2>2. Asked \in 0 .. 9
    BY OneFieldIs
  <2>3. <<x, y>> \in NumberOrder <=> x < y
    BY <2>1 DEF NumberOrder
  <2>4. <<h[x], h[y]>> \in StringOrder <=> StringLess(At(x, Asked), At(y, Asked))
    BY <2>1 DEF StringOrder
  <2>5. x < y => StringLess(At(x, Asked), At(y, Asked))
    BY <2>1, <2>2, AtOrder
  <2>6. y < x => StringLess(At(y, Asked), At(x, Asked))
    BY <2>1, <2>2, AtOrder
  <2>7. x = y => ~StringLess(At(x, Asked), At(y, Asked))
    BY <2>1, LessIrreflexive
  <2>8. StringLess(At(y, Asked), At(x, Asked)) => ~StringLess(At(x, Asked), At(y, Asked))
    BY <2>1, LessAsymmetric
  <2>9. x < y \/ y < x \/ x = y
    BY <2>1
  <2> QED BY <2>3, <2>4, <2>5, <2>6, <2>7, <2>8, <2>9
<1>4. h \in [AskedKeys -> Taken] /\ \A x \in Taken : \E y \in AskedKeys : h[y] = x
  BY DEF Taken
<1>5. AskedKeys \subseteq Int
  BY AskedIs
<1>6. IsFiniteSet(AskedKeys)
  <2> DEFINE D == DOMAIN db
             i == [s \in D |-> KeyOf(s)]
             T == RecordsOf
  <2>1. i \in Surjection(D, T)
    BY RecordIs DEF Surjection, OneFieldScan
  <2>2. IsFiniteSet(D)
    BY DEF OneFieldScan, ExecInv, DbInv
  <2>3. AskedKeys \in SUBSET T
    BY DEF AskedKeys
  <2> HIDE DEF D, i, T
  <2>4. IsFiniteSet(T)
    BY <2>1, <2>2, FS_Surjection
  <2> QED BY <2>3, <2>4, FS_Subset
<1>7. IsList(NumberOrder, AskedKeys, asc) /\ Ordered(NumberOrder, AskedKeys)
  BY <1>5, <1>6, AscendingIs, NumberOrdered
<1>8. Ordered(StringOrder, Taken)
  BY <1>2, StringOrdered
<1> HIDE DEF asc, list, h
<1>9. Cardinality(Taken) = Cardinality(AskedKeys) /\ \A p \in 1 .. Cardinality(Taken) : list[p] = h[asc[p]]
  <2>1. Alike(StringOrder, Taken, NumberOrder, AskedKeys, h)
    BY <1>2, <1>3, <1>4, <1>6, <1>7, <1>8 DEF Alike
  <2> QED BY <1>2, <1>7, <2>1, SameList
<1>10. asc \in [1 .. m -> AskedKeys]
  BY <1>7, <1>9 DEF IsList
<1>11. Len(asc) = m
  BY <1>2, <1>10
<1>12. \A p \in 1 .. m : asc[p] \in AskedKeys /\ list[p] = At(asc[p], Asked)
  BY <1>9, <1>10 DEF h
<1> QED BY <1>1, <1>2, <1>11, <1>12 DEF asc, list

\* Every record taken costs at most one: a scan that has used up its length has
\* taken as many, one that has not has taken all there were so far.
SeekRound(st, p) ==
  \E e \in 0 .. Cardinality(Taken) :
    /\ Before(Taken, Iterator(Sought), p, Iterator(Taken), e)
    /\ \/ st.thrown
       \/ st.rem = 0 /\ \E d \in 0 .. Cardinality(Taken) :
                           st.res = FoundIn(Iterator(Taken), d) /\ d >= pkg.scan_length
       \/ st.rem > 0 /\ st.res = FoundIn(Iterator(Taken), e) /\ st.rem >= pkg.scan_length - e

LEMMA SoughtListed ==
  ASSUME OneFieldScan
  PROVE  /\ Sought \in SUBSET DOMAIN db /\ Cardinality(Sought) \in Nat
         /\ IsList(StringOrder, Sought, Iterator(Sought)) /\ Len(Iterator(Sought)) = Cardinality(Sought)
         /\ Ordered(StringOrder, Sought) /\ DbInv
<1>1. Sought \in SUBSET DOMAIN db /\ DbInv
  BY DEF Sought, OneFieldScan, ExecInv
<1> QED BY <1>1, EntriesListed, StringOrdered

LEMMA SeekRoundBegin == ASSUME OneFieldScan PROVE SeekRound(ScanBegin, 0)
<1>1. Before(Taken, Iterator(Sought), 0, Iterator(Taken), 0)
  BY SubListBegin
<1>2. 0 \in 0 .. Cardinality(Taken) /\ pkg.scan_length \in Nat
  BY TakenIs, OneFieldIs
<1>3. ScanBegin.res = FoundIn(Iterator(Taken), 0) /\ ScanBegin.rem = pkg.scan_length
  BY DEF ScanBegin, FoundIn
<1>4. CASE pkg.scan_length = 0
  <2>1. 0 >= pkg.scan_length
    BY <1>4
  <2> QED BY <1>1, <1>2, <1>3, <1>4, <2>1 DEF SeekRound
<1>5. CASE pkg.scan_length > 0
  <2>1. ScanBegin.rem > 0 /\ ScanBegin.rem >= pkg.scan_length - 0
    BY <1>2, <1>3, <1>5
  <2> QED BY <1>1, <1>2, <1>3, <2>1 DEF SeekRound
<1> QED BY <1>2, <1>4, <1>5

LEMMA SeekRoundNext ==
  ASSUME OneFieldScan, NEW p \in Nat, p < Cardinality(Sought), NEW st \in ScanStates, SeekRound(st, p)
  PROVE  SeekRound(Visit(st, Iterator(Sought)[p + 1]), p + 1)
<1> DEFINE it == Iterator(Sought)
           tl == Iterator(Taken)
           s == it[p + 1]
           v == Visit(st, s)
           M == Cardinality(Taken)
           field == unpack_key(s).field
           next == st.last_key # 0 /\ st.last_key # KeyOf(s)
<1>1. PICK e \in 0 .. M :
        /\ Before(Taken, it, p, tl, e)
        /\ \/ st.thrown
           \/ st.rem = 0 /\ \E d \in 0 .. M : st.res = FoundIn(tl, d) /\ d >= pkg.scan_length
           \/ st.rem > 0 /\ st.res = FoundIn(tl, e) /\ st.rem >= pkg.scan_length - e
  BY DEF SeekRound
<1>2. /\ M \in Nat /\ e \in Nat /\ e <= M /\ pkg.scan_length \in Nat /\ pkg.key \in Nat
      /\ Taken \in SUBSET Sought /\ IsList(StringOrder, Taken, tl)
  BY TakenIs, OneFieldIs
<1>3. p + 1 \in 1 .. Cardinality(Sought)
  BY SoughtListed
<1>4. s \in Sought
  BY <1>3, SoughtListed DEF IsList
<1>5. s \in DOMAIN db /\ KeyOf(s) >= pkg.key /\ (take_field(field) <=> s \in Taken)
  BY <1>4, SoughtIs
<1>6. KeyOf(s) \in Nat /\ LLMax \in Nat /\ DbInv
  BY <1>5, SoughtListed, EntryIs, ExecAssumption DEF ExecAssumption
<1>7. /\ s \in Taken => e + 1 \in 1 .. M /\ s = tl[e + 1] /\ Before(Taken, it, p + 1, tl, e + 1)
      /\ s \notin Taken => Before(Taken, it, p + 1, tl, e)
  BY <1>1, <1>2, SoughtListed, SubList
<1>8. PICK d0 \in 0 .. M : Before(Taken, it, p + 1, tl, d0)
  <2>1. e + 1 \in 1 .. M => e + 1 \in 0 .. M
    BY <1>2
  <2> QED BY <1>1, <1>7, <2>1
<1>9. /\ st.thrown \/ st.rem = 0 => v = st
      /\ ~(st.thrown \/ st.rem = 0) /\ KeyOf(s) > LLMax => v.thrown
      /\ ~(st.thrown \/ st.rem = 0) /\ ~(KeyOf(s) > LLMax) /\ ~(KeyOf(s) < pkg.key) =>
           /\ take_field(field) => /\ v.res = Append(st.res, [name |-> field, val |-> db[s]])
                                   /\ v.rem = IF next THEN st.rem - 1 ELSE st.rem
           /\ ~take_field(field) => v.res = st.res /\ v.rem = st.rem
  BY <1>2, <1>5, <1>6, VisitCases
<1> SUFFICES SeekRound(v, p + 1)
  OBVIOUS
<1> HIDE DEF v
<1>10. CASE st.thrown
  BY <1>8, <1>9, <1>10 DEF SeekRound
<1>11. CASE st.rem = 0 /\ \E d \in 0 .. M : st.res = FoundIn(tl, d) /\ d >= pkg.scan_length
  BY <1>8, <1>9, <1>11 DEF SeekRound
<1>12. CASE ~st.thrown /\ st.rem > 0 /\ st.res = FoundIn(tl, e) /\ st.rem >= pkg.scan_length - e
  <2>1. st.rem \in Int /\ ~(st.thrown \/ st.rem = 0)
    <3>1. st.rem \in Int
      BY DEF ScanStates
    <3> QED BY <1>12, <3>1
  <2>2. CASE KeyOf(s) > LLMax
    <3>1. v.thrown
      BY <1>9, <2>1, <2>2
    <3> QED BY <1>8, <3>1 DEF SeekRound
  <2>3. CASE ~(KeyOf(s) > LLMax)
    <3>0. ~(KeyOf(s) < pkg.key)
      BY <1>2, <1>5, <1>6
    <3>1. CASE s \notin Taken
      <4>1. v.res = st.res /\ v.rem = st.rem
        BY <1>5, <1>9, <2>1, <2>3, <3>0, <3>1
      <4>2. Before(Taken, it, p + 1, tl, e)
        BY <1>7, <3>1
      <4> QED BY <1>12, <4>1, <4>2 DEF SeekRound
    <3>2. CASE s \in Taken
      <4>1. e + 1 \in 1 .. M /\ s = tl[e + 1] /\ Before(Taken, it, p + 1, tl, e + 1)
        BY <1>7, <3>2
      <4>2. v.res = Append(st.res, Pair(s)) /\ v.rem = IF next THEN st.rem - 1 ELSE st.rem
        BY <1>5, <1>9, <2>1, <2>3, <3>0, <3>2 DEF Pair
      <4>3. v.res = FoundIn(tl, e + 1)
        BY <1>2, <1>12, <4>1, <4>2, FoundNext
      <4>4. e + 1 \in 0 .. M
        BY <1>2, <4>1
      <4>5. v.rem \in Int /\ v.rem >= 0 /\ v.rem >= pkg.scan_length - (e + 1)
        <5>1. v.rem = st.rem \/ v.rem = st.rem - 1
          BY <4>2
        <5> QED BY <1>2, <1>12, <2>1, <5>1
      <4>6. CASE v.rem > 0
        BY <4>1, <4>3, <4>4, <4>5, <4>6 DEF SeekRound
      <4>7. CASE v.rem = 0
        <5>1. e + 1 >= pkg.scan_length
          BY <1>2, <4>5, <4>7
        <5> QED BY <4>1, <4>3, <4>4, <4>7, <5>1 DEF SeekRound
      <4> QED BY <4>5, <4>6, <4>7
    <3> QED BY <3>1, <3>2
  <2> QED BY <2>2, <2>3
<1> QED BY <1>1, <1>10, <1>11, <1>12

LEMMA AllSeekRounds == ASSUME OneFieldScan PROVE SeekRound(exec_scan, Cardinality(Sought))
<1> DEFINE it == Iterator(Sought)
           L == Cardinality(Sought)
<1>1. ScanStart = it /\ pkg.key \in Nat /\ pkg.scan_length \in Nat
  BY OneFieldIs
<1>2. L \in Nat /\ Len(it) = L /\ DbInv
  BY SoughtListed
<1>3. PICK f : Scanned(it, f) /\ exec_scan = f[L]
  BY <1>1, <1>2, ScanIs
<1>4. /\ f \in [0 .. L -> ScanStates] /\ f[0] = ScanBegin
      /\ \A p \in 1 .. L : f[p] = Visit(f[p - 1], it[p])
  BY <1>2, <1>3 DEF Scanned
<1> DEFINE S == {p \in Nat : p <= L => SeekRound(f[p], p)}
<1> HIDE DEF it, L
<1>5. 0 \in S
  BY <1>4, SeekRoundBegin
<1>6. ASSUME NEW p \in Nat, p \in S PROVE p + 1 \in S
  <2> SUFFICES ASSUME p + 1 <= L PROVE SeekRound(f[p + 1], p + 1)
    OBVIOUS
  <2>1. p < L /\ p + 1 \in 1 .. L /\ (p + 1) - 1 = p /\ p \in 0 .. L
    BY <1>2
  <2>2. SeekRound(f[p], p) /\ f[p] \in ScanStates /\ f[p + 1] = Visit(f[p], it[p + 1])
    BY <1>2, <1>4, <1>6, <2>1
  <2> QED BY <2>1, <2>2, SeekRoundNext DEF it, L
<1> HIDE DEF S
<1>7. L \in S
  BY <1>2, <1>5, <1>6, StepInduction
<1>8. SeekRound(f[L], L)
  BY <1>2, <1>7 DEF S
<1> QED BY <1>3, <1>8 DEF L

SeekAnswer(r) ==
  LET asc == Ascending(AskedKeys)
  IN /\ Len(r) <= Len(asc)
     /\ \A p \in DOMAIN r : r[p].val = StoreOf[asc[p]][Asked]
     /\ pkg.scan_length > 0 => Len(r) >= Min({pkg.scan_length, Len(asc)})

LEMMA NothingSkipped == ASSUME OneFieldScan, ~exec_scan.thrown PROVE SeekAnswer(exec_scan.res)
<1> DEFINE asc == Ascending(AskedKeys)
           tl == Iterator(Taken)
           M == Cardinality(Taken)
           r == exec_scan
<1>1. /\ M \in Nat /\ Taken \in SUBSET Sought /\ IsList(StringOrder, Taken, tl) /\ Len(asc) = M
      /\ \A p \in 1 .. M : asc[p] \in AskedKeys /\ tl[p] = At(asc[p], Asked)
  BY TakenIs
<1>2. pkg.scan_length \in Nat
  BY OneFieldIs
<1>3. PICK e \in 0 .. M :
        /\ Before(Taken, Iterator(Sought), Cardinality(Sought), tl, e)
        /\ \/ r.rem = 0 /\ \E d \in 0 .. M : r.res = FoundIn(tl, d) /\ d >= pkg.scan_length
           \/ r.rem > 0 /\ r.res = FoundIn(tl, e) /\ r.rem >= pkg.scan_length - e
  BY AllSeekRounds DEF SeekRound
<1>4. e = M
  BY <1>1, <1>3, SoughtListed, SubListEnd
<1>5. PICK d \in 0 .. M : r.res = FoundIn(tl, d) /\ (d >= pkg.scan_length \/ d = M)
  BY <1>3, <1>4
<1>6. Len(r.res) = d /\ DOMAIN r.res = 1 .. d
  BY <1>1, <1>5 DEF FoundIn
<1>7. ASSUME NEW p \in 1 .. d PROVE r.res[p].val = StoreOf[asc[p]][Asked]
  <2>1. p \in 1 .. M
    BY <1>1
  <2>2. r.res[p] = Pair(tl[p])
    BY <1>5 DEF FoundIn
  <2>3. r.res[p].val = db[At(asc[p], Asked)]
    BY <1>1, <2>1, <2>2 DEF Pair
  <2>4. StoreOf[asc[p]][Asked] = db[At(asc[p], Asked)]
    BY <1>1, <2>1, AskedIs
  <2> QED BY <2>3, <2>4
<1>8. d >= Min({pkg.scan_length, M}) /\ d <= M
  <2>1. Min({pkg.scan_length, M}) = IF pkg.scan_length <= M THEN pkg.scan_length ELSE M
    BY <1>1, <1>2, MinIs
  <2> QED BY <1>1, <1>2, <1>5, <2>1
<1> QED BY <1>1, <1>6, <1>7, <1>8 DEF SeekAnswer

LEMMA AskedSame ==
  ASSUME UNCHANGED <<db, pkg>>
  PROVE  /\ StoreOf' = StoreOf /\ RecordsOf' = RecordsOf
         /\ AskedKeys' = AskedKeys /\ Asked' = Asked
  BY StoreSame DEF AskedKeys, RecordsOf, Has, Asked

\* When all keys have equally many digits, the seek of a scan with one name
\* (exec_scan in ops.cc) skips nothing that is asked for: the answer is that field
\* of the next records in numeric order, at least scan_length of them if there are.
THEOREM SeekSkipsNothingCorrect == Spec => []SeekSkipsNothing
<1>1. Init => SeekSkipsNothing
  BY DEF Init, SeekSkipsNothing, Finished
<1>2. ASSUME ExecInv, SeekSkipsNothing, [Next]_vars PROVE SeekSkipsNothing'
  <2> SUFFICES ASSUME Finished("SCAN")', OneField', (\A k \in RecordsOf : SameLength(k))'
               PROVE  SeekAnswer(res)'
    BY DEF SeekSkipsNothing, SeekAnswer, AskedKeys
  <2>0. ASSUME UNCHANGED <<db, pkg>>
        PROVE  OneField /\ \A k \in RecordsOf : SameLength(k)
    <3>1. RecordsOf' = RecordsOf
      BY <2>0, AskedSame
    <3> QED BY <2>0, <3>1 DEF OneField, SameLength
  <2>1. CASE Scan
    <3>1. ~exec_scan.thrown /\ res' = exec_scan.res /\ UNCHANGED <<db, pkg>>
      BY <1>2, <2>1, ScanEnds
    <3>2. pkg \in Packages /\ pkg.op = "SCAN"
      BY <1>2, <2>1, ScanEnd DEF Scan
    <3>3. OneFieldScan
      BY <1>2, <2>0, <3>1, <3>2 DEF OneFieldScan
    <3>4. SeekAnswer(exec_scan.res)
      BY <3>1, <3>3, NothingSkipped
    <3>5. StoreOf' = StoreOf /\ AskedKeys' = AskedKeys /\ Asked' = Asked
      BY <3>1, AskedSame
    <3> QED BY <3>1, <3>4, <3>5 DEF SeekAnswer
  <2>2. CASE Finished("SCAN") /\ UNCHANGED <<db, pkg, res>>
    <3>1. SeekAnswer(res)
      BY <1>2, <2>0, <2>2 DEF SeekSkipsNothing, SeekAnswer, AskedKeys
    <3>2. StoreOf' = StoreOf /\ AskedKeys' = AskedKeys /\ Asked' = Asked
      BY <2>2, AskedSame
    <3> QED BY <2>2, <3>1, <3>2 DEF SeekAnswer
  <2> QED BY <1>2, <2>1, <2>2, OnlyScanFinishes
<1> QED BY <1>1, <1>2, InvAlways, PTL DEF Spec
=============================================================================
