----------------------------- MODULE MeasureProofs -----------------------------
(***************************************************************************)
(* ResultsInRange and TooFew of Measure, for any number of rounds and any  *)
(* durations whose sums fit into a word, and the exactness of the          *)
(* differences of times in TimeDiff.                                       *)
(***************************************************************************)
EXTENDS Measure, TimeDiff, SequenceTheorems, WellFoundedInduction, TLAPS

-----------------------------------------------------------------------------
(* Arithmetic. *)

\* Every set of numbers has a least one: induction for the provers at hand.
LEMMA LeastNatural ==
  ASSUME NEW T, T \subseteq Nat, T # {}
  PROVE  \E n \in T : \A m \in T : n <= m
<1> DEFINE Less == OpToRel(<, Nat)
<1>1. IsWellFoundedOn(Less, Nat)
  BY NatLessThanWellFounded
<1>2. \A x, y \in Nat : x < y => <<x, y>> \in Less
  BY SMT DEF OpToRel
<1> HIDE DEF Less
<1>3. PICK n \in T : \A m \in T : ~(<<m, n>> \in Less)
  BY <1>1, WFMin
<1>4. \A m \in T : ~(m < n)
  BY <1>2, <1>3
<1>5. \A m \in T : n <= m
  BY ONLY <1>4, T \subseteq Nat, n \in T, SMT
<1> QED BY <1>5

\* Every number has a whole square root, so Sqrt is what it says.
LEMMA SqrtExists ==
  ASSUME NEW x \in Nat
  PROVE  \E s \in 0 .. x : s * s <= x /\ x < (s + 1) * (s + 1)
<1> DEFINE T == {s \in Nat : x < (s + 1) * (s + 1)}
<1>1. T \subseteq Nat /\ x \in T
  <2>1. x < (x + 1) * (x + 1)
    OBVIOUS
  <2> QED BY <2>1
<1>2. PICK s \in T : \A m \in T : s <= m
  BY <1>1, LeastNatural
<1>3. s \in Nat /\ x < (s + 1) * (s + 1) /\ s <= x
  BY <1>1, <1>2
<1>4. s * s <= x
  <2>1. CASE s = 0
    BY <2>1
  <2>2. CASE s # 0
    <3>1. s - 1 \in Nat /\ ~(s - 1 \in T)
      BY <1>2, <1>3, <2>2
    <3>2. ~(x < (s - 1 + 1) * (s - 1 + 1))
      BY <3>1
    <3>3. s - 1 + 1 = s
      BY <1>3
    <3> QED BY <1>3, <3>2, <3>3
  <2> QED BY <2>1, <2>2
<1> QED BY <1>3, <1>4

LEMMA SqrtBound ==
  ASSUME NEW x \in Nat, NEW b \in Nat, x <= b * b
  PROVE  Sqrt(x) \in Nat /\ Sqrt(x) <= b
<1>1. Sqrt(x) \in 0 .. x /\ Sqrt(x) * Sqrt(x) <= x
  BY SqrtExists DEF Sqrt
<1> DEFINE s == Sqrt(x)
<1>2. s \in Nat /\ s * s <= b * b
  BY <1>1
<1> HIDE DEF s
<1>3. s <= b
  <2> SUFFICES ASSUME b < s PROVE FALSE
    BY <1>2
  <2>1. b * b < s * s
    BY <1>2
  <2> QED BY <1>2, <2>1
<1> QED BY <1>2, <1>3 DEF s

LEMMA SqrtType ==
  ASSUME NEW x \in Nat
  PROVE  Sqrt(x) \in Nat
<1>1. Sqrt(x) \in 0 .. x
  BY SqrtExists DEF Sqrt
<1> QED BY <1>1

\* A quotient lies between the bounds that hold for what is divided.
LEMMA QuotientBounds ==
  ASSUME NEW d \in Nat \ {0}, NEW x \in Nat, NEW lo \in Nat, NEW hi \in Nat,
         d * lo <= x, x <= d * hi
  PROVE  lo <= x \div d /\ x \div d <= hi
<1> DEFINE q == x \div d
<1>1. q \in Nat /\ d * q <= x /\ x < d * q + d
  OBVIOUS
<1> HIDE DEF q
<1>2. lo <= q
  <2> SUFFICES ASSUME q + 1 <= lo PROVE FALSE
    BY <1>1
  <2>1. d * (q + 1) <= d * lo
    BY <1>1
  <2>2. d * (q + 1) = d * q + d
    BY <1>1
  <2> QED BY <1>1, <2>1, <2>2
<1>3. q <= hi
  <2> SUFFICES ASSUME hi + 1 <= q PROVE FALSE
    BY <1>1
  <2>1. d * (hi + 1) <= d * q
    BY <1>1
  <2>2. d * (hi + 1) = d * hi + d
    OBVIOUS
  <2> QED BY <1>1, <2>1, <2>2
<1> QED BY <1>2, <1>3 DEF q

\* The remainder of a number that is less than the modulus away.
LEMMA Remainder ==
  ASSUME NEW m \in Nat \ {0}, NEW x \in Int, NEW q \in Int, NEW y \in 0 .. m - 1, x = q * m + y
  PROVE  x % m = y
  OBVIOUS

\* The cycle counter may wrap: the difference is right.
LEMMA ElapsedExact ==
  ASSUME NEW c \in 0 .. W - 1, NEW d \in 0 .. W - 1
  PROVE  Elapsed(c, (c + d) % W) = d
<1>0. W \in Nat \ {0}
  BY MeasureAssumption DEF FIRST_RESULT
<1>1. CASE c + d < W
  <2>1. (c + d) % W = c + d
    BY <1>0, <1>1
  <2>2. (c + d) - c = d /\ d % W = d
    BY <1>0
  <2> QED BY <2>1, <2>2 DEF Elapsed
<1>2. CASE ~(c + d < W)
  <2>1. c + d = 1 * W + (c + d - W) /\ c + d - W \in 0 .. W - 1
    BY <1>0, <1>2
  <2>2. (c + d) % W = c + d - W
    BY <1>0, <2>1, Remainder
  <2>3. (c + d - W) - c = (-1) * W + d
    BY <1>0
  <2>4. ((c + d - W) - c) % W = d
    BY <1>0, <2>3, Remainder
  <2> QED BY <2>2, <2>4 DEF Elapsed
<1> QED BY <1>1, <1>2

-----------------------------------------------------------------------------
(* The samples.  kept holds what the arrays should hold; the invariant says that they *)
(* do, how far the loops are, and what the sums are made of.                          *)

Recorded(x) ==
  /\ Len(kept[x]) <= count
  /\ \A j \in 1 .. Len(kept[x]) : times[x][j - 1] = kept[x][j]

\* The samples of the array in use after r rounds.
SoFar ==
  CASE prog = "syscall" -> total
    [] prog = "memload" -> IF r >= warm THEN r - warm ELSE 0
    [] prog = "pagefault" -> r

Counting == {"sum", "dev", "done", "sigfpe"}

SamplesInv ==
  /\ prog # "memload" => warm = 0
  /\ \A x \in 1 .. 2 : Recorded(x)
  /\ pc = "collect" =>
       /\ acc = 0
       /\ Len(kept[a]) = SoFar
       /\ \A x \in Arrays : (x < a => Len(kept[x]) = count) /\ (x > a => Len(kept[x]) = 0)
  /\ pc \in Counting => \A x \in Arrays : Len(kept[x]) = Argument
  /\ Len(out) = IF pc \in {"sum", "dev", "sigfpe"} THEN a - 1 ELSE IF pc = "done" THEN a ELSE 0

\* What sum() and stddev() have added up after k rounds, if the samples are in lo .. hi.
SumInv ==
  /\ pc \in {"sum", "dev"} => k >= FIRST_RESULT /\ (k > FIRST_RESULT => k <= Argument)
  /\ pc \in {"sum", "dev"} /\ Argument <= FIRST_RESULT => acc = 0
  /\ pc = "sum" =>
       /\ acc < W
       /\ \A lo, hi \in Durations : Between(kept[a], lo, hi) =>
            (k - FIRST_RESULT) * lo <= acc /\ acc <= (k - FIRST_RESULT) * hi
  /\ pc = "dev" =>
       /\ Argument <= FIRST_RESULT => average = IF Argument = FIRST_RESULT THEN W - 1 ELSE 0
       /\ \A lo, hi \in Durations : Argument > FIRST_RESULT /\ Between(kept[a], lo, hi) =>
            /\ lo <= average /\ average <= hi
            /\ acc <= (k - FIRST_RESULT) * ((hi - lo) * (hi - lo))

MeasureInv == TypeOK /\ SamplesInv /\ SumInv /\ TooFew /\ ResultsInRange
\* Facts on the types that the steps below use.
Typed ==
  /\ W \in Nat \ {0} /\ W > 2 /\ FIRST_RESULT = 2
  /\ Durations \subseteq Nat /\ count \in 0 .. W - 1 /\ warm \in Nat /\ r \in Nat /\ total \in Nat
  /\ prog \in {"syscall", "memload", "pagefault"}
  /\ a \in Arrays /\ Arrays \subseteq 1 .. 2 /\ clock \in 0 .. W - 1
  /\ \A x \in 1 .. 2 : kept[x] \in Seq(Durations) /\ Len(kept[x]) \in Nat
  /\ \A x \in 1 .. 2 : \A j \in 1 .. Len(kept[x]) : kept[x][j] \in Durations
  /\ k \in Nat /\ acc \in Nat /\ average \in 0 .. W - 1
  /\ out \in Seq([avg : Nat, dev : Nat]) /\ Len(out) \in Nat
  /\ Argument \in Nat

LEMMA MeasureTypes == ASSUME TypeOK PROVE Typed
<1>1. /\ W \in Nat \ {0} /\ W > 2 /\ FIRST_RESULT = 2 /\ Durations \subseteq Nat
      /\ CountOf \in [Progs -> SUBSET (0 .. W - 1)]
  BY MeasureAssumption DEF FIRST_RESULT
<1>2. prog \in Progs /\ count \in CountOf[prog]
  BY DEF TypeOK
<1>3. count \in 0 .. W - 1
  BY <1>1, <1>2
<1>4. /\ warm \in Nat /\ r \in Nat /\ total \in Nat /\ a \in Arrays /\ clock \in 0 .. W - 1
      /\ k \in Nat /\ acc \in Nat /\ average \in 0 .. W - 1
  BY <1>1, <1>3 DEF TypeOK
<1>5. Arrays \subseteq 1 .. 2
  BY DEF Arrays
<1>6. \A x \in 1 .. 2 : kept[x] \in Seq(Durations)
  BY DEF TypeOK
<1>7. \A x \in 1 .. 2 : Len(kept[x]) \in Nat /\ \A j \in 1 .. Len(kept[x]) : kept[x][j] \in Durations
  BY <1>6, LenProperties, ElementOfSeq
<1>8. out \in Seq([avg : Nat, dev : Nat]) /\ Len(out) \in Nat
  BY LenProperties DEF TypeOK
<1>9. Argument \in Nat
  BY <1>3, <1>4 DEF Argument
<1> QED BY <1>1, <1>2, <1>3, <1>4, <1>5, <1>6, <1>7, <1>8, <1>9 DEF Typed, Progs

\* The remainder of a division by W is a word.
LEMMA Word == ASSUME NEW x \in Int PROVE x % W \in 0 .. W - 1
<1>1. W \in Nat \ {0}
  BY MeasureAssumption DEF FIRST_RESULT
<1> QED BY <1>1

\* Which samples are kept and how many there are, program by program.
LEMMA KeepsCases ==
  ASSUME NEW d
  PROVE  /\ prog = "syscall" => (Keeps(d) <=> d < Limit)
         /\ prog = "memload" => (Keeps(d) <=> r >= warm)
         /\ prog = "pagefault" => (Keeps(d) <=> TRUE)
<1>1. CASE prog = "syscall"
  BY <1>1, Zenon DEF Keeps
<1>2. CASE prog = "memload"
  BY <1>2, Zenon DEF Keeps
<1>3. CASE prog = "pagefault"
  BY <1>3, Zenon DEF Keeps
<1> QED BY <1>1, <1>2, <1>3

LEMMA SoFarCases ==
  /\ prog = "syscall" => SoFar = total
  /\ prog = "memload" => SoFar = (IF r >= warm THEN r - warm ELSE 0)
  /\ prog = "pagefault" => SoFar = r
  BY DEF SoFar

\* One round of a measuring loop stores the duration at the end of the array in use.
LEMMA RoundStep == ASSUME MeasureInv, Round PROVE MeasureInv'
<1>0. Typed
  BY MeasureTypes DEF MeasureInv
<1> USE <1>0 DEF Typed
<1>1. /\ pc = "collect" /\ pc' = "collect" /\ r < count + warm /\ r' = r + 1
      /\ UNCHANGED <<prog, isa, count, warm, file, a, k, acc, average, out>>
  BY DEF Round, setup, sums
<1>2. PICK d \in Durations :
        LET end == (clock + d) % W
            duration == Elapsed(clock, end)
        IN /\ clock' = end
           /\ Stored(duration)
           /\ times' = IF Keeps(duration) THEN [times EXCEPT ![a][Index] = duration] ELSE times
           /\ kept' = IF Keeps(d) THEN [kept EXCEPT ![a] = Append(@, d)] ELSE kept
  BY DEF Round
<1> DEFINE duration == Elapsed(clock, (clock + d) % W)
<1>3. /\ clock' = (clock + d) % W
      /\ total' = IF Keeps(duration) THEN total + 1 ELSE total
      /\ times' = IF Keeps(duration) THEN [times EXCEPT ![a][Index] = duration] ELSE times
      /\ kept' = IF Keeps(d) THEN [kept EXCEPT ![a] = Append(kept[a], d)] ELSE kept
  BY <1>2 DEF Stored
<1>4. (count > 0 => duration = d) /\ (prog # "memload" => warm = 0)
  <2>1. prog # "memload" => warm = 0
    BY DEF MeasureInv, SamplesInv
  <2>2. ASSUME count > 0 PROVE d < W
    <3>1. count * d < W
      BY MeasureAssumption DEF MeasureInv, TypeOK
    <3>2. d \in Nat
      BY <1>0
    <3>3. count \in Nat /\ W \in Nat
      BY ONLY <1>0 DEF Typed
    <3>4. d <= count * d /\ count * d \in Nat
      BY ONLY <2>2, <3>2, <3>3
    <3> QED BY ONLY <3>1, <3>2, <3>3, <3>4
  <2>3. d \in Nat
    BY <1>0
  <2> QED BY <2>1, <2>2, <2>3, ElapsedExact
<1>5. (Keeps(d) => count > 0 /\ duration = d) /\ (Keeps(duration) <=> Keeps(d))
  <2> HIDE DEF duration
  <2>1. CASE count > 0
    BY <1>4, <2>1
  <2>2. CASE ~(count > 0)
    <3>1. prog = "memload" /\ ~(r >= warm)
      BY <1>1, <1>4, <2>2
    <3>2. ~Keeps(d) /\ ~Keeps(duration)
      BY ONLY <3>1, KeepsCases
    <3> QED BY ONLY <3>2
  <2> QED BY <2>1, <2>2
<1> HIDE DEF duration
<1>6. clock' \in 0 .. W - 1
  <2>1. d \in Nat
    BY <1>0
  <2>2. clock \in Int
    BY ONLY <1>0 DEF Typed
  <2>3. clock + d \in Int
    BY ONLY <2>1, <2>2
  <2>4. (clock + d) % W \in 0 .. W - 1
    BY ONLY <2>3, Word
  <2> QED BY ONLY <1>3, <2>4
<1>7. CASE ~Keeps(d)
  <2>1. times' = times /\ kept' = kept /\ total' = total
    BY <1>3, <1>5, <1>7
  <2>2. TypeOK'
    <3>1. r' \in 0 .. count' + warm' /\ total' \in 0 .. r'
      BY <1>1, <2>1 DEF MeasureInv, TypeOK
    <3>2. a' \in Arrays'
      BY <1>1 DEF Arrays
    <3> QED BY <1>1, <1>6, <2>1, <3>1, <3>2 DEF MeasureInv, TypeOK
  <2>3. SoFar' = SoFar /\ Arrays' = Arrays
    <3>1. prog # "pagefault" /\ (prog = "memload" => ~(r >= warm))
      BY ONLY <1>7, KeepsCases
    <3>2. prog = "syscall" => SoFar' = SoFar
      BY <1>1, <2>1 DEF SoFar
    <3>3. ASSUME prog = "memload" PROVE SoFar' = SoFar
      <4>1. SoFar = 0
        BY ONLY <3>1, <3>3 DEF SoFar
      <4>2. prog' = "memload" /\ r' = r + 1 /\ warm' = warm
        BY <1>1, <3>3
      <4>3. r' >= warm' => r' - warm' = 0
        BY <1>0, <3>1, <3>3, <4>2 DEF Typed
      <4> QED BY ONLY <4>1, <4>2, <4>3 DEF SoFar
    <3> QED BY <1>1, <3>1, <3>2, <3>3 DEF Arrays
  <2>4. SamplesInv'
    BY <1>1, <2>1, <2>3 DEF MeasureInv, SamplesInv, Recorded, Counting
  <2> QED BY <1>1, <2>1, <2>2, <2>4 DEF MeasureInv, SumInv, TooFew, ResultsInRange
<1>8. CASE Keeps(d)
  <2>1. /\ times' = [times EXCEPT ![a][Index] = d] /\ total' = total + 1
        /\ kept' = [kept EXCEPT ![a] = Append(kept[a], d)]
    BY <1>3, <1>5, <1>8
  <2>2. Index = Len(kept[a]) /\ Index \in 0 .. count - 1 /\ SoFar' = Index + 1 /\ SoFar = Index
    <3>1. Len(kept[a]) = SoFar
      BY <1>1 DEF MeasureInv, SamplesInv
    <3>2. prog = "memload" => r >= warm
      BY ONLY <1>8, KeepsCases
    <3>3. total \in 0 .. r
      BY DEF MeasureInv, TypeOK
    <3>4. CASE prog = "syscall"
      BY <1>1, <1>4, <2>1, <3>1, <3>3, <3>4 DEF SoFar, Index
    <3>5. CASE prog = "memload"
      <4>1. Index = r - warm /\ SoFar = r - warm
        BY <3>2, <3>5 DEF SoFar, Index
      <4>2. r \in Nat /\ warm \in Nat /\ count \in Nat /\ r >= warm
        BY <3>2, <3>5
      <4>3. SoFar' = r + 1 - warm
        BY ONLY <1>1, <3>5, <4>2 DEF SoFar
      <4> QED BY ONLY <1>1, <3>1, <4>1, <4>2, <4>3
    <3>6. CASE prog = "pagefault"
      BY <1>1, <1>4, <3>1, <3>6 DEF SoFar, Index
    <3> QED BY <3>4, <3>5, <3>6
  <2>3. d \in 0 .. W - 1 /\ d \in Durations
    <3>1. d = duration
      BY <1>5, <1>8
    <3>2. Elapsed(clock, (clock + d) % W) \in 0 .. W - 1
      <4>1. ((clock + d) % W) - clock \in Int
        BY <1>6, <1>3
      <4> QED BY <4>1, Word DEF Elapsed
    <3> QED BY <3>1, <3>2 DEF duration
  <2>4. /\ \A x \in 1 .. 2 : x # a => times'[x] = times[x] /\ kept'[x] = kept[x]
        /\ times'[a] = [times[a] EXCEPT ![Index] = d] /\ kept'[a] = Append(kept[a], d)
    BY <2>1 DEF MeasureInv, TypeOK
  <2>5. /\ kept'[a] \in Seq(Durations) /\ Len(kept'[a]) = Len(kept[a]) + 1
        /\ \A j \in 1 .. Len(kept[a]) : kept'[a][j] = kept[a][j]
        /\ kept'[a][Len(kept[a]) + 1] = d
    <3>1. kept[a] \in Seq(Durations) /\ d \in Durations
      BY <2>3
    <3> QED BY <2>4, <3>1, AppendProperties
  <2>6. TypeOK'
    <3>1. r' \in 0 .. count' + warm' /\ total' \in 0 .. r'
      <4>1. total \in 0 .. r
        BY DEF MeasureInv, TypeOK
      <4>2. r \in Nat /\ count \in Nat /\ warm \in Nat
        OBVIOUS
      <4> QED BY ONLY <1>1, <2>1, <4>1, <4>2
    <3>2. a' \in Arrays'
      BY <1>1 DEF Arrays
    <3>3. kept' \in [1 .. 2 -> Seq(Durations)]
      BY <2>1, <2>4, <2>5 DEF MeasureInv, TypeOK
    <3>4. times' \in [1 .. 2 -> [0 .. count - 1 -> {-1} \cup 0 .. W - 1]]
      <4>1. times \in [1 .. 2 -> [0 .. count - 1 -> {-1} \cup 0 .. W - 1]]
        BY DEF MeasureInv, TypeOK
      <4>2. times'[a] \in [0 .. count - 1 -> {-1} \cup 0 .. W - 1]
        BY <2>2, <2>3, <2>4, <4>1
      <4>3. times' = [times EXCEPT ![a] = times'[a]]
        BY <2>1, <2>4, <4>1
      <4> QED BY <4>1, <4>2, <4>3
    <3> QED BY <1>1, <1>6, <3>1, <3>2, <3>3, <3>4 DEF MeasureInv, TypeOK
  <2>7. Recorded(a)'
    <3>1. Len(kept'[a]) <= count
      BY <2>2, <2>5
    <3>2. times[a] \in [0 .. count - 1 -> {-1} \cup 0 .. W - 1]
      BY DEF MeasureInv, TypeOK
    <3>3. \A j \in 1 .. Len(kept[a]) : times'[a][j - 1] = kept'[a][j]
      <4>1. \A j \in 1 .. Len(kept[a]) : times[a][j - 1] = kept[a][j]
        BY DEF MeasureInv, SamplesInv, Recorded
      <4>2. \A j \in 1 .. Len(kept[a]) : j - 1 # Index /\ j - 1 \in 0 .. count - 1
        BY <2>2
      <4> QED BY <2>4, <2>5, <3>2, <4>1, <4>2
    <3>4. times'[a][Len(kept[a]) + 1 - 1] = kept'[a][Len(kept[a]) + 1]
      <4>1. Len(kept[a]) + 1 - 1 = Index
        BY <2>2
      <4> QED BY <2>2, <2>4, <2>5, <3>2, <4>1
    <3>5. \A j \in 1 .. Len(kept[a]) + 1 : j \in 1 .. Len(kept[a]) \/ j = Len(kept[a]) + 1
      OBVIOUS
    <3>6. \A j \in 1 .. Len(kept'[a]) : times'[a][j - 1] = kept'[a][j]
      <4> SUFFICES ASSUME NEW j \in 1 .. Len(kept'[a]) PROVE times'[a][j - 1] = kept'[a][j]
        OBVIOUS
      <4>1. j \in 1 .. Len(kept[a]) + 1
        BY ONLY <2>5, j \in 1 .. Len(kept'[a])
      <4>2. CASE j \in 1 .. Len(kept[a])
        BY ONLY <3>3, <4>2
      <4>3. CASE j = Len(kept[a]) + 1
        BY ONLY <3>4, <4>3
      <4> QED BY ONLY <3>5, <4>1, <4>2, <4>3
    <3> QED BY <1>1, <3>1, <3>6 DEF Recorded
  <2>8. \A x \in 1 .. 2 : x # a => Recorded(x)'
    <3> SUFFICES ASSUME NEW x \in 1 .. 2, x # a PROVE Recorded(x)'
      OBVIOUS
    <3>1. Recorded(x)
      BY ONLY MeasureInv, x \in 1 .. 2 DEF MeasureInv, SamplesInv
    <3>2. times'[x] = times[x] /\ kept'[x] = kept[x] /\ count' = count
      BY ONLY <1>1, <2>4, x \in 1 .. 2, x # a
    <3> QED BY ONLY <3>1, <3>2 DEF Recorded
  <2>9. SamplesInv'
    <3>1. Arrays' = Arrays /\ Len(kept'[a]) = SoFar'
      BY <1>1, <2>2, <2>5 DEF Arrays
    <3>2. \A x \in Arrays : (x < a => Len(kept'[x]) = count) /\ (x > a => Len(kept'[x]) = 0)
      BY <1>1, <2>4 DEF MeasureInv, SamplesInv
    <3>3. Len(out') = 0 /\ acc' = 0
      BY <1>1 DEF MeasureInv, SamplesInv
    <3>4. \A x \in 1 .. 2 : Recorded(x)'
      BY ONLY <2>7, <2>8, <1>1
    <3> QED BY <1>1, <1>4, <3>1, <3>2, <3>3, <3>4 DEF SamplesInv, Counting
  <2>10. TooFew' /\ ResultsInRange'
    <3>1. Len(out') = 0
      BY <2>9, <1>1 DEF SamplesInv
    <3> QED BY <1>1, <3>1 DEF TooFew, ResultsInRange
  <2> QED BY <1>1, <2>6, <2>9, <2>10 DEF MeasureInv, SumInv
<1> QED BY <1>7, <1>8

\* The initial states.
LEMMA MeasureInit == ASSUME Init PROVE MeasureInv
<1>1. /\ W \in Nat \ {0} /\ W > 2 /\ Warmups \subseteq Nat /\ Pages \in Nat \ {0}
      /\ CountOf \in [Progs -> SUBSET (0 .. W - 1)]
  BY MeasureAssumption DEF FIRST_RESULT
<1>2. /\ prog \in Progs /\ isa \in {"x86", "riscv"} /\ count \in CountOf[prog]
      /\ pc = "collect" /\ a = 1 /\ r = 0 /\ total = 0 /\ k = 0 /\ acc = 0 /\ average = 0 /\ out = <<>>
  BY DEF Init
<1>3. count \in 0 .. W - 1
  BY <1>1, <1>2
<1>4. warm \in Nat /\ (prog # "memload" => warm = 0)
  BY <1>1 DEF Init
<1>5. file \in Nat /\ clock \in 0 .. W - 1 /\ a \in Arrays
  BY <1>1, <1>2 DEF Init, Arrays
<1>6. times \in [1 .. 2 -> [0 .. count - 1 -> {-1} \cup 0 .. W - 1]]
  BY <1>1, <1>3 DEF Init
<1>7. /\ kept \in [1 .. 2 -> Seq(Durations)] /\ \A x \in 1 .. 2 : Len(kept[x]) = 0
      /\ out \in Seq([avg : Nat, dev : Nat]) /\ Len(out) = 0
  BY <1>2, EmptySeq DEF Init
<1>8. TypeOK
  BY <1>1, <1>2, <1>3, <1>4, <1>5, <1>6, <1>7 DEF TypeOK
<1>9. SoFar = 0
  BY <1>2, <1>4 DEF SoFar, Progs
<1>10. \A x \in 1 .. 2 : Recorded(x)
  BY <1>3, <1>7 DEF Recorded
<1>11. SamplesInv
  <2>1. 1 \in 1 .. 2 /\ Arrays \subseteq 1 .. 2
    BY DEF Arrays
  <2> QED BY <1>2, <1>4, <1>7, <1>9, <1>10, <2>1 DEF SamplesInv, Counting
<1> QED BY <1>2, <1>7, <1>8, <1>11 DEF MeasureInv, SumInv, TooFew, ResultsInRange

\* The steps that end a program while it measures.
LEMMA FailStep == ASSUME MeasureInv, Fail \/ Fault PROVE MeasureInv'
<1>1. /\ pc = "collect" /\ pc' \in {"failed", "sigbus"}
      /\ UNCHANGED <<prog, isa, count, warm, file, a, clock, r, total, times, kept, k, acc, average, out>>
  BY DEF Fail, Fault, setup, samples, sums
<1>2. Len(out) = 0
  BY <1>1 DEF MeasureInv, SamplesInv
<1>3. TypeOK' /\ SamplesInv'
  BY <1>1, <1>2 DEF MeasureInv, TypeOK, SamplesInv, Recorded, Arrays, Counting
<1> QED BY <1>1, <1>2, <1>3 DEF MeasureInv, SumInv, TooFew, ResultsInRange

LEMMA CollectedStep == ASSUME MeasureInv, Collected PROVE MeasureInv'
<1>0. Typed
  BY MeasureTypes DEF MeasureInv
<1>1. /\ pc = "collect" /\ r = count + warm
      /\ UNCHANGED <<prog, isa, count, warm, file, clock, times, kept, acc, average, out>>
  BY DEF Collected, setup
<1>2. /\ count \in Nat /\ warm \in Nat /\ total \in Nat /\ a \in Arrays
      /\ prog \in {"syscall", "memload", "pagefault"} /\ FIRST_RESULT = 2 /\ W > 2 /\ W \in Nat
      /\ Durations \subseteq Nat
  BY <1>0 DEF Typed
<1>3. /\ prog # "memload" => warm = 0
      /\ \A x \in 1 .. 2 : Recorded(x)'
      /\ acc = 0 /\ Len(kept[a]) = SoFar /\ Len(out) = 0
      /\ \A x \in Arrays : (x < a => Len(kept[x]) = count) /\ (x > a => Len(kept[x]) = 0)
  BY <1>1 DEF MeasureInv, SamplesInv, Recorded
<1>4. Arrays' = Arrays
  BY <1>1 DEF Arrays
<1>5. SoFar = (IF prog = "syscall" THEN total ELSE count)
  <2>1. CASE prog = "syscall"
    BY <2>1 DEF SoFar
  <2>2. CASE prog = "memload"
    BY <1>1, <1>2, <2>2 DEF SoFar
  <2>3. CASE prog = "pagefault"
    BY <1>1, <1>2, <1>3, <2>3 DEF SoFar
  <2> QED BY <1>2, <2>1, <2>2, <2>3
<1>6. CASE a + 1 \in Arrays
  <2>1. /\ prog = "pagefault" /\ a = 1 /\ a' = 2 /\ r' = 0 /\ total' = 0 /\ pc' = pc /\ k' = k
        /\ Arrays = 1 .. 2 /\ warm = 0
    BY <1>2, <1>3, <1>6 DEF Collected, Arrays
  <2>2. TypeOK'
    <3>1. r' \in 0 .. count' + warm' /\ total' \in 0 .. r' /\ a' \in Arrays'
      BY <1>1, <1>2, <1>4, <2>1
    <3> QED BY <1>1, <2>1, <3>1 DEF MeasureInv, TypeOK
  <2>3. Len(kept[1]) = count /\ Len(kept[2]) = 0 /\ SoFar' = 0
    BY <1>1, <1>3, <1>5, <2>1 DEF SoFar
  <2>4. SamplesInv'
    <3>1. \A x \in Arrays' :
            (x < a' => Len(kept'[x]) = count') /\ (x > a' => Len(kept'[x]) = 0)
      BY <1>1, <1>4, <2>1, <2>3
    <3> QED BY <1>1, <1>3, <2>1, <2>3, <3>1 DEF SamplesInv, Counting
  <2> QED BY <1>1, <1>3, <2>1, <2>2, <2>4 DEF MeasureInv, SumInv, TooFew, ResultsInRange
<1>7. CASE ~(a + 1 \in Arrays)
  <2>1. a' = 1 /\ pc' = "sum" /\ k' = 2 /\ r' = r /\ total' = total
    BY <1>2, <1>7 DEF Collected
  <2>2. TypeOK'
    <3>1. a' \in Arrays'
      BY <1>4, <2>1 DEF Arrays
    <3> QED BY <1>1, <2>1, <3>1 DEF MeasureInv, TypeOK
  <2>3. Argument' = SoFar
    BY <1>1, <1>5, <2>1 DEF Argument
  <2>4. \A x \in Arrays : Len(kept[x]) = SoFar
    <3>1. \A x \in Arrays : x = a \/ (x < a /\ prog = "pagefault")
      BY <1>2, <1>7 DEF Arrays
    <3> QED BY <1>3, <1>5, <3>1
  <2>5. SamplesInv'
    BY <1>1, <1>3, <1>4, <2>1, <2>3, <2>4 DEF SamplesInv, Counting
  <2>6. SumInv'
    <3>1. \A lo, hi \in Durations :
            (k' - FIRST_RESULT) * lo <= acc' /\ acc' <= (k' - FIRST_RESULT) * hi
      <4>1. \A lo \in Durations : (k' - FIRST_RESULT) * lo = 0
        BY <1>2, <2>1
      <4> QED BY <1>1, <1>3, <4>1
    <3> QED BY <1>1, <1>2, <1>3, <2>1, <3>1 DEF SumInv
  <2> QED BY <1>1, <1>3, <2>1, <2>2, <2>5, <2>6 DEF MeasureInv, TooFew, ResultsInRange
<1> QED BY <1>6, <1>7

-----------------------------------------------------------------------------
(* sum(), avg() and stddev().  From now on the samples do not change. *)

Frozen == UNCHANGED <<prog, isa, count, warm, file, clock, r, total, times, kept>>

\* The number of samples is a word, and so is the divisor: it wraps below zero.
LEMMA ArgumentFits ==
  ASSUME MeasureInv, pc \in Counting
  PROVE  /\ Argument \in Nat /\ Argument <= count /\ Argument < W
         /\ Len(kept[a]) = Argument
         /\ \A j \in 1 .. Argument : times[a][j - 1] = kept[a][j] /\ kept[a][j] \in Durations
         /\ Divisor = IF Argument >= 2 THEN Argument - 2 ELSE Argument - 2 + W
<1>0. Typed
  BY MeasureTypes DEF MeasureInv
<1>1. a \in Arrays /\ a \in 1 .. 2 /\ W \in Nat \ {0} /\ W > 2 /\ count \in 0 .. W - 1
  BY <1>0 DEF Typed
<1>2. Len(kept[a]) = Argument /\ Recorded(a)
  BY <1>1 DEF MeasureInv, SamplesInv
<1>3. Argument \in Nat /\ Argument <= count /\ Argument < W
  BY <1>0, <1>1, <1>2 DEF Typed, Recorded
<1>4. \A j \in 1 .. Argument : times[a][j - 1] = kept[a][j] /\ kept[a][j] \in Durations
  BY <1>0, <1>1, <1>2 DEF Typed, Recorded
<1>5. Divisor = (Argument - 2) % W
  BY DEF Divisor, FIRST_RESULT
<1>6. CASE Argument >= 2
  <2>1. Argument - 2 = 0 * W + (Argument - 2) /\ Argument - 2 \in 0 .. W - 1
    BY <1>1, <1>3, <1>6
  <2>2. (Argument - 2) % W = Argument - 2
    BY <1>1, <1>3, <2>1, Remainder
  <2> QED BY <1>2, <1>3, <1>4, <1>5, <1>6, <2>2
<1>7. CASE ~(Argument >= 2)
  <2>1. Argument - 2 = (-1) * W + (Argument - 2 + W) /\ Argument - 2 + W \in 0 .. W - 1
    BY <1>1, <1>3, <1>7
  <2>2. (Argument - 2) % W = Argument - 2 + W
    BY <1>1, <1>3, <2>1, Remainder
  <2> QED BY <1>2, <1>3, <1>4, <1>5, <1>7, <2>2
<1> QED BY <1>6, <1>7

\* What does not change with the samples.
LEMMA FrozenKeeps ==
  ASSUME MeasureInv, Frozen, pc \in {"sum", "dev"}, pc' \in Counting, a' \in Arrays,
         Len(out') = IF pc' = "done" THEN a' ELSE a' - 1
  PROVE  SamplesInv' /\ Argument' = Argument /\ Arrays' = Arrays
<1>1. Argument' = Argument /\ Arrays' = Arrays
  BY DEF Frozen, Argument, Arrays
<1>2. \A x \in 1 .. 2 : Recorded(x)'
  BY DEF MeasureInv, SamplesInv, Recorded, Frozen
<1> QED BY <1>1, <1>2 DEF MeasureInv, SamplesInv, Frozen, Counting

\* One round of sum() adds a sample; as the samples fit, it does not overflow.
LEMMA SumStep == ASSUME MeasureInv, Sum PROVE MeasureInv'
<1>0. Typed
  BY MeasureTypes DEF MeasureInv
<1>1. /\ pc = "sum" /\ pc' = "sum" /\ k < Argument /\ k' = k + 1 /\ a' = a /\ out' = out
      /\ acc' = (acc + times[a][k]) % W /\ average' = average /\ Frozen
  BY DEF Sum, setup, samples, Frozen
<1>2. /\ W \in Nat \ {0} /\ FIRST_RESULT = 2 /\ Durations \subseteq Nat /\ k \in Nat /\ acc \in Nat
      /\ a \in Arrays /\ count \in Nat
  BY <1>0 DEF Typed
<1>3. /\ Argument \in Nat /\ Argument <= count /\ Len(kept[a]) = Argument
      /\ \A j \in 1 .. Argument : times[a][j - 1] = kept[a][j] /\ kept[a][j] \in Durations
  BY <1>1, ArgumentFits DEF Counting
<1>4. k >= 2
  BY <1>1, <1>2 DEF MeasureInv, SumInv
<1>5. times[a][k] = kept[a][k + 1] /\ kept[a][k + 1] \in Nat
  <2>1. PICK j \in 1 .. Argument : j = k + 1 /\ j - 1 = k
    BY <1>1, <1>2, <1>3
  <2>2. times[a][j - 1] = kept[a][j] /\ kept[a][j] \in Durations
    BY ONLY <1>3, <2>1, Zenon
  <2> QED BY ONLY <1>2, <2>1, <2>2
<1>6. acc' \in 0 .. W - 1
  <2>1. acc + times[a][k] \in Int
    BY <1>2, <1>5
  <2> QED BY <1>1, <2>1, Word
<1>7. SamplesInv' /\ Argument' = Argument /\ Arrays' = Arrays
  <2>1. Len(out') = a' - 1
    BY <1>1 DEF MeasureInv, SamplesInv
  <2> QED BY <1>1, <1>2, <2>1, FrozenKeeps DEF Counting
<1>8. TypeOK'
  BY <1>1, <1>2, <1>6, <1>7 DEF MeasureInv, TypeOK, Frozen
<1>9. ASSUME NEW lo \in Durations, NEW hi \in Durations, Between(kept[a], lo, hi)
      PROVE  (k' - 2) * lo <= acc' /\ acc' <= (k' - 2) * hi
  <2>1. lo \in Nat /\ hi \in Nat /\ (k - 2) * lo <= acc /\ acc <= (k - 2) * hi
    BY <1>1, <1>2, <1>9 DEF MeasureInv, SumInv
  <2>2. lo <= kept[a][k + 1] /\ kept[a][k + 1] <= hi
    <3>1. k + 1 \in 2 + 1 .. Len(kept[a])
      BY <1>1, <1>2, <1>3, <1>4
    <3> QED BY <1>2, <1>9, <3>1 DEF Between
  <2>3. /\ (k - 1) * lo = (k - 2) * lo + lo /\ (k - 1) * hi = (k - 2) * hi + hi
        /\ (k - 1) * hi <= count * hi
    <3>1. k - 1 <= count
      BY <1>1, <1>2, <1>3
    <3>2. k - 1 \in Int /\ k - 1 = (k - 2) + 1
      BY <1>2
    <3> QED BY ONLY <1>2, <2>1, <3>1, <3>2
  <2>4. count * hi < W
    BY <1>9, MeasureAssumption DEF MeasureInv, TypeOK
  <2> DEFINE e == kept[a][k + 1]
  <2>5. /\ (k - 1) * lo <= acc + e /\ acc + e <= (k - 1) * hi
        /\ (k - 1) * hi \in Int /\ (k - 1) * lo \in Int /\ count * hi \in Int
    BY <1>2, <1>5, <2>1, <2>2, <2>3
  <2>6. acc + e \in 0 .. W - 1
    BY <1>2, <1>5, <2>3, <2>4, <2>5
  <2>7. (acc + e) % W = acc + e
    BY <1>2, <2>6
  <2>8. acc' = acc + e /\ k' - 2 = k - 1
    BY <1>1, <1>2, <1>5, <2>7
  <2> QED BY <2>5, <2>8
<1>10. SumInv'
  <2>1. k' >= 2 /\ k' <= Argument' /\ ~(Argument' <= 2)
    BY <1>1, <1>2, <1>3, <1>4, <1>7
  <2>2. kept' = kept
    BY <1>1 DEF Frozen
  <2>3. acc' < W
    BY <1>2, <1>6
  <2> QED BY <1>1, <1>2, <1>9, <2>1, <2>2, <2>3 DEF SumInv
<1> QED BY <1>1, <1>7, <1>8, <1>10 DEF MeasureInv, TooFew, ResultsInRange, Frozen

LEMMA QuotientType ==
  ASSUME NEW d \in Nat \ {0}, NEW x \in Nat
  PROVE  x \div d \in Nat /\ x \div d <= x /\ 0 \div d = 0
<1> DEFINE q == x \div d
<1>1. q \in Nat /\ d * q <= x /\ 0 \div d = 0
  OBVIOUS
<1> HIDE DEF q
<1>2. q <= d * q
  BY <1>1
<1> QED BY <1>1, <1>2 DEF q

LEMMA SquareBound ==
  ASSUME NEW e \in Int, NEW b \in Nat, -b <= e, e <= b
  PROVE  e * e \in Nat /\ e * e <= b * b
<1>1. CASE e >= 0
  <2>1. e * e <= e * b /\ e * b <= b * b
    BY <1>1
  <2> QED BY <1>1, <2>1
<1>2. CASE ~(e >= 0)
  <2> DEFINE f == -e
  <2>1. f \in Nat /\ f <= b /\ e * e = f * f
    BY <1>2
  <2> HIDE DEF f
  <2>2. f * f <= f * b /\ f * b <= b * b
    BY <2>1
  <2> QED BY <2>1, <2>2
<1> QED BY <1>1, <1>2

\* What avg() and stddev() divide by and what comes out.
LEMMA QuotientCases ==
  ASSUME MeasureInv, pc \in {"sum", "dev"}, NEW x \in Nat
  PROVE  /\ Quotient(x) \in Nat /\ (x < W => Quotient(x) < W)
         /\ Argument = 2 => Quotient(x) = W - 1
         /\ Argument < 2 => Quotient(0) = 0
         /\ Argument > 2 =>
              \A lo, hi \in Nat : (Argument - 2) * lo <= x /\ x <= (Argument - 2) * hi =>
                lo <= Quotient(x) /\ Quotient(x) <= hi
<1>0. W \in Nat \ {0} /\ W > 2
  BY MeasureAssumption DEF FIRST_RESULT
<1>1. /\ Argument \in Nat /\ Argument < W
      /\ Divisor = IF Argument >= 2 THEN Argument - 2 ELSE Argument - 2 + W
  BY ArgumentFits DEF Counting
<1>2. CASE Argument = 2
  BY <1>0, <1>1, <1>2 DEF Quotient
<1>3. CASE Argument # 2
  <2>1. Divisor \in Nat \ {0} /\ (Argument > 2 => Divisor = Argument - 2)
    BY <1>0, <1>1, <1>3
  <2>2. Quotient(x) = x \div Divisor /\ Quotient(0) = 0 \div Divisor
    BY <2>1 DEF Quotient
  <2>3. x \div Divisor \in Nat /\ x \div Divisor <= x /\ 0 \div Divisor = 0
    BY <2>1, QuotientType
  <2>4. \A lo, hi \in Nat : Divisor * lo <= x /\ x <= Divisor * hi =>
          lo <= x \div Divisor /\ x \div Divisor <= hi
    BY <2>1, QuotientBounds
  <2>5. Argument > 2 =>
          \A lo, hi \in Nat : (Argument - 2) * lo <= x /\ x <= (Argument - 2) * hi =>
            lo <= Quotient(x) /\ Quotient(x) <= hi
    BY ONLY <2>1, <2>2, <2>4
  <2>6. Quotient(x) \in Nat /\ (x < W => Quotient(x) < W)
    BY <1>0, <2>2, <2>3
  <2> QED BY ONLY <1>3, <2>2, <2>3, <2>5, <2>6
<1> QED BY <1>2, <1>3

LEMMA AvgStep == ASSUME MeasureInv, Avg PROVE MeasureInv'
<1>0. Typed
  BY MeasureTypes DEF MeasureInv
<1>1. /\ pc = "sum" /\ pc' = "dev" /\ k >= Argument /\ k' = 2 /\ a' = a /\ out' = out
      /\ acc' = 0 /\ average' = Quotient(acc) /\ Frozen
  BY DEF Avg, setup, samples, Frozen, FIRST_RESULT
<1>2. /\ W \in Nat \ {0} /\ FIRST_RESULT = 2 /\ Durations \subseteq Nat /\ k \in Nat /\ acc \in Nat
      /\ a \in Arrays
  BY <1>0 DEF Typed
<1>3. Argument \in Nat /\ Len(kept[a]) = Argument
  BY <1>1, ArgumentFits DEF Counting
<1>4. /\ Quotient(acc) \in Nat /\ (acc < W => Quotient(acc) < W)
      /\ Argument = 2 => Quotient(acc) = W - 1
      /\ Argument < 2 => Quotient(0) = 0
      /\ Argument > 2 =>
           \A lo, hi \in Nat : (Argument - 2) * lo <= acc /\ acc <= (Argument - 2) * hi =>
             lo <= Quotient(acc) /\ Quotient(acc) <= hi
  BY <1>1, <1>2, QuotientCases
<1>5. /\ acc < W /\ (Argument <= 2 => acc = 0) /\ (Argument > 2 => k = Argument)
      /\ \A lo, hi \in Durations : Between(kept[a], lo, hi) =>
           (k - 2) * lo <= acc /\ acc <= (k - 2) * hi
  BY <1>1, <1>2, <1>3 DEF MeasureInv, SumInv
<1>6. SamplesInv' /\ Argument' = Argument /\ Arrays' = Arrays
  <2>1. Len(out') = a' - 1
    BY <1>1 DEF MeasureInv, SamplesInv
  <2> QED BY <1>1, <1>2, <2>1, FrozenKeeps DEF Counting
<1>7. TypeOK'
  <2>1. average' \in 0 .. W - 1
    BY <1>1, <1>2, <1>4, <1>5
  <2> QED BY <1>1, <1>2, <1>6, <2>1 DEF MeasureInv, TypeOK, Frozen
<1>8. Argument <= 2 => average' = IF Argument = 2 THEN W - 1 ELSE 0
  BY <1>1, <1>3, <1>4, <1>5
<1>9. ASSUME NEW lo \in Durations, NEW hi \in Durations, Argument > 2, Between(kept[a], lo, hi)
      PROVE  /\ lo <= average' /\ average' <= hi
             /\ acc' <= (k' - 2) * ((hi - lo) * (hi - lo))
  <2>1. lo \in Nat /\ hi \in Nat
    BY <1>2
  <2>2. (Argument - 2) * lo <= acc /\ acc <= (Argument - 2) * hi
    BY <1>5, <1>9
  <2>3. lo <= average' /\ average' <= hi
    BY ONLY <1>1, <1>4, <1>9, <2>1, <2>2
  <2>4. (hi - lo) * (hi - lo) \in Int /\ (k' - 2) = 0
    BY <1>1, <2>1
  <2>5. (k' - 2) * ((hi - lo) * (hi - lo)) = 0
    BY ONLY <2>4
  <2> QED BY <1>1, <2>3, <2>5
<1>10. SumInv'
  <2>1. kept' = kept
    BY <1>1 DEF Frozen
  <2> QED BY <1>1, <1>2, <1>6, <1>8, <1>9, <2>1 DEF SumInv
<1> QED BY <1>1, <1>6, <1>7, <1>10 DEF MeasureInv, TooFew, ResultsInRange, Frozen

\* The division only traps with two samples.
LEMMA SigfpeStep == ASSUME MeasureInv, Sigfpe PROVE MeasureInv'
<1>0. Typed
  BY MeasureTypes DEF MeasureInv
<1>1. /\ pc = "sum" /\ pc' = "sigfpe" /\ a' = a /\ out' = out /\ k' = k
      /\ acc' = acc /\ average' = average /\ Frozen /\ Divisor = 0 /\ isa = "x86"
  BY DEF Sigfpe, setup, samples, sums, Frozen, Traps
<1>2. W \in Nat \ {0} /\ W > 2 /\ FIRST_RESULT = 2 /\ a \in Arrays
  BY <1>0 DEF Typed
<1>3. Len(kept[a]) = 2
  <2>1. /\ Argument \in Nat /\ Len(kept[a]) = Argument
        /\ Divisor = IF Argument >= 2 THEN Argument - 2 ELSE Argument - 2 + W
    BY <1>1, ArgumentFits DEF Counting
  <2> QED BY <1>1, <1>2, <2>1
<1>4. SamplesInv' /\ Argument' = Argument /\ Arrays' = Arrays
  <2>1. Len(out') = a' - 1
    BY <1>1 DEF MeasureInv, SamplesInv
  <2> QED BY <1>1, <1>2, <2>1, FrozenKeeps DEF Counting
<1>5. TypeOK'
  BY <1>1, <1>4 DEF MeasureInv, TypeOK, Frozen
<1>6. TooFew'
  BY <1>1, <1>2, <1>3 DEF MeasureInv, TooFew, Frozen
<1> QED BY <1>1, <1>4, <1>5, <1>6 DEF MeasureInv, SumInv, ResultsInRange, Frozen

\* One round of stddev() adds the square of a distance that is at most hi - lo.
LEMMA DeviationStep == ASSUME MeasureInv, Deviation PROVE MeasureInv'
<1>0. Typed
  BY MeasureTypes DEF MeasureInv
<1>1. /\ pc = "dev" /\ pc' = "dev" /\ k < Argument /\ k' = k + 1 /\ a' = a /\ out' = out
      /\ acc' = acc + (times[a][k] - average) * (times[a][k] - average)
      /\ average' = average /\ Frozen
  BY DEF Deviation, setup, samples, Frozen
<1>2. /\ W \in Nat \ {0} /\ FIRST_RESULT = 2 /\ Durations \subseteq Nat /\ k \in Nat /\ acc \in Nat
      /\ a \in Arrays /\ average \in Nat
  BY <1>0 DEF Typed
<1>3. /\ Argument \in Nat /\ Len(kept[a]) = Argument
      /\ \A j \in 1 .. Argument : times[a][j - 1] = kept[a][j] /\ kept[a][j] \in Durations
  BY <1>1, ArgumentFits DEF Counting
<1>4. k >= 2
  BY <1>1, <1>2 DEF MeasureInv, SumInv
<1>5. times[a][k] = kept[a][k + 1] /\ kept[a][k + 1] \in Nat
  <2>1. PICK j \in 1 .. Argument : j = k + 1 /\ j - 1 = k
    BY <1>1, <1>2, <1>3
  <2>2. times[a][j - 1] = kept[a][j] /\ kept[a][j] \in Durations
    BY ONLY <1>3, <2>1, Zenon
  <2> QED BY ONLY <1>2, <2>1, <2>2
<1> DEFINE e == kept[a][k + 1] - average
<1>6. e \in Int /\ acc' = acc + e * e
  BY <1>1, <1>2, <1>5
<1>7. e * e \in Nat /\ acc' \in Nat
  <2> HIDE DEF e
  <2>1. CASE e >= 0
    BY <1>2, <1>6, <2>1
  <2>2. CASE ~(e >= 0)
    <3>1. -e \in Nat /\ e * e = (-e) * (-e)
      BY <1>6, <2>2
    <3> QED BY <1>2, <1>6, <3>1
  <2> QED BY <2>1, <2>2
<1>8. SamplesInv' /\ Argument' = Argument /\ Arrays' = Arrays
  <2>1. Len(out') = a' - 1
    BY <1>1 DEF MeasureInv, SamplesInv
  <2> QED BY <1>1, <1>2, <2>1, FrozenKeeps DEF Counting
<1>9. TypeOK'
  BY <1>1, <1>2, <1>7, <1>8 DEF MeasureInv, TypeOK, Frozen
<1>10. ASSUME NEW lo \in Durations, NEW hi \in Durations, Between(kept[a], lo, hi)
       PROVE  /\ lo <= average /\ average <= hi
              /\ acc' <= (k' - 2) * ((hi - lo) * (hi - lo))
  <2>1. lo \in Nat /\ hi \in Nat /\ Argument > 2
    BY <1>1, <1>2, <1>3, <1>4
  <2> DEFINE sq == (hi - lo) * (hi - lo)
  <2>2. lo <= average /\ average <= hi /\ acc <= (k - 2) * sq
    BY <1>1, <1>2, <1>10, <2>1 DEF MeasureInv, SumInv
  <2>3. lo <= kept[a][k + 1] /\ kept[a][k + 1] <= hi
    <3>1. k + 1 \in 2 + 1 .. Len(kept[a])
      BY <1>1, <1>2, <1>3, <1>4
    <3> QED BY <1>2, <1>10, <3>1 DEF Between
  <2>4. hi - lo \in Nat /\ -(hi - lo) <= e /\ e <= hi - lo
    BY <1>2, <1>5, <2>1, <2>2, <2>3
  <2> HIDE DEF e
  <2>5. e * e <= sq
    BY <1>6, <2>4, SquareBound
  <2>6. sq \in Int
    BY <2>1
  <2> HIDE DEF sq
  <2>7. (k - 1) * sq = (k - 2) * sq + sq /\ k' - 2 = k - 1
    BY <1>1, <1>2, <2>6
  <2>8. acc + e * e <= (k - 1) * sq
    <3>1. (k - 2) * sq \in Int /\ e * e \in Int
      BY <1>2, <1>7, <2>6
    <3> QED BY <1>2, <2>2, <2>5, <2>6, <2>7, <3>1
  <2> QED BY <1>6, <2>2, <2>7, <2>8 DEF sq
<1>11. SumInv'
  <2>1. k' >= 2 /\ k' <= Argument' /\ ~(Argument' <= 2)
    BY <1>1, <1>2, <1>3, <1>4, <1>8
  <2>2. kept' = kept
    BY <1>1 DEF Frozen
  <2> QED BY <1>1, <1>2, <1>10, <2>1, <2>2 DEF SumInv
<1> QED BY <1>1, <1>8, <1>9, <1>11 DEF MeasureInv, TooFew, ResultsInRange, Frozen

LEMMA StddevStep == ASSUME MeasureInv, Stddev PROVE MeasureInv'
<1>0. Typed
  BY MeasureTypes DEF MeasureInv
<1> DEFINE result == [avg |-> average, dev |-> Sqrt(Quotient(acc))]
<1>1. /\ pc = "dev" /\ k >= Argument /\ k' = 2 /\ acc' = 0 /\ average' = average
      /\ out' = Append(out, result) /\ Frozen
      /\ IF a + 1 \in Arrays THEN pc' = "sum" /\ a' = a + 1 ELSE pc' = "done" /\ a' = a
  BY DEF Stddev, setup, samples, Frozen, FIRST_RESULT
<1>2. /\ W \in Nat \ {0} /\ FIRST_RESULT = 2 /\ Durations \subseteq Nat /\ k \in Nat /\ acc \in Nat
      /\ a \in Arrays /\ a \in 1 .. 2 /\ average \in Nat
      /\ out \in Seq([avg : Nat, dev : Nat])
  BY <1>0 DEF Typed
<1>3. Argument \in Nat /\ Len(kept[a]) = Argument
  BY <1>1, ArgumentFits DEF Counting
<1>4. /\ Quotient(acc) \in Nat
      /\ Argument > 2 =>
           \A lo, hi \in Nat : (Argument - 2) * lo <= acc /\ acc <= (Argument - 2) * hi =>
             lo <= Quotient(acc) /\ Quotient(acc) <= hi
  BY <1>1, <1>2, QuotientCases
<1>5. /\ Argument <= 2 => average = IF Argument = 2 THEN W - 1 ELSE 0
      /\ Argument > 2 => k = Argument
      /\ \A lo, hi \in Durations : Argument > 2 /\ Between(kept[a], lo, hi) =>
           /\ lo <= average /\ average <= hi
           /\ acc <= (k - 2) * ((hi - lo) * (hi - lo))
  BY <1>1, <1>2, <1>3 DEF MeasureInv, SumInv
<1>6. result \in [avg : Nat, dev : Nat]
  BY <1>2, <1>4, SqrtType
<1>7. /\ out' \in Seq([avg : Nat, dev : Nat]) /\ Len(out) = a - 1 /\ Len(out') = a
      /\ \A x \in 1 .. a - 1 : out'[x] = out[x]
      /\ out'[a] = result
  <2>1. Len(out) = a - 1 /\ Len(out) + 1 = a
    BY <1>1, <1>2 DEF MeasureInv, SamplesInv
  <2>2. /\ out' \in Seq([avg : Nat, dev : Nat]) /\ Len(out') = Len(out) + 1
        /\ \A x \in 1 .. Len(out) : out'[x] = out[x]
        /\ out'[Len(out) + 1] = result
    BY <1>1, <1>2, <1>6, AppendProperties
  <2> QED BY ONLY <2>1, <2>2
<1>8. SamplesInv' /\ Argument' = Argument /\ Arrays' = Arrays
  <2>1. Len(out') = IF pc' = "done" THEN a' ELSE a' - 1
    BY <1>1, <1>2, <1>7
  <2>2. a' \in Arrays /\ pc' \in Counting
    BY <1>1, <1>2 DEF Counting
  <2> QED BY <1>1, <2>1, <2>2, FrozenKeeps
<1>9. TypeOK'
  <2>1. a' \in Arrays' /\ pc' \in {"sum", "done"}
    BY <1>1, <1>2, <1>8
  <2> QED BY <1>1, <1>7, <2>1 DEF MeasureInv, TypeOK, Frozen
<1>10. out'[a].avg = average /\ out'[a].dev = Sqrt(Quotient(acc))
  BY <1>7
<1>11. \A x \in 1 .. Len(out') : (x \in 1 .. Len(out) /\ out'[x] = out[x]) \/ x = a
  <2>1. \A x \in 1 .. a : x \in 1 .. a - 1 \/ x = a
    BY <1>2
  <2> QED BY ONLY <1>7, <2>1
<1>12. TooFew'
  <2>1. pc' # "sigfpe" /\ kept' = kept
    BY <1>1 DEF Frozen
  <2>2. Len(kept[a]) <= 2 => out'[a].avg = IF Len(kept[a]) = 2 THEN W - 1 ELSE 0
    BY <1>3, <1>5, <1>10
  <2>3. \A x \in 1 .. Len(out) :
          Len(kept[x]) <= 2 => out[x].avg = IF Len(kept[x]) = 2 THEN W - 1 ELSE 0
    BY <1>2 DEF MeasureInv, TooFew
  <2>4. \A x \in 1 .. Len(out') :
          Len(kept[x]) <= 2 => out'[x].avg = IF Len(kept[x]) = 2 THEN W - 1 ELSE 0
    BY ONLY <1>11, <2>2, <2>3
  <2> QED BY <1>2, <2>1, <2>4 DEF TooFew
<1>13. ResultsInRange'
  <2>1. kept' = kept
    BY <1>1 DEF Frozen
  <2>2. ASSUME NEW lo \in Durations, NEW hi \in Durations, Len(kept[a]) > 2, Between(kept[a], lo, hi)
        PROVE  lo <= average /\ average <= hi /\ Sqrt(Quotient(acc)) <= hi - lo
    <3>1. /\ lo \in Nat /\ hi \in Nat /\ lo <= average /\ average <= hi
          /\ acc <= (Argument - 2) * ((hi - lo) * (hi - lo))
      BY <1>2, <1>3, <1>5, <2>2
    <3>2. hi - lo \in Nat
      BY <1>2, <3>1
    <3>3. (hi - lo) * (hi - lo) \in Nat /\ (Argument - 2) * 0 <= acc
      <4>1. (Argument - 2) * 0 = 0
        BY <1>3
      <4>2. (hi - lo) * (hi - lo) \in Nat
        BY ONLY <3>2
      <4> QED BY <1>2, <4>1, <4>2
    <3>4. Quotient(acc) <= (hi - lo) * (hi - lo)
      <4> DEFINE sq == (hi - lo) * (hi - lo)
      <4>1. sq \in Nat /\ acc <= (Argument - 2) * sq /\ Argument > 2 /\ 0 \in Nat
        BY <1>3, <2>2, <3>1, <3>3
      <4> HIDE DEF sq
      <4>2. Quotient(acc) <= sq
        BY ONLY <1>4, <3>3, <4>1
      <4> QED BY <4>2 DEF sq
    <3>5. Sqrt(Quotient(acc)) <= hi - lo
      BY ONLY <1>4, <3>2, <3>4, SqrtBound
    <3> QED BY <3>1, <3>5
  <2>3. ASSUME NEW x \in 1 .. Len(out'), NEW lo \in Durations, NEW hi \in Durations,
               Len(kept[x]) > 2, Between(kept[x], lo, hi)
        PROVE  lo <= out'[x].avg /\ out'[x].avg <= hi /\ out'[x].dev <= hi - lo
    <3>1. CASE x = a
      BY <1>10, <2>2, <2>3, <3>1
    <3>2. CASE x \in 1 .. Len(out) /\ out'[x] = out[x]
      <4>1. lo <= out[x].avg /\ out[x].avg <= hi /\ out[x].dev <= hi - lo
        BY ONLY MeasureInv, <1>2, <2>3, <3>2 DEF MeasureInv, ResultsInRange
      <4> QED BY <3>2, <4>1
    <3> QED BY <1>11, <3>1, <3>2
  <2> QED BY <1>2, <2>1, <2>3 DEF ResultsInRange
<1>14. SumInv'
  <2>1. pc' # "dev" /\ kept' = kept
    BY <1>1 DEF Frozen
  <2>2. \A lo \in Durations : (k' - 2) * lo = 0
    BY <1>1, <1>2
  <2>3. 0 < W
    BY <1>2
  <2> QED BY <1>1, <1>2, <2>1, <2>2, <2>3 DEF SumInv
<1> QED BY <1>8, <1>9, <1>12, <1>13, <1>14 DEF MeasureInv

LEMMA MeasureStep == MeasureInv /\ [Next]_vars => MeasureInv'
<1> SUFFICES ASSUME MeasureInv, [Next]_vars PROVE MeasureInv'
  OBVIOUS
<1>1. CASE UNCHANGED vars
  <2>1. UNCHANGED <<prog, isa, count, warm, file, pc, a, clock, r, total, times, kept, k, acc, average, out>>
    BY <1>1 DEF vars, setup, samples, sums
  <2>2. UNCHANGED <<Argument, Arrays, SoFar>>
    BY <2>1 DEF Argument, Arrays, SoFar
  <2>3. TypeOK' /\ SamplesInv'
    BY <2>1, <2>2 DEF MeasureInv, TypeOK, SamplesInv, Recorded
  <2> QED BY <2>1, <2>2, <2>3 DEF MeasureInv, SumInv, TooFew, ResultsInRange
<1>2. CASE Next
  BY <1>2, RoundStep, FailStep, CollectedStep, SumStep, AvgStep, SigfpeStep, DeviationStep, StddevStep
  DEF Next
<1> QED BY <1>1, <1>2

\* Every variable has its type; in particular every sample is stored within its array
\* and the average is a word.
THEOREM MeasureTypeCorrect == Spec => []TypeOK
<1>1. MeasureInv => TypeOK
  BY DEF MeasureInv
<1>2. Init => MeasureInv
  BY MeasureInit
<1> QED BY <1>1, <1>2, MeasureStep, PTL DEF Spec

\* What avg() and stddev() print lies within the samples that count: no filtered or
\* warm-up sample, no unwritten memory and no wrap-around gets in.
THEOREM ResultsInRangeCorrect == Spec => []ResultsInRange
<1>1. MeasureInv => ResultsInRange
  BY DEF MeasureInv
<1>2. Init => MeasureInv
  BY MeasureInit
<1> QED BY <1>1, <1>2, MeasureStep, PTL DEF Spec

\* With two samples, and with two only, the division by count - FIRST_RESULT traps on
\* x86 and yields all ones on riscv; with fewer the average is 0.
THEOREM TooFewCorrect == Spec => []TooFew
<1>1. MeasureInv => TooFew
  BY DEF MeasureInv
<1>2. Init => MeasureInv
  BY MeasureInit
<1> QED BY <1>1, <1>2, MeasureStep, PTL DEF Spec

-----------------------------------------------------------------------------
(* The differences of times. *)

\* Arithmetic of a difference (s, f) in units of 1/P: where the borrow comes from.
LEMMA Borrow ==
  ASSUME NEW P \in Nat \ {0}, NEW s \in Int, NEW f \in Int,
         -P < f, f < 0, 0 <= f + s * P
  PROVE  s - 1 \in Nat /\ f + P \in 0 .. P - 1 /\ f + P + (s - 1) * P = f + s * P
<1>1. ASSUME s <= 0 PROVE FALSE
  <2>1. s * P <= 0
    BY <1>1
  <2> QED
    BY <2>1
<1> QED
  BY <1>1

\* Without a borrow the seconds are not negative.
LEMMA NoBorrow ==
  ASSUME NEW P \in Nat \ {0}, NEW s \in Int, NEW f \in Int,
         0 <= f, f < P, 0 <= f + s * P
  PROVE  s \in Nat
<1>1. ASSUME s < 0 PROVE FALSE
  <2>1. s * P <= -P
    BY <1>1
  <2> QED
    BY <2>1
<1> QED
  BY <1>1

\* Division undoes a multiplication.
LEMMA WholeQuotient ==
  ASSUME NEW d \in Nat \ {0}, NEW q \in Nat, NEW m \in 0 .. d - 1
  PROVE  (d * q + m) \div d = q
  OBVIOUS

\* A second has nanoseconds.
LEMMA NanoType == Nano \in Nat \ {0}
  BY TimeAssumption DEF Nano

\* Usertime and Systemtime: with a borrow or without, the difference of two times
\* in order is again a time, and it has the microseconds between them.
THEOREM TimevalExact ==
  ASSUME NEW start \in Timeval, NEW stop \in Timeval,
         timeval_micros(start) <= timeval_micros(stop)
  PROVE  /\ timeval_diff(start, stop) \in Timeval
         /\ timeval_micros(timeval_diff(start, stop)) = timeval_micros(stop) - timeval_micros(start)
<1> DEFINE usec == stop.tv_usec - start.tv_usec
           sec == stop.tv_sec - start.tv_sec
<1>1. /\ usec \in Int /\ sec \in Int /\ -Micro < usec /\ usec < Micro
      /\ 0 <= usec + sec * Micro
      /\ usec + sec * Micro = timeval_micros(stop) - timeval_micros(start)
  BY TimeAssumption DEF Timeval, timeval_micros
<1> HIDE DEF usec, sec
<1>2. CASE usec < 0
  <2>1. timeval_diff(start, stop) = [tv_sec |-> sec - 1, tv_usec |-> usec + Micro]
    BY <1>2 DEF timeval_diff, usec, sec
  <2>2. /\ sec - 1 \in Nat /\ usec + Micro \in 0 .. Micro - 1
        /\ usec + Micro + (sec - 1) * Micro = usec + sec * Micro
    BY <1>1, <1>2, TimeAssumption, Borrow
  <2> QED
    BY <1>1, <2>1, <2>2 DEF timeval_micros, Timeval
<1>3. CASE ~(usec < 0)
  <2>1. timeval_diff(start, stop) = [tv_sec |-> sec, tv_usec |-> usec]
    BY <1>3 DEF timeval_diff, usec, sec
  <2>2. sec \in Nat /\ usec \in 0 .. Micro - 1
    BY <1>1, <1>3, TimeAssumption, NoBorrow
  <2> QED
    BY <1>1, <2>1, <2>2 DEF timeval_micros, Timeval
<1> QED
  BY <1>2, <1>3

\* Totaltime: the difference of two times in order is again a time, and it has the
\* whole microseconds between them: what timespec_micros() rounds is their distance,
\* not the two times.
THEOREM TimespecExact ==
  ASSUME NEW start \in Timespec, NEW stop \in Timespec, Nanos(start) <= Nanos(stop)
  PROVE  /\ timespec_diff(start, stop) \in Timespec
         /\ timespec_micros(timespec_diff(start, stop)) = (Nanos(stop) - Nanos(start)) \div Kilo
<1> DEFINE nsec == stop.tv_nsec - start.tv_nsec
           sec == stop.tv_sec - start.tv_sec
           nanos == nsec + sec * Nano
<1>1. /\ nsec \in Int /\ sec \in Int /\ -Nano < nsec /\ nsec < Nano
      /\ 0 <= nanos /\ nanos = Nanos(stop) - Nanos(start)
  BY NanoType DEF Timespec, Nanos
<1> HIDE DEF nsec, sec
<1>2. ASSUME NEW n \in 0 .. Nano - 1, NEW s \in Nat, n + s * Nano = nanos
      PROVE  n \div Kilo + s * Micro = nanos \div Kilo
  <2> DEFINE q == n \div Kilo
             m == n % Kilo
             t == s * Micro
  <2>1. q \in Nat /\ m \in 0 .. Kilo - 1 /\ n = Kilo * q + m /\ t \in Nat
    BY TimeAssumption, NanoType
  <2>2. s * Nano = Kilo * t
    BY TimeAssumption DEF Nano
  <2> HIDE DEF q, m, t
  <2>3. nanos = Kilo * (q + t) + m
    BY <1>2, <2>1, <2>2, TimeAssumption
  <2>4. nanos \div Kilo = q + t
    BY <2>1, <2>3, TimeAssumption, WholeQuotient
  <2> QED
    BY <2>4 DEF q, t
<1>3. CASE nsec < 0
  <2>1. timespec_diff(start, stop) = [tv_sec |-> sec - 1, tv_nsec |-> nsec + Nano]
    BY <1>3 DEF timespec_diff, nsec, sec
  <2>2. sec - 1 \in Nat /\ nsec + Nano \in 0 .. Nano - 1 /\ nsec + Nano + (sec - 1) * Nano = nanos
    BY <1>1, <1>3, NanoType, Borrow
  <2>3. (nsec + Nano) \div Kilo + (sec - 1) * Micro = nanos \div Kilo
    BY <1>2, <2>2
  <2> HIDE DEF nanos
  <2> QED
    BY <1>1, <2>1, <2>2, <2>3 DEF timespec_micros, Timespec
<1>4. CASE ~(nsec < 0)
  <2>1. timespec_diff(start, stop) = [tv_sec |-> sec, tv_nsec |-> nsec]
    BY <1>4 DEF timespec_diff, nsec, sec
  <2>2. sec \in Nat /\ nsec \in 0 .. Nano - 1
    BY <1>1, <1>4, NanoType, NoBorrow
  <2>3. nsec \div Kilo + sec * Micro = nanos \div Kilo
    BY <1>2, <2>2
  <2> HIDE DEF nanos
  <2> QED
    BY <1>1, <2>1, <2>2, <2>3 DEF timespec_micros, Timespec
<1> QED
  BY <1>3, <1>4
=============================================================================
