-------------------------------- MODULE Measure --------------------------------
(***************************************************************************)
(* How syscall.c, memload.c and pagefault.c take their samples, and what   *)
(* sum(), avg() and stddev() of common.h make of them.  One action is one  *)
(* round of a loop.  The arithmetic is that of unsigned long (modulo W);   *)
(* a division by zero traps on x86 and yields all ones on riscv.           *)
(* The check of the sum in memload.c only fails if memory is broken and is *)
(* left out, and so are the values printed one by one.                     *)
(***************************************************************************)
EXTENDS Integers, Sequences

CONSTANTS
  W,          \* 2^64
  Limit,      \* syscall.c only keeps durations below 1000 cycles
  CountOf,    \* for each program, its possible numbers of rounds (COUNT, runs)
  Warmups,    \* the warm-up rounds that memload.c may be told to do
  Durations,  \* how long a measured operation may take
  Pages       \* the pages that pagefault.c touches

FIRST_RESULT == 2
Progs == {"syscall", "memload", "pagefault"}

ASSUME MeasureAssumption ==
  /\ W \in Nat /\ W > FIRST_RESULT /\ Limit \in Nat
  /\ CountOf \in [Progs -> SUBSET (0 .. W - 1)]
  /\ Warmups \subseteq Nat
  /\ Durations \subseteq Nat
  /\ \A n \in UNION {CountOf[p] : p \in Progs}, d \in Durations : n * d < W /\ n * d * d < W
  /\ Pages \in Nat \ {0}

VARIABLES
  prog, isa,   \* the program and the machine
  count, warm, \* its rounds that count, its warm-up rounds
  file,        \* pages of the file that pagefault.c maps
  pc,
  a,           \* the array in use (pagefault.c has two)
  clock,       \* the cycle counter
  r,           \* rounds done
  total,       \* samples stored
  times,       \* the arrays; -1 is what malloc() returned
  kept,        \* history: the durations that should be in the arrays
  k, acc,      \* the counter and the sum of the loops in sum() and stddev()
  average,     \* the result of avg()
  out          \* what was printed, for each array

setup == <<prog, isa, count, warm, file>>
samples == <<clock, r, total, times, kept>>
sums == <<k, acc, average>>
vars == <<setup, pc, a, samples, sums, out>>

Arrays == IF prog = "pagefault" THEN 1 .. 2 ELSE 1 .. 1

Init ==
  /\ prog \in Progs /\ isa \in {"x86", "riscv"}
  /\ count \in CountOf[prog]
  /\ warm \in IF prog = "memload" THEN Warmups ELSE {0}
  /\ file \in IF prog = "pagefault" THEN {Pages - 1, Pages} ELSE {0}
  /\ pc = "collect" /\ a = 1
  /\ clock \in {0, W - 1}
  /\ r = 0 /\ total = 0
  /\ times = [x \in 1 .. 2 |-> [j \in 0 .. count - 1 |-> IF prog = "memload" THEN -1 ELSE 0]]
  /\ kept = [x \in 1 .. 2 |-> <<>>]
  /\ k = 0 /\ acc = 0 /\ average = 0 /\ out = <<>>

-----------------------------------------------------------------------------
Elapsed(start, end) == (end - start) % W

\* The samples that are stored, and where.
Keeps(duration) ==
  CASE prog = "syscall" -> duration < Limit
    [] prog = "memload" -> r >= warm
    [] prog = "pagefault" -> TRUE
Index == IF prog = "syscall" THEN total ELSE r - warm
StoredAll(d) == total' = total + 1  \* mutant: total++ outside of the if
Stored(d) == total' = IF Keeps(d) THEN total + 1 ELSE total

Sigbus == prog = "pagefault" /\ a = 2 /\ file < Pages

\* One round of the measuring loop.
Round ==
  /\ pc = "collect" /\ r < count + warm /\ ~Sigbus
  /\ \E d \in Durations :
       LET end == (clock + d) % W
           duration == Elapsed(clock, end)
       IN /\ clock' = end
          /\ Stored(duration)
          /\ times' = IF Keeps(duration) THEN [times EXCEPT ![a][Index] = duration] ELSE times
          /\ kept' = IF Keeps(d) THEN [kept EXCEPT ![a] = Append(@, d)] ELSE kept
  /\ r' = r + 1
  /\ UNCHANGED <<setup, pc, a, sums, out>>

\* sched_setaffinity() of memload.c, open() or mmap() of pagefault.c.
Fail ==
  /\ pc = "collect"
  /\ \/ prog = "memload" /\ r = 0
     \/ prog = "pagefault" /\ r < count
  /\ pc' = "failed"
  /\ UNCHANGED <<setup, a, samples, sums, out>>

\* do_access() beyond the end of the file.
Fault ==
  /\ pc = "collect" /\ r < count + warm /\ Sigbus
  /\ pc' = "sigbus"
  /\ UNCHANGED <<setup, a, samples, sums, out>>

Collected ==
  /\ pc = "collect" /\ r = count + warm
  /\ IF a + 1 \in Arrays
     THEN /\ a' = a + 1 /\ r' = 0 /\ total' = 0
          /\ UNCHANGED <<pc, k>>
     ELSE /\ a' = 1 /\ pc' = "sum" /\ k' = FIRST_RESULT
          /\ UNCHANGED <<r, total>>
  /\ UNCHANGED <<setup, clock, times, kept, acc, average, out>>

-----------------------------------------------------------------------------
\* The argument `count' of sum(), avg() and stddev().
Argument == IF prog = "syscall" THEN total ELSE count

DivisorAll == Argument  \* mutant: count instead of count - FIRST_RESULT
Divisor == (Argument - FIRST_RESULT) % W

\* The results of an unsigned division: it may trap.
Traps == Divisor = 0 /\ isa = "x86"
Quotient(x) == IF Divisor = 0 THEN W - 1 ELSE x \div Divisor

\* sqrt() and the cast; the rounding of a sum beyond 2^53 to a double is left out.
Sqrt(x) == CHOOSE s \in 0 .. x : s * s <= x /\ x < (s + 1) * (s + 1)

Sum ==
  /\ pc = "sum" /\ k < Argument
  /\ acc' = (acc + times[a][k]) % W
  /\ k' = k + 1
  /\ UNCHANGED <<setup, pc, a, samples, average, out>>

Avg ==
  /\ pc = "sum" /\ k >= Argument /\ ~Traps
  /\ average' = Quotient(acc)
  /\ pc' = "dev" /\ k' = FIRST_RESULT /\ acc' = 0
  /\ UNCHANGED <<setup, a, samples, out>>

Sigfpe ==
  /\ pc = "sum" /\ k >= Argument /\ Traps
  /\ pc' = "sigfpe"
  /\ UNCHANGED <<setup, a, samples, sums, out>>

Deviation ==
  /\ pc = "dev" /\ k < Argument
  /\ acc' = acc + (times[a][k] - average) * (times[a][k] - average)
  /\ k' = k + 1
  /\ UNCHANGED <<setup, pc, a, samples, average, out>>

Stddev ==
  /\ pc = "dev" /\ k >= Argument
  /\ out' = Append(out, [avg |-> average, dev |-> Sqrt(Quotient(acc))])
  /\ IF a + 1 \in Arrays
     THEN pc' = "sum" /\ a' = a + 1
     ELSE pc' = "done" /\ UNCHANGED a
  /\ k' = FIRST_RESULT /\ acc' = 0
  /\ UNCHANGED <<setup, samples, average>>

Next ==
  \/ Round \/ Fail \/ Fault \/ Collected
  \/ Sum \/ Avg \/ Sigfpe \/ Deviation \/ Stddev

Spec == Init /\ [][Next]_vars

-----------------------------------------------------------------------------
\* Every variable has its type.
TypeOK ==
  /\ prog \in Progs /\ isa \in {"x86", "riscv"}
  /\ count \in CountOf[prog] /\ warm \in Nat /\ file \in Nat
  /\ pc \in {"collect", "sum", "dev", "done", "failed", "sigbus", "sigfpe"}
  /\ a \in Arrays
  /\ clock \in 0 .. W - 1 /\ r \in 0 .. count + warm /\ total \in 0 .. r
  /\ times \in [1 .. 2 -> [0 .. count - 1 -> {-1} \cup 0 .. W - 1]]
  /\ kept \in [1 .. 2 -> Seq(Durations)]
  /\ k \in Nat /\ acc \in Nat /\ average \in 0 .. W - 1
  /\ out \in Seq([avg : Nat, dev : Nat])

Between(s, lo, hi) == \A j \in FIRST_RESULT + 1 .. Len(s) : lo <= s[j] /\ s[j] <= hi

\* ResultsInRange: an average that is printed lies between the shortest and the
\* longest of the operations that count, those after the warm-up and the first two
\* results; the deviation is not more than their distance.  Neither a sample that
\* was filtered out, nor memory that was never written, nor a cycle counter that
\* wraps gets into them.
ResultsInRange ==
  \A x \in 1 .. Len(out), lo, hi \in Durations :
    Len(kept[x]) > FIRST_RESULT /\ Between(kept[x], lo, hi) =>
      /\ lo <= out[x].avg /\ out[x].avg <= hi
      /\ out[x].dev <= hi - lo

\* TooFew: with two samples the programs die on x86 (and only then) and report the
\* largest number there is on riscv; with one or none they report 0 cycles, although
\* nothing was averaged.
TooFew ==
  /\ pc = "sigfpe" => isa = "x86" /\ Len(kept[a]) = FIRST_RESULT
  /\ \A x \in 1 .. Len(out) :
       Len(kept[x]) <= FIRST_RESULT =>
         out[x].avg = IF Len(kept[x]) = FIRST_RESULT THEN W - 1 ELSE 0
=============================================================================
