----------------------------- MODULE FpgaBootProofs -----------------------------
(***************************************************************************)
(* OwnCommand, PanicNeedsCause and ArqOnWhileRunning of FpgaBoot, for any  *)
(* sizes of the two areas, any commands and initrds and any number of      *)
(* invocations, each of which may be aborted at any place.                 *)
(***************************************************************************)
EXTENDS FpgaBoot, SequenceTheorems, WellFoundedInduction, TLAPS

-----------------------------------------------------------------------------
(* What is in memory. *)

\* The command, cut or filled with NULs; memory that Linux has taken.
HasCommand(b) == \A x \in 0 .. CmdSize - 1 : dram[x] = IF x < Len(b) THEN b[x + 1] ELSE NUL
JunkPage == \A x \in 0 .. CmdSize - 1 : dram[x] = "junk"

\* The initrd is there unless it was cut, or a command that does not fit was written
\* over it.
HasInitrd(v) == v.initrd # None /\ Fits(v) => Intact(v.initrd)

\* While the loader is between stop and start, nothing runs.  What it writes is still in
\* memory when the core starts, and when Linux looks for it.
MemoryInv ==
  /\ core = "running" <=> linux # "off"
  /\ pc \in {"disable", "load", "initrd", "command", "enable", "start"} => linux = "off"
  /\ pc = "command" /\ Len(args.initrd) <= InitrdSize => Intact(args.initrd)
  /\ pc \in {"enable", "start"} => HasCommand(args.bench) /\ HasInitrd(args)
  /\ linux = "boot" => HasInitrd(booted)
  /\ linux \in {"boot", "init"} => ran = None /\ IF taken THEN JunkPage ELSE HasCommand(booted.bench)

\* EnableArq comes before StartPEs, and nothing switches ARQ off while the core runs.
ArqInv ==
  /\ ArqOnWhileRunning
  /\ pc = "start" => Modules \ arq \subseteq {"eth_rf"}

FpgaInv == TypeOK /\ MemoryInv /\ ArqInv /\ OwnCommand /\ PanicNeedsCause

-----------------------------------------------------------------------------
(* Writing. *)

\* The arguments are sequences.
LEMMA ArgTypes ==
  ASSUME NEW v \in Args
  PROVE  /\ v.bench \in Seq(STRING) /\ Len(v.bench) \in Nat
         /\ v.initrd \in Seq(STRING) /\ Len(v.initrd) \in Nat
         /\ v.bench # None => v.bench \in Commands
         /\ v.initrd # None => v.initrd \in Initrds
<1>1. v.bench \in Commands \cup {None} /\ v.initrd \in Initrds \cup {None}
  BY DEF Args
<1>2. v.bench \in Seq(STRING) /\ v.initrd \in Seq(STRING)
  BY <1>1, FpgaAssumption, EmptySeq DEF None
<1>3. Len(v.bench) \in Nat /\ Len(v.initrd) \in Nat
  BY <1>2, LenProperties
<1> QED BY <1>1, <1>2, <1>3

\* write_str() fills its area, and more only if the string does not fit.
LEMMA CommandBytesLemma ==
  ASSUME NEW b \in Seq(STRING)
  PROVE  /\ Len(CommandBytes(b)) = IF Len(b) < CmdSize THEN CmdSize ELSE Len(b) + 1
         /\ \A j \in 1 .. Len(CommandBytes(b)) :
              CommandBytes(b)[j] = IF j <= Len(b) THEN b[j] ELSE NUL
<1> DEFINE n == IF Len(b) < CmdSize THEN CmdSize ELSE Len(b) + 1
<1>1. Len(b) \in Nat /\ CmdSize \in Nat /\ n \in Nat
  BY LenProperties, FpgaAssumption
<1>2. Max({Len(b) + 1, CmdSize}) = n
  BY <1>1 DEF Max
<1>3. CommandBytes(b) = [j \in 1 .. n |-> IF j <= Len(b) THEN b[j] ELSE NUL]
  BY <1>2 DEF CommandBytes, Padded
<1> HIDE DEF n
<1>4. Len(CommandBytes(b)) = n
  BY <1>1, <1>3
<1> QED BY <1>3, <1>4 DEF n

LEMMA CommandWritten ==
  ASSUME NEW b \in Seq(STRING), DOMAIN dram = 0 .. CmdSize + InitrdSize - 1, dram' = write_str(b)
  PROVE  /\ DOMAIN dram' = DOMAIN dram
         /\ HasCommand(b)'
         /\ Len(b) < CmdSize => \A x \in DOMAIN dram : x >= CmdSize => dram'[x] = dram[x]
<1> DEFINE s == CommandBytes(b)
<1>1. /\ Len(b) \in Nat /\ CmdSize \in Nat \ {0} /\ InitrdSize \in Nat
      /\ Len(s) = IF Len(b) < CmdSize THEN CmdSize ELSE Len(b) + 1
      /\ \A j \in 1 .. Len(s) : s[j] = IF j <= Len(b) THEN b[j] ELSE NUL
  BY LenProperties, FpgaAssumption, CommandBytesLemma
<1> HIDE DEF s
<1>2. /\ DOMAIN dram' = DOMAIN dram
      /\ \A x \in DOMAIN dram : dram'[x] = IF x \in 0 .. 0 + Len(s) - 1 THEN s[x - 0 + 1] ELSE dram[x]
  BY DEF write_str, Written, s
<1>3. \A x \in 0 .. CmdSize - 1 : dram'[x] = IF x < Len(b) THEN b[x + 1] ELSE NUL
  <2> SUFFICES ASSUME NEW x \in 0 .. CmdSize - 1
               PROVE  dram'[x] = IF x < Len(b) THEN b[x + 1] ELSE NUL
    OBVIOUS
  <2>1. x \in DOMAIN dram /\ x \in 0 .. 0 + Len(s) - 1 /\ x + 1 \in 1 .. Len(s) /\ x - 0 + 1 = x + 1
    BY <1>1
  <2>2. dram'[x] = s[x + 1]
    BY <1>2, <2>1
  <2>3. s[x + 1] = IF x + 1 <= Len(b) THEN b[x + 1] ELSE NUL
    BY <1>1, <2>1
  <2> QED BY <1>1, <2>2, <2>3
<1>4. ASSUME Len(b) < CmdSize, NEW x \in DOMAIN dram, x >= CmdSize
      PROVE  dram'[x] = dram[x]
  <2>1. ~(x \in 0 .. 0 + Len(s) - 1)
    BY <1>1, <1>4
  <2> QED BY <1>2, <2>1
<1> QED BY <1>2, <1>3, <1>4 DEF HasCommand

LEMMA InitrdWritten ==
  ASSUME NEW f \in Seq(STRING), Len(f) \in Nat,
         DOMAIN dram = 0 .. CmdSize + InitrdSize - 1, dram' = Written(f, CmdSize)
  PROVE  DOMAIN dram' = DOMAIN dram /\ (Len(f) <= InitrdSize => Intact(f)')
<1>1. CmdSize \in Nat \ {0} /\ InitrdSize \in Nat
  BY FpgaAssumption
<1>2. /\ DOMAIN dram' = DOMAIN dram
      /\ \A x \in DOMAIN dram : x \in CmdSize .. CmdSize + Len(f) - 1 => dram'[x] = f[x - CmdSize + 1]
  BY DEF Written
<1>3. ASSUME Len(f) <= InitrdSize, NEW j \in 1 .. Len(f)
      PROVE  dram'[CmdSize + j - 1] = f[j]
  <2>1. PICK x \in DOMAIN dram : x = CmdSize + j - 1 /\ x \in CmdSize .. CmdSize + Len(f) - 1
    BY <1>1, <1>3
  <2>2. dram'[x] = f[x - CmdSize + 1] /\ x - CmdSize + 1 = j
    BY <1>1, <1>2, <2>1
  <2> QED BY <2>1, <2>2
<1> QED BY <1>2, <1>3 DEF Intact

\* An initrd that does not change is still there.
LEMMA IntactKept ==
  ASSUME NEW f, Len(f) \in 0 .. InitrdSize, DOMAIN dram = 0 .. CmdSize + InitrdSize - 1, Intact(f),
         \A x \in DOMAIN dram : x >= CmdSize => dram'[x] = dram[x]
  PROVE  Intact(f)'
<1>1. CmdSize \in Nat \ {0} /\ InitrdSize \in Nat
  BY FpgaAssumption
<1>2. \A j \in 1 .. Len(f) : CmdSize + j - 1 \in DOMAIN dram /\ CmdSize + j - 1 >= CmdSize
  BY <1>1
<1> QED BY <1>2 DEF Intact

-----------------------------------------------------------------------------
(* Reading. *)

\* Every set of numbers has a least one.
LEMMA LeastNatural ==
  ASSUME NEW T, T \subseteq Nat, T # {}
  PROVE  \E n \in T : \A m \in T : n <= m
<1> DEFINE Less == OpToRel(<, Nat)
<1>1. IsWellFoundedOn(Less, Nat)
  BY NatLessThanWellFounded
<1>2. \A x, y \in Nat : x < y => <<x, y>> \in Less
  BY SMT DEF OpToRel
<1> HIDE DEF Less
<1>3. PICK n \in T : \A m \in T : ~(<<m, n>> \in Less)
  BY <1>1, WFMin
<1>4. \A m \in T : ~(m < n)
  BY <1>2, <1>3
<1>5. \A m \in T : n <= m
  BY ONLY <1>4, T \subseteq Nat, n \in T, SMT
<1> QED BY <1>5

\* The equation that the recursive function of S50bench solves, and its only solution:
\* by induction on the units read.
Strips(g) ==
  g = [j \in 0 .. CmdSize |->
         IF j = 0 THEN <<>>
         ELSE IF dram[j - 1] = NUL THEN g[j - 1] ELSE Append(g[j - 1], dram[j - 1])]

LEMMA StrippedIs ==
  ASSUME NEW g, Strips(g)
  PROVE  Stripped = g
<1>0. CmdSize \in Nat
  BY FpgaAssumption
<1>1. Stripped = CHOOSE f : Strips(f)
  BY DEF Stripped, Strips
<1>2. Strips(Stripped)
  BY <1>1
<1> DEFINE f == Stripped
<1> HIDE DEF f
<1>3. /\ DOMAIN f = 0 .. CmdSize /\ DOMAIN g = 0 .. CmdSize
      /\ f = [j \in 0 .. CmdSize |-> f[j]] /\ g = [j \in 0 .. CmdSize |-> g[j]]
      /\ \A j \in 0 .. CmdSize : f[j] =
           IF j = 0 THEN <<>>
           ELSE IF dram[j - 1] = NUL THEN f[j - 1] ELSE Append(f[j - 1], dram[j - 1])
      /\ \A j \in 0 .. CmdSize : g[j] =
           IF j = 0 THEN <<>>
           ELSE IF dram[j - 1] = NUL THEN g[j - 1] ELSE Append(g[j - 1], dram[j - 1])
  BY <1>2 DEF Strips, f
<1> DEFINE T == {j \in 0 .. CmdSize : f[j] # g[j]}
<1>4. T = {}
  <2> SUFFICES ASSUME T # {} PROVE FALSE
    OBVIOUS
  <2>1. T \subseteq Nat
    BY <1>0
  <2>2. PICK n \in T : \A m \in T : n <= m
    BY <2>1, LeastNatural
  <2>3. n \in 0 .. CmdSize /\ f[n] # g[n] /\ n # 0
    BY <1>0, <1>3, <2>2
  <2>4. n - 1 \in 0 .. CmdSize /\ ~(n - 1 \in T)
    BY <1>0, <2>2, <2>3
  <2>5. f[n - 1] = g[n - 1]
    BY <2>4
  <2>6. /\ f[n] = IF dram[n - 1] = NUL THEN f[n - 1] ELSE Append(f[n - 1], dram[n - 1])
        /\ g[n] = IF dram[n - 1] = NUL THEN g[n - 1] ELSE Append(g[n - 1], dram[n - 1])
    BY <1>3, <2>3
  <2> QED BY <2>3, <2>5, <2>6
<1>5. \A j \in 0 .. CmdSize : f[j] = g[j]
  BY <1>4
<1> QED BY <1>3, <1>5 DEF f

\* What S50bench reads is the beginning of what was written, if that has no NUL.
LEMMA CommandRead ==
  ASSUME NEW S, NEW b \in Seq(S), \A j \in 1 .. Len(b) : b[j] # NUL, HasCommand(b)
  PROVE  Command = [j \in 1 .. Min({Len(b), CmdSize}) |-> b[j]]
<1>0. CmdSize \in Nat /\ Len(b) \in Nat
  BY FpgaAssumption, LenProperties
<1> DEFINE cut(j) == IF j < Len(b) THEN j ELSE Len(b)
           g == [j \in 0 .. CmdSize |-> [i \in 1 .. cut(j) |-> b[i]]]
           next(j) == IF j = 0 THEN <<>>
                      ELSE IF dram[j - 1] = NUL THEN g[j - 1] ELSE Append(g[j - 1], dram[j - 1])
<1>1. ASSUME NEW j \in 0 .. CmdSize PROVE g[j] = next(j)
  <2>1. CASE j = 0
    <3>1. g[j] = [i \in 1 .. 0 |-> b[i]]
      BY <1>0, <2>1
    <3> QED BY <2>1, <3>1
  <2>2. CASE j # 0
    <3>1. /\ j - 1 \in 0 .. CmdSize - 1 /\ j - 1 \in 0 .. CmdSize /\ j - 1 + 1 = j
          /\ g[j - 1] = [i \in 1 .. cut(j - 1) |-> b[i]] /\ g[j] = [i \in 1 .. cut(j) |-> b[i]]
      BY <1>0, <2>2
    <3>2. dram[j - 1] = IF j - 1 < Len(b) THEN b[j - 1 + 1] ELSE NUL
      BY <3>1 DEF HasCommand
    <3>3. CASE j - 1 < Len(b)
      <4>1. j \in 1 .. Len(b) /\ dram[j - 1] = b[j] /\ b[j] # NUL /\ b[j] \in S
        BY <1>0, <2>2, <3>1, <3>2, <3>3, ElementOfSeq
      <4>2. cut(j - 1) = j - 1 /\ cut(j) = j /\ j \in Nat
        BY <1>0, <2>2, <3>3
      <4> HIDE DEF g, cut
      <4>3. g[j - 1] = [i \in 1 .. j - 1 |-> b[i]] /\ g[j] = [i \in 1 .. j |-> b[i]]
        BY <3>1, <4>2
      <4>4. \A i \in 1 .. j : i \in 1 .. Len(b) /\ b[i] \in S
        BY <1>0, <4>1, ElementOfSeq
      <4>5. /\ g[j - 1] \in Seq(S) /\ Len(g[j - 1]) = j - 1
            /\ g[j] \in Seq(S) /\ Len(g[j]) = j
        <5>1. \A i \in 1 .. j - 1 : b[i] \in S
          BY <4>2, <4>4
        <5>2. j - 1 \in Nat
          BY <3>1
        <5>3. [i \in 1 .. j - 1 |-> b[i]] \in Seq(S) /\ Len([i \in 1 .. j - 1 |-> b[i]]) = j - 1
          BY ONLY <5>1, <5>2
        <5>4. [i \in 1 .. j |-> b[i]] \in Seq(S) /\ Len([i \in 1 .. j |-> b[i]]) = j
          BY ONLY <4>2, <4>4
        <5> QED BY <4>3, <5>3, <5>4
      <4>6. /\ Append(g[j - 1], b[j]) \in Seq(S) /\ Len(Append(g[j - 1], b[j])) = j
            /\ \A i \in 1 .. j - 1 : Append(g[j - 1], b[j])[i] = g[j - 1][i]
            /\ Append(g[j - 1], b[j])[j] = b[j]
        <5>1. /\ Append(g[j - 1], b[j]) \in Seq(S)
              /\ Len(Append(g[j - 1], b[j])) = Len(g[j - 1]) + 1
              /\ \A i \in 1 .. Len(g[j - 1]) : Append(g[j - 1], b[j])[i] = g[j - 1][i]
              /\ Append(g[j - 1], b[j])[Len(g[j - 1]) + 1] = b[j]
          BY ONLY <4>1, <4>5, AppendProperties
        <5>2. Len(g[j - 1]) = j - 1 /\ Len(g[j - 1]) + 1 = j
          BY <4>5, <3>1
        <5> QED BY ONLY <5>1, <5>2
      <4>7. \A i \in 1 .. j : i \in 1 .. j - 1 \/ i = j
        BY <4>2
      <4>8. \A i \in 1 .. j : Append(g[j - 1], b[j])[i] = g[j][i]
        BY ONLY <4>3, <4>6, <4>7
      <4>9. Append(g[j - 1], b[j]) = g[j]
        BY ONLY <4>5, <4>6, <4>8, SeqEqual
      <4> QED BY <2>2, <4>1, <4>9
    <3>4. CASE ~(j - 1 < Len(b))
      <4>1. dram[j - 1] = NUL /\ cut(j - 1) = Len(b) /\ cut(j) = Len(b)
        BY <1>0, <2>2, <3>1, <3>2, <3>4
      <4>2. g[j] = g[j - 1]
        BY <3>1, <4>1
      <4> QED BY <2>2, <4>1, <4>2
    <3> QED BY <3>3, <3>4
  <2> QED BY <2>1, <2>2
<1>2. g = [j \in 0 .. CmdSize |-> next(j)]
  <2>1. DOMAIN g = 0 .. CmdSize /\ g = [j \in 0 .. CmdSize |-> g[j]]
    OBVIOUS
  <2> HIDE DEF g, next
  <2> QED BY <1>1, <2>1
<1>3. Strips(g)
  <2> HIDE DEF g
  <2> QED BY <1>2 DEF Strips
<1>4. Command = [i \in 1 .. cut(CmdSize) |-> b[i]]
  <2>1. Command = g[CmdSize]
    BY <1>3, StrippedIs DEF Command
  <2> QED BY <1>0, <2>1
<1>5. Min({Len(b), CmdSize}) = cut(CmdSize)
  BY <1>0 DEF Min
<1> QED BY <1>4, <1>5

\* Where Linux has taken the page, S50bench finds no benchmark.
LEMMA JunkRead ==
  ASSUME JunkPage
  PROVE  ~(Command # <<>> /\ Head(Command) \in {Head(c) : c \in Prefixed})
<1>0. CmdSize \in Nat \ {0}
  BY FpgaAssumption
<1> DEFINE s == [i \in 1 .. CmdSize |-> "junk"]
<1>1. s \in Seq({"junk"}) /\ Len(s) = CmdSize /\ \A j \in 1 .. CmdSize : s[j] = "junk"
  <2>1. \A i \in 1 .. CmdSize : s[i] = "junk"
    OBVIOUS
  <2>2. s \in [1 .. CmdSize -> {"junk"}]
    OBVIOUS
  <2> HIDE DEF s
  <2>3. s \in Seq({"junk"}) /\ Len(s) = CmdSize
    BY ONLY <1>0, <2>2
  <2> QED BY <2>1, <2>3
<1> HIDE DEF s
<1>2. HasCommand(s) /\ \A j \in 1 .. Len(s) : s[j] # NUL
  <2>1. \A x \in 0 .. CmdSize - 1 : x < CmdSize /\ x + 1 \in 1 .. CmdSize
    BY <1>0
  <2> QED BY <1>1, <2>1 DEF HasCommand, JunkPage, NUL
<1>3. Min({Len(s), CmdSize}) = CmdSize
  BY <1>0, <1>1 DEF Min
<1>4. Command = [j \in 1 .. CmdSize |-> s[j]]
  BY <1>1, <1>2, <1>3, CommandRead
<1>5. Head(Command) = "junk"
  <2>1. 1 \in 1 .. CmdSize
    BY <1>0
  <2> QED BY <1>0, <1>1, <1>4, <2>1
<1>6. ASSUME NEW c \in Prefixed PROVE Head(c) # "junk"
  <2>1. c \in Seq(STRING) /\ c # <<>> /\ \A j \in 1 .. Len(c) : c[j] # "junk"
    BY FpgaAssumption DEF None
  <2>2. 1 \in 1 .. Len(c) /\ Head(c) = c[1]
    BY <2>1, EmptySeq
  <2> QED BY <2>1, <2>2
<1> QED BY <1>5, <1>6

-----------------------------------------------------------------------------
(* The inductive invariant. *)

LEMMA FpgaInit == ASSUME Init PROVE FpgaInv
<1>1. NoArgs \in Args
  BY DEF NoArgs, Args
<1>2. TypeOK
  <2>1. invocations \in 0 .. MaxInvocations
    BY FpgaAssumption DEF Init
  <2>2. DOMAIN dram = 0 .. CmdSize + InitrdSize - 1
    BY DEF Init
  <2> QED BY <1>1, <2>1, <2>2 DEF Init, TypeOK
<1> QED BY <1>2 DEF Init, FpgaInv, MemoryInv, ArqInv, ArqOnWhileRunning, OwnCommand, PanicNeedsCause, None

\* A step that changes neither memory nor the target, and no argument that matters.
LEMMA ConnectStep == ASSUME FpgaInv, Connect PROVE FpgaInv'
<1>1. /\ pc' = "stop" /\ dram' = dram /\ args' \in Args /\ invocations' = invocations + 1
      /\ invocations < MaxInvocations
  BY DEF Connect
<1>2. CASE args'.reset
  <2>1. /\ core' = "stopped" /\ linux' = "off" /\ booted' = NoArgs /\ taken' = FALSE /\ ran' = None
        /\ arq' = Modules
    BY <1>2 DEF Connect, Stopped
  <2>2. TypeOK'
    <3>1. NoArgs \in Args
      BY DEF NoArgs, Args
    <3>2. invocations' \in 0 .. MaxInvocations
      BY <1>1, FpgaAssumption DEF FpgaInv, TypeOK
    <3> QED BY <1>1, <2>1, <3>1, <3>2 DEF FpgaInv, TypeOK
  <2> QED BY <1>1, <2>1, <2>2
          DEF FpgaInv, MemoryInv, ArqInv, ArqOnWhileRunning, OwnCommand, PanicNeedsCause
<1>3. CASE ~args'.reset
  <2>1. UNCHANGED <<core, linux, booted, taken, ran, arq>>
    BY <1>3 DEF Connect, target
  <2>2. TypeOK'
    BY <1>1, <2>1, FpgaAssumption DEF FpgaInv, TypeOK
  <2>3. MemoryInv'
    BY <1>1, <2>1 DEF FpgaInv, MemoryInv, HasInitrd, HasCommand, JunkPage, Intact
  <2> QED BY <1>1, <2>1, <2>2, <2>3 DEF FpgaInv, ArqInv, ArqOnWhileRunning, OwnCommand, PanicNeedsCause
<1> QED BY <1>2, <1>3

\* The loader, up to the place where it writes.
LEMMA StopStep == ASSUME FpgaInv, StopPEs \/ DisableArq \/ load_prog PROVE FpgaInv'
<1>1. CASE StopPEs
  <2>1. /\ pc = "stop" /\ pc' = "disable" /\ UNCHANGED <<args, invocations, dram, arq>>
        /\ core' = "stopped" /\ linux' = "off" /\ booted' = NoArgs /\ taken' = FALSE /\ ran' = None
    BY <1>1 DEF StopPEs, Stopped
  <2>2. TypeOK'
    <3>1. NoArgs \in Args
      BY DEF NoArgs, Args
    <3> QED BY <2>1, <3>1 DEF FpgaInv, TypeOK
  <2> QED BY <2>1, <2>2 DEF FpgaInv, MemoryInv, ArqInv, ArqOnWhileRunning, OwnCommand, PanicNeedsCause
<1>2. CASE DisableArq
  <2>1. /\ pc = "disable" /\ pc' = "load" /\ arq' = {}
        /\ UNCHANGED <<args, invocations, dram, core, linux, booted, taken, ran>>
    BY <1>2 DEF DisableArq, target
  <2>2. linux = "off" /\ core # "running"
    BY <2>1 DEF FpgaInv, MemoryInv
  <2> QED BY <2>1, <2>2 DEF FpgaInv, TypeOK, MemoryInv, ArqInv, ArqOnWhileRunning, OwnCommand, PanicNeedsCause
<1>3. CASE load_prog
  <2>1. /\ pc = "load" /\ pc' = "initrd" /\ core' = "waiting"
        /\ UNCHANGED <<args, invocations, dram, arq, linux, booted, taken, ran>>
    BY <1>3 DEF load_prog
  <2>2. linux = "off"
    BY <2>1 DEF FpgaInv, MemoryInv
  <2> QED BY <2>1, <2>2 DEF FpgaInv, TypeOK, MemoryInv, ArqInv, ArqOnWhileRunning, OwnCommand, PanicNeedsCause
<1> QED BY <1>1, <1>2, <1>3

\* The initrd and then the command are written.
LEMMA WriteStep == ASSUME FpgaInv, WriteInitrd \/ WriteCommand PROVE FpgaInv'
<1>1. /\ DOMAIN dram = 0 .. CmdSize + InitrdSize - 1 /\ args \in Args
      /\ linux = "off" /\ core # "running"
  BY DEF FpgaInv, TypeOK, MemoryInv, WriteInitrd, WriteCommand
<1>2. /\ args.bench \in Seq(STRING) /\ Len(args.bench) \in Nat
      /\ args.initrd \in Seq(STRING) /\ Len(args.initrd) \in Nat /\ InitrdSize \in Nat
  BY <1>1, ArgTypes, FpgaAssumption
<1>3. CASE WriteInitrd
  <2>1. /\ pc = "initrd" /\ pc' = "command" /\ dram' = Written(args.initrd, CmdSize)
        /\ UNCHANGED <<args, invocations, arq, core, linux, booted, taken, ran>>
    BY <1>3 DEF WriteInitrd, target
  <2>2. DOMAIN dram' = DOMAIN dram /\ (Len(args.initrd) <= InitrdSize => Intact(args.initrd)')
    BY <1>1, <1>2, <2>1, InitrdWritten
  <2>3. MemoryInv'
    BY <1>1, <2>1, <2>2 DEF FpgaInv, MemoryInv, Intact
  <2>4. TypeOK'
    BY <2>1, <2>2 DEF FpgaInv, TypeOK
  <2> QED BY <1>1, <2>1, <2>3, <2>4 DEF FpgaInv, ArqInv, ArqOnWhileRunning, OwnCommand, PanicNeedsCause
<1>4. CASE WriteCommand
  <2>1. /\ pc = "command" /\ pc' = "enable" /\ dram' = write_str(args.bench)
        /\ UNCHANGED <<args, invocations, arq, core, linux, booted, taken, ran>>
    BY <1>4 DEF WriteCommand, target
  <2>2. /\ DOMAIN dram' = DOMAIN dram /\ HasCommand(args.bench)'
        /\ Fits(args) => \A x \in DOMAIN dram : x >= CmdSize => dram'[x] = dram[x]
    BY <1>1, <1>2, <2>1, CommandWritten DEF Fits
  <2>3. ASSUME args.initrd # None, Fits(args) PROVE Intact(args.initrd)'
    <3>1. Intact(args.initrd)
      BY <2>1, <2>3 DEF FpgaInv, MemoryInv, Fits
    <3>2. /\ Len(args.initrd) \in 0 .. InitrdSize /\ DOMAIN dram = 0 .. CmdSize + InitrdSize - 1
          /\ \A x \in DOMAIN dram : x >= CmdSize => dram'[x] = dram[x]
      BY <1>1, <1>2, <2>2, <2>3 DEF Fits
    <3>3. \A f : Intact(f) /\ Len(f) \in 0 .. InitrdSize =>
            \A j \in 1 .. Len(f) : dram'[CmdSize + j - 1] = f[j]
      BY ONLY <3>2, IntactKept DEF Intact
    <3>4. \A j \in 1 .. Len(args.initrd) : dram'[CmdSize + j - 1] = args.initrd[j]
      BY ONLY <3>1, <3>2, <3>3
    <3> QED BY <2>1, <3>2, <3>4 DEF Intact
  <2>4. HasInitrd(args)'
    BY <2>1, <2>3 DEF HasInitrd, Intact, Fits
  <2>5. MemoryInv'
    BY <1>1, <2>1, <2>2, <2>4 DEF FpgaInv, MemoryInv, HasCommand
  <2>6. TypeOK'
    BY <2>1, <2>2 DEF FpgaInv, TypeOK
  <2> QED BY <1>1, <2>1, <2>5, <2>6 DEF FpgaInv, ArqInv, ArqOnWhileRunning, OwnCommand, PanicNeedsCause
<1> QED BY <1>3, <1>4

\* ARQ is enabled and the core is started with what is in memory.
LEMMA StartStep == ASSUME FpgaInv, EnableArq \/ StartPEs \/ OpenSerial PROVE FpgaInv'
<1>1. CASE EnableArq
  <2>1. /\ pc = "enable" /\ pc' = "start" /\ arq' = arq \cup {"pms", "dram1", "dram2"}
        /\ UNCHANGED <<args, invocations, dram, core, linux, booted, taken, ran>>
    BY <1>1 DEF EnableArq, target
  <2>2. MemoryInv'
    BY <2>1 DEF FpgaInv, MemoryInv, HasInitrd, HasCommand, Intact, Fits
  <2>3. arq' \subseteq Modules /\ Modules \ arq' \subseteq {"eth_rf"}
    BY <2>1 DEF FpgaInv, TypeOK, Modules
  <2> QED BY <2>1, <2>2, <2>3 DEF FpgaInv, TypeOK, ArqInv, ArqOnWhileRunning, OwnCommand, PanicNeedsCause
<1>2. CASE StartPEs
  <2>1. /\ pc = "start" /\ pc' = "serial" /\ UNCHANGED <<args, invocations, dram, arq>>
        /\ core' = "running" /\ linux' = "boot" /\ booted' = args /\ taken' = FALSE /\ ran' = None
    BY <1>2 DEF StartPEs
  <2>2. HasCommand(args.bench) /\ HasInitrd(args) /\ Modules \ arq \subseteq {"eth_rf"}
    BY <2>1 DEF FpgaInv, MemoryInv, ArqInv
  <2>3. HasCommand(booted.bench)' /\ HasInitrd(booted)'
    BY <2>1, <2>2 DEF HasCommand, HasInitrd, Intact, Fits
  <2>4. MemoryInv'
    BY <2>1, <2>3 DEF MemoryInv
  <2>5. TypeOK'
    BY <2>1 DEF FpgaInv, TypeOK
  <2> QED BY <2>1, <2>2, <2>4, <2>5 DEF FpgaInv, ArqInv, ArqOnWhileRunning, OwnCommand, PanicNeedsCause
<1>3. CASE OpenSerial
  <2>1. /\ pc = "serial" /\ pc' \in {"wait", "terminal"}
        /\ UNCHANGED <<args, invocations, dram, arq, core, linux, booted, taken, ran>>
    BY <1>3 DEF OpenSerial, target
  <2>2. MemoryInv'
    BY <2>1 DEF FpgaInv, MemoryInv, HasInitrd, HasCommand, JunkPage, Intact, Fits
  <2> QED BY <2>1, <2>2 DEF FpgaInv, TypeOK, ArqInv, ArqOnWhileRunning, OwnCommand, PanicNeedsCause
<1> QED BY <1>1, <1>2, <1>3

\* An exception or Ctrl-C, at any place: memory only changes while nothing runs.
LEMMA AbortStep == ASSUME FpgaInv, Abort PROVE FpgaInv'
<1>1. /\ pc' = "idle" /\ args' = NoArgs /\ NoArgs \in Args
      /\ UNCHANGED <<invocations, core, linux, booted, taken, ran>>
  BY DEF Abort, target, NoArgs, Args
<1>2. dram' = dram \/ linux = "off"
  BY DEF Abort, FpgaInv, MemoryInv
<1>3. DOMAIN dram' = DOMAIN dram
  BY DEF Abort, Written
<1>4. arq' \subseteq Modules /\ (arq' = arq \/ core # "running")
  <2>1. arq' = arq \/ pc \in {"disable", "enable"}
    BY DEF Abort
  <2>2. arq' = arq \/ core # "running"
    BY <2>1 DEF FpgaInv, MemoryInv
  <2>3. arq' \subseteq arq \cup {"pms", "dram1"}
    BY DEF Abort
  <2>4. arq \subseteq Modules
    BY DEF FpgaInv, TypeOK
  <2> QED BY <2>2, <2>3, <2>4 DEF Modules
<1>5. TypeOK'
  BY <1>1, <1>3, <1>4 DEF FpgaInv, TypeOK
<1>6. MemoryInv'
  <2>1. CASE dram' = dram
    BY <1>1, <2>1 DEF FpgaInv, MemoryInv, HasInitrd, HasCommand, JunkPage, Intact, Fits
  <2>2. CASE linux = "off"
    BY <1>1, <2>2 DEF FpgaInv, MemoryInv
  <2> QED BY <1>2, <2>1, <2>2
<1> QED BY <1>1, <1>4, <1>5, <1>6 DEF FpgaInv, ArqInv, ArqOnWhileRunning, OwnCommand, PanicNeedsCause

\* Linux boots, and panics only if there was no initrd or the command was written over it.
LEMMA BootStep == ASSUME FpgaInv, Boot PROVE FpgaInv'
<1>1. /\ linux = "boot" /\ linux' = (IF \E f \in Initrds : Intact(f) THEN "init" ELSE "panic")
      /\ UNCHANGED <<pc, args, invocations, dram, arq, core, booted, taken, ran>>
  BY DEF Boot, loader
<1>2. booted \in Args /\ HasInitrd(booted)
  BY <1>1 DEF FpgaInv, TypeOK, MemoryInv
<1>3. booted.initrd # None => booted.initrd \in Initrds
  BY <1>2, ArgTypes
<1>4. PanicNeedsCause'
  BY <1>1, <1>2, <1>3 DEF PanicNeedsCause, HasInitrd, Fits
<1>5. TypeOK'
  BY <1>1 DEF FpgaInv, TypeOK
<1>6. MemoryInv'
  BY <1>1 DEF FpgaInv, MemoryInv, HasCommand, JunkPage
<1> QED BY <1>1, <1>4, <1>5, <1>6 DEF FpgaInv, ArqInv, ArqOnWhileRunning, OwnCommand

\* Linux uses memory for itself.
LEMMA MemoryStep == ASSUME FpgaInv, TakePage \/ FreeInitrd PROVE FpgaInv'
<1>0. CmdSize \in Nat \ {0} /\ InitrdSize \in Nat /\ DOMAIN dram = 0 .. CmdSize + InitrdSize - 1
  BY FpgaAssumption DEF FpgaInv, TypeOK
<1>1. CASE TakePage
  <2>1. /\ linux \in {"boot", "init"} /\ taken' = TRUE
        /\ dram' = [x \in DOMAIN dram |-> IF x < CmdSize THEN "junk" ELSE dram[x]]
        /\ UNCHANGED <<pc, args, invocations, arq, core, linux, booted, ran>>
    BY <1>1 DEF TakePage, loader
  <2>2. /\ DOMAIN dram' = DOMAIN dram
        /\ \A x \in DOMAIN dram : x >= CmdSize => dram'[x] = dram[x]
    BY <1>0, <2>1
  <2>3. JunkPage'
    <3>1. \A x \in 0 .. CmdSize - 1 : x \in DOMAIN dram /\ x < CmdSize
      BY <1>0
    <3> QED BY <2>1, <3>1 DEF JunkPage
  <2>4. ASSUME linux = "boot", booted.initrd # None, Fits(booted)
        PROVE  Intact(booted.initrd)'
    <3>1. Intact(booted.initrd) /\ Len(booted.initrd) \in 0 .. InitrdSize
      BY <1>0, <2>4, ArgTypes DEF FpgaInv, TypeOK, MemoryInv, HasInitrd, Fits
    <3>2. \A f : Intact(f) /\ Len(f) \in 0 .. InitrdSize =>
            \A j \in 1 .. Len(f) : dram'[CmdSize + j - 1] = f[j]
      BY ONLY <1>0, <2>2, IntactKept DEF Intact
    <3>3. \A j \in 1 .. Len(booted.initrd) : dram'[CmdSize + j - 1] = booted.initrd[j]
      BY ONLY <3>1, <3>2
    <3> QED BY <2>1, <3>1, <3>3 DEF Intact
  <2>5. linux = "boot" => HasInitrd(booted)'
    BY <2>1, <2>4 DEF HasInitrd, Fits, Intact
  <2>6. MemoryInv'
    BY <2>1, <2>3, <2>5 DEF FpgaInv, MemoryInv
  <2>7. TypeOK'
    BY <2>1, <2>2 DEF FpgaInv, TypeOK
  <2> QED BY <2>1, <2>6, <2>7 DEF FpgaInv, ArqInv, ArqOnWhileRunning, OwnCommand, PanicNeedsCause
<1>2. CASE FreeInitrd
  <2>1. /\ linux \in {"init", "bench", "done"}
        /\ dram' = [x \in DOMAIN dram |-> IF x < CmdSize THEN dram[x] ELSE "junk"]
        /\ UNCHANGED <<pc, args, invocations, arq, core, linux, booted, taken, ran>>
    BY <1>2 DEF FreeInitrd, loader, target
  <2>2. DOMAIN dram' = DOMAIN dram /\ \A x \in 0 .. CmdSize - 1 : dram'[x] = dram[x]
    <3>1. \A x \in 0 .. CmdSize - 1 : x \in DOMAIN dram /\ x < CmdSize
      BY <1>0
    <3> QED BY <2>1, <3>1
  <2>3. MemoryInv'
    BY <2>1, <2>2 DEF FpgaInv, MemoryInv, HasCommand, JunkPage
  <2>4. TypeOK'
    BY <2>1, <2>2 DEF FpgaInv, TypeOK
  <2> QED BY <2>1, <2>3, <2>4 DEF FpgaInv, ArqInv, ArqOnWhileRunning, OwnCommand, PanicNeedsCause
<1> QED BY <1>1, <1>2

\* S50bench finds the command of this boot or none.
LEMMA BenchStep == ASSUME FpgaInv, S50bench \/ BenchDone PROVE FpgaInv'
<1>1. CASE S50bench
  <2> DEFINE Found == Command # <<>> /\ Head(Command) \in {Head(c) : c \in Prefixed}
  <2>1. /\ linux = "init" /\ UNCHANGED <<pc, args, invocations, dram, arq, core, booted, taken>>
        /\ IF Found THEN linux' = "bench" /\ ran' = Command ELSE linux' = "done" /\ ran' = ran
    BY <1>1 DEF S50bench, loader
  <2>2. booted \in Args /\ ran = None /\ IF taken THEN JunkPage ELSE HasCommand(booted.bench)
    BY <2>1 DEF FpgaInv, TypeOK, MemoryInv
  <2>3. ASSUME Found
        PROVE  /\ booted.bench \in Prefixed
               /\ Command = [j \in 1 .. Min({Len(booted.bench), CmdSize}) |-> booted.bench[j]]
    <3> DEFINE b == booted.bench
    <3>1. HasCommand(b)
      BY <2>2, <2>3, JunkRead
    <3>2. b \in Seq(STRING) /\ Len(b) \in Nat /\ (b # None => b \in Commands) /\ CmdSize \in Nat \ {0}
      BY <2>2, ArgTypes, FpgaAssumption
    <3> HIDE DEF b
    <3>3. \A j \in 1 .. Len(b) : b[j] # NUL
      <4>1. CASE b = None
        BY <4>1, EmptySeq DEF None
      <4>2. CASE b \in Commands
        BY <4>2, FpgaAssumption
      <4> QED BY <3>2, <4>1, <4>2
    <3> DEFINE m == Min({Len(b), CmdSize})
    <3>4. Command = [j \in 1 .. m |-> b[j]] /\ m = IF Len(b) < CmdSize THEN Len(b) ELSE CmdSize
      <4>1. m = IF Len(b) < CmdSize THEN Len(b) ELSE CmdSize
        BY <3>2 DEF Min
      <4>2. Command = [j \in 1 .. m |-> b[j]]
        BY <3>1, <3>2, <3>3, CommandRead
      <4> QED BY <4>1, <4>2
    <3> HIDE DEF m
    <3>5. m # 0 /\ m \in Nat
      <4>1. m = 0 => Command = <<>>
        <5>1. [j \in 1 .. 0 |-> b[j]] = <<>>
          OBVIOUS
        <5> QED BY <3>4, <5>1
      <4> QED BY <2>3, <3>2, <3>4, <4>1
    <3>6. b \in Commands /\ Head(Command) = b[1]
      <4>1. b # None
        BY <3>2, <3>4, <3>5, EmptySeq DEF None
      <4>2. 1 \in 1 .. m
        BY <3>5
      <4>3. Head(Command) = b[1]
        BY <3>4, <3>5, <4>2
      <4> QED BY <3>2, <4>1, <4>3
    <3>7. PICK c \in Prefixed : Head(Command) = Head(c)
      BY <2>3
    <3>8. Head(c) = c[1]
      BY FpgaAssumption DEF None
    <3>9. b \in Prefixed
      BY <3>6, <3>7, <3>8, FpgaAssumption
    <3> QED BY <3>4, <3>9 DEF b, m
  <2> HIDE DEF Found
  <2>4. OwnCommand'
    BY <2>1, <2>2, <2>3 DEF OwnCommand
  <2>5. TypeOK'
    BY <2>1 DEF FpgaInv, TypeOK
  <2>6. MemoryInv'
    BY <2>1 DEF FpgaInv, MemoryInv
  <2> QED BY <2>1, <2>4, <2>5, <2>6 DEF FpgaInv, ArqInv, ArqOnWhileRunning, PanicNeedsCause
<1>2. CASE BenchDone
  <2>1. /\ linux = "bench" /\ linux' = "done" /\ UNCHANGED <<invocations, dram, arq, core, booted, taken, ran>>
        /\ (pc' = "idle" /\ args' = NoArgs) \/ (pc' = pc /\ args' = args)
    BY <1>2 DEF BenchDone
  <2>2. NoArgs \in Args
    BY DEF NoArgs, Args
  <2>3. TypeOK'
    BY <2>1, <2>2 DEF FpgaInv, TypeOK
  <2>4. MemoryInv'
    BY <2>1 DEF FpgaInv, MemoryInv
  <2> QED BY <2>1, <2>3, <2>4 DEF FpgaInv, ArqInv, ArqOnWhileRunning, OwnCommand, PanicNeedsCause
<1> QED BY <1>1, <1>2

LEMMA FpgaStep == FpgaInv /\ [Next]_vars => FpgaInv'
<1> SUFFICES ASSUME FpgaInv, [Next]_vars PROVE FpgaInv'
  OBVIOUS
<1>1. CASE UNCHANGED vars
  <2>1. UNCHANGED <<pc, args, invocations, dram, arq, core, linux, booted, taken, ran>>
    BY <1>1 DEF vars
  <2>2. TypeOK' /\ MemoryInv'
    BY <2>1 DEF FpgaInv, TypeOK, MemoryInv, HasInitrd, HasCommand, JunkPage, Intact, Fits
  <2> QED BY <2>1, <2>2 DEF FpgaInv, ArqInv, ArqOnWhileRunning, OwnCommand, PanicNeedsCause, Fits
<1>2. CASE Next
  BY <1>2, ConnectStep, StopStep, WriteStep, StartStep, AbortStep, BootStep, MemoryStep, BenchStep
  DEF Next, Loader, Linux
<1> QED BY <1>1, <1>2

-----------------------------------------------------------------------------
\* Every variable has its type; in particular memory keeps its extent.
THEOREM FpgaTypeCorrect == Spec => []TypeOK
<1>1. FpgaInv => TypeOK
  BY DEF FpgaInv
<1>2. Init => FpgaInv
  BY FpgaInit
<1> QED BY <1>1, <1>2, FpgaStep, PTL DEF Spec

\* bench.sh is never run with the command of an earlier invocation of fpga.py, however
\* many of them were aborted while they wrote.
THEOREM OwnCommandCorrect == Spec => []OwnCommand
<1>1. FpgaInv => OwnCommand
  BY DEF FpgaInv
<1>2. Init => FpgaInv
  BY FpgaInit
<1> QED BY <1>1, <1>2, FpgaStep, PTL DEF Spec

\* Linux only panics without an initrd or if the command reached into it.
THEOREM PanicNeedsCauseCorrect == Spec => []PanicNeedsCause
<1>1. FpgaInv => PanicNeedsCause
  BY DEF FpgaInv
<1>2. Init => FpgaInv
  BY FpgaInit
<1> QED BY <1>1, <1>2, FpgaStep, PTL DEF Spec

\* The core never runs without ARQ on the modules it talks to, and DRAM is never written
\* with it.
THEOREM ArqOnWhileRunningCorrect == Spec => []ArqOnWhileRunning
<1>1. FpgaInv => ArqOnWhileRunning
  BY DEF FpgaInv, ArqInv
<1>2. Init => FpgaInv
  BY FpgaInit
<1> QED BY <1>1, <1>2, FpgaStep, PTL DEF Spec
=============================================================================
