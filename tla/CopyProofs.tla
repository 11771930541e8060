------------------------------- MODULE CopyProofs -------------------------------
(***************************************************************************)
(* The programs that copy: CleanCopy and OnlyWhatWasRead of the file       *)
(* benchmarks (FileLoops) for all files, buffer sizes and numbers of       *)
(* rounds, whichever system calls fail or fall short; Copied and           *)
(* NothingElse of my_memcpy (Memcpy) for every size of a word, every       *)
(* degree of unrolling, every length and every pair of areas.              *)
(***************************************************************************)
EXTENDS FileLoops, Memcpy, SequenceTheorems, TLAPS

(* The file benchmarks. *)

In == disk[call.in]
Out == disk[call.out]

\* The points a program comes by.
PcsOf(p) ==
  CASE p = "cp" -> {"open_in", "open_out", "read", "write", "close", "exit"}
    [] p = "cat" -> {"open_in", "read", "write", "close", "exit"}
    [] p = "sendfile" -> {"open_in", "open_out", "fstat", "sendfile", "close", "exit"}
    [] p = "read" -> {"open_in", "read", "close", "exit"}
    [] p = "write" -> {"open_out", "write", "close", "exit"}

\* s is what is left of the first b elements of t if some are removed.
Embedded(s, t, b) ==
  \E f \in [1 .. Len(s) -> 1 .. b] :
    /\ \A k \in 1 .. Len(s) : s[k] = t[f[k]]
    /\ \A k \in 2 .. Len(s) : f[k - 1] < f[k]

\* The output was made from the first b bytes of the input, and is equal to them if no
\* call fell short.
CopiedUpTo(b) ==
  /\ b <= Len(In) /\ wr = Len(Out)
  /\ Embedded(Out, In, b)
  /\ clean => wr = b /\ \A k \in 1 .. b : Out[k] = In[k]

ShapeInv ==
  /\ pc \in PcsOf(Prog) /\ (pc # "exit" => round < Count)
  /\ pc = "write" /\ Prog = "write" => wr <= Len(Out)
  /\ pc = "write" /\ Prog # "write" => count \in 1 .. Size

\* One file: it is empty as soon as it is open for writing.
SameInv ==
  Copies /\ call.in = call.out =>
    /\ pc \in {"read", "fstat", "sendfile", "close"} => Out = << >>
    /\ pc = "sendfile" => size = 0
    /\ pc # "write"

OtherInv ==
  Copies /\ call.in # call.out =>
    /\ pc = "open_in" /\ Prog = "cat" => Out = << >> /\ wr = 0
    /\ pc = "open_out" => rd = 0
    /\ pc = "read" => CopiedUpTo(rd)
    /\ pc = "write" => /\ CopiedUpTo(rd - count) /\ count <= rd /\ rd <= Len(In)
                       /\ \A k \in 1 .. count : buffer[k] = In[rd - count + k]
    /\ pc \in {"fstat", "sendfile"} => Out = << >> /\ wr = 0 /\ rd = 0
    /\ pc = "sendfile" => size = Len(In)
    /\ pc = "close" => CopiedUpTo(rd) /\ (clean => rd = Len(In))

FileInv == TypeOK /\ ShapeInv /\ SameInv /\ OtherInv

-----------------------------------------------------------------------------
LEMMA CallIs ==
  ASSUME call \in Calls
  PROVE  /\ Prog \in {"cp", "cat", "sendfile", "read", "write"}
         /\ call.in \in Name /\ call.out \in Name
         /\ Prog = "cat" => call.out = "stdout" /\ call.in # "stdout"
<1>1. call \in [prog : {"cp", "cat", "sendfile", "read", "write"},
                in : Name, out : Name, trunc : BOOLEAN, total : Nat]
  BY FileAssumption
<1> QED BY <1>1, FileAssumption DEF Prog

LEMMA FilesAre ==
  ASSUME TypeOK
  PROVE  /\ In \in Seq(Byte) /\ Out \in Seq(Byte) /\ Len(In) \in Nat /\ Len(Out) \in Nat
         /\ \A k \in 1 .. Len(In) : In[k] \in Byte
         /\ call.in = call.out => In = Out
<1>1. In \in Seq(Byte) /\ Out \in Seq(Byte)
  BY CallIs DEF TypeOK, In, Out
<1> QED BY <1>1, ElementOfSeq, LenProperties DEF In, Out

\* Writing within or at the end of a file makes no holes; at the end it appends.
LEMMA WrittenIs ==
  ASSUME NEW s \in Seq(Byte), NEW o \in Nat, o <= Len(s), NEW data \in Seq(Byte)
  PROVE  /\ Written(s, o, data) \in Seq(Byte)
         /\ o + Len(data) <= Len(Written(s, o, data))
         /\ o = Len(s) =>
              /\ Len(Written(s, o, data)) = o + Len(data)
              /\ \A k \in 1 .. o : Written(s, o, data)[k] = s[k]
              /\ \A k \in 1 .. Len(data) : Written(s, o, data)[o + k] = data[k]
<1> DEFINE m == IF o + Len(data) > Len(s) THEN o + Len(data) ELSE Len(s)
           e(k) == IF k \in o + 1 .. o + Len(data) THEN data[k - o] ELSE s[k]
           w == [k \in 1 .. m |-> e(k)]
<1>1. Len(s) \in Nat /\ Len(data) \in Nat
  BY LenProperties
<1>2. m \in Nat /\ m >= o + Len(data) /\ (o = Len(s) => m = o + Len(data))
  BY <1>1
<1>3. \A k \in 1 .. m : e(k) \in Byte
  <2> SUFFICES ASSUME NEW k \in 1 .. m PROVE e(k) \in Byte
    OBVIOUS
  <2>1. CASE k \in o + 1 .. o + Len(data)
    <3>1. k - o \in 1 .. Len(data)
      BY <1>1, <2>1
    <3> QED BY <2>1, <3>1, ElementOfSeq
  <2>2. CASE k \notin o + 1 .. o + Len(data)
    <3>1. k \in 1 .. Len(s)
      BY <1>1, <2>2
    <3> QED BY <2>2, <3>1, ElementOfSeq
  <2> QED BY <2>1, <2>2
<1> HIDE DEF m
<1>4. w \in Seq(Byte) /\ Len(w) = m
  <2>1. w \in [1 .. m -> Byte]
    BY <1>3
  <2> HIDE DEF w
  <2> QED BY <1>2, <2>1
<1>5. \A k \in 1 .. m : w[k] = e(k)
  OBVIOUS
<1>6. \A k \in 1 .. o : k \in 1 .. m /\ e(k) = s[k]
  BY <1>1, <1>2
<1>7. \A k \in 1 .. Len(data) : o + k \in 1 .. m /\ e(o + k) = data[k]
  BY <1>1, <1>2
<1>8. Written(s, o, data) = w
  BY DEF Written, m
<1> HIDE DEF w, e
<1> QED BY <1>2, <1>4, <1>5, <1>6, <1>7, <1>8

LEMMA EmbedEmpty == ASSUME NEW t PROVE Embedded(<< >>, t, 0)
<1> DEFINE e == << >>
           g == [k \in 1 .. Len(e) |-> 0]
<1>1. Len(e) = 0
  BY EmptySeq
<1> HIDE DEF e
<1>2. g \in [1 .. Len(e) -> 1 .. 0]
  BY <1>1
<1>3. /\ \A k \in 1 .. Len(e) : e[k] = t[g[k]]
      /\ \A k \in 2 .. Len(e) : g[k - 1] < g[k]
  BY <1>1
<1> HIDE DEF g
<1>4. Embedded(e, t, 0)
  BY <1>2, <1>3 DEF Embedded
<1> QED BY <1>4 DEF e

\* What follows in the input may follow in the output, and the input may be skipped.
LEMMA EmbedMore ==
  ASSUME NEW s \in Seq(Byte), NEW u \in Seq(Byte), NEW t,
         NEW b \in Nat, NEW n \in Nat, NEW c \in Nat, b + n <= c,
         Embedded(s, t, b), Len(u) = Len(s) + n,
         \A k \in 1 .. Len(s) : u[k] = s[k],
         \A k \in 1 .. n : u[Len(s) + k] = t[b + k]
  PROVE  Embedded(u, t, c)
<1>0. Len(s) \in Nat
  BY LenProperties
<1>1. PICK f \in [1 .. Len(s) -> 1 .. b] :
        /\ \A k \in 1 .. Len(s) : s[k] = t[f[k]]
        /\ \A k \in 2 .. Len(s) : f[k - 1] < f[k]
  BY DEF Embedded
<1> DEFINE g == [k \in 1 .. Len(u) |-> IF k <= Len(s) THEN f[k] ELSE b + (k - Len(s))]
<1>2. \A k \in 1 .. Len(s) : f[k] \in 1 .. b
  BY <1>1
<1>3. \A k \in 1 .. Len(u) :
        /\ k <= Len(s) => g[k] = f[k] /\ k \in 1 .. Len(s)
        /\ ~(k <= Len(s)) => g[k] = b + (k - Len(s)) /\ k - Len(s) \in 1 .. n
  BY <1>0
<1>4. g \in [1 .. Len(u) -> 1 .. c]
  <2>1. \A k \in 1 .. Len(u) : g[k] \in 1 .. c
    BY <1>0, <1>2, <1>3
  <2> QED BY <2>1
<1> HIDE DEF g
<1>5. ASSUME NEW k \in 1 .. Len(u) PROVE u[k] = t[g[k]]
  <2>1. CASE k <= Len(s)
    BY <1>1, <1>3, <2>1
  <2>2. CASE ~(k <= Len(s))
    <3>1. k - Len(s) \in 1 .. n /\ Len(s) + (k - Len(s)) = k
      BY <1>0, <1>3, <2>2
    <3>2. u[Len(s) + (k - Len(s))] = t[b + (k - Len(s))]
      BY <3>1
    <3> QED BY <1>3, <2>2, <3>1, <3>2
  <2> QED BY <2>1, <2>2
<1>6. ASSUME NEW k \in 2 .. Len(u) PROVE g[k - 1] < g[k]
  <2>1. k \in 1 .. Len(u) /\ k - 1 \in 1 .. Len(u)
    BY <1>0
  <2>2. CASE k <= Len(s)
    <3>1. k \in 2 .. Len(s) /\ k - 1 <= Len(s)
      BY <1>0, <2>2
    <3> QED BY <1>1, <1>3, <2>1, <2>2, <3>1
  <2>3. CASE ~(k <= Len(s)) /\ k - 1 <= Len(s)
    <3>1. g[k - 1] \in 1 .. b /\ g[k] = b + (k - Len(s))
      BY <1>2, <1>3, <2>1, <2>3
    <3> QED BY <1>0, <2>3, <3>1
  <2>4. CASE ~(k - 1 <= Len(s))
    <3>1. ~(k <= Len(s))
      BY <1>0, <2>4
    <3>2. g[k - 1] = b + ((k - 1) - Len(s)) /\ g[k] = b + (k - Len(s))
      BY <1>3, <2>1, <2>4, <3>1
    <3> QED BY <1>0, <3>2
  <2> QED BY <1>0, <2>2, <2>3, <2>4
<1> QED BY <1>4, <1>5, <1>6 DEF Embedded
-----------------------------------------------------------------------------
LEMMA OpenInKeeps == ASSUME FileInv, OpenIn PROVE FileInv'
<1>1. /\ pc = "open_in" /\ rd' = 0 /\ clean' = TRUE
      /\ UNCHANGED <<call, disk, wr, buffer, count, size, pos, round, status>>
      /\ pc' = CASE Prog = "cat" -> "read" [] Prog = "read" -> "read" [] OTHER -> "open_out"
  BY DEF OpenIn, locals
<1>2. TypeOK /\ ShapeInv /\ OtherInv /\ call \in Calls
  BY DEF FileInv, TypeOK
<1>3. /\ Prog \in {"cp", "cat", "sendfile", "read"} /\ In' = In /\ Out' = Out /\ Prog' = Prog
      /\ pc' = IF Prog \in {"cat", "read"} THEN "read" ELSE "open_out"
  BY <1>1, <1>2, CallIs DEF ShapeInv, PcsOf, In, Out, Prog
<1>4. TypeOK'
  BY <1>1, <1>2, <1>3 DEF TypeOK, Pcs
<1>5. ShapeInv'
  BY <1>1, <1>2, <1>3 DEF ShapeInv, PcsOf
<1>6. Prog = "cat" => call.in # call.out
  BY <1>2, CallIs
<1>7. SameInv'
  BY <1>1, <1>3, <1>6 DEF SameInv, Copies
<1>8. Prog = "cat" => CopiedUpTo(rd)'
  <2> SUFFICES ASSUME Prog = "cat" PROVE CopiedUpTo(rd)'
    OBVIOUS
  <2>1. Out = << >> /\ wr = 0
    BY <1>1, <1>2, <1>6 DEF OtherInv, Copies
  <2>2. Len(Out) = 0 /\ Len(In) \in Nat
    BY <1>2, <2>1, FilesAre
  <2>3. Embedded(Out, In, 0)
    BY <2>1, EmbedEmpty
  <2> QED BY <1>1, <1>3, <2>1, <2>2, <2>3 DEF CopiedUpTo
<1>9. OtherInv'
  BY <1>1, <1>3, <1>8 DEF OtherInv, Copies
<1> QED BY <1>4, <1>5, <1>7, <1>9 DEF FileInv

LEMMA OpenOutKeeps == ASSUME FileInv, OpenOut PROVE FileInv'
<1>1. /\ pc = "open_out" /\ wr' = 0 /\ pos' = 0 /\ clean' = TRUE
      /\ disk' = [disk EXCEPT ![call.out] = Truncated(@)]
      /\ UNCHANGED <<call, rd, buffer, count, size, round, status>>
      /\ pc' = CASE Prog = "cp" -> "read" [] Prog = "sendfile" -> "fstat" [] Prog = "write" -> "write"
  BY DEF OpenOut
<1>2. TypeOK /\ ShapeInv /\ OtherInv /\ call \in Calls
  BY DEF FileInv, TypeOK
<1>3. Prog \in {"cp", "sendfile", "write"} /\ Prog' = Prog
  BY <1>1, <1>2, CallIs DEF ShapeInv, PcsOf, Prog
<1>4. /\ Prog = "cp" => pc' = "read"
      /\ Prog = "sendfile" => pc' = "fstat"
      /\ Prog = "write" => pc' = "write"
  BY <1>1, <1>3
<1>5. disk \in [Name -> Seq(Byte)] /\ call.in \in Name /\ call.out \in Name
  BY <1>2, CallIs DEF TypeOK
<1>6. Truncated(Out) \in Seq(Byte) /\ (Prog # "write" => Truncated(Out) = << >>)
  BY <1>2, FilesAre, EmptySeq DEF Truncated
<1>7. /\ disk' \in [Name -> Seq(Byte)] /\ Out' = Truncated(Out)
      /\ call.in # call.out => In' = In
  BY <1>1, <1>5, <1>6 DEF In, Out
<1>8. Len(Out') \in Nat /\ (Prog # "write" => Len(Out') = 0)
  BY <1>6, <1>7, LenProperties, EmptySeq
<1>9. TypeOK'
  BY <1>1, <1>2, <1>3, <1>4, <1>7 DEF TypeOK, Pcs
<1>10. ShapeInv'
  BY <1>1, <1>2, <1>3, <1>4, <1>8 DEF ShapeInv, PcsOf
<1>11. SameInv'
  BY <1>1, <1>3, <1>4, <1>6, <1>7 DEF SameInv, Copies
<1>12. Prog = "cp" /\ call.in # call.out => CopiedUpTo(rd)'
  <2> SUFFICES ASSUME Prog = "cp", call.in # call.out PROVE CopiedUpTo(rd)'
    OBVIOUS
  <2>1. rd' = 0 /\ Out' = << >> /\ In' = In
    BY <1>1, <1>2, <1>6, <1>7 DEF OtherInv, Copies
  <2>2. Embedded(Out', In', 0) /\ Len(In') \in Nat
    BY <1>2, <2>1, EmbedEmpty, FilesAre
  <2> QED BY <1>1, <1>8, <2>1, <2>2 DEF CopiedUpTo
<1>13. OtherInv'
  BY <1>1, <1>2, <1>3, <1>4, <1>6, <1>7, <1>12 DEF OtherInv, Copies
<1> QED BY <1>9, <1>10, <1>11, <1>13 DEF FileInv

LEMMA CallFailsKeeps == ASSUME FileInv, CallFails PROVE FileInv'
<1>1. /\ pc' = "exit" /\ status' = 1
      /\ UNCHANGED <<call, disk, rd, wr, buffer, count, size, pos, round, clean>>
  BY DEF CallFails, Exit, files, locals
<1>2. TypeOK /\ call \in Calls
  BY DEF FileInv, TypeOK
<1>3. TypeOK'
  BY <1>1, <1>2 DEF TypeOK, Pcs
<1>4. ShapeInv'
  BY <1>1, <1>2, CallIs DEF ShapeInv, PcsOf, Prog
<1> QED BY <1>1, <1>3, <1>4 DEF FileInv, SameInv, OtherInv

LEMMA ReadResultsAre ==
  ASSUME TypeOK, NEW n \in ReadResults(Size)
  PROVE  n \in 0 .. Size /\ (n > 0 => rd + n <= Len(In)) /\ (n = 0 => Len(In) <= rd)
<1>1. Len(In) \in Nat /\ rd \in Nat /\ Size \in Nat \ {0} /\ Left = Len(In) - rd
  BY FilesAre, FileAssumption DEF TypeOK, Left, In
<1>2. CASE Left <= 0
  BY <1>1, <1>2 DEF ReadResults
<1>3. CASE ~(Left <= 0)
  <2> DEFINE most == IF Size < Left THEN Size ELSE Left
  <2>1. most \in 1 .. Size /\ most <= Left
    BY <1>1, <1>3
  <2>2. n \in 1 .. most
    BY <1>1, <1>3, <2>1 DEF ReadResults
  <2> QED BY <1>1, <2>1, <2>2
<1> QED BY <1>2, <1>3

LEMMA ReadKeeps == ASSUME FileInv, Read PROVE FileInv'
<1>1. PICK n \in ReadResults(Size) :
        /\ count' = n
        /\ buffer' = [k \in 1 .. Size |-> IF k <= n THEN In[rd + k] ELSE buffer[k]]
        /\ rd' = rd + n
        /\ pc' = IF ~GotBytes(n) THEN "close" ELSE IF Prog = "read" THEN "read" ELSE "write"
  BY DEF Read, In
<1>2. /\ pc = "read"
      /\ UNCHANGED <<call, disk, wr, size, pos, round, clean, status>>
  BY DEF Read
<1>3. TypeOK /\ ShapeInv /\ SameInv /\ OtherInv /\ call \in Calls
  BY DEF FileInv, TypeOK
<1>4. Prog \in {"cp", "cat", "read"} /\ Prog' = Prog /\ In' = In /\ Out' = Out
  BY <1>2, <1>3, CallIs DEF ShapeInv, PcsOf, Prog, In, Out
<1>5. n \in 0 .. Size /\ (n > 0 => rd + n <= Len(In)) /\ (n = 0 => Len(In) <= rd)
  BY <1>3, ReadResultsAre
<1>6. /\ rd \in Nat /\ Size \in Nat \ {0} /\ Len(In) \in Nat /\ Len(Out) \in Nat
      /\ buffer \in [1 .. Size -> Byte] /\ \A k \in 1 .. Len(In) : In[k] \in Byte
      /\ (call.in = call.out => In = Out)
  BY <1>3, FilesAre, FileAssumption DEF TypeOK
<1>7. /\ n = 0 => pc' = "close"
      /\ n > 0 => pc' = IF Prog = "read" THEN "read" ELSE "write"
  BY <1>1, <1>5, <1>6 DEF GotBytes
<1>8. \A k \in 1 .. n : k \in 1 .. Size /\ buffer'[k] = In[rd + k] /\ rd + k \in 1 .. Len(In)
  BY <1>1, <1>5, <1>6
<1>9. buffer' \in [1 .. Size -> Byte]
  <2>1. \A k \in 1 .. Size : (IF k <= n THEN In[rd + k] ELSE buffer[k]) \in Byte
    BY <1>5, <1>6, <1>8
  <2> QED BY <1>1, <2>1
<1>10. count' \in -1 .. Size /\ rd' \in Nat
  BY <1>1, <1>5, <1>6
<1>11. pc' \in {"close", "read", "write"} /\ (pc' = "read" => Prog = "read")
       /\ (pc' = "write" => Prog # "read" /\ n > 0)
  BY <1>5, <1>7
<1>12. TypeOK'
  BY <1>2, <1>3, <1>9, <1>10, <1>11 DEF TypeOK, Pcs
<1>13. ShapeInv'
  <2>1. pc' = "write" => count' \in 1 .. Size
    BY <1>1, <1>5, <1>11
  <2> QED BY <1>2, <1>3, <1>4, <1>11, <2>1 DEF ShapeInv, PcsOf
<1>14. SameInv'
  <2> SUFFICES ASSUME Copies', call.in = call.out PROVE SameInv'
    BY <1>2 DEF SameInv
  <2>1. Copies /\ Out = << >> /\ In = << >>
    BY <1>2, <1>3, <1>4, <1>6 DEF SameInv, Copies
  <2>2. n = 0
    <3>1. Len(In) = 0
      BY <2>1, EmptySeq
    <3> QED BY <1>5, <1>6, <3>1
  <2> QED BY <1>4, <1>7, <2>1, <2>2 DEF SameInv
<1>15. OtherInv'
  <2> SUFFICES ASSUME Copies', call.in # call.out PROVE OtherInv'
    BY <1>2 DEF OtherInv
  <2>1. CopiedUpTo(rd) /\ Prog # "read"
    BY <1>2, <1>3, <1>4 DEF OtherInv, Copies
  <2>2. CASE n = 0
    <3>1. rd' = rd /\ rd <= Len(In) /\ Len(In) <= rd
      BY <1>1, <1>5, <1>6, <2>1, <2>2 DEF CopiedUpTo
    <3>2. CopiedUpTo(rd)' /\ rd' = Len(In')
      BY <1>2, <1>4, <1>6, <2>1, <3>1 DEF CopiedUpTo
    <3> QED BY <1>7, <2>2, <3>2 DEF OtherInv
  <2>3. CASE n > 0
    <3>1. pc' = "write" /\ count' = n /\ rd' - count' = rd /\ count' <= rd' /\ rd' <= Len(In')
      BY <1>1, <1>4, <1>5, <1>6, <1>7, <2>1, <2>3
    <3>2. CopiedUpTo(rd - count)'
      BY <1>2, <1>4, <2>1, <3>1 DEF CopiedUpTo
    <3>3. \A k \in 1 .. count' : buffer'[k] = In'[rd' - count' + k]
      BY <1>4, <1>8, <3>1
    <3> QED BY <3>1, <3>2, <3>3 DEF OtherInv
  <2> QED BY <1>5, <1>6, <2>2, <2>3
<1> QED BY <1>12, <1>13, <1>14, <1>15 DEF FileInv

LEMMA ReadFailsKeeps == ASSUME FileInv, ReadFails PROVE FileInv'
<1>1. /\ pc = "read" /\ count' = -1 /\ clean' = FALSE /\ pc' = "close"
      /\ UNCHANGED <<call, disk, rd, wr, buffer, size, pos, round, status>>
  BY DEF ReadFails, files
<1>2. TypeOK /\ ShapeInv /\ SameInv /\ OtherInv /\ call \in Calls /\ Size \in Nat
  BY FileAssumption DEF FileInv, TypeOK
<1>3. Prog \in {"cp", "cat", "read"} /\ Prog' = Prog /\ In' = In /\ Out' = Out
  BY <1>1, <1>2, CallIs DEF ShapeInv, PcsOf, Prog, In, Out
<1>4. TypeOK'
  <2>1. count' \in -1 .. Size
    BY <1>1, <1>2
  <2>2. clean' \in BOOLEAN
    BY <1>1
  <2> QED BY <1>1, <1>2, <2>1, <2>2 DEF TypeOK, Pcs
<1>5. ShapeInv'
  BY <1>1, <1>2, <1>3 DEF ShapeInv, PcsOf
<1>6. SameInv'
  BY <1>1, <1>2, <1>3 DEF SameInv, Copies
<1>7. OtherInv'
  BY <1>1, <1>2, <1>3 DEF OtherInv, Copies, CopiedUpTo
<1> QED BY <1>4, <1>5, <1>6, <1>7 DEF FileInv

\* The first n bytes of the buffer.
LEMMA Buffered ==
  ASSUME buffer \in [1 .. Size -> Byte], NEW n \in 0 .. Size
  PROVE  /\ SubSeq(buffer, 1, n) \in Seq(Byte) /\ Len(SubSeq(buffer, 1, n)) = n
         /\ \A k \in 1 .. n : SubSeq(buffer, 1, n)[k] = buffer[k]
<1>1. Size \in Nat
  BY FileAssumption
<1>2. \A k \in 1 .. n : buffer[k] \in Byte
  BY <1>1
<1>3. /\ SubSeq(buffer, 1, n) \in Seq(Byte)
      /\ Len(SubSeq(buffer, 1, n)) = IF 1 <= n THEN n - 1 + 1 ELSE 0
      /\ \A k \in 1 .. n - 1 + 1 : SubSeq(buffer, 1, n)[k] = buffer[1 + k - 1]
  BY <1>1, <1>2, SubSeqProperties
<1>4. n - 1 + 1 = n /\ \A k \in 1 .. n : 1 + k - 1 = k
  BY <1>1
<1> QED BY <1>1, <1>3, <1>4

LEMMA WriteKeeps == ASSUME FileInv, Write PROVE FileInv'
<1>1. PICK n \in 0 .. Amount :
        /\ disk' = IF n = 0 THEN disk
                   ELSE [disk EXCEPT ![call.out] = Written(@, wr, SubSeq(buffer, 1, n))]
        /\ wr' = wr + n
        /\ clean' = (clean /\ n = Amount)
  BY DEF Write
<1>2. /\ pc = "write"
      /\ pos' = IF Prog = "write" THEN pos + Size ELSE pos
      /\ pc' = IF Prog = "write" THEN "write" ELSE "read"
      /\ UNCHANGED <<call, rd, buffer, count, size, round, status>>
  BY DEF Write
<1>3. TypeOK /\ ShapeInv /\ SameInv /\ OtherInv /\ call \in Calls
  BY DEF FileInv, TypeOK
<1>4. Prog \in {"cp", "cat", "write"} /\ Prog' = Prog
  BY <1>2, <1>3, CallIs DEF ShapeInv, PcsOf, Prog
<1>5. /\ rd \in Nat /\ wr \in Nat /\ Size \in Nat \ {0} /\ Len(In) \in Nat /\ Len(Out) \in Nat
      /\ Out \in Seq(Byte) /\ buffer \in [1 .. Size -> Byte] /\ pos \in Nat
      /\ disk \in [Name -> Seq(Byte)] /\ call.in \in Name /\ call.out \in Name
  BY <1>3, CallIs, FilesAre, FileAssumption DEF TypeOK
<1>6. call.in # call.out \/ Prog = "write"
  BY <1>2, <1>3, <1>4 DEF SameInv, Copies
<1>7. Prog # "write" =>
        /\ CopiedUpTo(rd - count) /\ count <= rd /\ rd <= Len(In)
        /\ \A k \in 1 .. count : buffer[k] = In[rd - count + k]
        /\ count \in 1 .. Size
  BY <1>2, <1>3, <1>4, <1>6 DEF OtherInv, Copies, ShapeInv
<1>8. Amount \in 1 .. Size /\ n \in 0 .. Size /\ n \in Nat /\ wr <= Len(Out)
  <2>1. Amount \in 1 .. Size
    BY <1>5, <1>7 DEF Amount
  <2>2. wr <= Len(Out)
    BY <1>2, <1>3, <1>5, <1>7 DEF ShapeInv, CopiedUpTo
  <2> QED BY <1>5, <2>1, <2>2
<1> DEFINE data == SubSeq(buffer, 1, n)
<1>9. data \in Seq(Byte) /\ Len(data) = n /\ \A k \in 1 .. n : data[k] = buffer[k]
  BY <1>5, <1>8, Buffered
<1> HIDE DEF data
<1>10. /\ Out' = IF n = 0 THEN Out ELSE Written(Out, wr, data)
       /\ call.in # call.out => In' = In
  BY <1>1, <1>2, <1>5 DEF In, Out, data
<1>11. /\ Out' \in Seq(Byte) /\ wr + n <= Len(Out')
       /\ wr = Len(Out) => /\ Len(Out') = wr + n
                           /\ \A k \in 1 .. wr : Out'[k] = Out[k]
                           /\ \A k \in 1 .. n : Out'[wr + k] = buffer[k]
  <2>1. CASE n = 0
    BY <1>5, <1>8, <1>10, <2>1
  <2>2. CASE n # 0
    <3>1. Out' = Written(Out, wr, data)
      BY <1>10, <2>2
    <3>2. /\ Written(Out, wr, data) \in Seq(Byte)
          /\ wr + Len(data) <= Len(Written(Out, wr, data))
          /\ wr = Len(Out) =>
              /\ Len(Written(Out, wr, data)) = wr + Len(data)
              /\ \A k \in 1 .. wr : Written(Out, wr, data)[k] = Out[k]
              /\ \A k \in 1 .. Len(data) : Written(Out, wr, data)[wr + k] = data[k]
      BY <1>5, <1>8, <1>9, WrittenIs
    <3> QED BY <1>9, <3>1, <3>2
  <2> QED BY <2>1, <2>2
<1>12. disk' \in [Name -> Seq(Byte)]
  <2>1. CASE n = 0
    BY <1>1, <1>5, <2>1
  <2>2. CASE n # 0
    <3>1. disk' = [disk EXCEPT ![call.out] = Out']
      BY <1>1, <1>5, <1>10, <2>2 DEF Out, data
    <3> QED BY <1>5, <1>11, <3>1
  <2> QED BY <2>1, <2>2
<1>13. TypeOK'
  <2>1. wr' \in Nat /\ pos' \in Nat /\ clean' \in BOOLEAN
    BY <1>1, <1>2, <1>5, <1>8
  <2> QED BY <1>2, <1>3, <1>12, <2>1 DEF TypeOK, Pcs
<1>14. ShapeInv'
  BY <1>1, <1>2, <1>3, <1>4, <1>11 DEF ShapeInv, PcsOf
<1>15. SameInv'
  BY <1>2, <1>4, <1>6 DEF SameInv, Copies
<1>16. Prog # "write" => CopiedUpTo(rd)'
  <2> SUFFICES ASSUME Prog # "write" PROVE CopiedUpTo(rd)'
    OBVIOUS
  <2> DEFINE b == rd - count
  <2>1. /\ b \in Nat /\ rd = b + count /\ count \in 1 .. Size /\ Amount = count /\ n \in 0 .. count
        /\ b + n <= rd /\ In' = In
        /\ \A k \in 1 .. count : buffer[k] = In[b + k]
    <3>1. count \in 1 .. Size /\ count <= rd /\ Amount = count /\ n \in 0 .. count /\ In' = In
      BY <1>6, <1>7, <1>10 DEF Amount
    <3>2. b \in Nat /\ rd = b + count /\ b + n <= rd
      BY <1>5, <3>1
    <3> QED BY <1>7, <3>1, <3>2
  <2>2. /\ wr = Len(Out) /\ Embedded(Out, In, b) /\ rd <= Len(In)
        /\ clean => wr = b /\ \A k \in 1 .. b : Out[k] = In[k]
    BY <1>7 DEF CopiedUpTo
  <2> HIDE DEF b
  <2>3. /\ Len(Out') = wr + n
        /\ \A k \in 1 .. wr : Out'[k] = Out[k]
        /\ \A k \in 1 .. n : Out'[wr + k] = In[b + k]
    <3>1. \A k \in 1 .. n : k \in 1 .. count
      BY <1>5, <2>1
    <3> QED BY <1>11, <2>1, <2>2, <3>1
  <2>4. Embedded(Out', In, rd)
    <3>1. /\ Len(Out') = Len(Out) + n
          /\ \A k \in 1 .. Len(Out) : Out'[k] = Out[k]
          /\ \A k \in 1 .. n : Out'[Len(Out) + k] = In[b + k]
      BY <2>2, <2>3
    <3>2. Out \in Seq(Byte) /\ Out' \in Seq(Byte) /\ b \in Nat /\ n \in Nat /\ rd \in Nat
          /\ b + n <= rd /\ Embedded(Out, In, b)
      BY <1>5, <1>8, <1>11, <2>1, <2>2
    <3> QED BY <3>1, <3>2, EmbedMore
  <2>5. clean' => wr' = rd /\ \A k \in 1 .. rd : Out'[k] = In[k]
    <3> SUFFICES ASSUME clean' PROVE wr' = rd /\ \A k \in 1 .. rd : Out'[k] = In[k]
      OBVIOUS
    <3>1. clean /\ n = count /\ wr = b
      BY <1>1, <2>1, <2>2
    <3>2. ASSUME NEW k \in 1 .. rd PROVE Out'[k] = In[k]
      <4>1. CASE k <= b
        BY <2>1, <2>2, <2>3, <3>1, <4>1
      <4>2. CASE ~(k <= b)
        <5>1. k - b \in 1 .. n /\ b + (k - b) = k
          BY <2>1, <3>1, <4>2
        <5>2. Out'[b + (k - b)] = In[b + (k - b)]
          BY <2>3, <3>1, <5>1
        <5> QED BY <5>1, <5>2
      <4> QED BY <4>1, <4>2
    <3> QED BY <1>1, <2>1, <3>1, <3>2
  <2> QED BY <1>1, <1>2, <2>1, <2>2, <2>3, <2>4, <2>5 DEF CopiedUpTo
<1>17. OtherInv'
  BY <1>2, <1>4, <1>16 DEF OtherInv, Copies
<1> QED BY <1>13, <1>14, <1>15, <1>17 DEF FileInv

LEMMA PatternDoneKeeps == ASSUME FileInv, PatternDone PROVE FileInv'
<1>1. /\ pc = "write" /\ Prog = "write" /\ pc' = "close"
      /\ UNCHANGED <<call, disk, rd, wr, buffer, count, size, pos, round, clean, status>>
  BY DEF PatternDone, files, locals
<1>2. TypeOK /\ ShapeInv /\ Prog' = Prog
  BY <1>1 DEF FileInv, Prog
<1>3. TypeOK'
  BY <1>1, <1>2 DEF TypeOK, Pcs
<1>4. ShapeInv'
  BY <1>1, <1>2 DEF ShapeInv, PcsOf
<1> QED BY <1>1, <1>2, <1>3, <1>4 DEF FileInv, SameInv, OtherInv, Copies

LEMMA FstatKeeps == ASSUME FileInv, Fstat PROVE FileInv'
<1>1. /\ pc = "fstat" /\ size' = Len(In) /\ pc' = "sendfile"
      /\ UNCHANGED <<call, disk, rd, wr, buffer, count, pos, round, clean, status>>
  BY DEF Fstat, files, In
<1>2. TypeOK /\ ShapeInv /\ SameInv /\ OtherInv /\ call \in Calls
  BY DEF FileInv, TypeOK
<1>3. /\ Prog = "sendfile" /\ Prog' = Prog /\ In' = In /\ Out' = Out
      /\ Len(In) \in Nat /\ (call.in = call.out => In = Out)
  BY <1>1, <1>2, CallIs, FilesAre DEF ShapeInv, PcsOf, Prog, In, Out
<1>4. TypeOK'
  BY <1>1, <1>2, <1>3 DEF TypeOK, Pcs
<1>5. ShapeInv'
  BY <1>1, <1>2, <1>3 DEF ShapeInv, PcsOf
<1>6. SameInv'
  BY <1>1, <1>2, <1>3, EmptySeq DEF SameInv, Copies
<1>7. OtherInv'
  BY <1>1, <1>2, <1>3 DEF OtherInv, Copies
<1> QED BY <1>4, <1>5, <1>6, <1>7 DEF FileInv

LEMMA SendfileKeeps == ASSUME FileInv, Sendfile PROVE FileInv'
<1>1. PICK n \in {k \in 0 .. size : k <= SendMax} :
        /\ disk' = IF n = 0 THEN disk
                   ELSE [disk EXCEPT ![call.out] = Written(@, wr, SubSeq(In, rd + 1, rd + n))]
        /\ rd' = rd + n /\ wr' = wr + n
        /\ clean' = (clean /\ n = size)
  BY DEF Sendfile, In
<1>2. /\ pc = "sendfile" /\ pc' = "close"
      /\ UNCHANGED <<call, buffer, count, size, pos, round, status>>
  BY DEF Sendfile, locals
<1>3. TypeOK /\ ShapeInv /\ SameInv /\ OtherInv /\ call \in Calls
  BY DEF FileInv, TypeOK
<1>4. Prog = "sendfile" /\ Prog' = Prog
  BY <1>2, <1>3, CallIs DEF ShapeInv, PcsOf, Prog
<1>5. /\ rd \in Nat /\ wr \in Nat /\ size \in Nat /\ Len(In) \in Nat /\ Len(Out) \in Nat
      /\ In \in Seq(Byte) /\ Out \in Seq(Byte) /\ \A k \in 1 .. Len(In) : In[k] \in Byte
      /\ disk \in [Name -> Seq(Byte)] /\ call.in \in Name /\ call.out \in Name
      /\ n \in Nat /\ n <= size
  BY <1>1, <1>3, CallIs, FilesAre DEF TypeOK
<1>6. wr' \in Nat /\ rd' \in Nat /\ clean' \in BOOLEAN
  BY <1>1, <1>5
<1>7. ShapeInv'
  BY <1>2, <1>3, <1>4 DEF ShapeInv, PcsOf
<1>8. CASE call.in = call.out
  <2>1. n = 0 /\ Out = << >>
    BY <1>2, <1>3, <1>4, <1>5, <1>8 DEF SameInv, Copies
  <2>2. disk' = disk /\ Out' = Out
    BY <1>1, <1>2, <2>1 DEF Out
  <2>3. TypeOK'
    BY <1>2, <1>3, <1>6, <2>2 DEF TypeOK, Pcs
  <2>4. SameInv'
    BY <1>2, <2>1, <2>2 DEF SameInv
  <2>5. OtherInv'
    BY <1>2, <1>8 DEF OtherInv
  <2> QED BY <1>7, <2>3, <2>4, <2>5 DEF FileInv
<1>9. CASE call.in # call.out
  <2>1. Out = << >> /\ wr = 0 /\ rd = 0 /\ size = Len(In)
    BY <1>2, <1>3, <1>4, <1>9 DEF OtherInv, Copies
  <2> DEFINE data == SubSeq(In, rd + 1, rd + n)
  <2>2. data \in Seq(Byte) /\ Len(data) = n /\ \A k \in 1 .. n : data[k] = In[k]
    <3>1. rd + 1 = 1 /\ rd + n = n
      BY <1>5, <2>1
    <3>2. \A k \in 1 .. n : In[k] \in Byte
      BY <1>5, <2>1
    <3>3. /\ SubSeq(In, 1, n) \in Seq(Byte)
          /\ Len(SubSeq(In, 1, n)) = IF 1 <= n THEN n - 1 + 1 ELSE 0
          /\ \A k \in 1 .. n - 1 + 1 : SubSeq(In, 1, n)[k] = In[1 + k - 1]
      BY <1>5, <3>2, SubSeqProperties
    <3>4. n - 1 + 1 = n /\ (\A k \in 1 .. n : 1 + k - 1 = k) /\ (~(1 <= n) => n = 0)
      BY <1>5
    <3>5. Len(SubSeq(In, 1, n)) = n /\ \A k \in 1 .. n : SubSeq(In, 1, n)[k] = In[k]
      BY <3>3, <3>4
    <3> QED BY <3>1, <3>3, <3>5
  <2>3. Len(Out) = 0
    BY <2>1, EmptySeq
  <2>4. /\ In' = In
        /\ Out' = IF n = 0 THEN Out ELSE Written(Out, wr, data)
    BY <1>1, <1>2, <1>5, <1>9 DEF In, Out
  <2> HIDE DEF data
  <2>5. Out' \in Seq(Byte) /\ Len(Out') = n /\ \A k \in 1 .. n : Out'[k] = In[k]
    <3>1. CASE n = 0
      BY <1>5, <2>3, <2>4, <3>1
    <3>2. CASE n # 0
      <4>1. /\ Written(Out, 0, data) \in Seq(Byte)
            /\ Len(Written(Out, 0, data)) = 0 + Len(data)
            /\ \A k \in 1 .. Len(data) : Written(Out, 0, data)[0 + k] = data[k]
        <5>1. 0 \in Nat /\ 0 <= Len(Out) /\ 0 = Len(Out)
          BY <2>3
        <5>2. Out \in Seq(Byte) /\ data \in Seq(Byte)
          BY <1>5, <2>2
        <5> QED BY ONLY <5>1, <5>2, WrittenIs
      <4>2. \A k \in 1 .. n : 0 + k = k
        BY <1>5
      <4> QED BY <1>5, <2>1, <2>2, <2>4, <3>2, <4>1, <4>2
    <3> QED BY <3>1, <3>2
  <2>6. disk' \in [Name -> Seq(Byte)]
    <3>1. CASE n = 0
      BY <1>1, <1>5, <3>1
    <3>2. CASE n # 0
      <4>1. disk' = [disk EXCEPT ![call.out] = Out']
        BY <1>1, <1>5, <2>4, <3>2 DEF Out, data
      <4> QED BY <1>5, <2>5, <4>1
    <3> QED BY <3>1, <3>2
  <2>7. TypeOK'
    BY <1>2, <1>3, <1>6, <2>6 DEF TypeOK, Pcs
  <2>8. SameInv'
    BY <1>2, <1>9 DEF SameInv
  <2>9. Embedded(Out', In, n)
    <3>1. Embedded(Out, In, 0)
      BY <2>1, EmbedEmpty
    <3>2. /\ 0 \in Nat /\ 0 + n <= n /\ Len(Out') = Len(Out) + n
          /\ \A k \in 1 .. Len(Out) : Out'[k] = Out[k]
          /\ \A k \in 1 .. n : Out'[Len(Out) + k] = In[0 + k]
      BY <1>5, <2>3, <2>5
    <3> QED BY <1>5, <2>5, <3>1, <3>2, EmbedMore
  <2>10. rd' = n /\ wr' = n /\ (clean' => n = Len(In))
    <3>1. rd' = 0 + n /\ wr' = 0 + n /\ (clean' => n = size)
      BY <1>1, <2>1
    <3> QED BY <1>5, <2>1, <3>1
  <2>11. CopiedUpTo(rd)'
    BY <1>5, <2>1, <2>4, <2>5, <2>9, <2>10 DEF CopiedUpTo
  <2>12. OtherInv'
    BY <1>2, <2>4, <2>10, <2>11 DEF OtherInv
  <2> QED BY <1>7, <2>7, <2>8, <2>12 DEF FileInv
<1> QED BY <1>8, <1>9

LEMMA CloseKeeps == ASSUME FileInv, Close PROVE FileInv'
<1>1. /\ pc = "close" /\ round' = round + 1
      /\ pc' = IF LastRound THEN "exit" ELSE IF Prog = "write" THEN "open_out" ELSE "open_in"
      /\ status' \in {status, 0}
      /\ UNCHANGED <<call, disk, rd, wr, buffer, count, size, pos, clean>>
  BY DEF Close, Exit, files
<1>2. TypeOK /\ ShapeInv /\ call \in Calls /\ Prog' = Prog
  BY <1>1 DEF FileInv, TypeOK, Prog
<1>3. round \in Nat /\ Count \in Nat /\ round < Count
  BY <1>1, <1>2, FileAssumption DEF TypeOK, ShapeInv
<1>4. round' \in 0 .. Count /\ (pc' # "exit" => round' < Count)
  BY <1>1, <1>3 DEF LastRound
<1>5. TypeOK'
  BY <1>1, <1>2, <1>4 DEF TypeOK, Pcs
<1>6. ShapeInv'
  BY <1>1, <1>2, <1>4, CallIs DEF ShapeInv, PcsOf
<1>7. SameInv'
  BY <1>1 DEF SameInv
<1>8. pc' = "open_in" => Prog # "cat"
  BY <1>1 DEF LastRound
<1>9. pc' = "open_out" => ~Copies'
  BY <1>1, <1>2 DEF Copies
<1>10. OtherInv'
  BY <1>1, <1>2, <1>8, <1>9 DEF OtherInv
<1> QED BY <1>5, <1>6, <1>7, <1>10 DEF FileInv

-----------------------------------------------------------------------------
LEMMA FileInit == Init => FileInv
<1> SUFFICES ASSUME Init PROVE FileInv
  OBVIOUS
<1>1. /\ call \in Calls /\ disk \in Disks /\ count = 0 /\ buffer = [k \in 1 .. Size |-> 0]
      /\ rd = 0 /\ wr = 0 /\ size = 0 /\ pos = 0 /\ round = 0 /\ clean = TRUE /\ status = 0
      /\ pc = IF Prog = "write" THEN "open_out" ELSE "open_in"
  BY DEF Init, Prog
<1>2. /\ Size \in Nat \ {0} /\ Count \in Nat \ {0} /\ 0 \in Byte
      /\ disk \in [Name -> Seq(Byte)] /\ disk["stdout"] = << >>
  BY <1>1, FileAssumption
<1>3. buffer \in [1 .. Size -> Byte] /\ count \in -1 .. Size /\ round \in 0 .. Count /\ round < Count
  BY <1>1, <1>2
<1>4. TypeOK
  BY <1>1, <1>2, <1>3 DEF TypeOK, Pcs
<1>5. ShapeInv
  BY <1>1, <1>3, CallIs DEF ShapeInv, PcsOf
<1>6. SameInv
  BY <1>1 DEF SameInv
<1>7. OtherInv
  BY <1>1, <1>2, CallIs DEF OtherInv, Out, Copies
<1> QED BY <1>4, <1>5, <1>6, <1>7 DEF FileInv

LEMMA FileStep == FileInv /\ [Next]_vars => FileInv'
<1>1. FileInv /\ UNCHANGED vars => FileInv'
  BY DEF vars, FileInv, TypeOK, ShapeInv, SameInv, OtherInv, CopiedUpTo, Copies, Prog, In, Out
<1> QED
  BY <1>1, OpenInKeeps, OpenOutKeeps, CallFailsKeeps, ReadKeeps, ReadFailsKeeps, WriteKeeps,
     PatternDoneKeeps, FstatKeeps, SendfileKeeps, CloseKeeps DEF Next

LEMMA FileInvariant == Spec => []FileInv
  BY FileInit, FileStep, PTL DEF Spec

\* FileTypeCorrect: offsets, counters and the contents of the files keep their types, which
\* includes that no write leaves a hole in a file.
THEOREM FileTypeCorrect == Spec => []TypeOK
<1>1. FileInv => TypeOK
  BY DEF FileInv
<1> QED BY <1>1, FileInvariant, PTL

\* CleanCopyCorrect: cp.c, cat.c and sendfile.c leave an exact copy in every round in which
\* no call failed or fell short, for every file, buffer size and number of rounds.
THEOREM CleanCopyCorrect == Spec => []CleanCopy
<1>1. FileInv => CleanCopy
  <2> SUFFICES ASSUME FileInv, Copies, pc = "close", clean
               PROVE  Out = IF call.in = call.out THEN << >> ELSE In
    BY DEF CleanCopy, In, Out
  <2>1. CASE call.in = call.out
    BY <2>1 DEF FileInv, SameInv
  <2>2. CASE call.in # call.out
    <3>1. CopiedUpTo(rd) /\ rd = Len(In)
      BY <2>2 DEF FileInv, OtherInv
    <3>2. Len(Out) = Len(In) /\ \A k \in 1 .. Len(Out) : Out[k] = In[k]
      BY <3>1 DEF CopiedUpTo
    <3>3. Out \in Seq(Byte) /\ In \in Seq(Byte)
      BY FilesAre DEF FileInv
    <3>4. Out = In
      BY <3>2, <3>3, SeqEqual
    <3> QED BY <2>2, <3>4
  <2> QED BY <2>1, <2>2
<1> QED BY <1>1, FileInvariant, PTL

\* OnlyWhatWasReadCorrect: whichever calls of cp.c, cat.c and sendfile.c fail or fall short,
\* the output is a subsequence of the input at every moment after it was opened.
THEOREM OnlyWhatWasReadCorrect == Spec => []OnlyWhatWasRead
<1>1. FileInv => OnlyWhatWasRead
  <2> SUFFICES ASSUME FileInv, Copies, pc \in {"read", "write", "fstat", "sendfile", "close"}
               PROVE  Embedded(Out, In, Len(In))
    BY DEF OnlyWhatWasRead, IsSubsequence, Embedded, In, Out
  <2>1. TypeOK /\ In \in Seq(Byte) /\ Out \in Seq(Byte) /\ Len(In) \in Nat /\ Len(Out) \in Nat
    BY FilesAre DEF FileInv
  <2>2. ASSUME NEW b \in Nat, b <= Len(In), Embedded(Out, In, b)
        PROVE  Embedded(Out, In, Len(In))
    <3>1. /\ b + 0 <= Len(In) /\ Len(Out) = Len(Out) + 0
          /\ \A k \in 1 .. 0 : Out[Len(Out) + k] = In[b + k]
      BY <2>1, <2>2
    <3> QED BY <2>1, <2>2, <3>1, EmbedMore
  <2>3. Out = << >> => Embedded(Out, In, Len(In))
    BY <2>1, <2>2, EmbedEmpty
  <2>4. CASE call.in = call.out
    BY <2>3, <2>4 DEF FileInv, SameInv
  <2>5. CASE call.in # call.out
    <3>1. CASE pc \in {"fstat", "sendfile"}
      BY <2>3, <2>5, <3>1 DEF FileInv, OtherInv
    <3>2. CASE pc \in {"read", "close"}
      <4>1. rd \in Nat /\ CopiedUpTo(rd)
        BY <2>5, <3>2 DEF FileInv, OtherInv, TypeOK
      <4> QED BY <2>2, <4>1 DEF CopiedUpTo
    <3>3. CASE pc = "write"
      <4>1. Prog # "write" /\ CopiedUpTo(rd - count) /\ count <= rd
        BY <2>5, <3>3 DEF FileInv, OtherInv, Copies
      <4>2. count \in 1 .. Size /\ Size \in Nat /\ rd \in Nat
        BY <3>3, <4>1, FileAssumption DEF FileInv, ShapeInv, TypeOK
      <4>3. rd - count \in Nat
        BY <4>1, <4>2
      <4> QED BY <2>2, <4>1, <4>3 DEF CopiedUpTo
    <3> QED BY <3>1, <3>2, <3>3
  <2> QED BY <2>4, <2>5
<1> QED BY <1>1, FileInvariant, PTL

-----------------------------------------------------------------------------
(* my_memcpy. *)

\* How many bytes have been copied.
Moved == bdest - args.dest

\* The pointers move together, and len is what is left.
PointersInv ==
  /\ bdest >= args.dest
  /\ bsrc = args.src + Moved
  /\ loop # "done" => Moved + len = args.len
  /\ loop = "done" => Moved = args.len

\* The first Moved bytes are copied, all others are as they were.
MemoryInv ==
  \A a \in Addr :
    mem[a] = IF a \in Area(args.dest, Moved) THEN old[args.src + (a - args.dest)] ELSE old[a]

CopyInv == PointersInv /\ MemoryInv

-----------------------------------------------------------------------------
LEMMA MemCallIs ==
  ASSUME CopyTypeOK
  PROVE  /\ args.dest \in Nat /\ args.src \in Nat /\ args.len \in Nat
         /\ \A a \in Area(args.dest, args.len) : a \in Addr
         /\ \A a \in Area(args.src, args.len) : a \in Addr /\ a \notin Area(args.dest, args.len)
<1>1. args \in MemCalls
  BY DEF CopyTypeOK
<1>2. args \in [dest : Addr, src : Addr, len : 0 .. SizeMax] /\ Addr \subseteq Nat
  BY MemcpyAssumption, <1>1
<1>3. args.dest \in Nat /\ args.src \in Nat /\ args.len \in Nat
  <2>1. args.dest \in Addr /\ args.src \in Addr /\ args.len \in 0 .. SizeMax
    BY <1>2
  <2>2. SizeMax \in Nat /\ \A a \in Addr : a \in Nat
    BY MemcpyAssumption
  <2>3. args.len \in Nat
    BY <2>1, <2>2
  <2> QED BY <2>1, <2>2, <2>3
<1>4. /\ Area(args.dest, args.len) \subseteq Addr /\ Area(args.src, args.len) \subseteq Addr
      /\ Area(args.dest, args.len) \cap Area(args.src, args.len) = {}
  BY MemcpyAssumption, <1>1
<1> QED
  BY <1>3, <1>4

\* One round of any of the loops, whatever the number of bytes it copies.
LEMMA CopyRound ==
  ASSUME CopyTypeOK, CopyInv, loop # "done", loop' = loop,
         UNCHANGED <<args, old>>,
         NEW n \in Nat, n <= len, Copy(n), len' = len - n
  PROVE  CopyTypeOK' /\ CopyInv'
<1>1. /\ bdest \in Nat /\ bsrc \in Nat /\ len \in Nat /\ len <= SizeMax /\ SizeMax \in Nat
      /\ mem \in [Addr -> MemByte] /\ old \in [Addr -> MemByte]
  BY MemcpyAssumption DEF CopyTypeOK
<1>2. /\ bdest >= args.dest /\ bsrc = args.src + Moved /\ Moved + len = args.len
  BY DEF CopyInv, PointersInv
<1>3. Moved \in Nat /\ args.dest \in Nat /\ args.src \in Nat /\ args.len \in Nat
  BY <1>1, <1>2, MemCallIs DEF Moved
<1>4. /\ bdest' = bdest + n /\ bsrc' = bsrc + n /\ Moved' = Moved + n
      /\ mem' = [a \in Addr |-> IF a \in Area(bdest, n) THEN mem[bsrc + (a - bdest)] ELSE mem[a]]
  BY <1>1, <1>3 DEF Copy, Moved
\* What is read has not been written to.
<1>5. ASSUME NEW a \in Addr, a \in Area(bdest, n)
      PROVE  /\ bsrc + (a - bdest) \in Addr
             /\ bsrc + (a - bdest) = args.src + (a - args.dest)
             /\ mem[bsrc + (a - bdest)] = old[args.src + (a - args.dest)]
  <2>1. a \in Nat /\ a >= bdest /\ a < bdest + n
    BY MemcpyAssumption, <1>1, <1>5 DEF Area
  <2>2. bsrc + (a - bdest) = args.src + (a - args.dest)
    BY <1>1, <1>2, <1>3, <2>1 DEF Moved
  <2>3. args.src + (a - args.dest) \in Area(args.src, args.len)
    BY <1>1, <1>2, <1>3, <2>1 DEF Moved, Area
  <2>4. /\ args.src + (a - args.dest) \in Addr
        /\ args.src + (a - args.dest) \notin Area(args.dest, args.len)
    BY <2>3, MemCallIs
  <2>5. args.src + (a - args.dest) \notin Area(args.dest, Moved)
    BY <1>1, <1>2, <1>3, <2>1, <2>4 DEF Area
  <2> QED BY <2>2, <2>4, <2>5 DEF CopyInv, MemoryInv
<1>6. ASSUME NEW a \in Addr
      PROVE  a \in Area(args.dest, Moved') <=> a \in Area(args.dest, Moved) \/ a \in Area(bdest, n)
  <2>1. a \in Nat
    BY MemcpyAssumption
  <2> QED BY <1>1, <1>2, <1>3, <1>4, <2>1 DEF Area, Moved
<1>7. MemoryInv'
  <2> SUFFICES ASSUME NEW a \in Addr
               PROVE  mem'[a] = IF a \in Area(args.dest, Moved')
                                THEN old[args.src + (a - args.dest)] ELSE old[a]
    BY DEF MemoryInv
  <2>1. CASE a \in Area(bdest, n)
    BY <1>4, <1>5, <1>6, <2>1
  <2>2. CASE a \notin Area(bdest, n)
    BY <1>4, <1>6, <2>2 DEF CopyInv, MemoryInv
  <2> QED BY <2>1, <2>2
<1>8. PointersInv'
  BY <1>1, <1>2, <1>3, <1>4 DEF PointersInv
<1>9. mem' \in [Addr -> MemByte]
  BY <1>1, <1>4, <1>5
<1>10. bdest' \in Nat /\ bsrc' \in Nat /\ len' \in 0 .. SizeMax
  BY <1>1, <1>4
<1> QED
  BY <1>7, <1>8, <1>9, <1>10 DEF CopyInv, CopyTypeOK

LEMMA RoundType == Word \in Nat /\ Word * Unroll \in Nat
  BY MemcpyAssumption

LEMMA MemStep ==
  ASSUME CopyTypeOK, CopyInv, [CopyNext]_copyVars
  PROVE  CopyTypeOK' /\ CopyInv'
<1>1. ASSUME UNCHANGED <<args, old, mem, bdest, bsrc, len>>, loop' \in Loops,
             loop = "done" <=> loop' = "done"
      PROVE  CopyTypeOK' /\ CopyInv'
  BY <1>1 DEF CopyTypeOK, CopyInv, PointersInv, MemoryInv, Moved
<1>2. CASE Start
  BY <1>1, <1>2 DEF Start, Goto, Loops
<1>3. CASE Aligned \/ UnrolledDone \/ WordsDone
  BY <1>1, <1>3 DEF Aligned, UnrolledDone, WordsDone, Goto, Loops
<1>4. CASE Align
  <2>1. loop # "done" /\ loop' = loop /\ UNCHANGED <<args, old>> /\ Copy(1) /\ len' = len - 1 /\ len > 0
    BY <1>4 DEF Align, Unaligned
  <2>2. 1 <= len
    BY <2>1 DEF CopyTypeOK
  <2> QED BY <2>1, <2>2, CopyRound
<1>5. CASE Unrolled
  BY <1>5, RoundType, CopyRound DEF Unrolled
<1>6. CASE Words
  BY <1>6, RoundType, CopyRound DEF Words
<1>7. CASE Bytes
  <2>1. loop # "done" /\ loop' = loop /\ UNCHANGED <<args, old>> /\ Copy(1) /\ len' = len - 1 /\ len > 0
    BY <1>7 DEF Bytes
  <2>2. 1 <= len
    BY <2>1 DEF CopyTypeOK
  <2> QED BY <2>1, <2>2, CopyRound
<1>8. CASE Return
  <2>1. /\ UNCHANGED <<args, old, mem, bdest, bsrc>> /\ len = 0 /\ len' = SizeMax
        /\ loop = "bytes" /\ loop' = "done" /\ SizeMax \in Nat
    BY MemcpyAssumption, <1>8 DEF Return
  <2>2. CopyTypeOK'
    BY <2>1 DEF CopyTypeOK, Loops
  <2>3. Moved \in Int
    BY MemCallIs DEF Moved, CopyTypeOK
  <2>4. PointersInv'
    BY <2>1, <2>3 DEF CopyInv, PointersInv, Moved
  <2> QED BY <2>1, <2>2, <2>4 DEF CopyInv, MemoryInv, Moved
<1>9. CASE UNCHANGED copyVars
  BY <1>9 DEF copyVars, CopyTypeOK, CopyInv, PointersInv, MemoryInv, Moved
<1> QED
  BY <1>2, <1>3, <1>4, <1>5, <1>6, <1>7, <1>8, <1>9 DEF CopyNext

LEMMA MemInit == ASSUME CopyInit PROVE CopyTypeOK /\ CopyInv
<1>1. args \in MemCalls /\ old \in [Addr -> MemByte] /\ mem = old
  BY MemcpyAssumption DEF CopyInit
<1>2. args.dest \in Nat /\ args.src \in Nat /\ args.len \in 0 .. SizeMax
  BY MemcpyAssumption, <1>1
<1>3. CopyTypeOK
  BY <1>1, <1>2 DEF CopyInit, CopyTypeOK, Loops
<1>4. Moved = 0
  BY <1>2 DEF CopyInit, Moved
<1>5. PointersInv
  BY <1>2, <1>4 DEF CopyInit, PointersInv
<1>6. MemoryInv
  BY MemcpyAssumption, <1>1, <1>2, <1>4 DEF MemoryInv, Area
<1> QED
  BY <1>3, <1>5, <1>6 DEF CopyInv

LEMMA MemInvariant == CopySpec => [](CopyTypeOK /\ CopyInv)
<1> DEFINE I == CopyTypeOK /\ CopyInv
<1>1. CopyInit => I
  BY MemInit
<1>2. I /\ [CopyNext]_copyVars => I'
  BY MemStep
<1> HIDE DEF I
<1>3. CopySpec => []I
  BY <1>1, <1>2, PTL DEF CopySpec
<1> QED BY <1>3 DEF I

\* MemTypeCorrect: every variable of my_memcpy keeps its type, len as a size_t included, which
\* wraps at the end.
THEOREM MemTypeCorrect == CopySpec => []CopyTypeOK
<1>1. CopySpec => [](CopyTypeOK /\ CopyInv)
  BY MemInvariant
<1> QED BY <1>1, PTL

\* CopiedCorrect: when my_memcpy returns, all bytes of the source are in the destination.
THEOREM CopiedCorrect == CopySpec => []Copied
<1>1. CopyTypeOK /\ CopyInv => Copied
  BY MemCallIs DEF CopyInv, PointersInv, MemoryInv, Copied, Inside
<1>2. CopySpec => [](CopyTypeOK /\ CopyInv)
  BY MemInvariant
<1> QED
  BY <1>1, <1>2, PTL

\* NothingElseCorrect: no loop of my_memcpy ever writes outside of the destination.
THEOREM NothingElseCorrect == CopySpec => []NothingElse
<1>1. CopyTypeOK /\ CopyInv => NothingElse
  <2> SUFFICES ASSUME CopyTypeOK, CopyInv, NEW a \in Addr, ~Inside(a)
               PROVE  a \notin Area(args.dest, Moved)
    BY DEF NothingElse, CopyInv, MemoryInv
  <2>1. Moved \in Nat /\ Moved <= args.len /\ args.dest \in Nat /\ args.len \in Nat /\ a \in Nat
    BY MemcpyAssumption, MemCallIs DEF CopyTypeOK, CopyInv, PointersInv, Moved
  <2> QED BY <2>1 DEF Inside, Area
<1>2. CopySpec => [](CopyTypeOK /\ CopyInv)
  BY MemInvariant
<1> QED
  BY <1>1, <1>2, PTL
=============================================================================
