-------------------------------- MODULE FileLoops --------------------------------
(***************************************************************************)
(* The file benchmarks: cp.c and cat.c copy through a buffer, sendfile.c   *)
(* lets the kernel copy, read.c only reads and write.c writes a buffer of  *)
(* zeros until `total' bytes are written.  All but cat repeat this Count   *)
(* times.  Every system call may fail or do less than it was asked for;    *)
(* the programs look at few of the results.                                *)
(***************************************************************************)
EXTENDS Integers, Sequences

CONSTANTS
  Byte,     \* the values of a byte, with 0
  Size,     \* BUFFER_SIZE
  Count,    \* rounds of a program other than cat
  SendMax,  \* what one sendfile() transfers at most, 2^31 - 4096 on Linux
  Name,     \* names of files; "stdout" is one
  Disks,    \* what may be on disk at the start
  Calls     \* command lines: [prog, in, out, trunc, total]

ASSUME FileAssumption ==
  /\ 0 \in Byte /\ Size \in Nat \ {0} /\ Count \in Nat \ {0} /\ SendMax \in Nat \ {0}
  /\ "stdout" \in Name
  /\ Disks \subseteq [Name -> Seq(Byte)]
  /\ Calls \subseteq [prog : {"cp", "cat", "sendfile", "read", "write"},
                      in : Name, out : Name, trunc : BOOLEAN, total : Nat]
  \* "stdout" stands for what cat has written, which it does not read itself.
  /\ \A d \in Disks : d["stdout"] = << >>
  /\ \A c \in Calls : c.prog = "cat" => c.out = "stdout" /\ c.in # "stdout"

VARIABLES
  call,      \* the command line
  disk,      \* contents of the files
  buffer, count,  \* the static buffer and what read() returned
  rd, wr,    \* the offsets of the two descriptors
  size,      \* st.st_size
  pos,       \* the loop counter of write.c
  round,     \* the loop counter
  clean,     \* history: no system call of this round failed or was short
  pc, status

vars == <<call, disk, buffer, count, rd, wr, size, pos, round, clean, pc, status>>
files == <<disk, rd, wr>>
locals == <<buffer, count, size, pos, round>>

Prog == call.prog

Init ==
  /\ call \in Calls
  /\ disk \in Disks
  /\ buffer = [k \in 1 .. Size |-> 0] /\ count = 0
  /\ rd = 0 /\ wr = 0 /\ size = 0 /\ pos = 0 /\ round = 0
  /\ clean = TRUE /\ status = 0
  /\ pc = IF call.prog = "write" THEN "open_out" ELSE "open_in"

Exit(s) == pc' = "exit" /\ status' = s

-----------------------------------------------------------------------------
OpenIn ==
  /\ pc = "open_in"
  /\ rd' = 0
  /\ clean' = TRUE
  /\ pc' = CASE Prog = "cat" -> "read"
             [] Prog = "read" -> "read"
             [] OTHER -> "open_out"
  /\ UNCHANGED <<call, disk, wr, locals, status>>

\* What O_TRUNC leaves of the file; only write.c can do without it.
TruncatedNever(s) == s  \* mutant: no O_TRUNC
Truncated(s) == IF Prog = "write" /\ ~call.trunc THEN s ELSE << >>

OpenOut ==
  /\ pc = "open_out"
  /\ disk' = [disk EXCEPT ![call.out] = Truncated(@)]
  /\ wr' = 0
  /\ pos' = 0
  /\ clean' = TRUE
  /\ pc' = CASE Prog = "cp" -> "read"
             [] Prog = "sendfile" -> "fstat"
             [] Prog = "write" -> "write"
  /\ UNCHANGED <<call, rd, buffer, count, size, round, status>>

\* open(), fstat() and sendfile() = -1 end the program.
CallFails ==
  /\ pc \in {"open_in", "open_out", "fstat", "sendfile"}
  /\ Exit(1)
  /\ UNCHANGED <<call, files, locals, clean>>

-----------------------------------------------------------------------------
\* What a read() of n bytes returns; only cat may read from a pipe, which gives
\* less than there will be.
Left == Len(disk[call.in]) - rd
ReadResults(n) ==
  IF Left <= 0 THEN {0}
  ELSE IF Prog = "cat" THEN 1 .. (IF n < Left THEN n ELSE Left)
  ELSE {IF n < Left THEN n ELSE Left}

GotBytes(n) == n > 0

\* A file that shrank below the offset is at its end.
Read ==
  /\ pc = "read"
  /\ \E n \in ReadResults(Size) :
       /\ count' = n
       /\ buffer' = [k \in 1 .. Size |-> IF k <= n THEN disk[call.in][rd + k] ELSE buffer[k]]
       /\ rd' = rd + n
       /\ pc' = IF ~GotBytes(n) THEN "close" ELSE IF Prog = "read" THEN "read" ELSE "write"
  /\ UNCHANGED <<call, disk, wr, size, pos, round, clean, status>>

\* -1 ends the loop like the end of the file.
ReadFails ==
  /\ pc = "read"
  /\ count' = -1
  /\ clean' = FALSE
  /\ pc' = "close"
  /\ UNCHANGED <<call, files, buffer, size, pos, round, status>>

\* The file after data were written at offset o.
Written(s, o, data) ==
  [k \in 1 .. (IF o + Len(data) > Len(s) THEN o + Len(data) ELSE Len(s)) |->
     IF k \in o + 1 .. o + Len(data) THEN data[k - o] ELSE s[k]]

\* The number of bytes handed to write().
AmountWhole == Size  \* mutant: sizeof(buffer)
Amount == IF Prog = "write" THEN Size ELSE count

MorePattern == pos < call.total

\* write() takes any number of the bytes, none if it fails; nobody looks at it.
Write ==
  /\ pc = "write"
  /\ Prog = "write" => MorePattern
  /\ \E n \in 0 .. Amount :
       /\ disk' = IF n = 0 THEN disk
                  ELSE [disk EXCEPT ![call.out] = Written(@, wr, SubSeq(buffer, 1, n))]
       /\ wr' = wr + n
       /\ clean' = (clean /\ n = Amount)
  /\ pos' = IF Prog = "write" THEN pos + Size ELSE pos
  /\ pc' = IF Prog = "write" THEN "write" ELSE "read"
  /\ UNCHANGED <<call, rd, buffer, count, size, round, status>>

PatternDone ==
  /\ pc = "write" /\ Prog = "write" /\ ~MorePattern
  /\ pc' = "close"
  /\ UNCHANGED <<call, files, locals, clean, status>>

-----------------------------------------------------------------------------
Fstat ==
  /\ pc = "fstat"
  /\ size' = Len(disk[call.in])
  /\ pc' = "sendfile"
  /\ UNCHANGED <<call, files, buffer, count, pos, round, clean, status>>

\* A result of less than st_size is not an error.
Sendfile ==
  /\ pc = "sendfile"
  /\ \E n \in {k \in 0 .. size : k <= SendMax} :
       /\ disk' = IF n = 0 THEN disk
                  ELSE [disk EXCEPT ![call.out] = Written(@, wr, SubSeq(disk[call.in], rd + 1, rd + n))]
       /\ rd' = rd + n /\ wr' = wr + n
       /\ clean' = (clean /\ n = size)
  /\ pc' = "close"
  /\ UNCHANGED <<call, locals, status>>

-----------------------------------------------------------------------------
LastRound == Prog = "cat" \/ round + 1 = Count

Close ==
  /\ pc = "close"
  /\ round' = round + 1
  /\ IF LastRound THEN Exit(0)
     ELSE /\ pc' = IF Prog = "write" THEN "open_out" ELSE "open_in"
          /\ UNCHANGED status
  /\ UNCHANGED <<call, files, buffer, count, size, pos, clean>>

Next ==
  \/ OpenIn \/ OpenOut \/ CallFails
  \/ Read \/ ReadFails \/ Write \/ PatternDone
  \/ Fstat \/ Sendfile \/ Close

Spec == Init /\ [][Next]_vars

-----------------------------------------------------------------------------
Pcs == {"open_in", "open_out", "read", "write", "fstat", "sendfile", "close", "exit"}

\* Every variable has its type; count is -1 after a failed read().
TypeOK ==
  /\ call \in Calls /\ disk \in [Name -> Seq(Byte)]
  /\ buffer \in [1 .. Size -> Byte] /\ count \in -1 .. Size
  /\ rd \in Nat /\ wr \in Nat /\ size \in Nat /\ pos \in Nat /\ round \in 0 .. Count
  /\ clean \in BOOLEAN /\ pc \in Pcs /\ status \in {0, 1}

Copies == Prog \in {"cp", "cat", "sendfile"}

\* CleanCopy: a round in which no call failed or fell short leaves an exact copy,
\* whatever was in the output before and however badly earlier rounds went; if both
\* arguments name one file, it has been emptied before it is read.
CleanCopy ==
  Copies /\ pc = "close" /\ clean =>
    disk[call.out] = IF call.in = call.out THEN << >> ELSE disk[call.in]

\* IsSubsequence(s, t): s is what is left of t if some elements are removed.
IsSubsequence(s, t) ==
  \E f \in [1 .. Len(s) -> 1 .. Len(t)] :
    /\ \A k \in 1 .. Len(s) : s[k] = t[f[k]]
    /\ \A k \in 2 .. Len(s) : f[k - 1] < f[k]

\* OnlyWhatWasRead: even if writes fall short, the output holds nothing but bytes
\* of the input, in their order: no stale part of the buffer, no old contents.
OnlyWhatWasRead ==
  Copies /\ pc \in {"read", "write", "fstat", "sendfile", "close"} =>
    IsSubsequence(disk[call.out], disk[call.in])
=============================================================================
