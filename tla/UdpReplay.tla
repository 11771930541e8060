------------------------------- MODULE UdpReplay -------------------------------
(***************************************************************************)
(* ycsbserver in UDP mode: UDPOpHandler (udp_handler.cc) loads a workload  *)
(* file into a buffer once and main (leveldb.cc) replays it, while copies  *)
(* of requests and answers go out as datagrams nobody acknowledges.        *)
(*                                                                         *)
(* The file starts with two words (one byte each here, four in the code).  *)
(* It may be cut or larger than the buffer, and its second word may        *)
(* promise more packages than it holds.                                    *)
(***************************************************************************)
EXTENDS Package, FiniteSets

CONSTANTS
  Workloads,      \* [total, pkgs, cut]: the packages, and how many bytes the file lacks
  MAX_FILE_SIZE,  \* 4 MiB in the code
  SizeMax,        \* SIZE_MAX
  Chunk,          \* sizeof(buffer) in respond(), 1024 in the code
  Results,        \* what execute() may return
  MaxErrors,      \* bound: failures of read() on the file
  DivTraps        \* integer division by zero raises SIGFPE (x86_64, not riscv64)

\* A pair and a package of a workload.
Pair == [key : Seq(Nat), val : Seq(Nat)]
Request == [op : Nat, kvs : Seq(Pair)]

ASSUME ReplayAssumption ==
  /\ Workloads \subseteq [total : Nat, pkgs : Seq(Request), cut : Nat]
  /\ MAX_FILE_SIZE \in Nat /\ MAX_FILE_SIZE >= 2
  /\ SizeMax \in Nat /\ SizeMax > 2 * MAX_FILE_SIZE
  /\ Chunk \in Nat \ {0} /\ Results \subseteq Nat /\ MaxErrors \in Nat
  /\ DivTraps \in BOOLEAN

VARIABLES
  wl,          \* the workload
  file,        \* its file: Seq of bytes
  fpos,        \* bytes of the file that have been read
  errors,      \* failures of read() so far
  wl_buffer, wl_pos, wl_size,
  ops, total_ops,
  pc,
  bytes,       \* what respond() still has to send
  out,         \* the answers: Seq of [total, body]
  opcounter,
  log          \* history: the packages receive() returned

fileVars == <<wl, file, fpos, errors>>
wlVars == <<wl_buffer, wl_size>>
sendVars == <<bytes, out, opcounter>>
vars == <<fileVars, wlVars, wl_pos, ops, total_ops, pc, sendVars, log>>

Least(a, b) == IF a < b THEN a ELSE b
Complete == <<0, wl.total>> \o FlattenSeq([k \in DOMAIN wl.pkgs |-> Encode(wl.pkgs[k])])

\* size_t arithmetic, and a size_t used as an offset into the buffer.
Wrap(k) == k % (SizeMax + 1)
Offset(k) == IF k > SizeMax \div 2 THEN k - (SizeMax + 1) ELSE k

Init ==
  /\ wl \in Workloads
  /\ file = SubSeq(Complete, 1, Len(Complete) - wl.cut)
  /\ fpos = 0 /\ errors = 0
  /\ wl_buffer = [j \in 0 .. MAX_FILE_SIZE - 1 |-> 0]  \* fresh pages are zero
  /\ wl_pos = 0 /\ wl_size = 0
  /\ ops = 0 /\ total_ops = 0
  /\ pc = "open"
  /\ bytes = 0 /\ out = <<>> /\ opcounter = 0 /\ log = <<>>

-----------------------------------------------------------------------------
\* The socket and the file; an error is an exception nobody catches.
Open ==
  /\ pc = "open"
  /\ pc' \in {"load", "abort"}
  /\ UNCHANGED <<fileVars, wlVars, wl_pos, ops, total_ops, sendVars, log>>

Room == MAX_FILE_SIZE - Offset(wl_size)

StoredRestart(n) ==  \* mutant: every read() stores at the start of the buffer
  [j \in DOMAIN wl_buffer |-> IF j < n THEN file[fpos + j + 1] ELSE wl_buffer[j]]
\* n bytes are stored at wl_buffer + wl_size.
Stored(n) ==
  LET at == Offset(wl_size)
  IN [j \in DOMAIN wl_buffer |->
        IF j \in at .. at + n - 1 THEN file[fpos + (j - at) + 1] ELSE wl_buffer[j]]

Load ==
  /\ pc = "load"
  /\ \E n \in 1 .. Least(Room, Len(file) - fpos) :
       /\ wl_buffer' = Stored(n)
       /\ wl_size' = Wrap(wl_size + n)
       /\ fpos' = fpos + n
  /\ UNCHANGED <<wl, file, errors, wl_pos, ops, total_ops, pc, sendVars, log>>

\* len is unsigned: -1 is > 0, wl_size goes one back and the loop goes on.
LoadError ==
  /\ pc = "load"
  /\ errors < MaxErrors
  /\ errors' = errors + 1
  /\ wl_size' = Wrap(wl_size + SizeMax)
  /\ UNCHANGED <<wl, file, fpos, wl_buffer, wl_pos, ops, total_ops, pc, sendVars, log>>

\* read() = 0: the end of the file, or no room left.
Loaded ==
  /\ pc = "load"
  /\ fpos = Len(file) \/ Room = 0
  /\ pc' = "words"
  /\ UNCHANGED <<fileVars, wlVars, wl_pos, ops, total_ops, sendVars, log>>

\* wl_read4b() twice, whatever wl_size is.
ReadWords ==
  /\ pc = "words"
  /\ total_ops' = wl_buffer[1]
  /\ wl_pos' = 2
  /\ pc' = "opendb"
  /\ UNCHANGED <<fileVars, wlVars, ops, sendVars, log>>

\* "abort": the executor cannot be created, or getrusage() fails.
OpenDB ==
  /\ pc = "opendb"
  /\ pc' \in {"reset", "abort"}
  /\ UNCHANGED <<fileVars, wlVars, wl_pos, ops, total_ops, sendVars, log>>

ResetToStart ==  \* mutant: back to the start of the file
  /\ pc = "reset"
  /\ wl_pos' = 0 /\ ops' = 0
  /\ pc' = "receive"
  /\ UNCHANGED <<fileVars, wlVars, total_ops, sendVars, log>>
reset ==
  /\ pc = "reset"
  /\ wl_pos' = 2 /\ ops' = 0
  /\ pc' = "receive"
  /\ UNCHANGED <<fileVars, wlVars, total_ops, sendVars, log>>

-----------------------------------------------------------------------------
\* The package at wl_pos, in what is left of wl_size.
NextPackage == from_bytes(wl_buffer, wl_pos, Wrap(wl_size + SizeMax + 1 - wl_pos))
AsLogged(r) == [size |-> r.size, op |-> r.op, kvs |-> r.kvs]

StopEarly ==  \* mutant: off by one
  /\ pc = "receive"
  /\ ops + 1 >= total_ops
  /\ pc' = "stats"
  /\ UNCHANGED <<fileVars, wlVars, wl_pos, ops, total_ops, sendVars, log>>
Stop ==
  /\ pc = "receive"
  /\ ops >= total_ops
  /\ pc' = "stats"
  /\ UNCHANGED <<fileVars, wlVars, wl_pos, ops, total_ops, sendVars, log>>

ReceiveIncomplete ==  \* mutant: as in TCPOpHandler, 0 is INCOMPLETE
  /\ pc = "receive"
  /\ ops < total_ops
  /\ LET r == NextPackage IN
       /\ ~r.fault
       /\ wl_pos' = wl_pos + r.size
       /\ IF r.size = 0 THEN UNCHANGED <<ops, pc, log>>
          ELSE ops' = ops + 1 /\ pc' = "execute" /\ log' = Append(log, AsLogged(r))
  /\ UNCHANGED <<fileVars, wlVars, total_ops, sendVars>>
\* A from_bytes() of 0 counts as an operation, too, and leaves wl_pos where it
\* is.  Whether the copy of the request could be sent is not looked at.
Receive ==
  /\ pc = "receive"
  /\ ops < total_ops
  /\ LET r == NextPackage IN
       /\ ~r.fault
       /\ wl_pos' = wl_pos + r.size
       /\ log' = Append(log, AsLogged(r))
  /\ ops' = ops + 1
  /\ pc' = "execute"
  /\ UNCHANGED <<fileVars, wlVars, total_ops, sendVars>>

\* Behind the buffer is memory that is not ours.
ReceiveFault ==
  /\ pc = "receive"
  /\ ops < total_ops
  /\ NextPackage.fault
  /\ pc' = "fault"
  /\ UNCHANGED <<fileVars, wlVars, wl_pos, ops, total_ops, sendVars, log>>

-----------------------------------------------------------------------------
Execute ==
  /\ pc = "execute"
  /\ bytes' \in Results
  /\ pc' = "respond"
  /\ UNCHANGED <<fileVars, wlVars, wl_pos, ops, total_ops, out, opcounter, log>>

SendHeader ==
  /\ pc = "respond"
  /\ out' = Append(out, [total |-> bytes, body |-> 0])
  /\ pc' = "chunks"
  /\ UNCHANGED <<fileVars, wlVars, wl_pos, ops, total_ops, bytes, opcounter, log>>

Amount == Least(bytes, Chunk)

SendChunk ==
  /\ pc = "chunks"
  /\ bytes > 0
  /\ out' = [out EXCEPT ![Len(out)] = [total |-> @.total, body |-> @.body + Amount]]
  /\ bytes' = bytes - Amount
  /\ UNCHANGED <<fileVars, wlVars, wl_pos, ops, total_ops, pc, opcounter, log>>

SendError ==
  /\ pc = "respond" \/ (pc = "chunks" /\ bytes > 0)
  /\ pc' = "stats"
  /\ UNCHANGED <<fileVars, wlVars, wl_pos, ops, total_ops, sendVars, log>>

Responded ==
  /\ pc = "chunks"
  /\ bytes = 0
  /\ opcounter' = opcounter + 1
  /\ pc' = "receive"
  /\ UNCHANGED <<fileVars, wlVars, wl_pos, ops, total_ops, bytes, out, log>>

\* A failing getrusage() returns from main() as well; otherwise the statistics
\* divide by opcounter.
PrintStats ==
  /\ pc = "stats"
  /\ \/ pc' = "exit"
     \/ opcounter = 0 /\ DivTraps /\ pc' = "sigfpe"
  /\ UNCHANGED <<fileVars, wlVars, wl_pos, ops, total_ops, sendVars, log>>

-----------------------------------------------------------------------------
Next ==
  \/ Open \/ Load \/ LoadError \/ Loaded \/ ReadWords \/ OpenDB \/ reset
  \/ Stop \/ Receive \/ ReceiveFault
  \/ Execute \/ SendHeader \/ SendChunk \/ SendError \/ Responded \/ PrintStats

Spec == Init /\ [][Next]_vars
\* One process, which nothing blocks for ever.
FairSpec == Spec /\ WF_vars(Next)

-----------------------------------------------------------------------------
Ended == {"exit", "abort", "sigfpe", "fault"}
Replaying == {"receive", "execute", "respond", "chunks", "stats"}

\* Every variable has its type.
TypeOK ==
  /\ wl \in Workloads /\ file \in Seq(Nat) /\ fpos \in 0 .. Len(file) /\ errors \in 0 .. MaxErrors
  /\ wl_buffer \in [0 .. MAX_FILE_SIZE - 1 -> Nat]
  /\ wl_pos \in Nat /\ wl_size \in 0 .. SizeMax
  /\ ops \in 0 .. total_ops /\ total_ops \in Nat
  /\ pc \in Ended \cup Replaying \cup {"open", "load", "words", "opendb", "reset"}
  /\ bytes \in Nat /\ opcounter \in 0 .. ops
  /\ out \in Seq([total : Nat, body : Nat])
  /\ log \in Seq([size : Nat, op : Nat, kvs : Seq(Pair)])

\* LoadIsPrefix: the buffer holds the first MAX_FILE_SIZE bytes of the file,
\* in whatever pieces read() returned them, and every failed read() has cost
\* exactly one byte in the middle: the constructor does not notice it.
LoadIsPrefix ==
  /\ wl_size = Wrap(fpos + SizeMax + 1 - errors)
  /\ errors = 0 => \A j \in 0 .. MAX_FILE_SIZE - 1 :
       wl_buffer[j] = IF j < fpos THEN file[j + 1] ELSE 0
  /\ errors = 0 /\ pc \in Replaying => fpos = Least(Len(file), MAX_FILE_SIZE)

\* The workloads in rootfs/bench: complete, and not promising too much.
Sound ==
  errors = 0 /\ wl.cut = 0 /\ Len(file) <= MAX_FILE_SIZE /\ wl.total <= Len(wl.pkgs)

\* ReplayIsExact: a sound workload is executed package by package as it was
\* written, although nothing but the packages themselves says where one ends,
\* and from_bytes() never reads behind what was loaded.
ReplayIsExact ==
  Sound =>
    /\ pc # "fault"
    /\ \A k \in 1 .. Len(log) :
         log[k] = [size |-> Len(Encode(wl.pkgs[k])), op |-> wl.pkgs[k].op, kvs |-> wl.pkgs[k].kvs]

\* OverrunNeedsNoPairs: wl_pos passes wl_size only with the header of a package
\* without pairs: all other bytes are checked against what is left.
OverrunNeedsNoPairs ==
  [][wl_pos <= wl_size /\ wl_pos' > wl_size /\ pc = "receive" =>
       log'[Len(log')].kvs = <<>> /\ wl_pos' - wl_size <= HdrLen]_vars

\* AllOrError: the loop ends with as many operations as the file promises, each
\* with its complete answer, unless a datagram of an answer could not be sent.
AllOrError ==
  pc = "stats" =>
    \/ opcounter = total_ops /\ \A k \in 1 .. Len(out) : out[k].total = out[k].body
    \/ opcounter = ops - 1 /\ (Len(out) = ops => out[ops].body < out[ops].total)

\* Terminates: the replay ends, also of a workload that is cut in a package.
Terminates == <>(pc \in Ended)
=============================================================================
