------------------------------- MODULE TcpServer -------------------------------
(***************************************************************************)
(* ycsbserver in TCP mode: the start-up and the loop of main (leveldb.cc), *)
(* TCPOpHandler (tcp_handler.cc) and OpHandler::respond (handler.cc), with *)
(* the client and the kernel's socket as their environment.                *)
(*                                                                         *)
(* A byte of the incoming stream is named by its offset in the stream, so  *)
(* header_bytes and package_buffer record WHICH bytes they hold; -1 is a   *)
(* byte that never came from the socket (uninitialised stack memory, or    *)
(* the zeroes of the static buffer).  The client's package is a member of  *)
(* Msgs: its size, what OpHandler::from_bytes and the "ENDNOW" test make   *)
(* of it and what Executor::execute returns for it are constants.          *)
(***************************************************************************)
EXTENDS Integers, Sequences

CONSTANTS
  Msgs,       \* the packages a client may send
  SizeOf,     \* [Msgs -> Nat]: the value of the size header
  KindOf,     \* [Msgs -> Kinds]: how the server reads the package
  ResOf,      \* [Msgs -> Nat]: what execute() returns for it
  HdrLen,     \* sizeof(header_bytes), 4 in the code
  BufLen,     \* sizeof(package_buffer), 8192 in the code
  Chunk,      \* sizeof(buffer) in respond(), 1024 in the code
  SizeMax,    \* SIZE_MAX: what -1 becomes as a size_t
  MaxRes,     \* bound: largest result of execute() for an unknown package
  DivTraps,   \* integer division by zero raises SIGFPE (x86_64, not riscv64)
  MaxFrames   \* bound: packages one client sends

\* "op": complete, from_bytes() > 0; "short": its fields do not fit the
\* package, from_bytes() = 0; "end": the six bytes ENDNOW.
Kinds == {"op", "short", "end"}
Junk == "junk"

ASSUME ConstAssumption ==
  /\ Junk \notin Msgs
  /\ SizeOf \in [Msgs -> Nat \ {0}]
  /\ KindOf \in [Msgs -> Kinds]
  /\ ResOf \in [Msgs -> Nat]
  /\ HdrLen \in Nat \ {0}
  /\ BufLen \in Nat \ {0}
  /\ Chunk \in Nat \ {0}
  /\ SizeMax \in Nat /\ SizeMax >= HdrLen /\ SizeMax >= BufLen
  /\ MaxRes \in Nat
  /\ DivTraps \in BOOLEAN
  /\ MaxFrames \in Nat

VARIABLES
  frames,         \* what the client has sent: Seq of [msg, at], at = stream offset
  written,        \* bytes of the stream the kernel has received for the server
  conn,           \* state of the connection
  rd,             \* bytes the server has read from the socket
  pc,             \* where the server is
  i,              \* loop variable of the two receive loops
  header_bytes,   \* the union of TCPOpHandler::receive
  package_size,
  package_buffer, \* the static buffer; keeps the bytes of older packages
  pkg,            \* the package receive() returned, Junk if no client sent it
  bytes,          \* what respond() still has to send
  out,            \* the responses: Seq of [total, body]
  opcounter,
  log             \* history: what receive() made a decision on, in order

client == <<frames, written>>
recvVars == <<i, header_bytes, package_size, package_buffer>>
sendVars == <<bytes, out, opcounter>>
vars == <<frames, written, conn, rd, pc, i, header_bytes, package_size,
          package_buffer, pkg, bytes, out, opcounter, log>>

HdrIdx == 0 .. HdrLen - 1
BufIdx == 0 .. BufLen - 1
NoBytes == [j \in HdrIdx |-> -1]

FrameEnd(f) == f.at + HdrLen + SizeOf[f.msg]
WireEnd == IF frames = <<>> THEN 0 ELSE FrameEnd(frames[Len(frames)])
Least(a, b) == IF a < b THEN a ELSE b

Init ==
  /\ frames = <<>> /\ written = 0 /\ conn = "none" /\ rd = 0
  /\ pc = "listen" /\ i = 0
  /\ header_bytes = NoBytes /\ package_size = 0
  /\ package_buffer = [j \in BufIdx |-> -1]
  /\ pkg = Junk /\ bytes = 0 /\ out = <<>> /\ opcounter = 0 /\ log = <<>>

-----------------------------------------------------------------------------
(***************************************************************************)
(* The client and the network (external).  A client may send its next      *)
(* package before it has the previous answer, TCP may deliver a package in *)
(* any pieces, and the client may close or reset the connection anywhere   *)
(* (what it sent still arrives after a close, and is cut by a reset).      *)
(***************************************************************************)
ClientSend(m) ==
  /\ conn = "open"
  /\ Len(frames) < MaxFrames
  /\ frames # <<>> => KindOf[frames[Len(frames)].msg] # "end"
  /\ frames' = Append(frames, [msg |-> m, at |-> WireEnd])
  /\ UNCHANGED <<written, conn, rd, pc, recvVars, pkg, sendVars, log>>

Deliver ==
  /\ conn \in {"open", "closed"}
  /\ \E w \in (written + 1) .. WireEnd : written' = w
  /\ UNCHANGED <<frames, conn, rd, pc, recvVars, pkg, sendVars, log>>

ClientClose ==
  /\ conn = "open"
  /\ conn' = "closed"
  /\ UNCHANGED <<client, rd, pc, recvVars, pkg, sendVars, log>>

ClientReset ==
  /\ conn \in {"open", "closed"}
  /\ conn' = "reset"
  /\ UNCHANGED <<client, rd, pc, recvVars, pkg, sendVars, log>>

-----------------------------------------------------------------------------
(***************************************************************************)
(* Start-up: the constructor binds, listens and accepts; an error of bind  *)
(* or listen is an exception nobody catches, an error of accept goes       *)
(* unnoticed and leaves _cfd = -1.  Then the database is opened.           *)
(***************************************************************************)
Listen ==
  /\ pc = "listen"
  /\ pc' \in {"accept", "abort"}
  /\ UNCHANGED <<client, conn, rd, recvVars, pkg, sendVars, log>>

Accept ==
  /\ pc = "accept"
  /\ conn' \in {"open", "badfd"}
  /\ pc' = "opendb"
  /\ UNCHANGED <<client, rd, recvVars, pkg, sendVars, log>>

\* "abort": the executor cannot be created, or getrusage() fails.
OpenDB ==
  /\ pc = "opendb"
  /\ pc' \in {"header", "abort"}
  /\ UNCHANGED <<client, conn, rd, recvVars, pkg, sendVars, log>>

-----------------------------------------------------------------------------
(***************************************************************************)
(* read(2) on the client's socket puts n bytes at dst + i.  It blocks      *)
(* while an open connection has nothing to read.                           *)
(***************************************************************************)
Stored(dst, n) == [j \in DOMAIN dst |-> IF j \in i .. i + n - 1 THEN rd + (j - i) ELSE dst[j]]

DecrementSigned(k) == k - 1  \* mutant: i is signed
\* A read that fails returns -1, and i += static_cast<size_t>(res) wraps.
WrapDecrement(k) == (k + SizeMax) % (SizeMax + 1)

\* Once the error is reported, the socket only reports end-of-file.
AfterError == IF conn = "badfd" THEN "badfd" ELSE "dead"

ReadFails == conn = "badfd" \/ (conn = "reset" /\ rd = written)
AtEof == conn \in {"closed", "dead"} /\ rd = written /\ (conn = "closed" => written = WireEnd)

HeaderCompleteEarly == i > 0            \* mutant: one read() is enough
HeaderComplete == i >= HdrLen
BodyCompleteLate == i > package_size    \* mutant: i <= package_size in the loop
BodyComplete == i >= package_size

ReadHeader ==
  /\ pc = "header"
  /\ ~HeaderComplete
  /\ conn # "badfd"
  /\ \E n \in 1 .. Least(HdrLen - i, written - rd) :
       /\ header_bytes' = Stored(header_bytes, n)
       /\ i' = i + n
       /\ rd' = rd + n
  /\ UNCHANGED <<client, conn, pc, package_size, package_buffer, pkg, sendVars, log>>

ReadBody ==
  /\ pc = "body"
  /\ ~BodyComplete
  /\ conn # "badfd"
  /\ \E n \in 1 .. Least(package_size - i, written - rd) :
       /\ package_buffer' = Stored(package_buffer, n)
       /\ i' = i + n
       /\ rd' = rd + n
  /\ UNCHANGED <<client, conn, pc, header_bytes, package_size, pkg, sendVars, log>>

ReadError ==
  /\ \/ pc = "header" /\ ~HeaderComplete
     \/ pc = "body" /\ ~BodyComplete
  /\ ReadFails
  /\ i' = WrapDecrement(i)
  /\ conn' = AfterError
  /\ UNCHANGED <<client, rd, pc, header_bytes, package_size, package_buffer, pkg, sendVars, log>>

\* read() = 0 leaves i as it is and the loop runs again, for ever.
ReadEof ==
  /\ \/ pc = "header" /\ ~HeaderComplete
     \/ pc = "body" /\ ~BodyComplete
  /\ AtEof
  /\ UNCHANGED vars

-----------------------------------------------------------------------------
\* The frames whose header is in header_bytes; be32toh of anything else is
\* an arbitrary number (BufLen + 1 stands for all that are too large).
HeaderFrames ==
  {k \in 1 .. Len(frames) : \A j \in HdrIdx : header_bytes[j] = frames[k].at + j}
HeaderValues ==
  IF HeaderFrames # {} THEN {SizeOf[frames[k].msg] : k \in HeaderFrames}
  ELSE 0 .. BufLen + 1

HeaderDone ==
  /\ pc = "header"
  /\ HeaderComplete
  /\ package_size' \in HeaderValues
  /\ IF package_size' > BufLen
     THEN pc' = "stats" /\ UNCHANGED i
     ELSE pc' = "body" /\ i' = 0
  /\ UNCHANGED <<client, conn, rd, header_bytes, package_buffer, pkg, sendVars, log>>

\* The frames whose package is the first package_size bytes of the buffer.
BodyFrames ==
  {k \in 1 .. Len(frames) :
     /\ SizeOf[frames[k].msg] = package_size
     /\ \A j \in BufIdx :
          j < package_size => package_buffer[j] = frames[k].at + HdrLen + j}
Packages ==
  IF BodyFrames # {} THEN {frames[k].msg : k \in BodyFrames} ELSE {Junk}

\* No byte of the buffer ever came from the socket: it is all zero.
ZeroBuffer == \A j \in BufIdx : package_buffer[j] = -1

NextAfterStops(m) ==  \* mutant: INCOMPLETE ends the loop of main()
  IF m = Junk \/ KindOf[m] = "op" THEN {"execute"} ELSE {"stats"}
\* ENDNOW stops the loop, from_bytes() = 0 goes back to receive() without an
\* answer, everything else is executed.  Stale bytes may look like any of them;
\* zeroes are a package without fields and an unknown op code.
NextAfter(m) ==
  IF m = Junk
  THEN IF ZeroBuffer THEN {"execute"} ELSE {"stats", "header", "execute"}
  ELSE {[op |-> "execute", short |-> "header", end |-> "stats"][KindOf[m]]}

BodyDone ==
  /\ pc = "body"
  /\ BodyComplete
  /\ \E m \in Packages :
       /\ pc' \in NextAfter(m)
       /\ pkg' = m
       /\ log' = Append(log, m)
  /\ i' = 0
  /\ header_bytes' = NoBytes
  /\ UNCHANGED <<client, conn, rd, package_size, package_buffer, sendVars>>

-----------------------------------------------------------------------------
(***************************************************************************)
(* execute() and respond().  A blocking write hands over all its bytes; on *)
(* a connection that was reset it fails or the process dies of SIGPIPE.    *)
(***************************************************************************)
CanWrite == conn \in {"open", "closed"}
WriteFails == conn \in {"reset", "dead", "badfd"}
WriteErrorPcs == IF conn = "badfd" THEN {"stats"} ELSE {"stats", "sigpipe"}

Results ==
  IF pkg # Junk THEN {ResOf[pkg]} ELSE IF ZeroBuffer THEN {0} ELSE 0 .. MaxRes

Execute ==
  /\ pc = "execute"
  /\ bytes' \in Results
  /\ pc' = "respond"
  /\ UNCHANGED <<client, conn, rd, recvVars, pkg, out, opcounter, log>>

SendHeader ==
  /\ pc = "respond"
  /\ CanWrite
  /\ out' = Append(out, [total |-> bytes, body |-> 0])
  /\ pc' = "chunks"
  /\ UNCHANGED <<client, conn, rd, recvVars, pkg, bytes, opcounter, log>>

AmountWhole == Chunk  \* mutant: no minimum with what is left
Amount == Least(bytes, Chunk)

SendChunk ==
  /\ pc = "chunks"
  /\ bytes > 0
  /\ CanWrite
  /\ out' = [out EXCEPT ![Len(out)] = [total |-> @.total, body |-> @.body + Amount]]
  /\ bytes' = bytes - Amount
  /\ UNCHANGED <<client, conn, rd, pc, recvVars, pkg, opcounter, log>>

SendErrorCounted ==  \* mutant: the counter is incremented before the check
  /\ pc = "respond" \/ (pc = "chunks" /\ bytes > 0)
  /\ WriteFails
  /\ pc' \in WriteErrorPcs
  /\ conn' = AfterError
  /\ opcounter' = opcounter + 1
  /\ UNCHANGED <<client, rd, recvVars, pkg, bytes, out, log>>
SendErrorIgnored ==  \* mutant: main() ignores the result of respond()
  /\ pc = "respond" \/ (pc = "chunks" /\ bytes > 0)
  /\ WriteFails
  /\ pc' = "header"
  /\ conn' = AfterError
  /\ UNCHANGED <<client, rd, recvVars, pkg, sendVars, log>>
SendError ==
  /\ pc = "respond" \/ (pc = "chunks" /\ bytes > 0)
  /\ WriteFails
  /\ pc' \in WriteErrorPcs
  /\ conn' = AfterError
  /\ UNCHANGED <<client, rd, recvVars, pkg, sendVars, log>>

Responded ==
  /\ pc = "chunks"
  /\ bytes = 0
  /\ opcounter' = opcounter + 1
  /\ pc' = "header"
  /\ UNCHANGED <<client, conn, rd, recvVars, pkg, bytes, out, log>>

\* A failing getrusage() returns from main() as well; otherwise the statistics
\* divide by opcounter.
PrintStats ==
  /\ pc = "stats"
  /\ \/ pc' = "exit"
     \/ opcounter = 0 /\ DivTraps /\ pc' = "sigfpe"
  /\ UNCHANGED <<client, conn, rd, recvVars, pkg, sendVars, log>>

-----------------------------------------------------------------------------
Client == (\E m \in Msgs : ClientSend(m)) \/ Deliver \/ ClientClose \/ ClientReset
Server ==
  \/ Listen \/ Accept \/ OpenDB
  \/ ReadHeader \/ HeaderDone \/ ReadBody \/ BodyDone \/ ReadError \/ ReadEof
  \/ Execute \/ SendHeader \/ SendChunk \/ SendError \/ Responded
  \/ PrintStats

Next == Client \/ Server

Spec == Init /\ [][Next]_vars
\* The server is one process that blocks only in accept, read and write.
FairSpec == Spec /\ WF_vars(Server)

-----------------------------------------------------------------------------
Conns == {"none", "open", "closed", "reset", "dead", "badfd"}
Pcs == {"listen", "accept", "opendb", "header", "body", "execute", "respond",
        "chunks", "stats", "exit", "abort", "sigfpe", "sigpipe"}

Frame == [msg : Msgs, at : Nat]
Response == [total : Nat, body : Nat]
AnyPackage == Msgs \cup {Junk}

\* Every variable has its type; out and log are checked element by element.
TypeOK ==
  /\ frames \in Seq(Frame)
  /\ written \in Nat /\ rd \in Nat
  /\ conn \in Conns /\ pc \in Pcs
  /\ i \in 0 .. SizeMax
  /\ header_bytes \in [HdrIdx -> Int]
  /\ package_size \in 0 .. BufLen + 1 \cup {SizeOf[m] : m \in Msgs}
  /\ pc = "body" => package_size <= BufLen
  /\ package_buffer \in [BufIdx -> Int]
  /\ pkg \in AnyPackage
  /\ bytes \in Nat /\ opcounter \in Nat
  /\ out \in Seq(Response)
  /\ pc = "chunks" => out # <<>>
  /\ log \in Seq(AnyPackage)

\* No call of read() has failed so far.
NoReadError == conn \in {"none", "open", "closed", "reset"}

\* Framing: as long as no read() failed, the packages receive() decides on
\* are the packages the client sent, in the order it sent them, whatever the
\* pieces in which TCP delivered them (the two read loops of receive()).
Framing ==
  NoReadError =>
    /\ Len(log) <= Len(frames)
    /\ \A k \in 1 .. Len(log) : log[k] = frames[k].msg

IsOp(m) == m = Junk \/ KindOf[m] = "op"

\* The packages of s that have to be answered, in their order (what SelectSeq
\* returns, as a function that can be unfolded one package at a time).
Ops(s) ==
  LET f[k \in 0 .. Len(s)] ==
        IF k = 0 THEN <<>> ELSE IF IsOp(s[k]) THEN Append(f[k - 1], s[k]) ELSE f[k - 1]
  IN  f[Len(s)]
Executed == Ops(log)
\* The first n packages the client sent.
Sent(n) == [k \in 1 .. n |-> frames[k].msg]

\* Answers: the k-th response on the wire announces the result of the k-th
\* package that was ready, and all but the last carry exactly the bytes they
\* announce, so a client can find where each response ends (respond()).
Answers ==
  /\ Len(out) <= Len(Executed)
  /\ \A k \in 1 .. Len(out) :
       /\ Executed[k] # Junk => out[k].total = ResOf[Executed[k]]
       /\ out[k].body <= out[k].total
       /\ k < Len(out) => out[k].body = out[k].total

\* CounterIsComplete: the number the statistics divide by is the number of
\* responses that were sent completely, whatever ended the loop of main():
\* a response that failed half-way is not counted, a complete one always is.
CounterIsComplete ==
  pc \in {"header", "body", "execute", "respond", "stats", "exit", "sigfpe"} =>
    /\ opcounter <= Len(out)
    /\ \A k \in 1 .. Len(out) : out[k].body = out[k].total <=> k <= opcounter

\* JunkIsLast: after a failed read() or accept() receive() may make up a
\* package from stale bytes; it does so at most once and never answers it.
JunkIsLast ==
  \A k \in 1 .. Len(log) :
    log[k] = Junk => k = Len(log) /\ Len(out) < Len(Executed)

\* StopAnswersAll: a loop that ended while the connection was up (ENDNOW, or a
\* package that is too large) has answered every complete package before it.
StopAnswersAll ==
  pc \in {"stats", "exit", "sigfpe"} /\ conn = "open" =>
    \E stop \in 1 .. Len(frames) :
      /\ KindOf[frames[stop].msg] = "end" \/ SizeOf[frames[stop].msg] > BufLen
      /\ opcounter = Len(Ops(Sent(stop - 1)))

\* OpsUpTo(k): how many of the first k packages have to be answered.
OpsUpTo(k) == Len(Ops(Sent(Least(k, Len(frames)))))
Reachable(k) ==
  /\ k <= Len(frames)
  /\ written >= FrameEnd(frames[k])
  /\ \A j \in 1 .. k : SizeOf[frames[j].msg] <= BufLen

\* Every complete package that reached the server is answered, unless the
\* client goes away or the database cannot be opened.
EventuallyAnswered ==
  \A k \in 1 .. MaxFrames :
    (Reachable(k) /\ conn = "open")
      ~> (opcounter >= OpsUpTo(k) \/ conn # "open" \/ pc = "abort")

\* "In that case its time to stop the benchmark" (tcp_handler.cc:73): ENDNOW
\* ends the server, unless the client goes away first.
EndStops ==
  \A k \in 1 .. MaxFrames :
    (Reachable(k) /\ conn = "open" /\ KindOf[frames[k].msg] = "end")
      ~> (pc \in {"exit", "sigfpe", "abort"} \/ conn # "open")
=============================================================================
