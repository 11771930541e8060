---------------------------- MODULE TcpServerProofs ----------------------------
(***************************************************************************)
(* The safety invariants of TcpServer for every set of packages, every     *)
(* size of header, buffer and chunk, and any number of frames.             *)
(***************************************************************************)
EXTENDS TcpServer, SequenceTheorems, WellFoundedInduction, TLAPS

\* Where the k-th package starts in the stream.
Start(k) == IF k = 1 THEN 0 ELSE FrameEnd(frames[k - 1])

\* Frames lie in the stream one after the other without overlap.
FramesInv ==
  /\ \A k \in 1 .. Len(frames) : frames[k].at = Start(k) /\ FrameEnd(frames[k]) <= WireEnd
  /\ \A k, l \in 1 .. Len(frames) : k < l => FrameEnd(frames[k]) <= frames[l].at

\* The server never reads what has not been sent.
WireInv == rd <= written /\ written <= WireEnd

StartupInv == pc \in {"listen", "accept", "opendb"} => log = <<>> /\ rd = 0 /\ i = 0

\* In the header loop the first i bytes of the next frame are in header_bytes.
HeaderInv ==
  pc = "header" =>
    /\ i <= HdrLen
    /\ rd = Start(Len(log) + 1) + i
    /\ \A j \in HdrIdx : j < i => header_bytes[j] = Start(Len(log) + 1) + j

\* In the body loop the first i bytes of its package are in package_buffer.
BodyInv ==
  pc = "body" =>
    LET k == Len(log) + 1 IN
    /\ k <= Len(frames)
    /\ package_size = SizeOf[frames[k].msg]
    /\ i <= package_size
    /\ rd = frames[k].at + HdrLen + i
    /\ \A j \in BufIdx : j < i => package_buffer[j] = frames[k].at + HdrLen + j

\* Between two packages the stream is at a frame boundary, and i is reset.
BoundaryInv ==
  pc \in {"execute", "respond", "chunks"} => rd = Start(Len(log) + 1) /\ i = 0

ReceiveInv == NoReadError => Framing /\ HeaderInv /\ BodyInv /\ BoundaryInv

FramingInv == FramesInv /\ WireInv /\ StartupInv /\ ReceiveInv

-----------------------------------------------------------------------------
LEMMA WrapDecrementType ==
  ASSUME NEW k \in 0 .. SizeMax
  PROVE  WrapDecrement(k) \in 0 .. SizeMax
  BY ConstAssumption DEF WrapDecrement

LEMMA LeastType ==
  ASSUME NEW a \in Int, NEW b \in Int
  PROVE  Least(a, b) \in Int /\ Least(a, b) <= a /\ Least(a, b) <= b
  BY DEF Least

LEMMA ReadAmount ==
  ASSUME NEW a \in Int, NEW b \in Int, NEW n \in 1 .. Least(a, b)
  PROVE  n \in Nat /\ n > 0 /\ n <= a /\ n <= b
  BY DEF Least

LEMMA StoredType ==
  ASSUME TypeOK, NEW S \in SUBSET Int, NEW dst \in [S -> Int], NEW n \in Int
  PROVE  Stored(dst, n) \in [S -> Int]
  BY DEF Stored, TypeOK

\* If the first i bytes are those from offset start on, the first i + n are.
LEMMA StoredPrefix ==
  ASSUME NEW S \in SUBSET Int, NEW dst \in [S -> Int], NEW n \in Nat, NEW start \in Int,
         i \in Nat, rd = start + i,
         \A j \in S : j < i => dst[j] = start + j,
         NEW j \in S, j < i + n, j >= 0
  PROVE  Stored(dst, n)[j] = start + j
<1>1. CASE j < i
  BY <1>1 DEF Stored
<1>2. CASE j >= i
  BY <1>2 DEF Stored
<1> QED
  BY <1>1, <1>2

LEMMA FrameType ==
  ASSUME TypeOK, NEW k \in 1 .. Len(frames)
  PROVE  /\ frames[k].msg \in Msgs /\ frames[k].at \in Nat
         /\ SizeOf[frames[k].msg] \in Nat \ {0}
         /\ FrameEnd(frames[k]) \in Nat
         /\ FrameEnd(frames[k]) > frames[k].at
<1>1. frames[k] \in Frame
  BY DEF TypeOK
<1>2. frames[k].msg \in Msgs /\ frames[k].at \in Nat
  BY <1>1 DEF Frame
<1>3. SizeOf[frames[k].msg] \in Nat \ {0}
  BY <1>2, ConstAssumption
<1>4. HdrLen \in Nat
  BY ConstAssumption
<1>5. SizeOf[frames[k].msg] \in Nat /\ SizeOf[frames[k].msg] > 0
  BY <1>3
<1>6. FrameEnd(frames[k]) \in Nat /\ FrameEnd(frames[k]) > frames[k].at
  BY <1>2, <1>4, <1>5, SMTT(30) DEF FrameEnd
<1> QED
  BY <1>2, <1>3, <1>6

LEMMA WireEndType ==
  ASSUME TypeOK
  PROVE  WireEnd \in Nat
<1>1. CASE frames = <<>>
  BY <1>1 DEF WireEnd
<1>2. CASE frames # <<>>
  <2>1. Len(frames) \in 1 .. Len(frames)
    BY <1>2 DEF TypeOK
  <2> QED BY <1>2, <2>1, FrameType DEF WireEnd
<1> QED
  BY <1>1, <1>2

\* Every variable keeps its type: the wrap-around of i stays a size_t, and a
\* package_size that passed the check of receive() never exceeds the buffer.
THEOREM TypeCorrect == Spec => []TypeOK
<1>1. Init => TypeOK
  BY ConstAssumption DEF Init, TypeOK, AnyPackage, NoBytes, Conns, Pcs, HdrIdx, BufIdx
<1>2. TypeOK /\ [Next]_vars => TypeOK'
  <2> SUFFICES ASSUME TypeOK, [Next]_vars PROVE TypeOK'
    OBVIOUS
  <2> USE ConstAssumption
  <2>1. ASSUME NEW m \in Msgs, ClientSend(m) PROVE TypeOK'
    <3>1. frames' \in Seq(Frame)
      <4>1. [msg |-> m, at |-> WireEnd] \in Frame
        BY WireEndType DEF Frame
      <4> QED BY <2>1, <4>1 DEF ClientSend, TypeOK
    <3> QED BY <2>1, <3>1 DEF ClientSend, TypeOK, recvVars, sendVars
  <2>2. CASE Deliver
    <3>1. PICK w \in (written + 1) .. WireEnd : written' = w
      BY <2>2 DEF Deliver
    <3>2. written \in Nat /\ WireEnd \in Nat
      BY WireEndType DEF TypeOK
    <3>3. written' \in Nat
      BY <3>1, <3>2
    <3> QED BY <2>2, <3>3 DEF Deliver, TypeOK, recvVars, sendVars
  <2>3. CASE ClientClose
    BY <2>3 DEF ClientClose, TypeOK, client, recvVars, sendVars, Conns
  <2>4. CASE ClientReset
    BY <2>4 DEF ClientReset, TypeOK, client, recvVars, sendVars, Conns
  <2>5. CASE Listen
    BY <2>5 DEF Listen, TypeOK, client, recvVars, sendVars, Pcs
  <2>6. CASE Accept
    BY <2>6 DEF Accept, TypeOK, client, recvVars, sendVars, Pcs, Conns
  <2>7. CASE OpenDB
    BY <2>7 DEF OpenDB, TypeOK, client, recvVars, sendVars, Pcs
  <2>8. CASE ReadHeader
    <3>1. PICK n \in 1 .. Least(HdrLen - i, written - rd) :
            header_bytes' = Stored(header_bytes, n) /\ i' = i + n /\ rd' = rd + n
      BY <2>8 DEF ReadHeader
    <3>2. n \in Nat /\ i + n <= HdrLen
      <4>0. HdrLen \in Int /\ i \in Int /\ written \in Int /\ rd \in Int
        BY DEF TypeOK
      <4>1. HdrLen - i \in Int /\ written - rd \in Int /\ HdrLen \in Int /\ i \in Int
        BY <4>0
      <4>2. n \in Nat /\ n <= HdrLen - i
        BY <4>1, ReadAmount
      <4> QED BY <4>1, <4>2
    <3>3. header_bytes' \in [HdrIdx -> Int]
      <4>1. HdrIdx \in SUBSET Int /\ header_bytes \in [HdrIdx -> Int]
        BY DEF HdrIdx, TypeOK
      <4> QED BY <3>1, <3>2, <4>1, StoredType
    <3> QED BY <2>8, <3>1, <3>2, <3>3 DEF ReadHeader, TypeOK, client, sendVars
  <2>9. CASE HeaderDone
    <3>1. package_size' \in 0 .. BufLen + 1 \cup {SizeOf[m] : m \in Msgs}
      BY <2>9, FrameType DEF HeaderDone, HeaderValues, HeaderFrames
    <3>2. pc' \in Pcs /\ i' \in 0 .. SizeMax /\ (pc' = "body" => package_size' <= BufLen)
      BY <2>9, <3>1 DEF HeaderDone, TypeOK, Pcs
    <3> QED BY <2>9, <3>1, <3>2 DEF HeaderDone, TypeOK, client, sendVars
  <2>10. CASE ReadBody
    <3>1. PICK n \in 1 .. Least(package_size - i, written - rd) :
            package_buffer' = Stored(package_buffer, n) /\ i' = i + n /\ rd' = rd + n
      BY <2>10 DEF ReadBody
    <3>0. package_size \in Nat
      BY DEF TypeOK
    <3>2. n \in Nat /\ i + n <= package_size
      <4>0. i \in Int /\ written \in Int /\ rd \in Int
        BY DEF TypeOK
      <4>1. package_size - i \in Int /\ written - rd \in Int /\ i \in Int
        BY <3>0, <4>0
      <4>2. n \in Nat /\ n <= package_size - i
        BY <4>1, ReadAmount
      <4> QED BY <3>0, <4>1, <4>2
    <3>3. package_buffer' \in [BufIdx -> Int]
      <4>1. BufIdx \in SUBSET Int /\ package_buffer \in [BufIdx -> Int]
        BY DEF BufIdx, TypeOK
      <4> QED BY <3>1, <3>2, <4>1, StoredType
    <3>4. i' \in 0 .. SizeMax
      BY <2>10, <3>0, <3>1, <3>2 DEF ReadBody, TypeOK
    <3>5. rd' \in Nat
      <4>1. rd \in Nat
        BY DEF TypeOK
      <4> QED BY <3>1, <3>2, <4>1
    <3> QED BY <2>10, <3>3, <3>4, <3>5 DEF ReadBody, TypeOK, client, sendVars
  <2>11. CASE BodyDone
    <3>1. PICK m \in Packages : pc' \in NextAfter(m) /\ pkg' = m /\ log' = Append(log, m)
      BY <2>11 DEF BodyDone
    <3>2. m \in AnyPackage
      BY FrameType DEF Packages, BodyFrames, AnyPackage
    <3>3. pc' \in {"header", "execute", "stats"}
      BY <3>1, <3>2 DEF NextAfter, Kinds, AnyPackage
    <3>4. log' \in Seq(AnyPackage)
      BY <3>1, <3>2 DEF TypeOK
    <3>5. header_bytes' \in [HdrIdx -> Int] /\ i' \in 0 .. SizeMax
      BY <2>11 DEF BodyDone, NoBytes
    <3> QED BY <2>11, <3>1, <3>2, <3>3, <3>4, <3>5 DEF BodyDone, TypeOK, client, sendVars, Pcs
  <2>12. CASE ReadError
    <3>1. i' \in 0 .. SizeMax
      BY <2>12, WrapDecrementType DEF ReadError, TypeOK
    <3> QED BY <2>12, <3>1 DEF ReadError, TypeOK, client, sendVars, AfterError, Conns
  <2>13. CASE ReadEof
    BY <2>13 DEF ReadEof, vars, TypeOK
  <2>14. CASE Execute
    <3>1. bytes' \in Nat
      BY <2>14 DEF Execute, Results, TypeOK, AnyPackage
    <3> QED BY <2>14, <3>1 DEF Execute, TypeOK, client, recvVars, Pcs
  <2>15. CASE SendHeader
    <3>1. out' \in Seq(Response)
      <4>1. [total |-> bytes, body |-> 0] \in Response
        BY DEF Response, TypeOK
      <4> QED BY <2>15, <4>1 DEF SendHeader, TypeOK
    <3>2. out' # <<>>
      BY <2>15 DEF SendHeader, TypeOK
    <3> QED BY <2>15, <3>1, <3>2 DEF SendHeader, TypeOK, client, recvVars, Pcs
  <2>16. CASE SendChunk
    <3>1. Amount \in Nat /\ bytes - Amount \in Nat
      BY DEF Amount, Least, TypeOK
    <3>2. out' \in Seq(Response)
      <4> DEFINE r == [total |-> out[Len(out)].total, body |-> out[Len(out)].body + Amount]
      <4>1. out' = [out EXCEPT ![Len(out)] = r]
        BY <2>16 DEF SendChunk
      <4>2. Len(out) \in 1 .. Len(out)
        BY <2>16 DEF SendChunk, TypeOK
      <4>3. out[Len(out)] \in Response
        BY <4>2 DEF TypeOK
      <4>4. r \in Response
        BY <3>1, <4>3 DEF Response
      <4> HIDE DEF r
      <4> QED BY <4>1, <4>2, <4>4 DEF TypeOK
    <3>3. out' # <<>>
      BY <2>16 DEF SendChunk, TypeOK
    <3> QED BY <2>16, <3>1, <3>2, <3>3 DEF SendChunk, TypeOK, client, recvVars
  <2>17. CASE SendError
    BY <2>17 DEF SendError, TypeOK, client, recvVars, sendVars, WriteErrorPcs, AfterError, Pcs, Conns
  <2>18. CASE Responded
    BY <2>18 DEF Responded, TypeOK, client, recvVars, Pcs
  <2>19. CASE PrintStats
    BY <2>19 DEF PrintStats, TypeOK, client, recvVars, sendVars, Pcs
  <2>20. CASE UNCHANGED vars
    BY <2>20 DEF vars, TypeOK
  <2> QED
    BY <2>1, <2>2, <2>3, <2>4, <2>5, <2>6, <2>7, <2>8, <2>9, <2>10, <2>11, <2>12, <2>13,
       <2>14, <2>15, <2>16, <2>17, <2>18, <2>19, <2>20 DEF Next, Client, Server
<1> QED
  BY <1>1, <1>2, PTL DEF Spec

-----------------------------------------------------------------------------
LEMMA StartType ==
  ASSUME TypeOK, NEW k \in 1 .. Len(frames) + 1
  PROVE  Start(k) \in Nat
<1>1. CASE k = 1
  BY <1>1 DEF Start
<1>2. CASE k # 1
  <2>1. k - 1 \in 1 .. Len(frames)
    BY <1>2 DEF TypeOK
  <2> QED BY <1>2, <2>1, FrameType DEF Start
<1> QED
  BY <1>1, <1>2

\* While no read() failed, the next package is a frame or the end of the stream.
LEMMA NextStart ==
  ASSUME TypeOK, FramesInv, NEW n \in 0 .. Len(frames)
  PROVE  /\ Start(n + 1) \in Nat
         /\ n < Len(frames) => frames[n + 1].at = Start(n + 1)
         /\ n = Len(frames) => Start(n + 1) = WireEnd
<1>1. n + 1 \in 1 .. Len(frames) + 1
  BY DEF TypeOK
<1>2. Start(n + 1) \in Nat
  BY <1>1, StartType
<1>3. n < Len(frames) => frames[n + 1].at = Start(n + 1)
  BY <1>1 DEF FramesInv, TypeOK
<1>4. n = Len(frames) => Start(n + 1) = WireEnd
  BY DEF Start, WireEnd, TypeOK
<1> QED
  BY <1>2, <1>3, <1>4

\* Different frames start at different offsets.
LEMMA StartsDiffer ==
  ASSUME TypeOK, FramesInv, NEW k \in 1 .. Len(frames), NEW l \in 1 .. Len(frames),
         frames[k].at = frames[l].at
  PROVE  k = l
<1>1. /\ frames[k].at \in Nat /\ FrameEnd(frames[k]) \in Nat /\ FrameEnd(frames[k]) > frames[k].at
      /\ frames[l].at \in Nat /\ FrameEnd(frames[l]) \in Nat /\ FrameEnd(frames[l]) > frames[l].at
  BY FrameType
<1>2. (k < l => FrameEnd(frames[k]) <= frames[l].at) /\ (l < k => FrameEnd(frames[l]) <= frames[k].at)
  BY DEF FramesInv
<1>3. ~(k < l) /\ ~(l < k)
  BY <1>1, <1>2
<1> QED
  BY <1>3 DEF TypeOK

\* A step that leaves the frames alone.
LEMMA SameFrames ==
  ASSUME frames' = frames
  PROVE  /\ FramesInv <=> FramesInv'
         /\ WireEnd' = WireEnd
         /\ \A k : Start(k)' = Start(k)
  BY DEF FramesInv, Start, WireEnd, FrameEnd

\* A new frame goes to the end of the stream and moves no other.
LEMMA NewFrame ==
  ASSUME TypeOK, FramesInv, NEW m \in Msgs,
         frames' = Append(frames, [msg |-> m, at |-> WireEnd])
  PROVE  /\ FramesInv'
         /\ WireEnd <= WireEnd' /\ WireEnd' \in Nat
         /\ Len(frames') = Len(frames) + 1
         /\ \A k \in 1 .. Len(frames) : frames'[k] = frames[k]
         /\ \A k \in 1 .. Len(frames) + 1 : Start(k)' = Start(k)
<1> DEFINE f == [msg |-> m, at |-> WireEnd]
<1>1. f \in Frame /\ f.msg = m /\ f.at = WireEnd
  BY WireEndType DEF Frame
<1>2. frames' = Append(frames, f)
  OBVIOUS
<1> HIDE DEF f
<1>3. /\ Len(frames') = Len(frames) + 1 /\ Len(frames) \in Nat
      /\ frames'[Len(frames) + 1] = f
      /\ \A k \in 1 .. Len(frames) : frames'[k] = frames[k]
  BY <1>1, <1>2 DEF TypeOK
<1>4. frames' # <<>>
  BY <1>3
<1>5. WireEnd' = WireEnd + HdrLen + SizeOf[m]
  BY <1>1, <1>3, <1>4 DEF WireEnd, FrameEnd
<1>6. SizeOf[m] \in Nat /\ HdrLen \in Nat /\ WireEnd \in Nat
  BY ConstAssumption, WireEndType
<1>7. WireEnd <= WireEnd' /\ WireEnd' \in Nat
  BY <1>5, <1>6
<1>8. \A k \in 1 .. Len(frames) + 1 : Start(k)' = Start(k)
  BY <1>3 DEF Start, FrameEnd
<1>9. ASSUME NEW k \in 1 .. Len(frames')
      PROVE  frames'[k].at = Start(k)' /\ FrameEnd(frames'[k]) <= WireEnd'
  <2>1. CASE k = Len(frames) + 1
    <3>1. Start(k) = WireEnd
      BY <2>1, <1>3, NextStart
    <3>2. FrameEnd(frames'[k]) = WireEnd'
      BY <2>1, <1>1, <1>3, <1>5 DEF FrameEnd
    <3> QED BY <2>1, <3>1, <3>2, <1>1, <1>3, <1>7, <1>8
  <2>2. CASE k # Len(frames) + 1
    <3>1. k \in 1 .. Len(frames)
      BY <2>2, <1>3
    <3>2. FrameEnd(frames[k]) \in Nat
      BY <3>1, FrameType
    <3> QED BY <3>1, <3>2, <1>3, <1>6, <1>7, <1>8 DEF FramesInv
  <2> QED BY <2>1, <2>2
<1>10. ASSUME NEW k \in 1 .. Len(frames'), NEW l \in 1 .. Len(frames'), k < l
       PROVE  FrameEnd(frames'[k]) <= frames'[l].at
  <2>1. k \in 1 .. Len(frames) /\ frames'[k] = frames[k]
    BY <1>3, <1>10
  <2>2. CASE l = Len(frames) + 1
    BY <2>1, <2>2, <1>1, <1>3 DEF FramesInv
  <2>3. CASE l # Len(frames) + 1
    BY <2>1, <2>3, <1>3, <1>10 DEF FramesInv
  <2> QED BY <2>2, <2>3
<1>11. FramesInv'
  BY <1>9, <1>10 DEF FramesInv, FrameEnd
<1> QED
  BY <1>3, <1>7, <1>8, <1>11

\* What an action that neither reads nor sends preserves: the stream, the loop
\* variables and the log are as before, and pc does not enter a read loop.
LEMMA NoReceive ==
  ASSUME TypeOK, FramingInv,
         UNCHANGED <<client, rd, recvVars, log>>,
         NoReadError' => NoReadError,
         pc' = pc \/ pc' \in {"execute", "respond", "chunks", "stats", "exit", "abort",
                              "sigfpe", "sigpipe"},
         pc' \in {"execute", "respond", "chunks"} => pc \in {"execute", "respond", "chunks"}
  PROVE  FramingInv'
<1> USE DEF client, recvVars
<1>1. FramesInv' /\ WireEnd' = WireEnd /\ \A k : Start(k)' = Start(k)
  BY SameFrames DEF FramingInv
<1>2. WireInv' /\ StartupInv'
  BY <1>1 DEF FramingInv, WireInv, StartupInv
<1>3. ASSUME NoReadError' PROVE Framing' /\ BoundaryInv'
  BY <1>1, <1>3 DEF FramingInv, ReceiveInv, Framing, BoundaryInv
<1>4. ASSUME NoReadError' PROVE HeaderInv'
  BY <1>1, <1>4 DEF FramingInv, ReceiveInv, HeaderInv
<1>5. ASSUME NoReadError' PROVE BodyInv'
  BY <1>1, <1>5 DEF FramingInv, ReceiveInv, BodyInv
<1> QED
  BY <1>1, <1>2, <1>3, <1>4, <1>5 DEF FramingInv, ReceiveInv

LEMMA FramingReadHeader ==
  ASSUME TypeOK, FramingInv, ReadHeader
  PROVE  FramingInv'
<1>1. PICK n \in 1 .. Least(HdrLen - i, written - rd) :
        header_bytes' = Stored(header_bytes, n) /\ i' = i + n /\ rd' = rd + n
  BY DEF ReadHeader
<1>0. HdrLen \in Nat /\ rd \in Nat /\ written \in Nat /\ i \in Nat
  BY ConstAssumption DEF TypeOK
<1>2. n \in Nat /\ i + n <= HdrLen /\ rd + n <= written
  BY <1>0, LeastType
<1>3. /\ pc = "header" /\ UNCHANGED <<frames, written, conn, pc, log>>
  BY DEF ReadHeader, client
<1>4. FramesInv' /\ WireEnd' = WireEnd /\ \A k : Start(k)' = Start(k)
  BY <1>3, SameFrames DEF FramingInv
<1>5. WireInv' /\ StartupInv'
  BY <1>1, <1>2, <1>3, <1>4 DEF FramingInv, WireInv, StartupInv, TypeOK
<1>6. ASSUME NoReadError' PROVE Framing' /\ HeaderInv' /\ BodyInv' /\ BoundaryInv'
  <2>1. Framing /\ HeaderInv /\ NoReadError
    BY <1>3, <1>6 DEF FramingInv, ReceiveInv, NoReadError
  <2>2. Framing'
    BY <1>3, <2>1 DEF Framing, NoReadError
  <2>3. Start(Len(log) + 1) \in Nat
    BY <2>1, NextStart DEF Framing, FramingInv, TypeOK
  <2>4. rd = Start(Len(log) + 1) + i /\ \A j \in HdrIdx : j < i => header_bytes[j] = Start(Len(log) + 1) + j
    BY <1>3, <2>1 DEF HeaderInv
  <2>5. ASSUME NEW j \in HdrIdx, j < i' PROVE header_bytes'[j] = Start(Len(log) + 1) + j
    <3>1. HdrIdx \in SUBSET Int /\ header_bytes \in [HdrIdx -> Int] /\ j >= 0
      BY <1>0 DEF HdrIdx, TypeOK
    <3> DEFINE start == Start(Len(log) + 1)
    <3>2. /\ start \in Int /\ rd = start + i
          /\ \A b \in HdrIdx : b < i => header_bytes[b] = start + b
      BY <2>3, <2>4
    <3> HIDE DEF start
    <3>3. header_bytes'[j] = start + j
      BY <1>0, <1>1, <1>2, <2>5, <3>1, <3>2, StoredPrefix
    <3> QED BY <3>3 DEF start
  <2>6. Start(Len(log) + 1)' = Start(Len(log) + 1)
    BY <1>3, <1>4
  <2>7. rd' = Start(Len(log) + 1) + i'
    BY <1>0, <1>1, <1>2, <2>3, <2>4
  <2>8. HeaderInv'
    BY <1>1, <1>2, <1>3, <2>5, <2>6, <2>7 DEF HeaderInv
  <2> QED BY <1>3, <2>2, <2>8 DEF BodyInv, BoundaryInv
<1> QED
  BY <1>4, <1>5, <1>6 DEF FramingInv, ReceiveInv

LEMMA FramingReadBody ==
  ASSUME TypeOK, FramingInv, ReadBody
  PROVE  FramingInv'
<1>0. package_size \in Nat /\ rd \in Nat /\ written \in Nat /\ i \in Nat
  BY ConstAssumption DEF TypeOK
<1>1. PICK n \in 1 .. Least(package_size - i, written - rd) :
        package_buffer' = Stored(package_buffer, n) /\ i' = i + n /\ rd' = rd + n
  BY DEF ReadBody
<1>2. n \in Nat /\ i + n <= package_size /\ rd + n <= written
  BY <1>0, LeastType
<1>3. /\ pc = "body" /\ UNCHANGED <<frames, written, conn, pc, package_size, log>>
  BY DEF ReadBody, client
<1>4. FramesInv' /\ WireEnd' = WireEnd
  BY <1>3, SameFrames DEF FramingInv
<1>5. WireInv' /\ StartupInv'
  BY <1>0, <1>1, <1>2, <1>3, <1>4 DEF FramingInv, WireInv, StartupInv
<1>6. ASSUME NoReadError' PROVE Framing' /\ HeaderInv' /\ BodyInv' /\ BoundaryInv'
  <2> DEFINE k == Len(log) + 1
  <2>1. Framing /\ BodyInv /\ NoReadError
    BY <1>3, <1>6 DEF FramingInv, ReceiveInv, NoReadError
  <2>2. Framing'
    BY <1>3, <2>1 DEF Framing, NoReadError
  <2>3. /\ k \in 1 .. Len(frames)
        /\ package_size = SizeOf[frames[k].msg]
        /\ rd = frames[k].at + HdrLen + i
        /\ \A j \in BufIdx : j < i => package_buffer[j] = frames[k].at + HdrLen + j
    <3>1. Len(log) \in Nat /\ Len(frames) \in Nat
      BY DEF TypeOK
    <3>2. /\ k <= Len(frames)
          /\ package_size = SizeOf[frames[k].msg]
          /\ rd = frames[k].at + HdrLen + i
          /\ \A j \in BufIdx : j < i => package_buffer[j] = frames[k].at + HdrLen + j
      BY <1>3, <2>1 DEF BodyInv
    <3> QED BY <3>1, <3>2
  <2>4. frames[k].at + HdrLen \in Nat
    BY <2>3, FrameType, ConstAssumption
  <2>5. ASSUME NEW j \in BufIdx, j < i' PROVE package_buffer'[j] = frames[k].at + HdrLen + j
    <3> HIDE DEF k
    <3>1. BufIdx \in SUBSET Int /\ package_buffer \in [BufIdx -> Int] /\ j >= 0
      BY ConstAssumption DEF BufIdx, TypeOK
    <3> DEFINE start == frames[k].at + HdrLen
    <3>2. /\ start \in Int /\ rd = start + i
          /\ \A b \in BufIdx : b < i => package_buffer[b] = start + b
      BY <2>3, <2>4
    <3> HIDE DEF start
    <3>3. package_buffer'[j] = start + j
      BY <1>0, <1>1, <1>2, <2>5, <3>1, <3>2, StoredPrefix
    <3> QED BY <3>3 DEF start
  <2>6. BodyInv'
    <3>1. rd' = frames[k].at + HdrLen + i'
      <4> DEFINE start == frames[k].at + HdrLen
      <4>1. start \in Int /\ rd = start + i
        BY <2>3, <2>4
      <4> HIDE DEF start
      <4>2. rd' = start + i'
        BY <1>0, <1>1, <1>2, <4>1
      <4> QED BY <4>2 DEF start
    <3>2. k' = k
      BY <1>3
    <3> QED BY <1>1, <1>2, <1>3, <2>3, <2>5, <3>1, <3>2 DEF BodyInv
  <2> QED BY <1>3, <2>2, <2>6 DEF HeaderInv, BoundaryInv
<1> QED
  BY <1>4, <1>5, <1>6 DEF FramingInv, ReceiveInv

\* While no read() failed, the header that is complete is that of the next frame.
LEMMA HeaderIsNext ==
  ASSUME TypeOK, FramingInv, HeaderDone, NoReadError, NEW k, k = Len(log) + 1
  PROVE  /\ k \in 1 .. Len(frames) /\ frames[k].at \in Nat
         /\ rd = frames[k].at + HdrLen
         /\ package_size' = SizeOf[frames[k].msg]
<1>1. pc = "header" /\ i >= HdrLen /\ package_size' \in HeaderValues
  BY DEF HeaderDone, HeaderComplete
<1>2. Framing /\ HeaderInv
  BY DEF FramingInv, ReceiveInv
<1>3. Len(log) \in 0 .. Len(frames) /\ Len(frames) \in Nat
  BY <1>2 DEF Framing, TypeOK
<1>4. /\ Start(k) \in Nat
      /\ Len(log) < Len(frames) => frames[k].at = Start(k)
      /\ Len(log) = Len(frames) => Start(k) = WireEnd
  BY <1>3, NextStart DEF FramingInv
<1>5. HdrLen \in Nat \ {0} /\ i = HdrLen
  BY <1>1, <1>2, ConstAssumption DEF HeaderInv, TypeOK
<1>6. rd = Start(k) + HdrLen /\ \A j \in HdrIdx : header_bytes[j] = Start(k) + j
  BY <1>1, <1>2, <1>5 DEF HeaderInv, HdrIdx
<1>7. Len(log) < Len(frames)
  <2>1. rd <= WireEnd
    BY WireEndType DEF FramingInv, WireInv, TypeOK
  <2> QED BY <1>3, <1>4, <1>5, <1>6, <2>1
<1>8. k \in 1 .. Len(frames) /\ frames[k].at = Start(k)
  BY <1>3, <1>4, <1>7
<1>9. HeaderFrames = {k}
  <2>1. k \in HeaderFrames
    BY <1>6, <1>8 DEF HeaderFrames
  <2>2. ASSUME NEW l \in HeaderFrames PROVE l = k
    <3>1. 0 \in HdrIdx
      BY <1>5 DEF HdrIdx
    <3>2. l \in 1 .. Len(frames) /\ header_bytes[0] = frames[l].at + 0
      BY <3>1 DEF HeaderFrames
    <3>3. frames[l].at \in Nat
      BY <3>2, FrameType
    <3>4. frames[l].at = frames[k].at
      BY <1>4, <1>6, <1>8, <3>1, <3>2, <3>3
    <3> QED BY <1>8, <3>2, <3>4, StartsDiffer DEF FramingInv
  <2> QED BY <2>1, <2>2
<1>10. package_size' = SizeOf[frames[k].msg]
  BY <1>1, <1>9 DEF HeaderValues
<1> QED
  BY <1>4, <1>6, <1>8, <1>10

LEMMA FramingHeaderDone ==
  ASSUME TypeOK, FramingInv, HeaderDone
  PROVE  FramingInv'
<1>1. /\ pc = "header"
      /\ pc' = "stats" \/ (pc' = "body" /\ i' = 0)
      /\ UNCHANGED <<frames, written, conn, rd, header_bytes, log>>
  BY DEF HeaderDone, client
<1>2. FramesInv' /\ WireEnd' = WireEnd
  BY <1>1, SameFrames DEF FramingInv
<1>3. WireInv' /\ StartupInv'
  BY <1>1, <1>2 DEF FramingInv, WireInv, StartupInv
<1>4. ASSUME NoReadError' PROVE Framing' /\ HeaderInv' /\ BodyInv' /\ BoundaryInv'
  <2> DEFINE k == Len(log) + 1
  <2>1. Framing /\ NoReadError
    BY <1>1, <1>4 DEF FramingInv, ReceiveInv, NoReadError
  <2>2. Framing'
    BY <1>1, <2>1 DEF Framing, NoReadError
  <2>3. /\ k \in 1 .. Len(frames) /\ frames[k].at \in Nat /\ rd = frames[k].at + HdrLen
        /\ package_size' = SizeOf[frames[k].msg]
    BY <2>1, HeaderIsNext
  <2> HIDE DEF k
  <2>4. BodyInv'
    <3> SUFFICES ASSUME pc' = "body" PROVE BodyInv'
      BY DEF BodyInv
    <3>1. k' = k
      BY <1>1 DEF k
    <3>2. i' = 0 /\ package_size' \in Nat
      BY <1>1, <2>3, FrameType
    <3>3. rd' = frames[k].at + HdrLen + 0
      BY <1>1, <2>3, ConstAssumption
    <3>4. ASSUME NEW j \in BufIdx PROVE ~(j < 0)
      BY ConstAssumption DEF BufIdx
    <3> QED BY <1>1, <2>3, <3>1, <3>2, <3>3, <3>4 DEF BodyInv, k
  <2> QED BY <1>1, <2>2, <2>4 DEF HeaderInv, BoundaryInv
<1> QED
  BY <1>2, <1>3, <1>4 DEF FramingInv, ReceiveInv

LEMMA FramingBodyDone ==
  ASSUME TypeOK, FramingInv, BodyDone
  PROVE  FramingInv'
<1>1. PICK m \in Packages : pc' \in NextAfter(m) /\ log' = Append(log, m)
  BY DEF BodyDone
<1>2. /\ pc = "body" /\ i >= package_size /\ i' = 0
      /\ UNCHANGED <<frames, written, conn, rd>>
  BY DEF BodyDone, BodyComplete, client
<1>3. m \in AnyPackage
  BY FrameType DEF Packages, BodyFrames, AnyPackage
<1>4. pc' \in {"header", "execute", "stats"}
  BY <1>1, <1>3, ConstAssumption DEF NextAfter, Kinds, AnyPackage
<1>5. FramesInv' /\ WireEnd' = WireEnd /\ \A k : Start(k)' = Start(k)
  BY <1>2, SameFrames DEF FramingInv
<1>6. WireInv' /\ StartupInv'
  BY <1>2, <1>4, <1>5 DEF FramingInv, WireInv, StartupInv
<1>7. ASSUME NoReadError' PROVE Framing' /\ HeaderInv' /\ BodyInv' /\ BoundaryInv'
  <2> DEFINE k == Len(log) + 1
  <2>1. Framing /\ BodyInv /\ NoReadError
    BY <1>2, <1>7 DEF FramingInv, ReceiveInv, NoReadError
  <2>2. /\ k \in 1 .. Len(frames) /\ Len(log) \in Nat
        /\ package_size = SizeOf[frames[k].msg]
        /\ i = package_size
        /\ rd = frames[k].at + HdrLen + package_size
        /\ \A j \in BufIdx : j < package_size => package_buffer[j] = frames[k].at + HdrLen + j
    <3>1. package_size \in Nat /\ i \in Nat
      BY ConstAssumption DEF TypeOK
    <3> QED BY <1>2, <2>1, <3>1 DEF BodyInv, TypeOK
  <2>3. package_size \in Nat \ {0} /\ package_size <= BufLen /\ frames[k].at \in Nat
    BY <1>2, <2>2, FrameType DEF TypeOK
  <2> HIDE DEF k
  <2>4. BodyFrames = {k}
    <3>1. k \in BodyFrames
      BY <2>2 DEF BodyFrames
    <3>2. ASSUME NEW l \in BodyFrames PROVE l = k
      <4>1. 0 \in BufIdx /\ 0 < package_size
        BY <2>3, ConstAssumption DEF BufIdx
      <4>2. l \in 1 .. Len(frames) /\ package_buffer[0] = frames[l].at + HdrLen + 0
        BY <4>1 DEF BodyFrames
      <4>3. frames[l].at \in Nat
        BY <4>2, FrameType
      <4>4. package_buffer[0] = frames[k].at + HdrLen + 0
        BY <2>2, <4>1
      <4>5. frames[l].at = frames[k].at
        BY <2>3, <4>2, <4>3, <4>4, ConstAssumption
      <4> QED BY <2>2, <4>2, <4>5, StartsDiffer DEF FramingInv
    <3> QED BY <3>1, <3>2
  <2>5. m = frames[k].msg
    BY <2>4 DEF Packages
  <2>6. Len(log') = k /\ log'[k] = m /\ \A j \in 1 .. Len(log) : log'[j] = log[j]
    BY <1>1, <1>3, <2>2 DEF TypeOK, k
  <2>7. Framing'
    <3>1. ASSUME NEW j \in 1 .. Len(log') PROVE log'[j] = frames[j].msg
      <4>1. CASE j = k
        BY <4>1, <2>5, <2>6
      <4>2. CASE j # k
        <5>1. j \in 1 .. Len(log)
          BY <4>2, <2>2, <2>6 DEF k
        <5> QED BY <5>1, <2>1, <2>6 DEF Framing
      <4> QED BY <4>1, <4>2
    <3> QED BY <1>2, <2>2, <2>6, <3>1 DEF Framing
  <2>8. rd' = Start(Len(log) + 1)'
    <3>1. Len(log') + 1 # 1 /\ Len(log') + 1 - 1 = k
      BY <2>2, <2>6
    <3>2. FrameEnd(frames[k]) = rd
      BY <2>2 DEF FrameEnd
    <3> QED BY <1>2, <3>1, <3>2 DEF Start, FrameEnd
  <2>9. rd' = Start(Len(log) + 1)' + 0
    BY <1>2, <2>8 DEF TypeOK
  <2>10. HeaderInv' /\ BoundaryInv'
    <3>1. ASSUME NEW j \in HdrIdx PROVE ~(j < 0)
      BY ConstAssumption DEF HdrIdx
    <3>2. 0 <= HdrLen
      BY ConstAssumption
    <3> QED BY <1>2, <2>8, <2>9, <3>1, <3>2 DEF HeaderInv, BoundaryInv
  <2> QED BY <1>4, <2>7, <2>10 DEF BodyInv
<1> QED
  BY <1>5, <1>6, <1>7 DEF FramingInv, ReceiveInv

LEMMA FramingClientSend ==
  ASSUME TypeOK, FramingInv, NEW m \in Msgs, ClientSend(m)
  PROVE  FramingInv'
<1>1. /\ frames' = Append(frames, [msg |-> m, at |-> WireEnd])
      /\ UNCHANGED <<written, conn, rd, pc, i, header_bytes, package_size, package_buffer, log>>
  BY DEF ClientSend, recvVars
<1>2. /\ FramesInv' /\ WireEnd <= WireEnd' /\ Len(frames') = Len(frames) + 1
      /\ \A k \in 1 .. Len(frames) : frames'[k] = frames[k]
      /\ \A k \in 1 .. Len(frames) + 1 : Start(k)' = Start(k)
  BY <1>1, NewFrame DEF FramingInv
<1>3. WireEnd \in Nat /\ WireEnd' \in Nat /\ Len(frames) \in Nat /\ Len(log) \in Nat
  BY <1>1, NewFrame, WireEndType DEF FramingInv, TypeOK
<1>4. WireInv' /\ StartupInv'
  BY <1>1, <1>2, <1>3 DEF FramingInv, WireInv, StartupInv, TypeOK
<1>5. ASSUME NoReadError' PROVE Framing' /\ HeaderInv' /\ BodyInv' /\ BoundaryInv'
  <2>1. Framing /\ HeaderInv /\ BodyInv /\ BoundaryInv /\ NoReadError
    BY <1>1, <1>5 DEF FramingInv, ReceiveInv, NoReadError
  <2>2. Len(log) <= Len(frames) /\ \A k \in 1 .. Len(log) : log[k] = frames[k].msg
    BY <2>1 DEF Framing
  <2>3. Framing'
    BY <1>1, <1>2, <1>3, <2>2 DEF Framing
  <2>4. Start(Len(log) + 1)' = Start(Len(log) + 1)
    <3>1. Len(log) + 1 \in 1 .. Len(frames) + 1
      BY <1>3, <2>2
    <3> QED BY <1>1, <1>2, <3>1
  <2>5. HeaderInv' /\ BoundaryInv'
    BY <1>1, <2>1, <2>4 DEF HeaderInv, BoundaryInv
  <2>6. BodyInv'
    <3> SUFFICES ASSUME pc = "body" PROVE BodyInv'
      BY <1>1 DEF BodyInv
    <3>1. Len(log) + 1 \in 1 .. Len(frames)
      BY <1>3, <2>1 DEF BodyInv
    <3>2. frames'[Len(log) + 1] = frames[Len(log) + 1]
      BY <1>2, <3>1
    <3> QED BY <1>1, <1>2, <1>3, <2>1, <3>1, <3>2 DEF BodyInv
  <2> QED BY <2>3, <2>5, <2>6
<1> QED
  BY <1>2, <1>4, <1>5 DEF FramingInv, ReceiveInv

LEMMA FramingInvariant == Spec => []FramingInv
<1>1. Init => FramingInv
  BY ConstAssumption DEF Init, FramingInv, FramesInv, WireInv, WireEnd, StartupInv, ReceiveInv,
     Framing, HeaderInv, BodyInv, BoundaryInv
<1>2. TypeOK /\ FramingInv /\ [Next]_vars => FramingInv'
  <2> SUFFICES ASSUME TypeOK, FramingInv, [Next]_vars PROVE FramingInv'
    OBVIOUS
  <2>1. ASSUME NEW m \in Msgs, ClientSend(m) PROVE FramingInv'
    BY <2>1, FramingClientSend
  <2>2. CASE Deliver
    <3>1. /\ written' \in (written + 1) .. WireEnd
          /\ UNCHANGED <<frames, conn, rd, pc, i, header_bytes, package_size, package_buffer, log>>
      BY <2>2 DEF Deliver, recvVars
    <3>2. FramesInv' /\ WireEnd' = WireEnd /\ \A k : Start(k)' = Start(k)
      BY <3>1, SameFrames DEF FramingInv
    <3>3. WireInv' /\ StartupInv'
      BY <3>1, <3>2, WireEndType DEF FramingInv, WireInv, StartupInv, TypeOK
    <3>4. NoReadError' => Framing' /\ BoundaryInv'
      BY <3>1, <3>2 DEF FramingInv, ReceiveInv, Framing, BoundaryInv, NoReadError
    <3>5. NoReadError' => HeaderInv' /\ BodyInv'
      BY <3>1, <3>2 DEF FramingInv, ReceiveInv, HeaderInv, BodyInv, NoReadError
    <3> QED BY <3>2, <3>3, <3>4, <3>5 DEF FramingInv, ReceiveInv
  <2>3. CASE ClientClose \/ ClientReset
    BY <2>3, NoReceive DEF ClientClose, ClientReset, NoReadError
  <2>4. CASE Listen \/ Accept \/ OpenDB
    <3>1. /\ UNCHANGED <<client, rd, recvVars, log>>
          /\ pc \in {"listen", "accept", "opendb"}
          /\ pc' \in {"accept", "opendb", "header", "abort"}
      BY <2>4 DEF Listen, Accept, OpenDB
    <3>2. frames' = frames /\ written' = written /\ log = <<>> /\ rd = 0 /\ i = 0 /\ rd' = rd /\ i' = i /\ log' = log
      BY <3>1 DEF client, recvVars, FramingInv, StartupInv
    <3>3. FramesInv' /\ WireEnd' = WireEnd
      BY <3>2, SameFrames DEF FramingInv
    <3>4. WireInv' /\ StartupInv'
      BY <3>1, <3>2, <3>3 DEF FramingInv, WireInv, StartupInv
    <3>5. Framing'
      BY <3>2 DEF TypeOK, Framing
    <3>6. Start(Len(log) + 1)' = 0
      BY <3>2 DEF Start
    <3>7. HeaderInv' /\ BodyInv' /\ BoundaryInv'
      BY <3>1, <3>2, <3>6, ConstAssumption DEF HeaderInv, BodyInv, BoundaryInv, HdrIdx
    <3> QED BY <3>3, <3>4, <3>5, <3>7 DEF FramingInv, ReceiveInv
  <2>5. CASE ReadHeader
    BY <2>5, FramingReadHeader
  <2>6. CASE HeaderDone
    BY <2>6, FramingHeaderDone
  <2>7. CASE ReadBody
    BY <2>7, FramingReadBody
  <2>8. CASE BodyDone
    BY <2>8, FramingBodyDone
  <2>9. CASE ReadError
    <3>1. /\ UNCHANGED <<frames, written, rd, pc, log>> /\ ~NoReadError'
          /\ pc \in {"header", "body"}
      BY <2>9 DEF ReadError, ReadFails, AfterError, NoReadError, client
    <3>2. FramesInv' /\ WireEnd' = WireEnd
      BY <3>1, SameFrames DEF FramingInv
    <3> QED BY <3>1, <3>2 DEF FramingInv, WireInv, StartupInv, ReceiveInv
  <2>10. CASE ReadEof \/ UNCHANGED vars
    BY <2>10, NoReceive DEF ReadEof, vars, client, recvVars, NoReadError
  <2>11. CASE Execute \/ SendHeader \/ SendChunk
    BY <2>11, NoReceive DEF Execute, SendHeader, SendChunk, NoReadError
  <2>12. CASE SendError
    BY <2>12, NoReceive DEF SendError, WriteFails, WriteErrorPcs, AfterError, NoReadError
  <2>13. CASE Responded
    <3>1. /\ pc = "chunks" /\ pc' = "header" /\ NoReadError' = NoReadError
          /\ UNCHANGED <<frames, written, rd, i, header_bytes, log>>
      BY <2>13 DEF Responded, client, recvVars, NoReadError
    <3>2. FramesInv' /\ WireEnd' = WireEnd /\ \A k : Start(k)' = Start(k)
      BY <3>1, SameFrames DEF FramingInv
    <3>3. WireInv' /\ StartupInv'
      BY <3>1, <3>2 DEF FramingInv, WireInv, StartupInv
    <3>4. ASSUME NoReadError' PROVE Framing' /\ HeaderInv' /\ BodyInv' /\ BoundaryInv'
      <4>1. Framing /\ BoundaryInv /\ NoReadError
        BY <3>1, <3>4 DEF FramingInv, ReceiveInv
      <4>2. Framing'
        BY <3>1, <4>1 DEF Framing
      <4>3. rd' = Start(Len(log) + 1)' /\ i' = 0
        BY <3>1, <3>2, <4>1 DEF BoundaryInv
      <4>4. rd' \in Nat
        BY <3>1 DEF TypeOK
      <4>5. HeaderInv'
        BY <3>1, <4>3, <4>4, ConstAssumption DEF HeaderInv, HdrIdx
      <4> QED BY <3>1, <4>2, <4>5 DEF BodyInv, BoundaryInv
    <3> QED BY <3>2, <3>3, <3>4 DEF FramingInv, ReceiveInv
  <2>14. CASE PrintStats
    BY <2>14, NoReceive DEF PrintStats, NoReadError
  <2> QED
    BY <2>1, <2>2, <2>3, <2>4, <2>5, <2>6, <2>7, <2>8, <2>9, <2>10, <2>11, <2>12, <2>13, <2>14
    DEF Next, Client, Server
<1> QED
  BY <1>1, <1>2, TypeCorrect, PTL DEF Spec

\* Whatever the pieces in which TCP delivers the stream and however far ahead
\* the client sends, receive() decides on the client's packages, all of them,
\* in order, until a read() fails.
THEOREM FramingCorrect == Spec => []Framing
<1>1. FramingInv => Framing
  BY DEF FramingInv, ReceiveInv, Framing
<1> QED
  BY <1>1, FramingInvariant, PTL

-----------------------------------------------------------------------------
(***************************************************************************)
(* The counter.  The loop of main() and respond() together keep: every     *)
(* response but the last is complete; in the chunk loop the last one has   *)
(* announced what it has sent and still has to send; a response that was   *)
(* not counted is one that failed with bytes left.                         *)
(***************************************************************************)
FullUpTo(n) == \A k \in 1 .. n : out[k].body = out[k].total

CounterInv ==
  /\ FullUpTo(opcounter)
  /\ pc \in {"listen", "accept", "opendb", "header", "body", "execute", "respond"} =>
       Len(out) = opcounter
  /\ pc = "chunks" => /\ Len(out) = opcounter + 1
                      /\ out[Len(out)].body + bytes = out[Len(out)].total
  /\ pc \in {"stats", "exit", "sigfpe", "sigpipe", "abort"} =>
       \/ Len(out) = opcounter
       \/ Len(out) = opcounter + 1 /\ out[Len(out)].body # out[Len(out)].total

LEMMA OutType ==
  ASSUME TypeOK, NEW k \in 1 .. Len(out)
  PROVE  out[k] \in Response /\ out[k].body \in Nat /\ out[k].total \in Nat
<1>1. out[k] \in Response
  BY DEF TypeOK
<1> QED
  BY <1>1 DEF Response

LEMMA CounterInvariant == Spec => []CounterInv
<1>1. Init => CounterInv
  BY DEF Init, CounterInv, FullUpTo
<1>2. TypeOK /\ CounterInv /\ [Next]_vars => CounterInv'
  <2> SUFFICES ASSUME TypeOK, CounterInv, [Next]_vars PROVE CounterInv'
    OBVIOUS
  <2>1. CASE UNCHANGED <<out, opcounter, bytes, pc>>
    BY <2>1 DEF CounterInv, FullUpTo
  <2>2. ASSUME UNCHANGED <<out, opcounter>>,
               pc \in {"listen", "accept", "opendb", "header", "body", "execute", "respond", "stats"},
               pc' \in Pcs \ {"chunks"},
               pc = "stats" => pc' \in {"exit", "sigfpe"}
        PROVE  CounterInv'
    BY <2>2 DEF CounterInv, FullUpTo, Pcs
  <2>3. CASE SendHeader
    <3> DEFINE r == [total |-> bytes, body |-> 0]
    <3>1. r \in Response /\ r.total = bytes /\ r.body = 0
      BY DEF TypeOK, Response
    <3>2. pc = "respond" /\ pc' = "chunks" /\ out' = Append(out, r) /\ UNCHANGED <<bytes, opcounter>>
      BY <2>3 DEF SendHeader
    <3> HIDE DEF r
    <3>3. /\ Len(out') = Len(out) + 1 /\ out'[Len(out')] = r
          /\ \A k \in 1 .. Len(out) : out'[k] = out[k]
      BY <3>1, <3>2 DEF TypeOK
    <3>4. bytes \in Nat /\ opcounter \in Nat /\ Len(out) = opcounter
      BY <3>2 DEF TypeOK, CounterInv
    <3>5. FullUpTo(opcounter)'
      BY <3>2, <3>3, <3>4 DEF CounterInv, FullUpTo
    <3> QED BY <3>1, <3>2, <3>3, <3>4, <3>5 DEF CounterInv
  <2>4. CASE SendChunk
    <3> DEFINE r == [total |-> out[Len(out)].total, body |-> out[Len(out)].body + Amount]
    <3>1. pc = "chunks" /\ pc' = pc /\ out' = [out EXCEPT ![Len(out)] = r]
          /\ bytes' = bytes - Amount /\ opcounter' = opcounter
      BY <2>4 DEF SendChunk
    <3>2. Len(out) \in 1 .. Len(out) /\ Len(out) = opcounter + 1 /\ opcounter \in Nat /\ bytes \in Nat
      BY <3>1 DEF TypeOK, CounterInv
    <3>3. Amount \in Nat
      BY ConstAssumption DEF Amount, Least, TypeOK
    <3>4. out[Len(out)].body \in Nat /\ out[Len(out)].total \in Nat
      BY <3>2, OutType
    <3>5. r.body + (bytes - Amount) = r.total
      BY <3>1, <3>2, <3>3, <3>4 DEF CounterInv
    <3> HIDE DEF r
    <3>6. /\ Len(out') = Len(out) /\ out'[Len(out)] = r
          /\ \A k \in 1 .. Len(out) : k # Len(out) => out'[k] = out[k]
      BY <3>1, <3>2 DEF TypeOK
    <3>7. FullUpTo(opcounter)'
      BY <3>1, <3>2, <3>6 DEF CounterInv, FullUpTo
    <3> QED BY <3>1, <3>2, <3>5, <3>6, <3>7 DEF CounterInv
  <2>5. CASE SendError
    <3>1. /\ UNCHANGED <<out, opcounter, bytes>>
          /\ pc = "respond" \/ (pc = "chunks" /\ bytes > 0)
          /\ pc' \in {"stats", "sigpipe"}
      BY <2>5 DEF SendError, WriteErrorPcs, sendVars
    <3>2. CASE pc = "chunks"
      <4>1. Len(out) \in 1 .. Len(out) /\ bytes \in Nat
        BY <3>2 DEF TypeOK
      <4>2. out[Len(out)].body \in Nat /\ out[Len(out)].total \in Nat
        BY <4>1, OutType
      <4>3. out[Len(out)].body # out[Len(out)].total
        BY <3>1, <3>2, <4>1, <4>2 DEF CounterInv
      <4> QED BY <3>1, <3>2, <4>3 DEF CounterInv, FullUpTo
    <3>3. CASE pc = "respond"
      BY <3>1, <3>3 DEF CounterInv, FullUpTo
    <3> QED BY <3>1, <3>2, <3>3
  <2>6. CASE Responded
    <3>1. pc = "chunks" /\ pc' = "header" /\ bytes = 0 /\ opcounter' = opcounter + 1 /\ out' = out
      BY <2>6 DEF Responded
    <3>2. Len(out) \in 1 .. Len(out) /\ Len(out) = opcounter + 1 /\ opcounter \in Nat
      BY <3>1 DEF TypeOK, CounterInv
    <3>3. out[Len(out)].body = out[Len(out)].total
      BY <3>1, <3>2, OutType DEF CounterInv
    <3>4. FullUpTo(opcounter)'
      BY <3>1, <3>2, <3>3 DEF CounterInv, FullUpTo
    <3> QED BY <3>1, <3>2, <3>4 DEF CounterInv
  <2>7. ASSUME NEW m \in Msgs, ClientSend(m) PROVE CounterInv'
    BY <2>1, <2>7 DEF ClientSend, sendVars
  <2>8. CASE Deliver \/ ClientClose \/ ClientReset \/ ReadHeader \/ ReadBody \/ ReadError \/ ReadEof
    BY <2>1, <2>8 DEF Deliver, ClientClose, ClientReset, ReadHeader, ReadBody, ReadError,
       ReadEof, sendVars, vars
  <2>9. CASE Listen \/ Accept \/ OpenDB \/ HeaderDone \/ Execute \/ PrintStats
    BY <2>2, <2>9 DEF Listen, Accept, OpenDB, HeaderDone, Execute, PrintStats, sendVars, Pcs
  <2>10. CASE BodyDone
    <3>1. PICK m \in Packages : pc' \in NextAfter(m)
      BY <2>10 DEF BodyDone
    <3>2. m \in AnyPackage
      BY FrameType DEF Packages, BodyFrames, AnyPackage
    <3>3. pc' \in {"header", "execute", "stats"}
      BY <3>1, <3>2, ConstAssumption DEF NextAfter, Kinds, AnyPackage
    <3> QED BY <2>2, <2>10, <3>3 DEF BodyDone, sendVars, Pcs
  <2>11. CASE UNCHANGED vars
    BY <2>1, <2>11 DEF vars
  <2> QED
    BY <2>3, <2>4, <2>5, <2>6, <2>7, <2>8, <2>9, <2>10, <2>11 DEF Next, Client, Server
<1> QED
  BY <1>1, <1>2, TypeCorrect, PTL DEF Spec

\* opcounter counts exactly the responses that were sent completely, whatever
\* the sizes of the results and of the chunks and wherever respond() fails.
THEOREM CounterCorrect == Spec => []CounterIsComplete
<1>1. TypeOK /\ CounterInv => CounterIsComplete
  BY DEF CounterInv, FullUpTo, CounterIsComplete, TypeOK
<1> QED
  BY <1>1, TypeCorrect, CounterInvariant, PTL

-----------------------------------------------------------------------------
(***************************************************************************)
(* The packages that have to be answered.  Ops is a recursive function of  *)
(* the length; what it returns is found by induction on it.                *)
(***************************************************************************)
\* Every set of numbers has a least one.
LEMMA LeastNatural ==
  ASSUME NEW T, T \subseteq Nat, T # {}
  PROVE  \E n \in T : \A m \in T : n <= m
<1> DEFINE Before == OpToRel(<, Nat)
<1>1. IsWellFoundedOn(Before, Nat)
  BY NatLessThanWellFounded
<1>2. \A x, y \in Nat : x < y => <<x, y>> \in Before
  BY SMT DEF OpToRel
<1> HIDE DEF Before
<1>3. PICK n \in T : \A m \in T : ~(<<m, n>> \in Before)
  BY <1>1, WFMin
<1>4. \A m \in T : ~(m < n)
  BY <1>2, <1>3
<1>5. \A m \in T : n <= m
  BY ONLY <1>4, T \subseteq Nat, n \in T, SMT
<1> QED BY <1>5

\* A set of numbers with 0 and the successor of each of its elements below n holds 0 .. n.
LEMMA Upwards ==
  ASSUME NEW n \in Nat, NEW S, 0 \in S, \A k \in 0 .. n - 1 : k \in S => k + 1 \in S
  PROVE  0 .. n \subseteq S
<1> DEFINE T == {k \in 0 .. n : k \notin S}
<1> SUFFICES ASSUME T # {} PROVE FALSE
  OBVIOUS
<1>0. T \subseteq Nat
  OBVIOUS
<1>1. PICK k \in T : \A m \in T : k <= m
  BY <1>0, LeastNatural
<1>2. k \in 0 .. n /\ k \notin S /\ k # 0
  BY <1>1
<1>3. PICK j \in 0 .. n - 1 : j + 1 = k /\ j < k /\ j \in 0 .. n
  <2>1. k - 1 \in 0 .. n - 1 /\ (k - 1) + 1 = k /\ k - 1 < k /\ k - 1 \in 0 .. n
    BY <1>2
  <2> QED BY <2>1
<1>4. j \notin T
  BY <1>1, <1>3
<1>5. j \in S
  BY <1>3, <1>4
<1> QED BY <1>2, <1>3, <1>5

\* f[k]: the packages among the first k of s that have to be answered.
Picked(s, f) ==
  /\ f \in [0 .. Len(s) -> Seq(AnyPackage)]
  /\ f[0] = <<>>
  /\ \A k \in 1 .. Len(s) : f[k] = IF IsOp(s[k]) THEN Append(f[k - 1], s[k]) ELSE f[k - 1]

\* The definition of the function in Ops.
Picking(s, f) ==
  f = [k \in 0 .. Len(s) |->
         IF k = 0 THEN <<>> ELSE IF IsOp(s[k]) THEN Append(f[k - 1], s[k]) ELSE f[k - 1]]

LEMMA PickedGrows ==
  ASSUME NEW s \in Seq(AnyPackage), NEW m \in AnyPackage, NEW f, Picked(s, f)
  PROVE  \E g : /\ Picked(Append(s, m), g)
                /\ g[Len(s)] = f[Len(s)]
                /\ g[Len(s) + 1] = IF IsOp(m) THEN Append(f[Len(s)], m) ELSE f[Len(s)]
<1> DEFINE t == Append(s, m)
<1>1. PICK n \in Nat : n = Len(s)
  BY LenProperties
<1>2. Len(t) = n + 1 /\ t[n + 1] = m /\ \A k \in 1 .. n : t[k] = s[k]
  BY <1>1, AppendProperties
<1> HIDE DEF t
<1> DEFINE new == IF IsOp(m) THEN Append(f[n], m) ELSE f[n]
           g == [k \in 0 .. n + 1 |-> IF k <= n THEN f[k] ELSE new]
<1>3. /\ \A k \in 0 .. n : f[k] \in Seq(AnyPackage)
      /\ f[0] = <<>> /\ n \in 0 .. n
      /\ \A k \in 1 .. n : f[k] = IF IsOp(s[k]) THEN Append(f[k - 1], s[k]) ELSE f[k - 1]
  BY <1>1 DEF Picked
<1>4. new \in Seq(AnyPackage)
  BY <1>3, AppendProperties
<1> HIDE DEF new
<1>5. /\ \A k \in 0 .. n : g[k] = f[k]
      /\ g[n + 1] = new
      /\ g \in [0 .. n + 1 -> Seq(AnyPackage)]
  BY <1>3, <1>4
<1> HIDE DEF g
<1>6. ASSUME NEW k \in 1 .. n + 1 PROVE g[k] = IF IsOp(t[k]) THEN Append(g[k - 1], t[k]) ELSE g[k - 1]
  <2>1. CASE k = n + 1
    <3>1. k - 1 = n
      BY <2>1
    <3>2. g[n] = f[n]
      BY <1>3, <1>5, Zenon
    <3> QED BY <1>2, <1>5, <2>1, <3>1, <3>2, Zenon DEF new
  <2>2. CASE k # n + 1
    <3>1. k \in 1 .. n /\ k \in 0 .. n /\ k - 1 \in 0 .. n
      BY <2>2
    <3>2. g[k] = f[k] /\ g[k - 1] = f[k - 1] /\ t[k] = s[k]
      BY <1>2, <1>5, <3>1, Zenon
    <3> QED BY <1>3, <3>1, <3>2, Zenon
  <2> QED BY <2>1, <2>2
<1>7. g[0] = <<>> /\ 0 \in 0 .. n
  BY <1>3, <1>5
<1>8. Picked(t, g)
  BY <1>2, <1>5, <1>6, <1>7, Zenon DEF Picked
<1> QED BY <1>1, <1>3, <1>5, <1>8, Zenon DEF new, t

LEMMA PickedExists ==
  ASSUME NEW s \in Seq(AnyPackage)
  PROVE  \E f : Picked(s, f)
<1> DEFINE n == Len(s)
           S == {k \in 0 .. n : \E f : Picked(SubSeq(s, 1, k), f)}
<1>0. n \in Nat /\ SubSeq(s, 1, n) = s
  BY LenProperties, SubSeqFull
<1>1. 0 \in S
  <2> DEFINE f == [k \in 0 .. 0 |-> <<>>]
  <2>1. SubSeq(s, 1, 0) = <<>> /\ Len(<<>>) = 0
    BY SubSeqEmpty
  <2>2. Picked(<<>>, f)
    <3>1. f \in [0 .. 0 -> Seq(AnyPackage)] /\ f[0] = <<>> /\ 1 .. 0 = {}
      OBVIOUS
    <3> QED BY <2>1, <3>1, Zenon DEF Picked
  <2>3. 0 \in 0 .. n
    BY <1>0
  <2> HIDE DEF f
  <2> QED BY <2>1, <2>2, <2>3, Zenon
<1>2. ASSUME NEW k \in 0 .. n - 1, k \in S PROVE k + 1 \in S
  <2> DEFINE t == SubSeq(s, 1, k)
             m == s[k + 1]
  <2>1. k + 1 \in 1 .. n /\ k + 1 \in 0 .. n
    BY <1>0
  <2>2. m \in AnyPackage /\ t \in Seq(AnyPackage) /\ SubSeq(s, 1, k + 1) = Append(t, m)
    BY <1>0, <2>1, ElementOfSeq, SubSeqProperties
  <2>3. PICK f : Picked(t, f)
    BY <1>2
  <2> HIDE DEF t, m
  <2>4. \E g : Picked(Append(t, m), g)
    BY <2>2, <2>3, PickedGrows
  <2> QED BY <2>1, <2>2, <2>4
<1> HIDE DEF S
<1>3. 0 .. n \subseteq S
  BY <1>0, <1>1, <1>2, Upwards
<1>4. n \in S
  BY <1>0, <1>3
<1> QED BY <1>0, <1>4 DEF S

\* Whatever function Ops takes, it is the one that was exhibited.
LEMMA OpsIs ==
  ASSUME NEW s \in Seq(AnyPackage), NEW g, Picked(s, g)
  PROVE  Ops(s) = g[Len(s)]
<1> DEFINE n == Len(s)
           f == CHOOSE h : Picking(s, h)
<1>0. n \in Nat
  BY LenProperties
<1>1. Ops(s) = f[n]
  BY DEF Ops, Picking
<1>2. Picking(s, g)
  <2>1. ASSUME NEW k \in 0 .. n
        PROVE  g[k] = IF k = 0 THEN <<>> ELSE IF IsOp(s[k]) THEN Append(g[k - 1], s[k]) ELSE g[k - 1]
    <3>1. k = 0 \/ k \in 1 .. n
      BY <1>0
    <3> QED BY <3>1 DEF Picked
  <2>2. g = [k \in 0 .. n |-> g[k]]
    BY DEF Picked
  <2> QED BY <2>1, <2>2, Zenon DEF Picking
<1>3. Picking(s, f)
  BY <1>2
<1> HIDE DEF f
<1>4. /\ f[0] = <<>>
      /\ \A k \in 1 .. n : f[k] = IF IsOp(s[k]) THEN Append(f[k - 1], s[k]) ELSE f[k - 1]
  <2>1. \A k \in 0 .. n :
          f[k] = IF k = 0 THEN <<>> ELSE IF IsOp(s[k]) THEN Append(f[k - 1], s[k]) ELSE f[k - 1]
    BY <1>3, Zenon DEF Picking
  <2>2. 0 \in 0 .. n /\ \A k \in 1 .. n : k \in 0 .. n /\ k # 0
    BY <1>0
  <2> QED BY <2>1, <2>2, Zenon
<1> DEFINE S == {k \in 0 .. n : f[k] = g[k]}
<1>5. 0 \in S
  BY <1>0, <1>4 DEF Picked
<1>6. ASSUME NEW k \in 0 .. n - 1, k \in S PROVE k + 1 \in S
  <2>1. PICK j \in 1 .. n : j = k + 1 /\ j - 1 = k /\ j \in 0 .. n
    <3>1. k + 1 \in 1 .. n /\ (k + 1) - 1 = k /\ k + 1 \in 0 .. n
      BY <1>0
    <3> QED BY <3>1
  <2>2. /\ f[j] = IF IsOp(s[j]) THEN Append(f[k], s[j]) ELSE f[k]
        /\ g[j] = IF IsOp(s[j]) THEN Append(g[k], s[j]) ELSE g[k]
    BY <1>4, <2>1, Zenon DEF Picked
  <2> QED BY <1>6, <2>1, <2>2
<1> HIDE DEF S
<1>7. 0 .. n \subseteq S
  BY <1>0, <1>5, <1>6, Upwards
<1>8. n \in S
  BY <1>0, <1>7
<1> QED BY <1>1, <1>8 DEF S

\* What a package adds to the ones that have to be answered.
LEMMA OpsGrow ==
  ASSUME NEW s \in Seq(AnyPackage), NEW m \in AnyPackage
  PROVE  /\ Ops(s) \in Seq(AnyPackage)
         /\ Ops(Append(s, m)) = IF IsOp(m) THEN Append(Ops(s), m) ELSE Ops(s)
<1>1. PICK f : Picked(s, f)
  BY PickedExists
<1>2. PICK n \in Nat : n = Len(s) /\ Len(Append(s, m)) = n + 1 /\ Append(s, m) \in Seq(AnyPackage)
  BY LenProperties, AppendProperties
<1>3. PICK g : Picked(Append(s, m), g) /\ g[n + 1] = IF IsOp(m) THEN Append(f[n], m) ELSE f[n]
  BY <1>1, <1>2, PickedGrows
<1>4. Ops(s) = f[n] /\ Ops(Append(s, m)) = g[n + 1]
  BY <1>1, <1>2, <1>3, OpsIs
<1>5. f[n] \in Seq(AnyPackage)
  BY <1>1, <1>2 DEF Picked
<1> QED BY <1>3, <1>4, <1>5, Zenon

LEMMA OpsEmpty == Ops(<<>>) = <<>>
<1>1. <<>> \in Seq(AnyPackage) /\ Len(<<>>) = 0
  OBVIOUS
<1>2. PICK f : Picked(<<>>, f)
  BY <1>1, PickedExists
<1>3. Ops(<<>>) = f[0]
  BY <1>1, <1>2, OpsIs
<1> QED BY <1>2, <1>3 DEF Picked

-----------------------------------------------------------------------------
(***************************************************************************)
(* The answers.  A read() that failed leaves the server with at most one   *)
(* more package, and a connection on which it cannot answer any more.      *)
(***************************************************************************)
Starting == {"listen", "accept", "opendb"}
Stopped == {"stats", "exit", "abort", "sigfpe", "sigpipe"}

\* Without a connection nothing was received; after a failed read() nothing more is.
DeadInv ==
  /\ pc \in {"listen", "accept"} => conn = "none"
  /\ conn = "none" => pc \in {"listen", "accept", "abort"}
  /\ conn \in {"none", "badfd"} => frames = <<>> /\ ZeroBuffer
  /\ conn \in {"dead", "badfd"} => pc # "chunks"
  /\ conn = "dead" => rd = written \/ pc \in Stopped

\* After a made-up package the server waits for ever, or fails to answer, or has stopped.
JunkState ==
  \/ pc \in Stopped
  \/ conn = "dead" /\ pc = "header" /\ i = 0
  \/ conn \in {"dead", "badfd"} /\ pc \in {"execute", "respond"}
JunkInv == JunkIsLast /\ \A k \in 1 .. Len(log) : log[k] = Junk => JunkState

\* Every package that was executed has its answer but the one in work.
AnswerInv ==
  /\ Len(out) <= Len(Executed)
  /\ \A k \in 1 .. Len(out) :
       /\ Executed[k] # Junk => out[k].total = ResOf[Executed[k]]
       /\ out[k].body <= out[k].total
  /\ NoReadError =>
       /\ pc \in Starting \cup {"header", "body", "chunks"} => Len(out) = Len(Executed)
       /\ pc \in {"execute", "respond"} =>
            pkg \in Msgs /\ Len(Executed) = Len(out) + 1 /\ Executed[Len(out) + 1] = pkg
       /\ pc = "respond" => bytes = ResOf[pkg]

Known == TypeOK /\ FramingInv /\ CounterInv
ReplyInv == DeadInv /\ JunkInv /\ AnswerInv /\ StopAnswersAll

\* How a package that was received comes to its decision.
LEMMA Decision ==
  ASSUME Known, Known', BodyDone
  PROVE  \E m \in AnyPackage :
           /\ pc' \in NextAfter(m) /\ pkg' = m /\ log' = Append(log, m)
           /\ pc' \in {"header", "execute", "stats"}
           /\ NoReadError =>
                /\ m \in Msgs /\ Len(log) + 1 \in 1 .. Len(frames) /\ m = frames[Len(log) + 1].msg
                /\ \A k \in 1 .. Len(log) : log[k] = frames[k].msg
<1>1. PICK m \in Packages : pc' \in NextAfter(m) /\ pkg' = m /\ log' = Append(log, m)
  BY DEF BodyDone
<1>2. m \in AnyPackage
  BY FrameType DEF Packages, BodyFrames, AnyPackage, Known
<1>3. pc' \in {"header", "execute", "stats"}
  BY <1>1, <1>2, ConstAssumption DEF NextAfter, Kinds, AnyPackage
<1>4. ASSUME NoReadError
      PROVE  /\ m \in Msgs /\ Len(log) + 1 \in 1 .. Len(frames) /\ m = frames[Len(log) + 1].msg
             /\ \A k \in 1 .. Len(log) : log[k] = frames[k].msg
  <2>1. frames' = frames /\ NoReadError'
    BY <1>4 DEF BodyDone, client, NoReadError
  <2>2. Framing /\ Framing'
    BY <1>4, <2>1 DEF Known, FramingInv, ReceiveInv
  <2>3. log \in Seq(AnyPackage) /\ Len(log) \in Nat
    BY DEF Known, TypeOK
  <2>4. Len(log') = Len(log) + 1 /\ log'[Len(log) + 1] = m
    BY <1>1, <1>2, <2>3, AppendProperties
  <2>5. Len(log') <= Len(frames) /\ \A k \in 1 .. Len(log') : log'[k] = frames[k].msg
    <3>1. NoReadError' => /\ Len(log') <= Len(frames')
                          /\ \A k \in 1 .. Len(log') : log'[k] = frames'[k].msg
      BY <2>2 DEF Framing
    <3> QED BY <2>1, <3>1
  <2>6. Len(frames) \in Nat
    BY DEF Known, TypeOK
  <2>7. Len(log) + 1 \in 1 .. Len(frames) /\ Len(log) + 1 \in 1 .. Len(log')
    BY <2>3, <2>4, <2>5, <2>6
  <2>8. m = frames[Len(log) + 1].msg
    BY <2>4, <2>5, <2>7, Zenon
  <2>9. m \in Msgs
    BY <2>7, <2>8, FrameType DEF Known
  <2> QED BY <1>4, <2>2, <2>7, <2>8, <2>9 DEF Framing
<1> QED BY <1>1, <1>2, <1>3, <1>4

LEMMA DeadStep ==
  ASSUME Known, Known', DeadInv, [Next]_vars
  PROVE  DeadInv'
<1> USE DEF DeadInv, Stopped, ZeroBuffer
<1>1. ASSUME NEW m \in Msgs, ClientSend(m) PROVE DeadInv'
  BY <1>1 DEF ClientSend, recvVars
<1>2. CASE Deliver \/ ClientClose \/ ClientReset
  BY <1>2 DEF Deliver, ClientClose, ClientReset, client, recvVars
<1>3. CASE Listen \/ OpenDB
  BY <1>3 DEF Listen, OpenDB, client, recvVars
<1>4. CASE Accept
  BY <1>4 DEF Accept, client, recvVars
<1>5. ASSUME ReadHeader \/ ReadBody PROVE DeadInv'
  <2>1. /\ rd' # rd /\ conn # "badfd" /\ conn # "dead" /\ pc \in {"header", "body"}
        /\ UNCHANGED <<frames, written, conn, pc>>
    <3>1. HdrLen \in Nat /\ rd \in Nat /\ written \in Nat /\ i \in Nat /\ package_size \in Nat
      BY ConstAssumption DEF Known, TypeOK
    <3>2. PICK a \in Int : \E n \in 1 .. Least(a, written - rd) : rd' = rd + n
      <4>1. HdrLen - i \in Int /\ package_size - i \in Int
        BY <3>1
      <4> QED BY <1>5, <4>1 DEF ReadHeader, ReadBody
    <3>3. PICK n \in 1 .. Least(a, written - rd) : rd' = rd + n
      BY <3>2
    <3>4. written - rd \in Int
      BY <3>1
    <3>5. n \in Nat /\ n > 0 /\ n <= written - rd
      BY <3>4, ReadAmount
    <3>6. rd' # rd /\ rd # written
      BY <3>1, <3>3, <3>5
    <3>7. conn # "badfd" /\ pc \in {"header", "body"} /\ UNCHANGED <<frames, written, conn, pc>>
      BY <1>5 DEF ReadHeader, ReadBody, client
    <3> QED BY <3>6, <3>7
  <2> QED BY <2>1
<1>6. CASE HeaderDone
  BY <1>6 DEF HeaderDone, client
<1>7. CASE BodyDone
  <2>1. pc' \in {"header", "execute", "stats"}
    BY <1>7, Decision
  <2> QED BY <1>7, <2>1 DEF BodyDone, client
<1>8. CASE ReadError
  BY <1>8 DEF ReadError, ReadFails, AfterError, client
<1>9. CASE ReadEof \/ UNCHANGED vars
  BY <1>9 DEF ReadEof, vars
<1>10. CASE Execute \/ SendHeader \/ SendChunk \/ Responded \/ PrintStats
  BY <1>10 DEF Execute, SendHeader, SendChunk, Responded, PrintStats, CanWrite, client, recvVars, sendVars
<1>11. CASE SendError
  BY <1>11 DEF SendError, WriteFails, WriteErrorPcs, AfterError, client, recvVars, sendVars
<1> QED
  BY <1>1, <1>2, <1>3, <1>4, <1>5, <1>6, <1>7, <1>8, <1>9, <1>10, <1>11 DEF Next, Client, Server

LEMMA LogType ==
  ASSUME Known
  PROVE  /\ log \in Seq(AnyPackage) /\ Len(log) \in Nat /\ Executed \in Seq(AnyPackage)
         /\ Len(Executed) \in Nat /\ out \in Seq(Response) /\ Len(out) \in Nat
<1>1. log \in Seq(AnyPackage) /\ out \in Seq(Response) /\ Junk \in AnyPackage
  BY DEF Known, TypeOK, AnyPackage
<1>2. Executed \in Seq(AnyPackage)
  BY <1>1, OpsGrow DEF Executed
<1> QED BY <1>1, <1>2, LenProperties

LEMMA JunkStep ==
  ASSUME Known, Known', ReplyInv, [Next]_vars
  PROVE  JunkInv'
<1>1. /\ log \in Seq(AnyPackage) /\ Len(log) \in Nat /\ Executed \in Seq(AnyPackage)
      /\ Len(Executed) \in Nat /\ out \in Seq(Response) /\ Len(out) \in Nat
  BY LogType
<1>2. CASE BodyDone
  <2>1. PICK m \in AnyPackage :
          /\ pc' \in NextAfter(m) /\ log' = Append(log, m) /\ pc' \in {"header", "execute", "stats"}
          /\ NoReadError => m \in Msgs
    BY <1>2, Decision
  <2>2. \A k \in 1 .. Len(log) : log[k] # Junk
    BY <1>2 DEF BodyDone, ReplyInv, JunkInv, JunkState, Stopped
  <2>3. Len(log') = Len(log) + 1 /\ log'[Len(log) + 1] = m /\ \A k \in 1 .. Len(log) : log'[k] = log[k]
    BY <1>1, <2>1, AppendProperties
  <2>4. ASSUME NEW k \in 1 .. Len(log'), log'[k] = Junk PROVE k = Len(log') /\ m = Junk
    <3>1. k \in 1 .. Len(log) \/ k = Len(log')
      BY <1>1, <2>3
    <3> QED BY <2>2, <2>3, <2>4, <3>1, Zenon
  <2>5. ASSUME m = Junk PROVE Len(out') < Len(Executed') /\ JunkState'
    <3>1. IsOp(m)
      BY <2>5 DEF IsOp
    <3>2. Executed' = Append(Executed, m)
      BY <1>1, <2>1, <3>1, OpsGrow DEF Executed
    <3>3. Len(Executed') = Len(Executed) + 1
      BY <1>1, <3>2, AppendProperties
    <3>4. out' = out /\ Len(out) <= Len(Executed)
      BY <1>2 DEF BodyDone, sendVars, ReplyInv, AnswerInv
    <3>5. conn' = conn /\ i' = 0 /\ conn \in {"dead", "badfd"}
      <4>1. conn \in Conns /\ ~NoReadError
        BY <2>1, <2>5, ConstAssumption DEF Known, TypeOK
      <4> QED BY <1>2, <4>1 DEF BodyDone, Conns, NoReadError
    <3>6. conn = "badfd" => pc' = "execute"
      BY <2>1, <2>5 DEF NextAfter, ReplyInv, DeadInv
    <3>7. JunkState'
      BY <2>1, <3>5, <3>6 DEF JunkState, Stopped
    <3> QED BY <1>1, <3>3, <3>4, <3>7
  <2> QED BY <2>4, <2>5 DEF JunkInv, JunkIsLast
<1>3. ASSUME log' = log, \A k \in 1 .. Len(log) : log[k] = Junk => out' = out /\ JunkState'
      PROVE  JunkInv'
  <2>1. Executed' = Executed
    BY <1>3 DEF Executed
  <2> QED BY <1>3, <2>1 DEF ReplyInv, JunkInv, JunkIsLast
<1>4. SUFFICES ASSUME ~BodyDone PROVE log' = log /\ (JunkState => out' = out /\ JunkState')
  BY <1>2, <1>3 DEF ReplyInv, JunkInv
<1>5. log' = log
  BY <1>4 DEF vars, Next, Client, ClientSend, Deliver, ClientClose, ClientReset, Server, Listen, Accept, OpenDB,
              ReadHeader, HeaderDone, ReadBody, ReadError, ReadEof, Execute, SendHeader, SendChunk, SendError,
              Responded, PrintStats
<1> SUFFICES ASSUME JunkState PROVE out' = out /\ JunkState'
  BY <1>5
<1>6. CASE pc \in Stopped
  BY <1>4, <1>6 DEF vars, Next, Client, ClientSend, Deliver, ClientClose, ClientReset, Server, Listen, Accept, OpenDB,
             ReadHeader, HeaderDone, ReadBody, ReadError, ReadEof, Execute, SendHeader, SendChunk, SendError,
             Responded, PrintStats, JunkState, Stopped, sendVars
<1>7. CASE conn = "dead" /\ pc = "header" /\ i = 0
  <2>1. rd = written /\ HdrLen \in Nat /\ HdrLen > 0 /\ rd \in Nat
    <3>1. rd = written
      BY ONLY <1>7, ReplyInv DEF ReplyInv, DeadInv, Stopped
    <3>2. rd \in Nat
      BY ONLY Known DEF Known, TypeOK
    <3>3. HdrLen \in Nat /\ HdrLen > 0
      BY ONLY ConstAssumption
    <3> QED BY ONLY <3>1, <3>2, <3>3
  <2>2. ~ReadHeader /\ ~HeaderDone
    BY <1>7, <2>1 DEF ReadHeader, HeaderDone, HeaderComplete, Least
  <2> QED BY <1>4, <1>7, <2>2 DEF vars, Next, Client, ClientSend, Deliver, ClientClose, ClientReset, Server, Listen,
             Accept, OpenDB, ReadBody, ReadError, ReadFails, ReadEof, Execute, SendHeader, SendChunk,
             SendError, Responded, PrintStats, JunkState, sendVars
<1>8. CASE conn \in {"dead", "badfd"} /\ pc \in {"execute", "respond"}
  BY <1>4, <1>8 DEF vars, Next, Client, ClientSend, Deliver, ClientClose, ClientReset, Server, Listen, Accept, OpenDB,
             ReadHeader, HeaderDone, ReadBody, ReadError, ReadEof, Execute, SendHeader, CanWrite, SendChunk,
             SendError, WriteErrorPcs, Responded, PrintStats, JunkState, Stopped, sendVars
<1> QED BY <1>4, <1>6, <1>7, <1>8 DEF JunkState

LEMMA AnswerStep ==
  ASSUME Known, Known', ReplyInv, [Next]_vars
  PROVE  AnswerInv'
<1> DEFINE Receiving == Starting \cup {"header", "body", "chunks"}
<1>1. /\ log \in Seq(AnyPackage) /\ Len(log) \in Nat /\ Executed \in Seq(AnyPackage)
      /\ Len(Executed) \in Nat /\ out \in Seq(Response) /\ Len(out) \in Nat
  BY LogType
<1>2. AnswerInv
  BY DEF ReplyInv
<1>3. ASSUME log' = log, out' = out, NoReadError' => NoReadError,
             NoReadError' /\ pc' \in Receiving => pc \in Receiving,
             NoReadError' /\ pc' \in {"execute", "respond"} => UNCHANGED <<pc, pkg, bytes>>
      PROVE  AnswerInv'
  <2>1. Executed' = Executed
    BY <1>3 DEF Executed
  <2> QED BY <1>2, <1>3, <2>1 DEF AnswerInv
<1>4. ASSUME NEW m \in Msgs, ClientSend(m) PROVE AnswerInv'
  BY <1>3, <1>4 DEF ClientSend, sendVars, NoReadError
<1>5. CASE Deliver \/ ClientClose \/ ClientReset
  BY <1>3, <1>5 DEF Deliver, ClientClose, ClientReset, sendVars, NoReadError
<1>6. CASE Listen \/ Accept \/ OpenDB
  <2>1. NoReadError' => NoReadError
    BY <1>6 DEF Listen, Accept, OpenDB, NoReadError, ReplyInv, DeadInv
  <2> QED BY <1>3, <1>6, <2>1 DEF Listen, Accept, OpenDB, sendVars, Starting
<1>7. CASE ReadHeader \/ HeaderDone \/ ReadBody \/ ReadEof \/ Responded \/ PrintStats \/ UNCHANGED vars
  BY <1>3, <1>7 DEF ReadHeader, HeaderDone, ReadBody, ReadEof, Responded, PrintStats, vars, sendVars, NoReadError,
                    Starting
<1>8. CASE ReadError
  <2>1. ~NoReadError' /\ log' = log /\ out' = out
    BY <1>8 DEF ReadError, ReadFails, AfterError, NoReadError, sendVars
  <2> QED BY <1>3, <2>1
<1>9. CASE SendError
  <2>1. ~NoReadError' /\ log' = log /\ out' = out
    BY <1>9 DEF SendError, WriteFails, AfterError, NoReadError, sendVars
  <2> QED BY <1>3, <2>1
<1>10. CASE Execute
  <2>1. /\ pc = "execute" /\ pc' = "respond" /\ bytes' \in Results
        /\ UNCHANGED <<conn, log, out, pkg>>
    BY <1>10 DEF Execute
  <2>2. Executed' = Executed
    BY <2>1 DEF Executed
  <2>3. ASSUME NoReadError PROVE bytes' = ResOf[pkg]
    BY <1>2, <2>1, <2>3, ConstAssumption DEF AnswerInv, Results
  <2> QED BY <1>2, <2>1, <2>2, <2>3 DEF AnswerInv, NoReadError, Starting
<1>11. CASE SendHeader
  <2> DEFINE r == [total |-> bytes, body |-> 0]
             n == Len(out)
  <2>1. /\ pc = "respond" /\ pc' = "chunks" /\ CanWrite /\ out' = Append(out, r)
        /\ UNCHANGED <<conn, log, pkg, bytes>>
    BY <1>11 DEF SendHeader
  <2>2. Executed' = Executed
    BY <2>1 DEF Executed
  <2>3. NoReadError /\ NoReadError'
    BY <2>1 DEF CanWrite, NoReadError
  <2>4. Len(Executed) = n + 1 /\ Executed[n + 1] = pkg /\ bytes = ResOf[pkg] /\ bytes \in Nat
    BY <1>2, <2>1, <2>3 DEF AnswerInv, Known, TypeOK
  <2>5. r \in Response /\ r.total = bytes /\ r.body = 0
    BY <2>4 DEF Response
  <2> HIDE DEF r
  <2>6. Len(out') = n + 1 /\ out'[n + 1] = r /\ \A k \in 1 .. n : out'[k] = out[k]
    BY <1>1, <2>1, <2>5, AppendProperties
  <2>7. ASSUME NEW k \in 1 .. n + 1
        PROVE  /\ Executed[k] # Junk => out'[k].total = ResOf[Executed[k]]
               /\ out'[k].body <= out'[k].total
    <3>1. CASE k = n + 1
      BY <2>4, <2>5, <2>6, <3>1
    <3>2. CASE k # n + 1
      <4>1. k \in 1 .. n
        BY <1>1, <3>2
      <4> QED BY <1>2, <2>6, <4>1 DEF AnswerInv
    <3> QED BY <3>1, <3>2
  <2> QED BY <1>1, <2>1, <2>2, <2>4, <2>6, <2>7 DEF AnswerInv
<1>12. CASE SendChunk
  <2> DEFINE n == Len(out)
             r == [total |-> out[n].total, body |-> out[n].body + Amount]
  <2>1. /\ pc = "chunks" /\ out' = [out EXCEPT ![n] = r] /\ UNCHANGED <<conn, log, pc, pkg>>
        /\ bytes > 0
    BY <1>12 DEF SendChunk
  <2>2. Executed' = Executed
    BY <2>1 DEF Executed
  <2>3. n \in 1 .. n /\ bytes \in Nat /\ out[n].body + bytes = out[n].total
    BY <1>1, <2>1 DEF Known, TypeOK, CounterInv
  <2>4. out[n].body \in Nat /\ out[n].total \in Nat
    BY <2>3, OutType DEF Known
  <2>5. Amount \in Nat /\ Amount <= bytes
    BY <2>3, ConstAssumption DEF Amount, Least
  <2>6. r.total = out[n].total /\ r.body <= r.total
    BY <2>3, <2>4, <2>5
  <2> HIDE DEF r
  <2>7. Len(out') = n /\ out'[n] = r /\ \A k \in 1 .. n : k # n => out'[k] = out[k]
    BY <1>1, <2>1, <2>3
  <2>8. ASSUME NEW k \in 1 .. n
        PROVE  /\ Executed[k] # Junk => out'[k].total = ResOf[Executed[k]]
               /\ out'[k].body <= out'[k].total
    BY <1>2, <2>6, <2>7 DEF AnswerInv
  <2>9. NoReadError' = NoReadError
    BY <2>1 DEF NoReadError
  <2> QED BY <1>2, <2>1, <2>2, <2>7, <2>8, <2>9 DEF AnswerInv
<1>13. CASE BodyDone
  <2>1. PICK m \in AnyPackage :
          /\ pc' \in NextAfter(m) /\ pkg' = m /\ log' = Append(log, m)
          /\ pc' \in {"header", "execute", "stats"}
          /\ NoReadError => m \in Msgs
    BY <1>13, Decision
  <2>2. pc = "body" /\ UNCHANGED <<conn, out, bytes>> /\ NoReadError' = NoReadError
    BY <1>13 DEF BodyDone, sendVars, NoReadError
  <2>3. Executed' = IF IsOp(m) THEN Append(Executed, m) ELSE Executed
    BY <1>1, <2>1, OpsGrow DEF Executed
  <2>4. /\ IsOp(m) => Len(Executed') = Len(Executed) + 1 /\ Executed'[Len(Executed) + 1] = m
        /\ ~IsOp(m) => Len(Executed') = Len(Executed)
        /\ \A k \in 1 .. Len(Executed) : Executed'[k] = Executed[k]
    BY <1>1, <2>1, <2>3, AppendProperties
  <2>5. Len(out') <= Len(Executed')
    BY <1>1, <1>2, <2>2, <2>4 DEF AnswerInv
  <2>6. ASSUME NEW k \in 1 .. Len(out')
        PROVE  /\ Executed'[k] # Junk => out'[k].total = ResOf[Executed'[k]]
               /\ out'[k].body <= out'[k].total
    <3>1. k \in 1 .. Len(Executed) /\ k \in 1 .. Len(out)
      BY <1>1, <1>2, <2>2 DEF AnswerInv
    <3> QED BY <1>2, <2>2, <2>4, <3>1 DEF AnswerInv
  <2>7. ASSUME NoReadError
        PROVE  /\ pc' = "header" => Len(out) = Len(Executed')
               /\ pc' = "execute" => Len(Executed') = Len(out) + 1 /\ Executed'[Len(out) + 1] = m
    <3>1. m \in Msgs /\ m # Junk /\ Len(out) = Len(Executed)
      BY <1>2, <2>1, <2>2, <2>7, ConstAssumption DEF AnswerInv
    <3>2. KindOf[m] \in Kinds /\ (IsOp(m) <=> KindOf[m] = "op")
      BY <3>1, ConstAssumption DEF IsOp
    <3>3. (pc' = "header" => KindOf[m] = "short") /\ (pc' = "execute" => KindOf[m] = "op")
      BY <2>1, <3>1, <3>2 DEF NextAfter, Kinds
    <3> QED BY <2>4, <3>1, <3>2, <3>3
  <2> QED BY <2>1, <2>2, <2>5, <2>6, <2>7 DEF AnswerInv, Starting
<1> QED
  BY <1>4, <1>5, <1>6, <1>7, <1>8, <1>9, <1>10, <1>11, <1>12, <1>13 DEF Next, Client, Server

\* While no read() failed the log is what the client sent.
LEMMA LogIsSent ==
  ASSUME Known, Framing, NoReadError
  PROVE  Sent(Len(log)) = log
<1>1. log \in Seq(AnyPackage) /\ Len(log) \in Nat
  BY DEF Known, TypeOK
<1>2. log = [k \in 1 .. Len(log) |-> log[k]]
  BY <1>1
<1>3. \A k \in 1 .. Len(log) : log[k] = frames[k].msg
  BY DEF Framing
<1> QED BY <1>2, <1>3, Zenon DEF Sent

LEMMA StopStep ==
  ASSUME Known, Known', ReplyInv, [Next]_vars
  PROVE  StopAnswersAll'
<1> DEFINE Ended == {"stats", "exit", "sigfpe"}
           Stop(k) == KindOf[frames[k].msg] = "end" \/ SizeOf[frames[k].msg] > BufLen
<1>1. SUFFICES ASSUME pc' \in Ended, conn' = "open"
               PROVE  \E k \in 1 .. Len(frames') : Stop(k)' /\ opcounter' = Len(Ops(Sent(k - 1)'))
  BY DEF StopAnswersAll
<1>2. Len(log) \in Nat /\ Len(frames) \in Nat
  BY DEF Known, TypeOK
<1>3. ASSUME conn = "open", pc \in {"header", "body"}
      PROVE  NoReadError /\ Framing /\ opcounter = Len(Ops(Sent(Len(log))))
  <2>1. NoReadError
    BY <1>3 DEF NoReadError
  <2>2. Framing
    BY <2>1 DEF Known, FramingInv, ReceiveInv
  <2>3. Len(out) = Len(Executed) /\ Len(out) = opcounter
    BY <1>3, <2>1 DEF ReplyInv, AnswerInv, Known, CounterInv
  <2>4. Sent(Len(log)) = log
    BY <2>1, <2>2, LogIsSent
  <2> QED BY <2>1, <2>2, <2>3, <2>4 DEF Executed
<1>4. CASE pc \in Ended
  <2>1. conn = "open" /\ opcounter' = opcounter
    BY <1>1, <1>4 DEF vars, Next, Client, ClientSend, Deliver, ClientClose, ClientReset, Server, Listen, Accept, OpenDB,
             ReadHeader, HeaderDone, ReadBody, BodyDone, ReadError, ReadEof, Execute, SendHeader, SendChunk, SendError,
             Responded, PrintStats, sendVars
  <2>2. PICK k \in 1 .. Len(frames) : Stop(k) /\ opcounter = Len(Ops(Sent(k - 1)))
    BY <1>4, <2>1 DEF ReplyInv, StopAnswersAll
  <2>3. Len(frames') \in Nat /\ Len(frames) <= Len(frames') /\ \A j \in 1 .. Len(frames) : frames'[j] = frames[j]
    <3>1. CASE frames' = frames
      BY <1>2, <3>1
    <3>2. ASSUME NEW m \in Msgs, ClientSend(m)
          PROVE  Len(frames') = Len(frames) + 1 /\ \A j \in 1 .. Len(frames) : frames'[j] = frames[j]
      BY <1>2, <3>2, NewFrame DEF ClientSend, Known, FramingInv
    <3> QED BY <1>2, <3>1, <3>2 DEF vars, Next, Client, Deliver, ClientClose, ClientReset, Server, Listen, Accept, OpenDB,
             ReadHeader, HeaderDone, ReadBody, BodyDone, ReadError, ReadEof, Execute, SendHeader, SendChunk, SendError,
             Responded, PrintStats, client
  <2>4. k \in 1 .. Len(frames') /\ \A j \in 1 .. k - 1 : j \in 1 .. Len(frames)
    BY <1>2, <2>3
  <2>5. Sent(k - 1)' = Sent(k - 1)
    BY <2>3, <2>4, Zenon DEF Sent
  <2> QED BY <2>1, <2>2, <2>3, <2>4, <2>5
<1>5. CASE pc \notin Ended
  <2>1. HeaderDone \/ BodyDone
    BY <1>1, <1>5 DEF vars, Next, Client, ClientSend, Deliver, ClientClose, ClientReset, Server, Listen, Accept, OpenDB,
             ReadHeader, ReadBody, ReadError, ReadEof, Execute, SendHeader, SendChunk, SendError, WriteFails,
             AfterError, Responded, PrintStats
  <2>2. /\ frames' = frames /\ opcounter' = opcounter /\ conn = "open" /\ pc \in {"header", "body"}
        /\ pc' = "stats"
    <3>1. BodyDone => pc' = "stats"
      BY <1>1, Decision
    <3> QED BY <1>1, <2>1, <3>1 DEF HeaderDone, BodyDone, client, sendVars
  <2>3. NoReadError /\ Framing /\ opcounter = Len(Ops(Sent(Len(log))))
    BY <1>3, <2>2
  <2>4. PICK k : k = Len(log) + 1 /\ k - 1 = Len(log)
    BY <1>2
  <2>5. k \in 1 .. Len(frames) /\ Stop(k)
    <3>1. CASE HeaderDone
      <4>1. k \in 1 .. Len(frames) /\ package_size' = SizeOf[frames[k].msg]
        BY <2>3, <2>4, <3>1, HeaderIsNext DEF Known
      <4>2. package_size' > BufLen
        BY <2>2, <3>1 DEF HeaderDone
      <4> QED BY <4>1, <4>2
    <3>2. CASE BodyDone
      <4>1. PICK m \in AnyPackage : /\ pc' \in NextAfter(m) /\ m \in Msgs
                                    /\ k \in 1 .. Len(frames) /\ m = frames[k].msg
        BY <2>3, <2>4, <3>2, Decision
      <4>2. m # Junk /\ KindOf[m] \in Kinds
        BY <4>1, ConstAssumption
      <4>3. KindOf[m] = "end"
        BY <2>2, <4>1, <4>2 DEF NextAfter, Kinds
      <4> QED BY <4>1, <4>3
    <3> QED BY <2>1, <3>1, <3>2
  <2>6. Sent(k - 1)' = Sent(k - 1) /\ Stop(k)'
    BY <2>2, <2>5 DEF Sent
  <2> QED BY <2>2, <2>3, <2>4, <2>5, <2>6
<1> QED BY <1>4, <1>5

LEMMA ReplyInvariant == Spec => []ReplyInv
<1>1. Init => ReplyInv
  <2> SUFFICES ASSUME Init PROVE ReplyInv
    OBVIOUS
  <2>1. /\ log = <<>> /\ out = <<>> /\ frames = <<>> /\ pc = "listen" /\ conn = "none"
        /\ Len(log) = 0 /\ Len(out) = 0
    BY DEF Init
  <2>2. Executed = <<>> /\ Len(Executed) = 0
    BY <2>1, OpsEmpty DEF Executed
  <2>3. ZeroBuffer
    BY DEF Init, ZeroBuffer
  <2>4. DeadInv /\ JunkInv
    BY <2>1, <2>3 DEF DeadInv, JunkInv, JunkIsLast
  <2>5. AnswerInv /\ StopAnswersAll
    BY <2>1, <2>2 DEF AnswerInv, StopAnswersAll
  <2> QED BY <2>4, <2>5 DEF ReplyInv
<1>2. Known /\ Known' /\ ReplyInv /\ [Next]_vars => ReplyInv'
  BY DeadStep, JunkStep, AnswerStep, StopStep DEF ReplyInv
<1>3. TypeOK /\ FramingInv /\ CounterInv => Known
  BY DEF Known
<1>4. Spec => []Known
  BY <1>3, TypeCorrect, FramingInvariant, CounterInvariant, PTL
<1> QED
  BY <1>1, <1>2, <1>4, PTL DEF Spec

\* Every response announces the result of its package and carries the bytes it
\* announces, for every set of packages and results and for every size of chunk:
\* no answer is lost, doubled or given to another package.
THEOREM AnswersCorrect == Spec => []Answers
<1>1. Known /\ ReplyInv => Answers
  <2> SUFFICES ASSUME Known, ReplyInv PROVE Answers
    OBVIOUS
  <2>1. Len(out) \in Nat /\ opcounter \in Nat
    BY LogType DEF Known, TypeOK
  <2>2. ASSUME NEW k \in 1 .. Len(out), k < Len(out) PROVE out[k].body = out[k].total
    <3>1. Len(out) <= opcounter + 1
      BY <2>1 DEF Known, CounterInv, TypeOK, Pcs
    <3>2. k \in 1 .. opcounter
      BY <2>1, <2>2, <3>1
    <3> QED BY <3>2 DEF Known, CounterInv, FullUpTo
  <2> QED BY <2>2 DEF ReplyInv, AnswerInv, Answers
<1>2. TypeOK /\ FramingInv /\ CounterInv => Known
  BY DEF Known
<1> QED
  BY <1>1, <1>2, TypeCorrect, FramingInvariant, CounterInvariant, ReplyInvariant, PTL

\* A package that receive() made up after a failed read() or accept() is the last
\* one and is never answered, whatever the stale bytes in the buffer look like.
THEOREM JunkIsLastCorrect == Spec => []JunkIsLast
<1>1. ReplyInv => JunkIsLast
  BY DEF ReplyInv, JunkInv
<1> QED
  BY <1>1, ReplyInvariant, PTL

\* When the loop of main() ends on a connection that is up, it is because of ENDNOW
\* or of a package that is too large, and everything before that has been answered.
THEOREM StopAnswersAllCorrect == Spec => []StopAnswersAll
<1>1. ReplyInv => StopAnswersAll
  BY DEF ReplyInv
<1> QED
  BY <1>1, ReplyInvariant, PTL
=============================================================================
