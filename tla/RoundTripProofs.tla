--------------------------- MODULE RoundTripProofs ---------------------------
(***************************************************************************)
(* The programs that measure round trips.  pingpong.c (Pingpong):          *)
(* conservation of messages, and what follows from it, for any finite set  *)
(* of pairs, any numbers of rounds, any queue and any leftovers.  netlat.c *)
(* (Netlat): NetTypeOK, Backlog and LagBounded for any number of rounds    *)
(* and of lost, duplicated, reordered, late and refused datagrams.         *)
(***************************************************************************)
EXTENDS Pingpong, Netlat, SequenceTheorems, FiniteSetTheorems, TLAPS

-----------------------------------------------------------------------------
(* pingpong.c *)

\* Taking one message out of the queue.
LEMMA RemoveAtProperties ==
  ASSUME NEW S, NEW s \in Seq(S), NEW k \in 1 .. Len(s)
  PROVE  RemoveAt(s, k) \in Seq(S) /\ Len(RemoveAt(s, k)) = Len(s) - 1
<1> DEFINE a == SubSeq(s, 1, k - 1)
           b == SubSeq(s, k + 1, Len(s))
<1>1. Len(s) \in Nat /\ \A l \in 1 .. Len(s) : s[l] \in S
  OBVIOUS
<1>2. /\ SubSeq(s, 1, k - 1) \in Seq(S)
      /\ Len(SubSeq(s, 1, k - 1)) = k - 1
  <2>1. \A l \in 1 .. k - 1 : s[l] \in S
    BY <1>1
  <2>2. /\ SubSeq(s, 1, k - 1) \in Seq(S)
        /\ Len(SubSeq(s, 1, k - 1)) = IF 1 <= k - 1 THEN k - 1 - 1 + 1 ELSE 0
    BY <2>1, SubSeqProperties
  <2> QED BY <2>2
<1>3. /\ SubSeq(s, k + 1, Len(s)) \in Seq(S)
      /\ Len(SubSeq(s, k + 1, Len(s))) = Len(s) - k
  <2>1. \A l \in k + 1 .. Len(s) : s[l] \in S
    BY <1>1
  <2>2. /\ SubSeq(s, k + 1, Len(s)) \in Seq(S)
        /\ Len(SubSeq(s, k + 1, Len(s))) = IF k + 1 <= Len(s) THEN Len(s) - (k + 1) + 1 ELSE 0
    BY <1>1, <2>1, SubSeqProperties
  <2> QED BY <1>1, <2>2
<1>4. RemoveAt(s, k) = a \o b
  BY DEF RemoveAt
<1>5. a \in Seq(S) /\ Len(a) = k - 1 /\ b \in Seq(S) /\ Len(b) = Len(s) - k
  BY <1>2, <1>3
<1> HIDE DEF a, b
<1>6. a \o b \in Seq(S) /\ Len(a \o b) = Len(a) + Len(b)
  BY <1>5, ConcatProperties
<1> QED
  BY <1>1, <1>4, <1>5, <1>6

LEMMA SentType ==
  ASSUME queue \in Seq(Message), NEW t \in {CLIENT_MESSAGE, SERVER_MESSAGE}
  PROVE  Sent(t) \in Seq(Message) /\ Len(Sent(t)) = Len(queue) + 1
<1> DEFINE m == [type |-> t, size |-> MsgSize]
<1>1. m \in Message
  BY PingpongAssumption DEF Message
<1> HIDE DEF m
<1>2. Append(queue, m) \in Seq(Message) /\ Len(Append(queue, m)) = Len(queue) + 1
  BY <1>1
<1> QED
  BY <1>2 DEF Sent, m

\* While a process is between its two calls, there is a round left for it to complete.
TypeInv ==
  /\ TypeOK
  /\ \A p \in Pairs : /\ ppc[p] = "recv" => pi[p] < Rounds[p]
                      /\ cpc[p] = "send" => ci[p] < Rounds[p]

LEMMA OneMore ==
  ASSUME NEW f \in [Pairs -> Nat], NEW p \in Pairs
  PROVE  /\ [f EXCEPT ![p] = @ + 1] \in [Pairs -> Nat]
         /\ \A q \in Pairs : [f EXCEPT ![p] = @ + 1][q] = IF q = p THEN f[q] + 1 ELSE f[q]
<1>1. f[p] + 1 \in Nat
  OBVIOUS
<1> QED BY <1>1

\* Every variable keeps its type, and no process completes more rounds than it has.
THEOREM TypeCorrect == Spec => []TypeOK
<1>1. Init => TypeInv
  BY PingpongAssumption DEF Init, TypeInv, TypeOK, ParentPcs, ChildPcs
<1>2. TypeInv /\ [Next]_vars => TypeInv'
  <2> SUFFICES ASSUME TypeInv, [Next]_vars PROVE TypeInv'
    OBVIOUS
  <2>0. /\ queue \in Seq(Message) /\ stale \in Nat
        /\ ppc \in [Pairs -> ParentPcs] /\ cpc \in [Pairs -> ChildPcs]
        /\ pi \in [Pairs -> Nat] /\ ci \in [Pairs -> Nat] /\ Rounds \in [Pairs -> Nat]
        /\ \A q \in Pairs : /\ pi[q] <= Rounds[q] /\ ci[q] <= Rounds[q]
                            /\ ppc[q] = "recv" => pi[q] < Rounds[q]
                            /\ cpc[q] = "send" => ci[q] < Rounds[q]
    BY PingpongAssumption DEF TypeInv, TypeOK
  <2>1. ASSUME NEW p \in Pairs, ParentSetup(p) \/ ParentPrint(p) \/ ParentExit(p) PROVE TypeInv'
    BY <2>0, <2>1 DEF ParentSetup, ParentPrint, ParentExit, AfterSetup, TypeInv, TypeOK, ParentPcs
  <2>2. ASSUME NEW p \in Pairs, ParentSend(p) PROVE TypeInv'
    <3>1. queue' \in Seq(Message)
      BY <2>2, SentType DEF ParentSend, TypeInv, TypeOK
    <3> QED BY <2>0, <2>2, <3>1 DEF ParentSend, TypeInv, TypeOK, ParentPcs
  <2>3. ASSUME NEW p \in Pairs, ParentRecv(p) PROVE TypeInv'
    <3>1. queue' \in Seq(Message)
      BY <2>0, <2>3, RemoveAtProperties DEF ParentRecv
    <3>2. /\ ppc[p] = "recv" /\ UNCHANGED <<stale, cpc, ci>>
          /\ \/ ppc' = [ppc EXCEPT ![p] = "send"] /\ pi' = [pi EXCEPT ![p] = @ + 1]
             \/ ppc' = [ppc EXCEPT ![p] = "failed"] /\ pi' = pi
      BY <2>3 DEF ParentRecv
    <3>3. /\ ppc' \in [Pairs -> ParentPcs]
          /\ \A q \in Pairs : ppc'[q] = "recv" => ppc[q] = "recv" /\ q # p
      BY <2>0, <3>2 DEF ParentPcs
    <3>4. /\ pi' \in [Pairs -> Nat]
          /\ \A q \in Pairs : pi'[q] = pi[q] \/ (q = p /\ pi'[q] = pi[q] + 1)
      BY <2>0, <3>2, OneMore
    <3>5. ASSUME NEW q \in Pairs
          PROVE  pi'[q] <= Rounds[q] /\ (ppc'[q] = "recv" => pi'[q] < Rounds[q])
      <4>1. PICK a \in Nat, b \in Nat : a = pi[q] /\ b = Rounds[q] /\ a <= b
        BY <2>0
      <4>2. CASE q # p
        BY <2>0, <3>3, <3>4, <4>2
      <4>3. CASE q = p
        <5>1. a < b /\ (pi'[q] = a \/ pi'[q] = a + 1) /\ ppc'[q] # "recv"
          BY <2>0, <3>2, <3>3, <3>4, <4>1, <4>3
        <5> QED BY <4>1, <5>1
      <4> QED BY <4>2, <4>3
    <3> QED BY <2>0, <3>1, <3>2, <3>3, <3>4, <3>5 DEF TypeInv, TypeOK
  <2>4. ASSUME NEW p \in Pairs, ChildSetup(p) \/ ChildExit(p) PROVE TypeInv'
    BY <2>0, <2>4 DEF ChildSetup, ChildExit, AfterSetup, TypeInv, TypeOK, ChildPcs
  <2>5. ASSUME NEW p \in Pairs, ChildRecv(p) PROVE TypeInv'
    <3>1. queue' \in Seq(Message)
      BY <2>0, <2>5, RemoveAtProperties DEF ChildRecv
    <3> QED BY <2>0, <2>5, <3>1 DEF ChildRecv, TypeInv, TypeOK, ChildPcs
  <2>6. ASSUME NEW p \in Pairs, ChildSend(p) PROVE TypeInv'
    <3>1. queue' \in Seq(Message)
      BY <2>6, SentType DEF ChildSend, TypeInv, TypeOK
    <3>2. /\ cpc[p] = "send" /\ UNCHANGED <<stale, ppc, pi>>
          /\ cpc' = [cpc EXCEPT ![p] = "recv"] /\ ci' = [ci EXCEPT ![p] = @ + 1]
      BY <2>6 DEF ChildSend
    <3>3. /\ cpc' \in [Pairs -> ChildPcs]
          /\ \A q \in Pairs : cpc'[q] = "send" => cpc[q] = "send" /\ q # p
      BY <2>0, <3>2 DEF ChildPcs
    <3>4. /\ ci' \in [Pairs -> Nat]
          /\ \A q \in Pairs : ci'[q] = ci[q] \/ (q = p /\ ci'[q] = ci[q] + 1)
      BY <2>0, <3>2, OneMore
    <3>5. ASSUME NEW q \in Pairs
          PROVE  ci'[q] <= Rounds[q] /\ (cpc'[q] = "send" => ci'[q] < Rounds[q])
      <4>1. PICK a \in Nat, b \in Nat : a = ci[q] /\ b = Rounds[q] /\ a <= b
        BY <2>0
      <4>2. CASE q # p
        BY <2>0, <3>3, <3>4, <4>2
      <4>3. CASE q = p
        <5>1. a < b /\ (ci'[q] = a \/ ci'[q] = a + 1) /\ cpc'[q] # "send"
          BY <2>0, <3>2, <3>3, <3>4, <4>1, <4>3
        <5> QED BY <4>1, <5>1
      <4> QED BY <4>2, <4>3
    <3> QED BY <2>0, <3>1, <3>2, <3>3, <3>4, <3>5 DEF TypeInv, TypeOK
  <2>7. CASE UNCHANGED vars
    BY <2>7 DEF vars, TypeInv, TypeOK
  <2> QED
    BY <2>1, <2>2, <2>3, <2>4, <2>5, <2>6, <2>7 DEF Next, Parent, Child
<1>3. TypeInv => TypeOK
  BY DEF TypeInv
<1> QED
  BY <1>1, <1>2, <1>3, PTL DEF Spec

\* A process that has failed stays failed.
LEMMA FailureStays ==
  ASSUME TypeOK, [Next]_vars, NoFailure'
  PROVE  NoFailure
<1> SUFFICES ASSUME NEW q \in Pairs PROVE ppc[q] # "failed" /\ cpc[q] # "failed"
  BY DEF NoFailure
<1>1. ASSUME NEW p \in Pairs, Parent(p)
      PROVE  (ppc'[q] = ppc[q] \/ (q = p /\ ppc[q] # "failed")) /\ cpc' = cpc
  BY <1>1 DEF Parent, ParentSetup, ParentSend, ParentRecv, ParentPrint, ParentExit, TypeOK
<1>2. ASSUME NEW p \in Pairs, Child(p)
      PROVE  (cpc'[q] = cpc[q] \/ (q = p /\ cpc[q] # "failed")) /\ ppc' = ppc
  BY <1>2 DEF Child, ChildSetup, ChildRecv, ChildSend, ChildExit, TypeOK
<1>3. CASE UNCHANGED vars
  BY <1>3 DEF vars, NoFailure
<1> QED
  BY <1>1, <1>2, <1>3 DEF Next, NoFailure

\* Whichever child answers which parent, every request that waits for a reply
\* is one message under way, on top of what was in the queue at the start.
THEOREM ConservationCorrect == Spec => []Conservation
<1>1. Init => Conservation
  <2> SUFFICES ASSUME Init PROVE Conservation
    OBVIOUS
  <2>1. Answering = {} /\ Waiting = {}
    BY DEF Init, Answering, Waiting
  <2>2. Len(queue) \in Nat
    BY PingpongAssumption DEF Init
  <2> QED BY <2>1, <2>2, FS_EmptySet DEF Conservation, Init
<1>2. TypeOK /\ Conservation /\ [Next]_vars => Conservation'
  <2> SUFFICES ASSUME TypeOK, Conservation, [Next]_vars, NoFailure'
               PROVE  Len(queue') + Cardinality(Answering') = Cardinality(Waiting') + stale'
    BY DEF Conservation
  <2>1. /\ Len(queue) + Cardinality(Answering) = Cardinality(Waiting) + stale
        /\ Len(queue) \in Nat /\ stale \in Nat
        /\ DOMAIN ppc = Pairs /\ DOMAIN cpc = Pairs
    BY FailureStays DEF Conservation, TypeOK
  <2>2. /\ Cardinality(Answering) \in Nat /\ Cardinality(Waiting) \in Nat
        /\ IsFiniteSet(Answering) /\ IsFiniteSet(Waiting)
    BY PingpongAssumption, FS_Subset, FS_CardinalityType DEF Answering, Waiting
  <2>3. ASSUME NEW p \in Pairs, ParentSetup(p) \/ ParentPrint(p) \/ ParentExit(p)
        PROVE  UNCHANGED <<queue, stale, Answering, Waiting>>
    BY <2>1, <2>3 DEF ParentSetup, ParentPrint, ParentExit, AfterSetup, Answering, Waiting
  <2>4. ASSUME NEW p \in Pairs, ChildSetup(p) \/ ChildExit(p)
        PROVE  UNCHANGED <<queue, stale, Answering, Waiting>>
    BY <2>1, <2>4 DEF ChildSetup, ChildExit, AfterSetup, Answering, Waiting
  <2>5. ASSUME NEW p \in Pairs, ParentSend(p)
        PROVE  /\ Len(queue') = Len(queue) + 1 /\ Answering' = Answering
               /\ Cardinality(Waiting') = Cardinality(Waiting) + 1 /\ stale' = stale
    <3>1. /\ ppc' = [ppc EXCEPT ![p] = "recv"] /\ ppc[p] = "send"
          /\ queue' = Sent(SERVER_MESSAGE) /\ UNCHANGED <<cpc, stale>>
      BY <2>1, <2>5 DEF ParentSend, NoFailure
    <3>2. Cardinality(Waiting') = Cardinality(Waiting) + 1
      <4>1. Waiting' = Waiting \cup {p} /\ p \notin Waiting
        BY <2>1, <3>1 DEF Waiting
      <4> QED BY <2>2, <4>1, FS_AddElement
    <3> QED BY <3>1, <3>2, SentType DEF Answering, TypeOK
  <2>6. ASSUME NEW p \in Pairs, ParentRecv(p)
        PROVE  /\ Len(queue') = Len(queue) - 1 /\ Answering' = Answering
               /\ Cardinality(Waiting') = Cardinality(Waiting) - 1 /\ stale' = stale
    <3>1. PICK k \in 1 .. Len(queue) :
            /\ queue' = IF Received(k) THEN RemoveAt(queue, k) ELSE queue
            /\ IF Accepted(k) THEN ppc' = [ppc EXCEPT ![p] = "send"]
                              ELSE ppc' = [ppc EXCEPT ![p] = "failed"]
      BY <2>6 DEF ParentRecv
    <3>2. Accepted(k)
      BY <2>1, <3>1 DEF NoFailure
    <3>3. queue[k].size = MsgSize /\ MsgSize \in Nat
      BY <3>2, PingpongAssumption DEF Accepted
    <3>4. queue' = RemoveAt(queue, k)
      BY <3>1, <3>3 DEF Received
    <3>5. ppc' = [ppc EXCEPT ![p] = "send"] /\ ppc[p] = "recv" /\ UNCHANGED <<cpc, stale>>
      BY <2>6, <3>1, <3>2 DEF ParentRecv
    <3>6. Cardinality(Waiting') = Cardinality(Waiting) - 1
      <4>1. Waiting' = Waiting \ {p} /\ p \in Waiting
        BY <2>1, <3>5 DEF Waiting
      <4> QED BY <2>2, <4>1, FS_RemoveElement
    <3> QED BY <3>4, <3>5, <3>6, RemoveAtProperties DEF Answering, TypeOK
  <2>7. ASSUME NEW p \in Pairs, ChildRecv(p)
        PROVE  /\ Len(queue') = Len(queue) - 1 /\ Waiting' = Waiting
               /\ Cardinality(Answering') = Cardinality(Answering) + 1 /\ stale' = stale
    <3>1. PICK k \in 1 .. Len(queue) :
            /\ queue' = IF Received(k) THEN RemoveAt(queue, k) ELSE queue
            /\ cpc' = [cpc EXCEPT ![p] = IF Accepted(k) THEN "send" ELSE "failed"]
      BY <2>7 DEF ChildRecv
    <3>2. Accepted(k)
      BY <2>1, <3>1 DEF NoFailure
    <3>3. queue[k].size = MsgSize /\ MsgSize \in Nat
      BY <3>2, PingpongAssumption DEF Accepted
    <3>4. queue' = RemoveAt(queue, k)
      BY <3>1, <3>3 DEF Received
    <3>5. cpc' = [cpc EXCEPT ![p] = "send"] /\ cpc[p] = "recv" /\ UNCHANGED <<ppc, stale>>
      BY <2>7, <3>1, <3>2 DEF ChildRecv
    <3>6. Cardinality(Answering') = Cardinality(Answering) + 1
      <4>1. Answering' = Answering \cup {p} /\ p \notin Answering
        BY <2>1, <3>5 DEF Answering
      <4> QED BY <2>2, <4>1, FS_AddElement
    <3> QED BY <3>4, <3>5, <3>6, RemoveAtProperties DEF Waiting, TypeOK
  <2>8. ASSUME NEW p \in Pairs, ChildSend(p)
        PROVE  /\ Len(queue') = Len(queue) + 1 /\ Waiting' = Waiting
               /\ Cardinality(Answering') = Cardinality(Answering) - 1 /\ stale' = stale
    <3>1. /\ cpc' = [cpc EXCEPT ![p] = "recv"] /\ cpc[p] = "send"
          /\ queue' = Sent(CLIENT_MESSAGE) /\ UNCHANGED <<ppc, stale>>
      BY <2>8 DEF ChildSend
    <3>2. Cardinality(Answering') = Cardinality(Answering) - 1
      <4>1. Answering' = Answering \ {p} /\ p \in Answering
        BY <2>1, <3>1 DEF Answering
      <4> QED BY <2>2, <4>1, FS_RemoveElement
    <3> QED BY <3>1, <3>2, SentType DEF Waiting, TypeOK
  <2>9. CASE UNCHANGED vars
    BY <2>1, <2>9 DEF vars, Answering, Waiting
  <2>10. CASE \E p \in Pairs : Parent(p) \/ Child(p)
    <3>1. PICK p \in Pairs : Parent(p) \/ Child(p)
      BY <2>10
    <3>2. CASE Parent(p)
      <4>1. CASE ParentSetup(p) \/ ParentPrint(p) \/ ParentExit(p)
        BY <2>1, <2>3, <4>1
      <4>2. CASE ParentSend(p)
        BY <2>1, <2>2, <2>5, <4>2
      <4>3. CASE ParentRecv(p)
        BY <2>1, <2>2, <2>6, <4>3
      <4> QED BY <3>2, <4>1, <4>2, <4>3 DEF Parent
    <3>3. CASE Child(p)
      <4>1. CASE ChildSetup(p) \/ ChildExit(p)
        BY <2>1, <2>4, <4>1
      <4>2. CASE ChildRecv(p)
        BY <2>1, <2>2, <2>7, <4>2
      <4>3. CASE ChildSend(p)
        BY <2>1, <2>2, <2>8, <4>3
      <4> QED BY <3>3, <4>1, <4>2, <4>3 DEF Child
    <3> QED BY <3>1, <3>2, <3>3
  <2> QED BY <2>9, <2>10 DEF Next
<1> QED
  BY <1>1, <1>2, TypeCorrect, PTL DEF Spec

\* With room for one message per pair and the leftovers, msgsnd(IPC_NOWAIT) of a
\* parent never fails: the parent that sends is not one of those that wait.
THEOREM NoSendFailsCorrect == Spec => []NoSendFails
<1>1. TypeOK /\ Conservation => NoSendFails
  <2> SUFFICES ASSUME TypeOK, Conservation, NoFailure, Cap >= Cardinality(Pairs) + stale,
                      NEW p \in Pairs, ppc[p] = "send"
               PROVE  ~Full
    BY DEF NoSendFails
  <2>1. Waiting \subseteq Pairs \ {p}
    BY DEF Waiting
  <2>2. /\ IsFiniteSet(Pairs \ {p}) /\ Cardinality(Pairs \ {p}) = Cardinality(Pairs) - 1
        /\ Cardinality(Pairs) \in Nat
    BY PingpongAssumption, FS_RemoveElement, FS_CardinalityType
  <2>3. Cardinality(Waiting) <= Cardinality(Pairs) - 1 /\ Cardinality(Waiting) \in Nat
    BY <2>1, <2>2, FS_Subset, FS_CardinalityType
  <2>4. Cardinality(Answering) \in Nat
    BY PingpongAssumption, FS_Subset, FS_CardinalityType DEF Answering
  <2>5. Len(queue) \in Nat /\ stale \in Nat /\ Cap \in Nat
    BY PingpongAssumption DEF TypeOK
  <2> QED BY <2>2, <2>3, <2>4, <2>5 DEF Conservation, Full
<1> QED
  BY <1>1, TypeCorrect, ConservationCorrect, PTL

\* A run in which nothing fails leaves exactly as many messages as it found.
THEOREM LeftAsFoundCorrect == Spec => []LeftAsFound
<1>1. TypeOK /\ Conservation => LeftAsFound
  <2> SUFFICES ASSUME TypeOK, Conservation, AllDone PROVE Len(queue) = stale
    BY DEF LeftAsFound
  <2>1. NoFailure /\ Answering = {} /\ Waiting = {}
    BY DEF AllDone, NoFailure, Answering, Waiting
  <2>2. Len(queue) + Cardinality({}) = Cardinality({}) + stale
    BY <2>1 DEF Conservation
  <2> QED BY <2>2, FS_EmptySet DEF TypeOK
<1> QED
  BY <1>1, TypeCorrect, ConservationCorrect, PTL

\* Which message is where once one has been taken out.
LEMMA RemoveAtElements ==
  ASSUME NEW S, NEW s \in Seq(S), NEW k \in 1 .. Len(s), NEW j \in 1 .. Len(s) - 1
  PROVE  RemoveAt(s, k)[j] = IF j < k THEN s[j] ELSE s[j + 1]
<1> DEFINE a == SubSeq(s, 1, k - 1)
           b == SubSeq(s, k + 1, Len(s))
<1>1. Len(s) \in Nat /\ \A l \in 1 .. Len(s) : s[l] \in S
  OBVIOUS
<1>2. a \in Seq(S) /\ Len(a) = k - 1 /\ \A l \in 1 .. k - 1 : a[l] = s[l]
  <2>1. \A l \in 1 .. k - 1 : s[l] \in S
    BY <1>1
  <2>2. /\ a \in Seq(S) /\ Len(a) = IF 1 <= k - 1 THEN k - 1 - 1 + 1 ELSE 0
        /\ \A l \in 1 .. k - 1 - 1 + 1 : a[l] = s[1 + l - 1]
    BY <2>1, SubSeqProperties
  <2> QED BY <2>2
<1>3. b \in Seq(S) /\ Len(b) = Len(s) - k /\ \A l \in 1 .. Len(s) - k : b[l] = s[k + l]
  <2>1. \A l \in k + 1 .. Len(s) : s[l] \in S
    BY <1>1
  <2>2. /\ b \in Seq(S) /\ Len(b) = IF k + 1 <= Len(s) THEN Len(s) - (k + 1) + 1 ELSE 0
        /\ \A l \in 1 .. Len(s) - (k + 1) + 1 : b[l] = s[k + 1 + l - 1]
    BY <1>1, <2>1, SubSeqProperties
  <2> QED BY <1>1, <2>2
<1>4. RemoveAt(s, k) = a \o b
  BY DEF RemoveAt
<1> HIDE DEF a, b
<1>5. \A l \in 1 .. Len(a) + Len(b) : (a \o b)[l] = IF l <= Len(a) THEN a[l] ELSE b[l - Len(a)]
  BY <1>2, <1>3, ConcatProperties
<1>6. PICK n \in Nat : n = Len(s)
  BY <1>1
<1>7. CASE j < k
  <2>1. j \in 1 .. Len(a) + Len(b) /\ j <= Len(a) /\ j \in 1 .. k - 1
    BY <1>2, <1>3, <1>6, <1>7
  <2> QED BY <1>2, <1>4, <1>5, <1>7, <2>1
<1>8. CASE ~(j < k)
  <2>1. /\ j \in 1 .. Len(a) + Len(b) /\ ~(j <= Len(a)) /\ j - Len(a) \in 1 .. Len(s) - k
        /\ k + (j - Len(a)) = j + 1
    BY <1>2, <1>3, <1>6, <1>8
  <2>2. (a \o b)[j] = s[k + (j - Len(a))]
    BY <1>3, <1>5, <2>1
  <2> QED BY <1>4, <1>8, <2>1, <2>2
<1> QED BY <1>7, <1>8

\* A message that is too large stays the next one of its type when another is sent.
LEMMA OversizedSent ==
  ASSUME TypeOK, NEW u \in {CLIENT_MESSAGE, SERVER_MESSAGE}, Oversized(u),
         NEW t \in {CLIENT_MESSAGE, SERVER_MESSAGE}, queue' = Sent(t)
  PROVE  Oversized(u)'
<1>1. PICK k \in 1 .. Len(queue) : First(u, k) /\ queue[k].size > MsgSize
  BY DEF Oversized
<1>2. queue \in Seq(Message) /\ Len(queue) \in Nat
  BY DEF TypeOK
<1> DEFINE m == [type |-> t, size |-> MsgSize]
<1>3. m \in Message
  BY PingpongAssumption DEF Message
<1>4. queue' = Append(queue, m)
  BY DEF Sent
<1> HIDE DEF m
<1>5. Len(queue') = Len(queue) + 1 /\ \A l \in 1 .. Len(queue) : queue'[l] = queue[l]
  BY <1>2, <1>3, <1>4, AppendProperties
<1>6. k \in 1 .. Len(queue') /\ \A l \in 1 .. k - 1 : l \in 1 .. Len(queue)
  BY <1>2, <1>5
<1> QED BY <1>1, <1>5, <1>6 DEF Oversized, First

\* A process that asks for that type fails and leaves it there; one that asks for the
\* other type takes nothing that is in front of it of its type.
LEMMA OversizedReceived ==
  ASSUME TypeOK, NEW u \in {CLIENT_MESSAGE, SERVER_MESSAGE}, Oversized(u),
         NEW t \in {CLIENT_MESSAGE, SERVER_MESSAGE}, NEW j \in 1 .. Len(queue), First(t, j),
         queue' = IF Received(j) THEN RemoveAt(queue, j) ELSE queue
  PROVE  Oversized(u)' /\ (t = u => ~Accepted(j))
<1>1. PICK k \in 1 .. Len(queue) : First(u, k) /\ queue[k].size > MsgSize
  BY DEF Oversized
<1>2. /\ queue \in Seq(Message) /\ Len(queue) \in Nat
      /\ queue[k].type = u /\ \A l \in 1 .. k - 1 : queue[l].type # u
      /\ queue[j].type = t /\ \A l \in 1 .. j - 1 : queue[l].type # t
  BY <1>1 DEF TypeOK, First
<1>3. CASE t = u
  <2>1. j = k
    <3>1. ~(j \in 1 .. k - 1) /\ ~(k \in 1 .. j - 1)
      BY <1>2, <1>3
    <3> QED BY <3>1
  <2>2. queue[k].size \in Nat /\ MsgSize \in Nat
    <3>1. queue[k] \in Message
      BY <1>2
    <3> QED BY <3>1, PingpongAssumption DEF Message
  <2>3. ~Received(j) /\ ~Accepted(j)
    BY <1>1, <2>1, <2>2 DEF Received, Accepted
  <2> QED BY <1>1, <2>3 DEF Oversized, First
<1>4. CASE t # u /\ queue' = queue
  BY <1>1, <1>4 DEF Oversized, First
<1>5. CASE t # u /\ queue' = RemoveAt(queue, j)
  <2>1. /\ Len(queue') = Len(queue) - 1
        /\ \A l \in 1 .. Len(queue) - 1 : queue'[l] = IF l < j THEN queue[l] ELSE queue[l + 1]
    BY <1>2, <1>5, RemoveAtProperties, RemoveAtElements
  <2>2. j # k
    BY <1>2, <1>5
  <2>3. CASE j < k
    <3>1. PICK n \in 1 .. Len(queue') : n = k - 1 /\ n + 1 = k /\ ~(n < j)
      <4>1. k - 1 \in 1 .. Len(queue') /\ (k - 1) + 1 = k /\ ~(k - 1 < j)
        BY <1>2, <2>1, <2>3
      <4> QED BY <4>1
    <3>2. queue'[n] = queue[k]
      BY <2>1, <3>1
    <3>3. ASSUME NEW l \in 1 .. n - 1 PROVE queue'[l].type # u
      <4>1. l \in 1 .. Len(queue) - 1 /\ l \in 1 .. k - 1 /\ l + 1 \in 1 .. k - 1
        BY <1>2, <3>1
      <4> QED BY <1>2, <2>1, <4>1
    <3> QED BY <1>1, <1>2, <1>5, <3>2, <3>3 DEF Oversized, First
  <2>4. CASE k < j
    <3>1. k \in 1 .. Len(queue') /\ \A l \in 1 .. k : l \in 1 .. Len(queue) - 1 /\ l < j
      BY <1>2, <2>1, <2>4
    <3>2. \A l \in 1 .. k : queue'[l] = queue[l]
      BY <2>1, <3>1
    <3>3. k \in 1 .. k /\ \A l \in 1 .. k - 1 : l \in 1 .. k
      OBVIOUS
    <3> QED BY <1>1, <1>2, <1>5, <3>1, <3>2, <3>3 DEF Oversized, First
  <2> QED BY <1>5, <2>2, <2>3, <2>4
<1> QED BY <1>3, <1>4, <1>5

\* A message that is too large for this run stays where it is, E2BIG for every process
\* that asks for its type: no request behind it is answered, or no parent completes
\* another round, although each of the processes only ever fails on its own.
THEOREM PoisonCorrect == Spec => Poison
<1> DEFINE ReqStep == Oversized(SERVER_MESSAGE)' /\ Answering' \subseteq Answering
           ReplyStep == Oversized(CLIENT_MESSAGE)' /\ pi' = pi
<1>1. ASSUME TypeOK, [Next]_vars, Oversized(SERVER_MESSAGE) PROVE ReqStep
  <2>1. DOMAIN cpc = Pairs
    BY <1>1 DEF TypeOK
  <2>2. ASSUME UNCHANGED queue PROVE Oversized(SERVER_MESSAGE)'
    BY <1>1, <2>2 DEF Oversized, First
  <2>3. ASSUME NEW t \in {CLIENT_MESSAGE, SERVER_MESSAGE}, queue' = Sent(t)
        PROVE  Oversized(SERVER_MESSAGE)'
    BY <1>1, <2>3, OversizedSent
  <2>4. ASSUME NEW p \in Pairs, Parent(p) PROVE ReqStep
    <3>1. cpc' = cpc
      BY <2>4 DEF Parent, ParentSetup, ParentSend, ParentRecv, ParentPrint, ParentExit
    <3>2. CASE ParentRecv(p)
      <4>1. PICK j \in 1 .. Len(queue) :
              First(CLIENT_MESSAGE, j) /\ queue' = IF Received(j) THEN RemoveAt(queue, j) ELSE queue
        BY <3>2 DEF ParentRecv
      <4> QED BY <1>1, <3>1, <4>1, OversizedReceived DEF Answering
    <3>3. CASE ~ParentRecv(p)
      <4>1. UNCHANGED queue \/ queue' = Sent(SERVER_MESSAGE)
        BY <2>4, <3>3 DEF Parent, ParentSetup, ParentSend, ParentPrint, ParentExit
      <4> QED BY <2>2, <2>3, <3>1, <4>1 DEF Answering
    <3> QED BY <3>2, <3>3
  <2>5. ASSUME NEW p \in Pairs, Child(p) PROVE ReqStep
    <3>1. CASE ChildRecv(p)
      <4>1. PICK j \in 1 .. Len(queue) :
              /\ First(SERVER_MESSAGE, j)
              /\ queue' = IF Received(j) THEN RemoveAt(queue, j) ELSE queue
              /\ cpc' = [cpc EXCEPT ![p] = IF Accepted(j) THEN "send" ELSE "failed"]
        BY <3>1 DEF ChildRecv
      <4>2. Oversized(SERVER_MESSAGE)' /\ ~Accepted(j)
        BY <1>1, <4>1, OversizedReceived
      <4> QED BY <2>1, <4>1, <4>2 DEF Answering
    <3>2. CASE ChildSetup(p) \/ ChildExit(p)
      BY <2>1, <2>2, <3>2 DEF ChildSetup, ChildExit, AfterSetup, Answering
    <3>3. CASE ChildSend(p)
      BY <2>1, <2>3, <3>3 DEF ChildSend, Answering
    <3> QED BY <2>5, <3>1, <3>2, <3>3 DEF Child
  <2>6. CASE UNCHANGED vars
    BY <2>2, <2>6 DEF vars, Answering
  <2> QED BY <1>1, <2>4, <2>5, <2>6 DEF Next
<1>2. ASSUME TypeOK, [Next]_vars, Oversized(CLIENT_MESSAGE) PROVE ReplyStep
  <2>1. ASSUME UNCHANGED queue PROVE Oversized(CLIENT_MESSAGE)'
    BY <1>2, <2>1 DEF Oversized, First
  <2>2. ASSUME NEW t \in {CLIENT_MESSAGE, SERVER_MESSAGE}, queue' = Sent(t)
        PROVE  Oversized(CLIENT_MESSAGE)'
    BY <1>2, <2>2, OversizedSent
  <2>3. ASSUME NEW p \in Pairs, Parent(p) PROVE ReplyStep
    <3>1. CASE ParentRecv(p)
      <4>1. PICK j \in 1 .. Len(queue) :
              /\ First(CLIENT_MESSAGE, j)
              /\ queue' = IF Received(j) THEN RemoveAt(queue, j) ELSE queue
              /\ ~Accepted(j) => UNCHANGED pi
        BY <3>1 DEF ParentRecv
      <4>2. Oversized(CLIENT_MESSAGE)' /\ ~Accepted(j)
        BY <1>2, <4>1, OversizedReceived
      <4> QED BY <4>1, <4>2
    <3>2. CASE ~ParentRecv(p)
      <4>1. pi' = pi /\ (UNCHANGED queue \/ queue' = Sent(SERVER_MESSAGE))
        BY <2>3, <3>2 DEF Parent, ParentSetup, ParentSend, ParentPrint, ParentExit
      <4> QED BY <2>1, <2>2, <4>1
    <3> QED BY <3>1, <3>2
  <2>4. ASSUME NEW p \in Pairs, Child(p) PROVE ReplyStep
    <3>1. pi' = pi
      BY <2>4 DEF Child, ChildSetup, ChildRecv, ChildSend, ChildExit
    <3>2. CASE ChildRecv(p)
      <4>1. PICK j \in 1 .. Len(queue) :
              First(SERVER_MESSAGE, j) /\ queue' = IF Received(j) THEN RemoveAt(queue, j) ELSE queue
        BY <3>2 DEF ChildRecv
      <4> QED BY <1>2, <3>1, <4>1, OversizedReceived
    <3>3. CASE ~ChildRecv(p)
      <4>1. UNCHANGED queue \/ queue' = Sent(CLIENT_MESSAGE)
        BY <2>4, <3>3 DEF Child, ChildSetup, ChildSend, ChildExit
      <4> QED BY <2>1, <2>2, <3>1, <4>1
    <3> QED BY <3>2, <3>3
  <2>5. CASE UNCHANGED vars
    BY <2>1, <2>5 DEF vars
  <2> QED BY <1>2, <2>3, <2>4, <2>5 DEF Next
<1>3. ASSUME TypeOK, [Next]_vars
      PROVE  [/\ Oversized(SERVER_MESSAGE) => ReqStep
              /\ Oversized(CLIENT_MESSAGE) => ReplyStep]_vars
  BY <1>1, <1>2, <1>3
<1> QED
  BY <1>3, TypeCorrect, PTL DEF Spec, Poison

-----------------------------------------------------------------------------
(* netlat.c *)

(* Datagrams with numbers.  Near(s, n): the k-th of them is at least n + k, so *)
(* it is behind its place by no more than n allows.                            *)

Near(s, n) == \A k \in 1 .. Len(s) : s[k] >= n + k

\* The first datagram is taken away.
LEMMA TailLemma ==
  ASSUME NEW s \in Seq(Nat), NEW n \in Int, s # <<>>, Near(s, n)
  PROVE  /\ Head(s) \in Nat /\ Head(s) >= n + 1 /\ Head(s) = s[1] /\ 1 \in 1 .. Len(s)
         /\ Tail(s) \in Seq(Nat) /\ Len(Tail(s)) = Len(s) - 1
         /\ Near(Tail(s), n + 1) /\ Near(Tail(s), n)
         /\ \A k \in 1 .. Len(Tail(s)) : k + 1 \in 1 .. Len(s) /\ Tail(s)[k] = s[k + 1]
<1>1. /\ Len(s) \in Nat /\ 1 \in 1 .. Len(s) /\ Head(s) = s[1] /\ Head(s) \in Nat
      /\ Tail(s) \in Seq(Nat) /\ Len(Tail(s)) = Len(s) - 1
      /\ \A k \in 1 .. Len(Tail(s)) : Tail(s)[k] = s[k + 1]
  BY HeadTailProperties, EmptySeq
<1>2. \A k \in 1 .. Len(Tail(s)) : k + 1 \in 1 .. Len(s)
  BY <1>1
<1>3. \A k \in 1 .. Len(s) : s[k] \in Nat
  OBVIOUS
<1>4. \A k \in 1 .. Len(Tail(s)) : Tail(s)[k] \in Nat /\ Tail(s)[k] >= n + (k + 1)
  BY <1>1, <1>2, <1>3 DEF Near
<1>5. Near(Tail(s), n + 1) /\ Near(Tail(s), n)
  BY <1>1, <1>4 DEF Near
<1>6. Head(s) >= n + 1
  BY <1>1 DEF Near
<1> QED BY <1>1, <1>2, <1>5, <1>6

\* A datagram is added at the end.
LEMMA AppendLemma ==
  ASSUME NEW s \in Seq(Nat), NEW n \in Int, Near(s, n),
         NEW m \in Nat, m >= n + Len(s) + 1
  PROVE  Len(Append(s, m)) = Len(s) + 1 /\ Near(Append(s, m), n)
<1>1. /\ Len(s) \in Nat /\ Len(Append(s, m)) = Len(s) + 1
      /\ \A k \in 1 .. Len(s) : Append(s, m)[k] = s[k]
      /\ Append(s, m)[Len(s) + 1] = m
  BY AppendProperties
<1>2. \A k \in 1 .. Len(s) + 1 : k \in 1 .. Len(s) \/ k = Len(s) + 1
  BY <1>1
<1>3. m >= n + (Len(s) + 1)
  BY <1>1
<1> QED BY <1>1, <1>2, <1>3 DEF Near

\* The first datagram is duplicated.
LEMMA DuplicateLemma ==
  ASSUME NEW s \in Seq(Nat), NEW n \in Int, s # <<>>, Near(s, n)
  PROVE  Len(<<Head(s)>> \o s) = Len(s) + 1 /\ Near(<<Head(s)>> \o s, n - 1)
<1> DEFINE h == <<Head(s)>>
<1>1. /\ Len(s) \in Nat /\ 1 \in 1 .. Len(s) /\ Head(s) = s[1] /\ Head(s) \in Nat
  BY TailLemma
<1>2. \A k \in 1 .. Len(s) : s[k] \in Nat
  OBVIOUS
<1>3. h \in Seq(Nat) /\ Len(h) = 1 /\ h[1] = s[1]
  BY <1>1
<1> HIDE DEF h
<1>4. /\ Len(h \o s) = Len(h) + Len(s)
      /\ \A k \in 1 .. Len(h) + Len(s) : (h \o s)[k] = IF k <= Len(h) THEN h[k] ELSE s[k - Len(h)]
  BY <1>3, ConcatProperties
<1>5. /\ Len(h \o s) = Len(s) + 1
      /\ \A k \in 1 .. Len(s) + 1 : (h \o s)[k] = IF k <= 1 THEN h[k] ELSE s[k - 1]
  BY <1>1, <1>3, <1>4
<1>6. ASSUME NEW k \in 1 .. Len(s) + 1 PROVE (h \o s)[k] >= n - 1 + k
  <2>1. CASE k = 1
    <3>1. s[1] \in Nat /\ s[1] >= n + 1
      BY <1>1 DEF Near
    <3> QED BY <1>3, <1>5, <2>1, <3>1
  <2>2. CASE k # 1
    <3>1. k - 1 \in 1 .. Len(s) /\ ~(k <= 1)
      BY <1>1, <2>2
    <3>2. s[k - 1] \in Nat /\ s[k - 1] >= n + (k - 1)
      BY <1>1, <1>2, <3>1 DEF Near
    <3> QED BY <1>5, <3>1, <3>2
  <2> QED BY <2>1, <2>2
<1>7. Near(h \o s, n - 1)
  BY <1>5, <1>6 DEF Near
<1> QED BY <1>5, <1>7 DEF h

\* A datagram gets in front of its neighbour.
LEMMA SwappedType ==
  ASSUME NEW S, NEW s \in Seq(S), NEW k \in 1 .. Len(s) - 1
  PROVE  Swapped(s, k) \in Seq(S) /\ Len(Swapped(s, k)) = Len(s)
<1> DEFINE t == [s EXCEPT ![k] = s[k + 1]]
<1>1. Len(s) \in Nat
  BY LenProperties
<1>2. k \in 1 .. Len(s) /\ k + 1 \in 1 .. Len(s)
  BY <1>1
<1>3. s[k] \in S /\ s[k + 1] \in S
  BY <1>2, ElementOfSeq
<1>4. t \in Seq(S) /\ Len(t) = Len(s)
  BY <1>2, <1>3, ExceptSeq
<1>5. Swapped(s, k) = [t EXCEPT ![k + 1] = s[k]]
  BY DEF Swapped
<1> HIDE DEF t
<1> QED BY <1>2, <1>3, <1>4, <1>5, ExceptSeq

LEMMA SwappedLemma ==
  ASSUME NEW s \in Seq(Nat), NEW n \in Int, Near(s, n), NEW k \in 1 .. Len(s) - 1
  PROVE  Len(Swapped(s, k)) = Len(s) /\ Near(Swapped(s, k), n - 1)
<1>1. /\ Len(s) \in Nat /\ k \in 1 .. Len(s) /\ k + 1 \in 1 .. Len(s)
      /\ Len(Swapped(s, k)) = Len(s)
  BY SwappedType
<1>2. \A j \in 1 .. Len(s) : s[j] \in Nat /\ s[j] >= n + j
  BY DEF Near
<1>3. ASSUME NEW j \in 1 .. Len(s) PROVE Swapped(s, k)[j] >= n - 1 + j
  <2>1. Swapped(s, k)[j] = IF j = k + 1 THEN s[k] ELSE IF j = k THEN s[k + 1] ELSE s[j]
    BY <1>1 DEF Swapped
  <2>2. PICK a \in Nat, b \in Nat, c \in Nat :
          /\ a = s[k] /\ a >= n + k /\ b = s[k + 1] /\ b >= n + (k + 1)
          /\ c = s[j] /\ c >= n + j
    BY <1>1, <1>2
  <2>3. Swapped(s, k)[j] = IF j = k + 1 THEN a ELSE IF j = k THEN b ELSE c
    BY <2>1, <2>2
  <2>4. CASE j = k + 1
    BY <2>2, <2>3, <2>4
  <2>5. CASE j = k
    BY <2>2, <2>3, <2>5
  <2>6. CASE j # k /\ j # k + 1
    BY <2>2, <2>3, <2>6
  <2> QED BY <2>4, <2>5, <2>6
<1>4. Near(Swapped(s, k), n - 1)
  BY <1>1, <1>3 DEF Near
<1> QED BY <1>1, <1>4

LEMMA NearWeaker ==
  ASSUME NEW s \in Seq(Nat), NEW n \in Int, Near(s, n)
  PROVE  Near(s, n - 1)
<1>1. Len(s) \in Nat /\ \A k \in 1 .. Len(s) : s[k] \in Nat
  OBVIOUS
<1> QED BY <1>1 DEF Near

-----------------------------------------------------------------------------
(* Type correctness.  While send_recv() runs, there is something left to do. *)

NetTypeInv == NetTypeOK /\ (pc = "recv" => ~Done)

\* The number of a new request makes no old one invalid.
LEMMA SeqGrows ==
  ASSUME NEW n \in Nat, NEW s \in Seq(1 .. n)
  PROVE  s \in Seq(1 .. n + 1) /\ Append(s, n + 1) \in Seq(1 .. n + 1)
<1>1. s \in Seq(1 .. n + 1)
  BY SeqMonotonic
<1> QED
  BY <1>1, AppendProperties

LEMMA ReturnedType ==
  ASSUME NetTypeInv, pc = "recv", NEW r \in {0, 1}, Returned(r)
  PROVE  rounds' \in 0 .. WARMUP /\ num' \in 0 .. COUNT /\ pc' = "send"
  BY NetlatAssumption DEF NetTypeInv, NetTypeOK, Returned, Done

LEMMA NetTypeStep ==
  ASSUME NetTypeInv, [NetNext]_netVars PROVE NetTypeInv'
<1> USE NetlatAssumption
<1>1. CASE Send
  <2>1. CASE refused
    BY <1>1, <2>1 DEF Send, NetTypeInv, NetTypeOK, Done, faults
  <2>2. CASE ~refused
    <3>1. /\ up' \in Seq(1 .. sent') /\ down' \in Seq(1 .. sent') /\ rcvbuf' \in Seq(1 .. sent')
          /\ sent' \in Nat
      <4>1. /\ sent \in Nat /\ sent' = sent + 1 /\ up' = Append(up, sent + 1)
            /\ down' = down /\ rcvbuf' = rcvbuf
            /\ up \in Seq(1 .. sent) /\ down \in Seq(1 .. sent) /\ rcvbuf \in Seq(1 .. sent)
        BY <1>1, <2>2 DEF Send, NetTypeInv, NetTypeOK
      <4> QED BY <4>1, SeqGrows
    <3> QED BY <1>1, <2>2, <3>1 DEF Send, NetTypeInv, NetTypeOK, Done, faults
  <2> QED BY <2>1, <2>2
<1>2. CASE Read
  <2>1. Head(rcvbuf) \in 1 .. sent /\ rcvbuf' \in Seq(1 .. sent)
    BY <1>2, HeadTailProperties DEF Read, NetTypeInv, NetTypeOK
  <2>2. pairs' \in Seq([req : Nat, ans : Nat])
    BY <1>2, <2>1, AppendProperties DEF Read, NetTypeInv, NetTypeOK
  <2> QED BY <1>2, <2>1, <2>2, ReturnedType DEF Read, NetTypeInv, NetTypeOK, faults
<1>3. CASE Timeout
  <2>1. rounds' \in 0 .. WARMUP /\ num' \in 0 .. COUNT /\ pc' = "send"
    BY <1>3, ReturnedType DEF Timeout, ReadFails, IgnoredErrors
  <2>2. misses' \in Nat /\ ignored' \subseteq {"EAGAIN", "ECONNREFUSED"}
    <3>1. misses' = misses + 1 /\ ignored' = ignored \cup {"EAGAIN"}
      BY <1>3 DEF Timeout, ReadFails, IgnoredErrors
    <3>2. misses \in Nat /\ ignored \subseteq {"EAGAIN", "ECONNREFUSED"}
      BY DEF NetTypeInv, NetTypeOK
    <3> QED BY <3>1, <3>2
  <2> QED BY <1>3, <2>1, <2>2 DEF Timeout, ReadFails, NetTypeInv, NetTypeOK, net
<1>4. CASE ReadRefused
  <2>1. rounds' \in 0 .. WARMUP /\ num' \in 0 .. COUNT /\ pc' = "send"
    BY <1>4, ReturnedType DEF ReadRefused, ReadFails, IgnoredErrors
  <2>2. misses' \in Nat /\ ignored' \subseteq {"EAGAIN", "ECONNREFUSED"}
    <3>1. misses' = misses + 1 /\ ignored' = ignored \cup {"ECONNREFUSED"}
      BY <1>4 DEF ReadRefused, ReadFails, IgnoredErrors
    <3>2. misses \in Nat /\ ignored \subseteq {"EAGAIN", "ECONNREFUSED"}
      BY DEF NetTypeInv, NetTypeOK
    <3> QED BY <3>1, <3>2
  <2> QED BY <1>4, <2>1, <2>2 DEF ReadRefused, ReadFails, NetTypeInv, NetTypeOK, net, faults
<1>5. CASE Finish
  BY <1>5 DEF Finish, NetTypeInv, NetTypeOK, net, faults
<1>6. CASE Echo
  <2>1. up' \in Seq(1 .. sent) /\ down' \in Seq(1 .. sent)
    BY <1>6, HeadTailProperties, AppendProperties DEF Echo, NetTypeInv, NetTypeOK
  <2> QED BY <1>6, <2>1 DEF Echo, NetTypeInv, NetTypeOK, program, faults, Done
<1>7. CASE Deliver
  <2>1. down' \in Seq(1 .. sent) /\ rcvbuf' \in Seq(1 .. sent)
    BY <1>7, HeadTailProperties, AppendProperties DEF Deliver, NetTypeInv, NetTypeOK
  <2> QED BY <1>7, <2>1 DEF Deliver, NetTypeInv, NetTypeOK, program, faults, Done
<1>8. CASE PortClosed
  <2>1. up' \in Seq(1 .. sent)
    BY <1>8, HeadTailProperties DEF PortClosed, NetTypeInv, NetTypeOK
  <2> QED BY <1>8, <2>1 DEF PortClosed, NetTypeInv, NetTypeOK, program, Done
<1>9. CASE Lose
  <2>1. up' \in Seq(1 .. sent) /\ down' \in Seq(1 .. sent)
    <3>1. /\ up' = up \/ (up # <<>> /\ up' = Tail(up))
          /\ down' = down \/ (down # <<>> /\ down' = Tail(down))
          /\ up \in Seq(1 .. sent) /\ down \in Seq(1 .. sent)
      BY <1>9 DEF Lose, NetTypeInv, NetTypeOK
    <3> QED BY <3>1, HeadTailProperties
  <2> QED BY <1>9, <2>1 DEF Lose, NetTypeInv, NetTypeOK, program, Done
<1>10. CASE Duplicate
  <2>1. up' \in Seq(1 .. sent) /\ down' \in Seq(1 .. sent)
    <3>1. /\ up' = up \/ (up # <<>> /\ up' = <<Head(up)>> \o up)
          /\ down' = down \/ (down # <<>> /\ down' = <<Head(down)>> \o down)
          /\ up \in Seq(1 .. sent) /\ down \in Seq(1 .. sent)
      BY <1>10 DEF Duplicate, NetTypeInv, NetTypeOK
    <3>2. ASSUME NEW s \in Seq(1 .. sent), s # <<>> PROVE <<Head(s)>> \o s \in Seq(1 .. sent)
      <4>1. Head(s) \in 1 .. sent
        BY <3>2, HeadTailProperties
      <4>2. <<Head(s)>> \in Seq(1 .. sent)
        BY <4>1
      <4> QED BY <4>2, ConcatProperties
    <3> QED BY <3>1, <3>2
  <2> QED BY <1>10, <2>1 DEF Duplicate, NetTypeInv, NetTypeOK, program, Done
<1>11. CASE Overtake
  <2>1. up' \in Seq(1 .. sent) /\ down' \in Seq(1 .. sent)
    <3>1. /\ up' = up \/ \E k \in 1 .. Len(up) - 1 : up' = Swapped(up, k)
          /\ down' = down \/ \E k \in 1 .. Len(down) - 1 : down' = Swapped(down, k)
          /\ up \in Seq(1 .. sent) /\ down \in Seq(1 .. sent)
      BY <1>11 DEF Overtake, NetTypeInv, NetTypeOK
    <3> QED BY <3>1, SwappedType
  <2> QED BY <1>11, <2>1 DEF Overtake, NetTypeInv, NetTypeOK, program, Done
<1>12. CASE UNCHANGED netVars
  BY <1>12 DEF netVars, net, faults, NetTypeInv, NetTypeOK, Done
<1> QED
  BY <1>1, <1>2, <1>3, <1>4, <1>5, <1>6, <1>7, <1>8, <1>9, <1>10, <1>11, <1>12
  DEF NetNext, Client, Network

LEMMA NetTypeInit == ASSUME NetInit PROVE NetTypeInv
<1>1. /\ up \in Seq(1 .. sent) /\ down \in Seq(1 .. sent) /\ rcvbuf \in Seq(1 .. sent)
      /\ pairs \in Seq([req : Nat, ans : Nat])
  BY EmptySeq DEF NetInit
<1>2. ignored \subseteq {"EAGAIN", "ECONNREFUSED"} /\ refused \in BOOLEAN
  BY DEF NetInit
<1> QED BY NetlatAssumption, <1>1, <1>2 DEF NetInit, NetTypeInv, NetTypeOK

-----------------------------------------------------------------------------
(* Which request a datagram belongs to, and how many datagrams there are. *)

Base == Len(pairs) - duplicates - overtakings

\* A datagram with m others before it, in the network or already read, is not older than
\* request m + 1, but for duplicates and for those that were overtaken.
NearInv ==
  /\ Near(rcvbuf, Base)
  /\ Near(down, Base + Len(rcvbuf))
  /\ Near(up, Base + Len(rcvbuf) + Len(down))

\* Every call of send_recv() ended with an answer or a miss, or is waiting for one.
CallsInv == sent = Len(pairs) + misses + (IF pc = "recv" THEN 1 ELSE 0)

NetlatInv == NearInv /\ CallsInv /\ Backlog /\ LagBounded

\* What the steps below need of the types.
NetTyped ==
  /\ pc \in {"send", "recv", "done", "failed"}
  /\ sent \in Nat /\ misses \in Nat /\ lost \in Nat /\ nrefused \in Nat
  /\ duplicates \in Nat /\ overtakings \in Nat
  /\ up \in Seq(Nat) /\ down \in Seq(Nat) /\ rcvbuf \in Seq(Nat)
  /\ \A k \in 1 .. Len(rcvbuf) : rcvbuf[k] <= sent
  /\ pairs \in Seq([req : Nat, ans : Nat])

LEMMA NetlatTypes == NetTypeInv => NetTyped
<1> SUFFICES ASSUME NetTypeInv PROVE NetTyped
  OBVIOUS
<1>1. /\ pc \in {"send", "recv", "done", "failed"}
      /\ sent \in Nat /\ misses \in Nat /\ lost \in Nat /\ nrefused \in Nat
      /\ duplicates \in Nat /\ overtakings \in Nat
      /\ up \in Seq(1 .. sent) /\ down \in Seq(1 .. sent) /\ rcvbuf \in Seq(1 .. sent)
      /\ pairs \in Seq([req : Nat, ans : Nat])
  BY NetlatAssumption DEF NetTypeInv, NetTypeOK
<1>2. 1 .. sent \subseteq Nat
  BY <1>1
<1>3. up \in Seq(Nat) /\ down \in Seq(Nat) /\ rcvbuf \in Seq(Nat)
  BY <1>1, <1>2, SeqMonotonic
<1>4. \A k \in 1 .. Len(rcvbuf) : rcvbuf[k] \in 1 .. sent
  BY <1>1, ElementOfSeq
<1> QED BY <1>1, <1>3, <1>4 DEF NetTyped

\* The numbers in NearInv and Backlog.
LEMMA NetlatNumbers ==
  ASSUME NetTyped, NearInv
  PROVE  /\ Len(up) \in Nat /\ Len(down) \in Nat /\ Len(rcvbuf) \in Nat /\ Len(pairs) \in Nat
         /\ \E r, d, u \in Int :
              /\ r = Base /\ d = Base + Len(rcvbuf) /\ u = Base + Len(rcvbuf) + Len(down)
              /\ Near(rcvbuf, r) /\ Near(down, d) /\ Near(up, u)
<1>1. Len(up) \in Nat /\ Len(down) \in Nat /\ Len(rcvbuf) \in Nat /\ Len(pairs) \in Nat
  BY DEF NetTyped
<1>2. Base \in Int
  BY <1>1 DEF NetTyped, Base
<1>3. Base + Len(rcvbuf) \in Int /\ Base + Len(rcvbuf) + Len(down) \in Int
  BY <1>1, <1>2
<1> QED BY <1>1, <1>2, <1>3 DEF NearInv

\* A sample stays within the bound while the faults only become more.
LEMMA LagStays ==
  ASSUME NetTyped, NetTyped', LagBounded, pairs' = pairs,
         misses' >= misses, duplicates' >= duplicates, overtakings' >= overtakings
  PROVE  LagBounded'
<1>1. ASSUME NEW k \in 1 .. Len(pairs)
      PROVE  /\ pairs[k].ans <= pairs[k].req
             /\ pairs[k].req - pairs[k].ans <= misses' + duplicates' + overtakings'
  <2>1. /\ pairs[k].ans <= pairs[k].req
        /\ pairs[k].req - pairs[k].ans <= misses + duplicates + overtakings
    BY <1>1 DEF LagBounded
  <2>2. pairs[k].ans \in Nat /\ pairs[k].req \in Nat
    <3>1. pairs[k] \in [req : Nat, ans : Nat]
      BY <1>1, ElementOfSeq DEF NetTyped
    <3> QED BY <3>1
  <2>3. /\ misses \in Nat /\ duplicates \in Nat /\ overtakings \in Nat
        /\ misses' \in Nat /\ duplicates' \in Nat /\ overtakings' \in Nat
    BY DEF NetTyped
  <2>4. PICK m \in Nat, d \in Nat, o \in Nat : m = misses /\ d = duplicates /\ o = overtakings
    BY <2>3
  <2>5. PICK m1 \in Nat, d1 \in Nat, o1 \in Nat :
          m1 = misses' /\ d1 = duplicates' /\ o1 = overtakings'
    BY <2>3
  <2>6. PICK ans \in Nat, req \in Nat : ans = pairs[k].ans /\ req = pairs[k].req
    BY <2>2
  <2>7. m <= m1 /\ d <= d1 /\ o <= o1
    BY <2>4, <2>5
  <2>8. ans <= req /\ req - ans <= m + d + o
    BY <2>1, <2>4, <2>6
  <2>9. req - ans <= m1 + d1 + o1
    BY ONLY <2>7, <2>8
  <2> QED BY <2>5, <2>6, <2>8, <2>9
<1> QED BY <1>1 DEF LagBounded

\* The request that is sent has the next number.
LEMMA SendStep ==
  ASSUME NetTyped, NetTyped', NetlatInv, Send PROVE NetlatInv'
<1>1. CASE refused
  BY <1>1 DEF Send, faults, NetlatInv, NearInv, Base, CallsInv, Backlog, LagBounded
<1>2. CASE ~refused
  <2>1. /\ up' = Append(up, sent + 1) /\ sent' = sent + 1 /\ pc' = "recv" /\ pc = "send"
        /\ UNCHANGED <<down, rcvbuf, pairs, misses, lost, nrefused, duplicates, overtakings>>
    BY <1>2 DEF Send, faults
  <2>2. PICK u \in Int : u = Base + Len(rcvbuf) + Len(down) /\ Near(up, u)
    BY NetlatNumbers DEF NetlatInv
  <2>3. Len(up) \in Nat /\ Len(down) \in Nat /\ Len(rcvbuf) \in Nat /\ Len(pairs) \in Nat
    BY NetlatNumbers DEF NetlatInv
  <2>4. sent + 1 \in Nat /\ sent + 1 >= u + Len(up) + 1
    BY <2>1, <2>2, <2>3 DEF NetTyped, NetlatInv, CallsInv, Backlog, Base
  <2>5. Len(up') = Len(up) + 1 /\ Near(up', u)
    BY <2>1, <2>2, <2>4, AppendLemma DEF NetTyped
  <2>6. NearInv'
    BY <2>1, <2>2, <2>5 DEF NetlatInv, NearInv, Base
  <2>7. CallsInv'
    BY <2>1, <2>3 DEF NetTyped, NetlatInv, CallsInv
  <2>8. Backlog'
    <3>1. Len(up) + Len(down) + Len(rcvbuf) = misses + 0 + duplicates - lost - nrefused
      BY <2>1 DEF NetlatInv, Backlog
    <3>2. /\ misses \in Nat /\ duplicates \in Nat /\ lost \in Nat /\ nrefused \in Nat
          /\ UNCHANGED <<down, rcvbuf, misses, duplicates, lost, nrefused>>
      BY <2>1 DEF NetTyped
    <3>3. Len(up') + Len(down') + Len(rcvbuf') = misses' + 1 + duplicates' - lost' - nrefused'
      BY <2>3, <2>5, <3>1, <3>2
    <3> QED BY <2>1, <3>3 DEF Backlog
  <2>9. LagBounded'
    BY <2>1, LagStays DEF NetTyped, NetlatInv
  <2> QED BY <2>6, <2>7, <2>8, <2>9 DEF NetlatInv
<1> QED BY <1>1, <1>2

\* The answer that is read is the first one in the buffer.
LEMMA ReadStep ==
  ASSUME NetTyped, NetTyped', NetlatInv, Read PROVE NetlatInv'
<1>1. /\ pc = "recv" /\ pc' = "send" /\ rcvbuf # <<>> /\ rcvbuf' = Tail(rcvbuf)
      /\ pairs' = Append(pairs, [req |-> sent, ans |-> Head(rcvbuf)])
      /\ UNCHANGED <<sent, up, down, misses, lost, nrefused, duplicates, overtakings>>
  BY DEF Read, Returned, faults
<1>2. PICK r \in Int : r = Base /\ Near(rcvbuf, r)
  BY NetlatNumbers DEF NetlatInv
<1>3. Len(up) \in Nat /\ Len(down) \in Nat /\ Len(rcvbuf) \in Nat /\ Len(pairs) \in Nat
  BY NetlatNumbers DEF NetlatInv
<1>4. /\ Head(rcvbuf) \in Nat /\ Head(rcvbuf) <= sent /\ Head(rcvbuf) >= r + 1
      /\ Len(rcvbuf') = Len(rcvbuf) - 1 /\ Near(rcvbuf', r + 1)
  BY <1>1, <1>2, TailLemma DEF NetTyped
<1>5. /\ Len(pairs') = Len(pairs) + 1
      /\ \A k \in 1 .. Len(pairs) : pairs'[k] = pairs[k]
      /\ pairs'[Len(pairs) + 1] = [req |-> sent, ans |-> Head(rcvbuf)]
  BY <1>1, <1>4, AppendProperties DEF NetTyped
<1>6. NearInv'
  <2>1. Base' = r + 1
    BY <1>1, <1>2, <1>3, <1>5 DEF NetTyped, Base
  <2>2. Base' + Len(rcvbuf') = Base + Len(rcvbuf)
    BY <1>2, <1>3, <1>4, <2>1
  <2> QED BY <1>1, <1>4, <2>1, <2>2 DEF NetlatInv, NearInv
<1>7. CallsInv'
  BY <1>1, <1>3, <1>5 DEF NetTyped, NetlatInv, CallsInv
<1>8. Backlog'
  <2>1. Len(up) + Len(down) + Len(rcvbuf) = misses + 1 + duplicates - lost - nrefused
    BY <1>1 DEF NetlatInv, Backlog
  <2>2. Len(up') + Len(down') + Len(rcvbuf') = misses' + 0 + duplicates' - lost' - nrefused'
    BY <1>1, <1>3, <1>4, <2>1 DEF NetTyped
  <2> QED BY <1>1, <2>2 DEF Backlog
<1>9. LagBounded'
  <2> DEFINE F == misses + duplicates + overtakings
  <2>1. sent - Head(rcvbuf) <= F
    BY <1>1, <1>2, <1>3, <1>4 DEF NetTyped, NetlatInv, CallsInv, Base
  <2>2. F' = F
    BY <1>1
  <2>3. \A k \in 1 .. Len(pairs) : pairs[k].ans <= pairs[k].req /\ pairs[k].req - pairs[k].ans <= F
    BY DEF NetlatInv, LagBounded
  <2> HIDE DEF F
  <2>4. ASSUME NEW k \in 1 .. Len(pairs) + 1
        PROVE  pairs'[k].ans <= pairs'[k].req /\ pairs'[k].req - pairs'[k].ans <= F
    <3>1. CASE k \in 1 .. Len(pairs)
      BY <1>5, <2>3, <3>1
    <3>2. CASE k = Len(pairs) + 1
      <4>1. pairs'[k] = [req |-> sent, ans |-> Head(rcvbuf)]
        BY <1>5, <3>2
      <4>2. pairs'[k].req = sent /\ pairs'[k].ans = Head(rcvbuf)
        BY <4>1
      <4> QED BY <1>4, <2>1, <4>2
    <3>3. k \in 1 .. Len(pairs) \/ k = Len(pairs) + 1
      BY <1>3
    <3> QED BY <3>1, <3>2, <3>3
  <2> QED BY <1>5, <2>2, <2>4 DEF LagBounded, F
<1> QED BY <1>6, <1>7, <1>8, <1>9 DEF NetlatInv

\* The calls without an answer leave one datagram more to come.
LEMMA OtherClientSteps ==
  ASSUME NetTyped, NetTyped', NetlatInv, Timeout \/ ReadRefused \/ Finish PROVE NetlatInv'
<1>1. CASE Timeout \/ ReadRefused
  <2>1. /\ pc = "recv" /\ pc' = "send" /\ misses' = misses + 1
        /\ UNCHANGED <<sent, up, down, rcvbuf, pairs, lost, nrefused, duplicates, overtakings>>
    BY <1>1 DEF Timeout, ReadRefused, ReadFails, IgnoredErrors, Returned, net, faults
  <2>2. NearInv'
    BY <2>1 DEF NetlatInv, NearInv, Base
  <2>3. CallsInv' /\ Backlog'
    BY <2>1 DEF NetTyped, NetlatInv, CallsInv, Backlog
  <2>4. LagBounded'
    BY <2>1, LagStays DEF NetTyped, NetlatInv
  <2> QED BY <2>2, <2>3, <2>4 DEF NetlatInv
<1>2. CASE Finish
  BY <1>2 DEF Finish, net, faults, NetlatInv, NearInv, Base, CallsInv, Backlog, LagBounded
<1> QED BY <1>1, <1>2

\* What the network does to the number of datagrams and to their places.
LEMMA NetworkStep ==
  ASSUME NetTyped, NetTyped', NetlatInv,
         Echo \/ Deliver \/ PortClosed \/ Lose \/ Duplicate \/ Overtake
  PROVE  NetlatInv'
<1>1. UNCHANGED <<pc, sent, pairs, misses>>
  BY DEF Echo, Deliver, PortClosed, Lose, Duplicate, Overtake, program
<1>2. CallsInv'
  BY <1>1 DEF NetlatInv, CallsInv
<1>3. LagBounded'
  <2>1. duplicates' = duplicates \/ duplicates' = duplicates + 1
    BY DEF Echo, Deliver, PortClosed, Lose, Duplicate, Overtake, faults
  <2>2. overtakings' = overtakings \/ overtakings' = overtakings + 1
    BY DEF Echo, Deliver, PortClosed, Lose, Duplicate, Overtake, faults
  <2>3. duplicates' >= duplicates /\ overtakings' >= overtakings /\ misses' >= misses
    BY <1>1, <2>1, <2>2 DEF NetTyped
  <2> QED BY <1>1, <2>3, LagStays DEF NetlatInv
<1>4. Len(up) \in Nat /\ Len(down) \in Nat /\ Len(rcvbuf) \in Nat /\ Len(pairs) \in Nat
  BY NetlatNumbers DEF NetlatInv
<1>5. PICK r \in Int, d \in Int, u \in Int :
        /\ r = Base /\ d = Base + Len(rcvbuf) /\ u = Base + Len(rcvbuf) + Len(down)
        /\ Near(rcvbuf, r) /\ Near(down, d) /\ Near(up, u)
  BY NetlatNumbers DEF NetlatInv
<1>6. /\ up \in Seq(Nat) /\ down \in Seq(Nat) /\ rcvbuf \in Seq(Nat)
      /\ duplicates \in Nat /\ overtakings \in Nat /\ lost \in Nat /\ nrefused \in Nat
      /\ misses \in Nat
  BY DEF NetTyped
<1>7. ASSUME NEW n \in Int,
             n = duplicates' - duplicates - (lost' - lost) - (nrefused' - nrefused),
             Len(up') + Len(down') + Len(rcvbuf') = Len(up) + Len(down) + Len(rcvbuf) + n
      PROVE  Backlog'
  <2> DEFINE w == IF pc = "recv" THEN 1 ELSE 0
  <2>1. w \in Nat /\ w' = w
    BY <1>1
  <2>2. Len(up) + Len(down) + Len(rcvbuf) = misses + w + duplicates - lost - nrefused
    BY DEF NetlatInv, Backlog
  <2>3. duplicates' \in Nat /\ lost' \in Nat /\ nrefused' \in Nat
    BY DEF NetTyped
  <2>4. PICK v \in Int : v = misses + w
    BY <1>6, <2>1
  <2>5. PICK l \in Int : l = Len(up) + Len(down) + Len(rcvbuf)
    BY <1>4
  <2>6. PICK x \in Int, y \in Int, z \in Int : x = duplicates /\ y = lost /\ z = nrefused
    BY <1>6
  <2>7. PICK x1 \in Int, y1 \in Int, z1 \in Int : x1 = duplicates' /\ y1 = lost' /\ z1 = nrefused'
    BY <2>3
  <2> HIDE DEF w
  <2>8. l = v + x - y - z
    BY <2>2, <2>4, <2>5, <2>6
  <2>9. n = x1 - x - (y1 - y) - (z1 - z)
    BY <1>7, <2>6, <2>7
  <2>10. l + n = v + x1 - y1 - z1
    BY ONLY <2>8, <2>9
  <2>11. Len(up') + Len(down') + Len(rcvbuf') = misses' + w' + duplicates' - lost' - nrefused'
    <3>1. Len(up') + Len(down') + Len(rcvbuf') = l + n
      BY <1>7, <2>5
    <3>2. misses' + w' = v
      BY <1>1, <2>1, <2>4
    <3> QED BY <2>7, <2>10, <3>1, <3>2
  <2> QED BY <2>11 DEF Backlog, w
<1>8. CASE Echo
  <2>1. /\ up # <<>> /\ up' = Tail(up) /\ down' = Append(down, Head(up)) /\ rcvbuf' = rcvbuf
        /\ UNCHANGED <<lost, nrefused, duplicates, overtakings>>
    BY <1>8 DEF Echo, faults
  <2>2. Head(up) \in Nat /\ Head(up) >= u + 1 /\ Len(up') = Len(up) - 1 /\ Near(up', u + 1)
    BY <1>5, <1>6, <2>1, TailLemma
  <2>3. u = d + Len(down)
    BY <1>5
  <2>4. Len(down') = Len(down) + 1 /\ Near(down', d)
    <3>1. Head(up) >= d + Len(down) + 1
      BY <2>2, <2>3
    <3> QED BY <1>5, <1>6, <2>1, <2>2, <3>1, AppendLemma
  <2>5. Base' = r /\ Base' + Len(rcvbuf') = d /\ Base' + Len(rcvbuf') + Len(down') = u + 1
    BY <1>1, <1>4, <1>5, <2>1, <2>4 DEF Base
  <2>6. NearInv'
    BY <1>5, <2>1, <2>2, <2>4, <2>5 DEF NearInv
  <2>7. Backlog'
    BY <1>4, <1>6, <1>7, <2>1, <2>2, <2>4
  <2> QED BY <1>2, <1>3, <2>6, <2>7 DEF NetlatInv
<1>9. CASE Deliver
  <2>1. /\ down # <<>> /\ down' = Tail(down) /\ rcvbuf' = Append(rcvbuf, Head(down)) /\ up' = up
        /\ UNCHANGED <<lost, nrefused, duplicates, overtakings>>
    BY <1>9 DEF Deliver, faults
  <2>2. /\ Head(down) \in Nat /\ Head(down) >= d + 1
        /\ Len(down') = Len(down) - 1 /\ Near(down', d + 1)
    BY <1>5, <1>6, <2>1, TailLemma
  <2>3. d = r + Len(rcvbuf)
    BY <1>5
  <2>4. Len(rcvbuf') = Len(rcvbuf) + 1 /\ Near(rcvbuf', r)
    <3>1. Head(down) >= r + Len(rcvbuf) + 1
      BY <2>2, <2>3
    <3> QED BY <1>5, <1>6, <2>1, <2>2, <3>1, AppendLemma
  <2>5. Base' = r /\ Base' + Len(rcvbuf') = d + 1 /\ Base' + Len(rcvbuf') + Len(down') = u
    <3>1. Base' = r
      BY <1>1, <1>5, <2>1 DEF Base
    <3>2. Base' + Len(rcvbuf') = d + 1
      BY <1>4, <1>5, <2>4, <3>1
    <3>3. u = d + Len(down)
      BY <1>5
    <3>4. (d + 1) + Len(down') = u
      BY <1>4, <2>2, <3>3
    <3> QED BY <3>1, <3>2, <3>4
  <2>6. NearInv'
    BY <1>5, <2>1, <2>2, <2>4, <2>5 DEF NearInv
  <2>7. Backlog'
    BY <1>4, <1>6, <1>7, <2>1, <2>2, <2>4
  <2> QED BY <1>2, <1>3, <2>6, <2>7 DEF NetlatInv
<1>10. CASE PortClosed \/ Lose
  <2>1. /\ rcvbuf' = rcvbuf /\ UNCHANGED <<duplicates, overtakings>>
        /\ \/ lost' = lost + 1 /\ nrefused' = nrefused
           \/ lost' = lost /\ nrefused' = nrefused + 1
        /\ \/ up # <<>> /\ up' = Tail(up) /\ down' = down
           \/ down # <<>> /\ down' = Tail(down) /\ up' = up
    BY <1>10 DEF PortClosed, Lose
  <2>2. Base' = r /\ Base' + Len(rcvbuf') = d
    BY <1>1, <1>5, <2>1 DEF Base
  <2>3. -1 = duplicates' - duplicates - (lost' - lost) - (nrefused' - nrefused) /\ -1 \in Int
    BY <1>6, <2>1
  <2>4. CASE up # <<>> /\ up' = Tail(up) /\ down' = down
    <3>1. Len(up') = Len(up) - 1 /\ Near(up', u)
      BY <1>5, <1>6, <2>4, TailLemma
    <3>2. Base' + Len(rcvbuf') + Len(down') = u
      BY <1>5, <2>2, <2>4
    <3>3. NearInv'
      BY <1>5, <2>1, <2>2, <2>4, <3>1, <3>2 DEF NearInv
    <3>4. Backlog'
      <4>1. PICK x \in Int, y \in Int, z \in Int : x = Len(up) /\ y = Len(down) /\ z = Len(rcvbuf)
        BY <1>4
      <4>2. Len(up') = x - 1 /\ Len(down') = y /\ Len(rcvbuf') = z
        BY <2>1, <2>4, <3>1, <4>1
      <4>3. Len(up') + Len(down') + Len(rcvbuf') = Len(up) + Len(down) + Len(rcvbuf) + (-1)
        BY <4>1, <4>2
      <4> QED BY <1>7, <2>3, <4>3
    <3> QED BY <1>2, <1>3, <3>3, <3>4 DEF NetlatInv
  <2>5. CASE down # <<>> /\ down' = Tail(down) /\ up' = up
    <3>1. Len(down') = Len(down) - 1 /\ Near(down', d)
      BY <1>5, <1>6, <2>5, TailLemma
    <3>2. Near(up', u - 1)
      BY <1>5, <1>6, <2>5, NearWeaker
    <3>3. Base' + Len(rcvbuf') + Len(down') = u - 1
      BY <1>4, <1>5, <2>2, <3>1
    <3>4. NearInv'
      BY <1>5, <2>1, <2>2, <3>1, <3>2, <3>3 DEF NearInv
    <3>5. Backlog'
      <4>1. PICK x \in Int, y \in Int, z \in Int : x = Len(up) /\ y = Len(down) /\ z = Len(rcvbuf)
        BY <1>4
      <4>2. Len(up') = x /\ Len(down') = y - 1 /\ Len(rcvbuf') = z
        BY <2>1, <2>5, <3>1, <4>1
      <4>3. Len(up') + Len(down') + Len(rcvbuf') = Len(up) + Len(down) + Len(rcvbuf) + (-1)
        BY <4>1, <4>2
      <4> QED BY <1>7, <2>3, <4>3
    <3> QED BY <1>2, <1>3, <3>4, <3>5 DEF NetlatInv
  <2> QED BY <2>1, <2>4, <2>5
<1>11. CASE Duplicate
  <2>1. /\ rcvbuf' = rcvbuf /\ duplicates' = duplicates + 1
        /\ UNCHANGED <<lost, nrefused, overtakings>>
        /\ \/ up # <<>> /\ up' = <<Head(up)>> \o up /\ down' = down
           \/ down # <<>> /\ down' = <<Head(down)>> \o down /\ up' = up
    BY <1>11 DEF Duplicate
  <2>2. Base' = r - 1 /\ Base' + Len(rcvbuf') = d - 1
    BY <1>1, <1>4, <1>5, <1>6, <2>1 DEF Base
  <2>3. Near(rcvbuf', r - 1)
    BY <1>5, <1>6, <2>1, NearWeaker
  <2>4. CASE up # <<>> /\ up' = <<Head(up)>> \o up /\ down' = down
    <3>1. Len(up') = Len(up) + 1 /\ Near(up', u - 1)
      BY <1>5, <1>6, <2>4, DuplicateLemma
    <3>2. Near(down', d - 1)
      BY <1>5, <1>6, <2>4, NearWeaker
    <3>3. Base' + Len(rcvbuf') + Len(down') = u - 1
      <4>1. u = d + Len(down)
        BY <1>5
      <4>2. (d - 1) + Len(down) = u - 1
        BY <1>4, <4>1
      <4> QED BY <2>2, <2>4, <4>2
    <3>4. NearInv'
      BY <2>2, <2>3, <3>1, <3>2, <3>3 DEF NearInv
    <3>5. Backlog'
      BY <1>4, <1>6, <1>7, <2>1, <2>4, <3>1
    <3> QED BY <1>2, <1>3, <3>4, <3>5 DEF NetlatInv
  <2>5. CASE down # <<>> /\ down' = <<Head(down)>> \o down /\ up' = up
    <3>1. Len(down') = Len(down) + 1 /\ Near(down', d - 1)
      BY <1>5, <1>6, <2>5, DuplicateLemma
    <3>2. Base' + Len(rcvbuf') + Len(down') = u
      BY <1>4, <1>5, <2>2, <3>1
    <3>3. NearInv'
      BY <1>5, <2>2, <2>3, <2>5, <3>1, <3>2 DEF NearInv
    <3>4. Backlog'
      BY <1>4, <1>6, <1>7, <2>1, <2>5, <3>1
    <3> QED BY <1>2, <1>3, <3>3, <3>4 DEF NetlatInv
  <2> QED BY <2>1, <2>4, <2>5
<1>12. CASE Overtake
  <2>1. /\ rcvbuf' = rcvbuf /\ overtakings' = overtakings + 1
        /\ UNCHANGED <<lost, nrefused, duplicates>>
        /\ \/ (\E k \in 1 .. Len(up) - 1 : up' = Swapped(up, k)) /\ down' = down
           \/ (\E k \in 1 .. Len(down) - 1 : down' = Swapped(down, k)) /\ up' = up
    BY <1>12 DEF Overtake
  <2>2. /\ Near(rcvbuf', r - 1)
        /\ Len(up') = Len(up) /\ Near(up', u - 1)
        /\ Len(down') = Len(down) /\ Near(down', d - 1)
    BY <1>5, <1>6, <2>1, NearWeaker, SwappedLemma
  <2>3. /\ Base' = r - 1 /\ Base' + Len(rcvbuf') = d - 1
        /\ Base' + Len(rcvbuf') + Len(down') = u - 1
    BY <1>1, <1>4, <1>5, <1>6, <2>1, <2>2 DEF Base
  <2>4. NearInv'
    BY <2>2, <2>3 DEF NearInv
  <2>5. Backlog'
    BY <1>4, <1>6, <1>7, <2>1, <2>2
  <2> QED BY <1>2, <1>3, <2>4, <2>5 DEF NetlatInv
<1> QED
  BY <1>8, <1>9, <1>10, <1>11, <1>12

LEMMA NetlatStep == NetTypeInv /\ NetlatInv /\ [NetNext]_netVars => NetlatInv'
<1> SUFFICES ASSUME NetTypeInv, NetlatInv, [NetNext]_netVars PROVE NetlatInv'
  OBVIOUS
<1>1. NetTyped
  BY NetlatTypes
<1>2. NetTyped'
  <2>1. NetTypeInv'
    BY NetTypeStep
  <2>2. NetTypeInv' => NetTyped'
    BY NetlatTypes, PTL
  <2> QED BY <2>1, <2>2
<1>3. CASE UNCHANGED netVars
  BY <1>3 DEF netVars, net, faults, NetlatInv, NearInv, Base, CallsInv, Backlog, LagBounded
<1> QED
  BY <1>1, <1>2, <1>3, SendStep, ReadStep, OtherClientSteps, NetworkStep
  DEF NetNext, Client, Network

LEMMA NetlatInit == NetInit => NetlatInv
<1> SUFFICES ASSUME NetInit PROVE NetlatInv
  OBVIOUS
<1>1. Len(up) = 0 /\ Len(down) = 0 /\ Len(rcvbuf) = 0 /\ Len(pairs) = 0
  BY EmptySeq DEF NetInit
<1> QED
  BY <1>1 DEF NetInit, NetlatInv, NearInv, Near, CallsInv, Backlog, LagBounded

LEMMA NetInvariant == NetSpec => [](NetTypeInv /\ NetlatInv)
<1> DEFINE I == NetTypeInv /\ NetlatInv
<1>1. NetInit => I
  BY NetTypeInit, NetlatInit
<1>2. I /\ [NetNext]_netVars => I'
  BY NetTypeStep, NetlatStep
<1> HIDE DEF I
<1>3. NetSpec => []I
  BY <1>1, <1>2, PTL DEF NetSpec
<1> QED BY <1>3 DEF I

\* Every variable has its type; the counters of the faults stay within their bounds.
THEOREM NetTypeCorrect == NetSpec => []NetTypeOK
<1>1. NetTypeInv /\ NetlatInv => NetTypeOK
  BY DEF NetTypeInv
<1>2. NetSpec => [](NetTypeInv /\ NetlatInv)
  BY NetInvariant
<1> QED BY <1>1, <1>2, PTL

\* The datagrams under way are those of the calls of send_recv() that got no answer and
\* the duplicates, less the lost and the refused ones: netlat.c never gets rid of one.
THEOREM BacklogCorrect == NetSpec => []Backlog
<1>1. NetTypeInv /\ NetlatInv => Backlog
  BY DEF NetlatInv
<1>2. NetSpec => [](NetTypeInv /\ NetlatInv)
  BY NetInvariant
<1> QED BY <1>1, <1>2, PTL

\* A sample of netlat.c is at most as many requests old as there were calls of
\* send_recv() without an answer, duplicates and overtakings: with none of them every
\* sample is a round trip of its own request.
THEOREM LagBoundedCorrect == NetSpec => []LagBounded
<1>1. NetTypeInv /\ NetlatInv => LagBounded
  BY DEF NetlatInv
<1>2. NetSpec => [](NetTypeInv /\ NetlatInv)
  BY NetInvariant
<1> QED BY <1>1, <1>2, PTL
=============================================================================
