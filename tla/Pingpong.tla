------------------------------- MODULE Pingpong -------------------------------
(***************************************************************************)
(* pingpong.c, as rootfs/bench/pingpong.sh starts it: every instance is a  *)
(* pair of processes, a parent that sends a request and waits for a reply, *)
(* and a child that answers.  ftok() gives all of them the same key, so    *)
(* all pairs share one System V message queue, which nobody removes: what  *)
(* an earlier run left in it is still there.                               *)
(***************************************************************************)
EXTENDS Integers, Sequences, FiniteSets, SequencesExt

CONSTANTS
  Pairs,          \* the instances that run at the same time
  Rounds,         \* [Pairs -> Nat]: runs * (WARMUP + COUNT)
  MsgSize,        \* msgsize, the same for all instances
  Cap,            \* messages that fit into the queue
  Leftovers,      \* what may be in the queue at the start: a set of queues
  SetupMayFail    \* sched_setaffinity, sched_setscheduler or mlockall may fail

CLIENT_MESSAGE == 1
SERVER_MESSAGE == 2
Message == [type : {CLIENT_MESSAGE, SERVER_MESSAGE}, size : Nat]

ASSUME PingpongAssumption ==
  /\ IsFiniteSet(Pairs)
  /\ Rounds \in [Pairs -> Nat]
  /\ MsgSize \in Nat /\ Cap \in Nat
  /\ Leftovers \subseteq Seq(Message)
  /\ SetupMayFail \in BOOLEAN

VARIABLES
  queue,    \* the message queue: Seq(Message)
  stale,    \* history: how many messages were in the queue at the start
  ppc, cpc, \* where the parent and the child of a pair are
  pi, ci    \* rounds that they have completed

vars == <<queue, stale, ppc, cpc, pi, ci>>

Init ==
  /\ queue \in Leftovers
  /\ stale = Len(queue)
  /\ ppc = [p \in Pairs |-> "setup"]
  /\ cpc = [p \in Pairs |-> "setup"]
  /\ pi = [p \in Pairs |-> 0]
  /\ ci = [p \in Pairs |-> 0]

AfterSetup(pc) == IF SetupMayFail THEN {pc, "failed"} ELSE {pc}

-----------------------------------------------------------------------------
\* msgsnd() appends; msgrcv() takes the first message of a type.
Full == Len(queue) >= Cap
Sent(type) == Append(queue, [type |-> type, size |-> MsgSize])
First(type, k) == queue[k].type = type /\ \A l \in 1 .. k - 1 : queue[l].type # type

ReceivedTruncated(k) == TRUE  \* mutant: MSG_NOERROR
\* msgrcv() < msgsize: one that is too large stays in the queue (E2BIG), one
\* that is too small is gone; the process exits in either case.
Received(k) == queue[k].size <= MsgSize
Accepted(k) == queue[k].size = MsgSize

ParentSetup(p) ==
  /\ ppc[p] = "setup"
  /\ \E pc \in AfterSetup("send") : ppc' = [ppc EXCEPT ![p] = pc]
  /\ UNCHANGED <<queue, stale, cpc, pi, ci>>

ParentSendOnceMore(p) ==  \* mutant: i <= WARMUP + COUNT, behind the end of times
  /\ ppc[p] = "send"
  /\ pi[p] <= Rounds[p]
  /\ ~Full
  /\ ppc' = [ppc EXCEPT ![p] = "recv"] /\ queue' = Sent(SERVER_MESSAGE)
  /\ UNCHANGED <<stale, cpc, pi, ci>>
\* IPC_NOWAIT: a full queue is an error.
ParentSend(p) ==
  /\ ppc[p] = "send"
  /\ pi[p] < Rounds[p]
  /\ IF Full
     THEN ppc' = [ppc EXCEPT ![p] = "failed"] /\ UNCHANGED queue
     ELSE ppc' = [ppc EXCEPT ![p] = "recv"] /\ queue' = Sent(SERVER_MESSAGE)
  /\ UNCHANGED <<stale, cpc, pi, ci>>

ParentRecvNoWait(p) ==  \* mutant: IPC_NOWAIT, and ENOMSG is not an error
  /\ ppc[p] = "recv"
  /\ \/ \E k \in 1 .. Len(queue) : First(CLIENT_MESSAGE, k) /\ queue' = RemoveAt(queue, k)
     \/ UNCHANGED queue
  /\ ppc' = [ppc EXCEPT ![p] = "send"]
  /\ pi' = [pi EXCEPT ![p] = @ + 1]
  /\ UNCHANGED <<stale, cpc, ci>>
ParentRecv(p) ==
  /\ ppc[p] = "recv"
  /\ \E k \in 1 .. Len(queue) :
       /\ First(CLIENT_MESSAGE, k)
       /\ queue' = IF Received(k) THEN RemoveAt(queue, k) ELSE queue
       /\ IF Accepted(k)
          THEN ppc' = [ppc EXCEPT ![p] = "send"] /\ pi' = [pi EXCEPT ![p] = @ + 1]
          ELSE ppc' = [ppc EXCEPT ![p] = "failed"] /\ UNCHANGED pi
  /\ UNCHANGED <<stale, cpc, ci>>

\* The results are printed, then waitpid().
ParentPrint(p) ==
  /\ ppc[p] = "send"
  /\ pi[p] = Rounds[p]
  /\ ppc' = [ppc EXCEPT ![p] = "wait"]
  /\ UNCHANGED <<queue, stale, cpc, pi, ci>>

ParentExit(p) ==
  /\ ppc[p] = "wait"
  /\ cpc[p] \in {"done", "failed"}
  /\ ppc' = [ppc EXCEPT ![p] = "done"]
  /\ UNCHANGED <<queue, stale, cpc, pi, ci>>

ChildSetup(p) ==
  /\ cpc[p] = "setup"
  /\ \E pc \in AfterSetup("recv") : cpc' = [cpc EXCEPT ![p] = pc]
  /\ UNCHANGED <<queue, stale, ppc, pi, ci>>

ChildRecv(p) ==
  /\ cpc[p] = "recv"
  /\ ci[p] < Rounds[p]
  /\ \E k \in 1 .. Len(queue) :
       /\ First(SERVER_MESSAGE, k)
       /\ queue' = IF Received(k) THEN RemoveAt(queue, k) ELSE queue
       /\ cpc' = [cpc EXCEPT ![p] = IF Accepted(k) THEN "send" ELSE "failed"]
  /\ UNCHANGED <<stale, ppc, pi, ci>>

\* Without IPC_NOWAIT: blocks while the queue is full.
ChildSend(p) ==
  /\ cpc[p] = "send"
  /\ ~Full
  /\ queue' = Sent(CLIENT_MESSAGE)
  /\ ci' = [ci EXCEPT ![p] = @ + 1]
  /\ cpc' = [cpc EXCEPT ![p] = "recv"]
  /\ UNCHANGED <<stale, ppc, pi>>

ChildExitLate(p) ==  \* mutant: one round more than the parent
  /\ cpc[p] = "recv"
  /\ ci[p] > Rounds[p]
  /\ cpc' = [cpc EXCEPT ![p] = "done"]
  /\ UNCHANGED <<queue, stale, ppc, pi, ci>>
ChildExit(p) ==
  /\ cpc[p] = "recv"
  /\ ci[p] = Rounds[p]
  /\ cpc' = [cpc EXCEPT ![p] = "done"]
  /\ UNCHANGED <<queue, stale, ppc, pi, ci>>

Parent(p) == ParentSetup(p) \/ ParentSend(p) \/ ParentRecv(p) \/ ParentPrint(p) \/ ParentExit(p)
Child(p) == ChildSetup(p) \/ ChildRecv(p) \/ ChildSend(p) \/ ChildExit(p)

Next == \E p \in Pairs : Parent(p) \/ Child(p)

Spec == Init /\ [][Next]_vars
\* Every process runs on a core of its own.
FairSpec == Spec /\ \A p \in Pairs : WF_vars(Parent(p)) /\ WF_vars(Child(p))

-----------------------------------------------------------------------------
ParentPcs == {"setup", "send", "recv", "wait", "done", "failed"}
ChildPcs == {"setup", "recv", "send", "done", "failed"}

\* Every variable has its type, and no process goes around its loop more often than the
\* results have room for, although others may take its messages.
TypeOK ==
  /\ queue \in Seq(Message)
  /\ stale \in Nat
  /\ ppc \in [Pairs -> ParentPcs]
  /\ cpc \in [Pairs -> ChildPcs]
  /\ pi \in [Pairs -> Nat]
  /\ ci \in [Pairs -> Nat]
  /\ \A p \in Pairs : pi[p] <= Rounds[p] /\ ci[p] <= Rounds[p]

NoFailure == \A p \in Pairs : ppc[p] # "failed" /\ cpc[p] # "failed"
Waiting == {p \in Pairs : ppc[p] = "recv"}
Answering == {p \in Pairs : cpc[p] = "send"}

\* Conservation: as long as no process has failed, the requests that wait for a
\* reply are exactly the messages under way, whichever child answers which
\* parent; what an earlier run left behind stays on top of them.
Conservation ==
  NoFailure => Len(queue) + Cardinality(Answering) = Cardinality(Waiting) + stale

\* NoSendFails: IPC_NOWAIT never meets a full queue if a message of every pair
\* and the leftovers fit into it.
NoSendFails ==
  NoFailure /\ Cap >= Cardinality(Pairs) + stale =>
    \A p \in Pairs : ppc[p] = "send" => ~Full

AllDone == \A p \in Pairs : ppc[p] = "done" /\ cpc[p] = "done"

\* LeftAsFound: a run without failure leaves as many messages as it found, so
\* one message left by a killed run is there for every later one.
LeftAsFound == AllDone => Len(queue) = stale

\* Termination: unless a process fails, all of them end, although a child may
\* answer other parents' requests and be gone when its own parent asks.
Termination == [](NoFailure) => <>AllDone

\* Oversized: the next message of a type is larger than msgsize (left by a run with
\* another size).
Oversized(type) == \E k \in 1 .. Len(queue) : First(type, k) /\ queue[k].size > MsgSize

\* Poison: such a message is never taken out of the queue again (E2BIG), in this run or
\* in a later one.  If it is a request, no child gets at one behind it any more; if it is
\* a reply, no parent completes another round.
Poison == [][
  /\ Oversized(SERVER_MESSAGE) => Oversized(SERVER_MESSAGE)' /\ Answering' \subseteq Answering
  /\ Oversized(CLIENT_MESSAGE) => Oversized(CLIENT_MESSAGE)' /\ pi' = pi]_vars
=============================================================================
