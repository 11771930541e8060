--------------------------------- MODULE Netlat ---------------------------------
(***************************************************************************)
(* netlat.c: WARMUP and then COUNT round trips of a one-byte datagram over *)
(* a connected UDP socket with a receive timeout.  All datagrams are       *)
(* alike; the model numbers them to say which request a reply answers.     *)
(* The network may lose datagrams, duplicate them and change their order;  *)
(* the server echoes, or its port is closed and an ICMP message comes back.*)
(***************************************************************************)
EXTENDS Integers, Sequences

CONSTANTS
  WARMUP, COUNT,  \* 5 and 100 in the code
  MaxLost,        \* bound: datagrams lost
  MaxDuplicates,  \* bound: datagrams duplicated
  MaxOvertakings, \* bound: times that a datagram overtakes the one before it
  MaxLate,        \* bound: timeouts while the datagram is still under way
  MaxRefused      \* bound: requests that find the port closed

ASSUME NetlatAssumption ==
  /\ WARMUP \in Nat /\ COUNT \in Nat
  /\ MaxLost \in Nat /\ MaxDuplicates \in Nat /\ MaxOvertakings \in Nat
  /\ MaxLate \in Nat /\ MaxRefused \in Nat

VARIABLES
  pc,       \* "send", "recv", "done" or "failed"
  rounds,   \* calls of send_recv() in the warm-up
  num,      \* entries of times
  sent,     \* requests sent
  up, down, \* requests and replies on the way: Seq of request numbers
  rcvbuf,   \* replies in the socket's receive buffer
  refused,  \* ECONNREFUSED is pending on the socket
  lost, late, nrefused, duplicates, overtakings, \* faults so far
  pairs,    \* history: for every reply read, [req |-> request just sent, ans |-> request answered]
  misses,   \* history: calls of send_recv() that returned 0
  ignored   \* history: the errors of read() that were ignored

net == <<up, down, rcvbuf>>
faults == <<lost, late, nrefused, duplicates, overtakings>>
netVars == <<pc, rounds, num, sent, net, refused, faults, pairs, misses, ignored>>

NetInit ==
  /\ pc = "send" /\ rounds = 0 /\ num = 0 /\ sent = 0
  /\ up = <<>> /\ down = <<>> /\ rcvbuf = <<>> /\ refused = FALSE
  /\ lost = 0 /\ late = 0 /\ nrefused = 0 /\ duplicates = 0 /\ overtakings = 0
  /\ pairs = <<>> /\ misses = 0 /\ ignored = {}

-----------------------------------------------------------------------------
Done == rounds = WARMUP /\ num = COUNT

SendAgain ==  \* mutant: the request is sent twice
  /\ pc = "send"
  /\ ~Done
  /\ pc' = "recv" /\ sent' = sent + 2 /\ up' = up \o <<sent + 1, sent + 2>>
  /\ UNCHANGED <<rounds, num, down, rcvbuf, refused, faults, pairs, misses, ignored>>
\* write(): a pending error of the socket makes it fail, and the program exits.
Send ==
  /\ pc = "send"
  /\ ~Done
  /\ IF refused
     THEN pc' = "failed" /\ refused' = FALSE /\ UNCHANGED <<sent, up>>
     ELSE pc' = "recv" /\ sent' = sent + 1 /\ up' = Append(up, sent + 1) /\ UNCHANGED refused
  /\ UNCHANGED <<rounds, num, down, rcvbuf, faults, pairs, misses, ignored>>

\* send_recv() returned r: main() counts rounds in the warm-up, answers later.
Returned(r) ==
  /\ pc' = "send"
  /\ IF rounds < WARMUP THEN rounds' = rounds + 1 /\ UNCHANGED num
     ELSE UNCHANGED rounds /\ num' = num + r

Read ==
  /\ pc = "recv"
  /\ ~refused
  /\ rcvbuf # <<>>
  /\ pairs' = Append(pairs, [req |-> sent, ans |-> Head(rcvbuf)])
  /\ rcvbuf' = Tail(rcvbuf)
  /\ Returned(1)
  /\ UNCHANGED <<sent, up, down, refused, faults, misses, ignored>>

\* errno = EAGAIN || ...: the condition is true whatever the error is.
IgnoredErrors == {"EAGAIN", "ECONNREFUSED"}
ReadFails(e) ==
  /\ IF e \in IgnoredErrors
     THEN /\ Returned(0)
          /\ misses' = misses + 1
          /\ ignored' = ignored \cup {e}
     ELSE pc' = "failed" /\ UNCHANGED <<rounds, num, misses, ignored>>
  /\ UNCHANGED <<sent, net, pairs>>

NoTimeout == FALSE  \* mutant: SO_RCVTIMEO is not set
TimeoutResends ==  \* mutant: the request is sent again before send_recv() returns
  /\ pc = "recv"
  /\ ~refused
  /\ rcvbuf = <<>> /\ up = <<>> /\ down = <<>>
  /\ sent' = sent + 1 /\ up' = Append(up, sent + 1)
  /\ UNCHANGED <<pc, rounds, num, down, rcvbuf, refused, faults, pairs, misses, ignored>>
\* SO_RCVTIMEO expired.  A reply that is still under way is late.
Timeout ==
  /\ pc = "recv"
  /\ ~refused
  /\ rcvbuf = <<>>
  /\ \/ up = <<>> /\ down = <<>> /\ UNCHANGED late
     \/ (up # <<>> \/ down # <<>>) /\ late < MaxLate /\ late' = late + 1
  /\ ReadFails("EAGAIN")
  /\ UNCHANGED <<refused, lost, nrefused, duplicates, overtakings>>

ReadRefused ==
  /\ pc = "recv"
  /\ refused
  /\ refused' = FALSE
  /\ ReadFails("ECONNREFUSED")
  /\ UNCHANGED faults

Finish ==
  /\ pc = "send"
  /\ Done
  /\ pc' = "done"
  /\ UNCHANGED <<rounds, num, sent, net, refused, faults, pairs, misses, ignored>>

-----------------------------------------------------------------------------
(* The server and the network (external). *)
program == <<pc, rounds, num, sent, pairs, misses, ignored>>

Echo ==
  /\ up # <<>>
  /\ up' = Tail(up)
  /\ down' = Append(down, Head(up))
  /\ UNCHANGED <<program, rcvbuf, refused, faults>>

Deliver ==
  /\ down # <<>>
  /\ down' = Tail(down)
  /\ rcvbuf' = Append(rcvbuf, Head(down))
  /\ UNCHANGED <<program, up, refused, faults>>

PortClosed ==
  /\ nrefused < MaxRefused
  /\ up # <<>>
  /\ up' = Tail(up)
  /\ refused' = TRUE
  /\ nrefused' = nrefused + 1
  /\ UNCHANGED <<program, down, rcvbuf, lost, late, duplicates, overtakings>>

Lose ==
  /\ lost < MaxLost
  /\ \/ up # <<>> /\ up' = Tail(up) /\ UNCHANGED down
     \/ down # <<>> /\ down' = Tail(down) /\ UNCHANGED up
  /\ lost' = lost + 1
  /\ UNCHANGED <<program, rcvbuf, refused, late, nrefused, duplicates, overtakings>>

Duplicate ==
  /\ duplicates < MaxDuplicates
  /\ \/ up # <<>> /\ up' = <<Head(up)>> \o up /\ UNCHANGED down
     \/ down # <<>> /\ down' = <<Head(down)>> \o down /\ UNCHANGED up
  /\ duplicates' = duplicates + 1
  /\ UNCHANGED <<program, rcvbuf, refused, lost, late, nrefused, overtakings>>

\* Of two neighbours the second gets in front.
Swapped(s, k) == [s EXCEPT ![k] = s[k + 1], ![k + 1] = s[k]]
Overtake ==
  /\ overtakings < MaxOvertakings
  /\ \/ (\E k \in 1 .. Len(up) - 1 : up' = Swapped(up, k)) /\ UNCHANGED down
     \/ (\E k \in 1 .. Len(down) - 1 : down' = Swapped(down, k)) /\ UNCHANGED up
  /\ overtakings' = overtakings + 1
  /\ UNCHANGED <<program, rcvbuf, refused, lost, late, nrefused, duplicates>>

-----------------------------------------------------------------------------
Client == Send \/ Read \/ Timeout \/ ReadRefused \/ Finish
Network == Echo \/ Deliver

NetNext == Client \/ Network \/ PortClosed \/ Lose \/ Duplicate \/ Overtake

NetSpec == NetInit /\ [][NetNext]_netVars
\* The client runs on, read() returns after the timeout, and datagrams that
\* are not lost arrive.
NetFairSpec == NetSpec /\ WF_netVars(Client) /\ WF_netVars(Network)

-----------------------------------------------------------------------------
\* Every variable has its type.
NetTypeOK ==
  /\ pc \in {"send", "recv", "done", "failed"}
  /\ rounds \in 0 .. WARMUP /\ num \in 0 .. COUNT
  /\ sent \in Nat
  /\ up \in Seq(1 .. sent) /\ down \in Seq(1 .. sent) /\ rcvbuf \in Seq(1 .. sent)
  /\ refused \in BOOLEAN
  /\ duplicates \in 0 .. MaxDuplicates /\ overtakings \in 0 .. MaxOvertakings
  /\ lost \in 0 .. MaxLost /\ late \in 0 .. MaxLate /\ nrefused \in 0 .. MaxRefused
  /\ pairs \in Seq([req : Nat, ans : Nat])
  /\ misses \in Nat
  /\ ignored \subseteq {"EAGAIN", "ECONNREFUSED"}

\* LagBounded: a sample may be the answer to an earlier request, but not to one
\* further back than the number of calls of send_recv() that got no answer, of
\* duplicates and of overtakings together: while there is none of them, every sample
\* is a round trip of its own request.
LagBounded ==
  \A k \in 1 .. Len(pairs) :
    /\ pairs[k].ans <= pairs[k].req
    /\ pairs[k].req - pairs[k].ans <= misses + duplicates + overtakings

\* Backlog: what is still under way, and will be read as the answer to a later request,
\* is exactly what the calls without an answer and the network have added, less what
\* was lost or refused.  send_recv() sends and reads one datagram in turn and never
\* drops an old one, so netlat does not get back into step by itself.
Backlog ==
  Len(up) + Len(down) + Len(rcvbuf) =
    misses + (IF pc = "recv" THEN 1 ELSE 0) + duplicates - lost - nrefused

\* Terminates: with finitely many faults of the network the loop of main() comes to an
\* end.
Terminates == <>(pc \in {"done", "failed"})

\* OnlyTimeoutsIgnored: "ignore timeouts" (netlat.c:35), and no other error.
OnlyTimeoutsIgnored == ignored \subseteq {"EAGAIN"}
=============================================================================
