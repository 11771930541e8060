------------------------------ MODULE MCUdpReplay ------------------------------
(***************************************************************************)
(* Instances of UdpReplay: workloads of up to two packages, cut anywhere.  *)
(***************************************************************************)
EXTENDS UdpReplay

OnePair == [op |-> 1, kvs |-> <<[key |-> <<2>>, val |-> <<>>]>>]
NoPairs == [op |-> 3, kvs |-> <<>>]
TwoPairs == [op |-> 4, kvs |-> <<[key |-> <<>>, val |-> <<3>>], [key |-> <<2>>, val |-> <<>>]>>]

MCWorkloads ==
  [total : {0, 2, 3}, pkgs : UNION {[1 .. l -> {OnePair, NoPairs, TwoPairs}] : l \in 0 .. 2},
   cut : {0, 1, 3, 6}]
=============================================================================
