------------------------------ MODULE MCPingpong ------------------------------
(***************************************************************************)
(* Instances of Pingpong: a background pair with more rounds than the      *)
(* foreground one, as pingpong.sh starts them; clean and dirty queues.     *)
(***************************************************************************)
EXTENDS Pingpong, TLC

CONSTANTS bg, fg, bg2

Msg(t, s) == [type |-> t, size |-> s]

ThreePairs == {bg, bg2, fg}
ThreeRounds == bg :> 2 @@ bg2 :> 2 @@ fg :> 1

\* What killed runs left, of any size: nothing, one message, or one in front of a
\* request of the right size.  With Cap = 4 all but the last kind leave room for
\* a message of every pair.
DirtyQueues ==
  LET Left == {Msg(t, s) : t \in {CLIENT_MESSAGE, SERVER_MESSAGE}, s \in 1 .. 3}
  IN {<<>>} \cup {<<m>> : m \in Left} \cup {<<m, Msg(SERVER_MESSAGE, 2)>> : m \in Left}
=============================================================================
