------------------------------ MODULE MCForkLoops ------------------------------
(* Three rounds of exec.c; a chain of waiting processes leaves two ids free. *)
EXTENDS ForkLoops, TLC

MCRunsOf == "exec" :> {3} @@ "stracetime" :> {1} @@ "yield" :> {2} @@ "mwait" :> {0, 2}
MCPid == 1 .. 6
MCRoot == 1

ASSUME TwoToAssumption == \A n \in 0 .. 10 : TwoTo[n] = 2^n
=============================================================================
