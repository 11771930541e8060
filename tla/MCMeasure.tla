------------------------------- MODULE MCMeasure -------------------------------
(***************************************************************************)
(* Up to three samples that count; the last duration is too long for       *)
(* syscall.c.  TimeDiff, which MeasureProofs proves about and which has no *)
(* behaviour, only has its assumption evaluated here.                      *)
(***************************************************************************)
EXTENDS Measure, TimeDiff, TLC

MCCountOf == "syscall" :> {5} @@ "memload" :> 0 .. 5 @@ "pagefault" :> {4}
MCWarmups == 0 .. 2
MCDurations == {1, 4, 7}
=============================================================================
