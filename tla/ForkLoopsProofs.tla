---------------------------- MODULE ForkLoopsProofs ----------------------------
(***************************************************************************)
(* OneRuns, ForksBounded and SignalHitsChild of ForkLoops, for any number  *)
(* of rounds, any process table, and whichever forks, execs and processes  *)
(* fail.                                                                   *)
(***************************************************************************)
EXTENDS ForkLoops, FiniteSetTheorems, WellFoundedInduction, TLAPS

Shape == st \in [Pid -> States] /\ pid \in [Pid -> Pid \cup {-1, 0}]

-----------------------------------------------------------------------------
(* exec.c and stracetime.c.  The processes wait for each other one by one, *)
(* so there is a token: a process that is not waiting, or one whose child  *)
(* is a zombie.                                                            *)

Active(p) == st[p] \in {"loop", "exec", "program"}
Ready(p) == Active(p) \/ (st[p] = "wait" /\ st[pid[p]] = "exited")

LaunchInv ==
  Launcher =>
    /\ \A p \in Pid : st[p] \in {"free", "other", "loop", "exec", "wait", "program", "exited"}
    /\ \A p \in Pid : st[p] = "wait" => pid[p] \in Pid /\ st[pid[p]] \notin {"free", "other"}
    /\ \A p, q \in Pid : st[p] = "wait" /\ st[q] = "wait" /\ pid[p] = pid[q] => p = q
    /\ \A p, q \in Pid : Ready(p) /\ Ready(q) => p = q

-----------------------------------------------------------------------------
(* yield.c.  A parent that measures has a child, which may be dead but has *)
(* not been waited for, so its process id is not free.                     *)

YieldInv ==
  prog = "yield" =>
    /\ \A p \in Pid : st[p] \in {"free", "other", "loop", "measure", "spin", "exited"}
    /\ \A p \in Pid : st[p] = "measure" => pid[p] \in Pid /\ st[pid[p]] \in {"spin", "exited"}

\* Nobody waits in mwait.c (its parent joins a thread).
MwaitInv == prog = "mwait" => \A p \in Pid : st[p] # "wait"

ForkInv ==
  /\ Shape /\ prog \in {"exec", "stracetime", "yield", "mwait"}
  /\ LaunchInv /\ YieldInv /\ MwaitInv /\ SignalHitsChild

-----------------------------------------------------------------------------
(* Steps of exec.c and stracetime.c. *)

\* What a step changes of the process table, sorted by what it means for the token.
Forks(p) ==
  \E c \in Pid : /\ st[p] = "loop" /\ st[c] = "free"
                 /\ st' = [st EXCEPT ![c] = "exec", ![p] = "wait"]
                 /\ pid' = [pid EXCEPT ![c] = 0, ![p] = c]
                 /\ i[p] < runs /\ i' = [i EXCEPT ![c] = i[p]]
                 /\ forks' = Min({forks + 1, ManyForks})
KeepsToken(p) ==
  /\ forks' = forks
  /\ \/ /\ st[p] = "loop" /\ st' = st /\ pid' = [pid EXCEPT ![p] = -1]
        /\ i[p] < runs /\ i' = [i EXCEPT ![p] = @ + 1]
     \/ /\ st[p] = "exec" /\ pid' = pid
        /\ \/ st' = [st EXCEPT ![p] = "loop"] /\ i' = [i EXCEPT ![p] = @ + 1]
           \/ st' = [st EXCEPT ![p] = "program"] /\ i' = i
PassesToken(p) ==
  /\ Active(p) /\ st' = [st EXCEPT ![p] = "exited"] /\ pid' = pid
  /\ i' = i /\ forks' = forks
TakesToken(p) ==
  /\ st[p] = "wait" /\ st[pid[p]] = "exited"
  /\ st' = [st EXCEPT ![p] = "loop", ![pid[p]] = "free"]
  /\ pid' = [pid EXCEPT ![pid[p]] = 0]
  /\ i' = [i EXCEPT ![p] = @ + 1, ![pid[p]] = 0] /\ forks' = forks
Elsewhere(p) ==
  /\ st[p] \in {"free", "other"} /\ pid' = pid
  /\ i' = i /\ forks' = forks
  /\ \E s \in {"free", "other"} : st' = [st EXCEPT ![p] = s]

LEMMA LaunchKinds ==
  ASSUME ForkInv, Launcher, NEW p \in Pid, Step(p) \/ Environment(p)
  PROVE  /\ Forks(p) \/ KeepsToken(p) \/ PassesToken(p) \/ TakesToken(p) \/ Elsewhere(p)
         /\ prog' = prog /\ hit' = hit /\ runs' = runs
<1>1. st[p] \in {"free", "other", "loop", "exec", "wait", "program", "exited"}
  BY DEF ForkInv, LaunchInv
<1>2. prog \in {"exec", "stracetime"}
  BY DEF Launcher
<1>3. CASE Fork(p)
  BY <1>3 DEF Fork, InLoop, Forked, Free, Forks, fixed
<1>4. CASE ForkFails(p)
  BY <1>4 DEF ForkFails, InLoop, Count, KeepsToken, fixed, history
<1>5. CASE Exec(p) \/ ExecFails(p)
  BY <1>5 DEF Exec, ExecFails, Goto, Count, KeepsToken, fixed, history
<1>6. CASE ProgramEnds(p) \/ Return(p)
  BY <1>6 DEF ProgramEnds, Return, Goto, PassesToken, Active, fixed, history
<1>7. CASE ChildKilled(p)
  BY <1>1, <1>7 DEF ChildKilled, Goto, PassesToken, Active, fixed
<1>8. CASE Wait(p)
  BY <1>8 DEF Wait, TakesToken, fixed, history
<1>9. CASE OtherStarts(p) \/ OtherEnds(p)
  BY <1>9 DEF OtherStarts, OtherEnds, Goto, Free, Elsewhere, fixed, history
<1>10. ~(YieldFork(p) \/ YieldForkFails(p) \/ Yield(p) \/ Kill(p))
  BY <1>2 DEF YieldFork, YieldForkFails, Yield, Kill
<1>11. ~(Create(p) \/ CreateFails(p) \/ Sleep(p) \/ Stop(p))
  BY <1>2 DEF Create, CreateFails, Sleep, Stop
<1>12. ~(Wake(p) \/ Join(p) \/ Touch(p) \/ ThreadEnds(p))
  BY <1>1 DEF Wake, Join, Touch, ThreadEnds
<1> QED
  BY <1>3, <1>4, <1>5, <1>6, <1>7, <1>8, <1>9, <1>10, <1>11, <1>12 DEF Step, Environment

LEMMA LaunchStep ==
  ASSUME ForkInv, Launcher, NEW p \in Pid, Step(p) \/ Environment(p)
  PROVE  LaunchInv' /\ Shape' /\ prog' = prog /\ hit' = hit
<1>1. /\ Forks(p) \/ KeepsToken(p) \/ PassesToken(p) \/ TakesToken(p) \/ Elsewhere(p)
      /\ prog' = prog /\ hit' = hit
  BY LaunchKinds
<1>2. /\ \A q \in Pid : st[q] \in {"free", "other", "loop", "exec", "wait", "program", "exited"}
      /\ \A q \in Pid : st[q] = "wait" => pid[q] \in Pid /\ st[pid[q]] \notin {"free", "other"}
      /\ \A q, u \in Pid : st[q] = "wait" /\ st[u] = "wait" /\ pid[q] = pid[u] => q = u
      /\ \A q, u \in Pid : Ready(q) /\ Ready(u) => q = u
  BY DEF ForkInv, LaunchInv
<1>3. st \in [Pid -> States] /\ pid \in [Pid -> Pid \cup {-1, 0}]
  BY DEF ForkInv, Shape
<1>4. CASE Forks(p)
  <2>1. PICK c \in Pid : /\ st[p] = "loop" /\ st[c] = "free"
                         /\ st' = [st EXCEPT ![c] = "exec", ![p] = "wait"]
                         /\ pid' = [pid EXCEPT ![c] = 0, ![p] = c]
    BY <1>4 DEF Forks
  <2>2. /\ st'[p] = "wait" /\ st'[c] = "exec" /\ pid'[p] = c /\ c # p
        /\ \A q \in Pid : q # p /\ q # c => st'[q] = st[q] /\ pid'[q] = pid[q]
    BY <1>3, <2>1
  <2>3. Shape'
    BY <1>3, <2>1 DEF Shape, States
  <2>4. \A q \in Pid : (q # p /\ ~Ready(q)') \/ q = p
        \/ q = c
    <3> SUFFICES ASSUME NEW q \in Pid, q # p, q # c PROVE ~Ready(q)'
      OBVIOUS
    <3>1. ~Ready(q)
      BY <1>2, <2>1 DEF Ready, Active
    <3>2. CASE st[q] = "wait"
      <4>1. pid'[q] = pid[q] /\ pid[q] \in Pid /\ pid[q] # c
        BY <1>2, <2>1, <2>2, <3>2
      <4>2. st'[pid[q]] # "exited"
        BY <2>2, <3>1, <3>2, <4>1 DEF Ready
      <4> QED BY <2>2, <3>2, <4>1, <4>2 DEF Ready, Active
    <3>3. CASE st[q] # "wait"
      BY <2>2, <3>1, <3>3 DEF Ready, Active
    <3> QED BY <3>2, <3>3
  <2>5. ~Ready(p)'
    BY <2>2 DEF Ready, Active
  <2>6. \A q, u \in Pid : Ready(q)' /\ Ready(u)' => q = u
    BY <2>4, <2>5
  <2>7. \A q \in Pid : st'[q] = "wait" => pid'[q] \in Pid /\ st'[pid'[q]] \notin {"free", "other"}
    BY <1>2, <2>1, <2>2
  <2>8. \A q, u \in Pid : st'[q] = "wait" /\ st'[u] = "wait" /\ pid'[q] = pid'[u] => q = u
    BY <1>2, <2>1, <2>2
  <2>9. \A q \in Pid : st'[q] \in {"free", "other", "loop", "exec", "wait", "program", "exited"}
    BY <1>2, <2>2
  <2> QED BY <1>1, <2>3, <2>6, <2>7, <2>8, <2>9 DEF LaunchInv
<1>5. CASE KeepsToken(p)
  <2>1. /\ Active(p) /\ Active(p)' /\ st'[p] \in {"loop", "program"}
        /\ \A q \in Pid : q # p => st'[q] = st[q] /\ pid'[q] = pid[q]
    BY <1>3, <1>5 DEF KeepsToken, Active
  <2>2. Shape'
    BY <1>3, <1>5 DEF Shape, KeepsToken, States
  <2>3. \A q \in Pid : q # p => ~Ready(q)'
    <3> SUFFICES ASSUME NEW q \in Pid, q # p PROVE ~Ready(q)'
      OBVIOUS
    <3>1. ~Ready(q)
      BY <1>2, <2>1 DEF Ready
    <3>2. st'[q] = st[q] /\ pid'[q] = pid[q]
      BY <2>1
    <3>3. st[q] = "wait" => pid[q] \in Pid /\ st'[pid[q]] # "exited"
      BY <1>2, <2>1, <3>1 DEF Ready
    <3> QED BY <3>1, <3>2, <3>3 DEF Ready, Active
  <2>4. \A q, u \in Pid : Ready(q)' /\ Ready(u)' => q = u
    BY <2>3
  <2>5. \A q \in Pid : st'[q] = "wait" => q # p /\ st[q] = "wait"
    BY <2>1
  <2>6. \A q \in Pid : st'[q] = "wait" => pid'[q] \in Pid /\ st'[pid'[q]] \notin {"free", "other"}
    BY <1>2, <2>1, <2>5
  <2>7. \A q, u \in Pid : st'[q] = "wait" /\ st'[u] = "wait" /\ pid'[q] = pid'[u] => q = u
    BY <1>2, <2>1, <2>5
  <2>8. \A q \in Pid : st'[q] \in {"free", "other", "loop", "exec", "wait", "program", "exited"}
    BY <1>2, <2>1
  <2> QED BY <1>1, <2>2, <2>4, <2>6, <2>7, <2>8 DEF LaunchInv
<1>6. CASE PassesToken(p)
  <2>1. /\ Active(p) /\ st'[p] = "exited" /\ pid' = pid
        /\ \A q \in Pid : q # p => st'[q] = st[q]
    BY <1>3, <1>6 DEF PassesToken
  <2>2. Shape'
    BY <1>3, <1>6 DEF Shape, PassesToken, States
  <2>3. \A q \in Pid : Ready(q)' => st[q] = "wait" /\ pid[q] = p
    <3> SUFFICES ASSUME NEW q \in Pid, Ready(q)' PROVE st[q] = "wait" /\ pid[q] = p
      OBVIOUS
    <3>1. q # p
      BY <2>1 DEF Ready, Active
    <3>2. ~Ready(q)
      BY <1>2, <2>1, <3>1 DEF Ready
    <3>3. st'[q] = st[q]
      BY <2>1, <3>1
    <3>4. st[q] = "wait" /\ st'[pid[q]] = "exited" /\ st[pid[q]] # "exited" /\ pid[q] \in Pid
      BY <1>2, <2>1, <3>2, <3>3 DEF Ready, Active
    <3> QED BY <2>1, <3>4
  <2>4. \A q, u \in Pid : Ready(q)' /\ Ready(u)' => q = u
    BY <1>2, <2>3
  <2>5. \A q \in Pid : st'[q] = "wait" => q # p /\ st[q] = "wait"
    BY <2>1
  <2>6. \A q \in Pid : st'[q] = "wait" => pid'[q] \in Pid /\ st'[pid'[q]] \notin {"free", "other"}
    BY <1>2, <2>1, <2>5
  <2>7. \A q, u \in Pid : st'[q] = "wait" /\ st'[u] = "wait" /\ pid'[q] = pid'[u] => q = u
    BY <1>2, <2>1, <2>5
  <2>8. \A q \in Pid : st'[q] \in {"free", "other", "loop", "exec", "wait", "program", "exited"}
    BY <1>2, <2>1
  <2> QED BY <1>1, <2>2, <2>4, <2>6, <2>7, <2>8 DEF LaunchInv
<1>7. CASE TakesToken(p)
  <2> DEFINE c == pid[p]
  <2>1. /\ st[p] = "wait" /\ st[c] = "exited" /\ c \in Pid /\ c # p
        /\ st' = [st EXCEPT ![p] = "loop", ![c] = "free"] /\ pid' = [pid EXCEPT ![c] = 0]
    BY <1>2, <1>7 DEF TakesToken
  <2> HIDE DEF c
  <2>2. /\ st'[p] = "loop" /\ st'[c] = "free"
        /\ \A q \in Pid : q # p /\ q # c => st'[q] = st[q] /\ pid'[q] = pid[q]
    BY <1>3, <2>1
  <2>3. Shape'
    BY <1>3, <2>1 DEF Shape, States
  <2>4. \A q \in Pid : st'[q] = "wait" =>
          /\ st[q] = "wait" /\ q # p /\ pid'[q] = pid[q] /\ pid[q] \in Pid /\ pid[q] # c
    BY <1>2, <2>1, <2>2 DEF c
  <2>5. \A q \in Pid : Ready(q)' => q = p
    <3> SUFFICES ASSUME NEW q \in Pid, Ready(q)', q # p PROVE FALSE
      OBVIOUS
    <3>1. q # c
      BY <2>2 DEF Ready, Active
    <3>2. ~Ready(q)
      BY <1>2, <2>1 DEF Ready, c
    <3>3. st'[q] = st[q] /\ pid'[q] = pid[q]
      BY <2>2, <3>1
    <3>4. st[q] = "wait" /\ st'[pid[q]] = "exited" /\ st[pid[q]] # "exited"
      BY <3>2, <3>3 DEF Ready, Active
    <3>5. pid[q] \in Pid /\ pid[q] # c
      BY <2>4, <3>3, <3>4
    <3> QED BY <2>2, <3>4, <3>5
  <2>6. \A q, u \in Pid : Ready(q)' /\ Ready(u)' => q = u
    BY <2>5
  <2>7. \A q \in Pid : st'[q] = "wait" => pid'[q] \in Pid /\ st'[pid'[q]] \notin {"free", "other"}
    BY <1>2, <2>2, <2>4
  <2>8. \A q, u \in Pid : st'[q] = "wait" /\ st'[u] = "wait" /\ pid'[q] = pid'[u] => q = u
    BY <1>2, <2>4
  <2>9. \A q \in Pid : st'[q] \in {"free", "other", "loop", "exec", "wait", "program", "exited"}
    BY <1>2, <2>2
  <2> QED BY <1>1, <2>3, <2>6, <2>7, <2>8, <2>9 DEF LaunchInv
<1>8. CASE Elsewhere(p)
  <2>1. /\ st[p] \in {"free", "other"} /\ st'[p] \in {"free", "other"} /\ pid' = pid
        /\ \A q \in Pid : q # p => st'[q] = st[q]
    BY <1>3, <1>8 DEF Elsewhere
  <2>2. Shape'
    BY <1>3, <1>8 DEF Shape, Elsewhere, States
  <2>3. \A q \in Pid : st'[q] = "wait" => q # p /\ st[q] = "wait" /\ pid[q] \in Pid /\ pid[q] # p
    BY <1>2, <2>1
  <2>4. \A q \in Pid : Ready(q)' => Ready(q)
    BY <2>1, <2>3 DEF Ready, Active
  <2>5. \A q, u \in Pid : Ready(q)' /\ Ready(u)' => q = u
    BY <1>2, <2>4
  <2>6. \A q \in Pid : st'[q] = "wait" => pid'[q] \in Pid /\ st'[pid'[q]] \notin {"free", "other"}
    BY <1>2, <2>1, <2>3
  <2>7. \A q, u \in Pid : st'[q] = "wait" /\ st'[u] = "wait" /\ pid'[q] = pid'[u] => q = u
    BY <1>2, <2>1, <2>3
  <2>8. \A q \in Pid : st'[q] \in {"free", "other", "loop", "exec", "wait", "program", "exited"}
    BY <1>2, <2>1
  <2> QED BY <1>1, <2>2, <2>5, <2>6, <2>7, <2>8 DEF LaunchInv
<1> QED BY <1>1, <1>4, <1>5, <1>6, <1>7, <1>8

-----------------------------------------------------------------------------
(* Steps of yield.c. *)

LEMMA YieldStep ==
  ASSUME ForkInv, prog = "yield", NEW p \in Pid, Step(p) \/ Environment(p)
  PROVE  YieldInv' /\ Shape' /\ prog' = prog /\ hit' \subseteq {"spin", "exited"}
<1>1. /\ \A q \in Pid : st[q] \in {"free", "other", "loop", "measure", "spin", "exited"}
      /\ \A q \in Pid : st[q] = "measure" => pid[q] \in Pid /\ st[pid[q]] \in {"spin", "exited"}
  BY DEF ForkInv, YieldInv
<1>2. st \in [Pid -> States] /\ pid \in [Pid -> Pid \cup {-1, 0}]
  BY DEF ForkInv, Shape
<1>3. hit \subseteq {"spin", "exited"}
  BY DEF ForkInv, SignalHitsChild
<1>4. CASE YieldFork(p)
  <2>1. PICK c \in Pid : /\ st[p] = "loop" /\ st[c] = "free"
                         /\ st' = [st EXCEPT ![c] = "spin", ![p] = "measure"]
                         /\ pid' = [pid EXCEPT ![c] = 0, ![p] = c]
    BY <1>4 DEF YieldFork, Forked, Free
  <2>2. /\ st'[p] = "measure" /\ st'[c] = "spin" /\ pid'[p] = c /\ c # p
        /\ \A q \in Pid : q # p /\ q # c => st'[q] = st[q] /\ pid'[q] = pid[q]
    BY <1>2, <2>1
  <2>3. Shape'
    BY <1>2, <2>1 DEF Shape, States
  <2>4. \A q \in Pid : st'[q] \in {"free", "other", "loop", "measure", "spin", "exited"}
    BY <1>1, <2>2
  <2>5. \A q \in Pid : st'[q] = "measure" => pid'[q] \in Pid /\ st'[pid'[q]] \in {"spin", "exited"}
    BY <1>1, <2>1, <2>2
  <2>6. prog' = prog /\ hit' = hit
    BY <1>4 DEF YieldFork, Forked, fixed
  <2> QED BY <1>3, <2>3, <2>4, <2>5, <2>6 DEF YieldInv
<1>5. CASE YieldForkFails(p) \/ ChildKilled(p)
  <2>1. /\ st[p] \in {"loop", "spin"} /\ st' = [st EXCEPT ![p] = "exited"]
        /\ pid' = pid \/ (st[p] = "loop" /\ pid' = [pid EXCEPT ![p] = -1])
        /\ prog' = prog /\ hit' = hit
    BY <1>1, <1>5 DEF YieldForkFails, ChildKilled, Goto, fixed, history
  <2>2. /\ st'[p] = "exited"
        /\ \A q \in Pid : q # p => st'[q] = st[q] /\ pid'[q] = pid[q]
    BY <1>2, <2>1
  <2>3. Shape'
    BY <1>2, <2>1 DEF Shape, States
  <2>4. \A q \in Pid : st'[q] \in {"free", "other", "loop", "measure", "spin", "exited"}
    BY <1>1, <2>2
  <2>5. \A q \in Pid : st'[q] = "measure" => pid'[q] \in Pid /\ st'[pid'[q]] \in {"spin", "exited"}
    BY <1>1, <2>2
  <2> QED BY <1>3, <2>1, <2>3, <2>4, <2>5 DEF YieldInv
<1>6. CASE Yield(p)
  <2>1. st' = st /\ pid' = pid /\ prog' = prog /\ hit' = hit
    BY <1>6 DEF Yield, fixed, history
  <2> QED BY <1>1, <1>2, <1>3, <2>1 DEF YieldInv, Shape
<1>7. CASE Kill(p)
  <2>1. st[p] = "measure" /\ pid[p] \in Pid /\ st[pid[p]] \in {"spin", "exited"}
    BY <1>1, <1>7 DEF Kill
  <2>2. pid[p] # -1
    BY <2>1, ForkLoopsAssumption
  <2>3. Targets(p) = {pid[p]}
    BY <2>2 DEF Targets
  <2>4. /\ hit' = {st[q] : q \in {pid[p]}} /\ pid' = pid /\ prog' = prog
        /\ st' = [q \in Pid |->
                    IF q = p \/ (q \in {pid[p]} /\ ~ignored) THEN "exited" ELSE st[q]]
    BY <1>7, <2>3 DEF Kill, fixed
  <2>5. hit' \subseteq {"spin", "exited"}
    BY <2>1, <2>4
  <2>6. \A q \in Pid : st'[q] = st[q] \/ st'[q] = "exited"
    BY <2>4
  <2>7. st' \in [Pid -> States]
    BY <1>2, <2>4 DEF States
  <2>8. \A q \in Pid : st'[q] = "measure" => pid'[q] \in Pid /\ st'[pid'[q]] \in {"spin", "exited"}
    BY <1>1, <2>4, <2>6
  <2>9. \A q \in Pid : st'[q] \in {"free", "other", "loop", "measure", "spin", "exited"}
    BY <1>1, <2>6
  <2> QED BY <1>2, <2>4, <2>5, <2>7, <2>8, <2>9 DEF YieldInv, Shape
<1>8. CASE OtherStarts(p) \/ OtherEnds(p)
  <2>1. /\ st[p] \in {"free", "other"} /\ pid' = pid /\ prog' = prog /\ hit' = hit
        /\ \E s \in {"free", "other"} : st' = [st EXCEPT ![p] = s]
    BY <1>8 DEF OtherStarts, OtherEnds, Goto, Free, fixed, history
  <2>2. /\ st'[p] \in {"free", "other"}
        /\ \A q \in Pid : q # p => st'[q] = st[q]
    BY <1>2, <2>1
  <2>3. Shape'
    BY <1>2, <2>1 DEF Shape, States
  <2>4. \A q \in Pid : st'[q] \in {"free", "other", "loop", "measure", "spin", "exited"}
    BY <1>1, <2>2
  <2>5. \A q \in Pid : st'[q] = "measure" => pid'[q] \in Pid /\ st'[pid'[q]] \in {"spin", "exited"}
    BY <1>1, <2>1, <2>2
  <2> QED BY <1>3, <2>1, <2>3, <2>4, <2>5 DEF YieldInv
<1>9. ~(Fork(p) \/ ForkFails(p) \/ Return(p) \/ Create(p) \/ CreateFails(p) \/ Sleep(p) \/ Stop(p))
  BY DEF Fork, ForkFails, Return, InLoop, Launcher, Create, CreateFails, Sleep, Stop
<1>10. ~(Exec(p) \/ ExecFails(p) \/ ProgramEnds(p) \/ Wait(p))
  BY <1>1 DEF Exec, ExecFails, ProgramEnds, Wait
<1>11. ~(Wake(p) \/ Join(p) \/ Touch(p) \/ ThreadEnds(p))
  BY <1>1 DEF Wake, Join, Touch, ThreadEnds
<1> QED
  BY <1>4, <1>5, <1>6, <1>7, <1>8, <1>9, <1>10, <1>11 DEF Step, Environment

-----------------------------------------------------------------------------
(* Steps of mwait.c, which the two properties say nothing about: the       *)
(* process table keeps its shape and no signal is sent.                    *)

LEMMA MwaitStep ==
  ASSUME ForkInv, prog = "mwait", NEW p \in Pid, Step(p) \/ Environment(p)
  PROVE  Shape' /\ prog' = prog /\ hit' = hit /\ \A q \in Pid : st'[q] # "wait"
<1>0. \A q \in Pid : st[q] # "wait"
  BY DEF ForkInv, MwaitInv
<1>1. st \in [Pid -> States] /\ pid \in [Pid -> Pid \cup {-1, 0}]
  BY DEF ForkInv, Shape
<1>2. CASE Create(p)
  <2>1. PICK c \in Pid : /\ st' = [st EXCEPT ![c] = "count", ![p] = "measure"]
                         /\ pid' = [pid EXCEPT ![c] = 0, ![p] = c]
    BY <1>2 DEF Create, Forked, Free
  <2>2. Shape' /\ \A q \in Pid : st'[q] # "wait"
    BY <1>0, <1>1, <2>1 DEF Shape, States
  <2>3. prog' = prog /\ hit' = hit
    BY <1>2 DEF Create, Forked, fixed
  <2> QED BY <2>2, <2>3
<1>3. CASE Touch(p)
  BY <1>0, <1>1, <1>3 DEF Touch, Shape, fixed, history
<1>4. CASE Join(p)
  <2>1. /\ \E s \in {"exited", "hung"} : st' = [st EXCEPT ![p] = s]
        /\ pid' = pid /\ prog' = prog /\ hit' = hit
    BY <1>4 DEF Join, Goto, fixed, history
  <2> QED BY <1>0, <1>1, <2>1 DEF Shape, States
<1>5. CASE CreateFails(p) \/ Sleep(p) \/ Wake(p) \/ Stop(p) \/ ThreadEnds(p)
           \/ Exec(p) \/ ExecFails(p) \/ ProgramEnds(p)
           \/ OtherStarts(p) \/ OtherEnds(p) \/ ChildKilled(p)
  <2>1. /\ \E s \in States \ {"wait"} : st' = [st EXCEPT ![p] = s]
        /\ pid' = pid /\ prog' = prog /\ hit' = hit
    <3>1. CASE CreateFails(p) \/ Sleep(p) \/ Wake(p)
      BY <3>1 DEF CreateFails, Sleep, Wake, Goto, States, fixed, history
    <3>2. CASE Stop(p) \/ ThreadEnds(p)
      BY <3>2 DEF Stop, ThreadEnds, Goto, States, fixed, history
    <3>3. CASE Exec(p) \/ ExecFails(p) \/ ProgramEnds(p)
      BY <3>3 DEF Exec, ExecFails, ProgramEnds, Goto, States, fixed, history
    <3>4. CASE OtherStarts(p) \/ OtherEnds(p) \/ ChildKilled(p)
      BY <3>4 DEF OtherStarts, OtherEnds, ChildKilled, Goto, States, fixed, history
    <3> QED BY <1>5, <3>1, <3>2, <3>3, <3>4
  <2> QED BY <1>0, <1>1, <2>1 DEF Shape
<1>6. ~(Fork(p) \/ ForkFails(p) \/ Return(p) \/ Wait(p))
  BY <1>0 DEF Fork, ForkFails, Return, InLoop, Launcher, Wait
<1>7. ~(YieldFork(p) \/ YieldForkFails(p) \/ Yield(p) \/ Kill(p))
  BY DEF YieldFork, YieldForkFails, Yield, Kill
<1> QED
  BY <1>2, <1>3, <1>4, <1>5, <1>6, <1>7 DEF Step, Environment

-----------------------------------------------------------------------------
LEMMA ForkInit == Init => ForkInv
<1> SUFFICES ASSUME Init PROVE ForkInv
  OBVIOUS
<1>1. /\ st = [p \in Pid |-> IF p = Root THEN "loop" ELSE "free"]
      /\ pid = [p \in Pid |-> 0] /\ hit = {} /\ prog \in DOMAIN RunsOf
  BY DEF Init
<1>2. prog \in {"exec", "stracetime", "yield", "mwait"}
  BY <1>1, ForkLoopsAssumption
<1>3. Shape
  BY <1>1 DEF Shape, States
<1>4. \A p \in Pid : st[p] \in {"loop", "free"} /\ (st[p] = "loop" => p = Root)
  BY <1>1
<1>5. LaunchInv
  BY <1>4 DEF LaunchInv, Ready, Active
<1>6. YieldInv /\ MwaitInv
  BY <1>4 DEF YieldInv, MwaitInv
<1>7. SignalHitsChild
  BY <1>1 DEF SignalHitsChild
<1> QED BY <1>2, <1>3, <1>5, <1>6, <1>7 DEF ForkInv

LEMMA ForkStep == ForkInv /\ [Next]_vars => ForkInv'
<1> SUFFICES ASSUME ForkInv, [Next]_vars PROVE ForkInv'
  OBVIOUS
<1>1. CASE Next
  <2>1. PICK p \in Pid : Step(p) \/ Environment(p)
    BY <1>1 DEF Next
  <2>2. CASE Launcher
    <3>1. LaunchInv' /\ Shape' /\ prog' = prog /\ hit' = hit
      BY <2>1, <2>2, LaunchStep
    <3>2. YieldInv' /\ MwaitInv'
      BY <2>2, <3>1 DEF Launcher, YieldInv, MwaitInv
    <3> QED BY <3>1, <3>2 DEF ForkInv, SignalHitsChild
  <2>3. CASE prog = "yield"
    <3>1. YieldInv' /\ Shape' /\ prog' = prog /\ hit' \subseteq {"spin", "exited"}
      BY <2>1, <2>3, YieldStep
    <3>2. LaunchInv' /\ MwaitInv'
      BY <2>3, <3>1 DEF Launcher, LaunchInv, MwaitInv
    <3> QED BY <3>1, <3>2 DEF ForkInv, SignalHitsChild
  <2>4. CASE prog = "mwait"
    <3>1. Shape' /\ prog' = prog /\ hit' = hit /\ \A q \in Pid : st'[q] # "wait"
      BY <2>1, <2>4, MwaitStep
    <3>2. LaunchInv' /\ YieldInv' /\ MwaitInv'
      BY <2>4, <3>1 DEF Launcher, LaunchInv, YieldInv, MwaitInv
    <3> QED BY <3>1, <3>2 DEF ForkInv, SignalHitsChild
  <2> QED BY <2>2, <2>3, <2>4 DEF ForkInv, Launcher
<1>2. CASE UNCHANGED vars
  BY <1>2 DEF vars, ForkInv, Shape, LaunchInv, YieldInv, MwaitInv, SignalHitsChild,
              Launcher, Ready, Active
<1> QED BY <1>1, <1>2

\* OneRunsCorrect: in exec.c and stracetime.c never more than one process is at work,
\* for any number of rounds and whichever forks, execs and programs fail or die.
THEOREM OneRunsCorrect == Spec => []OneRuns
<1>1. ForkInv => OneRuns
  <2> SUFFICES ASSUME ForkInv, Launcher
               PROVE  Cardinality({p \in Pid : Active(p)}) <= 1
    BY DEF OneRuns, Active
  <2> DEFINE A == {p \in Pid : Active(p)}
  <2>1. \A p, q \in A : p = q
    BY DEF ForkInv, LaunchInv, Ready
  <2>2. CASE A = {}
    BY <2>2, FS_EmptySet
  <2>3. CASE A # {}
    <3>1. PICK p \in A : TRUE
      BY <2>3
    <3>2. A = {p}
      BY <2>1, <3>1
    <3> HIDE DEF A
    <3>3. Cardinality(A) = 1
      BY <3>2, FS_Singleton
    <3> QED BY <3>3 DEF A
  <2> QED BY <2>2, <2>3
<1>2. Spec => [](ForkInv)
  BY ForkInit, ForkStep, PTL DEF Spec
<1> QED BY <1>1, <1>2, PTL

\* SignalHitsChildCorrect: the SIGINT of yield.c reaches its child or what is left of
\* it and no other process, whoever starts and ends in the meantime.
THEOREM SignalHitsChildCorrect == Spec => []SignalHitsChild
<1>1. ForkInv => SignalHitsChild
  BY DEF ForkInv
<1>2. Spec => [](ForkInv)
  BY ForkInit, ForkStep, PTL DEF Spec
<1> QED BY <1>1, <1>2, PTL
-----------------------------------------------------------------------------
(***************************************************************************)
(* The number of forks.  A process with n rounds to go causes at most      *)
(* 2^n - 1 forks, its own and those of its children.                       *)
(***************************************************************************)
\* Every set of numbers has a least one.
LEMMA LeastNatural ==
  ASSUME NEW T, T \subseteq Nat, T # {}
  PROVE  \E n \in T : \A m \in T : n <= m
<1> DEFINE Below == OpToRel(<, Nat)
<1>1. IsWellFoundedOn(Below, Nat)
  BY NatLessThanWellFounded
<1>2. \A x, y \in Nat : x < y => <<x, y>> \in Below
  BY SMT DEF OpToRel
<1> HIDE DEF Below
<1>3. PICK n \in T : \A m \in T : ~(<<m, n>> \in Below)
  BY <1>1, WFMin
<1>4. \A m \in T : ~(m < n)
  BY <1>2, <1>3
<1>5. \A m \in T : n <= m
  BY ONLY <1>4, T \subseteq Nat, n \in T, SMT
<1> QED BY <1>5

\* Induction on the numbers, for sets.
LEMMA AllNaturals ==
  ASSUME NEW S, 0 \in S, \A n \in Nat : n \in S => n + 1 \in S
  PROVE  Nat \subseteq S
<1> DEFINE T == Nat \ S
<1> SUFFICES ASSUME T # {} PROVE FALSE
  OBVIOUS
<1>1. PICK n \in T : \A m \in T : n <= m
  BY LeastNatural
<1>2. n \in Nat /\ n \notin S /\ n # 0
  BY <1>1
<1>3. PICK m \in Nat : n = m + 1 /\ m < n
  <2>1. n - 1 \in Nat /\ n = (n - 1) + 1 /\ n - 1 < n
    BY <1>2
  <2> QED BY <2>1
<1>4. m \in S
  BY <1>1, <1>3
<1> QED BY <1>2, <1>3, <1>4

\* The first n values of TwoTo.
Doubles(n, g) == g \in [0 .. n -> Nat] /\ g[0] = 1 /\ \A k \in 1 .. n : g[k] = 2 * g[k - 1]

LEMMA DoublesExists == ASSUME NEW n \in Nat PROVE \E g : Doubles(n, g)
<1> DEFINE S == {m \in Nat : \E g : Doubles(m, g)}
<1>1. 0 \in S
  <2>1. Doubles(0, [k \in 0 .. 0 |-> 1])
    BY DEF Doubles
  <2> QED BY <2>1
<1>2. ASSUME NEW m \in Nat, m \in S PROVE m + 1 \in S
  <2>1. PICK g : Doubles(m, g)
    BY <1>2
  <2> DEFINE h == [k \in 0 .. m + 1 |-> IF k <= m THEN g[k] ELSE 2 * g[m]]
  <2>2. Doubles(m + 1, h)
    BY <2>1 DEF Doubles
  <2> HIDE DEF h
  <2> QED BY <2>2
<1> HIDE DEF S
<1>3. Nat \subseteq S
  BY <1>1, <1>2, AllNaturals
<1>4. n \in S
  BY <1>3
<1> QED BY <1>4 DEF S

LEMMA DoublesAgree ==
  ASSUME NEW n \in Nat, NEW m \in Nat, NEW g, NEW h, Doubles(n, g), Doubles(m, h)
  PROVE  \A k \in Nat : k <= n /\ k <= m => g[k] = h[k]
<1> DEFINE S == {k \in Nat : k <= n /\ k <= m => g[k] = h[k]}
<1>1. 0 \in S
  BY DEF Doubles
<1>2. ASSUME NEW k \in Nat, k \in S PROVE k + 1 \in S
  <2> SUFFICES ASSUME k + 1 <= n, k + 1 <= m PROVE g[k + 1] = h[k + 1]
    OBVIOUS
  <2>1. k + 1 \in 1 .. n /\ k + 1 \in 1 .. m /\ (k + 1) - 1 = k /\ k <= n /\ k <= m
    OBVIOUS
  <2>2. g[k + 1] = 2 * g[k] /\ h[k + 1] = 2 * h[k]
    BY <2>1 DEF Doubles
  <2> QED BY <1>2, <2>1, <2>2
<1> HIDE DEF S
<1>3. Nat \subseteq S
  BY <1>1, <1>2, AllNaturals
<1> QED BY <1>3 DEF S

\* The equation of TwoTo.
LEMMA TwoToIs ==
  /\ TwoTo[0] = 1
  /\ \A n \in Nat : TwoTo[n] \in Nat \ {0} /\ TwoTo[n + 1] = 2 * TwoTo[n]
<1> DEFINE solves(f) == f = [n \in Nat |-> IF n = 0 THEN 1 ELSE 2 * f[n - 1]]
           part(n) == CHOOSE g : Doubles(n, g)
           f0 == [n \in Nat |-> part(n)[n]]
<1>1. \A n \in Nat : Doubles(n, part(n))
  BY DoublesExists
<1> HIDE DEF part
<1>2. solves(f0)
  <2>1. ASSUME NEW n \in Nat PROVE f0[n] = IF n = 0 THEN 1 ELSE 2 * f0[n - 1]
    <3>1. CASE n = 0
      BY <1>1, <3>1 DEF Doubles
    <3>2. CASE n # 0
      <4>1. n - 1 \in Nat /\ n - 1 <= n /\ n - 1 <= n - 1 /\ n \in 1 .. n
        BY <3>2
      <4>2. part(n)[n] = 2 * part(n)[n - 1]
        BY <1>1, <4>1 DEF Doubles
      <4>3. part(n)[n - 1] = part(n - 1)[n - 1]
        BY <1>1, <4>1, DoublesAgree
      <4> QED BY <3>2, <4>1, <4>2, <4>3
    <3> QED BY <3>1, <3>2
  <2> HIDE DEF f0
  <2>2. f0 = [n \in Nat |-> f0[n]]
    BY DEF f0
  <2> QED BY <2>1, <2>2, Zenon
<1>3. TwoTo = CHOOSE f : solves(f)
  BY DEF TwoTo
<1>4. solves(TwoTo)
  BY <1>2, <1>3, Zenon
<1>5. \A n \in Nat : TwoTo[n] = IF n = 0 THEN 1 ELSE 2 * TwoTo[n - 1]
  BY <1>4, Zenon
<1>6. TwoTo[0] = 1
  BY <1>5
<1>7. \A n \in Nat : TwoTo[n + 1] = 2 * TwoTo[n]
  <2> SUFFICES ASSUME NEW n \in Nat PROVE TwoTo[n + 1] = 2 * TwoTo[n]
    OBVIOUS
  <2>1. n + 1 \in Nat /\ n + 1 # 0 /\ (n + 1) - 1 = n
    OBVIOUS
  <2> QED BY <1>5, <2>1
<1> DEFINE S == {n \in Nat : TwoTo[n] \in Nat \ {0}}
<1>8. 0 \in S
  BY <1>6
<1>9. ASSUME NEW n \in Nat, n \in S PROVE n + 1 \in S
  BY <1>7, <1>9
<1> HIDE DEF S
<1>10. Nat \subseteq S
  BY <1>8, <1>9, AllNaturals
<1> QED BY <1>6, <1>7, <1>10 DEF S
\* The forks that n rounds can cause: one, and those of n - 1 rounds in the child and in
\* the parent.
Rest(n) == TwoTo[n] - 1

LEMMA RestIs == \A n \in Nat : Rest(n) \in Nat /\ Rest(n + 1) = 1 + 2 * Rest(n)
  BY TwoToIs DEF Rest

\* What the process at work can still cause by itself.
Demand(p) ==
  IF st[p] = "loop" THEN Rest(runs - i[p])
  ELSE IF st[p] = "exec" THEN Rest(runs - i[p] - 1) ELSE 0

\* A ceiling for the forks at the end of each process: a waiting process has put aside what
\* it needs after its child, the one at work stays below its own.  The sum over the chain
\* of waiting processes is in the ceilings.
Ceilings(ceil) ==
  /\ \A p \in Pid : ceil[p] <= Rest(runs)
  /\ \A p \in Pid : st[p] = "wait" => ceil[pid[p]] + Rest(runs - i[p] - 1) <= ceil[p]
  /\ \A p \in Pid : Active(p) => forks + Demand(p) <= ceil[p]
  /\ \A p \in Pid : st[p] = "wait" /\ st[pid[p]] = "exited" => forks <= ceil[pid[p]]

BudgetInv ==
  Launcher =>
    /\ runs \in Nat /\ forks \in Nat /\ i \in [Pid -> 0 .. runs]
    /\ \A p \in Pid : st[p] \in {"exec", "wait"} => i[p] < runs
    /\ forks <= Rest(runs)
    /\ \E ceil \in [Pid -> Int] : Ceilings(ceil)

LEMMA MinOfTwo == ASSUME NEW a \in Nat, NEW b \in Nat PROVE Min({a, b}) \in Nat /\ Min({a, b}) <= a
<1> DEFINE least(x) == x \in {a, b} /\ \A y \in {a, b} : x <= y
<1>1. \E x \in {a, b} : \A y \in {a, b} : x <= y
  <2>1. CASE a <= b
    BY <2>1
  <2>2. CASE b <= a
    BY <2>2
  <2> QED BY <2>1, <2>2
<1>2. least(CHOOSE x \in {a, b} : \A y \in {a, b} : x <= y)
  BY <1>1
<1>3. least(Min({a, b}))
  BY <1>2 DEF Min
<1> QED BY <1>3

LEMMA BudgetStep ==
  ASSUME ForkInv, BudgetInv, Launcher, NEW p \in Pid, Step(p) \/ Environment(p)
  PROVE  BudgetInv'
<1>1. /\ Forks(p) \/ KeepsToken(p) \/ PassesToken(p) \/ TakesToken(p) \/ Elsewhere(p)
      /\ prog' = prog /\ runs' = runs
  BY LaunchKinds
<1>2. /\ \A q \in Pid : st[q] \in {"free", "other", "loop", "exec", "wait", "program", "exited"}
      /\ \A q \in Pid : st[q] = "wait" => pid[q] \in Pid /\ st[pid[q]] \notin {"free", "other"}
      /\ \A q, u \in Pid : st[q] = "wait" /\ st[u] = "wait" /\ pid[q] = pid[u] => q = u
      /\ \A q, u \in Pid : Ready(q) /\ Ready(u) => q = u
  BY DEF ForkInv, LaunchInv
<1>3. st \in [Pid -> States] /\ pid \in [Pid -> Pid \cup {-1, 0}]
  BY DEF ForkInv, Shape
<1>4. /\ runs \in Nat /\ forks \in Nat /\ i \in [Pid -> 0 .. runs] /\ forks <= Rest(runs)
      /\ \A q \in Pid : st[q] \in {"exec", "wait"} => i[q] < runs
  BY DEF BudgetInv
<1>5. PICK ceil \in [Pid -> Int] : Ceilings(ceil)
  BY DEF BudgetInv
<1>6. /\ \A q \in Pid : ceil[q] \in Int /\ ceil[q] <= Rest(runs) /\ i[q] \in 0 .. runs
      /\ \A q \in Pid : st[q] = "wait" =>
           ceil[pid[q]] + Rest(runs - i[q] - 1) <= ceil[q] /\ Rest(runs - i[q] - 1) \in Nat
      /\ \A q \in Pid : Active(q) => forks + Demand(q) <= ceil[q]
      /\ \A q \in Pid : st[q] = "wait" /\ st[pid[q]] = "exited" => forks <= ceil[pid[q]]
      /\ Rest(runs) \in Nat
  <2>1. \A q \in Pid : st[q] = "wait" => runs - i[q] - 1 \in Nat
    BY <1>4
  <2>2. \A q \in Pid : st[q] = "wait" => Rest(runs - i[q] - 1) \in Nat
    BY <2>1, RestIs
  <2> QED BY <1>4, <1>5, <2>2, RestIs DEF Ceilings
<1>7. CASE Forks(p)
  <2>1. PICK c \in Pid : /\ st[p] = "loop" /\ st[c] = "free"
                         /\ st' = [st EXCEPT ![c] = "exec", ![p] = "wait"]
                         /\ pid' = [pid EXCEPT ![c] = 0, ![p] = c]
                         /\ i[p] < runs /\ i' = [i EXCEPT ![c] = i[p]]
                         /\ forks' = Min({forks + 1, ManyForks})
    BY <1>7 DEF Forks
  <2>2. /\ st'[p] = "wait" /\ st'[c] = "exec" /\ pid'[p] = c /\ c # p
        /\ i'[p] = i[p] /\ i'[c] = i[p] /\ i' \in [Pid -> 0 .. runs]
        /\ \A q \in Pid : q # p /\ q # c => st'[q] = st[q] /\ pid'[q] = pid[q] /\ i'[q] = i[q]
    BY <1>3, <1>4, <2>1
  <2>3. PICK n \in Nat : n = runs - i[p] - 1 /\ n + 1 = runs - i[p]
    <3>1. runs - i[p] - 1 \in Nat /\ (runs - i[p] - 1) + 1 = runs - i[p]
      BY <1>4, <2>1
    <3> QED BY <3>1
  <2>4. Rest(n) \in Nat /\ Rest(n + 1) = 1 + 2 * Rest(n)
    BY RestIs
  <2>5. forks + 1 + 2 * Rest(n) <= ceil[p]
    <3>1. forks + Demand(p) <= ceil[p] /\ Demand(p) = Rest(n + 1)
      BY <1>6, <2>1, <2>3 DEF Active, Demand
    <3> QED BY <1>4, <1>6, <2>4, <3>1
  <2>6. forks' \in Nat /\ forks' <= forks + 1
    <3>1. ManyForks \in Nat /\ forks + 1 \in Nat
      BY <1>4, TwoToIs DEF ManyForks, MostForks
    <3> QED BY <2>1, <3>1, MinOfTwo
  <2> DEFINE new == [ceil EXCEPT ![c] = ceil[p] - Rest(n)]
  <2>7. /\ new \in [Pid -> Int] /\ new[c] = ceil[p] - Rest(n)
        /\ \A q \in Pid : q # c => new[q] = ceil[q]
    BY <1>5, <1>6, <2>4
  <2> HIDE DEF new
  <2>8. \A q \in Pid : ~Active(q)' \/ q = c
    <3>1. Ready(p)
      BY <2>1 DEF Ready, Active
    <3> SUFFICES ASSUME NEW q \in Pid, q # c PROVE ~Active(q)'
      OBVIOUS
    <3>2. CASE q = p
      BY <2>2, <3>2 DEF Active
    <3>3. CASE q # p
      <4>1. ~Active(q)
        BY <1>2, <3>1, <3>3 DEF Ready
      <4>2. st'[q] = st[q]
        BY <2>2, <3>3
      <4> QED BY ONLY <4>1, <4>2 DEF Active
    <3> QED BY <3>2, <3>3
  <2>9. \A q \in Pid : st'[q] = "wait" /\ q # p =>
          /\ st[q] = "wait" /\ q # c /\ pid'[q] = pid[q] /\ pid[q] # c /\ pid[q] \in Pid
          /\ st'[pid[q]] # "exited"
    <3> SUFFICES ASSUME NEW q \in Pid, st'[q] = "wait", q # p
                 PROVE  /\ st[q] = "wait" /\ q # c /\ pid'[q] = pid[q] /\ pid[q] # c /\ pid[q] \in Pid
                        /\ st'[pid[q]] # "exited"
      OBVIOUS
    <3>1. q # c /\ st[q] = "wait" /\ pid'[q] = pid[q]
      BY <2>2
    <3>2. pid[q] \in Pid /\ pid[q] # c
      BY <1>2, <2>1, <3>1
    <3>3. st[pid[q]] # "exited"
      BY <1>2, <2>1, <3>1 DEF Ready, Active
    <3> QED BY <2>2, <3>1, <3>2, <3>3
  <2>10. \A q \in Pid : new[q] <= Rest(runs')
    BY <1>1, <1>6, <2>4, <2>7
  <2>11. ASSUME NEW q \in Pid, st'[q] = "wait"
         PROVE  /\ new[pid'[q]] + Rest(runs' - i'[q] - 1) <= new[q]
                /\ st'[pid'[q]] # "exited"
    <3>1. CASE q = p
      BY <1>1, <1>6, <2>2, <2>3, <2>4, <2>7, <3>1
    <3>2. CASE q # p
      <4>1. /\ st[q] = "wait" /\ q # c /\ pid'[q] = pid[q] /\ pid[q] # c /\ pid[q] \in Pid
            /\ st'[pid[q]] # "exited"
        BY <2>9, <2>11, <3>2
      <4>2. i'[q] = i[q] /\ new[pid'[q]] = ceil[pid[q]] /\ new[q] = ceil[q]
        BY <2>2, <2>7, <3>2, <4>1
      <4> QED BY <1>1, <1>6, <4>1, <4>2
    <3> QED BY <3>1, <3>2
  <2>12. forks' + Demand(c)' <= new[c]
    <3>1. Demand(c)' = Rest(n)
      BY <1>1, <2>2, <2>3 DEF Demand
    <3> QED BY <1>4, <1>6, <2>4, <2>5, <2>6, <2>7, <3>1
  <2>13. Ceilings(new)'
    BY <2>8, <2>10, <2>11, <2>12 DEF Ceilings
  <2>14. forks' <= Rest(runs')
    BY <1>1, <1>4, <1>6, <2>4, <2>5, <2>6
  <2>15. \A q \in Pid : st'[q] \in {"exec", "wait"} => i'[q] < runs'
    BY <1>1, <1>4, <2>1, <2>2
  <2> QED BY <1>1, <1>4, <2>2, <2>6, <2>7, <2>13, <2>14, <2>15 DEF BudgetInv
\* In the other steps nobody forks and every process keeps its ceiling.
<1>8. ASSUME forks' = forks, i' \in [Pid -> 0 .. runs],
             \A q \in Pid : st'[q] = "wait" =>
               /\ st[q] = "wait" /\ pid'[q] = pid[q] /\ i'[q] = i[q]
               /\ st'[pid[q]] = "exited" => forks <= ceil[pid[q]],
             \A q \in Pid : st'[q] = "exec" => i'[q] < runs,
             \A q \in Pid : Active(q)' => forks + Demand(q)' <= ceil[q]
      PROVE  BudgetInv'
  <2>1. \A q \in Pid : st'[q] = "wait" =>
          /\ ceil[pid'[q]] + Rest(runs' - i'[q] - 1) <= ceil[q]
          /\ st'[pid'[q]] = "exited" => forks' <= ceil[pid'[q]]
          /\ i'[q] < runs'
    BY <1>1, <1>4, <1>6, <1>8
  <2>2. \A q \in Pid : Active(q)' => forks' + Demand(q)' <= ceil[q]
    BY <1>8
  <2>3. \A q \in Pid : ceil[q] <= Rest(runs')
    BY <1>1, <1>6
  <2>4. Ceilings(ceil)'
    BY <2>1, <2>2, <2>3 DEF Ceilings
  <2>5. \A q \in Pid : st'[q] \in {"exec", "wait"} => i'[q] < runs'
    BY <1>1, <1>8, <2>1
  <2>6. runs' \in Nat /\ forks' \in Nat /\ i' \in [Pid -> 0 .. runs'] /\ forks' <= Rest(runs')
    BY <1>1, <1>4, <1>8
  <2> QED BY <1>5, <2>4, <2>5, <2>6 DEF BudgetInv
\* One round less cannot cause more.
<1>9. \A q \in Pid : i[q] < runs =>
        /\ Rest(runs - i[q] - 1) \in Nat /\ Rest(runs - i[q] - 1) <= Rest(runs - i[q])
        /\ Rest(runs - i[q]) \in Nat /\ runs - (i[q] + 1) = runs - i[q] - 1
  <2> SUFFICES ASSUME NEW q \in Pid, i[q] < runs
               PROVE  /\ Rest(runs - i[q] - 1) \in Nat /\ Rest(runs - i[q] - 1) <= Rest(runs - i[q])
                      /\ Rest(runs - i[q]) \in Nat /\ runs - (i[q] + 1) = runs - i[q] - 1
    OBVIOUS
  <2>1. PICK n \in Nat : n = runs - i[q] - 1 /\ n + 1 = runs - i[q] /\ n = runs - (i[q] + 1)
    <3>1. runs - i[q] - 1 \in Nat /\ (runs - i[q] - 1) + 1 = runs - i[q]
          /\ runs - i[q] - 1 = runs - (i[q] + 1)
      BY <1>4
    <3> QED BY <3>1
  <2>2. Rest(n) \in Nat /\ Rest(n + 1) = 1 + 2 * Rest(n)
    BY RestIs
  <2>3. Rest(n) <= Rest(n + 1) /\ Rest(n + 1) \in Nat
    BY <2>2
  <2> QED BY <2>1, <2>2, <2>3
<1>10. CASE KeepsToken(p)
  <2>1. /\ forks' = forks /\ st[p] \in {"loop", "exec"} /\ i[p] < runs
        /\ \A q \in Pid : q # p => st'[q] = st[q] /\ pid'[q] = pid[q] /\ i'[q] = i[q]
    BY <1>3, <1>4, <1>10 DEF KeepsToken
  <2>2. /\ i' \in [Pid -> 0 .. runs]
        /\ \/ st'[p] = "loop" /\ i'[p] = i[p] + 1
           \/ st'[p] = "program" /\ st[p] = "exec"
    BY <1>3, <1>4, <1>10, <2>1 DEF KeepsToken
  <2>3. \A q \in Pid : st'[q] = "wait" =>
          /\ st[q] = "wait" /\ pid'[q] = pid[q] /\ i'[q] = i[q]
          /\ st'[pid[q]] = "exited" => forks <= ceil[pid[q]]
    <3> SUFFICES ASSUME NEW q \in Pid, st'[q] = "wait"
                 PROVE  /\ st[q] = "wait" /\ pid'[q] = pid[q] /\ i'[q] = i[q]
                        /\ st'[pid[q]] = "exited" => forks <= ceil[pid[q]]
      OBVIOUS
    <3>1. q # p /\ st[q] = "wait" /\ pid'[q] = pid[q] /\ i'[q] = i[q] /\ pid[q] \in Pid
      BY <1>2, <2>1, <2>2
    <3>2. st'[pid[q]] = "exited" => st[pid[q]] = "exited"
      BY <2>1, <2>2, <3>1
    <3> QED BY <1>6, <3>1, <3>2
  <2>4. \A q \in Pid : st'[q] = "exec" => i'[q] < runs
    BY <1>4, <2>1, <2>2
  <2>5. \A q \in Pid : Active(q)' => q = p
    BY <1>2, <2>1 DEF Ready, Active
  <2>6. forks + Demand(p)' <= ceil[p]
    <3>1. forks + Demand(p) <= ceil[p] /\ Demand(p) \in Nat /\ Rest(runs - i[p] - 1) <= Demand(p)
      BY <1>6, <1>9, <2>1 DEF Demand, Active
    <3>2. Demand(p)' \in {0, Rest(runs - i[p] - 1)}
      BY <1>1, <1>9, <2>1, <2>2 DEF Demand
    <3> QED BY <1>4, <1>6, <1>9, <2>1, <3>1, <3>2
  <2> QED BY <1>8, <2>1, <2>2, <2>3, <2>4, <2>5, <2>6
<1>11. CASE PassesToken(p)
  <2>1. /\ forks' = forks /\ Active(p) /\ st'[p] = "exited" /\ pid' = pid /\ i' = i
        /\ \A q \in Pid : q # p => st'[q] = st[q]
    BY <1>3, <1>11 DEF PassesToken
  <2>2. forks <= ceil[p]
    <3>1. Demand(p) \in Nat
      <4>1. CASE st[p] = "loop"
        <5>1. runs - i[p] \in Nat
          BY <1>4
        <5> QED BY <4>1, <5>1, RestIs DEF Demand
      <4>2. CASE st[p] # "loop"
        BY <1>4, <1>9, <4>2 DEF Demand
      <4> QED BY <4>1, <4>2
    <3>2. forks + Demand(p) <= ceil[p] /\ ceil[p] \in Int
      BY <1>6, <2>1
    <3> QED BY <1>4, <3>1, <3>2
  <2>3. \A q \in Pid : st'[q] = "wait" =>
          /\ st[q] = "wait" /\ pid'[q] = pid[q] /\ i'[q] = i[q]
          /\ st'[pid[q]] = "exited" => forks <= ceil[pid[q]]
    <3> SUFFICES ASSUME NEW q \in Pid, st'[q] = "wait"
                 PROVE  /\ st[q] = "wait" /\ pid'[q] = pid[q] /\ i'[q] = i[q]
                        /\ st'[pid[q]] = "exited" => forks <= ceil[pid[q]]
      OBVIOUS
    <3>1. q # p /\ st[q] = "wait" /\ pid[q] \in Pid
      BY <1>2, <2>1
    <3>2. CASE pid[q] = p
      BY <2>1, <2>2, <3>1, <3>2
    <3>3. CASE pid[q] # p
      BY <1>6, <2>1, <3>1, <3>3
    <3> QED BY <3>2, <3>3
  <2>4. \A q \in Pid : st'[q] = "exec" => i'[q] < runs
    BY <1>4, <2>1
  <2>5. \A q \in Pid : ~Active(q)'
    BY <1>2, <2>1 DEF Ready, Active
  <2> QED BY <1>4, <1>8, <2>1, <2>3, <2>4, <2>5
<1>12. CASE TakesToken(p)
  <2> DEFINE c == pid[p]
  <2>1. st[p] = "wait" /\ st[c] = "exited" /\ c \in Pid /\ c # p /\ i[p] < runs
    BY <1>2, <1>4, <1>12 DEF TakesToken
  <2>2. /\ forks' = forks /\ st'[p] = "loop" /\ st'[c] = "free" /\ i'[p] = i[p] + 1
        /\ i' \in [Pid -> 0 .. runs]
        /\ \A q \in Pid : q # p /\ q # c => st'[q] = st[q] /\ pid'[q] = pid[q] /\ i'[q] = i[q]
    BY <1>3, <1>4, <1>12, <2>1 DEF TakesToken
  <2>3. \A q \in Pid : st'[q] = "wait" =>
          /\ st[q] = "wait" /\ pid'[q] = pid[q] /\ i'[q] = i[q]
          /\ st'[pid[q]] = "exited" => forks <= ceil[pid[q]]
    <3> SUFFICES ASSUME NEW q \in Pid, st'[q] = "wait"
                 PROVE  /\ st[q] = "wait" /\ pid'[q] = pid[q] /\ i'[q] = i[q]
                        /\ st'[pid[q]] = "exited" => forks <= ceil[pid[q]]
      OBVIOUS
    <3>1. q # p /\ q # c /\ st[q] = "wait" /\ pid'[q] = pid[q] /\ i'[q] = i[q] /\ pid[q] \in Pid
      BY <1>2, <2>1, <2>2
    <3>2. st'[pid[q]] = "exited" => st[pid[q]] = "exited"
      BY <2>1, <2>2, <3>1
    <3> QED BY <1>6, <3>1, <3>2
  <2>4. \A q \in Pid : st'[q] = "exec" => i'[q] < runs
    BY <1>4, <2>2
  <2>5. \A q \in Pid : Active(q)' => q = p
    BY <1>2, <2>1, <2>2 DEF Ready, Active
  <2>6. forks + Demand(p)' <= ceil[p]
    <3>1. forks <= ceil[c] /\ ceil[c] + Rest(runs - i[p] - 1) <= ceil[p]
      BY <1>6, <2>1
    <3>2. Demand(p)' = Rest(runs - i[p] - 1) /\ Rest(runs - i[p] - 1) \in Nat
      BY <1>1, <1>9, <2>1, <2>2 DEF Demand
    <3>3. ceil[c] \in Int /\ ceil[p] \in Int
      BY <1>6, <2>1
    <3> HIDE DEF c
    <3> QED BY <1>4, <3>1, <3>2, <3>3
  <2> QED BY <1>8, <2>2, <2>3, <2>4, <2>5, <2>6
<1>13. CASE Elsewhere(p)
  <2>1. /\ forks' = forks /\ pid' = pid /\ i' = i
        /\ st[p] \in {"free", "other"} /\ st'[p] \in {"free", "other"}
        /\ \A q \in Pid : q # p => st'[q] = st[q]
    BY <1>3, <1>13 DEF Elsewhere
  <2>2. \A q \in Pid : st'[q] = "wait" =>
          /\ st[q] = "wait" /\ pid'[q] = pid[q] /\ i'[q] = i[q]
          /\ st'[pid[q]] = "exited" => forks <= ceil[pid[q]]
    <3> SUFFICES ASSUME NEW q \in Pid, st'[q] = "wait"
                 PROVE  /\ st[q] = "wait" /\ pid'[q] = pid[q] /\ i'[q] = i[q]
                        /\ st'[pid[q]] = "exited" => forks <= ceil[pid[q]]
      OBVIOUS
    <3>1. q # p /\ st[q] = "wait" /\ pid[q] \in Pid /\ pid[q] # p
      BY <1>2, <2>1
    <3> QED BY <1>6, <2>1, <3>1
  <2>3. \A q \in Pid : st'[q] = "exec" => i'[q] < runs
    BY <1>4, <2>1
  <2>4. \A q \in Pid : Active(q)' => forks + Demand(q)' <= ceil[q]
    <3> SUFFICES ASSUME NEW q \in Pid, Active(q)' PROVE forks + Demand(q)' <= ceil[q]
      OBVIOUS
    <3>1. q # p /\ Active(q)
      BY <2>1 DEF Active
    <3>2. Demand(q)' = Demand(q)
      BY <1>1, <2>1, <3>1 DEF Demand
    <3> QED BY <1>6, <3>1, <3>2
  <2> QED BY <1>4, <1>8, <2>1, <2>2, <2>3, <2>4
<1> QED BY <1>1, <1>7, <1>10, <1>11, <1>12, <1>13

LEMMA BudgetInit == Init => BudgetInv
<1> SUFFICES ASSUME Init PROVE BudgetInv
  OBVIOUS
<1>1. /\ prog \in DOMAIN RunsOf /\ runs \in RunsOf[prog] /\ forks = 0
      /\ st = [p \in Pid |-> IF p = Root THEN "loop" ELSE "free"]
      /\ i = [p \in Pid |-> 0]
  BY DEF Init
<1>2. runs \in Nat
  BY <1>1, ForkLoopsAssumption
<1>3. Rest(runs) \in Nat
  BY <1>2, RestIs
<1>4. \A p \in Pid : i[p] = 0 /\ st[p] \in {"loop", "free"}
  BY <1>1
<1> DEFINE all == [p \in Pid |-> Rest(runs)]
<1>5. \A p \in Pid : Active(p) => forks + Demand(p) <= all[p]
  <2>1. runs - 0 = runs /\ 0 + Rest(runs) <= Rest(runs) /\ 0 + 0 <= Rest(runs)
    BY <1>2, <1>3
  <2> QED BY <1>1, <1>4, <2>1 DEF Active, Demand
<1>6. \A p \in Pid : all[p] <= Rest(runs)
  BY <1>3
<1>7. Ceilings(all) /\ all \in [Pid -> Int]
  BY <1>3, <1>4, <1>5, <1>6 DEF Ceilings
<1>8. i \in [Pid -> 0 .. runs] /\ forks \in Nat /\ forks <= Rest(runs)
  BY <1>1, <1>2, <1>3
<1> HIDE DEF all
<1> QED BY <1>2, <1>4, <1>7, <1>8 DEF BudgetInv

\* ForksBoundedCorrect: exec.c and stracetime.c fork at most 2^runs - 1 times in all their
\* processes together, for any number of rounds and whichever forks and execs fail.
THEOREM ForksBoundedCorrect == Spec => []ForksBounded
<1>1. BudgetInv => ForksBounded
  BY DEF BudgetInv, ForksBounded, MostForks, Rest
<1>2. ForkInv /\ BudgetInv /\ [Next]_vars => BudgetInv'
  <2> SUFFICES ASSUME ForkInv, BudgetInv, [Next]_vars PROVE BudgetInv'
    OBVIOUS
  <2>1. CASE Next
    <3>1. PICK p \in Pid : Step(p) \/ Environment(p)
      BY <2>1 DEF Next
    <3>2. CASE Launcher
      BY <3>1, <3>2, BudgetStep
    <3>3. CASE prog = "yield"
      <4>1. prog' = prog
        BY <3>1, <3>3, YieldStep
      <4> QED BY <3>3, <4>1 DEF BudgetInv, Launcher
    <3>4. CASE prog = "mwait"
      <4>1. prog' = prog
        BY <3>1, <3>4, MwaitStep
      <4> QED BY <3>4, <4>1 DEF BudgetInv, Launcher
    <3> QED BY <3>2, <3>3, <3>4 DEF ForkInv, Launcher
  <2>2. CASE UNCHANGED vars
    BY <2>2 DEF vars, BudgetInv, Launcher, Ceilings, Active, Demand
  <2> QED BY <2>1, <2>2
<1>3. Spec => []ForkInv
  BY ForkInit, ForkStep, PTL DEF Spec
<1>4. Spec => []BudgetInv
  BY BudgetInit, <1>2, <1>3, PTL DEF Spec
<1> QED BY <1>1, <1>4, PTL
=============================================================================
