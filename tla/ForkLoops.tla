------------------------------- MODULE ForkLoops -------------------------------
(***************************************************************************)
(* The benchmarks that start a process or a thread of their own:           *)
(*   exec.c        forks, executes a program and waits, `runs' times; a    *)
(*                 child whose execv fails leaves the switch and stays in  *)
(*                 the loop, so several processes may execute it           *)
(*   stracetime.c  does so once                                            *)
(*   yield.c       yields against a child that yields for ever, and ends   *)
(*                 it with SIGINT                                          *)
(*   mwait.c       sleeps until a thread of its own has changed a counter, *)
(*                 `runs' times, then ends the thread with a flag          *)
(* A thread is a process here.  Processes of other programs come into the  *)
(* process table as well, and a process may be killed by somebody else.    *)
(***************************************************************************)
EXTENDS Integers, FiniteSets, FiniteSetsExt

CONSTANTS
  RunsOf,    \* for each program, the numbers of rounds it is started with
  Pid, Root, \* process ids, reused after waitpid; the process that was started
  MaxKills   \* bound on the processes killed by somebody else

ASSUME ForkLoopsAssumption ==
  /\ RunsOf \in [{"exec", "stracetime", "yield", "mwait"} -> SUBSET Nat]
  /\ Pid \subseteq Nat \ {0} /\ IsFiniteSet(Pid) /\ Root \in Pid
  /\ MaxKills \in Nat

VARIABLES
  prog, runs, \* the program, its number of rounds
  ignored,    \* SIGINT is ignored, as in what a shell script starts with &
  st,         \* what a process does; "exited" is a zombie
  i,          \* its loop counter
  pid,        \* what fork() returned in it: 0 in a child, -1 if it failed
  run,        \* the flag of mwait.c
  touched,    \* the counter has changed since the system call began
  forks,      \* history: successful forks, up to ManyForks
  kills,      \* history: processes killed by somebody else
  hit         \* history: what the processes did that SIGINT was sent to

vars == <<prog, runs, ignored, st, i, pid, run, touched, forks, kills, hit>>
fixed == <<prog, runs, ignored>>
thread == <<run, touched>>
history == <<forks, kills, hit>>

\* TwoTo[n] is 2^n.
TwoTo[n \in Nat] == IF n = 0 THEN 1 ELSE 2 * TwoTo[n - 1]
MostForks == TwoTo[runs] - 1
ManyForks == MostForks + 1
Free == {p \in Pid : st[p] = "free"}

Init ==
  /\ prog \in DOMAIN RunsOf /\ runs \in RunsOf[prog]
  /\ ignored \in BOOLEAN
  /\ st = [p \in Pid |-> IF p = Root THEN "loop" ELSE "free"]
  /\ i = [p \in Pid |-> 0] /\ pid = [p \in Pid |-> 0]
  /\ run = TRUE /\ touched = FALSE
  /\ forks = 0 /\ kills = 0 /\ hit = {}

\* fork(): the child continues at `child', the parent at `parent'.
Forked(p, child, parent) ==
  /\ \E c \in Free :
       /\ st' = [st EXCEPT ![c] = child, ![p] = parent]
       /\ i' = [i EXCEPT ![c] = i[p]]
       /\ pid' = [pid EXCEPT ![c] = 0, ![p] = c]
  /\ forks' = Min({forks + 1, ManyForks})
  /\ UNCHANGED <<fixed, thread, kills, hit>>

Goto(p, s) == st' = [st EXCEPT ![p] = s]
Count(p) == i' = [i EXCEPT ![p] = @ + 1]
-----------------------------------------------------------------------------
\* exec.c, and stracetime.c with one round.
Launcher == prog \in {"exec", "stracetime"}
InLoop(p) == Launcher /\ st[p] = "loop" /\ i[p] < runs

ForkNoWait(p) ==  \* mutant: no waitpid
  /\ InLoop(p)
  /\ Forked(p, "exec", "loop")
Fork(p) == InLoop(p) /\ Forked(p, "exec", "wait")

ForkFails(p) ==
  /\ InLoop(p)
  /\ Count(p)
  /\ pid' = [pid EXCEPT ![p] = -1]
  /\ UNCHANGED <<fixed, st, thread, history>>

Exec(p) ==
  /\ st[p] = "exec"
  /\ Goto(p, "program")
  /\ UNCHANGED <<fixed, i, pid, thread, history>>

ExecFailsAgain(p) ==  \* mutant: continue without ++i
  /\ st[p] = "exec"
  /\ Goto(p, "loop")
  /\ UNCHANGED <<fixed, i, pid, thread, history>>
ExecFails(p) ==
  /\ st[p] = "exec"
  /\ Goto(p, "loop") /\ Count(p)
  /\ UNCHANGED <<fixed, pid, thread, history>>

\* The program comes to its end.
ProgramEnds(p) ==
  /\ st[p] = "program"
  /\ Goto(p, "exited")
  /\ UNCHANGED <<fixed, i, pid, thread, history>>

Wait(p) ==
  /\ st[p] = "wait" /\ st[pid[p]] = "exited"
  /\ st' = [st EXCEPT ![p] = "loop", ![pid[p]] = "free"]
  /\ i' = [i EXCEPT ![p] = @ + 1, ![pid[p]] = 0]
  /\ pid' = [pid EXCEPT ![pid[p]] = 0]
  /\ UNCHANGED <<fixed, thread, history>>

Return(p) ==
  /\ Launcher /\ st[p] = "loop" /\ i[p] = runs
  /\ Goto(p, "exited")
  /\ UNCHANGED <<fixed, i, pid, thread, history>>

-----------------------------------------------------------------------------
\* yield.c
YieldFork(p) == prog = "yield" /\ st[p] = "loop" /\ Forked(p, "spin", "measure")

YieldForkFailsOn(p) ==  \* mutant: goes on without a child
  /\ prog = "yield" /\ st[p] = "loop"
  /\ Goto(p, "measure")
  /\ pid' = [pid EXCEPT ![p] = -1]
  /\ UNCHANGED <<fixed, i, thread, history>>
YieldForkFails(p) ==
  /\ prog = "yield" /\ st[p] = "loop"
  /\ Goto(p, "exited")
  /\ pid' = [pid EXCEPT ![p] = -1]
  /\ UNCHANGED <<fixed, i, thread, history>>

Yield(p) ==
  /\ prog = "yield" /\ st[p] = "measure" /\ i[p] < runs
  /\ Count(p)
  /\ UNCHANGED <<fixed, st, pid, thread, history>>

\* kill(2): -1 is every process but the caller.
Targets(p) == IF pid[p] = -1 THEN Pid \ (Free \cup {p}) ELSE {pid[p]}

\* The signal is sent, the results are printed and the parent returns; the child
\* is not waited for.
Kill(p) ==
  /\ prog = "yield" /\ st[p] = "measure" /\ i[p] = runs
  /\ st' = [q \in Pid |->
              IF q = p \/ (q \in Targets(p) /\ ~ignored) THEN "exited" ELSE st[q]]
  /\ hit' = {st[q] : q \in Targets(p)}
  /\ UNCHANGED <<fixed, i, pid, thread, forks, kills>>

-----------------------------------------------------------------------------
\* mwait.c: pthread_create() returns an error number, which is compared with -1.
Create(p) == prog = "mwait" /\ st[p] = "loop" /\ Forked(p, "count", "measure")

CreateFails(p) ==
  /\ prog = "mwait" /\ st[p] = "loop"
  /\ Goto(p, "measure")
  /\ UNCHANGED <<fixed, i, pid, thread, history>>

Sleep(p) ==
  /\ prog = "mwait" /\ st[p] = "measure" /\ i[p] < runs
  /\ Goto(p, "asleep")
  /\ touched' = FALSE
  /\ UNCHANGED <<fixed, i, pid, run, history>>

\* The system call returns when the counter has changed.
Wake(p) ==
  /\ st[p] = "asleep" /\ touched
  /\ Goto(p, "measure") /\ Count(p)
  /\ UNCHANGED <<fixed, pid, thread, history>>

\* counter_thread(): one round of its loop, and its end.
Touch(p) ==
  /\ st[p] = "count" /\ run
  /\ touched' = TRUE
  /\ UNCHANGED <<fixed, st, i, pid, run, history>>
ThreadEnds(p) ==
  /\ st[p] = "count" /\ ~run
  /\ Goto(p, "exited")
  /\ UNCHANGED <<fixed, i, pid, thread, history>>

StopForgotten(p) ==  \* mutant: run stays 1
  /\ prog = "mwait" /\ st[p] = "measure" /\ i[p] = runs
  /\ Goto(p, "join")
  /\ UNCHANGED <<fixed, i, pid, thread, history>>
Stop(p) ==
  /\ prog = "mwait" /\ st[p] = "measure" /\ i[p] = runs
  /\ run' = FALSE
  /\ Goto(p, "join")
  /\ UNCHANGED <<fixed, i, pid, touched, history>>

\* pthread_join(); without a thread tid is not initialised, and the call fails,
\* faults or waits for ever.
Join(p) ==
  /\ st[p] = "join"
  /\ IF pid[p] = 0
     THEN \E s \in {"exited", "hung"} : Goto(p, s)
     ELSE st[pid[p]] = "exited" /\ Goto(p, "exited")
  /\ UNCHANGED <<fixed, i, pid, thread, history>>

-----------------------------------------------------------------------------
\* A process of another program starts or ends.
OtherStarts(p) ==
  /\ p \in Free
  /\ Goto(p, "other")
  /\ UNCHANGED <<fixed, i, pid, thread, history>>
OtherEnds(p) ==
  /\ st[p] = "other"
  /\ Goto(p, "free")
  /\ UNCHANGED <<fixed, i, pid, thread, history>>

\* Somebody else kills a child (and not a thread alone).
ChildKilled(p) ==
  /\ st[p] \in {"spin", "program"} /\ kills < MaxKills
  /\ kills' = kills + 1
  /\ Goto(p, "exited")
  /\ UNCHANGED <<fixed, i, pid, thread, forks, hit>>

Step(p) ==
  \/ Fork(p) \/ ForkFails(p) \/ Exec(p) \/ ExecFails(p)
  \/ ProgramEnds(p) \/ Wait(p) \/ Return(p)
  \/ YieldFork(p) \/ YieldForkFails(p) \/ Yield(p) \/ Kill(p)
  \/ Create(p) \/ CreateFails(p) \/ Sleep(p) \/ Wake(p) \/ Stop(p) \/ Join(p)
  \/ Touch(p) \/ ThreadEnds(p)
Environment(p) == OtherStarts(p) \/ OtherEnds(p) \/ ChildKilled(p)

Next == \E p \in Pid : Step(p) \/ Environment(p)

\* Every process is scheduled, and the program it becomes comes to an end.
Spec == Init /\ [][Next]_vars /\ \A p \in Pid : WF_vars(Step(p))

-----------------------------------------------------------------------------
States == {"free", "other", "loop", "exec", "wait", "program", "spin", "measure",
           "count", "asleep", "join", "hung", "exited"}

\* Every variable has its type.
TypeOK ==
  /\ prog \in DOMAIN RunsOf /\ runs \in Nat /\ ignored \in BOOLEAN
  /\ st \in [Pid -> States]
  /\ i \in [Pid -> 0 .. runs]
  /\ pid \in [Pid -> Pid \cup {-1, 0}]
  /\ run \in BOOLEAN /\ touched \in BOOLEAN
  /\ forks \in 0 .. ManyForks /\ kills \in 0 .. MaxKills /\ hit \subseteq States

\* OneRuns: although failed children of exec.c execute the same loop as their
\* parents, at most one process is not waiting, so no two programs are measured
\* at once; a killed program changes nothing about it.
OneRuns ==
  Launcher => Cardinality({p \in Pid : st[p] \in {"loop", "exec", "program"}}) <= 1

\* ForksBounded: all processes of exec.c and stracetime.c together fork at most
\* 2^runs - 1 times, whichever forks and execs fail.
ForksBounded == Launcher => forks <= MostForks

\* SignalHitsChild: SIGINT of yield.c goes to its child or to what is left of it,
\* never to another program that came to the child's process id or to everybody,
\* although the child may have died long before.
SignalHitsChild == hit \subseteq {"spin", "exited"}

Gone == {"free", "other", "exited", "hung"}
NoThread == prog = "mwait" /\ st[Root] # "loop" /\ pid[Root] = 0

\* EverythingEnds: whatever fails, the program comes to its end and leaves no
\* process behind.  The two exceptions are yield.c with SIGINT ignored, whose child
\* goes on for ever, and mwait.c without its thread, which nothing wakes up.
EverythingEnds ==
  \/ <>(\A p \in Pid : st[p] \in Gone)
  \/ <>[](prog = "yield" /\ ignored /\ st[Root] = "exited")
  \/ <>[](NoThread /\ st[Root] = "asleep")
=============================================================================
