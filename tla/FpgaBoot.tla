-------------------------------- MODULE FpgaBoot --------------------------------
(***************************************************************************)
(* tools/fpga.py loads Linux onto the FPGA, starts it and reads its serial *)
(* port; etc/init.d/S50bench on the FPGA finds out from memory what to run.*)
(* DRAM keeps its contents from one invocation to the next, so all that is *)
(* handed over has to be written by each of them:                          *)
(*                                                                         *)
(*    0 .. CmdSize - 1                    the command (BENCH_CMD_ADDR)     *)
(*    CmdSize .. CmdSize + InitrdSize - 1 the initrd                       *)
(*                                                                         *)
(* Both are sequences of units here; the kernel, the TCU and the endpoints *)
(* of load_prog() are written before Linux runs and not looked at again.   *)
(* An exception or Ctrl-C ends an invocation at any place.                 *)
(***************************************************************************)
EXTENDS Integers, Sequences, FiniteSetsExt

CONSTANTS
  CmdSize,         \* BENCH_CMD_SIZE
  InitrdSize,      \* MAX_INITRD_SIZE
  Commands,        \* the values of --bench
  Prefixed,        \* those among them that begin with RUN_BENCH
  Initrds,         \* the files of --initrd
  MaxInvocations   \* bound on the invocations

None == <<>>
NUL == "NUL"

ASSUME FpgaAssumption ==
  /\ CmdSize \in Nat \ {0} /\ InitrdSize \in Nat /\ MaxInvocations \in Nat
  /\ Commands \subseteq Seq(STRING) \ {None}
  /\ \A c \in Commands : \A j \in 1 .. Len(c) : c[j] \notin {NUL, "junk"}
  /\ Prefixed \subseteq Commands
  /\ \A c \in Commands, p \in Prefixed : c[1] = p[1] => c \in Prefixed
  /\ Initrds \subseteq Seq(STRING)
  /\ None \notin Initrds

Args == [bench : Commands \cup {None}, initrd : Initrds \cup {None},
         until : BOOLEAN, reset : BOOLEAN]
NoArgs == [bench |-> None, initrd |-> None, until |-> FALSE, reset |-> FALSE]
Modules == {"pms", "eth_rf", "dram1", "dram2"}

VARIABLES
  pc, args,    \* the invocation of fpga.py
  invocations,
  dram,
  arq,         \* the modules whose NoC interface has ARQ enabled
  core,        \* "stopped", "waiting" (for the interrupt that starts it), "running"
  linux,       \* "off", "boot", "init", "bench", "done" (or no benchmark), "panic"
  booted,      \* history: the arguments of the invocation that started the core
  taken,       \* history: Linux used the page of the command for something else
  ran          \* history: what bench.sh was called with

vars == <<pc, args, invocations, dram, arq, core, linux, booted, taken, ran>>
loader == <<pc, args, invocations>>
target == <<core, linux, booted, taken, ran>>

Init ==
  /\ pc = "idle" /\ args = NoArgs /\ invocations = 0
  /\ dram = [x \in 0 .. CmdSize + InitrdSize - 1 |-> "junk"]
  /\ arq = Modules
  /\ core = "stopped" /\ linux = "off"
  /\ booted = NoArgs /\ taken = FALSE /\ ran = None

-----------------------------------------------------------------------------
\* mem.write_bytes(), of any length: what goes beyond both areas is not looked at.
Written(s, addr) ==
  [x \in DOMAIN dram |-> IF x \in addr .. addr + Len(s) - 1 THEN s[x - addr + 1] ELSE dram[x]]

Padded(str, len) == [j \in 1 .. len |-> IF j <= Len(str) THEN str[j] ELSE NUL]
write_str_longer(str) ==  \* mutant: len(buf) <= minlen
  Written(Padded(str, Max({Len(str), CmdSize}) + 1), 0)
\* write_str() at BENCH_CMD_ADDR: with a terminator, and at least CmdSize long.
CommandBytes(str) == Padded(str, Max({Len(str) + 1, CmdSize}))
write_str(str) == Written(CommandBytes(str), 0)

\* The core stops, and with it what it ran.
Stopped ==
  /\ core' = "stopped" /\ linux' = "off"
  /\ booted' = NoArgs /\ taken' = FALSE /\ ran' = None

Connect ==
  /\ pc = "idle" /\ invocations < MaxInvocations
  /\ invocations' = invocations + 1
  /\ args' \in Args
  /\ pc' = "stop"
  /\ IF args'.reset
     THEN Stopped /\ arq' = Modules
     ELSE UNCHANGED <<target, arq>>
  /\ UNCHANGED dram

StopPEs ==
  /\ pc = "stop"
  /\ Stopped
  /\ pc' = "disable"
  /\ UNCHANGED <<args, invocations, dram, arq>>

DisableArq ==
  /\ pc = "disable"
  /\ arq' = {}
  /\ pc' = "load"
  /\ UNCHANGED <<args, invocations, dram, target>>

load_prog ==
  /\ pc = "load"
  /\ core' = "waiting"
  /\ pc' = "initrd"
  /\ UNCHANGED <<args, invocations, dram, arq, linux, booted, taken, ran>>

WriteInitrd ==
  /\ pc = "initrd"
  /\ dram' = Written(args.initrd, CmdSize)
  /\ pc' = "command"
  /\ UNCHANGED <<args, invocations, arq, target>>

WriteCommandIfAny ==  \* mutant: no else
  /\ pc = "command"
  /\ dram' = IF args.bench = None THEN dram ELSE write_str(args.bench)
  /\ pc' = "enable"
  /\ UNCHANGED <<args, invocations, arq, target>>
\* Without --bench the area is filled with zeros.
WriteCommand ==
  /\ pc = "command"
  /\ dram' = write_str(args.bench)
  /\ pc' = "enable"
  /\ UNCHANGED <<args, invocations, arq, target>>

EnableArqTwo ==  \* mutant: one of the modules is forgotten
  /\ pc = "enable"
  /\ arq' = arq \cup {"pms", "dram1"}
  /\ pc' = "start"
  /\ UNCHANGED <<args, invocations, dram, target>>
EnableArq ==
  /\ pc = "enable"
  /\ arq' = arq \cup {"pms", "dram1", "dram2"}
  /\ pc' = "start"
  /\ UNCHANGED <<args, invocations, dram, target>>

StartPEs ==
  /\ pc = "start"
  /\ core' = "running" /\ linux' = "boot"
  /\ booted' = args /\ taken' = FALSE /\ ran' = None
  /\ pc' = "serial"
  /\ UNCHANGED <<args, invocations, dram, arq>>

\* With --until it waits for a line, without it is a terminal until Ctrl-C.
OpenSerial ==
  /\ pc = "serial"
  /\ pc' = IF args.until THEN "wait" ELSE "terminal"
  /\ UNCHANGED <<args, invocations, dram, arq, target>>

\* An exception, or Ctrl-C.  The step it ends may have been done in part.
Abort ==
  /\ pc # "idle"
  /\ \/ UNCHANGED <<dram, arq>>
     \/ /\ pc = "initrd"
        /\ \E l \in 1 .. Len(args.initrd) : dram' = Written(SubSeq(args.initrd, 1, l), CmdSize)
        /\ UNCHANGED arq
     \/ /\ pc = "command"
        /\ \E l \in 1 .. Len(CommandBytes(args.bench)) :
             dram' = Written(SubSeq(CommandBytes(args.bench), 1, l), 0)
        /\ UNCHANGED arq
     \/ /\ pc = "disable"
        /\ \E m \in {{"pms"}, {"pms", "eth_rf"}, {"pms", "eth_rf", "dram1"}} : arq' = arq \ m
        /\ UNCHANGED dram
     \/ /\ pc = "enable"
        /\ \E m \in {{"pms"}, {"pms", "dram1"}} : arq' = arq \cup m
        /\ UNCHANGED dram
  /\ pc' = "idle" /\ args' = NoArgs
  /\ UNCHANGED <<invocations, target>>

-----------------------------------------------------------------------------
\* The kernel unpacks the initrd from the area that hw.dts names and panics if there
\* is none, or only the start of one.  What an older, longer one left behind it is not
\* looked at.
Intact(f) ==
  /\ Len(f) <= InitrdSize
  /\ \A j \in 1 .. Len(f) : dram[CmdSize + j - 1] = f[j]
Boot ==
  /\ linux = "boot"
  /\ linux' = IF \E f \in Initrds : Intact(f) THEN "init" ELSE "panic"
  /\ UNCHANGED <<loader, dram, arq, core, booted, taken, ran>>

\* Linux uses its memory: the page of the command, which hw.dts does not reserve,
\* and once it is unpacked the initrd.
TakePage ==
  /\ linux \in {"boot", "init"} /\ ~taken
  /\ taken' = TRUE
  /\ dram' = [x \in DOMAIN dram |-> IF x < CmdSize THEN "junk" ELSE dram[x]]
  /\ UNCHANGED <<loader, arq, core, linux, booted, ran>>
FreeInitrd ==
  /\ linux \in {"init", "bench", "done"}
  /\ dram' = [x \in DOMAIN dram |-> IF x < CmdSize THEN dram[x] ELSE "junk"]
  /\ UNCHANGED <<loader, arq, target>>

\* dd of S50bench: one block, and the shell drops the NULs.
Stripped[j \in 0 .. CmdSize] ==
  IF j = 0 THEN <<>>
  ELSE IF dram[j - 1] = NUL THEN Stripped[j - 1] ELSE Append(Stripped[j - 1], dram[j - 1])
CommandNext == SelectSeq([j \in 1 .. CmdSize |-> dram[Min({CmdSize + j, CmdSize + InitrdSize}) - 1]],
                         LAMBDA u : u # NUL)  \* mutant: skip one block more
Command == Stripped[CmdSize]

\* The first unit of a command is the one that can be RUN_BENCH.
S50bench ==
  /\ linux = "init"
  /\ IF Command # <<>> /\ Head(Command) \in {Head(c) : c \in Prefixed}
     THEN linux' = "bench" /\ ran' = Command
     ELSE linux' = "done" /\ UNCHANGED ran
  /\ UNCHANGED <<loader, dram, arq, core, booted, taken>>

\* bench.sh prints its last line, the one to wait for (platforms/hw), which ends
\* fpga.py if it listens.
BenchDone ==
  /\ linux = "bench"
  /\ linux' = "done"
  /\ IF pc = "wait" THEN pc' = "idle" /\ args' = NoArgs ELSE UNCHANGED <<pc, args>>
  /\ UNCHANGED <<invocations, dram, arq, core, booted, taken, ran>>

Loader ==
  \/ StopPEs \/ DisableArq \/ load_prog \/ WriteInitrd \/ WriteCommand
  \/ EnableArq \/ StartPEs \/ OpenSerial
Linux == Boot \/ S50bench \/ BenchDone

Next == Connect \/ Loader \/ Abort \/ Linux \/ TakePage \/ FreeInitrd

\* The loader and Linux go on; nobody has to start or abort an invocation.
Spec == Init /\ [][Next]_vars /\ WF_vars(Loader) /\ WF_vars(Linux)

-----------------------------------------------------------------------------
\* Every variable has its type.
TypeOK ==
  /\ pc \in {"idle", "stop", "disable", "load", "initrd", "command", "enable", "start",
             "serial", "wait", "terminal"}
  /\ args \in Args /\ booted \in Args /\ invocations \in 0 .. MaxInvocations
  /\ DOMAIN dram = 0 .. CmdSize + InitrdSize - 1
  /\ arq \subseteq Modules
  /\ core \in {"stopped", "waiting", "running"}
  /\ linux \in {"off", "boot", "init", "bench", "done", "panic"}
  /\ taken \in BOOLEAN

Fits(a) == Len(a.bench) < CmdSize /\ Len(a.initrd) <= InitrdSize

\* OwnCommand: what bench.sh runs is the command of the invocation that started the
\* core, cut where it does not fit, and never one that an earlier invocation, finished
\* or aborted, left in memory.
OwnCommand ==
  ran # None =>
    booted.bench \in Prefixed /\ ran = [j \in 1 .. Min({Len(booted.bench), CmdSize}) |-> booted.bench[j]]

\* PanicNeedsCause: Linux finds its initrd unless none was given, it was too long for
\* its area (fpga.py never compares it with MAX_INITRD_SIZE), or the command, with its
\* terminator, was too long for its own: that is written after the initrd and in front
\* of it.
PanicNeedsCause == linux = "panic" => booted.initrd = None \/ ~Fits(booted)

\* ArqOnWhileRunning: while the core runs, also while the next invocation is about to
\* stop it or after an aborted one, every module has ARQ but the Ethernet interface,
\* which never gets it back; while DRAM is written none has.
ArqOnWhileRunning ==
  /\ core = "running" => Modules \ arq \subseteq {"eth_rf"}
  /\ pc \in {"load", "initrd", "command"} => arq = {}

\* UntilEnds: an invocation that waits for the end of a benchmark, with an initrd and
\* a command that fit, comes to its end, unless Linux took the page of the command or
\* the benchmark was over before the serial port was open.
UntilEnds ==
  [](pc = "wait" /\ args.initrd # None /\ args.bench \in Prefixed /\ Fits(args) /\ linux # "done" =>
       <>(pc = "idle" \/ taken))
=============================================================================
