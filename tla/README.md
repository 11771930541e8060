# bench-lx: models, checks and proofs

bench-lx is a collection of Linux benchmarks (for real machines, gem5, QEMU and an
FPGA) with the scripts that build, boot and run them. Most programs measure one
system call in a loop; the logic that can be wrong is in a key-value server driven
over TCP or by a workload file (`apps/ycsbserver`), in the benchmarks made of
several processes (`apps/pingpong`, `apps/exec`, `apps/mwait`, `apps/yield`), in the
one that retries over a lossy network (`apps/netlat`) and in the loader for the FPGA.
The repository has no documentation and no tests beyond the comments in the code.

## Inventory

| part | state | operations | hard behaviour | what makes it correct |
|---|---|---|---|---|
| `ycsbserver` TCP handler and `main` | connection, position in the stream, static `package_buffer`, what is left of the answer, `opcounter` | constructor (bind, listen, accept), `receive` (header loop, size check, body loop, ENDNOW, `from_bytes`), `respond`, statistics | partial reads, pipelined packages, close and reset anywhere, -1 added to a `size_t` | packages are framed as sent, answered in order and completely, counted exactly; ENDNOW ends the server |
| package parser `from_bytes` | none | one pass over a buffer | length fields against `package_size` | returns what was encoded, or 0; stays inside the package |
| `ycsbserver` UDP handler | `wl_buffer`, `wl_pos`, `wl_size`, `_ops`, `_total_ops` | load, `wl_read4b`, `reset`, `receive`, `send` | short and failing reads, cut and oversized files, `wl_size - wl_pos` | replays the file package by package; ends after `_total_ops` |
| executor | the LevelDB database, counters | insert, update, read, scan, delete (unsupported) | multi-Put writes, string order against numeric order, sentinels, exceptions, death between two Puts | answers are those of a store of records |
| `pingpong` | one System V queue for all instances, a loop counter per process | msgsnd, msgrcv, fork, waitpid | pairs steal each other's messages; the queue outlives the run | requests and replies balance, nobody waits for ever |
| `netlat` | UDP socket, number of samples | write, read with timeout | late replies, losses, ICMP errors | a sample is a round trip of its request; the loop ends |
| `exec` | process tree | fork, execv, waitpid | a failed execv continues the parent's loop | `runs` programs are started |
| `stracetime` | a child | fork, execvp, waitpid | a failed execvp | one program is measured |
| `yield` | a child that never ends by itself | fork, yield, kill | the child dies first, ignores the signal, or does not exist | the signal ends the child and nothing else |
| `mwait` | a flag and a counter shared with a thread | create, system call, join | a thread that could not be created | ends, and the thread with it |
| `memcpy` | pointers, `len` | four loops | alignment and length | every byte once |
| `syscall`, `memload`, `pagefault` and `include/common.h` | arrays of durations | measuring loops; `sum`, `avg`, `stddev` | filtered samples, warm-up, wrapping counter, fewer values than are thrown away | mean and deviation of what was measured |
| time differences of `ycsbserver` | none | `timeval_diff`, `timespec_diff` | borrow | the distance of two times |
| `apps/sqlite`, `apps/leveldb` | the library's | insert, query, delete | - | - |
| `cat`, `cp`, `read`, `write`, `sendfile` | two descriptors | read/write loops | short writes | copy equals original |
| `tools/fpga.py`, `S50bench`, `bench.sh` | DRAM, which survives invocations; ARQ flags; the core | stop, load, write initrd and command, start, wait for a line; boot, read command, run | aborts anywhere, stale memory, areas side by side, output before the port is open | the command run is the command given; Linux finds its initrd; the loader ends |
| scripts, `b`, platforms, awk, `ignoreint` | - | glue | - | - |

Components interact through few interfaces: `main` calls the handler (`receive`,
`respond`, `reset`) and the executor (`execute`) in turn, in one thread; the handler
talks to a client over a socket, the executor to LevelDB; `pingpong` instances only
share the kernel's queue; loader and target share DRAM and the serial line; the other
programs are independent of each other. `hazards`
in `PROJECT.json` lists what is hard to test, line by line.

## Modules

| module | models | state and actions |
|---|---|---|
| `TcpServer` | `tcp_handler.cc`, `respond`, the loop of `main` | `pc` is the place in the code; `ReadHeader`/`ReadBody` are one `read()` each, `ReadError`/`ReadEof` its failures, `HeaderDone`/`BodyDone` the decisions, `SendHeader`/`SendChunk`/`SendError` one `write()` each. Client and kernel: `ClientSend`, `Deliver`, `ClientClose`, `ClientReset` |
| `Package` | `from_bytes` and, as its reference, the encoding | operators over byte buffers |
| `UdpReplay` (uses `Package`) | `udp_handler.cc`, `respond`, the loop of `main` | `Load`/`LoadError`/`Loaded` are one `read()` of the file, `Receive` is `receive()` with its `send` |
| `RecordStore` | what a client may rely on | abstract store of records: `Ask`, `Write` (one field), `Interrupt`, `Read`, `Scan` |
| `LevelDBExecutor` (INSTANCEs `RecordStore`) | `ops.cc` | `Begin`, one `Put` per step, `Inserted`, `Read`, `Scan`, `ScanThrows`, `Other`, `Crash`, `Open` |
| `Pingpong` | `pingpong.c`, `pingpong.sh` | per pair a parent and a child; one action per system call |
| `Netlat` | `netlat.c` | `Send`, `Read`, `Timeout`, `ReadRefused`, and the network |
| `ForkLoops` | `exec.c`, `stracetime.c`, `yield.c`, `mwait.c` | the process table: per process (or thread) what it does, its loop counter and its `pid`. One action per system call, and the environment: other programs come and go in the table, children are killed |
| `Measure` | the loops of `syscall.c`, `memload.c`, `pagefault.c`; `sum`, `avg`, `stddev` | `Round` is one measured operation, `Sum` and `Deviation` one round of the loops in `common.h`, `Avg`/`Stddev`/`Sigfpe` their divisions |
| `TimeDiff` | the time differences in `leveldb.cc` | operators |
| `FpgaBoot` | `fpga.py`, `S50bench`, `bench.sh`, the memory layout of `hw.dts` | one action per step of the loader, `Abort` anywhere; `Boot`, `S50bench`, `BenchDone` on the target; Linux uses its memory (`TakePage`, `FreeInitrd`) |
| `FileLoops` | `cp.c`, `cat.c`, `sendfile.c`, `read.c`, `write.c` | the disk, both offsets, the static buffer; one action per system call |
| `Memcpy` | `my_memcpy` of `memcpy.c` | pointers, `len`, memory; one action per round of a loop |
| `TcpServerProofs`, `UdpReplayProofs`, `ForkLoopsProofs`, `MeasureProofs` (with `TimeDiff`), `FpgaBootProofs` | | the theorems about the module of that name |
| `ExecutorProofs` | | the theorems about `LevelDBExecutor`, its refinement of `RecordStore` among them |
| `RoundTripProofs` | | the theorems about `Pingpong` and `Netlat`, whose specifications it has side by side |
| `CopyProofs` | | the theorems about `FileLoops` and `Memcpy`, likewise |
| `MC*` | | constants for TLC |

### Abstractions

* `TcpServer` names a byte of the stream by its offset, so the buffers say which
  bytes they hold; -1 is a byte that did not come from the socket. What a package
  contains is its kind: executable, incomplete (`from_bytes` = 0), ENDNOW. Bytes
  that form no package of the client (`Junk`) may be read as anything. The sizes of
  packages are positive and those of a client that keeps the format. A blocking
  write hands over all bytes or fails: partial writes of a blocking stream socket
  only happen with signals, which the server does not handle.
* `UdpReplay` and `Package` reduce the header of a package from 19 bytes to the op
  code and the number of pairs, and the two words of the file to one byte each. The
  buffer is zero at first, as fresh pages are. A failed `read()` is transient; one
  that persists loops for ever in the constructor. The copy of the request that
  `receive` sends (it always sends the start of the file) is not modelled, as its
  result is ignored.
* `LevelDBExecutor` models strings as sequences of codes in the order of their
  bytes; `field` is one letter, a value is its length. LevelDB is a sorted map whose
  Put happens or is lost. Keys above `LLMax` stand for keys from 2^63 on. Inserts
  name fields by a digit and reads by `field<digit>`, as the workloads do.
* `Pingpong` counts capacity in messages and drops the measured times. Failures of
  `fork` and `msgget` end a program before it has touched the queue and are left out.
* `Netlat` numbers the datagrams, which are alike in the code. The network
  loses them, duplicates them (the next to arrive) and lets one overtake the one before it, each
  a bounded number of times. Datagrams in the receive buffer keep their order, as the kernel's
  queue does.
* `ForkLoops` treats a thread as a process. Process ids are reused after `waitpid`. The
  program that is executed may do anything and ends; the numbers of rounds are valid.
  The two loops of `yield.c` are one, and without its thread the `pthread_join` of
  `mwait.c`, which uses an uninitialised `tid`, ends or waits for ever.
* `Measure` computes modulo `W` where the code does modulo 2^64; the products in `stddev`
  fit (an assumption on the durations). A division by zero traps on x86 and gives all ones on
  riscv. Lost precision of `sqrt` on doubles is left out. The file of `pagefault.c` may be
  too short, which ends it with SIGBUS.
* `TimeDiff` has mathematical integers: the times are small, and adding an unsigned
  constant to a negative difference comes to the same in two's complement.
* `FpgaBoot` cuts command and initrd into units, the first of which tells whether the
  command begins with `RUN_BENCH`. Cores other than the one that is loaded, the TCU, the
  endpoints and the kernel image, which are written anew by every invocation, are left out;
  so is the interactive terminal. Linux panics without a whole initrd.
* `FileLoops` shares the actions of the five programs, which differ in a call or two;
  `call.prog` says which one runs. Nobody else changes the files. A read of a regular
  file is only short at its end; `cat` may read from a pipe, which can always be short.
  The output of `cat` is a stream that starts empty.
* `Memcpy` models `my_memcpy` for its contract, two areas that do not overlap at any
  alignment; `main` only calls it with areas from `malloc`, which are aligned alike. A
  round of the unrolled loop is one copy of `Unroll` words, since the areas are disjoint.

## Runs

| run | what it shows |
|---|---|
| `tcp` | `Framing`: packages are taken as sent, in whatever pieces they came. `Answers`: answer k announces and carries the result of package k. `CounterIsComplete`: `opcounter` is the number of complete answers. `JunkIsLast`: after a failed read at most one made-up package is executed, and it is not answered. `StopAnswersAll`: ENDNOW or an oversized package ends the loop with everything before it answered. Liveness: `EventuallyAnswered`, `EndStops` |
| `udp` | `LoadIsPrefix`, `ReplayIsExact` (a sound file is replayed as written), `OverrunNeedsNoPairs` (only a bare header can carry `wl_pos` beyond the data), `AllOrError` (the loop ends with all operations or with the first answer that could not be sent), `Terminates` |
| `exec_store` | the executor implements `RecordStore` (`StoreSpec`); `StollThrows`: one key beyond `long long` ends every scan that meets it |
| `exec_scan` | `ScanAllFields`: what `scan_length` really bounds; `SeekSkipsNothing`: among keys with equally many digits a scan leaves none out |
| `pingpong` | `Conservation`: requests, replies and leftovers balance. `NoSendFails`, `Termination`: without a failure and with room in the queue nobody fails or waits for ever. `Poison`: a leftover request that is too large stays in the queue for ever and no child gets at one behind it; with a leftover reply no parent completes another round. `TypeOK`: no process does a round more than its loop has |
| `netlat` | `LagBounded`: a sample is not further off its request than there were misses, duplicates and overtakings. `Backlog`: the datagrams under way are those of the misses and the duplicates, less the lost and refused ones, so `netlat` does not get back into step by itself. `Terminates` |
| `netlat_errors` | violated: the comment `// ignore timeouts` (`netlat.c:35`) against `errno = EAGAIN \|\| ...` (`netlat.c:36`) |
| `forks` | `OneRuns`, `ForksBounded`: although failed children run the loop of their parents, one process runs at a time and at most 2^`runs` - 1 forks happen. `SignalHitsChild`: SIGINT of `yield` only reaches its child, dead or alive. `EverythingEnds`: all programs end and leave nothing behind, but for two cases: `yield` with SIGINT ignored and `mwait` without its thread |
| `measure` | `ResultsInRange`: average and deviation are those of the samples that count; `TooFew`: what comes out of two, one or no samples |
| `fpga` | `OwnCommand`: no command of an earlier invocation is run; `PanicNeedsCause`: only a missing initrd, one larger than its area or a command that is too long keeps Linux from booting; `ArqOnWhileRunning`; `UntilEnds`: waiting for the end of the benchmark ends, unless Linux has used the page of the command |
| `files` | `CleanCopy` (a round without a fault repairs everything), `OnlyWhatWasRead` (faults lose bytes but never add any) |
| `memcpy` | `Copied`, `NothingElse` |

Bounds. `tcp`: header of 2 bytes, buffer of 3, chunks of 2, three packages out of a
small one, one that fills the buffer and takes three chunks to answer, an incomplete
one, one that is too large and ENDNOW; a header and a body can so be split anywhere
and mixed with the next package. `udp`: two packages with 0 to 2 pairs, files cut at
four places, a buffer of 10 bytes that some files exceed, one failing read. `exec_store`,
`exec_scan`: three keys chosen for their digits, two fields, two values, packages with up
to two pairs; `MaxOps` = 1 counted operation per start, but the database survives
restarts, so every database is reached. `pingpong`: three pairs with different numbers of
rounds, a queue of four messages and thirteen leftover queues. `netlat`: 1 + 3 rounds with one loss, one
duplicate, one overtaking, two late replies and one refusal, in any order, so that a sample is
several requests off while the next one goes wrong. `forks`: up to three rounds and more process ids than a chain of waiting processes
needs, so that `fork` only fails by choice while other programs come and go, and one kill;
the history of forks saturates one above its bound. `measure`: up to three samples after
the two that are thrown away, three durations of which one is filtered out, both machines
and a counter that starts at its end. `fpga`: three invocations, so that one that ended and
one that was aborted come before the last; a command that fits, one whose terminator does
not, one that does not and one for nobody; initrds of three
lengths, one of which is longer than its area. `files`: buffers of two bytes, inputs of 0, 1 and 2 1/2 buffers, outputs
that are empty, shorter or longer than the copy, two rounds so that a bad one is
followed by a good one, `SendMax` below the longest input. `memcpy`: words of two bytes, three
per round, both alignments, lengths from nothing to two rounds and a word, memory of
distinct bytes.

Fairness. The server and `netlat` are single processes: weak fairness of the process
says that it is scheduled; for `netlat` also of the network, which delivers what is
not lost (its faults are bounded, so `Terminates` is about finitely many). In `TcpServer`
a `write()` is a step of the server, so fairness assumes that the client drains its
socket. The client has no fairness. In `Pingpong` each process runs on a core of its own
(`sched_setaffinity`), so each has its own weak fairness. So has each process of `ForkLoops`,
where it includes that the measured program ends. In `FpgaBoot` the steps of the loader and of
Linux go on (a benchmark ends); nobody has to start or to abort an invocation. `CHECK_DEADLOCK FALSE` is set
where programs end or wait for a client; the executor runs check for deadlock.

## Theorems

For every value of the constants that the named ASSUMEs allow:

* `TcpServerProofs`: `TypeCorrect`, `FramingCorrect`, `CounterCorrect`, `AnswersCorrect`,
  `JunkIsLastCorrect` and `StopAnswersAllCorrect`. `Framing` is not inductive: it says
  nothing about the bytes in the buffers. `FramingInv` adds that frames lie one after
  the other on the wire (`FramesInv`), that nothing is read before it was written
  (`WireInv`), what holds before the connection exists (`StartupInv`) and, while no
  read has failed, that `rd` is exactly `i` bytes into the header or the body of the
  frame after the last decision and the buffer holds precisely those bytes
  (`ReceiveInv`). `CounterInv` adds for the answer being sent that
  `total = body + bytes`. The other three need both, and `ReplyInv` on top: which of the
  executed packages has its answer at which place of the loop (`AnswerInv`); on what kind of
  connection a made-up package can be in work, so that its answer must fail and nothing is
  received after it (`DeadInv`, `JunkInv`). The three are proved together: that a made-up
  package gets no answer uses the state of the connection, and that a stop has answered
  everything uses that the packages decided on are those sent, one for one.
* `UdpReplayProofs`: `RoundTrip`: `from_bytes` makes of the encoding of any package, with any
  number of pairs of any length, this package, wherever it lies in a buffer. On it rest
  `ReplayIsExactCorrect` and, with the invariant `UdpInv`, `LoadIsPrefixCorrect`,
  `AllOrErrorCorrect`, `OverrunCorrect` and `UdpTypeCorrect`. `UdpInv` adds what the file is
  (`FileInv`), how far it was read (`LoadInv`), how `ops`, `opcounter` and the answers
  correspond at each place of the loop (`AnswerInv`), and that in a sound file `wl_pos` is
  where the package after the last one begins (`ReplayInv`), without which exactness is not
  inductive. `OverrunCorrect` holds for any contents of the buffer.
* `ExecutorProofs`: `ExecutorImplementsStore`, `ScanAllFieldsCorrect`,
  `SeekSkipsNothingCorrect` and `StollThrowsCorrect`, for all keys, fields, values, packages and
  scan lengths. `ExecInv` says that the database holds packed fields and nothing else. The
  argument goes from bytes to records:
  1. numbers: `Number(Decimal[k]) = k`, a decimal does not begin with 0 (`FirstDigit`), and
     among decimals of the same length the first digit that differs decides (`DecimalOrder`);
  2. strings: an entry is taken apart as it was put together (`Unpacked`), a name without
     `field` leads nowhere (`ShortName`), the comparator is a strict total order, the entries
     of one record follow one another in the order of their fields (`AtLess`, `Contiguous`),
     and nothing comes before record 0 (`ZeroFirst`);
  3. lists: an iterator comes by every entry once, in order (`ListedIs`); sets whose orders
     correspond are listed alike (`SameList`), and what a list comes by next is next in the
     list of a subset (`SubList`);
  4. loops: `exec_scan` by an invariant of its rounds. Every record but the first and record 0
     costs one (`Spent`), and until `rem` is 0 the answer is a prefix of the entries (`Round`).
     In a scan of one field every record taken costs at most one (`SeekRound`);
  5. steps: every action maps to one action of `RecordStore` or to a stutter (`SimStep`), and
     between the end of a scan and the next package nothing changes (`OnlyScanFinishes`).
* `RoundTripProofs`, `Pingpong`: `TypeCorrect`, `ConservationCorrect`, `NoSendFailsCorrect` and
  `LeftAsFoundCorrect`, for any finite number of pairs. `TypeInv` adds
  to the types that a process between its two calls has a round left. The argument is an equation
  over cardinalities of the sets of waiting parents and answering children, so it
  does not matter which child answers which parent. `PoisonCorrect` is an action property:
  every step leaves the first message of a type in its place or fails on it; messages of the
  other type that are taken out in front of it only move it.
* `RoundTripProofs`, `Netlat`: `NetTypeCorrect`, `BacklogCorrect` and `LagBoundedCorrect`, for any
  number of rounds and of lost, late, refused, duplicated and overtaken datagrams. With
  duplicates and overtakings the datagrams are not in order; `NearInv` says how far out of order
  they can be: one with m others before it, in the receive buffer, on the way or already read, is not
  older than request m + 1 less the duplicates and overtakings there were. `CallsInv` says that
  every call of `send_recv` gave a sample or a miss or is waiting. Together they bound the lag.
* `ForkLoopsProofs`: `OneRunsCorrect`, `ForksBoundedCorrect` and `SignalHitsChildCorrect`, for
  any number of rounds and of process ids. `LaunchInv` is a token argument: processes that wait
  have different children, none of which is free, and at most one process can take a step (it is
  at work, or its child is a zombie). `ForksBounded` is not inductive: the forks still to come
  are a sum over the chain of waiting processes. `BudgetInv` keeps it in a ceiling for each of
  them: the forks up to the end of its child stay below the ceiling of the child, and that one
  plus what the parent needs afterwards below its own. `YieldInv` says that the process id the
  parent holds is that of its child or its zombie, so nobody else can have come to it.
* `MeasureProofs`: `MeasureTypeCorrect`, `ResultsInRangeCorrect`, `TooFewCorrect`. `SamplesInv`
  says which samples are in the arrays at each place, `SumInv` that after `k` rounds the sum
  is between `(k - 2) * lo` and `(k - 2) * hi` and that of the squares at most
  `(k - 2) * (hi - lo)^2`; the division and the root then follow from lemmas about `\div` and
  squares. `TimevalExact` and `TimespecExact`: for two times in order the difference is a
  proper time and the microseconds made of it are those between the times, rounded once.
* `FpgaBootProofs`: `FpgaTypeCorrect`, `OwnCommandCorrect`, `PanicNeedsCauseCorrect` and
  `ArqOnWhileRunningCorrect`, for all sizes of the areas, initrds of any size, all
  commands that fit `FpgaAssumption` and any number of invocations. `MemoryInv` follows what is in memory
  from the step of the loader that wrote it to the step of Linux that reads it: between stop
  and start nothing runs, and what an aborted invocation leaves is overwritten by the next
  one before its core starts.
* `CopyProofs`, `FileLoops`: `FileTypeCorrect`, `CleanCopyCorrect` and
  `OnlyWhatWasReadCorrect`, for all files, buffer sizes and numbers of rounds. `FileInv` says at
  each place how much of the input was read, that the buffer holds the last part of it, that
  what was written comes from the part before in this order (`Embedded`), and that it is equal
  to it as long as no call of the round fell short (`CopiedUpTo`); copying a file onto itself
  is a case of its own, in which the file is empty as soon as it is open for writing.
* `CopyProofs`, `Memcpy`: `MemTypeCorrect`, `CopiedCorrect` and `NothingElseCorrect`, for every
  word size, unrolling, memory and pair of disjoint areas. The inductive invariant `CopyInv` says
  that both pointers are as far into their areas as `len` has shrunk (`PointersInv`) and
  that exactly the bytes before `bdest` are copied (`MemoryInv`); it holds in front of
  every loop whatever the alignment, which is why the order of the loops does not matter.

Assumptions beyond types and positive sizes: a command has no NUL and is not made of the
bytes Linux leaves behind, and whether it begins with `RUN_BENCH` shows in its first unit
(`FpgaAssumption`, which says nothing about the size of the initrd); a word can hold twice the buffer of the replay (`ReplayAssumption`); the
sums of `Measure` fit into a word (`MeasureAssumption`); the areas of `my_memcpy` are disjoint;
the output of `cat` is its standard output, which is empty at first and not its input
(`FileAssumption`).

Induction. What a recursive function computes is proved from the well-foundedness of the
natural numbers (`LeastNatural`, `LeastNumber`, `StrongInduction`, `StepInduction`), stated about
sets of numbers: the library's induction theorems take an operator, which the provers cannot
instantiate. That a recursively defined function satisfies its equation is proved by exhibiting
one that does (`PickedExists`, `GluedExists`, `WrittenExists`, `LoopExists`). `SelectSeq` and
`^` have no definition the provers can use, so the packages to be answered are chosen by such a
function (`Ops`), and 2^n is one (`TwoTo`). What an iterator comes by is defined by the ranks of
the elements of a set, not by a sorting of a sequence, for the same reason.

Only model-checked: the liveness properties (`EventuallyAnswered`, `EndStops`, `Terminates` of
`UdpReplay` and `Netlat`, `Termination`, `EverythingEnds`, `UntilEnds`), which are out of the
provers' reach. Every safety property that a passing run checks is also a theorem.

## What the models show about the code

* A failed `read()` ends the header loop (`tcp_handler.cc:57`); the server then
  takes the uninitialised header as a size and executes stale bytes, once, before
  the failing answer stops it. A `read()` of 0 spins for ever.
* If no operation was answered, the statistics divide by zero (`leveldb.cc:149`), unless a failing
  `getrusage` ends `main` before (`leveldb.cc:131`).
* `accept` is not checked (`tcp_handler.cc:40`), `inet_aton` is compared with -1,
  which it never returns (`udp_handler.cc:43`).
* A scan of all fields returns `scan_length` records and one field of the next; a
  scan of a field that is not the first of its records never decrements `rem` and runs
  to the end of the database; record 0 is not counted (`ops.cc:214`).
* One key of 2^63 or more ends the server in every scan that meets it (`ops.cc:142`).
* A message left by a run with a larger size blocks the queue for all later runs
  (`pingpong.c:133`), and nothing removes the queue.
* After one timeout or one duplicate `netlat` may pair all later samples with the previous request.
* A failed `execv` doubles the rest of the run (`exec.c:28`). `microbench.sh:11` calls `exec`
  without the number of runs, which only prints the usage message.
* The child of `yield` survives if SIGINT is ignored, and is not waited for;
  `microbench.sh:38` looks for "Time", which `yield` does not print.
* `mwait` sleeps for ever if its thread could not be created (`mwait.c:53` compares with
  -1), and its system call number is the one of `SYS_SYSCRESET` (`common.h:18`).
* With exactly two samples `avg` divides by zero; with fewer it prints 0 (`common.h:30`).
  `syscall` gets there on a machine whose system calls take 1000 cycles.
* A command of 1023 bytes is the longest that fits: from 1024 on its end, or its terminator,
  destroys the initrd (`fpga.py:28`). A command without `RUN_BENCH` is ignored, and
  `--until` then waits for ever.
* An initrd above `MAX_INITRD_SIZE` is loaded without a word (`fpga.py:32`), but Linux unpacks
  no more than `hw.dts:18` says, and panics.
* The Ethernet interface never gets ARQ back (`fpga.py:99`), and `hw.dts` does not reserve
  the page of the command.
* `cp`, `cat` and `sendfile` report success after lost bytes, and `cp x x` empties `x`.

## Plan

What is left is `YcsbServer`, `TcpServer` composed with `LevelDBExecutor`. The two share the
package and the number of bytes alone, and `Answers` and `StoreSpec` meet exactly there, so it
would add states and few questions.

## Not modelled

* `apps/sqlite`, `apps/leveldb`: the calls of a library one after the other with constant
  arguments; what could go wrong is in the library.
* `compute`, `get_cycles` and the gem5 hooks in `include/`: inline assembly. `sysctrace.h`
  and `smemcpy.h` are a system call each, of a kernel that is a submodule.
* The scripts in `rootfs/bench`, the build driver `b` and `platforms`: commands in a row.
  `tools/*.awk`: text processing of traces. `tools/ignoreint.cc` blocks a signal and calls exec.
* The submodules (Linux, buildroot, QEMU, riscv-pk, LevelDB), whose directories are empty.
* Packages of less than 19 bytes in `from_bytes` (`handler.cc:20`): no client sends them.
