-------------------------------- MODULE TimeDiff --------------------------------
(***************************************************************************)
(* The differences of times in the statistics of ycsbserver (leveldb.cc).  *)
(* Both structures are records of seconds and a fraction.  64 bits hold    *)
(* all microseconds there are, so nothing wraps.                           *)
(***************************************************************************)
EXTENDS Integers

CONSTANTS
  Micro,  \* microseconds of a second, 1000000
  Kilo    \* nanoseconds of a microsecond, 1000

ASSUME TimeAssumption == Micro \in Nat \ {0} /\ Kilo \in Nat \ {0}

Nano == Kilo * Micro

\* struct timeval and struct timespec as the kernel fills them in.
Timeval == [tv_sec : Nat, tv_usec : 0 .. Micro - 1]
Timespec == [tv_sec : Nat, tv_nsec : 0 .. Nano - 1]

timeval_diff(start, stop) ==
  LET usec == stop.tv_usec - start.tv_usec
      sec == stop.tv_sec - start.tv_sec
  IN IF usec < 0
     THEN [tv_sec |-> sec - 1, tv_usec |-> usec + Micro]
     ELSE [tv_sec |-> sec, tv_usec |-> usec]

timespec_diff(start, stop) ==
  LET nsec == stop.tv_nsec - start.tv_nsec
      sec == stop.tv_sec - start.tv_sec
  IN IF nsec < 0
     THEN [tv_sec |-> sec - 1, tv_nsec |-> nsec + Nano]
     ELSE [tv_sec |-> sec, tv_nsec |-> nsec]

timeval_micros(tv) == tv.tv_usec + tv.tv_sec * Micro
timespec_micros(ts) == ts.tv_nsec \div Kilo + ts.tv_sec * Micro

-----------------------------------------------------------------------------
\* The nanoseconds that a struct timespec stands for.
Nanos(ts) == ts.tv_nsec + ts.tv_sec * Nano
=============================================================================
