--------------------------------- MODULE Memcpy ---------------------------------
(***************************************************************************)
(* my_memcpy (memcpy.c): bytes up to a word boundary if both pointers have *)
(* the same alignment, then words eight at a time, then single words, then *)
(* the remaining bytes; only these if the alignments differ.  One step is  *)
(* one round of a loop; a word access moves Word bytes at once.            *)
(***************************************************************************)
EXTENDS Integers

CONSTANTS
  Word,     \* sizeof(word_t), 8 in the code
  Unroll,   \* words per round of the unrolled loop, 8 in the code
  SizeMax,  \* SIZE_MAX
  Addr,     \* the addresses of the memory
  MemByte,  \* the values of a byte
  Memories, \* what may be in memory at the call
  MemCalls  \* the arguments: [dest, src, len]

\* The two areas are in memory and do not overlap.
Area(a, n) == a .. a + n - 1
ASSUME MemcpyAssumption ==
  /\ Word \in Nat \ {0} /\ Unroll \in Nat \ {0} /\ SizeMax \in Nat
  /\ Addr \subseteq Nat
  /\ Memories \subseteq [Addr -> MemByte]
  /\ MemCalls \subseteq [dest : Addr, src : Addr, len : 0 .. SizeMax]
  /\ \A c \in MemCalls : /\ Area(c.dest, c.len) \subseteq Addr /\ Area(c.src, c.len) \subseteq Addr
                         /\ Area(c.dest, c.len) \cap Area(c.src, c.len) = {}

VARIABLES
  args,         \* the arguments of the call
  old,          \* history: the memory at the call
  mem,          \* the memory
  bdest, bsrc,  \* the pointers, in bytes
  len,
  loop          \* the loop it is in

copyVars == <<args, old, mem, bdest, bsrc, len, loop>>

CopyInit ==
  /\ args \in MemCalls
  /\ old \in Memories /\ mem = old
  /\ bdest = args.dest /\ bsrc = args.src /\ len = args.len
  /\ loop = "start"

\* *dest = *src of n bytes, and both pointers move on.
Copy(n) ==
  /\ mem' = [a \in Addr |-> IF a \in Area(bdest, n) THEN mem[bsrc + (a - bdest)] ELSE mem[a]]
  /\ bdest' = bdest + n
  /\ bsrc' = bsrc + n

Goto(from, to) == loop = from /\ loop' = to /\ UNCHANGED <<args, old, mem, bdest, bsrc, len>>

-----------------------------------------------------------------------------
SameAlignment == bdest % Word = bsrc % Word
Start == Goto("start", IF SameAlignment THEN "align" ELSE "bytes")

UnalignedOnly == bdest % Word # 0  \* mutant: len is not tested
Unaligned == len > 0 /\ bdest % Word # 0
Align ==
  /\ loop = "align" /\ Unaligned
  /\ Copy(1)
  /\ len' = len - 1
  /\ UNCHANGED <<args, old, loop>>
Aligned == ~Unaligned /\ Goto("align", "unrolled")

UnrolledShort ==  \* mutant: one word is forgotten
  /\ loop = "unrolled" /\ len >= Word * Unroll
  /\ mem' = [a \in Addr |-> IF a \in Area(bdest, Word * (Unroll - 1)) THEN mem[bsrc + (a - bdest)] ELSE mem[a]]
  /\ bdest' = bdest + Word * Unroll
  /\ bsrc' = bsrc + Word * Unroll
  /\ len' = len - Word * Unroll
  /\ UNCHANGED <<args, old, loop>>
Unrolled ==
  /\ loop = "unrolled" /\ len >= Word * Unroll
  /\ Copy(Word * Unroll)
  /\ len' = len - Word * Unroll
  /\ UNCHANGED <<args, old, loop>>
UnrolledDone == len < Word * Unroll /\ Goto("unrolled", "words")

WordsLonger ==  \* mutant: len > 0
  /\ loop = "words" /\ len > 0
  /\ Copy(Word)
  /\ len' = IF len < Word THEN 0 ELSE len - Word
  /\ UNCHANGED <<args, old, loop>>
Words ==
  /\ loop = "words" /\ len >= Word
  /\ Copy(Word)
  /\ len' = len - Word
  /\ UNCHANGED <<args, old, loop>>
WordsDone == len < Word /\ Goto("words", "bytes")

Bytes ==
  /\ loop = "bytes" /\ len > 0
  /\ Copy(1)
  /\ len' = len - 1
  /\ UNCHANGED <<args, old, loop>>
\* while(len-- > 0): the last test leaves SIZE_MAX in len.
Return ==
  /\ loop = "bytes" /\ len = 0
  /\ len' = SizeMax
  /\ loop' = "done"
  /\ UNCHANGED <<args, old, mem, bdest, bsrc>>

CopyNext ==
  \/ Start \/ Align \/ Aligned \/ Unrolled \/ UnrolledDone
  \/ Words \/ WordsDone \/ Bytes \/ Return

CopySpec == CopyInit /\ [][CopyNext]_copyVars

-----------------------------------------------------------------------------
Loops == {"start", "align", "unrolled", "words", "bytes", "done"}

\* Every variable has its type; the pointers are numbers, not always addresses.
CopyTypeOK ==
  /\ args \in MemCalls
  /\ old \in [Addr -> MemByte] /\ mem \in [Addr -> MemByte]
  /\ bdest \in Nat /\ bsrc \in Nat /\ len \in 0 .. SizeMax
  /\ loop \in Loops

Inside(a) == a \in Area(args.dest, args.len)

\* Copied: when my_memcpy returns, the destination holds the bytes of the source,
\* for every length and alignment, whichever of its four loops copied them.
Copied ==
  loop = "done" =>
    \A a \in Addr : Inside(a) => mem[a] = old[args.src + (a - args.dest)]

\* NothingElse: at no time is a byte outside of the destination changed.
NothingElse == \A a \in Addr : ~Inside(a) => mem[a] = old[a]
=============================================================================
