-------------------------------- MODULE Package --------------------------------
(***************************************************************************)
(* The package format and its parser OpHandler::from_bytes (handler.cc).   *)
(* A buffer is a function from 0 .. n-1 to bytes.  The header is reduced   *)
(* to the op code and the number of pairs; a pair is the length of its     *)
(* key, the length of its value, the key and the value.                    *)
(***************************************************************************)
EXTENDS Integers, Sequences, SequencesExt

HdrLen == 2     \* 19 in the code: op, table, num_kvs, key, scan_length

\* What a client puts on the wire or into a workload file for a package.
EncodePair(kv) == <<Len(kv.key), Len(kv.val)>> \o kv.key \o kv.val
Encode(p) == <<p.op, Len(p.kvs)>> \o FlattenSeq([k \in DOMAIN p.kvs |-> EncodePair(p.kvs[k])])

Bytes(buf, from, len) == [j \in 1 .. len |-> buf[from + j - 1]]
Inside(buf, from, len) == from .. from + len - 1 \subseteq DOMAIN buf

NextPairUnchecked(buf, at, size, st) ==  \* mutant: the lengths are not compared with the size
  LET p == at + st.pos
      end == st.pos + 2 + buf[p] + buf[p + 1]
  IN IF ~st.ok \/ st.fault THEN st
     ELSE IF st.pos + 2 > size THEN [st EXCEPT !.ok = FALSE]
     ELSE IF ~Inside(buf, p, 2) \/ ~Inside(buf, p, end - st.pos) THEN [st EXCEPT !.fault = TRUE]
     ELSE [st EXCEPT !.pos = end,
                     !.kvs = Append(@, [key |-> Bytes(buf, p + 2, buf[p]),
                                        val |-> Bytes(buf, p + 2 + buf[p], buf[p + 1])])]
\* One round of the loop.  fault: memory outside of the buffer is read.
NextPair(buf, at, size, st) ==
  LET p == at + st.pos
      end == st.pos + 2 + buf[p] + buf[p + 1]
  IN IF ~st.ok \/ st.fault THEN st
     ELSE IF st.pos + 2 > size THEN [st EXCEPT !.ok = FALSE]
     ELSE IF ~Inside(buf, p, 2) THEN [st EXCEPT !.fault = TRUE]
     ELSE IF end > size THEN [st EXCEPT !.ok = FALSE]
     ELSE IF ~Inside(buf, p, end - st.pos) THEN [st EXCEPT !.fault = TRUE]
     ELSE [st EXCEPT !.pos = end,
                     !.kvs = Append(@, [key |-> Bytes(buf, p + 2, buf[p]),
                                        val |-> Bytes(buf, p + 2 + buf[p], buf[p + 1])])]

\* The package at offset at of a buffer said to hold size more bytes.  The
\* header is read whatever size is; the pairs found before an incomplete one
\* stay in the package.
from_bytes(buf, at, size) ==
  IF ~Inside(buf, at, HdrLen) THEN [size |-> 0, op |-> 0, kvs |-> <<>>, fault |-> TRUE]
  ELSE LET after[k \in 0 .. buf[at + 1]] ==
             IF k = 0 THEN [pos |-> HdrLen, kvs |-> <<>>, ok |-> TRUE, fault |-> FALSE]
             ELSE LET st == after[k - 1] IN NextPair(buf, at, size, st)
           end == after[buf[at + 1]]
       IN [size |-> IF end.ok THEN end.pos ELSE 0, op |-> buf[at], kvs |-> end.kvs,
           fault |-> end.fault]
=============================================================================
