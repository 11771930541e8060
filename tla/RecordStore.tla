------------------------------ MODULE RecordStore ------------------------------
(***************************************************************************)
(* What a client of ycsbserver's executor may rely on: records with named  *)
(* fields, and one request at a time.  A write goes field by field and may *)
(* stop anywhere (the server dies) or lose a field (the status of Put is   *)
(* ignored); a read answers with the record as it is; a scan answers only  *)
(* with fields of records whose key is not below the one asked for.        *)
(***************************************************************************)
EXTENDS Integers, Sequences, FiniteSets

CONSTANTS Keys, Fields, Vals, None

VARIABLES
  store,    \* [Keys -> [Fields -> Vals \cup {None}]]
  request,  \* the last request: [op, key, pairs], pairs a Seq of [field, val]
  pending,  \* the pairs a write still has to store
  reply     \* the answer to a read or scan: Seq of [field, val]

storeVars == <<store, request, pending, reply>>

Present(k) == {f \in Fields : store[k][f] # None}
Entry(k, f) == [field |-> f, val |-> store[k][f]]
Ascending(S) ==
  [p \in 1 .. Cardinality(S) |-> CHOOSE x \in S : Cardinality({y \in S : y < x}) = p - 1]

\* No pairs means all fields, smallest name first; otherwise the fields asked
\* for that are there, in the order asked for.
Wanted ==
  IF request.pairs = <<>> THEN Ascending(Present(request.key))
  ELSE LET there == Ascending({p \in DOMAIN request.pairs :
                                 request.pairs[p].field \in Present(request.key)})
       IN [p \in DOMAIN there |-> request.pairs[there[p]].field]

-----------------------------------------------------------------------------
StoreInit ==
  /\ store = [k \in Keys |-> [f \in Fields |-> None]]
  /\ request = [op |-> "none", key |-> 0, pairs |-> <<>>]
  /\ pending = <<>>
  /\ reply = <<>>

Ask ==
  /\ pending = <<>>
  /\ request'.op = "write" => request'.key \in Keys
  /\ pending' = IF request'.op = "write" THEN request'.pairs ELSE <<>>
  /\ reply' = <<>>
  /\ UNCHANGED store

Write ==
  /\ pending # <<>>
  /\ LET w == pending[1] IN
       \/ store' = [store EXCEPT ![request.key][w.field] = w.val]
       \/ store' = store
  /\ pending' = Tail(pending)
  /\ UNCHANGED <<request, reply>>

Interrupt ==
  /\ request' = [op |-> "none", key |-> 0, pairs |-> <<>>]
  /\ pending' = <<>>
  /\ reply' = <<>>
  /\ UNCHANGED store

Read ==
  /\ request.op = "read"
  /\ reply' = [p \in DOMAIN Wanted |-> Entry(request.key, Wanted[p])]
  /\ UNCHANGED <<store, request, pending>>

ScanAnswer(r) ==
  \A p \in DOMAIN r :
    \E k \in Keys : k >= request.key /\ r[p].field \in Present(k) /\ r[p] = Entry(k, r[p].field)

Scan ==
  /\ request.op = "scan"
  /\ ScanAnswer(reply')
  /\ UNCHANGED <<store, request, pending>>

StoreNext == Ask \/ Write \/ Interrupt \/ Read \/ Scan

\* The promise of the executor (LevelDBExecutor in ops.h).
StoreSpec == StoreInit /\ [][StoreNext]_storeVars
=============================================================================
