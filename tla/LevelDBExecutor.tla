---------------------------- MODULE LevelDBExecutor ----------------------------
(***************************************************************************)
(* LevelDBExecutor (ops.cc): records are spread over LevelDB entries       *)
(* "<key>/field<n>", which LevelDB iterates over in bytewise order.        *)
(*                                                                         *)
(* A string is a sequence of codes whose order is that of its bytes: Slash *)
(* before the digits 0..9 before Letters, which stands for "field".  Names *)
(* of fields are single digits; a value is its length.  The process may    *)
(* die between any two steps and be started again on the same database.    *)
(***************************************************************************)
EXTENDS Integers, Sequences, SequencesExt, FiniteSets, FiniteSetsExt

CONSTANTS
  Keys,       \* keys of records
  Fields,     \* names of fields, a set of digits
  Vals,       \* values: their lengths
  ScanLens,   \* scan_length of the scans
  MaxKvs,     \* bound: pairs per package
  MaxOps,     \* bound: packages per start of the server
  LLMax       \* LLONG_MAX: what std::stoll can return

ASSUME ExecAssumption ==
  /\ Keys \subseteq Nat /\ Fields \subseteq 0 .. 9 /\ Vals \subseteq Nat
  /\ ScanLens \subseteq Nat /\ MaxKvs \in Nat /\ MaxOps \in Nat /\ LLMax \in Nat

Slash == -1
Letters == 10
NoPrefix == <<>>
FieldPrefix == <<Letters>>

VARIABLES
  db,         \* the database: a function from strings to values
  pc,         \* "down", "idle" or "execute"
  pkg,        \* the package being executed, or executed last
  pos,        \* index into pkg.kv_pairs in exec_insert
  res,        \* what exec_read / exec_scan returned: Seq of [name, val]
  bytes,      \* what execute() returned
  n           \* _n_insert, _n_read, _n_scan, _n_update

vars == <<db, pc, pkg, pos, res, bytes, n>>

-----------------------------------------------------------------------------
\* operator<< of ostringstream, and >> of istringstream or stoll, on numbers.
Decimal[k \in Nat] == IF k < 10 THEN <<k>> ELSE Append(Decimal[k \div 10], k % 10)
Number(s) ==
  LET read[p \in 0 .. Len(s)] == IF p = 0 THEN 0 ELSE 10 * read[p - 1] + s[p]
  IN read[Len(s)]

\* std::string::size()
Size(s) == FoldLeft(LAMBDA l, c : l + (IF c = Letters THEN 5 ELSE 1), 0, s)

\* A set of numbers as a sequence.
Ascending(S) ==
  [p \in 1 .. Cardinality(S) |-> CHOOSE k \in S : Cardinality({j \in S : j < k}) = p - 1]

\* leveldb's default comparator.
StringLess(s, t) ==
  \E p \in DOMAIN t :
    /\ \A q \in 1 .. p - 1 : q \in DOMAIN s /\ s[q] = t[q]
    /\ p \in DOMAIN s => s[p] < t[p]

pack_key(key, field, prefix) == Decimal[key] \o <<Slash>> \o prefix \o field

SlashAt(s) == CHOOSE p \in DOMAIN s : s[p] = Slash /\ \A q \in 1 .. p - 1 : s[q] # Slash
KeyOf(s) == Number(SubSeq(s, 1, SlashAt(s) - 1))
unpack_key(s) == [key |-> KeyOf(s), field |-> SubSeq(s, SlashAt(s) + 1, Len(s))]
\* is >> key; is >> field: the field keeps the slash.
stream_key(s) == [key |-> KeyOf(s), field |-> SubSeq(s, SlashAt(s), Len(s))]

\* What a leveldb iterator comes by, of the entries S.
Iterator(S) ==
  [p \in 1 .. Cardinality(S) |->
     CHOOSE s \in S : Cardinality({t \in S : StringLess(t, s)}) = p - 1]
SeekToFirst == Iterator(DOMAIN db)
Seek(key) == Iterator({s \in DOMAIN db : ~StringLess(s, key)})

-----------------------------------------------------------------------------
Names == {<<f>> : f \in Fields} \cup {FieldPrefix \o <<f>> : f \in Fields}
UpTo(S) == UNION {[1 .. l -> S] : l \in 0 .. MaxKvs}

\* Inserts name a field by its digit, reads and scans name it in full.
WritePackages ==
  [op : {"INSERT", "UPDATE"}, key : Keys, scan_length : {0},
   kv_pairs : UpTo([name : {<<f>> : f \in Fields}, val : Vals])]
ReadPackages ==
  [op : {"READ"}, key : Keys, scan_length : {0}, kv_pairs : UpTo([name : Names, val : {0}])]
ScanPackages ==
  [op : {"SCAN"}, key : Keys, scan_length : ScanLens, kv_pairs : UpTo([name : Names, val : {0}])]
OtherPackages ==
  [op : {"DELETE", "UNKNOWN"}, key : Keys, scan_length : {0}, kv_pairs : {<<>>}]

NoPackage == [op |-> "NONE", key |-> 0, scan_length |-> 0, kv_pairs |-> <<>>]
NoOps == [insert |-> 0, read |-> 0, scan |-> 0, update |-> 0]

Init ==
  /\ db = <<>>
  /\ pc = "down"
  /\ pkg = NoPackage /\ pos = 0 /\ res = <<>> /\ bytes = 0 /\ n = NoOps

\* The constructor and reset_stats(); a failing DB::Open throws, nobody catches.
Open ==
  /\ pc = "down"
  /\ pc' = "idle"
  /\ n' = NoOps
  /\ UNCHANGED <<db, pkg, pos, res, bytes>>

\* The process ends, by itself or by a signal, between any two steps.
Die ==
  /\ pc' = "down"
  /\ pkg' = NoPackage /\ pos' = 0 /\ res' = <<>> /\ bytes' = 0
  /\ UNCHANGED <<db, n>>

Crash == pc # "down" /\ Die

Begin(p) ==
  /\ pc = "idle"
  /\ n.insert + n.read + n.scan + n.update < MaxOps
  /\ pkg' = p /\ pos' = 1 /\ res' = <<>> /\ bytes' = 0
  /\ pc' = "execute"
  /\ UNCHANGED <<db, n>>

Executing(ops) == pc = "execute" /\ pkg.op \in ops

-----------------------------------------------------------------------------
Updated(s, v) == [t \in DOMAIN db \cup {s} |-> IF t = s THEN v ELSE db[t]]

\* One round of exec_insert's loop.  The status of Put is not looked at.
Put ==
  /\ Executing({"INSERT", "UPDATE"})
  /\ pos <= Len(pkg.kv_pairs)
  /\ LET kv == pkg.kv_pairs[pos] IN
       db' \in {db, Updated(pack_key(pkg.key, kv.name, FieldPrefix), kv.val)}
  /\ pos' = pos + 1
  /\ UNCHANGED <<pc, pkg, res, bytes, n>>

Inserted ==
  /\ Executing({"INSERT", "UPDATE"})
  /\ pos > Len(pkg.kv_pairs)
  /\ n' = IF pkg.op = "INSERT" THEN [n EXCEPT !.insert = @ + 1] ELSE [n EXCEPT !.update = @ + 1]
  /\ bytes' = 4
  /\ pc' = "idle"
  /\ UNCHANGED <<db, pkg, pos, res>>

SizeOfAll(r) == FoldLeft(LAMBDA sum, pair : sum + Size(pair.name) + pair.val, 0, r)

exec_read_prefix ==  \* mutant: the entry's string is compared with the digits only
  LET mine == Iterator({s \in DOMAIN db : IsPrefix(Decimal[pkg.key], s)})
  IN [p \in DOMAIN mine |-> [name |-> stream_key(mine[p]).field, val |-> db[mine[p]]]]
exec_read ==
  IF pkg.kv_pairs = <<>>
  THEN LET mine == Iterator({s \in DOMAIN db : stream_key(s).key = pkg.key})
       IN [p \in DOMAIN mine |-> [name |-> stream_key(mine[p]).field, val |-> db[mine[p]]]]
  ELSE LET string(p) == pack_key(pkg.key, pkg.kv_pairs[p].name, NoPrefix)
           found == Ascending({p \in DOMAIN pkg.kv_pairs : string(p) \in DOMAIN db})
       IN [p \in DOMAIN found |-> [name |-> pkg.kv_pairs[found[p]].name, val |-> db[string(found[p])]]]

Read ==
  /\ Executing({"READ"})
  /\ res' = exec_read
  /\ bytes' = SizeOfAll(exec_read)
  /\ n' = [n EXCEPT !.read = @ + 1]
  /\ pc' = "idle"
  /\ UNCHANGED <<db, pkg, pos>>

-----------------------------------------------------------------------------
take_field(field) ==
  pkg.kv_pairs = <<>> \/ \E p \in DOMAIN pkg.kv_pairs : pkg.kv_pairs[p].name = field

ScanStartInsert ==  \* mutant: the prefix of exec_insert is used for the seek, too
  IF Len(pkg.kv_pairs) = 1 THEN Seek(pack_key(pkg.key, pkg.kv_pairs[1].name, FieldPrefix))
  ELSE SeekToFirst
ScanStart ==
  IF Len(pkg.kv_pairs) = 1 THEN Seek(pack_key(pkg.key, pkg.kv_pairs[1].name, NoPrefix))
  ELSE SeekToFirst

VisitFirstToo(st, s) ==  \* mutant: the first record is counted, too
  LET pair == unpack_key(s)
  IN IF st.rem = 0 \/ pair.key < pkg.key THEN st
     ELSE [st EXCEPT
             !.res = IF take_field(pair.field) THEN Append(@, [name |-> pair.field, val |-> db[s]]) ELSE @,
             !.rem = IF take_field(pair.field) /\ st.last_key # pair.key THEN @ - 1 ELSE @,
             !.last_key = pair.key]
\* One round of exec_scan's loop at entry s; st = [res, rem, last_key, thrown].
Visit(st, s) ==
  LET pair == unpack_key(s)
      taken == take_field(pair.field)
      next == st.last_key # 0 /\ st.last_key # pair.key
  IN IF st.thrown \/ st.rem = 0 THEN st
     ELSE IF pair.key > LLMax THEN [st EXCEPT !.thrown = TRUE]
     ELSE IF pair.key < pkg.key THEN st
     ELSE [st EXCEPT !.res = IF taken THEN Append(@, [name |-> pair.field, val |-> db[s]]) ELSE @,
                     !.rem = IF taken /\ next THEN @ - 1 ELSE @,
                     !.last_key = pair.key]

exec_scan ==
  LET it == ScanStart
      after[p \in 0 .. Len(it)] ==
        IF p = 0 THEN [res |-> <<>>, rem |-> pkg.scan_length, last_key |-> 0, thrown |-> FALSE]
        ELSE Visit(after[p - 1], it[p])
  IN after[Len(it)]

Scan ==
  /\ Executing({"SCAN"})
  /\ LET r == exec_scan IN
       /\ ~r.thrown
       /\ res' = r.res
       /\ bytes' = SizeOfAll(r.res)
  /\ n' = [n EXCEPT !.scan = @ + 1]
  /\ pc' = "idle"
  /\ UNCHANGED <<db, pkg, pos>>

\* std::stoll throws out_of_range, which nobody catches.
ScanThrows ==
  /\ Executing({"SCAN"})
  /\ exec_scan.thrown
  /\ Die

Other ==
  /\ Executing({"DELETE", "UNKNOWN"})
  /\ bytes' = IF pkg.op = "DELETE" THEN 4 ELSE 0
  /\ pc' = "idle"
  /\ UNCHANGED <<db, pkg, pos, res, n>>

Packages == WritePackages \cup ReadPackages \cup ScanPackages \cup OtherPackages

Next ==
  \/ Open \/ Crash \/ (\E p \in Packages : Begin(p))
  \/ Put \/ Inserted \/ Read \/ Scan \/ ScanThrows \/ Other

Spec == Init /\ [][Next]_vars

-----------------------------------------------------------------------------
\* The store a client sees: field f of record k is at "<k>/field<f>".
None == -1
StoreOf == [k \in Keys |-> [f \in Fields |->
              LET s == pack_key(k, <<f>>, FieldPrefix) IN IF s \in DOMAIN db THEN db[s] ELSE None]]
\* The digit a name ends in; a name without "field" is no field of a read.
FieldNo(name) == IF pkg.op \in {"READ", "SCAN"} /\ Len(name) = 1 THEN None ELSE name[Len(name)]
PairsOf(kvs) == [p \in DOMAIN kvs |-> [field |-> FieldNo(kvs[p].name), val |-> kvs[p].val]]
RequestOp ==
  [INSERT |-> "write", UPDATE |-> "write", READ |-> "read", SCAN |-> "scan",
   DELETE |-> "other", UNKNOWN |-> "other", NONE |-> "none"]

Store == INSTANCE RecordStore WITH
  store <- StoreOf,
  request <- [op |-> RequestOp[pkg.op], key |-> pkg.key, pairs |-> PairsOf(pkg.kv_pairs)],
  pending <- IF Executing({"INSERT", "UPDATE"})
             THEN PairsOf(SubSeq(pkg.kv_pairs, pos, Len(pkg.kv_pairs))) ELSE <<>>,
  reply <- [p \in DOMAIN res |-> [field |-> res[p].name[Len(res[p].name)], val |-> res[p].val]]

\* Flattening records into strings and back loses nothing: the executor
\* implements the store of records, through crashes and lost Puts.
StoreSpec == Store!StoreSpec

Finished(op) == pc = "idle" /\ pkg.op = op
Has(k, f) == StoreOf[k][f] # None
RecordsOf == {k \in Keys : \E f \in Fields : Has(k, f)}

\* The entries of records with key >= pkg.key, in the order of the iterator.
Eligible == Iterator({s \in DOMAIN db : KeyOf(s) >= pkg.key})
RecordsIn(p) == Cardinality({KeyOf(Eligible[q]) : q \in 1 .. p})
\* Record 0 is free of charge: last_key = 0 means "no record yet".
Charged == IF 0 \in {KeyOf(Eligible[q]) : q \in DOMAIN Eligible} THEN 1 ELSE 0

\* ScanAllFields: a scan without names returns the scan_length first records
\* (in the order of the database) completely and the first field of the one
\* after them: rem-- comes after push_back and at the next record.
ScanAllFields ==
  Finished("SCAN") /\ pkg.kv_pairs = <<>> =>
    LET whole == {p \in 0 .. Len(Eligible) : RecordsIn(p) <= pkg.scan_length + Charged}
        len == IF pkg.scan_length = 0 THEN 0 ELSE Min({Max(whole) + 1, Len(Eligible)})
    IN res = [p \in 1 .. len |-> [name |-> unpack_key(Eligible[p]).field, val |-> db[Eligible[p]]]]

\* The field a scan with one name asks for, if the name is a full one.
OneField == Len(pkg.kv_pairs) = 1 /\ Len(pkg.kv_pairs[1].name) = 2
Asked == pkg.kv_pairs[1].name[2]
SameLength(k) == Len(Decimal[k]) = Len(Decimal[pkg.key])

\* SeekSkipsNothing: when all keys have equally many digits, a scan of one field
\* answers with that field of the next records in numeric order, none left out.
SeekSkipsNothing ==
  Finished("SCAN") /\ OneField /\ (\A k \in RecordsOf : SameLength(k)) =>
    LET asc == Ascending({k \in RecordsOf : k >= pkg.key /\ Has(k, Asked)})
    IN /\ Len(res) <= Len(asc)
       /\ \A p \in DOMAIN res : res[p].val = StoreOf[asc[p]][Asked]
       /\ pkg.scan_length > 0 => Len(res) >= Min({pkg.scan_length, Len(asc)})

\* StollThrows: only a key that is no long long makes a scan abort, and while the
\* database holds one, no long enough scan of all fields can finish, wherever
\* that scan starts and however often the server is started again (unpack_key).
StollThrows ==
  /\ [][ScanThrows => \E k \in RecordsOf : k > LLMax]_vars
  /\ [](Finished("SCAN") /\ pkg.kv_pairs = <<>> /\ pkg.scan_length >= Cardinality(RecordsOf) =>
          pkg.scan_length = 0 \/ \A k \in RecordsOf : k <= LLMax)
=============================================================================
