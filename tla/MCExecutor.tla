------------------------------ MODULE MCExecutor ------------------------------
(***************************************************************************)
(* Instances of LevelDBExecutor: which keys the records have.              *)
(***************************************************************************)
EXTENDS LevelDBExecutor

StoreKeys == {1, 10, 99}   \* the digits of one key start those of another; 99 is above LLMax
MixedKeys == {0, 2, 10}     \* numeric and bytewise order differ; 0 is the sentinel
=============================================================================
