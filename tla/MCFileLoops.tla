------------------------------ MODULE MCFileLoops ------------------------------
(***************************************************************************)
(* Instances of FileLoops: inputs of up to two and a half buffers, outputs *)
(* that are longer or shorter than the copy, two rounds.                   *)
(***************************************************************************)
EXTENDS FileLoops

MCByte == 0 .. 5
Contents == {<< >>, <<1, 2>>, <<1, 2, 3, 4, 5>>}
Olds == {<< >>, <<4>>, <<5, 5, 5, 5, 5, 5>>}

MCDisks ==
  {[a |-> f, b |-> o, stdout |-> << >>] : f \in Contents, o \in Olds}

Command(p, i, o, t, n) == [prog |-> p, in |-> i, out |-> o, trunc |-> t, total |-> n]
MCCalls ==
  {Command(p, "a", o, TRUE, 0) : p \in {"cp", "sendfile"}, o \in {"a", "b"}}
    \cup {Command("cat", "a", "stdout", TRUE, 0), Command("read", "a", "stdout", TRUE, 0)}
    \cup {Command("write", "a", "b", t, n) : t \in BOOLEAN, n \in {0, 2, 3}}
=============================================================================
