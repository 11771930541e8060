------------------------------ MODULE MCFpgaBoot ------------------------------
(***************************************************************************)
(* A command that fits, one whose terminator does not, one that does not,  *)
(* and one that is not for S50bench; an initrd that fills its area, one    *)
(* that is shorter and one that does not fit.                              *)
(***************************************************************************)
EXTENDS FpgaBoot

MCPrefixed == {<<"run1">>, <<"run2", "2b">>, <<"run3", "3b", "3c">>}
MCCommands == MCPrefixed \cup {<<"other">>}
MCInitrds == {<<"i1", "i2", "i3">>, <<"j1", "j2">>, <<"k1", "k2", "k3", "k4">>}
=============================================================================
