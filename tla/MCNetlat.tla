------------------------------- MODULE MCNetlat -------------------------------
(***************************************************************************)
(* Instances of Netlat.                                                    *)
(***************************************************************************)
EXTENDS Netlat
=============================================================================
