---------------------------- MODULE MCOtaSystem ----------------------------
(***************************************************************************)
(* An instance of OtaSystem for TLC: the second deployment's image does    *)
(* not start.                                                              *)
(***************************************************************************)
EXTENDS OtaSystem

MCImageOf == [a \in Attempts |-> IF a = 2 THEN 12 ELSE 11]
MCValues == {<<"v", 1>>}

=============================================================================
