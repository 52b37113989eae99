----------------------------- MODULE MCCommands -----------------------------
(* Model values for Commands. *)
EXTENDS Commands

CONSTANTS s1, a1, w1, w2

=============================================================================
