---------------------------- MODULE MCNativeOta ----------------------------
(***************************************************************************)
(* Instances of NativeOta for TLC: two deployments of two images, or a     *)
(* third that deploys the first image again.                               *)
(***************************************************************************)
EXTENDS NativeOta

MCImageOf == [a \in Attempts |-> IF a = 2 THEN 12 ELSE 11]

=============================================================================
