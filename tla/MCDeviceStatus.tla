--------------------------- MODULE MCDeviceStatus ---------------------------
(* Model values for DeviceStatus. *)
EXTENDS DeviceStatus, TLC

CONSTANTS h1, h2

HandlerSymmetry == Permutations(Handlers)

=============================================================================
