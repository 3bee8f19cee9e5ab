------------------------------ MODULE MCSweep -------------------------------
(* Two identities, a script run twice: an earlier runner, or none, meets the second. *)
EXTENDS Sweep
=============================================================================
