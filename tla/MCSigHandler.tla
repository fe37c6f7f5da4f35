---------------------------- MODULE MCSigHandler ----------------------------
(* Instances of SigHandler for TLC. *)
EXTENDS SigHandler
=============================================================================
