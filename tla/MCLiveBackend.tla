---------------------------- MODULE MCLiveBackend ----------------------------
(***************************************************************************)
(* LiveBackend on small instances.                                         *)
(***************************************************************************)
EXTENDS LiveBackend, TLC

CONSTANTS c1, c2, c3, c4
=============================================================================
