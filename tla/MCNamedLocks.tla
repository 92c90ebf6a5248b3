---------------------------- MODULE MCNamedLocks ----------------------------
(* Instances of NamedLocks for TLC: all of their constants are in the .cfg. *)
EXTENDS NamedLocks
==============================================================================
