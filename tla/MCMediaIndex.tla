---------------------------- MODULE MCMediaIndex ----------------------------
(* Small instances of MediaIndex for TLC. *)
EXTENDS MediaIndex
=============================================================================
