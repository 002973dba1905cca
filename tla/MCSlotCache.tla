---------------------------- MODULE MCSlotCache -----------------------------
(* Small instances of SlotCache for TLC. *)
EXTENDS SlotCache
=============================================================================
