----------------------------- MODULE MCGpuVoice -----------------------------
(* Small instances of GpuVoice for TLC. *)
EXTENDS GpuVoice
=============================================================================
