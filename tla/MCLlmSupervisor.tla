-------------------------- MODULE MCLlmSupervisor ---------------------------
(* Small instances of LlmSupervisor for TLC. *)
EXTENDS LlmSupervisor

(* Every choice, machine and image with a family of the table and one that *)
(* is not in it.                                                           *)
AllHosts == {h \in HostFacts : h.family \in {"Ling3", "Granite4"}}
=============================================================================
