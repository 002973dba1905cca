--------------------------- MODULE SupervisedRuns ---------------------------
(***************************************************************************)
(* What a supervised engine looks like from outside: to the SpecSource     *)
(* that answers each next(last) with a spec (llm/specs.rs), and to those   *)
(* that watch the counter ChildSpec.starts (llm/slots.rs).  One run after  *)
(* the other; at most one process; each next call gets the outcome of the  *)
(* run just before; nothing starts after the end.                          *)
(*                                                                         *)
(* Supervisor implements this specification; LlmSupervisor and SlotCache   *)
(* are built on it.                                                        *)
(***************************************************************************)
EXTENDS Naturals

CONSTANTS
    MaxStarts   \* bound: successful spawns in one behaviour

ASSUME MaxStartsAssumption == MaxStarts \in Nat \ {0}

(* What the supervisor reads of a ChildSpec. *)
ChildSpec == [health: BOOLEAN, restart_when_healthy: BOOLEAN]

(* RunOutcome; NoOutcome is the Option's None.  The duration ran is        *)
(* reduced to the one test that reads it: at least GOOD_RUN (engine.rs).   *)
Ended == {"Exited", "Hung", "Replaced", "SpawnFailed"}
RunOutcome == [ended: Ended, healthy: BOOLEAN, long: BOOLEAN]
NoOutcome  == [ended |-> "None", healthy |-> FALSE, long |-> FALSE]
SpawnFailed == [ended |-> "SpawnFailed", healthy |-> FALSE, long |-> FALSE]

VARIABLES
    phase,   \* the source is asked next, a spawn is next, a run, the end
    spec,    \* the answer of the source
    last,    \* the outcome of the run before
    starts,  \* ChildSpec.starts
    up       \* the process exists

runsVars == <<phase, spec, last, starts, up>>

RunsInit ==
    /\ phase = "source"
    /\ spec = [health |-> FALSE, restart_when_healthy |-> FALSE]
    /\ last = NoOutcome
    /\ starts = 0
    /\ up = FALSE

(* The source answers with the spec s. *)
Answer(s) ==
    /\ phase = "source"
    /\ phase' = "spawn"
    /\ spec' = s
    /\ UNCHANGED <<last, starts, up>>

Start ==
    /\ phase = "spawn"
    /\ starts < MaxStarts
    /\ phase' = "run"
    /\ starts' = starts + 1
    /\ up' = TRUE
    /\ UNCHANGED <<spec, last>>

NoStart ==
    /\ phase = "spawn"
    /\ phase' = "source"
    /\ last' = SpawnFailed
    /\ UNCHANGED <<spec, starts, up>>

(* The process ends by itself; its supervisor has not seen it yet. *)
Die ==
    /\ up
    /\ up' = FALSE
    /\ UNCHANGED <<phase, spec, last, starts>>

(* The outcomes that a run of the spec s can have.  A child that is found  *)
(* hung had a probe, and a hang takes four probes 30 s apart: at least the *)
(* 120 s of a long run.  A child is replaced at a good answer only.        *)
Possible(o, s) ==
    /\ o.ended # "SpawnFailed"
    /\ o.healthy => s.health
    /\ o.ended = "Hung" => s.health /\ o.long
    /\ o.ended = "Replaced" => s.restart_when_healthy /\ o.healthy

(* A run ends with the outcome o, and the process is gone. *)
Finish(o) ==
    /\ phase = "run"
    /\ Possible(o, spec)
    /\ phase' = "source"
    /\ last' = o
    /\ up' = FALSE
    /\ UNCHANGED <<spec, starts>>

(* The hub stops.  There is no step after it. *)
Close ==
    /\ phase # "ended"
    /\ phase' = "ended"
    /\ up' = FALSE
    /\ UNCHANGED <<spec, last, starts>>

RunsStep == Start \/ NoStart \/ Die \/ Close \/ \E o \in RunOutcome : Finish(o)

RunsNext == RunsStep \/ \E s \in ChildSpec : Answer(s)

RunsSpec == RunsInit /\ [][RunsNext]_runsVars
=============================================================================
