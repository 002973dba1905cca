----------------------------- MODULE Supervisor -----------------------------
(***************************************************************************)
(* The supervisor of one native engine (src/src/supervisor.rs): the task   *)
(* that starts the child process and starts it again after every end, the  *)
(* watcher task that probes the child's /health, and the child itself.     *)
(*                                                                         *)
(* Three actors take steps: the supervisor task, the watcher task of the   *)
(* current run, and the environment (the child, the clock, the shutdown).  *)
(* Time is abstract: a clock step says that the start grace is over, or    *)
(* that a run has become long.  A spec comes from a SpecSource; this       *)
(* module allows any answer of it, or none (Plan); LlmSupervisor has the   *)
(* LLM's.                                                                  *)
(***************************************************************************)
EXTENDS Naturals

CONSTANTS
    Failures,   \* Health.failures: failed probes in a row that mean a hang
    MaxStarts   \* bound: successful spawns in one behaviour

ASSUME FailuresAssumption == Failures \in Nat \ {0}
ASSUME MaxStartsAssumption == MaxStarts \in Nat \ {0}

(* What the supervisor reads of a ChildSpec. *)
ChildSpec == [health: BOOLEAN, restart_when_healthy: BOOLEAN]

(* RunOutcome; NoOutcome is the Option's None.  The duration ran is        *)
(* reduced to the one test that reads it: at least GOOD_RUN (engine.rs).   *)
Ended == {"Exited", "Hung", "Replaced", "SpawnFailed"}
RunOutcome == [ended: Ended, healthy: BOOLEAN, long: BOOLEAN]
NoOutcome  == [ended |-> "None", healthy |-> FALSE, long |-> FALSE]
SpawnFailed == [ended |-> "SpawnFailed", healthy |-> FALSE, long |-> FALSE]

VARIABLES
    pc,       \* the supervisor task: where it is in its loop
    spec,     \* the spec of the current or next start
    ended,    \* the local ended of the current iteration
    last,     \* the outcome of the last run
    starts,   \* ChildSpec.starts
    cancel,   \* the children token: the hub stops
    child,    \* the process: none, loading, ready, stuck, dead
    watch,    \* the watcher task of the run: where it is
    run       \* the rest of the run's state

task == <<pc, spec, ended, last, starts>>
vars == <<task, cancel, child, watch, run>>

(* seen, failed: locals of watch.  healthy, replace: RunState.  fatal: the *)
(* token of the run.  grace, long: what time has passed.  missed is        *)
(* history: the probes in a row without a 2xx answer.                      *)
Run ==
    [seen: BOOLEAN, failed: 0..Failures, healthy: BOOLEAN, replace: BOOLEAN,
     fatal: BOOLEAN, grace: BOOLEAN, long: BOOLEAN, missed: 0..Failures]

FreshRun ==
    [seen |-> FALSE, failed |-> 0, healthy |-> FALSE, replace |-> FALSE,
     fatal |-> FALSE, grace |-> FALSE, long |-> FALSE, missed |-> 0]

Alive == child \in {"loading", "ready", "stuck"}

TypeOK ==
    /\ pc \in {"source", "next", "spawn", "run", "terminate", "delay", "stop", "ended"}
    /\ spec \in ChildSpec
    /\ ended \in Ended
    /\ last \in RunOutcome \cup {NoOutcome}
    /\ starts \in 0..MaxStarts
    /\ cancel \in BOOLEAN
    /\ child \in {"none", "loading", "ready", "stuck", "dead"}
    /\ watch \in {"off", "start", "sleep", "probe", "replace", "fatal"}
    /\ run \in Run

Init ==
    /\ pc = "source"
    /\ spec = [health |-> FALSE, restart_when_healthy |-> FALSE]
    /\ ended = "SpawnFailed"
    /\ last = NoOutcome
    /\ starts = 0
    /\ cancel = FALSE
    /\ child = "none"
    /\ watch = "off"
    /\ run = FreshRun

-----------------------------------------------------------------------------
(* The supervisor task. *)

(* The test of the while loop: the source is asked. *)
AskSource ==
    /\ pc = "source" /\ ~cancel
    /\ pc' = "next"
    /\ UNCHANGED <<spec, ended, last, starts, cancel, child, watch, run>>

(* source.next(last) answers s.  It is awaited outside select!, so a stop  *)
(* of the hub is not seen meanwhile, and it may never answer: the source   *)
(* of the LLM waits for llama-server --cache-list without a time limit.    *)
Plan(s) ==
    /\ pc = "next"
    /\ pc' = "spawn"
    /\ spec' = s
    /\ UNCHANGED <<ended, last, starts, cancel, child, watch, run>>

(* The while loop ends when the hub stops. *)
LeaveLoop ==
    /\ pc = "source" /\ cancel
    /\ pc' = "ended"
    /\ UNCHANGED <<spec, ended, last, starts, cancel, child, watch, run>>

(* cmd.spawn() succeeds: the start counts, and a spec with a health probe  *)
(* gets a watcher.  All state of the run is new.                           *)
Spawn ==
    /\ pc = "spawn" /\ starts < MaxStarts
    /\ pc' = "run"
    /\ starts' = starts + 1
    /\ child' = "loading"
    /\ watch' = IF spec.health THEN "start" ELSE "off"
    /\ ended' = "SpawnFailed"
    /\ run' = FreshRun
    /\ UNCHANGED <<spec, last, cancel>>

(* cmd.spawn() fails: there is no run, and the outcome says so. *)
SpawnFails ==
    /\ pc = "spawn"
    /\ pc' = "delay"
    /\ ended' = "SpawnFailed"
    /\ last' = SpawnFailed
    /\ run' = FreshRun
    /\ UNCHANGED <<spec, starts, cancel, child, watch>>

(* The end of a run: the watcher is aborted, the outcome is kept for the   *)
(* source, and the restart delay begins.  Output readers are left out.     *)
EndRunWith(e, c) ==
    /\ pc' = "delay"
    /\ watch' = "off"
    /\ ended' = e
    /\ last' = [ended |-> e, healthy |-> run.healthy, long |-> run.long]
    /\ child' = c
    /\ UNCHANGED <<spec, starts, cancel, run>>

(* Mutant: the restart does not wait for the end of the old process. *)
EndRunAtOnce(e) == EndRunWith(e, child)

EndRun(e) == EndRunWith(e, "none")

(* Mutant: an exit ends the task. *)
ChildExitedForGood ==
    /\ pc = "run" /\ child = "dead"
    /\ pc' = "ended"
    /\ child' = "none"
    /\ UNCHANGED <<spec, ended, last, starts, cancel, watch, run>>

(* select!: child.wait() is ready. *)
ChildExited ==
    /\ pc = "run" /\ child = "dead"
    /\ EndRun("Exited")

(* select!: the watcher gave up on the child, or wants it replaced.  The   *)
(* flag replace is read here, before the child is stopped.                 *)
FatalRun ==
    /\ pc = "run" /\ run.fatal
    /\ pc' = "terminate"
    /\ ended' = IF run.replace THEN "Replaced" ELSE "Hung"
    /\ UNCHANGED <<spec, last, starts, cancel, child, watch, run>>

(* terminate: the child obeys SIGTERM, or SIGKILL after STOP_GRACE.  Both  *)
(* wait until the process is gone.                                         *)
Terminated ==
    /\ pc = "terminate"
    /\ EndRun(ended)

CancelRunIf(seen) ==
    /\ pc = "run" /\ cancel /\ seen
    /\ pc' = "stop"
    /\ watch' = "off"
    /\ UNCHANGED <<spec, ended, last, starts, cancel, child, run>>

(* Mutant: only a watched child is stopped with the hub. *)
CancelWatchedRun == CancelRunIf(spec.health)

(* select!: the hub stops.  The watcher goes first, then the child. *)
CancelRun == CancelRunIf(TRUE)

(* terminate for a stop of the hub: the task returns. *)
Stopped ==
    /\ pc = "stop"
    /\ pc' = "ended"
    /\ child' = "none"
    /\ UNCHANGED <<spec, ended, last, starts, cancel, watch, run>>

(* select! after a run: RESTART_DELAY is over, or the hub stops. *)
DelayOver ==
    /\ pc = "delay"
    /\ pc' = "source"
    /\ UNCHANGED <<spec, ended, last, starts, cancel, child, watch, run>>

CancelDelay ==
    /\ pc = "delay" /\ cancel
    /\ pc' = "ended"
    /\ UNCHANGED <<spec, ended, last, starts, cancel, child, watch, run>>

Supervise ==
    \/ AskSource \/ LeaveLoop \/ Spawn \/ SpawnFails
    \/ ChildExited \/ FatalRun \/ Terminated \/ CancelRun \/ Stopped
    \/ DelayOver \/ CancelDelay

-----------------------------------------------------------------------------
(* The watcher task.  Its stores and the cancel of the token are separate  *)
(* steps: the supervisor runs on another thread and may act between them.  *)
(* The abort at the end of a run may come during them; what they still     *)
(* store then is of a run that nobody looks at any more.                   *)

WatchTo(l) == watch' = l /\ UNCHANGED <<task, cancel, child>>

(* The HTTP client of the probes is built. *)
WatchStarts ==
    /\ watch = "start"
    /\ WatchTo("sleep") /\ UNCHANGED run

(* It cannot be built: nobody watches this run. *)
WatchdogDisabled ==
    /\ watch = "start"
    /\ WatchTo("off") /\ UNCHANGED run

WatchCancelled ==
    /\ watch = "sleep" /\ cancel
    /\ WatchTo("off") /\ UNCHANGED run

ProbeSent ==
    /\ watch = "sleep"
    /\ WatchTo("probe") /\ UNCHANGED run

(* The first good answer.  The spec may ask for a replacement then. *)
FirstAnswer ==
    /\ watch = "probe" /\ child = "ready" /\ ~run.seen
    /\ run' = [run EXCEPT !.seen = TRUE, !.healthy = TRUE, !.missed = 0,
                          !.failed = IF spec.restart_when_healthy THEN @ ELSE 0]
    /\ WatchTo(IF spec.restart_when_healthy THEN "replace" ELSE "sleep")

(* Mutant: the token is cancelled without the flag. *)
FireUnmarked ==
    /\ watch = "replace"
    /\ run' = [run EXCEPT !.fatal = TRUE]
    /\ WatchTo("off")

MarkReplace ==
    /\ watch = "replace"
    /\ run' = [run EXCEPT !.replace = TRUE]
    /\ WatchTo("fatal")

FireReplace ==
    /\ watch = "fatal"
    /\ run' = [run EXCEPT !.fatal = TRUE]
    /\ WatchTo("off")

LaterAnswerLeaves(count) ==
    /\ watch = "probe" /\ child = "ready" /\ run.seen
    /\ run' = [run EXCEPT !.failed = count, !.missed = 0]
    /\ WatchTo("sleep")

(* Mutant: a good answer does not clear the count. *)
LaterAnswerNoReset == LaterAnswerLeaves(run.failed)

LaterAnswer == LaterAnswerLeaves(0)

Missed == IF run.missed < Failures THEN run.missed + 1 ELSE run.missed

ProbeFailsEarly(early) ==
    /\ watch = "probe" /\ child # "ready" /\ early
    /\ run' = [run EXCEPT !.missed = Missed]
    /\ WatchTo("sleep")

(* Mutant: a probe before the first answer never counts. *)
ProbeNeverCounts == ProbeFailsEarly(~run.seen)

(* No 2xx answer, and the model may still be loading: it does not count. *)
ProbeFailsInGrace == ProbeFailsEarly(~run.seen /\ ~run.grace)

(* No 2xx answer: it counts, and the last allowed one is a hang.  Both     *)
(* children are probed every 30 s and may miss four probes, and their      *)
(* graces are 120 s and more: a run that hangs has been long by then.      *)
ProbeFailsUpTo(limit) ==
    /\ watch = "probe" /\ child # "ready"
    /\ run.seen \/ run.grace
    /\ run.failed + 1 >= limit => run.long
    /\ run' = [run EXCEPT !.failed = @ + 1, !.missed = Missed,
                          !.fatal = run.failed + 1 >= limit]
    /\ WatchTo(IF run.failed + 1 >= limit THEN "off" ELSE "sleep")

(* Mutant: one probe too many before the hang is reported. *)
ProbeFailsLate == ProbeFailsUpTo(Failures + 1)

ProbeFails == ProbeFailsUpTo(Failures)

Watch ==
    \/ WatchStarts \/ WatchdogDisabled \/ WatchCancelled \/ ProbeSent
    \/ FirstAnswer \/ MarkReplace \/ FireReplace \/ LaterAnswer
    \/ ProbeFailsInGrace \/ ProbeFails

-----------------------------------------------------------------------------
(* The environment: the native program, the clock, and main's shutdown. *)

ChildBecomes(c) == child' = c /\ UNCHANGED <<task, cancel, watch, run>>

ChildReady == child \in {"loading", "stuck"} /\ ChildBecomes("ready")

(* It keeps its port open and does not answer: hung, or only busy. *)
ChildStuck == child \in {"loading", "ready"} /\ ChildBecomes("stuck")

ChildDies == Alive /\ ChildBecomes("dead")

(* start_grace has passed since the watcher began. *)
GraceOver ==
    /\ watch \in {"sleep", "probe"} /\ ~run.grace
    /\ run' = [run EXCEPT !.grace = TRUE]
    /\ UNCHANGED <<task, cancel, child, watch>>

(* GOOD_RUN has passed since the start. *)
LongRun ==
    /\ pc \in {"run", "terminate"} /\ ~run.long
    /\ run' = [run EXCEPT !.long = TRUE]
    /\ UNCHANGED <<task, cancel, child, watch>>

(* main: children.cancel(). *)
HubStops ==
    /\ ~cancel
    /\ cancel' = TRUE
    /\ UNCHANGED <<task, child, watch, run>>

Environment ==
    \/ ChildReady \/ ChildStuck \/ ChildDies
    \/ GraceOver \/ LongRun \/ HubStops

(* Any source of specs. *)
Next ==
    \/ \E s \in ChildSpec : Plan(s)
    \/ Supervise \/ Watch \/ Environment

(* The runtime polls a task that can go on, and timers fire.  Nothing is   *)
(* assumed of the child, nor of the source: Plan is not fair.              *)
Fairness ==
    /\ WF_vars(Supervise)
    /\ WF_vars(Watch)
    /\ WF_vars(GraceOver)
    /\ WF_vars(LongRun)

Spec == Init /\ [][Next]_vars
FairSpec == Spec /\ Fairness

-----------------------------------------------------------------------------
(* At most one process of the engine exists: whenever the task plans or    *)
(* makes the next start, waits for it, or has returned, the process of the *)
(* run before is gone.  Two would fight for one port and one GPU.          *)
OneProcess == Alive => pc \in {"run", "terminate", "stop"}

(* The supervisor stops a child for one of two true reasons only.  As hung *)
(* when its last Failures probes all went unanswered, after a good answer  *)
(* or after the grace; as replaced when it answered and its spec asks for  *)
(* it.  A slow model load or one late answer is neither.                   *)
DeservedStop ==
    pc = "terminate" =>
        \/ /\ ended = "Hung"
           /\ run.missed >= Failures
           /\ run.healthy \/ run.grace
        \/ /\ ended = "Replaced"
           /\ spec.restart_when_healthy
           /\ run.healthy

(* To its source and to the watchers of starts, the supervisor is a        *)
(* sequence of single runs, each reported truly (SupervisedRuns): the two  *)
(* other tasks, the flags and the tokens do not show.                      *)
Phase == CASE pc \in {"source", "next", "delay"} -> "source"
           [] pc \in {"run", "terminate", "stop"} -> "run"
           [] OTHER -> pc

Runs == INSTANCE SupervisedRuns WITH phase <- Phase, up <- Alive

ImplementsRuns == Runs!RunsSpec

(* A child that stops answering for good is stopped: it does not stay      *)
(* stuck (docs/architecture.md: only a probe can find it).  A watcher      *)
(* without an HTTP client finds nothing.                                   *)
Found == watch \notin {"off", "start"} \/ run.fatal

HangIsFound == (pc = "run" /\ Found /\ child = "stuck") ~> (child # "stuck")

(* What no step of this task ends: a source that does not answer. *)
SourceHangs == pc = "next"

(* A child that exits leads to a new start, unless the hub stops or the    *)
(* source never answers.                                                   *)
ExitLeadsToStart == (child = "dead") ~> (pc = "spawn" \/ cancel \/ []SourceHangs)

(* A stop of the hub ends the task and its child, wherever the stop finds  *)
(* them, unless the source never answers.  A start that the source has     *)
(* delayed past the stop is stopped as well.                               *)
StopEnds == cancel ~> ((pc = "ended" /\ ~Alive) \/ []SourceHangs)
=============================================================================
