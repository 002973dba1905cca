-------------------------- MODULE Supervisor_proof --------------------------
(***************************************************************************)
(* Proofs about Supervisor, for every Failures and MaxStarts: the types,   *)
(* one process at a time, no stop without a reason, and that it implements *)
(* SupervisedRuns.                                                         *)
(***************************************************************************)
EXTENDS Supervisor, TLAPS

(* What the flags of the run on stage mean.  DeservedStop alone is not     *)
(* inductive: the supervisor acts on the token and the flag long after the *)
(* watcher has set them, so they must stay true to the watcher's reasons.  *)
Watched ==
    watch # "off" =>
        /\ pc = "run"
        /\ spec.health
        /\ ~run.fatal
        /\ run.failed < Failures

Counted ==
    /\ watch \in {"start", "sleep", "probe"} => run.failed <= run.missed
    /\ run.failed > 0 => run.seen \/ run.grace
    /\ run.seen => run.healthy

Answered ==
    pc \in {"run", "terminate"} =>
        /\ run.healthy => spec.health
        /\ run.replace => run.healthy /\ spec.restart_when_healthy
        /\ watch \in {"replace", "fatal"} => run.healthy /\ spec.restart_when_healthy
        /\ watch = "fatal" => run.replace

Reason ==
    /\ run.missed >= Failures
    /\ run.healthy \/ run.grace
    /\ run.long
    /\ spec.health

FatalHasReason == pc = "run" /\ run.fatal => run.replace \/ Reason

StopHasReason ==
    pc = "terminate" =>
        \/ ended = "Hung" /\ Reason
        \/ ended = "Replaced" /\ run.replace

IndInv ==
    /\ TypeOK
    /\ OneProcess
    /\ Watched
    /\ Counted
    /\ Answered
    /\ FatalHasReason
    /\ StopHasReason

(* The invariant holds at the start. *)
LEMMA InitInv == Init => IndInv
  <1> SUFFICES ASSUME Init PROVE IndInv
    OBVIOUS
  <1> USE FailuresAssumption, MaxStartsAssumption
  <1>1. TypeOK
    <2>1. spec \in ChildSpec /\ ended \in Ended /\ run \in Run
      BY DEF Init, ChildSpec, Ended, Run, FreshRun
    <2>2. last \in RunOutcome \cup {NoOutcome}
      BY DEF Init
    <2>3. starts \in 0..MaxStarts
      BY DEF Init
    <2> QED BY <2>1, <2>2, <2>3 DEF Init, TypeOK
  <1>2. OneProcess /\ Watched /\ Counted /\ Answered /\ FatalHasReason /\ StopHasReason
    BY DEF Init, OneProcess, Alive, Watched, Counted, Answered, FatalHasReason, StopHasReason,
           FreshRun
  <1> QED BY <1>1, <1>2 DEF IndInv

(* The steps of the supervisor task keep it. *)
LEMMA SuperviseInv ==
    IndInv /\ (Supervise \/ \E s \in ChildSpec : Plan(s)) => IndInv'
  <1> SUFFICES ASSUME IndInv, Supervise \/ \E s \in ChildSpec : Plan(s) PROVE IndInv'
    OBVIOUS
  <1> USE FailuresAssumption, MaxStartsAssumption
  <1> USE DEF IndInv
  <1> DEFINE Parts == /\ OneProcess /\ Watched /\ Counted
                      /\ Answered /\ FatalHasReason /\ StopHasReason
  <1>1. ASSUME NEW s \in ChildSpec, Plan(s) PROVE TypeOK' /\ Parts'
    BY <1>1 DEF Plan, TypeOK, OneProcess, Alive, Watched, Counted, Answered, FatalHasReason,
                StopHasReason
  <1>2. CASE AskSource \/ LeaveLoop
    BY <1>2 DEF AskSource, LeaveLoop, TypeOK, OneProcess, Alive, Watched, Counted, Answered,
                FatalHasReason, StopHasReason
  <1>3. CASE Spawn
    <2>1. TypeOK'
      BY <1>3 DEF Spawn, TypeOK, Ended, Run, FreshRun
    <2>2. Parts'
      BY <1>3 DEF Spawn, TypeOK, OneProcess, Alive, Watched, Counted, Answered,
                  FatalHasReason, StopHasReason, FreshRun
    <2> QED BY <2>1, <2>2
  <1>4. CASE SpawnFails
    <2>1. TypeOK'
      BY <1>4 DEF SpawnFails, SpawnFailed, TypeOK, Ended, RunOutcome, Run, FreshRun
    <2>2. Parts'
      BY <1>4 DEF SpawnFails, TypeOK, OneProcess, Alive, Watched, Counted, Answered,
                  FatalHasReason, StopHasReason, FreshRun
    <2> QED BY <2>1, <2>2
  <1>5. ASSUME NEW e \in Ended, EndRun(e) PROVE TypeOK' /\ Parts'
    <2>1. TypeOK'
      BY <1>5 DEF EndRun, EndRunWith, TypeOK, RunOutcome, Run
    <2>2. Parts'
      BY <1>5 DEF EndRun, EndRunWith, TypeOK, OneProcess, Alive, Watched, Counted, Answered,
                  FatalHasReason, StopHasReason
    <2> QED BY <2>1, <2>2
  <1>6. CASE ChildExited
    BY <1>5, <1>6 DEF ChildExited, Ended
  <1>7. CASE FatalRun
    <2>1. TypeOK'
      BY <1>7 DEF FatalRun, TypeOK, Ended
    <2>2. Parts'
      BY <1>7 DEF FatalRun, TypeOK, OneProcess, Alive, Watched, Counted, Answered,
                  FatalHasReason, StopHasReason, Reason
    <2> QED BY <2>1, <2>2
  <1>8. CASE Terminated
    BY <1>5, <1>8 DEF Terminated, TypeOK
  <1>9. CASE CancelRun
    BY <1>9 DEF CancelRun, CancelRunIf, TypeOK, OneProcess, Alive, Watched, Counted, Answered,
                FatalHasReason, StopHasReason
  <1>10. CASE Stopped
    BY <1>10 DEF Stopped, TypeOK, OneProcess, Alive, Watched, Counted, Answered,
                 FatalHasReason, StopHasReason
  <1>11. CASE DelayOver
    BY <1>11 DEF DelayOver, TypeOK, OneProcess, Alive, Watched, Counted, Answered,
                 FatalHasReason, StopHasReason
  <1>12. CASE CancelDelay
    BY <1>12 DEF CancelDelay, TypeOK, OneProcess, Alive, Watched, Counted, Answered,
                 FatalHasReason, StopHasReason
  <1> QED
    BY <1>1, <1>2, <1>3, <1>4, <1>6, <1>7, <1>8, <1>9, <1>10, <1>11, <1>12 DEF Supervise

(* The steps of the watcher keep it: only the watcher gives reasons, and   *)
(* only while it runs, which ends with the token.                          *)
LEMMA WatchInv == IndInv /\ Watch => IndInv'
  <1> SUFFICES ASSUME IndInv, Watch PROVE IndInv'
    OBVIOUS
  <1> USE FailuresAssumption, MaxStartsAssumption
  <1> USE DEF IndInv, WatchTo, task
  <1> DEFINE Parts == /\ OneProcess /\ Watched /\ Counted
                      /\ Answered /\ FatalHasReason /\ StopHasReason
  <1>1. CASE WatchCancelled
    BY <1>1 DEF WatchCancelled, TypeOK, OneProcess, Alive, Watched, Counted, Answered,
                FatalHasReason, StopHasReason, Reason
  <1>2. CASE WatchStarts \/ WatchdogDisabled \/ ProbeSent
    BY <1>2 DEF WatchStarts, WatchdogDisabled, ProbeSent, TypeOK, OneProcess, Alive, Watched, Counted, Answered,
                FatalHasReason, StopHasReason, Reason
  <1>3. CASE FirstAnswer
    <2>1. TypeOK'
      <3>1. run \in Run /\ 0 \in 0..Failures
        BY DEF TypeOK
      <3>2. CASE spec.restart_when_healthy
        <4>1. run' = [run EXCEPT !.seen = TRUE, !.healthy = TRUE, !.missed = 0]
          BY <1>3, <3>1, <3>2 DEF FirstAnswer, Run
        <4>2. run' \in Run
          BY <3>1, <4>1 DEF Run
        <4> QED BY <1>3, <4>2 DEF FirstAnswer, TypeOK
      <3>3. CASE ~spec.restart_when_healthy
        <4>1. run' = [run EXCEPT !.seen = TRUE, !.healthy = TRUE, !.missed = 0, !.failed = 0]
          BY <1>3, <3>1, <3>3 DEF FirstAnswer, Run
        <4>2. run' \in Run
          BY <3>1, <4>1 DEF Run
        <4> QED BY <1>3, <4>2 DEF FirstAnswer, TypeOK
      <3> QED BY <3>2, <3>3
    <2>2. /\ run'.seen /\ run'.healthy
          /\ run'.missed = 0
          /\ run'.failed = IF spec.restart_when_healthy THEN run.failed ELSE 0
          /\ UNCHANGED <<run.replace, run.fatal, run.grace, run.long>>
      BY <1>3 DEF FirstAnswer, TypeOK, Run
    <2>3. Parts'
      BY <1>3, <2>1, <2>2 DEF FirstAnswer, TypeOK, Run, OneProcess, Alive, Watched, Counted,
                Answered, FatalHasReason, StopHasReason, Reason
    <2> QED BY <2>1, <2>3
  <1>4. CASE MarkReplace
    <2>1. TypeOK'
      BY <1>4 DEF MarkReplace, TypeOK, Run
    <2>2. Parts'
      BY <1>4 DEF MarkReplace, TypeOK, Run, OneProcess, Alive, Watched, Counted, Answered,
                  FatalHasReason, StopHasReason, Reason
    <2> QED BY <2>1, <2>2
  <1>5. CASE FireReplace
    <2>1. TypeOK'
      BY <1>5 DEF FireReplace, TypeOK, Run
    <2>2. Parts'
      BY <1>5 DEF FireReplace, TypeOK, Run, OneProcess, Alive, Watched, Counted, Answered,
                  FatalHasReason, StopHasReason, Reason
    <2> QED BY <2>1, <2>2
  <1>6. CASE LaterAnswer
    <2>1. TypeOK'
      <3>1. run \in Run /\ 0 \in 0..Failures
        BY DEF TypeOK
      <3>2. run' \in Run
        BY <1>6, <3>1 DEF LaterAnswer, LaterAnswerLeaves, Run
      <3> QED BY <1>6, <3>2 DEF LaterAnswer, LaterAnswerLeaves, TypeOK
    <2>2. Parts'
      BY <1>6 DEF LaterAnswer, LaterAnswerLeaves, TypeOK, Run, OneProcess, Alive, Watched,
                  Counted, Answered, FatalHasReason, StopHasReason, Reason
    <2> QED BY <2>1, <2>2
  <1>7. CASE ProbeFailsInGrace
    <2>1. TypeOK'
      <3>1. run \in Run /\ Missed \in 0..Failures
        BY DEF TypeOK, Run, Missed
      <3>2. run' \in Run
        BY <1>7, <3>1 DEF ProbeFailsInGrace, ProbeFailsEarly, Run
      <3> QED BY <1>7, <3>2 DEF ProbeFailsInGrace, ProbeFailsEarly, TypeOK
    <2>2. Parts'
      BY <1>7 DEF ProbeFailsInGrace, ProbeFailsEarly, Missed, TypeOK, Run, OneProcess, Alive,
                  Watched, Counted, Answered, FatalHasReason, StopHasReason, Reason
    <2> QED BY <2>1, <2>2
  <1>8. CASE ProbeFails
    <2>1. TypeOK'
      <3>1. run \in Run /\ run.failed < Failures
        BY <1>8 DEF ProbeFails, ProbeFailsUpTo, Watched, TypeOK
      <3>2. run.failed + 1 \in 0..Failures /\ Missed \in 0..Failures
        BY <3>1 DEF Missed, Run
      <3>3. (run.failed + 1 >= Failures) \in BOOLEAN
        OBVIOUS
      <3>4. run' \in Run
        BY <1>8, <3>1, <3>2, <3>3 DEF ProbeFails, ProbeFailsUpTo, Run
      <3> QED BY <1>8, <3>4 DEF ProbeFails, ProbeFailsUpTo, TypeOK
    <2>2. Parts'
      BY <1>8 DEF ProbeFails, ProbeFailsUpTo, Missed, TypeOK, Run, OneProcess, Alive,
                  Watched, Counted, Answered, FatalHasReason, StopHasReason, Reason
    <2> QED BY <2>1, <2>2
  <1> QED BY <1>1, <1>2, <1>3, <1>4, <1>5, <1>6, <1>7, <1>8 DEF Watch

(* The child, the clock and the shutdown keep it. *)
LEMMA EnvironmentInv == IndInv /\ Environment => IndInv'
  <1> SUFFICES ASSUME IndInv, Environment PROVE IndInv'
    OBVIOUS
  <1> USE FailuresAssumption, MaxStartsAssumption
  <1> USE DEF IndInv, task
  <1> DEFINE Parts == /\ OneProcess /\ Watched /\ Counted
                      /\ Answered /\ FatalHasReason /\ StopHasReason
  <1>1. ASSUME NEW c \in {"ready", "stuck", "dead"}, Alive, ChildBecomes(c)
        PROVE  TypeOK' /\ Parts'
    BY <1>1 DEF ChildBecomes, TypeOK, OneProcess, Alive, Watched, Counted, Answered,
                FatalHasReason, StopHasReason, Reason
  <1>2. CASE ChildReady
    BY <1>1, <1>2 DEF ChildReady, Alive
  <1>3. CASE ChildStuck
    BY <1>1, <1>3 DEF ChildStuck, Alive
  <1>4. CASE ChildDies
    BY <1>1, <1>4 DEF ChildDies
  <1>5. CASE GraceOver
    <2>1. TypeOK'
      BY <1>5 DEF GraceOver, TypeOK, Run
    <2>2. Parts'
      BY <1>5 DEF GraceOver, TypeOK, Run, OneProcess, Alive, Watched, Counted, Answered,
                  FatalHasReason, StopHasReason, Reason
    <2> QED BY <2>1, <2>2
  <1>6. CASE LongRun
    <2>1. TypeOK'
      BY <1>6 DEF LongRun, TypeOK, Run
    <2>2. Parts'
      BY <1>6 DEF LongRun, TypeOK, Run, OneProcess, Alive, Watched, Counted, Answered,
                  FatalHasReason, StopHasReason, Reason
    <2> QED BY <2>1, <2>2
  <1>7. CASE HubStops
    BY <1>7 DEF HubStops, TypeOK, OneProcess, Alive, Watched, Counted, Answered,
                FatalHasReason, StopHasReason, Reason
  <1> QED BY <1>2, <1>3, <1>4, <1>5, <1>6, <1>7 DEF Environment

LEMMA StutterInv == IndInv /\ UNCHANGED vars => IndInv'
  BY DEF IndInv, vars, task, TypeOK, OneProcess, Alive, Watched, Counted, Answered,
         FatalHasReason, StopHasReason, Reason

(* The inductive invariant holds in every reachable state. *)
THEOREM Invariant == Spec => []IndInv
  <1>1. IndInv /\ [Next]_vars => IndInv'
    BY SuperviseInv, WatchInv, EnvironmentInv, StutterInv DEF Next
  <1> QED BY InitInv, <1>1, PTL DEF Spec

(* Type correctness: the counters of the watcher stay in their range. *)
THEOREM TypeCorrect == Spec => []TypeOK
  <1>1. IndInv => TypeOK
    BY DEF IndInv
  <1> QED BY Invariant, <1>1, PTL

(* Two processes of one engine never exist at the same time. *)
THEOREM AtMostOneProcess == Spec => []OneProcess
  <1>1. IndInv => OneProcess
    BY DEF IndInv
  <1> QED BY Invariant, <1>1, PTL

(* A child is only stopped for a hang that Failures probes in a row saw,   *)
(* or for the replacement that its spec asks for.                          *)
THEOREM EveryStopDeserved == Spec => []DeservedStop
  <1>1. IndInv => DeservedStop
    BY DEF IndInv, StopHasReason, Answered, Reason, DeservedStop
  <1> QED BY Invariant, <1>1, PTL

-----------------------------------------------------------------------------
(* Supervisor implements SupervisedRuns, with up for Alive and the phases  *)
(* of the loop for pc.                                                     *)

LEMMA InitImplements == Init => Runs!RunsInit
  BY DEF Init, Runs!RunsInit, Phase, Alive, NoOutcome, Runs!NoOutcome

LEMMA StepImplements == IndInv /\ [Next]_vars => [Runs!RunsNext]_(Runs!runsVars)
  <1> SUFFICES ASSUME IndInv, [Next]_vars PROVE [Runs!RunsNext]_(Runs!runsVars)
    OBVIOUS
  <1> USE FailuresAssumption, MaxStartsAssumption
  <1> DEFINE Same == UNCHANGED <<Phase, spec, last, starts, Alive>>
  <1>1. ASSUME Same PROVE UNCHANGED Runs!runsVars
    BY <1>1 DEF Runs!runsVars
  <1>2. ASSUME NEW s \in ChildSpec, Plan(s) PROVE Runs!Answer(s)
    BY <1>2 DEF Plan, Runs!Answer, Phase, Alive
  <1>3. CASE LeaveLoop
    <2>1. Runs!Close
      BY <1>3 DEF LeaveLoop, Runs!Close, Phase, Alive, IndInv, OneProcess
    <2> QED BY <2>1 DEF Runs!RunsNext, Runs!RunsStep
  <1>4. CASE Spawn
    <2>1. Runs!Start
      BY <1>4 DEF Spawn, Runs!Start, Phase, Alive
    <2> QED BY <2>1 DEF Runs!RunsNext, Runs!RunsStep
  <1>5. CASE SpawnFails
    <2>1. Runs!NoStart
      BY <1>5 DEF SpawnFails, Runs!NoStart, Phase, Alive, SpawnFailed, Runs!SpawnFailed
    <2> QED BY <2>1 DEF Runs!RunsNext, Runs!RunsStep
  <1>6. CASE ChildExited
    <2> DEFINE o == [ended |-> "Exited", healthy |-> run.healthy, long |-> run.long]
    <2>1. o \in Runs!RunOutcome
      BY DEF IndInv, TypeOK, Run, Runs!RunOutcome, Runs!Ended
    <2>2. Runs!Possible(o, spec)
      BY <1>6 DEF ChildExited, Runs!Possible, IndInv, Answered
    <2>3. Runs!Finish(o)
      BY <1>6, <2>2 DEF ChildExited, EndRun, EndRunWith, Runs!Finish, Phase, Alive
    <2> QED BY <2>1, <2>3 DEF Runs!RunsNext, Runs!RunsStep
  <1>7. CASE Terminated
    <2> DEFINE o == [ended |-> ended, healthy |-> run.healthy, long |-> run.long]
    <2>1. o \in Runs!RunOutcome
      BY DEF IndInv, TypeOK, Run, Ended, Runs!RunOutcome, Runs!Ended
    <2>2. Runs!Possible(o, spec)
      BY <1>7 DEF Terminated, Runs!Possible, IndInv, Answered, StopHasReason, Reason
    <2>3. Runs!Finish(o)
      BY <1>7, <2>2 DEF Terminated, EndRun, EndRunWith, Runs!Finish, Phase, Alive
    <2> QED BY <2>1, <2>3 DEF Runs!RunsNext, Runs!RunsStep
  <1>8. CASE FatalRun
    BY <1>1, <1>8 DEF FatalRun, Phase, Alive
  <1>9. CASE CancelRun
    BY <1>1, <1>9 DEF CancelRun, CancelRunIf, Phase, Alive
  <1>10. CASE Stopped
    <2>1. Runs!Close
      BY <1>10 DEF Stopped, Runs!Close, Phase, Alive
    <2> QED BY <2>1 DEF Runs!RunsNext, Runs!RunsStep
  <1>11. CASE AskSource \/ DelayOver
    BY <1>1, <1>11 DEF AskSource, DelayOver, Phase, Alive
  <1>12. CASE CancelDelay
    <2>1. Runs!Close
      BY <1>12 DEF CancelDelay, Runs!Close, Phase, Alive, IndInv, OneProcess
    <2> QED BY <2>1 DEF Runs!RunsNext, Runs!RunsStep
  <1>13. CASE Watch
    <2>1. UNCHANGED <<task, cancel, child>>
      BY <1>13 DEF Watch, WatchTo, WatchStarts, WatchdogDisabled, WatchCancelled, ProbeSent,
                   FirstAnswer, MarkReplace, FireReplace, LaterAnswer, LaterAnswerLeaves,
                   ProbeFailsInGrace, ProbeFailsEarly, ProbeFails, ProbeFailsUpTo
    <2> QED BY <1>1, <2>1 DEF task, Phase, Alive
  <1>14. CASE ChildDies
    <2>1. Runs!Die
      BY <1>14 DEF ChildDies, ChildBecomes, Runs!Die, task, Phase, Alive
    <2> QED BY <2>1 DEF Runs!RunsNext, Runs!RunsStep
  <1>15. CASE ChildReady \/ ChildStuck
    BY <1>1, <1>15 DEF ChildReady, ChildStuck, ChildBecomes, task, Phase, Alive
  <1>16. CASE GraceOver \/ LongRun \/ HubStops
    BY <1>1, <1>16 DEF GraceOver, LongRun, HubStops, task, Phase, Alive
  <1>17. CASE UNCHANGED vars
    BY <1>1, <1>17 DEF vars, task, Phase, Alive
  <1>18. ASSUME NEW s \in ChildSpec, Plan(s) PROVE Runs!RunsNext
    BY <1>2, <1>18 DEF Runs!RunsNext, ChildSpec, Runs!ChildSpec
  <1> QED
    BY <1>3, <1>4, <1>5, <1>6, <1>7, <1>8, <1>9, <1>10, <1>11, <1>12, <1>13, <1>14, <1>15,
       <1>16, <1>17, <1>18 DEF Next, Supervise, Environment

(* To its source and to the slot cache, the supervisor with its watcher,   *)
(* flags and tokens is a sequence of single, truly reported runs.          *)
THEOREM Implements == Spec => ImplementsRuns
  <1> QED
    BY InitImplements, StepImplements, Invariant, PTL DEF Spec, ImplementsRuns, Runs!RunsSpec
=============================================================================
