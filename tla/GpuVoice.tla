------------------------------ MODULE GpuVoice ------------------------------
(***************************************************************************)
(* The speech engines and their lock (src/src/gpu.rs, Voice in             *)
(* src/src/wyoming/mod.rs).  Every Wyoming connection runs its own task.   *)
(* A speech-to-text call runs parakeet.cpp in this process, on a blocking  *)
(* thread that owns the lock.  A text-to-speech call holds the lock while  *)
(* it waits for audiocpp_server, 120 s at most.  The results of engines on *)
(* the GPU are counted; three faults in a row make the hub exit.           *)
(***************************************************************************)
EXTENDS Naturals, FiniteSets, Sequences, SequencesExt

CONSTANTS
    SttCalls,   \* calls of Voice::transcribe, in any order and any overlap
    TtsCalls,   \* calls of Voice::synthesize
    None        \* no holder

Calls == SttCalls \cup TtsCalls

ASSUME CallsAssumption == SttCalls \cap TtsCalls = {} /\ None \notin Calls

FAULT_THRESHOLD == 3

(* How a call of an engine ends: with an answer, with an error that has a  *)
(* sign of a dead GPU, with any other error.                               *)
Result == {"ok", "fault", "other"}

VARIABLES
    onGpu,    \* Gpu.stt_on_gpu and Gpu.tts_on_gpu, as sets of calls
    call,     \* where each call is
    queue,    \* the calls that wait for the lock, first come first served
    holder,   \* who holds the lock
    jobs,     \* the calls whose work runs in an engine
    result,   \* of a call, when its engine has answered
    faults,   \* Gpu.faults
    lost,     \* the token lost
    log       \* history: the counted calls with their results

vars == <<onGpu, call, queue, holder, jobs, result, faults, lost, log>>

TypeOK ==
    /\ onGpu \in SUBSET Calls
    /\ call \in [Calls -> {"new", "waiting", "working", "report", "answered", "busy", "timed_out"}]
    /\ queue \in Seq(Calls)
    /\ holder \in Calls \cup {None}
    /\ jobs \in SUBSET Calls
    /\ result \in [Calls -> Result]
    /\ faults \in Nat
    /\ lost \in BOOLEAN
    /\ log \in Seq(Calls \X Result)

Init ==
    /\ onGpu \in {{}, SttCalls, TtsCalls, Calls}
    /\ call = [c \in Calls |-> "new"]
    /\ queue = <<>>
    /\ holder = None
    /\ jobs = {}
    /\ result = [c \in Calls |-> "other"]
    /\ faults = 0
    /\ lost = FALSE
    /\ log = <<>>

-----------------------------------------------------------------------------
(* Gpu::acquire: tokio's mutex is fair. *)
Ask(c) ==
    /\ call[c] = "new"
    /\ call' = [call EXCEPT ![c] = "waiting"]
    /\ queue' = Append(queue, c)
    /\ UNCHANGED <<onGpu, holder, jobs, result, faults, lost, log>>

(* Mutant: synthesize does not take the lock. *)
AcquireForStt(c) ==
    /\ call[c] = "waiting"
    /\ c = Head(queue)
    /\ holder = None \/ c \in TtsCalls
    /\ holder' = c
    /\ queue' = Tail(queue)
    /\ call' = [call EXCEPT ![c] = "working"]
    /\ jobs' = jobs \cup {c}
    /\ UNCHANGED <<onGpu, result, faults, lost, log>>

(* The call gets the lock and gives its work to the engine. *)
Acquire(c) ==
    /\ call[c] = "waiting"
    /\ c = Head(queue)
    /\ holder = None
    /\ holder' = c
    /\ queue' = Tail(queue)
    /\ call' = [call EXCEPT ![c] = "working"]
    /\ jobs' = jobs \cup {c}
    /\ UNCHANGED <<onGpu, result, faults, lost, log>>

(* LOCK_TIMEOUT: the call fails with "GPU busy", which counts nothing. *)
Busy(c) ==
    /\ call[c] = "waiting"
    /\ holder # None \/ c # Head(queue)
    /\ call' = [call EXCEPT ![c] = "busy"]
    /\ \E i \in DOMAIN queue : queue[i] = c /\ queue' = RemoveAt(queue, i)
    /\ UNCHANGED <<onGpu, holder, jobs, result, faults, lost, log>>

(* Mutant: a success leaves the count. *)
CountOnlyUp(c, r) ==
    /\ log' = Append(log, <<c, r>>)
    /\ faults' = IF c \in onGpu /\ r = "fault" THEN faults + 1 ELSE faults
    /\ lost' = (lost \/ (faults' > faults /\ faults' >= FAULT_THRESHOLD))

(* Mutant: a success takes one fault back. *)
CountDown(c, r) ==
    /\ log' = Append(log, <<c, r>>)
    /\ faults' = CASE c \in onGpu /\ r = "ok"    -> faults - 1
                   [] c \in onGpu /\ r = "fault" -> faults + 1
                   [] OTHER                      -> faults
    /\ lost' = (lost \/ (faults' > faults /\ faults' >= FAULT_THRESHOLD))

(* Gpu::success and Gpu::failure. *)
Count(c, r) ==
    /\ log' = Append(log, <<c, r>>)
    /\ faults' = CASE c \in onGpu /\ r = "ok"    -> 0
                   [] c \in onGpu /\ r = "fault" -> faults + 1
                   [] OTHER                      -> faults
    /\ lost' = (lost \/ (faults' > faults /\ faults' >= FAULT_THRESHOLD))

(* The transcription ends.  The blocking thread drops the lock; the task   *)
(* of the connection learns the result later.                              *)
SttEnds(c, r) ==
    /\ c \in SttCalls /\ call[c] = "working"
    /\ call' = [call EXCEPT ![c] = "report"]
    /\ jobs' = jobs \ {c}
    /\ holder' = None
    /\ result' = [result EXCEPT ![c] = r]
    /\ UNCHANGED <<onGpu, queue, faults, lost, log>>

SttReports(c) ==
    /\ call[c] = "report"
    /\ call' = [call EXCEPT ![c] = "answered"]
    /\ Count(c, result[c])
    /\ UNCHANGED <<onGpu, queue, holder, jobs, result>>

(* The blocking thread panics: the task gets a JoinError and returns       *)
(* before it counts anything.                                              *)
SttPanics(c) ==
    /\ c \in SttCalls /\ call[c] = "working"
    /\ call' = [call EXCEPT ![c] = "answered"]
    /\ jobs' = jobs \ {c}
    /\ holder' = None
    /\ UNCHANGED <<onGpu, queue, result, faults, lost, log>>

(* audiocpp_server answers: the task counts, then drops the lock. *)
TtsEnds(c, r) ==
    /\ c \in TtsCalls /\ call[c] = "working"
    /\ call' = [call EXCEPT ![c] = "answered"]
    /\ jobs' = jobs \ {c}
    /\ holder' = None
    /\ result' = [result EXCEPT ![c] = r]
    /\ Count(c, r)
    /\ UNCHANGED <<onGpu, queue>>

(* Mutant: the limit is for the connection only, not for the answer. *)
ConnectTimesOut(c) ==
    /\ c \in TtsCalls \ jobs /\ call[c] = "working"
    /\ call' = [call EXCEPT ![c] = "timed_out"]
    /\ holder' = None
    /\ Count(c, "fault")
    /\ UNCHANGED <<onGpu, queue, jobs, result>>

(* No answer in 120 s: a fault.  The task drops the lock.  audiocpp_server *)
(* does not hear of it, so its job goes on until it ends.                  *)
TtsTimesOut(c) ==
    /\ c \in TtsCalls /\ call[c] = "working"
    /\ call' = [call EXCEPT ![c] = "timed_out"]
    /\ holder' = None
    /\ Count(c, "fault")
    /\ UNCHANGED <<onGpu, queue, jobs, result>>

(* A job that nobody waits for ends. *)
LeftoverEnds(c) ==
    /\ c \in jobs /\ call[c] = "timed_out"
    /\ jobs' = jobs \ {c}
    /\ UNCHANGED <<onGpu, call, queue, holder, result, faults, lost, log>>

Next ==
    \E c \in Calls :
        \/ Ask(c) \/ Acquire(c) \/ Busy(c)
        \/ \E r \in Result : SttEnds(c, r) \/ TtsEnds(c, r)
        \/ SttReports(c) \/ SttPanics(c)
        \/ TtsTimesOut(c) \/ LeftoverEnds(c)

Spec == Init /\ [][Next]_vars

-----------------------------------------------------------------------------
(* The engines never work at the same time, except for a job that          *)
(* audiocpp_server still runs after its call gave up.                      *)
Exclusion == Cardinality({c \in jobs : call[c] # "timed_out"}) <= 1

(* What gpu.rs says: only one of the two engines uses the GPU at a time. *)
DocumentedExclusion ==
    ~ \E s \in SttCalls, t \in TtsCalls : {s, t} \subseteq jobs \cap onGpu

(* The hub gives the GPU up exactly after three faults in a row of the     *)
(* engines that run on it, in the order in which the tasks count.  A slow  *)
(* CPU, an error of another kind and a success of an engine on the CPU     *)
(* change nothing.                                                         *)
Faulty(e)   == e[1] \in onGpu /\ e[2] = "fault"
Restored(e) == e[1] \in onGpu /\ e[2] = "ok"

ThreeFaults ==
    \E i, j, k \in DOMAIN log :
        /\ i < j /\ j < k
        /\ Faulty(log[i]) /\ Faulty(log[j]) /\ Faulty(log[k])
        /\ \A m \in i..k : ~Restored(log[m])

LostAfterThree == lost <=> ThreeFaults
=============================================================================
