------------------------------ MODULE SlotCache -----------------------------
(***************************************************************************)
(* The prompt cache on disk (src/src/llm/slots.rs): the periodic task run, *)
(* save_now at the shutdown (src/src/main.rs), and the engine that         *)
(* executes their save and restore calls one after the other, never while  *)
(* a request runs in the slot.                                             *)
(*                                                                         *)
(* A conversation is a number: the engine's slot and each file hold 0 (no  *)
(* conversation), 1 (the one saved before this start of the hub) or the    *)
(* number of a request since.  There is one slot, with Assist-sized        *)
(* prompts only.  A file of ik_llama.cpp is a set of two: the slot file    *)
(* and what stands here for its two sidecars.                              *)
(*                                                                         *)
(* The engine is that of SupervisedRuns: live and starts are its up and    *)
(* starts, and active changes only while the engine is down                *)
(* (LlmSupervisor).  It starts 2 s after a stop at the earliest, by then a *)
(* task has acted on its last answer (EngineSpawned), and is ready a model *)
(* load later, by then the task has done with it (EngineReady).            *)
(***************************************************************************)
EXTENDS Integers, Sequences

CONSTANTS
    Kinds,        \* engines that may run
    MaxStarts,    \* bound: starts of the engine
    MaxRequests   \* bound: requests that change the conversation

ASSUME KindsAssumption == Kinds \subseteq {"LlamaCpp", "Ik"} /\ Kinds # {}
ASSUME BoundsAssumption == MaxStarts \in Nat \ {0} /\ MaxRequests \in Nat

Tasks == {"run", "save_now"}

Conversation == 0..MaxRequests + 1

(* A slot file; a whole one was written to its end. *)
File   == [by: Kinds, of: Conversation, whole: BOOLEAN]
NoFile == [by |-> "None", of |-> 0, whole |-> FALSE]
NoTask == -1

VARIABLES
    hub,        \* main: running, saving (save_now), stopping, over, killed
    active,     \* ActiveEngine
    starts,     \* ChildSpec.starts
    eng,        \* the engine process: see Engine
    made,       \* requests so far
    work,       \* the engine's queue of save and restore calls
    writing,    \* the save that the engine writes: where its open file is
    disk,       \* per engine: FILE, FILE.tmp and the sidecars of both
    at,         \* where each task is
    got,        \* the answer to its call, not yet read
    kind,       \* the engine whose file the task uses (fn file)
    picked,     \* id_task of the slot that the task picked
    start, restored_start, last_task    \* locals of run

locals == <<kind, picked, start, restored_start, last_task>>
supply == <<active, starts, made>>
vars   == <<hub, supply, eng, work, writing, disk, at, got, locals>>

(* live: the kind of the process, or None.  ready: it answers.  of and     *)
(* task: the conversation and id_task of slot 0.  restores is history: the *)
(* restores that this start executed.                                      *)
Engine == [live: Kinds \cup {"None"}, ready: BOOLEAN, processing: BOOLEAN,
           of: Conversation, task: 0..MaxRequests, restores: Nat]

Down == [live |-> "None", ready |-> FALSE, processing |-> FALSE,
         of |-> 0, task |-> 0, restores |-> 0]

(* What bears the name of one engine's file.  side and tside are the       *)
(* conversations of the sidecars.                                          *)
Names  == [file: File \cup {NoFile}, side: Conversation,
           tmp: File \cup {NoFile}, tside: Conversation]
NoNames == [file |-> NoFile, side |-> 0, tmp |-> NoFile, tside |-> 0]

Job == [op: {"save", "restore"}, by: Tasks, kind: Kinds, waited: BOOLEAN]
NotWriting == [kind |-> "None", where |-> "nowhere"]

TypeOK ==
    /\ hub \in {"running", "saving", "stopping", "over", "killed"}
    /\ active \in Kinds /\ starts \in 0..MaxStarts /\ made \in 0..MaxRequests
    /\ eng \in Engine
    /\ work \in Seq(Job)
    /\ writing \in [kind: Kinds, where: {"tmp", "file", "unlinked"}] \cup {NotWriting}
    /\ disk \in [Kinds -> Names]
    /\ at \in [Tasks -> {"rest", "ended", "health", "busy", "restore", "pick",
                         "save", "clear", "move", "side"}]
    /\ got \in [Tasks -> {"none", "ok", "busy", "empty", "refused", "failed", "timeout"}]
    /\ kind \in [Tasks -> Kinds] /\ picked \in [Tasks -> 0..MaxRequests]
    /\ start \in 0..MaxStarts /\ restored_start \in 0..MaxStarts
    /\ last_task \in {NoTask} \cup 0..MaxRequests

Sided(k, c) == IF k = "Ik" THEN c ELSE 0

(* On disk: nothing, a good file, or one that the engine cannot read (of   *)
(* another model or context size).                                         *)
Init ==
    /\ hub = "running"
    /\ active \in Kinds /\ starts = 0 /\ made = 0
    /\ eng = Down /\ work = <<>> /\ writing = NotWriting
    /\ \E f \in {NoFile} \cup {[by |-> active, of |-> 1, whole |-> w] : w \in BOOLEAN} :
           disk = [k \in Kinds |-> IF k # active THEN NoNames
                       ELSE [NoNames EXCEPT !.file = f, !.side = Sided(k, f.of)]]
    /\ at = [a \in Tasks |-> "rest"] /\ got = [a \in Tasks |-> "none"]
    /\ kind = [a \in Tasks |-> active] /\ picked = [a \in Tasks |-> 0]
    /\ start = 0 /\ restored_start = 0 /\ last_task = NoTask

Running == hub \notin {"over", "killed"}

-----------------------------------------------------------------------------
(* The tasks.  A call is sent (at), answered (got) and read; what the task *)
(* does up to its next await is one step.                                  *)

Goto(a, l) == at' = [at EXCEPT ![a] = l] /\ got' = [got EXCEPT ![a] = "none"]

(* run goes back to its loop; save_now returns. *)
Leave(a) == Goto(a, IF a = "run" THEN "rest" ELSE "ended")

Read(a, l) == Running /\ at[a] = l /\ got[a] # "none"

(* The path of the call has the name of the file as it is now.  If the     *)
(* engine has stopped since its last answer, its port refuses the call.    *)
Send(a, op) ==
    /\ at' = [at EXCEPT ![a] = op]
    /\ got' = [got EXCEPT ![a] = IF eng.ready THEN "none" ELSE "failed"]
    /\ kind' = [kind EXCEPT ![a] = active]
    /\ work' = IF eng.ready
               THEN Append(work, [op |-> op, by |-> a, kind |-> active, waited |-> TRUE])
               ELSE work

Poll(l) ==
    /\ at["run"] = "rest"
    /\ Goto("run", l)
    /\ start' = starts
    /\ UNCHANGED <<hub, supply, eng, work, writing, disk, kind, picked, restored_start, last_task>>

(* run: the poll sees a start that it has not handled; or none, and a save *)
(* is due; or that the token is cancelled, which it sees nowhere else.     *)
PollStart == hub = "running" /\ starts # restored_start /\ Poll("health")
PollSave  == hub = "running" /\ starts = restored_start /\ starts # 0 /\ Poll("pick")
PollEnds  == hub \in {"saving", "stopping"} /\ Poll("ended")

HealthRead(a) ==
    /\ Read(a, "health")
    /\ IF got[a] = "ok"
       THEN Goto(a, IF a = "run" THEN "busy" ELSE "pick")
       ELSE Leave(a)
    /\ UNCHANGED <<hub, supply, eng, work, writing, disk, locals>>

HandledUpTo(s) == restored_start' = s /\ last_task' = NoTask

(* Mutants: the start is not marked as handled, or the next one is. *)
HandledForgotten == HandledUpTo(restored_start)
HandledNext      == HandledUpTo(start + 1)

(* The end of the part of run that handles a start. *)
Handled == HandledUpTo(start)

(* run: busy has an answer.  With an idle slot, restore starts. *)
BusyRead ==
    /\ Read("run", "busy")
    /\ \/ /\ got["run"] = "failed"
          /\ Leave("run")
          /\ UNCHANGED <<work, locals>>
       \/ /\ got["run"] = "busy" \/ (got["run"] # "failed" /\ disk[active].file = NoFile)
          /\ Leave("run") /\ Handled
          /\ UNCHANGED <<work, kind, picked, start>>
       \/ /\ got["run"] \in {"ok", "empty"} /\ disk[active].file # NoFile
          /\ Send("run", "restore")
          /\ UNCHANGED <<picked, start, restored_start, last_task>>
    /\ UNCHANGED <<hub, supply, eng, writing, disk>>

(* remove_with_sidecars: FILE and every FILE.*, so FILE.tmp too. *)
Remove(k) ==
    /\ disk' = [disk EXCEPT ![k] = NoNames]
    /\ writing' = IF writing.kind = k THEN [writing EXCEPT !.where = "unlinked"] ELSE writing

RestoreReadKeeping(answers) ==
    /\ Read("run", "restore")
    /\ Leave("run") /\ Handled
    /\ IF got["run"] \in answers THEN UNCHANGED <<disk, writing>> ELSE Remove(kind["run"])
    /\ UNCHANGED <<hub, supply, eng, work, kind, picked, start>>

(* Mutant: a call that the engine's end broke says the file is bad. *)
RestoreReadStrict == RestoreReadKeeping({"ok"})

(* restore has its answer.  An engine that stopped says nothing about the  *)
(* file; a refusal or a timeout removes it.                                *)
RestoreRead == RestoreReadKeeping({"ok", "failed"})

(* pick_slot has its answer.  run saves a slot with a new task only. *)
PickRead(a) ==
    /\ Read(a, "pick")
    /\ IF got[a] = "ok" /\ (a = "run" => picked[a] # last_task)
       THEN Send(a, "save")
       ELSE Leave(a) /\ UNCHANGED <<work, kind>>
    /\ UNCHANGED <<hub, supply, eng, writing, disk, picked, start, restored_start, last_task>>

SaveRead(a) ==
    /\ Read(a, "save")
    /\ IF got[a] = "ok" THEN Goto(a, "clear") ELSE Leave(a)
    /\ UNCHANGED <<hub, supply, eng, work, writing, disk, locals>>

(* move_with_sidecars, in three awaits: the sidecars of the old file go,   *)
(* FILE.tmp becomes FILE, the sidecars of FILE.tmp follow.                 *)
ClearOld(a) ==
    /\ Running /\ at[a] = "clear"
    /\ disk' = [disk EXCEPT ![kind[a]].side = 0]
    /\ Goto(a, "move")
    /\ UNCHANGED <<hub, supply, eng, work, writing, locals>>

(* A rename moves the name; a file that the engine has open stays open. *)
MoveTo(a, to) ==
    /\ Running /\ at[a] = "move"
    /\ LET k == kind[a]
           f == disk[k].tmp
       IN  IF f = NoFile
           THEN Leave(a) /\ UNCHANGED <<disk, writing>>
           ELSE /\ disk' = [[disk EXCEPT ![k].tmp = NoFile] EXCEPT ![to].file = f]
                /\ writing' = IF writing.kind # k THEN writing
                              ELSE [writing EXCEPT !.where = IF @ = "tmp" THEN "file" ELSE "unlinked"]
                /\ Goto(a, "side")
    /\ UNCHANGED <<hub, supply, eng, work, locals>>

(* Mutant: the file name is made again, for the engine of now. *)
MoveToActive(a) == MoveTo(a, active)

Move(a) == MoveTo(a, kind[a])

MoveSideOf(a, t) ==
    /\ Running /\ at[a] = "side"
    /\ disk' = [disk EXCEPT ![kind[a]].side = disk[kind[a]].tside, ![kind[a]].tside = 0]
    /\ last_task' = IF a = "run" THEN t ELSE last_task
    /\ Leave(a)
    /\ UNCHANGED <<hub, supply, eng, work, writing, kind, picked, start, restored_start>>

(* Mutant: run remembers the task that the slot has after the save. *)
MoveSideNewest(a) == MoveSideOf(a, eng.task)

MoveSide(a) == MoveSideOf(a, picked[a])

-----------------------------------------------------------------------------
(* The engine. *)

Answer(a, labels, r) ==
    /\ Running
    /\ at[a] \in labels /\ got[a] = "none"
    /\ got' = [got EXCEPT ![a] = r]
    /\ UNCHANGED <<hub, supply, eng, writing, disk, at, kind, start, restored_start, last_task>>

(* The answers to GET /health and GET /slots. *)
AnswerHealth(a) == eng.ready /\ Answer(a, {"health"}, "ok") /\ UNCHANGED <<work, picked>>

AnswerSlots(a) ==
    /\ eng.ready
    /\ Answer(a, {"busy", "pick"}, IF eng.processing THEN "busy"
                                   ELSE IF eng.of = 0 THEN "empty" ELSE "ok")
    /\ picked' = [picked EXCEPT ![a] = eng.task]
    /\ UNCHANGED work

(* A GET fails: the engine loads its model, is down, or is late under the  *)
(* load of a request.                                                      *)
GetFails(a) ==
    /\ ~eng.ready \/ eng.processing
    /\ Answer(a, {"health", "busy", "pick"}, "failed")
    /\ UNCHANGED <<work, picked>>

Waited(a) == \E i \in DOMAIN work : work[i].by = a /\ work[i].waited

(* The timeout of a save or restore call: a request is in its way, or the  *)
(* engine never answers it.  The engine keeps the job.                     *)
CallTimesOut(a) ==
    /\ eng.processing \/ ~Waited(a)
    /\ Answer(a, {"save", "restore"}, "timeout")
    /\ work' = [i \in DOMAIN work |->
                   IF work[i].by = a THEN [work[i] EXCEPT !.waited = FALSE] ELSE work[i]]
    /\ UNCHANGED picked

Idle == Running /\ eng.ready /\ ~eng.processing /\ writing = NotWriting

Done(job, r) ==
    /\ work' = Tail(work)
    /\ got' = IF job.waited THEN [got EXCEPT ![job.by] = r] ELSE got

(* The engine executes a restore.  llama.cpp refuses a file that it cannot *)
(* read; ik_llama.cpp never answers then.  Without its sidecars, a file of *)
(* ik_llama.cpp gives no conversation that can be used.                    *)
RestoreRuns ==
    /\ Idle /\ work # <<>> /\ Head(work).op = "restore"
    /\ LET n == disk[Head(work).kind]
           readable == n.file.whole /\ n.file.by = eng.live
           usable == n.side = Sided(eng.live, n.file.of)
       IN  /\ Done(Head(work), IF readable THEN "ok"
                               ELSE IF eng.live = "LlamaCpp" THEN "refused" ELSE "none")
           /\ eng' = [eng EXCEPT !.restores = @ + 1,
                         !.task = IF readable THEN 0 ELSE @,
                         !.of = IF readable THEN IF usable THEN n.file.of ELSE 0 ELSE @]
    /\ UNCHANGED <<hub, supply, writing, disk, at, locals>>

(* The engine opens FILE.tmp, which empties it, and begins to write. *)
SaveOpens ==
    /\ Idle /\ work # <<>> /\ Head(work).op = "save"
    /\ LET k == Head(work).kind
       IN  /\ disk' = [disk EXCEPT ![k].tmp = [by |-> eng.live, of |-> eng.of, whole |-> FALSE]]
           /\ writing' = [kind |-> k, where |-> "tmp"]
    /\ UNCHANGED <<hub, supply, eng, work, at, got, locals>>

(* The file is whole, wherever it is by now, and the sidecars of FILE.tmp  *)
(* are written.                                                            *)
SaveEnds ==
    /\ Running /\ writing # NotWriting
    /\ LET k == writing.kind
       IN  disk' = [disk EXCEPT ![k].tside = Sided(k, eng.of),
                       ![k].file.whole = @ \/ writing.where = "file",
                       ![k].tmp.whole = @ \/ writing.where = "tmp"]
    /\ Done(Head(work), "ok")
    /\ writing' = NotWriting
    /\ UNCHANGED <<hub, supply, eng, at, locals>>

RequestStarts ==
    /\ Idle /\ work = <<>> /\ made < MaxRequests
    /\ eng' = [eng EXCEPT !.processing = TRUE]
    /\ UNCHANGED <<hub, supply, work, writing, disk, at, got, locals>>

RequestEnds ==
    /\ Running /\ eng.processing
    /\ made' = made + 1
    /\ eng' = [eng EXCEPT !.processing = FALSE, !.of = made' + 1, !.task = @ + 1]
    /\ UNCHANGED <<hub, active, starts, work, writing, disk, at, got, locals>>

(* The process is gone, and with it its slot and its calls. *)
Gone ==
    /\ eng' = Down /\ work' = <<>> /\ writing' = NotWriting
    /\ got' = [a \in Tasks |->
                  IF at[a] \in {"health", "busy", "pick", "save", "restore"} /\ got[a] = "none"
                  THEN "failed" ELSE got[a]]
    /\ UNCHANGED <<supply, disk, at, locals>>

EngineStops == Running /\ eng.live # "None" /\ Gone /\ UNCHANGED hub

MayStart == hub \in {"running", "saving"} /\ eng.live = "None" /\ starts < MaxStarts

(* LlmSpecs::plan picks another engine. *)
EnginePlanned ==
    /\ MayStart
    /\ \E k \in Kinds \ {active} : active' = k
    /\ UNCHANGED <<hub, starts, made, eng, work, writing, disk, at, got, locals>>

(* No task still has an answer of the process before to act on. *)
EngineSpawned ==
    /\ MayStart
    /\ \A a \in Tasks : got[a] = "none"
    /\ starts' = starts + 1
    /\ eng' = [eng EXCEPT !.live = active]
    /\ UNCHANGED <<hub, active, made, work, writing, disk, at, got, locals>>

(* The model is loaded.  By now no task is still busy with the call that   *)
(* the process before answered last.                                       *)
EngineReady ==
    /\ Running /\ eng.live # "None" /\ ~eng.ready
    /\ \A a \in Tasks : at[a] \in {"rest", "ended", "health"} /\ got[a] = "none"
    /\ at["run"] = "health" => start = starts
    /\ eng' = [eng EXCEPT !.ready = TRUE]
    /\ UNCHANGED <<hub, supply, work, writing, disk, at, got, locals>>

-----------------------------------------------------------------------------
(* main: the shutdown, and the end of the container at any moment. *)

Shutdown ==
    /\ hub = "running" /\ hub' = "saving"
    /\ Goto("save_now", "health")
    /\ UNCHANGED <<supply, eng, work, writing, disk, locals>>

(* save_now has returned, or 8 s are over and it is dropped. *)
SaveNowOver ==
    /\ hub = "saving" /\ hub' = "stopping"
    /\ Goto("save_now", "ended")
    /\ UNCHANGED <<supply, eng, work, writing, disk, locals>>

(* children.cancel() stops the engine, and main returns. *)
ShutdownOver == hub = "stopping" /\ hub' = "over" /\ Gone

Kill == Running /\ hub' = "killed" /\ Gone

TaskStep(a) ==
    \/ HealthRead(a) \/ PickRead(a) \/ SaveRead(a)
    \/ ClearOld(a) \/ Move(a) \/ MoveSide(a)
    \/ AnswerHealth(a) \/ AnswerSlots(a) \/ GetFails(a) \/ CallTimesOut(a)

RunStep == PollStart \/ PollSave \/ PollEnds \/ BusyRead \/ RestoreRead

EngineStep == RestoreRuns \/ SaveOpens \/ SaveEnds

Next ==
    \/ \E a \in Tasks : TaskStep(a)
    \/ RunStep \/ EngineStep
    \/ RequestStarts \/ RequestEnds
    \/ EngineStops \/ EnginePlanned \/ EngineSpawned \/ EngineReady
    \/ Shutdown \/ SaveNowOver \/ ShutdownOver \/ Kill

(* A task that can go on does, and an engine that is ready and idle        *)
(* executes its queue.                                                     *)
Fairness ==
    /\ \A a \in Tasks : WF_vars(TaskStep(a))
    /\ WF_vars(RunStep)
    /\ WF_vars(EngineStep)

Spec == Init /\ [][Next]_vars
FairSpec == Spec /\ Fairness

-----------------------------------------------------------------------------
Good(k) == disk[k].file.whole /\ disk[k].side = Sided(k, disk[k].file.of)

(* Each engine's file holds that engine's format, although the engine may  *)
(* change between any two steps of a save (docs/llm.md).                   *)
OwnFormat == \A k \in Kinds : disk[k].file # NoFile => disk[k].file.by = k

(* A start of the engine gets at most one restore: a second one would put  *)
(* the saved conversation in the place of a newer one.                     *)
RestoreOnce == eng.restores <= 1

(* While the hub runs, a good file is only removed if its restore got no   *)
(* answer: not because the engine stopped, was another one by then, or     *)
(* read what a save had left half written.                                 *)
GoodFileKept ==
    [][\A k \in Kinds :
           hub = "running" /\ Good(k) /\ disk'[k].file = NoFile => got["run"] = "timeout"]_vars

(* In the end the file holds the conversation of the slot, if the engine   *)
(* stays up and idle.                                                      *)
Quiet == hub = "running" /\ eng.ready /\ ~eng.processing

ChangeIsSaved ==
    \A c \in 1..MaxRequests + 1 :
        <>[](Quiet /\ eng.of = c) => <>[](disk[active].file.of = c /\ Good(active))
=============================================================================
