--------------------------- MODULE SlotCache_proof ---------------------------
(***************************************************************************)
(* Proofs about SlotCache, for any number of starts and requests: the      *)
(* types, the format of each file, one restore for a start, and a good     *)
(* file that is kept.                                                      *)
(***************************************************************************)
EXTENDS SlotCache, SequenceTheorems, TLAPS

(* Bounds that the types of the counters rest on. *)
Bounded ==
    /\ eng.task <= made
    /\ eng.processing => made < MaxRequests
    /\ start <= starts /\ restored_start <= starts

(* The engine is the active one, and has calls only when it is ready. *)
EngineUp ==
    /\ eng.live \in {"None", active}
    /\ eng.ready => eng.live = active
    /\ ~eng.ready => eng.restores = 0 /\ work = <<>> /\ ~eng.processing /\ writing = NotWriting
    /\ \A i \in DOMAIN work : work[i].kind = active

(* The engine writes for the save call at the head of its queue, and the   *)
(* file that it has open is there under the name that the task gave it.    *)
Written ==
    writing # NotWriting =>
        /\ work # <<>> /\ work[1].op = "save"
        /\ writing.where = "tmp"  => disk[writing.kind].tmp # NoFile
        /\ writing.where = "file" => disk[writing.kind].file # NoFile

Formats == \A k \in Kinds : disk[k].file.by \in {"None", k} /\ disk[k].tmp.by \in {"None", k}

(* A restore that this start has executed, or will, is the one of the      *)
(* start that run has handled, or handles now.                             *)
Restored == eng.restores = 1 \/ \E i \in DOMAIN work : work[i].op = "restore"

Once ==
    /\ eng.restores <= 1
    /\ \A i \in DOMAIN work : work[i].op = "restore" => eng.restores = 0
    /\ \A i, j \in DOMAIN work : work[i].op = "restore" /\ work[j].op = "restore" => i = j
    /\ Restored => restored_start = starts \/ (at["run"] = "restore" /\ start = starts)

Handling == at["run"] \in {"health", "busy", "restore"}

ThisStart ==
    /\ Handling => restored_start < starts
    /\ Handling /\ eng.ready => start = starts

(* Until the shutdown, run is alone with the engine: it waits for the last *)
(* call in the queue or for none, and moves a file when there is no other  *)
(* call.  A refused restore was of a file that is not whole, and nobody    *)
(* makes it whole before run removes it.                                   *)
Alone ==
    hub = "running" =>
        /\ at["save_now"] = "rest" /\ got["save_now"] = "none"
        /\ \A i \in DOMAIN work :
              /\ work[i].by = "run"
              /\ work[i].waited => /\ i = Len(work)
                                   /\ at["run"] = work[i].op /\ got["run"] = "none"
                                   /\ kind["run"] = work[i].kind
        /\ at["run"] \in {"clear", "move", "side"} => work = <<>>
        /\ at["run"] = "save" /\ got["run"] = "ok" => work = <<>>
        /\ writing.where # "file"
        /\ at["run"] = "restore" => got["run"] \notin {"busy", "empty"}
        /\ at["run"] = "restore" /\ got["run"] = "refused" => ~disk[kind["run"]].file.whole

IndInv ==
    /\ TypeOK
    /\ Bounded
    /\ EngineUp
    /\ Written
    /\ Formats
    /\ Once
    /\ ThisStart
    /\ Alone

-----------------------------------------------------------------------------
(* The queue: a call joins it, its head leaves it, a task gives up on its  *)
(* calls.                                                                  *)
Unwaited(a) ==
    [i \in DOMAIN work |-> IF work[i].by = a THEN [work[i] EXCEPT !.waited = FALSE] ELSE work[i]]

LEMMA QueueIs ==
  ASSUME work \in Seq(Job)
  PROVE  \E n \in Nat : /\ n = Len(work) /\ DOMAIN work = 1..n
                        /\ work = <<>> <=> n = 0
                        /\ \A i \in 1..n : work[i] \in Job
                        /\ n > 0 => Head(work) = work[1]
  BY LenProperties, ElementOfSeq, EmptySeq

LEMMA QueueJoined ==
  ASSUME work \in Seq(Job), NEW n \in Nat, n = Len(work), NEW j \in Job, work' = Append(work, j)
  PROVE  /\ work' \in Seq(Job) /\ Len(work') = n + 1 /\ DOMAIN work' = 1..n + 1
         /\ work'[n + 1] = j /\ \A i \in 1..n : work'[i] = work[i]
  BY AppendProperties, LenProperties

LEMMA QueueServed ==
  ASSUME work \in Seq(Job), NEW n \in Nat, n = Len(work), n > 0, work' = Tail(work)
  PROVE  /\ work' \in Seq(Job) /\ Len(work') = n - 1 /\ DOMAIN work' = 1..n - 1
         /\ \A i \in 1..n - 1 : work'[i] = work[i + 1]
  <1>1. work # <<>>
    BY EmptySeq
  <1>2. /\ Tail(work) \in Seq(Job) /\ Len(Tail(work)) = n - 1
        /\ \A i \in 1..n - 1 : Tail(work)[i] = work[i + 1]
    BY <1>1, HeadTailProperties
  <1> QED BY <1>2, LenProperties

LEMMA QueueLeftAlone ==
  ASSUME work \in Seq(Job), NEW n \in Nat, n = Len(work), NEW a \in Tasks, work' = Unwaited(a)
  PROVE  /\ work' \in Seq(Job) /\ Len(work') = n /\ DOMAIN work' = 1..n
         /\ \A i \in 1..n : /\ work'[i].op = work[i].op /\ work'[i].by = work[i].by
                            /\ work'[i].kind = work[i].kind
                            /\ work'[i].waited => work[i].waited /\ work[i].by # a
  <1>1. DOMAIN work = 1..n /\ \A i \in 1..n : work[i] \in Job
    BY LenProperties, ElementOfSeq
  <1>2. \A i \in 1..n : work'[i] \in Job
    BY <1>1 DEF Unwaited, Job
  <1>3. DOMAIN work' = 1..n
    BY <1>1 DEF Unwaited
  <1>4. work' = [i \in 1..n |-> work'[i]]
    BY <1>1 DEF Unwaited
  <1>5. work' \in Seq(Job)
    BY <1>2, <1>4, IsASeq
  <1>6. Len(work') = n
    BY <1>3, <1>5, LenProperties
  <1>7. \A i \in 1..n : /\ work'[i].op = work[i].op /\ work'[i].by = work[i].by
                        /\ work'[i].kind = work[i].kind
                        /\ work'[i].waited => work[i].waited /\ work[i].by # a
    BY <1>1 DEF Unwaited, Job
  <1> QED BY <1>3, <1>5, <1>6, <1>7
-----------------------------------------------------------------------------
LEMMA NoConversation == 0 \in Conversation /\ NoNames \in Names
  BY BoundsAssumption DEF Conversation, NoNames, Names

(* The types, for the steps of the tasks, of the engine and of main. *)
LEMMA TaskType ==
  ASSUME IndInv, NEW a \in Tasks, TaskStep(a)
  PROVE  TypeOK'
  <1> USE DEF IndInv, TypeOK, locals, supply, Goto, Leave, Read, Answer
  <1>1. CASE HealthRead(a)
    BY <1>1 DEF HealthRead
  <1>2. CASE PickRead(a)
    <2>1. PICK n \in Nat : n = Len(work)
      BY QueueIs
    <2>2. ASSUME Send(a, "save") PROVE work' \in Seq(Job)
      <3>1. [op |-> "save", by |-> a, kind |-> active, waited |-> TRUE] \in Job
        BY DEF Job
      <3> QED BY <2>1, <2>2, <3>1, QueueJoined DEF Send
    <2> QED BY <1>2, <2>2 DEF PickRead, Send
  <1>3. CASE SaveRead(a)
    BY <1>3 DEF SaveRead
  <1>4. CASE ClearOld(a)
    <2>1. kind[a] \in Kinds
      OBVIOUS
    <2>2. disk' \in [Kinds -> Names]
      <3>1. PICK m : m = [disk[kind[a]] EXCEPT !.side = 0]
        OBVIOUS
      <3>2. m \in Names
        BY <2>1, <3>1, NoConversation DEF Names
      <3>3. disk' = [disk EXCEPT ![kind[a]] = m]
        BY <1>4, <2>1, <3>1 DEF ClearOld, Names
      <3> QED BY <3>2, <3>3
    <2> QED BY <1>4, <2>2 DEF ClearOld
  <1>5. CASE Move(a)
    <2>1. kind[a] \in Kinds
      OBVIOUS
    <2>2. writing' \in [kind: Kinds, where: {"tmp", "file", "unlinked"}] \cup {NotWriting}
      <3>1. NotWriting.kind # kind[a]
        BY <2>1, KindsAssumption DEF NotWriting
      <3> QED BY <1>5, <2>1, <3>1 DEF Move, MoveTo
    <2>3. disk' \in [Kinds -> Names]
      <3>1. PICK m : m = [disk[kind[a]] EXCEPT !.tmp = NoFile, !.file = disk[kind[a]].tmp]
        OBVIOUS
      <3>2. m \in Names
        BY <2>1, <3>1 DEF Names
      <3>3. disk' = disk \/ disk' = [disk EXCEPT ![kind[a]] = m]
        BY <1>5, <2>1, <3>1 DEF Move, MoveTo, Names
      <3> QED BY <3>2, <3>3
    <2> QED BY <1>5, <2>2, <2>3 DEF Move, MoveTo
  <1>6. CASE MoveSide(a)
    <2>1. kind[a] \in Kinds
      OBVIOUS
    <2>2. disk' \in [Kinds -> Names]
      <3>1. PICK m : m = [disk[kind[a]] EXCEPT !.side = disk[kind[a]].tside, !.tside = 0]
        OBVIOUS
      <3>2. m \in Names
        BY <2>1, <3>1, NoConversation DEF Names
      <3>3. disk' = [disk EXCEPT ![kind[a]] = m]
        BY <1>6, <2>1, <3>1 DEF MoveSide, MoveSideOf, Names
      <3> QED BY <3>2, <3>3
    <2> QED BY <1>6, <2>2 DEF MoveSide, MoveSideOf
  <1>7. CASE AnswerHealth(a) \/ GetFails(a)
    BY <1>7 DEF AnswerHealth, GetFails
  <1>8. CASE AnswerSlots(a)
    BY <1>8 DEF AnswerSlots, Engine
  <1>9. CASE CallTimesOut(a)
    <2>1. PICK n \in Nat : n = Len(work)
      BY QueueIs
    <2>2. work' \in Seq(Job)
      BY <1>9, <2>1, QueueLeftAlone DEF CallTimesOut, Unwaited
    <2> QED BY <1>9, <2>2 DEF CallTimesOut
  <1> QED BY <1>1, <1>2, <1>3, <1>4, <1>5, <1>6, <1>7, <1>8, <1>9 DEF TaskStep

LEMMA RunType ==
  ASSUME IndInv, RunStep
  PROVE  TypeOK'
  <1> USE DEF IndInv, TypeOK, locals, supply, Goto, Leave, Read, Tasks
  <1>1. CASE PollStart \/ PollSave \/ PollEnds
    BY <1>1 DEF PollStart, PollSave, PollEnds, Poll
  <1>2. CASE BusyRead
    <2>1. PICK n \in Nat : n = Len(work)
      BY QueueIs
    <2>2. ASSUME Send("run", "restore") PROVE work' \in Seq(Job)
      <3>1. [op |-> "restore", by |-> "run", kind |-> active, waited |-> TRUE] \in Job
        BY DEF Job
      <3> QED BY <2>1, <2>2, <3>1, QueueJoined DEF Send
    <2> QED BY <1>2, <2>2 DEF BusyRead, Send, Handled, HandledUpTo, NoTask
  <1>3. CASE RestoreRead
    <2>1. NoNames \in Names
      BY NoConversation
    <2>2. disk' \in [Kinds -> Names] /\ writing' \in [kind: Kinds, where: {"tmp", "file", "unlinked"}] \cup {NotWriting}
      BY <1>3, <2>1, KindsAssumption DEF RestoreRead, RestoreReadKeeping, Remove, NotWriting
    <2> QED BY <1>3, <2>2 DEF RestoreRead, RestoreReadKeeping, Handled, HandledUpTo, NoTask
  <1> QED BY <1>1, <1>2, <1>3 DEF RunStep

LEMMA Retold ==
  ASSUME NEW e \in Engine, NEW t \in 0..MaxRequests, NEW c \in Conversation
  PROVE  [e EXCEPT !.restores = @ + 1, !.task = t, !.of = c] \in Engine
  <1>1. e.restores + 1 \in Nat
    BY DEF Engine
  <1>2. \A r \in Nat : [e EXCEPT !.restores = r, !.task = t, !.of = c] \in Engine
    BY DEF Engine
  <1> QED BY <1>1, <1>2, Zenon

LEMMA Rewritten ==
  ASSUME NEW f \in File \cup {NoFile}, NEW b \in BOOLEAN, f = NoFile => b = FALSE
  PROVE  [f EXCEPT !.whole = b] \in File \cup {NoFile}
  <1>1. CASE f \in File
    BY <1>1 DEF File
  <1>2. CASE f = NoFile
    <2>1. [NoFile EXCEPT !.whole = FALSE] = NoFile
      <3>1. NoFile.whole = FALSE
        BY DEF NoFile
      <3>2. \A g : g = [i \in DOMAIN g |-> g[i]] /\ g.whole = FALSE => [g EXCEPT !.whole = FALSE] = g
        OBVIOUS
      <3> QED BY <3>1, <3>2 DEF NoFile
    <2> QED BY <1>2, <2>1
  <1> QED BY <1>1, <1>2

LEMMA Reloaded ==
  ASSUME IndInv, RestoreRuns
  PROVE  \E t \in {0, eng.task}, c \in Conversation :
             eng' = [eng EXCEPT !.restores = @ + 1, !.task = t, !.of = c]
  <1>1. eng.of \in Conversation /\ disk \in [Kinds -> Names] /\ work \in Seq(Job)
    BY DEF IndInv, TypeOK, Engine
  <1>2. Head(work) \in Job
    BY <1>1, QueueIs DEF RestoreRuns
  <1>3. PICK m \in Names : m = disk[Head(work).kind]
    BY <1>1, <1>2 DEF Job
  <1>4. m.file.of \in Conversation
    BY <1>3, NoConversation DEF Names, File, NoFile
  <1>5. CASE m.file.whole /\ m.file.by = eng.live
    <2>1. \E c \in Conversation : eng' = [eng EXCEPT !.restores = @ + 1, !.task = 0, !.of = c]
      BY <1>3, <1>4, <1>5, NoConversation, Zenon DEF RestoreRuns
    <2> QED BY <2>1
  <1>6. CASE ~(m.file.whole /\ m.file.by = eng.live)
    <2>1. eng' = [eng EXCEPT !.restores = @ + 1, !.task = eng.task, !.of = eng.of]
      BY <1>3, <1>6, Zenon DEF RestoreRuns
    <2> QED BY <1>1, <2>1
  <1> QED BY <1>5, <1>6

LEMMA EngineType ==
  ASSUME IndInv, EngineStep
  PROVE  TypeOK'
  <1> USE DEF IndInv, TypeOK, locals, supply
  <1>1. PICK n \in Nat : /\ n = Len(work) /\ DOMAIN work = 1..n
                         /\ work = <<>> <=> n = 0
                         /\ \A i \in 1..n : work[i] \in Job
                         /\ n > 0 => Head(work) = work[1]
    BY QueueIs
  <1>2. n > 0 /\ Head(work) \in Job
    BY <1>1 DEF EngineStep, RestoreRuns, SaveOpens, SaveEnds, Written
  <1>3. ASSUME NEW r \in {"none", "ok", "refused"}, Done(Head(work), r)
        PROVE  /\ work' \in Seq(Job)
               /\ got' \in [Tasks -> {"none", "ok", "busy", "empty", "refused", "failed", "timeout"}]
    BY <1>1, <1>2, <1>3, QueueServed DEF Done, Job
  <1>4. CASE RestoreRuns
    <2>1. PICK t \in {0, eng.task}, c \in Conversation :
             eng' = [eng EXCEPT !.restores = @ + 1, !.task = t, !.of = c]
      BY <1>4, Reloaded
    <2>2. eng' \in Engine
      <3>1. t \in 0..MaxRequests
        BY BoundsAssumption DEF Engine
      <3> QED BY <2>1, <3>1, Retold
    <2> QED BY <1>3, <1>4, <2>2 DEF RestoreRuns
  <1>5. CASE SaveOpens
    <2>1. eng.live \in Kinds /\ eng.of \in Conversation /\ Head(work).kind \in Kinds
      BY <1>2, <1>5 DEF SaveOpens, Idle, EngineUp, Engine, Job
    <2>2. disk' \in [Kinds -> Names]
      <3>1. PICK m : m = [disk[Head(work).kind] EXCEPT !.tmp = [by |-> eng.live, of |-> eng.of, whole |-> FALSE]]
        OBVIOUS
      <3>2. m \in Names
        BY <2>1, <3>1 DEF Names, File
      <3>3. disk' = [disk EXCEPT ![Head(work).kind] = m]
        BY <1>5, <2>1, <3>1 DEF SaveOpens
      <3> QED BY <3>2, <3>3
    <2> QED BY <1>5, <2>1, <2>2 DEF SaveOpens
  <1>6. CASE SaveEnds
    <2>1. PICK k \in Kinds : k = writing.kind
      BY <1>6 DEF SaveEnds
    <2>2. disk' \in [Kinds -> Names]
      <3>1. PICK b \in BOOLEAN : b = (disk[k].file.whole \/ writing.where = "file")
        BY Zenon
      <3>2. PICK d \in BOOLEAN : d = (disk[k].tmp.whole \/ writing.where = "tmp")
        BY Zenon
      <3>3. Sided(k, eng.of) \in Conversation
        BY NoConversation DEF Sided, Engine
      <3>4. disk[k].file = NoFile => b = FALSE
        <4>1. disk[k].file = NoFile => writing.where # "file"
          BY <1>6, <2>1 DEF SaveEnds, Written
        <4>2. disk[k].file = NoFile => ~disk[k].file.whole
          BY DEF NoFile
        <4> QED BY <3>1, <4>1, <4>2, Zenon
      <3>5. disk[k].tmp = NoFile => d = FALSE
        <4>1. disk[k].tmp = NoFile => writing.where # "tmp"
          BY <1>6, <2>1 DEF SaveEnds, Written
        <4>2. disk[k].tmp = NoFile => ~disk[k].tmp.whole
          BY DEF NoFile
        <4> QED BY <3>2, <4>1, <4>2, Zenon
      <3>6. disk[k] \in Names
        BY <2>1
      <3>7. PICK f : f = [disk[k].file EXCEPT !.whole = b]
        OBVIOUS
      <3>8. PICK t : t = [disk[k].tmp EXCEPT !.whole = d]
        OBVIOUS
      <3>9. f \in File \cup {NoFile}
        <4>1. disk[k].file \in File \cup {NoFile}
          BY <3>6 DEF Names
        <4> QED BY <3>4, <3>7, <4>1, Rewritten
      <3>10. t \in File \cup {NoFile}
        <4>1. disk[k].tmp \in File \cup {NoFile}
          BY <3>6 DEF Names
        <4> QED BY <3>5, <3>8, <4>1, Rewritten
      <3>11. PICK m : m = [disk[k] EXCEPT !.file = f, !.tmp = t, !.tside = Sided(k, eng.of)]
        OBVIOUS
      <3>12. m \in Names
        BY <3>3, <3>6, <3>9, <3>10, <3>11 DEF Names
      <3>13. disk' = [disk EXCEPT ![k].tside = Sided(k, eng.of), ![k].file.whole = b, ![k].tmp.whole = d]
        BY <1>6, <2>1, <3>1, <3>2, Zenon DEF SaveEnds
      <3>14. disk' = [disk EXCEPT ![k] = m]
        BY <3>6, <3>7, <3>8, <3>11, <3>13 DEF Names
      <3> QED BY <3>12, <3>14
    <2> QED BY <1>3, <1>6, <2>2 DEF SaveEnds
  <1> QED BY <1>4, <1>5, <1>6 DEF EngineStep

LEMMA HubType ==
  ASSUME IndInv,
         \/ RequestStarts \/ RequestEnds
         \/ EngineStops \/ EnginePlanned \/ EngineSpawned \/ EngineReady
         \/ Shutdown \/ SaveNowOver \/ ShutdownOver \/ Kill
  PROVE  TypeOK'
  <1> USE DEF IndInv, TypeOK, locals, supply
  <1>1. CASE RequestStarts \/ EngineReady
    BY <1>1 DEF RequestStarts, EngineReady, Engine
  <1>2. CASE RequestEnds
    <2>1. made' \in 0..MaxRequests /\ made' + 1 \in Conversation /\ eng.task + 1 \in 0..MaxRequests
      BY <1>2, BoundsAssumption DEF RequestEnds, Bounded, Engine, Conversation
    <2> QED BY <1>2, <2>1 DEF RequestEnds, Engine
  <1>3. CASE EngineStops \/ ShutdownOver \/ Kill
    <2>1. Down \in Engine
      BY NoConversation, BoundsAssumption DEF Down, Engine
    <2>2. eng' \in Engine /\ work' \in Seq(Job)
      BY <1>3, <2>1, EmptySeq DEF EngineStops, ShutdownOver, Kill, Gone
    <2> QED BY <1>3, <2>2 DEF EngineStops, ShutdownOver, Kill, Gone
  <1>4. CASE EnginePlanned
    BY <1>4 DEF EnginePlanned
  <1>5. CASE EngineSpawned
    <2>1. starts' \in 0..MaxStarts
      BY <1>5, BoundsAssumption DEF EngineSpawned, MayStart
    <2> QED BY <1>5, <2>1 DEF EngineSpawned, Engine
  <1>6. CASE Shutdown \/ SaveNowOver
    BY <1>6 DEF Shutdown, SaveNowOver, Goto
  <1> QED BY <1>1, <1>2, <1>3, <1>4, <1>5, <1>6

LEMMA TypeInv == IndInv /\ [Next]_vars => TypeOK'
  <1>1. CASE UNCHANGED vars
    BY <1>1 DEF vars, locals, supply, IndInv, TypeOK
  <1> QED BY <1>1, TaskType, RunType, EngineType, HubType DEF Next
-----------------------------------------------------------------------------
(* The bounds.                                                             *)
LEMMA BoundedInv == IndInv /\ [Next]_vars => Bounded'
  <1> SUFFICES ASSUME IndInv, [Next]_vars
               PROVE  Bounded'
    OBVIOUS
  <1>1. /\ eng \in Engine /\ made \in Nat /\ starts \in Nat /\ start \in Nat /\ restored_start \in Nat
        /\ eng.task \in Nat /\ Bounded
    BY BoundsAssumption DEF IndInv, TypeOK, Engine
  <1> USE DEF locals, supply
  <1>2. CASE UNCHANGED vars
    BY <1>1, <1>2 DEF vars, Bounded
  <1>3. ASSUME NEW a \in Tasks, TaskStep(a)
        PROVE  Bounded'
    <2>1. UNCHANGED <<eng, made, starts, start, restored_start>>
      BY <1>3 DEF TaskStep, HealthRead, PickRead, SaveRead, ClearOld, Move, MoveTo, MoveSide, MoveSideOf,
                  AnswerHealth, AnswerSlots, GetFails, CallTimesOut, Answer
    <2> QED BY <1>1, <2>1 DEF Bounded
  <1>4. CASE RunStep
    <2>1. UNCHANGED <<eng, made, starts>>
      BY <1>4 DEF RunStep, PollStart, PollSave, PollEnds, Poll, BusyRead, RestoreRead, RestoreReadKeeping
    <2>2. start' <= starts /\ restored_start' <= starts
      BY <1>1, <1>4 DEF RunStep, PollStart, PollSave, PollEnds, Poll, BusyRead, Send, Handled, HandledUpTo,
                        RestoreRead, RestoreReadKeeping, Bounded
    <2> QED BY <1>1, <2>1, <2>2 DEF Bounded
  <1>5. CASE EngineStep
    <2>1. UNCHANGED <<made, starts, start, restored_start>>
      BY <1>5 DEF EngineStep, RestoreRuns, SaveOpens, SaveEnds
    <2>2. CASE RestoreRuns
      <3>1. eng'.task \in {0, eng.task} /\ eng'.processing = eng.processing
        BY <1>1, <2>2, Reloaded DEF Engine
      <3> QED BY <1>1, <2>1, <3>1 DEF Bounded
    <2>3. CASE SaveOpens \/ SaveEnds
      BY <1>1, <2>1, <2>3 DEF SaveOpens, SaveEnds, Bounded
    <2> QED BY <1>5, <2>2, <2>3 DEF EngineStep
  <1>6. CASE RequestStarts \/ EngineReady \/ EnginePlanned \/ Shutdown \/ SaveNowOver
    BY <1>1, <1>6 DEF RequestStarts, EngineReady, EnginePlanned, Shutdown, SaveNowOver, Bounded, Engine
  <1>7. CASE RequestEnds
    BY <1>1, <1>7 DEF RequestEnds, Bounded, Engine
  <1>8. CASE EngineStops \/ ShutdownOver \/ Kill
    BY <1>1, <1>8 DEF EngineStops, ShutdownOver, Kill, Gone, Down, Bounded
  <1>9. CASE EngineSpawned
    BY <1>1, <1>9 DEF EngineSpawned, Bounded, Engine
  <1> QED BY <1>2, <1>3, <1>4, <1>5, <1>6, <1>7, <1>8, <1>9 DEF Next

(* A call that joins the queue. *)
LEMMA Joins ==
  ASSUME work \in Seq(Job), active \in Kinds, NEW n \in Nat, n = Len(work),
         NEW a \in Tasks, NEW op \in {"save", "restore"}, Send(a, op)
  PROVE  \/ ~eng.ready /\ work' = work
         \/ /\ eng.ready /\ Len(work') = n + 1 /\ DOMAIN work' = 1..n + 1
            /\ \A i \in 1..n : work'[i] = work[i]
            /\ work'[n + 1] = [op |-> op, by |-> a, kind |-> active, waited |-> TRUE]
  <1>1. [op |-> op, by |-> a, kind |-> active, waited |-> TRUE] \in Job
    BY DEF Job
  <1> QED BY <1>1, QueueJoined DEF Send

LEMMA EngineUpInv == IndInv /\ [Next]_vars => EngineUp'
  <1> SUFFICES ASSUME IndInv, [Next]_vars
               PROVE  EngineUp'
    OBVIOUS
  <1>1. /\ eng \in Engine /\ work \in Seq(Job) /\ active \in Kinds /\ EngineUp
        /\ kind \in [Tasks -> Kinds] /\ "None" \notin Kinds
    BY KindsAssumption DEF IndInv, TypeOK
  <1>2. PICK n \in Nat : /\ n = Len(work) /\ DOMAIN work = 1..n
                         /\ work = <<>> <=> n = 0
                         /\ \A i \in 1..n : work[i] \in Job
                         /\ n > 0 => Head(work) = work[1]
    BY <1>1, QueueIs
  <1> USE DEF locals, supply
  <1>3. CASE UNCHANGED vars
    BY <1>1, <1>3 DEF vars, EngineUp
  <1>4. ASSUME NEW a \in Tasks, NEW op \in {"save", "restore"}, Send(a, op), UNCHANGED <<eng, active, writing>>
        PROVE  EngineUp'
    <2>1. \/ ~eng.ready /\ work' = work
          \/ /\ eng.ready /\ DOMAIN work' = 1..n + 1 /\ \A i \in 1..n : work'[i] = work[i]
             /\ work'[n + 1].kind = active
      <3>1. work \in Seq(Job) /\ active \in Kinds /\ n = Len(work) /\ Send(a, op)
        BY <1>1, <1>2, <1>4
      <3>2. \/ ~eng.ready /\ work' = work
            \/ /\ eng.ready /\ DOMAIN work' = 1..n + 1 /\ \A i \in 1..n : work'[i] = work[i]
               /\ work'[n + 1] = [op |-> op, by |-> a, kind |-> active, waited |-> TRUE]
        BY <3>1, Joins, Zenon
      <3> QED BY <3>2
    <2> QED BY <1>1, <1>2, <1>4, <2>1 DEF EngineUp
  <1>5. ASSUME UNCHANGED <<eng, active, work>>, ~eng.ready => writing' = writing
        PROVE  EngineUp'
    BY <1>1, <1>5 DEF EngineUp
  <1>6. ASSUME NEW a \in Tasks, TaskStep(a)
        PROVE  EngineUp'
    <2>1. CASE HealthRead(a) \/ SaveRead(a) \/ ClearOld(a) \/ MoveSide(a) \/ AnswerHealth(a) \/ AnswerSlots(a) \/ GetFails(a)
      BY <1>5, <2>1 DEF HealthRead, SaveRead, ClearOld, MoveSide, MoveSideOf, AnswerHealth, AnswerSlots, GetFails, Answer
    <2>2. CASE PickRead(a)
      BY <1>4, <1>5, <2>2 DEF PickRead
    <2>3. CASE Move(a)
      <3>1. writing = NotWriting => writing.kind # kind[a]
        BY <1>1 DEF NotWriting
      <3>2. ~eng.ready => writing' = writing
        BY <1>1, <2>3, <3>1 DEF Move, MoveTo, EngineUp
      <3> QED BY <1>5, <2>3, <3>2 DEF Move, MoveTo
    <2>4. CASE CallTimesOut(a)
      <3>1. /\ DOMAIN work' = 1..n /\ \A i \in 1..n : work'[i].kind = work[i].kind
            /\ Len(work') = n /\ work' \in Seq(Job)
        BY <1>1, <1>2, <2>4, QueueLeftAlone DEF CallTimesOut, Unwaited
      <3>2. work = <<>> => work' = <<>>
        BY <1>2, <3>1, EmptySeq
      <3> QED BY <1>1, <1>2, <2>4, <3>1, <3>2 DEF CallTimesOut, Answer, EngineUp
    <2> QED BY <1>6, <2>1, <2>2, <2>3, <2>4 DEF TaskStep
  <1>7. CASE RunStep
    <2>1. CASE PollStart \/ PollSave \/ PollEnds
      BY <1>5, <2>1 DEF PollStart, PollSave, PollEnds, Poll
    <2>2. CASE BusyRead
      <3>1. CASE Send("run", "restore")
        BY <1>4, <2>2, <3>1 DEF BusyRead, Tasks
      <3> QED BY <1>5, <2>2, <3>1 DEF BusyRead
    <2>3. CASE RestoreRead
      <3>1. writing = NotWriting => writing.kind # kind["run"]
        BY <1>1 DEF NotWriting, Tasks
      <3>2. ~eng.ready => writing' = writing
        BY <1>1, <2>3, <3>1 DEF RestoreRead, RestoreReadKeeping, Remove, EngineUp
      <3> QED BY <1>5, <2>3, <3>2 DEF RestoreRead, RestoreReadKeeping
    <2> QED BY <1>7, <2>1, <2>2, <2>3 DEF RunStep
  <1>8. CASE EngineStep
    <2>1. ASSUME NEW r, Done(Head(work), r), n > 0, UNCHANGED active, eng'.ready, eng.ready, eng'.live = eng.live
          PROVE  EngineUp'
      <3>1. work' = Tail(work)
        BY <2>1 DEF Done
      <3>2. DOMAIN work' = 1..n - 1 /\ \A i \in 1..n - 1 : work'[i] = work[i + 1]
        BY <1>1, <1>2, <2>1, <3>1, QueueServed
      <3>3. \A i \in 1..n - 1 : work'[i].kind = active
        BY <1>1, <1>2, <3>2 DEF EngineUp
      <3> QED BY <1>1, <2>1, <3>2, <3>3 DEF EngineUp
    <2>2. CASE RestoreRuns
      <3>1. n > 0 /\ eng.ready
        BY <1>2, <2>2 DEF RestoreRuns, Idle
      <3>2. eng'.ready = eng.ready /\ eng'.live = eng.live
        BY <1>1, <2>2, Reloaded DEF Engine
      <3> QED BY <2>1, <2>2, <3>1, <3>2 DEF RestoreRuns
    <2>3. CASE SaveOpens
      BY <1>1, <2>3 DEF SaveOpens, Idle, EngineUp
    <2>4. CASE SaveEnds
      <3>1. eng.ready /\ n > 0
        BY <1>1, <1>2, <2>4 DEF SaveEnds, EngineUp, Written, IndInv
      <3> QED BY <2>1, <2>4, <3>1 DEF SaveEnds
    <2> QED BY <1>8, <2>2, <2>3, <2>4 DEF EngineStep
  <1>9. CASE RequestStarts \/ RequestEnds \/ EngineReady \/ EngineSpawned
    BY <1>1, <1>9 DEF RequestStarts, RequestEnds, EngineReady, EngineSpawned, MayStart, Idle, EngineUp, Engine
  <1>10. CASE EnginePlanned
    BY <1>1, <1>2, <1>10 DEF EnginePlanned, MayStart, EngineUp
  <1>11. CASE EngineStops \/ ShutdownOver \/ Kill
    <2>1. eng' = Down /\ work' = <<>> /\ writing' = NotWriting /\ active' = active
      BY <1>11 DEF EngineStops, ShutdownOver, Kill, Gone
    <2> QED BY <1>1, <2>1 DEF Down, EngineUp
  <1>12. CASE Shutdown \/ SaveNowOver
    BY <1>5, <1>12 DEF Shutdown, SaveNowOver
  <1> QED BY <1>3, <1>6, <1>7, <1>8, <1>9, <1>10, <1>11, <1>12 DEF Next

(* What the steps do to the files: only Move and the removal take a file   *)
(* away, and only Move makes one appear under FILE.                        *)
LEMMA Moved ==
  ASSUME disk \in [Kinds -> Names], kind \in [Tasks -> Kinds], NEW a \in Tasks, Move(a)
  PROVE  \/ UNCHANGED <<disk, writing>>
         \/ /\ disk[kind[a]].tmp # NoFile
            /\ disk'[kind[a]] = [disk[kind[a]] EXCEPT !.file = disk[kind[a]].tmp, !.tmp = NoFile]
            /\ \A k \in Kinds \ {kind[a]} : disk'[k] = disk[k]
            /\ writing' = IF writing.kind # kind[a] THEN writing
                          ELSE [writing EXCEPT !.where = IF @ = "tmp" THEN "file" ELSE "unlinked"]
  <1>1. kind[a] \in Kinds
    OBVIOUS
  <1>2. CASE disk[kind[a]].tmp = NoFile
    BY <1>2 DEF Move, MoveTo
  <1>3. CASE disk[kind[a]].tmp # NoFile
    <2>1. PICK m : m = [disk[kind[a]] EXCEPT !.file = disk[kind[a]].tmp, !.tmp = NoFile]
      OBVIOUS
    <2>2. disk' = [disk EXCEPT ![kind[a]] = m]
      BY <1>1, <1>3, <2>1 DEF Move, MoveTo, Names
    <2>3. disk'[kind[a]] = m /\ \A k \in Kinds \ {kind[a]} : disk'[k] = disk[k]
      BY <1>1, <2>2
    <2> QED BY <1>3, <2>1, <2>3 DEF Move, MoveTo
  <1> QED BY <1>2, <1>3

LEMMA Ended ==
  ASSUME IndInv, SaveEnds
  PROVE  \A k \in Kinds :
            /\ disk'[k].file.by = disk[k].file.by /\ disk'[k].tmp.by = disk[k].tmp.by
            /\ disk'[k].file.of = disk[k].file.of /\ disk'[k].side = disk[k].side
            /\ disk'[k].file.whole = (disk[k].file.whole \/ (k = writing.kind /\ writing.where = "file"))
  <1>1. disk \in [Kinds -> Names]
    BY DEF IndInv, TypeOK
  <1>2. PICK w \in Kinds : w = writing.kind
    BY DEF SaveEnds, IndInv, TypeOK
  <1>3. PICK b : b = (disk[w].file.whole \/ writing.where = "file")
    OBVIOUS
  <1>4. PICK d : d = (disk[w].tmp.whole \/ writing.where = "tmp")
    OBVIOUS
  <1>5. disk' = [disk EXCEPT ![w].tside = Sided(w, eng.of), ![w].file.whole = b, ![w].tmp.whole = d]
    BY <1>2, <1>3, <1>4, Zenon DEF SaveEnds
  <1>6. \A k \in Kinds \ {w} : disk'[k] = disk[k]
    BY <1>1, <1>2, <1>5
  <1>7. /\ disk'[w].file = [disk[w].file EXCEPT !.whole = b] /\ disk'[w].side = disk[w].side
        /\ disk'[w].tmp = [disk[w].tmp EXCEPT !.whole = d]
    BY <1>1, <1>2, <1>5 DEF Names
  <1>8. /\ disk'[w].file.by = disk[w].file.by /\ disk'[w].tmp.by = disk[w].tmp.by
        /\ disk'[w].file.of = disk[w].file.of /\ disk'[w].file.whole = b
    <2>1. disk[w].file \in File \cup {NoFile} /\ disk[w].tmp \in File \cup {NoFile}
      BY <1>1, <1>2 DEF Names
    <2> QED BY <1>7, <2>1 DEF File, NoFile
  <1>9. \A k \in Kinds \ {w} : disk'[k].file.whole = (disk[k].file.whole \/ (k = writing.kind /\ writing.where = "file"))
    <2>1. \A k \in Kinds : disk[k].file.whole \in BOOLEAN
      <3>1. \A f \in File \cup {NoFile} : f.whole \in BOOLEAN
        <4>1. \A f \in File : f.whole \in BOOLEAN
          BY DEF File
        <4>2. NoFile.whole \in BOOLEAN
          <5>1. NoFile.whole = FALSE
            BY DEF NoFile
          <5> QED BY <5>1
        <4> QED BY <4>1, <4>2
      <3>2. \A k \in Kinds : disk[k].file \in File \cup {NoFile}
        BY <1>1 DEF Names
      <3> QED BY <3>1, <3>2, Zenon
    <2> QED BY <1>2, <1>6, <2>1, Zenon
  <1>10. disk'[w].file.whole = (disk[w].file.whole \/ (w = writing.kind /\ writing.where = "file"))
    BY <1>2, <1>3, <1>8, Zenon
  <1> QED BY <1>6, <1>7, <1>8, <1>9, <1>10, Zenon

LEMMA Named ==
  ASSUME NEW f \in File \cup {NoFile}
  PROVE  f = NoFile <=> f.by = "None"
  BY KindsAssumption DEF File, NoFile

LEMMA FormatsInv == IndInv /\ [Next]_vars => Formats'
  <1> SUFFICES ASSUME IndInv, [Next]_vars
               PROVE  Formats'
    OBVIOUS
  <1>1. /\ eng \in Engine /\ work \in Seq(Job) /\ active \in Kinds /\ EngineUp /\ Formats
        /\ disk \in [Kinds -> Names] /\ kind \in [Tasks -> Kinds] /\ "None" \notin Kinds
    BY KindsAssumption DEF IndInv, TypeOK
  <1> USE DEF locals, supply
  <1>2. CASE UNCHANGED disk
    BY <1>1, <1>2 DEF Formats
  <1>3. ASSUME NEW a \in Tasks, TaskStep(a)
        PROVE  Formats'
    <2>1. kind[a] \in Kinds
      BY <1>1
    <2>2. CASE ClearOld(a) \/ MoveSide(a)
      BY <1>1, <2>1, <2>2 DEF ClearOld, MoveSide, MoveSideOf, Formats, Names
    <2>3. CASE Move(a)
      <3>1. CASE UNCHANGED disk
        BY <1>2, <3>1
      <3>2. CASE ~UNCHANGED disk
        <4>1. /\ disk'[kind[a]] = [disk[kind[a]] EXCEPT !.file = disk[kind[a]].tmp, !.tmp = NoFile]
              /\ \A k \in Kinds \ {kind[a]} : disk'[k] = disk[k]
          BY <1>1, <2>3, <3>2, Moved
        <4>2. disk'[kind[a]].file = disk[kind[a]].tmp /\ disk'[kind[a]].tmp = NoFile
          BY <1>1, <2>1, <4>1 DEF Names
        <4>3. NoFile.by = "None"
          BY DEF NoFile
        <4>4. \A k \in Kinds \ {kind[a]} : disk'[k].file.by \in {"None", k} /\ disk'[k].tmp.by \in {"None", k}
          BY <1>1, <4>1 DEF Formats
        <4>5. disk'[kind[a]].file.by \in {"None", kind[a]} /\ disk'[kind[a]].tmp.by \in {"None", kind[a]}
          BY <1>1, <2>1, <4>2, <4>3 DEF Formats
        <4> QED BY <4>4, <4>5 DEF Formats
      <3> QED BY <3>1, <3>2
    <2> QED BY <1>2, <1>3, <2>2, <2>3
        DEF TaskStep, HealthRead, PickRead, SaveRead, AnswerHealth, AnswerSlots, GetFails, CallTimesOut, Answer
  <1>4. CASE RestoreRead
    <2>1. kind["run"] \in Kinds
      BY <1>1 DEF Tasks
    <2> QED BY <1>1, <1>4, <2>1 DEF RestoreRead, RestoreReadKeeping, Remove, Formats, NoNames, NoFile
  <1>5. CASE SaveOpens
    <2>1. Head(work).kind = active /\ eng.live = active
      BY <1>1, <1>5, QueueIs DEF SaveOpens, Idle, EngineUp
    <2> QED BY <1>1, <1>5, <2>1 DEF SaveOpens, Formats, Names
  <1>6. CASE SaveEnds
    BY <1>1, <1>6, Ended DEF Formats
  <1> QED BY <1>2, <1>3, <1>4, <1>5, <1>6
      DEF Next, RunStep, EngineStep, PollStart, PollSave, PollEnds, Poll, BusyRead, RestoreRuns,
          RequestStarts, RequestEnds, EngineReady, EnginePlanned, EngineSpawned, Shutdown, SaveNowOver,
          EngineStops, ShutdownOver, Kill, Gone, vars

LEMMA WrittenInv == IndInv /\ [Next]_vars => Written'
  <1> SUFFICES ASSUME IndInv, [Next]_vars, writing' # NotWriting
               PROVE  /\ work' # <<>> /\ work'[1].op = "save"
                      /\ writing'.where = "tmp"  => disk'[writing'.kind].tmp # NoFile
                      /\ writing'.where = "file" => disk'[writing'.kind].file # NoFile
    BY DEF Written
  <1>1. /\ eng \in Engine /\ work \in Seq(Job) /\ active \in Kinds /\ EngineUp /\ Written
        /\ disk \in [Kinds -> Names] /\ kind \in [Tasks -> Kinds] /\ "None" \notin Kinds
        /\ writing \in [kind: Kinds, where: {"tmp", "file", "unlinked"}] \cup {NotWriting}
    BY KindsAssumption DEF IndInv, TypeOK
  <1>2. PICK n \in Nat : /\ n = Len(work) /\ DOMAIN work = 1..n
                         /\ work = <<>> <=> n = 0
                         /\ \A i \in 1..n : work[i] \in Job
                         /\ n > 0 => Head(work) = work[1]
    BY <1>1, QueueIs
  <1> DEFINE Goal == /\ work' # <<>> /\ work'[1].op = "save"
                     /\ writing'.where = "tmp"  => disk'[writing'.kind].tmp # NoFile
                     /\ writing'.where = "file" => disk'[writing'.kind].file # NoFile
  <1> USE DEF locals, supply
  <1>3. ASSUME UNCHANGED <<work, writing, disk>> PROVE Goal
    BY <1>1, <1>3 DEF Written
  <1>4. ASSUME NEW a \in Tasks, NEW op \in {"save", "restore"}, Send(a, op), UNCHANGED <<disk, writing>>
        PROVE  Goal
    <2>1. work \in Seq(Job) /\ active \in Kinds /\ n = Len(work) /\ Send(a, op)
      BY <1>1, <1>2, <1>4
    <2>2. \/ work' = work
          \/ DOMAIN work' = 1..n + 1 /\ \A i \in 1..n : work'[i] = work[i]
      BY <2>1, Joins, Zenon
    <2>3. n > 0 /\ work[1].op = "save"
      BY <1>1, <1>2, <1>4 DEF Written
    <2>4. work' # <<>> /\ work'[1].op = "save"
      <3>1. CASE work' = work
        BY <1>2, <2>3, <3>1
      <3>2. CASE DOMAIN work' = 1..n + 1 /\ \A i \in 1..n : work'[i] = work[i]
        <4>1. 1 \in DOMAIN work' /\ work'[1] = work[1]
          BY <2>3, <3>2
        <4>2. DOMAIN <<>> = {}
          OBVIOUS
        <4> QED BY <2>3, <4>1, <4>2
      <3> QED BY <2>2, <3>1, <3>2
    <2> QED BY <1>1, <1>4, <2>4 DEF Written
  <1>5. ASSUME NEW a \in Tasks, TaskStep(a)
        PROVE  Goal
    <2>1. kind[a] \in Kinds
      BY <1>1
    <2>2. CASE HealthRead(a) \/ SaveRead(a) \/ AnswerHealth(a) \/ AnswerSlots(a) \/ GetFails(a)
      BY <1>3, <2>2 DEF HealthRead, SaveRead, AnswerHealth, AnswerSlots, GetFails, Answer
    <2>3. CASE PickRead(a)
      BY <1>3, <1>4, <2>3 DEF PickRead
    <2>4. CASE ClearOld(a) \/ MoveSide(a)
      <3>1. UNCHANGED <<work, writing>>
        BY <2>4 DEF ClearOld, MoveSide, MoveSideOf
      <3>2. \A k \in Kinds : disk'[k].file = disk[k].file /\ disk'[k].tmp = disk[k].tmp
        BY <1>1, <2>1, <2>4 DEF ClearOld, MoveSide, MoveSideOf, Names
      <3>3. writing.kind \in Kinds
        BY <1>1, <3>1
      <3> QED BY <1>1, <3>1, <3>2, <3>3 DEF Written
    <2>5. CASE Move(a)
      <3>1. CASE UNCHANGED <<disk, writing>>
        BY <1>3, <2>5, <3>1 DEF Move, MoveTo
      <3>2. CASE ~UNCHANGED <<disk, writing>>
        <4>1. /\ disk[kind[a]].tmp # NoFile
              /\ disk'[kind[a]] = [disk[kind[a]] EXCEPT !.file = disk[kind[a]].tmp, !.tmp = NoFile]
              /\ \A k \in Kinds \ {kind[a]} : disk'[k] = disk[k]
              /\ writing' = IF writing.kind # kind[a] THEN writing
                            ELSE [writing EXCEPT !.where = IF @ = "tmp" THEN "file" ELSE "unlinked"]
          BY <1>1, <2>5, <3>2, Moved
        <4>2. disk'[kind[a]].file = disk[kind[a]].tmp
          BY <1>1, <2>1, <4>1 DEF Names
        <4>3. work' = work /\ writing # NotWriting /\ writing.kind \in Kinds
          BY <1>1, <2>1, <2>5, <4>1 DEF Move, MoveTo, NotWriting
        <4>4. CASE writing.kind = kind[a]
          <5>1. writing'.where \in {"file", "unlinked"} /\ writing'.kind = kind[a]
            BY <1>1, <4>1, <4>3, <4>4
          <5> QED BY <1>1, <4>1, <4>2, <4>3, <5>1 DEF Written
        <4>5. CASE writing.kind # kind[a]
          <5>1. writing' = writing /\ disk'[writing.kind] = disk[writing.kind]
            BY <4>1, <4>3, <4>5
          <5> QED BY <1>1, <4>3, <5>1 DEF Written
        <4> QED BY <4>4, <4>5
      <3> QED BY <3>1, <3>2
    <2>6. CASE CallTimesOut(a)
      <3>1. DOMAIN work' = 1..n /\ \A i \in 1..n : work'[i].op = work[i].op
        BY <1>1, <1>2, <2>6, QueueLeftAlone DEF CallTimesOut, Unwaited
      <3>2. UNCHANGED <<disk, writing>>
        BY <2>6 DEF CallTimesOut, Answer
      <3>3. n > 0 /\ work[1].op = "save"
        BY <1>1, <1>2, <3>2 DEF Written
      <3>4. 1 \in DOMAIN work' /\ work'[1].op = "save"
        BY <3>1, <3>3
      <3>5. work' # <<>>
        BY <3>4
      <3> QED BY <1>1, <3>2, <3>4, <3>5 DEF Written
    <2> QED BY <1>5, <2>2, <2>3, <2>4, <2>5, <2>6 DEF TaskStep
  <1>6. CASE RunStep
    <2>1. CASE PollStart \/ PollSave \/ PollEnds
      BY <1>3, <2>1 DEF PollStart, PollSave, PollEnds, Poll
    <2>2. CASE BusyRead
      <3>1. CASE Send("run", "restore")
        BY <1>4, <2>2, <3>1 DEF BusyRead, Tasks
      <3> QED BY <1>3, <2>2, <3>1 DEF BusyRead
    <2>3. CASE RestoreRead
      <3>1. kind["run"] \in Kinds /\ work' = work
        BY <1>1, <2>3 DEF Tasks, RestoreRead, RestoreReadKeeping
      <3>2. CASE UNCHANGED <<disk, writing>>
        BY <1>3, <3>1, <3>2
      <3>3. CASE Remove(kind["run"])
        <4>1. writing # NotWriting /\ writing.kind \in Kinds
          BY <1>1, <3>1, <3>3 DEF Remove, NotWriting
        <4>2. CASE writing.kind = kind["run"]
          BY <1>1, <3>1, <3>3, <4>1, <4>2 DEF Remove, Written
        <4>3. CASE writing.kind # kind["run"]
          <5>1. writing' = writing /\ disk'[writing.kind] = disk[writing.kind]
            BY <1>1, <3>1, <3>3, <4>1, <4>3 DEF Remove
          <5> QED BY <1>1, <3>1, <4>1, <5>1 DEF Written
        <4> QED BY <4>2, <4>3
      <3> QED BY <2>3, <3>2, <3>3 DEF RestoreRead, RestoreReadKeeping
    <2> QED BY <1>6, <2>1, <2>2, <2>3 DEF RunStep
  <1>7. CASE SaveOpens
    <2>1. Head(work) \in Job /\ work' = work /\ n > 0 /\ work[1].op = "save"
      BY <1>2, <1>7 DEF SaveOpens
    <2>2. PICK k \in Kinds : k = Head(work).kind
      BY <2>1 DEF Job
    <2>3. disk'[k].tmp.by = eng.live /\ writing'.kind = k /\ writing'.where = "tmp"
      BY <1>1, <1>7, <2>2 DEF SaveOpens, Names
    <2>4. eng.live # "None"
      BY <1>1, <1>7 DEF SaveOpens, Idle, EngineUp
    <2> QED BY <1>2, <2>1, <2>3, <2>4 DEF NoFile
  <1>8. CASE RestoreRuns
    BY <1>8 DEF RestoreRuns, Idle
  <1> QED BY <1>3, <1>5, <1>6, <1>7, <1>8
      DEF Next, EngineStep, SaveEnds, RequestStarts, RequestEnds, EngineReady, EnginePlanned, EngineSpawned,
          Shutdown, SaveNowOver, EngineStops, ShutdownOver, Kill, Gone, vars

(* Where a task may be, and what it may have been answered. *)
Places  == {"rest", "ended", "health", "busy", "restore", "pick", "save", "clear", "move", "side"}
Answers == {"none", "ok", "busy", "empty", "refused", "failed", "timeout"}

(* The restore that run is about to send, or has sent, is for the start of *)
(* now: the next start comes when run has none of it left.                 *)
LEMMA ThisStartInv == IndInv /\ [Next]_vars => ThisStart'
  <1> SUFFICES ASSUME IndInv, [Next]_vars
               PROVE  ThisStart'
    OBVIOUS
  <1>1. /\ starts \in Nat /\ start \in Nat /\ restored_start \in Nat /\ Bounded /\ EngineUp /\ ThisStart
        /\ eng \in Engine /\ at \in [Tasks -> Places] /\ "None" \notin Kinds /\ active \in Kinds
    BY BoundsAssumption, KindsAssumption DEF IndInv, TypeOK, Places
  <1> USE DEF locals, supply, Tasks
  <1>2. ASSUME UNCHANGED <<starts, start, restored_start>>, eng'.ready => eng.ready, Handling' => Handling
        PROVE  ThisStart'
    BY <1>1, <1>2 DEF ThisStart
  <1>3. CASE UNCHANGED vars
    BY <1>2, <1>3 DEF vars, Handling
  <1>4. ASSUME NEW a \in Tasks, TaskStep(a)
        PROVE  ThisStart'
    <2>1. UNCHANGED <<starts, start, restored_start, eng>>
      BY <1>4 DEF TaskStep, HealthRead, PickRead, SaveRead, ClearOld, Move, MoveTo, MoveSide, MoveSideOf,
                  AnswerHealth, AnswerSlots, GetFails, CallTimesOut, Answer
    <2>2. Handling' => Handling
      BY <1>1, <1>4 DEF TaskStep, HealthRead, PickRead, SaveRead, ClearOld, Move, MoveTo, MoveSide, MoveSideOf,
                  AnswerHealth, AnswerSlots, GetFails, CallTimesOut, Answer, Read, Leave, Goto, Send, Handling
    <2> QED BY <1>2, <2>1, <2>2
  <1>5. CASE PollStart
    BY <1>1, <1>5 DEF PollStart, Poll, Goto, Bounded, ThisStart
  <1>6. CASE PollSave \/ PollEnds
    <2>1. ~Handling'
      BY <1>1, <1>6 DEF PollSave, PollEnds, Poll, Goto, Handling
    <2> QED BY <2>1 DEF ThisStart
  <1>7. CASE BusyRead
    <2>1. CASE Leave("run")
      <3>1. ~Handling'
        BY <1>1, <2>1 DEF Leave, Goto, Handling
      <3> QED BY <3>1 DEF ThisStart
    <2>2. CASE Send("run", "restore") /\ UNCHANGED <<start, restored_start>>
      BY <1>2, <1>7, <2>2 DEF BusyRead, Read, Handling
    <2> QED BY <1>7, <2>1, <2>2 DEF BusyRead
  <1>8. CASE RestoreRead
    <2>1. ~Handling'
      BY <1>1, <1>8 DEF RestoreRead, RestoreReadKeeping, Leave, Goto, Handling
    <2> QED BY <2>1 DEF ThisStart
  <1>9. CASE EngineStep
    <2>1. CASE RestoreRuns
      <3>1. eng'.ready = eng.ready
        BY <1>1, <2>1, Reloaded DEF Engine
      <3> QED BY <1>2, <2>1, <3>1 DEF RestoreRuns, Handling
    <2> QED BY <1>2, <1>9, <2>1 DEF EngineStep, SaveOpens, SaveEnds, Handling
  <1>10. CASE RequestStarts \/ RequestEnds
    BY <1>1, <1>2, <1>10 DEF RequestStarts, RequestEnds, Handling, Engine
  <1>11. CASE EngineStops \/ ShutdownOver \/ Kill
    <2>1. ~eng'.ready /\ UNCHANGED <<starts, start, restored_start, at>>
      BY <1>11 DEF EngineStops, ShutdownOver, Kill, Gone, Down
    <2> QED BY <1>2, <2>1 DEF Handling
  <1>12. CASE EnginePlanned
    BY <1>2, <1>12 DEF EnginePlanned, Handling
  <1>13. CASE EngineSpawned
    <2>1. ~eng'.ready /\ starts' = starts + 1 /\ UNCHANGED <<start, restored_start, at>>
      BY <1>1, <1>13 DEF EngineSpawned, MayStart, EngineUp, Engine
    <2> QED BY <1>1, <2>1 DEF ThisStart, Handling
  <1>14. CASE EngineReady
    <2>1. Handling' => at["run"] = "health"
      BY <1>14 DEF EngineReady, Handling
    <2>2. Handling' => Handling
      BY <2>1 DEF Handling
    <2> QED BY <1>1, <1>14, <2>1, <2>2 DEF EngineReady, ThisStart
  <1>15. CASE Shutdown \/ SaveNowOver
    BY <1>1, <1>2, <1>15 DEF Shutdown, SaveNowOver, Goto, Handling
  <1> QED BY <1>3, <1>4, <1>5, <1>6, <1>7, <1>8, <1>9, <1>10, <1>11, <1>12, <1>13, <1>14, <1>15 DEF Next, RunStep

LEMMA OnceInv == IndInv /\ [Next]_vars => Once'
  <1> SUFFICES ASSUME IndInv, [Next]_vars
               PROVE  Once'
    OBVIOUS
  <1>1. /\ starts \in Nat /\ start \in Nat /\ restored_start \in Nat /\ Bounded /\ EngineUp /\ ThisStart /\ Once
        /\ eng \in Engine /\ eng.restores \in Nat /\ work \in Seq(Job)
        /\ at \in [Tasks -> Places] /\ "None" \notin Kinds /\ active \in Kinds
    BY BoundsAssumption, KindsAssumption DEF IndInv, TypeOK, Engine, Places
  <1>2. PICK n \in Nat : /\ n = Len(work) /\ DOMAIN work = 1..n
                         /\ work = <<>> <=> n = 0
                         /\ \A i \in 1..n : work[i] \in Job
                         /\ n > 0 => Head(work) = work[1]
    BY <1>1, QueueIs
  <1> USE DEF locals, supply, Tasks
  <1>3. ASSUME UNCHANGED work, eng'.restores = eng.restores,
               Restored => restored_start' = starts' \/ (at'["run"] = "restore" /\ start' = starts')
        PROVE  Once'
    BY <1>1, <1>3 DEF Once, Restored
  <1>4. ASSUME UNCHANGED <<work, starts, start, restored_start>>, eng'.restores = eng.restores,
               at["run"] = "restore" => at'["run"] = "restore"
        PROVE  Once'
    BY <1>1, <1>3, <1>4 DEF Once
  <1>5. CASE UNCHANGED vars
    BY <1>4, <1>5 DEF vars
  <1>6. Handling => ~Restored \/ at["run"] = "restore"
    BY <1>1 DEF Once, ThisStart
  <1>7. ASSUME NEW a \in Tasks, TaskStep(a)
        PROVE  Once'
    <2>1. UNCHANGED <<starts, start, restored_start, eng>>
      BY <1>7 DEF TaskStep, HealthRead, PickRead, SaveRead, ClearOld, Move, MoveTo, MoveSide, MoveSideOf,
                  AnswerHealth, AnswerSlots, GetFails, CallTimesOut, Answer
    <2>2. at["run"] = "restore" => at'["run"] = "restore"
      BY <1>1, <1>7 DEF TaskStep, HealthRead, PickRead, SaveRead, ClearOld, Move, MoveTo, MoveSide, MoveSideOf,
                  AnswerHealth, AnswerSlots, GetFails, CallTimesOut, Answer, Read, Leave, Goto, Send
    <2>3. CASE UNCHANGED work
      BY <1>4, <2>1, <2>2, <2>3
    <2>4. CASE PickRead(a) /\ Send(a, "save")
      <3>1. work \in Seq(Job) /\ active \in Kinds /\ n = Len(work) /\ Send(a, "save")
        BY <1>1, <1>2, <2>4
      <3>2. \/ work' = work
            \/ /\ DOMAIN work' = 1..n + 1 /\ \A i \in 1..n : work'[i] = work[i]
               /\ work'[n + 1] = [op |-> "save", by |-> a, kind |-> active, waited |-> TRUE]
        BY <3>1, Joins, Zenon
      <3>3. CASE DOMAIN work' = 1..n + 1 /\ work'[n + 1].op = "save" /\ \A i \in 1..n : work'[i] = work[i]
        <4>1. \A i \in DOMAIN work' : work'[i].op = "restore" => i \in DOMAIN work /\ work[i].op = "restore"
          BY <1>2, <3>3
        <4> QED BY <1>1, <2>1, <2>2, <4>1 DEF Once, Restored
      <3> QED BY <2>3, <3>2, <3>3
    <2>5. CASE CallTimesOut(a)
      <3>1. DOMAIN work' = 1..n /\ \A i \in 1..n : work'[i].op = work[i].op
        BY <1>1, <1>2, <2>5, QueueLeftAlone DEF CallTimesOut, Unwaited
      <3> QED BY <1>1, <1>2, <2>1, <2>2, <3>1 DEF Once, Restored
    <2> QED BY <1>7, <2>3, <2>4, <2>5
        DEF TaskStep, HealthRead, PickRead, SaveRead, ClearOld, Move, MoveTo, MoveSide, MoveSideOf,
            AnswerHealth, AnswerSlots, GetFails
  <1>8. CASE PollStart \/ PollSave \/ PollEnds
    <2>1. UNCHANGED <<work, eng, starts, restored_start>> /\ at["run"] = "rest"
      BY <1>8 DEF PollStart, PollSave, PollEnds, Poll
    <2> QED BY <1>1, <1>3, <2>1 DEF Once
  <1>9. CASE BusyRead
    <2>1. ~Restored /\ UNCHANGED <<eng, starts>>
      BY <1>6, <1>9 DEF BusyRead, Read, Handling
    <2>2. CASE UNCHANGED work
      BY <1>3, <2>1, <2>2
    <2>3. CASE Send("run", "restore") /\ UNCHANGED <<start, restored_start>>
      <3>1. work \in Seq(Job) /\ active \in Kinds /\ n = Len(work) /\ Send("run", "restore")
        BY <1>1, <1>2, <2>3
      <3>2. "run" \in Tasks
        OBVIOUS
      <3>3. \/ ~eng.ready /\ work' = work
            \/ /\ eng.ready /\ DOMAIN work' = 1..n + 1 /\ \A i \in 1..n : work'[i] = work[i]
               /\ work'[n + 1] = [op |-> "restore", by |-> "run", kind |-> active, waited |-> TRUE]
        BY <3>1, <3>2, Joins, Zenon
      <3>4. CASE eng.ready /\ DOMAIN work' = 1..n + 1 /\ \A i \in 1..n : work'[i] = work[i]
        <4>1. \A i \in DOMAIN work' : work'[i].op = "restore" => i = n + 1
          BY <1>2, <2>1, <3>4 DEF Restored
        <4>2. eng'.restores = 0
          BY <1>1, <2>1 DEF Restored, Once
        <4>3. at'["run"] = "restore" /\ start' = starts'
          BY <1>1, <1>9, <2>1, <2>3, <3>4 DEF BusyRead, Read, Send, ThisStart, Handling
        <4> QED BY <4>1, <4>2, <4>3 DEF Once
      <3> QED BY <2>2, <3>3, <3>4
    <2> QED BY <1>9, <2>2, <2>3 DEF BusyRead
  <1>10. CASE RestoreRead
    <2>1. UNCHANGED <<work, eng, starts>> /\ restored_start' = start /\ Handling
      BY <1>10 DEF RestoreRead, RestoreReadKeeping, Handled, HandledUpTo, Read, Handling
    <2>2. Restored => start = starts
      BY <1>1, <2>1 DEF Once, ThisStart
    <2> QED BY <1>3, <2>1, <2>2
  <1>11. CASE RestoreRuns
    <2>1. eng'.restores = eng.restores + 1 /\ UNCHANGED <<at, starts, start, restored_start>> /\ work' = Tail(work)
      BY <1>1, <1>11, Reloaded DEF RestoreRuns, Done, Engine
    <2>2. n > 0 /\ work[1].op = "restore"
      BY <1>2, <1>11 DEF RestoreRuns
    <2>3. DOMAIN work' = 1..n - 1 /\ \A i \in 1..n - 1 : work'[i] = work[i + 1]
      BY <1>1, <1>2, <2>1, <2>2, QueueServed
    <2>4. eng.restores = 0 /\ \A i \in 1..n : work[i].op = "restore" => i = 1
      BY <1>1, <1>2, <2>2 DEF Once
    <2>5. \A i \in DOMAIN work' : work'[i].op # "restore"
      BY <1>2, <2>3, <2>4
    <2>6. Restored
      BY <1>2, <2>2 DEF Restored
    <2> QED BY <1>1, <2>1, <2>4, <2>5, <2>6 DEF Once
  <1>12. CASE SaveOpens
    BY <1>4, <1>12 DEF SaveOpens
  <1>13. CASE SaveEnds
    <2>1. UNCHANGED <<eng, at, starts, start, restored_start>> /\ work' = Tail(work)
      BY <1>13 DEF SaveEnds, Done
    <2>2. n > 0
      BY <1>2, <1>13 DEF SaveEnds, IndInv, Written
    <2>3. DOMAIN work' = 1..n - 1 /\ \A i \in 1..n - 1 : work'[i] = work[i + 1]
      BY <1>1, <1>2, <2>1, <2>2, QueueServed
    <2>4. \A i \in DOMAIN work' : i + 1 \in DOMAIN work /\ work'[i] = work[i + 1] /\ i \in Nat
      BY <1>2, <2>3
    <2>5. Restored' => Restored
      BY <2>1, <2>4 DEF Restored
    <2>6. \A i, j \in DOMAIN work' : work'[i].op = "restore" /\ work'[j].op = "restore" => i = j
      <3>1. \A i, j \in DOMAIN work' : work'[i].op = "restore" /\ work'[j].op = "restore" => i + 1 = j + 1
        BY <1>1, <2>4 DEF Once
      <3> QED BY <2>4, <3>1
    <2> QED BY <1>1, <2>1, <2>4, <2>5, <2>6 DEF Once
  <1>14. CASE RequestStarts \/ RequestEnds \/ EngineReady
    BY <1>1, <1>4, <1>14 DEF RequestStarts, RequestEnds, EngineReady, Engine
  <1>15. CASE EngineStops \/ ShutdownOver \/ Kill
    <2>1. eng'.restores = 0 /\ work' = <<>>
      BY <1>15 DEF EngineStops, ShutdownOver, Kill, Gone, Down
    <2> QED BY <2>1 DEF Once, Restored
  <1>16. CASE EnginePlanned
    BY <1>4, <1>16 DEF EnginePlanned
  <1>17. CASE EngineSpawned
    <2>1. eng'.restores = eng.restores /\ work' = work /\ ~eng.ready
      BY <1>1, <1>17 DEF EngineSpawned, MayStart, EngineUp, Engine
    <2>2. ~Restored
      BY <1>1, <1>2, <2>1 DEF EngineUp, Restored
    <2> QED BY <1>3, <2>1, <2>2
  <1>18. CASE Shutdown \/ SaveNowOver
    BY <1>1, <1>4, <1>18 DEF Shutdown, SaveNowOver, Goto
  <1> QED BY <1>5, <1>7, <1>8, <1>9, <1>10, <1>11, <1>12, <1>13, <1>14, <1>15, <1>16, <1>17, <1>18
      DEF Next, RunStep, EngineStep

(* While the hub runs, nothing but run talks to the engine, and a step of  *)
(* run leaves no call behind that it still waits for.                      *)
LEMMA AloneInv == IndInv /\ [Next]_vars => Alone'
  <1> DEFINE Served == \A i \in DOMAIN work : ~work[i].waited
             A1 == at["save_now"] = "rest" /\ got["save_now"] = "none"
             A2 == \A i \in DOMAIN work :
                      /\ work[i].by = "run"
                      /\ work[i].waited => /\ i = Len(work)
                                           /\ at["run"] = work[i].op /\ got["run"] = "none"
                                           /\ kind["run"] = work[i].kind
             A3 == at["run"] \in {"clear", "move", "side"} => work = <<>>
             A4 == at["run"] = "save" /\ got["run"] = "ok" => work = <<>>
             A5 == writing.where # "file"
             A6 == at["run"] = "restore" => got["run"] \notin {"busy", "empty"}
             A7 == at["run"] = "restore" /\ got["run"] = "refused" => ~disk[kind["run"]].file.whole
  <1> SUFFICES ASSUME IndInv, [Next]_vars, hub' = "running"
               PROVE  A1' /\ A2' /\ A3' /\ A4' /\ A5' /\ A6' /\ A7'
    BY DEF Alone
  <1> USE DEF locals, supply, Tasks
  <1>1. hub = "running"
    BY DEF Next, TaskStep, HealthRead, PickRead, SaveRead, ClearOld, Move, MoveTo, MoveSide, MoveSideOf,
           AnswerHealth, AnswerSlots, GetFails, CallTimesOut, Answer, RunStep, PollStart, PollSave, PollEnds,
           Poll, BusyRead, RestoreRead, RestoreReadKeeping, EngineStep, RestoreRuns, SaveOpens, SaveEnds,
           RequestStarts, RequestEnds, EngineReady, EnginePlanned, EngineSpawned, Shutdown, SaveNowOver,
           EngineStops, ShutdownOver, Kill, vars
  <1>2. A1 /\ A2 /\ A3 /\ A4 /\ A5 /\ A6 /\ A7
    BY <1>1 DEF IndInv, Alone
  <1>3. /\ EngineUp /\ Written /\ Formats
        /\ eng \in Engine /\ work \in Seq(Job) /\ disk \in [Kinds -> Names] /\ kind \in [Tasks -> Kinds]
        /\ writing \in [kind: Kinds, where: {"tmp", "file", "unlinked"}] \cup {NotWriting}
        /\ at \in [Tasks -> Places] /\ got \in [Tasks -> Answers] /\ "None" \notin Kinds /\ active \in Kinds
    BY KindsAssumption DEF IndInv, TypeOK, Places, Answers
  <1>4. PICK n \in Nat : /\ n = Len(work) /\ DOMAIN work = 1..n
                         /\ work = <<>> <=> n = 0
                         /\ \A i \in 1..n : work[i] \in Job
                         /\ n > 0 => Head(work) = work[1]
    BY <1>3, QueueIs
  <1>5. ASSUME UNCHANGED <<work, writing, disk, at, got, kind>>
        PROVE  A1' /\ A2' /\ A3' /\ A4' /\ A5' /\ A6' /\ A7'
    BY <1>2, <1>5
  <1>6. got["run"] # "none" \/ at["run"] \notin {"save", "restore"} => Served
    BY <1>2, <1>3, <1>4 DEF Job
  <1>7. ASSUME UNCHANGED work, Served, A1', A3', A4', A5', A6',
               at'["run"] = "restore" => got'["run"] # "refused"
        PROVE  A1' /\ A2' /\ A3' /\ A4' /\ A5' /\ A6' /\ A7'
    BY <1>2, <1>7
  <1>8. ASSUME NEW op \in {"save", "restore"}, Send("run", op), UNCHANGED <<writing, disk>>,
               at["run"] \in {"pick", "busy"}
        PROVE  A1' /\ A2' /\ A3' /\ A4' /\ A5' /\ A6' /\ A7'
    <2>1. Served
      BY <1>6, <1>8
    <2>2. /\ at'["run"] = op /\ at'["save_now"] = "rest" /\ got'["save_now"] = "none"
          /\ kind'["run"] = active /\ got'["run"] = IF eng.ready THEN "none" ELSE "failed"
      BY <1>2, <1>3, <1>8 DEF Send
    <2>3. A1' /\ A3' /\ A4' /\ A5' /\ A6' /\ A7'
      BY <1>2, <1>8, <2>2
    <2>4. work \in Seq(Job) /\ active \in Kinds /\ n = Len(work) /\ Send("run", op) /\ "run" \in Tasks
      BY <1>3, <1>4, <1>8
    <2>5. \/ ~eng.ready /\ work' = work
          \/ /\ eng.ready /\ Len(work') = n + 1 /\ DOMAIN work' = 1..n + 1
             /\ \A i \in 1..n : work'[i] = work[i]
             /\ work'[n + 1] = [op |-> op, by |-> "run", kind |-> active, waited |-> TRUE]
      BY <2>4, Joins, Zenon
    <2>6. A2'
      <3>1. CASE ~eng.ready /\ work' = work
        BY <1>2, <2>1, <3>1
      <3>2. CASE /\ eng.ready /\ Len(work') = n + 1 /\ DOMAIN work' = 1..n + 1
                 /\ \A i \in 1..n : work'[i] = work[i]
                 /\ work'[n + 1] = [op |-> op, by |-> "run", kind |-> active, waited |-> TRUE]
        <4>1. SUFFICES ASSUME NEW i \in 1..n + 1
                       PROVE  /\ work'[i].by = "run"
                              /\ work'[i].waited => /\ i = n + 1
                                                    /\ at'["run"] = work'[i].op /\ got'["run"] = "none"
                                                    /\ kind'["run"] = work'[i].kind
          BY <3>2
        <4>2. CASE i = n + 1
          BY <2>2, <3>2, <4>2
        <4>3. CASE i # n + 1
          <5>1. i \in 1..n /\ work'[i] = work[i]
            BY <3>2, <4>3
          <5> QED BY <1>2, <1>4, <2>1, <5>1
        <4> QED BY <4>2, <4>3
      <3> QED BY <2>5, <3>1, <3>2
    <2> QED BY <2>3, <2>6
  <1>9. CASE UNCHANGED vars
    BY <1>5, <1>9 DEF vars
  <1>10. ASSUME TaskStep("run")
         PROVE  A1' /\ A2' /\ A3' /\ A4' /\ A5' /\ A6' /\ A7'
    <2>1. CASE HealthRead("run")
      <3>1. Served /\ UNCHANGED <<work, writing>>
        BY <1>6, <2>1 DEF HealthRead, Read
      <3>2. at'["run"] \in {"busy", "rest"} /\ A1'
        BY <1>2, <1>3, <2>1 DEF HealthRead, Leave, Goto
      <3> QED BY <1>2, <1>7, <3>1, <3>2
    <2>2. CASE PickRead("run")
      <3>1. CASE Leave("run") /\ UNCHANGED work
        <4>1. Served /\ UNCHANGED <<work, writing>>
          BY <1>6, <2>2, <3>1 DEF PickRead, Read
        <4>2. at'["run"] = "rest" /\ A1'
          BY <1>2, <1>3, <3>1 DEF Leave, Goto
        <4> QED BY <1>2, <1>7, <4>1, <4>2
      <3> QED BY <1>8, <2>2, <3>1 DEF PickRead, Read
    <2>3. CASE SaveRead("run")
      <3>1. Served /\ UNCHANGED <<work, writing>>
        BY <1>6, <2>3 DEF SaveRead, Read
      <3>2. at'["run"] = "rest" \/ (at'["run"] = "clear" /\ work = <<>>)
        BY <1>2, <1>3, <2>3 DEF SaveRead, Read, Leave, Goto
      <3>3. A1'
        BY <1>2, <1>3, <2>3 DEF SaveRead, Leave, Goto
      <3> QED BY <1>2, <1>7, <3>1, <3>2, <3>3
    <2>4. CASE ClearOld("run") \/ MoveSide("run")
      <3>1. Served /\ UNCHANGED <<work, writing>> /\ work = <<>>
        BY <1>2, <1>6, <2>4 DEF ClearOld, MoveSide, MoveSideOf
      <3>2. at'["run"] \in {"move", "rest"} /\ A1'
        BY <1>2, <1>3, <2>4 DEF ClearOld, MoveSide, MoveSideOf, Leave, Goto
      <3> QED BY <1>2, <1>7, <3>1, <3>2
    <2>5. CASE Move("run")
      <3>1. Served /\ work' = work /\ work = <<>>
        BY <1>2, <1>6, <2>5 DEF Move, MoveTo
      <3>2. writing = NotWriting
        BY <1>3, <3>1 DEF Written
      <3>3. writing' = writing
        BY <1>3, <2>5, <3>2 DEF Move, MoveTo, NotWriting
      <3>4. at'["run"] \in {"rest", "side"} /\ A1'
        BY <1>2, <1>3, <2>5 DEF Move, MoveTo, Leave, Goto
      <3> QED BY <1>2, <1>7, <3>1, <3>3, <3>4
    <2>6. CASE AnswerHealth("run") \/ AnswerSlots("run") \/ GetFails("run")
      <3>1. at["run"] \in {"health", "busy", "pick"} /\ UNCHANGED <<at, work, writing>>
        BY <2>6 DEF AnswerHealth, AnswerSlots, GetFails, Answer
      <3>2. A1'
        BY <1>2, <1>3, <2>6 DEF AnswerHealth, AnswerSlots, GetFails, Answer
      <3> QED BY <1>2, <1>6, <1>7, <3>1, <3>2
    <2>7. CASE CallTimesOut("run")
      <3>1. /\ at["run"] \in {"save", "restore"} /\ UNCHANGED <<at, writing>>
            /\ got'["run"] = "timeout" /\ got'["save_now"] = got["save_now"]
        BY <1>3, <2>7 DEF CallTimesOut, Answer
      <3>2. work' = Unwaited("run")
        BY <2>7 DEF CallTimesOut, Unwaited
      <3>3. work \in Seq(Job) /\ n = Len(work) /\ "run" \in Tasks
        BY <1>3, <1>4
      <3>4. /\ DOMAIN work' = 1..n
            /\ \A i \in 1..n : /\ work'[i].by = work[i].by
                               /\ work'[i].waited => work[i].by # "run"
        BY <3>2, <3>3, QueueLeftAlone, Zenon
      <3>5. \A i \in DOMAIN work' : work'[i].by = "run" /\ ~work'[i].waited
        BY <1>2, <1>4, <3>4
      <3> QED BY <1>2, <3>1, <3>5
    <2> QED BY <1>10, <2>1, <2>2, <2>3, <2>4, <2>5, <2>6, <2>7 DEF TaskStep
  <1>11. ~TaskStep("save_now")
    BY <1>2 DEF TaskStep, HealthRead, PickRead, SaveRead, ClearOld, Move, MoveTo, MoveSide, MoveSideOf,
                AnswerHealth, AnswerSlots, GetFails, CallTimesOut, Answer, Read
  <1>12. CASE PollStart \/ PollSave \/ PollEnds
    <2>1. at["run"] = "rest" /\ UNCHANGED <<work, writing>>
      BY <1>12 DEF PollStart, PollSave, PollEnds, Poll
    <2>2. at'["run"] \in {"health", "pick", "ended"} /\ A1'
      BY <1>2, <1>3, <1>12 DEF PollStart, PollSave, PollEnds, Poll, Goto
    <2> QED BY <1>2, <1>6, <1>7, <2>1, <2>2
  <1>13. CASE BusyRead
    <2>1. CASE Leave("run") /\ UNCHANGED work
      <3>1. Served /\ UNCHANGED writing
        BY <1>6, <1>13 DEF BusyRead, Read
      <3>2. at'["run"] = "rest" /\ A1'
        BY <1>2, <1>3, <2>1 DEF Leave, Goto
      <3> QED BY <1>2, <1>7, <2>1, <3>1, <3>2
    <2> QED BY <1>8, <1>13, <2>1 DEF BusyRead, Read
  <1>14. CASE RestoreRead
    <2>1. Served /\ UNCHANGED work
      BY <1>6, <1>14 DEF RestoreRead, RestoreReadKeeping, Read
    <2>2. at'["run"] = "rest" /\ A1'
      BY <1>2, <1>3, <1>14 DEF RestoreRead, RestoreReadKeeping, Leave, Goto
    <2>3. writing'.where # "file"
      <3>1. CASE UNCHANGED writing
        BY <1>2, <3>1
      <3>2. CASE Remove(kind["run"]) /\ ~UNCHANGED writing
        <4>1. writing # NotWriting
          BY <1>3, <3>2 DEF Remove, NotWriting
        <4> QED BY <1>3, <3>2, <4>1 DEF Remove
      <3> QED BY <1>14, <3>1, <3>2 DEF RestoreRead, RestoreReadKeeping
    <2> QED BY <1>7, <2>1, <2>2, <2>3
  <1>15. ASSUME NEW r \in {"none", "ok", "refused"}, Done(Head(work), r), n > 0, UNCHANGED <<at, kind>>,
                A5', r \in {"none", "refused"} => work[1].op = "restore", r = "ok" \/ UNCHANGED disk,
                \A k \in Kinds : disk'[k].file.whole = disk[k].file.whole,
                r = "refused" => ~disk[work[1].kind].file.whole
         PROVE  A1' /\ A2' /\ A3' /\ A4' /\ A5' /\ A6' /\ A7'
    <2>1. work' = Tail(work) /\ Head(work) = work[1] /\ work[1] \in Job /\ 1 \in DOMAIN work
      BY <1>4, <1>15 DEF Done
    <2>2. /\ Len(work') = n - 1 /\ DOMAIN work' = 1..n - 1 /\ work' \in Seq(Job)
          /\ \A i \in 1..n - 1 : work'[i] = work[i + 1]
      BY <1>3, <1>4, <1>15, <2>1, QueueServed
    <2>3. CASE work[1].waited
      <3>1. n = 1 /\ at["run"] = work[1].op /\ kind["run"] = work[1].kind /\ work[1].by = "run"
        BY <1>2, <1>4, <2>1, <2>3
      <3>2. work' = <<>> /\ DOMAIN work' = {}
        BY <2>2, <3>1, EmptySeq
      <3>3. got' = [got EXCEPT !["run"] = r]
        BY <1>15, <2>1, <2>3, <3>1 DEF Done
      <3>4. got'["run"] = r /\ got'["save_now"] = "none"
        BY <1>2, <1>3, <3>3
      <3>5. kind["run"] \in Kinds
        BY <1>3
      <3> QED BY <1>2, <1>15, <3>1, <3>2, <3>4, <3>5
    <2>4. CASE ~work[1].waited
      <3>1. got' = got
        BY <1>15, <2>1, <2>4 DEF Done
      <3>2. A2'
        <4>1. SUFFICES ASSUME NEW i \in 1..n - 1
                       PROVE  /\ work'[i].by = "run"
                              /\ work'[i].waited => /\ i = n - 1
                                                    /\ at'["run"] = work'[i].op /\ got'["run"] = "none"
                                                    /\ kind'["run"] = work'[i].kind
          BY <2>2
        <4>2. i + 1 \in DOMAIN work /\ work'[i] = work[i + 1]
          BY <1>4, <2>2
        <4>3. /\ work[i + 1].by = "run"
              /\ work[i + 1].waited => /\ i + 1 = n
                                       /\ at["run"] = work[i + 1].op /\ got["run"] = "none"
                                       /\ kind["run"] = work[i + 1].kind
          BY <1>2, <1>4, <4>2
        <4> QED BY <1>15, <3>1, <4>2, <4>3
      <3>3. work # <<>> /\ kind["run"] \in Kinds
        BY <1>3, <1>4, <1>15
      <3> QED BY <1>2, <1>15, <3>1, <3>2, <3>3
    <2> QED BY <2>3, <2>4
  <1>16. CASE RestoreRuns
    <2>1. n > 0 /\ work[1].op = "restore" /\ Head(work) = work[1] /\ work[1] \in Job
      BY <1>4, <1>16 DEF RestoreRuns
    <2>2. UNCHANGED <<at, kind, disk, writing>> /\ work[1].kind = eng.live /\ work[1].kind \in Kinds
      BY <1>3, <1>4, <1>16, <2>1 DEF RestoreRuns, Idle, EngineUp
    <2>3. PICK k \in Kinds : k = work[1].kind
      BY <2>2
    <2>4. PICK r \in {"none", "ok", "refused"} :
              Done(Head(work), r) /\ (r = "refused" => ~(disk[k].file.whole /\ disk[k].file.by = eng.live))
      BY <1>16, <2>1, <2>3, Zenon DEF RestoreRuns
    <2>5. disk[k].file \in File \cup {NoFile} /\ disk[k].file.by \in {"None", k}
      BY <1>3 DEF Names, Formats
    <2>6. disk[k].file.whole => disk[k].file.by = k
      <3>1. disk[k].file = NoFile => ~disk[k].file.whole
        BY DEF NoFile
      <3> QED BY <2>5, <3>1, Named
    <2>7. r = "refused" => ~disk[k].file.whole
      BY <2>2, <2>3, <2>4, <2>6
    <2> QED BY <1>2, <1>15, <2>1, <2>2, <2>3, <2>4, <2>7
  <1>17. CASE SaveOpens
    <2>1. UNCHANGED <<at, got, work, kind>> /\ writing'.where = "tmp"
      BY <1>17 DEF SaveOpens
    <2>2. \A k \in Kinds : disk'[k].file = disk[k].file
      BY <1>3, <1>17 DEF SaveOpens, Names
    <2>3. kind["run"] \in Kinds
      BY <1>3
    <2> QED BY <1>2, <2>1, <2>2, <2>3
  <1>18. CASE SaveEnds
    <2>1. n > 0 /\ UNCHANGED <<at, kind>> /\ writing' = NotWriting
      BY <1>3, <1>4, <1>18 DEF SaveEnds, Written
    <2>2. \A k \in Kinds : disk'[k].file.whole = (disk[k].file.whole \/ (k = writing.kind /\ writing.where = "file"))
      BY <1>18, Ended
    <2>3. \A k \in Kinds : disk[k].file.whole \in BOOLEAN
      <3>1. \A f \in File : f.whole \in BOOLEAN
        BY DEF File
      <3>2. NoFile.whole = FALSE
        BY DEF NoFile
      <3>3. \A k \in Kinds : disk[k].file \in File \cup {NoFile}
        BY <1>3 DEF Names
      <3> QED BY <3>1, <3>2, <3>3
    <2>4. \A k \in Kinds : disk'[k].file.whole = disk[k].file.whole
      BY <1>2, <2>2, <2>3, Zenon
    <2>5. Done(Head(work), "ok")
      BY <1>18 DEF SaveEnds
    <2>6. writing'.where # "file"
      BY <2>1 DEF NotWriting
    <2> QED BY <1>15, <2>1, <2>4, <2>5, <2>6
  <1>19. CASE RequestStarts \/ RequestEnds \/ EnginePlanned \/ EngineSpawned \/ EngineReady
    BY <1>5, <1>19 DEF RequestStarts, RequestEnds, EnginePlanned, EngineSpawned, EngineReady
  <1>20. CASE EngineStops
    <2>1. work' = <<>> /\ writing' = NotWriting /\ UNCHANGED <<at, kind, disk>>
      BY <1>20 DEF EngineStops, Gone
    <2>2. got'["run"] \in {got["run"], "failed"} /\ got'["save_now"] = "none"
      BY <1>2, <1>20 DEF EngineStops, Gone
    <2>3. DOMAIN work' = {} /\ writing'.where # "file"
      BY <2>1 DEF NotWriting
    <2> QED BY <1>2, <2>1, <2>2, <2>3
  <1>21. ~(Shutdown \/ SaveNowOver \/ ShutdownOver \/ Kill)
    BY DEF Shutdown, SaveNowOver, ShutdownOver, Kill
  <1> QED BY <1>9, <1>10, <1>11, <1>12, <1>13, <1>14, <1>16, <1>17, <1>18, <1>19, <1>20, <1>21
      DEF Next, RunStep, EngineStep

-----------------------------------------------------------------------------
LEMMA InitInv == Init => IndInv
  <1> SUFFICES ASSUME Init PROVE IndInv
    OBVIOUS
  <1>1. /\ hub = "running" /\ active \in Kinds /\ starts = 0 /\ made = 0
        /\ eng = Down /\ work = <<>> /\ writing = NotWriting
        /\ at = [a \in Tasks |-> "rest"] /\ got = [a \in Tasks |-> "none"]
        /\ kind = [a \in Tasks |-> active] /\ picked = [a \in Tasks |-> 0]
        /\ start = 0 /\ restored_start = 0 /\ last_task = NoTask
    BY Zenon DEF Init
  <1>2. PICK f \in {NoFile} \cup {[by |-> active, of |-> 1, whole |-> w] : w \in BOOLEAN} :
           disk = [k \in Kinds |-> IF k # active THEN NoNames
                       ELSE [NoNames EXCEPT !.file = f, !.side = Sided(k, f.of)]]
    BY Zenon DEF Init
  <1>3. f \in File \cup {NoFile} /\ f.by \in {"None", active} /\ f.of \in Conversation
    <2>1. CASE f = NoFile
      BY <2>1, NoConversation DEF NoFile
    <2>2. CASE f # NoFile
      <3>1. PICK w \in BOOLEAN : f = [by |-> active, of |-> 1, whole |-> w]
        BY <1>2, <2>2
      <3>2. 1 \in Conversation
        BY BoundsAssumption DEF Conversation
      <3>3. f \in File /\ f.by = active /\ f.of = 1
        BY <1>1, <3>1, <3>2 DEF File
      <3> QED BY <3>2, <3>3
    <2> QED BY <2>1, <2>2
  <1>4. disk \in [Kinds -> Names]
    <2>1. PICK m : m = [NoNames EXCEPT !.file = f, !.side = Sided(active, f.of)]
      OBVIOUS
    <2>2. Sided(active, f.of) \in Conversation
      BY <1>3, NoConversation DEF Sided
    <2>3. m \in Names
      BY <1>3, <2>1, <2>2, NoConversation DEF Names
    <2>4. disk = [k \in Kinds |-> IF k # active THEN NoNames ELSE m]
      BY <1>2, <2>1
    <2> QED BY <2>3, <2>4, NoConversation
  <1>5. Formats
    <2>1. \A k \in Kinds : disk[k].tmp = NoFile /\ disk[k].file = IF k # active THEN NoFile ELSE f
      BY <1>2 DEF NoNames
    <2>2. NoFile.by = "None"
      BY DEF NoFile
    <2> QED BY <1>3, <2>1, <2>2 DEF Formats
  <1>6. Down \in Engine
    BY NoConversation, BoundsAssumption DEF Down, Engine
  <1>7. TypeOK
    <2>1. <<>> \in Seq(Job) /\ 0 \in 0..MaxStarts /\ 0 \in 0..MaxRequests
      BY BoundsAssumption, EmptySeq
    <2> QED BY <1>1, <1>4, <1>6, <2>1 DEF TypeOK
  <1>8. DOMAIN work = {} /\ ~eng.ready /\ ~eng.processing /\ eng.task = 0 /\ eng.restores = 0 /\ eng.live = "None"
    BY <1>1 DEF Down
  <1>9. Bounded /\ EngineUp /\ Written /\ Once
    BY <1>1, <1>8 DEF Bounded, EngineUp, Written, Once, Restored
  <1>10. ThisStart /\ Alone
    BY <1>1, <1>8 DEF Tasks, ThisStart, Handling, Alone, NotWriting
  <1> QED BY <1>5, <1>7, <1>9, <1>10 DEF IndInv

LEMMA NextInv == IndInv /\ [Next]_vars => IndInv'
  BY TypeInv, BoundedInv, EngineUpInv, WrittenInv, FormatsInv, OnceInv, ThisStartInv, AloneInv DEF IndInv

LEMMA Invariant == Spec => []IndInv
  BY InitInv, NextInv, PTL DEF Spec

(* The state, and every file, job and call in it, has its type.            *)
THEOREM TypeCorrect == Spec => []TypeOK
  <1>1. IndInv => TypeOK
    BY DEF IndInv
  <1> QED BY <1>1, Invariant, PTL

(* The file of an engine holds that engine's format, although the engine   *)
(* may change between any two steps of a save: a call goes out under the   *)
(* name of the active engine, and that one is the engine that executes it. *)
THEOREM OwnFormats == Spec => []OwnFormat
  <1>1. IndInv => OwnFormat
    <2> SUFFICES ASSUME IndInv, NEW k \in Kinds, disk[k].file # NoFile
                 PROVE  disk[k].file.by = k
      BY DEF OwnFormat
    <2>1. disk[k].file \in File \cup {NoFile} /\ disk[k].file.by \in {"None", k}
      BY DEF IndInv, TypeOK, Formats, Names
    <2> QED BY <2>1, Named
  <1> QED BY <1>1, Invariant, PTL

(* A start of the engine gets at most one restore.                         *)
THEOREM OneRestore == Spec => []RestoreOnce
  <1>1. IndInv => RestoreOnce
    BY DEF IndInv, Once, RestoreOnce
  <1> QED BY <1>1, Invariant, PTL

(* While the hub runs, a good file is removed only because its restore got *)
(* no answer in time.                                                      *)
THEOREM GoodFilesKept == Spec => GoodFileKept
  <1>1. ASSUME IndInv, [Next]_vars, NEW k \in Kinds,
               hub = "running", Good(k), disk'[k].file = NoFile
        PROVE  got["run"] = "timeout"
    <2> USE DEF locals, supply
    <2>1. /\ disk \in [Kinds -> Names] /\ kind \in [Tasks -> Kinds] /\ disk[k].file # NoFile
          /\ disk[k].file.by # "None" /\ disk[k].file.whole
      <3>1. disk[k].file \in File \cup {NoFile} /\ disk[k].file.whole
        BY <1>1 DEF IndInv, TypeOK, Names, Good
      <3>2. disk[k].file # NoFile
        BY <3>1 DEF NoFile
      <3> QED BY <1>1, <3>1, <3>2, Named DEF IndInv, TypeOK
    <2>2. ~UNCHANGED disk
      BY <1>1, <2>1
    <2>3. ASSUME NEW a \in Tasks, TaskStep(a)
          PROVE  FALSE
      <3>1. kind[a] \in Kinds
        BY <2>1
      <3>2. ~(ClearOld(a) \/ MoveSide(a))
        <4>1. ClearOld(a) \/ MoveSide(a) => disk'[k].file = disk[k].file
          BY <2>1, <3>1 DEF ClearOld, MoveSide, MoveSideOf, Names
        <4> QED BY <1>1, <2>1, <4>1
      <3>3. ~Move(a)
        <4>1. SUFFICES ASSUME Move(a) PROVE FALSE
          OBVIOUS
        <4>2. /\ disk[kind[a]].tmp # NoFile
              /\ disk'[kind[a]] = [disk[kind[a]] EXCEPT !.file = disk[kind[a]].tmp, !.tmp = NoFile]
              /\ \A j \in Kinds \ {kind[a]} : disk'[j] = disk[j]
          BY <2>1, <2>2, <4>1, Moved
        <4>3. disk'[kind[a]].file = disk[kind[a]].tmp
          BY <2>1, <3>1, <4>2 DEF Names
        <4> QED BY <1>1, <2>1, <4>2, <4>3
      <3> QED BY <2>2, <2>3, <3>2, <3>3
          DEF TaskStep, HealthRead, PickRead, SaveRead, AnswerHealth, AnswerSlots, GetFails, CallTimesOut, Answer
    <2>4. CASE RestoreRead
      <3>1. Read("run", "restore") /\ got["run"] \notin {"ok", "failed", "none"}
        BY <2>2, <2>4 DEF RestoreRead, RestoreReadKeeping, Read
      <3>2. Remove(kind["run"]) /\ kind["run"] \in Kinds
        BY <2>1, <2>2, <2>4 DEF RestoreRead, RestoreReadKeeping, Tasks
      <3>3. kind["run"] = k
        BY <1>1, <2>1, <3>2 DEF Remove
      <3>4. got["run"] # "refused"
        BY <1>1, <2>1, <3>1, <3>3 DEF IndInv, Alone, Read
      <3>5. got["run"] \in {"none", "ok", "busy", "empty", "refused", "failed", "timeout"}
        BY <1>1 DEF IndInv, TypeOK, Tasks
      <3> QED BY <1>1, <3>1, <3>4, <3>5 DEF IndInv, Alone, Read
    <2>5. ~SaveOpens
      <3>1. SaveOpens => disk'[k].file = disk[k].file
        BY <2>1 DEF SaveOpens, Names
      <3> QED BY <1>1, <2>1, <3>1
    <2>6. ~SaveEnds
      <3>1. SaveEnds => disk'[k].file.by = disk[k].file.by
        BY <1>1, Ended
      <3> QED BY <1>1, <2>1, <3>1 DEF NoFile
    <2> QED BY <1>1, <2>2, <2>3, <2>4, <2>5, <2>6
        DEF Next, RunStep, EngineStep, PollStart, PollSave, PollEnds, Poll, BusyRead, RestoreRuns,
            RequestStarts, RequestEnds, EngineReady, EnginePlanned, EngineSpawned, Shutdown, SaveNowOver,
            EngineStops, ShutdownOver, Kill, Gone, vars
  <1>2. IndInv /\ [Next]_vars =>
           \A k \in Kinds : hub = "running" /\ Good(k) /\ disk'[k].file = NoFile => got["run"] = "timeout"
    BY <1>1
  <1> QED BY <1>2, Invariant, PTL DEF Spec, GoodFileKept

=============================================================================
