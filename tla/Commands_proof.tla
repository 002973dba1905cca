---------------------------- MODULE Commands_proof ----------------------------
(***************************************************************************)
(* Proofs about the commands of the program and about the LLM child that   *)
(* serve starts, for any settings, machines, files, hosts and number of    *)
(* starts, and any questions, replies and speeds of the engines.           *)
(*                                                                         *)
(* First the child by itself (LlmSupervisor): the types, the ban of        *)
(* ik_llama.cpp, the one replacement and the table of the engines.  Then   *)
(* the commands: serve makes no other starts than these, no engine gets a  *)
(* file that was cut, no start deletes the model, and eval lets an engine  *)
(* replace another one only if it has earned it.                           *)
(***************************************************************************)
EXTENDS Commands, FiniteSetTheorems, Iterators_proof

Asked == phase \in {"spawn", "run"}

(* lastKind and active are one fact, from the first plan on. *)
SameEngine ==
    /\ lastKind \in {"None", active}
    /\ Asked => lastKind = active
    /\ phase = "source" => (lastKind = "None" <=> last.ended = "None")

(* Only llama.cpp is ever asked to be replaced. *)
ReplaceOnlyLlama ==
    /\ Asked /\ spec.restart_when_healthy => active = "LlamaCpp"
    /\ phase = "source" /\ last.ended = "Replaced" => active = "LlamaCpp"

(* The chooser knows the first m runs of ik_llama.cpp: its count is open   *)
(* exactly when the last of them was bad, and it bans exactly after two    *)
(* bad ones in a row.                                                      *)
Noted(m) ==
    /\ chooser.failures >= 1 <=> m >= 1 /\ ~ikRuns[m]
    /\ chooser.banned <=> \E i \in 1..m - 1 : ~ikRuns[i] /\ ~ikRuns[i + 1]

(* It learns of a run at the plan after it: until then it is one behind.   *)
OneBehind ==
    /\ phase = "source" /\ lastKind = "Ik" =>
        /\ Len(ikRuns) >= 1
        /\ ikRuns[Len(ikRuns)] = GoodRun(last)
        /\ Noted(Len(ikRuns) - 1)
    /\ Asked \/ (phase = "source" /\ lastKind # "Ik") => Noted(Len(ikRuns))

(* A replacement is remembered in the outcome, then in download_done, and  *)
(* with it there is no other.                                              *)
ReplacedOnce ==
    /\ replaced <= 1
    /\ replaced = 1 => download_done \/ (~Asked /\ last.ended = "Replaced")
    /\ Asked /\ spec.restart_when_healthy => replaced = 0

IndInv ==
    /\ TypeOK
    /\ SameEngine
    /\ ReplaceOnlyLlama
    /\ OneBehind
    /\ BanDeserved
    /\ BanHolds
    /\ ReplacedOnce
    /\ DocumentedEngine

-----------------------------------------------------------------------------
(* What decide answers, whatever the facts are. *)
LEMMA DecideIs ==
  ASSUME NEW h \in HostFacts, NEW m \in Files, NEW done \in BOOLEAN, NEW banned \in BOOLEAN
  PROVE  LET d == decide(h, m, done, banned)
         IN  /\ d \in Decision
             /\ d.download_first => d.kind = "LlamaCpp" /\ ~done
             /\ d.kind = "Ik" <=>
                    /\ h.choice # "LlamaCpp"
                    /\ ~h.gpu /\ h.cpu_avx2_fma /\ h.ik_binary
                    /\ ~banned
                    /\ m # NoFile
                    /\ h.choice = "Ik" \/ <<h.family, m>> \in Table
  <1>1. /\ h.choice \in EngineChoice /\ h.gpu \in BOOLEAN /\ h.family \in Family
        /\ h.cpu_avx2_fma \in BOOLEAN /\ h.ik_binary \in BOOLEAN
    BY DEF HostFacts
  <1>2. m \in ik_architectures[h.family] <=> <<h.family, m>> \in Table
    BY <1>1 DEF Family, ik_architectures, Table, Files, Architecture, NoFile
  <1>3. m \in ik_architectures[h.family] => ik_architectures[h.family] # {}
    OBVIOUS
  <1>4. h.choice = "Auto" <=> h.choice # "LlamaCpp" /\ h.choice # "Ik"
    BY <1>1 DEF EngineChoice
  <1> QED
    BY <1>1, <1>2, <1>3, <1>4
    DEF decide, RulesOutIk, Fits, LlamaCpp, Wanted, Download, Decision, EngineKind

(* At a plan the chooser learns of the last run, and then knows them all.  *)
LEMMA NoteInv ==
  ASSUME TypeOK, SameEngine, ReplaceOnlyLlama, OneBehind, phase = "source",
         chooser' = IF lastKind = "None" THEN chooser ELSE note(chooser, lastKind, last),
         ikRuns' = ikRuns, NEW n \in Nat, n = Len(ikRuns)
  PROVE  Noted(n)' /\ chooser' \in Chooser
  <1>1. /\ chooser \in Chooser /\ chooser.failures \in Nat /\ chooser.banned \in BOOLEAN
        /\ ikRuns \in Seq(BOOLEAN) /\ \A i \in 1..n : ikRuns[i] \in BOOLEAN
    BY ElementOfSeq DEF TypeOK, Chooser
  <1>2. CASE lastKind # "Ik"
    <2>1. chooser' = chooser
      <3>1. note(chooser, lastKind, last) = chooser
        BY <1>2 DEF note
      <3> QED BY <3>1
    <2>2. Noted(n)
      BY <1>2 DEF OneBehind
    <2> QED BY <1>1, <2>1, <2>2 DEF Noted
  <1>3. CASE lastKind = "Ik"
    <2>1. last.ended \notin {"None", "Replaced"} /\ GoodRun(last) \in BOOLEAN
      BY <1>3 DEF SameEngine, ReplaceOnlyLlama, TypeOK, EngineKind, GoodRun, RunOutcome, NoOutcome
    <2>2. n >= 1 /\ ikRuns[n] = GoodRun(last) /\ Noted(n - 1)
      BY <1>3 DEF OneBehind
    <2>3. PICK m \in Nat : n = m + 1
      BY <2>2
    <2>4. /\ chooser.failures >= 1 <=> m >= 1 /\ ~ikRuns[m]
          /\ chooser.banned <=> \E i \in 1..m - 1 : ~ikRuns[i] /\ ~ikRuns[i + 1]
      BY <2>2, <2>3 DEF Noted
    <2> DEFINE pair(k) == \E i \in 1..k : ~ikRuns[i] /\ ~ikRuns[i + 1]
    <2>5. pair(m) <=> pair(m - 1) \/ (m >= 1 /\ ~ikRuns[m] /\ ~ikRuns[m + 1])
      <3>1. \A i \in 1..m : i \in 1..m - 1 \/ (i = m /\ m >= 1)
        OBVIOUS
      <3>2. \A i \in 1..m - 1 : i \in 1..m
        OBVIOUS
      <3>3. m >= 1 => m \in 1..m
        OBVIOUS
      <3> QED BY <3>1, <3>2, <3>3
    <2>6. CASE GoodRun(last)
      <3>1. chooser' = [chooser EXCEPT !.failures = 0]
        BY <1>3, <2>1, <2>6 DEF note
      <3>2. /\ chooser' \in Chooser /\ chooser'.failures = 0
            /\ chooser'.banned = chooser.banned
        BY <1>1, <3>1 DEF Chooser
      <3>3. ikRuns[m + 1] = TRUE
        BY <2>1, <2>2, <2>3, <2>6
      <3>4. chooser'.banned <=> pair(m)
        BY <2>4, <2>5, <3>2, <3>3
      <3> QED BY <2>3, <3>2, <3>3, <3>4 DEF Noted
    <2>7. CASE ~GoodRun(last)
      <3>1. chooser' = [failures |-> chooser.failures + 1,
                        banned   |-> chooser.banned \/ chooser.failures + 1 >= MAX_FAILURES]
        BY <1>3, <2>1, <2>7 DEF note
      <3>2. /\ chooser' \in Chooser /\ chooser'.failures >= 1
            /\ chooser'.banned <=> chooser.banned \/ chooser.failures >= 1
        <4>1. PICK b \in BOOLEAN : b = (chooser.banned \/ chooser.failures + 1 >= MAX_FAILURES)
          BY Zenon
        <4>2. chooser' = [failures |-> chooser.failures + 1, banned |-> b]
          BY <3>1, <4>1, Zenon
        <4>3. b <=> chooser.banned \/ chooser.failures >= 1
          <5>1. chooser.failures + 1 >= MAX_FAILURES <=> chooser.failures >= 1
            BY <1>1 DEF MAX_FAILURES
          <5> QED BY <4>1, <5>1, Zenon
        <4> QED BY <1>1, <4>2, <4>3 DEF Chooser
      <3>3. ikRuns[m + 1] = FALSE
        BY <2>1, <2>2, <2>3, <2>7
      <3>4. chooser'.banned <=> pair(m)
        BY <2>4, <2>5, <3>2, <3>3
      <3> QED BY <2>3, <3>2, <3>3, <3>4 DEF Noted
    <2> QED BY <2>6, <2>7
  <1> QED BY <1>2, <1>3

(* A run of ik_llama.cpp is added to the history; the pairs before it stay. *)
LEMMA LogInv ==
  ASSUME ikRuns \in Seq(BOOLEAN), NEW n \in Nat, n = Len(ikRuns), NEW good \in BOOLEAN,
         ikRuns' = Append(ikRuns, good), chooser' = chooser
  PROVE  /\ ikRuns' \in Seq(BOOLEAN) /\ Len(ikRuns') = n + 1 /\ ikRuns'[n + 1] = good
         /\ Noted(n) => Noted(n)'
         /\ TwoInARow(ikRuns) => TwoInARow(ikRuns')
  <1>1. /\ ikRuns' \in Seq(BOOLEAN) /\ Len(ikRuns') = n + 1 /\ ikRuns'[n + 1] = good
        /\ \A i \in 1..n : ikRuns'[i] = ikRuns[i]
    BY AppendProperties
  <1>2. \A i \in 1..n - 1 : i \in 1..n /\ i + 1 \in 1..n
    OBVIOUS
  <1>3. n >= 1 => n \in 1..n
    OBVIOUS
  <1>4. Noted(n) => Noted(n)'
    BY <1>1, <1>2, <1>3 DEF Noted
  <1>5. TwoInARow(ikRuns) => TwoInARow(ikRuns')
    BY <1>1, <1>2 DEF TwoInARow
  <1> QED BY <1>1, <1>4, <1>5

-----------------------------------------------------------------------------
LEMMA InitInv == Init => IndInv
  <1> SUFFICES ASSUME Init PROVE IndInv
    OBVIOUS
  <1>1. TypeOK
    <2>1. spec \in ChildSpec /\ last \in RunOutcome \cup {NoOutcome} /\ chooser \in Chooser
      BY DEF Init, RunsInit, ChildSpec, Chooser, NewChooser
    <2>2. starts \in 0..MaxStarts /\ ikRuns \in Seq(BOOLEAN)
      BY MaxStartsAssumption, EmptySeq DEF Init, RunsInit
    <2> QED BY <2>1, <2>2 DEF Init, RunsInit, TypeOK, Files, Kinds, EngineKind
  <1>2. SameEngine /\ ReplaceOnlyLlama /\ ReplacedOnce /\ DocumentedEngine
    BY DEF Init, RunsInit, SameEngine, ReplaceOnlyLlama, Asked, NoOutcome, ReplacedOnce,
           DocumentedEngine
  <1>3. OneBehind /\ BanDeserved /\ BanHolds
    BY EmptySeq DEF Init, RunsInit, OneBehind, Noted, Asked, BanDeserved, BanHolds, NewChooser
  <1> QED BY <1>1, <1>2, <1>3 DEF IndInv

(* What a plan leaves. *)
LEMMA PlanInv == IndInv /\ Plan => IndInv'
  <1> SUFFICES ASSUME IndInv, Plan PROVE IndInv'
    OBVIOUS
  <1> DEFINE d == decide(host, model, download_done', chooser'.banned)
  <1>1. PICK n \in Nat : n = Len(ikRuns)
    BY LenProperties DEF IndInv, TypeOK
  <1>2. /\ phase = "source" /\ phase' = "spawn" /\ spec' = SpecFor(d)
        /\ lastKind' = d.kind /\ active' = d.kind /\ planned' = model
        /\ download_done' = (download_done \/ last.ended = "Replaced")
        /\ UNCHANGED <<last, starts, up, host, model, ikRuns, replaced>>
    BY DEF Plan, Answer
  <1>3. Noted(n)' /\ chooser' \in Chooser
    BY <1>1, <1>2, NoteInv DEF IndInv, Plan
  <1>4. host \in HostFacts /\ model \in Files /\ chooser'.banned \in BOOLEAN
    BY <1>3, HostsAssumption DEF IndInv, TypeOK, Chooser
  <1>5. download_done' \in BOOLEAN
    BY <1>2, Zenon
  <1>6. /\ d \in Decision
        /\ d.download_first => d.kind = "LlamaCpp" /\ ~download_done'
        /\ d.kind = "Ik" <=>
               /\ host.choice # "LlamaCpp"
               /\ ~host.gpu /\ host.cpu_avx2_fma /\ host.ik_binary
               /\ ~chooser'.banned
               /\ model # NoFile
               /\ host.choice = "Ik" \/ <<host.family, model>> \in Table
    BY <1>4, <1>5, DecideIs
  <1> HIDE DEF d
  <1>7. /\ d.kind \in EngineKind /\ d.download_first \in BOOLEAN
        /\ spec' = [health |-> TRUE, restart_when_healthy |-> d.download_first]
    BY <1>2, <1>6 DEF Decision, SpecFor
  <1>8. chooser'.banned <=> TwoInARow(ikRuns)
    BY <1>1, <1>2, <1>3 DEF Noted, TwoInARow
  <1>9. TypeOK'
    BY <1>2, <1>3, <1>4, <1>5, <1>7 DEF IndInv, TypeOK, ChildSpec, Kinds
  <1>10. SameEngine' /\ ReplaceOnlyLlama'
    BY <1>2, <1>6, <1>7 DEF SameEngine, ReplaceOnlyLlama, Asked
  <1>11. OneBehind'
    BY <1>1, <1>2, <1>3 DEF OneBehind
  <1>12. BanDeserved' /\ BanHolds' /\ DocumentedEngine'
    BY <1>2, <1>6, <1>7, <1>8 DEF BanDeserved, BanHolds, DocumentedEngine, EngineKind, TwoInARow
  <1>13. ReplacedOnce'
    <2>1. ~download_done' => replaced # 1
      BY <1>2 DEF IndInv, ReplacedOnce, Asked
    <2>2. replaced \in Nat /\ replaced <= 1
      BY DEF IndInv, TypeOK, ReplacedOnce
    <2> QED BY <1>2, <1>6, <1>7, <2>1, <2>2 DEF ReplacedOnce, Asked
  <1> QED BY <1>9, <1>10, <1>11, <1>12, <1>13 DEF IndInv

(* A run, or a start that failed, ends with the outcome o. *)
LEMMA EndInv ==
  ASSUME IndInv, Asked, phase' = "source", NEW o \in RunOutcome, last' = o,
         up' \in BOOLEAN, LogIk(GoodRun(o)),
         o.ended = "Replaced" => spec.restart_when_healthy,
         replaced' = IF o.ended = "Replaced" THEN replaced + 1 ELSE replaced,
         UNCHANGED <<spec, starts, host, model, srcVars, planned>>
  PROVE  IndInv'
  <1>1. /\ UNCHANGED <<chooser, download_done, lastKind, active>>
        /\ lastKind = active /\ active \in EngineKind
        /\ o.ended \in Ended /\ GoodRun(o) \in BOOLEAN
    BY DEF srcVars, IndInv, SameEngine, TypeOK, RunOutcome, GoodRun
  <1>2. PICK n \in Nat : n = Len(ikRuns)
    BY LenProperties DEF IndInv, TypeOK
  <1>3. Noted(n)
    BY <1>2 DEF IndInv, OneBehind
  <1>4. OneBehind' /\ BanDeserved' /\ ikRuns' \in Seq(BOOLEAN)
    <2>1. CASE active = "Ik"
      <3>1. ikRuns' = Append(ikRuns, GoodRun(o)) /\ ikRuns \in Seq(BOOLEAN)
        BY <2>1 DEF LogIk, IndInv, TypeOK
      <3>2. /\ ikRuns' \in Seq(BOOLEAN) /\ Len(ikRuns') = n + 1 /\ ikRuns'[n + 1] = GoodRun(o)
            /\ Noted(n)'
            /\ TwoInARow(ikRuns) => TwoInARow(ikRuns')
        BY <1>1, <1>2, <1>3, <3>1, LogInv
      <3>3. OneBehind'
        <4>1. Len(ikRuns') >= 1 /\ Len(ikRuns') - 1 = n
          BY <3>2
        <4>2. Noted(Len(ikRuns) - 1)'
          BY <3>2, <4>1 DEF Noted
        <4> QED BY <1>1, <2>1, <3>2, <4>1, <4>2 DEF OneBehind, Asked
      <3> QED BY <1>1, <3>2, <3>3 DEF IndInv, BanDeserved
    <2>2. CASE active # "Ik"
      <3>1. ikRuns' = ikRuns
        BY <2>2 DEF LogIk
      <3>2. Noted(n)'
        BY <1>1, <1>3, <3>1 DEF Noted
      <3> QED BY <1>1, <1>2, <2>2, <3>1, <3>2 DEF IndInv, TypeOK, BanDeserved, OneBehind, Asked
    <2> QED BY <2>1, <2>2
  <1>5. TypeOK'
    BY <1>1, <1>4 DEF IndInv, TypeOK
  <1>6. SameEngine' /\ ReplaceOnlyLlama' /\ BanHolds' /\ DocumentedEngine'
    BY <1>1 DEF IndInv, SameEngine, ReplaceOnlyLlama, BanHolds, DocumentedEngine, Asked, Ended,
                EngineKind
  <1>7. ReplacedOnce'
    BY <1>1 DEF IndInv, TypeOK, ReplacedOnce, Asked
  <1> QED BY <1>4, <1>5, <1>6, <1>7 DEF IndInv

(* Every step keeps the invariant. *)
LEMMA NextInv == IndInv /\ [Next]_vars => IndInv'
  <1> SUFFICES ASSUME IndInv, [Next]_vars PROVE IndInv'
    OBVIOUS
  <1> USE MaxStartsAssumption
  <1>1. CASE Plan
    BY <1>1, PlanInv
  <1>2. CASE Spawned
    BY <1>2 DEF Spawned, Start, srcVars, IndInv, TypeOK, SameEngine, ReplaceOnlyLlama, OneBehind,
                Noted, BanDeserved, BanHolds, ReplacedOnce, DocumentedEngine, Asked
  <1>3. CASE SpawnFails
    <2>1. SpawnFailed \in RunOutcome /\ SpawnFailed.ended # "Replaced" /\ ~GoodRun(SpawnFailed)
      BY DEF SpawnFailed, RunOutcome, Ended, GoodRun
    <2>2. LogIk(GoodRun(SpawnFailed)) /\ up' \in BOOLEAN
      BY <1>3 DEF SpawnFails, NoStart, IndInv, TypeOK, LogIk, GoodRun, SpawnFailed
    <2> QED BY <1>3, <2>1, <2>2, EndInv DEF SpawnFails, NoStart, Asked
  <1>4. CASE RunEnds
    <2>1. PICK o \in RunOutcome :
            /\ Finish(o) /\ LogIk(GoodRun(o))
            /\ replaced' = IF o.ended = "Replaced" THEN replaced + 1 ELSE replaced
            /\ UNCHANGED <<host, model, srcVars, planned>>
      BY <1>4 DEF RunEnds
    <2> QED BY <2>1, EndInv DEF Finish, Possible, Asked
  <1>5. CASE HubStops
    BY <1>5 DEF HubStops, Close, srcVars, IndInv, TypeOK, SameEngine, ReplaceOnlyLlama, OneBehind,
                Noted, BanDeserved, BanHolds, ReplacedOnce, DocumentedEngine, Asked
  <1>6. CASE DiskChanges
    BY <1>6 DEF DiskChanges, runsVars, srcVars, IndInv, TypeOK, SameEngine, ReplaceOnlyLlama,
                OneBehind, Noted, BanDeserved, BanHolds, ReplacedOnce, DocumentedEngine, Asked
  <1>7. CASE UNCHANGED vars
    BY <1>7 DEF vars, runsVars, srcVars, IndInv, TypeOK, SameEngine, ReplaceOnlyLlama,
                OneBehind, Noted, BanDeserved, BanHolds, ReplacedOnce, DocumentedEngine, Asked
  <1> QED BY <1>1, <1>2, <1>3, <1>4, <1>5, <1>6, <1>7 DEF Next

LEMMA Invariant == Spec => []IndInv
  BY InitInv, NextInv, PTL DEF Spec

(* The supervised runs of the LLM: LlmSpecs is a source like any other, so *)
(* what is specified of every child holds of this one.                     *)
LEMMA RunsStepIsStep == IndInv /\ [Next]_vars => [RunsNext]_runsVars
  <1> SUFFICES ASSUME IndInv, [Next]_vars PROVE [RunsNext]_runsVars
    OBVIOUS
  <1>1. CASE Plan
    <2>1. IndInv'
      BY <1>1, PlanInv
    <2>2. spec' \in ChildSpec
      BY <2>1 DEF IndInv, TypeOK
    <2>3. Answer(spec')
      BY <1>1 DEF Plan, Answer
    <2> QED BY <2>2, <2>3 DEF RunsNext
  <1>2. CASE Spawned \/ SpawnFails \/ RunEnds \/ HubStops
    BY <1>2 DEF Spawned, SpawnFails, RunEnds, HubStops, RunsNext, RunsStep
  <1>3. CASE DiskChanges \/ UNCHANGED vars
    BY <1>3 DEF DiskChanges, vars
  <1> QED BY <1>1, <1>2, <1>3 DEF Next

THEOREM ImplementsRuns == Spec => RunsSpec
  <1>1. Init => RunsInit
    BY DEF Init
  <1> QED BY <1>1, RunsStepIsStep, Invariant, PTL DEF Spec, RunsSpec

(* What LlmSpecs keeps between two starts has its types. *)
THEOREM TypeCorrect == Spec => []TypeOK
  <1>1. IndInv => TypeOK
    BY DEF IndInv
  <1> QED BY <1>1, Invariant, PTL

(* Two bad runs of ik_llama.cpp in a row ban it until the hub stops,       *)
(* although the chooser hears of the second one only at the next plan, and *)
(* whatever happens to the model file in between.                          *)
THEOREM BannedForGood == Spec => []BanHolds
  <1>1. IndInv => BanHolds
    BY DEF IndInv
  <1> QED BY <1>1, Invariant, PTL

(* Nothing but two bad runs in a row bans it. *)
THEOREM BannedForAReason == Spec => []BanDeserved
  <1>1. IndInv => BanDeserved
    BY DEF IndInv
  <1> QED BY <1>1, Invariant, PTL

(* However often the model file comes and goes, llama.cpp is stopped once  *)
(* at most because of a download.                                          *)
THEOREM ReplacedAtMostOnce == Spec => []OneReplacement
  <1>1. IndInv => OneReplacement
    BY DEF IndInv, ReplacedOnce, OneReplacement
  <1> QED BY <1>1, Invariant, PTL

(* On every host, each start uses the engine that the table of docs/llm.md *)
(* says for the file that was there at the plan.                           *)
THEOREM EngineOfTheTable == Spec => []DocumentedEngine
  <1>1. IndInv => DocumentedEngine
    BY DEF IndInv
  <1> QED BY <1>1, Invariant, PTL


-----------------------------------------------------------------------------
(* The starts of the LLM in the program. *)

LEMMA ArchitectureIsKnown ==
  ASSUME NEW path
  PROVE  ArchitectureOf(path) \in Files
  <1>1. \A f \in Family : ik_architectures[f] \subseteq Architecture
    BY DEF ik_architectures, Architecture, Family
  <1>2. "Unreadable" \in Files /\ "other" \in Files /\ NoFile \in Files
    BY DEF Files, Architecture
  <1>3. UNION {ik_architectures[f] : f \in Family} \subseteq Files
    BY <1>1 DEF Files
  <1> QED BY <1>2, <1>3 DEF ArchitectureOf

LEMMA CommandIsStep == [CommandsNext]_commandVars => [Next]_vars
  <1> SUFFICES ASSUME [CommandsNext]_commandVars PROVE [Next]_vars
    OBVIOUS
  <1>1. CASE UNCHANGED commandVars
    BY <1>1 DEF commandVars
  <1>2. CASE ReadConfig \/ PrintCommand \/ CheckModels \/ VerifyGguf \/ Evaluate
    BY <1>2 DEF ReadConfig, PrintCommand, CheckModels, VerifyGguf, Evaluate
  <1>3. CASE PlanLine \/ SpawnLine \/ LineEnds
    BY <1>3 DEF PlanLine, SpawnLine, LineEnds, Next
  <1>4. CASE FilesChange
    <2>1. model' \in Files
      BY <1>4, ArchitectureIsKnown DEF FilesChange
    <2>2. CASE model' = model
      BY <1>4, <2>2 DEF FilesChange, vars
    <2>3. CASE model' # model
      BY <1>4, <2>1, <2>3 DEF FilesChange, Next, DiskChanges
    <2> QED BY <2>2, <2>3
  <1>5. CASE DropStale \/ DownloadModel \/ UpstreamChanges \/ UserChanges
    BY <1>4, <1>5 DEF DropStale, DownloadModel, UpstreamChanges, UserChanges
  <1> QED BY <1>1, <1>2, <1>3, <1>5 DEF CommandsNext

(* The starts that serve makes of the LLM engine, with the command lines,  *)
(* the cache of llama.cpp and the model file on disk, are starts of        *)
(* LlmSupervisor, ...                                                      *)
THEOREM ServeStartsTheChild == CommandsSpec => Spec
  <1>1. CommandsInit => Init
    BY DEF CommandsInit
  <1> QED BY <1>1, CommandIsStep, PTL DEF CommandsSpec, Spec

(* ... so what it says of the ban, of the replacement and of the table     *)
(* holds in the program, whatever llama.cpp does to its cache.             *)
THEOREM ServeKeepsTheChild ==
    CommandsSpec => [](BanHolds /\ BanDeserved /\ OneReplacement /\ DocumentedEngine)
  BY ServeStartsTheChild, BannedForGood, BannedForAReason, ReplacedAtMostOnce,
     EngineOfTheTable, PTL


-----------------------------------------------------------------------------
(* The evaluation. *)

(* The samples so far are those of the first questions, and no time is     *)
(* below 0.                                                                *)
Sampled(s) ==
    /\ IsList(s)
    /\ \A k \in 1..Len(s) :
           s[k].known_failure = Question(k).known_failure /\ s[k].wall \in Nat

EvalInv ==
    /\ speed \in Speeds
    /\ asked = [i |-> asked.i, rounds |-> asked.rounds, calls |-> asked.calls,
                bad |-> asked.bad, tool_error |-> asked.tool_error]
    /\ asked.i \in Nat
    /\ Sampled(samples)
    /\ IsList(reports) /\ Len(reports) <= 2
    /\ \A k \in 1..Len(reports) : Sampled(reports[k]) /\ Len(reports[k]) = Rounds
    /\ Len(reports) < 2 => asked.i = Len(samples) + 1 /\ Len(samples) <= Rounds
    /\ Len(reports) = 2 => asked.i > Rounds
    /\ verdict = "may" =>
           Len(reports) = 2 /\ compare(from_samples(reports[1]), from_samples(reports[2]))

LEMMA RoundsAre == Rounds \in Nat \ {0}
  <1>1. \A m, n \in Nat \ {0} : m * n \in Nat \ {0}
    OBVIOUS
  <1> QED BY <1>1, EvalAssumption DEF Rounds

LEMMA EvalInitInv == EvalInit => EvalInv
  <1> SUFFICES ASSUME EvalInit PROVE EvalInv
    OBVIOUS
  <1>1. IsList(<<>>) /\ Len(<<>>) = 0
    BY EmptySeq, SeqIsList
  <1> QED BY <1>1, RoundsAre DEF EvalInit, EvalInv, Sampled, Fresh

(* A sample of the question that is asked comes in. *)
LEMMA SampleInv ==
  ASSUME EvalInv, Asking, NEW a, a.i = asked.i, NEW reply, NEW error,
         EndWith(SampleOf(a, reply, error)), UNCHANGED <<speed, reports, verdict>>
  PROVE  EvalInv'
  <1>1. PICK n \in Nat : n = Len(samples) /\ IsList(samples)
    BY ListIs DEF EvalInv, Sampled
  <1>2. PICK e : e = SampleOf(a, reply, error)
    OBVIOUS
  <1>3. samples' = Append(samples, e) /\ asked' = Fresh(asked.i + 1)
    BY <1>2 DEF EndWith
  <1>4. asked.i = n + 1 /\ n + 1 <= Rounds /\ Len(reports) # 2
    <2>1. PICK l \in Nat : l = Len(reports) /\ l <= 2
      BY ListIs DEF EvalInv
    <2>2. PICK r \in Nat : r = Rounds
      BY RoundsAre
    <2>3. PICK i \in Nat : i = asked.i /\ i <= r
      BY <2>2 DEF EvalInv, Asking
    <2>4. l = 2 => i > r
      BY <2>1, <2>2, <2>3 DEF EvalInv
    <2>5. l < 2 => i = n + 1
      BY <1>1, <2>1, <2>3 DEF EvalInv
    <2> QED BY <2>1, <2>2, <2>3, <2>4, <2>5
  <1>5. /\ IsList(samples') /\ Len(samples') = n + 1 /\ samples'[n + 1] = e
        /\ \A k \in 1..n : samples'[k] = samples[k]
    BY <1>1, <1>3, ListAppend
  <1>6. e.known_failure = Question(n + 1).known_failure /\ e.wall \in Nat
    <2>1. speed.first \in Nat /\ speed.rest \in Nat
      BY EvalAssumption DEF EvalInv
    <2> QED BY <1>2, <1>4, <2>1, SMT DEF SampleOf
  <1>7. Sampled(samples')
    <2> SUFFICES ASSUME NEW k \in 1..Len(samples')
                 PROVE  /\ samples'[k].known_failure = Question(k).known_failure
                        /\ samples'[k].wall \in Nat
      BY <1>5 DEF Sampled
    <2>1. k = n + 1 \/ k \in 1..n
      BY <1>5
    <2> QED BY <1>1, <1>5, <1>6, <2>1 DEF EvalInv, Sampled
  <1>8. asked'.i = n + 2
    BY <1>3, <1>4 DEF Fresh
  <1>9. asked' = [i |-> asked'.i, rounds |-> asked'.rounds, calls |-> asked'.calls,
                  bad |-> asked'.bad, tool_error |-> asked'.tool_error]
    BY <1>3 DEF Fresh
  <1>10. reports' = reports /\ speed' = speed /\ verdict' = verdict /\ verdict # "may"
    BY <1>4 DEF EvalInv
  <1>11. Len(reports) < 2
    <2>1. PICK l \in Nat : l = Len(reports) /\ l <= 2
      BY ListIs DEF EvalInv
    <2> QED BY <1>4, <2>1
  <1>12. asked'.i = Len(samples') + 1 /\ Len(samples') <= Rounds
    BY <1>4, <1>5, <1>8
  <1>13. asked'.i \in Nat
    BY <1>8
  <1> QED BY <1>4, <1>7, <1>9, <1>10, <1>11, <1>12, <1>13 DEF EvalInv

LEMMA EvalNextInv == EvalInv /\ [EvalNext]_evalVars => EvalInv'
  <1> SUFFICES ASSUME EvalInv, [EvalNext]_evalVars PROVE EvalInv'
    OBVIOUS
  <1>1. CASE UNCHANGED evalVars
    BY <1>1 DEF evalVars, EvalInv, Sampled, Rounds, Question
  <1>2. CASE GiveUp
    <2>1. [asked EXCEPT !.bad = TRUE, !.tool_error = TRUE].i = asked.i
      BY DEF EvalInv
    <2> QED BY <1>2, <2>1, SampleInv DEF GiveUp
  <1>3. CASE ChatFails
    BY <1>3, SampleInv DEF ChatFails
  <1>4. CASE ChatAnswers
    <2>1. PICK reply \in Replies :
              \/ EndWith(SampleOf(asked, reply, FALSE))
              \/ asked' = Called(asked, reply.calls) /\ UNCHANGED samples
      BY <1>4 DEF ChatAnswers
    <2>2. CASE EndWith(SampleOf(asked, reply, FALSE))
      BY <1>4, <2>2, SampleInv DEF ChatAnswers
    <2>3. CASE asked' = Called(asked, reply.calls) /\ UNCHANGED samples
      <3>1. /\ asked' = [i |-> asked'.i, rounds |-> asked'.rounds, calls |-> asked'.calls,
                         bad |-> asked'.bad, tool_error |-> asked'.tool_error]
            /\ asked'.i = asked.i
        BY <2>3 DEF Called, EvalInv
      <3> QED BY <1>4, <2>3, <3>1 DEF ChatAnswers, EvalInv, Sampled, Rounds, Question
    <2> QED BY <2>1, <2>2, <2>3
  <1>5. CASE ReportWritten
    <2>1. PICK n \in Nat : n = Len(reports) /\ IsList(reports) /\ n < 2
      BY <1>5, ListIs DEF EvalInv, ReportWritten
    <2>2. Len(samples) = Rounds
      BY <1>5, <2>1, RoundsAre, ListIs DEF EvalInv, Sampled, ReportWritten
    <2>3. reports' = Append(reports, samples)
      BY <1>5 DEF ReportWritten
    <2>4. /\ IsList(reports') /\ Len(reports') = n + 1 /\ reports'[n + 1] = samples
          /\ \A k \in 1..n : reports'[k] = reports[k]
      BY <2>1, <2>3, ListAppend
    <2>5. \A k \in 1..Len(reports') : Sampled(reports'[k]) /\ Len(reports'[k]) = Rounds
      <3>1. TAKE k \in 1..Len(reports')
      <3>2. k = n + 1 \/ k \in 1..n
        BY <2>1, <2>4
      <3> QED BY <2>1, <2>2, <2>4, <3>2 DEF EvalInv
    <2>6. samples' = <<>> /\ Sampled(<<>>) /\ Len(<<>>) = 0
      <3>1. IsList(<<>>) /\ Len(<<>>) = 0
        BY EmptySeq, SeqIsList
      <3> QED BY <1>5, <3>1 DEF Sampled, ReportWritten
    <2>7. speed' \in Speeds
      BY <1>5 DEF ReportWritten, EvalInv
    <2>8. verdict' = verdict /\ verdict # "may"
      BY <1>5, <2>1 DEF ReportWritten, EvalInv
    <2>9. CASE n = 0
      <3>1. asked' = Fresh(1)
        BY <1>5, <2>1, <2>9 DEF ReportWritten
      <3> QED BY <2>4, <2>5, <2>6, <2>7, <2>8, <2>9, <3>1, RoundsAre DEF EvalInv, Sampled, Fresh, Rounds, Question
    <2>10. CASE n = 1
      <3>1. asked' = asked /\ asked.i > Rounds
        BY <1>5, <2>1, <2>10 DEF ReportWritten
      <3> QED BY <2>4, <2>5, <2>6, <2>7, <2>8, <2>10, <3>1 DEF EvalInv, Sampled, Rounds, Question
    <2> QED BY <2>1, <2>9, <2>10
  <1>6. CASE Compare
    <2>1. /\ asked' = asked /\ samples' = samples /\ speed' = speed /\ reports' = reports
          /\ Len(reports) = 2
      BY <1>6 DEF Compare
    <2>2. verdict' = "may" => compare(from_samples(reports[1]), from_samples(reports[2]))
      BY <1>6 DEF Compare
    <2>3. /\ speed' \in Speeds
          /\ asked' = [i |-> asked'.i, rounds |-> asked'.rounds, calls |-> asked'.calls,
                       bad |-> asked'.bad, tool_error |-> asked'.tool_error]
          /\ asked'.i \in Nat
          /\ Sampled(samples')
          /\ IsList(reports') /\ Len(reports') <= 2
          /\ \A k \in 1..Len(reports') : Sampled(reports'[k]) /\ Len(reports'[k]) = Rounds
          /\ Len(reports') < 2 => asked'.i = Len(samples') + 1 /\ Len(samples') <= Rounds
          /\ Len(reports') = 2 => asked'.i > Rounds
      BY <2>1 DEF EvalInv
    <2>4. EvalInv' <=>
              /\ speed' \in Speeds
              /\ asked' = [i |-> asked'.i, rounds |-> asked'.rounds, calls |-> asked'.calls,
                           bad |-> asked'.bad, tool_error |-> asked'.tool_error]
              /\ asked'.i \in Nat
              /\ Sampled(samples')
              /\ IsList(reports') /\ Len(reports') <= 2
              /\ \A k \in 1..Len(reports') : Sampled(reports'[k]) /\ Len(reports'[k]) = Rounds
              /\ Len(reports') < 2 => asked'.i = Len(samples') + 1 /\ Len(samples') <= Rounds
              /\ Len(reports') = 2 => asked'.i > Rounds
              /\ verdict' = "may" => Len(reports') = 2
                     /\ compare(from_samples(reports'[1]), from_samples(reports'[2]))
      BY DEF EvalInv
    <2> QED BY <2>1, <2>2, <2>3, <2>4
  <1> QED BY <1>1, <1>2, <1>3, <1>4, <1>5, <1>6 DEF EvalNext

(* A factor above 0 goes. *)
LEMMA Divided ==
  ASSUME NEW x \in Int, NEW y \in Int, NEW n \in Nat \ {0}, x * n <= y * n
  PROVE  x <= y
  <1> SUFFICES ASSUME y < x PROVE FALSE
    OBVIOUS
  <1>1. PICK d \in Nat \ {0} : x = y + d
    <2>1. x - y \in Nat \ {0} /\ x = y + (x - y)
      OBVIOUS
    <2> QED BY <2>1
  <1>2. x * n = y * n + d * n
    BY <1>1
  <1>3. d * n > 0
    OBVIOUS
  <1>4. y * n \in Int /\ d * n \in Int
    OBVIOUS
  <1> QED BY <1>2, <1>3, <1>4

LEMMA CountIsNat ==
  ASSUME NEW s, IsList(s), NEW S \in SUBSET DOMAIN s
  PROVE  Cardinality(S) \in Nat /\ (Cardinality(S) = 0 <=> S = {}) /\ IsFiniteSet(S)
  <1>1. IsFiniteSet(DOMAIN s)
    BY ListIs, FS_Interval
  <1> QED BY <1>1, FS_Subset, FS_CardinalityType, FS_EmptySet

(* The times of all samples but the first. *)
LEMMA RestIsNat ==
  ASSUME NEW s, Sampled(s), NEW n \in Nat \ {0}, Len(s) = n
  PROVE  Rest(s) \in Nat /\ Len(Tail(s)) = n - 1
  <1> DEFINE T == {s[k] : k \in DOMAIN s}
  <1>1. s \in Seq(T) /\ DOMAIN s = 1..n /\ s # <<>>
    BY ListIs DEF Sampled, IsList
  <1>2. /\ Tail(s) \in Seq(T) /\ Len(Tail(s)) = n - 1
        /\ \A k \in 1..n - 1 : Tail(s)[k] = s[k + 1]
    BY <1>1, HeadTailProperties, EmptySeq
  <1>3. PICK t : t = Tail(s) /\ DOMAIN t = 1..n - 1 /\ \A k \in 1..n - 1 : t[k] = s[k + 1]
    BY <1>2, LenProperties
  <1>4. \A k \in 1..n - 1 : t[k].wall \in Nat
    BY <1>3 DEF Sampled
  <1>5. Walls(t) \in Seq(Nat)
    <2>1. Walls(t) = [k \in 1..n - 1 |-> t[k].wall]
      BY <1>3 DEF Walls
    <2> QED BY <1>4, <2>1, SeqDef
  <1> QED BY <1>2, <1>3, <1>5, TotalNat DEF Rest

LEMMA Deserved == EvalInv => ReplacementDeserved
  <1> SUFFICES ASSUME EvalInv, verdict = "may", Rounds > 1 PROVE ReplacementDeserved
    BY DEF ReplacementDeserved
  <1>1. PICK n \in Nat : n = Rounds /\ n > 1
    BY RoundsAre
  <1>2. PICK a : a = reports[1] /\ Sampled(a) /\ Len(a) = n /\ DOMAIN a = 1..n
    <2>1. PICK a : a = reports[1]
      OBVIOUS
    <2>2. Len(reports) = 2 /\ 1 \in 1..Len(reports)
      <3>1. Len(reports) = 2
        BY DEF EvalInv
      <3> QED BY <3>1
    <2>3. Sampled(a) /\ Len(a) = n
      BY <1>1, <2>1, <2>2 DEF EvalInv
    <2>4. DOMAIN a = 1..n
      BY <2>3, ListIs DEF Sampled
    <2> QED BY <2>1, <2>3, <2>4
  <1>3. PICK b : b = reports[2] /\ Sampled(b) /\ Len(b) = n /\ DOMAIN b = 1..n
    <2>1. PICK b : b = reports[2]
      OBVIOUS
    <2>2. Len(reports) = 2 /\ 2 \in 1..Len(reports)
      <3>1. Len(reports) = 2
        BY DEF EvalInv
      <3> QED BY <3>1
    <2>3. Sampled(b) /\ Len(b) = n
      BY <1>1, <2>1, <2>2 DEF EvalInv
    <2>4. DOMAIN b = 1..n
      BY <2>3, ListIs DEF Sampled
    <2> QED BY <2>1, <2>3, <2>4
  <1>4. PICK p, q : p = from_samples(a) /\ q = from_samples(b) /\ compare(p, q)
    BY <1>2, <1>3 DEF EvalInv
  <1>5. a # <<>> /\ b # <<>>
    BY <1>1, <1>2, <1>3, EmptySeq
  <1>6. p = SummaryOver(a, Tail(a)) /\ q = SummaryOver(b, Tail(b))
    BY <1>4, <1>5 DEF from_samples
  <1>7. \A k \in DOMAIN b : ~b[k].error
    <2>1. Cardinality({k \in DOMAIN b : b[k].error}) = 0
      BY <1>4, <1>6 DEF compare, SummaryOver
    <2>2. {k \in DOMAIN b : b[k].error} = {}
      BY <1>3, <2>1, CountIsNat DEF Sampled
    <2> QED BY <2>2
  <1>8. 100 * Right(b) + 5 * Cardinality(Gating(a)) >= 100 * Right(a)
    <2>1. Gating(a) = Gating(b)
      BY <1>2, <1>3 DEF Gating, Sampled
    <2>2. PICK g \in Nat : g = Cardinality(Gating(a)) /\ (g = 0 <=> Gating(a) = {})
      BY <1>2, CountIsNat DEF Gating, Sampled
    <2>3. /\ {k \in Gating(a) : a[k].correct} \in SUBSET DOMAIN a
          /\ {k \in Gating(b) : b[k].correct} \in SUBSET DOMAIN b
      BY DEF Gating
    <2>4. PICK x \in Nat : x = Right(a) /\ (Gating(a) = {} => x = 0)
      BY <1>2, <2>3, CountIsNat DEF Right, Sampled
    <2>5. PICK y \in Nat : y = Right(b)
      BY <1>3, <2>3, CountIsNat DEF Right, Sampled
    <2>6. CASE g = 0
      BY <2>2, <2>4, <2>5, <2>6
    <2>7. CASE g # 0
      <3>1. p.quality = <<x, g>> /\ q.quality = <<y, g>>
        BY <1>6, <2>1, <2>2, <2>4, <2>5, <2>7 DEF SummaryOver, Rate, Right
      <3>2. 100 * x * g <= 100 * y * g + 5 * g * g
        BY <1>4, <3>1 DEF compare, AtMostPlus5
      <3>3. PICK u \in Int, v \in Int : u = 100 * x /\ v = 100 * y + 5 * g
        OBVIOUS
      <3>4. u * g <= v * g
        BY <3>2, <3>3
      <3>5. u <= v
        BY <2>7, <3>4, Divided
      <3> QED BY <2>2, <2>4, <2>5, <3>3, <3>5
    <2> QED BY <2>6, <2>7
  <1>9. 10 * Rest(b) <= 8 * Rest(a) \/ 10 * b[1].wall <= 7 * a[1].wall
    <2>1. PICK x \in Nat : x = Rest(a) /\ Len(Tail(a)) = n - 1
      BY <1>1, <1>2, RestIsNat
    <2>2. PICK y \in Nat : y = Rest(b) /\ Len(Tail(b)) = n - 1
      BY <1>1, <1>3, RestIsNat
    <2>3. PICK m \in Nat \ {0} : m = n - 1
      BY <1>1
    <2>4. p.mean = <<x, m>> /\ q.mean = <<y, m>>
      BY <1>6, <2>1, <2>2, <2>3 DEF SummaryOver, Rate, Rest
    <2>5. p.first = a[1].wall /\ q.first = b[1].wall
      BY <1>5, <1>6 DEF SummaryOver
    <2>6. CASE 10 * q.mean[1] * p.mean[2] <= 8 * p.mean[1] * q.mean[2]
      <3>1. PICK u \in Int, v \in Int : u = 10 * y /\ v = 8 * x
        OBVIOUS
      <3>2. u * m <= v * m
        BY <2>4, <2>6, <3>1
      <3>3. u <= v
        BY <3>2, Divided
      <3> QED BY <2>1, <2>2, <3>1, <3>3
    <2>7. CASE 10 * q.first <= 7 * p.first
      BY <2>5, <2>7
    <2> QED BY <1>4, <2>6, <2>7 DEF compare
  <1> QED BY <1>2, <1>3, <1>7, <1>8, <1>9 DEF ReplacementDeserved

LEMMA EvalInvariant == CommandsSpec => []EvalInv
  <1>1. CommandsInit => EvalInv
    BY EvalInitInv DEF CommandsInit
  <1>2. [CommandsNext]_commandVars => [EvalNext]_evalVars
    <2> SUFFICES ASSUME [CommandsNext]_commandVars PROVE [EvalNext]_evalVars
      OBVIOUS
    <2> QED
      BY DEF CommandsNext, commandVars, ReadConfig, PrintCommand, CheckModels, VerifyGguf,
             PlanLine, SpawnLine, LineEnds, KeepFiles, DropStale, DownloadModel,
             UpstreamChanges, UserChanges, FilesChange, Evaluate
  <1> QED BY <1>1, <1>2, EvalNextInv, PTL DEF CommandsSpec

(* compare lets B replace A only if B has earned it on the samples of both *)
(* runs, whatever the questions are and the engines answer: the rates have *)
(* the same known failures in both reports, and no rounding in them.       *)
THEOREM OnlyTheBetterReplaces == CommandsSpec => []ReplacementDeserved
  BY EvalInvariant, Deserved, PTL


-----------------------------------------------------------------------------
(* The GGUF reader: its numbers are naturals. *)

Step == [must: BOOLEAN, n: Nat]

LEMMA ScalarSizeIsNat == \A type \in DOMAIN scalar_size : scalar_size[type] \in Nat
  BY DEF scalar_size

LEMMA TypesDiffer ==
  StringType # ArrayType /\ StringType \notin DOMAIN scalar_size /\ ArrayType \notin DOMAIN scalar_size
  BY DEF StringType, ArrayType, scalar_size

LEMMA TypeSizeIs ==
  ASSUME NEW type \in DOMAIN type_size
  PROVE  type_size[type][1] \in Nat \ {0} /\ type_size[type][2] \in Nat
  <1> DEFINE P == {<<1, 4>>, <<1, 2>>, <<1, 8>>, <<1, 1>>, <<32, 17>>, <<32, 18>>, <<32, 20>>,
                   <<32, 22>>, <<32, 24>>, <<32, 34>>, <<32, 36>>, <<256, 84>>, <<256, 98>>,
                   <<256, 110>>, <<256, 136>>, <<256, 144>>, <<256, 176>>, <<256, 210>>,
                   <<256, 292>>}
  <1>1. type_size[type] \in P
    BY DEF type_size
  <1>2. \A p \in P : p[1] \in Nat \ {0} /\ p[2] \in Nat
    OBVIOUS
  <1> QED BY <1>1, <1>2

LEMMA ReadOrSkip == \A n \in Nat : Read(n) \in Step /\ Skip(n) \in Step
  BY DEF Read, Skip, Step

LEMMA OneStep == \A s \in Step : <<s>> \in Seq(Step)
  OBVIOUS

LEMMA ArrayIsSteps ==
  ASSUME NEW a, a.count \in Nat, a.len \in Nat
  PROVE  array_steps(a) \in Seq(Step)
  <1>1. PICK rest : /\ array_steps(a) = <<Read(12)>> \o rest
                    /\ rest = CASE a.elem \in DOMAIN scalar_size ->
                                      <<Skip(scalar_size[a.elem] * a.count)>>
                                [] a.elem = StringType ->
                                      FlattenSeq([i \in 1..a.count |-> <<Read(8), Skip(a.len)>>])
                                [] OTHER -> <<>>
    BY DEF array_steps
  <1>2. rest \in Seq(Step)
    <2>1. CASE a.elem \in DOMAIN scalar_size
      <3>1. PICK x \in Nat, y \in Nat : x = scalar_size[a.elem] /\ y = a.count
        BY <2>1, ScalarSizeIsNat
      <3>2. x * y \in Nat
        OBVIOUS
      <3>3. Skip(x * y) \in Step
        BY <3>2, ReadOrSkip
      <3>4. rest = <<Skip(x * y)>>
        BY <1>1, <2>1, <3>1, TypesDiffer
      <3> QED BY <3>3, <3>4, OneStep
    <2>2. CASE a.elem = StringType
      <3>1. PICK all : all = [i \in 1..a.count |-> <<Read(8), Skip(a.len)>>]
        OBVIOUS
      <3>2. Read(8) \in Step /\ Skip(a.len) \in Step
        BY ReadOrSkip
      <3>a. <<Read(8), Skip(a.len)>> \in Seq(Step)
        BY <3>2
      <3>3. PICK e \in Seq(Step) : e = <<Read(8), Skip(a.len)>>
        BY <3>a
      <3>4. PICK c \in Nat : c = a.count
        OBVIOUS
      <3>5. all = [i \in 1..c |-> e]
        BY <3>1, <3>3, <3>4
      <3>6. all \in Seq(Seq(Step))
        BY <3>5, SeqDef
      <3>7. rest = FlattenSeq(all)
        BY <1>1, <2>2, <3>1, TypesDiffer
      <3> QED BY <3>6, <3>7, FlattenIsSeq
    <2>3. CASE a.elem \notin DOMAIN scalar_size \cup {StringType}
      <3>1. rest = <<>>
        BY <1>1, <2>3
      <3> QED BY <3>1, EmptySeq
    <2> QED BY <2>1, <2>2, <2>3
  <1>3. <<Read(12)>> \in Seq(Step)
    BY ReadOrSkip, OneStep
  <1>4. array_steps(a) = <<Read(12)>> \o rest
    BY <1>1
  <1> QED BY <1>2, <1>3, <1>4, ConcatProperties

LEMMA KeyValueIsSteps ==
  ASSUME NEW kv, IsKeyValue(kv)
  PROVE  KeyValue(kv) \in Seq(Step)
  <1>1. PICK v : v = kv.value
    OBVIOUS
  <1>2. /\ kv.len \in Nat
        /\ v.type = StringType => v.len \in Nat
        /\ v.type = ArrayType => IsArray(v.arrays)
    BY <1>1 DEF IsKeyValue
  <1>3. skip_value(v) \in Seq(Step)
    <2>1. CASE v.type \in DOMAIN scalar_size
      <3>1. skip_value(v) = <<Skip(scalar_size[v.type])>>
        BY <2>1, TypesDiffer DEF skip_value
      <3>2. Skip(scalar_size[v.type]) \in Step
        BY <2>1, ScalarSizeIsNat, ReadOrSkip
      <3> QED BY <3>1, <3>2, OneStep
    <2>2. CASE v.type = StringType
      <3>1. skip_value(v) = <<Read(8), Skip(v.len)>>
        BY <2>2, TypesDiffer DEF skip_value
      <3>2. Read(8) \in Step /\ Skip(v.len) \in Step
        BY <1>2, <2>2, ReadOrSkip
      <3> QED BY <3>1, <3>2
    <2>3. CASE v.type = ArrayType
      <3>1. PICK a : /\ a = v.arrays /\ a \in Seq(ToSet(a))
                     /\ \A x \in ToSet(a) : x.count \in Nat /\ x.len \in Nat
        BY <1>2, <2>3 DEF IsArray
      <3>2. PICK n \in Nat : n = Len(a) /\ DOMAIN a = 1..n
        BY <3>1, LenProperties
      <3>3. PICK all : all = [i \in 1..n |-> array_steps(a[i])]
        OBVIOUS
      <3>4. \A i \in 1..n : array_steps(a[i]) \in Seq(Step)
        BY <3>1, <3>2, ArrayIsSteps DEF ToSet
      <3>5. all \in Seq(Seq(Step))
        BY <3>3, <3>4, SeqDef
      <3>6. skip_value(v) = FlattenSeq(all)
        BY <2>3, <3>1, <3>2, <3>3, TypesDiffer DEF skip_value
      <3> QED BY <3>5, <3>6, FlattenIsSeq
    <2>4. CASE v.type \notin DOMAIN scalar_size \cup {StringType, ArrayType}
      <3>1. skip_value(v) = <<>>
        BY <2>4 DEF skip_value
      <3> QED BY <3>1, EmptySeq
    <2> QED BY <2>1, <2>2, <2>3, <2>4
  <1>4. <<Read(8 + kv.len + 4)>> \in Seq(Step)
    <2>1. 8 + kv.len + 4 \in Nat
      BY <1>2
    <2> QED BY <2>1, ReadOrSkip, OneStep
  <1>5. CASE IsAlignment(kv)
    <2>1. <<Read(scalar_size[v.type])>> \in Seq(Step)
      BY <1>1, <1>5, ScalarSizeIsNat, ReadOrSkip, OneStep DEF IsAlignment
    <2> QED BY <1>1, <1>4, <1>5, <2>1, ConcatProperties DEF KeyValue
  <1>6. CASE ~IsAlignment(kv)
    BY <1>1, <1>3, <1>4, <1>6, ConcatProperties DEF KeyValue
  <1> QED BY <1>5, <1>6

LEMMA TensorIsSteps ==
  ASSUME NEW t, IsTensor(t)
  PROVE  Tensor(t) \in Seq(Step)
  <1>1. PICK l \in Nat : l = Len(t.dims)
    BY LenProperties DEF IsTensor
  <1>2. 8 + t.len + 4 + 8 * l + 4 + 8 \in Nat
    <2>1. PICK n \in Nat : n = t.len
      BY DEF IsTensor
    <2> QED BY <2>1
  <1> QED BY <1>1, <1>2, ReadOrSkip, OneStep DEF Tensor

LEMMA StepsAreSteps ==
  ASSUME NEW f, IsFile(f)
  PROVE  Steps(f.header) \in Seq(Step)
  <1>1. PICK h : h = f.header
    OBVIOUS
  <1>2. PICK k : k = h.kvs /\ k \in Seq(ToSet(k)) /\ \A kv \in ToSet(k) : IsKeyValue(kv)
    BY <1>1 DEF IsFile
  <1>3. PICK t : t = h.tensors /\ t \in Seq(ToSet(t)) /\ \A x \in ToSet(t) : IsTensor(x)
    BY <1>1 DEF IsFile
  <1>4. PICK ks : ks = [i \in DOMAIN k |-> KeyValue(k[i])]
    OBVIOUS
  <1>5. PICK ts : ts = [i \in DOMAIN t |-> Tensor(t[i])]
    OBVIOUS
  <1>6. ks \in Seq(Seq(Step))
    <2>1. PICK n \in Nat : n = Len(k) /\ DOMAIN k = 1..n
      BY <1>2, LenProperties
    <2>2. \A i \in 1..n : KeyValue(k[i]) \in Seq(Step)
      BY <1>2, <2>1, KeyValueIsSteps DEF ToSet
    <2> QED BY <1>4, <2>1, <2>2, SeqDef
  <1>7. ts \in Seq(Seq(Step))
    <2>1. PICK n \in Nat : n = Len(t) /\ DOMAIN t = 1..n
      BY <1>3, LenProperties
    <2>2. \A i \in 1..n : Tensor(t[i]) \in Seq(Step)
      BY <1>3, <2>1, TensorIsSteps DEF ToSet
    <2> QED BY <1>5, <2>1, <2>2, SeqDef
  <1>8. Preamble \in Seq(Step)
    <2>1. 4 + 4 + 8 + 8 \in Nat
      OBVIOUS
    <2> QED BY <2>1, ReadOrSkip, OneStep DEF Preamble
  <1>9. Steps(h) = Preamble \o FlattenSeq(ks) \o FlattenSeq(ts)
    BY <1>2, <1>3, <1>4, <1>5 DEF Steps
  <1>10. FlattenSeq(ks) \in Seq(Step) /\ FlattenSeq(ts) \in Seq(Step)
    BY <1>6, <1>7, FlattenIsSeq
  <1> QED BY <1>1, <1>8, <1>9, <1>10, ConcatProperties

LEMMA PositionIsNat ==
  ASSUME NEW steps \in Seq(Step)
  PROVE  Position(steps) \in Nat
  <1>1. PICK n \in Nat : n = Len(steps) /\ DOMAIN steps = 1..n /\ \A i \in 1..n : steps[i] \in Step
    BY LenProperties
  <1>2. PICK p : p = [i \in DOMAIN steps |-> steps[i].n]
    OBVIOUS
  <1>3. p \in Seq(Nat)
    BY <1>1, <1>2, SeqDef DEF Step
  <1> QED BY <1>2, <1>3, TotalNat DEF Position

LEMMA AlignedIsNat ==
  ASSUME NEW n \in Nat, NEW a \in Nat \ {0}
  PROVE  Aligned(n, a) \in Nat
  <1>1. PICK r \in 0..a - 1 : r = n % a
    OBVIOUS
  <1> QED BY <1>1 DEF Aligned

LEMMA DataStartIsNat ==
  ASSUME NEW f, IsFile(f)
  PROVE  DataStart(f.header) \in Nat
  <1>1. PICK k : k = f.header.kvs /\ k \in Seq(ToSet(k)) /\ \A kv \in ToSet(k) : IsKeyValue(kv)
    BY DEF IsFile
  <1>2. PICK n \in Nat : n = Len(k) /\ DOMAIN k = 1..n
    BY <1>1, LenProperties
  <1>3. PICK S \in SUBSET (1..n) : S = {i \in DOMAIN k : IsAlignment(k[i])}
    BY <1>2
  <1>4. Alignment(k) \in Nat \ {0}
    <2>1. CASE S = {}
      BY <1>3, <2>1 DEF Alignment
    <2>2. CASE S # {}
      <3>1. Max(S) \in S
        BY <2>2, GreatestOfSome
      <3>2. PICK kv : kv = k[Max(S)] /\ kv \in ToSet(k) /\ IsAlignment(kv)
        BY <1>3, <3>1 DEF ToSet
      <3>3. PICK x \in Nat : x = kv.value.number
        BY <1>1, <3>2 DEF IsKeyValue
      <3>4. Alignment(k) = Max({1, x})
        BY <1>3, <2>2, <3>2, <3>3 DEF Alignment
      <3>5. Max({1, x}) \in {1, x} /\ \A y \in {1, x} : Max({1, x}) >= y
        <4>1. \E m \in {1, x} : \A y \in {1, x} : m >= y
          OBVIOUS
        <4> QED BY <4>1 DEF Max
      <3> QED BY <3>4, <3>5
    <2> QED BY <2>1, <2>2
  <1>5. Position(Steps(f.header)) \in Nat
    BY StepsAreSteps, PositionIsNat
  <1> QED BY <1>1, <1>4, <1>5, AlignedIsNat DEF DataStart

LEMMA SaturatedIs ==
  ASSUME NEW n \in Nat
  PROVE  Saturated(n) \in Nat /\ (n < Word => Saturated(n) = n)
  BY MinOfTwo, GgufAssumption DEF Saturated

LEMMA ElementsIsNat ==
  ASSUME NEW t, IsTensor(t)
  PROVE  Elements(t) \in Nat
  <1>1. PICK d \in Seq(Nat) : d = t.dims
    BY DEF IsTensor
  <1>2. PICK n \in Nat : n = Len(d) /\ \A k \in 1..n : d[k] \in Nat
    OBVIOUS
  <1>3. \E f : f \in [0..n -> Nat]
               /\ f = [k \in 0..n |-> IF k = 0 THEN 1 ELSE Saturated(f[k-1] * d[k])]
    <2>1. PICK G : G = [x \in (1..n) \X Nat |-> Saturated(x[2] * d[x[1]])]
      OBVIOUS
    <2>2. ASSUME NEW k \in 1..n, NEW v \in Nat
          PROVE  G[<<k, v>>] = Saturated(v * d[k]) /\ G[<<k, v>>] \in Nat
      <3>1. <<k, v>> \in (1..n) \X Nat
        OBVIOUS
      <3>2. G[<<k, v>>] = Saturated(v * d[k])
        BY <2>1, <3>1
      <3>3. PICK w \in Nat : w = v * d[k]
        BY <1>2
      <3> QED BY <3>2, <3>3, SaturatedIs
    <2>3. G \in [(1..n) \X Nat -> Nat]
      <3>1. \A x \in (1..n) \X Nat : x = <<x[1], x[2]>> /\ x[1] \in 1..n /\ x[2] \in Nat
        OBVIOUS
      <3>2. \A x \in (1..n) \X Nat : G[x] \in Nat
        BY <2>2, <3>1
      <3> QED BY <2>1, <3>2
    <2>4. PICK f \in [0..n -> Nat] : f[0] = 1 /\ \A k \in 1..n : f[k] = G[<<k, f[k-1]>>]
      <3>1. PICK D : D = Nat
        OBVIOUS
      <3>2. PICK z \in D : z = 1
        BY <3>1
      <3>3. G \in [(1..n) \X D -> D]
        BY <2>3, <3>1
      <3>4. \E f \in [0..n -> D] : Recurs(f, z, n, G)
        BY <3>3, Recursion
      <3> QED BY <3>1, <3>2, <3>4 DEF Recurs
    <2>5. ASSUME NEW k \in 0..n
          PROVE  f[k] = IF k = 0 THEN 1 ELSE Saturated(f[k-1] * d[k])
      <3>1. CASE k = 0
        BY <2>4, <3>1
      <3>2. CASE k # 0
        <4>1. k \in 1..n /\ k - 1 \in 0..n
          BY <3>2
        <4>2. PICK v \in Nat : v = f[k-1]
          BY <4>1
        <4> QED BY <2>2, <2>4, <3>2, <4>1, <4>2
      <3> QED BY <3>1, <3>2
    <2>6. f = [k \in 0..n |-> IF k = 0 THEN 1 ELSE Saturated(f[k-1] * d[k])]
      BY <2>5
    <2> QED BY <2>6
  <1> DEFINE product == CHOOSE f : f = [k \in 0..Len(t.dims) |->
                                         IF k = 0 THEN 1 ELSE Saturated(f[k-1] * t.dims[k])]
  <1>4. \E f : f = [k \in 0..Len(t.dims) |->
                       IF k = 0 THEN 1 ELSE Saturated(f[k-1] * t.dims[k])]
    BY <1>1, <1>2, <1>3
  <1>5. product = [k \in 0..Len(t.dims) |->
                      IF k = 0 THEN 1 ELSE Saturated(product[k-1] * t.dims[k])]
    BY <1>4, Zenon
  <1>6. Elements(t) = product[Len(t.dims)]
    BY Zenon DEF Elements
  <1>7. PICK f : f = product
    OBVIOUS
  <1>8. f = [k \in 0..n |-> IF k = 0 THEN 1 ELSE Saturated(f[k-1] * d[k])]
    BY <1>1, <1>2, <1>5, <1>7
  <1> HIDE DEF product
  <1> DEFINE S == {k \in Nat : k <= n => f[k] \in Nat}
  <1>9. 0 \in S
    BY <1>8
  <1>10. ASSUME NEW k \in Nat, k \in S PROVE k + 1 \in S
    <2> SUFFICES ASSUME k + 1 <= n PROVE f[k + 1] \in Nat
      OBVIOUS
    <2>1. PICK v \in Nat : v = f[k]
      BY <1>10
    <2>2. k + 1 \in 1..n /\ (k + 1) - 1 = k
      OBVIOUS
    <2>3. PICK w \in Nat : w = v * d[k + 1]
      BY <1>2, <2>2
    <2>4. f[k + 1] = Saturated(w)
      BY <1>8, <2>1, <2>2, <2>3
    <2> QED BY <2>4, SaturatedIs
  <1> HIDE DEF S
  <1>11. Nat \subseteq S
    BY <1>9, <1>10, Induct
  <1>12. n \in S
    BY <1>11
  <1>13. f[n] \in Nat
    BY <1>12 DEF S
  <1> QED BY <1>1, <1>2, <1>6, <1>7, <1>13

-----------------------------------------------------------------------------
(* A file that passes the check is whole: for a known tensor of an honest  *)
(* header neither the product nor a sum leaves the 64 bits.                *)

Bytes(t) == (Elements(t) \div type_size[t.type][1]) * type_size[t.type][2]

LEMMA BytesIsNat ==
  ASSUME NEW t, IsTensor(t), t.type \in DOMAIN type_size
  PROVE  Bytes(t) \in Nat
  <1>1. PICK e \in Nat, b \in Nat \ {0}, s \in Nat :
            e = Elements(t) /\ b = type_size[t.type][1] /\ s = type_size[t.type][2]
    BY ElementsIsNat, TypeSizeIs
  <1>2. PICK q \in Nat : q = e \div b
    OBVIOUS
  <1>3. q * s \in Nat
    OBVIOUS
  <1> QED BY <1>1, <1>2, <1>3 DEF Bytes

LEMMA CheckedIsWhole ==
  ASSUME NEW path, NEW f \in path, path = {f}, IsFile(f), check(path), Honest(f.header)
  PROVE  Whole(f)
  <1>1. PICK h : h = f.header
    OBVIOUS
  <1>2. PICK len \in Nat : len = f.len
    BY DEF IsFile
  <1>3. PICK want : want \in expected_min_size(f) /\ len >= want
    BY <1>2 DEF check
  <1>4. PICK s \in Nat : s = DataStart(h)
    BY <1>1, DataStartIsNat
  <1>5. PICK l : l = LastEnd(h)
    OBVIOUS
  <1>6. want = (s + l) % Word
    BY <1>1, <1>3, <1>4, <1>5 DEF expected_min_size
  <1>7. PICK w \in Nat : w = Word /\ w > 1
    BY GgufAssumption
  <1>8. \A t \in ToSet(h.tensors) : IsTensor(t)
    BY <1>1 DEF IsFile
  <1>9. ASSUME NEW t \in ToSet(h.tensors), t.type \in DOMAIN type_size
        PROVE  /\ DataEnd(h, t) \in Nat /\ DataEnd(h, t) < w
               /\ TensorEnd(t) \in Nat /\ DataEnd(h, t) = s + TensorEnd(t)
    <2>1. PICK o \in Nat, b \in Nat : o = t.offset /\ b = Bytes(t)
      BY <1>8, <1>9, BytesIsNat DEF IsTensor
    <2>2. DataEnd(h, t) = s + o + b
      BY <1>4, <2>1 DEF DataEnd, DataStart, Bytes
    <2>3. DataEnd(h, t) < w
      BY <1>1, <1>7, <1>9 DEF Honest
    <2>4. b < w /\ o + b < w /\ o + b \in Nat
      BY <2>2, <2>3
    <2>5. b % w = b
      BY <1>7, <2>4
    <2>6. TensorEnd(t) = Saturated(o + (b % w))
      BY <1>7, <1>9, <2>1 DEF TensorEnd, Bytes
    <2>7. TensorEnd(t) = o + b
      BY <1>7, <2>4, <2>5, <2>6, SaturatedIs
    <2> QED BY <2>2, <2>3, <2>7
  <1>10. \A t \in ToSet(h.tensors) : t.type \notin DOMAIN type_size => TensorEnd(t) = 0
    BY DEF TensorEnd
  <1>11. PICK n \in Nat : DOMAIN h.tensors = 1..n
    BY <1>1, LenProperties DEF IsFile
  <1>12. PICK ends : ends = [i \in 1..n |-> TensorEnd(h.tensors[i])]
    OBVIOUS
  <1>13. \A i \in 1..n : h.tensors[i] \in ToSet(h.tensors)
    BY <1>11 DEF ToSet
  <1>14. \A i \in 1..n : (ends[i] \in Nat /\ s + ends[i] < w) \/ ends[i] = 0
    BY <1>9, <1>10, <1>12, <1>13
  <1>15. PICK S : S = {0} \cup {ends[i] : i \in 1..n}
    OBVIOUS
  <1>16. l = Max(S)
    BY <1>5, <1>11, <1>12, <1>15 DEF LastEnd
  <1>17. l \in S /\ \A y \in S : l >= y
    <2>1. \A i \in 1..n : ends[i] \in Nat
      BY <1>14
    <2>2. Max(S) \in S /\ \A y \in S : Max(S) >= y
      BY <1>15, <2>1, GreatestIs
    <2> QED BY <1>16, <2>2
  <1> SUFFICES ASSUME NEW t \in ToSet(h.tensors), t.type \in DOMAIN type_size
               PROVE  DataEnd(h, t) <= len
    BY <1>1, <1>2 DEF Whole
  <1>18. PICK e \in Nat : e = TensorEnd(t) /\ DataEnd(h, t) = s + e /\ s + e < w
    BY <1>9
  <1>19. e \in S
    <2>1. PICK i \in 1..n : t = h.tensors[i]
      BY <1>11 DEF ToSet
    <2> QED BY <1>12, <1>15, <1>18, <2>1
  <1>20. l \in Nat /\ s + l < w /\ l >= e
    BY <1>14, <1>15, <1>17, <1>18, <1>19
  <1>21. want = s + l
    BY <1>6, <1>7, <1>20
  <1> QED BY <1>3, <1>18, <1>20, <1>21

-----------------------------------------------------------------------------
(* No engine gets a file that was cut. *)

FilesInv ==
    /\ at \in Cases
    /\ stage # "serving" => local = at.llm
    /\ stage = "print" => at.command # "verify-gguf"
    /\ stage \in {"check", "serving"} => at.command = "serve"

LEMMA FilesInitInv == CommandsInit => FilesInv
  BY DEF CommandsInit, FilesInv

LEMMA FilesNextInv == FilesInv /\ [CommandsNext]_commandVars => FilesInv'
  <1> SUFFICES ASSUME FilesInv, [CommandsNext]_commandVars PROVE FilesInv'
    OBVIOUS
  <1>1. CASE UNCHANGED <<at, stage, local>>
    BY <1>1 DEF FilesInv
  <1>2. CASE UNCHANGED commandVars
    BY <1>1, <1>2 DEF commandVars, serveVars
  <1>3. CASE ReadConfig
    BY <1>3 DEF ReadConfig, FilesInv
  <1>4. CASE PrintCommand
    BY <1>4 DEF PrintCommand, FilesInv
  <1>5. CASE CheckModels
    BY <1>5 DEF CheckModels, FilesInv
  <1>6. CASE VerifyGguf
    BY <1>6 DEF VerifyGguf, FilesInv
  <1>7. CASE PlanLine \/ SpawnLine \/ LineEnds
    BY <1>1, <1>7 DEF PlanLine, SpawnLine, LineEnds, KeepFiles
  <1>8. CASE DropStale \/ DownloadModel \/ UpstreamChanges
    BY <1>1, <1>8 DEF DropStale, DownloadModel, UpstreamChanges, FilesChange
  <1>9. CASE UserChanges
    BY <1>9 DEF UserChanges, FilesChange, Serving, FilesInv
  <1>10. CASE Evaluate
    BY <1>1, <1>10 DEF Evaluate, serveVars
  <1> QED BY <1>2, <1>3, <1>4, <1>5, <1>6, <1>7, <1>8, <1>9, <1>10 DEF CommandsNext

LEMMA FilesInvariant == CommandsSpec => []FilesInv
  BY FilesInitInv, FilesNextInv, PTL DEF CommandsSpec

(* Only the two steps that check the files get past the check. *)
LEMMA OnlyChecked ==
  ASSUME FilesInv, [CommandsNext]_commandVars, stage' # stage,
         stage' = "serving" \/ (at.command = "verify-gguf" /\ stage' = "done")
  PROVE  /\ local = at.llm /\ check(at.speech)
         /\ \/ at.command = "verify-gguf" /\ check(local)
            \/ /\ at.command = "serve"
               /\ \A c \in LlmOf(cfg) : c.source = "file" => check(local)
  <1>1. stage # "serving" => local = at.llm
    BY DEF FilesInv
  <1>2. CASE CheckModels
    <2>1. /\ stage = "check" /\ stage' = "serving" /\ check(at.speech)
          /\ \A c \in LlmOf(cfg) : c.source = "file" => check(local)
      BY <1>2 DEF CheckModels
    <2> QED BY <1>1, <2>1 DEF FilesInv
  <1>3. CASE VerifyGguf
    <2>1. /\ stage = "start" /\ at.command = "verify-gguf"
          /\ check(at.speech) /\ check(local)
      BY <1>3 DEF VerifyGguf
    <2> QED BY <1>1, <2>1
  <1>4. CASE ReadConfig
    BY <1>4 DEF ReadConfig
  <1>5. CASE PrintCommand
    BY <1>5 DEF PrintCommand, FilesInv
  <1>6. CASE PlanLine \/ SpawnLine \/ LineEnds
    BY <1>6 DEF PlanLine, SpawnLine, LineEnds, KeepFiles
  <1>7. CASE DropStale \/ DownloadModel \/ UpstreamChanges \/ UserChanges
    BY <1>7 DEF DropStale, DownloadModel, UpstreamChanges, UserChanges, FilesChange
  <1>8. CASE Evaluate
    BY <1>8 DEF Evaluate, serveVars
  <1>9. CASE UNCHANGED commandVars
    BY <1>9 DEF commandVars, serveVars
  <1> QED BY <1>2, <1>3, <1>4, <1>5, <1>6, <1>7, <1>8, <1>9 DEF CommandsNext

LEMMA PassedIsWhole ==
  ASSUME FilesInv, [CommandsNext]_commandVars
  PROVE  [ /\ stage' # stage
           /\ stage' = "serving" \/ (at.command = "verify-gguf" /\ stage' = "done")
           => \A f \in at.speech \cup
                       (IF at.command = "verify-gguf" \/ \E c \in LlmOf(cfg) : c.source = "file"
                        THEN local ELSE {}) :
                  Honest(f.header) => Whole(f) ]_commandVars
  <1> SUFFICES ASSUME stage' # stage,
                      stage' = "serving" \/ (at.command = "verify-gguf" /\ stage' = "done"),
                      NEW f \in at.speech \cup
                          (IF at.command = "verify-gguf" \/ \E c \in LlmOf(cfg) : c.source = "file"
                           THEN local ELSE {}),
                      Honest(f.header)
               PROVE  Whole(f)
    OBVIOUS
  <1>1. /\ local = at.llm /\ check(at.speech)
        /\ \/ at.command = "verify-gguf" /\ check(local)
           \/ /\ at.command = "serve"
              /\ \A c \in LlmOf(cfg) : c.source = "file" => check(local)
    BY OnlyChecked
  <1>2. CASE f \in at.speech
    <2>1. at.speech = {f} /\ IsFile(f)
      BY <1>2, CommandsAssumption DEF FilesInv
    <2> QED BY <1>1, <1>2, <2>1, CheckedIsWhole
  <1>3. CASE f \notin at.speech
    <2>1. f \in local /\ (at.command = "verify-gguf" \/ \E c \in LlmOf(cfg) : c.source = "file")
      BY <1>3
    <2>2. check(at.llm)
      BY <1>1, <2>1
    <2>3. at.llm = {f} /\ IsFile(f)
      BY <1>1, <2>1, CommandsAssumption DEF FilesInv
    <2> QED BY <2>2, <2>3, CheckedIsWhole
  <1> QED BY <1>2, <1>3

(* No hub begins to serve with a file that was cut anywhere, and           *)
(* verify-gguf does not pass one, whatever tensors, types, nested arrays   *)
(* and lengths its header has and wherever 64 bits end.                    *)
THEOREM NoCutFile == CommandsSpec => WholeOrRefused
  <1>1. CommandsSpec => []FilesInv
    BY FilesInvariant
  <1> QED BY <1>1, PassedIsWhole, PTL DEF CommandsSpec, WholeOrRefused

-----------------------------------------------------------------------------
(* No start deletes the model. *)

IsAsked(f) == f.repo = Names[Llm.name].repo /\ f.quant = Quant(Llm.name)

(* A start without --offline, for which the cache could be listed, had no  *)
(* file of this quantization before it, so that one that is there now is   *)
(* the download of this very run.                                          *)
CacheInv ==
    /\ upstream \in DOMAIN Upstream /\ seen \in DOMAIN Upstream
    /\ phase \in {"spawn", "run"} => stage = "serving"
    /\ /\ listed
       /\ phase \in {"spawn", "run"}
       /\ active = "LlamaCpp" /\ Llm.source = "repo"
       /\ \A l \in line : ~IsOffline(l)
       => \A f \in cache : IsAsked(f) =>
              phase = "run" /\ f \in Upstream[seen] /\ ~f.mmproj

LEMMA UpstreamIsList ==
  \E n \in Nat \ {0} : n = Len(Upstream) /\ DOMAIN Upstream = 1..n
  <1>1. PICK u : u = Upstream /\ u # <<>> /\ u \in Seq(ToSet(u))
    BY CommandsAssumption
  <1>2. PICK n \in Nat : n = Len(u) /\ DOMAIN u = 1..n
    BY <1>1, LenProperties
  <1>3. n # 0
    BY <1>1, <1>2, EmptySeq
  <1> QED BY <1>1, <1>2, <1>3

LEMMA CacheInitInv == CommandsInit => CacheInv
  BY UpstreamIsList DEF CommandsInit, Init, RunsInit, CacheInv

(* The plan of llama.cpp has --offline if its list has the key. *)
LEMMA OfflineLine ==
  ASSUME NEW kind, kind # "Ik", Llm.source = "repo", NEW f \in cache, IsAsked(f)
  PROVE  IsOffline(LineOf(kind, TRUE))
  <1>1. <<f.repo, f.quant>> = cache_key(Llm.name)
    BY DEF IsAsked, cache_key
  <1>2. is_cached(TRUE, cache, Llm.name)
    BY <1>1 DEF is_cached, cache_list_contains, cache_list
  <1>3. Llm.source # "file"
    OBVIOUS
  <1>4. PICK slots, path : LineOf(kind, TRUE) = llamacpp_spec(Llm, slots, TRUE, path, at.machine.tmp)
    BY <1>2 DEF LineOf
  <1>5. PICK rest : LineOf(kind, TRUE).args = server_args(Llm, slots, TRUE, rest)
    <2>1. llamacpp_spec(Llm, slots, TRUE, path, at.machine.tmp).args
              = server_args(Llm, slots, TRUE, template_for(Llm, path, at.machine.tmp))
      BY DEF llamacpp_spec
    <2> QED BY <1>4, <2>1
  <1>6. When(TRUE, Flag("--offline")) = Flag("--offline")
    BY DEF When
  <1> QED BY <1>3, <1>5, <1>6, Zenon DEF server_args, IsOffline

(* A change on the disk goes on with the start that is under way. *)
LEMMA FilesChangeKeeps ==
  ASSUME FilesChange
  PROVE  /\ phase' = phase /\ active' = active /\ at' = at /\ stage' = stage
         /\ seen' = seen /\ line' = line /\ listed' = listed /\ Llm' = Llm
         /\ Serving
  BY DEF FilesChange, runsVars, srcVars, Llm, LlmOf

LEMMA CacheNextInv == CacheInv /\ [CommandsNext]_commandVars => CacheInv'
  <1> SUFFICES ASSUME CacheInv, [CommandsNext]_commandVars PROVE CacheInv'
    OBVIOUS
  <1>1. CASE UNCHANGED <<vars, serveVars>>
    <2>1. /\ phase' = phase /\ active' = active /\ at' = at /\ stage' = stage /\ cfg' = cfg
          /\ cache' = cache /\ upstream' = upstream /\ seen' = seen /\ line' = line
          /\ listed' = listed
      BY <1>1 DEF vars, runsVars, srcVars, serveVars
    <2>2. Llm' = Llm
      BY <2>1 DEF Llm, LlmOf
    <2>3. \A f : IsAsked(f)' <=> IsAsked(f)
      BY <2>2 DEF IsAsked
    <2> QED BY <2>1, <2>2, <2>3 DEF CacheInv
  <1>2. CASE UNCHANGED commandVars
    BY <1>1, <1>2 DEF commandVars
  <1>3. CASE ReadConfig \/ PrintCommand \/ CheckModels \/ VerifyGguf
    <2>1. /\ stage # "serving" /\ phase' = phase
          /\ upstream' = upstream /\ seen' = seen
      BY <1>3 DEF ReadConfig, PrintCommand, CheckModels, VerifyGguf, vars, runsVars
    <2> QED BY <2>1 DEF CacheInv
  <1>4. CASE PlanLine
    <2>1. /\ phase' = "spawn" /\ stage' = "serving" /\ line' = {LineOf(active', listed')}
          /\ listed' \in BOOLEAN
          /\ at' = at /\ cache' = cache /\ upstream' = upstream /\ seen' = seen /\ cfg' = cfg
      BY <1>4 DEF PlanLine, Plan, Answer, Serving, KeepFiles
    <2>2. Llm' = Llm
      BY <2>1 DEF Llm, LlmOf
    <2>3. ASSUME active' = "LlamaCpp", Llm.source = "repo", NEW f \in cache, IsAsked(f),
                 \A l \in line' : ~IsOffline(l)
          PROVE  ~listed'
      BY <2>1, <2>3, OfflineLine
    <2>4. \A f : IsAsked(f)' <=> IsAsked(f)
      BY <2>2 DEF IsAsked
    <2> QED BY <2>1, <2>2, <2>3, <2>4 DEF CacheInv
  <1>5. CASE SpawnLine
    <2>1. /\ phase = "spawn" /\ phase' = "run" /\ active' = active
          /\ stage' = "serving" /\ line' = line
          /\ at' = at /\ listed' = listed /\ cache' = cache /\ upstream' = upstream /\ seen' = upstream /\ cfg' = cfg
      BY <1>5 DEF SpawnLine, Spawned, Start, Serving, KeepFiles, srcVars
    <2>2. Llm' = Llm
      BY <2>1 DEF Llm, LlmOf
    <2>3. \A f : IsAsked(f)' <=> IsAsked(f)
      BY <2>2 DEF IsAsked
    <2> QED BY <2>1, <2>2, <2>3 DEF CacheInv
  <1>6. CASE LineEnds
    <2>1. /\ phase' \in {"source", "ended"}
          /\ upstream' = upstream /\ seen' = seen
      BY <1>6 DEF LineEnds, SpawnFails, NoStart, RunEnds, Finish, HubStops, Close, KeepFiles
    <2> QED BY <2>1 DEF CacheInv
  <1>7. CASE DropStale \/ UserChanges
    <2>1. cache' \subseteq cache /\ upstream' = upstream /\ FilesChange
      BY <1>7 DEF DropStale, UserChanges
    <2>2. \A f : IsAsked(f)' <=> IsAsked(f)
      BY <2>1, FilesChangeKeeps DEF IsAsked
    <2> QED BY <2>1, <2>2, FilesChangeKeeps DEF CacheInv
  <1>8. CASE DownloadModel
    <2>1. PICK new \in Choice : cache' = cache \cup {new}
      BY <1>8 DEF DownloadModel
    <2>2. new \in Upstream[seen] /\ ~new.mmproj
      BY <2>1 DEF Choice
    <2>3. upstream' = upstream /\ FilesChange /\ phase = "run"
      BY <1>8 DEF DownloadModel, Online
    <2>4. \A f : IsAsked(f)' <=> IsAsked(f)
      BY <2>3, FilesChangeKeeps DEF IsAsked
    <2> QED BY <2>1, <2>2, <2>3, <2>4, FilesChangeKeeps DEF CacheInv
  <1>9. CASE UpstreamChanges
    <2>1. cache' = cache /\ FilesChange
      BY <1>9 DEF UpstreamChanges
    <2>2. upstream' \in DOMAIN Upstream
      <3>1. PICK n \in Nat \ {0} : n = Len(Upstream) /\ DOMAIN Upstream = 1..n
        BY UpstreamIsList
      <3>2. DOMAIN Upstream = 1..n
        BY <3>1
      <3>3. upstream \in 1..n
        BY <3>2 DEF CacheInv
      <3>4. upstream < n /\ upstream' = upstream + 1
        BY <1>9, <3>1 DEF UpstreamChanges
      <3> QED BY <3>2, <3>3, <3>4
    <2>3. \A f : IsAsked(f)' <=> IsAsked(f)
      BY <2>1, FilesChangeKeeps DEF IsAsked
    <2> QED BY <2>1, <2>2, <2>3, FilesChangeKeeps DEF CacheInv
  <1>10. CASE Evaluate
    BY <1>1, <1>10 DEF Evaluate
  <1> QED BY <1>2, <1>3, <1>4, <1>5, <1>6, <1>7, <1>8, <1>9, <1>10 DEF CommandsNext

(* Only DropStale takes a file away, and only another one of the same      *)
(* repository and quantization in the same state of Hugging Face can do it.*)
LEMMA NoStepDrops ==
  ASSUME CacheInv, [CommandsNext]_commandVars
  PROVE  [Serving /\ listed => \A f \in cache :
             f.repo = Names[Llm.name].repo /\ f.quant = Quant(Llm.name) => f \in cache']_commandVars
  <1> SUFFICES ASSUME Serving, listed, NEW f \in cache, IsAsked(f), CommandsNext PROVE f \in cache'
    BY DEF IsAsked, commandVars, serveVars
  <1>1. CASE DropStale
    <2>1. PICK new \in Choice : cache' = {old \in cache : SameModel(old, new) => old = new}
      BY <1>1 DEF DropStale
    <2>2. new \in Upstream[seen] /\ ~new.mmproj
      BY <2>1 DEF Choice
    <2>3. Online
      BY <1>1 DEF DropStale
    <2>4. f \in Upstream[seen] /\ ~f.mmproj
      BY <2>3 DEF Online, CacheInv
    <2>5. SameModel(f, new) => f = new
      BY <2>2, <2>4, CommandsAssumption DEF SameModel, CacheInv
    <2> QED BY <2>1, <2>5
  <1>2. CASE DownloadModel
    BY <1>2 DEF DownloadModel
  <1>3. CASE ~DropStale /\ ~DownloadModel
    BY <1>3 DEF CommandsNext, ReadConfig, PrintCommand, CheckModels, VerifyGguf, PlanLine,
                SpawnLine, LineEnds, KeepFiles, UpstreamChanges, UserChanges, Evaluate, serveVars
  <1> QED BY <1>1, <1>2, <1>3

(* "The image never deletes a model", however upstream changes between the *)
(* starts, whichever engines they start, and whatever ends them, but in a  *)
(* run for which llama.cpp failed to list its cache.                       *)
THEOREM NoModelDeleted == CommandsSpec => CachedStays
  <1>1. CommandsSpec => []CacheInv
    BY CacheInitInv, CacheNextInv, PTL DEF CommandsSpec
  <1> QED BY <1>1, NoStepDrops, PTL DEF CommandsSpec, CachedStays
=============================================================================
