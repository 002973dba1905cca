--------------------------- MODULE LlmSupervisor ----------------------------
(***************************************************************************)
(* The LLM child: the supervised runs with LlmSpecs as their source        *)
(* (src/src/llm/specs.rs).  Before each start, plan notes the outcome of   *)
(* the run before, looks at the facts again and picks the engine.          *)
(*                                                                         *)
(* The model file is not the hub's: llama.cpp downloads it during a run,   *)
(* and the user may add, change or remove it at any time.                  *)
(***************************************************************************)
EXTENDS SupervisedRuns, LlmEngine, Sequences

CONSTANTS
    Hosts    \* the configurations and machines to look at

ASSUME HostsAssumption == Hosts \subseteq HostFacts

VARIABLES
    host,           \* LlmSpecs.cfg, LlmSpecs.host
    model,          \* the model file on disk: NoFile, or its architecture
    chooser,        \* LlmSpecs.chooser
    download_done,  \* LlmSpecs.download_done
    lastKind,       \* LlmSpecs.last: the engine of the start before
    active,         \* ActiveEngine
    planned,        \* history: the model file that the last plan found
    ikRuns,         \* history: for each run of ik_llama.cpp, was it good
    replaced        \* history: runs that were stopped for a replacement

srcVars == <<chooser, download_done, lastKind, active>>
vars    == <<runsVars, host, model, srcVars, planned, ikRuns, replaced>>

Kinds == EngineKind \cup {"None"}
Files == Architecture \cup {NoFile}

TypeOK ==
    /\ phase \in {"source", "spawn", "run", "ended"}
    /\ spec \in ChildSpec
    /\ last \in RunOutcome \cup {NoOutcome}
    /\ starts \in 0..MaxStarts
    /\ up \in BOOLEAN
    /\ host \in Hosts
    /\ model \in Files /\ planned \in Files
    /\ chooser \in Chooser
    /\ download_done \in BOOLEAN
    /\ lastKind \in Kinds
    /\ active \in EngineKind
    /\ ikRuns \in Seq(BOOLEAN)
    /\ replaced \in Nat

Init ==
    /\ RunsInit
    /\ host \in Hosts
    /\ model \in Files
    /\ chooser = NewChooser
    /\ download_done = FALSE
    /\ lastKind = "None"
    /\ active = "LlamaCpp"
    /\ planned = NoFile
    /\ ikRuns = <<>>
    /\ replaced = 0

(* The specs of both engines have a health probe. *)
SpecFor(d) == [health |-> TRUE, restart_when_healthy |-> d.download_first]

(* Mutant: the outcome of the last run is noted after the choice. *)
PlanThenNote ==
    /\ chooser' = IF lastKind = "None" THEN chooser ELSE note(chooser, lastKind, last)
    /\ download_done' = (download_done \/ last.ended = "Replaced")
    /\ LET d == decide(host, model, download_done', chooser.banned)
       IN  /\ Answer(SpecFor(d))
           /\ lastKind' = d.kind
           /\ active' = d.kind
    /\ planned' = model
    /\ UNCHANGED <<host, model, ikRuns, replaced>>

(* LlmSpecs::plan.  Decision and engine come from one lookup of the file;  *)
(* the command line of the spec is left out.                               *)
Plan ==
    /\ chooser' = IF lastKind = "None" THEN chooser ELSE note(chooser, lastKind, last)
    /\ download_done' = (download_done \/ last.ended = "Replaced")
    /\ LET d == decide(host, model, download_done', chooser'.banned)
       IN  /\ Answer(SpecFor(d))
           /\ lastKind' = d.kind
           /\ active' = d.kind
    /\ planned' = model
    /\ UNCHANGED <<host, model, ikRuns, replaced>>

LogIk(good) == ikRuns' = IF active = "Ik" THEN Append(ikRuns, good) ELSE ikRuns

(* A step of the supervised runs, with its history. *)
Spawned ==
    /\ Start
    /\ UNCHANGED <<host, model, srcVars, planned, ikRuns, replaced>>

SpawnFails ==
    /\ NoStart
    /\ LogIk(FALSE)
    /\ UNCHANGED <<host, model, srcVars, planned, replaced>>

RunEnds ==
    \E o \in RunOutcome :
        /\ Finish(o)
        /\ LogIk(GoodRun(o))
        /\ replaced' = IF o.ended = "Replaced" THEN replaced + 1 ELSE replaced
        /\ UNCHANGED <<host, model, srcVars, planned>>

HubStops ==
    /\ Close
    /\ UNCHANGED <<host, model, srcVars, planned, ikRuns, replaced>>

(* A download, or the user. *)
DiskChanges ==
    /\ phase # "ended"
    /\ \E f \in Files \ {model} : model' = f
    /\ UNCHANGED <<runsVars, host, srcVars, planned, ikRuns, replaced>>

Next == Plan \/ Spawned \/ SpawnFails \/ RunEnds \/ HubStops \/ DiskChanges

Spec == Init /\ [][Next]_vars

-----------------------------------------------------------------------------
TwoInARow(r) == \E i \in 1..Len(r) - 1 : ~r[i] /\ ~r[i + 1]

(* After two bad runs of ik_llama.cpp in a row, each without an answer or  *)
(* shorter than two minutes, llama.cpp runs the model until the hub stops  *)
(* (docs/llm.md), whatever happens to the model file in between.           *)
BanHolds ==
    TwoInARow(ikRuns) /\ phase \in {"spawn", "run"} => active = "LlamaCpp"

(* Nothing else bans it: not two bad runs with a good one between them,    *)
(* not a bad run of llama.cpp, not the replacement after a download.       *)
BanDeserved == chooser.banned => TwoInARow(ikRuns)

(* The first download costs one restart: a hub that does not find the file *)
(* must not stop llama.cpp at its first answer again and again.            *)
OneReplacement == replaced <= 1

(* ik_llama.cpp runs exactly where the table of docs/llm.md says so.       *)
Table == {<<"Ling3", "bailingmoe3">>, <<"Minicpm5", "llama">>, <<"Lfm3", "lfm3">>}

DocumentedEngine ==
    phase \in {"spawn", "run"} =>
        (active = "Ik" <=>
            /\ host.choice # "LlamaCpp"
            /\ ~host.gpu /\ host.cpu_avx2_fma /\ host.ik_binary
            /\ ~TwoInARow(ikRuns)
            /\ planned # NoFile
            /\ host.choice = "Ik" \/ <<host.family, planned>> \in Table)
=============================================================================
