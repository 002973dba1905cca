-------------------------------- MODULE Commands --------------------------------
(***************************************************************************)
(* The commands of the program (main in src/src/main.rs).  serve reads the *)
(* settings, checks the model files and starts the LLM engine, again and   *)
(* again, with the command line of LlmSpec; llm-command prints that line;  *)
(* verify-gguf checks files; eval asks questions and compares reports.     *)
(* The starts of the LLM are LlmSupervisor's; here the model file is one   *)
(* of llama.cpp's cache or the user's, and llama.cpp works on its cache.   *)
(* The rest of the hub's start is in Hub.                                  *)
(***************************************************************************)
EXTENDS LlmSupervisor, LlmSpec, Eval

CONSTANTS
    Cases,     \* a command, its settings, machine and files: see Init
    Upstream   \* the files on Hugging Face, in the order of their changes

(* The files have bytes, but any.  A repository has one file of a          *)
(* quantization at a time.                                                 *)
ASSUME CommandsAssumption ==
    /\ \A c \in Cases : \A path \in {c.speech, c.llm} \cup c.puts : \A f \in path :
           path = {f} /\ IsFile(f)
    /\ Upstream # <<>> /\ Upstream \in Seq(ToSet(Upstream))
    /\ \A i \in DOMAIN Upstream : \A f, g \in Upstream[i] :
           f.repo = g.repo /\ f.quant = g.quant /\ ~f.mmproj /\ ~g.mmproj => f = g

VARIABLES
    at,        \* the case
    stage,     \* "start", "check", "print", "serving", "refused", "done"
    cfg,       \* the configuration, in a set; empty before it is read
    local,     \* the path of the configured model file
    cache,     \* the files in the cache of llama.cpp
    upstream,  \* how far Upstream has come
    seen,      \* how far it was when llama.cpp looked, at its start
    line,      \* the command line of the start
    listed     \* history: for this start, llama.cpp listed its cache, or was not asked

serveVars == <<at, stage, cfg, local, cache, upstream, seen, line, listed>>
commandVars == <<vars, serveVars, evalVars>>

Commands == {"serve", "llm-command", "verify-gguf", "eval"}

(* The architecture of a model file for LlmSupervisor: a text that no      *)
(* family has is as good as any other.                                     *)
ArchitectureOf(path) ==
    LET texts == general_architecture(path)
        known == texts \cap UNION {ik_architectures[f] : f \in Family}
    IN  CASE path = {}                -> NoFile
          [] path # {} /\ texts = {} -> "Unreadable"
          [] known # {}               -> CHOOSE a \in known : TRUE
          [] OTHER                    -> "other"

(* The settings say what the LLM is before any step reads them. *)
LlmOf(configs) == UNION {{c.llm} \ {NoLlm} : c \in configs}

AnyHost == CHOOSE h \in Hosts : TRUE
FirstOf(set, default) == IF set = {} THEN default ELSE CHOOSE x \in set : TRUE

CommandsInit ==
    /\ at \in Cases
    /\ stage = "start"
    /\ cfg = {}
    /\ local = at.llm
    /\ cache = at.cache
    /\ upstream = 1 /\ seen = 1
    /\ line = {} /\ listed = TRUE
    /\ LET llm == LlmOf(from_env(at.env))
       IN  /\ host = FirstOf({HostOf(c, at.machine) : c \in llm}, AnyHost)
           /\ model = FirstOf({ArchitectureOf(model_file(c, local, cache)) : c \in llm}, NoFile)
    /\ Init
    /\ EvalInit
    /\ at.command = "eval" \/ speed = CHOOSE s \in Speeds : TRUE

-----------------------------------------------------------------------------
Llm == CHOOSE c \in LlmOf(cfg) : TRUE

(* The line of the next start.  The list of the cache is asked for before  *)
(* it, and may fail at any plan.                                           *)
LineOf(kind, ok) ==
    LET path == model_file(Llm, local, cache)
        slots == slots_usable(Llm, at.machine.writable)
        offline == Llm.source = "repo" /\ is_cached(ok, cache, Llm.name)
        threads == ik_threads(at.machine.cpuinfo, at.machine.logical)
    IN  IF kind = "Ik" THEN ik_spec(Llm, slots, path, at.machine.tmp, threads)
        ELSE llamacpp_spec(Llm, slots, offline, path, at.machine.tmp)

(* Config::from_env; serve chooses the devices for speech with it. *)
ReadConfig ==
    /\ stage = "start" /\ at.command \in {"serve", "llm-command"}
    /\ cfg' = IF at.command = "serve"
              THEN {choose_speech_devices(c, at.machine.devices) : c \in from_env(at.env)}
              ELSE from_env(at.env)
    /\ stage' = IF cfg' = {} THEN "refused"
                ELSE IF at.command = "serve" THEN "check"
                ELSE IF LlmOf(cfg') = {} THEN "refused"
                ELSE "print"
    /\ UNCHANGED <<vars, evalVars, at, local, cache, upstream, seen, line, listed>>

PrintCommand ==
    /\ stage = "print"
    /\ \E ok \in BOOLEAN : line' = {LineOf(decide(host, model, FALSE, FALSE).kind, ok)}
    /\ stage' = "done"
    /\ UNCHANGED <<vars, evalVars, at, cfg, local, cache, upstream, seen, listed>>

(* A download of llama.cpp is not checked, only a configured file. *)
CheckModels ==
    /\ stage = "check"
    /\ stage' = IF check(at.speech) /\ \A c \in LlmOf(cfg) : c.source = "file" => check(local)
                THEN "serving" ELSE "refused"
    /\ UNCHANGED <<vars, evalVars, at, cfg, local, cache, upstream, seen, line, listed>>

VerifyGguf ==
    /\ stage = "start" /\ at.command = "verify-gguf"
    /\ stage' = IF check(at.speech) /\ check(local) THEN "done" ELSE "refused"
    /\ UNCHANGED <<vars, evalVars, at, cfg, local, cache, upstream, seen, line, listed>>

-----------------------------------------------------------------------------
(* The LLM engine, from start to start. *)
Serving == stage = "serving" /\ LlmOf(cfg) # {}

KeepFiles == UNCHANGED <<at, stage, cfg, local, cache, upstream, evalVars>>

PlanLine ==
    /\ Serving /\ Plan
    /\ listed' \in BOOLEAN
    /\ listed' \/ (lastKind' = "LlamaCpp" /\ Llm.source = "repo")
    /\ line' = {LineOf(lastKind', listed')}
    /\ UNCHANGED seen /\ KeepFiles

SpawnLine ==
    /\ Serving /\ Spawned
    /\ seen' = upstream
    /\ UNCHANGED <<line, listed>> /\ KeepFiles

(* An engine without a model never answers. *)
Loadable == IF Llm.source = "file" THEN local # {} ELSE cache # {}

LineEnds ==
    /\ Serving
    /\ SpawnFails \/ RunEnds \/ HubStops
    /\ last'.healthy /\ last' # last => Loadable
    /\ UNCHANGED <<line, listed, seen>> /\ KeepFiles

(* What changes on the disk changes the model file for the next plan. *)
FilesChange ==
    /\ Serving /\ phase # "ended"
    /\ model' = ArchitectureOf(model_file(Llm, local', cache'))
    /\ UNCHANGED <<runsVars, host, srcVars, planned, ikRuns, replaced, at, stage, cfg, seen, line, listed,
                   evalVars>>

(* llama.cpp takes the quantization that it is asked for, or else any.     *)
Choice ==
    LET all == {f \in Upstream[seen] : f.repo = Names[Llm.name].repo /\ ~f.mmproj}
        fits == {f \in all : Quant(Llm.name) \in f.tags}
    IN  IF fits # {} THEN fits ELSE all

IsOffline(l) == Flag("--offline") \subseteq l.args

Online ==
    /\ phase = "run" /\ active = "LlamaCpp" /\ Llm.source = "repo"
    /\ \A l \in line : ~IsOffline(l)

SameModel(f, g) == f.repo = g.repo /\ f.quant = g.quant /\ f.mmproj = g.mmproj

(* Online, llama.cpp deletes its copy of a file that has a new ETag ...    *)
DropStale ==
    /\ Serving /\ Online
    /\ \E f \in Choice :
           /\ \E old \in cache : SameModel(old, f) /\ old # f
           /\ cache' = {old \in cache : SameModel(old, f) => old = f}
    /\ UNCHANGED <<local, upstream>>
    /\ FilesChange

(* ... and downloads the new one. *)
DownloadModel ==
    /\ Serving /\ Online
    /\ \E f \in Choice :
           /\ \A old \in cache : ~SameModel(old, f)
           /\ cache' = cache \cup {f}
    /\ UNCHANGED <<local, upstream>>
    /\ FilesChange

(* Only a repository has an upstream. *)
UpstreamChanges ==
    /\ Serving /\ Llm.source = "repo"
    /\ upstream < Len(Upstream)
    /\ upstream' = upstream + 1
    /\ UNCHANGED <<local, cache>>
    /\ FilesChange

(* The user takes the configured file away, or puts another one in place,  *)
(* which nothing checks.                                                   *)
UserChanges ==
    /\ Serving /\ Llm.source = "file"
    /\ local' \in (at.puts \cup {at.llm, {}}) \ {local}
    /\ UNCHANGED <<cache, upstream>>
    /\ FilesChange

Evaluate ==
    /\ at.command = "eval"
    /\ EvalNext
    /\ UNCHANGED <<vars, serveVars>>

CommandsNext ==
    \/ ReadConfig \/ PrintCommand \/ CheckModels \/ VerifyGguf
    \/ PlanLine \/ SpawnLine \/ LineEnds
    \/ DropStale \/ DownloadModel \/ UpstreamChanges \/ UserChanges
    \/ Evaluate

(* A request of eval ends at the latest with its timeout. *)
CommandsSpec == CommandsInit /\ [][CommandsNext]_commandVars /\ WF_commandVars(Evaluate)

-----------------------------------------------------------------------------
(* The bytes of a tensor lie in the file; a header whose sizes pass 64     *)
(* bits is no honest one.                                                  *)
DataEnd(h, t) ==
    Aligned(Position(Steps(h)), Alignment(h.kvs)) + t.offset
    + (Elements(t) \div type_size[t.type][1]) * type_size[t.type][2]

Honest(h) == \A t \in ToSet(h.tensors) : t.type \in DOMAIN type_size => DataEnd(h, t) < Word

Whole(f) ==
    \A t \in ToSet(f.header.tensors) : t.type \in DOMAIN type_size => DataEnd(f.header, t) <= f.len

(* No hub begins to serve with a file that was cut anywhere, and           *)
(* verify-gguf does not pass one (gguf.rs:1-8).  A file that the user      *)
(* changes while the hub serves is not checked again.                      *)
WholeOrRefused ==
    [][ /\ stage' # stage
        /\ stage' = "serving" \/ (at.command = "verify-gguf" /\ stage' = "done")
        => \A f \in at.speech \cup
                    (IF at.command = "verify-gguf" \/ \E c \in LlmOf(cfg) : c.source = "file"
                     THEN local ELSE {}) :
               Honest(f.header) => Whole(f) ]_commandVars

(* "The image never deletes a model" (docs/llm.md): once the quantization  *)
(* of LLM_HF_REPO, or the default one, is in the cache, no start of any    *)
(* engine after it lets llama.cpp delete it, although upstream changes,    *)
(* unless llama.cpp failed to list its cache for that very start.          *)
CachedStays ==
    [][Serving /\ listed => \A f \in cache :
           f.repo = Names[Llm.name].repo /\ f.quant = Quant(Llm.name) => f \in cache']_commandVars

(* An evaluation ends although engines call tools for ever. *)
EvalEnds == at.command = "eval" ~> verdict # "none"
=============================================================================
