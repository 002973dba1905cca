----------------------------- MODULE LlmEngine ------------------------------
(***************************************************************************)
(* The choice of the LLM engine (src/src/llm/engine.rs): decide, which     *)
(* looks at the facts of one start, and Chooser, which remembers failed    *)
(* starts of ik_llama.cpp.  Pure operators; LlmSupervisor runs them.       *)
(***************************************************************************)
EXTENDS Naturals

EngineKind   == {"LlamaCpp", "Ik"}
EngineChoice == {"Auto", "LlamaCpp", "Ik"}
Family       == {"Ling3", "Minicpm5", "Lfm3", "Qwen35", "Granite4"}

(* general.architecture of a model file: the verified ones, any other, and *)
(* a file whose metadata cannot be read.                                   *)
Architecture == {"bailingmoe3", "llama", "lfm3", "other", "Unreadable"}
NoFile       == "NoFile"

ik_architectures ==
    [f \in Family |->
        CASE f = "Ling3"    -> {"bailingmoe3"}
          [] f = "Minicpm5" -> {"llama"}
          [] f = "Lfm3"     -> {"lfm3"}
          [] OTHER          -> {}]

(* The facts that never change while the hub runs: the configuration and   *)
(* the machine.                                                            *)
HostFacts == [choice: EngineChoice, gpu: BOOLEAN, family: Family,
              cpu_avx2_fma: BOOLEAN, ik_binary: BOOLEAN]

Decision == [kind: EngineKind, download_first: BOOLEAN]

LlamaCpp == [kind |-> "LlamaCpp", download_first |-> FALSE]
Wanted   == [kind |-> "Ik", download_first |-> FALSE]
Download == [kind |-> "LlamaCpp", download_first |-> TRUE]

(* The early returns of decide before it looks at the model. *)
RulesOutIk(h, banned) ==
    \/ h.choice = "LlamaCpp"
    \/ h.gpu
    \/ ~h.ik_binary
    \/ ~h.cpu_avx2_fma
    \/ banned
    \/ h.choice = "Auto" /\ ik_architectures[h.family] = {}

Fits(h, model) == h.choice = "Ik" \/ model \in ik_architectures[h.family]

(* Mutant: the model file is looked for again after the download. *)
decideForever(h, model, download_done, banned) ==
    IF RulesOutIk(h, banned) THEN LlamaCpp
    ELSE IF model = NoFile THEN Download
    ELSE IF Fits(h, model) THEN Wanted ELSE LlamaCpp

(* Mutant: an unknown architecture is tried. *)
decideHopeful(h, model, download_done, banned) ==
    IF RulesOutIk(h, banned) THEN LlamaCpp
    ELSE IF model = NoFile THEN IF download_done THEN LlamaCpp ELSE Download
    ELSE IF Fits(h, model) \/ model = "Unreadable" THEN Wanted ELSE LlamaCpp

decide(h, model, download_done, banned) ==
    IF RulesOutIk(h, banned) THEN LlamaCpp
    ELSE IF model = NoFile THEN IF download_done THEN LlamaCpp ELSE Download
    ELSE IF Fits(h, model) THEN Wanted ELSE LlamaCpp

-----------------------------------------------------------------------------
MAX_FAILURES == 2

Chooser == [failures: Nat, banned: BOOLEAN]

NewChooser == [failures |-> 0, banned |-> FALSE]

GoodRun(o) == o.healthy /\ o.long

(* Mutant: a good run takes one failure back. *)
noteCountsDown(c, kind, o) ==
    IF kind # "Ik" \/ o.ended \in {"None", "Replaced"} THEN c
    ELSE IF GoodRun(o) THEN [c EXCEPT !.failures = @ - 1]
    ELSE [failures |-> c.failures + 1,
          banned   |-> c.banned \/ c.failures + 1 >= MAX_FAILURES]

(* Mutant: a good run does not clear the count. *)
noteNoReset(c, kind, o) ==
    IF kind # "Ik" \/ o.ended \in {"None", "Replaced"} \/ GoodRun(o)
    THEN c
    ELSE [failures |-> c.failures + 1,
          banned   |-> c.banned \/ c.failures + 1 >= MAX_FAILURES]

(* Chooser::note, for the outcome o of a run of kind. *)
note(c, kind, o) ==
    IF kind # "Ik" \/ o.ended \in {"None", "Replaced"} THEN c
    ELSE IF GoodRun(o) THEN [c EXCEPT !.failures = 0]
    ELSE [failures |-> c.failures + 1,
          banned   |-> c.banned \/ c.failures + 1 >= MAX_FAILURES]
=============================================================================
