--------------------------------- MODULE LlmSpec --------------------------------
(***************************************************************************)
(* The command lines of the LLM engines (src/src/llm/mod.rs, llamacpp.rs,  *)
(* ik.rs, template.rs): the model file in the cache of llama.cpp, the chat *)
(* template in it, the prompt cache, and the options.  A file of the cache *)
(* is [repo, quant, tags, path, mmproj, gguf]: its quantization, the texts *)
(* that its name contains, the place of its path in alphabetical order. A  *)
(* command line is a set of pairs <<option, value>>.                       *)
(***************************************************************************)
EXTENDS Config, Gguf

CONSTANTS
    Lines    \* how often a template has the line that the family patches

None == {}

(* The family's line must be there once. *)
patch(family, template) ==
    IF family \in {"Qwen35", "Granite4"} THEN "NotNeeded"
    ELSE IF Lines[template][family] = 1 THEN "Patched" ELSE "NoMatch"

(* The patched template, if it could be read, patched and written. *)
patched_template(cfg, gguf, tmp) ==
    {t \in metadata_string(gguf, "tokenizer.chat_template") \ {NotText} :
        tmp /\ patch(cfg.family, t) = "Patched"}

template_for(cfg, model, tmp) ==
    UNION {patched_template(cfg, g, tmp) : g \in IF cfg.template_fix THEN model ELSE None}

general_architecture(model) ==
    UNION {metadata_string(g, "general.architecture") \ {NotText} : g \in model}

-----------------------------------------------------------------------------
DefaultQuant == "q4_k_m"

Quant(repo) == IF Names[repo].quant = "" THEN DefaultQuant ELSE Names[repo].quant

(* Mutant: without a quantization, any copy of the repository is taken. *)
cache_key_as_given(repo) == <<Names[repo].repo, Names[repo].quant>>

cache_key(repo) == <<Names[repo].repo, Quant(repo)>>

(* The lines of llama-server --cache-list. *)
cache_list(cache) == {<<f.repo, f.quant>> : f \in cache}

cache_list_contains(lines, key) == key \in lines

(* A program that does not start, or ends before the line, has not listed  *)
(* the repository.                                                         *)
is_cached(listed, cache, repo) == listed /\ cache_list_contains(cache_list(cache), cache_key(repo))

(* The last path of all snapshots. *)
cached_gguf(cache, repo) ==
    LET found == {f \in cache : f.repo = Names[repo].repo /\ Quant(repo) \in f.tags /\ ~f.mmproj}
    IN  {f.gguf : f \in {g \in found : \A h \in found : h.path <= g.path}}

(* local: the path of the configured file. *)
model_file(cfg, local, cache) ==
    IF cfg.source = "file" THEN local ELSE cached_gguf(cache, cfg.name)

slots_usable(cfg, writable) == cfg.slot_cache /\ writable

-----------------------------------------------------------------------------
Flag(option) == {<<option, "">>}
When(b, options) == IF b THEN options ELSE {}

preset(cfg) ==
    CASE cfg.family = "Minicpm5" ->
            {<<"--temp", IF cfg.reasoning THEN "0.9" ELSE "0.7">>, <<"--top-p", "0.95">>, <<"--min-p", "0">>}
      [] cfg.family = "Lfm3" -> {<<"--temp", "0.1">>, <<"--top-k", "50">>, <<"--repeat-penalty", "1.1">>}
      [] cfg.family = "Qwen35" ->
            {<<"--temp", IF cfg.reasoning THEN "1.0" ELSE "0.7">>,
             <<"--top-p", IF cfg.reasoning THEN "0.95" ELSE "0.8">>,
             <<"--top-k", "20">>, <<"--min-p", "0">>, <<"--presence-penalty", "1.5">>}
      [] cfg.family = "Ling3" -> {<<"--temp", "1.0">>, <<"--top-p", "0.95">>, <<"--top-k", "20">>}
      [] cfg.family = "Granite4" -> {<<"--temp", "0.0">>}

CtxSize == [K32 |-> "32768", K64 |-> "65536", K128 |-> "131072", K256 |-> "262144"]

(* 256k of Ling 3.0 is twice its base. *)
ctx_args(cfg) ==
    {<<"-c", CtxSize[cfg.ctx]>>}
    \cup When(cfg.ctx = "K256" /\ cfg.family = "Ling3",
              {<<"--rope-scaling", "yarn">>, <<"--rope-scale", "2">>, <<"--yarn-orig-ctx", "131072">>})

(* What both engines get.  limit is the name of the option for the tokens  *)
(* of a reply; 0 removes the limit.                                        *)
common_args(cfg, slots, template, limit) ==
    ctx_args(cfg) \cup preset(cfg) \cup Flag("--jinja")
    \cup {<<"--reasoning", IF cfg.reasoning THEN "on" ELSE "off">>}
    \cup When(cfg.reasoning, {<<"--reasoning-budget", "set">>})
    \cup When(cfg.max_tokens > 0, {<<limit, "set">>})
    \cup When(slots, {<<"--slot-save-path", "slots">>})
    \cup {<<"--chat-template-file", t>> : t \in template}

server_args(cfg, slots, offline, template) ==
    (IF cfg.source = "file" THEN {<<"-m", cfg.name>>}
     ELSE {<<"-hf", cfg.name>>} \cup Flag("--no-mmproj") \cup When(offline, Flag("--offline")))
    \cup {<<"--device", cfg.device>>, <<"-ngl", "set">>} \cup Flag("--no-ui")
    \cup common_args(cfg, slots, template, "--n-predict")

ik_args(cfg, slots, template, threads) ==
    {<<"-m", cfg.name>>, <<"--webui", "none">>, <<"-t", threads>>,
     <<"--ctx-checkpoints-tolerance", "64">>}
    \cup Flag("--log-disable") \cup common_args(cfg, slots, template, "-n")

-----------------------------------------------------------------------------
(* cpuinfo is a sequence of processors [flags, package, core]; "" is a     *)
(* number that is not given.                                               *)
has_avx2_fma(cpuinfo) == cpuinfo # <<>> /\ {"avx2", "fma"} \subseteq cpuinfo[1].flags

physical_cores(cpuinfo) ==
    Cardinality({<<cpuinfo[i].package, cpuinfo[i].core>> :
        i \in {k \in DOMAIN cpuinfo : cpuinfo[k].package # "" /\ cpuinfo[k].core # ""}})

(* logical is the CPU set of the process. *)
ik_threads(cpuinfo, logical) ==
    LET found == physical_cores(cpuinfo)
        n == IF found = 0 THEN logical ELSE Min({found, logical})
    IN  Max({1, Min({8, n})})

(* A spec with its command line. *)
llamacpp_spec(cfg, slots, offline, model, tmp) ==
    [program |-> "LlamaCpp",
     args |-> server_args(cfg, slots, cfg.source = "repo" /\ offline, template_for(cfg, model, tmp))]

ik_spec(cfg, slots, model, tmp, threads) ==
    [program |-> "Ik", args |-> ik_args(cfg, slots, template_for(cfg, model, tmp), ToString(threads))]

(* The facts of engine::decide that do not change. *)
HostOf(cfg, machine) ==
    [choice |-> cfg.engine, gpu |-> cfg.device # "none", family |-> cfg.family,
     cpu_avx2_fma |-> has_avx2_fma(machine.cpuinfo), ik_binary |-> machine.ik_binary]
=============================================================================
