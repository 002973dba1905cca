--------------------------------- MODULE Config ---------------------------------
(***************************************************************************)
(* The settings (src/src/config.rs) and what main makes of them before the *)
(* engines start (choose_speech_devices in main.rs, gpu.rs).  env is a     *)
(* function from the variables that are set to their texts, trimmed.  A    *)
(* reader of settings returns the set of its results: empty if it refuses  *)
(* the start.  Paths, addresses and texts that only pass through are left  *)
(* out.                                                                    *)
(***************************************************************************)
EXTENDS LlmEngine, Integers, Sequences, TLC

CONSTANTS
    Numeral,   \* the texts that are numbers, with the numbers
    Names,     \* model files and repositories: [marks, repo, quant]
    Cores      \* the cores of the machine

ASSUME ConfigAssumption == Cores \in Nat \ {0}

Unset == "unset"

(* A blank text is as good as none. *)
var(env, name) == IF name \in DOMAIN env /\ env[name] # "" THEN env[name] ELSE Unset

var_or(env, name, default) == IF var(env, name) = Unset THEN default ELSE var(env, name)

Switch == [on |-> TRUE, off |-> FALSE]

on_off(env, name, default) ==
    IF var(env, name) = Unset THEN {default}
    ELSE {Switch[t] : t \in {var(env, name)} \cap DOMAIN Switch}

parse_num(env, name, default) ==
    IF var(env, name) = Unset THEN {default}
    ELSE {Numeral[t] : t \in {var(env, name)} \cap DOMAIN Numeral}

(* The variant that a text names. *)
Parsed(table, text) == {table[t] : t \in {text} \cap DOMAIN table}

FamilyNames ==
    [ling3 |-> "Ling3", minicpm5 |-> "Minicpm5", lfm3 |-> "Lfm3", qwen35 |-> "Qwen35",
     granite4 |-> "Granite4"]
EngineNames == [auto |-> "Auto", llamacpp |-> "LlamaCpp", ik |-> "Ik"]
CtxNames == ("32k" :> "K32") @@ ("64k" :> "K64") @@ ("128k" :> "K128") @@ ("256k" :> "K256")

default_reasoning_budget(f) == IF f \in {"Ling3", "Minicpm5", "Lfm3"} THEN 128 ELSE 512

(* The first of these marks that the name has decides. *)
Marks == <<<<"ling-3", "Ling3">>, <<"minicpm5", "Minicpm5">>, <<"lfm3-", "Lfm3">>,
           <<"qwen3.5", "Qwen35">>, <<"qwen3_5", "Qwen35">>, <<"granite-4", "Granite4">>>>

detect(marks) ==
    LET hits == {i \in DOMAIN Marks : Marks[i][1] \in marks}
    IN  {Marks[i][2] : i \in {h \in hits : \A k \in hits : h <= k}}

-----------------------------------------------------------------------------
NoLlm == [source |-> "none"]

families(env, name) ==
    IF var(env, "LLM_FAMILY") = Unset THEN detect(Names[name].marks)
    ELSE Parsed(FamilyNames, var(env, "LLM_FAMILY"))

(* Granite 4 does not think, whatever the setting says. *)
reasoning(env, f) ==
    {on /\ f # "Granite4" : on \in on_off(env, "LLM_REASONING", TRUE)}

(* 256k is for two families only. *)
sizes(env, f) ==
    {c \in Parsed(CtxNames, var_or(env, "LLM_CTX", "64k")) :
        c = "K256" => f \in {"Ling3", "Lfm3"}}

(* A file, or a repository that llama.cpp downloads; not both. *)
llm_from_env(env) ==
    LET file == var(env, "LLM_MODEL_FILENAME")
        repo == var(env, "LLM_HF_REPO")
        name == IF file # Unset THEN file ELSE repo
    IN  CASE file # Unset /\ repo # Unset -> {}
          [] file = Unset /\ repo = Unset -> {NoLlm}
          [] OTHER ->
             UNION {{[source |-> IF file # Unset THEN "file" ELSE "repo", name |-> name,
                      family |-> f, engine |-> e, ctx |-> c, reasoning |-> r, max_tokens |-> n,
                      device |-> var_or(env, "LLM_DEVICE", "none"),
                      slot_cache |-> s, template_fix |-> t] :
                        e \in Parsed(EngineNames, var_or(env, "LLM_ENGINE", "auto")),
                        c \in sizes(env, f), r \in reasoning(env, f),
                        n \in parse_num(env, "LLM_MAX_TOKENS", 1024),
                        s \in on_off(env, "LLM_SLOT_CACHE", TRUE),
                        t \in on_off(env, "LLM_TEMPLATE_FIX", TRUE)} :
                    f \in families(env, name)}

search_from_env(env) == on_off(env, "SEARCH_ENABLED", FALSE)

JellyfinSet(env) == var(env, "JELLYFIN_URL") # Unset /\ var(env, "JELLYFIN_API_KEY") # Unset

(* Without its address or its key, Jellyfin is off. *)
jellyfin_from_env(env) ==
    IF ~JellyfinSet(env) THEN {FALSE}
    ELSE IF var(env, "JELLYFIN_USER") # Unset THEN {TRUE}
    ELSE {}

media_from_env(env) ==
    {on \in on_off(env, "MEDIA_INDEX", FALSE) :
        on => /\ JellyfinSet(env)
              /\ \E d \in parse_num(env, "EMBED_DIMS", 512) : d \in 64..768
              /\ \A name \in {"EMBED_THREADS", "MEDIA_MIN_SCORE", "MEDIA_MIN_MARGIN"} :
                     parse_num(env, name, 0) # {}
              /\ on_off(env, "MEDIA_INDEX_EPISODES", TRUE) # {}}

youtube_from_env(env) == on_off(env, "YOUTUBE_ENABLED", TRUE)

Unchosen == -1

Backends == [auto |-> "Auto", vulkan |-> "Vulkan", cpu |-> "Cpu"]

tts_from_env(env) ==
    {[backend |-> b, threads |-> n] :
        b \in Parsed(Backends, var_or(env, "TTS_BACKEND", "auto")),
        n \in parse_num(env, "TTS_THREADS", Unchosen)}

from_env(env) ==
    {[stt_device |-> var(env, "PARAKEET_DEVICE"), tts |-> t, llm |-> l, search |-> s,
      youtube |-> y, jellyfin |-> j, media |-> m] :
        t \in {u \in tts_from_env(env) : \A name \in {"PORT", "VK_DEVICE"} : parse_num(env, name, 0) # {}},
        l \in llm_from_env(env), s \in search_from_env(env), y \in youtube_from_env(env),
        j \in jellyfin_from_env(env), m \in media_from_env(env)}

-----------------------------------------------------------------------------
(* The lines of llama-server --list-devices are [name, vulkan, digits]: is *)
(* there a name before a colon, does it start with Vulkan, is the rest a   *)
(* number.  A program that cannot run gives no line.                       *)
parse_device_list(lines) ==
    LET IsGpu(l) == l.name # "" /\ l.vulkan /\ l.digits
        gpus == SelectSeq(lines, IsGpu)
    IN  [i \in DOMAIN gpus |-> gpus[i].name]

AtMost(a, b) == IF a < b THEN a ELSE b

choose_speech_devices(cfg, lines) ==
    LET gpus == parse_device_list(lines)
        backend == IF cfg.tts.backend # "Auto" THEN cfg.tts.backend
                   ELSE IF gpus # <<>> THEN "Vulkan" ELSE "Cpu"
    IN  [cfg EXCEPT !.stt_device = IF @ # Unset THEN @
                                   ELSE IF gpus # <<>> THEN gpus[1] ELSE "cpu",
                    !.tts = [backend |-> backend,
                             threads |-> IF @.threads # Unchosen THEN @.threads
                                         ELSE IF backend = "Cpu" THEN AtMost(Cores, 8) ELSE 2]]
=============================================================================
