------------------------------- MODULE MCCommands -------------------------------
(* Settings, files, machines and questions for TLC. *)
EXTENDS Commands

McNumeral == [t \in {"0", "8", "512", "2048"} |->
                 CASE t = "0" -> 0 [] t = "8" -> 8 [] t = "512" -> 512 [] t = "2048" -> 2048]

Name(marks, repo, quant) == [marks |-> marks, repo |-> repo, quant |-> quant]
McNames ==
    [ling    |-> Name({"ling-3"}, "", ""),
     other   |-> Name({}, "", ""),
     granite |-> Name({"granite-4"}, "", ""),
     qwen    |-> Name({"qwen3_5", "granite-4"}, "", ""),
     repo    |-> Name({"ling-3", "lfm3-"}, "org/ling", ""),
     repo8   |-> Name({"ling-3"}, "org/ling", "q8_0"),
     repo_of_others |-> Name({"ling-3"}, "org/others", "")]

McLines == [t \in {"once", "never", "twice"} |->
               [f \in Family |-> CASE t = "once" -> 1 [] t = "never" -> 0 [] t = "twice" -> 2]]

(* GGUF files. *)
TextValue(key, keylen, text, len) ==
    [key |-> key, len |-> keylen, value |-> [type |-> 8, len |-> len, text |-> text]]
Number(key, keylen, type, n) == [key |-> key, len |-> keylen, value |-> [type |-> type, number |-> n]]
Items(elem, count, len) == [elem |-> elem, count |-> count, len |-> len]
Array(key, keylen, arrays) == [key |-> key, len |-> keylen, value |-> [type |-> 9, arrays |-> arrays]]
TensorAt(dims, type, offset) == [len |-> 6, dims |-> dims, type |-> type, offset |-> offset]

Header(kvs, tensors) == [magic |-> TRUE, kvs |-> kvs, tensors |-> tensors]
File(h, len) == [header |-> h, len |-> len]

(* Tensors in another order than their data, and one of an unknown type. *)
Ling(template) ==
    Header(<<TextValue("general.architecture", 20, "bailingmoe3", 11),
             Array("tokenizer.ggml.tokens", 21, <<Items(8, 3, 2)>>), Array("scores", 6, <<Items(6, 5, 0)>>),
             TextValue("tokenizer.chat_template", 23, template, 20)>>,
           <<TensorAt(<<32, 2>>, 8, 64), TensorAt(<<4, 2>>, 0, 0), TensorAt(<<9>>, 99, 200)>>)
Wide == Header(<<Number("general.alignment", 17, 4, 64)>>, <<TensorAt(<<64>>, 0, 0)>>)
Zero == Header(<<Number("general.alignment", 17, 4, 0)>>, <<TensorAt(<<10>>, 24, 0)>>)
Odd == Header(<<[key |-> "odd", len |-> 3, value |-> [type |-> 77]]>>, <<>>)
(* Arrays of three arrays, one of them of arrays again, and one empty of   *)
(* an unknown type.                                                        *)
Nested ==
    Header(<<Array("nested", 6, <<Items(9, 3, 0), Items(9, 1, 0), Items(8, 2, 3), Items(77, 0, 0),
                                  Items(4, 2, 0)>>),
             Number("general.alignment", 17, 4, 8)>>, <<TensorAt(<<32>>, 8, 0)>>)
NoText == Header(<<>>, <<TensorAt(<<1>>, 0, 0)>>)
(* A header with an offset behind 64 bits. *)
Corrupt == Header(<<>>, <<TensorAt(<<64>>, 0, 32767)>>)

Size(h) == Aligned(Position(Steps(h)), Alignment(h.kvs)) + LastEnd(h)
Complete(h) == File(h, Size(h))
Cuts(h) == {{File(h, n)} : n \in 0..Size(h)}

Good == {Complete(Wide)}
LingFile == {Complete(Ling("once"))}

(* Machines. *)
Cpu(flags, package, core) == [flags |-> flags, package |-> package, core |-> core]
Avx == {"avx2", "fma"}
Device(name, vulkan, digits) == [name |-> name, vulkan |-> vulkan, digits |-> digits]
Machine == [cpuinfo |-> <<Cpu(Avx, "0", "0"), Cpu(Avx, "0", "1"), Cpu(Avx, "0", "0")>>,
            logical |-> 3, ik_binary |-> TRUE, writable |-> TRUE, tmp |-> TRUE,
            devices |-> <<>>]
WithGpu == [Machine EXCEPT !.devices =
    <<Device("Available devices", FALSE, FALSE), Device("", FALSE, FALSE),
      Device("VulkanX", TRUE, FALSE), Device("Vulkan0", TRUE, TRUE)>>,
    !.writable = FALSE, !.tmp = FALSE]
OldCpu == [Machine EXCEPT !.cpuinfo = <<Cpu({"avx2"}, "", "")>>, !.logical = 12]
Machines == {Machine, WithGpu, OldCpu}

(* Settings: one or two differ from a base. *)
Values ==
    [LLM_FAMILY |-> {"qwen35", "bad", ""}, LLM_ENGINE |-> {"ik", "llamacpp", "bad"},
     LLM_CTX |-> {"256k", "bad"}, LLM_REASONING |-> {"off", "bad"}, LLM_DEVICE |-> {"Vulkan0"},
     LLM_MAX_TOKENS |-> {"0", "many"}, LLM_SLOT_CACHE |-> {"off"}, LLM_TEMPLATE_FIX |-> {"off"},
     LLM_HF_REPO |-> {"repo", "repo8"}, LLM_MODEL_FILENAME |-> {"ling", "other", "granite", "qwen"},
     JELLYFIN_URL |-> {"u"}, JELLYFIN_API_KEY |-> {"k"}, JELLYFIN_USER |-> {"anna"},
     MEDIA_INDEX |-> {"on", "bad"}, EMBED_DIMS |-> {"8", "512", "2048"}, SEARCH_ENABLED |-> {"on", "yes"},
     YOUTUBE_ENABLED |-> {"off"}, TTS_BACKEND |-> {"cpu", "bad"}, TTS_THREADS |-> {"8", "x"},
     PARAKEET_DEVICE |-> {"cpu"}, PORT |-> {"x"}]
Singles == UNION {{name :> v : v \in Values[name]} : name \in DOMAIN Values}
Jellyfin == [JELLYFIN_URL |-> "u", JELLYFIN_API_KEY |-> "k", JELLYFIN_USER |-> "anna"]
Pairs == {a @@ b : a \in Singles, b \in Singles}
         \cup {a @@ b @@ Jellyfin : a \in Singles, b \in {"MEDIA_INDEX" :> "on"}}

(* Hugging Face: a second copy of each file comes; one repository has no   *)
(* file of the default quantization.                                       *)
OnHub(repo, quant, path) ==
    [repo |-> repo, quant |-> quant, tags |-> {quant}, path |-> path, mmproj |-> FALSE,
     gguf |-> Complete(Ling(IF path > 3 THEN "twice" ELSE "once"))]
Projector == [OnHub("org/ling", "q4_k_m", 9) EXCEPT !.mmproj = TRUE]
McUpstream ==
    <<{OnHub("org/ling", "q4_k_m", 5), OnHub("org/ling", "q8_0", 6), OnHub("org/others", "q8_0", 7), Projector},
      {OnHub("org/ling", "q4_k_m", 1), OnHub("org/ling", "q8_0", 2), OnHub("org/others", "q8_0", 3)}>>

(* What the user may put in place later: a copy that was cut short. *)
Put == {File(Ling("once"), Size(Ling("once")) - 1)}

Case(command, env, machine, speech, llm, files) ==
    [command |-> command, env |-> env, machine |-> machine, speech |-> speech, llm |-> llm,
     cache |-> files, puts |-> IF command = "serve" THEN {Put} ELSE {}]

Served == {"LLM_HF_REPO" :> "repo", "LLM_HF_REPO" :> "repo_of_others",
           [LLM_HF_REPO |-> "repo8", LLM_ENGINE |-> "llamacpp"],
           "LLM_MODEL_FILENAME" :> "ling"}
Old == OnHub("org/ling", "q4_k_m", 4)

McCases ==
    {Case("llm-command", env, Machine, Good, LingFile, {Old}) : env \in Pairs}
    \cup {Case("llm-command", "LLM_MODEL_FILENAME" :> "ling", m, Good, llm, {}) :
             m \in Machines, llm \in {{}, LingFile, {Complete(Wide)}, {Complete(Odd)}}}
    \cup {Case("verify-gguf", <<>>, Machine, path, Good, {}) :
             path \in UNION {Cuts(h) : h \in {Ling("never"), Wide, Zero, Odd, Nested, NoText}} \cup Cuts(NoText)
                      \cup {{}, {File(Corrupt, 200)}}}
    \cup {Case("serve", env, m, Good, LingFile, files) :
             env \in Served, m \in {Machine}, files \in {{}, {Old}}}
    \cup {Case("serve", "LLM_HF_REPO" :> "repo", WithGpu, Good, LingFile, {})}
    \cup {Case("serve", "LLM_MODEL_FILENAME" :> "ling", Machine, path, llm, {}) :
             path \in {Good, {}, {File(Wide, Size(Wide) - 1)}},
             llm \in {{}, {File(Ling("once"), Size(Ling("once")) - 1)}}}
    \cup {Case("serve", <<>>, Machine, path, {}, {}) : path \in Cuts(Zero)}
    \cup {Case("eval", <<>>, Machine, Good, {}, {})}

(* Questions and answers. *)
Ask(tool, args, allow, forbid, all, none, known) ==
    [tool |-> tool, args |-> args, allow |-> allow, forbid |-> forbid, any |-> all, all |-> all,
     none |-> none, min |-> 1, known_failure |-> known]
McQuestions ==
    <<Ask("turn_on", {"kitchen"}, {}, {"turn_off"}, {}, {}, FALSE),
      Ask("none", {}, {"weather"}, {}, {"hello"}, {"sorry"}, TRUE)>>
CallTo(name, args, json) == [name |-> name, args |-> args, json |-> json]
Reply(calls, says, chars) == [calls |-> calls, says |-> says, chars |-> chars]
McReplies ==
    {Reply(<<CallTo("turn_on", {"kitchen"}, TRUE)>>, {}, 0),
     Reply(<<CallTo("turn_on", {}, FALSE), CallTo("turn_off", {}, TRUE)>>, {}, 0),
     Reply(<<>>, {"hello"}, 9), Reply(<<>>, {}, 0)}
McSpeeds == {[first |-> 20, rest |-> 2], [first |-> 15, rest |-> 2], [first |-> 20, rest |-> 1]}
=============================================================================
