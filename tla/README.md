# Formal models of assistant-hub

This directory holds TLA+ models of `assistant-hub`, the Rust server of this repository: state
machines written from the code in `src/src/`, TLC configurations that check them on small
instances, and proofs that TLAPS checks for every value of the constants. `src/...` below is a
path in the repository tree, for example `src/src/supervisor.rs` is the file `src/supervisor.rs` of
the crate, `src/docs/llm.md` a document beside it.

1. [The system](#1-the-system)
2. [Modules](#2-modules)
3. [Runs](#3-runs)
4. [Where the code and its words differ](#4-where-the-code-and-its-words-differ)
5. [Proofs](#5-proofs)
6. [What is not modelled](#6-what-is-not-modelled)
7. [Plan](#7-plan)

## 1. The system

One process serves one port. It runs two native engines as children (the LLM's `llama-server`, the
TTS `audiocpp_server`), one engine inside itself (STT, parakeet.cpp), and tasks that keep a prompt
cache on disk and an index of a media library up to date. Everything is concurrent: tokio tasks on
several threads, blocking threads for native code, processes that crash, hang or are killed, and
services that change under it (the model folder, Jellyfin's library).

| Component | State | Operations | What is hard | What makes it correct |
|---|---|---|---|---|
| Supervisor (`supervisor.rs`) | where the task and its watcher are, the flags and tokens of the run, `starts` | plan, spawn, watch, end of a run, stop | two tasks and a process act in any order; slow loads look like hangs | one process at a time; no stop without its reason; hangs are found; an exit leads to a new start and a stop ends all, as long as the source of the next start answers |
| LLM engine choice (`llm/engine.rs`, `llm/specs.rs`) | failures and ban of ik_llama.cpp, `download_done`, the engine of the run | `decide`, `Chooser::note`, `plan` | outcomes of earlier runs, a model file that the user and llama.cpp change | the documented engine at each start; a ban exactly after two bad runs in a row; one restart for a download |
| Prompt cache (`llm/slots.rs`) | the start it handled, the task it saved, files of two engines and their sidecars | `run`, `save_now`, restore, save, the file moves | calls that the engine defers behind a request; restarts as another engine; a kill between two renames | a restore per start; formats never mixed; good files kept; the last conversation reaches the disk |
| GPU lock (`gpu.rs`, `Voice` in `wyoming/mod.rs`, `stt.rs`, `tts.rs`) | the holder and its queue, the fault count | `acquire`, `success`, `failure`, the two calls | the two calls hold the lock in different ways; an answer after the time limit; a kernel that never ends | one engine at a time; exit after three faults in a row; nobody waits for good |
| Media index (`media/mod.rs`, `media/index.rs`, `media/docs.rs`) | the index in memory and on disk, pending changes, the next full comparison, the WebSocket | load, full comparison, live update, save, listen | the library changes during a comparison; lost messages; a failure or a kill anywhere | at rest, the index is the library; entries keep their vectors; what is known is saved |
| Wyoming connections (`wyoming/`, `audio.rs`) | format and segments of the request, the call it waits for | one loop: read an event, answer it | events in any order, formats that change between chunks, a client that goes away in a call | each event is answered once and in order; a transcript is about its own audio; only a kernel that never ends, or a client that does not read, holds up a connection |
| Server and proxy (`server.rs`, `llm/proxy.rs`) | open connections, requests in flight | accept, first byte, health, forward, stream, graceful end | streams during a restart or a shutdown; a count read after a probe | the count is the number of requests that are not answered to the end; health says busy only while one runs |
| Hub (`main.rs`) | tokens, tasks, children | start, its failures, stop with time limits, drop of the runtime | order of the stop, an error after engines have started | no engine outlives it; a stop ends it unless there is work on a blocking thread for ever |
| Jellyfin search (`jellyfin.rs`, `text.rs`, `media/mod.rs` gate) | one kept list, its lock | find by title, likeness, sound, meaning, Jellyfin's own search; episode of a series | requests of two users share the list; a call fails under the lock | each user's own watch state; the episode that was said; the lock comes free |
| Web search, YouTube, MCP (`search.rs`, `youtube.rs`, `mcp.rs`) | nothing of their own | ask, parse, choose; a batch of messages | native code without a time limit; one message of a batch fails | one reply for each request, in order; every request ends |
| Settings and files (`config.rs`, `gguf.rs`, `llm/mod.rs`, `llm/template.rs`) | llama.cpp's download cache | read settings, check files, build a command line | cut downloads, odd headers, a cache that llama.cpp changes | no hub starts with a cut file; a cached model stays |
| Evaluation (`llm/eval.rs`) | the question that is asked, samples | ask in rounds, sum up, compare | tools called for ever, rates of nothing | it ends; only a better engine may replace another |

Interactions. The supervisor asks its spec source for each start and tells it the outcome of the run
before; for the LLM that source is `LlmSpecs`, which also publishes the engine (`ActiveEngine`) and
shares the counter `starts`. The prompt cache polls `starts` to see a new process, and uses the
engine's file. Wyoming connections share one `Voice` with one GPU lock; three faults cancel
`gpu_lost`, which `main` selects on. `main` stops in this order: `shutdown` (server, cache task,
media index), `save_now`, `children` (supervisors), then it waits for the supervisors and the server,
each with a limit. The media index talks to Jellyfin only; queries read it under a lock.

`PROJECT.json` lists every component with what is modelled of it, and the hazards of the code, each
at its line with the properties that would catch it.

## 2. Modules

```
SupervisedRuns ----+---- implemented by ---- Supervisor
                   |
LlmEngine ---------+---- LlmSupervisor
                          (the process of SlotCache behaves like these runs)
Gguf --+                      |
       +-- LlmSpec ----+      |
Config +               +------+-- Commands
               Eval ---+
GpuVoice --+-- Wyoming        Text -- JellyfinMatch -- Jellyfin --+
Audio -----+                         Iterators ------/            +-- Server
                                  YouTube, WebSearch -------------+
Iterators -- IndexStore -- MediaIndex      (also below Eval and Wyoming)
SlotCache      Hub
```

Supervisor, Wyoming, Commands, SlotCache, Hub, MediaIndex and Server each have a module `*_proof`
beside them, which extends them and holds their inductive invariant, their theorems and the lemmas of
these (section 5). Wyoming_proof begins with those of GpuVoice, Commands_proof with those of
LlmSupervisor: in both the first are needed for the composition. Iterators_proof holds the lemmas on
lists and sums that several of them share.

Text, JellyfinMatch, YouTube, WebSearch, Audio, Iterators, Gguf, Config and LlmSpec are operators without
state: pure code, written as functions of its inputs. The state machines above them call them.

An action stands for what the code does from one `await` (or one visible file operation) to the
next; everything in between is in the action. Locals of a task that live across an await are
variables. Some operators are marked `Mutant` in a comment: they are forms of the operator below
them as a plausible mistake would have it, and no specification uses them. They show that each
property can fail: with the mutant in place, TLC finds the property violated (`PROJECT.json`,
"mutants").

**SupervisedRuns** (abstract). What a supervised engine promises to those around it: a source that
answers, a process that starts and ends, one truthful outcome per run. `phase` is `source`, `spawn`,
`run` or `ended`.

**Supervisor** (`supervisor.rs`). Three actors: the supervisor task (`pc` is its place in the loop
of `spawn_source`), the watcher task of the run (`watch`), the process (`child`). `run` holds
`RunState` with its two atomics and the token, the watcher's locals, and what time has passed. The
watcher's store of `replace`, its cancel of the token, and the supervisor's read of both are separate
steps. `select!` takes any ready branch. The source of the next start is asked in one step
(`AskSource`) and answers in another (`Plan`), which may never come: it is awaited outside `select!`,
and that of the LLM waits for `llama-server --cache-list` without a limit. A watcher may fail before
its first probe (`WatchdogDisabled`). A spec is any pair of "has a health probe" and "wants a
restart when healthy". `missed` is history: unanswered probes in a row, whatever the code counts.

**LlmEngine** (`engine.rs`), pure: `decide` as its list of early returns, `note` as the bookkeeping of
the ban. **LlmSupervisor** composes both with SupervisedRuns: `Plan` is `LlmSpecs::plan`, which notes
the last outcome before it decides; the model file changes at any time (`DiskChanges`). Paths and
command lines are left out; an architecture stands for the content of the file.

**GpuVoice** (`gpu.rs`, `Voice`). Each call is idle, waiting, working and so on; `queue` is tokio's
fair mutex. A transcription gives the lock back inside its blocking thread and counts its result
afterwards; a synthesis counts under the lock and gives up after 120 s, but its job stays in `jobs`
until audiocpp_server ends it. `log` is history: results in the order they are counted.

**SlotCache** (`slots.rs`, the end of `main.rs`, the engine's slot API as the code uses it). Both
tasks that call the engine, `run` and `save_now`, have a place (`at`) and an answer not yet read
(`got`). `work` is the engine's queue: it executes saves and restores one by one and never during a
request. A file has the engine that wrote it, the conversation in it and whether it is whole; for
ik_llama.cpp the sidecars are a second part that moves in steps of its own. A kill may come at any
step. The engine's own side is external and modelled from the code's calls and comments: a deferred
restore, a save that writes while its file is renamed, ik_llama.cpp not answering a bad restore.

**IndexStore** (`index.rs`) has the operations on the pair of lists, **MediaIndex** (`media/mod.rs`)
the task `run` (`task` is its place: `load`, `loop`, `wait` is the `select!`, `pages` a full
comparison, `lookup` a live update, `embed`, the two renames of a save, `finish`), the task `listen`
(`ws`, `tried`), the channel between them (`events`), and Jellyfin's library. A vector is the
document it was made of, so a wrong vector is visible. `broken` is a connection whose end nobody has
noticed yet. A load takes the files, or starts with an empty index if they cannot be read or are of
another model, which counts as a fault. `excuse` is history: the four known ways in which the code loses a change until the
next full comparison; it is cleared when one begins.

**Wyoming** (`wyoming/mod.rs`, `wyoming/protocol.rs`) runs connections over the calls of GpuVoice.
`conn` is the place of a connection's task; an event is read and handled to its answer, and the
answer is written (`writing`) as fast as the client reads it, before the next one is read. Audio is a number of bytes with a format, and **Audio** (`audio.rs`) says how many
samples come of it, remainders included, and whether a WAV file is one. `heard` and `said` are
history. A task does not see that its client has gone until it reads or writes, so `Leave` is a step
of the environment, `EndOfStream` and a failed write (`WriteFails`) are the ends. All state of a call is in
GpuVoice, so the two are one composition: `Call` starts a call, `Transcribed` and `Spoken` read its
end.

**Hub** (`main.rs`, `server.rs`, `llm/proxy.rs`). `main` is the place of `run` and `serve` in the
code's order; the supervisor tasks and their processes are reduced to what Supervisor promises of
them. `lister` is the process `llama-server --cache-list` that a plan of the LLM's next start waits
for, at the place `asks` of its task; it may hang, and the task with it. `media` is the media index
while it fetches and loads its model, the second on a blocking thread. `conn` is the place of each connection's task:
first byte, idle, a request that is sent or streamed, the two probes of `/health`, the read of the
count after them, a search or a transcription on a blocking thread (`jobs`). `draining` are the
connections that have seen `shutdown`. `since` is history: the requests that have been in flight for
all of a probe. `DropRuntime` is the end of the tokio runtime: tasks are dropped and engines killed (`kill_on_drop`),
but not a cache list (its task is `cut`); work on blocking threads is waited for.

**Text** (`text.rs`), **JellyfinMatch** (the pure part of `jellyfin.rs`, `gate` and `semantic` of
`media/mod.rs`): titles are sequences of words, words sequences of letters; similarity is a fraction
of trigrams as in the code, compared by cross-multiplication. **Jellyfin** is `Jellyfin::search` as a
state machine: the place of each request between two calls, the kept list, the queue for its lock,
and a library whose items come, go and are watched. A pick is `alone` if the media index itself found
the episode and the list does not have its series. `Said` is what a query asks for, from its words
alone; `Split` is what the code makes of it. **Iterators** is Rust's `filter` and `sum` on
a list as recursive functions over its length (`Picked` takes the positions that stay); the media
index, Jellyfin's list, the batches of MCP, the samples of an evaluation and the audio of a request
share it. **YouTube** and **WebSearch** are what is made of an
answer. **Server** (`server.rs`, `mcp.rs`, `YouTube::search`) has the routes that answer by themselves
over all of these.

**Gguf** (`gguf.rs`): a file is the header that was written and the number of bytes that are there;
the reader is a sequence of steps, bytes that must be there and bytes to seek over. An array value is
the list of it and the arrays in it, each before its elements, which is the order of the recursion. Sums wrap or
saturate at `Word` where they do in a release build. **Config** (`config.rs`, `choose_speech_devices`)
returns the set of its results, empty if it refuses the start. **LlmSpec** (`llm/mod.rs`,
`llamacpp.rs`, `ik.rs`, `template.rs`, `/proc/cpuinfo` in `engine.rs`) builds command lines as sets of
options from a configuration, a machine and a download cache. **Eval** (`llm/eval.rs`) asks questions
in rounds and compares two reports. **Commands** (`main`) composes them with LlmSupervisor: the
`serve`, `llm-command`, `verify-gguf` and `eval` commands, and for `serve` every start of the LLM with
its command line, while llama.cpp, the user and Hugging Face change the files; what the user puts in
place then may be cut. `listed` says whether llama.cpp could list its cache for this start. llama.cpp's own
behaviour (`DropStale`, `DownloadModel`) is external and is what `docs/llm.md` and the comments in
`llm/mod.rs` say of it.

`MC*` modules name instances for TLC; MCServer and MCCommands also hold titles, files, settings and
answers.

## 3. Runs

All runs are exhaustive for their bounds. `CHECK_DEADLOCK FALSE` is set in all of them, since each
system may stop: the hub ends, the bounds are used up, all calls are answered.

| Run | Module, bounds | Shows |
|---|---|---|
| `supervisor` | Supervisor, 2 probes for a hang, 2 starts | `OneProcess`, `DeservedStop` (a stop only after the full number of missed probes past grace or first answer, or for the replacement asked for), `ImplementsRuns` (refines SupervisedRuns), `HangIsFound`; `ExitLeadsToStart` and `StopEnds`, unless the source of the next start never answers |
| `llm_supervisor` | LlmSupervisor, 3 starts, all configurations and machines with a family of the table and one outside | `BanHolds`, `BanDeserved` (the ban comes exactly with two bad runs of ik_llama.cpp in a row), `OneReplacement`, `DocumentedEngine` (the table of `docs/llm.md`) |
| `gpu_voice` | GpuVoice, 2 transcriptions, 2 syntheses, each engine on GPU or CPU | `Exclusion`, `LostAfterThree` |
| `wyoming` | Wyoming, 2 connections, 1 call of each kind, 4 events of 10 kinds | `AnswersInOrder`, `NoOrphan`, `OnlyHangsWait` (who is held up for good waits for a kernel that never ends, or does not read its answer) |
| `slot_cache` | SlotCache, both engines, 2 starts, 2 requests | `OwnFormat`, `RestoreOnce`, `GoodFileKept` |
| `slot_cache_saves` | SlotCache with ik_llama.cpp, 2 starts, 2 requests, fair | `ChangeIsSaved` |
| `media_index` | MediaIndex, 2 items with 2 texts, 2 library changes, 1 fault, pages and batches of 1 | `Settled` (an idle index is the library), `OwnVectors`, `SavedWhenIdle`, `Follows` |
| `hub` | Hub, 2 connections, with and without an LLM | `CountIsTrue`, `HealthTells`, `NoChildLeft` (no engine outlives the hub, a cache list only where its task was dropped), `ExitUnlessBlocked` (a stop ends the hub, or there is work on a blocking thread at every moment from some time on) |
| `server` | Server, 2 requests, 2 users, 5 titles and their episodes, 1 change in Jellyfin | `RepliesMatch`, `OwnState`, `AskedEpisode`, `EveryRequestAnswered` |
| `commands` | Commands, 3 starts; all pairs of settings of a table, all cuts of the files, four machines, four download caches; an evaluation of 2 questions | `WholeOrRefused`, `CachedStays`, `EvalEnds`, `ReplacementDeserved` |
| `gpu_voice_exclusion`, `media_index_load` | as above | each finds a violation: section 4 |

The runs of the first five state machines (Supervisor, LlmSupervisor, GpuVoice, SlotCache,
MediaIndex) also check the type invariant of their module. `WyomingTypeOK`, `HubTypeOK` and
`ServerTypeOK` document the types of the others.

### Bounds, and why they are enough

- *Failures = 2* (the code: 4). The count distinguishes none, some and the last allowed; 2 has all
  three. The proofs hold for every value.
- *MaxStarts = 2 or 3.* All state of a run is new at its spawn, so two starts have every step across
  runs (an old watcher, the outcome handed over, a slot restored twice). The ban needs two bad runs
  and a third start that obeys it.
- *Two calls of each kind* on the GPU lock: a holder, a waiter of the same kind, a waiter of the
  other, a third result to count. Three faults in a row fit in four calls, with one result that
  resets the count between them.
- *Two requests, two engines, two tasks* in SlotCache: a conversation saved before, one that replaces
  it, one that comes during a save; a save and a restore of either task queue behind each other.
- *Two connections, four events* in Wyoming: one connection sends anything, the other competes for the
  engines. Chunks have one byte, so that the samples of two bytes lie across chunks and formats; four
  events hold a start, two chunks and a stop, or two requests of which one has no start.
- *Two connections* in Hub: a health check beside a request, or two requests; the count has 0, 1 and 2.
- *Two requests* in Server: both orders at one lock, of the same and of different users. The titles
  reach each stage of the search (exact, by likeness, by sound, by meaning, Jellyfin's own), and one
  query is not split ("Spy-X family season two").
- *All cuts* in Commands: each file is tried with each length from 0 to its own. `Word` is 2^15 here,
  larger than any honest file of the instance.
- *Two items, pages and batches of one, two changes, one fault* in MediaIndex: an item that moves up
  into a page already read, an item removed and added again, a change during each step, and one
  break, failure or kill at each step; `SaveEvery = 2` has a save between batches and one at the end.
  Three items are used where an item has to keep a wrong vector.

### Time

Time is abstract: a timer may fire at any moment after it was set. Three places use more:

- Supervisor: a run that hangs has been long (`ProbeFails` asks for `run.long`). Both children are
  probed every 30 s and may miss four probes, after a grace of 120 s and more; `GOOD_RUN` is 120 s.
- SlotCache: an engine that starts again is spawned only when each task has acted on its last answer
  from the process before (`EngineSpawned`), and is ready only when each task is done with it
  (`EngineReady`). `RESTART_DELAY` is 2 s and a model load takes seconds, while a broken connection is
  reported at once.
- MediaIndex: `QuietOver` does not wait for the channel to be empty, although 20 s of quiet make this
  rare. It allows more orders than the clock would.

### Fairness

- A tokio task that can go on does (weak fairness of the steps of each task), and a timer fires. The
  runtime polls a woken task. Two locks are held across an await: the GPU lock, whose waiters have a
  limit, and that of Jellyfin's list, whose holder waits for a call with a limit.
- Nothing is assumed of the native engines in Supervisor, GpuVoice, Wyoming and Hub: a child may load
  forever, hang or never end a kernel, and `llama-server --cache-list` may never answer, so `Plan` of
  Supervisor is not fair. `ExitLeadsToStart`, `StopEnds`, `OnlyHangsWait` and `ExitUnlessBlocked` name
  what then remains.
- Wyoming assumes nothing of a client that stays: it may never send and never read. A write to a client
  that has gone ends, by its error or because the socket's buffer takes it.
- Hub assumes fairness of `main` alone, whose every wait has a limit: neither clients nor supervisor
  tasks nor connections have to go on for `ExitUnlessBlocked`.
- Server assumes that calls over HTTP end (each client has a time limit) and that the task of a request
  goes on. Native code on a blocking thread may never end, so `EveryRequestAnswered` leaves those out.
- Commands assumes that an evaluation goes on: a request ends at the latest with its timeout.
- SlotCache assumes that an engine which is ready and idle executes its queue. `ChangeIsSaved` only
  speaks of an engine that stays up and idle.
- MediaIndex assumes that a broken connection is noticed in the end (the keep-alive every 30 s fails)
  and that Jellyfin answers again; library changes, failures and kills are finite.

## 4. Where the code and its words differ

Each is a run of one property, which states what a document or comment says, and TLC's shortest
behaviour against it.

| Run | Said | Done |
|---|---|---|
| `gpu_voice_exclusion` | `docs/architecture.md:47`, `gpu.rs:5-6`: STT and TTS never run on the GPU at the same time | A synthesis that timed out goes on in audiocpp_server after its lock is free (`tts.rs:52`), and the next transcription starts beside it |
| `media_index_load` | `index.rs:197-198`: a crash between the renames leaves a length mismatch, which `load` detects | If as many items came as went, the lengths are equal. Entries get the vectors of others, and as their hashes are right they are never embedded again |

Further differences were found while writing the models. They follow from single steps of them and
have no run of their own:

| Said | Done |
|---|---|
| `slots.rs:14-15`: a kill in the middle never leaves a broken file | The sidecars that ik_llama.cpp needs are renamed after the slot file (`slots.rs:75`): SlotCache has `Move` and `MoveSide` as two steps with `Kill` between them |
| `docs/llm.md:197`, `slots.rs:9-10`: a restore never runs during a request, so it does not replace the current cache | A request may start between the answer to `GET /slots` and the restore (`slots.rs:290`); the engine runs the restore after it: `RequestStarts`, `RequestEnds`, `RestoreRuns` |
| `slots.rs:250`: a refused file is of a wrong model or context size, useless | A restore deferred behind a long request times out, and a good file is removed (`slots.rs:245-252`): the case that `GoodFileKept` leaves out |
| `docs/media-index.md:86`: `indexing` with progress, `ready` | A live update sets `Indexing` (`mod.rs:437`), and only a full comparison sets `Ready` again, up to six hours later |
| `docs/architecture.md`: on SIGTERM the hub stops the children and exits | Work on a blocking thread that never ends keeps the process: the other case of `ExitUnlessBlocked`. `llama-server --cache-list` (`llm/mod.rs:118-124`) is spawned without `kill_on_drop`: if it hangs, its supervisor task does not see the stop (`supervisor.rs:202` is outside `select!`), the hub gives up waiting, and the list outlives it: the `lister` of `NoChildLeft` |
| `docs/architecture.md`: a child that exits or hangs is started again | Not while the source of its next start waits for a list that hangs, and not a hung child whose watcher could not build its HTTP client (`supervisor.rs:131-137`): the other cases of `ExitLeadsToStart` and `HangIsFound` |
| `docs/llm.md:48`: the image never deletes a model | A repository without a file of the default quantization is never found by its cache key (`llm/mod.rs:94`), so each start is online and llama.cpp replaces its copy when upstream has a new one. `CachedStays` speaks of the asked quantization |
| the same | If `llama-server --cache-list` cannot be started, or fails without output, for one plan (`llm/mod.rs:117-131`), that start is online although the model is cached, and llama.cpp may delete its copy. `CachedStays` speaks of starts with a list (`listed`) |
| `gguf.rs:1`: truncated files are rejected before they reach a native loader | The files are checked when the hub starts. One that the user changes while it serves is loaded by the next start of the engine without a check: `UserChanges` puts such a file in place |
| `jellyfin.rs:8-9`: a season and an episode number pick that episode | A query with more words than chunks between blanks ("Spider-Man season 2") is not split (`jellyfin.rs:259-261`): a later stage may match the series by likeness, and the next episode of any season plays. Only the first "season" and the first "episode" count. `AskedEpisode` speaks of clear queries (`Clear`); without this condition TLC finds the query of MCServer |
| the same | An episode that the media index finds, of a series that is not in the list yet, plays whatever number was asked for (`jellyfin.rs:518-527`): the `alone` of `AskedEpisode` |
| `gguf.rs:142-143`: the minimum size that the header declares | `start + max_end` (185) wraps in a release build, so a header with an absurd offset passes. `WholeOrRefused` speaks of headers below 64 bits |
| `eval compare`: faster by 20 % | With one sample the mean is 0, and every engine is fast enough (`llm/eval.rs:202`). `ReplacementDeserved` speaks of two samples and more |

Smaller gaps of the media index stand in the property `Settled` itself as its four excuses: a failed
live update is dropped, changes before the first connection are not seen, an item may be skipped when
an earlier one is removed between two pages, and a pending removal may hit an item that a comparison
has just found again. All of them last until the next full comparison; `Follows` checks that it
repairs them.

## 5. Proofs

Seven modules prove what the runs check, for every value of the constants; an eighth, Iterators_proof,
has the lemmas on lists and sums below them. All leaves are checked.
No bound of a run (section 3) is an assumption of a theorem: the assumptions are on what the constants
are, and each stands in the module that declares them.

Each proof has one shape. `IndInv` (`Inv` in Server_proof; `EvalInv`, `FilesInv`, `CacheInv` and `AllFit`
for single properties of Commands and Wyoming) is an invariant that every step keeps; the
lemmas have one step per action and, under it, one per part that the action can disturb; a theorem
follows from `Spec => []IndInv` and `IndInv => property`. The properties themselves are seldom
inductive: they relate two places that different actors write at different times, so the invariant
says what each actor relies on in between. As the proofs cover the invariants, no run checks them again.

### Supervisor (`FailuresAssumption`, `MaxStartsAssumption`: both positive)

| Theorem | States |
|---|---|
| `TypeCorrect` | `Spec => []TypeOK` |
| `AtMostOneProcess` | `Spec => []OneProcess` |
| `EveryStopDeserved` | `Spec => []DeservedStop` |
| `Implements` | `Spec => ImplementsRuns`: each step of the supervisor is a step of SupervisedRuns or changes nothing of it |

`DeservedStop` speaks of a run that is being stopped, while the reason for the stop was found earlier
by another task. The invariant carries the reason along:

- `Watched`: while a watcher exists, the supervisor is in its run, the spec has a probe, the token is
  not cancelled and fewer than `Failures` probes are counted;
- `Counted`: while the watcher sleeps or probes, it has counted no more probes than were missed in a
  row; it counts only after the first answer or after grace; a first answer is in `healthy`;
- `Answered`: `healthy` needs a probe; the flag `replace`, and the watcher's places on the way to it,
  need a first answer and a spec that asks for a restart;
- `FatalHasReason`: a cancelled token means a replacement that was marked, or a full count of missed
  probes past grace or first answer, in a run that was long;
- `StopHasReason`: the same of a child that is being stopped.

`Implements` uses it to show that an outcome is one of those that SupervisedRuns allows.

### LlmSupervisor (in Commands_proof; `HostsAssumption`: hosts are records of facts; `MaxStartsAssumption`)

| Theorem | States |
|---|---|
| `ImplementsRuns` | `Spec => RunsSpec`: the starts of the LLM are those of SupervisedRuns, which Supervisor implements |
| `TypeCorrect` | `Spec => []TypeOK` |
| `BannedForGood` | `Spec => []BanHolds` |
| `BannedForAReason` | `Spec => []BanDeserved` |
| `ReplacedAtMostOnce` | `Spec => []OneReplacement` |
| `EngineOfTheTable` | `Spec => []DocumentedEngine` |

The chooser learns of a run only at the plan of the next one, so its count and its ban are one run
behind the history for as long as `phase` is `source` after a run of ik_llama.cpp. `Noted(m)` says what
the chooser is when it knows the first `m` runs, `OneBehind` says which `m` that is. `SameEngine` and
`ReplaceOnlyLlama` tie the outcome to the engine that it is of; `ReplacedOnce` follows a replacement
from the spec through the outcome into `download_done`.

### Commands (`CommandsAssumption`, `EvalAssumption`, `GgufAssumption`, `ConfigAssumption`; those of LlmSupervisor)

The assumptions say that lengths, counts and times are naturals, that a path holds at most one file, and
that a repository has one file of a quantization at a time. Which settings, headers, questions, answers
and caches there are is arbitrary.

| Theorem | States |
|---|---|
| `ServeStartsTheChild` | `CommandsSpec => Spec` of LlmSupervisor: command lines, the cache and the files add nothing to what a start may be |
| `ServeKeepsTheChild` | so `BanHolds`, `BanDeserved`, `OneReplacement` and `DocumentedEngine` hold of the whole program |
| `OnlyTheBetterReplaces` | `CommandsSpec => []ReplacementDeserved` |
| `NoCutFile` | `CommandsSpec => WholeOrRefused`, an action property |
| `NoModelDeleted` | `CommandsSpec => CachedStays`, an action property |

- `EvalInv`: the samples are those of the first questions asked, a report has one for each question, and
  an engine may only replace another if `compare` of these two reports said so. `Deserved` then undoes
  the divisions: both reports have the same known failures, so the counts of both are out of the same
  number, and both means are over the same number of samples.
- `FilesInv`: until the hub serves, the files are those that were there first. Only the two steps that
  check them lead to `serving` and to the end of `verify-gguf` (`OnlyChecked`). `CheckedIsWhole` is the
  correctness of the reader: whatever the header says, if the steps of the reader pass the length and the
  sizes end below `Word`, `DataStart` is the end of the header, aligned (`PositionIsNat`, `AlignedIsNat`),
  no saturated sum was used (`SaturatedIs`), and the last end is not below that of any tensor.
- `CacheInv`: a start without `--offline` for which the cache was listed had no file of the asked quantization in the cache, so one that
  is there during its run is what this run has downloaded from the state of upstream that it saw, which
  llama.cpp has no reason to delete. `NoStepDrops` rests on it.

### GpuVoice (in Wyoming_proof; `CallsAssumption`: a call is of one engine)

| Theorem | States |
|---|---|
| `TypeCorrect` | `Spec => []TypeOK` |
| `OneEngine` | `Spec => []Exclusion` |
| `LostExactly` | `Spec => []LostAfterThree` |

- `Held`: who works is the holder, and nobody else; an engine's job is of a call that works or has timed
  out;
- `Queued`: the queue holds each waiting call once and no other, so the next holder is one that waits;
- `Counted`: the counter is at least 1, 2, 3 exactly when as many faults stand in the history that no
  success has followed. The history is only ever extended at its end, so this is kept by looking at the
  last result alone.

### Wyoming (`ConnsAssumption`: the numbers of an event are naturals; those of GpuVoice)

| Theorem | States |
|---|---|
| `UsesTheEngines` | `WyomingSpec => Spec` of GpuVoice: connections add nothing to what a call may do |
| `OneEngineForAll`, `LostExactlyForAll` | `Exclusion` and `LostAfterThree` hold of the composition |
| `NoCallAlone` | `WyomingSpec => []NoOrphan` |
| `AnsweredInOrder` | `WyomingSpec => []AnswersInOrder` |

`Owned` says which connection a call belongs to: a connection has a job exactly while it waits for a
call, a job is of one connection, and a call that waits or works is somebody's job. The number of
connections and what their clients send are arbitrary.

`AnswersInOrder` compares the answers said with those that all events heard call for (`AllDue`). The
second is defined over the history alone; the code keeps a format and a list of segments. `Fits` says
how the two meet in each connection: the format is that of the last `audio-start` in the history, the
segments have the samples of the open request and end in the last run of chunks with equal formats, and
what is due is what was said, with the answer that is being worked on behind it. One event more changes
`AllDue` by at most one answer at its end (`DueAppends`), the format only if it is a start
(`FormatNext`) and the samples of the open request only if it is a chunk, by whole frames of the run
that it lengthens (`RunGrows`) or opens (`RunStarts`); a chunk that cuts a sample is the reason that a
run is counted as a whole.

### SlotCache (`KindsAssumption`: the engines of the table; `BoundsAssumption`)

| Theorem | States |
|---|---|
| `TypeCorrect` | `Spec => []TypeOK` |
| `OwnFormats` | `Spec => []OwnFormat` |
| `OneRestore` | `Spec => []RestoreOnce` |
| `GoodFilesKept` | `Spec => GoodFileKept`, an action property |

- `Bounded`, `EngineUp`: the engine that runs is the active one, and it has calls only when it is ready;
- `Written`: the engine writes for the call at the head of its queue, and the file that it has open is
  still there; with it `Formats`, for the renames as well;
- `Once`, `ThisStart`: a restore that is done or queued is the one of the start that `run` has handled or
  handles now, and a start is handled once;
- `Alone`: until the shutdown `run` is alone with the engine: it waits for the last call in the queue or
  for none, it moves a file only when the queue is empty, and a refused restore was of a file that is
  not whole. `GoodFilesKept` rests on the last: between the refusal and the removal nobody makes the
  file whole.

### Hub (`ConnsAssumption`: connections are finitely many)

| Theorem | States |
|---|---|
| `TypeCorrect` | `HubSpec => []HubTypeOK` |
| `CountTrue` | `HubSpec => []CountIsTrue` |
| `ChildrenGone` | `HubSpec => []NoChildLeft` |
| `HealthTrue` | `HubSpec => HealthTells`, an action property |

`SinceInFlight`: what a health check remembers is still in flight. `NoTaskLeft`: no supervisor task runs
before `main` starts it or after the runtime is dropped, so no child can come back, and a cache list
is one that the task of the LLM waits for, or waited for when it was dropped. `UncountInv` is the
one lemma for all the ways in which a request leaves the count.

### MediaIndex (`ItemsAssumption`: finitely many; `SizesAssumption`: positive; `TextsAssumption`, `BoundsAssumption`)

| Theorem | States |
|---|---|
| `TypeCorrect` | `Spec => []TypeOK` |
| `OwnVectorsKept` | `Spec => []OwnVectors` |
| `SavedAtRest` | `Spec => []SavedWhenIdle` |
| `IndexAtRest` | `Spec => []Settled`: an idle index is the library, but for the four excuses |

- `Typed`, `Working`: what the place of `run` says of its job;
- `Kept`: the lists in memory and on disk hold an item once, and in memory they are of one length;
- `Saved`: which of the two files are already those of the index;
- `Connected`, `Followed`: an item whose entry is not that of the library is known to be out of date.
  Either a full comparison will be asked for (`Later`) or is due (`Due`), or its last change is announced
  (`OnWay`), or it is among the documents at work (`Known`): among those read, if its rank in the library
  lies before the offset of the next page (`Read`), and later among those that are still to be stored
  (`Stored`). Each of the four excuses is the step that would break this.

`RemoveIs`, `UpsertIs`, `UpsertAllIs`, `ChangedIs`, `AscendingIs` and `SplitIs` say what the operations of
IndexStore do to the set of entries and to the pairing of the two lists.

### Server (`ServerAssumption`, `JellyfinAssumption`: bodies, queries and Jellyfin's order are sequences, users and items are those of the catalogue, no number is the missing one)

| Theorem | States |
|---|---|
| `PickOfOwnState` | `ServerSpec => []OwnState` |
| `PickOfAskedEpisode` | `ServerSpec => []AskedEpisode` |
| `RepliesToEach` | `ServerSpec => []RepliesMatch` |

- `World`: the states of the last 10 min hold those of now;
- `Jobs`: a request under way holds no items, or those of its own user's list as this user may see them,
  and it asks for the next episode only if its question has no number; `GoodPick` is what the two
  properties come to for one pick, in the numbers that the code has split off the query. `SplitSays`
  ties these to what was said, for every clear query;
- `Kept`: a list that is fresh is one that Jellyfin gave, as the user it was fetched for may see it;
- `HttpInv`: a batch under way has replies to the requests before its next message (`GoodBatch`).

What the titles, the likenesses and the ranking of the embedding model are is left open: the theorems
hold for every order in which a search may find items.

### Induction over data

The library's induction theorems cannot be used here, as they take an operator as a parameter. What a
recursive function computes is proved by a least counterexample instead: the naturals are well-founded
(`NatLessThanWellFounded`, `WFMin`), so a set of naturals that holds with each number the next one, and
holds 0, holds all (`Least`, `Induct`). A function that is defined by recursion inside a `LET` is first
shown to exist, and then to be the `CHOOSE` that its definition stands for (`PickedIs`, `UpsertsExist`,
`SortedExists`).

Iterators_proof has what the other modules share of this: `Recursion` (a function defined step by step
exists, and has the value of each step), what `Picked` keeps, how `Total` grows by one number and by a
change of one (`TotalAppend`, `TotalChanged`), and that a concatenation of lists is the one before and
the last list (`FlattenAppend`), which is how `AllDue` grows.

### What the proofs changed in the models

- Unordered `CASE`s that relied on their order became `IF`/`ELSE IF`.
- SlotCache: a call that a task sends after the engine has stopped, on the word of an earlier answer,
  fails at once and never reaches the queue of the next process (`Send`).
- The lists of IndexStore, Jellyfin and Server, and the sums of Eval and Wyoming, became recursive
  functions (Iterators); what a stage of the
  search finds became a set, so that nothing depends on the order in which TLC lists it.

- Gguf: the sizes of types are written type by type as in `gguf.rs`, which showed one that was wrong in the
  model (18, IQ3_XXS); what a file may be (`IsFile`) is said in the module.
- Eval: the counts of right answers and the known failures are cardinalities of sets of positions.

### Only model-checked

- All liveness properties (`HangIsFound`, `ExitLeadsToStart`, `StopEnds`, `OnlyHangsWait`, `ChangeIsSaved`,
  `Follows`, `ExitUnlessBlocked`, `EveryRequestAnswered`, `EvalEnds`): fairness and ENABLED are out of
  reach of the prover. Every invariant and every action property that a run checks is proved.
- `DocumentedExclusion` and `LoadDetects` are what documents say; they do not hold (section 4).

## 6. What is not modelled

- *Data*: sampling values, prompts, audio samples, the text of a document, embeddings and their order,
  the wording of answers, texts that only pass through the settings.
- *Output of the engines* (`supervisor/output.rs`): which log level a line gets, and the last lines for
  a message.
- *Clients and tests*: `probe.rs` talks to a running hub and prints; `llm/fake.rs`, `media/eval.rs` and
  the tests.
- *Foreign formats*: where a value stands in YouTube's JSON, the set-up of the Python interpreter for
  SearXNG, the bytes of HTTP and WebSocket messages.
- *Downloads of the embedding model* (`media/embed.rs`).
- *Native code*: the engines are environments. What the hub assumes of them is in the actions marked
  external in `PROJECT.json`.
- *The stack*: how deep arrays in a GGUF header may lie in each other before the recursion of the reader
  ends the process.
- *Poisoned locks*, which need a panic while a lock is held.

## 7. Plan

The order follows what a fault would cost: the children and their supervision first, since every
service depends on them, then shared state, then what can be repaired later.

| Step | Module | Composes | Properties and theorems |
|---|---|---|---|
| done | SupervisedRuns, Supervisor, Supervisor_proof | refinement | sections 3 and 5 |
| done | LlmEngine, LlmSupervisor | SupervisedRuns | ban, download, table |
| done | GpuVoice | | lock, fault count |
| done | SlotCache | runs of the engine | cache on disk |
| done | IndexStore, MediaIndex | | follows the library |
| done | Audio, Wyoming | calls of GpuVoice | answers in order, no call without its connection |
| done | Hub | what Supervisor promises of both children | count of requests, health, the end of the hub |
| done | Text, JellyfinMatch, Jellyfin, YouTube, WebSearch, Server | each other | own watch state, asked episode, batches |
| done | Gguf, Config, LlmSpec, Eval, Commands | LlmSupervisor | files, the download cache, compare |
| done | the `*_proof` modules of all state machines | | section 5 |
| done | Iterators, Iterators_proof; Eval, Gguf and Commands, and the answers of Wyoming in their proofs | | sums, concatenations and the steps of a reader for every length |
| later | an abstract lock that GpuVoice implements; an abstract mirror of the library that MediaIndex implements between two faults | refinement | |
