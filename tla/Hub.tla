--------------------------------- MODULE Hub ---------------------------------
(***************************************************************************)
(* The hub as a process: main's start and stop (serve and run in           *)
(* src/src/main.rs), the listener and its connections (server.rs), and the *)
(* LLM proxy with its count of requests in flight (llm/proxy.rs).  Every   *)
(* connection is a task.  A stop cancels the token shutdown, saves the     *)
(* prompt cache, cancels the token children, waits for the tasks with time *)
(* limits and drops the runtime, which ends all tasks but waits for work   *)
(* on blocking threads.                                                    *)
(***************************************************************************)
EXTENDS Naturals, FiniteSets

CONSTANTS Conns   \* connections

(* A process has only so many sockets. *)
ASSUME ConnsAssumption == IsFiniteSet(Conns)

Engines == {"tts", "llm"}

(* The places of main, in the order of the code. *)
Places ==
    {"config", "engines", "models", "bind", "serving", "saving",
     "join_tts", "join_llm", "join_server", "dropping", "blocking", "exited"}

Starting == {"config", "engines", "models", "bind"}
Stopping == {"saving", "join_tts", "join_llm", "join_server"}

VARIABLES
    main,       \* where main is
    llm,        \* an LLM is configured
    task,       \* the supervisor task of each engine
    child,      \* the process of each engine
    lister,     \* a process llama-server --cache-list runs
    media,      \* where the media index is with its model; idle without one
    listening,  \* the listener task runs
    conn,       \* where the task of each connection is
    draining,   \* connections whose task has seen shutdown
    in_flight,  \* LlmProxy.in_flight
    since,      \* history: of a GET /health, the requests in flight ever since
                \* its LLM probe began
    jobs        \* work on blocking threads, by the connection that began it

workVars == <<task, child, lister, media>>
connVars == <<listening, conn, draining, in_flight, since, jobs>>
hubVars == <<main, llm, workVars, connVars>>

HubTypeOK ==
    /\ main \in Places
    /\ llm \in BOOLEAN /\ listening \in BOOLEAN
    /\ task \in [Engines -> {"none", "runs", "asks", "cut", "done"}]
    /\ child \in [Engines -> {"none", "up", "hung"}]
    /\ \A e \in Engines : child[e] # "none" => task[e] = "runs"
    /\ lister \in BOOLEAN
    /\ media \in {"idle", "fetch", "load"}
    /\ conn \in [Conns -> {"none", "first", "wyoming", "stt", "idle", "send", "stream",
                           "tts_probe", "llm_probe", "count", "ok", "busy",
                           "unavailable", "search", "closed"}]
    /\ draining \subseteq Conns
    /\ in_flight \in 0..Cardinality(Conns)
    /\ since \in [Conns -> SUBSET Conns]
    /\ jobs \subseteq Conns

HubInit ==
    /\ main = "config"
    /\ llm \in BOOLEAN
    /\ task = [e \in Engines |-> "none"]
    /\ child = [e \in Engines |-> "none"]
    /\ lister = FALSE /\ media = "idle"
    /\ listening = FALSE
    /\ conn = [c \in Conns |-> "none"]
    /\ draining = {} /\ in_flight = 0
    /\ since = [c \in Conns |-> {}]
    /\ jobs = {}

-----------------------------------------------------------------------------
(* The start.  A bad setting or a cut model file refuses it. *)
Refuse ==
    /\ main = "config"
    /\ main' = "exited"
    /\ UNCHANGED <<llm, workVars, connVars>>

ConfigRead ==
    /\ main = "config"
    /\ main' = "engines"
    /\ UNCHANGED <<llm, workVars, connVars>>

StartEngines ==
    /\ main = "engines"
    /\ main' = "models"
    /\ task' = [e \in Engines |-> IF e = "llm" /\ ~llm THEN "none" ELSE "runs"]
    /\ UNCHANGED <<llm, child, lister, media, connVars>>

(* STT and the searches load on blocking threads; without them the hub     *)
(* runs all the same.  Then the media index starts, if there is one.       *)
ModelsLoaded ==
    /\ main = "models"
    /\ main' = "bind"
    /\ media' \in {"idle", "fetch"}
    /\ UNCHANGED <<llm, task, child, lister, connVars>>

Listen ==
    /\ main = "bind"
    /\ main' = "serving"
    /\ listening' = TRUE
    /\ UNCHANGED <<llm, workVars, conn, draining, in_flight, since, jobs>>

(* Mutant: an error of the start exits at once. *)
StartExits ==
    /\ main \in {"engines", "models", "bind"}
    /\ main' = "exited"
    /\ UNCHANGED <<llm, workVars, connVars>>

(* An error after the runtime has started: run returns it, and the runtime *)
(* is dropped.                                                             *)
StartFails ==
    /\ main \in {"engines", "models", "bind"}
    /\ main' = "dropping"
    /\ UNCHANGED <<llm, workVars, connVars>>

-----------------------------------------------------------------------------
(* The stop: SIGTERM, SIGINT or a lost GPU.  It cancels shutdown. *)
Stop ==
    /\ main = "serving"
    /\ main' = "saving"
    /\ UNCHANGED <<llm, workVars, connVars>>

(* save_now is done, or its 8 s are over, or there is no cache to save;    *)
(* then children is cancelled.                                             *)
SaveOver ==
    /\ main = "saving"
    /\ main' = "join_tts"
    /\ UNCHANGED <<llm, workVars, connVars>>

(* Mutant: main waits for the tasks without a limit. *)
JoinedInFull ==
    /\ \/ main = "join_tts" /\ task["tts"] = "done" /\ main' = "join_llm"
       \/ /\ main = "join_llm" /\ task["llm"] \in {"none", "done"}
          /\ main' = "join_server"
    /\ UNCHANGED <<llm, workVars, connVars>>

(* A task of supervised has ended, or its 8 s are over. *)
Joined ==
    /\ \/ main = "join_tts" /\ main' = "join_llm"
       \/ main = "join_llm" /\ main' = "join_server"
    /\ UNCHANGED <<llm, workVars, connVars>>

(* The listener has ended, or 2 s are over: run returns. *)
ServerJoined ==
    /\ main = "join_server"
    /\ main' = "dropping"
    /\ UNCHANGED <<llm, workVars, connVars>>

(* Work on blocking threads: transcriptions and searches of connections,   *)
(* and the media index while it loads its model.                           *)
Blocking == jobs # {} \/ media = "load"

(* The runtime drops its tasks.  kill_on_drop kills the engines that are   *)
(* left, but not llama-server --cache-list, and connections are cut.  Work *)
(* on blocking threads goes on.                                            *)
DropRuntime ==
    /\ main = "dropping"
    /\ main' = "blocking"
    /\ task' = [e \in Engines |-> CASE task[e] = "none" -> "none"
                                    [] task[e] = "asks" -> "cut"
                                    [] OTHER            -> "done"]
    /\ child' = [e \in Engines |-> "none"]
    /\ media' = IF media = "fetch" THEN "idle" ELSE media
    /\ listening' = FALSE
    /\ conn' = [c \in Conns |-> IF conn[c] = "none" THEN "none" ELSE "closed"]
    /\ in_flight' = 0
    /\ since' = [c \in Conns |-> {}]
    /\ UNCHANGED <<llm, lister, draining, jobs>>

Exit ==
    /\ main = "blocking" /\ ~Blocking
    /\ main' = "exited"
    /\ UNCHANGED <<llm, workVars, connVars>>

-----------------------------------------------------------------------------
(* The processes of the engines, with their supervisor tasks (Supervisor). *)
ChildChanges(e) ==
    /\ task[e] = "runs"
    /\ child' \in {[child EXCEPT ![e] = s] : s \in {"none", "up", "hung"}}
    /\ UNCHANGED <<main, llm, task, lister, media, connVars>>

(* The plan of the LLM's next start asks llama-server --cache-list, which  *)
(* may hang.                                                               *)
ListStarts ==
    /\ task["llm"] = "runs" /\ child["llm"] = "none"
    /\ task' = [task EXCEPT !["llm"] = "asks"]
    /\ lister' = TRUE
    /\ UNCHANGED <<main, llm, child, media, connVars>>

ListEnds ==
    /\ lister
    /\ lister' = FALSE
    /\ UNCHANGED <<main, llm, task, child, media, connVars>>

Listed ==
    /\ task["llm"] = "asks" /\ ~lister
    /\ task' = [task EXCEPT !["llm"] = "runs"]
    /\ UNCHANGED <<main, llm, child, lister, media, connVars>>

(* children is cancelled: the task stops its process and ends.  A task     *)
(* that waits for the list does not come to it.                            *)
TaskEnds(e) ==
    /\ main \in Stopping \ {"saving"}
    /\ task[e] = "runs"
    /\ task' = [task EXCEPT ![e] = "done"]
    /\ child' = [child EXCEPT ![e] = "none"]
    /\ UNCHANGED <<main, llm, lister, media, connVars>>

EngineStep ==
    \/ \E e \in Engines : ChildChanges(e) \/ TaskEnds(e)
    \/ ListStarts \/ ListEnds \/ Listed

(* The media index: its model is there or downloaded, is loaded on a       *)
(* blocking thread, and the index follows the library; or it fails.  The   *)
(* blocking thread outlives the runtime.                                   *)
IndexLoads ==
    /\ media = "fetch" /\ media' \in {"idle", "load"}
    /\ UNCHANGED <<main, llm, task, child, lister, connVars>>

IndexLoaded ==
    /\ media = "load" /\ media' = "idle"
    /\ UNCHANGED <<main, llm, task, child, lister, connVars>>

-----------------------------------------------------------------------------
(* The connections. *)
Shutdown == main \notin Starting \cup {"serving"}
Forwarded == {c \in Conns : conn[c] \in {"send", "stream"}}
Verdicts == {"ok", "busy", "unavailable"}
Http == {"idle", "send", "stream", "tts_probe", "llm_probe", "count", "search"} \cup Verdicts

(* The task of connection c goes on at a place. *)
Goes(c, place) ==
    /\ conn' = [conn EXCEPT ![c] = place]
    /\ UNCHANGED <<main, llm, workVars, listening>>

(* Where a connection is when a response is complete. *)
Done(c) == IF c \in draining THEN "closed" ELSE "idle"

Accept(c) ==
    /\ listening /\ conn[c] = "none"
    /\ Goes(c, "first")
    /\ UNCHANGED <<draining, in_flight, since, jobs>>

StopListening ==
    /\ listening /\ Shutdown
    /\ listening' = FALSE
    /\ UNCHANGED <<main, llm, workVars, conn, draining, in_flight, since, jobs>>

(* The first byte tells Wyoming from HTTP; none in 30 s ends it. *)
FirstByte(c) ==
    /\ conn[c] = "first"
    /\ \E place \in {"wyoming", "idle", "closed"} : Goes(c, place)
    /\ UNCHANGED <<draining, in_flight, since, jobs>>

(* The task sees shutdown: hyper ends the connection after the response    *)
(* that it is in.  Wyoming connections go on to the end of the process.    *)
Drain(c) ==
    /\ Shutdown /\ conn[c] \in Http /\ c \notin draining
    /\ draining' = draining \cup {c}
    /\ Goes(c, IF conn[c] = "idle" THEN "closed" ELSE conn[c])
    /\ UNCHANGED <<in_flight, since, jobs>>

(* Work on a blocking thread: a transcription, a web search, the vector of *)
(* a query for the media index.                                            *)
BlockingStarts(c) ==
    /\ \/ conn[c] = "wyoming" /\ Goes(c, "stt")
       \/ conn[c] = "idle" /\ Goes(c, "search")
    /\ jobs' = jobs \cup {c}
    /\ UNCHANGED <<draining, in_flight, since>>

BlockingEnds(c) ==
    /\ c \in jobs
    /\ jobs' = jobs \ {c}
    /\ Goes(c, CASE conn[c] = "stt"    -> "wyoming"
                 [] conn[c] = "search" -> Done(c)
                 [] OTHER              -> conn[c])
    /\ UNCHANGED <<draining, in_flight, since>>

(* forward: a request with the key is counted, sent to the engine and      *)
(* counted until the last byte of its answer.                              *)
Forward(c) ==
    /\ conn[c] = "idle" /\ llm
    /\ in_flight' = in_flight + 1
    /\ Goes(c, "send")
    /\ UNCHANGED <<draining, since, jobs>>

(* InFlight is dropped, and the task of c goes on at a place. *)
Uncount(c, place) ==
    /\ in_flight' = in_flight - 1
    /\ since' = [d \in Conns |-> since[d] \ {c}]
    /\ Goes(c, place)
    /\ UNCHANGED <<draining, jobs>>

SendFails(c) ==
    /\ conn[c] = "send" /\ child["llm"] = "none"
    /\ Uncount(c, Done(c))

(* Mutant: the count ends with the headers of the answer. *)
HeadersUncount(c) ==
    /\ conn[c] = "send" /\ child["llm"] = "up"
    /\ in_flight' = in_flight - 1
    /\ Goes(c, "stream")
    /\ UNCHANGED <<draining, since, jobs>>

Headers(c) ==
    /\ conn[c] = "send" /\ child["llm"] = "up"
    /\ Goes(c, "stream")
    /\ UNCHANGED <<draining, in_flight, since, jobs>>

(* The stream is complete, or breaks with the engine. *)
StreamEnds(c) ==
    /\ conn[c] = "stream" /\ child["llm"] # "hung"
    /\ Uncount(c, Done(c))

(* The client goes away.  hyper drops the handler, and with it what it     *)
(* waits for.  A transcription is not dropped (Wyoming).                   *)
ClientLeaves(c) ==
    \/ conn[c] \in {"send", "stream"} /\ Uncount(c, "closed")
    \/ /\ conn[c] \in (Http \cup {"wyoming"}) \ {"send", "stream"}
       /\ since' = [since EXCEPT ![c] = {}]
       /\ Goes(c, "closed")
       /\ UNCHANGED <<draining, in_flight, jobs>>

(* GET /health: first TTS, 5 s at most, then the LLM, 3 s at most. *)
Health(c) ==
    /\ conn[c] = "idle"
    /\ Goes(c, "tts_probe")
    /\ UNCHANGED <<draining, in_flight, since, jobs>>

TtsProbed(c) ==
    /\ conn[c] = "tts_probe"
    /\ \/ /\ llm
          /\ since' = [since EXCEPT ![c] = Forwarded]
          /\ Goes(c, "llm_probe")
       \/ ~llm /\ Goes(c, "ok") /\ UNCHANGED since
    /\ UNCHANGED <<draining, in_flight, jobs>>

(* The LLM engine answers, with 503 while it loads, or is gone, or gives   *)
(* no answer in time, also because it works on a long prompt.              *)
LlmProbed(c) ==
    /\ conn[c] = "llm_probe"
    /\ \/ child["llm"] = "up"   /\ Goes(c, "ok")
       \/ child["llm"] # "hung" /\ Goes(c, "unavailable")
       \/ child["llm"] # "none" /\ Goes(c, "count")
    /\ UNCHANGED <<draining, in_flight, since, jobs>>

(* Silence of the engine: the count of requests decides.  Others go on     *)
(* between the end of the probe and this.                                  *)
CountRead(c) ==
    /\ conn[c] = "count"
    /\ Goes(c, IF in_flight > 0 THEN "busy" ELSE "unavailable")
    /\ UNCHANGED <<draining, in_flight, since, jobs>>

(* The answer is written. *)
HealthSaid(c) ==
    /\ conn[c] \in Verdicts
    /\ since' = [since EXCEPT ![c] = {}]
    /\ Goes(c, Done(c))
    /\ UNCHANGED <<draining, in_flight, jobs>>

ConnStep(c) ==
    \/ Accept(c) \/ FirstByte(c) \/ Drain(c) \/ ClientLeaves(c)
    \/ BlockingStarts(c) \/ BlockingEnds(c)
    \/ Forward(c) \/ SendFails(c) \/ Headers(c) \/ StreamEnds(c)
    \/ Health(c) \/ TtsProbed(c) \/ LlmProbed(c) \/ CountRead(c) \/ HealthSaid(c)

MainStep ==
    \/ Refuse \/ ConfigRead \/ StartEngines \/ ModelsLoaded \/ Listen \/ StartFails
    \/ Stop \/ SaveOver \/ Joined \/ ServerJoined \/ DropRuntime \/ Exit

HubNext ==
    \/ MainStep
    \/ EngineStep
    \/ IndexLoads \/ IndexLoaded
    \/ StopListening
    \/ \E c \in Conns : ConnStep(c)

(* main goes on by its limits.  Nothing is assumed of clients, engines and *)
(* supervisor tasks, nor that work on a blocking thread ends.              *)
HubSpec == HubInit /\ [][HubNext]_hubVars /\ WF_hubVars(MainStep)

-----------------------------------------------------------------------------
(* The count of the proxy is the number of requests that are forwarded and *)
(* not answered to the end, whichever way they end.                        *)
CountIsTrue == in_flight = Cardinality(Forwarded)

(* A health check never calls the LLM unavailable for its silence while    *)
(* one request was in flight for all of its probe, and never busy without  *)
(* a request in flight.                                                    *)
HealthTells ==
    [][\A c \in Conns : conn[c] = "count" =>
        /\ conn'[c] = "unavailable" => since[c] = {}
        /\ conn'[c] = "busy" => Forwarded # {}]_hubVars

(* On no way out, a failed start included, does a process of an engine     *)
(* outlive the hub.  Of the other processes it starts only a cache list    *)
(* does, and only one that had not answered when its task was dropped: it  *)
(* is spawned without kill_on_drop (README, known differences).            *)
NoChildLeft ==
    main \in {"blocking", "exited"} =>
        /\ \A e \in Engines : child[e] = "none"
        /\ lister => task["llm"] = "cut"

(* A hub that stops exits, whatever clients, engines and supervisor tasks  *)
(* do, unless from some time on there is always work on a blocking thread. *)
ExitUnlessBlocked == (main \in Stopping) ~> (main = "exited" \/ []Blocking)

=============================================================================
