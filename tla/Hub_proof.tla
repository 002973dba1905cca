------------------------------ MODULE Hub_proof ------------------------------
(***************************************************************************)
(* Proofs about Hub, for any number of connections: the types, the count   *)
(* of the requests in flight, what a health check says of them, and no     *)
(* process of an engine that outlives the hub.                             *)
(***************************************************************************)
EXTENDS Hub, FiniteSetTheorems, TLAPS

(* What a health check remembers is still in flight: a request that ends   *)
(* leaves the memory of all checks in the same step.                       *)
SinceInFlight == \A c \in Conns : since[c] \subseteq Forwarded

(* No supervisor task goes on before main starts it or after the runtime   *)
(* is dropped, so no process can come back; and a cache list is one that   *)
(* the task of the LLM waits for, or waited for when it was dropped.       *)
NoTaskLeft ==
    /\ main \in {"config", "engines", "blocking", "exited"} =>
           \A e \in Engines : task[e] \notin {"runs", "asks"}
    /\ main \in {"config", "engines"} => ~lister
    /\ lister => task["llm"] \in {"asks", "cut"}
    /\ task["llm"] = "cut" => main \in {"blocking", "exited"}

IndInv == HubTypeOK /\ CountIsTrue /\ SinceInFlight /\ NoTaskLeft

-----------------------------------------------------------------------------
LEMMA SomeConns ==
  ASSUME NEW S \in SUBSET Conns
  PROVE  /\ IsFiniteSet(S)
         /\ Cardinality(S) \in 0..Cardinality(Conns)
         /\ Cardinality(S) = 0 <=> S = {}
  <1>1. IsFiniteSet(S) /\ Cardinality(S) <= Cardinality(Conns)
    BY ConnsAssumption, FS_Subset
  <1>2. Cardinality(S) \in Nat /\ Cardinality(Conns) \in Nat
    BY <1>1, ConnsAssumption, FS_CardinalityType
  <1> QED BY <1>1, <1>2, FS_EmptySet

(* The requests in flight after the task of c has gone on. *)
LEMMA GoesCount ==
  ASSUME HubTypeOK, NEW c \in Conns, NEW p, conn' = [conn EXCEPT ![c] = p]
  PROVE  /\ c \notin Forwarded /\ p \in {"send", "stream"} =>
                Forwarded' = Forwarded \cup {c} /\ Cardinality(Forwarded') = Cardinality(Forwarded) + 1
         /\ c \in Forwarded /\ p \notin {"send", "stream"} =>
                Forwarded' = Forwarded \ {c} /\ Cardinality(Forwarded') = Cardinality(Forwarded) - 1
         /\ (c \in Forwarded <=> p \in {"send", "stream"}) =>
                Forwarded' = Forwarded
  <1>1. /\ \A d \in Conns : conn'[d] = IF d = c THEN p ELSE conn[d]
        /\ Forwarded \subseteq Conns
    BY DEF HubTypeOK, Forwarded
  <1>2. ASSUME c \notin Forwarded, p \in {"send", "stream"}
        PROVE  Forwarded' = Forwarded \cup {c} /\ Cardinality(Forwarded') = Cardinality(Forwarded) + 1
    <2>1. Forwarded' = Forwarded \cup {c}
      BY <1>1, <1>2 DEF Forwarded
    <2> QED BY <1>1, <1>2, <2>1, SomeConns, FS_AddElement
  <1>3. ASSUME c \in Forwarded, p \notin {"send", "stream"}
        PROVE  Forwarded' = Forwarded \ {c} /\ Cardinality(Forwarded') = Cardinality(Forwarded) - 1
    <2>1. Forwarded' = Forwarded \ {c}
      BY <1>1, <1>3 DEF Forwarded
    <2> QED BY <1>1, <1>3, <2>1, SomeConns, FS_RemoveElement
  <1>4. ASSUME c \in Forwarded <=> p \in {"send", "stream"} PROVE Forwarded' = Forwarded
    BY <1>1, <1>4 DEF Forwarded
  <1> QED BY <1>2, <1>3, <1>4

(* The places of a connection. *)
Sites == {"none", "first", "wyoming", "stt", "idle", "send", "stream", "tts_probe", "llm_probe",
          "count", "ok", "busy", "unavailable", "search", "closed"}

(* A step of the task of c that neither begins nor ends a forwarded        *)
(* request: what is left to see is where it goes and what it notes.        *)
LEMMA StaysInv ==
  ASSUME IndInv, NEW c \in Conns, NEW p \in Sites, Goes(c, p), in_flight' = in_flight,
         c \in Forwarded <=> p \in {"send", "stream"},
         draining' \subseteq Conns, jobs' \subseteq Conns,
         \/ since' = since
         \/ \E S \in {{}, Forwarded} : since' = [since EXCEPT ![c] = S]
  PROVE  IndInv'
  <1>1. Forwarded' = Forwarded /\ Forwarded \in SUBSET Conns
    BY GoesCount DEF IndInv, Goes, Forwarded
  <1>2. since' \in [Conns -> SUBSET Conns] /\ \A d \in Conns : since'[d] \subseteq Forwarded
    BY <1>1 DEF IndInv, HubTypeOK, SinceInFlight
  <1>3. HubTypeOK'
    BY <1>2 DEF IndInv, HubTypeOK, Goes, workVars, Sites
  <1>4. CountIsTrue' /\ SinceInFlight' /\ NoTaskLeft'
    BY <1>1, <1>2 DEF IndInv, CountIsTrue, SinceInFlight, NoTaskLeft, Goes, workVars
  <1> QED BY <1>3, <1>4 DEF IndInv

(* A forwarded request ends, and every health check forgets it. *)
LEMMA UncountInv ==
  ASSUME IndInv, NEW c \in Forwarded, NEW p \in Sites \ {"send", "stream"}, Uncount(c, p)
  PROVE  IndInv'
  <1>1. c \in Conns /\ Goes(c, p) /\ Forwarded \in SUBSET Conns
    BY DEF Forwarded, Uncount
  <1>2. Forwarded' = Forwarded \ {c} /\ Cardinality(Forwarded') = Cardinality(Forwarded) - 1
    BY <1>1, GoesCount DEF IndInv, Goes
  <1>3. Cardinality(Forwarded') \in 0..Cardinality(Conns)
    BY <1>1, <1>2, SomeConns
  <1>4. in_flight' = Cardinality(Forwarded')
    BY <1>2 DEF IndInv, CountIsTrue, Uncount
  <1>5. since' \in [Conns -> SUBSET Conns] /\ \A d \in Conns : since'[d] \subseteq Forwarded'
    BY <1>2 DEF IndInv, HubTypeOK, SinceInFlight, Uncount
  <1>6. HubTypeOK'
    BY <1>1, <1>3, <1>4, <1>5 DEF IndInv, HubTypeOK, Uncount, Goes, workVars, Sites
  <1>7. CountIsTrue' /\ SinceInFlight' /\ NoTaskLeft'
    BY <1>1, <1>4, <1>5 DEF IndInv, CountIsTrue, SinceInFlight, NoTaskLeft, Goes, workVars
  <1> QED BY <1>6, <1>7 DEF IndInv

(* A request is counted when it is forwarded. *)
LEMMA ForwardInv ==
  ASSUME IndInv, NEW c \in Conns, Forward(c)
  PROVE  IndInv'
  <1>1. Goes(c, "send") /\ c \notin Forwarded /\ Forwarded \in SUBSET Conns
    BY DEF Forward, Forwarded
  <1>2. Forwarded' = Forwarded \cup {c} /\ Cardinality(Forwarded') = Cardinality(Forwarded) + 1
    BY <1>1, GoesCount DEF IndInv, Goes
  <1>3. Cardinality(Forwarded') \in 0..Cardinality(Conns)
    BY <1>1, <1>2, SomeConns
  <1>4. in_flight' = Cardinality(Forwarded')
    BY <1>2 DEF IndInv, CountIsTrue, Forward
  <1>5. HubTypeOK'
    BY <1>1, <1>3, <1>4 DEF IndInv, HubTypeOK, Forward, Goes, workVars
  <1>6. CountIsTrue' /\ SinceInFlight' /\ NoTaskLeft'
    BY <1>1, <1>2, <1>4
    DEF IndInv, CountIsTrue, SinceInFlight, NoTaskLeft, Forward, Goes, workVars
  <1> QED BY <1>5, <1>6 DEF IndInv

(* The steps of a connection. *)
LEMMA ConnInv ==
  ASSUME IndInv, NEW c \in Conns, ConnStep(c)
  PROVE  IndInv'
  <1> USE DEF Sites, Forwarded
  <1>1. /\ draining \subseteq Conns /\ jobs \subseteq Conns /\ conn[c] \in Sites
        /\ Done(c) \in {"closed", "idle"}
    BY DEF IndInv, HubTypeOK, Done
  <1>2. CASE Accept(c)
    BY <1>1, <1>2, StaysInv DEF Accept
  <1>3. CASE FirstByte(c)
    BY <1>1, <1>3, StaysInv DEF FirstByte
  <1>4. CASE Drain(c)
    BY <1>1, <1>4, StaysInv DEF Drain, Http, Verdicts
  <1>5. CASE ClientLeaves(c)
    BY <1>1, <1>5, StaysInv, UncountInv DEF ClientLeaves, Http, Verdicts
  <1>6. CASE BlockingStarts(c)
    BY <1>1, <1>6, StaysInv DEF BlockingStarts
  <1>7. CASE BlockingEnds(c)
    <2>1. PICK p \in Sites : Goes(c, p) /\ p = CASE conn[c] = "stt"    -> "wyoming"
                                               [] conn[c] = "search" -> Done(c)
                                               [] OTHER              -> conn[c]
      BY <1>1, <1>7 DEF BlockingEnds
    <2>2. c \in Forwarded <=> p \in {"send", "stream"}
      BY <1>1, <2>1
    <2> QED BY <1>1, <1>7, <2>1, <2>2, StaysInv DEF BlockingEnds
  <1>8. CASE Forward(c)
    BY <1>8, ForwardInv
  <1>9. CASE SendFails(c)
    BY <1>1, <1>9, UncountInv DEF SendFails
  <1>10. CASE Headers(c)
    BY <1>1, <1>10, StaysInv DEF Headers
  <1>11. CASE StreamEnds(c)
    BY <1>1, <1>11, UncountInv DEF StreamEnds
  <1>12. CASE Health(c)
    BY <1>1, <1>12, StaysInv DEF Health
  <1>13. CASE TtsProbed(c)
    BY <1>1, <1>13, StaysInv DEF TtsProbed
  <1>14. CASE LlmProbed(c)
    BY <1>1, <1>14, StaysInv DEF LlmProbed
  <1>15. CASE CountRead(c)
    BY <1>1, <1>15, StaysInv DEF CountRead
  <1>16. CASE HealthSaid(c)
    BY <1>1, <1>16, StaysInv DEF HealthSaid, Verdicts
  <1> QED
    BY <1>2, <1>3, <1>4, <1>5, <1>6, <1>7, <1>8, <1>9, <1>10, <1>11, <1>12, <1>13, <1>14, <1>15,
       <1>16 DEF ConnStep

(* The steps of main, of the engines and of the listener. *)
LEMMA MainInv ==
  ASSUME IndInv, MainStep \/ StopListening \/ EngineStep \/ IndexLoads \/ IndexLoaded
  PROVE  IndInv'
  <1> USE DEF IndInv, workVars, connVars
  <1>1. ASSUME main' \in Places, UNCHANGED <<llm, workVars, connVars>>,
               main' \in {"config", "engines", "blocking", "exited"} =>
                   main \in {"config", "engines", "blocking", "exited"},
               main' \in {"config", "engines"} => main \in {"config", "engines"},
               main \in {"blocking", "exited"} => main' \in {"blocking", "exited"}
        PROVE  IndInv'
    BY <1>1 DEF HubTypeOK, CountIsTrue, SinceInFlight, NoTaskLeft, Forwarded
  <1>2. CASE \/ Refuse \/ ConfigRead \/ StartFails
             \/ Stop \/ SaveOver \/ Joined \/ ServerJoined \/ Exit
    BY <1>1, <1>2 DEF Refuse, ConfigRead, StartFails, Stop, SaveOver, Joined, ServerJoined, Exit,
                      Places
  <1>3. CASE StartEngines
    <2>1. task' \in [Engines -> {"none", "runs", "asks", "cut", "done"}]
      BY <1>3 DEF StartEngines
    <2>2. \A e \in Engines : child[e] = "none"
      BY <1>3 DEF StartEngines, HubTypeOK, NoTaskLeft
    <2>3. HubTypeOK'
      BY <1>3, <2>1, <2>2 DEF StartEngines, HubTypeOK, Places
    <2>4. CountIsTrue' /\ SinceInFlight'
      BY <1>3 DEF StartEngines, CountIsTrue, SinceInFlight, Forwarded
    <2>5. ~lister' /\ task'["llm"] # "cut" /\ main' = "models"
      BY <1>3 DEF StartEngines, NoTaskLeft, Engines
    <2>6. NoTaskLeft'
      BY <2>5 DEF NoTaskLeft
    <2> QED BY <2>3, <2>4, <2>6
  <1>4. CASE Listen
    BY <1>4 DEF Listen, HubTypeOK, Places, CountIsTrue, SinceInFlight, NoTaskLeft, Forwarded
  <1>5. CASE DropRuntime
    <2>1. Forwarded' = {} /\ conn' \in [Conns -> {"none", "closed"}]
      BY <1>5 DEF DropRuntime, Forwarded
    <2>2. CountIsTrue' /\ in_flight' \in 0..Cardinality(Conns)
      BY <1>5, <2>1, FS_EmptySet, FS_CardinalityType, ConnsAssumption DEF DropRuntime, CountIsTrue
    <2>3. /\ task' \in [Engines -> {"none", "cut", "done"}]
          /\ task["llm"] = "asks" => task'["llm"] = "cut"
      BY <1>5 DEF DropRuntime, Engines
    <2>4. lister => task["llm"] = "asks"
      BY <1>5 DEF DropRuntime, NoTaskLeft
    <2>5. HubTypeOK'
      <3>1. child' \in [Engines -> {"none"}] /\ media' \in {"idle", "fetch", "load"}
        BY <1>5 DEF DropRuntime, HubTypeOK
      <3> QED BY <1>5, <2>1, <2>2, <2>3, <3>1 DEF DropRuntime, HubTypeOK, Places
    <2>6. SinceInFlight' /\ NoTaskLeft'
      BY <1>5, <2>3, <2>4 DEF DropRuntime, SinceInFlight, NoTaskLeft
    <2> QED BY <2>2, <2>5, <2>6
  <1>6. CASE StopListening \/ IndexLoads \/ IndexLoaded
    <2>1. HubTypeOK'
      BY <1>6 DEF StopListening, IndexLoads, IndexLoaded, HubTypeOK
    <2>2. UNCHANGED <<main, task, lister, conn, in_flight, since>>
      BY <1>6 DEF StopListening, IndexLoads, IndexLoaded
    <2>3. CountIsTrue' /\ SinceInFlight' /\ NoTaskLeft'
      BY <2>2 DEF CountIsTrue, SinceInFlight, NoTaskLeft, Forwarded
    <2> QED BY <2>1, <2>3
  <1>7. ASSUME NEW e \in Engines, ChildChanges(e) PROVE IndInv'
    BY <1>7 DEF ChildChanges, HubTypeOK, CountIsTrue, SinceInFlight, NoTaskLeft, Forwarded
  <1>8. ASSUME NEW e \in Engines, TaskEnds(e) PROVE IndInv'
    BY <1>8 DEF TaskEnds, HubTypeOK, CountIsTrue, SinceInFlight, NoTaskLeft, Forwarded
  <1>9. CASE ListStarts \/ ListEnds \/ Listed
    <2>1. UNCHANGED <<main, llm, child, media, connVars>>
      BY <1>9 DEF ListStarts, ListEnds, Listed
    <2>2. HubTypeOK'
      <3>1. lister' \in BOOLEAN
        BY <1>9 DEF ListStarts, ListEnds, Listed, HubTypeOK
      <3>2. /\ task' \in [Engines -> {"none", "runs", "asks", "cut", "done"}]
            /\ \A e \in Engines : child[e] # "none" => task'[e] = "runs"
        BY <1>9 DEF ListStarts, ListEnds, Listed, HubTypeOK, Engines
      <3> QED BY <2>1, <3>1, <3>2 DEF HubTypeOK
    <2>3. CountIsTrue' /\ SinceInFlight'
      BY <2>1 DEF CountIsTrue, SinceInFlight, Forwarded
    <2>4. NoTaskLeft'
      <3>1. CASE ListStarts
        BY <3>1 DEF ListStarts, NoTaskLeft, HubTypeOK, Engines
      <3>2. CASE ListEnds
        BY <3>2 DEF ListEnds, NoTaskLeft
      <3>3. CASE Listed
        BY <3>3 DEF Listed, NoTaskLeft, HubTypeOK, Engines
      <3> QED BY <1>9, <3>1, <3>2, <3>3
    <2> QED BY <2>2, <2>3, <2>4
  <1>10. CASE ModelsLoaded
    BY <1>10 DEF ModelsLoaded, HubTypeOK, Places, CountIsTrue, SinceInFlight, NoTaskLeft, Forwarded
  <1> QED BY <1>2, <1>3, <1>4, <1>5, <1>6, <1>7, <1>8, <1>9, <1>10 DEF MainStep, EngineStep

LEMMA InitInv == HubInit => IndInv
  <1> SUFFICES ASSUME HubInit PROVE IndInv
    OBVIOUS
  <1>1. Forwarded = {}
    BY DEF HubInit, Forwarded
  <1>2. Cardinality(Conns) \in Nat
    BY ConnsAssumption, FS_CardinalityType
  <1>3. HubTypeOK
    <2>1. in_flight \in 0..Cardinality(Conns) /\ since \in [Conns -> SUBSET Conns]
      BY <1>2 DEF HubInit
    <2> QED BY <2>1 DEF HubInit, HubTypeOK, Places
  <1>4. CountIsTrue /\ SinceInFlight
    BY <1>1, FS_EmptySet DEF HubInit, CountIsTrue, SinceInFlight
  <1>5. NoTaskLeft
    BY DEF HubInit, NoTaskLeft, Engines
  <1> QED BY <1>3, <1>4, <1>5 DEF IndInv

LEMMA NextInv == IndInv /\ [HubNext]_hubVars => IndInv'
  <1> SUFFICES ASSUME IndInv, [HubNext]_hubVars PROVE IndInv'
    OBVIOUS
  <1>1. CASE UNCHANGED hubVars
    BY <1>1 DEF hubVars, workVars, connVars, IndInv, HubTypeOK, CountIsTrue, SinceInFlight, NoTaskLeft, Forwarded
  <1> QED BY <1>1, ConnInv, MainInv DEF HubNext

LEMMA Invariant == HubSpec => []IndInv
  BY InitInv, NextInv, PTL DEF HubSpec

(* The state of the hub keeps its types: a process exists only under a     *)
(* supervisor task, and the count stays between none and all connections.  *)
THEOREM TypeCorrect == HubSpec => []HubTypeOK
  <1>1. IndInv => HubTypeOK
    BY DEF IndInv
  <1> QED BY <1>1, Invariant, PTL

(* Whichever way requests end, the count of the proxy is their number.     *)
THEOREM CountTrue == HubSpec => []CountIsTrue
  <1>1. IndInv => CountIsTrue
    BY DEF IndInv
  <1> QED BY <1>1, Invariant, PTL

(* No process of an engine outlives the hub, and no cache list but one     *)
(* that its task still waited for when the runtime was dropped.            *)
THEOREM ChildrenGone == HubSpec => []NoChildLeft
  <1>1. IndInv => NoChildLeft
    BY DEF IndInv, HubTypeOK, NoTaskLeft, NoChildLeft, Engines
  <1> QED BY <1>1, Invariant, PTL

(* A health check that reads the count after a silent probe says the truth *)
(* about the requests, however many begin and end around it.               *)
THEOREM HealthTrue == HubSpec => HealthTells
  <1> DEFINE Tells == \A c \in Conns : conn[c] = "count" =>
                        /\ conn'[c] = "unavailable" => since[c] = {}
                        /\ conn'[c] = "busy" => Forwarded # {}
  <1>1. IndInv /\ [HubNext]_hubVars => [Tells]_hubVars
    <2> SUFFICES ASSUME IndInv, HubNext PROVE Tells
      OBVIOUS
    <2> SUFFICES ASSUME NEW c \in Conns, conn[c] = "count"
                 PROVE  /\ conn'[c] = "unavailable" => since[c] = {}
                        /\ conn'[c] = "busy" => Forwarded # {}
      OBVIOUS
    <2>1. in_flight > 0 <=> Forwarded # {}
      <3>1. Forwarded \in SUBSET Conns
        BY DEF Forwarded
      <3> QED BY <3>1, SomeConns DEF IndInv, CountIsTrue
    <2>2. Forwarded = {} => since[c] = {}
      BY DEF IndInv, SinceInFlight
    <2>3. CASE CountRead(c)
      BY <2>1, <2>2, <2>3 DEF CountRead, Goes, IndInv, HubTypeOK
    <2>4. CASE ~CountRead(c)
      <3>1. conn'[c] \in {"count", "closed"}
        <4>1. CASE MainStep
          BY <4>1 DEF MainStep, Refuse, ConfigRead, StartEngines, ModelsLoaded, Listen, StartFails,
             Stop, SaveOver, Joined, ServerJoined, DropRuntime, Exit, connVars
        <4>2. CASE StopListening \/ EngineStep \/ IndexLoads \/ IndexLoaded
          BY <4>2 DEF StopListening, EngineStep, ChildChanges, TaskEnds, ListStarts, ListEnds,
             Listed, IndexLoads, IndexLoaded, connVars
        <4>3. ASSUME NEW d \in Conns, ConnStep(d) PROVE conn'[c] \in {"count", "closed"}
          <5>1. CASE d = c
            <6>1. ClientLeaves(c) \/ Drain(c) \/ BlockingEnds(c)
              BY <2>4, <4>3, <5>1 DEF ConnStep, Accept, FirstByte, BlockingStarts, Forward, SendFails,
                 Headers, StreamEnds, Health, TtsProbed, LlmProbed, HealthSaid, Verdicts
            <6>2. Goes(c, "closed") \/ Goes(c, "count")
              BY <6>1 DEF ClientLeaves, Drain, BlockingEnds, Uncount
            <6> QED BY <6>2 DEF Goes, IndInv, HubTypeOK
          <5>2. CASE d # c
            <6>1. PICK p : conn' = [conn EXCEPT ![d] = p]
              BY <4>3 DEF ConnStep, Accept, FirstByte, Drain, ClientLeaves, BlockingStarts,
                 BlockingEnds, Forward, SendFails, Headers, StreamEnds, Uncount, Health, TtsProbed,
                 LlmProbed, CountRead, HealthSaid, Goes
            <6> QED BY <5>2, <6>1 DEF IndInv, HubTypeOK
          <5> QED BY <5>1, <5>2
        <4> QED BY <4>1, <4>2, <4>3 DEF HubNext
      <3> QED BY <3>1
    <2> QED BY <2>3, <2>4
  <1> QED BY <1>1, Invariant, PTL DEF HubSpec, HealthTells
=============================================================================
