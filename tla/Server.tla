--------------------------------- MODULE Server ---------------------------------
(***************************************************************************)
(* The routes of the HTTP server that answer by themselves                 *)
(* (src/src/server.rs, mcp.rs, YouTube::search in youtube.rs): searches on *)
(* the web, YouTube, Jellyfin and the media index, and the MCP tools, for  *)
(* requests that run at the same time.  /health and /llm are in Hub, the   *)
(* search in Jellyfin in Jellyfin.  SearXNG and the embedding model run on *)
(* blocking threads, and nothing limits their time.                        *)
(***************************************************************************)
EXTENDS Jellyfin, YouTube, WebSearch

CONSTANTS
    RoutesOf,      \* function from requests to the routes that they use (a bound)
    Configured,    \* what may be configured: sets of parts
    Year,          \* this year
    WebQueries,    \* queries of a web search
    WebResults,    \* what SearXNG may find
    SNIPPET_CHARS, \* length of a snippet
    YtQueries,     \* queries of a YouTube search, as texts
    YtAnswers,     \* what YouTube may answer to a search
    YtUploads,     \* what YouTube may answer for the uploads of a channel
    Bodies,        \* bodies of POST /mcp: sequences of messages [method, id, tool, query]
    Null           \* no id, no query

Routes == {"/web/search", "/youtube/search", "/jellyfin/search", "/media/search", "/mcp"}
Parts == Routes \ {"/mcp"}

VARIABLES
    on,      \* the parts that are configured
    http     \* each request outside of Jellyfin's search

httpVars == <<on, http>>
allVars == <<jellyfinVars, httpVars>>

ASSUME ServerAssumption ==
    /\ Configured \subseteq SUBSET Parts
    /\ \A body \in Bodies : body \in Seq(ToSet(body))

(* Places that wait for native code, and places that wait for YouTube. *)
Native == {"web", "rank", "semantic", "mcp_search"}
Waiting == {"yt_search", "yt_browse"}

ServerTypeOK ==
    /\ JellyfinTypeOK
    /\ on \subseteq Parts
    /\ \A r \in Requests :
        /\ http[r].at \in Native \cup Waiting \cup {"none", "jellyfin", "mcp", "done", "gone"}
        /\ (http[r].at = "jellyfin") = (job[r].at # "none")
        /\ http[r].at = "mcp_search" => http[r].next \in DOMAIN http[r].batch

ServerInit ==
    /\ JellyfinInit
    /\ on \in Configured
    /\ http = [r \in Requests |-> [at |-> "none"]]

-----------------------------------------------------------------------------
Comes(r, new) ==
    /\ http' = [http EXCEPT ![r] = new]
    /\ UNCHANGED <<on, jellyfinVars>>

Says(status, text) == [at |-> "done", status |-> status, text |-> text]

New(r, route) == http[r].at = "none" /\ route \in RoutesOf[r]

(* A part that is off, a query that is missing, an index that is not ready.*)
Refused(r) ==
    \E route \in Parts :
        /\ New(r, route)
        /\ Comes(r, Says(IF route \notin on THEN 404 ELSE 400, <<>>))

NotReady(r) ==
    /\ New(r, "/media/search") /\ "/media/search" \in on
    /\ Comes(r, Says(503, <<>>))

Starts(r, route, new) == New(r, route) /\ route \in on /\ Comes(r, new)

(* GET /web/search and the tool web_search. *)
WebAsk(r) == \E q \in WebQueries : Starts(r, "/web/search", [at |-> "web", asked |-> with_year(q, Year)])

WebAnswer(r) ==
    /\ http[r].at = "web"
    /\ \/ \E found \in WebResults : Comes(r, Says(200, format_results(found, 3, SNIPPET_CHARS)))
       \/ Comes(r, Says(502, <<>>))

(* GET /media/search: two queries of the index, one after the other.  It   *)
(* may change in between.                                                  *)
MediaAsk(r) == Starts(r, "/media/search", [at |-> "rank"])

MediaAnswer(r) ==
    /\ http[r].at \in {"rank", "semantic"}
    /\ \/ http[r].at = "rank" /\ Comes(r, [at |-> "semantic"])
       \/ http[r].at = "semantic" /\ Comes(r, Says(200, <<>>))
       \/ http[r].at = "semantic" /\ Comes(r, Says(500, <<>>))

(* GET /jellyfin/search *)
JellyfinAsk(r) ==
    /\ New(r, "/jellyfin/search") /\ "/jellyfin/search" \in on
    /\ http' = [http EXCEPT ![r] = [at |-> "jellyfin"]]
    /\ \E ask \in Asks : Ask(r, ask)
    /\ UNCHANGED on

-----------------------------------------------------------------------------
(* YouTube::search *)
YtVideo(kind, v) == Says(200, <<kind, v.id>>)

YtPick(items, genre) ==
    LET pick == pick_from_search(items, genre)
    IN  IF pick = <<>> THEN Says(404, <<>>) ELSE YtVideo(pick[1].kind, pick[1].video)

(* What comes of an answer of YouTube to a query: the video that the       *)
(* search decides on, and whether the uploads of a channel come first.     *)
YtResult(q, answer) ==
    LET items == parse_search(answer)
        asked == analyze(q)
        channels == matching_channel(asked.words, items)
    IN  [query |-> q, pick |-> YtPick(items, asked.genre),
         browse |-> ~asked.genre /\ channels # <<>> /\ channels[1].uc]
YtResults == {YtResult(q, answer) : q \in YtQueries, answer \in YtAnswers}

YtAsk(r) ==
    \E q \in YtQueries :
        Starts(r, "/youtube/search",
               IF analyze(q).words = <<>> THEN Says(404, <<>>) ELSE [at |-> "yt_search", query |-> q])

YtSearched(r) ==
    /\ http[r].at = "yt_search"
    /\ \E s \in {result \in YtResults : result.query = http[r].query} :
        Comes(r, IF s.browse THEN [at |-> "yt_browse", pick |-> s.pick] ELSE s.pick)

(* The uploads of the channel; without a video in them, or without an      *)
(* answer, the search decides.                                             *)
Newest == {newest(answer) : answer \in YtUploads \cup {<<>>}}

YtBrowsed(r) ==
    /\ http[r].at = "yt_browse"
    /\ \E videos \in Newest :
        Comes(r, IF videos # <<>> THEN YtVideo("channel_latest", videos[1]) ELSE http[r].pick)

YtFails(r) ==
    /\ http[r].at \in Waiting
    /\ Comes(r, IF http[r].at = "yt_search" THEN Says(502, <<>>) ELSE http[r].pick)

-----------------------------------------------------------------------------
(* POST /mcp: one message or a batch.  What is no JSON is refused. *)
McpAsk(r) ==
    /\ New(r, "/mcp")
    /\ \/ Comes(r, Says(400, <<>>))
       \/ \E body \in Bodies :
            Comes(r, [at |-> "mcp", batch |-> body, next |-> 1, replies |-> <<>>])

(* GET and DELETE *)
McpOther(r) ==
    /\ New(r, "/mcp")
    /\ \E status \in {405, 200} : Comes(r, Says(status, <<>>))

(* handle says nothing to what is no request. *)
IsRequest(m) == m.method # Null /\ m.id # Null

RequestsOf(batch) == {k \in DOMAIN batch : IsRequest(batch[k])}

(* call runs a search. *)
IsSearch(m) ==
    /\ IsRequest(m) /\ m.method = "tools/call"
    /\ m.tool = "web_search" /\ "/web/search" \in on /\ m.query # Null

Reply(m) ==
    [id |-> m.id,
     says |-> CASE m.method \in {"initialize", "ping", "tools/list"} -> "result"
                [] m.method = "tools/call"                           -> "tool_error"
                [] OTHER                                             -> "not_found"]

Advance(h, replies) == [h EXCEPT !.at = "mcp", !.next = @ + 1, !.replies = @ \o replies]

McpHandle(r) ==
    /\ http[r].at = "mcp" /\ http[r].next \in DOMAIN http[r].batch
    /\ LET m == http[r].batch[http[r].next]
       IN  Comes(r, IF IsSearch(m) THEN [http[r] EXCEPT !.at = "mcp_search"]
                    ELSE Advance(http[r], IF IsRequest(m) THEN <<Reply(m)>> ELSE <<>>))

(* Mutant: a search that fails ends the batch. *)
McpSearchedOrFails(r) ==
    /\ http[r].at = "mcp_search"
    /\ LET m == http[r].batch[http[r].next]
       IN  \/ Comes(r, Advance(http[r], <<[id |-> m.id, says |-> "result"]>>))
           \/ Comes(r, [http[r] EXCEPT !.at = "mcp", !.next = Len(http[r].batch) + 1])

(* The search of a tool call ends, with results or as an error of the tool.*)
McpSearched(r) ==
    /\ http[r].at = "mcp_search"
    /\ LET m == http[r].batch[http[r].next]
       IN  \E says \in {"result", "tool_error"} :
            Comes(r, Advance(http[r], <<[id |-> m.id, says |-> says]>>))

McpDone(r) ==
    /\ http[r].at = "mcp" /\ http[r].next > Len(http[r].batch)
    /\ Comes(r, [at |-> "done", status |-> IF http[r].replies = <<>> THEN 202 ELSE 200,
                 text |-> http[r].replies, batch |-> http[r].batch])

(* The client goes away. *)
ClientGone(r) ==
    /\ http[r].at \in Native \cup Waiting \cup {"mcp"}
    /\ Comes(r, [at |-> "gone"])

Answers(r) ==
    \/ Refused(r) \/ NotReady(r)
    \/ WebAsk(r) \/ WebAnswer(r)
    \/ MediaAsk(r) \/ MediaAnswer(r)
    \/ YtAsk(r) \/ YtSearched(r) \/ YtBrowsed(r) \/ YtFails(r)
    \/ McpAsk(r) \/ McpOther(r) \/ McpHandle(r) \/ McpSearched(r) \/ McpDone(r)
    \/ ClientGone(r)

ServerNext ==
    \/ \E r \in Requests : Answers(r) \/ JellyfinAsk(r)
    \/ \E r \in Requests : SearchStep(r) /\ UNCHANGED httpVars
    \/ Environment /\ UNCHANGED httpVars

(* As in Jellyfin.  Nothing is assumed of SearXNG and the embedding model. *)
ServerFairness ==
    /\ JellyfinFairness
    /\ \A r \in Requests : WF_allVars(McpHandle(r) \/ McpDone(r)) /\ WF_allVars(YtFails(r))

ServerSpec == ServerInit /\ [][ServerNext]_allVars /\ ServerFairness

-----------------------------------------------------------------------------
(* A body of POST /mcp gets one reply for each of its requests, in their   *)
(* order and with their ids, and none for anything else, also if searches  *)
(* on the way fail; and a body without requests gets 202 without a body.   *)
RepliesMatch ==
    \A r \in Requests :
        "batch" \in DOMAIN http[r] /\ http[r].at = "done" =>
            LET asked == Picked(http[r].batch, RequestsOf(http[r].batch))
            IN  /\ [k \in DOMAIN http[r].text |-> http[r].text[k].id] = [k \in DOMAIN asked |-> asked[k].id]
                /\ (http[r].status = 202) = (asked = <<>>)

(* Every request is answered, whatever Jellyfin and YouTube do, unless it  *)
(* waits for native code, which has no limit.                              *)
Pending(r) == http[r].at \in Waiting \cup {"mcp"} \/ job[r].at \in Calls \cup {"lock"}
EveryRequestAnswered == \A r \in Requests : Pending(r) ~> (~Pending(r))
=============================================================================
