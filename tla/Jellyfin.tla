-------------------------------- MODULE Jellyfin --------------------------------
(***************************************************************************)
(* Jellyfin::search (src/src/jellyfin.rs): requests of several users at    *)
(* the same time, with one list of titles that is kept for 10 min, for one *)
(* user, under a lock that is held while the list is fetched.  Jellyfin    *)
(* changes all the while.  Every call to Jellyfin ends after 15 s; a query *)
(* of the media index runs in native code and has no limit.                *)
(***************************************************************************)
EXTENDS JellyfinMatch, Iterators

CONSTANTS
    Requests,     \* requests of GET /jellyfin/search
    Asked,        \* function from names to what is asked: [query, user, devices]
    Users,        \* users of Jellyfin; names are their own IDs
    User,         \* JELLYFIN_USER
    SessionLists, \* what GET /Sessions may say
    Catalog,      \* function from IDs to items, all not watched
    Order,        \* the IDs, in the order of Jellyfin's lists
    Watchable,    \* the IDs that users watch (a bound)
    Missing,      \* the IDs that Jellyfin does not have at first
    Rankings,     \* how the embedding model may rank items: sequences of [id, score]
    MaxChanges    \* changes in Jellyfin (a bound)

Ids == DOMAIN Catalog
Asks == DOMAIN Asked

ASSUME JellyfinAssumption ==
    /\ User \in Users /\ "" \notin Users
    /\ Watchable \subseteq Ids /\ Missing \subseteq Ids
    /\ Order \in Seq(Ids)
    /\ \A digits \in DOMAIN Number : Number[digits] # NoNumber
    /\ \A a \in Asks : DOMAIN FlattenSeq(Asked[a].query) \subseteq Nat

VARIABLES
    job,      \* each request
    queue,    \* the requests that wait for the lock of the list, the first holds it
    cache,    \* Jellyfin.library
    lib,      \* Jellyfin: what is there
    watched,  \* Jellyfin: what each user has seen of each item
    changes,  \* number of changes in Jellyfin
    recent,   \* history: watch states of the last 10 min
    seen      \* history: of each request, watch states since 10 min before it

serverVars == <<lib, watched, changes, recent>>
jellyfinVars == <<job, queue, cache, serverVars, seen>>

NoJob == [at |-> "none"]
Calls == {"sessions", "users", "fetch", "item", "search", "next_up", "episodes"}
Ends == {"pick", "nothing", "error", "gone"}
States == {"new", "half", "played"}   \* what a user has seen of an item
NoCache == [user |-> "", fresh |-> FALSE, items |-> <<>>]

JellyfinTypeOK ==
    /\ DOMAIN job = Requests
    /\ \A r \in Requests :
        /\ job[r].at \in Calls \cup Ends \cup {"none", "lock", "semantic"}
        /\ (r \in ToSet(queue)) = (job[r].at \in {"lock", "fetch"})
        /\ job[r].at = "fetch" => queue[1] = r
    /\ Len(queue) = Cardinality(ToSet(queue))
    /\ cache.user \in Users \cup {""} /\ cache.fresh \in BOOLEAN
    /\ lib \subseteq Ids
    /\ watched \in [Users -> [Watchable -> States]]

StatesOf(w) == {<<u, i, w[u][i]>> : u \in Users, i \in Watchable}

JellyfinInit ==
    /\ job = [r \in Requests |-> NoJob]
    /\ queue = <<>> /\ cache = NoCache
    /\ lib = Ids \ Missing
    /\ watched = [u \in Users |-> [i \in Watchable |-> "new"]]
    /\ changes = 0
    /\ recent = StatesOf(watched)
    /\ seen = [r \in Requests |-> {}]

-----------------------------------------------------------------------------
(* What Jellyfin says to a user of an item, and its lists.  What a user    *)
(* has seen is w; the rest of an item never changes.                       *)
ItemOf(w, id) ==
    [id |-> id,
     played |-> id \in Watchable /\ w[id] = "played",
     resume |-> IF id \in Watchable /\ w[id] = "half" THEN 1 ELSE 0]

ListOf(w, ids) ==
    LET there == Picked(Order, {k \in DOMAIN Order : Order[k] \in ids})
    IN  [k \in DOMAIN there |-> ItemOf(w, there[k])]

OfKind(kinds) == {id \in Ids : Catalog[id].kind \in kinds}
EpisodesOf(series) == {id \in OfKind({"Episode"}) : Catalog[id].series = series}
SeriesAndMovies == OfKind({"Series", "Movie"})

Full(item) == [Catalog[item.id] EXCEPT !.played = item.played, !.resume = item.resume]

(* What the queries come to, as relations: their words and numbers; what   *)
(* the stages of find that need no call find on every list that Jellyfin   *)
(* may give; the titles that fit well enough for the later stages.         *)
Splits == {[ask |-> a, split |-> split_episode(Asked[a].query)] : a \in Asks}
Split(a) == (CHOOSE s \in Splits : s.ask = a).split

TitleStages(a, list) ==
    LET full == [k \in DOMAIN list |-> Full(list[k])]
        text == Split(a).words
        title == best_match([i \in ToSet(full) |-> score(text, i)], full)
        fuzzy == fuzzy_match([i \in ToSet(full) |-> Likeness(text, i)], full)
        sound == sound_match([i \in ToSet(full) |-> SoundsLike(text, i)], full)
        found == IF title # <<>> THEN title ELSE IF fuzzy # <<>> THEN fuzzy ELSE sound
    IN  {i \in ToSet(list) : found # <<>> /\ i.id = found[1].id}

ListsSeeing(w) == {ListOf(w, SeriesAndMovies \ gone) : gone \in SUBSET Missing}
Lists == UNION {ListsSeeing(w) : w \in [Watchable -> States]}
Finds == {[ask |-> a, list |-> l, found |-> TitleStages(a, l)] : a \in Asks, l \in Lists}
Found(a, list) == (CHOOSE f \in Finds : f.ask = a /\ f.list = list).found

Ranked(list) == [k \in DOMAIN list |-> [entry |-> Catalog[list[k].id], score |-> list[k].score]]

(* The best work of the media index that the gate and the letters accept. *)
Semantics ==
    {p \in Asks \X Ids :
        /\ semantic_title_ok(Split(p[1]).words, Catalog[p[2]])
        /\ \E list \in Rankings :
            \E best \in ToSet(semantic(Split(p[1]).words, Ranked(list))) :
                best.accepted /\ best.entry.id = p[2]}
Close == {p \in Asks \X SeriesAndMovies : CloseTitle(Split(p[1]).words, Catalog[p[2]])}

-----------------------------------------------------------------------------
ItemFor(u, id) == ItemOf(watched[u], id)
ListFor(u, ids) == ListOf(watched[u], ids \cap lib)

Goes(r, new) ==
    /\ job' = [job EXCEPT ![r] = new]
    /\ UNCHANGED <<serverVars, seen>>

(* A request goes on without the lock. *)
Walks(r, new) == Goes(r, new) /\ UNCHANGED <<queue, cache>>

At(r, place) == [job[r] EXCEPT !.at = place]

(* A call that is made with this data. *)
Ask(r, ask) ==
    /\ job[r].at = "none"
    /\ job' = [job EXCEPT ![r] =
            [at |-> IF Asked[ask].user = "" /\ Asked[ask].devices # {} THEN "sessions" ELSE "users",
             ask |-> ask, user |-> IF Asked[ask].user = "" THEN User ELSE Asked[ask].user,
             items |-> <<>>, item |-> ""]]
    /\ seen' = [seen EXCEPT ![r] = recent]
    /\ UNCHANGED <<queue, cache, serverVars>>

(* session_user: a call that fails is like no session. *)
Sessions(r) ==
    /\ job[r].at = "sessions"
    /\ \E list \in SessionLists \cup {<<>>} :
        LET name == session_user_of(list, Asked[job[r].ask].devices)
        IN  Walks(r, [At(r, "users") EXCEPT !.user = IF name = "" THEN User ELSE name])

(* user_id and the call for the ID of the server, which never changes; then*)
(* library, which waits for the lock.                                      *)
UserKnown(r) ==
    /\ job[r].at = "users"
    /\ IF job[r].user \notin Users THEN Walks(r, [at |-> "error"])
       ELSE IF Split(job[r].ask).words = <<>> THEN Walks(r, [at |-> "nothing"])
       ELSE /\ Goes(r, At(r, "lock"))
            /\ queue' = Append(queue, r)
            /\ UNCHANGED cache

(* The item with this ID in the list of request j, if it is there. *)
Listed(j, id) == {i \in ToSet(j.items) : i.id = id}

(* The answer to request j: an item with where its user stopped.  It is    *)
(* alone if find found it and the list does not have its series (history). *)
Pick(j, item, alone) ==
    [at |-> "pick", ask |-> j.ask, user |-> j.user, id |-> item.id,
     resume |-> IF item.played THEN 0 ELSE item.resume, alone |-> alone]

(* What to do with the item that find has found.  An episode of the media  *)
(* index gives way to its series if a number was asked for and the list    *)
(* has the series.                                                         *)
Decided(j, found) ==
    LET split == Split(j.ask)
        numbered == split.season # NoNumber \/ split.episode # NoNumber
        series == Listed(j, Catalog[found.id].series)
        item == IF numbered /\ series # {} THEN CHOOSE i \in series : TRUE ELSE found
    IN  IF Catalog[item.id].kind # "Series" THEN Pick(j, item, series = {})
        ELSE [j EXCEPT !.at = IF numbered THEN "episodes" ELSE "next_up", !.item = item.id]

(* find: the stages that need no call, then the media index if it is ready.*)
Searched(j) ==
    {Decided(j, item) : item \in Found(j.ask, j.items)}
    \cup {[j EXCEPT !.at = at] : at \in IF Found(j.ask, j.items) = {}
                                       THEN {"semantic", "search"} ELSE {}}

(* Mutant: the list of one user serves another one. *)
ValidForAll(u) == cache.fresh

(* The list is of this user and younger than LIBRARY_TTL. *)
Valid(u) == cache.fresh /\ cache.user = u

Locked(r) == job[r].at = "lock" /\ queue[1] = r

LibraryKept(r) ==
    /\ Locked(r) /\ Valid(job[r].user)
    /\ \E known \in {[job[r] EXCEPT !.items = cache.items]} :
           \E j \in Searched(known) : Goes(r, j)
    /\ queue' = Tail(queue)
    /\ UNCHANGED cache

LibraryOld(r) ==
    /\ Locked(r) /\ ~Valid(job[r].user)
    /\ Walks(r, At(r, "fetch"))

LibraryFetched(r) ==
    /\ job[r].at = "fetch"
    /\ \E items \in {ListFor(job[r].user, SeriesAndMovies)} :
           /\ cache' = [user |-> job[r].user, fresh |-> TRUE, items |-> items]
           /\ \E known \in {[job[r] EXCEPT !.items = items]} :
               \E j \in Searched(known) : Goes(r, j)
    /\ queue' = Tail(queue)

(* The media index answers: its best work, which may be gone or newer than *)
(* the list, or nothing.                                                   *)
Semantic(r) ==
    /\ job[r].at = "semantic"
    /\ \/ Walks(r, At(r, "search"))
       \/ \E id \in {i \in Ids : <<job[r].ask, i>> \in Semantics} :
            \/ \E known \in Listed(job[r], id) : Walks(r, Decided(job[r], known))
            \/ /\ Listed(job[r], id) = {}
               /\ Walks(r, [At(r, "item") EXCEPT !.item = id])

ItemRead(r) ==
    /\ job[r].at = "item" /\ job[r].item \in lib
    /\ Walks(r, Decided(job[r], ItemFor(job[r].user, job[r].item)))

(* Jellyfin's own search finds one item. *)
OwnSearch(r) ==
    /\ job[r].at = "search"
    /\ \/ \E id \in SeriesAndMovies \cap lib :
            <<job[r].ask, id>> \in Close /\ Walks(r, Decided(job[r], ItemFor(job[r].user, id)))
       \/ Walks(r, [at |-> "nothing"])

(* Shows/NextUp: an episode that the user has not finished, or none. *)
NextUp(r) ==
    /\ job[r].at = "next_up"
    /\ \/ \E id \in EpisodesOf(job[r].item) \cap lib :
            LET e == ItemFor(job[r].user, id)
            IN  ~e.played /\ Walks(r, Pick(job[r], e, FALSE))
       \/ Walks(r, At(r, "episodes"))

(* Mutant: only the number of the episode counts. *)
WantedByNumber(split, e) ==
    \/ split.season = NoNumber /\ split.episode = NoNumber
    \/ e.number = IF split.episode = NoNumber THEN 1 ELSE split.episode

(* The episode with the numbers, or the first one if none were asked for. *)
WantedEpisode(split, e) ==
    \/ split.season = NoNumber /\ split.episode = NoNumber
    \/ /\ split.season \in {NoNumber, e.season}
       /\ e.number = IF split.episode = NoNumber THEN 1 ELSE split.episode

Episodes(r) ==
    /\ job[r].at = "episodes"
    /\ LET list == ListFor(job[r].user, EpisodesOf(job[r].item))
           wanted == {k \in DOMAIN list : WantedEpisode(Split(job[r].ask), Catalog[list[k].id])}
       IN  \/ wanted = {} /\ Walks(r, [at |-> "nothing"])
           \/ \E k \in wanted :
                /\ \A n \in wanted : k <= n
                /\ Walks(r, Pick(job[r], list[k], FALSE))

(* Mutant: the call that fetches the list has no limit. *)
CallFailsUnlocked(r) ==
    /\ job[r].at \in Calls \ {"sessions", "fetch"}
    /\ Walks(r, [at |-> "error"])

(* A call fails, at the latest after 15 s; the whole search fails with it, *)
(* and the lock is free.                                                   *)
CallFails(r) ==
    /\ job[r].at \in Calls \ {"sessions"}
    /\ Goes(r, [at |-> "error"])
    /\ queue' = SelectSeq(queue, LAMBDA q : q # r)
    /\ UNCHANGED cache

(* The client goes away: its request is dropped where it waits. *)
Gone(r) ==
    /\ job[r].at \notin Ends \cup {"none"}
    /\ Goes(r, [at |-> "gone"])
    /\ queue' = SelectSeq(queue, LAMBDA q : q # r)
    /\ UNCHANGED cache

(* All that Jellyfin::search does after its call. *)
SearchStep(r) ==
    \/ Sessions(r) \/ UserKnown(r)
    \/ LibraryKept(r) \/ LibraryOld(r) \/ LibraryFetched(r)
    \/ Semantic(r) \/ ItemRead(r) \/ OwnSearch(r)
    \/ NextUp(r) \/ Episodes(r) \/ CallFails(r) \/ Gone(r)

-----------------------------------------------------------------------------
(* LIBRARY_TTL is over. *)
TenMinutes ==
    /\ cache.fresh
    /\ cache' = [cache EXCEPT !.fresh = FALSE]
    /\ recent' = StatesOf(watched)
    /\ UNCHANGED <<job, queue, lib, watched, changes, seen>>

(* A user watches something. *)
Watch(u, id, state) ==
    /\ changes < MaxChanges /\ watched[u][id] # state
    /\ watched' = [watched EXCEPT ![u][id] = state]
    /\ changes' = changes + 1
    /\ recent' = recent \cup {<<u, id, state>>}
    /\ seen' = [r \in Requests |->
            IF job[r].at \in Ends \cup {"none"} THEN seen[r] ELSE seen[r] \cup {<<u, id, state>>}]
    /\ UNCHANGED <<job, queue, cache, lib>>

(* An item comes or goes. *)
LibraryChanges(id) ==
    /\ changes < MaxChanges
    /\ lib' = IF id \in lib THEN lib \ {id} ELSE lib \cup {id}
    /\ changes' = changes + 1
    /\ UNCHANGED <<job, queue, cache, watched, recent, seen>>

Environment ==
    \/ TenMinutes
    \/ \E u \in Users, id \in Watchable, s \in States : Watch(u, id, s)
    \/ \E id \in Missing : LibraryChanges(id)

(* A call ends, at the latest by its limit, and a request whose turn it is *)
(* takes the lock.                                                         *)
JellyfinFairness ==
    \A r \in Requests :
        /\ WF_jellyfinVars(LibraryOld(r) \/ LibraryKept(r))
        /\ WF_jellyfinVars(CallFails(r))
        /\ WF_jellyfinVars(Sessions(r))

-----------------------------------------------------------------------------
HasPick(r) == job[r].at = "pick"

(* A pick shows how far its own user is, never another one, and no older   *)
(* than the list may be: it was so in the 10 min before the request or     *)
(* during it.                                                              *)
OwnState ==
    \A r \in Requests : HasPick(r) /\ job[r].id \in Watchable =>
        \E s \in States :
            /\ <<job[r].user, job[r].id, s>> \in seen[r]
            /\ job[r].resume = IF s = "half" THEN 1 ELSE 0

(* What was said, word by word, and the numbers right after a word of it.  *)
Spoken(a) == words(FlattenSeq(Asked[a].query))
Said(a, key) ==
    {Number[Spoken(a)[i + 1]] : i \in {k \in DOMAIN Spoken(a) :
        /\ Spoken(a)[k] = key /\ k + 1 \in DOMAIN Spoken(a)
        /\ Spoken(a)[k + 1] \in DOMAIN Number}}

Once(a, key) ==
    \A i, k \in DOMAIN Spoken(a) : Spoken(a)[i] = key /\ Spoken(a)[k] = key => i = k

(* Known exceptions of split_episode: it looks for no numbers in a query   *)
(* with more words than chunks ("Spider-Man season 2"), and only after the *)
(* first "season" and the first "episode".                                 *)
Clear(a) ==
    /\ Len(Spoken(a)) = Len(Asked[a].query)
    /\ Once(a, Season) /\ Once(a, Episode)

(* Who says a number after "season" or "episode" gets no episode of another*)
(* one, by whatever way the search went.  One more exception: an episode   *)
(* that the media index itself found, of a series that the list does not   *)
(* have (yet).                                                             *)
AskedEpisode ==
    \A r \in Requests :
        /\ HasPick(r) /\ Catalog[job[r].id].kind = "Episode"
        /\ Clear(job[r].ask) /\ ~job[r].alone
        => /\ \A n \in Said(job[r].ask, Season) : Catalog[job[r].id].season = n
           /\ \A n \in Said(job[r].ask, Episode) : Catalog[job[r].id].number = n
=============================================================================
