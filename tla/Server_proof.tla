---------------------------- MODULE Server_proof ----------------------------
(***************************************************************************)
(* Proofs about the routes of the hub and the search in Jellyfin, for any  *)
(* requests, users, items, queries, answers of Jellyfin, messages and      *)
(* changes: what a pick shows of its user, the episode that it plays, and  *)
(* the replies to a body of POST /mcp.                                     *)
(***************************************************************************)
EXTENDS Server, Iterators_proof

-----------------------------------------------------------------------------
(* The inductive invariant of the search in Jellyfin. *)

(* An item shows a state that the user may see.                            *)
Shows(u, i, states) ==
    i.id \in Watchable =>
        \E s \in States :
            /\ <<u, i.id, s>> \in states
            /\ (IF i.played THEN 0 ELSE i.resume) = IF s = "half" THEN 1 ELSE 0

Numbered(a) == Split(a).season # NoNumber \/ Split(a).episode # NoNumber

Shown(u, items, states) ==
    \A i \in ToSet(items) : Shows(u, i, states) /\ i.id \in SeriesAndMovies

Active == Calls \cup {"lock", "semantic"}

IsJob(j) ==
    \E at, ask, user, items, item :
        j = [at |-> at, ask |-> ask, user |-> user, items |-> items, item |-> item]

(* A request under way has no items, or the list of a user that Jellyfin   *)
(* knows, as this user may see it.                                         *)
GoodJob(j, states) ==
    /\ IsJob(j) /\ j.ask \in Asks
    /\ j.at \in {"sessions", "users"} => j.items = <<>>
    /\ j.at \notin {"sessions", "users"} => j.user \in Users
    /\ Shown(j.user, j.items, states)
    /\ j.at = "next_up" => ~Numbered(j.ask)

(* What the two invariants come to, for one pick: the episode is the one   *)
(* that the code has split off the query.                                  *)
GoodPick(j, states) ==
    /\ j.id \in Watchable =>
        \E s \in States :
            /\ <<j.user, j.id, s>> \in states
            /\ j.resume = IF s = "half" THEN 1 ELSE 0
    /\ j.ask \in Asks
    /\ Catalog[j.id].kind = "Episode" /\ ~j.alone =>
        /\ Split(j.ask).season \in {NoNumber, Catalog[j.id].season}
        /\ Split(j.ask).episode \in {NoNumber, Catalog[j.id].number}

Good(j, states) ==
    /\ j.at \in Active \cup Ends \cup {"none"}
    /\ j.at \in Active => GoodJob(j, states)
    /\ j.at = "pick" => GoodPick(j, states)

(* What was seen in the last 10 min holds what is seen now, and a request  *)
(* under way may show all of it.                                           *)
World ==
    /\ lib \subseteq Ids /\ Ids \ lib \subseteq Missing
    /\ watched \in [Users -> [Watchable -> States]]
    /\ StatesOf(watched) \subseteq recent

Jobs ==
    /\ DOMAIN job = Requests /\ DOMAIN seen = Requests
    /\ \A r \in Requests :
        /\ job[r].at \in Active => recent \subseteq seen[r]
        /\ Good(job[r], seen[r])

(* A fresh list is one that Jellyfin gave, as its user may see it.         *)
Kept ==
    /\ \E user, fresh, items : cache = [user |-> user, fresh |-> fresh, items |-> items]
    /\ cache.fresh => cache.items \in Lists /\ Shown(cache.user, cache.items, recent)

SearchInv == World /\ Jobs /\ Kept

-----------------------------------------------------------------------------
(* Lists and items of Jellyfin. *)

LEMMA ItemIs ==
  ASSUME NEW w \in [Watchable -> States], NEW u, NEW id, NEW states,
         id \in Watchable => <<u, id, w[id]>> \in states
  PROVE  ItemOf(w, id).id = id /\ Shows(u, ItemOf(w, id), states)
  <1>1. PICK b \in BOOLEAN : b = (id \in Watchable /\ w[id] = "played")
    OBVIOUS
  <1>2. PICK n : n = IF id \in Watchable THEN IF w[id] = "half" THEN 1 ELSE 0 ELSE 0
    OBVIOUS
  <1>3. PICK i : i = [id |-> id, played |-> b, resume |-> n]
    OBVIOUS
  <1>4. ItemOf(w, id) = i
    BY <1>1, <1>2, <1>3 DEF ItemOf
  <1>5. i.id = id /\ i.played = b /\ i.resume = n
    BY <1>3
  <1>6. ASSUME id \in Watchable
        PROVE  /\ w[id] \in States /\ <<u, i.id, w[id]>> \in states
               /\ (IF i.played THEN 0 ELSE i.resume) = IF w[id] = "half" THEN 1 ELSE 0
    BY <1>1, <1>2, <1>5, <1>6
  <1>7. Shows(u, i, states)
    BY <1>5, <1>6 DEF Shows
  <1> QED BY <1>4, <1>5, <1>7

LEMMA TitlesAre ==
  ASSUME NEW w, NEW ids
  PROVE  /\ \A k \in DOMAIN ListOf(w, ids) : \E id \in ids : ListOf(w, ids)[k] = ItemOf(w, id)
         /\ \A i \in ToSet(ListOf(w, ids)) : \E id \in ids : i = ItemOf(w, id)
  <1>1. PICK at : at = {k \in DOMAIN Order : Order[k] \in ids}
    OBVIOUS
  <1>2. PICK there : there = Picked(Order, at)
    OBVIOUS
  <1>3. ListOf(w, ids) = [k \in DOMAIN there |-> ItemOf(w, there[k])]
    BY <1>1, <1>2 DEF ListOf
  <1>4. Order \in Seq(Ids) /\ Len(Order) \in 0..Len(Order)
    <2>1. Order \in Seq(Ids)
      BY JellyfinAssumption
    <2>2. Len(Order) \in Nat
      BY <2>1
    <2> QED BY <2>1, <2>2
  <1>5. there \in Seq(ids)
    <2>1. \A k \in DOMAIN Order : k \in at => Order[k] \in ids
      BY <1>1
    <2>2. \A m \in 0..Len(Order) : PickedUpto(Order, at)[m] \in Seq(ids)
      BY <1>4, <2>1, UptoHas
    <2> QED BY <1>2, <1>4, <2>2 DEF Picked
  <1>6. \A k \in DOMAIN there : there[k] \in ids
    BY <1>5
  <1>7. \A k \in DOMAIN ListOf(w, ids) : \E id \in ids : ListOf(w, ids)[k] = ItemOf(w, id)
    BY <1>3, <1>6
  <1>8. ToSet(ListOf(w, ids)) = {ListOf(w, ids)[k] : k \in DOMAIN ListOf(w, ids)}
    BY DEF ToSet
  <1> QED BY <1>7, <1>8

LEMMA ListForIs ==
  ASSUME World, NEW u \in Users, NEW ids \in SUBSET Ids
  PROVE  /\ \A k \in DOMAIN ListFor(u, ids) :
                Shows(u, ListFor(u, ids)[k], recent) /\ ListFor(u, ids)[k].id \in ids
         /\ \A i \in ToSet(ListFor(u, ids)) : Shows(u, i, recent) /\ i.id \in ids
  <1>1. PICK w \in [Watchable -> States] : w = watched[u]
    BY DEF World
  <1>2. \A id \in Watchable : <<u, id, w[id]>> \in recent
    BY <1>1 DEF World, StatesOf
  <1>3. ASSUME NEW id PROVE Shows(u, ItemOf(w, id), recent) /\ ItemOf(w, id).id = id
    BY <1>2, ItemIs
  <1>4. ListFor(u, ids) = ListOf(w, ids \cap lib)
    BY <1>1 DEF ListFor
  <1>5. /\ \A k \in DOMAIN ListFor(u, ids) : \E id \in ids : ListFor(u, ids)[k] = ItemOf(w, id)
        /\ \A i \in ToSet(ListFor(u, ids)) : \E id \in ids : i = ItemOf(w, id)
    <2>1. PICK there : there = ids \cap lib
      OBVIOUS
    <2>2. /\ \A k \in DOMAIN ListOf(w, there) : \E id \in there : ListOf(w, there)[k] = ItemOf(w, id)
          /\ \A i \in ToSet(ListOf(w, there)) : \E id \in there : i = ItemOf(w, id)
      BY TitlesAre
    <2>3. there \subseteq ids /\ ListFor(u, ids) = ListOf(w, there)
      BY <1>4, <2>1
    <2> QED BY <2>2, <2>3
  <1> QED BY <1>1, <1>3, <1>5

LEMMA ItemForIs ==
  ASSUME World, NEW u \in Users, NEW id
  PROVE  Shows(u, ItemFor(u, id), recent)
  <1>1. PICK w \in [Watchable -> States] : w = watched[u]
    BY DEF World
  <1>2. id \in Watchable => <<u, id, w[id]>> \in recent
    BY <1>1 DEF World, StatesOf
  <1>3. Shows(u, ItemOf(w, id), recent)
    BY <1>2, ItemIs
  <1> QED BY <1>1, <1>3 DEF ItemFor

LEMMA FetchedIs ==
  ASSUME World, NEW u \in Users
  PROVE  /\ ListFor(u, SeriesAndMovies) \in Lists
         /\ Shown(u, ListFor(u, SeriesAndMovies), recent)
  <1>1. SeriesAndMovies \in SUBSET Ids
    BY DEF SeriesAndMovies, OfKind
  <1>2. PICK gone \in SUBSET Missing : gone = Ids \ lib
    BY DEF World
  <1>3. SeriesAndMovies \cap lib = SeriesAndMovies \ gone
    BY <1>1, <1>2
  <1>4. PICK w \in [Watchable -> States] : w = watched[u]
    BY DEF World
  <1>5. ListFor(u, SeriesAndMovies) \in Lists
    <2>1. ListFor(u, SeriesAndMovies) = ListOf(w, SeriesAndMovies \ gone)
      BY <1>3, <1>4 DEF ListFor
    <2>2. ListFor(u, SeriesAndMovies) \in ListsSeeing(w)
      BY <2>1 DEF ListsSeeing
    <2> QED BY <2>2 DEF Lists
  <1> QED BY <1>1, <1>5, ListForIs DEF Shown

LEMMA FoundIs ==
  ASSUME NEW a \in Asks, NEW list \in Lists
  PROVE  Found(a, list) \subseteq ToSet(list)
  <1>1. PICK e \in Finds : e.ask = a /\ e.list = list
    <2>1. [ask |-> a, list |-> list, found |-> TitleStages(a, list)] \in Finds
      BY DEF Finds
    <2> QED BY <2>1
  <1>2. PICK f \in Finds :
            /\ f = CHOOSE g \in Finds : g.ask = a /\ g.list = list
            /\ f.ask = a /\ f.list = list
    BY <1>1
  <1>3. PICK b \in Asks, l \in Lists : f = [ask |-> b, list |-> l, found |-> TitleStages(b, l)]
    BY <1>2 DEF Finds
  <1>4. f.found = TitleStages(a, list)
    <2>1. PICK t : t = TitleStages(b, l)
      OBVIOUS
    <2>2. f.ask = b /\ f.list = l /\ f.found = t
      BY <1>3, <2>1
    <2> QED BY <1>2, <2>1, <2>2
  <1>5. TitleStages(a, list) \subseteq ToSet(list)
    BY DEF TitleStages
  <1> QED BY <1>2, <1>4, <1>5 DEF Found
-----------------------------------------------------------------------------
(* What a request becomes. *)

LEMMA MoreStates ==
  ASSUME NEW j, NEW a, NEW b, a \subseteq b, Good(j, a)
  PROVE  Good(j, b)
  <1>1. \A u, i : Shows(u, i, a) => Shows(u, i, b)
    BY DEF Shows
  <1>2. GoodJob(j, a) => GoodJob(j, b)
    BY <1>1 DEF GoodJob, Shown
  <1>3. GoodPick(j, a) => GoodPick(j, b)
    BY DEF GoodPick
  <1> QED BY <1>2, <1>3 DEF Good

LEMMA PickIs ==
  ASSUME NEW j, NEW states, j.ask \in Asks, NEW i, Shows(j.user, i, states), NEW alone \in BOOLEAN,
         Catalog[i.id].kind = "Episode" /\ ~alone =>
            /\ Split(j.ask).season \in {NoNumber, Catalog[i.id].season}
            /\ Split(j.ask).episode \in {NoNumber, Catalog[i.id].number}
  PROVE  Good(Pick(j, i, alone), states)
  <1>1. PICK n : n = IF i.played THEN 0 ELSE i.resume
    OBVIOUS
  <1>2. PICK p : p = [at |-> "pick", ask |-> j.ask, user |-> j.user, id |-> i.id,
                      resume |-> n, alone |-> alone]
    OBVIOUS
  <1>3. Pick(j, i, alone) = p
    BY <1>1, <1>2 DEF Pick
  <1>4. /\ p.at = "pick" /\ p.ask = j.ask /\ p.user = j.user
        /\ p.id = i.id /\ p.resume = n /\ p.alone = alone
    BY <1>2
  <1>5. GoodPick(p, states)
    BY <1>1, <1>4 DEF GoodPick, Shows
  <1> QED BY <1>3, <1>4, <1>5 DEF Good, Active, Calls, Ends

LEMMA MovedIs ==
  ASSUME NEW j, NEW states, GoodJob(j, states), j.user \in Users, NEW id,
         NEW at \in Active \ {"sessions", "users"}, at = "next_up" => ~Numbered(j.ask)
  PROVE  /\ Good([j EXCEPT !.at = at, !.item = id], states)
         /\ Good([j EXCEPT !.at = at], states)
  <1>1. PICK a, ask, user, items, item :
            j = [at |-> a, ask |-> ask, user |-> user, items |-> items, item |-> item]
    BY DEF GoodJob, IsJob
  <1>2. PICK k : k = [at |-> at, ask |-> ask, user |-> user, items |-> items, item |-> id]
    OBVIOUS
  <1>3. PICK l : l = [at |-> at, ask |-> ask, user |-> user, items |-> items, item |-> item]
    OBVIOUS
  <1>4. [j EXCEPT !.at = at, !.item = id] = k /\ [j EXCEPT !.at = at] = l
    <2>1. [j EXCEPT !.at = at] = l
      BY <1>1, <1>3
    <2>2. [l EXCEPT !.item = id] = k
      BY <1>2, <1>3
    <2>3. [j EXCEPT !.at = at, !.item = id] = [[j EXCEPT !.at = at] EXCEPT !.item = id]
      OBVIOUS
    <2> QED BY <2>1, <2>2, <2>3
  <1>5. /\ k.at = at /\ k.ask = j.ask /\ k.user = j.user /\ k.items = j.items
        /\ l.at = at /\ l.ask = j.ask /\ l.user = j.user /\ l.items = j.items
    BY <1>1, <1>2, <1>3
  <1>6. IsJob(k) /\ IsJob(l)
    BY <1>2, <1>3 DEF IsJob
  <1>7. GoodJob(k, states) /\ GoodJob(l, states)
    BY <1>5, <1>6 DEF GoodJob
  <1>8. at # "pick"
    BY DEF Active, Calls
  <1> QED BY <1>4, <1>5, <1>7, <1>8 DEF Good

LEMMA DecidedIs ==
  ASSUME NEW j, NEW states, GoodJob(j, states), j.user \in Users,
         NEW found, Shows(j.user, found, states)
  PROVE  Good(Decided(j, found), states)
  <1>1. PICK series : series = Listed(j, Catalog[found.id].series)
    OBVIOUS
  <1>2. PICK n \in BOOLEAN : n = Numbered(j.ask)
    BY DEF Numbered
  <1>3. PICK alone \in BOOLEAN : alone = (series = {})
    OBVIOUS
  <1>4. PICK item : item = IF n /\ series # {} THEN CHOOSE i \in series : TRUE ELSE found
    OBVIOUS
  <1>5. Decided(j, found) =
            IF Catalog[item.id].kind # "Series" THEN Pick(j, item, alone)
            ELSE [j EXCEPT !.at = IF n THEN "episodes" ELSE "next_up", !.item = item.id]
    BY <1>1, <1>2, <1>3, <1>4, Zenon DEF Decided, Numbered
  <1>6. Good([j EXCEPT !.at = "episodes", !.item = item.id], states) /\ j.ask \in Asks
    <2>1. PICK at \in Active \ {"sessions", "users"} : at = "episodes" /\ at # "next_up"
      BY DEF Active, Calls
    <2> QED BY <2>1, MovedIs DEF GoodJob
  <1>7. CASE n /\ series # {}
    <2>1. item \in series
      BY <1>4, <1>7
    <2>2. item \in ToSet(j.items)
      BY <1>1, <2>1 DEF Listed
    <2>3. Shows(j.user, item, states) /\ Catalog[item.id].kind # "Episode"
      BY <2>2 DEF GoodJob, Shown, SeriesAndMovies, OfKind
    <2>4. Good(Pick(j, item, alone), states)
      BY <1>6, <2>3, PickIs
    <2> QED BY <1>5, <1>6, <1>7, <2>4
  <1>8. CASE ~(n /\ series # {})
    <2>1. item = found
      BY <1>4, <1>8
    <2>2. CASE n
      <3>1. alone
        BY <1>3, <1>8, <2>2
      <3>2. Good(Pick(j, item, alone), states)
        BY <1>6, <2>1, <3>1, PickIs
      <3> QED BY <1>5, <1>6, <2>2, <3>2
    <2>3. CASE ~n
      <3>1. Split(j.ask).season = NoNumber /\ Split(j.ask).episode = NoNumber
        BY <1>2, <2>3 DEF Numbered
      <3>2. Good(Pick(j, item, alone), states)
        BY <1>6, <2>1, <3>1, PickIs
      <3>3. Good([j EXCEPT !.at = "next_up", !.item = item.id], states)
        BY <1>2, <2>3, MovedIs DEF Active, Calls
      <3> QED BY <1>5, <2>3, <3>2, <3>3
    <2> QED BY <2>2, <2>3
  <1> QED BY <1>7, <1>8

LEMMA SearchedIs ==
  ASSUME NEW j, NEW states, GoodJob(j, states), j.user \in Users, j.at \notin {"sessions", "users"},
         NEW items \in Lists, Shown(j.user, items, states),
         NEW new \in Searched([j EXCEPT !.items = items])
  PROVE  Good(new, states)
  <1>1. PICK a, ask, user, old, item :
            j = [at |-> a, ask |-> ask, user |-> user, items |-> old, item |-> item]
    BY DEF GoodJob, IsJob
  <1>2. PICK k : k = [at |-> a, ask |-> ask, user |-> user, items |-> items, item |-> item]
    OBVIOUS
  <1>3. [j EXCEPT !.items = items] = k
    BY <1>1, <1>2
  <1>4. k.at = j.at /\ k.ask = j.ask /\ k.user = j.user /\ k.items = items
    BY <1>1, <1>2
  <1>5. IsJob(k)
    BY <1>2 DEF IsJob
  <1>6. GoodJob(k, states)
    BY <1>4, <1>5 DEF GoodJob
  <1>7. k.ask \in Asks /\ k.user \in Users
    BY <1>4, <1>6 DEF GoodJob
  <1>8. new \in Searched(k)
    BY <1>3
  <1>9. CASE \E found \in Found(k.ask, k.items) : new = Decided(k, found)
    <2>1. PICK found \in Found(k.ask, k.items) : new = Decided(k, found)
      BY <1>9
    <2>2. found \in ToSet(items)
      BY <1>4, <1>7, FoundIs
    <2>3. Shows(k.user, found, states)
      BY <1>4, <2>2 DEF Shown
    <2> QED BY <1>6, <1>7, <2>1, <2>3, DecidedIs
  <1>10. CASE \E at \in {"semantic", "search"} : new = [k EXCEPT !.at = at]
    <2>1. PICK at \in {"semantic", "search"} : new = [k EXCEPT !.at = at]
      BY <1>10
    <2>2. at \in Active \ {"sessions", "users"} /\ at # "next_up"
      BY DEF Active, Calls
    <2> QED BY <1>6, <1>7, <2>1, <2>2, MovedIs
  <1>11. \/ \E found \in Found(k.ask, k.items) : new = Decided(k, found)
         \/ \E at \in {"semantic", "search"} : new = [k EXCEPT !.at = at]
    BY <1>8 DEF Searched
  <1> QED BY <1>9, <1>10, <1>11
-----------------------------------------------------------------------------
(* Every step of the search keeps the invariant. *)

LEMMA NoItems ==
  ASSUME NEW u, NEW states
  PROVE  Shown(u, <<>>, states)
  <1>1. ToSet(<<>>) = {}
    BY DEF ToSet
  <1> QED BY <1>1 DEF Shown

LEMMA EndIs ==
  ASSUME NEW at \in Ends \ {"pick"}, NEW states
  PROVE  Good([at |-> at], states)
  BY DEF Good, Active, Calls, Ends

(* A request that goes on. *)
LEMMA GoesIs ==
  ASSUME World, Jobs, NEW r \in Requests, NEW new, Goes(r, new),
         job[r].at \in Active, Good(new, seen[r])
  PROVE  World' /\ Jobs'
  <1>1. /\ DOMAIN job = Requests
        /\ job' = [job EXCEPT ![r] = new]
        /\ UNCHANGED <<lib, watched, changes, recent, seen>>
    BY DEF Jobs, Goes, serverVars
  <1>2. World'
    BY <1>1 DEF World, StatesOf
  <1>3. DOMAIN job' = Requests /\ job'[r] = new /\ \A q \in Requests \ {r} : job'[q] = job[q]
    BY <1>1
  <1>4. recent \subseteq seen[r]
    BY DEF Jobs
  <1>5. ASSUME NEW q \in Requests
        PROVE  /\ job'[q].at \in Active => recent' \subseteq seen'[q]
               /\ Good(job'[q], seen'[q])
    <2>1. CASE q = r
      BY <1>1, <1>3, <1>4, <2>1
    <2>2. CASE q # r
      BY <1>1, <1>3, <2>2 DEF Jobs
    <2> QED BY <2>1, <2>2
  <1>6. Jobs'
    BY <1>1, <1>3, <1>5 DEF Jobs
  <1> QED BY <1>2, <1>6

LEMMA KeptStays ==
  ASSUME Kept, UNCHANGED <<cache, recent>>
  PROVE  Kept'
  BY DEF Kept, Shown, Shows

LEMMA SearchGoes ==
  ASSUME SearchInv, NEW r \in Requests, SearchStep(r)
  PROVE  \E new : Goes(r, new) /\ job[r].at \in Active /\ Good(new, seen[r])
  <1>1. PICK j : j = job[r]
    OBVIOUS
  <1>2. PICK states : states = seen[r]
    OBVIOUS
  <1>3. /\ World /\ Jobs /\ Kept
        /\ j.at \in Active => GoodJob(j, states) /\ recent \subseteq states
    BY <1>1, <1>2 DEF SearchInv, Jobs, Good
  <1>4. \A u, i : recent \subseteq states /\ Shows(u, i, recent) => Shows(u, i, states)
    BY DEF Shows
  <1> SUFFICES \E new : Goes(r, new) /\ j.at \in Active /\ Good(new, states)
    BY <1>1, <1>2
  <1>5. CASE Sessions(r)
    <2>1. PICK name, new : /\ new = [[j EXCEPT !.at = "users"] EXCEPT !.user = name]
                           /\ Goes(r, new) /\ j.at = "sessions"
      BY <1>1, <1>5, Zenon DEF Sessions, Walks, At
    <2>2. j.at \in Active /\ GoodJob(j, states)
      BY <1>3, <2>1 DEF Active, Calls
    <2>3. PICK a, ask, user, items, item :
              j = [at |-> a, ask |-> ask, user |-> user, items |-> items, item |-> item]
      BY <2>2 DEF GoodJob, IsJob
    <2>4. PICK k : k = [at |-> "users", ask |-> ask, user |-> name, items |-> items, item |-> item]
      OBVIOUS
    <2>5. new = k
      <3>1. PICK l : l = [at |-> "users", ask |-> ask, user |-> user, items |-> items, item |-> item]
        OBVIOUS
      <3>2. [j EXCEPT !.at = "users"] = l
        BY <2>3, <3>1
      <3>3. [l EXCEPT !.user = name] = k
        BY <2>4, <3>1
      <3> QED BY <2>1, <3>2, <3>3
    <2>6. k.at = "users" /\ k.ask = j.ask /\ k.items = j.items /\ IsJob(k)
      BY <2>3, <2>4 DEF IsJob
    <2>7. j.items = <<>> /\ j.ask \in Asks
      BY <2>1, <2>2 DEF GoodJob
    <2>8. GoodJob(k, states)
      BY <2>6, <2>7, NoItems DEF GoodJob
    <2>9. Good(k, states)
      BY <2>6, <2>8 DEF Good, Active, Calls
    <2> QED BY <2>1, <2>2, <2>5, <2>9
  <1>6. CASE UserKnown(r)
    <2>1. PICK new : /\ Goes(r, new) /\ j.at = "users"
                     /\ \/ new = [at |-> "error"] \/ new = [at |-> "nothing"]
                        \/ new = [j EXCEPT !.at = "lock"] /\ j.user \in Users
      BY <1>1, <1>6, Zenon DEF UserKnown, Walks, At
    <2>2. j.at \in Active /\ GoodJob(j, states)
      BY <1>3, <2>1 DEF Active, Calls
    <2>3. CASE new = [at |-> "error"] \/ new = [at |-> "nothing"]
      <3>1. Good(new, states)
        BY <2>3, EndIs DEF Ends
      <3> QED BY <2>1, <2>2, <3>1
    <2>4. CASE new = [j EXCEPT !.at = "lock"] /\ j.user \in Users
      <3>1. Good(new, states)
        BY <2>2, <2>4, MovedIs DEF Active, Calls
      <3> QED BY <2>1, <2>2, <3>1
    <2> QED BY <2>1, <2>3, <2>4
  <1>7. CASE LibraryKept(r)
    <2>1. PICK items, new : /\ items = cache.items
                            /\ new \in Searched([j EXCEPT !.items = items])
                            /\ Goes(r, new) /\ j.at = "lock" /\ cache.fresh /\ cache.user = j.user
      BY <1>1, <1>7, Zenon DEF LibraryKept, Locked, Valid
    <2>2. j.at \in Active /\ GoodJob(j, states) /\ recent \subseteq states /\ j.user \in Users
      BY <1>3, <2>1 DEF Active, Calls, GoodJob
    <2>3. items \in Lists /\ Shown(j.user, items, states)
      BY <1>3, <1>4, <2>1, <2>2 DEF Kept, Shown
    <2>4. Good(new, states)
      BY <2>1, <2>2, <2>3, SearchedIs
    <2> QED BY <2>1, <2>2, <2>4
  <1>8. CASE LibraryOld(r)
    <2>1. PICK new : new = [j EXCEPT !.at = "fetch"] /\ Goes(r, new) /\ j.at = "lock"
      BY <1>1, <1>8, Zenon DEF LibraryOld, Locked, Walks, At
    <2>2. j.at \in Active /\ GoodJob(j, states) /\ j.user \in Users
      BY <1>3, <2>1 DEF Active, Calls, GoodJob
    <2>3. Good(new, states)
      BY <2>1, <2>2, MovedIs DEF Active, Calls
    <2> QED BY <2>1, <2>2, <2>3
  <1>9. CASE LibraryFetched(r)
    <2>1. PICK items, new : /\ items = ListFor(j.user, SeriesAndMovies)
                            /\ new \in Searched([j EXCEPT !.items = items])
                            /\ Goes(r, new) /\ j.at = "fetch"
      BY <1>1, <1>9, Zenon DEF LibraryFetched
    <2>2. j.at \in Active /\ GoodJob(j, states) /\ recent \subseteq states /\ j.user \in Users
      BY <1>3, <2>1 DEF Active, Calls, GoodJob
    <2>3. items \in Lists /\ Shown(j.user, items, recent)
      BY <1>3, <2>1, <2>2, FetchedIs
    <2>4. Shown(j.user, items, states)
      BY <1>4, <2>2, <2>3 DEF Shown
    <2>5. Good(new, states)
      BY <2>1, <2>2, <2>3, <2>4, SearchedIs
    <2> QED BY <2>1, <2>2, <2>5
  <1>10. CASE Semantic(r)
    <2>1. PICK new :
            /\ Goes(r, new) /\ j.at = "semantic"
            /\ \/ new = [j EXCEPT !.at = "search"]
               \/ \E id : \E known \in Listed(j, id) : new = Decided(j, known)
               \/ \E id : new = [[j EXCEPT !.at = "item"] EXCEPT !.item = id]
      BY <1>1, <1>10, Zenon DEF Semantic, Walks, At
    <2>2. j.at \in Active /\ GoodJob(j, states) /\ j.user \in Users
      BY <1>3, <2>1 DEF Active, Calls, GoodJob
    <2>3. CASE new = [j EXCEPT !.at = "search"]
      <3>1. Good(new, states)
        BY <2>2, <2>3, MovedIs DEF Active, Calls
      <3> QED BY <2>1, <2>2, <3>1
    <2>4. CASE \E id : \E known \in Listed(j, id) : new = Decided(j, known)
      <3>1. PICK known \in ToSet(j.items) : new = Decided(j, known)
        BY <2>4 DEF Listed
      <3>2. Shows(j.user, known, states)
        BY <2>2 DEF GoodJob, Shown
      <3>3. Good(new, states)
        BY <2>1, <2>2, <3>1, <3>2, DecidedIs
      <3> QED BY <2>1, <2>2, <3>3
    <2>5. CASE \E id : new = [[j EXCEPT !.at = "item"] EXCEPT !.item = id]
      <3>1. PICK id : new = [j EXCEPT !.at = "item", !.item = id]
        BY <2>5
      <3>2. Good(new, states)
        BY <2>2, <3>1, MovedIs DEF Active, Calls
      <3> QED BY <2>1, <2>2, <3>2
    <2> QED BY <2>1, <2>3, <2>4, <2>5
  <1>11. CASE ItemRead(r)
    <2>1. PICK i, new : /\ i = ItemFor(j.user, j.item) /\ new = Decided(j, i)
                        /\ Goes(r, new) /\ j.at = "item"
      BY <1>1, <1>11, Zenon DEF ItemRead, Walks
    <2>2. j.at \in Active /\ GoodJob(j, states) /\ recent \subseteq states /\ j.user \in Users
      BY <1>3, <2>1 DEF Active, Calls, GoodJob
    <2>3. Shows(j.user, i, states)
      BY <1>3, <1>4, <2>1, <2>2, ItemForIs
    <2>4. Good(new, states)
      BY <2>1, <2>2, <2>3, DecidedIs
    <2> QED BY <2>1, <2>2, <2>4
  <1>12. CASE OwnSearch(r)
    <2>1. PICK new :
            /\ Goes(r, new) /\ j.at = "search"
            /\ \/ \E id : new = Decided(j, ItemFor(j.user, id))
               \/ new = [at |-> "nothing"]
      BY <1>1, <1>12, Zenon DEF OwnSearch, Walks
    <2>2. j.at \in Active /\ GoodJob(j, states) /\ recent \subseteq states /\ j.user \in Users
      BY <1>3, <2>1 DEF Active, Calls, GoodJob
    <2>3. CASE \E id : new = Decided(j, ItemFor(j.user, id))
      <3>1. PICK id, i : i = ItemFor(j.user, id) /\ new = Decided(j, i)
        BY <2>3
      <3>2. Shows(j.user, i, states)
        BY <1>3, <1>4, <2>2, <3>1, ItemForIs
      <3>3. Good(new, states)
        BY <2>1, <2>2, <3>1, <3>2, DecidedIs
      <3> QED BY <2>1, <2>2, <3>3
    <2>4. CASE new = [at |-> "nothing"]
      <3>1. Good(new, states)
        BY <2>4, EndIs DEF Ends
      <3> QED BY <2>1, <2>2, <3>1
    <2> QED BY <2>1, <2>3, <2>4
  <1>13. CASE NextUp(r)
    <2>1. PICK new :
            /\ Goes(r, new) /\ j.at = "next_up"
            /\ \/ \E id : new = Pick(j, ItemFor(j.user, id), FALSE)
               \/ new = [j EXCEPT !.at = "episodes"]
      BY <1>1, <1>13, Zenon DEF NextUp, Walks, At
    <2>2. j.at \in Active /\ GoodJob(j, states) /\ recent \subseteq states /\ j.user \in Users
      BY <1>3, <2>1 DEF Active, Calls, GoodJob
    <2>3. CASE \E id : new = Pick(j, ItemFor(j.user, id), FALSE)
      <3>1. PICK id, i : i = ItemFor(j.user, id) /\ new = Pick(j, i, FALSE)
        BY <2>3
      <3>2. Shows(j.user, i, states)
        BY <1>3, <1>4, <2>2, <3>1, ItemForIs
      <3>3. Split(j.ask).season = NoNumber /\ Split(j.ask).episode = NoNumber
        BY <2>1, <2>2 DEF GoodJob, Numbered
      <3>4. j.ask \in Asks
        BY <2>2 DEF GoodJob
      <3>5. PICK alone \in BOOLEAN : alone = FALSE
        OBVIOUS
      <3>6. Good(new, states)
        BY <3>1, <3>2, <3>3, <3>4, <3>5, PickIs
      <3> QED BY <2>1, <2>2, <3>6
    <2>4. CASE new = [j EXCEPT !.at = "episodes"]
      <3>1. Good(new, states)
        BY <2>2, <2>4, MovedIs DEF Active, Calls
      <3> QED BY <2>1, <2>2, <3>1
    <2> QED BY <2>1, <2>3, <2>4
  <1>14. CASE Episodes(r)
    <2>1. PICK new, list :
            /\ Goes(r, new) /\ j.at = "episodes" /\ list = ListFor(j.user, EpisodesOf(j.item))
            /\ \/ \E k \in DOMAIN list :
                    WantedEpisode(Split(j.ask), Catalog[list[k].id]) /\ new = Pick(j, list[k], FALSE)
               \/ new = [at |-> "nothing"]
      BY <1>1, <1>14, Zenon DEF Episodes, Walks
    <2>2. j.at \in Active /\ GoodJob(j, states) /\ recent \subseteq states /\ j.user \in Users
      BY <1>3, <2>1 DEF Active, Calls, GoodJob
    <2>3. CASE \E k \in DOMAIN list :
                 WantedEpisode(Split(j.ask), Catalog[list[k].id]) /\ new = Pick(j, list[k], FALSE)
      <3>1. PICK k \in DOMAIN list :
                 WantedEpisode(Split(j.ask), Catalog[list[k].id]) /\ new = Pick(j, list[k], FALSE)
        BY <2>3
      <3>2. PICK ids \in SUBSET Ids : ids = EpisodesOf(j.item)
        BY DEF EpisodesOf, OfKind
      <3>3. Shows(j.user, list[k], states)
        BY <1>3, <1>4, <2>1, <2>2, <3>2, ListForIs
      <3>4. /\ Split(j.ask).season \in {NoNumber, Catalog[list[k].id].season}
            /\ Split(j.ask).episode \in {NoNumber, Catalog[list[k].id].number}
        BY <3>1 DEF WantedEpisode
      <3>5. j.ask \in Asks
        BY <2>2 DEF GoodJob
      <3>6. PICK alone \in BOOLEAN : alone = FALSE
        OBVIOUS
      <3>7. Good(new, states)
        BY <3>1, <3>3, <3>4, <3>5, <3>6, PickIs
      <3> QED BY <2>1, <2>2, <3>7
    <2>4. CASE new = [at |-> "nothing"]
      <3>1. Good(new, states)
        BY <2>4, EndIs DEF Ends
      <3> QED BY <2>1, <2>2, <3>1
    <2> QED BY <2>1, <2>3, <2>4
  <1>15. CASE CallFails(r)
    <2>1. Goes(r, [at |-> "error"]) /\ j.at \in Active
      BY <1>1, <1>15 DEF CallFails, Active
    <2>2. Good([at |-> "error"], states)
      BY EndIs DEF Ends
    <2> QED BY <2>1, <2>2
  <1>16. CASE Gone(r)
    <2>1. Goes(r, [at |-> "gone"]) /\ j.at \notin Ends \cup {"none"}
      BY <1>1, <1>16, Zenon DEF Gone
    <2>2. j.at \in Active
      BY <1>1, <2>1 DEF SearchInv, Jobs, Good
    <2>3. Good([at |-> "gone"], states)
      BY EndIs DEF Ends
    <2> QED BY <2>1, <2>3, <2>2
  <1> QED BY <1>5, <1>6, <1>7, <1>8, <1>9, <1>10, <1>11, <1>12, <1>13, <1>14, <1>15, <1>16
          DEF SearchStep
LEMMA SearchKeeps ==
  ASSUME SearchInv, NEW r \in Requests, SearchStep(r)
  PROVE  SearchInv'
  <1>1. PICK new : Goes(r, new) /\ job[r].at \in Active /\ Good(new, seen[r])
    BY SearchGoes
  <1>2. World' /\ Jobs'
    BY <1>1, GoesIs DEF SearchInv
  <1>3. Kept'
    <2>1. CASE UNCHANGED cache
      BY <1>1, <2>1, KeptStays DEF SearchInv, Goes, serverVars
    <2>2. CASE LibraryFetched(r)
      <3>1. PICK fresh \in BOOLEAN : fresh = TRUE
        OBVIOUS
      <3>2. PICK items :
                /\ items = ListFor(job[r].user, SeriesAndMovies)
                /\ cache' = [user |-> job[r].user, fresh |-> fresh, items |-> items]
                /\ job[r].at = "fetch"
        BY <2>2, <3>1, Zenon DEF LibraryFetched
      <3>3. job[r].user \in Users
        BY <3>2 DEF SearchInv, Jobs, Good, GoodJob, Active, Calls
      <3>4. items \in Lists /\ Shown(job[r].user, items, recent)
        BY <3>2, <3>3, FetchedIs DEF SearchInv
      <3>5. /\ cache'.user = job[r].user /\ cache'.items = items
            /\ \E user, f, list : cache' = [user |-> user, fresh |-> f, items |-> list]
        BY <3>2
      <3>6. recent' = recent
        BY <1>1 DEF Goes, serverVars
      <3>7. Lists' = Lists
        BY DEF Lists, ListsSeeing, ListOf, ItemOf, SeriesAndMovies, OfKind
      <3>8. Shown(cache'.user, cache'.items, recent')
        BY <3>4, <3>5, <3>6
      <3> QED BY <3>4, <3>5, <3>7, <3>8 DEF Kept, Shown, Shows
    <2> QED BY <2>1, <2>2 DEF SearchStep, Sessions, UserKnown, LibraryKept, LibraryOld, Semantic,
               ItemRead, OwnSearch, NextUp, Episodes, CallFails, Gone, Walks
  <1> QED BY <1>2, <1>3 DEF SearchInv

LEMMA AskKeeps ==
  ASSUME SearchInv, NEW r \in Requests, NEW ask \in Asks, Ask(r, ask)
  PROVE  SearchInv'
  <1>1. PICK at \in {"sessions", "users"} :
            at = IF Asked[ask].user = "" /\ Asked[ask].devices # {} THEN "sessions" ELSE "users"
    OBVIOUS
  <1>2. PICK user : user = IF Asked[ask].user = "" THEN User ELSE Asked[ask].user
    OBVIOUS
  <1>3. PICK new : new = [at |-> at, ask |-> ask, user |-> user, items |-> <<>>, item |-> ""]
    OBVIOUS
  <1>4. job' = [job EXCEPT ![r] = new]
    BY <1>1, <1>2, <1>3 DEF Ask
  <1>5. /\ seen' = [seen EXCEPT ![r] = recent]
        /\ UNCHANGED <<queue, cache, lib, watched, changes, recent>>
    BY DEF Ask, serverVars
  <1>6. /\ new.at = at /\ new.ask = ask /\ new.items = <<>> /\ IsJob(new)
    BY <1>3 DEF IsJob
  <1>7. GoodJob(new, recent)
    BY <1>6, NoItems DEF GoodJob
  <1>8. Good(new, recent)
    BY <1>6, <1>7 DEF Good, Active, Calls
  <1>9. DOMAIN job = Requests /\ DOMAIN seen = Requests
    BY DEF SearchInv, Jobs
  <1>10. /\ DOMAIN job' = Requests /\ DOMAIN seen' = Requests
        /\ job'[r] = new /\ seen'[r] = recent
        /\ \A q \in Requests \ {r} : job'[q] = job[q] /\ seen'[q] = seen[q]
    BY <1>4, <1>5, <1>9
  <1>11. ASSUME NEW q \in Requests
        PROVE  /\ job'[q].at \in Active => recent' \subseteq seen'[q]
               /\ Good(job'[q], seen'[q])
    <2>1. CASE q = r
      BY <1>5, <1>8, <1>10, <2>1
    <2>2. CASE q # r
      BY <1>5, <1>10, <2>2 DEF SearchInv, Jobs
    <2> QED BY <2>1, <2>2
  <1>12. Jobs'
    BY <1>10, <1>11 DEF Jobs
  <1>13. World'
    BY <1>5 DEF SearchInv, World, StatesOf
  <1>14. Kept'
    BY <1>5, KeptStays DEF SearchInv
  <1> QED BY <1>12, <1>13, <1>14 DEF SearchInv

LEMMA EnvironmentKeeps ==
  ASSUME SearchInv, Environment
  PROVE  SearchInv'
  <1>1. CASE TenMinutes
    <2>1. /\ recent' = StatesOf(watched)
          /\ UNCHANGED <<job, lib, watched, seen>>
          /\ cache' = [cache EXCEPT !.fresh = FALSE]
      BY <1>1 DEF TenMinutes
    <2>2. StatesOf(watched') = StatesOf(watched) /\ recent' \subseteq recent
      BY <2>1 DEF SearchInv, World, StatesOf
    <2>3. World'
      BY <2>1, <2>2 DEF SearchInv, World
    <2>4. Jobs'
      BY <2>1, <2>2 DEF SearchInv, Jobs
    <2>5. PICK user, fresh, items : cache = [user |-> user, fresh |-> fresh, items |-> items]
      BY DEF SearchInv, Kept
    <2>6. PICK f \in BOOLEAN : f = FALSE
      OBVIOUS
    <2>7. cache' = [user |-> user, fresh |-> f, items |-> items]
      BY <2>1, <2>5, <2>6
    <2>8. Kept'
      BY <2>6, <2>7 DEF Kept
    <2> QED BY <2>3, <2>4, <2>8 DEF SearchInv
  <1>2. ASSUME NEW u \in Users, NEW id \in Watchable, NEW s \in States, Watch(u, id, s)
        PROVE  SearchInv'
    <2>1. PICK new : new = <<u, id, s>>
      OBVIOUS
    <2>2. /\ watched' = [watched EXCEPT ![u][id] = s]
          /\ recent' = recent \cup {new}
          /\ seen' = [r \in Requests |->
                IF job[r].at \in Ends \cup {"none"} THEN seen[r] ELSE seen[r] \cup {new}]
          /\ UNCHANGED <<job, cache, lib>>
      BY <1>2, <2>1 DEF Watch
    <2>3. watched \in [Users -> [Watchable -> States]]
      BY DEF SearchInv, World
    <2>4. watched' \in [Users -> [Watchable -> States]]
      BY <2>2, <2>3
    <2>5. ASSUME NEW v \in Users, NEW i \in Watchable
          PROVE  <<v, i, watched'[v][i]>> \in recent'
      <3>1. CASE v = u /\ i = id
        BY <2>1, <2>2, <2>3, <3>1
      <3>2. CASE ~(v = u /\ i = id)
        <4>1. watched'[v][i] = watched[v][i]
          BY <2>2, <2>3, <3>2
        <4>2. <<v, i, watched[v][i]>> \in recent
          BY DEF SearchInv, World, StatesOf
        <4> QED BY <2>2, <4>1, <4>2
      <3> QED BY <3>1, <3>2
    <2>6. StatesOf(watched') \subseteq recent'
      BY <2>5 DEF StatesOf
    <2>7. World'
      BY <2>2, <2>4, <2>6 DEF SearchInv, World
    <2>8. ASSUME NEW r \in Requests
          PROVE  /\ job[r].at \in Active => recent' \subseteq seen'[r]
                 /\ Good(job[r], seen'[r])
      <3>1. seen[r] \subseteq seen'[r] /\ (job[r].at \notin Ends \cup {"none"} => new \in seen'[r])
        BY <2>2
      <3>2. job[r].at \in Active => job[r].at \notin Ends \cup {"none"}
        BY DEF Active, Calls, Ends
      <3>3. Good(job[r], seen[r]) /\ (job[r].at \in Active => recent \subseteq seen[r])
        BY DEF SearchInv, Jobs
      <3>4. Good(job[r], seen'[r])
        BY <3>1, <3>3, MoreStates
      <3> QED BY <2>2, <3>1, <3>2, <3>3, <3>4
    <2>9. Jobs'
      BY <2>2, <2>8 DEF SearchInv, Jobs
    <2>10. \A v, i : Shows(v, i, recent) => Shows(v, i, recent')
      BY <2>2 DEF Shows
    <2>11. Shown(cache.user, cache.items, recent) => Shown(cache.user, cache.items, recent')
      BY <2>10 DEF Shown
    <2>12. Kept'
      BY <2>2, <2>11 DEF SearchInv, Kept
    <2> QED BY <2>7, <2>9, <2>12 DEF SearchInv
  <1>3. ASSUME NEW id \in Missing, LibraryChanges(id)
        PROVE  SearchInv'
    <2>1. /\ UNCHANGED <<job, cache, watched, recent, seen>>
          /\ lib' = IF id \in lib THEN lib \ {id} ELSE lib \cup {id}
      BY <1>3 DEF LibraryChanges
    <2>2. Missing \subseteq Ids
      BY JellyfinAssumption
    <2>3. World'
      BY <2>1, <2>2 DEF SearchInv, World, StatesOf
    <2>4. Jobs'
      BY <2>1 DEF SearchInv, Jobs
    <2>5. Kept'
      BY <2>1, KeptStays DEF SearchInv
    <2> QED BY <2>3, <2>4, <2>5 DEF SearchInv
  <1> QED BY <1>1, <1>2, <1>3 DEF Environment

LEMMA SearchInit ==
  ASSUME JellyfinInit
  PROVE  SearchInv
  <1>1. World
    <2>1. lib \subseteq Ids /\ Ids \ lib \subseteq Missing
      BY DEF JellyfinInit
    <2>2. watched = [u \in Users |-> [i \in Watchable |-> "new"]] /\ "new" \in States
      BY DEF JellyfinInit, States
    <2>3. watched \in [Users -> [Watchable -> States]]
      BY <2>2
    <2>4. StatesOf(watched) \subseteq recent
      BY DEF JellyfinInit
    <2> QED BY <2>1, <2>3, <2>4 DEF World
  <1>2. \A r \in Requests : job[r] = NoJob /\ job[r].at = "none"
    BY DEF JellyfinInit, NoJob
  <1>3. \A r \in Requests : Good(job[r], seen[r]) /\ job[r].at \notin Active
    BY <1>2 DEF Good, Active, Calls
  <1>4. Jobs
    BY <1>3 DEF JellyfinInit, Jobs
  <1>5. PICK f \in BOOLEAN : f = FALSE
    OBVIOUS
  <1>6. cache = [user |-> "", fresh |-> f, items |-> <<>>]
    BY <1>5 DEF JellyfinInit, NoCache
  <1>7. Kept
    BY <1>5, <1>6 DEF Kept
  <1> QED BY <1>1, <1>4, <1>7 DEF SearchInv
-----------------------------------------------------------------------------
(* The replies to a body of POST /mcp. *)

Messages == UNION {ToSet(body) : body \in Bodies}
Replies == [id : {m.id : m \in Messages}, says : {"result", "tool_error", "not_found"}]

(* One reply for each request of asked, in their order, with their ids.    *)
Match(replies, asked) ==
    /\ Len(replies) = Len(asked)
    /\ \A k \in 1..Len(asked) : replies[k].id = asked[k].id

Among(batch, n) == PickedUpto(batch, RequestsOf(batch))[n]

(* A batch under way has replies to the requests before the next message.  *)
GoodBatch(h) ==
    \E at, batch, next, replies :
        /\ h = [at |-> at, batch |-> batch, next |-> next, replies |-> replies]
        /\ batch \in Bodies /\ next \in 1..Len(batch) + 1
        /\ at = "mcp_search" => next \in RequestsOf(batch)
        /\ replies \in Seq(Replies) /\ Match(replies, Among(batch, next - 1))

IsSaid(h) == \E status, text : h = Says(status, text)

GoodAnswer(h) ==
    \E batch, replies, status :
        /\ h = [at |-> "done", status |-> status, text |-> replies, batch |-> batch]
        /\ batch \in Bodies /\ replies \in Seq(Replies)
        /\ Match(replies, Picked(batch, RequestsOf(batch)))
        /\ status = IF replies = <<>> THEN 202 ELSE 200

GoodHttp(h) ==
    /\ h.at = "yt_browse" => IsSaid(h.pick)
    /\ h.at \in {"mcp", "mcp_search"} => GoodBatch(h)
    /\ h.at = "done" => IsSaid(h) \/ GoodAnswer(h)

HttpInv == DOMAIN http = Requests /\ \A r \in Requests : GoodHttp(http[r])

LEMMA BatchIs ==
  ASSUME NEW batch \in Bodies
  PROVE  /\ batch \in Seq(Messages)
         /\ RequestsOf(batch) \subseteq DOMAIN batch
         /\ Among(batch, 0) = <<>>
         /\ \A n \in 1..Len(batch) :
                Among(batch, n) = IF n \in RequestsOf(batch)
                                  THEN Append(Among(batch, n - 1), batch[n])
                                  ELSE Among(batch, n - 1)
         /\ \A n \in 0..Len(batch) : Among(batch, n) \in Seq(Messages)
         /\ Among(batch, Len(batch)) = Picked(batch, RequestsOf(batch))
  <1>1. batch \in Seq(Messages)
    <2>1. PICK T : T = ToSet(batch)
      OBVIOUS
    <2>2. batch \in Seq(T) /\ T \subseteq Messages
      BY <2>1, ServerAssumption DEF Messages
    <2> QED BY <2>2
  <1>2. PICK at : at = RequestsOf(batch)
    OBVIOUS
  <1>3. \A k \in DOMAIN batch : k \in at => batch[k] \in Messages
    BY <1>1
  <1>4. /\ PickedUpto(batch, at)[0] = <<>>
        /\ \A n \in 1..Len(batch) :
              PickedUpto(batch, at)[n] =
                  IF n \in at THEN Append(PickedUpto(batch, at)[n - 1], batch[n])
                  ELSE PickedUpto(batch, at)[n - 1]
        /\ \A n \in 0..Len(batch) : PickedUpto(batch, at)[n] \in Seq(Messages)
    BY <1>1, <1>3, UptoHas
  <1>5. RequestsOf(batch) \subseteq DOMAIN batch
    BY DEF RequestsOf
  <1> QED BY <1>1, <1>2, <1>4, <1>5 DEF Among, Picked

LEMMA SaidIs ==
  ASSUME NEW h, IsSaid(h)
  PROVE  h.at = "done" /\ "batch" \notin DOMAIN h /\ GoodHttp(h)
  <1>1. PICK status, text : h = [at |-> "done", status |-> status, text |-> text]
    BY DEF IsSaid, Says
  <1>2. h.at = "done" /\ DOMAIN h = {"at", "status", "text"}
    BY <1>1
  <1> QED BY <1>2 DEF GoodHttp

LEMMA SaysIs ==
  ASSUME NEW status, NEW text
  PROVE  GoodHttp(Says(status, text))
  BY SaidIs DEF IsSaid

LEMMA ComesIs ==
  ASSUME HttpInv, SearchInv, NEW r \in Requests, NEW new, Comes(r, new), GoodHttp(new)
  PROVE  HttpInv' /\ SearchInv'
  <1>1. http' = [http EXCEPT ![r] = new] /\ UNCHANGED jellyfinVars
    BY DEF Comes
  <1>2. DOMAIN http' = Requests /\ \A q \in Requests : http'[q] = IF q = r THEN new ELSE http[q]
    BY <1>1 DEF HttpInv
  <1>3. HttpInv'
    BY <1>2 DEF HttpInv
  <1>4. UNCHANGED <<job, cache, lib, watched, recent, seen>>
    BY <1>1 DEF jellyfinVars, serverVars
  <1>5. World' /\ Jobs' /\ Kept'
    BY <1>4, KeptStays DEF SearchInv, World, StatesOf, Jobs
  <1> QED BY <1>3, <1>5 DEF SearchInv

LEMMA JoinIs ==
  ASSUME NEW T, NEW s \in Seq(T), NEW t \in Seq(T)
  PROVE  /\ s \o t \in Seq(T) /\ Len(s \o t) = Len(s) + Len(t)
         /\ \A i \in 1..Len(s) : (s \o t)[i] = s[i]
         /\ Len(t) = 1 => (s \o t)[Len(s) + 1] = t[1]
         /\ Len(t) = 0 => s \o t = s
  OBVIOUS

LEMMA AdvanceIs ==
  ASSUME NEW h, NEW batch \in Bodies, NEW next, NEW replies \in Seq(Replies), NEW at,
         h = [at |-> at, batch |-> batch, next |-> next, replies |-> replies],
         next \in 1..Len(batch), Match(replies, Among(batch, next - 1)),
         NEW more \in Seq(Replies), Len(more) = IF next \in RequestsOf(batch) THEN 1 ELSE 0,
         next \in RequestsOf(batch) => more[1].id = batch[next].id
  PROVE  GoodHttp(Advance(h, more))
  <1>1. PICK m : m = next + 1
    OBVIOUS
  <1>2. PICK all : all = replies \o more
    OBVIOUS
  <1>3. PICK k : k = [at |-> "mcp", batch |-> batch, next |-> m, replies |-> all]
    OBVIOUS
  <1>4. Advance(h, more) = k
    <2>1. PICK a : a = [at |-> "mcp", batch |-> batch, next |-> next, replies |-> replies]
      OBVIOUS
    <2>2. PICK b : b = [at |-> "mcp", batch |-> batch, next |-> m, replies |-> replies]
      OBVIOUS
    <2>3. [h EXCEPT !.at = "mcp"] = a
      BY <2>1
    <2>4. [a EXCEPT !.next = @ + 1] = b
      BY <1>1, <2>1, <2>2
    <2>5. [b EXCEPT !.replies = all] = k
      BY <1>3, <2>2
    <2>6. b.replies = replies
      BY <2>2
    <2>7. [b EXCEPT !.replies = @ \o more] = k
      BY <1>2, <2>5, <2>6
    <2>8. Advance(h, more) =
            [[[h EXCEPT !.at = "mcp"] EXCEPT !.next = @ + 1] EXCEPT !.replies = @ \o more]
      BY DEF Advance
    <2> QED BY <2>3, <2>4, <2>7, <2>8
  <1>5. Len(batch) \in Nat /\ m \in 1..Len(batch) + 1 /\ m - 1 = next
    <2>1. PICK l \in Nat : l = Len(batch)
      <3>1. batch \in Seq(Messages)
        BY BatchIs
      <3> QED BY <3>1
    <2> QED BY <1>1, <2>1
  <1>6. PICK old \in Seq(Messages) : old = Among(batch, next - 1)
    BY BatchIs, <1>5
  <1>7. /\ all \in Seq(Replies) /\ Len(all) = Len(replies) + Len(more)
        /\ \A i \in 1..Len(replies) : all[i] = replies[i]
        /\ Len(more) = 1 => all[Len(replies) + 1] = more[1]
        /\ Len(more) = 0 => all = replies
    BY <1>2, JoinIs
  <1>8. Match(all, Among(batch, next))
    <2>1. CASE next \in RequestsOf(batch)
      <3>1. Among(batch, next) = Append(old, batch[next])
        BY <1>6, <2>1, BatchIs
      <3>2. batch[next] \in Messages
        BY BatchIs
      <3>3. PICK e : e = batch[next]
        OBVIOUS
      <3>4. Len(replies) = Len(old) /\ \A i \in 1..Len(old) : replies[i].id = old[i].id
        BY <1>6 DEF Match
      <3>5. PICK n \in Nat : n = Len(old)
        OBVIOUS
      <3>6. Len(all) = n + 1 /\ Len(Append(old, e)) = n + 1
        BY <1>7, <2>1, <3>4, <3>5
      <3>7. \A i \in 1..n : all[i] = replies[i] /\ Append(old, e)[i] = old[i]
        BY <1>7, <3>4, <3>5
      <3>8. all[n + 1] = more[1] /\ Append(old, e)[n + 1] = e
        BY <1>7, <2>1, <3>4, <3>5
      <3>9. \A i \in 1..n + 1 : all[i].id = Append(old, e)[i].id
        BY <2>1, <3>3, <3>4, <3>5, <3>7, <3>8
      <3> QED BY <3>1, <3>3, <3>6, <3>9 DEF Match
    <2>2. CASE next \notin RequestsOf(batch)
      <3>1. Among(batch, next) = old
        BY <1>6, <2>2, BatchIs
      <3>2. all = replies
        BY <1>7, <2>2
      <3> QED BY <1>6, <3>1, <3>2
    <2> QED BY <2>1, <2>2
  <1>9. GoodBatch(k)
    <2>1. Match(all, Among(batch, m - 1))
      BY <1>5, <1>8
    <2>2. PICK a : a = "mcp"
      OBVIOUS
    <2>3. k = [at |-> a, batch |-> batch, next |-> m, replies |-> all] /\ a # "mcp_search"
      BY <1>3, <2>2
    <2> QED BY <1>5, <1>7, <2>1, <2>3 DEF GoodBatch
  <1>10. k.at = "mcp"
    BY <1>3
  <1> QED BY <1>4, <1>9, <1>10 DEF GoodHttp
(* Every step outside of the search. *)
LEMMA YtPicks ==
  ASSUME NEW s \in YtResults
  PROVE  IsSaid(s.pick)
  <1>1. \A items, genre : IsSaid(YtPick(items, genre))
    BY DEF YtPick, YtVideo, IsSaid
  <1>2. \E items, genre : s.pick = YtPick(items, genre)
    <2>1. PICK q \in YtQueries, answer \in YtAnswers : s = YtResult(q, answer)
      BY DEF YtResults
    <2>2. PICK items : items = parse_search(answer)
      OBVIOUS
    <2>3. PICK genre : genre = analyze(q).genre
      OBVIOUS
    <2>4. PICK channels : channels = matching_channel(analyze(q).words, items)
      OBVIOUS
    <2>5. PICK b \in BOOLEAN : b = (~genre /\ channels # <<>> /\ channels[1].uc)
      OBVIOUS
    <2>6. PICK pick : pick = YtPick(items, genre)
      OBVIOUS
    <2>7. s = [query |-> q, pick |-> pick, browse |-> b]
      BY <2>1, <2>2, <2>3, <2>4, <2>5, <2>6 DEF YtResult
    <2> QED BY <2>6, <2>7
  <1> QED BY <1>1, <1>2

LEMMA AnswersComes ==
  ASSUME HttpInv, NEW r \in Requests, Answers(r)
  PROVE  \E new : Comes(r, new) /\ GoodHttp(new)
  <1>1. PICK h : h = http[r]
    OBVIOUS
  <1>2. GoodHttp(h)
    BY <1>1 DEF HttpInv
  <1>3. ASSUME NEW at, at \notin {"yt_browse", "mcp", "mcp_search", "done"}, NEW new, new.at = at
        PROVE  GoodHttp(new)
    BY <1>3 DEF GoodHttp
  <1>4. CASE Refused(r)
    <2>1. PICK status : Comes(r, Says(status, <<>>))
      BY <1>4, Zenon DEF Refused
    <2> QED BY <2>1, SaysIs
  <1>5. CASE NotReady(r)
    BY <1>5, SaysIs DEF NotReady
  <1>6. CASE WebAsk(r)
    <2>1. PICK q, new : new = [at |-> "web", asked |-> q] /\ Comes(r, new)
      BY <1>6, Zenon DEF WebAsk, Starts
    <2>2. new.at = "web"
      BY <2>1
    <2>3. GoodHttp(new)
      BY <1>3, <2>2
    <2> QED BY <2>1, <2>3
  <1>7. CASE WebAnswer(r)
    <2>1. PICK status, text : Comes(r, Says(status, text))
      BY <1>7, Zenon DEF WebAnswer
    <2> QED BY <2>1, SaysIs
  <1>8. CASE MediaAsk(r)
    <2>1. PICK new : new = [at |-> "rank"] /\ Comes(r, new)
      BY <1>8, Zenon DEF MediaAsk, Starts
    <2>2. new.at = "rank"
      BY <2>1
    <2>3. GoodHttp(new)
      BY <1>3, <2>2
    <2> QED BY <2>1, <2>3
  <1>9. CASE MediaAnswer(r)
    <2>1. \/ Comes(r, [at |-> "semantic"])
          \/ \E status, text : Comes(r, Says(status, text))
      BY <1>9, Zenon DEF MediaAnswer
    <2>2. GoodHttp([at |-> "semantic"])
      BY <1>3
    <2> QED BY <2>1, <2>2, SaysIs
  <1>10. CASE YtAsk(r)
    <2>1. PICK q, new : /\ Comes(r, new)
                        /\ new = Says(404, <<>>) \/ new = [at |-> "yt_search", query |-> q]
      BY <1>10, Zenon DEF YtAsk, Starts
    <2>2. CASE new = Says(404, <<>>)
      BY <2>1, <2>2, SaysIs
    <2>3. CASE new = [at |-> "yt_search", query |-> q]
      <3>1. new.at = "yt_search"
        BY <2>3
      <3>2. GoodHttp(new)
        BY <1>3, <3>1
      <3> QED BY <2>1, <3>2
    <2> QED BY <2>1, <2>2, <2>3
  <1>11. CASE YtSearched(r)
    <2>1. PICK s \in YtResults : \/ Comes(r, [at |-> "yt_browse", pick |-> s.pick])
                                 \/ Comes(r, s.pick)
      BY <1>11, Zenon DEF YtSearched
    <2>2. IsSaid(s.pick) /\ GoodHttp(s.pick)
      BY YtPicks, SaidIs
    <2>3. PICK p : p = s.pick
      OBVIOUS
    <2>4. GoodHttp([at |-> "yt_browse", pick |-> p])
      BY <2>2, <2>3 DEF GoodHttp
    <2> QED BY <2>1, <2>2, <2>3, <2>4
  <1>12. CASE YtBrowsed(r)
    <2>1. h.at = "yt_browse" /\ (Comes(r, h.pick) \/ \E kind, v : Comes(r, YtVideo(kind, v)))
      BY <1>1, <1>12, Zenon DEF YtBrowsed
    <2>2. GoodHttp(h.pick)
      BY <1>2, <2>1, SaidIs DEF GoodHttp
    <2> QED BY <2>1, <2>2, SaysIs DEF YtVideo
  <1>13. CASE YtFails(r)
    <2>1. \/ Comes(r, Says(502, <<>>))
          \/ h.at = "yt_browse" /\ Comes(r, h.pick)
      BY <1>1, <1>13 DEF YtFails, Waiting
    <2>2. h.at = "yt_browse" => GoodHttp(h.pick)
      BY <1>2, SaidIs DEF GoodHttp
    <2> QED BY <2>1, <2>2, SaysIs
  <1>14. CASE McpAsk(r)
    <2>1. CASE Comes(r, Says(400, <<>>))
      BY <2>1, SaysIs
    <2>2. CASE \E body \in Bodies :
                 Comes(r, [at |-> "mcp", batch |-> body, next |-> 1, replies |-> <<>>])
      <3>1. PICK body \in Bodies :
                 Comes(r, [at |-> "mcp", batch |-> body, next |-> 1, replies |-> <<>>])
        BY <2>2
      <3>2. PICK replies : replies = <<>>
        OBVIOUS
      <3>3. PICK next \in Nat : next = 1
        OBVIOUS
      <3>4. PICK new : new = [at |-> "mcp", batch |-> body, next |-> next, replies |-> replies]
        OBVIOUS
      <3>5. replies \in Seq(Replies) /\ Match(replies, Among(body, next - 1))
        BY <3>2, <3>3, BatchIs DEF Match
      <3>6. next \in 1..Len(body) + 1
        <4>1. body \in Seq(Messages)
          BY BatchIs
        <4>2. Len(body) \in Nat
          BY <4>1
        <4> QED BY <3>3, <4>2
      <3>7. GoodBatch(new)
        <4>1. PICK a : a = "mcp"
          OBVIOUS
        <4>2. /\ a # "mcp_search"
              /\ new = [at |-> a, batch |-> body, next |-> next, replies |-> replies]
          BY <3>4, <4>1
        <4> QED BY <3>5, <3>6, <4>2 DEF GoodBatch
      <3>8. GoodHttp(new)
        BY <3>4, <3>7 DEF GoodHttp
      <3>9. Comes(r, new)
        BY <3>1, <3>2, <3>3, <3>4
      <3> QED BY <3>8, <3>9
    <2> QED BY <1>14, <2>1, <2>2 DEF McpAsk
  <1>15. CASE McpOther(r)
    BY <1>15, SaysIs DEF McpOther
  <1>16. CASE McpHandle(r) \/ McpSearched(r)
    <2>1. GoodBatch(h)
      BY <1>1, <1>2, <1>16 DEF GoodHttp, McpHandle, McpSearched
    <2>2. PICK at, batch, next, replies :
            /\ h = [at |-> at, batch |-> batch, next |-> next, replies |-> replies]
            /\ batch \in Bodies /\ next \in 1..Len(batch) + 1
            /\ at = "mcp_search" => next \in RequestsOf(batch)
            /\ replies \in Seq(Replies) /\ Match(replies, Among(batch, next - 1))
      BY <2>1 DEF GoodBatch
    <2>3. h.at = at /\ h.batch = batch /\ h.next = next
      BY <2>2
    <2>4. batch \in Seq(Messages) /\ RequestsOf(batch) \subseteq DOMAIN batch
      BY <2>2, BatchIs
    <2>5. PICK m : m = batch[next]
      OBVIOUS
    <2>6. ASSUME next \in DOMAIN batch,
                 NEW more \in Seq(Replies), Len(more) = IF next \in RequestsOf(batch) THEN 1 ELSE 0,
                 next \in RequestsOf(batch) => more[1].id = m.id
          PROVE  GoodHttp(Advance(h, more))
      <3>1. next \in 1..Len(batch)
        BY <2>4, <2>6
      <3>2. next \in RequestsOf(batch) => more[1].id = batch[next].id
        BY <2>5, <2>6
      <3> QED BY <2>2, <2>6, <3>1, <3>2, AdvanceIs
    <2>7. ASSUME next \in DOMAIN batch, NEW e, e \in {"result", "tool_error", "not_found"},
                 next \in RequestsOf(batch)
          PROVE  GoodHttp(Advance(h, <<[id |-> m.id, says |-> e]>>))
      <3>1. m \in Messages
        BY <2>4, <2>5, <2>7
      <3>2. PICK id \in {n.id : n \in Messages} : id = m.id
        BY <3>1
      <3>3. PICK reply : reply = [id |-> id, says |-> e]
        OBVIOUS
      <3>4. reply \in Replies /\ reply.id = m.id
        BY <2>7, <3>2, <3>3 DEF Replies
      <3>5. <<reply>> \in Seq(Replies)
        BY <3>4
      <3>6. PICK more \in Seq(Replies) : more = <<reply>>
        BY <3>5
      <3>7. Len(more) = 1 /\ more[1] = reply
        BY <3>6
      <3>8. GoodHttp(Advance(h, more))
        BY <2>6, <2>7, <3>4, <3>7
      <3> QED BY <3>2, <3>3, <3>6, <3>8
    <2>8. CASE McpHandle(r)
      <3>1. /\ at = "mcp" /\ next \in DOMAIN batch
            /\ Comes(r, IF IsSearch(m) THEN [h EXCEPT !.at = "mcp_search"]
                        ELSE Advance(h, IF IsRequest(m) THEN <<Reply(m)>> ELSE <<>>))
        BY <1>1, <2>3, <2>5, <2>8 DEF McpHandle
      <3>2. IsRequest(m) <=> next \in RequestsOf(batch)
        BY <2>5, <3>1 DEF RequestsOf
      <3>3. CASE IsSearch(m)
        <4>1. next \in RequestsOf(batch)
          BY <3>2, <3>3 DEF IsSearch
        <4>2. PICK k : k = [at |-> "mcp_search", batch |-> batch, next |-> next, replies |-> replies]
          OBVIOUS
        <4>3. [h EXCEPT !.at = "mcp_search"] = k
          BY <2>2, <4>2
        <4>4. GoodBatch(k)
          BY <2>2, <4>1, <4>2 DEF GoodBatch
        <4>5. GoodHttp(k)
          BY <4>2, <4>4 DEF GoodHttp
        <4>6. Comes(r, k)
          BY <3>1, <3>3, <4>3
        <4> QED BY <4>5, <4>6
      <3>4. CASE ~IsSearch(m) /\ IsRequest(m)
        <4>1. PICK e : /\ e = CASE m.method \in {"initialize", "ping", "tools/list"} -> "result"
                                [] m.method = "tools/call"                           -> "tool_error"
                                [] OTHER                                             -> "not_found"
          OBVIOUS
        <4>2. e \in {"result", "tool_error", "not_found"}
          BY <4>1
        <4>3. Reply(m) = [id |-> m.id, says |-> e]
          BY <4>1 DEF Reply
        <4>4. GoodHttp(Advance(h, <<[id |-> m.id, says |-> e]>>))
          BY <2>7, <3>1, <3>2, <3>4, <4>2
        <4>5. Comes(r, Advance(h, <<[id |-> m.id, says |-> e]>>))
          BY <3>1, <3>4, <4>3
        <4> QED BY <4>4, <4>5
      <3>5. CASE ~IsRequest(m)
        <4>1. ~IsSearch(m)
          BY <3>5 DEF IsSearch
        <4>2. PICK none \in Seq(Replies) : none = <<>> /\ Len(none) = 0
          <5>1. <<>> \in Seq(Replies)
            OBVIOUS
          <5> QED BY <5>1
        <4>3. next \notin RequestsOf(batch) /\ next \in DOMAIN batch
          BY <3>1, <3>2, <3>5
        <4>4. /\ Len(none) = IF next \in RequestsOf(batch) THEN 1 ELSE 0
              /\ next \in RequestsOf(batch) => none[1].id = m.id
          BY <4>2, <4>3
        <4>5. GoodHttp(Advance(h, none))
          BY <2>6, <4>3, <4>4
        <4>6. Comes(r, Advance(h, none))
          BY <3>1, <3>5, <4>1, <4>2
        <4> QED BY <4>5, <4>6
      <3> QED BY <3>3, <3>4, <3>5
    <2>9. CASE McpSearched(r)
      <3>1. /\ at = "mcp_search"
            /\ \E says \in {"result", "tool_error"} :
                  Comes(r, Advance(h, <<[id |-> m.id, says |-> says]>>))
        BY <1>1, <2>3, <2>5, <2>9 DEF McpSearched
      <3>2. PICK says \in {"result", "tool_error"} :
                  Comes(r, Advance(h, <<[id |-> m.id, says |-> says]>>))
        BY <3>1
      <3>3. next \in RequestsOf(batch) /\ next \in DOMAIN batch
        BY <2>2, <2>4, <3>1
      <3>4. GoodHttp(Advance(h, <<[id |-> m.id, says |-> says]>>))
        BY <2>7, <3>3
      <3> QED BY <3>2, <3>4
    <2> QED BY <1>16, <2>8, <2>9
  <1>17. CASE McpDone(r)
    <2>1. GoodBatch(h)
      BY <1>1, <1>2, <1>17 DEF GoodHttp, McpDone
    <2>2. PICK at, batch, next, replies :
            /\ h = [at |-> at, batch |-> batch, next |-> next, replies |-> replies]
            /\ batch \in Bodies /\ next \in 1..Len(batch) + 1
            /\ replies \in Seq(Replies) /\ Match(replies, Among(batch, next - 1))
      BY <2>1 DEF GoodBatch
    <2>3. h.batch = batch /\ h.next = next /\ h.replies = replies
      BY <2>2
    <2>4. PICK l \in Nat : l = Len(batch)
      <3>1. batch \in Seq(Messages)
        BY <2>2, BatchIs
      <3> QED BY <3>1
    <2>5. next > l
      BY <1>1, <1>17, <2>3, <2>4 DEF McpDone
    <2>6. next - 1 = l
      BY <2>2, <2>4, <2>5
    <2>7. Match(replies, Picked(batch, RequestsOf(batch)))
      BY <2>2, <2>4, <2>6, BatchIs
    <2>8. PICK status : status = IF replies = <<>> THEN 202 ELSE 200
      OBVIOUS
    <2>9. PICK new : new = [at |-> "done", status |-> status, text |-> replies, batch |-> batch]
      OBVIOUS
    <2>10. Comes(r, new)
      BY <1>1, <1>17, <2>3, <2>8, <2>9 DEF McpDone
    <2>11. GoodAnswer(new)
      BY <2>2, <2>7, <2>8, <2>9 DEF GoodAnswer
    <2>12. GoodHttp(new)
      BY <2>9, <2>11 DEF GoodHttp
    <2> QED BY <2>10, <2>12
  <1>18. CASE ClientGone(r)
    <2>1. Comes(r, [at |-> "gone"])
      BY <1>18 DEF ClientGone
    <2>2. GoodHttp([at |-> "gone"])
      BY <1>3
    <2> QED BY <2>1, <2>2
  <1> QED BY <1>4, <1>5, <1>6, <1>7, <1>8, <1>9, <1>10, <1>11, <1>12, <1>13, <1>14, <1>15, <1>16,
             <1>17, <1>18 DEF Answers

-----------------------------------------------------------------------------
(* The theorems. *)

Inv == SearchInv /\ HttpInv

LEMMA Init ==
  ASSUME ServerInit
  PROVE  Inv
  <1>1. \A r \in Requests : http[r].at = "none"
    BY DEF ServerInit
  <1>2. HttpInv
    BY <1>1 DEF ServerInit, HttpInv, GoodHttp
  <1> QED BY <1>2, SearchInit DEF ServerInit, Inv

LEMMA Step ==
  ASSUME Inv, [ServerNext]_allVars
  PROVE  Inv'
  <1>1. ASSUME NEW r \in Requests, Answers(r) PROVE Inv'
    <2>1. PICK new : Comes(r, new) /\ GoodHttp(new)
      BY <1>1, AnswersComes DEF Inv
    <2> QED BY <2>1, ComesIs DEF Inv
  <1>2. ASSUME NEW r \in Requests, JellyfinAsk(r) PROVE Inv'
    <2>1. PICK ask \in Asks : Ask(r, ask)
      BY <1>2 DEF JellyfinAsk
    <2>2. SearchInv'
      BY <2>1, AskKeeps DEF Inv
    <2>3. PICK new : new = [at |-> "jellyfin"]
      OBVIOUS
    <2>4. new.at = "jellyfin"
      BY <2>3
    <2>5. GoodHttp(new)
      BY <2>4 DEF GoodHttp
    <2>6. http' = [http EXCEPT ![r] = new]
      BY <1>2, <2>3 DEF JellyfinAsk
    <2>7. HttpInv'
      BY <2>5, <2>6 DEF Inv, HttpInv
    <2> QED BY <2>2, <2>7 DEF Inv
  <1>3. ASSUME UNCHANGED httpVars PROVE HttpInv'
    BY <1>3 DEF Inv, httpVars, HttpInv
  <1>4. ASSUME NEW r \in Requests, SearchStep(r), UNCHANGED httpVars PROVE Inv'
    BY <1>3, <1>4, SearchKeeps DEF Inv
  <1>5. ASSUME Environment, UNCHANGED httpVars PROVE Inv'
    BY <1>3, <1>5, EnvironmentKeeps DEF Inv
  <1>6. CASE UNCHANGED allVars
    <2>1. UNCHANGED <<job, cache, lib, watched, recent, seen, httpVars>>
      BY <1>6 DEF allVars, jellyfinVars, serverVars
    <2>2. World' /\ Jobs' /\ Kept'
      BY <2>1, KeptStays DEF Inv, SearchInv, World, StatesOf, Jobs
    <2> QED BY <1>3, <2>1, <2>2 DEF Inv, SearchInv
  <1> QED BY <1>1, <1>2, <1>4, <1>5, <1>6 DEF ServerNext

LEMMA Holds == ServerSpec => []Inv
  <1> QED BY Init, Step, PTL DEF ServerSpec

(* A pick shows how far its own user is, never another one, and no older   *)
(* than the list of titles may be: the list that is kept for 10 min is used*)
(* for the user that it was fetched for only.                              *)
THEOREM PickOfOwnState == ServerSpec => []OwnState
  <1>1. Inv => OwnState
    <2>1. ASSUME Inv, NEW r \in Requests, HasPick(r) PROVE GoodPick(job[r], seen[r])
      BY <2>1 DEF Inv, SearchInv, Jobs, Good, HasPick
    <2> QED BY <2>1 DEF OwnState, GoodPick
  <1> QED BY <1>1, Holds, PTL

(* The number that split_episode takes from a clear query is the one that  *)
(* was said.                                                               *)
LEMMA SplitSays ==
  ASSUME NEW a \in Asks, Clear(a)
  PROVE  /\ \A n \in Said(a, Season) : Split(a).season = n /\ n # NoNumber
         /\ \A n \in Said(a, Episode) : Split(a).episode = n /\ n # NoNumber
  <1> DEFINE
    lower == words(FlattenSeq(Asked[a].query))
    At_(key) == {i \in DOMAIN lower : lower[i] = key /\ \A j \in DOMAIN lower : j < i => lower[j] # key}
    Named(key) == {i \in At_(key) : i + 1 \in DOMAIN lower /\ lower[i + 1] \in DOMAIN Number}
    After(key) ==
        IF Named(key) = {} THEN NoNumber ELSE Number[lower[(CHOOSE i \in Named(key) : TRUE) + 1]]
    cut == Min({i - 1 : i \in Named(Season) \cup Named(Episode)} \cup {Len(Asked[a].query)})
  <1>1. ASSUME NEW key, Once(a, key), NEW n \in Said(a, key)
        PROVE  After(key) = n /\ n # NoNumber
    <2>1. PICK said : said = lower
      OBVIOUS
    <2>2. DOMAIN said \subseteq Nat
      BY <2>1, JellyfinAssumption DEF words
    <2>3. PICK i \in DOMAIN said :
              /\ said[i] = key /\ i + 1 \in DOMAIN said
              /\ said[i + 1] \in DOMAIN Number /\ n = Number[said[i + 1]]
      BY <1>1, <2>1 DEF Said, Spoken
    <2>4. \A j \in DOMAIN said : said[j] = key => j = i
      BY <1>1, <2>1, <2>3 DEF Once, Spoken
    <2>5. i \in Named(key)
      <3>1. \A j \in DOMAIN said : j < i => said[j] # key
        BY <2>2, <2>3, <2>4
      <3> QED BY <2>1, <2>3, <3>1
    <2>6. \A k \in Named(key) : k = i
      BY <2>1, <2>4
    <2>7. (CHOOSE j \in Named(key) : TRUE) = i /\ Named(key) # {}
      <3> HIDE DEF Named
      <3> QED BY <2>5, <2>6
    <2>8. After(key) = Number[said[i + 1]]
      <3> HIDE DEF Named
      <3> QED BY <2>1, <2>7
    <2> QED BY <2>3, <2>8, JellyfinAssumption
  <1>2. split_episode(Asked[a].query) =
            [words |-> FlattenSeq(SubSeq(Asked[a].query, 1, cut)),
             season |-> After(Season), episode |-> After(Episode)]
    <2>1. ~(Len(lower) # Len(Asked[a].query))
      BY DEF Clear, Spoken
    <2> QED BY <2>1, Zenon DEF split_episode
  <1>3. split_episode(Asked[a].query).season = After(Season) /\ split_episode(Asked[a].query).episode = After(Episode)
    <2> HIDE DEF After, cut
    <2> QED BY <1>2
  <1>4. Split(a) = split_episode(Asked[a].query)
    <2>1. PICK q : q = split_episode(Asked[a].query)
      OBVIOUS
    <2>2. \A s \in Splits : s.ask = a => s.split = q
      BY <2>1 DEF Splits
    <2>3. PICK s : s = [ask |-> a, split |-> q]
      OBVIOUS
    <2>4. s \in Splits /\ s.ask = a
      BY <2>1, <2>3 DEF Splits
    <2> QED BY <2>1, <2>2, <2>4 DEF Split
  <1> HIDE DEF After
  <1> QED BY <1>1, <1>3, <1>4 DEF Clear

(* Who clearly says a season or an episode of a series gets no other one,  *)
(* by whatever stage the search has found the series.  Not so when the     *)
(* media index itself finds an episode of a series that is not in the list.*)
THEOREM PickOfAskedEpisode == ServerSpec => []AskedEpisode
  <1>1. Inv => AskedEpisode
    <2>1. ASSUME Inv, NEW r \in Requests, HasPick(r) PROVE GoodPick(job[r], seen[r])
      BY <2>1 DEF Inv, SearchInv, Jobs, Good, HasPick
    <2> QED BY <2>1, SplitSays DEF AskedEpisode, GoodPick
  <1> QED BY <1>1, Holds, PTL

(* A body of POST /mcp gets one reply for each of its requests, in their   *)
(* order and with their ids, however its searches end.                     *)
THEOREM RepliesToEach == ServerSpec => []RepliesMatch
  <1>1. ASSUME Inv, NEW r \in Requests, "batch" \in DOMAIN http[r], http[r].at = "done"
        PROVE  LET asked == Picked(http[r].batch, RequestsOf(http[r].batch))
               IN  /\ [k \in DOMAIN http[r].text |-> http[r].text[k].id]
                        = [k \in DOMAIN asked |-> asked[k].id]
                   /\ (http[r].status = 202) = (asked = <<>>)
    <2>1. GoodAnswer(http[r])
      BY <1>1, SaidIs DEF Inv, HttpInv, GoodHttp
    <2>2. PICK batch, replies, status :
            /\ http[r] = [at |-> "done", status |-> status, text |-> replies, batch |-> batch]
            /\ batch \in Bodies /\ replies \in Seq(Replies)
            /\ Match(replies, Picked(batch, RequestsOf(batch)))
            /\ status = IF replies = <<>> THEN 202 ELSE 200
      BY <2>1 DEF GoodAnswer
    <2>3. http[r].status = status /\ http[r].text = replies /\ http[r].batch = batch
      BY <2>2
    <2>4. PICK asked \in Seq(Messages) : asked = Picked(batch, RequestsOf(batch))
      <3>1. batch \in Seq(Messages)
        BY <2>2, BatchIs
      <3>2. Len(batch) \in 0..Len(batch)
        BY <3>1
      <3>3. Among(batch, Len(batch)) \in Seq(Messages)
        BY <2>2, <3>2, BatchIs
      <3> QED BY <2>2, <3>3, BatchIs
    <2>5. Len(replies) = Len(asked) /\ \A k \in 1..Len(asked) : replies[k].id = asked[k].id
      BY <2>2, <2>4 DEF Match
    <2>6. DOMAIN replies = 1..Len(asked) /\ DOMAIN asked = 1..Len(asked)
      BY <2>2, <2>4, <2>5
    <2>7. [k \in DOMAIN replies |-> replies[k].id] = [k \in DOMAIN asked |-> asked[k].id]
      BY <2>5, <2>6
    <2>8. replies = <<>> <=> asked = <<>>
      BY <2>2, <2>4, <2>5
    <2>9. (status = 202) = (asked = <<>>)
      BY <2>2, <2>8
    <2> QED BY <2>3, <2>4, <2>7, <2>9
  <1>2. Inv => RepliesMatch
    BY <1>1 DEF RepliesMatch
  <1> QED BY <1>2, Holds, PTL
=============================================================================
