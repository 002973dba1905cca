----------------------------- MODULE JellyfinMatch -----------------------------
(***************************************************************************)
(* How a spoken query is matched with titles (src/src/jellyfin.rs) and how *)
(* the media index accepts its best work (gate in src/src/media/mod.rs).   *)
(* A title is its part before a colon and the rest.  A query is a sequence *)
(* of chunks between blanks, each of one or more words ("Spider-Man").     *)
(***************************************************************************)
EXTENDS Text

CONSTANTS
    FILLER,       \* words that people say between the words of a title
    Season, Episode,   \* the words "season" and "episode"
    Number,       \* function from digits, as words, to numbers
    NoNumber,     \* no season or episode is named
    MIN_SCORE, MIN_MARGIN,    \* of the gate, in thousandths
    MARGIN_FROM, MARGIN_TO,   \* places of the ranking that a match must stand out of
    IntentWords   \* words that ask for an episode by what happens in it

Name(item) == item.main \o item.rest

(* Keys of min_by_key: the smaller key wins, and the first of equal ones. *)
Before(a, b) ==
    \E n \in DOMAIN a : a[n] < b[n] /\ \A k \in 1..n - 1 : a[k] = b[k]

First(seq, key) ==
    seq[CHOOSE i \in DOMAIN seq : \A j \in DOMAIN seq \ {i} :
            Before(key[seq[i]], key[seq[j]]) \/ (i < j /\ ~Before(key[seq[j]], key[seq[i]]))]

Bit(b) == IF b THEN 1 ELSE 0

(* Series first, then what the user has not watched, then the oldest. *)
Preference(item) == <<Bit(item.kind # "Series"), Bit(item.played), item.year>>
Preferences(items) == [i \in items |-> Preference(i)]

NoScore == 3

Wanted(s) == SelectSeq(words(s), LAMBDA w : w \notin FILLER)

Covers(query, title) ==
    /\ ToSet(Wanted(query)) \subseteq ToSet(Wanted(title))
    /\ Len(Wanted(query)) * 2 > Len(Wanted(title))

(* 0: the whole title, 1: its main part, 2: all words of the query. *)
score(query, item) ==
    IF squashed(query) = <<>> THEN NoScore
    ELSE IF squashed(query) = squashed(Name(item)) THEN 0
    ELSE IF squashed(query) = squashed(item.main) THEN 1
    ELSE IF /\ Wanted(query) # <<>>
            /\ Covers(query, Name(item)) \/ Covers(query, item.main) THEN 2
    ELSE NoScore

Likeness(query, item) == Larger(similarity(query, Name(item)), similarity(query, item.main))

(* Titles with the same consonants, at least 3 of them. *)
SoundsLike(query, item) == Len(skeleton(query)) >= 3 /\ skeleton(item.main) = skeleton(query)

(* The three stages on the list, as sequences of at most one item.  How a  *)
(* query fits each item is a function of the items.                        *)
best_match(fit, library) ==
    LET found == SelectSeq(library, LAMBDA i : fit[i] < NoScore)
    IN  IF found = <<>> THEN <<>>
        ELSE <<First(found, [i \in ToSet(found) |-> <<fit[i]>> \o Preference(i)])>>

fuzzy_match(like, library) ==
    LET found == SelectSeq(library, LAMBDA i :
                     AtLeast(like[i], 5) /\ \A j \in ToSet(library) : ~Above(like[j], like[i]))
    IN  IF found = <<>> THEN <<>> ELSE <<First(found, Preferences(ToSet(found)))>>

sound_match(same, library) ==
    LET found == SelectSeq(library, LAMBDA i : same[i])
    IN  IF found = <<>> \/ \E i \in ToSet(found) : squashed(i.main) # squashed(found[1].main)
        THEN <<>> ELSE <<First(found, Preferences(ToSet(found)))>>

semantic_title_ok(query, item) ==
    \/ ~title_like(query)
    \/ AtLeast(Likeness(query, item), 2)
    \/ IsPrefix(skeleton(query), skeleton(item.main))

(* What Jellyfin's own search finds counts only with a close title. *)
CloseTitle(query, item) == AtLeast(Likeness(query, item), 5)

-----------------------------------------------------------------------------
(* "Spy x Family season 2 episode 3": the words before the numbers. *)
split_episode(query) ==
    LET lower == words(FlattenSeq(query))
        At(key) == {i \in DOMAIN lower :
            lower[i] = key /\ \A j \in DOMAIN lower : j < i => lower[j] # key}
        Named(key) == {i \in At(key) : i + 1 \in DOMAIN lower /\ lower[i + 1] \in DOMAIN Number}
        number_after(key) ==
            IF Named(key) = {} THEN NoNumber ELSE Number[lower[(CHOOSE i \in Named(key) : TRUE) + 1]]
        cut == Min({i - 1 : i \in Named(Season) \cup Named(Episode)} \cup {Len(query)})
    IN  IF Len(lower) # Len(query)
        THEN [words |-> FlattenSeq(query), season |-> NoNumber, episode |-> NoNumber]
        ELSE [words |-> FlattenSeq(SubSeq(query, 1, cut)),
              season |-> number_after(Season), episode |-> number_after(Episode)]

(* The user of a session on one of the devices.  The sessions come newest  *)
(* first; one that plays wins over an idle one.                            *)
session_user_of(sessions, devices) ==
    LET here == SelectSeq(sessions, LAMBDA s : s.device \in devices)
        playing == SelectSeq(here, LAMBDA s : s.playing)
    IN  IF here = <<>> THEN "" ELSE IF playing # <<>> THEN playing[1].user ELSE here[1].user

-----------------------------------------------------------------------------
episode_intent(query) == \E w \in ToSet(query) : w \in IntentWords

(* The gate.  hits is a ranking of [entry, score], entries the index.  An  *)
(* episode counts for its series unless the query asks for an episode.     *)
Work(entries, episodes, entry) ==
    IF entry.kind = "Episode" /\ ~episodes /\ \E s \in entries : s.id = entry.series
    THEN CHOOSE s \in entries : s.id = entry.series
    ELSE entry

Works(hits, entries, episodes) ==
    LET Add(list, hit) ==
            LET w == Work(entries, episodes, hit.entry)
            IN  IF Len(list) >= MARGIN_TO \/ \E k \in DOMAIN list : list[k].entry.id = w.id
                THEN list ELSE Append(list, [entry |-> w, score |-> hit.score])
    IN  FoldLeft(Add, <<>>, hits)

(* The margin is taken times the number of places, to stay with integers. *)
gate(hits, entries, episodes) ==
    LET works == Works(hits, entries, episodes)
        rest == [k \in 1..Max({0, Len(works) - MARGIN_FROM}) |-> works[k + MARGIN_FROM].score]
        sum == FoldLeft(LAMBDA a, b : a + b, 0, rest)
        n == Max({1, Len(rest)})
    IN  IF works = <<>> THEN <<>>
        ELSE <<[entry |-> works[1].entry,
                accepted |-> /\ works[1].score >= MIN_SCORE
                             /\ works[1].score * n - sum >= MIN_MARGIN * n]>>

(* The best work for a query, of a ranking of the whole index.  Episodes   *)
(* take part only if the query asks for one, and then only episodes.       *)
semantic(query, ranking) ==
    LET episodes == episode_intent(query)
        hits == SelectSeq(ranking, LAMBDA h : (h.entry.kind = "Episode") = episodes)
    IN  gate(hits, {h.entry : h \in ToSet(ranking)}, episodes)
=============================================================================
