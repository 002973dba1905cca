--------------------------------- MODULE YouTube ---------------------------------
(***************************************************************************)
(* What YouTube's answers come to and which video is picked                *)
(* (src/src/youtube.rs).  An answer is a sequence of entries in one of     *)
(* YouTube's layouts; a duration is a sequence of numbers as it is shown,  *)
(* with NaN for what is no number.                                         *)
(***************************************************************************)
EXTENDS Text

CONSTANTS
    U32Max,        \* the largest duration in seconds that the code can hold
    Some, Genre,   \* words: "some" and "any"; "music", "mix", "radio", ...
    The            \* the letters of "the"

LONG_MIX_SECS == 20 * 60
SHORT_SECS == 60
NaN == -1
NoDuration == -1

(* "1:02:03" in seconds, with checked arithmetic. *)
parse_duration(parts) ==
    LET Total[n \in 0..Len(parts)] ==
            IF n = 0 THEN 0
            ELSE LET before == Total[n - 1]
                 IN  IF \/ before = NoDuration \/ parts[n] = NaN
                        \/ before * 60 + parts[n] > U32Max
                     THEN NoDuration ELSE before * 60 + parts[n]
    IN  IF parts = <<>> THEN NoDuration ELSE Total[Len(parts)]

Short(duration) == duration # NoDuration /\ duration <= SHORT_SECS

video_renderer(v) ==
    LET duration == parse_duration(v.length)
    IN  [id |-> v.id, channel |-> v.owner, duration |-> duration, live |-> v.live,
         upcoming |-> v.upcoming, short |-> v.reel \/ Short(duration)]

(* The newer layout: badges carry the duration or a word. *)
lockup(v) ==
    LET lengths == {parse_duration(v.badges[k].length) : k \in DOMAIN v.badges} \ {NoDuration}
        first == {k \in DOMAIN v.badges :
                    /\ parse_duration(v.badges[k].length) \in lengths
                    /\ \A j \in 1..k - 1 : parse_duration(v.badges[j].length) = NoDuration}
        duration == IF first = {} THEN NoDuration
                    ELSE parse_duration(v.badges[CHOOSE k \in first : TRUE].length)
        Badge(word) == \E k \in DOMAIN v.badges : v.badges[k].text = word
    IN  [id |-> v.id, channel |-> v.owner, duration |-> duration, live |-> Badge("LIVE"),
         upcoming |-> Badge("UPCOMING") \/ Badge("PREMIERE") \/ v.scheduled,
         short |-> Short(duration)]

Videos(entry) ==
    CASE entry.layout \in {"videoRenderer", "playlistVideoRenderer"} -> <<video_renderer(entry)>>
      [] entry.layout = "lockupViewModel" /\ entry.isVideo           -> <<lockup(entry)>>
      [] OTHER                                                       -> <<>>

(* Channels and videos in YouTube's order; shelves are skipped. *)
parse_search(answer) ==
    FlattenSeq([k \in DOMAIN answer |->
        IF answer[k].layout = "channelRenderer" THEN <<answer[k]>>
        ELSE IF answer[k].layout = "playlistVideoRenderer" THEN <<>> ELSE Videos(answer[k])])

parse_uploads(answer) ==
    FlattenSeq([k \in DOMAIN answer |->
        IF answer[k].layout = "videoRenderer" THEN <<>> ELSE Videos(answer[k])])

-----------------------------------------------------------------------------
(* All letters of short occur in long, in order. *)
is_subsequence(short, long) ==
    LET Later(m, letter) == {k \in DOMAIN long : k > m /\ long[k] = letter}
        Ends[n \in 0..Len(short)] ==   \* where n letters of short end in long
            IF n = 0 THEN {0}
            ELSE {Min(Later(m, short[n])) : m \in {e \in Ends[n - 1] : Later(e, short[n]) # {}}}
    IN  Ends[Len(short)] # {}

name_matches(query, name) ==
    /\ query # <<>> /\ name # <<>>
    /\ \/ query = name
       \/ /\ query[1] = name[1]
          /\ is_subsequence(query, name)
          /\ 10 * Len(query) >= 7 * Len(name)

(* The words to search for, and whether a genre or mood is asked for. *)
analyze(query) ==
    IF Len(query) > 1 /\ query[1] \in Some THEN [words |-> Tail(query), genre |-> TRUE]
    ELSE [words |-> query, genre |-> Len(query) > 1 /\ Last(query) \in Genre]

(* The channels that the query may name; the first one counts. *)
matching_channel(text, items) ==
    LET q == squashed(text)
        short == IF IsPrefix(The, q) THEN SubSeq(q, Len(The) + 1, Len(q)) ELSE q
    IN  SelectSeq(items, LAMBDA i :
            /\ "handle" \in DOMAIN i
            /\ \E n \in {squashed(i.title), squashed(i.handle)} :
                  name_matches(q, n) \/ name_matches(short, n))

playable(v) == "short" \in DOMAIN v /\ ~v.short /\ ~v.upcoming

(* The video for a genre, else the first playable one; at most one. *)
pick_from_search(items, genre) ==
    LET videos == SelectSeq(items, playable)
        long == SelectSeq(videos, LAMBDA v : v.live \/ v.duration >= LONG_MIX_SECS)
        found == IF genre /\ long # <<>> THEN long ELSE videos
    IN  IF found = <<>> THEN <<>>
        ELSE <<[video |-> found[1],
                kind |-> CASE found[1].live         -> "live"
                           [] ~found[1].live /\ genre /\ long # <<>> -> "mix"
                           [] OTHER                 -> "video"]>>

newest(answer) == SelectSeq(parse_uploads(answer), LAMBDA v : playable(v) /\ ~v.live)
=============================================================================
