------------------------------- MODULE MCServer ------------------------------
(* A small library, and a few queries, answers and messages for TLC. *)
EXTENDS Server

spy == <<"s", "p", "y">>
x == <<"x">>
family == <<"f", "a", "m", "i", "l", "y">>
dune == <<"d", "u", "n", "e">>
part == <<"p", "a", "r", "t">>
frieren == <<"f", "r", "ie", "r", "e", "n">>
freeran == <<"f", "r", "ee", "r", "a", "n">>
beyond == <<"b", "e", "y", "o", "n", "d">>
by == <<"b", "y">>
where == <<"w", "h", "e", "r", "e">>
dog == <<"d", "o", "g">>
season == <<"season">>
episode == <<"episode">>
one == <<"one">>
two == <<"two">>
d1 == <<"1">>
d2 == <<"2">>

McVowels == {"a", "e", "i", "o", "u", "y", "ie", "ee"}
McNumberWords == [w \in {one, two} |-> IF w = one THEN d1 ELSE d2]
McFiller == {x, by}
McDescriptive == {where}
McNumber == [w \in {d1, d2} |-> IF w = d1 THEN 1 ELSE 2]

Entry(id, kind, main, rest, year, series, s, n) ==
    [id |-> id, kind |-> kind, main |-> main, rest |-> rest, year |-> year, series |-> series,
     season |-> s, number |-> n, played |-> FALSE, resume |-> 0]

McCatalog ==
    [spy     |-> Entry("spy", "Series", <<spy, x, family>>, <<>>, 2022, "", 0, 0),
     s1e1    |-> Entry("s1e1", "Episode", <<spy, x, family>>, <<dog>>, 2022, "spy", 1, 1),
     s2e1    |-> Entry("s2e1", "Episode", <<spy, x, family>>, <<beyond>>, 2023, "spy", 2, 1),
     dune    |-> Entry("dune", "Movie", <<dune>>, <<>>, 2021, "", 0, 0),
     dune2   |-> Entry("dune2", "Movie", <<dune>>, <<part, two>>, 2024, "", 0, 0),
     frieren |-> Entry("frieren", "Series", <<frieren>>, <<beyond>>, 2023, "", 0, 0),
     f1e1    |-> Entry("f1e1", "Episode", <<frieren>>, <<dog>>, 2023, "frieren", 1, 1)]

McOrder == <<"dune2", "dune", "s1e1", "s2e1", "spy", "f1e1", "frieren">>

AskOf(query, user, devices) == [query |-> query, user |-> user, devices |-> devices]
Chunks(ws) == [k \in DOMAIN ws |-> <<ws[k]>>]

McAsked ==
    [film     |-> AskOf(Chunks(<<part, two, dune>>), "anna", {}),
     tv       |-> AskOf(Chunks(<<dune>>), "", {"tv"}),
     season   |-> AskOf(Chunks(<<spy, by, family, season, two>>), "anna", {}),
     hyphen   |-> AskOf(<<<<spy, x>>, <<family>>, <<season>>, <<two>>>>, "ben", {}),
     misheard |-> AskOf(Chunks(<<freeran, episode, two>>), "", {}),
     scene    |-> AskOf(<<<<where, dog>>, <<spy>>>>, "ben", {})]

McSessions == {<<[device |-> "tv", user |-> "anna", playing |-> FALSE],
                 [device |-> "tv", user |-> "ben", playing |-> TRUE]>>}

jazz == <<"j", "a", "z", "z">>
some == <<"s", "o", "m", "e">>
level == <<"l", "e", "v", "e", "l">>
lvl == <<"l", "v", "l">>
techs == <<"t", "e", "c", "h", "s">>
the == <<"t", "h", "e">>
McSome == {some}
McGenre == {jazz}

Rank(id, points) == [id |-> id, score |-> points]
McRankings ==
    {<<Rank("s2e1", 700), Rank("s1e1", 640), Rank("frieren", 630), Rank("dune", 300), Rank("f1e1", 200)>>,
     <<Rank("spy", 640), Rank("dune", 635), Rank("s1e1", 630), Rank("frieren", 620)>>}

McRoutesOf == [r1 |-> Routes \ {"/mcp"}, r2 |-> Routes]
McConfigured == {{}, {"/jellyfin/search", "/media/search"}, {"/web/search", "/youtube/search"}}
McIntentWords == {where}

McWebQueries == {[recent |-> TRUE, years |-> {2024}]}
McWebResults == {[answers |-> <<>>, infobox |-> <<>>, results |-> <<<<3, 9, 9>>>>]}

McYtQueries == {<<lvl, one, techs>>, <<some, jazz>>}

Video(id, length, live) ==
    [layout |-> "videoRenderer", id |-> id, owner |-> "x", length |-> length, live |-> live,
     upcoming |-> FALSE, reel |-> FALSE]
Lockup(id, badges, scheduled) ==
    [layout |-> "lockupViewModel", isVideo |-> TRUE, id |-> id, owner |-> "x",
     badges |-> badges, scheduled |-> scheduled]
Badge(text, length) == [text |-> text, length |-> length]

McYtAnswers ==
    {<<[layout |-> "channelRenderer", title |-> <<level, one, techs>>, handle |-> <<>>, uc |-> TRUE],
       Video("short", <<0, 59>>, FALSE), Video("v1", <<1, 1>>, FALSE), Video("mix", <<20, 0>>, FALSE)>>,
     <<[layout |-> "shelf"], Lockup("v2", <<Badge("LIVE", <<NaN>>)>>, FALSE)>>}

McYtUploads ==
    {<<Lockup("u1", <<Badge("", <<4, 0>>)>>, TRUE), Lockup("u2", <<Badge("", <<4, 0>>)>>, FALSE)>>}

Message(method, id, tool, query) == [method |-> method, id |-> id, tool |-> tool, query |-> query]

McBodies ==
    {<<Message("tools/call", "1", "web_search", "q"), Message("notifications/initialized", Null, "", Null),
       Message("tools/call", "2", "web_search", "q"), Message("tools/call", "3", "web_search", Null)>>,
     <<Message("initialize", "1", "", Null)>>,
     <<Message("nope", "1", "", Null), Message(Null, "2", "", Null), Message("tools/call", "3", "other", "q")>>,
     <<Message("notifications/initialized", Null, "", Null)>>}
=============================================================================
