-------------------------------- MODULE WebSearch --------------------------------
(***************************************************************************)
(* The text around a web search (src/src/search.rs).  A query is a record  *)
(* [recent, years]: whether it asks for the most recent state of something,*)
(* and the years it names.  A text is the sequence of the lengths of its   *)
(* words.                                                                  *)
(***************************************************************************)
EXTENDS Integers, SequencesExt

(* A query about recent events names this year: an older year is replaced, *)
(* no year is completed.                                                   *)
with_year(query, year) ==
    IF ~query.recent THEN query
    ELSE IF \A y \in query.years : y < year THEN [query EXCEPT !.years = {year}]
    ELSE query

(* The number of characters of the first n words, with blanks between. *)
Chars(text, n) ==
    LET Sum[k \in 0..n] == IF k = 0 THEN -1 ELSE Sum[k - 1] + text[k] + 1
    IN  IF n = 0 THEN 0 ELSE Sum[n]

(* A text of more than limit characters is cut after a word that ends      *)
(* before its character number limit - 1; a long first word is cut itself. *)
trim(text, limit) ==
    LET fits == {n \in 1..Len(text) : Chars(text, n) <= limit - 2}
    IN  CASE Chars(text, Len(text)) <= limit                     -> text
          [] Chars(text, Len(text)) > limit /\ fits # {}         -> SubSeq(text, 1, Max(fits))
          [] OTHER                                               -> <<limit - 1>>

(* The lines that the model reads: a head, direct answers, one infobox,    *)
(* at most max_results results.                                            *)
format_results(results, max_results, snippet) ==
    LET cut == SubSeq(results.results, 1, Min({max_results, Len(results.results)}))
        lines == [k \in DOMAIN results.answers |-> [line |-> "answer", text |-> trim(results.answers[k], snippet)]]
                 \o [k \in DOMAIN results.infobox |-> [line |-> "infobox", text |-> trim(results.infobox[k], snippet)]]
                 \o [k \in DOMAIN cut |-> [line |-> "result", text |-> trim(cut[k], snippet)]]
    IN  IF lines = <<>> THEN <<[line |-> "No results.", text |-> <<>>]>>
        ELSE <<[line |-> "head", text |-> <<>>]>> \o lines
=============================================================================
