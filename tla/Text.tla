--------------------------------- MODULE Text ---------------------------------
(***************************************************************************)
(* Matching of spoken names against titles (src/src/text.rs).  A word is a *)
(* sequence of letters of a coarse alphabet, so that "frieren" and         *)
(* "freeran" can share their consonants; a text is a sequence of words in  *)
(* lower case.  A similarity is a pair <<common, all>> of numbers of       *)
(* trigrams.                                                               *)
(***************************************************************************)
EXTENDS Integers, FiniteSets, SequencesExt

CONSTANTS
    Vowels,        \* letters that a skeleton leaves out
    NumberWords,   \* function from spoken numbers to digits, as words
    Descriptive    \* words that start a description, not a title

words(s) ==
    [i \in DOMAIN s |-> IF s[i] \in DOMAIN NumberWords THEN NumberWords[s[i]] ELSE s[i]]

squashed(s) == FlattenSeq(words(s))

Padded(s) ==
    <<" ", " ">> \o FlattenSeq([i \in DOMAIN s |-> Append(words(s)[i], " ")])

trigrams(s) ==
    IF s = <<>> THEN {}
    ELSE LET p == Padded(s) IN {SubSeq(p, i, i + 2) : i \in 1..Len(p) - 2}

similarity(a, b) ==
    <<Cardinality(trigrams(a) \cap trigrams(b)), Cardinality(trigrams(a) \cup trigrams(b))>>

(* Two similarities; no trigrams at all are similarity 0. *)
Above(s, t) == s[1] * t[2] > t[1] * s[2] \/ (s[1] > 0 /\ t[2] = 0)
Larger(s, t) == IF Above(t, s) THEN t ELSE s

(* The similarity s is at least n tenths. *)
AtLeast(s, n) == s[2] > 0 /\ 10 * s[1] >= n * s[2]

Heard(out, c) ==
    IF c \in Vowels \/ (out # <<>> /\ Last(out) = c) THEN out ELSE Append(out, c)

skeleton(s) ==
    LET letters == squashed(s)
        Prefix[n \in 0..Len(letters)] ==
            IF n = 0 THEN <<>> ELSE LET out == Prefix[n - 1] IN Heard(out, letters[n])
    IN  Prefix[Len(letters)]

title_like(s) == Len(s) <= 4 /\ \A i \in DOMAIN s : words(s)[i] \notin Descriptive
=============================================================================
