---------------------------------- MODULE Eval ----------------------------------
(***************************************************************************)
(* The evaluation of a conversation agent (src/src/llm/eval.rs): the       *)
(* questions go to the engine in order, each in rounds of tool calls, and  *)
(* compare decides with the reports of two runs whether engine B may       *)
(* replace engine A.  The engine answers anything, fails, or is too late   *)
(* for the client's timeout.                                               *)
(*                                                                         *)
(* A question is [tool, args, allow, forbid, any, all, none, min,          *)
(* known_failure]; a reply is [calls, says, chars]; a call is [name, args, *)
(* json].  A text is the set of the needles that it contains.              *)
(***************************************************************************)
EXTENDS Iterators, FiniteSets

CONSTANTS
    Questions,   \* the questions of assist.json that are asked, a sequence
    Repeat,      \* how often each is asked
    Replies,     \* what an engine may answer
    NoTool,      \* a question that needs no tool
    Speeds       \* the times of an engine: of its first question, of the others

ASSUME EvalAssumption ==
    /\ Len(Questions) \in Nat \ {0} /\ Repeat \in Nat \ {0}
    /\ Speeds \subseteq [first: Nat, rest: Nat]

MAX_ROUNDS == 4

VARIABLES
    asked,     \* the question that is asked: [i, rounds, calls, bad, tool_error]
    samples,   \* of the run that is under way
    speed,     \* the engine of this run
    reports,   \* the samples of the runs before
    verdict    \* of compare: "none", "may", "keep"

evalVars == <<asked, samples, speed, reports, verdict>>

(* calls has the first call of each tool: no check looks at a later one.   *)
Fresh(i) == [i |-> i, rounds |-> 0, calls |-> {}, bad |-> FALSE, tool_error |-> FALSE]

EvalInit ==
    /\ asked = Fresh(1)
    /\ samples = <<>>
    /\ speed \in Speeds
    /\ reports = <<>>
    /\ verdict = "none"

Rounds == Len(Questions) * Repeat
Question(i) == Questions[((i - 1) % Len(Questions)) + 1]

-----------------------------------------------------------------------------
CalledNames(calls) == {c.name : c \in calls}

(* Is there a reason why the calls are wrong? *)
check_tools(q, calls) ==
    \/ CalledNames(calls) \cap q.forbid # {}
    \/ q.tool = NoTool /\ ~(CalledNames(calls) \subseteq q.allow \cup q.forbid)
    \/ q.tool # NoTool /\ ~\E c \in calls : c.name = q.tool /\ q.args \subseteq c.args

check_answer(q, reply) ==
    \/ reply.chars < q.min
    \/ q.any # {} /\ q.any \cap reply.says = {}
    \/ ~(q.all \subseteq reply.says)
    \/ q.none \cap reply.says # {}

Silence == [calls |-> <<>>, says |-> {}, chars |-> 0]

(* The sample of a question that ends with this reply. *)
SampleOf(a, reply, error) ==
    LET q == Question(a.i)
        empty == ~error /\ reply.chars = 0
        wrong == ~error /\ check_tools(q, a.calls)
    IN  [known_failure |-> q.known_failure,
         correct       |-> ~(a.bad \/ error \/ wrong \/ empty \/ (~error /\ check_answer(q, reply))),
         empty_reply   |-> empty,
         tool_error    |-> a.tool_error \/ wrong,
         error         |-> error,
         wall          |-> IF samples = <<>> THEN speed.first ELSE speed.rest]

(* The next question, or the end of the run. *)
EndWith(sample) ==
    /\ samples' = Append(samples, sample)
    /\ asked' = Fresh(asked.i + 1)

Asking == verdict = "none" /\ asked.i <= Rounds

(* The calls of a reply, each with its scripted result, for the next       *)
(* round; arguments that are no JSON count against the answer.             *)
Called(a, calls) ==
    LET IsFirst(k) == \A j \in 1..k - 1 : calls[j].name # calls[k].name
        new == {[name |-> calls[k].name, args |-> IF calls[k].json THEN calls[k].args ELSE {}] :
                    k \in {j \in DOMAIN calls : IsFirst(j)}}
        broken == \E k \in DOMAIN calls : ~calls[k].json
    IN  [a EXCEPT !.rounds = @ + 1,
                  !.calls = @ \cup {c \in new : c.name \notin CalledNames(@)},
                  !.bad = @ \/ broken, !.tool_error = @ \/ broken]

(* Mutant: a question that went on for too long is asked again. *)
AskAgain ==
    /\ Asking /\ asked.rounds = MAX_ROUNDS
    /\ asked' = Fresh(asked.i)
    /\ UNCHANGED <<samples, speed, reports, verdict>>

GiveUp ==
    /\ Asking /\ asked.rounds = MAX_ROUNDS
    /\ EndWith(SampleOf([asked EXCEPT !.bad = TRUE, !.tool_error = TRUE], Silence, FALSE))
    /\ UNCHANGED <<speed, reports, verdict>>

ChatFails ==
    /\ Asking /\ asked.rounds < MAX_ROUNDS
    /\ EndWith(SampleOf(asked, Silence, TRUE))
    /\ UNCHANGED <<speed, reports, verdict>>

ChatAnswers ==
    /\ Asking /\ asked.rounds < MAX_ROUNDS
    /\ \E reply \in Replies :
           \/ /\ reply.calls = <<>>
              /\ EndWith(SampleOf(asked, reply, FALSE))
           \/ /\ reply.calls # <<>>
              /\ asked' = Called(asked, reply.calls)
              /\ UNCHANGED samples
    /\ UNCHANGED <<speed, reports, verdict>>

-----------------------------------------------------------------------------
(* Numbers with their total are pairs; the mean of nothing is 0.           *)
Rate(n, total) == IF total = 0 THEN <<0, 1>> ELSE <<n, total>>
Walls(s) == [k \in DOMAIN s |-> s[k].wall]

(* The samples that count: a known failure does not. *)
Gating(s) == {k \in DOMAIN s : ~s[k].known_failure}

SummaryOver(s, rest) ==
    [quality |-> Rate(Cardinality({k \in Gating(s) : s[k].correct}), Cardinality(Gating(s))),
     empty   |-> Rate(Cardinality({k \in DOMAIN s : s[k].empty_reply}), Len(s)),
     wrong   |-> Rate(Cardinality({k \in DOMAIN s : s[k].tool_error}), Len(s)),
     errors  |-> Cardinality({k \in DOMAIN s : s[k].error}),
     first   |-> IF s = <<>> THEN 0 ELSE s[1].wall,
     mean    |-> Rate(Total(Walls(rest)), Len(rest))]

(* Mutant: the mean has the first sample in it, which fills the cache. *)
from_all_samples(s) == SummaryOver(s, s)

(* The first sample fills the engine's cache: the mean leaves it out. *)
from_samples(s) == SummaryOver(s, IF s = <<>> THEN <<>> ELSE Tail(s))

(* The slack of a rate is 5 points. *)
AtMostPlus5(x, y) == 100 * x[1] * y[2] <= 100 * y[1] * x[2] + 5 * x[2] * y[2]

compare(a, b) ==
    /\ AtMostPlus5(a.quality, b.quality)
    /\ AtMostPlus5(b.empty, a.empty)
    /\ AtMostPlus5(b.wrong, a.wrong)
    /\ b.errors = 0
    /\ \/ 10 * b.mean[1] * a.mean[2] <= 8 * a.mean[1] * b.mean[2]
       \/ 10 * b.first <= 7 * a.first

(* A run writes its report, and the next run has another engine. *)
ReportWritten ==
    /\ asked.i > Rounds
    /\ Len(reports) < 2
    /\ reports' = Append(reports, samples)
    /\ samples' = <<>>
    /\ asked' = IF Len(reports) = 0 THEN Fresh(1) ELSE asked
    /\ IF Len(reports) = 0 THEN speed' \in Speeds ELSE UNCHANGED speed
    /\ UNCHANGED verdict

Compare ==
    /\ Len(reports) = 2 /\ verdict = "none"
    /\ verdict' = IF compare(from_samples(reports[1]), from_samples(reports[2]))
                  THEN "may" ELSE "keep"
    /\ UNCHANGED <<asked, samples, speed, reports>>

-----------------------------------------------------------------------------
EvalNext == GiveUp \/ ChatFails \/ ChatAnswers \/ ReportWritten \/ Compare

Right(s) == Cardinality({k \in Gating(s) : s[k].correct})
Rest(s) == Total(Walls(Tail(s)))

(* compare lets B replace A only if no request of B failed, it gives at    *)
(* most 5 points fewer right answers, and it is faster by 20 % per         *)
(* question or 30 % at the first request (docs/architecture.md), measured  *)
(* on all samples of both runs.  Reports of one sample are left out: their *)
(* mean is 0, and every B is fast enough.                                  *)
ReplacementDeserved ==
    verdict = "may" /\ Rounds > 1 =>
        LET a == reports[1]
            b == reports[2]
        IN  /\ \A k \in DOMAIN b : ~b[k].error
            /\ 100 * Right(b) + 5 * Cardinality(Gating(a)) >= 100 * Right(a)
            /\ \/ 10 * Rest(b) <= 8 * Rest(a)
               \/ 10 * b[1].wall <= 7 * a[1].wall
=============================================================================
