------------------------------- MODULE Wyoming -------------------------------
(***************************************************************************)
(* Wyoming connections (serve in src/src/wyoming/mod.rs and read_event in  *)
(* protocol.rs) over the calls and the lock of GpuVoice.  A connection     *)
(* reads one event, handles it to the end and flushes its answer before it *)
(* reads the next one; the audio of a request is kept as it came and is    *)
(* converted at audio-stop.  The task of a connection does not notice that *)
(* its client has gone until it reads or writes.                           *)
(***************************************************************************)
EXTENDS GpuVoice, Audio, Iterators

CONSTANTS
    Conns,      \* connections
    Events,     \* what the client of each connection may send
    Wavs,       \* files that audiocpp_server may answer with
    MaxEvents   \* events that the connections read together

VARIABLES
    stt,      \* Voice.stt: its model has been loaded
    conn,     \* where the task of each connection is
    format,   \* format of serve
    audio,    \* audio of serve, with the number of bytes for the bytes
    pcm,      \* samples that the last audio-stop took
    job,      \* the call that the connection waits for
    gone,     \* the connections that their client has closed
    heard,    \* history: the events that were read
    said      \* history: the answers, the last one perhaps not written to its end

connVars == <<stt, conn, format, audio, pcm, job, gone, heard, said>>
allVars == <<vars, connVars>>

(* An event of a client: a header gives some fields of the format, and a   *)
(* chunk has a payload of so many bytes.                                   *)
Kinds == {"describe", "transcribe", "audio-start", "audio-chunk", "audio-stop", "synthesize"}

IsEvent(e) ==
    /\ e.kind \in Kinds
    /\ e.kind \in {"audio-start", "audio-chunk"} =>
           \A k \in Fields : e.header[k] # None => e.header[k] \in Nat
    /\ e.kind = "audio-chunk" => e.bytes \in Nat

ASSUME ConnsAssumption ==
    /\ None \notin Conns /\ MaxEvents \in Nat
    /\ \A c \in Conns : \A e \in Events[c] : IsEvent(e)

format_of(header, fallback) ==
    [k \in Fields |-> IF header[k] = None THEN fallback[k] ELSE Field(k, header[k])]

WyomingTypeOK ==
    /\ TypeOK
    /\ stt \in BOOLEAN
    /\ conn \in [Conns -> {"reading", "stt", "tts", "writing", "closed"}]
    /\ \A c \in Conns :
        /\ DOMAIN format[c] = Fields
        /\ \A i \in DOMAIN audio[c] : audio[c][i].bytes \in Nat \ {0}
        /\ heard[c] \in Seq(Events[c]) /\ Len(heard[c]) <= MaxEvents
        /\ (job[c] # None) = (conn[c] \in {"stt", "tts"})
    /\ pcm \in [Conns -> Nat]
    /\ job \in [Conns -> Calls \cup {None}]
    /\ gone \subseteq Conns

(* Where the engines run makes no difference to a connection. *)
WyomingInit ==
    /\ Init /\ onGpu = Calls
    /\ stt \in BOOLEAN
    /\ conn = [c \in Conns |-> "reading"]
    /\ format = [c \in Conns |-> STT]
    /\ audio = [c \in Conns |-> <<>>]
    /\ pcm = [c \in Conns |-> 0]
    /\ job = [c \in Conns |-> None]
    /\ gone = {}
    /\ heard = [c \in Conns |-> <<>>]
    /\ said = [c \in Conns |-> <<>>]

-----------------------------------------------------------------------------
(* Mutant: each chunk is a segment. *)
SegmentEach(segments, f, n) ==
    IF n = 0 THEN segments ELSE Append(segments, [format |-> f, bytes |-> n])

(* audio-chunk: the payload extends the last segment if the formats agree. *)
Extend(segments, f, n) ==
    LET k == Len(segments)
    IN CASE n = 0 -> segments
         [] n > 0 /\ k > 0 /\ segments[k].format = f ->
                [segments EXCEPT ![k].bytes = @ + n]
         [] OTHER -> Append(segments, [format |-> f, bytes |-> n])

(* The samples of all segments. *)
Pcm(segments) == Total([k \in DOMAIN segments |-> Samples(segments[k].bytes, segments[k].format)])

(* An answer is written and flushed, without a time limit: it takes as     *)
(* long as the client takes to read it.                                    *)
Answer(c, a) ==
    /\ said' = [said EXCEPT ![c] = Append(@, a)]
    /\ conn' = [conn EXCEPT ![c] = "writing"]

EventsRead == MapThenSumSet(LAMBDA d : Len(heard[d]), Conns)

Hear(c, e) ==
    /\ conn[c] = "reading"
    /\ EventsRead < MaxEvents
    /\ e \in Events[c]
    /\ heard' = [heard EXCEPT ![c] = Append(@, e)]
    /\ UNCHANGED <<stt, gone>>

Describe(c, e) ==
    /\ e.kind = "describe"
    /\ Hear(c, e)
    /\ Answer(c, [kind |-> "info", samples |-> 0])
    /\ UNCHANGED <<vars, format, audio, pcm, job>>

(* The language of a transcribe event is ignored, as is an unknown event. *)
Ignore(c, e) ==
    /\ e.kind = "transcribe"
    /\ Hear(c, e)
    /\ UNCHANGED <<vars, conn, format, audio, pcm, job, said>>

AudioStart(c, e) ==
    /\ e.kind = "audio-start"
    /\ Hear(c, e)
    /\ format' = [format EXCEPT ![c] = format_of(e.header, STT)]
    /\ audio' = [audio EXCEPT ![c] = <<>>]
    /\ UNCHANGED <<vars, conn, pcm, job, said>>

AudioChunk(c, e) ==
    /\ e.kind = "audio-chunk"
    /\ Hear(c, e)
    /\ audio' = [audio EXCEPT ![c] = Extend(@, format_of(e.header, format[c]), e.bytes)]
    /\ UNCHANGED <<vars, conn, format, pcm, job, said>>

(* The connection asks for an engine: a fresh call of Voice. *)
Call(c, calls, place) ==
    /\ conn' = [conn EXCEPT ![c] = place]
    /\ \E k \in calls : call[k] = "new"
    /\ LET k == CHOOSE n \in calls : call[n] = "new"
       IN job' = [job EXCEPT ![c] = k] /\ Ask(k)
    /\ UNCHANGED said

(* audio-stop takes the audio.  Without a whole sample the transcript is   *)
(* empty; without a model the connection ends.                             *)
AudioStop(c, e) ==
    /\ e.kind = "audio-stop"
    /\ Hear(c, e)
    /\ audio' = [audio EXCEPT ![c] = <<>>]
    /\ pcm' = [pcm EXCEPT ![c] = Pcm(audio[c])]
    /\ UNCHANGED format
    /\ \/ /\ Pcm(audio[c]) = 0
          /\ Answer(c, [kind |-> "transcript", samples |-> 0])
          /\ UNCHANGED <<vars, job>>
       \/ /\ Pcm(audio[c]) > 0 /\ stt
          /\ Call(c, SttCalls, "stt")
       \/ /\ Pcm(audio[c]) > 0 /\ ~stt
          /\ conn' = [conn EXCEPT ![c] = "closed"]
          /\ UNCHANGED <<vars, job, said>>

(* A text that has nothing to speak after the markdown is gone gets an     *)
(* audio-stop.                                                             *)
Synthesize(c, e) ==
    /\ e.kind = "synthesize"
    /\ Hear(c, e)
    /\ UNCHANGED <<format, audio, pcm>>
    /\ \/ /\ ~e.text
          /\ Answer(c, [kind |-> "silence", samples |-> 0])
          /\ UNCHANGED <<vars, job>>
       \/ e.text /\ Call(c, TtsCalls, "tts")

Ended(k) == call[k] \in {"answered", "busy", "timed_out"}
Good(k) == call[k] = "answered" /\ result[k] = "ok"

Close(c) ==
    /\ conn' = [conn EXCEPT ![c] = "closed"]
    /\ UNCHANGED said

(* The call of the connection is over.  An error of the engine, or speech  *)
(* that is no WAV file, ends the connection without an answer.             *)
Transcribed(c) ==
    /\ conn[c] = "stt" /\ Ended(job[c])
    /\ job' = [job EXCEPT ![c] = None]
    /\ \/ Good(job[c]) /\ Answer(c, [kind |-> "transcript", samples |-> pcm[c]])
       \/ ~Good(job[c]) /\ Close(c)
    /\ UNCHANGED <<vars, stt, format, audio, pcm, gone, heard>>

Spoken(c) ==
    /\ conn[c] = "tts" /\ Ended(job[c])
    /\ job' = [job EXCEPT ![c] = None]
    /\ \E wav \in Wavs :
        \/ /\ Good(job[c]) /\ parse_wav(wav) >= 0
           /\ Answer(c, [kind |-> "speech", samples |-> 0])
        \/ (~Good(job[c]) \/ parse_wav(wav) < 0) /\ Close(c)
    /\ UNCHANGED <<vars, stt, format, audio, pcm, gone, heard>>

(* The client goes away. *)
Leave(c) ==
    /\ conn[c] # "closed" /\ c \notin gone
    /\ gone' = gone \cup {c}
    /\ UNCHANGED <<vars, stt, conn, format, audio, pcm, job, heard, said>>

(* Mutant: the task ends as soon as the client is gone, also in a call. *)
DropWhenGone(c) ==
    /\ conn[c] # "closed" /\ c \in gone
    /\ job' = [job EXCEPT ![c] = None]
    /\ Close(c)
    /\ UNCHANGED <<vars, stt, format, audio, pcm, gone, heard>>

(* The client has read enough of the answer. *)
Written(c) ==
    /\ conn[c] = "writing"
    /\ conn' = [conn EXCEPT ![c] = "reading"]
    /\ UNCHANGED <<vars, stt, format, audio, pcm, job, gone, heard, said>>

(* With the client gone the write may fail, which ends the connection. *)
WriteFails(c) ==
    /\ conn[c] = "writing" /\ c \in gone
    /\ Close(c)
    /\ UNCHANGED <<vars, stt, format, audio, pcm, job, gone, heard>>

(* The next read finds the end of the stream. *)
EndOfStream(c) ==
    /\ conn[c] = "reading" /\ c \in gone
    /\ Close(c)
    /\ UNCHANGED <<vars, stt, format, audio, pcm, job, gone, heard>>

(* read_event fails: a header that is too long, is no JSON object with a   *)
(* type or gives a bad length, or data that is cut or is no JSON.          *)
Malformed(c) ==
    /\ conn[c] = "reading"
    /\ Close(c)
    /\ UNCHANGED <<vars, stt, format, audio, pcm, job, gone, heard>>

Handle(c, e) ==
    \/ Describe(c, e) \/ Ignore(c, e) \/ AudioStart(c, e)
    \/ AudioChunk(c, e) \/ AudioStop(c, e) \/ Synthesize(c, e)

(* The engines and the lock go on; only a connection starts a call. *)
Engines ==
    /\ \E k \in Calls :
        \/ Acquire(k) \/ Busy(k)
        \/ \E r \in Result : SttEnds(k, r) \/ TtsEnds(k, r)
        \/ SttReports(k) \/ SttPanics(k)
        \/ TtsTimesOut(k) \/ LeftoverEnds(k)
    /\ UNCHANGED connVars

WyomingNext ==
    \/ Engines
    \/ \E c \in Conns :
        \/ \E e \in Events[c] : Handle(c, e)
        \/ Transcribed(c) \/ Spoken(c) \/ Written(c) \/ WriteFails(c)
        \/ Leave(c) \/ EndOfStream(c) \/ Malformed(c)

(* The timers fire, and a task that can go on does; a write to a client    *)
(* that has gone ends.  No engine has to answer, and clients may never     *)
(* send or read anything.                                                  *)
WyomingFairness ==
    /\ \A k \in Calls :
        /\ WF_allVars((Acquire(k) \/ Busy(k)) /\ UNCHANGED connVars)
        /\ WF_allVars(SttReports(k) /\ UNCHANGED connVars)
        /\ WF_allVars(TtsTimesOut(k) /\ UNCHANGED connVars)
    /\ \A c \in Conns :
        /\ WF_allVars(Transcribed(c) \/ Spoken(c))
        /\ WF_allVars(c \in gone /\ (Written(c) \/ WriteFails(c)))

WyomingSpec == WyomingInit /\ [][WyomingNext]_allVars /\ WyomingFairness

-----------------------------------------------------------------------------
(* What a client is owed for the events of a history h.  The audio of a    *)
(* request are the chunks after the last start or stop.  The format of a   *)
(* chunk falls back to that of the last start, wherever that was.          *)
LastOf(h, i, kinds) == Max({j \in 1..i - 1 : h[j].kind \in kinds} \cup {0})

FormatOf(h, j) ==
    LET s == LastOf(h, j, {"audio-start"})
    IN format_of(h[j].header, IF s = 0 THEN STT ELSE format_of(h[s].header, STT))

(* The chunks of the request that ends at i, and the runs of one format in *)
(* them, each by its first chunk.  Where chunks border makes no difference.*)
ChunksOf(h, i) ==
    {j \in LastOf(h, i, {"audio-start", "audio-stop"}) + 1 .. i - 1 :
        h[j].kind = "audio-chunk" /\ h[j].bytes > 0}

RunOf(h, i, j) ==
    {k \in ChunksOf(h, i) :
        k >= j /\ \A m \in ChunksOf(h, i) : m \in j..k => FormatOf(h, m) = FormatOf(h, j)}

FirstsOf(h, i) ==
    {j \in ChunksOf(h, i) :
        \A k \in ChunksOf(h, i) : k < j =>
            \E m \in ChunksOf(h, i) : m \in k..j - 1 /\ FormatOf(h, m) # FormatOf(h, j)}

BytesOf(h, i, j) == Total([k \in 1..i - 1 |-> IF k \in RunOf(h, i, j) THEN h[k].bytes ELSE 0])

SamplesOf(h, i) ==
    Total([j \in 1..i - 1 |-> IF j \in FirstsOf(h, i)
                              THEN Samples(BytesOf(h, i, j), FormatOf(h, j)) ELSE 0])

Due(h, i) ==
    CASE h[i].kind = "describe"   -> <<[kind |-> "info", samples |-> 0]>>
      [] h[i].kind = "audio-stop" -> <<[kind |-> "transcript", samples |-> SamplesOf(h, i)]>>
      [] h[i].kind = "synthesize" -> <<[kind |-> IF h[i].text THEN "speech" ELSE "silence",
                                        samples |-> 0]>>
      [] OTHER                    -> <<>>

AllDue(h) == FlattenSeq([i \in 1..Len(h) |-> Due(h, i)])

(* A client gets one answer for each event that calls for one, in order,   *)
(* and each transcript is about the audio of its own request, all of it.   *)
(* A connection that reads on has answered everything; one that ends has   *)
(* left out the last answer at most.                                       *)
AnswersInOrder ==
    \A c \in Conns :
        LET due == AllDue(heard[c])
        IN /\ IsPrefix(said[c], due)
           /\ conn[c] = "reading" => said[c] = due
           /\ Len(said[c]) >= Len(due) - 1

(* Every call that waits for the lock or has work under it belongs to one  *)
(* connection that will count its result, also when its client has gone.   *)
NoOrphan ==
    \A k \in Calls :
        call[k] \in {"waiting", "working", "report"} =>
            Cardinality({c \in Conns : job[c] = k}) = 1

(* A connection that is held up for good is the one whose transcription    *)
(* hangs in the engine, or one whose client stays and does not read its    *)
(* answer: all others get theirs, or their connection ends.                *)
OnlyHangsWait ==
    \A c \in Conns :
        \/ []<>(conn[c] \in {"reading", "closed"})
        \/ <>[](conn[c] = "stt" /\ call[job[c]] = "working")
        \/ <>[](conn[c] = "writing" /\ c \notin gone)
=============================================================================
