-------------------------------- MODULE Audio --------------------------------
(***************************************************************************)
(* PCM formats and WAV files (src/src/audio.rs), as far as lengths go: how *)
(* many samples a run of bytes holds, and which bytes of a WAV file are    *)
(* the samples.  The values of the samples are left out.                   *)
(***************************************************************************)
EXTENDS Integers, Sequences, SequencesExt

(* Format.  A field that a Wyoming event gives is cut to the width of the  *)
(* Rust type; a rate fits in 32 bits here.                                 *)
Fields == {"rate", "width", "channels"}
STT == [rate |-> 16000, width |-> 2, channels |-> 1]

Field(k, v) == IF k = "rate" THEN v ELSE v % 65536

AtLeastOne(n) == IF n = 0 THEN 1 ELSE n
Frame(f) == AtLeastOne(f.width) * AtLeastOne(f.channels)

(* to_mono_i16: a frame that is not whole at the end is dropped, the rest  *)
(* becomes one sample each, and then the rate changes.                     *)
Samples(bytes, f) ==
    LET mono == bytes \div Frame(f)
    IN IF f.rate \in {0, STT.rate} THEN mono ELSE (mono * STT.rate) \div f.rate

(* A WAV file of audiocpp_server: the chunks after the RIFF header.  A     *)
(* chunk has a name, the size that it claims and the bytes that are there. *)
(* parse_wav walks them; a chunk that claims more than there is ends the   *)
(* walk, but as the data chunk it is cut.  -1 stands for an error.         *)
StreamedSize == 0

WavStep(acc, chunk) ==
    CASE acc.done -> acc
      [] ~acc.done /\ chunk.id = "fmt" ->
            IF chunk.bytes < 16 THEN [acc EXCEPT !.done = TRUE]
            ELSE [acc EXCEPT !.format = TRUE, !.done = chunk.bytes < chunk.size]
      [] ~acc.done /\ chunk.id = "data" ->
            [acc EXCEPT !.done = TRUE,
                        !.pcm = CASE ~acc.format -> -1
                                  [] acc.format /\ chunk.size = StreamedSize -> chunk.bytes
                                  [] OTHER -> IF chunk.size < chunk.bytes THEN chunk.size
                                              ELSE chunk.bytes]
      [] OTHER -> [acc EXCEPT !.done = chunk.bytes < chunk.size]

parse_wav(chunks) ==
    FoldLeft(WavStep, [format |-> FALSE, done |-> FALSE, pcm |-> -1], chunks).pcm
=============================================================================
