------------------------------ MODULE MCWyoming ------------------------------
(* A small instance of Wyoming for TLC.  Chunks have one byte, so that the *)
(* samples of two bytes lie across their borders.                          *)
EXTENDS Wyoming

CONSTANTS Full, Few   \* two connections: any events, or those that need an engine

Header(rate, width) == [rate |-> rate, width |-> width, channels |-> None]
Chunk(header) == [kind |-> "audio-chunk", header |-> header, bytes |-> 1]
AnyFormat == Header(None, None)

FewEvents == {Chunk(AnyFormat), [kind |-> "audio-stop"], [kind |-> "synthesize", text |-> TRUE]}
FullEvents ==
    FewEvents
    \cup {[kind |-> "describe"], [kind |-> "transcribe"], [kind |-> "synthesize", text |-> FALSE]}
    \cup {[kind |-> "audio-start", header |-> Header(None, 1)], Chunk(Header(8000, 1))}

MCConns == {Full, Few}
MCEvents == [c \in MCConns |-> IF c = Full THEN FullEvents ELSE FewEvents]

WavChunk(id, size, bytes) == [id |-> id, size |-> size, bytes |-> bytes]
MCWavs ==
    {<<WavChunk("fmt", 16, 16), WavChunk("data", 0, 4)>>,
     <<WavChunk("data", 4, 4)>>}
=============================================================================
