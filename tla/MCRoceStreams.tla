--------------------------- MODULE MCRoceStreams ---------------------------
(* Two streams for TLC: a is vLLM's compute stream, b a second one.        *)
EXTENDS RoceStreams

CONSTANTS a, b

(* Eager collectives on both streams; and vLLM's use, where graphs are     *)
(* captured on either stream and all else is on the compute stream.        *)
TwoStreams == [eager |-> {a, b}, scratch |-> {a}, replay |-> {}, graphs |-> FALSE]
Graphs == [eager |-> {a}, scratch |-> {a}, replay |-> {a}, graphs |-> TRUE]
OrderedUses == {TwoStreams, Graphs}

(* Inputs that need scratch on both streams.                               *)
ScratchUses == {[TwoStreams EXCEPT !.scratch = {a, b}]}
=============================================================================
