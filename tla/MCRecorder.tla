----------------------------- MODULE MCRecorder -----------------------------
(* A character that reads may cut in two, while one that is broken off is    *)
(* typed, and times whose intervals would not add up if rounded.            *)
EXTENDS Recorder

CutCharacter == <<"lead", "rest">>
BrokenKeys == <<"lead", "a">>
UnevenMoments == <<400, 1000, 1500, 2500>>
=============================================================================
