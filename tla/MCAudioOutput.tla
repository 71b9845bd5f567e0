----------------------------- MODULE MCAudioOutput -----------------------------
(* The levels of the code in periods of 20 ms: a ring of 240 ms, a start    *)
(* threshold of 100, a fill target of 160 and a keep-alive level of 60.     *)
EXTENDS AudioOutput
================================================================================
