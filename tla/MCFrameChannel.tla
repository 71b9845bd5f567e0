----------------------------- MODULE MCFrameChannel -----------------------------
(* A two-byte header, bodies of no, one and two bytes, cut anywhere by  *)
(* the network; a body budget longer than the caller's slice, as in the     *)
(* code (6 s against 500 ms), and enough connections for a stale byte to    *)
(* meet a new stream.                                                       *)
EXTENDS FrameChannel

\* In bytes of the model: a video frame is all header, an audio frame has a
\* payload of one, and metadata may not fill the largest body.
MCExtension == [metadata |-> 0, video |-> 2, audio |-> 1]
MCMaximum   == [metadata |-> 1, video |-> 0, audio |-> 1]
================================================================================
