--------------------------- MODULE MCPlaybackControl ---------------------------
(* Two processes for one display, two targets and two video limits to       *)
(* confuse, files that may be invalid, and a timeout that can strike at     *)
(* every point of a command.                                                *)
EXTENDS PlaybackControl
================================================================================
