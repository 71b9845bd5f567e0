------------------------------ MODULE MCPlayback ------------------------------
(* A discovered target, so both the discovery and the HDMI wait are live;   *)
(* deadlines of one slice; a status directory that may refuse.              *)
EXTENDS Playback

\* No display; one; and the same one renumbered behind another.
MCSysfs == {<<0, 0>>, <<1, 0>>, <<2, 1>>}
================================================================================
