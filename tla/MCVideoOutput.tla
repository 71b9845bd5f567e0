----------------------------- MODULE MCVideoOutput -----------------------------
(* Small instance of VideoOutput: three surfaces, two formats the display   *)
(* shows, one above the ceiling and one without a mode.                     *)
EXTENDS VideoOutput
================================================================================
