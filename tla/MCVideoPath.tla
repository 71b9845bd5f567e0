------------------------------ MODULE MCVideoPath ------------------------------
(* The video slot and the audio backlog, with sizes that overflow the byte  *)
(* cap singly and together; and for video, pictures of one to three slices, *)
(* enlarged, reduced and at their own size, decoded by three threads.       *)
EXTENDS VideoPath

Shape(w, h, r) == [w |-> w, h |-> h, rate |-> r]
Mode(w, h, r, i) == [w |-> w, h |-> h, rate |-> r, interlaced |-> i]

MCVideos == {Shape(4, 5, 3000), Shape(2, 3, 5994), Shape(3, 4, 6000), Shape(8, 4, 3000)}
MCCeiling == {Shape(6, 6, 6000)}
MCDisplays ==
    {<<Mode(4, 4, 6000, FALSE), Mode(4, 5, 3000, TRUE), Mode(2, 3, 3000, FALSE),
       Mode(2, 3, 6000, FALSE)>>,
     <<Mode(6, 7, 5000, FALSE), Mode(6, 7, 7500, FALSE)>>,
     <<Mode(4, 5, 6000, TRUE)>>}
================================================================================
