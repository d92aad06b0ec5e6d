------------------------------ MODULE MCLiveView ------------------------------
(* LiveView on small instances: one worker per camera, and the requests that *)
(* name a camera, name none, or ask for the list of cameras or a file.       *)
EXTENDS LiveView, TLC

CONSTANTS c1, c2, w1, w2

TwoCameras == {c1, c2}
OneWorkerEach == {w1, w2}
Serves == w1 :> c1 @@ w2 :> c2
Requests ==
    [path : {"stream", "detections"}, camera : {c1, All}]
        \cup [path : {"cameras", "file"}, camera : {All}]
===============================================================================
