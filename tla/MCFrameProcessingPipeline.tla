---------------------- MODULE MCFrameProcessingPipeline ----------------------
(* FrameProcessingPipeline on small instances.  YoloV8Postprocessor leaves   *)
(* Detection::track_id at its default, so the track of every forklift is -1. *)
EXTENDS FrameProcessingPipeline

NoTracker == [f \in Forklifts |-> -1]

\* No alert; one person near one forklift; two alerts from one frame.
NoAlert == {<<>>}
AtMostOneHit == NoAlert \cup {<<f>> : f \in Forklifts}
UpToTwoHits == AtMostOneHit \cup (Forklifts \X Forklifts)

\* The wall clock is right, or is set back once.
Accurate == {0}
SetBack == {-2}
=============================================================================
