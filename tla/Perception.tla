----------------------------- MODULE Perception ------------------------------
(***************************************************************************)
(* From the output of the model to the alerts: an inference worker hands   *)
(* the detections that postprocess_yolov8 makes of a frame to              *)
(* RiskDetectionService::evaluate.                                         *)
(***************************************************************************)
EXTENDS RiskDetection, YoloV8Postprocessor

CONSTANT Outputs  \* the output tensors of the model, as sequences of anchors

ASSUME OutputsAssumption == Outputs \subseteq Seq(Anchors)

\* What infer() returns for each of them.
infer == [out \in Outputs |-> postprocess(out)]

ASSUME ScenesAreDetections == Scenes = {infer[out] : out \in Outputs}

VARIABLE output  \* the tensor of the last frame

perceptionVars == <<output, vars>>

PerceptionInit == output = <<>> /\ Init

\* One frame: infer(), then evaluate() of what it returned.
InferAndEvaluate(out) ==
    /\ output' = out
    /\ Frame(infer[out])

PerceptionNext == \E out \in Outputs : InferAndEvaluate(out)

PerceptionSpec == PerceptionInit /\ [][PerceptionNext]_perceptionVars

-----------------------------------------------------------------------------
(* Safety                                                                   *)

\* Whether anchor i became a detection.
IsDetected(i) == \E k \in DOMAIN Kept(output) : Kept(output)[k] = i

\* The detected anchors that come before anchor i.
Better(i) == {j \in DOMAIN output : IsDetected(j) /\ Before(output, j, i)}

\* What the model is sure of is lost for two reasons only: a better detection
\* overlaps it by more than nms_threshold (of whatever class), or there are
\* max_detections better ones.  In turn no two detections overlap so.
KeptForCause ==
    \A i \in DOMAIN output :
        IsDetected(i) <=>
            /\ BestScore(output[i]) > ConfThreshold /\ BestClass(output[i]) # 0
            /\ \A j \in Better(i) : ~Overlap(Decode(output[i]), Decode(output[j]))
            /\ Cardinality(Better(i)) < MaxDetections
=============================================================================
