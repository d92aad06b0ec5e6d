------------------------ MODULE YoloV8Postprocessor -------------------------
(***************************************************************************)
(* postprocess_yolov8: from the anchors of the model's output tensor to    *)
(* the detections of a frame.  An anchor is a record of its box channels   *)
(* and the sequence of its class scores; class index c of the code is      *)
(* position c + 1.  Scores and thresholds are in percent, box channels in  *)
(* pixels of the model's input.                                            *)
(***************************************************************************)
EXTENDS Integers, Sequences, FiniteSets

CONSTANTS ModelWidth, ModelHeight,   \* model_input_width, model_input_height
          SourceWidth, SourceHeight, \* size of the frame
          ConfThreshold,             \* conf_threshold
          NmsThreshold,              \* nms_threshold
          MaxDetections,             \* max_detections
          PersonIds, ForkliftIds     \* cfg.inference.classes, {} if absent

ASSUME SizesAssumption == /\ ModelWidth \in Nat \ {0} /\ ModelHeight \in Nat \ {0}
                          /\ SourceWidth \in Nat \ {0} /\ SourceHeight \in Nat \ {0}
ASSUME ThresholdsAssumption == /\ ConfThreshold \in 0 .. 100 /\ NmsThreshold \in 0 .. 100
                               /\ MaxDetections \in Nat
ASSUME ClassIdsAssumption == PersonIds \subseteq Nat /\ ForkliftIds \subseteq Nat

Anchors == [cx : Int, cy : Int, w : Nat, h : Nat, scores : Seq(0 .. 100)]

\* class_map as load_from_yaml fills it: a later entry replaces an earlier.
ConfiguredMap ==
    [i \in PersonIds \cup ForkliftIds |-> IF i \in ForkliftIds THEN "kForklift" ELSE "kPerson"]

\* class_map as initialize() hands it on.
ClassMap == IF DOMAIN ConfiguredMap # {} THEN ConfiguredMap
            ELSE [i \in {0, 1} |-> IF i = 0 THEN "kPerson" ELSE "kForklift"]

-----------------------------------------------------------------------------
(* Decoding                                                                 *)

\* The position of the first highest score, 0 (the code's -1) if none is > 0.
BestClass(a) ==
    IF \A c \in DOMAIN a.scores : a.scores[c] = 0 THEN 0
    ELSE CHOOSE c \in DOMAIN a.scores :
            \A d \in DOMAIN a.scores : /\ a.scores[d] <= a.scores[c]
                                       /\ d < c => a.scores[d] < a.scores[c]

BestScore(a) == IF BestClass(a) = 0 THEN 0 ELSE a.scores[BestClass(a)]

\* static_cast<int> of the quotient n / d, for d > 0: towards zero.
Truncated(n, d) == IF n >= 0 THEN n \div d ELSE -((-n) \div d)

Decode(a) ==
    [x |-> Truncated((2 * a.cx - a.w) * SourceWidth, 2 * ModelWidth),
     y |-> Truncated((2 * a.cy - a.h) * SourceHeight, 2 * ModelHeight),
     width |-> Truncated(a.w * SourceWidth, ModelWidth),
     height |-> Truncated(a.h * SourceHeight, ModelHeight)]

\* The anchors whose box and score are kept for the suppression.
Candidates(anchors) ==
    {i \in DOMAIN anchors : /\ BestScore(anchors[i]) >= ConfThreshold
                            /\ BestClass(anchors[i]) # 0}

-----------------------------------------------------------------------------
(* cv::dnn::NMSBoxes, as it is documented: boxes above the score threshold  *)
(* are taken by descending score, and each is kept that overlaps none of    *)
(* those kept before it by more than nms_threshold.                         *)

Least(m, n) == IF m < n THEN m ELSE n
Greatest(m, n) == IF m > n THEN m ELSE n

Shared(p, plen, q, qlen) == Greatest(0, Least(p + plen, q + qlen) - Greatest(p, q))

\* The boxes overlap, as intersection over union, by more than nms_threshold.
Overlap(b, c) ==
    LET inter == Shared(b.x, b.width, c.x, c.width) * Shared(b.y, b.height, c.y, c.height)
        union == b.width * b.height + c.width * c.height - inter
    IN  IF union = 0 THEN NmsThreshold < 100 ELSE inter * 100 > NmsThreshold * union

\* Anchor i is looked at before j.
Before(anchors, i, j) ==
    \/ BestScore(anchors[i]) > BestScore(anchors[j])
    \/ BestScore(anchors[i]) = BestScore(anchors[j]) /\ i < j

Scored(anchors) == {i \in Candidates(anchors) : BestScore(anchors[i]) > ConfThreshold}

\* The anchor that is the r-th to be looked at.
Ranked(anchors, r) ==
    CHOOSE i \in Scored(anchors) :
        Cardinality({j \in Scored(anchors) : Before(anchors, j, i)}) = r - 1

\* Mutant: a box is compared with the last one that was kept only.
NMSBoxesLastOnly(anchors) ==
    LET kept[r \in 0 .. Cardinality(Scored(anchors))] ==
            IF r = 0 THEN <<>>
            ELSE LET i == Ranked(anchors, r)
                     before == kept[r - 1]
                 IN  IF before # <<>> /\ Overlap(Decode(anchors[i]),
                                                Decode(anchors[before[Len(before)]]))
                     THEN before ELSE Append(before, i)
    IN  kept[Cardinality(Scored(anchors))]

\* The positions of the kept anchors after each number of anchors looked at.
NMSBoxes(anchors) ==
    LET kept[r \in 0 .. Cardinality(Scored(anchors))] ==
            IF r = 0 THEN <<>>
            ELSE LET i == Ranked(anchors, r)
                     before == kept[r - 1]
                 IN  IF \E k \in DOMAIN before :
                            Overlap(Decode(anchors[i]), Decode(anchors[before[k]]))
                     THEN before ELSE Append(before, i)
    IN  kept[Cardinality(Scored(anchors))]

-----------------------------------------------------------------------------

ClassOf(a) == IF BestClass(a) - 1 \in DOMAIN ClassMap THEN ClassMap[BestClass(a) - 1]
              ELSE "kUnknown"

\* No tracker is attached: track_id keeps its default.
Detected(a) == [cls |-> ClassOf(a), box |-> Decode(a), track_id |-> -1]

\* The anchors that become detections, in that order.
Kept(anchors) ==
    LET keep == NMSBoxes(anchors)
    IN  SubSeq(keep, 1, Least(Len(keep), MaxDetections))

postprocess(anchors) ==
    LET kept == Kept(anchors)
    IN  [k \in DOMAIN kept |-> Detected(anchors[kept[k]])]
=============================================================================
