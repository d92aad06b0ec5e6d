---------------------------- MODULE RiskDetection ----------------------------
(***************************************************************************)
(* forklift::application::RiskDetectionService with SafetyZoneService and  *)
(* the geometry of domain::BoundingBox: which person of a frame is in the  *)
(* safety zone of which forklift.                                          *)
(*                                                                         *)
(* evaluate() keeps nothing from one frame to the next; a step evaluates   *)
(* one frame.  The boxes of detections are whole pixels, as                *)
(* postprocess_yolov8 makes them; a pad is a product with pad_ratio and    *)
(* need not be, so that zones are kept in fractions of a pixel, exactly.   *)
(* The vector of alerts is the set of its elements; an alert names its     *)
(* person and its forklift by their positions among the detections, so     *)
(* none is lost by this.                                                   *)
(***************************************************************************)
EXTENDS Integers, Sequences, FiniteSets

CONSTANTS Mode,       \* cfg_.mode: "kAbsolutePixels" or "kRelativeToBox"
          Unit,       \* fractions that make up a pixel
          PadX, PadY, \* cfg_.pad_x_px, cfg_.pad_y_px, in fractions of a pixel
          PadRatio,   \* cfg_.pad_ratio, of which Unit are 1.0
          Classes,    \* the object classes, "kPerson" and "kForklift" among them
          Scenes      \* the detections a frame can have

Boxes == [x : Int, y : Int, width : Nat, height : Nat]
Detections == [cls : Classes, box : Boxes, track_id : Int]

ASSUME ModeAssumption == Mode \in {"kAbsolutePixels", "kRelativeToBox"}
ASSUME PadAssumption == /\ Unit \in Nat \ {0}
                        /\ PadX \in Nat /\ PadY \in Nat /\ PadRatio \in Nat
ASSUME ScenesAssumption == Scenes \subseteq Seq(Detections)

VARIABLES detections, \* the detections of the last frame
          alerts      \* the alerts evaluate() returned for it

vars == <<detections, alerts>>

-----------------------------------------------------------------------------
(* BoundingBox                                                             *)

right(b) == b.x + b.width
bottom(b) == b.y + b.height

\* Mutant: boxes that touch intersect.
intersectsTouching(b, other) ==
    ~(\/ other.x > right(b)
      \/ right(other) < b.x
      \/ other.y > bottom(b)
      \/ bottom(other) < b.y)

intersects(b, other) ==
    ~(\/ other.x >= right(b)
      \/ right(other) <= b.x
      \/ other.y >= bottom(b)
      \/ bottom(other) <= b.y)

NotNegative(n) == IF n < 0 THEN 0 ELSE n

\* Mutant: the size grows by one pad, not by one on each side.
expandedOnce(b, dx, dy) ==
    [x |-> NotNegative(b.x - dx), y |-> NotNegative(b.y - dy),
     width |-> NotNegative(b.width + dx),
     height |-> NotNegative(b.height + dy)]

expanded(b, dx, dy) ==
    [x |-> NotNegative(b.x - dx), y |-> NotNegative(b.y - dy),
     width |-> NotNegative(b.width + 2 * dx),
     height |-> NotNegative(b.height + 2 * dy)]

-----------------------------------------------------------------------------
(* SafetyZoneService                                                       *)

\* Box b in fractions of a pixel.
Fine(b) == [x |-> Unit * b.x, y |-> Unit * b.y,
            width |-> Unit * b.width, height |-> Unit * b.height]

padX(b) == IF Mode = "kRelativeToBox" THEN b.width * PadRatio ELSE PadX
padY(b) == IF Mode = "kRelativeToBox" THEN b.height * PadRatio ELSE PadY

zoneBox(forklift) == expanded(Fine(forklift.box), padX(forklift.box), padY(forklift.box))

-----------------------------------------------------------------------------
(* RiskDetectionService                                                    *)

OfClass(ds, cls) == {i \in DOMAIN ds : ds[i].cls = cls}

\* The tracks that alert_id is made of, beside the camera and the time of the
\* frame, which all alerts of a frame share.
alertId(ds, f, p) == <<ds[f].track_id, ds[p].track_id>>

evaluate(ds) ==
    {[forklift |-> pair[1], person |-> pair[2], alert_id |-> alertId(ds, pair[1], pair[2])] :
        pair \in {q \in OfClass(ds, "kForklift") \X OfClass(ds, "kPerson") :
                      intersects(zoneBox(ds[q[1]]), Fine(ds[q[2]].box))}}

Init == detections = <<>> /\ alerts = {}

Frame(ds) ==
    /\ detections' = ds
    /\ alerts' = evaluate(ds)

Next == \E ds \in Scenes : Frame(ds)

Spec == Init /\ [][Next]_vars

-----------------------------------------------------------------------------
(* Safety.  The reference is the point, a pixel or the fraction of one: a  *)
(* person is at risk if one point of the image is in the person's box and  *)
(* in the forklift's box grown by the pad on each side.                    *)

\* Point (px, py) is one of box b, padded by dx and dy on each side.
Within(px, py, b, dx, dy) ==
    /\ b.x - dx <= px /\ px < right(b) + dx
    /\ b.y - dy <= py /\ py < bottom(b) + dy

\* A point of the image in person p is within the padded box of forklift f.
AtRisk(ds, f, p) ==
    LET person == Fine(ds[p].box)
        forklift == ds[f].box
    IN  \E px \in person.x .. right(person) - 1 :
            \E py \in person.y .. bottom(person) - 1 :
                /\ px >= 0 /\ py >= 0
                /\ Within(px, py, person, 0, 0)
                /\ Within(px, py, Fine(forklift), padX(forklift), padY(forklift))

Alerted(f, p) == \E a \in alerts : a.forklift = f /\ a.person = p

Pairs(ds) == OfClass(ds, "kForklift") \X OfClass(ds, "kPerson")

\* Whoever is at risk gets an alert: the corners expanded() computes from
\* clamped origins and doubled pads leave no point of the padded box out, and
\* intersects() finds it wherever it is.
NobodyOverlooked ==
    \A q \in Pairs(detections) : AtRisk(detections, q[1], q[2]) => Alerted(q[1], q[2])

Empty(b) == b.width = 0 \/ b.height = 0

\* Neither the person's box nor the zone of alert a is empty.
Visible(a) == /\ ~Empty(Fine(detections[a.person].box))
              /\ ~Empty(zoneBox(detections[a.forklift]))

\* The padded box of forklift f does not reach over the left or upper edge.
Inside(ds, f) == /\ Fine(ds[f].box).x >= padX(ds[f].box)
                 /\ Fine(ds[f].box).y >= padY(ds[f].box)

\* Away from those edges the alerts are exact: unless a box is empty, a
\* person is alerted about only when at risk.
NoFalseAlarmInside ==
    \A a \in alerts :
        Inside(detections, a.forklift) /\ Visible(a)
            => AtRisk(detections, a.forklift, a.person)
=============================================================================
