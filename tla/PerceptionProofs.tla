-------------------------- MODULE PerceptionProofs ---------------------------
(* Proofs about RiskDetection: for every padding policy and every scene, no *)
(* person at risk is overlooked, and away from the left and upper edges of  *)
(* the image nobody else is alerted about.  Perception implements it, so    *)
(* this holds from the output of the model on; and the postprocessing loses *)
(* no anchor of that output but for the two reasons it has.                 *)
EXTENDS Perception, FiniteSetTheorems, WellFoundedInduction, TLAPS

\* What NotNegative returns.
LEMMA NotNegativeBounds ==
    ASSUME NEW n \in Int
    PROVE  /\ NotNegative(n) \in Nat /\ NotNegative(n) >= n
           /\ n >= 0 => NotNegative(n) = n
           /\ n < 0 => NotNegative(n) = 0
BY DEF NotNegative

\* The paddings of a box are natural numbers.
LEMMA PadsTyped == ASSUME NEW b \in Boxes PROVE padX(b) \in Nat /\ padY(b) \in Nat
<1>1. b.width * PadRatio \in Nat /\ b.height * PadRatio \in Nat
  BY PadAssumption DEF Boxes
<1>2. QED  BY <1>1, PadAssumption DEF padX, padY

\* A box in fractions of a pixel is one.
LEMMA FineTyped == ASSUME NEW b \in Boxes PROVE Fine(b) \in Boxes
<1>1. Unit * b.x \in Int /\ Unit * b.y \in Int
  BY PadAssumption DEF Boxes
<1>2. Unit * b.width \in Nat /\ Unit * b.height \in Nat
  BY PadAssumption DEF Boxes
<1>3. QED  BY <1>1, <1>2 DEF Fine, Boxes

\* The four sides of an expanded box.
LEMMA ExpandedSides ==
    ASSUME NEW b \in Boxes, NEW dx \in Nat, NEW dy \in Nat
    PROVE  /\ expanded(b, dx, dy) \in [x : Nat, y : Nat, width : Nat, height : Nat]
           /\ expanded(b, dx, dy).x = NotNegative(b.x - dx)
           /\ expanded(b, dx, dy).y = NotNegative(b.y - dy)
           /\ expanded(b, dx, dy).width = b.width + 2 * dx
           /\ expanded(b, dx, dy).height = b.height + 2 * dy
<1>1. /\ b.x - dx \in Int /\ b.y - dy \in Int
      /\ b.width + 2 * dx \in Nat /\ b.height + 2 * dy \in Nat
  BY DEF Boxes
<1>2. /\ NotNegative(b.width + 2 * dx) = b.width + 2 * dx
      /\ NotNegative(b.height + 2 * dy) = b.height + 2 * dy
      /\ NotNegative(b.x - dx) \in Nat /\ NotNegative(b.y - dy) \in Nat
  BY <1>1, NotNegativeBounds
<1>3. QED  BY <1>1, <1>2 DEF expanded

\* Every point of the image in the padded box is one of the expanded box.
LEMMA ExpandedCovers ==
    ASSUME NEW b \in Boxes, NEW dx \in Nat, NEW dy \in Nat,
           NEW px \in Nat, NEW py \in Nat, Within(px, py, b, dx, dy)
    PROVE  Within(px, py, expanded(b, dx, dy), 0, 0)
<1> DEFINE e == expanded(b, dx, dy)
<1>1. /\ b.x - dx \in Int /\ b.y - dy \in Int
      /\ b.x \in Int /\ b.y \in Int /\ b.width \in Nat /\ b.height \in Nat
  BY DEF Boxes
<1>2. /\ e.x \in Nat /\ e.x >= b.x - dx /\ (e.x = b.x - dx \/ e.x = 0)
      /\ e.y \in Nat /\ e.y >= b.y - dy /\ (e.y = b.y - dy \/ e.y = 0)
      /\ e.width = b.width + 2 * dx /\ e.height = b.height + 2 * dy
  <2>1. /\ e.x = NotNegative(b.x - dx) /\ e.y = NotNegative(b.y - dy)
        /\ e.width = b.width + 2 * dx /\ e.height = b.height + 2 * dy
    BY ExpandedSides
  <2>2. \A n \in Int : /\ NotNegative(n) \in Nat /\ NotNegative(n) >= n
                       /\ NotNegative(n) = n \/ NotNegative(n) = 0
    BY DEF NotNegative
  <2> HIDE DEF e
  <2>3. QED  BY <1>1, <2>1, <2>2
<1>3. /\ b.x - dx <= px /\ px < b.x + b.width + dx
      /\ b.y - dy <= py /\ py < b.y + b.height + dy
  BY DEF Within, right, bottom
<1>4. e.x <= px /\ e.y <= py
  BY <1>1, <1>2, <1>3
<1>5. px < e.x + e.width /\ py < e.y + e.height
  BY <1>1, <1>2, <1>3
<1>6. QED
  <2> HIDE DEF e
  <2>1. Within(px, py, e, 0, 0)
    BY <1>1, <1>2, <1>4, <1>5 DEF Within, right, bottom
  <2>2. QED  BY <2>1 DEF e

\* Boxes with a common point intersect.
LEMMA IntersectsIfShared ==
    ASSUME NEW b, NEW c, NEW px \in Int, NEW py \in Int,
           b.x \in Int, b.y \in Int, b.width \in Int, b.height \in Int,
           c.x \in Int, c.y \in Int, c.width \in Int, c.height \in Int,
           Within(px, py, b, 0, 0), Within(px, py, c, 0, 0)
    PROVE  intersects(b, c)
BY DEF Within, intersects, right, bottom

\* The alerts are those of the last frame.
Current == detections \in Seq(Detections) /\ alerts = evaluate(detections)

\* The alerts at hand are those of the detections at hand.
LEMMA CurrentAlways == Spec => []Current
<1>1. Init => Current
  BY DEF Init, Current, evaluate, OfClass
<1>2. Current /\ [Next]_vars => Current'
  BY ScenesAssumption DEF Current, Next, Frame, vars
<1>3. QED  BY <1>1, <1>2, PTL DEF Spec

\* A pair that evaluate() visits is made of two detections of the frame.
LEMMA PairTyped ==
    ASSUME Current, NEW q \in Pairs(detections)
    PROVE  /\ q[1] \in DOMAIN detections /\ q[2] \in DOMAIN detections
           /\ detections[q[1]].box \in Boxes /\ detections[q[2]].box \in Boxes
           /\ q = <<q[1], q[2]>>
<1>1. q[1] \in DOMAIN detections /\ q[2] \in DOMAIN detections /\ q = <<q[1], q[2]>>
  BY DEF Pairs, OfClass
<1>2. detections[q[1]] \in Detections /\ detections[q[2]] \in Detections
  BY <1>1 DEF Current
<1>3. QED  BY <1>1, <1>2 DEF Detections

(* A person with a point of the image in the padded box of a forklift is    *)
(* alerted about, for every padding policy and every set of scenes.         *)
THEOREM RiskIsAlerted == Spec => []NobodyOverlooked
<1>1. Current => NobodyOverlooked
  <2> SUFFICES ASSUME Current, NEW q \in Pairs(detections),
                      AtRisk(detections, q[1], q[2])
               PROVE  Alerted(q[1], q[2])
    BY DEF NobodyOverlooked
  <2> DEFINE f == Fine(detections[q[1]].box)
             p == Fine(detections[q[2]].box)
             dx == padX(detections[q[1]].box)
             dy == padY(detections[q[1]].box)
  <2>1. f \in Boxes /\ p \in Boxes /\ dx \in Nat /\ dy \in Nat
    BY PairTyped, PadsTyped, FineTyped
  <2>2. PICK px \in p.x .. right(p) - 1, py \in p.y .. bottom(p) - 1 :
            /\ px >= 0 /\ py >= 0
            /\ Within(px, py, p, 0, 0)
            /\ Within(px, py, f, dx, dy)
    BY DEF AtRisk
  <2>3. px \in Nat /\ py \in Nat
    BY <2>1, <2>2 DEF Boxes, right, bottom
  <2>4. Within(px, py, zoneBox(detections[q[1]]), 0, 0)
    BY <2>1, <2>2, <2>3, ExpandedCovers DEF zoneBox
  <2>5. zoneBox(detections[q[1]]) \in [x : Nat, y : Nat, width : Nat, height : Nat]
    BY <2>1, ExpandedSides DEF zoneBox
  <2>6. intersects(zoneBox(detections[q[1]]), p)
    <3> DEFINE z == zoneBox(detections[q[1]])
    <3>1. z.x \in Int /\ z.y \in Int /\ z.width \in Int /\ z.height \in Int
      BY <2>5
    <3>2. p.x \in Int /\ p.y \in Int /\ p.width \in Int /\ p.height \in Int
      BY <2>1 DEF Boxes
    <3>3. px \in Int /\ py \in Int
      BY <2>3
    <3> HIDE DEF z, p
    <3>4. intersects(z, p)
      BY <3>1, <3>2, <3>3, <2>2, <2>4, IntersectsIfShared DEF z
    <3>5. QED  BY <3>4 DEF z, p
  <2>7. q \in {r \in OfClass(detections, "kForklift") \X OfClass(detections, "kPerson") :
                   intersects(zoneBox(detections[r[1]]), Fine(detections[r[2]].box))}
    BY <2>6 DEF Pairs
  <2>8. [forklift |-> q[1], person |-> q[2],
         alert_id |-> alertId(detections, q[1], q[2])] \in alerts
    BY <2>7 DEF Current, evaluate
  <2>9. QED  BY <2>8 DEF Alerted
<1>2. QED  BY <1>1, CurrentAlways, PTL

(* Where the padded box does not reach over the left or upper edge, an      *)
(* alert whose person box and zone are not empty is about a person at risk. *)
THEOREM AlertsAreExactInside == Spec => []NoFalseAlarmInside
<1>1. Current => NoFalseAlarmInside
  <2> SUFFICES ASSUME Current, NEW a \in alerts,
                      Inside(detections, a.forklift), Visible(a)
               PROVE  AtRisk(detections, a.forklift, a.person)
    BY DEF NoFalseAlarmInside
  <2>1. PICK q \in Pairs(detections) :
            /\ a.forklift = q[1] /\ a.person = q[2]
            /\ intersects(zoneBox(detections[q[1]]), Fine(detections[q[2]].box))
    BY DEF Current, evaluate, Pairs
  <2> DEFINE f == Fine(detections[q[1]].box)
             p == Fine(detections[q[2]].box)
             z == zoneBox(detections[q[1]])
             dx == padX(detections[q[1]].box)
             dy == padY(detections[q[1]].box)
  <2>2. f \in Boxes /\ p \in Boxes /\ dx \in Nat /\ dy \in Nat
    BY PairTyped, PadsTyped, FineTyped
  <2>3. /\ p.x \in Int /\ p.y \in Int /\ p.width \in Nat \ {0} /\ p.height \in Nat \ {0}
        /\ f.x \in Int /\ f.y \in Int /\ f.width \in Nat /\ f.height \in Nat
        /\ f.x >= dx /\ f.y >= dy
    BY <2>1, <2>2 DEF Boxes, Empty, Visible, Inside
  <2>4. /\ z.x = f.x - dx /\ z.y = f.y - dy
        /\ z.width = f.width + 2 * dx /\ z.height = f.height + 2 * dy
        /\ z.width # 0 /\ z.height # 0
    <3>1. /\ z.x = NotNegative(f.x - dx) /\ z.y = NotNegative(f.y - dy)
          /\ z.width = f.width + 2 * dx /\ z.height = f.height + 2 * dy
      BY <2>2, ExpandedSides DEF zoneBox
    <3>2. z.width # 0 /\ z.height # 0
      BY <2>1 DEF Empty, Visible
    <3> HIDE DEF f, z, dx, dy
    <3>3. f.x - dx \in Int /\ f.x - dx >= 0 /\ f.y - dy \in Int /\ f.y - dy >= 0
      BY <2>2, <2>3
    <3>4. QED  BY <3>1, <3>2, <3>3, NotNegativeBounds
  <2>5. QED
    <3> HIDE DEF f, p, z, dx, dy
    <3>1. intersects(z, p)
      BY <2>1 DEF z, p
    <3> DEFINE px == IF z.x >= p.x THEN z.x ELSE p.x
               py == IF z.y >= p.y THEN z.y ELSE p.y
    <3>2. px \in Int /\ py \in Int /\ px >= 0 /\ py >= 0
      BY <2>2, <2>3, <2>4
    <3>3. /\ p.x <= px /\ px < p.x + p.width
          /\ p.y <= py /\ py < p.y + p.height
      BY <2>2, <2>3, <2>4, <3>1 DEF intersects, right, bottom
    <3>4. /\ f.x - dx <= px /\ px < f.x + f.width + dx
          /\ f.y - dy <= py /\ py < f.y + f.height + dy
      BY <2>2, <2>3, <2>4, <3>1 DEF intersects, right, bottom
    <3> HIDE DEF px, py
    <3>5. px \in p.x .. right(p) - 1 /\ py \in p.y .. bottom(p) - 1
      BY <2>3, <3>2, <3>3 DEF right, bottom
    <3>6. Within(px, py, p, 0, 0) /\ Within(px, py, f, dx, dy)
      BY <2>2, <2>3, <3>2, <3>3, <3>4 DEF Within, right, bottom
    <3>7. \E x \in p.x .. right(p) - 1 : \E y \in p.y .. bottom(p) - 1 :
            /\ x >= 0 /\ y >= 0
            /\ Within(x, y, p, 0, 0) /\ Within(x, y, f, dx, dy)
      BY <3>2, <3>5, <3>6
    <3>8. QED  BY <2>1, <3>7 DEF AtRisk, p, f, dx, dy
<1>2. QED  BY <1>1, CurrentAlways, PTL

-----------------------------------------------------------------------------

(* What the worker does with a frame is what RiskDetection says of the      *)
(* detections the postprocessor made of it: infer() hands on nothing else.  *)
THEOREM PerceptionImplementsDetection == PerceptionSpec => Spec
<1>1. PerceptionInit => Init
  BY DEF PerceptionInit
<1>2. [PerceptionNext]_perceptionVars => [Next]_vars
  <2>1. ASSUME NEW out \in Outputs, InferAndEvaluate(out)
        PROVE  Next
    <3>1. infer[out] \in Scenes
      BY ScenesAreDetections
    <3>2. QED  BY <2>1, <3>1 DEF InferAndEvaluate, Next
  <2>2. UNCHANGED perceptionVars => UNCHANGED vars
    BY DEF perceptionVars, vars
  <2>3. QED  BY <2>1, <2>2 DEF PerceptionNext
<1>3. QED  BY <1>1, <1>2, PTL DEF PerceptionSpec, Spec

(* From the output tensor to the alerts nobody who was detected at risk is  *)
(* overlooked, and inside of the image the alerts are exact.                *)
THEOREM DetectedRiskIsAlerted ==
    PerceptionSpec => [](NobodyOverlooked /\ NoFalseAlarmInside)
BY PerceptionImplementsDetection, RiskIsAlerted, AlertsAreExactInside, PTL

-----------------------------------------------------------------------------
(* What becomes a detection.  NMSBoxes is a recursive function: that it     *)
(* exists, and what it returns, is shown by induction on the number of      *)
(* anchors looked at, as membership of a set of numbers.                    *)

\* A set of natural numbers that is not empty has a least one.
LEMMA LeastNumber ==
    ASSUME NEW T \in SUBSET Nat, T # {}
    PROVE  \E n \in T : \A m \in T : n <= m
<1> DEFINE R == OpToRel(<, Nat)
<1>1. IsWellFoundedOn(R, Nat)
  BY NatLessThanWellFounded
<1>2. \A x, y \in Nat : y < x => <<y, x>> \in R
  BY DEF OpToRel
<1> HIDE DEF R
<1>3. PICK n \in T : \A m \in T : ~ (<<m, n>> \in R)
  BY <1>1, WFMin
<1>4. ASSUME NEW m \in T
      PROVE  n <= m
  <2>1. ~ (m < n)
    BY <1>2, <1>3
  <2>2. QED  BY <2>1
<1>5. QED  BY <1>4

\* Induction up to N: the numbers a claim holds of are a set.
LEMMA SetInduction ==
    ASSUME NEW N \in Nat, NEW T, 0 \in T,
           \A r \in 0 .. N - 1 : r \in T => r + 1 \in T
    PROVE  0 .. N \subseteq T
<1>1. SUFFICES ASSUME (0 .. N) \ T # {}
               PROVE  FALSE
  OBVIOUS
<1>2. PICK n \in (0 .. N) \ T : \A m \in (0 .. N) \ T : n <= m
  <2>1. (0 .. N) \ T \in SUBSET Nat
    OBVIOUS
  <2>2. QED  BY <1>1, <2>1, LeastNumber
<1>3. n # 0 /\ n - 1 \in 0 .. N - 1
  BY <1>2
<1>4. n - 1 \in T
  BY <1>2, <1>3
<1>5. QED  BY <1>2, <1>3, <1>4

\* The elements of a sequence.
LEMMA Elements ==
    ASSUME NEW E, NEW s \in Seq(E)
    PROVE  /\ Len(s) \in Nat /\ DOMAIN s = 1 .. Len(s)
           /\ \A k \in DOMAIN s : s[k] \in E
OBVIOUS

\* The score of an anchor is a number.
LEMMA ScoreTyped == ASSUME NEW a \in Anchors PROVE BestScore(a) \in 0 .. 100
<1> DEFINE s == a.scores
<1>1. s \in Seq(0 .. 100)
  BY DEF Anchors
<1> HIDE DEF s
<1>2. CASE \A c \in DOMAIN s : s[c] = 0
  BY <1>2 DEF BestScore, BestClass, s
<1>3. CASE ~ \A c \in DOMAIN s : s[c] = 0
  <2> DEFINE T == {100 - s[c] : c \in DOMAIN s}
  <2>1. \A d \in DOMAIN s : s[d] \in 0 .. 100
    BY <1>1, Elements
  <2>2. \A d \in DOMAIN s : 100 - s[d] \in T
    OBVIOUS
  <2>3. \A u \in T : \E d \in DOMAIN s : u = 100 - s[d]
    OBVIOUS
  <2> HIDE DEF T
  <2>4. T \in SUBSET Nat /\ T # {}
    <3>1. \A u \in T : u \in Nat
      BY <2>1, <2>3
    <3>2. QED  BY <3>1, <2>2, <1>3
  <2>5. PICK t \in T : \A u \in T : t <= u
    BY <2>4, LeastNumber
  <2>6. PICK c0 \in DOMAIN s : t = 100 - s[c0]
    BY <2>5, <2>3
  <2>7. \A d \in DOMAIN s : s[d] \in 0 .. 100 /\ s[d] <= s[c0]
    <3>1. \A d \in DOMAIN s : s[d] \in 0 .. 100
      BY <2>1
    <3>2. \A d \in DOMAIN s : 100 - s[c0] <= 100 - s[d]
      BY <2>5, <2>6, <2>2
    <3>3. QED  BY <3>1, <3>2
  <2> DEFINE I == {c \in DOMAIN s : s[c] = s[c0]}
  <2>8. I \in SUBSET Nat /\ I # {}
    BY <1>1
  <2>9. PICK c1 \in I : \A d \in I : c1 <= d
    BY <2>8, LeastNumber
  <2>10. c1 \in DOMAIN s /\ s[c1] = s[c0]
    BY <2>9
  <2>11. \A d \in DOMAIN s : s[d] <= s[c1] /\ (d < c1 => s[d] < s[c1])
    <3>1. ASSUME NEW d \in DOMAIN s PROVE s[d] <= s[c1] /\ (d < c1 => s[d] < s[c1])
      <4>1. s[d] \in 0 .. 100 /\ s[c1] \in 0 .. 100 /\ s[d] <= s[c1]
        BY <2>7, <2>10
      <4>2. d \in Nat /\ c1 \in Nat
        BY <1>1, <2>10
      <4>3. s[d] = s[c1] => c1 <= d
        BY <2>9, <2>10
      <4>4. QED  BY <4>1, <4>2, <4>3
    <3>2. QED  BY <3>1
  <2>12. BestClass(a) \in DOMAIN s
    BY <1>3, <2>10, <2>11 DEF BestClass, s
  <2>13. BestClass(a) # 0
    BY <2>12, <1>1
  <2>14. QED  BY <2>7, <2>12, <2>13 DEF BestScore, s
<1>4. QED  BY <1>2, <1>3

\* In a finite strict order the number of predecessors tells the elements
\* apart, and every number below the size of the set is one.
LEMMA Ranks ==
    ASSUME NEW S, IsFiniteSet(S), NEW P \in [S -> SUBSET S],
           \A i \in S : i \notin P[i],
           \A i, j \in S : j \in P[i] => P[j] \subseteq P[i],
           \A i, j \in S : i = j \/ i \in P[j] \/ j \in P[i]
    PROVE  /\ Cardinality(S) \in Nat
           /\ \A i \in S : Cardinality(P[i]) \in 0 .. Cardinality(S) - 1
           /\ \A i, j \in S : j \in P[i] => Cardinality(P[j]) < Cardinality(P[i])
           /\ \A r \in 0 .. Cardinality(S) - 1 : \E i \in S : Cardinality(P[i]) = r
<1> DEFINE N == Cardinality(S)
           f == [i \in S |-> Cardinality(P[i])]
<1>1. N \in Nat
  BY FS_CardinalityType
<1>2. \A T \in SUBSET S : \A U \in SUBSET T :
          /\ IsFiniteSet(T) /\ Cardinality(T) \in Nat /\ Cardinality(U) \in Nat
          /\ U # T => Cardinality(U) < Cardinality(T)
  <2>1. ASSUME NEW T \in SUBSET S, NEW U \in SUBSET T
        PROVE  /\ IsFiniteSet(T) /\ Cardinality(T) \in Nat /\ Cardinality(U) \in Nat
               /\ U # T => Cardinality(U) < Cardinality(T)
    <3>1. IsFiniteSet(T)
      BY FS_Subset
    <3>2. IsFiniteSet(U) /\ Cardinality(U) <= Cardinality(T)
          /\ (Cardinality(T) = Cardinality(U) => T = U)
      BY <3>1, FS_Subset
    <3>3. Cardinality(T) \in Nat /\ Cardinality(U) \in Nat
      BY <3>1, <3>2, FS_CardinalityType
    <3>4. QED  BY <3>1, <3>2, <3>3
  <2>2. QED  BY <2>1
<1>3. ASSUME NEW i \in S
      PROVE  Cardinality(P[i]) \in 0 .. N - 1
  <2>1. P[i] \in SUBSET S /\ P[i] # S
    OBVIOUS
  <2>2. Cardinality(P[i]) \in Nat /\ Cardinality(P[i]) < N
    BY <1>2, <2>1
  <2>3. QED  BY <1>1, <2>2
<1>4. ASSUME NEW i \in S, NEW j \in S, j \in P[i]
      PROVE  Cardinality(P[j]) < Cardinality(P[i])
  <2>1. P[i] \in SUBSET S /\ P[j] \in SUBSET P[i] /\ P[j] # P[i]
    BY <1>4
  <2>2. QED  BY <1>2, <2>1
<1>5. \A r \in 0 .. N - 1 : \E i \in S : Cardinality(P[i]) = r
  <2>1. f \in [S -> 0 .. N - 1]
    BY <1>3
  <2>2. \A i, j \in S : f[i] = f[j] => i = j
    <3>1. \A i \in S : f[i] \in Int
      BY <1>1, <2>1
    <3>2. \A i, j \in S : j \in P[i] => f[j] < f[i]
      BY <1>4
    <3> HIDE DEF f
    <3>3. QED  BY <3>1, <3>2
  <2> HIDE DEF f
  <2>3. f \in Injection(S, 0 .. N - 1)
    BY <2>1, <2>2 DEF Injection, IsInjective
  <2>4. IsFiniteSet(0 .. N - 1) /\ Cardinality(0 .. N - 1) = N
    BY <1>1, FS_Interval, SMTT(20)
  <2>5. f \in Surjection(S, 0 .. N - 1)
    BY <2>3, <2>4, FS_Injection
  <2>6. \A r \in 0 .. N - 1 : \E i \in S : f[i] = r
    BY <2>5 DEF Surjection
  <2>7. QED  BY <2>6 DEF f
<1>6. QED  BY <1>1, <1>3, <1>4, <1>5

\* The scored anchors that are looked at before anchor i.
Ahead(anchors, i) == {j \in Scored(anchors) : Before(anchors, j, i)}

\* The scored anchors are looked at in a strict order.
LEMMA ScoredOrdered ==
    ASSUME NEW anchors \in Seq(Anchors)
    PROVE  /\ IsFiniteSet(Scored(anchors)) /\ Scored(anchors) \subseteq DOMAIN anchors
           /\ \A i \in Scored(anchors) : ~ Before(anchors, i, i)
           /\ \A i, j, k \in Scored(anchors) :
                 Before(anchors, i, j) /\ Before(anchors, j, k) => Before(anchors, i, k)
           /\ \A i, j \in Scored(anchors) :
                 i = j \/ Before(anchors, i, j) \/ Before(anchors, j, i)
<1> DEFINE S == Scored(anchors)
           s(i) == BestScore(anchors[i])
<1>1. S \subseteq DOMAIN anchors
  BY DEF Scored, Candidates
<1>2. DOMAIN anchors = 1 .. Len(anchors) /\ Len(anchors) \in Nat
  BY Elements
<1>3. IsFiniteSet(S)
  <2>1. IsFiniteSet(1 .. Len(anchors)) /\ S \in SUBSET (1 .. Len(anchors))
    BY <1>1, <1>2, FS_Interval
  <2> HIDE DEF S
  <2>2. QED  BY <2>1, FS_Subset
<1>4. \A i \in S : i \in Int /\ s(i) \in Int
  <2>1. \A i \in DOMAIN anchors : anchors[i] \in Anchors
    BY Elements
  <2>2. \A i \in DOMAIN anchors : BestScore(anchors[i]) \in 0 .. 100
    BY <2>1, ScoreTyped
  <2>3. \A i \in DOMAIN anchors : i \in Int
    BY <1>2
  <2> HIDE DEF S
  <2>4. QED  BY <1>1, <2>2, <2>3
<1>5. \A i, j : Before(anchors, i, j) <=> s(i) > s(j) \/ (s(i) = s(j) /\ i < j)
  BY DEF Before
<1> HIDE DEF S, s
<1>6. /\ \A i \in S : ~ Before(anchors, i, i)
      /\ \A i, j, k \in S : Before(anchors, i, j) /\ Before(anchors, j, k) => Before(anchors, i, k)
      /\ \A i, j \in S : i = j \/ Before(anchors, i, j) \/ Before(anchors, j, i)
  BY <1>4, <1>5
<1>7. QED  BY <1>1, <1>3, <1>6 DEF S

\* Ranked numbers the scored anchors from 1 in that order.
LEMMA RankedInOrder ==
    ASSUME NEW anchors \in Seq(Anchors)
    PROVE  /\ Cardinality(Scored(anchors)) \in Nat
           /\ \A r \in 1 .. Cardinality(Scored(anchors)) :
                 /\ Ranked(anchors, r) \in Scored(anchors)
                 /\ Cardinality(Ahead(anchors, Ranked(anchors, r))) = r - 1
           /\ \A i \in Scored(anchors) :
                 Cardinality(Ahead(anchors, i)) \in 0 .. Cardinality(Scored(anchors)) - 1
           /\ \A i, j \in Scored(anchors) :
                 Before(anchors, j, i)
                    <=> Cardinality(Ahead(anchors, j)) < Cardinality(Ahead(anchors, i))
<1> DEFINE S == Scored(anchors)
           P == [i \in S |-> Ahead(anchors, i)]
<1>1. /\ IsFiniteSet(S)
      /\ \A i \in S : ~ Before(anchors, i, i)
      /\ \A i, j, k \in S : Before(anchors, i, j) /\ Before(anchors, j, k) => Before(anchors, i, k)
      /\ \A i, j \in S : i = j \/ Before(anchors, i, j) \/ Before(anchors, j, i)
  BY ScoredOrdered
<1>2. /\ P \in [S -> SUBSET S]
      /\ \A i, j \in S : j \in P[i] <=> Before(anchors, j, i)
      /\ \A i \in S : P[i] = Ahead(anchors, i)
  BY DEF Ahead
<1> HIDE DEF S, P
<1>3. /\ \A i \in S : i \notin P[i]
      /\ \A i, j \in S : j \in P[i] => P[j] \subseteq P[i]
      /\ \A i, j \in S : i = j \/ i \in P[j] \/ j \in P[i]
  BY <1>1, <1>2
<1>4. /\ Cardinality(S) \in Nat
      /\ \A i \in S : Cardinality(P[i]) \in 0 .. Cardinality(S) - 1
      /\ \A i, j \in S : j \in P[i] => Cardinality(P[j]) < Cardinality(P[i])
      /\ \A r \in 0 .. Cardinality(S) - 1 : \E i \in S : Cardinality(P[i]) = r
  BY <1>1, <1>2, <1>3, Ranks
<1>5. ASSUME NEW r \in 1 .. Cardinality(S)
      PROVE  Ranked(anchors, r) \in S /\ Cardinality(Ahead(anchors, Ranked(anchors, r))) = r - 1
  <2>1. r - 1 \in 0 .. Cardinality(S) - 1
    BY <1>4
  <2>2. \E i \in S : Cardinality(Ahead(anchors, i)) = r - 1
    BY <1>2, <1>4, <2>1
  <2>3. QED  BY <2>2 DEF Ranked, Ahead, S
<1>6. ASSUME NEW i \in S, NEW j \in S
      PROVE  Before(anchors, j, i) <=> Cardinality(Ahead(anchors, j)) < Cardinality(Ahead(anchors, i))
  <2>1. Cardinality(P[i]) \in Int /\ Cardinality(P[j]) \in Int
    BY <1>4
  <2>2. j \in P[i] => Cardinality(P[j]) < Cardinality(P[i])
    BY <1>4
  <2>3. i \in P[j] => Cardinality(P[i]) < Cardinality(P[j])
    BY <1>4
  <2>4. QED  BY <1>2, <1>3, <2>1, <2>2, <2>3
<1>7. \A i \in S : Cardinality(Ahead(anchors, i)) \in 0 .. Cardinality(S) - 1
  BY <1>2, <1>4
<1>8. QED  BY <1>4, <1>5, <1>6, <1>7 DEF S

\* The boxes of two anchors overlap by more than nms_threshold.
Clash(anchors, i, j) == Overlap(Decode(anchors[i]), Decode(anchors[j]))

\* What the suppression makes of the anchors kept so far and one more.
Look(anchors, before, i) ==
    IF \E k \in DOMAIN before : Clash(anchors, i, before[k]) THEN before ELSE Append(before, i)

\* g has looked at the first n anchors.
LooksAt(anchors, g, n) ==
    g = [r \in 0 .. n |-> IF r = 0 THEN <<>>
                          ELSE Look(anchors, g[r - 1], Ranked(anchors, r))]

\* For every number of anchors there is a function that has looked at them.
LEMMA LooksExist ==
    ASSUME NEW anchors, NEW N \in Nat
    PROVE  \E g : LooksAt(anchors, g, N)
<1> DEFINE T == {n \in 0 .. N : \E g : LooksAt(anchors, g, n)}
<1>1. 0 \in T
  <2> DEFINE g == [r \in 0 .. 0 |-> <<>>]
  <2>1. LooksAt(anchors, g, 0)
    BY DEF LooksAt
  <2> HIDE DEF g
  <2>2. QED  BY <2>1
<1>2. ASSUME NEW n \in 0 .. N - 1, n \in T
      PROVE  n + 1 \in T
  <2>1. PICK g : LooksAt(anchors, g, n)
    BY <1>2
  <2> DEFINE h == [r \in 0 .. n + 1 |->
                      IF r = n + 1 THEN Look(anchors, g[n], Ranked(anchors, n + 1)) ELSE g[r]]
  <2>2. h = [r \in 0 .. n + 1 |-> IF r = 0 THEN <<>>
                                  ELSE Look(anchors, h[r - 1], Ranked(anchors, r))]
    <3>1. ASSUME NEW r \in 0 .. n + 1
          PROVE  h[r] = IF r = 0 THEN <<>> ELSE Look(anchors, h[r - 1], Ranked(anchors, r))
      <4>1. CASE r = n + 1
        BY <4>1
      <4>2. CASE r # n + 1
        <5>1. r \in 0 .. n /\ h[r] = g[r]
          BY <4>2
        <5>2. g[r] = IF r = 0 THEN <<>> ELSE Look(anchors, g[r - 1], Ranked(anchors, r))
          BY <2>1, <5>1 DEF LooksAt
        <5>3. r # 0 => h[r - 1] = g[r - 1]
          BY <5>1
        <5> HIDE DEF h
        <5>4. QED  BY <5>1, <5>2, <5>3
      <4>3. QED  BY <4>1, <4>2
    <3> DEFINE H == [r \in 0 .. n + 1 |-> IF r = 0 THEN <<>>
                                          ELSE Look(anchors, h[r - 1], Ranked(anchors, r))]
    <3>2. DOMAIN h = 0 .. n + 1 /\ DOMAIN H = 0 .. n + 1
      OBVIOUS
    <3>3. h = [r \in DOMAIN h |-> h[r]] /\ H = [r \in DOMAIN H |-> H[r]]
      OBVIOUS
    <3>4. \A r \in 0 .. n + 1 : h[r] = H[r]
      BY <3>1
    <3> HIDE DEF h, H
    <3>5. h = H
      BY <3>2, <3>3, <3>4
    <3>6. QED  BY <3>5 DEF H
  <2> HIDE DEF h
  <2>3. LooksAt(anchors, h, n + 1)
    BY <2>2 DEF LooksAt
  <2>4. QED  BY <2>3
<1> HIDE DEF T
<1>3. 0 .. N \subseteq T
  BY <1>1, <1>2, SetInduction
<1>4. N \in T
  BY <1>3
<1>5. QED  BY <1>4 DEF T

\* NMSBoxes is what is kept after all of them.
LEMMA NMSBoxesLooks ==
    ASSUME NEW anchors, Cardinality(Scored(anchors)) \in Nat
    PROVE  \E g : /\ LooksAt(anchors, g, Cardinality(Scored(anchors)))
                  /\ NMSBoxes(anchors) = g[Cardinality(Scored(anchors))]
<1> DEFINE N == Cardinality(Scored(anchors))
           K == CHOOSE g : g = [r \in 0 .. N |->
                  IF r = 0 THEN <<>>
                  ELSE IF \E k \in DOMAIN g[r - 1] :
                              Overlap(Decode(anchors[Ranked(anchors, r)]),
                                      Decode(anchors[g[r - 1][k]]))
                       THEN g[r - 1] ELSE Append(g[r - 1], Ranked(anchors, r))]
<1>1. NMSBoxes(anchors) = K[N]
  BY DEF NMSBoxes
<1>2. \A g : LooksAt(anchors, g, N) <=> g = [r \in 0 .. N |->
                  IF r = 0 THEN <<>>
                  ELSE IF \E k \in DOMAIN g[r - 1] :
                              Overlap(Decode(anchors[Ranked(anchors, r)]),
                                      Decode(anchors[g[r - 1][k]]))
                       THEN g[r - 1] ELSE Append(g[r - 1], Ranked(anchors, r))]
  BY DEF LooksAt, Look, Clash
<1>3. \E g : LooksAt(anchors, g, N)
  BY LooksExist
<1>4. LooksAt(anchors, K, N)
  BY <1>2, <1>3
<1>5. QED  BY <1>1, <1>4

\* The number of anchors looked at before anchor i.
Turn(anchors, i) == Cardinality(Ahead(anchors, i))

(* What was kept of the first n anchors: some of them, in their order, and  *)
(* each exactly if it clashes with none kept before it.                     *)
KeptOf(anchors, n, s) ==
    /\ s \in Seq(Scored(anchors))
    /\ \A k \in DOMAIN s : Turn(anchors, s[k]) < n
    /\ \A k, m \in DOMAIN s : k < m => Before(anchors, s[k], s[m])
    /\ \A i \in Scored(anchors) : Turn(anchors, i) < n =>
          (\E k \in DOMAIN s : s[k] = i)
             <=> \A k \in DOMAIN s : Before(anchors, s[k], i) => ~ Clash(anchors, i, s[k])

\* An appended sequence.
LEMMA Appended ==
    ASSUME NEW E, NEW s \in Seq(E), NEW x \in E
    PROVE  /\ Append(s, x) \in Seq(E)
           /\ DOMAIN Append(s, x) = DOMAIN s \cup {Len(s) + 1}
           /\ Append(s, x)[Len(s) + 1] = x
           /\ \A k \in DOMAIN s : Append(s, x)[k] = s[k] /\ k < Len(s) + 1 /\ k \in Nat
<1>1. /\ Len(s) \in Nat /\ DOMAIN s = 1 .. Len(s)
      /\ DOMAIN Append(s, x) = 1 .. Len(s) + 1
  OBVIOUS
<1>2. /\ Append(s, x) \in Seq(E)
      /\ Append(s, x)[Len(s) + 1] = x
      /\ \A k \in DOMAIN s : Append(s, x)[k] = s[k]
  OBVIOUS
<1>3. 1 .. Len(s) + 1 = (1 .. Len(s)) \cup {Len(s) + 1}
  BY <1>1
<1>4. QED  BY <1>1, <1>2, <1>3

\* Looking at one more anchor keeps that.
LEMMA LookKeeps ==
    ASSUME NEW anchors \in Seq(Anchors), NEW n \in Nat, NEW s, KeptOf(anchors, n, s),
           NEW i0 \in Scored(anchors), Turn(anchors, i0) = n
    PROVE  KeptOf(anchors, n + 1, Look(anchors, s, i0))
<1> DEFINE S == Scored(anchors)
           t == Look(anchors, s, i0)
<1>1. /\ \A i \in S : Turn(anchors, i) \in Nat
      /\ \A i, j \in S : Before(anchors, j, i) <=> Turn(anchors, j) < Turn(anchors, i)
  BY RankedInOrder DEF Turn
<1>2. \A i, j \in S : i = j \/ Before(anchors, i, j) \/ Before(anchors, j, i)
  BY ScoredOrdered
<1>3. /\ s \in Seq(S)
      /\ \A k \in DOMAIN s : s[k] \in S /\ Turn(anchors, s[k]) < n
      /\ \A k, m \in DOMAIN s : k < m => Before(anchors, s[k], s[m])
      /\ \A i \in S : Turn(anchors, i) < n =>
            (\E k \in DOMAIN s : s[k] = i)
               <=> \A k \in DOMAIN s : Before(anchors, s[k], i) => ~ Clash(anchors, i, s[k])
  BY Elements DEF KeptOf
<1>4. \A i \in S : Turn(anchors, i) < n + 1 => i = i0 \/ Turn(anchors, i) < n
  BY <1>1, <1>2
<1>5. \A k \in DOMAIN s : Before(anchors, s[k], i0) /\ s[k] # i0
  BY <1>1, <1>3
<1> HIDE DEF S
<1>6. i0 \in S
  BY DEF S
<1>7. CASE \E k \in DOMAIN s : Clash(anchors, i0, s[k])
  <2>1. t = s
    BY <1>7 DEF Look
  <2>2. \A k \in DOMAIN s : Turn(anchors, s[k]) < n + 1
    BY <1>1, <1>3
  <2>3. ~ \E k \in DOMAIN s : s[k] = i0
    BY <1>5
  <2>4. \A i \in S : Turn(anchors, i) < n + 1 =>
          (\E k \in DOMAIN s : s[k] = i)
             <=> \A k \in DOMAIN s : Before(anchors, s[k], i) => ~ Clash(anchors, i, s[k])
    BY <1>3, <1>4, <1>5, <1>7, <2>3
  <2> HIDE DEF t
  <2>5. KeptOf(anchors, n + 1, s)
    BY <1>3, <2>2, <2>4 DEF KeptOf, S
  <2>6. QED  BY <2>1, <2>5 DEF t
<1>8. CASE \A k \in DOMAIN s : ~ Clash(anchors, i0, s[k])
  <2> DEFINE z == Len(s) + 1
  <2>1. t = Append(s, i0)
    BY <1>8 DEF Look
  <2> HIDE DEF t
  <2>2. /\ t \in Seq(S) /\ DOMAIN t = DOMAIN s \cup {z} /\ t[z] = i0 /\ z \notin DOMAIN s
        /\ \A k \in DOMAIN s : t[k] = s[k] /\ k < z /\ k \in Nat
    BY <1>3, <1>6, <2>1, Appended
  <2>3. z \in Nat
    BY <1>3
  <2> HIDE DEF z
  <2>4. \A k \in DOMAIN t : Turn(anchors, t[k]) < n + 1
    BY <1>1, <1>3, <1>6, <2>2
  <2>5. \A k, m \in DOMAIN t : k < m => Before(anchors, t[k], t[m])
    BY <1>3, <1>5, <2>2, <2>3
  <2>6. ~ Before(anchors, i0, i0)
    BY ScoredOrdered
  <2>7. \A i \in S : Turn(anchors, i) < n => ~ Before(anchors, i0, i) /\ i # i0
    BY <1>1, <1>6
  <2>8. ASSUME NEW i \in S, Turn(anchors, i) < n + 1
        PROVE  (\E k \in DOMAIN t : t[k] = i)
                  <=> \A k \in DOMAIN t : Before(anchors, t[k], i) => ~ Clash(anchors, i, t[k])
    <3>1. CASE i = i0
      BY <3>1, <1>8, <2>2, <2>6
    <3>2. CASE Turn(anchors, i) < n
      <4>1. (\E k \in DOMAIN t : t[k] = i) <=> (\E k \in DOMAIN s : s[k] = i)
        BY <2>2, <2>7, <3>2
      <4>2. (\A k \in DOMAIN t : Before(anchors, t[k], i) => ~ Clash(anchors, i, t[k]))
              <=> \A k \in DOMAIN s : Before(anchors, s[k], i) => ~ Clash(anchors, i, s[k])
        BY <2>2, <2>7, <3>2
      <4>3. QED  BY <1>3, <3>2, <4>1, <4>2
    <3>3. QED  BY <1>4, <2>8, <3>1, <3>2
  <2>9. QED  BY <2>2, <2>4, <2>5, <2>8 DEF KeptOf, S, t
<1>9. QED  BY <1>7, <1>8

\* NMSBoxes keeps, in their order, the scored anchors that clash with none
\* kept before them.
LEMMA NMSBoxesKeeps ==
    ASSUME NEW anchors \in Seq(Anchors)
    PROVE  KeptOf(anchors, Cardinality(Scored(anchors)), NMSBoxes(anchors))
<1> DEFINE S == Scored(anchors)
           N == Cardinality(Scored(anchors))
<1>1. N \in Nat
  BY RankedInOrder
<1>2. PICK g : LooksAt(anchors, g, N) /\ NMSBoxes(anchors) = g[N]
  BY <1>1, NMSBoxesLooks
<1> DEFINE T == {n \in 0 .. N : KeptOf(anchors, n, g[n])}
<1>3. 0 \in T
  <2>1. g[0] = <<>>
    BY <1>1, <1>2 DEF LooksAt
  <2>2. \A i \in S : Turn(anchors, i) \in Nat
    BY RankedInOrder DEF Turn
  <2>3. KeptOf(anchors, 0, <<>>)
    BY <2>2 DEF KeptOf
  <2>4. QED  BY <1>1, <2>1, <2>3
<1>4. ASSUME NEW n \in 0 .. N - 1, n \in T
      PROVE  n + 1 \in T
  <2>1. n + 1 \in 1 .. N /\ n \in Nat /\ (n + 1) - 1 = n /\ n + 1 # 0 /\ n + 1 \in 0 .. N
    BY <1>1
  <2>2. g[n + 1] = Look(anchors, g[n], Ranked(anchors, n + 1))
    BY <1>2, <2>1 DEF LooksAt
  <2>3. Ranked(anchors, n + 1) \in S /\ Turn(anchors, Ranked(anchors, n + 1)) = n
    BY <2>1, RankedInOrder DEF Turn
  <2>4. KeptOf(anchors, n, g[n])
    BY <1>4
  <2>5. KeptOf(anchors, n + 1, g[n + 1])
    BY <2>1, <2>2, <2>3, <2>4, LookKeeps
  <2>6. QED  BY <2>1, <2>5
<1> HIDE DEF T
<1>5. 0 .. N \subseteq T
  BY <1>1, <1>3, <1>4, SetInduction
<1>6. N \in T
  BY <1>1, <1>5
<1>7. QED  BY <1>2, <1>6 DEF T

\* A sequence without a repetition has as many elements as it is long.
LEMMA Distinct ==
    ASSUME NEW s, NEW n \in Nat, \A k, m \in 1 .. n : k < m => s[k] # s[m]
    PROVE  /\ IsFiniteSet({s[k] : k \in 1 .. n})
           /\ Cardinality({s[k] : k \in 1 .. n}) = n
<1> DEFINE T == {s[k] : k \in 1 .. n}
           f == [k \in 1 .. n |-> s[k]]
<1>1. \A k, m \in 1 .. n : f[k] = f[m] => k = m
  <2>1. ASSUME NEW k \in 1 .. n, NEW m \in 1 .. n, k # m
        PROVE  s[k] # s[m]
    <3>1. k < m \/ m < k
      BY <2>1
    <3>2. QED  BY <3>1
  <2>2. QED  BY <2>1
<1>2. f \in [1 .. n -> T] /\ \A x \in T : \E k \in 1 .. n : f[k] = x
  OBVIOUS
<1> HIDE DEF f, T
<1>3. f \in Bijection(1 .. n, T)
  BY <1>1, <1>2 DEF Bijection, Injection, Surjection, IsInjective
<1>4. ExistsBijection(1 .. n, T)
  BY <1>3 DEF ExistsBijection
<1>5. IsFiniteSet(1 .. n) /\ Cardinality(1 .. n) = n
  BY FS_Interval
<1>6. IsFiniteSet(T) /\ Cardinality(T) = n
  BY <1>4, <1>5, FS_Bijection
<1>7. QED  BY <1>6 DEF T

\* The tensor of the last frame is one.
OutputTyped == output \in Seq(Anchors)

\* It always is.
LEMMA OutputAlways == PerceptionSpec => []OutputTyped
<1>1. PerceptionInit => OutputTyped
  BY DEF PerceptionInit, OutputTyped
<1>2. OutputTyped /\ [PerceptionNext]_perceptionVars => OutputTyped'
  BY OutputsAssumption DEF OutputTyped, PerceptionNext, InferAndEvaluate, perceptionVars
<1>3. QED  BY <1>1, <1>2, PTL DEF PerceptionSpec

\* The positions up to the lesser of two numbers.
LEMMA CutAt ==
    ASSUME NEW n \in Nat, NEW x \in Nat
    PROVE  /\ Least(n, x) \in Nat /\ Least(n, x) <= x /\ Least(n, x) <= n
           /\ 1 .. Least(n, x) \subseteq 1 .. n
           /\ \A k \in (1 .. n) \ (1 .. Least(n, x)) :
                 k \in Nat /\ Least(n, x) < k /\ Least(n, x) = x
BY DEF Least

(* The anchors of a tensor that become detections are the first ones of    *)
(* those that the suppression keeps, all of them or max_detections.         *)
LEMMA DetectedPrefix ==
    ASSUME OutputTyped, NEW s, s = NMSBoxes(output)
    PROVE  \E m \in Nat :
              /\ m <= MaxDetections
              /\ 1 .. m \subseteq DOMAIN s
              /\ \A k \in (DOMAIN s) \ (1 .. m) : k \in Nat /\ m < k /\ m = MaxDetections
              /\ \A i : IsDetected(i) <=> \E k \in 1 .. m : s[k] = i
<1> DEFINE S == Scored(output)
           m == Least(Len(s), MaxDetections)
<1>1. s \in Seq(S)
  BY NMSBoxesKeeps DEF OutputTyped, KeptOf
<1>2. Len(s) \in Nat /\ DOMAIN s = 1 .. Len(s)
  BY <1>1, Elements
<1>3. /\ m \in Nat /\ m <= MaxDetections /\ m <= Len(s)
      /\ 1 .. m \subseteq 1 .. Len(s)
      /\ \A k \in (1 .. Len(s)) \ (1 .. m) : k \in Nat /\ m < k /\ m = MaxDetections
  BY <1>2, CutAt, ThresholdsAssumption
<1>4. Kept(output) = SubSeq(s, 1, m)
  BY DEF Kept
<1> HIDE DEF m, S
<1>5. DOMAIN SubSeq(s, 1, m) = 1 .. m /\ \A k \in 1 .. m : SubSeq(s, 1, m)[k] = s[k]
  BY <1>1, <1>2, <1>3
<1>6. \A i : IsDetected(i) <=> \E k \in 1 .. m : s[k] = i
  BY <1>4, <1>5 DEF IsDetected
<1>7. QED  BY <1>2, <1>3, <1>6

(* What the model is sure of is lost to the suppression or to the limit on  *)
(* the number of detections only, for every tensor, every threshold and     *)
(* every limit; and no two detections overlap by more than nms_threshold.   *)
THEOREM DetectionsAreKeptForCause == PerceptionSpec => []KeptForCause
<1>1. OutputTyped => KeptForCause
  <2> SUFFICES ASSUME OutputTyped, NEW i \in DOMAIN output
               PROVE  IsDetected(i) <=>
                        /\ BestScore(output[i]) > ConfThreshold /\ BestClass(output[i]) # 0
                        /\ \A j \in Better(i) : ~Overlap(Decode(output[i]), Decode(output[j]))
                        /\ Cardinality(Better(i)) < MaxDetections
    BY DEF KeptForCause
  <2> DEFINE S == Scored(output)
             s == NMSBoxes(output)
  <2>1. BestScore(output[i]) > ConfThreshold /\ BestClass(output[i]) # 0 <=> i \in S
    <3>1. output[i] \in Anchors
      BY Elements DEF OutputTyped
    <3>2. BestScore(output[i]) \in Int /\ ConfThreshold \in Int
      BY <3>1, ScoreTyped, ThresholdsAssumption
    <3>3. QED  BY <3>2 DEF Scored, Candidates
  <2>2. /\ s \in Seq(S)
        /\ \A k \in DOMAIN s : s[k] \in S
        /\ \A k, q \in DOMAIN s : k < q => Before(output, s[k], s[q])
        /\ \A j \in S : (\E k \in DOMAIN s : s[k] = j)
              <=> \A k \in DOMAIN s : Before(output, s[k], j) => ~ Clash(output, j, s[k])
    <3>1. KeptOf(output, Cardinality(S), s)
      BY NMSBoxesKeeps DEF OutputTyped
    <3>2. \A j \in S : Turn(output, j) < Cardinality(S)
      BY RankedInOrder DEF Turn, OutputTyped
    <3>3. QED  BY <3>1, <3>2, Elements DEF KeptOf
  <2>3. PICK m \in Nat :
            /\ m <= MaxDetections
            /\ 1 .. m \subseteq DOMAIN s
            /\ \A k \in (DOMAIN s) \ (1 .. m) : k \in Nat /\ m < k /\ m = MaxDetections
            /\ \A j : IsDetected(j) <=> \E k \in 1 .. m : s[k] = j
    BY DetectedPrefix
  <2>4. /\ \A j \in S : ~ Before(output, j, j)
        /\ \A j, k, q \in S : Before(output, j, k) /\ Before(output, k, q) => Before(output, j, q)
    BY ScoredOrdered DEF OutputTyped
  <2>5. \A j \in S : j \in DOMAIN output
    BY ScoredOrdered DEF OutputTyped
  <2> HIDE DEF S, s
  <2>6. \A j : j \in Better(i) <=> \E k \in 1 .. m : s[k] = j /\ Before(output, j, i)
    BY <2>2, <2>3, <2>5 DEF Better
  <2>7. \A k, q \in DOMAIN s : k < q => s[k] # s[q]
    BY <2>2, <2>4
  <2>8. /\ MaxDetections \in Nat /\ m <= MaxDetections
        /\ 1 .. m \subseteq DOMAIN s
        /\ \A k \in (DOMAIN s) \ (1 .. m) : k \in Nat /\ m < k /\ m = MaxDetections
    BY <2>3, ThresholdsAssumption
  <2>9. ASSUME NEW n \in 0 .. m
        PROVE  /\ IsFiniteSet({s[k] : k \in 1 .. n})
               /\ Cardinality({s[k] : k \in 1 .. n}) = n
    <3>1. n \in Nat /\ 1 .. n \subseteq DOMAIN s
      BY <2>8
    <3>2. \A k, q \in 1 .. n : k < q => s[k] # s[q]
      BY <2>7, <3>1
    <3>3. QED  BY <3>1, <3>2, Distinct
  <2>10. ASSUME IsDetected(i)
         PROVE  /\ i \in S
                /\ \A j \in Better(i) : ~ Clash(output, i, j)
                /\ Cardinality(Better(i)) < MaxDetections
    <3>1. PICK k \in 1 .. m : s[k] = i
      BY <2>3, <2>10
    <3>2. i \in S /\ k \in DOMAIN s
      BY <2>2, <2>8, <3>1
    <3>3. \A j \in Better(i) : ~ Clash(output, i, j)
      BY <2>2, <2>6, <2>8, <3>1, <3>2
    <3>4. Better(i) \subseteq {s[q] : q \in 1 .. k - 1}
      <4>1. ASSUME NEW q \in 1 .. m, Before(output, s[q], i)
            PROVE  q \in 1 .. k - 1
        <5>1. q \in DOMAIN s /\ q \in Nat /\ k \in Nat
          BY <2>8
        <5>2. q # k
          BY <2>4, <3>1, <3>2, <4>1
        <5>3. ~ (k < q)
          <6>1. SUFFICES ASSUME k < q PROVE FALSE
            OBVIOUS
          <6>2. Before(output, i, s[q])
            BY <2>2, <3>1, <3>2, <5>1, <6>1
          <6>3. Before(output, i, i)
            BY <2>2, <2>4, <3>2, <4>1, <5>1, <6>2
          <6>4. QED  BY <2>4, <3>2, <6>3
        <5>4. QED  BY <5>1, <5>2, <5>3
      <4>2. QED  BY <2>6, <4>1
    <3>5. k - 1 \in 0 .. m /\ k - 1 < MaxDetections
      BY <2>8
    <3> DEFINE T == {s[q] : q \in 1 .. k - 1}
    <3>6. IsFiniteSet(T) /\ Cardinality(T) = k - 1
      BY <2>9, <3>5
    <3>7. Better(i) \in SUBSET T
      BY <3>4
    <3> HIDE DEF T
    <3>8. Cardinality(Better(i)) <= k - 1 /\ IsFiniteSet(Better(i))
      BY <3>6, <3>7, FS_Subset
    <3>9. Cardinality(Better(i)) \in Nat
      BY <3>8, FS_CardinalityType
    <3>10. QED  BY <2>8, <3>2, <3>3, <3>5, <3>8, <3>9
  <2>11. ASSUME i \in S, \A j \in Better(i) : ~ Clash(output, i, j),
                Cardinality(Better(i)) < MaxDetections
         PROVE  IsDetected(i)
    <3>1. SUFFICES ASSUME ~ IsDetected(i) PROVE FALSE
      OBVIOUS
    <3>2. PICK k \in DOMAIN s : s[k] = i \/ (Before(output, s[k], i) /\ Clash(output, i, s[k]))
      BY <2>2, <2>11
    <3>3. k \notin 1 .. m
      BY <2>3, <2>6, <2>11, <3>1, <3>2
    <3>4. k \in Nat /\ m < k /\ m = MaxDetections
      BY <2>8, <3>3
    <3>5. ASSUME NEW q \in 1 .. m
          PROVE  s[q] \in Better(i)
      <4>1. q \in DOMAIN s /\ q < k
        BY <2>8, <3>4
      <4>2. Before(output, s[q], s[k])
        BY <2>2, <4>1
      <4>3. Before(output, s[q], i)
        BY <2>2, <2>4, <2>11, <3>2, <4>1, <4>2
      <4>4. QED  BY <2>6, <4>3
    <3>6. {s[q] : q \in 1 .. m} \subseteq Better(i) /\ Better(i) \subseteq {s[q] : q \in 1 .. m}
      BY <2>6, <3>5
    <3>7. Better(i) = {s[q] : q \in 1 .. m}
      BY <3>6
    <3>8. Cardinality(Better(i)) = m
      <4>1. m \in 0 .. m
        BY <2>8
      <4>2. Cardinality({s[q] : q \in 1 .. m}) = m
        BY <2>9, <4>1
      <4>3. QED  BY <3>7, <4>2
    <3>9. QED  BY <2>8, <2>11, <3>4, <3>8
  <2>12. QED  BY <2>1, <2>10, <2>11 DEF Clash
<1>2. QED  BY <1>1, OutputAlways, PTL
=============================================================================
