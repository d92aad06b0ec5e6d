--------------------------- MODULE LiveViewProofs ---------------------------
(* Theorems about LiveView, for any number of cameras, workers, sessions and *)
(* frames.                                                                   *)
EXTENDS LiveView, SequenceTheorems, TLAPS

-----------------------------------------------------------------------------
(* The list of cameras                                                      *)

\* A camera that is appended leaves the others where they are.
LEMMA AppendCamera ==
  ASSUME NEW l \in Seq(Cameras), NEW c \in Cameras
  PROVE  /\ Append(l, c) \in Seq(Cameras)
         /\ Len(Append(l, c)) = Len(l) + 1 /\ Len(l) \in Nat
         /\ \A i \in 1 .. Len(l) : Append(l, c)[i] = l[i]
BY AppendProperties, LenProperties

\* Where the cameras of a list are.
LEMMA ListParts ==
  ASSUME NEW l \in Seq(Cameras)
  PROVE  /\ Len(l) \in Nat /\ DOMAIN l = 1 .. Len(l)
         /\ \A i \in DOMAIN l : l[i] \in Cameras
         /\ l # <<>> => Len(l) > 0 /\ Head(l) = l[1] /\ Head(l) \in Cameras
<1>1. /\ Len(l) \in Nat /\ DOMAIN l = 1 .. Len(l)
      /\ \A i \in 1 .. Len(l) : l[i] \in Cameras
  BY LenProperties, ElementOfSeq
<1>2. l # <<>> => Len(l) > 0
  BY <1>1, EmptySeq
<1>3. ASSUME l # <<>>
      PROVE  Head(l) = l[1] /\ l[1] \in Cameras
  <2>1. 1 \in 1 .. Len(l)
    BY <1>1, <1>2, <1>3
  <2>2. QED  BY <1>1, <2>1, <1>3, HeadTailProperties
<1>4. QED  BY <1>1, <1>2, <1>3

-----------------------------------------------------------------------------
(* Types                                                                    *)

\* What a request can ask for.
Requested == [path : Paths, camera : Cameras \cup {All}]

\* What a session sends pairs cameras with numbers.
LEMMA ContentType ==
  ASSUME TypeOK, NEW a \in Requested
  PROVE  Content(a) \in Shown
<1>1. order \in Seq(Cameras) /\ latest \in [Cameras -> Nat] /\ boxes \in [Cameras -> Nat]
  BY DEF TypeOK
<1>2. a.camera \in Cameras \cup {All}
  BY DEF Requested
<1>3. PictureFor(a.camera) \in Shown
  <2> DEFINE c == IF a.camera = All /\ order # <<>> THEN Head(order) ELSE a.camera
  <2>1. c \in Cameras \cup {All}
    BY <1>1, <1>2, ListParts
  <2>2. CASE c = All
    BY <2>2 DEF PictureFor, Shown
  <2>3. CASE c # All
    <3>1. c \in Cameras /\ latest[c] \in Nat
      BY <1>1, <2>1, <2>3
    <3>2. PictureFor(a.camera) = {<<c, latest[c]>>} \ {<<c, 0>>}
      BY <2>3 DEF PictureFor
    <3>3. QED  BY <3>1, <3>2 DEF Shown
  <2>4. QED  BY <2>2, <2>3
<1>4. BoxesFor(a.camera) \in Shown
  BY <1>1 DEF BoxesFor, Shown
<1>5. Places \in Shown
  <2>1. \A i \in DOMAIN order : order[i] \in Cameras /\ i \in Nat
    BY <1>1, ListParts
  <2>2. QED  BY <2>1 DEF Places, Shown
<1>6. QED  BY <1>3, <1>4, <1>5 DEF Content, Shown

\* The counter of a stream of boxes is a number.
LEMMA SeqType ==
  ASSUME TypeOK, NEW c \in Cameras \cup {All}
  PROVE  SeqFor(c) \in Nat
BY CamerasAssumption DEF TypeOK, SeqFor

\* Every step of the workers keeps the types.
LEMMA PublishTypes ==
  ASSUME TypeOK, NEW w \in Workers, Publish(w)
  PROVE  TypeOK'
<1>1. CameraOf[w] \in Cameras
  BY WorkersAssumption
<1>2. CASE TakeFrame(w)
  <2>1. PICK n \in taken[CameraOf[w]] + 1 .. MaxFrames :
             /\ taken' = [taken EXCEPT ![CameraOf[w]] = n]
             /\ frame' = [frame EXCEPT ![w] = n]
    BY <1>2 DEF TakeFrame
  <2>2. n \in Nat
    <3>1. taken[CameraOf[w]] \in Nat
      BY <1>1 DEF TypeOK
    <3>2. QED  BY <3>1
  <2>3. QED  BY <1>2, <2>1, <2>2 DEF TakeFrame, TypeOK, WorkerPlaces, stateVars, sessionVars
<1>3. CASE Store(w)
  <2>1. order' \in Seq(Cameras)
    BY <1>1, <1>3, AppendCamera DEF Store, TypeOK
  <2>2. QED  BY <1>1, <1>3, <2>1 DEF Store, TypeOK, WorkerPlaces, sessionVars
<1>4. CASE StoreDets(w)
  BY <1>1, <1>4 DEF StoreDets, TypeOK, WorkerPlaces, sessionVars
<1>5. CASE NotStored(w) \/ DetsNotStored(w)
  BY <1>5 DEF NotStored, DetsNotStored, TypeOK, WorkerPlaces, stateVars, sessionVars
<1>6. QED  BY <1>2, <1>3, <1>4, <1>5 DEF Publish

\* Every step of a session keeps the types.
LEMMA SessionTypes ==
  ASSUME TypeOK, NEW s \in Sessions,
         Accept(s) \/ Tick(s) \/ Write(s) \/ \E a \in Asks : Route(s, a)
  PROVE  TypeOK'
<1> USE DEF SessionPlaces, workerVars, stateVars
<1>1. ask[s] \in Requested
  BY DEF TypeOK, Requested
<1>2. Content(ask[s]) \in Shown /\ SeqFor(ask[s].camera) \in Nat
  BY <1>1, ContentType, SeqType DEF Requested
<1>3. CASE Accept(s)
  BY <1>3 DEF Accept, TypeOK
<1>4. CASE Send(s)
  BY <1>2, <1>4 DEF Send, TypeOK
<1>5. CASE Idle(s)
  BY <1>5 DEF Idle, TypeOK
<1>6. CASE WriteDone(s)
  BY <1>6 DEF WriteDone, TypeOK
<1>7. CASE Fails(s)
  BY <1>7 DEF Fails, TypeOK
<1>8. ASSUME NEW a \in Asks, Route(s, a)
      PROVE  TypeOK'
  <2>1. a \in Requested
    BY AsksAssumption DEF Requested
  <2>2. Content(a) \in Shown
    BY <2>1, ContentType
  <2>3. out' \in [Sessions -> Shown]
    <3>1. out \in [Sessions -> Shown]
      BY DEF TypeOK
    <3>2. out' = out \/ out' = [out EXCEPT ![s] = Content(a)]
      BY <1>8 DEF Route
    <3>3. QED  BY <2>2, <3>1, <3>2
  <2>4. session' \in [Sessions -> SessionPlaces] /\ ask' \in [Sessions -> Requested]
    <3>1. session \in [Sessions -> SessionPlaces] /\ ask \in [Sessions -> Requested]
      BY DEF TypeOK, Requested
    <3>2. /\ ask' = [ask EXCEPT ![s] = a]
          /\ \/ session' = [session EXCEPT ![s] = "header"]
             \/ session' = [session EXCEPT ![s] = "answering"]
      BY <1>8 DEF Route
    <3>3. "header" \in SessionPlaces /\ "answering" \in SessionPlaces
      BY DEF SessionPlaces
    <3>4. QED  BY <2>1, <3>1, <3>2, <3>3
  <2>5. QED  BY <1>8, <2>3, <2>4 DEF Route, TypeOK, Requested
<1>9. QED  BY <1>3, <1>4, <1>5, <1>6, <1>7, <1>8 DEF Tick, Write

\* The variables of the viewer keep their types.
THEOREM ViewTypeCorrect == Spec => []TypeOK
<1>1. Init => TypeOK
  <2>1. <<>> \in Seq(Cameras)
    BY EmptySeq
  <2>2. [path |-> "file", camera |-> All] \in [path : Paths, camera : Cameras \cup {All}]
    BY DEF Paths
  <2>3. {} \in Shown
    BY DEF Shown
  <2> HIDE DEF Shown
  <2>4. QED  BY <2>1, <2>2, <2>3 DEF Init, TypeOK, WorkerPlaces, SessionPlaces
<1>2. ASSUME TypeOK, [Next]_vars
      PROVE  TypeOK'
  <2>1. CASE Start \/ StartFails \/ StopFlag \/ StopJoins \/ AcceptEnds
    BY <1>2, <2>1 DEF Start, StartFails, StopFlag, StopJoins, AcceptEnds, TypeOK,
                      workerVars, stateVars, sessionVars
  <2>2. CASE UNCHANGED vars
    BY <1>2, <2>2 DEF vars, workerVars, stateVars, sessionVars, TypeOK
  <2>3. QED  BY <1>2, <2>1, <2>2, PublishTypes, SessionTypes DEF Next
<1>3. QED  BY <1>1, <1>2, PTL DEF Spec

-----------------------------------------------------------------------------
(* What a step can mean to one session                                      *)

Acts(s) == Accept(s) \/ Tick(s) \/ Write(s) \/ \E a \in Asks : Route(s, a)

Rests(s) == UNCHANGED <<session[s], ask[s], out[s], lastSeq[s], got[s]>>

\* A step is one of the session itself, or leaves it alone and changes the
\* store in store() or store_dets() only.
LEMMA SessionSteps ==
  ASSUME TypeOK, [Next]_vars, NEW s \in Sessions
  PROVE  \/ Acts(s) /\ UNCHANGED stateVars
         \/ Rests(s) /\ UNCHANGED stateVars
         \/ Rests(s) /\ \E w \in Workers : Store(w) \/ StoreDets(w)
<1>1. ASSUME NEW t \in Sessions, Acts(t)
      PROVE  /\ UNCHANGED stateVars
             /\ t # s => Rests(s)
  BY <1>1 DEF Acts, Accept, Tick, Send, Idle, Write, WriteDone, Fails, Route, Rests, TypeOK
<1>2. ASSUME NEW w \in Workers, Publish(w)
      PROVE  Rests(s) /\ (UNCHANGED stateVars \/ Store(w) \/ StoreDets(w))
  BY <1>2 DEF Publish, TakeFrame, Store, NotStored, StoreDets, DetsNotStored,
              sessionVars, Rests
<1>3. CASE Start \/ StartFails \/ StopFlag \/ StopJoins \/ AcceptEnds \/ UNCHANGED vars
  BY <1>3 DEF Start, StartFails, StopFlag, StopJoins, AcceptEnds, vars, sessionVars, Rests
<1>4. QED  BY <1>1, <1>2, <1>3 DEF Next, Acts

\* A session that has not been asked yet has nothing and has sent nothing.
Blank == \A s \in Sessions : session[s] \in {"none", "reading"} =>
             out[s] = {} /\ got[s] = {} /\ lastSeq[s] = 0 /\ ask[s].path = "file"

\* Nothing is sent before the request is read.
LEMMA BlankAlways == Spec => []Blank
<1>1. Init => Blank
  BY DEF Init, Blank
<1>2. ASSUME TypeOK, Blank, [Next]_vars
      PROVE  Blank'
  <2> SUFFICES ASSUME NEW s \in Sessions, session'[s] \in {"none", "reading"}
               PROVE  /\ out'[s] = {} /\ got'[s] = {} /\ lastSeq'[s] = 0
                      /\ ask'[s].path = "file"
    BY DEF Blank
  <2>1. CASE Rests(s)
    BY <1>2, <2>1 DEF Blank, Rests
  <2>2. CASE Acts(s)
    BY <1>2, <2>2 DEF Blank, Acts, Accept, Tick, Send, Idle, Write, WriteDone, Fails, Route,
                      TypeOK
  <2>3. QED  BY <1>2, <2>1, <2>2, SessionSteps
<1>3. QED  BY <1>1, <1>2, ViewTypeCorrect, PTL DEF Spec

-----------------------------------------------------------------------------
(* The counters of the boxes                                                *)

\* Boxes were counted when they were stored.
Counted == \A c \in Cameras : /\ boxes[c] # 0 => seq[c] # 0
                              /\ boxes[c] # 0 => globalSeq # 0

\* No session is ahead of the counter it compares with.
Behind == \A s \in Sessions :
              ask[s].path = "detections" => lastSeq[s] <= SeqFor(ask[s].camera)

CountInv == Counted /\ Behind /\ NoUpdateMasked

\* store_dets() leaves every session behind, or does not concern it.
LEMMA CountStore ==
  ASSUME TypeOK, CountInv, NEW w \in Workers, StoreDets(w),
         NEW c \in Cameras \cup {All}
  PROVE  \/ SeqFor(c)' = SeqFor(c) + 1
         \/ SeqFor(c)' = SeqFor(c) /\ BoxesFor(c)' = BoxesFor(c)
<1>1. CameraOf[w] \in Cameras
  BY WorkersAssumption
<1>2. CASE c = All \/ c = CameraOf[w]
  BY <1>1, <1>2, CamerasAssumption DEF StoreDets, SeqFor, TypeOK
<1>3. CASE c # All /\ c # CameraOf[w]
  <2>1. c \in Cameras /\ seq'[c] = seq[c] /\ boxes'[c] = boxes[c]
    BY <1>1, <1>3 DEF StoreDets, TypeOK
  <2>2. BoxesFor(c) = {<<d, boxes[d]>> : d \in {e \in {c} : boxes[e] # 0}}
    BY <1>3, <2>1 DEF BoxesFor
  <2>3. BoxesFor(c)' = {<<d, boxes'[d]>> : d \in {e \in {c} : boxes'[e] # 0}}
    BY <1>3, <2>1 DEF BoxesFor
  <2>4. QED  BY <1>3, <2>1, <2>2, <2>3 DEF SeqFor
<1>4. QED  BY <1>2, <1>3

\* sse_tick never takes an update for one it has sent: equal counters mean
\* equal boxes, for one camera and for all of them.
THEOREM UpdatesNotMasked == Spec => []NoUpdateMasked
<1>1. Init => CountInv
  BY DEF Init, CountInv, Counted, Behind, NoUpdateMasked
<1>2. ASSUME TypeOK, TypeOK', Blank, CountInv, [Next]_vars
      PROVE  CountInv'
  <2>1. Counted'
    <3>1. CASE \E w \in Workers : StoreDets(w)
      <4>1. PICK w \in Workers : StoreDets(w)
        BY <3>1
      <4>2. QED  BY <1>2, <4>1, WorkersAssumption, SMTT(20) DEF StoreDets, Counted, CountInv, TypeOK
    <3>2. CASE UNCHANGED <<boxes, seq, globalSeq>>
      BY <1>2, <3>2 DEF Counted, CountInv
    <3>3. UNCHANGED <<boxes, seq, globalSeq>> \/ \E w \in Workers : StoreDets(w)
      BY <1>2 DEF Next, Publish, TakeFrame, Store, NotStored, StoreDets, DetsNotStored,
                  Start, StartFails, StopFlag, StopJoins, AcceptEnds, Accept, Tick, Send,
                  Idle, Write, WriteDone, Fails, Route, vars, stateVars
    <3>4. QED  BY <3>1, <3>2, <3>3
  <2>2. ASSUME NEW s \in Sessions, NEW c \in Cameras \cup {All},
               ask'[s].path = "detections", ask'[s].camera = c
        PROVE  /\ lastSeq'[s] <= SeqFor(c)'
               /\ lastSeq'[s] = SeqFor(c)' => out'[s] = BoxesFor(c)'
    <3>1. SeqFor(c) \in Nat /\ lastSeq[s] \in Nat
      BY <1>2, SeqType DEF TypeOK
    <3>2. CASE Rests(s)
      <4>1. /\ lastSeq'[s] = lastSeq[s] /\ out'[s] = out[s] /\ ask'[s] = ask[s]
            /\ lastSeq[s] <= SeqFor(c)
            /\ lastSeq[s] = SeqFor(c) => out[s] = BoxesFor(c)
        BY <1>2, <2>2, <3>2 DEF Rests, CountInv, Behind, NoUpdateMasked
      <4>2. CASE UNCHANGED stateVars \/ \E w \in Workers : Store(w)
        <5>1. SeqFor(c)' = SeqFor(c) /\ BoxesFor(c)' = BoxesFor(c)
          BY <4>1, <4>2 DEF stateVars, Store, SeqFor, BoxesFor
        <5>2. QED  BY <4>1, <5>1
      <4>3. CASE \E w \in Workers : StoreDets(w)
        <5>1. \/ SeqFor(c)' = SeqFor(c) + 1
              \/ SeqFor(c)' = SeqFor(c) /\ BoxesFor(c)' = BoxesFor(c)
          BY <1>2, <3>1, <4>3, CountStore
        <5>2. QED  BY <3>1, <4>1, <5>1
      <4>4. QED  BY <1>2, <4>2, <4>3, SessionSteps DEF Acts
    <3>3. CASE Acts(s) /\ UNCHANGED stateVars
      <4>1. SeqFor(c)' = SeqFor(c) /\ BoxesFor(c)' = BoxesFor(c)
        BY <3>3 DEF stateVars, SeqFor, BoxesFor
      <4>2. CASE Send(s)
        <5>1. /\ ask'[s] = ask[s] /\ lastSeq'[s] = SeqFor(c) /\ out'[s] = BoxesFor(c)
          BY <1>2, <2>2, <4>2 DEF Send, TypeOK, Content
        <5>2. QED  BY <3>1, <4>1, <5>1
      <4>3. CASE \E a \in Asks : Route(s, a)
        <5>1. lastSeq'[s] = 0 /\ out'[s] = {}
          BY <1>2, <2>2, <4>3 DEF Route, Blank, TypeOK
        <5>2. SeqFor(c) = 0 => BoxesFor(c) = {}
          BY <1>2, <3>1, CamerasAssumption DEF SeqFor, BoxesFor, CountInv, Counted
        <5>3. QED  BY <3>1, <4>1, <5>1, <5>2
      <4>4. CASE Accept(s) \/ Idle(s) \/ Write(s)
        <5>1. lastSeq'[s] = lastSeq[s] /\ out'[s] = out[s] /\ ask'[s] = ask[s]
          BY <4>4 DEF Accept, Idle, Write, WriteDone, Fails
        <5>2. QED  BY <1>2, <2>2, <4>1, <5>1 DEF CountInv, Behind, NoUpdateMasked
      <4>5. QED  BY <3>3, <4>2, <4>3, <4>4 DEF Acts, Tick
    <3>4. QED  BY <1>2, <3>2, <3>3, SessionSteps
  <2>3. \A s \in Sessions : ask'[s].camera \in Cameras \cup {All}
    BY <1>2 DEF TypeOK
  <2>4. Behind'
    BY <2>2, <2>3 DEF Behind, SeqFor
  <2>5. NoUpdateMasked'
    BY <2>2, <2>3 DEF NoUpdateMasked, SeqFor, BoxesFor
  <2>6. QED  BY <2>1, <2>4, <2>5 DEF CountInv
<1>3. QED  BY <1>1, <1>2, ViewTypeCorrect, BlankAlways, PTL DEF Spec, CountInv

-----------------------------------------------------------------------------
(* The places of the cameras                                                *)

\* store() leaves the cameras that are listed at their places.
LEMMA PlacesGrow ==
  ASSUME TypeOK, NEW w \in Workers, Store(w)
  PROVE  /\ Places \subseteq Places'
         /\ order # <<>> => order' # <<>> /\ Head(order') = Head(order)
<1>1. order \in Seq(Cameras) /\ CameraOf[w] \in Cameras
  BY WorkersAssumption DEF TypeOK
<1>2. CASE order' = order
  BY <1>2 DEF Places
<1>3. CASE order' = Append(order, CameraOf[w])
  <2>1. /\ order' \in Seq(Cameras) /\ Len(order') = Len(order) + 1 /\ Len(order) \in Nat
        /\ \A i \in 1 .. Len(order) : order'[i] = order[i]
    BY <1>1, <1>3, AppendCamera
  <2>2. DOMAIN order = 1 .. Len(order) /\ DOMAIN order' = 1 .. Len(order')
    BY <1>1, <2>1, ListParts
  <2>3. \A i \in DOMAIN order : i \in DOMAIN order' /\ order'[i] = order[i]
    BY <2>1, <2>2
  <2>4. Places \subseteq Places'
    BY <2>3 DEF Places
  <2>5. ASSUME order # <<>>
        PROVE  order' # <<>> /\ Head(order') = Head(order)
    <3>1. Len(order) > 0 /\ Head(order) = order[1]
      BY <1>1, <2>5, ListParts
    <3>2. order' # <<>>
      BY <2>1, EmptySeq
    <3>3. Head(order') = order'[1]
      BY <2>1, <3>2, ListParts
    <3>4. QED  BY <2>1, <3>1, <3>2, <3>3
  <2>6. QED  BY <2>4, <2>5
<1>4. QED  BY <1>2, <1>3 DEF Store

\* What /cameras answered stays right, and a stream that named no camera
\* stays with its camera, however many cameras join the list.
THEOREM CamerasStay == Spec => []PlacesKept
<1>1. Init => PlacesKept
  BY DEF Init, PlacesKept
<1>2. ASSUME TypeOK, Blank, PlacesKept, [Next]_vars
      PROVE  PlacesKept'
  <2> SUFFICES ASSUME NEW s \in Sessions
               PROVE  /\ ask'[s].path = "cameras" => out'[s] \cup got'[s] \subseteq Places'
                      /\ (ask'[s].path = "stream" /\ ask'[s].camera = All) =>
                             \A x \in out'[s] \cup got'[s] :
                                 order' # <<>> /\ x[1] = Head(order')
    BY DEF PlacesKept
  <2>1. /\ ask[s].path = "cameras" => out[s] \cup got[s] \subseteq Places
        /\ (ask[s].path = "stream" /\ ask[s].camera = All) =>
               \A x \in out[s] \cup got[s] : order # <<>> /\ x[1] = Head(order)
    BY <1>2 DEF PlacesKept
  <2>2. CASE Rests(s)
    <3>1. ask'[s] = ask[s] /\ out'[s] = out[s] /\ got'[s] = got[s]
      BY <2>2 DEF Rests
    <3>2. CASE order' = order
      BY <2>1, <3>1, <3>2 DEF Places
    <3>3. CASE \E w \in Workers : Store(w)
      BY <1>2, <2>1, <3>1, <3>3, PlacesGrow
    <3>4. order' = order \/ \E w \in Workers : Store(w)
      <4>1. UNCHANGED stateVars \/ \E w \in Workers : Store(w) \/ StoreDets(w)
        BY <1>2, SessionSteps
      <4>2. QED  BY <4>1 DEF stateVars, StoreDets
    <3>5. QED  BY <3>2, <3>3, <3>4
  <2>3. CASE Acts(s) /\ UNCHANGED stateVars
    <3>1. order' = order /\ Places' = Places
      BY <2>3 DEF stateVars, Places
    <3>2. CASE Send(s)
      <4>1. /\ ask'[s] = ask[s] /\ got'[s] = got[s] /\ out'[s] = Content(ask[s])
            /\ session[s] \in {"header", "waiting"}
        BY <1>2, <3>2 DEF Send, TypeOK
      <4>2. ask[s].path = "cameras" => Content(ask[s]) = Places
        BY DEF Content
      <4>3. (ask[s].path = "stream" /\ ask[s].camera = All) =>
               \A x \in Content(ask[s]) : order # <<>> /\ x[1] = Head(order)
        BY DEF Content, PictureFor
      <4>4. QED  BY <2>1, <3>1, <4>1, <4>2, <4>3
    <3>3. ASSUME NEW a \in Asks, Route(s, a)
          PROVE  /\ ask'[s].path = "cameras" => out'[s] \cup got'[s] \subseteq Places
                 /\ ask'[s].path = "stream" => out'[s] \cup got'[s] = {}
      <4>1. ask'[s] = a /\ got'[s] = {} /\ out[s] = {}
        BY <1>2, <3>3 DEF Route, Blank, TypeOK
      <4>2. out'[s] = IF a.path \in {"stream", "detections"} THEN out[s] ELSE Content(a)
        BY <1>2, <3>3 DEF Route, TypeOK
      <4>3. QED  BY <4>1, <4>2 DEF Content
    <3>4. CASE WriteDone(s)
      <4>1. ask'[s] = ask[s] /\ got'[s] = out[s] /\ out'[s] = out[s]
        BY <1>2, <3>4 DEF WriteDone, TypeOK
      <4>2. QED  BY <2>1, <3>1, <4>1
    <3>5. CASE Accept(s) \/ Idle(s) \/ Fails(s)
      <4>1. ask'[s] = ask[s] /\ got'[s] = got[s] /\ out'[s] = out[s]
        BY <3>5 DEF Accept, Idle, Fails
      <4>2. QED  BY <2>1, <3>1, <4>1
    <3>6. QED  BY <2>3, <3>1, <3>2, <3>3, <3>4, <3>5 DEF Acts, Tick, Write
  <2>4. QED  BY <1>2, <2>2, <2>3, SessionSteps
<1>3. QED  BY <1>1, <1>2, ViewTypeCorrect, BlankAlways, PTL DEF Spec

-----------------------------------------------------------------------------
(* Cameras with one worker                                                  *)

OneWorker == \A v, w \in Workers : CameraOf[v] = CameraOf[w] => v = w

\* The frame a worker has is the newest of its camera, and none is ahead.
Recent ==
    /\ \A w \in Workers : frame[w] <= taken[CameraOf[w]]
    /\ \A w \in Workers : worker[w] # "idle" => /\ latest[CameraOf[w]] <= frame[w]
                                                 /\ boxes[CameraOf[w]] <= frame[w]
    /\ \A c \in Cameras : latest[c] <= taken[c] /\ boxes[c] <= taken[c]

\* A worker's step keeps this, and what is stored of a camera only grows.
LEMMA RecentPublish ==
  ASSUME TypeOK, Recent, OneWorker, NEW w \in Workers, Publish(w)
  PROVE  /\ Recent'
         /\ \A c \in Cameras : latest[c] <= latest'[c] /\ boxes[c] <= boxes'[c]
<1>1. CameraOf[w] \in Cameras /\ \A v \in Workers : CameraOf[v] \in Cameras
  BY WorkersAssumption
<1>2. /\ taken \in [Cameras -> Nat] /\ frame \in [Workers -> Nat]
      /\ latest \in [Cameras -> Nat] /\ boxes \in [Cameras -> Nat]
      /\ DOMAIN worker = Workers
  BY DEF TypeOK
<1>3. \A v \in Workers \ {w} : CameraOf[v] # CameraOf[w]
  BY DEF OneWorker
<1>4. CASE TakeFrame(w)
  <2>1. PICK n \in taken[CameraOf[w]] + 1 .. MaxFrames :
             /\ taken' = [taken EXCEPT ![CameraOf[w]] = n]
             /\ frame' = [frame EXCEPT ![w] = n]
    BY <1>4 DEF TakeFrame
  <2>2. latest' = latest /\ boxes' = boxes /\ worker' = [worker EXCEPT ![w] = "publishing"]
    BY <1>4 DEF TakeFrame, stateVars
  <2>3. n \in Int /\ taken[CameraOf[w]] < n
    BY <1>1, <1>2
  <2>4. \A c \in Cameras : taken[c] <= taken'[c] /\ taken'[c] \in Int
    BY <1>1, <1>2, <2>1, <2>3
  <2>5. \A c \in Cameras : latest'[c] <= taken'[c] /\ boxes'[c] <= taken'[c]
    BY <1>2, <2>2, <2>4 DEF Recent
  <2>6. \A v \in Workers : frame'[v] <= taken'[CameraOf[v]]
    BY <1>1, <1>2, <1>3, <2>1, <2>3 DEF Recent
  <2>7. /\ latest[CameraOf[w]] <= n /\ boxes[CameraOf[w]] <= n
    BY <1>1, <1>2, <2>3 DEF Recent
  <2>8. \A v \in Workers : worker'[v] # "idle" => /\ latest'[CameraOf[v]] <= frame'[v]
                                                  /\ boxes'[CameraOf[v]] <= frame'[v]
    BY <1>1, <1>2, <1>3, <2>1, <2>2, <2>7 DEF Recent
  <2>9. QED  BY <1>2, <2>2, <2>5, <2>6, <2>8 DEF Recent
<1>5. CASE Store(w) \/ StoreDets(w)
  <2>1. /\ taken' = taken /\ frame' = frame /\ worker[w] # "idle"
        /\ \A v \in Workers \ {w} : worker'[v] = worker[v]
        /\ \A c \in Cameras : \/ latest'[c] = latest[c]
                              \/ c = CameraOf[w] /\ latest'[c] = frame[w]
        /\ \A c \in Cameras : \/ boxes'[c] = boxes[c]
                              \/ c = CameraOf[w] /\ boxes'[c] = frame[w]
    BY <1>1, <1>2, <1>5 DEF Store, StoreDets
  <2>2. \A c \in Cameras : /\ latest[c] <= latest'[c] /\ boxes[c] <= boxes'[c]
                           /\ latest'[c] <= taken[c] /\ boxes'[c] <= taken[c]
    BY <1>2, <2>1 DEF Recent
  <2>3. latest'[CameraOf[w]] <= frame[w] /\ boxes'[CameraOf[w]] <= frame[w]
    BY <1>1, <1>2, <2>1 DEF Recent
  <2>4. QED  BY <1>1, <1>3, <2>1, <2>2, <2>3 DEF Recent
<1>6. CASE NotStored(w) \/ DetsNotStored(w)
  <2>1. /\ UNCHANGED <<taken, frame, latest, boxes>> /\ worker[w] # "idle"
        /\ \A v \in Workers \ {w} : worker'[v] = worker[v]
    BY <1>2, <1>6 DEF NotStored, DetsNotStored, stateVars
  <2>2. QED  BY <1>2, <2>1 DEF Recent
<1>7. QED  BY <1>4, <1>5, <1>6 DEF Publish

\* What there is of camera c to show to a session with this path.
Newest(path, c) == IF path = "stream" THEN latest[c] ELSE boxes[c]

Live == {"stream", "detections"}

\* A session's client is not ahead of the session, nor that of the store.
Aged(s) ==
    ask[s].path \in Live =>
        /\ \A x \in out[s] \cup got[s] : x[2] <= Newest(ask[s].path, x[1])
        /\ \A x \in got[s], y \in out[s] \cup got[s] : x[1] = y[1] => x[2] <= y[2]
        /\ \A x, y \in out[s] : x[1] = y[1] => x[2] <= y[2]

AgeInv == Recent /\ \A s \in Sessions : Aged(s)

\* What a tick reads is the newest there is.
LEMMA ContentNewest ==
  ASSUME TypeOK, NEW a \in Requested, a.path \in Live, NEW x \in Content(a)
  PROVE  x[1] \in Cameras /\ x[2] = Newest(a.path, x[1]) /\ x[2] \in Nat
<1>1. Content(a) \in Shown
  BY ContentType
<1>2. x[1] \in Cameras /\ x[2] \in Nat
  BY <1>1 DEF Shown
<1>3. CASE a.path = "stream"
  BY <1>2, <1>3 DEF Content, PictureFor, Newest
<1>4. CASE a.path = "detections"
  BY <1>2, <1>4 DEF Content, BoxesFor, Newest
<1>5. QED  BY <1>2, <1>3, <1>4 DEF Live

\* While the store only grows, a session that rests is not ahead of it.
LEMMA AgedRests ==
  ASSUME TypeOK, TypeOK', NEW s \in Sessions, Aged(s), Rests(s),
         \A c \in Cameras : latest[c] <= latest'[c] /\ boxes[c] <= boxes'[c]
  PROVE  Aged(s)'
<1>1. ask'[s] = ask[s] /\ out'[s] = out[s] /\ got'[s] = got[s]
  BY DEF Rests
<1>2. ASSUME ask[s].path \in Live, NEW x \in out[s] \cup got[s]
      PROVE  x[2] <= Newest(ask[s].path, x[1])'
  <2>1. x[1] \in Cameras /\ x[2] \in Nat
    BY SMTT(20) DEF TypeOK, Shown
  <2>2. x[2] <= Newest(ask[s].path, x[1])
    BY <1>2 DEF Aged
  <2>3. /\ latest[x[1]] \in Nat /\ latest'[x[1]] \in Nat
        /\ boxes[x[1]] \in Nat /\ boxes'[x[1]] \in Nat
    BY <2>1 DEF TypeOK
  <2>4. latest[x[1]] <= latest'[x[1]] /\ boxes[x[1]] <= boxes'[x[1]]
    BY <2>1
  <2>5. QED  BY <1>1, <2>1, <2>2, <2>3, <2>4 DEF Newest
<1>3. QED  BY <1>1, <1>2 DEF Aged, Newest

\* A step of the session itself keeps it behind the store.
LEMMA AgedActs ==
  ASSUME TypeOK, Blank, NEW s \in Sessions, Aged(s), Acts(s), UNCHANGED stateVars
  PROVE  Aged(s)'
<1>1. \A path \in Paths, c \in Cameras : Newest(path, c)' = Newest(path, c)
  BY DEF Newest, stateVars
<1>2. CASE Send(s) /\ ask[s].path \in Live
  <2>1. ask'[s] = ask[s] /\ got'[s] = got[s] /\ out'[s] = Content(ask[s])
    BY <1>2 DEF Send, TypeOK
  <2>2. ask[s] \in Requested
    BY DEF TypeOK, Requested
  <2>3. \A x \in out'[s] : /\ x[1] \in Cameras /\ x[2] \in Nat
                           /\ x[2] = Newest(ask[s].path, x[1])
    BY <1>2, <2>1, <2>2, ContentNewest
  <2>4. \A x \in got[s] : x[1] \in Cameras /\ x[2] \in Nat /\ x[2] <= Newest(ask[s].path, x[1])
    BY <1>2 DEF Aged, TypeOK, Shown
  <2>5. \A x \in out'[s] \cup got'[s] : x[2] <= Newest(ask[s].path, x[1])'
    BY <2>1, <2>3, <2>4 DEF Newest, stateVars
  <2>6. \A x \in got'[s], y \in got'[s] : x[1] = y[1] => x[2] <= y[2]
    BY <1>2, <2>1 DEF Aged
  <2>7. \A x \in got'[s] \cup out'[s], y \in out'[s] : x[1] = y[1] => x[2] <= y[2]
    BY <2>1, <2>3, <2>4
  <2>8. QED  BY <2>1, <2>5, <2>6, <2>7 DEF Aged, Newest
<1>3. CASE \E a \in Asks : Route(s, a)
  <2>1. ask'[s].path \in Live => out'[s] = {} /\ got'[s] = {}
    BY <1>3 DEF Route, Blank, TypeOK, Live
  <2>2. QED  BY <2>1 DEF Aged
<1>4. CASE WriteDone(s)
  <2>1. ask'[s] = ask[s] /\ got'[s] = out[s] /\ out'[s] = out[s]
    BY <1>4 DEF WriteDone, TypeOK
  <2>2. latest' = latest /\ boxes' = boxes
    BY DEF stateVars
  <2>3. QED  BY <2>1, <2>2 DEF Aged, Newest
<1>5. CASE (Send(s) /\ ask[s].path \notin Live) \/ Accept(s) \/ Idle(s) \/ Fails(s)
  <2>1. ask'[s] = ask[s] /\ latest' = latest /\ boxes' = boxes
    BY <1>5 DEF Send, Accept, Idle, Fails, stateVars
  <2>2. (Accept(s) \/ Idle(s) \/ Fails(s)) => got'[s] = got[s] /\ out'[s] = out[s]
    BY DEF Accept, Idle, Fails
  <2>3. QED  BY <1>5, <2>1, <2>2 DEF Aged, Newest
<1>6. QED  BY <1>2, <1>3, <1>4, <1>5 DEF Acts, Tick, Write

\* With one worker per camera a client never goes back in time: no picture
\* and no boxes it has are replaced by older ones.
THEOREM ClientsNeverBack == ASSUME OneWorker PROVE Spec => NeverBack
<1>1. Init => AgeInv
  BY WorkersAssumption DEF Init, AgeInv, Recent, Aged, Live
<1>2. ASSUME TypeOK, TypeOK', Blank, AgeInv, [Next]_vars
      PROVE  AgeInv'
  <2>1. Recent' /\ \A c \in Cameras : latest[c] <= latest'[c] /\ boxes[c] <= boxes'[c]
    <3>1. CASE \E w \in Workers : Publish(w)
      BY <1>2, <3>1, RecentPublish DEF AgeInv
    <3>2. CASE UNCHANGED <<taken, worker, frame, latest, boxes>>
      BY <1>2, <3>2 DEF Recent, AgeInv, TypeOK
    <3>3. QED
      BY <1>2, <3>1, <3>2
         DEF Next, Start, StartFails, StopFlag, StopJoins, AcceptEnds, Accept, Tick, Send,
             Idle, Write, WriteDone, Fails, Route, vars, stateVars, workerVars
  <2>2. ASSUME NEW s \in Sessions
        PROVE  Aged(s)'
    <3>1. CASE Rests(s)
      BY <1>2, <2>1, <3>1, AgedRests DEF AgeInv
    <3>2. CASE Acts(s) /\ UNCHANGED stateVars
      BY <1>2, <3>2, AgedActs DEF AgeInv
    <3>3. QED  BY <1>2, <3>1, <3>2, SessionSteps
  <2>3. QED  BY <2>1, <2>2 DEF AgeInv
<1>3. ASSUME TypeOK, AgeInv, [Next]_vars, NEW s \in Sessions, ask[s].path \in Live,
             NEW x \in got[s], NEW y \in got'[s], x[1] = y[1]
      PROVE  x[2] <= y[2]
  <2>1. got'[s] = got[s] \/ got'[s] = out[s]
    <3>1. CASE Rests(s)
      BY <3>1 DEF Rests
    <3>2. CASE Acts(s)
      BY <1>3, <3>2 DEF Acts, Accept, Tick, Send, Idle, Write, WriteDone, Fails, Route, TypeOK
    <3>3. QED  BY <1>3, <3>1, <3>2, SessionSteps
  <2>2. QED  BY <1>3, <2>1 DEF AgeInv, Aged
<1>4. TypeOK /\ AgeInv /\ [Next]_vars =>
          [\A s \in Sessions : ask[s].path \in {"stream", "detections"} =>
               \A x \in got[s], y \in got'[s] : x[1] = y[1] => x[2] <= y[2]]_vars
  BY <1>3 DEF Live
<1>5. QED  BY <1>1, <1>2, <1>4, ViewTypeCorrect, BlankAlways, PTL DEF Spec, NeverBack
=============================================================================
