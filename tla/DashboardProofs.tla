-------------------------- MODULE DashboardProofs --------------------------
(* Theorems about Dashboard, for any number of cameras, slots and restarts,  *)
(* any length of the list of alerts and any number of alerts and lost        *)
(* connections.                                                              *)
EXTENDS Dashboard, SequenceTheorems, TLAPS

USE LimitsAssumption

-----------------------------------------------------------------------------
(* Sequences                                                                *)

\* A new last element leaves the others where they are.
LEMMA AppendLast ==
  ASSUME NEW S, NEW s \in Seq(S), NEW x \in S
  PROVE  /\ Append(s, x) \in Seq(S)
         /\ Len(s) \in Nat /\ DOMAIN s = 1 .. Len(s)
         /\ DOMAIN Append(s, x) = 1 .. Len(s) + 1
         /\ \A i \in 1 .. Len(s) : Append(s, x)[i] = s[i] /\ s[i] \in S
         /\ Append(s, x)[Len(s) + 1] = x
<1>1. Append(s, x) \in Seq(S) /\ Len(Append(s, x)) = Len(s) + 1
  BY AppendProperties
<1>2. Len(s) \in Nat /\ DOMAIN s = 1 .. Len(s) /\ \A i \in 1 .. Len(s) : s[i] \in S
  BY LenProperties, ElementOfSeq
<1>3. /\ \A i \in 1 .. Len(s) : Append(s, x)[i] = s[i]
      /\ Append(s, x)[Len(s) + 1] = x
  BY AppendProperties
<1>4. QED  BY <1>1, <1>2, <1>3, LenProperties

\* The parts of a sequence that is not empty.
LEMMA HeadFirst ==
  ASSUME NEW S, NEW s \in Seq(S), s # <<>>
  PROVE  /\ Head(s) \in S /\ Head(s) = s[1]
         /\ Tail(s) \in Seq(S)
         /\ Len(s) \in Nat \ {0} /\ DOMAIN s = 1 .. Len(s)
         /\ DOMAIN Tail(s) = 1 .. Len(s) - 1
         /\ \A i \in 1 .. Len(s) - 1 : Tail(s)[i] = s[i + 1]
<1>1. Len(s) \in Nat \ {0} /\ DOMAIN s = 1 .. Len(s)
  BY LenProperties, EmptySeq
<1>2. Head(s) \in S /\ Head(s) = s[1]
  <2>1. 1 \in 1 .. Len(s)
    BY <1>1
  <2>2. s[1] \in S
    BY <2>1, ElementOfSeq
  <2>3. QED  BY <2>2, HeadTailProperties
<1>3. Tail(s) \in Seq(S) /\ Len(Tail(s)) = Len(s) - 1
      /\ \A i \in 1 .. Len(Tail(s)) : Tail(s)[i] = s[i + 1]
  BY HeadTailProperties
<1>4. QED  BY <1>1, <1>2, <1>3, LenProperties

\* An alert that is added goes before the others, of which the oldest may go.
LEMMA NewestParts ==
  ASSUME NEW l \in Seq(Nat), NEW a \in Nat
  PROVE  LET new == Newest(<<a>> \o l)
         IN  /\ new \in Seq(Nat) /\ Len(new) <= ListLimit
             /\ \A i \in DOMAIN new :
                    \/ i = 1 /\ new[i] = a
                    \/ i > 1 /\ i - 1 \in DOMAIN l /\ new[i] = l[i - 1]
<1> DEFINE s == <<a>> \o l
           n == IF Len(s) > ListLimit THEN ListLimit ELSE Len(s)
<1>1. Len(l) \in Nat /\ DOMAIN l = 1 .. Len(l)
  BY LenProperties
<1>2. /\ <<a>> \in Seq(Nat) /\ Len(<<a>>) = 1 /\ <<a>>[1] = a
  OBVIOUS
<1>3. /\ s \in Seq(Nat) /\ Len(s) = 1 + Len(l)
      /\ \A i \in 1 .. Len(s) : s[i] = IF i <= 1 THEN <<a>>[i] ELSE l[i - 1]
  BY <1>1, <1>2, ConcatProperties
<1>4. n \in Nat /\ n <= Len(s) /\ n <= ListLimit
  BY <1>1, <1>3
<1>5. /\ SubSeq(s, 1, n) \in Seq(Nat) /\ Len(SubSeq(s, 1, n)) = n
      /\ \A i \in 1 .. n : SubSeq(s, 1, n)[i] = s[i]
  <2> HIDE DEF s, n
  <2>1. \A i \in 1 .. n : s[i] \in Nat
    <3>1. \A i \in 1 .. n : i \in 1 .. Len(s)
      BY <1>1, <1>3, <1>4
    <3>2. QED  BY <1>3, <3>1, ElementOfSeq
  <2>2. SubSeq(s, 1, n) = [i \in 1 .. n |-> s[i]]
    BY <1>4
  <2>3. QED  BY <1>4, <2>1, <2>2, IsASeq
<1>6. Newest(s) = SubSeq(s, 1, n)
  BY DEF Newest
<1>7. DOMAIN SubSeq(s, 1, n) = 1 .. n
  BY <1>5, LenProperties
<1> HIDE DEF s, n
<1>8. ASSUME NEW i \in 1 .. n
      PROVE  \/ i = 1 /\ SubSeq(s, 1, n)[i] = a
             \/ i > 1 /\ i - 1 \in DOMAIN l /\ SubSeq(s, 1, n)[i] = l[i - 1]
  <2>1. i \in 1 .. Len(s) /\ i \in Nat /\ i >= 1
    BY <1>1, <1>3, <1>4
  <2>2. SubSeq(s, 1, n)[i] = s[i]
    BY <1>5
  <2>3. CASE i = 1
    BY <1>2, <1>3, <2>1, <2>2, <2>3
  <2>4. CASE i > 1
    <3>1. i - 1 \in DOMAIN l
      BY <1>1, <1>3, <2>1, <2>4
    <3>2. s[i] = l[i - 1]
      BY <1>3, <2>1, <2>4
    <3>3. QED  BY <2>2, <2>4, <3>1, <3>2
  <2>5. i = 1 \/ i > 1
    BY <2>1
  <2>6. QED  BY <2>3, <2>4, <2>5
<1>9. QED  BY <1>4, <1>5, <1>6, <1>7, <1>8 DEF s

-----------------------------------------------------------------------------
(* Types                                                                    *)

\* What the slots are given is a camera, and what they keep is one or none.
LEMMA AssignTypes ==
  ASSUME TypeOK, NEW cameras \in Seq(Cameras), Assign(cameras)
  PROVE  /\ camId' \in [Slots -> Cameras \cup {None}]
         /\ lastData' \in [Slots -> Cameras \cup {None}]
<1>1. \A i \in Slots : i <= Len(cameras) => cameras[i] \in Cameras
  <2>1. Len(cameras) \in Nat
    BY LenProperties
  <2>2. \A i \in Slots : i <= Len(cameras) => i \in 1 .. Len(cameras)
    BY <2>1 DEF Slots
  <2>3. QED  BY <2>2, ElementOfSeq
<1>2. QED  BY <1>1 DEF Assign, TypeOK

\* The steps of the process keep the types.
LEMMA ProcessTypes ==
  ASSUME TypeOK, Process \/ \E k \in Sockets : Lose(k)
  PROVE  TypeOK'
<1> USE DEF pollVars, slotVars, alertVars, SocketPlaces
<1>1. ASSUME NEW c \in Cameras, CameraAppears(c)
      PROVE  TypeOK'
  <2>1. order' \in Seq(Cameras)
    BY <1>1, AppendLast DEF CameraAppears, TypeOK
  <2>2. QED  BY <1>1, <2>1 DEF CameraAppears, TypeOK
<1>2. CASE Raise
  <2>1. alert' \in Nat
    BY <1>2 DEF Raise, TypeOK
  <2>2. \A k \in Sockets : Append(transit[k], alert') \in Seq(Nat)
    BY <2>1, AppendLast DEF TypeOK
  <2>3. transit' \in [Sockets -> Seq(Nat)]
    BY <1>2, <2>2 DEF Raise, TypeOK
  <2>4. QED  BY <1>2, <2>1, <2>3 DEF Raise, TypeOK
<1>3. CASE Down
  BY <1>3 DEF Down, TypeOK
<1>4. CASE Restart
  <2>1. order' \in Seq(Cameras)
    BY <1>4 DEF Restart
  <2>2. QED  BY <1>4, <2>1 DEF Restart, TypeOK
<1>5. ASSUME NEW k \in Sockets, Lose(k)
      PROVE  TypeOK'
  BY <1>5 DEF Lose, TypeOK
<1>6. QED  BY <1>1, <1>2, <1>3, <1>4, <1>5 DEF Process

\* The discovery of cameras and the boxes keep the types.
LEMMA CellsTypes ==
  ASSUME TypeOK, Cells
  PROVE  TypeOK'
<1> USE DEF serverVars, slotVars, alertVars, PollPlaces
<1>1. CASE PollAgain
  BY <1>1 DEF PollAgain, TypeOK
<1>2. ASSUME NEW p \in Polls, Answer(p)
      PROVE  TypeOK'
  BY <1>2 DEF Answer, TypeOK
<1>3. ASSUME NEW p \in Polls, PollFails(p)
      PROVE  TypeOK'
  <2>1. answer' \in [Polls -> Seq(Cameras)]
    BY <1>3 DEF PollFails, TypeOK
  <2>2. QED  BY <1>3, <2>1 DEF PollFails, TypeOK
<1>4. ASSUME NEW p \in Polls, Use(p)
      PROVE  TypeOK'
  <2>1. answer' \in [Polls -> Seq(Cameras)]
    BY <1>4 DEF Use, TypeOK
  <2>2. answer[p] \in Seq(Cameras) /\ Assign(answer[p])
    BY <1>4 DEF Use, TypeOK
  <2>3. camId' \in [Slots -> Cameras \cup {None}] /\ lastData' \in [Slots -> Cameras \cup {None}]
    BY <2>2, AssignTypes
  <2>4. QED  BY <1>4, <2>1, <2>3 DEF Use, TypeOK
<1>5. ASSUME NEW c \in Cameras, Boxes(c)
      PROVE  TypeOK'
  <2>1. PICK i \in Slots : /\ lastData' = [lastData EXCEPT ![i] = c]
                           /\ drawing' = [drawing EXCEPT ![i] = c]
    BY <1>5 DEF Boxes
  <2>2. /\ lastData' \in [Slots -> Cameras \cup {None}]
        /\ drawing' \in [Slots -> Cameras \cup {None}]
    BY <2>1 DEF TypeOK
  <2>3. QED  BY <1>5, <2>2 DEF Boxes, TypeOK, pollVars
<1>6. CASE AnimationFrame \/ Toggle
  <2>1. \/ canvas' = canvas
        \/ \E data \in {drawing, lastData} :
              canvas' = [i \in Slots |-> IF data[i] = None THEN canvas[i] ELSE data[i]]
    BY <1>6 DEF AnimationFrame, Toggle, DrawFrame
  <2>2. canvas' \in [Slots -> Cameras \cup {None}]
    BY <2>1 DEF TypeOK
  <2>3. drawing' = drawing \/ drawing' = [i \in Slots |-> None]
    BY <1>6 DEF AnimationFrame, Toggle
  <2>4. QED  BY <1>6, <2>2, <2>3 DEF AnimationFrame, Toggle, TypeOK, pollVars
<1>7. QED  BY <1>1, <1>2, <1>3, <1>4, <1>5, <1>6 DEF Cells

\* The callbacks of the alerts keep the types.
LEMMA AlertTypes ==
  ASSUME TypeOK, Reconnect \/ Clear \/ \E k \in Sockets : Connection(k)
  PROVE  TypeOK'
<1> USE DEF serverVars, pollVars, slotVars, SocketPlaces
<1>1. CASE Reconnect
  <2>1. timers' \in Nat
    BY <1>1 DEF Reconnect, TypeOK
  <2>2. socket' \in [Sockets -> SocketPlaces]
    <3>1. socket' = [socket EXCEPT ![Free(socket)] = "connecting"]
      BY <1>1 DEF Reconnect, Opened
    <3>2. QED  BY <3>1 DEF TypeOK
  <2>3. QED  BY <1>1, <2>1, <2>2 DEF Reconnect, TypeOK
<1>2. CASE Clear
  <2>1. list' \in Seq(Nat)
    BY <1>2 DEF Clear
  <2>2. QED  BY <1>2, <2>1 DEF Clear, TypeOK
<1>3. ASSUME NEW k \in Sockets, Connection(k)
      PROVE  TypeOK'
  <2>1. CASE Open(k)
    BY <2>1 DEF Open, TypeOK
  <2>2. CASE Refused(k)
    BY <2>2 DEF Refused, TypeOK
  <2>3. CASE AddAlert(k)
    <3>1. Head(transit[k]) \in Nat /\ Tail(transit[k]) \in Seq(Nat)
      BY <2>3, HeadFirst DEF AddAlert, TypeOK
    <3>2. list' \in Seq(Nat)
      <4>1. list' = Newest(<<Head(transit[k])>> \o list)
        BY <2>3 DEF AddAlert
      <4>2. list \in Seq(Nat)
        BY DEF TypeOK
      <4>3. Newest(<<Head(transit[k])>> \o list) \in Seq(Nat)
        BY <3>1, <4>2, NewestParts
      <4>4. QED  BY <4>1, <4>3
    <3>3. QED  BY <2>3, <3>1, <3>2 DEF AddAlert, TypeOK
  <2>4. CASE OnError(k) \/ OnClose(k)
    <3>1. <<>> \in Seq(Nat)
      OBVIOUS
    <3>2. transit' \in [Sockets -> Seq(Nat)]
      BY <2>4, <3>1 DEF OnError, OnClose, TypeOK
    <3>3. socket' \in [Sockets -> SocketPlaces]
      BY <2>4 DEF OnError, OnClose, TypeOK
    <3>4. timers' \in Nat /\ status' \in {"connecting", "connected", "reconnecting"}
      BY <2>4 DEF OnError, OnClose, TypeOK
    <3>5. QED  BY <2>4, <3>2, <3>3, <3>4 DEF OnError, OnClose, TypeOK
  <2>5. QED  BY <1>3, <2>1, <2>2, <2>3, <2>4 DEF Connection
<1>4. QED  BY <1>1, <1>2, <1>3

\* The types hold when the page is loaded.
LEMMA InitTypes == Init => TypeOK
<1> SUFFICES ASSUME Init
             PROVE  TypeOK
  OBVIOUS
<1>1. <<>> \in Seq(Cameras) /\ <<>> \in Seq(Nat)
  OBVIOUS
<1>2. socket \in [Sockets -> SocketPlaces]
  BY DEF Init, Opened, Unused, SocketPlaces
<1>3. QED  BY <1>1, <1>2 DEF Init, TypeOK, PollPlaces, Polls

\* Every step keeps the types.
LEMMA NextTypes == TypeOK /\ [Next]_vars => TypeOK'
<1> SUFFICES ASSUME TypeOK, [Next]_vars
             PROVE  TypeOK'
  OBVIOUS
<1>1. CASE UNCHANGED vars
  BY <1>1 DEF vars, serverVars, pollVars, slotVars, alertVars, TypeOK
<1>2. CASE Next
  BY <1>2, ProcessTypes, CellsTypes, AlertTypes DEF Next
<1>3. QED  BY <1>1, <1>2

\* The variables of the page and of the process it shows have their types.
THEOREM PageTypeCorrect == Spec => []TypeOK
BY InitTypes, NextTypes, PTL DEF Spec

-----------------------------------------------------------------------------
(* The slots                                                                *)

\* A list is the beginning of the viewer's list.
Begins(l) == \A i \in DOMAIN l : i \in DOMAIN order /\ l[i] = order[i]

\* Without a restart every answer is the beginning of the viewer's list.
Listed == restarts = 0 => \A p \in Polls : Begins(answer[p])

\* Nor does a drawFrame come too late for its slot then.
DrawnInTime == restarts = 0 => \A i \in Slots : drawing[i] \in {None, camId[i]}

SlotsInv == TypeOK /\ Listed /\ DrawnInTime /\ SlotsConsistent

\* Nothing happens to the list, the answers, the cameras and the messages of
\* the slots; what is drawn or due is none, or what was due or drawn before.
LEMMA SlotsIdle ==
  ASSUME SlotsInv, UNCHANGED <<order, restarts, answer, camId, lastData>>,
         \A i \in Slots : drawing'[i] \in {None, drawing[i]},
         \A i \in Slots : canvas'[i] \in {canvas[i], drawing[i], lastData[i]}
  PROVE  (Listed /\ DrawnInTime /\ SlotsConsistent)'
<1>1. Listed'
  BY DEF SlotsInv, Listed, Begins
<1>2. DrawnInTime'
  BY DEF SlotsInv, DrawnInTime
<1>3. SlotsConsistent'
  BY DEF SlotsInv, DrawnInTime, SlotsConsistent
<1>4. QED  BY <1>1, <1>2, <1>3

\* The slots that an answer is used for stay consistent with the viewer.
LEMMA AssignConsistent ==
  ASSUME SlotsInv, NEW p \in Polls, Assign(answer[p]),
         UNCHANGED <<order, restarts, drawing, canvas>>
  PROVE  (DrawnInTime /\ SlotsConsistent)'
<1> SUFFICES ASSUME NEW i \in Slots
             PROVE  /\ restarts = 0 =>
                         /\ camId'[i] # None => i \in DOMAIN order /\ camId'[i] = order[i]
                         /\ canvas[i] \in {None, camId'[i]}
                         /\ drawing[i] \in {None, camId'[i]}
                    /\ lastData'[i] # None =>
                         lastData'[i] = camId'[i] /\ drawing[i] \in {None, camId'[i]}
  BY DEF SlotsConsistent, DrawnInTime
<1>1. answer[p] \in Seq(Cameras) /\ camId \in [Slots -> Cameras \cup {None}]
      /\ lastData \in [Slots -> Cameras \cup {None}]
  BY DEF SlotsInv, TypeOK
<1>2. CASE i <= Len(answer[p]) /\ camId[i] # answer[p][i]
  <2>1. camId'[i] = answer[p][i] /\ lastData'[i] = None
    BY <1>1, <1>2 DEF Assign
  <2>2. i \in DOMAIN answer[p]
    BY <1>1, <1>2, LenProperties DEF Slots
  <2>3. restarts = 0 => i \in DOMAIN order /\ answer[p][i] = order[i]
    BY <2>2 DEF SlotsInv, Listed, Begins
  <2>4. restarts = 0 => camId[i] = None
    BY <1>2, <2>3 DEF SlotsInv, SlotsConsistent
  <2>5. restarts = 0 => canvas[i] = None /\ drawing[i] = None
    BY <2>4 DEF SlotsInv, SlotsConsistent, DrawnInTime
  <2>6. QED  BY <2>1, <2>3, <2>5
<1>3. CASE ~(i <= Len(answer[p]) /\ camId[i] # answer[p][i])
  <2>1. camId'[i] = camId[i] /\ lastData'[i] = lastData[i]
    BY <1>1, <1>3 DEF Assign
  <2>2. QED  BY <2>1 DEF SlotsInv, SlotsConsistent, DrawnInTime
<1>4. QED  BY <1>2, <1>3

\* A list that grows, or is lost in a restart, keeps answers and slots right.
LEMMA ProcessConsistent ==
  ASSUME SlotsInv, Process
  PROVE  (Listed /\ DrawnInTime /\ SlotsConsistent)'
<1>1. ASSUME NEW c \in Cameras, CameraAppears(c)
      PROVE  (Listed /\ DrawnInTime /\ SlotsConsistent)'
  <2>1. \A i \in DOMAIN order : i \in DOMAIN order' /\ order'[i] = order[i]
    <3>1. order \in Seq(Cameras)
      BY DEF SlotsInv, TypeOK
    <3>2. order' = Append(order, c)
      BY <1>1 DEF CameraAppears
    <3>3. QED  BY <3>1, <3>2, AppendLast
  <2>2. UNCHANGED <<restarts, answer, camId, lastData, drawing, canvas>>
    BY <1>1 DEF CameraAppears, pollVars, slotVars
  <2>3. QED  BY <2>1, <2>2 DEF SlotsInv, Listed, Begins, DrawnInTime, SlotsConsistent
<1>2. CASE Raise \/ Down
  BY <1>2, SlotsIdle DEF Raise, Down, pollVars, slotVars
<1>3. CASE Restart
  <2>1. restarts' # 0
    BY <1>3 DEF Restart, SlotsInv, TypeOK
  <2>2. UNCHANGED <<camId, lastData, drawing>>
    BY <1>3 DEF Restart, slotVars
  <2>3. QED  BY <2>1, <2>2 DEF SlotsInv, Listed, DrawnInTime, SlotsConsistent
<1>4. QED  BY <1>1, <1>2, <1>3 DEF Process

\* Discovery in any order, and boxes at any time, keep answers and slots right.
LEMMA CellsConsistent ==
  ASSUME SlotsInv, Cells
  PROVE  (Listed /\ DrawnInTime /\ SlotsConsistent)'
<1>1. CASE PollAgain
  BY <1>1, SlotsIdle DEF PollAgain, serverVars, slotVars
<1>2. ASSUME NEW p \in Polls, Answer(p)
      PROVE  (Listed /\ DrawnInTime /\ SlotsConsistent)'
  <2>1. /\ answer' = [answer EXCEPT ![p] = order]
        /\ UNCHANGED <<order, restarts, camId, lastData, drawing, canvas>>
    BY <1>2 DEF Answer, serverVars, slotVars
  <2>2. \A q \in Polls : answer'[q] = answer[q] \/ answer'[q] = order
    BY <2>1 DEF SlotsInv, TypeOK
  <2>3. QED  BY <2>1, <2>2 DEF SlotsInv, Listed, Begins, DrawnInTime, SlotsConsistent
<1>3. ASSUME NEW p \in Polls, PollFails(p) \/ Use(p)
      PROVE  Listed'
  <2>1. answer' = [answer EXCEPT ![p] = <<>>] /\ UNCHANGED <<order, restarts>>
    BY <1>3 DEF PollFails, Use, serverVars
  <2>2. \A q \in Polls : answer'[q] = answer[q] \/ answer'[q] = <<>>
    BY <2>1 DEF SlotsInv, TypeOK
  <2>3. DOMAIN <<>> = {}
    OBVIOUS
  <2>4. QED  BY <2>1, <2>2, <2>3 DEF SlotsInv, Listed, Begins
<1>4. ASSUME NEW p \in Polls, PollFails(p)
      PROVE  (DrawnInTime /\ SlotsConsistent)'
  BY <1>4 DEF PollFails, serverVars, slotVars, SlotsInv, DrawnInTime, SlotsConsistent
<1>5. ASSUME NEW p \in Polls, Use(p)
      PROVE  (DrawnInTime /\ SlotsConsistent)'
  BY <1>5, AssignConsistent DEF Use, serverVars
<1>6. ASSUME NEW c \in Cameras, Boxes(c)
      PROVE  (Listed /\ DrawnInTime /\ SlotsConsistent)'
  <2>1. PICK i \in Slots : /\ camId[i] = c
                           /\ lastData' = [lastData EXCEPT ![i] = c]
                           /\ drawing' = [drawing EXCEPT ![i] = c]
    BY <1>6 DEF Boxes
  <2>2. UNCHANGED <<order, restarts, answer, camId, canvas>>
    BY <1>6 DEF Boxes, serverVars, pollVars
  <2>3. \A j \in Slots : \/ lastData'[j] = lastData[j] /\ drawing'[j] = drawing[j]
                         \/ lastData'[j] = camId[j] /\ drawing'[j] = camId[j]
    BY <2>1 DEF SlotsInv, TypeOK
  <2>4. QED  BY <2>2, <2>3 DEF SlotsInv, Listed, Begins, DrawnInTime, SlotsConsistent
<1>7. CASE AnimationFrame \/ Toggle
  <2>1. UNCHANGED <<order, restarts, answer, camId, lastData>>
    BY <1>7 DEF AnimationFrame, Toggle, serverVars, pollVars
  <2>2. \A i \in Slots : drawing'[i] \in {None, drawing[i]}
    BY <1>7 DEF AnimationFrame, Toggle
  <2>3. \A i \in Slots : canvas'[i] \in {canvas[i], drawing[i], lastData[i]}
    BY <1>7 DEF AnimationFrame, Toggle, DrawFrame
  <2>4. QED  BY <2>1, <2>2, <2>3, SlotsIdle
<1>8. QED  BY <1>1, <1>2, <1>3, <1>4, <1>5, <1>6, <1>7 DEF Cells

\* When the page is loaded it shows nothing and has no answer.
LEMMA InitSlots == Init => SlotsInv
<1> SUFFICES ASSUME Init
             PROVE  SlotsInv
  OBVIOUS
<1>1. \A p \in Polls : answer[p] = <<>>
  BY DEF Init
<1>2. DOMAIN <<>> = {}
  OBVIOUS
<1>3. Listed
  BY <1>1, <1>2 DEF Listed, Begins
<1>4. SlotsConsistent
  BY DEF Init, SlotsConsistent
<1>5. DrawnInTime
  BY DEF Init, DrawnInTime
<1>6. QED  BY <1>3, <1>4, <1>5, InitTypes DEF SlotsInv

\* Every step keeps answers and slots right.
LEMMA NextSlots == SlotsInv /\ [Next]_vars => SlotsInv'
<1> SUFFICES ASSUME SlotsInv, [Next]_vars
             PROVE  SlotsInv'
  OBVIOUS
<1>1. TypeOK'
  BY NextTypes DEF SlotsInv
<1>2. CASE Process \/ Cells
  BY <1>1, <1>2, ProcessConsistent, CellsConsistent DEF SlotsInv
<1>3. CASE Reconnect \/ Clear \/ (\E k \in Sockets : Connection(k) \/ Lose(k)) \/ UNCHANGED vars
  <2>1. UNCHANGED <<order, restarts, answer, camId, lastData, drawing, canvas>>
    BY <1>3 DEF Reconnect, Clear, Connection, Lose, Open, Refused, AddAlert, OnError,
                OnClose, vars, serverVars, pollVars, slotVars
  <2>2. QED  BY <1>1, <2>1, SlotsIdle DEF SlotsInv
<1>4. QED  BY <1>2, <1>3 DEF Next

\* While the process is not restarted slots stream the cameras at their places
\* in the viewer's list and show no boxes of another; after a restart the
\* former camera's boxes may stay in a slot until the first message of its own
\* camera has come, and are not drawn later than that.
THEOREM SlotsStay == Spec => []SlotsConsistent
<1>1. SlotsInv => SlotsConsistent
  BY DEF SlotsInv
<1>2. QED  BY <1>1, InitSlots, NextSlots, PTL DEF Spec

-----------------------------------------------------------------------------
(* The alerts                                                               *)

\* There is one WebSocket in use, or one call of connectAlerts due.
OneConnection ==
    /\ \A j, k \in Sockets : socket[j] # "none" /\ socket[k] # "none" => j = k
    /\ timers > 0 => timers = 1 /\ \A k \in Sockets : socket[k] = "none"

\* A WebSocket that is not in use has nothing to hand over.
NothingLeft == \A k \in Sockets : socket[k] = "none" => transit[k] = <<>>

\* What a WebSocket is to hand over, s, is in order and newer than all shown.
Stream(s) ==
    /\ \A i, j \in DOMAIN s : i < j => s[i] < s[j]
    /\ \A i \in DOMAIN s : s[i] <= alert /\ \A n \in DOMAIN list : list[n] < s[i]

Raised == \A n \in DOMAIN list : list[n] <= alert

AlertsInv ==
    /\ TypeOK /\ OneConnection /\ NothingLeft
    /\ \A k \in Sockets : Stream(transit[k])
    /\ Raised /\ AlertsOnce

\* An alert that is raised is newer than all others.
LEMMA RaiseInOrder ==
  ASSUME AlertsInv, Raise
  PROVE  AlertsInv'
<1>1. TypeOK'
  BY ProcessTypes DEF AlertsInv, Process
<1>2. alert' = alert + 1 /\ alert \in Nat /\ UNCHANGED <<socket, timers, list>>
  BY DEF Raise, AlertsInv, TypeOK
<1>3. \A k \in Sockets : \/ transit'[k] = transit[k]
                         \/ socket[k] = "open" /\ transit'[k] = Append(transit[k], alert')
  BY DEF Raise, AlertsInv, TypeOK
<1>4. list \in Seq(Nat) /\ \A n \in DOMAIN list : list[n] \in Nat
  BY LenProperties, ElementOfSeq DEF AlertsInv, TypeOK
<1>5. ASSUME NEW k \in Sockets
      PROVE  Stream(transit[k])'
  <2> DEFINE s == transit[k]
             a == alert + 1
  <2>1. s \in Seq(Nat) /\ a \in Nat
    BY <1>2 DEF AlertsInv, TypeOK
  <2>2. /\ \A i, j \in DOMAIN s : i < j => s[i] < s[j]
        /\ \A i \in DOMAIN s : s[i] <= alert /\ \A n \in DOMAIN list : list[n] < s[i]
    BY DEF AlertsInv, Stream
  <2>3. \A n \in DOMAIN list : list[n] < a
    BY <1>2, <1>4 DEF AlertsInv, Raised
  <2>4. CASE transit'[k] = s
    <3>1. \A i \in DOMAIN s : s[i] \in Nat
      BY <2>1, LenProperties, ElementOfSeq
    <3>2. \A i \in DOMAIN s : s[i] <= a
      BY <1>2, <2>2, <3>1
    <3>3. QED  BY <1>2, <2>2, <2>4, <3>2 DEF Stream
  <2>5. CASE transit'[k] = Append(s, a)
    <3> DEFINE t == Append(s, a)
    <3>1. /\ Len(s) \in Nat /\ DOMAIN s = 1 .. Len(s) /\ DOMAIN t = 1 .. Len(s) + 1
          /\ \A i \in 1 .. Len(s) : t[i] = s[i] /\ s[i] \in Nat
          /\ t[Len(s) + 1] = a
      BY <2>1, AppendLast
    <3> HIDE DEF s, t
    <3>2. \A i \in DOMAIN t : i = Len(s) + 1 \/ i \in 1 .. Len(s)
      BY <3>1
    <3>3. \A i \in 1 .. Len(s) : t[i] < a
      BY <1>2, <2>2, <3>1
    <3>4. \A i, j \in DOMAIN t : i < j => t[i] < t[j]
      <4> SUFFICES ASSUME NEW i \in DOMAIN t, NEW j \in DOMAIN t, i < j
                   PROVE  t[i] < t[j]
        OBVIOUS
      <4>1. i \in 1 .. Len(s)
        BY <3>1
      <4>2. CASE j = Len(s) + 1
        BY <3>1, <3>3, <4>1, <4>2
      <4>3. CASE j \in 1 .. Len(s)
        BY <2>2, <3>1, <4>1, <4>3
      <4>4. QED  BY <3>2, <4>2, <4>3
    <3>5. \A i \in DOMAIN t : t[i] <= a /\ \A n \in DOMAIN list : list[n] < t[i]
      <4>1. ASSUME NEW i \in 1 .. Len(s)
            PROVE  t[i] <= a /\ \A n \in DOMAIN list : list[n] < t[i]
        BY <2>1, <2>2, <3>1, <3>3
      <4>2. t[Len(s) + 1] <= a /\ \A n \in DOMAIN list : list[n] < t[Len(s) + 1]
        BY <2>1, <2>3, <3>1
      <4>3. QED  BY <3>2, <4>1, <4>2
    <3>6. transit'[k] = t
      BY <2>5 DEF t, s
    <3>7. QED  BY <1>2, <3>4, <3>5, <3>6 DEF Stream
  <2>6. QED  BY <1>2, <1>3, <2>4, <2>5
<1>6. Raised'
  BY <1>2, <1>4 DEF AlertsInv, Raised
<1>7. NothingLeft' /\ OneConnection'
  BY <1>2, <1>3 DEF AlertsInv, NothingLeft, OneConnection
<1>8. QED  BY <1>1, <1>2, <1>5, <1>6, <1>7 DEF AlertsInv, AlertsOnce

\* Alerts are handed over in order, by one WebSocket.
LEMMA AddAlertInOrder ==
  ASSUME AlertsInv, NEW k \in Sockets, AddAlert(k)
  PROVE  AlertsInv'
<1>1. TypeOK'
  BY AlertTypes DEF AlertsInv, Connection
<1> DEFINE s == transit[k]
           a == Head(transit[k])
<1>2. /\ s \in Seq(Nat) /\ s # <<>> /\ list \in Seq(Nat) /\ alert \in Nat
      /\ socket[k] \in {"open", "broken"}
      /\ transit' = [transit EXCEPT ![k] = Tail(s)]
      /\ list' = Newest(<<a>> \o list)
      /\ UNCHANGED <<alert, socket, timers>>
  BY DEF AddAlert, AlertsInv, TypeOK, serverVars
<1>3. /\ a \in Nat /\ a = s[1] /\ Len(s) \in Nat \ {0} /\ DOMAIN s = 1 .. Len(s)
      /\ DOMAIN Tail(s) = 1 .. Len(s) - 1
      /\ \A i \in 1 .. Len(s) - 1 : Tail(s)[i] = s[i + 1]
  BY <1>2, HeadFirst
<1>4. /\ Len(list') <= ListLimit
      /\ \A i \in DOMAIN list' : \/ i = 1 /\ list'[i] = a
                                 \/ i > 1 /\ i - 1 \in DOMAIN list /\ list'[i] = list[i - 1]
  BY <1>2, <1>3, NewestParts
<1>5. /\ \A i, j \in DOMAIN s : i < j => s[i] < s[j]
      /\ \A i \in DOMAIN s : s[i] <= alert /\ \A n \in DOMAIN list : list[n] < s[i]
  BY DEF AlertsInv, Stream
<1>6. \A i \in 1 .. Len(s) : s[i] \in Nat
  BY <1>2, ElementOfSeq
<1>7. /\ \A n \in DOMAIN list : list[n] \in Nat /\ list[n] < a /\ list[n] <= alert
      /\ DOMAIN list \subseteq Nat /\ a <= alert
  <2>1. DOMAIN list \subseteq Nat /\ \A n \in DOMAIN list : list[n] \in Nat
    BY <1>2, LenProperties, ElementOfSeq
  <2>2. 1 \in DOMAIN s
    BY <1>3
  <2>3. QED  BY <1>3, <1>5, <2>1, <2>2 DEF AlertsInv, Raised
<1>8. DOMAIN list' \subseteq Nat
  BY <1>1, LenProperties DEF TypeOK
<1> HIDE DEF s, a
<1>9. \A n \in DOMAIN list' : list'[n] \in Nat /\ list'[n] <= a /\ list'[n] <= alert
  BY <1>2, <1>3, <1>4, <1>7
<1>10. ASSUME NEW i \in DOMAIN list', NEW j \in DOMAIN list', i < j
       PROVE  list'[i] > list'[j]
  <2>1. i \in Nat /\ j \in Nat
    BY <1>8
  <2>2. j > 1 /\ j - 1 \in DOMAIN list /\ list'[j] = list[j - 1]
    <3>1. j # 1
      BY <1>4, <1>10, <2>1
    <3>2. QED  BY <1>4, <3>1
  <2>3. CASE i = 1 /\ list'[i] = a
    BY <1>3, <1>7, <2>2, <2>3
  <2>4. CASE i > 1 /\ i - 1 \in DOMAIN list /\ list'[i] = list[i - 1]
    <3>1. i - 1 < j - 1
      BY <1>10, <2>1
    <3>2. list[i - 1] > list[j - 1]
      BY <2>2, <2>4, <3>1 DEF AlertsInv, AlertsOnce
    <3>3. QED  BY <2>2, <2>4, <3>2
  <2>5. QED  BY <1>4, <2>3, <2>4
<1>11. AlertsOnce'
  BY <1>4, <1>10 DEF AlertsOnce
<1>12. ASSUME NEW q \in Sockets
       PROVE  Stream(transit[q])'
  <2>1. CASE q = k
    <3>1. transit'[q] = Tail(s)
      BY <1>2, <2>1 DEF AlertsInv, TypeOK
    <3>2. \A i \in DOMAIN Tail(s) : i + 1 \in DOMAIN s /\ Tail(s)[i] = s[i + 1] /\ i \in Nat /\ i > 0
      BY <1>3
    <3>3. \A i \in DOMAIN Tail(s) : a < Tail(s)[i] /\ Tail(s)[i] <= alert /\ Tail(s)[i] \in Nat
      <4>1. 1 \in DOMAIN s
        BY <1>3
      <4>2. \A i \in DOMAIN Tail(s) : 1 < i + 1
        BY <3>2
      <4>3. QED  BY <1>3, <1>5, <1>6, <3>2, <4>1, <4>2
    <3>4. \A i, j \in DOMAIN Tail(s) : i < j => Tail(s)[i] < Tail(s)[j]
      <4>1. \A i, j \in DOMAIN Tail(s) : i < j => i + 1 < j + 1
        BY <3>2
      <4>2. QED  BY <1>5, <3>2, <4>1
    <3>5. \A i \in DOMAIN Tail(s) : \A n \in DOMAIN list' : list'[n] < Tail(s)[i]
      BY <1>3, <1>9, <3>3
    <3>6. QED  BY <1>2, <3>1, <3>3, <3>4, <3>5 DEF Stream
  <2>2. CASE q # k
    <3>1. socket[q] = "none"
      BY <1>2, <2>2 DEF AlertsInv, OneConnection
    <3>2. transit'[q] = <<>>
      BY <1>2, <2>2, <3>1 DEF AlertsInv, NothingLeft, TypeOK
    <3>3. DOMAIN <<>> = {}
      OBVIOUS
    <3>4. QED  BY <3>2, <3>3 DEF Stream
  <2>3. QED  BY <2>1, <2>2
<1>13. Raised'
  BY <1>2, <1>9 DEF Raised
<1>14. OneConnection' /\ NothingLeft'
  <2>1. \A q \in Sockets : socket[q] = "none" => transit'[q] = transit[q]
    BY <1>2 DEF AlertsInv, TypeOK
  <2>2. QED  BY <1>2, <2>1 DEF AlertsInv, OneConnection, NothingLeft
<1>15. QED  BY <1>1, <1>11, <1>12, <1>13, <1>14 DEF AlertsInv

\* Nothing that is shown or handed over changes, but for what is thrown away.
LEMMA NothingAdded ==
  ASSUME AlertsInv, TypeOK', OneConnection', UNCHANGED <<alert, list>>,
         \A k \in Sockets : \/ transit'[k] = <<>>
                            \/ transit'[k] = transit[k] /\ (socket'[k] = "none" => socket[k] = "none")
  PROVE  AlertsInv'
<1>1. DOMAIN <<>> = {}
  OBVIOUS
<1>2. \A k \in Sockets : Stream(transit[k])'
  BY <1>1 DEF AlertsInv, Stream
<1>3. NothingLeft'
  BY DEF AlertsInv, NothingLeft
<1>4. QED  BY <1>2, <1>3 DEF AlertsInv, Raised, AlertsOnce

\* A connection that opens, breaks or is told of keeps the alerts right.
LEMMA ConnectionInOrder ==
  ASSUME AlertsInv, NEW k \in Sockets, Connection(k) \/ Lose(k)
  PROVE  AlertsInv'
<1>1. TypeOK'
  BY AlertTypes, ProcessTypes DEF AlertsInv
<1>2. CASE Open(k) \/ Refused(k) \/ Lose(k)
  <2>1. /\ UNCHANGED <<alert, list, transit, timers>>
        /\ \A q \in Sockets : socket'[q] = "none" <=> socket[q] = "none"
    BY <1>2 DEF Open, Refused, Lose, Connected, serverVars, AlertsInv, TypeOK
  <2>2. OneConnection'
    BY <2>1 DEF AlertsInv, OneConnection
  <2>3. QED  BY <1>1, <2>1, <2>2, NothingAdded
<1>3. CASE AddAlert(k)
  BY <1>3, AddAlertInOrder
<1>4. CASE OnError(k)
  <2>1. /\ UNCHANGED <<alert, list, timers>>
        /\ \A q \in Sockets : socket'[q] = "none" <=> socket[q] = "none"
        /\ \A q \in Sockets : transit'[q] = <<>> \/ transit'[q] = transit[q]
    BY <1>4 DEF OnError, serverVars, AlertsInv, TypeOK
  <2>2. OneConnection'
    BY <2>1 DEF AlertsInv, OneConnection
  <2>3. QED  BY <1>1, <2>1, <2>2, NothingAdded
<1>5. CASE OnClose(k)
  <2>1. /\ UNCHANGED <<alert, list>> /\ socket[k] # "none" /\ timers' = timers + 1
        /\ transit'[k] = <<>> /\ socket'[k] = "none"
        /\ \A q \in Sockets \ {k} : transit'[q] = transit[q] /\ socket'[q] = socket[q]
    BY <1>5 DEF OnClose, serverVars, AlertsInv, TypeOK
  <2>2. timers = 0
    BY <2>1 DEF AlertsInv, OneConnection, TypeOK
  <2>3. \A q \in Sockets \ {k} : socket[q] = "none"
    BY <2>1 DEF AlertsInv, OneConnection
  <2>4. OneConnection'
    BY <2>1, <2>2, <2>3 DEF OneConnection
  <2>5. QED  BY <1>1, <2>1, <2>4, NothingAdded
<1>6. QED  BY <1>2, <1>3, <1>4, <1>5 DEF Connection

\* A call of connectAlerts that is due becomes the one connection.
LEMMA ReconnectInOrder ==
  ASSUME AlertsInv, Reconnect
  PROVE  AlertsInv'
<1>1. TypeOK'
  BY AlertTypes DEF AlertsInv
<1>2. /\ timers = 1 /\ timers' = 0 /\ \A k \in Sockets : socket[k] = "none"
      /\ UNCHANGED <<alert, list, transit>>
  BY DEF Reconnect, AlertsInv, OneConnection, serverVars
<1>3. \A k \in Sockets : transit'[k] = <<>>
  BY <1>2 DEF AlertsInv, NothingLeft
<1>4. \A k \in Sockets : k # Free(socket) => socket'[k] = "none"
  BY <1>2 DEF Reconnect, Opened, AlertsInv, TypeOK
<1>5. OneConnection'
  BY <1>2, <1>4 DEF OneConnection
<1>6. QED  BY <1>1, <1>2, <1>3, <1>5, NothingAdded

\* When the page is loaded it makes its first connection.
LEMMA InitAlerts == Init => AlertsInv
<1> SUFFICES ASSUME Init
             PROVE  AlertsInv
  OBVIOUS
<1>1. DOMAIN <<>> = {} /\ Len(<<>>) = 0
  OBVIOUS
<1>2. list = <<>> /\ timers = 0 /\ \A k \in Sockets : transit[k] = <<>>
  BY DEF Init
<1>3. \A k \in Sockets : k # Free(Unused) => socket[k] = "none"
  BY DEF Init, Opened, Unused
<1>4. OneConnection
  BY <1>2, <1>3 DEF OneConnection
<1>5. NothingLeft /\ \A k \in Sockets : Stream(transit[k])
  BY <1>1, <1>2 DEF NothingLeft, Stream
<1>6. Raised /\ AlertsOnce
  BY <1>1, <1>2 DEF Raised, AlertsOnce
<1>7. QED  BY <1>4, <1>5, <1>6, InitTypes DEF AlertsInv

\* Every step keeps the alerts right.
LEMMA NextAlerts == AlertsInv /\ [Next]_vars => AlertsInv'
<1> SUFFICES ASSUME AlertsInv, [Next]_vars
             PROVE  AlertsInv'
  OBVIOUS
<1>1. TypeOK'
  BY NextTypes DEF AlertsInv
<1>2. CASE Raise
  BY <1>2, RaiseInOrder
<1>3. CASE Down
  <2>1. /\ UNCHANGED <<alert, list, transit, timers>>
        /\ \A q \in Sockets : socket'[q] = "none" <=> socket[q] = "none"
    BY <1>3 DEF Down, Connected, AlertsInv, TypeOK
  <2>2. OneConnection'
    BY <2>1 DEF AlertsInv, OneConnection
  <2>3. QED  BY <1>1, <2>1, <2>2, NothingAdded
<1>4. CASE (\E c \in Cameras : CameraAppears(c)) \/ Restart \/ Cells \/ UNCHANGED vars
  <2>1. UNCHANGED <<alert, list, transit, timers, socket>>
    BY <1>4 DEF CameraAppears, Restart, Cells, PollAgain, Answer, PollFails, Use, Boxes,
                AnimationFrame, Toggle, vars, serverVars, alertVars
  <2>2. OneConnection'
    BY <2>1 DEF AlertsInv, OneConnection
  <2>3. QED  BY <1>1, <2>1, <2>2, NothingAdded
<1>5. CASE Clear
  <2>1. UNCHANGED <<alert, transit, timers, socket>> /\ list' = <<>>
    BY <1>5 DEF Clear, serverVars
  <2>2. DOMAIN <<>> = {} /\ Len(<<>>) = 0
    OBVIOUS
  <2>3. QED  BY <1>1, <2>1, <2>2 DEF AlertsInv, OneConnection, NothingLeft, Stream, Raised, AlertsOnce
<1>6. CASE Reconnect
  BY <1>6, ReconnectInOrder
<1>7. ASSUME NEW k \in Sockets, Connection(k) \/ Lose(k)
      PROVE  AlertsInv'
  BY <1>7, ConnectionInOrder
<1>8. QED  BY <1>2, <1>3, <1>4, <1>5, <1>6, <1>7 DEF Next, Process

\* Through lost connections and restarts, the page shows no alert twice or out
\* of order, and no more than MAX_ALERTS.
THEOREM AlertsShownOnce == Spec => []AlertsOnce
<1>1. AlertsInv => AlertsOnce
  BY DEF AlertsInv
<1>2. QED  BY <1>1, InitAlerts, NextAlerts, PTL DEF Spec
=============================================================================
