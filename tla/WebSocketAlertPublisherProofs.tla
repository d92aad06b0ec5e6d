-------------------- MODULE WebSocketAlertPublisherProofs --------------------
(* Proofs about WebSocketAlertPublisher, for any finite set of publishers,  *)
(* any set of connections and any size of the queue.                        *)
EXTENDS WebSocketAlertPublisher, SequenceTheorems, TLAPS

-----------------------------------------------------------------------------
(* Sequences of alerts                                                      *)

\* The alerts of two sequences joined, as do_drain() joins a backlog and the
\* batch.
LEMMA JoinAlerts ==
  ASSUME NEW a \in Seq(Alerts), NEW b \in Seq(Alerts)
  PROVE  /\ a \o b \in Seq(Alerts)
         /\ Len(a \o b) = Len(a) + Len(b)
         /\ \A i \in 1 .. Len(a) + Len(b) :
               (a \o b)[i] = IF i <= Len(a) THEN a[i] ELSE b[i - Len(a)]
BY ConcatProperties

\* Where the alerts are after publish() appended one.
LEMMA AppendAlert ==
  ASSUME NEW s \in Seq(Alerts), NEW k \in Alerts
  PROVE  /\ Append(s, k) \in Seq(Alerts)
         /\ Len(Append(s, k)) = Len(s) + 1
         /\ \A i \in 1 .. Len(s) : Append(s, k)[i] = s[i]
         /\ Append(s, k)[Len(s) + 1] = k
BY AppendProperties

\* Where the alerts are after the front one is given up or written.
LEMMA TailAlerts ==
  ASSUME NEW s \in Seq(Alerts), s # <<>>
  PROVE  /\ Tail(s) \in Seq(Alerts) /\ Head(s) \in Alerts
         /\ Len(Tail(s)) = Len(s) - 1
         /\ \A i \in 1 .. Len(Tail(s)) : Tail(s)[i] = s[i + 1]
BY HeadTailProperties

\* A backlog is what is written followed by what waits, and split again it
\* gives the same two.
LEMMA BacklogSplits ==
  ASSUME NEW b \in Seq(Alerts)
  PROVE  /\ NowWriting(b) \in Alerts \cup {0}
         /\ NowPending(b) \in Seq(Alerts)
         /\ NowWriting(b) = 0 => b = <<>> /\ NowPending(b) = <<>>
         /\ NowWriting(b) # 0 => <<NowWriting(b)>> \o NowPending(b) = b
<1>1. CASE b = <<>>
  BY <1>1, EmptySeq DEF NowWriting, NowPending
<1>2. CASE b # <<>>
  <2>1. Head(b) \in Alerts /\ Tail(b) \in Seq(Alerts) /\ Len(b) \in Nat \ {0}
    BY <1>2, TailAlerts, EmptySeq
  <2>2. b = <<Head(b)>> \o Tail(b)
    <3>1. 1 \in 1 .. Len(b) /\ Len(b) \in 1 .. Len(b)
      BY <2>1
    <3>2. SubSeq(b, 1, Len(b)) = <<b[1]>> \o SubSeq(b, 1 + 1, Len(b))
      BY <3>1, SubSeqRecursiveFirst
    <3>3. SubSeq(b, 1, Len(b)) = b /\ Tail(b) = SubSeq(b, 2, Len(b))
      BY <1>2, SubSeqFull, TailIsSubSeq
    <3>4. Head(b) = b[1]
      BY <1>2, HeadTailProperties
    <3>5. QED  BY <3>2, <3>3, <3>4
  <2>3. QED  BY <1>2, <2>1, <2>2 DEF NowWriting, NowPending, Alerts
<1>3. QED  BY <1>1, <1>2

\* What a session has still to write is a sequence of alerts.
LEMMA BacklogType ==
  ASSUME TypeOK, NEW s \in Sessions
  PROVE  Backlog(s) \in Seq(Alerts)
<1>1. pending[s] \in Seq(Alerts) /\ writing[s] \in Alerts \cup {0}
  BY DEF TypeOK
<1>2. writing[s] # 0 => <<writing[s]>> \in Seq(Alerts)
  <2>1. ASSUME writing[s] # 0
        PROVE  <<writing[s]>> \in Seq(Alerts)
    <3>1. writing[s] \in Alerts
      BY <1>1, <2>1
    <3>2. QED  BY <3>1
  <2>2. QED  BY <2>1
<1>3. QED  BY <1>1, <1>2, JoinAlerts DEF Backlog

\* The alerts of a sequence from position j + 1 on.
LEMMA SinceParts ==
  ASSUME NEW d \in Seq(Alerts), NEW j \in 0 .. Len(d)
  PROVE  /\ SubSeq(d, j + 1, Len(d)) \in Seq(Alerts)
         /\ Len(SubSeq(d, j + 1, Len(d))) = Len(d) - j
         /\ \A i \in 1 .. Len(d) - j : SubSeq(d, j + 1, Len(d))[i] = d[j + i]
<1> DEFINE l == SubSeq(d, j + 1, Len(d))
<1>1. Len(d) \in Nat /\ j \in Nat /\ j <= Len(d)
  BY LenProperties
<1>2. \A i \in (j + 1) .. Len(d) : d[i] \in Alerts
  BY <1>1, ElementOfSeq
<1>3. /\ l \in Seq(Alerts)
      /\ Len(l) = IF j + 1 <= Len(d) THEN Len(d) - (j + 1) + 1 ELSE 0
      /\ \A i \in 1 .. Len(d) - (j + 1) + 1 : l[i] = d[(j + 1) + i - 1]
  <2>1. j + 1 \in Int /\ Len(d) \in Int
    BY <1>1
  <2> HIDE DEF l
  <2>2. QED  BY <1>2, <2>1, SubSeqProperties DEF l
<1> HIDE DEF l
<1>4. Len(l) = Len(d) - j
  BY <1>1, <1>3
<1>5. \A i \in 1 .. Len(d) - j : i \in 1 .. Len(d) - (j + 1) + 1 /\ (j + 1) + i - 1 = j + i
  BY <1>1
<1>6. QED  BY <1>3, <1>4, <1>5 DEF l

\* What was drained since a session joined grows by what a drain takes.
LEMMA SinceGrows ==
  ASSUME NEW d \in Seq(Alerts), NEW q \in Seq(Alerts), NEW j \in 0 .. Len(d)
  PROVE  SubSeq(d, j + 1, Len(d)) \o q = SubSeq(d \o q, j + 1, Len(d \o q))
<1> DEFINE l == SubSeq(d, j + 1, Len(d))
           r == SubSeq(d \o q, j + 1, Len(d \o q))
<1>1. /\ Len(d) \in Nat /\ Len(q) \in Nat /\ j \in Nat /\ j <= Len(d)
      /\ d \o q \in Seq(Alerts) /\ Len(d \o q) = Len(d) + Len(q)
  BY JoinAlerts, LenProperties
<1>2. /\ l \in Seq(Alerts) /\ Len(l) = Len(d) - j
      /\ \A i \in 1 .. Len(d) - j : l[i] = d[j + i]
  BY SinceParts
<1>3. /\ r \in Seq(Alerts) /\ Len(r) = Len(d) + Len(q) - j
      /\ \A i \in 1 .. Len(d) + Len(q) - j : r[i] = (d \o q)[j + i]
  <2>1. j \in 0 .. Len(d \o q)
    BY <1>1
  <2>2. /\ r \in Seq(Alerts) /\ Len(r) = Len(d \o q) - j
        /\ \A i \in 1 .. Len(d \o q) - j : r[i] = (d \o q)[j + i]
    BY <1>1, <2>1, SinceParts
  <2> HIDE DEF r
  <2>3. QED  BY <1>1, <2>2
<1> HIDE DEF l, r
<1>4. /\ l \o q \in Seq(Alerts) /\ Len(l \o q) = Len(d) + Len(q) - j
      /\ \A i \in 1 .. Len(d) + Len(q) - j :
            (l \o q)[i] = IF i <= Len(d) - j THEN l[i] ELSE q[i - (Len(d) - j)]
  <2>1. Len(l) + Len(q) = Len(d) + Len(q) - j
    BY <1>1, <1>2
  <2>2. /\ l \o q \in Seq(Alerts) /\ Len(l \o q) = Len(l) + Len(q)
        /\ \A i \in 1 .. Len(l) + Len(q) :
              (l \o q)[i] = IF i <= Len(l) THEN l[i] ELSE q[i - Len(l)]
    <3>1. l \in Seq(Alerts)
      BY <1>2
    <3>2. QED  BY <3>1, JoinAlerts
  <2>3. Len(l) = Len(d) - j
    BY <1>2
  <2>4. QED  BY <2>1, <2>2, <2>3, Zenon
<1>5. ASSUME NEW i \in 1 .. Len(d) + Len(q) - j
      PROVE  (l \o q)[i] = r[i]
  <2>1. /\ i \in Int /\ j + i \in 1 .. Len(d) + Len(q)
        /\ (j + i <= Len(d)) <=> (i <= Len(d) - j)
        /\ i - (Len(d) - j) = (j + i) - Len(d)
        /\ i <= Len(d) - j => i \in 1 .. Len(d) - j
    BY <1>1
  <2>2. (d \o q)[j + i] = IF j + i <= Len(d) THEN d[j + i] ELSE q[(j + i) - Len(d)]
    BY <2>1, JoinAlerts
  <2>3. QED  BY <1>2, <1>3, <1>4, <2>1, <2>2
<1>6. QED  BY <1>3, <1>4, <1>5, SeqEqual DEF l, r

-----------------------------------------------------------------------------
(* Types                                                                    *)

\* The queue after an enqueue, cut down to make room when it is full.
LEMMA EnqueueTypes ==
  ASSUME TypeOK, NEW p \in Publishers, Enqueue(p)
  PROVE  /\ published' \in Alerts /\ queue' \in Seq(Alerts)
         /\ Len(queue') <= MaxQueue
<1> DEFINE rest == IF Len(queue) >= MaxQueue THEN Tail(queue) ELSE queue
<1>1. /\ queue \in Seq(Alerts) /\ Len(queue) \in Nat /\ Len(queue) <= MaxQueue
      /\ MaxQueue \in Nat \ {0} /\ published \in Nat
  BY BoundsAssumption, LenProperties DEF TypeOK
<1>2. published' \in Alerts
  BY <1>1 DEF Enqueue, Alerts
<1>3. rest \in Seq(Alerts) /\ Len(rest) + 1 <= MaxQueue /\ Len(rest) \in Nat
  <2>1. CASE Len(queue) >= MaxQueue
    <3>1. queue # <<>>
      BY <1>1, <2>1
    <3>2. rest = Tail(queue) /\ Tail(queue) \in Seq(Alerts) /\ Len(Tail(queue)) = Len(queue) - 1
      BY <2>1, <3>1, <1>1, TailAlerts
    <3> HIDE DEF rest
    <3>3. QED  BY <1>1, <2>1, <3>2
  <2>2. CASE ~(Len(queue) >= MaxQueue)
    BY <1>1, <2>2
  <2>3. QED  BY <2>1, <2>2
<1>4. queue' = Append(rest, published')
  BY DEF Enqueue
<1> HIDE DEF rest
<1>5. QED  BY <1>2, <1>3, <1>4, AppendAlert

\* do_drain() keeps the types.
LEMMA DrainTypes ==
  ASSUME TypeOK, Drain
  PROVE  TypeOK'
<1> DEFINE after(s) == IF s \in Receivers THEN Backlog(s) \o queue ELSE Backlog(s)
<1>1. ASSUME NEW s \in Sessions
      PROVE  after(s) \in Seq(Alerts)
  <2>1. Backlog(s) \in Seq(Alerts) /\ queue \in Seq(Alerts)
    BY BacklogType DEF TypeOK
  <2>2. QED  BY <2>1, JoinAlerts
<1>2. writing' = [s \in Sessions |-> NowWriting(after(s))]
      /\ pending' = [s \in Sessions |-> NowPending(after(s))]
  BY DEF Drain
<1> HIDE DEF after
<1>3. writing' \in [Sessions -> Alerts \cup {0}] /\ pending' \in [Sessions -> Seq(Alerts)]
  BY <1>1, <1>2, BacklogSplits
<1>4. drained' \in Seq(Alerts) /\ queue' \in Seq(Alerts) /\ Len(queue') <= MaxQueue
  BY JoinAlerts, EmptySeq, BoundsAssumption DEF Drain, TypeOK
<1>5. posted' \in Nat
  BY DEF Drain, TypeOK
<1>6. QED  BY <1>3, <1>4, <1>5 DEF Drain, TypeOK

\* Every step of the publisher keeps the types.
LEMMA TypeStep ==
  ASSUME TypeOK, [Next]_vars
  PROVE  TypeOK'
<1>1. ASSUME Start \/ StartFails \/ Stop \/ AcceptEnds
      PROVE  TypeOK'
  BY <1>1 DEF Start, StartFails, Stop, StopFlag, StopPostsDrain, StopsIo, AcceptEnds,
              TypeOK, ServerPlaces, sessionVars, queueVars
<1>2. ASSUME NEW p \in Publishers, Enqueue(p)
      PROVE  TypeOK'
  BY <1>2, EnqueueTypes DEF Enqueue, TypeOK, Alerts, sessionVars
<1>3. ASSUME NEW p \in Publishers, PostDrain(p)
      PROVE  TypeOK'
  BY <1>3 DEF PostDrain, TypeOK, sessionVars
<1>4. ASSUME NEW s \in Sessions, Accept(s) \/ HandshakeFails(s)
      PROVE  TypeOK'
  BY <1>4 DEF Accept, HandshakeFails, TypeOK, queueVars
<1>5. ASSUME NEW s \in Sessions, HandshakeDone(s)
      PROVE  TypeOK'
  <2>1. Len(drained) \in Nat
    BY LenProperties DEF TypeOK
  <2>2. QED  BY <1>5, <2>1 DEF HandshakeDone, TypeOK, queueVars
<1>6. ASSUME NEW s \in Sessions, WriteDone(s)
      PROVE  TypeOK'
  <2>1. /\ writing[s] \in Alerts /\ pending[s] \in Seq(Alerts)
        /\ received[s] \in Seq(Alerts)
    BY <1>6 DEF WriteDone, TypeOK
  <2>2. /\ Append(received[s], writing[s]) \in Seq(Alerts)
        /\ NowWriting(pending[s]) \in Alerts \cup {0}
        /\ NowPending(pending[s]) \in Seq(Alerts)
    BY <2>1, AppendAlert, BacklogSplits
  <2>3. QED  BY <1>6, <2>2 DEF WriteDone, TypeOK, queueVars
<1>7. ASSUME NEW s \in Sessions, WriteFails(s)
      PROVE  TypeOK'
  <2>1. <<>> \in Seq(Alerts)
    BY EmptySeq
  <2>2. QED  BY <1>7, <2>1 DEF WriteFails, TypeOK, queueVars
<1>8. CASE UNCHANGED vars
  BY <1>8 DEF vars, sessionVars, queueVars, TypeOK
<1>9. QED
  BY <1>1, <1>2, <1>3, <1>4, <1>5, <1>6, <1>7, <1>8, DrainTypes
     DEF Next, Handshake, Write

\* The types hold before start().
LEMMA TypeInit ==
  ASSUME Init
  PROVE  TypeOK
<1>1. <<>> \in Seq(Alerts) /\ Len(<<>>) = 0
  BY EmptySeq
<1>2. QED  BY <1>1, BoundsAssumption DEF Init, TypeOK, ServerPlaces

\* The publisher's variables keep their types, and the queue its bound, under
\* publish(), the handlers of the I/O thread, start() and stop().
THEOREM PublisherTypeCorrect == Spec => []TypeOK
<1>1. QED  BY TypeInit, TypeStep, PTL DEF Spec

-----------------------------------------------------------------------------
(* No alert waits for the next alert                                        *)

\* Whoever fills the queue owes a drain: publish() posts after it released
\* queue_mu, and do_drain leaves nothing behind.
THEOREM AlertsNotStranded == Spec => []NoStrandedAlert
<1>1. Init => NoStrandedAlert
  BY DEF Init, NoStrandedAlert
<1>2. ASSUME TypeOK, NoStrandedAlert, [Next]_vars
      PROVE  NoStrandedAlert'
  <2>1. ASSUME NEW p \in Publishers, Enqueue(p)
        PROVE  NoStrandedAlert'
    BY <1>2, <2>1 DEF Enqueue, NoStrandedAlert, TypeOK
  <2>2. ASSUME NEW p \in Publishers, PostDrain(p)
        PROVE  NoStrandedAlert'
    <3>1. posted' > 0
      BY <1>2, <2>2 DEF PostDrain, TypeOK
    <3>2. QED  BY <3>1 DEF NoStrandedAlert
  <2>3. CASE Drain
    BY <2>3 DEF Drain, NoStrandedAlert
  <2>4. CASE StopPostsDrain
    <3>1. posted' > 0
      BY <1>2, <2>4 DEF StopPostsDrain, TypeOK
    <3>2. QED  BY <3>1 DEF NoStrandedAlert
  <2>5. CASE UNCHANGED queueVars
    BY <1>2, <2>5 DEF queueVars, NoStrandedAlert
  <2>6. QED
    BY <1>2, <2>1, <2>2, <2>3, <2>4, <2>5
       DEF Next, vars, Start, StartFails, Stop, StopFlag, StopsIo, AcceptEnds, Accept,
           Handshake, HandshakeDone, HandshakeFails, Write, WriteDone, WriteFails
<1>3. QED  BY <1>1, <1>2, PublisherTypeCorrect, PTL DEF Spec

-----------------------------------------------------------------------------
(* Drop-oldest                                                              *)

LEMMA NewestEnqueue ==
  ASSUME TypeOK, NewestKept, NEW p \in Publishers, Enqueue(p)
  PROVE  NewestKept'
<1> DEFINE rest == IF Len(queue) >= MaxQueue THEN Tail(queue) ELSE queue
<1>1. /\ queue \in Seq(Alerts) /\ Len(queue) \in Nat /\ published \in Nat
      /\ MaxQueue \in Nat \ {0}
  BY BoundsAssumption, LenProperties DEF TypeOK
<1>2. /\ published' = published + 1 /\ published' \in Alerts
      /\ queue' = Append(rest, published') /\ drained' = drained
  BY <1>1 DEF Enqueue, Alerts
<1>3. /\ rest \in Seq(Alerts) /\ Len(rest) \in Nat /\ Len(rest) <= Len(queue)
      /\ \A i \in 1 .. Len(rest) : rest[i] = published - Len(rest) + i
  <2>1. CASE Len(queue) >= MaxQueue
    <3>1. queue # <<>>
      BY <1>1, <2>1
    <3>2. /\ rest = Tail(queue) /\ Tail(queue) \in Seq(Alerts)
          /\ Len(Tail(queue)) = Len(queue) - 1
          /\ \A i \in 1 .. Len(Tail(queue)) : Tail(queue)[i] = queue[i + 1]
      BY <2>1, <3>1, <1>1, TailAlerts
    <3> HIDE DEF rest
    <3>3. Len(rest) \in Nat /\ Len(rest) <= Len(queue)
      BY <1>1, <2>1, <3>2
    <3>4. ASSUME NEW i \in 1 .. Len(rest)
          PROVE  rest[i] = published - Len(rest) + i
      <4>1. i + 1 \in 1 .. Len(queue)
        BY <1>1, <3>2
      <4>2. rest[i] = published - Len(queue) + (i + 1)
        BY <3>2, <4>1 DEF NewestKept
      <4>3. QED  BY <1>1, <3>2, <4>2
    <3>5. QED  BY <3>2, <3>3, <3>4
  <2>2. CASE ~(Len(queue) >= MaxQueue)
    BY <1>1, <2>2 DEF NewestKept
  <2>3. QED  BY <2>1, <2>2
<1> HIDE DEF rest
<1>4. /\ Len(queue') = Len(rest) + 1
      /\ \A i \in 1 .. Len(rest) : queue'[i] = rest[i]
      /\ queue'[Len(rest) + 1] = published'
  BY <1>2, <1>3, AppendAlert
<1>5. ASSUME NEW i \in 1 .. Len(queue')
      PROVE  queue'[i] = published' - Len(queue') + i
  <2>1. CASE i = Len(rest) + 1
    BY <1>1, <1>2, <1>3, <1>4, <2>1
  <2>2. CASE i # Len(rest) + 1
    <3>1. i \in 1 .. Len(rest) /\ i \in Int
      BY <1>3, <1>4, <2>2
    <3>2. queue'[i] = published - Len(rest) + i
      BY <1>3, <1>4, <3>1
    <3>3. QED  BY <1>1, <1>2, <1>3, <1>4, <3>1, <3>2
  <2>3. QED  BY <2>1, <2>2
<1>6. ASSUME NEW i \in 1 .. Len(drained)
      PROVE  drained[i] <= published' - Len(queue')
  <2>1. drained[i] \in Nat /\ drained[i] <= published - Len(queue)
    BY ElementOfSeq DEF NewestKept, TypeOK, Alerts
  <2>2. published - Len(queue) <= published' - Len(queue')
    BY <1>1, <1>2, <1>3, <1>4
  <2>3. published - Len(queue) \in Int /\ published' - Len(queue') \in Int
    BY <1>1, <1>2, <1>3, <1>4
  <2>4. QED  BY <2>1, <2>2, <2>3
<1>7. QED  BY <1>2, <1>5, <1>6 DEF NewestKept

\* do_drain() hands on the oldest alerts and keeps the order.
LEMMA NewestDrain ==
  ASSUME TypeOK, NewestKept, Drain
  PROVE  NewestKept'
<1>1. /\ queue \in Seq(Alerts) /\ drained \in Seq(Alerts) /\ published \in Nat
      /\ Len(queue) \in Nat /\ Len(drained) \in Nat
  BY LenProperties DEF TypeOK
<1>2. drained' = drained \o queue /\ queue' = <<>> /\ published' = published
  BY DEF Drain
<1>3. /\ Len(drained') = Len(drained) + Len(queue)
      /\ \A i \in 1 .. Len(drained) + Len(queue) :
            drained'[i] = IF i <= Len(drained) THEN drained[i]
                                               ELSE queue[i - Len(drained)]
  BY <1>1, <1>2, JoinAlerts
<1>4. ASSUME NEW i \in 1 .. Len(drained')
      PROVE  /\ i <= Len(drained) => drained'[i] = drained[i] /\ drained[i] \in Nat
                                     /\ drained[i] <= published - Len(queue)
             /\ i > Len(drained) =>
                   drained'[i] = published - Len(queue) + (i - Len(drained))
  <2>1. CASE i <= Len(drained)
    <3>1. i \in 1 .. Len(drained) /\ i \in 1 .. Len(drained) + Len(queue)
      BY <1>1, <1>3, <2>1
    <3>2. drained[i] \in Nat
      BY <1>1, <3>1, ElementOfSeq DEF Alerts
    <3>3. QED  BY <1>1, <1>3, <2>1, <3>1, <3>2 DEF NewestKept
  <2>2. CASE i > Len(drained)
    <3>1. /\ i \in 1 .. Len(drained) + Len(queue) /\ ~(i <= Len(drained))
          /\ i - Len(drained) \in 1 .. Len(queue)
      BY <1>1, <1>3, <2>2
    <3>2. QED  BY <1>1, <1>3, <2>2, <3>1 DEF NewestKept
  <2>3. QED  BY <1>1, <1>3, <2>1, <2>2
<1>5. ASSUME NEW i \in 1 .. Len(drained'), NEW j \in 1 .. Len(drained'), i < j
      PROVE  drained'[i] < drained'[j]
  <2>1. CASE j <= Len(drained)
    <3>1. i \in 1 .. Len(drained) /\ j \in 1 .. Len(drained) /\ i <= Len(drained)
      BY <1>1, <1>3, <1>5, <2>1
    <3>2. drained[i] < drained[j]
      BY <1>5, <3>1 DEF NewestKept
    <3>3. QED  BY <1>4, <2>1, <3>1, <3>2
  <2>2. CASE j > Len(drained) /\ i <= Len(drained)
    <3>1. /\ drained'[i] \in Nat /\ drained'[i] <= published - Len(queue)
          /\ drained'[j] = published - Len(queue) + (j - Len(drained))
      BY <1>4, <2>2
    <3>2. QED  BY <1>1, <1>3, <2>2, <3>1
  <2>3. CASE i > Len(drained)
    <3>1. j > Len(drained)
      BY <1>1, <1>3, <1>5, <2>3
    <3>2. /\ drained'[i] = published - Len(queue) + (i - Len(drained))
          /\ drained'[j] = published - Len(queue) + (j - Len(drained))
      BY <1>4, <2>3, <3>1
    <3>3. QED  BY <1>1, <1>3, <1>5, <3>2
  <2>4. QED  BY <1>1, <1>3, <2>1, <2>2, <2>3
<1>6. ASSUME NEW i \in 1 .. Len(drained')
      PROVE  drained'[i] <= published' - Len(queue')
  <2>1. Len(queue') = 0
    BY <1>2, EmptySeq
  <2>2. i \in Int /\ i <= Len(drained) + Len(queue)
    BY <1>1, <1>3
  <2>3. CASE i <= Len(drained)
    <3>1. drained'[i] \in Nat /\ drained'[i] <= published - Len(queue)
      BY <1>4, <2>3
    <3>2. QED  BY <1>1, <1>2, <2>1, <3>1
  <2>4. CASE i > Len(drained)
    <3>1. drained'[i] = published - Len(queue) + (i - Len(drained))
      BY <1>4, <2>4
    <3>2. QED  BY <1>1, <1>2, <2>1, <2>2, <3>1
  <2>5. QED  BY <1>1, <2>2, <2>3, <2>4
<1>7. \A i \in 1 .. Len(queue') : queue'[i] = published' - Len(queue') + i
  <2>1. Len(queue') = 0
    BY <1>2, EmptySeq
  <2>2. QED  BY <2>1
<1>8. QED  BY <1>5, <1>6, <1>7 DEF NewestKept

\* With any number of publishers the queue gives up the oldest alert only:
\* what publish() leaves queued is the newest part of what was published, and
\* do_drain hands the alerts on in the order of publication.
THEOREM NewestAlertsKept == Spec => []NewestKept
<1>1. Init => NewestKept
  <2>1. ASSUME Init
        PROVE  Len(queue) = 0 /\ Len(drained) = 0
    BY <2>1, EmptySeq DEF Init
  <2>2. QED  BY <2>1 DEF NewestKept
<1>2. ASSUME TypeOK, NewestKept, [Next]_vars
      PROVE  NewestKept'
  <2>1. CASE UNCHANGED <<queue, published, drained>>
    BY <1>2, <2>1 DEF NewestKept
  <2>2. QED
    BY <1>2, <2>1, NewestEnqueue, NewestDrain
       DEF Next, vars, queueVars, Start, StartFails, Stop, StopFlag, StopPostsDrain,
           StopsIo, AcceptEnds, PostDrain, Accept, Handshake, HandshakeDone,
           HandshakeFails, Write, WriteDone, WriteFails
<1>3. QED  BY <1>1, <1>2, PublisherTypeCorrect, PTL DEF Spec

-----------------------------------------------------------------------------
(* Every ready client gets every alert                                      *)

Since(s) == SubSeq(drained, joined[s] + 1, Len(drained))

\* One session: when it is ready its stream is complete; before and after
\* that it holds no payload, and before that it has sent none.
StreamOf(s) ==
    /\ session[s] = "ready" => /\ joined[s] \in 0 .. Len(drained)
                               /\ received[s] \o Backlog(s) = Since(s)
    /\ session[s] # "ready" => writing[s] = 0 /\ pending[s] = <<>>
    /\ session[s] \in {"none", "handshaking"} => received[s] = <<>>

StreamInv == \A s \in Sessions : StreamOf(s)

\* Joining sequences of alerts is associative.
LEMMA JoinAssociative ==
  ASSUME NEW a \in Seq(Alerts), NEW b \in Seq(Alerts), NEW c \in Seq(Alerts)
  PROVE  (a \o b) \o c = a \o (b \o c)
BY ConcatAssociative

\* do_drain() adds the same batch to the stream and to what was drained.
LEMMA StreamDrain ==
  ASSUME TypeOK, StreamInv, Drain, NEW s \in Sessions
  PROVE  StreamOf(s)'
<1> DEFINE after == IF s \in Receivers THEN Backlog(s) \o queue ELSE Backlog(s)
<1>1. /\ Backlog(s) \in Seq(Alerts) /\ queue \in Seq(Alerts) /\ drained \in Seq(Alerts)
      /\ received[s] \in Seq(Alerts) /\ StreamOf(s)
  BY BacklogType DEF TypeOK, StreamInv
<1>2. /\ writing'[s] = NowWriting(after) /\ pending'[s] = NowPending(after)
      /\ drained' = drained \o queue
      /\ session' = session /\ joined' = joined /\ received' = received
  BY DEF Drain
<1>3. CASE session[s] = "ready"
  <2>1. after = Backlog(s) \o queue /\ after \in Seq(Alerts)
    BY <1>1, <1>3, JoinAlerts DEF Receivers
  <2> HIDE DEF after
  <2>2. Backlog(s)' = after
    <3>1. Backlog(s)' = IF writing'[s] = 0 THEN pending'[s] ELSE <<writing'[s]>> \o pending'[s]
      BY DEF Backlog
    <3>2. QED  BY <1>2, <2>1, <3>1, BacklogSplits
  <2>3. received[s] \o after = (received[s] \o Backlog(s)) \o queue
    BY <1>1, <2>1, JoinAssociative
  <2>4. joined[s] \in 0 .. Len(drained) /\ received[s] \o Backlog(s) = Since(s)
    BY <1>1, <1>3 DEF StreamOf
  <2>5. Since(s) \o queue = SubSeq(drained \o queue, joined[s] + 1, Len(drained \o queue))
    BY <1>1, <2>4, SinceGrows DEF Since
  <2>6. joined'[s] \in 0 .. Len(drained')
    <3>1. Len(drained') = Len(drained) + Len(queue) /\ Len(queue) \in Nat /\ Len(drained) \in Nat
      BY <1>1, <1>2, JoinAlerts, LenProperties
    <3>2. QED  BY <1>2, <2>4, <3>1
  <2>7. received'[s] \o Backlog(s)' = Since(s)'
    BY <1>2, <2>2, <2>3, <2>4, <2>5 DEF Since
  <2>8. QED  BY <1>2, <1>3, <2>6, <2>7 DEF StreamOf
<1>4. CASE session[s] # "ready"
  <2>1. writing[s] = 0 /\ pending[s] = <<>>
    BY <1>1, <1>4 DEF StreamOf
  <2>2. after = <<>>
    BY <1>4, <2>1 DEF Receivers, Backlog
  <2> HIDE DEF after
  <2>3. writing'[s] = 0 /\ pending'[s] = <<>>
    BY <1>2, <2>2 DEF NowWriting, NowPending
  <2>4. QED  BY <1>1, <1>2, <1>4, <2>3 DEF StreamOf
<1>5. QED  BY <1>3, <1>4

\* A write that completes moves an alert from the backlog to what was received.
LEMMA StreamWriteDone ==
  ASSUME TypeOK, StreamInv, NEW s \in Sessions, WriteDone(s)
  PROVE  StreamOf(s)'
<1>1. /\ writing[s] \in Alerts /\ writing[s] # 0 /\ pending[s] \in Seq(Alerts)
      /\ received[s] \in Seq(Alerts) /\ StreamOf(s)
  BY DEF WriteDone, TypeOK, StreamInv
<1>2. session[s] = "ready"
  BY <1>1 DEF StreamOf
<1>3. /\ received'[s] = Append(received[s], writing[s])
      /\ writing'[s] = NowWriting(pending[s]) /\ pending'[s] = NowPending(pending[s])
      /\ session' = session /\ joined' = joined /\ drained' = drained
  BY DEF WriteDone, TypeOK, queueVars
<1>4. Backlog(s)' = pending[s]
  <2>1. Backlog(s)' = IF writing'[s] = 0 THEN pending'[s] ELSE <<writing'[s]>> \o pending'[s]
    BY DEF Backlog
  <2>2. QED  BY <1>1, <1>3, <2>1, BacklogSplits
<1>5. Append(received[s], writing[s]) \o pending[s] = received[s] \o Backlog(s)
  <2>1. <<writing[s]>> \in Seq(Alerts)
    BY <1>1
  <2>2. Append(received[s], writing[s]) = received[s] \o <<writing[s]>>
    BY <1>1, AppendIsConcat
  <2>3. (received[s] \o <<writing[s]>>) \o pending[s]
            = received[s] \o (<<writing[s]>> \o pending[s])
    BY <1>1, <2>1, JoinAssociative
  <2>4. QED  BY <1>1, <2>2, <2>3 DEF Backlog
<1>6. QED  BY <1>1, <1>2, <1>3, <1>4, <1>5 DEF StreamOf, Since

\* A session that becomes ready starts at the end of what was drained.
LEMMA StreamHandshakeDone ==
  ASSUME TypeOK, StreamInv, NEW s \in Sessions, HandshakeDone(s)
  PROVE  StreamOf(s)'
<1>1. /\ drained \in Seq(Alerts) /\ Len(drained) \in Nat
      /\ writing[s] = 0 /\ pending[s] = <<>> /\ received[s] = <<>>
  BY LenProperties DEF HandshakeDone, TypeOK, StreamInv, StreamOf
<1>2. /\ session'[s] = "ready" /\ joined'[s] = Len(drained)
      /\ writing' = writing /\ pending' = pending /\ received' = received
      /\ drained' = drained
  BY DEF HandshakeDone, TypeOK, queueVars
<1>3. SubSeq(drained, Len(drained) + 1, Len(drained)) = <<>>
  <2>1. Len(drained) + 1 \in Int /\ Len(drained) \in Int /\ Len(drained) < Len(drained) + 1
    BY <1>1
  <2>2. QED  BY <2>1, SubSeqEmpty
<1>4. received'[s] \o Backlog(s)' = <<>>
  <2>1. <<>> \o <<>> = <<>>
    BY EmptySeq, ConcatEmptySeq
  <2>2. QED  BY <1>1, <1>2, <2>1 DEF Backlog
<1>5. Since(s)' = <<>>
  BY <1>2, <1>3 DEF Since
<1>6. QED  BY <1>1, <1>2, <1>4, <1>5 DEF StreamOf

\* Every step keeps the stream of every session.
LEMMA StreamStep ==
  ASSUME TypeOK, StreamInv, [Next]_vars
  PROVE  StreamInv'
<1> SUFFICES ASSUME NEW s \in Sessions
             PROVE  StreamOf(s)'
  BY DEF StreamInv
<1>1. StreamOf(s)
  BY DEF StreamInv
<1>2. CASE UNCHANGED <<session[s], joined[s], writing[s], pending[s], received[s], drained>>
  BY <1>1, <1>2 DEF StreamOf, Since, Backlog
<1>3. CASE Drain
  BY <1>3, StreamDrain
<1>4. ASSUME NEW t \in Sessions, Accept(t) \/ HandshakeFails(t) \/ WriteFails(t)
      PROVE  StreamOf(s)'
  <2>1. CASE t # s
    <3>1. UNCHANGED <<session[s], joined[s], writing[s], pending[s], received[s], drained>>
      BY <1>4, <2>1 DEF Accept, HandshakeFails, WriteFails, TypeOK, queueVars
    <3>2. QED  BY <3>1, <1>2
  <2>2. CASE t = s
    BY <1>1, <1>4, <2>2 DEF Accept, HandshakeFails, WriteFails, TypeOK, StreamOf
  <2>3. QED  BY <2>1, <2>2
<1>5. ASSUME NEW t \in Sessions, HandshakeDone(t) \/ WriteDone(t)
      PROVE  StreamOf(s)'
  <2>1. CASE t # s
    <3>1. UNCHANGED <<session[s], joined[s], writing[s], pending[s], received[s], drained>>
      BY <1>5, <2>1 DEF HandshakeDone, WriteDone, TypeOK, queueVars
    <3>2. QED  BY <3>1, <1>2
  <2>2. CASE t = s
    BY <1>5, <2>2, StreamHandshakeDone, StreamWriteDone
  <2>3. QED  BY <2>1, <2>2
<1>6. CASE UNCHANGED <<session, joined, writing, pending, received, drained>>
  BY <1>2, <1>6
<1>7. QED
  BY <1>3, <1>4, <1>5, <1>6
     DEF Next, vars, sessionVars, queueVars, Start, StartFails, Stop, StopFlag,
         StopPostsDrain, StopsIo, AcceptEnds, Enqueue, PostDrain, Handshake, Write

\* The stream of every session is always kept.
LEMMA StreamAlways == Spec => []StreamInv
<1>1. Init => StreamInv
  BY DEF Init, StreamInv, StreamOf
<1>2. QED  BY <1>1, StreamStep, PublisherTypeCorrect, PTL DEF Spec

\* "Every connected client receives every alert": what a ready session has
\* written, writes and holds back is what do_drain took since its handshake,
\* for any interleaving of publishers, drains, handshakes and writes.
THEOREM StreamsComplete == Spec => []StreamComplete
<1>1. StreamInv => StreamComplete
  BY DEF StreamInv, StreamOf, StreamComplete, Since
<1>2. QED  BY <1>1, StreamAlways, PTL

-----------------------------------------------------------------------------
(* What a client was sent, also after its connection broke                  *)

\* Session s was sent the alerts drained after its handshake, from the first
\* of them on and without a gap.
SentPrefix(s) ==
    /\ joined[s] + Len(received[s]) <= Len(drained)
    /\ \A i \in 1 .. Len(received[s]) : received[s][i] = drained[joined[s] + i]

\* The lengths and counts of the histories are numbers.
LEMMA HistoryTypes ==
  ASSUME TypeOK, NEW s \in Sessions
  PROVE  /\ received[s] \in Seq(Alerts) /\ drained \in Seq(Alerts) /\ joined[s] \in Nat
         /\ Len(received[s]) \in Nat /\ Len(drained) \in Nat
BY LenProperties DEF TypeOK

\* While a session is ready that follows from its stream.
ReadySent == \A s \in Sessions : session[s] = "ready" => SentPrefix(s)

\* The stream of a ready session begins with what it was sent.
LEMMA StreamBegins == TypeOK /\ StreamInv => ReadySent
<1> SUFFICES ASSUME TypeOK, StreamInv, NEW s \in Sessions, session[s] = "ready"
             PROVE  SentPrefix(s)
  BY DEF ReadySent
<1> DEFINE n == Len(received[s])
           rest == Len(drained) - joined[s]
<1>1. /\ received[s] \in Seq(Alerts) /\ drained \in Seq(Alerts) /\ joined[s] \in Nat
      /\ n \in Nat /\ Len(drained) \in Nat /\ Backlog(s) \in Seq(Alerts)
  BY HistoryTypes, BacklogType
<1>2. joined[s] \in 0 .. Len(drained) /\ received[s] \o Backlog(s) = Since(s)
  BY DEF StreamInv, StreamOf
<1>3. Len(Since(s)) = rest /\ \A i \in 1 .. rest : Since(s)[i] = drained[joined[s] + i]
  BY <1>1, <1>2, SinceParts DEF Since
<1>4. /\ Len(received[s] \o Backlog(s)) = n + Len(Backlog(s)) /\ Len(Backlog(s)) \in Nat
      /\ \A i \in 1 .. n : (received[s] \o Backlog(s))[i] = received[s][i]
  BY <1>1, JoinAlerts, LenProperties
<1>5. n <= rest /\ rest \in Nat
  BY <1>1, <1>2, <1>3, <1>4
<1>6. ASSUME NEW i \in 1 .. n
      PROVE  received[s][i] = drained[joined[s] + i]
  <2>1. i \in 1 .. rest
    BY <1>1, <1>5
  <2>2. QED  BY <1>2, <1>3, <1>4, <2>1
<1>7. joined[s] + n <= Len(drained)
  BY <1>1, <1>5
<1>8. QED  BY <1>6, <1>7 DEF SentPrefix

\* A drain adds to what was drained; no other step touches it.
LEMMA DrainedGrows ==
  ASSUME TypeOK, [Next]_vars
  PROVE  /\ Len(drained) <= Len(drained')
         /\ \A i \in 1 .. Len(drained) : drained'[i] = drained[i]
<1>1. drained \in Seq(Alerts) /\ queue \in Seq(Alerts) /\ Len(drained) \in Nat
      /\ Len(queue) \in Nat
  BY LenProperties DEF TypeOK
<1>2. CASE drained' = drained
  BY <1>1, <1>2
<1>3. CASE drained' = drained \o queue
  BY <1>1, <1>3, JoinAlerts
<1>4. QED
  BY <1>2, <1>3
     DEF Next, vars, sessionVars, queueVars, Start, StartFails, Stop, StopFlag,
         StopPostsDrain, StopsIo, AcceptEnds, Enqueue, PostDrain, Accept, Handshake,
         HandshakeDone, HandshakeFails, Write, WriteDone, WriteFails, Drain

\* A session that is not ready after a step was sent nothing in it.
LEMMA NotReadyNotSent ==
  ASSUME TypeOK, StreamInv, [Next]_vars, NEW s \in Sessions, session'[s] # "ready"
  PROVE  received'[s] = received[s] /\ joined'[s] = joined[s]
<1>1. ASSUME NEW t \in Sessions, Accept(t) \/ HandshakeFails(t) \/ WriteFails(t)
      PROVE  received' = received /\ joined' = joined
  BY <1>1 DEF Accept, HandshakeFails, WriteFails
<1>2. ASSUME NEW t \in Sessions, HandshakeDone(t)
      PROVE  received'[s] = received[s] /\ joined'[s] = joined[s]
  BY <1>2 DEF HandshakeDone, TypeOK
<1>3. ASSUME NEW t \in Sessions, WriteDone(t)
      PROVE  received'[s] = received[s] /\ joined'[s] = joined[s]
  <2>1. session' = session /\ session[t] = "ready"
    BY <1>3 DEF WriteDone, StreamInv, StreamOf
  <2>2. QED  BY <1>3, <2>1 DEF WriteDone, TypeOK
<1>4. CASE UNCHANGED <<received, joined>>
  BY <1>4
<1>5. QED
  BY <1>1, <1>2, <1>3, <1>4
     DEF Next, vars, sessionVars, queueVars, Start, StartFails, Stop, StopFlag,
         StopPostsDrain, StopsIo, AcceptEnds, Enqueue, PostDrain, Handshake, Write, Drain

\* No client ever gets an alert twice, or one before an older one.
SentInOrder ==
    \A s \in Sessions : \A i, j \in 1 .. Len(received[s]) :
        i < j => received[s][i] < received[s][j]

(* Whether its connection still stands or broke, what a client was sent is  *)
(* an unbroken beginning of what was drained since its handshake; so it     *)
(* never got an alert twice, nor one before an older one.                   *)
THEOREM ClientsSentInOrder ==
    Spec => []((\A s \in Sessions : SentPrefix(s)) /\ SentInOrder)
<1> DEFINE Sent == \A s \in Sessions : SentPrefix(s)
<1>1. Init => Sent
  <2> SUFFICES ASSUME Init, NEW s \in Sessions PROVE SentPrefix(s)
    OBVIOUS
  <2>1. received[s] = <<>> /\ joined[s] = 0 /\ drained = <<>>
    BY DEF Init
  <2>2. QED  BY <2>1 DEF SentPrefix
<1>2. ASSUME TypeOK, TypeOK', StreamInv, ReadySent', Sent, [Next]_vars
      PROVE  Sent'
  <2> SUFFICES ASSUME NEW s \in Sessions PROVE SentPrefix(s)'
    OBVIOUS
  <2>1. CASE session'[s] = "ready"
    BY <1>2, <2>1 DEF ReadySent
  <2>2. CASE session'[s] # "ready"
    <3>1. received'[s] = received[s] /\ joined'[s] = joined[s]
      BY <1>2, <2>2, NotReadyNotSent
    <3>2. /\ Len(drained) <= Len(drained') /\ Len(drained') \in Nat
          /\ \A i \in 1 .. Len(drained) : drained'[i] = drained[i]
      BY <1>2, DrainedGrows, LenProperties DEF TypeOK
    <3>3. /\ joined[s] \in Nat /\ Len(received[s]) \in Nat /\ Len(drained) \in Nat
          /\ joined[s] + Len(received[s]) <= Len(drained)
          /\ \A i \in 1 .. Len(received[s]) : received[s][i] = drained[joined[s] + i]
      BY <1>2, HistoryTypes DEF SentPrefix
    <3>4. \A i \in 1 .. Len(received[s]) : joined[s] + i \in 1 .. Len(drained)
      BY <3>3
    <3>5. \A i \in 1 .. Len(received[s]) : received[s][i] = drained'[joined[s] + i]
      BY <3>2, <3>3, <3>4
    <3>6. joined[s] + Len(received[s]) <= Len(drained')
      BY <3>2, <3>3
    <3>7. QED  BY <3>1, <3>5, <3>6 DEF SentPrefix
  <2>3. QED  BY <2>1, <2>2
<1>3. TypeOK /\ NewestKept /\ Sent => SentInOrder
  <2> SUFFICES ASSUME TypeOK, NewestKept, Sent, NEW s \in Sessions,
                      NEW i \in 1 .. Len(received[s]), NEW j \in 1 .. Len(received[s]), i < j
               PROVE  received[s][i] < received[s][j]
    BY DEF SentInOrder
  <2>1. joined[s] \in Nat /\ Len(received[s]) \in Nat /\ Len(drained) \in Nat
    BY HistoryTypes
  <2>2. /\ joined[s] + Len(received[s]) <= Len(drained)
        /\ received[s][i] = drained[joined[s] + i] /\ received[s][j] = drained[joined[s] + j]
    BY DEF SentPrefix
  <2>3. joined[s] + i \in 1 .. Len(drained) /\ joined[s] + j \in 1 .. Len(drained)
        /\ joined[s] + i < joined[s] + j
    BY <2>1, <2>2
  <2>4. QED  BY <2>2, <2>3 DEF NewestKept
<1>4. Spec => []ReadySent
  BY StreamBegins, StreamAlways, PublisherTypeCorrect, PTL
<1>5. QED
  BY <1>1, <1>2, <1>3, <1>4, PublisherTypeCorrect, NewestAlertsKept, StreamAlways, PTL DEF Spec
=============================================================================
