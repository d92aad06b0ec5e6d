--------------------------- MODULE ThreadPoolProofs ---------------------------
(* Proofs about ThreadPool, for any finite sets of workers and clients.     *)
EXTENDS ThreadPool, FiniteSetTheorems, SequenceTheorems, TLAPS

\* Where the tasks are after submit() appended one.
LEMMA AppendTask ==
  ASSUME NEW s \in Seq(Nat), NEW e \in Nat
  PROVE  /\ Append(s, e) \in Seq(Nat)
         /\ Len(Append(s, e)) = Len(s) + 1
         /\ \A i \in 1 .. Len(s) : Append(s, e)[i] = s[i]
         /\ Append(s, e)[Len(s) + 1] = e
BY AppendProperties

\* Where the tasks are after a worker took the front one.
LEMMA TakeHead ==
  ASSUME NEW s \in Seq(Nat), s # <<>>
  PROVE  /\ Head(s) \in Nat /\ Head(s) = s[1] /\ Len(s) \in Nat /\ Len(s) > 0
         /\ Tail(s) \in Seq(Nat)
         /\ Len(Tail(s)) = Len(s) - 1
         /\ \A i \in 1 .. Len(Tail(s)) : Tail(s)[i] = s[i + 1]
<1>1. Len(s) \in Nat /\ Len(s) > 0
  BY LenProperties, EmptySeq
<1>2. QED  BY <1>1, HeadTailProperties

-----------------------------------------------------------------------------
\* Every step of submit(), shutdown() and worker_loop() keeps the types.
LEMMA TypingStep ==
  ASSUME TypeOK, [Next]_vars
  PROVE  TypeOK'
<1> USE DEF TypeOK, WorkerPlaces, ClientPlaces
<1>1. ASSUME NEW c \in Clients, Enqueue(c)
      PROVE  TypeOK'
  <2>1. tasks' \in Seq(Nat) /\ submitted' \in Nat /\ early' \in Nat
    BY <1>1, AppendTask DEF Enqueue
  <2>2. client' \in [Clients -> ClientPlaces]
    BY <1>1 DEF Enqueue
  <2>3. QED  BY <1>1, <2>1, <2>2 DEF Enqueue
<1>2. ASSUME NEW c \in Clients, Exchange(c)
      PROVE  TypeOK'
  BY <1>2 DEF Exchange
<1>3. ASSUME NEW c \in Clients, NotifyOne(c)
      PROVE  TypeOK'
  BY <1>3 DEF NotifyOne, At
<1>4. ASSUME NEW c \in Clients, NotifyAll(c)
      PROVE  TypeOK'
  BY <1>4 DEF NotifyAll
<1>5. ASSUME NEW c \in Clients, JoinAll(c)
      PROVE  TypeOK'
  BY <1>5 DEF JoinAll
<1>6. ASSUME NEW w \in Workers, TakeTask(w)
      PROVE  TypeOK'
  <2>1. tasks' \in Seq(Nat) /\ Head(tasks) \in Nat
    BY <1>6, TakeHead DEF TakeTask
  <2>2. started' \in Seq(Nat)
    BY <1>6, <2>1, AppendTask DEF TakeTask
  <2>3. running' \in [Workers -> Nat] /\ worker' \in [Workers -> WorkerPlaces]
    BY <1>6, <2>1 DEF TakeTask
  <2>4. QED  BY <1>6, <2>1, <2>2, <2>3 DEF TakeTask
<1>7. ASSUME NEW w \in Workers, Leave(w) \/ FindNothing(w) \/ Block(w) \/ SpuriousWake(w)
      PROVE  TypeOK'
  BY <1>7 DEF Leave, FindNothing, Block, SpuriousWake
<1>8. ASSUME NEW w \in Workers, Finish(w)
      PROVE  TypeOK'
  BY <1>8 DEF Finish
<1>9. CASE UNCHANGED vars
  BY <1>9 DEF vars
<1> HIDE DEF TypeOK
<1>10. QED
  BY <1>1, <1>2, <1>3, <1>4, <1>5, <1>6, <1>7, <1>8, <1>9
     DEF Next, ClientGoesOn, WorkerStep

(* The pool's fields and the places of its threads keep their types.        *)
THEOREM PoolTypeCorrect == Spec => []TypeOK
<1>1. Init => TypeOK
  BY EmptySeq DEF Init, TypeOK, WorkerPlaces, ClientPlaces
<1>2. QED  BY <1>1, TypingStep, PTL DEF Spec

-----------------------------------------------------------------------------
(* What a step does to the tasks.                                           *)
LEMMA TaskSteps ==
  ASSUME TypeOK, [Next]_vars
  PROVE  \/ \E c \in Clients : Enqueue(c)
         \/ \E w \in Workers : TakeTask(w)
         \/ \E w \in Workers : Finish(w)
         \/ UNCHANGED <<tasks, running, submitted, early, started, finished>>
BY DEF Next, ClientGoesOn, WorkerStep, NotifyOne, NotifyAll, JoinAll, Exchange,
       Leave, FindNothing, Block, SpuriousWake, vars

\* Enqueueing at the back and taking at the front keep the order of the tasks.
LEMMA FifoStep ==
  ASSUME TypeOK, StartedInOrder, [Next]_vars
  PROVE  StartedInOrder'
<1>1. /\ tasks \in Seq(Nat) /\ started \in Seq(Nat) /\ submitted \in Nat
      /\ Len(tasks) \in Nat /\ Len(started) \in Nat
      /\ submitted = Len(started) + Len(tasks)
      /\ \A i \in 1 .. Len(started) : started[i] = i
      /\ \A i \in 1 .. Len(tasks) : tasks[i] = Len(started) + i
  BY LenProperties DEF TypeOK, StartedInOrder
<1>2. ASSUME NEW c \in Clients, Enqueue(c)
      PROVE  StartedInOrder'
  <2>1. tasks' = Append(tasks, submitted + 1) /\ started' = started
        /\ submitted' = submitted + 1
    BY <1>2 DEF Enqueue
  <2>2. /\ Len(tasks') = Len(tasks) + 1
        /\ \A i \in 1 .. Len(tasks) : tasks'[i] = tasks[i]
        /\ tasks'[Len(tasks) + 1] = submitted + 1
    BY <1>1, <2>1, AppendTask
  <2>3. ASSUME NEW i \in 1 .. Len(tasks')
        PROVE  tasks'[i] = Len(started) + i
    <3>1. CASE i \in 1 .. Len(tasks)
      BY <1>1, <2>2, <3>1
    <3>2. CASE i = Len(tasks) + 1
      BY <1>1, <2>2, <3>2
    <3>3. QED  BY <1>1, <2>2, <3>1, <3>2
  <2>4. Len(started') + Len(tasks') = submitted'
    BY <1>1, <2>1, <2>2
  <2>5. QED  BY <1>1, <2>1, <2>3, <2>4 DEF StartedInOrder
<1>3. ASSUME NEW w \in Workers, TakeTask(w)
      PROVE  StartedInOrder'
  <2>1. /\ tasks # <<>> /\ tasks' = Tail(tasks)
        /\ started' = Append(started, Head(tasks)) /\ submitted' = submitted
    BY <1>3 DEF TakeTask
  <2>2. /\ Len(tasks) > 0 /\ Len(tasks') = Len(tasks) - 1
        /\ \A i \in 1 .. Len(tasks') : tasks'[i] = tasks[i + 1]
        /\ Head(tasks) = tasks[1] /\ Head(tasks) \in Nat
    BY <1>1, <2>1, TakeHead
  <2>3. /\ Len(started') = Len(started) + 1
        /\ \A i \in 1 .. Len(started) : started'[i] = started[i]
        /\ started'[Len(started) + 1] = Len(started) + 1
    BY <1>1, <2>1, <2>2, AppendTask
  <2>4. ASSUME NEW i \in 1 .. Len(started')
        PROVE  started'[i] = i
    <3>1. CASE i \in 1 .. Len(started)
      BY <1>1, <2>3, <3>1
    <3>2. CASE i = Len(started) + 1
      BY <2>3, <3>2
    <3>3. QED  BY <1>1, <2>3, <3>1, <3>2
  <2>5. ASSUME NEW i \in 1 .. Len(tasks')
        PROVE  tasks'[i] = Len(started') + i
    <3>1. i + 1 \in 1 .. Len(tasks)
      BY <1>1, <2>2
    <3>2. tasks'[i] = Len(started) + (i + 1)
      BY <1>1, <2>2, <3>1
    <3>3. QED  BY <1>1, <2>2, <2>3, <3>2
  <2>6. Len(started') + Len(tasks') = submitted'
    BY <1>1, <2>1, <2>2, <2>3
  <2>7. QED  BY <2>4, <2>5, <2>6 DEF StartedInOrder
<1>4. CASE (\E w \in Workers : Finish(w))
           \/ UNCHANGED <<tasks, running, submitted, early, started, finished>>
  <2>1. UNCHANGED <<tasks, started, submitted>>
    BY <1>4 DEF Finish
  <2>2. QED  BY <2>1 DEF StartedInOrder
<1>5. QED  BY <1>2, <1>3, <1>4, TaskSteps

\* Tasks start in the order of submission, always.
LEMMA FifoInvariant == Spec => [](TypeOK /\ StartedInOrder)
<1>1. Init => TypeOK /\ StartedInOrder
  BY EmptySeq DEF Init, TypeOK, StartedInOrder, WorkerPlaces, ClientPlaces
<1>2. TypeOK /\ StartedInOrder /\ [Next]_vars => (TypeOK /\ StartedInOrder)'
  BY FifoStep, TypingStep
<1>3. QED  BY <1>1, <1>2, PTL DEF Spec

(* Tasks are started once each and in the order they were submitted.        *)
THEOREM TasksStartInOrder == Spec => []StartedInOrder
BY FifoInvariant, PTL

-----------------------------------------------------------------------------
(* Every started task is held by one worker until it is finished.           *)
Holding ==
    /\ \A w \in Workers : worker[w] = "busy" <=> running[w] # 0
    /\ \A w \in Workers : running[w] <= Len(started) /\ running[w] \notin finished
    /\ \A v, w \in Workers : running[v] = running[w] /\ running[v] # 0 => v = w
    /\ \A t \in 1 .. Len(started) : t \in finished \/ \E w \in Workers : running[w] = t
    /\ finished \subseteq 1 .. Len(started)

\* A task taken from the queue is held by the worker that took it.
LEMMA HoldingTake ==
  ASSUME TypeOK, StartedInOrder, Holding, NEW u \in Workers, TakeTask(u)
  PROVE  Holding'
<1>1. /\ Len(started) \in Nat /\ started \in Seq(Nat) /\ tasks \in Seq(Nat)
      /\ tasks # <<>>
  BY LenProperties DEF TypeOK, TakeTask
<1>2. Head(tasks) = Len(started) + 1 /\ Len(tasks) > 0
  BY <1>1, TakeHead DEF StartedInOrder
<1>3. Len(started') = Len(started) + 1
  BY <1>1, <1>2, AppendTask DEF TakeTask
<1>4. /\ running' = [running EXCEPT ![u] = Len(started) + 1]
      /\ worker' = [worker EXCEPT ![u] = "busy"]
      /\ worker[u] = "locking" /\ finished' = finished
  BY <1>2 DEF TakeTask
<1>5. /\ \A w \in Workers : running[w] \in Nat
      /\ running \in [Workers -> Nat] /\ worker \in [Workers -> WorkerPlaces]
      /\ running[u] = 0
  BY <1>4 DEF TypeOK, Holding
<1>6. /\ \A w \in Workers : running'[w] = IF w = u THEN Len(started) + 1 ELSE running[w]
      /\ \A w \in Workers : worker'[w] = IF w = u THEN "busy" ELSE worker[w]
  BY <1>4, <1>5
<1>7. \A w \in Workers : worker'[w] = "busy" <=> running'[w] # 0
  BY <1>1, <1>5, <1>6 DEF Holding
<1>8. \A w \in Workers : running'[w] <= Len(started') /\ running'[w] \notin finished'
  BY <1>1, <1>3, <1>4, <1>5, <1>6 DEF Holding
<1>9. ASSUME NEW v \in Workers, NEW w \in Workers,
             running'[v] = running'[w], running'[v] # 0
      PROVE  v = w
  <2>1. running[v] # Len(started) + 1 /\ running[w] # Len(started) + 1
    BY <1>1, <1>5 DEF Holding
  <2>2. (v = u) <=> (w = u)
    BY <1>6, <1>9, <2>1
  <2>3. CASE v # u /\ w # u
    BY <1>6, <1>9, <2>3 DEF Holding
  <2>4. QED  BY <2>2, <2>3
<1>10. ASSUME NEW t \in 1 .. Len(started')
       PROVE  t \in finished' \/ \E w \in Workers : running'[w] = t
  <2>1. CASE t \in 1 .. Len(started)
    <3>1. t # 0
      BY <2>1
    <3>2. QED  BY <1>4, <1>5, <1>6, <2>1, <3>1 DEF Holding
  <2>2. CASE t = Len(started) + 1
    BY <1>6, <2>2
  <2>3. QED  BY <1>1, <1>3, <2>1, <2>2
<1>11. finished' \subseteq 1 .. Len(started')
  BY <1>1, <1>3, <1>4 DEF Holding
<1>12. QED  BY <1>7, <1>8, <1>9, <1>10, <1>11 DEF Holding

\* A task that has run is held by nobody.
LEMMA HoldingFinish ==
  ASSUME TypeOK, Holding, NEW u \in Workers, Finish(u)
  PROVE  Holding'
<1>1. /\ running' = [running EXCEPT ![u] = 0]
      /\ worker' = [worker EXCEPT ![u] = "locking"]
      /\ finished' = finished \cup {running[u]}
      /\ started' = started /\ worker[u] = "busy"
  BY DEF Finish
<1>2. /\ Len(started) \in Nat /\ running \in [Workers -> Nat]
      /\ worker \in [Workers -> WorkerPlaces]
      /\ running[u] \in 1 .. Len(started)
  BY <1>1, LenProperties DEF TypeOK, Holding
<1>3. /\ \A w \in Workers : running'[w] = IF w = u THEN 0 ELSE running[w]
      /\ \A w \in Workers : worker'[w] = IF w = u THEN "locking" ELSE worker[w]
  BY <1>1, <1>2
<1>4. \A w \in Workers : worker'[w] = "busy" <=> running'[w] # 0
  BY <1>3 DEF Holding
<1>5. 0 \notin finished
  BY <1>2 DEF Holding
<1>6. \A w \in Workers : running'[w] <= Len(started') /\ running'[w] \notin finished'
  BY <1>1, <1>2, <1>3, <1>5 DEF Holding
<1>7. \A v, w \in Workers : running'[v] = running'[w] /\ running'[v] # 0 => v = w
  BY <1>3 DEF Holding
<1>8. \A t \in 1 .. Len(started') :
        t \in finished' \/ \E w \in Workers : running'[w] = t
  BY <1>1, <1>3 DEF Holding
<1>9. finished' \subseteq 1 .. Len(started')
  BY <1>1, <1>2 DEF Holding
<1>10. QED  BY <1>4, <1>6, <1>7, <1>8, <1>9 DEF Holding

\* No step gives a task to a second worker.
LEMMA HoldingStep ==
  ASSUME TypeOK, StartedInOrder, Holding, [Next]_vars
  PROVE  Holding'
<1>1. ASSUME NEW w \in Workers, TakeTask(w)
      PROVE  Holding'
  BY <1>1, HoldingTake
<1>2. ASSUME NEW w \in Workers, Finish(w)
      PROVE  Holding'
  BY <1>2, HoldingFinish
<1>3. ASSUME NEW c \in Clients, Enqueue(c) \/ Exchange(c) \/ JoinAll(c)
      PROVE  Holding'
  BY <1>3 DEF Enqueue, Exchange, JoinAll, Holding
<1>4. ASSUME NEW c \in Clients, NotifyOne(c) \/ NotifyAll(c)
      PROVE  Holding'
  <2>1. \A w \in Workers : worker'[w] = "busy" <=> worker[w] = "busy"
    BY <1>4 DEF NotifyOne, NotifyAll, At, TypeOK
  <2>2. UNCHANGED <<running, started, finished>>
    BY <1>4 DEF NotifyOne, NotifyAll
  <2>3. QED  BY <2>1, <2>2 DEF Holding
<1>5. ASSUME NEW w \in Workers,
             Leave(w) \/ FindNothing(w) \/ Block(w) \/ SpuriousWake(w)
      PROVE  Holding'
  <2>1. \A v \in Workers : worker'[v] = "busy" <=> worker[v] = "busy"
    BY <1>5 DEF Leave, FindNothing, Block, SpuriousWake, TypeOK
  <2>2. UNCHANGED <<running, started, finished>>
    BY <1>5 DEF Leave, FindNothing, Block, SpuriousWake
  <2>3. QED  BY <2>1, <2>2 DEF Holding
<1>6. CASE UNCHANGED vars
  BY <1>6 DEF vars, Holding
<1>7. QED
  BY <1>1, <1>2, <1>3, <1>4, <1>5, <1>6 DEF Next, ClientGoesOn, WorkerStep

\* A started task has run or is held by exactly one worker, always.
LEMMA HoldingInvariant == Spec => [](TypeOK /\ StartedInOrder /\ Holding)
<1>1. Init => Holding
  BY DEF Init, Holding
<1>2. TypeOK /\ StartedInOrder /\ Holding /\ [Next]_vars => Holding'
  BY HoldingStep
<1>3. QED  BY <1>1, <1>2, FifoInvariant, PTL DEF Spec

(* Between worker_loop taking a task and the task's end exactly one worker  *)
(* holds it.                                                                *)
THEOREM OneWorkerHoldsATask == Spec => []OneWorkerPerTask
<1>1. ASSUME TypeOK, Holding
      PROVE  OneWorkerPerTask
  <2>1. ASSUME NEW t \in 1 .. Len(started), t \in finished
        PROVE  Holders(t) = {}
    BY <1>1, <2>1 DEF Holding, Holders
  <2>2. ASSUME NEW t \in 1 .. Len(started), t \notin finished
        PROVE  \E w \in Workers : Holders(t) = {w}
    <3>1. PICK w \in Workers : running[w] = t
      BY <1>1, <2>2 DEF Holding
    <3>2. t # 0
      OBVIOUS
    <3>3. Holders(t) = {w}
      BY <1>1, <3>1, <3>2 DEF Holding, Holders
    <3>4. QED  BY <3>3
  <2>3. \A w \in Workers : running[w] <= Len(started)
    BY <1>1 DEF Holding
  <2>4. QED  BY <2>1, <2>2, <2>3 DEF OneWorkerPerTask
<1>2. QED  BY <1>1, HoldingInvariant, PTL

-----------------------------------------------------------------------------
(* The notify_one of submit does not strand a task: an enqueue adds one     *)
(* task and one notification under way; a notification that finds a blocked *)
(* worker becomes an awake worker; an awake worker goes back to sleep only  *)
(* after it found the queue empty with mu_ held, and nothing is enqueued    *)
(* until it has released it.                                                *)
DecidedOnEmpty == At("deciding") # {} => tasks = <<>>

\* While a worker that found the queue empty still holds mu_, nothing is
\* enqueued.
LEMMA DecidedStep ==
  ASSUME TypeOK, DecidedOnEmpty, [Next]_vars
  PROVE  DecidedOnEmpty'
<1>1. ASSUME NEW c \in Clients, Enqueue(c)
      PROVE  DecidedOnEmpty'
  BY <1>1 DEF Enqueue, MutexFree, At, DecidedOnEmpty
<1>2. ASSUME NEW c \in Clients, Exchange(c) \/ JoinAll(c)
      PROVE  DecidedOnEmpty'
  BY <1>2 DEF Exchange, JoinAll, At, DecidedOnEmpty
<1>3. ASSUME NEW c \in Clients, NotifyOne(c) \/ NotifyAll(c)
      PROVE  DecidedOnEmpty'
  BY <1>3 DEF NotifyOne, NotifyAll, At, DecidedOnEmpty, TypeOK
<1>4. ASSUME NEW w \in Workers, TakeTask(w)
      PROVE  DecidedOnEmpty'
  BY <1>4 DEF TakeTask, MutexFree, At, DecidedOnEmpty, TypeOK
<1>5. ASSUME NEW w \in Workers, FindNothing(w)
      PROVE  DecidedOnEmpty'
  BY <1>5 DEF FindNothing, DecidedOnEmpty
<1>6. ASSUME NEW w \in Workers, Leave(w) \/ Block(w) \/ SpuriousWake(w) \/ Finish(w)
      PROVE  DecidedOnEmpty'
  BY <1>6 DEF Leave, Block, SpuriousWake, Finish, At, DecidedOnEmpty, TypeOK
<1>7. CASE UNCHANGED vars
  BY <1>7 DEF vars, At, DecidedOnEmpty
<1>8. QED
  BY <1>1, <1>2, <1>3, <1>4, <1>5, <1>6, <1>7 DEF Next, ClientGoesOn, WorkerStep

\* The awake workers and the notifications under way are finitely many, before
\* and after a step.
LEMMA CountsFinite ==
  /\ IsFiniteSet(At("locking")) /\ Cardinality(At("locking")) \in Nat
  /\ IsFiniteSet(At("locking")') /\ Cardinality(At("locking")') \in Nat
  /\ IsFiniteSet(In("notifying")) /\ Cardinality(In("notifying")) \in Nat
  /\ IsFiniteSet(In("notifying")') /\ Cardinality(In("notifying")') \in Nat
<1>1. At("locking") \in SUBSET Workers /\ At("locking")' \in SUBSET Workers
  BY DEF At
<1>2. In("notifying") \in SUBSET Clients /\ In("notifying")' \in SUBSET Clients
  BY DEF In
<1>3. QED
  BY <1>1, <1>2, WorkersAssumption, ClientsAssumption, FS_Subset, FS_CardinalityType

\* No step leaves a task queued with a worker asleep and nobody to see it.
LEMMA StrandedStep ==
  ASSUME TypeOK, DecidedOnEmpty, NoStrandedTask, [Next]_vars
  PROVE  NoStrandedTask'
<1>0. tasks \in Seq(Nat) /\ Len(tasks) \in Nat
  BY LenProperties DEF TypeOK
<1>1. ASSUME NEW c \in Clients, Enqueue(c)
      PROVE  NoStrandedTask'
  <2>1. Len(tasks') = Len(tasks) + 1
    BY <1>0, <1>1, AppendTask DEF Enqueue, TypeOK
  <2>2. In("notifying")' = In("notifying") \cup {c} /\ c \notin In("notifying")
    BY <1>1 DEF Enqueue, In, TypeOK
  <2>3. Cardinality(In("notifying")') = Cardinality(In("notifying")) + 1
    BY <2>2, CountsFinite, FS_AddElement
  <2>4. At("locking")' = At("locking") /\ At("blocked")' = At("blocked")
    BY <1>1 DEF Enqueue, At
  <2>5. QED  BY <1>0, <2>1, <2>3, <2>4, CountsFinite DEF NoStrandedTask
<1>2. ASSUME NEW c \in Clients, NotifyOne(c)
      PROVE  NoStrandedTask'
  <2>1. In("notifying")' = In("notifying") \ {c} /\ c \in In("notifying")
    BY <1>2 DEF NotifyOne, In, TypeOK
  <2>2. Cardinality(In("notifying")') = Cardinality(In("notifying")) - 1
    BY <2>1, CountsFinite, FS_RemoveElement
  <2>3. tasks' = tasks
    BY <1>2 DEF NotifyOne
  <2>4. CASE At("blocked") = {}
    BY <1>2, <2>4 DEF NotifyOne, At, NoStrandedTask
  <2>5. CASE At("blocked") # {}
    <3>1. PICK w \in At("blocked") : worker' = [worker EXCEPT ![w] = "locking"]
      BY <1>2, <2>5 DEF NotifyOne
    <3>2. At("locking")' = At("locking") \cup {w} /\ w \notin At("locking")
      BY <3>1 DEF At, TypeOK
    <3>3. Cardinality(At("locking")') = Cardinality(At("locking")) + 1
      BY <3>2, CountsFinite, FS_AddElement
    <3>4. QED  BY <1>0, <2>2, <2>3, <2>5, <3>3, CountsFinite DEF NoStrandedTask
  <2>6. QED  BY <2>4, <2>5
<1>3. ASSUME NEW c \in Clients, NotifyAll(c)
      PROVE  NoStrandedTask'
  BY <1>3 DEF NotifyAll, At, NoStrandedTask
<1>4. ASSUME NEW c \in Clients, Exchange(c) \/ JoinAll(c)
      PROVE  NoStrandedTask'
  <2>1. UNCHANGED <<tasks, At("blocked"), At("locking")>>
    BY <1>4 DEF Exchange, JoinAll, At
  <2>2. In("notifying")' = In("notifying")
    BY <1>4 DEF Exchange, JoinAll, In, TypeOK
  <2>3. QED  BY <2>1, <2>2 DEF NoStrandedTask
<1>5. ASSUME NEW w \in Workers, TakeTask(w)
      PROVE  NoStrandedTask'
  <2>1. Len(tasks') = Len(tasks) - 1
    BY <1>0, <1>5, TakeHead DEF TakeTask
  <2>2. At("locking")' = At("locking") \ {w} /\ w \in At("locking")
        /\ At("blocked")' = At("blocked")
    BY <1>5 DEF TakeTask, At, TypeOK
  <2>3. Cardinality(At("locking")') = Cardinality(At("locking")) - 1
    BY <2>2, CountsFinite, FS_RemoveElement
  <2>4. In("notifying")' = In("notifying")
    BY <1>5 DEF TakeTask, In
  <2>5. QED  BY <1>0, <2>1, <2>2, <2>3, <2>4, CountsFinite DEF NoStrandedTask
<1>6. ASSUME NEW w \in Workers, Leave(w) \/ FindNothing(w) \/ Block(w)
      PROVE  NoStrandedTask'
  <2>1. tasks' = <<>>
    BY <1>6 DEF Leave, FindNothing, Block, DecidedOnEmpty, At
  <2>2. Len(tasks') = 0
    BY <2>1
  <2>3. QED  BY <2>2, CountsFinite DEF NoStrandedTask
<1>7. ASSUME NEW w \in Workers, Finish(w) \/ SpuriousWake(w)
      PROVE  NoStrandedTask'
  <2>1. At("locking") \subseteq At("locking")' /\ At("blocked")' \subseteq At("blocked")
    BY <1>7 DEF Finish, SpuriousWake, At, TypeOK
  <2>2. UNCHANGED tasks /\ In("notifying")' = In("notifying")
    BY <1>7 DEF Finish, SpuriousWake, In
  <2>3. Cardinality(At("locking")) <= Cardinality(At("locking")')
    BY <2>1, CountsFinite, FS_Subset
  <2>4. QED  BY <1>0, <2>1, <2>2, <2>3, CountsFinite DEF NoStrandedTask
<1>8. CASE UNCHANGED vars
  BY <1>8 DEF vars, At, In, NoStrandedTask
<1>9. QED
  BY <1>1, <1>2, <1>3, <1>4, <1>5, <1>6, <1>7, <1>8
     DEF Next, ClientGoesOn, WorkerStep

(* While a worker sleeps in cv_.wait, every queued task has a notification  *)
(* under way or an awake worker to take it.                                 *)
THEOREM TasksNotStranded == Spec => []NoStrandedTask
<1>1. Init => DecidedOnEmpty /\ NoStrandedTask
  BY DEF Init, DecidedOnEmpty, NoStrandedTask, At
<1>2. TypeOK /\ DecidedOnEmpty /\ NoStrandedTask /\ [Next]_vars
        => DecidedOnEmpty' /\ NoStrandedTask'
  BY DecidedStep, StrandedStep
<1>3. QED  BY <1>1, <1>2, PoolTypeCorrect, PTL DEF Spec

-----------------------------------------------------------------------------
(* A worker leaves only after stop_ is set and the queue has been empty     *)
(* since, so whatever was submitted earlier has been started by then.       *)
Leaving ==
    /\ early <= submitted
    /\ At("exited") # {} => stop = "set" /\ early <= Len(started)
    /\ In("returned") # {} => At("exited") = Workers

\* A worker leaves only when the tasks submitted before the shutdown have
\* started.
LEMMA LeavingStep ==
  ASSUME TypeOK, StartedInOrder, Leaving, [Next]_vars
  PROVE  Leaving'
<1>0. /\ started \in Seq(Nat) /\ tasks \in Seq(Nat) /\ Len(started) \in Nat
      /\ submitted \in Nat /\ early \in Nat
      /\ Len(started) + Len(tasks) = submitted
  BY LenProperties DEF TypeOK, StartedInOrder
<1>1. ASSUME NEW c \in Clients, Enqueue(c)
      PROVE  Leaving'
  <2>1. UNCHANGED <<stop, started, At("exited")>> /\ submitted' = submitted + 1
        /\ early' = IF stop = "unset" THEN submitted + 1 ELSE early
    BY <1>1 DEF Enqueue, At
  <2>2. In("returned")' = In("returned")
    BY <1>1 DEF Enqueue, In, TypeOK
  <2>3. early' <= submitted'
    BY <1>0, <2>1 DEF Leaving
  <2>4. QED  BY <2>1, <2>2, <2>3 DEF Leaving
<1>2. ASSUME NEW c \in Clients, Exchange(c)
      PROVE  Leaving'
  <2>1. UNCHANGED <<submitted, early, started, At("exited")>> /\ stop' = "set"
    BY <1>2 DEF Exchange, At
  <2>2. In("returned")' = In("returned")
    BY <1>2 DEF Exchange, In, TypeOK
  <2>3. QED  BY <2>1, <2>2 DEF Leaving
<1>3. ASSUME NEW c \in Clients, NotifyOne(c) \/ NotifyAll(c)
      PROVE  Leaving'
  <2>1. At("exited")' = At("exited")
    BY <1>3 DEF NotifyOne, NotifyAll, At, TypeOK
  <2>2. In("returned")' = In("returned")
    BY <1>3 DEF NotifyOne, NotifyAll, In, TypeOK
  <2>3. UNCHANGED <<submitted, early, started, stop>>
    BY <1>3 DEF NotifyOne, NotifyAll
  <2>4. QED  BY <2>1, <2>2, <2>3 DEF Leaving
<1>4. ASSUME NEW c \in Clients, JoinAll(c)
      PROVE  Leaving'
  BY <1>4 DEF JoinAll, At, Leaving
<1>5. ASSUME NEW w \in Workers, TakeTask(w)
      PROVE  Leaving'
  <2>1. Len(started') = Len(started) + 1
    BY <1>0, <1>5, TakeHead, AppendTask DEF TakeTask
  <2>2. At("exited")' = At("exited")
    BY <1>5 DEF TakeTask, At, TypeOK
  <2>3. UNCHANGED <<submitted, early, stop, In("returned")>>
    BY <1>5 DEF TakeTask, In
  <2>4. QED  BY <1>0, <2>1, <2>2, <2>3 DEF Leaving
<1>6. ASSUME NEW w \in Workers, Leave(w)
      PROVE  Leaving'
  <2>1. Len(tasks) = 0
    BY <1>6 DEF Leave
  <2>2. early <= Len(started)
    BY <1>0, <2>1 DEF Leaving
  <2>3. At("exited") \subseteq At("exited")' /\ At("exited")' \subseteq Workers
    BY <1>6 DEF Leave, At, TypeOK
  <2>4. UNCHANGED <<submitted, early, started, stop, In("returned")>> /\ stop = "set"
    BY <1>6 DEF Leave, In
  <2>5. QED  BY <2>2, <2>3, <2>4 DEF Leaving
<1>7. ASSUME NEW w \in Workers,
             FindNothing(w) \/ Block(w) \/ Finish(w) \/ SpuriousWake(w)
      PROVE  Leaving'
  <2>1. At("exited")' = At("exited")
    BY <1>7 DEF FindNothing, Block, Finish, SpuriousWake, At, TypeOK
  <2>2. UNCHANGED <<submitted, early, started, stop, In("returned")>>
    BY <1>7 DEF FindNothing, Block, Finish, SpuriousWake, In
  <2>3. QED  BY <2>1, <2>2 DEF Leaving
<1>8. CASE UNCHANGED vars
  BY <1>8 DEF vars, At, In, Leaving
<1>9. QED
  BY <1>1, <1>2, <1>3, <1>4, <1>5, <1>6, <1>7, <1>8
     DEF Next, ClientGoesOn, WorkerStep

\* Once all workers have left, none holds a task, and all the early ones are done.
LEMMA AllDrained ==
  ASSUME Workers # {}, TypeOK, Holding, Leaving
  PROVE  ShutdownDrains
<1>1. SUFFICES ASSUME At("exited") = Workers
               PROVE  \A t \in 1 .. early : t \in finished
  BY DEF Leaving, ShutdownDrains
<1>2. early <= Len(started) /\ Len(started) \in Nat /\ early \in Nat
  <2>1. At("exited") # {}
    BY <1>1
  <2>2. QED  BY <2>1, LenProperties DEF Leaving, TypeOK
<1>3. \A w \in Workers : running[w] = 0
  BY <1>1 DEF Holding, At
<1>4. ASSUME NEW t \in 1 .. early
      PROVE  t \in finished
  <2>1. t \in 1 .. Len(started) /\ t # 0
    BY <1>2
  <2>2. QED  BY <1>3, <2>1 DEF Holding
<1>5. QED  BY <1>4

(* When shutdown() returns from its joins every worker has left and every   *)
(* task submitted before stop_ was set has run to its end.  A pool without  *)
(* workers would keep them all.                                             *)
THEOREM DrainedAtShutdown == ASSUME Workers # {} PROVE Spec => []ShutdownDrains
<1>1. Init => Leaving
  BY DEF Init, Leaving, At, In
<1>2. TypeOK /\ StartedInOrder /\ Leaving /\ [Next]_vars => Leaving'
  BY LeavingStep
<1>3. TypeOK /\ Holding /\ Leaving => ShutdownDrains
  BY AllDrained
<1>4. QED  BY <1>1, <1>2, <1>3, HoldingInvariant, PTL DEF Spec
-----------------------------------------------------------------------------
(* How many workers the unlocked notify_all of shutdown() can miss.  mu_ is *)
(* held by one worker at most, so one at most is between its predicate and  *)
(* its wait; after stop_ is set no other gets there.                        *)

\* The workers that went to sleep or are about to.
Dozing == At("deciding") \cup At("blocked")

\* One thread holds mu_ at a time.
MutexExclusive == \A v, w \in At("deciding") : v = w

MissedInv ==
    /\ MutexExclusive
    /\ In("stopping") \cup In("joining") # {} => stop = "set"
    /\ In("joining") # {} => \A v, w \in Dozing : v = w

\* No worker takes mu_ or falls asleep, no client enters shutdown().
LEMMA MissedFewer ==
  ASSUME MissedInv, At("deciding")' \subseteq At("deciding"), Dozing' \subseteq Dozing,
         In("stopping")' \subseteq In("stopping"), In("joining")' \subseteq In("joining"),
         stop' = stop
  PROVE  MissedInv'
BY DEF MissedInv, MutexExclusive

\* Every step of the pool keeps to at most one worker missed.
LEMMA MissedStep ==
  ASSUME TypeOK, MissedInv, [Next]_vars
  PROVE  MissedInv'
<1> USE DEF At, In, Dozing
<1>1. ASSUME NEW c \in Clients, Enqueue(c) \/ NotifyOne(c) \/ JoinAll(c)
      PROVE  MissedInv'
  <2>1. /\ At("deciding")' \subseteq At("deciding") /\ Dozing' \subseteq Dozing
        /\ stop' = stop
    BY <1>1 DEF Enqueue, NotifyOne, JoinAll, TypeOK
  <2>2. /\ In("stopping")' \subseteq In("stopping") /\ In("joining")' \subseteq In("joining")
    BY <1>1 DEF Enqueue, NotifyOne, JoinAll, TypeOK
  <2> HIDE DEF At, In, Dozing
  <2>3. QED  BY <2>1, <2>2, MissedFewer
<1>2. ASSUME NEW c \in Clients, Exchange(c)
      PROVE  MissedInv'
  <2>1. /\ UNCHANGED <<At("deciding"), Dozing>> /\ stop' = "set"
        /\ In("joining")' \subseteq In("joining")
    BY <1>2 DEF Exchange, TypeOK
  <2> HIDE DEF At, In, Dozing
  <2>2. QED  BY <2>1 DEF MissedInv, MutexExclusive
<1>3. ASSUME NEW c \in Clients, NotifyAll(c)
      PROVE  MissedInv'
  <2>1. At("deciding")' = At("deciding") /\ Dozing' = At("deciding") /\ stop' = stop
    BY <1>3 DEF NotifyAll, TypeOK
  <2>2. In("stopping") # {}
    BY <1>3 DEF NotifyAll
  <2> HIDE DEF At, In, Dozing
  <2>3. QED  BY <2>1, <2>2 DEF MissedInv, MutexExclusive
<1>4. ASSUME NEW w \in Workers, FindNothing(w)
      PROVE  MissedInv'
  <2>1. /\ At("deciding") = {} /\ At("deciding")' = {w}
        /\ UNCHANGED <<In("stopping"), In("joining"), stop>> /\ stop # "set"
    BY <1>4 DEF FindNothing, MutexFree, TypeOK
  <2> HIDE DEF At, In, Dozing
  <2>2. QED  BY <2>1 DEF MissedInv, MutexExclusive
<1>5. ASSUME NEW w \in Workers,
             TakeTask(w) \/ Leave(w) \/ Block(w) \/ Finish(w) \/ SpuriousWake(w)
      PROVE  MissedInv'
  <2>1. At("deciding")' \subseteq At("deciding") /\ Dozing' \subseteq Dozing
    BY <1>5 DEF TakeTask, Leave, Block, Finish, SpuriousWake, TypeOK
  <2>2. UNCHANGED <<In("stopping"), In("joining"), stop>>
    BY <1>5 DEF TakeTask, Leave, Block, Finish, SpuriousWake
  <2> HIDE DEF At, In, Dozing
  <2>3. QED  BY <2>1, <2>2, MissedFewer
<1>6. CASE UNCHANGED vars
  BY <1>6 DEF vars, MissedInv, MutexExclusive
<1>7. QED
  BY <1>1, <1>2, <1>3, <1>4, <1>5, <1>6 DEF Next, ClientGoesOn, WorkerStep

\* The invariant at first and always.
LEMMA MissedAlways == Spec => []MissedInv
<1>1. Init => MissedInv
  BY DEF Init, MissedInv, MutexExclusive, Dozing, At, In
<1>2. QED  BY <1>1, MissedStep, PoolTypeCorrect, PTL DEF Spec

(* Whatever the number of workers, notify_all of shutdown() leaves at most  *)
(* one of them behind: a camera that hangs in stop() hangs on one worker.   *)
THEOREM OneMissedAtMost == Spec => []AtMostOneMissed
<1>1. MissedInv => AtMostOneMissed
  BY DEF MissedInv, AtMostOneMissed, Dozing
<1>2. QED  BY <1>1, MissedAlways, PTL

\* After stop_ is set no worker gets from awake to asleep.
NoneFallsAsleep ==
    [][stop = "set" => Dozing' \subseteq Dozing]_vars

(* So the hang is decided when stop_ is set and notify_all is called: a     *)
(* worker that is awake after that never blocks again, which is why         *)
(* CaughtAllReturns holds and what a spurious wake-up would cure for good.  *)
THEOREM AwakeStayAwake == Spec => NoneFallsAsleep
<1>1. TypeOK /\ [Next]_vars => [stop = "set" => Dozing' \subseteq Dozing]_vars
  <2> SUFFICES ASSUME TypeOK, Next, stop = "set"
               PROVE  Dozing' \subseteq Dozing
    OBVIOUS
  <2> USE DEF Dozing, At
  <2>1. ASSUME NEW c \in Clients, Enqueue(c) \/ Exchange(c) \/ ClientGoesOn(c)
        PROVE  Dozing' \subseteq Dozing
    BY <2>1 DEF Enqueue, Exchange, ClientGoesOn, NotifyOne, NotifyAll, JoinAll, TypeOK
  <2>2. ASSUME NEW w \in Workers, WorkerStep(w) \/ SpuriousWake(w)
        PROVE  Dozing' \subseteq Dozing
    BY <2>2 DEF WorkerStep, TakeTask, Leave, FindNothing, Block, Finish, SpuriousWake, TypeOK
  <2>3. QED  BY <2>1, <2>2 DEF Next
<1>2. QED  BY <1>1, PoolTypeCorrect, PTL DEF Spec, NoneFallsAsleep
===============================================================================
