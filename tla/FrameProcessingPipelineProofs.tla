-------------------- MODULE FrameProcessingPipelineProofs --------------------
(* Proofs about FrameProcessingPipeline.                                    *)
EXTENDS FrameProcessingPipeline, FiniteSetTheorems, SequenceTheorems, TLAPS

(* The facts proved of ConcurrentQueue, read for the pipeline's queue.      *)
queue == INSTANCE ConcurrentQueueProofs WITH
    Producers <- {CaptureThread}, Consumers <- Workers,
    ConsumerOps <- {"pop_latest"}, Capacity <- QueueCapacity,
    Policies <- {"DropOldestWhenFull"}, policy <- "DropOldestWhenFull",
    MaxPush <- MaxFrames

\* And those proved of ThreadPool, read for its pool.
pooled == INSTANCE ThreadPoolProofs WITH
    Workers <- Threads, Clients <- {Owner}, MaxTasks <- InferenceWorkers,
    stop <- poolStop, worker <- thread, running <- runs

\* The loops and the threads are finitely many, and not the capture thread.
LEMMA WorkersFinite ==
    /\ IsFiniteSet(Workers) /\ CaptureThread \notin Workers
    /\ IsFiniteSet(Threads)
BY WorkersAssumption, FS_Interval DEF Workers, Threads

\* What happens in the pool alone, and the return of start().
PoolMoves == \/ SubmitLoop
             \/ \E p \in Threads : EndLoop(p) \/ Idle(p) \/ PoolSpuriousWake(p)

Elsewhere == PoolMoves \/ StartReturns

\* It leaves everything but the pool and the owner's place as it is.
LEMMA ElsewhereKeeps ==
    ASSUME Elsewhere
    PROVE  UNCHANGED <<queueVars, running, starts, captureVars, workVars, clockVars>>
BY DEF Elsewhere, PoolMoves, SubmitLoop, EndLoop, Idle, PoolSpuriousWake, PoolKeeps,
       StartReturns, controlVars

\* Steps of the pool alone leave the owner where it is.
LEMMA PoolMovesKeep == PoolMoves => control' = control
BY DEF PoolMoves, SubmitLoop, EndLoop, Idle, PoolSpuriousWake, PoolKeeps, controlVars

\* The steps of the pipeline, sorted by who makes them.
LEMMA NextCases ==
    ASSUME [Next]_vars
    PROVE  \/ Start \/ StopFlag \/ StopGoesOn \/ Elsewhere \/ Capture \/ Tick \/ SetClock
           \/ (\E w \in Workers : SpuriousWake(w)) \/ UNCHANGED vars
           \/ (\E w \in Workers : Work(w))
BY DEF Next, StartGoesOn, Elsewhere, PoolMoves

\* Every step of the pipeline is a step of its queue or leaves it alone.
LEMMA QueueStep == [Next]_vars => [frames!Next]_(frames!vars)
<1> SUFFICES ASSUME [Next]_vars
             PROVE  [frames!Next]_(frames!vars)
  OBVIOUS
<1> USE DEF queueVars
<1>1. CASE Start \/ StopFlag \/ StopJoinsCapture \/ StopShutsPool \/ StopClosesSource
           \/ Elsewhere \/ Tick \/ SetClock
  BY <1>1, ElsewhereKeeps
     DEF Start, StopFlag, StopJoinsCapture, StopShutsPool, StopClosesSource, Tick,
         SetClock, frames!vars
<1>2. CASE StopCloses
  BY <1>2 DEF StopCloses, frames!Next
<1>3. CASE Open \/ CaptureTest \/ ReadFrame \/ ReadNothing
  BY <1>3 DEF Open, CaptureTest, ReadFrame, ReadNothing, frames!vars
<1>4. CASE PushFrame
  BY <1>4 DEF PushFrame, frames!Next
<1>5. ASSUME NEW w \in Workers,
             GetFrame(w) \/ AwaitFrame(w) \/ QueueEnded(w)
      PROVE  frames!Next
  <2>1. frames!Consume(w)
    BY <1>5 DEF GetFrame, AwaitFrame, QueueEnded, frames!Consume
  <2>2. QED  BY <2>1 DEF frames!Next
<1>6. ASSUME NEW w \in Workers,
             Enter(w) \/ LoopTest(w) \/ SkipFrame(w) \/ CallThrows(w) \/ Infer(w)
             \/ ShowPicture(w) \/ ShowBoxes(w) \/ Stamp(w) \/ Suppress(w)
             \/ PublishAlert(w) \/ FrameDone(w)
      PROVE  UNCHANGED frames!vars
  BY <1>6 DEF Enter, RunLoop, LoopTest, SkipFrame, CallThrows, Infer, ShowPicture, ShowBoxes,
              Stamp, Suppress, PublishAlert, FrameDone, frames!vars
<1>7. ASSUME NEW w \in Workers, SpuriousWake(w)
      PROVE  frames!Next
  BY <1>7 DEF SpuriousWake, frames!Next, frames!Threads
<1>8. CASE UNCHANGED vars
  BY <1>8 DEF vars, frames!vars
<1>9. QED
  BY <1>1, <1>2, <1>3, <1>4, <1>5, <1>6, <1>7, <1>8, NextCases
     DEF StopGoesOn, Capture, Work

(* The pipeline uses its frame queue as ConcurrentQueue is specified, so    *)
(* every theorem about the queue is one about frames_.                      *)
THEOREM PipelineUsesQueue == Spec => UsesQueue
<1>1. Init => frames!Init
  BY DEF Init
<1>2. QED  BY <1>1, QueueStep, PTL DEF Spec, UsesQueue, frames!Spec

(* frames and queue are instances of one module with the same parameters.   *)
LEMMA SameNext == [frames!Next]_(frames!vars) <=> [queue!Next]_(queue!vars)
<1>1. frames!vars = queue!vars /\ frames!Threads = queue!Threads
      /\ (frames!closed <=> queue!closed)
  BY DEF frames!vars, queue!vars, frames!Threads, queue!Threads,
       frames!closed, queue!closed
<1>2. \A W : frames!NotifyOne(W) = queue!NotifyOne(W)
  BY DEF frames!NotifyOne, queue!NotifyOne
<1>3. \A t : frames!Returns(t) <=> queue!Returns(t)
  BY DEF frames!Returns, queue!Returns
<1>4. \A t, op : frames!Runs(t, op) <=> queue!Runs(t, op)
  BY DEF frames!Runs, queue!Runs
<1>5. \A p : frames!RunsPush(p) <=> queue!RunsPush(p)
  BY <1>4 DEF frames!RunsPush, queue!RunsPush
<1>6. \A p, rest : frames!Accept(p, rest) <=> queue!Accept(p, rest)
  BY <1>2, <1>3 DEF frames!Accept, queue!Accept
<1>7. \A p : frames!PushDropOldest(p) <=> queue!PushDropOldest(p)
  BY <1>5, <1>6 DEF frames!PushDropOldest, queue!PushDropOldest
<1>8. \A p : frames!PushBlocking(p) <=> queue!PushBlocking(p)
  BY <1>1, <1>5, <1>6 DEF frames!PushBlocking, queue!PushBlocking
<1>9. \A p : frames!PushWaits(p) <=> queue!PushWaits(p)
  BY <1>1, <1>5 DEF frames!PushWaits, queue!PushWaits
<1>10. \A p : frames!PushRefused(p) <=> queue!PushRefused(p)
  BY <1>1, <1>3, <1>4 DEF frames!PushRefused, queue!PushRefused
<1>11. \A p : frames!Push(p) <=> queue!Push(p)
  BY <1>7, <1>8, <1>9, <1>10 DEF frames!Push, queue!Push
<1>12. \A c, k : frames!Take(c, k) <=> queue!Take(c, k)
  BY <1>2, <1>3 DEF frames!Take, queue!Take
<1>13. \A c : frames!Pop(c) <=> queue!Pop(c)
  BY <1>4, <1>12 DEF frames!Pop, queue!Pop
<1>14. \A c : frames!PopLatest(c) <=> queue!PopLatest(c)
  BY <1>4, <1>12 DEF frames!PopLatest, queue!PopLatest
<1>15. \A c, op : frames!PopWaits(c, op) <=> queue!PopWaits(c, op)
  BY <1>1, <1>4 DEF frames!PopWaits, queue!PopWaits
<1>16. \A c, op : frames!PopNullopt(c, op) <=> queue!PopNullopt(c, op)
  BY <1>1, <1>3, <1>4 DEF frames!PopNullopt, queue!PopNullopt
<1>17. \A c : frames!Consume(c) <=> queue!Consume(c)
  BY <1>13, <1>14, <1>15, <1>16 DEF frames!Consume, queue!Consume
<1>18. frames!CloseFlag <=> queue!CloseFlag
  BY DEF frames!CloseFlag, queue!CloseFlag
<1>19. frames!CloseRest <=> queue!CloseRest
  BY DEF frames!CloseRest, queue!CloseRest, frames!CloseNotifyNotEmpty,
       queue!CloseNotifyNotEmpty, frames!CloseNotifyNotFull,
       queue!CloseNotifyNotFull
<1>20. \A t : frames!SpuriousWake(t) <=> queue!SpuriousWake(t)
  BY DEF frames!SpuriousWake, queue!SpuriousWake
<1>21. frames!Next <=> queue!Next
  BY <1>1, <1>11, <1>17, <1>18, <1>19, <1>20 DEF frames!Next, queue!Next
<1>22. QED  BY <1>21 DEF frames!vars, queue!vars

\* The frame queue is ConcurrentQueue with the pipeline's parameters.
LEMMA SameSpec == frames!Spec <=> queue!Spec
<1>1. frames!Init <=> queue!Init
  BY DEF frames!Init, queue!Init, frames!Threads, queue!Threads
<1>2. QED  BY <1>1, SameNext, PTL DEF frames!Spec, queue!Spec

\* The pipeline's parameters satisfy the assumptions of ConcurrentQueue.
LEMMA QueueParameters ==
    /\ queue!ThreadsAssumption /\ queue!OpsAssumption /\ queue!CapacityAssumption
    /\ queue!PolicyAssumption /\ queue!MaxPushAssumption
<1>1. queue!ThreadsAssumption
  <2>1. IsFiniteSet({CaptureThread})
    BY FS_Singleton
  <2>2. {CaptureThread} \cap Workers = {} /\ IsFiniteSet(Workers)
    BY WorkersFinite
  <2>3. \A S : IsFiniteSet(S) <=> queue!IsFiniteSet(S)
    BY DEF IsFiniteSet, queue!IsFiniteSet
  <2>4. QED  BY <2>1, <2>2, <2>3 DEF queue!ThreadsAssumption
<1>2. queue!OpsAssumption
  BY DEF queue!OpsAssumption
<1>3. queue!CapacityAssumption
  BY QueueAssumption DEF queue!CapacityAssumption
<1>4. queue!PolicyAssumption
  BY DEF queue!PolicyAssumption
<1>5. queue!MaxPushAssumption
  BY QueueAssumption DEF queue!MaxPushAssumption
<1>6. QED  BY <1>1, <1>2, <1>3, <1>4, <1>5

(* What the workers of a camera are given is a subsequence of what the      *)
(* capture thread pushed: no frame twice, none out of order.                *)
THEOREM FramesDeliveredInOrder == Spec => []frames!InOrder
<1>1. Spec => frames!Spec
  BY PipelineUsesQueue DEF UsesQueue
<1>2. frames!Spec => []frames!InOrder
  <2>1. frames!InOrder <=> queue!InOrder
    BY DEF frames!InOrder, queue!InOrder
  <2>2. queue!Spec => []queue!InOrder
    BY QueueParameters, queue!DeliveredInOrder
  <2>3. QED  BY <2>1, <2>2, SameSpec, PTL
<1>3. QED  BY <1>1, <1>2

\* The queue's own type theorem, carried over to the pipeline.
LEMMA QueueTyped == Spec => []frames!TypeOK
<1>1. Spec => frames!Spec
  BY PipelineUsesQueue DEF UsesQueue
<1>2. frames!Spec => []frames!TypeOK
  <2>1. frames!TypeOK <=> queue!TypeOK
    BY DEF frames!TypeOK, queue!TypeOK, frames!Threads, queue!Threads
  <2>2. queue!Spec => []queue!TypeOK
    BY QueueParameters, queue!TypeCorrect
  <2>3. QED  BY <2>1, <2>2, SameSpec, PTL
<1>3. QED  BY <1>1, <1>2

-----------------------------------------------------------------------------
(* The pool.  Every start() makes a new one; between two of them the steps  *)
(* of the pipeline are steps of ThreadPool, and its invariants hold.        *)

\* pool and pooled are instances of one module with the same parameters.
LEMMA SamePool == [pool!Next]_(pool!vars) => [pooled!Next]_(pooled!vars)
<1>1. /\ \A place : pool!At(place) = pooled!At(place)
      /\ pool!MutexFree <=> pooled!MutexFree
  BY DEF pool!At, pooled!At, pool!MutexFree, pooled!MutexFree
<1>2. \A c : /\ pool!Enqueue(c) => pooled!Enqueue(c)
             /\ pool!Exchange(c) => pooled!Exchange(c)
  BY <1>1 DEF pool!Enqueue, pooled!Enqueue, pool!Exchange, pooled!Exchange
<1>3. \A c : pool!ClientGoesOn(c) => pooled!ClientGoesOn(c)
  <2>1. \A c : pool!NotifyOne(c) => pooled!NotifyOne(c)
    BY <1>1 DEF pool!NotifyOne, pooled!NotifyOne
  <2>2. \A c : pool!NotifyAll(c) => pooled!NotifyAll(c)
    BY DEF pool!NotifyAll, pooled!NotifyAll
  <2>3. \A c : pool!JoinAll(c) => pooled!JoinAll(c)
    BY <1>1 DEF pool!JoinAll, pooled!JoinAll
  <2>4. QED  BY <2>1, <2>2, <2>3 DEF pool!ClientGoesOn, pooled!ClientGoesOn
<1>4. \A p : /\ pool!TakeTask(p) => pooled!TakeTask(p)
             /\ pool!Leave(p) => pooled!Leave(p)
             /\ pool!FindNothing(p) => pooled!FindNothing(p)
  BY <1>1 DEF pool!TakeTask, pooled!TakeTask, pool!Leave, pooled!Leave,
              pool!FindNothing, pooled!FindNothing
<1>5. \A p : /\ pool!Block(p) => pooled!Block(p)
             /\ pool!Finish(p) => pooled!Finish(p)
             /\ pool!SpuriousWake(p) => pooled!SpuriousWake(p)
  BY DEF pool!Block, pooled!Block, pool!Finish, pooled!Finish, pool!SpuriousWake,
         pooled!SpuriousWake
<1>6. pool!Next => pooled!Next
  BY <1>2, <1>3, <1>4, <1>5 DEF pool!Next, pooled!Next, pool!WorkerStep, pooled!WorkerStep
<1>7. QED  BY <1>6 DEF pool!vars, pooled!vars

\* The pipeline's parameters satisfy the assumptions of ThreadPool.
LEMMA PoolParameters ==
    pooled!WorkersAssumption /\ pooled!ClientsAssumption /\ pooled!MaxTasksAssumption
<1>1. \A S : IsFiniteSet(S) <=> pooled!IsFiniteSet(S)
  BY DEF IsFiniteSet, pooled!IsFiniteSet
<1>2. IsFiniteSet({Owner})
  BY FS_Singleton
<1>3. QED
  BY <1>1, <1>2, WorkersFinite, WorkersAssumption
     DEF pooled!WorkersAssumption, pooled!ClientsAssumption, pooled!MaxTasksAssumption

\* Every step but start() is a step of the pool or leaves it alone.
LEMMA PoolStep == [Next]_vars => Start \/ [pool!Next]_(pool!vars)
<1> SUFFICES ASSUME [Next]_vars, ~Start
             PROVE  [pool!Next]_(pool!vars)
  OBVIOUS
<1>1. CASE SubmitLoop \/ StopShutsPool
  BY <1>1 DEF SubmitLoop, StopShutsPool, pool!Next, pool!ClientGoesOn
<1>2. ASSUME NEW p \in Threads,
             EndLoop(p) \/ Idle(p) \/ PoolSpuriousWake(p) \/ \E w \in Workers : RunLoop(p, w)
      PROVE  pool!Next
  BY <1>2 DEF EndLoop, Idle, PoolSpuriousWake, RunLoop, pool!Next, pool!WorkerStep
<1>3. ASSUME \/ StartReturns \/ StopFlag \/ StopCloses \/ StopJoinsCapture \/ StopClosesSource
           \/ Tick \/ SetClock \/ (\E w \in Workers : SpuriousWake(w)) \/ UNCHANGED vars
      PROVE  UNCHANGED poolVars
  BY <1>3 DEF StartReturns, StopFlag, StopCloses, StopJoinsCapture, StopClosesSource,
              Tick, SetClock, SpuriousWake, vars
<1>4. ASSUME Capture
      PROVE  UNCHANGED poolVars
  BY <1>4 DEF Capture, Open, CaptureTest, ReadFrame, ReadNothing, PushFrame, CaptureKeeps
<1>5. ASSUME NEW w \in Workers, Work(w), ~Enter(w)
      PROVE  UNCHANGED poolVars
  BY <1>5 DEF Work, LoopTest, GetFrame, AwaitFrame, QueueEnded, SkipFrame, CallThrows, Infer,
              ShowPicture, ShowBoxes, Stamp, Suppress, PublishAlert, FrameDone, WorkKeeps
<1>6. UNCHANGED poolVars => UNCHANGED pool!vars
  BY DEF poolVars, pool!vars
<1>7. QED
  BY <1>1, <1>2, <1>3, <1>4, <1>5, <1>6, NextCases
     DEF Enter, StopGoesOn, Elsewhere, PoolMoves

(* From one start() to the next the pipeline uses its pool as ThreadPool is *)
(* specified.                                                               *)
THEOREM PipelineUsesPool == Spec => [][Start \/ pool!Next]_poolVars
<1>1. [Next]_vars => [Start \/ pool!Next]_poolVars
  BY PoolStep DEF poolVars, pool!vars
<1>2. QED  BY <1>1, PTL DEF Spec

\* What holds of a pool, the one that was joined last included.
PoolInv ==
    /\ pooled!TypeOK /\ pooled!StartedInOrder /\ pooled!Holding /\ pooled!Leaving
    /\ pooled!MissedInv

\* Before the first start() no thread is there and nothing was submitted.
LEMMA PoolInit == Init => PoolInv
<1> SUFFICES ASSUME Init
             PROVE  PoolInv
  OBVIOUS
<1> USE DEF Init
<1>1. pooled!TypeOK
  BY DEF pooled!TypeOK, pooled!WorkerPlaces, pooled!ClientPlaces
<1>2. pooled!StartedInOrder /\ pooled!Holding
  BY DEF pooled!StartedInOrder, pooled!Holding
<1>3. pooled!Leaving /\ pooled!MissedInv
  BY DEF pooled!Leaving, pooled!MissedInv, pooled!MutexExclusive, pooled!Dozing,
         pooled!At, pooled!In
<1>4. QED  BY <1>1, <1>2, <1>3 DEF PoolInv

\* A new pool is at the beginning of its life.
LEMMA PoolFresh == NewPool => PoolInv'
<1> SUFFICES ASSUME NewPool
             PROVE  PoolInv'
  OBVIOUS
<1> USE DEF NewPool
<1>1. pooled!TypeOK'
  BY DEF pooled!TypeOK, pooled!WorkerPlaces, pooled!ClientPlaces
<1>2. pooled!StartedInOrder' /\ pooled!Holding'
  BY DEF pooled!StartedInOrder, pooled!Holding
<1>3. pooled!Leaving' /\ pooled!MissedInv'
  BY DEF pooled!Leaving, pooled!MissedInv, pooled!MutexExclusive, pooled!Dozing,
         pooled!At, pooled!In
<1>4. QED  BY <1>1, <1>2, <1>3 DEF PoolInv

\* Every step of the pipeline keeps what holds of a pool.
LEMMA PoolKept == PoolInv /\ [Next]_vars => PoolInv'
<1> SUFFICES ASSUME PoolInv, [Next]_vars
             PROVE  PoolInv'
  OBVIOUS
<1>1. CASE Start
  BY <1>1, PoolFresh DEF Start
<1>2. CASE [pooled!Next]_(pooled!vars)
  BY <1>2, PoolParameters, pooled!TypingStep, pooled!FifoStep, pooled!HoldingStep,
     pooled!LeavingStep, pooled!MissedStep DEF PoolInv
<1>3. QED  BY <1>1, <1>2, PoolStep, SamePool

\* They hold of the pipeline's pool always.
LEMMA PoolAlways == Spec => []PoolInv
BY PoolInit, PoolKept, PTL DEF Spec

(* At most one thread of a camera's pool can hang its stop(), whatever the  *)
(* number of workers and restarts: StopReturns's exception is one thread.   *)
THEOREM OneThreadMissed == Spec => []pool!AtMostOneMissed
<1>1. PoolInv => pool!AtMostOneMissed
  BY DEF PoolInv, pooled!MissedInv, pooled!Dozing, pooled!At, pooled!In,
         pool!AtMostOneMissed, pool!At, pool!In
<1>2. QED  BY <1>1, PoolAlways, PTL

-----------------------------------------------------------------------------
(* stop() leaves nothing running.  The joins of stop() are ordered, a       *)
(* thread that exited does not come back, and a worker is inside the queue  *)
(* only while its loop is at pop_latest.                                    *)

Calls == {"none", "push", "pop", "pop_latest"}

Placed == /\ call \in [frames!Threads -> Calls]
          /\ worker \in [Workers -> WorkerPlaces]

CallsArePops == /\ call[CaptureThread] = "none"
                /\ \A w \in Workers : call[w] # "none" => worker[w] = "popping"

JoinsInOrder ==
    /\ control = "ready" => \A w \in Workers : worker[w] = "none"
    /\ control \in {"joiningPool", "closingSource", "stopped"} => capture = "exited"
    /\ control = "stopped" => source = "closed"

QuietInv == Placed /\ CallsArePops /\ JoinsInOrder

\* The end of stop(): the pool and the loops are through.
Ended ==
    control \in {"closingSource", "stopped"} =>
        /\ \A p \in Threads : thread[p] = "exited"
        /\ \A w \in Workers : worker[w] = "left"

\* Before start() nobody is inside the queue.
LEMMA QuietInit == Init => QuietInv
BY WorkersFinite
   DEF Init, frames!Init, frames!Threads, QuietInv, Placed, CallsArePops, JoinsInOrder,
       Calls, WorkerPlaces

\* What the capture thread's push does to the calls under kDropOldestWhenFull.
LEMMA PushReturns ==
    frames!Push(CaptureThread) => call' = [call EXCEPT ![CaptureThread] = "none"]
BY DEF frames!Push, frames!PushDropOldest, frames!PushBlocking, frames!PushWaits,
       frames!PushRefused, frames!Accept, frames!Returns

\* start() and stop() keep the order of the joins.
LEMMA OwnerQuiet ==
    QuietInv /\ Ended /\ (Start \/ StopFlag \/ StopGoesOn) => QuietInv'
<1> SUFFICES ASSUME QuietInv, Ended, Start \/ StopFlag \/ StopGoesOn
             PROVE  QuietInv'
  OBVIOUS
<1> USE DEF QuietInv, Placed, CallsArePops, JoinsInOrder, frames!Threads, workVars,
            captureVars
<1>1. CASE Start
  <2>1. \A w \in Workers : call[w] = "none"
    BY <1>1 DEF Start, Ended
  <2>2. worker' \in [Workers -> WorkerPlaces] /\ call' = call /\ control' = "submitting"
    BY <1>1 DEF Start, WorkerPlaces, queueVars
  <2>3. QED  BY <2>1, <2>2
<1>2. CASE StopFlag
  BY <1>2 DEF StopFlag, queueVars
<1>3. CASE StopCloses
  BY <1>3 DEF StopCloses, frames!CloseFlag, frames!CloseRest,
              frames!CloseNotifyNotEmpty, frames!CloseNotifyNotFull
<1>4. CASE StopJoinsCapture \/ StopShutsPool \/ StopClosesSource
  BY <1>4 DEF StopJoinsCapture, StopShutsPool, StopClosesSource, CloseSource, queueVars
<1>5. QED  BY <1>1, <1>2, <1>3, <1>4 DEF StopGoesOn

\* A step of the capture loop keeps the order of the joins.
LEMMA CaptureQuiet == QuietInv /\ Capture => QuietInv'
<1> SUFFICES ASSUME QuietInv, Capture
             PROVE  QuietInv'
  OBVIOUS
<1> USE DEF QuietInv, Placed, CallsArePops, JoinsInOrder, frames!Threads,
            CaptureKeeps, controlVars, workVars
<1>1. CASE Open \/ CaptureTest \/ ReadFrame \/ ReadNothing
  BY <1>1 DEF Open, OpenSource, CloseSource, CaptureTest, ReadFrame, ReadNothing, queueVars
<1>2. CASE PushFrame
  <2>1. call' = [call EXCEPT ![CaptureThread] = "none"]
    BY <1>2, PushReturns DEF PushFrame
  <2>2. worker' = worker /\ control' = control /\ source' = source
        /\ capture = "pushing" /\ capture' = "looping"
    BY <1>2 DEF PushFrame
  <2>3. QED  BY <2>1, <2>2, WorkersFinite DEF Calls
<1>3. QED  BY <1>1, <1>2 DEF Capture

\* A step of a worker's loop: it was not at its end, and changes neither the
\* owner's nor the capture thread's state.
LEMMA LoopStep ==
    ASSUME NEW w \in Workers, Work(w), Placed
    PROVE  /\ UNCHANGED <<control, capture, source>>
           /\ worker[w] \notin {"none", "left"}
           /\ worker' \in [Workers -> WorkerPlaces]
           /\ \A v \in Workers \ {w} : worker'[v] = worker[v]
<1> USE DEF WorkKeeps, controlVars, captureVars, Goes, Placed, WorkerPlaces
<1>0. Throws \subseteq WorkerPlaces \ {"none", "starting", "looping", "popping", "left"}
  BY OutcomesAssumption
<1>1. CASE Enter(w) \/ LoopTest(w)
  BY <1>1 DEF Enter, RunLoop, LoopTest
<1>2. CASE GetFrame(w) \/ AwaitFrame(w) \/ QueueEnded(w)
  BY <1>2 DEF GetFrame, AwaitFrame, QueueEnded, workVars
<1>3. CASE SkipFrame(w) \/ CallThrows(w) \/ Infer(w)
  BY <1>0, <1>3 DEF SkipFrame, CallThrows, Infer
<1>4. CASE ShowPicture(w) \/ ShowBoxes(w) \/ Stamp(w)
  BY <1>4 DEF ShowPicture, ShowBoxes, Stamp
<1>5. CASE Suppress(w) \/ PublishAlert(w) \/ FrameDone(w)
  BY <1>5 DEF Suppress, PublishAlert, FrameDone
<1>6. QED  BY <1>1, <1>2, <1>3, <1>4, <1>5 DEF Work

\* The calls of a worker: only pop_latest, entered and left at "popping".
LEMMA LoopCalls ==
    ASSUME NEW w \in Workers, Work(w), Placed
    PROVE  \/ /\ call' = call
              /\ worker[w] # "popping"
           \/ /\ call' = [call EXCEPT ![w] = "none"]
           \/ /\ call' = [call EXCEPT ![w] = "pop_latest"]
              /\ worker'[w] = "popping"
<1>1. CASE GetFrame(w)
  BY <1>1 DEF GetFrame, frames!PopLatest, frames!Take, frames!Returns
<1>2. CASE AwaitFrame(w)
  BY <1>2 DEF AwaitFrame, frames!PopWaits, workVars
<1>3. CASE QueueEnded(w)
  BY <1>3 DEF QueueEnded, frames!PopNullopt, frames!Returns
<1>4. CASE Enter(w) \/ LoopTest(w)
  BY <1>4 DEF Enter, RunLoop, LoopTest, queueVars
<1>5. CASE SkipFrame(w) \/ CallThrows(w) \/ Infer(w)
  BY <1>5, OutcomesAssumption DEF SkipFrame, CallThrows, Infer, queueVars
<1>6. CASE ShowPicture(w) \/ ShowBoxes(w) \/ Stamp(w)
  BY <1>6 DEF ShowPicture, ShowBoxes, Stamp, queueVars
<1>7. CASE Suppress(w) \/ PublishAlert(w) \/ FrameDone(w)
  BY <1>7 DEF Suppress, PublishAlert, FrameDone, queueVars
<1>8. QED  BY <1>1, <1>2, <1>3, <1>4, <1>5, <1>6, <1>7 DEF Work

\* A step of a processing loop keeps the order of the joins.
LEMMA WorkerQuiet ==
    ASSUME QuietInv, NEW w \in Workers, Work(w)
    PROVE  QuietInv'
<1>1. Placed
  BY DEF QuietInv
<1>2. /\ UNCHANGED <<control, capture, source>>
      /\ worker[w] \notin {"none", "left"}
      /\ worker' \in [Workers -> WorkerPlaces]
      /\ \A v \in Workers \ {w} : worker'[v] = worker[v]
  BY <1>1, LoopStep
<1>3. \/ call' = call /\ worker[w] # "popping"
      \/ call' = [call EXCEPT ![w] = "none"]
      \/ call' = [call EXCEPT ![w] = "pop_latest"] /\ worker'[w] = "popping"
  BY <1>1, LoopCalls
<1>4. Placed'
  BY <1>1, <1>2, <1>3 DEF Placed, Calls, frames!Threads
<1>5. CallsArePops'
  BY <1>1, <1>2, <1>3, WorkersFinite
     DEF QuietInv, CallsArePops, Placed, frames!Threads
<1>6. JoinsInOrder'
  BY <1>2 DEF QuietInv, JoinsInOrder
<1>7. QED  BY <1>4, <1>5, <1>6 DEF QuietInv

\* Every step of the pipeline keeps the order of the joins.
LEMMA QuietStep == QuietInv /\ Ended /\ [Next]_vars => QuietInv'
<1> SUFFICES ASSUME QuietInv, Ended, [Next]_vars
             PROVE  QuietInv'
  OBVIOUS
<1>1. ASSUME UNCHANGED <<call, worker, control, capture, source>>
      PROVE  QuietInv'
  BY <1>1 DEF QuietInv, Placed, CallsArePops, JoinsInOrder, frames!Threads
<1>2. CASE Tick \/ SetClock \/ UNCHANGED vars
  BY <1>1, <1>2 DEF Tick, SetClock, vars, queueVars, controlVars, captureVars, workVars
<1>3. ASSUME NEW w \in Workers, SpuriousWake(w)
      PROVE  QuietInv'
  BY <1>1, <1>3 DEF SpuriousWake, frames!SpuriousWake, controlVars, captureVars, workVars
<1>4. CASE Elsewhere
  <2>1. UNCHANGED <<call, worker, capture, source>>
    BY <1>4, ElsewhereKeeps DEF queueVars, captureVars, workVars
  <2>2. \/ control' = control
        \/ control = "submitting" /\ control' = "started"
    BY <1>4, PoolMovesKeep DEF Elsewhere, StartReturns
  <2>3. QED
    BY <2>1, <2>2 DEF QuietInv, Placed, CallsArePops, JoinsInOrder, frames!Threads
<1>5. QED
  BY <1>2, <1>3, <1>4, OwnerQuiet, CaptureQuiet, WorkerQuiet, NextCases

-----------------------------------------------------------------------------
(* How the owner and the loops follow the pool.  start() submits every loop *)
(* before it returns, so stop() finds them all submitted; a loop has begun  *)
(* when a thread took its task, and has ended when that thread says so.     *)

OwnerInv ==
    /\ early = submitted /\ submitted \in 0 .. InferenceWorkers
    /\ control = "ready" => submitted = 0
    /\ control = "submitting" =>
          poolStop = "unset" /\ client[Owner] \in {"free", "notifying"}
    /\ control \in {"started", "closing", "joiningCapture"} =>
          poolStop = "unset" /\ client[Owner] = "free"
    /\ control = "joiningPool" =>
          \/ poolStop = "unset" /\ client[Owner] = "free"
          \/ client[Owner] \in {"stopping", "joining"}
    /\ control \in {"closingSource", "stopped"} => client[Owner] = "returned"
    /\ control \notin {"ready", "submitting"} => submitted = InferenceWorkers

LoopsFollow ==
    /\ control # "ready" =>
          \A w \in Workers : /\ worker[w] # "none"
                             /\ worker[w] = "starting" <=> w > Len(started)
    /\ \A w \in Workers : w \in finished => worker[w] = "left"

\* What a step of the pool by its threads leaves alone.
LEMMA ThreadsKeep ==
    ASSUME \/ \E p \in Threads : EndLoop(p) \/ Idle(p) \/ PoolSpuriousWake(p)
           \/ \E p \in Threads, w \in Workers : RunLoop(p, w)
    PROVE  UNCHANGED <<poolStop, client, submitted, early, control>>
BY DEF EndLoop, Idle, PoolSpuriousWake, PoolKeeps, RunLoop, controlVars, pool!Finish,
       pool!FindNothing, pool!Block, pool!Leave, pool!SpuriousWake, pool!TakeTask

\* start() submits its loops one by one, and waits for nothing.
LEMMA SubmitFollows ==
    ASSUME OwnerInv, pooled!TypeOK, SubmitLoop
    PROVE  OwnerInv'
<1>1. /\ control = "submitting" /\ control' = control /\ poolStop' = poolStop
      /\ submitted \in Nat /\ client \in [{Owner} -> pooled!ClientPlaces]
  BY DEF SubmitLoop, controlVars, pool!Enqueue, pool!NotifyOne, pooled!TypeOK
<1>2. CASE pool!Enqueue(Owner)
  BY <1>1, <1>2, WorkersAssumption DEF OwnerInv, pool!Enqueue
<1>3. CASE pool!NotifyOne(Owner)
  BY <1>1, <1>3 DEF OwnerInv, pool!NotifyOne
<1>4. QED  BY <1>2, <1>3 DEF SubmitLoop

\* stop() gets out of shutdown() only by the joins: nobody else calls it.
LEMMA ShutFollows ==
    ASSUME OwnerInv, pooled!TypeOK, StopShutsPool
    PROVE  OwnerInv'
<1>1. /\ control = "joiningPool" /\ UNCHANGED <<early, submitted>>
      /\ client \in [{Owner} -> pooled!ClientPlaces]
  BY DEF StopShutsPool, pool!Exchange, pool!NotifyAll, pool!JoinAll, pooled!TypeOK
<1>2. CASE pool!Exchange(Owner)
  <2>1. client'[Owner] = "stopping" /\ control' = "joiningPool"
    BY <1>1, <1>2 DEF pool!Exchange, StopShutsPool, OwnerInv
  <2>2. QED  BY <1>1, <2>1 DEF OwnerInv
<1>3. CASE pool!NotifyAll(Owner)
  <2>1. client'[Owner] = "joining" /\ control' = "joiningPool"
    BY <1>1, <1>3 DEF pool!NotifyAll, StopShutsPool
  <2>2. QED  BY <1>1, <2>1 DEF OwnerInv
<1>4. CASE pool!JoinAll(Owner)
  <2>1. client'[Owner] = "returned" /\ control' = "closingSource"
    BY <1>1, <1>4 DEF pool!JoinAll, StopShutsPool
  <2>2. QED  BY <1>1, <2>1 DEF OwnerInv
<1>5. QED  BY <1>2, <1>3, <1>4 DEF StopShutsPool

\* Every step keeps the owner's place in step with the pool.
LEMMA OwnerFollows == OwnerInv /\ PoolInv /\ [Next]_vars => OwnerInv'
<1> SUFFICES ASSUME OwnerInv, PoolInv, [Next]_vars
             PROVE  OwnerInv'
  OBVIOUS
<1>1. pooled!TypeOK
  BY DEF PoolInv
<1>2. CASE Start
  BY <1>2, WorkersAssumption DEF Start, NewPool, OwnerInv
<1>3. CASE StartReturns \/ StopFlag \/ StopCloses \/ StopJoinsCapture \/ StopClosesSource
  <2>1. UNCHANGED <<poolStop, client, submitted, early>>
    BY <1>3 DEF StartReturns, StopFlag, StopCloses, StopJoinsCapture, StopClosesSource,
                poolVars
  <2>2. \/ control = "submitting" /\ control' = "started" /\ submitted = InferenceWorkers
           /\ client[Owner] = "free"
        \/ control = "started" /\ control' = "closing"
        \/ control = "closing" /\ control' \in {"closing", "joiningCapture"}
        \/ control = "joiningCapture" /\ control' = "joiningPool"
        \/ control = "closingSource" /\ control' = "stopped"
    BY <1>3 DEF StartReturns, StopFlag, StopCloses, StopJoinsCapture, StopClosesSource
  <2>3. QED  BY <2>1, <2>2 DEF OwnerInv
<1>4. CASE \/ \E p \in Threads : EndLoop(p) \/ Idle(p) \/ PoolSpuriousWake(p)
           \/ \E p \in Threads, w \in Workers : RunLoop(p, w)
  BY <1>4, ThreadsKeep DEF OwnerInv
<1>5. ASSUME \/ Capture \/ Tick \/ SetClock \/ UNCHANGED vars
             \/ \E w \in Workers : SpuriousWake(w) \/ (Work(w) /\ ~Enter(w))
      PROVE  OwnerInv'
  <2>1. UNCHANGED <<poolVars, control>>
    BY <1>5 DEF Capture, Open, CaptureTest, ReadFrame, ReadNothing, PushFrame, CaptureKeeps,
                Tick, SetClock, vars, SpuriousWake, Work, LoopTest, GetFrame, AwaitFrame,
                QueueEnded, SkipFrame, CallThrows, Infer, ShowPicture, ShowBoxes, Stamp,
                Suppress, PublishAlert, FrameDone, WorkKeeps, controlVars
  <2>2. QED  BY <2>1 DEF OwnerInv, poolVars
<1>6. QED
  BY <1>1, <1>2, <1>3, <1>4, <1>5, SubmitFollows, ShutFollows, NextCases
     DEF Elsewhere, PoolMoves, StopGoesOn, Enter

\* The owner follows the pool always.
LEMMA OwnerAlways == Spec => []OwnerInv
<1>1. Init => OwnerInv
  BY WorkersAssumption DEF Init, OwnerInv
<1>2. QED  BY <1>1, OwnerFollows, PoolAlways, PTL DEF Spec

\* Once the pool is joined its threads and the loops are at their end.
LEMMA EndedOf == PoolInv /\ OwnerInv /\ LoopsFollow => Ended
<1> SUFFICES ASSUME PoolInv, OwnerInv, LoopsFollow,
                    control \in {"closingSource", "stopped"}
             PROVE  /\ \A p \in Threads : thread[p] = "exited"
                    /\ \A w \in Workers : worker[w] = "left"
  BY DEF Ended
<1>1. pooled!In("returned") # {}
  BY DEF OwnerInv, pooled!In
<1>2. pooled!At("exited") = Threads
  BY <1>1 DEF PoolInv, pooled!Leaving
<1>3. \A p \in Threads : thread[p] = "exited"
  BY <1>2 DEF pooled!At
<1>4. early = InferenceWorkers
  BY DEF OwnerInv
<1>5. ASSUME NEW w \in Workers
      PROVE  worker[w] = "left"
  <2>1. Threads # {} /\ w \in 1 .. early
    BY <1>4 DEF Workers, Threads
  <2>2. pooled!ShutdownDrains
    BY <2>1, PoolParameters, pooled!AllDrained DEF PoolInv
  <2>3. w \in finished
    BY <1>2, <2>1, <2>2 DEF pooled!ShutdownDrains
  <2>4. QED  BY <2>3 DEF LoopsFollow
<1>6. QED  BY <1>3, <1>5

\* A task at the head of the pool's queue is a loop that has not begun.
LEMMA HeadStarts ==
    ASSUME PoolInv, OwnerInv, tasks # <<>>
    PROVE  Head(tasks) = Len(started) + 1 /\ Head(tasks) \in Workers
<1>1. /\ tasks \in Seq(Nat) /\ Len(started) \in Nat
      /\ Len(started) + Len(tasks) = submitted /\ submitted <= InferenceWorkers
      /\ \A i \in 1 .. Len(tasks) : tasks[i] = Len(started) + i
  BY LenProperties DEF PoolInv, OwnerInv, pooled!TypeOK, pooled!StartedInOrder
<1>2. Head(tasks) = tasks[1] /\ Len(tasks) \in Nat /\ Len(tasks) > 0
  BY <1>1, EmptySeq, LenProperties
<1>3. QED  BY <1>1, <1>2, WorkersAssumption DEF Workers

\* Taking up a loop begins the next one.
LEMMA EnterFollows ==
    ASSUME PoolInv, OwnerInv, QuietInv, LoopsFollow, NEW p \in Threads, NEW w \in Workers,
           RunLoop(p, w)
    PROVE  LoopsFollow'
<1>1. w = Len(started) + 1
  BY HeadStarts DEF RunLoop, pool!TakeTask
<1>2. Len(started') = Len(started) + 1 /\ Len(started) \in Nat
  <2>1. started \in Seq(Nat) /\ Head(tasks) \in Nat /\ started' = Append(started, Head(tasks))
    BY HeadStarts DEF RunLoop, pool!TakeTask, PoolInv, pooled!TypeOK, Workers
  <2>2. QED  BY <2>1, AppendProperties, LenProperties
<1>3. /\ worker' = [worker EXCEPT ![w] = "looping"] /\ worker[w] = "starting"
      /\ UNCHANGED <<control, finished>> /\ worker \in [Workers -> WorkerPlaces]
  BY DEF RunLoop, Goes, pool!TakeTask, controlVars, QuietInv, Placed
<1>4. \A v \in Workers : v \in Nat
  BY DEF Workers
<1>5. QED  BY <1>1, <1>2, <1>3, <1>4 DEF LoopsFollow

\* Inside of the loops none begins, and one that ended stays so.
LEMMA WorkFollows ==
    ASSUME QuietInv, LoopsFollow, NEW w \in Workers, Work(w), ~Enter(w)
    PROVE  LoopsFollow'
<1>1. Placed
  BY DEF QuietInv
<1>2. worker[w] \notin {"left", "none"} /\ control' = control /\ \A v \in Workers \ {w} : worker'[v] = worker[v]
  BY <1>1, LoopStep
<1>3. worker[w] # "starting" /\ worker'[w] \notin {"starting", "none"}
  BY <1>1, OutcomesAssumption
     DEF Work, LoopTest, GetFrame, AwaitFrame, QueueEnded, SkipFrame, CallThrows, Infer,
         ShowPicture, ShowBoxes, Stamp, Suppress, PublishAlert, FrameDone, Goes, workVars,
         Placed
<1>4. UNCHANGED <<started, finished>>
  BY DEF Work, LoopTest, GetFrame, AwaitFrame, QueueEnded, SkipFrame, CallThrows, Infer,
         ShowPicture, ShowBoxes, Stamp, Suppress, PublishAlert, FrameDone, WorkKeeps,
         poolVars
<1>5. QED  BY <1>2, <1>3, <1>4 DEF LoopsFollow

\* Every step keeps the loops in step with the pool.
LEMMA LoopsStep ==
    ASSUME PoolInv, OwnerInv, QuietInv, LoopsFollow, [Next]_vars
    PROVE  LoopsFollow'
<1>1. CASE Start
  <2>1. /\ started' = <<>> /\ finished' = {}
        /\ \A w \in Workers : worker'[w] = "starting" /\ w > 0
    BY <1>1 DEF Start, NewPool, Workers
  <2>2. QED  BY <2>1 DEF LoopsFollow
<1>2. ASSUME NEW p \in Threads, EndLoop(p)
      PROVE  LoopsFollow'
  <2>1. /\ finished' = finished \cup {runs[p]} /\ worker[runs[p]] = "left"
        /\ UNCHANGED <<worker, control, started>>
    BY <1>2 DEF EndLoop, pool!Finish, PoolKeeps, workVars, controlVars
  <2>2. QED  BY <2>1 DEF LoopsFollow
<1>3. ASSUME UNCHANGED <<worker, control, started, finished>>
      PROVE  LoopsFollow'
  BY <1>3 DEF LoopsFollow
<1>4. CASE SubmitLoop \/ \E p \in Threads : Idle(p) \/ PoolSpuriousWake(p)
  BY <1>3, <1>4 DEF SubmitLoop, Idle, PoolSpuriousWake, PoolKeeps, pool!Enqueue,
                    pool!NotifyOne, pool!FindNothing, pool!Block, pool!Leave,
                    pool!SpuriousWake, workVars, controlVars
<1>5. CASE \/ StartReturns \/ StopFlag \/ StopGoesOn
  <2>1. UNCHANGED <<worker, started, finished>> /\ control # "ready"
    BY <1>5 DEF StartReturns, StopFlag, StopGoesOn, StopCloses, StopJoinsCapture,
                StopShutsPool, StopClosesSource, pool!Exchange, pool!NotifyAll,
                pool!JoinAll, workVars, poolVars
  <2>2. QED  BY <2>1 DEF LoopsFollow
<1>6. CASE \/ Capture \/ Tick \/ SetClock \/ UNCHANGED vars
           \/ \E w \in Workers : SpuriousWake(w)
  BY <1>3, <1>6 DEF Capture, Open, CaptureTest, ReadFrame, ReadNothing, PushFrame,
                    CaptureKeeps, Tick, SetClock, vars, SpuriousWake, workVars,
                    controlVars, poolVars
<1>7. ASSUME NEW w \in Workers, Work(w)
      PROVE  LoopsFollow'
  BY <1>7, EnterFollows, WorkFollows DEF Enter
<1>8. QED
  BY <1>1, <1>2, <1>4, <1>5, <1>6, <1>7, NextCases DEF Elsewhere, PoolMoves

\* The order of the joins and the ends of the loops, always.
LEMMA QuietAlways == Spec => [](QuietInv /\ LoopsFollow /\ Ended)
<1>1. Init => QuietInv /\ LoopsFollow
  BY QuietInit DEF Init, LoopsFollow
<1>2. PoolInv /\ OwnerInv /\ QuietInv /\ LoopsFollow /\ [Next]_vars
        => QuietInv' /\ LoopsFollow'
  BY EndedOf, QuietStep, LoopsStep
<1>3. QED  BY <1>1, <1>2, EndedOf, PoolAlways, OwnerAlways, PTL DEF Spec

(* When stop() has returned, no thread of the pipeline is left, every loop  *)
(* that start() submitted has come to its end, nobody is inside the queue,  *)
(* and the source is closed: for any number of workers, frames, failures of *)
(* infer() and of the source, and restarts.                                 *)
THEOREM StopLeavesQuiet == Spec => []StopQuiesces
<1>1. QuietInv /\ Ended => StopQuiesces
  BY WorkersFinite
     DEF QuietInv, Placed, CallsArePops, JoinsInOrder, Ended, StopQuiesces, frames!Threads
<1>2. QED  BY <1>1, QuietAlways, PTL

\* What a thread of the pool runs, or will run next, is a loop of the last
\* start(), and a loop that is under way is run by one thread.
LoopsAreTasks ==
    /\ tasks # <<>> /\ control # "ready" =>
          Head(tasks) \in Workers /\ worker[Head(tasks)] = "starting"
    /\ \A p \in Threads : thread[p] = "busy" =>
          runs[p] \in Workers /\ worker[runs[p]] \notin {"none", "starting"}
    /\ control # "ready" =>
          \A w \in Workers : worker[w] \notin {"starting", "left"} =>
              \E p \in Threads : /\ thread[p] = "busy" /\ runs[p] = w
                                 /\ \A q \in Threads : runs[q] = w => q = p

(* A thread that takes a task takes a loop that nobody has begun, one that  *)
(* is busy is inside a loop, and every loop under way is one thread's: no   *)
(* loop of a camera is run twice, and none outside of the pool.             *)
THEOREM LoopsRunOnce == Spec => []LoopsAreTasks
<1>1. ASSUME PoolInv, OwnerInv, QuietInv, LoopsFollow
      PROVE  LoopsAreTasks
  <2>1. ASSUME tasks # <<>>, control # "ready"
        PROVE  Head(tasks) \in Workers /\ worker[Head(tasks)] = "starting"
    <3>1. Head(tasks) \in Workers /\ Head(tasks) = Len(started) + 1 /\ Len(started) \in Nat
      BY <1>1, <2>1, HeadStarts, LenProperties DEF PoolInv, pooled!TypeOK
    <3>2. QED  BY <1>1, <2>1, <3>1 DEF LoopsFollow
  <2>2. ASSUME NEW p \in Threads, thread[p] = "busy"
        PROVE  runs[p] \in Workers /\ worker[runs[p]] \notin {"none", "starting"}
    <3>1. /\ runs[p] \in Nat /\ runs[p] # 0 /\ runs[p] <= Len(started)
          /\ Len(started) \in Nat /\ Len(tasks) \in Nat
          /\ Len(started) + Len(tasks) = submitted /\ submitted <= InferenceWorkers
      BY <1>1, <2>2, LenProperties
         DEF PoolInv, OwnerInv, pooled!TypeOK, pooled!StartedInOrder, pooled!Holding
    <3>2. runs[p] \in Workers
      BY <3>1, WorkersAssumption DEF Workers
    <3>3. QED  BY <1>1, <3>1, <3>2 DEF LoopsFollow, OwnerInv
  <2>3. ASSUME control # "ready", NEW w \in Workers, worker[w] \notin {"starting", "left"}
        PROVE  \E p \in Threads : /\ thread[p] = "busy" /\ runs[p] = w
                                  /\ \A q \in Threads : runs[q] = w => q = p
    <3>1. w \in 1 .. Len(started) /\ w # 0 /\ w \notin finished
      BY <1>1, <2>3, WorkersAssumption, LenProperties
         DEF LoopsFollow, Workers, PoolInv, pooled!TypeOK
    <3>2. PICK p \in Threads : runs[p] = w
      BY <1>1, <3>1 DEF PoolInv, pooled!Holding
    <3>3. thread[p] = "busy" /\ \A q \in Threads : runs[q] = w => q = p
      BY <1>1, <3>1, <3>2 DEF PoolInv, pooled!Holding
    <3>4. QED  BY <3>2, <3>3
  <2>4. QED  BY <2>1, <2>2, <2>3 DEF LoopsAreTasks
<1>2. QED  BY <1>1, PoolAlways, OwnerAlways, QuietAlways, PTL

-----------------------------------------------------------------------------
(* What the joins of stop() wait for.  running_ is down and frames_.close() *)
(* has returned by then, so no worker sleeps in pop_latest.                 *)

JoinsReady ==
    control \in {"joiningCapture", "joiningPool", "closingSource", "stopped"}
        => running = "down" /\ closing = "returned"

DownWhileClosing == control = "closing" => running = "down"

\* A step of a processing loop leaves start(), stop() and close() alone.
LEMMA LoopKeepsControl ==
    ASSUME NEW w \in Workers, Work(w)
    PROVE  UNCHANGED <<running, control, starts, closing>>
<1>1. UNCHANGED <<running, control, starts>>
  BY DEF Work, Enter, RunLoop, LoopTest, GetFrame, AwaitFrame, QueueEnded, SkipFrame, CallThrows,
         Infer, ShowPicture, ShowBoxes, Stamp, Suppress, PublishAlert, FrameDone,
         WorkKeeps, controlVars
<1>2. UNCHANGED closing
  BY DEF Work, Enter, RunLoop, LoopTest, GetFrame, AwaitFrame, QueueEnded, SkipFrame, CallThrows,
         Infer, ShowPicture, ShowBoxes, Stamp, Suppress, PublishAlert, FrameDone,
         queueVars, frames!PopLatest, frames!Take, frames!PopWaits, frames!PopNullopt
<1>3. QED  BY <1>1, <1>2

\* What neither the owner nor a processing loop does.
Aside == \/ Capture \/ PoolMoves \/ Tick \/ SetClock
         \/ (\E w \in Workers : SpuriousWake(w)) \/ UNCHANGED vars

\* It leaves them and the loops alone too.
LEMMA AsideKeepsControl ==
    ASSUME Aside
    PROVE  UNCHANGED <<running, control, starts, worker, closing>>
<1>1. UNCHANGED <<running, control, starts, worker>>
  BY ElsewhereKeeps, PoolMovesKeep
     DEF Aside, Elsewhere, Capture, Open, CaptureTest, ReadFrame, ReadNothing, PushFrame,
         CaptureKeeps, Tick, SetClock, SpuriousWake, controlVars, workVars, vars
<1>2. UNCHANGED closing
  BY ElsewhereKeeps
     DEF Aside, Elsewhere, Capture, Open, CaptureTest, ReadFrame, ReadNothing, PushFrame,
         Tick, SetClock, SpuriousWake, vars, queueVars, frames!SpuriousWake, frames!Push,
         frames!PushDropOldest, frames!PushBlocking, frames!PushWaits,
         frames!PushRefused, frames!Accept
<1>3. QED  BY <1>1, <1>2

\* Every step keeps the order of the exchange, close() and the joins.
LEMMA ReadyStep ==
    JoinsReady /\ DownWhileClosing /\ [Next]_vars => (JoinsReady /\ DownWhileClosing)'
<1> SUFFICES ASSUME JoinsReady, DownWhileClosing, [Next]_vars
             PROVE  (JoinsReady /\ DownWhileClosing)'
  OBVIOUS
<1> USE DEF JoinsReady, DownWhileClosing
<1>1. CASE Start \/ StartReturns \/ StopFlag
  BY <1>1 DEF Start, StartReturns, StopFlag, queueVars
<1>2. CASE StopGoesOn
  BY <1>2 DEF StopGoesOn, StopCloses, StopJoinsCapture, StopShutsPool, StopClosesSource,
              queueVars
<1>3. CASE Aside
  BY <1>3, AsideKeepsControl
<1>4. ASSUME NEW w \in Workers, Work(w)
      PROVE  (JoinsReady /\ DownWhileClosing)'
  BY <1>4, LoopKeepsControl
<1>5. QED  BY <1>1, <1>2, <1>3, <1>4, NextCases DEF Elsewhere, Aside

\* No join of stop() waits for a thread that is blocked on frames_.
JoinsMeetAwakeThreads ==
    control \in {"joiningCapture", "joiningPool", "closingSource", "stopped"}
        => running = "down" /\ notEmpty = {} /\ notFull = {}

(* When stop() joins, at the first time or after restarts, running_ is down *)
(* and nobody is blocked on frames_ or can get blocked: a join of stop()    *)
(* waits only for a call of the source or of the engine to end, and in the  *)
(* pool for a thread that missed its wake-up (OneThreadMissed).             *)
THEOREM JoinsNotBlocked == Spec => []JoinsMeetAwakeThreads
<1>1. Init => JoinsReady /\ DownWhileClosing
  BY DEF Init, JoinsReady, DownWhileClosing
<1>2. Spec => []queue!NobodyLeftBlocked
  <2>1. Spec => frames!Spec
    BY PipelineUsesQueue DEF UsesQueue
  <2>2. queue!Spec => []queue!NobodyLeftBlocked
    BY QueueParameters, queue!CloseWakesEveryone
  <2>3. QED  BY <2>1, <2>2, SameSpec
<1>3. queue!NobodyLeftBlocked /\ JoinsReady => JoinsMeetAwakeThreads
  BY DEF queue!NobodyLeftBlocked, JoinsReady, JoinsMeetAwakeThreads
<1>4. QED  BY <1>1, <1>2, <1>3, ReadyStep, PTL DEF Spec

-----------------------------------------------------------------------------
(* Types.  Those of the queue are known; the rest is inductive beside them. *)

Alerts == [forklift : Forklifts, at : Nat, frame : Nat, by : Workers]

OwnTypes ==
    /\ running \in {"up", "down"} /\ control \in ControlPlaces /\ starts \in Nat
    /\ source \in {"open", "closed"} /\ capture \in CapturePlaces
    /\ worker \in [Workers -> WorkerPlaces]
    /\ frame \in [Workers -> Nat]
    /\ hits \in [Workers -> Seq(Forklifts)]
    /\ stamp \in [Workers -> [at : Nat, wall : Int]]
    /\ DOMAIN last = Workers /\ \A w \in Workers : IsLastAlert(last[w])
    /\ shown \in [picture : Nat, boxes : Nat]
    /\ alerts \in Seq(Alerts)
    /\ now \in Nat /\ skew \in Int

\* The first of a non-empty sequence, the others, and one more.
LEMMA SeqParts ==
    ASSUME NEW S, NEW s \in Seq(S), s # <<>>
    PROVE  Head(s) \in S /\ Tail(s) \in Seq(S)
OBVIOUS

\* Appending keeps the type of a sequence.
LEMMA SeqGrows ==
    ASSUME NEW S, NEW s \in Seq(S), NEW x \in S
    PROVE  Append(s, x) \in Seq(S)
OBVIOUS

\* The last element of a sequence of frames is a frame.
LEMMA LastItem ==
    ASSUME NEW s \in Seq(Nat), s # <<>>
    PROVE  s[Len(s)] \in Nat
OBVIOUS

\* The empty last_alert_ms is a map from tracks to times.
LEMMA NoAlertsTyped == IsLastAlert(NoAlerts)
<1>1. NoAlerts \in [{} -> Int] /\ {} \in SUBSET Tracks
  BY DEF NoAlerts
<1>2. QED  BY <1>1 DEF IsLastAlert

\* last_alert_ms is such a map after an assignment to one entry.
LEMMA WithEntryTyped ==
    ASSUME NEW m, IsLastAlert(m), NEW t \in Tracks, NEW x \in Int
    PROVE  IsLastAlert(WithEntry(m, t, x))
<1>1. PICK T \in SUBSET Tracks : m \in [T -> Int]
  BY DEF IsLastAlert
<1>2. WithEntry(m, t, x) \in [T \cup {t} -> Int]
  BY <1>1 DEF WithEntry
<1>3. T \cup {t} \in SUBSET Tracks
  OBVIOUS
<1>4. QED  BY <1>2, <1>3 DEF IsLastAlert

\* The pipeline's own variables have their types at first.
LEMMA TypesInit == Init => OwnTypes
<1> SUFFICES ASSUME Init PROVE OwnTypes
  OBVIOUS
<1>1. hits \in [Workers -> Seq(Forklifts)] /\ alerts \in Seq(Alerts)
  BY DEF Init
<1>2. DOMAIN last = Workers /\ \A w \in Workers : IsLastAlert(last[w])
  BY NoAlertsTyped DEF Init
<1>3. QED
  BY <1>1, <1>2 DEF Init, OwnTypes, ControlPlaces, CapturePlaces, WorkerPlaces

\* start() and stop() keep the types.
LEMMA OwnerTypes == OwnTypes /\ (Start \/ StopFlag \/ StopGoesOn) => OwnTypes'
<1> USE DEF OwnTypes, Alerts, ControlPlaces, CapturePlaces, WorkerPlaces, workVars,
            captureVars, clockVars
<1>1. OwnTypes /\ Start => OwnTypes'
  BY DEF Start
<1>2. OwnTypes /\ StopFlag => OwnTypes'
  BY DEF StopFlag
<1>3. OwnTypes /\ StopCloses => OwnTypes'
  BY DEF StopCloses
<1>4. OwnTypes /\ (StopJoinsCapture \/ StopShutsPool \/ StopClosesSource) => OwnTypes'
  BY DEF StopJoinsCapture, StopShutsPool, StopClosesSource, CloseSource
<1>5. QED  BY <1>1, <1>2, <1>3, <1>4 DEF StopGoesOn

\* The pool, the capture loop and the clock keep the types.
LEMMA OtherTypes ==
    OwnTypes /\ (Elsewhere \/ Capture \/ Tick \/ SetClock) => OwnTypes'
<1> USE DEF OwnTypes, Alerts, CapturePlaces, workVars, captureVars, controlVars, clockVars
<1>1. OwnTypes /\ Capture => OwnTypes'
  BY DEF Capture, CaptureKeeps, Open, OpenSource, CloseSource, CaptureTest, ReadFrame,
         ReadNothing, PushFrame
<1>2. OwnTypes /\ Tick => OwnTypes'
  BY DEF Tick
<1>3. OwnTypes /\ SetClock => OwnTypes'
  BY ClockAssumption DEF SetClock
<1>4. OwnTypes /\ Elsewhere => OwnTypes'
  <2>1. Elsewhere /\ OwnTypes => control' \in ControlPlaces
    BY PoolMovesKeep DEF Elsewhere, StartReturns, ControlPlaces
  <2>2. QED  BY <2>1, ElsewhereKeeps
<1>5. QED  BY <1>1, <1>2, <1>3, <1>4

\* Every step of a processing loop keeps the types.
LEMMA LoopTypes ==
    ASSUME OwnTypes, items \in Seq(Nat), NEW w \in Workers, Work(w)
    PROVE  OwnTypes'
<1> USE DEF WorkKeeps, controlVars, captureVars, clockVars
<1>0. worker' \in [Workers -> WorkerPlaces]
  BY DEF OwnTypes, WorkerPlaces, Work, Goes, Enter, RunLoop, LoopTest, GetFrame, AwaitFrame,
         QueueEnded, SkipFrame, CallThrows, Infer, ShowPicture, ShowBoxes, Stamp,
         Suppress, PublishAlert, FrameDone, workVars
<1>1. CASE Enter(w)
  <2>1. DOMAIN last' = Workers /\ \A v \in Workers : IsLastAlert(last'[v])
    BY <1>1, NoAlertsTyped DEF Enter, RunLoop, OwnTypes
  <2>2. QED  BY <1>0, <1>1, <2>1 DEF Enter, RunLoop, OwnTypes
<1>2. CASE GetFrame(w)
  <2>1. items[Len(items)] \in Nat
    BY <1>2, LastItem DEF GetFrame, frames!PopLatest
  <2>2. frame' \in [Workers -> Nat]
    BY <1>2, <2>1 DEF GetFrame, OwnTypes
  <2>3. QED  BY <1>0, <1>2, <2>2 DEF GetFrame, OwnTypes
<1>3. CASE LoopTest(w) \/ AwaitFrame(w) \/ QueueEnded(w)
  BY <1>0, <1>3 DEF LoopTest, AwaitFrame, QueueEnded, OwnTypes, workVars
<1>4. CASE SkipFrame(w) \/ CallThrows(w) \/ FrameDone(w)
  <2>1. /\ frame' = [frame EXCEPT ![w] = 0]
        /\ hits' = hits \/ hits' = [hits EXCEPT ![w] = <<>>]
        /\ UNCHANGED <<stamp, last, shown, alerts, controlVars, captureVars, clockVars>>
    BY <1>4 DEF SkipFrame, CallThrows, FrameDone
  <2>2. frame' \in [Workers -> Nat] /\ hits' \in [Workers -> Seq(Forklifts)]
    <3>1. <<>> \in Seq(Forklifts)
      OBVIOUS
    <3>2. QED  BY <2>1, <3>1 DEF OwnTypes
  <2>3. QED  BY <1>0, <2>1, <2>2 DEF OwnTypes
<1>5. CASE Infer(w)
  BY <1>0, <1>5, SceneAssumption DEF Infer, OwnTypes
<1>6. CASE ShowPicture(w) \/ ShowBoxes(w)
  BY <1>0, <1>6 DEF ShowPicture, ShowBoxes, OwnTypes
<1>7. CASE Stamp(w)
  BY <1>0, <1>7 DEF Stamp, OwnTypes
<1>8. CASE Suppress(w)
  <2>1. hits' \in [Workers -> Seq(Forklifts)]
    BY <1>8, SeqParts DEF Suppress, OwnTypes
  <2>2. QED  BY <1>0, <1>8, <2>1 DEF Suppress, OwnTypes
<1>9. CASE PublishAlert(w)
  <2>1. hits[w] \in Seq(Forklifts) /\ hits[w] # <<>>
    BY <1>9 DEF PublishAlert, OwnTypes
  <2>2. Head(hits[w]) \in Forklifts /\ Tail(hits[w]) \in Seq(Forklifts)
    BY <2>1, SeqParts
  <2>3. hits' \in [Workers -> Seq(Forklifts)]
    BY <1>9, <2>2 DEF PublishAlert, OwnTypes
  <2>4. TrackId[Head(hits[w])] \in Tracks
    BY <2>2 DEF Tracks
  <2>5. stamp[w].wall \in Int /\ stamp[w].at \in Nat /\ frame[w] \in Nat
    BY DEF OwnTypes
  <2>6. IsLastAlert(WithEntry(last[w], TrackId[Head(hits[w])], stamp[w].wall))
    BY <2>4, <2>5, WithEntryTyped DEF OwnTypes
  <2>7. DOMAIN last' = Workers /\ \A v \in Workers : IsLastAlert(last'[v])
    BY <1>9, <2>6 DEF PublishAlert, OwnTypes
  <2>8. alerts' \in Seq(Alerts)
    <3>1. [forklift |-> Head(hits[w]), at |-> stamp[w].at,
           frame |-> frame[w], by |-> w] \in Alerts
      BY <2>2, <2>5 DEF Alerts
    <3>2. QED  BY <1>9, <3>1, SeqGrows DEF PublishAlert, OwnTypes
  <2>9. QED  BY <1>0, <1>9, <2>3, <2>7, <2>8 DEF PublishAlert, OwnTypes
<1>10. QED
  BY <1>1, <1>2, <1>3, <1>4, <1>5, <1>6, <1>7, <1>8, <1>9 DEF Work

\* Every step of the pipeline keeps the types.
LEMMA TypesStep == OwnTypes /\ frames!TypeOK /\ [Next]_vars => OwnTypes'
<1> SUFFICES ASSUME OwnTypes, frames!TypeOK, [Next]_vars
             PROVE  OwnTypes'
  OBVIOUS
<1>1. items \in Seq(Nat)
  BY DEF frames!TypeOK
<1>2. CASE UNCHANGED vars
  BY <1>2 DEF vars, controlVars, captureVars, workVars, clockVars, OwnTypes, Alerts
<1>3. ASSUME NEW w \in Workers, SpuriousWake(w)
      PROVE  OwnTypes'
  BY <1>3 DEF SpuriousWake, controlVars, captureVars, workVars, clockVars, OwnTypes, Alerts
<1>4. QED
  BY <1>1, <1>2, <1>3, OwnerTypes, OtherTypes, LoopTypes, NextCases

(* Every variable of the pipeline keeps its type.                           *)
THEOREM PipelineTypeCorrect == Spec => []TypeOK
<1>1. PoolInv => pool!TypeOK
  BY DEF PoolInv, pooled!TypeOK, pool!TypeOK, pooled!WorkerPlaces, pool!WorkerPlaces,
         pooled!ClientPlaces, pool!ClientPlaces
<1>2. frames!TypeOK /\ pool!TypeOK /\ OwnTypes => TypeOK
  BY DEF OwnTypes, TypeOK, Alerts
<1>3. QED  BY <1>1, <1>2, QueueTyped, PoolAlways, TypesInit, TypesStep, PTL DEF Spec

-----------------------------------------------------------------------------
(* The pipeline is a camera service.  start() maps to Begin, the exchange   *)
(* in stop() to Cease, its last step to Rest; calls of the sinks happen     *)
(* while a worker is in its loop, so after start() and before the join.     *)

\* One more alert is counted.
LEMMA OneMoreAlert ==
    ASSUME NEW s \in Seq(Alerts), NEW x \in Alerts
    PROVE  Len(Append(s, x)) = Len(s) + 1
OBVIOUS

\* The owner's steps are those of the service.
LEMMA OwnerServes ==
    ASSUME Start \/ StopFlag \/ StopGoesOn, control \in ControlPlaces
    PROVE  [service!Next]_(service!vars)
<1>1. UNCHANGED <<shown, Len(alerts)>>
  BY DEF Start, StopFlag, StopGoesOn, StopCloses, StopJoinsCapture, StopShutsPool,
         StopClosesSource, workVars
<1>2. CASE Start
  <2>1. Life \in {"idle", "stopped"} /\ Life' = "running"
    BY <1>2 DEF Start, Life
  <2>2. QED  BY <1>1, <2>1 DEF service!Next, service!Begin
<1>3. CASE StopFlag
  <2>1. Life = "running" /\ Life' = "stopping"
    BY <1>3 DEF StopFlag, Life
  <2>2. QED  BY <1>1, <2>1 DEF service!Next, service!Cease
<1>4. CASE StopCloses \/ StopJoinsCapture \/ StopShutsPool
  <2>1. Life = "stopping" /\ Life' = "stopping"
    BY <1>4 DEF StopCloses, StopJoinsCapture, StopShutsPool, Life
  <2>2. QED  BY <1>1, <2>1 DEF service!vars
<1>5. CASE StopClosesSource
  <2>1. Life = "stopping" /\ Life' = "stopped"
    BY <1>5 DEF StopClosesSource, Life
  <2>2. QED  BY <1>1, <2>1 DEF service!Next, service!Rest
<1>6. QED  BY <1>2, <1>3, <1>4, <1>5 DEF StopGoesOn

\* A worker calls its sinks while the service is alive.
LEMMA WorkerServes ==
    ASSUME QuietInv, Ended, OwnTypes, NEW w \in Workers, Work(w)
    PROVE  [service!Next]_(service!vars)
<1>1. Life \in {"running", "stopping"} /\ Life' = Life
  <2>1. control' = control /\ worker[w] \notin {"none", "left"}
    BY LoopStep DEF QuietInv
  <2>2. control \in ControlPlaces \ {"ready", "stopped"}
    BY <2>1 DEF QuietInv, JoinsInOrder, Ended, OwnTypes
  <2>3. QED  BY <2>1, <2>2 DEF Life, ControlPlaces
<1>2. CASE ShowPicture(w) \/ ShowBoxes(w)
  <2>1. Len(alerts)' = Len(alerts)
    BY <1>2 DEF ShowPicture, ShowBoxes
  <2>2. QED  BY <1>1, <2>1 DEF service!Next, service!Show, service!Alive, service!vars
<1>3. CASE PublishAlert(w)
  <2>1. shown' = shown
    BY <1>3 DEF PublishAlert
  <2>2. Len(alerts)' = Len(alerts) + 1
    <3> DEFINE a == [forklift |-> Head(hits[w]), at |-> stamp[w].at,
                     frame |-> frame[w], by |-> w]
    <3>1. a \in Alerts
      BY <1>3, SeqParts DEF PublishAlert, OwnTypes, Alerts
    <3>2. alerts' = Append(alerts, a)
      BY <1>3 DEF PublishAlert
    <3>3. QED  BY <3>1, <3>2, OneMoreAlert DEF OwnTypes
  <2>3. QED  BY <1>1, <2>1, <2>2 DEF service!Next, service!Raise, service!Alive
<1>4. CASE \/ Enter(w) \/ LoopTest(w) \/ GetFrame(w) \/ AwaitFrame(w) \/ QueueEnded(w)
           \/ SkipFrame(w) \/ CallThrows(w) \/ Infer(w) \/ Stamp(w) \/ Suppress(w)
           \/ FrameDone(w)
  <2>1. UNCHANGED <<shown, Len(alerts)>>
    BY <1>4 DEF Enter, RunLoop, LoopTest, GetFrame, AwaitFrame, QueueEnded, SkipFrame, CallThrows,
                Infer, Stamp, Suppress, FrameDone, workVars
  <2>2. QED  BY <1>1, <2>1 DEF service!vars
<1>5. QED  BY <1>2, <1>3, <1>4 DEF Work

(* FrameProcessingPipeline implements CameraService, on which the model of  *)
(* main() rests: nothing reaches the viewer or the publisher before start() *)
(* or after stop() has returned.                                            *)
THEOREM ServiceImplemented == Spec => ImplementsService
<1>1. Init => service!Init
  BY EmptySeq DEF Init, service!Init, Life
<1>2. QuietInv /\ Ended /\ OwnTypes /\ [Next]_vars => [service!Next]_(service!vars)
  <2> SUFFICES ASSUME QuietInv, Ended, OwnTypes, [Next]_vars
               PROVE  [service!Next]_(service!vars)
    OBVIOUS
  <2>1. CASE Start \/ StopFlag \/ StopGoesOn
    BY <2>1, OwnerServes DEF OwnTypes
  <2>2. ASSUME NEW w \in Workers, Work(w)
        PROVE  [service!Next]_(service!vars)
    BY <2>2, WorkerServes
  <2>3. ASSUME UNCHANGED <<control, shown, alerts>>
        PROVE  [service!Next]_(service!vars)
    BY <2>3 DEF service!vars, Life
  <2>4. CASE Capture
    BY <2>3, <2>4 DEF Capture, Open, CaptureTest, ReadFrame, ReadNothing, PushFrame,
                      CaptureKeeps, controlVars, workVars
  <2>5. CASE \/ \E w \in Workers : SpuriousWake(w)
             \/ Tick \/ SetClock \/ UNCHANGED vars
    BY <2>3, <2>5 DEF SpuriousWake, Tick, SetClock, vars, controlVars, workVars
  <2>6. CASE Elsewhere
    <3>1. UNCHANGED <<shown, alerts>>
      BY <2>6, ElsewhereKeeps DEF workVars
    <3>2. \/ control' = control
          \/ control = "submitting" /\ control' = "started"
      BY <2>6, PoolMovesKeep DEF Elsewhere, StartReturns
    <3>3. UNCHANGED <<shown, Len(alerts), Life>>
      BY <3>1, <3>2 DEF Life
    <3>4. QED  BY <3>3 DEF service!vars
  <2>7. QED  BY <2>1, <2>2, <2>4, <2>5, <2>6, NextCases
<1>3. Spec => []OwnTypes
  BY QueueTyped, TypesInit, TypesStep, PTL DEF Spec
<1>4. QED  BY <1>1, <1>2, <1>3, QuietAlways, PTL DEF Spec, ImplementsService, service!Spec

-----------------------------------------------------------------------------
(* Alert spacing, for any number of workers and a wall clock that is set.   *)
(* Each worker keeps its own last_alert, so the alerts that one worker      *)
(* raises for a track are spaced, and those of different workers are not    *)
(* (the run two_workers).  An entry of the map is a wall time, so a clock   *)
(* that is set forward by F takes F off the cooldown.  A loop that is       *)
(* started again begins with an empty map: hence the limit to one start,    *)
(* which is what main() makes.                                              *)

\* Settings of the wall clock move it forward by no more than F in all.
ForwardAtMost(F) == \A s \in Skews : s <= F /\ \A r \in Skews : s - r <= F

\* The wall clock is not, and will not be, more than F beyond the skew o.
Reaches(o, F) == skew <= o + F /\ \A s \in Skews : s <= o + F

\* The wall clock minus the true time when worker w stamped its frame.
Offset(w) == stamp[w].wall - stamp[w].at

ClockBounded(F) ==
    /\ \A s \in Skews : s <= skew + F
    /\ \A w \in Workers : Reaches(Offset(w), F) /\ stamp[w].at <= now

\* Worker w has raised an alert of track t about a frame stamped at a.
Raised(w, t, a) ==
    \E i \in 1 .. Len(alerts) :
        alerts[i].by = w /\ TrackId[alerts[i].forklift] = t /\ alerts[i].at = a

\* For such an alert w has an entry.  Neither the clock it has stamped its
\* frame with nor the present one is more than F ahead of the clock at that
\* entry.
Covers(w, t, a, F) ==
    /\ t \in DOMAIN last[w]
    /\ a <= stamp[w].at
    /\ Reaches(last[w][t] - a, F)
    /\ Offset(w) <= last[w][t] - a + F

Remembered(F) ==
    \A w \in Workers, t \in Tracks, a \in Nat : Raised(w, t, a) => Covers(w, t, a, F)

\* A worker that has not begun its loop has raised no alert.
NoneYet ==
    /\ starts = 0 => alerts = <<>> /\ \A w \in Workers : worker[w] = "none"
    /\ \A i \in 1 .. Len(alerts) : worker[alerts[i].by] \notin {"none", "starting"}

\* Alerts i and j are of one track and raised by one worker.
SameLoop(i, j) == /\ alerts[i].by = alerts[j].by
                  /\ TrackId[alerts[i].forklift] = TrackId[alerts[j].forklift]

\* Each worker keeps its alerts of a track a cooldown apart, less F.
SpacedByWorker(F) ==
    \A i, j \in 1 .. Len(alerts) :
        i < j /\ SameLoop(i, j) => alerts[j].at - alerts[i].at >= Cooldown - F

SpacingInv(F) == ClockBounded(F) /\ Remembered(F) /\ NoneYet /\ SpacedByWorker(F)

\* At first there is no alert, so nothing to remember.
LEMMA SpacingInit ==
    ASSUME NEW F \in Nat, ForwardAtMost(F), Init
    PROVE  SpacingInv(F)
<1>1. ClockBounded(F)
  BY ClockAssumption DEF Init, ClockBounded, Reaches, Offset, ForwardAtMost
<1>2. Remembered(F) /\ NoneYet /\ SpacedByWorker(F)
  BY DEF Init, Remembered, Raised, NoneYet, SpacedByWorker
<1>3. QED  BY <1>1, <1>2 DEF SpacingInv

\* An alert of the history.
LEMMA AlertTyped ==
    ASSUME OwnTypes, NEW i \in 1 .. Len(alerts)
    PROVE  /\ alerts[i] \in Alerts /\ alerts[i].at \in Nat /\ alerts[i].by \in Workers
           /\ TrackId[alerts[i].forklift] \in Tracks
           /\ Raised(alerts[i].by, TrackId[alerts[i].forklift], alerts[i].at)
<1>1. alerts \in Seq(Alerts)
  BY DEF OwnTypes
<1>2. alerts[i] \in Alerts
  BY <1>1
<1>3. QED  BY <1>2 DEF Alerts, Tracks, Raised

\* No alert is published, no map or stamp changes, no worker begins; the
\* clock may be set.
LEMMA SpacingIdle ==
    ASSUME NEW F \in Nat, ForwardAtMost(F), SpacingInv(F), OwnTypes, OwnTypes',
           UNCHANGED <<alerts, last, stamp, starts>>, now' >= now,
           skew' = skew \/ skew' \in Skews,
           \A w \in Workers : worker'[w] = worker[w] \/ worker[w] \notin {"none", "starting"},
           \A w \in Workers : worker'[w] \in {"none", "starting"} => worker'[w] = worker[w]
    PROVE  SpacingInv(F)'
<1>1. \A o : Reaches(o, F) => Reaches(o, F)'
  BY DEF Reaches
<1>2. ClockBounded(F)'
  <2>1. \A s \in Skews : s <= skew' + F
    <3>1. CASE skew' = skew
      BY <3>1 DEF SpacingInv, ClockBounded
    <3>2. CASE skew' \in Skews
      <4>1. \A s \in Skews : s \in Int /\ s - skew' <= F
        BY <3>2, ClockAssumption DEF ForwardAtMost
      <4>2. skew' \in Int
        BY DEF OwnTypes
      <4>3. QED  BY <4>1, <4>2
    <3>3. QED  BY <3>1, <3>2
  <2>2. \A w \in Workers : Reaches(Offset(w), F)'
    <3>1. \A w \in Workers : Offset(w)' = Offset(w) /\ Reaches(Offset(w), F)
      BY DEF SpacingInv, ClockBounded, Offset
    <3>2. QED  BY <1>1, <3>1 DEF Reaches
  <2>3. \A w \in Workers : stamp'[w].at <= now'
    BY DEF SpacingInv, ClockBounded, OwnTypes
  <2>4. QED  BY <2>1, <2>2, <2>3 DEF ClockBounded
<1>3. Remembered(F)'
  <2>1. ASSUME NEW w \in Workers, NEW t, NEW a, Covers(w, t, a, F)
        PROVE  Covers(w, t, a, F)'
    BY <1>1, <2>1 DEF Covers, Reaches, Offset
  <2>2. QED  BY <2>1 DEF SpacingInv, Remembered, Raised
<1>4. NoneYet'
  <2>1. \A i \in 1 .. Len(alerts) : alerts[i].by \in Workers
    BY AlertTyped
  <2>2. QED  BY <2>1 DEF SpacingInv, NoneYet
<1>5. SpacedByWorker(F)'
  BY DEF SpacingInv, SpacedByWorker, SameLoop
<1>6. QED  BY <1>2, <1>3, <1>4, <1>5 DEF SpacingInv

\* The first start() finds no alert published.
LEMMA SpacingStart ==
    ASSUME NEW F \in Nat, SpacingInv(F), OwnTypes, starts' <= 1, Start
    PROVE  SpacingInv(F)'
<1>1. starts' = starts + 1 /\ starts \in Nat
  BY DEF Start, OwnTypes
<1>2. starts = 0
  BY <1>1
<1>3. alerts = <<>> /\ starts' # 0 /\ UNCHANGED <<alerts, last, stamp, now, skew>>
  BY <1>2 DEF Start, SpacingInv, NoneYet, clockVars
<1>4. ClockBounded(F)'
  BY <1>3 DEF SpacingInv, ClockBounded, Reaches, Offset
<1>5. Remembered(F)' /\ SpacedByWorker(F)' /\ NoneYet'
  BY <1>3 DEF Remembered, Raised, SpacedByWorker, NoneYet
<1>6. QED  BY <1>4, <1>5 DEF SpacingInv

\* A worker that begins its loop forgets nothing.
LEMMA SpacingEnter ==
    ASSUME NEW F \in Nat, SpacingInv(F), OwnTypes, NEW w \in Workers, Enter(w)
    PROVE  SpacingInv(F)'
<1>1. /\ UNCHANGED <<alerts, stamp, skew, now, starts>> /\ worker[w] = "starting"
      /\ worker' = [worker EXCEPT ![w] = "looping"]
      /\ last' = [last EXCEPT ![w] = NoAlerts]
  BY DEF Enter, RunLoop, Goes, WorkKeeps, controlVars, clockVars
<1>2. \A i \in 1 .. Len(alerts) : alerts[i].by \in Workers /\ alerts[i].by # w
  BY <1>1, AlertTyped DEF SpacingInv, NoneYet
<1>3. \A v \in Workers \ {w} : last'[v] = last[v] /\ worker'[v] = worker[v]
  BY <1>1 DEF OwnTypes
<1>4. ClockBounded(F)'
  BY <1>1 DEF SpacingInv, ClockBounded, Reaches, Offset
<1>5. Remembered(F)'
  <2>1. ASSUME NEW v \in Workers, NEW t \in Tracks, NEW a \in Nat, Raised(v, t, a)'
        PROVE  Covers(v, t, a, F)'
    <3>1. v # w /\ Raised(v, t, a)
      BY <1>1, <1>2, <2>1 DEF Raised
    <3>2. Covers(v, t, a, F)
      BY <3>1 DEF SpacingInv, Remembered
    <3>3. QED  BY <1>1, <1>3, <3>1, <3>2 DEF Covers, Reaches, Offset
  <2>2. QED  BY <2>1 DEF Remembered
<1>6. NoneYet'
  BY <1>1, <1>2, <1>3 DEF SpacingInv, NoneYet
<1>7. SpacedByWorker(F)'
  BY <1>1 DEF SpacingInv, SpacedByWorker, SameLoop
<1>8. QED  BY <1>4, <1>5, <1>6, <1>7 DEF SpacingInv

\* Taking now_ms for a frame moves a worker's stamp forward only.
LEMMA SpacingStamp ==
    ASSUME NEW F \in Nat, SpacingInv(F), OwnTypes, NEW w \in Workers, Stamp(w)
    PROVE  SpacingInv(F)'
<1>1. /\ UNCHANGED <<alerts, last, skew, now, starts>>
      /\ stamp' = [stamp EXCEPT ![w] = [at |-> now, wall |-> now + skew]]
      /\ worker[w] = "stamping" /\ worker' = [worker EXCEPT ![w] = "alerting"]
  BY DEF Stamp, Goes, WorkKeeps, controlVars, clockVars
<1>2. now \in Nat /\ skew \in Int /\ \A v \in Workers : stamp[v].at \in Nat
  BY DEF OwnTypes
<1>3. /\ stamp'[w].at = now /\ stamp'[w].wall = now + skew
      /\ \A v \in Workers \ {w} : stamp'[v] = stamp[v]
  BY <1>1 DEF OwnTypes
<1>4. Offset(w)' = skew /\ \A v \in Workers \ {w} : Offset(v)' = Offset(v)
  BY <1>2, <1>3 DEF Offset
<1>5. \A o : Reaches(o, F) => Reaches(o, F)'
  BY <1>1 DEF Reaches
<1>6. ClockBounded(F)'
  <2>1. Reaches(skew, F)
    BY <1>2 DEF Reaches, SpacingInv, ClockBounded
  <2>2. \A v \in Workers : Reaches(Offset(v), F)'
    BY <1>1, <1>4, <2>1 DEF SpacingInv, ClockBounded, Reaches
  <2>3. \A v \in Workers : stamp'[v].at <= now'
    BY <1>1, <1>2, <1>3 DEF SpacingInv, ClockBounded
  <2>4. QED  BY <1>1, <2>2, <2>3 DEF ClockBounded, SpacingInv
<1>7. ASSUME NEW v \in Workers, NEW t \in Tracks, NEW a \in Nat, Raised(v, t, a)
      PROVE  Covers(v, t, a, F)'
  <2>1. Covers(v, t, a, F)
    BY <1>7 DEF SpacingInv, Remembered
  <2>2. a <= stamp'[v].at
    BY <1>2, <1>3, <2>1 DEF Covers, SpacingInv, ClockBounded
  <2>3. Offset(v)' <= last[v][t] - a + F
    BY <1>4, <2>1 DEF Covers, Reaches
  <2>4. QED  BY <1>1, <2>1, <2>2, <2>3 DEF Covers, Reaches
<1>8. Remembered(F)'
  BY <1>1, <1>7 DEF Remembered, Raised
<1>9. NoneYet'
  BY <1>1 DEF SpacingInv, NoneYet, OwnTypes
<1>10. SpacedByWorker(F)'
  BY <1>1 DEF SpacingInv, SpacedByWorker, SameLoop
<1>11. QED  BY <1>6, <1>8, <1>9, <1>10 DEF SpacingInv

\* An alert that passed the cooldown test comes a cooldown less F after every
\* earlier one of its track that its worker raised.
LEMMA SpacingPublish ==
    ASSUME NEW F \in Nat, SpacingInv(F), OwnTypes, NEW w \in Workers, PublishAlert(w)
    PROVE  SpacingInv(F)'
<1> DEFINE f == Head(hits[w])
           t == TrackId[f]
           entry == [forklift |-> f, at |-> stamp[w].at, frame |-> frame[w], by |-> w]
<1>1. /\ UNCHANGED <<stamp, skew, now, starts, worker>> /\ worker[w] = "alerting"
      /\ last' = [last EXCEPT ![w] = WithEntry(last[w], t, stamp[w].wall)]
      /\ alerts' = Append(alerts, entry)
  BY DEF PublishAlert, WorkKeeps, controlVars, clockVars
<1>2. /\ stamp[w].at \in Nat /\ stamp[w].wall \in Int /\ skew \in Int
      /\ Offset(w) = stamp[w].wall - stamp[w].at /\ Offset(w) \in Int
  BY DEF OwnTypes, Offset
<1>3. ClockBounded(F)'
  BY <1>1 DEF SpacingInv, ClockBounded, Reaches, Offset
<1>4. /\ DOMAIN last'[w] = DOMAIN last[w] \cup {t}
      /\ last'[w][t] = stamp[w].wall
      /\ \A u \in DOMAIN last[w] \ {t} : last'[w][u] = last[w][u]
      /\ \A v \in Workers \ {w} : last'[v] = last[v]
  BY <1>1, <1>2 DEF WithEntry, OwnTypes
<1>5. /\ Len(alerts) \in Nat /\ Len(alerts') = Len(alerts) + 1
      /\ \A i \in 1 .. Len(alerts) : alerts'[i] = alerts[i]
      /\ alerts'[Len(alerts) + 1] = entry
  BY <1>1 DEF OwnTypes
<1>6. NoneYet'
  <2>1. starts # 0
    BY <1>1 DEF SpacingInv, NoneYet
  <2>2. QED  BY <1>1, <1>5, <2>1 DEF SpacingInv, NoneYet
<1>7. ASSUME NEW v \in Workers, NEW u \in Tracks, NEW a \in Nat, Raised(v, u, a)
      PROVE  Covers(v, u, a, F) /\ last[v][u] \in Int
  <2>1. Covers(v, u, a, F)
    BY <1>7 DEF SpacingInv, Remembered
  <2>2. QED  BY <2>1 DEF Covers, OwnTypes, IsLastAlert
<1>8. \A o \in Int : o >= Offset(w) => Reaches(o, F) /\ Offset(w) <= o + F
  <2>1. Reaches(Offset(w), F)
    BY DEF SpacingInv, ClockBounded
  <2> HIDE DEF f, t, entry
  <2>2. ASSUME NEW o \in Int, o >= Offset(w)
        PROVE  Reaches(o, F) /\ Offset(w) <= o + F
    <3>1. skew <= o + F /\ Offset(w) <= o + F
      BY <1>2, <2>1, <2>2 DEF Reaches
    <3>2. ASSUME NEW s \in Skews
          PROVE  s <= o + F
      <4>1. s \in Int /\ s <= Offset(w) + F
        BY <2>1, ClockAssumption DEF Reaches
      <4>2. QED  BY <1>2, <2>2, <4>1
    <3>3. QED  BY <3>1, <3>2 DEF Reaches
  <2>3. QED  BY <2>2
<1>9. ASSUME NEW v \in Workers, NEW u \in Tracks, NEW a \in Nat, Raised(v, u, a)'
      PROVE  Covers(v, u, a, F)'
  <2>1. \A x \in Workers : Offset(x)' = Offset(x)
    BY <1>1 DEF Offset
  <2>2. Raised(v, u, a) \/ (v = w /\ u = t /\ a = stamp[w].at)
    BY <1>5, <1>9 DEF Raised
  <2>3. CASE v = w /\ u = t
    <3>1. a <= stamp[w].at
      BY <1>2, <1>7, <2>2, <2>3 DEF Covers
    <3>2. /\ stamp[w].wall - a \in Int
          /\ stamp[w].wall - a >= Offset(w)
      BY <1>2, <3>1
    <3>3. /\ Reaches(stamp[w].wall - a, F)
          /\ Offset(w) <= stamp[w].wall - a + F
      BY <1>8, <3>2
    <3>4. QED  BY <1>1, <1>4, <2>1, <2>3, <3>1, <3>3 DEF Covers, Reaches
  <2>4. CASE ~ (v = w /\ u = t)
    <3>1. Covers(v, u, a, F)
      BY <1>7, <2>2, <2>4
    <3>2. u \in DOMAIN last'[v] /\ last'[v][u] = last[v][u]
      BY <1>4, <2>4, <3>1 DEF Covers
    <3>3. QED  BY <1>1, <2>1, <3>1, <3>2 DEF Covers, Reaches
  <2>5. QED  BY <2>3, <2>4
<1>10. Remembered(F)'
  BY <1>9 DEF Remembered
<1>11. ASSUME NEW i \in 1 .. Len(alerts), alerts[i].by = w, TrackId[alerts[i].forklift] = t
       PROVE  stamp[w].at - alerts[i].at >= Cooldown - F
  <2>1. /\ t \in DOMAIN last[w] /\ last[w][t] \in Int /\ alerts[i].at \in Nat
        /\ Offset(w) <= last[w][t] - alerts[i].at + F
    BY <1>7, <1>11, AlertTyped DEF Covers
  <2>2. ~(stamp[w].wall - last[w][t] < Cooldown)
    BY <2>1 DEF PublishAlert, InCooldown
  <2> DEFINE e == last[w][t]
             a == alerts[i].at
             c == stamp[w].wall
             z == stamp[w].at
  <2>3. /\ e \in Int /\ a \in Int /\ c \in Int /\ z \in Int
        /\ c - z <= e - a + F /\ ~(c - e < Cooldown)
    BY <1>2, <2>1, <2>2
  <2> HIDE DEF e, a, c, z
  <2>4. z - a >= Cooldown - F
    BY <2>3, CooldownAssumption
  <2>5. QED  BY <2>4 DEF z, a
<1>12. SpacedByWorker(F)'
  <2> SUFFICES ASSUME NEW i \in 1 .. Len(alerts'), NEW j \in 1 .. Len(alerts'), i < j,
                      alerts'[i].by = alerts'[j].by,
                      TrackId[alerts'[i].forklift] = TrackId[alerts'[j].forklift]
               PROVE  alerts'[j].at - alerts'[i].at >= Cooldown - F
    BY DEF SpacedByWorker, SameLoop
  <2>1. i \in 1 .. Len(alerts)
    BY <1>5
  <2>2. CASE j = Len(alerts) + 1
    BY <1>5, <1>11, <2>1, <2>2
  <2>3. CASE j \in 1 .. Len(alerts)
    BY <1>5, <2>1, <2>3 DEF SpacingInv, SpacedByWorker, SameLoop
  <2>4. QED  BY <1>5, <2>2, <2>3
<1>13. QED  BY <1>3, <1>6, <1>10, <1>12 DEF SpacingInv

\* Every step of the processing loop keeps the spacing and the memory of it.
LEMMA SpacingLoop ==
    ASSUME NEW F \in Nat, ForwardAtMost(F), SpacingInv(F), OwnTypes, OwnTypes',
           NEW w \in Workers, Work(w)
    PROVE  SpacingInv(F)'
<1>1. CASE Enter(w) \/ Stamp(w) \/ PublishAlert(w)
  BY <1>1, SpacingEnter, SpacingStamp, SpacingPublish
<1>2. CASE \/ LoopTest(w) \/ GetFrame(w) \/ AwaitFrame(w) \/ QueueEnded(w)
           \/ SkipFrame(w) \/ CallThrows(w) \/ Infer(w) \/ ShowPicture(w)
           \/ ShowBoxes(w) \/ Suppress(w) \/ FrameDone(w)
  <2>1. UNCHANGED <<alerts, last, stamp, skew, starts, now>>
    BY <1>2 DEF LoopTest, GetFrame, AwaitFrame, QueueEnded, SkipFrame, CallThrows, Infer,
                ShowPicture, ShowBoxes, Suppress, FrameDone, WorkKeeps, controlVars,
                clockVars, workVars
  <2>2. worker[w] \notin {"none", "starting"} /\ worker'[w] \notin {"none", "starting"}
    BY <1>2, OutcomesAssumption DEF LoopTest, GetFrame, AwaitFrame, QueueEnded, SkipFrame, CallThrows, Infer,
                ShowPicture, ShowBoxes, Suppress, FrameDone, Goes, workVars, OwnTypes
  <2>3. \A v \in Workers \ {w} : worker'[v] = worker[v]
    BY <1>2 DEF LoopTest, GetFrame, AwaitFrame, QueueEnded, SkipFrame, CallThrows, Infer,
                ShowPicture, ShowBoxes, Suppress, FrameDone, Goes, workVars, OwnTypes
  <2>4. now' >= now
    BY <2>1 DEF OwnTypes
  <2>5. QED  BY <2>1, <2>2, <2>3, <2>4, SpacingIdle
<1>3. QED  BY <1>1, <1>2 DEF Work

\* Every step of the pipeline keeps the spacing and the memory of it.
LEMMA SpacingStep ==
    ASSUME NEW F \in Nat, ForwardAtMost(F), starts' <= 1,
           SpacingInv(F), OwnTypes, OwnTypes', [Next]_vars
    PROVE  SpacingInv(F)'
<1>1. CASE Tick \/ SetClock
  <2>1. UNCHANGED <<alerts, last, stamp, starts, worker>>
    BY <1>1 DEF Tick, SetClock, controlVars, workVars
  <2>2. now' >= now /\ (skew' = skew \/ skew' \in Skews)
    BY <1>1 DEF Tick, SetClock, OwnTypes
  <2>3. QED  BY <2>1, <2>2, SpacingIdle
<1>2. CASE StopFlag \/ StopGoesOn \/ Elsewhere \/ Capture
  <2>1. UNCHANGED <<alerts, last, stamp, skew, starts, worker, now>>
    BY <1>2, ElsewhereKeeps DEF StopFlag, StopGoesOn, StopCloses, StopJoinsCapture, StopShutsPool,
                StopClosesSource, Capture, Open, CaptureTest, ReadFrame, ReadNothing,
                PushFrame, CaptureKeeps, controlVars, workVars, clockVars
  <2>2. now' >= now
    BY <2>1 DEF OwnTypes
  <2>3. QED  BY <2>1, <2>2, SpacingIdle
<1>3. CASE (\E w \in Workers : SpuriousWake(w)) \/ UNCHANGED vars
  <2>1. UNCHANGED <<alerts, last, stamp, skew, starts, worker, now>>
    BY <1>3 DEF SpuriousWake, vars, controlVars, workVars, clockVars
  <2>2. now' >= now
    BY <2>1 DEF OwnTypes
  <2>3. QED  BY <2>1, <2>2, SpacingIdle
<1>4. QED  BY <1>1, <1>2, <1>3, SpacingStart, SpacingLoop, NextCases

\* What has been shown holds until start() is called a second time.
LEMMA StartsGrow == OwnTypes /\ [Next]_vars => starts' >= starts
<1> SUFFICES ASSUME OwnTypes, [Next]_vars
             PROVE  starts' = starts \/ starts' = starts + 1
  BY DEF OwnTypes
<1>1. CASE Start
  BY <1>1 DEF Start
<1>2. CASE \/ StopFlag \/ StopGoesOn \/ Elsewhere \/ Capture \/ Tick \/ SetClock
           \/ (\E w \in Workers : SpuriousWake(w)) \/ UNCHANGED vars
  BY <1>2, ElsewhereKeeps
          DEF StopFlag, StopGoesOn, StopCloses, StopJoinsCapture, StopShutsPool,
              StopClosesSource, Capture, Open, CaptureTest, ReadFrame, ReadNothing,
              PushFrame, CaptureKeeps, Tick, SetClock, SpuriousWake, controlVars, vars
<1>3. ASSUME NEW w \in Workers, Work(w)
      PROVE  starts' = starts
  BY <1>3 DEF Work, Enter, RunLoop, LoopTest, GetFrame, AwaitFrame, QueueEnded, SkipFrame,
              CallThrows, Infer, ShowPicture, ShowBoxes, Stamp, Suppress, PublishAlert,
              FrameDone, WorkKeeps, controlVars
<1>4. QED  BY <1>1, <1>2, <1>3, NextCases

\* Every step keeps the invariant, up to a second start().
LEMMA SpacingHeld ==
    ASSUME NEW F \in Nat, ForwardAtMost(F)
    PROVE  OwnTypes /\ OwnTypes' /\ (starts <= 1 => SpacingInv(F)) /\ [Next]_vars
              => (starts <= 1 => SpacingInv(F))'
<1> SUFFICES ASSUME OwnTypes, OwnTypes', starts <= 1 => SpacingInv(F), [Next]_vars,
                    starts' <= 1
             PROVE  SpacingInv(F)'
  OBVIOUS
<1>1. starts <= 1
  BY StartsGrow DEF OwnTypes
<1>2. QED  BY <1>1, SpacingStep

\* It always holds up to then.
LEMMA SpacingAlways ==
    ASSUME NEW F \in Nat, ForwardAtMost(F)
    PROVE  Spec => [](OwnTypes /\ (starts <= 1 => SpacingInv(F)))
<1>1. Spec => []OwnTypes
  BY QueueTyped, TypesInit, TypesStep, PTL DEF Spec
<1>2. Init => SpacingInv(F)
  BY SpacingInit
<1>3. OwnTypes /\ OwnTypes' /\ (starts <= 1 => SpacingInv(F)) /\ [Next]_vars
        => (starts <= 1 => SpacingInv(F))'
  BY SpacingHeld
<1>4. QED  BY <1>1, <1>2, <1>3, PTL DEF Spec

(* Whatever the number of workers, forklifts and tracks and whenever the    *)
(* wall clock is set, two alerts of one track that one worker raises are    *)
(* alert_cooldown apart, less what the clock was moved forward, unless the  *)
(* pipeline was started again.                                              *)
THEOREM AlertsSpacedByWorker ==
    ASSUME NEW F \in Nat, ForwardAtMost(F)
    PROVE  Spec => [](starts <= 1 => SpacedByWorker(F))
<1>1. SpacingInv(F) => SpacedByWorker(F)
  BY DEF SpacingInv
<1>2. QED  BY <1>1, SpacingAlways, PTL

(* With one worker, a clock that is never moved forward and no restart, two *)
(* alerts of one track are at least a cooldown apart, whatever the cooldown *)
(* and the number of forklifts, frames and alerts in a frame.               *)
THEOREM AlertsSpaced ==
    ASSUME \A v, w \in Workers : v = w, ForwardAtMost(0)
    PROVE  Spec => []AlertSpacing
<1>1. Spec => [](OwnTypes /\ (starts <= 1 => SpacingInv(0)))
  <2>1. Spec => []OwnTypes
    BY QueueTyped, TypesInit, TypesStep, PTL DEF Spec
  <2>2. Init => SpacingInv(0)
    BY SpacingInit
  <2>3. OwnTypes /\ OwnTypes' /\ (starts <= 1 => SpacingInv(0)) /\ [Next]_vars
          => (starts <= 1 => SpacingInv(0))'
    BY SpacingHeld
  <2>4. QED  BY <2>1, <2>2, <2>3, PTL DEF Spec
<1>2. OwnTypes /\ (starts <= 1 => SpacingInv(0)) => AlertSpacing
  <2> SUFFICES ASSUME OwnTypes, starts <= 1, SpacingInv(0),
                      NEW i \in 1 .. Len(alerts), NEW j \in 1 .. Len(alerts), i < j,
                      TrackId[alerts[i].forklift] = TrackId[alerts[j].forklift]
               PROVE  alerts[j].at - alerts[i].at >= Cooldown
    BY DEF AlertSpacing
  <2>1. alerts[i].by = alerts[j].by
    BY AlertTyped
  <2>2. alerts[j].at - alerts[i].at >= Cooldown - 0
    BY <2>1 DEF SpacingInv, SpacedByWorker, SameLoop
  <2>3. QED  BY <2>2, CooldownAssumption
<1>3. QED  BY <1>1, <1>2, PTL

\* Any alerts of one track that are closer than a cooldown less F to each
\* other are no more than there are workers.
BurstsBounded(F) ==
    \A A \in SUBSET (1 .. Len(alerts)) :
        (\A i, j \in A : /\ TrackId[alerts[i].forklift] = TrackId[alerts[j].forklift]
                         /\ alerts[j].at - alerts[i].at < Cooldown - F)
            => Cardinality(A) <= Cardinality(Workers)

(* What the cooldown comes to with several workers: in a time shorter than  *)
(* alert_cooldown, less what the clock was moved forward, there are no more *)
(* alerts of one track than inference_workers.                              *)
THEOREM AlertBurstsBounded ==
    ASSUME NEW F \in Nat, ForwardAtMost(F)
    PROVE  Spec => [](starts <= 1 => BurstsBounded(F))
<1>1. OwnTypes /\ SpacingInv(F) => BurstsBounded(F)
  <2> SUFFICES ASSUME OwnTypes, SpacingInv(F), NEW A \in SUBSET (1 .. Len(alerts)),
                      \A i, j \in A :
                          /\ TrackId[alerts[i].forklift] = TrackId[alerts[j].forklift]
                          /\ alerts[j].at - alerts[i].at < Cooldown - F
               PROVE  Cardinality(A) <= Cardinality(Workers)
    BY DEF BurstsBounded
  <2> DEFINE raiser == [i \in A |-> alerts[i].by]
  <2>1. \A i \in A : alerts[i].by \in Workers /\ alerts[i].at \in Nat /\ i \in Nat
    BY AlertTyped
  <2>2. \A i, j \in A : i < j => alerts[i].by # alerts[j].by
    <3>1. ASSUME NEW i \in A, NEW j \in A, i < j, alerts[i].by = alerts[j].by
          PROVE  FALSE
      <4>1. alerts[j].at - alerts[i].at >= Cooldown - F
        BY <3>1 DEF SpacingInv, SpacedByWorker, SameLoop
      <4>2. alerts[j].at - alerts[i].at < Cooldown - F
        OBVIOUS
      <4>3. QED  BY <2>1, <4>1, <4>2, CooldownAssumption
    <3>2. QED  BY <3>1
  <2>3. \A i, j \in A : alerts[i].by = alerts[j].by => i = j
    BY <2>1, <2>2
  <2>4. raiser \in Injection(A, Workers)
    BY <2>1, <2>3 DEF Injection, IsInjective
  <2>5. QED  BY <2>4, WorkersFinite, FS_Injection
<1>2. QED  BY <1>1, SpacingAlways, PTL

-----------------------------------------------------------------------------
(* Frames are served once: pop_latest hands out the newest frame, which is  *)
(* newer than every frame handed out before.                                *)

\* The frames that have left the queue, handed out or dropped.
Settled == pushed - Len(items)

\* The queue's own order, carried over to the pipeline.
LEMMA QueueOrdered == Spec => [](frames!Contiguous /\ frames!Conservation)
<1>1. Spec => frames!Spec
  BY PipelineUsesQueue DEF UsesQueue
<1>2. frames!Spec => [](frames!Contiguous /\ frames!Conservation)
  <2>1. queue!Ordered => frames!Contiguous /\ frames!Conservation
    BY DEF frames!Contiguous, queue!Contiguous, frames!Conservation,
           queue!Conservation, queue!Ordered
  <2>2. queue!Spec => []queue!Ordered
    BY QueueParameters, queue!OrderedInvariant
  <2>3. QED  BY <2>1, <2>2, SameSpec, PTL
<1>3. QED  BY <1>1, <1>2

\* The last element of a sequence, and nothing behind it.
LEMMA LastTaken ==
    ASSUME NEW s \in Seq(Nat), s # <<>>
    PROVE  /\ Len(s) \in Nat \ {0} /\ Len(s) \in 1 .. Len(s)
           /\ SubSeq(s, Len(s) + 1, Len(s)) = <<>>
OBVIOUS

\* What is there before and after one more frame is handed out.
LEMMA OneMore ==
    ASSUME NEW s \in Seq(Nat), NEW x
    PROVE  /\ Len(s) \in Nat /\ Len(Append(s, x)) = Len(s) + 1
           /\ Append(s, x)[Len(s) + 1] = x
           /\ \A j \in 1 .. Len(s) : Append(s, x)[j] = s[j] /\ s[j] \in Nat
OBVIOUS

\* The frame a worker gets is the newest one, and the queue is empty then.
LEMMA NewestGiven ==
    ASSUME frames!TypeOK, frames!Contiguous, frames!Conservation, NEW w \in Workers, GetFrame(w)
    PROVE  /\ frame' = [frame EXCEPT ![w] = pushed]
           /\ delivered' = Append(delivered, pushed)
           /\ pushed' = pushed /\ items' = <<>> /\ pushed # 0 /\ Settled < pushed
           /\ \A j \in 1 .. Len(delivered) : delivered[j] < pushed
<1>1. items \in Seq(Nat) /\ items # <<>> /\ pushed \in Nat /\ delivered \in Seq(Nat)
  BY DEF frames!TypeOK, GetFrame, frames!PopLatest
<1>2. /\ Len(items) \in Nat \ {0} /\ Len(items) \in 1 .. Len(items)
      /\ SubSeq(items, Len(items) + 1, Len(items)) = <<>>
  BY <1>1, LastTaken
<1>3. items[Len(items)] = pushed - Len(items) + Len(items)
  BY <1>2 DEF frames!Contiguous
<1>4. items[Len(items)] = pushed
  BY <1>1, <1>2, <1>3
<1>5. \A j \in 1 .. Len(delivered) : delivered[j] \in Nat
  BY <1>1
<1>6. /\ frame' = [frame EXCEPT ![w] = pushed]
      /\ delivered' = Append(delivered, pushed)
      /\ pushed' = pushed /\ items' = <<>>
  BY <1>2, <1>4 DEF GetFrame, frames!PopLatest, frames!Take
<1>7. \A j \in 1 .. Len(delivered) : delivered[j] <= pushed - Len(items)
  BY DEF frames!Contiguous
<1>8. Settled < pushed /\ \A j \in 1 .. Len(delivered) : delivered[j] < pushed
  BY <1>1, <1>2, <1>5, <1>7 DEF Settled
<1>9. pushed # 0
  <2>1. Len(delivered) \in Nat /\ dropped \in Nat
    BY <1>1 DEF frames!TypeOK
  <2>2. QED  BY <1>2, <2>1 DEF frames!Conservation
<1>10. QED  BY <1>6, <1>8, <1>9

\* No other step gives a worker a frame or takes one from the queue for it.
LEMMA FrameKept ==
    ASSUME [Next]_vars
    PROVE  \/ UNCHANGED <<frame, delivered>>
           \/ \E w \in Workers : GetFrame(w)
           \/ \E w \in Workers : frame' = [frame EXCEPT ![w] = 0] /\ UNCHANGED delivered
<1> USE DEF queueVars, workVars
<1>1. CASE Start \/ StopFlag \/ StopJoinsCapture \/ StopShutsPool \/ StopClosesSource
           \/ Elsewhere \/ Tick \/ SetClock \/ UNCHANGED vars
  BY <1>1, ElsewhereKeeps
          DEF Start, StopFlag, StopJoinsCapture, StopShutsPool, StopClosesSource, Tick,
              SetClock, vars
<1>2. CASE StopCloses
  BY <1>2 DEF StopCloses, frames!CloseFlag, frames!CloseRest,
              frames!CloseNotifyNotEmpty, frames!CloseNotifyNotFull
<1>3. CASE Capture
  BY <1>3 DEF Capture, Open, CaptureTest, ReadFrame, ReadNothing, PushFrame, CaptureKeeps,
              frames!Push, frames!PushDropOldest, frames!PushBlocking, frames!PushWaits,
              frames!PushRefused, frames!Accept
<1>4. ASSUME NEW w \in Workers,
             \/ Enter(w) \/ LoopTest(w) \/ AwaitFrame(w) \/ QueueEnded(w) \/ Infer(w)
             \/ ShowPicture(w) \/ ShowBoxes(w) \/ Stamp(w) \/ Suppress(w)
             \/ PublishAlert(w) \/ SpuriousWake(w)
      PROVE  UNCHANGED <<frame, delivered>>
  BY <1>4 DEF Enter, RunLoop, LoopTest, AwaitFrame, QueueEnded, Infer, ShowPicture, ShowBoxes, Stamp,
              Suppress, PublishAlert, SpuriousWake, frames!PopWaits, frames!PopNullopt,
              frames!SpuriousWake
<1>5. ASSUME NEW w \in Workers, SkipFrame(w) \/ CallThrows(w) \/ FrameDone(w)
      PROVE  frame' = [frame EXCEPT ![w] = 0] /\ UNCHANGED delivered
  BY <1>5 DEF SkipFrame, CallThrows, FrameDone
<1>6. QED  BY <1>1, <1>2, <1>3, <1>4, <1>5, NextCases DEF StopGoesOn, Work

\* A new frame is one that no worker holds, since those were handed out.
LEMMA ServedStep ==
    ASSUME OwnTypes, frames!TypeOK, frames!Contiguous, frames!Conservation,
           FrameServedOnce, [Next]_vars
    PROVE  FrameServedOnce'
<1>0. frame \in [Workers -> Nat] /\ delivered \in Seq(Nat)
  BY DEF OwnTypes, frames!TypeOK
<1>1. CASE UNCHANGED <<frame, delivered>>
  BY <1>1 DEF FrameServedOnce
<1>2. ASSUME NEW w \in Workers, frame' = [frame EXCEPT ![w] = 0], UNCHANGED delivered
      PROVE  FrameServedOnce'
  BY <1>0, <1>2 DEF FrameServedOnce
<1>3. ASSUME NEW w \in Workers, GetFrame(w)
      PROVE  FrameServedOnce'
  <2>1. /\ frame' = [frame EXCEPT ![w] = pushed]
        /\ delivered' = Append(delivered, pushed) /\ pushed \in Nat
        /\ \A j \in 1 .. Len(delivered) : delivered[j] < pushed
    BY <1>3, NewestGiven DEF frames!TypeOK
  <2>2. /\ Len(delivered) \in Nat /\ Len(delivered') = Len(delivered) + 1
        /\ delivered'[Len(delivered) + 1] = pushed
        /\ \A j \in 1 .. Len(delivered) : delivered'[j] = delivered[j] /\ delivered[j] \in Nat
    BY <1>0, <2>1, OneMore
  <2>3. \A v \in Workers : frame[v] # 0 => frame[v] # pushed
    BY <1>0, <2>1, <2>2 DEF FrameServedOnce
  <2>4. \A u, v \in Workers : u # v /\ frame'[u] # 0 => frame'[u] # frame'[v]
    BY <1>0, <2>1, <2>3 DEF FrameServedOnce
  <2>5. ASSUME NEW v \in Workers, frame'[v] # 0
        PROVE  \E i \in 1 .. Len(delivered') : delivered'[i] = frame'[v]
    <3>1. CASE v = w
      BY <1>0, <2>1, <2>2, <3>1
    <3>2. CASE v # w
      BY <1>0, <2>1, <2>2, <2>5, <3>2 DEF FrameServedOnce
    <3>3. QED  BY <3>1, <3>2
  <2>6. QED  BY <2>4, <2>5 DEF FrameServedOnce
<1>4. QED  BY <1>1, <1>2, <1>3, FrameKept

(* No two workers of a camera ever infer the same frame, and what a worker  *)
(* infers came out of frames_, however many workers and restarts there are. *)
THEOREM FramesServedOnce == Spec => []FrameServedOnce
<1>1. Init => FrameServedOnce
  BY DEF Init, FrameServedOnce
<1>2. Spec => []OwnTypes
  BY QueueTyped, TypesInit, TypesStep, PTL DEF Spec
<1>3. OwnTypes /\ frames!TypeOK /\ (frames!Contiguous /\ frames!Conservation)
      /\ FrameServedOnce /\ [Next]_vars => FrameServedOnce'
  BY ServedStep
<1>4. QED  BY <1>1, <1>2, <1>3, QueueTyped, QueueOrdered, PTL DEF Spec
-----------------------------------------------------------------------------
(* The order of alerts and of the live view, for one worker.  What is shown *)
(* or alerted about is settled, and so not newer than what the worker holds *)
(* or will be given.                                                        *)

\* The part of a round in which the worker has a frame.
Holding == {"inferring", "showing", "boxing", "stamping", "alerting"}

\* Nothing published is newer than frame k.
NoneNewer(k) == /\ shown.picture <= k
                /\ \A i \in 1 .. Len(alerts) : alerts[i].frame <= k

InStep(w) ==
    /\ worker[w] \in Holding => NoneNewer(frame[w]) /\ frame[w] <= Settled
    /\ worker[w] = "boxing" => shown.picture = frame[w]
    /\ worker[w] \in {"stamping", "alerting"} /\ Viewing = 1 => shown.boxes = frame[w]

FollowInv == /\ NoneNewer(Settled)
             /\ \A w \in Workers : InStep(w)
             /\ AlertsFollowFrames

\* A step of anything but the queue's two ends leaves Settled alone; these
\* two only add to it.
LEMMA SettledGrows ==
    ASSUME frames!TypeOK, frames!Contiguous, frames!Conservation, [Next]_vars
    PROVE  Settled \in Int /\ Settled' \in Int /\ Settled <= Settled'
<1>0. items \in Seq(Nat) /\ pushed \in Nat /\ Len(items) \in Nat
  BY LenProperties DEF frames!TypeOK
<1> USE DEF Settled
<1>1. ASSUME UNCHANGED <<items, pushed>>
      PROVE  Settled' = Settled
  BY <1>1
<1>2. CASE PushFrame
  <2>1. \/ UNCHANGED <<items, pushed>>
        \/ items' = Append(items, pushed + 1) /\ pushed' = pushed + 1
        \/ /\ items' = Append(Tail(items), pushed + 1) /\ pushed' = pushed + 1
           /\ Len(items) >= QueueCapacity
    BY <1>2 DEF PushFrame, frames!Push, frames!PushDropOldest, frames!PushBlocking,
                frames!PushWaits, frames!PushRefused, frames!Accept
  <2>2. Len(Append(items, pushed + 1)) = Len(items) + 1
    BY <1>0
  <2>3. Len(items) >= QueueCapacity => Len(Append(Tail(items), pushed + 1)) = Len(items)
    <3>1. Len(items) >= QueueCapacity => items # <<>>
      BY <1>0, QueueAssumption
    <3>2. items # <<>> => Tail(items) \in Seq(Nat) /\ Len(Tail(items)) = Len(items) - 1
      BY <1>0, HeadTailProperties
    <3>3. QED  BY <1>0, <3>1, <3>2
  <2>4. QED  BY <1>0, <2>1, <2>2, <2>3
<1>3. ASSUME NEW w \in Workers, GetFrame(w)
      PROVE  Settled \in Int /\ Settled' \in Int /\ Settled <= Settled'
  <2>1. pushed' = pushed /\ items' = <<>> /\ Settled < pushed
    BY <1>3, NewestGiven
  <2>2. QED  BY <1>0, <2>1
<1>4. CASE ~PushFrame /\ \A w \in Workers : ~GetFrame(w)
  <2>1. ASSUME Start \/ StopFlag \/ StopGoesOn \/ Elsewhere \/ Tick \/ SetClock
               \/ UNCHANGED vars
        PROVE  UNCHANGED <<items, pushed>>
    BY <2>1, ElsewhereKeeps DEF Start, StopFlag, StopGoesOn, StopCloses, StopJoinsCapture, StopShutsPool,
                StopClosesSource, Tick, SetClock, vars, queueVars, frames!CloseFlag,
                frames!CloseRest, frames!CloseNotifyNotEmpty, frames!CloseNotifyNotFull
  <2>2. ASSUME Capture
        PROVE  UNCHANGED <<items, pushed>>
    BY <1>4, <2>2 DEF Capture, Open, CaptureTest, ReadFrame, ReadNothing, queueVars
  <2>3. ASSUME NEW w \in Workers, Work(w) \/ SpuriousWake(w)
        PROVE  UNCHANGED <<items, pushed>>
    BY <1>4, <2>3
       DEF Work, Enter, RunLoop, LoopTest, AwaitFrame, QueueEnded, SkipFrame, CallThrows, Infer,
           ShowPicture, ShowBoxes, Stamp, Suppress, PublishAlert, FrameDone, SpuriousWake,
           queueVars, frames!PopWaits, frames!PopNullopt, frames!SpuriousWake
  <2>4. UNCHANGED <<items, pushed>>
    BY <2>1, <2>2, <2>3, NextCases
  <2>5. QED  BY <1>0, <1>1, <2>4
<1>5. QED  BY <1>0, <1>2, <1>3, <1>4

\* The frames of what is published are numbers.
LEMMA FramesTyped ==
    ASSUME OwnTypes
    PROVE  /\ shown.picture \in Nat /\ shown.boxes \in Nat /\ Len(alerts) \in Nat
           /\ \A i \in 1 .. Len(alerts) : alerts[i].frame \in Nat
           /\ \A w \in Workers : frame[w] \in Nat
<1>1. \A i \in 1 .. Len(alerts) : alerts[i] \in Alerts
  BY DEF OwnTypes
<1>2. \A i \in 1 .. Len(alerts) : alerts[i].frame \in Nat
  BY <1>1 DEF Alerts
<1>3. alerts \in Seq(Alerts) /\ Len(alerts) \in Nat
  BY LenProperties DEF OwnTypes
<1>4. QED  BY <1>2, <1>3 DEF OwnTypes

\* Nothing is published, and no worker takes up or changes its frame.
LEMMA FollowIdle ==
    ASSUME FollowInv, OwnTypes, Settled \in Int, Settled' \in Int, Settled <= Settled',
           UNCHANGED <<shown, alerts>>,
           \A w \in Workers : \/ worker'[w] \notin Holding
                              \/ worker'[w] = worker[w] /\ frame'[w] = frame[w]
    PROVE  FollowInv'
<1> HIDE DEF Settled
<1>1. NoneNewer(Settled)'
  BY FramesTyped DEF FollowInv, NoneNewer
<1>2. ASSUME NEW w \in Workers
      PROVE  InStep(w)'
  <2>1. CASE worker'[w] \notin Holding
    BY <2>1 DEF InStep, Holding
  <2>2. CASE worker'[w] = worker[w] /\ frame'[w] = frame[w]
    BY <2>2, FramesTyped DEF FollowInv, InStep, NoneNewer
  <2>3. QED  BY <1>2, <2>1, <2>2
<1>3. AlertsFollowFrames'
  BY DEF FollowInv, AlertsFollowFrames
<1>4. QED  BY <1>1, <1>2, <1>3 DEF FollowInv

\* The only worker takes the newest frame.
LEMMA FollowGet ==
    ASSUME FollowInv, OwnTypes, frames!TypeOK, frames!Contiguous, frames!Conservation,
           NEW w \in Workers, \A v \in Workers : v = w, GetFrame(w)
    PROVE  FollowInv'
<1>1. /\ frame'[w] = pushed /\ Settled' = pushed /\ Settled < pushed
      /\ pushed \in Nat /\ Settled \in Int
  <2>1. items \in Seq(Nat) /\ pushed \in Nat /\ Len(items) \in Nat
    BY LenProperties DEF frames!TypeOK
  <2>2. frame' = [frame EXCEPT ![w] = pushed] /\ pushed' = pushed /\ items' = <<>>
        /\ Settled < pushed
    BY NewestGiven
  <2>3. QED  BY <2>1, <2>2 DEF Settled, OwnTypes
<1>2. worker'[w] = "inferring" /\ UNCHANGED <<shown, alerts>>
  BY DEF GetFrame, Goes, OwnTypes
<1> HIDE DEF Settled
<1>3. NoneNewer(pushed)
  BY <1>1, FramesTyped DEF FollowInv, NoneNewer
<1>4. NoneNewer(Settled)'
  BY <1>1, <1>2, <1>3 DEF NoneNewer
<1>5. InStep(w)'
  BY <1>1, <1>2, <1>3 DEF InStep, NoneNewer
<1>6. AlertsFollowFrames'
  BY <1>2 DEF FollowInv, AlertsFollowFrames
<1>7. QED  BY <1>4, <1>5, <1>6 DEF FollowInv

\* The only worker goes on with its frame, or shows its picture or its boxes.
LEMMA FollowShow ==
    ASSUME FollowInv, OwnTypes, UNCHANGED <<Settled, frame, alerts>>, Settled \in Int,
           NEW w \in Workers, \A v \in Workers : v = w,
           Infer(w) \/ ShowPicture(w) \/ ShowBoxes(w) \/ Stamp(w) \/ Suppress(w)
    PROVE  FollowInv'
<1> HIDE DEF Settled
<1>1. /\ frame[w] \in Nat /\ frame'[w] = frame[w] /\ shown.picture \in Nat
      /\ shown.boxes \in Nat /\ \A i \in 1 .. Len(alerts) : alerts[i].frame \in Nat
  BY FramesTyped
<1>2. worker[w] \in Holding
  BY DEF Infer, ShowPicture, ShowBoxes, Stamp, Suppress, Holding
<1>3. /\ shown.picture <= frame[w] /\ frame[w] <= Settled /\ shown.boxes <= shown.picture
      /\ \A i \in 1 .. Len(alerts) : alerts[i].frame <= frame[w]
  BY <1>2 DEF FollowInv, InStep, NoneNewer, AlertsFollowFrames
<1>4. CASE Infer(w)
  <2>1. /\ shown' = shown
        /\ worker'[w] = IF Viewing = 1 THEN "showing" ELSE "stamping"
    BY <1>4 DEF Infer, Goes, OwnTypes
  <2>2. InStep(w)'
    BY <1>1, <1>3, <2>1 DEF InStep, NoneNewer
  <2>3. QED  BY <1>3, <2>1, <2>2 DEF FollowInv, NoneNewer, AlertsFollowFrames
<1>5. CASE ShowPicture(w)
  <2>1. /\ shown'.picture = frame[w] /\ shown'.boxes = shown.boxes
        /\ worker'[w] = "boxing"
    BY <1>5 DEF ShowPicture, Goes, OwnTypes
  <2>2. InStep(w)'
    BY <1>1, <1>3, <2>1 DEF InStep, NoneNewer
  <2>3. NoneNewer(Settled)'
    BY <1>1, <1>3, <2>1 DEF FollowInv, NoneNewer
  <2>4. AlertsFollowFrames'
    BY <1>1, <1>3, <2>1 DEF FollowInv, AlertsFollowFrames
  <2>5. QED  BY <2>2, <2>3, <2>4 DEF FollowInv
<1>6. CASE ShowBoxes(w)
  <2>1. /\ shown'.boxes = frame[w] /\ shown'.picture = shown.picture
        /\ worker[w] = "boxing" /\ worker'[w] = "stamping"
    BY <1>6 DEF ShowBoxes, Goes, OwnTypes
  <2>2. shown.picture = frame[w]
    BY <2>1 DEF FollowInv, InStep
  <2>3. InStep(w)'
    BY <1>1, <1>3, <2>1, <2>2 DEF InStep, NoneNewer
  <2>4. NoneNewer(Settled)'
    BY <2>1 DEF FollowInv, NoneNewer
  <2>5. AlertsFollowFrames'
    BY <1>1, <1>3, <2>1, <2>2 DEF FollowInv, AlertsFollowFrames
  <2>6. QED  BY <2>3, <2>4, <2>5 DEF FollowInv
<1>7. CASE Stamp(w) \/ Suppress(w)
  <2>1. /\ shown' = shown /\ worker[w] \in {"stamping", "alerting"}
        /\ worker'[w] = "alerting"
    BY <1>7 DEF Stamp, Suppress, Goes, OwnTypes
  <2>2. InStep(w)'
    BY <1>1, <1>3, <2>1 DEF FollowInv, InStep, NoneNewer
  <2>3. QED  BY <1>3, <2>1, <2>2 DEF FollowInv, NoneNewer, AlertsFollowFrames
<1>8. QED  BY <1>4, <1>5, <1>6, <1>7

\* The only worker publishes an alert of its frame.
LEMMA FollowPublish ==
    ASSUME FollowInv, OwnTypes, UNCHANGED Settled, Settled \in Int,
           NEW w \in Workers, \A v \in Workers : v = w, PublishAlert(w)
    PROVE  FollowInv'
<1> HIDE DEF Settled
<1> DEFINE n == Len(alerts)
<1>1. /\ frame[w] \in Nat /\ shown.picture \in Nat /\ n \in Nat
      /\ shown.boxes \in Nat /\ \A i \in 1 .. n : alerts[i].frame \in Nat
  BY FramesTyped
<1>2. worker[w] = "alerting" /\ UNCHANGED <<worker, frame, shown>>
  BY DEF PublishAlert
<1>3. /\ Len(alerts') = n + 1 /\ alerts'[n + 1].frame = frame[w]
      /\ \A i \in 1 .. n : alerts'[i].frame = alerts[i].frame
  BY DEF PublishAlert, OwnTypes
<1>4. /\ shown.picture <= frame[w] /\ frame[w] <= Settled /\ shown.boxes <= shown.picture
      /\ \A i \in 1 .. n : alerts[i].frame <= frame[w]
      /\ Viewing = 1 => shown.boxes = frame[w]
  BY <1>2 DEF FollowInv, InStep, NoneNewer, AlertsFollowFrames, Holding
<1>5. \A i \in 1 .. Len(alerts') : alerts'[i].frame <= frame[w]
  BY <1>1, <1>3, <1>4
<1>6. NoneNewer(frame[w])' /\ NoneNewer(Settled)'
  <2>1. \A i \in 1 .. Len(alerts') : alerts'[i].frame \in Nat
    BY <1>1, <1>3
  <2>2. QED  BY <1>1, <1>2, <1>4, <1>5, <2>1 DEF NoneNewer
<1>7. InStep(w)'
  BY <1>2, <1>4, <1>6 DEF InStep
<1>8. AlertsFollowFrames'
  <2>1. ASSUME NEW i \in 1 .. Len(alerts'), NEW j \in 1 .. Len(alerts'), i < j
        PROVE  alerts'[i].frame <= alerts'[j].frame
    <3>1. CASE j = n + 1
      BY <1>3, <1>5, <3>1
    <3>2. CASE j # n + 1
      <4>1. i \in 1 .. n /\ j \in 1 .. n
        <5> HIDE DEF n
        <5>1. n \in Nat /\ Len(alerts') = n + 1
          BY <1>1, <1>3
        <5>2. QED  BY <2>1, <3>2, <5>1
      <4>2. QED  BY <1>3, <2>1, <4>1 DEF FollowInv, AlertsFollowFrames
    <3>3. QED  BY <3>1, <3>2
  <2>2. Viewing = 1 => \A i \in 1 .. Len(alerts') : alerts'[i].frame <= shown'.boxes
    BY <1>2, <1>4, <1>5
  <2>3. QED  BY <1>2, <1>4, <2>1, <2>2 DEF AlertsFollowFrames
<1>9. QED  BY <1>6, <1>7, <1>8 DEF FollowInv

\* Every step keeps the frames of what is published in order.
LEMMA FollowStep ==
    ASSUME FollowInv, OwnTypes, frames!TypeOK, frames!Contiguous, frames!Conservation,
           \A v, w \in Workers : v = w, [Next]_vars
    PROVE  FollowInv'
<1>1. Settled \in Int /\ Settled' \in Int /\ Settled <= Settled'
  BY SettledGrows
<1>2. ASSUME NEW w \in Workers, GetFrame(w)
      PROVE  FollowInv'
  BY <1>2, FollowGet
<1>3. ASSUME NEW w \in Workers,
             \/ Infer(w) \/ ShowPicture(w) \/ ShowBoxes(w) \/ Stamp(w) \/ Suppress(w)
             \/ PublishAlert(w)
      PROVE  FollowInv'
  <2>1. UNCHANGED Settled
    BY <1>3 DEF Infer, ShowPicture, ShowBoxes, Stamp, Suppress, PublishAlert, queueVars,
                Settled
  <2>2. ~PublishAlert(w) => UNCHANGED <<frame, alerts>>
    BY <1>3 DEF Infer, ShowPicture, ShowBoxes, Stamp, Suppress
  <2>3. QED  BY <1>1, <1>3, <2>1, <2>2, FollowShow, FollowPublish
<1>4. ASSUME NEW w \in Workers,
             \/ Enter(w) \/ LoopTest(w) \/ AwaitFrame(w) \/ QueueEnded(w)
             \/ SkipFrame(w) \/ CallThrows(w) \/ FrameDone(w)
      PROVE  FollowInv'
  <2>1. UNCHANGED <<shown, alerts>>
    BY <1>4 DEF Enter, RunLoop, LoopTest, AwaitFrame, QueueEnded, SkipFrame, CallThrows, FrameDone,
                workVars
  <2>2. worker'[w] \notin Holding
    BY <1>4 DEF Enter, RunLoop, LoopTest, AwaitFrame, QueueEnded, SkipFrame, CallThrows, FrameDone,
                workVars, Goes, Holding, OwnTypes
  <2>3. QED  BY <1>1, <2>1, <2>2, FollowIdle
<1>5. CASE Start
  <2>1. UNCHANGED <<shown, alerts>> /\ \A w \in Workers : worker'[w] \notin Holding
    BY <1>5 DEF Start, Holding
  <2>2. QED  BY <1>1, <2>1, FollowIdle
<1>6. CASE \/ StopFlag \/ StopGoesOn \/ Elsewhere \/ Capture \/ Tick \/ SetClock
           \/ (\E w \in Workers : SpuriousWake(w)) \/ UNCHANGED vars
  <2>1. UNCHANGED <<shown, alerts, worker, frame>>
    BY <1>6, ElsewhereKeeps DEF StopFlag, StopGoesOn, StopCloses, StopJoinsCapture, StopShutsPool,
                StopClosesSource, Capture, Open, CaptureTest, ReadFrame, ReadNothing,
                PushFrame, CaptureKeeps, Tick, SetClock, SpuriousWake, workVars, vars
  <2>2. QED  BY <1>1, <2>1, FollowIdle
<1>7. QED  BY <1>2, <1>3, <1>4, <1>5, <1>6, NextCases DEF Work

(* With one worker alerts come in the order of their frames, and neither    *)
(* the live view nor its boxes go back, whatever is dropped by the queue,   *)
(* skipped or lost to exceptions, over any number of restarts.              *)
THEOREM AlertsInFrameOrder ==
    ASSUME \A v, w \in Workers : v = w
    PROVE  Spec => []AlertsFollowFrames
<1>1. Init => FollowInv
  BY DEF Init, frames!Init, FollowInv, NoneNewer, InStep, Holding, Settled,
         AlertsFollowFrames
<1>2. Spec => []OwnTypes
  BY QueueTyped, TypesInit, TypesStep, PTL DEF Spec
<1>3. OwnTypes /\ frames!TypeOK /\ (frames!Contiguous /\ frames!Conservation)
      /\ FollowInv /\ [Next]_vars => FollowInv'
  BY FollowStep
<1>4. FollowInv => AlertsFollowFrames
  BY DEF FollowInv
<1>5. QED  BY <1>1, <1>2, <1>3, <1>4, QueueTyped, QueueOrdered, PTL DEF Spec
-----------------------------------------------------------------------------
(* An alert is passed over only for one that was published.  Every entry of *)
(* a last_alert was made for an alert, and is not later than it, if the     *)
(* wall clock is never ahead.                                               *)

NeverAhead == \A s \in Skews : s <= 0

\* A worker has alerts to look at only from the inference to the last of them.
Looking == {"showing", "boxing", "stamping", "alerting"}

\* The entry of track t in the map of worker w stands for an alert.
Founded(w, t) ==
    \E i \in 1 .. Len(alerts) :
        TrackId[alerts[i].forklift] = t /\ last[w][t] <= alerts[i].at

CauseInv ==
    /\ skew <= 0
    /\ \A w \in Workers :
          /\ stamp[w].wall <= stamp[w].at
          /\ worker[w] \notin Looking => hits[w] = <<>>
          /\ \A t \in DOMAIN last[w] : Founded(w, t)

\* No map changes, no alert goes, no worker gets hits or another stamp.
LEMMA CauseIdle ==
    ASSUME CauseInv, UNCHANGED <<last, alerts, stamp>>, skew' <= 0,
           \A w \in Workers : worker'[w] \notin Looking => hits'[w] = <<>>
    PROVE  CauseInv'
BY DEF CauseInv, Founded

\* An entry is made for the alert that is published with it.
LEMMA CausePublish ==
    ASSUME CauseInv, OwnTypes, NEW w \in Workers, PublishAlert(w)
    PROVE  CauseInv'
<1> DEFINE n == Len(alerts)
           t == TrackId[Head(hits[w])]
<1>1. /\ last' = [last EXCEPT ![w] = WithEntry(last[w], t, stamp[w].wall)]
      /\ UNCHANGED <<stamp, skew, worker>> /\ worker[w] = "alerting"
      /\ hits' = [hits EXCEPT ![w] = Tail(hits[w])]
  BY DEF PublishAlert, WorkKeeps, clockVars
<1>2. /\ n \in Nat /\ Len(alerts') = n + 1
      /\ \A i \in 1 .. n : alerts'[i] = alerts[i]
      /\ alerts'[n + 1].forklift = Head(hits[w])
      /\ alerts'[n + 1].at = stamp[w].at
  BY DEF PublishAlert, OwnTypes
<1>3. DOMAIN last = Workers /\ DOMAIN hits = Workers
  BY DEF OwnTypes
<1>4. ASSUME NEW v \in Workers, NEW u \in DOMAIN last'[v]
      PROVE  Founded(v, u)'
  <2>1. CASE v = w /\ u = t
    <3>1. last'[v][u] = stamp[w].wall
      BY <1>1, <1>3, <1>4, <2>1 DEF WithEntry
    <3>2. n + 1 \in 1 .. Len(alerts') /\ last'[v][u] <= alerts'[n + 1].at
      BY <1>2, <3>1 DEF CauseInv
    <3>3. QED  BY <1>2, <2>1, <3>2 DEF Founded
  <2>2. CASE ~(v = w /\ u = t)
    <3>1. u \in DOMAIN last[v] /\ last'[v][u] = last[v][u]
      BY <1>1, <1>3, <1>4, <2>2 DEF WithEntry
    <3>2. PICK i \in 1 .. n : TrackId[alerts[i].forklift] = u /\ last[v][u] <= alerts[i].at
      BY <1>4, <3>1 DEF CauseInv, Founded
    <3>3. i \in 1 .. Len(alerts') /\ alerts'[i] = alerts[i]
      BY <1>2
    <3>4. QED  BY <3>1, <3>2, <3>3 DEF Founded
  <2>3. QED  BY <2>1, <2>2
<1>5. \A v \in Workers : worker'[v] \notin Looking => hits'[v] = <<>>
  BY <1>1, <1>3 DEF CauseInv, Looking
<1>6. QED  BY <1>1, <1>4, <1>5 DEF CauseInv

\* Every step of a worker's loop keeps the entries founded.
LEMMA CauseLoop ==
    ASSUME CauseInv, OwnTypes, NEW w \in Workers, Work(w)
    PROVE  CauseInv'
<1>0. skew' = skew /\ skew' <= 0
  BY DEF CauseInv, Work, Enter, RunLoop, LoopTest, GetFrame, AwaitFrame, QueueEnded, SkipFrame,
         CallThrows, Infer, ShowPicture, ShowBoxes, Stamp, Suppress, PublishAlert, FrameDone,
         WorkKeeps, clockVars
<1>1. CASE Enter(w)
  <2>1. /\ last' = [last EXCEPT ![w] = NoAlerts] /\ UNCHANGED <<alerts, stamp, hits>>
        /\ worker[w] = "starting" /\ \A v \in Workers \ {w} : worker'[v] = worker[v]
    BY <1>1 DEF Enter, RunLoop, Goes, OwnTypes
  <2>2. \A v \in Workers : \A t \in DOMAIN last'[v] :
            v # w /\ t \in DOMAIN last[v] /\ last'[v] = last[v]
    BY <2>1 DEF NoAlerts, OwnTypes
  <2>3. \A v \in Workers : \A t \in DOMAIN last'[v] : Founded(v, t)'
    BY <2>1, <2>2 DEF CauseInv, Founded
  <2>4. \A v \in Workers : worker'[v] \notin Looking => hits'[v] = <<>>
    BY <2>1 DEF CauseInv, Looking
  <2>5. QED  BY <1>0, <2>1, <2>3, <2>4 DEF CauseInv
<1>2. CASE Stamp(w)
  <2>1. /\ stamp' = [stamp EXCEPT ![w] = [at |-> now, wall |-> now + skew]]
        /\ UNCHANGED <<last, alerts, hits>>
        /\ worker'[w] = "alerting" /\ \A v \in Workers \ {w} : worker'[v] = worker[v]
    BY <1>2 DEF Stamp, Goes, OwnTypes
  <2>2. \A v \in Workers : stamp'[v].wall <= stamp'[v].at
    BY <2>1 DEF CauseInv, OwnTypes
  <2>3. QED  BY <1>0, <2>1, <2>2 DEF CauseInv, Founded, Looking
<1>3. CASE PublishAlert(w)
  BY <1>3, CausePublish
<1>4. CASE \/ LoopTest(w) \/ GetFrame(w) \/ AwaitFrame(w) \/ QueueEnded(w)
           \/ SkipFrame(w) \/ CallThrows(w) \/ Infer(w) \/ ShowPicture(w)
           \/ ShowBoxes(w) \/ Suppress(w) \/ FrameDone(w)
  <2>1. UNCHANGED <<last, alerts, stamp>>
    BY <1>4 DEF LoopTest, GetFrame, AwaitFrame, QueueEnded, SkipFrame, CallThrows, Infer,
                ShowPicture, ShowBoxes, Suppress, FrameDone, workVars
  <2>2. \A v \in Workers \ {w} : worker'[v] = worker[v] /\ hits'[v] = hits[v]
    BY <1>4 DEF LoopTest, GetFrame, AwaitFrame, QueueEnded, SkipFrame, CallThrows, Infer,
                ShowPicture, ShowBoxes, Suppress, FrameDone, workVars, Goes, OwnTypes
  <2>3. worker'[w] \notin Looking => hits'[w] = <<>>
    BY <1>4 DEF LoopTest, GetFrame, AwaitFrame, QueueEnded, SkipFrame, CallThrows, Infer,
                ShowPicture, ShowBoxes, Suppress, FrameDone, workVars, Goes, OwnTypes,
                Looking, CauseInv
  <2>4. QED  BY <1>0, <2>1, <2>2, <2>3, CauseIdle DEF CauseInv
<1>5. QED  BY <1>1, <1>2, <1>3, <1>4 DEF Work

\* Every step keeps the entries founded.
LEMMA CauseStep ==
    ASSUME CauseInv, OwnTypes, QuietInv, Ended, NeverAhead, [Next]_vars
    PROVE  CauseInv'
<1>1. CASE Start
  <2>1. \A w \in Workers : worker[w] \in {"none", "left"}
    BY <1>1 DEF Start, QuietInv, JoinsInOrder, Ended
  <2>2. UNCHANGED <<last, alerts, stamp, hits, skew>>
    BY <1>1 DEF Start, clockVars
  <2>3. \A w \in Workers : hits[w] = <<>>
    BY <2>1 DEF CauseInv, Looking
  <2>4. QED  BY <2>2, <2>3, CauseIdle DEF CauseInv
<1>2. CASE SetClock
  <2>1. UNCHANGED <<last, alerts, stamp, hits, worker>> /\ skew' <= 0
    BY <1>2 DEF SetClock, workVars, NeverAhead
  <2>2. QED  BY <2>1, CauseIdle DEF CauseInv
<1>3. CASE \/ StopFlag \/ StopGoesOn \/ Elsewhere \/ Capture \/ Tick
           \/ (\E w \in Workers : SpuriousWake(w)) \/ UNCHANGED vars
  <2>1. UNCHANGED <<last, alerts, stamp, hits, worker, skew>>
    BY <1>3, ElsewhereKeeps DEF StopFlag, StopGoesOn, StopCloses, StopJoinsCapture, StopShutsPool,
                StopClosesSource, Capture, Open, CaptureTest, ReadFrame, ReadNothing,
                PushFrame, CaptureKeeps, Tick, SpuriousWake, workVars, clockVars, vars
  <2>2. QED  BY <2>1, CauseIdle DEF CauseInv
<1>4. ASSUME NEW w \in Workers, Work(w)
      PROVE  CauseInv'
  BY <1>4, CauseLoop
<1>5. QED  BY <1>1, <1>2, <1>3, <1>4, NextCases

\* The action property SuppressionJustified, without its brackets.
Justified ==
    \A w \in Workers : Passes(w) /\ stamp[w].wall = stamp[w].at =>
        \E i \in 1 .. Len(alerts) :
            /\ TrackId[alerts[i].forklift] = TrackId[Head(hits[w])]
            /\ stamp[w].at - alerts[i].at < Cooldown

\* Only a suppression passes over an alert, and it has an entry for it.
LEMMA JustifiedStep ==
    ASSUME CauseInv, OwnTypes, [Next]_vars
    PROVE  Justified \/ UNCHANGED vars
<1> SUFFICES ASSUME NEW w \in Workers, Passes(w), stamp[w].wall = stamp[w].at
             PROVE  \E i \in 1 .. Len(alerts) :
                        /\ TrackId[alerts[i].forklift] = TrackId[Head(hits[w])]
                        /\ stamp[w].at - alerts[i].at < Cooldown
  BY DEF Justified
<1> DEFINE t == TrackId[Head(hits[w])]
<1>1. PICK v \in Workers : Work(v)
  <2>1. CASE \/ Start \/ StopFlag \/ StopGoesOn \/ Elsewhere \/ Capture \/ Tick \/ SetClock
             \/ (\E v \in Workers : SpuriousWake(v)) \/ UNCHANGED vars
    <3>1. hits' = hits
      BY <2>1, ElsewhereKeeps
              DEF Start, StopFlag, StopGoesOn, StopCloses, StopJoinsCapture, StopShutsPool,
                  StopClosesSource, Capture, Open, CaptureTest, ReadFrame, ReadNothing,
                  PushFrame, CaptureKeeps, Tick, SetClock, SpuriousWake, workVars, vars
    <3>2. QED  BY <3>1 DEF Passes
  <2>2. QED  BY <2>1, NextCases
<1>2. Suppress(w)
  <2>0. CASE CallThrows(v)
    BY <2>0 DEF CallThrows, Goes, Passes, OwnTypes
  <2>1. CASE \/ Enter(v) \/ LoopTest(v) \/ GetFrame(v) \/ AwaitFrame(v) \/ QueueEnded(v)
             \/ SkipFrame(v) \/ ShowPicture(v) \/ ShowBoxes(v)
             \/ Stamp(v) \/ FrameDone(v)
    BY <2>1 DEF Enter, RunLoop, LoopTest, GetFrame, AwaitFrame, QueueEnded, SkipFrame,
                ShowPicture, ShowBoxes, Stamp, FrameDone, Passes, workVars
  <2>2. CASE Infer(v)
    BY <2>2 DEF Infer, Passes, CauseInv, Looking, OwnTypes
  <2>3. CASE PublishAlert(v)
    <3>1. Len(alerts') = Len(alerts) + 1 /\ Len(alerts) \in Nat
      BY <2>3 DEF PublishAlert, OwnTypes
    <3>2. QED  BY <3>1 DEF Passes
  <2>4. CASE Suppress(v)
    BY <2>4 DEF Suppress, Passes, OwnTypes
  <2>5. QED  BY <1>1, <2>0, <2>1, <2>2, <2>3, <2>4 DEF Work
<1>3. t \in DOMAIN last[w] /\ stamp[w].wall - last[w][t] < Cooldown
  BY <1>2 DEF Suppress, InCooldown
<1>4. PICK i \in 1 .. Len(alerts) :
         TrackId[alerts[i].forklift] = t /\ last[w][t] <= alerts[i].at
  BY <1>3 DEF CauseInv, Founded
<1>5. last[w][t] \in Int /\ alerts[i].at \in Nat /\ stamp[w].at \in Nat
  <2>1. last[w][t] \in Int
    BY <1>3 DEF OwnTypes, IsLastAlert
  <2>2. alerts[i] \in Alerts
    BY DEF OwnTypes
  <2>3. alerts[i].at \in Nat
    BY <2>2 DEF Alerts
  <2>4. QED  BY <2>1, <2>3 DEF OwnTypes
<1>6. stamp[w].at - alerts[i].at < Cooldown
  BY <1>3, <1>4, <1>5, CooldownAssumption
<1>7. QED  BY <1>4, <1>6

(* Whatever the number of workers and restarts, an alert is passed over     *)
(* only if its track had one within the cooldown, unless the wall clock was *)
(* ever ahead, or is behind when the frame is stamped.                      *)
THEOREM SuppressedForCause == ASSUME NeverAhead PROVE Spec => SuppressionJustified
<1>1. Init => CauseInv
  BY DEF Init, CauseInv, NoAlerts, Looking
<1>2. Spec => []OwnTypes
  BY QueueTyped, TypesInit, TypesStep, PTL DEF Spec
<1>3. Spec => [](QuietInv /\ LoopsFollow /\ Ended)
  BY QuietAlways
<1>4. CauseInv /\ OwnTypes /\ QuietInv /\ Ended /\ [Next]_vars => CauseInv'
  BY CauseStep
<1>5. CauseInv /\ OwnTypes /\ [Next]_vars => [Justified]_vars
  BY JustifiedStep
<1>6. Spec => [][Justified]_vars
  BY <1>1, <1>2, <1>3, <1>4, <1>5, PTL DEF Spec
<1>7. QED  BY <1>6 DEF SuppressionJustified, Justified
-----------------------------------------------------------------------------
(* From start() to stop() every worker is in its loop.  A loop ends when it *)
(* sees running_ down, when it finds frames_ closed, or by an exception of  *)
(* one of its calls; up to a restart the first two wait for stop().         *)

ServeInv ==
    /\ running = "up" <=> control \in {"submitting", "started"}
    /\ control = "ready" <=> starts = 0
    /\ control \in {"ready", "submitting", "started"} => closing = "open"

\* start() finds the queue open the first time; stop() takes running_ down
\* before it closes the queue.
LEMMA ServeOwner ==
    ASSUME ServeInv, OwnTypes, starts' <= 1, Start \/ StartReturns \/ StopFlag \/ StopGoesOn
    PROVE  ServeInv'
<1>1. CASE Start
  <2>1. /\ starts \in Nat /\ starts' = starts + 1 /\ control \in {"ready", "stopped"}
        /\ running' = "up" /\ control' = "submitting" /\ closing' = closing
    BY <1>1 DEF Start, queueVars, OwnTypes
  <2>2. starts = 0
    BY <2>1
  <2>3. closing = "open"
    BY <2>2 DEF ServeInv
  <2>4. QED  BY <2>1, <2>2, <2>3 DEF ServeInv
<1>2. CASE StartReturns \/ StopFlag
  BY <1>2 DEF StartReturns, StopFlag, queueVars, ServeInv
<1>3. CASE StopCloses
  <2>1. control = "closing" /\ control' \in {"closing", "joiningCapture"}
        /\ UNCHANGED <<running, starts>>
    BY <1>3 DEF StopCloses
  <2>2. QED  BY <2>1 DEF ServeInv
<1>4. CASE StopJoinsCapture \/ StopShutsPool \/ StopClosesSource
  BY <1>4 DEF StopJoinsCapture, StopShutsPool, StopClosesSource, ServeInv
<1>5. QED  BY <1>1, <1>2, <1>3, <1>4 DEF StopGoesOn

\* Every step up to a second start() keeps the order of the closings.
LEMMA ServeStep ==
    OwnTypes /\ OwnTypes' /\ (starts <= 1 => ServeInv) /\ [Next]_vars
       => (starts <= 1 => ServeInv)'
<1> SUFFICES ASSUME OwnTypes, OwnTypes', starts <= 1 => ServeInv, [Next]_vars,
                    starts' <= 1
             PROVE  ServeInv'
  OBVIOUS
<1>1. ServeInv
  <2>1. starts <= 1
    BY StartsGrow DEF OwnTypes
  <2>2. QED  BY <2>1
<1>2. CASE Aside
  BY <1>1, <1>2, AsideKeepsControl DEF ServeInv
<1>3. ASSUME NEW w \in Workers, Work(w)
      PROVE  ServeInv'
  BY <1>1, <1>3, LoopKeepsControl DEF ServeInv
<1>4. QED  BY <1>1, <1>2, <1>3, ServeOwner, NextCases DEF Elsewhere, Aside

\* A worker that leaves its loop between start() and stop() throws.
Serves == starts <= 1 /\ running = "up" =>
             \A w \in Workers : worker'[w] = "left" => worker[w] = "left" \/ CallThrows(w)

\* A step of one loop leaves the others where they are.
LEMMA WorksAlone ==
    ASSUME NEW v \in Workers, Work(v), worker \in [Workers -> WorkerPlaces]
    PROVE  \A w \in Workers \ {v} : worker'[w] = worker[w]
BY DEF Work, Enter, RunLoop, LoopTest, GetFrame, AwaitFrame, QueueEnded, SkipFrame, CallThrows,
       Infer, ShowPicture, ShowBoxes, Stamp, Suppress, PublishAlert, FrameDone, Goes,
       workVars

\* It is no other step of its loop, and no step of anyone else.
LEMMA ServesStep ==
    ASSUME starts <= 1 => ServeInv, OwnTypes, Next
    PROVE  Serves
<1> SUFFICES ASSUME starts <= 1, running = "up", NEW w \in Workers,
                    worker'[w] = "left", worker[w] # "left"
             PROVE  CallThrows(w)
  BY DEF Serves
<1>1. worker \in [Workers -> WorkerPlaces] /\ ServeInv
  BY DEF OwnTypes
<1>2. Work(w)
  <2>1. ASSUME NEW v \in Workers, Work(v)
        PROVE  v = w
    BY <1>1, <2>1, WorksAlone
  <2>2. ~Start
    BY DEF Start
  <2>3. (StopFlag \/ StopGoesOn \/ Elsewhere \/ Aside) => worker' = worker
    BY ElsewhereKeeps, AsideKeepsControl
       DEF StopFlag, StopGoesOn, StopCloses, StopJoinsCapture, StopShutsPool,
           StopClosesSource, workVars
  <2>4. QED  BY <2>1, <2>2, <2>3, NextCases DEF Aside
<1>3. CASE LoopTest(w)
  BY <1>1, <1>3 DEF LoopTest, Goes
<1>4. CASE QueueEnded(w)
  BY <1>1, <1>4 DEF QueueEnded, frames!PopNullopt, frames!closed, ServeInv
<1>5. CASE \/ Enter(w) \/ GetFrame(w) \/ AwaitFrame(w) \/ SkipFrame(w) \/ Infer(w)
           \/ ShowPicture(w) \/ ShowBoxes(w) \/ Stamp(w) \/ Suppress(w)
           \/ PublishAlert(w) \/ FrameDone(w)
  BY <1>1, <1>5 DEF Enter, RunLoop, GetFrame, AwaitFrame, SkipFrame, Infer, ShowPicture,
                    ShowBoxes, Stamp, Suppress, PublishAlert, FrameDone, Goes, workVars
<1>6. QED  BY <1>2, <1>3, <1>4, <1>5 DEF Work

(* Whatever calls of the loop may throw, no worker leaves its loop between  *)
(* the first start() and stop() but by an exception of its own: neither the *)
(* queue, nor the pool, nor another worker's end takes an alert with it.    *)
THEOREM WorkersServeUnlessThrown == Spec => [][Serves]_vars
<1>1. Spec => []OwnTypes
  BY QueueTyped, TypesInit, TypesStep, PTL DEF Spec
<1>2. Init => ServeInv
  BY DEF Init, frames!Init, ServeInv
<1>3. OwnTypes /\ OwnTypes' /\ (starts <= 1 => ServeInv) /\ [Next]_vars
        => (starts <= 1 => ServeInv)'
  BY ServeStep
<1>4. OwnTypes /\ (starts <= 1 => ServeInv) /\ [Next]_vars => [Serves]_vars
  BY ServesStep
<1>5. QED  BY <1>1, <1>2, <1>3, <1>4, PTL DEF Spec

-----------------------------------------------------------------------------
(* The order of alerts with any number of workers.  What one worker raises  *)
(* follows its frames, since the frame it holds is newer than those it had  *)
(* before; between workers there is no order.                               *)

\* The alerts of worker w are of frames up to k.
NoneNewerBy(w, k) ==
    \A i \in 1 .. Len(alerts) : alerts[i].by = w => alerts[i].frame <= k

\* Two alerts of one worker come in the order of their frames.
WorkerFollowsFrames ==
    \A i, j \in 1 .. Len(alerts) :
        i < j /\ alerts[i].by = alerts[j].by => alerts[i].frame <= alerts[j].frame

OrderInv ==
    /\ \A w \in Workers : NoneNewerBy(w, Settled)
    /\ \A w \in Workers : worker[w] \in Holding =>
          NoneNewerBy(w, frame[w]) /\ frame[w] <= Settled
    /\ WorkerFollowsFrames

\* No alert is raised, and no worker takes up or changes its frame.
LEMMA OrderIdle ==
    ASSUME OrderInv, OwnTypes, Settled \in Int, Settled' \in Int, Settled <= Settled',
           alerts' = alerts,
           \A w \in Workers : \/ worker'[w] \notin Holding
                              \/ worker[w] \in Holding /\ frame'[w] = frame[w]
    PROVE  OrderInv'
<1> HIDE DEF Settled
<1>1. \A w \in Workers : NoneNewerBy(w, Settled)'
  BY FramesTyped DEF OrderInv, NoneNewerBy
<1>2. \A w \in Workers : worker'[w] \in Holding =>
          NoneNewerBy(w, frame[w])' /\ frame'[w] <= Settled'
  BY FramesTyped DEF OrderInv, NoneNewerBy
<1>3. WorkerFollowsFrames'
  BY DEF OrderInv, WorkerFollowsFrames
<1>4. QED  BY <1>1, <1>2, <1>3 DEF OrderInv

\* A worker takes the newest frame, which none of its alerts is newer than.
LEMMA OrderGet ==
    ASSUME OrderInv, OwnTypes, frames!TypeOK, frames!Contiguous, frames!Conservation,
           Settled \in Int, NEW w \in Workers, GetFrame(w)
    PROVE  OrderInv'
<1>1. /\ frame' = [frame EXCEPT ![w] = pushed] /\ Settled' = pushed /\ Settled < pushed
      /\ pushed \in Nat
  BY NewestGiven DEF frames!TypeOK, Settled
<1>2. /\ alerts' = alerts
      /\ worker' = [worker EXCEPT ![w] = "inferring"]
  BY DEF GetFrame, Goes
<1>3. frame'[w] = pushed /\ \A v \in Workers \ {w} : frame'[v] = frame[v] /\ worker'[v] = worker[v]
  BY <1>1, <1>2 DEF OwnTypes
<1> HIDE DEF Settled
<1>4. \A v \in Workers : NoneNewerBy(v, pushed)
  BY <1>1, FramesTyped DEF OrderInv, NoneNewerBy
<1>5. \A v \in Workers : NoneNewerBy(v, Settled)'
  BY <1>1, <1>2, <1>4 DEF NoneNewerBy
<1>6. ASSUME NEW v \in Workers, worker'[v] \in Holding
      PROVE  NoneNewerBy(v, frame[v])' /\ frame'[v] <= Settled'
  <2>1. CASE v = w
    BY <1>1, <1>2, <1>3, <1>4, <2>1 DEF NoneNewerBy
  <2>2. CASE v # w
    <3>1. frame[v] <= Settled /\ NoneNewerBy(v, frame[v]) /\ frame'[v] = frame[v]
      BY <1>3, <1>6, <2>2 DEF OrderInv
    <3>2. QED  BY <1>1, <1>2, <3>1, FramesTyped DEF NoneNewerBy
  <2>3. QED  BY <2>1, <2>2
<1>7. WorkerFollowsFrames'
  BY <1>2 DEF OrderInv, WorkerFollowsFrames
<1>8. QED  BY <1>5, <1>6, <1>7 DEF OrderInv

\* A worker raises an alert about the frame it holds.
LEMMA OrderPublish ==
    ASSUME OrderInv, OwnTypes, UNCHANGED Settled, Settled \in Int,
           NEW w \in Workers, PublishAlert(w)
    PROVE  OrderInv'
<1> HIDE DEF Settled
<1> DEFINE n == Len(alerts)
<1>1. /\ n \in Nat /\ \A i \in 1 .. n : alerts[i].frame \in Nat
      /\ \A v \in Workers : frame[v] \in Nat
  BY FramesTyped
<1>2. worker[w] \in Holding /\ UNCHANGED <<worker, frame>>
  BY DEF PublishAlert, Holding
<1>3. /\ Len(alerts') = n + 1 /\ alerts'[n + 1].frame = frame[w] /\ alerts'[n + 1].by = w
      /\ \A i \in 1 .. n : alerts'[i] = alerts[i]
  BY DEF PublishAlert, OwnTypes
<1>4. NoneNewerBy(w, frame[w]) /\ frame[w] <= Settled
  BY <1>2 DEF OrderInv
<1>5. ASSUME NEW v \in Workers, NEW k \in Int, NoneNewerBy(v, k), frame[w] <= k \/ v # w
      PROVE  \A i \in 1 .. Len(alerts') : alerts'[i].by = v => alerts'[i].frame <= k
  <2> SUFFICES ASSUME NEW i \in 1 .. Len(alerts'), alerts'[i].by = v
               PROVE  alerts'[i].frame <= k
    OBVIOUS
  <2>1. CASE i = n + 1
    BY <1>3, <1>5, <2>1
  <2>2. CASE i # n + 1
    <3>1. i \in 1 .. n
      BY <1>1, <1>3, <2>2
    <3>2. QED  BY <1>3, <1>5, <3>1 DEF NoneNewerBy
  <2>3. QED  BY <2>1, <2>2
<1>6. \A v \in Workers : NoneNewerBy(v, Settled)'
  BY <1>4, <1>5 DEF OrderInv, NoneNewerBy
<1>7. ASSUME NEW v \in Workers, worker'[v] \in Holding
      PROVE  NoneNewerBy(v, frame[v])' /\ frame'[v] <= Settled'
  <2>1. NoneNewerBy(v, frame[v]) /\ frame[v] <= Settled /\ frame'[v] = frame[v]
    BY <1>2, <1>7 DEF OrderInv
  <2>2. frame[v] \in Int /\ (frame[w] <= frame[v] \/ v # w)
    BY <1>1
  <2>3. \A i \in 1 .. Len(alerts') : alerts'[i].by = v => alerts'[i].frame <= frame[v]
    BY <1>5, <2>1, <2>2
  <2>4. QED  BY <2>1, <2>3 DEF NoneNewerBy
<1>8. ASSUME NEW i \in 1 .. Len(alerts'), NEW j \in 1 .. Len(alerts'), i < j,
             alerts'[i].by = alerts'[j].by
      PROVE  alerts'[i].frame <= alerts'[j].frame
  <2>1. i \in 1 .. n
    BY <1>1, <1>3, <1>8
  <2>2. CASE j = n + 1
    BY <1>3, <1>4, <1>8, <2>1, <2>2 DEF NoneNewerBy
  <2>3. CASE j # n + 1
    <3>1. j \in 1 .. n
      BY <1>1, <1>3, <2>3
    <3>2. QED  BY <1>3, <1>8, <2>1, <3>1 DEF OrderInv, WorkerFollowsFrames
  <2>4. QED  BY <2>2, <2>3
<1>9. WorkerFollowsFrames'
  BY <1>8 DEF WorkerFollowsFrames
<1>10. QED  BY <1>6, <1>7, <1>9 DEF OrderInv

\* Every step keeps each worker's alerts in the order of their frames.
LEMMA OrderStep ==
    ASSUME OrderInv, OwnTypes, frames!TypeOK, frames!Contiguous, frames!Conservation,
           [Next]_vars
    PROVE  OrderInv'
<1>1. Settled \in Int /\ Settled' \in Int /\ Settled <= Settled'
  BY SettledGrows
<1>2. ASSUME NEW w \in Workers, PublishAlert(w)
      PROVE  OrderInv'
  <2>1. UNCHANGED Settled
    BY <1>2 DEF PublishAlert, queueVars, Settled
  <2>2. QED  BY <1>1, <1>2, <2>1, OrderPublish
<1>3. ASSUME NEW w \in Workers,
             \/ Infer(w) \/ ShowPicture(w) \/ ShowBoxes(w) \/ Stamp(w) \/ Suppress(w)
      PROVE  OrderInv'
  <2>1. UNCHANGED <<frame, alerts>> /\ worker[w] \in Holding
    BY <1>3 DEF Infer, ShowPicture, ShowBoxes, Stamp, Suppress, Holding
  <2>2. \A v \in Workers \ {w} : worker'[v] = worker[v]
    BY <1>3 DEF Infer, ShowPicture, ShowBoxes, Stamp, Suppress, Goes, OwnTypes
  <2>3. QED  BY <1>1, <2>1, <2>2, OrderIdle
<1>4. ASSUME NEW w \in Workers,
             \/ Enter(w) \/ LoopTest(w) \/ AwaitFrame(w) \/ QueueEnded(w)
             \/ SkipFrame(w) \/ CallThrows(w) \/ FrameDone(w)
      PROVE  OrderInv'
  <2>1. alerts' = alerts
    BY <1>4 DEF Enter, RunLoop, LoopTest, AwaitFrame, QueueEnded, SkipFrame, CallThrows, FrameDone,
                workVars
  <2>2. \A v \in Workers \ {w} : worker'[v] = worker[v] /\ frame'[v] = frame[v]
    BY <1>4 DEF Enter, RunLoop, LoopTest, AwaitFrame, QueueEnded, SkipFrame, CallThrows, FrameDone,
                workVars, Goes, OwnTypes
  <2>3. worker'[w] \notin Holding
    BY <1>4 DEF Enter, RunLoop, LoopTest, AwaitFrame, QueueEnded, SkipFrame, CallThrows, FrameDone,
                workVars, Goes, Holding, OwnTypes
  <2>4. QED  BY <1>1, <2>1, <2>2, <2>3, OrderIdle
<1>5. ASSUME NEW w \in Workers, GetFrame(w)
      PROVE  OrderInv'
  BY <1>1, <1>5, OrderGet
<1>6. CASE Start
  <2>1. alerts' = alerts /\ \A w \in Workers : worker'[w] \notin Holding
    BY <1>6 DEF Start, Holding
  <2>2. QED  BY <1>1, <2>1, OrderIdle
<1>7. CASE \/ StopFlag \/ StopGoesOn \/ Elsewhere \/ Capture \/ Tick \/ SetClock
           \/ (\E w \in Workers : SpuriousWake(w)) \/ UNCHANGED vars
  <2>1. UNCHANGED <<alerts, worker, frame>>
    BY <1>7, ElsewhereKeeps DEF StopFlag, StopGoesOn, StopCloses, StopJoinsCapture, StopShutsPool,
                StopClosesSource, Capture, Open, CaptureTest, ReadFrame, ReadNothing,
                PushFrame, CaptureKeeps, Tick, SetClock, SpuriousWake, workVars, vars
  <2>2. QED  BY <1>1, <2>1, OrderIdle
<1>8. QED  BY <1>2, <1>3, <1>4, <1>5, <1>6, <1>7, NextCases DEF Work

(* Whatever the number of workers and restarts, the alerts one worker       *)
(* raises come in the order of the frames they are about; that those of a   *)
(* camera do needs one worker (AlertsInFrameOrder).                         *)
THEOREM WorkerAlertsInFrameOrder == Spec => []WorkerFollowsFrames
<1>1. Init => OrderInv
  BY DEF Init, frames!Init, OrderInv, NoneNewerBy, WorkerFollowsFrames, Holding, Settled
<1>2. Spec => []OwnTypes
  BY QueueTyped, TypesInit, TypesStep, PTL DEF Spec
<1>3. OwnTypes /\ frames!TypeOK /\ (frames!Contiguous /\ frames!Conservation)
      /\ OrderInv /\ [Next]_vars => OrderInv'
  BY OrderStep
<1>4. OrderInv => WorkerFollowsFrames
  BY DEF OrderInv
<1>5. QED  BY <1>1, <1>2, <1>3, <1>4, QueueTyped, QueueOrdered, PTL DEF Spec
=============================================================================
