----------------------- MODULE FrameProcessingPipeline -----------------------
(***************************************************************************)
(* forklift::application::FrameProcessingPipeline: the capture thread, the *)
(* inference loops and the thread that calls start() and stop() of one     *)
(* camera.  Its frame queue frames_ is an instance of ConcurrentQueue and  *)
(* its inference_pool_ one of ThreadPool; their actions are joined to the  *)
(* pipeline's own steps, so blocking, waking and closing are those of the  *)
(* queue, and taking a loop, going to sleep, notifying and joining those   *)
(* of the pool.                                                            *)
(*                                                                         *)
(* A worker is one inference_loop: a task of the pool, named by its rank   *)
(* among the submitted ones.  The pool's thread that runs it is another    *)
(* thing: it is in worker_loop before and after, and may run two of them.  *)
(* A frame is its rank among the frames pushed.  What a frame shows is     *)
(* chosen when it is inferred: the alerts evaluate() returns for it, as    *)
(* the sequence of the forklifts they are about.  Time is counted in units *)
(* of the cooldown's resolution.                                           *)
(***************************************************************************)
EXTENDS Integers, Sequences, FiniteSets

CONSTANTS
    InferenceWorkers, \* cfg_.inference_workers
    CaptureThread, \* capture_thread_
    QueueCapacity, \* cfg_.frame_queue_capacity
    Cooldown,      \* cfg_.alert_cooldown
    Viewing,       \* 1 if the live view is wired and enabled, else 0
    Forklifts,     \* the forklifts the camera can see
    TrackId,       \* forklift_track_id of the detections of each forklift
    HitLists,      \* the sequences of alerts evaluate() can return
    Outcomes,      \* what infer() can return: "blank", "error", "ok"
    Throws,        \* the places of inference_loop whose calls can throw
    Skews,         \* amounts the wall clock can be off the true time
    MaxFrames,     \* bound: frames captured
    MaxTime,       \* bound: ticks
    MaxStarts      \* bound: calls of start()

\* The loops, by rank, and the threads of the pool: as many of each.
Workers == 1 .. InferenceWorkers
Threads == 1 .. InferenceWorkers

\* The one client of the pool, the thread in start() or stop().
Owner == "owner"

ASSUME WorkersAssumption ==
    InferenceWorkers \in Nat /\ CaptureThread \notin 1 .. InferenceWorkers
ASSUME QueueAssumption == QueueCapacity \in Nat \ {0} /\ MaxFrames \in Nat
ASSUME CooldownAssumption == Cooldown \in Nat
ASSUME SceneAssumption == /\ TrackId \in [Forklifts -> Int]
                          /\ HitLists \subseteq Seq(Forklifts)
ASSUME OutcomesAssumption ==
    /\ Outcomes \subseteq {"blank", "error", "ok"}
    /\ Throws \subseteq {"inferring", "showing", "boxing", "stamping", "alerting"}
ASSUME ClockAssumption == Skews \subseteq Int /\ MaxTime \in Nat /\ MaxStarts \in Nat

VARIABLES
    items, dropped, notEmpty, notFull, call, closing, \* frames_
    pushed, delivered, told,                           \* ... and its history
    tasks, poolStop, thread, runs, client,             \* inference_pool_
    submitted, early, started, finished,               \* ... and its history
    running,  \* running_: "up" or "down"
    control,  \* how far the owner's start() or stop() has come
    starts,   \* number of start() calls that went through
    source,   \* whether source_ is "open" or "closed"
    capture,  \* where the capture thread is
    worker,   \* where each worker is
    frame,    \* the frame each worker works on, or 0
    hits,     \* the alerts each worker has yet to look at
    stamp,    \* frame_ts of that frame, with the true time beside it
    last,     \* last_alert of each worker: wall time by track
    shown,    \* frame of the picture and of the boxes given to the viewer
    alerts,   \* history: the alerts published, in order
    now,      \* true time
    skew      \* wall clock minus true time

queueVars == <<items, dropped, notEmpty, notFull, call, closing,
               pushed, delivered, told>>
poolVars == <<tasks, poolStop, thread, runs, client, submitted, early, started,
              finished>>
controlVars == <<running, control, starts>>
captureVars == <<source, capture>>
workVars == <<worker, frame, hits, stamp, last, shown, alerts>>
clockVars == <<now, skew>>
vars == <<queueVars, poolVars, controlVars, captureVars, workVars, clockVars>>

frames == INSTANCE ConcurrentQueue WITH
    Producers <- {CaptureThread}, Consumers <- Workers,
    ConsumerOps <- {"pop_latest"}, Capacity <- QueueCapacity,
    Policies <- {"DropOldestWhenFull"}, policy <- "DropOldestWhenFull",
    MaxPush <- MaxFrames

pool == INSTANCE ThreadPool WITH
    Workers <- Threads, Clients <- {Owner}, MaxTasks <- InferenceWorkers,
    stop <- poolStop, worker <- thread, running <- runs

CapturePlaces == {"none", "opening", "looping", "reconnecting", "reading",
                  "pushing", "exited"}
WorkerPlaces == {"none", "starting", "looping", "popping", "inferring", "showing",
                 "boxing", "stamping", "alerting", "left"}
ControlPlaces == {"ready", "submitting", "started", "closing", "joiningCapture", "joiningPool",
                  "closingSource", "stopped"}

Tracks == {TrackId[f] : f \in Forklifts}

\* A map from forklift_track_id to time that a last_alert can be.
IsLastAlert(map) == \E T \in SUBSET Tracks : map \in [T -> Int]

\* The map last_alert of a loop that has just begun, and with an entry set.
NoAlerts == [t \in {} |-> 0]
WithEntry(map, t, time) ==
    [u \in DOMAIN map \cup {t} |-> IF u = t THEN time ELSE map[u]]

\* Before the first start() there is no pool: none of its threads is there.
Init ==
    /\ frames!Init
    /\ tasks = <<>> /\ poolStop = "set"
    /\ thread = [p \in Threads |-> "exited"] /\ runs = [p \in Threads |-> 0]
    /\ client = [c \in {Owner} |-> "returned"]
    /\ submitted = 0 /\ early = 0 /\ started = <<>> /\ finished = {}
    /\ running = "down" /\ control = "ready" /\ starts = 0
    /\ source = "closed" /\ capture = "none"
    /\ worker = [w \in Workers |-> "none"]
    /\ frame = [w \in Workers |-> 0]
    /\ hits = [w \in Workers |-> <<>>]
    /\ stamp = [w \in Workers |-> [at |-> 0, wall |-> 0]]
    /\ last = [w \in Workers |-> NoAlerts]
    /\ shown = [picture |-> 0, boxes |-> 0]
    /\ alerts = <<>>
    /\ now = 0 /\ skew = 0

-----------------------------------------------------------------------------
(* The source, an RTSP stream or a file.  open() first drops what is open   *)
(* and may then fail; close() releases it.                                  *)

OpenSource == source' \in {"closed", "open"}
CloseSource == source' = "closed"

-----------------------------------------------------------------------------
(* start() and stop(), called by the owner, one at a time.                  *)

\* A new pool: its threads are on their way to worker_loop, and the pool of
\* an earlier start() is destroyed, whose threads have all been joined.
NewPool ==
    /\ tasks' = <<>> /\ poolStop' = "unset"
    /\ thread' = [p \in Threads |-> "locking"] /\ runs' = [p \in Threads |-> 0]
    /\ client' = [c \in {Owner} |-> "free"]
    /\ submitted' = 0 /\ early' = 0 /\ started' = <<>> /\ finished' = {}

\* The exchange on running_ succeeds; the pool and the capture thread are
\* created.
Start ==
    /\ control \in {"ready", "stopped"} /\ starts < MaxStarts
    /\ running' = "up" /\ control' = "submitting" /\ starts' = starts + 1
    /\ NewPool
    /\ capture' = "opening"
    /\ worker' = [w \in Workers |-> "starting"]
    /\ UNCHANGED <<queueVars, source, frame, hits, stamp, last, shown, alerts,
                   clockVars>>

\* submit() of the next inference_loop, in the steps of the pool.
SubmitLoop ==
    /\ control = "submitting"
    /\ pool!Enqueue(Owner) \/ pool!NotifyOne(Owner)
    /\ UNCHANGED <<queueVars, controlVars, captureVars, workVars, clockVars>>

StartReturns ==
    /\ control = "submitting"
    /\ submitted = InferenceWorkers /\ client[Owner] = "free"
    /\ control' = "started"
    /\ UNCHANGED <<queueVars, poolVars, running, starts, captureVars, workVars,
                   clockVars>>

StartGoesOn == SubmitLoop \/ StartReturns

StopFlag ==
    /\ control = "started"
    /\ running' = "down" /\ control' = "closing"
    /\ UNCHANGED <<queueVars, poolVars, starts, captureVars, workVars, clockVars>>

\* frames_.close(), in the steps of the queue.
StopCloses ==
    /\ control = "closing"
    /\ frames!CloseFlag \/ frames!CloseRest
    /\ control' = IF closing' = "returned" THEN "joiningCapture" ELSE control
    /\ UNCHANGED <<poolVars, running, starts, captureVars, workVars, clockVars>>

StopJoinsCapture ==
    /\ control = "joiningCapture"
    /\ capture = "exited"
    /\ control' = "joiningPool"
    /\ UNCHANGED <<queueVars, poolVars, running, starts, captureVars, workVars,
                   clockVars>>

\* Mutant: the pool is not shut down before the source is closed.
StopSkipsPool ==
    /\ control = "joiningPool"
    /\ control' = "closingSource"
    /\ UNCHANGED <<queueVars, poolVars, running, starts, captureVars, workVars,
                   clockVars>>

\* inference_pool_->shutdown(), in the steps of the pool: its notify_all may
\* come while a thread is between its predicate and its wait.
StopShutsPool ==
    /\ control = "joiningPool"
    /\ pool!Exchange(Owner) \/ pool!NotifyAll(Owner) \/ pool!JoinAll(Owner)
    /\ control' = IF client'[Owner] \in {"returned", "declined"}
                  THEN "closingSource" ELSE control
    /\ UNCHANGED <<queueVars, running, starts, captureVars, workVars, clockVars>>

StopClosesSource ==
    /\ control = "closingSource"
    /\ CloseSource
    /\ control' = "stopped"
    /\ UNCHANGED <<queueVars, poolVars, running, starts, capture, workVars, clockVars>>

StopGoesOn == StopCloses \/ StopJoinsCapture \/ StopShutsPool \/ StopClosesSource

-----------------------------------------------------------------------------
(* capture_loop                                                             *)

CaptureKeeps == UNCHANGED <<poolVars, controlVars, workVars, clockVars>>

\* Before the loop, or after the sleep of a reconnect.
Open ==
    /\ capture \in {"opening", "reconnecting"}
    /\ capture' = "looping"
    /\ OpenSource
    /\ UNCHANGED queueVars /\ CaptureKeeps

\* Mutant: the loop does not look at running_.
CaptureTestBlind ==
    /\ capture = "looping"
    /\ capture' = IF source = "open" THEN "reading" ELSE "reconnecting"
    /\ UNCHANGED <<queueVars, source>> /\ CaptureKeeps

\* The test of running_, and of is_open().
CaptureTest ==
    /\ capture = "looping"
    /\ capture' = IF running = "down" THEN "exited"
                  ELSE IF source = "open" THEN "reading" ELSE "reconnecting"
    /\ UNCHANGED <<queueVars, source>> /\ CaptureKeeps

ReadFrame ==
    /\ capture = "reading" /\ pushed < MaxFrames
    /\ capture' = "pushing"
    /\ UNCHANGED <<queueVars, source>> /\ CaptureKeeps

\* read_frame() comes back empty: close, and reconnect in the next round.
ReadNothing ==
    /\ capture = "reading"
    /\ capture' = "looping"
    /\ CloseSource
    /\ UNCHANGED queueVars /\ CaptureKeeps

PushFrame ==
    /\ capture = "pushing"
    /\ frames!Push(CaptureThread)
    /\ capture' = "looping"
    /\ UNCHANGED source /\ CaptureKeeps

Capture == Open \/ CaptureTest \/ ReadFrame \/ ReadNothing \/ PushFrame

-----------------------------------------------------------------------------
(* inference_loop                                                           *)

Goes(w, place) == worker' = [worker EXCEPT ![w] = place]
WorkKeeps == UNCHANGED <<poolVars, controlVars, captureVars, clockVars>>

\* Thread p of the pool takes the first task and runs it: a loop with an
\* empty last_alert of its own.
RunLoop(p, w) ==
    /\ worker[w] = "starting"
    /\ pool!TakeTask(p) /\ w = Head(tasks)
    /\ Goes(w, "looping")
    /\ last' = [last EXCEPT ![w] = NoAlerts]
    /\ UNCHANGED <<queueVars, frame, hits, stamp, shown, alerts,
                   controlVars, captureVars, clockVars>>

Enter(w) == \E p \in Threads : RunLoop(p, w)

LoopTest(w) ==
    /\ worker[w] = "looping"
    /\ Goes(w, IF running = "up" THEN "popping" ELSE "left")
    /\ UNCHANGED <<queueVars, frame, hits, stamp, last, shown, alerts>> /\ WorkKeeps

GetFrame(w) ==
    /\ worker[w] = "popping"
    /\ frames!PopLatest(w)
    /\ Goes(w, "inferring")
    /\ frame' = [frame EXCEPT ![w] = items[Len(items)]]
    /\ UNCHANGED <<hits, stamp, last, shown, alerts>> /\ WorkKeeps

AwaitFrame(w) ==
    /\ worker[w] = "popping"
    /\ frames!PopWaits(w, "pop_latest")
    /\ UNCHANGED workVars /\ WorkKeeps

\* The queue is closed and drained: the loop returns.
QueueEnded(w) ==
    /\ worker[w] = "popping"
    /\ frames!PopNullopt(w, "pop_latest")
    /\ Goes(w, "left")
    /\ UNCHANGED <<frame, hits, stamp, last, shown, alerts>> /\ WorkKeeps

\* The frame is empty, or infer() returns an error: next frame.
SkipFrame(w) ==
    /\ worker[w] = "inferring"
    /\ Outcomes \cap {"blank", "error"} # {}
    /\ Goes(w, "looping")
    /\ frame' = [frame EXCEPT ![w] = 0]
    /\ UNCHANGED <<queueVars, hits, stamp, last, shown, alerts>> /\ WorkKeeps

\* No call of the loop is inside a try: an exception of infer(), of the
\* encoder in stream_->publish(), of publish_detections(), evaluate() or
\* publisher_->publish() ends the task and goes to a future nobody keeps.
CallThrows(w) ==
    /\ worker[w] \in Throws
    /\ Goes(w, "left")
    /\ frame' = [frame EXCEPT ![w] = 0] /\ hits' = [hits EXCEPT ![w] = <<>>]
    /\ UNCHANGED <<queueVars, stamp, last, shown, alerts>> /\ WorkKeeps

\* infer() returns the detections that evaluate() will turn into hits.
Infer(w) ==
    /\ worker[w] = "inferring"
    /\ "ok" \in Outcomes
    /\ \E h \in HitLists : hits' = [hits EXCEPT ![w] = h]
    /\ Goes(w, IF Viewing = 1 THEN "showing" ELSE "stamping")
    /\ UNCHANGED <<queueVars, frame, stamp, last, shown, alerts>> /\ WorkKeeps

\* Mutant: the boxes are published before the picture.
ShowBoxesFirst(w) ==
    /\ worker[w] = "showing"
    /\ Goes(w, "boxing")
    /\ shown' = [shown EXCEPT !.boxes = frame[w]]
    /\ UNCHANGED <<queueVars, frame, hits, stamp, last, alerts>> /\ WorkKeeps

ShowPicture(w) ==
    /\ worker[w] = "showing"
    /\ Goes(w, "boxing")
    /\ shown' = [shown EXCEPT !.picture = frame[w]]
    /\ UNCHANGED <<queueVars, frame, hits, stamp, last, alerts>> /\ WorkKeeps

ShowBoxes(w) ==
    /\ worker[w] = "boxing"
    /\ Goes(w, "stamping")
    /\ shown' = [shown EXCEPT !.boxes = frame[w]]
    /\ UNCHANGED <<queueVars, frame, hits, stamp, last, alerts>> /\ WorkKeeps

\* frame_ts is read off the wall clock, then the frame is evaluated.
Stamp(w) ==
    /\ worker[w] = "stamping"
    /\ Goes(w, "alerting")
    /\ stamp' = [stamp EXCEPT ![w] = [at |-> now, wall |-> now + skew]]
    /\ UNCHANGED <<queueVars, frame, hits, last, shown, alerts>> /\ WorkKeeps

\* The next alert is within the cooldown of the last one of its track.
InCooldown(w) ==
    LET t == TrackId[Head(hits[w])]
    IN  t \in DOMAIN last[w] /\ stamp[w].wall - last[w][t] < Cooldown

\* Mutant: a suppressed alert restarts the cooldown.
SuppressAndRestart(w) ==
    /\ worker[w] = "alerting" /\ hits[w] # <<>>
    /\ InCooldown(w)
    /\ hits' = [hits EXCEPT ![w] = Tail(hits[w])]
    /\ last' = [last EXCEPT ![w] = WithEntry(@, TrackId[Head(hits[w])], stamp[w].wall)]
    /\ UNCHANGED <<queueVars, worker, frame, stamp, shown, alerts>> /\ WorkKeeps

Suppress(w) ==
    /\ worker[w] = "alerting" /\ hits[w] # <<>>
    /\ InCooldown(w)
    /\ hits' = [hits EXCEPT ![w] = Tail(hits[w])]
    /\ UNCHANGED <<queueVars, worker, frame, stamp, last, shown, alerts>> /\ WorkKeeps

\* Mutant: last_alert is keyed by the forklift, not by forklift_track_id.
PublishByForklift(w) ==
    LET f == Head(hits[w])
    IN  /\ worker[w] = "alerting" /\ hits[w] # <<>>
        /\ ~InCooldown(w)
        /\ last' = [last EXCEPT ![w] = WithEntry(@, f, stamp[w].wall)]
        /\ alerts' = Append(alerts, [forklift |-> f, at |-> stamp[w].at,
                                     frame |-> frame[w], by |-> w])
        /\ hits' = [hits EXCEPT ![w] = Tail(hits[w])]
        /\ UNCHANGED <<queueVars, worker, frame, stamp, shown>> /\ WorkKeeps

\* The time is entered first and publish() called then, whatever it returns.
PublishAlert(w) ==
    LET f == Head(hits[w])
    IN  /\ worker[w] = "alerting" /\ hits[w] # <<>>
        /\ ~InCooldown(w)
        /\ last' = [last EXCEPT ![w] = WithEntry(@, TrackId[f], stamp[w].wall)]
        /\ alerts' = Append(alerts, [forklift |-> f, at |-> stamp[w].at,
                                     frame |-> frame[w], by |-> w])
        /\ hits' = [hits EXCEPT ![w] = Tail(hits[w])]
        /\ UNCHANGED <<queueVars, worker, frame, stamp, shown>> /\ WorkKeeps

FrameDone(w) ==
    /\ worker[w] = "alerting" /\ hits[w] = <<>>
    /\ Goes(w, "looping")
    /\ frame' = [frame EXCEPT ![w] = 0]
    /\ UNCHANGED <<queueVars, hits, stamp, last, shown, alerts>> /\ WorkKeeps

Work(w) ==
    \/ Enter(w) \/ LoopTest(w)
    \/ GetFrame(w) \/ AwaitFrame(w) \/ QueueEnded(w)
    \/ SkipFrame(w) \/ CallThrows(w) \/ Infer(w)
    \/ ShowPicture(w) \/ ShowBoxes(w)
    \/ Stamp(w) \/ Suppress(w) \/ PublishAlert(w) \/ FrameDone(w)

-----------------------------------------------------------------------------
(* The threads of the pool outside of the loops.                            *)

PoolKeeps == UNCHANGED <<queueVars, controlVars, captureVars, workVars, clockVars>>

\* The loop that p runs has returned or thrown: back to worker_loop.
EndLoop(p) ==
    /\ thread[p] = "busy" /\ worker[runs[p]] = "left"
    /\ pool!Finish(p)
    /\ PoolKeeps

\* worker_loop with no task: wait for one, or return if the pool is stopped.
Idle(p) ==
    /\ pool!FindNothing(p) \/ pool!Block(p) \/ pool!Leave(p)
    /\ PoolKeeps

PoolSpuriousWake(p) == pool!SpuriousWake(p) /\ PoolKeeps

\* All that p does by itself outside of a loop.
ThreadStep(p) == (\E w \in Workers : RunLoop(p, w)) \/ EndLoop(p) \/ Idle(p)

-----------------------------------------------------------------------------
(* The environment: time passes, and the wall clock may be set.             *)

Tick ==
    /\ now < MaxTime
    /\ now' = now + 1
    /\ UNCHANGED <<queueVars, poolVars, controlVars, captureVars, workVars, skew>>

SetClock ==
    /\ \E s \in Skews \ {skew} : skew' = s
    /\ UNCHANGED <<queueVars, poolVars, controlVars, captureVars, workVars, now>>

SpuriousWake(w) ==
    /\ frames!SpuriousWake(w)
    /\ UNCHANGED <<poolVars, controlVars, captureVars, workVars, clockVars>>

Next ==
    \/ Start \/ StartGoesOn \/ StopFlag \/ StopGoesOn
    \/ Capture
    \/ \E w \in Workers : Work(w) \/ SpuriousWake(w)
    \/ \E p \in Threads : EndLoop(p) \/ Idle(p) \/ PoolSpuriousWake(p)
    \/ Tick \/ SetClock

Spec == Init /\ [][Next]_vars

(* Every thread that can run is scheduled eventually, and a start() or     *)
(* stop() that began goes on as far as it can: its joins wait for the       *)
(* threads.  A read, an open and an inference come to an end.  Of those     *)
(* that compete for the pool's mutex each gets it eventually.  Nobody has   *)
(* to call start() or stop(), and no spurious wake-up is promised.          *)
Fairness ==
    /\ SF_vars(StartGoesOn)
    /\ WF_vars(StopGoesOn)
    /\ WF_vars(Capture)
    /\ \A w \in Workers : WF_vars(Work(w))
    /\ \A p \in Threads : SF_vars(ThreadStep(p))

FairSpec == Spec /\ Fairness

-----------------------------------------------------------------------------
(* Safety                                                                   *)

TypeOK ==
    /\ frames!TypeOK /\ pool!TypeOK
    /\ running \in {"up", "down"} /\ control \in ControlPlaces /\ starts \in Nat
    /\ source \in {"open", "closed"} /\ capture \in CapturePlaces
    /\ worker \in [Workers -> WorkerPlaces]
    /\ frame \in [Workers -> Nat]
    /\ hits \in [Workers -> Seq(Forklifts)]
    /\ stamp \in [Workers -> [at : Nat, wall : Int]]
    /\ DOMAIN last = Workers /\ \A w \in Workers : IsLastAlert(last[w])
    /\ shown \in [picture : Nat, boxes : Nat]
    /\ alerts \in Seq([forklift : Forklifts, at : Nat, frame : Nat, by : Workers])
    /\ now \in Nat /\ skew \in Int

\* After stop() returned the pipeline is quiet: no thread of it is left, every
\* loop that start() submitted has come to its end, no reconnect has opened
\* the source again, and nobody is inside the queue.
StopQuiesces ==
    control = "stopped" =>
        /\ capture = "exited" /\ \A p \in Threads : thread[p] = "exited"
        /\ \A w \in Workers : worker[w] = "left"
        /\ source = "closed"
        /\ \A t \in Workers \cup {CaptureThread} : call[t] = "none"

\* From start() to stop() the workers are in their loops: an alert is never
\* missed because the thread that should raise it has silently gone.
WorkersServe ==
    running = "up" => \A w \in Workers : worker[w] # "left"

\* A frame is inferred once: no two workers hold the same frame, and each
\* frame handed out is newer than any handed out before.
FrameServedOnce ==
    /\ \A v, w \in Workers : v # w /\ frame[v] # 0 => frame[v] # frame[w]
    /\ \A w \in Workers : frame[w] # 0 =>
          \E i \in 1 .. Len(delivered) : delivered[i] = frame[w]

\* The cooldown: two alerts of the same forklift_track_id are at least
\* alert_cooldown apart.  The loops of a second start() begin without memory.
AlertSpacing ==
    starts <= 1 =>
        \A i, j \in 1 .. Len(alerts) :
            /\ i < j
            /\ TrackId[alerts[i].forklift] = TrackId[alerts[j].forklift]
            => alerts[j].at - alerts[i].at >= Cooldown

\* Worker w passes over an alert without publishing it, and goes on.
Passes(w) == /\ hits'[w] # hits[w] /\ hits[w] # <<>> /\ alerts' = alerts
             /\ worker'[w] # "left"

\* "The first overlapping frame after the window emits a fresh alert": an
\* alert is passed over only if its track had one within the cooldown.  It
\* takes a wall clock that was right when the frame was stamped and never
\* ahead before: after it was set back, the cooldown lasts longer.  What an
\* exception loses is not passed over: see WorkersServe.
SuppressionJustified ==
    [][\A w \in Workers : Passes(w) /\ stamp[w].wall = stamp[w].at =>
          \E i \in 1 .. Len(alerts) :
              /\ TrackId[alerts[i].forklift] = TrackId[Head(hits[w])]
              /\ stamp[w].at - alerts[i].at < Cooldown]_vars

\* With one worker alerts come in the order of their frames, and the live
\* view never goes back: its boxes are those of the picture or one behind.
AlertsFollowFrames ==
    /\ \A i, j \in 1 .. Len(alerts) : i < j => alerts[i].frame <= alerts[j].frame
    /\ shown.boxes <= shown.picture
    /\ Viewing = 1 => \A i \in 1 .. Len(alerts) : alerts[i].frame <= shown.boxes

\* The composed pipeline uses its queue as the queue is specified.
UsesQueue == frames!Spec

\* To its owner the pipeline is a camera service: whatever the workers, the
\* capture thread and a reconnect are doing, nothing reaches the live view or
\* the publisher before start() or after stop() has returned.
Life == CASE control = "ready" -> "idle"
          [] control \in {"submitting", "started"} -> "running"
          [] control = "stopped" -> "stopped"
          [] OTHER -> "stopping"

service == INSTANCE CameraService WITH life <- Life, view <- shown, raised <- Len(alerts)

ImplementsService == service!Spec

-----------------------------------------------------------------------------
(* Liveness                                                                 *)

\* The pool is being joined while one of its threads still goes to sleep or
\* sleeps: it was between its predicate and its wait at the notify_all.
WakeUpMissed ==
    client[Owner] = "joining" /\ \E p \in Threads : thread[p] \in {"deciding", "blocked"}

\* stop() gets to its end unless a thread of the pool missed the wake-up of
\* shutdown(): close() wakes the loops, the capture loop sees running_, and
\* that is the only thing the joins can hang on.
StopReturns == (control = "closing") ~> (control = "stopped" \/ WakeUpMissed)

\* "All threads exit deterministically" after stop(), without that exception.
StopEnds == (control = "closing") ~> (control = "stopped")

\* While the pipeline is up for the first time, a captured frame is inferred
\* or superseded by a newer one: the workers do not fall behind for ever.
\* Exceptions can end them all, and then no worker ever serves a frame; a
\* restart finds frames_ closed.
FramesAreServed ==
    \A k \in 1 .. MaxFrames :
        (running = "up" /\ starts = 1 /\ pushed >= k)
            ~> \/ running = "down" \/ pushed - Len(items) >= k
               \/ \A w \in Workers : worker[w] = "left"
=============================================================================
