# Verification of the forklift safety system

TLA+ specifications of the forklift safety system, the TLC runs that check them
on small instances, and the theorems about them that the TLA+ proof system
checks. The specifications follow the C++ code under `src/`; `PROJECT.json` maps
every definition to the lines it models.

The system reads the pictures of several cameras, finds persons and forklifts in
them, and raises an alert when a person is in the safety zone of a forklift.
What can go wrong in it is mostly concurrency: each camera has a capture
thread, a bounded queue and a pool of inference workers; all cameras share one
alert publisher and one live viewer, each with an I/O thread of its own.

## 1. Inventory

| Component | State | Operations | Talks to |
|---|---|---|---|
| **ConcurrentQueue** (`include/forklift/shared/ConcurrentQueue.h`) | `items_`, `dropped_`, `closed_`, two condition variables | `push` (block or drop oldest), `pop`, `pop_latest`, `close` | the capture thread pushes, workers pop, `stop()` closes |
| **ThreadPool** (`shared/ThreadPool`) | `tasks_`, atomic `stop_`, the workers | `submit`, `shutdown`, `worker_loop` | runs the inference loops of a camera |
| **FrameProcessingPipeline** (`application/`) | `running_`, `frames_`, the threads, `last_alert` of each worker | `start`, `stop`, `capture_loop`, `inference_loop` | video source, engine, risk service, viewer, publisher |
| **RiskDetectionService, SafetyZoneService, BoundingBox** (`application/`, `domain/`) | none between frames | `evaluate`, `zones_for`, `expanded`, `intersects` | called by the workers of every camera |
| **WebSocketAlertPublisher** (`infrastructure/transport/`) | `queue`, posted handlers, `sessions` with `pending_`, `writing_`, `ready_` | `start`, `stop`, `publish`, accept, handshake, drain, write | workers publish, browsers connect |
| **MjpegStreamServer** (`infrastructure/transport/`) | newest JPEG and detections per camera, timers of the sessions | `publish`, `publish_detections`, stream and event sessions, `start`, `stop` | workers publish, browsers connect |
| **Dashboard** (`web/app.js`) | four camera slots, alert list, connections | discovery, reconnection, drawing | both servers |
| **main** (`interface/main.cpp`) | all of the above | start-up, wait for a signal, shutdown | everything |
| **YoloV8Postprocessor** (`infrastructure/ai/`) | none | threshold, scaling, suppression of overlapping boxes, limit | the engine |
| **Inference engines**, **video sources** | library handles | `initialize`, `infer`; `open`, `read_frame`, `close` | ONNX Runtime, OpenCV |
| **Configuration loader**, **Logger**, **OverlayFrameAnnotator** | configuration, output stream, none | load, log, draw | |

Interactions: a call from thread to thread goes through shared memory under a
mutex (queue, pool, publisher queue, viewer state) or through an I/O context
(`net::post`); the workers call the viewer, the risk service and the publisher
synchronously, in that order, for each frame.

What is hard in each, and what makes it correct:

* *Queue*: wake-ups with `notify_one`, `pop_latest` freeing several slots at
  once, `close` notifying without the lock. Every element is returned once,
  dropped and counted, or queued; order is kept; no thread sleeps beside work.
* *Pool*: notifications outside of the lock, draining at shutdown. A task runs
  on one worker; what was submitted before shutdown is done when it returns.
* *Pipeline*: `stop()` against threads that are blocked, reconnecting or
  inferring; the cooldown against several workers, a wall clock that is set and
  missing track ids; exceptions. After `stop()` everything is quiet; alerts of a
  track are a cooldown apart and none is suppressed without cause.
* *Risk detection*: comparisons at box edges, clamping at the image edge, empty
  boxes. Everybody within the padded box is alerted about.
* *Publisher*: publishers, drains and writes in any order, connections between
  accept and handshake, `stop()` racing all of it. Each ready client gets the
  alerts in order and without gaps; the queue keeps the newest.
* *Viewer*: pictures and detections are replaced while timers read them; a
  stream must go on until its socket fails and must not go back in time.
* *Dashboard*: reconnects and late cameras; the list of alerts is bounded.
* *main*: early returns after some pipelines have started; the shutdown order.

`PROJECT.json` lists the hazards line by line with the properties about them.

## 2. Modules

| Module | Models | Used by |
|---|---|---|
| `LossyChannel` | abstract: a bounded channel that delivers in order and may lose only from the old end | refined by `ConcurrentQueue` |
| `ConcurrentQueue` | the queue, one action per critical section | instantiated by `FrameProcessingPipeline` |
| `ThreadPool` | the pool, with the window inside `cv_.wait` | instantiated by `FrameProcessingPipeline` |
| `CameraService` | abstract: what the owner of a pipeline relies on | refined by `FrameProcessingPipeline`, instantiated by `ForkliftSystem` |
| `FrameProcessingPipeline` | one camera: owner, capture thread, loops, clock, composed with the queue and the pool | |
| `ForkliftSystem` | `main()`, the configuration it acts on, one `CameraService` per camera, the servers' life, systemd | |
| `YoloV8Postprocessor` | from the output tensor to detections | `Perception` |
| `RiskDetection` | the pure decision per frame against a reference by pixels | `Perception` |
| `Perception` | composes the two: a frame from the tensor to the alerts | |
| `WebSocketAlertPublisher` | the publisher's queue, I/O thread and sessions | |
| `LiveView` | the viewer's store of the newest pictures and boxes, its I/O thread and sessions, and the workers that replace what is stored | |
| `Dashboard` | the page in a browser, beside the process it shows, which may be restarted | |
| `MC*` | model values, instances and scenes for TLC | the runs |
| `*Proofs` | the theorems of a module | |

The comment at the top of a module says what its state stands for. Operators
under a comment `Mutant:` are plausible faults of the definition that follows
them (a dropped notification, a forgotten test, a swapped order). They are not
part of any specification; put in the place of the definition, they make the
property named in `PROJECT.json` fail, which shows that the property depends on
the code.

### ConcurrentQueue

A condition variable is the set of the threads blocked on it. `wait` tests and
blocks in one step, because the mutex is released and the thread is blocked
atomically and because every writer of the predicate holds the mutex. That is
different in `ThreadPool`. `close` is three steps, since it
notifies after it has released the mutex. `RunsPush` bounds new calls by
`MaxPush`; an element is its rank among the accepted ones, so order, loss and
duplication can be read off the numbers. Spurious wake-ups are actions.
Capacity 0 is not modelled (with drop-oldest it is undefined behaviour).

### ThreadPool

`shutdown()` sets the atomic `stop_` and notifies without the mutex. So the test of
the wait predicate and the blocking are two steps (`FindNothing`, `Block`), with
the mutex held in between: `submit` cannot come in between, `shutdown` can.
`submit` notifies in a step of its own. A task is its rank of submission.

### FrameProcessingPipeline

Actions of the capture thread and of a worker are joined to the actions of the
queue instance `frames`, so that blocking, waking and closing are the queue's.
`control` follows the statements of `start()` and `stop()`. The instance `pool` is
`inference_pool_`: its one client is the thread in `start()` or `stop()`, its tasks
are the loops, and its threads (`thread`) are something else than the loops (`worker`):
a thread takes a loop, runs it to its end, and is back in `worker_loop`, between
predicate and wait perhaps, when `shutdown()` notifies. So `stop()` may hang here as
it does in the code (see 4). `Start` makes a new pool, as the code does. A frame is its rank; what it
shows is chosen from `HitLists` when it is inferred. No call of `inference_loop` is
inside a `try`; `Throws` says which of them may throw (`CallThrows`): `infer`, the
encoder behind `stream_->publish`, `publish_detections`, `evaluate`, `publish`. `stamp` keeps the true time beside
the wall-clock time the code takes, so that properties can speak about true
time. The source opens or not and reads a frame or nothing, freely; sleeping
between reconnects, the pacing and the rewinding of a file and the logging of lag
are left out. After an alert is
published the code does not look at the result, so `publish` has no failure
here.

To its owner the pipeline implements `CameraService`: `Life` is read off `control`,
the view off `shown` and the alerts off the length of the history.

### CameraService and ForkliftSystem

`CameraService` has the life of a pipeline and the two things it does to others while
it lives; a pipeline calls its sinks from `start()` until `stop()` has returned, and
never else. `ForkliftSystem` runs one such service per camera under `main()`: each
statement of `main()` that starts or stops something is an action, `at` is the
loop variable, and every early return goes to `unwinding`, where the destructors
stop the pipelines, the viewer and the publisher. A `stop()` of a pipeline with workers
may get stuck in the join of its pool (`JoinMisses`, `stuck`): then `main()` goes on only
if the standard library wakes that thread for no reason, or never. After a stop signal
systemd kills the process in the end (`Kill`; `TimeoutStopSec` is not in the unit file and has a
default); without one nobody does. They stop things in the order of the statements
after the wait, so both share their actions. A worker may call its sinks at any moment
its service is alive; a call of a server that is not running is recorded in `lost`.

A configuration file is the record of the entries that decide what happens, each
possibly `Absent`, which `Load` replaces by the loader's default. Files never change,
so `file` is a constant of the behaviour. Failures are those of `bind`, of `initialize`
and crashes, each bounded by `MaxFaults`; before the handlers are installed a signal
kills the process. systemd restarts it unless it returned 0 or was asked to stop.
The unit file puts `StartLimitIntervalSec` under `[Service]`, where a current systemd
ignores it and uses its default interval; the model counts all starts towards the limit,
which is stricter than either reading.

### YoloV8Postprocessor and Perception

An anchor has a box in pixels of the model's input and a score in percent for each class.
`Decode` finds the corner, scales, and truncates towards zero as the casts do; negative corners stay negative, as in the code. `cv::dnn::NMSBoxes` is external
and modelled from its documentation, ties by position. Nothing attaches a tracker, so
every `track_id` is -1. `Perception` evaluates what `infer` returns, and is an
instance of `RiskDetection` whose scenes are the images of outputs.

### RiskDetection

Boxes have whole coordinates, as the postprocessor truncates them. Pads and zones have
not: they are counted in fractions of a pixel, of which `Unit` make one, so a pad of half
a pixel stays half a pixel (`Fine`, `padX`). They are exact where the code rounds to
`float`, which differs by less than a thousandth of a pixel. `evaluate`
is set comprehension over pairs; `AtRisk` is a different definition of the same
thing, by points of that grid. `alertId` is the part of the id that differs within a frame.

### WebSocketAlertPublisher

Handlers of the I/O thread run one at a time, so each is one action. `Drain`
swaps the queue out and sends to all ready sessions; only the swap touches
what other threads see. `running` is a plain `bool` that `stop()` writes and the
accept handler reads: the model lets the handler read either value. Every
`async_write` may end well or with an error. A session that lost its client and
has nothing to write stays, as in the code, which never reads.

### LiveView

`store` and `store_dets` each hold one mutex once, and a handler of the I/O
thread enters one critical section at most, so each is one action. A picture
and its boxes are the rank of their frame; what a session holds in `out_` is
the set of what it shows of each camera. A worker publishes a picture and then
its boxes, and other workers and handlers come in between: a client may see a
picture and boxes of different frames, which the code accepts. `Fresh` is the
test of both timers: a stream compares the picture itself, an event session
compares counters. An exception of the encoder, which ends a worker, is modelled in
`FrameProcessingPipeline`; here a worker may stop publishing at any moment. `got` is a history variable, what the last write brought.

### Dashboard

A JavaScript callback is one action. The process is modelled by what `LiveView` and
`WebSocketAlertPublisher` show of it: `order` only grows until a restart empties it
(`PlacesKept`), and an open connection gets alerts in order (`StreamComplete`). A
poll is answered at one time and used at another, so that the two lists can
overtake each other. A WebSocket that is lost hands over some of what it
still holds, then calls `onclose`, with or without `onerror` before it. A
JavaScript object that is not used any more is used again (`Free`).

`lastData`, `drawing` and `canvas` name the camera whose boxes a slot has kept, is due to
draw in the next animation frame, and shows. `onmessage` only sets the first two; the draw
(`AnimationFrame`) comes later and with the data of then, so the slot may be another
camera's by that time. `assignCamera` clears `lastData` and neither of the others. A
toggle draws `lastData` again. What a drawing looks like and the frame rate are left out.

## 3. Runs

Sizes are distinct states. Deadlock is not checked where the callers may stop
calling and the system then rests.

| Run | Instance | Shows |
|---|---|---|
| `queue_live` | both policies, capacity 2, 2 producers, 3 consumers mixing `pop` and `pop_latest`, 5 pushes, fair; 88 500 | accounting, no stranded consumer, the newest element for `pop_latest`, `nullopt` is final, refinement of `LossyChannel`, blocked pushes return, `close` releases all |
| `pool_live` | 2 workers, 2 clients, 3 tasks, fair; 4 500 | one worker per task, no stranded task, draining, `notify_all` misses one worker at most, early tasks end, `shutdown` returns unless it hit the window |
| `pipeline_one` | 1 worker, the live view, queue 2, cooldown 2, 3 frames, 3 ticks, 2 starts, a clock set back once, errors and exceptions of every call; 5 130 000 | alert spacing, justified suppression, order of alerts and view, refinement of `CameraService` |
| `pipeline_live` | 2 workers in a pool of 2 threads, queue 1, 2 frames, blank frames and exceptions, 1 start, fair; 76 000 | quiet after `stop()`, `stop()` returns unless a thread missed `notify_all`, frames are served |
| `pipeline_stop_hangs` | 1 worker, 1 frame, nothing fails, fair | **violated**: `stop()` returns |
| `pipeline_two_workers` | 2 workers | **violated**: alert spacing |
| `pipeline_throw` | 1 worker, exceptions of `infer()` | **violated**: workers serve while the camera runs |
| `perception` | 1400 outputs: a forklift with whole or half-pixel pads and a person on, over and away from the edges, and four anchors that overlap, tie or have no class | nobody overlooked, no false alarm inside, detections are kept and dropped for cause |
| `publisher_live` | 2 publishers, 2 connections, queue 2, 4 alerts, fair; 145 000 | complete and ordered streams, newest kept, no stranded alert, delivery |
| `view_live` | 2 cameras with one worker each, 1 connection that makes any request, 2 frames per camera, fair; 205 000 | no update masked by an equal counter, places of cameras, no step back in time, the newest is shown |
| `dashboard_live` | 2 cameras, 2 slots, 2 alerts, a WebSocket to spare, one loss and one restart, fair; 1 184 000 | types, slots agree with the viewer and draw their own camera's boxes, alerts are shown once and in order, the page reconnects |
| `system_live` | 6 configuration files with up to 3 cameras, 3 faults, start limit 5, 1 alert per camera and process, stuck joins, fair; 15 900 | no call of a stopped server, clean exits, and, unless a join is stuck, a handled signal ends the process and the service recovers from failures |

Why the bounds are enough. *Queue*: with capacity 2 and 5 pushes it is full,
dropped from, emptied and refilled; three consumers are the least number
where one is blocked, one is awake and one arrives. *Pool*: three tasks on two workers
are queued behind busy workers, and two clients race. *Pipeline*: three frames and three
ticks with cooldown 2 give an alert, a suppressed one and a fresh one, each with a
second alert in the same frame; the queue overflows with the second
push when it holds one frame. `Skews = {-2}` sets the clock back by a whole cooldown.
*Perception*: a person on both sides of each zone edge, as near as half a pixel, boxes that start outside
of the image, widths that truncate to zero; scores below, at and above the threshold, a
limit of three with four anchors, a box that overlaps a suppressed one only. *Publisher*: queue size 2 overflows with the third
alert and a fourth comes after it; two sessions differ in state.
*Viewer*: one session is enough, since sessions share only the store and
only read it; two frames let a picture be replaced, skipped, or stored while the last
one is being written. *Dashboard*: two cameras in two slots are the least
where places can be mixed up, and a restart can swap them; two alerts can be shown twice or in
the wrong order (that more do not overflow the list is a theorem, `AlertsShownOnce`); the spare
WebSocket is there for a page that would open two. *System*: three cameras have one before and one after the
one whose engine fails; three faults stay below the start limit, so that a failed start,
a crash and another failure come in a row. `pipeline_live` runs without the live view and with one
start, which would triple it: `pipeline_one` has both, and the theorems `StopLeavesQuiet` and
`ServiceImplemented` are about any number of workers and starts. Two threads are one that misses the
notification and one that does not.

What the properties do not claim: `AlertSpacing` is about the first start, and `AlertSpacing` and
`AlertsFollowFrames` need one worker (what holds of several is proved: `AlertsSpacedByWorker`, `AlertBurstsBounded`,
`WorkerAlertsInFrameOrder`, see 5); `SuppressionJustified` speaks of frames stamped while the clock is
right, since a clock that was set back prolongs the cooldown by as much (and a
clock set forward shortens it); `NoFalseAlarmInside` leaves out boxes that reach
over the left or upper edge, where `expanded` moves the origin to 0 and keeps the
width, so the zone reaches too far on the other side; `FramesAreServed` is about
the first start, because `frames_` stays closed after a stop, and about
cameras that have a worker left;
`StopReturns` excepts a thread of the pool that missed the notification, which is the hang of
`pipeline_stop_hangs`, and `ShutdownCompletes` and `Recovers` except a `main()` that is stuck
there: they say that nothing else can keep it;
`LatestIsNewest` is about a call that waited; `StreamComplete` and `NewestKept` hold wherever `stop()` of the
publisher comes, but speak of what was drained, so they do not observe whether its last 100 ms
sufficed;
`NeverBack` and `ViewCatchesUp` need one worker per camera, as two may store their
frames in the other order; `SlotsConsistent` compares slots with the viewer's
list until a restart, after which the process may find its cameras in another order: then a
slot may get another camera and show, or draw once more, the former one's boxes, and the property
speaks again from the first message of its own camera; cameras beyond the last slot (`slice`) are not shown; `KeptForCause` compares
with the documented `NMSBoxes`, not with OpenCV's code; `Recovers` needs a usable
configuration and fewer failures than the start limit; `NothingLost` is about servers that
were stopped, not about alerts that a client misses.

Fairness. Threads that can run are scheduled eventually, as an operating system
does: weak fairness per thread. In `ThreadPool` the workers compete for a mutex that
another one may hold whenever they try, so they get strong fairness: each gets the
mutex eventually; so do the pool's threads in the pipeline, and `start()`, which submits to it. Calls of a library that the code waits for end
(an inference, a read, an `async_write`, which Beast times out). Nobody has to
push, submit, connect, start or stop; but a `stop()`, `close()` or
`shutdown()` that began goes on. No spurious wake-up is ever relied on.
In `ForkliftSystem` `main()` goes on unless it is stuck in the join of a pool; a pipeline's
`stop()` returns otherwise, which is `StopReturns`. Nothing is assumed about `Kill`. systemd restarts what failed.
The client of a live stream takes what is written or goes away: that is an
assumption on browsers, as the server gives streams no time limit
(`expires_never`). The browser runs timers, tells the page when a connection
is lost, and connects to a process that runs; `Reconnects` is about a
process that runs for good, and connections are lost `MaxLosses` times in it. Nothing
makes the page notice a network that fails silently.

## 4. Disagreements found

* `ThreadPool::shutdown` (`ThreadPool.cpp:16`) can lose its wake-up: a worker
  between the predicate and the wait sleeps for ever, and so does the join.
  `CaughtAllReturns` shows that this window is
  the only cause. However many workers there are, it catches one of them at most
  (`OneMissedAtMost`), and nobody after `notify_all` (`AwakeStayAwake`).
* The pipeline does meet that window (`pipeline_stop_hangs`): `frames_.close()` ends the loops, and
  their threads return to `worker_loop` as `stop()` reaches `shutdown()`
  (`FrameProcessingPipeline.cpp:52`). Then `stop()` hangs, contrary to `threading.md:44`, and
  `main()` with it. After a signal the process stays until it is killed; `README.md:392` of the
  repository has an entry "Process never exits on Ctrl-C", for which it suggests another cause. When a later camera's engine fails
  (`main.cpp:112`), the destructors may hang likewise, and systemd, which sees no failure, restarts nothing.
* `last_alert` is local to a worker's loop (`FrameProcessingPipeline.cpp:79`): with
  more than one worker the cooldown of `pipeline.md:52` does not hold. What does is proved
  (`AlertBurstsBounded`): in less than a cooldown, not more alerts of a track than workers.
* The workers of a camera share one engine (`main.cpp:116`), which
  `OnnxInferenceEngine.h:23` documents as not thread-safe. This is read from those two
  lines; no run is spent on it.
* An exception of `infer()` ends a worker for good
  (`FrameProcessingPipeline.cpp:101`); `pipeline.md:76` says the next frame proceeds. So does one of
  any other call of the loop, as of `cv::imencode` (`MjpegStreamServer.cpp:443`) behind
  `stream_->publish`, which the comment at `FrameProcessingPipeline.cpp:109` calls best-effort.
  Nothing but an exception ends a worker while the camera runs (`WorkersServeUnlessThrown`).
* No code assigns track ids (`YoloV8Postprocessor.cpp:66`), so all forklifts of a
  camera share one cooldown, while `README.md:40` of the repository says
  "per-(camera, forklift)". This, too, is plain from the line; no run is spent on it.
* The loader takes `workers: 0` and `queue_capacity: 0` (`YamlConfigLoader.cpp:128`,
  `YamlConfigLoader.cpp:130`). The first makes a camera that is captured and never looked at; the
  second makes `push` call `pop_front` on an empty deque.
* `OnnxInferenceEngine.cpp:83` says that classes which are not mapped are dropped. They become
  `kUnknown` detections (`YoloV8Postprocessor`, `ClassOf`), which can suppress a person's box and
  use up `max_detections`.
* `loop: false` of a video file has no lasting effect: at its end `read_frame` returns nothing, and
  `capture_loop` closes the source and opens it again, from the start
  (`FrameProcessingPipeline.cpp:62`).
* `pipeline.md:75` promises a reconnect with exponential backoff; the code sleeps 500 ms each time
  (`FrameProcessingPipeline.cpp:63`).
* Two cameras without an `id` are both called `cam`, and share a place in the live view.
* `assignCamera` (`app.js:139`-`161`) does not clear the canvas, and a `drawFrame` that is due
  (`app.js:114`) comes with the data of the camera before. A slot that gets another camera, as it may
  after a restart, shows the former one's boxes over the new picture until the first boxes of its
  own camera are drawn. No doc speaks of it; no run is spent on it.
* The page asks for the list of cameras twice (`app.js:31`, `app.js:33`) and never again:
  a camera whose first picture comes later is not shown, although `app.js:32` says
  "Re-poll so late-starting cameras are picked up", and a second request that
  fails is not made again, although `app.js:132` says "timeout will retry".

## 5. Proofs

All theorems hold for any number of threads, sessions and cameras, any capacity, cooldown,
pads, scenes and configuration files; the assumptions are the named `ASSUME`s of the
modules, and those a theorem states itself.

* `ConcurrentQueueProofs`: types, `InOrder`, `Conservation`, `NoStrandedConsumer`,
  `NulloptIsFinal`, `LatestIsNewest` (`LatestIsGiven`), and that the queue implements `LossyChannel`. `InOrder` is
  not inductive; it is strengthened by `Contiguous` (what is queued is the
  unbroken newest part of what was accepted, what was delivered is older).
  `NoStrandedConsumer` counts: with `notify_one` a blocked consumer becomes an awake
  one, so the awake ones cover the queued elements. `NulloptIsFinal` needs that whoever was
  told has found the queue closed, which is never undone. `CloseWakesEveryone`: after `close()`
  nobody is blocked, although it notifies without the mutex, since nobody blocks on a closed queue.
* `ThreadPoolProofs`: types, `StartedInOrder`, `OneWorkerPerTask`,
  `NoStrandedTask`, `ShutdownDrains`. The invariant joins the order of tasks, the
  places of the workers and that nobody leaves while early tasks are queued. About the lost
  wake-up: one worker at a time holds the mutex, so one at a time is in the window
  (`MutexExclusive`), and who tests the predicate after `stop_` is set does not block; hence
  `OneMissedAtMost` and `AwakeStayAwake`.
* `FrameProcessingPipelineProofs`: every step of the pipeline is a step of the
  queue or leaves it alone (`PipelineUsesQueue`), so theorems of the queue carry over
  (`FramesDeliveredInOrder`); every step is one of the pool, leaves it alone, or is `Start`,
  which makes a new one (`PipelineUsesPool`), so those of the pool do in every start
  (`OneThreadMissed`); types. `LoopsRunOnce` relates threads and loops: a loop under way is
  one thread's. From an invariant that relates the place of
  `stop()` to the places of the threads follow `StopLeavesQuiet` and `ServiceImplemented`, that
  the pipeline is a `CameraService`. `FramesServedOnce` uses `Contiguous`: the
  frame taken is the newest accepted one. The rest is about alerts:
  * `AlertsSpacedByWorker`, for any number of workers and a wall clock that is set at any time:
    the alerts of a track that one worker raises are a cooldown apart, less the F by which the
    clock was moved forward (`ForwardAtMost`). The invariant says that the worker's map covers every alert it
    raised, and that the wall clock never was, nor will be, more than F ahead of what it was when the
    entry was made (`Remembered`, `ClockBounded`). `AlertsSpaced` is the case of one worker and F = 0,
    `AlertBurstsBounded` what follows for a camera: alerts that are closer to each other than that are of
    different workers, so there are no more of them than workers. All three are about the first
    start, as a loop that is started again has an empty map.
  * `AlertsInFrameOrder`, for one worker. What is shown or alerted about is not
    newer than the frame in hand, and that not newer than what has left the queue (`Settled`).
    `WorkerAlertsInFrameOrder` is the same about the alerts of each of several workers.
  * `SuppressedForCause`, for any number of workers and a clock that is never ahead. Every
    entry of a `last_alert` was made for an alert and is not later than it (`Founded`).
  * `WorkersServeUnlessThrown`: between the first start and its stop a worker leaves only by an
    exception of its own, whichever call throws it.

  `JoinsNotBlocked`, that no join of `stop()` meets a thread blocked on `frames_`, joins
  `CloseWakesEveryone` with the order of the statements of `stop()`: `running_` is down
  before `frames_` is closed, and both are before the first join.
* `PerceptionProofs`: `NobodyOverlooked` and `NoFalseAlarmInside` for every padding
  policy and scene, from lemmas on `expanded` and `intersects` in integer arithmetic, on boxes
  and pads in any fractions of a pixel (`FineTyped`).
  `PerceptionImplementsDetection` carries both over to what the model puts out
  (`DetectedRiskIsAlerted`). `DetectionsAreKeptForCause` is about `NMSBoxes`, a recursive function on the
  anchors by rank. It is defined by what it does at each rank (`LooksExist`), and what it keeps
  is shown by induction over sets of ranks (`SetInduction`: a set of numbers without a
  least one is empty), which needs no operator as a parameter: what is kept up to a rank is
  in order and clashes with nothing kept, and whatever was passed over clashes with something kept (`KeptOf`).
* `WebSocketAlertPublisherProofs`: types, `NoStrandedAlert`, `NewestKept` and
  `StreamComplete`. The last is strengthened by `StreamOf`: a session that is not
  ready holds no payload, and before its handshake is done it has sent none, so
  that its stream starts at the end of what was drained. An alert is a number
  from 1 and 0 stands for "nothing is written", which the types keep apart. `ClientsSentInOrder`
  adds the sessions that broke: what they were sent is a beginning of that stream.
* `LiveViewProofs`: types, `NoUpdateMasked`, `PlacesKept` and, for one worker per
  camera (`OneWorker`), `NeverBack`. For the first, the invariant relates the
  counters: the common one is not behind one of a camera, no session is
  ahead of the store, and a counter at 0 means that there is nothing. For the last it orders
  the frames of a camera: a client's, a session's, the store's, the worker's.
* `DashboardProofs`: types, `SlotsConsistent` (every answer on its way is the beginning of
  the viewer's list, and until a restart nothing is assigned twice, so that a slot's data, its due
  drawing and its canvas can only be of its own camera) and `AlertsOnce`. The last rests on `OneConnection`, that one
  WebSocket is in use or one reconnection is due, never both, and on `Stream`, that what it still
  holds is in order and newer than what is shown.
* `ForkliftSystemProofs`: types, `NothingLost` and `CleanExit`. Their invariant `LifeInv` says
  which cameras live at each statement of `main()` (`StartsInOrder`, `StopsInOrder`) and that the
  servers are up as long as one does (`ServersUp`); `SignalsCount` says that 0 is
  returned only on the path behind the wait. `CamerasStartOnce` joins it to the pipeline:
  between two restarts of the process each camera takes steps of `CameraService` and is not started
  after it was stopped. So the condition `starts <= 1` of the theorems about alerts holds
  for the program as `main()` runs it.

Only model-checked: the liveness properties, since the prover does not do liveness
under fairness. What they rest on besides fairness is proved where it is a matter of
safety: `NoStrandedConsumer` and `CloseWakesEveryone` of the queue, `NoStrandedTask` and
`AwakeStayAwake` of the pool, `JoinsNotBlocked` of the pipeline, `NoStrandedAlert` of the
publisher, `NoUpdateMasked` of the viewer. Every other invariant and action property of a run is a theorem;
TLC checks types in some of the runs only, where the theorems above cover them all.

## 6. Not modelled

* What a picture shows: resizing, tensors and the network are numbers in libraries. The
  models start at the output tensor.
* The pacing and the rewinding of `VideoFileSource` change only when a frame comes; the
  pipeline may read a frame or nothing at any time.
* The entries of the configuration that are handed through (addresses, names, sizes,
  thresholds) are constants of the models.
* The pool inside of `ForkliftSystem`: there a `stop()` returns or gets stuck, freely, for any camera
  that has workers. What decides it is in `FrameProcessingPipeline`.
* The logger and the annotator (which the program does not instantiate) affect nothing
  else. `BoundingBox::iou` and `SafetyZone::contains_point` are called by tests only. The TensorRT
  adapter is a stub. The stubs for builds without Boost.Beast have no concurrency.
* The network between server and browser is modelled as connections that are lost,
  not as packets.

## 7. Plan

What is left, by what it would add:

1. `AlertsSpacedByWorker` over several starts, which needs the start an alert belongs to in
   its history. `main()` starts a camera once.
