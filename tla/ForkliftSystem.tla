--------------------------- MODULE ForkliftSystem ---------------------------
(***************************************************************************)
(* main(), the composition root: it loads the configuration, starts the    *)
(* alert publisher, the viewer and one pipeline per camera, waits for a    *)
(* signal and stops them in order; on an early return the destructors do.  *)
(* systemd runs the process and restarts it when it fails.  A pipeline is  *)
(* a CameraService, which FrameProcessingPipeline implements.              *)
(*                                                                         *)
(* A configuration file is a record of the entries that matter here, each  *)
(* with its value or Absent.  The memory of the process is gone once main  *)
(* is in one of the places of Dead.                                        *)
(*                                                                         *)
(* stop() of a pipeline shuts its ThreadPool down, whose join may hang     *)
(* (run pipeline_stop_hangs): main() is then stuck.                        *)
(***************************************************************************)
EXTENDS Integers, Sequences, FiniteSets

CONSTANTS Absent,          \* an entry the file does not have
          Files,           \* the configuration files considered
          StartLimitBurst, \* starts systemd allows before it gives up
          MaxAlerts,       \* bound: alerts of one camera and process
          MaxFaults        \* bound: crashes, and failures of bind and initialize

CameraEntries == [enable_viewer : BOOLEAN \cup {Absent}, workers : Nat \cup {Absent}]
FileRecords == [readable : BOOLEAN,
                backend : {"onnxruntime", "tensorrt", "trt", Absent},
                viewer : BOOLEAN \cup {Absent},
                cameras : Seq(CameraEntries)]

ASSUME AbsentAssumption == Absent \notin BOOLEAN \cup Nat
ASSUME FilesAssumption == Files \subseteq FileRecords
ASSUME BoundsAssumption == StartLimitBurst \in Nat /\ MaxAlerts \in Nat /\ MaxFaults \in Nat

VARIABLES
    file,      \* the configuration file, which no one edits
    main,      \* where main() is, or how the process ended
    at,        \* the camera (then the server) the current loop of main() is at
    code,      \* the value main() returns
    gStop,     \* g_stop; after a crash, that systemd has been asked to stop
    publisher, \* "up" while the publisher's running is true
    viewer,    \* the same of the viewer, "none" while viewer is null
    life, view, raised, \* of each camera: its CameraService
    wired,     \* of each camera: whether it was given the viewer
    stuck,     \* main() joins a worker that missed the wake-up of shutdown()
    lost,      \* history: cameras that called a server which was not running
    starts,    \* starts of the process that systemd has counted
    faults     \* number of faults so far

processVars == <<main, at, code, gStop, starts, faults>>
serverVars == <<publisher, viewer>>
cameraVars == <<life, view, raised, wired, stuck, lost>>
vars == <<file, processVars, serverVars, cameraVars>>

-----------------------------------------------------------------------------
(* load_from_yaml                                                           *)

GetOr(entry, fallback) == IF entry = Absent THEN fallback ELSE entry

ParseBackend(name) ==
    IF name \in {"tensorrt", "trt"} THEN "kTensorRT" ELSE "kOnnxRuntime"

\* The parts of SystemConfig that main() acts on.
Load(f) ==
    [backend |-> ParseBackend(GetOr(f.backend, "onnxruntime")),
     viewer  |-> GetOr(f.viewer, FALSE),
     cameras |-> [i \in DOMAIN f.cameras |->
                    [enable_viewer |-> GetOr(f.cameras[i].enable_viewer, FALSE),
                     workers |-> GetOr(f.cameras[i].workers, 1)]]]

cfg == Load(file)
Cameras == DOMAIN file.cameras
LastCamera == Len(file.cameras)

\* make_inference_engine() of a build with ONNX Runtime; TensorRT is a stub.
Available(backend) == backend = "kOnnxRuntime"

-----------------------------------------------------------------------------

service(c) == INSTANCE CameraService WITH
    life <- life[c], view <- view[c], raised <- raised[c]

MainPlaces == {"loading", "publisher", "viewer", "cameras", "waiting", "stopping",
               "unwinding"}
Dead == {"exited", "killed", "crashed"}

\* Of every camera the same.
Each(value) == [c \in Cameras |-> value]

Init ==
    /\ file \in Files
    /\ main = "loading" /\ at = 0 /\ code = 0 /\ gStop = FALSE
    /\ publisher = "down" /\ viewer = "none"
    /\ life = Each("idle") /\ view = Each(0) /\ raised = Each(0)
    /\ wired = Each(FALSE) /\ stuck = FALSE /\ lost = {}
    /\ starts = 1 /\ faults = 0

\* main() returns value: its locals are destroyed, first the pipelines.
Returns(value) == main' = "unwinding" /\ at' = 1 /\ code' = value

\* Something that can go wrong goes wrong once more.
Fault == faults < MaxFaults /\ faults' = faults + 1

\* initialize() of the ONNX engine reports an error if the runtime throws
\* for the model; a CUDA device that is not there only means the CPU.
InitializeFails == Fault

-----------------------------------------------------------------------------
(* Start-up                                                                 *)

LoadConfig ==
    /\ main = "loading"
    /\ IF file.readable /\ LastCamera > 0
       THEN main' = "publisher" /\ UNCHANGED <<at, code>>
       ELSE Returns(1)
    /\ UNCHANGED <<file, gStop, starts, faults, serverVars, cameraVars>>

StartPublisher ==
    /\ main = "publisher"
    /\ \/ publisher' = "up" /\ main' = "viewer" /\ UNCHANGED <<at, code, faults>>
       \/ Fault /\ Returns(1) /\ UNCHANGED publisher
    /\ UNCHANGED <<file, gStop, starts, viewer, cameraVars>>

\* The viewer is optional: when it cannot be started it is dropped.
StartViewer ==
    /\ main = "viewer"
    /\ main' = "cameras" /\ at' = 1
    /\ viewer' \in IF cfg.viewer THEN {"up", "none"} ELSE {"none"}
    /\ UNCHANGED <<file, code, gStop, starts, faults, publisher, cameraVars>>

\* Mutant: a failed engine ends main() without its destructors.
EngineFailsAtOnce ==
    /\ main = "cameras" /\ at <= LastCamera
    /\ IF Available(cfg.backend) THEN InitializeFails ELSE UNCHANGED faults
    /\ main' = "exited" /\ code' = 2
    /\ UNCHANGED <<file, at, gStop, starts, serverVars, cameraVars>>

\* make_engine() returns null, or initialize() an error.  The pipelines of
\* the cameras before this one are running.
EngineFails ==
    /\ main = "cameras" /\ at <= LastCamera
    /\ IF Available(cfg.backend) THEN InitializeFails ELSE UNCHANGED faults
    /\ Returns(2)
    /\ UNCHANGED <<file, gStop, starts, serverVars, cameraVars>>

StartCamera(c) ==
    /\ main = "cameras" /\ at = c
    /\ Available(cfg.backend)
    /\ life' = [life EXCEPT ![c] = "running"]
    /\ wired' = [wired EXCEPT ![c] = viewer = "up" /\ cfg.cameras[c].enable_viewer]
    /\ at' = at + 1
    /\ UNCHANGED <<file, main, code, gStop, starts, faults, serverVars,
                   view, raised, stuck, lost>>
    /\ service(c)!Begin

\* std::signal for both signals, after the last camera was started.
InstallHandlers ==
    /\ main = "cameras" /\ at > LastCamera
    /\ main' = "waiting"
    /\ UNCHANGED <<file, at, code, gStop, starts, faults, serverVars, cameraVars>>

-----------------------------------------------------------------------------
(* Shutdown.  The statements after the wait and the destructors stop the    *)
(* same objects in the same order, so one set of actions stands for both;   *)
(* stop() of something that is not running does nothing.                    *)

\* Mutant: the servers are stopped before the pipelines.
StopsWaitingServersFirst ==
    /\ main = "waiting" /\ gStop
    /\ main' = "stopping" /\ at' = LastCamera + 1
    /\ UNCHANGED <<file, code, gStop, starts, faults, serverVars, cameraVars>>

StopsWaiting ==
    /\ main = "waiting" /\ gStop
    /\ main' = "stopping" /\ at' = 1
    /\ UNCHANGED <<file, code, gStop, starts, faults, serverVars, cameraVars>>

Stops == main \in {"stopping", "unwinding"}

\* stop() of a pipeline begins, ...
StopCamera(c) ==
    /\ Stops /\ at = c /\ life[c] = "running"
    /\ life' = [life EXCEPT ![c] = "stopping"]
    /\ UNCHANGED <<file, processVars, serverVars,
                   view, raised, wired, stuck, lost>>
    /\ service(c)!Cease

\* ... may get stuck in its join of the inference pool, if it has workers, ...
JoinMisses(c) ==
    /\ Stops /\ at = c /\ life[c] = "stopping" /\ ~stuck
    /\ cfg.cameras[c].workers > 0
    /\ stuck' = TRUE
    /\ UNCHANGED <<file, processVars, serverVars, life, view, raised, wired, lost>>

\* Mutant: stop() of a pipeline that was stopped before does not return.
NextCameraOnce(c) ==
    /\ Stops /\ at = c /\ life[c] = "stopping"
    /\ at' = at + 1 /\ stuck' = FALSE
    /\ UNCHANGED <<file, main, code, gStop, starts, faults, serverVars,
                   view, raised, wired, lost>>
    /\ life' = [life EXCEPT ![c] = "stopped"] /\ service(c)!Rest

\* ... or joins its threads and returns.  When it was stuck, a spurious
\* wake-up of the worker that waits has let it go.
NextCamera(c) ==
    /\ Stops /\ at = c /\ life[c] # "running"
    /\ at' = at + 1 /\ stuck' = FALSE
    /\ UNCHANGED <<file, main, code, gStop, starts, faults, serverVars,
                   view, raised, wired, lost>>
    /\ IF life[c] = "stopping"
       THEN life' = [life EXCEPT ![c] = "stopped"] /\ service(c)!Rest
       ELSE UNCHANGED life

StopViewer ==
    /\ Stops /\ at = LastCamera + 1
    /\ viewer' = IF viewer = "up" THEN "down" ELSE viewer
    /\ at' = at + 1
    /\ UNCHANGED <<file, main, code, gStop, starts, faults, publisher, cameraVars>>

\* The publisher is last; then main() returns 0, or its locals are gone.
StopPublisher ==
    /\ Stops /\ at = LastCamera + 2
    /\ publisher' = "down"
    /\ IF main = "stopping" THEN Returns(0)
       ELSE main' = "exited" /\ UNCHANGED <<at, code>>
    /\ UNCHANGED <<file, gStop, starts, faults, viewer, cameraVars>>

MainGoesOn ==
    \/ LoadConfig \/ StartPublisher \/ StartViewer \/ EngineFails \/ InstallHandlers
    \/ StopsWaiting \/ StopViewer \/ StopPublisher
    \/ \E c \in Cameras : StartCamera(c) \/ StopCamera(c) \/ NextCamera(c)

-----------------------------------------------------------------------------
(* The inference workers of a camera, if its configuration gives it any.    *)

\* What a call leaves in lost if its server is in this state.
Reaches(c, server) ==
    lost' = IF server = "up" THEN lost ELSE lost \cup {c}

ShowFrame(c) ==
    /\ main \notin Dead
    /\ wired[c] /\ cfg.cameras[c].workers > 0
    /\ view' = [view EXCEPT ![c] = 1 - @]
    /\ Reaches(c, viewer)
    /\ UNCHANGED <<file, processVars, serverVars, life, raised, wired, stuck>>
    /\ service(c)!Show

PublishAlert(c) ==
    /\ main \notin Dead
    /\ cfg.cameras[c].workers > 0 /\ raised[c] < MaxAlerts
    /\ raised' = [raised EXCEPT ![c] = @ + 1]
    /\ Reaches(c, publisher)
    /\ UNCHANGED <<file, processVars, serverVars, life, view, wired, stuck>>
    /\ service(c)!Raise

-----------------------------------------------------------------------------
(* The process and systemd                                                  *)

Handled == main \in {"waiting", "stopping"} \/ (main = "unwinding" /\ code = 0)

\* SIGINT or SIGTERM: handle_signal, or the default action before it is set.
Signal ==
    /\ main \notin Dead /\ ~gStop
    /\ gStop' = TRUE
    /\ main' = IF Handled THEN main ELSE "killed"
    /\ UNCHANGED <<file, at, code, starts, faults, serverVars, cameraVars>>

\* std::terminate, a fault of the driver, or the kernel ends the process.
Crash ==
    /\ main \notin Dead
    /\ Fault
    /\ main' = "crashed"
    /\ UNCHANGED <<file, at, code, gStop, starts, serverVars, cameraVars>>

\* systemd sends SIGKILL to a process that is still there a while after it
\* was asked to stop.
Kill ==
    /\ main \notin Dead /\ gStop
    /\ main' = "killed"
    /\ UNCHANGED <<file, at, code, gStop, starts, faults, serverVars, cameraVars>>

\* A new process, started by systemd.
Fresh ==
    /\ starts < StartLimitBurst /\ starts' = starts + 1
    /\ main' = "loading" /\ at' = 0 /\ code' = 0
    /\ publisher' = "down" /\ viewer' = "none"
    /\ life' = Each("idle") /\ view' = Each(0) /\ raised' = Each(0)
    /\ wired' = Each(FALSE) /\ stuck' = FALSE
    /\ UNCHANGED <<file, gStop, lost, faults>>

\* Mutant: systemd takes exit code 2 for success.
RestartAfterOthers ==
    /\ main = "crashed" \/ (main = "exited" /\ code = 1)
    /\ ~gStop
    /\ Fresh

\* Restart=on-failure: not after exit code 0, nor after a stop was asked for.
Restart ==
    /\ main = "crashed" \/ (main = "exited" /\ code # 0)
    /\ ~gStop
    /\ Fresh

Next ==
    \/ MainGoesOn
    \/ \E c \in Cameras : JoinMisses(c) \/ ShowFrame(c) \/ PublishAlert(c)
    \/ Signal \/ Crash \/ Kill \/ Restart

Spec == Init /\ [][Next]_vars

(* main() goes on while it can: the calls it makes return, but for the join *)
(* it is stuck in.  systemd restarts the process.  Nothing is assumed of    *)
(* cameras, signals, crashes, spurious wake-ups and of Kill: without        *)
(* systemd nobody kills the process, with it only when a stop was asked for.*)
Fairness == WF_vars(~stuck /\ MainGoesOn) /\ WF_vars(Restart)

FairSpec == Spec /\ Fairness

-----------------------------------------------------------------------------
(* Properties                                                               *)

TypeOK ==
    /\ file \in Files
    /\ main \in MainPlaces \cup Dead /\ at \in Nat /\ code \in 0 .. 2
    /\ gStop \in BOOLEAN
    /\ publisher \in {"up", "down"} /\ viewer \in {"none", "up", "down"}
    /\ life \in [Cameras -> {"idle", "running", "stopping", "stopped"}]
    /\ view \in [Cameras -> 0 .. 1] /\ raised \in [Cameras -> Nat]
    /\ wired \in [Cameras -> BOOLEAN]
    /\ stuck \in BOOLEAN
    /\ lost \subseteq Cameras
    /\ starts \in Nat /\ faults \in Nat

\* The order in which main() starts and stops things, and the order its
\* locals are destroyed in on each early return, is right: no worker of any
\* camera ever hands an alert or a picture to a server that is not running.
NothingLost == lost = {}

\* However main() returns, nothing it started is left running; and it returns
\* 0, after which systemd leaves the site alone, only if it was told to stop.
CleanExit ==
    main = "exited" =>
        /\ \A c \in Cameras : life[c] \in {"idle", "stopped"}
        /\ publisher = "down" /\ viewer # "up"
        /\ code = 0 <=> gStop

\* A signal that was handled ends the process, unless stop() of one of its
\* pipelines gets stuck in the join of the inference pool: no other call of
\* the shutdown and of the destructors can keep it.
ShutdownCompletes == (gStop /\ Handled) ~> (main \in Dead \/ stuck)

\* All the cameras of a usable configuration are served.
Serving == main = "waiting" /\ \A c \in Cameras : life[c] = "running"

\* "restarts on failure": crashes and failed starts, fewer than the start
\* limit, do not keep a usable configuration from being served again, unless
\* main() gets stuck: when the engine of a later camera fails, the destructors
\* stop the pipelines before it, and systemd sees no failure until they did.
Recovers ==
    (file.readable /\ LastCamera > 0 /\ Available(cfg.backend))
        ~> (Serving \/ gStop \/ stuck)
=============================================================================
