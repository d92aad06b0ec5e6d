------------------------ MODULE ForkliftSystemProofs -------------------------
(* Proofs about ForkliftSystem, for any configuration files, any number of  *)
(* cameras, alerts, faults and restarts: its types, that no worker calls a  *)
(* server that is not running, and that main() leaves nothing running.      *)
EXTENDS ForkliftSystem, SequenceTheorems, TLAPS

-----------------------------------------------------------------------------
(* Types                                                                    *)

\* The cameras of a file are numbered.
LEMMA CamerasNumbered ==
    ASSUME file \in Files
    PROVE  /\ LastCamera \in Nat /\ Cameras = 1 .. LastCamera
           /\ file.cameras \in Seq(CameraEntries)
<1>1. file.cameras \in Seq(CameraEntries)
  BY FilesAssumption DEF FileRecords
<1>2. QED  BY <1>1, LenProperties DEF Cameras, LastCamera

\* The entries main() looks at have values once they are loaded.
LEMMA LoadedTypes ==
    ASSUME file \in Files, NEW c \in Cameras
    PROVE  cfg.cameras[c].enable_viewer \in BOOLEAN
<1>1. file.cameras[c] \in CameraEntries
  BY CamerasNumbered, ElementOfSeq DEF LastCamera
<1>2. file.cameras[c].enable_viewer \in BOOLEAN \cup {Absent}
  BY <1>1 DEF CameraEntries
<1>3. cfg.cameras[c].enable_viewer = GetOr(file.cameras[c].enable_viewer, FALSE)
  BY DEF cfg, Load, Cameras
<1>4. QED  BY <1>2, <1>3 DEF GetOr

\* The types of what is kept for each camera.
CameraTypes ==
    /\ life \in [Cameras -> {"idle", "running", "stopping", "stopped"}]
    /\ view \in [Cameras -> 0 .. 1] /\ raised \in [Cameras -> Nat]
    /\ wired \in [Cameras -> BOOLEAN]
    /\ stuck \in BOOLEAN
    /\ lost \subseteq Cameras

\* The types of the rest.
ProcessTypes ==
    /\ file \in Files
    /\ main \in MainPlaces \cup Dead /\ at \in Nat /\ code \in 0 .. 2
    /\ gStop \in BOOLEAN
    /\ publisher \in {"up", "down"} /\ viewer \in {"none", "up", "down"}
    /\ starts \in Nat /\ faults \in Nat

\* No step edits the configuration file.
LEMMA FileKept == [Next]_vars => file' = file /\ Cameras' = Cameras
<1>1. [Next]_vars => file' = file
  BY DEF Next, MainGoesOn, LoadConfig, StartPublisher, StartViewer, EngineFails, StartCamera,
         InstallHandlers, StopsWaiting, StopCamera, NextCamera, StopViewer, StopPublisher,
         JoinMisses, ShowFrame, PublishAlert, Signal, Crash, Kill, Restart, Fresh, vars
<1>2. QED  BY <1>1 DEF Cameras

\* The start-up and the shutdown keep the types of the process.
LEMMA MainTypes == ProcessTypes /\ MainGoesOn => ProcessTypes'
<1> SUFFICES ASSUME ProcessTypes, MainGoesOn
             PROVE  ProcessTypes'
  OBVIOUS
<1> USE DEF ProcessTypes, MainPlaces, Dead, Returns, Fault, processVars, serverVars
<1>0. LastCamera \in Nat /\ \A c \in Cameras : c \in Nat
  BY CamerasNumbered
<1>1. CASE LoadConfig \/ StartPublisher \/ StartViewer
  BY <1>1 DEF LoadConfig, StartPublisher, StartViewer
<1>2. CASE EngineFails \/ InstallHandlers \/ StopsWaiting
  BY <1>2 DEF EngineFails, InitializeFails, InstallHandlers, StopsWaiting
<1>3. CASE StopViewer \/ StopPublisher
  BY <1>3 DEF StopViewer, StopPublisher
<1>4. ASSUME NEW c \in Cameras, StartCamera(c) \/ StopCamera(c) \/ NextCamera(c)
      PROVE  ProcessTypes'
  BY <1>0, <1>4 DEF StartCamera, StopCamera, NextCamera
<1>5. QED  BY <1>1, <1>2, <1>3, <1>4 DEF MainGoesOn

\* Every step keeps the types of the process.
LEMMA ProcessTypesKept == ProcessTypes /\ [Next]_vars => ProcessTypes'
<1> SUFFICES ASSUME ProcessTypes, [Next]_vars
             PROVE  ProcessTypes'
  OBVIOUS
<1> USE DEF ProcessTypes, MainPlaces, Dead, Fault, processVars, serverVars
<1>1. CASE MainGoesOn
  BY <1>1, MainTypes
<1>2. ASSUME NEW c \in Cameras, JoinMisses(c) \/ ShowFrame(c) \/ PublishAlert(c)
      PROVE  ProcessTypes'
  BY <1>2 DEF JoinMisses, ShowFrame, PublishAlert
<1>3. CASE Signal
  <2>1. main' = main \/ main' = "killed"
    BY <1>3 DEF Signal
  <2>2. gStop' = TRUE /\ UNCHANGED <<file, at, code, starts, faults, publisher, viewer>>
    BY <1>3 DEF Signal
  <2>3. QED  BY <2>1, <2>2
<1>4. CASE Crash \/ Kill
  BY <1>4 DEF Crash, Kill
<1>5. CASE Restart
  BY <1>5 DEF Restart, Fresh
<1>6. CASE UNCHANGED vars
  BY <1>6 DEF vars
<1>7. QED  BY <1>1, <1>2, <1>3, <1>4, <1>5, <1>6 DEF Next

\* Every step keeps the types of the cameras.
LEMMA CameraTypesKept == ProcessTypes /\ CameraTypes /\ [Next]_vars => CameraTypes'
<1> SUFFICES ASSUME ProcessTypes, CameraTypes, [Next]_vars
             PROVE  CameraTypes'
  OBVIOUS
<1>1. Cameras' = Cameras /\ file \in Files
  BY FileKept DEF ProcessTypes
<1> USE DEF CameraTypes, cameraVars
<1>2. ASSUME UNCHANGED cameraVars
      PROVE  CameraTypes'
  BY <1>1, <1>2
<1>3. CASE LoadConfig \/ StartPublisher \/ StartViewer \/ EngineFails \/ InstallHandlers
  BY <1>2, <1>3 DEF LoadConfig, StartPublisher, StartViewer, EngineFails, InstallHandlers
<1>4. CASE \/ StopsWaiting \/ StopViewer \/ StopPublisher
           \/ Signal \/ Crash \/ Kill \/ UNCHANGED vars
  BY <1>2, <1>4 DEF StopsWaiting, StopViewer, StopPublisher, Signal, Crash, Kill, vars
<1>5. ASSUME NEW c \in Cameras, StartCamera(c)
      PROVE  CameraTypes'
  <2>1. cfg.cameras[c].enable_viewer \in BOOLEAN
    BY <1>1, LoadedTypes
  <2>2. (viewer = "up" /\ cfg.cameras[c].enable_viewer) \in BOOLEAN
    OBVIOUS
  <2>3. wired' \in [Cameras -> BOOLEAN]
    BY <1>5, <2>2 DEF StartCamera
  <2>4. QED  BY <1>1, <1>5, <2>3 DEF StartCamera
<1>6. ASSUME NEW c \in Cameras, StopCamera(c) \/ JoinMisses(c) \/ NextCamera(c)
      PROVE  CameraTypes'
  BY <1>1, <1>6 DEF StopCamera, JoinMisses, NextCamera
<1>7. ASSUME NEW c \in Cameras, ShowFrame(c)
      PROVE  CameraTypes'
  BY <1>1, <1>7 DEF ShowFrame, Reaches
<1>8. ASSUME NEW c \in Cameras, PublishAlert(c)
      PROVE  CameraTypes'
  BY <1>1, <1>8 DEF PublishAlert, Reaches
<1>9. CASE Restart
  <2>1. stuck' \in BOOLEAN
    BY <1>9 DEF Restart, Fresh
  <2>2. QED  BY <1>1, <1>9, <2>1 DEF Restart, Fresh, Each
<1>10. QED
  BY <1>3, <1>4, <1>5, <1>6, <1>7, <1>8, <1>9 DEF Next, MainGoesOn

\* The type invariant is inductive in its two parts.
LEMMA TypesKept == TypeOK /\ [Next]_vars => TypeOK'
<1>1. TypeOK <=> ProcessTypes /\ CameraTypes
  BY DEF TypeOK, ProcessTypes, CameraTypes
<1>2. TypeOK' <=> ProcessTypes' /\ CameraTypes'
  BY DEF TypeOK, ProcessTypes, CameraTypes
<1>3. QED  BY <1>1, <1>2, ProcessTypesKept, CameraTypesKept

\* It holds at the beginning.
LEMMA TypesInitially == Init => TypeOK
<1> SUFFICES ASSUME Init
             PROVE  TypeOK
  OBVIOUS
<1>1. ProcessTypes
  <2>1. gStop \in BOOLEAN
    BY DEF Init
  <2>2. /\ file \in Files /\ main \in MainPlaces
        /\ publisher \in {"up", "down"} /\ viewer \in {"none", "up", "down"}
    BY DEF Init, MainPlaces
  <2>3. at \in Nat /\ code \in 0 .. 2 /\ starts \in Nat /\ faults \in Nat
    BY DEF Init
  <2>4. QED  BY <2>1, <2>2, <2>3 DEF ProcessTypes
<1>2. CameraTypes
  <2>1. stuck \in BOOLEAN
    BY DEF Init
  <2>2. QED  BY <2>1 DEF Init, CameraTypes, Each
<1>3. QED  BY <1>1, <1>2 DEF TypeOK, ProcessTypes, CameraTypes

(* main, the servers and what is kept of each camera have their types.      *)
THEOREM SystemTypeCorrect == Spec => []TypeOK
BY TypesInitially, TypesKept, PTL DEF Spec

-----------------------------------------------------------------------------
(* The servers outlive the workers                                          *)

\* The pipeline of camera c may call its servers.
Working(c) == life[c] \in {"running", "stopping"}

\* Before the loop over the cameras none is started, and the servers are up
\* once main() got past them.
StartsInOrder ==
    /\ main \in {"loading", "publisher", "viewer"} => \A c \in Cameras : ~Working(c)
    /\ main \in {"viewer", "cameras", "waiting"} => publisher = "up"

\* A pipeline that works has the servers it calls.
ServersUp ==
    main \notin Dead =>
        \A c \in Cameras : Working(c) => /\ publisher = "up"
                                         /\ wired[c] => viewer = "up"

\* The loop that stops the pipelines leaves none behind working.
StopsInOrder ==
    Stops => /\ \A c \in Cameras : c < at => ~Working(c)
             /\ at > LastCamera + 1 => viewer # "up"

LifeInv == TypeOK /\ StartsInOrder /\ ServersUp /\ StopsInOrder

\* Start-up keeps the order.
LEMMA StartUpOrder ==
    ASSUME LifeInv, LoadConfig \/ StartPublisher \/ StartViewer \/ EngineFails \/ InstallHandlers
    PROVE  StartsInOrder' /\ ServersUp' /\ StopsInOrder'
<1>1. LastCamera \in Nat /\ Cameras = 1 .. LastCamera
  BY CamerasNumbered DEF LifeInv, TypeOK
<1>2. UNCHANGED <<file, life, wired>> /\ Cameras' = Cameras /\ LastCamera' = LastCamera
  BY DEF LoadConfig, StartPublisher, StartViewer, EngineFails, InstallHandlers, cameraVars,
         Cameras, LastCamera
<1> USE <1>1, <1>2 DEF StartsInOrder, ServersUp, StopsInOrder, Working, Stops, Dead,
            serverVars, LifeInv
<1>3. CASE LoadConfig
  BY <1>3 DEF LoadConfig, Returns
<1>4. CASE StartPublisher
  BY <1>4 DEF StartPublisher, Returns
<1>5. CASE StartViewer
  BY <1>5 DEF StartViewer
<1>6. CASE EngineFails
  BY <1>6 DEF EngineFails, Returns
<1>7. CASE InstallHandlers
  BY <1>7 DEF InstallHandlers
<1>8. QED  BY <1>3, <1>4, <1>5, <1>6, <1>7

\* A camera is started with servers that are up.
LEMMA StartCameraOrder ==
    ASSUME LifeInv, NEW c \in Cameras, StartCamera(c)
    PROVE  StartsInOrder' /\ ServersUp' /\ StopsInOrder'
<1>1. Cameras' = Cameras /\ main' = main /\ main = "cameras"
  BY DEF StartCamera, Cameras
<1>2. publisher' = "up" /\ viewer' = viewer
  BY DEF StartCamera, serverVars, LifeInv, StartsInOrder
<1>3. \A d \in Cameras : d # c => life'[d] = life[d] /\ wired'[d] = wired[d]
  BY DEF StartCamera, LifeInv, TypeOK
<1>4. wired'[c] => viewer = "up"
  BY DEF StartCamera, LifeInv, TypeOK
<1>5. StartsInOrder' /\ StopsInOrder'
  BY <1>1, <1>2 DEF StartsInOrder, StopsInOrder, Stops
<1>6. ServersUp'
  <2>1. SUFFICES ASSUME NEW d \in Cameras, Working(d)', wired'[d]
                 PROVE  viewer' = "up"
    BY <1>1, <1>2 DEF ServersUp
  <2>2. CASE d = c
    BY <1>2, <1>4, <2>1, <2>2
  <2>3. CASE d # c
    BY <1>1, <1>2, <1>3, <2>1, <2>3 DEF LifeInv, ServersUp, Working, Dead
  <2>4. QED  BY <2>2, <2>3
<1>7. QED  BY <1>5, <1>6

\* stop() of a pipeline, or of one that does nothing, goes one camera on and
\* leaves it resting.
LEMMA StopCameraOrder ==
    ASSUME LifeInv, NEW c \in Cameras, StopCamera(c) \/ NextCamera(c)
    PROVE  StartsInOrder' /\ ServersUp' /\ StopsInOrder'
<1>1. LastCamera \in Nat /\ Cameras = 1 .. LastCamera
  BY CamerasNumbered DEF LifeInv, TypeOK
<1>2. /\ UNCHANGED <<file, main, publisher, viewer, wired>> /\ at = c
      /\ Cameras' = Cameras /\ LastCamera' = LastCamera /\ Stops
  BY DEF StopCamera, NextCamera, serverVars, processVars, Cameras, LastCamera
<1>3. \A d \in Cameras : d # c => life'[d] = life[d]
  BY DEF StopCamera, NextCamera, LifeInv, TypeOK
<1>4. /\ Working(c)' => Working(c)
      /\ \/ at' = c
         \/ at' = c + 1 /\ ~Working(c)'
  <2>1. life \in [Cameras -> {"idle", "running", "stopping", "stopped"}]
    BY DEF LifeInv, TypeOK
  <2>2. CASE StopCamera(c)
    BY <2>1, <2>2 DEF StopCamera, Working, processVars
  <2>3. CASE NextCamera(c) /\ life[c] = "stopping"
    BY <2>1, <2>3 DEF NextCamera, Working
  <2>4. CASE NextCamera(c) /\ life[c] # "stopping"
    BY <2>1, <2>4 DEF NextCamera, Working
  <2>5. QED  BY <2>2, <2>3, <2>4
<1>5. \A d \in Cameras : Working(d)' => Working(d)
  BY <1>3, <1>4 DEF Working
<1>6. StartsInOrder'
  BY <1>2 DEF StartsInOrder, Stops
<1>7. ServersUp'
  BY <1>2, <1>5 DEF LifeInv, ServersUp
<1>8. StopsInOrder'
  <2>1. ASSUME NEW d \in Cameras, d < at'
        PROVE  ~Working(d)'
    <3>1. CASE d = c
      BY <1>1, <1>4, <2>1, <3>1
    <3>2. CASE d # c
      BY <1>1, <1>2, <1>4, <1>5, <2>1, <3>2 DEF LifeInv, StopsInOrder
    <3>3. QED  BY <3>1, <3>2
  <2>2. ~(at' > LastCamera + 1)
    BY <1>1, <1>4
  <2>3. QED  BY <1>2, <2>1, <2>2 DEF StopsInOrder
<1>9. QED  BY <1>6, <1>7, <1>8

\* The servers are stopped when no pipeline works any more.
LEMMA StopServerOrder ==
    ASSUME LifeInv, StopsWaiting \/ StopViewer \/ StopPublisher
    PROVE  StartsInOrder' /\ ServersUp' /\ StopsInOrder'
<1>1. LastCamera \in Nat /\ Cameras = 1 .. LastCamera
  BY CamerasNumbered DEF LifeInv, TypeOK
<1>2. UNCHANGED <<file, life, wired>> /\ Cameras' = Cameras /\ LastCamera' = LastCamera
  BY DEF StopsWaiting, StopViewer, StopPublisher, cameraVars, Cameras, LastCamera
<1>3. \A c \in Cameras : Working(c)' <=> Working(c)
  BY <1>2 DEF Working
<1>4. CASE StopsWaiting
  BY <1>1, <1>2, <1>3, <1>4
     DEF StopsWaiting, StartsInOrder, ServersUp, StopsInOrder, LifeInv, Stops, Dead, serverVars
<1>5. CASE StopViewer \/ StopPublisher
  <2>1. \A c \in Cameras : ~Working(c)
    BY <1>1, <1>5 DEF StopViewer, StopPublisher, LifeInv, StopsInOrder
  <2>2. main' \in {"stopping", "unwinding", "exited"}
    BY <1>5 DEF StopViewer, StopPublisher, Stops, Returns
  <2>3. at' > LastCamera + 1 => viewer' # "up"
    BY <1>1, <1>5 DEF StopViewer, StopPublisher, Stops, Returns, LifeInv, StopsInOrder
  <2>4. QED
    BY <1>2, <1>3, <2>1, <2>2, <2>3 DEF StartsInOrder, ServersUp, StopsInOrder
<1>6. QED  BY <1>4, <1>5

\* Workers, signals, crashes and restarts keep the order.
LEMMA OthersOrder ==
    ASSUME LifeInv,
           \/ \E c \in Cameras : JoinMisses(c) \/ ShowFrame(c) \/ PublishAlert(c)
           \/ Signal \/ Crash \/ Kill \/ Restart \/ UNCHANGED vars
    PROVE  StartsInOrder' /\ ServersUp' /\ StopsInOrder'
<1>1. file' = file /\ Cameras' = Cameras /\ LastCamera' = LastCamera
  BY DEF JoinMisses, ShowFrame, PublishAlert, Signal, Crash, Kill, Restart, Fresh, vars,
         Cameras, LastCamera
<1>2. ASSUME UNCHANGED <<at, publisher, viewer, life, wired>>,
             main' \in {main, "killed", "crashed"}
      PROVE  StartsInOrder' /\ ServersUp' /\ StopsInOrder'
  BY <1>1, <1>2 DEF StartsInOrder, ServersUp, StopsInOrder, Working, Stops, Dead, LifeInv
<1>3. CASE \E c \in Cameras : JoinMisses(c) \/ ShowFrame(c) \/ PublishAlert(c)
  BY <1>2, <1>3 DEF JoinMisses, ShowFrame, PublishAlert, processVars, serverVars
<1>4. CASE Signal \/ Crash \/ Kill \/ UNCHANGED vars
  BY <1>2, <1>4 DEF Signal, Crash, Kill, vars, processVars, serverVars, cameraVars
<1>5. CASE Restart
  BY <1>1, <1>5 DEF Restart, Fresh, Each, StartsInOrder, ServersUp, StopsInOrder, Working,
                    Stops, Dead
<1>6. QED  BY <1>3, <1>4, <1>5

\* LifeInv is inductive.
LEMMA LifeStep == LifeInv /\ [Next]_vars => LifeInv'
<1> SUFFICES ASSUME LifeInv, [Next]_vars
             PROVE  LifeInv'
  OBVIOUS
<1>1. TypeOK'
  BY TypesKept DEF LifeInv
<1>2. StartsInOrder' /\ ServersUp' /\ StopsInOrder'
  BY StartUpOrder, StartCameraOrder, StopCameraOrder, StopServerOrder, OthersOrder
     DEF Next, MainGoesOn
<1>3. QED  BY <1>1, <1>2 DEF LifeInv

\* It holds throughout.
LEMMA LifeAlways == Spec => []LifeInv
<1>1. Init => LifeInv
  BY TypesInitially DEF LifeInv, Init, StartsInOrder, ServersUp, StopsInOrder, Working, Stops,
                        Each, Dead
<1>2. QED  BY <1>1, LifeStep, PTL DEF Spec

(* No worker of any camera ever hands a picture or an alert to a server     *)
(* that is not running: the order of start-up, of shutdown and of the       *)
(* destructors on every early return is right, through crashes and          *)
(* restarts.                                                                *)
THEOREM NothingIsLost == Spec => []NothingLost
<1>1. Init => NothingLost
  BY DEF Init, NothingLost
<1>2. LifeInv /\ NothingLost /\ [Next]_vars => NothingLost'
  <2> SUFFICES ASSUME LifeInv, NothingLost, [Next]_vars
               PROVE  NothingLost'
    OBVIOUS
  <2>1. ASSUME NEW c \in Cameras, ShowFrame(c)
        PROVE  lost' = lost
    <3>1. Working(c)
      BY <2>1 DEF ShowFrame, service!Show, service!Alive, Working
    <3>2. viewer = "up"
      BY <2>1, <3>1 DEF ShowFrame, LifeInv, ServersUp
    <3>3. QED  BY <2>1, <3>2 DEF ShowFrame, Reaches
  <2>2. ASSUME NEW c \in Cameras, PublishAlert(c)
        PROVE  lost' = lost
    <3>1. Working(c)
      BY <2>2 DEF PublishAlert, service!Raise, service!Alive, Working
    <3>2. publisher = "up"
      BY <2>2, <3>1 DEF PublishAlert, LifeInv, ServersUp
    <3>3. QED  BY <2>2, <3>2 DEF PublishAlert, Reaches
  <2>3. CASE MainGoesOn
    BY <2>3 DEF MainGoesOn, LoadConfig, StartPublisher, StartViewer, EngineFails, StartCamera,
                InstallHandlers, StopsWaiting, StopCamera, NextCamera, StopViewer,
                StopPublisher, cameraVars, NothingLost
  <2>4. CASE Signal \/ Crash \/ Kill \/ Restart \/ UNCHANGED vars
    BY <2>4 DEF Signal, Crash, Kill, Restart, Fresh, vars, cameraVars, NothingLost
  <2>5. ASSUME NEW c \in Cameras, JoinMisses(c)
        PROVE  lost' = lost
    BY <2>5 DEF JoinMisses
  <2>6. QED  BY <2>1, <2>2, <2>3, <2>4, <2>5 DEF Next, NothingLost
<1>3. QED  BY <1>1, <1>2, LifeAlways, PTL DEF Spec

-----------------------------------------------------------------------------
(* How main() ends                                                          *)

\* A process that lives has seen a signal only if it handles it, it shuts
\* down only for a signal, and returns 0 only then.
SignalsCount ==
    /\ main \notin Dead /\ gStop => Handled
    /\ main = "stopping" => gStop
    /\ main = "unwinding" /\ code = 0 => gStop

\* Start-up comes before the handlers; shutdown needs a signal.
LEMMA MainSignals ==
    ASSUME LifeInv, SignalsCount, MainGoesOn
    PROVE  SignalsCount'
<1>1. gStop' = gStop
  BY DEF MainGoesOn, LoadConfig, StartPublisher, StartViewer, EngineFails, StartCamera,
         InstallHandlers, StopsWaiting, StopCamera, NextCamera, StopViewer, StopPublisher,
         processVars
<1> USE <1>1 DEF SignalsCount, Handled, Dead, Returns
<1>2. CASE LoadConfig \/ StartPublisher \/ StartViewer \/ EngineFails \/ InstallHandlers
  BY <1>2 DEF LoadConfig, StartPublisher, StartViewer, EngineFails, InstallHandlers
<1>3. CASE StopsWaiting
  BY <1>3 DEF StopsWaiting
<1>4. ASSUME NEW c \in Cameras, StartCamera(c) \/ StopCamera(c) \/ NextCamera(c)
      PROVE  UNCHANGED <<main, code>>
  BY <1>4 DEF StartCamera, StopCamera, NextCamera, processVars
<1>5. CASE StopViewer
  BY <1>5 DEF StopViewer
<1>6. CASE StopPublisher
  BY <1>6 DEF StopPublisher, Stops
<1>7. QED  BY <1>2, <1>3, <1>4, <1>5, <1>6 DEF MainGoesOn

\* So do the other steps.
LEMMA OtherSignals ==
    ASSUME LifeInv, SignalsCount,
           \/ \E c \in Cameras : JoinMisses(c) \/ ShowFrame(c) \/ PublishAlert(c)
           \/ Signal \/ Crash \/ Kill \/ Restart \/ UNCHANGED vars
    PROVE  SignalsCount'
<1> USE DEF SignalsCount, Handled, Dead
<1>1. CASE \E c \in Cameras : JoinMisses(c) \/ ShowFrame(c) \/ PublishAlert(c)
  BY <1>1 DEF JoinMisses, ShowFrame, PublishAlert, processVars
<1>2. CASE Signal
  BY <1>2 DEF Signal
<1>3. CASE Crash \/ Kill
  BY <1>3 DEF Crash, Kill
<1>4. CASE Restart
  BY <1>4 DEF Restart, Fresh
<1>5. CASE UNCHANGED vars
  BY <1>5 DEF vars, processVars
<1>6. QED  BY <1>1, <1>2, <1>3, <1>4, <1>5

\* The last step of main() leaves nothing running.
LEMMA ExitClean ==
    ASSUME LifeInv, SignalsCount, StopPublisher, main' = "exited"
    PROVE  CleanExit'
<1>1. LastCamera \in Nat /\ Cameras = 1 .. LastCamera
  BY CamerasNumbered DEF LifeInv, TypeOK
<1>2. main = "unwinding" /\ at = LastCamera + 2 /\ publisher' = "down"
      /\ UNCHANGED <<file, viewer, life, code, gStop>>
  BY DEF StopPublisher, Stops, Returns, cameraVars
<1>3. \A c \in Cameras : ~Working(c)
  BY <1>1, <1>2 DEF LifeInv, StopsInOrder, Stops
<1>4. \A c \in Cameras : life[c] \in {"idle", "stopped"}
  BY <1>3 DEF Working, LifeInv, TypeOK
<1>5. viewer # "up"
  BY <1>1, <1>2 DEF LifeInv, StopsInOrder, Stops
<1>6. code = 0 <=> gStop
  BY <1>2 DEF SignalsCount, Handled, Dead, LifeInv, TypeOK
<1>7. QED  BY <1>2, <1>4, <1>5, <1>6 DEF CleanExit, Cameras

(* Whenever main() returns, on whichever path, it has stopped what it       *)
(* started, and it returns 0, for which systemd does not restart the        *)
(* service, if and only if it was told to stop.                             *)
THEOREM ExitsAreClean == Spec => []CleanExit
<1>1. Init => SignalsCount /\ CleanExit
  BY DEF Init, SignalsCount, CleanExit, Dead
<1>2. LifeInv /\ SignalsCount /\ [Next]_vars => SignalsCount'
  BY MainSignals, OtherSignals DEF Next
<1>3. LifeInv /\ SignalsCount /\ CleanExit /\ [Next]_vars => CleanExit'
  <2> SUFFICES ASSUME LifeInv, SignalsCount, CleanExit, [Next]_vars, main' = "exited"
               PROVE  CleanExit'
    BY DEF CleanExit
  <2>1. CASE StopPublisher
    BY <2>1, ExitClean
  <2>2. CASE UNCHANGED vars
    BY <2>2 DEF vars, processVars, serverVars, cameraVars, CleanExit, Cameras
  <2>3. ~(LoadConfig \/ StartPublisher \/ StartViewer \/ EngineFails \/ InstallHandlers)
    BY DEF LoadConfig, StartPublisher, StartViewer, EngineFails, InstallHandlers, Returns
  <2>4. ~(StopsWaiting \/ StopViewer \/ Signal \/ Crash \/ Kill \/ Restart)
    BY DEF StopsWaiting, StopViewer, Stops, Signal, Dead, Crash, Kill, Restart, Fresh
  <2>5. \A c \in Cameras : ~(StartCamera(c) \/ StopCamera(c) \/ NextCamera(c))
    BY DEF StartCamera, StopCamera, NextCamera, Stops, processVars
  <2>6. \A c \in Cameras : ~(JoinMisses(c) \/ ShowFrame(c) \/ PublishAlert(c))
    BY DEF JoinMisses, Stops, ShowFrame, PublishAlert, Dead, processVars
  <2>7. QED  BY <2>1, <2>2, <2>3, <2>4, <2>5, <2>6 DEF Next, MainGoesOn
<1>4. QED  BY <1>1, <1>2, <1>3, LifeAlways, PTL DEF Spec
-----------------------------------------------------------------------------
(* main() uses each pipeline as one that is started once.  The loop over    *)
(* the cameras finds those from at on untouched.                            *)

UntouchedYet ==
    /\ main \in {"loading", "publisher", "viewer"} => \A c \in Cameras : life[c] = "idle"
    /\ main = "cameras" => \A c \in Cameras : c >= at => life[c] = "idle"

\* Every step leaves the cameras to come untouched.
LEMMA UntouchedStep ==
    ASSUME TypeOK, UntouchedYet, [Next]_vars
    PROVE  UntouchedYet'
<1>1. LastCamera \in Nat /\ Cameras = 1 .. LastCamera /\ at \in Nat
  BY CamerasNumbered DEF TypeOK
<1>2. Cameras' = Cameras
  BY FileKept
<1>3. CASE LoadConfig \/ StartPublisher \/ StartViewer \/ EngineFails \/ InstallHandlers
  <2>1. life' = life
    BY <1>3 DEF LoadConfig, StartPublisher, StartViewer, EngineFails, InstallHandlers,
                cameraVars
  <2>2. CASE LoadConfig \/ StartPublisher
    BY <1>2, <2>1, <2>2 DEF LoadConfig, StartPublisher, Returns, UntouchedYet
  <2>3. CASE StartViewer
    BY <1>2, <2>1, <2>3 DEF StartViewer, UntouchedYet
  <2>4. CASE EngineFails \/ InstallHandlers
    BY <1>2, <2>1, <2>4 DEF EngineFails, InstallHandlers, Returns, UntouchedYet
  <2>5. QED  BY <1>3, <2>2, <2>3, <2>4
<1>4. ASSUME NEW c \in Cameras, StartCamera(c)
      PROVE  UntouchedYet'
  <2>1. /\ main = "cameras" /\ main' = main /\ at = c /\ at' = at + 1
        /\ \A d \in Cameras : d # c => life'[d] = life[d]
    BY <1>4 DEF StartCamera, TypeOK
  <2>2. QED  BY <1>1, <1>2, <2>1 DEF UntouchedYet
<1>5. ASSUME NEW c \in Cameras, StopCamera(c) \/ NextCamera(c)
      PROVE  UntouchedYet'
  <2>1. main' \in {"stopping", "unwinding"}
    BY <1>5 DEF StopCamera, NextCamera, Stops, processVars
  <2>2. QED  BY <2>1 DEF UntouchedYet
<1>6. CASE StopsWaiting \/ StopViewer \/ StopPublisher
  <2>1. main' \in {"stopping", "unwinding", "exited"}
    BY <1>6 DEF StopsWaiting, StopViewer, StopPublisher, Stops, Returns
  <2>2. QED  BY <2>1 DEF UntouchedYet
<1>7. CASE \/ \E c \in Cameras : JoinMisses(c) \/ ShowFrame(c) \/ PublishAlert(c)
           \/ Signal \/ Crash \/ Kill \/ UNCHANGED vars
  <2>1. UNCHANGED <<at, life>> /\ main' \in {main, "killed", "crashed"}
    BY <1>7 DEF JoinMisses, ShowFrame, PublishAlert, Signal, Crash, Kill, vars, processVars,
                cameraVars
  <2>2. QED  BY <1>2, <2>1 DEF UntouchedYet
<1>8. CASE Restart
  BY <1>2, <1>8 DEF Restart, Fresh, Each, UntouchedYet
<1>9. QED  BY <1>3, <1>4, <1>5, <1>6, <1>7, <1>8 DEF Next, MainGoesOn

\* The cameras to come are always untouched.
LEMMA UntouchedAlways == Spec => []UntouchedYet
<1>1. Init => UntouchedYet
  BY DEF Init, Each, UntouchedYet
<1>2. QED  BY <1>1, UntouchedStep, SystemTypeCorrect, PTL DEF Spec

\* A step within a process: each camera goes on as its service does, and none
\* is started that was started before.
CamerasGoOn ==
    \A c \in Cameras : /\ [service(c)!Next]_(service(c)!vars)
                       /\ life'[c] = "running" => life[c] \in {"idle", "running"}

\* A step of main() or of the workers is one of them at one camera at most.
LEMMA GoOnStep ==
    ASSUME TypeOK, UntouchedYet, [Next]_vars
    PROVE  Restart \/ CamerasGoOn
<1>1. LastCamera \in Nat /\ Cameras = 1 .. LastCamera /\ at \in Nat
  BY CamerasNumbered DEF TypeOK
<1>2. ASSUME NEW c \in Cameras, UNCHANGED <<life[c], view[c], raised[c]>>
      PROVE  [service(c)!Next]_(service(c)!vars)
             /\ (life'[c] = "running" => life[c] \in {"idle", "running"})
  BY <1>2 DEF service!vars
<1>3. ASSUME UNCHANGED <<life, view, raised>>
      PROVE  CamerasGoOn
  BY <1>2, <1>3 DEF CamerasGoOn
<1>4. ASSUME NEW c \in Cameras, service(c)!Next,
             life'[c] = "running" => life[c] \in {"idle", "running"},
             \A d \in Cameras : d # c => UNCHANGED <<life[d], view[d], raised[d]>>
      PROVE  CamerasGoOn
  BY <1>2, <1>4 DEF CamerasGoOn
<1>5. CASE \/ LoadConfig \/ StartPublisher \/ StartViewer \/ EngineFails \/ InstallHandlers
           \/ StopsWaiting \/ StopViewer \/ StopPublisher \/ Signal \/ Crash \/ Kill
           \/ (\E c \in Cameras : JoinMisses(c)) \/ UNCHANGED vars
  <2>1. UNCHANGED <<life, view, raised>>
    BY <1>5 DEF LoadConfig, StartPublisher, StartViewer, EngineFails, InstallHandlers,
                StopsWaiting, StopViewer, StopPublisher, Signal, Crash, Kill, JoinMisses, vars,
                cameraVars
  <2>2. QED  BY <1>3, <2>1
<1>6. ASSUME NEW c \in Cameras, StartCamera(c)
      PROVE  CamerasGoOn
  <2>1. life[c] = "idle"
    BY <1>1, <1>6 DEF StartCamera, UntouchedYet
  <2>2. service(c)!Next
    BY <1>6 DEF StartCamera, service!Next
  <2>3. \A d \in Cameras : d # c => UNCHANGED <<life[d], view[d], raised[d]>>
    BY <1>6 DEF StartCamera, TypeOK
  <2>4. QED  BY <1>4, <2>1, <2>2, <2>3
<1>7. ASSUME NEW c \in Cameras, StopCamera(c)
      PROVE  CamerasGoOn
  <2>1. service(c)!Next /\ life'[c] = "stopping"
    BY <1>7 DEF StopCamera, service!Next, TypeOK
  <2>2. \A d \in Cameras : d # c => UNCHANGED <<life[d], view[d], raised[d]>>
    BY <1>7 DEF StopCamera, TypeOK
  <2>3. QED  BY <1>4, <2>1, <2>2
<1>8. ASSUME NEW c \in Cameras, NextCamera(c)
      PROVE  CamerasGoOn
  <2>1. CASE life[c] = "stopping"
    <3>1. service(c)!Next /\ life'[c] = "stopped"
      BY <1>8, <2>1 DEF NextCamera, service!Next, TypeOK
    <3>2. \A d \in Cameras : d # c => UNCHANGED <<life[d], view[d], raised[d]>>
      BY <1>8, <2>1 DEF NextCamera, TypeOK
    <3>3. QED  BY <1>4, <3>1, <3>2
  <2>2. CASE life[c] # "stopping"
    BY <1>3, <1>8, <2>2 DEF NextCamera
  <2>3. QED  BY <2>1, <2>2
<1>9. ASSUME NEW c \in Cameras, ShowFrame(c) \/ PublishAlert(c)
      PROVE  CamerasGoOn
  <2>1. service(c)!Next /\ life' = life
    BY <1>9 DEF ShowFrame, PublishAlert, service!Next
  <2>2. \A d \in Cameras : d # c => UNCHANGED <<life[d], view[d], raised[d]>>
    BY <1>9 DEF ShowFrame, PublishAlert, TypeOK
  <2>3. life[c] \in {"idle", "running", "stopping", "stopped"}
    BY DEF TypeOK
  <2>4. QED  BY <1>4, <2>1, <2>2, <2>3
<1>10. QED  BY <1>5, <1>6, <1>7, <1>8, <1>9 DEF Next, MainGoesOn

(* Between restarts of the process every camera is a CameraService, and     *)
(* main() starts it once: it never meets a pipeline it cannot start, and    *)
(* none whose frames_ an earlier stop() has closed.                         *)
THEOREM CamerasStartOnce == Spec => [][Restart \/ CamerasGoOn]_vars
<1>1. TypeOK /\ UntouchedYet /\ [Next]_vars => [Restart \/ CamerasGoOn]_vars
  BY GoOnStep
<1>2. QED  BY <1>1, UntouchedAlways, SystemTypeCorrect, PTL DEF Spec
=============================================================================
