------------------------------ MODULE LiveView ------------------------------
(***************************************************************************)
(* forklift::infrastructure::transport::MjpegStreamServer, built with      *)
(* Boost.Beast: the newest picture and the newest boxes of each camera,    *)
(* which the inference workers replace, and one HttpSession per            *)
(* connection, which reads them when its timer fires.                      *)
(*                                                                         *)
(* The I/O thread runs one handler at a time and a handler enters at most  *)
(* one critical section of SharedState, so a handler is one action, and so *)
(* is a call of store() or store_dets().  A picture and its boxes are      *)
(* known by the rank of their frame.  What a session sends is a set of     *)
(* pairs: a camera with the frame that is shown of it, or, for /cameras,   *)
(* with its place in the list.                                             *)
(***************************************************************************)
EXTENDS Integers, Sequences, FiniteSets

CONSTANTS
    Cameras,   \* the cameras with enable_viewer
    All,       \* the camera parameter of a request that names none
    Workers,   \* the threads that call publish() and publish_detections()
    CameraOf,  \* the camera a worker serves
    Sessions,  \* the connections that clients can make, each one HttpSession
    Asks,      \* what clients ask for: [path, camera]
    MaxFrames  \* bound: frames per camera

Paths == {"stream", "detections", "cameras", "file"}

ASSUME CamerasAssumption == All \notin Cameras
ASSUME WorkersAssumption == CameraOf \in [Workers -> Cameras]
ASSUME AsksAssumption == Asks \subseteq [path : Paths, camera : Cameras \cup {All}]

VARIABLES
    server,    \* "down", "failed", "up", "stopping" (running is false again)
               \* or "stopped" (the I/O thread is joined)
    accepting, \* "yes" while an async_accept is outstanding
    taken,     \* the newest frame that a worker has taken, by camera
    worker,    \* where each worker is: see WorkerPlaces
    frame,     \* the frame each worker has
    latest,    \* latest: the frame of the newest picture, 0 without one
    order,     \* camera_order
    boxes,     \* latest_dets[c].json: the frame of the newest boxes, or 0
    seq,       \* latest_dets[c].seq
    globalSeq, \* global_det_seq
    session,   \* where each session is: see SessionPlaces
    ask,       \* req_: its path and camera_
    out,       \* out_ of a session; of a stream also last_sent_
    lastSeq,   \* sse_last_seq_
    got        \* history: what the client of a session has, by its last write

\* "publishing": before publish();  "boxing": before publish_detections().
WorkerPlaces == {"idle", "publishing", "boxing"}

\* "header": writes the header of a stream;  "writing": writes a part of it;
\* "waiting": for its timer;  "answering": writes a one-shot response.
SessionPlaces ==
    {"none", "reading", "header", "writing", "waiting", "answering", "closed"}

stateVars == <<latest, order, boxes, seq, globalSeq>>
workerVars == <<taken, worker, frame>>
sessionVars == <<session, ask, out, lastSeq, got>>
vars == <<server, accepting, workerVars, stateVars, sessionVars>>

Serving == server \in {"up", "stopping"}

\* running is a plain bool.  Who reads it on another thread while stop()
\* clears it, or later, may see either value.
MayRun == server \in {"up", "stopping", "stopped"}
MayRest == server \in {"stopping", "stopped"}

Init ==
    /\ server = "down" /\ accepting = "no"
    /\ taken = [c \in Cameras |-> 0]
    /\ worker = [w \in Workers |-> "idle"] /\ frame = [w \in Workers |-> 0]
    /\ latest = [c \in Cameras |-> 0] /\ order = <<>>
    /\ boxes = [c \in Cameras |-> 0] /\ seq = [c \in Cameras |-> 0]
    /\ globalSeq = 0
    /\ session = [s \in Sessions |-> "none"]
    /\ ask = [s \in Sessions |-> [path |-> "file", camera |-> All]]
    /\ out = [s \in Sessions |-> {}] /\ got = [s \in Sessions |-> {}]
    /\ lastSeq = [s \in Sessions |-> 0]

-----------------------------------------------------------------------------
(* start() and stop()                                                       *)

Start ==
    /\ server = "down"
    /\ server' = "up" /\ accepting' = "yes"
    /\ UNCHANGED <<workerVars, stateVars, sessionVars>>

\* The address is bad or cannot be bound; main goes on without a viewer.
StartFails ==
    /\ server = "down"
    /\ server' = "failed"
    /\ UNCHANGED <<accepting, workerVars, stateVars, sessionVars>>

StopFlag ==
    /\ server = "up"
    /\ server' = "stopping"
    /\ UNCHANGED <<accepting, workerVars, stateVars, sessionVars>>

\* ioc.stop() and join: handlers that wait are not run any more.
StopJoins ==
    /\ server = "stopping"
    /\ server' = "stopped"
    /\ UNCHANGED <<accepting, workerVars, stateVars, sessionVars>>

-----------------------------------------------------------------------------
(* The inference workers                                                    *)

\* Mutant: the backlog that pop_latest() passes over stays in the queue.
TakeFromBacklog(w) ==
    /\ MayRun /\ worker[w] = "idle"
    /\ \E n \in 1 .. MaxFrames :
           /\ n # taken[CameraOf[w]]
           /\ taken' = [taken EXCEPT ![CameraOf[w]] = n]
           /\ frame' = [frame EXCEPT ![w] = n]
    /\ worker' = [worker EXCEPT ![w] = "publishing"]
    /\ UNCHANGED <<server, accepting, stateVars, sessionVars>>

\* pop_latest() and infer() give a worker its next frame: the newest, without
\* those that came before it.
TakeFrame(w) ==
    /\ MayRun /\ worker[w] = "idle"
    /\ \E n \in taken[CameraOf[w]] + 1 .. MaxFrames :
           /\ taken' = [taken EXCEPT ![CameraOf[w]] = n]
           /\ frame' = [frame EXCEPT ![w] = n]
    /\ worker' = [worker EXCEPT ![w] = "publishing"]
    /\ UNCHANGED <<server, accepting, stateVars, sessionVars>>

\* Mutant: a camera that is new goes to the front of the list.
StoreInFront(w) ==
    LET c == CameraOf[w]
    IN  /\ MayRun /\ worker[w] = "publishing"
        /\ latest' = [latest EXCEPT ![c] = frame[w]]
        /\ order' = IF latest[c] = 0 THEN <<c>> \o order ELSE order
        /\ worker' = [worker EXCEPT ![w] = "boxing"]
        /\ UNCHANGED <<server, accepting, taken, frame, boxes, seq, globalSeq, sessionVars>>

\* publish() sees running and encodes the picture; store().
Store(w) ==
    LET c == CameraOf[w]
    IN  /\ MayRun /\ worker[w] = "publishing"
        /\ latest' = [latest EXCEPT ![c] = frame[w]]
        /\ order' = IF latest[c] = 0 THEN Append(order, c) ELSE order
        /\ worker' = [worker EXCEPT ![w] = "boxing"]
        /\ UNCHANGED <<server, accepting, taken, frame, boxes, seq, globalSeq, sessionVars>>

\* publish() returns early: not running, or imencode() returned false.
NotStored(w) ==
    /\ MayRun /\ worker[w] = "publishing"
    /\ worker' = [worker EXCEPT ![w] = "boxing"]
    /\ UNCHANGED <<server, accepting, taken, frame, stateVars, sessionVars>>

\* Mutant: global_det_seq counts cameras, not updates.
StoreDetsPerCamera(w) ==
    LET c == CameraOf[w]
    IN  /\ MayRun /\ worker[w] = "boxing"
        /\ boxes' = [boxes EXCEPT ![c] = frame[w]]
        /\ seq' = [seq EXCEPT ![c] = @ + 1]
        /\ globalSeq' = IF seq[c] = 0 THEN globalSeq + 1 ELSE globalSeq
        /\ worker' = [worker EXCEPT ![w] = "idle"]
        /\ UNCHANGED <<server, accepting, taken, frame, latest, order, sessionVars>>

\* publish_detections() sees running; store_dets().
StoreDets(w) ==
    LET c == CameraOf[w]
    IN  /\ MayRun /\ worker[w] = "boxing"
        /\ boxes' = [boxes EXCEPT ![c] = frame[w]]
        /\ seq' = [seq EXCEPT ![c] = @ + 1]
        /\ globalSeq' = globalSeq + 1
        /\ worker' = [worker EXCEPT ![w] = "idle"]
        /\ UNCHANGED <<server, accepting, taken, frame, latest, order, sessionVars>>

DetsNotStored(w) ==
    /\ MayRest /\ worker[w] = "boxing"
    /\ worker' = [worker EXCEPT ![w] = "idle"]
    /\ UNCHANGED <<server, accepting, taken, frame, stateVars, sessionVars>>

Publish(w) == TakeFrame(w) \/ Store(w) \/ NotStored(w) \/ StoreDets(w) \/ DetsNotStored(w)

-----------------------------------------------------------------------------
(* The handlers of the I/O thread                                           *)

\* latest_for: without a name, the camera that was first in the list.
PictureFor(camera) ==
    LET c == IF camera = All /\ order # <<>> THEN Head(order) ELSE camera
    IN  IF c = All THEN {} ELSE {<<c, latest[c]>>} \ {<<c, 0>>}

\* latest_dets_all and latest_dets_for: the boxes, and how often they changed.
BoxesFor(camera) ==
    {<<c, boxes[c]>> : c \in {d \in Cameras : boxes[d] # 0 /\ camera \in {d, All}}}
SeqFor(camera) == IF camera = All THEN globalSeq ELSE seq[camera]

\* cameras_json: the cameras that have a picture and their places.
Places == {<<order[i], i>> : i \in DOMAIN order}

\* What a session that is asked for a now sends if it sends anything.
Content(a) ==
    IF a.path = "stream" THEN PictureFor(a.camera)
    ELSE IF a.path = "detections" THEN BoxesFor(a.camera)
    ELSE IF a.path = "cameras" THEN Places
    ELSE {}

\* The handler of start_accept; it may read the old value of running.
Accept(s) ==
    /\ Serving /\ accepting = "yes" /\ session[s] = "none"
    /\ session' = [session EXCEPT ![s] = "reading"]
    /\ UNCHANGED <<server, accepting, workerVars, stateVars, ask, out, lastSeq, got>>

AcceptEnds ==
    /\ server = "stopping" /\ accepting = "yes"
    /\ accepting' = "no"
    /\ UNCHANGED <<server, workerVars, stateVars, sessionVars>>

\* route(): the request is read and asks for a.
Route(s, a) ==
    /\ Serving /\ session[s] = "reading"
    /\ ask' = [ask EXCEPT ![s] = a]
    /\ IF a.path \in {"stream", "detections"}
       THEN /\ session' = [session EXCEPT ![s] = "header"]
            /\ UNCHANGED out
       ELSE /\ session' = [session EXCEPT ![s] = "answering"]
            /\ out' = [out EXCEPT ![s] = Content(a)]
    /\ UNCHANGED <<server, accepting, workerVars, stateVars, lastSeq, got>>

\* Mutant: only whether something was sent is tested, not what.
FreshOnce(s) == Content(ask[s]) # {} /\ out[s] = {}

\* mjpeg_tick and sse_tick: is there something, and is it not what was sent?
Fresh(s) ==
    /\ Content(ask[s]) # {}
    /\ IF ask[s].path = "stream" THEN Content(ask[s]) # out[s]
                                 ELSE SeqFor(ask[s].camera) # lastSeq[s]

\* The header is written, or the timer fires, and there is something to send.
Send(s) ==
    /\ Serving /\ session[s] \in {"header", "waiting"} /\ Fresh(s)
    /\ session' = [session EXCEPT ![s] = "writing"]
    /\ out' = [out EXCEPT ![s] = Content(ask[s])]
    /\ lastSeq' = IF ask[s].path = "detections"
                  THEN [lastSeq EXCEPT ![s] = SeqFor(ask[s].camera)]
                  ELSE lastSeq
    /\ UNCHANGED <<server, accepting, workerVars, stateVars, ask, got>>

\* There is nothing to send: the timer is armed, or armed again.
Idle(s) ==
    /\ Serving /\ session[s] \in {"header", "waiting"} /\ ~Fresh(s)
    /\ session' = [session EXCEPT ![s] = "waiting"]
    /\ UNCHANGED <<server, accepting, workerVars, stateVars, ask, out, lastSeq, got>>

\* async_write ends well: a stream arms its timer, a one-shot session ends.
WriteDone(s) ==
    /\ Serving /\ session[s] \in {"writing", "answering"}
    /\ got' = [got EXCEPT ![s] = out[s]]
    /\ session' = [session EXCEPT ![s] =
                       IF session[s] = "writing" THEN "waiting" ELSE "closed"]
    /\ UNCHANGED <<server, accepting, workerVars, stateVars, ask, out, lastSeq>>

\* The client is gone, or sent no request for 30 s: the handler returns and
\* the session goes with it.
Fails(s) ==
    /\ Serving /\ session[s] \in {"reading", "header", "writing", "answering"}
    /\ session' = [session EXCEPT ![s] = "closed"]
    /\ UNCHANGED <<server, accepting, workerVars, stateVars, ask, out, lastSeq, got>>

Tick(s) == Send(s) \/ Idle(s)
Write(s) == WriteDone(s) \/ Fails(s)

Next ==
    \/ Start \/ StartFails \/ StopFlag \/ StopJoins
    \/ \E w \in Workers : Publish(w)
    \/ \E s \in Sessions : \/ Accept(s) \/ Tick(s) \/ Write(s)
                           \/ \E a \in Asks : Route(s, a)
    \/ AcceptEnds

Spec == Init /\ [][Next]_vars

(* The I/O thread runs a timer that has fired.  A client takes what is      *)
(* written or goes away: the server itself gives a stream no time limit.    *)
(* Nobody has to connect, to ask, to publish or to stop.                    *)
Fairness ==
    \A s \in Sessions : /\ WF_vars(Tick(s))
                        /\ WF_vars(Write(s) /\ session[s] \in {"writing", "answering"})

FairSpec == Spec /\ Fairness

-----------------------------------------------------------------------------
(* Safety                                                                   *)

Shown == SUBSET (Cameras \X Nat)

TypeOK ==
    /\ server \in {"down", "failed", "up", "stopping", "stopped"}
    /\ accepting \in {"yes", "no"}
    /\ taken \in [Cameras -> Nat]
    /\ worker \in [Workers -> WorkerPlaces] /\ frame \in [Workers -> Nat]
    /\ latest \in [Cameras -> Nat] /\ order \in Seq(Cameras)
    /\ boxes \in [Cameras -> Nat] /\ seq \in [Cameras -> Nat] /\ globalSeq \in Nat
    /\ session \in [Sessions -> SessionPlaces]
    /\ ask \in [Sessions -> [path : Paths, camera : Cameras \cup {All}]]
    /\ out \in [Sessions -> Shown] /\ got \in [Sessions -> Shown]
    /\ lastSeq \in [Sessions -> Nat]

\* sse_tick compares counters in place of boxes: when its counter is the one
\* of the store, what the session sent last is what the store has, so that no
\* update is ever taken for one already sent.
NoUpdateMasked ==
    \A s \in Sessions :
        (ask[s].path = "detections" /\ lastSeq[s] = SeqFor(ask[s].camera))
            => out[s] = BoxesFor(ask[s].camera)

\* Cameras keep the places they got: a list answered to /cameras stays right
\* while it is in use, and a stream that asked for no camera by name stays
\* with the camera it began with.
PlacesKept ==
    \A s \in Sessions :
        /\ ask[s].path = "cameras" => out[s] \cup got[s] \subseteq Places
        /\ (ask[s].path = "stream" /\ ask[s].camera = All) =>
               \A x \in out[s] \cup got[s] : order # <<>> /\ x[1] = Head(order)

\* A client never goes back in time: of each camera, the picture or the boxes
\* it has are replaced by newer ones only.  For cameras with one worker.
NeverBack ==
    [][\A s \in Sessions : ask[s].path \in {"stream", "detections"} =>
           \A x \in got[s], y \in got'[s] : x[1] = y[1] => x[2] <= y[2]]_vars

-----------------------------------------------------------------------------
(* Liveness                                                                 *)

\* A client that stays gets the newest picture and boxes: what a stream could
\* show now, it shows, or something newer, even if nothing more is published.
\* For cameras with one worker.
ViewCatchesUp ==
    \A s \in Sessions, c \in Cameras, n \in 1 .. MaxFrames :
        (/\ server = "up" /\ session[s] \in {"header", "writing", "waiting"}
         /\ <<c, n>> \in Content(ask[s]))
            ~> \/ \E m \in n .. MaxFrames : <<c, m>> \in got[s]
               \/ session[s] = "closed" \/ server # "up"
=============================================================================
