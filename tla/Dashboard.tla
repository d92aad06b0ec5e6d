----------------------------- MODULE Dashboard -----------------------------
(***************************************************************************)
(* The page web/app.js in a browser, beside the process it shows: the      *)
(* discovery of the cameras, the slots they are shown in, the boxes that   *)
(* the one event stream brings for all of them, the WebSocket of the       *)
(* alerts and the list of alerts.                                          *)
(*                                                                         *)
(* JavaScript runs one callback at a time, so a callback is one action.    *)
(* The process is what LiveView and WebSocketAlertPublisher promise of it: *)
(* a list of cameras that only grows until the process is restarted, and   *)
(* the alerts in order, from when a connection is ready.  A restarted      *)
(* process may know the cameras in another order.  Alerts are numbered in  *)
(* the order in which they are raised, through restarts.                   *)
(***************************************************************************)
EXTENDS Integers, Sequences, FiniteSets

CONSTANTS
    Cameras,     \* the cameras that the process may get pictures of
    None,        \* no camera: null
    MaxCameras,  \* MAX_CAMERAS, the number of slots
    ListLimit,   \* MAX_ALERTS
    Sockets,     \* the WebSocket objects that the browser may have at a time
    MaxAlerts,   \* bound: alerts raised
    MaxRestarts, \* bound: restarts of the process
    MaxLosses    \* bound: connections lost while the process runs

ASSUME NoneAssumption == None \notin Cameras
ASSUME LimitsAssumption == MaxCameras \in Nat /\ ListLimit \in Nat

VARIABLES
    up,       \* the process runs
    restarts, losses, alert,   \* counters for the bounds; the newest alert
    order,    \* camera_order of the viewer
    poll,     \* the two calls of loadCameras: see PollPlaces
    answer,   \* the list that a poll was answered with, until it is used
    camId,    \* camId of each slot, which its img streams
    lastData, \* lastData of each slot: the camera whose boxes these are
    drawing,  \* the camera of the data that a slot's drawFrame is due with
    canvas,   \* the camera whose boxes the canvas of each slot shows
    socket,   \* the state of each WebSocket: see SocketPlaces
    transit,  \* the alerts that a WebSocket has not handed to the page yet
    timers,   \* how many connectAlerts are due, by setTimeout
    status,   \* ws-label
    list      \* the alerts shown, newest first

Slots == 1 .. MaxCameras

\* "later": the timeout of the second call;  "asked": the request is sent;
\* "answered": the answer is on its way;  "over": used, or fetch failed.
Polls == {1, 2}
PollPlaces == {"later", "asked", "answered", "over"}

\* "broken": the connection is lost and the page has not been told;
\* "erring": onerror is called and onclose is due.
SocketPlaces == {"none", "connecting", "open", "broken", "erring"}

serverVars == <<up, restarts, losses, alert, order>>
pollVars == <<poll, answer>>
slotVars == <<camId, lastData, drawing, canvas>>
alertVars == <<socket, transit, timers, status, list>>
vars == <<serverVars, pollVars, slotVars, alertVars>>

\* A WebSocket object that is not in use; one is like the other.
Free(sockets) == CHOOSE k \in Sockets : sockets[k] = "none"

Unused == [k \in Sockets |-> "none"]

\* connectAlerts: a new WebSocket.
Opened(sockets) == [sockets EXCEPT ![Free(sockets)] = "connecting"]

\* DOMContentLoaded: the page comes from a process that runs.
Init ==
    /\ up = TRUE /\ restarts = 0 /\ losses = 0 /\ alert = 0 /\ order = <<>>
    /\ poll = [p \in Polls |-> IF p = 1 THEN "asked" ELSE "later"]
    /\ answer = [p \in Polls |-> <<>>]
    /\ camId = [i \in Slots |-> None] /\ lastData = [i \in Slots |-> None]
    /\ drawing = [i \in Slots |-> None] /\ canvas = [i \in Slots |-> None]
    /\ socket = Opened(Unused)
    /\ transit = [k \in Sockets |-> <<>>]
    /\ timers = 0 /\ status = "connecting" /\ list = <<>>

-----------------------------------------------------------------------------
(* The process                                                              *)

Known == {order[i] : i \in DOMAIN order}

\* The first picture of a camera is stored.
CameraAppears(c) ==
    /\ up /\ c \notin Known
    /\ order' = Append(order, c)
    /\ UNCHANGED <<up, restarts, losses, alert, pollVars, slotVars, alertVars>>

\* An alert is raised and written to every connection that is open.
Raise ==
    /\ up /\ alert < MaxAlerts
    /\ alert' = alert + 1
    /\ transit' = [k \in Sockets |-> IF socket[k] = "open"
                                     THEN Append(transit[k], alert') ELSE transit[k]]
    /\ UNCHANGED <<up, restarts, losses, order, pollVars, slotVars,
                   socket, timers, status, list>>

Connected == {k \in Sockets : socket[k] \in {"connecting", "open"}}

\* The process ends and takes its connections with it.
Down ==
    /\ up
    /\ up' = FALSE
    /\ socket' = [k \in Sockets |-> IF k \in Connected THEN "broken" ELSE socket[k]]
    /\ UNCHANGED <<restarts, losses, alert, order, pollVars, slotVars,
                   transit, timers, status, list>>

\* The service is restarted and knows no camera.
Restart ==
    /\ ~up /\ restarts < MaxRestarts
    /\ up' = TRUE /\ restarts' = restarts + 1 /\ order' = <<>>
    /\ UNCHANGED <<losses, alert, pollVars, slotVars, alertVars>>

\* A connection is lost while the process runs.
Lose(k) ==
    /\ up /\ k \in Connected /\ losses < MaxLosses
    /\ losses' = losses + 1
    /\ socket' = [socket EXCEPT ![k] = "broken"]
    /\ UNCHANGED <<up, restarts, alert, order, pollVars, slotVars,
                   transit, timers, status, list>>

-----------------------------------------------------------------------------
(* Discovery and slots                                                      *)

\* POLL_CAMERAS_MS after the page is loaded, whatever became of the first.
PollAgain ==
    /\ poll[2] = "later"
    /\ poll' = [poll EXCEPT ![2] = "asked"]
    /\ UNCHANGED <<serverVars, answer, slotVars, alertVars>>

\* GET /cameras.
Answer(p) ==
    /\ up /\ poll[p] = "asked"
    /\ poll' = [poll EXCEPT ![p] = "answered"]
    /\ answer' = [answer EXCEPT ![p] = order]
    /\ UNCHANGED <<serverVars, slotVars, alertVars>>

\* fetch() or json() throws: the call returns.
PollFails(p) ==
    /\ poll[p] \in {"asked", "answered"}
    /\ poll' = [poll EXCEPT ![p] = "over"] /\ answer' = [answer EXCEPT ![p] = <<>>]
    /\ UNCHANGED <<serverVars, slotVars, alertVars>>

\* Mutant: every slot takes what the list has at its place, or undefined.
AssignAll(cameras) ==
    /\ camId' = [i \in Slots |-> IF i <= Len(cameras) THEN cameras[i] ELSE <<>>]
    /\ lastData' = [i \in Slots |-> None]

\* Mutant: a slot that gets another camera keeps its boxes.
AssignKeepsBoxes(cameras) ==
    /\ camId' = [i \in Slots |-> IF i <= Len(cameras) THEN cameras[i] ELSE camId[i]]
    /\ UNCHANGED lastData

\* assignCamera for the slots whose camera is another one.  It leaves the
\* canvas, and a drawFrame that is due, as they are.
Assign(cameras) ==
    LET changed == {i \in Slots : i <= Len(cameras) /\ camId[i] # cameras[i]}
    IN  /\ camId' = [i \in Slots |-> IF i \in changed THEN cameras[i] ELSE camId[i]]
        /\ lastData' = [i \in Slots |-> IF i \in changed THEN None ELSE lastData[i]]

\* loadCameras goes on with the answer.
Use(p) ==
    /\ poll[p] = "answered"
    /\ poll' = [poll EXCEPT ![p] = "over"] /\ answer' = [answer EXCEPT ![p] = <<>>]
    /\ Assign(answer[p])
    /\ UNCHANGED <<serverVars, drawing, canvas, alertVars>>

\* sse.onmessage with the boxes of c, which may come from the process before
\* a restart: the first slot with this camera takes them, if there is one,
\* and has drawFrame called with them in the next animation frame.  Of two
\* that are due in a slot the later one draws over the earlier.
Boxes(c) ==
    /\ \E i \in Slots : /\ camId[i] = c
                        /\ \A j \in Slots : j < i => camId[j] # c
                        /\ lastData' = [lastData EXCEPT ![i] = c]
                        /\ drawing' = [drawing EXCEPT ![i] = c]
    /\ UNCHANGED <<serverVars, pollVars, camId, canvas, alertVars>>

\* drawFrame in the slots that have data for it; it does nothing while the
\* page gives the pictures no room.
DrawFrame(data) ==
    \/ canvas' = [i \in Slots |-> IF data[i] = None THEN canvas[i] ELSE data[i]]
    \/ UNCHANGED canvas

\* The browser's next animation frame: every drawFrame that is due.
AnimationFrame ==
    /\ \E i \in Slots : drawing[i] # None
    /\ DrawFrame(drawing)
    /\ drawing' = [i \in Slots |-> None]
    /\ UNCHANGED <<serverVars, pollVars, camId, lastData, alertVars>>

\* A checkbox of the overlay: redraw in every slot that has lastData.
Toggle ==
    /\ DrawFrame(lastData)
    /\ UNCHANGED <<serverVars, pollVars, camId, lastData, drawing, alertVars>>

-----------------------------------------------------------------------------
(* Alerts                                                                   *)

\* ws.onopen: the handshake is done on both sides.
Open(k) ==
    /\ up /\ socket[k] = "connecting"
    /\ socket' = [socket EXCEPT ![k] = "open"]
    /\ status' = "connected"
    /\ UNCHANGED <<serverVars, pollVars, slotVars, transit, timers, list>>

\* A connection cannot be made to a process that is down.
Refused(k) ==
    /\ ~up /\ socket[k] = "connecting"
    /\ socket' = [socket EXCEPT ![k] = "broken"]
    /\ UNCHANGED <<serverVars, pollVars, slotVars, transit, timers, status, list>>

Newest(s) == SubSeq(s, 1, IF Len(s) > ListLimit THEN ListLimit ELSE Len(s))

\* ws.onmessage and addAlert.
AddAlert(k) ==
    /\ socket[k] \in {"open", "broken"} /\ transit[k] # <<>>
    /\ list' = Newest(<<Head(transit[k])>> \o list)
    /\ transit' = [transit EXCEPT ![k] = Tail(@)]
    /\ UNCHANGED <<serverVars, pollVars, slotVars, socket, timers, status>>

\* Mutant: an error, too, schedules a new connection.
OnErrorReconnects(k) ==
    /\ socket[k] = "broken"
    /\ socket' = [socket EXCEPT ![k] = "erring"]
    /\ transit' = [transit EXCEPT ![k] = <<>>]
    /\ timers' = timers + 1
    /\ UNCHANGED <<serverVars, pollVars, slotVars, status, list>>

\* ws.onerror, which colours the dot; nothing is received any more.
OnError(k) ==
    /\ socket[k] = "broken"
    /\ socket' = [socket EXCEPT ![k] = "erring"]
    /\ transit' = [transit EXCEPT ![k] = <<>>]
    /\ UNCHANGED <<serverVars, pollVars, slotVars, timers, status, list>>

\* Mutant: only a connection that had been made is made again.
OnCloseOnce(k) ==
    /\ socket[k] \in {"broken", "erring"}
    /\ socket' = [socket EXCEPT ![k] = "none"]
    /\ transit' = [transit EXCEPT ![k] = <<>>]
    /\ timers' = IF status = "connected" THEN timers + 1 ELSE timers
    /\ status' = "reconnecting"
    /\ UNCHANGED <<serverVars, pollVars, slotVars, list>>

\* ws.onclose, with or without an error before it.
OnClose(k) ==
    /\ socket[k] \in {"broken", "erring"}
    /\ socket' = [socket EXCEPT ![k] = "none"]
    /\ transit' = [transit EXCEPT ![k] = <<>>]
    /\ timers' = timers + 1
    /\ status' = "reconnecting"
    /\ UNCHANGED <<serverVars, pollVars, slotVars, list>>

\* 3 s after onclose: connectAlerts.
Reconnect ==
    /\ timers > 0 /\ \E k \in Sockets : socket[k] = "none"
    /\ timers' = timers - 1
    /\ socket' = Opened(socket)
    /\ UNCHANGED <<serverVars, pollVars, slotVars, transit, status, list>>

\* The button that clears the list.
Clear ==
    /\ list # <<>>
    /\ list' = <<>>
    /\ UNCHANGED <<serverVars, pollVars, slotVars, socket, transit, timers, status>>

Process == (\E c \in Cameras : CameraAppears(c)) \/ Raise \/ Down \/ Restart
Cells ==
    \/ PollAgain
    \/ \E p \in Polls : Answer(p) \/ PollFails(p) \/ Use(p)
    \/ \E c \in Cameras : Boxes(c)
    \/ AnimationFrame \/ Toggle
Connection(k) ==
    Open(k) \/ Refused(k) \/ AddAlert(k) \/ OnError(k) \/ OnClose(k)

Next ==
    \/ Process \/ Cells \/ Reconnect \/ Clear
    \/ \E k \in Sockets : Connection(k) \/ Lose(k)

Spec == Init /\ [][Next]_vars

(* The browser runs timers that are due, tells the page of what happened to *)
(* a connection, and makes one when the process runs.  Nobody has to        *)
(* restart the process.                                                     *)
Fairness ==
    /\ \A k \in Sockets : WF_vars(Connection(k))
    /\ WF_vars(Reconnect)

FairSpec == Spec /\ Fairness

-----------------------------------------------------------------------------
(* Properties                                                               *)

TypeOK ==
    /\ up \in BOOLEAN /\ alert \in Nat /\ order \in Seq(Cameras)
    /\ restarts \in Nat /\ losses \in Nat
    /\ poll \in [Polls -> PollPlaces] /\ answer \in [Polls -> Seq(Cameras)]
    /\ camId \in [Slots -> Cameras \cup {None}]
    /\ \A slots \in {lastData, drawing, canvas} : slots \in [Slots -> Cameras \cup {None}]
    /\ socket \in [Sockets -> SocketPlaces] /\ transit \in [Sockets -> Seq(Nat)]
    /\ timers \in Nat /\ status \in {"connecting", "connected", "reconnecting"}
    /\ list \in Seq(Nat)

\* However late and in whatever order the two lists of cameras arrive, a slot
\* streams the camera that the viewer lists at its place and shows no boxes
\* of another, as long as the process was not restarted.  After a restart a
\* slot may get another camera, and goes on showing the boxes of the former
\* one, or draws them even then; but from the first message of its own
\* camera, whatever it draws is of that camera.
SlotsConsistent ==
    \A i \in Slots :
        /\ restarts = 0 =>
              /\ camId[i] # None => i \in DOMAIN order /\ camId[i] = order[i]
              /\ canvas[i] \in {None, camId[i]}
        /\ lastData[i] # None =>
              lastData[i] = camId[i] /\ drawing[i] \in {None, camId[i]}

\* No alert is shown twice or out of order, and the list keeps within
\* MAX_ALERTS, through lost connections, restarts and reconnection.
AlertsOnce ==
    /\ \A i, j \in DOMAIN list : i < j => list[i] > list[j]
    /\ Len(list) <= ListLimit

\* A page whose process runs for good is connected to its alerts for good,
\* however often connections failed before.
Reconnects == <>[]up => <>[](status = "connected")
=============================================================================
