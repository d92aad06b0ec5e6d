---------------------------- MODULE CameraService ----------------------------
(***************************************************************************)
(* What a camera's pipeline promises to whoever owns it: it hands pictures *)
(* and alerts to its sinks only between start() and the return of stop(),  *)
(* and a stop() that began is not undone.  FrameProcessingPipeline         *)
(* implements it; ForkliftSystem is built on it.                           *)
(***************************************************************************)
EXTENDS Naturals

VARIABLES life,    \* "idle", "running", "stopping" or "stopped"
          view,    \* what the live view was given last
          raised   \* how many alerts publish() was called with

vars == <<life, view, raised>>

Init == life = "idle" /\ raised = 0

Alive == life \in {"running", "stopping"}

Begin == /\ life \in {"idle", "stopped"}
         /\ life' = "running"
         /\ UNCHANGED <<view, raised>>

Cease == /\ life = "running"
         /\ life' = "stopping"
         /\ UNCHANGED <<view, raised>>

Rest == /\ life = "stopping"
        /\ life' = "stopped"
        /\ UNCHANGED <<view, raised>>

Show == /\ Alive
        /\ view' # view
        /\ UNCHANGED <<life, raised>>

Raise == /\ Alive
         /\ raised' = raised + 1
         /\ UNCHANGED <<life, view>>

Next == Begin \/ Cease \/ Rest \/ Show \/ Raise

Spec == Init /\ [][Next]_vars
=============================================================================
