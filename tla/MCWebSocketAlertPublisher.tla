---------------------- MODULE MCWebSocketAlertPublisher ----------------------
(* WebSocketAlertPublisher on small instances. *)
EXTENDS WebSocketAlertPublisher
=============================================================================
