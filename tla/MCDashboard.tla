----------------------------- MODULE MCDashboard -----------------------------
(* Dashboard with a WebSocket to spare.                                     *)
EXTENDS Dashboard
===============================================================================
