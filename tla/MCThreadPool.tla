----------------------------- MODULE MCThreadPool -----------------------------
(* ThreadPool on small sets of workers and clients.                         *)
EXTENDS ThreadPool
=============================================================================
