-------------------------- MODULE MCConcurrentQueue --------------------------
(* ConcurrentQueue on small sets of threads, both overflow policies.        *)
EXTENDS ConcurrentQueue
=============================================================================
