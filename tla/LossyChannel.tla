---------------------------- MODULE LossyChannel ----------------------------
(***************************************************************************)
(* What the frame path promises: a channel that holds at most Bound        *)
(* elements, hands each element out at most once and in the order it was   *)
(* accepted, and may lose an element only by giving up everything older    *)
(* than it first.  Elements are numbered in the order of acceptance.       *)
(***************************************************************************)
EXTENDS Naturals, Sequences

CONSTANT Bound

VARIABLES sent,     \* how many elements were accepted
          settled,  \* elements 1..settled have been handed out or lost
          got       \* the elements handed out, in the order they were

vars == <<sent, settled, got>>

Init == sent = 0 /\ settled = 0 /\ got = <<>>

\* Accept one element, giving up as many of the oldest as it takes to fit.
Send == /\ sent' = sent + 1
        /\ settled' \in settled .. sent
        /\ sent' - settled' <= Bound
        /\ UNCHANGED got

\* Hand out a pending element; the older ones are lost.
Receive == \E m \in (settled + 1) .. sent :
              /\ got' = Append(got, m)
              /\ settled' = m
              /\ UNCHANGED sent

Next == Send \/ Receive

Spec == Init /\ [][Next]_vars
=============================================================================
