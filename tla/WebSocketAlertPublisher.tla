----------------------- MODULE WebSocketAlertPublisher -----------------------
(***************************************************************************)
(* forklift::infrastructure::transport::WebSocketAlertPublisher, built     *)
(* with Boost.Beast: the queue that publish() fills on any thread, the     *)
(* drains it posts to the I/O thread, and one Session per connection.      *)
(*                                                                         *)
(* The I/O thread runs one handler at a time, so a handler is one action;  *)
(* the only state it shares with the others are queue, under queue_mu, and *)
(* running, which no lock protects.  An alert is its rank among those      *)
(* published.                                                              *)
(***************************************************************************)
EXTENDS Integers, Sequences, FiniteSets

CONSTANTS
    Publishers, \* the threads that call publish()
    Sessions,   \* the connections that clients can make, each one Session
    MaxQueue,   \* kMaxQueue
    MaxAlerts   \* bound: alerts published

ASSUME ThreadsAssumption == IsFiniteSet(Publishers)
ASSUME BoundsAssumption == MaxQueue \in Nat \ {0} /\ MaxAlerts \in Nat

VARIABLES
    server,     \* how far start() and stop() have come: see ServerPlaces
    accepting,  \* "yes" while an async_accept is outstanding
    queue,      \* queue
    posted,     \* calls of do_drain handed to ioc and not yet run
    publisher,  \* where each publisher is: "free" or "posting"
    session,    \* "none", "handshaking", "ready" or "removed"
    pending,    \* pending_ of each session
    writing,    \* the alert each session has in async_write, or 0: writing_
    published,  \* history: number of alerts published
    drained,    \* history: the alerts do_drain took, in order
    joined,     \* history: number of alerts drained when a session got ready
    received    \* history: the alerts whose async_write ended well, by session

sessionVars == <<session, pending, writing, joined, received>>
queueVars == <<queue, posted, publisher, published, drained>>
vars == <<server, accepting, sessionVars, queueVars>>

\* "down":     start() was not called;        "failed":  it returned an error;
\* "up":       running;                       "stopping": running is false again;
\* "flushing": stop() has posted a last drain and sleeps;
\* "stopped":  ioc.stop() was called and the I/O thread joined.
ServerPlaces == {"down", "failed", "up", "stopping", "flushing", "stopped"}

\* The I/O thread runs handlers.
Serving == server \in {"up", "stopping", "flushing"}

Init ==
    /\ server = "down" /\ accepting = "no"
    /\ queue = <<>> /\ posted = 0
    /\ publisher = [p \in Publishers |-> "free"]
    /\ session = [s \in Sessions |-> "none"]
    /\ pending = [s \in Sessions |-> <<>>]
    /\ writing = [s \in Sessions |-> 0]
    /\ published = 0 /\ drained = <<>>
    /\ joined = [s \in Sessions |-> 0]
    /\ received = [s \in Sessions |-> <<>>]

-----------------------------------------------------------------------------
(* start() and stop()                                                       *)

Start ==
    /\ server = "down"
    /\ server' = "up" /\ accepting' = "yes"
    /\ UNCHANGED <<sessionVars, queueVars>>

\* The address is bad or cannot be bound; a second start() fails as well.
StartFails ==
    /\ server = "down"
    /\ server' = "failed"
    /\ UNCHANGED <<accepting, sessionVars, queueVars>>

StopFlag ==
    /\ server = "up"
    /\ server' = "stopping"
    /\ UNCHANGED <<accepting, sessionVars, queueVars>>

StopPostsDrain ==
    /\ server = "stopping"
    /\ server' = "flushing"
    /\ posted' = posted + 1
    /\ UNCHANGED <<accepting, sessionVars, queue, publisher, published, drained>>

\* After the sleep, whatever the I/O thread got done: ioc.stop() and join.
StopsIo ==
    /\ server = "flushing"
    /\ server' = "stopped"
    /\ UNCHANGED <<accepting, sessionVars, queueVars>>

Stop == StopFlag \/ StopPostsDrain \/ StopsIo

-----------------------------------------------------------------------------
(* publish(): enqueue under queue_mu, then post.  It does not ask whether   *)
(* the server runs.                                                         *)

\* Mutant: the size of the queue is not looked at.
EnqueueUnbounded(p) ==
    /\ publisher[p] = "free" /\ published < MaxAlerts
    /\ published' = published + 1
    /\ queue' = Append(queue, published')
    /\ publisher' = [publisher EXCEPT ![p] = "posting"]
    /\ UNCHANGED <<server, accepting, sessionVars, posted, drained>>

\* Mutant: the newest alert goes when the queue is full.
EnqueueOverNewest(p) ==
    /\ publisher[p] = "free" /\ published < MaxAlerts
    /\ published' = published + 1
    /\ queue' = Append(IF Len(queue) >= MaxQueue
                       THEN SubSeq(queue, 1, Len(queue) - 1) ELSE queue, published')
    /\ publisher' = [publisher EXCEPT ![p] = "posting"]
    /\ UNCHANGED <<server, accepting, sessionVars, posted, drained>>

\* Mutant: publish() does not post.
EnqueueSilently(p) ==
    /\ publisher[p] = "free" /\ published < MaxAlerts
    /\ published' = published + 1
    /\ queue' = Append(IF Len(queue) >= MaxQueue THEN Tail(queue) ELSE queue,
                       published')
    /\ UNCHANGED <<server, accepting, sessionVars, posted, publisher, drained>>

Enqueue(p) ==
    /\ publisher[p] = "free" /\ published < MaxAlerts
    /\ published' = published + 1
    /\ queue' = Append(IF Len(queue) >= MaxQueue THEN Tail(queue) ELSE queue,
                       published')
    /\ publisher' = [publisher EXCEPT ![p] = "posting"]
    /\ UNCHANGED <<server, accepting, sessionVars, posted, drained>>

PostDrain(p) ==
    /\ publisher[p] = "posting"
    /\ publisher' = [publisher EXCEPT ![p] = "free"]
    /\ posted' = posted + 1
    /\ UNCHANGED <<server, accepting, sessionVars, queue, published, drained>>

-----------------------------------------------------------------------------
(* The handlers of the I/O thread                                           *)

\* The handler of start_accept takes a connection.  Once stop() has cleared
\* running it may still read the old value.
Accept(s) ==
    /\ Serving /\ accepting = "yes" /\ session[s] = "none"
    /\ session' = [session EXCEPT ![s] = "handshaking"]
    /\ UNCHANGED <<server, accepting, pending, writing, joined, received, queueVars>>

\* It sees running cleared and does not accept again.
AcceptEnds ==
    /\ server \in {"stopping", "flushing"} /\ accepting = "yes"
    /\ accepting' = "no"
    /\ UNCHANGED <<server, sessionVars, queueVars>>

HandshakeDone(s) ==
    /\ Serving /\ session[s] = "handshaking"
    /\ session' = [session EXCEPT ![s] = "ready"]
    /\ joined' = [joined EXCEPT ![s] = Len(drained)]
    /\ UNCHANGED <<server, accepting, pending, writing, received, queueVars>>

HandshakeFails(s) ==
    /\ Serving /\ session[s] = "handshaking"
    /\ session' = [session EXCEPT ![s] = "removed"]
    /\ UNCHANGED <<server, accepting, pending, writing, joined, received, queueVars>>

\* What session s holds to send once payloads are added: one is written, the
\* others wait.
Backlog(s) == IF writing[s] = 0 THEN pending[s] ELSE <<writing[s]>> \o pending[s]
NowWriting(backlog) == IF backlog = <<>> THEN 0 ELSE Head(backlog)
NowPending(backlog) == IF backlog = <<>> THEN <<>> ELSE Tail(backlog)

\* Sessions that take the payloads of a drain: send() returns at once unless
\* ready_.
Receivers == {s \in Sessions : session[s] = "ready"}

\* Mutant: send() does not look at writing_ and writes over it.
DrainOverWrite ==
    /\ Serving /\ posted > 0
    /\ posted' = posted - 1
    /\ drained' = drained \o queue /\ queue' = <<>>
    /\ writing' = [s \in Sessions |-> IF s \in Receivers /\ queue # <<>>
                                      THEN Head(queue) ELSE writing[s]]
    /\ pending' = [s \in Sessions |-> IF s \in Receivers /\ queue # <<>>
                                      THEN pending[s] \o Tail(queue) ELSE pending[s]]
    /\ UNCHANGED <<server, accepting, session, joined, received, publisher, published>>

\* do_drain: swap the queue out, then send() every payload to every session.
Drain ==
    LET after(s) == IF s \in Receivers THEN Backlog(s) \o queue ELSE Backlog(s)
    IN  /\ Serving /\ posted > 0
        /\ posted' = posted - 1
        /\ drained' = drained \o queue /\ queue' = <<>>
        /\ writing' = [s \in Sessions |-> NowWriting(after(s))]
        /\ pending' = [s \in Sessions |-> NowPending(after(s))]
        /\ UNCHANGED <<server, accepting, session, joined, received,
                       publisher, published>>

\* Mutant: the handler of async_write does not start the next write.
WriteDoneIdle(s) ==
    /\ Serving /\ writing[s] # 0
    /\ received' = [received EXCEPT ![s] = Append(@, writing[s])]
    /\ writing' = [writing EXCEPT ![s] = 0]
    /\ UNCHANGED <<server, accepting, session, joined, pending, queueVars>>

\* The handler of async_write: do_write() goes on with the next payload.
WriteDone(s) ==
    /\ Serving /\ writing[s] # 0
    /\ received' = [received EXCEPT ![s] = Append(@, writing[s])]
    /\ writing' = [writing EXCEPT ![s] = NowWriting(pending[s])]
    /\ pending' = [pending EXCEPT ![s] = NowPending(pending[s])]
    /\ UNCHANGED <<server, accepting, session, joined, queueVars>>

\* The same with an error: the client is gone or timed out.  The session is
\* removed and ends with its handler.
WriteFails(s) ==
    /\ Serving /\ writing[s] # 0
    /\ session' = [session EXCEPT ![s] = "removed"]
    /\ writing' = [writing EXCEPT ![s] = 0]
    /\ pending' = [pending EXCEPT ![s] = <<>>]
    /\ UNCHANGED <<server, accepting, joined, received, queueVars>>

Write(s) == WriteDone(s) \/ WriteFails(s)
Handshake(s) == HandshakeDone(s) \/ HandshakeFails(s)

Next ==
    \/ Start \/ StartFails \/ Stop
    \/ \E p \in Publishers : Enqueue(p) \/ PostDrain(p)
    \/ \E s \in Sessions : Accept(s) \/ Handshake(s) \/ Write(s)
    \/ AcceptEnds \/ Drain

Spec == Init /\ [][Next]_vars

(* The I/O thread runs what is posted to it, an async_write ends one way or *)
(* the other (Beast times it out), and a publish() that began goes on.      *)
(* Nobody has to connect, to publish or to stop.                            *)
Fairness ==
    /\ WF_vars(Drain)
    /\ \A s \in Sessions : WF_vars(Write(s))
    /\ \A p \in Publishers : WF_vars(PostDrain(p))

FairSpec == Spec /\ Fairness

-----------------------------------------------------------------------------
(* Safety                                                                   *)

Alerts == Nat \ {0}

TypeOK ==
    /\ server \in ServerPlaces /\ accepting \in {"yes", "no"}
    /\ queue \in Seq(Alerts) /\ Len(queue) <= MaxQueue /\ posted \in Nat /\ published \in Nat
    /\ publisher \in [Publishers -> {"free", "posting"}]
    /\ session \in [Sessions -> {"none", "handshaking", "ready", "removed"}]
    /\ pending \in [Sessions -> Seq(Alerts)]
    /\ writing \in [Sessions -> Alerts \cup {0}]
    /\ drained \in Seq(Alerts) /\ joined \in [Sessions -> Nat]
    /\ received \in [Sessions -> Seq(Alerts)]

\* "Every connected client receives every alert": what a ready session has
\* written, writes and holds back is exactly what was drained since its
\* handshake, in that order.  No alert is skipped, repeated or overtaken,
\* whatever publishers, drains and writes do in between.
StreamComplete ==
    \A s \in Sessions : session[s] = "ready" =>
        received[s] \o Backlog(s) = SubSeq(drained, joined[s] + 1, Len(drained))

\* While alerts wait in the queue of a server that runs, a drain is posted or
\* a publisher is about to post one: an alert never waits for the next alert.
NoStrandedAlert ==
    queue # <<>> => posted > 0 \/ \E p \in Publishers : publisher[p] = "posting"

\* Drop-oldest under any number of publishers: what is queued is the unbroken
\* newest part of what was published, and all that was drained is older and
\* in the order of publication.
NewestKept ==
    /\ \A i \in 1 .. Len(queue) : queue[i] = published - Len(queue) + i
    /\ \A i, j \in 1 .. Len(drained) : i < j => drained[i] < drained[j]
    /\ \A i \in 1 .. Len(drained) : drained[i] <= published - Len(queue)

-----------------------------------------------------------------------------
(* Liveness                                                                 *)

\* An alert published while session s is ready reaches its client, unless the
\* connection breaks, the queue overflows or the server is stopped: a slow or
\* broken client does not keep it from the others.
AlertsReachClients ==
    \A s \in Sessions, k \in 1 .. MaxAlerts :
        (server = "up" /\ session[s] = "ready" /\ k \in {queue[i] : i \in 1 .. Len(queue)})
            ~> \/ k \in {received[s][i] : i \in 1 .. Len(received[s])}
               \/ session[s] = "removed"
               \/ server \in {"stopping", "flushing", "stopped"}
               \/ /\ k \notin {queue[i] : i \in 1 .. Len(queue)}
                  /\ k \notin {drained[i] : i \in 1 .. Len(drained)}
=============================================================================
