--------------------------- MODULE ConcurrentQueue ---------------------------
(***************************************************************************)
(* forklift::shared::ConcurrentQueue, the bounded queue between a camera's *)
(* capture thread and its inference workers.                               *)
(*                                                                         *)
(* One action is one critical section of mu_.  A condition variable is the *)
(* set of the threads blocked on it: wait() adds the caller in the same    *)
(* step that found the predicate false, notify_one takes some thread out,  *)
(* notify_all takes all.  A thread taken out is still inside its call and  *)
(* re-evaluates the predicate when it gets the mutex.                      *)
(***************************************************************************)
EXTENDS Integers, Sequences, FiniteSets

CONSTANTS Producers,    \* threads that call push
          Consumers,    \* threads that call pop or pop_latest
          ConsumerOps,  \* the operations the consumers call
          Capacity,     \* capacity_
          Policies,     \* the overflow policies a queue can be constructed with
          MaxPush       \* bound: no new push once so many were accepted

ASSUME ThreadsAssumption ==
    /\ Producers \cap Consumers = {}
    /\ IsFiniteSet(Producers) /\ IsFiniteSet(Consumers)
ASSUME OpsAssumption == ConsumerOps \subseteq {"pop", "pop_latest"}
ASSUME CapacityAssumption == Capacity \in Nat \ {0}
ASSUME PolicyAssumption == Policies \subseteq {"BlockWhenFull", "DropOldestWhenFull"}
ASSUME MaxPushAssumption == MaxPush \in Nat

VARIABLES
    policy,     \* policy_, which the constructor sets for good
    items,      \* items_; an element is its rank among the accepted ones
    dropped,    \* dropped_
    notEmpty,   \* the consumers blocked on not_empty_
    notFull,    \* the producers blocked on not_full_
    call,       \* the operation each thread is inside of, or "none"
    closing,    \* how far the latest call of close() has come; see closed
    pushed,     \* history: number of elements accepted
    delivered,  \* history: elements returned to consumers, in order
    told        \* history: consumers that were returned std::nullopt

vars == <<policy, items, dropped, notEmpty, notFull, call, closing,
          pushed, delivered, told>>

\* closed_, which close() sets in its first step.
closed == closing # "open"

Threads == Producers \cup Consumers

Init ==
    /\ policy \in Policies
    /\ items = <<>> /\ dropped = 0
    /\ notEmpty = {} /\ notFull = {}
    /\ call = [t \in Threads |-> "none"]
    /\ closing = "open"
    /\ pushed = 0 /\ delivered = <<>> /\ told = {}

-----------------------------------------------------------------------------
(* Condition variables.                                                    *)

\* What notify_one can leave of the set of blocked threads.
NotifyOne(blocked) ==
    IF blocked = {} THEN {{}} ELSE {blocked \ {t} : t \in blocked}

Returns(t) == call' = [call EXCEPT ![t] = "none"]

\* Thread t can enter op, or is inside it and not blocked any more.
Runs(t, op) == call[t] \in {"none", op} /\ t \notin notEmpty \cup notFull

-----------------------------------------------------------------------------
(* push                                                                    *)

\* A thread inside push goes on; a new call is made while MaxPush allows it.
RunsPush(p) ==
    /\ Runs(p, "push")
    /\ \/ call[p] = "push"
       \/ pushed < MaxPush

\* Mutant: push_back without notify_one.
AcceptSilently(p, rest) ==
    /\ pushed' = pushed + 1
    /\ items' = Append(rest, pushed + 1)
    /\ Returns(p)
    /\ UNCHANGED <<policy, notEmpty, notFull, closing, delivered, told>>

\* push_back and notify_one, after the queue was cut down to rest.
Accept(p, rest) ==
    /\ pushed' = pushed + 1
    /\ items' = Append(rest, pushed + 1)
    /\ notEmpty' \in NotifyOne(notEmpty)
    /\ Returns(p)
    /\ UNCHANGED <<policy, notFull, closing, delivered, told>>

PushDropOldest(p) ==
    /\ policy = "DropOldestWhenFull"
    /\ RunsPush(p)
    /\ IF Len(items) >= Capacity
       THEN Accept(p, Tail(items)) /\ dropped' = dropped + 1
       ELSE Accept(p, items) /\ UNCHANGED dropped

\* Mutant: closed_ is not looked at after the wait.
PushBlockingClosed(p) ==
    /\ policy = "BlockWhenFull"
    /\ RunsPush(p)
    /\ Len(items) < Capacity
    /\ Accept(p, items)
    /\ UNCHANGED dropped

PushBlocking(p) ==
    /\ policy = "BlockWhenFull"
    /\ RunsPush(p)
    /\ ~closed
    /\ Len(items) < Capacity
    /\ Accept(p, items)
    /\ UNCHANGED dropped

PushWaits(p) ==
    /\ policy = "BlockWhenFull"
    /\ RunsPush(p)
    /\ ~closed
    /\ Len(items) >= Capacity
    /\ notFull' = notFull \cup {p}
    /\ call' = [call EXCEPT ![p] = "push"]
    /\ UNCHANGED <<policy, items, dropped, notEmpty, closing,
                   pushed, delivered, told>>

\* push returns false: the element is not enqueued.
PushRefused(p) ==
    /\ policy = "BlockWhenFull"
    /\ Runs(p, "push")
    /\ closed
    /\ Returns(p)
    /\ UNCHANGED <<policy, items, dropped, notEmpty, notFull, closing,
                   pushed, delivered, told>>

Push(p) == \/ PushDropOldest(p) \/ PushBlocking(p)
           \/ PushWaits(p) \/ PushRefused(p)

-----------------------------------------------------------------------------
(* pop and pop_latest                                                      *)

\* Mutant: the returned element is counted as dropped by the wrong number.
TakeMiscounts(c, k) ==
    /\ delivered' = Append(delivered, items[k])
    /\ items' = SubSeq(items, k + 1, Len(items))
    /\ dropped' = dropped + (k - 2)
    /\ notFull' \in NotifyOne(notFull)
    /\ Returns(c)
    /\ UNCHANGED <<policy, notEmpty, closing, pushed, told>>

\* Mutant: no notify_one on not_full_.
TakeSilently(c, k) ==
    /\ delivered' = Append(delivered, items[k])
    /\ items' = SubSeq(items, k + 1, Len(items))
    /\ dropped' = dropped + (k - 1)
    /\ Returns(c)
    /\ UNCHANGED <<policy, notEmpty, notFull, closing, pushed, told>>

\* Mutant: the element is copied out and stays in items_.
TakeCopies(c, k) ==
    /\ delivered' = Append(delivered, items[k])
    /\ notFull' \in NotifyOne(notFull)
    /\ Returns(c)
    /\ UNCHANGED <<policy, items, dropped, notEmpty, closing, pushed, told>>

\* The caller c leaves with the element at position k; the older ones go.
Take(c, k) ==
    /\ delivered' = Append(delivered, items[k])
    /\ items' = SubSeq(items, k + 1, Len(items))
    /\ dropped' = dropped + (k - 1)
    /\ notFull' \in NotifyOne(notFull)
    /\ Returns(c)
    /\ UNCHANGED <<policy, notEmpty, closing, pushed, told>>

Pop(c) ==
    /\ Runs(c, "pop")
    /\ items # <<>>
    /\ Take(c, 1)

\* Mutant: pop_latest is pop.
PopLatestOldest(c) ==
    /\ Runs(c, "pop_latest")
    /\ items # <<>>
    /\ Take(c, 1)

PopLatest(c) ==
    /\ Runs(c, "pop_latest")
    /\ items # <<>>
    /\ Take(c, Len(items))

PopWaits(c, op) ==
    /\ Runs(c, op)
    /\ items = <<>> /\ ~closed
    /\ notEmpty' = notEmpty \cup {c}
    /\ call' = [call EXCEPT ![c] = op]
    /\ UNCHANGED <<policy, items, dropped, notFull, closing,
                   pushed, delivered, told>>

\* Returns std::nullopt.
PopNullopt(c, op) ==
    /\ Runs(c, op)
    /\ items = <<>> /\ closed
    /\ Returns(c)
    /\ told' = told \cup {c}
    /\ UNCHANGED <<policy, items, dropped, notEmpty, notFull, closing,
                   pushed, delivered>>

Consume(c) ==
    \E op \in ConsumerOps :
        \/ op = "pop" /\ Pop(c)
        \/ op = "pop_latest" /\ PopLatest(c)
        \/ PopWaits(c, op)
        \/ PopNullopt(c, op)

-----------------------------------------------------------------------------
(* close: the flag under the mutex, then the two notify_all without it.    *)

CloseFlag ==
    /\ closing \in {"open", "returned"}
    /\ closing' = "flagged"
    /\ UNCHANGED <<policy, items, dropped, notEmpty, notFull, call,
                   pushed, delivered, told>>

\* Mutant: notify_one for notify_all.
CloseNotifiesOneConsumer ==
    /\ closing = "flagged"
    /\ notEmpty' \in NotifyOne(notEmpty)
    /\ closing' = "notified"
    /\ UNCHANGED <<policy, items, dropped, notFull, call,
                   pushed, delivered, told>>

CloseNotifyNotEmpty ==
    /\ closing = "flagged"
    /\ notEmpty' = {}
    /\ closing' = "notified"
    /\ UNCHANGED <<policy, items, dropped, notFull, call,
                   pushed, delivered, told>>

CloseNotifyNotFull ==
    /\ closing = "notified"
    /\ notFull' = {}
    /\ closing' = "returned"
    /\ UNCHANGED <<policy, items, dropped, notEmpty, call,
                   pushed, delivered, told>>

CloseRest == CloseNotifyNotEmpty \/ CloseNotifyNotFull

\* A condition variable may wake a thread that nobody notified.
SpuriousWake(t) ==
    /\ t \in notEmpty \cup notFull
    /\ notEmpty' = notEmpty \ {t}
    /\ notFull' = notFull \ {t}
    /\ UNCHANGED <<policy, items, dropped, call, closing,
                   pushed, delivered, told>>

Next ==
    \/ \E p \in Producers : Push(p)
    \/ \E c \in Consumers : Consume(c)
    \/ CloseFlag
    \/ CloseRest
    \/ \E t \in Threads : SpuriousWake(t)

Spec == Init /\ [][Next]_vars

(* A thread that can run is scheduled eventually, and consumers call again *)
(* until they see std::nullopt.  Nobody has to call push or close, but a   *)
(* call of close that began ends.  No fairness for spurious wake-ups.      *)
Fairness ==
    /\ \A p \in Producers : WF_vars(call[p] = "push" /\ Push(p))
    /\ \A c \in Consumers : WF_vars(Consume(c))
    /\ WF_vars(CloseRest)

FairSpec == Spec /\ Fairness

-----------------------------------------------------------------------------
(* Safety                                                                  *)

TypeOK ==
    /\ policy \in Policies
    /\ items \in Seq(Nat) /\ delivered \in Seq(Nat)
    /\ dropped \in Nat /\ pushed \in Nat
    /\ notEmpty \subseteq Consumers /\ notFull \subseteq Producers
    /\ told \subseteq Consumers
    /\ call \in [Threads -> {"none", "push", "pop", "pop_latest"}]
    /\ closing \in {"open", "flagged", "notified", "returned"}

\* push and pop_latest account for every element: it was returned to one
\* consumer, counted in dropped_, or is still queued.
Conservation == pushed = Len(delivered) + dropped + Len(items)

\* pop_front/push_back keep the order of acceptance through every mix of
\* pop, pop_latest and drop-oldest pushes: what is queued is the unbroken
\* newest part of what was accepted, and everything handed out is older.
Contiguous ==
    /\ \A i \in 1 .. Len(items) : items[i] = pushed - Len(items) + i
    /\ \A j \in 1 .. Len(delivered) : delivered[j] <= pushed - Len(items)

\* No element is returned twice and none overtakes an older one, whichever
\* consumers they go to.
InOrder ==
    \A i, j \in 1 .. Len(delivered) : i < j => delivered[i] < delivered[j]

\* items_ never outgrows capacity_ under either policy of push.
WithinCapacity == Len(items) <= Capacity

\* A consumer that waited in pop_latest leaves with an element in this step.
ServedLatest(c) ==
    /\ call[c] = "pop_latest" /\ call'[c] = "none"
    /\ delivered' # delivered

\* A slow consumer works on the newest element: what a consumer that waited in
\* pop_latest is given is the last one accepted, however many were pushed
\* between its notification and its waking up.
LatestIsNewest ==
    [][\A c \in Consumers : ServedLatest(c) => delivered'[Len(delivered')] = pushed]_vars

\* Threads inside a blocking call that are not (or no longer) blocked.
Awake(threads) == {t \in threads : call[t] # "none" /\ t \notin notEmpty \cup notFull}

\* notify_one in push is enough: while a consumer is blocked on not_empty_,
\* at least one awake consumer stands for each queued element, so no
\* element waits in the queue for a sleeping consumer.
NoStrandedConsumer ==
    notEmpty # {} => Cardinality(Awake(Consumers)) >= Len(items)

\* After a consumer is told std::nullopt ("closed AND drained") no element
\* shows up in a kBlockWhenFull queue any more.  A drop-oldest push does not
\* look at closed_ and can still add one.
NulloptIsFinal == policy = "BlockWhenFull" /\ told # {} => items = <<>>

-----------------------------------------------------------------------------
(* Liveness                                                                *)

\* close() releases everyone: each consumer is eventually told nullopt and
\* each blocked push returns.  A drop-oldest queue needs its producers to
\* stop as well; the pipeline sees to that.
CloseReleasesAll ==
    (closed /\ policy = "BlockWhenFull")
        ~> (told = Consumers /\ \A p \in Producers : call[p] = "none")

\* A producer blocked on a full queue gets its element in (or is refused)
\* as long as consumers keep popping.
BlockedPushReturns ==
    \A p \in Producers : (call[p] = "push") ~> (call[p] = "none")

-----------------------------------------------------------------------------
(* The queue implements the lossy channel.                                 *)

Channel == INSTANCE LossyChannel WITH
    Bound <- Capacity, sent <- pushed,
    settled <- pushed - Len(items), got <- delivered

ImplementsChannel == Channel!Spec
=============================================================================
