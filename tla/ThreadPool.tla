------------------------------ MODULE ThreadPool ------------------------------
(***************************************************************************)
(* forklift::shared::ThreadPool, the pool that runs a camera's inference   *)
(* loops.                                                                  *)
(*                                                                         *)
(* submit enqueues under mu_ and notifies after releasing it.  shutdown    *)
(* never takes mu_: it sets the atomic stop_, notifies all and joins.  So  *)
(* the evaluation of the predicate of cv_.wait and the blocking that       *)
(* follows it are two steps here, with mu_ held in between: that keeps     *)
(* submit out, but not shutdown.                                           *)
(***************************************************************************)
EXTENDS Integers, Sequences, FiniteSets

CONSTANTS Workers,   \* workers_
          Clients,   \* threads that call submit and shutdown
          MaxTasks   \* bound: tasks submitted in a behaviour

ASSUME WorkersAssumption == IsFiniteSet(Workers)
ASSUME ClientsAssumption == IsFiniteSet(Clients)
ASSUME MaxTasksAssumption == MaxTasks \in Nat

VARIABLES
    tasks,     \* tasks_; a task is its rank among the submitted ones
    stop,      \* stop_: "unset", or "set" once the exchange has succeeded
    worker,    \* where each worker is in worker_loop
    running,   \* the task each worker runs, or 0
    client,    \* where each client is: see ClientPlaces
    submitted, \* history: number of tasks enqueued
    early,     \* history: those of them enqueued before stop_ was set
    started,   \* history: the tasks in the order workers took them
    finished   \* history: the set of tasks that ran to their end

vars == <<tasks, stop, worker, running, client, submitted, early, started, finished>>

\* "locking":   about to take mu_ and evaluate the predicate;
\* "deciding":  evaluated it to false and still holds mu_;
\* "blocked":   in cv_.wait;
\* "busy":      runs a task without mu_;
\* "exited":    returned from worker_loop.
WorkerPlaces == {"locking", "deciding", "blocked", "busy", "exited"}

\* "free":      outside of the pool's functions;
\* "notifying": in submit, between the unlock and notify_one;
\* "stopping":  in shutdown, between the exchange and notify_all;
\* "joining":   in shutdown, joining the workers;
\* "returned":  shutdown returned after the joins;
\* "declined":  shutdown returned at once, stop_ having been set before.
ClientPlaces ==
    {"free", "notifying", "stopping", "joining", "returned", "declined"}

At(place) == {w \in Workers : worker[w] = place}
In(place) == {c \in Clients : client[c] = place}

\* Only a worker that is deciding holds mu_ across steps.
MutexFree == At("deciding") = {}

Init ==
    /\ tasks = <<>> /\ stop = "unset"
    /\ worker = [w \in Workers |-> "locking"]
    /\ running = [w \in Workers |-> 0]
    /\ client = [c \in Clients |-> "free"]
    /\ submitted = 0 /\ early = 0
    /\ started = <<>> /\ finished = {}

-----------------------------------------------------------------------------
(* submit: nothing in it looks at stop_.                                   *)

\* Mutant: submit without notify_one.
EnqueueSilently(c) ==
    /\ client[c] = "free"
    /\ MutexFree
    /\ submitted < MaxTasks
    /\ submitted' = submitted + 1
    /\ early' = IF stop = "unset" THEN submitted + 1 ELSE early
    /\ tasks' = Append(tasks, submitted + 1)
    /\ UNCHANGED <<stop, worker, running, client, started, finished>>

Enqueue(c) ==
    /\ client[c] = "free"
    /\ MutexFree
    /\ submitted < MaxTasks
    /\ submitted' = submitted + 1
    /\ early' = IF stop = "unset" THEN submitted + 1 ELSE early
    /\ tasks' = Append(tasks, submitted + 1)
    /\ client' = [client EXCEPT ![c] = "notifying"]
    /\ UNCHANGED <<stop, worker, running, started, finished>>

NotifyOne(c) ==
    /\ client[c] = "notifying"
    /\ client' = [client EXCEPT ![c] = "free"]
    /\ IF At("blocked") = {}
       THEN UNCHANGED worker
       ELSE \E w \in At("blocked") : worker' = [worker EXCEPT ![w] = "locking"]
    /\ UNCHANGED <<tasks, stop, running, submitted, early, started, finished>>

-----------------------------------------------------------------------------
(* shutdown                                                                *)

\* The exchange on stop_: the first caller goes on, any other one returns.
Exchange(c) ==
    /\ client[c] = "free"
    /\ stop' = "set"
    /\ client' = [client EXCEPT ![c] =
                    IF stop = "unset" THEN "stopping" ELSE "declined"]
    /\ UNCHANGED <<tasks, worker, running, submitted, early, started, finished>>

NotifyAll(c) ==
    /\ client[c] = "stopping"
    /\ client' = [client EXCEPT ![c] = "joining"]
    /\ worker' = [w \in Workers |->
                    IF worker[w] = "blocked" THEN "locking" ELSE worker[w]]
    /\ UNCHANGED <<tasks, stop, running, submitted, early, started, finished>>

JoinAll(c) ==
    /\ client[c] = "joining"
    /\ At("exited") = Workers
    /\ client' = [client EXCEPT ![c] = "returned"]
    /\ UNCHANGED <<tasks, stop, worker, running, submitted, early, started, finished>>

-----------------------------------------------------------------------------
(* worker_loop                                                             *)

\* Mutant: front() without pop().
TakeTaskAndKeepIt(w) ==
    /\ worker[w] = "locking" /\ MutexFree
    /\ tasks # <<>>
    /\ running' = [running EXCEPT ![w] = Head(tasks)]
    /\ started' = Append(started, Head(tasks))
    /\ worker' = [worker EXCEPT ![w] = "busy"]
    /\ UNCHANGED <<tasks, stop, client, submitted, early, finished>>

\* The predicate is true because of a task: take it and release mu_.
TakeTask(w) ==
    /\ worker[w] = "locking" /\ MutexFree
    /\ tasks # <<>>
    /\ running' = [running EXCEPT ![w] = Head(tasks)]
    /\ started' = Append(started, Head(tasks))
    /\ tasks' = Tail(tasks)
    /\ worker' = [worker EXCEPT ![w] = "busy"]
    /\ UNCHANGED <<stop, client, submitted, early, finished>>

\* Mutant: return on stop_ without draining.
LeaveAtOnce(w) ==
    /\ worker[w] = "locking" /\ MutexFree
    /\ stop = "set"
    /\ worker' = [worker EXCEPT ![w] = "exited"]
    /\ UNCHANGED <<tasks, stop, running, client, submitted, early, started, finished>>

\* It is true because of stop_ alone: return.
Leave(w) ==
    /\ worker[w] = "locking" /\ MutexFree
    /\ tasks = <<>> /\ stop = "set"
    /\ worker' = [worker EXCEPT ![w] = "exited"]
    /\ UNCHANGED <<tasks, stop, running, client, submitted, early, started, finished>>

\* Mutant: stop_ is not part of the predicate.
FindNoTask(w) ==
    /\ worker[w] = "locking" /\ MutexFree
    /\ tasks = <<>>
    /\ worker' = [worker EXCEPT ![w] = "deciding"]
    /\ UNCHANGED <<tasks, stop, running, client, submitted, early, started, finished>>

FindNothing(w) ==
    /\ worker[w] = "locking" /\ MutexFree
    /\ tasks = <<>> /\ stop = "unset"
    /\ worker' = [worker EXCEPT ![w] = "deciding"]
    /\ UNCHANGED <<tasks, stop, running, client, submitted, early, started, finished>>

\* Release mu_ and block, in one step as far as mu_ is concerned.
Block(w) ==
    /\ worker[w] = "deciding"
    /\ worker' = [worker EXCEPT ![w] = "blocked"]
    /\ UNCHANGED <<tasks, stop, running, client, submitted, early, started, finished>>

\* The task returns, or throws into its future.
Finish(w) ==
    /\ worker[w] = "busy"
    /\ finished' = finished \cup {running[w]}
    /\ running' = [running EXCEPT ![w] = 0]
    /\ worker' = [worker EXCEPT ![w] = "locking"]
    /\ UNCHANGED <<tasks, stop, client, submitted, early, started>>

SpuriousWake(w) ==
    /\ worker[w] = "blocked"
    /\ worker' = [worker EXCEPT ![w] = "locking"]
    /\ UNCHANGED <<tasks, stop, running, client, submitted, early, started, finished>>

WorkerStep(w) == TakeTask(w) \/ Leave(w) \/ FindNothing(w) \/ Block(w) \/ Finish(w)

\* What a client does once it is inside a function of the pool.
ClientGoesOn(c) == NotifyOne(c) \/ NotifyAll(c) \/ JoinAll(c)

Next ==
    \/ \E c \in Clients : Enqueue(c) \/ Exchange(c) \/ ClientGoesOn(c)
    \/ \E w \in Workers : WorkerStep(w) \/ SpuriousWake(w)

Spec == Init /\ [][Next]_vars

(* Threads that can run are scheduled eventually and tasks end.  Nobody     *)
(* has to call submit or shutdown, and no spurious wake-up is promised.     *)
(* Of the workers that compete for mu_, each gets it eventually.            *)
Fairness ==
    /\ \A w \in Workers : SF_vars(WorkerStep(w))
    /\ \A c \in Clients : WF_vars(ClientGoesOn(c))

FairSpec == Spec /\ Fairness

-----------------------------------------------------------------------------
(* Safety                                                                  *)

TypeOK ==
    /\ tasks \in Seq(Nat) /\ started \in Seq(Nat)
    /\ stop \in {"unset", "set"}
    /\ worker \in [Workers -> WorkerPlaces]
    /\ running \in [Workers -> Nat]
    /\ client \in [Clients -> ClientPlaces]
    /\ submitted \in Nat /\ early \in Nat
    /\ finished \subseteq Nat

\* worker_loop takes every task once and in the order of submission: what
\* was started, followed by what is queued, is exactly what was submitted.
StartedInOrder ==
    /\ Len(started) + Len(tasks) = submitted
    /\ \A i \in 1 .. Len(started) : started[i] = i
    /\ \A i \in 1 .. Len(tasks) : tasks[i] = Len(started) + i

Holders(t) == {w \in Workers : running[w] = t}

\* A task that was started is held by exactly one worker until it is done:
\* no two workers run the same task and none is lost between the queue and
\* the call.
OneWorkerPerTask ==
    /\ \A t \in 1 .. Len(started) :
          IF t \in finished THEN Holders(t) = {}
                           ELSE \E w \in Workers : Holders(t) = {w}
    /\ \A w \in Workers : running[w] <= Len(started)

\* notify_one outside of mu_ is enough for submit: while a worker is blocked
\* each queued task has a notification under way or an awake worker.
NoStrandedTask ==
    At("blocked") # {} =>
        Len(tasks) <= Cardinality(At("locking")) + Cardinality(In("notifying"))

\* Once every worker has left, and so when shutdown() returns from its
\* joins, no task that was submitted before stop_ was set is left undone or
\* half done: workers drain the queue before they go.  A later submit is
\* accepted all the same and never run.
ShutdownDrains ==
    At("exited") = Workers \/ In("returned") # {}
        => /\ At("exited") = Workers
           /\ \A t \in 1 .. early : t \in finished

\* What the unlocked notify_all of shutdown() can do harm to: once it is done,
\* at most one worker is blocked or about to block, the one that held mu_
\* between its predicate and its wait.  All others see stop_ and leave.
AtMostOneMissed ==
    In("joining") # {} =>
        \A v, w \in At("deciding") \cup At("blocked") : v = w

-----------------------------------------------------------------------------
(* Liveness                                                                *)

\* A task submitted before shutdown runs to its end, whether or not a
\* shutdown follows.
EarlyTasksFinish == \A t \in 1 .. MaxTasks : (early >= t) ~> (t \in finished)

\* shutdown() terminates if its notify_all left no worker behind: stop_ keeps
\* all of them from blocking again.
CaughtAllReturns ==
    \A c \in Clients :
        (client[c] = "joining" /\ At("deciding") \cup At("blocked") = {})
            ~> (client[c] = "returned")
=============================================================================
