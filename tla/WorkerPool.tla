----------------------------- MODULE WorkerPool -----------------------------
(***************************************************************************)
(* One HAOE worker pool: PriorityScheduler.submit and poll, QueueManager,  *)
(* WorkStealingScheduler.take and WorkerPool with its threads, all in      *)
(* runtime/haoe/scheduling/, and Dispatcher.handle_queued_task.  Any       *)
(* thread submits, Size threads poll, one thread starts and stops the      *)
(* pool.  A step is what runs under one lock.                              *)
(*                                                                         *)
(* Scores, ageing, locality and the order in which victims are tried only  *)
(* choose among tasks and victims: the choice is left open.  A queue       *)
(* object outlives its registration, for who has already looked it up.     *)
(***************************************************************************)
EXTENDS Integers, Sequences, FiniteSets, Functions

CONSTANTS Tasks, None,
          Size,         \* workers of the pool
          MaxWorkers    \* bound: worker ids ever issued

ASSUME SizeAssumption == Size \in Nat \ {0} /\ MaxWorkers \in Nat
ASSUME NoneIsNoTask == None \notin Tasks

Workers == 1..MaxWorkers

VARIABLES
    sub,         \* submit of each task: [at, ids, to]
    queue,       \* worker -> its WorkerQueue, left end first
    registered,  \* workers in QueueManager._pools
    overflow,    \* tasks in the OverflowQueue
    thread,      \* worker -> where its _loop is
    hand,        \* worker -> task it has taken
    victims,     \* worker -> queues it has yet to try to steal from
    ended,       \* tasks whose payload has returned or raised
    pool,        \* where start and stop are
    members,     \* WorkerPool._workers
    stopSet,     \* workers whose stop event is set
    issued       \* number of worker ids issued

queues  == <<queue, registered, overflow>>
control == <<pool, members, stopSet, issued>>
vars == <<sub, queue, registered, overflow, thread, hand, victims, ended,
          pool, members, stopSet, issued>>

NotSubmitted == [at |-> "new", ids |-> {}, to |-> None]

\* Type correctness of submissions, queues, threads and pool.
TypeOK ==
    /\ sub \in [Tasks -> [at : {"new", "pick", "get", "push", "accepted", "rejected"},
                          ids : SUBSET Workers, to : Workers \cup {None}]]
    /\ queue \in [Workers -> Seq(Tasks)]
    /\ registered \subseteq Workers
    /\ overflow \subseteq Tasks
    /\ thread \in [Workers -> {"none", "check", "own", "overflow", "steal", "run", "exited"}]
    /\ hand \in [Workers -> Tasks \cup {None}]
    /\ victims \in [Workers -> SUBSET Workers]
    /\ ended \subseteq Tasks
    /\ pool \in {"stopped", "starting", "started", "stopping"}
    /\ members \subseteq Workers /\ stopSet \subseteq Workers
    /\ issued \in 0..MaxWorkers

Init ==
    /\ sub = [t \in Tasks |-> NotSubmitted]
    /\ queue = [w \in Workers |-> << >>]
    /\ registered = {} /\ overflow = {}
    /\ thread = [w \in Workers |-> "none"]
    /\ hand = [w \in Workers |-> None]
    /\ victims = [w \in Workers |-> {}]
    /\ ended = {}
    /\ pool = "stopped" /\ members = {} /\ stopSet = {} /\ issued = 0

-----------------------------------------------------------------------------
(* submit *)

\* pick_least_loaded begins with a snapshot of the registered workers.
Submit(t) ==
    /\ sub[t].at = "new"
    /\ sub' = [sub EXCEPT ![t] = [at |-> "pick", ids |-> registered, to |-> None]]
    /\ UNCHANGED <<queues, thread, hand, victims, ended, control>>

\* Nobody to pick: the overflow.  A worker of the snapshot unregistered since:
\* KeyError, the task is not submitted.  The lengths are read one by one from
\* queues in use, so which worker counts as the least loaded is left open.
Pick(t) ==
    /\ sub[t].at = "pick"
    /\ \/ /\ sub[t].ids = {}
          /\ sub' = [sub EXCEPT ![t].at = "push"]
       \/ /\ ~ sub[t].ids \subseteq registered
          /\ sub' = [sub EXCEPT ![t].at = "rejected"]
       \/ /\ sub[t].ids \subseteq registered
          /\ \E w \in sub[t].ids :
                sub' = [sub EXCEPT ![t] = [@ EXCEPT !.at = "get", !.to = w]]
    /\ UNCHANGED <<queues, thread, hand, victims, ended, control>>

\* push_private: the overflow, if the worker has been unregistered.
GetQueue(t) ==
    /\ sub[t].at = "get"
    /\ sub' = [sub EXCEPT ![t].at = "push",
                          ![t].to = IF @ \in registered THEN @ ELSE None]
    /\ UNCHANGED <<queues, thread, hand, victims, ended, control>>

Push(t) ==
    /\ sub[t].at = "push"
    /\ IF sub[t].to = None
       THEN overflow' = overflow \cup {t} /\ UNCHANGED queue
       ELSE queue' = [queue EXCEPT ![sub[t].to] = <<t>> \o @] /\ UNCHANGED overflow
    /\ sub' = [sub EXCEPT ![t].at = "accepted"]
    /\ UNCHANGED <<registered, thread, hand, victims, ended, control>>

-----------------------------------------------------------------------------
(* _loop, poll and take of worker w *)

At(w, from, to) == thread[w] = from /\ thread' = [thread EXCEPT ![w] = to]
Take(w, t) == hand' = [hand EXCEPT ![w] = t]

\* Mutant: the loop does not look at the event again once it runs.
CheckStop_never(w) ==
    /\ At(w, "check", "own")
    /\ UNCHANGED <<sub, queues, hand, victims, ended, control>>

CheckStop(w) ==
    /\ At(w, "check", IF w \in stopSet THEN "exited" ELSE "own")
    /\ UNCHANGED <<sub, queues, hand, victims, ended, control>>

\* The owner takes the newest task of its queue, which stop unregisters only
\* after the owner has left its loop or is in a payload.
PopOwn(w) ==
    /\ IF w \in registered /\ queue[w] # << >>
       THEN /\ At(w, "own", "run")
            /\ Take(w, Head(queue[w]))
            /\ queue' = [queue EXCEPT ![w] = Tail(@)]
       ELSE At(w, "own", "overflow") /\ UNCHANGED <<queue, hand>>
    /\ UNCHANGED <<sub, registered, overflow, victims, ended, control>>

PopOverflow(w) ==
    /\ \/ \E t \in overflow : /\ At(w, "overflow", "run")
                              /\ Take(w, t)
                              /\ overflow' = overflow \ {t}
                              /\ UNCHANGED victims
       \/ /\ overflow = {}
          /\ At(w, "overflow", "steal")
          /\ victims' = [victims EXCEPT ![w] = registered \ {w}]
          /\ UNCHANGED <<overflow, hand>>
    /\ UNCHANGED <<sub, queue, registered, ended, control>>

\* Mutant: the thief reads the task and leaves it in the queue.
Steal_copy(w) ==
    /\ \E v \in victims[w] :
          /\ victims' = [victims EXCEPT ![w] = @ \ {v}]
          /\ IF v \in registered /\ queue[v] # << >>
             THEN At(w, "steal", "run") /\ Take(w, queue[v][Len(queue[v])])
             ELSE At(w, "steal", "steal") /\ UNCHANGED hand
    /\ UNCHANGED <<sub, queues, ended, control>>

\* Mutant: only workers that are alive are robbed.
Steal_living(w) ==
    /\ \E v \in victims[w] :
          /\ victims' = [victims EXCEPT ![w] = @ \ {v}]
          /\ IF v \in registered /\ queue[v] # << >> /\ thread[v] # "exited"
             THEN /\ At(w, "steal", "run")
                  /\ Take(w, queue[v][Len(queue[v])])
                  /\ queue' = [queue EXCEPT ![v] = SubSeq(@, 1, Len(@) - 1)]
             ELSE At(w, "steal", "steal") /\ UNCHANGED <<queue, hand>>
    /\ UNCHANGED <<sub, registered, overflow, ended, control>>

\* The thief takes the oldest task of the first victim that has one; also of
\* one that is unregistered after the thief has fetched its queue.
Steal(w) ==
    /\ \E v \in victims[w] :
          /\ victims' = [victims EXCEPT ![w] = @ \ {v}]
          /\ \/ /\ queue[v] # << >>
                /\ At(w, "steal", "run")
                /\ Take(w, queue[v][Len(queue[v])])
                /\ queue' = [queue EXCEPT ![v] = SubSeq(@, 1, Len(@) - 1)]
             \/ /\ v \notin registered \/ queue[v] = << >>
                /\ At(w, "steal", "steal")
                /\ UNCHANGED <<queue, hand>>
    /\ UNCHANGED <<sub, registered, overflow, ended, control>>

\* Nothing to do: stop.wait(0.005), then the loop begins again.
NothingFound(w) ==
    /\ victims[w] = {} /\ At(w, "steal", "check")
    /\ UNCHANGED <<sub, queues, hand, victims, ended, control>>

\* The turn of the task is over: its payload returns; or it raises, or the
\* pinning before it does, which _loop does not catch: the thread ends, its
\* queue stays registered.
TaskEnds(w) ==
    /\ \/ At(w, "run", "check")
       \/ At(w, "run", "exited")
    /\ ended' = ended \cup {hand[w]}
    /\ Take(w, None)
    /\ victims' = [victims EXCEPT ![w] = {}]
    /\ UNCHANGED <<sub, queues, control>>

-----------------------------------------------------------------------------
(* start, stop *)

Start ==
    /\ pool = "stopped" /\ issued + Size <= MaxWorkers
    /\ pool' = "starting"
    /\ UNCHANGED <<sub, queues, thread, hand, victims, ended, members, stopSet, issued>>

StartWorker ==
    LET w == issued + 1 IN
    /\ pool = "starting"
    /\ issued' = w
    /\ registered' = registered \cup {w}
    /\ thread' = [thread EXCEPT ![w] = "check"]
    /\ members' = members \cup {w}
    /\ pool' = IF Cardinality(members') = Size THEN "started" ELSE "starting"
    /\ UNCHANGED <<sub, queue, overflow, hand, victims, ended, stopSet>>

Stop ==
    /\ pool = "started"
    /\ pool' = "stopping"
    /\ stopSet' = stopSet \cup members
    /\ UNCHANGED <<sub, queues, thread, hand, victims, ended, members, issued>>

\* join returns, or times out under a payload that takes longer.
JoinWorker(w) ==
    /\ pool = "stopping" /\ w \in members /\ thread[w] \in {"exited", "run"}
    /\ registered' = registered \ {w}
    /\ members' = members \ {w}
    /\ pool' = IF members' = {} THEN "stopped" ELSE "stopping"
    /\ UNCHANGED <<sub, queue, overflow, thread, hand, victims, ended, stopSet, issued>>

-----------------------------------------------------------------------------
SubmitStep(t) == Submit(t) \/ Pick(t) \/ GetQueue(t) \/ Push(t)
Loop(w) == CheckStop(w) \/ PopOwn(w) \/ PopOverflow(w) \/ Steal(w) \/ NothingFound(w)

\* Everything submitted, every thread gone, no id left to start again.
Idle == /\ \A t \in Tasks : sub[t].at \in {"accepted", "rejected"}
        /\ \A w \in Workers : thread[w] = "exited"
        /\ pool = "stopped"
        /\ UNCHANGED vars

Next ==
    \/ \E t \in Tasks : SubmitStep(t)
    \/ \E w \in Workers : Loop(w) \/ TaskEnds(w) \/ JoinWorker(w)
    \/ Start \/ StartWorker \/ Stop
    \/ Idle

Spec == Init /\ [][Next]_vars

(* Threads run, and payloads return or raise.  Nothing is assumed of who   *)
(* submits, starts or stops.                                               *)
Fairness == \A w \in Workers : WF_vars(Loop(w)) /\ WF_vars(TaskEnds(w))

FairSpec == Spec /\ Fairness

-----------------------------------------------------------------------------
(* Properties *)

Holders(t) ==
    {<<"queue", w>> : w \in {v \in Workers : t \in Range(queue[v])}}
    \cup {<<"hand", w>> : w \in {v \in Workers : hand[v] = t}}
    \cup (IF t \in overflow THEN {<<"overflow", 0>>} ELSE {})
    \cup (IF t \in ended THEN {<<"ended", 0>>} ELSE {})

\* A submitted task is in exactly one place, whatever owners, thieves, starts
\* and stops do at once: no take drops it or hands it to two workers, and a
\* task whose submit raised is in none (WorkerQueue, OverflowQueue).  The queue
\* of a worker that stop has unregistered is such a place, though nobody will
\* look there any more.
TaskConserved ==
    /\ \A w \in Workers : IsInjective(queue[w])
    /\ \A t \in Tasks : Cardinality(Holders(t)) = IF sub[t].at = "accepted" THEN 1 ELSE 0

\* A worker that stop has given up on or waited for takes no task any more,
\* not even from the overflow (WorkerPool.stop, _loop).
TakesOnlyWhileMember ==
    [][\A w \in Workers : hand[w] = None /\ hand'[w] # None => w \in members]_vars

Alive(w) == thread[w] \notin {"none", "exited"}

\* While the pool is up and one of its workers lives, every submitted task
\* gets its turn, also those in the queue of a worker that an exception has
\* killed: the others steal them (WorkStealingScheduler.take).  A task in the
\* queue of a worker that stop has unregistered is exempt: it is lost.
EveryTaskRuns ==
    \A t \in Tasks :
        sub[t].at = "accepted" /\ (\A w \in Workers \ registered : t \notin Range(queue[w]))
          ~> t \in ended \/ pool # "started" \/ \A w \in members : ~Alive(w)
=============================================================================
