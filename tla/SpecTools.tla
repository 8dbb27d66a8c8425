------------------------------ MODULE SpecTools ------------------------------
(***************************************************************************)
(* Plane 3.5, the speculative tool engine: SpeculativeEngine               *)
(* (engine.py), SpeculativeExecutor (executor.py) and the cache they       *)
(* share, all in runtime/dipa/speculative/, as gateway.py runs them:       *)
(* every request under asyncio.run on a loop and a thread of its own       *)
(* (_run_coro_sync), all sharing one asyncio.Semaphore and one cache.      *)
(*                                                                         *)
(* A SpeculativeTask <<r, i>> is the i-th prediction of request r; the     *)
(* last index is the synchronous fallback.  fut is its future, the task    *)
(* of _run_mcp: new, inside its first shield, inside its second (a cancel  *)
(* reached the first), or done.  task is _body, which the future creates.  *)
(*                                                                         *)
(* On one loop, code between two awaits is one step.  Inside the           *)
(* semaphore, which is not made for threads, a step ends wherever CPython  *)
(* 3.11 may switch threads and the order matters.                          *)
(***************************************************************************)
EXTENDS Integers, Sequences, SequencesExt, FiniteSets

CONSTANTS Requests, Keys, None,
          MaxPreds,      \* bound: predictions per request
          MaxInflight    \* permits of _inflight_sem

ASSUME FiniteRequests  == IsFiniteSet(Requests)
ASSUME PredsAssumption == MaxPreds \in Nat
ASSUME PermitsAssumption == MaxInflight \in Nat

SyncIndex == MaxPreds + 1
Tasks     == Requests \X (1..SyncIndex)

ASSUME NoneIsNothing == None \notin Keys \cup Requests \cup Tasks
ASSUME OpenIsNoCall  == "open" \notin Keys \cup {None}   \* see Service

\* What a tool call comes back with: a payload that counts as success, an
\* {"ok": false} payload, or nothing (exception, timeout of the execution).
Outcomes == {"good", "bad", "none"}
Outputs  == [key : Keys, outcome : {"good", "bad"}]

\* A prediction list names distinct calls of confidence >= threshold.
Predictions == {ps \in UNION {[1..n -> Keys] : n \in 0..MaxPreds} :
                    \A i, j \in DOMAIN ps : ps[i] = ps[j] => i = j}

VARIABLES
    pc,         \* where generate_with_tool_speculation of each request is
    dispatch,   \* _dispatch_predictions: pending, done or cancelled
    call,       \* key of the tool call the cascade emitted, None if none
    specs,      \* spec_by_key
    fut,        \* future of every SpeculativeTask
    task,       \* [st, key, out, to] of its body; to: the waiter to wake
    sem,        \* _inflight_sem: [value, waiters, loop]
    asleep,     \* woken bodies whose loop may still be blocked in select()
    cache,      \* key -> output, as LossyMap allows
    response,   \* [kind, out] once decided
    produced    \* history: outputs some tool execution returned

vars == <<pc, dispatch, call, specs, fut, task, sem, asleep, cache, response,
          produced>>
engineVars == <<pc, dispatch, call, specs, response>>

Cache == INSTANCE LossyMap WITH Values <- Outputs, map <- cache

NoTask     == [st |-> "none", key |-> None, out |-> "none", to |-> None]
NoResponse == [kind |-> "open", out |-> None]
NoSpecs    == [k \in Keys |-> None]

Own(r) == {r} \X (1..SyncIndex)

\* Bodies in the middle of acquire() or release(): their thread is busy.
InSemaphore == {"full", "free", "leaving", "passing"}
Busy(r) == \E t \in Own(r) : task[t].st \in InSemaphore

\* The loop of r runs a step.  It first takes in the callbacks that other
\* threads left in its ready queue, which alone do not end its select().
Iterates(r) == asleep' = asleep \ Own(r)
Turn(r) == ~Busy(r) /\ Iterates(r)
-----------------------------------------------------------------------------
Init ==
    /\ pc        = [r \in Requests |-> "idle"]
    /\ dispatch  = [r \in Requests |-> "pending"]
    /\ call      = [r \in Requests |-> None]
    /\ specs     = [r \in Requests |-> NoSpecs]
    /\ fut       = [t \in Tasks |-> "none"]
    /\ task      = [t \in Tasks |-> NoTask]
    /\ sem       = [value |-> MaxInflight, waiters |-> << >>, loop |-> None]
    /\ asleep    = {}
    /\ cache     = << >>
    /\ response  = [r \in Requests |-> NoResponse]
    /\ produced  = {}

Start(r) ==
    /\ pc[r] = "idle" /\ Turn(r)
    /\ pc' = [pc EXCEPT ![r] = "generating"]
    /\ UNCHANGED <<dispatch, call, specs, fut, task, sem, cache, response, produced>>

\* Mutant: hands on the cache key instead of the cached value.
Remembered_raw(k) == k

\* What cache.get finds; it only reorders the cache, which LossyMap hides.
Remembered(k) == IF k \in DOMAIN cache THEN cache[k].outcome ELSE "none"

\* speculate() for the calls of ks, task -> key, with futures f: a cached
\* output makes the future at once, else _run_mcp will run.
Speculate(f, ks) ==
    /\ fut' = [t \in Tasks |-> IF t \notin DOMAIN ks THEN f[t]
                               ELSE IF ks[t] \in DOMAIN cache THEN "done" ELSE "new"]
    /\ task' = [t \in Tasks |-> IF t \notin DOMAIN ks THEN task[t]
                                ELSE [NoTask EXCEPT !.key = ks[t],
                                                    !.out = Remembered(ks[t])]]

\* The predictor answers; every prediction is dispatched without an await
\* that could suspend, even when the cascade has already returned.
Dispatch(r, ps) ==
    /\ pc[r] \in {"generating", "cascaded"} /\ dispatch[r] = "pending"
    /\ dispatch' = [dispatch EXCEPT ![r] = "done"]
    /\ Speculate(fut, [t \in {r} \X DOMAIN ps |-> ps[t[2]]])
    /\ specs' = [specs EXCEPT ![r] =
                    [k \in Keys |-> IF \E i \in DOMAIN ps : ps[i] = k
                                    THEN <<r, CHOOSE i \in DOMAIN ps : ps[i] = k>>
                                    ELSE None]]
    /\ UNCHANGED <<pc, call, sem, cache, response, produced>>

\* The cascade returns, with a tool call or without one.
CascadeEmit(r, k) ==
    /\ pc[r] = "generating"
    /\ pc' = [pc EXCEPT ![r] = "cascaded"]
    /\ call' = [call EXCEPT ![r] = k]
    /\ UNCHANGED <<dispatch, specs, fut, task, sem, cache, response, produced>>

SpecTasks(r) == {specs[r][k] : k \in Keys} \ {None}

\* Mutant: _run_mcp does not shield its body a second time.
AfterCancel_once(f) == IF f = "none" THEN f ELSE "done"

\* future.cancel(): before its first step _run_mcp never runs; in the first
\* shield the cancel is swallowed; in the second it ends the future.  The
\* body goes on in any case.
AfterCancel(f) == IF f = "first" THEN "again" ELSE IF f = "none" THEN f ELSE "done"

Cancelled(ts) == [t \in Tasks |-> IF t \in ts THEN AfterCancel(fut[t]) ELSE fut[t]]

\* asyncio.run returns only after the loop has cancelled what is left.
Finish(r, kind, out) ==
    /\ response' = [response EXCEPT ![r] = [kind |-> kind, out |-> out]]
    /\ pc' = [pc EXCEPT ![r] = "closing"]

\* The cascade raises: cancel dispatch, predictor and specs, then re-raise.
CascadeFail(r) ==
    /\ pc[r] = "generating"
    /\ dispatch' = [dispatch EXCEPT ![r] = IF @ = "pending" THEN "cancelled" ELSE @]
    /\ fut' = Cancelled(SpecTasks(r))
    /\ specs' = [specs EXCEPT ![r] = NoSpecs]
    /\ Finish(r, "raised", None)
    /\ UNCHANGED <<call, task, sem, cache, produced>>

\* Both the cascade and the dispatch have returned.
Ready(r) == pc[r] = "cascaded" /\ dispatch[r] = "done"

\* No tool call: _drain_specs waits for the specs or for its timer.
NoToolCall(r) ==
    /\ Ready(r) /\ call[r] = None
    /\ pc' = [pc EXCEPT ![r] = "draining"]
    /\ UNCHANGED <<dispatch, call, specs, fut, task, sem, cache, response, produced>>

DrainEnd(r) ==
    /\ pc[r] = "draining" /\ \A t \in SpecTasks(r) : fut[t] # "new"
    /\ fut' = Cancelled(SpecTasks(r))
    /\ specs' = [specs EXCEPT ![r] = NoSpecs]
    /\ Finish(r, "text", None)
    /\ UNCHANGED <<dispatch, call, task, sem, cache, produced>>

\* Mutant: takes whatever was speculated, not the entry of the key.
Matched_any(r) == IF SpecTasks(r) = {} THEN None ELSE CHOOSE t \in SpecTasks(r) : TRUE

\* spec_by_key.pop(key) and _cancel_all of the rest
Matched(r) == specs[r][call[r]]

\* Mutant: forgets the wrong speculations without cancelling them.
WithoutOthers_noCancel(r) == fut

WithoutOthers(r) == Cancelled(SpecTasks(r) \ {Matched(r)})
OnlyMatched(r)   == specs' = [specs EXCEPT ![r] = [NoSpecs EXCEPT ![call[r]] = Matched(r)]]

HasOutput(t) == fut[t] = "done" /\ task[t].out # "none"
OutputOf(t)  == [key |-> task[t].key, outcome |-> task[t].out]

MatchDone(r) ==
    /\ Ready(r) /\ call[r] # None /\ Matched(r) # None
    /\ HasOutput(Matched(r))
    /\ fut' = WithoutOthers(r) /\ OnlyMatched(r)
    /\ Finish(r, "tool", OutputOf(Matched(r)))
    /\ UNCHANGED <<dispatch, call, task, sem, cache, produced>>

MatchWait(r) ==
    /\ Ready(r) /\ call[r] # None /\ Matched(r) # None
    /\ ~HasOutput(Matched(r))
    /\ fut' = WithoutOthers(r) /\ OnlyMatched(r)
    /\ pc' = [pc EXCEPT ![r] = "awaiting"]
    /\ UNCHANGED <<dispatch, call, task, sem, cache, response, produced>>

\* _sync_execute: speculate() again, then await the result.
SyncExecute(r, f) ==
    /\ Speculate(f, [t \in {<<r, SyncIndex>>} |-> call[r]])
    /\ pc' = [pc EXCEPT ![r] = "syncing"]

NoMatch(r) ==
    /\ Ready(r) /\ call[r] # None /\ Matched(r) = None
    /\ OnlyMatched(r)
    /\ SyncExecute(r, WithoutOthers(r))
    /\ UNCHANGED <<dispatch, call, sem, cache, response, produced>>

Awaited(r) == IF pc[r] = "awaiting" THEN Matched(r) ELSE <<r, SyncIndex>>

\* wait_for's timer cancels the task that waits, which cancels the future it
\* waits for, once; the timer was set after the future's first step was.
WaitTimer(r) ==
    /\ pc[r] \in {"awaiting", "syncing"}
    /\ fut[Awaited(r)] = "first"
    /\ fut' = Cancelled({Awaited(r)})
    /\ UNCHANGED <<engineVars, task, sem, cache, produced>>

AwaitHit(r) ==
    /\ pc[r] = "awaiting" /\ HasOutput(Matched(r))
    /\ Finish(r, "tool", OutputOf(Matched(r)))
    /\ UNCHANGED <<dispatch, call, specs, fut, task, sem, cache, produced>>

AwaitMiss(r) ==
    /\ pc[r] = "awaiting" /\ fut[Matched(r)] = "done" /\ ~HasOutput(Matched(r))
    /\ SyncExecute(r, fut)
    /\ UNCHANGED <<dispatch, call, specs, sem, cache, response, produced>>

SyncDone(r) ==
    LET t == <<r, SyncIndex>> IN
    /\ pc[r] = "syncing" /\ fut[t] = "done"
    /\ IF HasOutput(t) THEN Finish(r, "tool", OutputOf(t))
                       ELSE Finish(r, "text", None)
    /\ UNCHANGED <<dispatch, call, specs, fut, task, sem, cache, produced>>

\* asyncio.run returns; the request's tasks and locals are gone.
LoopClosed(r) ==
    /\ pc[r] = "closing"
    /\ \A t \in Own(r) : fut[t] \in {"none", "done"} /\ task[t].st \in {"none", "ended"}
    /\ pc' = [pc EXCEPT ![r] = "done"]
    /\ specs' = [specs EXCEPT ![r] = NoSpecs]
    /\ fut' = [t \in Tasks |-> IF t \in Own(r) THEN "none" ELSE fut[t]]
    /\ task' = [t \in Tasks |-> IF t \in Own(r) THEN NoTask ELSE task[t]]
    /\ UNCHANGED <<dispatch, call, sem, cache, response, produced>>
-----------------------------------------------------------------------------
(* _run_mcp, _body and the semaphore *)

Step(t, st) == task' = [task EXCEPT ![t].st = st]

\* The first step of the future creates the body.
RunMcp(t) ==
    /\ fut[t] = "new"
    /\ fut' = [fut EXCEPT ![t] = "first"]
    /\ Step(t, "new")
    /\ UNCHANGED <<engineVars, sem, cache, produced>>

\* Semaphore.locked(): woken waiters are queued until their loop runs them.
Locked == sem.value = 0 \/ sem.waiters # << >>

\* acquire() tests locked() ...
AcquireTest(t) ==
    /\ task[t].st = "new"
    /\ Step(t, IF Locked THEN "full" ELSE "free")
    /\ UNCHANGED <<engineVars, fut, sem, cache, produced>>

\* ... then takes a permit without looking at the counter again,
AcquireTake(t) ==
    /\ task[t].st = "free"
    /\ Step(t, "running")
    /\ sem' = [sem EXCEPT !.value = @ - 1]
    /\ UNCHANGED <<engineVars, fut, cache, produced>>

\* or queues: the first wait binds the semaphore to its loop for good ...
AcquireWait(t) ==
    /\ task[t].st = "full" /\ sem.loop \in {None, t[1]}
    /\ Step(t, "waiting")
    /\ sem' = [sem EXCEPT !.waiters = Append(@, t), !.loop = t[1]]
    /\ UNCHANGED <<engineVars, fut, cache, produced>>

\* The body ends and with it the future, whichever shield it is in.
End(t, out) ==
    /\ fut' = [fut EXCEPT ![t] = "done"]
    /\ task' = [task EXCEPT ![t] = [@ EXCEPT !.st = "ended", !.out = out, !.to = None]]

\* ... and a wait on any other loop raises RuntimeError.
AcquireForeign(t) ==
    /\ task[t].st = "full" /\ sem.loop \notin {None, t[1]}
    /\ End(t, "none")
    /\ UNCHANGED <<engineVars, sem, cache, produced>>

\* The queue once t has left it, if it is there.
Without(t) ==
    LET q  == sem.waiters
        at == {i \in DOMAIN q : q[i] = t}
    IN  IF at = {} THEN q ELSE RemoveAt(q, CHOOSE i \in at : TRUE)

\* A woken waiter goes on when its loop runs it, and wakes the next one if
\* a permit is free.
AcquireResume(t) ==
    /\ task[t].st = "woken" /\ t \notin asleep
    /\ Step(t, IF sem.value > 0 THEN "passing" ELSE "running")
    /\ sem' = [sem EXCEPT !.waiters = Without(t)]
    /\ UNCHANGED <<engineVars, fut, cache, produced>>

\* release() first puts the permit back; the outcome is kept for later.
Leave(t, out) ==
    /\ task' = [task EXCEPT ![t] = [@ EXCEPT !.st = "leaving", !.out = out]]
    /\ sem' = [sem EXCEPT !.value = @ + 1, !.waiters = Without(t)]

\* execute() returns, raises or times out.
ToolReturns(t, o) ==
    /\ task[t].st = "running"
    /\ Leave(t, o)
    /\ produced' = produced \cup (IF o = "none" THEN {}
                                   ELSE {[key |-> task[t].key, outcome |-> o]})
    /\ UNCHANGED <<engineVars, fut, cache>>

\* Mutant: caches every payload, {"ok": false} too.
Persist_all(t) ==
    IF task[t].out # "none" THEN Cache!Put(task[t].key, OutputOf(t), {})
                            ELSE cache' = cache

\* Only a success is cached, cancelled future or not.
Persist(t) ==
    IF task[t].out = "good" THEN Cache!Put(task[t].key, OutputOf(t), {})
                            ELSE cache' = cache

\* _wake_up_next passes over waiters that are done ...
Pending == {i \in DOMAIN sem.waiters : task[sem.waiters[i]].st = "waiting"}

WakeNobody(t) ==
    /\ task[t].to = None /\ Pending = {}
    /\ \/ task[t].st = "leaving" /\ End(t, task[t].out) /\ Persist(t)
       \/ task[t].st = "passing" /\ Step(t, "running") /\ UNCHANGED <<fut, cache>>
    /\ UNCHANGED <<engineVars, sem, produced>>

\* ... and picks the first that is not.
WakeChoose(t) ==
    /\ task[t].st \in {"leaving", "passing"} /\ task[t].to = None
    /\ \E i \in Pending : /\ \A j \in Pending : i <= j
                         /\ task' = [task EXCEPT ![t].to = sem.waiters[i]]
    /\ UNCHANGED <<engineVars, fut, sem, cache, produced>>

\* The chosen waiter gets the permit.  If it is done by now, the permit is
\* taken all the same, set_result raises InvalidStateError and with it the
\* body.  A waiter of another loop is queued there by call_soon.
WakeGive(t) ==
    LET u == task[t].to
        goesOn == IF task[t].st = "leaving" THEN [task[t] EXCEPT !.st = "ended", !.to = None]
                  ELSE [task[t] EXCEPT !.st = "running", !.to = None]
    IN
    /\ u # None
    /\ sem' = [sem EXCEPT !.value = @ - 1]
    /\ \/ /\ task[u].st = "waiting"
          /\ task' = [task EXCEPT ![u].st = "woken", ![t] = goesOn]
          /\ fut' = IF goesOn.st = "ended" THEN [fut EXCEPT ![t] = "done"] ELSE fut
          /\ IF goesOn.st = "ended" THEN Persist(t) ELSE cache' = cache
          /\ asleep' = (asleep \ Own(t[1])) \cup ({u} \ Own(t[1]))
       \/ /\ task[u].st # "waiting"
          /\ End(t, "none")
          /\ UNCHANGED cache
          /\ Iterates(t[1])
    /\ UNCHANGED <<engineVars, produced>>

\* asyncio.run cancels every remaining task of the loop; until that reaches
\* them they may go on.  Every future has been cancelled once by then (see
\* NothingLeftUncancelled) and ends with its body.  Bodies that have not
\* begun or are queued ...
LoopCancelIdle(t) ==
    /\ pc[t[1]] = "closing" /\ task[t].st \in {"new", "waiting"}
    /\ End(t, "none")
    /\ sem' = [sem EXCEPT !.waiters = Without(t)]
    /\ UNCHANGED <<engineVars, cache, produced>>

\* Mutant: every cancelled acquire gives a permit back, granted or not.
LoopCancelHolder_all(t) ==
    /\ pc[t[1]] = "closing" /\ task[t].st \in {"waiting", "woken", "running"}
    /\ Leave(t, "none")
    /\ UNCHANGED <<engineVars, fut, cache, produced>>

\* ... and those that hold one: inside execute(), or granted it just before.
LoopCancelHolder(t) ==
    /\ pc[t[1]] = "closing" /\ task[t].st \in {"woken", "running"}
    /\ Leave(t, "none")
    /\ UNCHANGED <<engineVars, fut, cache, produced>>

\* LRU eviction, expiry, /v1/tools/cache/invalidate
CacheForgets(k) ==
    /\ k \in DOMAIN cache
    /\ Cache!Forget({k})
    /\ UNCHANGED <<engineVars, fut, task, sem, asleep, produced>>

Cascade(r) == Turn(r) /\ (CascadeFail(r) \/ \E k \in Keys \cup {None} : CascadeEmit(r, k))
Predict(r) == Turn(r) /\ \E ps \in Predictions : Dispatch(r, ps)
Engine(r)  == /\ Turn(r)
              /\ \/ NoToolCall(r) \/ DrainEnd(r)
                 \/ MatchDone(r) \/ MatchWait(r) \/ NoMatch(r)
                 \/ AwaitHit(r) \/ AwaitMiss(r) \/ SyncDone(r) \/ LoopClosed(r)
Timer(r)   == Turn(r) /\ WaitTimer(r)
Body(t)    == /\ Turn(t[1])
              /\ \/ RunMcp(t) \/ AcquireTest(t) \/ AcquireResume(t)
                 \/ LoopCancelIdle(t) \/ LoopCancelHolder(t)
                 \/ \E o \in Outcomes : ToolReturns(t, o)
Acquire(t) == /\ Iterates(t[1])
              /\ (AcquireTake(t) \/ AcquireWait(t) \/ AcquireForeign(t))
WakeNext(t) == \/ Iterates(t[1]) /\ (WakeNobody(t) \/ WakeChoose(t))
               \/ WakeGive(t)

\* The request waits for a body that waits for a permit.
Queued(r) == /\ pc[r] \in {"awaiting", "syncing"}
             /\ task[Awaited(r)].st \in {"waiting", "woken"}

\* Nothing is left to happen: requests are answered or wait for a permit.
Idle == /\ \A r \in Requests : pc[r] = "done" \/ Queued(r)
        /\ UNCHANGED vars

Next ==
    \/ \E r \in Requests : Start(r) \/ Cascade(r) \/ Predict(r) \/ Engine(r) \/ Timer(r)
    \/ \E t \in Tasks : Body(t) \/ Acquire(t) \/ WakeNext(t)
    \/ \E k \in Keys : CacheForgets(k)
    \/ Idle

Spec == Init /\ [][Next]_vars

(* A loop runs its ready callbacks and its timers; the cascade and the     *)
(* draft model are HTTP calls with client timeouts; execute() runs under   *)
(* wait_for; the operating system runs every thread.                       *)
Fairness ==
    /\ \A r \in Requests : /\ WF_vars(Cascade(r)) /\ WF_vars(Predict(r))
                           /\ WF_vars(Engine(r)) /\ WF_vars(Timer(r))
    /\ \A t \in Tasks : /\ WF_vars(Body(t)) /\ WF_vars(Acquire(t))
                        /\ WF_vars(WakeNext(t))

FairSpec == Spec /\ Fairness
-----------------------------------------------------------------------------
Phases == {"idle", "generating", "cascaded", "draining", "awaiting", "syncing",
           "closing", "done"}
BodyStates == {"none", "new", "waiting", "woken", "running", "ended"} \cup InSemaphore
TaskRecords == [st : BodyStates, key : Keys \cup {None}, out : Outcomes,
                to : Tasks \cup {None}]
Responses == [kind : {"open", "text", "tool", "raised"}, out : Outputs \cup {None}]

EngineTypeOK ==
    /\ pc \in [Requests -> Phases]
    /\ dispatch \in [Requests -> {"pending", "done", "cancelled"}]
    /\ call \in [Requests -> Keys \cup {None}]
    /\ specs \in [Requests -> [Keys -> Tasks \cup {None}]]
    /\ response \in [Requests -> Responses]
TaskTypeOK == /\ fut \in [Tasks -> {"none", "new", "first", "again", "done"}]
              /\ task \in [Tasks -> TaskRecords]
              /\ asleep \subseteq Tasks
SemTypeOK  == sem \in [value : Int, waiters : Seq(Tasks), loop : Requests \cup {None}]
CacheTypeOK ==
    /\ DOMAIN cache \subseteq Keys /\ \A k \in DOMAIN cache : cache[k] \in Outputs
    /\ produced \subseteq Outputs

(* Type correctness of the engine, the tasks, the semaphore and the cache. *)
TypeOK == EngineTypeOK /\ TaskTypeOK /\ SemTypeOK /\ CacheTypeOK

(* No permit is ever made up: what the counter shows free and what bodies  *)
(* hold is never more than MaxInflight, whatever is cancelled while it     *)
(* waits, is granted a permit or executes (_body and the loop shutdown).   *)
(* It may be less: two threads that wake the same waiter lose a permit.    *)
Holders == {t \in Tasks : task[t].st \in {"woken", "running", "passing"}}
NoPermitInvented == sem.value + Cardinality(Holders) <= MaxInflight

(* The cache holds under a key only a successful output of that very call  *)
(* which an execution really returned ("Failed execute must not poison     *)
(* cache", tests/runtime/dipa/speculative/test_executor.py).               *)
OnlySuccessCached ==
    \A k \in DOMAIN cache : /\ cache[k].key = k /\ cache[k].outcome = "good"
                            /\ cache[k] \in produced

(* Once a request is answered, the engine has itself cancelled whatever it *)
(* still has under way, before the loop shuts down (step 4 of engine.py's  *)
(* algorithm, _cancel_all).                                                *)
NothingLeftUncancelled ==
    \A t \in Tasks : response[t[1]].kind # "open" => fut[t] \notin {"new", "first"}

(* The fallback never executes a call that a speculation of the request is *)
(* still executing or queued for: a wait_for that times out goes on until  *)
(* the body it cancelled has ended (_run_mcp's shields, await_result).     *)
FallbackAlone ==
    \A r \in Requests, t \in Tasks :
        /\ pc[r] = "syncing" /\ t \in Own(r) /\ t[2] # SyncIndex
        /\ task[t].key = call[r]
        => task[t].st \in {"none", "ended"}

(* Every request is answered with what ToolService allows: text, its own   *)
(* tool's output as really executed, or the cascade's own exception.       *)
Service == INSTANCE ToolService WITH
    wanted <- [r \in Requests |-> IF pc[r] \in {"idle", "generating"}
                                        \/ response[r].kind = "raised"
                                  THEN "open" ELSE call[r]],
    answer <- response
ImplementsToolService == Service!Spec

(* A request that has started is answered: its waits are bounded by        *)
(* tool_timeout_s (engine.py:18, "await it (bounded by tool_timeout_s),    *)
(* then return").                                                          *)
EveryRequestAnswered ==
    \A r \in Requests : pc[r] = "generating" ~> pc[r] = "done"
=============================================================================
