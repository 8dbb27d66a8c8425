-------------------------- MODULE SpecTools_proofs --------------------------
(***************************************************************************)
(* For any number of requests, predictions and permits, each request on a  *)
(* loop and a thread of its own: no permit of the semaphore is made up,    *)
(* the cache holds only what an execution returned, an answered request    *)
(* leaves nothing uncancelled, the fallback has no twin, and SpecTools     *)
(* implements ToolService.                                                 *)
(***************************************************************************)
EXTENDS SpecTools, FiniteSetTheorems, SequenceTheorems, TLAPS

(* The set of tasks, and so any set of them, is finite. *)
LEMMA TasksFinite == IsFiniteSet(Tasks)
<1>1. IsFiniteSet(1..SyncIndex)
  BY PredsAssumption, FS_Interval DEF SyncIndex
<1> QED
  BY <1>1, FiniteRequests, FS_Product DEF Tasks

(* What list.remove at a known index leaves. *)
LEMMA RemoveAtElements ==
    ASSUME NEW q \in Seq(Tasks), NEW i \in DOMAIN q
    PROVE  /\ RemoveAt(q, i) \in Seq(Tasks) /\ Len(RemoveAt(q, i)) = Len(q) - 1
           /\ \A j \in 1..(Len(q) - 1) :
                 RemoveAt(q, i)[j] = IF j < i THEN q[j] ELSE q[j + 1]
<1> DEFINE s == RemoveAt(q, i)
<1>0. Len(q) \in Nat \ {0} /\ DOMAIN q = 1..Len(q) /\ i \in 1..Len(q)
  OBVIOUS
<1> SUFFICES /\ s \in Seq(Tasks) /\ Len(s) = Len(q) - 1
             /\ \A j \in 1..(Len(q) - 1) : s[j] = IF j < i THEN q[j] ELSE q[j + 1]
  OBVIOUS
<1> DEFINE a == SubSeq(q, 1, i - 1)
           b == SubSeq(q, i + 1, Len(q))
<1>1. a \in Seq(Tasks) /\ Len(a) = i - 1 /\ \A j \in 1..(i - 1) : a[j] = q[j]
  BY <1>0
<1>2. /\ b \in Seq(Tasks) /\ Len(b) = Len(q) - i
      /\ \A j \in 1..(Len(q) - i) : b[j] = q[j + i]
  BY <1>0
<1>3. s = a \o b
  BY DEF RemoveAt
<1> HIDE DEF s, a, b
<1>6. /\ s \in Seq(Tasks) /\ Len(s) = Len(a) + Len(b)
      /\ \A j \in 1..(Len(a) + Len(b)) : s[j] = IF j <= Len(a) THEN a[j] ELSE b[j - Len(a)]
  BY <1>1, <1>2, <1>3, ConcatProperties
<1>4. s \in Seq(Tasks) /\ Len(s) = Len(q) - 1
  BY <1>0, <1>1, <1>2, <1>6
<1>5. ASSUME NEW j \in 1..(Len(q) - 1)
      PROVE  s[j] = IF j < i THEN q[j] ELSE q[j + 1]
  <2>1. CASE j < i
    BY <1>0, <1>1, <1>2, <1>6, <2>1
  <2>2. CASE j >= i
    <3>1. s[j] = b[j - (i - 1)]
      BY <1>0, <1>1, <1>2, <1>6, <2>2
    <3>2. j - (i - 1) \in 1..(Len(q) - i)
      BY <1>0, <2>2
    <3>3. b[j - (i - 1)] = q[j + 1]
      BY <1>0, <1>2, <3>2
    <3> QED
      BY <1>0, <2>2, <3>1, <3>3
  <2> QED
    BY <1>0, <2>1, <2>2
<1> QED
  BY <1>4, <1>5

(* A task leaves the queue of _inflight_sem. *)
LEMMA WithoutType ==
    ASSUME SemTypeOK, NEW t
    PROVE  Without(t) \in Seq(Tasks)
<1> DEFINE q  == sem.waiters
           at == {i \in DOMAIN q : q[i] = t}
<1>1. q \in Seq(Tasks)
  BY DEF SemTypeOK
<1>2. CASE at = {}
  BY <1>1, <1>2 DEF Without
<1>3. CASE at # {}
  <2> DEFINE i == CHOOSE j \in at : TRUE
  <2>1. i \in at
    BY <1>3
  <2>2. i \in DOMAIN q
    BY <2>1
  <2>3. Without(t) = RemoveAt(q, i)
    BY <1>3 DEF Without
  <2> HIDE DEF i, q
  <2> QED
    BY <1>1, <2>2, <2>3, RemoveAtElements
<1> QED
  BY <1>2, <1>3

(* Indices of tasks. *)
LEMMA TaskIndex ==
    ASSUME NEW r \in Requests
    PROVE  /\ <<r, SyncIndex>> \in Tasks
           /\ \A i \in 1..MaxPreds : <<r, i>> \in Tasks
           /\ SyncIndex \notin 1..MaxPreds
           /\ Own(r) = {t \in Tasks : t[1] = r}
           /\ \A t \in Tasks : t[1] \in Requests
  BY PredsAssumption DEF Tasks, SyncIndex, Own

(* Predictions index the first slots of their request. *)
LEMMA PredictionIndex ==
    ASSUME NEW ps \in Predictions
    PROVE  DOMAIN ps \subseteq 1..MaxPreds /\ \A i \in DOMAIN ps : ps[i] \in Keys
  BY PredsAssumption DEF Predictions

(* Dispatching fills spec_by_key with tasks of the request. *)
LEMMA DispatchType ==
    ASSUME EngineTypeOK, NEW r \in Requests, NEW ps \in Predictions, Dispatch(r, ps)
    PROVE  specs' \in [Requests -> [Keys -> Tasks \cup {None}]]
<1> DEFINE idx(k) == CHOOSE i \in DOMAIN ps : ps[i] = k
           row == [k \in Keys |-> IF \E i \in DOMAIN ps : ps[i] = k
                                  THEN <<r, idx(k)>> ELSE None]
<1>1. ASSUME NEW k \in Keys, \E i \in DOMAIN ps : ps[i] = k
      PROVE  <<r, idx(k)>> \in Tasks
  <2>1. idx(k) \in DOMAIN ps
    BY <1>1
  <2> HIDE DEF idx
  <2> QED
    BY <2>1, PredictionIndex, TaskIndex
<1>2. row \in [Keys -> Tasks \cup {None}]
  BY <1>1
<1>3. specs' = [specs EXCEPT ![r] = row]
  BY DEF Dispatch
<1> HIDE DEF row
<1> QED
  BY <1>2, <1>3 DEF EngineTypeOK

-----------------------------------------------------------------------------
Futures == {"none", "new", "first", "again", "done"}
EngineStep(r) == Start(r) \/ Cascade(r) \/ Predict(r) \/ Engine(r) \/ Timer(r)
TaskStep(t) == Body(t) \/ Acquire(t) \/ WakeNext(t)

\* Before the answer is looked for, and futures that nobody has cancelled.
Early == {"idle", "generating", "cascaded", "draining"}
Untold(t) == fut[t] \in {"new", "first"}

\* spec_by_key names predictions of the request by their keys.
Named(r) == \A k \in Keys : specs[r][k] # None =>
                /\ specs[r][k] \in {r} \X (1..MaxPreds)
                /\ task[specs[r][k]].key = k

\* Only a future inside one of its shields has a body under way.
Begun(t) == /\ fut[t] \in {"none", "new", "done"} => task[t].st \in {"none", "ended"}
            /\ fut[t] # "none" \/ task[t].st # "none" => task[t].key \in Keys

\* Until then, whatever runs is filed under its key and not cancelled.
Filed(r) == pc[r] \in Early =>
                \A t \in Own(r) : fut[t] # "none" =>
                    specs[r][task[t].key] = t /\ fut[t] # "again"

Undispatched(r) == dispatch[r] = "pending" =>
                       /\ pc[r] \in {"idle", "generating", "cascaded"}
                       /\ \A t \in Own(r) : fut[t] = "none"

\* Waiting for a speculation, or for the fallback, all else is cancelled.
Awaits(r) == pc[r] = "awaiting" =>
                 /\ call[r] \in Keys /\ Matched(r) # None
                 /\ \A t \in Own(r) :
                       Untold(t) \/ (fut[t] # "none" /\ task[t].key = call[r])
                           => t = Matched(r)

Syncs(r) == pc[r] = "syncing" =>
                /\ call[r] \in Keys /\ task[<<r, SyncIndex>>].key = call[r]
                /\ \A t \in Own(r) : t # <<r, SyncIndex>> =>
                      /\ ~Untold(t)
                      /\ task[t].key = call[r] => fut[t] \in {"none", "done"}

Over(r) == /\ pc[r] \in {"closing", "done"} => \A t \in Own(r) : ~Untold(t)
           /\ response[r].kind = "open" <=> pc[r] \notin {"closing", "done"}

Sound(r) == /\ Named(r) /\ Filed(r) /\ Undispatched(r)
            /\ Awaits(r) /\ Syncs(r) /\ Over(r)
            /\ \A t \in Own(r) : Begun(t)

\* A waiter to wake is chosen inside _wake_up_next only.
Chosen(t) == task[t].to # None => task[t].st \in {"leaving", "passing"}

IInv == TypeOK /\ (\A r \in Requests : Sound(r)) /\ \A t \in Tasks : Chosen(t)

(* What future.cancel() makes of a future. *)
LEMMA CancelledFut ==
    ASSUME TaskTypeOK, NEW ts
    PROVE  /\ Cancelled(ts) \in [Tasks -> Futures]
           /\ \A t \in Tasks : /\ t \notin ts => Cancelled(ts)[t] = fut[t]
                               /\ t \in ts => Cancelled(ts)[t] = AfterCancel(fut[t])
  BY DEF TaskTypeOK, Futures, Cancelled, AfterCancel

(* What speculate() makes of futures f and of the tasks, for calls ks. *)
LEMMA Speculated ==
    ASSUME TaskTypeOK, CacheTypeOK, NEW f \in [Tasks -> Futures], NEW ks,
           \A t \in DOMAIN ks : t \in Tasks /\ ks[t] \in Keys, Speculate(f, ks)
    PROVE  /\ fut' \in [Tasks -> Futures] /\ task' \in [Tasks -> TaskRecords]
           /\ \A t \in Tasks : t \notin DOMAIN ks => fut'[t] = f[t] /\ task'[t] = task[t]
           /\ \A t \in DOMAIN ks :
                 /\ fut'[t] = (IF ks[t] \in DOMAIN cache THEN "done" ELSE "new")
                 /\ task'[t].st = "none" /\ task'[t].key = ks[t]
                 /\ task'[t].out = Remembered(ks[t])
<1>1. ASSUME NEW k \in Keys PROVE Remembered(k) \in Outcomes
  BY <1>1 DEF CacheTypeOK, Remembered, Outputs, Outcomes
<1>2. ASSUME NEW k \in Keys
      PROVE  [NoTask EXCEPT !.key = k, !.out = Remembered(k)] \in TaskRecords
  BY <1>1, <1>2 DEF NoTask, TaskRecords, BodyStates
<1>3. fut' \in [Tasks -> Futures]
  BY DEF Speculate, Futures
<1>4. task' \in [Tasks -> TaskRecords]
  BY <1>2 DEF Speculate, TaskTypeOK
<1>5. ASSUME NEW t \in DOMAIN ks
      PROVE  /\ fut'[t] = (IF ks[t] \in DOMAIN cache THEN "done" ELSE "new")
             /\ task'[t].st = "none" /\ task'[t].key = ks[t]
             /\ task'[t].out = Remembered(ks[t])
  BY <1>5 DEF Speculate, NoTask
<1> QED
  BY <1>3, <1>4, <1>5 DEF Speculate

(* A finished future with a value has an output of its key. *)
LEMMA OutputType ==
    ASSUME TaskTypeOK, NEW t \in Tasks, Begun(t), HasOutput(t)
    PROVE  OutputOf(t) \in Outputs
  BY DEF TaskTypeOK, Begun, HasOutput, OutputOf, TaskRecords, Outputs, Outcomes

(* The slots of spec_by_key are tasks of the request. *)
LEMMA SlotTasks ==
    ASSUME EngineTypeOK, NEW r \in Requests, Named(r)
    PROVE  /\ SpecTasks(r) \subseteq Own(r) /\ Own(r) \subseteq Tasks
           /\ \A k \in Keys : specs[r][k] \in Own(r) \cup {None}
           /\ \A k \in Keys : specs[r][k] # None => specs[r][k] \in SpecTasks(r)
           /\ <<r, SyncIndex>> \notin SpecTasks(r)
<1>1. \A k \in Keys : specs[r][k] # None => specs[r][k] \in Own(r) /\ specs[r][k] # <<r, SyncIndex>>
  BY PredsAssumption DEF Named, Own, SyncIndex
<1> QED
  BY <1>1 DEF SpecTasks, Own, Tasks

(* What a request of type-correct parts answers is type-correct. *)
LEMMA FinishType ==
    ASSUME EngineTypeOK, NEW r \in Requests, NEW kind \in {"text", "tool", "raised"},
           NEW out \in Outputs \cup {None}, Finish(r, kind, out)
    PROVE  /\ pc' \in [Requests -> Phases] /\ response' \in [Requests -> Responses]
           /\ pc'[r] = "closing" /\ response'[r].kind # "open"
  BY DEF EngineTypeOK, Finish, Phases, Responses

-----------------------------------------------------------------------------
\* Whatever is not of request r is as it was.
Elsewhere(r) ==
    \A q \in Requests \ {r} :
        /\ pc'[q] = pc[q] /\ dispatch'[q] = dispatch[q] /\ call'[q] = call[q]
        /\ specs'[q] = specs[q] /\ response'[q] = response[q]
        /\ \A t \in Own(q) : fut'[t] = fut[t] /\ task'[t] = task[t]

(* Cancelling tasks of a request leaves the futures of others alone. *)
LEMMA CancelsOwn ==
    ASSUME TaskTypeOK, NEW r \in Requests, NEW ts, ts \subseteq Own(r), fut' = Cancelled(ts)
    PROVE  /\ fut' \in [Tasks -> Futures]
           /\ \A t \in Tasks : t \notin Own(r) => fut'[t] = fut[t]
           /\ \A t \in Own(r) : /\ t \notin ts => fut'[t] = fut[t]
                                /\ t \in ts => fut'[t] = AfterCancel(fut[t])
  BY CancelledFut, TaskIndex

(* The fallback is speculated on top of futures f. *)
LEMMA SyncSpeculates ==
    ASSUME TaskTypeOK, CacheTypeOK, NEW r \in Requests, call[r] \in Keys,
           NEW f \in [Tasks -> Futures], SyncExecute(r, f)
    PROVE  /\ fut' \in [Tasks -> Futures] /\ task' \in [Tasks -> TaskRecords]
           /\ \A t \in Tasks : t # <<r, SyncIndex>> => fut'[t] = f[t] /\ task'[t] = task[t]
           /\ LET s == <<r, SyncIndex>> IN
              /\ fut'[s] \in {"new", "done"} /\ task'[s].st = "none"
              /\ task'[s].key = call[r] /\ task'[s].out = Remembered(call[r])
<1> DEFINE s  == <<r, SyncIndex>>
           ks == [t \in {s} |-> call[r]]
<1>1. s \in Tasks /\ DOMAIN ks = {s} /\ ks[s] = call[r]
  BY TaskIndex
<1>2. Speculate(f, ks)
  BY DEF SyncExecute
<1> HIDE DEF s, ks
<1>3. \A t \in DOMAIN ks : t \in Tasks /\ ks[t] \in Keys
  BY <1>1
<1>4. /\ fut' \in [Tasks -> Futures] /\ task' \in [Tasks -> TaskRecords]
      /\ \A t \in Tasks : t \notin DOMAIN ks => fut'[t] = f[t] /\ task'[t] = task[t]
      /\ \A t \in DOMAIN ks :
            /\ fut'[t] = (IF ks[t] \in DOMAIN cache THEN "done" ELSE "new")
            /\ task'[t].st = "none" /\ task'[t].key = ks[t]
            /\ task'[t].out = Remembered(ks[t])
  BY <1>2, <1>3, Speculated
<1> QED
  BY <1>1, <1>4 DEF s

(* A step of the engine, a cascade, a predictor or a timer: its own request *)
(* and nothing of the semaphore.                                            *)
LEMMA EngineFrame ==
    ASSUME IInv, NEW r \in Requests, EngineStep(r)
    PROVE  Elsewhere(r) /\ UNCHANGED <<sem, cache, produced>> /\ asleep' \subseteq asleep
<1>0. /\ TypeOK /\ EngineTypeOK /\ TaskTypeOK /\ CacheTypeOK /\ Sound(r)
  BY DEF IInv, TypeOK
<1>1. /\ SpecTasks(r) \subseteq Own(r)
      /\ \A q \in Requests \ {r} : \A t \in Own(q) : t \in Tasks /\ t \notin Own(r)
      /\ \A q \in Requests \ {r} : <<r, SyncIndex>> \notin Own(q)
  BY <1>0, SlotTasks, TaskIndex DEF Sound, Own
<1>2. UNCHANGED <<sem, cache, produced>>
  BY DEF EngineStep, Start, Cascade, CascadeFail, CascadeEmit, Predict, Dispatch, Engine, Timer,
     NoToolCall, DrainEnd, MatchDone, MatchWait, NoMatch, AwaitHit, AwaitMiss, SyncDone,
     LoopClosed, WaitTimer
<1>3. asleep' \subseteq asleep
  BY DEF EngineStep, Start, Cascade, Predict, Engine, Timer, Turn, Iterates
<1> SUFFICES Elsewhere(r)
  BY <1>2, <1>3
<1>4. /\ pc \in [Requests -> Phases] /\ DOMAIN dispatch = Requests /\ DOMAIN call = Requests
      /\ DOMAIN specs = Requests /\ DOMAIN response = Requests
  BY <1>0 DEF EngineTypeOK
<1>5. ASSUME \A q \in Requests \ {r} :
                /\ pc'[q] = pc[q] /\ dispatch'[q] = dispatch[q] /\ call'[q] = call[q]
                /\ specs'[q] = specs[q] /\ response'[q] = response[q],
             \A t \in Tasks : t \notin Own(r) => fut'[t] = fut[t] /\ task'[t] = task[t]
      PROVE  Elsewhere(r)
  BY <1>1, <1>5 DEF Elsewhere
<1>6. CASE Start(r) \/ \E k \in Keys \cup {None} : CascadeEmit(r, k)
  BY <1>4, <1>5, <1>6 DEF Start, CascadeEmit
<1>7. ASSUME NEW ts, ts \subseteq Own(r), fut' = Cancelled(ts), task' = task,
             \A q \in Requests \ {r} :
                /\ pc'[q] = pc[q] /\ dispatch'[q] = dispatch[q] /\ call'[q] = call[q]
                /\ specs'[q] = specs[q] /\ response'[q] = response[q]
      PROVE  Elsewhere(r)
  BY <1>0, <1>5, <1>7, CancelsOwn
<1>8. CASE CascadeFail(r)
  BY <1>1, <1>4, <1>7, <1>8 DEF CascadeFail, Finish
<1>9. ASSUME NEW ps \in Predictions, Dispatch(r, ps) PROVE Elsewhere(r)
  <2> DEFINE ks == [t \in {r} \X DOMAIN ps |-> ps[t[2]]]
  <2>1. Speculate(fut, ks)
    BY <1>9 DEF Dispatch
  <2>2. DOMAIN ks \subseteq Own(r)
    BY PredictionIndex, PredsAssumption DEF Own, SyncIndex
  <2> HIDE DEF ks
  <2>3. \A t \in Tasks : t \notin Own(r) => fut'[t] = fut[t] /\ task'[t] = task[t]
    BY <2>1, <2>2 DEF Speculate
  <2> QED
    BY <1>4, <1>5, <1>9, <2>3 DEF Dispatch
<1>10. CASE NoToolCall(r)
  BY <1>4, <1>5, <1>10 DEF NoToolCall
<1>11. CASE DrainEnd(r)
  BY <1>1, <1>4, <1>7, <1>11 DEF DrainEnd, Finish
<1>12. CASE MatchDone(r) \/ MatchWait(r)
  <2>1. /\ SpecTasks(r) \ {Matched(r)} \subseteq Own(r)
        /\ fut' = Cancelled(SpecTasks(r) \ {Matched(r)}) /\ task' = task
    BY <1>1, <1>12 DEF MatchDone, MatchWait, WithoutOthers
  <2>2. \A q \in Requests \ {r} :
           /\ pc'[q] = pc[q] /\ dispatch'[q] = dispatch[q] /\ call'[q] = call[q]
           /\ specs'[q] = specs[q] /\ response'[q] = response[q]
    BY <1>4, <1>12 DEF MatchDone, MatchWait, OnlyMatched, Finish
  <2> QED
    BY <1>7, <2>1, <2>2
<1>13. CASE NoMatch(r)
  <2> DEFINE ts == SpecTasks(r) \ {Matched(r)}
  <2>1. call[r] \in Keys
    BY <1>0, <1>13 DEF NoMatch, EngineTypeOK
  <2>2. /\ Cancelled(ts) \in [Tasks -> Futures]
        /\ \A t \in Tasks : t \notin Own(r) => Cancelled(ts)[t] = fut[t]
    BY <1>0, <1>1, CancelledFut
  <2>3. SyncExecute(r, Cancelled(ts))
    BY <1>13 DEF NoMatch, WithoutOthers
  <2> HIDE DEF ts
  <2>4. \A t \in Tasks : t \notin Own(r) => fut'[t] = fut[t] /\ task'[t] = task[t]
    <3>1. \A t \in Tasks : t # <<r, SyncIndex>> => fut'[t] = Cancelled(ts)[t] /\ task'[t] = task[t]
      BY <1>0, <2>1, <2>2, <2>3, SyncSpeculates
    <3> QED
      BY <2>2, <3>1, PredsAssumption DEF Own, SyncIndex
  <2> QED
    BY <1>4, <1>5, <1>13, <2>4 DEF NoMatch, OnlyMatched, SyncExecute
<1>14. CASE AwaitMiss(r)
  <2>1. call[r] \in Keys /\ fut \in [Tasks -> Futures]
    BY <1>0, <1>14 DEF AwaitMiss, Sound, Awaits, TaskTypeOK, Futures
  <2>2. \A t \in Tasks : t \notin Own(r) => fut'[t] = fut[t] /\ task'[t] = task[t]
    <3>1. \A t \in Tasks : t # <<r, SyncIndex>> => fut'[t] = fut[t] /\ task'[t] = task[t]
      BY <1>0, <1>14, <2>1, SyncSpeculates DEF AwaitMiss
    <3> QED
      BY <3>1, PredsAssumption DEF Own, SyncIndex
  <2> QED
    BY <1>4, <1>5, <1>14, <2>2 DEF AwaitMiss, SyncExecute
<1>15. CASE WaitTimer(r)
  <2>1. Awaited(r) \in Own(r)
    BY <1>0, <1>15, SlotTasks, PredsAssumption
       DEF WaitTimer, Awaited, Sound, Awaits, Own, SyncIndex, Matched
  <2> QED
    BY <1>4, <1>7, <1>15, <2>1 DEF WaitTimer, engineVars
<1>16. CASE AwaitHit(r) \/ SyncDone(r)
  BY <1>4, <1>5, <1>16 DEF AwaitHit, SyncDone, Finish
<1>17. CASE LoopClosed(r)
  BY <1>4, <1>5, <1>17 DEF LoopClosed
<1> QED
  BY <1>2, <1>3, <1>6, <1>8, <1>9, <1>10, <1>11, <1>12, <1>13, <1>14, <1>15, <1>16, <1>17
     DEF EngineStep, Cascade, Predict, Engine, Timer

(* Every step of the engine keeps the types. *)
LEMMA EngineType ==
    ASSUME IInv, NEW r \in Requests, EngineStep(r)
    PROVE  TypeOK'
<1>0. /\ EngineTypeOK /\ TaskTypeOK /\ SemTypeOK /\ CacheTypeOK /\ Sound(r)
      /\ \A t \in Own(r) : t \in Tasks /\ Begun(t)
  BY TaskIndex DEF IInv, TypeOK, Sound
<1>1. SemTypeOK' /\ CacheTypeOK' /\ asleep' \subseteq Tasks
  BY <1>0, EngineFrame DEF SemTypeOK, CacheTypeOK, TaskTypeOK
<1>2. ASSUME pc' \in [Requests -> Phases],
             dispatch' \in [Requests -> {"pending", "done", "cancelled"}],
             call' \in [Requests -> Keys \cup {None}],
             specs' \in [Requests -> [Keys -> Tasks \cup {None}]],
             response' \in [Requests -> Responses],
             fut' \in [Tasks -> Futures], task' \in [Tasks -> TaskRecords]
      PROVE  TypeOK'
  BY <1>1, <1>2 DEF TypeOK, EngineTypeOK, TaskTypeOK, Futures
<1>3. fut \in [Tasks -> Futures] /\ task \in [Tasks -> TaskRecords]
  BY <1>0 DEF TaskTypeOK, Futures
<1>4. \A ts : Cancelled(ts) \in [Tasks -> Futures]
  BY <1>0, CancelledFut
<1>5. NoSpecs \in [Keys -> Tasks \cup {None}]
  BY DEF NoSpecs
<1>6. ASSUME NEW k \in Keys, specs' = [specs EXCEPT ![r] = [NoSpecs EXCEPT ![k] = specs[r][k]]]
      PROVE  specs' \in [Requests -> [Keys -> Tasks \cup {None}]]
  BY <1>0, <1>5, <1>6 DEF EngineTypeOK
<1>7. CASE Start(r) \/ \E k \in Keys \cup {None} : CascadeEmit(r, k)
  BY <1>0, <1>2, <1>3, <1>7 DEF Start, CascadeEmit, EngineTypeOK, Phases
<1>8. CASE CascadeFail(r) \/ DrainEnd(r)
  <2>1. Finish(r, "raised", None) \/ Finish(r, "text", None)
    BY <1>8 DEF CascadeFail, DrainEnd
  <2>2. pc' \in [Requests -> Phases] /\ response' \in [Requests -> Responses]
    BY <1>0, <2>1, FinishType
  <2>3. /\ fut' = Cancelled(SpecTasks(r)) /\ task' = task /\ call' = call
        /\ specs' = [specs EXCEPT ![r] = NoSpecs]
        /\ \/ dispatch' = dispatch
           \/ dispatch' = [dispatch EXCEPT ![r] = IF @ = "pending" THEN "cancelled" ELSE @]
    BY <1>8 DEF CascadeFail, DrainEnd
  <2> QED
    BY <1>0, <1>2, <1>3, <1>4, <1>5, <2>2, <2>3 DEF EngineTypeOK
<1>9. ASSUME NEW ps \in Predictions, Dispatch(r, ps) PROVE TypeOK'
  <2> DEFINE ks == [t \in {r} \X DOMAIN ps |-> ps[t[2]]]
  <2>1. Speculate(fut, ks)
    BY <1>9 DEF Dispatch
  <2>2. \A t \in DOMAIN ks : t \in Tasks /\ ks[t] \in Keys
    BY PredictionIndex, PredsAssumption DEF Tasks, SyncIndex
  <2> HIDE DEF ks
  <2>3. fut' \in [Tasks -> Futures] /\ task' \in [Tasks -> TaskRecords]
    BY <1>0, <1>3, <2>1, <2>2, Speculated
  <2>4. specs' \in [Requests -> [Keys -> Tasks \cup {None}]]
    BY <1>0, <1>9, DispatchType
  <2> QED
    BY <1>0, <1>2, <1>9, <2>3, <2>4 DEF Dispatch, EngineTypeOK
<1>10. CASE NoToolCall(r)
  BY <1>0, <1>2, <1>3, <1>10 DEF NoToolCall, EngineTypeOK, Phases
<1>11. CASE MatchDone(r) \/ MatchWait(r)
  <2>1. call[r] \in Keys /\ fut' \in [Tasks -> Futures]
    BY <1>0, <1>4, <1>11 DEF MatchDone, MatchWait, WithoutOthers, EngineTypeOK
  <2>2. specs' \in [Requests -> [Keys -> Tasks \cup {None}]]
    BY <1>6, <1>11, <2>1 DEF MatchDone, MatchWait, OnlyMatched, Matched
  <2>3. MatchDone(r) => OutputOf(Matched(r)) \in Outputs
    <3>1. Matched(r) # None => Matched(r) \in Own(r)
      BY <1>0, <2>1, SlotTasks DEF Matched, Sound
    <3> QED
      BY <1>0, <3>1, OutputType DEF MatchDone
  <2>4. pc' \in [Requests -> Phases] /\ response' \in [Requests -> Responses]
    BY <1>0, <1>11, <2>3, FinishType DEF MatchDone, MatchWait, EngineTypeOK, Phases
  <2> QED
    BY <1>0, <1>2, <1>3, <1>11, <2>1, <2>2, <2>4 DEF MatchDone, MatchWait, EngineTypeOK
<1>12. CASE NoMatch(r)
  <2>1. call[r] \in Keys /\ WithoutOthers(r) \in [Tasks -> Futures]
    BY <1>0, <1>4, <1>12 DEF NoMatch, WithoutOthers, EngineTypeOK
  <2>2. fut' \in [Tasks -> Futures] /\ task' \in [Tasks -> TaskRecords]
    BY <1>0, <1>12, <2>1, SyncSpeculates DEF NoMatch
  <2>3. specs' \in [Requests -> [Keys -> Tasks \cup {None}]]
    BY <1>6, <1>12, <2>1 DEF NoMatch, OnlyMatched, Matched
  <2> QED
    BY <1>0, <1>2, <1>12, <2>2, <2>3 DEF NoMatch, SyncExecute, EngineTypeOK, Phases
<1>13. CASE AwaitMiss(r)
  <2>1. fut' \in [Tasks -> Futures] /\ task' \in [Tasks -> TaskRecords]
    BY <1>0, <1>3, <1>13, SyncSpeculates DEF AwaitMiss, Sound, Awaits
  <2> QED
    BY <1>0, <1>2, <1>13, <2>1 DEF AwaitMiss, SyncExecute, EngineTypeOK, Phases
<1>14. CASE WaitTimer(r)
  BY <1>0, <1>2, <1>3, <1>4, <1>14 DEF WaitTimer, engineVars, EngineTypeOK
<1>15. CASE AwaitHit(r)
  <2>1. Matched(r) \in Own(r)
    BY <1>0, <1>15, SlotTasks DEF AwaitHit, Sound, Awaits, Matched
  <2>2. OutputOf(Matched(r)) \in Outputs
    BY <1>0, <1>15, <2>1, OutputType DEF AwaitHit
  <2> QED
    BY <1>0, <1>2, <1>3, <1>15, <2>2, FinishType DEF AwaitHit, EngineTypeOK
<1>16. CASE SyncDone(r)
  <2> DEFINE t == <<r, SyncIndex>>
  <2>1. t \in Own(r)
    BY PredsAssumption DEF Own, SyncIndex
  <2>2. HasOutput(t) => OutputOf(t) \in Outputs
    BY <1>0, <2>1, OutputType
  <2>3. PICK kind \in {"text", "tool", "raised"}, out \in Outputs \cup {None} : Finish(r, kind, out)
    BY <1>16, <2>2 DEF SyncDone
  <2>4. pc' \in [Requests -> Phases] /\ response' \in [Requests -> Responses]
    BY <1>0, <2>3, FinishType
  <2> QED
    BY <1>0, <1>2, <1>3, <1>16, <2>4 DEF SyncDone, EngineTypeOK
<1>17. CASE LoopClosed(r)
  <2>1. NoTask \in TaskRecords
    BY DEF NoTask, TaskRecords, BodyStates, Outcomes
  <2>2. fut' \in [Tasks -> Futures] /\ task' \in [Tasks -> TaskRecords]
    BY <1>3, <1>17, <2>1 DEF LoopClosed, Futures
  <2> QED
    BY <1>0, <1>2, <1>5, <1>17, <2>2 DEF LoopClosed, EngineTypeOK, Phases
<1> QED
  BY <1>7, <1>8, <1>9, <1>10, <1>11, <1>12, <1>13, <1>14, <1>15, <1>16, <1>17
     DEF EngineStep, Cascade, Predict, Engine, Timer

-----------------------------------------------------------------------------
(* A request nothing happens to stays as it should be. *)
LEMMA ElsewhereSound ==
    ASSUME NEW r \in Requests, Elsewhere(r), TypeOK, NEW q \in Requests \ {r}, Sound(q)
    PROVE  Sound(q)'
<1>1. /\ pc'[q] = pc[q] /\ dispatch'[q] = dispatch[q] /\ call'[q] = call[q]
      /\ specs'[q] = specs[q] /\ response'[q] = response[q]
      /\ \A t \in Own(q) : fut'[t] = fut[t] /\ task'[t] = task[t]
  BY DEF Elsewhere
<1>2. \A k \in Keys : specs[q][k] # None => specs[q][k] \in Own(q)
  BY SlotTasks, NoneIsNothing DEF Sound, TypeOK
<1>3. Named(q)'
  BY <1>1, <1>2 DEF Sound, Named
<1>4. Filed(q)' /\ Undispatched(q)' /\ Over(q)'
  BY <1>1 DEF Sound, Filed, Undispatched, Over, Untold
<1>5. <<q, SyncIndex>> \in Own(q)
  BY PredsAssumption DEF Own, SyncIndex
<1>6. Awaits(q)' /\ Syncs(q)'
  BY <1>1, <1>5 DEF Sound, Awaits, Syncs, Matched, Untold
<1>7. \A t \in Own(q) : Begun(t)'
  BY <1>1 DEF Sound, Begun
<1> QED
  BY <1>3, <1>4, <1>6, <1>7 DEF Sound

(* A cancel begins nothing and makes no future that was not there. *)
LEMMA CancelBegins ==
    ASSUME TaskTypeOK, NEW t \in Tasks, Begun(t), task'[t] = task[t],
           fut'[t] \in {fut[t], AfterCancel(fut[t])}, fut[t] # "again"
    PROVE  /\ Begun(t)' /\ (fut'[t] = "none" <=> fut[t] = "none")
           /\ Untold(t)' => Untold(t) /\ fut'[t] = fut[t]
           /\ fut'[t] = AfterCancel(fut[t]) => ~Untold(t)'
  BY DEF TaskTypeOK, Begun, AfterCancel, Untold

(* Every future of a request that is still looking is in its slot. *)
LEMMA FiledInSlot ==
    ASSUME EngineTypeOK, NEW r \in Requests, Sound(r), pc[r] \in Early,
           NEW t \in Own(r), fut[t] # "none"
    PROVE  /\ task[t].key \in Keys /\ specs[r][task[t].key] = t
           /\ t \in SpecTasks(r) /\ fut[t] # "again"
<1>1. task[t].key \in Keys /\ specs[r][task[t].key] = t /\ fut[t] # "again"
  BY DEF Sound, Begun, Filed
<1>2. t # None
  BY NoneIsNothing, TaskIndex
<1> QED
  BY <1>1, <1>2 DEF SpecTasks

(* The predictor's calls are speculated. *)
LEMMA DispatchSound ==
    ASSUME IInv, NEW r \in Requests, NEW ps \in Predictions, Dispatch(r, ps)
    PROVE  Sound(r)'
<1> DEFINE ks == [t \in {r} \X DOMAIN ps |-> ps[t[2]]]
           idx(k) == CHOOSE i \in DOMAIN ps : ps[i] = k
<1>0. /\ EngineTypeOK /\ TaskTypeOK /\ CacheTypeOK /\ Sound(r)
      /\ fut \in [Tasks -> Futures] /\ \A t \in Own(r) : t \in Tasks
  BY TaskIndex DEF IInv, TypeOK, TaskTypeOK, Futures
<1>1. \A t \in Own(r) : fut[t] = "none" /\ Begun(t)
  BY <1>0 DEF Dispatch, Sound, Undispatched
<1>2. /\ DOMAIN ps \subseteq 1..MaxPreds /\ \A i \in DOMAIN ps : ps[i] \in Keys
      /\ \A i, j \in DOMAIN ps : ps[i] = ps[j] => i = j
  BY PredictionIndex DEF Predictions
<1>3. DOMAIN ks \subseteq Own(r) /\ \A t \in DOMAIN ks : t \in Tasks /\ ks[t] \in Keys
  BY <1>0, <1>2, PredsAssumption DEF Own, SyncIndex
<1>4. Speculate(fut, ks)
  BY DEF Dispatch
<1>5. \A t \in DOMAIN ks : t[1] = r /\ t[2] \in DOMAIN ps /\ t = <<r, t[2]>> /\ ks[t] = ps[t[2]]
  BY <1>2
<1>6. \A i \in DOMAIN ps : <<r, i>> \in DOMAIN ks /\ ks[<<r, i>>] = ps[i]
  BY <1>2
<1> HIDE DEF ks
<1>7. /\ \A t \in Tasks : t \notin DOMAIN ks => fut'[t] = fut[t] /\ task'[t] = task[t]
      /\ \A t \in DOMAIN ks : /\ fut'[t] \in {"new", "done"} /\ task'[t].st = "none"
                              /\ task'[t].key = ks[t]
  BY <1>0, <1>3, <1>4, Speculated
<1>8. /\ pc' = pc /\ pc[r] \in {"generating", "cascaded"} /\ dispatch'[r] = "done"
      /\ response' = response
  BY <1>0 DEF Dispatch, EngineTypeOK
<1>9. \A k \in Keys : specs'[r][k] = IF \E i \in DOMAIN ps : ps[i] = k THEN <<r, idx(k)>> ELSE None
  BY <1>0 DEF Dispatch, EngineTypeOK
<1>10. ASSUME NEW i \in DOMAIN ps PROVE idx(ps[i]) = i
  <2>1. idx(ps[i]) \in DOMAIN ps /\ ps[idx(ps[i])] = ps[i]
    OBVIOUS
  <2> HIDE DEF idx
  <2> QED
    BY <1>2, <2>1
<1> HIDE DEF idx
<1>11. Named(r)'
  <2> SUFFICES ASSUME NEW k \in Keys, specs'[r][k] # None
               PROVE  specs'[r][k] \in {r} \X (1..MaxPreds) /\ task'[specs'[r][k]].key = k
    BY DEF Named
  <2>1. PICK i \in DOMAIN ps : ps[i] = k
    BY <1>9
  <2>2. specs'[r][k] = <<r, i>>
    BY <1>9, <1>10, <2>1
  <2> QED
    BY <1>2, <1>6, <1>7, <2>1, <2>2
<1>12. Filed(r)'
  <2> SUFFICES ASSUME NEW t \in Own(r), fut'[t] # "none"
               PROVE  specs'[r][task'[t].key] = t /\ fut'[t] # "again"
    BY DEF Filed
  <2>1. t \in DOMAIN ks
    BY <1>0, <1>1, <1>7
  <2>2. t[2] \in DOMAIN ps /\ t = <<r, t[2]>> /\ task'[t].key = ps[t[2]]
    BY <1>5, <1>7, <2>1
  <2> QED
    BY <1>2, <1>7, <1>9, <1>10, <2>1, <2>2
<1>13. \A t \in Own(r) : Begun(t)'
  <2> SUFFICES ASSUME NEW t \in Own(r) PROVE Begun(t)'
    OBVIOUS
  <2>1. CASE t \in DOMAIN ks
    BY <1>3, <1>7, <2>1 DEF Begun
  <2>2. CASE t \notin DOMAIN ks
    BY <1>0, <1>1, <1>7, <2>2 DEF Begun
  <2> QED
    BY <2>1, <2>2
<1>14. Undispatched(r)' /\ Awaits(r)' /\ Syncs(r)' /\ Over(r)'
  BY <1>0, <1>8 DEF Undispatched, Awaits, Syncs, Over, Sound
<1> QED
  BY <1>11, <1>12, <1>13, <1>14 DEF Sound

(* The engine lets go of all speculations and answers. *)
LEMMA LetGoSound ==
    ASSUME IInv, NEW r \in Requests, CascadeFail(r) \/ DrainEnd(r)
    PROVE  Sound(r)'
<1>0. /\ EngineTypeOK /\ TaskTypeOK /\ Sound(r) /\ pc[r] \in Early
      /\ \A t \in Own(r) : t \in Tasks /\ Begun(t)
  BY TaskIndex DEF IInv, TypeOK, CascadeFail, DrainEnd, Early, Sound
<1>1. /\ SpecTasks(r) \subseteq Own(r) /\ fut' = Cancelled(SpecTasks(r)) /\ task' = task
  BY <1>0, SlotTasks DEF CascadeFail, DrainEnd, Sound
<1>5. \A k \in Keys : specs'[r][k] = None
  BY <1>0 DEF CascadeFail, DrainEnd, NoSpecs, EngineTypeOK
<1>6. dispatch'[r] # "pending"
  BY <1>0 DEF CascadeFail, DrainEnd, EngineTypeOK, Sound, Undispatched
<1>2. pc'[r] = "closing" /\ response'[r].kind # "open"
  <2>1. Finish(r, "raised", None) \/ Finish(r, "text", None)
    BY DEF CascadeFail, DrainEnd
  <2> QED
    BY <1>0, <2>1, FinishType
<1>3. ASSUME NEW t \in Own(r) PROVE Begun(t)' /\ ~Untold(t)'
  <2>1. /\ t \notin SpecTasks(r) => fut'[t] = fut[t]
        /\ t \in SpecTasks(r) => fut'[t] = AfterCancel(fut[t])
    BY <1>0, <1>1, <1>3, CancelsOwn
  <2>2. fut[t] # "none" => t \in SpecTasks(r) /\ fut[t] # "again"
    BY <1>0, <1>3, FiledInSlot
  <2>3. fut[t] = "none" => fut'[t] = "none"
    BY <2>1 DEF AfterCancel
  <2>4. CASE fut[t] = "none"
    BY <1>0, <1>1, <1>3, <2>3, <2>4 DEF Begun, Untold
  <2>5. CASE fut[t] # "none"
    BY <1>0, <1>1, <1>3, <2>1, <2>2, <2>5, CancelBegins
  <2> QED
    BY <2>4, <2>5
<1> QED
  BY <1>2, <1>3, <1>5, <1>6 DEF Sound, Named, Filed, Undispatched, Awaits, Syncs, Over, Early

(* The tool call is matched with a speculation, finished or under way. *)
LEMMA MatchSound ==
    ASSUME IInv, NEW r \in Requests, MatchDone(r) \/ MatchWait(r)
    PROVE  Sound(r)'
<1> DEFINE m  == Matched(r)
           ts == SpecTasks(r) \ {Matched(r)}
<1>0. /\ EngineTypeOK /\ TaskTypeOK /\ Sound(r) /\ pc[r] \in Early /\ pc[r] = "cascaded"
      /\ dispatch[r] = "done" /\ call[r] \in Keys /\ m # None /\ m = specs[r][call[r]]
      /\ \A t \in Own(r) : t \in Tasks /\ Begun(t)
  BY TaskIndex DEF IInv, TypeOK, MatchDone, MatchWait, Early, Sound, Ready, EngineTypeOK, Matched
<1>1. /\ ts \subseteq Own(r) /\ fut' = Cancelled(ts) /\ task' = task
      /\ dispatch' = dispatch /\ call' = call
  BY <1>0, SlotTasks DEF MatchDone, MatchWait, WithoutOthers, Sound
<1>2. \A k \in Keys : specs'[r][k] = IF k = call[r] THEN specs[r][k] ELSE None
  BY <1>0 DEF MatchDone, MatchWait, OnlyMatched, NoSpecs, EngineTypeOK, Matched
<1>3. Named(r)' /\ Matched(r)' = m
  BY <1>0, <1>1, <1>2 DEF Named, Sound, Matched
<1>4. ASSUME NEW t \in Own(r)
      PROVE  /\ Begun(t)' /\ (Untold(t)' => t = m /\ fut'[t] = fut[t])
             /\ fut'[t] # "none" /\ task'[t].key = call[r] => t = m
  <2>1. /\ t \notin ts => fut'[t] = fut[t]
        /\ t \in ts => fut'[t] = AfterCancel(fut[t])
    BY <1>0, <1>1, <1>4, CancelsOwn
  <2>2. fut[t] # "none" => /\ specs[r][task[t].key] = t
                           /\ t \in SpecTasks(r) /\ fut[t] # "again"
    BY <1>0, <1>4, FiledInSlot
  <2>3. CASE fut[t] = "none"
    <3>1. fut'[t] = "none"
      BY <2>1, <2>3 DEF AfterCancel
    <3> QED
      BY <1>0, <1>1, <1>4, <2>3, <3>1 DEF Begun, Untold
  <2>4. CASE fut[t] # "none"
    <3>1. /\ Begun(t)' /\ (Untold(t)' => Untold(t) /\ fut'[t] = fut[t])
          /\ fut'[t] = AfterCancel(fut[t]) => ~Untold(t)'
      BY <1>0, <1>1, <1>4, <2>1, <2>2, <2>4, CancelBegins
    <3>2. task'[t].key = call[r] => t = m
      BY <1>0, <1>1, <2>2, <2>4
    <3> QED
      BY <2>1, <2>2, <2>4, <3>1, <3>2
  <2> QED
    BY <2>3, <2>4
<1> HIDE DEF m, ts
<1>5. CASE MatchDone(r)
  <2>1. PICK out \in Outputs : Finish(r, "tool", out)
    <3>1. m \in Own(r)
      BY <1>0, SlotTasks DEF Sound
    <3>2. OutputOf(m) \in Outputs
      BY <1>0, <1>5, <3>1, OutputType DEF MatchDone, m
    <3> QED
      BY <1>5, <3>2 DEF MatchDone, m
  <2>2. pc'[r] = "closing" /\ response'[r].kind # "open"
    BY <1>0, <2>1, FinishType
  <2>3. fut[m] = "done"
    BY <1>5 DEF MatchDone, HasOutput, m
  <2>4. \A t \in Own(r) : ~Untold(t)'
    BY <1>4, <2>3 DEF Untold
  <2> QED
    BY <1>0, <1>1, <1>3, <1>4, <2>2, <2>4
       DEF Sound, Filed, Undispatched, Awaits, Syncs, Over, Early
<1>6. CASE MatchWait(r)
  <2>1. pc'[r] = "awaiting" /\ response' = response
    BY <1>0, <1>6 DEF MatchWait, EngineTypeOK
  <2>2. Awaits(r)'
    BY <1>0, <1>1, <1>3, <1>4 DEF Awaits
  <2>3. Over(r)' /\ Undispatched(r)'
    BY <1>0, <1>1, <2>1 DEF Over, Sound, Undispatched
  <2> QED
    BY <1>3, <1>4, <2>1, <2>2, <2>3 DEF Sound, Filed, Syncs, Early
<1> QED
  BY <1>5, <1>6

(* What the fallback may find, and what it then is. *)
LEMMA SyncSound ==
    ASSUME IInv, NEW r \in Requests, NEW f \in [Tasks -> Futures], SyncExecute(r, f),
           call[r] \in Keys, dispatch[r] # "pending",
           call'[r] = call[r], dispatch'[r] = dispatch[r], response'[r] = response[r],
           response[r].kind = "open",
           \A k \in Keys : specs'[r][k] \in {None, specs[r][k]},
           \A t \in Own(r) :
              t # <<r, SyncIndex>> =>
                 /\ f[t] \notin {"new", "first"}
                 /\ f[t] = "done" => task[t].st \in {"none", "ended"}
                 /\ f[t] = "none" <=> fut[t] = "none"
                 /\ task[t].key = call[r] => f[t] \in {"none", "done"}
    PROVE  Sound(r)'
<1> DEFINE s == <<r, SyncIndex>>
<1>0. /\ EngineTypeOK /\ TaskTypeOK /\ CacheTypeOK /\ Sound(r) /\ s \in Own(r) /\ s \in Tasks
      /\ \A t \in Own(r) : t \in Tasks /\ Begun(t)
  BY TaskIndex, PredsAssumption DEF IInv, TypeOK, Sound, Own, SyncIndex
<1>1. /\ \A t \in Tasks : t # s => fut'[t] = f[t] /\ task'[t] = task[t]
      /\ fut'[s] \in {"new", "done"} /\ task'[s].st = "none" /\ task'[s].key = call[r]
  BY <1>0, SyncSpeculates
<1>2. pc'[r] = "syncing"
  BY <1>0 DEF SyncExecute, EngineTypeOK
<1>3. \A k \in Keys : specs[r][k] # None => specs[r][k] \in Own(r) /\ specs[r][k] # s
  BY <1>0, SlotTasks DEF Sound
<1> HIDE DEF s
<1>4. Named(r)'
  BY <1>0, <1>1, <1>3 DEF Named, Sound
<1>5. ASSUME NEW t \in Own(r) PROVE Begun(t)'
  <2>1. CASE t = s
    BY <1>1, <2>1 DEF Begun
  <2>2. CASE t # s
    BY <1>0, <1>1, <2>2 DEF Begun, s
  <2> QED
    BY <2>1, <2>2
<1>6. Syncs(r)'
  BY <1>0, <1>1 DEF Syncs, Untold, s
<1> QED
  BY <1>2, <1>4, <1>5, <1>6 DEF Sound, Filed, Undispatched, Awaits, Over, Early

(* No speculation of the call, or one that came to nothing: the fallback. *)
LEMMA FallbackSound ==
    ASSUME IInv, NEW r \in Requests, NoMatch(r) \/ AwaitMiss(r)
    PROVE  Sound(r)'
<1>0. /\ EngineTypeOK /\ TaskTypeOK /\ CacheTypeOK /\ Sound(r)
      /\ fut \in [Tasks -> Futures]
      /\ \A t \in Own(r) : t \in Tasks /\ Begun(t)
  BY TaskIndex DEF IInv, TypeOK, TaskTypeOK, Futures, Sound
<1>1. CASE NoMatch(r)
  <2> DEFINE f == WithoutOthers(r)
  <2>1. /\ pc[r] = "cascaded" /\ pc[r] \in Early /\ dispatch[r] = "done" /\ call[r] \in Keys
        /\ specs[r][call[r]] = None /\ SyncExecute(r, f) /\ response[r].kind = "open"
        /\ UNCHANGED <<dispatch, call, response>>
    BY <1>0, <1>1 DEF NoMatch, Ready, Early, EngineTypeOK, Matched, Sound, Over
  <2>2. \A k \in Keys : specs'[r][k] \in {None, specs[r][k]}
    BY <1>0, <1>1, <2>1 DEF NoMatch, OnlyMatched, Matched, NoSpecs, EngineTypeOK
  <2>3. f \in [Tasks -> Futures]
    BY <1>0, CancelledFut DEF WithoutOthers
  <2>4. ASSUME NEW t \in Own(r)
        PROVE  /\ f[t] \notin {"new", "first"}
               /\ f[t] = "done" => task[t].st \in {"none", "ended"}
               /\ f[t] = "none" <=> fut[t] = "none"
               /\ task[t].key = call[r] => f[t] \in {"none", "done"}
    <3>1. fut[t] # "none" => /\ t \in SpecTasks(r) \ {Matched(r)} /\ fut[t] # "again"
                             /\ task[t].key # call[r]
      <4>1. ASSUME fut[t] # "none"
            PROVE  /\ t \in SpecTasks(r) /\ fut[t] # "again" /\ specs[r][task[t].key] = t
                   /\ task[t].key \in Keys
        BY <1>0, <2>1, <2>4, <4>1, FiledInSlot
      <4>2. t # None
        BY <1>0, NoneIsNothing
      <4> QED
        BY <2>1, <4>1, <4>2 DEF Matched
    <3>2. /\ t \notin SpecTasks(r) \ {Matched(r)} => f[t] = fut[t]
          /\ t \in SpecTasks(r) \ {Matched(r)} => f[t] = AfterCancel(fut[t])
      BY <1>0, CancelledFut DEF WithoutOthers
    <3>3. Begun(t) /\ fut[t] \in Futures
      BY <1>0
    <3> HIDE DEF f
    <3> QED
      BY <3>1, <3>2, <3>3 DEF AfterCancel, Futures, Begun
  <2> HIDE DEF f
  <2> QED
    BY <2>1, <2>2, <2>3, <2>4, SyncSound
<1>2. CASE AwaitMiss(r)
  <2>1. /\ pc[r] = "awaiting" /\ call[r] \in Keys /\ SyncExecute(r, fut)
        /\ fut[Matched(r)] = "done" /\ dispatch[r] # "pending" /\ response[r].kind = "open"
        /\ UNCHANGED <<dispatch, call, specs, response>>
        /\ \A t \in Own(r) : Untold(t) \/ (fut[t] # "none" /\ task[t].key = call[r])
                                 => t = Matched(r)
    BY <1>0, <1>2 DEF AwaitMiss, Sound, Undispatched, Over, Awaits, EngineTypeOK
  <2>2. \A t \in Own(r) :
           /\ fut[t] \notin {"new", "first"}
           /\ fut[t] = "done" => task[t].st \in {"none", "ended"}
           /\ task[t].key = call[r] => fut[t] \in {"none", "done"}
    BY <1>0, <2>1 DEF Untold, Begun
  <2> QED
    BY <1>0, <2>1, <2>2, SyncSound
<1> QED
  BY <1>1, <1>2

(* Every step of the engine keeps its request as it should be. *)
LEMMA EngineSound ==
    ASSUME IInv, NEW r \in Requests, EngineStep(r)
    PROVE  Sound(r)'
<1>0. /\ EngineTypeOK /\ TaskTypeOK /\ Sound(r) /\ <<r, SyncIndex>> \in Own(r)
      /\ \A t \in Own(r) : t \in Tasks /\ Begun(t)
  BY TaskIndex, PredsAssumption DEF IInv, TypeOK, Sound, Own, SyncIndex
<1>1. CASE Start(r) \/ (\E k \in Keys \cup {None} : CascadeEmit(r, k)) \/ NoToolCall(r)
  <2>1. /\ pc[r] \in Early /\ pc'[r] \in Early /\ UNCHANGED <<dispatch, specs, fut, task, response>>
        /\ dispatch[r] = "pending" => pc'[r] \in {"idle", "generating", "cascaded"}
        /\ pc[r] \notin {"closing", "done"} /\ pc'[r] \notin {"closing", "done", "awaiting", "syncing"}
    BY <1>0, <1>1 DEF Start, CascadeEmit, NoToolCall, Ready, Early, EngineTypeOK
  <2> QED
    BY <1>0, <2>1 DEF Sound, Named, Filed, Undispatched, Awaits, Syncs, Over, Begun, Untold
<1>2. CASE WaitTimer(r)
  <2> DEFINE a == Awaited(r)
  <2>1. /\ a \in Own(r) /\ pc[r] \in {"awaiting", "syncing"} /\ fut[a] = "first"
        /\ fut' = [fut EXCEPT ![a] = "again"]
        /\ UNCHANGED <<engineVars, task>>
    <3>1. a \in Own(r)
      BY <1>0, <1>2, SlotTasks DEF WaitTimer, Awaited, Sound, Awaits, Matched
    <3>2. fut' \in [Tasks -> Futures]
      BY <1>0, <1>2, CancelledFut DEF WaitTimer
    <3>3. \A t \in Tasks : fut'[t] = IF t = a THEN "again" ELSE fut[t]
      BY <1>0, <1>2, CancelledFut DEF WaitTimer, AfterCancel
    <3> HIDE DEF a
    <3> QED
      BY <1>0, <1>2, <3>1, <3>2, <3>3 DEF WaitTimer, TaskTypeOK, a
  <2>2. pc[r] = "syncing" => a = <<r, SyncIndex>>
    BY DEF Awaited
  <2>3. pc[r] = "awaiting" => a = Matched(r)
    BY DEF Awaited
  <2> HIDE DEF a
  <2>4. \A t \in Own(r) : fut'[t] = IF t = a THEN "again" ELSE fut[t]
    BY <1>0, <2>1 DEF TaskTypeOK
  <2>5. Named(r)' /\ Filed(r)' /\ Undispatched(r)' /\ Over(r)' /\ \A t \in Own(r) : Begun(t)'
    BY <1>0, <2>1, <2>4
       DEF engineVars, Sound, Named, Filed, Undispatched, Over, Begun, Early, Untold
  <2>6. Awaits(r)'
    BY <1>0, <2>1, <2>3, <2>4 DEF engineVars, Sound, Awaits, Untold, Matched
  <2>7. Syncs(r)'
    BY <1>0, <2>1, <2>2, <2>4 DEF engineVars, Sound, Syncs, Untold
  <2> QED
    BY <2>5, <2>6, <2>7 DEF Sound
<1>3. CASE AwaitHit(r) \/ SyncDone(r)
  <2>1. UNCHANGED <<dispatch, specs, fut, task>> /\ pc[r] \in {"awaiting", "syncing"}
    BY <1>3 DEF AwaitHit, SyncDone
  <2>2. pc'[r] = "closing" /\ response'[r].kind # "open"
    BY <1>0, <1>3 DEF AwaitHit, SyncDone, Finish, EngineTypeOK
  <2>3. \A t \in Own(r) : ~Untold(t)
    BY <1>0, <1>3 DEF AwaitHit, SyncDone, HasOutput, Sound, Awaits, Syncs, Untold
  <2> QED
    BY <1>0, <2>1, <2>2, <2>3
       DEF Sound, Named, Filed, Undispatched, Awaits, Syncs, Over, Early, Begun, Untold
<1>4. CASE LoopClosed(r)
  <2>1. /\ pc[r] = "closing" /\ pc'[r] = "done" /\ UNCHANGED <<dispatch, response>>
        /\ \A k \in Keys : specs'[r][k] = None
        /\ \A t \in Own(r) : fut'[t] = "none" /\ task'[t] = NoTask
    BY <1>0, <1>4 DEF LoopClosed, EngineTypeOK, NoSpecs
  <2> QED
    BY <1>0, <2>1
       DEF Sound, Named, Filed, Undispatched, Awaits, Syncs, Over, Early, Begun, Untold, NoTask
<1> QED
  BY <1>1, <1>2, <1>3, <1>4, DispatchSound, LetGoSound, MatchSound, FallbackSound
     DEF EngineStep, Cascade, Predict, Engine, Timer

-----------------------------------------------------------------------------
\* What a step of a body may do to a task: its key stays; its future begins,
\* ends with the body, or stays as it was beside a body that is under way.
Moved(u) ==
    /\ task'[u].key = task[u].key
    /\ \/ fut'[u] = fut[u] /\ (task'[u].st = task[u].st \/ fut[u] \in {"first", "again"})
       \/ fut[u] = "new" /\ fut'[u] = "first"
       \/ fut[u] \in {"first", "again"} /\ fut'[u] = "done" /\ task'[u].st = "ended"

\* An output a task newly has is one an execution of its call returned.
Returned(u) == task'[u].out # "none" =>
                   \/ task'[u].out = task[u].out
                   \/ [key |-> task[u].key, outcome |-> task'[u].out] \in produced'

Moves == /\ fut' \in [Tasks -> Futures] /\ task' \in [Tasks -> TaskRecords]
         /\ \A u \in Tasks : Moved(u) /\ Returned(u) /\ (Chosen(u) => Chosen(u)')

(* A request whose tasks move so stays as it should be. *)
LEMMA MovedSound ==
    ASSUME TypeOK, Moves, UNCHANGED engineVars, NEW r \in Requests, Sound(r)
    PROVE  Sound(r)'
<1>0. /\ \A t \in Own(r) : t \in Tasks /\ Moved(t) /\ Begun(t)
      /\ fut \in [Tasks -> Futures]
  BY TaskIndex DEF TypeOK, TaskTypeOK, Futures, Moves, Sound
<1>1. /\ pc'[r] = pc[r] /\ dispatch'[r] = dispatch[r] /\ call'[r] = call[r]
      /\ specs'[r] = specs[r] /\ response'[r] = response[r] /\ Matched(r)' = Matched(r)
  BY DEF engineVars, Matched
<1>2. ASSUME NEW t \in Own(r)
      PROVE  /\ task'[t].key = task[t].key /\ (fut'[t] = "none" <=> fut[t] = "none")
             /\ Untold(t)' => Untold(t)
             /\ fut'[t] = "again" => fut[t] = "again"
             /\ fut[t] \in {"none", "done"} => fut'[t] \in {"none", "done"}
             /\ Begun(t)'
  BY <1>0, <1>2 DEF Moved, Untold, Begun, Futures
<1>3. \A k \in Keys : specs[r][k] # None => specs[r][k] \in Own(r)
  BY SlotTasks DEF Sound, TypeOK
<1>4. Named(r)'
  BY <1>1, <1>2, <1>3 DEF Sound, Named
<1>5. Filed(r)' /\ Undispatched(r)' /\ Over(r)'
  BY <1>1, <1>2 DEF Sound, Filed, Undispatched, Over
<1>6. <<r, SyncIndex>> \in Own(r)
  BY PredsAssumption DEF Own, SyncIndex
<1>7. Awaits(r)' /\ Syncs(r)'
  BY <1>1, <1>2, <1>6 DEF Sound, Awaits, Syncs
<1> QED
  BY <1>2, <1>4, <1>5, <1>7 DEF Sound

(* A body under way has a key, and a future that waits for it. *)
LEMMA UnderWay ==
    ASSUME TaskTypeOK, NEW t \in Tasks, Begun(t), task[t].st \notin {"none", "ended"}
    PROVE  task[t].key \in Keys /\ fut[t] \in {"first", "again"}
  BY DEF TaskTypeOK, Begun

(* The ways in which a body changes its own task. *)
LEMMA EndMoves ==
    ASSUME TaskTypeOK, NEW t \in Tasks, fut[t] \in {"first", "again"},
           NEW out \in {"none", task[t].out}, End(t, out)
    PROVE  Moves
<1> DEFINE n == [task[t] EXCEPT !.st = "ended", !.out = out, !.to = None]
<1>1. /\ n \in TaskRecords /\ n.st = "ended" /\ n.key = task[t].key /\ n.out = out
      /\ n.to = None
  BY DEF TaskTypeOK, TaskRecords, BodyStates, Outcomes
<1>2. task' = [task EXCEPT ![t] = n] /\ fut' = [fut EXCEPT ![t] = "done"]
  BY DEF End
<1> HIDE DEF n
<1> QED
  BY <1>1, <1>2 DEF Moves, Moved, Returned, Chosen, TaskTypeOK, Futures

LEMMA RunMoves ==
    ASSUME TaskTypeOK, NEW t \in Tasks, task[t].to = None, RunMcp(t)
    PROVE  Moves
<1> DEFINE n == [task[t] EXCEPT !.st = "new"]
<1>1. /\ n \in TaskRecords /\ n.st = "new" /\ n.to = None
       /\ n.key = task[t].key /\ n.out = task[t].out
  BY DEF TaskTypeOK, TaskRecords, BodyStates
<1>2. task' = [task EXCEPT ![t] = n] /\ fut' = [fut EXCEPT ![t] = "first"] /\ fut[t] = "new"
  BY DEF RunMcp, Step
<1> HIDE DEF n
<1> QED
  BY <1>1, <1>2 DEF Moves, Moved, Returned, Chosen, TaskTypeOK, Futures

LEMMA GiveMoves ==
    ASSUME TaskTypeOK, NEW t \in Tasks, fut[t] \in {"first", "again"},
           NEW u \in Tasks, fut[u] \in {"first", "again"}, u # t, task[u].to = None,
           NEW st \in {"ended", "running"},
           task' = [task EXCEPT ![u].st = "woken",
                                ![t] = [task[t] EXCEPT !.st = st, !.to = None]],
           fut' = IF st = "ended" THEN [fut EXCEPT ![t] = "done"] ELSE fut
    PROVE  Moves
<1> DEFINE n == [task[t] EXCEPT !.st = st, !.to = None]
           m == [task[u] EXCEPT !.st = "woken"]
<1>1. /\ n \in TaskRecords /\ n.st = st /\ n.key = task[t].key /\ n.out = task[t].out
      /\ n.to = None
  BY DEF TaskTypeOK, TaskRecords, BodyStates
<1>2. /\ m \in TaskRecords /\ m.st = "woken" /\ m.key = task[u].key /\ m.out = task[u].out
      /\ m.to = None
  BY DEF TaskTypeOK, TaskRecords, BodyStates
<1>3. task' = [task EXCEPT ![u] = m, ![t] = n]
  OBVIOUS
<1> HIDE DEF n, m
<1>4. /\ task' \in [Tasks -> TaskRecords]
      /\ \A v \in Tasks : task'[v] = IF v = t THEN n ELSE IF v = u THEN m ELSE task[v]
  BY <1>1, <1>2, <1>3 DEF TaskTypeOK
<1>5. /\ fut' \in [Tasks -> Futures]
      /\ \A v \in Tasks : fut'[v] = IF v = t /\ st = "ended" THEN "done" ELSE fut[v]
  BY DEF TaskTypeOK, Futures
<1> QED
  BY <1>1, <1>2, <1>4, <1>5 DEF Moves, Moved, Returned, Chosen

LEMMA PlainMoves ==
    ASSUME TaskTypeOK, NEW t \in Tasks, fut[t] \in {"first", "again"}, fut' = fut,
           task[t].to = None, NEW st \in BodyStates, Step(t, st)
    PROVE  Moves
<1> DEFINE n == [task[t] EXCEPT !.st = st]
<1>1. /\ n \in TaskRecords /\ n.st = st /\ n.key = task[t].key /\ n.out = task[t].out
      /\ n.to = None
  BY DEF TaskTypeOK, TaskRecords
<1>2. task' = [task EXCEPT ![t] = n]
  BY DEF Step
<1> HIDE DEF n
<1> QED
  BY <1>1, <1>2 DEF Moves, Moved, Returned, Chosen, TaskTypeOK, Futures

LEMMA LeaveMoves ==
    ASSUME TaskTypeOK, NEW t \in Tasks, fut[t] \in {"first", "again"}, fut' = fut,
           task[t].to = None, NEW out \in Outcomes, Leave(t, out),
           out = "none" \/ [key |-> task[t].key, outcome |-> out] \in produced'
    PROVE  Moves
<1> DEFINE n == [task[t] EXCEPT !.st = "leaving", !.out = out]
<1>1. /\ n \in TaskRecords /\ n.st = "leaving" /\ n.key = task[t].key /\ n.out = out
      /\ n.to = None
  BY DEF TaskTypeOK, TaskRecords, BodyStates, InSemaphore
<1>2. task' = [task EXCEPT ![t] = n]
  BY DEF Leave
<1> HIDE DEF n
<1> QED
  BY <1>1, <1>2 DEF Moves, Moved, Returned, Chosen, TaskTypeOK, Futures

(* The queue and the counter keep their types. *)
LEMMA SemMoves ==
    ASSUME SemTypeOK, NEW t \in Tasks, TaskStep(t)
    PROVE  SemTypeOK'
<1>1. t[1] \in Requests /\ Append(sem.waiters, t) \in Seq(Tasks)
  BY DEF SemTypeOK, Tasks
<1>3. Without(t) \in Seq(Tasks)
  BY WithoutType
<1>2. sem' \in {sem, [sem EXCEPT !.value = @ - 1], [sem EXCEPT !.waiters = Without(t)],
                [sem EXCEPT !.value = @ + 1, !.waiters = Without(t)],
                [sem EXCEPT !.waiters = Append(@, t), !.loop = t[1]]}
  BY DEF TaskStep, Body, Acquire, WakeNext, RunMcp, AcquireTest, AcquireResume, LoopCancelIdle,
     LoopCancelHolder, ToolReturns, Leave, AcquireTake, AcquireWait, AcquireForeign, WakeNobody,
     WakeChoose, WakeGive
<1>4. PICK w \in Seq(Tasks) : w = Without(t)
  BY <1>3
<1>5. sem' \in {sem, [sem EXCEPT !.value = @ - 1], [sem EXCEPT !.waiters = w],
                [sem EXCEPT !.value = @ + 1, !.waiters = w],
                [sem EXCEPT !.waiters = Append(@, t), !.loop = t[1]]}
  BY <1>2, <1>4
<1> HIDE DEF TaskStep
<1>6. ASSUME NEW x \in {sem, [sem EXCEPT !.value = @ - 1], [sem EXCEPT !.waiters = w],
                       [sem EXCEPT !.value = @ + 1, !.waiters = w],
                       [sem EXCEPT !.waiters = Append(@, t), !.loop = t[1]]}
      PROVE  x \in [value : Int, waiters : Seq(Tasks), loop : Requests \cup {None}]
  <2>1. CASE x = [sem EXCEPT !.waiters = Append(@, t), !.loop = t[1]]
    BY <1>1, <2>1 DEF SemTypeOK
  <2>2. CASE x \in {sem, [sem EXCEPT !.value = @ - 1], [sem EXCEPT !.waiters = w]}
    BY <2>2 DEF SemTypeOK
  <2>3. CASE x = [sem EXCEPT !.value = @ + 1, !.waiters = w]
    <3>1. sem = [value |-> sem.value, waiters |-> sem.waiters, loop |-> sem.loop]
      BY DEF SemTypeOK
    <3>2. x = [value |-> sem.value + 1, waiters |-> w, loop |-> sem.loop]
      BY <2>3, <3>1
    <3>3. sem.value + 1 \in Int /\ sem.loop \in Requests \cup {None}
      BY DEF SemTypeOK
    <3> QED
      BY <3>2, <3>3
  <2> QED
    BY <1>6, <2>1, <2>2, <2>3
<1> QED
  BY <1>5, <1>6 DEF SemTypeOK

(* Every step of a body moves the tasks so. *)
LEMMA TaskMoves ==
    ASSUME IInv, NEW t \in Tasks, TaskStep(t)
    PROVE  Moves /\ UNCHANGED engineVars /\ asleep' \subseteq Tasks
<1>0. /\ TaskTypeOK /\ t[1] \in Requests /\ \A u \in Tasks : Chosen(u)
      /\ \A u \in Tasks : task[u].st \notin {"none", "ended"} => fut[u] \in {"first", "again"}
      /\ task[t] \in TaskRecords
  <2>1. \A u \in Tasks : Begun(u)
    BY DEF IInv, Sound, Own, Tasks
  <2>2. TaskTypeOK
    BY DEF IInv, TypeOK
  <2>3. \A u \in Tasks : task[u].st \notin {"none", "ended"} => fut[u] \in {"first", "again"}
    BY <2>1, <2>2, UnderWay
  <2> QED
    BY <2>2, <2>3 DEF IInv, TaskTypeOK, Tasks
<1>1. UNCHANGED engineVars
  BY DEF TaskStep, Body, Acquire, WakeNext, RunMcp, AcquireTest, AcquireResume, LoopCancelIdle,
     LoopCancelHolder, ToolReturns, AcquireTake, AcquireWait, AcquireForeign, WakeNobody,
     WakeChoose, WakeGive
<1>2. asleep' \subseteq Tasks
  <2>1. CASE Iterates(t[1])
    BY <1>0, <2>1 DEF Iterates, TaskTypeOK
  <2>2. CASE WakeGive(t)
    BY <1>0, <2>2 DEF WakeGive, Iterates, TaskTypeOK, TaskRecords
  <2> QED
    BY <2>1, <2>2 DEF TaskStep, Body, Turn, Acquire, WakeNext
<1> SUFFICES Moves
  BY <1>1, <1>2
<1>3. CASE RunMcp(t)
  <2>1. task[t].to = None
    BY <1>0, <1>3 DEF IInv, Sound, Begun, Own, Tasks, RunMcp, Chosen
  <2> QED
    BY <1>0, <1>3, <2>1, RunMoves
<1>4. CASE AcquireTest(t)
  <2>1. PICK st \in BodyStates : Step(t, st)
    BY <1>4 DEF AcquireTest, BodyStates, InSemaphore
  <2> QED
    BY <1>0, <1>4, <2>1, PlainMoves DEF AcquireTest, Chosen
<1>5. CASE AcquireResume(t)
  <2>1. PICK st \in BodyStates : Step(t, st)
    BY <1>5 DEF AcquireResume, BodyStates, InSemaphore
  <2> QED
    BY <1>0, <1>5, <2>1, PlainMoves DEF AcquireResume, Chosen
<1>6. CASE AcquireTake(t) \/ AcquireWait(t)
  <2>1. PICK st \in BodyStates : Step(t, st)
    BY <1>6 DEF AcquireTake, AcquireWait, BodyStates
  <2> QED
    BY <1>0, <1>6, <2>1, PlainMoves DEF AcquireTake, AcquireWait, Chosen
<1>7. CASE AcquireForeign(t)
  BY <1>0, <1>7, EndMoves DEF AcquireForeign
<1>8. CASE LoopCancelIdle(t)
  BY <1>0, <1>8, EndMoves DEF LoopCancelIdle
<1>9. CASE LoopCancelHolder(t)
  BY <1>0, <1>9, LeaveMoves DEF LoopCancelHolder, Outcomes, Chosen
<1>10. ASSUME NEW o \in Outcomes, ToolReturns(t, o) PROVE Moves
  BY <1>0, <1>10, LeaveMoves DEF ToolReturns, Chosen
<1>11. CASE WakeNobody(t)
  <2>1. CASE End(t, task[t].out) /\ task[t].st = "leaving"
    BY <1>0, <2>1, EndMoves
  <2>2. CASE Step(t, "running") /\ fut' = fut /\ task[t].st = "passing" /\ task[t].to = None
    BY <1>0, <2>2, PlainMoves DEF BodyStates
  <2> QED
    BY <1>11, <2>1, <2>2 DEF WakeNobody
<1>12. CASE WakeChoose(t)
  <2>1. PICK u \in Tasks : task' = [task EXCEPT ![t].to = u]
    <3>1. PICK i \in Pending : task' = [task EXCEPT ![t].to = sem.waiters[i]]
      BY <1>12 DEF WakeChoose
    <3>2. sem.waiters[i] \in Tasks
      BY DEF Pending, IInv, TypeOK, SemTypeOK
    <3> QED
      BY <3>1, <3>2
  <2> DEFINE n == [task[t] EXCEPT !.to = u]
  <2>2. n \in TaskRecords /\ n.st = task[t].st /\ n.key = task[t].key /\ n.out = task[t].out
    BY <1>0, <2>1 DEF TaskRecords
  <2>3. /\ task' = [task EXCEPT ![t] = n] /\ fut' = fut
        /\ task[t].st \in {"leaving", "passing"}
    BY <1>12, <2>1 DEF WakeChoose
  <2> HIDE DEF n
  <2> QED
    BY <1>0, <2>2, <2>3 DEF Moves, Moved, Returned, Chosen, TaskTypeOK, Futures
<1>13. CASE WakeGive(t)
  <2> DEFINE v  == task[t].to
             st == IF task[t].st = "leaving" THEN "ended" ELSE "running"
  <2>1. v \in Tasks /\ task[t].st \in {"leaving", "passing"}
    BY <1>0, <1>13 DEF WakeGive, TaskRecords, Chosen
  <2>2. CASE task[v].st # "waiting"
    BY <1>0, <1>13, <2>1, <2>2, EndMoves DEF WakeGive
  <2>3. CASE task[v].st = "waiting"
    <3>1. /\ fut[t] \in {"first", "again"} /\ fut[v] \in {"first", "again"} /\ v # t
          /\ task[v].to = None /\ st \in {"ended", "running"}
      BY <1>0, <2>1, <2>3 DEF Chosen
    <3>2. PICK u \in Tasks : u = v
      BY <2>1
    <3>3. PICK s \in {"ended", "running"} : s = st
      OBVIOUS
    <3> DEFINE n == [task[t] EXCEPT !.st = s, !.to = None]
    <3>4. n.st = s
      BY <1>0 DEF TaskRecords
    <3>5. /\ task' = [task EXCEPT ![u].st = "woken", ![t] = n]
          /\ fut' = IF s = "ended" THEN [fut EXCEPT ![t] = "done"] ELSE fut
      <4>1. /\ task' = [task EXCEPT ![u].st = "woken",
                    ![t] = IF task[t].st = "leaving"
                           THEN [task[t] EXCEPT !.st = "ended", !.to = None]
                           ELSE [task[t] EXCEPT !.st = "running", !.to = None]]
            /\ fut' = IF (IF task[t].st = "leaving"
                           THEN [task[t] EXCEPT !.st = "ended", !.to = None]
                           ELSE [task[t] EXCEPT !.st = "running", !.to = None]).st = "ended"
                      THEN [fut EXCEPT ![t] = "done"] ELSE fut
        BY <1>13, <2>3, <3>2 DEF WakeGive
      <4>2. n = IF task[t].st = "leaving"
                THEN [task[t] EXCEPT !.st = "ended", !.to = None]
                ELSE [task[t] EXCEPT !.st = "running", !.to = None]
        BY <3>3
      <4> HIDE DEF n
      <4> QED
        BY <3>4, <4>1, <4>2
    <3> QED
      BY <1>0, <3>1, <3>2, <3>5, GiveMoves
  <2> QED
    BY <2>2, <2>3
<1> QED
  BY <1>3, <1>4, <1>5, <1>6, <1>7, <1>8, <1>9, <1>10, <1>11, <1>12, <1>13
     DEF TaskStep, Body, Acquire, WakeNext

(* A body writes the cache, if it does, as Put of LossyMap. *)
LEMMA TaskCaches ==
    ASSUME IInv, NEW t \in Tasks, TaskStep(t)
    PROVE  /\ \/ cache' = cache
              \/ /\ task[t].out = "good" /\ task[t].key \in Keys
                 /\ OutputOf(t) \in Outputs /\ Cache!Put(task[t].key, OutputOf(t), {})
           /\ \/ produced' = produced
              \/ \E out \in Outputs : produced' = produced \cup {out}
<1>0. Begun(t) /\ TaskTypeOK
  BY DEF IInv, TypeOK, Sound, Own, Tasks
<1>1. CASE ~(WakeNobody(t) \/ WakeGive(t))
  <2>1. cache' = cache
    BY <1>1 DEF TaskStep, Body, Acquire, WakeNext, RunMcp, AcquireTest, AcquireResume,
       LoopCancelIdle, LoopCancelHolder, ToolReturns, AcquireTake, AcquireWait, AcquireForeign,
       WakeChoose
  <2>2. CASE \E o \in Outcomes : ToolReturns(t, o)
    <3>1. PICK o \in Outcomes : ToolReturns(t, o)
      BY <2>2
    <3>2. task[t].key \in Keys
      BY <1>0, <3>1 DEF ToolReturns, Begun, TaskTypeOK
    <3>3. o # "none" => [key |-> task[t].key, outcome |-> o] \in Outputs
      BY <3>2 DEF Outputs, Outcomes
    <3> QED
      BY <2>1, <3>1, <3>3 DEF ToolReturns
  <2>3. CASE ~\E o \in Outcomes : ToolReturns(t, o)
    BY <1>1, <2>1, <2>3
       DEF TaskStep, Body, Acquire, WakeNext, RunMcp, AcquireTest, AcquireResume,
       LoopCancelIdle, LoopCancelHolder, AcquireTake, AcquireWait, AcquireForeign, WakeChoose
  <2> QED
    BY <2>2, <2>3
<1>2. CASE WakeNobody(t) \/ WakeGive(t)
  <2>1. produced' = produced /\ (cache' = cache \/ (Persist(t) /\ task[t].st = "leaving"))
    <3>1. CASE WakeNobody(t)
      BY <3>1 DEF WakeNobody
    <3>2. CASE WakeGive(t)
      <4>1. [task[t] EXCEPT !.st = "running", !.to = None].st = "running"
        BY <1>0 DEF TaskTypeOK, TaskRecords
      <4> QED
        BY <3>2, <4>1 DEF WakeGive
    <3> QED
      BY <1>2, <3>1, <3>2
  <2>2. task[t].st = "leaving" /\ task[t].out = "good"
            => task[t].key \in Keys /\ OutputOf(t) \in Outputs
    BY <1>0 DEF Begun, TaskTypeOK, OutputOf, Outputs
  <2> QED
    BY <2>1, <2>2 DEF Persist
<1> QED
  BY <1>1, <1>2

(* What LossyMap's Put makes of the cache. *)
LEMMA PutElements ==
    ASSUME NEW k, NEW v, Cache!Put(k, v, {})
    PROVE  /\ DOMAIN cache' = DOMAIN cache \cup {k}
           /\ \A x \in DOMAIN cache' : cache'[x] = IF x = k THEN v ELSE cache[x]
  BY DEF Cache!Put

-----------------------------------------------------------------------------
(* Every step keeps the invariant. *)
LEMMA IInvStep == ASSUME IInv, [Next]_vars PROVE IInv'
<1>0. TypeOK
  BY DEF IInv
<1>1. ASSUME NEW r \in Requests, EngineStep(r) PROVE IInv'
  <2>1. \A q \in Requests : Sound(q)'
    BY <1>0, <1>1, EngineFrame, EngineSound, ElsewhereSound DEF IInv
  <2>2. TypeOK'
    BY <1>1, EngineType
  <2>3. \A t \in Tasks : task'[t] = task[t] \/ task'[t].to = None
    <3>1. TaskTypeOK
      BY <1>0 DEF TypeOK
    <3>2. task' = task \/ (\E f, ks : Speculate(f, ks)) \/ LoopClosed(r)
      BY <1>1
         DEF EngineStep, Start, Cascade, CascadeFail, CascadeEmit, Predict, Dispatch, Engine,
         Timer, NoToolCall, DrainEnd, MatchDone, MatchWait, NoMatch, AwaitHit, AwaitMiss,
         SyncDone, SyncExecute, WaitTimer
    <3>3. ASSUME NEW f, NEW ks, Speculate(f, ks), NEW t \in Tasks
          PROVE  task'[t] = task[t] \/ task'[t].to = None
      BY <3>3 DEF Speculate, NoTask
    <3>4. ASSUME LoopClosed(r), NEW t \in Tasks
          PROVE  task'[t] = task[t] \/ task'[t].to = None
      BY <3>4 DEF LoopClosed, NoTask
    <3> QED
      BY <3>2, <3>3, <3>4
  <2> QED
    BY <2>1, <2>2, <2>3 DEF IInv, Chosen
<1>2. ASSUME NEW t \in Tasks, TaskStep(t) PROVE IInv'
  <2>1. Moves /\ UNCHANGED engineVars /\ asleep' \subseteq Tasks /\ SemTypeOK'
    BY <1>0, <1>2, TaskMoves, SemMoves DEF TypeOK
  <2>2. CacheTypeOK'
    <3>1. CASE cache' = cache
      BY <1>0, <1>2, <3>1, TaskCaches DEF TypeOK, CacheTypeOK
    <3>2. ASSUME NEW k \in Keys, NEW v \in Outputs, Cache!Put(k, v, {}) PROVE CacheTypeOK'
      <4>1. /\ DOMAIN cache' = DOMAIN cache \cup {k}
            /\ \A x \in DOMAIN cache' : cache'[x] = IF x = k THEN v ELSE cache[x]
        BY <3>2, PutElements
      <4>2. produced' \subseteq Outputs
        BY <1>0, <1>2, TaskCaches DEF TypeOK, CacheTypeOK
      <4> QED
        BY <1>0, <4>1, <4>2 DEF TypeOK, CacheTypeOK
    <3> QED
      BY <1>2, <3>1, <3>2, TaskCaches
  <2>3. TypeOK'
    BY <1>0, <2>1, <2>2
       DEF TypeOK, EngineTypeOK, TaskTypeOK, engineVars, Moves, Futures
  <2>4. (\A q \in Requests : Sound(q)') /\ \A u \in Tasks : Chosen(u)'
    BY <1>0, <2>1, MovedSound DEF IInv, Moves
  <2> QED
    BY <2>3, <2>4 DEF IInv
<1>3. CASE UNCHANGED <<engineVars, fut, task, sem>> /\ CacheTypeOK' /\ asleep' \subseteq asleep
  <2>1. TypeOK'
    BY <1>0, <1>3 DEF TypeOK, EngineTypeOK, TaskTypeOK, SemTypeOK, engineVars
  <2>2. \A r \in Requests : Sound(r)'
    BY <1>3 DEF IInv, Sound, Named, Filed, Undispatched, Awaits, Syncs, Over, Begun, Untold,
       Matched, engineVars
  <2> QED
    BY <1>3, <2>1, <2>2 DEF IInv, Chosen
<1>4. ASSUME NEW k \in Keys, CacheForgets(k) PROVE IInv'
  <2>1. CacheTypeOK'
    BY <1>0, <1>4 DEF CacheForgets, Cache!Forget, CacheTypeOK, TypeOK
  <2> QED
    BY <1>3, <1>4, <2>1 DEF CacheForgets
<1>5. CASE UNCHANGED vars
  BY <1>0, <1>3, <1>5 DEF vars, engineVars, TypeOK, CacheTypeOK
<1> QED
  BY <1>1, <1>2, <1>4, <1>5 DEF Next, EngineStep, TaskStep, Idle

(* The invariant of the whole engine. *)
THEOREM Invariance == Spec => []IInv
<1>1. Init => IInv
  <2> SUFFICES ASSUME Init PROVE IInv
    OBVIOUS
  <2>1. \A r \in Requests : <<r, SyncIndex>> \in Own(r) /\ Own(r) \subseteq Tasks
    BY TaskIndex, PredsAssumption DEF Own, SyncIndex
  <2>2. EngineTypeOK /\ TaskTypeOK
    BY DEF Init, EngineTypeOK, TaskTypeOK, NoSpecs, NoTask, NoResponse, Phases, Responses,
       TaskRecords, BodyStates, Outcomes
  <2>3. SemTypeOK /\ CacheTypeOK
    BY PermitsAssumption DEF Init, SemTypeOK, CacheTypeOK
  <2>4. ASSUME NEW r \in Requests PROVE Sound(r)
    BY <2>1 DEF Init, NoSpecs, NoTask, NoResponse, Sound, Named, Filed, Undispatched, Awaits,
       Syncs, Over, Begun, Untold, Early
  <2>5. \A t \in Tasks : Chosen(t)
    BY DEF Init, NoTask, Chosen
  <2> QED
    BY <2>2, <2>3, <2>4, <2>5 DEF IInv, TypeOK
<1> QED
  BY <1>1, IInvStep, PTL DEF Spec

(* Engine, tasks, semaphore and cache stay type-correct. *)
THEOREM TypeCorrect == Spec => []TypeOK
<1>1. IInv => TypeOK
  BY DEF IInv
<1> QED
  BY <1>1, Invariance, PTL

-----------------------------------------------------------------------------
\* The bodies that hold a permit.
Holds(st) == st \in {"woken", "running", "passing"}

(* How the number of holders follows the counter. *)
LEMMA HoldersCount ==
    /\ Cardinality(Holders) \in Nat /\ Cardinality(Holders') \in Nat
    /\ Holders' \subseteq Holders => Cardinality(Holders') <= Cardinality(Holders)
    /\ \A t \in Tasks :
          Holders' \subseteq Holders \cup {t} => Cardinality(Holders') <= Cardinality(Holders) + 1
    /\ \A t \in Holders :
          Holders' \subseteq Holders \ {t} => Cardinality(Holders') <= Cardinality(Holders) - 1
<1>1. IsFiniteSet(Holders) /\ IsFiniteSet(Holders') /\ Cardinality(Holders) \in Nat
      /\ Cardinality(Holders') \in Nat
  BY TasksFinite, FS_Subset, FS_CardinalityType DEF Holders
<1>2. ASSUME NEW t PROVE IsFiniteSet(Holders \cup {t}) /\ IsFiniteSet(Holders \ {t})
  BY <1>1, FS_AddElement, FS_RemoveElement
<1>3. ASSUME NEW t, Holders' \subseteq Holders \cup {t}
      PROVE  Cardinality(Holders') <= Cardinality(Holders) + 1
  <2>1. /\ Cardinality(Holders') <= Cardinality(Holders \cup {t})
        /\ Cardinality(Holders \cup {t}) \in Nat
    BY <1>2, <1>3, FS_Subset, FS_CardinalityType
  <2>2. Cardinality(Holders \cup {t}) <= Cardinality(Holders) + 1
    <3>1. CASE t \in Holders
      <4>1. Holders \cup {t} = Holders
        BY <3>1
      <4> QED
        BY <1>1, <4>1
    <3>2. CASE t \notin Holders
      BY <1>1, <3>2, FS_AddElement
    <3> QED
      BY <3>1, <3>2
  <2> QED
    BY <1>1, <2>1, <2>2
<1>4. ASSUME NEW t \in Holders, Holders' \subseteq Holders \ {t}
      PROVE  Cardinality(Holders') <= Cardinality(Holders) - 1
  <2>1. /\ Cardinality(Holders') <= Cardinality(Holders \ {t})
        /\ Cardinality(Holders \ {t}) = Cardinality(Holders) - 1
    BY <1>1, <1>2, <1>4, FS_Subset, FS_RemoveElement
  <2> QED
    BY <2>1
<1> QED
  BY <1>1, <1>3, <1>4, FS_Subset

LEMMA PermitsStep ==
    ASSUME IInv, NoPermitInvented, [Next]_vars
    PROVE  NoPermitInvented'
<1>0. TaskTypeOK /\ SemTypeOK /\ sem.value \in Int /\ MaxInflight \in Nat
  BY PermitsAssumption DEF IInv, TypeOK, SemTypeOK
<1>1. CASE sem' = sem /\ Holders' \subseteq Holders
  BY <1>0, <1>1, HoldersCount DEF NoPermitInvented
<1>2. CASE sem'.value = sem.value - 1 /\ \E t \in Tasks : Holders' \subseteq Holders \cup {t}
  BY <1>0, <1>2, HoldersCount DEF NoPermitInvented
<1>3. CASE sem'.value = sem.value + 1 /\ \E t \in Holders : Holders' \subseteq Holders \ {t}
  BY <1>0, <1>3, HoldersCount DEF NoPermitInvented
<1>4. CASE sem'.value = sem.value /\ Holders' \subseteq Holders
  BY <1>0, <1>4, HoldersCount DEF NoPermitInvented
<1>5. ASSUME NEW r \in Requests, EngineStep(r) PROVE NoPermitInvented'
  <2>1. sem' = sem
    BY <1>5, EngineFrame
  <2>2. \A t \in Tasks : task'[t] = task[t] \/ task'[t].st = "none"
    <3>1. task' = task \/ (\E f, ks : Speculate(f, ks)) \/ LoopClosed(r)
      BY <1>5
         DEF EngineStep, Start, Cascade, CascadeFail, CascadeEmit, Predict, Dispatch, Engine,
         Timer, NoToolCall, DrainEnd, MatchDone, MatchWait, NoMatch, AwaitHit, AwaitMiss,
         SyncDone, SyncExecute, WaitTimer
    <3>2. ASSUME NEW f, NEW ks, Speculate(f, ks), NEW t \in Tasks
          PROVE  task'[t] = task[t] \/ task'[t].st = "none"
      BY <3>2 DEF Speculate, NoTask
    <3>3. ASSUME LoopClosed(r), NEW t \in Tasks
          PROVE  task'[t] = task[t] \/ task'[t].st = "none"
      BY <3>3 DEF LoopClosed, NoTask
    <3> QED
      BY <3>1, <3>2, <3>3
  <2> QED
    BY <1>1, <2>1, <2>2 DEF Holders
<1>6. ASSUME NEW t \in Tasks, TaskStep(t) PROVE NoPermitInvented'
  <2>0. /\ task[t] \in TaskRecords /\ DOMAIN task = Tasks
        /\ sem = [value |-> sem.value, waiters |-> sem.waiters, loop |-> sem.loop]
    BY <1>0 DEF TaskTypeOK, SemTypeOK
  <2>1. ASSUME NEW st, task' = [task EXCEPT ![t] = [@ EXCEPT !.st = st]]
        PROVE  \A u \in Tasks : task'[u].st = IF u = t THEN st ELSE task[u].st
    BY <2>0, <2>1 DEF TaskRecords
  <2>2. ASSUME NEW n, task' = [task EXCEPT ![t] = n]
        PROVE  \A u \in Tasks : task'[u].st = IF u = t THEN n.st ELSE task[u].st
    BY <2>0, <2>2
  <2>3. CASE \/ RunMcp(t) \/ AcquireTest(t) \/ WakeNobody(t)
             \/ AcquireForeign(t) \/ LoopCancelIdle(t) \/ AcquireResume(t) \/ AcquireWait(t)
    <3>1. PICK st : /\ \A u \in Tasks : task'[u].st = IF u = t THEN st ELSE task[u].st
                    /\ Holds(st) => Holds(task[t].st)
      <4>1. CASE AcquireForeign(t) \/ LoopCancelIdle(t) \/ (WakeNobody(t) /\ End(t, task[t].out))
        <5>1. \E out : task' = [task EXCEPT ![t] = [@ EXCEPT !.st = "ended", !.out = out, !.to = None]]
          BY <4>1 DEF AcquireForeign, LoopCancelIdle, End
        <5>2. \A u \in Tasks : task'[u].st = IF u = t THEN "ended" ELSE task[u].st
          BY <2>0, <5>1 DEF TaskRecords
        <5> QED
          BY <5>2 DEF Holds
      <4>2. CASE RunMcp(t) \/ AcquireTest(t) \/ AcquireResume(t) \/ AcquireWait(t)
                     \/ (WakeNobody(t) /\ Step(t, "running") /\ task[t].st = "passing")
        <5>1. PICK st : Step(t, st) /\ (Holds(st) => Holds(task[t].st))
          BY <4>2 DEF RunMcp, AcquireTest, AcquireResume, AcquireWait, Holds
        <5>2. \A u \in Tasks : task'[u].st = IF u = t THEN st ELSE task[u].st
          BY <2>0, <5>1 DEF Step, TaskRecords
        <5> QED
          BY <5>1, <5>2
      <4> QED
        BY <2>3, <4>1, <4>2 DEF WakeNobody
    <3>2. Holders' \subseteq Holders
      BY <3>1 DEF Holders, Holds
    <3>3. sem'.value = sem.value
      BY <2>0, <2>3 DEF RunMcp, AcquireTest, WakeNobody, AcquireForeign, LoopCancelIdle,
         AcquireResume, AcquireWait
    <3> QED
      BY <1>4, <3>2, <3>3
  <2>4. CASE WakeChoose(t)
    <3>1. \E u : task' = [task EXCEPT ![t].to = u]
      BY <2>4 DEF WakeChoose
    <3>2. \A u \in Tasks : task'[u].st = task[u].st
      BY <2>0, <3>1 DEF TaskRecords
    <3> QED
      BY <1>1, <2>4, <3>2 DEF WakeChoose, Holders
  <2>5. CASE AcquireTake(t)
    <3>1. \A u \in Tasks : task'[u].st = IF u = t THEN "running" ELSE task[u].st
      BY <2>0, <2>5 DEF AcquireTake, Step, TaskRecords
    <3>2. sem'.value = sem.value - 1
      BY <2>0, <2>5 DEF AcquireTake
    <3> QED
      BY <1>2, <3>1, <3>2 DEF Holders
  <2>6. CASE LoopCancelHolder(t) \/ \E o \in Outcomes : ToolReturns(t, o)
    <3>1. Holds(task[t].st) /\ \E o : Leave(t, o)
      BY <2>6 DEF LoopCancelHolder, ToolReturns, Holds
    <3>2. \A u \in Tasks : task'[u].st = IF u = t THEN "leaving" ELSE task[u].st
      BY <2>0, <3>1 DEF Leave, TaskRecords
    <3>3. sem'.value = sem.value + 1
      BY <2>0, <3>1 DEF Leave
    <3> QED
      BY <1>3, <3>1, <3>2, <3>3 DEF Holders, Holds
  <2>7. CASE WakeGive(t)
    <3>1. PICK v \in Tasks : v = task[t].to
      BY <2>0, <2>7 DEF WakeGive, TaskRecords
    <3>2. task[t].st \in {"leaving", "passing"}
      BY <2>7 DEF WakeGive, IInv, Chosen
    <3>3. sem'.value = sem.value - 1
      BY <2>0, <2>7 DEF WakeGive
    <3>4. Holders' \subseteq Holders \cup {v}
      <4>1. CASE task[v].st # "waiting"
        <5>1. task' = [task EXCEPT ![t] = [@ EXCEPT !.st = "ended", !.out = "none", !.to = None]]
          BY <2>7, <3>1, <4>1 DEF WakeGive, End
        <5>2. \A u \in Tasks : task'[u].st = IF u = t THEN "ended" ELSE task[u].st
          BY <2>0, <5>1 DEF TaskRecords
        <5> QED
          BY <5>2 DEF Holders
      <4>2. CASE task[v].st = "waiting"
        <5> DEFINE n == IF task[t].st = "leaving" THEN [task[t] EXCEPT !.st = "ended", !.to = None]
                        ELSE [task[t] EXCEPT !.st = "running", !.to = None]
        <5>1. task' = [task EXCEPT ![v].st = "woken", ![t] = n]
          BY <2>7, <3>1, <4>2 DEF WakeGive
        <5>2. n.st = "running" => task[t].st = "passing"
          BY <2>0, <3>2 DEF TaskRecords
        <5>3. n.st \in {"ended", "running"}
          BY <2>0, <3>2 DEF TaskRecords
        <5> HIDE DEF n
        <5>4. \A u \in Tasks \ {v, t} : task'[u] = task[u]
          BY <2>0, <5>1
        <5>5. task'[t] = n
          BY <2>0, <5>1
        <5> QED
          BY <5>2, <5>3, <5>4, <5>5 DEF Holders
      <4> QED
        BY <4>1, <4>2
    <3> QED
      BY <1>2, <3>1, <3>3, <3>4
  <2> QED
    BY <1>6, <2>3, <2>4, <2>5, <2>6, <2>7 DEF TaskStep, Body, Acquire, WakeNext
<1>7. CASE UNCHANGED <<task, sem>>
  BY <1>1, <1>7 DEF Holders
<1>8. (\E k \in Keys : CacheForgets(k)) \/ UNCHANGED vars => UNCHANGED <<task, sem>>
  BY DEF CacheForgets, vars
<1> QED
  BY <1>5, <1>6, <1>7, <1>8 DEF Next, EngineStep, TaskStep, Idle

(* However the requests' threads interleave inside the semaphore, and       *)
(* whatever is cancelled there, no permit is made up.                       *)
THEOREM PermitsSafe == Spec => []NoPermitInvented
<1>1. Init => NoPermitInvented
  <2> SUFFICES ASSUME Init PROVE NoPermitInvented
    OBVIOUS
  <2>1. Holders = {} /\ sem.value = MaxInflight
    BY DEF Init, Holders, NoTask
  <2> QED
    BY <2>1, PermitsAssumption, FS_EmptySet DEF NoPermitInvented
<1> QED
  BY <1>1, PermitsStep, Invariance, PTL DEF Spec

-----------------------------------------------------------------------------
\* Whatever a body holds for its future, an execution of its call returned.
Genuine == \A t \in Tasks : task[t].out # "none" => OutputOf(t) \in produced

(* Outputs are remembered and kept only as executions returned them. *)
LEMMA GenuineStep ==
    ASSUME IInv, Genuine, OnlySuccessCached, [Next]_vars
    PROVE  Genuine' /\ OnlySuccessCached'
<1>0. TypeOK /\ TaskTypeOK /\ CacheTypeOK
  BY DEF IInv, TypeOK
<1>1. ASSUME NEW r \in Requests, EngineStep(r) PROVE Genuine' /\ OnlySuccessCached'
  <2>1. UNCHANGED <<sem, cache, produced>>
    BY <1>1, EngineFrame
  <2>2. ASSUME NEW t \in Tasks, task'[t].out # "none"
        PROVE  task'[t] = task[t] \/ OutputOf(t)' \in produced
    <3>1. task' = task \/ (\E f, ks : Speculate(f, ks)) \/ LoopClosed(r)
      BY <1>1
         DEF EngineStep, Start, Cascade, CascadeFail, CascadeEmit, Predict, Dispatch, Engine,
         Timer, NoToolCall, DrainEnd, MatchDone, MatchWait, NoMatch, AwaitHit, AwaitMiss,
         SyncDone, SyncExecute, WaitTimer
    <3>2. ASSUME NEW f, NEW ks, Speculate(f, ks), t \in DOMAIN ks
          PROVE  OutputOf(t)' \in produced
      <4> DEFINE k == ks[t]
      <4>1. task'[t].key = k /\ task'[t].out = Remembered(k)
        BY <3>2 DEF Speculate, NoTask
      <4>2. k \in DOMAIN cache /\ cache[k] \in produced /\ cache[k].key = k
            /\ Remembered(k) = cache[k].outcome /\ cache[k] \in Outputs
        BY <1>0, <2>2, <4>1 DEF Remembered, OnlySuccessCached, CacheTypeOK
      <4> HIDE DEF k
      <4>3. cache[k] = [key |-> k, outcome |-> Remembered(k)]
        BY <4>2 DEF Outputs
      <4> QED
        BY <4>1, <4>2, <4>3 DEF OutputOf
    <3>3. ASSUME NEW f, NEW ks, Speculate(f, ks), t \notin DOMAIN ks
          PROVE  task'[t] = task[t]
      BY <3>3 DEF Speculate
    <3>4. LoopClosed(r) => task'[t] = task[t]
      BY <2>2 DEF LoopClosed, NoTask
    <3> QED
      BY <3>1, <3>2, <3>3, <3>4
  <2> QED
    BY <2>1, <2>2 DEF Genuine, OnlySuccessCached, OutputOf
<1>2. ASSUME NEW t \in Tasks, TaskStep(t) PROVE Genuine' /\ OnlySuccessCached'
  <2>1. Moves /\ produced \subseteq produced'
    BY <1>2, TaskMoves, TaskCaches
  <2>2. Genuine'
    <3> SUFFICES ASSUME NEW u \in Tasks, task'[u].out # "none"
                 PROVE  [key |-> task'[u].key, outcome |-> task'[u].out] \in produced'
      BY DEF Genuine, OutputOf
    <3> QED
      BY <2>1 DEF Moves, Moved, Returned, Genuine, OutputOf
  <2>3. OnlySuccessCached'
    <3>1. CASE cache' = cache
      BY <2>1, <3>1 DEF OnlySuccessCached
    <3>2. CASE /\ task[t].out = "good" /\ task[t].key \in Keys
               /\ Cache!Put(task[t].key, OutputOf(t), {})
      <4>1. /\ DOMAIN cache' = DOMAIN cache \cup {task[t].key}
            /\ \A x \in DOMAIN cache' : cache'[x] = IF x = task[t].key THEN OutputOf(t) ELSE cache[x]
        BY <3>2, PutElements
      <4>2. OutputOf(t) \in produced /\ OutputOf(t).key = task[t].key /\ OutputOf(t).outcome = "good"
        BY <3>2 DEF Genuine, OutputOf
      <4> QED
        BY <2>1, <4>1, <4>2 DEF OnlySuccessCached
    <3> QED
      BY <1>2, <3>1, <3>2, TaskCaches
  <2> QED
    BY <2>2, <2>3
<1>3. ASSUME NEW k \in Keys, CacheForgets(k) PROVE Genuine' /\ OnlySuccessCached'
  BY <1>3 DEF CacheForgets, Cache!Forget, Genuine, OnlySuccessCached, OutputOf
<1>4. CASE UNCHANGED vars
  BY <1>4 DEF vars, Genuine, OnlySuccessCached, OutputOf
<1> QED
  BY <1>1, <1>2, <1>3, <1>4 DEF Next, EngineStep, TaskStep, Idle

LEMMA GenuineKept == Spec => [](IInv /\ Genuine /\ OnlySuccessCached)
<1>1. Init => Genuine /\ OnlySuccessCached
  BY DEF Init, Genuine, OnlySuccessCached, NoTask
<1> QED
  BY <1>1, GenuineStep, Invariance, PTL DEF Spec

(* Nothing fails, lies or is cancelled its way into the cache: every entry *)
(* is a success which an execution of that very call returned.             *)
THEOREM CacheGenuine == Spec => []OnlySuccessCached
  BY GenuineKept, PTL

(* Every way to an answer, also one that the predictor overtakes, cancels  *)
(* whatever was speculated for the request.                                *)
THEOREM AnswerCancels == Spec => []NothingLeftUncancelled
<1>1. IInv => NothingLeftUncancelled
  <2> SUFFICES ASSUME IInv, NEW t \in Tasks, response[t[1]].kind # "open"
               PROVE  fut[t] \notin {"new", "first"}
    BY DEF NothingLeftUncancelled
  <2>1. t \in Own(t[1]) /\ t[1] \in Requests
    BY DEF Own, Tasks
  <2>2. Over(t[1]) /\ pc[t[1]] \in {"closing", "done"}
    BY <2>1 DEF IInv, Sound, Over
  <2> QED
    BY <2>1, <2>2 DEF Over, Untold
<1> QED
  BY <1>1, Invariance, PTL

(* A speculation that timed out has ended before its call is executed      *)
(* again, and no other speculation of the call is under way by then.       *)
THEOREM FallbackSafe == Spec => []FallbackAlone
<1>1. IInv => FallbackAlone
  <2> SUFFICES ASSUME IInv, NEW r \in Requests, NEW t \in Tasks, pc[r] = "syncing",
                      t \in Own(r), t[2] # SyncIndex, task[t].key = call[r]
               PROVE  task[t].st \in {"none", "ended"}
    BY DEF FallbackAlone
  <2>1. Syncs(r) /\ Begun(t) /\ t # <<r, SyncIndex>>
    BY DEF IInv, Sound
  <2> QED
    BY <2>1 DEF Syncs, Begun
<1> QED
  BY <1>1, Invariance, PTL

(* The engine, its bodies and what the cache forgets change the cache only *)
(* by steps of LossyMap, the map that ToolOutputCache is shown to implement.*)
THEOREM UsesLossyMap == Spec => Cache!Spec
<1>1. Init => Cache!Init
  BY DEF Init, Cache!Init
<1>2. ASSUME IInv, [Next]_vars PROVE [Cache!Next]_cache
  <2>1. CASE cache' = cache
    BY <2>1
  <2>2. ASSUME NEW t \in Tasks, TaskStep(t) PROVE [Cache!Next]_cache
    <3>1. CASE /\ task[t].key \in Keys /\ OutputOf(t) \in Outputs
               /\ Cache!Put(task[t].key, OutputOf(t), {})
      BY <3>1 DEF Cache!Next
    <3> QED
      BY <1>2, <2>1, <2>2, <3>1, TaskCaches
  <2>3. ASSUME NEW k \in Keys, CacheForgets(k) PROVE [Cache!Next]_cache
    <3>1. Cache!Forget({k}) /\ {k} \in SUBSET Keys
      BY <2>3 DEF CacheForgets
    <3> QED
      BY <3>1 DEF Cache!Next
  <2>4. ASSUME NEW r \in Requests, EngineStep(r) PROVE cache' = cache
    BY <1>2, <2>4, EngineFrame
  <2>5. CASE UNCHANGED vars
    BY <2>1, <2>5 DEF vars
  <2> QED
    BY <1>2, <2>1, <2>2, <2>3, <2>4, <2>5 DEF Next, EngineStep, TaskStep, Idle
<1> QED
  BY <1>1, <1>2, Invariance, PTL DEF Spec, Cache!Spec

-----------------------------------------------------------------------------
(* The state of ToolService that a state of the engine stands for. *)

Wanted == [r \in Requests |-> IF pc[r] \in {"idle", "generating"} \/ response[r].kind = "raised"
                              THEN "open" ELSE call[r]]

Serves == [Service!Next]_(Service!vars)

(* A step that neither calls a tool nor answers is none of the service's. *)
LEMMA ServesNothing ==
    ASSUME Wanted' = Wanted, response' = response, produced' = produced
    PROVE  Serves
  BY DEF Serves, Service!vars, Wanted

(* It is enough that each request looks the same. *)
LEMMA SameToClients ==
    ASSUME produced' = produced, response' = response,
           \A r \in Requests :
              /\ response[r].kind = "open" =>
                    \/ pc[r] \in {"idle", "generating"} /\ pc'[r] \in {"idle", "generating"}
                    \/ /\ pc[r] \notin {"idle", "generating"} /\ pc'[r] \notin {"idle", "generating"}
                       /\ call'[r] = call[r]
              /\ response[r].kind # "open" =>
                    /\ pc[r] \notin {"idle", "generating"} /\ pc'[r] \notin {"idle", "generating"}
                    /\ call'[r] = call[r]
    PROVE  Serves
<1>2. \A r \in Requests : Wanted'[r] = Wanted[r]
  BY DEF Wanted
<1>3. Wanted' = Wanted
  BY <1>2 DEF Wanted
<1> QED
  BY <1>3, ServesNothing

(* Answering a request that is open, with an answer it is allowed. *)
LEMMA ServesAnswer ==
    ASSUME IInv, Genuine, NEW r \in Requests, NEW kind, NEW out,
           pc[r] \notin {"closing", "done"}, Finish(r, kind, out),
           call' = call, produced' = produced,
           \/ pc[r] = "generating" /\ kind = "raised" /\ out = None
           \/ /\ pc[r] \notin {"idle", "generating"}
              /\ \/ kind = "text" /\ out = None
                 \/ kind = "tool" /\ out \in produced /\ out.key = call[r]
    PROVE  Serves
<1> DEFINE a == [kind |-> kind, out |-> out]
<1>0. /\ pc \in [Requests -> Phases] /\ response \in [Requests -> Responses]
      /\ response[r].kind = "open"
  BY DEF IInv, TypeOK, EngineTypeOK, Sound, Over
<1>1. /\ response'[r] = [kind |-> kind, out |-> out]
      /\ \A q \in Requests : q # r => response'[q] = response[q] /\ pc'[q] = pc[q]
      /\ pc'[r] \in {"closing", "done"}
  BY <1>0 DEF Finish
<1>2. response[r].kind = "open"
  BY <1>0
<1>3. response' = [response EXCEPT ![r] = a]
  BY DEF Finish
<1>4. \A q \in Requests : Wanted'[q] = Wanted[q]
  BY <1>0, <1>1 DEF Wanted
<1>5. Wanted' = Wanted
  BY <1>4 DEF Wanted
<1>6. /\ Wanted[r] = "open" => a = [kind |-> "raised", out |-> None]
      /\ Wanted[r] # "open" =>
            \/ a = [kind |-> "text", out |-> None]
            \/ a.kind = "tool" /\ a.out \in produced /\ a.out.key = Wanted[r]
               /\ a = [kind |-> "tool", out |-> a.out]
  <2>1. call[r] # "open"
    BY OpenIsNoCall DEF IInv, TypeOK, EngineTypeOK
  <2> QED
    BY <1>0, <2>1 DEF Wanted
<1>7. a \in Service!Allowed(r)
  BY <1>6 DEF Service!Allowed, Service!Plain, Wanted
<1> HIDE DEF a
<1>8. Service!Answer(r)
  BY <1>2, <1>3, <1>5, <1>7 DEF Service!Answer, Wanted
<1> QED
  BY <1>8 DEF Serves, Service!Next

(* The output of a task that has one was produced, for the task's key. *)
LEMMA ServedOutput ==
    ASSUME IInv, Genuine, NEW t \in Tasks, HasOutput(t)
    PROVE  OutputOf(t) \in produced /\ OutputOf(t).key = task[t].key
  BY DEF Genuine, HasOutput, OutputOf

(* The entry that was popped is the one of the call. *)
LEMMA MatchedKey ==
    ASSUME IInv, Genuine, NEW r \in Requests, call[r] \in Keys, Matched(r) # None
    PROVE  Matched(r) \in Tasks /\ task[Matched(r)].key = call[r]
  BY TaskIndex, PredsAssumption DEF Matched, IInv, Sound, Named, Tasks, SyncIndex

(* Steps of the engine, action by action. *)
LEMMA EngineServes ==
    ASSUME IInv, Genuine, NEW r \in Requests, EngineStep(r)
    PROVE  Serves
<1> USE DEF IInv, TypeOK, EngineTypeOK
<1>0. /\ \A q \in Requests : response[q].kind = "open" <=> pc[q] \notin {"closing", "done"}
      /\ pc \in [Requests -> Phases]
  BY DEF Sound, Over
<1>1. CASE Start(r)
  BY <1>0, <1>1, SameToClients DEF Start
<1>2. CASE CascadeFail(r)
  BY <1>2, ServesAnswer DEF CascadeFail
<1>3. ASSUME NEW k \in Keys \cup {None}, CascadeEmit(r, k) PROVE Serves
  <2>1. /\ pc[r] = "generating" /\ response[r].kind = "open" /\ response' = response
        /\ pc' = [pc EXCEPT ![r] = "cascaded"] /\ call' = [call EXCEPT ![r] = k]
        /\ produced' = produced
    BY <1>0, <1>3 DEF CascadeEmit
  <2>2. response' = response /\ response[r].kind = "open" /\ Wanted[r] = "open"
    BY <2>1 DEF Wanted
  <2>3. \A q \in Requests : Wanted'[q] = IF q = r THEN k ELSE Wanted[q]
    BY <2>1 DEF Wanted
  <2>4. Wanted' = [Wanted EXCEPT ![r] = k]
    BY <2>3 DEF Wanted
  <2>5. Service!Emit(r)
    BY <2>1, <2>2, <2>4 DEF Service!Emit, Wanted
  <2> QED
    BY <2>5 DEF Serves, Service!Next
<1>4. ASSUME NEW ps \in Predictions, Dispatch(r, ps) PROVE Serves
  BY <1>0, <1>4, SameToClients DEF Dispatch
<1>5. CASE NoToolCall(r)
  BY <1>0, <1>5, SameToClients DEF NoToolCall, Ready
<1>6. CASE DrainEnd(r)
  BY <1>6, ServesAnswer DEF DrainEnd
<1>7. CASE MatchDone(r)
  <2>1. Matched(r) \in Tasks /\ task[Matched(r)].key = call[r]
    BY <1>7, MatchedKey DEF MatchDone
  <2>2. OutputOf(Matched(r)) \in produced /\ OutputOf(Matched(r)).key = call[r]
    BY <1>7, <2>1, ServedOutput DEF MatchDone
  <2> QED
    BY <1>7, <2>2, ServesAnswer DEF MatchDone, Ready
<1>8. CASE MatchWait(r)
  BY <1>0, <1>8, SameToClients DEF MatchWait, Ready
<1>9. CASE NoMatch(r)
  BY <1>0, <1>9, SameToClients DEF NoMatch, SyncExecute, Ready
<1>10. CASE AwaitHit(r)
  <2>0. call[r] \in Keys /\ Matched(r) \in Tasks
    BY <1>10 DEF AwaitHit, Sound, Awaits, Named, Matched, Tasks, SyncIndex
  <2>1. Matched(r) \in Tasks /\ task[Matched(r)].key = call[r]
    BY <2>0, MatchedKey, NoneIsNothing
  <2>2. OutputOf(Matched(r)) \in produced /\ OutputOf(Matched(r)).key = call[r]
    BY <1>10, <2>1, ServedOutput DEF AwaitHit
  <2> QED
    BY <1>10, <2>2, ServesAnswer DEF AwaitHit
<1>11. CASE AwaitMiss(r)
  BY <1>0, <1>11, SameToClients DEF AwaitMiss, SyncExecute
<1>12. CASE SyncDone(r)
  <2> DEFINE t == <<r, SyncIndex>>
  <2>1. t \in Tasks /\ pc[r] = "syncing" /\ task[t].key = call[r]
    BY <1>12, TaskIndex DEF SyncDone, Sound, Syncs
  <2>2. HasOutput(t) => OutputOf(t) \in produced /\ OutputOf(t).key = call[r]
    BY <2>1, ServedOutput
  <2>3. \/ HasOutput(t) /\ Finish(r, "tool", OutputOf(t))
        \/ Finish(r, "text", None)
    BY <1>12 DEF SyncDone
  <2>4. call' = call /\ produced' = produced
    BY <1>12 DEF SyncDone
  <2> HIDE DEF t
  <2> QED
    BY <2>1, <2>2, <2>3, <2>4, ServesAnswer
<1>13. CASE LoopClosed(r)
  BY <1>0, <1>13, SameToClients DEF LoopClosed
<1>14. CASE WaitTimer(r)
  BY <1>0, <1>14, SameToClients DEF WaitTimer, engineVars
<1> QED
  BY <1>1, <1>2, <1>3, <1>4, <1>5, <1>6, <1>7, <1>8, <1>9, <1>10, <1>11, <1>12, <1>13, <1>14
     DEF EngineStep, Cascade, Predict, Engine, Timer

(* A tool that returns a payload has executed; no other step of a body shows. *)
LEMMA TaskServes ==
    ASSUME IInv, NEW t \in Tasks, TaskStep(t)
    PROVE  Serves
<1>1. Wanted' = Wanted /\ response' = response
  BY TaskMoves DEF engineVars, Wanted
<1>2. CASE produced' = produced
  BY <1>1, <1>2, ServesNothing
<1>3. ASSUME NEW out \in Outputs, produced' = produced \cup {out} PROVE Serves
  <2>1. Service!Execute(out)
    BY <1>1, <1>3 DEF Service!Execute, Wanted
  <2> QED
    BY <2>1 DEF Serves, Service!Next
<1> QED
  BY <1>2, <1>3, TaskCaches

(* Whatever is predicted, cached, cancelled, timed out or shut down, a      *)
(* request gets what ToolService promises: one answer, fixed once given,    *)
(* with its own tool's output only as an execution really returned it.      *)
THEOREM ServesRequests == Spec => ImplementsToolService
<1>1. Init => Service!Init
  <2> SUFFICES ASSUME Init PROVE Service!Init
    OBVIOUS
  <2>1. \A r \in Requests : Wanted[r] = "open" /\ response[r] = [kind |-> "open", out |-> None]
    BY DEF Init, Wanted, NoResponse
  <2>2. Wanted = [r \in Requests |-> "open"]
    BY <2>1 DEF Wanted
  <2>3. response = [r \in Requests |-> [kind |-> "open", out |-> None]]
    BY DEF Init, NoResponse
  <2> QED
    BY <2>2, <2>3 DEF Init, Service!Init, Service!Plain, Wanted
<1>2. ASSUME IInv, Genuine, [Next]_vars PROVE Serves
  <2>1. CASE UNCHANGED <<engineVars, produced>>
    <3>1. Wanted' = Wanted /\ response' = response /\ produced' = produced
      BY <2>1 DEF engineVars, Wanted
    <3> QED
      BY <3>1, ServesNothing
  <2>2. ASSUME NEW r \in Requests, EngineStep(r) PROVE Serves
    BY <1>2, <2>2, EngineServes
  <2>3. ASSUME NEW t \in Tasks, TaskStep(t) PROVE Serves
    BY <1>2, <2>3, TaskServes
  <2>4. ASSUME NEW k \in Keys, CacheForgets(k) PROVE Serves
    BY <2>1, <2>4 DEF CacheForgets
  <2>5. CASE UNCHANGED vars
    BY <2>1, <2>5 DEF vars, engineVars
  <2> QED
    BY <1>2, <2>2, <2>3, <2>4, <2>5 DEF Next, EngineStep, TaskStep, Idle
<1>3. IInv /\ Genuine /\ [Next]_vars => [Service!Next]_(Service!vars)
  BY <1>2 DEF Serves
<1> QED
  BY <1>1, <1>3, GenuineKept, PTL DEF Spec, ImplementsToolService, Service!Spec
=============================================================================
