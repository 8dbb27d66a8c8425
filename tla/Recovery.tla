------------------------------ MODULE Recovery ------------------------------
(***************************************************************************)
(* The recovery boundary of DIPA (dipa/recovery): a request whose plan     *)
(* fails walks the fallback backends of the plan, asking the circuit       *)
(* breaker of each, and is answered in degraded mode when none is left.    *)
(*                                                                         *)
(* Requests run in threads of their own and share the breakers, which no   *)
(* lock protects.  The interpreter may change threads at a call, so an     *)
(* action ends where the code calls something: _entry looks for a breaker, *)
(* makes one, then stores it, and may so replace one that another thread   *)
(* has stored meanwhile; allow reads the state, then the clock, then       *)
(* decides; record_failure opens the breaker, reads the clock, then writes *)
(* opened_at.  Time is one bit per breaker: cooled says that               *)
(* reset_window_s has passed since opened_at (0.0 is long ago).            *)
(***************************************************************************)
EXTENDS Naturals, Sequences

CONSTANTS
    Requests,          \* the threads that carry requests
    Backends,
    Registered,        \* the backends the registry knows
    Primary,           \* Primary[r]: the backend of the plan of r
    Fallbacks,         \* Fallbacks[r]: the backends of plan.fallbacks
    FailureThreshold,
    MaxRetries,
    MaxServed          \* bound: requests a thread carries

ASSUME RecoveryAssumption ==
    /\ Registered \subseteq Backends
    /\ Primary \in [Requests -> Backends]
    /\ Fallbacks \in [Requests -> Seq(Backends)]
    /\ FailureThreshold \in Nat \ {0}
    /\ MaxRetries \in Nat
    /\ MaxServed \in Nat
ASSUME NoneIsNobody == "none" \notin Requests
ASSUME AnswersDistinct == {"none", "unplanned", "degraded"} \cap Backends = {}

VARIABLES
    breaker,    \* breaker[<<b, q>>]: the _Breaker that thread q made for b
    entry,      \* _breakers: the thread whose breaker is stored for b
    missing,    \* threads that have found no breaker and make one
    br,         \* while a thread calls the clock: who made the breaker it has
    pc,         \* where the thread of a request stands
    walked,     \* how the walk ended with each target so far
    attempt,    \* the attempt on the current target
    answer,     \* who answered the last request of the thread
    served      \* requests the thread has taken

tables == <<breaker, entry, missing, br>>
vars == <<tables, pc, walked, attempt, answer, served>>

-----------------------------------------------------------------------------
(* The walk over the targets of the plan. *)

TargetLeft(r) == Len(walked[r]) < Len(Fallbacks[r])

Target(r) == Fallbacks[r][Len(walked[r]) + 1]

\* The backend whose failure the thread counts.
Suspect(r) ==
    IF attempt[r] > 0 THEN Target(r)
    ELSE IF walked[r] = <<>> THEN Primary[r]
    ELSE Fallbacks[r][Len(walked[r])]

Goto(r, where) == pc' = [pc EXCEPT ![r] = where]

\* The walk is done with the target and turns to the next one.
Pass(r, how) ==
    /\ walked' = [walked EXCEPT ![r] = Append(@, how)]
    /\ attempt' = [attempt EXCEPT ![r] = 0]

Answer(r, who) ==
    /\ answer' = [answer EXCEPT ![r] = who]
    /\ Goto(r, "idle")

-----------------------------------------------------------------------------
(* The circuit breaker. *)

Closed == [failures |-> 0, state |-> "closed", cooled |-> TRUE]

\* The thread is about to call record_failure, or record_success or allow.
Asked(r) == IF pc[r] = "failure" THEN Suspect(r) ELSE Target(r)
AtBreaker(r) == pc[r] \in {"failure", "success"} \/ (pc[r] = "walk" /\ TargetLeft(r))

\* _entry as far as the call of _Breaker().
EntryMissing(r) ==
    /\ AtBreaker(r) /\ r \notin missing
    /\ entry[Asked(r)] = "none"
    /\ missing' = missing \cup {r}
    /\ UNCHANGED <<breaker, entry, br, pc, walked, attempt, answer, served>>

\* What _entry returns: the breaker that is stored, or the one just made.
Entry(r) == <<Asked(r), IF r \in missing THEN r ELSE entry[Asked(r)]>>

\* The rest of _entry.
Entered(r) ==
    /\ r \in missing \/ entry[Asked(r)] # "none"
    /\ entry' = [entry EXCEPT ![Asked(r)] = Entry(r)[2]]
    /\ missing' = missing \ {r}

\* A thread keeps the breaker it has while it calls the clock.
CallClock(r, where) == Goto(r, where) /\ br' = [br EXCEPT ![r] = Entry(r)[2]]
GoOn(r, where)      == Goto(r, where) /\ br' = [br EXCEPT ![r] = "none"]

\* Where a thread goes on when a failure has been counted.
AfterFailure(r) == IF attempt[r] > 0 THEN "call" ELSE "walk"

\* record_failure as far as the call of the clock: the breaker that opens
\* keeps its old opened_at until the thread goes on.
RecordFailure(r) ==
    /\ pc[r] = "failure"
    /\ Entered(r)
    /\ LET old   == breaker[Entry(r)]
           n     == old.failures + 1
           trips == old.state = "half_open" \/ n >= FailureThreshold
       IN  /\ breaker' = [breaker EXCEPT ![Entry(r)] =
                 [old EXCEPT !.failures = n, !.state = IF trips THEN "open" ELSE @]]
           /\ IF trips THEN CallClock(r, "stamp") ELSE GoOn(r, AfterFailure(r))
    /\ UNCHANGED <<walked, attempt, answer, served>>

\* The rest of record_failure: opened_at is the time of this moment.
Stamp(r) ==
    /\ pc[r] = "stamp"
    /\ breaker' = [breaker EXCEPT ![<<Suspect(r), br[r]>>].cooled = FALSE]
    /\ GoOn(r, AfterFailure(r))
    /\ UNCHANGED <<entry, missing, walked, attempt, answer, served>>

RecordSuccess(r) ==
    /\ pc[r] = "success"
    /\ Entered(r)
    /\ breaker' = [breaker EXCEPT ![Entry(r)] = Closed]
    /\ Answer(r, Target(r))
    /\ UNCHANGED <<br, walked, attempt, served>>

\* reset_window_s has passed since opened_at.
WindowEnds(b) ==
    /\ \E q \in Requests : /\ ~breaker[<<b, q>>].cooled
                           /\ breaker' = [breaker EXCEPT ![<<b, q>>].cooled = TRUE]
    /\ UNCHANGED <<entry, missing, br, pc, walked, attempt, answer, served>>

\* allow of the next target, as far as the call of the clock.
Ask(r) ==
    /\ pc[r] = "walk" /\ TargetLeft(r)
    /\ Entered(r)
    /\ IF breaker[Entry(r)].state = "open" THEN CallClock(r, "clock") ELSE GoOn(r, "lookup")
    /\ UNCHANGED <<breaker, walked, attempt, answer, served>>

\* Mutant: the breaker whose window has ended is closed at once.
LetThrough_closes(r) ==
    /\ pc[r] = "clock"
    /\ breaker[<<Target(r), br[r]>>].cooled
    /\ breaker' = [breaker EXCEPT ![<<Target(r), br[r]>>] = Closed]
    /\ GoOn(r, "lookup")
    /\ UNCHANGED <<entry, missing, walked, attempt, answer, served>>

\* The rest of allow: the state is written as if it were still OPEN.
LetThrough(r) ==
    /\ pc[r] = "clock"
    /\ breaker[<<Target(r), br[r]>>].cooled
    /\ breaker' = [breaker EXCEPT ![<<Target(r), br[r]>>].state = "half_open"]
    /\ GoOn(r, "lookup")
    /\ UNCHANGED <<entry, missing, walked, attempt, answer, served>>

\* Mutant: a refusal ends the walk.
Refuse_ends(r) ==
    /\ pc[r] = "clock"
    /\ ~breaker[<<Target(r), br[r]>>].cooled
    /\ Pass(r, "refused")
    /\ Answer(r, "degraded")
    /\ br' = [br EXCEPT ![r] = "none"]
    /\ UNCHANGED <<breaker, entry, missing, served>>

Refuse(r) ==
    /\ pc[r] = "clock"
    /\ ~breaker[<<Target(r), br[r]>>].cooled
    /\ Pass(r, "refused")
    /\ GoOn(r, "walk")
    /\ UNCHANGED <<breaker, entry, missing, answer, served>>

-----------------------------------------------------------------------------
(* A request. *)

\* pipeline.run: the plan of a request is made.
Arrive(r) ==
    /\ pc[r] = "idle"
    /\ served[r] < MaxServed
    /\ served' = [served EXCEPT ![r] = @ + 1]
    /\ walked' = [walked EXCEPT ![r] = <<>>]
    /\ attempt' = [attempt EXCEPT ![r] = 0]
    /\ answer' = [answer EXCEPT ![r] = "none"]
    /\ Goto(r, "plan")
    /\ UNCHANGED tables

\* handle_failure without a plan records nothing and walks nowhere.
PlanFails(r) ==
    /\ pc[r] = "plan"
    /\ Answer(r, "unplanned")
    /\ UNCHANGED <<tables, walked, attempt, served>>

\* The breaker of the primary backend is not asked, and a success is not
\* recorded with it.
PrimarySucceeds(r) ==
    /\ pc[r] = "plan"
    /\ Answer(r, Primary[r])
    /\ UNCHANGED <<tables, walked, attempt, served>>

PrimaryFails(r) ==
    /\ pc[r] = "plan"
    /\ Goto(r, "failure")
    /\ UNCHANGED <<tables, walked, attempt, answer, served>>

Lookup(r) ==
    /\ pc[r] = "lookup"
    /\ Target(r) \in Registered
    /\ Goto(r, "call")
    /\ UNCHANGED <<tables, walked, attempt, answer, served>>

LookupMissing(r) ==
    /\ pc[r] = "lookup"
    /\ Target(r) \notin Registered
    /\ Pass(r, "missing")
    /\ Goto(r, "failure")
    /\ UNCHANGED <<tables, answer, served>>

CallSucceeds(r) ==
    /\ pc[r] = "call"
    /\ Goto(r, "success")
    /\ UNCHANGED <<tables, walked, attempt, answer, served>>

\* should_retry: the exception is retryable and an attempt is left.
CallFailsRetryable(r) ==
    /\ pc[r] = "call"
    /\ attempt[r] < MaxRetries
    /\ attempt' = [attempt EXCEPT ![r] = @ + 1]
    /\ Goto(r, "failure")
    /\ UNCHANGED <<tables, walked, answer, served>>

\* Mutant: the failure that ends the attempts is not recorded.
CallFailsForGood_silent(r) ==
    /\ pc[r] = "call"
    /\ Pass(r, "failed")
    /\ Goto(r, "walk")
    /\ UNCHANGED <<tables, answer, served>>

CallFailsForGood(r) ==
    /\ pc[r] = "call"
    /\ Pass(r, "failed")
    /\ Goto(r, "failure")
    /\ UNCHANGED <<tables, answer, served>>

\* Mutant: the walk that finds nothing leaves the exception to the caller.
Degrade_raises(r) ==
    /\ pc[r] = "walk"
    /\ ~TargetLeft(r)
    /\ Goto(r, "idle")
    /\ UNCHANGED <<tables, walked, attempt, answer, served>>

Degrade(r) ==
    /\ pc[r] = "walk"
    /\ ~TargetLeft(r)
    /\ Answer(r, "degraded")
    /\ UNCHANGED <<tables, walked, attempt, served>>

-----------------------------------------------------------------------------
Init ==
    /\ breaker = [x \in Backends \X Requests |-> Closed]
    /\ entry = [b \in Backends |-> "none"]
    /\ missing = {}
    /\ br = [r \in Requests |-> "none"]
    /\ pc = [r \in Requests |-> "idle"]
    /\ walked = [r \in Requests |-> <<>>]
    /\ attempt = [r \in Requests |-> 0]
    /\ answer = [r \in Requests |-> "none"]
    /\ served = [r \in Requests |-> 0]

Plan(r) == PlanFails(r) \/ PrimarySucceeds(r) \/ PrimaryFails(r)

CallEnds(r) == CallSucceeds(r) \/ CallFailsRetryable(r) \/ CallFailsForGood(r)

Walk(r) ==
    \/ EntryMissing(r) \/ RecordFailure(r) \/ Stamp(r) \/ RecordSuccess(r)
    \/ Ask(r) \/ LetThrough(r) \/ Refuse(r) \/ Lookup(r) \/ LookupMissing(r) \/ Degrade(r)

Next ==
    \/ \E r \in Requests : Arrive(r) \/ Plan(r) \/ Walk(r) \/ CallEnds(r)
    \/ \E b \in Backends : WindowEnds(b)

Spec == Init /\ [][Next]_vars

\* A thread runs on, the plan ends one way or the other, and so does a call
\* of the walk, which TimeoutManager.run limits.  Neither requests nor the
\* end of a window are promised.
FairSpec ==
    /\ Spec
    /\ \A r \in Requests :
        WF_vars(Plan(r)) /\ WF_vars(Walk(r)) /\ WF_vars(CallEnds(r))

-----------------------------------------------------------------------------
(* Properties *)

BreakerState == {"closed", "open", "half_open"}

\* The variables have their types and no target is tried more often than
\* max_retries allows.
TypeOK ==
    /\ breaker \in [Backends \X Requests ->
         [failures : Nat, state : BreakerState, cooled : BOOLEAN]]
    /\ entry \in [Backends -> Requests \cup {"none"}]
    /\ missing \subseteq Requests
    /\ br \in [Requests -> Requests \cup {"none"}]
    /\ pc \in [Requests -> {"idle", "plan", "failure", "stamp", "walk", "clock",
                            "lookup", "call", "success"}]
    /\ DOMAIN walked = Requests
    /\ \A r \in Requests :
        /\ walked[r] \in Seq({"refused", "missing", "failed"})
        /\ Len(walked[r]) <= Len(Fallbacks[r])
    /\ attempt \in [Requests -> 0 .. MaxRetries]
    /\ answer \in [Requests ->
         Backends \cup {"none", "unplanned", "degraded"}]
    /\ served \in [Requests -> 0 .. MaxServed]

\* The state that the next call of allow for b finds.
State(b) == IF entry[b] = "none" THEN "closed" ELSE breaker[<<b, entry[b]>>].state

\* Thread r has been let through to b, or has the outcome still to record.
Probes(r, b) == \/ pc[r] \in {"lookup", "call", "success"} /\ Target(r) = b
                \/ pc[r] = "failure" /\ Suspect(r) = b

\* A breaker is HALF_OPEN only while a thread probes its backend: whoever
\* writes over whose breaker or state, and wherever a probe ends, its outcome
\* closes or opens the breaker that allow will find.
ProbeUnderWay ==
    \A b \in Backends : State(b) = "half_open" => \E r \in Requests : Probes(r, b)

\* A planned request is answered in degraded mode only after every fallback
\* of its plan: a target refused, unknown or failing does not end the walk.
DegradedIsLast ==
    \A r \in Requests :
        answer[r] = "degraded" => Len(walked[r]) = Len(Fallbacks[r])

\* A breaker that has opened is found CLOSED again only after a success, in
\* the step that answers a request from its backend, or because a thread that
\* had looked for it before there was one stores its own.  The end of the
\* window and what other threads make of the state do not close it.
ClosesOnSuccess ==
    [][\A b \in Backends :
         State(b) # "closed" /\ State(b)' = "closed" =>
            \E r \in Requests : \/ pc[r] = "success" /\ answer'[r] = b
                                \/ r \in missing /\ entry'[b] = r]_vars

\* Every request that arrives is answered, by its primary backend, by a
\* fallback or in degraded mode: handle_failure never leaves the pipeline
\* to raise, and retries and fallbacks end.
EveryRequestAnswered ==
    \A r \in Requests :
        pc[r] = "plan" ~> pc[r] = "idle" /\ answer[r] # "none"

=============================================================================
