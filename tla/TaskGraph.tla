----------------------------- MODULE TaskGraph ------------------------------
(***************************************************************************)
(* GraphExecutor (runtime/swarm/task_graph/executor.py): one run of a task *)
(* graph, layer by layer, with conditions, retries, timeouts and           *)
(* cancellation.  run(), the _run_node coroutines of a layer and the       *)
(* callers of cancel() share one asyncio loop; a step is the code between  *)
(* two awaits.  A handler runs in a task of its own, which starts an       *)
(* iteration of the loop after the check of the token and may outlive its  *)
(* node.  What a handler computes, what a condition evaluates to and       *)
(* whether a deadline has passed are left open.                            *)
(***************************************************************************)
EXTENDS Integers

CONSTANTS Nodes,
          Edges,            \* dependencies <<src, dst>>; validate_graph: a DAG
          MaxAttempts,      \* RetryPolicy.max_attempts
          RetryOnFailure, RetryOnTimeout,
          Modes             \* cancel modes the callers use

ASSUME EdgesAssumption    == Edges \subseteq Nodes \X Nodes
ASSUME AttemptsAssumption == MaxAttempts \in Nat \ {0}   \* RetryPolicy raises otherwise
ASSUME FlagsAssumption    == {RetryOnFailure, RetryOnTimeout} \subseteq BOOLEAN
ASSUME ModesAssumption    == Modes \subseteq {"graph", "node", "subtree", "downstream"}

VARIABLES
    failFast,   \* fail_fast of the executor, fixed
    phase,      \* GraphPhase of the run, or "raised" when run() has raised
    status,     \* NodeStatus of every node
    attempts,
    requested,  \* nodes with cancel_requested
    token,      \* CancellationToken: cancelled?
    completed,  \* local of run()
    layer,      \* nodes of the last gather of run()
    at,         \* where the _run_node coroutine of each node is
    lingering   \* nodes with a handler that has timed out and is still running

vars == <<failFast, phase, status, attempts, requested, token, completed, layer, at, lingering>>

TERMINAL  == {"succeeded", "failed", "cancelled", "skipped", "timed_out"}
Statuses  == TERMINAL \cup {"pending", "running", "retrying"}
Verdicts  == {"succeeded", "failed", "cancelled", "timed_out"}
Calls     == {"scheduled", "calling"}
Places    == {"none", "created", "sleeping", "returned", "raised"} \cup Calls

Preds(n) == {m \in Nodes : <<m, n>> \in Edges}
Succs(n) == {m \in Nodes : <<n, m>> \in Edges}

\* is_dag: no nodes are left that all wait for one another
ASSUME AcyclicAssumption ==
    \A S \in SUBSET Nodes : S # {} => \E n \in S : Preds(n) \cap S = {}

\* reachable_from: the node and its descendants
Reach == [n \in Nodes |->
    {m \in Nodes : \A S \in SUBSET Nodes : n \in S /\ (\A k \in S : Succs(k) \subseteq S) => m \in S}]

Init ==
    /\ failFast \in BOOLEAN
    /\ phase = "idle"
    /\ status = [n \in Nodes |-> "pending"]
    /\ attempts = [n \in Nodes |-> 0]
    /\ requested = {} /\ token = FALSE
    /\ completed = {} /\ layer = {}
    /\ at = [n \in Nodes |-> "none"] /\ lingering = {}

-----------------------------------------------------------------------------
(* run() *)

\* Mutant: any finished predecessor will do.
Ready_any(done) ==
    {n \in Nodes \ done :
        /\ Preds(n) = {} \/ Preds(n) \cap done # {}
        /\ status[n] \notin TERMINAL \cup {"running", "retrying"}}

\* Mutant: waits for the success of the predecessors, not for their end.
Ready_succeeded(done) ==
    {n \in Nodes \ done :
        /\ \A p \in Preds(n) : p \in done /\ status[p] = "succeeded"
        /\ status[n] \notin TERMINAL \cup {"running", "retrying"}}

\* ready_nodes: every predecessor has ended, however it ended.
Ready(done) ==
    {n \in Nodes \ done :
        /\ Preds(n) \subseteq done
        /\ status[n] \notin TERMINAL \cup {"running", "retrying"}}

Some(sts, s) == \E n \in Nodes : sts[n] = s

\* Mutant: looks for failures only.
Verdict_failuresOnly(sts) == IF Some(sts, "failed") THEN "failed" ELSE "succeeded"

Verdict(sts) ==
    IF Some(sts, "cancelled") /\ token THEN "cancelled"
    ELSE IF Some(sts, "timed_out") THEN "timed_out"
    ELSE IF Some(sts, "failed") THEN "failed"
    ELSE "succeeded"

\* From the end of a layer to the next await or to the return: the verdict,
\* the CancellationError, the workflow deadline, or the next layer.
Advance(done) ==
    \/ /\ done = Nodes
       /\ phase' = Verdict(status)
       /\ completed' = done /\ layer' = {}
       /\ UNCHANGED <<status, at>>
    \/ /\ done # Nodes /\ token
       /\ phase' = "cancelled"
       /\ completed' = done /\ layer' = {}
       /\ UNCHANGED <<status, at>>
    \/ /\ done # Nodes /\ ~token    \* _timeout_remaining
       /\ status' = [n \in Nodes |-> IF n \notin done /\ status[n] \notin TERMINAL
                                     THEN "timed_out" ELSE status[n]]
       /\ phase' = Verdict(status')
       /\ completed' = Nodes /\ layer' = {}
       /\ UNCHANGED at
    \/ /\ done # Nodes /\ ~token
       /\ phase' = "running"
       /\ completed' = done /\ layer' = Ready(done)
       /\ at' = [n \in Nodes |-> IF n \in Ready(done) THEN "created" ELSE at[n]]
       /\ UNCHANGED status

Run == /\ phase = "idle"
       /\ Advance({})
       /\ UNCHANGED <<failFast, attempts, requested, token, lingering>>

\* _apply_cancel: a node that is running goes on unless the cancel is forced.
Cancelled(targets, forced) ==
    [n \in Nodes |-> IF /\ n \in targets /\ status[n] \notin TERMINAL
                        /\ forced \/ status[n] \in {"pending", "retrying"}
                     THEN "cancelled" ELSE status[n]]
Requested(targets) == requested \cup {n \in targets : status[n] \notin TERMINAL}

Targets(mode, n) ==
    CASE mode = "graph" -> Nodes
      [] mode = "node"  -> {n}
      [] OTHER          -> Reach[n]

\* cancel(), from another task of the loop; the token is set in every mode.
Cancel(mode, n, forced) ==
    /\ phase # "idle"
    /\ token' = TRUE
    /\ status' = Cancelled(Targets(mode, n), forced)
    /\ requested' = Requested(Targets(mode, n))
    /\ UNCHANGED <<failFast, phase, attempts, completed, layer, at, lingering>>

\* fail_fast: the walk over the layer stops at its first failed node f, after
\* some that did not fail; the rest of the graph is cancelled.  Nodes that
\* cancel() has just ended are not added to completed, so unless f ended the
\* last node of the graph the loop goes round once more and throws.
FailFastStop ==
    \E f \in layer : \E before \in SUBSET {n \in layer : status[n] # "failed"} :
        LET done == completed \cup before \cup {f} IN
        /\ status[f] = "failed"
        /\ token' = TRUE
        /\ status' = Cancelled(Nodes, FALSE)
        /\ requested' = Requested(Nodes)
        /\ completed' = done /\ layer' = {}
        /\ phase' = IF done = Nodes THEN "failed" ELSE "cancelled"
        /\ UNCHANGED <<failFast, attempts, at, lingering>>

\* Mutant: the fail-fast branch is never taken.
LayerEnd_goOn ==
    /\ phase = "running" /\ \A n \in layer : at[n] = "returned"
    /\ Advance(completed \cup layer)
    /\ UNCHANGED <<failFast, attempts, requested, token, lingering>>

\* The gather returns once every _run_node of the layer has.
LayerEnd ==
    /\ phase = "running" /\ \A n \in layer : at[n] = "returned"
    /\ IF failFast /\ \E n \in layer : status[n] = "failed"
       THEN FailFastStop
       ELSE /\ Advance(completed \cup layer)
            /\ UNCHANGED <<failFast, attempts, requested, token, lingering>>

\* The gather hands on the exception of a condition, which run() does not
\* catch; the other coroutines of the layer are not stopped.
RunRaises ==
    /\ phase = "running" /\ \E n \in layer : at[n] = "raised"
    /\ phase' = "raised"
    /\ UNCHANGED <<failFast, status, attempts, requested, token, completed, layer, at, lingering>>

-----------------------------------------------------------------------------
(* _run_node *)

runVars == <<failFast, phase, requested, token, completed, layer>>

Goto(n, place, s) == /\ at' = [at EXCEPT ![n] = place]
                     /\ status' = [status EXCEPT ![n] = s]

\* The first step of the coroutine: cancelled, skipped, stopped by a condition
\* that raises, or the first attempt, whose handler is a new task.
NodeStart(n) ==
    /\ at[n] = "created"
    /\ \/ /\ token \/ n \in requested
          /\ Goto(n, "returned", "cancelled")
          /\ UNCHANGED attempts
       \/ /\ ~token /\ n \notin requested
          /\ Goto(n, "returned", "skipped")
          /\ UNCHANGED attempts
       \/ /\ ~token /\ n \notin requested
          /\ Goto(n, "raised", "pending")
          /\ UNCHANGED attempts
       \/ /\ ~token /\ n \notin requested
          /\ Goto(n, "scheduled", "running")
          /\ attempts' = [attempts EXCEPT ![n] = @ + 1]
    /\ UNCHANGED <<runVars, lingering>>

\* The task of the handler begins: no check since it was made.
CallStarts(n) ==
    /\ at[n] = "scheduled"
    /\ at' = [at EXCEPT ![n] = "calling"]
    /\ UNCHANGED <<runVars, status, attempts, lingering>>

CallReturns(n) ==
    /\ at[n] = "calling"
    /\ Goto(n, "returned", "succeeded")
    /\ UNCHANGED <<runVars, attempts, lingering>>

\* A failed attempt: back off and try again, or give up with status s.
RetryOr(n, retry, s) ==
    IF retry /\ attempts[n] < MaxAttempts
    THEN Goto(n, "sleeping", "retrying")
    ELSE Goto(n, "returned", s)

\* The handler that times out is cancelled, but not awaited.
CallTimesOut(n) ==
    /\ at[n] \in Calls
    /\ RetryOr(n, RetryOnTimeout, "timed_out")
    /\ \/ UNCHANGED lingering
       \/ at[n] = "calling" /\ lingering' = lingering \cup {n}
    /\ UNCHANGED <<runVars, attempts>>

LingererEnds(n) ==
    /\ n \in lingering /\ lingering' = lingering \ {n}
    /\ UNCHANGED <<runVars, status, at, attempts>>

\* A handler that raises CancellationError itself is taken for a cancel.
CallRaises(n) ==
    /\ at[n] = "calling"
    /\ RetryOr(n, RetryOnFailure, "failed") \/ Goto(n, "returned", "cancelled")
    /\ UNCHANGED <<runVars, attempts, lingering>>

\* _cancellable_call sees the cancel before the call has begun or ended.
CallCancelled(n) ==
    /\ at[n] \in Calls /\ (token \/ n \in requested)
    /\ Goto(n, "returned", "cancelled")
    /\ UNCHANGED <<runVars, attempts, lingering>>

\* Mutant: the next attempt starts without looking at the token.
Wake_blind(n) ==
    /\ at[n] = "sleeping"
    /\ attempts' = [attempts EXCEPT ![n] = @ + 1]
    /\ Goto(n, "scheduled", "running")
    /\ UNCHANGED <<runVars, lingering>>

\* Mutant: the attempt is not counted.
Wake_uncounted(n) ==
    /\ at[n] = "sleeping"
    /\ IF token THEN Goto(n, "returned", "cancelled") ELSE Goto(n, "scheduled", "running")
    /\ UNCHANGED <<runVars, attempts, lingering>>

\* The backoff sleep ends; throw_if_cancelled comes before the next attempt.
Wake(n) ==
    /\ at[n] = "sleeping"
    /\ attempts' = [attempts EXCEPT ![n] = @ + 1]
    /\ IF token THEN Goto(n, "returned", "cancelled") ELSE Goto(n, "scheduled", "running")
    /\ UNCHANGED <<runVars, lingering>>

-----------------------------------------------------------------------------
RunNode(n) == \/ NodeStart(n) \/ CallStarts(n) \/ CallReturns(n) \/ CallTimesOut(n)
              \/ CallRaises(n) \/ CallCancelled(n) \/ Wake(n)

Ended == Verdicts \cup {"raised"}
Over == phase \in Ended /\ UNCHANGED vars

Next == \/ Run \/ LayerEnd \/ RunRaises \/ Over
        \/ \E n \in Nodes : RunNode(n) \/ LingererEnds(n)
        \/ \E n \in Nodes, mode \in Modes, forced \in BOOLEAN : Cancel(mode, n, forced)

Spec == Init /\ [][Next]_vars

\* The loop runs ready coroutines; handlers return, raise or are timed out.
FairSpec == Spec /\ WF_vars(Run) /\ WF_vars(LayerEnd) /\ WF_vars(RunRaises)
                 /\ \A n \in Nodes : WF_vars(RunNode(n))

-----------------------------------------------------------------------------
(* Properties *)

\* Type correctness; a node is never tried more than max_attempts times.
TypeOK ==
    /\ failFast \in BOOLEAN
    /\ phase \in Ended \cup {"idle", "running"}
    /\ status \in [Nodes -> Statuses]
    /\ attempts \in [Nodes -> 0..MaxAttempts]
    /\ requested \subseteq Nodes /\ token \in BOOLEAN
    /\ completed \subseteq Nodes /\ layer \subseteq Nodes
    /\ at \in [Nodes -> Places] /\ lingering \subseteq Nodes

\* run() never finds a graph that is not finished and has no node to start:
\* the branch that soft-skips pending nodes and raises "no ready nodes; graph
\* may be stuck" is unreachable, whatever failed, was skipped or cancelled.
NeverStuck == phase = "running" => layer # {}

\* While the handler of a node is called, or waits to be retried, every
\* ancestor has ended for good, so node_results holds whatever they will ever
\* contribute (ready_nodes, the gather barrier, _run_node).
AncestorsEnded ==
    \A n \in Nodes : at[n] \in Calls \cup {"sleeping"} =>
        \A m \in Nodes \ {n} : n \in Reach[m] =>
            at[m] = "returned" /\ status[m] \in TERMINAL

\* When run() returns, what it reports agrees with what has become of the
\* nodes.  SUCCEEDED leaves room for a node that is CANCELLED although nobody
\* has cancelled anything: its own handler has raised CancellationError.  No
\* node is in a call; only handlers that have timed out may still be running.
VerdictHonest ==
    [][phase' \in Verdicts /\ phase' # phase =>
        /\ \A n \in Nodes : at[n] \in {"none", "returned"}
        /\ phase' = "succeeded" =>
             \A n \in Nodes : status'[n] \in {"succeeded", "skipped"} \/ (status'[n] = "cancelled" /\ ~token')
        /\ phase' = "failed"    => Some(status', "failed")
        /\ phase' = "timed_out" => Some(status', "timed_out")
        /\ phase' = "cancelled" => token']_vars

\* With fail_fast, once a layer that had a failed node is over no handler is
\* called any more (the fail_fast branch of run()).
FailureStopsGraph ==
    failFast /\ phase = "running" => \A n \in Nodes \ layer : status[n] # "failed"

\* After cancel() no attempt begins, be it the first of a node or one that
\* waited out its backoff: a handler that still starts was scheduled before
\* (_run_node, throw_if_cancelled, create_task).
NothingBeginsAfterCancel ==
    [][token => \A n \in Nodes : at'[n] \in Calls => at[n] \in Calls]_vars

\* Every run ends, through failures, retries, timeouts, cancels and conditions
\* that raise.
RunEnds == (phase = "running") ~> (phase \in Ended)
=============================================================================
