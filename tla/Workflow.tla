------------------------------ MODULE Workflow ------------------------------
(***************************************************************************)
(* One HAOE workflow: WorkflowExecutor.execute, TaskExecutor.execute,      *)
(* RetryManager.run, CheckpointStore and the cancellation tokens, all in   *)
(* runtime/haoe/.  The graph runs on one thread, other threads cancel, and *)
(* the process may die anywhere and be asked for the same graph again.     *)
(*                                                                         *)
(* A result is kept for what a condition reads in it, "yes" or "no"; a     *)
(* condition without its result in the context does not hold, or raises.   *)
(* Events, priorities and durations are left out.                          *)
(***************************************************************************)
EXTENDS Integers

CONSTANTS
    Nodes, Edges, \* edges but those of kind CANCEL
    Conditional,  \* edges with a condition on the result of their source
    Silent,       \* nodes without a function
    Checkpointed, \* nodes with is_checkpoint
    None,
    MaxAttempts,  \* RetryPolicy.max_attempts
    MaxRuns       \* bound: calls of execute

ASSUME GraphAssumption ==
    /\ Edges \subseteq Nodes \X Nodes /\ Conditional \subseteq Edges
    /\ Silent \subseteq Nodes /\ Checkpointed \subseteq Nodes
ASSUME NoneIsNoNode == None \notin Nodes
ASSUME BoundAssumption == MaxAttempts \in Nat \ {0} /\ MaxRuns \in Nat

VARIABLES
    phase,     \* where the thread of execute is
    state,     \* TaskNode.state, "READY" and "RUNNING" seen at their ends
    context,   \* graph.context: what the result of a node says
    completed, \* the local set of execute
    todo,      \* rest of the ready nodes of this round
    cur,       \* node of TaskExecutor.execute
    attempt,   \* counter of RetryManager.run
    shared,    \* the tasks hang from the token that the loop looks at
    cancelled, \* which of the two tokens are cancelled
    disk,      \* nodes with a checkpoint file
    unread,    \* those of them whose file this run could not read
    outcome,   \* how the last execute ended
    runs       \* number of calls of execute

locals == <<completed, todo, cur, attempt>>
vars == <<phase, state, context, locals, shared, cancelled, disk, unread, outcome, runs>>

\* Type correctness of graph, locals of the run and disk.
TypeOK ==
    /\ phase \in {"idle", "round", "node", "try", "call", "save"}
    /\ state \in [Nodes -> {"QUEUED", "READY", "RUNNING", "COMPLETED", "FAILED", "CANCELLED"}]
    /\ context \in [Nodes -> {"missing", "yes", "no"}]
    /\ completed \subseteq Nodes /\ todo \subseteq Nodes
    /\ cur \in Nodes \cup {None}
    /\ phase \in {"try", "call", "save"} => cur \in Nodes
    /\ attempt \in 0..MaxAttempts
    /\ shared \in BOOLEAN
    /\ cancelled \subseteq {"loop", "task"}
    /\ unread \subseteq disk /\ disk \subseteq Checkpointed
    /\ outcome \in {"none", "returned", "raised", "cancelled", "died"}
    /\ runs \in 0..MaxRuns

Fresh ==
    /\ state = [n \in Nodes |-> "QUEUED"]
    /\ context = [n \in Nodes |-> "missing"]

Init ==
    /\ phase = "idle" /\ Fresh
    /\ completed = {} /\ todo = {} /\ cur = None /\ attempt = 0
    /\ shared \in BOOLEAN /\ cancelled = {}
    /\ disk = {} /\ unread = {} /\ outcome = "none" /\ runs = 0

Preds(n) == {p \in Nodes : <<p, n>> \in Edges}

\* is_dag, which execute asks first: no nodes all wait for one another.
ASSUME AcyclicAssumption ==
    \A S \in SUBSET Nodes : S # {} => \E n \in S : Preds(n) \cap S = {}

Denied(n) == \E p \in Nodes : <<p, n>> \in Conditional /\ context[p] # "yes"
\* Mutant: one completed predecessor is enough.
Ready_any == {n \in Nodes \ completed :
                 (Preds(n) = {} \/ Preds(n) \cap completed # {}) /\ ~Denied(n)}

Ready == {n \in Nodes \ completed : Preds(n) \subseteq completed /\ ~Denied(n)}
\* The condition on the way into a node that waits for nothing else reads a
\* result that is not in the context.
Unanswered ==
    \E e \in Conditional : /\ e[2] \notin completed /\ Preds(e[2]) \subseteq completed
                            /\ context[e[1]] = "missing"
Terminal == {"COMPLETED", "FAILED", "CANCELLED"}

\* execute returns or raises: the token is discarded, the locals are gone.
End(how) ==
    /\ phase' = "idle" /\ outcome' = how
    /\ completed' = {} /\ todo' = {} /\ cur' = None /\ attempt' = 0
    /\ cancelled' = {} /\ unread' = {}
    /\ context' = IF how = "died" THEN [n \in Nodes |-> "missing"] ELSE context
    /\ UNCHANGED <<shared, runs>>

SetState(n, s) == state' = [state EXCEPT ![n] = s]

-----------------------------------------------------------------------------
(* execute *)

\* Mutant: a node with a checkpoint is marked, not counted as completed.
Execute_uncounted ==
    /\ phase = "idle" /\ runs < MaxRuns
    /\ phase' = "round" /\ outcome' = "none" /\ runs' = runs + 1
    /\ unread' \in SUBSET disk /\ completed' = {}
    /\ state' = [n \in Nodes |-> IF n \in disk \ unread' THEN "COMPLETED" ELSE state[n]]
    /\ UNCHANGED <<context, todo, cur, attempt, shared, cancelled, disk>>

\* Nodes with a checkpoint are completed, but those that load returns None
\* for; the context is not restored.
Execute ==
    /\ phase = "idle" /\ runs < MaxRuns
    /\ phase' = "round" /\ outcome' = "none" /\ runs' = runs + 1
    /\ unread' \in SUBSET disk /\ completed' = disk \ unread'
    /\ state' = [n \in Nodes |-> IF n \in completed' THEN "COMPLETED" ELSE state[n]]
    /\ UNCHANGED <<context, todo, cur, attempt, shared, cancelled, disk>>

CancelRest ==
    state' = [n \in Nodes |-> IF n \in completed \/ state[n] \in Terminal
                              THEN state[n] ELSE "CANCELLED"]

\* Mutant: nodes are left in the state they have when nothing is ready.
Round_unmarked ==
    /\ phase = "round"
    /\ \/ completed = Nodes /\ End("returned") /\ UNCHANGED state
       \/ completed # Nodes /\ "loop" \in cancelled /\ CancelRest /\ End("cancelled")
       \/ completed # Nodes /\ "loop" \notin cancelled /\ Ready = {}
          /\ End("returned") /\ UNCHANGED state
       \/ completed # Nodes /\ "loop" \notin cancelled /\ Unanswered
          /\ End("raised") /\ UNCHANGED state
       \/ /\ completed # Nodes /\ "loop" \notin cancelled /\ Ready # {}
          /\ phase' = "node" /\ todo' = Ready
          /\ UNCHANGED <<state, context, completed, cur, attempt, shared, cancelled, unread, outcome, runs>>
    /\ UNCHANGED disk

Round ==
    /\ phase = "round"
    /\ \/ completed = Nodes /\ End("returned") /\ UNCHANGED state
       \/ completed # Nodes /\ "loop" \in cancelled /\ CancelRest /\ End("cancelled")
       \/ completed # Nodes /\ "loop" \notin cancelled /\ Ready = {}
          /\ CancelRest /\ End("returned")
       \/ completed # Nodes /\ "loop" \notin cancelled /\ Unanswered
          /\ End("raised") /\ UNCHANGED state
       \/ /\ completed # Nodes /\ "loop" \notin cancelled /\ Ready # {}
          /\ phase' = "node" /\ todo' = Ready
          /\ UNCHANGED <<state, context, completed, cur, attempt, shared, cancelled, unread, outcome, runs>>
    /\ UNCHANGED disk

RoundEnds ==
    /\ phase = "node" /\ todo = {} /\ phase' = "round"
    /\ UNCHANGED <<state, context, locals, shared, cancelled, disk, unread, outcome, runs>>

\* A node without a function completes even when cancelled.  A cancelled task
\* token is noticed first outside the try: the node stays where it is.
Begin(n) ==
    /\ phase = "node" /\ n \in todo
    /\ \/ /\ n \in Silent
          /\ SetState(n, "COMPLETED")
          /\ context' = [context EXCEPT ![n] = "no"]
          /\ phase' = "save" /\ cur' = n /\ todo' = todo \ {n}
          /\ UNCHANGED <<completed, attempt, shared, cancelled, unread, outcome, runs>>
       \/ /\ n \notin Silent /\ "task" \in cancelled
          /\ SetState(n, IF state[n] = "QUEUED" THEN "READY" ELSE state[n])
          /\ End("cancelled")
       \/ /\ n \notin Silent /\ "task" \notin cancelled
          /\ SetState(n, "RUNNING")
          /\ phase' = "try" /\ cur' = n /\ todo' = todo \ {n} /\ attempt' = 0
          /\ UNCHANGED <<context, completed, shared, cancelled, unread, outcome, runs>>
    /\ UNCHANGED disk

-----------------------------------------------------------------------------
(* RetryManager.run over the function of the node *)

Try ==
    /\ phase = "try"
    /\ \/ "task" \in cancelled /\ SetState(cur, "CANCELLED") /\ End("cancelled")
       \/ /\ "task" \notin cancelled /\ phase' = "call"
          /\ UNCHANGED <<state, context, locals, shared, cancelled, unread, outcome, runs>>
    /\ UNCHANGED disk

CallReturns(v) ==
    /\ phase = "call" /\ phase' = "save"
    /\ SetState(cur, "COMPLETED")
    /\ context' = [context EXCEPT ![cur] = v]
    /\ UNCHANGED <<locals, shared, cancelled, disk, unread, outcome, runs>>

\* Mutant: the last failure is retried like the others.
CallRaises_forever ==
    /\ phase = "call" /\ phase' = "try"
    /\ attempt' = IF attempt + 1 < MaxAttempts THEN attempt + 1 ELSE attempt
    /\ UNCHANGED <<state, context, completed, todo, cur, shared, cancelled, disk, unread, outcome, runs>>

\* Mutant: a failure whose exception is not retried leaves the node as it is.
CallRaises_unmarked ==
    /\ phase = "call"
    /\ \/ End("raised") /\ UNCHANGED state
       \/ /\ attempt + 1 < MaxAttempts
          /\ phase' = "try" /\ attempt' = attempt + 1
          /\ UNCHANGED <<state, context, completed, todo, cur, shared, cancelled, unread, outcome, runs>>
    /\ UNCHANGED disk

\* An exception that is not retryable, or the last attempt: the run fails.
\* The wait before the next attempt is on a token that nobody cancels.
CallRaises ==
    /\ phase = "call"
    /\ \/ SetState(cur, "FAILED") /\ End("raised")
       \/ /\ attempt + 1 < MaxAttempts
          /\ phase' = "try" /\ attempt' = attempt + 1
          /\ UNCHANGED <<state, context, completed, todo, cur, shared, cancelled, unread, outcome, runs>>
    /\ UNCHANGED disk

\* The function looks at its token itself.
CallCancelled ==
    /\ phase = "call" /\ "task" \in cancelled
    /\ SetState(cur, "CANCELLED") /\ End("cancelled")
    /\ UNCHANGED disk

-----------------------------------------------------------------------------
\* The checkpoint file appears whole or, when the write raises, not at all.
Save ==
    /\ phase = "save"
    /\ \/ /\ disk' = disk \cup ({cur} \cap Checkpointed)
          /\ completed' = completed \cup {cur} /\ cur' = None
          /\ phase' = "node" /\ unread' = unread \ {cur}
          /\ UNCHANGED <<context, todo, attempt, shared, cancelled, outcome, runs>>
       \/ cur \in Checkpointed /\ End("raised") /\ UNCHANGED disk
    /\ UNCHANGED state

\* Another thread cancels the token of the loop, of the tasks, or the one both are.
Cancel(k) ==
    /\ phase # "idle" /\ k \notin cancelled
    /\ cancelled' = IF shared THEN {"loop", "task"} ELSE cancelled \cup {k}
    /\ UNCHANGED <<phase, state, context, locals, shared, disk, unread, outcome, runs>>

\* The process dies, in a run or between two: only the files are left.
Crash ==
    /\ runs > 0
    /\ End("died")
    /\ state' = [n \in Nodes |-> "QUEUED"]
    /\ UNCHANGED disk

-----------------------------------------------------------------------------
RunStep ==
    \/ Round \/ RoundEnds \/ Try \/ CallRaises \/ CallCancelled \/ Save
    \/ \E n \in Nodes : Begin(n)
    \/ \E v \in {"yes", "no"} : CallReturns(v)

\* No execute left to call.
Idle == phase = "idle" /\ runs = MaxRuns /\ UNCHANGED vars

Next == Execute \/ RunStep \/ Crash \/ Idle \/ \E k \in {"loop", "task"} : Cancel(k)

Spec == Init /\ [][Next]_vars

(* The thread of execute runs on, and the functions of the nodes return or *)
(* raise.  Nothing is assumed of cancels and crashes.                      *)
FairSpec == Spec /\ WF_vars(RunStep)

-----------------------------------------------------------------------------
(* Properties *)

\* A function is called only when all its predecessors have completed, in
\* this run or in the one that wrote their checkpoints, and every condition
\* on the way in reads a result that says yes (DependencyGraph.ready_nodes).
RunsInOrder ==
    phase \in {"try", "call"} =>
        (\A p \in Preds(cur) : state[p] = "COMPLETED") /\ ~Denied(cur)

\* The nodes that conditions shut off: the smallest set with the nodes whose
\* condition does not hold and the successors of its members.
ShutOff(n) ==
    \A S \in SUBSET Nodes :
        (\A m \in Nodes : Denied(m) \/ Preds(m) \cap S # {} => m \in S) => n \in S

\* When execute returns, every node is completed, but those that a condition
\* shuts off: they are cancelled, or keep how they ended in an earlier run.
\* A failure or a cancel in a task is never a result (WorkflowResult).
ReturnsWhole ==
    outcome = "returned" =>
        \A n \in Nodes : /\ state[n] \in Terminal
                         /\ state[n] # "COMPLETED" => ShutOff(n)

\* However a run ends, but by the death of its process, no node stays RUNNING
\* (the except clauses of TaskExecutor.execute).
NothingLeftRunning ==
    phase = "idle" => \A n \in Nodes : state[n] # "RUNNING"

\* The function of a node whose checkpoint is on disk is called again only in
\* a run that could not read it, and in that run not once more after it has
\* been saved, whatever crashes, cancels and failures lie between.
SavedNotRepeated ==
    [][phase' = "try" => cur' \notin disk \ unread]_vars

\* Every execute returns or raises: rounds and retries are finite.
EveryRunEnds == phase # "idle" ~> phase = "idle"
=============================================================================
