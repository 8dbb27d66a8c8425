-------------------------- MODULE TaskGraph_proofs --------------------------
(***************************************************************************)
(* What GraphExecutor promises of a run - ancestors first, an honest       *)
(* verdict, fail-fast, nothing begun after a cancel - holds in any behaviour*)
(* of TaskGraph: for any graph, retry policy and use of cancel.            *)
(***************************************************************************)
EXTENDS TaskGraph, TLAPS

Going == {"created", "scheduled", "calling", "sleeping", "raised"}
Walking == phase \in {"running", "raised"}

\* Coroutines run in the layer that run() awaits or has left by an exception;
\* what they leave is final.
Coroutines ==
    \A n \in Nodes :
        /\ at[n] \in Going => Walking /\ n \in layer
        /\ at[n] \in {"none", "created"} => attempts[n] = 0
        /\ at[n] = "sleeping" => attempts[n] < MaxAttempts
        /\ at[n] = "returned" => status[n] \in TERMINAL
        /\ at[n] = "none" /\ phase = "running" => status[n] \in {"pending", "cancelled"}

\* While the run lasts, completed is closed under predecessors, and a layer
\* waits for completed nodes only.
Layers ==
    Walking =>
        /\ \A n \in completed : at[n] = "returned" /\ Preds(n) \subseteq completed
        /\ \A n \in layer : Preds(n) \subseteq completed
        /\ \A n \in Nodes : at[n] = "returned" => n \in completed \cup layer

\* Before a cancel a handler alone cancels its node, and nothing has happened
\* before the run.
Quiet ==
    /\ ~token => requested = {} /\ \A n \in Nodes : status[n] = "cancelled" => at[n] = "returned"
    /\ phase = "idle" => \A n \in Nodes : status[n] = "pending" /\ at[n] = "none"

\* What VerdictHonest says of the step in which run() returns.
Honest ==
    /\ \A n \in Nodes : at[n] \in {"none", "returned"}
    /\ phase' = "succeeded" =>
         \A n \in Nodes : status'[n] \in {"succeeded", "skipped"} \/ (status'[n] = "cancelled" /\ ~token')
    /\ phase' = "failed"    => Some(status', "failed")
    /\ phase' = "timed_out" => Some(status', "timed_out")
    /\ phase' = "cancelled" => token'

IInv ==
    TypeOK /\ Coroutines /\ Layers /\ Quiet /\ FailureStopsGraph /\ NeverStuck

(* Where a completed set is closed under predecessors and a node waits for *)
(* completed nodes only, all its ancestors are completed.                  *)
LEMMA AncestorsCompleted ==
    ASSUME NEW C \in SUBSET Nodes, \A k \in C : Preds(k) \subseteq C,
           NEW n \in Nodes, Preds(n) \subseteq C,
           NEW m \in Nodes, m # n, n \in Reach[m]
    PROVE  m \in C
<1> DEFINE S == {k \in Nodes : k \notin C /\ k # n}
<1>1. \A k \in S : Succs(k) \subseteq S
  BY DEF Preds, Succs
<1>2. S \in SUBSET Nodes /\ n \notin S
  OBVIOUS
<1>3. ~(m \in S)
  <2> HIDE DEF S
  <2> QED
    BY <1>1, <1>2 DEF Reach
<1> QED
  BY <1>3

(* So the properties follow from the invariant. *)
LEMMA IInvAncestors == IInv => AncestorsEnded
<1> SUFFICES ASSUME IInv, NEW n \in Nodes, at[n] \in Calls \cup {"sleeping"},
                    NEW m \in Nodes \ {n}, n \in Reach[m]
             PROVE  at[m] = "returned" /\ status[m] \in TERMINAL
  BY DEF AncestorsEnded
<1>1. Walking /\ n \in layer
  BY DEF IInv, Coroutines, Calls, Going
<1>2. completed \in SUBSET Nodes /\ (\A k \in completed : Preds(k) \subseteq completed)
      /\ Preds(n) \subseteq completed
  BY <1>1 DEF IInv, TypeOK, Layers
<1>3. m \in completed
  BY <1>2, AncestorsCompleted
<1> QED
  BY <1>1, <1>3 DEF IInv, Layers, Coroutines

(* The invariant holds before the run. *)
LEMMA InitIInv == Init => IInv
<1> SUFFICES ASSUME Init PROVE IInv
  OBVIOUS
<1>1. TypeOK
  <2>1. 0 \in 0..MaxAttempts
    BY AttemptsAssumption
  <2> QED
    BY <2>1 DEF Init, TypeOK, Places, Statuses
<1>2. Coroutines /\ Layers /\ Quiet /\ FailureStopsGraph /\ NeverStuck
  BY DEF Init, Coroutines, Layers, Quiet, FailureStopsGraph, NeverStuck, Going, Walking
<1> QED
  BY <1>1, <1>2 DEF IInv
-----------------------------------------------------------------------------
\* A layer is over, or none has begun: done are the nodes that have returned.
Between(done) ==
    /\ \A n \in Nodes : at[n] \in {"none", "returned"}
    /\ \A n \in Nodes : n \in done <=> at[n] = "returned"
    /\ \A n \in done : Preds(n) \subseteq done
    /\ phase \in {"idle", "running"}

(* Nodes that have not returned then have not begun. *)
LEMMA BetweenFacts ==
    ASSUME IInv, NEW done \in SUBSET Nodes, Between(done)
    PROVE  /\ \A n \in done : status[n] \in TERMINAL
           /\ \A n \in Nodes : status[n] \in Statuses
           /\ \A n \in Nodes \ done : status[n] \in {"pending", "cancelled"} /\ at[n] = "none"
           /\ ~token => \A n \in Nodes \ done : status[n] = "pending"
  BY DEF IInv, TypeOK, Coroutines, Quiet, Between

(* Advance keeps the invariant if no failure is left where that counts. *)
LEMMA AdvanceIInv ==
    ASSUME IInv, NEW done \in SUBSET Nodes, Between(done), Advance(done),
           UNCHANGED <<failFast, attempts, requested, token, lingering>>,
           failFast => \A n \in Nodes : status[n] # "failed"
    PROVE  IInv'
<1>a. /\ \A n \in done : status[n] \in TERMINAL
      /\ \A n \in Nodes : status[n] \in Statuses
      /\ \A n \in Nodes \ done : status[n] \in {"pending", "cancelled"} /\ at[n] = "none"
      /\ ~token => \A n \in Nodes \ done : status[n] = "pending"
  BY BetweenFacts
<1>b. "running" \notin Verdicts /\ "raised" \notin Verdicts /\ "idle" \notin Verdicts
      /\ \A sts : Verdict(sts) \in Verdicts
  BY DEF Verdict, Verdicts
<1>c. \A n \in Nodes : at[n] \in {"none", "returned"}
  BY DEF Between
<1>1. CASE phase' \in Verdicts /\ completed' \subseteq Nodes /\ layer' = {} /\ UNCHANGED <<status, at>>
  <2>1. TypeOK'
    BY <1>1 DEF IInv, TypeOK, Ended
  <2> QED
    BY <1>1, <1>b, <1>c, <2>1 DEF IInv, Coroutines, Layers, Quiet, FailureStopsGraph, NeverStuck, Going, Walking
<1>3. CASE /\ ~token
           /\ status' = [n \in Nodes |-> IF n \notin done /\ status[n] \notin TERMINAL
                                         THEN "timed_out" ELSE status[n]]
           /\ phase' = Verdict(status')
           /\ completed' = Nodes /\ layer' = {}
           /\ UNCHANGED at
  <2>1. \A n \in Nodes : /\ status'[n] \in TERMINAL
                         /\ status[n] \in TERMINAL => status'[n] = status[n]
                         /\ status'[n] = "cancelled" => status[n] = "cancelled"
    BY <1>3, <1>a DEF TERMINAL
  <2>2. phase' \in Verdicts /\ status' \in [Nodes -> Statuses]
    BY <1>3, <1>a, <1>b DEF Statuses, TERMINAL
  <2>4. TypeOK'
    BY <1>3, <2>2 DEF IInv, TypeOK, Ended
  <2>5. Coroutines' /\ Layers' /\ Quiet' /\ FailureStopsGraph' /\ NeverStuck'
    BY <1>3, <1>b, <1>c, <2>1, <2>2
    DEF IInv, Coroutines, Layers, Quiet, FailureStopsGraph, NeverStuck, Going, Walking
  <2> QED
    BY <2>4, <2>5 DEF IInv
<1>4. CASE /\ ~token /\ done # Nodes /\ phase' = "running" /\ completed' = done /\ layer' = Ready(done)
           /\ at' = [n \in Nodes |-> IF n \in Ready(done) THEN "created" ELSE at[n]]
           /\ UNCHANGED status
  <2>1. \A n \in Ready(done) : n \in Nodes \ done /\ Preds(n) \subseteq done /\ at[n] = "none"
    BY <1>a DEF Ready
  <2>2. TypeOK'
    BY <1>4, <2>1 DEF IInv, TypeOK, Ended, Places
  <2>6. Coroutines'
    BY <1>4, <1>a, <1>c, <2>1 DEF IInv, TypeOK, Coroutines, Between, Going, Walking
  <2>3. Layers'
    BY <1>4, <2>1 DEF Layers, Between
  <2>5. NeverStuck'
    <3>1. PICK n \in Nodes \ done : Preds(n) \cap (Nodes \ done) = {}
      BY <1>4, AcyclicAssumption DEF Advance
    <3>2. Preds(n) \subseteq done
      BY <3>1 DEF Preds
    <3>3. status[n] = "pending"
      BY <1>4, <1>a
    <3> QED
      BY <1>4, <3>2, <3>3 DEF Ready, NeverStuck, TERMINAL
  <2>4. Quiet'
    BY <1>4, <1>a, <1>c, <2>1 DEF IInv, Quiet
  <2>7. FailureStopsGraph'
    BY <1>4 DEF FailureStopsGraph
  <2> QED
    BY <2>2, <2>3, <2>4, <2>5, <2>6, <2>7 DEF IInv
<1> QED
  BY <1>1, <1>3, <1>4, <1>b DEF Advance, Verdicts

(* What Advance reports is so. *)
LEMMA AdvanceHonest ==
    ASSUME IInv, NEW done \in SUBSET Nodes, Between(done), Advance(done), token' = token,
           phase' \in Verdicts
    PROVE  Honest
<1>1. /\ \A n \in done : status[n] \in TERMINAL
      /\ \A n \in Nodes \ done : status[n] \in {"pending", "cancelled"}
  BY BetweenFacts
<1>2. CASE done = Nodes /\ phase' = Verdict(status) /\ status' = status
  BY <1>1, <1>2 DEF Between, Honest, Verdict, Some, TERMINAL
<1>3. CASE token /\ phase' = "cancelled"
  BY <1>3 DEF Between, Honest
<1>4. CASE /\ ~token /\ phase' = Verdict(status')
           /\ status' = [n \in Nodes |-> IF n \notin done /\ status[n] \notin TERMINAL
                                         THEN "timed_out" ELSE status[n]]
  <2>1. \A n \in Nodes : status'[n] \in TERMINAL
    BY <1>1, <1>4 DEF TERMINAL
  <2> QED
    BY <1>4, <2>1 DEF Between, Honest, Verdict, Some, TERMINAL
<1> QED
  BY <1>2, <1>3, <1>4 DEF Advance, Verdicts

(* A step of a coroutine to a place it may be in. *)
LEMMA GotoIInv ==
    ASSUME IInv, NEW n \in Nodes, at[n] \in {"created", "scheduled", "calling", "sleeping"},
           NEW place \in {"scheduled", "calling", "sleeping", "returned", "raised"}, NEW s \in Statuses,
           Goto(n, place, s), UNCHANGED runVars, lingering' \subseteq Nodes,
           NEW k \in 0..MaxAttempts, attempts' = [attempts EXCEPT ![n] = k],
           place = "sleeping" => k < MaxAttempts,
           place = "returned" => s \in TERMINAL,
           s = "cancelled" => token \/ place = "returned"
    PROVE  IInv'
<1>1. Walking /\ n \in layer
  BY DEF IInv, Coroutines, Going
<1>2. /\ at' = [at EXCEPT ![n] = place] /\ status' = [status EXCEPT ![n] = s]
      /\ UNCHANGED <<failFast, phase, requested, token, completed, layer>>
  BY DEF Goto, runVars
<1>3. TypeOK'
  BY <1>2 DEF IInv, TypeOK, Places, Calls
<1>4. Coroutines'
  BY <1>1, <1>2 DEF IInv, TypeOK, Coroutines, Going, Walking
<1>5. Layers'
  BY <1>1, <1>2 DEF IInv, TypeOK, Layers, Coroutines, Going, Walking
<1>6. Quiet' /\ FailureStopsGraph' /\ NeverStuck'
  BY <1>1, <1>2 DEF IInv, TypeOK, Quiet, FailureStopsGraph, NeverStuck, Walking
<1> QED
  BY <1>3, <1>4, <1>5, <1>6 DEF IInv

(* A cancel ends nodes that have not ended and nothing else. *)
LEMMA CancelledFacts ==
    ASSUME IInv, NEW targets \in SUBSET Nodes, NEW forced \in BOOLEAN,
           status' = Cancelled(targets, forced), requested' = Requested(targets)
    PROVE  /\ status' \in [Nodes -> Statuses] /\ requested' \subseteq Nodes
           /\ \A n \in Nodes : /\ status[n] \in TERMINAL => status'[n] = status[n]
                               /\ status'[n] \in {status[n], "cancelled"}
  BY DEF IInv, TypeOK, Cancelled, Requested, Statuses, TERMINAL
-----------------------------------------------------------------------------
(* Where run() goes on it is between two layers. *)
LEMMA RunBetween ==
    ASSUME IInv, Run
    PROVE  Between({}) /\ \A n \in Nodes : status[n] # "failed"
  BY DEF Run, IInv, Quiet, Between

LEMMA LayerBetween ==
    ASSUME IInv, phase = "running", \A n \in layer : at[n] = "returned"
    PROVE  /\ Between(completed \cup layer) /\ completed \cup layer \in SUBSET Nodes
           /\ \A n \in Nodes : at[n] \in {"none", "returned"}
<1>1. \A n \in Nodes : at[n] \in {"none", "returned"}
  BY DEF IInv, TypeOK, Coroutines, Places, Calls, Going
<1> QED
  BY <1>1 DEF IInv, TypeOK, Layers, Walking, Between

(* The fail-fast stop: what it does to the nodes. *)
LEMMA StopFacts ==
    ASSUME IInv, FailFastStop
    PROVE  /\ TypeOK' /\ token' /\ layer' = {} /\ phase' \in {"failed", "cancelled"}
           /\ UNCHANGED <<failFast, attempts, at, lingering>>
           /\ \A n \in Nodes : /\ status[n] \in TERMINAL => status'[n] = status[n]
                               /\ status'[n] \in {status[n], "cancelled"}
           /\ Some(status', "failed")
<1>1. PICK f \in layer, before \in SUBSET {n \in layer : status[n] # "failed"} :
        LET done == completed \cup before \cup {f} IN
        /\ status[f] = "failed"
        /\ token' = TRUE
        /\ status' = Cancelled(Nodes, FALSE)
        /\ requested' = Requested(Nodes)
        /\ completed' = done /\ layer' = {}
        /\ phase' = IF done = Nodes THEN "failed" ELSE "cancelled"
        /\ UNCHANGED <<failFast, attempts, at, lingering>>
  BY DEF FailFastStop
<1>2. /\ status' \in [Nodes -> Statuses] /\ requested' \subseteq Nodes
      /\ \A n \in Nodes : /\ status[n] \in TERMINAL => status'[n] = status[n]
                          /\ status'[n] \in {status[n], "cancelled"}
  BY <1>1, CancelledFacts
<1>3. completed' \subseteq Nodes /\ phase' \in {"failed", "cancelled"} /\ f \in Nodes
  BY <1>1 DEF IInv, TypeOK
<1>4. status'[f] = "failed"
  BY <1>1, <1>2, <1>3 DEF TERMINAL
<1>5. TypeOK'
  BY <1>1, <1>2, <1>3 DEF IInv, TypeOK, Ended, Verdicts
<1> QED
  BY <1>1, <1>2, <1>3, <1>4, <1>5 DEF Some

(* Every step keeps the invariant. *)
LEMMA NextIInv == IInv /\ [Next]_vars => IInv'
<1> SUFFICES ASSUME IInv, [Next]_vars PROVE IInv'
  OBVIOUS
<1>1. CASE Run
  BY <1>1, RunBetween, AdvanceIInv DEF Run
<1>2. CASE LayerEnd
  <2>1. phase = "running" /\ \A n \in layer : at[n] = "returned"
    BY <1>2 DEF LayerEnd
  <2>2. /\ Between(completed \cup layer) /\ completed \cup layer \in SUBSET Nodes
        /\ \A n \in Nodes : at[n] \in {"none", "returned"}
    BY <2>1, LayerBetween
  <2>3. CASE ~(failFast /\ \E n \in layer : status[n] = "failed")
    <3>1. Advance(completed \cup layer) /\ UNCHANGED <<failFast, attempts, requested, token, lingering>>
      BY <1>2, <2>3 DEF LayerEnd
    <3>2. failFast => \A n \in Nodes : status[n] # "failed"
      BY <2>1, <2>3 DEF IInv, FailureStopsGraph
    <3> QED
      BY <2>2, <3>1, <3>2, AdvanceIInv
  <2>4. CASE FailFastStop
    <3>1. Coroutines' /\ Layers' /\ Quiet' /\ FailureStopsGraph' /\ NeverStuck'
      BY <2>2, <2>4, StopFacts
      DEF IInv, Coroutines, Layers, Quiet, FailureStopsGraph, NeverStuck, Going, Walking
    <3> QED
      BY <2>4, <3>1, StopFacts DEF IInv
  <2> QED
    BY <1>2, <2>3, <2>4 DEF LayerEnd
<1>7. CASE RunRaises
  <2>1. TypeOK'
    BY <1>7 DEF RunRaises, IInv, TypeOK, Ended
  <2> QED
    BY <1>7, <2>1 DEF RunRaises, IInv, Coroutines, Layers, Quiet, FailureStopsGraph, NeverStuck, Going, Walking
<1>8. ASSUME NEW n \in Nodes, LingererEnds(n) PROVE IInv'
  BY <1>8 DEF LingererEnds, runVars, IInv, TypeOK, Coroutines, Layers, Quiet, FailureStopsGraph, NeverStuck,
     Going, Walking
<1>3. CASE Over
  BY <1>3 DEF Over, vars, IInv, TypeOK, Coroutines, Layers, Quiet, FailureStopsGraph, NeverStuck,
     Walking
<1>4. ASSUME NEW n \in Nodes, RunNode(n) PROVE IInv'
  <2>0. /\ attempts[n] \in 0..MaxAttempts
        /\ attempts' = attempts => attempts' = [attempts EXCEPT ![n] = attempts[n]]
        /\ requested # {} => token
        /\ {"pending", "running", "retrying"} \cup TERMINAL \subseteq Statuses
        /\ lingering \subseteq Nodes /\ lingering \cup {n} \subseteq Nodes
    BY DEF IInv, TypeOK, Quiet, Statuses
  <2>1. CASE NodeStart(n)
    <3>1. attempts[n] = 0 /\ 0 + 1 \in 0..MaxAttempts
      BY <2>1, AttemptsAssumption DEF NodeStart, IInv, Coroutines
    <3> QED
      BY <2>0, <2>1, <3>1, GotoIInv DEF NodeStart, TERMINAL
  <2>2. CASE CallReturns(n)
    BY <2>0, <2>2, GotoIInv DEF CallReturns, TERMINAL
  <2>7. CASE CallStarts(n)
    <3>1. /\ status' = [status EXCEPT ![n] = status[n]] /\ status[n] \in Statuses
          /\ status[n] = "cancelled" => token
      BY <2>7 DEF CallStarts, IInv, TypeOK, Quiet
    <3> QED
      BY <2>0, <2>7, <3>1, GotoIInv DEF CallStarts, Goto
  <2>3. CASE CallTimesOut(n)
    <3>1. lingering' \subseteq Nodes
      BY <2>0, <2>3 DEF CallTimesOut
    <3> QED
      BY <2>0, <2>3, <3>1, GotoIInv DEF CallTimesOut, RetryOr, TERMINAL, Calls
  <2>4. CASE CallRaises(n)
    BY <2>0, <2>4, GotoIInv DEF CallRaises, RetryOr, TERMINAL
  <2>5. CASE CallCancelled(n)
    BY <2>0, <2>5, GotoIInv DEF CallCancelled, TERMINAL, Calls
  <2>6. CASE Wake(n)
    <3>1. attempts[n] + 1 \in 0..MaxAttempts
      BY <2>0, <2>6, AttemptsAssumption DEF Wake, IInv, Coroutines
    <3> QED
      BY <2>0, <2>6, <3>1, GotoIInv DEF Wake, TERMINAL
  <2> QED
    BY <1>4, <2>1, <2>2, <2>3, <2>4, <2>5, <2>6, <2>7 DEF RunNode
<1>5. ASSUME NEW n \in Nodes, NEW mode \in Modes, NEW forced \in BOOLEAN, Cancel(mode, n, forced)
      PROVE  IInv'
  <2>1. Targets(mode, n) \in SUBSET Nodes
    BY DEF Targets, Reach
  <2>2. /\ status' \in [Nodes -> Statuses] /\ requested' \subseteq Nodes
        /\ \A k \in Nodes : /\ status[k] \in TERMINAL => status'[k] = status[k]
                            /\ status'[k] \in {status[k], "cancelled"}
    BY <1>5, <2>1, CancelledFacts DEF Cancel
  <2>3. TypeOK' /\ Coroutines' /\ Layers' /\ Quiet' /\ FailureStopsGraph' /\ NeverStuck'
    BY <1>5, <2>2 DEF Cancel, IInv, TypeOK, Coroutines, Layers, Quiet, FailureStopsGraph, NeverStuck, Walking
  <2> QED
    BY <2>3 DEF IInv
<1>6. CASE UNCHANGED vars
  BY <1>6 DEF vars, IInv, TypeOK, Coroutines, Layers, Quiet, FailureStopsGraph, NeverStuck,
     Walking
<1> QED
  BY <1>1, <1>2, <1>3, <1>4, <1>5, <1>6, <1>7, <1>8 DEF Next
-----------------------------------------------------------------------------
(* The invariant holds in every reachable state. *)
LEMMA Invariance == Spec => []IInv
<1>1. Init => IInv
  BY InitIInv
<1>2. IInv /\ [Next]_vars => IInv'
  BY NextIInv
<1> QED
  BY <1>1, <1>2, PTL DEF Spec

(* The run keeps its types, and no handler is called more often than       *)
(* max_attempts (RetryPolicy, _run_node).                                  *)
THEOREM TypeCorrect == Spec => []TypeOK
<1>1. IInv => TypeOK
  BY DEF IInv
<1> QED
  BY <1>1, Invariance, PTL

(* run() finds a node to start as long as the graph is not finished        *)
(* (ready_nodes; the branch for a graph that is stuck is unreachable).     *)
THEOREM NotStuck == Spec => []NeverStuck
<1>1. IInv => NeverStuck
  BY DEF IInv
<1> QED
  BY <1>1, Invariance, PTL

(* Every handler runs after all its ancestors, direct or not, have ended   *)
(* for good (ready_nodes and the gather barrier of run()).                 *)
THEOREM AncestorsFirst == Spec => []AncestorsEnded
<1>1. IInv => AncestorsEnded
  BY IInvAncestors
<1> QED
  BY <1>1, Invariance, PTL

(* When run() returns, its verdict agrees with the nodes, and no node is   *)
(* in a call.                                                              *)
THEOREM VerdictSafe == Spec => VerdictHonest
<1>1. IInv /\ [Next]_vars => [phase' \in Verdicts /\ phase' # phase => Honest]_vars
  <2> SUFFICES ASSUME IInv, Next, phase' \in Verdicts, phase' # phase PROVE Honest
    OBVIOUS
  <2>1. CASE Run
    BY <2>1, RunBetween, AdvanceHonest DEF Run
  <2>2. CASE LayerEnd
    <3>1. /\ Between(completed \cup layer) /\ completed \cup layer \in SUBSET Nodes
          /\ \A n \in Nodes : at[n] \in {"none", "returned"}
      BY <2>2, LayerBetween DEF LayerEnd
    <3>2. CASE FailFastStop
      BY <3>1, <3>2, StopFacts DEF Honest
    <3>3. CASE Advance(completed \cup layer) /\ token' = token
      BY <3>1, <3>3, AdvanceHonest
    <3> QED
      BY <2>2, <3>2, <3>3 DEF LayerEnd
  <2>3. CASE ~(Run \/ LayerEnd)
    BY <2>3 DEF Next, RunRaises, Over, vars, RunNode, NodeStart, CallStarts, CallReturns, CallTimesOut,
       CallRaises, CallCancelled, Wake, LingererEnds, runVars, Cancel, Verdicts
  <2> QED
    BY <2>1, <2>2, <2>3
<1> QED
  BY <1>1, Invariance, PTL DEF Spec, VerdictHonest, Honest

(* With fail_fast no layer follows one that had a failure.                 *)
THEOREM FailFastSafe == Spec => []FailureStopsGraph
<1>1. IInv => FailureStopsGraph
  BY DEF IInv
<1> QED
  BY <1>1, Invariance, PTL

(* After a cancel no attempt begins, neither the first of a node nor       *)
(* another one (throw_if_cancelled, _run_node).                            *)
THEOREM CancelSafe == Spec => NothingBeginsAfterCancel
<1> DEFINE A == token => \A n \in Nodes : at'[n] \in Calls => at[n] \in Calls
<1>1. IInv /\ [Next]_vars => [A]_vars
  <2> SUFFICES ASSUME IInv, Next, token, NEW n \in Nodes, at'[n] \in Calls
               PROVE  at[n] \in Calls
    OBVIOUS
  <2>1. at \in [Nodes -> Places]
    BY DEF IInv, TypeOK
  <2>2. CASE Run \/ LayerEnd \/ RunRaises \/ Over
    BY <2>1, <2>2 DEF Run, LayerEnd, RunRaises, Over, Advance, FailFastStop, vars, Calls
  <2>3. ASSUME NEW k \in Nodes, RunNode(k) \/ LingererEnds(k) PROVE at[n] \in Calls
    BY <2>1, <2>3 DEF RunNode, NodeStart, CallStarts, CallReturns, CallTimesOut, CallRaises, RetryOr,
       CallCancelled, Wake, Goto, LingererEnds, Calls
  <2>4. ASSUME NEW k \in Nodes, NEW mode \in Modes, NEW forced \in BOOLEAN, Cancel(mode, k, forced)
        PROVE  at[n] \in Calls
    BY <2>4 DEF Cancel
  <2> QED
    BY <2>2, <2>3, <2>4 DEF Next
<1> QED
  BY <1>1, Invariance, PTL DEF Spec, NothingBeginsAfterCancel
=============================================================================
