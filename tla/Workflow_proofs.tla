--------------------------- MODULE Workflow_proofs --------------------------
(***************************************************************************)
(* The order of a HAOE workflow, its cleanup and its checkpoints hold in   *)
(* every behaviour of Workflow: for any graph, checkpoints, number of      *)
(* attempts, cancels and crashes.                                          *)
(***************************************************************************)
EXTENDS Workflow, TLAPS

\* completed is the set of nodes that have ended in this run, or in the one
\* that wrote a checkpoint that this run has read.
Counted ==
    phase # "idle" => /\ outcome = "none"
                      /\ disk \ unread \subseteq completed
                      /\ \A n \in completed : state[n] = "COMPLETED"

\* The rest of a round may start: its predecessors stay completed, and no
\* result that is still to come is read by its conditions.
TodoReady ==
    /\ \A n \in todo : n \notin completed /\ n # cur /\ Preds(n) \subseteq completed /\ ~Denied(n)
    /\ phase \in {"idle", "round"} => todo = {}

CurReady ==
    IF phase \in {"try", "call", "save"}
    THEN /\ cur \in Nodes \ completed /\ Preds(cur) \subseteq completed
         /\ phase # "save" => ~Denied(cur)
         /\ phase = "save" => state[cur] = "COMPLETED"
    ELSE cur = None

RunningIsCur == \A n \in Nodes : state[n] = "RUNNING" => phase \in {"try", "call"} /\ n = cur

IInv == TypeOK /\ Counted /\ TodoReady /\ CurReady /\ RunningIsCur

(* A result cannot shut off a node that does not wait for it. *)
LEMMA DeniedKept ==
    ASSUME NEW n \in Nodes, ~Denied(n), NEW m, m \notin Preds(n), NEW v,
           context' = [context EXCEPT ![m] = v]
    PROVE  ~Denied(n)'
  BY GraphAssumption DEF Denied, Preds

(* The invariant holds before the first call of execute. *)
LEMMA InitIInv == Init => IInv
  BY BoundAssumption DEF Init, Fresh, IInv, TypeOK, Counted, TodoReady, CurReady, RunningIsCur

(* However execute ends, the invariant holds if no node is left running. *)
LEMMA EndIInv ==
    ASSUME IInv, NEW how \in {"returned", "raised", "cancelled", "died"}, End(how),
           disk' \subseteq Checkpointed,
           state' \in [Nodes -> {"QUEUED", "READY", "RUNNING", "COMPLETED", "FAILED", "CANCELLED"}],
           \A n \in Nodes : state'[n] # "RUNNING"
    PROVE  IInv'
  BY BoundAssumption DEF IInv, TypeOK, Counted, TodoReady, CurReady, RunningIsCur, End

(* Every step keeps the invariant. *)
LEMMA NextIInv == IInv /\ [Next]_vars => IInv'
<1> SUFFICES ASSUME IInv, [Next]_vars PROVE IInv'
  OBVIOUS
<1> USE DEF IInv
<1>1. CASE Execute
  <2>1. ~Denied(cur)' <=> ~Denied(cur)
    BY <1>1 DEF Execute, Denied
  <2> QED
    BY <1>1, GraphAssumption, BoundAssumption
    DEF Execute, TypeOK, Counted, TodoReady, CurReady, RunningIsCur
<1>2. CASE Round
  <2>1. CASE completed = Nodes /\ End("returned") /\ UNCHANGED state
    BY <1>2, <2>1, EndIInv DEF Round, TypeOK, RunningIsCur
  <2>2. CASE completed # Nodes /\ CancelRest /\ \E how \in {"returned", "cancelled"} : End(how)
    BY <1>2, <2>2, EndIInv DEF Round, CancelRest, TypeOK, RunningIsCur
  <2>4. CASE End("raised") /\ UNCHANGED state
    BY <1>2, <2>4, EndIInv DEF Round, TypeOK, RunningIsCur
  <2>3. CASE /\ Ready # {} /\ phase' = "node" /\ todo' = Ready
             /\ UNCHANGED <<state, context, completed, cur, attempt, shared, cancelled, unread, outcome, runs>>
    <3>1. \A n \in Nodes : Denied(n)' <=> Denied(n)
      BY <2>3 DEF Denied
    <3> QED
      <4>1. TypeOK' /\ Counted' /\ RunningIsCur'
        BY <1>2, <2>3 DEF Round, Ready, TypeOK, Counted, RunningIsCur
      <4>2. TodoReady' /\ CurReady'
        BY <1>2, <2>3, <3>1, NoneIsNoNode DEF Round, Ready, TypeOK, TodoReady, CurReady
      <4> QED
        BY <4>1, <4>2
  <2> QED
    BY <1>2, <2>1, <2>2, <2>3, <2>4 DEF Round
<1>3. CASE RoundEnds
  BY <1>3 DEF RoundEnds, locals, TypeOK, Counted, TodoReady, CurReady, RunningIsCur
<1>4. ASSUME NEW n \in Nodes, Begin(n) PROVE IInv'
  <2>1. CASE n \in Silent
    <3>1. \A m \in todo : m # n => ~Denied(m)'
      <4> SUFFICES ASSUME NEW m \in todo PROVE ~Denied(m)'
        OBVIOUS
      <4> QED
        BY <1>4, <2>1, DeniedKept DEF Begin, TypeOK, TodoReady
    <3> QED
      <4>1. TypeOK' /\ Counted' /\ RunningIsCur'
        BY <1>4, <2>1 DEF Begin, SetState, TypeOK, Counted, TodoReady, RunningIsCur
      <4>2. TodoReady' /\ CurReady'
        BY <1>4, <2>1, <3>1 DEF Begin, SetState, TypeOK, TodoReady, CurReady
      <4> QED
        BY <4>1, <4>2
  <2>2. CASE n \notin Silent /\ "task" \in cancelled
    BY <1>4, <2>2, EndIInv DEF Begin, SetState, TypeOK, RunningIsCur
  <2>3. CASE n \notin Silent /\ "task" \notin cancelled
    <3>1. \A m \in Nodes : Denied(m)' <=> Denied(m)
      BY <1>4, <2>3 DEF Begin, Denied
    <3> QED
      <4>1. TypeOK'
        <5>1. 0 \in 0..MaxAttempts
          BY BoundAssumption
        <5>2. state' = [state EXCEPT ![n] = "RUNNING"]
          BY <1>4, <2>3 DEF Begin, SetState
        <5> QED
          BY <1>4, <2>3, <5>1, <5>2 DEF Begin, TypeOK
      <4>2. Counted' /\ RunningIsCur'
        BY <1>4, <2>3 DEF Begin, SetState, TypeOK, Counted, TodoReady, RunningIsCur
      <4>3. TodoReady' /\ CurReady'
        BY <1>4, <2>3, <3>1 DEF Begin, TypeOK, TodoReady, CurReady
      <4> QED
        BY <4>1, <4>2, <4>3
  <2> QED
    BY <2>1, <2>2, <2>3
<1>5. CASE Try
  <2>1. CASE "task" \in cancelled /\ SetState(cur, "CANCELLED") /\ End("cancelled")
    BY <1>5, <2>1, EndIInv DEF Try, SetState, TypeOK, RunningIsCur, CurReady
  <2>2. CASE /\ phase' = "call"
             /\ UNCHANGED <<state, context, locals, shared, cancelled, unread, outcome, runs>>
    <3>1. \A m \in Nodes : Denied(m)' <=> Denied(m)
      BY <2>2 DEF Denied
    <3> QED
      BY <1>5, <2>2, <3>1 DEF Try, locals, TypeOK, Counted, TodoReady, CurReady, RunningIsCur
  <2> QED
    BY <1>5, <2>1, <2>2 DEF Try
<1>6. ASSUME NEW v \in {"yes", "no"}, CallReturns(v) PROVE IInv'
  <2>1. \A m \in todo : ~Denied(m)'
    BY <1>6, DeniedKept DEF CallReturns, TypeOK, TodoReady, CurReady
  <2> QED
    BY <1>6, <2>1 DEF CallReturns, SetState, locals, TypeOK, Counted, TodoReady, CurReady, RunningIsCur
<1>7. CASE CallRaises
  <2>1. CASE SetState(cur, "FAILED") /\ End("raised")
    BY <1>7, <2>1, EndIInv DEF CallRaises, SetState, TypeOK, RunningIsCur, CurReady
  <2>2. CASE /\ attempt + 1 < MaxAttempts /\ phase' = "try" /\ attempt' = attempt + 1
             /\ UNCHANGED <<state, context, completed, todo, cur, shared, cancelled, unread, outcome, runs>>
    <3>1. \A m \in Nodes : Denied(m)' <=> Denied(m)
      BY <2>2 DEF Denied
    <3> QED
      BY <1>7, <2>2, <3>1, BoundAssumption
      DEF CallRaises, TypeOK, Counted, TodoReady, CurReady, RunningIsCur
  <2> QED
    BY <1>7, <2>1, <2>2 DEF CallRaises
<1>8. CASE CallCancelled
  BY <1>8, EndIInv DEF CallCancelled, SetState, TypeOK, RunningIsCur, CurReady
<1>9. CASE Save
  <2>1. CASE /\ disk' = disk \cup ({cur} \cap Checkpointed)
             /\ completed' = completed \cup {cur} /\ cur' = None /\ phase' = "node"
             /\ unread' = unread \ {cur}
             /\ UNCHANGED <<context, todo, attempt, shared, cancelled, outcome, runs>>
    <3>1. \A m \in Nodes : Denied(m)' <=> Denied(m)
      BY <2>1 DEF Denied
    <3>2. state[cur] = "COMPLETED"
      BY <1>9 DEF Save, CurReady
    <3> QED
      BY <1>9, <2>1, <3>1, <3>2, NoneIsNoNode
      DEF Save, TypeOK, Counted, TodoReady, CurReady, RunningIsCur
  <2>2. CASE End("raised") /\ UNCHANGED <<state, disk>>
    BY <1>9, <2>2, EndIInv DEF Save, TypeOK, RunningIsCur
  <2> QED
    BY <1>9, <2>1, <2>2 DEF Save
<1>10. CASE Crash
  BY <1>10, EndIInv DEF Crash, TypeOK
<1>11. ASSUME NEW k \in {"loop", "task"}, Cancel(k) PROVE IInv'
  <2>1. \A m \in Nodes : Denied(m)' <=> Denied(m)
    BY <1>11 DEF Cancel, Denied
  <2> QED
    BY <1>11, <2>1 DEF Cancel, locals, TypeOK, Counted, TodoReady, CurReady, RunningIsCur
<1>12. CASE UNCHANGED vars
  <2>1. \A m \in Nodes : Denied(m)' <=> Denied(m)
    BY <1>12 DEF vars, Denied
  <2> QED
    BY <1>12, <2>1 DEF vars, locals, TypeOK, Counted, TodoReady, CurReady, RunningIsCur
<1> QED
  BY <1>1, <1>2, <1>3, <1>4, <1>5, <1>6, <1>7, <1>8, <1>9, <1>10, <1>11, <1>12
  DEF Next, RunStep, Idle

(* When no node is ready, the nodes that are not completed are shut off:   *)
(* one that is not waits for another that is not, and the graph has no     *)
(* cycle.                                                                  *)
LEMMA RestShutOff ==
    ASSUME completed \subseteq Nodes, Ready = {}, NEW n \in Nodes \ completed
    PROVE  ShutOff(n)
<1> SUFFICES ASSUME NEW S \in SUBSET Nodes,
                    \A m \in Nodes : Denied(m) \/ Preds(m) \cap S # {} => m \in S,
                    n \notin S
             PROVE  FALSE
  BY DEF ShutOff
<1> DEFINE T == (Nodes \ completed) \ S
<1>1. PICK m \in T : Preds(m) \cap T = {}
  <2>1. T \in SUBSET Nodes /\ T # {}
    OBVIOUS
  <2> HIDE DEF T
  <2> QED
    BY <2>1, AcyclicAssumption
<1>2. ~Denied(m) /\ Preds(m) \cap S = {}
  OBVIOUS
<1>3. Preds(m) \subseteq completed
  BY <1>1, <1>2 DEF Preds
<1> QED
  BY <1>2, <1>3 DEF Ready

(* Only a round returns. *)
LEMMA ReturnsStep == IInv /\ ReturnsWhole /\ [Next]_vars => ReturnsWhole'
<1> SUFFICES ASSUME IInv, ReturnsWhole, [Next]_vars, outcome' = "returned",
                    NEW n \in Nodes
             PROVE  state'[n] \in Terminal /\ (state'[n] # "COMPLETED" => ShutOff(n)')
  BY DEF ReturnsWhole
<1>1. CASE UNCHANGED vars
  BY <1>1 DEF vars, ReturnsWhole, ShutOff, Denied
<1>2. CASE Round
  <2>1. End("returned")
    BY <1>2 DEF Round, End, IInv, Counted
  <2>2. ShutOff(n) => ShutOff(n)'
    BY <2>1 DEF End, ShutOff, Denied
  <2>3. n \in completed => state[n] = "COMPLETED"
    BY <1>2 DEF Round, IInv, Counted
  <2>4. n \notin completed => ShutOff(n)
    BY <1>2, <2>1, RestShutOff DEF Round, End, IInv, TypeOK
  <2>5. CASE UNCHANGED state /\ completed = Nodes
    BY <2>3, <2>5 DEF Terminal
  <2>6. CASE CancelRest
    BY <2>2, <2>3, <2>4, <2>6 DEF CancelRest, Terminal
  <2> QED
    BY <1>2, <2>1, <2>5, <2>6 DEF Round, End
<1>3. CASE ~Round /\ vars' # vars
  BY <1>3 DEF Next, RunStep, Idle, vars, locals, Execute, RoundEnds, Begin, Try, CallReturns, CallRaises,
     CallCancelled, Save, Cancel, Crash, End, IInv, Counted
<1> QED
  BY <1>1, <1>2, <1>3
-----------------------------------------------------------------------------
(* The invariant holds in every reachable state. *)
LEMMA Invariance == Spec => []IInv
<1>1. Init => IInv
  BY InitIInv
<1>2. IInv /\ [Next]_vars => IInv'
  BY NextIInv
<1> QED
  BY <1>1, <1>2, PTL DEF Spec

(* Graph, run and disk keep their types; no task is tried more often than  *)
(* RetryPolicy.max_attempts allows.                                        *)
THEOREM TypeCorrect == Spec => []TypeOK
<1>1. IInv => TypeOK
  BY DEF IInv
<1> QED
  BY <1>1, Invariance, PTL

(* A function is called only after all its predecessors, in this run or in *)
(* the one that wrote their checkpoints, and only if its conditions hold   *)
(* (DependencyGraph.ready_nodes, WorkflowExecutor.execute).                *)
THEOREM OrderSafe == Spec => []RunsInOrder
<1>1. IInv => RunsInOrder
  BY DEF IInv, TypeOK, CurReady, Counted, RunsInOrder
<1> QED
  BY <1>1, Invariance, PTL

(* When execute returns, every node that has not ended is cancelled,       *)
(* and is one that a condition shuts off (WorkflowExecutor.execute).       *)
THEOREM ResultWhole == Spec => []ReturnsWhole
<1>1. Init => ReturnsWhole
  BY DEF Init, ReturnsWhole
<1> QED
  BY <1>1, ReturnsStep, Invariance, PTL DEF Spec

(* No run that ends, in whatever way, leaves a node RUNNING                *)
(* (TaskExecutor.execute).                                                 *)
THEOREM CleanupSafe == Spec => []NothingLeftRunning
<1>1. IInv => NothingLeftRunning
  BY DEF IInv, RunningIsCur, NothingLeftRunning
<1> QED
  BY <1>1, Invariance, PTL

(* A node with a checkpoint on disk is started again only in a run that    *)
(* could not read the checkpoint, and has not written it itself, through   *)
(* any number of crashes and resumed runs (WorkflowExecutor.execute).      *)
THEOREM ResumeSafe == Spec => SavedNotRepeated
<1>1. IInv' => (phase' = "try" => cur' \notin disk' \ unread')
  BY DEF IInv, CurReady, Counted
<1>2. [Next]_vars /\ phase' = "try" => disk' = disk /\ unread' = unread
  BY DEF Next, RunStep, Idle, vars, Execute, Round, RoundEnds, Begin, Try, CallReturns, CallRaises,
     CallCancelled, Save, Cancel, Crash, End
<1>3. IInv /\ [Next]_vars => [phase' = "try" => cur' \notin disk \ unread]_vars
  BY <1>1, <1>2, NextIInv
<1> QED
  BY <1>3, Invariance, PTL DEF Spec, SavedNotRepeated
=============================================================================
