--------------------------- MODULE Recovery_proofs --------------------------
(***************************************************************************)
(* The breakers of the recovery boundary are probed and close as they      *)
(* should, and its walk over the fallbacks is whole, in every behaviour of *)
(* Recovery: for any requests, backends, plans, threshold and retries.     *)
(***************************************************************************)
EXTENDS Recovery, TLAPS

Places == {"idle", "plan", "failure", "stamp", "walk", "clock", "lookup", "call", "success"}
Records == [failures : Nat, state : BreakerState, cooled : BOOLEAN]
Ways == {"refused", "missing", "failed"}

\* What the breakers are made of.
Tables ==
    /\ breaker \in [Backends \X Requests -> Records]
    /\ entry \in [Backends -> Requests \cup {"none"}]
    /\ missing \subseteq Requests
    /\ br \in [Requests -> Requests \cup {"none"}]

\* A thread that asks, calls or waits to call again has a target, and one
\* that calls the clock has a breaker.
HasTarget ==
    \A r \in Requests :
        /\ pc[r] \in {"clock", "lookup", "call", "success"} \/ attempt[r] > 0 => TargetLeft(r)
        /\ pc[r] \in {"clock", "stamp"} => br[r] # "none"

\* A degraded request has ended.
DegradedIsOver == \A r \in Requests : answer[r] = "degraded" => pc[r] = "idle"

Walks == HasTarget /\ DegradedIsOver /\ DegradedIsLast

IInv == TypeOK /\ Walks /\ ProbeUnderWay

(* What the steps write into a breaker. *)
LEMMA CoolEdit ==
    ASSUME NEW old \in Records, NEW c \in BOOLEAN
    PROVE  /\ [old EXCEPT !.cooled = c] \in Records
           /\ [old EXCEPT !.cooled = c].state = old.state
  BY DEF Records

LEMMA StateEdit ==
    ASSUME NEW old \in Records, NEW st \in BreakerState
    PROVE  /\ [old EXCEPT !.state = st] \in Records
           /\ [old EXCEPT !.state = st].state = st
  BY DEF Records

LEMMA FailureEdit ==
    ASSUME NEW old \in Records,
           NEW new, new = [old EXCEPT !.failures = old.failures + 1,
                                      !.state = IF \/ old.state = "half_open"
                                                   \/ old.failures + 1 >= FailureThreshold
                                                THEN "open" ELSE @]
    PROVE  /\ new \in Records /\ new.state # "half_open"
           /\ old.state # "closed" => new.state # "closed"
<1>1. old.failures + 1 \in Nat /\ old.state \in BreakerState
  BY DEF Records
<1>2. PICK st \in BreakerState :
         /\ new = [old EXCEPT !.failures = old.failures + 1, !.state = st]
         /\ st = IF \/ old.state = "half_open"
                    \/ old.failures + 1 >= FailureThreshold THEN "open" ELSE old.state
  BY <1>1 DEF BreakerState
<1>3. new \in Records /\ new.state = st
  BY <1>1, <1>2 DEF Records
<1> QED
  BY <1>1, <1>2, <1>3 DEF BreakerState

(* The walk is about backends of the plan. *)
LEMMA TargetType ==
    ASSUME TypeOK, NEW r \in Requests, TargetLeft(r)
    PROVE  Target(r) \in Backends
<1>1. Fallbacks[r] \in Seq(Backends) /\ Len(walked[r]) \in Nat
  BY RecoveryAssumption DEF TypeOK
<1>2. Len(walked[r]) + 1 \in 1..Len(Fallbacks[r])
  BY <1>1 DEF TargetLeft
<1> QED
  BY <1>1, <1>2 DEF Target

(* A failure is counted against a backend of the plan. *)
LEMMA SuspectType ==
    ASSUME TypeOK, HasTarget, NEW r \in Requests
    PROVE  Suspect(r) \in Backends
<1>1. attempt[r] > 0 => Target(r) \in Backends
  BY TargetType DEF HasTarget
<1>2. Primary[r] \in Backends
  BY RecoveryAssumption
<1>3. walked[r] # <<>> => Fallbacks[r][Len(walked[r])] \in Backends
  <2>1. /\ walked[r] \in Seq(Ways) /\ Fallbacks[r] \in Seq(Backends)
        /\ Len(walked[r]) <= Len(Fallbacks[r])
    BY RecoveryAssumption DEF TypeOK, Ways
  <2> QED
    BY <2>1
<1> QED
  BY <1>1, <1>2, <1>3 DEF Suspect

(* What _entry returns is a breaker of the backend asked for, and it is    *)
(* then the one that is stored (CircuitBreaker._entry).                    *)
LEMMA EntryFacts ==
    ASSUME TypeOK, NEW r \in Requests, Asked(r) \in Backends, Entered(r)
    PROVE  /\ Entry(r) = <<Asked(r), Entry(r)[2]>> /\ Entry(r)[2] \in Requests
           /\ Entry(r) \in Backends \X Requests
           /\ entry' = [entry EXCEPT ![Asked(r)] = Entry(r)[2]]
           /\ entry'[Asked(r)] = Entry(r)[2]
           /\ \A b \in Backends : b # Asked(r) => entry'[b] = entry[b]
           /\ entry' \in [Backends -> Requests \cup {"none"}] /\ missing' \subseteq Requests
           /\ entry[Asked(r)] # Entry(r)[2] => r \in missing /\ Entry(r)[2] = r
<1>1. entry \in [Backends -> Requests \cup {"none"}] /\ missing \subseteq Requests
  BY DEF TypeOK
<1>2. Entry(r) = <<Asked(r), Entry(r)[2]>> /\ Entry(r)[2] \in Requests
  BY <1>1 DEF Entered, Entry
<1>3. entry' = [entry EXCEPT ![Asked(r)] = Entry(r)[2]] /\ missing' = missing \ {r}
  BY DEF Entered
<1>4. entry[Asked(r)] # Entry(r)[2] => r \in missing /\ Entry(r)[2] = r
  BY DEF Entry
<1> QED
  BY <1>1, <1>2, <1>3, <1>4

(* A target that the walk leaves lengthens what it has walked by one. *)
LEMMA PassFacts ==
    ASSUME TypeOK, NEW r \in Requests, TargetLeft(r), NEW how \in Ways, Pass(r, how)
    PROVE  /\ DOMAIN walked' = Requests
           /\ walked'[r] \in Seq(Ways) /\ Len(walked'[r]) <= Len(Fallbacks[r])
           /\ \A q \in Requests : q # r => walked'[q] = walked[q]
           /\ attempt' = [attempt EXCEPT ![r] = 0]
<1>1. walked[r] \in Seq(Ways) /\ DOMAIN walked = Requests
  BY DEF TypeOK, Ways
<1>2. walked' = [walked EXCEPT ![r] = Append(walked[r], how)]
  BY DEF Pass
<1>3. walked'[r] = Append(walked[r], how)
  BY <1>1, <1>2
<1>4. Len(walked'[r]) = Len(walked[r]) + 1
  BY <1>1, <1>3
<1>5. Len(walked[r]) \in Nat /\ Len(Fallbacks[r]) \in Nat
  BY <1>1, RecoveryAssumption
<1>6. walked'[r] \in Seq(Ways)
  BY <1>1, <1>3
<1> QED
  BY <1>1, <1>2, <1>4, <1>5, <1>6 DEF TargetLeft, Pass

(* The invariant holds before the first request. *)
LEMMA InitIInv == Init => IInv
<1> SUFFICES ASSUME Init PROVE IInv
  OBVIOUS
<1>1. Closed \in Records
  BY DEF Closed, Records, BreakerState
<1>2. Tables
  BY <1>1 DEF Init, Tables
<1>3. \A r \in Requests : walked[r] \in Seq(Ways) /\ Len(walked[r]) <= Len(Fallbacks[r])
  <2> SUFFICES ASSUME NEW r \in Requests
               PROVE  walked[r] \in Seq(Ways) /\ Len(walked[r]) <= Len(Fallbacks[r])
    OBVIOUS
  <2>1. walked[r] = <<>> /\ <<>> \in Seq(Ways) /\ Len(<<>>) = 0
    BY DEF Init
  <2>2. Fallbacks[r] \in Seq(Backends) /\ Len(Fallbacks[r]) \in Nat
    BY RecoveryAssumption
  <2> QED
    BY <2>1, <2>2
<1>4. 0 \in 0..MaxRetries /\ 0 \in 0..MaxServed
  BY RecoveryAssumption
<1>5. TypeOK
  <2>1. /\ pc \in [Requests -> Places] /\ attempt \in [Requests -> 0..MaxRetries]
        /\ answer \in [Requests -> Backends \cup {"none", "unplanned", "degraded"}]
        /\ served \in [Requests -> 0..MaxServed] /\ DOMAIN walked = Requests
    BY <1>4 DEF Init, Places
  <2> QED
    BY <1>2, <1>3, <2>1 DEF TypeOK, Tables, Records, Ways, Places
<1>6. Walks
  BY DEF Init, Walks, HasTarget, DegradedIsOver, DegradedIsLast
<1>7. ProbeUnderWay
  BY DEF Init, ProbeUnderWay, State
<1> QED
  BY <1>5, <1>6, <1>7 DEF IInv
-----------------------------------------------------------------------------
\* A step of the thread of r keeps the types and touches no other request.
Own(r) ==
    /\ pc' \in [Requests -> Places]
    /\ DOMAIN walked' = Requests
    /\ walked'[r] \in Seq(Ways) /\ Len(walked'[r]) <= Len(Fallbacks[r])
    /\ attempt' \in [Requests -> 0..MaxRetries]
    /\ answer' \in [Requests -> Backends \cup {"none", "unplanned", "degraded"}]
    /\ served' \in [Requests -> 0..MaxServed]
    /\ \A q \in Requests : q # r => /\ pc'[q] = pc[q] /\ walked'[q] = walked[q]
                                    /\ attempt'[q] = attempt[q] /\ answer'[q] = answer[q]

\* Where the step leaves the walk of r.
Stands(r) ==
    /\ pc'[r] \in {"clock", "lookup", "call", "success"} \/ attempt'[r] > 0
          => Len(walked'[r]) < Len(Fallbacks[r])
    /\ answer'[r] = "degraded" => pc'[r] = "idle" /\ Len(walked'[r]) = Len(Fallbacks[r])

\* What the step of r makes of the breakers: one that is HALF_OPEN after it
\* was so before, and r did not probe it, or r probes it now.
Breaks(r) ==
    /\ Tables'
    /\ \A q \in Requests : q # r => br'[q] = br[q]
    /\ pc'[r] \in {"clock", "stamp"} => br'[r] # "none"
    /\ \A b \in Backends : State(b)' = "half_open" =>
          Probes(r, b)' \/ (State(b) = "half_open" /\ ~Probes(r, b))

(* So the invariant holds if the walk of r and the breakers are right. *)
LEMMA MoveIInv ==
    ASSUME IInv, NEW r \in Requests, Own(r), Stands(r), Breaks(r)
    PROVE  IInv'
<1>0. \A q \in Requests : walked'[q] \in Seq(Ways) /\ Len(walked'[q]) <= Len(Fallbacks[q])
  BY DEF IInv, TypeOK, Own, Ways
<1>1. TypeOK'
  BY <1>0 DEF TypeOK, Own, Breaks, Tables, Records, Places, Ways
<1>2. HasTarget'
  <2> SUFFICES ASSUME NEW q \in Requests
               PROVE  /\ pc'[q] \in {"clock", "lookup", "call", "success"} \/ attempt'[q] > 0
                            => Len(walked'[q]) < Len(Fallbacks[q])
                      /\ pc'[q] \in {"clock", "stamp"} => br'[q] # "none"
    BY DEF HasTarget, TargetLeft
  <2>1. CASE q = r
    BY <2>1 DEF Stands, Breaks
  <2>2. CASE q # r
    BY <2>2 DEF IInv, Walks, HasTarget, TargetLeft, Own, Breaks
  <2> QED
    BY <2>1, <2>2
<1>3. DegradedIsOver' /\ DegradedIsLast'
  BY DEF IInv, Walks, DegradedIsOver, DegradedIsLast, Own, Stands
<1>4. ProbeUnderWay'
  <2> SUFFICES ASSUME NEW b \in Backends, State(b)' = "half_open"
               PROVE  \E q \in Requests : Probes(q, b)'
    BY DEF ProbeUnderWay
  <2>1. CASE Probes(r, b)'
    BY <2>1
  <2>2. CASE State(b) = "half_open" /\ ~Probes(r, b)
    <3>1. PICK q \in Requests : Probes(q, b)
      BY <2>2 DEF IInv, ProbeUnderWay
    <3>2. q # r
      BY <2>2, <3>1
    <3>3. Probes(q, b)'
      BY <3>1, <3>2 DEF Own, Probes, Target, Suspect
    <3> QED
      BY <3>3
  <2> QED
    BY <2>1, <2>2 DEF Breaks
<1> QED
  BY <1>1, <1>2, <1>3, <1>4 DEF IInv, Walks

(* Where a step may leave r without having recorded the outcome of a probe:*)
(* only where it keeps probing.                                            *)
LEMMA IdleBreaks ==
    ASSUME IInv, NEW r \in Requests, UNCHANGED tables,
           pc'[r] \in {"clock", "stamp"} => pc[r] = pc'[r],
           \A b \in Backends : Probes(r, b) => Probes(r, b)'
    PROVE  Breaks(r)
<1>1. Tables'
  BY DEF IInv, TypeOK, Tables, tables, Records
<1>2. \A b \in Backends : State(b)' = State(b)
  BY DEF tables, State
<1> QED
  BY <1>1, <1>2 DEF Breaks, IInv, Walks, HasTarget, ProbeUnderWay, tables

(* Steps that leave the walk and the attempts as they are. *)
LEMMA StayIInv ==
    ASSUME IInv, NEW r \in Requests, pc[r] # "idle",
           NEW where \in Places, Goto(r, where), UNCHANGED <<walked, attempt, answer, served>>,
           where \in {"clock", "lookup", "call", "success"} => TargetLeft(r), Breaks(r)
    PROVE  IInv'
<1>1. pc \in [Requests -> Places] /\ pc' = [pc EXCEPT ![r] = where]
  BY DEF IInv, TypeOK, Places, Goto
<1>2. Own(r)
  BY <1>1 DEF IInv, TypeOK, Own, Ways
<1>3. Stands(r)
  BY <1>1 DEF IInv, Walks, HasTarget, DegradedIsOver, TargetLeft, Stands
<1> QED
  BY <1>2, <1>3, MoveIInv

(* Steps that end a request. *)
LEMMA AnswerIInv ==
    ASSUME IInv, NEW r \in Requests, NEW who \in Backends \cup {"unplanned", "degraded"},
           Answer(r, who), UNCHANGED <<walked, attempt, served>>,
           who = "degraded" => ~TargetLeft(r), Breaks(r)
    PROVE  IInv'
<1>1. /\ pc \in [Requests -> Places] /\ pc' = [pc EXCEPT ![r] = "idle"]
      /\ answer \in [Requests -> Backends \cup {"none", "unplanned", "degraded"}]
      /\ answer' = [answer EXCEPT ![r] = who]
  BY DEF IInv, TypeOK, Places, Answer, Goto
<1>2. Own(r)
  BY <1>1 DEF IInv, TypeOK, Own, Ways, Places
<1>3. walked[r] \in Seq(Ways) /\ Len(walked[r]) <= Len(Fallbacks[r])
      /\ Len(walked[r]) \in Nat /\ Len(Fallbacks[r]) \in Nat
  BY RecoveryAssumption DEF IInv, TypeOK, Ways
<1>4. Stands(r)
  BY <1>1, <1>3 DEF IInv, Walks, HasTarget, TargetLeft, Stands
<1> QED
  BY <1>2, <1>4, MoveIInv

(* Steps that turn to the next target. *)
LEMMA PassIInv ==
    ASSUME IInv, NEW r \in Requests, pc[r] \in {"clock", "lookup", "call"},
           NEW how \in Ways, Pass(r, how), UNCHANGED <<answer, served>>,
           NEW where \in {"failure", "walk"}, Goto(r, where), Breaks(r)
    PROVE  IInv'
<1>1. TargetLeft(r)
  BY DEF IInv, Walks, HasTarget
<1>2. /\ DOMAIN walked' = Requests
      /\ walked'[r] \in Seq(Ways) /\ Len(walked'[r]) <= Len(Fallbacks[r])
      /\ \A q \in Requests : q # r => walked'[q] = walked[q]
      /\ attempt' = [attempt EXCEPT ![r] = 0]
  BY <1>1, PassFacts DEF IInv
<1>3. 0 \in 0..MaxRetries
  BY RecoveryAssumption
<1>4. pc \in [Requests -> Places] /\ attempt \in [Requests -> 0..MaxRetries]
  BY DEF IInv, TypeOK, Places
<1>5. Own(r)
  BY <1>2, <1>3, <1>4 DEF IInv, TypeOK, Own, Places, Goto
<1>6. Stands(r)
  BY <1>2, <1>4 DEF IInv, Walks, DegradedIsOver, Stands, Goto
<1> QED
  BY <1>5, <1>6, MoveIInv

(* The target of a probe that has failed is the backend to count it for. *)
LEMMA PassProbes ==
    ASSUME IInv, NEW r \in Requests, pc[r] \in {"lookup", "call"}, NEW how \in Ways,
           Pass(r, how), Goto(r, "failure"), NEW b \in Backends, Probes(r, b)
    PROVE  Probes(r, b)'
<1>1. TargetLeft(r) /\ Target(r) = b
  BY DEF IInv, Walks, HasTarget, Probes
<1>2. /\ walked[r] \in Seq(Ways) /\ DOMAIN walked = Requests /\ attempt \in [Requests -> 0..MaxRetries]
      /\ pc \in [Requests -> Places]
  BY DEF IInv, TypeOK, Ways, Places
<1>3. walked'[r] = Append(walked[r], how) /\ attempt'[r] = 0 /\ pc'[r] = "failure"
  BY <1>2 DEF Pass, Goto
<1>4. Len(walked'[r]) = Len(walked[r]) + 1 /\ Len(walked[r]) \in Nat
  BY <1>2, <1>3
<1>5. walked'[r] # <<>>
  BY <1>4
<1>6. Suspect(r)' = b
  BY <1>1, <1>3, <1>4, <1>5 DEF Suspect, Target
<1> QED
  BY <1>3, <1>6 DEF Probes
-----------------------------------------------------------------------------
(* A step of r that writes breaker q of b, to a state that is HALF_OPEN     *)
(* only if r probes b then.                                                *)
Writes(r, b, q, new) ==
    /\ breaker' = [breaker EXCEPT ![<<b, q>>] = new]
    /\ entry' \in [Backends -> Requests \cup {"none"}] /\ missing' \subseteq Requests
    /\ \A c \in Backends : c # b => entry'[c] = entry[c]
    /\ br' \in [Requests -> Requests \cup {"none"}]
    /\ \A p \in Requests : p # r => br'[p] = br[p]
    /\ pc'[r] \in {"clock", "stamp"} => br'[r] # "none"
    /\ \A c \in Backends : Probes(r, c) => c = b \/ Probes(r, c)'
    /\ entry'[b] # q => entry'[b] = entry[b] /\ (Probes(r, b) => Probes(r, b)')
    /\ new.state = "half_open" =>
          \/ Probes(r, b)'
          \/ breaker[<<b, q>>].state = "half_open" /\ entry'[b] = entry[b] /\ ~Probes(r, b)

LEMMA WriteBreaks ==
    ASSUME IInv, NEW r \in Requests, NEW b \in Backends, NEW q \in Requests, NEW new \in Records,
           Writes(r, b, q, new)
    PROVE  Breaks(r)
<1>1. breaker \in [Backends \X Requests -> Records]
  BY DEF IInv, TypeOK, Records
<1>2. breaker' \in [Backends \X Requests -> Records]
  BY <1>1 DEF Writes
<1>3. Tables'
  BY <1>2 DEF Tables, Writes
<1>4. ASSUME NEW c \in Backends, State(c)' = "half_open"
      PROVE  Probes(r, c)' \/ (State(c) = "half_open" /\ ~Probes(r, c))
  <2>1. CASE c = b /\ entry'[b] = q
    <3>1. State(b)' = new.state
      BY <1>1, <1>4, <2>1 DEF State, Writes
    <3>2. entry'[b] = entry[b] => State(b) = breaker[<<b, q>>].state
      BY <1>4, <2>1 DEF State
    <3> QED
      BY <1>4, <2>1, <3>1, <3>2 DEF Writes
  <2>2. CASE c = b /\ entry'[b] # q
    <3>1. entry'[c] # "none" /\ entry'[c] = entry[c] /\ entry[c] \in Requests
      BY <1>4, <2>2 DEF State, IInv, TypeOK, Writes
    <3>2. State(c)' = State(c)
      BY <1>1, <2>2, <3>1 DEF State, Writes
    <3> QED
      BY <1>4, <2>2, <3>2 DEF Writes
  <2>3. CASE c # b
    <3>1. entry'[c] # "none" /\ entry'[c] = entry[c] /\ entry[c] \in Requests
      BY <1>4, <2>3 DEF State, IInv, TypeOK, Writes
    <3>2. State(c)' = State(c)
      BY <1>1, <2>3, <3>1 DEF State, Writes
    <3> QED
      BY <1>4, <2>3, <3>2 DEF Writes
  <2> QED
    BY <2>1, <2>2, <2>3
<1> QED
  BY <1>3, <1>4 DEF Breaks, Writes
(* The outcome of an _entry and what is done with it at once. *)
LEMMA EnterBreaks ==
    ASSUME IInv, NEW r \in Requests, NEW b \in Backends, Asked(r) = b, Entered(r),
           NEW new \in Records, breaker' = [breaker EXCEPT ![Entry(r)] = new],
           br' \in [Requests -> Requests \cup {"none"}],
           \A p \in Requests : p # r => br'[p] = br[p],
           pc'[r] \in {"clock", "stamp"} => br'[r] # "none",
           \A c \in Backends : Probes(r, c) => c = b,
           new.state = "half_open" => Probes(r, b)'
    PROVE  Breaks(r)
<1>1. PICK q \in Requests :
         /\ Entry(r) = <<b, q>> /\ entry'[b] = q
         /\ \A c \in Backends : c # b => entry'[c] = entry[c]
         /\ entry' \in [Backends -> Requests \cup {"none"}] /\ missing' \subseteq Requests
  BY EntryFacts DEF IInv
<1>2. breaker' = [breaker EXCEPT ![<<b, q>>] = new]
  BY <1>1
<1>3. Writes(r, b, q, new)
  BY <1>1, <1>2 DEF Writes
<1> QED
  BY <1>3, WriteBreaks

(* Every step keeps the invariant. *)
LEMMA NextIInv == IInv /\ [Next]_vars => IInv'
<1> SUFFICES ASSUME IInv, [Next]_vars PROVE IInv'
  OBVIOUS
<1>a. TypeOK /\ HasTarget /\ Tables /\ pc \in [Requests -> Places]
  BY DEF IInv, Walks, TypeOK, Tables, Records, Places
<1>b. \A r \in Requests :
         /\ Primary[r] \in Backends /\ Suspect(r) \in Backends
         /\ TargetLeft(r) => Target(r) \in Backends
         /\ pc[r] \in {"clock", "lookup", "call", "success"} => TargetLeft(r)
  BY <1>a, TargetType, SuspectType, RecoveryAssumption DEF HasTarget
<1>c. \A e \in Backends \X Requests : breaker[e] \in Records
  BY <1>a DEF Tables
<1>1. ASSUME NEW r \in Requests, Arrive(r) PROVE IInv'
  <2>1. /\ attempt \in [Requests -> 0..MaxRetries]
        /\ answer \in [Requests -> Backends \cup {"none", "unplanned", "degraded"}]
        /\ served \in [Requests -> 0..MaxServed] /\ DOMAIN walked = Requests
    BY <1>a DEF TypeOK, Places
  <2>2. <<>> \in Seq(Ways) /\ Len(<<>>) <= Len(Fallbacks[r]) /\ 0 \in 0..MaxRetries
    BY RecoveryAssumption
  <2>3. served[r] + 1 \in 0..MaxServed
    BY <1>1, <2>1, RecoveryAssumption DEF Arrive
  <2>4. Own(r)
    BY <1>1, <1>a, <2>1, <2>2, <2>3 DEF Arrive, Goto, Own, Places
  <2>5. Stands(r)
    BY <1>1, <1>a, <2>1 DEF Arrive, Goto, Stands
  <2>6. Breaks(r)
    BY <1>1, <1>a, IdleBreaks DEF Arrive, Goto, Probes
  <2> QED
    BY <2>4, <2>5, <2>6, MoveIInv
<1>2. ASSUME NEW r \in Requests, PlanFails(r) PROVE IInv'
  <2>1. Breaks(r)
    BY <1>2, <1>a, IdleBreaks DEF PlanFails, Answer, Goto, Probes
  <2> QED
    BY <1>2, <2>1, AnswerIInv DEF PlanFails
<1>3. ASSUME NEW r \in Requests, PrimarySucceeds(r) PROVE IInv'
  <2>1. Breaks(r)
    BY <1>3, <1>a, IdleBreaks DEF PrimarySucceeds, Answer, Goto, Probes
  <2> QED
    BY <1>3, <1>b, <2>1, AnswerIInv, AnswersDistinct DEF PrimarySucceeds
<1>4. ASSUME NEW r \in Requests, PrimaryFails(r) PROVE IInv'
  <2>1. Breaks(r)
    BY <1>4, <1>a, IdleBreaks DEF PrimaryFails, Goto, Probes
  <2> QED
    BY <1>4, <2>1, StayIInv DEF PrimaryFails, Places
<1>5. ASSUME NEW r \in Requests, EntryMissing(r) PROVE IInv'
  <2>1. Tables' /\ \A b \in Backends : State(b)' = State(b)
    BY <1>5, <1>a DEF EntryMissing, Tables, State
  <2>2. \A q \in Requests, b \in Backends : Probes(q, b)' = Probes(q, b)
    BY <1>5 DEF EntryMissing, Probes, Target, Suspect
  <2>3. TypeOK' /\ Walks'
    BY <1>5, <2>1 DEF EntryMissing, IInv, TypeOK, Tables, Records, Walks, HasTarget, TargetLeft,
       DegradedIsOver, DegradedIsLast
  <2> QED
    BY <2>1, <2>2, <2>3 DEF IInv, ProbeUnderWay
<1>6. ASSUME NEW r \in Requests, RecordFailure(r) PROVE IInv'
  <2> DEFINE old == breaker[Entry(r)]
             n == old.failures + 1
             trips == old.state = "half_open" \/ n >= FailureThreshold
             new == [old EXCEPT !.failures = n, !.state = IF trips THEN "open" ELSE @]
  <2>1. Asked(r) = Suspect(r) /\ Suspect(r) \in Backends /\ Entered(r)
    BY <1>6, <1>b DEF RecordFailure, Asked
  <2>2. Entry(r) \in Backends \X Requests /\ Entry(r)[2] \in Requests
    BY <1>a, <2>1, EntryFacts
  <2>3. old \in Records
    BY <1>c, <2>2
  <2>4. new \in Records /\ new.state # "half_open"
    <3> HIDE DEF old, new
    <3>1. new = [old EXCEPT !.failures = old.failures + 1,
                            !.state = IF \/ old.state = "half_open"
                                         \/ old.failures + 1 >= FailureThreshold
                                      THEN "open" ELSE @]
      BY DEF new
    <3> QED
      BY <2>3, <3>1, FailureEdit
  <2>5. breaker' = [breaker EXCEPT ![Entry(r)] = new]
    BY <1>6 DEF RecordFailure
  <2>6. \/ CallClock(r, "stamp")
        \/ GoOn(r, AfterFailure(r))
    BY <1>6 DEF RecordFailure
  <2>7. UNCHANGED <<walked, attempt, answer, served>> /\ pc[r] = "failure"
    BY <1>6 DEF RecordFailure
  <2> HIDE DEF new
  <2>0. PICK b \in Backends : Asked(r) = b
    BY <2>1
  <2>8. \A c \in Backends : Probes(r, c) => c = b
    BY <2>0, <2>1, <2>7 DEF Probes
  <2>9. CASE CallClock(r, "stamp")
    <3>1. Breaks(r)
      BY <1>a, <2>0, <2>1, <2>2, <2>4, <2>5, <2>8, <2>9, EnterBreaks, NoneIsNobody DEF CallClock, Goto, Tables
    <3> QED
      BY <2>7, <2>9, <3>1, StayIInv DEF CallClock, Places
  <2>10. CASE GoOn(r, AfterFailure(r))
    <3>0. AfterFailure(r) \in {"call", "walk"} /\ (AfterFailure(r) = "call" => TargetLeft(r))
      BY <1>a DEF AfterFailure, HasTarget
    <3>1. Breaks(r)
      BY <1>a, <2>0, <2>1, <2>4, <2>5, <2>8, <2>10, <3>0, EnterBreaks DEF GoOn, Goto, Tables
    <3> QED
      BY <2>7, <2>10, <3>0, <3>1, StayIInv DEF GoOn, Places
  <2> QED
    BY <2>6, <2>9, <2>10
<1>7. ASSUME NEW r \in Requests, Stamp(r) PROVE IInv'
  <2>1. PICK b \in Backends, q \in Requests : Suspect(r) = b /\ br[r] = q
    BY <1>7, <1>a, <1>b DEF Stamp, HasTarget, Tables
  <2> DEFINE new == [breaker[<<b, q>>] EXCEPT !.cooled = FALSE]
  <2>2. new \in Records /\ new.state = breaker[<<b, q>>].state
    BY <1>c, <2>1, CoolEdit
  <2>3. breaker' = [breaker EXCEPT ![<<b, q>>] = new] /\ UNCHANGED <<entry, missing>>
    BY <1>7, <2>1 DEF Stamp
  <2>4. /\ UNCHANGED <<walked, attempt, answer, served>> /\ pc[r] = "stamp"
        /\ GoOn(r, AfterFailure(r))
    BY <1>7 DEF Stamp
  <2>5. AfterFailure(r) \in {"call", "walk"} /\ (AfterFailure(r) = "call" => TargetLeft(r))
    BY <1>a DEF AfterFailure, HasTarget
  <2>6. \A c \in Backends : ~Probes(r, c)
    BY <2>4 DEF Probes
  <2> HIDE DEF new
  <2>7. Writes(r, b, q, new)
    BY <1>a, <2>2, <2>3, <2>4, <2>5, <2>6 DEF GoOn, Goto, Tables, Writes
  <2>8. Breaks(r)
    BY <2>1, <2>2, <2>7, WriteBreaks
  <2> QED
    BY <2>4, <2>5, <2>8, StayIInv DEF GoOn, Places
<1>8. ASSUME NEW r \in Requests, RecordSuccess(r) PROVE IInv'
  <2>1. Asked(r) = Target(r) /\ Target(r) \in Backends /\ Entered(r) /\ pc[r] = "success"
    BY <1>8, <1>b DEF RecordSuccess, Asked
  <2>2. Closed \in Records /\ Closed.state # "half_open"
    BY DEF Closed, Records, BreakerState
  <2>0. PICK b \in Backends : Asked(r) = b
    BY <2>1
  <2>3. \A c \in Backends : Probes(r, c) => c = b
    BY <2>0, <2>1 DEF Probes
  <2>4. Breaks(r)
    BY <1>8, <1>a, <2>0, <2>1, <2>2, <2>3, EnterBreaks DEF RecordSuccess, Answer, Goto, Tables
  <2> QED
    BY <1>8, <2>1, <2>4, AnswerIInv, AnswersDistinct DEF RecordSuccess
<1>9. ASSUME NEW r \in Requests, Ask(r) PROVE IInv'
  <2>1. /\ Asked(r) = Target(r) /\ Target(r) \in Backends /\ Entered(r) /\ TargetLeft(r)
        /\ pc[r] = "walk" /\ UNCHANGED <<breaker, walked, attempt, answer, served>>
    BY <1>9, <1>b DEF Ask, Asked
  <2>2. Entry(r) \in Backends \X Requests /\ Entry(r)[2] \in Requests
    BY <1>a, <2>1, EntryFacts
  <2>3. /\ breaker[Entry(r)] \in Records
        /\ breaker' = [breaker EXCEPT ![Entry(r)] = breaker[Entry(r)]]
    BY <1>a, <1>c, <2>1, <2>2 DEF Tables
  <2>4. \A c \in Backends : ~Probes(r, c)
    BY <2>1 DEF Probes
  <2>0. PICK b \in Backends : Asked(r) = b
    BY <2>1
  <2>5. CASE breaker[Entry(r)].state = "open"
    <3>1. CallClock(r, "clock")
      BY <1>9, <2>5 DEF Ask
    <3>2. Breaks(r)
      BY <1>a, <2>0, <2>1, <2>2, <2>3, <2>4, <2>5, <3>1, EnterBreaks, NoneIsNobody DEF CallClock, Goto, Tables
    <3> QED
      BY <2>1, <3>1, <3>2, StayIInv DEF CallClock, Places
  <2>6. CASE breaker[Entry(r)].state # "open"
    <3>1. GoOn(r, "lookup")
      BY <1>9, <2>6 DEF Ask
    <3>2. Probes(r, b)'
      BY <1>a, <2>0, <2>1, <3>1 DEF GoOn, Goto, Probes, Target
    <3>3. Breaks(r)
      BY <1>a, <2>0, <2>1, <2>2, <2>3, <2>4, <3>1, <3>2, EnterBreaks DEF GoOn, Goto, Tables
    <3> QED
      BY <2>1, <3>1, <3>3, StayIInv DEF GoOn, Places
  <2> QED
    BY <2>5, <2>6
<1>10. ASSUME NEW r \in Requests, LetThrough(r) PROVE IInv'
  <2>1. PICK b \in Backends, q \in Requests : Target(r) = b /\ br[r] = q /\ TargetLeft(r)
    BY <1>10, <1>a, <1>b DEF LetThrough, HasTarget, Tables
  <2> DEFINE new == [breaker[<<b, q>>] EXCEPT !.state = "half_open"]
  <2>2. new \in Records
    BY <1>c, <2>1 DEF Records, BreakerState
  <2>3. /\ breaker' = [breaker EXCEPT ![<<b, q>>] = new] /\ UNCHANGED <<entry, missing>>
        /\ UNCHANGED <<walked, attempt, answer, served>> /\ pc[r] = "clock" /\ GoOn(r, "lookup")
    BY <1>10, <2>1 DEF LetThrough
  <2>4. Probes(r, b)' /\ \A c \in Backends : ~Probes(r, c)
    BY <1>a, <2>1, <2>3 DEF GoOn, Goto, Probes, Target
  <2> HIDE DEF new
  <2>5. Writes(r, b, q, new)
    BY <1>a, <2>3, <2>4 DEF GoOn, Goto, Tables, Writes
  <2>6. Breaks(r)
    BY <2>1, <2>2, <2>5, WriteBreaks
  <2> QED
    BY <2>1, <2>3, <2>6, StayIInv DEF GoOn, Places
<1>11. ASSUME NEW r \in Requests, Refuse(r) PROVE IInv'
  <2>1. /\ UNCHANGED <<breaker, entry, missing, answer, served>> /\ Pass(r, "refused")
        /\ GoOn(r, "walk") /\ pc[r] = "clock"
    BY <1>11 DEF Refuse
  <2>2. \A c \in Backends : State(c)' = State(c) /\ ~Probes(r, c)
    BY <2>1 DEF State, Probes
  <2>3. Breaks(r)
    BY <1>a, <2>1, <2>2 DEF GoOn, Goto, Tables, Breaks
  <2> QED
    BY <2>1, <2>3, PassIInv DEF GoOn, Ways
<1>12. ASSUME NEW r \in Requests, Lookup(r) PROVE IInv'
  <2>1. Breaks(r)
    BY <1>12, <1>a, IdleBreaks DEF Lookup, Goto, Probes, Target
  <2> QED
    BY <1>12, <1>b, <2>1, StayIInv DEF Lookup, Places
<1>13. ASSUME NEW r \in Requests, LookupMissing(r) PROVE IInv'
  <2>1. \A b \in Backends : Probes(r, b) => Probes(r, b)'
    BY <1>13, PassProbes DEF LookupMissing, Ways
  <2>2. Breaks(r)
    BY <1>13, <1>a, <2>1, IdleBreaks DEF LookupMissing, Goto
  <2> QED
    BY <1>13, <2>2, PassIInv DEF LookupMissing, Ways
<1>14. ASSUME NEW r \in Requests, Degrade(r) PROVE IInv'
  <2>1. Breaks(r)
    BY <1>14, <1>a, IdleBreaks DEF Degrade, Answer, Goto, Probes
  <2> QED
    BY <1>14, <2>1, AnswerIInv DEF Degrade
<1>15. ASSUME NEW r \in Requests, CallSucceeds(r) PROVE IInv'
  <2>1. Breaks(r)
    BY <1>15, <1>a, IdleBreaks DEF CallSucceeds, Goto, Probes, Target
  <2> QED
    BY <1>15, <1>b, <2>1, StayIInv DEF CallSucceeds, Places
<1>16. ASSUME NEW r \in Requests, CallFailsRetryable(r) PROVE IInv'
  <2>1. attempt \in [Requests -> 0..MaxRetries]
    BY <1>a DEF TypeOK, Places
  <2>2. attempt[r] + 1 \in 0..MaxRetries /\ attempt[r] + 1 > 0
    BY <1>16, <2>1, RecoveryAssumption DEF CallFailsRetryable
  <2>3. Own(r)
    BY <1>16, <1>a, <2>1, <2>2 DEF CallFailsRetryable, TypeOK, Own, Places, Ways, Goto
  <2>4. Stands(r)
    BY <1>16, <1>a, <1>b, <2>1 DEF CallFailsRetryable, IInv, Walks, DegradedIsOver, TargetLeft, Stands, Goto
  <2>5. \A b \in Backends : Probes(r, b) => Probes(r, b)'
    BY <1>16, <1>a, <2>1, <2>2 DEF CallFailsRetryable, Goto, Probes, Suspect, Target
  <2>6. Breaks(r)
    BY <1>16, <1>a, <2>5, IdleBreaks DEF CallFailsRetryable, Goto
  <2> QED
    BY <2>3, <2>4, <2>6, MoveIInv
<1>17. ASSUME NEW r \in Requests, CallFailsForGood(r) PROVE IInv'
  <2>1. \A b \in Backends : Probes(r, b) => Probes(r, b)'
    BY <1>17, PassProbes DEF CallFailsForGood, Ways
  <2>2. Breaks(r)
    BY <1>17, <1>a, <2>1, IdleBreaks DEF CallFailsForGood, Goto
  <2> QED
    BY <1>17, <2>2, PassIInv DEF CallFailsForGood, Ways
<1>18. ASSUME NEW b \in Backends, WindowEnds(b) PROVE IInv'
  <2>1. PICK q \in Requests : breaker' = [breaker EXCEPT ![<<b, q>>].cooled = TRUE]
    BY <1>18 DEF WindowEnds
  <2> DEFINE new == [breaker[<<b, q>>] EXCEPT !.cooled = TRUE]
  <2>2. new \in Records /\ new.state = breaker[<<b, q>>].state
    BY <1>c, CoolEdit
  <2>3. breaker' = [breaker EXCEPT ![<<b, q>>] = new]
    BY <2>1
  <2> HIDE DEF new
  <2>4. /\ breaker' \in [Backends \X Requests -> Records]
        /\ \A e \in Backends \X Requests : breaker'[e].state = breaker[e].state
    BY <1>a, <2>2, <2>3 DEF Tables
  <2>5. UNCHANGED <<entry, missing, br, pc, walked, attempt, answer, served>>
    BY <1>18 DEF WindowEnds
  <2>6. \A c \in Backends : State(c)' = State(c)
    BY <1>a, <2>4, <2>5 DEF State, Tables
  <2>7. \A p \in Requests, c \in Backends : Probes(p, c)' = Probes(p, c)
    BY <2>5 DEF Probes, Target, Suspect
  <2>8. TypeOK' /\ Walks'
    BY <2>4, <2>5 DEF IInv, TypeOK, Records, Walks, HasTarget, TargetLeft, DegradedIsOver, DegradedIsLast
  <2> QED
    BY <2>6, <2>7, <2>8 DEF IInv, ProbeUnderWay
<1>19. CASE UNCHANGED vars
  <2>1. TypeOK' /\ Walks'
    BY <1>19 DEF vars, tables, IInv, TypeOK, Walks, HasTarget, TargetLeft, DegradedIsOver, DegradedIsLast
  <2>2. ProbeUnderWay'
    BY <1>19 DEF vars, tables, IInv, ProbeUnderWay, State, Probes, Target, Suspect
  <2> QED
    BY <2>1, <2>2 DEF IInv
<1> QED
  BY <1>1, <1>2, <1>3, <1>4, <1>5, <1>6, <1>7, <1>8, <1>9, <1>10, <1>11, <1>12, <1>13, <1>14,
     <1>15, <1>16, <1>17, <1>18, <1>19
  DEF Next, Plan, Walk, CallEnds
-----------------------------------------------------------------------------
(* The invariant holds in every reachable state. *)
LEMMA Invariance == Spec => []IInv
<1>1. Init => IInv
  BY InitIInv
<1>2. IInv /\ [Next]_vars => IInv'
  BY NextIInv
<1> QED
  BY <1>1, <1>2, PTL DEF Spec

(* Breakers and requests keep their types, and no target is tried more     *)
(* often than max_retries allows (RetryManager.should_retry).              *)
THEOREM TypeCorrect == Spec => []TypeOK
<1>1. IInv => TypeOK
  BY DEF IInv
<1> QED
  BY <1>1, Invariance, PTL

(* No breaker stays HALF_OPEN without a thread that has been let through   *)
(* and has its outcome to record, whatever the threads do to each other's  *)
(* breakers in _entry, allow and record_failure.                           *)
THEOREM ProbesEnd == Spec => []ProbeUnderWay
<1>1. IInv => ProbeUnderWay
  BY DEF IInv
<1> QED
  BY <1>1, Invariance, PTL

(* No request is answered in degraded mode while a fallback of its plan is *)
(* untried (RecoveryStack.handle_failure).                                 *)
THEOREM WalkIsWhole == Spec => []DegradedIsLast
<1>1. IInv => DegradedIsLast
  BY DEF IInv, Walks
<1> QED
  BY <1>1, Invariance, PTL

(* A breaker that has opened is found CLOSED again only after a success of *)
(* its backend, or because a thread that had looked for it before it       *)
(* existed stores its own (CircuitBreaker._entry).                         *)
THEOREM BreakersClose == Spec => ClosesOnSuccess
<1> DEFINE Cause(b) == \E r \in Requests : \/ pc[r] = "success" /\ answer'[r] = b
                                           \/ r \in missing /\ entry'[b] = r
           A == \A b \in Backends : State(b) # "closed" /\ State(b)' = "closed" => Cause(b)
<1>1. IInv /\ [Next]_vars => [A]_vars
  <2> SUFFICES ASSUME IInv, Next, NEW b \in Backends, State(b) # "closed", State(b)' = "closed"
               PROVE  Cause(b)
    BY DEF vars
  <2>0. /\ breaker \in [Backends \X Requests -> Records] /\ TypeOK /\ HasTarget
        /\ entry[b] \in Requests /\ State(b) = breaker[<<b, entry[b]>>].state
        /\ \A e \in Backends \X Requests : breaker[e] \in Records
    BY DEF IInv, Walks, TypeOK, Records, State
  <2>1. ASSUME UNCHANGED <<breaker, entry>> PROVE FALSE
    BY <2>1 DEF State
  <2>2. ASSUME NEW r \in Requests, Asked(r) \in Backends, Entered(r), entry'[b] # entry[b]
        PROVE  Cause(b)
    BY <2>0, <2>2, EntryFacts
  <2>3. ASSUME entry'[b] = entry[b], NEW e \in Backends \X Requests, NEW new \in Records,
               breaker' = [breaker EXCEPT ![e] = new], breaker[e].state # "closed" => new.state # "closed"
        PROVE  FALSE
    <3>1. breaker'[<<b, entry[b]>>] = IF e = <<b, entry[b]>> THEN new ELSE breaker[<<b, entry[b]>>]
      BY <2>0, <2>3
    <3>2. State(b)' = breaker'[<<b, entry[b]>>].state
      BY <2>0, <2>3, NoneIsNobody DEF State
    <3> QED
      BY <2>0, <2>3, <3>1, <3>2
  <2>4. ASSUME NEW r \in Requests, RecordFailure(r) PROVE Cause(b)
    <3> DEFINE old == breaker[Entry(r)]
               n == old.failures + 1
               trips == old.state = "half_open" \/ n >= FailureThreshold
               new == [old EXCEPT !.failures = n, !.state = IF trips THEN "open" ELSE @]
    <3>1. Asked(r) \in Backends /\ Entered(r) /\ breaker' = [breaker EXCEPT ![Entry(r)] = new]
      BY <2>0, <2>4, SuspectType DEF RecordFailure, Asked
    <3>2. Entry(r) \in Backends \X Requests
      BY <2>0, <3>1, EntryFacts
    <3>3. new \in Records /\ (old.state # "closed" => new.state # "closed")
      <4>1. old \in Records
        BY <2>0, <3>2
      <4> HIDE DEF old, new
      <4>2. new = [old EXCEPT !.failures = old.failures + 1,
                              !.state = IF \/ old.state = "half_open"
                                           \/ old.failures + 1 >= FailureThreshold
                                        THEN "open" ELSE @]
        BY DEF new
      <4> QED
        BY <4>1, <4>2, FailureEdit
    <3> HIDE DEF new
    <3> QED
      BY <2>2, <2>3, <3>1, <3>2, <3>3
  <2>5. ASSUME NEW r \in Requests, RecordSuccess(r) PROVE Cause(b)
    <3>1. /\ Asked(r) = Target(r) /\ Target(r) \in Backends /\ Entered(r) /\ pc[r] = "success"
          /\ answer'[r] = Target(r) /\ breaker' = [breaker EXCEPT ![Entry(r)] = Closed]
      BY <2>0, <2>5, TargetType DEF RecordSuccess, Asked, Answer, HasTarget, TypeOK
    <3>2. Entry(r) = <<Asked(r), Entry(r)[2]>> /\ (Asked(r) # b => entry'[b] = entry[b])
      BY <2>0, <3>1, EntryFacts
    <3>3. CASE Asked(r) = b
      <4>1. pc[r] = "success" /\ answer'[r] = b
        BY <3>1, <3>3
      <4> QED
        BY <4>1
    <3>4. CASE Asked(r) # b
      <4>1. breaker'[<<b, entry[b]>>] = breaker[<<b, entry[b]>>]
        BY <2>0, <3>1, <3>2, <3>4
      <4>2. State(b)' = State(b)
        BY <2>0, <3>2, <3>4, <4>1 DEF State
      <4> QED
        BY <4>2
    <3> QED
      BY <3>3, <3>4
  <2>6. ASSUME NEW r \in Requests, Ask(r) PROVE Cause(b)
    <3>1. Asked(r) \in Backends /\ Entered(r) /\ UNCHANGED breaker
      BY <2>0, <2>6, TargetType DEF Ask, Asked
    <3> QED
      BY <2>0, <2>1, <2>2, <3>1 DEF State
  <2>7. ASSUME NEW r \in Requests, Stamp(r) PROVE FALSE
    <3> DEFINE e == <<Suspect(r), br[r]>>
               new == [breaker[e] EXCEPT !.cooled = FALSE]
    <3>1. e \in Backends \X Requests
      BY <2>0, <2>7, SuspectType DEF Stamp, HasTarget, TypeOK
    <3>2. new \in Records /\ new.state = breaker[e].state
      BY <2>0, <3>1, CoolEdit
    <3>3. breaker' = [breaker EXCEPT ![e] = new] /\ entry' = entry
      BY <2>7 DEF Stamp
    <3> HIDE DEF e, new
    <3> QED
      BY <2>3, <3>1, <3>2, <3>3
  <2>8. ASSUME NEW r \in Requests, LetThrough(r) PROVE FALSE
    <3> DEFINE e == <<Target(r), br[r]>>
               new == [breaker[e] EXCEPT !.state = "half_open"]
    <3>1. e \in Backends \X Requests
      BY <2>0, <2>8, TargetType DEF LetThrough, HasTarget, TypeOK
    <3>2. new \in Records /\ new.state # "closed"
      BY <2>0, <3>1, StateEdit DEF BreakerState
    <3>3. breaker' = [breaker EXCEPT ![e] = new] /\ entry' = entry
      BY <2>8 DEF LetThrough
    <3> HIDE DEF e, new
    <3> QED
      BY <2>3, <3>1, <3>2, <3>3
  <2>9. ASSUME NEW c \in Backends, WindowEnds(c) PROVE FALSE
    <3>1. PICK q \in Requests : breaker' = [breaker EXCEPT ![<<c, q>>].cooled = TRUE]
      BY <2>9 DEF WindowEnds
    <3> DEFINE e == <<c, q>>
               new == [breaker[e] EXCEPT !.cooled = TRUE]
    <3>2. e \in Backends \X Requests /\ new \in Records /\ new.state = breaker[e].state
      BY <2>0, CoolEdit
    <3>3. breaker' = [breaker EXCEPT ![e] = new] /\ entry' = entry
      BY <2>9, <3>1 DEF WindowEnds
    <3> HIDE DEF e, new
    <3> QED
      BY <2>3, <3>2, <3>3
  <2>10. ASSUME NEW r \in Requests, Arrive(r) \/ Plan(r) \/ CallEnds(r) \/ EntryMissing(r) \/ Refuse(r)
                   \/ Lookup(r) \/ LookupMissing(r) \/ Degrade(r)
         PROVE  FALSE
    BY <2>1, <2>10 DEF Arrive, Plan, PlanFails, PrimarySucceeds, PrimaryFails, CallEnds, CallSucceeds,
       CallFailsRetryable, CallFailsForGood, EntryMissing, Refuse, Lookup, LookupMissing, Degrade, tables
  <2> QED
    BY <2>4, <2>5, <2>6, <2>7, <2>8, <2>9, <2>10 DEF Next, Walk
<1> QED
  BY <1>1, Invariance, PTL DEF Spec, ClosesOnSuccess
=============================================================================
