-------------------------- MODULE WorkerPool_proofs -------------------------
(***************************************************************************)
(* No task of a HAOE pool is lost from its queues or taken twice, and no   *)
(* thread takes one after its pool has let it go, in every behaviour of    *)
(* WorkerPool: for any tasks, pool size, starts and stops.                 *)
(***************************************************************************)
EXTENDS WorkerPool, FiniteSetTheorems, SequenceTheorems, TLAPS

-----------------------------------------------------------------------------
(* Queues without repetition *)

(* push_left of a task that is not in the queue. *)
LEMMA ConsQueue ==
    ASSUME NEW q \in Seq(Tasks), IsInjective(q), NEW t \in Tasks, t \notin Range(q)
    PROVE  /\ <<t>> \o q \in Seq(Tasks) /\ IsInjective(<<t>> \o q)
           /\ Range(<<t>> \o q) = Range(q) \cup {t}
<1> DEFINE p == <<t>> \o q
<1>1. p \in Seq(Tasks) /\ Len(p) = Len(q) + 1 /\ Len(q) \in Nat
      /\ DOMAIN p = 1..Len(p) /\ DOMAIN q = 1..Len(q)
  OBVIOUS
<1>2. p[1] = t /\ \A i \in 2..Len(p) : p[i] = q[i - 1]
  OBVIOUS
<1> HIDE DEF p
<1>3. IsInjective(p)
  <2> SUFFICES ASSUME NEW i \in 1..Len(p), NEW j \in 1..Len(p), p[i] = p[j] PROVE i = j
    BY <1>1 DEF IsInjective
  <2>1. i # 1 => p[i] = q[i - 1] /\ i - 1 \in DOMAIN q
    BY <1>1, <1>2
  <2>2. j # 1 => p[j] = q[j - 1] /\ j - 1 \in DOMAIN q
    BY <1>1, <1>2
  <2> QED
    BY <1>2, <2>1, <2>2 DEF IsInjective, Range
<1>4. \A i \in DOMAIN q : i + 1 \in 2..Len(p) /\ p[i + 1] = q[i]
  BY <1>1, <1>2
<1>5. Range(p) = Range(q) \cup {t}
  <2>1. ASSUME NEW x \in Range(p) PROVE x \in Range(q) \cup {t}
    <3>1. PICK i \in 1..Len(p) : x = p[i]
      BY <1>1, <2>1 DEF Range
    <3>2. CASE i = 1
      BY <1>2, <3>1, <3>2
    <3>3. CASE i # 1
      <4>1. i - 1 \in DOMAIN q /\ x = q[i - 1]
        BY <1>1, <1>2, <3>1, <3>3
      <4> QED
        BY <4>1 DEF Range
    <3> QED
      BY <3>2, <3>3
  <2>2. ASSUME NEW x \in Range(q) PROVE x \in Range(p)
    <3>1. PICK i \in DOMAIN q : x = q[i]
      BY <2>2 DEF Range
    <3> QED
      BY <1>1, <1>4, <3>1 DEF Range
  <2>3. t \in Range(p)
    BY <1>1, <1>2 DEF Range
  <2> QED
    BY <2>1, <2>2, <2>3
<1> QED
  BY <1>1, <1>3, <1>5 DEF p

(* pop_left and pop_right: one element goes, the others stay. *)
LEMMA DropOne ==
    ASSUME NEW q \in Seq(Tasks), IsInjective(q), q # << >>
    PROVE  /\ Head(q) \in Tasks /\ Tail(q) \in Seq(Tasks) /\ IsInjective(Tail(q))
           /\ Head(q) \in Range(q) /\ Range(Tail(q)) = Range(q) \ {Head(q)}
<1> DEFINE p == Tail(q)
<1>1. p \in Seq(Tasks) /\ Len(p) = Len(q) - 1 /\ Len(q) \in Nat \ {0} /\ Head(q) = q[1]
      /\ DOMAIN p = 1..Len(p) /\ DOMAIN q = 1..Len(q) /\ Head(q) \in Tasks
  OBVIOUS
<1>2. \A i \in 1..Len(p) : p[i] = q[i + 1]
  OBVIOUS
<1> HIDE DEF p
<1>3. IsInjective(p)
  BY <1>1, <1>2 DEF IsInjective
<1>4. Range(p) = Range(q) \ {q[1]}
  <2>1. ASSUME NEW x \in Range(p) PROVE x \in Range(q) /\ x # q[1]
    <3>1. PICK i \in 1..Len(p) : x = q[i + 1]
      BY <1>1, <1>2, <2>1 DEF Range
    <3>2. i + 1 \in DOMAIN q /\ 1 \in DOMAIN q /\ i + 1 # 1
      BY <1>1
    <3> QED
      BY <3>1, <3>2 DEF Range, IsInjective
  <2>2. ASSUME NEW x \in Range(q), x # q[1] PROVE x \in Range(p)
    <3>1. PICK i \in 1..Len(q) : x = q[i]
      BY <1>1, <2>2 DEF Range
    <3>2. i - 1 \in 1..Len(p) /\ p[i - 1] = q[i]
      BY <1>1, <1>2, <2>2, <3>1
    <3> QED
      BY <1>1, <3>1, <3>2 DEF Range
  <2> QED
    BY <2>1, <2>2
<1>5. Head(q) \in Range(q)
  BY <1>1 DEF Range
<1> QED
  BY <1>1, <1>3, <1>4, <1>5 DEF p

LEMMA DropLast ==
    ASSUME NEW q \in Seq(Tasks), IsInjective(q), q # << >>
    PROVE  LET p == SubSeq(q, 1, Len(q) - 1)
               x == q[Len(q)]
           IN  /\ x \in Tasks /\ p \in Seq(Tasks) /\ IsInjective(p)
               /\ x \in Range(q) /\ Range(p) = Range(q) \ {x}
<1> DEFINE p == SubSeq(q, 1, Len(q) - 1)
           n == Len(q)
<1>1. p \in Seq(Tasks) /\ n \in Nat \ {0} /\ Len(p) = n - 1
      /\ DOMAIN p = 1..Len(p) /\ DOMAIN q = 1..n /\ q[n] \in Tasks
  <2>1. n \in Nat \ {0} /\ DOMAIN q = 1..n
    OBVIOUS
  <2>2. q[n] \in Tasks /\ \A i \in 1..(n - 1) : q[i] \in Tasks
    BY <2>1
  <2> QED
    BY <2>1, <2>2, SubSeqProperties
<1>2. \A i \in 1..Len(p) : p[i] = q[i]
  BY <1>1, SubSeqProperties
<1> HIDE DEF p, n
<1>3. IsInjective(p)
  BY <1>1, <1>2 DEF IsInjective
<1>4. Range(p) = Range(q) \ {q[n]}
  <2>1. ASSUME NEW x \in Range(p) PROVE x \in Range(q) /\ x # q[n]
    <3>1. PICK i \in 1..Len(p) : x = q[i]
      BY <1>1, <1>2, <2>1 DEF Range
    <3>2. i \in DOMAIN q /\ n \in DOMAIN q /\ i # n
      BY <1>1
    <3> QED
      BY <3>1, <3>2 DEF Range, IsInjective
  <2>2. ASSUME NEW x \in Range(q), x # q[n] PROVE x \in Range(p)
    <3>1. PICK i \in 1..n : x = q[i]
      BY <1>1, <2>2 DEF Range
    <3>2. i \in 1..Len(p) /\ p[i] = q[i]
      BY <1>1, <1>2, <2>2, <3>1
    <3> QED
      BY <1>1, <3>1, <3>2 DEF Range
  <2> QED
    BY <2>1, <2>2
<1>5. q[n] \in Range(q)
  BY <1>1 DEF Range
<1> QED
  BY <1>1, <1>3, <1>4, <1>5 DEF p, n
-----------------------------------------------------------------------------
(* The inductive invariant *)

Content(w) == Range(queue[w])

\* A task is in one place at most, and in some place once it is submitted.
Held ==
    \A t \in Tasks :
        /\ \A v, w \in Workers : t \in Content(v) /\ t \in Content(w) => v = w
        /\ \A v, w \in Workers : hand[v] = t /\ hand[w] = t => v = w
        /\ \A v, w \in Workers : ~(t \in Content(v) /\ hand[w] = t)
        /\ \A w \in Workers : t \in Content(w) \/ hand[w] = t => t \notin overflow \cup ended
        /\ t \notin overflow \cap ended
        /\ sub[t].at = "accepted" <=>
              (\E w \in Workers : t \in Content(w) \/ hand[w] = t) \/ t \in overflow \cup ended

NoRepeats == \A w \in Workers : IsInjective(queue[w])

\* A thread has a task in hand while it runs one, and threads that no pool
\* has any more only run to their end.
Threads ==
    \A w \in Workers :
        /\ hand[w] # None <=> thread[w] = "run"
        /\ w > issued => thread[w] = "none"
        /\ w \notin members => /\ thread[w] \in {"none", "check", "run", "exited"}
                               /\ thread[w] \in {"check", "run"} => w \in stopSet

\* The ids that a pool that is starting will need are there.
Members ==
    /\ members \subseteq 1..issued
    /\ pool = "stopped" => members = {}
    /\ pool = "stopping" => members \subseteq stopSet
    /\ pool = "starting" => /\ Cardinality(members) < Size
                            /\ issued + Size <= MaxWorkers + Cardinality(members)

IInv == TypeOK /\ NoRepeats /\ Held /\ Threads /\ Members

(* Then every submitted task has exactly one holder. *)
LEMMA HeldIsConserved == IInv => TaskConserved
<1> SUFFICES ASSUME IInv, NEW t \in Tasks
             PROVE  Cardinality(Holders(t)) = IF sub[t].at = "accepted" THEN 1 ELSE 0
  BY DEF IInv, NoRepeats, TaskConserved
<1>1. CASE sub[t].at # "accepted"
  <2>1. Holders(t) = {}
    BY <1>1 DEF IInv, Held, Holders, Content
  <2> QED
    BY <1>1, <2>1, FS_EmptySet
<1>2. CASE sub[t].at = "accepted"
  <2>1. \E x : Holders(t) = {x}
    <3>1. CASE \E w \in Workers : t \in Content(w)
      <4>1. PICK w \in Workers : t \in Content(w)
        BY <3>1
      <4>2. Holders(t) = {<<"queue", w>>}
        BY <4>1 DEF IInv, Held, Holders, Content
      <4> QED
        BY <4>2
    <3>2. CASE \E w \in Workers : hand[w] = t
      <4>1. PICK w \in Workers : hand[w] = t
        BY <3>2
      <4>2. Holders(t) = {<<"hand", w>>}
        BY <4>1 DEF IInv, Held, Holders, Content
      <4> QED
        BY <4>2
    <3>3. CASE t \in overflow
      <4>1. Holders(t) = {<<"overflow", 0>>}
        BY <3>3 DEF IInv, Held, Holders, Content
      <4> QED
        BY <4>1
    <3>4. CASE t \in ended
      <4>1. Holders(t) = {<<"ended", 0>>}
        BY <3>4 DEF IInv, Held, Holders, Content
      <4> QED
        BY <4>1
    <3> QED
      BY <1>2, <3>1, <3>2, <3>3, <3>4 DEF IInv, Held
  <2> QED
    BY <1>2, <2>1, FS_Singleton
<1> QED
  BY <1>1, <1>2

(* The invariant holds before the pool is started. *)
LEMMA InitIInv == Init => IInv
<1> SUFFICES ASSUME Init PROVE IInv
  OBVIOUS
<1>1. TypeOK
  BY SizeAssumption DEF Init, TypeOK, NotSubmitted
<1>2. NoRepeats /\ Held
  BY NoneIsNoTask DEF Init, NoRepeats, Held, Content, IsInjective, Range, NotSubmitted
<1>3. Threads /\ Members
  BY DEF Init, Threads, Members
<1> QED
  BY <1>1, <1>2, <1>3 DEF IInv
-----------------------------------------------------------------------------
(* Steps that move no task *)
LEMMA HeldKept ==
    ASSUME IInv, UNCHANGED <<queue, overflow, ended, hand>>,
           \A t \in Tasks : sub'[t].at = "accepted" <=> sub[t].at = "accepted"
    PROVE  NoRepeats' /\ Held'
  BY DEF IInv, NoRepeats, Held, Content

(* Steps that move a task from a queue into a hand: the owner's and the thief's. *)
LEMMA HeldTaken ==
    ASSUME IInv, NEW w \in Workers, hand[w] = None, NEW v \in Workers, NEW q \in Seq(Tasks),
           NEW t \in Content(v), t \in Tasks, IsInjective(q), Range(q) = Content(v) \ {t},
           queue' = [queue EXCEPT ![v] = q], hand' = [hand EXCEPT ![w] = t],
           UNCHANGED <<overflow, ended, sub>>
    PROVE  queue' \in [Workers -> Seq(Tasks)] /\ hand' \in [Workers -> Tasks \cup {None}]
           /\ NoRepeats' /\ Held'
<1>1. /\ queue \in [Workers -> Seq(Tasks)] /\ hand \in [Workers -> Tasks \cup {None}]
      /\ None \notin Tasks
  BY NoneIsNoTask DEF IInv, TypeOK
<1>2. NoRepeats'
  BY <1>1 DEF IInv, NoRepeats
<1>3. \A u \in Workers : /\ Content(u)' = IF u = v THEN Content(v) \ {t} ELSE Content(u)
                         /\ hand'[u] = IF u = w THEN t ELSE hand[u]
  BY <1>1 DEF Content
<1>4. Held'
  <2>1. ASSUME NEW x \in Tasks, x # t
        PROVE  /\ \A u \in Workers : /\ x \in Content(u)' <=> x \in Content(u)
                                     /\ hand'[u] = x => hand[u] = x
                                     /\ hand[u] = x => hand'[u] = x
    BY <1>1, <1>3, <2>1
  <2>2. \A u \in Workers : t \notin Content(u)' /\ (hand'[u] = t <=> u = w)
    BY <1>1, <1>3 DEF IInv, Held
  <2>3. t \notin overflow \cup ended /\ sub[t].at = "accepted"
    BY DEF IInv, Held
  <2> QED
    BY <2>1, <2>2, <2>3 DEF IInv, Held
<1> QED
  BY <1>1, <1>2, <1>4

(* A thread that goes on, with or without a task in hand. *)
LEMMA ThreadMoves ==
    ASSUME IInv, NEW w \in Workers, NEW from, NEW to, At(w, from, to), w <= issued \/ from # "none",
           to \in {"check", "own", "overflow", "steal", "run", "exited"},
           \A v \in Workers \ {w} : hand'[v] = hand[v],
           hand'[w] # None <=> to = "run",
           w \notin members => to = "exited" \/ (to \in {"check", "run"} /\ w \in stopSet),
           UNCHANGED control
    PROVE  thread' \in [Workers -> {"none", "check", "own", "overflow", "steal", "run", "exited"}]
           /\ Threads' /\ Members'
<1>1. /\ thread \in [Workers -> {"none", "check", "own", "overflow", "steal", "run", "exited"}]
      /\ thread' = [thread EXCEPT ![w] = to] /\ thread[w] = from
  BY DEF IInv, TypeOK, At
<1>2. w <= issued /\ issued \in Nat /\ w \in Nat
  BY <1>1 DEF IInv, TypeOK, Threads, Workers
<1>3. Threads'
  <2>1. ASSUME NEW u \in Workers, u # w
        PROVE  thread'[u] = thread[u] /\ hand'[u] = hand[u]
    BY <1>1, <2>1
  <2>2. thread'[w] = to
    BY <1>1
  <2>3. /\ members' = members /\ stopSet' = stopSet /\ issued' = issued
        /\ hand[w] # None <=> thread[w] = "run"
        /\ w > issued => thread[w] = "none"
    BY DEF IInv, Threads, control
  <2>4. ASSUME NEW u \in Workers, u # w
        PROVE  /\ hand'[u] # None <=> thread'[u] = "run"
               /\ u > issued' => thread'[u] = "none"
               /\ u \notin members' => /\ thread'[u] \in {"none", "check", "run", "exited"}
                                       /\ thread'[u] \in {"check", "run"} => u \in stopSet'
    BY <2>1, <2>3, <2>4 DEF IInv, Threads
  <2>5. /\ hand'[w] # None <=> thread'[w] = "run"
        /\ w > issued' => thread'[w] = "none"
        /\ w \notin members' => /\ thread'[w] \in {"none", "check", "run", "exited"}
                                /\ thread'[w] \in {"check", "run"} => w \in stopSet'
    <3>1. ~ (w > issued')
      BY <1>2, <2>3
    <3> QED
      BY <2>2, <2>3, <3>1
  <2> QED
    BY <2>4, <2>5 DEF Threads
<1>4. Members'
  BY DEF IInv, Members, control
<1> QED
  BY <1>1, <1>3, <1>4
-----------------------------------------------------------------------------
(* Every step keeps the invariant. *)

(* The steps of submit. *)
LEMMA SubmitIInv == ASSUME IInv, NEW t \in Tasks, SubmitStep(t) PROVE IInv'
<1>1. /\ sub \in [Tasks -> [at : {"new", "pick", "get", "push", "accepted", "rejected"},
                            ids : SUBSET Workers, to : Workers \cup {None}]]
      /\ queue \in [Workers -> Seq(Tasks)]
  BY DEF IInv, TypeOK
<1>2. UNCHANGED <<registered, thread, hand, victims, ended, control>>
  BY DEF SubmitStep, Submit, Pick, GetQueue, Push, queues
<1>3. Threads' /\ Members'
  BY <1>2 DEF IInv, Threads, Members, control
<1>4. CASE Submit(t) \/ Pick(t) \/ GetQueue(t)
  <2>1. UNCHANGED <<queue, overflow>>
    BY <1>4 DEF Submit, Pick, GetQueue, queues
  <2>2. /\ sub' \in [Tasks -> [at : {"new", "pick", "get", "push", "accepted", "rejected"},
                               ids : SUBSET Workers, to : Workers \cup {None}]]
        /\ \A u \in Tasks : sub'[u].at = "accepted" <=> sub[u].at = "accepted"
    <3>1. CASE Submit(t)
      <4>1. [at |-> "pick", ids |-> registered, to |-> None] \in
              [at : {"new", "pick", "get", "push", "accepted", "rejected"},
               ids : SUBSET Workers, to : Workers \cup {None}]
        BY DEF IInv, TypeOK
      <4> QED
        BY <1>1, <3>1, <4>1 DEF Submit
    <3>2. CASE Pick(t)
      <4>1. sub[t].ids \subseteq Workers
        BY <1>1
      <4>2. sub[t].at = "pick"
        BY <3>2 DEF Pick
      <4>3. CASE sub' = [sub EXCEPT ![t].at = "push"] \/ sub' = [sub EXCEPT ![t].at = "rejected"]
        BY <1>1, <4>2, <4>3
      <4>4. ASSUME NEW w \in Workers,
                   sub' = [sub EXCEPT ![t] = [@ EXCEPT !.at = "get", !.to = w]]
            PROVE  /\ sub' \in [Tasks -> [at : {"new", "pick", "get", "push", "accepted", "rejected"},
                                          ids : SUBSET Workers, to : Workers \cup {None}]]
                   /\ \A u \in Tasks : sub'[u].at = "accepted" <=> sub[u].at = "accepted"
        <5> DEFINE new == [sub[t] EXCEPT !.at = "get", !.to = w]
        <5>1. new \in [at : {"new", "pick", "get", "push", "accepted", "rejected"},
                       ids : SUBSET Workers, to : Workers \cup {None}]
              /\ new.at = "get"
          BY <1>1
        <5>2. sub' = [sub EXCEPT ![t] = new]
          BY <4>4
        <5> HIDE DEF new
        <5> QED
          BY <1>1, <4>2, <5>1, <5>2
      <4> QED
        BY <3>2, <4>1, <4>3, <4>4 DEF Pick
    <3>3. CASE GetQueue(t)
      BY <1>1, <3>3 DEF GetQueue
    <3> QED
      BY <1>4, <3>1, <3>2, <3>3
  <2>3. NoRepeats' /\ Held'
    BY <1>2, <2>1, <2>2, HeldKept
  <2>4. TypeOK'
    BY <1>2, <2>1, <2>2 DEF IInv, TypeOK, control
  <2> QED
    BY <1>3, <2>3, <2>4 DEF IInv
<1>5. CASE Push(t)
  <2>1. /\ sub' = [sub EXCEPT ![t].at = "accepted"]
        /\ sub[t].at = "push"
    BY <1>5 DEF Push
  <2>2. /\ sub' \in [Tasks -> [at : {"new", "pick", "get", "push", "accepted", "rejected"},
                               ids : SUBSET Workers, to : Workers \cup {None}]]
        /\ \A u \in Tasks : sub'[u].at = "accepted" <=> u = t \/ sub[u].at = "accepted"
    BY <1>1, <2>1
  <2>3. /\ \A w \in Workers : t \notin Content(w) /\ hand[w] # t
        /\ t \notin overflow \cup ended
    BY <2>1 DEF IInv, Held
  <2>4. CASE sub[t].to = None
    <3>1. overflow' = overflow \cup {t} /\ UNCHANGED queue
      BY <1>5, <2>4 DEF Push
    <3>2. NoRepeats' /\ Held'
      BY <1>2, <2>2, <2>3, <3>1 DEF IInv, NoRepeats, Held, Content
    <3>3. TypeOK'
      BY <1>2, <2>2, <3>1 DEF IInv, TypeOK, control
    <3> QED
      BY <1>3, <3>2, <3>3 DEF IInv
  <2>5. CASE sub[t].to # None
    <3> DEFINE w == sub[t].to
               q == <<t>> \o queue[w]
    <3>1. w \in Workers /\ queue[w] \in Seq(Tasks) /\ UNCHANGED overflow
          /\ queue' = [queue EXCEPT ![w] = q]
      BY <1>1, <1>5, <2>5 DEF Push
    <3>2. q \in Seq(Tasks) /\ IsInjective(q) /\ Range(q) = Content(w) \cup {t}
      <4>1. IsInjective(queue[w]) /\ t \notin Range(queue[w])
        BY <2>3, <3>1 DEF IInv, NoRepeats, Content
      <4> QED
        BY <3>1, <4>1, ConsQueue DEF Content
    <3> HIDE DEF w, q
    <3>3. queue' \in [Workers -> Seq(Tasks)] /\ NoRepeats'
      BY <1>1, <3>1, <3>2 DEF IInv, NoRepeats
    <3>4. \A u \in Workers : Content(u)' = IF u = w THEN Content(w) \cup {t} ELSE Content(u)
      BY <1>1, <3>1, <3>2 DEF Content
    <3>5. Held'
      BY <1>2, <2>2, <2>3, <3>1, <3>4 DEF IInv, Held
    <3>6. TypeOK'
      BY <1>2, <2>2, <3>1, <3>3 DEF IInv, TypeOK, control
    <3> QED
      BY <1>3, <3>3, <3>5, <3>6 DEF IInv
  <2> QED
    BY <2>4, <2>5
<1> QED
  BY <1>4, <1>5 DEF SubmitStep

(* The steps of _loop. *)
LEMMA LoopIInv == ASSUME IInv, NEW w \in Workers, Loop(w) \/ TaskEnds(w) PROVE IInv'
<1>1. /\ queue \in [Workers -> Seq(Tasks)] /\ hand \in [Workers -> Tasks \cup {None}]
      /\ victims \in [Workers -> SUBSET Workers] /\ registered \subseteq Workers
      /\ overflow \subseteq Tasks /\ ended \subseteq Tasks
      /\ None \notin Tasks
  BY NoneIsNoTask DEF IInv, TypeOK
<1>2. hand[w] # None <=> thread[w] = "run"
  BY DEF IInv, Threads
<1>a. UNCHANGED control /\ sub' = sub /\ registered' = registered
  BY DEF Loop, TaskEnds, CheckStop, PopOwn, PopOverflow, Steal, NothingFound, queues
<1>3. ASSUME NEW from, NEW to, At(w, from, to),
             from \in {"check", "own", "overflow", "steal"},
             to \in {"own", "overflow", "steal", "check", "exited"},
             w \in members \/ to = "exited",
             UNCHANGED <<queue, overflow, ended, hand>>, victims' \in [Workers -> SUBSET Workers]
      PROVE  IInv'
  <2>1. NoRepeats' /\ Held'
    BY <1>3, <1>a, HeldKept
  <2>2. hand[w] = None
    BY <1>2, <1>3 DEF At
  <2>3. thread' \in [Workers -> {"none", "check", "own", "overflow", "steal", "run", "exited"}]
        /\ Threads' /\ Members'
    BY <1>3, <1>a, <2>2, ThreadMoves
  <2> QED
    BY <1>3, <1>a, <2>1, <2>3 DEF IInv, TypeOK, control
<1>4. ASSUME NEW from \in {"own", "overflow", "steal"}, At(w, from, "run"), NEW t \in Tasks,
             Take(w, t), NoRepeats', Held',
             queue' \in [Workers -> Seq(Tasks)], victims' \in [Workers -> SUBSET Workers],
             overflow' \subseteq Tasks, UNCHANGED ended
      PROVE  IInv'
  <2>1. hand' = [hand EXCEPT ![w] = t] /\ hand' \in [Workers -> Tasks \cup {None}]
    BY <1>1, <1>4 DEF Take
  <2>2. w \in members
    BY <1>4 DEF At, IInv, Threads
  <2>3. thread' \in [Workers -> {"none", "check", "own", "overflow", "steal", "run", "exited"}]
        /\ Threads' /\ Members'
    BY <1>1, <1>4, <1>a, <2>1, <2>2, ThreadMoves
  <2> QED
    BY <1>4, <1>a, <2>1, <2>3 DEF IInv, TypeOK, control
<1>5. CASE CheckStop(w)
  <2> DEFINE to == IF w \in stopSet THEN "exited" ELSE "own"
  <2>1. At(w, "check", to) /\ UNCHANGED <<queue, overflow, ended, hand, victims>>
    BY <1>5 DEF CheckStop, queues
  <2>2. w \in members \/ to = "exited"
    BY <2>1 DEF At, IInv, Threads
  <2>3. to \in {"own", "exited"}
    OBVIOUS
  <2> HIDE DEF to
  <2> QED
    BY <1>1, <1>3, <2>1, <2>2, <2>3
<1>6. CASE PopOwn(w)
  <2>0. UNCHANGED <<overflow, victims, ended>>
    BY <1>6 DEF PopOwn
  <2>1. CASE w \in registered /\ queue[w] # << >>
    <3> DEFINE t == Head(queue[w])
               q == Tail(queue[w])
    <3>1. /\ At(w, "own", "run") /\ Take(w, t) /\ queue' = [queue EXCEPT ![w] = q]
      BY <1>6, <2>1 DEF PopOwn
    <3>2. /\ t \in Tasks /\ t \in Content(w) /\ q \in Seq(Tasks) /\ IsInjective(q)
          /\ Range(q) = Content(w) \ {t}
      <4>1. queue[w] \in Seq(Tasks) /\ IsInjective(queue[w])
        BY <1>1 DEF IInv, NoRepeats
      <4> QED
        BY <2>1, <4>1, DropOne DEF Content
    <3> HIDE DEF t, q
    <3>3. hand[w] = None /\ hand' = [hand EXCEPT ![w] = t]
      BY <1>2, <3>1 DEF At, Take
    <3>4. queue' \in [Workers -> Seq(Tasks)] /\ NoRepeats' /\ Held'
      BY <1>a, <2>0, <3>1, <3>2, <3>3, HeldTaken
    <3> QED
      BY <1>1, <1>4, <2>0, <3>1, <3>2, <3>4
  <2>2. CASE ~(w \in registered /\ queue[w] # << >>)
    <3>1. At(w, "own", "overflow") /\ UNCHANGED <<queue, hand>>
      BY <1>6, <2>2 DEF PopOwn
    <3>2. w \in members
      BY <3>1 DEF At, IInv, Threads
    <3> QED
      BY <1>1, <1>3, <2>0, <3>1, <3>2
  <2> QED
    BY <2>1, <2>2
<1>7. CASE PopOverflow(w)
  <2>0. UNCHANGED <<queue, ended>>
    BY <1>7 DEF PopOverflow
  <2>1. ASSUME NEW t \in overflow, At(w, "overflow", "run"), Take(w, t),
               overflow' = overflow \ {t}, UNCHANGED victims
        PROVE  IInv'
    <3>1. hand[w] = None /\ \A u \in Workers : hand'[u] = IF u = w THEN t ELSE hand[u]
      BY <1>1, <1>2, <2>1 DEF At, Take
    <3>2. NoRepeats' /\ Held'
      BY <1>1, <1>a, <2>0, <2>1, <3>1 DEF IInv, NoRepeats, Held, Content
    <3> QED
      BY <1>1, <1>4, <2>0, <2>1, <3>2
  <2>2. CASE /\ At(w, "overflow", "steal") /\ victims' = [victims EXCEPT ![w] = registered \ {w}]
             /\ UNCHANGED <<overflow, hand>>
    <3>1. w \in members
      BY <2>2 DEF At, IInv, Threads
    <3>2. victims' \in [Workers -> SUBSET Workers]
      BY <1>1, <2>2
    <3> QED
      BY <1>3, <2>0, <2>2, <3>1, <3>2
  <2> QED
    BY <1>7, <2>1, <2>2 DEF PopOverflow
<1>8. CASE Steal(w)
  <2>0. PICK v \in victims[w] :
          /\ victims' = [victims EXCEPT ![w] = @ \ {v}]
          /\ \/ /\ queue[v] # << >>
                /\ At(w, "steal", "run")
                /\ Take(w, queue[v][Len(queue[v])])
                /\ queue' = [queue EXCEPT ![v] = SubSeq(@, 1, Len(@) - 1)]
             \/ At(w, "steal", "steal") /\ UNCHANGED <<queue, hand>>
    BY <1>8 DEF Steal
  <2>1. v \in Workers /\ victims' \in [Workers -> SUBSET Workers] /\ UNCHANGED <<overflow, ended>>
    BY <1>1, <1>8, <2>0 DEF Steal
  <2>2. CASE /\ queue[v] # << >> /\ At(w, "steal", "run")
             /\ Take(w, queue[v][Len(queue[v])])
             /\ queue' = [queue EXCEPT ![v] = SubSeq(@, 1, Len(@) - 1)]
    <3> DEFINE t == queue[v][Len(queue[v])]
               q == SubSeq(queue[v], 1, Len(queue[v]) - 1)
    <3>1. At(w, "steal", "run") /\ Take(w, t) /\ queue' = [queue EXCEPT ![v] = q]
      BY <2>0, <2>2
    <3>2. /\ t \in Tasks /\ t \in Content(v) /\ q \in Seq(Tasks) /\ IsInjective(q)
          /\ Range(q) = Content(v) \ {t}
      <4>1. queue[v] \in Seq(Tasks) /\ IsInjective(queue[v])
        BY <1>1, <2>1 DEF IInv, NoRepeats
      <4> QED
        BY <2>2, <4>1, DropLast DEF Content
    <3> HIDE DEF t, q
    <3>3. hand[w] = None /\ hand' = [hand EXCEPT ![w] = t]
      BY <1>2, <3>1 DEF At, Take
    <3>4. queue' \in [Workers -> Seq(Tasks)] /\ NoRepeats' /\ Held'
      BY <1>a, <2>1, <3>1, <3>2, <3>3, HeldTaken
    <3> QED
      BY <1>1, <1>4, <2>1, <3>1, <3>2, <3>4
  <2>3. CASE At(w, "steal", "steal") /\ UNCHANGED <<queue, hand>>
    <3>1. At(w, "steal", "steal") /\ UNCHANGED <<queue, hand>>
      BY <2>3
    <3>2. w \in members
      BY <3>1 DEF At, IInv, Threads
    <3> QED
      BY <1>3, <2>1, <3>1, <3>2
  <2> QED
    BY <2>0, <2>2, <2>3
<1>9. CASE NothingFound(w)
  <2>1. At(w, "steal", "check") /\ UNCHANGED <<queue, overflow, ended, hand, victims>>
    BY <1>9 DEF NothingFound, queues
  <2>2. w \in members
    BY <2>1 DEF At, IInv, Threads
  <2> QED
    BY <1>1, <1>3, <2>1, <2>2
<1>10. CASE TaskEnds(w)
  <2>1. PICK to \in {"check", "exited"} : At(w, "run", to)
    BY <1>10 DEF TaskEnds
  <2> DEFINE t == hand[w]
  <2>2. t \in Tasks /\ ended' = ended \cup {t} /\ hand' = [hand EXCEPT ![w] = None]
        /\ victims' = [victims EXCEPT ![w] = {}] /\ UNCHANGED <<queue, overflow>>
    BY <1>1, <1>2, <1>10, <2>1 DEF At, TaskEnds, Take, queues
  <2>3. \A u \in Workers : hand'[u] = IF u = w THEN None ELSE hand[u]
    BY <1>1, <2>2
  <2>4. NoRepeats' /\ Held'
    BY <1>1, <1>a, <2>2, <2>3 DEF IInv, NoRepeats, Held, Content
  <2>5. w \notin members => w \in stopSet
    BY <2>1 DEF At, IInv, Threads
  <2>6. thread' \in [Workers -> {"none", "check", "own", "overflow", "steal", "run", "exited"}]
        /\ Threads' /\ Members'
    BY <1>a, <2>1, <2>3, <2>5, ThreadMoves
  <2>7. hand' \in [Workers -> Tasks \cup {None}] /\ victims' \in [Workers -> SUBSET Workers]
        /\ ended' \subseteq Tasks
    BY <1>1, <2>2
  <2> QED
    BY <1>a, <2>2, <2>4, <2>6, <2>7 DEF IInv, TypeOK, control
<1> QED
  BY <1>5, <1>6, <1>7, <1>8, <1>9, <1>10 DEF Loop

(* The steps of start and stop. *)
LEMMA PoolIInv ==
    ASSUME IInv, Start \/ StartWorker \/ Stop \/ \E w \in Workers : JoinWorker(w)
    PROVE  IInv'
<1>1. /\ thread \in [Workers -> {"none", "check", "own", "overflow", "steal", "run", "exited"}]
      /\ members \subseteq 1..issued /\ issued \in 0..MaxWorkers
      /\ Size \in Nat \ {0} /\ MaxWorkers \in Nat /\ Workers = 1..MaxWorkers
  BY SizeAssumption DEF IInv, TypeOK, Members, Workers
<1>2. IsFiniteSet(members) /\ Cardinality(members) \in Nat
  <2>1. 1 \in Int /\ issued \in Int
    BY <1>1
  <2>2. IsFiniteSet(1..issued)
    BY <2>1, FS_Interval
  <2> QED
    BY <1>1, <2>2, FS_Subset, FS_CardinalityType
<1>3. UNCHANGED <<sub, queue, overflow, hand, victims, ended>>
  BY DEF Start, StartWorker, Stop, JoinWorker, queues
<1>4. NoRepeats' /\ Held'
  BY <1>3, HeldKept
<1>5. CASE Start
  <2>1. Members'
    <3>1. members = {} /\ Cardinality(members) = 0
      BY <1>5, FS_EmptySet DEF Start, IInv, Members
    <3> QED
      BY <1>1, <1>5, <3>1 DEF Start, Members
  <2>2. Threads' /\ TypeOK'
    BY <1>5 DEF Start, queues, IInv, Threads, TypeOK
  <2> QED
    BY <1>4, <2>1, <2>2 DEF IInv
<1>6. CASE StartWorker
  <2> DEFINE w == issued + 1
  <2>1. /\ pool = "starting" /\ issued' = w /\ registered' = registered \cup {w}
        /\ thread' = [thread EXCEPT ![w] = "check"] /\ members' = members \cup {w}
        /\ pool' = IF Cardinality(members') = Size THEN "started" ELSE "starting"
        /\ UNCHANGED stopSet
    BY <1>6 DEF StartWorker
  <2>2. Cardinality(members) < Size /\ issued + Size <= MaxWorkers + Cardinality(members)
    BY <2>1 DEF IInv, Members
  <2>3. w \in Workers /\ w \notin members /\ w \in Nat
    BY <1>1, <1>2, <2>2
  <2>4. Cardinality(members') = Cardinality(members) + 1
    BY <1>2, <2>1, <2>3, FS_AddElement
  <2>5. Members'
    BY <1>1, <1>2, <2>1, <2>2, <2>4 DEF Members
  <2>6. thread[w] = "none" /\ hand[w] = None
    BY <1>1, <2>3 DEF IInv, Threads
  <2> HIDE DEF w
  <2>7. ASSUME NEW u \in Workers
        PROVE  thread'[u] = IF u = w THEN "check" ELSE thread[u]
    BY <1>1, <2>1
  <2>8. Threads'
    <3>1. \A u \in Workers : u > w => u > issued /\ u # w
      BY <1>1 DEF w
    <3> QED
      BY <1>3, <2>1, <2>6, <2>7, <3>1 DEF IInv, Threads
  <2>9. TypeOK'
    <3>1. issued' \in 0..MaxWorkers /\ members' \subseteq Workers /\ registered' \subseteq Workers
      BY <1>1, <2>1, <2>3 DEF IInv, TypeOK
    <3> QED
      BY <1>1, <1>3, <2>1, <2>3, <3>1 DEF IInv, TypeOK
  <2> QED
    BY <1>4, <2>5, <2>8, <2>9 DEF IInv
<1>7. CASE Stop
  <2>1. Members' /\ Threads'
    BY <1>7 DEF Stop, queues, IInv, Members, Threads
  <2>2. TypeOK'
    BY <1>7 DEF Stop, queues, IInv, TypeOK
  <2> QED
    BY <1>4, <2>1, <2>2 DEF IInv
<1>8. ASSUME NEW w \in Workers, JoinWorker(w) PROVE IInv'
  <2>1. Members'
    BY <1>1, <1>8 DEF JoinWorker, IInv, Members
  <2>2. Threads'
    BY <1>8 DEF JoinWorker, IInv, Members, Threads
  <2>3. TypeOK'
    BY <1>8 DEF JoinWorker, IInv, TypeOK
  <2> QED
    BY <1>4, <2>1, <2>2, <2>3 DEF IInv
<1> QED
  BY <1>5, <1>6, <1>7, <1>8

LEMMA NextIInv == IInv /\ [Next]_vars => IInv'
<1> SUFFICES ASSUME IInv, [Next]_vars PROVE IInv'
  OBVIOUS
<1>1. CASE UNCHANGED vars
  <2>1. NoRepeats' /\ Held'
    BY <1>1, HeldKept DEF vars
  <2> QED
    BY <1>1, <2>1 DEF vars, IInv, TypeOK, Threads, Members
<1> QED
  BY <1>1, SubmitIInv, LoopIInv, PoolIInv DEF Next, Idle
-----------------------------------------------------------------------------
(* The invariant holds in every reachable state. *)
LEMMA Invariance == Spec => []IInv
<1>1. Init => IInv
  BY InitIInv
<1>2. IInv /\ [Next]_vars => IInv'
  BY NextIInv
<1> QED
  BY <1>1, <1>2, PTL DEF Spec

(* Submissions, queues, threads and pool keep their types, and the pool    *)
(* never issues more worker ids than there are.                            *)
THEOREM TypeCorrect == Spec => []TypeOK
<1>1. IInv => TypeOK
  BY DEF IInv
<1> QED
  BY <1>1, Invariance, PTL

(* A submitted task is in exactly one queue, hand or other place, once,    *)
(* under any interleaving of submits, owners, thieves, starts and stops    *)
(* (WorkerQueue, OverflowQueue, WorkStealingScheduler.take).               *)
THEOREM TasksSafe == Spec => []TaskConserved
<1>1. IInv => TaskConserved
  BY HeldIsConserved
<1> QED
  BY <1>1, Invariance, PTL

(* A thread that is not, or no longer, of the pool takes no task           *)
(* (WorkerPool.stop, _loop).                                               *)
THEOREM StopSafe == Spec => TakesOnlyWhileMember
<1> DEFINE A == \A w \in Workers : hand[w] = None /\ hand'[w] # None => w \in members
<1>1. IInv /\ [Next]_vars => [A]_vars
  <2> SUFFICES ASSUME IInv, Next, NEW w \in Workers, hand[w] = None, hand'[w] # None
               PROVE  w \in members
    OBVIOUS
  <2>1. hand \in [Workers -> Tasks \cup {None}]
    BY DEF IInv, TypeOK
  <2>2. ASSUME NEW v \in Workers, Loop(v) PROVE w \in members
    <3>1. hand' # hand
      OBVIOUS
    <3>2. thread[v] \in {"own", "overflow", "steal"} /\ \A u \in Workers \ {v} : hand'[u] = hand[u]
      BY <2>1, <2>2, <3>1 DEF Loop, CheckStop, PopOwn, PopOverflow, Steal, NothingFound, At, Take
    <3> QED
      BY <3>2 DEF IInv, Threads
  <2>3. ASSUME NEW v \in Workers, TaskEnds(v) PROVE FALSE
    BY <2>1, <2>3 DEF TaskEnds, Take
  <2>4. ASSUME UNCHANGED hand PROVE FALSE
    BY <2>4
  <2> QED
    BY <2>2, <2>3, <2>4 DEF Next, SubmitStep, Submit, Pick, GetQueue, Push, JoinWorker, Start, StartWorker,
       Stop, Idle, vars
<1> QED
  BY <1>1, Invariance, PTL DEF Spec, TakesOnlyWhileMember
=============================================================================
