--------------------------- MODULE KVBlocks_proofs --------------------------
(***************************************************************************)
(* Reference counts and deduplication of the KV block manager hold in      *)
(* every behaviour of KVBlocks, for any number of threads, sessions,       *)
(* payloads, tiers and migrations.  With a single migrator every block can *)
(* also be read where its record says, whatever the providers raise, and   *)
(* so the manager implements KVSessions.                                   *)
(***************************************************************************)
EXTENDS KVBlocks, FiniteSetTheorems, TLAPS

Labels == {"idle", "insert"} \cup Allocating \cup Releasing \cup Migrating

(* The tier that allocate writes to is one of the tiers. *)
LEMMA L1IsTier == L1 \in Tiers
  BY TiersAssumption DEF L1, Tiers

(* The locals of a call that has not begun are well typed. *)
LEMMA NoJobType == NoJob \in Jobs
  BY L1IsTier DEF NoJob, Jobs

(* A step that moves worker w touches no other worker. *)
LEMMA GotoFacts ==
    ASSUME TypeOK, NEW w \in Workers, NEW label, NEW locals, Goto(w, label, locals)
    PROVE  /\ pc'[w] = label /\ job'[w] = locals
           /\ \A v \in Workers : v # w => pc'[v] = pc[v] /\ job'[v] = job[v]
  BY DEF TypeOK, Goto

(* A step to a known label with well-typed locals keeps the types. *)
LEMMA GotoType ==
    ASSUME TypeOK, NEW w \in Workers, NEW label \in Labels, NEW locals \in Jobs,
           Goto(w, label, locals)
    PROVE  pc' \in [Workers -> Labels] /\ job' \in [Workers -> Jobs]
  BY DEF TypeOK, Goto, Labels

(* LogicalBlockTable.map keeps a list of blocks. *)
LEMMA MapAtType ==
    ASSUME NEW q \in Seq(Blocks), NEW idx \in Nat, NEW p \in Blocks
    PROVE  MapAt(q, idx, p) \in Seq(Blocks)
<1>1. CASE idx < Len(q)
  <2>1. idx + 1 \in 1..Len(q) /\ DOMAIN q = 1..Len(q) /\ Len(q) \in Nat
    BY <1>1
  <2>2. [q EXCEPT ![idx + 1] = p] \in [1..Len(q) -> Blocks]
    BY <2>1
  <2> QED
    BY <1>1, <2>1, <2>2 DEF MapAt
<1>2. CASE ~(idx < Len(q))
  BY <1>2 DEF MapAt
<1> QED
  BY <1>1, <1>2

(* What get_by_hash finds is a block that is registered. *)
LEMMA FindFacts ==
    ASSUME TypeOK, NEW c \in Contents, Find(c) # None
    PROVE  Find(c) \in Blocks /\ Find(c) = byHash[c] /\ Registered(Find(c))
  BY DEF TypeOK, Find
-----------------------------------------------------------------------------
(* The inductive invariant *)

\* Steps after which a call names a block, its own new block, its session.
WithBlock == {"acquire", "reacquire", "discard", "attach", "map", "purge"}
WithOwn   == {"put", "register", "reacquire", "discard"}

Locals ==
    \A w \in Workers :
        /\ pc[w] \in WithBlock => job[w].blk \in Blocks
        /\ pc[w] \in WithOwn => job[w].own \in Blocks
        /\ pc[w] \in Allocating => job[w].sess \in Sessions /\ job[w].want \in Contents
        /\ pc[w] \in Migrating => job[w].blk \in Blocks

\* A block id that a call has been issued and not yet registered is its own.
Fresh ==
    /\ \A p \in Blocks : refcount[p] > 0 => p \in issued
    /\ \A w \in Workers : pc[w] \in WithOwn =>
          job[w].own \in issued /\ ~(refcount[job[w].own] > 0)
    /\ \A v, w \in Workers :
          pc[v] \in WithOwn /\ pc[w] \in WithOwn /\ job[v].own = job[w].own => v = w

\* A registered block is the one its content is indexed under.
Indexed ==
    \A p \in Blocks : Registered(p) => hash[p] \in Contents /\ byHash[hash[p]] = p

IInv == TypeOK /\ Locals /\ Fresh /\ Indexed /\ HoldersCounted

(* A block attached to a dead session changes what at most one release has *)
(* left to do, and nothing else of anybody else's.                         *)
LEMMA DeadFacts ==
    ASSUME TypeOK, NEW w \in Workers, AttachToDead(w)
    PROVE  /\ pc[w] = "map" /\ pc'[w] \in {"idle", "insert"}
           /\ \A v \in Workers \ {w} :
                 /\ pc'[v] = pc[v] /\ job'[v].sess = job[v].sess
                 /\ job'[v].own = job[v].own /\ job'[v].blk = job[v].blk
                 /\ job'[v].want = job[v].want /\ job'[v].from = job[v].from
                 /\ job'[v].to = job[v].to
           /\ \E r \in Workers :
                 /\ \A v \in Workers \ {w, r} : job'[v] = job[v]
                 /\ r # w => job'[r].todo \subseteq job[r].todo \cup {job[w].blk}
<1>1. PICK r \in Workers :
         \A v \in Workers \ {w} :
            \/ job'[v] = job[v]
            \/ v = r /\ job'[v] = [job[v] EXCEPT !.todo = {}]
            \/ v = r /\ job'[v] = [job[v] EXCEPT !.todo = @ \cup {job[w].blk}]
  BY DEF AttachToDead
<1>2. \A v \in Workers : job[v] \in Jobs
  BY DEF TypeOK
<1>3. ASSUME NEW v \in Workers, NEW X, job'[v] = [job[v] EXCEPT !.todo = X]
      PROVE  /\ job'[v].sess = job[v].sess /\ job'[v].todo = X
             /\ job'[v].own = job[v].own /\ job'[v].blk = job[v].blk
             /\ job'[v].want = job[v].want /\ job'[v].from = job[v].from
             /\ job'[v].to = job[v].to
  BY <1>2, <1>3 DEF Jobs
<1>4. ASSUME NEW v \in Workers \ {w}
      PROVE  /\ job'[v].sess = job[v].sess
             /\ job'[v].own = job[v].own /\ job'[v].blk = job[v].blk
             /\ job'[v].want = job[v].want /\ job'[v].from = job[v].from
             /\ job'[v].to = job[v].to
             /\ job'[v].todo \subseteq job[v].todo \cup {job[w].blk}
  <2>1. CASE job'[v] = job[v]
    BY <2>1
  <2>2. CASE job'[v] = [job[v] EXCEPT !.todo = {}]
    BY <2>2, <1>3
  <2>3. CASE job'[v] = [job[v] EXCEPT !.todo = @ \cup {job[w].blk}]
    <3>1. job'[v] = [job[v] EXCEPT !.todo = job[v].todo \cup {job[w].blk}]
      BY <2>3
    <3> QED
      BY <3>1, <1>3
  <2> QED
    BY <1>1, <2>1, <2>2, <2>3
<1>7. /\ pc[w] = "map"
      /\ pc' = [pc EXCEPT ![w] = IF job[w].reuse THEN "idle" ELSE "insert"]
  BY DEF AttachToDead
<1>5. /\ pc[w] = "map" /\ pc'[w] \in {"idle", "insert"}
      /\ \A v \in Workers \ {w} : pc'[v] = pc[v]
  BY <1>7 DEF TypeOK
<1>6. \A v \in Workers \ {w, r} : job'[v] = job[v]
  BY <1>1
<1> QED
  BY <1>4, <1>5, <1>6

(* The index is a function, so no content has two registered blocks. *)
LEMMA IndexedIsExact == Indexed => OneBlockPerContent
  BY DEF Indexed, OneBlockPerContent

(* The invariant holds before the first call. *)
LEMMA InitIInv == Init => IInv
<1> SUFFICES ASSUME Init PROVE IInv
  OBVIOUS
<1>1. TypeOK
  BY NoJobType, L1IsTier DEF Init, TypeOK
<1>2. Locals /\ Fresh /\ Indexed
  BY DEF Init, Locals, Fresh, Indexed, Registered, WithBlock, WithOwn, Allocating, Migrating
<1>3. HoldersCounted
  <2> SUFFICES ASSUME NEW p \in Blocks PROVE Cardinality(Holders(p)) <= refcount[p]
    BY DEF HoldersCounted
  <2>1. Holders(p) = {}
    BY DEF Holders, Init, Pids, Releasing
  <2> QED
    BY <2>1, FS_EmptySet DEF Init
<1> QED
  BY <1>1, <1>2, <1>3 DEF IInv
-----------------------------------------------------------------------------
(* A store in which one payload is written or deleted has its type. *)
LEMMA StoreType ==
    ASSUME TypeOK, NEW t, NEW p, NEW d \in Contents \cup {None},
           store' = store \/ store' = [store EXCEPT ![t][p] = d]
    PROVE  store' \in [Tiers -> [Blocks -> Contents \cup {None}]]
<1>1. store \in [Tiers -> [Blocks -> Contents \cup {None}]]
  BY DEF TypeOK
<1>2. CASE store' = [store EXCEPT ![t][p] = d]
  <2>1. ASSUME t \in Tiers
        PROVE  [store[t] EXCEPT ![p] = d] \in [Blocks -> Contents \cup {None}]
    BY <1>1, <2>1
  <2> QED
    BY <1>1, <1>2, <2>1
<1> QED
  BY <1>1, <1>2

(* Every step keeps the types. *)
LEMMA TypeStep == TypeOK /\ Locals /\ [Next]_vars => TypeOK'
<1> SUFFICES ASSUME TypeOK, Locals, [Next]_vars PROVE TypeOK'
  OBVIOUS
<1> USE L1IsTier, NoJobType DEF Labels
<1>a. ASSUME NEW w \in Workers, Done(w)
      PROVE  pc' \in [Workers -> Labels] /\ job' \in [Workers -> Jobs]
  BY <1>a, GotoType, "idle" \in Labels DEF Done
<1>b. \A w \in Workers : job[w] \in Jobs
  BY DEF TypeOK
<1>1. ASSUME NEW w \in Workers, NEW s \in Sessions, CreateSession(w, s) PROVE TypeOK'
  BY <1>1 DEF TypeOK, CreateSession, physVars
<1>2. ASSUME NEW w \in Workers, NEW s \in Sessions, NEW c \in Contents, AllocateHit(w, s, c)
      PROVE  TypeOK'
  <2>1. [NoJob EXCEPT !.sess = s, !.want = c, !.blk = Find(c)] \in Jobs
    BY <1>2, FindFacts DEF AllocateHit, Jobs, NoJob
  <2>2. pc' \in [Workers -> Labels] /\ job' \in [Workers -> Jobs]
    BY <1>2, <2>1, GotoType, "acquire" \in Labels DEF AllocateHit, Allocating
  <2> QED
    BY <1>2, <2>2 DEF TypeOK, AllocateHit, physVars
<1>3. ASSUME NEW w \in Workers, NEW s \in Sessions, NEW c \in Contents, AllocateMiss(w, s, c)
      PROVE  TypeOK'
  <2>1. PICK p \in Blocks \ issued :
          /\ issued' = issued \cup {p}
          /\ Goto(w, "put", [NoJob EXCEPT !.sess = s, !.want = c, !.own = p])
    BY <1>3 DEF AllocateMiss
  <2>2. [NoJob EXCEPT !.sess = s, !.want = c, !.own = p] \in Jobs
    BY DEF Jobs, NoJob
  <2>3. pc' \in [Workers -> Labels] /\ job' \in [Workers -> Jobs]
    BY <2>1, <2>2, GotoType, "put" \in Labels DEF Allocating
  <2> QED
    BY <1>3, <2>1, <2>3 DEF TypeOK, AllocateMiss, physVars
<1>4. ASSUME NEW w \in Workers, NEW s \in Sessions, NEW c \in Contents, ReusePrefix(w, s, c)
      PROVE  TypeOK'
  <2>1. [NoJob EXCEPT !.sess = s, !.want = c, !.reuse = TRUE, !.blk = prefix[c]] \in Jobs
    BY DEF TypeOK, Jobs, NoJob
  <2>2. pc' \in [Workers -> Labels] /\ job' \in [Workers -> Jobs]
    BY <1>4, <1>a, <2>1, GotoType, "acquire" \in Labels DEF ReusePrefix, Allocating
  <2> QED
    BY <1>4, <2>2 DEF TypeOK, ReusePrefix, physVars
<1>5. ASSUME NEW w \in Workers, NEW label \in Labels, Acquire(w, label)
      PROVE  /\ pc' \in [Workers -> Labels] /\ job' \in [Workers -> Jobs]
             /\ refcount' \in [Blocks -> Nat]
  <2>1. pc' \in [Workers -> Labels] /\ job' \in [Workers -> Jobs]
    BY <1>5, <1>a, <1>b, GotoType DEF Acquire
  <2>2. refcount' \in [Blocks -> Nat]
    BY <1>5 DEF TypeOK, Acquire
  <2> QED
    BY <2>1, <2>2
<1>6. ASSUME NEW w \in Workers, AcquireFound(w) PROVE TypeOK'
  BY <1>6, <1>5, "attach" \in Labels DEF TypeOK, AcquireFound, sessVars, Allocating
<1>7. ASSUME NEW w \in Workers, PutPayload(w) PROVE TypeOK'
  <2>1. pc' \in [Workers -> Labels] /\ job' \in [Workers -> Jobs]
    BY <1>7, <1>b, GotoType, "register" \in Labels DEF PutPayload, Allocating
  <2>2. job[w].want \in Contents \cup {None}
    BY <1>b DEF Jobs
  <2>3. store' \in [Tiers -> [Blocks -> Contents \cup {None}]]
    BY <1>7, <2>2 DEF TypeOK, PutPayload
  <2> QED
    BY <1>7, <2>1, <2>3 DEF TypeOK, PutPayload, physVars, sessVars
<1>8. ASSUME NEW w \in Workers, Register(w) PROVE TypeOK'
  <2>1. job[w].own \in Blocks /\ job[w].want \in Contents
    BY <1>8 DEF Register, Locals, WithOwn, Allocating
  <2>2. [job[w] EXCEPT !.blk = job[w].own] \in Jobs
    BY <1>b DEF Jobs
  <2>3. pc' \in [Workers -> Labels] /\ job' \in [Workers -> Jobs]
    BY <1>8, <2>2, GotoType, "attach" \in Labels DEF Register, Allocating
  <2> QED
    BY <1>8, <2>1, <2>3 DEF TypeOK, Register, sessVars
<1>9. ASSUME NEW w \in Workers, RegisterLost(w) PROVE TypeOK'
  <2>1. job[w].want \in Contents /\ Find(job[w].want) \in Blocks
    BY <1>9, FindFacts DEF RegisterLost, Locals, Allocating
  <2>2. [job[w] EXCEPT !.blk = Find(job[w].want)] \in Jobs
    BY <1>b, <2>1 DEF Jobs
  <2>3. pc' \in [Workers -> Labels] /\ job' \in [Workers -> Jobs]
    BY <1>9, <2>2, GotoType, "reacquire" \in Labels DEF RegisterLost, Allocating
  <2> QED
    BY <1>9, <2>3 DEF TypeOK, RegisterLost, physVars, sessVars
<1>10. ASSUME NEW w \in Workers, Reacquire(w) PROVE TypeOK'
  BY <1>10, <1>5, "discard" \in Labels DEF TypeOK, Reacquire, sessVars, Allocating
<1>11. ASSUME NEW w \in Workers, DiscardOwn(w) PROVE TypeOK'
  <2>1. pc' \in [Workers -> Labels] /\ job' \in [Workers -> Jobs]
    BY <1>11, <1>b, GotoType, "attach" \in Labels DEF DiscardOwn, Allocating
  <2> QED
    BY <1>11, <2>1 DEF TypeOK, DiscardOwn, physVars, sessVars
<1>12. ASSUME NEW w \in Workers, ReadIndex(w) PROVE TypeOK'
  <2> DEFINE read == [job[w] EXCEPT !.idx = Len(logical[job[w].sess]), !.lgone = FALSE]
  <2>1. job[w].sess \in Sessions
    BY <1>12 DEF ReadIndex, Locals, Allocating
  <2>0. Len(logical[job[w].sess]) \in Nat
    BY <2>1 DEF TypeOK
  <2>2. read \in Jobs
    BY <1>b, <2>0 DEF Jobs
  <2>3. Goto(w, "map", read) \/ Done(w)
    BY <1>12 DEF ReadIndex
  <2> HIDE DEF read
  <2>4. pc' \in [Workers -> Labels] /\ job' \in [Workers -> Jobs]
    BY <2>2, <2>3, <1>a, GotoType, "map" \in Labels DEF Allocating
  <2> QED
    BY <1>12, <2>4 DEF TypeOK, ReadIndex, physVars, sessVars
<1>c. ASSUME NEW w \in Workers PROVE Inserting(w) \in Jobs
  BY <1>b DEF Inserting, NoJob, Jobs
<1>d. ASSUME NEW w \in Workers, pc[w] = "map"
      PROVE  /\ job[w].sess \in Sessions /\ job[w].blk \in Blocks
             /\ MapAt(logical[job[w].sess], job[w].idx, job[w].blk) \in Seq(Blocks)
  <2>1. job[w].sess \in Sessions /\ job[w].blk \in Blocks /\ job[w].idx \in Nat
    BY <1>b, <1>d DEF Locals, Allocating, WithBlock, Jobs
  <2> QED
    BY <2>1, MapAtType DEF TypeOK
<1>13. ASSUME NEW w \in Workers, AttachTo(w) PROVE TypeOK'
  <2>1. pc' \in [Workers -> Labels] /\ job' \in [Workers -> Jobs]
    BY <1>13, <1>a, <1>c, GotoType, "insert" \in Labels DEF AttachTo
  <2>2. Append(blocks[job[w].sess], job[w].blk) \in Seq(Blocks)
    BY <1>13, <1>d DEF AttachTo, TypeOK
  <2> QED
    BY <1>13, <1>d, <2>1, <2>2 DEF TypeOK, AttachTo, physVars
<1>14. ASSUME NEW w \in Workers, AttachToDead(w) PROVE TypeOK'
  <2>1. /\ \A v \in Workers : [job[v] EXCEPT !.todo = {}] \in Jobs
        /\ \A v \in Workers, p \in Blocks : [job[v] EXCEPT !.todo = @ \cup {p}] \in Jobs
    BY <1>b DEF Jobs
  <2>2. job' \in [Workers -> Jobs]
    <3>1. job[w].blk \in Blocks
      BY <1>14, <1>d DEF AttachToDead
    <3> QED
      BY <1>14, <1>a, <1>b, <1>c, <2>1, <3>1 DEF AttachToDead
  <2>3. pc' \in [Workers -> Labels]
    BY <1>14 DEF AttachToDead, TypeOK
  <2> QED
    BY <1>14, <1>d, <2>2, <2>3 DEF TypeOK, AttachToDead, physVars
<1>15. ASSUME NEW w \in Workers, InsertPrefix(w) PROVE TypeOK'
  <2>1. job[w].blk \in Blocks \cup {None}
    BY <1>b DEF Jobs
  <2>2. prefix' \in [Contents -> Blocks \cup {None}]
    BY <1>15, <2>1 DEF TypeOK, InsertPrefix
  <2>3. pc' \in [Workers -> Labels] /\ job' \in [Workers -> Jobs]
    BY <1>15, <1>a DEF InsertPrefix
  <2> QED
    BY <1>15, <2>2, <2>3 DEF TypeOK, InsertPrefix, physVars, sessVars
<1>16. ASSUME NEW w \in Workers, NEW s \in Sessions, ReleaseSession(w, s) PROVE TypeOK'
  <2>1. \A v \in Workers : [job[v] EXCEPT !.gone = TRUE, !.lgone = TRUE] \in Jobs
    BY <1>b DEF Jobs
  <2>0. Pids(blocks[s]) \in SUBSET Blocks
    BY DEF Pids, TypeOK
  <2>2. [NoJob EXCEPT !.sess = s, !.todo = Pids(blocks[s])] \in Jobs
    BY <2>0 DEF NoJob, Jobs
  <2>3. job' \in [Workers -> Jobs]
    BY <1>16, <1>b, <2>1, <2>2 DEF ReleaseSession
  <2>4. pc' \in [Workers -> Labels]
    BY <1>16 DEF ReleaseSession, TypeOK, Releasing
  <2>5. << >> \in Seq(Blocks)
    OBVIOUS
  <2> QED
    BY <1>16, <2>3, <2>4, <2>5 DEF TypeOK, ReleaseSession, physVars
<1>e. ASSUME NEW w \in Workers, ReleaseBegins(w) PROVE TypeOK'
  <2>1. pc' \in [Workers -> Labels] /\ job' \in [Workers -> Jobs]
    BY <1>e, <1>b, GotoType, "release" \in Labels DEF ReleaseBegins, Releasing
  <2> QED
    BY <1>e, <2>1 DEF TypeOK, ReleaseBegins, physVars, sessVars
<1>17. ASSUME NEW w \in Workers, DropReference(w) PROVE TypeOK'
  <2> DEFINE left(p) == IF Registered(p) THEN refcount[p] - 1 ELSE 0
             rest(p) == [job[w] EXCEPT !.todo = @ \ {p}]
             purge(p) == [rest(p) EXCEPT !.blk = p, !.to = L1]
  <2>1. PICK p \in job[w].todo :
          /\ refcount' = [refcount EXCEPT ![p] = left(p)]
          /\ byHash' = IF Registered(p) /\ left(p) = 0
                       THEN [byHash EXCEPT ![hash[p]] = None] ELSE byHash
          /\ IF left(p) = 0 THEN Goto(w, "purge", purge(p))
             ELSE Goto(w, "release", rest(p))
    BY <1>17 DEF DropReference
  <2>2. p \in Blocks /\ rest(p) \in Jobs /\ purge(p) \in Jobs
    BY <1>b DEF Jobs
  <2>3. left(p) \in Nat
    BY <2>2 DEF TypeOK, Registered
  <2> HIDE DEF left, rest, purge
  <2>4. pc' \in [Workers -> Labels] /\ job' \in [Workers -> Jobs]
    BY <2>1, <2>2, GotoType, "purge" \in Labels, "release" \in Labels DEF Releasing
  <2>5. refcount' \in [Blocks -> Nat] /\ byHash' \in [Contents -> Blocks \cup {None}]
    BY <2>1, <2>2, <2>3 DEF TypeOK
  <2> QED
    BY <1>17, <2>4, <2>5 DEF TypeOK, DropReference, sessVars
<1>18. ASSUME NEW w \in Workers, PurgeTier(w) PROVE TypeOK'
  <2>1. job[w].to + 1 \in Tiers => [job[w] EXCEPT !.to = job[w].to + 1] \in Jobs
    BY <1>b DEF Jobs
  <2>2. pc' \in [Workers -> Labels] /\ job' \in [Workers -> Jobs]
    BY <1>18, <1>b, <2>1, GotoType, "purge" \in Labels, "release" \in Labels
    DEF PurgeTier, Releasing
  <2>3. store' = store \/ store' = [store EXCEPT ![job[w].to][job[w].blk] = None]
    BY <1>18 DEF PurgeTier
  <2>4. store' \in [Tiers -> [Blocks -> Contents \cup {None}]]
    BY <2>3, StoreType
  <2> QED
    BY <1>18, <2>2, <2>4 DEF TypeOK, PurgeTier, physVars, sessVars
<1>19. ASSUME NEW w \in Workers, ReleaseEnd(w) PROVE TypeOK'
  BY <1>19, <1>a DEF TypeOK, ReleaseEnd, physVars, sessVars
<1>20. ASSUME NEW w \in Workers, NEW p \in Blocks, NEW t \in Tiers, MigrateBlock(w, p, t)
       PROVE  TypeOK'
  <2>1. [NoJob EXCEPT !.blk = p, !.from = tier[p], !.to = t] \in Jobs
    BY DEF TypeOK, NoJob, Jobs
  <2>2. pc' \in [Workers -> Labels] /\ job' \in [Workers -> Jobs]
    BY <1>20, <2>1, GotoType, "get" \in Labels DEF MigrateBlock, Migrating
  <2> QED
    BY <1>20, <2>2 DEF TypeOK, MigrateBlock, physVars, sessVars
<1>21. ASSUME NEW w \in Workers, MigrateGet(w) PROVE TypeOK'
  <2> DEFINE data == store[job[w].from][job[w].blk]
  <2>1. pc[w] = "get" /\ job[w].from \in Tiers /\ job[w].blk \in Blocks
    BY <1>21, <1>b DEF MigrateGet, Locals, Migrating, Jobs
  <2>2. data \in Contents \cup {None}
    BY <2>1 DEF TypeOK
  <2>3. Goto(w, "copy", [job[w] EXCEPT !.want = data]) \/ Done(w)
    BY <1>21 DEF MigrateGet
  <2> HIDE DEF data
  <2>4. [job[w] EXCEPT !.want = data] \in Jobs
    BY <1>b, <2>2 DEF Jobs
  <2>5. pc' \in [Workers -> Labels] /\ job' \in [Workers -> Jobs]
    BY <2>3, <2>4, <1>a, GotoType, "copy" \in Labels DEF Migrating
  <2> QED
    BY <1>21, <2>5 DEF TypeOK, MigrateGet, physVars, sessVars
<1>22. ASSUME NEW w \in Workers, MigratePut(w) PROVE TypeOK'
  <2>1. pc' \in [Workers -> Labels] /\ job' \in [Workers -> Jobs]
    BY <1>22, <1>b, GotoType, "drop" \in Labels DEF MigratePut, Migrating
  <2>2. job[w].want \in Contents \cup {None}
    BY <1>b DEF Jobs
  <2>3. store' \in [Tiers -> [Blocks -> Contents \cup {None}]]
    BY <1>22, <2>2 DEF TypeOK, MigratePut
  <2> QED
    BY <1>22, <2>1, <2>3 DEF TypeOK, MigratePut, physVars, sessVars
<1>23. ASSUME NEW w \in Workers, MigrateDelete(w) PROVE TypeOK'
  <2>1. pc' \in [Workers -> Labels] /\ job' \in [Workers -> Jobs]
    BY <1>23, <1>b, GotoType, "retier" \in Labels DEF MigrateDelete, Migrating
  <2>2. store' \in [Tiers -> [Blocks -> Contents \cup {None}]]
    BY <1>23 DEF TypeOK, MigrateDelete
  <2> QED
    BY <1>23, <2>1, <2>2 DEF TypeOK, MigrateDelete, physVars, sessVars
<1>24. ASSUME NEW w \in Workers, MigrateUpdate(w) PROVE TypeOK'
  <2>1. job[w].to \in Tiers
    BY <1>b DEF Jobs
  <2> QED
    BY <1>24, <1>a, <2>1 DEF TypeOK, MigrateUpdate, sessVars
<1>25. ASSUME NEW w \in Workers, MigrateFails(w) PROVE TypeOK'
  <2>1. pc' \in [Workers -> Labels] /\ job' \in [Workers -> Jobs]
    BY <1>25, <1>a DEF MigrateFails
  <2>2. \/ store' = store
        \/ \E rest \in Contents : store' = [store EXCEPT ![job[w].to][job[w].blk] = rest]
    BY <1>25 DEF MigrateFails
  <2>3. store' \in [Tiers -> [Blocks -> Contents \cup {None}]]
    BY <2>2, StoreType
  <2> QED
    BY <1>25, <2>1, <2>3 DEF TypeOK, MigrateFails, physVars, sessVars
<1>26. CASE UNCHANGED vars
  BY <1>26 DEF TypeOK, vars
<1> QED
  BY <1>1, <1>2, <1>3, <1>4, <1>6, <1>7, <1>8, <1>9, <1>10, <1>11, <1>12, <1>13,
     <1>14, <1>15, <1>16, <1>17, <1>18, <1>19, <1>20, <1>21, <1>22, <1>23, <1>24, <1>e,
     <1>25, <1>26, MigratorsWork
  DEF Next, Allocate, Release, Migrate
-----------------------------------------------------------------------------
(* A step that moves one worker keeps Locals if its new locals do. *)
LEMMA LocalsGoto ==
    ASSUME TypeOK, Locals, NEW w \in Workers, NEW label, NEW locals, Goto(w, label, locals),
           label \in WithBlock \cup Migrating => locals.blk \in Blocks,
           label \in WithOwn => locals.own \in Blocks,
           label \in Allocating => locals.sess \in Sessions /\ locals.want \in Contents
    PROVE  Locals'
  BY GotoFacts DEF Locals

(* A call that ends keeps Locals. *)
LEMMA LocalsDone == ASSUME TypeOK, Locals, NEW w \in Workers, Done(w) PROVE Locals'
  BY LocalsGoto DEF Done, WithBlock, WithOwn, Allocating, Migrating

(* What a call knows at each of its steps stays known. *)
LEMMA LocalsStep == TypeOK /\ Locals /\ [Next]_vars => Locals'
<1> SUFFICES ASSUME TypeOK, Locals, [Next]_vars PROVE Locals'
  OBVIOUS
<1> USE DEF WithBlock, WithOwn, Allocating, Releasing, Migrating
<1>b. \A w \in Workers : job[w] \in Jobs
  BY DEF TypeOK
<1>1. ASSUME NEW w \in Workers, NEW s \in Sessions, CreateSession(w, s) PROVE Locals'
  BY <1>1 DEF Locals, CreateSession
<1>2. ASSUME NEW w \in Workers, NEW s \in Sessions, NEW c \in Contents, AllocateHit(w, s, c)
      PROVE  Locals'
  BY <1>2, FindFacts, LocalsGoto DEF AllocateHit, NoJob
<1>3. ASSUME NEW w \in Workers, NEW s \in Sessions, NEW c \in Contents, AllocateMiss(w, s, c)
      PROVE  Locals'
  BY <1>3, LocalsGoto DEF AllocateMiss, NoJob
<1>4. ASSUME NEW w \in Workers, NEW s \in Sessions, NEW c \in Contents, ReusePrefix(w, s, c)
      PROVE  Locals'
  <2>1. prefix[c] \in Blocks
    BY <1>4 DEF ReusePrefix, TypeOK
  <2> QED
    BY <1>4, <2>1, LocalsGoto, LocalsDone DEF ReusePrefix, NoJob
<1>5. ASSUME NEW w \in Workers, AcquireFound(w) PROVE Locals'
  <2>1. job[w].blk \in Blocks /\ job[w].sess \in Sessions /\ job[w].want \in Contents
    BY <1>5 DEF AcquireFound, Locals
  <2> QED
    BY <1>5, <2>1, LocalsGoto, LocalsDone DEF AcquireFound, Acquire
<1>6. ASSUME NEW w \in Workers, PutPayload(w) PROVE Locals'
  <2>1. job[w].own \in Blocks /\ job[w].sess \in Sessions /\ job[w].want \in Contents
    BY <1>6 DEF PutPayload, Locals
  <2> QED
    BY <1>6, <2>1, LocalsGoto DEF PutPayload
<1>7. ASSUME NEW w \in Workers, Register(w) PROVE Locals'
  <2> DEFINE new == [job[w] EXCEPT !.blk = job[w].own]
  <2>1. new.blk \in Blocks /\ new.sess \in Sessions /\ new.want \in Contents
    BY <1>7, <1>b DEF Register, Locals, Jobs
  <2>2. Goto(w, "attach", new)
    BY <1>7 DEF Register
  <2> HIDE DEF new
  <2> QED
    BY <2>1, <2>2, LocalsGoto
<1>8. ASSUME NEW w \in Workers, RegisterLost(w) PROVE Locals'
  <2> DEFINE new == [job[w] EXCEPT !.blk = Find(job[w].want)]
  <2>1. job[w].want \in Contents /\ Find(job[w].want) \in Blocks
    BY <1>8, FindFacts DEF RegisterLost, Locals
  <2>2. /\ new.blk \in Blocks /\ new.own \in Blocks
        /\ new.sess \in Sessions /\ new.want \in Contents
    BY <1>8, <1>b, <2>1 DEF RegisterLost, Locals, Jobs
  <2>3. Goto(w, "reacquire", new)
    BY <1>8 DEF RegisterLost
  <2> HIDE DEF new
  <2> QED
    BY <2>2, <2>3, LocalsGoto
<1>9. ASSUME NEW w \in Workers, Reacquire(w) PROVE Locals'
  <2>1. /\ job[w].blk \in Blocks /\ job[w].own \in Blocks
        /\ job[w].sess \in Sessions /\ job[w].want \in Contents
    BY <1>9 DEF Reacquire, Locals
  <2> QED
    BY <1>9, <2>1, LocalsGoto, LocalsDone DEF Reacquire, Acquire
<1>10. ASSUME NEW w \in Workers, DiscardOwn(w) PROVE Locals'
  <2>1. job[w].blk \in Blocks /\ job[w].sess \in Sessions /\ job[w].want \in Contents
    BY <1>10 DEF DiscardOwn, Locals
  <2> QED
    BY <1>10, <2>1, LocalsGoto DEF DiscardOwn
<1>11. ASSUME NEW w \in Workers, ReadIndex(w) PROVE Locals'
  <2> DEFINE read == [job[w] EXCEPT !.idx = Len(logical[job[w].sess]), !.lgone = FALSE]
  <2>1. read.blk \in Blocks /\ read.sess \in Sessions /\ read.want \in Contents
    BY <1>11, <1>b DEF ReadIndex, Locals, Jobs
  <2>2. Goto(w, "map", read) \/ Done(w)
    BY <1>11 DEF ReadIndex
  <2> HIDE DEF read
  <2> QED
    BY <2>1, <2>2, LocalsGoto, LocalsDone
<1>12. ASSUME NEW w \in Workers, AttachTo(w) PROVE Locals'
  BY <1>12, LocalsGoto, LocalsDone DEF AttachTo
<1>13. ASSUME NEW w \in Workers, AttachToDead(w) PROVE Locals'
  <2>1. pc'[w] \in {"idle", "insert"} /\ \A v \in Workers : v # w =>
          /\ pc'[v] = pc[v]
          /\ job'[v].blk = job[v].blk /\ job'[v].own = job[v].own
          /\ job'[v].sess = job[v].sess /\ job'[v].want = job[v].want
    BY <1>13, <1>b, DeadFacts
  <2> QED
    BY <2>1 DEF Locals
<1>14. ASSUME NEW w \in Workers, InsertPrefix(w) PROVE Locals'
  BY <1>14, LocalsDone DEF InsertPrefix
<1>15. ASSUME NEW w \in Workers, NEW s \in Sessions, ReleaseSession(w, s) PROVE Locals'
  <2>1. pc'[w] = "popped" /\ \A v \in Workers : v # w =>
          /\ pc'[v] = pc[v]
          /\ job'[v].blk = job[v].blk /\ job'[v].own = job[v].own
          /\ job'[v].sess = job[v].sess /\ job'[v].want = job[v].want
    BY <1>15, <1>b DEF ReleaseSession, TypeOK, Jobs
  <2> QED
    BY <2>1 DEF Locals
<1>e. ASSUME NEW w \in Workers, ReleaseBegins(w) PROVE Locals'
  BY <1>e, LocalsGoto DEF ReleaseBegins
<1>16. ASSUME NEW w \in Workers, DropReference(w) PROVE Locals'
  <2> DEFINE rest(p) == [job[w] EXCEPT !.todo = @ \ {p}]
             purge(p) == [rest(p) EXCEPT !.blk = p, !.to = L1]
  <2>1. PICK p \in job[w].todo : Goto(w, "purge", purge(p)) \/ Goto(w, "release", rest(p))
    BY <1>16 DEF DropReference
  <2>2. purge(p).blk \in Blocks
    BY <1>b DEF Jobs
  <2> HIDE DEF purge, rest
  <2> QED
    BY <2>1, <2>2, LocalsGoto
<1>17. ASSUME NEW w \in Workers, PurgeTier(w) PROVE Locals'
  <2> DEFINE next == [job[w] EXCEPT !.to = job[w].to + 1]
  <2>1. next.blk \in Blocks
    BY <1>17, <1>b DEF PurgeTier, Locals, Jobs
  <2>2. Goto(w, "release", job[w]) \/ Goto(w, "purge", next)
    BY <1>17 DEF PurgeTier
  <2> HIDE DEF next
  <2> QED
    BY <2>1, <2>2, LocalsGoto
<1>18. ASSUME NEW w \in Workers, ReleaseEnd(w) PROVE Locals'
  BY <1>18, LocalsDone DEF ReleaseEnd
<1>19. ASSUME NEW w \in Workers, NEW p \in Blocks, NEW t \in Tiers, MigrateBlock(w, p, t)
       PROVE  Locals'
  BY <1>19, LocalsGoto DEF MigrateBlock, NoJob
<1>20. ASSUME NEW w \in Workers, MigrateGet(w) PROVE Locals'
  <2> DEFINE got == [job[w] EXCEPT !.want = store[job[w].from][job[w].blk]]
  <2>1. got.blk \in Blocks
    BY <1>20, <1>b DEF MigrateGet, Locals, Jobs
  <2>2. Goto(w, "copy", got) \/ Done(w)
    BY <1>20 DEF MigrateGet
  <2> HIDE DEF got
  <2> QED
    BY <2>1, <2>2, LocalsGoto, LocalsDone
<1>21. ASSUME NEW w \in Workers, MigratePut(w) PROVE Locals'
  <2>1. job[w].blk \in Blocks
    BY <1>21 DEF MigratePut, Locals
  <2> QED
    BY <1>21, <2>1, LocalsGoto DEF MigratePut
<1>22. ASSUME NEW w \in Workers, MigrateDelete(w) PROVE Locals'
  <2>1. job[w].blk \in Blocks
    BY <1>22 DEF MigrateDelete, Locals
  <2> QED
    BY <1>22, <2>1, LocalsGoto DEF MigrateDelete
<1>23. ASSUME NEW w \in Workers, MigrateUpdate(w) PROVE Locals'
  BY <1>23, LocalsDone DEF MigrateUpdate
<1>24. ASSUME NEW w \in Workers, MigrateFails(w) PROVE Locals'
  BY <1>24, LocalsDone DEF MigrateFails
<1>25. CASE UNCHANGED vars
  BY <1>25 DEF Locals, vars
<1> QED
  BY <1>1, <1>2, <1>3, <1>4, <1>5, <1>6, <1>7, <1>8, <1>9, <1>10, <1>11, <1>12, <1>13,
     <1>14, <1>15, <1>16, <1>17, <1>18, <1>19, <1>20, <1>21, <1>22, <1>23, <1>24, <1>e,
     <1>25, MigratorsWork
  DEF Next, Allocate, Release, Migrate
-----------------------------------------------------------------------------
(* A step that registers nothing and issues no id keeps Fresh, unless it   *)
(* gives its worker a new block of its own.                                *)
LEMMA FreshGoto ==
    ASSUME TypeOK, Locals, Fresh,
           NEW w \in Workers, NEW label, NEW locals, Goto(w, label, locals),
           issued' = issued, \A p \in Blocks : refcount'[p] > 0 => refcount[p] > 0,
           label \in WithOwn => pc[w] \in WithOwn /\ locals.own = job[w].own
    PROVE  Fresh'
<1>1. \A v \in Workers : pc'[v] \in WithOwn =>
        pc[v] \in WithOwn /\ job'[v].own = job[v].own /\ job[v].own \in Blocks
  BY GotoFacts DEF Locals
<1> QED
  BY <1>1 DEF Fresh

(* A call that ends keeps Fresh. *)
LEMMA FreshDone ==
    ASSUME TypeOK, Locals, Fresh, NEW w \in Workers, Done(w), issued' = issued,
           \A p \in Blocks : refcount'[p] > 0 => refcount[p] > 0
    PROVE  Fresh'
  BY FreshGoto DEF Done, WithOwn

(* The id of a new block is not used by anyone until the block has one user. *)
LEMMA FreshStep == TypeOK /\ Locals /\ Fresh /\ [Next]_vars => Fresh'
<1> SUFFICES ASSUME TypeOK, Locals, Fresh, [Next]_vars PROVE Fresh'
  OBVIOUS
<1> USE DEF WithOwn, physVars
<1>b. \A v \in Workers : job[v] \in Jobs
  BY DEF TypeOK
<1>1. ASSUME NEW w \in Workers, NEW s \in Sessions, CreateSession(w, s) PROVE Fresh'
  BY <1>1 DEF Fresh, CreateSession
<1>2. ASSUME NEW w \in Workers, NEW s \in Sessions, NEW c \in Contents, AllocateHit(w, s, c)
      PROVE  Fresh'
  BY <1>2, FreshGoto DEF AllocateHit
<1>3. ASSUME NEW w \in Workers, NEW s \in Sessions, NEW c \in Contents, AllocateMiss(w, s, c)
      PROVE  Fresh'
  <2>1. PICK p \in Blocks \ issued :
          /\ issued' = issued \cup {p}
          /\ Goto(w, "put", [NoJob EXCEPT !.sess = s, !.want = c, !.own = p])
    BY <1>3 DEF AllocateMiss
  <2> DEFINE new == [NoJob EXCEPT !.sess = s, !.want = c, !.own = p]
  <2>4. new.own = p
    BY DEF NoJob
  <2> HIDE DEF new
  <2>5. Goto(w, "put", new)
    BY <2>1 DEF new
  <2>2. /\ job'[w].own = p /\ pc'[w] = "put"
        /\ \A v \in Workers : v # w => pc'[v] = pc[v] /\ job'[v] = job[v]
    BY <2>4, <2>5, GotoFacts
  <2>3. refcount' = refcount /\ pc[w] = "idle"
    BY <1>3 DEF AllocateMiss
  <2> QED
    BY <2>1, <2>2, <2>3 DEF Fresh
<1>4. ASSUME NEW w \in Workers, NEW s \in Sessions, NEW c \in Contents, ReusePrefix(w, s, c)
      PROVE  Fresh'
  BY <1>4, FreshGoto, FreshDone DEF ReusePrefix
<1>5. ASSUME NEW w \in Workers, NEW label, label \in WithOwn => pc[w] \in WithOwn,
             Acquire(w, label), issued' = issued
      PROVE  Fresh'
  <2>1. \A p \in Blocks : refcount'[p] > 0 => refcount[p] > 0
    BY <1>5 DEF Acquire, TypeOK, Registered
  <2> QED
    BY <1>5, <2>1, FreshGoto, FreshDone DEF Acquire
<1>6. ASSUME NEW w \in Workers, AcquireFound(w) PROVE Fresh'
  BY <1>6, <1>5 DEF AcquireFound
<1>7. ASSUME NEW w \in Workers, PutPayload(w) PROVE Fresh'
  BY <1>7, FreshGoto DEF PutPayload
<1>8. ASSUME NEW w \in Workers, Register(w) PROVE Fresh'
  <2>1. job[w].own \in Blocks /\ job[w].own \in issued
    BY <1>8 DEF Register, Locals, Fresh
  <2>2. /\ pc'[w] = "attach"
        /\ \A v \in Workers : v # w => pc'[v] = pc[v] /\ job'[v] = job[v]
    BY <1>8, GotoFacts DEF Register
  <2>3. refcount' = [refcount EXCEPT ![job[w].own] = 1] /\ issued' = issued /\ pc[w] = "register"
    BY <1>8 DEF Register
  <2>4. \A v \in Workers : v # w /\ pc[v] \in WithOwn =>
          job[v].own # job[w].own /\ job[v].own \in Blocks
    BY <2>3 DEF Fresh, Locals
  <2> QED
    BY <2>1, <2>2, <2>3, <2>4 DEF Fresh, TypeOK
<1>9. ASSUME NEW w \in Workers, RegisterLost(w) PROVE Fresh'
  <2> DEFINE new == [job[w] EXCEPT !.blk = Find(job[w].want)]
  <2>1. new.own = job[w].own
    BY <1>b DEF Jobs
  <2>2. Goto(w, "reacquire", new)
    BY <1>9 DEF RegisterLost
  <2> HIDE DEF new
  <2> QED
    BY <1>9, <2>1, <2>2, FreshGoto DEF RegisterLost
<1>10. ASSUME NEW w \in Workers, Reacquire(w) PROVE Fresh'
  BY <1>10, <1>5 DEF Reacquire
<1>11. ASSUME NEW w \in Workers, DiscardOwn(w) PROVE Fresh'
  BY <1>11, FreshGoto DEF DiscardOwn
<1>12. ASSUME NEW w \in Workers, ReadIndex(w) PROVE Fresh'
  BY <1>12, FreshGoto, FreshDone DEF ReadIndex
<1>13. ASSUME NEW w \in Workers, AttachTo(w) PROVE Fresh'
  BY <1>13, FreshGoto, FreshDone DEF AttachTo
<1>14. ASSUME NEW w \in Workers, AttachToDead(w) PROVE Fresh'
  <2>1. \A v \in Workers : pc'[v] \in WithOwn => pc[v] \in WithOwn /\ job'[v].own = job[v].own
    BY <1>14, <1>b, DeadFacts
  <2>2. refcount' = refcount /\ issued' = issued
    BY <1>14 DEF AttachToDead
  <2> QED
    BY <2>1, <2>2 DEF Fresh
<1>15. ASSUME NEW w \in Workers, InsertPrefix(w) PROVE Fresh'
  BY <1>15, FreshDone DEF InsertPrefix
<1>16. ASSUME NEW w \in Workers, NEW s \in Sessions, ReleaseSession(w, s) PROVE Fresh'
  <2>1. \A v \in Workers : pc'[v] \in WithOwn => pc[v] \in WithOwn /\ job'[v].own = job[v].own
    BY <1>16, <1>b DEF ReleaseSession, TypeOK, Jobs
  <2>2. refcount' = refcount /\ issued' = issued
    BY <1>16 DEF ReleaseSession
  <2> QED
    BY <2>1, <2>2 DEF Fresh
<1>e. ASSUME NEW w \in Workers, ReleaseBegins(w) PROVE Fresh'
  BY <1>e, FreshGoto DEF ReleaseBegins
<1>17. ASSUME NEW w \in Workers, DropReference(w) PROVE Fresh'
  <2>1. PICK p, label, rest :
          /\ p \in job[w].todo /\ label \in {"purge", "release"}
          /\ refcount' = [refcount EXCEPT ![p] = IF Registered(p) THEN refcount[p] - 1 ELSE 0]
          /\ Goto(w, label, rest)
    BY <1>17 DEF DropReference
  <2>2. \A q \in Blocks : refcount'[q] > 0 => refcount[q] > 0
    BY <2>1 DEF TypeOK, Registered
  <2> QED
    BY <1>17, <2>1, <2>2, FreshGoto DEF DropReference
<1>18. ASSUME NEW w \in Workers, PurgeTier(w) PROVE Fresh'
  BY <1>18, FreshGoto DEF PurgeTier
<1>19. ASSUME NEW w \in Workers, ReleaseEnd(w) PROVE Fresh'
  BY <1>19, FreshDone DEF ReleaseEnd
<1>20. ASSUME NEW w \in Workers, NEW p \in Blocks, NEW t \in Tiers, MigrateBlock(w, p, t)
       PROVE  Fresh'
  BY <1>20, FreshGoto DEF MigrateBlock
<1>21. ASSUME NEW w \in Workers, MigrateGet(w) PROVE Fresh'
  BY <1>21, FreshGoto, FreshDone DEF MigrateGet
<1>22. ASSUME NEW w \in Workers, MigratePut(w) PROVE Fresh'
  BY <1>22, FreshGoto DEF MigratePut
<1>23. ASSUME NEW w \in Workers, MigrateDelete(w) PROVE Fresh'
  BY <1>23, FreshGoto DEF MigrateDelete
<1>24. ASSUME NEW w \in Workers, MigrateUpdate(w) PROVE Fresh'
  BY <1>24, FreshDone DEF MigrateUpdate
<1>25. ASSUME NEW w \in Workers, MigrateFails(w) PROVE Fresh'
  BY <1>25, FreshDone DEF MigrateFails
<1>26. CASE UNCHANGED vars
  BY <1>26 DEF Fresh, vars
<1> QED
  BY <1>1, <1>2, <1>3, <1>4, <1>6, <1>7, <1>8, <1>9, <1>10, <1>11, <1>12, <1>13,
     <1>14, <1>15, <1>16, <1>17, <1>18, <1>19, <1>20, <1>21, <1>22, <1>23, <1>24, <1>e,
     <1>25, <1>26, MigratorsWork
  DEF Next, Allocate, Release, Migrate
-----------------------------------------------------------------------------
(* A step that changes no count and no record keeps the index exact. *)
LEMMA IndexedQuiet ==
    ASSUME Indexed, UNCHANGED <<refcount, hash, byHash>>
    PROVE  Indexed'
  BY DEF Indexed, Registered

(* The index names the registered block of every content. *)
LEMMA IndexedStep == TypeOK /\ Locals /\ Indexed /\ [Next]_vars => Indexed'
<1> SUFFICES ASSUME TypeOK, Locals, Indexed, [Next]_vars PROVE Indexed'
  OBVIOUS
<1>1. ASSUME NEW w \in Workers, NEW label, Acquire(w, label), UNCHANGED <<hash, byHash>>
      PROVE  Indexed'
  <2>1. \A p \in Blocks : refcount'[p] > 0 => refcount[p] > 0
    BY <1>1 DEF Acquire, TypeOK, Registered
  <2> QED
    BY <1>1, <2>1 DEF Indexed, Registered
<1>2. ASSUME NEW w \in Workers, Register(w) PROVE Indexed'
  <2> DEFINE own == job[w].own
             c == job[w].want
  <2>1. own \in Blocks /\ c \in Contents
    BY <1>2 DEF Register, Locals, WithOwn, Allocating
  <2>2. /\ refcount' = [refcount EXCEPT ![own] = 1]
        /\ hash' = [hash EXCEPT ![own] = c] /\ byHash' = [byHash EXCEPT ![c] = own]
        /\ Find(c) = None
    BY <1>2 DEF Register
  <2>3. \A p \in Blocks : Registered(p) => hash[p] # c
    BY <2>2, NoneIsNothing DEF Find, Indexed
  <2> HIDE DEF own, c
  <2> QED
    BY <2>1, <2>2, <2>3 DEF Indexed, Registered, TypeOK
<1>3. ASSUME NEW w \in Workers, DropReference(w) PROVE Indexed'
  <2>1. PICK p \in job[w].todo :
          LET left == IF Registered(p) THEN refcount[p] - 1 ELSE 0
          IN  /\ refcount' = [refcount EXCEPT ![p] = left]
              /\ byHash' = IF Registered(p) /\ left = 0
                           THEN [byHash EXCEPT ![hash[p]] = None] ELSE byHash
    BY <1>3 DEF DropReference
  <2>2. p \in Blocks /\ hash' = hash
    BY <1>3 DEF DropReference, TypeOK, Jobs
  <2>3. \A q \in Blocks : Registered(q) /\ q # p /\ Registered(p) => hash[q] # hash[p]
    BY <2>2 DEF Indexed
  <2> QED
    BY <2>1, <2>2, <2>3 DEF Indexed, Registered, TypeOK
<1>4. CASE UNCHANGED <<refcount, hash, byHash>>
  BY <1>4, IndexedQuiet
<1>5. ASSUME NEW w \in Workers, Allocate(w) PROVE Indexed'
  BY <1>1, <1>2, <1>4, <1>5 DEF Allocate, CreateSession, AllocateHit, AllocateMiss,
     ReusePrefix, AcquireFound, PutPayload, RegisterLost, Reacquire, DiscardOwn, ReadIndex,
     AttachTo, AttachToDead, InsertPrefix, physVars
<1>6. ASSUME NEW w \in Workers, Release(w) PROVE Indexed'
  BY <1>3, <1>4, <1>6 DEF Release, ReleaseSession, ReleaseBegins, PurgeTier, ReleaseEnd, physVars
<1>7. ASSUME NEW w \in Workers, Migrate(w) PROVE Indexed'
  BY <1>4, <1>7 DEF Migrate, MigrateBlock, MigrateGet, MigratePut, MigrateDelete,
     MigrateUpdate, MigrateFails, physVars
<1> QED
  BY <1>4, <1>5, <1>6, <1>7, MigratorsWork DEF Next, vars
-----------------------------------------------------------------------------
(* Holders and their number *)

\* A worker at this step with these locals is a holder of block p.
Holds(label, locals, p) ==
    \/ label \in {"discard", "attach", "map"} /\ locals.blk = p
    \/ label \in Releasing /\ p \in locals.todo

SessionsOf(p) == {s \in Sessions : p \in Pids(blocks[s])}

(* The holders are the sessions and the workers that hold the block. *)
LEMMA HoldersSplit ==
    \A p : Holders(p) = SessionsOf(p) \cup {w \in Workers : Holds(pc[w], job[w], p)}
  BY DEF Holders, SessionsOf, Holds

(* Only finitely many hold a block. *)
LEMMA HoldersFinite ==
    ASSUME NEW H \in SUBSET (Sessions \cup Workers)
    PROVE  IsFiniteSet(H) /\ Cardinality(H) \in Nat
<1>1. IsFiniteSet(Sessions \cup Workers)
  BY FiniteHolders, FS_Union
<1> QED
  BY <1>1, FS_Subset, FS_CardinalityType

(* Fewer holders are not more. *)
LEMMA CountShrink ==
    ASSUME NEW H \in SUBSET (Sessions \cup Workers), NEW G \in SUBSET H
    PROVE  Cardinality(G) <= Cardinality(H)
  BY HoldersFinite, FS_Subset

(* One new holder adds at most one. *)
LEMMA CountGrow ==
    ASSUME NEW H \in SUBSET (Sessions \cup Workers), NEW x \in Sessions \cup Workers,
           NEW G \in SUBSET (H \cup {x})
    PROVE  Cardinality(G) <= Cardinality(H) + 1
<1>1. Cardinality(H \cup {x}) <= Cardinality(H) + 1
  BY HoldersFinite, FS_AddElement
<1>2. Cardinality(G) <= Cardinality(H \cup {x})
  BY CountShrink
<1> QED
  BY <1>1, <1>2, HoldersFinite

(* A holder that lets go takes one away. *)
LEMMA CountLeave ==
    ASSUME NEW H \in SUBSET (Sessions \cup Workers), NEW x \in H, NEW G \in SUBSET (H \ {x})
    PROVE  Cardinality(G) <= Cardinality(H) - 1
<1>1. Cardinality(H \ {x}) = Cardinality(H) - 1
  BY HoldersFinite, FS_RemoveElement
<1>2. Cardinality(G) <= Cardinality(H \ {x})
  BY CountShrink
<1> QED
  BY <1>1, <1>2

(* A block handed from one holder to another is counted once. *)
LEMMA CountSwap ==
    ASSUME NEW H \in SUBSET (Sessions \cup Workers), NEW x \in H,
           NEW y \in Sessions \cup Workers, NEW G \in SUBSET ((H \ {x}) \cup {y})
    PROVE  Cardinality(G) <= Cardinality(H)
<1>1. Cardinality(H \ {x}) <= Cardinality(H) - 1
  BY CountLeave
<1>2. Cardinality(G) <= Cardinality(H \ {x}) + 1
  BY CountGrow
<1> QED
  BY <1>1, <1>2, HoldersFinite

(* A step of one worker that leaves the sessions' blocks alone makes no    *)
(* holder but itself.                                                      *)
LEMMA HoldersGoto ==
    ASSUME TypeOK, NEW w \in Workers, NEW label, NEW locals, Goto(w, label, locals),
           blocks' = blocks, NEW p
    PROVE  /\ Holders(p)' \subseteq Holders(p) \cup {w}
           /\ ~Holds(label, locals, p) => Holders(p)' \subseteq Holders(p) \ {w}
<1>1. SessionsOf(p)' = SessionsOf(p) /\ w \notin SessionsOf(p)
  BY HoldersApart DEF SessionsOf
<1>2. Holders(p)' = SessionsOf(p)' \cup {v \in Workers : Holds(pc'[v], job'[v], p)}
  BY DEF Holders, SessionsOf, Holds
<1>3. {v \in Workers : Holds(pc'[v], job'[v], p)} \subseteq
          {v \in Workers : Holds(pc[v], job[v], p)} \cup {w}
  BY GotoFacts
<1>4. ~Holds(label, locals, p) => w \notin {v \in Workers : Holds(pc'[v], job'[v], p)}
  BY GotoFacts
<1> QED
  BY <1>1, <1>2, <1>3, <1>4, HoldersSplit

(* Holders are sessions and workers, before and after a step. *)
LEMMA HoldersKind ==
    \A p : Holders(p) \subseteq Sessions \cup Workers /\ Holders(p)' \subseteq Sessions \cup Workers
  BY DEF Holders

(* A step that takes no reference and holds nothing new keeps the counts. *)
LEMMA CountedQuiet ==
    ASSUME TypeOK, HoldersCounted,
           NEW w \in Workers, NEW label, NEW locals, Goto(w, label, locals),
           blocks' = blocks, refcount' = refcount,
           \A p \in Blocks : Holds(label, locals, p) => Holds(pc[w], job[w], p)
    PROVE  HoldersCounted'
<1> SUFFICES ASSUME NEW p \in Blocks PROVE Cardinality(Holders(p)') <= refcount[p]
  BY DEF HoldersCounted
<1>1. Holders(p)' \subseteq Holders(p)
  <2>1. CASE Holds(label, locals, p)
    BY <2>1, HoldersGoto, HoldersSplit
  <2>2. CASE ~Holds(label, locals, p)
    BY <2>2, HoldersGoto
  <2> QED
    BY <2>1, <2>2
<1>2. Cardinality(Holders(p)') <= Cardinality(Holders(p))
  BY <1>1, HoldersKind, CountShrink
<1>3. Cardinality(Holders(p)) <= refcount[p] /\ refcount[p] \in Nat
  BY DEF HoldersCounted, TypeOK
<1>4. Cardinality(Holders(p)) \in Nat /\ Cardinality(Holders(p)') \in Nat
  BY HoldersKind, HoldersFinite
<1> QED
  BY <1>2, <1>3, <1>4

(* A call that ends keeps the counts. *)
LEMMA CountedDone ==
    ASSUME TypeOK, HoldersCounted, NEW w \in Workers, Done(w),
           blocks' = blocks, refcount' = refcount
    PROVE  HoldersCounted'
  BY CountedQuiet DEF Done, Holds, Releasing

(* acquire, or the KeyError of a block that is gone, keeps the counts. *)
LEMMA CountedAcquire ==
    ASSUME TypeOK, HoldersCounted, NEW w \in Workers, NEW label \in {"attach", "discard"},
           Acquire(w, label), blocks' = blocks, job[w].blk \in Blocks
    PROVE  HoldersCounted'
<1>1. CASE ~Registered(job[w].blk)
  BY <1>1, CountedDone DEF Acquire
<1>2. CASE Registered(job[w].blk)
  <2>1. refcount' = [refcount EXCEPT ![job[w].blk] = @ + 1] /\ Goto(w, label, job[w])
    BY <1>2 DEF Acquire
  <2> SUFFICES ASSUME NEW p \in Blocks PROVE Cardinality(Holders(p)') <= refcount'[p]
    BY DEF HoldersCounted
  <2>2. Cardinality(Holders(p)) <= refcount[p] /\ refcount[p] \in Nat
    BY DEF HoldersCounted, TypeOK
  <2>3. Cardinality(Holders(p)) \in Nat /\ Cardinality(Holders(p)') \in Nat
    BY HoldersKind, HoldersFinite
  <2>4. CASE p = job[w].blk
    <3>1. Holders(p)' \subseteq Holders(p) \cup {w}
      BY <2>1, HoldersGoto
    <3>2. Cardinality(Holders(p)') <= Cardinality(Holders(p)) + 1
      BY <3>1, HoldersKind, CountGrow
    <3>3. refcount'[p] = refcount[p] + 1
      BY <2>1, <2>4 DEF TypeOK
    <3> QED
      BY <2>2, <2>3, <3>2, <3>3
  <2>5. CASE p # job[w].blk
    <3>1. ~Holds(label, job[w], p)
      BY <2>5 DEF Holds, Releasing
    <3>2. Holders(p)' \subseteq Holders(p)
      BY <2>1, <3>1, HoldersGoto
    <3>3. Cardinality(Holders(p)') <= Cardinality(Holders(p))
      BY <3>2, HoldersKind, CountShrink
    <3>4. refcount'[p] = refcount[p]
      BY <2>1, <2>5 DEF TypeOK
    <3> QED
      BY <2>2, <2>3, <3>3, <3>4
  <2> QED
    BY <2>4, <2>5
<1> QED
  BY <1>1, <1>2

(* register: nobody holds a block before it is registered. *)
LEMMA CountedRegister ==
    ASSUME TypeOK, Locals, Fresh, HoldersCounted, NEW w \in Workers, Register(w)
    PROVE  HoldersCounted'
<1> DEFINE own == job[w].own
           new == [job[w] EXCEPT !.blk = own]
<1>1. own \in Blocks /\ ~(refcount[own] > 0)
  BY DEF Register, Locals, Fresh, WithOwn
<1>2. /\ refcount' = [refcount EXCEPT ![own] = 1] /\ blocks' = blocks
      /\ Goto(w, "attach", new)
  BY DEF Register, sessVars
<1>3. new.blk = own
  BY DEF TypeOK, Jobs
<1> HIDE DEF own, new
<1> SUFFICES ASSUME NEW p \in Blocks PROVE Cardinality(Holders(p)') <= refcount'[p]
  BY DEF HoldersCounted
<1>4. Cardinality(Holders(p)) <= refcount[p] /\ refcount[p] \in Nat
  BY DEF HoldersCounted, TypeOK
<1>5. Cardinality(Holders(p)) \in Nat /\ Cardinality(Holders(p)') \in Nat
  BY HoldersKind, HoldersFinite
<1>6. CASE p = own
  <2>1. Holders(p)' \subseteq Holders(p) \cup {w}
    BY <1>2, HoldersGoto
  <2>2. Cardinality(Holders(p)') <= Cardinality(Holders(p)) + 1
    BY <2>1, HoldersKind, CountGrow
  <2>3. refcount'[p] = 1 /\ refcount[p] = 0
    BY <1>1, <1>2, <1>4, <1>6 DEF TypeOK
  <2> QED
    BY <1>4, <1>5, <2>2, <2>3
<1>7. CASE p # own
  <2>1. ~Holds("attach", new, p)
    BY <1>3, <1>7 DEF Holds, Releasing
  <2>2. Holders(p)' \subseteq Holders(p)
    BY <1>2, <2>1, HoldersGoto
  <2>3. Cardinality(Holders(p)') <= Cardinality(Holders(p))
    BY <2>2, HoldersKind, CountShrink
  <2>4. refcount'[p] = refcount[p]
    BY <1>2, <1>7 DEF TypeOK
  <2> QED
    BY <1>4, <1>5, <2>3, <2>4
<1> QED
  BY <1>6, <1>7

(* _attach_logical hands the reference of the call to the session. *)
LEMMA CountedAttach ==
    ASSUME TypeOK, Locals, HoldersCounted, NEW w \in Workers, AttachTo(w)
    PROVE  HoldersCounted'
<1> DEFINE s == job[w].sess
           b == job[w].blk
<1>1. pc[w] = "map" /\ s \in Sessions /\ b \in Blocks
  BY DEF AttachTo, Locals, Allocating, WithBlock
<1>2. blocks' = [blocks EXCEPT ![s] = Append(@, b)] /\ refcount' = refcount
  BY DEF AttachTo, physVars
<1>3. PICK label, locals : label \in {"idle", "insert"} /\ Goto(w, label, locals)
  BY DEF AttachTo, Done
<1>4. \A p : Pids(Append(blocks[s], b)) \subseteq Pids(blocks[s]) \cup {b}
  BY <1>1 DEF Pids, TypeOK
<1> SUFFICES ASSUME NEW p \in Blocks PROVE Cardinality(Holders(p)') <= refcount[p]
  BY <1>2 DEF HoldersCounted
<1>5. b = p => w \in Holders(p)
  BY <1>1 DEF Holders
<1>6. Holders(p)' = SessionsOf(p)' \cup {v \in Workers : Holds(pc'[v], job'[v], p)}
  BY DEF Holders, SessionsOf, Holds
<1>7. SessionsOf(p)' \subseteq SessionsOf(p) \cup (IF b = p THEN {s} ELSE {})
  BY <1>1, <1>2, <1>4 DEF SessionsOf, TypeOK
<1>8. {v \in Workers : Holds(pc'[v], job'[v], p)} \subseteq
          {v \in Workers : Holds(pc[v], job[v], p)} \ {w}
  BY <1>3, GotoFacts DEF Holds, Releasing
<1>9. w \notin SessionsOf(p)
  BY HoldersApart DEF SessionsOf
<1>10. /\ b = p => Holders(p)' \subseteq (Holders(p) \ {w}) \cup {s}
       /\ b # p => Holders(p)' \subseteq Holders(p)
  BY <1>6, <1>7, <1>8, <1>9, HoldersSplit
<1>11. Cardinality(Holders(p)') <= Cardinality(Holders(p))
  BY <1>1, <1>5, <1>10, HoldersKind, CountSwap, CountShrink
<1>12. Cardinality(Holders(p)) <= refcount[p] /\ refcount[p] \in Nat
  BY DEF HoldersCounted, TypeOK
<1>13. Cardinality(Holders(p)) \in Nat /\ Cardinality(Holders(p)') \in Nat
  BY HoldersKind, HoldersFinite
<1> QED
  BY <1>11, <1>12, <1>13

(* An attachment to a session that is gone gives up holders, or hands the  *)
(* reference of the call to the release of the session.                    *)
LEMMA CountedDead ==
    ASSUME TypeOK, Locals, HoldersCounted, NEW w \in Workers, AttachToDead(w)
    PROVE  HoldersCounted'
<1>1. blocks' = blocks /\ refcount' = refcount
  BY DEF AttachToDead, physVars
<1> DEFINE b == job[w].blk
<1>2. PICK r \in Workers :
         /\ \A v \in Workers \ {w, r} : job'[v] = job[v]
         /\ r # w => job'[r].todo \subseteq job[r].todo \cup {b}
  BY DeadFacts
<1>3. /\ pc'[w] \in {"idle", "insert"} /\ pc[w] = "map"
      /\ \A v \in Workers \ {w} : pc'[v] = pc[v] /\ job'[v].blk = job[v].blk
  BY DeadFacts
<1> HIDE DEF b
<1> SUFFICES ASSUME NEW p \in Blocks PROVE Cardinality(Holders(p)') <= refcount[p]
  BY <1>1 DEF HoldersCounted
<1>4. \A v \in Workers : Holds(pc'[v], job'[v], p) =>
                            v # w /\ (Holds(pc[v], job[v], p) \/ (v = r /\ p = b))
  BY <1>2, <1>3 DEF Holds, Releasing
<1>5. Holders(p)' = SessionsOf(p)' \cup {v \in Workers : Holds(pc'[v], job'[v], p)}
  BY DEF Holders, SessionsOf, Holds
<1>6. SessionsOf(p)' = SessionsOf(p) /\ w \notin SessionsOf(p)
  BY <1>1, HoldersApart DEF SessionsOf
<1>7. p = b => w \in Holders(p)
  BY <1>3 DEF Holders, b
<1>8. /\ p = b => Holders(p)' \subseteq (Holders(p) \ {w}) \cup {r}
      /\ p # b => Holders(p)' \subseteq Holders(p)
  BY <1>4, <1>5, <1>6, HoldersSplit
<1>9. Cardinality(Holders(p)') <= Cardinality(Holders(p))
  BY <1>7, <1>8, HoldersKind, CountSwap, CountShrink
<1>10. Cardinality(Holders(p)) <= refcount[p] /\ refcount[p] \in Nat
  BY DEF HoldersCounted, TypeOK
<1>11. Cardinality(Holders(p)) \in Nat /\ Cardinality(Holders(p)') \in Nat
  BY HoldersKind, HoldersFinite
<1> QED
  BY <1>9, <1>10, <1>11

(* release_session takes the blocks over from the session it pops. *)
LEMMA CountedRelease ==
    ASSUME TypeOK, HoldersCounted, NEW w \in Workers, NEW s \in Sessions,
           ReleaseSession(w, s)
    PROVE  HoldersCounted'
<1>1. /\ pc[w] = "idle" /\ refcount' = refcount
      /\ blocks' = [blocks EXCEPT ![s] = << >>]
  BY DEF ReleaseSession, physVars
<1>2. pc'[w] = "popped" /\ \A v \in Workers \ {w} : pc'[v] = pc[v]
  BY DEF ReleaseSession, TypeOK
<1>3. /\ job'[w].todo = Pids(blocks[s])
      /\ \A v \in Workers \ {w} : job'[v].blk = job[v].blk /\ job'[v].todo = job[v].todo
  BY DEF ReleaseSession, TypeOK, Jobs, NoJob
<1> SUFFICES ASSUME NEW p \in Blocks PROVE Cardinality(Holders(p)') <= refcount[p]
  BY <1>1 DEF HoldersCounted
<1>4. \A v \in Workers \ {w} : Holds(pc'[v], job'[v], p) => Holds(pc[v], job[v], p)
  BY <1>2, <1>3 DEF Holds
<1>5. Holds(pc'[w], job'[w], p) => s \in SessionsOf(p)
  BY <1>2, <1>3 DEF Holds, SessionsOf
<1>6. SessionsOf(p)' \subseteq SessionsOf(p) \ {s}
  BY <1>1 DEF SessionsOf, Pids, TypeOK
<1>7. Holders(p)' = SessionsOf(p)' \cup {v \in Workers : Holds(pc'[v], job'[v], p)}
  BY DEF Holders, SessionsOf, Holds
<1>8. s \notin Workers
  BY HoldersApart
<1>9. /\ s \in SessionsOf(p) => s \in Holders(p) /\ Holders(p)' \subseteq (Holders(p) \ {s}) \cup {w}
      /\ s \notin SessionsOf(p) => Holders(p)' \subseteq Holders(p)
  BY <1>4, <1>5, <1>6, <1>7, <1>8, HoldersSplit
<1>10. Cardinality(Holders(p)') <= Cardinality(Holders(p))
  BY <1>9, HoldersKind, CountSwap, CountShrink
<1>11. Cardinality(Holders(p)) <= refcount[p] /\ refcount[p] \in Nat
  BY DEF HoldersCounted, TypeOK
<1>12. Cardinality(Holders(p)) \in Nat /\ Cardinality(Holders(p)') \in Nat
  BY HoldersKind, HoldersFinite
<1> QED
  BY <1>10, <1>11, <1>12

(* release gives back the reference that the release still held. *)
LEMMA CountedDrop ==
    ASSUME TypeOK, HoldersCounted, NEW w \in Workers, DropReference(w)
    PROVE  HoldersCounted'
<1>1. PICK b, label, locals :
        /\ b \in job[w].todo /\ label \in {"purge", "release"}
        /\ refcount' = [refcount EXCEPT ![b] = IF Registered(b) THEN refcount[b] - 1 ELSE 0]
        /\ locals.todo = job[w].todo \ {b}
        /\ Goto(w, label, locals)
  <2> DEFINE rest(p) == [job[w] EXCEPT !.todo = @ \ {p}]
             purge(p) == [rest(p) EXCEPT !.blk = p, !.to = L1]
             left(p) == IF Registered(p) THEN refcount[p] - 1 ELSE 0
  <2>1. PICK b \in job[w].todo :
          /\ refcount' = [refcount EXCEPT ![b] = left(b)]
          /\ Goto(w, "purge", purge(b)) \/ Goto(w, "release", rest(b))
    BY DEF DropReference
  <2>2. rest(b).todo = job[w].todo \ {b} /\ purge(b).todo = job[w].todo \ {b}
    BY DEF TypeOK, Jobs
  <2> QED
    BY <2>1, <2>2
<1>0. job[w].todo \in SUBSET Blocks
  BY DEF TypeOK, Jobs
<1>2. pc[w] = "release" /\ blocks' = blocks /\ b \in Blocks
  BY <1>0, <1>1 DEF DropReference, sessVars
<1> SUFFICES ASSUME NEW p \in Blocks PROVE Cardinality(Holders(p)') <= refcount'[p]
  BY DEF HoldersCounted
<1>3. Cardinality(Holders(p)) <= refcount[p] /\ refcount[p] \in Nat
  BY DEF HoldersCounted, TypeOK
<1>4. Cardinality(Holders(p)) \in Nat /\ Cardinality(Holders(p)') \in Nat
  BY HoldersKind, HoldersFinite
<1>5. CASE p = b
  <2>1. w \in Holders(p)
    BY <1>1, <1>2, <1>5 DEF Holders, Releasing
  <2>2. ~Holds(label, locals, p)
    BY <1>1, <1>5 DEF Holds
  <2>3. Holders(p)' \subseteq Holders(p) \ {w}
    BY <1>1, <1>2, <2>2, HoldersGoto
  <2>4. Cardinality(Holders(p)') <= Cardinality(Holders(p)) - 1
    BY <2>1, <2>3, HoldersKind, CountLeave
  <2>5. refcount[p] > 0
    BY <1>3, <1>4, <2>4
  <2>6. refcount'[p] = refcount[p] - 1
    BY <1>1, <1>2, <1>5, <2>5 DEF Registered, TypeOK
  <2> QED
    BY <1>3, <1>4, <2>4, <2>6
<1>6. CASE p # b
  <2>1. Holds(label, locals, p) => Holds(pc[w], job[w], p)
    BY <1>1, <1>2 DEF Holds, Releasing
  <2>2. Holders(p)' \subseteq Holders(p)
    BY <1>1, <1>2, <2>1, HoldersGoto, HoldersSplit
  <2>3. Cardinality(Holders(p)') <= Cardinality(Holders(p))
    BY <2>2, HoldersKind, CountShrink
  <2>4. refcount'[p] = refcount[p]
    BY <1>1, <1>2, <1>6 DEF TypeOK
  <2> QED
    BY <1>3, <1>4, <2>3, <2>4
<1> QED
  BY <1>5, <1>6

(* No step takes a reference away from a holder. *)
LEMMA CountedStep == TypeOK /\ Locals /\ Fresh /\ HoldersCounted /\ [Next]_vars => HoldersCounted'
<1> SUFFICES ASSUME TypeOK, Locals, Fresh, HoldersCounted, [Next]_vars PROVE HoldersCounted'
  OBVIOUS
<1> USE DEF physVars, sessVars
<1>1. ASSUME UNCHANGED <<pc, job, blocks, refcount>> PROVE HoldersCounted'
  BY <1>1 DEF HoldersCounted, Holders
<1>2. ASSUME NEW w \in Workers, NEW label, NEW locals, Goto(w, label, locals),
             blocks' = blocks, refcount' = refcount,
             label \notin {"discard", "attach", "map"} \cup Releasing
      PROVE  HoldersCounted'
  BY <1>2, CountedQuiet DEF Holds
<1>3. ASSUME NEW w \in Workers, NEW s \in Sessions, NEW c \in Contents,
             AllocateHit(w, s, c) \/ AllocateMiss(w, s, c) \/ ReusePrefix(w, s, c)
      PROVE  HoldersCounted'
  <2>1. blocks' = blocks /\ refcount' = refcount
    BY <1>3 DEF AllocateHit, AllocateMiss, ReusePrefix
  <2>2. Done(w) \/ \E label \in {"acquire", "put"} : \E locals : Goto(w, label, locals)
    <3>1. CASE AllocateHit(w, s, c)
      BY <3>1 DEF AllocateHit
    <3>2. CASE AllocateMiss(w, s, c)
      BY <3>2 DEF AllocateMiss
    <3>3. CASE ReusePrefix(w, s, c)
      BY <3>3 DEF ReusePrefix
    <3> QED
      BY <1>3, <3>1, <3>2, <3>3
  <2> QED
    BY <1>2, <2>1, <2>2, CountedDone DEF Releasing
<1>4. ASSUME NEW w \in Workers, AcquireFound(w) \/ Reacquire(w) PROVE HoldersCounted'
  <2>1. job[w].blk \in Blocks
    BY <1>4 DEF AcquireFound, Reacquire, Locals, WithBlock
  <2> QED
    BY <1>4, <2>1, CountedAcquire DEF AcquireFound, Reacquire
<1>5. ASSUME NEW w \in Workers, PutPayload(w) \/ RegisterLost(w) PROVE HoldersCounted'
  BY <1>5, <1>2 DEF PutPayload, RegisterLost, Releasing
<1>6. ASSUME NEW w \in Workers, DiscardOwn(w) PROVE HoldersCounted'
  BY <1>6, CountedQuiet DEF DiscardOwn, Holds, Releasing
<1>7. ASSUME NEW w \in Workers, ReadIndex(w) PROVE HoldersCounted'
  <2> DEFINE read == [job[w] EXCEPT !.idx = Len(logical[job[w].sess]), !.lgone = FALSE]
  <2>1. read.blk = job[w].blk
    BY DEF TypeOK, Jobs
  <2>2. Goto(w, "map", read) \/ Done(w)
    BY <1>7 DEF ReadIndex
  <2>3. pc[w] = "attach" /\ blocks' = blocks /\ refcount' = refcount
    BY <1>7 DEF ReadIndex
  <2> HIDE DEF read
  <2>4. \A p : Holds("map", read, p) => Holds(pc[w], job[w], p)
    BY <2>1, <2>3 DEF Holds, Releasing
  <2> QED
    BY <2>2, <2>3, <2>4, CountedQuiet, CountedDone
<1>8. ASSUME NEW w \in Workers, InsertPrefix(w) \/ ReleaseEnd(w) PROVE HoldersCounted'
  BY <1>8, CountedDone DEF InsertPrefix, ReleaseEnd
<1>9. ASSUME NEW w \in Workers, PurgeTier(w) PROVE HoldersCounted'
  <2> DEFINE next == [job[w] EXCEPT !.to = job[w].to + 1]
  <2>1. next.todo = job[w].todo
    BY DEF TypeOK, Jobs
  <2>2. Goto(w, "release", job[w]) \/ Goto(w, "purge", next)
    BY <1>9 DEF PurgeTier
  <2>3. pc[w] = "purge" /\ blocks' = blocks /\ refcount' = refcount
    BY <1>9 DEF PurgeTier
  <2> HIDE DEF next
  <2>4. \A p : /\ Holds("purge", next, p) => Holds(pc[w], job[w], p)
               /\ Holds("release", job[w], p) => Holds(pc[w], job[w], p)
    BY <2>1, <2>3 DEF Holds, Releasing
  <2> QED
    BY <2>2, <2>3, <2>4, CountedQuiet
<1>e. ASSUME NEW w \in Workers, ReleaseBegins(w) PROVE HoldersCounted'
  BY <1>e, CountedQuiet DEF ReleaseBegins, Holds, Releasing
<1>10. ASSUME NEW w \in Workers, Migrate(w) PROVE HoldersCounted'
  <2>1. blocks' = blocks /\ refcount' = refcount
    BY <1>10 DEF Migrate, MigrateBlock, MigrateGet, MigratePut, MigrateDelete, MigrateUpdate,
           MigrateFails
  <2>2. Done(w) \/ \E label \in Migrating : \E locals : Goto(w, label, locals)
    <3>1. ASSUME NEW p \in Blocks, NEW t \in Tiers, MigrateBlock(w, p, t)
          PROVE  \E label \in Migrating : \E locals : Goto(w, label, locals)
      BY <3>1 DEF MigrateBlock, Migrating
    <3>2. CASE MigrateGet(w)
      BY <3>2 DEF MigrateGet, Migrating
    <3>3. CASE MigratePut(w)
      BY <3>3 DEF MigratePut, Migrating
    <3>4. CASE MigrateDelete(w)
      BY <3>4 DEF MigrateDelete, Migrating
    <3>5. CASE MigrateUpdate(w)
      BY <3>5 DEF MigrateUpdate
    <3>6. CASE MigrateFails(w)
      BY <3>6 DEF MigrateFails
    <3> QED
      BY <1>10, <3>1, <3>2, <3>3, <3>4, <3>5, <3>6 DEF Migrate
  <2> QED
    BY <1>2, <2>1, <2>2, CountedDone DEF Releasing, Migrating
<1>11. ASSUME NEW w \in Workers, Allocate(w) PROVE HoldersCounted'
  BY <1>11, <1>1, <1>3, <1>4, <1>5, <1>6, <1>7, <1>8,
     CountedRegister, CountedAttach, CountedDead DEF Allocate, CreateSession
<1>12. ASSUME NEW w \in Workers, Release(w) PROVE HoldersCounted'
  BY <1>12, <1>e, <1>8, <1>9, CountedRelease, CountedDrop DEF Release
<1> QED
  BY <1>1, <1>10, <1>11, <1>12, MigratorsWork DEF Next, vars
-----------------------------------------------------------------------------
(* The invariant is kept by every step, so it holds throughout. *)
THEOREM Invariance == Spec => []IInv
<1>1. IInv /\ [Next]_vars => IInv'
  BY TypeStep, LocalsStep, FreshStep, IndexedStep, CountedStep DEF IInv
<1> QED
  BY InitIInv, <1>1, PTL DEF Spec

(* The tables, the stores and the locals of the threads have their types.  *)
THEOREM TypeCorrect == Spec => []TypeOK
<1>1. IInv => TypeOK
  BY DEF IInv
<1> QED
  BY Invariance, <1>1, PTL

(* Reference counting is never short, for any number of threads, sessions  *)
(* and migrations: PhysicalBlockTable never frees a block that a session   *)
(* maps, a call has acquired, or a release has yet to give back.           *)
THEOREM ReferencesSafe == Spec => []HoldersCounted
<1>1. IInv => HoldersCounted
  BY DEF IInv
<1> QED
  BY Invariance, <1>1, PTL

(* Deduplication is exact, for any number of threads that allocate the     *)
(* same payload at once: register_or_reuse never leaves two registered     *)
(* blocks of one content.                                                  *)
THEOREM DeduplicationExact == Spec => []OneBlockPerContent
<1>1. IInv => OneBlockPerContent
  BY IndexedIsExact DEF IInv
<1> QED
  BY Invariance, <1>1, PTL
-----------------------------------------------------------------------------
(* With one migrator every block can be read where its record says.        *)

OneMigrator == \A m, n \in Migrators : m = n

\* A block that is being moved or purged is nobody's new block, and a purged
\* one is not registered.
Aside ==
    \A v \in Workers : pc[v] \in Migrating \cup {"purge"} =>
        /\ job[v].blk \in issued
        /\ \A w \in Workers : pc[w] \in WithOwn => job[w].own # job[v].blk
        /\ pc[v] = "purge" => ~Registered(job[v].blk)
        /\ pc[v] \in Migrating => v \in Migrators

\* A new block has its payload in L1 before it is registered.
Written == \A w \in Workers : pc[w] = "register" => store[L1][job[w].own] = job[w].want

\* A registered block can be read, but between delete and update_tier.
Kept ==
    \A p \in Blocks :
        Registered(p) /\ (\A m \in Workers : pc[m] = "retier" => job[m].blk # p)
            => store[tier[p]][p] = hash[p]

\* What a migration knows of its block while it is registered.
Moves ==
    \A m \in Workers : pc[m] \in Migrating /\ Registered(job[m].blk) =>
        LET p == job[m].blk
        IN  /\ pc[m] # "retier" => job[m].from = tier[p] /\ job[m].to # tier[p]
            /\ pc[m] = "copy" => job[m].want = hash[p]
            /\ pc[m] \in {"drop", "retier"} => store[job[m].to][p] = hash[p]

Stored == Aside /\ Written /\ Kept /\ Moves

(* A write to a store changes one payload of one tier. *)
LEMMA StoreWrite ==
    ASSUME TypeOK, NEW t, NEW q, NEW d, store' = [store EXCEPT ![t][q] = d]
    PROVE  /\ \A u \in Tiers, p \in Blocks : u # t \/ p # q => store'[u][p] = store[u][p]
           /\ t \in Tiers /\ q \in Blocks => store'[t][q] = d
<1>1. store \in [Tiers -> [Blocks -> Contents \cup {None}]]
  BY DEF TypeOK
<1>2. \A u \in Tiers : u # t => store'[u] = store[u]
  BY <1>1
<1>3. t \in Tiers => store'[t] = [store[t] EXCEPT ![q] = d]
  BY <1>1
<1>4. \A u \in Tiers : store[u] \in [Blocks -> Contents \cup {None}]
  BY <1>1
<1> QED
  BY <1>2, <1>3, <1>4

\* A step in which nobody begins to register, to migrate or to purge, and
\* nobody ends a migration that has deleted the payload.
Calm ==
    \A v \in Workers :
        /\ pc'[v] \in WithOwn => pc[v] \in WithOwn /\ job'[v].own = job[v].own
        /\ pc'[v] = "register" => pc[v] = "register" /\ job'[v].want = job[v].want
        /\ pc'[v] \in Migrating \cup {"purge"} => pc'[v] = pc[v] /\ job'[v].blk = job[v].blk
        /\ pc'[v] \in Migrating => /\ job'[v].from = job[v].from /\ job'[v].to = job[v].to
                                  /\ job'[v].want = job[v].want
        /\ pc[v] = "retier" => pc'[v] = "retier" /\ job'[v].blk = job[v].blk

(* A step of one worker to a harmless place is calm. *)
LEMMA CalmGoto ==
    ASSUME TypeOK, NEW w \in Workers, NEW label, NEW locals, Goto(w, label, locals),
           pc[w] # "retier", label \notin Migrating \cup {"purge", "register"},
           label \in WithOwn => pc[w] \in WithOwn /\ locals.own = job[w].own
    PROVE  Calm
  BY GotoFacts DEF Calm

(* So is the end of a call. *)
LEMMA CalmDone ==
    ASSUME TypeOK, NEW w \in Workers, Done(w), pc[w] # "retier"
    PROVE  Calm
  BY CalmGoto DEF Done, WithOwn, Migrating

(* A calm step keeps the payloads if it writes to no block that is         *)
(* registered or about to be.                                              *)
LEMMA StoredCalm ==
    ASSUME TypeOK, Locals, Stored, Calm, UNCHANGED <<hash, tier, issued>>,
           \A p \in Blocks : refcount'[p] > 0 => refcount[p] > 0,
           \A p \in Blocks :
               Registered(p) \/ (\E v \in Workers : pc'[v] = "register" /\ job[v].own = p)
                   => \A t \in Tiers : store'[t][p] = store[t][p]
    PROVE  Stored'
<1>1. /\ tier \in [Blocks -> Tiers] /\ L1 \in Tiers
      /\ \A v \in Workers : job[v].to \in Tiers
  BY L1IsTier DEF TypeOK, Jobs
<1>2. Aside'
  BY DEF Stored, Aside, Calm, Locals, WithBlock, Registered
<1>3. Written'
  <2> SUFFICES ASSUME NEW w \in Workers, pc'[w] = "register"
               PROVE  store'[L1][job'[w].own] = job'[w].want
    BY DEF Written
  <2>1. /\ pc[w] = "register" /\ job'[w].want = job[w].want /\ job'[w].own = job[w].own
        /\ job[w].own \in Blocks
    BY DEF Calm, Locals, WithOwn
  <2>2. store'[L1][job[w].own] = store[L1][job[w].own]
    BY <1>1, <2>1
  <2> QED
    BY <2>1, <2>2 DEF Stored, Written
<1>4. Kept'
  <2> SUFFICES ASSUME NEW p \in Blocks, Registered(p)',
                      \A m \in Workers : pc'[m] = "retier" => job'[m].blk # p
               PROVE  store'[tier[p]][p] = hash[p]
    BY DEF Kept
  <2>1. Registered(p)
    BY DEF Registered
  <2>2. \A m \in Workers : pc[m] = "retier" => job[m].blk # p
    BY DEF Calm
  <2>3. store[tier[p]][p] = hash[p]
    BY <2>1, <2>2 DEF Stored, Kept
  <2>4. tier[p] \in Tiers
    BY <1>1
  <2> QED
    BY <2>1, <2>3, <2>4
<1>5. Moves'
  <2> SUFFICES ASSUME NEW m \in Workers, pc'[m] \in Migrating, refcount'[job'[m].blk] > 0
               PROVE  LET p == job'[m].blk
                      IN  /\ pc'[m] # "retier" => job'[m].from = tier[p] /\ job'[m].to # tier[p]
                          /\ pc'[m] = "copy" => job'[m].want = hash[p]
                          /\ pc'[m] \in {"drop", "retier"} => store'[job'[m].to][p] = hash[p]
    BY DEF Moves, Registered
  <2>1. /\ pc'[m] = pc[m] /\ job'[m].blk = job[m].blk /\ job'[m].from = job[m].from
        /\ job'[m].to = job[m].to /\ job'[m].want = job[m].want /\ job[m].blk \in Blocks
    BY DEF Calm, Locals
  <2>2. Registered(job[m].blk)
    BY <2>1 DEF Registered
  <2>3. store'[job[m].to][job[m].blk] = store[job[m].to][job[m].blk]
    BY <1>1, <2>1, <2>2
  <2> QED
    BY <2>1, <2>2, <2>3 DEF Stored, Moves
<1> QED
  BY <1>2, <1>3, <1>4, <1>5 DEF Stored

(* A step of the one migrator: it touches the block that it moves, and     *)
(* leaves it readable unless it has just deleted the old payload.          *)
LEMMA StoredMove ==
    ASSUME OneMigrator, TypeOK, Locals, Fresh, Stored,
           NEW m \in Migrators, NEW label, NEW locals, Goto(m, label, locals),
           pc[m] \in Migrating \cup {"idle"}, label \in Migrating \cup {"idle"},
           UNCHANGED <<refcount, hash, issued>>,
           NEW b \in Blocks, b \in issued, label \in Migrating => locals.blk = b,
           pc[m] \in Migrating => job[m].blk = b,
           \A w \in Workers : pc[w] \in WithOwn => job[w].own # b,
           \A p \in Blocks : p # b => /\ tier'[p] = tier[p]
                                     /\ \A t \in Tiers : store'[t][p] = store[t][p],
           Registered(b) =>
              /\ label # "retier" => store'[tier'[b]][b] = hash[b]
              /\ label \in {"get", "copy", "drop"} =>
                    locals.from = tier'[b] /\ locals.to # tier'[b]
              /\ label = "copy" => locals.want = hash[b]
              /\ label \in {"drop", "retier"} => store'[locals.to][b] = hash[b]
    PROVE  Stored'
<1> USE DEF Migrating
<1>1. /\ m \in Workers /\ pc'[m] = label /\ job'[m] = locals
      /\ \A v \in Workers : v # m => pc'[v] = pc[v] /\ job'[v] = job[v]
  BY GotoFacts, MigratorsWork
<1>2. \A v \in Workers : v # m => pc[v] \notin Migrating
  BY DEF OneMigrator, Stored, Aside
<1>3. Aside'
  BY <1>1 DEF Stored, Aside, Registered, WithOwn
<1>4. Written'
  <2> SUFFICES ASSUME NEW w \in Workers, pc'[w] = "register"
               PROVE  store'[L1][job'[w].own] = job'[w].want
    BY DEF Written
  <2>1. /\ pc[w] = "register" /\ job'[w] = job[w]
        /\ job[w].own \in Blocks /\ job[w].own # b
    BY <1>1 DEF Locals, WithOwn
  <2> QED
    BY <2>1, L1IsTier DEF Stored, Written
<1>5. Kept'
  <2> SUFFICES ASSUME NEW p \in Blocks, Registered(p),
                      \A v \in Workers : pc'[v] = "retier" => job'[v].blk # p
               PROVE  store'[tier'[p]][p] = hash[p]
    BY DEF Kept, Registered
  <2>1. CASE p = b
    BY <1>1, <2>1
  <2>2. CASE p # b
    <3>1. \A v \in Workers : pc[v] = "retier" => job[v].blk # p
      BY <1>2, <2>2
    <3>2. store[tier[p]][p] = hash[p] /\ tier[p] \in Tiers
      BY <3>1 DEF Stored, Kept, TypeOK
    <3> QED
      BY <2>2, <3>2
  <2> QED
    BY <2>1, <2>2
<1>6. Moves'
  <2> SUFFICES ASSUME NEW v \in Workers, pc'[v] \in Migrating, refcount[job'[v].blk] > 0
               PROVE  LET p == job'[v].blk
                      IN  /\ pc'[v] # "retier" => job'[v].from = tier'[p] /\ job'[v].to # tier'[p]
                          /\ pc'[v] = "copy" => job'[v].want = hash[p]
                          /\ pc'[v] \in {"drop", "retier"} => store'[job'[v].to][p] = hash[p]
    BY DEF Moves, Registered
  <2>1. v = m
    BY <1>1, <1>2
  <2> QED
    BY <1>1, <2>1 DEF Registered
<1> QED
  BY <1>3, <1>4, <1>5, <1>6 DEF Stored

(* A step of a thread that migrates nothing: the payload of a new block is *)
(* there before the block is registered, and a block that is to be purged  *)
(* is nobody's.                                                            *)
LEMMA StoredCall ==
    ASSUME TypeOK, Locals, Stored, NEW w \in Workers, NEW label, NEW locals,
           Goto(w, label, locals), pc[w] \notin Migrating, label \notin Migrating,
           label \in WithOwn =>
              \A v \in Workers : pc[v] \in Migrating \cup {"purge"} => locals.own # job[v].blk,
           label = "purge" =>
              /\ locals.blk \in issued' /\ ~(refcount'[locals.blk] > 0)
              /\ \A v \in Workers : pc[v] \in WithOwn => job[v].own # locals.blk,
           label = "register" => store'[L1][locals.own] = locals.want,
           issued \subseteq issued',
           \A v \in Workers : v # w /\ pc[v] = "register" =>
              store'[L1][job[v].own] = store[L1][job[v].own],
           \A p \in Blocks : refcount'[p] > 0 =>
              \/ /\ refcount[p] > 0 /\ hash'[p] = hash[p] /\ tier'[p] = tier[p]
                 /\ \A t \in Tiers : store'[t][p] = store[t][p]
              \/ /\ store'[tier'[p]][p] = hash'[p]
                 /\ \A v \in Workers : pc[v] \in Migrating \cup {"purge"} => job[v].blk # p
    PROVE  Stored'
<1>1. /\ pc'[w] = label /\ job'[w] = locals
      /\ \A v \in Workers : v # w => pc'[v] = pc[v] /\ job'[v] = job[v]
  BY GotoFacts
<1>2. /\ \A p \in Blocks : tier[p] \in Tiers
      /\ \A v \in Workers : job[v].to \in Tiers
      /\ \A v \in Workers : pc[v] \in Migrating \cup {"purge"} => job[v].blk \in Blocks
  BY DEF TypeOK, Jobs, Locals, WithBlock
<1>3. Aside'
  <2> SUFFICES ASSUME NEW v \in Workers, pc'[v] \in Migrating \cup {"purge"}
               PROVE  /\ job'[v].blk \in issued'
                      /\ \A u \in Workers : pc'[u] \in WithOwn => job'[u].own # job'[v].blk
                      /\ pc'[v] = "purge" => ~(refcount'[job'[v].blk] > 0)
                      /\ pc'[v] \in Migrating => v \in Migrators
    BY DEF Aside, Registered
  <2>1. CASE v = w
    BY <1>1, <2>1 DEF Migrating, WithOwn
  <2>2. CASE v # w
    <3>1. /\ pc'[v] = pc[v] /\ job'[v] = job[v] /\ job[v].blk \in Blocks
      BY <1>1, <1>2, <2>2
    <3>2. /\ job[v].blk \in issued
          /\ \A u \in Workers : pc[u] \in WithOwn => job[u].own # job[v].blk
          /\ pc[v] = "purge" => ~(refcount[job[v].blk] > 0)
          /\ pc[v] \in Migrating => v \in Migrators
      BY <3>1 DEF Stored, Aside, Registered
    <3>3. \A u \in Workers : pc'[u] \in WithOwn => job'[u].own # job[v].blk
      BY <1>1, <3>1, <3>2
    <3>4. pc[v] = "purge" => ~(refcount'[job[v].blk] > 0)
      BY <3>1, <3>2
    <3> QED
      BY <3>1, <3>2, <3>3, <3>4
  <2> QED
    BY <2>1, <2>2
<1>4. Written'
  <2> SUFFICES ASSUME NEW v \in Workers, pc'[v] = "register"
               PROVE  store'[L1][job'[v].own] = job'[v].want
    BY DEF Written
  <2> QED
    BY <1>1 DEF Stored, Written
<1>5. Kept'
  <2> SUFFICES ASSUME NEW p \in Blocks, refcount'[p] > 0,
                      \A m \in Workers : pc'[m] = "retier" => job'[m].blk # p
               PROVE  store'[tier'[p]][p] = hash'[p]
    BY DEF Kept, Registered
  <2>1. CASE /\ refcount[p] > 0 /\ hash'[p] = hash[p] /\ tier'[p] = tier[p]
             /\ \A t \in Tiers : store'[t][p] = store[t][p]
    <3>1. \A m \in Workers : pc[m] = "retier" => job[m].blk # p
      BY <1>1 DEF Migrating
    <3>2. store[tier[p]][p] = hash[p]
      BY <2>1, <3>1 DEF Stored, Kept, Registered
    <3> QED
      BY <1>2, <2>1, <3>2
  <2> QED
    BY <2>1
<1>6. Moves'
  <2> SUFFICES ASSUME NEW m \in Workers, pc'[m] \in Migrating, refcount'[job'[m].blk] > 0
               PROVE  LET p == job'[m].blk
                      IN  /\ pc'[m] # "retier" => job'[m].from = tier'[p] /\ job'[m].to # tier'[p]
                          /\ pc'[m] = "copy" => job'[m].want = hash'[p]
                          /\ pc'[m] \in {"drop", "retier"} => store'[job'[m].to][p] = hash'[p]
    BY DEF Moves, Registered
  <2>1. pc'[m] = pc[m] /\ job'[m] = job[m] /\ job[m].blk \in Blocks /\ job[m].to \in Tiers
    BY <1>1, <1>2
  <2>2. LET p == job[m].blk
        IN  /\ refcount[p] > 0 /\ hash'[p] = hash[p] /\ tier'[p] = tier[p]
            /\ \A t \in Tiers : store'[t][p] = store[t][p]
    BY <2>1
  <2> QED
    BY <2>1, <2>2 DEF Stored, Moves, Registered
<1> QED
  BY <1>3, <1>4, <1>5, <1>6 DEF Stored

(* A block on a release's list has a reference to give back. *)
LEMMA TodoRegistered ==
    ASSUME TypeOK, HoldersCounted, NEW w \in Workers, pc[w] = "release",
           NEW p \in job[w].todo
    PROVE  p \in Blocks /\ refcount[p] > 0
<1>1. p \in Blocks
  BY DEF TypeOK, Jobs
<1>2. w \in Holders(p)
  BY DEF Holders, Releasing
<1>3. Cardinality({w}) <= Cardinality(Holders(p)) /\ Cardinality({w}) = 1
  BY <1>2, HoldersKind, CountShrink, FS_Singleton
<1>4. Cardinality(Holders(p)) \in Nat /\ refcount[p] \in Nat
  BY <1>1, HoldersKind, HoldersFinite DEF TypeOK
<1> QED
  BY <1>1, <1>3, <1>4 DEF HoldersCounted

(* allocate and reuse_prefix keep every block readable. *)
LEMMA StoredAllocate ==
    ASSUME TypeOK, Locals, Fresh, Stored, NEW w \in Workers, Allocate(w)
    PROVE  Stored'
<1> USE DEF physVars
<1>b. \A v \in Workers : job[v] \in Jobs
  BY DEF TypeOK
<1>1. ASSUME NEW s \in Sessions, CreateSession(w, s) PROVE Stored'
  BY <1>1, StoredCalm DEF CreateSession, Calm
<1>2. ASSUME NEW s \in Sessions, NEW c \in Contents, AllocateHit(w, s, c) PROVE Stored'
  <2>1. Calm
    BY <1>2, CalmGoto DEF AllocateHit, WithOwn, Migrating
  <2> QED
    BY <1>2, <2>1, StoredCalm DEF AllocateHit
<1>3. ASSUME NEW s \in Sessions, NEW c \in Contents, AllocateMiss(w, s, c) PROVE Stored'
  <2>1. PICK p \in Blocks \ issued :
          /\ issued' = issued \cup {p}
          /\ Goto(w, "put", [NoJob EXCEPT !.sess = s, !.want = c, !.own = p])
    BY <1>3 DEF AllocateMiss
  <2> DEFINE new == [NoJob EXCEPT !.sess = s, !.want = c, !.own = p]
  <2>2. new.own = p /\ Goto(w, "put", new)
    BY <2>1 DEF NoJob
  <2>3. \A v \in Workers : pc[v] \in Migrating \cup {"purge"} => job[v].blk # p
    BY <2>1 DEF Stored, Aside
  <2>4. pc[w] = "idle" /\ UNCHANGED <<refcount, hash, tier, store>>
    BY <1>3 DEF AllocateMiss
  <2> HIDE DEF new
  <2> QED
    BY <2>1, <2>2, <2>3, <2>4, StoredCall DEF Migrating
<1>4. ASSUME NEW s \in Sessions, NEW c \in Contents, ReusePrefix(w, s, c) PROVE Stored'
  <2>1. Calm
    BY <1>4, CalmGoto, CalmDone DEF ReusePrefix, WithOwn, Migrating
  <2> QED
    BY <1>4, <2>1, StoredCalm DEF ReusePrefix
<1>5. CASE AcquireFound(w) \/ Reacquire(w)
  <2>1. Calm
    BY <1>5, CalmGoto, CalmDone DEF AcquireFound, Reacquire, Acquire, WithOwn, Migrating
  <2>2. \A p \in Blocks : refcount'[p] > 0 => refcount[p] > 0
    BY <1>5 DEF AcquireFound, Reacquire, Acquire, TypeOK, Registered
  <2> QED
    BY <1>5, <2>1, <2>2, StoredCalm DEF AcquireFound, Reacquire
<1>6. CASE PutPayload(w)
  <2> DEFINE own == job[w].own
             data == job[w].want
  <2>1. /\ own \in Blocks /\ ~(refcount[own] > 0) /\ pc[w] = "put"
        /\ \A v \in Workers : v # w /\ pc[v] \in WithOwn => job[v].own # own /\ job[v].own \in Blocks
        /\ \A v \in Workers : pc[v] \in Migrating \cup {"purge"} => own # job[v].blk
    BY <1>6 DEF PutPayload, Locals, Fresh, Stored, Aside, WithOwn
  <2>2. /\ store' = [store EXCEPT ![L1][own] = data]
        /\ Goto(w, "register", job[w]) /\ UNCHANGED <<refcount, hash, tier, issued>>
    BY <1>6 DEF PutPayload
  <2> HIDE DEF own, data
  <2>a. /\ \A u \in Tiers, p \in Blocks : u # L1 \/ p # own => store'[u][p] = store[u][p]
        /\ L1 \in Tiers /\ own \in Blocks => store'[L1][own] = data
    BY <2>2, StoreWrite
  <2>3. /\ \A p \in Blocks, t \in Tiers : p # own => store'[t][p] = store[t][p]
        /\ store'[L1][own] = data
    BY <2>a, <2>1, L1IsTier
  <2>4. ASSUME NEW v \in Workers, v # w, pc[v] = "register"
        PROVE  store'[L1][job[v].own] = store[L1][job[v].own]
    <3>1. job[v].own \in Blocks /\ job[v].own # own
      BY <2>1, <2>4 DEF WithOwn
    <3> QED
      BY <2>3, <3>1, L1IsTier
  <2>5. \A p \in Blocks : refcount'[p] > 0 => \A t \in Tiers : store'[t][p] = store[t][p]
    BY <2>1, <2>2, <2>3
  <2> QED
    BY <2>1, <2>2, <2>3, <2>4, <2>5, StoredCall DEF Migrating, own, data
<1>7. CASE Register(w)
  <2> DEFINE own == job[w].own
             new == [job[w] EXCEPT !.blk = own]
  <2>1. /\ own \in Blocks /\ ~(refcount[own] > 0) /\ pc[w] = "register"
        /\ \A v \in Workers : pc[v] \in Migrating \cup {"purge"} => own # job[v].blk
        /\ store[L1][own] = job[w].want
    BY <1>7 DEF Register, Locals, Fresh, Stored, Aside, Written, WithOwn
  <2>2. /\ refcount' = [refcount EXCEPT ![own] = 1] /\ hash' = [hash EXCEPT ![own] = job[w].want]
        /\ tier' = [tier EXCEPT ![own] = L1] /\ UNCHANGED <<issued, store>>
        /\ Goto(w, "attach", new)
    BY <1>7 DEF Register
  <2>3. \A p \in Blocks \ {own} :
          refcount'[p] = refcount[p] /\ hash'[p] = hash[p] /\ tier'[p] = tier[p]
    BY <2>2 DEF TypeOK
  <2>4. hash'[own] = job[w].want /\ tier'[own] = L1
    BY <2>1, <2>2 DEF TypeOK
  <2> HIDE DEF own, new
  <2> QED
    BY <2>1, <2>2, <2>3, <2>4, StoredCall DEF Migrating, WithOwn
<1>8. CASE RegisterLost(w)
  <2> DEFINE new == [job[w] EXCEPT !.blk = Find(job[w].want)]
  <2>1. new.own = job[w].own /\ pc[w] = "register"
    BY <1>8, <1>b DEF RegisterLost, Jobs
  <2>2. Goto(w, "reacquire", new)
    BY <1>8 DEF RegisterLost
  <2> HIDE DEF new
  <2>3. Calm
    BY <2>1, <2>2, CalmGoto DEF WithOwn, Migrating
  <2> QED
    BY <1>8, <2>3, StoredCalm DEF RegisterLost
<1>9. CASE DiscardOwn(w)
  <2> DEFINE own == job[w].own
  <2>1. /\ ~(refcount[own] > 0) /\ pc[w] = "discard" /\ Goto(w, "attach", job[w])
        /\ UNCHANGED <<refcount, hash, tier, issued>>
        /\ store' = [store EXCEPT ![L1][own] = None]
    BY <1>9 DEF DiscardOwn, Fresh, WithOwn
  <2>2. Calm
    BY <2>1, CalmGoto DEF WithOwn, Migrating
  <2>3. \A v \in Workers : pc'[v] = "register" => job[v].own # own
    BY <2>1, GotoFacts DEF Fresh, WithOwn
  <2>4. \A p \in Blocks, t \in Tiers : p # own => store'[t][p] = store[t][p]
    BY <2>1, StoreWrite
  <2> QED
    BY <2>1, <2>2, <2>3, <2>4, StoredCalm DEF Registered
<1>10. CASE ReadIndex(w)
  <2>1. Calm
    BY <1>10, CalmGoto, CalmDone DEF ReadIndex, WithOwn, Migrating
  <2> QED
    BY <1>10, <2>1, StoredCalm DEF ReadIndex
<1>11. CASE AttachTo(w)
  <2>1. Calm
    BY <1>11, CalmGoto, CalmDone DEF AttachTo, WithOwn, Migrating
  <2> QED
    BY <1>11, <2>1, StoredCalm DEF AttachTo
<1>12. CASE AttachToDead(w)
  <2>5. Calm
    BY <1>12, DeadFacts DEF Calm, WithOwn, Migrating
  <2> QED
    BY <1>12, <2>5, StoredCalm DEF AttachToDead
<1>13. CASE InsertPrefix(w)
  <2>1. Calm
    BY <1>13, CalmDone DEF InsertPrefix
  <2> QED
    BY <1>13, <2>1, StoredCalm DEF InsertPrefix
<1> QED
  BY <1>1, <1>2, <1>3, <1>4, <1>5, <1>6, <1>7, <1>8, <1>9, <1>10, <1>11, <1>12, <1>13
  DEF Allocate

(* So does a release: what it purges is no block any more. *)
LEMMA StoredRelease ==
    ASSUME TypeOK, Locals, Fresh, HoldersCounted, Stored, NEW w \in Workers, Release(w)
    PROVE  Stored'
<1> USE DEF physVars
<1>b. \A v \in Workers : job[v] \in Jobs
  BY DEF TypeOK
<1>1. ASSUME NEW s \in Sessions, ReleaseSession(w, s) PROVE Stored'
  <2>1. pc[w] = "idle" /\ pc' = [pc EXCEPT ![w] = "popped"]
    BY <1>1 DEF ReleaseSession
  <2>2. \A v \in Workers \ {w} :
          job'[v] = job[v] \/ job'[v] = [job[v] EXCEPT !.gone = TRUE, !.lgone = TRUE]
    BY <1>1 DEF ReleaseSession
  <2>3. ASSUME NEW v \in Workers,
               job'[v] = [job[v] EXCEPT !.gone = TRUE, !.lgone = TRUE]
        PROVE  /\ job'[v].own = job[v].own /\ job'[v].blk = job[v].blk
               /\ job'[v].want = job[v].want /\ job'[v].from = job[v].from
               /\ job'[v].to = job[v].to
    BY <1>b, <2>3 DEF Jobs
  <2>4. \A v \in Workers \ {w} : pc'[v] = pc[v]
    BY <2>1 DEF TypeOK
  <2>5. \A v \in Workers \ {w} : /\ job'[v].own = job[v].own /\ job'[v].blk = job[v].blk
                                 /\ job'[v].want = job[v].want /\ job'[v].from = job[v].from
                                 /\ job'[v].to = job[v].to
    BY <2>2, <2>3
  <2>6. pc'[w] = "popped"
    BY <2>1 DEF TypeOK
  <2>7. Calm
    BY <2>1, <2>4, <2>5, <2>6 DEF Calm, WithOwn, Migrating
  <2> QED
    BY <1>1, <2>7, StoredCalm DEF ReleaseSession
<1>2. CASE DropReference(w)
  <2> DEFINE rest(p) == [job[w] EXCEPT !.todo = @ \ {p}]
             last(p) == [rest(p) EXCEPT !.blk = p, !.to = L1]
  <2>1. PICK p \in job[w].todo :
          /\ refcount' = [refcount EXCEPT ![p] = IF Registered(p) THEN refcount[p] - 1 ELSE 0]
          /\ IF (IF Registered(p) THEN refcount[p] - 1 ELSE 0) = 0
             THEN Goto(w, "purge", last(p)) ELSE Goto(w, "release", rest(p))
    BY <1>2 DEF DropReference
  <2>2. last(p).blk = p
    BY <1>b DEF Jobs
  <2>3. pc[w] = "release" /\ UNCHANGED <<hash, tier, issued, store>>
    BY <1>2 DEF DropReference
  <2>4. p \in Blocks /\ refcount[p] > 0
    BY <2>1, <2>3, TodoRegistered
  <2>5. refcount'[p] = refcount[p] - 1 /\ refcount[p] \in Nat
    BY <2>1, <2>4 DEF TypeOK, Registered
  <2>6. \A q \in Blocks : refcount'[q] > 0 => refcount[q] > 0
    BY <2>1, <2>4 DEF TypeOK
  <2>7. p \in issued /\ \A v \in Workers : pc[v] \in WithOwn => job[v].own # p
    BY <2>4 DEF Fresh
  <2>8. IF refcount[p] - 1 = 0 THEN Goto(w, "purge", last(p)) ELSE Goto(w, "release", rest(p))
    BY <2>1, <2>4 DEF Registered
  <2> HIDE DEF rest, last
  <2>9. CASE refcount[p] - 1 = 0
    BY <2>2, <2>3, <2>5, <2>6, <2>7, <2>8, <2>9, StoredCall DEF Migrating, WithOwn
  <2>10. CASE refcount[p] - 1 # 0
    <3>1. Calm
      BY <2>3, <2>8, <2>10, CalmGoto DEF Migrating, WithOwn
    <3> QED
      BY <2>3, <2>6, <3>1, StoredCalm
  <2> QED
    BY <2>9, <2>10
<1>3. CASE PurgeTier(w)
  <2> DEFINE b == job[w].blk
             next == [job[w] EXCEPT !.to = job[w].to + 1]
  <2>1. next.blk = b /\ pc[w] = "purge"
    BY <1>3, <1>b DEF PurgeTier, Jobs
  <2>2. /\ Goto(w, "release", job[w]) \/ Goto(w, "purge", next)
        /\ UNCHANGED <<refcount, hash, tier, issued>>
        /\ store' = store \/ store' = [store EXCEPT ![job[w].to][b] = None]
    BY <1>3 DEF PurgeTier
  <2>3. ~(refcount[b] > 0) /\ \A v \in Workers : pc[v] \in WithOwn => job[v].own # b
    BY <2>1 DEF Stored, Aside, Registered
  <2> HIDE DEF b, next
  <2>4. \A p \in Blocks, t \in Tiers : p # b => store'[t][p] = store[t][p]
    <3>1. CASE store' = store
      BY <3>1
    <3>2. CASE store' = [store EXCEPT ![job[w].to][b] = None]
      <4>1. \A u \in Tiers, p \in Blocks : u # job[w].to \/ p # b => store'[u][p] = store[u][p]
        BY <3>2, StoreWrite
      <4> QED
        BY <4>1
    <3> QED
      BY <2>2, <3>1, <3>2
  <2>5. Calm
    <3>1. CASE Goto(w, "release", job[w])
      BY <2>1, <3>1, CalmGoto DEF Migrating, WithOwn
    <3>2. CASE Goto(w, "purge", next)
      BY <2>1, <3>2, GotoFacts DEF Calm, Migrating, WithOwn, b
    <3> QED
      BY <2>2, <3>1, <3>2
  <2>6. \A v \in Workers : pc'[v] = "register" => job[v].own # b
    BY <2>3, <2>5 DEF Calm, WithOwn
  <2> QED
    BY <2>2, <2>3, <2>4, <2>5, <2>6, StoredCalm DEF Registered
<1>4. CASE ReleaseEnd(w)
  <2>1. Calm
    BY <1>4, CalmDone DEF ReleaseEnd
  <2> QED
    BY <1>4, <2>1, StoredCalm DEF ReleaseEnd
<1>5. CASE ReleaseBegins(w)
  <2>1. Calm
    BY <1>5, CalmGoto DEF ReleaseBegins, WithOwn, Migrating
  <2> QED
    BY <1>5, <2>1, StoredCalm DEF ReleaseBegins
<1> QED
  BY <1>1, <1>2, <1>3, <1>4, <1>5 DEF Release

(* And so does the one migrator, whose providers may fail. *)
LEMMA StoredMigrate ==
    ASSUME OneMigrator, TypeOK, Locals, Fresh, Stored, NEW m \in Migrators, Migrate(m)
    PROVE  Stored'
<1> USE DEF physVars
<1> DEFINE b == job[m].blk
<1>b. m \in Workers /\ job[m] \in Jobs /\ job[m].to \in Tiers /\ job[m].from \in Tiers
  BY MigratorsWork DEF TypeOK, Jobs
<1>c. ASSUME pc[m] \in Migrating
      PROVE  /\ b \in Blocks /\ b \in issued
             /\ \A w \in Workers : pc[w] \in WithOwn => job[w].own # b
  BY <1>b, <1>c DEF Locals, Stored, Aside
<1>d. ASSUME pc[m] \in {"get", "copy", "drop"}, Registered(b)
      PROVE  /\ job[m].from = tier[b] /\ job[m].to # tier[b]
             /\ store[tier[b]][b] = hash[b]
             /\ pc[m] = "copy" => job[m].want = hash[b]
             /\ pc[m] = "drop" => store[job[m].to][b] = hash[b]
  <2>1. pc[m] \in Migrating
    BY <1>d DEF Migrating
  <2>2. \A v \in Workers : pc[v] = "retier" => job[v].blk # b
    BY <1>d, <2>1 DEF Stored, Aside, OneMigrator, Migrating
  <2> QED
    BY <1>b, <1>c, <1>d, <2>1, <2>2 DEF Stored, Moves, Kept
<1>1. ASSUME NEW p \in Blocks, NEW t \in Tiers, MigrateBlock(m, p, t) PROVE Stored'
  <2> DEFINE new == [NoJob EXCEPT !.blk = p, !.from = tier[p], !.to = t]
  <2>1. new.blk = p /\ new.from = tier[p] /\ new.to = t
    BY DEF NoJob
  <2>2. /\ Goto(m, "get", new) /\ pc[m] = "idle" /\ tier[p] # t /\ refcount[p] > 0
        /\ UNCHANGED <<refcount, hash, tier, issued, store>>
    BY <1>1 DEF MigrateBlock, Registered
  <2> HIDE DEF new
  <2>3. p \in issued /\ \A w \in Workers : pc[w] \in WithOwn => job[w].own # p
    BY <2>2 DEF Fresh
  <2>4. store[tier[p]][p] = hash[p]
    <3>1. \A v \in Workers : pc[v] = "retier" => job[v].blk # p
      BY <2>2, <1>b DEF Stored, Aside, OneMigrator, Migrating
    <3> QED
      BY <2>2, <3>1 DEF Stored, Kept, Registered
  <2> QED
    BY <2>1, <2>2, <2>3, <2>4, StoredMove DEF Migrating
<1>2. CASE MigrateGet(m)
  <2> DEFINE data == store[job[m].from][b]
             new == [job[m] EXCEPT !.want = data]
  <2>1. /\ new.blk = b /\ new.from = job[m].from /\ new.to = job[m].to /\ new.want = data
    BY <1>b DEF Jobs
  <2>2. /\ Goto(m, "copy", new) \/ Done(m)
        /\ pc[m] = "get" /\ UNCHANGED <<refcount, hash, tier, issued, store>>
    BY <1>2 DEF MigrateGet
  <2> HIDE DEF new
  <2>3. CASE Goto(m, "copy", new)
    BY <1>c, <1>d, <2>1, <2>2, <2>3, StoredMove DEF Migrating
  <2>4. CASE Done(m)
    <3>1. Goto(m, "idle", NoJob)
      BY <2>4 DEF Done
    <3> QED
      BY <1>c, <1>d, <2>2, <3>1, StoredMove DEF Migrating
  <2> QED
    BY <2>2, <2>3, <2>4
<1>3. ASSUME pc[m] = "copy", NEW d, store' = [store EXCEPT ![job[m].to][b] = d],
             UNCHANGED <<refcount, hash, tier, issued>>,
             NEW label \in {"drop", "idle"}, NEW locals, Goto(m, label, locals),
             label = "drop" => locals = job[m] /\ d = job[m].want
      PROVE  Stored'
  <2> DEFINE dest == job[m].to
  <2>a. store' = [store EXCEPT ![dest][b] = d]
    BY <1>3
  <2> HIDE DEF dest, b
  <2>b. /\ \A u \in Tiers, p \in Blocks : u # dest \/ p # b => store'[u][p] = store[u][p]
        /\ dest \in Tiers /\ b \in Blocks => store'[dest][b] = d
    BY <2>a, StoreWrite
  <2> USE DEF dest, b
  <2>1. /\ \A u \in Tiers, p \in Blocks : u # job[m].to \/ p # b => store'[u][p] = store[u][p]
        /\ job[m].to \in Tiers /\ b \in Blocks => store'[job[m].to][b] = d
    BY <2>b
  <2>2. b \in Blocks /\ b \in issued /\ tier[b] \in Tiers
    BY <1>3, <1>c DEF TypeOK, Migrating
  <2>3. \A w \in Workers : pc[w] \in WithOwn => job[w].own # b
    BY <1>3, <1>c DEF Migrating
  <2>4. Registered(b) => store'[tier[b]][b] = hash[b]
    BY <1>3, <1>d, <2>1, <2>2
  <2>5. Registered(b) /\ label = "drop" =>
          store'[job[m].to][b] = hash[b] /\ job[m].from = tier[b] /\ job[m].to # tier[b]
    BY <1>3, <1>b, <1>d, <2>1, <2>2
  <2>6. \A p \in Blocks : p # b => \A t \in Tiers : store'[t][p] = store[t][p]
    BY <2>1
  <2> QED
    BY <1>3, <2>2, <2>3, <2>4, <2>5, <2>6, StoredMove DEF Migrating
<1>4. CASE MigratePut(m)
  BY <1>3, <1>4 DEF MigratePut
<1>5. CASE MigrateDelete(m)
  <2>1. /\ pc[m] = "drop" /\ Goto(m, "retier", job[m])
        /\ store' = [store EXCEPT ![job[m].from][b] = None]
        /\ UNCHANGED <<refcount, hash, tier, issued>>
    BY <1>5 DEF MigrateDelete
  <2>2. \A u \in Tiers, p \in Blocks : u # job[m].from \/ p # b => store'[u][p] = store[u][p]
    BY <2>1, StoreWrite
  <2>3. b \in Blocks /\ b \in issued /\ \A w \in Workers : pc[w] \in WithOwn => job[w].own # b
    BY <2>1, <1>c DEF Migrating
  <2>4. Registered(b) => store'[job[m].to][b] = hash[b]
    BY <1>b, <1>d, <2>1, <2>2, <2>3
  <2>5. \A p \in Blocks : p # b => \A t \in Tiers : store'[t][p] = store[t][p]
    BY <2>2
  <2> QED
    BY <2>1, <2>3, <2>4, <2>5, StoredMove DEF Migrating
<1>6. CASE MigrateUpdate(m)
  <2>1. /\ pc[m] = "retier" /\ Goto(m, "idle", NoJob) /\ UNCHANGED <<refcount, hash, issued, store>>
        /\ tier' = IF Registered(b) THEN [tier EXCEPT ![b] = job[m].to] ELSE tier
    BY <1>6 DEF MigrateUpdate, Done
  <2>2. b \in Blocks /\ b \in issued /\ \A w \in Workers : pc[w] \in WithOwn => job[w].own # b
    BY <2>1, <1>c DEF Migrating
  <2>3. \A p \in Blocks : p # b => tier'[p] = tier[p]
    BY <2>1 DEF TypeOK
  <2>4. Registered(b) => tier'[b] = job[m].to /\ store[job[m].to][b] = hash[b]
    BY <1>b, <2>1, <2>2 DEF TypeOK, Stored, Moves, Migrating
  <2> QED
    BY <2>1, <2>2, <2>3, <2>4, StoredMove DEF Migrating
<1>7. CASE MigrateFails(m)
  <2>1. /\ pc[m] \in {"get", "copy", "drop"} /\ Goto(m, "idle", NoJob)
        /\ UNCHANGED <<refcount, hash, tier, issued>>
    BY <1>7 DEF MigrateFails, Done
  <2>2. CASE UNCHANGED store
    BY <1>c, <1>d, <2>1, <2>2, StoredMove DEF Migrating
  <2>3. CASE ~UNCHANGED store
    BY <1>3, <1>7, <2>1, <2>3 DEF MigrateFails
  <2> QED
    BY <2>2, <2>3
<1> QED
  BY <1>1, <1>2, <1>4, <1>5, <1>6, <1>7 DEF Migrate

LEMMA InitStored == Init => Stored
  BY DEF Init, Stored, Aside, Written, Kept, Moves, Registered, WithOwn, Migrating

LEMMA StoredStep == OneMigrator /\ IInv /\ Stored /\ [Next]_vars => Stored'
<1> SUFFICES ASSUME OneMigrator, IInv, Stored, [Next]_vars PROVE Stored'
  OBVIOUS
<1>1. TypeOK /\ Locals /\ Fresh /\ HoldersCounted
  BY DEF IInv
<1>2. CASE UNCHANGED vars
  BY <1>1, <1>2, StoredCalm DEF Calm, vars
<1>3. CASE Next
  BY <1>1, <1>3, StoredAllocate, StoredRelease, StoredMigrate DEF Next
<1> QED
  BY <1>2, <1>3

(* With one migrator, whatever its providers raise and whatever the calls  *)
(* allocate and release meanwhile, migrate_block leaves every registered   *)
(* block readable in the tier its record names.                            *)
THEOREM MovesSafe ==
    ASSUME OneMigrator
    PROVE  Spec => []LiveBlockReadable
<1>1. IInv /\ Stored /\ [Next]_vars => Stored'
  BY StoredStep
<1>2. Stored => LiveBlockReadable
  BY DEF Stored, Kept, Aside, LiveBlockReadable, Migrating
<1> QED
  BY Invariance, InitStored, <1>1, <1>2, PTL DEF Spec
-----------------------------------------------------------------------------
(* What a session reads is what was asked for it. *)

\* Steps of a call after it has been given its block.
Named == {"acquire", "reacquire", "discard", "attach", "map", "insert"}

\* A block that a call, the prefix cache, the index or a session names has the
\* payload it is named for, and a new block has none before it is registered.
Meant ==
    /\ \A p \in Blocks : p \notin issued => hash[p] = None
    /\ \A w \in Workers :
          /\ pc[w] \in {"put", "register"} => hash[job[w].own] = None
          /\ pc[w] \in Named => /\ job[w].blk \in Blocks /\ job[w].want \in Contents
                                /\ hash[job[w].blk] = job[w].want
    /\ \A c \in Contents : /\ prefix[c] # None => hash[prefix[c]] = c
                           /\ byHash[c] # None => hash[byHash[c]] = c
    /\ \A s \in Sessions : \A i \in DOMAIN blocks[s] : hash[blocks[s][i]] # None

\* The content of a record is written once.
HashKept == \A p \in Blocks : hash[p] # None => hash'[p] = hash[p]

(* Registering is the only step that writes a content, to a new block. *)
LEMMA HashStep ==
    ASSUME IInv, Meant, [Next]_vars
    PROVE  HashKept
<1>1. CASE hash' = hash
  BY <1>1 DEF HashKept
<1>2. ASSUME NEW w \in Workers, Register(w) PROVE HashKept
  <2>1. hash' = [hash EXCEPT ![job[w].own] = job[w].want] /\ hash[job[w].own] = None
    BY <1>2 DEF Register, Meant
  <2> QED
    BY <2>1 DEF HashKept, IInv, TypeOK
<1>3. ASSUME NEW w \in Workers, Allocate(w) PROVE HashKept
  BY <1>1, <1>2, <1>3 DEF Allocate, CreateSession, AllocateHit, AllocateMiss,
     ReusePrefix, AcquireFound, PutPayload, RegisterLost, Reacquire, DiscardOwn, ReadIndex,
     AttachTo, AttachToDead, InsertPrefix, physVars
<1>4. ASSUME NEW w \in Workers, Release(w) PROVE HashKept
  BY <1>1, <1>4 DEF Release, ReleaseSession, ReleaseBegins, DropReference, PurgeTier, ReleaseEnd,
     physVars
<1>5. ASSUME NEW w \in Workers, Migrate(w) PROVE HashKept
  BY <1>1, <1>5 DEF Migrate, MigrateBlock, MigrateGet, MigratePut, MigrateDelete,
     MigrateUpdate, MigrateFails, physVars
<1> QED
  BY <1>1, <1>3, <1>4, <1>5, MigratorsWork DEF Next, vars

(* A step of one worker to a place it can account for keeps Meant. *)
LEMMA MeantGoto ==
    ASSUME IInv, Meant, NEW w \in Workers, NEW label, NEW locals, Goto(w, label, locals),
           issued \subseteq issued', hash' = hash,
           UNCHANGED <<prefix, blocks>>,
           \A c \in Contents : byHash'[c] \in {byHash[c], None},
           label \in {"put", "register"} => hash[locals.own] = None,
           label \in Named => /\ locals.blk \in Blocks /\ locals.want \in Contents
                              /\ hash[locals.blk] = locals.want
    PROVE  Meant'
<1>1. \A v \in Workers :
         /\ pc'[v] = IF v = w THEN label ELSE pc[v]
         /\ job'[v] = IF v = w THEN locals ELSE job[v]
  BY GotoFacts DEF IInv
<1> QED
  BY <1>1 DEF Meant

(* A call that ends names nothing any more. *)
LEMMA MeantDone ==
    ASSUME IInv, Meant, NEW w \in Workers, Done(w),
           UNCHANGED <<issued, hash, byHash, prefix, blocks>>
    PROVE  Meant'
  BY MeantGoto DEF Done, Named

(* What get_by_hash finds has the content it was looked up for. *)
LEMMA FoundContent ==
    ASSUME IInv, Meant, NEW c \in Contents, Find(c) # None
    PROVE  Find(c) \in Blocks /\ hash[Find(c)] = c
  BY FindFacts, NoneIsNothing DEF IInv, TypeOK, Meant

(* The calls that find, acquire and attach blocks. *)
LEMMA MeantAllocate ==
    ASSUME IInv, Meant, NEW w \in Workers, Allocate(w)
    PROVE  Meant'
<1> USE DEF Named, physVars, sessVars
<1>a. TypeOK /\ Locals /\ Fresh /\ Indexed /\ \A v \in Workers : job[v] \in Jobs
  BY DEF IInv, TypeOK
<1>1. ASSUME NEW s \in Sessions, CreateSession(w, s) PROVE Meant'
  BY <1>1 DEF CreateSession, Meant
<1>2. ASSUME NEW s \in Sessions, NEW c \in Contents, AllocateHit(w, s, c) PROVE Meant'
  <2> DEFINE new == [NoJob EXCEPT !.sess = s, !.want = c, !.blk = Find(c)]
  <2>1. Find(c) \in Blocks /\ hash[Find(c)] = c
    BY <1>2, <1>a, FoundContent DEF AllocateHit
  <2>2. new.blk = Find(c) /\ new.want = c
    BY DEF NoJob
  <2>3. Goto(w, "acquire", new) /\ UNCHANGED <<issued, hash, byHash, prefix, blocks>>
    BY <1>2 DEF AllocateHit
  <2> HIDE DEF new
  <2> QED
    BY <2>1, <2>2, <2>3, MeantGoto
<1>3. ASSUME NEW s \in Sessions, NEW c \in Contents, AllocateMiss(w, s, c) PROVE Meant'
  <2>1. PICK p \in Blocks \ issued :
            /\ issued' = issued \cup {p}
            /\ Goto(w, "put", [NoJob EXCEPT !.sess = s, !.want = c, !.own = p])
    BY <1>3 DEF AllocateMiss
  <2> DEFINE new == [NoJob EXCEPT !.sess = s, !.want = c, !.own = p]
  <2>2. new.own = p /\ hash[p] = None
    BY <2>1 DEF NoJob, Meant
  <2>3. Goto(w, "put", new) /\ issued \subseteq issued' /\ UNCHANGED <<hash, byHash, prefix, blocks>>
    BY <1>3, <2>1 DEF AllocateMiss
  <2> HIDE DEF new
  <2> QED
    BY <2>2, <2>3, MeantGoto
<1>4. ASSUME NEW s \in Sessions, NEW c \in Contents, ReusePrefix(w, s, c) PROVE Meant'
  <2> DEFINE new == [NoJob EXCEPT !.sess = s, !.want = c, !.reuse = TRUE, !.blk = prefix[c]]
  <2>1. prefix[c] \in Blocks /\ hash[prefix[c]] = c
    BY <1>4, <1>a DEF ReusePrefix, Meant, TypeOK
  <2>2. new.blk = prefix[c] /\ new.want = c
    BY DEF NoJob
  <2>3. /\ Goto(w, "acquire", new) \/ Done(w)
        /\ UNCHANGED <<issued, hash, byHash, prefix, blocks>>
    BY <1>4 DEF ReusePrefix
  <2> HIDE DEF new
  <2> QED
    BY <2>1, <2>2, <2>3, MeantGoto, MeantDone
<1>5. ASSUME NEW label \in {"attach", "discard"}, Acquire(w, label), pc[w] \in {"acquire", "reacquire"},
             UNCHANGED <<issued, hash, byHash, prefix, blocks>>
      PROVE  Meant'
  <2>1. Goto(w, label, job[w]) \/ Done(w)
    BY <1>5 DEF Acquire
  <2> QED
    BY <1>5, <2>1, MeantGoto, MeantDone DEF Meant
<1>6. CASE AcquireFound(w)
  BY <1>5, <1>6 DEF AcquireFound
<1>7. CASE PutPayload(w)
  <2>1. Goto(w, "register", job[w]) /\ hash[job[w].own] = None
    BY <1>7 DEF PutPayload, Meant
  <2> QED
    BY <1>7, <2>1, MeantGoto DEF PutPayload
<1>8. CASE Register(w)
  <2> DEFINE new == [job[w] EXCEPT !.blk = job[w].own]
  <2>1. /\ job[w].own \in Blocks /\ job[w].own \in issued /\ job[w].want \in Contents
        /\ hash[job[w].own] = None /\ new.blk = job[w].own /\ new.want = job[w].want
    BY <1>8, <1>a DEF Register, Locals, Fresh, WithOwn, Allocating, Meant, Jobs
  <2>2. /\ Goto(w, "attach", new) /\ hash' = [hash EXCEPT ![job[w].own] = job[w].want]
        /\ byHash' = [byHash EXCEPT ![job[w].want] = job[w].own]
        /\ UNCHANGED <<issued, prefix, blocks>>
    BY <1>8 DEF Register
  <2> HIDE DEF new
  <2>3. \A v \in Workers :
           /\ pc'[v] = IF v = w THEN "attach" ELSE pc[v]
           /\ job'[v] = IF v = w THEN new ELSE job[v]
    BY <1>a, <2>2, GotoFacts
  <2>4. \A p \in Blocks : hash'[p] = IF p = job[w].own THEN job[w].want ELSE hash[p]
    BY <1>a, <2>2 DEF TypeOK
  <2>5. \A v \in Workers : v # w /\ pc[v] \in {"put", "register"} =>
            job[v].own \in Blocks /\ job[v].own # job[w].own
    BY <1>8, <1>a DEF Register, Locals, Fresh, WithOwn
  <2>6. \A v \in Workers : v # w /\ pc[v] \in Named =>
            job[v].blk \in Blocks /\ hash[job[v].blk] # None
    BY NoneIsNothing DEF Meant
  <2>7. \A p \in Blocks : p \notin issued' => hash'[p] = None
    BY <2>1, <2>2, <2>4 DEF Meant
  <2>8. ASSUME NEW v \in Workers
        PROVE  /\ pc'[v] \in {"put", "register"} => hash'[job'[v].own] = None
               /\ pc'[v] \in Named => /\ job'[v].blk \in Blocks /\ job'[v].want \in Contents
                                      /\ hash'[job'[v].blk] = job'[v].want
    BY <2>1, <2>3, <2>4, <2>5, <2>6 DEF Meant
  <2>9. ASSUME NEW c \in Contents
        PROVE  /\ prefix'[c] # None => hash'[prefix'[c]] = c
               /\ byHash'[c] # None => hash'[byHash'[c]] = c
    <3>1. /\ prefix[c] # None => prefix[c] \in Blocks /\ hash[prefix[c]] = c
          /\ byHash[c] # None => byHash[c] \in Blocks /\ hash[byHash[c]] = c
      BY <1>a DEF TypeOK, Meant
    <3>2. byHash'[c] = IF c = job[w].want THEN job[w].own ELSE byHash[c]
      BY <1>a, <2>2 DEF TypeOK
    <3> QED
      BY <2>1, <2>2, <2>4, <3>1, <3>2, NoneIsNothing
  <2>10. \A s \in Sessions : \A i \in DOMAIN blocks'[s] : hash'[blocks'[s][i]] # None
    <3>1. \A s \in Sessions : \A i \in DOMAIN blocks[s] : blocks[s][i] \in Blocks
      BY <1>a DEF TypeOK
    <3> QED
      BY <2>1, <2>2, <2>4, <3>1 DEF Meant
  <2> QED
    BY <2>7, <2>8, <2>9, <2>10 DEF Meant
<1>9. CASE RegisterLost(w)
  <2> DEFINE new == [job[w] EXCEPT !.blk = Find(job[w].want)]
  <2>1. job[w].want \in Contents
    BY <1>9, <1>a DEF RegisterLost, Locals, Allocating
  <2>2. Find(job[w].want) \in Blocks /\ hash[Find(job[w].want)] = job[w].want
    BY <1>9, <1>a, <2>1, FoundContent DEF RegisterLost
  <2>3. new.blk = Find(job[w].want) /\ new.want = job[w].want
    BY <1>a DEF Jobs
  <2>4. Goto(w, "reacquire", new) /\ UNCHANGED <<issued, hash, byHash, prefix, blocks>>
    BY <1>9 DEF RegisterLost
  <2> HIDE DEF new
  <2> QED
    BY <2>1, <2>2, <2>3, <2>4, MeantGoto
<1>10. CASE Reacquire(w)
  BY <1>5, <1>10 DEF Reacquire
<1>11. CASE DiscardOwn(w)
  <2>1. Goto(w, "attach", job[w]) /\ pc[w] = "discard"
    BY <1>11 DEF DiscardOwn
  <2> QED
    BY <1>11, <2>1, MeantGoto DEF DiscardOwn, Meant
<1>12. CASE ReadIndex(w)
  <2> DEFINE new == [job[w] EXCEPT !.idx = Len(logical[job[w].sess]), !.lgone = FALSE]
  <2>1. /\ Goto(w, "map", new) \/ Done(w)
        /\ UNCHANGED <<issued, hash, byHash, prefix, blocks>> /\ pc[w] = "attach"
    BY <1>12 DEF ReadIndex
  <2>2. new.blk = job[w].blk /\ new.want = job[w].want
    BY <1>a DEF Jobs
  <2> HIDE DEF new
  <2> QED
    BY <2>1, <2>2, MeantGoto, MeantDone DEF Meant
<1>13. CASE AttachTo(w)
  <2> DEFINE s == job[w].sess
             p == job[w].blk
  <2>1. /\ p \in Blocks /\ hash[p] = job[w].want /\ job[w].want \in Contents /\ s \in Sessions
    BY <1>13, <1>a DEF AttachTo, Meant, Locals, Allocating
  <2>2. Inserting(w).blk = p /\ Inserting(w).want = job[w].want
    BY DEF Inserting, NoJob
  <2>3. \A v \in Workers :
           \/ v # w /\ pc'[v] = pc[v] /\ job'[v] = job[v]
           \/ v = w /\ pc'[v] = "idle"
           \/ v = w /\ pc'[v] = "insert" /\ job'[v] = Inserting(w)
    BY <1>13, <1>a, GotoFacts DEF AttachTo, Done
  <2>4. /\ blocks' = [blocks EXCEPT ![s] = Append(@, p)]
        /\ issued' = issued /\ hash' = hash /\ prefix' = prefix /\ byHash' = byHash
    BY <1>13 DEF AttachTo
  <2> HIDE DEF s, p
  <2>5. \A v \in Workers :
           /\ pc'[v] \in {"put", "register"} => hash'[job'[v].own] = None
           /\ pc'[v] \in Named => /\ job'[v].blk \in Blocks /\ job'[v].want \in Contents
                                  /\ hash'[job'[v].blk] = job'[v].want
    BY <2>1, <2>2, <2>3, <2>4 DEF Meant
  <2>6. ASSUME NEW t \in Sessions, NEW i \in DOMAIN blocks'[t] PROVE hash'[blocks'[t][i]] # None
    <3>1. blocks[t] \in Seq(Blocks) /\ blocks[s] \in Seq(Blocks)
      BY <1>a, <2>1 DEF TypeOK
    <3>2. CASE t = s
      <4>1. blocks'[t] = Append(blocks[s], p)
        BY <1>a, <2>1, <2>4, <3>2 DEF TypeOK
      <4>2. i \in 1..(Len(blocks[s]) + 1)
        BY <2>1, <2>6, <3>1, <4>1
      <4>3. CASE i = Len(blocks[s]) + 1
        <5>1. blocks'[t][i] = p
          BY <2>1, <3>1, <4>1, <4>3
        <5> QED
          BY <2>1, <2>4, <5>1, NoneIsNothing
      <4>4. CASE i \in 1..Len(blocks[s])
        <5>1. blocks'[t][i] = blocks[s][i] /\ i \in DOMAIN blocks[s]
          BY <2>1, <3>1, <4>1, <4>4
        <5> QED
          BY <2>1, <2>4, <5>1 DEF Meant
      <4> QED
        BY <3>1, <4>2, <4>3, <4>4
    <3>3. CASE t # s
      <4>1. blocks'[t] = blocks[t]
        BY <1>a, <2>4, <3>3 DEF TypeOK
      <4>2. i \in DOMAIN blocks[t]
        BY <2>6, <4>1
      <4>3. hash[blocks[t][i]] # None
        BY <4>2 DEF Meant
      <4> QED
        BY <2>4, <4>1, <4>3
    <3> QED
      BY <3>2, <3>3
  <2>7. /\ \A q \in Blocks : q \notin issued' => hash'[q] = None
        /\ \A c \in Contents : /\ prefix'[c] # None => hash'[prefix'[c]] = c
                               /\ byHash'[c] # None => hash'[byHash'[c]] = c
    BY <2>4 DEF Meant
  <2> QED
    BY <2>5, <2>6, <2>7 DEF Meant
<1>14. CASE AttachToDead(w)
  <2>1. /\ job[w].blk \in Blocks /\ hash[job[w].blk] = job[w].want /\ job[w].want \in Contents
    BY <1>14 DEF AttachToDead, Meant
  <2>2. Inserting(w).blk = job[w].blk /\ Inserting(w).want = job[w].want
    BY DEF Inserting, NoJob
  <2>3. \A v \in Workers :
           \/ /\ v # w /\ pc'[v] = pc[v] /\ job'[v].own = job[v].own
              /\ job'[v].blk = job[v].blk /\ job'[v].want = job[v].want
           \/ v = w /\ pc'[v] = "idle"
           \/ v = w /\ pc'[v] = "insert" /\ job'[v] = Inserting(w)
    <3>1. pc'[w] = "insert" => job'[w] = Inserting(w)
      BY <1>14, <1>a DEF AttachToDead, TypeOK
    <3> QED
      BY <1>14, <1>a, <3>1, DeadFacts
  <2>4. UNCHANGED <<issued, hash, byHash, prefix, blocks>>
    BY <1>14 DEF AttachToDead
  <2> QED
    BY <2>1, <2>2, <2>3, <2>4 DEF Meant
<1>15. CASE InsertPrefix(w)
  <2>1. /\ job[w].blk \in Blocks /\ hash[job[w].blk] = job[w].want /\ job[w].want \in Contents
    BY <1>15 DEF InsertPrefix, Meant
  <2>2. \A v \in Workers : pc'[v] \in Named \cup {"put", "register"} => pc'[v] = pc[v] /\ job'[v] = job[v]
    BY <1>15, <1>a, GotoFacts DEF InsertPrefix, Done
  <2>3. UNCHANGED <<issued, hash, byHash, blocks>>
    BY <1>15 DEF InsertPrefix
  <2>6. \/ prefix' = prefix
        \/ prefix' = [prefix EXCEPT ![job[w].want] = job[w].blk]
        \/ \E d \in Contents : prefix' = [prefix EXCEPT ![job[w].want] = job[w].blk, ![d] = None]
    BY <1>15 DEF InsertPrefix
  <2>7. prefix \in [Contents -> Blocks \cup {None}]
    BY <1>a DEF TypeOK
  <2>4. ASSUME NEW c \in Contents
        PROVE  prefix'[c] \in {prefix[c], None} \/ (c = job[w].want /\ prefix'[c] = job[w].blk)
    <3>1. CASE prefix' = prefix \/ prefix' = [prefix EXCEPT ![job[w].want] = job[w].blk]
      BY <2>7, <3>1
    <3>2. ASSUME NEW d \in Contents,
                 prefix' = [prefix EXCEPT ![job[w].want] = job[w].blk, ![d] = None]
          PROVE  prefix'[c] \in {prefix[c], None} \/ (c = job[w].want /\ prefix'[c] = job[w].blk)
      BY <2>7, <3>2
    <3> QED
      BY <2>6, <3>1, <3>2
  <2>5. \A c \in Contents : prefix'[c] # None => hash'[prefix'[c]] = c
    BY <2>1, <2>3, <2>4 DEF Meant
  <2> QED
    BY <2>2, <2>3, <2>5 DEF Meant
<1> QED
  BY <1>1, <1>2, <1>3, <1>4, <1>6, <1>7, <1>8, <1>9, <1>10, <1>11, <1>12, <1>13, <1>14, <1>15 DEF Allocate

(* Releases and migrations name nothing new. *)
LEMMA MeantStep ==
    ASSUME IInv, Meant, [Next]_vars
    PROVE  Meant'
<1> USE DEF Named, physVars, sessVars
<1>a. TypeOK /\ \A v \in Workers : job[v] \in Jobs
  BY DEF IInv, TypeOK
<1>1. ASSUME NEW w \in Workers, NEW label \in Releasing \cup Migrating \cup {"idle"}, NEW locals,
             Goto(w, label, locals), UNCHANGED <<issued, hash, prefix, blocks>>,
             \A c \in Contents : byHash'[c] \in {byHash[c], None}
      PROVE  Meant'
  BY <1>1, MeantGoto DEF Releasing, Migrating
<1>2. ASSUME NEW w \in Workers, NEW s \in Sessions, ReleaseSession(w, s) PROVE Meant'
  <2>1. \A v \in Workers :
           \/ /\ v # w /\ pc'[v] = pc[v] /\ job'[v].own = job[v].own
              /\ job'[v].blk = job[v].blk /\ job'[v].want = job[v].want
           \/ v = w /\ pc'[v] = "popped"
    BY <1>2, <1>a DEF ReleaseSession, TypeOK, Jobs
  <2>2. /\ UNCHANGED <<issued, hash, byHash, prefix>> /\ blocks' = [blocks EXCEPT ![s] = << >>]
    BY <1>2 DEF ReleaseSession
  <2>3. \A t \in Sessions : blocks'[t] = blocks[t] \/ DOMAIN blocks'[t] = {}
    BY <1>a, <2>2 DEF TypeOK
  <2> QED
    BY <2>1, <2>2, <2>3 DEF Meant
<1>3. ASSUME NEW w \in Workers, Release(w) PROVE Meant'
  <2>1. CASE DropReference(w)
    <3>3. PICK label \in Releasing : \E locals : Goto(w, label, locals)
      BY <2>1 DEF DropReference, Releasing
    <3>1. PICK locals : Goto(w, label, locals)
      BY <3>3
    <3>2. \A c \in Contents : byHash'[c] \in {byHash[c], None}
      BY <1>a, <2>1 DEF DropReference, TypeOK
    <3> QED
      BY <1>1, <2>1, <3>1, <3>2 DEF DropReference
  <2>2. CASE PurgeTier(w)
    <3>3. PICK label \in Releasing : \E locals : Goto(w, label, locals)
      BY <2>2 DEF PurgeTier, Releasing
    <3>1. PICK locals : Goto(w, label, locals)
      BY <3>3
    <3> QED
      BY <1>1, <2>2, <3>1 DEF PurgeTier
  <2>3. CASE ReleaseEnd(w)
    BY <1>1, <2>3 DEF ReleaseEnd, Done
  <2>4. CASE ReleaseBegins(w)
    BY <1>1, <2>4 DEF ReleaseBegins, Releasing
  <2> QED
    BY <1>2, <1>3, <2>1, <2>2, <2>3, <2>4 DEF Release
<1>4. ASSUME NEW w \in Workers, Migrate(w) PROVE Meant'
  <2>3. PICK label \in Migrating \cup {"idle"} : \E locals : Goto(w, label, locals)
    BY <1>4 DEF Migrate, MigrateBlock, MigrateGet, MigratePut, MigrateDelete, MigrateUpdate,
       MigrateFails, Done, Migrating
  <2>1. PICK locals : Goto(w, label, locals)
    BY <2>3
  <2>2. UNCHANGED <<issued, hash, byHash, prefix, blocks>>
    BY <1>4 DEF Migrate, MigrateBlock, MigrateGet, MigratePut, MigrateDelete, MigrateUpdate, MigrateFails
  <2> QED
    BY <1>1, <2>1, <2>2
<1>5. CASE UNCHANGED vars
  BY <1>5 DEF vars, Meant
<1> QED
  BY <1>3, <1>4, <1>5, MeantAllocate, MigratorsWork DEF Next

(* A step of the sessions' abstract view, or one that does not show. *)
Delivers == [Abstract!Next]_(Abstract!vars)

(* What the step of one worker does to the calls that are under way. *)
LEMMA AskedGoto ==
    ASSUME TypeOK, NEW w \in Workers, NEW label, NEW locals, Goto(w, label, locals)
    PROVE  Asked' = [Asked EXCEPT ![w] = IF label \in Allocating
                                         THEN <<locals.sess, locals.want>> ELSE None]
<1>1. \A v \in Workers : Asked'[v] = IF v # w THEN Asked[v]
                                     ELSE IF label \in Allocating
                                     THEN <<locals.sess, locals.want>> ELSE None
  BY GotoFacts DEF Asked
<1> QED
  BY <1>1 DEF Asked

\* What a session would read if every payload were where its record says.
Recorded == [s \in Sessions |-> [i \in DOMAIN blocks[s] |-> hash[blocks[s][i]]]]

\* And it reads just that.
Faithful == SessionsView = Recorded

\* A step that rewrites no record, between states in which sessions can read.
Steady == HashKept /\ Faithful /\ Faithful'

(* A block of a session is registered. *)
LEMMA HeldIsRegistered ==
    ASSUME TypeOK, HoldersCounted, NEW s \in Sessions, NEW i \in DOMAIN blocks[s]
    PROVE  blocks[s][i] \in Blocks /\ Registered(blocks[s][i])
<1> DEFINE p == blocks[s][i]
<1>1. p \in Blocks
  BY DEF TypeOK
<1>2. s \in Holders(p)
  BY DEF Holders, Pids
<1> HIDE DEF p
<1>3. Cardinality({s}) <= Cardinality(Holders(p)) /\ Cardinality({s}) = 1
  BY <1>2, HoldersKind, CountShrink, FS_Singleton
<1>4. Cardinality(Holders(p)) \in Nat /\ refcount[p] \in Nat
  BY <1>1, HoldersKind, HoldersFinite DEF TypeOK
<1>5. p \in Blocks /\ Registered(p)
  BY <1>1, <1>3, <1>4 DEF HoldersCounted, Registered
<1> QED
  BY <1>5 DEF p

(* A registered block can be read, in its tier or where it is moved to. *)
LEMMA PayloadIsThere ==
    ASSUME Stored, NEW p \in Blocks, Registered(p)
    PROVE  Payload(p) = hash[p]
<1> DEFINE moving == {m \in Migrators : pc[m] = "retier" /\ job[m].blk = p}
           one == CHOOSE m \in moving : TRUE
<1>1. Payload(p) = store[Where(p)][p]
  BY DEF Payload
<1>2. CASE moving = {}
  <2>1. \A m \in Workers : pc[m] = "retier" => job[m].blk # p
    BY <1>2 DEF Stored, Aside, Migrating
  <2>2. Where(p) = tier[p]
    BY <1>2 DEF Where
  <2> QED
    BY <1>1, <2>1, <2>2 DEF Stored, Kept
<1>3. CASE moving # {}
  <2>1. one \in moving
    BY <1>3
  <2>2. Where(p) = job[one].to
    BY <1>3 DEF Where
  <2>3. one \in Workers /\ pc[one] = "retier" /\ job[one].blk = p
    BY <2>1, MigratorsWork
  <2> HIDE DEF one
  <2> QED
    BY <1>1, <2>2, <2>3 DEF Stored, Moves, Migrating
<1> QED
  BY <1>2, <1>3

(* So what sessions read is what was recorded for them. *)
LEMMA SessionsRead == IInv /\ Stored => Faithful
<1> SUFFICES ASSUME IInv, Stored PROVE Faithful
  OBVIOUS
<1>1. \A s \in Sessions : \A i \in DOMAIN blocks[s] : Payload(blocks[s][i]) = hash[blocks[s][i]]
  BY HeldIsRegistered, PayloadIsThere DEF IInv
<1> QED
  BY <1>1 DEF Faithful, SessionsView, Recorded

(* The records of a session's blocks stay while its blocks do. *)
LEMMA ViewStays ==
    ASSUME TypeOK, Meant, Steady, NEW s \in Sessions, blocks'[s] = blocks[s]
    PROVE  Recorded'[s] = Recorded[s]
<1>1. \A i \in DOMAIN blocks[s] : hash'[blocks[s][i]] = hash[blocks[s][i]]
  <2>1. \A i \in DOMAIN blocks[s] : blocks[s][i] \in Blocks
    BY DEF TypeOK
  <2> QED
    BY <2>1 DEF Meant, HashKept, Steady
<1> QED
  BY <1>1 DEF Recorded

(* So when no session's blocks change, no session reads anything new. *)
LEMMA ViewKept ==
    ASSUME TypeOK, Meant, Steady, blocks' = blocks
    PROVE  SessionsView' = SessionsView
<1>1. \A s \in Sessions : Recorded'[s] = Recorded[s]
  BY ViewStays
<1>2. Recorded' = Recorded
  BY <1>1 DEF Recorded
<1> QED
  BY <1>2 DEF Steady, Faithful

(* A step that leaves the sessions and the calls as they are. *)
LEMMA DeliversNothing ==
    ASSUME SessionsView' = SessionsView, Asked' = Asked
    PROVE  Delivers
  BY DEF Delivers, Abstract!vars, SessionsView, Asked

(* A step of one worker within its call, or outside one. *)
LEMMA DeliversQuiet ==
    ASSUME TypeOK, Meant, Steady, blocks' = blocks,
           NEW w \in Workers, NEW label, NEW locals, Goto(w, label, locals),
           \/ pc[w] \notin Allocating /\ label \notin Allocating
           \/ /\ pc[w] \in Allocating /\ label \in Allocating
              /\ locals.sess = job[w].sess /\ locals.want = job[w].want
    PROVE  Delivers
<1>1. Asked' = [Asked EXCEPT ![w] = Asked[w]]
  BY AskedGoto DEF Asked
<1>2. Asked' = Asked
  BY <1>1 DEF Asked
<1> QED
  BY <1>2, ViewKept, DeliversNothing

(* A worker that is not in a call begins one. *)
LEMMA DeliversAsk ==
    ASSUME TypeOK, Meant, Steady, blocks' = blocks,
           NEW w \in Workers, NEW label \in Allocating, NEW locals, Goto(w, label, locals),
           pc[w] \notin Allocating, locals.sess \in Sessions, locals.want \in Contents
    PROVE  Delivers
<1>1. Asked' = [Asked EXCEPT ![w] = <<locals.sess, locals.want>>] /\ Asked[w] = None
  BY AskedGoto DEF Asked
<1>2. SessionsView' = SessionsView
  BY ViewKept
<1>4. <<locals.sess, locals.want>> # None
  BY NoneIsNothing
<1>5. Asked'[w] # None
  BY <1>1, <1>4 DEF Asked
<1>3. Abstract!Ask(w, locals.sess, locals.want)
  BY <1>1, <1>2, <1>5 DEF Abstract!Ask, SessionsView, Asked
<1> QED
  BY <1>3 DEF Delivers, Abstract!Next

(* A call in progress is not nothing. *)
LEMMA AskedIsSome ==
    ASSUME Locals, NEW w \in Workers, pc[w] \in Allocating
    PROVE  Asked[w] = <<job[w].sess, job[w].want>> /\ Asked[w] # None
<1>1. Asked[w] = <<job[w].sess, job[w].want>>
  BY DEF Asked
<1>2. <<job[w].sess, job[w].want>> \in Sessions \X Contents
  BY DEF Locals
<1> QED
  BY <1>1, <1>2, NoneIsNothing

(* A call ends with nothing delivered to its session. *)
LEMMA DeliversFail ==
    ASSUME TypeOK, Locals, Meant, Steady, blocks' = blocks,
           NEW w \in Workers, pc[w] \in Allocating, Asked' = [Asked EXCEPT ![w] = None]
    PROVE  Delivers
<1>1. Asked[w] # None
  BY AskedIsSome
<1>2. SessionsView' = SessionsView
  BY ViewKept
<1>3. Abstract!Fail(w)
  BY <1>1, <1>2 DEF Abstract!Fail, SessionsView, Asked
<1> QED
  BY <1>3 DEF Delivers, Abstract!Next

(* A call that raises. *)
LEMMA DeliversDone ==
    ASSUME TypeOK, Locals, Meant, Steady, blocks' = blocks,
           NEW w \in Workers, pc[w] \in Allocating, Done(w)
    PROVE  Delivers
<1>1. Asked' = [Asked EXCEPT ![w] = None]
  BY AskedGoto DEF Done, Allocating
<1> QED
  BY <1>1, DeliversFail

(* What list.append leaves. *)
LEMMA AppendElements ==
    ASSUME NEW S, NEW q \in Seq(S), NEW e \in S
    PROVE  /\ DOMAIN Append(q, e) = 1..(Len(q) + 1)
           /\ \A i \in 1..(Len(q) + 1) : Append(q, e)[i] = IF i = Len(q) + 1 THEN e ELSE q[i]
           /\ Append(q, e) = [i \in 1..(Len(q) + 1) |-> Append(q, e)[i]]
<1>1. Append(q, e) \in Seq(S) /\ Len(Append(q, e)) = Len(q) + 1 /\ Len(q) \in Nat
  OBVIOUS
<1>2. DOMAIN Append(q, e) = 1..(Len(q) + 1)
  BY <1>1
<1>3. \A i \in 1..(Len(q) + 1) : Append(q, e)[i] = IF i = Len(q) + 1 THEN e ELSE q[i]
  OBVIOUS
<1> DEFINE longer == Append(q, e)
<1>4. longer \in [1..(Len(q) + 1) -> S]
  <2>1. longer \in Seq(S) /\ Len(longer) = Len(q) + 1
    BY <1>1
  <2> HIDE DEF longer
  <2> QED
    BY <2>1
<1> HIDE DEF longer
<1>5. longer = [i \in 1..(Len(q) + 1) |-> longer[i]]
  BY <1>4
<1> QED
  BY <1>2, <1>3, <1>5 DEF longer

(* _attach_logical appends the payload that was asked for. *)
LEMMA DeliversAttach ==
    ASSUME IInv, Meant, Steady, NEW w \in Workers, AttachTo(w)
    PROVE  Delivers
<1> DEFINE s == job[w].sess
           p == job[w].blk
           c == job[w].want
<1>0. TypeOK /\ Locals
  BY DEF IInv
<1>1. s \in Sessions /\ p \in Blocks /\ c \in Contents /\ hash[p] = c /\ pc[w] \in Allocating
  BY <1>0 DEF AttachTo, Meant, Named, Locals, Allocating
<1>2. blocks' = [blocks EXCEPT ![s] = Append(@, p)] /\ hash' = hash
  BY DEF AttachTo, physVars
<1>3. Asked' = [Asked EXCEPT ![w] = None]
  <2>1. PICK label \in {"idle", "insert"} : \E locals : Goto(w, label, locals)
    BY DEF AttachTo, Done
  <2>2. PICK locals : Goto(w, label, locals)
    BY <2>1
  <2> QED
    BY <1>0, <2>2, AskedGoto DEF Allocating
<1>4. Asked[w] = <<s, c>> /\ Asked[w] # None
  BY <1>0, <1>1, AskedIsSome
<1> HIDE DEF s, p, c
<1>5. blocks[s] \in Seq(Blocks) /\ blocks'[s] = Append(blocks[s], p)
  BY <1>0, <1>1, <1>2 DEF TypeOK
<1>6. Recorded'[s] = Append(Recorded[s], c)
  <2> DEFINE q == blocks[s]
             old == [i \in 1..Len(q) |-> hash[q[i]]]
             new == [i \in 1..(Len(q) + 1) |-> hash[Append(q, p)[i]]]
  <2>1. Len(q) \in Nat /\ DOMAIN q = 1..Len(q) /\ DOMAIN Append(q, p) = 1..(Len(q) + 1)
    BY <1>1, <1>5
  <2>2. Recorded[s] = old
    BY <1>1, <2>1 DEF Recorded
  <2>3. Recorded'[s] = new
    BY <1>1, <1>2, <1>5, <2>1 DEF Recorded
  <2>4. \A i \in 1..(Len(q) + 1) : new[i] = IF i = Len(q) + 1 THEN c ELSE old[i]
    <3>1. \A i \in 1..(Len(q) + 1) : Append(q, p)[i] = IF i = Len(q) + 1 THEN p ELSE q[i]
      BY <1>1, <1>5, <2>1
    <3>2. \A i \in 1..(Len(q) + 1) : i # Len(q) + 1 => i \in 1..Len(q)
      BY <2>1
    <3> QED
      BY <1>1, <3>1, <3>2
  <2>5. old \in Seq(Contents \cup {None}) /\ Len(old) = Len(q)
    <3>1. \A i \in 1..Len(q) : q[i] \in Blocks
      BY <1>5, <2>1
    <3>2. hash \in [Blocks -> Contents \cup {None}]
      BY <1>0 DEF TypeOK
    <3>3. old \in [1..Len(q) -> Contents \cup {None}]
      BY <3>1, <3>2
    <3> QED
      BY <2>1, <3>3
  <2> HIDE DEF q
  <2> HIDE DEF old
  <2>6. new = Append(old, c)
    <3>1. /\ \A i \in 1..(Len(old) + 1) : Append(old, c)[i] = IF i = Len(old) + 1 THEN c ELSE old[i]
          /\ Append(old, c) = [i \in 1..(Len(old) + 1) |-> Append(old, c)[i]]
      BY <1>1, <2>5, AppendElements
    <3>3. \A i \in 1..(Len(q) + 1) : Append(old, c)[i] = new[i]
      BY <2>4, <2>5, <3>1
    <3> DEFINE longer == Append(old, c)
    <3>5. longer = [i \in 1..(Len(q) + 1) |-> longer[i]]
      BY <2>5, <3>1
    <3> HIDE DEF longer
    <3>6. new = longer
      <4>1. \A i \in 1..(Len(q) + 1) : longer[i] = new[i]
        BY <3>3 DEF longer
      <4>2. new = [i \in 1..(Len(q) + 1) |-> new[i]]
        OBVIOUS
      <4> HIDE DEF new
      <4> QED
        BY <3>5, <4>1, <4>2
    <3> QED
      BY <3>6 DEF longer
  <2> QED
    BY <2>2, <2>3, <2>6
<1>7. \A t \in Sessions : t # s => Recorded'[t] = Recorded[t]
  BY <1>0, <1>2, ViewStays DEF TypeOK
<1>a. Recorded' = [Recorded EXCEPT ![s] = Append(@, c)]
  BY <1>6, <1>7 DEF Recorded
<1>8. SessionsView' = [SessionsView EXCEPT ![s] = Append(@, c)]
  BY <1>a DEF Steady, Faithful
<1>9. Asked[w][1] = s /\ Asked[w][2] = c
  BY <1>4
<1>10. Abstract!Deliver(w)
  BY <1>3, <1>4, <1>8, <1>9 DEF Abstract!Deliver, SessionsView, Asked
<1> QED
  BY <1>10 DEF Delivers, Abstract!Next

(* A block that reaches a dead session object is delivered to nobody. *)
LEMMA DeliversDead ==
    ASSUME IInv, Meant, Steady, NEW w \in Workers, AttachToDead(w)
    PROVE  Delivers
<1>0. TypeOK /\ Locals /\ \A v \in Workers : job[v] \in Jobs
  BY DEF IInv, TypeOK
<1>1. \A v \in Workers :
         IF v = w THEN pc[v] \in Allocating /\ pc'[v] \notin Allocating
         ELSE pc'[v] = pc[v] /\ job'[v].sess = job[v].sess /\ job'[v].want = job[v].want
  BY <1>0 DEF AttachToDead, TypeOK, Jobs, Allocating
<1>2. \A v \in Workers : Asked'[v] = IF v = w THEN None ELSE Asked[v]
  BY <1>1 DEF Asked
<1>3. Asked' = [Asked EXCEPT ![w] = None]
  BY <1>2 DEF Asked
<1> QED
  BY <1>0, <1>1, <1>3, DeliversFail DEF AttachToDead

(* release_session empties the session and ends no call. *)
LEMMA DeliversRelease ==
    ASSUME IInv, Meant, Steady, NEW w \in Workers, NEW s \in Sessions, ReleaseSession(w, s)
    PROVE  Delivers
<1>0. TypeOK /\ \A v \in Workers : job[v] \in Jobs
  BY DEF IInv, TypeOK
<1>1. \A v \in Workers :
         \/ v = w /\ pc[v] \notin Allocating /\ pc'[v] \notin Allocating
         \/ pc'[v] = pc[v] /\ job'[v].sess = job[v].sess /\ job'[v].want = job[v].want
  BY <1>0 DEF ReleaseSession, TypeOK, Jobs, Allocating
<1>2. \A v \in Workers : Asked'[v] = Asked[v]
  BY <1>1 DEF Asked
<1>3. Asked' = Asked
  BY <1>2 DEF Asked
<1>4. blocks' = [blocks EXCEPT ![s] = << >>]
  BY DEF ReleaseSession
<1>5. \A t \in Sessions : t # s => Recorded'[t] = Recorded[t]
  BY <1>0, <1>4, ViewStays DEF TypeOK
<1>6. Recorded'[s] = << >>
  <2>1. blocks'[s] = << >>
    BY <1>0, <1>4 DEF TypeOK
  <2>2. Recorded'[s] = [i \in DOMAIN blocks'[s] |-> hash'[blocks'[s][i]]]
    BY DEF Recorded
  <2>3. Recorded'[s] = [i \in {} |-> hash'[blocks'[s][i]]]
    BY <2>1, <2>2
  <2> QED
    BY <2>3
<1>a. Recorded' = [Recorded EXCEPT ![s] = << >>]
  BY <1>5, <1>6 DEF Recorded
<1>7. SessionsView' = [SessionsView EXCEPT ![s] = << >>]
  BY <1>a DEF Steady, Faithful
<1>8. Abstract!Release(s)
  BY <1>3, <1>7 DEF Abstract!Release, SessionsView, Asked
<1> QED
  BY <1>8 DEF Delivers, Abstract!Next

(* The steps of a call. *)
LEMMA DeliversAllocate ==
    ASSUME IInv, Meant, Steady, NEW w \in Workers, Allocate(w)
    PROVE  Delivers
<1> USE DEF physVars, sessVars
<1>0. TypeOK /\ Locals /\ \A v \in Workers : job[v] \in Jobs
  BY DEF IInv, TypeOK
<1>1. ASSUME NEW s \in Sessions, CreateSession(w, s) PROVE Delivers
  <2>1. Asked' = Asked /\ blocks' = blocks
    BY <1>1 DEF CreateSession, Asked
  <2> QED
    BY <1>0, <2>1, ViewKept, DeliversNothing
<1>2. ASSUME NEW s \in Sessions, NEW c \in Contents, NEW label \in Allocating, NEW locals,
             Goto(w, label, locals), pc[w] = "idle", locals.sess = s, locals.want = c,
             blocks' = blocks
      PROVE  Delivers
  BY <1>0, <1>2, DeliversAsk DEF Allocating
<1>3. ASSUME NEW s \in Sessions, NEW c \in Contents, AllocateHit(w, s, c) PROVE Delivers
  <2> DEFINE new == [NoJob EXCEPT !.sess = s, !.want = c, !.blk = Find(c)]
  <2>1. new.sess = s /\ new.want = c
    BY DEF NoJob
  <2>2. Goto(w, "acquire", new) /\ pc[w] = "idle" /\ blocks' = blocks
    BY <1>3 DEF AllocateHit
  <2> HIDE DEF new
  <2> QED
    BY <1>2, <2>1, <2>2 DEF Allocating
<1>4. ASSUME NEW s \in Sessions, NEW c \in Contents, AllocateMiss(w, s, c) PROVE Delivers
  <2>1. PICK p \in Blocks \ issued : Goto(w, "put", [NoJob EXCEPT !.sess = s, !.want = c, !.own = p])
    BY <1>4 DEF AllocateMiss
  <2> DEFINE new == [NoJob EXCEPT !.sess = s, !.want = c, !.own = p]
  <2>2. new.sess = s /\ new.want = c
    BY DEF NoJob
  <2>3. Goto(w, "put", new) /\ pc[w] = "idle" /\ blocks' = blocks
    BY <1>4, <2>1 DEF AllocateMiss
  <2> HIDE DEF new
  <2> QED
    BY <1>2, <2>2, <2>3 DEF Allocating
<1>5. ASSUME NEW s \in Sessions, NEW c \in Contents, ReusePrefix(w, s, c) PROVE Delivers
  <2> DEFINE new == [NoJob EXCEPT !.sess = s, !.want = c, !.reuse = TRUE, !.blk = prefix[c]]
  <2>1. new.sess = s /\ new.want = c
    BY DEF NoJob
  <2>2. pc[w] = "idle" /\ blocks' = blocks /\ (Goto(w, "acquire", new) \/ Done(w))
    BY <1>5 DEF ReusePrefix
  <2> HIDE DEF new
  <2>3. CASE Goto(w, "acquire", new)
    BY <1>2, <2>1, <2>2, <2>3 DEF Allocating
  <2>4. CASE Done(w)
    BY <1>0, <2>2, <2>4, DeliversQuiet DEF Done, Allocating
  <2> QED
    BY <2>2, <2>3, <2>4
<1>6. ASSUME NEW label \in Allocating, NEW locals, Goto(w, label, locals), pc[w] \in Allocating,
             locals.sess = job[w].sess, locals.want = job[w].want, blocks' = blocks
      PROVE  Delivers
  BY <1>0, <1>6, DeliversQuiet
<1>7. ASSUME NEW label \in Allocating, Acquire(w, label), pc[w] \in Allocating, blocks' = blocks
      PROVE  Delivers
  BY <1>0, <1>6, <1>7, DeliversDone DEF Acquire
<1>8. CASE AcquireFound(w)
  BY <1>7, <1>8 DEF AcquireFound, Allocating
<1>9. CASE PutPayload(w)
  BY <1>6, <1>9 DEF PutPayload, Allocating
<1>10. CASE Register(w)
  <2> DEFINE new == [job[w] EXCEPT !.blk = job[w].own]
  <2>1. Goto(w, "attach", new) /\ pc[w] = "register" /\ blocks' = blocks
    BY <1>10 DEF Register
  <2>2. new.sess = job[w].sess /\ new.want = job[w].want
    BY <1>0 DEF Jobs
  <2> HIDE DEF new
  <2> QED
    BY <1>6, <2>1, <2>2 DEF Allocating
<1>11. CASE RegisterLost(w)
  <2> DEFINE new == [job[w] EXCEPT !.blk = Find(job[w].want)]
  <2>1. Goto(w, "reacquire", new) /\ pc[w] = "register" /\ blocks' = blocks
    BY <1>11 DEF RegisterLost
  <2>2. new.sess = job[w].sess /\ new.want = job[w].want
    BY <1>0 DEF Jobs
  <2> HIDE DEF new
  <2> QED
    BY <1>6, <2>1, <2>2 DEF Allocating
<1>12. CASE Reacquire(w)
  BY <1>7, <1>12 DEF Reacquire, Allocating
<1>13. CASE DiscardOwn(w)
  BY <1>6, <1>13 DEF DiscardOwn, Allocating
<1>14. CASE ReadIndex(w)
  <2> DEFINE new == [job[w] EXCEPT !.idx = Len(logical[job[w].sess]), !.lgone = FALSE]
  <2>1. pc[w] = "attach" /\ blocks' = blocks /\ (Goto(w, "map", new) \/ Done(w))
    BY <1>14 DEF ReadIndex
  <2>2. new.sess = job[w].sess /\ new.want = job[w].want
    BY <1>0 DEF Jobs
  <2> HIDE DEF new
  <2>3. CASE Goto(w, "map", new)
    BY <1>6, <2>1, <2>2, <2>3 DEF Allocating
  <2>4. CASE Done(w)
    BY <1>0, <2>1, <2>4, DeliversDone DEF Allocating
  <2> QED
    BY <2>1, <2>3, <2>4
<1>15. CASE InsertPrefix(w)
  BY <1>0, <1>15, DeliversQuiet DEF InsertPrefix, Done, Allocating
<1> QED
  BY <1>1, <1>3, <1>4, <1>5, <1>8, <1>9, <1>10, <1>11, <1>12, <1>13, <1>14, <1>15,
     DeliversAttach, DeliversDead DEF Allocate

(* Every step is one of the sessions' abstract view or does not show in it. *)
LEMMA DeliversStep ==
    ASSUME IInv, Meant, [Next]_vars, Faithful, Faithful'
    PROVE  Delivers
<1>0. TypeOK /\ Steady
  BY HashStep DEF IInv, Steady
<1>1. ASSUME NEW w \in Workers, NEW locals, NEW label, label \notin Allocating,
             pc[w] \notin Allocating, Goto(w, label, locals), blocks' = blocks
      PROVE  Delivers
  BY <1>0, <1>1, DeliversQuiet
<1>2. ASSUME NEW w \in Workers, Release(w) PROVE Delivers
  <2>1. ASSUME ReleaseBegins(w) \/ DropReference(w) \/ PurgeTier(w) \/ ReleaseEnd(w)
        PROVE  Delivers
    <3>1. PICK label \in Releasing \cup {"idle"} : \E locals : Goto(w, label, locals)
      BY <2>1 DEF ReleaseBegins, DropReference, PurgeTier, ReleaseEnd, Done, Releasing
    <3>2. PICK locals : Goto(w, label, locals)
      BY <3>1
    <3>3. pc[w] \in Releasing /\ blocks' = blocks
      BY <2>1 DEF ReleaseBegins, DropReference, PurgeTier, ReleaseEnd, sessVars, Releasing
    <3> QED
      BY <1>1, <3>2, <3>3 DEF Allocating, Releasing
  <2> QED
    BY <1>0, <1>2, <2>1, DeliversRelease DEF Release
<1>3. ASSUME NEW w \in Workers, Migrate(w) PROVE Delivers
  <2>1. PICK label \in Migrating \cup {"idle"} : \E locals : Goto(w, label, locals)
    BY <1>3 DEF Migrate, MigrateBlock, MigrateGet, MigratePut, MigrateDelete, MigrateUpdate,
       MigrateFails, Done, Migrating
  <2>2. PICK locals : Goto(w, label, locals)
    BY <2>1
  <2>3. pc[w] \in Migrating \cup {"idle"} /\ blocks' = blocks
    BY <1>3 DEF Migrate, MigrateBlock, MigrateGet, MigratePut, MigrateDelete, MigrateUpdate,
       MigrateFails, sessVars, Migrating
  <2> QED
    BY <1>1, <2>2, <2>3 DEF Allocating, Migrating
<1>4. CASE UNCHANGED vars
  <2>1. Asked' = Asked /\ blocks' = blocks
    BY <1>4 DEF vars, Asked
  <2> QED
    BY <1>0, <2>1, ViewKept, DeliversNothing
<1> QED
  BY <1>0, <1>2, <1>3, <1>4, DeliversAllocate, MigratorsWork DEF Next

(* With one migrator, what a session reads through its blocks is the list  *)
(* of payloads it asked for, each delivered once and there for as long as  *)
(* the session is, whatever other threads allocate, share, release, move   *)
(* and purge, and whatever the providers of a migration raise.             *)
THEOREM DeliversToSessions ==
    ASSUME OneMigrator
    PROVE  Spec => ImplementsKVSessions
<1>1. Init => Meant
  BY DEF Init, Meant, Named
<1>2. IInv /\ Meant /\ [Next]_vars => Meant'
  BY MeantStep
<1>6. IInv /\ Stored /\ [Next]_vars => Stored'
  BY StoredStep
<1>7. IInv /\ Stored => Faithful
  BY SessionsRead
<1>3. Spec => [](IInv /\ Meant /\ Faithful)
  BY <1>1, <1>2, <1>6, <1>7, InitStored, Invariance, PTL DEF Spec
<1>4. Init => Abstract!Init
  <2> SUFFICES ASSUME Init PROVE Abstract!Init
    OBVIOUS
  <2>1. \A s \in Sessions : SessionsView[s] = << >>
    <3> SUFFICES ASSUME NEW s \in Sessions PROVE SessionsView[s] = << >>
      OBVIOUS
    <3>1. blocks[s] = << >>
      BY DEF Init
    <3>2. SessionsView[s] = [i \in DOMAIN blocks[s] |-> Payload(blocks[s][i])]
      BY DEF SessionsView
    <3>3. SessionsView[s] = [i \in {} |-> Payload(blocks[s][i])]
      BY <3>1, <3>2
    <3> QED
      BY <3>3
  <2>2. SessionsView = [s \in Sessions |-> << >>]
    BY <2>1 DEF SessionsView
  <2>3. Asked = [w \in Workers |-> None]
    BY DEF Init, Asked, Allocating
  <2> QED
    BY <2>2, <2>3 DEF Abstract!Init, SessionsView, Asked
<1>5. IInv /\ Meant /\ Faithful /\ Faithful' /\ [Next]_vars => [Abstract!Next]_(Abstract!vars)
  BY DeliversStep DEF Delivers
<1> QED
  BY <1>3, <1>4, <1>5, PTL DEF Spec, ImplementsKVSessions, Abstract!Spec
=============================================================================
