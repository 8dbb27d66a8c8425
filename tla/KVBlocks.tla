------------------------------ MODULE KVBlocks ------------------------------
(***************************************************************************)
(* Plane 2, the KV block manager under threads: KVBlockManager.allocate,   *)
(* reuse_prefix and release_session, and KVTieringEngine.migrate_block,    *)
(* all in runtime/kv/.  Chat requests call the manager from worker         *)
(* threads (anyio.run in haoe/integration/chat.py), the HTTP router calls  *)
(* it from the event loop, and MigrationScheduler migrates from a thread   *)
(* of its own.  A step is what runs under one lock, or between two awaits. *)
(*                                                                         *)
(* A payload is its content; content_hash is taken to be injective.  A     *)
(* physical id is an element of Blocks, issued once (uuid), and is also    *)
(* its provider_key.  A block is registered exactly while its reference    *)
(* count is positive.                                                      *)
(***************************************************************************)
EXTENDS Integers, Sequences, FiniteSets

CONSTANTS Workers,      \* threads and tasks that call the manager
          Migrators,    \* those of them that migrate blocks
          Sessions, Contents, Blocks, None,
          NumTiers,     \* tiers that have a provider
          MaxLogical,   \* bound: logical blocks a session grows to
          MaxRefs,      \* bound: no new use of a block with this many references
          PrefixCapacity

Tiers == 1..NumTiers   \* hottest first
L1 == 1

ASSUME FiniteHolders == IsFiniteSet(Workers) /\ IsFiniteSet(Sessions)
ASSUME HoldersApart  == Workers \cap Sessions = {}
ASSUME NoneIsNothing == None \notin Blocks \cup Contents \cup (Sessions \X Contents)
ASSUME MigratorsWork == Migrators \subseteq Workers
ASSUME TiersAssumption == NumTiers \in Nat \ {0}

VARIABLES
    refcount,  \* PhysicalBlockTable: block -> references, 0 if unregistered
    hash,      \* block -> content its record was registered with
    tier,      \* block -> tier of its record
    byHash,    \* _by_hash: content -> block
    issued,    \* physical ids handed out so far
    store,     \* providers: tier -> block -> payload
    live,      \* sessions present in KVBlockManager.sessions
    blocks,    \* session -> physical ids of its blocks, in order
    logical,   \* session -> LogicalBlockTable, index -> physical id
    prefix,    \* PrefixCacheEngine: content of a root block -> block
    pc,        \* what each worker does next
    job        \* its locals

physVars == <<refcount, hash, tier, byHash>>
sessVars == <<live, blocks, logical>>
vars == <<refcount, hash, tier, byHash, issued, store, live, blocks, logical,
          prefix, pc, job>>

\* Steps of allocate between fetching the session object and using it.
Allocating == {"acquire", "put", "register", "reacquire", "discard",
               "attach", "map"}
Releasing  == {"popped", "release", "purge"}
Migrating  == {"get", "copy", "drop", "retier"}

Jobs == [sess  : Sessions \cup {None},   \* session the call is about
         want  : Contents \cup {None},   \* payload asked for or moved
         reuse : BOOLEAN,                \* reuse_prefix, not allocate
         own   : Blocks \cup {None},     \* id issued by this call
         blk   : Blocks \cup {None},     \* block acquired, released or moved
         idx   : Nat,                    \* idx of _attach_logical
         gone  : BOOLEAN,                \* the session object was popped
         lgone : BOOLEAN,                \* the logical table was popped
         todo  : SUBSET Blocks,          \* blocks left to release
         from  : Tiers, to : Tiers]

NoJob == [sess |-> None, want |-> None, reuse |-> FALSE, own |-> None,
          blk |-> None, idx |-> 0, gone |-> FALSE, lgone |-> FALSE,
          todo |-> {}, from |-> L1, to |-> L1]

\* Type correctness of tables, stores and thread locals.
TypeOK ==
    /\ refcount \in [Blocks -> Nat]
    /\ hash \in [Blocks -> Contents \cup {None}]
    /\ tier \in [Blocks -> Tiers]
    /\ byHash \in [Contents -> Blocks \cup {None}]
    /\ issued \subseteq Blocks
    /\ store \in [Tiers -> [Blocks -> Contents \cup {None}]]
    /\ live \subseteq Sessions
    /\ blocks \in [Sessions -> Seq(Blocks)]
    /\ logical \in [Sessions -> Seq(Blocks)]
    /\ prefix \in [Contents -> Blocks \cup {None}]
    /\ pc \in [Workers -> {"idle", "insert"} \cup Allocating \cup Releasing \cup Migrating]
    /\ job \in [Workers -> Jobs]

Init ==
    /\ refcount = [p \in Blocks |-> 0]
    /\ hash = [p \in Blocks |-> None]
    /\ tier = [p \in Blocks |-> L1]
    /\ byHash = [c \in Contents |-> None]
    /\ issued = {}
    /\ store = [t \in Tiers |-> [p \in Blocks |-> None]]
    /\ live = {}
    /\ blocks = [s \in Sessions |-> << >>]
    /\ logical = [s \in Sessions |-> << >>]
    /\ prefix = [c \in Contents |-> None]
    /\ pc = [w \in Workers |-> "idle"]
    /\ job = [w \in Workers |-> NoJob]

-----------------------------------------------------------------------------
(* PhysicalBlockTable and DeduplicationEngine *)

Registered(p) == refcount[p] > 0

\* get_by_hash: a stale index entry finds nothing.
Find(c) == IF byHash[c] # None /\ Registered(byHash[c]) THEN byHash[c] ELSE None

\* register_or_reuse keeps the engine's lock between lookup and acquire.
DedupLockFree == \A v \in Workers : pc[v] # "reacquire"

Goto(w, label, locals) ==
    /\ pc' = [pc EXCEPT ![w] = label]
    /\ job' = [job EXCEPT ![w] = locals]

\* The call returns, or raises to its caller: either way the locals die.
Done(w) == Goto(w, "idle", NoJob)

\* Mutant: the lookup alone is taken for a reference.
Acquire_none(w, label) ==
    /\ UNCHANGED refcount
    /\ IF Registered(job[w].blk) THEN Goto(w, label, job[w]) ELSE Done(w)

\* acquire: KeyError if the block has been freed since it was looked up.
Acquire(w, label) ==
    \/ /\ Registered(job[w].blk)
       /\ refcount' = [refcount EXCEPT ![job[w].blk] = @ + 1]
       /\ Goto(w, label, job[w])
    \/ /\ ~Registered(job[w].blk)
       /\ Done(w)
       /\ UNCHANGED refcount

-----------------------------------------------------------------------------
(* allocate, reuse_prefix *)

CanShare(p) == refcount[p] < MaxRefs
CanGrow(s)  == s \notin live \/ Len(blocks[s]) < MaxLogical

CreateSession(w, s) ==
    /\ pc[w] = "idle" /\ s \notin live
    /\ live' = live \cup {s}
    /\ UNCHANGED <<physVars, issued, store, blocks, logical, prefix, pc, job>>

\* allocate, first half: create_session, then the dedup lookup.
AllocateHit(w, s, c) ==
    /\ pc[w] = "idle" /\ CanGrow(s) /\ DedupLockFree
    /\ live' = live \cup {s}
    /\ Find(c) # None /\ CanShare(Find(c))
    /\ Goto(w, "acquire", [NoJob EXCEPT !.sess = s, !.want = c, !.blk = Find(c)])
    /\ UNCHANGED <<physVars, issued, store, blocks, logical, prefix>>

AllocateMiss(w, s, c) ==
    /\ pc[w] = "idle" /\ CanGrow(s) /\ DedupLockFree
    /\ live' = live \cup {s}
    /\ Find(c) = None
    /\ \E p \in Blocks \ issued :
          /\ issued' = issued \cup {p}
          /\ Goto(w, "put", [NoJob EXCEPT !.sess = s, !.want = c, !.own = p])
    /\ UNCHANGED <<physVars, store, blocks, logical, prefix>>

\* reuse_prefix: a matched block that is gone ends the reuse.
ReusePrefix(w, s, c) ==
    /\ pc[w] = "idle" /\ CanGrow(s)
    /\ prefix[c] # None /\ CanShare(prefix[c])
    /\ live' = live \cup {s}
    /\ IF Registered(prefix[c])
       THEN Goto(w, "acquire", [NoJob EXCEPT !.sess = s, !.want = c,
                                            !.reuse = TRUE, !.blk = prefix[c]])
       ELSE Done(w)
    /\ UNCHANGED <<physVars, issued, store, blocks, logical, prefix>>

AcquireFound(w) ==
    /\ pc[w] = "acquire"
    /\ Acquire(w, "attach")
    /\ UNCHANGED <<hash, tier, byHash, issued, store, sessVars, prefix>>

PutPayload(w) ==
    /\ pc[w] = "put"
    /\ store' = [store EXCEPT ![L1][job[w].own] = job[w].want]
    /\ Goto(w, "register", job[w])
    /\ UNCHANGED <<physVars, issued, sessVars, prefix>>

\* Mutant: the record is registered without looking the content up again.
Register_blind(w) ==
    /\ pc[w] = "register"
    /\ LET p == job[w].own
           c == job[w].want
       IN  /\ refcount' = [refcount EXCEPT ![p] = 1]
           /\ hash' = [hash EXCEPT ![p] = c]
           /\ tier' = [tier EXCEPT ![p] = L1]
           /\ byHash' = [byHash EXCEPT ![c] = p]
           /\ Goto(w, "attach", [job[w] EXCEPT !.blk = p])
    /\ UNCHANGED <<issued, store, sessVars, prefix>>

\* register_or_reuse finds nobody else registered this content meanwhile.
Register(w) ==
    /\ pc[w] = "register" /\ DedupLockFree
    /\ LET p == job[w].own
           c == job[w].want
       IN  /\ Find(c) = None
           /\ refcount' = [refcount EXCEPT ![p] = 1]
           /\ hash' = [hash EXCEPT ![p] = c]
           /\ tier' = [tier EXCEPT ![p] = L1]
           /\ byHash' = [byHash EXCEPT ![c] = p]
           /\ Goto(w, "attach", [job[w] EXCEPT !.blk = p])
    /\ UNCHANGED <<issued, store, sessVars, prefix>>

RegisterLost(w) ==
    /\ pc[w] = "register" /\ DedupLockFree
    /\ Find(job[w].want) # None
    /\ Goto(w, "reacquire", [job[w] EXCEPT !.blk = Find(job[w].want)])
    /\ UNCHANGED <<physVars, issued, store, sessVars, prefix>>

Reacquire(w) ==
    /\ pc[w] = "reacquire"
    /\ Acquire(w, "discard")
    /\ UNCHANGED <<hash, tier, byHash, issued, store, sessVars, prefix>>

\* Mutant: the payload of the block found is discarded, not that of the new id.
DiscardOwn_found(w) ==
    /\ pc[w] = "discard"
    /\ store' = [store EXCEPT ![L1][job[w].blk] = None]
    /\ Goto(w, "attach", job[w])
    /\ UNCHANGED <<physVars, issued, sessVars, prefix>>

\* The loser of the race discards its payload: provider.delete of its own id.
DiscardOwn(w) ==
    /\ pc[w] = "discard"
    /\ store' = [store EXCEPT ![L1][job[w].own] = None]
    /\ Goto(w, "attach", job[w])
    /\ UNCHANGED <<physVars, issued, sessVars, prefix>>

\* _attach_logical takes the table and its length before it takes the lock;
\* a session released meanwhile has no table any more (KeyError).
ReadIndex(w) ==
    /\ pc[w] = "attach"
    /\ LET s == job[w].sess
       IN  IF s \in live
           THEN Goto(w, "map", [job[w] EXCEPT !.idx = Len(logical[s]),
                                              !.lgone = FALSE])
           ELSE Done(w)
    /\ UNCHANGED <<physVars, issued, store, sessVars, prefix>>

\* LogicalBlockTable.map: indices grow by one, so a new index is the length.
MapAt(q, idx, p) == IF idx < Len(q) THEN [q EXCEPT ![idx + 1] = p]
                    ELSE Append(q, p)

\* What is left to allocate once the block is attached.
Inserting(w) == [NoJob EXCEPT !.want = job[w].want, !.blk = job[w].blk]

AttachTo(w) ==
    /\ pc[w] = "map" /\ ~job[w].gone
    /\ LET s == job[w].sess
           p == job[w].blk
       IN  /\ blocks' = [blocks EXCEPT ![s] = Append(@, p)]
           /\ logical' = [logical EXCEPT ![s] = MapAt(@, job[w].idx, p)]
    /\ IF job[w].reuse THEN Done(w) ELSE Goto(w, "insert", Inserting(w))
    /\ UNCHANGED <<physVars, issued, store, live, prefix>>

\* The session object was popped after the call fetched it: the block goes to
\* the dead object, the index to the table of the session created since, if
\* that is the one that was read.  The release that popped the object finds the
\* block if it has not begun to iterate; if it has, it ends with a RuntimeError;
\* if it is over, the reference is never given back.
AttachToDead(w) ==
    /\ pc[w] = "map" /\ job[w].gone
    /\ LET s == job[w].sess
           p == job[w].blk
           iterating == {v \in Workers : pc[v] \in Releasing /\ job[v].sess = s}
       IN  /\ logical' = IF job[w].lgone THEN logical
                         ELSE [logical EXCEPT ![s] = MapAt(@, job[w].idx, p)]
           /\ \E r \in iterating \cup {w} :
                 job' = [v \in Workers |->
                            IF v = w THEN IF job[w].reuse THEN NoJob ELSE Inserting(w)
                            ELSE IF v # r THEN job[v]
                            ELSE IF pc[v] = "popped"
                            THEN [job[v] EXCEPT !.todo = @ \cup {p}]
                            ELSE [job[v] EXCEPT !.todo = {}]]
    /\ pc' = [pc EXCEPT ![w] = IF job[w].reuse THEN "idle" ELSE "insert"]
    /\ UNCHANGED <<physVars, issued, store, live, blocks, prefix>>

\* Mutant: the entry names the payload where the block belongs.
InsertPrefix_content(w) ==
    /\ pc[w] = "insert"
    /\ prefix' = [prefix EXCEPT ![job[w].want] = job[w].want]
    /\ Done(w)
    /\ UNCHANGED <<physVars, issued, store, sessVars>>

\* PrefixCacheEngine.insert ends allocate: an entry that is there is kept;
\* over capacity the least recently used other entry goes (which is left open).
InsertPrefix(w) ==
    /\ pc[w] = "insert"
    /\ LET c == job[w].want
           others == {d \in Contents \ {c} : prefix[d] # None}
       IN  \/ prefix[c] # None /\ UNCHANGED prefix
           \/ /\ prefix[c] = None /\ Cardinality(others) < PrefixCapacity
              /\ prefix' = [prefix EXCEPT ![c] = job[w].blk]
           \/ /\ prefix[c] = None /\ Cardinality(others) >= PrefixCapacity
              /\ \E d \in others :
                    prefix' = [prefix EXCEPT ![c] = job[w].blk, ![d] = None]
    /\ Done(w)
    /\ UNCHANGED <<physVars, issued, store, sessVars>>

-----------------------------------------------------------------------------
(* release_session *)

Pids(q) == {q[i] : i \in DOMAIN q}

\* Both tables are popped under the lock; calls that fetched the session or
\* its table before now hold dead objects.
ReleaseSession(w, s) ==
    /\ pc[w] = "idle" /\ s \in live
    /\ live' = live \ {s}
    /\ blocks' = [blocks EXCEPT ![s] = << >>]
    /\ logical' = [logical EXCEPT ![s] = << >>]
    /\ pc' = [pc EXCEPT ![w] = "popped"]
    /\ job' = [v \in Workers |->
                  IF v = w
                  THEN [NoJob EXCEPT !.sess = s, !.todo = Pids(blocks[s])]
                  ELSE IF pc[v] \in Allocating /\ job[v].sess = s
                  THEN [job[v] EXCEPT !.gone = TRUE, !.lgone = TRUE]
                  ELSE job[v]]
    /\ UNCHANGED <<physVars, issued, store, prefix>>

\* The loop over the blocks of the dead object begins.
ReleaseBegins(w) ==
    /\ pc[w] = "popped"
    /\ Goto(w, "release", job[w])
    /\ UNCHANGED <<physVars, issued, store, sessVars, prefix>>

\* PhysicalBlockTable.release, once per distinct block of the session; the
\* last reference unregisters the block and its hash.
DropReference(w) ==
    /\ pc[w] = "release"
    /\ \E p \in job[w].todo :
          LET left == IF Registered(p) THEN refcount[p] - 1 ELSE 0
              rest == [job[w] EXCEPT !.todo = @ \ {p}]
          IN  /\ refcount' = [refcount EXCEPT ![p] = left]
              /\ byHash' = IF Registered(p) /\ left = 0
                           THEN [byHash EXCEPT ![hash[p]] = None]
                           ELSE byHash
              /\ IF left = 0
                 THEN Goto(w, "purge", [rest EXCEPT !.blk = p, !.to = L1])
                 ELSE Goto(w, "release", rest)
    /\ UNCHANGED <<hash, tier, issued, store, sessVars, prefix>>

\* The tiers are tried hottest first, up to the first that has the payload;
\* one whose provider raises is passed over.
PurgeTier(w) ==
    /\ pc[w] = "purge"
    /\ LET p == job[w].blk
           t == job[w].to
           next == IF t + 1 \in Tiers THEN Goto(w, "purge", [job[w] EXCEPT !.to = t + 1])
                                     ELSE Goto(w, "release", job[w])
       IN  \/ /\ store' = [store EXCEPT ![t][p] = None]
              /\ IF store[t][p] # None THEN Goto(w, "release", job[w]) ELSE next
           \/ UNCHANGED store /\ next
    /\ UNCHANGED <<physVars, issued, sessVars, prefix>>

ReleaseEnd(w) ==
    /\ pc[w] = "release" /\ job[w].todo = {}
    /\ Done(w)
    /\ UNCHANGED <<physVars, issued, store, sessVars, prefix>>

-----------------------------------------------------------------------------
(* migrate_block: from the scheduler's queue, under pressure, or on request *)

MigrateBlock(w, p, t) ==
    /\ pc[w] = "idle" /\ Registered(p) /\ tier[p] # t
    /\ Goto(w, "get", [NoJob EXCEPT !.blk = p, !.from = tier[p], !.to = t])
    /\ UNCHANGED <<physVars, issued, store, sessVars, prefix>>

\* get: KeyError if the payload has left the tier the record named.
MigrateGet(w) ==
    /\ pc[w] = "get"
    /\ LET data == store[job[w].from][job[w].blk]
       IN  IF data # None THEN Goto(w, "copy", [job[w] EXCEPT !.want = data])
           ELSE Done(w)
    /\ UNCHANGED <<physVars, issued, store, sessVars, prefix>>

MigratePut(w) ==
    /\ pc[w] = "copy"
    /\ store' = [store EXCEPT ![job[w].to][job[w].blk] = job[w].want]
    /\ Goto(w, "drop", job[w])
    /\ UNCHANGED <<physVars, issued, sessVars, prefix>>

MigrateDelete(w) ==
    /\ pc[w] = "drop"
    /\ store' = [store EXCEPT ![job[w].from][job[w].blk] = None]
    /\ Goto(w, "retier", job[w])
    /\ UNCHANGED <<physVars, issued, sessVars, prefix>>

\* update_tier: KeyError if the block was freed during the copy.
MigrateUpdate(w) ==
    /\ pc[w] = "retier"
    /\ tier' = IF Registered(job[w].blk)
               THEN [tier EXCEPT ![job[w].blk] = job[w].to] ELSE tier
    /\ Done(w)
    /\ UNCHANGED <<refcount, hash, byHash, issued, store, sessVars, prefix>>

\* Mutant: the tier of the record is updated although the put has failed.
MigrateFails_finally(w) ==
    /\ pc[w] \in {"get", "copy", "drop"}
    /\ Goto(w, "retier", job[w])
    /\ UNCHANGED <<physVars, issued, store, sessVars, prefix>>

\* get, put or delete raises: the call ends, the record still names the tier
\* it named.  What a put leaves of the payload may be anything.
MigrateFails(w) ==
    /\ pc[w] \in {"get", "copy", "drop"}
    /\ \/ UNCHANGED store
       \/ /\ pc[w] = "copy"
          /\ \E rest \in Contents :
                store' = [store EXCEPT ![job[w].to][job[w].blk] = rest]
    /\ Done(w)
    /\ UNCHANGED <<physVars, issued, sessVars, prefix>>

-----------------------------------------------------------------------------
Allocate(w) ==
    \/ \E s \in Sessions : CreateSession(w, s)
    \/ \E s \in Sessions, c \in Contents :
          AllocateHit(w, s, c) \/ AllocateMiss(w, s, c) \/ ReusePrefix(w, s, c)
    \/ AcquireFound(w) \/ PutPayload(w) \/ Register(w) \/ RegisterLost(w)
    \/ Reacquire(w) \/ DiscardOwn(w) \/ ReadIndex(w)
    \/ AttachTo(w) \/ AttachToDead(w) \/ InsertPrefix(w)

Release(w) ==
    \/ \E s \in Sessions : ReleaseSession(w, s)
    \/ ReleaseBegins(w) \/ DropReference(w) \/ PurgeTier(w) \/ ReleaseEnd(w)

Migrate(w) ==
    \/ \E p \in Blocks, t \in Tiers : MigrateBlock(w, p, t)
    \/ MigrateGet(w) \/ MigratePut(w) \/ MigrateDelete(w) \/ MigrateUpdate(w)
    \/ MigrateFails(w)

Next == \/ \E w \in Workers \ Migrators : Allocate(w) \/ Release(w)
        \/ \E w \in Migrators : Migrate(w)

Spec == Init /\ [][Next]_vars

-----------------------------------------------------------------------------
(* Properties *)

\* Those that will still use block p: sessions that map it, calls that have
\* acquired it and not yet attached it, releases that have yet to drop it.
Holders(p) ==
    {s \in Sessions : p \in Pids(blocks[s])} \cup
    {w \in Workers : \/ pc[w] \in {"discard", "attach", "map"} /\ job[w].blk = p
                     \/ pc[w] \in Releasing /\ p \in job[w].todo}

\* Reference counting is never short: whatever allocates, reuses and releases
\* run in other threads, a block has at least as many references as holders,
\* so no block is unregistered, nor its payload purged, under a session
\* (PhysicalBlockTable.acquire and release, allocate, release_session).
HoldersCounted == \A p \in Blocks : Cardinality(Holders(p)) <= refcount[p]

\* Deduplication is exact under races: two threads that allocate the same
\* payload at the same time never leave two registered blocks with it
\* (DeduplicationEngine.register_or_reuse, PhysicalBlockTable.register).
OneBlockPerContent ==
    \A p, q \in Blocks :
        Registered(p) /\ Registered(q) /\ hash[p] = hash[q] => p = q

\* A registered block that nobody is moving has its payload in the tier its
\* record names, so read_payload finds it (migrate_block, release_session).
LiveBlockReadable ==
    \A p \in Blocks :
        Registered(p) /\ (\A m \in Migrators : pc[m] = "idle" \/ job[m].blk # p)
            => store[tier[p]][p] = hash[p]

\* Where read_payload finds a block: in the tier that its record names, or,
\* between the delete and the update_tier of migrate_block, in the tier it is
\* being moved to (a read that falls between the two raises KeyError).
Where(p) ==
    LET moving == {m \in Migrators : pc[m] = "retier" /\ job[m].blk = p}
    IN  IF moving = {} THEN tier[p] ELSE job[CHOOSE m \in moving : TRUE].to

\* read_payload: nothing if the block is not registered, or not stored there.
Payload(p) == IF Registered(p) THEN store[Where(p)][p] ELSE None

\* What a session reads through its blocks is the list of payloads it asked
\* for: deduplication and prefix reuse deliver the payload of the request, and
\* nothing that other sessions, releases and a migration do afterwards, nor a
\* provider that fails, takes it away or changes it (read_payload after
\* allocate, reuse_prefix, release_session and migrate_block).
SessionsView == [s \in Sessions |->
                     [i \in DOMAIN blocks[s] |-> Payload(blocks[s][i])]]
Asked == [w \in Workers |-> IF pc[w] \in Allocating
                           THEN <<job[w].sess, job[w].want>> ELSE None]
Abstract == INSTANCE KVSessions WITH view <- SessionsView, asked <- Asked
ImplementsKVSessions == Abstract!Spec
=============================================================================
