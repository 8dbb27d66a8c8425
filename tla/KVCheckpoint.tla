---------------------------- MODULE KVCheckpoint ----------------------------
(***************************************************************************)
(* Checkpoint and restore of KV sessions across crashes:                   *)
(* KVRuntimeManager.checkpoint, restore and resume, FileCheckpointStore    *)
(* and RecoveryEngine, all in runtime/kv/, with the allocations and        *)
(* releases that run between their steps.                                  *)
(*                                                                         *)
(* The calls share one event loop, and payloads are in the RAM tier, whose *)
(* provider does not suspend: allocate and release are one step each.  A   *)
(* checkpoint suspends at every file it writes, a restore at every file it *)
(* reads.  A file is not replaced atomically: it is Torn from the moment   *)
(* it is opened for writing until all of it is written, for readers and    *)
(* for a crash.  Races of threads inside the block manager are KVBlocks'.  *)
(* The journal is left out: nothing reads it back.                         *)
(***************************************************************************)
EXTENDS Integers, Sequences, FiniteSets, Functions

CONSTANTS Callers,      \* concurrent checkpoint and restore calls
          Sessions, Contents, Blocks, None,
          Torn,         \* what is in a file that is not completely written
          MaxMapped,    \* bound: no new block with this many in live sessions
          MaxRefs       \* bound: no new use of a block with this many references

VARIABLES
    table,  \* PhysicalBlockTable: [recs: block -> [hash, refs], byHash]
    ram,    \* the RAM provider: block -> payload
    sess,   \* live sessions: session -> its blocks in order
    meta,   \* meta.json of each session: <<Meta>>, Unreadable if missing or torn
    files,  \* payload files of each session: block -> payload or Torn
    pc,     \* where each call is
    job,    \* its locals
    acked   \* history: the last checkpoint begun of the session returned ok

memory == <<table, ram, sess>>
disk   == <<meta, files>>
vars   == <<table, ram, sess, meta, files, pc, job, acked>>

PartialFuns(S, T) == UNION {[D -> T] : D \in SUBSET S}
Records == [hash : Contents, refs : Nat \ {0}]
\* sums is payload_ids with content_hashes; rows is physical_records.
Meta == [blocks : Seq(Blocks), rows : Seq([pid : Blocks, hash : Contents, refs : Nat]),
         sums : PartialFuns(Blocks, Contents)]
Unreadable == << >>
Listed(s) == meta[s][1]
NoJob == [sess |-> None, meta |-> None, todo |-> {}, open |-> None,
          got |-> << >>, alone |-> TRUE]

\* Type correctness of the tables, the disk and the calls.
TypeOK ==
    /\ DOMAIN table.recs \subseteq Blocks
    /\ \A p \in DOMAIN table.recs : table.recs[p] \in Records
    /\ table.byHash \in PartialFuns(Contents, Blocks)
    /\ ram \in PartialFuns(Blocks, Contents)
    /\ DOMAIN sess \subseteq Sessions
    /\ \A s \in DOMAIN sess : sess[s] \in Seq(Blocks)
    /\ \A s \in Sessions : meta[s] = Unreadable \/ (Len(meta[s]) = 1 /\ Listed(s) \in Meta)
    /\ files \in [Sessions -> PartialFuns(Blocks, Contents \cup {Torn})]
    /\ pc \in [Callers -> {"idle", "payloads", "meta", "load"}]
    /\ \A w \in Callers :
          pc[w] # "idle" => job[w].sess \in Sessions /\ job[w].meta \in Meta
    /\ acked \in [Sessions -> BOOLEAN]

Empty == << >>
Boot == [recs |-> Empty, byHash |-> Empty]

Init ==
    /\ table = Boot /\ ram = Empty /\ sess = Empty
    /\ meta = [s \in Sessions |-> Unreadable]
    /\ files = [s \in Sessions |-> Empty]
    /\ pc = [w \in Callers |-> "idle"]
    /\ job = [w \in Callers |-> NoJob]
    /\ acked = [s \in Sessions |-> FALSE]

Put(f, x, v) == [y \in DOMAIN f \cup {x} |-> IF y = x THEN v ELSE f[y]]
Without(f, S) == Restrict(f, DOMAIN f \ S)
Goto(w, label, locals) == /\ pc' = [pc EXCEPT ![w] = label]
                          /\ job' = [job EXCEPT ![w] = locals]
Done(w) == Goto(w, "idle", NoJob)

-----------------------------------------------------------------------------
(* PhysicalBlockTable; t is a table *)

Registered(t) == DOMAIN t.recs
Refs(p) == IF p \in Registered(table) THEN table.recs[p].refs ELSE 0
Known(t, c) == c \in DOMAIN t.byHash /\ t.byHash[c] \in Registered(t)
Acquire(t, p) == [t EXCEPT !.recs[p].refs = @ + 1]

Insert(t, p, c, n) == [recs   |-> Put(t.recs, p, [hash |-> c, refs |-> n]),
                       byHash |-> Put(t.byHash, c, p)]

\* Mutant: registers a record whatever else has its content.
Register_blind(t, p, c, n) == Insert(t, p, c, n)

\* A known content is one more reference to the block that has it.
Register(t, p, c, n) == IF Known(t, c) THEN Acquire(t, t.byHash[c])
                                       ELSE Insert(t, p, c, n)

\* An id is issued once: it is new if no table, file or call knows it.
Used == UNION ({Registered(table), DOMAIN ram} \cup {Range(sess[s]) : s \in DOMAIN sess}
               \cup {DOMAIN files[s] : s \in Sessions}
               \cup {DOMAIN job[w].meta.sums : w \in {v \in Callers : pc[v] # "idle"}})

CanUse(c) == Known(table, c) => Refs(table.byHash[c]) < MaxRefs
Mapped == FoldFunction(LAMBDA q, n : Len(q) + n, 0, sess)
BlocksOf(s) == IF s \in DOMAIN sess THEN sess[s] ELSE << >>

Allocate(s, c) ==
    /\ Mapped < MaxMapped /\ CanUse(c)
    /\ \E p \in IF Known(table, c) THEN {table.byHash[c]} ELSE Blocks \ Used :
          /\ table' = Register(table, p, c, 1)
          /\ ram' = IF Known(table, c) THEN ram ELSE Put(ram, p, c)
          /\ sess' = Put(sess, s, Append(BlocksOf(s), p))
    /\ UNCHANGED <<disk, pc, job, acked>>

\* One reference less for every distinct block; the payload goes with the
\* last one, and for a block that the table does not know.
Release(s) ==
    /\ s \in DOMAIN sess
    /\ LET mine == Range(sess[s])
           last == {p \in mine : Refs(p) <= 1}
           gone == last \cap Registered(table)
       IN  /\ table' = [recs |-> [p \in Registered(table) \ last |->
                                    [table.recs[p] EXCEPT !.refs =
                                        IF p \in mine THEN @ - 1 ELSE @]],
                        byHash |-> Without(table.byHash, {table.recs[p].hash : p \in gone})]
           /\ ram' = Without(ram, last)
    /\ sess' = Without(sess, {s})
    /\ UNCHANGED <<disk, pc, job, acked>>

-----------------------------------------------------------------------------
(* checkpoint *)

Saving(s) == {w \in Callers : pc[w] \in {"payloads", "meta"} /\ job[w].sess = s}

\* What the checkpoint of s writes to meta.json.
Snapshot(s) ==
    [blocks |-> sess[s],
     rows   |-> [i \in DOMAIN sess[s] |->
                    [pid |-> sess[s][i], hash |-> table.recs[sess[s][i]].hash,
                     refs |-> Refs(sess[s][i])]],
     sums   |-> Restrict(ram, Range(sess[s]))]

\* Every payload is read first: KeyError if one has no record or no payload.
Checkpoint(w, s) ==
    /\ pc[w] = "idle" /\ s \in DOMAIN sess
    /\ Range(sess[s]) \subseteq Registered(table) \cap DOMAIN ram
    /\ \A p \in Range(sess[s]) : Refs(p) < MaxRefs
    /\ pc' = [pc EXCEPT ![w] = "payloads"]
    /\ job' = [v \in Callers |->
                  IF v = w THEN [NoJob EXCEPT !.sess = s, !.meta = Snapshot(s),
                                    !.todo = Range(sess[s]), !.alone = Saving(s) = {}]
                  ELSE IF v \in Saving(s) THEN [job[v] EXCEPT !.alone = FALSE]
                  ELSE job[v]]
    /\ acked' = [acked EXCEPT ![s] = FALSE]
    /\ UNCHANGED <<memory, disk>>

\* Mutant: the write is started and not waited for.
OpenPayload_unawaited(w) ==
    /\ pc[w] = "payloads" /\ job[w].open = None
    /\ \E p \in job[w].todo :
          /\ files' = [files EXCEPT ![job[w].sess] = Put(@, p, Torn)]
          /\ Goto(w, "payloads", [job[w] EXCEPT !.open = p, !.todo = @ \ {p}])
    /\ UNCHANGED <<memory, meta, acked>>

OpenPayload(w) ==
    /\ pc[w] = "payloads" /\ job[w].open = None
    /\ \E p \in job[w].todo :
          /\ files' = [files EXCEPT ![job[w].sess] = Put(@, p, Torn)]
          /\ Goto(w, "payloads", [job[w] EXCEPT !.open = p])
    /\ UNCHANGED <<memory, meta, acked>>

WritePayload(w) ==
    /\ pc[w] = "payloads" /\ job[w].open # None
    /\ LET p == job[w].open
       IN  /\ files' = [files EXCEPT ![job[w].sess] = Put(@, p, job[w].meta.sums[p])]
           /\ Goto(w, "payloads", [job[w] EXCEPT !.open = None, !.todo = @ \ {p}])
    /\ UNCHANGED <<memory, meta, acked>>

OpenMeta(w) ==
    /\ pc[w] = "payloads" /\ job[w].todo = {}
    /\ meta' = [meta EXCEPT ![job[w].sess] = Unreadable]
    /\ Goto(w, "meta", job[w])
    /\ UNCHANGED <<memory, files, acked>>

\* Two checkpoints of one session may leave a mixture of their meta.json.
WriteMeta(w) ==
    LET s == job[w].sess IN
    /\ pc[w] = "meta"
    /\ \E result \in {<<job[w].meta>>} \cup (IF job[w].alone THEN {} ELSE {Unreadable}) :
          meta' = [meta EXCEPT ![s] = result]
    /\ acked' = [acked EXCEPT ![s] = job[w].alone]
    /\ Done(w)
    /\ UNCHANGED <<memory, files>>

-----------------------------------------------------------------------------
(* restore, resume *)

\* resume returns a live session and restores any other; restore always does.
\* A missing meta.json is a KeyError, a torn one does not parse.
Restore(w, s) ==
    /\ pc[w] = "idle" /\ meta[s] # Unreadable
    /\ \A p \in Registered(table) : Refs(p) < MaxRefs
    /\ Goto(w, "load", [NoJob EXCEPT !.sess = s, !.meta = Listed(s),
                                     !.todo = DOMAIN Listed(s).sums])
    /\ UNCHANGED <<memory, disk, acked>>

LoadPayload(w) ==
    /\ pc[w] = "load"
    /\ \E p \in job[w].todo :
          IF p \in DOMAIN files[job[w].sess]
          THEN Goto(w, "load", [job[w] EXCEPT !.todo = @ \ {p},
                                  !.got = Put(@, p, files[job[w].sess][p])])
          ELSE Done(w)
    /\ UNCHANGED <<memory, disk, acked>>

\* Mutant: a payload whose hash differs is restored all the same.
Corrupt_never(w) == FALSE

\* validate_payloads: some payload has not the hash meta.json expects of it.
Corrupt(w) == job[w].got # job[w].meta.sums

RestoreCorrupt(w) ==
    /\ pc[w] = "load" /\ job[w].todo = {} /\ Corrupt(w)
    /\ Done(w)
    /\ UNCHANGED <<memory, disk, acked>>

\* Mutant: a block that is in the table keeps its references.
Merge_keep(t, row) == IF row.pid \in Registered(t) THEN t
                      ELSE Register(t, row.pid, row.hash, row.refs)

\* rebuild_tables for one physical record.
Merge(t, row) == IF row.pid \in Registered(t) THEN Acquire(t, row.pid)
                 ELSE Register(t, row.pid, row.hash, row.refs)

\* rebuild_tables: the physical records of a checkpoint in their order.
Rebuild(t, rows) ==
    LET merged[i \in 0..Len(rows)] ==
            IF i = 0 THEN t ELSE Merge(merged[i - 1], rows[i])
    IN  merged[Len(rows)]

\* It runs twice, in recover_from_checkpoint and in restore; the restored
\* session replaces a live one.
RestoreEnd(w) ==
    /\ pc[w] = "load" /\ job[w].todo = {} /\ ~Corrupt(w)
    /\ LET m == job[w].meta
       IN  /\ table' = Rebuild(Rebuild(table, m.rows), m.rows)
           /\ ram' = [p \in DOMAIN m.sums \cup DOMAIN ram |->
                        IF p \in DOMAIN m.sums THEN job[w].got[p] ELSE ram[p]]
           /\ sess' = Put(sess, job[w].sess, m.blocks)
    /\ Done(w)
    /\ UNCHANGED <<disk, acked>>

-----------------------------------------------------------------------------
\* The process ends: memory and calls are gone, files stay as they are.
Crash ==
    /\ table' = Boot /\ ram' = Empty /\ sess' = Empty
    /\ pc' = [w \in Callers |-> "idle"]
    /\ job' = [w \in Callers |-> NoJob]
    /\ UNCHANGED <<disk, acked>>

Next ==
    \/ \E s \in Sessions : Release(s) \/ \E c \in Contents : Allocate(s, c)
    \/ \E w \in Callers :
          \/ \E s \in Sessions : Checkpoint(w, s) \/ Restore(w, s)
          \/ OpenPayload(w) \/ WritePayload(w) \/ OpenMeta(w) \/ WriteMeta(w)
          \/ LoadPayload(w) \/ RestoreCorrupt(w) \/ RestoreEnd(w)
    \/ Crash

Spec == Init /\ [][Next]_vars

-----------------------------------------------------------------------------
(* Properties *)

Mapping(p) == {s \in DOMAIN sess : p \in Range(sess[s])}

\* A registered block has a reference for every live session that maps it,
\* whatever was released, restored or replaced in between: no release frees
\* it under another session (rebuild_tables, PhysicalBlockTable.release).
HoldersCounted ==
    \A p \in Registered(table) : Cardinality(Mapping(p)) <= Refs(p)

\* Merging a checkpoint into a table that has some of its contents under
\* other ids keeps deduplication exact, and the index names every registered
\* block (rebuild_tables, PhysicalBlockTable.register).
OneBlockPerContent ==
    \A p \in Registered(table) : LET c == table.recs[p].hash
                                 IN  c \in DOMAIN table.byHash /\ table.byHash[c] = p

\* A restore never brings in a payload that a crash or a concurrent checkpoint
\* left half written, and never leaves a registered block of a session
\* without its payload (validate_payloads, restore).
RegisteredReadable ==
    \A p \in Registered(table) : Mapping(p) # {} =>
        p \in DOMAIN ram /\ ram[p] = table.recs[p].hash

\* meta.json never lists a payload whose file was not even begun, so a crash
\* between two files cannot make a restore miss one (save_meta comes last).
WrittenBeforeListed ==
    \A s \in Sessions : meta[s] # Unreadable =>
        DOMAIN Listed(s).sums \subseteq DOMAIN files[s]

\* Once a checkpoint has returned ok, and until the next one of the session
\* begins, a restore finds all of it intact, whatever crashes and earlier
\* half-written checkpoints there were (CheckpointEngine.checkpoint).
AckedRestorable ==
    \A s \in Sessions : acked[s] =>
        /\ meta[s] # Unreadable
        /\ LET sums == Listed(s).sums
           IN  Restrict(files[s], DOMAIN sums) = sums

\* "A long session survives process restart via `/kv/checkpoint` +
\* `/kv/restore`" (NEXUS_ARM_STEP_BY_STEP_IMPLEMENTATION.md:359): every block of
\* a live session, restored or not, can be read (read_payload).
SessionReadable ==
    \A s \in DOMAIN sess : Range(sess[s]) \subseteq Registered(table)
=============================================================================
