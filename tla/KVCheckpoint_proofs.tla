------------------------ MODULE KVCheckpoint_proofs -------------------------
(***************************************************************************)
(* What a checkpoint leaves on disk and what a restore makes of it, for    *)
(* any callers, sessions and blocks and with crashes anywhere.             *)
(*                                                                         *)
(* On disk: meta.json lists no payload before its file is begun, and a     *)
(* checkpoint that returned ok stays whole until the next one of its       *)
(* session begins.  IInv says it; the tables in memory play no part.       *)
(*                                                                         *)
(* In memory: no release frees a registered block under another session,   *)
(* no content is registered twice, and every registered block that is      *)
(* mapped has its payload.  Ledger says it, given IInv: it gives every     *)
(* block id one content and counts, for a content, the sessions that hold  *)
(* it under whatever id.  Counting by id would not be inductive: a         *)
(* restored session may map an id whose content has another one by now.    *)
(***************************************************************************)
EXTENDS KVCheckpoint, SequenceTheorems, FiniteSetTheorems, WellFoundedInduction, TLAPS

Labels == {"idle", "payloads", "meta", "load"}
Saver(w) == pc[w] \in {"payloads", "meta"}
Sums(w) == job[w].meta.sums
Begun(w) == DOMAIN Sums(w) \ job[w].todo

\* The locals of a call are a record with the fields of NoJob.
IsJob(r) == DOMAIN r = {"sess", "meta", "todo", "open", "got", "alone"}

\* The functions of the state.
Shape ==
    /\ DOMAIN meta = Sessions /\ DOMAIN files = Sessions
    /\ pc \in [Callers -> Labels]
    /\ DOMAIN job = Callers
    /\ \A w \in Callers :
          IsJob(job[w])
    /\ DOMAIN acked = Sessions

\* A checkpoint works through the payloads of its snapshot, and has begun
\* the file of every one that it has done with.
Saves ==
    \A w \in Callers : Saver(w) =>
        /\ job[w].sess \in Sessions
        /\ Sums(w) = [p \in DOMAIN Sums(w) |-> Sums(w)[p]]
        /\ job[w].todo \subseteq DOMAIN Sums(w)
        /\ job[w].open # None => job[w].open \in job[w].todo
        /\ Begun(w) \subseteq DOMAIN files[job[w].sess]
        /\ pc[w] = "meta" => job[w].todo = {}

\* A checkpoint that overlaps no other of its session has its files to itself.
AloneSaves ==
    \A w \in Callers : Saver(w) /\ job[w].alone = TRUE =>
        /\ \A v \in Callers \ {w} : Saver(v) => job[v].sess # job[w].sess
        /\ \A p \in Begun(w) : files[job[w].sess][p] = Sums(w)[p]

\* Nothing is being written to the files of an acknowledged checkpoint.
AckedIsOver ==
    \A s \in Sessions, w \in Callers : acked[s] /\ Saver(w) => job[w].sess # s

IInv == Shape /\ Saves /\ AloneSaves /\ AckedIsOver /\ WrittenBeforeListed /\ AckedRestorable

(* Writing one payload file keeps the others. *)
LEMMA FileWritten ==
    ASSUME DOMAIN files = Sessions, NEW s \in Sessions, NEW p, NEW v,
           files' = [files EXCEPT ![s] = Put(@, p, v)]
    PROVE  /\ DOMAIN files' = Sessions
           /\ \A t \in Sessions : t # s => files'[t] = files[t]
           /\ DOMAIN files'[s] = DOMAIN files[s] \cup {p}
           /\ files'[s][p] = v
           /\ \A q \in DOMAIN files[s] : q # p => files'[s][q] = files[s][q]
<1>1. files'[s] = Put(files[s], p, v)
  OBVIOUS
<1>2. /\ DOMAIN Put(files[s], p, v) = DOMAIN files[s] \cup {p}
      /\ Put(files[s], p, v)[p] = v
      /\ \A q \in DOMAIN files[s] : q # p => Put(files[s], p, v)[q] = files[s][q]
  BY DEF Put
<1> QED
  BY <1>1, <1>2

(* The invariant holds when the process starts with an empty disk. *)
LEMMA InitIInv == Init => IInv
<1> SUFFICES ASSUME Init PROVE IInv
  OBVIOUS
<1>1. Shape
  BY DEF Init, Shape, Labels, NoJob, IsJob
<1>2. \A w \in Callers : ~Saver(w)
  BY DEF Init, Saver
<1>3. \A s \in Sessions : meta[s] = Unreadable /\ acked[s] = FALSE
  BY DEF Init
<1> QED
  BY <1>1, <1>2, <1>3 DEF IInv, Saves, AloneSaves, AckedIsOver, WrittenBeforeListed,
     AckedRestorable
-----------------------------------------------------------------------------
(* A step that leaves the disk and the savers alone, such as every step of *)
(* a restore, of the tables and of a crash.                                *)
LEMMA DiskUntouched ==
    ASSUME IInv, Shape', UNCHANGED <<meta, files, acked>>,
           \A w \in Callers : Saver(w)' => Saver(w) /\ pc'[w] = pc[w] /\ job'[w] = job[w]
    PROVE  IInv'
<1> USE DEF IInv
<1>1. Saves'
  BY DEF Saves, Saver, Sums, Begun
<1>2. AloneSaves'
  BY DEF AloneSaves, Saver, Sums, Begun
<1>3. AckedIsOver'
  BY DEF AckedIsOver, Saver
<1>4. WrittenBeforeListed' /\ AckedRestorable'
  BY DEF WrittenBeforeListed, AckedRestorable, Listed
<1> QED
  BY <1>1, <1>2, <1>3, <1>4

(* A checkpoint begins: the last one of the session is no longer vouched   *)
(* for, and the ones it overlaps are no longer alone.                      *)
LEMMA CheckpointStep ==
    ASSUME IInv, NEW w \in Callers, NEW s \in Sessions, Checkpoint(w, s)
    PROVE  IInv'
<1> USE DEF IInv
<1> DEFINE none == Saving(s) = {}
           new == [NoJob EXCEPT !.sess = s, !.meta = Snapshot(s),
                       !.todo = Range(sess[s]), !.alone = none]
<1>1. /\ new.sess = s /\ new.todo = DOMAIN new.meta.sums /\ new.open = None
      /\ new.meta.sums = [p \in DOMAIN new.meta.sums |-> new.meta.sums[p]]
  BY DEF NoJob, Snapshot, Restrict
<1>a. new.sess = s
  BY DEF NoJob, IsJob
<1>b. new.alone = TRUE => Saving(s) = {}
  <2>1. none = TRUE => Saving(s) = {}
    BY Zenon
  <2> HIDE DEF none
  <2>2. new.alone = none
    BY DEF NoJob, IsJob
  <2> HIDE DEF new
  <2> QED
    BY <2>1, <2>2
<1>c. IsJob(new)
  <2> HIDE DEF none
  <2> QED
    BY DEF NoJob, IsJob
<1>2. /\ pc' = [pc EXCEPT ![w] = "payloads"]
      /\ job' = [v \in Callers |-> IF v = w THEN new
                     ELSE IF v \in Saving(s) THEN [job[v] EXCEPT !.alone = FALSE]
                     ELSE job[v]]
      /\ acked' = [acked EXCEPT ![s] = FALSE]
      /\ UNCHANGED <<meta, files>>
  BY DEF Checkpoint, disk
<1> HIDE DEF new
<1>3. \A v \in Callers \ {w} :
         /\ pc'[v] = pc[v] /\ job'[v].sess = job[v].sess /\ job'[v].meta = job[v].meta
         /\ job'[v].todo = job[v].todo /\ job'[v].open = job[v].open
         /\ v \in Saving(s) => job'[v].alone = FALSE
         /\ v \notin Saving(s) => job'[v] = job[v]
         /\ IsJob(job'[v])
  <2> SUFFICES ASSUME NEW v \in Callers \ {w}
               PROVE  /\ pc'[v] = pc[v]
                      /\ job'[v].sess = job[v].sess /\ job'[v].meta = job[v].meta
                      /\ job'[v].todo = job[v].todo /\ job'[v].open = job[v].open
                      /\ v \in Saving(s) => job'[v].alone = FALSE
                      /\ v \notin Saving(s) => job'[v] = job[v]
                      /\ IsJob(job'[v])
    OBVIOUS
  <2>1. job'[v] = IF v \in Saving(s) THEN [job[v] EXCEPT !.alone = FALSE] ELSE job[v]
    BY <1>2
  <2>2. IsJob(job[v])
    BY DEF Shape
  <2>3. pc'[v] = pc[v]
    BY <1>2 DEF Shape
  <2> QED
    BY <2>1, <2>2, <2>3 DEF IsJob
<1>4. job'[w] = new /\ pc'[w] = "payloads" /\ pc[w] = "idle"
  BY <1>2 DEF Shape, Checkpoint
<1>5. \A v \in Callers : v \in Saving(s) <=> Saver(v) /\ job[v].sess = s
  BY DEF Saving, Saver
<1>6. Shape'
  <2>1. \A v \in Callers :
           IsJob(job'[v])
    BY <1>c, <1>3, <1>4
  <2>2. pc' \in [Callers -> Labels] /\ DOMAIN job' = Callers /\ DOMAIN acked' = Sessions
    BY <1>2 DEF Shape, Labels
  <2> QED
    BY <1>2, <2>1, <2>2 DEF Shape
<1>7. \A v \in Callers : Saver(v)' <=> v = w \/ Saver(v)
  BY <1>3, <1>4 DEF Saver
<1>8. Saves'
  <2> SUFFICES ASSUME NEW v \in Callers, Saver(v)'
               PROVE  /\ job'[v].sess \in Sessions
                      /\ Sums(v)' = [p \in DOMAIN Sums(v)' |-> Sums(v)'[p]]
                      /\ job'[v].todo \subseteq DOMAIN Sums(v)'
                      /\ job'[v].open # None => job'[v].open \in job'[v].todo
                      /\ Begun(v)' \subseteq DOMAIN files'[job'[v].sess]
                      /\ pc'[v] = "meta" => job'[v].todo = {}
    BY DEF Saves
  <2>1. CASE v = w
    BY <2>1, <1>1, <1>4 DEF Sums, Begun
  <2>2. CASE v # w
    BY <2>2, <1>2, <1>3, <1>7 DEF Saves, Sums, Begun
  <2> QED
    BY <2>1, <2>2
<1>9. AloneSaves'
  <2> SUFFICES ASSUME NEW v \in Callers, Saver(v)', job'[v].alone = TRUE
               PROVE  /\ \A u \in Callers \ {v} : Saver(u)' => job'[u].sess # job'[v].sess
                      /\ \A p \in Begun(v)' : files'[job'[v].sess][p] = Sums(v)'[p]
    BY DEF AloneSaves
  <2>1. CASE v = w
    <3>1. \A u \in Callers \ {w} : Saver(u) => job[u].sess # s
      BY <2>1, <1>b, <1>4, <1>5
    <3>2. Begun(w)' = {}
      BY <1>1, <1>4 DEF Begun, Sums
    <3> QED
      BY <2>1, <3>1, <3>2, <1>a, <1>3, <1>4, <1>7
  <2>2. CASE v # w
    <3>1. Saver(v) /\ v \notin Saving(s) /\ job'[v] = job[v] /\ job[v].sess # s
      BY <2>2, <1>3, <1>5, <1>7
    <3>2. \A u \in Callers \ {v} : Saver(u)' => job'[u].sess # job'[v].sess
      <4>1. job'[w].sess = s /\ job'[v].sess = job[v].sess
        BY <1>a, <1>4, <3>1
      <4>2. \A u \in Callers \ {v} : Saver(u) => job[u].sess # job[v].sess
        BY <3>1, <2>2 DEF AloneSaves
      <4> QED
        BY <3>1, <4>1, <4>2, <1>3, <1>7
    <3> QED
      BY <3>1, <3>2, <1>2 DEF AloneSaves, Sums, Begun
  <2> QED
    BY <2>1, <2>2
<1>10. acked'[s] = FALSE /\ \A t \in Sessions : t # s => acked'[t] = acked[t]
  BY <1>2 DEF Shape
<1>11. AckedIsOver'
  <2>1. job'[w].sess = s /\ \A v \in Callers \ {w} : job'[v].sess = job[v].sess
    BY <1>a, <1>3, <1>4
  <2> QED
    BY <2>1, <1>7, <1>10 DEF AckedIsOver
<1>12. WrittenBeforeListed' /\ AckedRestorable'
  BY <1>2, <1>10 DEF WrittenBeforeListed, AckedRestorable, Listed
<1> QED
  BY <1>6, <1>8, <1>9, <1>11, <1>12
-----------------------------------------------------------------------------
\* Caller w moves on within the checkpoint of its session.
Moves(w, label) ==
    /\ pc' = [pc EXCEPT ![w] = label]
    /\ DOMAIN job' = Callers
    /\ \A v \in Callers \ {w} : job'[v] = job[v]
    /\ job'[w].sess = job[w].sess /\ job'[w].meta = job[w].meta
    /\ job'[w].alone = job[w].alone
    /\ IsJob(job'[w])

(* Writing to a payload file of its own keeps everything a checkpoint has  *)
(* promised to others, and what it promises itself if what it has done     *)
(* with is on disk.                                                        *)
LEMMA PayloadStep ==
    ASSUME IInv, NEW w \in Callers, Saver(w), Moves(w, "payloads"),
           UNCHANGED <<meta, acked>>, NEW p \in job[w].todo, NEW v,
           files' = [files EXCEPT ![job[w].sess] = Put(@, p, v)],
           \/ job'[w].todo = job[w].todo /\ job'[w].open = p
           \/ /\ job'[w].todo = job[w].todo \ {p} /\ job'[w].open = None
              /\ v = Sums(w)[p]
    PROVE  IInv'
<1> USE DEF IInv
<1> DEFINE s == job[w].sess
<1>1. s \in Sessions
  BY DEF Saves
<1>2. /\ DOMAIN files' = Sessions
      /\ \A t \in Sessions : t # s => files'[t] = files[t]
      /\ DOMAIN files'[s] = DOMAIN files[s] \cup {p}
      /\ files'[s][p] = v
      /\ \A q \in DOMAIN files[s] : q # p => files'[s][q] = files[s][q]
  BY <1>1, FileWritten DEF Shape
<1> HIDE DEF s
<1>3. /\ pc'[w] = "payloads" /\ \A u \in Callers \ {w} : pc'[u] = pc[u] /\ job'[u] = job[u]
      /\ Sums(w)' = Sums(w) /\ job'[w].sess = s /\ job'[w].alone = job[w].alone
      /\ \A u \in Callers : Saver(u)' <=> Saver(u)
  BY DEF Moves, Shape, Saver, Sums, s
<1>4. Shape'
  <2>1. pc' \in [Callers -> Labels]
    BY DEF Moves, Shape, Labels
  <2> QED
    BY <2>1, <1>2 DEF Shape, Moves
<1>5. Begun(w)' \subseteq Begun(w) \cup {p} /\ (p \in Begun(w)' => v = Sums(w)[p])
  BY <1>3 DEF Begun
<1>6. p \notin Begun(w)
  BY DEF Begun
<1>7. \A u \in Callers \ {w} : Begun(u)' = Begun(u) /\ Sums(u)' = Sums(u)
  BY <1>3 DEF Begun, Sums
<1>8. Saves'
  <2> SUFFICES ASSUME NEW u \in Callers, Saver(u)'
               PROVE  /\ job'[u].sess \in Sessions
                      /\ Sums(u)' = [q \in DOMAIN Sums(u)' |-> Sums(u)'[q]]
                      /\ job'[u].todo \subseteq DOMAIN Sums(u)'
                      /\ job'[u].open # None => job'[u].open \in job'[u].todo
                      /\ Begun(u)' \subseteq DOMAIN files'[job'[u].sess]
                      /\ pc'[u] = "meta" => job'[u].todo = {}
    BY DEF Saves
  <2>1. CASE u = w
    <3>1. /\ Sums(w) = [q \in DOMAIN Sums(w) |-> Sums(w)[q]]
          /\ job[w].todo \subseteq DOMAIN Sums(w) /\ Begun(w) \subseteq DOMAIN files[s]
      BY DEF Saves, s
    <3>2. Begun(w)' \subseteq DOMAIN files'[s]
      BY <3>1, <1>2, <1>5
    <3> QED
      BY <2>1, <3>1, <3>2, <1>1, <1>3
  <2>2. CASE u # w
    <3>1. DOMAIN files[job[u].sess] \subseteq DOMAIN files'[job[u].sess]
      BY <1>1, <1>2, <1>3 DEF Saves
    <3> QED
      BY <2>2, <3>1, <1>3, <1>7 DEF Saves
  <2> QED
    BY <2>1, <2>2
<1>9. AloneSaves'
  <2> SUFFICES ASSUME NEW u \in Callers, Saver(u)', job'[u].alone = TRUE
               PROVE  /\ \A x \in Callers \ {u} : Saver(x)' => job'[x].sess # job'[u].sess
                      /\ \A q \in Begun(u)' : files'[job'[u].sess][q] = Sums(u)'[q]
    BY DEF AloneSaves
  <2>1. Saver(u) /\ job[u].alone = TRUE /\ job'[u].sess = job[u].sess
    BY <1>3 DEF s
  <2>2. \A x \in Callers \ {u} : Saver(x)' => job'[x].sess # job'[u].sess
    BY <2>1, <1>3 DEF AloneSaves, s
  <2>3. CASE u = w
    <3>1. \A q \in Begun(w) : files[s][q] = Sums(w)[q] /\ q \in DOMAIN files[s]
      BY <2>1, <2>3 DEF AloneSaves, Saves, s
    <3>2. \A q \in Begun(w)' : files'[s][q] = Sums(w)[q]
      BY <3>1, <1>2, <1>5
    <3> QED
      BY <2>2, <2>3, <3>2, <1>3
  <2>4. CASE u # w
    <3>1. job[u].sess # s /\ job[u].sess \in Sessions
      BY <2>1, <2>4 DEF AloneSaves, Saves, s
    <3>2. files'[job[u].sess] = files[job[u].sess]
      BY <3>1, <1>2
    <3> QED
      BY <2>1, <2>2, <2>4, <3>2, <1>7 DEF AloneSaves
  <2> QED
    BY <2>3, <2>4
<1>10. AckedIsOver'
  BY <1>3 DEF AckedIsOver, s
<1>11. WrittenBeforeListed'
  BY <1>1, <1>2 DEF WrittenBeforeListed, Listed
<1>12. AckedRestorable'
  BY <1>1, <1>2 DEF AckedRestorable, Listed, AckedIsOver, s
<1> QED
  BY <1>4, <1>8, <1>9, <1>10, <1>11, <1>12

(* A payload file is opened. *)
LEMMA OpenPayloadStep ==
    ASSUME IInv, NEW w \in Callers, OpenPayload(w)
    PROVE  IInv'
<1>1. PICK p \in job[w].todo :
         /\ files' = [files EXCEPT ![job[w].sess] = Put(@, p, Torn)]
         /\ Goto(w, "payloads", [job[w] EXCEPT !.open = p])
  BY DEF OpenPayload
<1>2. IsJob(job[w])
  BY DEF IInv, Shape
<1>3. DOMAIN job = Callers
  BY DEF IInv, Shape
<1>4. Moves(w, "payloads") /\ job'[w].todo = job[w].todo /\ job'[w].open = p
  BY <1>1, <1>2, <1>3 DEF Goto, Moves, IsJob
<1>5. Saver(w) /\ UNCHANGED <<meta, acked>>
  BY DEF OpenPayload, Saver
<1> QED
  BY <1>1, <1>4, <1>5, PayloadStep

(* A payload file is complete. *)
LEMMA WritePayloadStep ==
    ASSUME IInv, NEW w \in Callers, WritePayload(w)
    PROVE  IInv'
<1> DEFINE p == job[w].open
<1>1. /\ files' = [files EXCEPT ![job[w].sess] = Put(@, p, Sums(w)[p])]
      /\ Goto(w, "payloads", [job[w] EXCEPT !.open = None, !.todo = @ \ {p}])
  BY DEF WritePayload, Sums
<1>2. IsJob(job[w])
  BY DEF IInv, Shape
<1>3. DOMAIN job = Callers
  BY DEF IInv, Shape
<1>4. Moves(w, "payloads") /\ job'[w].todo = job[w].todo \ {p} /\ job'[w].open = None
  BY <1>1, <1>2, <1>3 DEF Goto, Moves, IsJob
<1>5. Saver(w) /\ UNCHANGED <<meta, acked>> /\ p \in job[w].todo
  BY DEF WritePayload, Saver, IInv, Saves
<1> QED
  BY <1>1, <1>4, <1>5, PayloadStep

(* meta.json is opened when every payload file is complete. *)
LEMMA OpenMetaStep ==
    ASSUME IInv, NEW w \in Callers, OpenMeta(w)
    PROVE  IInv'
<1> USE DEF IInv
<1>1. /\ pc' = [pc EXCEPT ![w] = "meta"] /\ job' = [job EXCEPT ![w] = job[w]]
      /\ meta' = [meta EXCEPT ![job[w].sess] = Unreadable]
      /\ UNCHANGED <<files, acked>> /\ Saver(w) /\ job[w].todo = {}
  BY DEF OpenMeta, Goto, Saver
<1>2. /\ DOMAIN job' = Callers /\ \A v \in Callers : job'[v] = job[v]
      /\ pc'[w] = "meta" /\ \A v \in Callers \ {w} : pc'[v] = pc[v]
      /\ \A v \in Callers : Saver(v)' <=> Saver(v)
  BY <1>1 DEF Shape, Saver
<1>3. \A v \in Callers : Sums(v)' = Sums(v) /\ Begun(v)' = Begun(v)
  BY <1>2 DEF Sums, Begun
<1>4. Shape'
  <2>1. pc' \in [Callers -> Labels] /\ DOMAIN meta' = Sessions
    BY <1>1 DEF Shape, Labels
  <2> QED
    BY <2>1, <1>1, <1>2 DEF Shape
<1>5. Saves'
  BY <1>1, <1>2, <1>3 DEF Saves
<1>6. AloneSaves'
  BY <1>1, <1>2, <1>3 DEF AloneSaves
<1>7. AckedIsOver'
  BY <1>1, <1>2 DEF AckedIsOver
<1>8. \A s \in Sessions : meta'[s] = IF s = job[w].sess THEN Unreadable ELSE meta[s]
  BY <1>1 DEF Shape
<1>9. WrittenBeforeListed'
  BY <1>1, <1>8 DEF WrittenBeforeListed, Listed
<1>10. AckedRestorable'
  BY <1>1, <1>8 DEF AckedRestorable, Listed, AckedIsOver
<1> QED
  BY <1>4, <1>5, <1>6, <1>7, <1>9, <1>10

(* meta.json is complete: what it lists is on disk, and intact if no other *)
(* checkpoint of the session overlapped.                                   *)
LEMMA WriteMetaStep ==
    ASSUME IInv, NEW w \in Callers, WriteMeta(w)
    PROVE  IInv'
<1> USE DEF IInv
<1> DEFINE s == job[w].sess
           m == job[w].meta
<1>1. /\ Saver(w) /\ pc[w] = "meta" /\ UNCHANGED files
      /\ pc' = [pc EXCEPT ![w] = "idle"] /\ job' = [job EXCEPT ![w] = NoJob]
      /\ acked' = [acked EXCEPT ![s] = job[w].alone]
  BY DEF WriteMeta, Done, Goto, Saver
<1>2. PICK result \in {<<m>>} \cup (IF job[w].alone THEN {} ELSE {Unreadable}) :
         meta' = [meta EXCEPT ![s] = result]
  BY DEF WriteMeta
<1>3. s \in Sessions /\ job[w].todo = {} /\ Begun(w) = DOMAIN Sums(w)
  BY <1>1 DEF Saves, Begun
<1>4. /\ DOMAIN Sums(w) \subseteq DOMAIN files[s]
      /\ Sums(w) = [p \in DOMAIN Sums(w) |-> Sums(w)[p]]
  BY <1>1, <1>3 DEF Saves
<1>5. /\ ~Saver(w)' /\ DOMAIN job' = Callers
      /\ \A v \in Callers \ {w} : pc'[v] = pc[v] /\ job'[v] = job[v]
      /\ \A v \in Callers : Saver(v)' => v # w /\ Saver(v)
  BY <1>1 DEF Shape, Saver
<1>6. \A v \in Callers \ {w} : Sums(v)' = Sums(v) /\ Begun(v)' = Begun(v)
  BY <1>5 DEF Sums, Begun
<1>7. meta'[s] = result /\ \A t \in Sessions : t # s => meta'[t] = meta[t] /\ acked'[t] = acked[t]
  BY <1>1, <1>2, <1>3 DEF Shape
<1>8. acked'[s] = job[w].alone
  BY <1>1, <1>3 DEF Shape
<1>9. <<m>>[1].sums = Sums(w) /\ <<m>> # Unreadable
  BY DEF Sums, Unreadable
<1> HIDE DEF s, m
<1>10. Saves'
  BY <1>1, <1>5, <1>6 DEF Saves
<1>11. AloneSaves'
  BY <1>1, <1>5, <1>6 DEF AloneSaves
<1>12. WrittenBeforeListed'
  BY <1>1, <1>2, <1>4, <1>7, <1>9 DEF WrittenBeforeListed, Listed
<1>13. AckedIsOver'
  <2>1. acked'[s] => \A v \in Callers \ {w} : Saver(v) => job[v].sess # s
    BY <1>1, <1>8 DEF AloneSaves, s
  <2> QED
    BY <2>1, <1>5, <1>7 DEF AckedIsOver
<1>14. AckedRestorable'
  <2> SUFFICES ASSUME NEW t \in Sessions, acked'[t]
               PROVE  /\ meta'[t] # Unreadable
                      /\ Restrict(files'[t], DOMAIN Listed(t)'.sums) = Listed(t)'.sums
    BY DEF AckedRestorable, Listed
  <2>1. CASE t # s
    BY <2>1, <1>1, <1>7 DEF AckedRestorable, Listed
  <2>2. CASE t = s
    <3>1. job[w].alone = TRUE
      BY <2>2, <1>8
    <3>2. \A p \in DOMAIN Sums(w) : files[s][p] = Sums(w)[p]
      BY <3>1, <1>1, <1>3 DEF AloneSaves, s
    <3>3. result = <<m>>
      BY <3>1, <1>2
    <3>4. [p \in DOMAIN Sums(w) |-> files[s][p]] = Sums(w)
      BY <3>2, <1>4
    <3> QED
      BY <2>2, <3>3, <3>4, <1>1, <1>7, <1>9 DEF Restrict, Listed
  <2> QED
    BY <2>1, <2>2
<1>15. Shape'
  <2>1. pc' \in [Callers -> Labels] /\ DOMAIN meta' = Sessions
    BY <1>1, <1>2 DEF Shape, Labels
  <2>2. job'[w] = NoJob
    BY <1>1 DEF Shape
  <2>3. \A v \in Callers :
           IsJob(job'[v])
    BY <2>2, <1>5 DEF Shape, NoJob, IsJob
  <2>4. DOMAIN acked' = Sessions
    BY <1>1 DEF Shape
  <2> QED
    BY <2>1, <2>3, <2>4, <1>1, <1>5 DEF Shape
<1> QED
  BY <1>10, <1>11, <1>12, <1>13, <1>14, <1>15
-----------------------------------------------------------------------------
(* A step that changes neither disk nor savers keeps the shape of the      *)
(* state: only its caller, which saves nothing before or after, moves.     *)
LEMMA OtherCallStep ==
    ASSUME IInv, NEW w \in Callers, ~Saver(w), NEW label \in {"idle", "load"}, NEW new,
           Goto(w, label, new), UNCHANGED <<meta, files, acked>>,
           IsJob(new)
    PROVE  IInv'
<1>1. /\ pc' = [pc EXCEPT ![w] = label] /\ job' = [job EXCEPT ![w] = new] /\ Shape
      /\ UNCHANGED <<meta, files, acked>>
  BY DEF Goto, IInv
<1>2. /\ pc'[w] = label /\ job'[w] = new /\ DOMAIN job' = Callers
      /\ \A v \in Callers \ {w} : pc'[v] = pc[v] /\ job'[v] = job[v]
  BY <1>1 DEF Shape
<1>3. Shape'
  <2>1. pc' \in [Callers -> Labels]
    BY <1>1 DEF Shape, Labels
  <2>2. \A v \in Callers :
           IsJob(job'[v])
    BY <1>1, <1>2 DEF Shape
  <2> QED
    BY <2>1, <2>2, <1>1, <1>2 DEF Shape
<1>4. \A v \in Callers : Saver(v)' => Saver(v) /\ pc'[v] = pc[v] /\ job'[v] = job[v]
  BY <1>2 DEF Saver
<1> QED
  BY <1>1, <1>3, <1>4, DiskUntouched

(* A step of the tables alone. *)
LEMMA MemoryStep ==
    ASSUME IInv, UNCHANGED <<disk, pc, job, acked>>
    PROVE  IInv'
<1>1. UNCHANGED <<meta, files, pc, job, acked>>
  BY DEF disk
<1>2. Shape'
  BY <1>1 DEF IInv, Shape
<1> QED
  BY <1>1, <1>2, DiskUntouched DEF Saver

(* The process ends: no call is left, and the disk is as it was. *)
LEMMA CrashStep ==
    ASSUME IInv, Crash
    PROVE  IInv'
<1>1. /\ pc' = [w \in Callers |-> "idle"] /\ job' = [w \in Callers |-> NoJob]
      /\ UNCHANGED <<meta, files, acked>>
  BY DEF Crash, disk
<1>2. Shape'
  BY <1>1 DEF IInv, Shape, Labels, NoJob, IsJob
<1> QED
  BY <1>1, <1>2, DiskUntouched DEF Saver

(* A restore reads files and writes none. *)
LEMMA RestoreSteps ==
    ASSUME IInv, NEW w \in Callers,
           \/ \E s \in Sessions : Restore(w, s)
           \/ LoadPayload(w)
           \/ RestoreCorrupt(w)
           \/ RestoreEnd(w)
    PROVE  IInv'
<1>1. IsJob(NoJob)
  BY DEF NoJob, IsJob
<1>2. IsJob(job[w])
  BY DEF IInv, Shape
<1>3. CASE \E s \in Sessions : Restore(w, s)
  <2>1. PICK s \in Sessions : Restore(w, s)
    BY <1>3
  <2> DEFINE new == [NoJob EXCEPT !.sess = s, !.meta = Listed(s),
                                  !.todo = DOMAIN Listed(s).sums]
  <2>2. ~Saver(w) /\ UNCHANGED <<meta, files, acked>> /\ Goto(w, "load", new)
    BY <2>1 DEF Restore, Saver, disk
  <2>3. IsJob(new)
    BY DEF NoJob, IsJob
  <2> HIDE DEF new
  <2> QED
    BY <2>2, <2>3, OtherCallStep
<1>4. CASE LoadPayload(w)
  <2>1. ~Saver(w) /\ UNCHANGED <<meta, files, acked>>
    BY <1>4 DEF LoadPayload, Saver, disk
  <2>2. PICK p \in job[w].todo :
           IF p \in DOMAIN files[job[w].sess]
           THEN Goto(w, "load", [job[w] EXCEPT !.todo = @ \ {p},
                                   !.got = Put(@, p, files[job[w].sess][p])])
           ELSE Done(w)
    BY <1>4 DEF LoadPayload
  <2> DEFINE new == [job[w] EXCEPT !.todo = @ \ {p},
                       !.got = Put(@, p, files[job[w].sess][p])]
  <2>3. IsJob(new)
    BY <1>2 DEF IsJob
  <2>4. Goto(w, "load", new) \/ Goto(w, "idle", NoJob)
    BY <2>2 DEF Done
  <2> HIDE DEF new
  <2> QED
    BY <2>1, <2>3, <2>4, <1>1, OtherCallStep
<1>5. CASE RestoreCorrupt(w) \/ RestoreEnd(w)
  <2>1. ~Saver(w) /\ UNCHANGED <<meta, files, acked>> /\ Goto(w, "idle", NoJob)
    BY <1>5 DEF RestoreCorrupt, RestoreEnd, Done, Saver, disk
  <2> QED
    BY <2>1, <1>1, OtherCallStep
<1> QED
  BY <1>3, <1>4, <1>5

(* Every step keeps the invariant. *)
LEMMA NextIInv == IInv /\ [Next]_vars => IInv'
<1> SUFFICES ASSUME IInv, [Next]_vars PROVE IInv'
  OBVIOUS
<1>1. CASE \E s \in Sessions : Release(s) \/ \E c \in Contents : Allocate(s, c)
  BY <1>1, MemoryStep DEF Release, Allocate
<1>2. CASE \E w \in Callers : \E s \in Sessions : Checkpoint(w, s) \/ Restore(w, s)
  BY <1>2, CheckpointStep, RestoreSteps
<1>3. CASE \E w \in Callers :
              OpenPayload(w) \/ WritePayload(w) \/ OpenMeta(w) \/ WriteMeta(w)
  BY <1>3, OpenPayloadStep, WritePayloadStep, OpenMetaStep, WriteMetaStep
<1>4. CASE \E w \in Callers : LoadPayload(w) \/ RestoreCorrupt(w) \/ RestoreEnd(w)
  BY <1>4, RestoreSteps
<1>5. CASE Crash
  BY <1>5, CrashStep
<1>6. CASE UNCHANGED vars
  BY <1>6, MemoryStep DEF vars, disk
<1> QED
  BY <1>1, <1>2, <1>3, <1>4, <1>5, <1>6 DEF Next

(* The invariant holds always. *)
LEMMA Invariant == Spec => []IInv
<1> QED
  BY InitIInv, NextIInv, PTL DEF Spec

(* meta.json never lists a payload whose file was not begun: a crash       *)
(* between two files of a checkpoint makes no restore miss one             *)
(* (CheckpointEngine.checkpoint saves the payloads before save_meta).      *)
THEOREM PayloadsFirst == Spec => []WrittenBeforeListed
<1>1. IInv => WrittenBeforeListed
  BY DEF IInv
<1> QED
  BY <1>1, Invariant, PTL

(* Once a checkpoint has returned ok, and until the next one of its        *)
(* session begins, its files are whole on disk, whatever crashes and       *)
(* overlapping checkpoints there were (CheckpointEngine.checkpoint).       *)
THEOREM AckedSafe == Spec => []AckedRestorable
<1>1. IInv => AckedRestorable
  BY DEF IInv
<1> QED
  BY <1>1, Invariant, PTL
-----------------------------------------------------------------------------
(* Induction over the naturals, from the well-foundedness of their order. *)
Less == {ss \in Nat \X Nat : ss[1] < ss[2]}

LEMMA LessWF == IsWellFoundedOn(Less, Nat)
<1>1. Less = OpToRel(<, Nat)
  BY DEF Less, OpToRel
<1> QED
  BY <1>1, NatLessThanWellFounded

LEMMA Induct ==
    ASSUME NEW S, 0 \in S, \A n \in Nat : n \in S => n + 1 \in S
    PROVE  Nat \subseteq S
<1> DEFINE T == Nat \ S
<1> SUFFICES ASSUME T # {} PROVE FALSE
  OBVIOUS
<1>1. PICK n \in T : \A k \in T : <<k, n>> \notin Less
  <2>1. T \subseteq Nat
    OBVIOUS
  <2> HIDE DEF T
  <2> QED
    BY <2>1, LessWF, WFMin
<1>2. n - 1 \in Nat /\ <<n - 1, n>> \in Less
  BY DEF Less
<1>3. n - 1 \in S
  BY <1>1, <1>2
<1> QED
  BY <1>2, <1>3

\* m[i] is table t after the first i of the records.
MergedUpTo(m, t, rows, n) ==
    /\ DOMAIN m = 0..n /\ m[0] = t
    /\ \A i \in 1..n : m[i] = Merge(m[i - 1], rows[i])

(* The function that Rebuild defines by recursion exists. *)
LEMMA MergedExists ==
    ASSUME NEW t, NEW rows, NEW n \in Nat
    PROVE  \E m : MergedUpTo(m, t, rows, n)
<1> DEFINE S == {k \in Nat : \E m : MergedUpTo(m, t, rows, k)}
<1>1. 0 \in S
  <2>1. MergedUpTo([i \in 0..0 |-> t], t, rows, 0)
    BY DEF MergedUpTo
  <2> QED
    BY <2>1
<1>2. ASSUME NEW k \in Nat, k \in S PROVE k + 1 \in S
  <2>1. PICK m : MergedUpTo(m, t, rows, k)
    BY <1>2
  <2> DEFINE last == Merge(m[k], rows[k + 1])
             next == [i \in 0..(k + 1) |-> IF i = k + 1 THEN last ELSE m[i]]
  <2>2. /\ DOMAIN next = 0..(k + 1) /\ next[k + 1] = last
        /\ \A i \in 0..k : next[i] = m[i]
    <3> HIDE DEF last
    <3> QED
      OBVIOUS
  <2> HIDE DEF next
  <2>3. ASSUME NEW i \in 1..(k + 1) PROVE next[i] = Merge(next[i - 1], rows[i])
    <3>1. CASE i = k + 1
      <4>1. i - 1 = k /\ k \in 0..k
        BY <3>1
      <4> QED
        BY <2>2, <3>1, <4>1
    <3>2. CASE i # k + 1
      <4>1. i \in 1..k /\ i \in 0..k /\ i - 1 \in 0..k
        BY <3>2
      <4> QED
        BY <2>1, <2>2, <4>1 DEF MergedUpTo
    <3> QED
      BY <3>1, <3>2
  <2>4. next[0] = t
    BY <2>1, <2>2 DEF MergedUpTo
  <2>5. MergedUpTo(next, t, rows, k + 1)
    BY <2>2, <2>3, <2>4 DEF MergedUpTo
  <2> QED
    BY <2>5
<1>3. Nat \subseteq S
  <2> HIDE DEF S
  <2> QED
    BY <1>1, <1>2, Induct
<1> QED
  BY <1>3

(* What Rebuild returns, without its recursion. *)
LEMMA RebuildUnfold ==
    ASSUME NEW t, NEW rows, Len(rows) \in Nat
    PROVE  \E m : MergedUpTo(m, t, rows, Len(rows)) /\ Rebuild(t, rows) = m[Len(rows)]
<1> DEFINE n == Len(rows)
           IsMerged(m) == m = [i \in 0..n |-> IF i = 0 THEN t ELSE Merge(m[i - 1], rows[i])]
           merged == CHOOSE m : IsMerged(m)
<1>1. PICK m : MergedUpTo(m, t, rows, n)
  BY MergedExists
<1>2. IsMerged(m)
  <2>1. m = [i \in 0..n |-> m[i]]
    BY <1>1 DEF MergedUpTo
  <2>2. \A i \in 0..n : m[i] = IF i = 0 THEN t ELSE Merge(m[i - 1], rows[i])
    BY <1>1 DEF MergedUpTo
  <2> QED
    BY <2>1, <2>2
<1>3. IsMerged(merged)
  BY <1>2
<1>4. Rebuild(t, rows) = merged[n]
  BY DEF Rebuild
<1> HIDE DEF merged
<1>5. MergedUpTo(merged, t, rows, n)
  BY <1>3 DEF MergedUpTo
<1> QED
  BY <1>4, <1>5
-----------------------------------------------------------------------------
\* Table t agrees with C, the content of every block id, has every content
\* under one id, and its index names exactly the registered blocks.
Coherent(C, t) ==
    /\ DOMAIN t = {"recs", "byHash"}
    /\ Registered(t) \subseteq Blocks
    /\ \A p \in Registered(t) :
          /\ DOMAIN t.recs[p] = {"hash", "refs"}
          /\ t.recs[p].refs \in Nat \ {0} /\ t.recs[p].hash = C[p]
          /\ C[p] \in DOMAIN t.byHash /\ t.byHash[C[p]] = p
    /\ \A c \in DOMAIN t.byHash : t.byHash[c] \in Registered(t) /\ C[t.byHash[c]] = c

\* References to the block that has content c.
Count(t, c) == IF Known(t, c) THEN t.recs[t.byHash[c]].refs ELSE 0

\* u is t with some of the blocks of P registered and at least one more
\* reference to the content of each of them.
Grown(C, t, u, P) ==
    /\ Coherent(C, u)
    /\ Registered(t) \subseteq Registered(u) /\ Registered(u) \subseteq Registered(t) \cup P
    /\ \A q \in Blocks : Count(u, C[q]) >= Count(t, C[q])
    /\ \A p \in P : Count(u, C[p]) >= Count(t, C[p]) + 1

LEMMA CountType ==
    ASSUME NEW C, NEW t, Coherent(C, t), NEW c
    PROVE  Count(t, c) \in Nat
  BY DEF Coherent, Count, Known

(* One more reference to a registered block. *)
LEMMA AcquireGrows ==
    ASSUME NEW C, NEW t, Coherent(C, t), NEW p \in Registered(t)
    PROVE  Grown(C, t, Acquire(t, p), {p})
<1> DEFINE u == Acquire(t, p)
<1>1. /\ DOMAIN u = {"recs", "byHash"} /\ u.byHash = t.byHash
      /\ DOMAIN u.recs = DOMAIN t.recs
      /\ \A q \in DOMAIN t.recs : q # p => u.recs[q] = t.recs[q]
      /\ u.recs[p] = [t.recs[p] EXCEPT !.refs = @ + 1]
  BY DEF Acquire, Coherent, Registered
<1>2. /\ DOMAIN u.recs[p] = {"hash", "refs"} /\ u.recs[p].hash = t.recs[p].hash
      /\ u.recs[p].refs = t.recs[p].refs + 1
  BY <1>1 DEF Coherent
<1> HIDE DEF u
<1>3. Coherent(C, u)
  BY <1>1, <1>2 DEF Coherent, Registered
<1>4. \A c : Known(u, c) <=> Known(t, c)
  BY <1>1 DEF Known, Registered
<1>5. \A c : Count(u, c) = Count(t, c) + (IF Known(t, c) /\ t.byHash[c] = p THEN 1 ELSE 0)
  BY <1>1, <1>2, <1>4 DEF Count, Known, Coherent, Registered
<1>6. Known(t, C[p]) /\ t.byHash[C[p]] = p
  BY DEF Coherent, Known
<1>7. \A c : Count(t, c) \in Nat
  BY CountType
<1>8. Count(u, C[p]) >= Count(t, C[p]) + 1
  BY <1>5, <1>6, <1>7
<1>9. \A q \in Blocks : Count(u, C[q]) >= Count(t, C[q])
  BY <1>5, <1>7
<1>10. Registered(u) = Registered(t)
  BY <1>1 DEF Registered
<1> QED
  BY <1>3, <1>8, <1>9, <1>10 DEF Grown, u

(* A content that is not in the table gets a record of its own. *)
LEMMA InsertGrows ==
    ASSUME NEW C, NEW t, Coherent(C, t), NEW p \in Blocks, p \notin Registered(t),
           NEW n \in Nat \ {0}, ~Known(t, C[p])
    PROVE  Grown(C, t, Insert(t, p, C[p], n), {p})
<1> DEFINE u == Insert(t, p, C[p], n)
<1>1. /\ DOMAIN u = {"recs", "byHash"}
      /\ u.recs = Put(t.recs, p, [hash |-> C[p], refs |-> n])
      /\ u.byHash = Put(t.byHash, C[p], p)
  BY DEF Insert
<1>2. /\ DOMAIN u.recs = DOMAIN t.recs \cup {p} /\ u.recs[p] = [hash |-> C[p], refs |-> n]
      /\ \A q \in DOMAIN t.recs : q # p => u.recs[q] = t.recs[q]
      /\ DOMAIN u.byHash = DOMAIN t.byHash \cup {C[p]} /\ u.byHash[C[p]] = p
      /\ \A c \in DOMAIN t.byHash : c # C[p] => u.byHash[c] = t.byHash[c]
  BY <1>1 DEF Put
<1> HIDE DEF u
<1>3. C[p] \notin DOMAIN t.byHash
  BY DEF Coherent, Known
<1>a. /\ DOMAIN u.recs[p] = {"hash", "refs"}
      /\ u.recs[p].hash = C[p] /\ u.recs[p].refs = n
  BY <1>2
<1>5. Registered(u) = Registered(t) \cup {p}
  BY <1>2 DEF Registered
<1>4. Coherent(C, u)
  <2>1. \A q \in Registered(t) : q # p /\ u.recs[q] = t.recs[q] /\ C[q] # C[p]
    BY <1>2, <1>3 DEF Coherent, Registered
  <2>2. ASSUME NEW q \in Registered(u)
        PROVE  /\ DOMAIN u.recs[q] = {"hash", "refs"}
               /\ u.recs[q].refs \in Nat \ {0} /\ u.recs[q].hash = C[q]
               /\ C[q] \in DOMAIN u.byHash /\ u.byHash[C[q]] = q
    <3>1. CASE q = p
      BY <3>1, <1>2, <1>a
    <3>2. CASE q # p
      BY <3>2, <2>1, <1>2, <1>5 DEF Coherent
    <3> QED
      BY <3>1, <3>2
  <2>3. \A c \in DOMAIN u.byHash : u.byHash[c] \in Registered(u) /\ C[u.byHash[c]] = c
    BY <1>2, <1>5 DEF Coherent
  <2>4. Registered(u) \subseteq Blocks
    BY <1>5 DEF Coherent
  <2> QED
    BY <1>1, <2>2, <2>3, <2>4 DEF Coherent
<1>6. \A c : c # C[p] => Known(u, c) = Known(t, c)
  BY <1>2, <1>3, <1>5 DEF Known, Coherent
<1>7. \A c : c # C[p] => Count(u, c) = Count(t, c)
  BY <1>2, <1>5, <1>6 DEF Count, Known, Registered
<1>8. Count(t, C[p]) = 0 /\ Count(u, C[p]) = n
  BY <1>2, <1>5 DEF Count, Known
<1>9. \A c : Count(t, c) \in Nat
  BY CountType
<1> QED
  BY <1>4, <1>5, <1>7, <1>8, <1>9 DEF Grown, u

LEMMA RegisterGrows ==
    ASSUME NEW C, NEW t, Coherent(C, t), NEW p \in Blocks, p \notin Registered(t),
           NEW n \in Nat \ {0}
    PROVE  Grown(C, t, Register(t, p, C[p], n), {p})
<1>1. CASE Known(t, C[p])
  <2> DEFINE q == t.byHash[C[p]]
  <2>1. q \in Registered(t) /\ C[q] = C[p]
    BY <1>1 DEF Known, Coherent
  <2>2. Grown(C, t, Acquire(t, q), {q})
    BY <2>1, AcquireGrows
  <2> HIDE DEF q
  <2>3. Grown(C, t, Acquire(t, q), {p})
    <3>1. Registered(Acquire(t, q)) = Registered(t)
      BY <2>1, <2>2 DEF Grown
    <3> QED
      BY <2>1, <2>2, <3>1 DEF Grown
  <2> QED
    BY <1>1, <2>3 DEF Register, q
<1>2. CASE ~Known(t, C[p])
  BY <1>2, InsertGrows DEF Register
<1> QED
  BY <1>1, <1>2

LEMMA MergeGrows ==
    ASSUME NEW C, NEW t, Coherent(C, t), NEW row, row.pid \in Blocks,
           row.hash = C[row.pid], row.refs \in Nat \ {0}
    PROVE  Grown(C, t, Merge(t, row), {row.pid})
  BY AcquireGrows, RegisterGrows DEF Merge

LEMMA GrownTrans ==
    ASSUME NEW C, NEW t, NEW u, NEW v, NEW P \in SUBSET Blocks, NEW Q \in SUBSET Blocks,
           Coherent(C, t), Grown(C, t, u, P), Grown(C, u, v, Q)
    PROVE  Grown(C, t, v, P \cup Q)
<1>1. \A c : Count(t, c) \in Nat /\ Count(u, c) \in Nat /\ Count(v, c) \in Nat
  BY CountType DEF Grown
<1> QED
  BY <1>1 DEF Grown

\* The records of a checkpoint are of blocks with the contents of C.
GoodRows(C, rows) ==
    /\ Len(rows) \in Nat
    /\ \A i \in 1..Len(rows) :
          rows[i].pid \in Blocks /\ rows[i].hash = C[rows[i].pid] /\ rows[i].refs \in Nat \ {0}
Pids(rows) == {rows[i].pid : i \in 1..Len(rows)}

(* Rebuilding from the records of a checkpoint keeps the table coherent    *)
(* and counts a reference to the content of each of them.                  *)
LEMMA RebuildGrows ==
    ASSUME NEW C, NEW t, Coherent(C, t), NEW rows, GoodRows(C, rows)
    PROVE  Grown(C, t, Rebuild(t, rows), Pids(rows))
<1>1. PICK m : MergedUpTo(m, t, rows, Len(rows)) /\ Rebuild(t, rows) = m[Len(rows)]
  BY RebuildUnfold DEF GoodRows
<1> DEFINE upTo(k) == {rows[i].pid : i \in 1..k}
           S == {k \in Nat : k <= Len(rows) => Grown(C, t, m[k], upTo(k))}
<1>2. 0 \in S
  <2>1. \A c : Count(t, c) \in Nat
    BY CountType
  <2>2. m[0] = t
    BY <1>1 DEF MergedUpTo
  <2>3. Grown(C, t, t, {})
    BY <2>1 DEF Grown
  <2>4. upTo(0) = {}
    OBVIOUS
  <2> QED
    BY <2>2, <2>3, <2>4
<1>3. ASSUME NEW k \in Nat, k \in S PROVE k + 1 \in S
  <2> SUFFICES ASSUME k + 1 <= Len(rows) PROVE Grown(C, t, m[k + 1], upTo(k + 1))
    OBVIOUS
  <2> DEFINE row == rows[k + 1]
  <2>1. k + 1 \in 1..Len(rows) /\ k <= Len(rows) /\ (k + 1) - 1 = k
    BY DEF GoodRows
  <2>2. Grown(C, t, m[k], upTo(k))
    BY <1>3, <2>1
  <2>3. m[k + 1] = Merge(m[k], row)
    BY <1>1, <2>1 DEF MergedUpTo
  <2>4. row.pid \in Blocks /\ row.hash = C[row.pid] /\ row.refs \in Nat \ {0}
    BY <2>1 DEF GoodRows
  <2>5. upTo(k) \subseteq Blocks
    BY <2>1 DEF GoodRows
  <2>6. upTo(k + 1) = upTo(k) \cup {row.pid}
    OBVIOUS
  <2> HIDE DEF upTo, row
  <2>7. Grown(C, m[k], m[k + 1], {row.pid})
    BY <2>2, <2>3, <2>4, MergeGrows DEF Grown
  <2>8. {row.pid} \subseteq Blocks
    BY <2>4
  <2> QED
    BY <2>2, <2>5, <2>6, <2>7, <2>8, GrownTrans
<1>4. Nat \subseteq S
  <2> HIDE DEF S
  <2> QED
    BY <1>2, <1>3, Induct
<1>5. Len(rows) \in S /\ Pids(rows) = upTo(Len(rows))
  BY <1>4 DEF GoodRows, Pids
<1> QED
  BY <1>1, <1>5 DEF GoodRows
-----------------------------------------------------------------------------
\* The live sessions that map a block with content c.
Holders(C, c) == {s \in DOMAIN sess : \E p \in Range(sess[s]) : C[p] = c}

\* The tables in memory, C being the content of every block id: a content
\* has at least as many references as live sessions hold it, under this id
\* of it or another.
Memory(C) ==
    /\ Coherent(C, table)
    /\ Registered(table) \subseteq DOMAIN ram
    /\ \A p \in DOMAIN ram : p \in Blocks /\ ram[p] = C[p]
    /\ IsFiniteSet(DOMAIN sess)
    /\ \A s \in DOMAIN sess : sess[s] \in Seq(Blocks)
    /\ \A q \in Blocks : Cardinality(Holders(C, C[q])) <= Count(table, C[q])

\* A meta.json describes each of its blocks.
GoodMeta(C, m) ==
    /\ m.blocks \in Seq(Blocks)
    /\ GoodRows(C, m.rows) /\ Pids(m.rows) = Range(m.blocks)
    /\ DOMAIN m.sums = Range(m.blocks) /\ \A p \in DOMAIN m.sums : m.sums[p] = C[p]

Metas(C) ==
    /\ \A s \in Sessions : meta[s] # Unreadable => GoodMeta(C, Listed(s))
    /\ \A w \in Callers : pc[w] # "idle" => GoodMeta(C, job[w].meta)

\* Every block id has one content, on disk and in memory.
ContentOf == [Blocks -> Contents \cup {None}]
Ledger == \E C \in ContentOf : Memory(C) /\ Metas(C)

LEMMA HoldersFinite ==
    ASSUME NEW C, Memory(C), NEW c
    PROVE  IsFiniteSet(Holders(C, c)) /\ Cardinality(Holders(C, c)) \in Nat
<1>1. Holders(C, c) \subseteq DOMAIN sess
  BY DEF Holders
<1> QED
  BY <1>1, FS_Subset, FS_CardinalityType DEF Memory

LEMMA BlocksOfSeq ==
    ASSUME NEW b \in Seq(Blocks)
    PROVE  /\ Range(b) \subseteq Blocks /\ DOMAIN b = 1..Len(b) /\ Len(b) \in Nat
           /\ \A i \in DOMAIN b : b[i] \in Range(b)
<1>1. b \in [1..Len(b) -> Blocks] /\ Len(b) \in Nat
  BY LenProperties
<1>2. Range(b) \subseteq Blocks
  BY <1>1 DEF Range
<1>3. \A i \in DOMAIN b : b[i] \in Range(b)
  BY DEF Range
<1> QED
  BY <1>1, <1>2, <1>3

LEMMA RangeAppend ==
    ASSUME NEW b \in Seq(Blocks), NEW p
    PROVE  Range(Append(b, p)) \subseteq Range(b) \cup {p}
  BY DEF Range

(* A session maps blocks whose contents were just counted once more. *)
LEMMA SessionGrows ==
    ASSUME NEW C, Memory(C), NEW s, NEW b \in Seq(Blocks), NEW P \in SUBSET Blocks,
           Grown(C, table, table', P), sess' = Put(sess, s, b),
           Range(b) \subseteq P \cup Range(BlocksOf(s)),
           Registered(table)' \subseteq DOMAIN ram',
           \A p \in DOMAIN ram' : p \in Blocks /\ ram'[p] = C[p]
    PROVE  Memory(C)'
<1>1. /\ DOMAIN sess' = DOMAIN sess \cup {s} /\ sess'[s] = b
      /\ \A u \in DOMAIN sess : u # s => sess'[u] = sess[u]
  BY DEF Put
<1>2. IsFiniteSet(DOMAIN sess') /\ \A u \in DOMAIN sess' : sess'[u] \in Seq(Blocks)
  BY <1>1, FS_AddElement DEF Memory
<1>3. ASSUME NEW q \in Blocks
      PROVE  Cardinality(Holders(C, C[q])') <= Count(table', C[q])
  <2> DEFINE old == Holders(C, C[q])
             new == Holders(C, C[q])'
  <2>1. /\ IsFiniteSet(old) /\ Cardinality(old) \in Nat
        /\ Cardinality(old) <= Count(table, C[q])
    BY HoldersFinite DEF Memory
  <2>2. Count(table, C[q]) \in Nat /\ Count(table', C[q]) \in Nat
    BY CountType DEF Memory, Grown
  <2>3. new \subseteq old \cup {s}
    BY <1>1 DEF Holders
  <2>4. CASE \E p \in P : C[p] = C[q]
    <3>1. Count(table', C[q]) >= Count(table, C[q]) + 1
      BY <2>4 DEF Grown
    <3> HIDE DEF old, new
    <3>a. /\ IsFiniteSet(old \cup {s})
          /\ Cardinality(old \cup {s}) =
                IF s \in old THEN Cardinality(old) ELSE Cardinality(old) + 1
      BY <2>1, FS_AddElement
    <3>2. /\ IsFiniteSet(old \cup {s}) /\ Cardinality(old \cup {s}) \in Nat
          /\ Cardinality(old \cup {s}) <= Cardinality(old) + 1
      BY <2>1, <3>a
    <3>3. Cardinality(new) <= Cardinality(old \cup {s}) /\ Cardinality(new) \in Nat
      BY <2>3, <3>2, FS_Subset, FS_CardinalityType
    <3> QED
      BY <2>1, <2>2, <3>1, <3>2, <3>3 DEF new
  <2>5. CASE ~ \E p \in P : C[p] = C[q]
    <3>1. Count(table', C[q]) >= Count(table, C[q])
      BY DEF Grown
    <3>2. s \in new => s \in old
      <4> SUFFICES ASSUME s \in new PROVE s \in old
        OBVIOUS
      <4>1. PICK p \in Range(b) : C[p] = C[q]
        BY <1>1 DEF Holders
      <4>2. p \in Range(BlocksOf(s))
        BY <2>5, <4>1
      <4>3. s \in DOMAIN sess
        BY <4>2 DEF BlocksOf, Range
      <4> QED
        BY <4>1, <4>2, <4>3 DEF Holders, BlocksOf
    <3> HIDE DEF old, new
    <3>3. Cardinality(new) <= Cardinality(old) /\ Cardinality(new) \in Nat
      BY <2>1, <2>3, <3>2, FS_Subset, FS_CardinalityType
    <3> QED
      BY <2>1, <2>2, <3>1, <3>3 DEF new
  <2> QED
    BY <2>4, <2>5
<1>4. Coherent(C, table')
  BY DEF Grown
<1> QED
  BY <1>2, <1>3, <1>4 DEF Memory

(* What is in a file or in the snapshot of a call is used. *)
LEMMA UsedIn ==
    /\ \A s \in Sessions : DOMAIN files[s] \subseteq Used
    /\ \A w \in Callers : pc[w] # "idle" => DOMAIN job[w].meta.sums \subseteq Used
<1>1. ASSUME NEW s \in Sessions, NEW p \in DOMAIN files[s] PROVE p \in Used
  BY DEF Used
<1>2. ASSUME NEW w \in Callers, pc[w] # "idle", NEW p \in DOMAIN job[w].meta.sums
      PROVE  p \in Used
  BY <1>2 DEF Used
<1> QED
  BY <1>1, <1>2

(* An id that nothing knows may be given any content. *)
LEMMA FreshContent ==
    ASSUME IInv, NEW C \in ContentOf, Memory(C), Metas(C),
           NEW D \in ContentOf, \A p \in Used \cap Blocks : D[p] = C[p]
    PROVE  Memory(D) /\ Metas(D)
<1>1. \A p \in Registered(table) : p \in Used \cap Blocks
  BY DEF Used, Memory, Coherent
<1>2. \A p \in DOMAIN ram : p \in Used \cap Blocks
  BY DEF Used, Memory
<1>3. \A s \in DOMAIN sess : \A p \in Range(sess[s]) : p \in Used \cap Blocks
  <2> SUFFICES ASSUME NEW s \in DOMAIN sess, NEW p \in Range(sess[s])
               PROVE  p \in Used \cap Blocks
    OBVIOUS
  <2>1. p \in Used
    BY DEF Used
  <2>2. sess[s] \in Seq(Blocks)
    BY DEF Memory
  <2> QED
    BY <2>1, <2>2, BlocksOfSeq
<1>4. Coherent(D, table)
  <2>1. \A p \in Registered(table) : D[p] = C[p]
    BY <1>1
  <2> DEFINE t == table
  <2>2. Coherent(C, t)
    BY DEF Memory
  <2>3. ASSUME NEW p \in Registered(t)
        PROVE  /\ DOMAIN t.recs[p] = {"hash", "refs"}
               /\ t.recs[p].refs \in Nat \ {0} /\ t.recs[p].hash = D[p]
               /\ D[p] \in DOMAIN t.byHash /\ t.byHash[D[p]] = p
    BY <2>1, <2>2 DEF Coherent
  <2>4. ASSUME NEW c \in DOMAIN t.byHash
        PROVE  t.byHash[c] \in Registered(t) /\ D[t.byHash[c]] = c
    BY <2>1, <2>2 DEF Coherent
  <2> HIDE DEF t
  <2>5. DOMAIN t = {"recs", "byHash"} /\ Registered(t) \subseteq Blocks
    BY <2>2 DEF Coherent
  <2> QED
    BY <2>3, <2>4, <2>5 DEF Coherent, t
<1>5. ASSUME NEW q \in Blocks
      PROVE  Cardinality(Holders(D, D[q])) <= Count(table, D[q])
  <2>1. CASE \E s \in DOMAIN sess : \E p \in Range(sess[s]) : D[p] = D[q]
    <3> PICK s \in DOMAIN sess : \E p \in Range(sess[s]) : D[p] = D[q]
      BY <2>1
    <3>1. PICK p \in Range(sess[s]) : D[p] = D[q]
      OBVIOUS
    <3>2. D[q] = C[p] /\ p \in Blocks
      BY <1>3, <3>1
    <3>3. Holders(D, C[p]) = Holders(C, C[p])
      BY <1>3 DEF Holders
    <3> QED
      BY <3>2, <3>3 DEF Memory
  <2>2. CASE ~ \E s \in DOMAIN sess : \E p \in Range(sess[s]) : D[p] = D[q]
    <3>1. Holders(D, D[q]) = {}
      BY <2>2 DEF Holders
    <3>2. Count(table, D[q]) \in Nat
      BY <1>4, CountType
    <3> QED
      BY <3>1, <3>2, FS_EmptySet
  <2> QED
    BY <2>1, <2>2
<1>6. Memory(D)
  BY <1>2, <1>4, <1>5 DEF Memory
<1>7. ASSUME NEW m, GoodMeta(C, m), DOMAIN m.sums \subseteq Used PROVE GoodMeta(D, m)
  <2>1. \A p \in DOMAIN m.sums : p \in Used \cap Blocks
    BY <1>7 DEF GoodMeta, Range
  <2>2. \A i \in 1..Len(m.rows) : m.rows[i].pid \in DOMAIN m.sums
    BY <1>7 DEF GoodMeta, Pids
  <2>3. GoodRows(D, m.rows)
    BY <1>7, <2>1, <2>2 DEF GoodMeta, GoodRows
  <2> QED
    BY <1>7, <2>1, <2>3 DEF GoodMeta
<1>8. ASSUME NEW s \in Sessions, meta[s] # Unreadable PROVE GoodMeta(D, Listed(s))
  <2>1. DOMAIN Listed(s).sums \subseteq Used
    BY <1>8, UsedIn DEF IInv, WrittenBeforeListed
  <2> QED
    BY <1>7, <1>8, <2>1 DEF Metas
<1>9. ASSUME NEW w \in Callers, pc[w] # "idle" PROVE GoodMeta(D, job[w].meta)
  <2>1. DOMAIN job[w].meta.sums \subseteq Used
    BY <1>9, UsedIn
  <2> QED
    BY <1>7, <1>9, <2>1 DEF Metas
<1> QED
  BY <1>6, <1>8, <1>9 DEF Metas
-----------------------------------------------------------------------------
(* An empty table. *)
LEMMA BootCoherent ==
    ASSUME NEW C
    PROVE  Coherent(C, Boot) /\ Registered(Boot) = {} /\ \A c : Count(Boot, c) = 0
<1>1. /\ DOMAIN Boot = {"recs", "byHash"}
      /\ DOMAIN Boot.recs = {} /\ DOMAIN Boot.byHash = {}
  BY DEF Boot, Empty
<1> QED
  BY <1>1 DEF Coherent, Registered, Count, Known

(* No table, no file and no call yet: ids may have any content. *)
LEMMA InitLedger == Init => Ledger
<1> SUFFICES ASSUME Init PROVE Ledger
  OBVIOUS
<1> DEFINE C == [p \in Blocks |-> None]
<1>1. C \in ContentOf
  BY DEF ContentOf
<1>2. Memory(C)
  <2>1. DOMAIN sess = {} /\ DOMAIN ram = {} /\ table = Boot
    BY DEF Init, Empty
  <2>2. \A c : Holders(C, c) = {}
    BY <2>1 DEF Holders
  <2> QED
    BY <2>1, <2>2, BootCoherent, FS_EmptySet DEF Memory
<1>3. Metas(C)
  BY DEF Init, Metas
<1> QED
  BY <1>1, <1>2, <1>3 DEF Ledger

(* A block is allocated: it has the content if it is registered, and       *)
(* gets it if it is new.                                                   *)
LEMMA AllocateLedger ==
    ASSUME IInv, NEW s \in Sessions, NEW c \in Contents, Allocate(s, c), Ledger
    PROVE  Ledger'
<1>1. PICK C \in ContentOf : Memory(C) /\ Metas(C)
  BY DEF Ledger
<1>2. PICK p \in IF Known(table, c) THEN {table.byHash[c]} ELSE Blocks \ Used :
         /\ table' = Register(table, p, c, 1)
         /\ ram' = IF Known(table, c) THEN ram ELSE Put(ram, p, c)
         /\ sess' = Put(sess, s, Append(BlocksOf(s), p))
  BY DEF Allocate
<1>3. UNCHANGED <<meta, files, pc, job, acked>>
  BY DEF Allocate, disk
<1>4. Coherent(C, table) /\ Registered(table) \subseteq Used
  BY <1>1 DEF Memory, Used
<1>5. PICK D \in ContentOf : p \in Blocks /\ D[p] = c /\ \A q \in Used \cap Blocks : D[q] = C[q]
  <2>1. CASE Known(table, c)
    BY <2>1, <1>2, <1>4 DEF Known, Coherent
  <2>2. CASE ~Known(table, c)
    <3> DEFINE new == [C EXCEPT ![p] = c]
    <3>1. p \in Blocks \ Used
      BY <2>2, <1>2
    <3>2. new \in ContentOf /\ new[p] = c /\ \A q \in Used \cap Blocks : new[q] = C[q]
      BY <3>1 DEF ContentOf
    <3> QED
      BY <3>1, <3>2
  <2> QED
    BY <2>1, <2>2
<1>6. Memory(D) /\ Metas(D)
  BY <1>1, <1>5, FreshContent
<1>7. Grown(D, table, table', {p})
  <2>0. Coherent(D, table)
    BY <1>6 DEF Memory
  <2>1. CASE Known(table, c)
    <3>1. p = table.byHash[c] /\ p \in Registered(table) /\ table' = Acquire(table, p)
      BY <2>1, <1>2 DEF Known, Register
    <3> QED
      BY <2>0, <3>1, AcquireGrows
  <2>2. CASE ~Known(table, c)
    <3>1. p \notin Registered(table) /\ table' = Register(table, p, D[p], 1)
      BY <2>2, <1>2, <1>4, <1>5
    <3>2. 1 \in Nat \ {0}
      OBVIOUS
    <3> QED
      BY <2>0, <3>1, <3>2, <1>5, RegisterGrows
  <2> QED
    BY <2>1, <2>2
<1>8. BlocksOf(s) \in Seq(Blocks)
  BY <1>6 DEF BlocksOf, Memory
<1>9. /\ Append(BlocksOf(s), p) \in Seq(Blocks)
      /\ Range(Append(BlocksOf(s), p)) \subseteq {p} \cup Range(BlocksOf(s))
  <2> DEFINE b == BlocksOf(s)
  <2> HIDE DEF b
  <2>1. b \in Seq(Blocks)
    BY <1>8 DEF b
  <2>2. Append(b, p) \in Seq(Blocks) /\ Range(Append(b, p)) \subseteq Range(b) \cup {p}
    BY <2>1, <1>5, RangeAppend
  <2> QED
    BY <2>2 DEF b
<1>10. /\ Registered(table') \subseteq DOMAIN ram'
       /\ \A q \in DOMAIN ram' : q \in Blocks /\ ram'[q] = D[q]
  <2>1. Registered(table') \subseteq Registered(table) \cup {p}
    BY <1>7 DEF Grown
  <2>2. CASE Known(table, c)
    <3>1. p \in Registered(table) /\ ram' = ram
      BY <2>2, <1>2 DEF Known
    <3> QED
      BY <2>1, <3>1, <1>6 DEF Memory
  <2>3. CASE ~Known(table, c)
    <3>1. DOMAIN ram' = DOMAIN ram \cup {p} /\ ram'[p] = c
          /\ \A q \in DOMAIN ram : q # p => ram'[q] = ram[q]
      BY <2>3, <1>2 DEF Put
    <3> QED
      BY <2>1, <3>1, <1>5, <1>6 DEF Memory
  <2> QED
    BY <2>2, <2>3
<1>11. Memory(D)'
  <2> DEFINE b == Append(BlocksOf(s), p)
  <2>1. b \in Seq(Blocks) /\ Range(b) \subseteq {p} \cup Range(BlocksOf(s)) /\ sess' = Put(sess, s, b)
    BY <1>2, <1>9
  <2> HIDE DEF b
  <2>2. {p} \subseteq Blocks
    BY <1>5
  <2>3. Registered(table)' \subseteq DOMAIN ram'
    BY <1>10 DEF Registered
  <2> QED
    BY <2>1, <2>2, <2>3, <1>6, <1>7, <1>10, SessionGrows
<1>12. Metas(D)'
  BY <1>3, <1>6 DEF Metas, Listed
<1> QED
  BY <1>5, <1>11, <1>12 DEF Ledger

(* A session is released: a content it holds has one holder less, and at   *)
(* most one reference less.                                                *)
LEMMA ReleaseMemory ==
    ASSUME NEW s \in Sessions, Release(s), NEW C, Memory(C)
    PROVE  Memory(C)'
<1> DEFINE mine == Range(sess[s])
           last == {p \in mine : Refs(p) <= 1}
           gone == last \cap Registered(table)
           freed == {table.recs[p].hash : p \in gone}
<1>1. /\ s \in DOMAIN sess /\ sess' = Without(sess, {s}) /\ ram' = Without(ram, last)
      /\ table' = [recs |-> [p \in Registered(table) \ last |->
                               [table.recs[p] EXCEPT !.refs = IF p \in mine THEN @ - 1 ELSE @]],
                   byHash |-> Without(table.byHash, freed)]
  BY DEF Release
<1>2. Coherent(C, table) /\ \A p \in Registered(table) : Refs(p) = table.recs[p].refs
  BY DEF Memory, Refs
<1>3. /\ DOMAIN table' = {"recs", "byHash"}
      /\ Registered(table') = Registered(table) \ last
      /\ \A p \in Registered(table') :
            table'.recs[p] = [table.recs[p] EXCEPT !.refs = IF p \in mine THEN @ - 1 ELSE @]
      /\ DOMAIN table'.byHash = DOMAIN table.byHash \ freed
      /\ \A c \in DOMAIN table'.byHash : table'.byHash[c] = table.byHash[c]
  <2> HIDE DEF mine, last, gone, freed
  <2>1. /\ DOMAIN table' = {"recs", "byHash"}
        /\ table'.recs = [p \in Registered(table) \ last |->
                            [table.recs[p] EXCEPT !.refs = IF p \in mine THEN @ - 1 ELSE @]]
        /\ table'.byHash = Without(table.byHash, freed)
    BY <1>1
  <2>2. /\ DOMAIN table'.byHash = DOMAIN table.byHash \ freed
        /\ \A c \in DOMAIN table'.byHash : table'.byHash[c] = table.byHash[c]
    BY <2>1 DEF Without, Restrict
  <2> QED
    BY <2>1, <2>2 DEF Registered
<1>4. freed = {C[p] : p \in gone}
  <2>1. \A p \in gone : table.recs[p].hash = C[p]
    BY <1>2 DEF Coherent
  <2> HIDE DEF gone
  <2> QED
    BY <2>1
<1>5. last \subseteq mine
  <2> HIDE DEF mine
  <2> QED
    BY Zenon
<1>6. \A p \in Registered(table) : p \in last <=> p \in mine /\ table.recs[p].refs <= 1
  BY <1>2
<1> HIDE DEF mine, last, freed
<1>7. \A p \in Registered(table') :
         /\ DOMAIN table'.recs[p] = {"hash", "refs"} /\ table'.recs[p].hash = C[p]
         /\ table'.recs[p].refs = table.recs[p].refs - (IF p \in mine THEN 1 ELSE 0)
         /\ table'.recs[p].refs \in Nat \ {0}
  <2> SUFFICES ASSUME NEW p \in Registered(table) \ last
               PROVE  /\ DOMAIN table'.recs[p] = {"hash", "refs"} /\ table'.recs[p].hash = C[p]
                      /\ table'.recs[p].refs = table.recs[p].refs - (IF p \in mine THEN 1 ELSE 0)
                      /\ table'.recs[p].refs \in Nat \ {0}
    BY <1>3
  <2> DEFINE r == table.recs[p]
  <2>1. /\ DOMAIN r = {"hash", "refs"} /\ r.hash = C[p] /\ r.refs \in Nat \ {0}
        /\ p \in mine => r.refs > 1
    BY <1>2, <1>6 DEF Coherent
  <2>2. table'.recs[p] = [r EXCEPT !.refs = IF p \in mine THEN @ - 1 ELSE @]
    BY <1>3
  <2> HIDE DEF r
  <2>3. table'.recs[p].refs = IF p \in mine THEN r.refs - 1 ELSE r.refs
    BY <2>1, <2>2
  <2>4. DOMAIN table'.recs[p] = {"hash", "refs"} /\ table'.recs[p].hash = C[p]
    BY <2>1, <2>2
  <2>5. table'.recs[p].refs = r.refs - (IF p \in mine THEN 1 ELSE 0)
    BY <2>1, <2>3
  <2>6. table'.recs[p].refs \in Nat \ {0}
    BY <2>1, <2>3
  <2> QED
    BY <2>4, <2>5, <2>6 DEF r
<1>8. \A c \in DOMAIN table'.byHash : table.byHash[c] \notin last
  BY <1>2, <1>3, <1>4 DEF Coherent
<1>9. Coherent(C, table')
  <2>1. ASSUME NEW p \in Registered(table')
        PROVE  C[p] \in DOMAIN table'.byHash /\ table'.byHash[C[p]] = p
    <3>1. p \in Registered(table) /\ p \notin last
      BY <1>3
    <3>2. C[p] \in DOMAIN table.byHash /\ table.byHash[C[p]] = p
      BY <3>1, <1>2 DEF Coherent
    <3>3. C[p] \notin freed
      <4> SUFFICES ASSUME NEW q \in gone, C[q] = C[p] PROVE FALSE
        BY <1>4
      <4>1. table.byHash[C[q]] = q
        BY <1>2 DEF Coherent
      <4> QED
        BY <4>1, <3>1, <3>2
    <3> QED
      BY <3>2, <3>3, <1>3
  <2>2. ASSUME NEW c \in DOMAIN table'.byHash
        PROVE  table'.byHash[c] \in Registered(table') /\ C[table'.byHash[c]] = c
    BY <1>2, <1>3, <1>8 DEF Coherent
  <2>3. Registered(table') \subseteq Blocks
    BY <1>2, <1>3 DEF Coherent
  <2> QED
    BY <1>3, <1>7, <2>1, <2>2, <2>3 DEF Coherent
<1>10. /\ Registered(table') \subseteq DOMAIN ram'
       /\ \A p \in DOMAIN ram' : p \in Blocks /\ ram'[p] = C[p]
  BY <1>1, <1>3 DEF Memory, Without, Restrict
<1>11. /\ DOMAIN sess' = DOMAIN sess \ {s}
       /\ \A u \in DOMAIN sess' : sess'[u] = sess[u]
  BY <1>1 DEF Without, Restrict
<1>12. IsFiniteSet(DOMAIN sess') /\ \A u \in DOMAIN sess' : sess'[u] \in Seq(Blocks)
  <2>1. IsFiniteSet(DOMAIN sess) /\ \A u \in DOMAIN sess : sess[u] \in Seq(Blocks)
    BY DEF Memory
  <2>2. IsFiniteSet(DOMAIN sess \ {s})
    BY <2>1, FS_RemoveElement
  <2> QED
    BY <1>11, <2>1, <2>2
<1>13. ASSUME NEW q \in Blocks
       PROVE  Cardinality(Holders(C, C[q])') <= Count(table', C[q])
  <2> DEFINE c == C[q]
             old == Holders(C, c)
             new == Holders(C, c)'
  <2>1. /\ IsFiniteSet(old) /\ Cardinality(old) \in Nat
        /\ Cardinality(old) <= Count(table, c)
    BY HoldersFinite DEF Memory
  <2>2. Count(table, c) \in Nat /\ Count(table', c) \in Nat
    BY <1>2, <1>9, CountType
  <2>3. new = old \ {s}
    BY <1>11 DEF Holders
  <2>4. s \in old <=> \E p \in mine : C[p] = c
    BY <1>1 DEF Holders, mine
  <2>5. Count(table', c) >= Count(table, c) - (IF s \in old THEN 1 ELSE 0)
    <3>1. CASE ~Known(table, c)
      BY <3>1, <2>2 DEF Count
    <3>2. CASE Known(table, c)
      <4> DEFINE p == table.byHash[c]
      <4>1. p \in Registered(table) /\ C[p] = c /\ Count(table, c) = table.recs[p].refs
        BY <3>2, <1>2 DEF Known, Coherent, Count
      <4> HIDE DEF p
      <4>2. CASE p \in last
        <5>1. p \in mine /\ Count(table, c) <= 1
          BY <4>1, <4>2, <1>6
        <5> QED
          BY <5>1, <4>1, <2>2, <2>4
      <4>3. CASE p \notin last
        <5>1. p \in Registered(table')
          BY <4>1, <4>3, <1>3
        <5>2. c \in DOMAIN table'.byHash /\ table'.byHash[c] = p
          BY <5>1, <4>1, <1>9 DEF Coherent
        <5>3. Count(table', c) = table'.recs[p].refs
          BY <5>1, <5>2 DEF Count, Known
        <5>4. Count(table', c) = Count(table, c) - (IF p \in mine THEN 1 ELSE 0)
          BY <5>1, <5>3, <4>1, <1>7
        <5> QED
          BY <5>4, <4>1, <2>2, <2>4
      <4> QED
        BY <4>2, <4>3
    <3> QED
      BY <3>1, <3>2
  <2> HIDE DEF old, new, c
  <2>6. Cardinality(new) = IF s \in old THEN Cardinality(old) - 1 ELSE Cardinality(old)
    BY <2>1, <2>3, FS_RemoveElement
  <2>7. Cardinality(new) <= Count(table', c)
    BY <2>1, <2>2, <2>5, <2>6
  <2> QED
    BY <2>7 DEF new, c
<1> QED
  BY <1>9, <1>10, <1>12, <1>13 DEF Memory

(* What a call knows of its session stays true when memory is left alone. *)
LEMMA CallLedger ==
    ASSUME NEW C \in ContentOf, Memory(C), Metas(C), UNCHANGED memory,
           \A s \in Sessions : meta'[s] # Unreadable =>
               meta'[s] = meta[s] \/ GoodMeta(C, meta'[s][1]),
           NEW w \in Callers, pc'[w] # "idle" => GoodMeta(C, job'[w].meta),
           \A v \in Callers \ {w} : pc'[v] = pc[v] /\ job'[v].meta = job[v].meta
    PROVE  Ledger'
<1>1. Memory(C)'
  BY DEF memory, Memory, Holders
<1>2. Metas(C)'
  <2>1. ASSUME NEW s \in Sessions, meta'[s] # Unreadable PROVE GoodMeta(C, meta'[s][1])
    BY <2>1 DEF Metas, Listed
  <2>2. ASSUME NEW v \in Callers, pc'[v] # "idle" PROVE GoodMeta(C, job'[v].meta)
    <3>1. CASE v = w
      BY <3>1, <2>2
    <3>2. CASE v # w
      BY <3>2, <2>2 DEF Metas
    <3> QED
      BY <3>1, <3>2
  <2> QED
    BY <2>1, <2>2 DEF Metas, Listed
<1> QED
  BY <1>1, <1>2 DEF Ledger

LEMMA SameLength ==
    ASSUME NEW m \in Nat, NEW n \in Nat, 1..m = 1..n
    PROVE  m = n
<1>1. m > 0 => m \in 1..n
  OBVIOUS
<1>2. n > 0 => n \in 1..m
  OBVIOUS
<1> QED
  BY <1>1, <1>2

(* A checkpoint describes the blocks that its session has. *)
LEMMA SnapshotGood ==
    ASSUME NEW C, Memory(C), NEW s \in DOMAIN sess,
           Range(sess[s]) \subseteq Registered(table) \cap DOMAIN ram
    PROVE  GoodMeta(C, Snapshot(s))
<1> DEFINE b == sess[s]
           row(p) == [pid |-> p, hash |-> table.recs[p].hash, refs |-> Refs(p)]
           rows == [i \in DOMAIN b |-> row(b[i])]
           R == {row(p) : p \in Blocks}
<1>1. b \in Seq(Blocks)
  BY DEF Memory
<1>2. Snapshot(s).blocks = b /\ Snapshot(s).rows = rows
      /\ Snapshot(s).sums = Restrict(ram, Range(b))
  BY DEF Snapshot
<1>3. \A p \in Range(b) : /\ p \in Registered(table) /\ p \in DOMAIN ram
                          /\ table.recs[p].hash = C[p] /\ Refs(p) \in Nat \ {0}
                          /\ ram[p] = C[p] /\ p \in Blocks
  BY DEF Memory, Coherent, Refs
<1> HIDE DEF b
<1>4. /\ Range(b) \subseteq Blocks /\ DOMAIN b = 1..Len(b) /\ Len(b) \in Nat
      /\ \A i \in DOMAIN b : b[i] \in Range(b)
  BY <1>1, BlocksOfSeq
<1>5. \A p \in Range(b) :
         row(p).pid = p /\ row(p).hash = C[p] /\ row(p).refs \in Nat \ {0}
  BY <1>3
<1>6. \A i \in 1..Len(b) : rows[i] = row(b[i])
  BY <1>4
<1>7. rows \in [1..Len(b) -> R]
  BY <1>4
<1> HIDE DEF rows, row, R
<1>8. rows \in Seq(R)
  BY <1>4, <1>7, SeqDef
<1>9. DOMAIN rows = 1..Len(rows) /\ DOMAIN rows = 1..Len(b) /\ Len(rows) \in Nat
  BY <1>7, <1>8, LenProperties
<1>10. Len(rows) = Len(b)
  BY <1>4, <1>9, SameLength
<1>a. ASSUME NEW i \in 1..Len(b)
      PROVE  /\ b[i] \in Range(b) /\ b[i] \in Blocks
             /\ rows[i].pid = b[i] /\ rows[i].hash = C[b[i]] /\ rows[i].refs \in Nat \ {0}
  <2> DEFINE p == b[i]
  <2>1. p \in Range(b) /\ rows[i] = row(p) /\ p \in Blocks
    BY <1>4, <1>6
  <2> HIDE DEF p
  <2> QED
    BY <2>1, <1>5 DEF p
<1>11. GoodRows(C, rows)
  BY <1>4, <1>a, <1>10 DEF GoodRows
<1>12. Pids(rows) = Range(b)
  <2>1. 1..Len(rows) = DOMAIN b
    BY <1>4, <1>10
  <2>2. \A i \in DOMAIN b : rows[i].pid = b[i]
    BY <1>4, <1>a
  <2> QED
    BY <2>1, <2>2 DEF Pids, Range
<1>13. DOMAIN Restrict(ram, Range(b)) = Range(b)
       /\ \A p \in Range(b) : Restrict(ram, Range(b))[p] = C[p]
  BY <1>3 DEF Restrict
<1> QED
  BY <1>1, <1>2, <1>11, <1>12, <1>13 DEF GoodMeta

LEMMA CheckpointLedger ==
    ASSUME IInv, Ledger, NEW w \in Callers, NEW s \in Sessions, Checkpoint(w, s)
    PROVE  Ledger'
<1>1. PICK C \in ContentOf : Memory(C) /\ Metas(C)
  BY DEF Ledger
<1>2. GoodMeta(C, Snapshot(s))
  BY <1>1, SnapshotGood DEF Checkpoint
<1> DEFINE none == Saving(s) = {}
           new == [NoJob EXCEPT !.sess = s, !.meta = Snapshot(s),
                       !.todo = Range(sess[s]), !.alone = none]
<1>3. /\ pc' = [pc EXCEPT ![w] = "payloads"]
      /\ job' = [v \in Callers |-> IF v = w THEN new
                     ELSE IF v \in Saving(s) THEN [job[v] EXCEPT !.alone = FALSE]
                     ELSE job[v]]
      /\ UNCHANGED memory /\ UNCHANGED meta
  BY DEF Checkpoint, disk
<1>4. new.meta = Snapshot(s)
  <2> HIDE DEF none
  <2> QED
    BY DEF NoJob
<1> HIDE DEF new
<1>5. GoodMeta(C, job'[w].meta)
  BY <1>2, <1>3, <1>4
<1>6. \A v \in Callers \ {w} : pc'[v] = pc[v] /\ job'[v].meta = job[v].meta
  <2> SUFFICES ASSUME NEW v \in Callers \ {w} PROVE pc'[v] = pc[v] /\ job'[v].meta = job[v].meta
    OBVIOUS
  <2>1. job'[v] = IF v \in Saving(s) THEN [job[v] EXCEPT !.alone = FALSE] ELSE job[v]
    BY <1>3
  <2>2. IsJob(job[v])
    BY DEF IInv, Shape
  <2> QED
    BY <2>1, <2>2, <1>3 DEF IsJob, IInv, Shape
<1> QED
  BY <1>1, <1>3, <1>5, <1>6, CallLedger

(* A call whose caller alone moves, with the snapshot it had or none. *)
LEMMA MoveLedger ==
    ASSUME IInv, NEW C \in ContentOf, Memory(C), Metas(C), UNCHANGED memory,
           \A s \in Sessions : meta'[s] # Unreadable =>
               meta'[s] = meta[s] \/ GoodMeta(C, meta'[s][1]),
           NEW w \in Callers, NEW label, NEW new, Goto(w, label, new),
           label # "idle" => GoodMeta(C, new.meta)
    PROVE  Ledger'
<1>1. pc' = [pc EXCEPT ![w] = label] /\ job' = [job EXCEPT ![w] = new] /\ Shape
  BY DEF Goto, IInv
<1>2. /\ pc'[w] = label /\ job'[w] = new
      /\ \A v \in Callers \ {w} : pc'[v] = pc[v] /\ job'[v] = job[v]
  BY <1>1 DEF Shape
<1> QED
  BY <1>2, CallLedger

(* The steps of a checkpoint after its snapshot, and those of a restore up *)
(* to its end.                                                             *)
LEMMA StepLedger ==
    ASSUME IInv, Ledger, NEW w \in Callers,
           \/ OpenPayload(w) \/ WritePayload(w) \/ OpenMeta(w) \/ WriteMeta(w)
           \/ \E s \in Sessions : Restore(w, s)
           \/ LoadPayload(w) \/ RestoreCorrupt(w)
    PROVE  Ledger'
<1>1. PICK C \in ContentOf : Memory(C) /\ Metas(C)
  BY DEF Ledger
<1>2. IsJob(job[w]) /\ DOMAIN meta = Sessions
  BY DEF IInv, Shape
<1>3. pc[w] # "idle" => GoodMeta(C, job[w].meta)
  BY <1>1 DEF Metas
<1>4. CASE OpenPayload(w)
  <2>1. PICK p \in job[w].todo : Goto(w, "payloads", [job[w] EXCEPT !.open = p])
    BY <1>4 DEF OpenPayload
  <2> DEFINE new == [job[w] EXCEPT !.open = p]
  <2>2. new.meta = job[w].meta
    BY <1>2 DEF IsJob
  <2>3. UNCHANGED <<memory, meta>> /\ pc[w] # "idle"
    BY <1>4 DEF OpenPayload
  <2> HIDE DEF new
  <2>4. Goto(w, "payloads", new) /\ GoodMeta(C, new.meta)
    BY <2>1, <2>2, <2>3, <1>3 DEF new
  <2> QED
    BY <1>1, <2>3, <2>4, MoveLedger
<1>5. CASE WritePayload(w)
  <2> DEFINE p == job[w].open
             new == [job[w] EXCEPT !.open = None, !.todo = @ \ {p}]
  <2>1. Goto(w, "payloads", new) /\ UNCHANGED <<memory, meta>> /\ pc[w] # "idle"
    BY <1>5 DEF WritePayload
  <2>2. new.meta = job[w].meta
    BY <1>2 DEF IsJob
  <2> HIDE DEF new
  <2> QED
    BY <1>1, <1>3, <2>1, <2>2, MoveLedger
<1>6. CASE OpenMeta(w)
  <2>1. /\ Goto(w, "meta", job[w]) /\ UNCHANGED memory /\ pc[w] # "idle"
        /\ meta' = [meta EXCEPT ![job[w].sess] = Unreadable]
    BY <1>6 DEF OpenMeta
  <2>2. \A s \in Sessions : meta'[s] # Unreadable => meta'[s] = meta[s]
    BY <2>1, <1>2
  <2> QED
    BY <1>1, <1>3, <2>1, <2>2, MoveLedger
<1>7. CASE WriteMeta(w)
  <2>1. Goto(w, "idle", NoJob) /\ UNCHANGED memory /\ pc[w] # "idle"
    BY <1>7 DEF WriteMeta, Done
  <2>2. PICK result \in {<<job[w].meta>>, Unreadable} :
           meta' = [meta EXCEPT ![job[w].sess] = result]
    BY <1>7 DEF WriteMeta
  <2> DEFINE m == job[w].meta
  <2>3. <<m>>[1] = m
    OBVIOUS
  <2> HIDE DEF m
  <2>4. \A s \in Sessions : meta'[s] # Unreadable => meta'[s] = meta[s] \/ GoodMeta(C, meta'[s][1])
    BY <1>2, <1>3, <2>1, <2>2, <2>3 DEF m
  <2> QED
    BY <1>1, <2>1, <2>4, MoveLedger
<1>8. CASE \E s \in Sessions : Restore(w, s)
  <2>1. PICK s \in Sessions : Restore(w, s)
    BY <1>8
  <2> DEFINE new == [NoJob EXCEPT !.sess = s, !.meta = Listed(s),
                                  !.todo = DOMAIN Listed(s).sums]
  <2>2. UNCHANGED <<memory, meta>> /\ Goto(w, "load", new) /\ meta[s] # Unreadable
    BY <2>1 DEF Restore, disk
  <2>3. new.meta = Listed(s)
    BY DEF NoJob
  <2> HIDE DEF new
  <2>4. GoodMeta(C, new.meta)
    BY <1>1, <2>2, <2>3 DEF Metas
  <2> QED
    BY <1>1, <2>2, <2>4, MoveLedger
<1>9. CASE LoadPayload(w)
  <2>1. UNCHANGED <<memory, meta>> /\ pc[w] # "idle"
    BY <1>9 DEF LoadPayload, disk
  <2>2. PICK p \in job[w].todo :
           \/ Goto(w, "load", [job[w] EXCEPT !.todo = @ \ {p},
                                 !.got = Put(@, p, files[job[w].sess][p])])
           \/ Goto(w, "idle", NoJob)
    BY <1>9 DEF LoadPayload, Done
  <2> DEFINE new == [job[w] EXCEPT !.todo = @ \ {p},
                       !.got = Put(@, p, files[job[w].sess][p])]
  <2>3. new.meta = job[w].meta
    BY <1>2 DEF IsJob
  <2> HIDE DEF new
  <2>4. \/ Goto(w, "load", new)
        \/ Goto(w, "idle", NoJob)
    BY <2>2 DEF new
  <2> QED
    BY <1>1, <1>3, <2>1, <2>3, <2>4, MoveLedger
<1>10. CASE RestoreCorrupt(w)
  <2>1. UNCHANGED <<memory, meta>> /\ Goto(w, "idle", NoJob)
    BY <1>10 DEF RestoreCorrupt, Done, disk
  <2> QED
    BY <1>1, <2>1, MoveLedger
<1> QED
  BY <1>4, <1>5, <1>6, <1>7, <1>8, <1>9, <1>10

(* A restore ends: its records are merged twice, and its payloads are the  *)
(* ones that meta.json has the hashes of.                                  *)
LEMMA RestoreEndLedger ==
    ASSUME IInv, Ledger, NEW w \in Callers, RestoreEnd(w)
    PROVE  Ledger'
<1>1. PICK C \in ContentOf : Memory(C) /\ Metas(C)
  BY DEF Ledger
<1> DEFINE s == job[w].sess
           m == job[w].meta
<1>2. /\ pc[w] # "idle" /\ job[w].got = m.sums
      /\ table' = Rebuild(Rebuild(table, m.rows), m.rows)
      /\ ram' = [p \in DOMAIN m.sums \cup DOMAIN ram |->
                    IF p \in DOMAIN m.sums THEN job[w].got[p] ELSE ram[p]]
      /\ sess' = Put(sess, s, m.blocks)
      /\ Goto(w, "idle", NoJob) /\ UNCHANGED meta
  BY DEF RestoreEnd, Corrupt, Done, disk
<1>3. GoodMeta(C, m)
  BY <1>1, <1>2 DEF Metas
<1> HIDE DEF s, m
<1> DEFINE rows == m.rows
           middle == Rebuild(table, rows)
           P == Pids(rows)
           b == m.blocks
<1>4. GoodRows(C, rows) /\ P = Range(b) /\ P = DOMAIN m.sums /\ b \in Seq(Blocks)
  BY <1>3 DEF GoodMeta
<1>5. table' = Rebuild(middle, rows) /\ sess' = Put(sess, s, b)
  BY <1>2
<1> HIDE DEF b, rows
<1>6. P \subseteq Blocks
  BY <1>4 DEF GoodRows, Pids
<1>7. Grown(C, table, table', P)
  <2>1. Coherent(C, table)
    BY <1>1 DEF Memory
  <2>2. Grown(C, table, middle, P)
    BY <2>1, <1>4, RebuildGrows
  <2> HIDE DEF middle
  <2>3. Grown(C, middle, table', P)
    BY <2>2, <1>4, <1>5, RebuildGrows DEF Grown
  <2> HIDE DEF P
  <2>4. Grown(C, table, table', P \cup P)
    BY <2>1, <2>2, <2>3, <1>6, GrownTrans
  <2>5. P \cup P = P
    OBVIOUS
  <2> QED
    BY <2>4, <2>5
<1> HIDE DEF P, middle
<1>8. /\ DOMAIN ram' = P \cup DOMAIN ram
      /\ \A p \in DOMAIN ram' : p \in Blocks /\ ram'[p] = C[p]
  <2>1. \A p \in P : m.sums[p] = C[p]
    BY <1>3, <1>4 DEF GoodMeta
  <2> QED
    BY <2>1, <1>1, <1>2, <1>4, <1>6 DEF Memory
<1>9. Registered(table)' \subseteq DOMAIN ram'
  <2>1. Registered(table') \subseteq Registered(table) \cup P /\ Registered(table) \subseteq DOMAIN ram
    BY <1>1, <1>7 DEF Grown, Memory
  <2> QED
    BY <2>1, <1>8 DEF Registered
<1>10. Memory(C)'
  <2>1. Range(b) \subseteq P \cup Range(BlocksOf(s))
    BY <1>4
  <2> QED
    BY <2>1, <1>1, <1>4, <1>5, <1>6, <1>7, <1>8, <1>9, SessionGrows
<1>11. Metas(C)'
  <2>1. pc' = [pc EXCEPT ![w] = "idle"] /\ job' = [job EXCEPT ![w] = NoJob] /\ Shape
    BY <1>2 DEF Goto, IInv
  <2>2. \A v \in Callers : pc'[v] # "idle" => pc'[v] = pc[v] /\ job'[v] = job[v]
    BY <2>1 DEF Shape
  <2> QED
    BY <2>2, <1>1, <1>2 DEF Metas, Listed
<1> QED
  BY <1>10, <1>11 DEF Ledger

LEMMA CrashLedger ==
    ASSUME Ledger, Crash
    PROVE  Ledger'
<1>1. PICK C \in ContentOf : Memory(C) /\ Metas(C)
  BY DEF Ledger
<1>2. table' = Boot /\ ram' = Empty /\ sess' = Empty
  BY DEF Crash
<1>3. Memory(C)'
  <2>1. DOMAIN sess' = {} /\ DOMAIN ram' = {} /\ table' = Boot
    BY <1>2 DEF Empty
  <2>2. ASSUME NEW q \in Blocks
        PROVE  Cardinality(Holders(C, C[q])') <= Count(table', C[q])
    <3>1. Holders(C, C[q])' = {} /\ Count(Boot, C[q]) = 0
      BY <2>1, BootCoherent DEF Holders
    <3>2. Cardinality({}) = 0
      BY FS_EmptySet
    <3> QED
      BY <2>1, <3>1, <3>2
  <2>3. Coherent(C, table') /\ Registered(table') = {}
    BY <2>1, BootCoherent
  <2>4. Registered(table)' = Registered(table')
    BY DEF Registered
  <2>5. IsFiniteSet({})
    BY FS_EmptySet
  <2> QED
    BY <2>1, <2>2, <2>3, <2>4, <2>5 DEF Memory
<1>4. Metas(C)'
  BY <1>1 DEF Crash, disk, Metas, Listed
<1> QED
  BY <1>3, <1>4 DEF Ledger

(* Every step keeps the ledger. *)
LEMMA NextLedger == IInv /\ Ledger /\ [Next]_vars => Ledger'
<1> SUFFICES ASSUME IInv, Ledger, [Next]_vars PROVE Ledger'
  OBVIOUS
<1>1. CASE \E s \in Sessions : Release(s)
  <2>1. PICK s \in Sessions : Release(s)
    BY <1>1
  <2>2. PICK C \in ContentOf : Memory(C) /\ Metas(C)
    BY DEF Ledger
  <2>3. Memory(C)'
    BY <2>1, <2>2, ReleaseMemory
  <2>4. Metas(C)'
    BY <2>1, <2>2 DEF Release, disk, Metas, Listed
  <2> QED
    BY <2>3, <2>4 DEF Ledger
<1>2. CASE \E s \in Sessions : \E c \in Contents : Allocate(s, c)
  BY <1>2, AllocateLedger
<1>3. CASE \E w \in Callers : \E s \in Sessions : Checkpoint(w, s)
  BY <1>3, CheckpointLedger
<1>4. CASE \E w \in Callers :
              \/ \E s \in Sessions : Restore(w, s)
              \/ OpenPayload(w) \/ WritePayload(w) \/ OpenMeta(w) \/ WriteMeta(w)
              \/ LoadPayload(w) \/ RestoreCorrupt(w)
  BY <1>4, StepLedger
<1>5. CASE \E w \in Callers : RestoreEnd(w)
  BY <1>5, RestoreEndLedger
<1>6. CASE Crash
  BY <1>6, CrashLedger
<1>7. CASE UNCHANGED vars
  <2>1. PICK C \in ContentOf : Memory(C) /\ Metas(C)
    BY DEF Ledger
  <2>2. Memory(C)' /\ Metas(C)'
    BY <2>1, <1>7 DEF vars, memory, disk, Memory, Holders, Metas, Listed
  <2> QED
    BY <2>2 DEF Ledger
<1> QED
  BY <1>1, <1>2, <1>3, <1>4, <1>5, <1>6, <1>7 DEF Next

LEMMA LedgerInvariant == Spec => [](IInv /\ Ledger)
<1>1. Init => IInv /\ Ledger
  BY InitIInv, InitLedger
<1>2. (IInv /\ Ledger) /\ [Next]_vars => (IInv /\ Ledger)'
  BY NextIInv, NextLedger
<1> QED
  BY <1>1, <1>2, PTL DEF Spec

(* Deduplication is exact: merging a checkpoint into a table that has some *)
(* of its contents under other ids leaves every content under one id, and  *)
(* the index names every registered block (rebuild_tables,                 *)
(* PhysicalBlockTable.register).                                           *)
THEOREM DedupSafe == Spec => []OneBlockPerContent
<1>1. Ledger => OneBlockPerContent
  BY DEF Ledger, Memory, Coherent, OneBlockPerContent
<1> QED
  BY <1>1, LedgerInvariant, PTL

(* A registered block that a live session maps has its payload, and it is  *)
(* the one of its hash, whatever a crash or a concurrent checkpoint left   *)
(* half written (validate_payloads, restore).                              *)
THEOREM RestoreSafe == Spec => []RegisteredReadable
<1>1. Ledger => RegisteredReadable
  BY DEF Ledger, Memory, Coherent, RegisteredReadable
<1> QED
  BY <1>1, LedgerInvariant, PTL

(* No release frees a registered block under another session that maps it, *)
(* whatever was released, restored, replaced or lost in a crash before     *)
(* (rebuild_tables, PhysicalBlockTable.release).                           *)
THEOREM ReleaseSafe == Spec => []HoldersCounted
<1>1. Ledger => HoldersCounted
  <2> SUFFICES ASSUME Ledger, NEW p \in Registered(table)
               PROVE  Cardinality(Mapping(p)) <= Refs(p)
    BY DEF HoldersCounted
  <2>1. PICK C \in ContentOf : Memory(C)
    BY DEF Ledger
  <2>2. p \in Blocks /\ Count(table, C[p]) = Refs(p)
    BY <2>1 DEF Memory, Coherent, Count, Known, Refs
  <2>3. Mapping(p) \subseteq Holders(C, C[p])
    BY DEF Mapping, Holders
  <2>4. /\ IsFiniteSet(Holders(C, C[p])) /\ Cardinality(Holders(C, C[p])) \in Nat
        /\ Cardinality(Holders(C, C[p])) <= Refs(p)
    BY <2>1, <2>2, HoldersFinite DEF Memory
  <2>5. Refs(p) \in Nat
    BY <2>1, <2>2, CountType DEF Memory
  <2>6. Cardinality(Mapping(p)) <= Cardinality(Holders(C, C[p])) /\ Cardinality(Mapping(p)) \in Nat
    BY <2>3, <2>4, FS_Subset, FS_CardinalityType
  <2> QED
    BY <2>4, <2>5, <2>6
<1> QED
  BY <1>1, LedgerInvariant, PTL
=============================================================================
