----------------------------- MODULE ToolCache ------------------------------
(***************************************************************************)
(* ToolOutputCache (runtime/dipa/speculative/tool_cache.py): a bounded     *)
(* LRU + TTL cache of tool outputs.  get, set and invalidate hold an       *)
(* asyncio.Lock and never await inside it, so each one is a single step.   *)
(*                                                                         *)
(* order is the key order of the OrderedDict (first = least recently       *)
(* used), entry the tuple (expires_at, value) of each key.  hits, misses   *)
(* and the gauges only feed /metrics and are left out.                     *)
(***************************************************************************)
EXTENDS Naturals, Sequences, SequencesExt, FiniteSets

CONSTANTS Keys, Values, NoValue,
          MaxSize,      \* _max_size
          TTL,          \* _ttl_seconds
          MaxTime       \* bound: last instant the clock reaches

ASSUME SizeAssumption == MaxSize \in Nat \ {0}   \* __init__ raises otherwise
ASSUME TTLAssumption  == TTL \in Nat             \* __init__ raises otherwise

VARIABLES
    order, entry,
    now,          \* time.time()
    result,       \* what the last call returned, with its key
    stored        \* history: per key, the last value set since it was last
                  \* invalidated and when; NoValue when there is none

vars == <<order, entry, now, result, stored>>

\* NoValue is none of the values that may be stored.
ASSUME NoValueAssumption == NoValue \notin Values \cup [at : Nat, value : Values]

\* pop(key): a key that is there is there once
Drop(s, k) == IF k \in ToSet(s) THEN RemoveAt(s, CHOOSE i \in DOMAIN s : s[i] = k) ELSE s

Keep(keys) == [k \in DOMAIN entry \cap keys |-> entry[k]]

\* Mutant: drops the keys used last.
TrimOldest_newest(s) == IF Len(s) > MaxSize THEN SubSeq(s, 1, MaxSize) ELSE s

\* popitem(last=False) until at most MaxSize keys are left
TrimOldest(s) == IF Len(s) > MaxSize THEN SubSeq(s, Len(s) - MaxSize + 1, Len(s)) ELSE s

\* Mutant: forgets that the key is already there.
MoveToEnd_append(s, k) == Append(s, k)

\* move_to_end, for a key that may be new
MoveToEnd(s, k) == Append(Drop(s, k), k)

Init ==
    /\ order = << >> /\ entry = << >> /\ now = 0
    /\ result = [op |-> "none", key |-> NoValue, value |-> NoValue]
    /\ stored = [k \in Keys |-> NoValue]

GetMissing(k) ==
    /\ k \notin DOMAIN entry
    /\ UNCHANGED <<order, entry>>
    /\ result' = [op |-> "get", key |-> k, value |-> NoValue]

GetExpired(k) ==
    /\ k \in DOMAIN entry /\ entry[k].expires < now
    /\ order' = Drop(order, k)
    /\ entry' = Keep(Keys \ {k})
    /\ result' = [op |-> "get", key |-> k, value |-> NoValue]

\* Mutant: serves a hit without looking at expires_at.
GetHit_anyAge(k) ==
    /\ k \in DOMAIN entry
    /\ order' = MoveToEnd(order, k)
    /\ entry' = entry
    /\ result' = [op |-> "get", key |-> k, value |-> entry[k].value]

GetHit(k) ==
    /\ k \in DOMAIN entry /\ entry[k].expires >= now
    /\ order' = MoveToEnd(order, k)
    /\ entry' = entry
    /\ result' = [op |-> "get", key |-> k, value |-> entry[k].value]

Get(k) == /\ GetMissing(k) \/ GetExpired(k) \/ GetHit(k)
          /\ UNCHANGED <<now, stored>>

\* Mutant: the value is dropped on the way in.
Set_noValue(k, v) ==
    /\ order' = TrimOldest(MoveToEnd(order, k))
    /\ entry' = [x \in ToSet(order') |->
                    IF x = k THEN [expires |-> now + TTL, value |-> NoValue] ELSE entry[x]]
    /\ result' = [op |-> "set", key |-> k, value |-> v]
    /\ stored' = [stored EXCEPT ![k] = [at |-> now, value |-> v]]
    /\ now' = now

Set(k, v) ==
    LET kept == TrimOldest(MoveToEnd(order, k)) IN
    /\ order' = kept
    /\ entry' = [x \in ToSet(kept) |->
                    IF x = k THEN [expires |-> now + TTL, value |-> v] ELSE entry[x]]
    /\ result' = [op |-> "set", key |-> k, value |-> v]
    /\ stored' = [stored EXCEPT ![k] = [at |-> now, value |-> v]]
    /\ now' = now

\* invalidate(tool, args): drop one key if it is there
Invalidate(k) ==
    /\ order' = Drop(order, k)
    /\ entry' = Keep(Keys \ {k})
    /\ result' = [op |-> "invalidate", key |-> k, value |-> NoValue]
    /\ stored' = [stored EXCEPT ![k] = NoValue]
    /\ now' = now

\* invalidate(all_entries=True)
InvalidateAll ==
    /\ order' = << >> /\ entry' = << >>
    /\ result' = [op |-> "clear", key |-> NoValue, value |-> NoValue]
    /\ stored' = [k \in Keys |-> NoValue]
    /\ now' = now

Tick == /\ now < MaxTime
        /\ now' = now + 1
        /\ UNCHANGED <<order, entry, result, stored>>

Next == \/ \E k \in Keys : Get(k) \/ Invalidate(k) \/ \E v \in Values : Set(k, v)
        \/ InvalidateAll
        \/ Tick

Spec == Init /\ [][Next]_vars
-----------------------------------------------------------------------------
(* Type correctness of the key order, the entries and the clock. *)
TypeOK ==
    /\ order \in Seq(Keys)
    /\ DOMAIN entry \subseteq Keys
    /\ \A k \in DOMAIN entry : entry[k] \in [expires : Nat, value : Values]
    /\ now \in Nat

(* The key order and the dictionary agree and the store never exceeds      *)
(* _max_size: a trim that forgets one of the two shows here (set, get,     *)
(* invalidate in tool_cache.py).                                           *)
StoreConsistent ==
    /\ ToSet(order) = DOMAIN entry
    /\ Len(order) = Cardinality(ToSet(order))
    /\ Len(order) <= MaxSize

(* A get that returns a value returns the one last set under that key      *)
(* after its last invalidation, at most TTL old: no sequence of set, get,  *)
(* evict, expire and invalidate serves an older or a foreign output.       *)
HitIsFresh ==
    [][\A k \in Keys : Get(k) /\ result'.value # NoValue =>
          /\ stored[k] # NoValue /\ stored[k].value = result'.value
          /\ now <= stored[k].at + TTL]_vars

(* Making room never costs the newest entries: a set keeps its own key and *)
(* drops a key only while the store is full and only if every key kept was *)
(* used after it.                                                          *)
EvictsOldest ==
    [][\A k \in Keys, v \in Values : Set(k, v) =>
          /\ k \in DOMAIN entry'
          /\ \A i \in 1..Len(order) :
                order[i] \notin DOMAIN entry' =>
                    /\ Len(order') = MaxSize
                    /\ \A j \in 1..(i - 1) : order[j] = k \/ order[j] \notin DOMAIN entry']_vars

(* The cache implements the map its callers rely on (ToolOutputCache as a  *)
(* whole): a set puts exactly its value, and nothing else but forgetting   *)
(* ever changes what is stored.                                            *)
Abstract == INSTANCE LossyMap WITH map <- [k \in DOMAIN entry |-> entry[k].value]
ImplementsLossyMap == Abstract!Spec
=============================================================================
