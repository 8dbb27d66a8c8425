-------------------------- MODULE ToolCache_proofs --------------------------
(***************************************************************************)
(* The tool-output cache is consistent, serves only fresh values, evicts   *)
(* only the key used least recently, and implements LossyMap, for any      *)
(* keys and values, size, TTL and sequence of calls.                       *)
(***************************************************************************)
EXTENDS ToolCache, FiniteSetTheorems, SequenceTheorems, TLAPS

Distinct(s) == \A i, j \in DOMAIN s : s[i] = s[j] => i = j
Entries == [expires : Nat, value : Values]

\* An entry is the last value set under its key since the key was last
\* invalidated, and expires TTL after it was set.
EntriesAreStored ==
    \A k \in DOMAIN entry :
        /\ stored[k] \in [at : Nat, value : Values]
        /\ entry[k].value = stored[k].value /\ entry[k].expires = stored[k].at + TTL

IInv ==
    /\ TypeOK
    /\ DOMAIN stored = Keys
    /\ ToSet(order) = DOMAIN entry /\ Distinct(order) /\ Len(order) <= MaxSize
    /\ EntriesAreStored

(* Removing a key from a sequence of distinct keys. *)
LEMMA DropFacts ==
    ASSUME NEW S, NEW s \in Seq(S), NEW k, Distinct(s)
    PROVE  /\ Drop(s, k) \in Seq(S) /\ Distinct(Drop(s, k))
           /\ ToSet(Drop(s, k)) = ToSet(s) \ {k}
           /\ k \notin ToSet(s) => Drop(s, k) = s
           /\ k \in ToSet(s) => Len(Drop(s, k)) = Len(s) - 1
<1>1. CASE k \notin ToSet(s)
  BY <1>1 DEF Drop
<1>2. CASE k \in ToSet(s)
  <2> DEFINE n == CHOOSE i \in DOMAIN s : s[i] = k
             r == RemoveAt(s, n)
  <2>1. n \in DOMAIN s /\ s[n] = k /\ DOMAIN s = 1..Len(s) /\ Len(s) \in Nat
    BY <1>2 DEF ToSet
  <2> HIDE DEF n
  <2>2. n \in 1..Len(s) /\ Len(s) \in Nat /\ n - 1 \in Nat
    BY <2>1
  <2>3. /\ SubSeq(s, 1, n - 1) \in Seq(S) /\ Len(SubSeq(s, 1, n - 1)) = n - 1
        /\ SubSeq(s, n + 1, Len(s)) \in Seq(S)
        /\ Len(SubSeq(s, n + 1, Len(s))) = Len(s) - n
        /\ \A j \in 1..(n - 1) : SubSeq(s, 1, n - 1)[j] = s[j]
        /\ \A j \in 1..(Len(s) - n) : SubSeq(s, n + 1, Len(s))[j] = s[n + j]
    BY <2>2
  <2>4. /\ r \in Seq(S) /\ Len(r) = Len(s) - 1
        /\ \A j \in 1..(Len(s) - 1) : r[j] = IF j < n THEN s[j] ELSE s[j + 1]
    <3> DEFINE a == SubSeq(s, 1, n - 1)
               b == SubSeq(s, n + 1, Len(s))
    <3> HIDE DEF a, b
    <3>1. /\ a \in Seq(S) /\ Len(a) = n - 1 /\ b \in Seq(S) /\ Len(b) = Len(s) - n
          /\ \A j \in 1..(n - 1) : a[j] = s[j]
          /\ \A j \in 1..(Len(s) - n) : b[j] = s[n + j]
      BY <2>3 DEF a, b
    <3> DEFINE c == a \o b
    <3>2. /\ c \in Seq(S) /\ Len(c) = Len(a) + Len(b)
          /\ \A j \in 1..(Len(a) + Len(b)) :
                c[j] = IF j <= Len(a) THEN a[j] ELSE b[j - Len(a)]
      BY <3>1, ConcatProperties
    <3> HIDE DEF c
    <3>3. ASSUME NEW j \in 1..(Len(s) - 1)
          PROVE  c[j] = IF j < n THEN s[j] ELSE s[j + 1]
      <4>1. CASE j < n
        <5>1. j \in 1..(n - 1) /\ j \in 1..(Len(a) + Len(b)) /\ j <= Len(a)
          BY <4>1, <3>1, <2>2
        <5>2. c[j] = a[j] /\ a[j] = s[j]
          BY <5>1, <3>1, <3>2
        <5> QED
          BY <4>1, <5>2
      <4>2. CASE j >= n
        <5> DEFINE l == j - (n - 1)
        <5>1. l \in 1..(Len(s) - n) /\ n + l = j + 1
          BY <4>2, <2>2
        <5>2. b[l] = s[j + 1]
          BY <5>1, <3>1
        <5>3. j \in 1..(Len(a) + Len(b)) /\ ~(j <= Len(a)) /\ j - Len(a) = l
          BY <4>2, <3>1, <2>2
        <5>4. c[j] = b[l]
          BY <5>3, <3>2
        <5> HIDE DEF l
        <5>5. ~(j < n)
          BY <4>2, <2>2
        <5> QED
          BY <5>2, <5>4, <5>5
      <4> QED
        BY <4>1, <4>2, <2>2
    <3>4. r = c
      BY DEF RemoveAt, a, b, c
    <3> HIDE DEF r
    <3>5. Len(c) = Len(s) - 1
      BY <3>1, <3>2, <2>2
    <3> QED
      BY <3>2, <3>3, <3>4, <3>5
  <2> HIDE DEF r
  <2> DEFINE at(j) == IF j < n THEN j ELSE j + 1
  <2>a. DOMAIN r = 1..Len(r) /\ Len(r) = Len(s) - 1
    BY <2>4
  <2>b. ASSUME NEW j \in 1..Len(r)
        PROVE  at(j) \in DOMAIN s /\ at(j) # n /\ r[j] = s[at(j)]
    BY <2>1, <2>2, <2>4
  <2>c. \A i, j \in 1..Len(r) : at(i) = at(j) => i = j
    BY <2>2, <2>4
  <2> HIDE DEF at
  <2>5. Distinct(r)
    BY <2>a, <2>b, <2>c DEF Distinct
  <2>6. \A j \in 1..Len(r) : r[j] \in ToSet(s) \ {k}
    BY <2>1, <2>b DEF Distinct, ToSet
  <2>7. ASSUME NEW i \in 1..Len(s), s[i] # k PROVE \E j \in 1..Len(r) : r[j] = s[i]
    <3>1. CASE i < n
      BY <3>1, <2>2, <2>4, <2>7
    <3>2. CASE i > n
      <4>1. i - 1 \in 1..Len(r) /\ r[i - 1] = s[i]
        BY <3>2, <2>2, <2>4, <2>7
      <4> QED
        BY <4>1
    <3> QED
      BY <3>1, <3>2, <2>1, <2>2, <2>7
  <2>8. ToSet(r) = ToSet(s) \ {k}
    <3>1. \A x \in ToSet(s) \ {k} : x \in ToSet(r)
      BY <2>a, <2>1, <2>7 DEF ToSet
    <3>2. \A x \in ToSet(r) : x \in ToSet(s) \ {k}
      BY <2>a, <2>6 DEF ToSet
    <3> QED
      BY <3>1, <3>2
  <2>9. Drop(s, k) = r
    BY <1>2 DEF Drop, r, n
  <2> QED
    BY <1>2, <2>4, <2>5, <2>8, <2>9
<1> QED
  BY <1>1, <1>2

(* A key moved to the end is there once, at the end. *)
LEMMA MoveFacts ==
    ASSUME NEW S, NEW s \in Seq(S), NEW k \in S, Distinct(s)
    PROVE  /\ MoveToEnd(s, k) \in Seq(S) /\ Distinct(MoveToEnd(s, k))
           /\ ToSet(MoveToEnd(s, k)) = ToSet(s) \cup {k}
           /\ MoveToEnd(s, k)[Len(MoveToEnd(s, k))] = k
           /\ k \in ToSet(s) => Len(MoveToEnd(s, k)) = Len(s)
           /\ k \notin ToSet(s) => MoveToEnd(s, k) = Append(s, k)
<1> DEFINE d == Drop(s, k)
           m == Append(d, k)
<1>1. /\ d \in Seq(S) /\ Distinct(d) /\ ToSet(d) = ToSet(s) \ {k}
      /\ k \notin ToSet(s) => d = s
      /\ k \in ToSet(s) => Len(d) = Len(s) - 1
  BY DropFacts
<1> HIDE DEF d
<1>2. /\ m \in Seq(S) /\ Len(m) = Len(d) + 1 /\ Len(d) \in Nat /\ Len(s) \in Nat
      /\ \A i \in 1..Len(d) : m[i] = d[i]
      /\ m[Len(d) + 1] = k
      /\ DOMAIN d = 1..Len(d) /\ DOMAIN m = 1..(Len(d) + 1)
  BY <1>1
<1>3. MoveToEnd(s, k) = m
  BY DEF MoveToEnd, d
<1> HIDE DEF m
<1>4. \A i \in 1..Len(d) : m[i] # k
  BY <1>1, <1>2 DEF ToSet
<1>5. Distinct(m)
  BY <1>1, <1>2, <1>4 DEF Distinct
<1>6. ToSet(m) = ToSet(d) \cup {k}
  BY <1>2 DEF ToSet
<1> QED
  BY <1>1, <1>2, <1>3, <1>5, <1>6 DEF m

(* One more than the greatest length. *)
LEMMA OneMore ==
    ASSUME NEW n \in Nat, NEW m \in Nat \ {0}, n > m, n <= m + 1
    PROVE  n = m + 1 /\ 2 <= n /\ n - 2 + 1 = m
<1> QED
  OBVIOUS

(* The keys that a set keeps: all of them, or all but the first of them.   *)
LEMMA TrimFacts ==
    ASSUME NEW S, NEW s \in Seq(S), Distinct(s), Len(s) <= MaxSize + 1, Len(s) > 0
    PROVE  /\ TrimOldest(s) \in Seq(S) /\ Distinct(TrimOldest(s))
           /\ Len(TrimOldest(s)) <= MaxSize
           /\ s[Len(s)] \in ToSet(TrimOldest(s))
           /\ Len(s) <= MaxSize => TrimOldest(s) = s
           /\ Len(s) > MaxSize => /\ Len(TrimOldest(s)) = MaxSize
                                  /\ ToSet(TrimOldest(s)) = ToSet(s) \ {s[1]}
<1>1. Len(s) \in Nat /\ DOMAIN s = 1..Len(s) /\ MaxSize \in Nat \ {0}
  BY SizeAssumption
<1>2. CASE Len(s) <= MaxSize
  <2>1. TrimOldest(s) = s
    BY <1>1, <1>2 DEF TrimOldest
  <2>2. Len(s) \in DOMAIN s /\ ~(Len(s) > MaxSize)
    BY <1>1, <1>2
  <2>3. s[Len(s)] \in ToSet(s)
    BY <2>2 DEF ToSet
  <2> QED
    BY <1>2, <2>1, <2>2, <2>3
<1>3. CASE Len(s) > MaxSize
  <2> DEFINE t == SubSeq(s, 2, Len(s))
  <2>1. TrimOldest(s) = t
    <3>1. Len(s) - MaxSize + 1 = 2
      BY <1>1, <1>3
    <3> QED
      BY <1>3, <3>1 DEF TrimOldest
  <2>2. /\ t \in Seq(S) /\ Len(t) = MaxSize
        /\ \A i \in 1..MaxSize : t[i] = s[i + 1]
    <3>1. \A i \in 2..Len(s) : s[i] \in S
      BY <1>1
    <3>2. /\ t \in Seq(S) /\ Len(t) = IF 2 <= Len(s) THEN Len(s) - 2 + 1 ELSE 0
          /\ \A i \in 1..(Len(s) - 2 + 1) : t[i] = s[2 + i - 1]
      BY <1>1, <3>1, SubSeqProperties
    <3> DEFINE n == Len(s)
    <3> HIDE DEF t, n
    <3>3. n = MaxSize + 1 /\ 2 <= n /\ n - 2 + 1 = MaxSize
      BY <1>1, <1>3, OneMore DEF n
    <3>b. \A i \in 1..MaxSize : 2 + i - 1 = i + 1
      BY <1>1
    <3>5. /\ Len(t) = IF 2 <= n THEN n - 2 + 1 ELSE 0
          /\ \A i \in 1..(n - 2 + 1) : t[i] = s[2 + i - 1]
      BY <3>2 DEF n
    <3>6. Len(t) = MaxSize
      BY <1>1, <3>3, <3>5
    <3> QED
      BY <3>2, <3>b, <3>3, <3>5, <3>6
  <2> HIDE DEF t
  <2>3. DOMAIN t = 1..MaxSize
    BY <2>2
  <2>4. Distinct(t)
    <3> SUFFICES ASSUME NEW i \in DOMAIN t, NEW j \in DOMAIN t, t[i] = t[j] PROVE i = j
      BY DEF Distinct
    <3>1. i + 1 \in DOMAIN s /\ j + 1 \in DOMAIN s /\ s[i + 1] = s[j + 1]
      BY <1>1, <1>3, <2>2, <2>3
    <3>2. i + 1 = j + 1
      BY <3>1 DEF Distinct
    <3> QED
      BY <1>1, <2>3, <3>2
  <2>5. ASSUME NEW x \in ToSet(s), x # s[1] PROVE x \in ToSet(t)
    <3>1. PICK i \in DOMAIN s : s[i] = x
      BY DEF ToSet
    <3> DEFINE l == i - 1
    <3>2. l \in 1..MaxSize /\ l + 1 = i
      BY <1>1, <1>3, <2>5, <3>1
    <3> HIDE DEF l
    <3> QED
      BY <2>2, <2>3, <3>1, <3>2 DEF ToSet
  <2>6. ASSUME NEW x \in ToSet(t) PROVE x \in ToSet(s) \ {s[1]}
    <3>1. PICK i \in DOMAIN t : t[i] = x
      BY DEF ToSet
    <3>2. i + 1 \in DOMAIN s /\ i + 1 # 1 /\ s[i + 1] = x /\ 1 \in DOMAIN s
      BY <1>1, <1>3, <2>2, <2>3, <3>1
    <3> QED
      BY <3>2 DEF ToSet, Distinct
  <2>7. s[Len(s)] \in ToSet(s) /\ s[Len(s)] # s[1]
    <3>1. Len(s) \in DOMAIN s /\ 1 \in DOMAIN s /\ Len(s) # 1
      BY <1>1, <1>3
    <3> QED
      BY <3>1 DEF ToSet, Distinct
  <2>8. ToSet(t) = ToSet(s) \ {s[1]}
    BY <2>5, <2>6
  <2>9. ~(Len(s) <= MaxSize)
    BY <1>1, <1>3
  <2>10. Len(t) <= MaxSize
    BY <1>1, <2>2
  <2> QED
    BY <2>1, <2>2, <2>4, <2>7, <2>8, <2>9, <2>10
<1> QED
  BY <1>1, <1>2, <1>3

(* What set keeps of the key order: its own key, and every other one       *)
(* unless the store was full of them: then all but the first.              *)
LEMMA KeptFacts ==
    ASSUME TypeOK, Distinct(order), Len(order) <= MaxSize, NEW k \in Keys
    PROVE  LET kept == TrimOldest(MoveToEnd(order, k)) IN
           /\ kept \in Seq(Keys) /\ Distinct(kept) /\ Len(kept) <= MaxSize
           /\ k \in ToSet(kept)
           /\ \/ ToSet(kept) = ToSet(order) \cup {k}
              \/ /\ k \notin ToSet(order) /\ Len(kept) = MaxSize /\ Len(order) = MaxSize
                 /\ ToSet(kept) = (ToSet(order) \cup {k}) \ {order[1]}
<1> DEFINE m == MoveToEnd(order, k)
           kept == TrimOldest(m)
<1>1. order \in Seq(Keys) /\ Len(order) \in Nat /\ MaxSize \in Nat \ {0}
  BY SizeAssumption DEF TypeOK
<1>2. /\ m \in Seq(Keys) /\ Distinct(m) /\ ToSet(m) = ToSet(order) \cup {k} /\ m[Len(m)] = k
      /\ k \in ToSet(order) => Len(m) = Len(order)
      /\ k \notin ToSet(order) => m = Append(order, k)
  BY <1>1, MoveFacts
<1> HIDE DEF m
<1>3. k \notin ToSet(order) => Len(m) = Len(order) + 1
  BY <1>1, <1>2
<1>4. Len(m) <= MaxSize + 1 /\ Len(m) \in Nat
  BY <1>1, <1>2, <1>3
<1>5. Len(m) > 0
  <2>1. CASE k \in ToSet(order)
    <3>1. DOMAIN order # {} /\ DOMAIN order = 1..Len(order)
      BY <2>1, <1>1 DEF ToSet
    <3> QED
      BY <2>1, <3>1, <1>1, <1>2
  <2>2. CASE k \notin ToSet(order)
    BY <2>2, <1>1, <1>3
  <2> QED
    BY <2>1, <2>2
<1>6. /\ kept \in Seq(Keys) /\ Distinct(kept) /\ Len(kept) <= MaxSize /\ k \in ToSet(kept)
      /\ Len(m) <= MaxSize => kept = m
      /\ Len(m) > MaxSize => Len(kept) = MaxSize /\ ToSet(kept) = ToSet(m) \ {m[1]}
  BY <1>2, <1>4, <1>5, TrimFacts
<1> HIDE DEF kept
<1>7. CASE Len(m) <= MaxSize
  BY <1>2, <1>6, <1>7 DEF kept, m
<1>8. CASE Len(m) > MaxSize
  <2>1. k \notin ToSet(order) /\ Len(order) = MaxSize
    BY <1>1, <1>2, <1>3, <1>8
  <2>2. m[1] = order[1]
    BY <1>1, <1>2, <2>1
  <2> QED
    BY <1>2, <1>6, <1>8, <2>1, <2>2 DEF kept, m
<1> QED
  BY <1>1, <1>4, <1>7, <1>8
-----------------------------------------------------------------------------
(* The invariant holds for an empty store. *)
LEMMA InitIInv == Init => IInv
<1> SUFFICES ASSUME Init PROVE IInv
  OBVIOUS
<1>1. order = << >> /\ entry = << >> /\ now = 0 /\ DOMAIN stored = Keys
  BY DEF Init
<1>2. DOMAIN order = {} /\ DOMAIN entry = {} /\ order \in Seq(Keys) /\ Len(order) = 0
  BY <1>1
<1>3. TypeOK
  BY <1>1, <1>2 DEF TypeOK
<1>4. ToSet(order) = DOMAIN entry /\ Distinct(order) /\ EntriesAreStored
  BY <1>2 DEF ToSet, Distinct, EntriesAreStored
<1>5. Len(order) <= MaxSize
  BY <1>2, SizeAssumption
<1> QED
  BY <1>1, <1>3, <1>4, <1>5 DEF IInv

(* Taking a key out, with or without forgetting what was stored under it. *)
LEMMA DropStep ==
    ASSUME IInv, NEW k \in Keys, order' = Drop(order, k), entry' = Keep(Keys \ {k}),
           now' = now, stored' = stored \/ stored' = [stored EXCEPT ![k] = NoValue]
    PROVE  IInv'
<1>1. order \in Seq(Keys) /\ Distinct(order) /\ DOMAIN entry \subseteq Keys
  BY DEF IInv, TypeOK
<1>2. /\ order' \in Seq(Keys) /\ Distinct(order)' /\ ToSet(order') = ToSet(order) \ {k}
      /\ k \notin ToSet(order) => order' = order
      /\ k \in ToSet(order) => Len(order') = Len(order) - 1
  BY <1>1, DropFacts DEF Distinct
<1>3. /\ DOMAIN entry' = DOMAIN entry \ {k}
      /\ \A x \in DOMAIN entry \ {k} : entry'[x] = entry[x]
  BY <1>1 DEF Keep
<1>4. Len(order') <= MaxSize
  <2>1. Len(order) \in Nat /\ Len(order) <= MaxSize /\ MaxSize \in Nat
    BY <1>1, SizeAssumption DEF IInv
  <2>2. Len(order') = Len(order) \/ Len(order') = Len(order) - 1
    BY <1>2
  <2> QED
    BY <2>1, <2>2
<1>5. TypeOK'
  BY <1>2, <1>3 DEF IInv, TypeOK
<1>6. DOMAIN stored' = Keys /\ \A x \in Keys \ {k} : stored'[x] = stored[x]
  BY DEF IInv
<1>7. EntriesAreStored'
  BY <1>1, <1>3, <1>6 DEF IInv, EntriesAreStored
<1> QED
  BY <1>2, <1>3, <1>4, <1>5, <1>6, <1>7 DEF IInv

(* Storing a value. *)
LEMMA SetStep ==
    ASSUME IInv, NEW k \in Keys, NEW v \in Values, Set(k, v)
    PROVE  IInv'
<1> DEFINE new == [expires |-> now + TTL, value |-> v]
           last == [at |-> now, value |-> v]
<1>1. TypeOK /\ Distinct(order) /\ Len(order) <= MaxSize /\ ToSet(order) = DOMAIN entry
      /\ DOMAIN stored = Keys /\ now \in Nat
  BY DEF IInv, TypeOK
<1>2. /\ order' \in Seq(Keys) /\ Distinct(order)' /\ Len(order') <= MaxSize
      /\ ToSet(order') \subseteq ToSet(order) \cup {k}
  <2>1. order' = TrimOldest(MoveToEnd(order, k))
    BY DEF Set
  <2> QED
    BY <2>1, <1>1, KeptFacts DEF Distinct
<1>3. entry' = [x \in ToSet(order') |-> IF x = k THEN new ELSE entry[x]]
  BY DEF Set
<1>4. stored' = [stored EXCEPT ![k] = last] /\ now' = now
  BY DEF Set
<1>5. /\ new \in Entries /\ last \in [at : Nat, value : Values]
      /\ new.value = last.value /\ new.expires = last.at + TTL
  BY <1>1, TTLAssumption DEF Entries
<1> HIDE DEF new, last
<1>6. /\ DOMAIN entry' = ToSet(order')
      /\ \A x \in DOMAIN entry' : \/ x = k /\ entry'[x] = new
                                  \/ x # k /\ x \in DOMAIN entry /\ entry'[x] = entry[x]
  BY <1>1, <1>2, <1>3
<1>7. \A x \in Keys : stored'[x] = IF x = k THEN last ELSE stored[x]
  BY <1>1, <1>4
<1>8. DOMAIN entry' \subseteq Keys
  BY <1>1, <1>2, <1>6 DEF TypeOK
<1>9. TypeOK'
  BY <1>1, <1>2, <1>4, <1>5, <1>6, <1>8 DEF TypeOK, Entries
<1>10. EntriesAreStored'
  BY <1>5, <1>6, <1>7, <1>8 DEF IInv, EntriesAreStored
<1> QED
  BY <1>1, <1>2, <1>4, <1>6, <1>9, <1>10 DEF IInv

(* A hit only moves its key to the end. *)
LEMMA HitStep ==
    ASSUME IInv, NEW k \in DOMAIN entry, order' = MoveToEnd(order, k),
           entry' = entry, now' = now, stored' = stored
    PROVE  IInv'
<1>1. order \in Seq(Keys) /\ Distinct(order) /\ k \in ToSet(order) /\ k \in Keys
  BY DEF IInv, TypeOK
<1>2. /\ order' \in Seq(Keys) /\ Distinct(order)' /\ Len(order') = Len(order)
      /\ ToSet(order') = ToSet(order) \cup {k}
  BY <1>1, MoveFacts DEF Distinct
<1>3. ToSet(order') = ToSet(order)
  BY <1>1, <1>2
<1>4. TypeOK' /\ EntriesAreStored'
  BY <1>2 DEF IInv, TypeOK, EntriesAreStored
<1> QED
  BY <1>2, <1>3, <1>4 DEF IInv

(* Every step keeps the invariant. *)
LEMMA NextIInv == IInv /\ [Next]_vars => IInv'
<1> SUFFICES ASSUME IInv, [Next]_vars PROVE IInv'
  OBVIOUS
<1>1. ASSUME NEW k \in Keys, Get(k) PROVE IInv'
  <2>1. CASE GetMissing(k)
    BY <1>1, <2>1 DEF Get, GetMissing, IInv, TypeOK, EntriesAreStored, Distinct
  <2>2. CASE GetExpired(k)
    BY <1>1, <2>2, DropStep DEF Get, GetExpired
  <2>3. CASE GetHit(k)
    BY <1>1, <2>3, HitStep DEF Get, GetHit
  <2> QED
    BY <1>1, <2>1, <2>2, <2>3 DEF Get
<1>2. ASSUME NEW k \in Keys, Invalidate(k) PROVE IInv'
  BY <1>2, DropStep DEF Invalidate
<1>3. CASE InvalidateAll
  <2>1. /\ order' = << >> /\ entry' = << >> /\ now' = now /\ DOMAIN stored' = Keys
    BY <1>3 DEF InvalidateAll
  <2>2. DOMAIN order' = {} /\ DOMAIN entry' = {} /\ order' \in Seq(Keys) /\ Len(order') = 0
    BY <2>1
  <2>3. TypeOK'
    BY <2>1, <2>2 DEF IInv, TypeOK
  <2>4. ToSet(order)' = DOMAIN entry' /\ Distinct(order)' /\ EntriesAreStored'
    BY <2>2 DEF ToSet, Distinct, EntriesAreStored
  <2>5. Len(order') <= MaxSize
    BY <2>2, SizeAssumption
  <2> QED
    BY <2>1, <2>3, <2>4, <2>5 DEF IInv
<1>4. CASE Tick
  BY <1>4 DEF Tick, IInv, TypeOK, EntriesAreStored, Distinct
<1>5. CASE UNCHANGED vars
  BY <1>5 DEF vars, IInv, TypeOK, EntriesAreStored, Distinct
<1> QED
  BY <1>1, <1>2, <1>3, <1>4, <1>5, SetStep DEF Next

(* The invariant holds always. *)
LEMMA Invariant == Spec => []IInv
<1> QED
  BY InitIInv, NextIInv, PTL DEF Spec
-----------------------------------------------------------------------------
(* A sequence of distinct keys is as long as the set of them is large. *)
LEMMA DistinctCardinality ==
    ASSUME NEW S, NEW s \in Seq(S), Distinct(s)
    PROVE  Len(s) = Cardinality(ToSet(s))
<1>1. Len(s) \in Nat /\ DOMAIN s = 1..Len(s)
  OBVIOUS
<1>2. IsFiniteSet(1..Len(s)) /\ Cardinality(1..Len(s)) = Len(s)
  BY <1>1, FS_Interval
<1>3. s \in Bijection(1..Len(s), ToSet(s))
  <2>1. s \in [1..Len(s) -> ToSet(s)]
    BY <1>1 DEF ToSet
  <2> QED
    BY <1>1, <2>1 DEF Bijection, Injection, Surjection, IsInjective, ToSet, Distinct
<1> QED
  BY <1>2, <1>3, FS_Bijection DEF ExistsBijection

(* The key order, the entries and the clock have their types. *)
THEOREM TypeCorrect == Spec => []TypeOK
<1>1. IInv => TypeOK
  BY DEF IInv
<1> QED
  BY <1>1, Invariant, PTL

(* The key order and the dictionary never disagree, and the store never    *)
(* exceeds _max_size (get, set and invalidate of ToolOutputCache).         *)
THEOREM StoreSafe == Spec => []StoreConsistent
<1>1. IInv => StoreConsistent
  BY DistinctCardinality DEF IInv, TypeOK, StoreConsistent
<1> QED
  BY <1>1, Invariant, PTL

(* A hit is the value last set under its key since the last invalidation,  *)
(* at most TTL old (ToolOutputCache.get).                                  *)
THEOREM FreshHits == Spec => HitIsFresh
<1>1. ASSUME IInv, NEW k \in Keys, Get(k), result'.value # NoValue
      PROVE  /\ stored[k] # NoValue /\ stored[k].value = result'.value
             /\ now <= stored[k].at + TTL
  <2>1. GetHit(k)
    BY <1>1 DEF Get, GetMissing, GetExpired
  <2>2. /\ k \in DOMAIN entry /\ entry[k].expires >= now /\ result'.value = entry[k].value
    BY <2>1 DEF GetHit
  <2>3. /\ stored[k] \in [at : Nat, value : Values]
        /\ entry[k].value = stored[k].value /\ entry[k].expires = stored[k].at + TTL
    BY <1>1, <2>2 DEF IInv, EntriesAreStored
  <2>4. stored[k] # NoValue
    BY <2>3, NoValueAssumption
  <2>5. stored[k].at + TTL \in Nat /\ now \in Nat
    BY <1>1, <2>3, TTLAssumption DEF IInv, TypeOK
  <2> QED
    BY <2>2, <2>3, <2>4, <2>5
<1>2. IInv => \A k \in Keys : Get(k) /\ result'.value # NoValue =>
                 /\ stored[k] # NoValue /\ stored[k].value = result'.value
                 /\ now <= stored[k].at + TTL
  BY <1>1
<1> QED
  BY <1>2, Invariant, PTL DEF HitIsFresh

(* A set keeps its own key, and drops another only from a full store and   *)
(* only the one used least recently (ToolOutputCache.set).                 *)
THEOREM EvictionOrder == Spec => EvictsOldest
<1>1. ASSUME IInv, NEW k \in Keys, NEW v \in Values, Set(k, v)
      PROVE  /\ k \in DOMAIN entry'
             /\ \A i \in 1..Len(order) :
                   order[i] \notin DOMAIN entry' =>
                       /\ Len(order') = MaxSize
                       /\ \A j \in 1..(i - 1) :
                             order[j] = k \/ order[j] \notin DOMAIN entry'
  <2>1. /\ TypeOK /\ Distinct(order) /\ Len(order) <= MaxSize
        /\ order \in Seq(Keys) /\ Len(order) \in Nat /\ DOMAIN order = 1..Len(order)
    BY <1>1 DEF IInv, TypeOK
  <2>2. order' = TrimOldest(MoveToEnd(order, k)) /\ DOMAIN entry' = ToSet(order')
    BY <1>1 DEF Set
  <2>3. /\ k \in ToSet(order')
        /\ \/ ToSet(order') = ToSet(order) \cup {k}
           \/ /\ Len(order') = MaxSize
              /\ ToSet(order') = (ToSet(order) \cup {k}) \ {order[1]}
    BY <2>1, <2>2, KeptFacts
  <2>4. ASSUME NEW i \in 1..Len(order), order[i] \notin DOMAIN entry'
        PROVE  Len(order') = MaxSize /\ i = 1
    <3>1. order[i] \in ToSet(order) /\ 1 \in DOMAIN order
      BY <2>1 DEF ToSet
    <3>2. Len(order') = MaxSize /\ order[i] = order[1]
      BY <2>2, <2>3, <2>4, <3>1
    <3> QED
      BY <2>1, <3>1, <3>2 DEF Distinct
  <2>5. ASSUME NEW i \in 1..Len(order), order[i] \notin DOMAIN entry'
        PROVE  Len(order') = MaxSize /\ 1..(i - 1) = {}
    BY <2>4, <2>5
  <2> QED
    BY <2>2, <2>3, <2>5
<1>2. IInv => \A k \in Keys, v \in Values : Set(k, v) =>
          /\ k \in DOMAIN entry'
          /\ \A i \in 1..Len(order) :
                order[i] \notin DOMAIN entry' =>
                    /\ Len(order') = MaxSize
                    /\ \A j \in 1..(i - 1) : order[j] = k \/ order[j] \notin DOMAIN entry'
  BY <1>1
<1> QED
  BY <1>2, Invariant, PTL DEF EvictsOldest

(* The cache never invents or moves a value: every call puts one value or  *)
(* forgets some keys of a map (ToolOutputCache as its callers see it).     *)
THEOREM Refinement == Spec => ImplementsLossyMap
<1> DEFINE map == [k \in DOMAIN entry |-> entry[k].value]
<1>1. Init => Abstract!Init
  <2> SUFFICES ASSUME Init PROVE map = << >>
    BY DEF Abstract!Init
  <2>1. DOMAIN entry = {}
    BY DEF Init
  <2> QED
    BY <2>1
<1>2. ASSUME IInv, [Next]_vars PROVE [Abstract!Next]_map
  <2>1. ASSUME entry' = entry PROVE [Abstract!Next]_map
    BY <2>1
  <2>2. ASSUME NEW keys \in SUBSET Keys, entry' = Keep(Keys \ keys)
        PROVE  [Abstract!Next]_map
    <3>1. DOMAIN entry \subseteq Keys
      BY <1>2 DEF IInv, TypeOK
    <3>2. entry' = [x \in DOMAIN entry \ keys |-> entry[x]]
      BY <2>2, <3>1 DEF Keep
    <3>3. map' = [x \in DOMAIN map \ keys |-> map[x]]
      BY <3>2
    <3>4. Abstract!Forget(keys)
      BY <3>3 DEF Abstract!Forget
    <3> QED
      BY <3>4 DEF Abstract!Next
  <2>3. ASSUME NEW k \in Keys, Get(k) PROVE [Abstract!Next]_map
    <3>1. CASE entry' = entry
      BY <3>1, <2>1
    <3>2. CASE entry' = Keep(Keys \ {k})
      BY <3>2, <2>2
    <3> QED
      BY <2>3, <3>1, <3>2 DEF Get, GetMissing, GetExpired, GetHit
  <2>4. ASSUME NEW k \in Keys, Invalidate(k) PROVE [Abstract!Next]_map
    BY <2>2, <2>4 DEF Invalidate
  <2>5. ASSUME InvalidateAll PROVE [Abstract!Next]_map
    <3>1. Keep(Keys \ Keys) = << >>
      <4>1. Keep(Keys \ Keys) = [x \in {} |-> entry[x]]
        BY DEF Keep
      <4>2. [x \in {} |-> entry[x]] = << >>
        OBVIOUS
      <4> QED
        BY <4>1, <4>2
    <3> QED
      BY <3>1, <2>2, <2>5 DEF InvalidateAll
  <2>6. ASSUME NEW k \in Keys, NEW v \in Values, Set(k, v) PROVE [Abstract!Next]_map
    <3> DEFINE new == [expires |-> now + TTL, value |-> v]
    <3>1. entry' = [x \in ToSet(order') |-> IF x = k THEN new ELSE entry[x]]
      BY <2>6 DEF Set
    <3>2. k \in ToSet(order') /\ ToSet(order') \subseteq DOMAIN entry \cup {k}
      <4>1. TypeOK /\ Distinct(order) /\ Len(order) <= MaxSize /\ ToSet(order) = DOMAIN entry
        BY <1>2 DEF IInv
      <4>2. order' = TrimOldest(MoveToEnd(order, k))
        BY <2>6 DEF Set
      <4> QED
        BY <4>1, <4>2, KeptFacts
    <3>3. PICK keys \in SUBSET Keys : keys = DOMAIN entry \ ToSet(order')
      BY <1>2 DEF IInv, TypeOK
    <3>4. new.value = v /\ ToSet(order') = (DOMAIN entry \ keys) \cup {k}
      BY <3>2, <3>3
    <3> HIDE DEF new
    <3>5. map' = [x \in (DOMAIN map \ keys) \cup {k} |-> IF x = k THEN v ELSE map[x]]
      BY <3>1, <3>4
    <3>6. Abstract!Put(k, v, keys)
      BY <3>5 DEF Abstract!Put
    <3> QED
      BY <3>6 DEF Abstract!Next
  <2>7. CASE Tick \/ UNCHANGED vars
    BY <2>1, <2>7 DEF Tick, vars
  <2> QED
    BY <1>2, <2>3, <2>4, <2>5, <2>6, <2>7 DEF Next
<1> QED
  BY <1>1, <1>2, Invariant, PTL DEF Spec, ImplementsLossyMap, Abstract!Spec
=============================================================================
