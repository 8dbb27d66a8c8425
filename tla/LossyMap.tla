------------------------------ MODULE LossyMap ------------------------------
(***************************************************************************)
(* What a tool-output cache promises its callers, whatever its size, its   *)
(* eviction order and its clock: a partial map from keys to values that    *)
(* changes only by storing a value under a key or by forgetting keys.      *)
(* It may forget anything at any time; it never invents or moves a value.  *)
(***************************************************************************)
CONSTANTS Keys, Values

VARIABLE map   \* a function from some of Keys to Values

Forget(keys) == map' = [k \in DOMAIN map \ keys |-> map[k]]

\* A store may push other entries out, so it is a Put together with a Forget.
Put(k, v, keys) ==
    map' = [x \in (DOMAIN map \ keys) \cup {k} |-> IF x = k THEN v ELSE map[x]]

Init == map = << >>

Next == \E keys \in SUBSET Keys :
            \/ Forget(keys)
            \/ \E k \in Keys, v \in Values : Put(k, v, keys)

Spec == Init /\ [][Next]_map
=============================================================================
