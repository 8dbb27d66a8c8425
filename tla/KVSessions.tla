----------------------------- MODULE KVSessions -----------------------------
(***************************************************************************)
(* What the KV block manager promises a session, with no physical blocks,  *)
(* reference counts, tiers or locks in sight: the session is the list of   *)
(* the payloads asked for it.  A call delivers the payload it asked for,   *)
(* once, or fails; a session is released as a whole; and what is in the    *)
(* list never changes under it.                                            *)
(***************************************************************************)
EXTENDS Sequences

CONSTANTS Workers, Sessions, Contents, None

VARIABLES view,    \* session -> the payloads of its logical blocks, in order
          asked    \* worker -> <<session, payload>> of its call, or None

vars == <<view, asked>>

Init == /\ view = [s \in Sessions |-> << >>]
        /\ asked = [w \in Workers |-> None]

Ask(w, s, c) == /\ asked[w] = None /\ asked'[w] # None
                /\ asked' = [asked EXCEPT ![w] = <<s, c>>]
                /\ UNCHANGED view

Deliver(w) == /\ asked[w] # None
              /\ asked' = [asked EXCEPT ![w] = None]
              /\ view' = [view EXCEPT ![asked[w][1]] = Append(@, asked[w][2])]

Fail(w) == /\ asked[w] # None
           /\ asked' = [asked EXCEPT ![w] = None]
           /\ UNCHANGED view

Release(s) == /\ UNCHANGED asked
              /\ view' = [view EXCEPT ![s] = << >>]

Next == \/ \E w \in Workers :
              \/ Deliver(w) \/ Fail(w)
              \/ \E s \in Sessions, c \in Contents : Ask(w, s, c)
        \/ \E s \in Sessions : Release(s)

Spec == Init /\ [][Next]_vars
=============================================================================
