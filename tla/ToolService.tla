---------------------------- MODULE ToolService -----------------------------
(***************************************************************************)
(* What a request to the speculative tool engine is promised, with no      *)
(* speculation, cache, cancellation or timer in sight: one answer, fixed   *)
(* once given.  The answer carries a tool output only if the model called  *)
(* that tool, and only an output some execution of that very call really   *)
(* returned; a cascade that raised is re-raised.                           *)
(***************************************************************************)
CONSTANTS Requests, Keys, None, Outputs

VARIABLES wanted,    \* "open", None (plain text) or the key of the tool call
          answer,    \* [kind, out]: open, text, raised, or tool with its output
          produced   \* outputs tool executions have returned

vars == <<wanted, answer, produced>>

Plain(kind) == [kind |-> kind, out |-> None]

Init == /\ wanted = [r \in Requests |-> "open"]
        /\ answer = [r \in Requests |-> Plain("open")]
        /\ produced = {}

Emit(r) == /\ wanted[r] = "open" /\ answer[r].kind = "open"
           /\ \E k \in Keys \cup {None} : wanted' = [wanted EXCEPT ![r] = k]
           /\ UNCHANGED <<answer, produced>>

Execute(out) == /\ produced' = produced \cup {out}
                /\ UNCHANGED <<wanted, answer>>

Allowed(r) == IF wanted[r] = "open" THEN {Plain("raised")}
              ELSE {Plain("text")} \cup {[kind |-> "tool", out |-> out] :
                                            out \in {o \in produced : o.key = wanted[r]}}

Answer(r) == /\ answer[r].kind = "open"
             /\ \E a \in Allowed(r) : answer' = [answer EXCEPT ![r] = a]
             /\ UNCHANGED <<wanted, produced>>

Next == \/ \E r \in Requests : Emit(r) \/ Answer(r)
        \/ \E out \in Outputs : Execute(out)

Spec == Init /\ [][Next]_vars
=============================================================================
