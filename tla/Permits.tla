------------------------------- MODULE Permits -------------------------------
(***************************************************************************)
(* What a concurrency limit promises its callers: at most Limit of them    *)
(* are inside at any time, and a permit that one of them gives up may pass *)
(* to another in the same step.  PriorityGate implements it.               *)
(***************************************************************************)
EXTENDS Naturals, FiniteSets

CONSTANTS Requests,   \* the callers
          Limit       \* the number of permits

VARIABLE inside       \* the callers that own a permit

Init == inside = {}

\* A caller takes a free permit.
Enter(r) ==
    /\ r \notin inside
    /\ Cardinality(inside) < Limit
    /\ inside' = inside \cup {r}

\* A caller gives its permit back.
Leave(r) ==
    /\ r \in inside
    /\ inside' = inside \ {r}

\* A caller gives its permit back and another one owns it at once: nobody can
\* slip in between.
HandOver(r, w) ==
    /\ r \in inside
    /\ w \notin inside
    /\ inside' = (inside \ {r}) \cup {w}

Next ==
    \E r \in Requests :
        \/ Enter(r)
        \/ Leave(r)
        \/ \E w \in Requests : HandOver(r, w)

Spec == Init /\ [][Next]_inside
==============================================================================
