----------------------------- MODULE PriorityGate -----------------------------
(***************************************************************************)
(* PriorityGate (services/resources/gate.py): the priority queue in front  *)
(* of a resource that runs at most Limit operations at a time.             *)
(*                                                                         *)
(* Every request is one coroutine that calls acquire() once and, if it is  *)
(* admitted, release() once.  One action is one stretch of the event loop  *)
(* between two awaits.  The delicate part is the wait: release() completes *)
(* the future of the best waiter, which resumes only in a later turn of    *)
(* the loop, and in between its timeout may expire or its task may be      *)
(* cancelled.                                                              *)
(***************************************************************************)
EXTENDS Naturals, FiniteSets

CONSTANTS Requests,      \* the requests that may come
          Limit,         \* operations allowed at a time (`limit`)
          Capacity,      \* waiters the queue accepts (`capacity`)
          OrderingKey    \* request.ordering_key: the smaller is served first

ASSUME GateAssumption ==
    /\ IsFiniteSet(Requests)
    /\ Limit \in Nat \ {0}
    /\ Capacity \in Nat \ {0}
    /\ OrderingKey \in [Requests -> Nat]

VARIABLES active,      \* _active: slots in use
          waiters,     \* _waiters: the requests in the heap
          sequence,    \* _sequence: tiebreakers given out
          tiebreaker,  \* the tiebreaker of each request that had to wait
          stage,       \* where each request is
          leaving      \* waits ended by a timeout or a cancellation whose
                       \* handler has not run yet

GateVars == <<active, waiters, sequence, tiebreaker, stage, leaving>>

\* "waiting": its future is pending; "granted": its future is done and the
\* coroutine has not resumed; "holding": it returned from acquire(); "done":
\* it called release(); "rejected": the queue was full; "abandoned": it
\* left without the slot.
Stages ==
    {"idle", "waiting", "granted", "holding", "done", "rejected", "abandoned"}

GateTypeOK ==
    /\ active \in 0..Limit
    /\ waiters \subseteq Requests
    /\ sequence \in Nat
    /\ tiebreaker \in [Requests -> Nat]
    /\ stage \in [Requests -> Stages]
    /\ leaving \subseteq Requests

GateInit ==
    /\ active = 0
    /\ waiters = {}
    /\ sequence = 0
    /\ tiebreaker = [r \in Requests |-> 0]
    /\ stage = [r \in Requests |-> "idle"]
    /\ leaving = {}

------------------------------------------------------------------------------
\* The order of the heap: the request's key, then the order of arrival.
Before(r, w) ==
    \/ OrderingKey[r] < OrderingKey[w]
    \/ OrderingKey[r] = OrderingKey[w] /\ tiebreaker[r] < tiebreaker[w]

\* Mutant of Best: the waiters are not kept in order.
BestUnordered(w) == w \in waiters

\* The waiter that heappop returns.
Best(w) ==
    /\ w \in waiters
    /\ \A v \in waiters \ {w} : Before(w, v)

\* release() called by r, which is then in stage `final`: the slot passes to
\* the best waiter without becoming free; with no waiter it becomes free.
ReleaseSlot(r, final) ==
    \/ /\ waiters = {}
       /\ active' = IF active = 0 THEN 0 ELSE active - 1
       /\ stage' = [stage EXCEPT ![r] = final]
       /\ UNCHANGED waiters
    \/ \E w \in waiters :
         /\ Best(w)
         /\ waiters' = waiters \ {w}
         /\ stage' = [stage EXCEPT ![r] = final, ![w] = "granted"]
         /\ UNCHANGED active

------------------------------------------------------------------------------
\* Mutant of CanEnter: one slot too many.
CanEnterOneMore == active <= Limit /\ waiters = {}

\* The test of the fast path: a free slot and an empty queue.
CanEnter == active < Limit /\ waiters = {}

\* acquire() on the fast path.
Enter(r) ==
    /\ stage[r] = "idle"
    /\ CanEnter
    /\ active' = active + 1
    /\ stage' = [stage EXCEPT ![r] = "holding"]
    /\ UNCHANGED <<waiters, sequence, tiebreaker, leaving>>

\* acquire() with the queue full: resource_queue_overflow.
Reject(r) ==
    /\ stage[r] = "idle"
    /\ ~CanEnter
    /\ Cardinality(waiters) >= Capacity
    /\ stage' = [stage EXCEPT ![r] = "rejected"]
    /\ UNCHANGED <<active, waiters, sequence, tiebreaker, leaving>>

\* acquire() up to its await: the request joins the heap.
Enqueue(r) ==
    /\ stage[r] = "idle"
    /\ ~CanEnter
    /\ Cardinality(waiters) < Capacity
    /\ sequence' = sequence + 1
    /\ tiebreaker' = [tiebreaker EXCEPT ![r] = sequence + 1]
    /\ waiters' = waiters \cup {r}
    /\ stage' = [stage EXCEPT ![r] = "waiting"]
    /\ UNCHANGED <<active, leaving>>

\* The wait of r times out or its task is cancelled.  The shield leaves the
\* future itself alone, and the coroutine sees the exception only when it
\* runs again.
EndWait(r) ==
    /\ stage[r] \in {"waiting", "granted"}
    /\ r \notin leaving
    /\ leaving' = leaving \cup {r}
    /\ UNCHANGED <<active, waiters, sequence, tiebreaker, stage>>

\* The coroutine resumes with the slot it was handed.
Resume(r) ==
    /\ stage[r] = "granted"
    /\ r \notin leaving
    /\ stage' = [stage EXCEPT ![r] = "holding"]
    /\ UNCHANGED <<active, waiters, sequence, tiebreaker, leaving>>

\* Mutant of Discard: a slot granted in the meantime is not passed on.
DiscardLosesSlot(r) ==
    /\ r \in leaving
    /\ leaving' = leaving \ {r}
    /\ waiters' = waiters \ {r}
    /\ stage' = [stage EXCEPT ![r] = "abandoned"]
    /\ UNCHANGED <<active, sequence, tiebreaker>>

\* _discard(): a slot granted in the meantime is passed on, otherwise the
\* request leaves the heap.
Discard(r) ==
    /\ r \in leaving
    /\ leaving' = leaving \ {r}
    /\ \/ /\ stage[r] = "granted"
          /\ ReleaseSlot(r, "abandoned")
       \/ /\ stage[r] = "waiting"
          /\ waiters' = waiters \ {r}
          /\ stage' = [stage EXCEPT ![r] = "abandoned"]
          /\ UNCHANGED active
    /\ UNCHANGED <<sequence, tiebreaker>>

\* release() at the end of the operation.
Release(r) ==
    /\ stage[r] = "holding"
    /\ ReleaseSlot(r, "done")
    /\ UNCHANGED <<sequence, tiebreaker, leaving>>

------------------------------------------------------------------------------
GateNext ==
    \E r \in Requests :
        \/ Enter(r)
        \/ Reject(r)
        \/ Enqueue(r)
        \/ EndWait(r)
        \/ Resume(r)
        \/ Discard(r)
        \/ Release(r)

\* The event loop runs every coroutine that is ready, and the operation under
\* the gate is bounded by its own timeout.  Nothing makes a wait time out.
GateFairness ==
    \A r \in Requests :
        WF_GateVars(Resume(r)) /\ WF_GateVars(Discard(r)) /\ WF_GateVars(Release(r))

GateSpec == GateInit /\ [][GateNext]_GateVars

GateFairSpec == GateSpec /\ GateFairness

------------------------------------------------------------------------------
\* The requests that own a slot, whether or not they know it already.
Owners == {r \in Requests : stage[r] \in {"granted", "holding"}}

\* The counter equals the number of slots really owned: none is lost when a
\* wait ends in the same turn as its grant, and none is given back twice
\* (`_discard`, "Иначе он был бы потерян навсегда").
SlotsConserved == active = Cardinality(Owners)

\* Nobody waits beside a free slot: release() and `_discard` leave no slot idle
\* while the heap has a waiter, so no wake-up is lost.
NoIdleSlot == waiters # {} => active = Limit

\* The two together, with the types: release(), acquire() and `_discard`, called
\* in any order by any number of coroutines, neither lose a slot nor leave one
\* idle.
SlotsAccounted == GateTypeOK /\ SlotsConserved /\ NoIdleSlot

\* The heap holds exactly the requests whose future is pending: release()
\* never meets a finished future, and a request that left is never granted.
HeapIsPending == waiters = {r \in Requests : stage[r] = "waiting"}

\* A slot never goes to a request while one that precedes it in the order of
\* service stays in the queue, and never to a newcomer past the queue.
Served(r) == r \notin Owners /\ r \in Owners'
ServiceInOrder ==
    [][\A r \in Requests : Served(r) =>
            IF stage[r] = "idle" THEN waiters = {} ELSE \A w \in waiters' : Before(r, w)]_GateVars

\* Every request in the queue is served or leaves it: with each holder
\* releasing, the hand-over reaches the whole queue without any timeout.
EveryWaitEnds ==
    \A r \in Requests : stage[r] = "waiting" ~> stage[r] # "waiting"

\* The gate is a limit of Limit permits.
P == INSTANCE Permits WITH inside <- Owners
ImplementsPermits == P!Spec
==============================================================================
