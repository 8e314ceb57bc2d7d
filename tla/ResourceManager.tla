--------------------------- MODULE ResourceManager ---------------------------
(***************************************************************************)
(* ResourceManager (services/resources/manager.py): how one request passes *)
(* the circuit breaker, the gates of its resource, the rate limiter and    *)
(* the common ceiling, runs its operation with retries and gives           *)
(* everything back.                                                        *)
(*                                                                         *)
(* A gate appears as what PriorityGate is proved to implement, a limit on  *)
(* the requests inside (Permits); the breaker as the operations of         *)
(* BreakerState.  The rate limiter appears as reservations paid and a      *)
(* sleep of any length; RateLimiter says how long.  A request that has     *)
(* finished may come again.                                                *)
(***************************************************************************)
EXTENDS BreakerState, Sequences, FiniteSets

CONSTANTS Requests,     \* the coroutines that call execute()
          Gates,        \* the gates, the common ceiling among them
          Ceiling,      \* _GLOBAL_GATE
          Limit,        \* gate -> operations at a time
          Resources,    \* the keys of the breakers
          Resource,     \* request -> its key
          GatesFor,     \* key -> _gates_for(key), from the widest
          Depth,        \* gate -> parts of the name of its scope; the ceiling's
                        \* stands for its place after every scope
          MaxAttempts   \* retry.max_attempts

ASSUME ManagerAssumption ==
    /\ Ceiling \in Gates
    /\ Limit \in [Gates -> Nat \ {0}]
    /\ Resource \in [Requests -> Resources]
    /\ GatesFor \in [Resources -> Seq(Gates \ {Ceiling})]
    /\ MaxAttempts \in Nat \ {0}

\* _gates_for() goes from a scope to a narrower one (ResourceKey.parents); the
\* ceiling comes last for everybody.
ASSUME OrderAssumption ==
    /\ Depth \in [Gates -> Nat]
    /\ \A g \in Gates \ {Ceiling} : Depth[g] < Depth[Ceiling]
    /\ \A k \in Resources : \A j \in 1..Len(GatesFor[k]) : \A i \in 1..(j - 1) :
          Depth[GatesFor[k][i]] < Depth[GatesFor[k][j]]

VARIABLES pc,        \* where each request is
          inside,    \* gate -> the requests that own a slot of it
          breaker,   \* resource -> its circuit breaker
          attempts,  \* request -> calls of its operation so far
          paid,      \* request -> reservations made in the rate limiter
          row        \* history: resource -> logical operations that failed since
                     \* the last success or opening

vars == <<pc, inside, breaker, attempts, paid, row>>

\* "queue": at the gates of the resource; "pacing": asleep until its slot of the
\* rate; "ceiling": at the common gate; "admission": inside it; "call": the
\* operation runs; "backoff" and "repacing": asleep between two attempts.
Waiting == {"queue", "ceiling"}
Retrying == {"backoff", "repacing"}
InRun == {"call"} \cup Retrying
Places == {"idle", "pacing", "admission"} \cup Waiting \cup InRun

TypeOK ==
    /\ pc \in [Requests -> Places]
    /\ inside \in [Gates -> SUBSET Requests]
    /\ breaker \in [Resources -> BreakerType]
    /\ attempts \in [Requests -> 0..MaxAttempts]
    /\ paid \in [Requests -> Nat]
    /\ row \in [Resources -> Nat]

Init ==
    /\ pc = [r \in Requests |-> "idle"]
    /\ inside = [g \in Gates |-> {}]
    /\ breaker = [k \in Resources |-> Closed]
    /\ attempts = [r \in Requests |-> 0]
    /\ paid = [r \in Requests |-> 0]
    /\ row = [k \in Resources |-> 0]

------------------------------------------------------------------------------
\* The row of failures of the resource k when its breaker becomes b and a
\* logical operation has ended with the verdict given.
RowAfter(k, b, verdict) ==
    CASE b.state # "CLOSED" \/ verdict = "success" -> 0
      [] b.state = "CLOSED" /\ verdict = "failure" -> row[k] + 1
      [] b.state = "CLOSED" /\ verdict = "none" -> row[k]

\* The breaker of r becomes b without a verdict on the resource.
BreakerBecomes(r, b) ==
    /\ breaker' = [breaker EXCEPT ![Resource[r]] = b]
    /\ row' = [row EXCEPT ![Resource[r]] = RowAfter(Resource[r], b, "none")]

\* r takes the gate g.
Take(r, g) ==
    /\ r \notin inside[g]
    /\ Cardinality(inside[g]) < Limit[g]
    /\ inside' = [inside EXCEPT ![g] = @ \cup {r}]

\* The outer `finally`: every acquired gate is released in one stretch.
ReleaseGates(r) == inside' = [g \in Gates |-> inside[g] \ {r}]

\* The request is over, however it ended.
Finish(r) ==
    /\ ReleaseGates(r)
    /\ pc' = [pc EXCEPT ![r] = "idle"]
    /\ attempts' = [attempts EXCEPT ![r] = 0]
    /\ paid' = [paid EXCEPT ![r] = 0]

------------------------------------------------------------------------------
\* _execute_controlled() up to the queue: a breaker that is open refuses here.
Start(r) ==
    LET b == Settled(breaker[Resource[r]]) IN
    /\ pc[r] = "idle"
    /\ BreakerBecomes(r, b)
    /\ pc' = [pc EXCEPT ![r] = IF Allows(b) THEN "queue" ELSE "idle"]
    /\ UNCHANGED <<inside, attempts, paid>>

\* Mutant of NextGate: the key's own gate first, then those of its parents.
NextGateOwnFirst(r, g) ==
    LET gates == GatesFor[Resource[r]]
        own == Len(gates) IN
    \E i \in 1..own :
        /\ gates[i] = g
        /\ r \notin inside[g]
        /\ i # own => r \in inside[gates[own]] /\ \A j \in 1..(i - 1) : r \in inside[gates[j]]

\* The first gate of the resource that r does not own yet.
NextGate(r, g) ==
    LET gates == GatesFor[Resource[r]] IN
    \E i \in 1..Len(gates) :
        /\ gates[i] = g
        /\ r \notin inside[g]
        /\ \A j \in 1..(i - 1) : r \in inside[gates[j]]

\* gate.acquire() for the next gate of the resource.
EnterGate(r) ==
    /\ pc[r] = "queue"
    /\ \E g \in Gates : NextGate(r, g) /\ Take(r, g)
    /\ UNCHANGED <<pc, breaker, attempts, paid, row>>

\* _await_rate_limit(): the slot is reserved, and the request sleeps until it.
Reserve(r) ==
    /\ pc[r] = "queue"
    /\ \A i \in 1..Len(GatesFor[Resource[r]]) : r \in inside[GatesFor[Resource[r]][i]]
    /\ pc' = [pc EXCEPT ![r] = "pacing"]
    /\ paid' = [paid EXCEPT ![r] = @ + 1]
    /\ UNCHANGED <<inside, breaker, attempts, row>>

Paced(r) ==
    /\ pc[r] = "pacing"
    /\ pc' = [pc EXCEPT ![r] = "ceiling"]
    /\ UNCHANGED <<inside, breaker, attempts, paid, row>>

\* global_gate.acquire().  The coroutine may resume some turns after the slot
\* was handed to it, so that try_acquire() is a step of its own.
EnterCeiling(r) ==
    /\ pc[r] = "ceiling"
    /\ Take(r, Ceiling)
    /\ pc' = [pc EXCEPT ![r] = "admission"]
    /\ UNCHANGED <<breaker, attempts, paid, row>>

\* try_acquire() admits: the first attempt begins.
Admit(r) ==
    LET b == Settled(breaker[Resource[r]]) IN
    /\ pc[r] = "admission"
    /\ Allows(b)
    /\ BreakerBecomes(r, Acquired(b))
    /\ pc' = [pc EXCEPT ![r] = "call"]
    /\ attempts' = [attempts EXCEPT ![r] = 1]
    /\ UNCHANGED <<inside, paid>>

\* Mutant of Refuse: the error leaves the gates acquired.
RefuseKeepsGates(r) ==
    LET b == Settled(breaker[Resource[r]]) IN
    /\ pc[r] = "admission"
    /\ ~Allows(b)
    /\ BreakerBecomes(r, b)
    /\ pc' = [pc EXCEPT ![r] = "idle"]
    /\ attempts' = [attempts EXCEPT ![r] = 0]
    /\ paid' = [paid EXCEPT ![r] = 0]
    /\ UNCHANGED inside

\* try_acquire() refuses: the breaker changed while the request was queued.
Refuse(r) ==
    LET b == Settled(breaker[Resource[r]]) IN
    /\ pc[r] = "admission"
    /\ ~Allows(b)
    /\ BreakerBecomes(r, b)
    /\ Finish(r)

\* The wait at a gate ends with a timeout, a full queue or a cancellation; the
\* sleep of the rate limiter ends with a cancellation.
GiveUp(r) ==
    /\ pc[r] \in Waiting \cup {"pacing", "admission"}
    /\ Finish(r)
    /\ UNCHANGED <<breaker, row>>

------------------------------------------------------------------------------
\* The end of _run_with_retry() with the breaker at b: release(), then the gates.
EndRun(r, b, verdict) ==
    /\ breaker' = [breaker EXCEPT ![Resource[r]] = Freed(b)]
    /\ row' = [row EXCEPT ![Resource[r]] = RowAfter(Resource[r], b, verdict)]
    /\ Finish(r)

Succeed(r) ==
    /\ pc[r] = "call"
    /\ EndRun(r, OnSuccess(breaker[Resource[r]]), "success")

\* Mutant of FailAndRetry: every attempt counts against the breaker.
FailAndRetryCounted(r) ==
    /\ pc[r] = "call"
    /\ attempts[r] < MaxAttempts
    /\ pc' = [pc EXCEPT ![r] = "backoff"]
    /\ BreakerBecomes(r, OnFailure(breaker[Resource[r]]))
    /\ UNCHANGED <<inside, attempts, paid>>

\* An error that may be repeated, within the budget: the backoff begins.
FailAndRetry(r) ==
    /\ pc[r] = "call"
    /\ attempts[r] < MaxAttempts
    /\ pc' = [pc EXCEPT ![r] = "backoff"]
    /\ UNCHANGED <<inside, breaker, attempts, paid, row>>

\* The last error, of a category that speaks of the resource (_fail_breaker).
FailForGood(r) ==
    /\ pc[r] = "call"
    /\ EndRun(r, OnFailure(breaker[Resource[r]]), "failure")

\* An error of the request or the data, or a cancellation at any await of the
\* run: not counted.
EndUncounted(r) ==
    /\ pc[r] \in InRun
    /\ EndRun(r, breaker[Resource[r]], "none")

\* Mutant of Repace: the repeated call is not paid for.
RepaceUnpaid(r) ==
    /\ pc[r] = "backoff"
    /\ pc' = [pc EXCEPT ![r] = "repacing"]
    /\ UNCHANGED <<inside, breaker, attempts, paid, row>>

\* The backoff is over: a repeated call reserves a slot of the rate of its own.
Repace(r) ==
    /\ pc[r] = "backoff"
    /\ pc' = [pc EXCEPT ![r] = "repacing"]
    /\ paid' = [paid EXCEPT ![r] = @ + 1]
    /\ UNCHANGED <<inside, breaker, attempts, row>>

Retry(r) ==
    /\ pc[r] = "repacing"
    /\ pc' = [pc EXCEPT ![r] = "call"]
    /\ attempts' = [attempts EXCEPT ![r] = @ + 1]
    /\ UNCHANGED <<inside, breaker, paid, row>>

\* Time: the recovery timeout of an open breaker has passed.
RecoveryElapses(k) ==
    /\ breaker[k].state = "OPEN"
    /\ ~breaker[k].elapsed
    /\ breaker' = [breaker EXCEPT ![k].elapsed = TRUE]
    /\ UNCHANGED <<pc, inside, attempts, paid, row>>

------------------------------------------------------------------------------
RunEnds(r) == Succeed(r) \/ FailAndRetry(r) \/ FailForGood(r) \/ EndUncounted(r)

\* What a request does that waits for no other one.
GoesOn(r) ==
    Reserve(r) \/ Paced(r) \/ Admit(r) \/ Refuse(r) \/ RunEnds(r) \/ Repace(r) \/ Retry(r)

Next ==
    \/ \E k \in Resources : RecoveryElapses(k)
    \/ \E r \in Requests :
         \/ Start(r)
         \/ EnterGate(r)
         \/ Reserve(r)
         \/ Paced(r)
         \/ EnterCeiling(r)
         \/ Admit(r)
         \/ Refuse(r)
         \/ GiveUp(r)
         \/ Succeed(r)
         \/ FailAndRetry(r)
         \/ FailForGood(r)
         \/ EndUncounted(r)
         \/ Repace(r)
         \/ Retry(r)

\* Sleeps end, wait_for bounds every call and the loop runs what is ready.  SF at
\* the gates: a slot freed again and again reaches this request too.  It stands
\* for the timeout of the queue, which is not used here: in the code a request
\* that is always overtaken leaves by it (PriorityGate!EveryWaitEnds).
Fairness ==
    \A r \in Requests :
        /\ SF_vars(EnterGate(r) \/ EnterCeiling(r))
        /\ WF_vars(GoesOn(r))

Spec == Init /\ [][Next]_vars

FairSpec == Spec /\ Fairness

------------------------------------------------------------------------------
\* What a request owns follows from where it is: nothing when it is over, so that
\* no end of it (timeout, refusal, cancellation in the middle of the
\* acquisitions) leaks a slot; the first gates of its resource while it queues;
\* all of them from the pacing on; the ceiling from the admission on.
OwnsByProgress(r) ==
    LET gates == GatesFor[Resource[r]] IN
    /\ pc[r] \in InRun \cup {"admission"} => r \in inside[Ceiling]
    /\ pc[r] \notin {"idle", "queue"} =>
          \A i \in 1..Len(gates) : r \in inside[gates[i]]
    /\ \A g \in Gates : r \in inside[g] =>
          /\ pc[r] # "idle"
          /\ \/ g = Ceiling /\ pc[r] \in InRun \cup {"admission"}
             \/ \E j \in 1..Len(gates) :
                    g = gates[j] /\ \A i \in 1..j : r \in inside[gates[i]]

GatesMatchProgress == \A r \in Requests : OwnsByProgress(r)

\* r is at the gate g, and every slot of g is taken.
WaitsAt(r, g) ==
    /\ \/ pc[r] = "queue" /\ NextGate(r, g)
       \/ pc[r] = "ceiling" /\ g = Ceiling
    /\ Cardinality(inside[g]) >= Limit[g]

\* No requests wait for one another in a circle, at whatever gates and whatever
\* each of them holds: among any requests that are all blocked, one waits for a
\* slot that belongs to a request outside them, which has not ended.  So a slot
\* is owned by somebody who will give it back (_gates_for: one order of
\* acquisition for all, so that mutual blocking is impossible).
NoCircularWait ==
    \A blocked \in (SUBSET Requests) \ {{}} :
        (\A r \in blocked : \E g \in Gates : WaitsAt(r, g)) =>
            \E r \in blocked, g \in Gates :
                WaitsAt(r, g) /\ \E k \in inside[g] : pc[k] # "idle" /\ k \notin blocked

\* Every call of an operation, the repeated ones too, was paid for in the rate
\* limiter, and nobody pays more than one slot ahead.
EveryCallPaid ==
    /\ TypeOK
    /\ \A r \in Requests : attempts[r] <= paid[r] /\ paid[r] <= attempts[r] + 1

\* One logical operation is one failure: what the breaker has counted is the
\* number of operations that failed in a row, whatever the number of attempts
\* each of them made (_fail_breaker).
OneFailurePerOperation ==
    \A k \in Resources : breaker[k].state = "CLOSED" => breaker[k].failures = row[k]

\* Every request ends although it waits at several gates while holding others:
\* no deadlock among the gates, the ceiling and the breaker.
EveryRequestEnds == \A r \in Requests : pc[r] # "idle" ~> pc[r] = "idle"
==============================================================================
