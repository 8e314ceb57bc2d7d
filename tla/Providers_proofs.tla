-------------------------- MODULE Providers_proofs --------------------------
(***************************************************************************)
(* What stands between the application and its providers, each part proved *)
(* by itself: the gate lets in so many calls at a time, the limiter so     *)
(* many in a period, the breaker none while the resource is down, and the  *)
(* monitor tells what became of them.  They share no state here; how a     *)
(* call goes through all of the limits is ResourceManager.                 *)
(***************************************************************************)
EXTENDS PriorityGate, CircuitBreaker, RateLimiter, ProviderHealth,
        FiniteSetTheorems, SequenceTheorems, TLAPS

(***************************************************************************)
(* For every set of requests, limit, capacity and order of service: the    *)
(* gate loses no slot, leaves none idle while somebody waits, serves in    *)
(* order, and implements Permits.                                          *)
(***************************************************************************)

\* The four invariants are inductive together: the counter can be related to
\* the owners only while the heap is known to hold exactly the pending ones,
\* and the limit is kept because a slot in demand is never counted free.
GateIInv == GateTypeOK /\ SlotsConserved /\ NoIdleSlot /\ HeapIsPending

\* The owners are finitely many, so they can be counted.
LEMMA OwnersFinite == IsFiniteSet(Owners) /\ Cardinality(Owners) \in Nat
<1>1. Owners \in SUBSET Requests  BY DEF Owners
<1>2. IsFiniteSet(Owners)  BY <1>1, GateAssumption, FS_Subset
<1>3. QED  BY <1>2, FS_CardinalityType

\* A slot given back either becomes free, when nobody waits, or belongs at
\* once to the waiter that precedes all the others (gate.py release()).
LEMMA SlotGivenBack ==
    ASSUME GateIInv, NEW r \in Owners, NEW final \in {"done", "abandoned"},
           ReleaseSlot(r, final)
    PROVE  /\ active' \in 0..Limit
           /\ waiters' \subseteq Requests
           /\ stage' \in [Requests -> Stages]
           /\ SlotsConserved'
           /\ NoIdleSlot'
           /\ HeapIsPending'
           /\ \/ Owners' = Owners \ {r}
              \/ \E w \in Requests \ Owners : Owners' = (Owners \ {r}) \cup {w}
<1> USE DEF GateIInv, GateTypeOK, SlotsConserved, HeapIsPending, Stages
<1>1. r \in Requests /\ stage[r] \in {"granted", "holding"}  BY DEF Owners
<1>2. IsFiniteSet(Owners) /\ Cardinality(Owners) \in Nat  BY OwnersFinite
<1>3. /\ IsFiniteSet(Owners \ {r})
      /\ Cardinality(Owners \ {r}) = active - 1
      /\ active \in Nat \ {0}
  <2>1. Cardinality(Owners) # 0  BY <1>2, FS_EmptySet
  <2>2. QED  BY <1>2, <2>1, FS_RemoveElement
<1>4. CASE /\ waiters = {}
           /\ active' = IF active = 0 THEN 0 ELSE active - 1
           /\ stage' = [stage EXCEPT ![r] = final]
           /\ UNCHANGED waiters
  <2>1. Owners' = Owners \ {r}  BY <1>1, <1>4 DEF Owners
  <2>2. active' = active - 1 /\ active' \in 0..Limit  BY <1>3, <1>4, GateAssumption
  <2>3. SlotsConserved'  BY <1>3, <2>1, <2>2
  <2>4. HeapIsPending'  BY <1>1, <1>4
  <2>5. QED  BY <1>1, <1>4, <2>1, <2>2, <2>3, <2>4 DEF NoIdleSlot
<1>5. ASSUME NEW w \in waiters,
             waiters' = waiters \ {w},
             stage' = [stage EXCEPT ![r] = final, ![w] = "granted"],
             UNCHANGED active
      PROVE  /\ active' \in 0..Limit
             /\ waiters' \subseteq Requests
             /\ stage' \in [Requests -> Stages]
             /\ SlotsConserved'
             /\ NoIdleSlot'
             /\ HeapIsPending'
             /\ w \in Requests \ Owners
             /\ Owners' = (Owners \ {r}) \cup {w}
  <2>1. w \in Requests /\ stage[w] = "waiting" /\ w # r  BY <1>1, <1>5
  <2>2. w \in Requests \ Owners  BY <2>1 DEF Owners
  <2>3. Owners' = (Owners \ {r}) \cup {w}  BY <1>1, <1>5, <2>1 DEF Owners
  <2>4. Cardinality((Owners \ {r}) \cup {w}) = active
    <3>1. w \notin Owners \ {r}  BY <2>2
    <3>2. Cardinality((Owners \ {r}) \cup {w}) = Cardinality(Owners \ {r}) + 1
          BY <1>3, <3>1, FS_AddElement
    <3>3. QED  BY <1>3, <3>2
  <2>5. SlotsConserved'  BY <1>5, <2>3, <2>4
  <2>6. HeapIsPending'  BY <1>1, <1>5, <2>1
  <2>7. NoIdleSlot'  BY <1>5 DEF NoIdleSlot
  <2>8. QED  BY <1>1, <1>5, <2>1, <2>2, <2>3, <2>5, <2>6, <2>7
<1>6. QED  BY <1>4, <1>5 DEF ReleaseSlot

\* What each step of the gate does to the owners, and that it keeps GateIInv.
LEMMA StepOfGate ==
    ASSUME GateIInv, GateNext
    PROVE  GateIInv' /\ (P!Next \/ UNCHANGED Owners)
<1> USE DEF GateIInv, GateTypeOK, SlotsConserved, HeapIsPending, Stages
<1>0. IsFiniteSet(Owners) /\ Cardinality(Owners) \in Nat  BY OwnersFinite
<1>1. ASSUME NEW r \in Requests, Enter(r)
      PROVE  GateIInv' /\ P!Enter(r)
  <2> USE <1>1 DEF Enter, CanEnter
  <2>1. r \notin Owners /\ Owners' = Owners \cup {r}  BY DEF Owners
  <2>2. Cardinality(Owners') = active + 1  BY <1>0, <2>1, FS_AddElement
  <2>3. GateTypeOK' /\ HeapIsPending' /\ NoIdleSlot'
        BY GateAssumption DEF NoIdleSlot
  <2>4. P!Cardinality(Owners) = Cardinality(Owners)
        BY DEF P!Cardinality, Cardinality
  <2>5. P!Enter(r)  BY <2>1, <2>4 DEF P!Enter
  <2>6. QED  BY <2>2, <2>3, <2>5
<1>2. ASSUME NEW r \in Requests, Reject(r)
      PROVE  GateIInv' /\ UNCHANGED Owners
  <2> USE <1>2 DEF Reject
  <2>1. UNCHANGED Owners  BY DEF Owners
  <2>2. QED  BY <2>1 DEF NoIdleSlot
<1>3. ASSUME NEW r \in Requests, Enqueue(r)
      PROVE  GateIInv' /\ UNCHANGED Owners
  <2> USE <1>3 DEF Enqueue, CanEnter
  <2>1. UNCHANGED Owners  BY DEF Owners
  <2>2. GateTypeOK' /\ HeapIsPending'  OBVIOUS
  <2>3. NoIdleSlot'  BY GateAssumption DEF NoIdleSlot
  <2>4. QED  BY <2>1, <2>2, <2>3
<1>4. ASSUME NEW r \in Requests, EndWait(r)
      PROVE  GateIInv' /\ UNCHANGED Owners
  BY <1>4 DEF EndWait, Owners, NoIdleSlot
<1>5. ASSUME NEW r \in Requests, Resume(r)
      PROVE  GateIInv' /\ UNCHANGED Owners
  <2> USE <1>5 DEF Resume
  <2>1. UNCHANGED Owners  BY DEF Owners
  <2>2. QED  BY <2>1 DEF NoIdleSlot
<1>6. ASSUME NEW r \in Requests, Discard(r)
      PROVE  GateIInv' /\ (P!Next \/ UNCHANGED Owners)
  <2>1. CASE stage[r] = "granted" /\ ReleaseSlot(r, "abandoned")
    <3>1. r \in Owners  BY <2>1 DEF Owners
    <3>2. GateIInv'  BY <1>6, <2>1, <3>1, SlotGivenBack DEF Discard
    <3>3. \/ P!Leave(r)
          \/ \E w \in Requests : P!HandOver(r, w)
          BY <2>1, <3>1, SlotGivenBack DEF P!Leave, P!HandOver
    <3>4. QED  BY <3>2, <3>3 DEF P!Next
  <2>2. CASE /\ stage[r] = "waiting"
             /\ waiters' = waiters \ {r}
             /\ stage' = [stage EXCEPT ![r] = "abandoned"]
             /\ UNCHANGED active
    <3>1. UNCHANGED Owners  BY <2>2 DEF Owners
    <3>2. GateTypeOK' /\ HeapIsPending' /\ NoIdleSlot'
          BY <1>6, <2>2 DEF Discard, NoIdleSlot
    <3>3. QED  BY <2>2, <3>1, <3>2
  <2>3. QED  BY <1>6, <2>1, <2>2 DEF Discard
<1>7. ASSUME NEW r \in Requests, Release(r)
      PROVE  GateIInv' /\ P!Next
  <2>1. r \in Owners /\ ReleaseSlot(r, "done")  BY <1>7 DEF Release, Owners
  <2>2. GateIInv'  BY <1>7, <2>1, SlotGivenBack DEF Release
  <2>3. \/ P!Leave(r)
        \/ \E w \in Requests : P!HandOver(r, w)
        BY <2>1, SlotGivenBack DEF P!Leave, P!HandOver
  <2>4. QED  BY <2>2, <2>3 DEF P!Next
<1>8. QED  BY <1>1, <1>2, <1>3, <1>4, <1>5, <1>6, <1>7 DEF GateNext, P!Next

\* The initial gate satisfies the invariant and has no owner.
LEMMA InitialGate == GateInit => GateIInv /\ P!Init
<1> SUFFICES ASSUME GateInit PROVE GateIInv /\ P!Init  OBVIOUS
<1>1. Owners = {}  BY DEF GateInit, Owners
<1>2. Cardinality(Owners) = 0  BY <1>1, FS_EmptySet
<1>3. QED  BY <1>1, <1>2, GateAssumption
           DEF GateInit, GateIInv, GateTypeOK, Stages, SlotsConserved, NoIdleSlot, HeapIsPending, P!Init

\* GateIInv is an invariant of the gate.
LEMMA GateInvariant == GateSpec => []GateIInv
<1>1. GateIInv /\ UNCHANGED GateVars => GateIInv'
      BY DEF GateIInv, GateTypeOK, SlotsConserved, NoIdleSlot, HeapIsPending, Owners, GateVars
<1>2. GateIInv /\ [GateNext]_GateVars => GateIInv'  BY <1>1, StepOfGate
<1>3. QED  BY InitialGate, <1>2, PTL DEF GateSpec

\* The counter and the heap are always of their types; in particular the
\* number of slots in use never exceeds the limit.
THEOREM GateTypeCorrect == GateSpec => []GateTypeOK
BY GateInvariant, PTL DEF GateIInv

\* No slot is lost or given back twice, whenever a timeout or a cancellation
\* meets the grant (gate.py `_discard`).
THEOREM NoSlotLost == GateSpec => []SlotsConserved
BY GateInvariant, PTL DEF GateIInv

\* No wake-up is lost: a waiter means that every slot is in use.
THEOREM NobodyWaitsForNothing == GateSpec => []NoIdleSlot
BY GateInvariant, PTL DEF GateIInv

\* A request that left the queue can not be granted a slot any more.
THEOREM HeapHoldsThePending == GateSpec => []HeapIsPending
BY GateInvariant, PTL DEF GateIInv

\* The order of service is respected by every grant (gate.py release()).
THEOREM ServesInOrder == GateSpec => ServiceInOrder
<1>1. ASSUME GateIInv, GateNext, NEW r \in Requests, Served(r)
      PROVE  IF stage[r] = "idle" THEN waiters = {} ELSE \A w \in waiters' : Before(r, w)
  <2> USE <1>1 DEF Served, Owners, GateIInv, GateTypeOK, HeapIsPending
  <2>1. ASSUME NEW q \in Requests, NEW final \in {"done", "abandoned"},
               ReleaseSlot(q, final)
        PROVE  stage[r] # "idle" /\ \A w \in waiters' : Before(r, w)
    <3>1. PICK w \in waiters :
             /\ Best(w)
             /\ waiters' = waiters \ {w}
             /\ stage' = [stage EXCEPT ![q] = final, ![w] = "granted"]
          BY <2>1 DEF ReleaseSlot
    <3>2. r = w  BY <2>1, <3>1
    <3>3. QED  BY <3>1, <3>2 DEF Best
  <2>2. ASSUME NEW q \in Requests, Enter(q)  PROVE stage[r] = "idle" /\ waiters = {}
        BY <2>2 DEF Enter, CanEnter
  <2>3. ASSUME NEW q \in Requests, Discard(q)
        PROVE  stage[r] # "idle" /\ \A w \in waiters' : Before(r, w)
    <3>1. ReleaseSlot(q, "abandoned")  BY <2>3 DEF Discard
    <3>2. QED  BY <3>1, <2>1
  <2>4. ASSUME NEW q \in Requests, Release(q)
        PROVE  stage[r] # "idle" /\ \A w \in waiters' : Before(r, w)
        BY <2>1, <2>4 DEF Release
  <2>5. ASSUME NEW q \in Requests, Reject(q) \/ Enqueue(q) \/ EndWait(q) \/ Resume(q)
        PROVE  FALSE
        BY <2>5 DEF Reject, Enqueue, EndWait, Resume
  <2>6. QED  BY <2>2, <2>3, <2>4, <2>5 DEF GateNext
<1>2. GateIInv /\ [GateNext]_GateVars =>
        [\A r \in Requests : Served(r) =>
            IF stage[r] = "idle" THEN waiters = {} ELSE \A w \in waiters' : Before(r, w)]_GateVars
      BY <1>1
<1>3. QED  BY <1>2, GateInvariant, PTL DEF GateSpec, ServiceInOrder

\* The gate is a limit of Limit permits: every step of it is a step of Permits
\* or leaves the owners alone.
THEOREM GateImplementsPermits == GateSpec => ImplementsPermits
<1>1. GateIInv /\ [GateNext]_GateVars => [P!Next]_Owners
  <2>1. GateIInv /\ UNCHANGED GateVars => UNCHANGED Owners  BY DEF GateVars, Owners
  <2>2. QED  BY <2>1, StepOfGate
<1>2. QED  BY InitialGate, GateInvariant, <1>1, PTL DEF GateSpec, ImplementsPermits, P!Spec

\* The slots and the queue of every gate are accounted for: those of any number
\* of requests, with any capacities (priority.py, acquire() to release()).
THEOREM SlotsAreAccounted == GateSpec => []SlotsAccounted
BY GateTypeCorrect, NoSlotLost, NobodyWaitsForNothing, PTL DEF SlotsAccounted

------------------------------------------------------------------------------
(***************************************************************************)
(* For every set of calls and all thresholds: a probe slot is occupied     *)
(* only while a probe runs, and no counter survives the state it counts    *)
(* in.                                                                     *)
(***************************************************************************)

\* The slots can be bounded by the probes only because OPEN and CLOSED leave no
\* slot behind, so that a new HALF_OPEN period starts with both at nothing.
BreakerIInv == BreakerTypeOK /\ NoPhantomProbe /\ NoStaleCounters

\* A breaker whose counters are within their limits.
Sound(b) ==
    /\ b \in BreakerType
    /\ b.state # "HALF_OPEN" => b.halfOpenCalls = 0 /\ b.successes = 0
    /\ b.failures < FailureThreshold
    /\ b.successes < SuccessThreshold

\* Reading `state` leaves the breaker alone or starts a HALF_OPEN period without
\* calls and successes.
LEMMA SettledSound ==
    ASSUME NEW b, Sound(b)
    PROVE  /\ Sound(Settled(b))
           /\ \/ Settled(b) = b
              \/ b.state = "OPEN" /\ Settled(b).halfOpenCalls = 0
<1> DEFINE h == [b EXCEPT !.state = "HALF_OPEN", !.halfOpenCalls = 0, !.successes = 0]
<1>1. \/ Settled(b) = b
      \/ b.state = "OPEN" /\ Settled(b) = h
      BY Zenon DEF Settled
<1>2. /\ h \in BreakerType
      /\ h.state = "HALF_OPEN" /\ h.failures = b.failures
      /\ h.successes = 0 /\ h.halfOpenCalls = 0
      BY DEF Sound, BreakerType, BreakerStates
<1>3. Sound(h)  BY <1>2, BreakerAssumption DEF Sound
<1>4. QED  BY <1>1, <1>2, <1>3

\* _open() and _close() leave no counter behind.
LEMMA FreshSound ==
    /\ Sound(Opened) /\ Opened.halfOpenCalls = 0
    /\ Sound(Closed) /\ Closed.halfOpenCalls = 0
BY BreakerAssumption DEF Sound, BreakerType, BreakerStates, Opened, Closed, Fresh

\* release() lowers one counter.
LEMMA FreedSound ==
    ASSUME NEW b, Sound(b)
    PROVE  /\ Sound(Freed(b))
           /\ Freed(b).state = b.state
           /\ Freed(b).halfOpenCalls =
                IF b.halfOpenCalls = 0 THEN 0 ELSE b.halfOpenCalls - 1
<1> DEFINE n == IF b.halfOpenCalls = 0 THEN 0 ELSE b.halfOpenCalls - 1
<1>1. n \in Nat /\ (b.halfOpenCalls = 0 => n = 0)  BY DEF Sound, BreakerType
<1> HIDE DEF n
<1>2. /\ [b EXCEPT !.halfOpenCalls = n] \in BreakerType
      /\ [b EXCEPT !.halfOpenCalls = n].state = b.state
      /\ [b EXCEPT !.halfOpenCalls = n].failures = b.failures
      /\ [b EXCEPT !.halfOpenCalls = n].successes = b.successes
      /\ [b EXCEPT !.halfOpenCalls = n].halfOpenCalls = n
      BY <1>1 DEF Sound, BreakerType
<1>3. Freed(b) = [b EXCEPT !.halfOpenCalls = n]  BY DEF Freed, n
<1>4. QED  BY <1>1, <1>2, <1>3 DEF Sound, n

\* try_acquire() takes a slot in HALF_OPEN and nothing elsewhere.
LEMMA AcquiredSound ==
    ASSUME NEW b, Sound(b)
    PROVE  /\ Sound(Acquired(b))
           /\ b.state = "HALF_OPEN" => Acquired(b).halfOpenCalls = b.halfOpenCalls + 1
           /\ b.state # "HALF_OPEN" => Acquired(b) = b
<1> DEFINE n == b.halfOpenCalls + 1
           a == [b EXCEPT !.halfOpenCalls = n]
<1>1. n \in Nat  BY DEF Sound, BreakerType
<1> HIDE DEF n
<1>2. /\ a \in BreakerType /\ a.state = b.state /\ a.failures = b.failures
      /\ a.successes = b.successes /\ a.halfOpenCalls = n
      BY <1>1 DEF Sound, BreakerType
<1>3. Acquired(b) = IF b.state = "HALF_OPEN" THEN a ELSE b  BY DEF Acquired, n
<1>4. b.state = "HALF_OPEN" => Sound(a)  BY <1>2 DEF Sound
<1>5. QED  BY <1>2, <1>3, <1>4 DEF n

\* Reporting an outcome never takes a slot, and leaves none to a HALF_OPEN
\* period that it starts or ends.
LEMMA ReportSound ==
    ASSUME NEW b, Sound(b), NEW t \in {OnSuccess(b), OnFailure(b)}
    PROVE  /\ Sound(t)
           /\ t.halfOpenCalls <= b.halfOpenCalls
           /\ b.state # "HALF_OPEN" => t.halfOpenCalls = 0
<1> DEFINE s == Settled(b)
<1>1. /\ Sound(s)
      /\ s.halfOpenCalls <= b.halfOpenCalls
      /\ b.state # "HALF_OPEN" => s.halfOpenCalls = 0
      BY SettledSound DEF Sound, BreakerType
<1>2. b.halfOpenCalls \in Nat  BY DEF Sound, BreakerType
<1>3. ASSUME NEW f \in Nat, f < FailureThreshold
      PROVE  /\ Sound([s EXCEPT !.failures = f])
             /\ [s EXCEPT !.failures = f].halfOpenCalls = s.halfOpenCalls
  <2>1. /\ [s EXCEPT !.failures = f] \in BreakerType
        /\ [s EXCEPT !.failures = f].state = s.state
        /\ [s EXCEPT !.failures = f].failures = f
        /\ [s EXCEPT !.failures = f].successes = s.successes
        /\ [s EXCEPT !.failures = f].halfOpenCalls = s.halfOpenCalls
        BY <1>1 DEF Sound, BreakerType
  <2>2. QED  BY <1>1, <1>3, <2>1 DEF Sound
<1>4. ASSUME NEW n \in Nat, n < SuccessThreshold, s.state = "HALF_OPEN"
      PROVE  /\ Sound([s EXCEPT !.successes = n])
             /\ [s EXCEPT !.successes = n].halfOpenCalls = s.halfOpenCalls
  <2>1. /\ [s EXCEPT !.successes = n] \in BreakerType
        /\ [s EXCEPT !.successes = n].state = s.state
        /\ [s EXCEPT !.successes = n].failures = s.failures
        /\ [s EXCEPT !.successes = n].successes = n
        /\ [s EXCEPT !.successes = n].halfOpenCalls = s.halfOpenCalls
        BY <1>1 DEF Sound, BreakerType
  <2>2. QED  BY <1>1, <1>4, <2>1 DEF Sound
<1>5. s.failures + 1 \in Nat /\ s.successes + 1 \in Nat
      BY <1>1 DEF Sound, BreakerType
<1>6. CASE t = OnSuccess(b)
  <2>1. \/ t = Closed
        \/ t = [s EXCEPT !.failures = 0]
        \/ /\ s.state = "HALF_OPEN"
           /\ ~(s.successes + 1 >= SuccessThreshold)
           /\ t = [s EXCEPT !.successes = s.successes + 1]
        BY <1>6, Zenon DEF OnSuccess
  <2>2. 0 \in Nat /\ 0 < FailureThreshold  BY BreakerAssumption
  <2>3. ~(s.successes + 1 >= SuccessThreshold) => s.successes + 1 < SuccessThreshold
        BY <1>5, BreakerAssumption
  <2>4. CASE t = Closed  BY <1>2, <2>4, FreshSound
  <2>5. CASE t = [s EXCEPT !.failures = 0]
    <3>1. Sound(t) /\ t.halfOpenCalls = s.halfOpenCalls  BY <1>3, <2>2, <2>5
    <3>2. QED  BY <1>1, <3>1
  <2>6. CASE /\ s.state = "HALF_OPEN"
             /\ ~(s.successes + 1 >= SuccessThreshold)
             /\ t = [s EXCEPT !.successes = s.successes + 1]
    <3>1. Sound(t) /\ t.halfOpenCalls = s.halfOpenCalls
          BY <1>4, <1>5, <2>3, <2>6
    <3>2. QED  BY <1>1, <3>1
  <2>7. QED  BY <2>1, <2>4, <2>5, <2>6
<1>7. CASE t = OnFailure(b)
  <2>1. \/ t = Opened
        \/ /\ ~(s.failures + 1 >= FailureThreshold)
           /\ t = [s EXCEPT !.failures = s.failures + 1]
        BY <1>7, Zenon DEF OnFailure
  <2>2. ~(s.failures + 1 >= FailureThreshold) => s.failures + 1 < FailureThreshold
        BY <1>5, BreakerAssumption
  <2>3. CASE t = Opened  BY <1>2, <2>3, FreshSound
  <2>4. CASE /\ ~(s.failures + 1 >= FailureThreshold)
             /\ t = [s EXCEPT !.failures = s.failures + 1]
    <3>1. Sound(t) /\ t.halfOpenCalls = s.halfOpenCalls
          BY <1>3, <1>5, <2>2, <2>4
    <3>2. QED  BY <1>1, <3>1
  <2>5. QED  BY <2>1, <2>3, <2>4
<1>8. QED  BY <1>6, <1>7

\* The probes are finitely many.
LEMMA ProbesFinite ==
    ASSUME BreakerTypeOK
    PROVE  IsFiniteSet(probes) /\ Cardinality(probes) \in Nat
BY CallsAssumption, FS_Subset, FS_CardinalityType DEF BreakerTypeOK

\* A step that changes the breaker by a method and leaves the calls that run
\* alone keeps the slots below the probes.
LEMMA QuietStep ==
    ASSUME BreakerIInv, NEW c \in Calls, call[c] # "running",
           breaker' = Settled(breaker),
           probes' = ProbesAfter(breaker', probes),
           NEW p \in {"idle", "queued"}, call' = [call EXCEPT ![c] = p],
           UNCHANGED healthy
    PROVE  BreakerIInv'
<1> USE DEF BreakerIInv
<1>1. Sound(breaker)  BY DEF BreakerTypeOK, NoStaleCounters, Sound
<1>2. /\ Sound(breaker')
      /\ breaker'.halfOpenCalls <= breaker.halfOpenCalls
      /\ breaker.state # "HALF_OPEN" => breaker'.halfOpenCalls = 0
      BY <1>1, SettledSound DEF Sound, BreakerType
<1>3. BreakerTypeOK'  BY <1>2 DEF Sound, BreakerTypeOK, ProbesAfter
<1>4. probes' \subseteq Running'
      BY DEF ProbesAfter, NoPhantomProbe, Running, BreakerTypeOK
<1>5. breaker'.halfOpenCalls <= Cardinality(probes')
  <2>1. CASE breaker'.state = "HALF_OPEN" /\ breaker.state = "HALF_OPEN"
    <3>1. probes' = probes  BY <2>1 DEF ProbesAfter
    <3>2. QED  BY <1>1, <1>2, <3>1, ProbesFinite
               DEF NoPhantomProbe, Sound, BreakerType
  <2>2. CASE ~(breaker'.state = "HALF_OPEN" /\ breaker.state = "HALF_OPEN")
    <3>1. probes' = {}  BY <2>2 DEF ProbesAfter
    <3>2. breaker'.halfOpenCalls = 0  BY <1>2, <2>2 DEF Sound
    <3>3. QED  BY <3>1, <3>2, FS_EmptySet
  <2>3. QED  BY <2>1, <2>2
<1>6. NoStaleCounters'  BY <1>2 DEF NoStaleCounters, Sound
<1>7. QED  BY <1>3, <1>4, <1>5, <1>6 DEF NoPhantomProbe

\* An admitted call takes a slot and is a probe, both or neither.
LEMMA AdmitStep ==
    ASSUME BreakerIInv, NEW c \in Calls, Admit(c)
    PROVE  BreakerIInv'
<1> DEFINE b == Settled(breaker)
<1> USE DEF BreakerIInv
<1>0. Sound(breaker)  BY DEF BreakerTypeOK, NoStaleCounters, Sound
<1>1. /\ Sound(b)
      /\ b.halfOpenCalls <= breaker.halfOpenCalls
      /\ breaker.state # "HALF_OPEN" => b.halfOpenCalls = 0
      /\ breaker.halfOpenCalls \in Nat /\ b.halfOpenCalls \in Nat
      BY <1>0, SettledSound DEF Sound, BreakerType
<1> HIDE DEF b
<1>a. /\ Sound(breaker')
      /\ b.state = "HALF_OPEN" => breaker'.halfOpenCalls = b.halfOpenCalls + 1
      /\ b.state # "HALF_OPEN" => breaker'.halfOpenCalls = b.halfOpenCalls
  <2>1. breaker' = Acquired(b)  BY DEF Admit, b
  <2>2. QED  BY <1>1, <2>1, AcquiredSound
<1>b. probes' = IF b.state = "HALF_OPEN" THEN ProbesAfter(b, probes) \cup {c} ELSE {}
      BY DEF Admit, b
<1>2. c \notin probes /\ probes \subseteq Calls
      BY DEF Admit, NoPhantomProbe, Running, BreakerTypeOK
<1>3. BreakerTypeOK'  BY <1>a, <1>b, <1>2 DEF Admit, Sound, BreakerTypeOK, ProbesAfter
<1>4. probes' \subseteq Running'
      BY <1>b DEF Admit, ProbesAfter, NoPhantomProbe, Running, BreakerTypeOK
<1>5. breaker'.halfOpenCalls <= Cardinality(probes')
  <2>1. CASE b.state = "HALF_OPEN" /\ breaker.state = "HALF_OPEN"
    <3>1. probes' = probes \cup {c}  BY <1>b, <2>1 DEF ProbesAfter
    <3>2. Cardinality(probes') = Cardinality(probes) + 1
          BY <1>2, <3>1, ProbesFinite, FS_AddElement
    <3>3. QED  BY <1>1, <1>a, <2>1, <3>2, ProbesFinite DEF NoPhantomProbe
  <2>2. CASE b.state = "HALF_OPEN" /\ breaker.state # "HALF_OPEN"
    <3>1. probes' = {c}  BY <1>b, <2>2 DEF ProbesAfter
    <3>2. breaker'.halfOpenCalls = 1  BY <1>1, <1>a, <2>2
    <3>3. Cardinality({c}) = 1  BY FS_Singleton, Zenon
    <3>4. QED  BY <3>1, <3>2, <3>3
  <2>3. CASE b.state # "HALF_OPEN"
    <3>1. probes' = {}  BY <1>b, <2>3
    <3>2. breaker'.halfOpenCalls = 0  BY <1>1, <1>a, <2>3 DEF Sound
    <3>3. QED  BY <3>1, <3>2, FS_EmptySet
  <2>4. QED  BY <2>1, <2>2, <2>3
<1>6. NoStaleCounters'  BY <1>a DEF NoStaleCounters, Sound
<1>7. QED  BY <1>3, <1>4, <1>5, <1>6 DEF NoPhantomProbe

\* A call that ends gives one slot back, its own or, if it was not a probe, one
\* of somebody else's: either way the slots stay below the probes.
LEMMA EndStep ==
    ASSUME BreakerIInv, NEW c \in Calls,
           NEW t \in {breaker, OnSuccess(breaker), OnFailure(breaker)}, End(c, t)
    PROVE  BreakerIInv'
<1> USE DEF BreakerIInv
<1>1. Sound(breaker)  BY DEF BreakerTypeOK, NoStaleCounters, Sound
<1>2. /\ Sound(t)
      /\ t.halfOpenCalls <= breaker.halfOpenCalls
      /\ breaker.state # "HALF_OPEN" => t.halfOpenCalls = 0
      BY <1>1, ReportSound DEF Sound, BreakerType
<1>3. Sound(breaker')  BY <1>2, FreedSound DEF End
<1>4. BreakerTypeOK'  BY <1>3 DEF End, Sound, BreakerTypeOK, ProbesAfter
<1>5. probes' \subseteq Running'
      BY DEF End, ProbesAfter, NoPhantomProbe, Running, BreakerTypeOK
<1>6. breaker'.state = t.state
      /\ breaker'.halfOpenCalls = IF t.halfOpenCalls = 0 THEN 0 ELSE t.halfOpenCalls - 1
      BY <1>2, FreedSound DEF End
<1>7. breaker'.halfOpenCalls <= Cardinality(probes')
  <2>1. CASE breaker'.state = "HALF_OPEN" /\ breaker.state = "HALF_OPEN"
    <3>1. probes' = probes \ {c}  BY <2>1 DEF End, ProbesAfter
    <3>2. /\ Cardinality(probes') \in Nat
          /\ Cardinality(probes') >= Cardinality(probes) - 1
      <4>1. IsFiniteSet(probes') /\ Cardinality(probes') \in Nat
            BY <3>1, ProbesFinite, FS_RemoveElement, FS_CardinalityType
      <4>2. Cardinality(probes') = IF c \in probes THEN Cardinality(probes) - 1
                                   ELSE Cardinality(probes)
            BY <3>1, ProbesFinite, FS_RemoveElement
      <4>3. QED  BY <4>1, <4>2, ProbesFinite
    <3>3. QED  BY <1>1, <1>2, <1>6, <3>2, ProbesFinite
               DEF NoPhantomProbe, Sound, BreakerType
  <2>2. CASE ~(breaker'.state = "HALF_OPEN" /\ breaker.state = "HALF_OPEN")
    <3>1. probes' = {}  BY <2>2 DEF End, ProbesAfter
    <3>2. breaker'.halfOpenCalls = 0  BY <1>2, <1>6, <2>2 DEF Sound
    <3>3. QED  BY <3>1, <3>2, FS_EmptySet
  <2>3. QED  BY <2>1, <2>2
<1>8. NoStaleCounters'  BY <1>3 DEF NoStaleCounters, Sound
<1>9. QED  BY <1>4, <1>5, <1>7, <1>8 DEF NoPhantomProbe

\* BreakerIInv is an invariant of the breaker.
LEMMA BreakerInvariant == BreakerSpec => []BreakerIInv
<1>1. BreakerInit => BreakerIInv
  <2> SUFFICES ASSUME BreakerInit PROVE BreakerIInv  OBVIOUS
  <2>1. Cardinality(probes) = 0  BY FS_EmptySet DEF BreakerInit
  <2>2. Sound(breaker) /\ breaker.halfOpenCalls = 0  BY FreshSound DEF BreakerInit
  <2>3. BreakerTypeOK  BY <2>2 DEF BreakerInit, BreakerTypeOK, Sound
  <2>4. NoPhantomProbe  BY <2>1, <2>2 DEF BreakerInit, NoPhantomProbe
  <2>5. NoStaleCounters  BY <2>2 DEF NoStaleCounters, Sound
  <2>6. QED  BY <2>3, <2>4, <2>5 DEF BreakerIInv
<1>2. BreakerIInv /\ [BreakerNext]_BreakerVars => BreakerIInv'
  <2> SUFFICES ASSUME BreakerIInv, [BreakerNext]_BreakerVars PROVE BreakerIInv'  OBVIOUS
  <2>1. CASE RecoveryElapses
    <3>1. /\ breaker' \in BreakerType
          /\ breaker'.state = breaker.state
          /\ breaker'.failures = breaker.failures
          /\ breaker'.successes = breaker.successes
          /\ breaker'.halfOpenCalls = breaker.halfOpenCalls
          BY <2>1 DEF RecoveryElapses, BreakerIInv, BreakerTypeOK, BreakerType
    <3>2. QED  BY <2>1, <3>1
               DEF RecoveryElapses, BreakerIInv, BreakerTypeOK, NoPhantomProbe, NoStaleCounters, Running
  <2>2. CASE Heal
        BY <2>2 DEF Heal, BreakerIInv, BreakerTypeOK, NoPhantomProbe, NoStaleCounters, Running
  <2>3. ASSUME NEW c \in Calls, Ask(c)  PROVE BreakerIInv'
    <3>1. /\ call[c] # "running"
          /\ breaker' = Settled(breaker)
          /\ probes' = ProbesAfter(breaker', probes)
          /\ UNCHANGED healthy
          BY <2>3 DEF Ask
    <3>2. \E p \in {"idle", "queued"} : call' = [call EXCEPT ![c] = p]
          BY <2>3 DEF Ask
    <3>3. QED  BY <3>1, <3>2, QuietStep
  <2>4. ASSUME NEW c \in Calls, Refuse(c)  PROVE BreakerIInv'
        BY <2>4, QuietStep DEF Refuse
  <2>5. ASSUME NEW c \in Calls, GiveUp(c)  PROVE BreakerIInv'
        BY <2>5 DEF GiveUp, BreakerIInv, BreakerTypeOK, NoPhantomProbe, NoStaleCounters, Running
  <2>6. ASSUME NEW c \in Calls, Succeed(c) \/ Fail(c) \/ EndUncounted(c)  PROVE BreakerIInv'
        BY <2>6, EndStep DEF Succeed, Fail, EndUncounted
  <2>7. CASE UNCHANGED BreakerVars
        BY <2>7 DEF BreakerVars, BreakerIInv, BreakerTypeOK, NoPhantomProbe, NoStaleCounters, Running
  <2>8. QED  BY <2>1, <2>2, <2>3, <2>4, <2>5, <2>6, <2>7, AdmitStep DEF BreakerNext
<1>3. QED  BY <1>1, <1>2, PTL DEF BreakerSpec

\* The breaker, the calls and the probes are always of their types.
THEOREM BreakerTypeCorrect == BreakerSpec => []BreakerTypeOK
BY BreakerInvariant, PTL DEF BreakerIInv

\* No probe slot stays occupied after its probe has ended, however it ended
\* (circuit.py release(), manager.py _execute_controlled).
THEOREM NoProbeSlotLeaks == BreakerSpec => []NoPhantomProbe
BY BreakerInvariant, PTL DEF BreakerIInv

\* No counter outlives the state it counts in or passes its threshold.
THEOREM CountersWithinLimits == BreakerSpec => []NoStaleCounters
BY BreakerInvariant, PTL DEF BreakerIInv

\* The counters of the breaker tell the truth about the calls that run and about
\* the period they count in (circuit.py).
THEOREM CountersAreTrue == BreakerSpec => []CountersTrue
BY BreakerTypeCorrect, NoProbeSlotLeaks, CountersWithinLimits, PTL DEF CountersTrue

------------------------------------------------------------------------------
(***************************************************************************)
(* What holds of the rate limiter for every rate, burst, interval and      *)
(* pattern of calls.                                                       *)
(***************************************************************************)

\* The slot given out last is the last of the history; without an interval it
\* is the moment at which the debt of the bucket is covered.
LastSlotInv ==
    /\ granted = <<>> <=> lastSlot = NoSlot
    /\ granted # <<>> => lastSlot = granted[Len(granted)].slot
    /\ granted # <<>> /\ Interval = 0 => lastSlot = updatedAt + AtLeast(0, -tokens)

LimiterIInv == LimiterTypeOK /\ LastSlotInv /\ SlotsSpaced

LEMMA PaidType == LimiterTypeOK => Paid \in Nat
<1> SUFFICES ASSUME LimiterTypeOK PROVE Paid \in Nat
  OBVIOUS
<1>1. granted \in Seq(Reservations)
  BY DEF LimiterTypeOK
<1>2. ASSUME granted # <<>> PROVE granted[Len(granted)].paid \in Nat
  <2>1. granted[Len(granted)] \in Reservations
    BY <1>1, <1>2
  <2>2. QED BY <2>1 DEF Reservations
<1>3. QED BY <1>2 DEF Paid

\* What reserve() computes has the right type and never precedes the slot before.
LEMMA ReserveFacts ==
    ASSUME LimiterIInv, NEW units \in 1..MaxUnits
    PROVE  LET cost == units * TokenParts
               t == Refilled - cost
               slot == ApplyMinInterval(Ready(t))
           IN  /\ cost \in Nat
               /\ t \in Int /\ t <= Full
               /\ slot \in Nat
               /\ slot >= now
               /\ granted # <<>> => slot >= lastSlot + Interval
               /\ Interval = 0 => slot = now + AtLeast(0, -t)
<1> DEFINE cost == units * TokenParts
           t == Refilled - cost
           slot == ApplyMinInterval(Ready(t))
<1>0. TokenParts \in Nat /\ Burst \in Nat /\ Interval \in Nat /\ units \in Nat /\ units > 0
      /\ TokenParts > 0
  BY LimiterAssumption
<1>1. cost \in Nat /\ Full \in Nat
  BY <1>0, SMT DEF Full
<1>2. now \in Nat /\ updatedAt \in Nat /\ updatedAt <= now /\ tokens \in Int /\ tokens <= Full
  BY DEF LimiterIInv, LimiterTypeOK
<1>3. Refilled \in Int /\ Refilled <= Full /\ Refilled <= tokens + (now - updatedAt)
  BY <1>1, <1>2 DEF Refilled, AtMost
<1>4. t \in Int /\ t <= Full /\ t <= tokens + (now - updatedAt)
  BY <1>1, <1>2, <1>3
<1>5. Ready(t) \in Nat /\ Ready(t) >= now /\ Ready(t) = now + AtLeast(0, -t)
  BY <1>2, <1>4 DEF Ready, AtLeast
<1>6. lastSlot \in Nat \cup {NoSlot}
  BY DEF LimiterIInv, LimiterTypeOK
<1> HIDE DEF t
<1>7. slot \in Nat /\ slot >= now
  <2>1. CASE Interval = 0 \/ lastSlot = NoSlot
    BY <2>1, <1>5 DEF ApplyMinInterval
  <2>2. CASE ~(Interval = 0 \/ lastSlot = NoSlot)
    BY <2>2, <1>0, <1>2, <1>5, <1>6 DEF ApplyMinInterval, AtLeast, NoSlot
  <2>3. QED BY <2>1, <2>2
<1>8. Interval = 0 => slot = now + AtLeast(0, -t)
  BY <1>5 DEF ApplyMinInterval
<1>9. granted # <<>> => slot >= lastSlot + Interval
  <2> SUFFICES ASSUME granted # <<>> PROVE slot >= lastSlot + Interval
    OBVIOUS
  <2>1. lastSlot \in Nat /\ lastSlot # NoSlot
    BY <1>6 DEF LimiterIInv, LastSlotInv
  <2>2. CASE Interval = 0
    <3>1. lastSlot = updatedAt + AtLeast(0, -tokens)
      BY <2>2 DEF LimiterIInv, LastSlotInv
    <3>2. updatedAt + AtLeast(0, -tokens) <= now + AtLeast(0, -t)
      BY <1>2, <1>4 DEF AtLeast
    <3>3. QED BY <3>1, <3>2, <2>1, <2>2, <1>8
  <2>3. CASE Interval # 0
    BY <2>1, <2>3, <1>0, <1>5 DEF ApplyMinInterval, AtLeast
  <2>4. QED BY <2>2, <2>3
<1>10. QED
  BY <1>1, <1>4, <1>7, <1>8, <1>9 DEF t

LEMMA InitInv == LimiterInit => LimiterIInv
<1> SUFFICES ASSUME LimiterInit PROVE LimiterIInv
  OBVIOUS
<1>1. Full \in Nat
  BY LimiterAssumption, SMT DEF Full
<1>2. LimiterTypeOK
  BY <1>1 DEF LimiterInit, LimiterTypeOK, NoSlot
<1>3. LastSlotInv /\ SlotsSpaced
  BY DEF LimiterInit, LastSlotInv, SlotsSpaced
<1>4. QED BY <1>2, <1>3 DEF LimiterIInv

LEMMA NextInv == LimiterIInv /\ [LimiterNext]_LimiterVars => LimiterIInv'
<1> SUFFICES ASSUME LimiterIInv, [LimiterNext]_LimiterVars PROVE LimiterIInv'
  OBVIOUS
<1>1. CASE Tick
  <2>1. UNCHANGED <<tokens, updatedAt, lastSlot, granted>> /\ now' = now + 1
    BY <1>1 DEF Tick
  <2>2. LimiterTypeOK'
    BY <2>1 DEF LimiterIInv, LimiterTypeOK, Full
  <2>3. LastSlotInv' /\ SlotsSpaced'
    BY <2>1 DEF LimiterIInv, LastSlotInv, SlotsSpaced, AtLeast
  <2>4. QED BY <2>2, <2>3 DEF LimiterIInv
<1>2. ASSUME NEW units \in 1..MaxUnits, Reserve(units) PROVE LimiterIInv'
  <2> DEFINE cost == units * TokenParts
             t == Refilled - cost
             slot == ApplyMinInterval(Ready(t))
             g == [at |-> now, paid |-> Paid + cost, slot |-> slot]
  <2>1. /\ cost \in Nat /\ t \in Int /\ t <= Full /\ slot \in Nat
        /\ granted # <<>> => slot >= lastSlot + Interval
        /\ Interval = 0 => slot = now + AtLeast(0, -t)
    BY <1>2, ReserveFacts
  <2>2. /\ tokens' = t /\ updatedAt' = now /\ lastSlot' = slot /\ now' = now
        /\ granted' = Append(granted, g)
    BY <1>2 DEF Reserve
  <2> HIDE DEF cost, t, slot
  <2>3. now \in Nat /\ granted \in Seq(Reservations)
    BY DEF LimiterIInv, LimiterTypeOK
  <2>4. g \in Reservations
    BY <2>1, <2>3, PaidType DEF Reservations, LimiterIInv
  <2> HIDE DEF g
  <2>5. granted' \in Seq(Reservations) /\ Len(granted') = Len(granted) + 1
        /\ granted'[Len(granted')] = g
        /\ \A i \in 1..Len(granted) : granted'[i] = granted[i]
    BY <2>2, <2>3, <2>4
  <2>6. LimiterTypeOK'
    BY <2>1, <2>2, <2>3, <2>5 DEF LimiterTypeOK, Full
  <2>7. g.slot = slot
    BY DEF g
  <2>8. LastSlotInv'
    <3>1. granted' # <<>>
      BY <2>2, <2>3, <2>5
    <3>2. slot # NoSlot
      BY <2>1 DEF NoSlot
    <3>3. QED BY <3>1, <3>2, <2>1, <2>2, <2>5, <2>7 DEF LastSlotInv
  <2>9. SlotsSpaced'
    <3> SUFFICES ASSUME NEW j \in 2..Len(granted')
                 PROVE  granted'[j].slot >= granted'[j - 1].slot + Interval
      BY DEF SlotsSpaced
    <3>1. CASE j <= Len(granted)
      BY <3>1, <2>3, <2>5 DEF LimiterIInv, SlotsSpaced
    <3>2. CASE j = Len(granted')
      <4>1. granted # <<>> /\ j - 1 = Len(granted) /\ Len(granted) \in 1..Len(granted)
        BY <3>2, <2>3, <2>5
      <4>2. granted'[j - 1].slot = lastSlot
        BY <4>1, <2>5 DEF LimiterIInv, LastSlotInv
      <4>3. QED BY <3>2, <4>1, <4>2, <2>1, <2>5, <2>7
    <3>3. QED BY <3>1, <3>2, <2>3, <2>5
  <2>10. QED BY <2>6, <2>8, <2>9 DEF LimiterIInv
<1>3. CASE UNCHANGED LimiterVars
  <2>1. LimiterTypeOK'
    BY <1>3 DEF LimiterIInv, LimiterTypeOK, LimiterVars, Full
  <2>2. LastSlotInv' /\ SlotsSpaced'
    BY <1>3 DEF LimiterIInv, LastSlotInv, SlotsSpaced, LimiterVars, AtLeast
  <2>3. QED BY <2>1, <2>2 DEF LimiterIInv
<1>4. QED BY <1>1, <1>2, <1>3 DEF LimiterNext

\* The bucket never holds more than the burst and time never runs backwards in
\* it (RateLimiter._refill).
THEOREM LimiterTypeCorrect == LimiterSpec => []LimiterTypeOK
<1>1. LimiterIInv => LimiterTypeOK
  BY DEF LimiterIInv
<1>2. QED BY InitInv, NextInv, <1>1, PTL DEF LimiterSpec

\* reserve() gives the slots out in the order of the calls and at least the
\* minimal interval apart, for every rate, burst and size of the requests.
THEOREM SlotsKeepOrderAndInterval == LimiterSpec => []SlotsSpaced
<1>1. LimiterIInv => SlotsSpaced
  BY DEF LimiterIInv
<1>2. QED BY InitInv, NextInv, <1>1, PTL DEF LimiterSpec

------------------------------------------------------------------------------
(* The slots against a bucket that is filled all the time.                    *)

\* The moment from which the bucket, had it been full at the i-th call, could
\* have paid for everything from that call up to the j-th.
Covered(i, j) == granted[i].at + CostOf(i, j) - Full

\* The slot was not pushed back by the interval.
Unpushed(j) ==
    \/ granted[j].slot = granted[j].at
    \/ \E i \in 1..j : granted[j].slot = Covered(i, j)

\* The history is in the order of time, and every call costs a token at least.
HistoryInv ==
    /\ \A i \in 1..Len(granted) : granted[i].at <= updatedAt /\ TokenParts <= CostOf(i, i)
    /\ \A i \in 2..Len(granted) : granted[i - 1].at <= granted[i].at

\* What the lazy bucket lacks is what the worst of the calls left uncovered.
LackInv ==
    /\ granted = <<>> => tokens = Full
    /\ \A i \in 1..Len(granted) : Covered(i, Len(granted)) - updatedAt <= -tokens
    /\ granted # <<>> => \E i \in 1..Len(granted) :
                             Covered(i, Len(granted)) - updatedAt = -tokens

SlotInv(j) ==
    /\ granted[j].at <= granted[j].slot
    /\ \A i \in 1..j : Covered(i, j) <= granted[j].slot
    /\ \/ Unpushed(j)
       \/ Interval > 0 /\ j > 1 /\ granted[j].slot = granted[j - 1].slot + Interval

\* The interval pushes a slot no farther than what was paid since a slot that
\* it did not push.
PushInv(j) ==
    \E k \in 1..j : Unpushed(k) /\ granted[j].slot - granted[k].slot <= CostOf(k + 1, j)

\* The interval alone keeps the rate.
PaceInv(j) ==
    \A i \in 1..j : CostOf(i + 1, j) <= granted[j].slot - granted[i].slot

ExactInv ==
    /\ LimiterIInv /\ HistoryInv /\ LackInv
    /\ \A j \in 1..Len(granted) :
          /\ SlotInv(j)
          /\ Interval <= TokenParts => PushInv(j)
          /\ MaxUnits * TokenParts <= Interval => PaceInv(j)

LEMMA ConstantTypes ==
    /\ TokenParts \in Nat /\ TokenParts > 0 /\ Interval \in Nat /\ Full \in Nat
    /\ MaxUnits * TokenParts \in Nat
    /\ \A units \in 1..MaxUnits :
          /\ units * TokenParts \in Nat /\ TokenParts <= units * TokenParts
          /\ units * TokenParts <= MaxUnits * TokenParts
<1>1. TokenParts \in Nat /\ TokenParts > 0 /\ Interval \in Nat /\ Burst \in Nat /\ MaxUnits \in Nat
  BY LimiterAssumption
<1>2. Full \in Nat /\ MaxUnits * TokenParts \in Nat
  BY <1>1, SMT DEF Full
<1>3. ASSUME NEW units \in 1..MaxUnits
      PROVE  /\ units * TokenParts \in Nat /\ TokenParts <= units * TokenParts
             /\ units * TokenParts <= MaxUnits * TokenParts
  BY <1>1, SMT
<1>4. QED BY <1>1, <1>2, <1>3

LEMMA ReservationTypes ==
    ASSUME LimiterTypeOK, NEW i \in 1..Len(granted)
    PROVE  granted[i].at \in Nat /\ granted[i].paid \in Nat /\ granted[i].slot \in Nat
<1>1. granted[i] \in Reservations
  BY DEF LimiterTypeOK
<1>2. QED BY <1>1 DEF Reservations

LEMMA CostTypes ==
    ASSUME LimiterTypeOK, NEW i \in 1..(Len(granted) + 1), NEW j \in 1..Len(granted)
    PROVE  CostOf(i, j) \in Int
<1>1. granted[j].paid \in Nat
  BY ReservationTypes
<1>2. CASE i = 1
  BY <1>1, <1>2 DEF CostOf
<1>3. CASE i # 1
  <2>1. i - 1 \in 1..Len(granted)
    BY <1>3 DEF LimiterTypeOK
  <2>2. QED BY <1>1, <1>3, <2>1, ReservationTypes DEF CostOf
<1>4. QED BY <1>2, <1>3

\* A reservation appended to the history, and what it costs from each call on.
LEMMA AppendedHistory ==
    ASSUME LimiterTypeOK, NEW units \in 1..MaxUnits, Reserve(units),
           NEW n \in Nat, n = Len(granted)
    PROVE  LET cost == units * TokenParts
               t == Refilled - cost
               slot == ApplyMinInterval(Ready(t))
           IN  /\ Len(granted') = n + 1
               /\ \A i \in 1..n : granted'[i] = granted[i]
               /\ granted'[n + 1].at = now /\ granted'[n + 1].slot = slot
               /\ \A j \in 1..n, i \in 1..(n + 1) : CostOf(i, j)' = CostOf(i, j)
               /\ \A i \in 1..n : CostOf(i, n + 1)' = CostOf(i, n) + cost
               /\ CostOf(n + 1, n + 1)' = cost
               /\ CostOf(n + 2, n + 1)' = 0
<1> DEFINE cost == units * TokenParts
           t == Refilled - cost
           slot == ApplyMinInterval(Ready(t))
           g == [at |-> now, paid |-> Paid + cost, slot |-> slot]
<1>1. granted' = Append(granted, g) /\ granted \in Seq(Reservations)
  BY DEF Reserve, LimiterTypeOK
<1>2. cost \in Nat /\ Paid \in Nat
  BY ConstantTypes, PaidType
<1> HIDE DEF cost, slot
<1>3. g.at = now /\ g.paid = Paid + cost /\ g.slot = slot
  OBVIOUS
<1> HIDE DEF g
<1>4. Len(granted') = n + 1 /\ granted'[n + 1] = g
      /\ \A i \in 1..n : granted'[i] = granted[i]
  BY <1>1
<1>5. ASSUME NEW j \in 1..n, NEW i \in 1..(n + 1) PROVE CostOf(i, j)' = CostOf(i, j)
  <2>1. CASE i = 1  BY <2>1, <1>4 DEF CostOf
  <2>2. CASE i # 1
    <3>1. i - 1 \in 1..n  BY <2>2, <1>4
    <3>2. QED BY <2>2, <3>1, <1>4 DEF CostOf
  <2>3. QED BY <2>1, <2>2
<1>6. ASSUME NEW i \in 1..n PROVE CostOf(i, n + 1)' = CostOf(i, n) + cost
  <2>1. granted # <<>> /\ Paid = granted[n].paid /\ granted[n].paid \in Nat
    BY <1>1, <1>2, <1>4 DEF Paid
  <2>2. CASE i = 1  BY <2>1, <2>2, <1>2, <1>3, <1>4 DEF CostOf
  <2>3. CASE i # 1
    <3>1. i - 1 \in 1..n  BY <2>3, <1>4
    <3>2. granted[i - 1].paid \in Nat  BY <3>1, ReservationTypes
    <3>3. QED BY <2>1, <2>3, <3>1, <3>2, <1>2, <1>3, <1>4 DEF CostOf
  <2>4. QED BY <2>2, <2>3
<1>7. CostOf(n + 1, n + 1)' = cost
  <2>1. CASE granted = <<>>
    <3>1. n = 0  BY <2>1
    <3>2. QED BY <2>1, <3>1, <1>2, <1>3, <1>4 DEF CostOf, Paid
  <2>2. CASE granted # <<>>
    <3>1. granted # <<>> /\ Paid = granted[n].paid /\ n \in 1..n
      BY <2>2, <1>1, <1>4 DEF Paid
    <3>2. QED BY <2>2, <3>1, <1>2, <1>3, <1>4 DEF CostOf
  <2>3. QED BY <2>1, <2>2
<1>8. CostOf(n + 2, n + 1)' = 0
  BY <1>2, <1>3, <1>4 DEF CostOf
<1>9. QED BY <1>3, <1>4, <1>5, <1>6, <1>7, <1>8 DEF cost, slot

LEMMA InitExact == LimiterInit => ExactInv
<1> SUFFICES ASSUME LimiterInit PROVE ExactInv
  OBVIOUS
<1>1. granted = <<>> /\ Len(granted) = 0 /\ tokens = Full
  BY DEF LimiterInit
<1>2. HistoryInv /\ LackInv
  BY <1>1 DEF HistoryInv, LackInv
<1>3. QED BY <1>1, <1>2, InitInv DEF ExactInv

LEMMA NextExact == ExactInv /\ [LimiterNext]_LimiterVars => ExactInv'
<1> SUFFICES ASSUME ExactInv, [LimiterNext]_LimiterVars PROVE ExactInv'
  OBVIOUS
<1>0. LimiterTypeOK /\ LimiterIInv'
  BY NextInv DEF ExactInv, LimiterIInv
<1>1. ASSUME UNCHANGED <<tokens, updatedAt, lastSlot, granted>> PROVE ExactInv'
  BY <1>0, <1>1 DEF ExactInv, HistoryInv, LackInv, SlotInv, PushInv, PaceInv, Unpushed,
                    Covered, CostOf, Full
<1>2. ASSUME NEW units \in 1..MaxUnits, Reserve(units) PROVE ExactInv'
  <2>0. PICK n \in Nat : n = Len(granted)
    BY <1>0 DEF LimiterTypeOK
  <2> DEFINE cost == units * TokenParts
             t == Refilled - cost
             ready == Ready(t)
             slot == ApplyMinInterval(ready)
  <2>1. /\ Len(granted') = n + 1
        /\ \A i \in 1..n : granted'[i] = granted[i]
        /\ granted'[n + 1].at = now /\ granted'[n + 1].slot = slot
        /\ \A j \in 1..n, i \in 1..(n + 1) : CostOf(i, j)' = CostOf(i, j)
        /\ \A i \in 1..n : CostOf(i, n + 1)' = CostOf(i, n) + cost
        /\ CostOf(n + 1, n + 1)' = cost
        /\ CostOf(n + 2, n + 1)' = 0
    BY <1>0, <1>2, <2>0, AppendedHistory
  <2>2. tokens' = t /\ updatedAt' = now /\ lastSlot' = slot /\ now' = now /\ granted' # <<>>
    BY <1>2, <1>0 DEF Reserve, LimiterTypeOK
  <2>3. /\ cost \in Nat /\ TokenParts <= cost /\ cost <= MaxUnits * TokenParts
        /\ Full \in Nat /\ Interval \in Nat /\ TokenParts \in Nat /\ MaxUnits * TokenParts \in Nat
    BY ConstantTypes
  <2>4. /\ now \in Nat /\ updatedAt \in Nat /\ updatedAt <= now /\ tokens \in Int
        /\ tokens <= Full
    BY <1>0 DEF LimiterTypeOK
  <2>5. /\ t \in Int /\ -t = AtLeast(-Full, -tokens - (now - updatedAt)) + cost
        /\ ready = now + AtLeast(0, -t) /\ ready \in Nat
    BY <2>3, <2>4 DEF Refilled, Ready, AtMost, AtLeast
  <2> HIDE DEF cost, t, ready
  <2>6. \A i \in 1..n : /\ granted[i].at \in Nat /\ granted[i].slot \in Nat
                         /\ CostOf(i, n) \in Int /\ granted[i].at <= updatedAt
    <3> SUFFICES ASSUME NEW i \in 1..n
                 PROVE  /\ granted[i].at \in Nat /\ granted[i].slot \in Nat
                        /\ CostOf(i, n) \in Int /\ granted[i].at <= updatedAt
      OBVIOUS
    <3>1. i \in 1..Len(granted) /\ i \in 1..(Len(granted) + 1) /\ n \in 1..Len(granted)
      BY <2>0
    <3>2. granted[i].at \in Nat /\ granted[i].slot \in Nat
      BY <1>0, <3>1, ReservationTypes
    <3>3. CostOf(i, n) \in Int
      BY <1>0, <3>1, CostTypes
    <3>4. granted[i].at <= updatedAt
      BY <3>1 DEF ExactInv, HistoryInv
    <3>5. QED BY <3>2, <3>3, <3>4
  <2>7. /\ \A i \in 1..n : Covered(i, n + 1)' = Covered(i, n) + cost
        /\ Covered(n + 1, n + 1)' = now + cost - Full
        /\ \A j \in 1..n, i \in 1..n : Covered(i, j)' = Covered(i, j)
        /\ \A i \in 1..n : Covered(i, n) \in Int
        /\ \A i \in 1..(n + 1) : Covered(i, n + 1)' \in Int
    <3>1. Full' = Full  BY DEF Full
    <3>2. ASSUME NEW i \in 1..n
          PROVE  Covered(i, n + 1)' = Covered(i, n) + cost /\ Covered(i, n) \in Int
      BY <2>1, <2>3, <2>6, <3>1 DEF Covered
    <3>3. Covered(n + 1, n + 1)' = now + cost - Full
      BY <2>1, <3>1 DEF Covered
    <3>4. ASSUME NEW j \in 1..n, NEW i \in 1..n PROVE Covered(i, j)' = Covered(i, j)
      <4>1. CostOf(i, j)' = CostOf(i, j) /\ granted'[i] = granted[i]
        BY <2>1
      <4>2. QED BY <3>1, <4>1 DEF Covered
    <3>5. ASSUME NEW i \in 1..(n + 1) PROVE Covered(i, n + 1)' \in Int
      <4>1. CASE i \in 1..n  BY <4>1, <3>2, <2>3
      <4>2. CASE i = n + 1  BY <4>2, <3>3, <2>3, <2>4
      <4>3. QED BY <4>1, <4>2
    <3>6. QED BY <3>2, <3>3, <3>4, <3>5
  <2>8. HistoryInv'
    <3>1. ASSUME NEW i \in 1..(n + 1)
          PROVE  granted'[i].at <= now /\ TokenParts <= CostOf(i, i)'
      <4>1. CASE i \in 1..n
        BY <2>0, <4>1, <2>1, <2>3, <2>4, <2>6 DEF ExactInv, HistoryInv
      <4>2. CASE i = n + 1  BY <4>2, <2>1, <2>3, <2>4
      <4>3. QED BY <4>1, <4>2, <2>1
    <3>2. ASSUME NEW i \in 2..(n + 1) PROVE granted'[i - 1].at <= granted'[i].at
      <4>1. CASE i \in 2..n
        BY <2>0, <4>1, <2>1 DEF ExactInv, HistoryInv
      <4>2. CASE i = n + 1  BY <4>2, <2>1, <2>4, <2>6
      <4>3. QED BY <4>1, <4>2, <2>1
    <3>3. QED BY <3>1, <3>2, <2>1, <2>2 DEF HistoryInv
  <2>9. /\ \A i \in 1..(n + 1) : Covered(i, n + 1)' - now <= -t
        /\ \E i \in 1..(n + 1) : Covered(i, n + 1)' - now = -t
    <3>1. \A i \in 1..n : Covered(i, n) - updatedAt <= -tokens
      BY <2>0 DEF ExactInv, LackInv
    <3>2. ASSUME NEW i \in 1..(n + 1) PROVE Covered(i, n + 1)' - now <= -t
      <4>1. CASE i \in 1..n
        BY <4>1, <3>1, <2>3, <2>4, <2>5, <2>7 DEF AtLeast
      <4>2. CASE i = n + 1
        BY <4>2, <2>3, <2>4, <2>5, <2>7 DEF AtLeast
      <4>3. QED BY <4>1, <4>2, <2>1
    <3>3. \E i \in 1..(n + 1) : Covered(i, n + 1)' - now = -t
      <4>1. CASE AtLeast(-Full, -tokens - (now - updatedAt)) = -Full
        BY <4>1, <2>1, <2>3, <2>4, <2>5, <2>7
      <4>2. CASE AtLeast(-Full, -tokens - (now - updatedAt)) # -Full
        <5>1. AtLeast(-Full, -tokens - (now - updatedAt)) = -tokens - (now - updatedAt)
              /\ tokens # Full
          BY <4>2, <2>3, <2>4 DEF AtLeast
        <5>2. PICK i \in 1..n : Covered(i, n) - updatedAt = -tokens
          BY <2>0, <5>1 DEF ExactInv, LackInv
        <5>3. Covered(i, n + 1)' - now = -t
          BY <5>1, <5>2, <2>3, <2>4, <2>5, <2>7
        <5>4. QED BY <5>3, <2>1
      <4>3. QED BY <4>1, <4>2
    <3>4. QED BY <3>2, <3>3
  <2>10. LackInv'
    BY <2>1, <2>2, <2>9 DEF LackInv
  <2>11. /\ now <= slot /\ slot \in Nat
         /\ \A i \in 1..(n + 1) : Covered(i, n + 1)' <= slot
         /\ \/ slot = now \/ \E i \in 1..(n + 1) : slot = Covered(i, n + 1)'
            \/ Interval > 0 /\ n > 0 /\ slot = granted[n].slot + Interval
         /\ n > 0 => slot >= granted[n].slot + Interval
    <3>1. /\ now <= ready /\ \A i \in 1..(n + 1) : Covered(i, n + 1)' <= ready
          /\ ready = now \/ \E i \in 1..(n + 1) : ready = Covered(i, n + 1)'
      <4>1. \A i \in 1..(n + 1) : Covered(i, n + 1)' \in Int
        BY <2>7
      <4>2. QED BY <4>1, <2>4, <2>5, <2>9 DEF AtLeast
    <3>2. IF n = 0 THEN lastSlot = NoSlot ELSE lastSlot = granted[n].slot /\ lastSlot \in Nat
      BY <2>0, <1>0, <2>1, <2>6 DEF ExactInv, LimiterIInv, LastSlotInv, LimiterTypeOK
    <3>3. /\ slot \in Nat /\ ready <= slot
          /\ slot = ready \/ (Interval > 0 /\ n > 0 /\ slot = granted[n].slot + Interval)
      BY <3>2, <2>3, <2>5 DEF ApplyMinInterval, AtLeast, NoSlot
    <3>4. n > 0 => slot >= granted[n].slot + Interval
      BY <1>0, <2>1 DEF LimiterIInv, SlotsSpaced
    <3>5. \A i \in 1..(n + 1) : Covered(i, n + 1)' \in Int
      BY <2>7
    <3>6. QED BY <3>1, <3>3, <3>4, <3>5, <2>4, <2>5
  <2> HIDE DEF slot
  <2>12. ASSUME NEW j \in 1..n
         PROVE  /\ SlotInv(j)' /\ (Unpushed(j) => Unpushed(j)')
                /\ Interval <= TokenParts => PushInv(j)'
                /\ MaxUnits * TokenParts <= Interval => PaceInv(j)'
    <3>1. /\ SlotInv(j) /\ (Interval <= TokenParts => PushInv(j))
          /\ MaxUnits * TokenParts <= Interval => PaceInv(j)
      BY <2>0 DEF ExactInv
    <3>2. /\ granted'[j] = granted[j] /\ (j > 1 => granted'[j - 1] = granted[j - 1])
          /\ \A k \in 1..j : granted'[k] = granted[k] /\ Covered(k, j)' = Covered(k, j)
                             /\ CostOf(k + 1, j)' = CostOf(k + 1, j)
      BY <2>1, <2>7
    <3>3. \A k \in 1..j : Unpushed(k)' <=> Unpushed(k)
      <4> TAKE k \in 1..j
      <4>1. \A i \in 1..k : Covered(i, k)' = Covered(i, k)
        BY <2>1, <2>7
      <4>2. QED BY <4>1, <3>2 DEF Unpushed
    <3>4. j \in 1..j
      OBVIOUS
    <3>5. SlotInv(j)'
      BY <3>1, <3>2, <3>3, <3>4 DEF SlotInv
    <3>6. Interval <= TokenParts => PushInv(j)'
      BY <3>1, <3>2, <3>3, <3>4 DEF PushInv
    <3>7. MaxUnits * TokenParts <= Interval => PaceInv(j)'
      BY <3>1, <3>2, <3>4 DEF PaceInv
    <3>8. QED BY <3>3, <3>4, <3>5, <3>6, <3>7
  <2>13. SlotInv(n + 1)'
    BY <2>1, <2>11 DEF SlotInv, Unpushed
  <2>14. ASSUME Interval <= TokenParts PROVE PushInv(n + 1)'
    <3>1. CASE Unpushed(n + 1)'
      <4>1. granted'[n + 1].slot - granted'[n + 1].slot <= CostOf(n + 2, n + 1)'
        BY <2>1, <2>11
      <4>2. QED BY <3>1, <4>1, <2>1 DEF PushInv
    <3>2. CASE ~Unpushed(n + 1)'
      <4>1. Interval > 0 /\ n > 0 /\ slot = granted[n].slot + Interval
        BY <3>2, <2>1, <2>11 DEF Unpushed
      <4>2. PICK k \in 1..n : Unpushed(k) /\ granted[n].slot - granted[k].slot <= CostOf(k + 1, n)
        <5>1. n \in 1..Len(granted)
          BY <2>0, <4>1
        <5>2. PushInv(n)
          BY <2>14, <5>1 DEF ExactInv
        <5>3. QED BY <5>2 DEF PushInv
      <4>3. CostOf(k + 1, n + 1)' = CostOf(k + 1, n) + cost /\ CostOf(k + 1, n) \in Int
        <5>1. CASE k < n
          BY <5>1, <2>1, <2>6
        <5>2. CASE k = n
          <6>1. CostOf(k + 1, n) = 0
            BY <2>0, <5>2, <4>1, <1>0, ReservationTypes DEF CostOf
          <6>2. QED BY <5>2, <6>1, <2>1, <2>3
        <5>3. QED BY <5>1, <5>2, <2>1
      <4>4. granted'[n + 1].slot - granted'[k].slot <= CostOf(k + 1, n + 1)'
        <5>1. /\ granted'[n + 1].slot = granted[n].slot + Interval
              /\ granted'[k].slot = granted[k].slot
          BY <4>1, <2>1
        <5>2. n \in 1..n /\ granted[n].slot \in Nat /\ granted[k].slot \in Nat
          BY <4>1, <2>6
        <5>3. QED BY <5>1, <5>2, <4>2, <4>3, <2>3, <2>14
      <4>5. Unpushed(k)'
        BY <4>2, <2>12
      <4>6. QED BY <4>4, <4>5, <2>1 DEF PushInv
    <3>3. QED BY <3>1, <3>2
  <2>15. ASSUME MaxUnits * TokenParts <= Interval PROVE PaceInv(n + 1)'
    <3> SUFFICES ASSUME NEW i \in 1..(n + 1)
                 PROVE  CostOf(i + 1, n + 1)' <= granted'[n + 1].slot - granted'[i].slot
      BY DEF PaceInv
    <3>1. CASE i = n + 1
      BY <3>1, <2>1, <2>11
    <3>2. CASE i = n
      <4>1. n > 0 /\ n \in 1..n /\ CostOf(i + 1, n + 1)' = cost  BY <3>2, <2>1
      <4>2. QED BY <3>2, <4>1, <2>1, <2>3, <2>6, <2>11, <2>15
    <3>3. CASE i < n
      <4>1. n \in 1..n /\ i \in 1..n /\ i + 1 \in 1..n  BY <3>3, <2>1
      <4>2. CostOf(i + 1, n) <= granted[n].slot - granted[i].slot
        BY <2>0, <4>1, <2>15 DEF ExactInv, PaceInv
      <4>3. CostOf(i + 1, n + 1)' = CostOf(i + 1, n) + cost /\ CostOf(i + 1, n) \in Int
        BY <4>1, <2>1, <2>6
      <4>4. /\ granted'[n + 1].slot = slot /\ granted'[i].slot = granted[i].slot
            /\ granted[n].slot \in Nat /\ granted[i].slot \in Nat
            /\ slot >= granted[n].slot + Interval
        BY <4>1, <2>1, <2>6, <2>11
      <4>5. QED BY <4>2, <4>3, <4>4, <2>3, <2>11, <2>15
    <3>4. QED BY <3>1, <3>2, <3>3, <2>1
  <2>16. ASSUME NEW j \in 1..(n + 1)
         PROVE  /\ SlotInv(j)' /\ (Interval <= TokenParts => PushInv(j)')
                /\ MaxUnits * TokenParts <= Interval => PaceInv(j)'
    <3>1. CASE j \in 1..n  BY <3>1, <2>12
    <3>2. CASE j = n + 1  BY <3>2, <2>13, <2>14, <2>15
    <3>3. QED BY <3>1, <3>2, <2>1
  <2>17. QED BY <1>0, <2>1, <2>8, <2>10, <2>16 DEF ExactInv
<1>3. QED
  <2>1. CASE Tick  BY <2>1, <1>1 DEF Tick
  <2>2. CASE UNCHANGED LimiterVars  BY <2>2, <1>1 DEF LimiterVars
  <2>3. QED BY <2>1, <2>2, <1>2 DEF LimiterNext

LEMMA Exactness == LimiterSpec => []ExactInv
BY InitExact, NextExact, PTL DEF LimiterSpec

\* The slot of every reservation is the first moment at which a bucket filled
\* all the time could have paid for it, whatever calls came before: the lazy
\* refill of limits.py loses nothing and gives nothing away.
THEOREM SlotsAreExact == LimiterSpec => []SlotsExact
<1>1. ASSUME ExactInv PROVE SlotsExact
  <2> SUFFICES ASSUME NEW j \in 1..Len(granted)
               PROVE  granted[j].slot =
                        Max({granted[j].at} \cup {Covered(i, j) : i \in 1..j}
                            \cup (IF Interval > 0 /\ j > 1
                                  THEN {granted[j - 1].slot + Interval} ELSE {}))
    BY DEF SlotsExact, Covered
  <2> DEFINE earliest == {granted[j].at} \cup {Covered(i, j) : i \in 1..j}
                            \cup (IF Interval > 0 /\ j > 1
                                  THEN {granted[j - 1].slot + Interval} ELSE {})
  <2>1. LimiterTypeOK /\ SlotInv(j) /\ LimiterIInv /\ j \in 1..j
    BY <1>1 DEF ExactInv, LimiterIInv
  <2>2. granted[j].slot \in Nat /\ granted[j].at \in Nat /\ Interval \in Nat /\ Full \in Nat
    BY <2>1, ReservationTypes, ConstantTypes
  <2>3. ASSUME Interval > 0, j > 1
        PROVE  granted[j - 1].slot + Interval <= granted[j].slot
               /\ granted[j - 1].slot + Interval \in Int
    <3>1. j - 1 \in 1..Len(granted) /\ j \in 2..Len(granted)
      BY <2>3, <2>1 DEF LimiterTypeOK
    <3>2. QED BY <3>1, <2>1, <2>2, ReservationTypes DEF LimiterIInv, SlotsSpaced
  <2>4. ASSUME NEW i \in 1..j PROVE Covered(i, j) \in Int
    <3>1. i \in 1..Len(granted) /\ i \in 1..(Len(granted) + 1)
      BY <2>1 DEF LimiterTypeOK
    <3>2. granted[i].at \in Nat /\ CostOf(i, j) \in Int
      BY <3>1, <2>1, ReservationTypes, CostTypes
    <3>3. QED BY <3>2, <2>2 DEF Covered
  <2>5. granted[j].slot \in earliest
    BY <2>1 DEF SlotInv, Unpushed
  <2>6. \A x \in earliest : x \in Int /\ x <= granted[j].slot
    BY <2>1, <2>2, <2>3, <2>4 DEF SlotInv
  <2> HIDE DEF earliest
  <2>7. Max(earliest) = granted[j].slot
    <3>1. \A x \in earliest : (\A y \in earliest : x >= y) => x = granted[j].slot
      BY <2>2, <2>5, <2>6
    <3>2. \A y \in earliest : granted[j].slot >= y
      BY <2>2, <2>6
    <3>3. QED BY <2>5, <3>1, <3>2 DEF Max
  <2>8. QED BY <2>7 DEF earliest
<1>2. QED BY <1>1, Exactness, PTL

\* The interval is no longer than a token takes, or pays for any request.
IntervalFits == Interval <= TokenParts \/ MaxUnits * TokenParts <= Interval

\* What is executed between two slots is paid by one full bucket and the time
\* between them, for every pattern of calls, when the minimal interval is no
\* longer than a token takes, or so long that it pays for the largest request;
\* with requests of one unit, as all of the application are, that is always so.
THEOREM ProviderSeesTheRate == ASSUME IntervalFits PROVE LimiterSpec => []RateExact
<1>1. ASSUME ExactInv PROVE WindowsWithinRate
  <2> SUFFICES ASSUME NEW i \in 1..Len(granted), NEW j \in 1..Len(granted), i < j
               PROVE  CostOf(i + 1, j) <= Full + (granted[j].slot - granted[i].slot)
    BY DEF WindowsWithinRate
  <2>1. /\ LimiterTypeOK /\ HistoryInv /\ SlotInv(i) /\ SlotInv(j)
        /\ Interval <= TokenParts => PushInv(i)
        /\ MaxUnits * TokenParts <= Interval => PaceInv(j)
    BY <1>1 DEF ExactInv, LimiterIInv
  <2>2. /\ granted[i].slot \in Nat /\ granted[j].slot \in Nat /\ Full \in Nat
        /\ CostOf(i + 1, j) \in Int /\ i \in 1..j /\ Len(granted) \in Nat
    <3>1. i + 1 \in 1..(Len(granted) + 1) /\ i \in 1..j /\ Len(granted) \in Nat
      BY <2>1 DEF LimiterTypeOK
    <3>2. QED BY <3>1, <2>1, ReservationTypes, ConstantTypes, CostTypes
  <2>3. CASE MaxUnits * TokenParts <= Interval
    <3>1. CostOf(i + 1, j) <= granted[j].slot - granted[i].slot
      BY <2>1, <2>2, <2>3 DEF PaceInv
    <3>2. QED BY <3>1, <2>2
  <2>4. CASE Interval <= TokenParts
    <3>1. PICK k \in 1..i : Unpushed(k) /\ granted[i].slot - granted[k].slot <= CostOf(k + 1, i)
      BY <2>1, <2>4 DEF PushInv
    <3>2. /\ k \in 1..Len(granted) /\ k + 1 \in 2..Len(granted) /\ k + 1 \in 1..j
          /\ granted[k].slot \in Nat /\ granted[k].at \in Nat
          /\ granted[k].paid \in Nat /\ granted[i].paid \in Nat /\ granted[j].paid \in Nat
      BY <2>1, <2>2, ReservationTypes
    <3>3. /\ CostOf(k + 1, i) = granted[i].paid - granted[k].paid
          /\ CostOf(k + 1, j) = granted[j].paid - granted[k].paid
          /\ CostOf(i + 1, j) = granted[j].paid - granted[i].paid
      <4>1. k + 1 # 1 /\ i + 1 # 1 /\ (k + 1) - 1 = k /\ (i + 1) - 1 = i
        BY <3>2, <2>2
      <4>2. QED BY <4>1 DEF CostOf
    <3> DEFINE later == CostOf(k + 1, j)
    <3>5. later \in Int /\ later = CostOf(k + 1, i) + CostOf(i + 1, j) /\ CostOf(k + 1, i) \in Int
      BY <3>2, <3>3
    <3> HIDE DEF later
    <3>4. granted[k].slot + later - Full <= granted[j].slot
      <4>1. CASE granted[k].slot = granted[k].at
        <5>1. granted[k].at <= granted[k + 1].at /\ granted[k + 1].at \in Nat
          <6>1. granted[(k + 1) - 1].at <= granted[k + 1].at
            BY <2>1, <3>2 DEF HistoryInv
          <6>2. k + 1 \in 1..Len(granted) /\ (k + 1) - 1 = k
            BY <3>2
          <6>3. QED BY <6>1, <6>2, <2>1, ReservationTypes
        <5>2. granted[k + 1].at + later - Full <= granted[j].slot
          BY <2>1, <3>2 DEF SlotInv, Covered, later
        <5> DEFINE p == granted[k].slot
                   q == granted[k + 1].at
                   s == granted[j].slot
        <5>3. /\ p \in Nat /\ q \in Nat /\ s \in Nat /\ Full \in Nat /\ later \in Int
              /\ p <= q /\ q + later - Full <= s
          BY <4>1, <5>1, <5>2, <3>2, <3>5, <2>2, Zenon
        <5> HIDE DEF p, q, s
        <5>4. p + later - Full <= s  BY <5>3
        <5>5. QED BY <5>4, Zenon DEF p, s
      <4>2. ASSUME NEW m \in 1..k, granted[k].slot = Covered(m, k)
            PROVE  granted[k].slot + later - Full <= granted[j].slot
        <5>1. m \in 1..j /\ m \in 1..Len(granted) /\ m \in 1..(Len(granted) + 1)
          BY <3>2, <2>2
        <5>2. /\ granted[m].at + CostOf(m, j) - Full <= granted[j].slot
              /\ granted[k].slot = granted[m].at + CostOf(m, k) - Full
          BY <5>1, <4>2, <2>1 DEF SlotInv, Covered
        <5>3. CostOf(m, k) \in Int /\ CostOf(m, j) = CostOf(m, k) + later
          <6>1. CASE m = 1  BY <6>1, <3>2, <3>3 DEF CostOf, later
          <6>2. CASE m # 1
            <7>1. m - 1 \in 1..Len(granted)  BY <6>2, <5>1
            <7>2. granted[m - 1].paid \in Nat  BY <7>1, <2>1, ReservationTypes
            <7>3. QED BY <6>2, <7>2, <3>2, <3>3 DEF CostOf, later
          <6>3. QED BY <6>1, <6>2
        <5>4. granted[m].at \in Nat
          BY <5>1, <2>1, ReservationTypes
        <5> DEFINE p == granted[k].slot
                   q == granted[m].at
                   s == granted[j].slot
                   c == CostOf(m, k)
                   d == CostOf(m, j)
        <5>5. /\ p \in Nat /\ q \in Nat /\ s \in Nat /\ c \in Int
              /\ Full \in Nat /\ later \in Int
              /\ q + d - Full <= s /\ p = q + c - Full /\ d = c + later
          BY <5>2, <5>3, <5>4, <3>2, <3>5, <2>2, Zenon
        <5> HIDE DEF p, q, s, c, d
        <5>6. p + later - Full <= s  BY <5>5
        <5>7. QED BY <5>6, Zenon DEF p, s
      <4>3. QED BY <4>1, <4>2, <3>1 DEF Unpushed
    <3> DEFINE p == granted[i].slot
               q == granted[k].slot
               s == granted[j].slot
               c == CostOf(k + 1, i)
               d == CostOf(i + 1, j)
    <3>6. /\ p \in Nat /\ q \in Nat /\ s \in Nat /\ c \in Int /\ d \in Int
          /\ Full \in Nat /\ later = c + d /\ p - q <= c /\ q + later - Full <= s
      BY <3>1, <3>2, <3>4, <3>5, <2>2, Zenon
    <3> HIDE DEF p, q, s, c, d
    <3>7. d <= Full + (s - p)  BY <3>6
    <3>8. QED BY <3>7, Zenon DEF p, s, d
  <2>5. QED BY <2>3, <2>4 DEF IntervalFits
<1>2. ExactInv => LimiterTypeOK
  BY DEF ExactInv, LimiterIInv
<1>3. QED BY <1>1, <1>2, SlotsAreExact, Exactness, PTL DEF RateExact

------------------------------------------------------------------------------
(***************************************************************************)
(* The monitor and the notifier, for every set of providers and all        *)
(* thresholds: the counters of a provider are those of the end of its      *)
(* history, a status is earned in a row, the whole hides no trouble, and   *)
(* nothing that was confirmed is said twice.                               *)
(***************************************************************************)
\* The history of a provider is never longer than the thresholds need, and the
\* two counters of a provider are those of the end of it: as many observations
\* as a counter says are of its kind, and the failures in a row at the end are
\* all counted.
RowsInv ==
    \A p \in Providers :
        /\ Len(trail[p]) <= Longest
        /\ \A n \in 0..Longest :
              /\ n <= Current(p).failures => Last(p, n, Wrong)
              /\ n <= Current(p).successes => Last(p, n, {"success"})
              /\ Last(p, n, {"failure"}) => n <= Current(p).failures

\* A row of failures that reaches the threshold has its status.
TroubleInv ==
    \A p \in Providers :
        Last(p, DegradedAt, {"failure"}) =>
            p \in Observed /\ health[p].status \in {"DEGRADED", "UNAVAILABLE"}

\* Where the process can have spoken of a provider, and what it then remembers.
Silent == {"down", "recovering", "probing", "marking", "greeting", "startupMessage"}
Unprimed == Silent \ {"startupMessage"}
PhaseInv ==
    /\ phase \in Silent => \A p \in Providers : told[p] = None
    /\ phase \in Unprimed => \A p \in Providers : reported[p] = None
    /\ phase \in Unprimed \ {"greeting"} => \A p \in Providers : snapshot[p] = None
    /\ phase \notin {"probing", "running"} => left = {}
    /\ phase = "running" => \A p \in left : snapshot[p] # None
    /\ phase = "startupMessage" =>
          \A p \in Providers : snapshot[p] # None =>
             reported[p] # None /\ reported[p].status = snapshot[p]

\* A message that is being sent has something new to say or is due, and what was
\* confirmed is remembered.
SpokenInv ==
    /\ sending # None =>
          /\ phase = "running" /\ sending \in left
          /\ ~FirstSeenWell(sending) /\ ~NothingNew(sending)
    /\ \A p \in Providers :
          told[p] # None /\ told[p].confirmed =>
             reported[p] # None /\ reported[p].status = told[p].status

HealthIInv == TypeOK /\ RowsInv /\ TroubleInv /\ PhaseInv /\ SpokenInv

------------------------------------------------------------------------------
\* Last, for any sequence of observations.
Row(s, n, these) ==
    /\ Len(s) >= n
    /\ \A i \in (Len(s) - n + 1)..Len(s) : s[i] \in these

LEMMA Thresholds ==
    /\ DegradedAt \in Nat \ {0} /\ UnavailableAt \in Nat \ {0} /\ HealthyAt \in Nat \ {0}
    /\ DegradedAt <= UnavailableAt
    /\ Longest \in Nat
    /\ DegradedAt <= Longest /\ UnavailableAt <= Longest /\ HealthyAt <= Longest
    /\ 1 <= Longest
BY HealthAssumption DEF Longest

\* A row at the end of the history goes on with the next observation, although the
\* oldest one may be forgotten.
LEMMA NotedRow ==
    ASSUME NEW p \in Providers, trail[p] \in Seq(Observation), Len(trail[p]) <= Longest,
           NEW what \in Observation
    PROVE  /\ Noted(p, what) \in Seq(Observation)
           /\ Len(Noted(p, what)) <= Longest
           /\ \A these : \A n \in 1..Longest :
                 Row(Noted(p, what), n, these) <=> what \in these /\ Row(trail[p], n - 1, these)
<1> DEFINE s == trail[p]
           longer == Append(s, what)
           t == Noted(p, what)
<1>1. /\ longer \in Seq(Observation) /\ Len(longer) = Len(s) + 1
      /\ \A i \in 1..Len(s) : longer[i] = s[i]
      /\ longer[Len(s) + 1] = what
      /\ Len(s) \in Nat
      OBVIOUS
<1>2. t = IF Len(longer) > Longest THEN Tail(longer) ELSE longer  BY DEF Noted
<1>3. Longest \in Nat /\ Longest >= 1  BY Thresholds
<1>4. CASE Len(s) + 1 <= Longest
  <2>1. t = longer  BY <1>1, <1>2, <1>3, <1>4
  <2>2. ASSUME NEW these, NEW n \in 1..Longest
        PROVE  Row(longer, n, these) <=> what \in these /\ Row(s, n - 1, these)
    <3> HIDE DEF longer, s
    <3>1. Len(longer) >= n <=> Len(s) >= n - 1  BY <1>1
    <3>2. Len(longer) - n + 1 = Len(s) - (n - 1) + 1  BY <1>1
    <3>3. ASSUME Row(longer, n, these)  PROVE what \in these /\ Row(s, n - 1, these)
      <4>1. Len(s) + 1 \in (Len(longer) - n + 1)..Len(longer)  BY <1>1
      <4>2. what \in these  BY <1>1, <3>3, <4>1 DEF Row
      <4>3. ASSUME NEW i \in (Len(s) - (n - 1) + 1)..Len(s)  PROVE s[i] \in these
        <5>1. i \in 1..Len(s) /\ i \in (Len(longer) - n + 1)..Len(longer)
              BY <1>1, <3>1, <3>3 DEF Row
        <5>2. QED  BY <1>1, <3>3, <5>1 DEF Row
      <4>4. QED  BY <3>1, <3>3, <4>2, <4>3 DEF Row
    <3>4. ASSUME what \in these, Row(s, n - 1, these)  PROVE Row(longer, n, these)
      <4>1. ASSUME NEW i \in (Len(longer) - n + 1)..Len(longer)  PROVE longer[i] \in these
        <5>1. CASE i = Len(s) + 1  BY <1>1, <3>4, <5>1
        <5>2. CASE i # Len(s) + 1
          <6>1. i \in 1..Len(s) /\ i \in (Len(s) - (n - 1) + 1)..Len(s)
                BY <1>1, <3>4, <5>2 DEF Row
          <6>2. QED  BY <1>1, <3>4, <6>1 DEF Row
        <5>3. QED  BY <5>1, <5>2
      <4>2. QED  BY <3>1, <3>4, <4>1 DEF Row
    <3>5. QED  BY <3>3, <3>4
  <2>3. QED  BY <1>1, <1>4, <2>1, <2>2
<1>5. CASE Len(s) = Longest
  <2>1. /\ t = Tail(longer) /\ t \in Seq(Observation) /\ Len(t) = Len(s)
        /\ \A i \in 1..Len(s) : t[i] = longer[i + 1]
        BY <1>1, <1>2, <1>3, <1>5
  <2>2. ASSUME NEW these, NEW n \in 1..Longest
        PROVE  Row(t, n, these) <=> what \in these /\ Row(s, n - 1, these)
    <3> HIDE DEF t, longer, s
    <3>1. Len(t) >= n /\ Len(s) >= n - 1  BY <1>1, <1>5, <2>1, <1>3
    <3>2. ASSUME Row(t, n, these)  PROVE what \in these /\ Row(s, n - 1, these)
      <4>1. Len(s) \in (Len(t) - n + 1)..Len(t) /\ Len(s) \in 1..Len(s)
            BY <1>1, <1>3, <1>5, <2>1
      <4>2. what \in these  BY <1>1, <2>1, <3>2, <4>1 DEF Row
      <4>3. ASSUME NEW i \in (Len(s) - (n - 1) + 1)..Len(s)  PROVE s[i] \in these
        <5>1. /\ i \in 1..Len(s) /\ i - 1 \in 1..Len(s) /\ (i - 1) + 1 = i
              /\ i - 1 \in (Len(t) - n + 1)..Len(t)
              BY <1>1, <1>3, <1>5, <2>1
        <5>2. t[i - 1] = s[i]  BY <1>1, <2>1, <5>1
        <5>3. QED  BY <3>2, <5>1, <5>2 DEF Row
      <4>4. QED  BY <3>1, <4>2, <4>3 DEF Row
    <3>3. ASSUME what \in these, Row(s, n - 1, these)  PROVE Row(t, n, these)
      <4>1. ASSUME NEW i \in (Len(t) - n + 1)..Len(t)  PROVE t[i] \in these
        <5>1. i \in 1..Len(s) /\ t[i] = longer[i + 1]  BY <1>1, <1>3, <1>5, <2>1
        <5>2. CASE i = Len(s)  BY <1>1, <3>3, <5>1, <5>2
        <5>3. CASE i # Len(s)
          <6>1. i + 1 \in 1..Len(s) /\ i + 1 \in (Len(s) - (n - 1) + 1)..Len(s)
                BY <1>1, <1>3, <1>5, <2>1, <5>1, <5>3
          <6>2. QED  BY <1>1, <3>3, <5>1, <6>1 DEF Row
        <5>4. QED  BY <5>2, <5>3
      <4>2. QED  BY <3>1, <4>1 DEF Row
    <3>4. QED  BY <3>2, <3>3
  <2>3. QED  BY <1>1, <1>5, <2>1, <2>2
<1>6. QED  BY <1>1, <1>3, <1>4, <1>5

\* Before the first observation there is no row, and a row of nothing always.
LEMMA EmptyRow ==
    /\ \A s, these : Len(s) \in Nat => Row(s, 0, these)
    /\ \A what, these : \A n \in Nat \ {0} :
          Row(<<what>>, n, these) <=> n = 1 /\ what \in these
<1>1. \A s, these : Len(s) \in Nat => Row(s, 0, these)  BY DEF Row
<1>2. ASSUME NEW what, NEW these, NEW n \in Nat \ {0}
      PROVE  Row(<<what>>, n, these) <=> n = 1 /\ what \in these
  <2>1. Len(<<what>>) = 1 /\ <<what>>[1] = what  OBVIOUS
  <2>2. CASE n = 1  BY <2>1, <2>2 DEF Row
  <2>3. CASE n # 1  BY <2>1, <2>3 DEF Row
  <2>4. QED  BY <2>2, <2>3
<1>3. QED  BY <1>1, <1>2

------------------------------------------------------------------------------
\* What an observation of p does to the counters and to the row.
LEMMA ObservedOnce ==
    ASSUME HealthIInv, NEW p \in Providers, NEW what \in {"success", "failure"}, NEW e \in Entry,
           what = "success" =>
              e.failures = 0 /\ e.successes = Current(p).successes + 1,
           what = "failure" =>
              /\ e.failures = Current(p).failures + 1 /\ e.successes = 0
              /\ e.failures >= DegradedAt => e.status \in {"DEGRADED", "UNAVAILABLE"},
           health' = [health EXCEPT ![p] = e],
           trail' = [trail EXCEPT ![p] = Noted(p, what)]
    PROVE  /\ health' \in [Providers -> Entry \cup {None}]
           /\ trail' \in [Providers -> Seq(Observation)]
           /\ RowsInv' /\ TroubleInv'
<1>1. /\ health \in [Providers -> Entry \cup {None}]
      /\ trail \in [Providers -> Seq(Observation)]
      BY DEF HealthIInv, TypeOK
<1>2. ASSUME NEW q \in Providers
      PROVE  /\ Len(trail[q]) <= Longest
             /\ \A n \in 0..Longest :
                   /\ n <= Current(q).failures => Row(trail[q], n, Wrong)
                   /\ n <= Current(q).successes => Row(trail[q], n, {"success"})
                   /\ Row(trail[q], n, {"failure"}) => n <= Current(q).failures
             /\ Row(trail[q], DegradedAt, {"failure"}) =>
                   q \in Observed /\ health[q].status \in {"DEGRADED", "UNAVAILABLE"}
  <2> USE DEF Row, Last
  <2>1. QED  BY DEF HealthIInv, RowsInv, TroubleInv
<1>3. what \in Observation /\ (what = "failure" => what \in Wrong)  BY DEF Observation, Wrong
<1>4. /\ Noted(p, what) \in Seq(Observation)
      /\ Len(Noted(p, what)) <= Longest
      /\ \A these : \A n \in 1..Longest :
            Row(Noted(p, what), n, these) <=> what \in these /\ Row(trail[p], n - 1, these)
      BY <1>1, <1>2, <1>3, NotedRow
<1>5. Current(p) \in Entry  BY <1>1, Thresholds DEF Current, Entry, Statuses
<1>6. /\ e.failures \in Nat /\ e.successes \in Nat
      /\ Current(p).failures \in Nat /\ Current(p).successes \in Nat
      BY <1>5 DEF Entry
<1>7. health'[p] = e /\ trail'[p] = Noted(p, what) /\ e # None
      BY <1>1, NoneAssumption
<1>8. Current(p)' = e /\ (p \in Observed)'  BY <1>7 DEF Current, Observed
<1>9. ASSUME NEW n \in 0..Longest
      PROVE  /\ n <= e.failures => Row(Noted(p, what), n, Wrong)
             /\ n <= e.successes => Row(Noted(p, what), n, {"success"})
             /\ Row(Noted(p, what), n, {"failure"}) => n <= e.failures /\ (n > 0 => what = "failure")
  <2>1. CASE n = 0  BY <1>4, <1>6, <2>1, EmptyRow
  <2>2. CASE n # 0
    <3>1. /\ n \in 1..Longest /\ n - 1 \in 0..Longest
          /\ n \in Nat
          BY <2>2, Thresholds
    <3>2. \A these : Row(Noted(p, what), n, these) <=> what \in these /\ Row(trail[p], n - 1, these)
          BY <1>4, <3>1
    <3>3. /\ n - 1 <= Current(p).failures => Row(trail[p], n - 1, Wrong)
          /\ n - 1 <= Current(p).successes => Row(trail[p], n - 1, {"success"})
          /\ Row(trail[p], n - 1, {"failure"}) => n - 1 <= Current(p).failures
          BY <1>2, <3>1
    <3>4. CASE what = "success"
      <4>1. ~(n <= e.failures) /\ (n <= e.successes => n - 1 <= Current(p).successes)
            BY <1>6, <3>1, <3>4
      <4>2. QED  BY <3>2, <3>3, <3>4, <4>1
    <3>5. CASE what = "failure"
      <4>1. /\ ~(n <= e.successes) /\ (n <= e.failures => n - 1 <= Current(p).failures)
            /\ n - 1 <= Current(p).failures => n <= e.failures
            BY <1>6, <3>1, <3>5, <2>2
      <4>2. QED  BY <1>3, <3>2, <3>3, <3>5, <4>1
    <3>6. QED  BY <3>4, <3>5
  <2>3. QED  BY <2>1, <2>2
<1>10. ASSUME NEW q \in Providers, q # p
       PROVE  health'[q] = health[q] /\ trail'[q] = trail[q]
              /\ Current(q)' = Current(q) /\ ((q \in Observed)' <=> q \in Observed)
       BY <1>1, <1>10 DEF Current, Observed
<1>11. RowsInv'
  <2> SUFFICES ASSUME NEW q \in Providers
               PROVE  /\ Len(trail'[q]) <= Longest
                      /\ \A n \in 0..Longest :
                            /\ n <= Current(q)'.failures => Row(trail'[q], n, Wrong)
                            /\ n <= Current(q)'.successes => Row(trail'[q], n, {"success"})
                            /\ Row(trail'[q], n, {"failure"}) => n <= Current(q)'.failures
      BY DEF RowsInv, Row, Last
  <2>1. CASE q = p  BY <1>4, <1>7, <1>8, <1>9, <2>1
  <2>2. CASE q # p  BY <1>2, <1>10, <2>2
  <2>3. QED  BY <2>1, <2>2
<1>12. TroubleInv'
  <2> SUFFICES ASSUME NEW q \in Providers, Row(trail'[q], DegradedAt, {"failure"})
               PROVE  (q \in Observed)' /\ health'[q].status \in {"DEGRADED", "UNAVAILABLE"}
      BY DEF TroubleInv, Row, Last
  <2>1. CASE q = p
    <3>1. DegradedAt \in 0..Longest /\ DegradedAt > 0  BY Thresholds
    <3>2. what = "failure" /\ DegradedAt <= e.failures  BY <1>7, <1>9, <2>1, <3>1
    <3>3. QED  BY <1>6, <1>7, <1>8, <2>1, <3>1, <3>2
  <2>2. CASE q # p  BY <1>2, <1>10, <2>2
  <2>3. QED  BY <2>1, <2>2
<1>13. health' \in [Providers -> Entry \cup {None}] /\ trail' \in [Providers -> Seq(Observation)]
       BY <1>1, <1>4
<1>14. QED  BY <1>11, <1>12, <1>13

\* The counts of one provider that has just been probed.
LEMMA ProbedOnce ==
    ASSUME HealthIInv, NEW p \in Providers, NEW status \in Probed,
           health' = [health EXCEPT ![p] = RecordProbe(status)],
           trail' = [trail EXCEPT ![p] =
                         <<CASE status = "HEALTHY" -> "success"
                             [] status = "UNKNOWN" -> "unclear"
                             [] OTHER -> "failure">>]
    PROVE  /\ health' \in [Providers -> Entry \cup {None}]
           /\ trail' \in [Providers -> Seq(Observation)]
           /\ RowsInv' /\ TroubleInv'
<1> DEFINE what == CASE status = "HEALTHY" -> "success"
                     [] status = "UNKNOWN" -> "unclear"
                     [] OTHER -> "failure"
           e == RecordProbe(status)
<1>1. /\ health \in [Providers -> Entry \cup {None}]
      /\ trail \in [Providers -> Seq(Observation)]
      BY DEF HealthIInv, TypeOK
<1>2. /\ what \in Observation
      /\ what = "success" <=> status = "HEALTHY"
      /\ what = "failure" <=> status \in {"DEGRADED", "UNAVAILABLE"}
      /\ what # "success" => what \in Wrong
      BY DEF Probed, Observation, Wrong
<1>3. /\ e \in Entry /\ e.status = status
      /\ e.failures = IF what = "success" THEN 0 ELSE 1
      /\ e.successes = IF what = "success" THEN 1 ELSE 0
      BY <1>2 DEF RecordProbe, Entry, Statuses, Probed
<1>4. trail'[p] = <<what>> /\ health'[p] = e /\ e # None
      BY <1>1, <1>3, NoneAssumption
<1> HIDE DEF what, e
<1>5. <<what>> \in Seq(Observation) /\ Len(<<what>>) = 1  BY <1>2
<1>6. Current(p)' = e /\ (p \in Observed)'  BY <1>4 DEF Current, Observed
<1>7. ASSUME NEW q \in Providers
      PROVE  /\ Len(trail[q]) <= Longest
             /\ \A n \in 0..Longest :
                   /\ n <= Current(q).failures => Row(trail[q], n, Wrong)
                   /\ n <= Current(q).successes => Row(trail[q], n, {"success"})
                   /\ Row(trail[q], n, {"failure"}) => n <= Current(q).failures
             /\ Row(trail[q], DegradedAt, {"failure"}) =>
                   q \in Observed /\ health[q].status \in {"DEGRADED", "UNAVAILABLE"}
  <2> USE DEF Row, Last
  <2>1. QED  BY DEF HealthIInv, RowsInv, TroubleInv
<1>8. ASSUME NEW q \in Providers, q # p
      PROVE  health'[q] = health[q] /\ trail'[q] = trail[q]
             /\ Current(q)' = Current(q) /\ ((q \in Observed)' <=> q \in Observed)
      BY <1>1, <1>8 DEF Current, Observed
<1>9. ASSUME NEW n \in 0..Longest
      PROVE  /\ n <= e.failures => Row(<<what>>, n, Wrong)
             /\ n <= e.successes => Row(<<what>>, n, {"success"})
             /\ Row(<<what>>, n, {"failure"}) => n <= e.failures /\ (n > 0 => what = "failure")
  <2>1. CASE n = 0
    <3>1. Len(<<what>>) \in Nat  BY <1>5
    <3>2. Row(<<what>>, 0, Wrong) /\ Row(<<what>>, 0, {"success"})  BY <3>1, EmptyRow
    <3>3. QED  BY <1>3, <2>1, <3>2
  <2>2. CASE n # 0
    <3>1. n \in Nat \ {0}  BY <2>2, Thresholds
    <3>2. \A these : Row(<<what>>, n, these) <=> n = 1 /\ what \in these  BY <3>1, EmptyRow
    <3>3. CASE what = "success"  BY <1>3, <3>1, <3>2, <3>3
    <3>4. CASE what # "success"  BY <1>2, <1>3, <3>1, <3>2, <3>4
    <3>5. QED  BY <3>3, <3>4
  <2>3. QED  BY <2>1, <2>2
<1>10. RowsInv'
  <2> SUFFICES ASSUME NEW q \in Providers
               PROVE  /\ Len(trail'[q]) <= Longest
                      /\ \A n \in 0..Longest :
                            /\ n <= Current(q)'.failures => Row(trail'[q], n, Wrong)
                            /\ n <= Current(q)'.successes => Row(trail'[q], n, {"success"})
                            /\ Row(trail'[q], n, {"failure"}) => n <= Current(q)'.failures
      BY DEF RowsInv, Row, Last
  <2>1. CASE q = p  BY <1>4, <1>5, <1>6, <1>9, <2>1, Thresholds
  <2>2. CASE q # p  BY <1>7, <1>8, <2>2
  <2>3. QED  BY <2>1, <2>2
<1>11. TroubleInv'
  <2> SUFFICES ASSUME NEW q \in Providers, Row(trail'[q], DegradedAt, {"failure"})
               PROVE  (q \in Observed)' /\ health'[q].status \in {"DEGRADED", "UNAVAILABLE"}
      BY DEF TroubleInv, Row, Last
  <2>1. CASE q = p
    <3>1. DegradedAt \in 0..Longest /\ DegradedAt > 0  BY Thresholds
    <3>2. what = "failure"  BY <1>4, <1>9, <2>1, <3>1
    <3>3. QED  BY <1>2, <1>3, <1>4, <1>6, <2>1, <3>2
  <2>2. CASE q # p  BY <1>7, <1>8, <2>2
  <2>3. QED  BY <2>1, <2>2
<1>12. health' \in [Providers -> Entry \cup {None}] /\ trail' \in [Providers -> Seq(Observation)]
       BY <1>1, <1>2, <1>3 DEF what, e
<1>13. QED  BY <1>10, <1>11, <1>12

------------------------------------------------------------------------------
\* What observes no provider leaves the rows as they are.
LEMMA NothingObserved ==
    ASSUME HealthIInv, UNCHANGED <<health, trail>>
    PROVE  RowsInv' /\ TroubleInv'
BY DEF HealthIInv, RowsInv, TroubleInv, Current, Last, Observed

\* A process that has just begun, or the one before the first.
NewMemory ==
    /\ phase \in {"down", "recovering"}
    /\ kind \in {"INITIAL", "RESTART", "CRASH_RECOVERY"}
    /\ marker \in {None, "running", "stopped"} /\ greeted \in {"recently", "longAgo"}
    /\ core = None /\ loop = None /\ stopping = FALSE
    /\ health = [p \in Providers |-> None]
    /\ reported = [p \in Providers |-> None]
    /\ snapshot = [p \in Providers |-> None]
    /\ left = {} /\ sending = None
    /\ told = [p \in Providers |-> None]
    /\ trail = [p \in Providers |-> <<>>]
    /\ observations \in 0..MaxObservations /\ faults \in 0..MaxFaults
    /\ starts \in 0..MaxStarts

LEMMA NewMemoryIInv == NewMemory => HealthIInv
<1> SUFFICES ASSUME NewMemory PROVE HealthIInv  OBVIOUS
<1> USE DEF NewMemory
<1>1. TypeOK
  <2>1. trail \in [Providers -> Seq(Observation)]  OBVIOUS
  <2>2. /\ health \in [Providers -> Entry \cup {None}]
        /\ reported \in [Providers -> Reported \cup {None}]
        /\ snapshot \in [Providers -> Statuses \cup {None}]
        /\ told \in [Providers -> Told \cup {None}]
        OBVIOUS
  <2>3. phase \in Phases  BY DEF Phases, Startup
  <2> HIDE DEF NewMemory
  <2>4. QED  BY <2>1, <2>2, <2>3 DEF TypeOK, NewMemory
<1>2. ASSUME NEW p \in Providers
      PROVE  /\ trail[p] = <<>> /\ Len(trail[p]) = 0
             /\ Current(p).failures = 0 /\ Current(p).successes = 0
      BY DEF Current
<1>3. ASSUME NEW p \in Providers, NEW n \in 0..Longest, NEW these
      PROVE  Last(p, n, these) <=> n = 0
      BY <1>2, Thresholds DEF Last
<1>4. RowsInv
  <2> HIDE DEF NewMemory
  <2>1. ASSUME NEW p \in Providers  PROVE Len(trail[p]) <= Longest  BY <1>2, Thresholds
  <2>2. ASSUME NEW p \in Providers, NEW n \in 0..Longest
        PROVE  /\ n <= Current(p).failures => Last(p, n, Wrong)
               /\ n <= Current(p).successes => Last(p, n, {"success"})
               /\ Last(p, n, {"failure"}) => n <= Current(p).failures
    <3>1. n <= 0 <=> n = 0  BY Thresholds
    <3>2. /\ Last(p, n, Wrong) <=> n = 0
          /\ Last(p, n, {"success"}) <=> n = 0
          /\ Last(p, n, {"failure"}) <=> n = 0
          BY <1>3
    <3>3. QED  BY <1>2, <3>1, <3>2
  <2>3. QED  BY <2>1, <2>2 DEF RowsInv
<1>5. TroubleInv
  <2>1. DegradedAt \in 0..Longest /\ DegradedAt # 0  BY Thresholds
  <2>2. QED  BY <1>3, <2>1 DEF TroubleInv
<1>6. PhaseInv  BY DEF PhaseInv, Silent, Unprimed
<1>7. SpokenInv  BY DEF SpokenInv
<1>8. QED  BY <1>1, <1>4, <1>5, <1>6, <1>7 DEF HealthIInv

LEMMA HealthInit == Init => HealthIInv
<1>1. Init => NewMemory  BY HealthAssumption DEF Init, NewMemory
<1>2. QED  BY <1>1, NewMemoryIInv

LEMMA MemoryIsFresh ==
    ASSUME HealthIInv, FreshMemory, phase' \in {"down", "recovering"},
           kind' \in {"INITIAL", "RESTART", "CRASH_RECOVERY"},
           UNCHANGED <<marker, greeted, observations, faults>>, starts' \in 0..MaxStarts
    PROVE  HealthIInv'
<1>1. NewMemory'  BY DEF FreshMemory, NewMemory, HealthIInv, TypeOK
<1>2. NewMemory' => HealthIInv'  BY NewMemoryIInv, PTL
<1>3. QED  BY <1>1, <1>2

------------------------------------------------------------------------------
\* What the startup message told is what counts as reported.
LEMMA Informed ==
    ASSUME HealthIInv, phase = "startupMessage", NEW receipt \in Receipts, Informs(receipt)
    PROVE  /\ told' \in [Providers -> Told \cup {None}]
           /\ \A p \in Providers : told'[p] # None /\ told'[p].confirmed =>
                 reported[p] # None /\ reported[p].status = told'[p].status
<1> USE DEF HealthIInv, TypeOK, PhaseInv
<1>1. \A p \in Providers : told[p] = None  BY DEF Silent
<1>2. ASSUME NEW p \in Providers
      PROVE  /\ told'[p] \in Told \cup {None}
             /\ told'[p] # None /\ told'[p].confirmed =>
                   reported[p] # None /\ reported[p].status = told'[p].status
  <2>1. CASE receipt = "refused" \/ snapshot[p] = None
    <3>1. told'[p] = None  BY <1>1, <2>1 DEF Informs
    <3>2. QED  BY <3>1
  <2>2. CASE receipt # "refused" /\ snapshot[p] # None
    <3>1. told'[p] = [status |-> snapshot[p], confirmed |-> receipt = "delivered"]
          BY <2>2 DEF Informs
    <3>2. reported[p] # None /\ reported[p].status = snapshot[p]  BY <2>2
    <3>3. snapshot[p] \in Statuses  BY <2>2
    <3>4. told'[p] \in Told  BY <3>1, <3>3 DEF Told
    <3>5. told'[p].status = snapshot[p]  BY <3>1
    <3>6. QED  BY <3>2, <3>4, <3>5
  <2>3. QED  BY <2>1, <2>2
<1>3. told' \in [Providers -> Told \cup {None}]  BY <1>2 DEF Informs
<1>4. QED  BY <1>2, <1>3

\* The steps before the process runs.
LEMMA StartupSteps ==
    ASSUME HealthIInv,
           \/ Recovered \/ MarkRunning \/ GreetingSuppressed \/ Greet \/ StartupFails
           \/ \E receipt \in Receipts : Greeted(receipt)
    PROVE  HealthIInv'
<1> USE DEF HealthIInv, TypeOK, PhaseInv, SpokenInv, Phases, Startup, Silent, Unprimed, bounds, store
<1>1. UNCHANGED <<health, trail>>
      BY DEF Recovered, MarkRunning, GreetingSuppressed, Greet, StartupFails, Greeted
<1>2. RowsInv' /\ TroubleInv'  BY <1>1, NothingObserved
<1>3. CASE Recovered  BY <1>2, <1>3 DEF Recovered
<1>4. CASE MarkRunning
  <2>1. snapshot' \in [Providers -> Statuses \cup {None}]
        BY <1>4 DEF MarkRunning, StatusOf, Observed, Entry
  <2>2. QED  BY <1>2, <1>4, <2>1 DEF MarkRunning
<1>5. CASE GreetingSuppressed
      BY <1>2, <1>5 DEF GreetingSuppressed, StartLoop, NoSnapshot
<1>6. CASE Greet
  <2>1. reported' \in [Providers -> Reported \cup {None}]
        BY <1>6 DEF Greet, Prime, Reported
  <2>2. ASSUME NEW p \in Providers, snapshot[p] # None
        PROVE  reported'[p] # None /\ reported'[p].status = snapshot[p]
    <3> DEFINE said == [status |-> snapshot[p], due |-> FALSE]
    <3>1. reported'[p] = said  BY <1>6, <2>2 DEF Greet, Prime
    <3>2. said \in Reported /\ said.status = snapshot[p]  BY <2>2 DEF Reported
    <3> HIDE DEF said
    <3>3. said # None  BY <3>2, NoneAssumption
    <3>4. QED  BY <3>1, <3>2, <3>3
  <2>3. UNCHANGED <<snapshot, sending, told, left>> /\ phase = "greeting" /\ phase' = "startupMessage"
        BY <1>6 DEF Greet
  <2>4. TypeOK'  BY <1>6, <2>1 DEF Greet
  <2>5. PhaseInv'  BY <2>2, <2>3
  <2>6. SpokenInv'
    <3>1. \A p \in Providers : told'[p] = None  BY <2>3
    <3>2. QED  BY <2>3, <3>1
  <2>7. QED  BY <1>2, <2>4, <2>5, <2>6
<1>7. CASE StartupFails
  <2>1. /\ sending' = None /\ phase' = "stopping" /\ left' = {} /\ snapshot' = NoSnapshot
        /\ stopping' = TRUE
        /\ UNCHANGED <<kind, store, core, loop, health, reported, trail, bounds>>
        BY <1>7 DEF StartupFails
  <2>2. /\ told' \in [Providers -> Told \cup {None}]
        /\ \A p \in Providers : told'[p] # None /\ told'[p].confirmed =>
              reported[p] # None /\ reported[p].status = told'[p].status
    <3>1. CASE phase = "startupMessage"
      <4>1. Informs("delivered") /\ "delivered" \in Receipts
            BY <1>7, <3>1 DEF StartupFails, Receipts
      <4>2. QED  BY <3>1, <4>1, Informed
    <3>2. CASE phase # "startupMessage"  BY <1>7, <3>2 DEF StartupFails
    <3>3. QED  BY <3>1, <3>2
  <2>3. TypeOK'  BY <2>1, <2>2 DEF NoSnapshot
  <2>4. PhaseInv'  BY <2>1
  <2>5. SpokenInv'  BY <2>1, <2>2
  <2>6. QED  BY <1>2, <2>3, <2>4, <2>5
<1>8. ASSUME NEW receipt \in Receipts, Greeted(receipt)
      PROVE  HealthIInv'
  <2> USE <1>8 DEF Greeted, StartLoop, Faulty
  <2>1. UNCHANGED reported  OBVIOUS
  <2>2. /\ told' \in [Providers -> Told \cup {None}]
        /\ \A p \in Providers : told'[p] # None /\ told'[p].confirmed =>
              reported[p] # None /\ reported[p].status = told'[p].status
        BY Informed
  <2>3. TypeOK'
    <3>1. faults' \in 0..MaxFaults  BY HealthAssumption
    <3>2. loop' = "HEALTHY" /\ phase' = "running" /\ snapshot' = NoSnapshot  OBVIOUS
    <3>3. snapshot' \in [Providers -> Statuses \cup {None}]  BY <3>2 DEF NoSnapshot
    <3>4. greeted' \in {"recently", "longAgo"}  OBVIOUS
    <3>5. UNCHANGED <<kind, marker, core, stopping, health, reported, left, sending, trail,
                      observations, starts>>
          OBVIOUS
    <3>6. QED  BY <2>2, <3>1, <3>2, <3>3, <3>4, <3>5
  <2>4. PhaseInv'  OBVIOUS
  <2>5. SpokenInv'  BY <2>1, <2>2
  <2>6. QED  BY <1>2, <2>3, <2>4, <2>5
<1>9. QED  BY <1>3, <1>4, <1>5, <1>6, <1>7, <1>8

\* The ends of the calls, and the probes.
LEMMA ObservingSteps ==
    ASSUME HealthIInv, NEW p \in Providers, CallSucceeds(p) \/ CallFails(p) \/ Probe(p)
    PROVE  HealthIInv'
<1> USE DEF HealthIInv, TypeOK, PhaseInv, SpokenInv, Phases, Startup, Silent, Unprimed, bounds, store
<1>1. Current(p) \in Entry  BY Thresholds DEF Current, Entry, Statuses
<1>2. Current(p).failures \in Nat /\ Current(p).successes \in Nat /\ Current(p).status \in Statuses
      BY <1>1 DEF Entry
<1>3. CASE CallSucceeds(p)
  <2>1. /\ RecordSuccess(p) \in Entry
        /\ RecordSuccess(p).failures = 0
        /\ RecordSuccess(p).successes = Current(p).successes + 1
        BY <1>2 DEF RecordSuccess, StatusAfterSuccess, Entry, Statuses
  <2>2. /\ health' = [health EXCEPT ![p] = RecordSuccess(p)]
        /\ trail' = [trail EXCEPT ![p] = Noted(p, "success")]
        /\ UNCHANGED <<phase, kind, store, core, loop, stopping, reported, snapshot, left,
                       sending, told, faults, starts>>
        /\ observations' \in 0..MaxObservations
        BY <1>3, HealthAssumption DEF CallSucceeds
  <2>3. /\ health' \in [Providers -> Entry \cup {None}]
        /\ trail' \in [Providers -> Seq(Observation)]
        /\ RowsInv' /\ TroubleInv'
        BY <2>1, <2>2, ObservedOnce
  <2>4. TypeOK' /\ PhaseInv'  BY <2>2, <2>3
  <2>5. SpokenInv'  BY <2>2 DEF FirstSeenWell, NothingNew, RepeatDue
  <2>6. QED  BY <2>3, <2>4, <2>5
<1>4. CASE CallFails(p)
  <2>1. /\ RecordFailure(p) \in Entry
        /\ RecordFailure(p).failures = Current(p).failures + 1
        /\ RecordFailure(p).successes = 0
        /\ RecordFailure(p).failures >= DegradedAt =>
              RecordFailure(p).status \in {"DEGRADED", "UNAVAILABLE"}
        BY <1>2, Thresholds DEF RecordFailure, StatusAfterFailure, Entry, Statuses
  <2>2. /\ health' = [health EXCEPT ![p] = RecordFailure(p)]
        /\ trail' = [trail EXCEPT ![p] = Noted(p, "failure")]
        /\ UNCHANGED <<phase, kind, store, core, loop, stopping, reported, snapshot, left,
                       sending, told, faults, starts>>
        /\ observations' \in 0..MaxObservations
        BY <1>4, HealthAssumption DEF CallFails
  <2>3. /\ health' \in [Providers -> Entry \cup {None}]
        /\ trail' \in [Providers -> Seq(Observation)]
        /\ RowsInv' /\ TroubleInv'
        BY <2>1, <2>2, ObservedOnce
  <2>4. TypeOK' /\ PhaseInv'  BY <2>2, <2>3
  <2>5. SpokenInv'  BY <2>2 DEF FirstSeenWell, NothingNew, RepeatDue
  <2>6. QED  BY <2>3, <2>4, <2>5
<1>5. CASE Probe(p)
  <2>1. PICK status \in Probed :
          /\ health' = [health EXCEPT ![p] = RecordProbe(status)]
          /\ trail' = [trail EXCEPT ![p] =
                         <<CASE status = "HEALTHY" -> "success"
                             [] status = "UNKNOWN" -> "unclear"
                             [] OTHER -> "failure">>]
        BY <1>5 DEF Probe
  <2>2. /\ health' \in [Providers -> Entry \cup {None}]
        /\ trail' \in [Providers -> Seq(Observation)]
        /\ RowsInv' /\ TroubleInv'
        BY <2>1, ProbedOnce
  <2>3. /\ phase = "probing" /\ left' = left \ {p}
        /\ phase' = IF left = {p} THEN "marking" ELSE "probing"
        /\ UNCHANGED <<kind, store, core, loop, stopping, reported, snapshot, sending, told,
                       bounds>>
        BY <1>5 DEF Probe
  <2>4. TypeOK'  BY <2>2, <2>3
  <2>5. PhaseInv'  BY <2>3
  <2>6. SpokenInv'  BY <2>3
  <2>7. QED  BY <2>2, <2>4, <2>5, <2>6
<1>6. QED  BY <1>3, <1>4, <1>5

\* The passes of the notifier.
LEMMA NotifierSteps ==
    ASSUME HealthIInv,
           \/ BeginPass
           \/ \E receipt \in Receipts : Spoken(receipt)
           \/ \E p \in Providers : Quiet(p) \/ Speak(p) \/ IntervalPasses(p)
    PROVE  HealthIInv'
<1> USE DEF HealthIInv, TypeOK, PhaseInv, SpokenInv, Phases, Startup, Silent, Unprimed, bounds, store
<1>1. UNCHANGED <<health, trail>>
      BY DEF BeginPass, Spoken, Quiet, Speak, IntervalPasses
<1>2. RowsInv' /\ TroubleInv'  BY <1>1, NothingObserved
<1>3. CASE BeginPass
  <2>1. \A p \in Providers : /\ snapshot'[p] \in Statuses \cup {None}
                             /\ p \in left' => snapshot'[p] \in Statuses
        BY <1>3 DEF BeginPass, StatusOf, Observed, Entry
  <2>2. snapshot' \in [Providers -> Statuses \cup {None}]
        BY <1>3, <2>1 DEF BeginPass, StatusOf
  <2>3. left' \subseteq Providers  BY <1>3 DEF BeginPass, Observed
  <2>4. TypeOK'  BY <1>3, <2>2, <2>3 DEF BeginPass
  <2>5. PhaseInv'
    <3>1. \A p \in left' : snapshot'[p] # None  BY <2>1, <2>3, NoneAssumption
    <3>2. QED  BY <1>3, <3>1 DEF BeginPass
  <2>6. SpokenInv'  BY <1>3 DEF BeginPass
  <2>7. QED  BY <1>2, <2>4, <2>5, <2>6
<1>4. ASSUME NEW p \in Providers, Quiet(p)
      PROVE  HealthIInv'
  <2>1. /\ p \in left /\ sending = None /\ left' = left \ {p} /\ sending' = None
        /\ UNCHANGED <<phase, kind, store, core, loop, stopping, told, bounds>>
        BY <1>4 DEF Quiet, LookedAt
  <2>2. phase = "running"
    <3>1. CASE phase = "probing"
      <4>1. snapshot[p] = None /\ reported[p] = None  BY <3>1
      <4>2. ~FirstSeenWell(p) /\ ~NothingNew(p)
            BY <4>1, NoneAssumption DEF FirstSeenWell, NothingNew, ProviderOk, Statuses
      <4>3. QED  BY <1>4, <4>2 DEF Quiet
    <3>2. QED  BY <2>1, <3>1
  <2>3. /\ snapshot' \in [Providers -> Statuses \cup {None}]
        /\ left # {p} => snapshot' = snapshot
        BY <1>4 DEF Quiet, LookedAt, NoSnapshot
  <2>4. \A q \in Providers : /\ reported'[q] \in Reported \cup {None}
                             /\ reported[q] # None => reported'[q] = reported[q]
    <3>1. CASE FirstSeenWell(p)
      <4>1. snapshot[p] \in Statuses  BY <3>1 DEF FirstSeenWell, ProviderOk, Statuses
      <4>2. reported' = [reported EXCEPT ![p] = [status |-> snapshot[p], due |-> FALSE]]
            BY <1>4, <3>1 DEF Quiet
      <4>3. [status |-> snapshot[p], due |-> FALSE] \in Reported  BY <4>1 DEF Reported
      <4>4. QED  BY <3>1, <4>2, <4>3 DEF FirstSeenWell
    <3>2. CASE ~FirstSeenWell(p)  BY <1>4, <3>2 DEF Quiet
    <3>3. QED  BY <3>1, <3>2
  <2>5. reported' \in [Providers -> Reported \cup {None}]  BY <1>4, <2>4 DEF Quiet
  <2>6. TypeOK'  BY <1>1, <2>1, <2>3, <2>5
  <2>7. PhaseInv'  BY <2>1, <2>2, <2>3
  <2>8. SpokenInv'  BY <2>1, <2>4
  <2>9. QED  BY <1>2, <2>6, <2>7, <2>8
<1>5. ASSUME NEW p \in Providers, Speak(p)
      PROVE  HealthIInv'
      BY <1>2, <1>5 DEF Speak, FirstSeenWell, NothingNew, RepeatDue
<1>6. ASSUME NEW p \in Providers, IntervalPasses(p)
      PROVE  HealthIInv'
  <2>1. /\ phase = "running" /\ reported[p] # None
        /\ reported' = [reported EXCEPT ![p].due = TRUE]
        /\ UNCHANGED <<phase, kind, store, core, loop, stopping, health, snapshot, left, sending,
                       told, trail, bounds>>
        BY <1>6 DEF IntervalPasses
  <2>2. /\ reported[p] \in Reported
        /\ [reported[p] EXCEPT !.due = TRUE] \in Reported
        /\ [reported[p] EXCEPT !.due = TRUE].status = reported[p].status
        /\ [reported[p] EXCEPT !.due = TRUE].due = TRUE
        BY <2>1 DEF Reported
  <2>3. /\ reported'[p] = [reported[p] EXCEPT !.due = TRUE]
        /\ \A q \in Providers : q # p => reported'[q] = reported[q]
        BY <2>1
  <2>4. reported' \in [Providers -> Reported \cup {None}]  BY <2>1, <2>2, <2>3
  <2>5. \A q \in Providers : /\ reported'[q] = None <=> reported[q] = None
                             /\ reported[q] # None => /\ reported'[q].status = reported[q].status
                                                      /\ reported[q].due => reported'[q].due
        BY <2>2, <2>3, NoneAssumption
  <2>6. TypeOK'  BY <2>1, <2>4
  <2>7. PhaseInv'  BY <2>1
  <2>8. SpokenInv'
    <3>1. \A q \in Providers : /\ FirstSeenWell(q)' => FirstSeenWell(q)
                               /\ NothingNew(q)' => NothingNew(q)
          BY <2>1, <2>5 DEF FirstSeenWell, NothingNew, RepeatDue
    <3>2. sending \in Providers \cup {None}  OBVIOUS
    <3>3. sending # None => ~FirstSeenWell(sending)' /\ ~NothingNew(sending)'
          BY <2>1, <3>1, <3>2
    <3>4. QED  BY <2>1, <2>5, <3>3
  <2>9. QED  BY <1>2, <2>6, <2>7, <2>8
<1>7. ASSUME NEW receipt \in Receipts, Spoken(receipt)
      PROVE  HealthIInv'
  <2> DEFINE p == sending
  <2>1. /\ p \in Providers /\ phase = "running" /\ p \in left /\ left' = left \ {p}
        /\ sending' = None
        /\ UNCHANGED <<phase, kind, store, core, loop, stopping, observations, starts>>
        /\ snapshot[p] \in Statuses
        /\ faults' \in 0..MaxFaults
        BY <1>7, HealthAssumption DEF Spoken, Faulty, LookedAt
  <2>2. /\ snapshot' \in [Providers -> Statuses \cup {None}]
        /\ left # {p} => snapshot' = snapshot
        BY <1>7 DEF Spoken, LookedAt, NoSnapshot
  <2>3. /\ reported' \in [Providers -> Reported \cup {None}]
        /\ \A q \in Providers \ {p} : reported'[q] = reported[q]
        /\ receipt = "delivered" => reported'[p] # None /\ reported'[p].status = snapshot[p]
        /\ receipt # "delivered" => reported' = reported
    <3> DEFINE said == [status |-> snapshot[p], due |-> FALSE]
    <3>1. CASE receipt = "delivered"
      <4>1. reported' = [reported EXCEPT ![p] = said]  BY <1>7, <3>1 DEF Spoken
      <4>2. said \in Reported /\ said.status = snapshot[p]  BY <2>1 DEF Reported
      <4>3. said # None  BY <4>2, NoneAssumption
      <4> HIDE DEF said
      <4>4. reported'[p] = said  BY <2>1, <4>1
      <4>5. QED  BY <2>1, <3>1, <4>1, <4>2, <4>3, <4>4
    <3>2. CASE receipt # "delivered"  BY <1>7, <3>2 DEF Spoken
    <3>3. QED  BY <3>1, <3>2
  <2>4. /\ told' \in [Providers -> Told \cup {None}]
        /\ \A q \in Providers \ {p} : told'[q] = told[q]
        /\ receipt = "refused" => told' = told
        /\ receipt # "refused" => told'[p].status = snapshot[p]
        /\ receipt \notin {"refused", "delivered"} => ~told'[p].confirmed
    <3> DEFINE heard == [status |-> snapshot[p], confirmed |-> receipt = "delivered"]
    <3>1. CASE receipt = "refused"  BY <1>7, <3>1 DEF Spoken
    <3>2. CASE receipt # "refused"
      <4>1. told' = [told EXCEPT ![p] = heard]  BY <1>7, <3>2 DEF Spoken
      <4>2. heard \in Told  BY <2>1 DEF Told
      <4>3. heard.status = snapshot[p] /\ (heard.confirmed => receipt = "delivered")  OBVIOUS
      <4> HIDE DEF heard
      <4>4. told'[p] = heard  BY <2>1, <4>1
      <4>5. QED  BY <2>1, <3>2, <4>1, <4>2, <4>3, <4>4
    <3>3. QED  BY <3>1, <3>2
  <2>5. TypeOK'  BY <1>1, <2>1, <2>2, <2>3, <2>4
  <2>6. PhaseInv'  BY <2>1, <2>2
  <2>7. ASSUME NEW q \in Providers, told'[q] # None, told'[q].confirmed
        PROVE  reported'[q] # None /\ reported'[q].status = told'[q].status
    <3>1. CASE q # p \/ receipt = "refused"  BY <2>3, <2>4, <2>7, <3>1
    <3>2. CASE q = p /\ receipt = "delivered"  BY <2>3, <2>4, <3>2
    <3>3. CASE q = p /\ receipt \notin {"refused", "delivered"}  BY <2>4, <2>7, <3>3
    <3>4. QED  BY <3>1, <3>2, <3>3
  <2>8. SpokenInv'  BY <2>1, <2>7
  <2>9. QED  BY <1>2, <2>5, <2>6, <2>8
<1>8. QED  BY <1>3, <1>4, <1>5, <1>6, <1>7

\* The end of a process and the beginning of the next.
LEMMA ProcessSteps ==
    ASSUME HealthIInv,
           \/ Boot \/ GreetingForgotten \/ MarkStopped \/ Exit \/ Crash
           \/ \E how \in {"STOPPING", "UNAVAILABLE"} : Stop(how)
    PROVE  HealthIInv'
<1> USE DEF bounds, store, memory
<1>1. CASE Boot
  <2>1. kind' \in {"INITIAL", "RESTART", "CRASH_RECOVERY"}  BY <1>1 DEF Boot, KindOfStart
  <2>2. starts' \in 0..MaxStarts  BY <1>1, HealthAssumption DEF Boot, HealthIInv, TypeOK
  <2>3. QED  BY <1>1, <2>1, <2>2, MemoryIsFresh DEF Boot
<1>2. CASE Exit \/ Crash
  <2>1. kind' \in {"INITIAL", "RESTART", "CRASH_RECOVERY"} /\ starts' \in 0..MaxStarts
        BY <1>2 DEF Exit, Crash, HealthIInv, TypeOK
  <2>2. QED  BY <1>2, <2>1, MemoryIsFresh DEF Exit, Crash
<1>3. CASE GreetingForgotten \/ MarkStopped
  <2>1. RowsInv' /\ TroubleInv'
        BY <1>3, NothingObserved DEF GreetingForgotten, MarkStopped
  <2>2. QED  BY <1>3, <2>1
             DEF GreetingForgotten, MarkStopped, HealthIInv, TypeOK, PhaseInv, SpokenInv, Phases, Startup,
                 Silent, Unprimed, FirstSeenWell, NothingNew, RepeatDue
<1>4. ASSUME NEW how \in {"STOPPING", "UNAVAILABLE"}, Stop(how)
      PROVE  HealthIInv'
  <2>1. RowsInv' /\ TroubleInv'  BY <1>4, NothingObserved DEF Stop
  <2>2. QED  BY <1>4, <2>1
             DEF Stop, NoSnapshot, HealthIInv, TypeOK, PhaseInv, SpokenInv, Phases, Startup,
                 Silent, Unprimed
<1>5. QED  BY <1>1, <1>2, <1>3, <1>4

\* HealthIInv is an invariant of the monitor and the notifier.
LEMMA HealthInvariant == Spec => []HealthIInv
<1>1. ASSUME HealthIInv, UNCHANGED vars  PROVE HealthIInv'
  <2>1. RowsInv' /\ TroubleInv'  BY <1>1, NothingObserved DEF vars, memory
  <2>2. QED  BY <1>1, <2>1
             DEF vars, memory, store, bounds, HealthIInv, TypeOK, PhaseInv, SpokenInv,
                 FirstSeenWell, NothingNew, RepeatDue
<1>2. HealthIInv /\ [Next]_vars => HealthIInv'
      BY <1>1, StartupSteps, ObservingSteps, NotifierSteps, ProcessSteps DEF Next
<1>3. QED  BY HealthInit, <1>2, PTL DEF Spec

\* Everything the process remembers of its providers is of its type.
THEOREM HealthTypeCorrect == Spec => []TypeOK
BY HealthInvariant, PTL DEF HealthIInv

\* The state of the whole hides no provider: while the application calls itself
\* HEALTHY, none of its providers has failed as often in a row as its threshold
\* allows (monitor.py _application_status).
THEOREM NothingIsHidden == Spec => []NoHiddenTrouble
<1>1. HealthIInv => NoHiddenTrouble
  <2> SUFFICES ASSUME HealthIInv, ApplicationStatus = "HEALTHY"
               PROVE  /\ core = "HEALTHY" /\ ~stopping
                      /\ \A p \in Providers : ~Last(p, DegradedAt, {"failure"})
      BY DEF NoHiddenTrouble, HealthIInv
  <2> DEFINE statuses == {health[p].status : p \in Observed}
  <2>1. /\ ~stopping
        /\ statuses \cap {"DEGRADED", "UNAVAILABLE"} = {}
        /\ core # None
        BY DEF ApplicationStatus, HealthIInv, TypeOK
  <2>2. ASSUME NEW p \in Providers  PROVE ~Last(p, DegradedAt, {"failure"})
        BY <2>1 DEF HealthIInv, TroubleInv
  <2>3. QED  BY <2>1, <2>2 DEF HealthIInv, TypeOK
<1>2. QED  BY <1>1, HealthInvariant, PTL

------------------------------------------------------------------------------
\* Only the end of a call is counted among the observations.
LEMMA ObservedByCalls ==
    ASSUME HealthIInv, Next, observations' = observations + 1
    PROVE  \E p \in Providers : CallSucceeds(p) \/ CallFails(p)
<1>1. observations \in Nat  BY HealthAssumption DEF HealthIInv, TypeOK
<1>2. observations' # observations  BY <1>1
<1>3. ~(\/ Boot \/ Recovered \/ MarkRunning \/ GreetingSuppressed \/ Greet
        \/ \E receipt \in Receipts : Greeted(receipt) \/ Spoken(receipt)
        \/ GreetingForgotten \/ BeginPass
        \/ \E p \in Providers : Probe(p) \/ Quiet(p) \/ Speak(p) \/ IntervalPasses(p)
        \/ \E how \in {"STOPPING", "UNAVAILABLE"} : Stop(how)
        \/ StartupFails \/ MarkStopped \/ Exit \/ Crash)
      BY <1>2 DEF bounds, Boot, Recovered, MarkRunning, GreetingSuppressed, Greet, Greeted, Spoken,
                  GreetingForgotten, BeginPass, Probe, Quiet, Speak, IntervalPasses, Stop,
                  StartupFails, MarkStopped, Exit, Crash
<1>4. QED  BY <1>3 DEF Next

\* No status is given for less than its threshold asks: what a status is changed
\* for is at the end of the history, in a row (monitor.py record_success and
\* record_failure).
THEOREM StatusesAreEarned == Spec => EarnedStatus
<1>1. ASSUME HealthIInv, HealthIInv', Next, NEW p \in Providers,
             observations' = observations + 1, health'[p] # health[p],
             health'[p].status # Current(p).status
      PROVE  CASE health'[p].status = "UNAVAILABLE" -> Last(p, UnavailableAt, Wrong)'
               [] health'[p].status = "DEGRADED" -> Last(p, DegradedAt, Wrong)'
               [] health'[p].status = "HEALTHY" -> Last(p, HealthyAt, {"success"})'
               [] OTHER -> /\ health'[p].status = "RECOVERING" /\ Last(p, 1, {"success"})'
                           /\ Current(p).status \in {"UNAVAILABLE", "UNKNOWN"}
  <2>1. health \in [Providers -> Entry \cup {None}]  BY <1>1 DEF HealthIInv, TypeOK
  <2>2. Current(p) \in Entry  BY <2>1 DEF Current, Entry, Statuses
  <2>3. Current(p).failures \in Nat /\ Current(p).successes \in Nat  BY <2>2 DEF Entry
  <2>4. ASSUME NEW n \in 1..Longest
        PROVE  /\ n <= Current(p)'.failures => Last(p, n, Wrong)'
               /\ n <= Current(p)'.successes => Last(p, n, {"success"})'
    <3>1. n \in 0..Longest  BY Thresholds
    <3>2. QED  BY <1>1, <3>1 DEF HealthIInv, RowsInv
  <2>5. CASE CallSucceeds(p)
    <3>1. health'[p] = RecordSuccess(p)  BY <2>1, <2>5 DEF CallSucceeds
    <3>2. /\ RecordSuccess(p).successes = Current(p).successes + 1
          /\ RecordSuccess(p).status =
               StatusAfterSuccess(Current(p).status, Current(p).successes + 1)
          /\ RecordSuccess(p) \in Entry
          BY <2>2, <2>3 DEF RecordSuccess, StatusAfterSuccess, Entry, Statuses
    <3>3. Current(p)' = RecordSuccess(p)  BY <3>1, <3>2, NoneAssumption DEF Current
    <3>4. CASE Current(p).successes + 1 >= HealthyAt
      <4>1. health'[p].status = "HEALTHY"  BY <3>1, <3>2, <3>4 DEF StatusAfterSuccess
      <4>2. HealthyAt \in 1..Longest /\ HealthyAt <= Current(p)'.successes
            BY <2>3, <3>2, <3>3, <3>4, Thresholds
      <4>3. QED  BY <2>4, <4>1, <4>2
    <3>5. CASE ~(Current(p).successes + 1 >= HealthyAt)
      <4>1. /\ health'[p].status = "RECOVERING"
            /\ Current(p).status \in {"UNAVAILABLE", "UNKNOWN"}
            BY <1>1, <3>1, <3>2, <3>5 DEF StatusAfterSuccess
      <4>2. 1 \in 1..Longest /\ 1 <= Current(p)'.successes
            BY <2>3, <3>2, <3>3, Thresholds
      <4>3. QED  BY <2>4, <4>1, <4>2
    <3>6. QED  BY <3>4, <3>5
  <2>6. CASE CallFails(p)
    <3>1. health'[p] = RecordFailure(p)  BY <2>1, <2>6 DEF CallFails
    <3>2. /\ RecordFailure(p).failures = Current(p).failures + 1
          /\ RecordFailure(p).status =
               StatusAfterFailure(Current(p).status, Current(p).failures + 1)
          /\ RecordFailure(p) \in Entry
          BY <2>2, <2>3 DEF RecordFailure, StatusAfterFailure, Entry, Statuses
    <3>3. Current(p)' = RecordFailure(p)  BY <3>1, <3>2, NoneAssumption DEF Current
    <3>4. CASE Current(p).failures + 1 >= UnavailableAt
      <4>1. health'[p].status = "UNAVAILABLE"  BY <3>1, <3>2, <3>4 DEF StatusAfterFailure
      <4>2. UnavailableAt \in 1..Longest /\ UnavailableAt <= Current(p)'.failures
            BY <2>3, <3>2, <3>3, <3>4, Thresholds
      <4>3. QED  BY <2>4, <4>1, <4>2
    <3>5. CASE ~(Current(p).failures + 1 >= UnavailableAt)
      <4>1. /\ health'[p].status = "DEGRADED"
            /\ Current(p).failures + 1 >= DegradedAt
            BY <1>1, <3>1, <3>2, <3>5 DEF StatusAfterFailure
      <4>2. DegradedAt \in 1..Longest /\ DegradedAt <= Current(p)'.failures
            BY <2>3, <3>2, <3>3, <4>1, Thresholds
      <4>3. QED  BY <2>4, <4>1, <4>2
    <3>6. QED  BY <3>4, <3>5
  <2>7. CallSucceeds(p) \/ CallFails(p)
    <3>1. PICK q \in Providers : CallSucceeds(q) \/ CallFails(q)  BY <1>1, ObservedByCalls
    <3>2. q = p  BY <1>1, <2>1, <3>1 DEF CallSucceeds, CallFails
    <3>3. QED  BY <3>1, <3>2
  <2>8. QED  BY <2>5, <2>6, <2>7
<1>2. HealthIInv /\ HealthIInv' /\ [Next]_vars =>
        [\A p \in Providers :
           (observations' = observations + 1 /\ health'[p] # health[p]
              /\ health'[p].status # Current(p).status)
           => CASE health'[p].status = "UNAVAILABLE" -> Last(p, UnavailableAt, Wrong)'
                [] health'[p].status = "DEGRADED" -> Last(p, DegradedAt, Wrong)'
                [] health'[p].status = "HEALTHY" -> Last(p, HealthyAt, {"success"})'
                [] OTHER -> /\ health'[p].status = "RECOVERING" /\ Last(p, 1, {"success"})'
                            /\ Current(p).status \in {"UNAVAILABLE", "UNKNOWN"}]_vars
      BY <1>1
<1>3. QED  BY <1>2, HealthInvariant, PTL DEF Spec, EarnedStatus

\* What was confirmed is not said again before it is due, and a recovery never,
\* whatever messages are refused between and whatever changes while one is being
\* sent (system.py notify_health).
THEOREM NothingIsRepeated == Spec => SaidOnce
<1>1. ASSUME HealthIInv, NEW receipt \in Receipts, NEW p \in Providers,
             Spoken(receipt), sending = p,
             told[p] # None, told[p].confirmed, told[p].status = snapshot[p]
      PROVE  snapshot[p] \notin ProviderOk /\ reported[p] # None /\ reported[p].due
  <2>1. reported[p] # None /\ reported[p].status = told[p].status
        BY <1>1 DEF HealthIInv, SpokenInv
  <2>2. ~NothingNew(p)  BY <1>1, NoneAssumption DEF HealthIInv, SpokenInv, Spoken
  <2>3. QED  BY <1>1, <2>1, <2>2 DEF NothingNew, RepeatDue
<1>2. HealthIInv /\ [Next]_vars =>
        [\A receipt \in Receipts \ {"refused"}, p \in Providers :
           /\ Spoken(receipt) /\ sending = p
           /\ told[p] # None /\ told[p].confirmed /\ told[p].status = snapshot[p]
           => snapshot[p] \notin ProviderOk /\ reported[p] # None /\ reported[p].due]_vars
      BY <1>1
<1>3. QED  BY <1>2, HealthInvariant, PTL DEF Spec, SaidOnce
==============================================================================
