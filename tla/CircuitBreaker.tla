---------------------------- MODULE CircuitBreaker ----------------------------
(***************************************************************************)
(* One circuit breaker under the calls of the resource manager             *)
(* (services/resources/circuit.py, used by ResourceManager._execute_-      *)
(* controlled): a call asks, waits in the queue, is admitted or refused,   *)
(* runs, reports its outcome and releases.  Calls that were admitted while *)
(* the breaker was CLOSED may still run when it is OPEN or HALF_OPEN.      *)
(***************************************************************************)
EXTENDS BreakerState, FiniteSets

CONSTANT Calls      \* the coroutines that use the resource

ASSUME CallsAssumption == IsFiniteSet(Calls)

VARIABLES breaker,  \* the breaker
          call,     \* "idle", "queued" or "running", for each call
          probes,   \* history: running calls that took a probe slot since the
                    \* breaker last became HALF_OPEN
          healthy   \* environment: the resource has recovered for good

BreakerVars == <<breaker, call, probes, healthy>>

BreakerTypeOK ==
    /\ breaker \in BreakerType
    /\ call \in [Calls -> {"idle", "queued", "running"}]
    /\ probes \subseteq Calls
    /\ healthy \in BOOLEAN

BreakerInit ==
    /\ breaker = Closed
    /\ call = [c \in Calls |-> "idle"]
    /\ probes = {}
    /\ healthy = FALSE

------------------------------------------------------------------------------
\* The probes of the present HALF_OPEN period when the breaker becomes b.
ProbesAfter(b, running) ==
    IF b.state = "HALF_OPEN" /\ breaker.state = "HALF_OPEN" THEN running ELSE {}

\* allows_request() before the queue.
Ask(c) ==
    /\ call[c] = "idle"
    /\ breaker' = Settled(breaker)
    /\ call' = [call EXCEPT ![c] = IF Allows(breaker') THEN "queued" ELSE "idle"]
    /\ probes' = ProbesAfter(breaker', probes)
    /\ UNCHANGED healthy

\* try_acquire() after the queue: admitted, with a probe slot in HALF_OPEN.
Admit(c) ==
    LET b == Settled(breaker) IN
    /\ call[c] = "queued"
    /\ Allows(b)
    /\ breaker' = Acquired(b)
    /\ call' = [call EXCEPT ![c] = "running"]
    /\ probes' = IF b.state = "HALF_OPEN" THEN ProbesAfter(b, probes) \cup {c} ELSE {}
    /\ UNCHANGED healthy

\* try_acquire() refuses: the state changed while the call was queued.
Refuse(c) ==
    LET b == Settled(breaker) IN
    /\ call[c] = "queued"
    /\ ~Allows(b)
    /\ breaker' = b
    /\ call' = [call EXCEPT ![c] = "idle"]
    /\ probes' = ProbesAfter(b, probes)
    /\ UNCHANGED healthy

\* The call leaves the queue by a timeout or a cancellation: the breaker is not
\* touched.
GiveUp(c) ==
    /\ call[c] = "queued"
    /\ call' = [call EXCEPT ![c] = "idle"]
    /\ UNCHANGED <<breaker, probes, healthy>>

\* The end of a running call: the outcome is reported and, in the same stretch,
\* the slot is released.
End(c, reported) ==
    /\ call[c] = "running"
    /\ breaker' = Freed(reported)
    /\ call' = [call EXCEPT ![c] = "idle"]
    /\ probes' = ProbesAfter(breaker', probes \ {c})
    /\ UNCHANGED healthy

Succeed(c) == End(c, OnSuccess(breaker))

\* A failure of a retryable category, once the retries are used up.
Fail(c) == ~healthy /\ End(c, OnFailure(breaker))

\* Mutant of EndUncounted: a cancelled probe does not release its slot.
EndUncountedLeaks(c) ==
    /\ ~healthy
    /\ call[c] = "running"
    /\ call' = [call EXCEPT ![c] = "idle"]
    /\ probes' = probes \ {c}
    /\ UNCHANGED <<breaker, healthy>>

\* A cancellation or an error that says nothing of the resource (DATA,
\* VALIDATION, UNSUPPORTED, AUTHENTICATION): not counted at all.
EndUncounted(c) == ~healthy /\ End(c, breaker)

\* Time: recovery_timeout_seconds have passed since opened_at.
RecoveryElapses ==
    /\ breaker.state = "OPEN"
    /\ ~breaker.elapsed
    /\ breaker' = [breaker EXCEPT !.elapsed = TRUE]
    /\ UNCHANGED <<call, probes, healthy>>

\* Environment: from now on every call succeeds.
Heal ==
    /\ ~healthy
    /\ healthy' = TRUE
    /\ UNCHANGED <<breaker, call, probes>>

------------------------------------------------------------------------------
BreakerNext ==
    \/ RecoveryElapses
    \/ Heal
    \/ \E c \in Calls :
         \/ Ask(c)
         \/ Admit(c)
         \/ Refuse(c)
         \/ GiveUp(c)
         \/ Succeed(c)
         \/ Fail(c)
         \/ EndUncounted(c)

\* Time passes, the program keeps asking, and the queue and the operations have
\* timeouts.  Whether the resource ever heals is not assumed.
BreakerFairness ==
    /\ WF_BreakerVars(RecoveryElapses)
    /\ \A c \in Calls :
         /\ WF_BreakerVars(Ask(c))
         /\ SF_BreakerVars(Admit(c))
         /\ WF_BreakerVars(Refuse(c))
         /\ WF_BreakerVars(Succeed(c))

BreakerSpec == BreakerInit /\ [][BreakerNext]_BreakerVars

BreakerFairSpec == BreakerSpec /\ BreakerFairness

------------------------------------------------------------------------------
\* The probes that really run.
Running == {c \in Calls : call[c] = "running"}

\* Every occupied probe slot belongs to a probe that is still running: no way
\* of ending a call leaves a slot occupied for ever, which would keep the
\* resource in HALF_OPEN without a single admitted request (release()).
NoPhantomProbe ==
    /\ probes \subseteq Running
    /\ breaker.halfOpenCalls <= Cardinality(probes)

\* A breaker outside HALF_OPEN has no occupied slot, and a CLOSED one always is
\* short of its threshold: the next period of probes starts from nothing.
NoStaleCounters ==
    /\ breaker.state # "HALF_OPEN" => breaker.halfOpenCalls = 0 /\ breaker.successes = 0
    /\ breaker.failures < FailureThreshold
    /\ breaker.successes < SuccessThreshold

\* The three counters mean what their names say at every moment: in no order of
\* calls, late ends, cancellations and reads of the clock does one of them keep
\* something of an earlier period, or of a probe that is gone.
CountersTrue == BreakerTypeOK /\ NoPhantomProbe /\ NoStaleCounters

\* A breaker whose resource has healed closes: no history of late failures,
\* refused requests and cancelled probes leaves it rejecting for ever.
ClosesAfterHealing == healthy ~> breaker.state = "CLOSED"

\* What try_acquire() documents: in HALF_OPEN no more than half_open_max_calls
\* probes run at the same time (circuit.py:68, "ограничивается число
\* одновременных проб").
ProbesLimited ==
    breaker.state = "HALF_OPEN" => Cardinality(probes) <= HalfOpenMaxCalls
==============================================================================
