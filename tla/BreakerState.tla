----------------------------- MODULE BreakerState -----------------------------
(***************************************************************************)
(* The state of one CircuitBreaker (services/resources/circuit.py) and     *)
(* what its methods do to it.  Time is one bit: `elapsed` says whether     *)
(* recovery_timeout_seconds have passed since opened_at.                   *)
(***************************************************************************)
EXTENDS Naturals

CONSTANTS FailureThreshold,   \* failure_threshold
          SuccessThreshold,   \* success_threshold
          HalfOpenMaxCalls    \* half_open_max_calls

ASSUME BreakerAssumption ==
    /\ FailureThreshold \in Nat \ {0}
    /\ SuccessThreshold \in Nat \ {0}
    /\ HalfOpenMaxCalls \in Nat \ {0}

BreakerStates == {"CLOSED", "OPEN", "HALF_OPEN"}

BreakerType ==
    [state : BreakerStates, failures : Nat, successes : Nat,
     halfOpenCalls : Nat, elapsed : BOOLEAN]

\* _open(), _close() and the constructor: every counter starts from nothing.
Fresh(state) ==
    [state |-> state, failures |-> 0, successes |-> 0,
     halfOpenCalls |-> 0, elapsed |-> FALSE]

Opened == Fresh("OPEN")
Closed == Fresh("CLOSED")

\* The property `state`: reading it turns OPEN into HALF_OPEN once the recovery
\* time has elapsed.  Every method below starts with such a read.
Settled(b) ==
    IF b.state = "OPEN" /\ b.elapsed
    THEN [b EXCEPT !.state = "HALF_OPEN", !.halfOpenCalls = 0, !.successes = 0]
    ELSE b

\* allows_request() and the test of try_acquire(), on a settled breaker.
Allows(b) ==
    \/ b.state = "CLOSED"
    \/ b.state = "HALF_OPEN" /\ b.halfOpenCalls < HalfOpenMaxCalls

\* try_acquire() that succeeds: only HALF_OPEN counts its calls.
Acquired(b) ==
    IF b.state = "HALF_OPEN" THEN [b EXCEPT !.halfOpenCalls = @ + 1] ELSE b

\* release(): unconditional, whatever the state the slot was taken in.
Freed(b) ==
    [b EXCEPT !.halfOpenCalls = IF @ = 0 THEN 0 ELSE @ - 1]

\* on_success(): HALF_OPEN closes after SuccessThreshold of them; otherwise the
\* row of failures is broken.
OnSuccess(b) ==
    LET s == Settled(b) IN
    IF s.state # "HALF_OPEN" THEN [s EXCEPT !.failures = 0]
    ELSE IF s.successes + 1 >= SuccessThreshold THEN Closed
    ELSE [s EXCEPT !.successes = @ + 1]

\* on_failure(): one failure reopens a HALF_OPEN breaker.
OnFailure(b) ==
    LET s == Settled(b) IN
    IF s.state = "HALF_OPEN" \/ s.failures + 1 >= FailureThreshold THEN Opened
    ELSE [s EXCEPT !.failures = @ + 1]
==============================================================================
