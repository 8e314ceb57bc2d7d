-------------------------- MODULE NotificationDelivery --------------------------
(***************************************************************************)
(* Delivery of the notifications of one confirmed opportunity.             *)
(*                                                                         *)
(* OpportunityService publishes one notification per destination in one    *)
(* transaction.  NotificationDispatcher claims the pending ones in order   *)
(* and, for each of them, writes SENDING, calls the transport, inserts the *)
(* attempt row and writes the resulting state: four awaits, each of them a *)
(* step here, with a crash or a failing pass possible between any two.     *)
(* RecoveryService puts what it finds in SENDING back into the queue.      *)
(*                                                                         *)
(* Notifications are 1..Count in the order (created_at, sequence) of the   *)
(* queue.  Time is abstracted to "the backoff has passed" (due).           *)
(***************************************************************************)
EXTENDS Naturals, FiniteSets

CONSTANTS
    Count,          \* notifications, one per configured destination
    Undeliverable,  \* those without a transport or without a valid text
    MaxAttempts,    \* NotificationConfig.max_attempts
    BatchSize,      \* NotificationConfig.queue_capacity
    Outcomes,       \* what a send may end in, see Outcome below
    FaultKinds,     \* the faults considered: "crash", "abort"
    MaxFaults       \* bound on their number

Notes == 1..Count
Outcome == {"delivered", "lost", "retryable", "permanent"}
                \* "lost": Telegram took the message, its answer did not arrive
Faults == {"crash", "abort"}

ASSUME ConstantsAssumption ==
    /\ Count \in Nat \ {0}
    /\ Undeliverable \subseteq Notes
    /\ MaxAttempts \in Nat \ {0}
    /\ BatchSize \in Nat \ {0}
    /\ Outcomes \subseteq Outcome
    /\ FaultKinds \subseteq Faults
    /\ MaxFaults \in Nat

VARIABLES
    status,       \* notifications.status; "absent" before publication
    attempts,     \* notifications.attempt_count
    due,          \* next_attempt_at IS NULL or has passed
    recorded,     \* attempt numbers present in notification_attempts
    phase,        \* where the dispatcher stands (Phases)
    batch,        \* rows claimed by this pass and not processed yet: note ->
                  \* attempt_count as it was claimed
    receipt,      \* the outcome of the last send
    received,     \* ghost: copies the destination has received
    interrupted,  \* ghost: sends of this note cut short and put back
    lost,         \* ghost: sends whose answer was lost
    faults        \* ghost: faults so far

vars == <<status, attempts, due, recorded, phase, batch, receipt,
          received, interrupted, lost, faults>>
rows == <<status, attempts, due, recorded>>
ghosts == <<received, interrupted, lost, faults>>

Statuses == {"absent", "queued", "sending", "retry_wait", "sent", "failed"}
Final == {"sent", "failed"}
Phases == {"idle", "deliver", "refused", "sending", "answered", "recorded", "down"}

NoBatch == [n \in {} |-> 0]
Rest == DOMAIN batch

\* Mutant of Current: the newest row of the batch comes first.
CurrentNewest(n) == n \in Rest /\ \A m \in Rest : m <= n

\* The row the loop of the pass is at: the first that is left.
Current(n) == n \in Rest /\ \A m \in Rest : n <= m

\* attempt_number = attempt_count + 1, of the row as it was claimed.
Number(n) == batch[n] + 1

Init ==
    /\ status = [n \in Notes |-> "absent"]
    /\ attempts = [n \in Notes |-> 0]
    /\ due = [n \in Notes |-> TRUE]
    /\ recorded = [n \in Notes |-> {}]
    /\ phase = "idle"
    /\ batch = NoBatch
    /\ receipt = "delivered"
    /\ received = [n \in Notes |-> 0]
    /\ interrupted = [n \in Notes |-> 0]
    /\ lost = [n \in Notes |-> 0]
    /\ faults = 0

----------------------------------------------------------------------------
\* UPDATE notifications SET status, attempt_count, next_attempt_at.
Write(n, s, count, isDue) ==
    /\ status' = [status EXCEPT ![n] = s]
    /\ attempts' = [attempts EXCEPT ![n] = count]
    /\ due' = [due EXCEPT ![n] = isDue]

\* n is done with; an empty batch ends the pass.
NextInBatch(n) ==
    /\ batch' = [m \in Rest \ {n} |-> batch[m]]
    /\ phase' = IF Rest = {n} THEN "idle" ELSE "deliver"

\* One transaction writes the notification of every destination; a second
\* confirmation of the same opportunity finds them and writes nothing.
Publish ==
    /\ phase # "down"
    /\ \A n \in Notes : status[n] = "absent"
    /\ status' = [n \in Notes |-> "queued"]
    /\ UNCHANGED <<attempts, due, recorded, phase, batch, receipt, ghosts>>

\* Mutant of Pending: RETRY_WAIT is forgotten among the pending statuses.
PendingQueued(n) == status[n] = "queued" /\ due[n]

\* What claim_pending selects.
Pending(n) == status[n] \in {"queued", "retry_wait"} /\ due[n]

\* The pending rows with fewer than BatchSize of them before: ORDER BY, LIMIT.
Claimable == {n \in Notes : /\ Pending(n)
                            /\ Cardinality({m \in 1..(n - 1) : Pending(m)}) < BatchSize}

\* The pass takes the first pending rows as they are now.
Claim ==
    /\ phase = "idle"
    /\ Claimable # {}
    /\ batch' = [n \in Claimable |-> attempts[n]]
    /\ phase' = "deliver"
    /\ UNCHANGED <<rows, receipt, ghosts>>

\* _fail, first write: the attempt row of a notification that cannot be sent.
RefuseRecords(n) ==
    /\ phase = "deliver"
    /\ Current(n)
    /\ n \in Undeliverable
    /\ Number(n) \notin recorded[n]
    /\ recorded' = [recorded EXCEPT ![n] = @ \cup {Number(n)}]
    /\ phase' = "refused"
    /\ UNCHANGED <<status, attempts, due, batch, receipt, ghosts>>

\* _fail again, after the row was written and the state was not: the insert
\* breaks UNIQUE(notification_id, attempt_number) and the error ends the pass.
RefuseCollides(n) ==
    /\ phase = "deliver"
    /\ Current(n)
    /\ n \in Undeliverable
    /\ Number(n) \in recorded[n]
    /\ phase' = "idle"
    /\ batch' = NoBatch
    /\ UNCHANGED <<rows, receipt, ghosts>>

\* _fail, second write.
RefuseMarks(n) ==
    /\ phase = "refused"
    /\ Current(n)
    /\ Write(n, "failed", Number(n), TRUE)
    /\ NextInBatch(n)
    /\ UNCHANGED <<recorded, receipt, ghosts>>

\* _deliver: SENDING and the attempt number are written before the send.
StartSend(n) ==
    /\ phase = "deliver"
    /\ Current(n)
    /\ n \notin Undeliverable
    /\ Write(n, "sending", Number(n), TRUE)
    /\ phase' = "sending"
    /\ UNCHANGED <<recorded, batch, receipt, ghosts>>

\* transport.send: what the destination got, and what the dispatcher hears.
Send(n, outcome) ==
    /\ phase = "sending"
    /\ Current(n)
    /\ receipt' = outcome
    /\ received' = IF outcome \in {"delivered", "lost"}
                   THEN [received EXCEPT ![n] = @ + 1] ELSE received
    /\ lost' = IF outcome = "lost" THEN [lost EXCEPT ![n] = @ + 1] ELSE lost
    /\ phase' = "answered"
    /\ UNCHANGED <<rows, batch, interrupted, faults>>

\* _apply, first write: the attempt row.
RecordAttempt(n) ==
    /\ phase = "answered"
    /\ Current(n)
    /\ Number(n) \notin recorded[n]
    /\ recorded' = [recorded EXCEPT ![n] = @ \cup {Number(n)}]
    /\ phase' = "recorded"
    /\ UNCHANGED <<status, attempts, due, batch, receipt, ghosts>>

\* Retried unless the error is permanent or the attempts are used up.
Verdict(outcome, n) ==
    IF outcome = "delivered" THEN "sent"
    ELSE IF outcome # "permanent" /\ n < MaxAttempts THEN "retry_wait"
    ELSE "failed"

\* _apply, second write: the state, and the backoff of a retry.
Conclude(n) ==
    /\ phase = "recorded"
    /\ Current(n)
    /\ LET s == Verdict(receipt, Number(n))
       IN Write(n, s, Number(n), s # "retry_wait")
    /\ NextInBatch(n)
    /\ UNCHANGED <<recorded, receipt, ghosts>>

\* The backoff has passed.
BecomesDue(n) ==
    /\ ~due[n]
    /\ due' = [due EXCEPT ![n] = TRUE]
    /\ UNCHANGED <<status, attempts, recorded, phase, batch, receipt, ghosts>>

----------------------------------------------------------------------------
\* A write fails or the task is cancelled: the pass ends where it stands and
\* the process goes on to the next one.
Abort ==
    /\ "abort" \in FaultKinds
    /\ faults < MaxFaults
    /\ faults' = faults + 1
    /\ phase \notin {"idle", "down"}
    /\ phase' = "idle"
    /\ batch' = NoBatch
    /\ UNCHANGED <<rows, receipt, received, interrupted, lost>>

\* The process dies or is stopped; the rows stay.
Crash ==
    /\ "crash" \in FaultKinds
    /\ faults < MaxFaults
    /\ faults' = faults + 1
    /\ phase # "down"
    /\ phase' = "down"
    /\ batch' = NoBatch
    /\ UNCHANGED <<rows, receipt, received, interrupted, lost>>

\* Mutant of Recover: the attempt count starts again.
RecoverFromScratch(n) ==
    /\ phase = "down"
    /\ status[n] = "sending"
    /\ Write(n, "queued", 0, TRUE)
    /\ interrupted' = [interrupted EXCEPT ![n] = @ + 1]
    /\ UNCHANGED <<recorded, phase, batch, receipt, received, lost, faults>>

\* Startup recovery puts an interrupted send back, keeping its attempt count.
Recover(n) ==
    /\ phase = "down"
    /\ status[n] = "sending"
    /\ Write(n, "queued", attempts[n], TRUE)
    /\ interrupted' = [interrupted EXCEPT ![n] = @ + 1]
    /\ UNCHANGED <<recorded, phase, batch, receipt, received, lost, faults>>

\* Startup goes on once no interrupted send is left.
Restarted ==
    /\ phase = "down"
    /\ \A n \in Notes : status[n] # "sending"
    /\ phase' = "idle"
    /\ UNCHANGED <<rows, batch, receipt, ghosts>>

Pass ==
    \/ Claim
    \/ \E n \in Notes :
         \/ RefuseRecords(n)
         \/ RefuseCollides(n)
         \/ RefuseMarks(n)
         \/ StartSend(n)
         \/ \E outcome \in Outcomes : Send(n, outcome)
         \/ RecordAttempt(n)
         \/ Conclude(n)
Startup == Restarted \/ \E n \in Notes : Recover(n)

Next == \/ Publish
        \/ Pass
        \/ \E n \in Notes : BecomesDue(n)
        \/ Abort
        \/ Crash
        \/ Startup

Spec == Init /\ [][Next]_vars

\* The scheduler runs the notification task again and again, an answer or a
\* timeout comes, time passes, and an operator starts a stopped process.
FairSpec ==
    /\ Spec
    /\ WF_vars(Pass)
    /\ WF_vars(Startup)
    /\ \A n \in Notes : WF_vars(BecomesDue(n))

----------------------------------------------------------------------------
\* Types of the rows and of the pass; the receipt is one of the outcomes.
TypeOK ==
    /\ status \in [Notes -> Statuses]
    /\ attempts \in [Notes -> Nat]
    /\ due \in [Notes -> BOOLEAN]
    /\ recorded \in [Notes -> SUBSET (Nat \ {0})]
    /\ phase \in Phases
    /\ Rest \subseteq Notes
    /\ batch \in [Rest -> Nat]
    /\ receipt \in Outcome
    /\ received \in [Notes -> Nat]
    /\ interrupted \in [Notes -> Nat]
    /\ lost \in [Notes -> Nat]
    /\ faults \in 0..MaxFaults
    /\ phase \in {"idle", "down"} <=> Rest = {}

\* A notification is shown as SENT only when its destination has received it,
\* whatever crashes and lost answers came before.
SentWasReceived == \A n \in Notes : status[n] = "sent" => received[n] > 0

\* The attempts are limited: beyond max_attempts only one further send for
\* every interruption, and a notification waits for a retry only while it has
\* attempts left.
AttemptsLimited == \A n \in Notes :
    /\ attempts[n] <= MaxAttempts + interrupted[n]
    /\ status[n] = "retry_wait" => attempts[n] < MaxAttempts

\* A destination gets a copy too many only for an interrupted send or a lost
\* answer; a refused send and a permanent error never cause one.
CopiesExplained == \A n \in Notes : received[n] <= 1 + interrupted[n] + lost[n]

\* The number an answered send is about to be recorded under is not taken, so
\* the insert of _apply never breaks the UNIQUE constraint.
AttemptNumberFree ==
    \A n \in Notes : phase = "answered" /\ Current(n) => Number(n) \notin recorded[n]

\* What the rows say of a notification is what happened to it: over crashes
\* between any two writes, lost answers and restarts.
RecordsTrue ==
    TypeOK /\ SentWasReceived /\ AttemptsLimited /\ CopiesExplained /\ AttemptNumberFree

\* A verdict is final: SENT and FAILED notifications are never taken up
\* again, by a later pass or by recovery.
VerdictsStay == [][\A n \in Notes : status[n] \in Final => status'[n] = status[n]]_vars

\* The first send of a notification never overtakes an earlier one of the
\* queue: when it is started every earlier one has been tried.
QueueOrder == [][\A m, n \in Notes :
    (m < n /\ attempts[n] = 0 /\ attempts'[n] = 1) => attempts[m] > 0]_vars

\* Left in SENDING by a pass that failed: only the next start takes it up.
LeftSending(n) ==
    /\ status[n] = "sending"
    /\ phase \in {"idle", "deliver"} \/ (phase # "down" /\ ~Current(n))

\* A refused notification whose attempt row was written without its state:
\* every pass fails at it.
Poisoned(n) ==
    /\ status[n] \in {"queued", "retry_wait"}
    /\ attempts[n] + 1 \in recorded[n]
    /\ ~(phase = "refused" /\ Current(n))

\* Every published notification reaches a verdict, over crashes, backoffs and
\* retries, unless one of the two gaps of the code is in the way: a failed
\* write left it in SENDING, or the queue holds a poisoned notification.
EveryNoteSettles == \A n \in Notes : status[n] = "queued" ~>
    (status[n] \in Final \/ LeftSending(n) \/ \E m \in Notes : Poisoned(m))

----------------------------------------------------------------------------
\* dispatcher.py: the failure of one destination does not block the others.
OthersSettle == \A n \in Notes \ Undeliverable :
    status[n] = "queued" ~> status[n] \in Final
=============================================================================
