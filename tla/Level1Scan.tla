----------------------------- MODULE Level1Scan -----------------------------
(***************************************************************************)
(* One scan of Level 1 after the other (services/level1): the cycles of the*)
(* tokens with their rounds of BUY and SELL requests, the memory of missing*)
(* routes, the timeout of the scan, the creation of opportunities with its *)
(* deduplication and back pressure, and the row of the scan.  The scheduler*)
(* never runs two scans at once.                                           *)
(* Prices are left out: the best BUY, the candidates above the threshold   *)
(* and the order of the groups are any.  A group is named by the fingerprint*)
(* of its opportunity, which is why no two groups of a scan are equal.     *)
(***************************************************************************)
EXTENDS Integers, FiniteSets

CONSTANTS
    Tokens,          \* intermediate tokens of the scope
    Providers,
    Pairs,           \* pairs <<buy, sell>> that the route policy allows
    Offered,         \* requests the adapters and the capability registry allow
    Illiquid,        \* requests whose answer may be "no route" (bound of the model)
    MaxConcurrent,   \* max_concurrent_requests
    FailureThreshold,\* no_route_memory.failure_threshold
    MaxPerScan,      \* max_opportunities_per_scan
    QueueCapacity,   \* queue_capacity of the Level 2 worker
    MaxFaults,       \* errors, cancellations and crashes (bound of the model)
    None

Requests == [token : Tokens, operation : {"BUY", "SELL"}, provider : Providers]
Fingerprints == [token : Tokens, buy : Providers, sell : Providers]

ASSUME Level1Assumption ==
    /\ Pairs \subseteq Providers \X Providers
    /\ Offered \subseteq Requests
    /\ Illiquid \subseteq Requests
    /\ IsFiniteSet(Requests) /\ IsFiniteSet(Fingerprints)
    /\ MaxConcurrent \in Nat \ {0}
    /\ FailureThreshold \in Nat \ {0}
    /\ MaxPerScan \in Nat
    /\ QueueCapacity \in Nat \ {0}
    /\ MaxFaults \in Nat
    /\ None \notin Providers
    /\ None \notin Fingerprints

VARIABLES
    pc,         \* where the scan is: the await at which it stands
    stage,      \* stage[t]: the cycle of token t
    best,       \* best[t]: the provider of the best BUY
    waiting,    \* requests that wait for the semaphore of the collector
    running,    \* requests at their providers
    usable,     \* requests answered by a usable quote
    stats,      \* counters of the collector
    candidates, \* groups above the threshold, not yet handed off
    group,      \* the group in hand
    created,    \* groups created by this scan, and counted
    stored,     \* groups of this scan in the database (history)
    capacity,   \* opportunities this scan may create
    timedOut,   \* the scan ran out of its time
    noRoute,    \* noRoute[r]: failures in a row, or Paused, or Elapsed
    orphans,    \* requests that outlived the cycle that made them
    recent,     \* recent[f]: opportunities of f within the window
    worker,     \* jobs in the worker
    row,        \* the row of the last scan
    faults

vars == <<pc, stage, best, waiting, running, usable, stats, candidates, group,
          created, stored, capacity, timedOut, noRoute, orphans, recent, worker,
          row, faults>>

Places == {"idle", "create", "collect", "lookup", "store", "finish", "cancelled", "down"}
Stages == {"buy", "sell", "evaluate", "done", "failed"}
RowStatuses == {"NONE", "RUNNING", "COMPLETE", "PARTIAL", "FAILED", "CANCELLED"}

(* An entry with skip_until in the future, and one whose time has passed. *)
Paused == FailureThreshold
Elapsed == FailureThreshold + 1

Counters == [requests : Nat, successful : Nat, failed : Nat]
NoStats == [requests |-> 0, successful |-> 0, failed |-> 0]
NoRow == [status |-> "NONE", stats |-> NoStats, created |-> 0]

TypeOK ==
    /\ pc \in Places
    /\ stage \in [Tokens -> Stages]
    /\ best \in [Tokens -> Providers \cup {None}]
    /\ waiting \subseteq Offered /\ running \subseteq Offered /\ orphans \subseteq Offered
    /\ usable \subseteq Offered
    /\ stats \in Counters
    /\ candidates \subseteq Fingerprints /\ created \subseteq Fingerprints
    /\ stored \subseteq Fingerprints
    /\ group \in Fingerprints \cup {None}
    /\ capacity \in 0 .. MaxPerScan
    /\ timedOut \in BOOLEAN
    /\ noRoute \in [Requests -> 0 .. Elapsed]
    /\ recent \in [Fingerprints -> Nat]
    /\ worker \in 0 .. QueueCapacity
    /\ row \in [status : RowStatuses, stats : Counters, created : Nat]
    /\ faults \in 0 .. MaxFaults

Init ==
    /\ pc = "idle"
    /\ stage = [t \in Tokens |-> "done"]
    /\ best = [t \in Tokens |-> None]
    /\ waiting = {} /\ running = {} /\ usable = {} /\ orphans = {}
    /\ stats = NoStats
    /\ candidates = {} /\ created = {} /\ stored = {}
    /\ group = None
    /\ capacity = 0
    /\ timedOut = FALSE
    /\ noRoute = [r \in Requests |-> 0]
    /\ recent = [f \in Fingerprints |-> 0]
    /\ worker = 0
    /\ row = NoRow
    /\ faults = 0

-----------------------------------------------------------------------------
(* The memory of missing routes (NoRouteMemory). *)

Remembered(memory, r) ==
    [memory EXCEPT ![r] = IF @ < FailureThreshold THEN @ + 1 ELSE @]
Forgotten(memory, r) == [memory EXCEPT ![r] = 0]

(* The combinations the filter lets pass; asking about a combination whose *)
(* pause is over erases its entry.                                         *)
Allowed(set) == {r \in set \cap Offered : noRoute[r] # Paused}
\* Mutant: an entry whose time has passed is kept.
RecheckedNever(set) == noRoute
Rechecked(set) == [r \in Requests |-> IF r \in set \cap Offered /\ noRoute[r] = Elapsed
                                      THEN 0 ELSE noRoute[r]]

Round(t, operation, providers) ==
    {[token |-> t, operation |-> operation, provider |-> p] : p \in providers}

Buyers == {p \in Providers : \E q \in Providers : <<p, q>> \in Pairs}
Sellers(buyer) == {q \in Providers : <<buyer, q>> \in Pairs}

Pending(t) == {r \in waiting \cup running : r.token = t}
Outlive == {r \in waiting \cup running : stage[r.token] = "failed"}

CyclesCancelled ==
    /\ usable' = {} /\ best' = [t \in Tokens |-> None]
    /\ waiting' = waiting \cap Outlive /\ running' = running \cap Outlive

CycleEnds(t) ==
    /\ usable' = {r \in usable : r.token # t}
    /\ best' = [best EXCEPT ![t] = None]

-----------------------------------------------------------------------------
(* The scan from its start to the end of the collection *)

Start ==
    /\ pc = "idle"
    /\ pc' = "create"
    /\ stage' = [t \in Tokens |-> "done"]
    /\ stored' = {}
    /\ timedOut' = FALSE
    /\ row' = NoRow
    /\ UNCHANGED <<best, waiting, running, usable, stats, candidates, group, created, capacity,
                   noRoute, orphans, recent, worker, faults>>

(* The row is inserted and the cycles of all tokens send their BUY requests.*)
Collect ==
    /\ pc = "create"
    /\ LET all == UNION {Round(t, "BUY", Buyers) : t \in Tokens}
       IN  /\ waiting' = Allowed(all)
           /\ noRoute' = Rechecked(all)
           /\ stats' = [stats EXCEPT !.requests = Cardinality(Allowed(all))]
    /\ row' = [NoRow EXCEPT !.status = "RUNNING"]
    /\ stage' = [t \in Tokens |-> IF Pairs = {} THEN "done" ELSE "buy"]
    /\ pc' = "collect"
    /\ UNCHANGED <<best, running, usable, candidates, group, created, stored, capacity,
                   timedOut, orphans, recent, worker, faults>>

Send(r) ==
    /\ r \in waiting
    /\ Cardinality(running) < MaxConcurrent
    /\ waiting' = waiting \ {r}
    /\ running' = running \cup {r}
    /\ UNCHANGED <<pc, stage, best, usable, stats, candidates, group, created, stored,
                   capacity, timedOut, noRoute, orphans, recent, worker, row, faults>>

Returned(r) ==
    /\ r \in running
    /\ running' = running \ {r}
    /\ UNCHANGED <<pc, waiting, candidates, group, created, stored, capacity,
                   timedOut, orphans, recent, worker, row>>

AnswerUsable(r) ==
    /\ Returned(r)
    /\ usable' = IF stage[r.token] = "failed" THEN usable ELSE usable \cup {r}
    /\ stats' = [stats EXCEPT !.successful = @ + 1]
    /\ noRoute' = Forgotten(noRoute, r)
    /\ UNCHANGED <<stage, best, faults>>

(* An error of the provider, or a quote that the scan rejects. *)
AnswerFailed(r) ==
    /\ Returned(r)
    /\ stats' = [stats EXCEPT !.failed = @ + 1]
    /\ UNCHANGED <<stage, best, usable, noRoute, faults>>

AnswerNoRoute(r) ==
    /\ r \in Illiquid
    /\ Returned(r)
    /\ stats' = [stats EXCEPT !.failed = @ + 1]
    /\ noRoute' = Remembered(noRoute, r)
    /\ UNCHANGED <<stage, best, usable, faults>>

(* Anything but an error of the application ends the cycle of the token at *)
(* once; its other requests go on without it.                              *)
AnswerRaised(r) ==
    /\ faults < MaxFaults
    /\ faults' = faults + 1
    /\ Returned(r)
    /\ stage' = [stage EXCEPT ![r.token] = "failed"]
    /\ CycleEnds(r.token)
    /\ UNCHANGED <<stats, noRoute>>

(* The best BUY decides which SELL requests follow, for its amount. *)
BuyRoundEnds(t) ==
    /\ stage[t] = "buy" /\ Pending(t) = {} /\ pc = "collect"
    /\ \/ /\ ~ \E r \in usable : r.token = t
          /\ stage' = [stage EXCEPT ![t] = "done"]
          /\ UNCHANGED <<best, waiting, noRoute, stats>>
       \/ \E r \in usable :
             LET sells == Round(t, "SELL", Sellers(r.provider))
             IN  /\ r.token = t
                 /\ best' = [best EXCEPT ![t] = r.provider]
                 /\ waiting' = waiting \cup Allowed(sells)
                 /\ noRoute' = Rechecked(sells)
                 /\ stats' = [stats EXCEPT !.requests = @ + Cardinality(Allowed(sells))]
                 /\ stage' = [stage EXCEPT ![t] = "sell"]
    /\ UNCHANGED <<pc, running, usable, candidates, group, created, stored, capacity,
                   timedOut, orphans, recent, worker, row, faults>>

SellRoundEnds(t) ==
    /\ stage[t] = "sell" /\ Pending(t) = {} /\ pc = "collect"
    /\ stage' = [stage EXCEPT ![t] = "evaluate"]
    /\ UNCHANGED <<pc, best, waiting, running, usable, stats, candidates, group, created,
                   stored, capacity, timedOut, noRoute, orphans, recent, worker, row, faults>>

Formed(t) == {[token |-> t, buy |-> best[t], sell |-> r.provider] :
                r \in {u \in usable : u.token = t /\ u.operation = "SELL"}}

(* Each pair of quotes is evaluated; those above the threshold go on. *)
Evaluate(t) ==
    /\ stage[t] = "evaluate" /\ pc = "collect"
    /\ \E passed \in SUBSET Formed(t) : candidates' = candidates \cup passed
    /\ stage' = [stage EXCEPT ![t] = "done"]
    /\ CycleEnds(t)
    /\ UNCHANGED <<pc, waiting, running, stats, group, created, stored,
                   capacity, timedOut, noRoute, orphans, recent, worker, row, faults>>

(* Fees, gas or rates cannot be had: the cycle of the token ends without a *)
(* candidate, and nothing is counted.                                      *)
EvaluateFails(t) ==
    /\ stage[t] = "evaluate" /\ pc = "collect"
    /\ faults < MaxFaults
    /\ faults' = faults + 1
    /\ stage' = [stage EXCEPT ![t] = "failed"]
    /\ CycleEnds(t)
    /\ UNCHANGED <<pc, waiting, running, stats, candidates, group, created,
                   stored, capacity, timedOut, noRoute, orphans, recent, worker, row>>
-----------------------------------------------------------------------------
(* The opportunities.  How many may be created is read once. *)

\* Mutant: the jobs the worker already has are not looked at.
RoomOfEmptyWorker == MaxPerScan

Room == IF MaxPerScan <= QueueCapacity - worker THEN MaxPerScan ELSE QueueCapacity - worker

\* Mutant: the group taken up is not removed from those that are left.
NextGroupAgain(left, room) ==
    \/ /\ left = {} \/ Cardinality(created') >= room
       /\ pc' = "finish" /\ group' = None /\ candidates' = left
    \/ /\ Cardinality(created') < room
       /\ \E f \in left : group' = f
       /\ candidates' = left
       /\ pc' = "lookup"

NextGroup(left, room) ==
    \/ /\ left = {} \/ Cardinality(created') >= room
       /\ pc' = "finish" /\ group' = None /\ candidates' = left
    \/ /\ Cardinality(created') < room
       /\ \E f \in left : group' = f /\ candidates' = left \ {f}
       /\ pc' = "lookup"

Collected ==
    /\ pc = "collect"
    /\ \A t \in Tokens : stage[t] \in {"done", "failed"}
    /\ capacity' = Room
    /\ UNCHANGED created
    /\ NextGroup(candidates, Room)
    /\ UNCHANGED <<stage, best, waiting, running, usable, stats, stored, timedOut, noRoute,
                   orphans, recent, worker, row, faults>>

(* The requests of the cancelled cycles are cancelled with them, and their *)
(* candidates are lost.                                                    *)
Timeout ==
    /\ pc = "collect"
    /\ timedOut' = TRUE
    /\ capacity' = Room
    /\ pc' = "finish" /\ candidates' = {} /\ group' = None
    /\ CyclesCancelled
    /\ UNCHANGED <<stage, stats, created, stored, noRoute, orphans, recent, worker, row, faults>>

\* Mutant: only the groups of the same scan are compared.
IsDuplicateInScan(f) == f \in created

IsDuplicate(f) == recent[f] > 0

Lookup ==
    /\ pc = "lookup"
    /\ UNCHANGED created
    /\ \/ IsDuplicate(group) /\ NextGroup(candidates, capacity)
       \/ ~IsDuplicate(group) /\ pc' = "store" /\ UNCHANGED <<group, candidates>>
    /\ UNCHANGED <<stage, best, waiting, running, usable, stats, stored, capacity, timedOut,
                   noRoute, orphans, recent, worker, row, faults>>

Inserted == /\ recent' = [recent EXCEPT ![group] = @ + 1]
            /\ stored' = stored \cup {group}

(* create_with_job() commits and submit() follows without a pause. *)
Store ==
    /\ pc = "store"
    /\ Inserted
    /\ worker' = IF worker < QueueCapacity THEN worker + 1 ELSE worker
    /\ created' = IF worker < QueueCapacity THEN created \cup {group} ELSE created
    /\ NextGroup(candidates, capacity)
    /\ UNCHANGED <<stage, best, waiting, running, usable, stats, capacity, timedOut, noRoute,
                   orphans, row, faults>>

(* The transaction fails: the group is given up and the next one follows. *)
StoreFails ==
    /\ pc = "store"
    /\ faults < MaxFaults
    /\ faults' = faults + 1
    /\ UNCHANGED created
    /\ NextGroup(candidates, capacity)
    /\ UNCHANGED <<stage, best, waiting, running, usable, stats, stored, capacity, timedOut,
                   noRoute, orphans, recent, worker, row>>
-----------------------------------------------------------------------------
(* The end of the scan *)

FinalStatus ==
    CASE timedOut -> IF stats.successful > 0 THEN "PARTIAL" ELSE "FAILED"
      [] ~timedOut /\ stats.failed = 0 -> "COMPLETE"
      [] ~timedOut /\ stats.failed > 0 /\ stats.successful > 0 -> "PARTIAL"
      [] OTHER -> "FAILED"

Closed(status, count) ==
    IF row.status = "NONE" THEN row
    ELSE [status |-> status, stats |-> stats, created |-> count]

Ends ==
    /\ pc' = "idle" /\ group' = None
    /\ orphans' = orphans \cup (waiting \cup running)
    /\ waiting' = {} /\ running' = {} /\ usable' = {} /\ candidates' = {} /\ created' = {}
    /\ best' = [t \in Tokens |-> None]
    /\ stats' = NoStats /\ capacity' = 0
    /\ UNCHANGED <<stage, timedOut, noRoute, worker>>

Finish ==
    /\ pc = "finish"
    /\ row' = Closed(FinalStatus, Cardinality(created))
    /\ Ends
    /\ UNCHANGED <<stored, recent, faults>>

FinishCancelled ==
    /\ pc = "cancelled"
    /\ row' = Closed("CANCELLED", 0)
    /\ Ends
    /\ UNCHANGED <<stored, recent, faults>>

(* An error of the database at any other of the statements, or a second     *)
(* cancellation, ends the scan without its last write.                      *)
Abandon ==
    /\ pc \in {"create", "lookup", "finish", "cancelled"}
    /\ faults < MaxFaults
    /\ faults' = faults + 1
    /\ Ends
    /\ UNCHANGED <<row, stored, recent>>

(* The task runner or the shutdown cancels the scan at its await: a statement*)
(* that was sent may have been carried out.                                  *)
Cancel ==
    /\ pc \in {"create", "collect", "lookup", "store", "finish"}
    /\ faults < MaxFaults
    /\ faults' = faults + 1
    /\ pc' = "cancelled" /\ candidates' = {} /\ group' = None
    /\ CyclesCancelled
    /\ \/ pc = "store" /\ Inserted /\ UNCHANGED row
       \/ pc = "create" /\ row' = [NoRow EXCEPT !.status = "RUNNING"] /\ UNCHANGED <<stored, recent>>
       \/ pc = "finish" /\ row' = Closed(FinalStatus, Cardinality(created)) /\ UNCHANGED <<stored, recent>>
       \/ UNCHANGED <<stored, recent, row>>
    /\ UNCHANGED <<stage, stats, created, capacity, timedOut, noRoute, orphans, worker>>
-----------------------------------------------------------------------------
(* What goes on beside the scan *)

OrphanEnds(r) ==
    /\ r \in orphans
    /\ orphans' = orphans \ {r}
    /\ \/ noRoute' = Forgotten(noRoute, r)
       \/ r \in Illiquid /\ noRoute' = Remembered(noRoute, r)
       \/ UNCHANGED noRoute
    /\ UNCHANGED <<pc, stage, best, waiting, running, usable, stats, candidates, group, created,
                   stored, capacity, timedOut, recent, worker, row, faults>>

PauseEnds(r) ==
    /\ noRoute[r] = Paused
    /\ noRoute' = [noRoute EXCEPT ![r] = Elapsed]
    /\ UNCHANGED <<pc, stage, best, waiting, running, usable, stats, candidates, group, created,
                   stored, capacity, timedOut, orphans, recent, worker, row, faults>>

WindowPasses(f) ==
    /\ recent[f] > 0
    /\ recent' = [recent EXCEPT ![f] = @ - 1]
    /\ UNCHANGED <<pc, stage, best, waiting, running, usable, stats, candidates, group, created,
                   stored, capacity, timedOut, noRoute, orphans, worker, row, faults>>

JobEnds ==
    /\ worker > 0
    /\ worker' = worker - 1
    /\ UNCHANGED <<pc, stage, best, waiting, running, usable, stats, candidates, group, created,
                   stored, capacity, timedOut, noRoute, orphans, recent, row, faults>>

(* The process dies; a transaction under way may have been committed. *)
Stop ==
    /\ pc # "down"
    /\ faults < MaxFaults
    /\ faults' = faults + 1
    /\ pc' = "down"
    /\ candidates' = {} /\ group' = None /\ waiting' = {} /\ running' = {} /\ orphans' = {}
    /\ usable' = {} /\ created' = {} /\ best' = [t \in Tokens |-> None]
    /\ stats' = NoStats /\ capacity' = 0
    /\ noRoute' = [r \in Requests |-> 0]
    /\ worker' = 0
    /\ \/ pc = "store" /\ Inserted
       \/ UNCHANGED <<stored, recent>>
    /\ UNCHANGED <<stage, timedOut, row>>

Restart ==
    /\ pc = "down"
    /\ pc' = "idle"
    /\ UNCHANGED <<stage, best, waiting, running, usable, stats, candidates, group, created,
                   stored, capacity, timedOut, noRoute, orphans, recent, worker, row, faults>>
-----------------------------------------------------------------------------
Answers(r) == AnswerUsable(r) \/ AnswerFailed(r) \/ AnswerNoRoute(r)

ScanStep ==
    \/ Collect \/ Collected \/ Lookup \/ Store \/ Finish \/ FinishCancelled
    \/ \E r \in Requests : Send(r) \/ Answers(r)
    \/ \E t \in Tokens : BuyRoundEnds(t) \/ SellRoundEnds(t) \/ Evaluate(t)

Next ==
    \/ Start \/ ScanStep
    \/ Timeout \/ Cancel \/ Abandon \/ StoreFails \/ Stop \/ Restart \/ JobEnds
    \/ \E r \in Requests : AnswerRaised(r) \/ OrphanEnds(r) \/ PauseEnds(r)
    \/ \E t \in Tokens : EvaluateFails(t)
    \/ \E f \in Fingerprints : WindowPasses(f)

(* The scheduler starts a scan again and again, requests end by their own   *)
(* timeouts, a pause is over when its time is.                              *)
Fairness ==
    /\ WF_vars(ScanStep) /\ WF_vars(Start) /\ WF_vars(Restart)
    /\ \A r \in Requests : WF_vars(PauseEnds(r))

Spec == Init /\ [][Next]_vars /\ Fairness
-----------------------------------------------------------------------------
(* Properties *)

\* An opportunity is created once in a window: over scans that were cancelled
\* between the transaction and the submission, over restarts and failures.  The
\* lookup and the insertion are separate statements (dedup.py, handoff.py).
UniqueInWindow == \A f \in Fingerprints : recent[f] <= 1

\* The room is read once, before the first of many awaits, and still no group
\* stored in the database is refused by the worker (scanner.py, worker.py).
NothingRefused ==
    /\ pc = "store" => worker < QueueCapacity
    /\ Cardinality(stored) <= MaxPerScan

\* The row of a scan that was not cancelled counts exactly the opportunities the
\* scan left in the database, and COMPLETE is said only of a scan that was not cut
\* short and has a usable answer to every request of every cycle that did not
\* break off (scanner.py _final_status, _finish; quotes.py).
RowsTellTheTruth ==
    row.status \in {"COMPLETE", "PARTIAL", "FAILED"} =>
        /\ row.created = Cardinality(stored)
        /\ row.stats.successful + row.stats.failed <= row.stats.requests
        /\ row.status = "COMPLETE" =>
              /\ ~timedOut
              /\ \/ row.stats.successful = row.stats.requests
                 \/ \E t \in Tokens : stage[t] = "failed"

TruthfulScans == TypeOK /\ NothingRefused /\ RowsTellTheTruth

\* Every scan comes to its end, whatever its requests answer, although the
\* rounds of all tokens share one semaphore (cycle.py, quotes.py).
ScanEnds == [](pc \notin {"idle", "down"} => <>(pc \in {"idle", "down"}))

\* No combination is left out for ever: one that was paused is looked at again
\* once its pause is over (no_route.py should_skip, filters.py).
PausedAskedAgain ==
    \A r \in Offered \cap Illiquid : r.operation = "BUY" /\ r.provider \in Buyers =>
        (noRoute[r] >= Paused ~> noRoute[r] < Paused)
=============================================================================
