------------------------------ MODULE Level2Jobs ------------------------------
(***************************************************************************)
(* The life of a Level 2 job and of the opportunity it verifies, from the  *)
(* hand-off of Level 1 to the verdict, over crashes, shutdowns and the     *)
(* recovery at the next start.                                             *)
(*                                                                         *)
(*   services/level1/handoff.py   creates both and submits the job         *)
(*   services/level2/worker.py    an outer task for each job waits for the *)
(*                                semaphore; the inner one, shielded by    *)
(*                                InFlightRegistry, verifies               *)
(*   services/level2/scanner.py   the verification and its writes          *)
(*   app/recovery.py              what a start does to unfinished work     *)
(*                                                                         *)
(* jobs, opportunities and saved are the database; the rest is memory.     *)
(* Every write is a step: other tasks run, and the process may die,        *)
(* between any two of them.                                                *)
(***************************************************************************)
EXTENDS Verdicts, Naturals, FiniteSets

CONSTANTS Jobs,            \* the jobs, each with its opportunity
          MaxParallel,     \* level2.max_parallel
          QueueCapacity,   \* level2.queue_capacity
          Outcomes,        \* what verifying the amounts may find: sets of
                           \* statuses of the amounts
          Expiring         \* bound: the jobs whose time runs out in the model

ASSUME Level2Assumption ==
    /\ IsFiniteSet(Jobs)
    /\ MaxParallel \in Nat \ {0}
    /\ QueueCapacity \in Nat \ {0}
    /\ Outcomes \subseteq (SUBSET AmountStatuses) \ {{}}
    /\ Expiring \subseteq Jobs

VARIABLES jobs,           \* level2_jobs.status
          opportunities,  \* opportunities.status
          saved,          \* the results saved by save_confirmation(), {} if none
          process,        \* the phase of the process
          outer,          \* the task of worker.submit()
          inner,          \* the task of InFlightRegistry
          results,        \* the results the inner task carries, {} if none
          jobLate,        \* jobs whose expires_at has passed
          opportunityLate,\* opportunities whose expires_at has passed
          died            \* history: jobs whose verification ended by an error

database == <<jobs, opportunities, saved>>
memory == <<outer, inner, results>>
clock == <<jobLate, opportunityLate>>
vars == <<database, memory, clock, died, process>>

JobStatuses == {"absent", "QUEUED", "RUNNING"} \cup JobVerdicts
OpportunityStatuses == {"absent", "CREATED", "VERIFYING"} \cup OpportunityVerdicts

\* "offered": stored and not yet submitted; "holding": it owns the semaphore.
OuterPlaces == {"none", "offered", "queued", "holding"}

\* The next thing the inner task does; "ended" until the outer one sees it.
Writing == {"markJob", "markOpportunity", "save", "finalJob", "finalOpportunity"}
Active == {"begin", "verify"} \cup Writing
InnerPlaces == {"none", "ended"} \cup Active

\* "closing": the worker has been cancelled and the database is still open.
Phases == {"up", "closing", "down", "recoverJobs", "recoverOpportunities"}

TypeOK ==
    /\ jobs \in [Jobs -> JobStatuses]
    /\ opportunities \in [Jobs -> OpportunityStatuses]
    /\ saved \in [Jobs -> SUBSET AmountStatuses]
    /\ process \in Phases
    /\ outer \in [Jobs -> OuterPlaces]
    /\ inner \in [Jobs -> InnerPlaces]
    /\ results \in [Jobs -> SUBSET AmountStatuses]
    /\ jobLate \subseteq Jobs
    /\ opportunityLate \subseteq Jobs
    /\ died \subseteq Jobs

Idle(place) == [j \in Jobs |-> place]

Init ==
    /\ jobs = Idle("absent")
    /\ opportunities = Idle("absent")
    /\ saved = Idle({})
    /\ process = "up"
    /\ outer = Idle("none")
    /\ inner = Idle("none")
    /\ results = Idle({})
    /\ jobLate = {}
    /\ opportunityLate = {}
    /\ died = {}

------------------------------------------------------------------------------
(* Hand-off and worker                                                      *)

\* create_with_job(): one transaction stores both.
Create(j) ==
    /\ process = "up"
    /\ jobs[j] = "absent"
    /\ jobs' = [jobs EXCEPT ![j] = "QUEUED"]
    /\ opportunities' = [opportunities EXCEPT ![j] = "CREATED"]
    /\ outer' = [outer EXCEPT ![j] = "offered"]
    /\ UNCHANGED <<saved, inner, results, clock, died, process>>

\* The tasks of the worker.
Tasks == {j \in Jobs : outer[j] \in {"queued", "holding"}}

\* submit() with a free place in the queue
Submit(j) ==
    /\ outer[j] = "offered"
    /\ Cardinality(Tasks) < QueueCapacity
    /\ outer' = [outer EXCEPT ![j] = "queued"]
    /\ UNCHANGED <<database, inner, results, clock, died, process>>

\* and with the queue full: the caller gets an error, the stored job stays QUEUED.
Reject(j) ==
    /\ outer[j] = "offered"
    /\ Cardinality(Tasks) >= QueueCapacity
    /\ outer' = [outer EXCEPT ![j] = "none"]
    /\ UNCHANGED <<database, inner, results, clock, died, process>>

\* Mutant of StartInner: the semaphore is forgotten.
StartInnerUnbounded(j) ==
    /\ outer[j] = "queued"
    /\ outer' = [outer EXCEPT ![j] = "holding"]
    /\ inner' = [inner EXCEPT ![j] = "begin"]
    /\ UNCHANGED <<database, results, clock, died, process>>

\* _run(): the outer task gets the semaphore and starts the inner one.
StartInner(j) ==
    /\ outer[j] = "queued"
    /\ Cardinality({k \in Jobs : outer[k] = "holding"}) < MaxParallel
    /\ outer' = [outer EXCEPT ![j] = "holding"]
    /\ inner' = [inner EXCEPT ![j] = "begin"]
    /\ UNCHANGED <<database, results, clock, died, process>>

\* Mutant of OuterResumes: an error in the verification keeps the semaphore.
OuterResumesOnSuccess(j) ==
    /\ outer[j] = "holding"
    /\ inner[j] = "ended"
    /\ j \notin died
    /\ outer' = [outer EXCEPT ![j] = "none"]
    /\ inner' = [inner EXCEPT ![j] = "none"]
    /\ UNCHANGED <<database, results, clock, died, process>>

\* The outer task resumes after the inner one and frees the semaphore.
OuterResumes(j) ==
    /\ outer[j] = "holding"
    /\ inner[j] = "ended"
    /\ outer' = [outer EXCEPT ![j] = "none"]
    /\ inner' = [inner EXCEPT ![j] = "none"]
    /\ UNCHANGED <<database, results, clock, died, process>>

------------------------------------------------------------------------------
(* The verification, Level2Scanner.confirm()                                *)

\* The inner task goes to a place of its code.
Goes(j, place) == inner' = [inner EXCEPT ![j] = place]

\* The inner task ends; nobody waits for it once its outer task is cancelled.
Ends(j) ==
    /\ Goes(j, IF outer[j] = "holding" THEN "ended" ELSE "none")
    /\ results' = [results EXCEPT ![j] = {}]

\* Up to the first write: a result that exists already is returned; an expired
\* job or opportunity is not verified at all.
Begin(j) ==
    /\ inner[j] = "begin"
    /\ \/ saved[j] # {} /\ Ends(j)
       \/ /\ saved[j] = {}
          /\ j \in jobLate \cup opportunityLate
          /\ results' = [results EXCEPT ![j] = {"EXPIRED"}]
          /\ Goes(j, "save")
       \/ /\ saved[j] = {}
          /\ j \notin jobLate \cup opportunityLate
          /\ Goes(j, "markJob")
          /\ UNCHANGED results
    /\ UNCHANGED <<database, outer, clock, died, process>>

MarkJob(j) ==
    /\ inner[j] = "markJob"
    /\ jobs' = [jobs EXCEPT ![j] = "RUNNING"]
    /\ Goes(j, "markOpportunity")
    /\ UNCHANGED <<opportunities, saved, outer, results, clock, died, process>>

MarkOpportunity(j) ==
    /\ inner[j] = "markOpportunity"
    /\ opportunities' = [opportunities EXCEPT ![j] = "VERIFYING"]
    /\ Goes(j, "verify")
    /\ UNCHANGED <<jobs, saved, outer, results, clock, died, process>>

\* _verify_amounts(): some outcome, or a timeout, which fails every amount.
Verify(j) ==
    /\ inner[j] = "verify"
    /\ \E found \in Outcomes \cup {{"FAILED"}} : results' = [results EXCEPT ![j] = found]
    /\ Goes(j, "save")
    /\ UNCHANGED <<database, outer, clock, died, process>>

\* Mutant of Save: the opportunity is written before the job.
SaveThenOpportunity(j) ==
    /\ inner[j] = "save"
    /\ saved' = [saved EXCEPT ![j] = results[j]]
    /\ Goes(j, "finalOpportunity")
    /\ UNCHANGED <<jobs, opportunities, outer, results, clock, died, process>>

\* _finish(): the results with all their amounts in one transaction,
Save(j) ==
    /\ inner[j] = "save"
    /\ saved' = [saved EXCEPT ![j] = results[j]]
    /\ Goes(j, "finalJob")
    /\ UNCHANGED <<jobs, opportunities, outer, results, clock, died, process>>

\* then the status of the job,
FinalJob(j) ==
    /\ inner[j] = "finalJob"
    /\ jobs' = [jobs EXCEPT ![j] = JobStatusFor(results[j])]
    /\ Goes(j, "finalOpportunity")
    /\ UNCHANGED <<opportunities, saved, outer, results, clock, died, process>>

\* and the status of the opportunity.
FinalOpportunity(j) ==
    /\ inner[j] = "finalOpportunity"
    /\ opportunities' = [opportunities EXCEPT ![j] = OpportunityStatusFor(results[j])]
    /\ Ends(j)
    /\ UNCHANGED <<jobs, saved, outer, clock, died, process>>

\* An error that nobody handles: the database at any of its calls, or a source
\* of costs during the verification.  The statuses stay as they are.
Fails(j) ==
    /\ inner[j] \in Active
    /\ died' = died \cup {j}
    /\ Ends(j)
    /\ UNCHANGED <<database, outer, clock, process>>

InnerStep(j) ==
    \/ Begin(j)
    \/ MarkJob(j)
    \/ MarkOpportunity(j)
    \/ Verify(j)
    \/ Save(j)
    \/ FinalJob(j)
    \/ FinalOpportunity(j)

------------------------------------------------------------------------------
(* The process                                                              *)

\* shutdown(): the hand-off is cancelled with the scheduler, then cancel_all()
\* cancels the outer tasks and waits for them.  The inner ones are shielded.
Close ==
    /\ process = "up"
    /\ process' = "closing"
    /\ outer' = Idle("none")
    /\ inner' = [j \in Jobs |-> IF inner[j] = "ended" THEN "none" ELSE inner[j]]
    /\ UNCHANGED <<database, results, clock, died>>

\* The process dies, or shutdown() closes the database: an inner task that still
\* runs then writes nothing more, not even its own cancellation.
Stop ==
    /\ process # "down"
    /\ process' = "down"
    /\ outer' = Idle("none")
    /\ inner' = Idle("none")
    /\ results' = Idle({})
    /\ died' = {}
    /\ UNCHANGED <<database, clock>>

\* recover() begins, before any worker runs.
Restart ==
    /\ process = "down"
    /\ process' = "recoverJobs"
    /\ UNCHANGED <<database, memory, clock, died>>

\* _recover_job(): an interrupted job goes back to the queue, or expires.
RecoverJob(j) ==
    /\ process = "recoverJobs"
    /\ jobs[j] = "RUNNING"
    /\ jobs' = [jobs EXCEPT ![j] = IF j \in jobLate THEN "EXPIRED" ELSE "QUEUED"]
    /\ UNCHANGED <<opportunities, saved, memory, clock, died, process>>

\* Mutant of ExpireJob: the query forgets the statuses.
ExpireJobAnyStatus(j) ==
    /\ process = "recoverJobs"
    /\ \A k \in Jobs : jobs[k] # "RUNNING"
    /\ jobs[j] # "absent" /\ j \in jobLate
    /\ jobs' = [jobs EXCEPT ![j] = "EXPIRED"]
    /\ UNCHANGED <<opportunities, saved, memory, clock, died, process>>

\* list_expired(), once no job is RUNNING.
ExpireJob(j) ==
    /\ process = "recoverJobs"
    /\ \A k \in Jobs : jobs[k] # "RUNNING"
    /\ jobs[j] = "QUEUED" /\ j \in jobLate
    /\ jobs' = [jobs EXCEPT ![j] = "EXPIRED"]
    /\ UNCHANGED <<opportunities, saved, memory, clock, died, process>>

\* What _recover_jobs() still has to do.
UnfinishedJobs ==
    {j \in Jobs : jobs[j] = "RUNNING" \/ (jobs[j] = "QUEUED" /\ j \in jobLate)}

JobsRecovered ==
    /\ process = "recoverJobs"
    /\ UnfinishedJobs = {}
    /\ process' = "recoverOpportunities"
    /\ UNCHANGED <<database, memory, clock, died>>

\* What _expire_opportunities() still has to do.
UnfinishedOpportunities ==
    {j \in opportunityLate : opportunities[j] \in {"CREATED", "VERIFYING"}}

ExpireOpportunity(j) ==
    /\ process = "recoverOpportunities"
    /\ j \in UnfinishedOpportunities
    /\ opportunities' = [opportunities EXCEPT ![j] = "EXPIRED"]
    /\ UNCHANGED <<jobs, saved, memory, clock, died, process>>

OpportunitiesRecovered ==
    /\ process = "recoverOpportunities"
    /\ UnfinishedOpportunities = {}
    /\ process' = "up"
    /\ UNCHANGED <<database, memory, clock, died>>

\* Time.  recover() reads the clock once, so that none passes during it.
Running == process \in {"up", "closing", "down"}

JobExpires(j) ==
    /\ Running
    /\ j \in Expiring
    /\ jobs[j] # "absent"
    /\ j \notin jobLate
    /\ jobLate' = jobLate \cup {j}
    /\ UNCHANGED <<database, memory, opportunityLate, died, process>>

OpportunityExpires(j) ==
    /\ Running
    /\ j \in Expiring
    /\ jobs[j] # "absent"
    /\ j \notin opportunityLate
    /\ opportunityLate' = opportunityLate \cup {j}
    /\ UNCHANGED <<database, memory, jobLate, died, process>>

------------------------------------------------------------------------------
Next ==
    \/ Close
    \/ Stop
    \/ Restart
    \/ JobsRecovered
    \/ OpportunitiesRecovered
    \/ \E j \in Jobs :
         \/ Create(j)
         \/ Submit(j)
         \/ Reject(j)
         \/ StartInner(j)
         \/ OuterResumes(j)
         \/ InnerStep(j)
         \/ Fails(j)
         \/ RecoverJob(j)
         \/ ExpireJob(j)
         \/ ExpireOpportunity(j)
         \/ JobExpires(j)
         \/ OpportunityExpires(j)

\* The loop runs what is ready, asyncio.timeout bounds the verification, the
\* semaphore serves its waiters in turn, a start goes through its recovery.
Fairness ==
    /\ WF_vars(JobsRecovered)
    /\ WF_vars(OpportunitiesRecovered)
    /\ \A j \in Jobs :
         /\ WF_vars(Submit(j) \/ Reject(j))
         /\ SF_vars(StartInner(j))
         /\ WF_vars(OuterResumes(j))
         /\ WF_vars(InnerStep(j))
         /\ WF_vars(RecoverJob(j))
         /\ WF_vars(ExpireJob(j))
         /\ WF_vars(ExpireOpportunity(j))

Spec == Init /\ [][Next]_vars

FairSpec == Spec /\ Fairness

------------------------------------------------------------------------------
Positive == {"CONFIRMED", "PARTIAL"}

\* The opportunity is announced as confirmed only when its job is, and when a
\* profitable amount is in the saved results: no crash between the three writes
\* of _finish() and no recovery lets the opportunity run ahead.
OpportunityNeverAhead ==
    \A j \in Jobs : opportunities[j] \in Positive =>
        jobs[j] = "CONFIRMED" /\ "VERIFIED_PROFITABLE" \in saved[j]

\* A verdict that speaks of the market rests on saved results which give that
\* verdict (11 section 67: the reason can be reconstructed).
VerdictHasEvidence ==
    \A j \in Jobs : jobs[j] \in JobVerdicts \ {"EXPIRED"} =>
        saved[j] # {} /\ jobs[j] = JobStatusFor(saved[j])

\* What is written of a job and of its opportunity follows from saved results,
\* and in that order, whatever stops the three writes of _finish() halfway.
VerdictsFounded == TypeOK /\ OpportunityNeverAhead /\ VerdictHasEvidence

\* The verdicts are final: no late write of a shielded task, no second attempt
\* and no recovery changes the status of a decided job or opportunity.
VerdictsAreFinal ==
    [][\A j \in Jobs :
        /\ jobs[j] \in JobVerdicts => jobs'[j] = jobs[j]
        /\ opportunities[j] \in OpportunityVerdicts =>
               opportunities'[j] = opportunities[j]]_vars

\* A RUNNING job is being verified, or its verification died in this process:
\* no start leaves an interrupted one behind (35 section 135).
NoOrphanRunning ==
    \A j \in Jobs : process \in {"up", "closing"} /\ jobs[j] = "RUNNING" =>
        inner[j] \in Active \/ j \in died

\* "max_parallel ... никогда не превышается" (config/sections/scanner.py): the
\* verifications themselves, not only the outer tasks that own the semaphore.
ParallelBounded ==
    Cardinality({j \in Jobs : inner[j] \in Active}) <= MaxParallel

\* The worker and the database agree on who is being verified, and these are
\* never too many, although the semaphore and the work belong to two tasks.
WorkersAccounted == NoOrphanRunning /\ ParallelBounded

\* An accepted job reaches the verification or the worker is cancelled: no end of
\* a verification, errors included, leaks a place of the semaphore.
AcceptedJobsStart == \A j \in Jobs : outer[j] = "queued" ~> outer[j] # "queued"

\* What the recovery says of an interrupted job: a new attempt verifies it from
\* the beginning (app/recovery.py, "Новая попытка начнёт проверку заново").  Only
\* a recovery leaves a QUEUED job beside an opportunity in verification.
Requeued(j) == jobs[j] = "QUEUED" /\ opportunities[j] = "VERIFYING"
RequeuedJobsRun ==
    \A j \in Jobs :
        (Requeued(j) /\ process = "up") ~> (jobs[j] # "QUEUED" \/ process # "up")

\* What the scanner says of a cancelled job: it does not become CONFIRMED
\* (services/level2/scanner.py, "Отменённый Job не становится CONFIRMED").  While
\* the process closes, every job of the worker has been cancelled.
CancelledNeverConfirmed ==
    [][process = "closing" =>
        \A j \in Jobs : jobs'[j] = "CONFIRMED" => jobs[j] = "CONFIRMED"]_vars

\* The rows behave as JobLifecycle says, whatever the worker, the scanner, the
\* shutdown and the recovery do to them: results once and before the verdicts, the
\* opportunity after its job, no verdict ever changed, nothing expired in time.
Lifecycle == INSTANCE JobLifecycle
ImplementsLifecycle == Lifecycle!Spec
==============================================================================
