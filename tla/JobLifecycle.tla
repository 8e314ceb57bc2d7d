----------------------------- MODULE JobLifecycle -----------------------------
(***************************************************************************)
(* What the database promises about the Level 2 jobs and their             *)
(* opportunities (JobStatus and OpportunityStatus of                       *)
(* domain/enums/lifecycle.py): the rows alone, without the worker, the     *)
(* process and its stops.  At most one row changes at a time, the results  *)
(* of a job are written once and before any verdict, a verdict about the   *)
(* market is read off them, the opportunity follows its job, and only what *)
(* is late expires without results.  Level2Jobs implements it.             *)
(***************************************************************************)
EXTENDS Verdicts

CONSTANT Jobs

VARIABLES jobs,            \* the status of each job
          opportunities,   \* and of its opportunity
          saved,           \* its results, {} if none
          jobLate,         \* the jobs whose time is over
          opportunityLate  \* and the opportunities

rows == <<jobs, opportunities, saved>>
lateness == <<jobLate, opportunityLate>>

Pending(j) == jobs[j] \in {"QUEUED", "RUNNING"}
Open(j) == opportunities[j] \in {"CREATED", "VERIFYING"}

Begins ==
    /\ jobs = [j \in Jobs |-> "absent"]
    /\ opportunities = [j \in Jobs |-> "absent"]
    /\ saved = [j \in Jobs |-> {}]
    /\ jobLate = {}
    /\ opportunityLate = {}

\* Both rows are created at once.
IsCreated(j) ==
    /\ jobs[j] = "absent" /\ opportunities[j] = "absent"
    /\ jobs' = [jobs EXCEPT ![j] = "QUEUED"]
    /\ opportunities' = [opportunities EXCEPT ![j] = "CREATED"]
    /\ UNCHANGED <<saved, lateness>>

\* An attempt begins, and takes the opportunity with it.
IsStarted(j) ==
    /\ jobs[j] = "QUEUED" /\ Open(j)
    /\ jobs' = [jobs EXCEPT ![j] = "RUNNING"]
    /\ UNCHANGED <<opportunities, saved, lateness>>

IsTakenUp(j) ==
    /\ jobs[j] = "RUNNING" /\ Open(j)
    /\ opportunities' = [opportunities EXCEPT ![j] = "VERIFYING"]
    /\ UNCHANGED <<jobs, saved, lateness>>

\* The results are written once: those of an attempt, or that it came too late.
IsVerified(j) ==
    /\ saved[j] = {} /\ Open(j)
    /\ \E found \in (SUBSET AmountStatuses) \ {{}} :
          /\ \/ jobs[j] = "RUNNING" /\ opportunities[j] = "VERIFYING"
             \/ /\ jobs[j] = "QUEUED" /\ j \in jobLate \cup opportunityLate
                /\ found = {"EXPIRED"}
          /\ saved' = [saved EXCEPT ![j] = found]
    /\ UNCHANGED <<jobs, opportunities, lateness>>

\* The verdicts are read off the results: the job's, and only of an attempt or
\* of a late job, ...
IsDecided(j) ==
    /\ saved[j] # {} /\ Open(j)
    /\ jobs[j] = "RUNNING" \/ (jobs[j] = "QUEUED" /\ saved[j] = {"EXPIRED"})
    /\ jobs' = [jobs EXCEPT ![j] = JobStatusFor(saved[j])]
    /\ UNCHANGED <<opportunities, saved, lateness>>

\* ... then the opportunity's.
IsAnnounced(j) ==
    /\ saved[j] # {} /\ Open(j)
    /\ jobs[j] = JobStatusFor(saved[j])
    /\ opportunities' = [opportunities EXCEPT ![j] = OpportunityStatusFor(saved[j])]
    /\ UNCHANGED <<jobs, saved, lateness>>

\* What a lost process left behind: an attempt is given up, unless it is late.
IsRequeued(j) ==
    /\ jobs[j] = "RUNNING" /\ j \notin jobLate
    /\ jobs' = [jobs EXCEPT ![j] = "QUEUED"]
    /\ UNCHANGED <<opportunities, saved, lateness>>

JobIsExpired(j) ==
    /\ Pending(j) /\ j \in jobLate
    /\ jobs' = [jobs EXCEPT ![j] = "EXPIRED"]
    /\ UNCHANGED <<opportunities, saved, lateness>>

OpportunityIsExpired(j) ==
    /\ Open(j) /\ j \in opportunityLate
    /\ opportunities' = [opportunities EXCEPT ![j] = "EXPIRED"]
    /\ UNCHANGED <<jobs, saved, lateness>>

TimePasses(j) ==
    /\ jobs[j] # "absent"
    /\ \/ jobLate' = jobLate \cup {j} /\ UNCHANGED opportunityLate
       \/ opportunityLate' = opportunityLate \cup {j} /\ UNCHANGED jobLate
    /\ UNCHANGED rows

Moves ==
    \E j \in Jobs :
        \/ IsCreated(j)
        \/ IsStarted(j)
        \/ IsTakenUp(j)
        \/ IsVerified(j)
        \/ IsDecided(j)
        \/ IsAnnounced(j)
        \/ IsRequeued(j)
        \/ JobIsExpired(j)
        \/ OpportunityIsExpired(j)
        \/ TimePasses(j)

Spec == Begins /\ [][Moves]_<<rows, lateness>>
===============================================================================
