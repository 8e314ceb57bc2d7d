-------------------------- MODULE Level2Jobs_proofs --------------------------
(***************************************************************************)
(* What holds of the Level 2 jobs for any number of jobs, any limits and   *)
(* any outcome of the verifications, over crashes, shutdowns and starts.   *)
(*                                                                         *)
(* The invariants speak of what is stored; they hold because of where the  *)
(* inner task is when it writes.  JobInv says so: a task that has not      *)
(* written its verdict yet works on an undecided job, and what it carries  *)
(* after its first write is what is saved.                                 *)
(***************************************************************************)
EXTENDS Level2Jobs, FiniteSetTheorems, TLAPS

Undecided == {"QUEUED", "RUNNING"}
BeforeVerdict == {"begin", "verify", "markJob", "markOpportunity", "save", "finalJob"}

\* The hand-off or the inner task of j is still going to write its verdict.
Busy(j) == outer[j] \in {"offered", "queued"} \/ inner[j] \in BeforeVerdict

JobInv(j) ==
    /\ outer[j] \in {"offered", "queued"} => inner[j] = "none"
    /\ inner[j] # "none" => jobs[j] # "absent"
    /\ jobs[j] = "absent" => opportunities[j] = "absent"
    /\ Busy(j) => jobs[j] \in Undecided
    /\ Busy(j) \/ inner[j] = "finalOpportunity" =>
          opportunities[j] \in {"CREATED", "VERIFYING"}
    /\ inner[j] \in {"save", "finalJob", "finalOpportunity"} => results[j] # {}
    /\ inner[j] \in {"finalJob", "finalOpportunity"} => saved[j] = results[j]
    /\ inner[j] = "finalOpportunity" => jobs[j] = JobStatusFor(saved[j])
    /\ jobs[j] \in JobVerdicts \ {"EXPIRED"} =>
          saved[j] # {} /\ jobs[j] = JobStatusFor(saved[j])
    /\ opportunities[j] \in Positive =>
          jobs[j] = "CONFIRMED" /\ "VERIFIED_PROFITABLE" \in saved[j]
    /\ process \notin {"up", "closing"} => outer[j] = "none" /\ inner[j] = "none"

IInv == TypeOK /\ \A j \in Jobs : JobInv(j)

\* The verdicts are among the statuses of their tables.
LEMMA VerdictTypes ==
    ASSUME NEW S \in SUBSET AmountStatuses
    PROVE  JobStatusFor(S) \in JobVerdicts /\ OpportunityStatusFor(S) \in OpportunityVerdicts
<1>1. JobStatusFor(S) \in JobVerdicts
  BY DEF JobStatusFor, JobVerdicts
<1>2. OpportunityStatusFor(S) \in OpportunityVerdicts
  BY DEF OpportunityStatusFor, OpportunityVerdicts
<1>3. QED BY <1>1, <1>2

\* A job is confirmed exactly when its opportunity is announced, wholly or in
\* part: the two tables of confirmation.py agree on every set of results.
THEOREM VerdictsAgree ==
    ASSUME NEW S \in SUBSET AmountStatuses
    PROVE  /\ OpportunityStatusFor(S) \in Positive <=> JobStatusFor(S) = "CONFIRMED"
           /\ JobStatusFor(S) = "CONFIRMED" <=> "VERIFIED_PROFITABLE" \in S
           /\ JobStatusFor(S) = "REJECTED" <=>
                 OpportunityStatusFor(S) \in {"UNPROFITABLE", "ROUTE_UNAVAILABLE"}
           /\ JobStatusFor(S) = "EXPIRED" <=> OpportunityStatusFor(S) = "EXPIRED"
<1>1. JobStatusFor(S) = "CONFIRMED" <=> "VERIFIED_PROFITABLE" \in S
  BY DEF JobStatusFor
<1>2. OpportunityStatusFor(S) \in Positive <=> "VERIFIED_PROFITABLE" \in S
  <2>1. CASE "VERIFIED_PROFITABLE" \in S
    BY <2>1 DEF OpportunityStatusFor, Positive, DefinitiveNegative
  <2>2. CASE "VERIFIED_PROFITABLE" \notin S
    BY <2>2 DEF OpportunityStatusFor, Positive, DefinitiveNegative
  <2>3. QED BY <2>1, <2>2
<1>3. JobStatusFor(S) = "REJECTED" <=> S # {} /\ S \subseteq DefinitiveNegative
  BY DEF JobStatusFor, DefinitiveNegative
<1>4. OpportunityStatusFor(S) \in {"UNPROFITABLE", "ROUTE_UNAVAILABLE"} <=>
          S # {} /\ S \subseteq DefinitiveNegative
  BY DEF OpportunityStatusFor, DefinitiveNegative
<1>5. JobStatusFor(S) = "EXPIRED" <=> S = {"EXPIRED"}
  BY DEF JobStatusFor, DefinitiveNegative
<1>6. OpportunityStatusFor(S) = "EXPIRED" <=> S = {"EXPIRED"}
  BY DEF OpportunityStatusFor, DefinitiveNegative
<1>7. QED BY <1>1, <1>2, <1>3, <1>4, <1>5, <1>6

------------------------------------------------------------------------------
LEMMA InitInv == Init => IInv
<1> SUFFICES ASSUME Init PROVE IInv
  OBVIOUS
<1>1. TypeOK
  BY DEF Init, TypeOK, Idle, JobStatuses, OpportunityStatuses, Phases, OuterPlaces, InnerPlaces
<1>2. ASSUME NEW j \in Jobs PROVE JobInv(j)
  BY DEF Init, Idle, JobInv, Busy, BeforeVerdict, Undecided, JobVerdicts, Positive
<1>3. QED BY <1>1, <1>2 DEF IInv

\* The places of the code, for the steps that move a task.
LEMMA Places ==
    /\ InnerPlaces = {"none", "ended", "begin", "verify", "markJob", "markOpportunity",
                      "save", "finalJob", "finalOpportunity"}
    /\ Active = BeforeVerdict \cup {"finalOpportunity"}
  BY DEF InnerPlaces, Active, Writing, BeforeVerdict

\* Types are preserved.
LEMMA TypeInv == TypeOK /\ [Next]_vars => TypeOK'
<1> SUFFICES ASSUME TypeOK, [Next]_vars PROVE TypeOK'
  OBVIOUS
<1> USE DEF TypeOK, JobStatuses, OpportunityStatuses, Phases, OuterPlaces
<1>0. \A r \in SUBSET AmountStatuses : JobStatusFor(r) \in JobVerdicts
                                    /\ OpportunityStatusFor(r) \in OpportunityVerdicts
  BY VerdictTypes
<1>1. CASE Close
  BY <1>1, Places DEF Close, Idle, database, clock
<1>2. CASE Stop
  BY <1>2, Places DEF Stop, Idle, database, clock
<1>3. CASE Restart \/ JobsRecovered \/ OpportunitiesRecovered
  BY <1>3 DEF Restart, JobsRecovered, OpportunitiesRecovered, database, memory, clock
<1>4. ASSUME NEW j \in Jobs, Create(j) \/ Submit(j) \/ Reject(j) \/ StartInner(j) \/ OuterResumes(j)
      PROVE  TypeOK'
  BY <1>4, Places DEF Create, Submit, Reject, StartInner, OuterResumes, database, clock
<1>5. ASSUME NEW j \in Jobs, InnerStep(j) PROVE TypeOK'
  <2>1. CASE Begin(j)
    BY <2>1, Places DEF Begin, Ends, Goes, database, clock, AmountStatuses
  <2>2. CASE MarkJob(j) \/ MarkOpportunity(j)
    BY <2>2, Places DEF MarkJob, MarkOpportunity, Goes, clock
  <2>3. CASE Verify(j)
    BY <2>3, Places, Level2Assumption DEF Verify, Goes, database, clock, AmountStatuses
  <2>4. CASE Save(j)
    BY <2>4, Places DEF Save, Goes, clock
  <2>5. CASE FinalJob(j)
    BY <2>5, <1>0, Places DEF FinalJob, Goes, clock
  <2>6. CASE FinalOpportunity(j)
    BY <2>6, <1>0, Places DEF FinalOpportunity, Ends, Goes, clock
  <2>7. QED BY <1>5, <2>1, <2>2, <2>3, <2>4, <2>5, <2>6 DEF InnerStep
<1>6. ASSUME NEW j \in Jobs, Fails(j) PROVE TypeOK'
  BY <1>6, Places DEF Fails, Ends, Goes, database, clock
<1>7. ASSUME NEW j \in Jobs, RecoverJob(j) \/ ExpireJob(j) \/ ExpireOpportunity(j) PROVE TypeOK'
  BY <1>7 DEF RecoverJob, ExpireJob, ExpireOpportunity, memory, clock, JobVerdicts,
     OpportunityVerdicts
<1>8. ASSUME NEW j \in Jobs, JobExpires(j) \/ OpportunityExpires(j) PROVE TypeOK'
  BY <1>8 DEF JobExpires, OpportunityExpires, database, memory
<1>9. CASE UNCHANGED vars
  BY <1>9 DEF vars, database, memory, clock
<1>10. QED
  BY <1>1, <1>2, <1>3, <1>4, <1>5, <1>6, <1>7, <1>8, <1>9 DEF Next

------------------------------------------------------------------------------
\* JobInv(k) depends only on what the model keeps for k and on the process.
LEMMA Frame ==
    ASSUME NEW k \in Jobs, JobInv(k),
           jobs'[k] = jobs[k], opportunities'[k] = opportunities[k], saved'[k] = saved[k],
           outer'[k] = outer[k], inner'[k] = inner[k], results'[k] = results[k],
           process' = process
    PROVE  JobInv(k)'
BY DEF JobInv, Busy

\* The steps of the hand-off and of the outer task.
LEMMA OuterInv ==
    ASSUME IInv, NEW j \in Jobs, NEW k \in Jobs,
           Create(j) \/ Submit(j) \/ Reject(j) \/ StartInner(j) \/ OuterResumes(j)
    PROVE  JobInv(k)'
<1>0. JobInv(k) /\ TypeOK
  BY DEF IInv
<1>1. CASE k # j
  <2>1. /\ jobs'[k] = jobs[k] /\ opportunities'[k] = opportunities[k] /\ saved'[k] = saved[k]
        /\ outer'[k] = outer[k] /\ inner'[k] = inner[k] /\ results'[k] = results[k]
        /\ process' = process
    BY <1>0, <1>1 DEF TypeOK, Create, Submit, Reject, StartInner, OuterResumes, database
  <2>2. QED BY <2>1, <1>0, Frame
<1>2. CASE k = j
  <2>1. CASE Create(j)
    BY <2>1, <1>0, <1>2 DEF TypeOK, Create, JobInv, Busy, BeforeVerdict, Undecided, JobVerdicts,
       Positive
  <2>2. CASE Submit(j)
    BY <2>2, <1>0, <1>2 DEF TypeOK, Submit, JobInv, Busy, database
  <2>3. CASE Reject(j)
    BY <2>3, <1>0, <1>2 DEF TypeOK, Reject, JobInv, Busy, database
  <2>4. CASE StartInner(j)
    <3>1. jobs[j] \in Undecided
      BY <2>4, <1>0, <1>2 DEF StartInner, JobInv, Busy
    <3>2. QED BY <3>1, <2>4, <1>0, <1>2 DEF TypeOK, StartInner, JobInv, Busy, BeforeVerdict,
       Undecided, database
  <2>5. CASE OuterResumes(j)
    BY <2>5, <1>0, <1>2 DEF TypeOK, OuterResumes, JobInv, Busy, BeforeVerdict, database
  <2>6. QED BY <2>1, <2>2, <2>3, <2>4, <2>5
<1>3. QED BY <1>1, <1>2

\* The steps of the verification.
LEMMA InnerInv ==
    ASSUME IInv, NEW j \in Jobs, NEW k \in Jobs, InnerStep(j) \/ Fails(j)
    PROVE  JobInv(k)'
<1>0. JobInv(k) /\ TypeOK
  BY DEF IInv
<1>1. CASE k # j
  <2>1. /\ jobs'[k] = jobs[k] /\ opportunities'[k] = opportunities[k] /\ saved'[k] = saved[k]
        /\ outer'[k] = outer[k] /\ inner'[k] = inner[k] /\ results'[k] = results[k]
        /\ process' = process
    BY <1>0, <1>1 DEF TypeOK, InnerStep, Fails, Begin, MarkJob, MarkOpportunity, Verify, Save,
       FinalJob, FinalOpportunity, Ends, Goes, database
  <2>2. QED BY <2>1, <1>0, Frame
<1>2. CASE k = j
  <2> USE DEF TypeOK, JobInv, Busy, BeforeVerdict, Goes
  <2>1. CASE Begin(j)
    BY <2>1, <1>0, <1>2 DEF Begin, Ends, database
  <2>2. CASE MarkJob(j)
    BY <2>2, <1>0, <1>2 DEF MarkJob, Undecided, JobVerdicts, Positive
  <2>3. CASE MarkOpportunity(j)
    BY <2>3, <1>0, <1>2 DEF MarkOpportunity, Positive
  <2>4. CASE Verify(j)
    BY <2>4, <1>0, <1>2, Level2Assumption DEF Verify, database
  <2>5. CASE Save(j)
    <3>1. jobs[j] \in Undecided /\ opportunities[j] \in {"CREATED", "VERIFYING"}
      BY <2>5, <1>0, <1>2 DEF Save
    <3>2. jobs[j] \notin JobVerdicts /\ opportunities[j] \notin Positive
      BY <3>1 DEF Undecided, JobVerdicts, Positive
    <3>3. QED BY <3>1, <3>2, <2>5, <1>0, <1>2 DEF Save
  <2>6. CASE FinalJob(j)
    <3>1. opportunities[j] \notin Positive
      BY <2>6, <1>0, <1>2 DEF FinalJob, Positive
    <3>2. /\ saved[j] = results[j] /\ saved[j] # {}
          /\ saved[j] \in SUBSET AmountStatuses
          /\ outer[j] \notin {"offered", "queued"} /\ process \in {"up", "closing"}
      BY <2>6, <1>0, <1>2 DEF FinalJob
    <3>3. JobStatusFor(saved[j]) # "absent"
      BY <3>2, VerdictTypes DEF JobVerdicts
    <3>4. /\ jobs'[j] = JobStatusFor(saved[j]) /\ inner'[j] = "finalOpportunity"
          /\ UNCHANGED <<opportunities, saved, outer, results, process>>
      BY <2>6, <1>0, <1>2, <3>2 DEF FinalJob
    <3>5. QED BY <3>1, <3>2, <3>3, <3>4, <2>6, <1>0, <1>2 DEF FinalJob
  <2>7. CASE FinalOpportunity(j)
    <3>1. saved[j] = results[j] /\ saved[j] # {} /\ jobs[j] = JobStatusFor(saved[j])
          /\ saved[j] \in SUBSET AmountStatuses
      BY <2>7, <1>0, <1>2 DEF FinalOpportunity
    <3>2. OpportunityStatusFor(saved[j]) \in Positive =>
              jobs[j] = "CONFIRMED" /\ "VERIFIED_PROFITABLE" \in saved[j]
      BY <3>1, VerdictsAgree
    <3>3. jobs' = jobs /\ saved' = saved /\ outer' = outer /\ process' = process
          /\ opportunities'[j] = OpportunityStatusFor(saved[j])
          /\ inner'[j] \in {"none", "ended"}
          /\ outer[j] \notin {"offered", "queued"} /\ process \in {"up", "closing"}
          /\ jobs[j] # "absent"
      BY <2>7, <1>0, <1>2, <3>1 DEF FinalOpportunity, Ends
    <3>4. QED BY <3>1, <3>2, <3>3, <2>7, <1>0, <1>2
  <2>8. CASE Fails(j)
    <3>1. inner[j] # "none" /\ jobs[j] # "absent" /\ outer[j] \notin {"offered", "queued"}
      BY <2>8, <1>0, <1>2, Places DEF Fails
    <3>2. QED BY <3>1, <2>8, <1>0, <1>2 DEF Fails, Ends, database
  <2>9. QED BY <2>1, <2>2, <2>3, <2>4, <2>5, <2>6, <2>7, <2>8 DEF InnerStep
<1>3. QED BY <1>1, <1>2

\* The steps of the process and of its recovery.
LEMMA ProcessInv ==
    ASSUME IInv, NEW k \in Jobs,
           \/ Close \/ Stop \/ Restart \/ JobsRecovered \/ OpportunitiesRecovered
           \/ \E j \in Jobs : \/ RecoverJob(j) \/ ExpireJob(j) \/ ExpireOpportunity(j)
                              \/ JobExpires(j) \/ OpportunityExpires(j)
    PROVE  JobInv(k)'
<1>0. JobInv(k) /\ TypeOK
  BY DEF IInv
<1> USE DEF TypeOK, JobInv, Busy, BeforeVerdict
<1>1. CASE Close
  BY <1>1, <1>0 DEF Close, Idle, database
<1>2. CASE Stop
  BY <1>2, <1>0 DEF Stop, Idle, database
<1>3. CASE Restart
  BY <1>3, <1>0 DEF Restart, database, memory
<1>4. CASE JobsRecovered
  BY <1>4, <1>0 DEF JobsRecovered, database, memory
<1>5. CASE OpportunitiesRecovered
  BY <1>5, <1>0 DEF OpportunitiesRecovered, database, memory
<1>6. ASSUME NEW j \in Jobs, RecoverJob(j) \/ ExpireJob(j) PROVE JobInv(k)'
  <2>1. /\ process' = process /\ process \notin {"up", "closing"}
        /\ opportunities' = opportunities /\ saved' = saved /\ memory' = memory
        /\ jobs'[k] = jobs[k]
              \/ (jobs[k] \in Undecided /\ jobs'[k] \in {"QUEUED", "EXPIRED"})
    BY <1>6, <1>0 DEF RecoverJob, ExpireJob, Undecided, database
  <2>2. outer[k] = "none" /\ inner[k] = "none" /\ outer' = outer /\ inner' = inner
        /\ results' = results
    BY <2>1, <1>0 DEF memory
  <2>3. QED BY <2>1, <2>2, <1>0 DEF Undecided, JobVerdicts
<1>7. ASSUME NEW j \in Jobs, ExpireOpportunity(j) PROVE JobInv(k)'
  <2>1. opportunities'[k] = opportunities[k]
           \/ (opportunities[k] \in {"CREATED", "VERIFYING"} /\ opportunities'[k] = "EXPIRED")
    BY <1>7, <1>0 DEF ExpireOpportunity, UnfinishedOpportunities
  <2>2. outer[k] = "none" /\ inner[k] = "none" /\ process \notin {"up", "closing"}
    BY <1>7, <1>0 DEF ExpireOpportunity
  <2>3. jobs' = jobs /\ saved' = saved /\ outer' = outer /\ inner' = inner /\ results' = results
        /\ process' = process
    BY <1>7 DEF ExpireOpportunity, memory
  <2>4. QED BY <2>1, <2>2, <2>3, <1>0 DEF Positive
<1>8. ASSUME NEW j \in Jobs, JobExpires(j) \/ OpportunityExpires(j) PROVE JobInv(k)'
  BY <1>8, <1>0 DEF JobExpires, OpportunityExpires, database, memory
<1>9. QED
  BY <1>1, <1>2, <1>3, <1>4, <1>5, <1>6, <1>7, <1>8

LEMMA NextInv == IInv /\ [Next]_vars => IInv'
<1> SUFFICES ASSUME IInv, [Next]_vars PROVE IInv'
  OBVIOUS
<1>1. TypeOK'
  BY TypeInv DEF IInv
<1>2. ASSUME NEW k \in Jobs PROVE JobInv(k)'
  <2>1. CASE UNCHANGED vars
    <3>1. JobInv(k)
      BY DEF IInv
    <3>2. QED BY <2>1, <3>1 DEF vars, database, memory, JobInv, Busy
  <2>2. CASE Next
    BY <2>2, OuterInv, InnerInv, ProcessInv DEF Next
  <2>3. QED BY <2>1, <2>2
<1>3. QED BY <1>1, <1>2 DEF IInv

LEMMA Invariance == Spec => []IInv
BY InitInv, NextInv, PTL DEF Spec

------------------------------------------------------------------------------
\* Every reachable state has its type (the statuses of the two tables are kept
\* apart, whatever the results).
THEOREM TypeCorrect == Spec => []TypeOK
<1>1. IInv => TypeOK
  BY DEF IInv
<1>2. QED BY Invariance, <1>1, PTL

\* No crash, shutdown or recovery lets an opportunity be confirmed before its
\* job and without a profitable amount in the saved results.
THEOREM NoOpportunityRunsAhead == Spec => []OpportunityNeverAhead
<1>1. IInv => OpportunityNeverAhead
  BY DEF IInv, JobInv, OpportunityNeverAhead
<1>2. QED BY Invariance, <1>1, PTL

\* A verdict about the market is always the one that the saved results give.
THEOREM VerdictsAreFounded == Spec => []VerdictHasEvidence
<1>1. IInv => VerdictHasEvidence
  BY DEF IInv, JobInv, VerdictHasEvidence
<1>2. QED BY Invariance, <1>1, PTL

\* Every verdict of the database is founded on the saved results, after any number
\* of crashes and restarts (level2/scanner.py, app/recovery.py).
THEOREM VerdictsStandOnResults == Spec => []VerdictsFounded
BY TypeCorrect, NoOpportunityRunsAhead, VerdictsAreFounded, PTL DEF VerdictsFounded

------------------------------------------------------------------------------
(* The bound on the verifications.  The semaphore counts the outer tasks;   *)
(* while the worker is open every verification has one of them behind it,   *)
(* and once it is closed no further one begins.                             *)
Holding == {j \in Jobs : outer[j] = "holding"}
Verifying == {j \in Jobs : inner[j] \in Active}

PlaceInv(j) ==
    /\ outer[j] \in {"offered", "queued"} \/ inner[j] \in {"begin", "markJob"} =>
          jobs[j] = "QUEUED"
    /\ process # "up" => outer[j] = "none"
    /\ process = "up" /\ inner[j] \in Active => outer[j] = "holding"
    /\ process \in {"up", "closing"} /\ jobs[j] = "RUNNING" => inner[j] \in Active \/ j \in died
    /\ process = "recoverOpportunities" => jobs[j] # "RUNNING"

WInv ==
    /\ \A j \in Jobs : PlaceInv(j)
    /\ Cardinality(Holding) <= MaxParallel
    /\ Cardinality(Verifying) <= MaxParallel

\* Parts of the jobs are finite.
LEMMA PartsOfJobs ==
    ASSUME NEW S \in SUBSET Jobs, NEW T \in SUBSET S
    PROVE  /\ IsFiniteSet(S) /\ IsFiniteSet(T)
           /\ Cardinality(S) \in Nat /\ Cardinality(T) \in Nat
           /\ Cardinality(T) <= Cardinality(S)
BY Level2Assumption, FS_Subset, FS_CardinalityType

LEMMA InitPlaces == Init => WInv
<1> SUFFICES ASSUME Init PROVE WInv
  OBVIOUS
<1>1. ASSUME NEW j \in Jobs PROVE PlaceInv(j)
  BY DEF Init, Idle, PlaceInv, Active, Writing
<1>2. Holding = {} /\ Verifying = {}
  BY DEF Init, Idle, Holding, Verifying, Active, Writing
<1>3. QED BY <1>1, <1>2, FS_EmptySet, Level2Assumption DEF WInv

\* Where the tasks of a job are, step by step.
LEMMA NextPlaces ==
    ASSUME IInv, WInv, Next, NEW k \in Jobs
    PROVE  PlaceInv(k)'
<1>0. PlaceInv(k) /\ JobInv(k) /\ TypeOK
  BY DEF IInv, WInv
<1> USE DEF TypeOK, PlaceInv, Active, Writing
<1>1. CASE Close
  BY <1>1, <1>0 DEF Close, Idle, database
<1>2. CASE Stop
  BY <1>2, <1>0 DEF Stop, Idle, database
<1>3. CASE Restart \/ OpportunitiesRecovered
  BY <1>3, <1>0 DEF Restart, OpportunitiesRecovered, JobInv, database, memory
<1>4. CASE JobsRecovered
  BY <1>4, <1>0 DEF JobsRecovered, UnfinishedJobs, database, memory
<1>5. ASSUME NEW j \in Jobs, Create(j) \/ Submit(j) \/ Reject(j) \/ StartInner(j) \/ OuterResumes(j)
      PROVE  PlaceInv(k)'
  <2>1. CASE Create(j)
    BY <2>1, <1>0 DEF Create, JobInv
  <2>2. CASE Submit(j) \/ Reject(j) \/ StartInner(j)
    BY <2>2, <1>0 DEF Submit, Reject, StartInner, JobInv, database
  <2>3. CASE OuterResumes(j)
    BY <2>3, <1>0 DEF OuterResumes, database
  <2>4. QED BY <1>5, <2>1, <2>2, <2>3
<1>6. ASSUME NEW j \in Jobs, InnerStep(j) PROVE PlaceInv(k)'
  <2>1. CASE k # j
    <3>1. /\ jobs'[k] = jobs[k] /\ outer'[k] = outer[k] /\ inner'[k] = inner[k]
          /\ process' = process /\ died' = died
      BY <1>6, <2>1, <1>0 DEF InnerStep, Begin, MarkJob, MarkOpportunity, Verify, Save,
         FinalJob, FinalOpportunity, Ends, Goes, database
    <3>2. QED BY <3>1, <1>0
  <2>2. CASE k = j
    <3>1. CASE Begin(j)
      BY <3>1, <2>2, <1>0 DEF Begin, Ends, Goes, database
    <3>2. CASE MarkJob(j)
      BY <3>2, <2>2, <1>0 DEF MarkJob, Goes, JobInv
    <3>3. CASE MarkOpportunity(j)
      BY <3>3, <2>2, <1>0 DEF MarkOpportunity, Goes
    <3>4. CASE Verify(j)
      BY <3>4, <2>2, <1>0 DEF Verify, Goes, database
    <3>5. CASE Save(j)
      BY <3>5, <2>2, <1>0 DEF Save, Goes
    <3>6. CASE FinalJob(j)
      <4>1. process \in {"up", "closing"}
        BY <3>6, <2>2, <1>0 DEF FinalJob, JobInv
      <4>2. QED BY <4>1, <3>6, <2>2, <1>0 DEF FinalJob, Goes
    <3>7. CASE FinalOpportunity(j)
      <4>1. jobs[j] # "RUNNING"
        BY <3>7, <2>2, <1>0, VerdictTypes DEF FinalOpportunity, JobInv, JobVerdicts
      <4>2. QED BY <4>1, <3>7, <2>2, <1>0 DEF FinalOpportunity, Ends, Goes
    <3>8. QED BY <1>6, <3>1, <3>2, <3>3, <3>4, <3>5, <3>6, <3>7 DEF InnerStep
  <2>3. QED BY <2>1, <2>2
<1>7. ASSUME NEW j \in Jobs, Fails(j) PROVE PlaceInv(k)'
  BY <1>7, <1>0 DEF Fails, Ends, Goes, database
<1>8. ASSUME NEW j \in Jobs, RecoverJob(j) \/ ExpireJob(j) \/ ExpireOpportunity(j) PROVE PlaceInv(k)'
  BY <1>8, <1>0 DEF RecoverJob, ExpireJob, ExpireOpportunity, JobInv, memory
<1>9. ASSUME NEW j \in Jobs, JobExpires(j) \/ OpportunityExpires(j) PROVE PlaceInv(k)'
  BY <1>9, <1>0 DEF JobExpires, OpportunityExpires, database, memory
<1>10. QED
  BY <1>1, <1>2, <1>3, <1>4, <1>5, <1>6, <1>7, <1>8, <1>9 DEF Next

\* A verification begins only with the semaphore; no other step adds to either set.
LEMMA NextBounds ==
    ASSUME IInv, WInv, Next
    PROVE  Cardinality(Holding') <= MaxParallel /\ Cardinality(Verifying') <= MaxParallel
<1>0. /\ TypeOK /\ Holding \in SUBSET Jobs /\ Verifying \in SUBSET Jobs
      /\ Cardinality(Holding) <= MaxParallel /\ Cardinality(Verifying) <= MaxParallel
      /\ MaxParallel \in Nat
  BY Level2Assumption DEF IInv, WInv, Holding, Verifying
<1>1. CASE \E j \in Jobs : StartInner(j)
  <2>1. PICK j \in Jobs : StartInner(j)
    BY <1>1
  <2>2. Cardinality(Holding) < MaxParallel /\ Holding' = Holding \cup {j} /\ j \notin Holding
    BY <2>1, <1>0 DEF StartInner, Holding, TypeOK
  <2>3. Cardinality(Holding') <= MaxParallel
    <3>1. IsFiniteSet(Holding) /\ Cardinality(Holding) \in Nat
      BY <1>0, PartsOfJobs
    <3>2. Cardinality(Holding \cup {j}) = Cardinality(Holding) + 1
      BY <2>2, <3>1, FS_AddElement
    <3>3. QED BY <2>2, <3>1, <3>2, <1>0
  <2>4. process' = "up"
    BY <2>1 DEF StartInner, WInv, PlaceInv
  <2>5. Verifying' \in SUBSET Holding' /\ Holding' \in SUBSET Jobs
    BY <2>4, NextPlaces DEF PlaceInv, Holding, Verifying
  <2>6. QED BY <2>3, <2>5, <1>0, PartsOfJobs
<1>2. CASE ~\E j \in Jobs : StartInner(j)
  <2> USE DEF Active, Writing
  <2>1. Holding' \in SUBSET Holding /\ Verifying' \in SUBSET Verifying
    <3>1. CASE Close \/ Stop \/ Restart \/ JobsRecovered \/ OpportunitiesRecovered
      BY <3>1 DEF Close, Stop, Restart, JobsRecovered, OpportunitiesRecovered, Idle, memory,
         Holding, Verifying
    <3>2. ASSUME NEW j \in Jobs, Create(j) \/ Submit(j) \/ Reject(j) \/ OuterResumes(j)
          PROVE  Holding' \in SUBSET Holding /\ Verifying' \in SUBSET Verifying
      BY <3>2, <1>0 DEF Create, Submit, Reject, OuterResumes, TypeOK, Holding, Verifying
    <3>3. ASSUME NEW j \in Jobs, InnerStep(j) \/ Fails(j)
          PROVE  Holding' \in SUBSET Holding /\ Verifying' \in SUBSET Verifying
      BY <3>3, <1>0 DEF InnerStep, Fails, Begin, MarkJob, MarkOpportunity, Verify, Save,
         FinalJob, FinalOpportunity, Ends, Goes, TypeOK, Holding, Verifying
    <3>4. ASSUME NEW j \in Jobs,
                 \/ RecoverJob(j) \/ ExpireJob(j) \/ ExpireOpportunity(j)
                 \/ JobExpires(j) \/ OpportunityExpires(j)
          PROVE  Holding' \in SUBSET Holding /\ Verifying' \in SUBSET Verifying
      BY <3>4 DEF RecoverJob, ExpireJob, ExpireOpportunity, JobExpires, OpportunityExpires,
         memory, Holding, Verifying
    <3>5. QED BY <1>2, <3>1, <3>2, <3>3, <3>4 DEF Next
  <2>2. /\ Cardinality(Holding') <= Cardinality(Holding) /\ Cardinality(Holding') \in Nat
        /\ Cardinality(Verifying') <= Cardinality(Verifying) /\ Cardinality(Verifying') \in Nat
        /\ Cardinality(Holding) \in Nat /\ Cardinality(Verifying) \in Nat
    BY <2>1, <1>0, PartsOfJobs
  <2>3. QED BY <2>2, <1>0
<1>3. QED BY <1>1, <1>2

LEMMA NextWorkers == IInv /\ WInv /\ [Next]_vars => WInv'
<1> SUFFICES ASSUME IInv, WInv, [Next]_vars PROVE WInv'
  OBVIOUS
<1>1. CASE Next
  BY <1>1, NextPlaces, NextBounds DEF WInv
<1>2. CASE UNCHANGED vars
  BY <1>2 DEF vars, database, memory, WInv, PlaceInv, Holding, Verifying
<1>3. QED BY <1>1, <1>2

\* Whatever is cancelled, fails or is begun again, no job stays RUNNING without a
\* verification or an error of this process, and there are never more of them at
\* work than max_parallel (level2/worker.py, app/recovery.py).
THEOREM WorkersAreAccounted == Spec => []WorkersAccounted
<1>1. WInv => WorkersAccounted
  BY DEF WInv, PlaceInv, Verifying, WorkersAccounted, NoOrphanRunning, ParallelBounded
<1>2. QED BY <1>1, Invariance, InitPlaces, NextWorkers, PTL DEF Spec

------------------------------------------------------------------------------
(* The refinement.  A write of the verification is a step of the lifecycle  *)
(* because of what the task found before it: LifeInv says what is still     *)
(* true of the rows at each place between Begin and the verdict.            *)
LifeInv(j) ==
    /\ inner[j] \in {"markJob", "markOpportunity", "verify", "save"} => saved[j] = {}
    /\ inner[j] \in {"markOpportunity", "verify"} => jobs[j] = "RUNNING"
    /\ inner[j] = "verify" => opportunities[j] = "VERIFYING"
    /\ inner[j] \in {"save", "finalJob"} =>
          \/ jobs[j] = "RUNNING" /\ opportunities[j] = "VERIFYING"
          \/ /\ jobs[j] = "QUEUED" /\ results[j] = {"EXPIRED"}
             /\ j \in jobLate \cup opportunityLate

LInv == \A j \in Jobs : LifeInv(j)

LEMMA InitLife == Init => LInv
BY DEF Init, Idle, LInv, LifeInv

LEMMA NextLife ==
    ASSUME IInv, WInv, LInv, Next, NEW k \in Jobs
    PROVE  LifeInv(k)'
<1>0. LifeInv(k) /\ PlaceInv(k) /\ JobInv(k) /\ TypeOK
  BY DEF IInv, WInv, LInv
<1> USE DEF TypeOK, LifeInv
<1>1. CASE Close \/ Stop
  BY <1>1, <1>0 DEF Close, Stop, Idle, database, clock
<1>2. CASE Restart \/ JobsRecovered \/ OpportunitiesRecovered
  BY <1>2, <1>0 DEF Restart, JobsRecovered, OpportunitiesRecovered, database, memory, clock
<1>3. ASSUME NEW j \in Jobs, Create(j) \/ Submit(j) \/ Reject(j) \/ StartInner(j) \/ OuterResumes(j)
      PROVE  LifeInv(k)'
  <2>1. CASE Create(j)
    BY <2>1, <1>0 DEF Create, JobInv, clock
  <2>2. CASE Submit(j) \/ Reject(j) \/ StartInner(j) \/ OuterResumes(j)
    BY <2>2, <1>0 DEF Submit, Reject, StartInner, OuterResumes, database, clock
  <2>3. QED BY <1>3, <2>1, <2>2
<1>4. ASSUME NEW j \in Jobs, InnerStep(j) \/ Fails(j) PROVE LifeInv(k)'
  <2>1. CASE k # j
    <3>1. /\ jobs'[k] = jobs[k] /\ opportunities'[k] = opportunities[k] /\ saved'[k] = saved[k]
          /\ inner'[k] = inner[k] /\ results'[k] = results[k] /\ UNCHANGED clock
      BY <1>4, <2>1, <1>0 DEF InnerStep, Fails, Begin, MarkJob, MarkOpportunity, Verify, Save,
         FinalJob, FinalOpportunity, Ends, Goes, database
    <3>2. QED BY <3>1, <1>0 DEF clock
  <2>2. CASE k = j
    <3> USE DEF Goes, clock
    <3>1. CASE Begin(j)
      BY <3>1, <2>2, <1>0 DEF Begin, Ends, PlaceInv, database
    <3>2. CASE MarkJob(j) \/ MarkOpportunity(j)
      BY <3>2, <2>2, <1>0 DEF MarkJob, MarkOpportunity
    <3>3. CASE Verify(j)
      BY <3>3, <2>2, <1>0 DEF Verify, database
    <3>4. CASE Save(j)
      BY <3>4, <2>2, <1>0 DEF Save
    <3>5. CASE FinalJob(j) \/ FinalOpportunity(j) \/ Fails(j)
      BY <3>5, <2>2, <1>0 DEF FinalJob, FinalOpportunity, Fails, Ends, database
    <3>6. QED BY <1>4, <3>1, <3>2, <3>3, <3>4, <3>5 DEF InnerStep
  <2>3. QED BY <2>1, <2>2
<1>5. ASSUME NEW j \in Jobs, RecoverJob(j) \/ ExpireJob(j) \/ ExpireOpportunity(j) PROVE LifeInv(k)'
  BY <1>5, <1>0 DEF RecoverJob, ExpireJob, ExpireOpportunity, JobInv, memory, clock
<1>6. ASSUME NEW j \in Jobs, JobExpires(j) \/ OpportunityExpires(j) PROVE LifeInv(k)'
  BY <1>6, <1>0 DEF JobExpires, OpportunityExpires, database, memory
<1>7. QED BY <1>1, <1>2, <1>3, <1>4, <1>5, <1>6 DEF Next

LEMMA LifeInvariance == Spec => [](IInv /\ WInv /\ LInv)
<1>1. IInv /\ WInv /\ LInv /\ [Next]_vars => LInv'
  <2>1. ASSUME IInv, WInv, LInv, Next PROVE LInv'
    BY <2>1, NextLife DEF LInv
  <2>2. ASSUME LInv, UNCHANGED vars PROVE LInv'
    BY <2>2 DEF LInv, LifeInv, vars, database, memory, clock
  <2>3. QED BY <2>1, <2>2
<1>2. QED BY <1>1, InitInv, NextInv, InitPlaces, NextWorkers, InitLife, PTL DEF Spec

\* What the lifecycle does not see.
LEMMA Unseen ==
    ASSUME UNCHANGED <<database, clock>>
    PROVE  UNCHANGED <<Lifecycle!rows, Lifecycle!lateness>>
BY DEF database, clock, Lifecycle!rows, Lifecycle!lateness

\* The verdicts of the lifecycle are those of the scanner.
LEMMA SameVerdicts ==
    /\ Lifecycle!AmountStatuses = AmountStatuses
    /\ \A S : Lifecycle!JobStatusFor(S) = JobStatusFor(S)
    /\ \A S : Lifecycle!OpportunityStatusFor(S) = OpportunityStatusFor(S)
BY DEF Lifecycle!AmountStatuses, AmountStatuses, Lifecycle!JobStatusFor, JobStatusFor,
   Lifecycle!OpportunityStatusFor, OpportunityStatusFor, Lifecycle!DefinitiveNegative,
   DefinitiveNegative

LEMMA StepOfLifecycle ==
    ASSUME IInv, WInv, LInv, Next
    PROVE  [Lifecycle!Moves]_<<Lifecycle!rows, Lifecycle!lateness>>
<1>0. TypeOK /\ \A j \in Jobs : JobInv(j) /\ PlaceInv(j) /\ LifeInv(j)
  BY DEF IInv, WInv, LInv
<1>1. CASE Close \/ Stop \/ Restart \/ JobsRecovered \/ OpportunitiesRecovered
  BY <1>1, Unseen DEF Close, Stop, Restart, JobsRecovered, OpportunitiesRecovered
<1>2. ASSUME NEW j \in Jobs, Submit(j) \/ Reject(j) \/ StartInner(j) \/ OuterResumes(j) \/ Begin(j)
             \/ Verify(j) \/ Fails(j)
      PROVE  UNCHANGED <<Lifecycle!rows, Lifecycle!lateness>>
  BY <1>2, Unseen DEF Submit, Reject, StartInner, OuterResumes, Begin, Verify, Fails
<1>3. ASSUME NEW j \in Jobs,
             \/ Create(j) \/ MarkJob(j) \/ MarkOpportunity(j) \/ Save(j) \/ FinalJob(j)
             \/ FinalOpportunity(j) \/ RecoverJob(j) \/ ExpireJob(j) \/ ExpireOpportunity(j)
             \/ JobExpires(j) \/ OpportunityExpires(j)
      PROVE  Lifecycle!Moves
  <2>0. JobInv(j) /\ PlaceInv(j) /\ LifeInv(j)
    BY <1>0
  <2> USE DEF clock, database, memory, Lifecycle!rows, Lifecycle!lateness, Lifecycle!Open
  <2>1. CASE Create(j)
    <3>1. Lifecycle!IsCreated(j)
      BY <2>1, <2>0 DEF Create, JobInv, Lifecycle!IsCreated
    <3>2. QED BY <3>1 DEF Lifecycle!Moves
  <2>2. CASE MarkJob(j)
    <3>1. Lifecycle!IsStarted(j)
      BY <2>2, <2>0 DEF MarkJob, JobInv, Busy, BeforeVerdict, PlaceInv, Lifecycle!IsStarted
    <3>2. QED BY <3>1 DEF Lifecycle!Moves
  <2>3. CASE MarkOpportunity(j)
    <3>1. Lifecycle!IsTakenUp(j)
      BY <2>3, <2>0 DEF MarkOpportunity, JobInv, Busy, BeforeVerdict, LifeInv, Lifecycle!IsTakenUp
    <3>2. QED BY <3>1 DEF Lifecycle!Moves
  <2>4. CASE Save(j)
    <3>1. results[j] \in (SUBSET AmountStatuses) \ {{}}
      BY <2>4, <2>0, <1>0 DEF Save, JobInv, TypeOK
    <3>2. saved[j] = {} /\ Lifecycle!Open(j) /\ UNCHANGED <<jobs, opportunities, Lifecycle!lateness>>
      BY <2>4, <2>0 DEF Save, JobInv, Busy, BeforeVerdict, LifeInv
    <3>3. \/ jobs[j] = "RUNNING" /\ opportunities[j] = "VERIFYING"
          \/ /\ jobs[j] = "QUEUED" /\ j \in jobLate \cup opportunityLate
             /\ results[j] = {"EXPIRED"}
      BY <2>4, <2>0 DEF Save, LifeInv
    <3>4. saved' = [saved EXCEPT ![j] = results[j]]
      BY <2>4 DEF Save
    <3>5. Lifecycle!IsVerified(j)
      BY <3>1, <3>2, <3>3, <3>4, SameVerdicts DEF Lifecycle!IsVerified
    <3>6. QED BY <3>5 DEF Lifecycle!Moves
  <2>5. CASE FinalJob(j)
    <3>1. saved[j] = results[j] /\ results[j] # {} /\ Lifecycle!Open(j)
      BY <2>5, <2>0 DEF FinalJob, JobInv, Busy, BeforeVerdict
    <3>2. Lifecycle!IsDecided(j)
      BY <3>1, <2>5, <2>0, SameVerdicts DEF FinalJob, LifeInv, Lifecycle!IsDecided
    <3>3. QED BY <3>2 DEF Lifecycle!Moves
  <2>6. CASE FinalOpportunity(j)
    <3>1. saved[j] = results[j] /\ results[j] # {} /\ jobs[j] = JobStatusFor(saved[j])
      BY <2>6, <2>0 DEF FinalOpportunity, JobInv
    <3>2. Lifecycle!Open(j)
      BY <2>6, <2>0 DEF FinalOpportunity, JobInv
    <3>3. Lifecycle!IsAnnounced(j)
      BY <3>1, <3>2, <2>6, SameVerdicts DEF FinalOpportunity, Lifecycle!IsAnnounced
    <3>4. QED BY <3>3 DEF Lifecycle!Moves
  <2>7. CASE RecoverJob(j)
    <3>1. Lifecycle!IsRequeued(j) \/ Lifecycle!JobIsExpired(j)
      BY <2>7 DEF RecoverJob, Lifecycle!IsRequeued, Lifecycle!JobIsExpired, Lifecycle!Pending
    <3>2. QED BY <3>1 DEF Lifecycle!Moves
  <2>8. CASE ExpireJob(j)
    <3>1. Lifecycle!JobIsExpired(j)
      BY <2>8 DEF ExpireJob, Lifecycle!JobIsExpired, Lifecycle!Pending
    <3>2. QED BY <3>1 DEF Lifecycle!Moves
  <2>9. CASE ExpireOpportunity(j)
    <3>1. Lifecycle!OpportunityIsExpired(j)
      BY <2>9 DEF ExpireOpportunity, UnfinishedOpportunities, Lifecycle!OpportunityIsExpired
    <3>2. QED BY <3>1 DEF Lifecycle!Moves
  <2>10. CASE JobExpires(j) \/ OpportunityExpires(j)
    <3>1. Lifecycle!TimePasses(j)
      BY <2>10 DEF JobExpires, OpportunityExpires, Lifecycle!TimePasses
    <3>2. QED BY <3>1 DEF Lifecycle!Moves
  <2>11. QED
    BY <1>3, <2>1, <2>2, <2>3, <2>4, <2>5, <2>6, <2>7, <2>8, <2>9, <2>10
<1>4. QED BY <1>1, <1>2, <1>3 DEF Next, InnerStep

\* The rows of the database behave as the lifecycle of a job and its opportunity
\* says, through any number of crashes, shutdowns and recoveries: every step of the
\* worker, the scanner and the recovery is one of its steps or changes no row.
THEOREM JobsFollowTheirLifecycle == Spec => ImplementsLifecycle
<1>1. Init => Lifecycle!Begins
  BY DEF Init, Idle, Lifecycle!Begins
<1>2. IInv /\ WInv /\ LInv /\ [Next]_vars =>
          [Lifecycle!Moves]_<<Lifecycle!rows, Lifecycle!lateness>>
  BY StepOfLifecycle, Unseen DEF vars
<1>3. QED
  BY <1>1, <1>2, LifeInvariance, PTL DEF Spec, ImplementsLifecycle, Lifecycle!Spec

\* A decided job or opportunity keeps its verdict for ever.  This is a property of
\* the lifecycle alone, which all that implements it inherits.
THEOREM LifecycleIsFinal == ImplementsLifecycle => VerdictsAreFinal
<1> DEFINE Functions == /\ jobs = [j \in Jobs |-> jobs[j]]
                        /\ opportunities = [j \in Jobs |-> opportunities[j]]
           Kept == \A j \in Jobs :
                      /\ jobs[j] \in JobVerdicts => jobs'[j] = jobs[j]
                      /\ opportunities[j] \in OpportunityVerdicts =>
                             opportunities'[j] = opportunities[j]
<1>1. Lifecycle!Begins => Functions
  BY DEF Lifecycle!Begins
<1>2. ASSUME Functions, Lifecycle!Moves PROVE Functions' /\ Kept
  <2> USE DEF Lifecycle!Open, Lifecycle!Pending, Lifecycle!rows
  <2>1. PICK j \in Jobs :
           \/ Lifecycle!IsCreated(j) \/ Lifecycle!IsStarted(j) \/ Lifecycle!IsTakenUp(j)
           \/ Lifecycle!IsVerified(j) \/ Lifecycle!IsDecided(j) \/ Lifecycle!IsAnnounced(j)
           \/ Lifecycle!IsRequeued(j) \/ Lifecycle!JobIsExpired(j)
           \/ Lifecycle!OpportunityIsExpired(j) \/ Lifecycle!TimePasses(j)
    BY <1>2 DEF Lifecycle!Moves
  <2>2. /\ jobs' = jobs \/ \E v : jobs' = [jobs EXCEPT ![j] = v]
        /\ opportunities' = opportunities \/ \E v : opportunities' = [opportunities EXCEPT ![j] = v]
    BY <2>1 DEF Lifecycle!IsCreated, Lifecycle!IsStarted, Lifecycle!IsTakenUp,
       Lifecycle!IsVerified, Lifecycle!IsDecided, Lifecycle!IsAnnounced, Lifecycle!IsRequeued,
       Lifecycle!JobIsExpired, Lifecycle!OpportunityIsExpired, Lifecycle!TimePasses
  <2>3. /\ jobs' = jobs \/ jobs[j] \in {"absent", "QUEUED", "RUNNING"}
        /\ opportunities' = opportunities \/ opportunities[j] \in {"absent", "CREATED", "VERIFYING"}
    BY <2>1 DEF Lifecycle!IsCreated, Lifecycle!IsStarted, Lifecycle!IsTakenUp,
       Lifecycle!IsVerified, Lifecycle!IsDecided, Lifecycle!IsAnnounced, Lifecycle!IsRequeued,
       Lifecycle!JobIsExpired, Lifecycle!OpportunityIsExpired, Lifecycle!TimePasses
  <2>4. Functions'
    BY <1>2, <2>2
  <2>5. Kept
    BY <1>2, <2>2, <2>3 DEF JobVerdicts, OpportunityVerdicts
  <2>6. QED BY <2>4, <2>5
<1>3. ASSUME Functions, UNCHANGED <<Lifecycle!rows, Lifecycle!lateness>> PROVE Functions' /\ Kept
  BY <1>3 DEF Lifecycle!rows
<1>4. Functions /\ [Lifecycle!Moves]_<<Lifecycle!rows, Lifecycle!lateness>> => Functions' /\ [Kept]_vars
  BY <1>2, <1>3
<1>5. QED
  <2> HIDE DEF Functions, Kept
  <2>1. QED BY <1>1, <1>4, PTL DEF ImplementsLifecycle, Lifecycle!Spec, VerdictsAreFinal, Kept

\* No write of a shielded task, no second attempt and no recovery changes the
\* status of what is decided (level2/scanner.py, app/recovery.py).
THEOREM DecidedStaysDecided == Spec => VerdictsAreFinal
BY JobsFollowTheirLifecycle, LifecycleIsFinal, PTL
==============================================================================
