----------------------------- MODULE MCLevel2Jobs -----------------------------
(* One place in the semaphore and a queue of two, so that one job of three    *)
(* waits and one may be rejected.  A timeout adds the outcome {"FAILED"}, an  *)
(* expiry {"EXPIRED"}.                                                        *)
EXTENDS Level2Jobs

CONSTANTS j1, j2, j3

FirstJob == {j1}
TwoJobs == {j1, j2}
ThreeJobs == {j1, j2, j3}

\* Confirmed for the job, partial for the opportunity.
Mixed == {{"VERIFIED_PROFITABLE", "UNKNOWN"}}
\* One for each way in which the two verdicts can differ.
MCOutcomes == {{"VERIFIED_PROFITABLE"},
               {"VERIFIED_PROFITABLE", "UNKNOWN"},
               {"VERIFIED_UNPROFITABLE", "ROUTE_UNAVAILABLE"}}
==============================================================================
