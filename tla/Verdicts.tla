------------------------------- MODULE Verdicts -------------------------------
(***************************************************************************)
(* The verdict on a Level 2 job and on its opportunity, computed from the  *)
(* results of the amounts (services/level2/confirmation.py).  Both look    *)
(* only at the set of statuses that occur.                                 *)
(***************************************************************************)

AmountStatuses ==
    {"VERIFIED_PROFITABLE", "VERIFIED_UNPROFITABLE", "ROUTE_UNAVAILABLE",
     "UNKNOWN", "FAILED", "EXPIRED"}

JobVerdicts == {"CONFIRMED", "REJECTED", "EXPIRED", "FAILED"}

OpportunityVerdicts ==
    {"CONFIRMED", "PARTIAL", "UNPROFITABLE", "ROUTE_UNAVAILABLE", "EXPIRED", "FAILED"}

\* A definite negative answer about an amount.
DefinitiveNegative == {"VERIFIED_UNPROFITABLE", "ROUTE_UNAVAILABLE"}

\* job_status_for()
JobStatusFor(statuses) ==
    IF statuses = {} THEN "FAILED"
    ELSE IF "VERIFIED_PROFITABLE" \in statuses THEN "CONFIRMED"
    ELSE IF statuses = {"EXPIRED"} THEN "EXPIRED"
    ELSE IF statuses \subseteq DefinitiveNegative THEN "REJECTED"
    ELSE "FAILED"

\* opportunity_status_for().  A mixture of the two negative answers is a
\* negative verdict; with anything unknown in it, it is a failure.
OpportunityStatusFor(statuses) ==
    IF statuses = {} THEN "FAILED"
    ELSE IF statuses = {"VERIFIED_PROFITABLE"} THEN "CONFIRMED"
    ELSE IF "VERIFIED_PROFITABLE" \in statuses THEN "PARTIAL"
    ELSE IF statuses = {"ROUTE_UNAVAILABLE"} THEN "ROUTE_UNAVAILABLE"
    ELSE IF statuses = {"EXPIRED"} THEN "EXPIRED"
    ELSE IF statuses \subseteq DefinitiveNegative THEN "UNPROFITABLE"
    ELSE "FAILED"
==============================================================================
