----------------------------- MODULE MCRateLimiter -----------------------------
(* The bounds keep requests that exceed the burst (units of 1 to 3 against a  *)
(* burst of 2), idle periods long enough to fill the bucket, and debts that   *)
(* outlive several requests.                                                  *)
EXTENDS RateLimiter
==============================================================================
