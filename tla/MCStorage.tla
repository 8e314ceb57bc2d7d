------------------------------ MODULE MCStorage ------------------------------
(* A small instance of Storage: one transaction of a worker, builds of one   *)
(* snapshot, two migrations and two backups of which one copy is kept.       *)
EXTENDS Storage

CONSTANTS c1, c2, j1

MCCallers == {c1, c2}
MCJobs == {j1}
MCBackups == {"copy", "ran", "said"} \X (1..MaxBackups)
MCTransactions == MCJobs \cup ({"fee"} \X (1..MaxBuilds)) \cup ({"schema"} \X (1..Versions))
MCWriters == MCTransactions \cup MCBackups
MCCopying == {"copy"} \X (1..MaxBackups)

Load(js, cs, b, f, k) ==
    [jobs |-> js, callers |-> cs, backups |-> b, faults |-> f, cancels |-> k]

\* Everything meets once; two callers and a job; two backups and a job.
MCLoads == {Load({j1}, {c1}, 1, 1, 1),
            Load({j1}, {c1, c2}, 0, 1, 1),
            Load({j1}, {}, 2, 2, 1)}

\* A job that is cancelled, and nothing else goes wrong.
MCOneCancelled == {Load({j1}, {}, 0, 0, 1)}
==============================================================================
