----------------------------- MODULE FeeSnapshots -----------------------------
(***************************************************************************)
(* Snapshots of fees: the cache of services/fees/service.py, the in-flight *)
(* registry of services/resources/dedup.py, and the transaction that saves *)
(* a snapshot (repositories/sqlite/fees.py).  All callers ask for the same *)
(* context: other keys do not meet.  A build runs in a task of its own,    *)
(* shielded from the cancellation of those who wait for it.                *)
(***************************************************************************)
EXTENDS Database

CONSTANTS Callers, MaxBuilds    \* bound: builds

ASSUME FeeAssumption ==
    /\ MaxBuilds \in Nat /\ None \notin Callers
    /\ \A l \in Loads : l.callers \subseteq Callers

VARIABLES inFlight,   \* InFlightRegistry._in_flight of the key: a build
          owner,      \* the caller that started each build
          cache,      \* FeeService._cache of the key: the build of the snapshot
          fresh,      \* whether the cached snapshot is young enough
          answer      \* what each caller waits for or has got

feeVars == <<inFlight, owner, cache, fresh, answer>>

Build(n) == <<"fee", n>>
Builds == {Build(n) : n \in 1..MaxBuilds}

\* A build whose task was created and has not taken its first step is
\* "scheduled": its writer is idle and it has an owner.
Started(b) == owner[b] # None
UnderWay(b) == Started(b) /\ pc[b] \notin Ended

FeesTypeOK ==
    /\ inFlight \in Builds \cup {None}
    /\ owner \in [Builds -> Callers \cup {None}]
    /\ cache \in Builds \cup {None} /\ fresh \in BOOLEAN
    /\ answer \in [Callers -> [state : {"idle", "waits", "got", "failed", "cancelled"},
                               from : Builds \cup {None}]]

NoAnswer == [state |-> "idle", from |-> None]

FeesInit ==
    /\ inFlight = None /\ owner = [b \in Builds |-> None]
    /\ cache = None /\ fresh = FALSE
    /\ answer = [c \in Callers |-> NoAnswer]

\* Mutant of Ask: the cache is looked at, what is under way is not.
AskAlone(c) ==
    /\ answer[c] = NoAnswer
    /\ \/ /\ cache # None /\ fresh
          /\ answer' = [answer EXCEPT ![c] = [state |-> "got", from |-> cache]]
          /\ UNCHANGED <<inFlight, owner>>
       \/ /\ ~(cache # None /\ fresh)
          /\ \E n \in 1..MaxBuilds :
                /\ ~Started(Build(n)) /\ \A m \in 1..(n - 1) : Started(Build(m))
                /\ inFlight' = Build(n)
                /\ owner' = [owner EXCEPT ![Build(n)] = c]
                /\ answer' = [answer EXCEPT ![c] = [state |-> "waits", from |-> Build(n)]]
    /\ UNCHANGED <<cache, fresh, vars>>

\* snapshot_for(): the cache, the build under way, or a build of its own.
Ask(c) ==
    /\ answer[c] = NoAnswer
    /\ \/ /\ cache # None /\ fresh
          /\ answer' = [answer EXCEPT ![c] = [state |-> "got", from |-> cache]]
          /\ UNCHANGED <<inFlight, owner>>
       \/ /\ ~(cache # None /\ fresh) /\ inFlight # None
          /\ answer' = [answer EXCEPT ![c] = [state |-> "waits", from |-> inFlight]]
          /\ UNCHANGED <<inFlight, owner>>
       \/ /\ ~(cache # None /\ fresh) /\ inFlight = None
          /\ \E n \in 1..MaxBuilds :
                /\ ~Started(Build(n)) /\ \A m \in 1..(n - 1) : Started(Build(m))
                /\ inFlight' = Build(n)
                /\ owner' = [owner EXCEPT ![Build(n)] = c]
                /\ answer' = [answer EXCEPT ![c] = [state |-> "waits", from |-> Build(n)]]
    /\ UNCHANGED <<cache, fresh, vars>>

\* _build_snapshot(): the snapshot is in the cache before it is saved.
StartBuild(b) ==
    /\ Started(b) /\ Enter(b)
    /\ cache' = b /\ fresh' = TRUE
    /\ UNCHANGED <<inFlight, owner, answer>>

\* The `finally` of the caller that started the build.
Unregistered(c, b) == IF owner[b] = c /\ inFlight = b THEN None ELSE inFlight

Answered(c) ==
    LET b == answer[c].from
    IN  /\ answer[c].state = "waits" /\ pc[b] \in Ended
        /\ inFlight' = Unregistered(c, b)
        /\ answer' = [answer EXCEPT ![c].state = IF pc[b] = "ok" THEN "got" ELSE "failed"]
        /\ UNCHANGED <<owner, cache, fresh, vars>>

\* shield(): the caller goes, the build stays.
CallerCancelled(c) ==
    /\ answer[c].state = "waits"
    /\ inFlight' = Unregistered(c, answer[c].from)
    /\ answer' = [answer EXCEPT ![c].state = "cancelled"]
    /\ UNCHANGED <<owner, cache, fresh, vars>>

SnapshotAges ==
    /\ cache # None /\ fresh
    /\ fresh' = FALSE
    /\ UNCHANGED <<inFlight, owner, cache, answer, vars>>

\* The process ends: the callers that waited go with it.
FeesForgotten ==
    /\ inFlight' = None /\ cache' = None /\ fresh' = FALSE
    /\ answer' = [c \in Callers |-> IF answer[c].state = "waits"
                                    THEN [answer[c] EXCEPT !.state = "cancelled"] ELSE answer[c]]
    /\ UNCHANGED owner

Fees ==
    \/ \E c \in load.callers : Ask(c)
    \/ \E c \in Callers : Answered(c) \/ CallerCancelled(c)
    \/ \E b \in Builds : StartBuild(b)
    \/ SnapshotAges
===============================================================================
