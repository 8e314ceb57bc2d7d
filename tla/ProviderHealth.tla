---------------------------- MODULE ProviderHealth ----------------------------
(***************************************************************************)
(* What the application believes of its providers and what it tells the    *)
(* operator about them.                                                    *)
(*                                                                         *)
(*   services/health/monitor.py         statuses with hysteresis           *)
(*   infrastructure/providers/health_tracking.py  outcomes of the calls    *)
(*   app/startup_health.py              probes and the mark of the process *)
(*   services/notifications/system.py   messages, repeated and suppressed  *)
(*   app/lifecycle.py                   the order in which they are used   *)
(*                                                                         *)
(* Calls to the providers end at any moment, also while the notifier waits *)
(* for a message about an older snapshot to be sent.  The nine critical    *)
(* components are one here, "core": startup sets all of them HEALTHY and   *)
(* nothing ever sets another value.  The one other is the scheduler loop.  *)
(***************************************************************************)
EXTENDS Naturals, Sequences

CONSTANTS Providers,
          DegradedAt,       \* provider_degraded_threshold
          UnavailableAt,    \* provider_failure_threshold
          HealthyAt,        \* provider_recovery_threshold
          MaxObservations,  \* bound: ends of calls that say something of a provider
          MaxFaults,        \* bound: messages refused or not confirmed
          MaxStarts,        \* bound: starts of the process
          None

ASSUME HealthAssumption ==
    /\ DegradedAt \in Nat \ {0} /\ UnavailableAt \in Nat \ {0} /\ HealthyAt \in Nat \ {0}
    /\ DegradedAt <= UnavailableAt
    /\ MaxObservations \in Nat /\ MaxFaults \in Nat /\ MaxStarts \in Nat
    /\ None \notin Providers

VARIABLES phase,       \* where the process stands
          kind,        \* Application.startup_kind
          marker,      \* app_metadata: app.runtime.state
          greeted,     \* app_metadata: system.startup.notified_at, against its interval
          core,        \* HealthMonitor._components: the critical ones,
          loop,        \*   and the scheduler loop
          stopping,    \* HealthMonitor._stopping
          health,      \* HealthMonitor._providers
          reported,    \* SystemNotifier._reported
          snapshot,    \* the ApplicationHealth of the message or pass at hand
          left,        \* providers that pass has still to look at
          sending,     \* the provider whose message is being sent
          told,        \* history: the last message of this process about a provider
          trail,       \* history: the latest observations of a provider,
                       \* from its last probe on
          observations, faults, starts

memory == <<core, loop, stopping, health, reported, snapshot, left, sending, told, trail>>
store == <<marker, greeted>>
bounds == <<observations, faults, starts>>
vars == <<phase, kind, store, memory, bounds>>

Statuses == {"UNKNOWN", "HEALTHY", "DEGRADED", "UNAVAILABLE", "RECOVERING"}
Probed == {"HEALTHY", "UNKNOWN", "DEGRADED", "UNAVAILABLE"}
ProviderOk == {"HEALTHY", "RECOVERING"}
Observation == {"success", "failure", "unclear"}
Entry == [status : Statuses, failures : Nat, successes : Nat]
Reported == [status : Statuses, due : BOOLEAN]
Told == [status : Statuses, confirmed : BOOLEAN]
Longest == DegradedAt + UnavailableAt + HealthyAt

\* None is the None of Python: no status and no record.
ASSUME NoneAssumption == None \notin Statuses \cup Entry \cup Reported \cup Told

Startup == {"recovering", "probing", "marking", "greeting", "startupMessage"}
Phases == Startup \cup {"running", "stopping", "marked", "down"}

TypeOK ==
    /\ phase \in Phases
    /\ kind \in {"INITIAL", "RESTART", "CRASH_RECOVERY"}
    /\ marker \in {None, "running", "stopped"}
    /\ greeted \in {"recently", "longAgo"}
    /\ core \in {None, "HEALTHY"}
    /\ loop \in {None, "STARTING", "HEALTHY", "UNAVAILABLE", "STOPPING"}
    /\ stopping \in BOOLEAN
    /\ health \in [Providers -> Entry \cup {None}]
    /\ reported \in [Providers -> Reported \cup {None}]
    /\ snapshot \in [Providers -> Statuses \cup {None}]
    /\ left \subseteq Providers /\ sending \in Providers \cup {None}
    /\ told \in [Providers -> Told \cup {None}]
    /\ trail \in [Providers -> Seq(Observation)]
    /\ observations \in 0..MaxObservations /\ faults \in 0..MaxFaults
    /\ starts \in 0..MaxStarts

Observed == {p \in Providers : health[p] # None}
StatusOf == [p \in Providers |-> IF p \in Observed THEN health[p].status ELSE None]

-------------------------------------------------------------------------------
(* The monitor                                                               *)

\* provider(): a provider without observations is UNKNOWN.
Current(p) ==
    IF health[p] = None THEN [status |-> "UNKNOWN", failures |-> 0, successes |-> 0]
    ELSE health[p]

StatusAfterFailure(current, n) ==
    IF n >= UnavailableAt THEN "UNAVAILABLE"
    ELSE IF n >= DegradedAt THEN "DEGRADED"
    ELSE current

StatusAfterSuccess(current, n) ==
    IF n >= HealthyAt THEN "HEALTHY"
    ELSE IF current \in {"UNAVAILABLE", "UNKNOWN"} THEN "RECOVERING"
    ELSE current

RecordFailure(p) ==
    LET n == Current(p).failures + 1
    IN  [status |-> StatusAfterFailure(Current(p).status, n), failures |-> n, successes |-> 0]

\* Mutant of RecordSuccess: a success leaves the failures counted before it.
RecordSuccessKeepsFailures(p) ==
    LET n == Current(p).successes + 1
    IN  [status |-> StatusAfterSuccess(Current(p).status, n),
         failures |-> Current(p).failures, successes |-> n]

RecordSuccess(p) ==
    LET n == Current(p).successes + 1
    IN  [status |-> StatusAfterSuccess(Current(p).status, n), failures |-> 0, successes |-> n]

\* A probe is believed at once, and the counting starts anew with it.
RecordProbe(status) ==
    [status |-> status, failures |-> IF status = "HEALTHY" THEN 0 ELSE 1,
     successes |-> IF status = "HEALTHY" THEN 1 ELSE 0]

\* Mutant of ApplicationStatus: only the loss of every provider counts.
ApplicationStatusOfAll ==
    IF stopping THEN "STOPPING"
    ELSE IF Observed # {} /\ \A p \in Observed : health[p].status = "UNAVAILABLE"
    THEN "DEGRADED" ELSE IF core = None THEN "STARTING" ELSE "HEALTHY"

\* _application_status()
ApplicationStatus ==
    LET statuses == {health[p].status : p \in Observed}
    IN  CASE stopping -> "STOPPING"
          [] ~stopping /\ \/ statuses = {"UNAVAILABLE"}
                          \/ statuses \cap {"DEGRADED", "UNAVAILABLE"} # {} -> "DEGRADED"
          [] OTHER -> IF core = None THEN "STARTING" ELSE "HEALTHY"

Noted(p, what) ==
    LET longer == Append(trail[p], what)
    IN  IF Len(longer) > Longest THEN Tail(longer) ELSE longer

-------------------------------------------------------------------------------
(* The process                                                               *)

\* The memory of a process that has just begun.
FreshMemory ==
    /\ core' = None /\ loop' = None /\ stopping' = FALSE
    /\ health' = [p \in Providers |-> None]
    /\ reported' = [p \in Providers |-> None]
    /\ snapshot' = [p \in Providers |-> None]
    /\ left' = {} /\ sending' = None
    /\ told' = [p \in Providers |-> None]
    /\ trail' = [p \in Providers |-> <<>>]

\* The database is new or that of an earlier process.
Init ==
    /\ phase = "down" /\ kind = "INITIAL"
    /\ \/ marker = None /\ greeted = "longAgo"
       \/ marker \in {"running", "stopped"} /\ greeted \in {"recently", "longAgo"}
    /\ core = None /\ loop = None /\ stopping = FALSE
    /\ health = [p \in Providers |-> None]
    /\ reported = [p \in Providers |-> None]
    /\ snapshot = [p \in Providers |-> None]
    /\ left = {} /\ sending = None
    /\ told = [p \in Providers |-> None]
    /\ trail = [p \in Providers |-> <<>>]
    /\ observations = 0 /\ faults = 0 /\ starts = 0

KindOfStart ==
    CASE marker = None -> "INITIAL"
      [] marker = "running" -> "CRASH_RECOVERY"
      [] OTHER -> "RESTART"

Boot ==
    /\ phase = "down" /\ starts < MaxStarts
    /\ phase' = "recovering" /\ kind' = KindOfStart
    /\ starts' = starts + 1
    /\ FreshMemory
    /\ UNCHANGED <<store, observations, faults>>

\* Recovery, capabilities and the tasks of the start are done.
Recovered ==
    /\ phase = "recovering"
    /\ phase' = "probing" /\ core' = "HEALTHY" /\ left' = Providers
    /\ UNCHANGED <<kind, store, loop, stopping, health, reported, snapshot, sending, told,
                   trail, bounds>>

Probe(p) ==
    /\ phase = "probing" /\ p \in left
    /\ \E status \in Probed :
          /\ health' = [health EXCEPT ![p] = RecordProbe(status)]
          /\ trail' = [trail EXCEPT ![p] =
                         <<CASE status = "HEALTHY" -> "success"
                             [] status = "UNKNOWN" -> "unclear"
                             [] OTHER -> "failure">>]
    /\ left' = left \ {p}
    /\ phase' = IF left = {p} THEN "marking" ELSE "probing"
    /\ UNCHANGED <<kind, store, core, loop, stopping, reported, snapshot, sending, told,
                   bounds>>

MarkRunning ==
    /\ phase = "marking"
    /\ marker' = "running" /\ phase' = "greeting" /\ snapshot' = StatusOf
    /\ UNCHANGED <<kind, greeted, core, loop, stopping, health, reported, left, sending,
                   told, trail, bounds>>

NoSnapshot == [p \in Providers |-> None]

\* The supervisor registers the scheduler loop and starts it.
StartLoop == loop' = "HEALTHY" /\ phase' = "running" /\ snapshot' = NoSnapshot

\* notify_startup(): the interval since the last startup message has not passed.
GreetingSuppressed ==
    /\ phase = "greeting" /\ greeted = "recently"
    /\ StartLoop
    /\ UNCHANGED <<kind, store, core, stopping, health, reported, left, sending, told, trail,
                   bounds>>

\* _prime(): what the message says counts as reported before it is sent.
Prime ==
    reported' = [p \in Providers |->
                    IF snapshot[p] = None THEN reported[p]
                    ELSE [status |-> snapshot[p], due |-> FALSE]]

Greet ==
    /\ phase = "greeting" /\ greeted = "longAgo"
    /\ Prime
    /\ phase' = "startupMessage"
    /\ UNCHANGED <<kind, store, core, loop, stopping, health, snapshot, left, sending, told,
                   trail, bounds>>

\* How a message can end: it arrives and the receipt says so, it does not, or it
\* arrives and the answer is lost.
Receipts == {"delivered", "refused", "unconfirmed"}
Faulty(receipt) ==
    /\ receipt # "delivered" => faults < MaxFaults
    /\ faults' = IF receipt = "delivered" THEN faults ELSE faults + 1

\* The startup message names the status of every provider.
Informs(receipt) ==
    told' = [p \in Providers |->
                IF receipt = "refused" \/ snapshot[p] = None THEN told[p]
                ELSE [status |-> snapshot[p], confirmed |-> receipt = "delivered"]]

\* A message that arrived is remembered beyond the process.
Greeted(receipt) ==
    /\ phase = "startupMessage"
    /\ Faulty(receipt)
    /\ Informs(receipt)
    /\ greeted' = IF receipt = "delivered" THEN "recently" ELSE greeted
    /\ StartLoop
    /\ UNCHANGED <<kind, marker, core, stopping, health, reported, left, sending, trail,
                   observations, starts>>

\* Time passes.
GreetingForgotten ==
    /\ greeted = "recently" /\ greeted' = "longAgo"
    /\ UNCHANGED <<phase, kind, marker, memory, bounds>>

-------------------------------------------------------------------------------
(* The calls to the providers                                                *)

\* What is recorded once the process stops is read by nobody.
Calling == phase \in {"probing", "marking", "greeting", "startupMessage", "running"}

\* An outcome that says nothing of availability is not recorded at all.
CallSucceeds(p) ==
    /\ Calling /\ observations < MaxObservations
    /\ health' = [health EXCEPT ![p] = RecordSuccess(p)]
    /\ trail' = [trail EXCEPT ![p] = Noted(p, "success")]
    /\ observations' = observations + 1
    /\ UNCHANGED <<phase, kind, store, core, loop, stopping, reported, snapshot, left,
                   sending, told, faults, starts>>

CallFails(p) ==
    /\ Calling /\ observations < MaxObservations
    /\ health' = [health EXCEPT ![p] = RecordFailure(p)]
    /\ trail' = [trail EXCEPT ![p] = Noted(p, "failure")]
    /\ observations' = observations + 1
    /\ UNCHANGED <<phase, kind, store, core, loop, stopping, reported, snapshot, left,
                   sending, told, faults, starts>>

-------------------------------------------------------------------------------
(* The task of the operational notifications                                 *)

\* application_health() is read, then every provider is looked at in turn.
BeginPass ==
    /\ phase = "running" /\ left = {} /\ sending = None
    /\ snapshot' = StatusOf /\ left' = Observed
    /\ UNCHANGED <<phase, kind, store, core, loop, stopping, health, reported, sending, told,
                   trail, bounds>>

\* The pass is done with p; with its last provider it forgets the snapshot.
LookedAt(p) ==
    /\ left' = left \ {p}
    /\ snapshot' = IF left = {p} THEN NoSnapshot ELSE snapshot

\* Mutant of RepeatDue: every pass reminds of every trouble.
RepeatAlways(p) == p \in Providers

RepeatDue(p) == reported[p].due

\* The provider is well and was never spoken of.
FirstSeenWell(p) == reported[p] = None /\ snapshot[p] \in ProviderOk

\* Mutant of NothingNew: a reported trouble is never said again.
NothingNewNoReminder(p) == reported[p] # None /\ reported[p].status = snapshot[p]

NothingNew(p) ==
    /\ reported[p] # None /\ reported[p].status = snapshot[p]
    /\ snapshot[p] \in ProviderOk \/ ~RepeatDue(p)

Quiet(p) ==
    /\ p \in left /\ sending = None
    /\ FirstSeenWell(p) \/ NothingNew(p)
    /\ LookedAt(p)
    /\ reported' = IF FirstSeenWell(p)
                   THEN [reported EXCEPT ![p] = [status |-> snapshot[p], due |-> FALSE]]
                   ELSE reported
    /\ UNCHANGED <<phase, kind, store, core, loop, stopping, health, sending, told, trail,
                   bounds>>

\* A transition, a recovery or a reminder: each names the status of the snapshot.
Speak(p) ==
    /\ phase = "running" /\ p \in left /\ sending = None
    /\ ~FirstSeenWell(p) /\ ~NothingNew(p)
    /\ sending' = p
    /\ UNCHANGED <<phase, kind, store, core, loop, stopping, health, reported, snapshot, left,
                   told, trail, bounds>>

Spoken(receipt) ==
    /\ phase = "running" /\ sending # None
    /\ Faulty(receipt)
    /\ told' = IF receipt = "refused" THEN told
               ELSE [told EXCEPT ![sending] = [status |-> snapshot[sending],
                                               confirmed |-> receipt = "delivered"]]
    /\ reported' = IF receipt # "delivered" THEN reported
                   ELSE [reported EXCEPT ![sending] = [status |-> snapshot[sending],
                                                       due |-> FALSE]]
    /\ LookedAt(sending) /\ sending' = None
    /\ UNCHANGED <<phase, kind, store, core, loop, stopping, health, trail, observations,
                   starts>>

\* repeat_interval_seconds have passed since the last message: it matters for a
\* trouble only.
IntervalPasses(p) ==
    /\ phase = "running" /\ reported[p] # None /\ ~RepeatDue(p)
    /\ reported[p].status \notin ProviderOk
    /\ reported' = [reported EXCEPT ![p].due = TRUE]
    /\ UNCHANGED <<phase, kind, store, core, loop, stopping, health, snapshot, left, sending,
                   told, trail, bounds>>

-------------------------------------------------------------------------------
(* The end of the process                                                    *)

\* The loop has ended, or it has failed; shutdown() begins.  A pass is cut off.
Stop(how) ==
    /\ phase = "running" /\ how \in {"STOPPING", "UNAVAILABLE"}
    /\ how = "STOPPING" => left = {} /\ sending = None
    /\ loop' = how /\ stopping' = TRUE /\ phase' = "stopping"
    /\ left' = {} /\ sending' = None /\ snapshot' = NoSnapshot
    /\ UNCHANGED <<kind, store, core, health, reported, told, trail, bounds>>

\* startup() raised: main() calls shutdown() all the same.  While the startup
\* message is sent only the row that remembers it can fail: it has arrived then.
StartupFails ==
    /\ phase \in Startup
    /\ IF phase = "startupMessage" THEN Informs("delivered") ELSE UNCHANGED told
    /\ stopping' = TRUE /\ phase' = "stopping" /\ left' = {} /\ snapshot' = NoSnapshot
    /\ UNCHANGED <<kind, store, core, loop, health, reported, sending, trail, bounds>>

MarkStopped ==
    /\ phase = "stopping"
    /\ marker' = "stopped" /\ phase' = "marked"
    /\ UNCHANGED <<kind, greeted, memory, bounds>>

Exit ==
    /\ phase = "marked" /\ phase' = "down"
    /\ FreshMemory
    /\ UNCHANGED <<kind, store, bounds>>

Crash ==
    /\ phase # "down" /\ phase' = "down"
    /\ FreshMemory
    /\ UNCHANGED <<kind, store, bounds>>

Next ==
    \/ Boot \/ Recovered \/ MarkRunning \/ GreetingSuppressed \/ Greet
    \/ \E receipt \in Receipts : Greeted(receipt) \/ Spoken(receipt)
    \/ GreetingForgotten \/ BeginPass
    \/ \E p \in Providers : Probe(p) \/ CallSucceeds(p) \/ CallFails(p)
                            \/ Quiet(p) \/ Speak(p) \/ IntervalPasses(p)
    \/ \E how \in {"STOPPING", "UNAVAILABLE"} : Stop(how)
    \/ StartupFails \/ MarkStopped \/ Exit \/ Crash

\* The startup goes on, the task runs every check_interval_seconds, a message
\* ends, time passes.  Nothing makes a process end, or another one begin.
Fairness ==
    /\ WF_vars(Recovered) /\ WF_vars(MarkRunning) /\ WF_vars(GreetingSuppressed)
    /\ WF_vars(Greet) /\ WF_vars(\E receipt \in Receipts : Greeted(receipt) \/ Spoken(receipt))
    /\ WF_vars(BeginPass)
    /\ \A p \in Providers : /\ WF_vars(Probe(p)) /\ WF_vars(Quiet(p)) /\ WF_vars(Speak(p))
                            /\ WF_vars(IntervalPasses(p))

Spec == Init /\ [][Next]_vars /\ Fairness

-------------------------------------------------------------------------------
(* Properties                                                                *)

\* The latest n observations of p are all of these.
Last(p, n, these) ==
    /\ Len(trail[p]) >= n
    /\ \A i \in (Len(trail[p]) - n + 1)..Len(trail[p]) : trail[p][i] \in these
Wrong == {"failure", "unclear"}

\* A status is changed by the calls only for as many outcomes in a row as its
\* threshold asks since the last probe, whatever came before: a failure between
\* successes, or a success between failures, changes nothing else than that an
\* unavailable or unknown provider is RECOVERING.
EarnedStatus ==
    [][\A p \in Providers :
         (observations' = observations + 1 /\ health'[p] # health[p]
            /\ health'[p].status # Current(p).status)
         => CASE health'[p].status = "UNAVAILABLE" -> Last(p, UnavailableAt, Wrong)'
              [] health'[p].status = "DEGRADED" -> Last(p, DegradedAt, Wrong)'
              [] health'[p].status = "HEALTHY" -> Last(p, HealthyAt, {"success"})'
              [] OTHER -> /\ health'[p].status = "RECOVERING" /\ Last(p, 1, {"success"})'
                          /\ Current(p).status \in {"UNAVAILABLE", "UNKNOWN"}]_vars

\* The application calls itself HEALTHY only while no provider's latest
\* observations are DegradedAt failures in a row, and only when started.
NoHiddenTrouble ==
    /\ TypeOK
    /\ ApplicationStatus = "HEALTHY" =>
          /\ core = "HEALTHY" /\ ~stopping
          /\ \A p \in Providers : ~Last(p, DegradedAt, {"failure"})

\* The operator hears of a status once: a message that names the status of the
\* last one, which was confirmed, arrives only about a trouble and only when the
\* interval of repetition has passed.  Messages refused between, a status that
\* changed and came back, and what changes while a message is being sent do not
\* make it come early (notify_health, _observe).
SaidOnce ==
    [][\A receipt \in Receipts \ {"refused"}, p \in Providers :
         /\ Spoken(receipt) /\ sending = p
         /\ told[p] # None /\ told[p].confirmed /\ told[p].status = snapshot[p]
         => snapshot[p] \notin ProviderOk /\ reported[p] # None /\ reported[p].due]_vars

\* While a process goes on, the operator gets to know every trouble that lasts
\* and every recovery from a trouble he was told of, whichever messages were
\* refused.  The one exception: a message of trouble that arrived and was never
\* confirmed is not taken back if the provider recovers before the next pass.
OperatorLearns ==
    <>[](phase = "running" =>
           \A p \in Observed :
              IF health[p].status \in ProviderOk
              THEN told[p] = None \/ told[p].status \in ProviderOk \/ ~told[p].confirmed
              ELSE told[p] # None /\ told[p].status = health[p].status)
===============================================================================
