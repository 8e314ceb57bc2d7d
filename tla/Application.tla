------------------------------ MODULE Application ------------------------------
(***************************************************************************)
(* The process from its start to its end.                                  *)
(*                                                                         *)
(*   app/main.py, app/lifecycle.py   startup, scheduler loop, shutdown     *)
(*   services/scheduler              tick() runs the due tasks in turn     *)
(*   app/supervisor.py               the loop is its one, critical, worker *)
(*   services/commands/service.py    the task that carries out commands    *)
(*   app/control.py                  the switch those commands throw       *)
(*   services/notifications/system.py  tells the operator of a stop        *)
(*                                                                         *)
(* Everything here runs in one coroutine after another: pc is the await at *)
(* which the process stands.  Signals, the operator, time and death come   *)
(* between any two steps.                                                  *)
(***************************************************************************)
EXTENDS Naturals, Sequences

CONSTANTS Registered,    \* the enabled tasks with a schedule, as registered
          Scan,          \* level1_scan
          Commands,      \* telegram_commands
          BatchSize,     \* CommandService.batch_size
          MaxCommands,   \* bound: the commands the operator sends
          MaxStarts      \* bound: the starts of the process

Tasks == {Registered[i] : i \in 1..Len(Registered)}
Updates == 1..MaxCommands

ASSUME ApplicationAssumption ==
    /\ Registered \in Seq(Tasks)
    /\ \A i, k \in 1..Len(Registered) : Registered[i] = Registered[k] => i = k
    /\ {Scan, Commands} \subseteq Tasks /\ Scan # Commands
    /\ BatchSize \in Nat \ {0}
    /\ MaxCommands \in Nat /\ MaxStarts \in Nat

VARIABLES pc,            \* where the process stands
          exit,          \* how the process ends, or how the last one ended
          starts,        \* number of starts
          stopRequested, \* Application._stop
          started,       \* Application._started
          watched,       \* Application._scanner_running
          reported,      \* SystemNotifier._stop_reported
          paused,        \* ScannerSwitch._paused
          restart,       \* ScannerSwitch._restart_requested
          planned,       \* Scheduler._next_runs against the clock
          left,          \* the tasks tick() has yet to run
          current,       \* the task that runs
          inbox,         \* updates at Telegram: their numbers are positions
          offset,        \* app_metadata: the first update not acknowledged
          cursor,        \* the batch of poll_once(): its updates cursor..last
          last,
          handled,       \* CommandService.handled_update_ids
          carried,       \* history: how often an update was carried out
          reruns,        \* history: ends of a process that had handled an
                         \* update and not stored an offset beyond it
          told           \* history: messages since scanning last ran

switch == <<paused, restart>>
notifier == <<watched, reported, told>>
schedule == <<planned, left, current>>
poll == <<cursor, last, handled>>
telegram == <<inbox, offset, carried, reruns>>
life == <<exit, starts, stopRequested, started>>
vars == <<pc, life, switch, notifier, schedule, poll, telegram>>

Kinds == {"start", "stop", "restart"}
Starting == {"initialise", "markRunning", "greet"}
InLoop == {"observe", "tick", "next", "handler", "poll", "batch", "record", "wait"}
Ending == {"stopping", "marking", "closing"}
Exits == {"none", "ok", "restart", "safe_stop", "error", "killed"}

IsRunning == ~paused /\ ~restart

TypeOK ==
    /\ pc \in Starting \cup InLoop \cup Ending \cup {"down"}
    /\ exit \in Exits /\ starts \in 0..MaxStarts
    /\ stopRequested \in BOOLEAN /\ started \in BOOLEAN
    /\ watched \in BOOLEAN /\ reported \in BOOLEAN
    /\ paused \in BOOLEAN /\ restart \in BOOLEAN
    /\ planned \in [Tasks -> {"later", "due"}]
    /\ left \subseteq Tasks /\ current \in Tasks
    /\ inbox \in Seq(Kinds) /\ Len(inbox) <= MaxCommands
    /\ offset \in 1..Len(inbox) + 1
    /\ cursor \in 1..last + 1 /\ last \in 0..Len(inbox)
    /\ handled \subseteq 1..Len(inbox)
    /\ carried \in [Updates -> Nat] /\ reruns \in [Updates -> Nat]
    /\ told \in Nat

-------------------------------------------------------------------------------
(* Start and end of a process                                                *)

\* The memory of a process that has just begun, or of none.
Fresh ==
    /\ stopRequested' = FALSE /\ started' = FALSE
    /\ watched' = TRUE /\ reported' = FALSE /\ told' = 0
    /\ paused' = FALSE /\ restart' = FALSE
    /\ planned' = [t \in Tasks |-> "later"] /\ left' = {} /\ current' = Scan
    /\ cursor' = 1 /\ last' = 0 /\ handled' = {}

Init ==
    /\ pc = "down" /\ exit = "none" /\ starts = 0
    /\ stopRequested = FALSE /\ started = FALSE
    /\ watched = TRUE /\ reported = FALSE /\ told = 0
    /\ paused = FALSE /\ restart = FALSE
    /\ planned = [t \in Tasks |-> "later"] /\ left = {} /\ current = Scan
    /\ inbox = <<>> /\ offset = 1
    /\ cursor = 1 /\ last = 0 /\ handled = {}
    /\ carried = [u \in Updates |-> 0] /\ reruns = [u \in Updates |-> 0]

\* The process is no more; what it had handled may be handled again.
Exit(code) ==
    /\ pc' = "down" /\ exit' = code
    /\ Fresh
    /\ reruns' = [u \in Updates |->
                     IF u \in handled /\ u >= offset THEN reruns[u] + 1 ELSE reruns[u]]
    /\ UNCHANGED <<starts, inbox, offset, carried>>

Boot ==
    /\ pc = "down" /\ starts < MaxStarts
    /\ pc' = "initialise" /\ exit' = "none" /\ starts' = starts + 1
    /\ Fresh
    /\ UNCHANGED telegram

\* Scheduler.prepare(): a task whose interval has passed since its last success,
\* or that never succeeded, is due.
PlannedAtStart == [Tasks -> {"later", "due"}]

\* Recovery, registries, the schedule, the tasks of the start, the providers.
Initialise ==
    /\ pc = "initialise"
    /\ planned' \in PlannedAtStart
    /\ pc' = "markRunning"
    /\ UNCHANGED <<life, switch, notifier, left, current, poll, telegram>>

MarkRunning ==
    /\ pc = "markRunning"
    /\ started' = TRUE /\ watched' = IsRunning
    /\ pc' = "greet"
    /\ UNCHANGED <<exit, starts, stopRequested, reported, told, switch, schedule, poll,
                   telegram>>

Greet ==
    /\ pc = "greet"
    /\ pc' = "observe"
    /\ UNCHANGED <<life, switch, notifier, schedule, poll, telegram>>

\* An error of the database on the way, or an interrupt, which ends quietly.
StartupFails ==
    /\ pc \in Starting
    /\ exit' \in {"error", "ok"}
    /\ pc' = "stopping"
    /\ UNCHANGED <<starts, stopRequested, started, switch, notifier, schedule, poll, telegram>>

Kill == pc # "down" /\ Exit("killed")

\* request_stop() by SIGINT or SIGTERM; before the handlers exist they kill.
Signal ==
    /\ pc \in InLoop
    /\ ~stopRequested /\ stopRequested' = TRUE
    /\ UNCHANGED <<pc, exit, starts, started, switch, notifier, schedule, poll, telegram>>

-------------------------------------------------------------------------------
(* What the operator is told                                                 *)

\* Mutant of TellStopped: the notifier forgets what it has said.
TellStoppedAgain ==
    IF started THEN reported' = TRUE /\ told' = told + 1 ELSE UNCHANGED <<reported, told>>

\* Application.notify_scanner_stopped() and the notifier behind it.
TellStopped ==
    IF started /\ ~reported
    THEN reported' = TRUE /\ told' = told + 1
    ELSE UNCHANGED <<reported, told>>

\* _observe_scanner_state(): a change since the last look.
ObserveScanner ==
    /\ watched' = IsRunning
    /\ CASE IsRunning = watched -> UNCHANGED <<reported, told>>
         [] IsRunning /\ ~watched -> reported' = FALSE /\ UNCHANGED told
         [] OTHER -> TellStopped

-------------------------------------------------------------------------------
(* The scheduler loop                                                        *)

\* Mutant of LeaveLoop: main() does not ask for the reason.
LeaveLoopSilently == pc' = "stopping" /\ exit' = "ok"

\* The loop returns, the supervisor sees its only worker end, and main()
\* leaves with the code for a restart, if one was requested.
LeaveLoop ==
    /\ pc' = "stopping"
    /\ exit' = IF restart THEN "restart" ELSE "ok"

Observe ==
    /\ pc = "observe"
    /\ IF stopRequested
       THEN LeaveLoop /\ UNCHANGED <<stopRequested, notifier>>
       ELSE /\ ObserveScanner
            /\ IF restart
               THEN LeaveLoop /\ stopRequested' = TRUE
               ELSE pc' = "tick" /\ UNCHANGED <<exit, stopRequested>>
    /\ UNCHANGED <<starts, started, switch, schedule, poll, telegram>>

Due(t) == planned[t] = "due"

Before(s, t) == \E i, k \in 1..Len(Registered) : i < k /\ Registered[i] = s /\ Registered[k] = t

\* Mutant of Ready: a tick runs one task.
ReadyFirst == {t \in Tasks : Due(t) /\ ~\E s \in Tasks : Due(s) /\ Before(s, t)}

\* tick() compares every task with the moment at which it began.
Ready == {t \in Tasks : Due(t)}

Tick ==
    /\ pc = "tick"
    /\ left' = Ready
    /\ pc' = "next"
    /\ UNCHANGED <<life, switch, notifier, planned, current, poll, telegram>>

\* In the order of the registration; a scan that must not start returns at once.
RunNext(t) ==
    /\ pc = "next"
    /\ t \in left /\ ~\E s \in left : Before(s, t)
    /\ current' = t /\ left' = left \ {t}
    /\ pc' = CASE t = Commands -> "poll"
               [] t = Scan /\ ~IsRunning -> "record"
               [] OTHER -> "handler"
    /\ UNCHANGED <<life, switch, notifier, planned, poll, telegram>>

TickEnds ==
    /\ pc = "next" /\ left = {}
    /\ pc' = "wait"
    /\ UNCHANGED <<life, switch, notifier, schedule, poll, telegram>>

\* The handler returns, fails or times out: the runner makes a record of each.
HandlerEnds ==
    /\ pc = "handler"
    /\ pc' = "record"
    /\ UNCHANGED <<life, switch, notifier, schedule, poll, telegram>>

\* _reschedule() counts the interval from the completion.
Record ==
    /\ pc = "record"
    /\ planned' = [planned EXCEPT ![current] = "later"]
    /\ pc' = "next"
    /\ UNCHANGED <<life, switch, notifier, left, current, poll, telegram>>

\* The journal of the runs is not guarded: its error ends the critical worker.
RecordFails ==
    /\ pc = "record"
    /\ pc' = "stopping" /\ exit' = "safe_stop"
    /\ UNCHANGED <<starts, stopRequested, started, switch, notifier, schedule, poll, telegram>>

\* A second, or less when a stop is requested.
Wait ==
    /\ pc = "wait"
    /\ pc' = "observe"
    /\ UNCHANGED <<life, switch, notifier, schedule, poll, telegram>>

TimePasses(t) ==
    /\ pc \in InLoop
    /\ planned[t] = "later" /\ planned' = [planned EXCEPT ![t] = "due"]
    /\ UNCHANGED <<pc, life, switch, notifier, left, current, poll, telegram>>

-------------------------------------------------------------------------------
(* Commands                                                                  *)

\* A command that needs a confirmation counts from its confirmation.
Send(kind) ==
    /\ Len(inbox) < MaxCommands
    /\ inbox' = Append(inbox, kind)
    /\ UNCHANGED <<pc, life, switch, notifier, schedule, poll, offset, carried, reruns>>

LastOfBatch == IF Len(inbox) < offset + BatchSize THEN Len(inbox) ELSE offset + BatchSize - 1

\* getUpdates: what is not acknowledged, up to the size of a batch.
Fetch ==
    /\ pc = "poll"
    /\ cursor' = offset
    /\ last' = LastOfBatch
    /\ pc' = "batch"
    /\ UNCHANGED <<life, switch, notifier, schedule, handled, telegram>>

\* The offset cannot be read, or Telegram does not answer.
FetchFails ==
    /\ pc = "poll"
    /\ pc' = "record"
    /\ UNCHANGED <<life, switch, notifier, schedule, poll, telegram>>

\* What _control_response() does to the switch.  A scanner that runs again may
\* stop again.
CarryOut(kind) ==
    /\ paused' = CASE kind = "start" -> FALSE [] kind = "stop" -> TRUE [] OTHER -> paused
    /\ restart' = (restart \/ kind = "restart")
    /\ told' = IF kind = "start" /\ paused /\ ~restart THEN 0 ELSE told

\* Mutant of Known: only the stored offset tells what was handled.
KnownByOffset(u) == u < offset

Known(u) == u \in handled

\* _handle(): the number is noted first, an error afterwards changes nothing;
\* one that is not foreseen ends the task.
Handle ==
    /\ pc = "batch" /\ cursor <= last
    /\ cursor' = cursor + 1
    /\ IF Known(cursor)
       THEN UNCHANGED <<pc, handled, carried, switch, told>>
       ELSE /\ handled' = handled \cup {cursor}
            /\ carried' = [carried EXCEPT ![cursor] = @ + 1]
            /\ CarryOut(inbox[cursor])
            /\ pc' \in {"batch", "record"}
    /\ UNCHANGED <<life, watched, reported, schedule, last, inbox, offset, reruns>>

\* The batch is acknowledged as a whole.
StoreOffset ==
    /\ pc = "batch" /\ cursor > last
    /\ offset' = last + 1
    /\ pc' = "record"
    /\ UNCHANGED <<life, switch, notifier, schedule, poll, inbox, carried, reruns>>

StoreFails ==
    /\ pc = "batch" /\ cursor > last
    /\ pc' = "record"
    /\ UNCHANGED <<life, switch, notifier, schedule, poll, telegram>>

-------------------------------------------------------------------------------
(* Application.shutdown()                                                    *)

Shutdown ==
    /\ pc = "stopping"
    /\ stopRequested' = TRUE
    /\ TellStopped
    /\ pc' = "marking"
    /\ UNCHANGED <<exit, starts, started, watched, switch, schedule, poll, telegram>>

MarkStopped ==
    /\ pc = "marking"
    /\ pc' = "closing"
    /\ UNCHANGED <<life, switch, notifier, schedule, poll, telegram>>

\* The rest of the shutdown is skipped and the error is what main() returns.
MarkFails == pc = "marking" /\ Exit("error")

\* Scheduler, worker and supervisor have nothing left to wait for.
Close == pc = "closing" /\ Exit(exit)

-------------------------------------------------------------------------------

Step ==
    \/ Initialise \/ MarkRunning \/ Greet \/ StartupFails
    \/ Observe \/ Tick \/ (\E t \in Tasks : RunNext(t)) \/ TickEnds
    \/ HandlerEnds \/ Record \/ RecordFails \/ Wait
    \/ Fetch \/ FetchFails \/ Handle \/ StoreOffset \/ StoreFails
    \/ Shutdown \/ MarkStopped \/ MarkFails \/ Close

Next ==
    \/ Step
    \/ Boot
    \/ Kill
    \/ Signal
    \/ \E t \in Tasks : TimePasses(t)
    \/ \E kind \in Kinds : Send(kind)

Spec == Init /\ [][Next]_vars

\* The event loop runs what is ready, and every await of the loop is bounded.
FairSpec == Spec /\ WF_vars(Step)

-------------------------------------------------------------------------------
(* Properties                                                                *)

\* Every update that has been acknowledged to Telegram was carried out, and none
\* more than once in a process: the numbers handled make up for an offset that
\* could not be stored, and only the end of a process forgets them.
CommandsOnce ==
    /\ TypeOK
    /\ \A u \in Updates : /\ u < offset => carried[u] > 0
                          /\ carried[u] <= 1 + reruns[u]

\* A stop is told at most once until scanning has run again, by whichever way
\* the scanner or the process stops, and only when it has stopped.
StopsToldOnce == told <= 1 /\ (told = 1 => ~IsRunning \/ pc \in Ending)

\* A task that is due runs, whatever the others do and however they end, unless
\* the loop ends: tick() waits for each and still reaches the last.
DueTasksRun ==
    \A t \in Tasks : (pc \in InLoop /\ Due(t)) ~> (~Due(t) \/ pc \notin InLoop)

\* A restart that was requested ends the process, and never with the code that
\* leaves it down.
RestartHappens == restart ~> (pc = "down" /\ exit # "ok")

\* No stop is silent: when the process has said all it will say, the operator
\* knows of the last stop of a scanner that had run.
EveryStopTold == pc = "marking" /\ started => told > 0
===============================================================================
