-------------------------- MODULE Application_proofs --------------------------
(***************************************************************************)
(* For any tasks, any size of a batch and any number of starts: what is    *)
(* acknowledged was carried out, repeats are explained, a stop is told     *)
(* once.                                                                   *)
(***************************************************************************)
EXTENDS Application, SequenceTheorems, TLAPS

\* What an update owes to the process that is running: at most one execution
\* beyond those lost with earlier ones, and none before it is handled.
CommandInv(u) ==
    /\ u < offset => carried[u] > 0
    /\ u \in handled => carried[u] > 0
    /\ carried[u] <= 1 + reruns[u]
    /\ u >= offset /\ u \notin handled => carried[u] <= reruns[u]

\* Within a batch nothing is passed over.
BatchInv ==
    pc = "batch" => /\ offset <= cursor
                    /\ \A u \in Updates : offset <= u /\ u < cursor => u \in handled

\* A message is remembered as long as it is the last.
StopInv == StopsToldOnce /\ (told = 1 => reported)

\* A process that is not there has handled nothing.
DownInv == pc = "down" => handled = {}

IInv ==
    /\ TypeOK
    /\ DownInv
    /\ \A u \in Updates : CommandInv(u)
    /\ BatchInv
    /\ StopInv

\* TypeOK in three parts.
ProcessTypes ==
    /\ pc \in Starting \cup InLoop \cup Ending \cup {"down"}
    /\ exit \in Exits /\ starts \in 0..MaxStarts
    /\ stopRequested \in BOOLEAN /\ started \in BOOLEAN
    /\ watched \in BOOLEAN /\ reported \in BOOLEAN
    /\ paused \in BOOLEAN /\ restart \in BOOLEAN
    /\ told \in Nat

ScheduleTypes ==
    /\ planned \in [Tasks -> {"later", "due"}]
    /\ left \subseteq Tasks /\ current \in Tasks

CommandTypes ==
    /\ inbox \in Seq(Kinds) /\ Len(inbox) <= MaxCommands
    /\ offset \in 1..Len(inbox) + 1
    /\ cursor \in 1..last + 1 /\ last \in 0..Len(inbox)
    /\ handled \subseteq 1..Len(inbox)
    /\ carried \in [Updates -> Nat] /\ reruns \in [Updates -> Nat]

-------------------------------------------------------------------------------
LEMMA SetTypes ==
    /\ Tasks = {Registered[i] : i \in 1..Len(Registered)}
    /\ Scan \in Tasks /\ Commands \in Tasks
    /\ MaxCommands \in Nat /\ MaxStarts \in Nat /\ BatchSize \in Nat \ {0}
BY ApplicationAssumption DEF Tasks

LEMMA TypeParts == TypeOK <=> ProcessTypes /\ ScheduleTypes /\ CommandTypes
BY DEF TypeOK, ProcessTypes, ScheduleTypes, CommandTypes

LEMMA InitInv == Init => IInv
<1> SUFFICES ASSUME Init PROVE IInv  OBVIOUS
<1>1. <<>> \in Seq(Kinds) /\ Len(<<>>) = 0  OBVIOUS
<1>2. ProcessTypes
  <2>1. pc \in {"down"} /\ exit \in Exits  BY DEF Init, Exits
  <2>2. starts \in 0..MaxStarts /\ told \in Nat  BY SetTypes DEF Init
  <2>3. /\ stopRequested \in BOOLEAN /\ started \in BOOLEAN
        /\ watched \in BOOLEAN /\ reported \in BOOLEAN
        /\ paused \in BOOLEAN /\ restart \in BOOLEAN
    BY Zenon DEF Init
  <2>4. QED  BY <2>1, <2>2, <2>3, Zenon DEF ProcessTypes
<1>3. ScheduleTypes  BY SetTypes DEF Init, ScheduleTypes
<1>4. CommandTypes  BY <1>1, SetTypes DEF Init, CommandTypes
<1>5. \A u \in Updates : CommandInv(u)  BY DEF Init, CommandInv, Updates
<1>6. BatchInv /\ StopInv /\ DownInv
  BY DEF Init, BatchInv, StopInv, StopsToldOnce, DownInv
<1>7. QED  BY <1>2, <1>3, <1>4, <1>5, <1>6, TypeParts DEF IInv

\* A step that leaves the commands alone.
LEMMA CommandsFrame ==
    ASSUME IInv, UNCHANGED <<handled, offset, carried, reruns>>
    PROVE  \A u \in Updates : CommandInv(u)'
BY DEF IInv, CommandInv

\* A step that leaves the switch and the messages alone.
LEMMA StopFrame ==
    ASSUME IInv, UNCHANGED <<paused, restart, reported, told>>,
           pc \in Ending => pc' \in Ending
    PROVE  StopInv'
BY DEF IInv, StopInv, StopsToldOnce, IsRunning

\* The memory of a new process knows of no message and of no update.
LEMMA FreshInv ==
    ASSUME IInv, Fresh, UNCHANGED <<inbox, offset, carried>>,
           reruns' \in [Updates -> Nat], starts' \in 0..MaxStarts, exit' \in Exits,
           pc' \in {"down", "initialise"},
           \A u \in Updates :
               reruns'[u] = IF u \in handled /\ u >= offset THEN reruns[u] + 1 ELSE reruns[u]
    PROVE  IInv'
<1>1. ProcessTypes'  BY DEF Fresh, ProcessTypes, Starting
<1>2. ScheduleTypes'  BY SetTypes DEF Fresh, ScheduleTypes
<1>3. inbox \in Seq(Kinds)  BY DEF IInv, TypeOK
<1>4. Len(inbox) \in Nat  BY <1>3, LenProperties
<1>5. CommandTypes'
  BY <1>4 DEF Fresh, CommandTypes, IInv, TypeOK
<1>6. ASSUME NEW u \in Updates PROVE CommandInv(u)'
  <2>1. carried[u] \in Nat /\ reruns[u] \in Nat  BY DEF IInv, TypeOK
  <2>2. handled' = {}  BY DEF Fresh
  <2>3. offset \in Nat /\ u \in Nat  BY <1>4, SetTypes DEF IInv, TypeOK, Updates
  <2>4. QED  BY <2>1, <2>2, <2>3 DEF IInv, CommandInv
<1>7. BatchInv' /\ StopInv' /\ DownInv'
  BY DEF Fresh, BatchInv, StopInv, StopsToldOnce, DownInv
<1>8. QED  BY <1>1, <1>2, <1>5, <1>6, <1>7, TypeParts DEF IInv, TypeOK, ProcessTypes, ScheduleTypes, CommandTypes

LEMMA ExitInv ==
    ASSUME IInv, NEW code \in Exits, Exit(code)
    PROVE  IInv'
<1>1. /\ UNCHANGED <<inbox, offset, carried, starts>>
      /\ pc' = "down" /\ exit' = code /\ Fresh
      /\ reruns' \in [Updates -> Nat]
      /\ \A u \in Updates :
            reruns'[u] = IF u \in handled /\ u >= offset THEN reruns[u] + 1 ELSE reruns[u]
  BY DEF Exit, IInv, TypeOK
<1>2. starts' \in 0..MaxStarts  BY <1>1 DEF IInv, TypeOK
<1>3. QED  BY <1>1, <1>2, FreshInv

\* A step of the process that leaves everything of the commands alone.
LEMMA QuietInv ==
    ASSUME IInv, UNCHANGED <<inbox, offset, cursor, last, handled, carried, reruns>>,
           pc # "down", pc' \notin {"batch", "down"},
           ProcessTypes', ScheduleTypes', StopInv'
    PROVE  IInv'
<1>1. CommandTypes'  BY DEF IInv, TypeOK, CommandTypes
<1>2. TypeOK'
  BY <1>1 DEF TypeOK, ProcessTypes, ScheduleTypes, CommandTypes
<1>3. \A u \in Updates : CommandInv(u)'  BY DEF IInv, CommandInv
<1>4. BatchInv' /\ DownInv'  BY DEF BatchInv, DownInv
<1>5. QED  BY <1>2, <1>3, <1>4 DEF IInv

-------------------------------------------------------------------------------
(* The start and the end                                                     *)

LEMMA ProcessStep ==
    ASSUME IInv,
           \/ Boot \/ Initialise \/ MarkRunning \/ Greet \/ StartupFails
           \/ Kill \/ Shutdown \/ MarkStopped \/ MarkFails \/ Close
    PROVE  IInv'
<1> USE DEF Starting, InLoop, Ending
<1>1. CASE Boot
  <2>1. /\ Fresh /\ UNCHANGED <<inbox, offset, carried, reruns>>
        /\ pc' = "initialise" /\ exit' = "none" /\ pc = "down"
    BY <1>1 DEF Boot, telegram
  <2>2. handled = {}  BY <2>1 DEF IInv, DownInv
  <2>3. starts' \in 0..MaxStarts
    BY <1>1, SetTypes DEF Boot, IInv, TypeOK
  <2>4. exit' \in Exits  BY <2>1 DEF Exits
  <2>5. reruns' \in [Updates -> Nat]  BY <2>1 DEF IInv, TypeOK
  <2>6. QED  BY <2>1, <2>2, <2>3, <2>4, <2>5, FreshInv
<1>2. CASE Initialise
  <2>1. ProcessTypes'
    BY <1>2 DEF Initialise, IInv, TypeOK, ProcessTypes, life, switch, notifier
  <2>2. ScheduleTypes'
    BY <1>2 DEF Initialise, PlannedAtStart, IInv, TypeOK, ScheduleTypes
  <2>3. StopInv'
    BY <1>2, StopFrame DEF Initialise, switch, notifier
  <2>4. QED
    BY <1>2, <2>1, <2>2, <2>3, QuietInv DEF Initialise, poll, telegram
<1>3. CASE MarkRunning
  <2>1. watched' \in BOOLEAN
    BY <1>3, Zenon DEF MarkRunning, IsRunning
  <2>5. ProcessTypes'
    BY <1>3, <2>1 DEF MarkRunning, IInv, TypeOK, ProcessTypes, switch
  <2>2. ScheduleTypes'
    BY <1>3 DEF MarkRunning, IInv, TypeOK, ScheduleTypes, schedule
  <2>3. StopInv'
    BY <1>3, StopFrame DEF MarkRunning, switch
  <2>4. QED
    BY <1>3, <2>5, <2>2, <2>3, QuietInv DEF MarkRunning, poll, telegram
<1>4. CASE Greet \/ MarkStopped
  <2>1. ProcessTypes'
    BY <1>4 DEF Greet, MarkStopped, IInv, TypeOK, ProcessTypes, life, switch, notifier
  <2>2. ScheduleTypes'
    BY <1>4 DEF Greet, MarkStopped, IInv, TypeOK, ScheduleTypes, schedule
  <2>3. StopInv'
    BY <1>4, StopFrame DEF Greet, MarkStopped, switch, notifier
  <2>4. QED
    BY <1>4, <2>1, <2>2, <2>3, QuietInv DEF Greet, MarkStopped, poll, telegram
<1>5. CASE StartupFails
  <2>1. ProcessTypes'
    BY <1>5 DEF StartupFails, IInv, TypeOK, ProcessTypes, switch, notifier, Exits
  <2>2. ScheduleTypes'
    BY <1>5 DEF StartupFails, IInv, TypeOK, ScheduleTypes, schedule
  <2>3. StopInv'
    BY <1>5, StopFrame DEF StartupFails, switch, notifier
  <2>4. QED
    BY <1>5, <2>1, <2>2, <2>3, QuietInv DEF StartupFails, poll, telegram
<1>6. CASE Kill
  BY <1>6, ExitInv DEF Kill, Exits
<1>7. CASE Shutdown
  <2>1. ProcessTypes'
    <3>1. stopRequested' \in BOOLEAN /\ reported' \in BOOLEAN
      BY <1>7, Zenon DEF Shutdown, TellStopped, IInv, TypeOK
    <3>2. told' \in Nat
      BY <1>7 DEF Shutdown, TellStopped, IInv, TypeOK
    <3>3. QED
      BY <1>7, <3>1, <3>2 DEF Shutdown, IInv, TypeOK, ProcessTypes, switch
  <2>2. ScheduleTypes'
    BY <1>7 DEF Shutdown, IInv, TypeOK, ScheduleTypes, schedule
  <2>3. StopInv'
    BY <1>7 DEF Shutdown, TellStopped, IInv, TypeOK, StopInv, StopsToldOnce, switch
  <2>4. QED
    BY <1>7, <2>1, <2>2, <2>3, QuietInv DEF Shutdown, poll, telegram
<1>8. CASE MarkFails
  BY <1>8, ExitInv DEF MarkFails, Exits
<1>9. CASE Close
  BY <1>9, ExitInv DEF Close, IInv, TypeOK
<1>10. QED  BY <1>1, <1>2, <1>3, <1>4, <1>5, <1>6, <1>7, <1>8, <1>9
-------------------------------------------------------------------------------
(* The scheduler loop                                                        *)

\* The look at the scanner: what is told follows a change of the switch.
LEMMA ObserveStep == ASSUME IInv, Observe PROVE IInv'
<1> USE DEF Starting, InLoop, Ending
<1>1. /\ pc = "observe" /\ pc' \in {"stopping", "tick"}
      /\ exit' \in {"restart", "ok", exit}
      /\ stopRequested' \in {stopRequested, TRUE}
      /\ UNCHANGED <<starts, started, switch, schedule, poll, telegram>>
  BY DEF Observe, LeaveLoop
<1>2. \/ UNCHANGED <<watched, reported, told>>
      \/ watched' = IsRunning /\ UNCHANGED <<reported, told>>
      \/ watched' = IsRunning /\ reported' = FALSE /\ told' = told /\ IsRunning
      \/ /\ watched' = IsRunning /\ ~IsRunning
         /\ ~reported /\ reported' = TRUE /\ told' = told + 1
  <2>1. CASE stopRequested  BY <2>1 DEF Observe, notifier
  <2>2. CASE ~stopRequested
    <3>1. ObserveScanner  BY <2>2 DEF Observe
    <3>2. IsRunning \in BOOLEAN /\ watched \in BOOLEAN
      BY Zenon DEF IsRunning, IInv, TypeOK
    <3>3. CASE IsRunning = watched  BY <3>1, <3>3 DEF ObserveScanner
    <3>4. CASE IsRunning /\ ~watched  BY <3>1, <3>2, <3>4 DEF ObserveScanner
    <3>5. CASE ~IsRunning /\ watched
      BY <3>1, <3>2, <3>5 DEF ObserveScanner, TellStopped
    <3>6. QED  BY <3>2, <3>3, <3>4, <3>5
  <2>3. QED  BY <2>1, <2>2
<1>3. watched' \in BOOLEAN /\ reported' \in BOOLEAN
  BY <1>2, Zenon DEF IsRunning, IInv, TypeOK
<1>4. ProcessTypes'
  <2>1. told' \in Nat  BY <1>2 DEF IInv, TypeOK
  <2>2. stopRequested' \in BOOLEAN /\ exit' \in Exits
    BY <1>1 DEF IInv, TypeOK, Exits
  <2>3. QED
    BY <1>1, <1>3, <2>1, <2>2 DEF IInv, TypeOK, ProcessTypes, switch
<1>5. ScheduleTypes'  BY <1>1 DEF IInv, TypeOK, ScheduleTypes, schedule
<1>6. StopInv'
  BY <1>1, <1>2 DEF IInv, TypeOK, StopInv, StopsToldOnce, IsRunning, switch
<1>7. QED  BY <1>1, <1>4, <1>5, <1>6, QuietInv DEF poll, telegram

\* tick() and what it waits for; a stop may be asked for at any of its steps.
LEMMA LoopStep ==
    ASSUME IInv,
           \/ Tick \/ TickEnds \/ HandlerEnds \/ Record \/ RecordFails \/ Wait
           \/ \E t \in Tasks : RunNext(t)
    PROVE  IInv'
<1> USE DEF Starting, InLoop, Ending
<1>1. ASSUME NEW t \in Tasks, RunNext(t) PROVE IInv'
  <2>1. /\ pc = "next" /\ pc' \in {"poll", "record", "handler"}
        /\ current' = t /\ left' = left \ {t}
        /\ UNCHANGED <<life, switch, notifier, planned, poll, telegram>>
    BY <1>1 DEF RunNext
  <2>2. ProcessTypes'
    BY <2>1 DEF IInv, TypeOK, ProcessTypes, life, switch, notifier
  <2>3. ScheduleTypes'  BY <2>1 DEF IInv, TypeOK, ScheduleTypes
  <2>4. StopInv'  BY <2>1, StopFrame DEF switch, notifier
  <2>5. QED  BY <2>1, <2>2, <2>3, <2>4, QuietInv DEF poll, telegram
<1>2. ASSUME Tick \/ TickEnds \/ HandlerEnds \/ Record \/ RecordFails \/ Wait
      PROVE  IInv'
  <2>1. /\ pc \in {"tick", "next", "handler", "record", "wait"}
        /\ pc' \in {"next", "wait", "record", "stopping", "observe"}
        /\ exit' \in {exit, "safe_stop"}
        /\ UNCHANGED <<starts, stopRequested, started, switch, notifier, poll, telegram>>
    BY <1>2 DEF Tick, TickEnds, HandlerEnds, Record, RecordFails, Wait, life
  <2>2. ProcessTypes'
    BY <2>1 DEF IInv, TypeOK, ProcessTypes, switch, notifier, Exits
  <2>3. ScheduleTypes'
    <3>1. CASE Tick  BY <3>1 DEF Tick, Ready, IInv, TypeOK, ScheduleTypes
    <3>2. CASE Record  BY <3>2 DEF Record, IInv, TypeOK, ScheduleTypes
    <3>3. CASE UNCHANGED schedule
      BY <3>3 DEF IInv, TypeOK, ScheduleTypes, schedule
    <3>4. QED
      BY <1>2, <3>1, <3>2, <3>3 DEF TickEnds, HandlerEnds, RecordFails, Wait
  <2>4. StopInv'  BY <2>1, StopFrame DEF switch, notifier
  <2>5. QED  BY <2>1, <2>2, <2>3, <2>4, QuietInv DEF poll, telegram
<1>3. QED  BY <1>1, <1>2

\* Time and signals leave the process where it stands.
LEMMA OutsideStep ==
    ASSUME IInv, Signal \/ \E t \in Tasks : TimePasses(t)
    PROVE  IInv'
<1> USE DEF Starting, InLoop, Ending
<1>1. /\ UNCHANGED <<pc, exit, starts, started, switch, notifier, poll, telegram>>
      /\ stopRequested' \in {stopRequested, TRUE}
      /\ UNCHANGED <<left, current>>
  BY DEF Signal, TimePasses, life, schedule
<1>2. planned' \in [Tasks -> {"later", "due"}]
  BY DEF Signal, TimePasses, schedule, IInv, TypeOK
<1>3. ProcessTypes'
  BY <1>1 DEF IInv, TypeOK, ProcessTypes, switch, notifier
<1>4. ScheduleTypes'  BY <1>1, <1>2 DEF IInv, TypeOK, ScheduleTypes
<1>5. CommandTypes'  BY <1>1 DEF IInv, TypeOK, CommandTypes, poll, telegram
<1>6. StopInv'  BY <1>1, StopFrame DEF switch, notifier
<1>7. \A u \in Updates : CommandInv(u)'
  BY <1>1, CommandsFrame DEF poll, telegram
<1>8. BatchInv' /\ DownInv'
  BY <1>1 DEF IInv, BatchInv, DownInv, poll, telegram
<1>9. TypeOK'
  BY <1>3, <1>4, <1>5 DEF TypeOK, ProcessTypes, ScheduleTypes, CommandTypes
<1>10. QED  BY <1>6, <1>7, <1>8, <1>9 DEF IInv
-------------------------------------------------------------------------------
(* The commands                                                              *)

LEMMA LengthType ==
    ASSUME TypeOK
    PROVE  /\ Len(inbox) \in Nat /\ Len(inbox) <= MaxCommands
           /\ offset \in Nat /\ cursor \in Nat /\ last \in Nat
           /\ \A i \in 1..Len(inbox) : i \in Updates /\ inbox[i] \in Kinds
<1>1. inbox \in Seq(Kinds) /\ Len(inbox) <= MaxCommands  BY DEF TypeOK
<1>2. Len(inbox) \in Nat  BY <1>1, LenProperties
<1>3. \A i \in 1..Len(inbox) : inbox[i] \in Kinds  BY <1>1, ElementOfSeq
<1>4. \A i \in 1..Len(inbox) : i \in Updates
  <2>1. MaxCommands \in Nat  BY SetTypes
  <2>2. QED  BY <1>1, <1>2, <2>1 DEF Updates
<1>5. last \in Nat /\ offset \in Nat  BY <1>2 DEF TypeOK
<1>6. cursor \in Nat  BY <1>5 DEF TypeOK
<1>7. QED  BY <1>1, <1>2, <1>3, <1>4, <1>5, <1>6

\* A new update is beyond everything handled and acknowledged.
LEMMA SendStep ==
    ASSUME IInv, NEW kind \in Kinds, Send(kind)
    PROVE  IInv'
<1>1. TypeOK  BY DEF IInv
<1>2. /\ UNCHANGED <<pc, life, switch, notifier, schedule, poll, offset, carried, reruns>>
      /\ Len(inbox) < MaxCommands /\ inbox' = Append(inbox, kind)
  BY DEF Send
<1>3. inbox' \in Seq(Kinds) /\ Len(inbox') = Len(inbox) + 1
  BY <1>1, <1>2, AppendProperties DEF TypeOK
<1>4. CommandTypes'
  BY <1>1, <1>2, <1>3, LengthType, SetTypes DEF TypeOK, CommandTypes, poll
<1>5. ProcessTypes'
  BY <1>1, <1>2 DEF TypeOK, ProcessTypes, life, switch, notifier
<1>6. ScheduleTypes'  BY <1>1, <1>2 DEF TypeOK, ScheduleTypes, schedule
<1>7. TypeOK'
  BY <1>4, <1>5, <1>6 DEF TypeOK, ProcessTypes, ScheduleTypes, CommandTypes
<1>8. StopInv'  BY <1>2, StopFrame DEF switch, notifier
<1>9. \A u \in Updates : CommandInv(u)'  BY <1>2, CommandsFrame DEF poll
<1>10. BatchInv' /\ DownInv'  BY <1>2 DEF IInv, BatchInv, DownInv, poll
<1>11. QED  BY <1>7, <1>8, <1>9, <1>10 DEF IInv

\* A step of the poll that neither handles nor acknowledges an update.
LEMMA PollStep ==
    ASSUME IInv, Fetch \/ FetchFails \/ StoreFails
    PROVE  IInv'
<1> USE DEF Starting, InLoop, Ending
<1>1. TypeOK  BY DEF IInv
<1>2. /\ pc \in {"poll", "batch"} /\ pc' \in {"batch", "record"}
      /\ UNCHANGED <<life, switch, notifier, schedule, handled, telegram>>
  BY DEF Fetch, FetchFails, StoreFails, poll
<1>3. ProcessTypes'
  BY <1>1, <1>2 DEF TypeOK, ProcessTypes, life, switch, notifier
<1>4. ScheduleTypes'  BY <1>1, <1>2 DEF TypeOK, ScheduleTypes, schedule
<1>5. StopInv'  BY <1>2, StopFrame DEF switch, notifier
<1>6. \A u \in Updates : CommandInv(u)'
  BY <1>2, CommandsFrame DEF telegram
<1>7. DownInv'  BY <1>2 DEF DownInv
<1>8. CASE Fetch
  <2>1. cursor' = offset /\ last' = LastOfBatch  BY <1>8 DEF Fetch
  <2>2. last' \in 0..Len(inbox) /\ cursor' \in 1..last' + 1
    BY <1>1, <2>1, LengthType, SetTypes DEF LastOfBatch, TypeOK
  <2>3. CommandTypes'  BY <1>1, <1>2, <2>2 DEF TypeOK, CommandTypes, telegram
  <2>4. BatchInv'
    BY <1>1, <1>2, <2>1, LengthType, SetTypes DEF BatchInv, telegram, Updates
  <2>5. QED
    BY <1>3, <1>4, <1>5, <1>6, <1>7, <2>3, <2>4
    DEF IInv, TypeOK, ProcessTypes, ScheduleTypes, CommandTypes
<1>9. CASE FetchFails \/ StoreFails
  <2>1. pc' = "record" /\ UNCHANGED poll  BY <1>9 DEF FetchFails, StoreFails
  <2>2. CommandTypes'  BY <1>1, <1>2, <2>1 DEF TypeOK, CommandTypes, telegram, poll
  <2>3. BatchInv'  BY <2>1 DEF BatchInv
  <2>4. QED
    BY <1>3, <1>4, <1>5, <1>6, <1>7, <2>2, <2>3
    DEF IInv, TypeOK, ProcessTypes, ScheduleTypes, CommandTypes
<1>10. QED  BY <1>8, <1>9
\* A known update is passed over, another is handled and may change the switch.
LEMMA HandleStep == ASSUME IInv, Handle PROVE IInv'
<1> USE DEF Starting, InLoop, Ending
<1>1. TypeOK  BY DEF IInv
<1>2. /\ pc = "batch" /\ pc' \in {"batch", "record"} /\ cursor <= last
      /\ cursor' = cursor + 1
      /\ UNCHANGED <<life, watched, reported, schedule, last, inbox, offset, reruns>>
  BY DEF Handle
<1>3. cursor \in 1..Len(inbox) /\ cursor \in Updates
  <2>1. cursor \in 1..Len(inbox)  BY <1>1, <1>2, LengthType DEF TypeOK
  <2>2. QED  BY <1>1, <2>1, LengthType
<1>4. cursor' \in 1..last' + 1
  BY <1>1, <1>2, LengthType DEF TypeOK
<1>5. ScheduleTypes'  BY <1>1, <1>2 DEF TypeOK, ScheduleTypes, schedule
<1>6. CASE cursor \in handled
  <2>1. UNCHANGED <<pc, handled, carried, switch, told>>
    BY <1>6 DEF Handle, Known
  <2>2. ProcessTypes'
    BY <1>1, <1>2, <2>1 DEF TypeOK, ProcessTypes, life, switch
  <2>3. CommandTypes'  BY <1>1, <1>2, <1>4, <2>1 DEF TypeOK, CommandTypes
  <2>4. StopInv'  BY <1>2, <2>1, StopFrame DEF switch
  <2>5. \A u \in Updates : CommandInv(u)'  BY <1>2, <2>1, CommandsFrame
  <2>6. BatchInv'
    BY <1>1, <1>2, <1>6, <2>1, LengthType DEF IInv, BatchInv, Updates
  <2>7. DownInv'  BY <1>2 DEF DownInv
  <2>8. QED
    BY <1>5, <2>2, <2>3, <2>4, <2>5, <2>6, <2>7
    DEF IInv, TypeOK, ProcessTypes, ScheduleTypes, CommandTypes
<1>7. CASE cursor \notin handled
  <2>1. /\ handled' = handled \cup {cursor}
        /\ carried' = [carried EXCEPT ![cursor] = @ + 1]
        /\ CarryOut(inbox[cursor])
    BY <1>7 DEF Handle, Known
  <2>2. paused' \in BOOLEAN /\ restart' \in BOOLEAN
    BY <1>1, <2>1, Zenon DEF CarryOut, TypeOK
  <2>3. told' \in {0, told}  BY <2>1 DEF CarryOut
  <2>4. ProcessTypes'
    BY <1>1, <1>2, <2>2, <2>3 DEF TypeOK, ProcessTypes, life
  <2>5. CommandTypes'
    BY <1>1, <1>2, <1>3, <1>4, <2>1 DEF TypeOK, CommandTypes
  <2>6. StopInv'
    <3>1. CASE told' = 0  BY <3>1 DEF StopInv, StopsToldOnce
    <3>2. CASE told' # 0
      <4>1. told' = told /\ reported' = reported  BY <1>2, <2>3, <3>2
      <4>2. told <= 1 /\ (told = 1 => reported /\ ~IsRunning)
        BY <1>2 DEF IInv, StopInv, StopsToldOnce
      <4>3. told = 1 => ~IsRunning'
        <5>1. SUFFICES ASSUME told = 1 PROVE paused' \/ restart'
          BY DEF IsRunning
        <5>2. paused \/ restart  BY <4>2, <5>1 DEF IsRunning
        <5>3. CASE restart  BY <2>1, <5>3 DEF CarryOut
        <5>4. CASE paused /\ ~restart /\ inbox[cursor] = "start"
          BY <2>1, <3>2, <5>4 DEF CarryOut
        <5>5. CASE paused /\ inbox[cursor] # "start"
          BY <2>1, <5>5 DEF CarryOut
        <5>6. QED  BY <5>2, <5>3, <5>4, <5>5
      <4>4. QED  BY <4>1, <4>2, <4>3 DEF StopInv, StopsToldOnce
    <3>3. QED  BY <3>1, <3>2
  <2>7. ASSUME NEW u \in Updates PROVE CommandInv(u)'
    <3>1. carried[u] \in Nat /\ reruns[u] \in Nat  BY <1>1 DEF TypeOK
    <3>2. carried'[u] = IF u = cursor THEN carried[u] + 1 ELSE carried[u]
      BY <1>1, <2>1 DEF TypeOK
    <3>3. CommandInv(u)  BY DEF IInv
    <3>4. CASE u # cursor
      BY <1>2, <2>1, <3>2, <3>3, <3>4 DEF CommandInv
    <3>5. CASE u = cursor
      <4>1. u >= offset
        BY <1>1, <1>2, <3>5, LengthType DEF IInv, BatchInv
      <4>2. carried[u] <= reruns[u]
        BY <1>7, <3>3, <3>5, <4>1 DEF CommandInv
      <4>3. carried'[u] > 0 /\ carried'[u] <= 1 + reruns'[u]
        BY <1>2, <3>1, <3>2, <3>5, <4>2
      <4>4. QED  BY <2>1, <3>5, <4>3 DEF CommandInv
    <3>6. QED  BY <3>4, <3>5
  <2>8. BatchInv'
    BY <1>1, <1>2, <2>1, LengthType DEF IInv, BatchInv, Updates
  <2>9. DownInv'  BY <1>2 DEF DownInv
  <2>10. QED
    BY <1>5, <2>4, <2>5, <2>6, <2>7, <2>8, <2>9
    DEF IInv, TypeOK, ProcessTypes, ScheduleTypes, CommandTypes
<1>8. QED  BY <1>6, <1>7

\* The acknowledgement of a batch covers only what was handled.
LEMMA StoreStep == ASSUME IInv, StoreOffset PROVE IInv'
<1> USE DEF Starting, InLoop, Ending
<1>1. TypeOK  BY DEF IInv
<1>2. /\ pc = "batch" /\ pc' = "record" /\ cursor > last /\ offset' = last + 1
      /\ UNCHANGED <<life, switch, notifier, schedule, poll, inbox, carried, reruns>>
  BY DEF StoreOffset
<1>3. ProcessTypes'
  BY <1>1, <1>2 DEF TypeOK, ProcessTypes, life, switch, notifier
<1>4. ScheduleTypes'  BY <1>1, <1>2 DEF TypeOK, ScheduleTypes, schedule
<1>5. offset' \in 1..Len(inbox') + 1  BY <1>1, <1>2, LengthType DEF TypeOK
<1>6. CommandTypes'  BY <1>1, <1>2, <1>5 DEF TypeOK, CommandTypes, poll
<1>7. StopInv'  BY <1>2, StopFrame DEF switch, notifier
<1>8. cursor = last + 1  BY <1>1, <1>2, LengthType DEF TypeOK
<1>9. ASSUME NEW u \in Updates PROVE CommandInv(u)'
  <2>1. u \in Nat  BY SetTypes DEF Updates
  <2>2. CommandInv(u) /\ (offset <= u /\ u < cursor => u \in handled)
    BY <1>2 DEF IInv, BatchInv
  <2>3. u < offset' => u < offset \/ u \in handled
    BY <1>1, <1>2, <1>8, <2>1, <2>2, LengthType
  <2>4. u >= offset' => u >= offset
    BY <1>1, <1>2, <1>8, <2>1, LengthType DEF IInv, BatchInv
  <2>5. QED  BY <1>2, <2>2, <2>3, <2>4 DEF CommandInv, poll
<1>10. BatchInv' /\ DownInv'  BY <1>2 DEF BatchInv, DownInv
<1>11. QED
  BY <1>3, <1>4, <1>6, <1>7, <1>9, <1>10
  DEF IInv, TypeOK, ProcessTypes, ScheduleTypes, CommandTypes

-------------------------------------------------------------------------------
LEMMA StutterStep == ASSUME IInv, UNCHANGED vars PROVE IInv'
<1>1. UNCHANGED <<pc, exit, starts, stopRequested, started, watched, reported, told,
                  paused, restart, planned, left, current, inbox, offset, cursor, last,
                  handled, carried, reruns>>
  BY DEF vars, life, switch, notifier, schedule, poll, telegram
<1>2. TypeOK'  BY <1>1 DEF IInv, TypeOK
<1>3. QED
  BY <1>1, <1>2
  DEF IInv, DownInv, CommandInv, BatchInv, StopInv, StopsToldOnce, IsRunning

\* The invariant holds in every state: one lemma for each kind of step.
THEOREM Invariance == Spec => []IInv
<1>1. Init => IInv  BY InitInv
<1>2. IInv /\ [Next]_vars => IInv'
  <2> SUFFICES ASSUME IInv, [Next]_vars PROVE IInv'  OBVIOUS
  <2>1. CASE Boot \/ Initialise \/ MarkRunning \/ Greet \/ StartupFails
             \/ Kill \/ Shutdown \/ MarkStopped \/ MarkFails \/ Close
    BY <2>1, ProcessStep
  <2>2. CASE Observe  BY <2>2, ObserveStep
  <2>3. CASE \/ Tick \/ TickEnds \/ HandlerEnds \/ Record \/ RecordFails \/ Wait
             \/ \E t \in Tasks : RunNext(t)
    BY <2>3, LoopStep
  <2>4. CASE Signal \/ \E t \in Tasks : TimePasses(t)  BY <2>4, OutsideStep
  <2>5. CASE \E kind \in Kinds : Send(kind)  BY <2>5, SendStep
  <2>6. CASE Fetch \/ FetchFails \/ StoreFails  BY <2>6, PollStep
  <2>7. CASE Handle  BY <2>7, HandleStep
  <2>8. CASE StoreOffset  BY <2>8, StoreStep
  <2>9. CASE UNCHANGED vars  BY <2>9, StutterStep
  <2>10. QED
    BY <2>1, <2>2, <2>3, <2>4, <2>5, <2>6, <2>7, <2>8, <2>9 DEF Next, Step
<1>3. QED  BY <1>1, <1>2, PTL DEF Spec

\* Every variable has its type, and the places in a batch stay within the queue.
THEOREM TypeCorrect == Spec => []TypeOK
<1>1. IInv => TypeOK  BY DEF IInv
<1>2. QED  BY <1>1, Invariance, PTL

\* CommandService: an acknowledged command was carried out, and it is carried
\* out again only when the process that had done so ended before the offset
\* was stored.
THEOREM CommandsAreCarriedOut == Spec => []CommandsOnce
<1>1. IInv => CommandsOnce  BY DEF IInv, CommandInv, CommandsOnce
<1>2. QED  BY <1>1, Invariance, PTL

\* SystemNotifier: one message for a stop, whichever of the loop and the
\* shutdown notices it first.
THEOREM StopsAreToldOnce == Spec => []StopsToldOnce
<1>1. IInv => StopsToldOnce  BY DEF IInv, StopInv
<1>2. QED  BY <1>1, Invariance, PTL
===============================================================================
