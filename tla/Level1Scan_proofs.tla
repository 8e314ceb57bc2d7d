-------------------------- MODULE Level1Scan_proofs --------------------------
(***************************************************************************)
(* One opportunity for a combination in a window, no stored group refused, *)
(* and a row that says what happened, for every set of tokens, providers   *)
(* and pairs and for every limit.                                          *)
(*                                                                         *)
(* None of these is inductive: that the worker takes every stored group    *)
(* rests on the groups in hand being distinct and on the room that was     *)
(* read (HandInv), and a COMPLETE row on the requests that are open in each*)
(* place of a scan (OpenInv, CountInv).                                    *)
(***************************************************************************)
EXTENDS Level1Scan, FiniteSetTheorems, TLAPS

Open == waiting \cup running
Unbroken == \A t \in Tokens : stage[t] # "failed"

\* Between two scans nothing is left of the last one but its row.
RestInv ==
    pc \in {"idle", "create", "down"} =>
        Open = {} /\ candidates = {} /\ created = {} /\ stats = NoStats

\* While the cycles run nothing has been created, and a cycle that asks for
\* SELL quotes has a best BUY.
CycleInv ==
    /\ pc \in {"create", "collect"} => created = {} /\ ~timedOut
    /\ pc = "collect" =>
        \A t \in Tokens : stage[t] \in {"sell", "evaluate"} => best[t] \in Providers

\* Open requests belong to a round, or to a cycle that broke off.
OpenInv ==
    /\ waiting \cap running = {}
    /\ \A r \in Open : \/ stage[r.token] = "failed"
                       \/ pc = "collect" /\ stage[r.token] \in {"buy", "sell"}

\* No request is counted twice, and none is lost without a cycle broken off.
CountInv ==
    /\ stats.successful + stats.failed + Cardinality(Open) <= stats.requests
    /\ pc \in {"collect", "lookup", "store", "finish"} /\ ~timedOut /\ Unbroken =>
           stats.successful + stats.failed + Cardinality(Open) = stats.requests

\* The groups are distinct, and the worker has room for those still allowed.
HandInv ==
    pc \in {"lookup", "store"} =>
        /\ group \in Fingerprints /\ group \notin created \cup candidates
        /\ created \cap candidates = {}
        /\ Cardinality(created) < capacity
        /\ worker + capacity <= QueueCapacity + Cardinality(created)

\* What is stored is what was created until the scan is cancelled.
StoredInv ==
    /\ Cardinality(stored) <= MaxPerScan
    /\ pc \in {"create", "collect", "lookup", "store", "finish"} => stored = created

WindowInv ==
    /\ \A f \in Fingerprints : recent[f] <= 1
    /\ pc = "store" => recent[group] = 0

RowInv ==
    /\ RowsTellTheTruth
    /\ row.status \in {"COMPLETE", "PARTIAL", "FAILED"} => pc \in {"cancelled", "idle", "down"}

IInv ==
    /\ TypeOK /\ RestInv /\ CycleInv /\ OpenInv /\ CountInv
    /\ HandInv /\ StoredInv /\ WindowInv /\ RowInv

------------------------------------------------------------------------------
(* Finite sets, and what the operators of the scan give.                      *)

LEMMA ConstantTypes ==
    /\ FailureThreshold \in Nat /\ FailureThreshold > 0
    /\ MaxPerScan \in Nat /\ QueueCapacity \in Nat /\ QueueCapacity > 0 /\ MaxFaults \in Nat
    /\ Offered \subseteq Requests /\ Pairs \subseteq Providers \X Providers
    /\ None \notin Providers /\ None \notin Fingerprints
BY Level1Assumption

LEMMA PartOf ==
    ASSUME NEW S, IsFiniteSet(S), NEW T \in SUBSET S
    PROVE  IsFiniteSet(T) /\ Cardinality(T) \in Nat
BY FS_Subset, FS_CardinalityType

LEMMA Counted ==
    ASSUME TypeOK
    PROVE  /\ IsFiniteSet(Open) /\ Cardinality(Open) \in Nat
           /\ IsFiniteSet(created) /\ Cardinality(created) \in Nat
           /\ IsFiniteSet(stored) /\ Cardinality(stored) \in Nat
<1>1. Open \in SUBSET Requests
  BY ConstantTypes DEF TypeOK, Open
<1>2. created \in SUBSET Fingerprints /\ stored \in SUBSET Fingerprints
  BY DEF TypeOK
<1>3. IsFiniteSet(Requests) /\ IsFiniteSet(Fingerprints)
  BY Level1Assumption
<1>4. QED BY <1>1, <1>2, <1>3, PartOf

\* A round asks for requests of one token; the filter lets some of them pass.
LEMMA RoundsAsk ==
    ASSUME NEW t \in Tokens, NEW operation \in {"BUY", "SELL"}, NEW S \in SUBSET Providers
    PROVE  /\ Round(t, operation, S) \subseteq Requests
           /\ \A r \in Round(t, operation, S) : r.token = t
BY DEF Round, Requests

LEMMA FilterLetsPass ==
    ASSUME TypeOK, NEW S \in SUBSET Requests
    PROVE  /\ Allowed(S) \subseteq S /\ Allowed(S) \subseteq Offered
           /\ IsFiniteSet(Allowed(S)) /\ Cardinality(Allowed(S)) \in Nat
           /\ Rechecked(S) \in [Requests -> 0 .. Elapsed]
<1>1. Allowed(S) \subseteq S /\ Allowed(S) \subseteq Offered
  BY DEF Allowed
<1>2. IsFiniteSet(Requests)
  BY Level1Assumption
<1>3. Rechecked(S) \in [Requests -> 0 .. Elapsed]
  BY ConstantTypes DEF Rechecked, TypeOK, Elapsed
<1>4. QED BY <1>1, <1>2, <1>3, PartOf

LEMMA PartnersAreProviders ==
    Buyers \subseteq Providers /\ \A p : Sellers(p) \subseteq Providers
BY DEF Buyers, Sellers

LEMMA MemoryKeepsType ==
    ASSUME TypeOK, NEW r \in Requests
    PROVE  /\ Forgotten(noRoute, r) \in [Requests -> 0 .. Elapsed]
           /\ Remembered(noRoute, r) \in [Requests -> 0 .. Elapsed]
BY ConstantTypes DEF TypeOK, Forgotten, Remembered, Elapsed

\* The group taken up is one of those left, and no longer among them.
LEMMA TakesOneGroup ==
    ASSUME NEW left, NEW room, NextGroup(left, room)
    PROVE  /\ candidates' \subseteq left
           /\ \/ pc' = "finish" /\ group' = None
              \/ /\ pc' = "lookup" /\ group' \in left /\ group' \notin candidates'
                 /\ Cardinality(created') < room
BY DEF NextGroup

LEMMA EmptyRecords ==
    /\ NoStats \in Counters
    /\ NoRow \in [status : RowStatuses, stats : Counters, created : Nat]
    /\ [NoRow EXCEPT !.status = "RUNNING"] \in [status : RowStatuses, stats : Counters, created : Nat]
<1>1. NoStats \in Counters
  BY DEF NoStats, Counters
<1>2. QED BY <1>1 DEF NoRow, RowStatuses

LEMMA RoomIsBounded ==
    ASSUME TypeOK
    PROVE  Room \in 0 .. MaxPerScan /\ worker + Room <= QueueCapacity
BY ConstantTypes DEF TypeOK, Room

LEMMA InsertedKeepsType ==
    ASSUME TypeOK, group \in Fingerprints, Inserted
    PROVE  recent' \in [Fingerprints -> Nat] /\ stored' \subseteq Fingerprints
BY DEF TypeOK, Inserted

LEMMA ClosedKeepsType ==
    ASSUME TypeOK, NEW status \in RowStatuses, NEW n \in Nat
    PROVE  Closed(status, n) \in [status : RowStatuses, stats : Counters, created : Nat]
BY DEF TypeOK, Closed

LEMMA FinalStatuses == FinalStatus \in {"COMPLETE", "PARTIAL", "FAILED"}
BY DEF FinalStatus

LEMMA FormedAreFingerprints ==
    ASSUME TypeOK, NEW t \in Tokens, best[t] \in Providers
    PROVE  Formed(t) \subseteq Fingerprints
<1> SUFFICES ASSUME NEW r \in usable
             PROVE  [token |-> t, buy |-> best[t], sell |-> r.provider] \in Fingerprints
    BY DEF Formed
<1>1. r \in Requests
  BY ConstantTypes DEF TypeOK
<1>2. QED BY <1>1 DEF Requests, Fingerprints

------------------------------------------------------------------------------
(* Types.                                                                     *)

LEMMA InitInv == Init => IInv
<1> SUFFICES ASSUME Init PROVE IInv
    OBVIOUS
<1> USE DEF Init
<1>1. TypeOK
  <2>1. stats \in Counters /\ row \in [status : RowStatuses, stats : Counters, created : Nat]
    BY EmptyRecords
  <2>2. /\ noRoute \in [Requests -> 0 .. Elapsed] /\ capacity \in 0 .. MaxPerScan
        /\ worker \in 0 .. QueueCapacity /\ faults \in 0 .. MaxFaults
    BY ConstantTypes DEF Elapsed
  <2>3. QED BY <2>1, <2>2 DEF TypeOK, Places, Stages
<1>2. Open = {} /\ Cardinality(Open) = 0 /\ Cardinality(stored) = 0
  BY FS_EmptySet DEF Open
<1>3. RestInv /\ CycleInv /\ OpenInv /\ HandInv
  BY <1>2 DEF RestInv, CycleInv, OpenInv, HandInv
<1>4. CountInv
  BY <1>2 DEF CountInv, NoStats
<1>5. StoredInv /\ WindowInv /\ RowInv
  BY <1>2, ConstantTypes DEF StoredInv, WindowInv, RowInv, RowsTellTheTruth, NoRow
<1>6. QED BY <1>1, <1>3, <1>4, <1>5 DEF IInv

LEMMA NextType == IInv /\ [Next]_vars => TypeOK'
<1> SUFFICES ASSUME IInv, [Next]_vars PROVE TypeOK'
    OBVIOUS
<1>0. TypeOK /\ CycleInv /\ HandInv
  BY DEF IInv
<1> USE <1>0, ConstantTypes DEF TypeOK, Places, Stages
\* What a request answers.
<1>1. ASSUME NEW r \in Requests, Send(r) PROVE TypeOK'
  BY <1>1 DEF Send
<1>2. ASSUME NEW r \in Requests, Answers(r) \/ AnswerRaised(r) PROVE TypeOK'
  <2>1. r.token \in Tokens /\ r \in Offered
    BY <1>2 DEF Answers, AnswerUsable, AnswerFailed, AnswerNoRoute, AnswerRaised, Returned, Requests
  <2>2. CASE AnswerUsable(r)
    BY <2>1, <2>2, MemoryKeepsType DEF AnswerUsable, Returned, Counters
  <2>3. CASE AnswerFailed(r)
    BY <2>3 DEF AnswerFailed, Returned, Counters
  <2>4. CASE AnswerNoRoute(r)
    BY <2>4, MemoryKeepsType DEF AnswerNoRoute, Returned, Counters
  <2>5. CASE AnswerRaised(r)
    BY <2>1, <2>5 DEF AnswerRaised, Returned, CycleEnds
  <2>6. QED BY <1>2, <2>2, <2>3, <2>4, <2>5 DEF Answers
<1>3. ASSUME NEW r \in Requests, OrphanEnds(r) \/ PauseEnds(r) PROVE TypeOK'
  <2>1. CASE OrphanEnds(r)
    BY <2>1, MemoryKeepsType DEF OrphanEnds
  <2>2. CASE PauseEnds(r)
    <3>1. noRoute' \in [Requests -> 0 .. Elapsed]
      BY <2>2 DEF PauseEnds, Elapsed
    <3>2. QED BY <2>2, <3>1 DEF PauseEnds
  <2>3. QED BY <1>3, <2>1, <2>2
\* The cycles.
<1>4. ASSUME Collect PROVE TypeOK'
  <2> DEFINE all == UNION {Round(t, "BUY", Buyers) : t \in Tokens}
  <2>1. all \in SUBSET Requests
    BY RoundsAsk, PartnersAreProviders
  <2>2. /\ Allowed(all) \subseteq Offered /\ Cardinality(Allowed(all)) \in Nat
        /\ Rechecked(all) \in [Requests -> 0 .. Elapsed]
    BY <2>1, FilterLetsPass
  <2>3. row' \in [status : RowStatuses, stats : Counters, created : Nat]
    BY <1>4, EmptyRecords DEF Collect
  <2>4. QED BY <1>4, <2>2, <2>3 DEF Collect, Counters
<1>5. ASSUME NEW t \in Tokens, BuyRoundEnds(t) PROVE TypeOK'
  <2>1. CASE UNCHANGED <<best, waiting, noRoute, stats>> /\ stage' = [stage EXCEPT ![t] = "done"]
    BY <1>5, <2>1 DEF BuyRoundEnds
  <2>2. CASE stage' # [stage EXCEPT ![t] = "done"] \/ ~UNCHANGED <<best, waiting, noRoute, stats>>
    <3>1. PICK r \in usable :
             LET sells == Round(t, "SELL", Sellers(r.provider))
             IN  /\ best' = [best EXCEPT ![t] = r.provider]
                 /\ waiting' = waiting \cup Allowed(sells)
                 /\ noRoute' = Rechecked(sells)
                 /\ stats' = [stats EXCEPT !.requests = @ + Cardinality(Allowed(sells))]
                 /\ stage' = [stage EXCEPT ![t] = "sell"]
      BY <1>5, <2>2 DEF BuyRoundEnds
    <3> DEFINE sells == Round(t, "SELL", Sellers(r.provider))
    <3>2. r.provider \in Providers
      BY DEF Requests
    <3>3. sells \in SUBSET Requests
      BY RoundsAsk, PartnersAreProviders
    <3>4. /\ Allowed(sells) \subseteq Offered /\ Cardinality(Allowed(sells)) \in Nat
          /\ Rechecked(sells) \in [Requests -> 0 .. Elapsed]
      BY <3>3, FilterLetsPass
    <3> HIDE DEF sells
    <3>5. stats' \in Counters
      BY <3>1, <3>4 DEF Counters, sells
    <3>6. waiting' \subseteq Offered /\ noRoute' \in [Requests -> 0 .. Elapsed]
      BY <3>1, <3>4 DEF sells
    <3>7. QED BY <1>5, <3>1, <3>2, <3>5, <3>6 DEF BuyRoundEnds
  <2>3. QED BY <2>1, <2>2
<1>6. ASSUME NEW t \in Tokens, SellRoundEnds(t) \/ EvaluateFails(t) PROVE TypeOK'
  BY <1>6 DEF SellRoundEnds, EvaluateFails, CycleEnds
<1>7. ASSUME NEW t \in Tokens, Evaluate(t) PROVE TypeOK'
  <2>1. Formed(t) \subseteq Fingerprints
    BY <1>7, FormedAreFingerprints DEF Evaluate, CycleInv
  <2>2. QED BY <1>7, <2>1 DEF Evaluate, CycleEnds
<1>8. ASSUME Timeout PROVE TypeOK'
  BY <1>8, RoomIsBounded DEF Timeout, CyclesCancelled
\* The groups.
<1>9. ASSUME Collected PROVE TypeOK'
  BY <1>9, RoomIsBounded, TakesOneGroup DEF Collected
<1>10. ASSUME Lookup \/ StoreFails PROVE TypeOK'
  BY <1>10, TakesOneGroup DEF Lookup, StoreFails
<1>11. ASSUME Store PROVE TypeOK'
  <2>1. recent' \in [Fingerprints -> Nat] /\ stored' \subseteq Fingerprints
    BY <1>11, InsertedKeepsType DEF Store, HandInv
  <2>2. created' \subseteq Fingerprints /\ worker' \in 0 .. QueueCapacity
    BY <1>11 DEF Store, HandInv
  <2>3. QED BY <1>11, <2>1, <2>2, TakesOneGroup DEF Store
\* The end of a scan, and what goes on beside it.
<1>12. ASSUME Finish \/ FinishCancelled \/ Abandon PROVE TypeOK'
  <2>1. row' \in [status : RowStatuses, stats : Counters, created : Nat]
    <3>1. Closed(FinalStatus, Cardinality(created)) \in [status : RowStatuses, stats : Counters, created : Nat]
      BY ClosedKeepsType, FinalStatuses, Counted DEF RowStatuses
    <3>2. Closed("CANCELLED", 0) \in [status : RowStatuses, stats : Counters, created : Nat]
      BY ClosedKeepsType DEF RowStatuses
    <3>3. QED BY <1>12, <3>1, <3>2 DEF Finish, FinishCancelled, Abandon
  <2>2. Ends /\ stored' = stored /\ recent' = recent /\ faults' \in 0 .. MaxFaults
    BY <1>12 DEF Finish, FinishCancelled, Abandon
  <2>3. stats' \in Counters
    BY <2>2 DEF Ends, NoStats, Counters
  <2>4. QED BY <2>1, <2>2, <2>3 DEF Ends
<1>13. ASSUME Cancel PROVE TypeOK'
  <2>1. row' \in [status : RowStatuses, stats : Counters, created : Nat]
    <3>1. [NoRow EXCEPT !.status = "RUNNING"] \in [status : RowStatuses, stats : Counters, created : Nat]
      BY EmptyRecords
    <3>2. Closed(FinalStatus, Cardinality(created)) \in [status : RowStatuses, stats : Counters, created : Nat]
      BY ClosedKeepsType, FinalStatuses, Counted DEF RowStatuses
    <3>3. QED BY <1>13, <3>1, <3>2 DEF Cancel
  <2>2. recent' \in [Fingerprints -> Nat] /\ stored' \subseteq Fingerprints
    BY <1>13, InsertedKeepsType DEF Cancel, HandInv
  <2>3. QED BY <1>13, <2>1, <2>2 DEF Cancel, CyclesCancelled
<1>14. ASSUME Stop PROVE TypeOK'
  <2>1. recent' \in [Fingerprints -> Nat] /\ stored' \subseteq Fingerprints
    BY <1>14, InsertedKeepsType DEF Stop, HandInv
  <2>2. QED BY <1>14, <2>1 DEF Stop, NoStats, Counters, Elapsed
<1>15. ASSUME Start \/ Restart PROVE TypeOK'
  BY <1>15, EmptyRecords DEF Start, Restart
<1>16. ASSUME JobEnds \/ \E f \in Fingerprints : WindowPasses(f) PROVE TypeOK'
  BY <1>16 DEF JobEnds, WindowPasses
<1>17. ASSUME UNCHANGED vars PROVE TypeOK'
  BY <1>17 DEF vars
<1>18. QED
  BY <1>1, <1>2, <1>3, <1>4, <1>5, <1>6, <1>7, <1>8, <1>9, <1>10, <1>11, <1>12, <1>13,
     <1>14, <1>15, <1>16, <1>17 DEF Next, ScanStep

------------------------------------------------------------------------------
(* The requests and the cycles.                                               *)

\* The steps that touch neither requests nor cycles.
Beside ==
    \/ JobEnds \/ \E f \in Fingerprints : WindowPasses(f)
    \/ \E r \in Requests : OrphanEnds(r) \/ PauseEnds(r)
    \/ UNCHANGED vars

\* The steps of the groups, once the cycles have ended.
Handing == Collected \/ Timeout \/ Lookup \/ Store \/ StoreFails

\* The steps after which no request is left.
Ending == Finish \/ FinishCancelled \/ Abandon \/ Stop

\* The steps that a cycle takes between its rounds.
Cycling(t) == SellRoundEnds(t) \/ Evaluate(t) \/ EvaluateFails(t)

LEMMA NextCases ==
    ASSUME [Next]_vars
    PROVE  \/ Beside \/ Handing \/ Ending \/ Cancel \/ Start \/ Collect \/ Restart
           \/ \E r \in Requests : Send(r) \/ Answers(r) \/ AnswerRaised(r)
           \/ \E t \in Tokens : BuyRoundEnds(t) \/ Cycling(t)
BY DEF Next, ScanStep, Beside, Handing, Ending, Cycling

LEMMA BesideChangesNothing ==
    ASSUME Beside
    PROVE  /\ UNCHANGED <<pc, stage, best, waiting, running, usable, stats, candidates, group,
                          created, stored, capacity, timedOut, row>>
           /\ \/ worker' = worker
              \/ worker > 0 /\ worker' = worker - 1
           /\ \/ recent' = recent
              \/ \E f \in Fingerprints : recent[f] > 0 /\ recent' = [recent EXCEPT ![f] = @ - 1]
<1>1. CASE JobEnds
  BY <1>1 DEF JobEnds
<1>2. CASE \E f \in Fingerprints : WindowPasses(f)
  <2>1. PICK f \in Fingerprints : WindowPasses(f)
    BY <1>2
  <2>2. recent[f] > 0 /\ recent' = [recent EXCEPT ![f] = @ - 1]
    BY <2>1 DEF WindowPasses
  <2>3. /\ UNCHANGED <<pc, stage, best, waiting, running, usable, stats, candidates, group,
                       created, stored, capacity, timedOut, row>>
        /\ worker' = worker
    BY <2>1 DEF WindowPasses
  <2>4. QED BY <2>2, <2>3
<1>3. CASE \E r \in Requests : OrphanEnds(r) \/ PauseEnds(r)
  <2>1. PICK r \in Requests : OrphanEnds(r) \/ PauseEnds(r)
    BY <1>3
  <2>2. /\ UNCHANGED <<pc, stage, best, waiting, running, usable, stats, candidates, group,
                       created, stored, capacity, timedOut, row>>
        /\ worker' = worker /\ recent' = recent
    BY <2>1 DEF OrphanEnds, PauseEnds
  <2>3. QED BY <2>2
<1>4. CASE UNCHANGED vars
  <2>1. /\ UNCHANGED <<pc, stage, best, waiting, running, usable, stats, candidates, group,
                       created, stored, capacity, timedOut, row>>
        /\ worker' = worker /\ recent' = recent
    BY <1>4 DEF vars
  <2>2. QED BY <2>1
<1>5. QED BY <1>1, <1>2, <1>3, <1>4 DEF Beside

\* The second round asks for requests of its token, of which none was open.
LEMMA SecondRound ==
    ASSUME TypeOK, NEW t \in Tokens, BuyRoundEnds(t)
    PROVE  \E asked \in SUBSET Offered :
              /\ IsFiniteSet(asked) /\ asked \cap Open = {} /\ \A r \in asked : r.token = t
              /\ waiting' = waiting \cup asked /\ running' = running
              /\ stats' = [stats EXCEPT !.requests = @ + Cardinality(asked)]
              /\ \/ asked = {} /\ stage' = [stage EXCEPT ![t] = "done"] /\ best' = best
                 \/ /\ stage' = [stage EXCEPT ![t] = "sell"]
                    /\ \E p \in Providers : best' = [best EXCEPT ![t] = p]
<1>1. \A r \in Open : r.token # t
  BY DEF BuyRoundEnds, Pending, Open
<1>2. running' = running
  BY DEF BuyRoundEnds
<1>3. CASE UNCHANGED <<best, waiting, noRoute, stats>> /\ stage' = [stage EXCEPT ![t] = "done"]
  <2>1. waiting' = waiting \cup {} /\ stats' = [stats EXCEPT !.requests = @ + Cardinality({})]
    BY <1>3, FS_EmptySet DEF TypeOK, Counters
  <2>2. IsFiniteSet({}) /\ {} \in SUBSET Offered
    BY FS_EmptySet
  <2>3. QED BY <1>2, <1>3, <2>1, <2>2
<1>4. CASE stage' # [stage EXCEPT ![t] = "done"] \/ ~UNCHANGED <<best, waiting, noRoute, stats>>
  <2>1. PICK r \in usable :
           LET sells == Round(t, "SELL", Sellers(r.provider))
           IN  /\ best' = [best EXCEPT ![t] = r.provider]
               /\ waiting' = waiting \cup Allowed(sells)
               /\ stats' = [stats EXCEPT !.requests = @ + Cardinality(Allowed(sells))]
               /\ stage' = [stage EXCEPT ![t] = "sell"]
    BY <1>4 DEF BuyRoundEnds
  <2> DEFINE sells == Round(t, "SELL", Sellers(r.provider))
             asked == Allowed(sells)
  <2>2. r.provider \in Providers
    BY ConstantTypes DEF TypeOK, Requests
  <2>3. sells \in SUBSET Requests /\ \A q \in sells : q.token = t
    BY RoundsAsk, PartnersAreProviders
  <2>4. asked \in SUBSET Offered /\ asked \subseteq sells /\ IsFiniteSet(asked)
    BY <2>3, FilterLetsPass
  <2>5. asked \cap Open = {} /\ \A q \in asked : q.token = t
    BY <1>1, <2>3, <2>4
  <2>6. /\ waiting' = waiting \cup asked /\ best' = [best EXCEPT ![t] = r.provider]
        /\ stats' = [stats EXCEPT !.requests = @ + Cardinality(asked)]
        /\ stage' = [stage EXCEPT ![t] = "sell"]
    BY <2>1
  <2> HIDE DEF asked, sells
  <2>7. QED BY <1>2, <2>2, <2>4, <2>5, <2>6
<1>5. QED BY <1>3, <1>4

\* The first round: the requests of all tokens that the filter lets pass.
LEMMA FirstRound ==
    ASSUME TypeOK, Collect
    PROVE  \E asked \in SUBSET Offered :
              /\ IsFiniteSet(asked) /\ (Pairs = {} => asked = {})
              /\ waiting' = asked /\ stats' = [stats EXCEPT !.requests = Cardinality(asked)]
<1> DEFINE all == UNION {Round(t, "BUY", Buyers) : t \in Tokens}
<1>1. all \in SUBSET Requests
  BY RoundsAsk, PartnersAreProviders
<1>2. Allowed(all) \in SUBSET Offered /\ Allowed(all) \subseteq all /\ IsFiniteSet(Allowed(all))
  BY <1>1, FilterLetsPass
<1>3. Pairs = {} => all = {}
  BY DEF Round, Buyers
<1>4. waiting' = Allowed(all) /\ stats' = [stats EXCEPT !.requests = Cardinality(Allowed(all))]
  BY DEF Collect
<1> HIDE DEF all
<1>5. QED BY <1>2, <1>3, <1>4

LEMMA NextCycles == IInv /\ [Next]_vars => RestInv' /\ CycleInv'
<1> SUFFICES ASSUME IInv, [Next]_vars PROVE RestInv' /\ CycleInv'
    OBVIOUS
<1>0. TypeOK /\ RestInv /\ CycleInv
  BY DEF IInv
<1> USE <1>0 DEF RestInv, CycleInv, Open
<1>1. ASSUME NEW r \in Requests, Send(r) \/ Answers(r) \/ AnswerRaised(r) PROVE RestInv' /\ CycleInv'
  <2>1. pc \notin {"idle", "create", "down"} /\ UNCHANGED <<pc, created, timedOut>>
    BY <1>1 DEF Send, Answers, AnswerUsable, AnswerFailed, AnswerNoRoute, AnswerRaised, Returned
  <2>2. CASE UNCHANGED <<stage, best>>
    BY <2>1, <2>2
  <2>3. CASE AnswerRaised(r)
    BY <2>1, <2>3 DEF AnswerRaised, CycleEnds, TypeOK
  <2>4. QED BY <1>1, <2>2, <2>3 DEF Send, Answers, AnswerUsable, AnswerFailed, AnswerNoRoute
<1>2. ASSUME NEW t \in Tokens, BuyRoundEnds(t) PROVE RestInv' /\ CycleInv'
  <2>1. pc = "collect" /\ UNCHANGED <<pc, created, timedOut>>
    BY <1>2 DEF BuyRoundEnds
  <2>2. \/ stage' = [stage EXCEPT ![t] = "done"] /\ best' = best
        \/ /\ stage' = [stage EXCEPT ![t] = "sell"]
           /\ \E p \in Providers : best' = [best EXCEPT ![t] = p]
    BY <1>2, SecondRound
  <2>3. QED BY <2>1, <2>2 DEF TypeOK
<1>3. ASSUME NEW t \in Tokens, Cycling(t) PROVE RestInv' /\ CycleInv'
  BY <1>3 DEF Cycling, SellRoundEnds, Evaluate, EvaluateFails, CycleEnds, TypeOK
<1>4. CASE Beside
  <2>1. UNCHANGED <<pc, stage, best, waiting, running, stats, candidates, created, timedOut>>
    BY <1>4, BesideChangesNothing
  <2>2. QED BY <2>1
<1>5. CASE Handing
  <2>1. pc' \in {"finish", "lookup", "store"}
    BY <1>5, TakesOneGroup DEF Handing, Collected, Timeout, Lookup, Store, StoreFails
  <2>2. QED BY <2>1
<1>6. CASE Ending
  BY <1>6 DEF Ending, Finish, FinishCancelled, Abandon, Ends, Stop
<1>7. CASE Cancel \/ Start \/ Restart
  BY <1>7 DEF Cancel, Start, Restart
<1>8. CASE Collect
  BY <1>8 DEF Collect
<1>9. QED BY <1>1, <1>2, <1>3, <1>4, <1>5, <1>6, <1>7, <1>8, NextCases

LEMMA NextOpen == IInv /\ [Next]_vars => OpenInv'
<1> SUFFICES ASSUME IInv, [Next]_vars PROVE OpenInv'
    OBVIOUS
<1>0. TypeOK /\ RestInv /\ OpenInv
  BY DEF IInv
<1>. Open \subseteq Requests /\ \A r \in Open : r.token \in Tokens
  BY <1>0, ConstantTypes DEF TypeOK, Open, Requests
<1> USE <1>0 DEF OpenInv, Open
<1>1. ASSUME NEW r \in Requests, Send(r) \/ Answers(r) \/ AnswerRaised(r) PROVE OpenInv'
  <2>1. /\ \/ waiting' = waiting \ {r} /\ running' = running \cup {r} /\ r \in waiting
           \/ waiting' = waiting /\ running' = running \ {r}
        /\ pc' = pc
    BY <1>1 DEF Send, Answers, AnswerUsable, AnswerFailed, AnswerNoRoute, AnswerRaised, Returned
  <2>2. stage' = stage \/ stage' = [stage EXCEPT ![r.token] = "failed"]
    BY <1>1 DEF Send, Answers, AnswerUsable, AnswerFailed, AnswerNoRoute, AnswerRaised
  <2>3. QED BY <2>1, <2>2 DEF TypeOK
<1>2. ASSUME NEW t \in Tokens, BuyRoundEnds(t) PROVE OpenInv'
  <2>1. PICK asked \in SUBSET Offered :
              /\ asked \cap Open = {} /\ \A r \in asked : r.token = t
              /\ waiting' = waiting \cup asked /\ running' = running
              /\ \/ asked = {} /\ stage' = [stage EXCEPT ![t] = "done"]
                 \/ stage' = [stage EXCEPT ![t] = "sell"]
    BY <1>2, SecondRound
  <2>2. pc = "collect" /\ pc' = pc /\ \A r \in Open : r.token # t
    BY <1>2 DEF BuyRoundEnds, Pending
  <2>3. QED BY <2>1, <2>2 DEF TypeOK
<1>3. ASSUME NEW t \in Tokens, Cycling(t) PROVE OpenInv'
  <2>1. pc = "collect" /\ UNCHANGED <<pc, waiting, running>>
    BY <1>3 DEF Cycling, SellRoundEnds, Evaluate, EvaluateFails
  <2>2. CASE SellRoundEnds(t)
    <3>1. \A r \in Open : r.token # t
      BY <2>2 DEF SellRoundEnds, Pending
    <3>2. QED BY <2>1, <2>2, <3>1 DEF SellRoundEnds, TypeOK
  <2>3. CASE Evaluate(t) \/ EvaluateFails(t)
    <3>1. \A r \in Open : r.token # t
      BY <2>3 DEF Evaluate, EvaluateFails
    <3>2. QED BY <2>1, <2>3, <3>1 DEF Evaluate, EvaluateFails, TypeOK
  <2>4. QED BY <1>3, <2>2, <2>3 DEF Cycling
<1>4. CASE Beside
  <2>1. UNCHANGED <<pc, stage, waiting, running>>
    BY <1>4, BesideChangesNothing
  <2>2. QED BY <2>1
<1>5. CASE Handing
  <2>1. CASE Timeout
    BY <2>1 DEF Timeout, CyclesCancelled, Outlive
  <2>2. CASE ~Timeout
    <3>1. UNCHANGED <<stage, waiting, running>>
      BY <1>5, <2>2 DEF Handing, Collected, Lookup, Store, StoreFails
    <3>2. \A r \in Open : stage[r.token] = "failed"
      BY <1>5, <2>2 DEF Handing, Collected, Lookup, Store, StoreFails
    <3>3. QED BY <3>1, <3>2
  <2>3. QED BY <2>1, <2>2
<1>6. CASE Ending
  BY <1>6 DEF Ending, Finish, FinishCancelled, Abandon, Ends, Stop
<1>7. CASE Cancel
  BY <1>7 DEF Cancel, CyclesCancelled, Outlive
<1>8. CASE Start \/ Restart
  BY <1>8 DEF Start, Restart, RestInv
<1>9. CASE Collect
  <2>1. PICK asked \in SUBSET Offered : waiting' = asked /\ (Pairs = {} => asked = {})
    BY <1>9, FirstRound
  <2>2. running' = {} /\ pc' = "collect"
    BY <1>9 DEF Collect, RestInv
  <2>3. stage' = [t \in Tokens |-> IF Pairs = {} THEN "done" ELSE "buy"]
    BY <1>9 DEF Collect
  <2>4. \A r \in asked : r.token \in Tokens
    BY ConstantTypes DEF Requests
  <2>5. QED BY <2>1, <2>2, <2>3, <2>4
<1>10. QED BY <1>1, <1>2, <1>3, <1>4, <1>5, <1>6, <1>7, <1>8, <1>9, NextCases

LEMMA NextCount == IInv /\ [Next]_vars => CountInv'
<1> SUFFICES ASSUME IInv, [Next]_vars PROVE CountInv'
    OBVIOUS
<1>0. TypeOK /\ RestInv /\ CycleInv /\ OpenInv /\ CountInv
  BY DEF IInv
<1>c. /\ IsFiniteSet(Open) /\ Cardinality(Open) \in Nat
      /\ stats.requests \in Nat /\ stats.successful \in Nat /\ stats.failed \in Nat
  BY <1>0, Counted DEF TypeOK, Counters
\* Nothing that is counted changes, and no broken cycle is mended.
<1>u. ASSUME UNCHANGED <<waiting, running, stats, timedOut>>, Unbroken' => Unbroken,
             pc' \in {"collect", "lookup", "store", "finish"} =>
                 pc \in {"collect", "lookup", "store", "finish"}
      PROVE  CountInv'
  BY <1>0, <1>u DEF CountInv, Open
\* Fewer requests are open, and the scan is not counted in full any more.
<1>f. ASSUME waiting' \cup running' \subseteq Open, stats' = stats,
             timedOut' \/ pc' \notin {"collect", "lookup", "store", "finish"} \/ ~Unbroken'
      PROVE  CountInv'
  <2>1. Open' \in SUBSET Open
    BY <1>f DEF Open
  <2>2. Cardinality(Open') <= Cardinality(Open) /\ Cardinality(Open') \in Nat
    BY <2>1, <1>c, FS_Subset, PartOf
  <2>3. stats.successful + stats.failed + Cardinality(Open') <= stats.requests
    BY <1>0, <1>c, <2>2 DEF CountInv
  <2>4. QED BY <1>f, <2>3 DEF CountInv
<1>1. ASSUME NEW r \in Requests, Send(r) \/ Answers(r) \/ AnswerRaised(r) PROVE CountInv'
  <2>1. CASE Send(r)
    <3>1. Open' = Open /\ UNCHANGED <<pc, stage, stats, timedOut>>
      BY <2>1 DEF Send, Open
    <3>2. QED BY <1>0, <3>1 DEF CountInv, Unbroken
  <2>2. CASE Answers(r)
    <3>1. r \in Open /\ Open' = Open \ {r}
      BY <1>0, <2>2 DEF Answers, AnswerUsable, AnswerFailed, AnswerNoRoute, Returned, Open, OpenInv
    <3>2. Cardinality(Open') = Cardinality(Open) - 1
      BY <1>c, <3>1, FS_RemoveElement
    <3>3. UNCHANGED <<pc, stage, timedOut>>
      BY <2>2 DEF Answers, AnswerUsable, AnswerFailed, AnswerNoRoute, Returned
    <3>4. \/ stats' = [stats EXCEPT !.successful = @ + 1]
          \/ stats' = [stats EXCEPT !.failed = @ + 1]
      BY <2>2 DEF Answers, AnswerUsable, AnswerFailed, AnswerNoRoute
    <3>5. /\ stats'.requests = stats.requests
          /\ stats'.successful + stats'.failed = stats.successful + stats.failed + 1
      BY <1>0, <1>c, <3>4 DEF TypeOK, Counters
    <3>6. QED
      <4> DEFINE n == Cardinality(Open)  k == stats.successful + stats.failed
      <4>1. n \in Nat /\ k \in Nat
        BY <1>c
      <4>2. Cardinality(Open') = n - 1 /\ stats'.successful + stats'.failed = k + 1
        BY <3>2, <3>5
      <4>3. k + n <= stats.requests
        BY <1>0 DEF CountInv
      <4>4. pc \in {"collect", "lookup", "store", "finish"} /\ ~timedOut /\ Unbroken
              => k + n = stats.requests
        BY <1>0 DEF CountInv
      <4> HIDE DEF n, k
      <4>5. (k + 1) + (n - 1) = k + n
        BY <4>1
      <4>6. stats'.successful + stats'.failed + Cardinality(Open') = k + n
        BY <4>2, <4>5
      <4>7. Unbroken' <=> Unbroken
        BY <3>3 DEF Unbroken
      <4>8. QED BY <3>3, <3>5, <4>3, <4>4, <4>6, <4>7 DEF CountInv
  <2>3. CASE AnswerRaised(r)
    <3>1. waiting' \cup running' \subseteq Open /\ stats' = stats
      BY <2>3 DEF AnswerRaised, Returned, Open
    <3>2. r.token \in Tokens /\ stage'[r.token] = "failed"
      BY <1>0, <2>3 DEF AnswerRaised, TypeOK, Requests
    <3>3. QED BY <1>f, <3>1, <3>2 DEF Unbroken
  <2>4. QED BY <1>1, <2>1, <2>2, <2>3
<1>2. ASSUME NEW t \in Tokens, BuyRoundEnds(t) PROVE CountInv'
  <2>1. PICK asked \in SUBSET Offered :
              /\ IsFiniteSet(asked) /\ asked \cap Open = {}
              /\ waiting' = waiting \cup asked /\ running' = running
              /\ stats' = [stats EXCEPT !.requests = @ + Cardinality(asked)]
              /\ stage' = [stage EXCEPT ![t] = "done"] \/ stage' = [stage EXCEPT ![t] = "sell"]
    BY <1>0, <1>2, SecondRound
  <2>2. Open' = Open \cup asked
    BY <2>1 DEF Open
  <2>3. Cardinality(Open') = Cardinality(Open) + Cardinality(asked) - Cardinality(Open \cap asked)
    BY <1>c, <2>1, <2>2, FS_Union
  <2>4. Cardinality(Open \cap asked) = 0 /\ Cardinality(asked) \in Nat
    BY <2>1, FS_EmptySet, FS_CardinalityType
  <2>5. /\ stats'.requests = stats.requests + Cardinality(asked)
        /\ stats'.successful = stats.successful /\ stats'.failed = stats.failed
    BY <1>0, <2>1 DEF TypeOK, Counters
  <2>6. stage[t] = "buy" /\ UNCHANGED <<pc, timedOut>>
    BY <1>2 DEF BuyRoundEnds
  <2>7. Unbroken' => Unbroken
    BY <1>0, <2>1, <2>6 DEF Unbroken, TypeOK
  <2>8. Cardinality(Open') = Cardinality(Open) + Cardinality(asked)
    BY <1>c, <2>3, <2>4
  <2>9. QED BY <1>0, <1>c, <2>4, <2>5, <2>6, <2>7, <2>8 DEF CountInv
<1>3. ASSUME NEW t \in Tokens, Cycling(t) PROVE CountInv'
  <2>1. UNCHANGED <<waiting, running, stats, timedOut, pc>>
    BY <1>3 DEF Cycling, SellRoundEnds, Evaluate, EvaluateFails
  <2>2. Unbroken' => Unbroken
    BY <1>0, <1>3 DEF Cycling, SellRoundEnds, Evaluate, EvaluateFails, Unbroken, TypeOK
  <2>3. QED BY <1>u, <2>1, <2>2
<1>4. CASE Beside
  <2>1. UNCHANGED <<pc, stage, waiting, running, stats, timedOut>>
    BY <1>4, BesideChangesNothing
  <2>2. QED BY <1>u, <2>1 DEF Unbroken
<1>5. CASE Handing
  <2>1. CASE Timeout
    BY <1>f, <2>1 DEF Timeout, CyclesCancelled, Open
  <2>2. CASE ~Timeout
    <3>1. UNCHANGED <<stage, waiting, running, stats, timedOut>> /\ pc \in {"collect", "lookup", "store"}
      BY <1>5, <2>2 DEF Handing, Collected, Lookup, Store, StoreFails
    <3>2. QED BY <1>u, <3>1 DEF Unbroken
  <2>3. QED BY <2>1, <2>2
<1>6. CASE Ending
  <2>1. Open' = {} /\ stats' = NoStats /\ pc' \in {"idle", "down"}
    BY <1>6 DEF Ending, Finish, FinishCancelled, Abandon, Ends, Stop, Open
  <2>2. QED BY <2>1, FS_EmptySet DEF CountInv, NoStats
<1>7. CASE Cancel
  BY <1>f, <1>7 DEF Cancel, CyclesCancelled, Open
<1>8. CASE Start \/ Restart
  <2>1. UNCHANGED <<waiting, running, stats>> /\ pc' \in {"create", "idle"}
    BY <1>8 DEF Start, Restart
  <2>2. QED BY <1>0, <2>1 DEF CountInv, Open
<1>9. CASE Collect
  <2>1. PICK asked \in SUBSET Offered :
            /\ IsFiniteSet(asked) /\ waiting' = asked
            /\ stats' = [stats EXCEPT !.requests = Cardinality(asked)]
    BY <1>0, <1>9, FirstRound
  <2>2. stats = NoStats /\ Open' = asked
    BY <1>0, <1>9, <2>1 DEF Collect, RestInv, Open
  <2>3. Cardinality(asked) \in Nat
    BY <2>1, FS_CardinalityType
  <2>4. stats'.requests = Cardinality(asked) /\ stats'.successful = 0 /\ stats'.failed = 0
    BY <2>1, <2>2 DEF NoStats
  <2>5. QED BY <2>2, <2>3, <2>4 DEF CountInv
<1>10. QED BY <1>1, <1>2, <1>3, <1>4, <1>5, <1>6, <1>7, <1>8, <1>9, NextCases

------------------------------------------------------------------------------
(* The groups, the window and the row.                                        *)

\* The steps of requests and cycles create and store nothing.
LEMMA CyclesStoreNothing ==
    ASSUME \/ \E r \in Requests : Send(r) \/ Answers(r) \/ AnswerRaised(r)
           \/ \E t \in Tokens : BuyRoundEnds(t) \/ Cycling(t)
    PROVE  /\ UNCHANGED <<pc, group, created, stored, capacity, timedOut, recent, worker, row>>
           /\ candidates' = candidates \/ pc = "collect"
<1>1. CASE \E r \in Requests : Send(r) \/ Answers(r) \/ AnswerRaised(r)
  BY <1>1 DEF Send, Answers, AnswerUsable, AnswerFailed, AnswerNoRoute, AnswerRaised, Returned
<1>2. CASE \E t \in Tokens : BuyRoundEnds(t) \/ Cycling(t)
  BY <1>2 DEF BuyRoundEnds, Cycling, SellRoundEnds, Evaluate, EvaluateFails
<1>3. QED BY <1>1, <1>2

\* A transaction that was carried out stores a group that was not stored.
LEMMA StoresOneMore ==
    ASSUME IInv, pc = "store", Inserted
    PROVE  /\ Cardinality(stored') = Cardinality(created) + 1
           /\ Cardinality(stored') <= MaxPerScan
<1>1. /\ TypeOK /\ group \notin created /\ stored = created
      /\ Cardinality(created) < capacity
  BY DEF IInv, HandInv, StoredInv
<1>2. stored' = created \cup {group}
  BY <1>1 DEF Inserted
<1>3. IsFiniteSet(created) /\ Cardinality(created) \in Nat
  BY <1>1, Counted
<1>4. Cardinality(stored') = Cardinality(created) + 1
  BY <1>1, <1>2, <1>3, FS_AddElement
<1>5. QED BY <1>1, <1>3, <1>4, ConstantTypes DEF TypeOK

LEMMA NextHand == IInv /\ [Next]_vars => HandInv' /\ StoredInv'
<1> SUFFICES ASSUME IInv, [Next]_vars PROVE HandInv' /\ StoredInv'
    OBVIOUS
<1>0. TypeOK /\ RestInv /\ CycleInv /\ HandInv /\ StoredInv
  BY DEF IInv
<1>c. /\ IsFiniteSet(created) /\ Cardinality(created) \in Nat /\ Cardinality(stored) \in Nat
      /\ capacity \in Nat /\ worker \in Nat /\ capacity <= MaxPerScan
      /\ candidates \subseteq Fingerprints
  BY <1>0, Counted, ConstantTypes DEF TypeOK
\* Another group is taken up and nothing stored.
<1>n. ASSUME NextGroup(candidates, capacity'), UNCHANGED <<created, stored, worker>>,
             created \cap candidates = {}, stored = created,
             worker + capacity' <= QueueCapacity + Cardinality(created)
      PROVE  HandInv' /\ StoredInv'
  <2>1. /\ candidates' \subseteq candidates
        /\ \/ pc' = "finish"
           \/ /\ pc' = "lookup" /\ group' \in candidates /\ group' \notin candidates'
              /\ Cardinality(created') < capacity'
    BY <1>n, TakesOneGroup
  <2>2. HandInv'
    BY <1>c, <1>n, <2>1 DEF HandInv
  <2>3. QED BY <1>0, <1>n, <2>2 DEF StoredInv
<1>1. CASE \/ \E r \in Requests : Send(r) \/ Answers(r) \/ AnswerRaised(r)
           \/ \E t \in Tokens : BuyRoundEnds(t) \/ Cycling(t)
  <2>1. /\ UNCHANGED <<pc, group, created, stored, capacity, worker>>
        /\ candidates' = candidates \/ pc = "collect"
    BY <1>1, CyclesStoreNothing
  <2>2. QED BY <1>0, <2>1 DEF HandInv, StoredInv
<1>2. CASE Beside
  <2>1. /\ UNCHANGED <<pc, group, created, stored, capacity, candidates>>
        /\ worker' = worker \/ worker' = worker - 1
    BY <1>2, BesideChangesNothing
  <2>2. QED BY <1>0, <1>c, <2>1, ConstantTypes DEF HandInv, StoredInv
<1>3. CASE Collected
  <2>1. created = {} /\ stored = created /\ Cardinality(created) = 0
    BY <1>0, <1>3, FS_EmptySet DEF Collected, CycleInv, StoredInv
  <2>2. capacity' = Room /\ NextGroup(candidates, capacity') /\ UNCHANGED <<created, stored, worker>>
    BY <1>3 DEF Collected
  <2>3. worker + capacity' <= QueueCapacity + Cardinality(created)
    BY <1>0, <2>1, <2>2, RoomIsBounded, ConstantTypes
  <2>4. QED BY <1>n, <2>1, <2>2, <2>3
<1>4. CASE Lookup
  <2>1. UNCHANGED <<created, stored, worker, capacity>>
    BY <1>4 DEF Lookup
  <2>2. /\ created \cap candidates = {} /\ stored = created
        /\ worker + capacity' <= QueueCapacity + Cardinality(created)
    BY <1>0, <1>4, <2>1 DEF Lookup, HandInv, StoredInv
  <2>3. CASE NextGroup(candidates, capacity)
    BY <1>n, <2>1, <2>2, <2>3
  <2>4. CASE pc' = "store" /\ UNCHANGED <<group, candidates>>
    BY <1>0, <1>4, <2>1, <2>4 DEF Lookup, HandInv, StoredInv
  <2>5. QED BY <1>4, <2>3, <2>4 DEF Lookup
<1>5. CASE StoreFails
  <2>1. UNCHANGED <<created, stored, worker, capacity>> /\ NextGroup(candidates, capacity')
    BY <1>5 DEF StoreFails
  <2>2. /\ created \cap candidates = {} /\ stored = created
        /\ worker + capacity' <= QueueCapacity + Cardinality(created)
    BY <1>0, <1>5, <2>1 DEF StoreFails, HandInv, StoredInv
  <2>3. QED BY <1>n, <2>1, <2>2
<1>6. CASE Store
  <2>1. /\ group \in Fingerprints /\ group \notin created \cup candidates
        /\ created \cap candidates = {} /\ Cardinality(created) < capacity
        /\ worker + capacity <= QueueCapacity + Cardinality(created) /\ stored = created
    BY <1>0, <1>6 DEF Store, HandInv, StoredInv
  <2>2. worker < QueueCapacity
    BY <1>c, <2>1, ConstantTypes
  <2>3. worker' = worker + 1 /\ created' = created \cup {group} /\ stored' = created' /\ capacity' = capacity
    BY <1>6, <2>1, <2>2 DEF Store, Inserted
  <2>4. Cardinality(created') = Cardinality(created) + 1 /\ Cardinality(stored') <= MaxPerScan
    BY <1>6, <2>3, StoresOneMore DEF Store
  <2>5. /\ candidates' \subseteq candidates
        /\ \/ pc' = "finish"
           \/ /\ pc' = "lookup" /\ group' \in candidates /\ group' \notin candidates'
              /\ Cardinality(created') < capacity'
    BY <1>6, <2>3, TakesOneGroup DEF Store
  <2>6. worker' + capacity' <= QueueCapacity + Cardinality(created')
    BY <1>c, <2>1, <2>3, <2>4, ConstantTypes
  <2>7. HandInv'
    BY <1>c, <2>1, <2>3, <2>5, <2>6 DEF HandInv
  <2>8. QED BY <2>3, <2>4, <2>7 DEF StoredInv
<1>7. CASE Timeout \/ Collect
  BY <1>0, <1>7 DEF Timeout, Collect, HandInv, StoredInv
<1>8. CASE Cancel \/ Ending
  <2>1. pc' \in {"cancelled", "idle", "down"}
    BY <1>8 DEF Cancel, Ending, Finish, FinishCancelled, Abandon, Ends, Stop
  <2>2. \/ stored' = stored
        \/ pc = "store" /\ Inserted
    BY <1>8 DEF Cancel, Ending, Finish, FinishCancelled, Abandon, Stop
  <2>3. Cardinality(stored') <= MaxPerScan
    BY <1>0, <2>2, StoresOneMore DEF StoredInv
  <2>4. QED BY <2>1, <2>3 DEF HandInv, StoredInv
<1>9. CASE Start \/ Restart
  <2>1. CASE Start
    BY <1>0, <2>1, FS_EmptySet, ConstantTypes DEF Start, RestInv, HandInv, StoredInv
  <2>2. CASE Restart
    BY <1>0, <2>2 DEF Restart, HandInv, StoredInv
  <2>3. QED BY <1>9, <2>1, <2>2
<1>10. QED BY <1>1, <1>2, <1>3, <1>4, <1>5, <1>6, <1>7, <1>8, <1>9, NextCases DEF Handing

LEMMA NextWindow == IInv /\ [Next]_vars => WindowInv'
<1> SUFFICES ASSUME IInv, [Next]_vars PROVE WindowInv'
    OBVIOUS
<1>0. TypeOK /\ HandInv /\ WindowInv
  BY DEF IInv
<1>c. recent \in [Fingerprints -> Nat]
  BY <1>0 DEF TypeOK
\* The transaction of a group that has no opportunity in the window.
<1>i. ASSUME pc = "store", Inserted, pc' # "store" PROVE WindowInv'
  BY <1>0, <1>c, <1>i DEF WindowInv, Inserted
<1>1. CASE \/ \E r \in Requests : Send(r) \/ Answers(r) \/ AnswerRaised(r)
           \/ \E t \in Tokens : BuyRoundEnds(t) \/ Cycling(t)
  <2>1. UNCHANGED <<pc, group, recent>>
    BY <1>1, CyclesStoreNothing
  <2>2. QED BY <1>0, <2>1 DEF WindowInv
<1>2. CASE Beside
  <2>1. /\ UNCHANGED <<pc, group>>
        /\ \/ recent' = recent
           \/ \E f \in Fingerprints : recent[f] > 0 /\ recent' = [recent EXCEPT ![f] = @ - 1]
    BY <1>2, BesideChangesNothing
  <2>2. CASE recent' = recent
    BY <1>0, <2>1, <2>2 DEF WindowInv
  <2>3. ASSUME NEW f \in Fingerprints, recent[f] > 0, recent' = [recent EXCEPT ![f] = @ - 1]
        PROVE  WindowInv'
    <3>1. \A g \in Fingerprints : recent'[g] <= 1
      BY <1>0, <1>c, <2>3 DEF WindowInv
    <3>2. pc' = "store" => group' # f /\ group' \in Fingerprints
      BY <1>0, <2>1, <2>3 DEF WindowInv, HandInv
    <3>3. pc' = "store" => recent'[group'] = 0
      BY <1>0, <1>c, <2>1, <2>3, <3>2 DEF WindowInv
    <3>4. QED BY <3>1, <3>3 DEF WindowInv
  <2>4. QED BY <2>1, <2>2, <2>3
<1>3. CASE Lookup
  <2>1. recent' = recent
    BY <1>3 DEF Lookup
  <2>2. \/ pc' # "store"
        \/ ~(recent[group] > 0) /\ group' = group /\ group \in Fingerprints
    BY <1>0, <1>3, TakesOneGroup DEF Lookup, IsDuplicate, HandInv
  <2>3. QED BY <1>0, <1>c, <2>1, <2>2 DEF WindowInv
<1>4. CASE Store
  BY <1>4, <1>i, TakesOneGroup DEF Store
<1>5. CASE Collected \/ Timeout \/ StoreFails
  <2>1. recent' = recent /\ pc' # "store"
    BY <1>5, TakesOneGroup DEF Collected, Timeout, StoreFails
  <2>2. QED BY <1>0, <2>1 DEF WindowInv
<1>6. CASE Cancel \/ Ending \/ Start \/ Collect \/ Restart
  <2>1. pc' # "store"
    BY <1>6 DEF Cancel, Ending, Finish, FinishCancelled, Abandon, Ends, Stop, Start, Collect, Restart
  <2>2. \/ recent' = recent
        \/ pc = "store" /\ Inserted
    BY <1>6 DEF Cancel, Ending, Finish, FinishCancelled, Abandon, Stop, Start, Collect, Restart
  <2>3. QED BY <1>0, <1>i, <2>1, <2>2 DEF WindowInv
<1>7. QED BY <1>1, <1>2, <1>3, <1>4, <1>5, <1>6, NextCases DEF Handing

LEMMA CompleteMeans == FinalStatus = "COMPLETE" => ~timedOut /\ stats.failed = 0
BY DEF FinalStatus

\* The row that is written at the end of a scan, also of one that is cancelled
\* while it is written.
LEMMA FinishedRow ==
    ASSUME IInv, pc = "finish", row' = Closed(FinalStatus, Cardinality(created)),
           UNCHANGED <<stored, timedOut, stage>>
    PROVE  RowsTellTheTruth'
<1>0. TypeOK /\ OpenInv /\ CountInv /\ StoredInv
  BY DEF IInv
<1>1. CASE row.status = "NONE"
  BY <1>1 DEF Closed, RowsTellTheTruth
<1>2. CASE row.status # "NONE"
  <2>1. row' = [status |-> FinalStatus, stats |-> stats, created |-> Cardinality(created)]
    BY <1>2 DEF Closed
  <2>2. row'.created = Cardinality(stored')
    BY <1>0, <2>1 DEF StoredInv
  <2>3. /\ Cardinality(Open) \in Nat /\ stats.requests \in Nat
        /\ stats.successful \in Nat /\ stats.failed \in Nat
    BY <1>0, Counted DEF TypeOK, Counters
  <2>4. stats.successful + stats.failed <= stats.requests
    BY <1>0, <2>3 DEF CountInv
  <2>5. ASSUME FinalStatus = "COMPLETE"
        PROVE  ~timedOut /\ (stats.successful = stats.requests \/ ~Unbroken)
    <3>1. ~timedOut /\ stats.failed = 0
      BY <2>5, CompleteMeans
    <3>2. ASSUME Unbroken PROVE stats.successful = stats.requests
      <4>1. \A r \in Open : r.token \in Tokens
        BY <1>0, ConstantTypes DEF TypeOK, Open, Requests
      <4>2. Open = {}
        BY <1>0, <3>2, <4>1 DEF OpenInv, Unbroken
      <4>3. Cardinality(Open) = 0
        BY <4>2, FS_EmptySet
      <4>4. QED BY <1>0, <2>3, <3>1, <3>2, <4>3 DEF CountInv
    <3>3. QED BY <3>1, <3>2
  <2>6. QED BY <2>1, <2>2, <2>4, <2>5 DEF RowsTellTheTruth, Unbroken
<1>3. QED BY <1>1, <1>2

LEMMA NextRow == IInv /\ [Next]_vars => RowInv'
<1> SUFFICES ASSUME IInv, [Next]_vars PROVE RowInv'
    OBVIOUS
<1>0. TypeOK /\ RestInv /\ RowInv
  BY DEF IInv
<1> DEFINE final == row.status \in {"COMPLETE", "PARTIAL", "FAILED"}
           over == pc \in {"cancelled", "idle", "down"}
\* A row that is final stays, with what it speaks of.
<1>k. ASSUME row' = row, final => /\ over' /\ UNCHANGED <<stored, timedOut>>
                                  /\ ~Unbroken => ~Unbroken'
      PROVE  RowInv'
  BY <1>0, <1>k DEF RowInv, RowsTellTheTruth, Unbroken
<1>f. final => over
  BY <1>0 DEF RowInv
\* A row that is not final says nothing.
<1>q. ASSUME row'.status \notin {"COMPLETE", "PARTIAL", "FAILED"} PROVE RowInv'
  BY <1>q DEF RowInv, RowsTellTheTruth
<1> HIDE DEF final, over
<1>1. CASE \E r \in Requests : Send(r) \/ Answers(r) \/ AnswerRaised(r)
  <2>1. UNCHANGED <<pc, stored, timedOut, row>>
    BY <1>1, CyclesStoreNothing
  <2>2. ~Unbroken => ~Unbroken'
    BY <1>0, <1>1 DEF Send, Answers, AnswerUsable, AnswerFailed, AnswerNoRoute, AnswerRaised,
                      Unbroken, TypeOK
  <2>3. QED BY <1>f, <1>k, <2>1, <2>2 DEF over
<1>2. CASE \E t \in Tokens : BuyRoundEnds(t) \/ Cycling(t)
  <2>1. row' = row
    BY <1>2, CyclesStoreNothing
  <2>2. pc = "collect"
    BY <1>2 DEF BuyRoundEnds, Cycling, SellRoundEnds, Evaluate, EvaluateFails
  <2>3. QED BY <1>f, <1>k, <2>1, <2>2 DEF over
<1>3. CASE Beside
  <2>1. UNCHANGED <<pc, stage, stored, timedOut, row>>
    BY <1>3, BesideChangesNothing
  <2>2. QED BY <1>f, <1>k, <2>1 DEF over, Unbroken
<1>4. CASE Handing
  <2>1. row' = row /\ pc \in {"collect", "lookup", "store"}
    BY <1>4 DEF Handing, Collected, Timeout, Lookup, Store, StoreFails
  <2>2. QED BY <1>f, <1>k, <2>1 DEF over
<1>5. CASE Finish
  <2>1. pc' = "idle" /\ RowsTellTheTruth'
    BY <1>5, FinishedRow DEF Finish, Ends
  <2>2. QED BY <2>1 DEF RowInv
<1>6. CASE FinishCancelled
  <2>1. row'.status \in {"NONE", "CANCELLED"}
    BY <1>6 DEF FinishCancelled, Closed
  <2>2. QED BY <1>q, <2>1
<1>7. CASE Abandon \/ Stop \/ Restart
  <2>1. row' = row /\ pc' \in {"idle", "down"} /\ UNCHANGED <<timedOut, stage>>
    BY <1>7 DEF Abandon, Ends, Stop, Restart
  <2>2. stored' = stored \/ pc = "store"
    BY <1>7 DEF Abandon, Stop, Restart
  <2>3. QED BY <1>f, <1>k, <2>1, <2>2 DEF over, Unbroken
<1>8. CASE Cancel
  <2>1. pc' = "cancelled" /\ UNCHANGED <<timedOut, stage>>
    BY <1>8 DEF Cancel
  <2>2. CASE row' = row
    <3>1. stored' = stored \/ pc = "store"
      BY <1>8 DEF Cancel
    <3>2. QED BY <1>f, <1>k, <2>1, <2>2, <3>1 DEF over, Unbroken
  <2>3. CASE pc = "create" /\ row' = [NoRow EXCEPT !.status = "RUNNING"]
    BY <1>q, <2>3 DEF NoRow
  <2>4. CASE pc = "finish" /\ row' = Closed(FinalStatus, Cardinality(created)) /\ stored' = stored
    <3>1. RowsTellTheTruth'
      BY <2>1, <2>4, FinishedRow
    <3>2. QED BY <2>1, <3>1 DEF RowInv
  <2>5. QED BY <1>8, <2>2, <2>3, <2>4 DEF Cancel
<1>9. CASE Start \/ Collect
  <2>1. row' = NoRow \/ row' = [NoRow EXCEPT !.status = "RUNNING"]
    BY <1>9 DEF Start, Collect
  <2>2. QED BY <1>q, <2>1 DEF NoRow
<1>10. QED BY <1>1, <1>2, <1>3, <1>4, <1>5, <1>6, <1>7, <1>8, <1>9, NextCases DEF Ending

------------------------------------------------------------------------------
(* The theorems.                                                              *)

LEMMA NextInv == IInv /\ [Next]_vars => IInv'
BY NextType, NextCycles, NextOpen, NextCount, NextHand, NextWindow, NextRow DEF IInv

LEMMA Invariance == Spec => []IInv
BY InitInv, NextInv, PTL DEF Spec

\* The lookup of dedup.py and the transaction of handoff.py are apart, and still
\* no combination has two opportunities in a window: for every set of tokens
\* and providers, over timeouts, cancellations, failed writes and restarts.
THEOREM OneInWindow == Spec => []UniqueInWindow
<1>1. IInv => UniqueInWindow
  BY DEF IInv, WindowInv, UniqueInWindow
<1>2. QED BY <1>1, Invariance, PTL

\* The room is read once before many awaits (scanner.py), and still the worker
\* takes every group that is stored, and no scan stores more than its limit.
THEOREM WorkerTakesAll == Spec => []NothingRefused
<1>1. ASSUME IInv PROVE NothingRefused
  <2>1. TypeOK /\ HandInv /\ StoredInv
    BY <1>1 DEF IInv
  <2>2. Cardinality(created) \in Nat /\ worker \in Nat /\ capacity \in Nat
    BY <2>1, Counted, ConstantTypes DEF TypeOK
  <2>3. pc = "store" => worker < QueueCapacity
    BY <2>1, <2>2, ConstantTypes DEF HandInv
  <2>4. QED BY <2>1, <2>3 DEF NothingRefused, StoredInv
<1>2. QED BY <1>1, Invariance, PTL

\* The row of a scan counts what was stored, no more outcomes than requests, and
\* says COMPLETE only of a scan in which every request succeeded, or the cycle
\* of a token broke off (_final_status and _finish of scanner.py).
THEOREM ScansAreTruthful == Spec => []TruthfulScans
<1>1. IInv => TypeOK /\ RowsTellTheTruth
  BY DEF IInv, RowInv
<1>2. QED BY <1>1, WorkerTakesAll, Invariance, PTL DEF TruthfulScans
=============================================================================
