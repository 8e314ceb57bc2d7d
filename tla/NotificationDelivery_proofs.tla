---------------------- MODULE NotificationDelivery_proofs ----------------------
(***************************************************************************)
(* For any number of notifications, attempts, faults and any batch: the    *)
(* rows tell the truth about what was sent, the attempts and the copies    *)
(* are limited, verdicts stay, and the queue is sent in order.             *)
(***************************************************************************)
EXTENDS NotificationDelivery, FiniteSetTheorems, TLAPS

MidSend == {"sending", "answered", "recorded"}
Unsent == {"absent", "queued", "retry_wait"}

\* The copies for which a fault is to blame.
Excused(n) == interrupted[n] + lost[n]

\* What a row says of the past, whatever the dispatcher does now.
RowInv(n) ==
    /\ attempts[n] <= MaxAttempts + interrupted[n]
    /\ status[n] \in {"absent", "queued"} => attempts[n] < MaxAttempts + interrupted[n]
    /\ status[n] = "retry_wait" => attempts[n] < MaxAttempts
    /\ status[n] \notin {"absent", "queued"} => attempts[n] > 0
    /\ status[n] \in {"absent", "queued"} => due[n]
    /\ n \notin Undeliverable => recorded[n] \subseteq 1..attempts[n]
    /\ received[n] <= 1 + Excused(n)
    /\ status[n] \in Unsent => received[n] <= Excused(n)
    /\ status[n] = "sent" => received[n] > 0

\* The row of a batch is as it was claimed until its turn has come.
WaitsInBatch(n) == status[n] \in {"queued", "retry_wait"} /\ attempts[n] = batch[n]

\* The row in the middle of its send.
InSend(n) ==
    /\ status[n] = "sending"
    /\ attempts[n] = Number(n)
    /\ n \notin Undeliverable
    /\ phase \in {"sending", "answered"} => recorded[n] \subseteq 1..batch[n]
    /\ phase = "sending" \/ receipt # "delivered" => received[n] <= Excused(n)
    /\ phase # "sending" /\ receipt = "delivered" => received[n] > 0

BatchInv(n) ==
    n \in Rest => IF phase \in MidSend /\ Current(n) THEN InSend(n) ELSE WaitsInBatch(n)

\* No row that was never tried is left out of a batch with a later one.
OrderInv ==
    /\ \A n \in Rest, m \in Notes :
         m < n /\ status[m] = "queued" /\ attempts[m] = 0 => m \in Rest
    /\ \A m, n \in Notes : status[m] = "absent" => status[n] = "absent"

IInv == TypeOK /\ (\A n \in Notes : RowInv(n) /\ BatchInv(n)) /\ OrderInv

-----------------------------------------------------------------------------
\* The loop is at one row at a time.
LEMMA OneCurrent ==
    ASSUME TypeOK, NEW n, NEW m, Current(n), Current(m)
    PROVE  n = m
BY DEF TypeOK, Current, Notes

LEMMA InitInv == Init => IInv
<1> SUFFICES ASSUME Init PROVE IInv  OBVIOUS
<1>0. Rest = {}  BY DEF Init, Rest, NoBatch
<1>1. TypeOK
  BY <1>0, ConstantsAssumption
     DEF Init, TypeOK, Statuses, Phases, Rest, NoBatch, Outcome, Notes
<1>2. \A n \in Notes : RowInv(n) /\ BatchInv(n)
  BY <1>0, ConstantsAssumption DEF Init, RowInv, BatchInv, Excused, Unsent
<1>3. OrderInv
  BY <1>0 DEF Init, OrderInv
<1>4. QED  BY <1>1, <1>2, <1>3 DEF IInv

-----------------------------------------------------------------------------
(* Types                                                                   *)

LEMMA WriteType ==
    ASSUME TypeOK, NEW n \in Notes, NEW s \in Statuses, NEW c \in Nat,
           NEW d \in BOOLEAN, Write(n, s, c, d)
    PROVE  /\ status' \in [Notes -> Statuses]
           /\ attempts' \in [Notes -> Nat]
           /\ due' \in [Notes -> BOOLEAN]
BY DEF TypeOK, Write

LEMMA NextInBatchType ==
    ASSUME TypeOK, NEW n \in Notes, Current(n), NextInBatch(n)
    PROVE  /\ Rest' = Rest \ {n}
           /\ Rest' \subseteq Notes
           /\ batch' \in [Rest' -> Nat]
           /\ \A m \in Rest' : batch'[m] = batch[m]
           /\ phase' \in {"idle", "deliver"}
           /\ phase' = "idle" <=> Rest' = {}
BY DEF TypeOK, NextInBatch, Current, Rest

LEMMA NumberType ==
    ASSUME TypeOK, NEW n \in Notes, Current(n)
    PROVE  n \in Rest /\ batch[n] \in Nat /\ Number(n) \in Nat \ {0}
BY DEF TypeOK, Current, Number

LEMMA TypeInv == TypeOK /\ [Next]_vars => TypeOK'
<1> SUFFICES ASSUME TypeOK, [Next]_vars PROVE TypeOK'  OBVIOUS
<1>1. CASE Publish
  BY <1>1 DEF TypeOK, Publish, Statuses, Rest, ghosts
<1>2. CASE Claim
  <2>1. Claimable \subseteq Notes  BY DEF Claimable
  <2>2. Rest' = Claimable /\ batch' \in [Rest' -> Nat]
    BY <1>2, <2>1 DEF Claim, Rest, TypeOK
  <2>3. QED  BY <1>2, <2>1, <2>2 DEF Claim, TypeOK, Phases, rows, ghosts
<1>3. ASSUME NEW n \in Notes, RefuseRecords(n) PROVE TypeOK'
  BY <1>3, NumberType DEF RefuseRecords, TypeOK, Phases, Rest, ghosts
<1>4. ASSUME NEW n \in Notes, RefuseCollides(n) PROVE TypeOK'
  BY <1>4 DEF RefuseCollides, TypeOK, Phases, Rest, NoBatch, rows, ghosts
<1>5. ASSUME NEW n \in Notes, RefuseMarks(n) PROVE TypeOK'
  <2>1. Number(n) \in Nat /\ Current(n)  BY <1>5, NumberType DEF RefuseMarks
  <2>2. /\ status' \in [Notes -> Statuses]
        /\ attempts' \in [Notes -> Nat]
        /\ due' \in [Notes -> BOOLEAN]
    BY <1>5, <2>1, WriteType DEF RefuseMarks, Statuses
  <2>3. /\ Rest' \subseteq Notes
        /\ batch' \in [Rest' -> Nat]
        /\ phase' \in {"idle", "deliver"}
        /\ phase' = "idle" <=> Rest' = {}
    BY <1>5, <2>1, NextInBatchType DEF RefuseMarks
  <2>4. QED  BY <1>5, <2>2, <2>3 DEF RefuseMarks, TypeOK, Phases, ghosts
<1>6. ASSUME NEW n \in Notes, StartSend(n) PROVE TypeOK'
  <2>1. Number(n) \in Nat /\ Current(n)  BY <1>6, NumberType DEF StartSend
  <2>2. /\ status' \in [Notes -> Statuses]
        /\ attempts' \in [Notes -> Nat]
        /\ due' \in [Notes -> BOOLEAN]
    BY <1>6, <2>1, WriteType DEF StartSend, Statuses
  <2>3. QED  BY <1>6, <2>2 DEF StartSend, TypeOK, Phases, Rest, ghosts
<1>7. ASSUME NEW n \in Notes, NEW outcome \in Outcomes, Send(n, outcome) PROVE TypeOK'
  BY <1>7, ConstantsAssumption DEF Send, TypeOK, Phases, Rest, rows
<1>8. ASSUME NEW n \in Notes, RecordAttempt(n) PROVE TypeOK'
  BY <1>8, NumberType DEF RecordAttempt, TypeOK, Phases, Rest, ghosts
<1>9. ASSUME NEW n \in Notes, Conclude(n) PROVE TypeOK'
  <2> DEFINE s == Verdict(receipt, Number(n))
  <2>1. Number(n) \in Nat /\ Current(n)  BY <1>9, NumberType DEF Conclude
  <2>2. s \in Statuses  BY DEF Verdict, Statuses
  <2>3. Write(n, s, Number(n), s # "retry_wait")  BY <1>9 DEF Conclude
  <2>4. /\ status' \in [Notes -> Statuses]
        /\ attempts' \in [Notes -> Nat]
        /\ due' \in [Notes -> BOOLEAN]
    <3> HIDE DEF s
    <3>1. QED  BY <2>1, <2>2, <2>3, WriteType
  <2>5. /\ Rest' \subseteq Notes
        /\ batch' \in [Rest' -> Nat]
        /\ phase' \in {"idle", "deliver"}
        /\ phase' = "idle" <=> Rest' = {}
    BY <1>9, <2>1, NextInBatchType DEF Conclude
  <2>6. QED  BY <1>9, <2>4, <2>5 DEF Conclude, TypeOK, Phases, ghosts
<1>10. ASSUME NEW n \in Notes, BecomesDue(n) PROVE TypeOK'
  BY <1>10 DEF BecomesDue, TypeOK, Rest, ghosts
<1>11. CASE Abort
  BY <1>11, ConstantsAssumption DEF Abort, TypeOK, Phases, Rest, NoBatch, rows
<1>12. CASE Crash
  BY <1>12, ConstantsAssumption DEF Crash, TypeOK, Phases, Rest, NoBatch, rows
<1>13. ASSUME NEW n \in Notes, Recover(n) PROVE TypeOK'
  BY <1>13 DEF Recover, Write, TypeOK, Statuses, Rest
<1>14. CASE Restarted
  BY <1>14 DEF Restarted, TypeOK, Phases, Rest, rows, ghosts
<1>15. CASE UNCHANGED vars
  BY <1>15 DEF vars, rows, ghosts, TypeOK, Rest
<1>16. QED
  BY <1>1, <1>2, <1>3, <1>4, <1>5, <1>6, <1>7, <1>8, <1>9, <1>10, <1>11, <1>12,
     <1>13, <1>14, <1>15 DEF Next, Pass, Startup

-----------------------------------------------------------------------------
(* The invariant                                                           *)

\* A row that a step leaves alone keeps what it says.
LEMMA RowFrame ==
    ASSUME NEW n \in Notes, RowInv(n),
           status'[n] = status[n], attempts'[n] = attempts[n], due'[n] = due[n],
           recorded'[n] = recorded[n], received'[n] = received[n],
           interrupted'[n] = interrupted[n], lost'[n] = lost[n]
    PROVE  RowInv(n)'
BY DEF RowInv, Excused

\* A step that empties the batch without touching the rows.
LEMMA PassEnds ==
    ASSUME IInv, TypeOK', batch' = NoBatch,
           UNCHANGED <<rows, received, interrupted, lost>>
    PROVE  IInv'
<1>1. Rest' = {}  BY DEF Rest, NoBatch
<1>2. \A n \in Notes : RowInv(n)'  BY RowFrame DEF IInv, rows
<1>3. \A n \in Notes : BatchInv(n)'  BY <1>1 DEF BatchInv
<1>4. OrderInv'  BY <1>1 DEF IInv, OrderInv, rows
<1>5. QED  BY <1>2, <1>3, <1>4 DEF IInv

\* Publication, while nothing is claimed yet.
LEMMA PublishInv == ASSUME IInv, TypeOK', Publish PROVE IInv'
<1>1. Rest = {}
  BY DEF IInv, BatchInv, WaitsInBatch, InSend, TypeOK, Publish
<1>2. Rest' = {}  BY <1>1 DEF Publish, Rest
<1>3. ASSUME NEW n \in Notes PROVE RowInv(n)'
  BY DEF IInv, TypeOK, Publish, RowInv, Excused, Unsent, ghosts
<1>4. \A n \in Notes : BatchInv(n)'  BY <1>2 DEF BatchInv
<1>5. OrderInv'  BY <1>2 DEF OrderInv, Publish, IInv, TypeOK
<1>6. QED  BY <1>3, <1>4, <1>5 DEF IInv

\* The first pending rows are claimed, and no untried one before them is left out.
LEMMA ClaimInv == ASSUME IInv, TypeOK', Claim PROVE IInv'
<1>1. /\ Rest' = Claimable
      /\ \A n \in Rest' : batch'[n] = attempts[n]
      /\ phase' = "deliver"
      /\ UNCHANGED <<rows, receipt, ghosts>>
  BY DEF Claim, Rest
<1>2. \A n \in Notes : RowInv(n)'  BY <1>1, RowFrame DEF IInv, rows, ghosts
<1>3. ASSUME NEW n \in Notes PROVE BatchInv(n)'
  BY <1>1 DEF BatchInv, WaitsInBatch, MidSend, Claimable, Pending, rows
<1>4. ASSUME NEW n \in Claimable, NEW m \in Notes, m < n, status[m] = "queued"
      PROVE  m \in Claimable
  <2> DEFINE Earlier(k) == {j \in 1..(k - 1) : Pending(j)}
  <2>1. n \in Notes /\ Cardinality(Earlier(n)) < BatchSize  BY DEF Claimable
  <2>2. Pending(m)  BY <1>4 DEF Pending, IInv, RowInv
  <2>3. m \in Nat /\ n \in Nat  BY <2>1, ConstantsAssumption DEF Notes
  <2>4. IsFiniteSet(1..(n - 1))  BY <2>3, FS_Interval
  <2>5. Earlier(n) \subseteq 1..(n - 1)  OBVIOUS
  <2>6. IsFiniteSet(Earlier(n))  BY <2>4, <2>5, FS_Subset
  <2>7. Earlier(m) \subseteq Earlier(n)  BY <1>4, <2>3
  <2>8. /\ IsFiniteSet(Earlier(m))
        /\ Cardinality(Earlier(m)) <= Cardinality(Earlier(n))
    BY <2>6, <2>7, FS_Subset
  <2>9. Cardinality(Earlier(m)) \in Nat /\ Cardinality(Earlier(n)) \in Nat
    BY <2>6, <2>8, FS_CardinalityType
  <2>10. Cardinality(Earlier(m)) < BatchSize
    BY <2>1, <2>8, <2>9, ConstantsAssumption
  <2>11. QED  BY <2>2, <2>10 DEF Claimable
<1>5. OrderInv'
  BY <1>1, <1>4 DEF OrderInv, IInv, rows
<1>6. QED  BY <1>2, <1>3, <1>5 DEF IInv

\* A step of the row at hand that leaves the batch alone: the others wait on.
LEMMA OthersWait ==
    ASSUME IInv, NEW n \in Notes, Current(n), UNCHANGED batch,
           NEW k \in Notes, k # n,
           status'[k] = status[k], attempts'[k] = attempts[k]
    PROVE  BatchInv(k)'
<1>1. ~Current(k)  BY OneCurrent DEF IInv
<1>2. Rest' = Rest /\ ~Current(k)'  BY <1>1 DEF Rest, Current
<1>3. QED  BY <1>1, <1>2 DEF IInv, BatchInv, WaitsInBatch

\* The row at hand is done with: the others wait on, and none of them is sent.
LEMMA BatchAdvances ==
    ASSUME IInv, TypeOK', NEW n \in Notes, Current(n), NextInBatch(n),
           status'[n] \notin {"absent", "queued"},
           \A k \in Notes \ {n} : status'[k] = status[k] /\ attempts'[k] = attempts[k]
    PROVE  (\A k \in Notes : BatchInv(k)') /\ OrderInv'
<1>1. /\ Rest' = Rest \ {n}
      /\ \A m \in Rest' : batch'[m] = batch[m]
      /\ phase' \in {"idle", "deliver"}
  BY NextInBatchType DEF IInv
<1>2. ASSUME NEW k \in Notes PROVE BatchInv(k)'
  <2>1. CASE k \in Rest'
    <3>1. k # n /\ k \in Rest  BY <1>1, <2>1
    <3>2. ~Current(k)  BY <3>1, OneCurrent DEF IInv
    <3>3. WaitsInBatch(k)  BY <3>1, <3>2 DEF IInv, BatchInv
    <3>4. QED  BY <1>1, <2>1, <3>1, <3>3 DEF BatchInv, WaitsInBatch, MidSend
  <2>2. QED  BY <2>1 DEF BatchInv
<1>3. n \in Rest /\ status[n] # "absent"
  BY DEF Current, IInv, BatchInv, InSend, WaitsInBatch
<1>4. \A m \in Notes : status[m] # "absent"  BY <1>3 DEF IInv, OrderInv
<1>5. OrderInv'
  BY <1>1, <1>4 DEF IInv, OrderInv
<1>6. QED  BY <1>2, <1>5

\* The steps of the row at hand.
LEMMA RowSteps ==
    ASSUME IInv, TypeOK', NEW n \in Notes, Current(n),
           \/ RefuseRecords(n)
           \/ StartSend(n)
           \/ \E outcome \in Outcomes : Send(n, outcome)
           \/ RecordAttempt(n)
    PROVE  IInv'
<1> USE DEF IInv
<1>0. /\ n \in Rest /\ batch[n] \in Nat /\ Number(n) = batch[n] + 1
      /\ status \in [Notes -> Statuses] /\ attempts \in [Notes -> Nat]
      /\ recorded \in [Notes -> SUBSET (Nat \ {0})]
      /\ due \in [Notes -> BOOLEAN]
      /\ received \in [Notes -> Nat] /\ lost \in [Notes -> Nat]
      /\ interrupted \in [Notes -> Nat]
      /\ MaxAttempts \in Nat
  BY NumberType, ConstantsAssumption DEF TypeOK, Number
<1>1. UNCHANGED batch /\ UNCHANGED interrupted
  BY DEF RefuseRecords, StartSend, Send, RecordAttempt, ghosts
<1>2. Rest' = Rest /\ Current(n)' /\ Number(n)' = Number(n)
  BY <1>1 DEF Rest, Current, Number
<1>3. ASSUME NEW k \in Notes, k # n
      PROVE  /\ status'[k] = status[k] /\ attempts'[k] = attempts[k]
             /\ due'[k] = due[k] /\ recorded'[k] = recorded[k]
             /\ received'[k] = received[k] /\ lost'[k] = lost[k]
  BY <1>0, <1>3
     DEF RefuseRecords, StartSend, Send, RecordAttempt, Write, rows, ghosts
<1>4. \A k \in Notes \ {n} : RowInv(k)' /\ BatchInv(k)'
  BY <1>1, <1>3, RowFrame, OthersWait
<1>5. OrderInv' /\ RowInv(n)' /\ BatchInv(n)'
  <2>1. CASE RefuseRecords(n)
    <3>1. /\ phase = "deliver" /\ phase' = "refused" /\ n \in Undeliverable
          /\ UNCHANGED <<status, attempts, due, ghosts>>
      BY <2>1 DEF RefuseRecords
    <3>2. RowInv(n)'  BY <3>1 DEF RowInv, Excused, ghosts
    <3>3. BatchInv(n)'
      BY <1>1, <1>2, <3>1 DEF BatchInv, WaitsInBatch, MidSend
    <3>4. OrderInv'  BY <1>2, <3>1 DEF OrderInv
    <3>5. QED  BY <3>2, <3>3, <3>4
  <2>2. CASE StartSend(n)
    <3>1. /\ phase = "deliver" /\ phase' = "sending" /\ n \notin Undeliverable
          /\ status'[n] = "sending" /\ attempts'[n] = Number(n) /\ due'[n]
          /\ UNCHANGED <<recorded, ghosts>>
      BY <1>0, <2>2 DEF StartSend, Write
    <3>2. WaitsInBatch(n)  BY <1>0, <3>1 DEF BatchInv, MidSend
    <3>3. RowInv(n)'
      BY <1>0, <3>1, <3>2 DEF RowInv, WaitsInBatch, Excused, Unsent, ghosts
    <3>4. InSend(n)'
      BY <1>0, <1>1, <1>2, <3>1, <3>2
         DEF RowInv, WaitsInBatch, InSend, Excused, Unsent, ghosts
    <3>5. BatchInv(n)'  BY <1>2, <3>1, <3>4 DEF BatchInv, MidSend
    <3>6. \A m \in Notes : status[m] # "absent"
      BY <3>2 DEF WaitsInBatch, OrderInv
    <3>7. OrderInv'  BY <1>2, <1>3, <3>1, <3>6 DEF OrderInv
    <3>8. QED  BY <3>3, <3>5, <3>7
  <2>3. CASE \E outcome \in Outcomes : Send(n, outcome)
    <3>1. PICK outcome \in Outcomes : Send(n, outcome)  BY <2>3
    <3>2. /\ phase = "sending" /\ phase' = "answered"
          /\ UNCHANGED rows /\ receipt' = outcome
          /\ received'[n] = IF outcome \in {"delivered", "lost"} THEN received[n] + 1
                            ELSE received[n]
          /\ lost'[n] = IF outcome = "lost" THEN lost[n] + 1 ELSE lost[n]
      BY <1>0, <3>1 DEF Send
    <3>3. InSend(n)  BY <1>0, <3>2 DEF BatchInv, MidSend
    <3>4. received[n] <= Excused(n)  BY <3>2, <3>3 DEF InSend
    <3>5. RowInv(n)'
      BY <1>0, <1>1, <3>2, <3>3, <3>4 DEF RowInv, InSend, Excused, Unsent, rows
    <3>6. InSend(n)'
      BY <1>0, <1>1, <1>2, <3>2, <3>3, <3>4 DEF InSend, Excused, rows
    <3>7. BatchInv(n)'  BY <1>2, <3>2, <3>6 DEF BatchInv, MidSend
    <3>8. OrderInv'  BY <1>2, <3>2 DEF OrderInv, rows
    <3>9. QED  BY <3>5, <3>7, <3>8
  <2>4. CASE RecordAttempt(n)
    <3>1. /\ phase = "answered" /\ phase' = "recorded"
          /\ recorded'[n] = recorded[n] \cup {Number(n)}
          /\ UNCHANGED <<status, attempts, due, receipt, ghosts>>
      BY <1>0, <2>4 DEF RecordAttempt
    <3>2. InSend(n)  BY <1>0, <3>1 DEF BatchInv, MidSend
    <3>3. RowInv(n)'
      BY <1>0, <3>1, <3>2 DEF RowInv, InSend, Excused, ghosts
    <3>4. InSend(n)'
      BY <1>2, <3>1, <3>2 DEF InSend, Excused, ghosts
    <3>5. BatchInv(n)'  BY <1>2, <3>1, <3>4 DEF BatchInv, MidSend
    <3>6. OrderInv'  BY <1>2, <3>1 DEF OrderInv
    <3>7. QED  BY <3>3, <3>5, <3>6
  <2>5. QED  BY <2>1, <2>2, <2>3, <2>4
<1>6. QED  BY <1>4, <1>5

\* The two ways in which a row is done with.
LEMMA RefuseMarksInv ==
    ASSUME IInv, TypeOK', NEW n \in Notes, RefuseMarks(n) PROVE IInv'
<1> USE DEF IInv
<1>1. /\ Current(n) /\ NextInBatch(n) /\ phase = "refused"
      /\ status' = [status EXCEPT ![n] = "failed"]
      /\ attempts' = [attempts EXCEPT ![n] = Number(n)]
      /\ due' = [due EXCEPT ![n] = TRUE]
      /\ UNCHANGED <<recorded, ghosts>>
  BY DEF RefuseMarks, Write
<1>2. n \in Rest /\ batch[n] \in Nat /\ Number(n) = batch[n] + 1
  BY <1>1, NumberType DEF Number
<1>3. WaitsInBatch(n)  BY <1>1, <1>2 DEF BatchInv, MidSend
<1>4. RowInv(n)'
  BY <1>1, <1>2, <1>3, ConstantsAssumption
     DEF RowInv, WaitsInBatch, Excused, Unsent, ghosts, TypeOK
<1>5. \A k \in Notes \ {n} : RowInv(k)'
  BY <1>1, RowFrame DEF ghosts, TypeOK
<1>6. (\A k \in Notes : BatchInv(k)') /\ OrderInv'
  BY <1>1, BatchAdvances DEF TypeOK
<1>7. QED  BY <1>4, <1>5, <1>6

LEMMA ConcludeInv ==
    ASSUME IInv, TypeOK', NEW n \in Notes, Conclude(n) PROVE IInv'
<1> DEFINE s == Verdict(receipt, Number(n))
<1> USE DEF IInv
<1>1. /\ Current(n) /\ NextInBatch(n) /\ phase = "recorded"
      /\ status' = [status EXCEPT ![n] = s]
      /\ attempts' = [attempts EXCEPT ![n] = Number(n)]
      /\ due' = [due EXCEPT ![n] = s # "retry_wait"]
      /\ UNCHANGED <<recorded, ghosts>>
  BY DEF Conclude, Write
<1>2. n \in Rest /\ batch[n] \in Nat /\ Number(n) = batch[n] + 1
  BY <1>1, NumberType DEF Number
<1>3. InSend(n)  BY <1>1, <1>2 DEF BatchInv, MidSend
<1>4. /\ s \in {"sent", "retry_wait", "failed"}
      /\ s = "sent" <=> receipt = "delivered"
      /\ s = "retry_wait" => Number(n) < MaxAttempts
  BY DEF Verdict
<1> HIDE DEF s
<1>5. RowInv(n)'
  BY <1>1, <1>2, <1>3, <1>4, ConstantsAssumption
     DEF RowInv, InSend, Excused, Unsent, ghosts, TypeOK
<1>6. \A k \in Notes \ {n} : RowInv(k)'
  BY <1>1, RowFrame DEF ghosts, TypeOK
<1>7. (\A k \in Notes : BatchInv(k)') /\ OrderInv'
  BY <1>1, <1>4, BatchAdvances DEF TypeOK
<1>8. QED  BY <1>5, <1>6, <1>7

\* Time and recovery.
LEMMA BecomesDueInv ==
    ASSUME IInv, TypeOK', NEW n \in Notes, BecomesDue(n) PROVE IInv'
<1> USE DEF IInv
<1>1. /\ due' = [due EXCEPT ![n] = TRUE]
      /\ UNCHANGED <<status, attempts, recorded, phase, batch, receipt, ghosts>>
  BY DEF BecomesDue
<1>2. \A k \in Notes : RowInv(k)'
  BY <1>1 DEF RowInv, Excused, ghosts, TypeOK
<1>3. \A k \in Notes : BatchInv(k)'
  BY <1>1 DEF BatchInv, WaitsInBatch, InSend, Current, Number, Rest, Excused, ghosts
<1>4. OrderInv'  BY <1>1 DEF OrderInv, Rest
<1>5. QED  BY <1>2, <1>3, <1>4

LEMMA RecoverInv ==
    ASSUME IInv, TypeOK', NEW n \in Notes, Recover(n) PROVE IInv'
<1> USE DEF IInv
<1>1. /\ phase = "down" /\ status[n] = "sending"
      /\ status' = [status EXCEPT ![n] = "queued"]
      /\ attempts' = [attempts EXCEPT ![n] = attempts[n]]
      /\ due' = [due EXCEPT ![n] = TRUE]
      /\ interrupted' = [interrupted EXCEPT ![n] = @ + 1]
      /\ UNCHANGED <<recorded, phase, batch, receipt, received, lost>>
  BY DEF Recover, Write
<1>2. Rest' = {}  BY <1>1 DEF TypeOK, Rest
<1>3. RowInv(n)'
  BY <1>1, ConstantsAssumption DEF RowInv, Excused, Unsent, TypeOK
<1>4. \A k \in Notes \ {n} : RowInv(k)'
  BY <1>1, RowFrame DEF TypeOK
<1>5. \A k \in Notes : BatchInv(k)'  BY <1>2 DEF BatchInv
<1>6. OrderInv'  BY <1>1, <1>2 DEF OrderInv, TypeOK
<1>7. QED  BY <1>3, <1>4, <1>5, <1>6

LEMMA NextInv == IInv /\ [Next]_vars => IInv'
<1> SUFFICES ASSUME IInv, [Next]_vars PROVE IInv'  OBVIOUS
<1>0. TypeOK'  BY TypeInv DEF IInv
<1>1. CASE Publish  BY <1>0, <1>1, PublishInv
<1>2. CASE Claim  BY <1>0, <1>2, ClaimInv
<1>3. ASSUME NEW n \in Notes,
             \/ RefuseRecords(n)
             \/ StartSend(n)
             \/ \E outcome \in Outcomes : Send(n, outcome)
             \/ RecordAttempt(n)
      PROVE  IInv'
  <2>1. Current(n)  BY <1>3 DEF RefuseRecords, StartSend, Send, RecordAttempt
  <2>2. QED  BY <1>0, <1>3, <2>1, RowSteps
<1>4. ASSUME NEW n \in Notes, RefuseCollides(n) PROVE IInv'
  BY <1>0, <1>4, PassEnds DEF RefuseCollides, ghosts
<1>5. ASSUME NEW n \in Notes, RefuseMarks(n) PROVE IInv'  BY <1>0, <1>5, RefuseMarksInv
<1>6. ASSUME NEW n \in Notes, Conclude(n) PROVE IInv'  BY <1>0, <1>6, ConcludeInv
<1>7. ASSUME NEW n \in Notes, BecomesDue(n) PROVE IInv'  BY <1>0, <1>7, BecomesDueInv
<1>8. CASE Abort  BY <1>0, <1>8, PassEnds DEF Abort
<1>9. CASE Crash  BY <1>0, <1>9, PassEnds DEF Crash
<1>10. ASSUME NEW n \in Notes, Recover(n) PROVE IInv'  BY <1>0, <1>10, RecoverInv
<1>11. CASE Restarted
  <2>1. batch' = NoBatch \/ Rest' = {}
    BY <1>11 DEF Restarted, IInv, TypeOK, Rest
  <2>2. \A n \in Notes : RowInv(n)'
    BY <1>11, RowFrame DEF Restarted, IInv, rows, ghosts
  <2>3. Rest' = {}  BY <2>1 DEF Rest, NoBatch
  <2>4. \A n \in Notes : BatchInv(n)'  BY <2>3 DEF BatchInv
  <2>5. OrderInv'  BY <1>11, <2>3 DEF Restarted, IInv, OrderInv, rows
  <2>6. QED  BY <1>0, <2>2, <2>4, <2>5 DEF IInv
<1>12. CASE UNCHANGED vars
  <2>1. \A n \in Notes : RowInv(n)'
    BY <1>12, RowFrame DEF IInv, vars, rows, ghosts
  <2>2. \A n \in Notes : BatchInv(n)'
    BY <1>12 DEF IInv, BatchInv, WaitsInBatch, InSend, Current, Number, Rest, Excused,
                 vars, rows, ghosts
  <2>3. OrderInv'  BY <1>12 DEF IInv, OrderInv, Rest, vars, rows
  <2>4. QED  BY <1>0, <2>1, <2>2, <2>3 DEF IInv
<1>13. QED
  BY <1>1, <1>2, <1>3, <1>4, <1>5, <1>6, <1>7, <1>8, <1>9, <1>10, <1>11, <1>12
     DEF Next, Pass, Startup

LEMMA Invariance == Spec => []IInv
<1>1. QED  BY InitInv, NextInv, PTL DEF Spec

-----------------------------------------------------------------------------
\* The rows and the state of the dispatcher have their types.
THEOREM TypeCorrect == Spec => []TypeOK
<1>1. IInv => TypeOK  BY DEF IInv
<1>2. QED  BY <1>1, Invariance, PTL

\* A notification that is SENT was received (recovery never invents a delivery).
THEOREM SentIsTrue == Spec => []SentWasReceived
<1>1. IInv => SentWasReceived  BY DEF IInv, RowInv, SentWasReceived
<1>2. QED  BY <1>1, Invariance, PTL

\* The attempts are bounded by max_attempts and the interruptions.
THEOREM AttemptsAreLimited == Spec => []AttemptsLimited
<1>1. IInv => AttemptsLimited  BY DEF IInv, RowInv, AttemptsLimited
<1>2. QED  BY <1>1, Invariance, PTL

\* A copy too many has a crash or a lost answer to blame.
THEOREM CopiesAreExplained == Spec => []CopiesExplained
<1>1. IInv => CopiesExplained
  BY DEF IInv, TypeOK, RowInv, Excused, CopiesExplained
<1>2. QED  BY <1>1, Invariance, PTL

\* The insert of an answered send never breaks the UNIQUE constraint.
THEOREM NumbersAreFree == Spec => []AttemptNumberFree
<1>1. ASSUME IInv PROVE AttemptNumberFree
  <2> SUFFICES ASSUME NEW n \in Notes, phase = "answered", Current(n)
               PROVE  Number(n) \notin recorded[n]
    BY DEF AttemptNumberFree
  <2>1. n \in Rest /\ batch[n] \in Nat /\ Number(n) = batch[n] + 1
    BY <1>1, NumberType DEF IInv, Number
  <2>2. recorded[n] \subseteq 1..batch[n]
    BY <1>1, <2>1 DEF IInv, BatchInv, InSend, MidSend
  <2>3. QED  BY <2>1, <2>2
<1>2. QED  BY <1>1, Invariance, PTL

\* No pass and no recovery takes up a notification that has its verdict.
THEOREM VerdictsRemain == Spec => VerdictsStay
<1>1. IInv /\ [Next]_vars => [\A n \in Notes : status[n] \in Final => status'[n] = status[n]]_vars
  <2> SUFFICES ASSUME IInv, Next, NEW k \in Notes, status[k] \in Final
               PROVE  status'[k] = status[k]
    OBVIOUS
  <2> USE DEF Final
  <2>1. CASE Publish  BY <2>1 DEF Publish
  <2>2. ASSUME NEW n \in Notes, RefuseMarks(n) \/ StartSend(n) \/ Conclude(n)
        PROVE  status'[k] = status[k]
    <3>1. Current(n)  BY <2>2 DEF RefuseMarks, StartSend, Conclude
    <3>2. k # n
      BY <3>1 DEF Current, IInv, BatchInv, InSend, WaitsInBatch
    <3>3. QED
      BY <2>2, <3>2 DEF RefuseMarks, StartSend, Conclude, Write, IInv, TypeOK
  <2>3. ASSUME NEW n \in Notes, Recover(n) PROVE status'[k] = status[k]
    BY <2>3 DEF Recover, Write, IInv, TypeOK
  <2>4. QED
    BY <2>1, <2>2, <2>3
       DEF Next, Pass, Startup, Claim, RefuseRecords, RefuseCollides, Send,
           RecordAttempt, BecomesDue, Abort, Crash, Restarted, rows
<1>2. QED  BY <1>1, Invariance, PTL DEF Spec, VerdictsStay

\* The first sends keep the order of the queue.
THEOREM QueueKeepsOrder == Spec => QueueOrder
<1>1. IInv /\ [Next]_vars =>
        [\A m, n \in Notes :
            (m < n /\ attempts[n] = 0 /\ attempts'[n] = 1) => attempts[m] > 0]_vars
  <2> SUFFICES ASSUME IInv, Next, NEW m \in Notes, NEW n \in Notes,
                      m < n, attempts[n] = 0, attempts'[n] = 1
               PROVE  attempts[m] > 0
    OBVIOUS
  <2>1. \E k \in Notes : RefuseMarks(k) \/ StartSend(k) \/ Conclude(k)
    BY DEF Next, Pass, Startup, Publish, Claim, RefuseRecords, RefuseCollides, Send,
           RecordAttempt, BecomesDue, Abort, Crash, Recover, Restarted, Write, rows,
           IInv, TypeOK
  <2>2. PICK k \in Notes : RefuseMarks(k) \/ StartSend(k) \/ Conclude(k)  BY <2>1
  <2>3. k = n
    BY <2>2 DEF RefuseMarks, StartSend, Conclude, Write, IInv, TypeOK
  <2>4. Current(n)  BY <2>2, <2>3 DEF RefuseMarks, StartSend, Conclude
  <2>5. n \in Rest /\ status[n] # "absent"
    BY <2>4 DEF Current, IInv, BatchInv, InSend, WaitsInBatch
  <2>6. m \notin Rest
    BY <2>4, ConstantsAssumption DEF Current, Notes
  <2>7. status[m] # "absent"  BY <2>5 DEF IInv, OrderInv
  <2>8. status[m] # "queued" \/ attempts[m] # 0  BY <2>5, <2>6 DEF IInv, OrderInv
  <2>9. QED  BY <2>7, <2>8 DEF IInv, RowInv, TypeOK
<1>2. QED  BY <1>1, Invariance, PTL DEF Spec, QueueOrder

\* The rows of the notifications tell the truth about what the destinations
\* received, whatever is lost on the way (dispatcher.py, app/recovery.py).
THEOREM RecordsAreTrue == Spec => []RecordsTrue
BY TypeCorrect, SentIsTrue, AttemptsAreLimited, CopiesAreExplained, NumbersAreFree, PTL
   DEF RecordsTrue
=============================================================================
