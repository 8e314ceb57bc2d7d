---------------------------- MODULE Storage_proofs ----------------------------
(***************************************************************************)
(* What the storage promises, for every set of writers, versions, builds   *)
(* and backups.  The invariant has three layers.  The connection: who      *)
(* holds the lock is who waits for a statement, and every call in the      *)
(* thread is either the latest of its writer or was abandoned by a         *)
(* cancellation.  Only with this is it known whose statement runs, so that *)
(* the second layer can say what the open transaction and the file hold.   *)
(* The third relates the fee snapshots, the migrations and the backups to  *)
(* the writers behind them; of the file it uses only that it is whole.     *)
(***************************************************************************)
EXTENDS Storage, FiniteSetTheorems, SequenceTheorems, WellFoundedInduction, TLAPS

-------------------------------------------------------------------------------
(* The invariant.                                                            *)

CallType == [op : Calls, by : Writers]

ConnectionType ==
    /\ lock \in Writers \cup {None}
    /\ queue \in Seq(Writers)
    /\ thread \in Seq(CallType)
    /\ pc \in [Writers -> {"idle"} \cup Waits \cup Ended]

\* Who waits for a statement, or between two, is who holds the lock.
LockInv ==
    /\ lock = None => queue = <<>>
    /\ \A w \in Writers : pc[w] \in Waits \ {"lock"} <=> lock = w
    /\ \A i \in 1..Len(queue) : pc[queue[i]] = "lock"
    /\ \A i, j \in 1..Len(queue) : queue[i] = queue[j] => i = j

\* A call in the thread is the one its writer waits for, and then the last ...
Latest(i) ==
    /\ i = Len(thread) /\ lock = thread[i].by /\ pc[thread[i].by] = thread[i].op

\* ... or its writer was cancelled, and has gone or waits for its ROLLBACK.
Abandoned(i) ==
    /\ thread[i].by \in cancelled
    /\ thread[i].op = "begin" => thread[i].by \in orphans
    /\ \/ pc[thread[i].by] = "cancelled" /\ thread[i].op # "write"
       \/ /\ i = 1 /\ Len(thread) = 2 /\ thread[1].op = "write"
          /\ pc[thread[i].by] = "rollback"

ThreadInv ==
    /\ \A w \in Writers : pc[w] \in Calls =>
          thread # <<>> /\ thread[Len(thread)] = Call(pc[w], w)
    /\ \A i \in 1..Len(thread) : Latest(i) \/ Abandoned(i)

ConnInv == ConnectionType /\ LockInv /\ ThreadInv

\* Of the calls in the thread only the first writes or commits, inside the
\* transaction that its writer has opened and that holds what it wrote.
WrittenBy(w) == {<<w, k>> : k \in 1..written[w]}

CallInv ==
    \A i \in 1..Len(thread) :
       /\ thread[i].op = "statement" <=> thread[i].by \notin Transactions
       /\ thread[i].op \in {"write", "commit"} => i = 1 /\ inTransaction
       /\ thread[i].op = "write" =>
             written[thread[i].by] \in {0, 1} /\ pending = WrittenBy(thread[i].by)
       /\ thread[i].op = "commit" => pending = RowsOf(thread[i].by)

\* Somebody is about to end the open transaction, unless one was left behind.
OpenInv ==
    inTransaction /\ orphans = {} =>
        1 \in 1..Len(thread) /\ thread[1].op \in {"write", "commit", "rollback"}

WriterInv ==
    \A w \in Writers :
       /\ pc[w] \in {"idle", "lock", "begin", "backoff", "statement"} => written[w] = 0
       /\ pc[w] \in {"idle"} \cup Waits => tries[w] < MaxLockRetries
       /\ pc[w] \in Calls => (pc[w] = "statement" <=> w \notin Transactions)
       /\ w \in cancelled => pc[w] \in {"rollback", "cancelled", "lost"}
       /\ pc[w] = "cancelled" => w \in cancelled

\* Rows in the file are those of writers that ended well or were cancelled.
FileInv ==
    \A w \in Writers :
       /\ RowsOf(w) \cap file # {} => RowsOf(w) \subseteq file /\ pc[w] \in {"ok", "cancelled"}
       /\ pc[w] = "ok" /\ w \notin Copying /\ RowsOf(w) \cap file = {} =>
             orphans # {} /\ w \notin Transactions

DBInv == DatabaseTypeOK /\ LockInv /\ ThreadInv /\ CallInv /\ OpenInv /\ WriterInv /\ FileInv

-------------------------------------------------------------------------------
(* The connection.                                                           *)

LEMMA Constants ==
    /\ None \notin Writers
    /\ Transactions \subseteq Writers /\ Copying \subseteq Writers \ Transactions
    /\ MaxLockRetries \in Nat /\ MaxLockRetries > 0
    /\ \A w \in Writers : First(w) \in {"begin", "statement"}
BY DatabaseAssumption DEF First

LEMMA CallFields ==
    \A o, w : Call(o, w).op = o /\ Call(o, w).by = w /\ (o \in Calls /\ w \in Writers => Call(o, w) \in CallType)
BY DEF Call, CallType

LEMMA ThreadElements ==
    ASSUME ConnectionType, NEW i \in 1..Len(thread)
    PROVE  /\ thread[i] \in CallType /\ thread[i].by \in Writers /\ thread[i].op \in Calls
           /\ thread[i] = Call(thread[i].op, thread[i].by)
<1>1. thread[i] \in CallType  BY ElementOfSeq DEF ConnectionType
<1>2. QED  BY <1>1 DEF CallType, Call

\* The statement whose turn it is.
LEMMA HeadOfThread ==
    ASSUME ConnInv, thread # <<>>
    PROVE  /\ Head(thread) = thread[1] /\ 1 \in 1..Len(thread) /\ Len(thread) \in Nat
           /\ Author \in Writers /\ Head(thread).op \in Calls
           /\ Rest \in Seq(CallType) /\ Len(Rest) = Len(thread) - 1
           /\ \A i \in 1..Len(Rest) : Rest[i] = thread[i + 1]
           /\ Awaited => Len(thread) = 1 /\ Rest = <<>>
           /\ ~Awaited => Abandoned(1)
<1> USE DEF ConnInv
<1>1. thread \in Seq(CallType)  BY DEF ConnectionType
<1>2. /\ Len(thread) \in Nat \ {0} /\ Head(thread) = thread[1]
      BY <1>1, EmptySeq, LenProperties
<1>3. /\ Rest \in Seq(CallType) /\ Len(Rest) = Len(thread) - 1
      /\ \A i \in 1..Len(Rest) : Rest[i] = thread[i + 1]
      BY <1>1, HeadTailProperties DEF Rest
<1>4. thread[1].by \in Writers /\ thread[1].op \in Calls
      BY <1>2, ThreadElements
<1>5. Latest(1) \/ Abandoned(1)  BY <1>2 DEF ThreadInv
<1>6. Awaited => ~Abandoned(1)
      BY <1>2, <1>4 DEF Awaited, Author, Abandoned, Calls
<1>7. Awaited => Len(thread) = 1  BY <1>5, <1>6 DEF Latest
<1>8. Len(thread) = 1 => Rest = <<>>  BY <1>3, EmptySeq
<1>9. ~Awaited => ~Latest(1)  BY <1>2 DEF Awaited, Author, Latest
<1>10. QED  BY <1>2, <1>3, <1>4, <1>5, <1>6, <1>7, <1>8, <1>9 DEF Author

\* NobodyWaits: the writer of the statement has gone, the thread goes on.
LEMMA DropKeeps ==
    ASSUME ConnInv, thread # <<>>, ~Awaited, NobodyWaits,
           UNCHANGED cancelled, orphans \subseteq orphans'
    PROVE  ConnInv'
<1> USE DEF NobodyWaits
<1>1. /\ Len(thread) \in Nat /\ thread' \in Seq(CallType) /\ Len(thread') = Len(thread) - 1
      /\ \A i \in 1..Len(thread') : thread'[i] = thread[i + 1]
      /\ thread[1].by \in Writers /\ Head(thread) = thread[1]
      BY HeadOfThread DEF Author
<1>2. ConnectionType' /\ LockInv'
      BY <1>1 DEF ConnInv, ConnectionType, LockInv
<1>3. ASSUME NEW w \in Writers, pc'[w] \in Calls
      PROVE  thread' # <<>> /\ thread'[Len(thread')] = Call(pc'[w], w)
  <2>1. thread[Len(thread)] = Call(pc[w], w)  BY <1>3 DEF ConnInv, ThreadInv
  <2>2. Len(thread) # 1
    <3>1. SUFFICES ASSUME Len(thread) = 1 PROVE FALSE  OBVIOUS
    <3>2. Author = w /\ Head(thread).op = pc[w]
          BY <1>1, <2>1, <3>1, CallFields DEF Author
    <3>3. lock = w  BY <1>3 DEF ConnInv, LockInv, Calls, Waits
    <3>4. QED  BY <3>2, <3>3 DEF Awaited
  <2>3. Len(thread') \in 1..Len(thread')  BY <1>1, <2>2
  <2>4. thread' # <<>>  BY <2>3, EmptySeq
  <2>5. QED  BY <1>1, <2>1, <2>3, <2>4
<1>4. ASSUME NEW i \in 1..Len(thread')
      PROVE  Latest(i)' \/ Abandoned(i)'
  <2>1. i + 1 \in 1..Len(thread) /\ thread'[i] = thread[i + 1] /\ i + 1 # 1
        BY <1>1
  <2>2. Latest(i + 1) \/ Abandoned(i + 1)  BY <2>1 DEF ConnInv, ThreadInv
  <2>3. CASE Latest(i + 1)
    <3>1. i = Len(thread')  BY <1>1, <2>3 DEF Latest
    <3>2. QED  BY <2>1, <2>3, <3>1 DEF Latest
  <2>4. CASE Abandoned(i + 1)
        BY <2>1, <2>4 DEF Abandoned
  <2>5. QED  BY <2>2, <2>3, <2>4
<1>5. QED  BY <1>2, <1>3, <1>4 DEF ConnInv, ThreadInv

\* Continue: the holder of the lock hands over its next statement, and all that
\* the thread still has are calls of writers that were cancelled.
LEMMA ContinueKeeps ==
    ASSUME ConnInv, NEW w \in Writers, lock = w, NEW op \in Calls,
           NEW calls \in Seq(CallType), Continue(w, op, calls),
           \A i \in 1..Len(calls) : Abandoned(i)'
    PROVE  ConnInv'
<1> USE DEF Continue
<1>0. Call(op, w) \in CallType /\ Call(op, w).op = op /\ Call(op, w).by = w  BY CallFields
<1>1. /\ thread' \in Seq(CallType) /\ thread' # <<>>
      /\ Len(calls) \in Nat /\ Len(thread') = Len(calls) + 1
      /\ thread'[Len(thread')] = Call(op, w)
      BY <1>0, AppendProperties, LenProperties
<1>2. pc'[w] = op /\ \A v \in Writers \ {w} : pc'[v] = pc[v]
      BY DEF ConnInv, ConnectionType
<1>3. op \in Waits \ {"lock"} /\ pc[w] # "lock" /\ w # None
      BY Constants DEF ConnInv, LockInv, Calls, Waits
<1>4. ConnectionType'  BY <1>1, <1>3 DEF ConnInv, ConnectionType
<1>5. LockInv'
  <2>1. ASSUME NEW v \in Writers
        PROVE  pc'[v] \in Waits \ {"lock"} <=> lock' = v
        BY <1>2, <1>3 DEF ConnInv, LockInv
  <2>2. ASSUME NEW i \in 1..Len(queue)  PROVE pc'[queue[i]] = "lock"
    <3>1. queue[i] \in Writers  BY ElementOfSeq DEF ConnInv, ConnectionType
    <3>2. pc[queue[i]] = "lock"  BY DEF ConnInv, LockInv
    <3>3. QED  BY <1>2, <1>3, <3>1, <3>2
  <2>3. QED  BY <2>1, <2>2 DEF ConnInv, LockInv
<1>6. ASSUME NEW v \in Writers, pc'[v] \in Calls
      PROVE  thread' # <<>> /\ thread'[Len(thread')] = Call(pc'[v], v)
  <2>1. v = w  BY <1>5, <1>6 DEF LockInv, Calls, Waits
  <2>2. QED  BY <1>1, <1>2, <2>1
<1>7. ASSUME NEW i \in 1..Len(thread')  PROVE Latest(i)' \/ Abandoned(i)'
  <2>1. CASE i = Len(thread')  BY <1>0, <1>1, <1>2, <2>1 DEF Latest
  <2>2. CASE i # Len(thread')
    <3>1. i \in 1..Len(calls)  BY <1>1, <2>2
    <3>2. QED  BY <3>1
  <2>3. QED  BY <2>1, <2>2
<1>8. QED  BY <1>4, <1>5, <1>6, <1>7 DEF ConnInv, ThreadInv

\* Leave: what it does to the writers.
LEMMA LeaveEffect ==
    ASSUME ConnInv, NEW w \in Writers, lock = w, NEW outcome, NEW calls \in Seq(CallType),
           Leave(w, outcome, calls), outcome \in Ended
    PROVE  /\ pc' \in [Writers -> {"idle"} \cup Waits \cup Ended]
           /\ pc'[w] = outcome
           /\ \/ /\ lock' = None /\ queue = <<>> /\ queue' = <<>> /\ thread' = calls
                 /\ \A v \in Writers \ {w} : pc'[v] = pc[v]
              \/ \E n \in Writers \ {w} :
                    /\ queue # <<>> /\ n = Head(queue) /\ pc[n] = "lock"
                    /\ lock' = n /\ queue' = Tail(queue)
                    /\ thread' = Append(calls, Call(First(n), n)) /\ pc'[n] = First(n)
                    /\ \A v \in Writers \ {w, n} : pc'[v] = pc[v]
<1> DEFINE next == IF queue = <<>> THEN None ELSE Head(queue)
<1>1. /\ lock' = next
      /\ queue' = IF next = None THEN queue ELSE Tail(queue)
      /\ thread' = IF next = None THEN calls ELSE Append(calls, Call(First(next), next))
      /\ pc' = [v \in Writers |-> IF v = w THEN outcome
                                 ELSE IF v = next THEN First(v) ELSE pc[v]]
      BY DEF Leave
<1>2. pc[w] # "lock"  BY DEF ConnInv, LockInv, Waits
<1>3. queue # <<>> => next \in Writers /\ pc[next] = "lock" /\ next = Head(queue)
  <2>1. SUFFICES ASSUME queue # <<>> PROVE Head(queue) \in Writers /\ pc[Head(queue)] = "lock"
        OBVIOUS
  <2>2. queue \in Seq(Writers)  BY DEF ConnInv, ConnectionType
  <2>3. Len(queue) \in Nat \ {0}  BY <2>1, <2>2, EmptySeq
  <2>4. Head(queue) = queue[1] /\ 1 \in 1..Len(queue)  BY <2>2, <2>3
  <2>5. QED  BY <2>2, <2>4, ElementOfSeq DEF ConnInv, LockInv
<1> HIDE DEF next
<1>4. CASE queue = <<>>
  <2>1. next = None  BY <1>4 DEF next
  <2>2. next \notin Writers  BY <2>1, Constants
  <2>3. \A v \in Writers \ {w} : pc'[v] = pc[v]  BY <1>1, <2>2
  <2>4. pc' \in [Writers -> {"idle"} \cup Waits \cup Ended] /\ pc'[w] = outcome
        BY <1>1, <2>2 DEF ConnInv, ConnectionType
  <2>5. QED  BY <1>1, <1>4, <2>1, <2>3, <2>4
<1>5. CASE queue # <<>>
  <2>1. next \in Writers \ {w} /\ next # None /\ pc[next] = "lock" /\ next = Head(queue)
        BY <1>2, <1>3, <1>5, Constants
  <2>2. pc'[next] = First(next) /\ \A v \in Writers \ {w, next} : pc'[v] = pc[v]
        BY <1>1, <2>1
  <2>3. First(next) \in Waits  BY <2>1, Constants DEF Waits
  <2>4. pc' \in [Writers -> {"idle"} \cup Waits \cup Ended] /\ pc'[w] = outcome
        BY <1>1, <2>1, <2>3 DEF ConnInv, ConnectionType
  <2>5. QED  BY <1>1, <1>5, <2>1, <2>2, <2>4
<1>6. QED  BY <1>4, <1>5

\* A step in which w leaves keeps the connection in order, if all that is left
\* in the thread are calls of writers that were cancelled and have gone.
LEMMA LeaveKeeps ==
    ASSUME ConnInv, NEW w \in Writers, lock = w, NEW outcome,
           NEW calls \in Seq(CallType),
           Leave(w, outcome, calls), outcome \in Ended,
           \A i \in 1..Len(calls) :
              /\ calls[i].by \in cancelled' /\ pc'[calls[i].by] = "cancelled"
              /\ calls[i].op # "write"
              /\ calls[i].op = "begin" => calls[i].by \in orphans'
    PROVE  ConnInv'
<1>0. /\ pc[w] # "lock" /\ outcome \notin Waits /\ outcome \notin Calls
      BY DEF ConnInv, LockInv, Waits, Ended, Calls
<1>1. /\ pc' \in [Writers -> {"idle"} \cup Waits \cup Ended]
      /\ pc'[w] = outcome
      BY LeaveEffect
<1>2. CASE /\ lock' = None /\ queue = <<>> /\ queue' = <<>> /\ thread' = calls
           /\ \A v \in Writers \ {w} : pc'[v] = pc[v]
  <2>1. ConnectionType'  BY <1>1, <1>2 DEF ConnInv, ConnectionType
  <2>2. \A v \in Writers : pc'[v] \notin Waits \ {"lock"}
        BY <1>0, <1>1, <1>2 DEF ConnInv, LockInv
  <2>3. LockInv'
    <3>1. Len(queue') = 0  BY <1>2, EmptySeq
    <3>2. QED  BY <1>2, <2>2, <3>1, Constants DEF LockInv
  <2>4. \A v \in Writers : pc'[v] \notin Calls  BY <2>2 DEF Calls, Waits
  <2>5. \A i \in 1..Len(thread') : Abandoned(i)'  BY <1>2 DEF Abandoned
  <2>6. QED  BY <2>1, <2>3, <2>4, <2>5 DEF ConnInv, ThreadInv
<1>3. ASSUME NEW n \in Writers \ {w},
             queue # <<>>, n = Head(queue), pc[n] = "lock",
             lock' = n, queue' = Tail(queue),
             thread' = Append(calls, Call(First(n), n)), pc'[n] = First(n),
             \A v \in Writers \ {w, n} : pc'[v] = pc[v]
      PROVE  ConnInv'
  <2>1. /\ First(n) \in Calls /\ First(n) \in Waits \ {"lock"} /\ n # None
        /\ Call(First(n), n) \in CallType
        /\ Call(First(n), n).by = n /\ Call(First(n), n).op = First(n)
        BY Constants, CallFields DEF Calls, Waits
  <2>2. /\ thread' \in Seq(CallType) /\ thread' # <<>>
        /\ Len(calls) \in Nat /\ Len(thread') = Len(calls) + 1
        /\ thread'[Len(thread')] = Call(First(n), n)
        /\ \A i \in 1..Len(calls) : thread'[i] = calls[i]
        BY <1>3, <2>1, AppendProperties, LenProperties
  <2>3. /\ queue \in Seq(Writers) /\ queue' \in Seq(Writers)
        /\ Len(queue) \in Nat /\ Len(queue') = Len(queue) - 1
        /\ \A i \in 1..Len(queue') : queue'[i] = queue[i + 1]
        /\ Head(queue) = queue[1]
        BY <1>3, HeadTailProperties, LenProperties DEF ConnInv, ConnectionType
  <2>4. ConnectionType'  BY <1>1, <1>3, <2>2, <2>3 DEF ConnInv, ConnectionType
  <2>5. ASSUME NEW v \in Writers
        PROVE  pc'[v] \in Waits \ {"lock"} <=> lock' = v
        BY <1>0, <1>1, <1>3, <2>1 DEF ConnInv, LockInv
  <2>6. ASSUME NEW i \in 1..Len(queue')  PROVE pc'[queue'[i]] = "lock"
    <3>1. i + 1 \in 1..Len(queue) /\ 1 \in 1..Len(queue) /\ i + 1 # 1  BY <2>3
    <3>2. queue[i + 1] \in Writers  BY <2>3, <3>1, ElementOfSeq
    <3>3. queue[i + 1] # n /\ pc[queue[i + 1]] = "lock"
          BY <1>3, <2>3, <3>1 DEF ConnInv, LockInv
    <3>4. QED  BY <1>0, <1>3, <2>3, <3>2, <3>3
  <2>7. ASSUME NEW i \in 1..Len(queue'), NEW j \in 1..Len(queue'), queue'[i] = queue'[j]
        PROVE  i = j
    <3>1. i + 1 \in 1..Len(queue) /\ j + 1 \in 1..Len(queue)  BY <2>3
    <3>2. i + 1 = j + 1  BY <2>3, <2>7, <3>1 DEF ConnInv, LockInv
    <3>3. QED  BY <3>2
  <2>8. LockInv'  BY <1>3, <2>1, <2>5, <2>6, <2>7 DEF LockInv
  <2>9. ASSUME NEW v \in Writers, pc'[v] \in Calls
        PROVE  thread' # <<>> /\ thread'[Len(thread')] = Call(pc'[v], v)
    <3>1. v = n  BY <1>3, <2>5, <2>9 DEF Calls, Waits
    <3>2. QED  BY <1>3, <2>2, <3>1
  <2>10. ASSUME NEW i \in 1..Len(thread')  PROVE Latest(i)' \/ Abandoned(i)'
    <3>1. CASE i = Len(thread')  BY <1>3, <2>1, <2>2, <3>1 DEF Latest
    <3>2. CASE i # Len(thread')
      <4>1. i \in 1..Len(calls)  BY <2>2, <3>2
      <4>2. thread'[i] = calls[i]  BY <2>2, <4>1
      <4>3. QED  BY <4>1, <4>2 DEF Abandoned
    <3>3. QED  BY <3>1, <3>2
  <2>11. QED  BY <2>4, <2>8, <2>9, <2>10 DEF ConnInv, ThreadInv
<1>4. QED  BY <1>2, <1>3, LeaveEffect

-------------------------------------------------------------------------------
(* What a step of the thread leaves of the rest.                             *)

LEMMA Connected ==
    ASSUME DBInv PROVE ConnInv
BY DEF DBInv, ConnInv, DatabaseTypeOK, ConnectionType, CallType

LEMMA OwnRows ==
    /\ \A v, w \in Writers : v # w => RowsOf(v) \cap RowsOf(w) = {}
    /\ \A w \in Writers : RowsOf(w) # {} /\ RowsOf(w) \subseteq AllRows
    /\ \A w \in Transactions : RowsOf(w) = {<<w, 1>>, <<w, 2>>}
<1>1. \A v, w \in Writers : v # w => RowsOf(v) \cap RowsOf(w) = {}  BY DEF RowsOf
<1>2. ASSUME NEW w \in Writers  PROVE RowsOf(w) # {} /\ RowsOf(w) \subseteq AllRows
  <2>1. <<w, 1>> \in RowsOf(w)  BY DEF RowsOf
  <2>2. RowsOf(w) \subseteq AllRows  BY Zenon DEF AllRows
  <2>3. QED  BY <2>1, <2>2
<1>3. \A w \in Transactions : RowsOf(w) = {<<w, 1>>, <<w, 2>>}  BY DEF RowsOf
<1>4. QED  BY <1>1, <1>2, <1>3

\* A writer other than the one whose turn it is: it waits on, or has got the lock.
Same(v) == pc'[v] = pc[v] \/ (pc[v] = "lock" /\ pc'[v] = First(v))

LEMMA SamePlace ==
    ASSUME NEW v \in Writers, Same(v), DBInv
    PROVE  /\ pc'[v] # pc[v] => pc[v] \in Waits /\ pc'[v] \in {"begin", "statement"}
           /\ pc'[v] \in Calls /\ pc'[v] # pc[v] => (pc'[v] = "statement" <=> v \notin Transactions)
BY Constants DEF Same, First, Waits, Calls

LEMMA FileKeeps ==
    ASSUME DBInv, file' = file, orphans \subseteq orphans',
           \A v \in Writers : \/ pc'[v] = pc[v]
                              \/ pc[v] \notin {"ok", "cancelled"} /\ (pc'[v] # "ok" \/ v \in Copying)
    PROVE  FileInv'
<1> SUFFICES ASSUME NEW w \in Writers
             PROVE /\ RowsOf(w) \cap file # {} => RowsOf(w) \subseteq file /\ pc'[w] \in {"ok", "cancelled"}
                   /\ pc'[w] = "ok" /\ w \notin Copying /\ RowsOf(w) \cap file = {} =>
                         orphans' # {} /\ w \notin Transactions
    BY DEF FileInv, RowsOf
<1>1. QED  BY DEF DBInv, FileInv

LEMMA FileGrows ==
    ASSUME DBInv, NEW w \in Writers, file' = file \cup RowsOf(w), orphans \subseteq orphans',
           pc'[w] \in {"ok", "cancelled"},
           \A v \in Writers \ {w} : \/ pc'[v] = pc[v]
                                    \/ pc[v] \notin {"ok", "cancelled"} /\ pc'[v] # "ok"
    PROVE  FileInv'
<1> SUFFICES ASSUME NEW v \in Writers
             PROVE /\ RowsOf(v) \cap file' # {} => RowsOf(v) \subseteq file' /\ pc'[v] \in {"ok", "cancelled"}
                   /\ pc'[v] = "ok" /\ v \notin Copying /\ RowsOf(v) \cap file' = {} =>
                         orphans' # {} /\ v \notin Transactions
    BY DEF FileInv, RowsOf
<1>1. CASE v = w
  <2>1. RowsOf(v) \subseteq file' /\ RowsOf(v) # {}  BY <1>1, OwnRows
  <2>2. QED  BY <1>1, <2>1
<1>2. CASE v # w
  <2>1. RowsOf(v) \cap RowsOf(w) = {}  BY <1>2, OwnRows
  <2>2. RowsOf(v) \cap file' = RowsOf(v) \cap file  BY <2>1
  <2>3. pc'[v] = pc[v] \/ (pc[v] \notin {"ok", "cancelled"} /\ pc'[v] # "ok")  BY <1>2
  <2>4. QED  BY <2>2, <2>3 DEF DBInv, FileInv
<1>3. QED  BY <1>1, <1>2

\* The writer of the call that was run has gone.
LEMMA GoneKeeps ==
    ASSUME DBInv, thread # <<>>, ~Awaited, NobodyWaits,
           UNCHANGED <<cancelled, tries>>, orphans \subseteq orphans',
           \A v \in Writers \ {Author} : written'[v] = written[v]
    PROVE  /\ ConnInv' /\ CallInv' /\ WriterInv'
           /\ pc' = pc /\ Author \in Writers /\ Head(thread).op \in Calls
           /\ Head(thread).op # "write" => pc[Author] = "cancelled"
           /\ Head(thread).op = "begin" => orphans' # {}
           /\ Head(thread).op = "write" => 1 \in 1..Len(thread') /\ thread'[1].op = "rollback"
<1> USE Connected
<1>1. ConnInv'  BY DropKeeps
<1>2. /\ Head(thread) = thread[1] /\ 1 \in 1..Len(thread) /\ Len(thread) \in Nat
      /\ Author \in Writers /\ Author = thread[1].by /\ Head(thread).op \in Calls
      /\ Len(thread') = Len(thread) - 1
      /\ \A i \in 1..Len(thread') : thread'[i] = thread[i + 1]
      /\ Abandoned(1) /\ pc' = pc
      BY HeadOfThread DEF NobodyWaits, Author
<1>3. CallInv'
  <2> SUFFICES ASSUME NEW i \in 1..Len(thread')
               PROVE  /\ thread'[i].op = "statement" <=> thread'[i].by \notin Transactions
                      /\ thread'[i].op \notin {"write", "commit"}
      BY DEF CallInv
  <2>1. i + 1 \in 1..Len(thread) /\ thread'[i] = thread[i + 1] /\ i + 1 # 1  BY <1>2
  <2>2. QED  BY <2>1 DEF DBInv, CallInv
<1>4. pc[Author] \in {"cancelled", "rollback"}  BY <1>2 DEF Abandoned
<1>5. WriterInv'
  <2> SUFFICES ASSUME NEW w \in Writers
               PROVE  /\ pc[w] \in {"idle", "lock", "begin", "backoff", "statement"} => written'[w] = 0
                      /\ pc[w] \in {"idle"} \cup Waits => tries[w] < MaxLockRetries
                      /\ pc[w] \in Calls => (pc[w] = "statement" <=> w \notin Transactions)
                      /\ w \in cancelled => pc[w] \in {"rollback", "cancelled", "lost"}
                      /\ pc[w] = "cancelled" => w \in cancelled
      BY <1>2 DEF WriterInv
  <2>1. pc[w] \in {"idle", "lock", "begin", "backoff", "statement"} => written'[w] = written[w]
        BY <1>4
  <2>2. QED  BY <2>1 DEF DBInv, WriterInv
<1>6. Head(thread).op # "write" => pc[Author] = "cancelled"  BY <1>2 DEF Abandoned
<1>7. Head(thread).op = "begin" => orphans' # {}  BY <1>2 DEF Abandoned
<1>8. ASSUME Head(thread).op = "write"
      PROVE  1 \in 1..Len(thread') /\ thread'[1].op = "rollback"
  <2>1. Len(thread) = 2 /\ pc[Author] = "rollback"  BY <1>2, <1>8 DEF Abandoned
  <2>2. thread[2] = Call("rollback", Author)
        BY <1>2, <2>1 DEF DBInv, ThreadInv, Calls
  <2>3. QED  BY <1>2, <2>1, <2>2, CallFields
<1>9. QED  BY <1>1, <1>2, <1>3, <1>5, <1>6, <1>7, <1>8

\* The writer whose call was run leaves: the next call is a first one.
LEMMA LeftKeeps ==
    ASSUME DBInv, thread # <<>>, Awaited, NEW outcome \in {"ok", "error", "cancelled"},
           Leave(Author, outcome, Rest),
           Author \in cancelled <=> outcome = "cancelled",
           UNCHANGED cancelled, orphans \subseteq orphans',
           \A v \in Writers \ {Author} : written'[v] = written[v] /\ tries'[v] = tries[v]
    PROVE  /\ ConnInv' /\ CallInv' /\ WriterInv' /\ Author \in Writers
           /\ pc[Author] = Head(thread).op
           /\ pc'[Author] = outcome /\ \A v \in Writers \ {Author} : Same(v)
<1> USE Connected
<1>1. /\ Author \in Writers /\ lock = Author /\ Rest \in Seq(CallType) /\ Rest = <<>>
      /\ Len(Rest) = 0 /\ outcome \in Ended /\ pc[Author] = Head(thread).op
      BY HeadOfThread, EmptySeq DEF Awaited, Ended
<1>2. ConnInv'
  <2>1. \A i \in 1..Len(Rest) : FALSE  BY <1>1
  <2>2. QED  BY <1>1, <2>1, LeaveKeeps
<1>3. /\ pc'[Author] = outcome
      /\ \/ thread' = <<>> /\ \A v \in Writers \ {Author} : pc'[v] = pc[v]
         \/ \E n \in Writers \ {Author} :
               /\ pc[n] = "lock" /\ thread' = <<Call(First(n), n)>> /\ pc'[n] = First(n)
               /\ \A v \in Writers \ {Author, n} : pc'[v] = pc[v]
  <2>1. \A n : Append(<<>>, n) = <<n>>  OBVIOUS
  <2>2. /\ pc'[Author] = outcome
        /\ \/ /\ lock' = None /\ queue = <<>> /\ queue' = <<>> /\ thread' = Rest
              /\ \A v \in Writers \ {Author} : pc'[v] = pc[v]
           \/ \E n \in Writers \ {Author} :
                 /\ queue # <<>> /\ n = Head(queue) /\ pc[n] = "lock"
                 /\ lock' = n /\ queue' = Tail(queue)
                 /\ thread' = Append(Rest, Call(First(n), n)) /\ pc'[n] = First(n)
                 /\ \A v \in Writers \ {Author, n} : pc'[v] = pc[v]
        BY <1>1, LeaveEffect
  <2>3. QED  BY <1>1, <2>1, <2>2, Zenon
<1>4. \A v \in Writers \ {Author} : Same(v)  BY <1>3 DEF Same
<1>5. CallInv'
  <2>1. CASE thread' = <<>>
    <3>1. Len(thread') = 0  BY <2>1, EmptySeq
    <3>2. QED  BY <3>1 DEF CallInv
  <2>2. ASSUME NEW n \in Writers, thread' = <<Call(First(n), n)>>  PROVE CallInv'
    <3>1. /\ Len(thread') = 1 /\ thread'[1].op = First(n) /\ thread'[1].by = n
          BY <2>2, CallFields
    <3>2. \A i \in 1..Len(thread') : i = 1  BY <3>1
    <3>3. QED  BY <3>1, <3>2 DEF CallInv, First
  <2>3. QED  BY <1>3, <2>1, <2>2
<1>6. WriterInv'
  <2> SUFFICES ASSUME NEW w \in Writers
               PROVE  /\ pc'[w] \in {"idle", "lock", "begin", "backoff", "statement"} => written'[w] = 0
                      /\ pc'[w] \in {"idle"} \cup Waits => tries'[w] < MaxLockRetries
                      /\ pc'[w] \in Calls => (pc'[w] = "statement" <=> w \notin Transactions)
                      /\ w \in cancelled => pc'[w] \in {"rollback", "cancelled", "lost"}
                      /\ pc'[w] = "cancelled" => w \in cancelled
      BY DEF WriterInv
  <2>1. CASE w = Author  BY <1>3, <2>1 DEF Waits, Calls
  <2>2. CASE w # Author
    <3>1. written'[w] = written[w] /\ tries'[w] = tries[w] /\ Same(w)  BY <1>4, <2>2
    <3>2. CASE pc'[w] = pc[w]  BY <3>1, <3>2 DEF DBInv, WriterInv
    <3>3. CASE pc[w] = "lock" /\ pc'[w] = First(w)
          BY <3>1, <3>3 DEF DBInv, WriterInv, Waits, First, Calls
    <3>4. QED  BY <3>1, <3>2, <3>3 DEF Same
  <2>3. QED  BY <2>1, <2>2
<1>7. QED  BY <1>1, <1>2, <1>3, <1>4, <1>5, <1>6

\* What is known of the call whose turn it is.
LEMMA HeadCall ==
    ASSUME DBInv, thread # <<>>
    PROVE  /\ Author \in Writers /\ Head(thread).op \in Calls
           /\ Head(thread).op = "statement" <=> Author \notin Transactions
           /\ Head(thread).op \in {"write", "commit"} => inTransaction
           /\ Head(thread).op = "write" =>
                 written[Author] \in {0, 1} /\ pending = WrittenBy(Author)
           /\ Head(thread).op = "commit" => pending = RowsOf(Author)
           /\ inTransaction /\ orphans = {} => Head(thread).op \in {"write", "commit", "rollback"}
           /\ Awaited => /\ pc[Author] = Head(thread).op
                         /\ tries[Author] < MaxLockRetries
                         /\ Author \in cancelled => Head(thread).op = "rollback"
                         /\ Head(thread).op \in {"begin", "statement"} => written[Author] = 0
<1>1. /\ Head(thread) = thread[1] /\ 1 \in 1..Len(thread) /\ Author \in Writers
      /\ Author = thread[1].by /\ Head(thread).op \in Calls
      BY Connected, HeadOfThread DEF Author
<1>2. /\ Head(thread).op = "statement" <=> Author \notin Transactions
      /\ Head(thread).op \in {"write", "commit"} => inTransaction
      /\ Head(thread).op = "write" =>
            written[Author] \in {0, 1} /\ pending = WrittenBy(Author)
      /\ Head(thread).op = "commit" => pending = RowsOf(Author)
      BY <1>1 DEF DBInv, CallInv
<1>3. inTransaction /\ orphans = {} => Head(thread).op \in {"write", "commit", "rollback"}
      BY <1>1 DEF DBInv, OpenInv
<1>4. ASSUME Awaited
      PROVE  /\ pc[Author] = Head(thread).op
             /\ tries[Author] < MaxLockRetries
             /\ Author \in cancelled => Head(thread).op = "rollback"
             /\ Head(thread).op \in {"begin", "statement"} => written[Author] = 0
      BY <1>1, <1>4 DEF Awaited, DBInv, WriterInv, Calls, Waits
<1>5. QED  BY <1>1, <1>2, <1>3, <1>4

\* The writer whose call was run goes on with its transaction.
LEMMA GoesOn ==
    ASSUME DBInv, thread # <<>>, Awaited, Author \in Transactions,
           NEW op \in {"write", "commit", "rollback"}, Continue(Author, op, Rest),
           Head(thread).op # "rollback",
           UNCHANGED <<cancelled, tries>>, orphans \subseteq orphans',
           \A v \in Writers \ {Author} : written'[v] = written[v]
    PROVE  /\ ConnInv' /\ WriterInv' /\ Author \in Writers
           /\ pc'[Author] = op /\ \A v \in Writers \ {Author} : pc'[v] = pc[v]
           /\ Len(thread') = 1 /\ thread'[1].op = op /\ thread'[1].by = Author
           /\ pc[Author] = Head(thread).op
<1>1. /\ Author \in Writers /\ lock = Author /\ Rest \in Seq(CallType) /\ Rest = <<>>
      /\ Len(Rest) = 0 /\ op \in Calls
      BY Connected, HeadOfThread, EmptySeq DEF Awaited, Calls
<1>2. ConnInv'
  <2>1. \A i \in 1..Len(Rest) : FALSE  BY <1>1
  <2>2. QED  BY <1>1, <2>1, ContinueKeeps, Connected
<1>3. pc'[Author] = op /\ \A v \in Writers \ {Author} : pc'[v] = pc[v]
      BY <1>1, Connected DEF Continue, ConnInv, ConnectionType
<1>4. Len(thread') = 1 /\ thread'[1].op = op /\ thread'[1].by = Author
  <2>1. thread' = <<Call(op, Author)>>  BY <1>1 DEF Continue
  <2>2. QED  BY <2>1, CallFields
<1>5. WriterInv'
  <2> SUFFICES ASSUME NEW w \in Writers
               PROVE  /\ pc'[w] \in {"idle", "lock", "begin", "backoff", "statement"} => written'[w] = 0
                      /\ pc'[w] \in {"idle"} \cup Waits => tries[w] < MaxLockRetries
                      /\ pc'[w] \in Calls => (pc'[w] = "statement" <=> w \notin Transactions)
                      /\ w \in cancelled => pc'[w] \in {"rollback", "cancelled", "lost"}
                      /\ pc'[w] = "cancelled" => w \in cancelled
      BY DEF WriterInv
  <2>1. CASE w = Author  BY <1>3, <2>1, HeadCall
  <2>2. CASE w # Author
    <3>1. pc'[w] = pc[w] /\ written'[w] = written[w]  BY <1>3, <2>2
    <3>2. QED  BY <3>1 DEF DBInv, WriterInv
  <2>3. QED  BY <2>1, <2>2
<1>6. QED  BY <1>1, <1>2, <1>3, <1>4, <1>5, HeadCall

\* The parts of the type that are not the connection's.
DataType ==
    /\ inTransaction \in BOOLEAN
    /\ pending \subseteq AllRows /\ file \subseteq AllRows
    /\ written \in [Writers -> 0..2]
    /\ tries \in [Writers -> 0..MaxLockRetries]
    /\ orphans \subseteq Writers /\ cancelled \subseteq Cancellable
    /\ load \in Loads /\ faults \in 0..load.faults

LEMMA TypeParts ==
    DatabaseTypeOK <=> ConnectionType /\ DataType
BY DEF DatabaseTypeOK, ConnectionType, DataType, CallType

LEMMA TypePartsNext ==
    DatabaseTypeOK' <=> ConnectionType' /\ DataType'
BY DEF DatabaseTypeOK, ConnectionType, DataType, CallType

LEMMA Assembled ==
    ASSUME ConnInv', DataType', CallInv', OpenInv', WriterInv', FileInv'
    PROVE  DBInv'
BY TypePartsNext DEF ConnInv, DBInv

\* A step that hands no call out, or a first one, and leaves the transaction alone.
LEMMA NoFirst ==
    ASSUME NEW n \in Writers PROVE First(n) \in {"begin", "statement"} /\ (First(n) = "statement" <=> n \notin Transactions)
BY DEF First

-------------------------------------------------------------------------------
(* The statements.                                                           *)

LEMMA DataNow ==
    ASSUME DBInv PROVE DataType /\ faults \in Nat /\ load.faults \in Nat
<1>1. DataType  BY TypeParts DEF DBInv
<1>2. load.faults \in Nat  BY <1>1, DatabaseAssumption DEF DataType
<1>3. QED  BY <1>1, <1>2 DEF DataType

LEMMA FaultTyped ==
    ASSUME DBInv, Fault, UNCHANGED load PROVE faults' \in 0..load'.faults
BY DataNow DEF Fault, DataType

LEMMA StatementFailsKeeps ==
    ASSUME DBInv, StatementFails PROVE DBInv'
<1> USE DEF StatementFails, Running
<1>1. DataType'  BY DataNow, FaultTyped DEF DataType
<1>2. CASE Awaited
  <2>1. /\ ConnInv' /\ CallInv' /\ WriterInv' /\ Author \in Writers
        /\ pc[Author] = Head(thread).op
        /\ pc'[Author] = "error" /\ \A v \in Writers \ {Author} : Same(v)
    <3>1. Author \notin cancelled  BY <1>2, HeadCall
    <3>2. QED  BY <1>2, <3>1, LeftKeeps
  <2>2. FileInv'  BY <2>1, FileKeeps, SamePlace DEF Waits
  <2>3. OpenInv'  BY HeadCall DEF OpenInv
  <2>4. QED  BY <1>1, <2>1, <2>2, <2>3, Assembled
<1>3. CASE ~Awaited
  <2>1. ConnInv' /\ CallInv' /\ WriterInv' /\ pc' = pc  BY <1>3, GoneKeeps
  <2>2. FileInv'  BY <2>1, FileKeeps
  <2>3. OpenInv'  BY HeadCall DEF OpenInv
  <2>4. QED  BY <1>1, <2>1, <2>2, <2>3, Assembled
<1>4. QED  BY <1>2, <1>3

LEMMA StatementRunsKeeps ==
    ASSUME DBInv, StatementRuns PROVE DBInv'
<1> USE DEF StatementRuns, Running
<1>0. Author \in Writers /\ RowsOf(Author) \subseteq AllRows  BY HeadCall, OwnRows
<1>1. DataType'  BY <1>0, DataNow DEF DataType
<1>2. inTransaction => orphans # {}  BY HeadCall
<1>3. OpenInv'  BY <1>2 DEF OpenInv
<1>4. Author \notin Transactions  BY HeadCall
<1>5. CASE Awaited
  <2>1. /\ ConnInv' /\ CallInv' /\ WriterInv'
        /\ pc[Author] = "statement"
        /\ pc'[Author] = "ok" /\ \A v \in Writers \ {Author} : Same(v)
    <3>1. Author \notin cancelled  BY <1>5, HeadCall
    <3>2. QED  BY <1>5, <3>1, LeftKeeps
  <2>2. \A v \in Writers \ {Author} :
           pc'[v] = pc[v] \/ (pc[v] \notin {"ok", "cancelled"} /\ pc'[v] # "ok")
        BY <2>1, SamePlace DEF Waits
  <2>3. CASE ~inTransaction
    <3>1. FileInv'  BY <1>0, <2>1, <2>2, <2>3, FileGrows
    <3>2. QED  BY <1>1, <1>3, <2>1, <3>1, Assembled
  <2>4. CASE inTransaction
    <3>1. FileInv'
      <4> SUFFICES ASSUME NEW w \in Writers
             PROVE /\ RowsOf(w) \cap file # {} => RowsOf(w) \subseteq file /\ pc'[w] \in {"ok", "cancelled"}
                   /\ pc'[w] = "ok" /\ w \notin Copying /\ RowsOf(w) \cap file = {} =>
                         orphans' # {} /\ w \notin Transactions
          BY <2>4 DEF FileInv, RowsOf
      <4>1. CASE w = Author
            BY <1>2, <1>4, <2>1, <2>4, <4>1 DEF DBInv, FileInv
      <4>2. CASE w # Author
            BY <2>2, <4>2 DEF DBInv, FileInv
      <4>3. QED  BY <4>1, <4>2
    <3>2. QED  BY <1>1, <1>3, <2>1, <3>1, Assembled
  <2>5. QED  BY <2>3, <2>4
<1>6. CASE ~Awaited
  <2>1. ConnInv' /\ CallInv' /\ WriterInv' /\ pc' = pc /\ pc[Author] = "cancelled"
        BY <1>6, GoneKeeps
  <2>2. FileInv'
    <3>1. CASE inTransaction  BY <2>1, <3>1, FileKeeps
    <3>2. CASE ~inTransaction  BY <1>0, <2>1, <3>2, FileGrows
    <3>3. QED  BY <3>1, <3>2
  <2>3. QED  BY <1>1, <1>3, <2>1, <2>2, Assembled
<1>7. QED  BY <1>5, <1>6

LEMMA BeginRunsKeeps ==
    ASSUME DBInv, BeginRuns PROVE DBInv'
<1> USE DEF BeginRuns, Running
<1>1. DataType'  BY DataNow DEF DataType
<1>2. Author \in Writers /\ Author \in Transactions  BY HeadCall
<1>3. CASE ~Awaited
  <2>1. ConnInv' /\ CallInv' /\ WriterInv' /\ pc' = pc /\ orphans' # {}
        BY <1>3, GoneKeeps
  <2>2. FileInv'  BY <2>1, FileKeeps
  <2>3. QED  BY <1>1, <2>1, <2>2, Assembled DEF OpenInv
<1>4. CASE Awaited /\ inTransaction
  <2>1. /\ ConnInv' /\ CallInv' /\ WriterInv'
        /\ pc[Author] = "begin"
        /\ pc'[Author] = "error" /\ \A v \in Writers \ {Author} : Same(v)
    <3>1. Author \notin cancelled  BY <1>4, HeadCall
    <3>2. QED  BY <1>4, <3>1, LeftKeeps
  <2>2. FileInv'  BY <2>1, FileKeeps, SamePlace DEF Waits
  <2>3. OpenInv'  BY <1>4, HeadCall DEF OpenInv
  <2>4. QED  BY <1>1, <2>1, <2>2, <2>3, Assembled
<1>5. CASE Awaited /\ ~inTransaction
  <2>1. /\ ConnInv' /\ WriterInv'
        /\ pc'[Author] = "write" /\ \A v \in Writers \ {Author} : pc'[v] = pc[v]
        /\ Len(thread') = 1 /\ thread'[1].op = "write" /\ thread'[1].by = Author
        /\ pc[Author] = "begin"
        BY <1>2, <1>5, GoesOn
  <2>2. written'[Author] = 0 /\ pending' = {} /\ inTransaction'
        BY <1>5, HeadCall
  <2>3. {<<Author, k>> : k \in 1..written'[Author]} = {}
    <3>1. \A k \in 1..0 : FALSE  OBVIOUS
    <3>2. QED  BY <2>2, <3>1
  <2>4. CallInv'
    <3>1. \A i \in 1..Len(thread') : i = 1  BY <2>1
    <3>2. pending' = {<<thread'[1].by, k>> : k \in 1..written'[thread'[1].by]}
          BY <2>1, <2>2, <2>3
    <3>3. QED  BY <1>2, <2>1, <2>2, <3>1, <3>2 DEF CallInv, WrittenBy
  <2>5. OpenInv'  BY <2>1 DEF OpenInv
  <2>6. FileInv'  BY <2>1, FileKeeps
  <2>7. QED  BY <1>1, <2>1, <2>4, <2>5, <2>6, Assembled
<1>6. QED  BY <1>3, <1>4, <1>5

LEMMA WriteRunsKeeps ==
    ASSUME DBInv, WriteRuns PROVE DBInv'
<1> USE DEF WriteRuns, Running
<1>1. /\ Author \in Writers /\ Author \in Transactions /\ inTransaction
      /\ written[Author] \in {0, 1} /\ pending = WrittenBy(Author)
      BY HeadCall
<1>2. /\ written'[Author] = written[Author] + 1
      /\ \A v \in Writers \ {Author} : written'[v] = written[v]
      /\ written' \in [Writers -> 0..2]
      BY <1>1, DataNow DEF DataType
<1>3. written'[Author] \in {1, 2} /\ RowsOf(Author) = {<<Author, 1>>, <<Author, 2>>}
      BY <1>1, <1>2, OwnRows
<1>4. pending' = {<<Author, k>> : k \in 1..written'[Author]}
  <2>1. 1..written'[Author] = (1..written[Author]) \cup {written'[Author]}
        BY <1>1, <1>2
  <2>2. QED  BY <1>1, <2>1 DEF WrittenBy
<1>5. written'[Author] = 2 => pending' = RowsOf(Author)
  <2>1. 1..2 = {1, 2}  OBVIOUS
  <2>2. QED  BY <1>3, <1>4, <2>1
<1>6. DataType'
  <2>1. <<Author, written'[Author]>> \in AllRows  BY <1>1, <1>3, OwnRows
  <2>2. QED  BY <1>2, <2>1, DataNow DEF DataType
<1>7. CASE ~Awaited
  <2>1. /\ ConnInv' /\ CallInv' /\ WriterInv' /\ pc' = pc
        /\ 1 \in 1..Len(thread') /\ thread'[1].op = "rollback"
        BY <1>2, <1>7, GoneKeeps
  <2>2. FileInv'  BY <2>1, FileKeeps
  <2>3. QED  BY <1>6, <2>1, <2>2, Assembled DEF OpenInv
<1>8. CASE Awaited
  <2> DEFINE op == IF written'[Author] = 2 THEN "commit" ELSE "write"
  <2>1. /\ ConnInv' /\ WriterInv'
        /\ pc'[Author] = op /\ \A v \in Writers \ {Author} : pc'[v] = pc[v]
        /\ Len(thread') = 1 /\ thread'[1].op = op /\ thread'[1].by = Author
        /\ pc[Author] = "write"
        BY <1>1, <1>2, <1>8, GoesOn
  <2>2. CallInv'
    <3>1. \A i \in 1..Len(thread') : i = 1  BY <2>1
    <3>2. pending' = {<<thread'[1].by, k>> : k \in 1..written'[thread'[1].by]}
          BY <1>4, <2>1
    <3>3. op = "write" => written'[Author] = 1  BY <1>3
    <3>4. QED  BY <1>1, <1>5, <2>1, <3>1, <3>2, <3>3 DEF CallInv, RowsOf, WrittenBy
  <2>3. OpenInv'  BY <2>1 DEF OpenInv
  <2>4. FileInv'  BY <2>1, FileKeeps
  <2>5. QED  BY <1>6, <2>1, <2>2, <2>3, <2>4, Assembled
<1>9. QED  BY <1>7, <1>8

LEMMA WriteFailsKeeps ==
    ASSUME DBInv, WriteFails PROVE DBInv'
<1> USE DEF WriteFails, Running
<1>1. DataType'  BY DataNow, FaultTyped DEF DataType
<1>2. Author \in Writers /\ Author \in Transactions  BY HeadCall
<1>3. CASE ~Awaited
  <2>1. /\ ConnInv' /\ CallInv' /\ WriterInv' /\ pc' = pc
        /\ 1 \in 1..Len(thread') /\ thread'[1].op = "rollback"
        BY <1>3, GoneKeeps
  <2>2. FileInv'  BY <2>1, FileKeeps
  <2>3. QED  BY <1>1, <2>1, <2>2, Assembled DEF OpenInv
<1>4. CASE Awaited
  <2>1. /\ ConnInv' /\ WriterInv'
        /\ pc'[Author] = "rollback" /\ \A v \in Writers \ {Author} : pc'[v] = pc[v]
        /\ Len(thread') = 1 /\ thread'[1].op = "rollback" /\ thread'[1].by = Author
        /\ pc[Author] = "write"
        BY <1>2, <1>4, GoesOn
  <2>2. CallInv'
    <3>1. \A i \in 1..Len(thread') : i = 1  BY <2>1
    <3>2. QED  BY <1>2, <2>1, <3>1 DEF CallInv
  <2>3. OpenInv'  BY <2>1 DEF OpenInv
  <2>4. FileInv'  BY <2>1, FileKeeps
  <2>5. QED  BY <1>1, <2>1, <2>2, <2>3, <2>4, Assembled
<1>5. QED  BY <1>3, <1>4

LEMMA RollbackRunsKeeps ==
    ASSUME DBInv, RollbackRuns PROVE DBInv'
<1> USE DEF RollbackRuns, Running
<1>1. DataType' /\ OpenInv'  BY DataNow DEF DataType, OpenInv
<1>2. CASE Awaited
  <2>1. /\ ConnInv' /\ CallInv' /\ WriterInv'
        /\ pc[Author] = "rollback"
        /\ pc'[Author] \in {"error", "cancelled"} /\ \A v \in Writers \ {Author} : Same(v)
        BY <1>2, LeftKeeps DEF Cause
  <2>2. FileInv'  BY <2>1, FileKeeps, SamePlace DEF Waits
  <2>3. QED  BY <1>1, <2>1, <2>2, Assembled
<1>3. CASE ~Awaited
  <2>1. ConnInv' /\ CallInv' /\ WriterInv' /\ pc' = pc  BY <1>3, GoneKeeps
  <2>2. FileInv'  BY <2>1, FileKeeps
  <2>3. QED  BY <1>1, <2>1, <2>2, Assembled
<1>4. QED  BY <1>2, <1>3

LEMMA CommitRunsKeeps ==
    ASSUME DBInv, CommitRuns PROVE DBInv'
<1> USE DEF CommitRuns, Running
<1>1. /\ Author \in Writers /\ pending = RowsOf(Author) /\ RowsOf(Author) \subseteq AllRows
      BY HeadCall, OwnRows
<1>2. DataType' /\ OpenInv'  BY <1>1, DataNow DEF DataType, OpenInv
<1>3. CASE Awaited
  <2>1. /\ ConnInv' /\ CallInv' /\ WriterInv'
        /\ pc[Author] = "commit"
        /\ pc'[Author] = "ok" /\ \A v \in Writers \ {Author} : Same(v)
    <3>1. Author \notin cancelled  BY <1>3, HeadCall
    <3>2. QED  BY <1>3, <3>1, LeftKeeps
  <2>2. \A v \in Writers \ {Author} :
           pc'[v] = pc[v] \/ (pc[v] \notin {"ok", "cancelled"} /\ pc'[v] # "ok")
        BY <2>1, SamePlace DEF Waits
  <2>3. FileInv'  BY <1>1, <2>1, <2>2, FileGrows
  <2>4. QED  BY <1>2, <2>1, <2>3, Assembled
<1>4. CASE ~Awaited
  <2>1. ConnInv' /\ CallInv' /\ WriterInv' /\ pc' = pc /\ pc[Author] = "cancelled"
        BY <1>4, GoneKeeps
  <2>2. FileInv'  BY <1>1, <2>1, FileGrows
  <2>3. QED  BY <1>2, <2>1, <2>2, Assembled
<1>5. QED  BY <1>3, <1>4

LEMMA CommitFailsKeeps ==
    ASSUME DBInv, CommitFails PROVE DBInv'
<1> USE DEF CommitFails, Running
<1>1. Author \in Writers  BY HeadCall
<1>2. DataType' /\ OpenInv' /\ orphans \subseteq orphans'
      BY <1>1, DataNow, FaultTyped DEF DataType, OpenInv
<1>3. CASE Awaited
  <2>1. /\ ConnInv' /\ CallInv' /\ WriterInv'
        /\ pc[Author] = "commit"
        /\ pc'[Author] = "error" /\ \A v \in Writers \ {Author} : Same(v)
    <3>1. Author \notin cancelled  BY <1>3, HeadCall
    <3>2. QED  BY <1>2, <1>3, <3>1, LeftKeeps
  <2>2. FileInv'  BY <1>2, <2>1, FileKeeps, SamePlace DEF Waits
  <2>3. QED  BY <1>2, <2>1, <2>2, Assembled
<1>4. CASE ~Awaited
  <2>1. ConnInv' /\ CallInv' /\ WriterInv' /\ pc' = pc  BY <1>2, <1>4, GoneKeeps
  <2>2. FileInv'  BY <1>2, <2>1, FileKeeps
  <2>3. QED  BY <1>2, <2>1, <2>2, Assembled
<1>5. QED  BY <1>3, <1>4

LEMMA BusyKeeps ==
    ASSUME DBInv, Busy PROVE DBInv'
<1> USE DEF Busy, Running
<1>0. thread # <<>> /\ Head(thread).op \in {"begin", "statement"}  OBVIOUS
<1>1. Author \in Writers /\ tries[Author] \in Nat  BY <1>0, HeadCall, DataNow DEF DataType
<1>2. CASE ~Awaited
  <2>1. /\ ConnInv' /\ CallInv' /\ WriterInv' /\ pc' = pc
        /\ Head(thread).op = "begin" => orphans' # {}
        BY <1>0, <1>2, GoneKeeps
  <2>2. DataType'  BY <1>2, DataNow, FaultTyped DEF DataType
  <2>3. FileInv'  BY <2>1, FileKeeps
  <2>4. OpenInv'  BY <1>0, HeadCall DEF OpenInv
  <2>5. QED  BY <2>1, <2>2, <2>3, <2>4, Assembled
<1>3. CASE Awaited
  <2>1. /\ tries[Author] < MaxLockRetries /\ Author \notin cancelled
        /\ pc[Author] = Head(thread).op /\ written[Author] = 0
        BY <1>0, <1>3, HeadCall
  <2>2. /\ tries'[Author] = tries[Author] + 1
        /\ \A v \in Writers \ {Author} : tries'[v] = tries[v]
        /\ tries' \in [Writers -> 0..MaxLockRetries]
        BY <1>1, <1>3, <2>1, DataNow, Constants DEF DataType
  <2>3. DataType'  BY <2>2, DataNow, FaultTyped DEF DataType
  <2>4. OpenInv'  BY <1>0, HeadCall DEF OpenInv
  <2>5. CASE tries[Author] + 1 < MaxLockRetries
    <3>1. /\ pc' = [pc EXCEPT ![Author] = "backoff"]
          /\ thread' = Rest /\ lock' = lock /\ queue' = queue
          BY <1>3, <2>5
    <3>2. pc'[Author] = "backoff" /\ \A v \in Writers \ {Author} : pc'[v] = pc[v]
          BY <1>1, <3>1, Connected DEF ConnInv, ConnectionType
    <3>3. lock = Author /\ Rest = <<>> /\ Rest \in Seq(CallType) /\ Len(Rest) = 0
          BY <1>0, <1>3, Connected, HeadOfThread, EmptySeq DEF Awaited
    <3>4. pc[Author] # "lock"  BY <1>0, <2>1
    <3>5. ConnectionType'
          BY <1>1, <3>1, <3>3, Connected DEF ConnInv, ConnectionType, Waits
    <3>6. LockInv'
      <4>1. ASSUME NEW i \in 1..Len(queue)  PROVE pc'[queue[i]] = "lock"
        <5>1. queue[i] \in Writers /\ pc[queue[i]] = "lock"
              BY ElementOfSeq, Connected DEF ConnInv, ConnectionType, LockInv
        <5>2. QED  BY <3>2, <3>4, <5>1
      <4>2. \A w \in Writers : pc'[w] \in Waits \ {"lock"} <=> lock = w
            BY <3>2, <3>3, Connected DEF ConnInv, LockInv, Waits
      <4>3. QED  BY <3>1, <4>1, <4>2, Connected DEF ConnInv, LockInv
    <3>7. ThreadInv' /\ CallInv'
      <4>1. \A w \in Writers : pc'[w] \notin Calls
            BY <3>2, <3>3, Connected DEF ConnInv, LockInv, Waits, Calls
      <4>2. QED  BY <3>1, <3>3, <4>1 DEF ThreadInv, CallInv
    <3>8. WriterInv'
      <4> SUFFICES ASSUME NEW w \in Writers
               PROVE  /\ pc'[w] \in {"idle", "lock", "begin", "backoff", "statement"} => written[w] = 0
                      /\ pc'[w] \in {"idle"} \cup Waits => tries'[w] < MaxLockRetries
                      /\ pc'[w] \in Calls => (pc'[w] = "statement" <=> w \notin Transactions)
                      /\ w \in cancelled => pc'[w] \in {"rollback", "cancelled", "lost"}
                      /\ pc'[w] = "cancelled" => w \in cancelled
          BY DEF WriterInv
      <4>1. CASE w = Author  BY <2>1, <2>2, <2>5, <3>2, <4>1 DEF Calls
      <4>2. CASE w # Author
        <5>1. pc'[w] = pc[w] /\ tries'[w] = tries[w]  BY <2>2, <3>2, <4>2
        <5>2. QED  BY <5>1 DEF DBInv, WriterInv
      <4>3. QED  BY <4>1, <4>2
    <3>9. FileInv'  BY <2>1, <3>2, FileKeeps, <1>0
    <3>10. QED  BY <2>3, <2>4, <3>5, <3>6, <3>7, <3>8, <3>9, Assembled DEF ConnInv
  <2>6. CASE ~(tries[Author] + 1 < MaxLockRetries)
    <3>1. /\ ConnInv' /\ CallInv' /\ WriterInv'
          /\ pc'[Author] = "error" /\ \A v \in Writers \ {Author} : Same(v)
      <4>1. Leave(Author, "error", Rest)  BY <1>3, <2>6
      <4>2. QED  BY <1>0, <1>3, <2>1, <2>2, <4>1, LeftKeeps
    <3>2. FileInv'  BY <1>0, <2>1, <3>1, FileKeeps, SamePlace DEF Waits
    <3>3. QED  BY <2>3, <2>4, <3>1, <3>2, Assembled
  <2>7. QED  BY <2>5, <2>6
<1>4. QED  BY <1>2, <1>3

-------------------------------------------------------------------------------
(* Steps that hand a call to the thread, or none, and run nothing.           *)

LEMMA GrownKeeps ==
    ASSUME DBInv, UNCHANGED <<inTransaction, pending, written>>, orphans \subseteq orphans',
           \/ thread' = thread
           \/ \E n \in Writers, op \in {"begin", "statement", "rollback"} :
                 /\ thread' = Append(thread, Call(op, n))
                 /\ op = "statement" <=> n \notin Transactions
    PROVE  CallInv' /\ OpenInv'
<1>1. CASE thread' = thread
  <2>1. CallInv'  BY <1>1 DEF DBInv, CallInv, WrittenBy
  <2>2. OpenInv'  BY <1>1 DEF DBInv, OpenInv
  <2>3. QED  BY <2>1, <2>2
<1>2. ASSUME NEW n \in Writers, NEW op \in {"begin", "statement", "rollback"},
             thread' = Append(thread, Call(op, n)),
             op = "statement" <=> n \notin Transactions
      PROVE  CallInv' /\ OpenInv'
  <2>1. thread \in Seq(CallType) /\ Call(op, n) \in CallType
        BY CallFields, Connected DEF ConnInv, ConnectionType, Calls
  <2>2. /\ Len(thread) \in Nat /\ Len(thread') = Len(thread) + 1
        /\ thread'[Len(thread')] = Call(op, n)
        /\ \A i \in 1..Len(thread) : thread'[i] = thread[i]
        BY <1>2, <2>1, AppendProperties, LenProperties
  <2>3. CallInv'
    <3> SUFFICES ASSUME NEW i \in 1..Len(thread')
                 PROVE  /\ thread'[i].op = "statement" <=> thread'[i].by \notin Transactions
                        /\ thread'[i].op \in {"write", "commit"} => i = 1 /\ inTransaction
                        /\ thread'[i].op = "write" =>
                              /\ written[thread'[i].by] \in {0, 1}
                              /\ pending = {<<thread'[i].by, k>> : k \in 1..written[thread'[i].by]}
                        /\ thread'[i].op = "commit" => pending = RowsOf(thread'[i].by)
        BY DEF CallInv, WrittenBy, RowsOf
    <3>1. CASE i = Len(thread')  BY <1>2, <2>2, <3>1, CallFields
    <3>2. CASE i # Len(thread')
      <4>1. i \in 1..Len(thread) /\ thread'[i] = thread[i]  BY <2>2, <3>2
      <4>2. QED  BY <4>1 DEF DBInv, CallInv, WrittenBy
    <3>3. QED  BY <3>1, <3>2
  <2>4. OpenInv'
    <3> SUFFICES ASSUME inTransaction, orphans' = {}
                 PROVE  1 \in 1..Len(thread') /\ thread'[1].op \in {"write", "commit", "rollback"}
        BY DEF OpenInv
    <3>1. 1 \in 1..Len(thread) /\ thread[1].op \in {"write", "commit", "rollback"}
          BY DEF DBInv, OpenInv
    <3>2. QED  BY <2>2, <3>1
  <2>5. QED  BY <2>3, <2>4
<1>3. QED  BY <1>1, <1>2

LEMMA BackoffEndsKeeps ==
    ASSUME DBInv, NEW w \in Writers, BackoffEnds(w) PROVE DBInv'
<1> USE DEF BackoffEnds
<1>1. /\ lock = w /\ pc[w] \notin Calls /\ written[w] = 0 /\ tries[w] < MaxLockRetries
      /\ w \notin cancelled
      BY DEF DBInv, LockInv, WriterInv, Waits, Calls
<1>2. /\ First(w) \in {"begin", "statement"} /\ First(w) \in Calls
      /\ First(w) = "statement" <=> w \notin Transactions
      BY NoFirst DEF Calls
<1>3. thread \in Seq(CallType)  BY Connected DEF ConnInv, ConnectionType
<1>4. ASSUME NEW i \in 1..Len(thread)  PROVE Abandoned(i) /\ thread[i].by # w /\ pc[thread[i].by] = "cancelled"
  <2>1. thread[i].by \in Writers /\ thread[i].op \in Calls
        BY Connected, ThreadElements DEF ConnInv
  <2>2. ~Latest(i)  BY <1>1, <2>1 DEF Latest
  <2>3. Abandoned(i)  BY <2>2 DEF DBInv, ThreadInv
  <2>4. thread[i].by # w  BY <1>1, <2>3 DEF Abandoned
  <2>5. pc[thread[i].by] # "rollback"  BY <1>1, <2>1, <2>4 DEF DBInv, LockInv, Waits
  <2>6. QED  BY <2>3, <2>4, <2>5 DEF Abandoned
<1>5. /\ pc'[w] = First(w) /\ \A v \in Writers \ {w} : pc'[v] = pc[v]
      /\ thread' = Append(thread, Call(First(w), w))
      BY Connected DEF Continue, ConnInv, ConnectionType
<1>6. ConnInv'
  <2>1. ASSUME NEW i \in 1..Len(thread)  PROVE Abandoned(i)'
    <3>1. thread'[i] = thread[i]
          BY <1>2, <1>3, <1>5, CallFields, AppendProperties
    <3>2. thread[i].by \in Writers  BY Connected, ThreadElements DEF ConnInv
    <3>3. QED  BY <1>4, <1>5, <3>1, <3>2 DEF Abandoned
  <2>2. QED  BY <1>1, <1>2, <1>3, <2>1, Connected, ContinueKeeps
<1>7. DataType'  BY DataNow DEF DataType
<1>8. CallInv' /\ OpenInv'  BY <1>2, <1>5, GrownKeeps
<1>9. WriterInv'
  <2> SUFFICES ASSUME NEW v \in Writers
               PROVE  /\ pc'[v] \in {"idle", "lock", "begin", "backoff", "statement"} => written[v] = 0
                      /\ pc'[v] \in {"idle"} \cup Waits => tries[v] < MaxLockRetries
                      /\ pc'[v] \in Calls => (pc'[v] = "statement" <=> v \notin Transactions)
                      /\ v \in cancelled => pc'[v] \in {"rollback", "cancelled", "lost"}
                      /\ pc'[v] = "cancelled" => v \in cancelled
      BY DEF WriterInv
  <2>1. CASE v = w  BY <1>1, <1>2, <1>5, <2>1
  <2>2. CASE v # w
    <3>1. pc'[v] = pc[v]  BY <1>5, <2>2
    <3>2. QED  BY <3>1 DEF DBInv, WriterInv
  <2>3. QED  BY <2>1, <2>2
<1>10. FileInv'  BY <1>2, <1>5, FileKeeps
<1>11. QED  BY <1>6, <1>7, <1>8, <1>9, <1>10, Assembled

\* A sequence without one of its elements.
LEMMA Spliced ==
    ASSUME NEW S, NEW q \in Seq(S), NEW i \in 1..Len(q), NEW a \in Seq(S), NEW b \in Seq(S), NEW r,
           Len(a) = i - 1, \A k \in 1..(i - 1) : a[k] = q[k],
           Len(b) = Len(q) - i, \A k \in 1..(Len(q) - i) : b[k] = q[k + i],
           Len(r) = Len(a) + Len(b),
           \A k \in 1..(Len(a) + Len(b)) : r[k] = IF k <= Len(a) THEN a[k] ELSE b[k - Len(a)]
    PROVE  /\ Len(r) = Len(q) - 1 /\ Len(r) \in Nat
           /\ \A k \in 1..Len(r) : r[k] = IF k < i THEN q[k] ELSE q[k + 1]
<1>1. Len(q) \in Nat /\ i \in Nat /\ i >= 1 /\ i <= Len(q)  BY LenProperties
<1>2. Len(r) = Len(q) - 1 /\ Len(r) \in Nat  BY <1>1
<1>3. ASSUME NEW k \in 1..Len(r)  PROVE r[k] = IF k < i THEN q[k] ELSE q[k + 1]
  <2>1. k \in 1..(Len(a) + Len(b)) /\ k \in Nat  BY <1>2
  <2>2. CASE k < i
    <3>1. k <= Len(a) /\ k \in 1..(i - 1)  BY <1>1, <2>1, <2>2
    <3>2. QED  BY <2>1, <2>2, <3>1
  <2>3. CASE ~(k < i)
    <3>1. ~(k <= Len(a)) /\ k - Len(a) \in 1..(Len(q) - i) /\ (k - Len(a)) + i = k + 1
          BY <1>1, <1>2, <2>1, <2>3
    <3>2. r[k] = b[k - Len(a)]  BY <2>1, <3>1
    <3>3. b[k - Len(a)] = q[(k - Len(a)) + i]  BY <3>1
    <3>4. QED  BY <2>3, <3>1, <3>2, <3>3
  <2>4. QED  BY <2>2, <2>3
<1>4. QED  BY <1>2, <1>3

LEMMA WithoutOne ==
    ASSUME NEW S, NEW q \in Seq(S), NEW i \in 1..Len(q)
    PROVE  LET r == SubSeq(q, 1, i - 1) \o SubSeq(q, i + 1, Len(q))
           IN  /\ r \in Seq(S) /\ Len(r) = Len(q) - 1 /\ Len(r) \in Nat
               /\ \A k \in 1..Len(r) : r[k] = IF k < i THEN q[k] ELSE q[k + 1]
<1>1. Len(q) \in Nat /\ i \in Nat /\ i >= 1 /\ i <= Len(q)  BY LenProperties
<1>2. PICK a : a = SubSeq(q, 1, i - 1)  OBVIOUS
<1>3. PICK b : b = SubSeq(q, i + 1, Len(q))  OBVIOUS
<1>4. a \in Seq(S) /\ Len(a) = i - 1 /\ \A k \in 1..(i - 1) : a[k] = q[k]
  <2>1. \A k \in 1..(i - 1) : k \in 1..Len(q)  BY <1>1
  <2>2. \A k \in 1..(i - 1) : q[k] \in S  BY <2>1, ElementOfSeq
  <2>3. a = [k \in 1..(i - 1) |-> q[k]]  BY <1>1, <1>2
  <2>4. QED  BY <1>1, <2>2, <2>3
<1>5. b \in Seq(S) /\ Len(b) = Len(q) - i /\ \A k \in 1..(Len(q) - i) : b[k] = q[k + i]
  <2>1. \A k \in 1..(Len(q) - i) : k + i \in 1..Len(q)  BY <1>1
  <2>2. \A k \in 1..(Len(q) - i) : q[k + i] \in S  BY <2>1, ElementOfSeq
  <2>3. b = [k \in 1..(Len(q) - i) |-> q[k + i]]  BY <1>1, <1>3
  <2>4. QED  BY <1>1, <2>2, <2>3
<1>6. PICK r : r = a \o b  OBVIOUS
<1>7. /\ r \in Seq(S) /\ Len(r) = Len(a) + Len(b)
      /\ \A k \in 1..(Len(a) + Len(b)) : r[k] = IF k <= Len(a) THEN a[k] ELSE b[k - Len(a)]
      BY <1>4, <1>5, <1>6, ConcatProperties
<1>8. /\ r \in Seq(S) /\ Len(r) = Len(q) - 1 /\ Len(r) \in Nat
      /\ \A k \in 1..Len(r) : r[k] = IF k < i THEN q[k] ELSE q[k + 1]
      BY <1>4, <1>5, <1>7, Spliced
<1>9. r = SubSeq(q, 1, i - 1) \o SubSeq(q, i + 1, Len(q))  BY <1>2, <1>3, <1>6
<1>10. QED  BY <1>8, <1>9, Zenon

LEMMA EnterKeeps ==
    ASSUME DBInv, NEW w \in Writers, Enter(w)
    PROVE  /\ DBInv' /\ pc[w] = "idle" /\ pc'[w] \in {"lock", "begin", "statement"}
           /\ \A v \in Writers \ {w} : pc'[v] = pc[v]
<1> USE DEF Enter
<1>1. DataType'  BY DataNow DEF DataType
<1>2. pc[w] = "idle" /\ written[w] = 0 /\ tries[w] < MaxLockRetries /\ w \notin cancelled
      BY DEF DBInv, WriterInv
<1>3. \A v \in Writers : lock = v => v # w
      BY <1>2 DEF DBInv, LockInv, Waits
<1>4. CASE lock = None
  <2>1. /\ First(w) \in {"begin", "statement"} /\ First(w) \in Calls /\ First(w) \in Waits \ {"lock"}
        /\ First(w) = "statement" <=> w \notin Transactions
        BY NoFirst DEF Calls, Waits
  <2>2. /\ lock' = w /\ queue' = queue /\ thread' = Append(thread, Call(First(w), w))
        /\ pc'[w] = First(w) /\ \A v \in Writers \ {w} : pc'[v] = pc[v]
        /\ pc' = [pc EXCEPT ![w] = First(w)]
        BY <1>4, Connected DEF ConnInv, ConnectionType
  <2>3. queue = <<>> /\ Len(queue) = 0  BY <1>4, EmptySeq DEF DBInv, LockInv
  <2>4. /\ thread \in Seq(CallType) /\ Call(First(w), w) \in CallType
        /\ Call(First(w), w).op = First(w) /\ Call(First(w), w).by = w
        BY <2>1, CallFields, Connected DEF ConnInv, ConnectionType
  <2>5. /\ thread' \in Seq(CallType) /\ thread' # <<>>
        /\ Len(thread) \in Nat /\ Len(thread') = Len(thread) + 1
        /\ thread'[Len(thread')] = Call(First(w), w)
        /\ \A i \in 1..Len(thread) : thread'[i] = thread[i]
        BY <2>2, <2>4, AppendProperties, LenProperties
  <2>6. ConnectionType'
        BY <2>1, <2>2, <2>5, Connected DEF ConnInv, ConnectionType
  <2>7. \A v \in Writers : pc'[v] \in Waits \ {"lock"} <=> lock' = v
        BY <1>4, <2>1, <2>2, Constants DEF DBInv, LockInv
  <2>8. LockInv'  BY <2>2, <2>3, <2>7, Constants DEF LockInv
  <2>9. ASSUME NEW i \in 1..Len(thread)
        PROVE  Abandoned(i) /\ pc[thread[i].by] = "cancelled" /\ thread[i].by \in Writers
    <3>1. thread[i].by \in Writers  BY Connected, ThreadElements DEF ConnInv
    <3>2. ~Latest(i)  BY <1>4, <3>1, Constants DEF Latest
    <3>3. Abandoned(i)  BY <3>2 DEF DBInv, ThreadInv
    <3>4. pc[thread[i].by] # "rollback"
          BY <1>4, <3>1, Constants DEF DBInv, LockInv, Waits
    <3>5. QED  BY <3>1, <3>3, <3>4 DEF Abandoned
  <2>10. ThreadInv'
    <3>1. ASSUME NEW v \in Writers, pc'[v] \in Calls
          PROVE  thread' # <<>> /\ thread'[Len(thread')] = Call(pc'[v], v)
      <4>1. v = w  BY <2>2, <2>7, <3>1 DEF Calls, Waits
      <4>2. QED  BY <2>2, <2>5, <4>1
    <3>2. ASSUME NEW i \in 1..Len(thread')  PROVE Latest(i)' \/ Abandoned(i)'
      <4>1. CASE i = Len(thread')  BY <2>2, <2>4, <2>5, <4>1 DEF Latest
      <4>2. CASE i # Len(thread')
        <5>1. i \in 1..Len(thread)  BY <2>5, <4>2
        <5>2. pc'[thread[i].by] = "cancelled" /\ thread'[i] = thread[i]
              BY <1>2, <2>2, <2>5, <2>9, <5>1
        <5>3. QED  BY <2>9, <5>1, <5>2 DEF Abandoned
      <4>3. QED  BY <4>1, <4>2
    <3>3. QED  BY <3>1, <3>2 DEF ThreadInv
  <2>11. CallInv' /\ OpenInv'  BY <2>1, <2>2, GrownKeeps
  <2>12. WriterInv'
    <3> SUFFICES ASSUME NEW v \in Writers
               PROVE  /\ pc'[v] \in {"idle", "lock", "begin", "backoff", "statement"} => written[v] = 0
                      /\ pc'[v] \in {"idle"} \cup Waits => tries[v] < MaxLockRetries
                      /\ pc'[v] \in Calls => (pc'[v] = "statement" <=> v \notin Transactions)
                      /\ v \in cancelled => pc'[v] \in {"rollback", "cancelled", "lost"}
                      /\ pc'[v] = "cancelled" => v \in cancelled
        BY DEF WriterInv
    <3>1. CASE v = w  BY <1>2, <2>1, <2>2, <3>1
    <3>2. CASE v # w  BY <2>2, <3>2 DEF DBInv, WriterInv
    <3>3. QED  BY <3>1, <3>2
  <2>13. FileInv'  BY <1>2, <2>1, <2>2, FileKeeps
  <2>14. DBInv'  BY <1>1, <2>6, <2>8, <2>10, <2>11, <2>12, <2>13, Assembled DEF ConnInv
  <2>15. QED  BY <1>2, <2>1, <2>2, <2>14
<1>5. CASE lock # None
  <2>1. /\ queue' = Append(queue, w) /\ lock' = lock /\ thread' = thread
        /\ pc' = [pc EXCEPT ![w] = "lock"]
        /\ pc'[w] = "lock" /\ \A v \in Writers \ {w} : pc'[v] = pc[v]
        BY <1>5, Connected DEF ConnInv, ConnectionType
  <2>2. /\ queue \in Seq(Writers) /\ queue' \in Seq(Writers)
        /\ Len(queue) \in Nat /\ Len(queue') = Len(queue) + 1
        /\ queue'[Len(queue')] = w
        /\ \A i \in 1..Len(queue) : queue'[i] = queue[i] /\ queue[i] \in Writers
        BY <2>1, Connected, AppendProperties, LenProperties, ElementOfSeq DEF ConnInv, ConnectionType
  <2>3. ConnectionType'
        BY <2>1, <2>2, Connected DEF ConnInv, ConnectionType, Waits
  <2>4. \A v \in Writers : pc'[v] \in Waits \ {"lock"} <=> lock' = v
        BY <1>3, <2>1, Connected DEF ConnInv, LockInv
  <2>5. \A i \in 1..Len(queue) : pc[queue[i]] = "lock" /\ queue[i] # w
        BY <1>2 DEF DBInv, LockInv
  <2>6. ASSUME NEW i \in 1..Len(queue')
        PROVE  /\ pc'[queue'[i]] = "lock"
               /\ i # Len(queue') => i \in 1..Len(queue) /\ queue'[i] # w
        BY <2>1, <2>2, <2>5
  <2>7. ASSUME NEW i \in 1..Len(queue'), NEW j \in 1..Len(queue'), queue'[i] = queue'[j]
        PROVE  i = j
    <3>1. CASE i = Len(queue') \/ j = Len(queue')  BY <2>2, <2>6, <2>7, <3>1
    <3>2. CASE i # Len(queue') /\ j # Len(queue')
          BY <2>2, <2>6, <2>7, <3>2 DEF DBInv, LockInv
    <3>3. QED  BY <3>1, <3>2
  <2>8. LockInv'  BY <1>5, <2>1, <2>4, <2>6, <2>7 DEF LockInv
  <2>9. ThreadInv'
    <3>1. ASSUME NEW i \in 1..Len(thread)  PROVE thread[i].by \in Writers
          BY Connected, ThreadElements DEF ConnInv
    <3>2. ASSUME NEW i \in 1..Len(thread)  PROVE Latest(i)' \/ Abandoned(i)'
      <4>1. thread[i].by \in Writers  BY <3>1
      <4>2. CASE Latest(i)
            BY <1>3, <2>1, <4>1, <4>2 DEF Latest
      <4>3. CASE Abandoned(i)
        <5>1. thread[i].by # w  BY <1>2, <4>3 DEF Abandoned
        <5>2. QED  BY <2>1, <4>1, <4>3, <5>1 DEF Abandoned
      <4>4. QED  BY <4>2, <4>3 DEF DBInv, ThreadInv
    <3>3. \A v \in Writers : pc'[v] \in Calls =>
             thread # <<>> /\ thread[Len(thread)] = Call(pc'[v], v)
          BY <2>1 DEF DBInv, ThreadInv, Calls
    <3>4. QED  BY <2>1, <3>2, <3>3 DEF ThreadInv
  <2>10. CallInv' /\ OpenInv'  BY <2>1, GrownKeeps
  <2>11. WriterInv'
    <3> SUFFICES ASSUME NEW v \in Writers
               PROVE  /\ pc'[v] \in {"idle", "lock", "begin", "backoff", "statement"} => written[v] = 0
                      /\ pc'[v] \in {"idle"} \cup Waits => tries[v] < MaxLockRetries
                      /\ pc'[v] \in Calls => (pc'[v] = "statement" <=> v \notin Transactions)
                      /\ v \in cancelled => pc'[v] \in {"rollback", "cancelled", "lost"}
                      /\ pc'[v] = "cancelled" => v \in cancelled
        BY DEF WriterInv
    <3>1. CASE v = w  BY <1>2, <2>1, <3>1 DEF Calls
    <3>2. CASE v # w  BY <2>1, <3>2 DEF DBInv, WriterInv
    <3>3. QED  BY <3>1, <3>2
  <2>12. FileInv'  BY <1>2, <2>1, FileKeeps
  <2>13. DBInv'  BY <1>1, <2>3, <2>8, <2>9, <2>10, <2>11, <2>12, Assembled DEF ConnInv
  <2>14. QED  BY <1>2, <2>1, <2>13
<1>6. QED  BY <1>4, <1>5

\* A cancelled writer that waited for the lock.
LEMMA CancelWaitingKeeps ==
    ASSUME DBInv, NEW w \in Cancellable \ cancelled, pc[w] = "lock",
           NEW i \in DOMAIN queue, queue[i] = w,
           queue' \in Seq(Writers), Len(queue') = Len(queue) - 1, Len(queue') \in Nat,
           \A k \in 1..Len(queue') : queue'[k] = IF k < i THEN queue[k] ELSE queue[k + 1],
           pc' = [pc EXCEPT ![w] = "cancelled"],
           UNCHANGED <<lock, thread, inTransaction, pending, file, written, tries, faults, load>>,
           cancelled' = cancelled \cup {w}, orphans' = orphans
    PROVE  /\ DBInv' /\ \A v \in Writers \ {w} : pc'[v] = pc[v]
           /\ pc'[w] = "cancelled"
<1>1. DataType' /\ w \in Writers  BY DataNow, DatabaseAssumption DEF DataType
<1>2. pc'[w] = "cancelled" /\ \A v \in Writers \ {w} : pc'[v] = pc[v]
      BY <1>1, Connected DEF ConnInv, ConnectionType
<1>3. /\ queue \in Seq(Writers) /\ i \in 1..Len(queue) /\ Len(queue) \in Nat
      BY Connected, LenProperties DEF ConnInv, ConnectionType
<1>4. /\ queue' \in Seq(Writers) /\ Len(queue') = Len(queue) - 1 /\ Len(queue') \in Nat
      /\ \A k \in 1..Len(queue') : queue'[k] = IF k < i THEN queue[k] ELSE queue[k + 1]
      OBVIOUS
<1>5. ConnectionType'  BY <1>1, <1>4, Connected DEF ConnInv, ConnectionType, Ended
<1>6. \A v \in Writers : pc'[v] \in Waits \ {"lock"} <=> lock' = v
      BY <1>1, <1>2, Connected DEF ConnInv, LockInv, Waits
<1>7. ASSUME NEW k \in 1..Len(queue')
      PROVE  \E o \in 1..Len(queue) :
                /\ o = (IF k < i THEN k ELSE k + 1) /\ queue'[k] = queue[o]
                /\ queue[o] # w /\ queue[o] \in Writers /\ pc[queue[o]] = "lock"
  <2>1. CASE k < i
    <3>1. k \in 1..Len(queue) /\ k # i /\ queue'[k] = queue[k]  BY <1>3, <1>4, <2>1
    <3>2. queue[k] # w  BY <1>3, <3>1 DEF DBInv, LockInv
    <3>3. queue[k] \in Writers  BY <1>3, <3>1, ElementOfSeq
    <3>4. pc[queue[k]] = "lock"  BY <3>1 DEF DBInv, LockInv
    <3>5. QED  BY <2>1, <3>1, <3>2, <3>3, <3>4
  <2>2. CASE ~(k < i)
    <3>1. k + 1 \in 1..Len(queue) /\ k + 1 # i /\ queue'[k] = queue[k + 1]
          BY <1>3, <1>4, <2>2
    <3>2. queue[k + 1] # w  BY <1>3, <3>1 DEF DBInv, LockInv
    <3>3. queue[k + 1] \in Writers  BY <1>3, <3>1, ElementOfSeq
    <3>4. pc[queue[k + 1]] = "lock"  BY <3>1 DEF DBInv, LockInv
    <3>5. QED  BY <2>2, <3>1, <3>2, <3>3, <3>4
  <2>3. QED  BY <2>1, <2>2
<1>8. ASSUME NEW k \in 1..Len(queue'), NEW l \in 1..Len(queue'), queue'[k] = queue'[l]
      PROVE  k = l
  <2>1. PICK o \in 1..Len(queue) : o = (IF k < i THEN k ELSE k + 1) /\ queue'[k] = queue[o]
        BY <1>7
  <2>2. PICK p \in 1..Len(queue) : p = (IF l < i THEN l ELSE l + 1) /\ queue'[l] = queue[p]
        BY <1>7
  <2>3. o = p  BY <1>8, <2>1, <2>2 DEF DBInv, LockInv
  <2>4. k \in Int /\ l \in Int /\ i \in Int  BY <1>3, <1>4
  <2>5. QED  BY <2>1, <2>2, <2>3, <2>4
<1>9. LockInv'
  <2>1. lock = None => FALSE
    <3>1. lock = None => Len(queue) = 0  BY EmptySeq DEF DBInv, LockInv
    <3>2. QED  BY <1>3, <3>1
  <2>2. ASSUME NEW k \in 1..Len(queue')  PROVE pc'[queue'[k]] = "lock"
    <3>1. PICK o \in 1..Len(queue) :
             queue'[k] = queue[o] /\ queue[o] # w /\ queue[o] \in Writers /\ pc[queue[o]] = "lock"
          BY <1>7
    <3>2. QED  BY <1>2, <3>1
  <2>3. QED  BY <1>6, <1>8, <2>1, <2>2 DEF LockInv
<1>10. ThreadInv'
  <2>1. ASSUME NEW k \in 1..Len(thread)  PROVE Latest(k)' \/ Abandoned(k)'
    <3>1. thread[k].by \in Writers  BY Connected, ThreadElements DEF ConnInv
    <3>2. CASE Latest(k)
      <4>1. thread[k].by # w  BY <1>1, <3>2 DEF Latest, DBInv, LockInv, Waits
      <4>2. QED  BY <1>2, <3>1, <3>2, <4>1 DEF Latest
    <3>3. CASE Abandoned(k)
      <4>1. thread[k].by # w  BY <3>3 DEF Abandoned
      <4>2. QED  BY <1>2, <3>1, <3>3, <4>1 DEF Abandoned
    <3>4. QED  BY <3>2, <3>3 DEF DBInv, ThreadInv
  <2>2. \A v \in Writers : pc'[v] \in Calls =>
             thread # <<>> /\ thread[Len(thread)] = Call(pc'[v], v)
        BY <1>2 DEF DBInv, ThreadInv, Calls
  <2>3. QED  BY <2>1, <2>2 DEF ThreadInv
<1>11. CallInv' /\ OpenInv'  BY GrownKeeps
<1>12. WriterInv'
  <2> SUFFICES ASSUME NEW v \in Writers
               PROVE  /\ pc'[v] \in {"idle", "lock", "begin", "backoff", "statement"} => written[v] = 0
                      /\ pc'[v] \in {"idle"} \cup Waits => tries[v] < MaxLockRetries
                      /\ pc'[v] \in Calls => (pc'[v] = "statement" <=> v \notin Transactions)
                      /\ v \in cancelled' => pc'[v] \in {"rollback", "cancelled", "lost"}
                      /\ pc'[v] = "cancelled" => v \in cancelled'
      BY DEF WriterInv
  <2>1. CASE v = w  BY <1>2, <2>1 DEF Calls, Waits
  <2>2. CASE v # w  BY <1>2, <2>2 DEF DBInv, WriterInv
  <2>3. QED  BY <2>1, <2>2
<1>13. FileInv'  BY <1>2, FileKeeps
<1>14. DBInv'  BY <1>1, <1>5, <1>9, <1>10, <1>11, <1>12, <1>13, Assembled DEF ConnInv
<1>15. QED  BY <1>2, <1>14

\* A cancelled writer that held the lock.
LEMMA CancelHoldingKeeps ==
    ASSUME DBInv, NEW w \in Cancellable \ cancelled, CancelHolding(w),
           cancelled' = cancelled \cup {w},
           orphans' = IF pc[w] = "begin" THEN orphans \cup {w} ELSE orphans,
           UNCHANGED <<inTransaction, pending, file, written, tries, faults, load>>
    PROVE  /\ DBInv' /\ pc[w] \in Waits /\ pc'[w] \in {"rollback", "cancelled"}
           /\ \A v \in Writers \ {w} : Same(v)
<1> USE DEF CancelHolding
<1>1. DataType' /\ w \in Writers /\ orphans \subseteq orphans'
      BY DataNow, DatabaseAssumption DEF DataType
<1>2. lock = w /\ pc[w] \in Waits \ {"lock"} /\ tries[w] < MaxLockRetries
      BY <1>1 DEF DBInv, LockInv, WriterInv
<1>3. thread \in Seq(CallType) /\ Len(thread) \in Nat  BY Connected, LenProperties DEF ConnInv, ConnectionType
<1>4. CASE pc[w] = "write"
  <2>1. thread # <<>> /\ thread[Len(thread)] = Call("write", w)
        BY <1>1, <1>4 DEF DBInv, ThreadInv, Calls
  <2>2. Len(thread) = 1 /\ thread[1].op = "write" /\ thread[1].by = w
    <3>1. Len(thread) \in 1..Len(thread)  BY <1>3, <2>1, EmptySeq
    <3>2. thread[Len(thread)].op = "write" /\ thread[Len(thread)].by = w  BY <2>1, CallFields
    <3>3. Len(thread) = 1  BY <3>1, <3>2 DEF DBInv, CallInv
    <3>4. QED  BY <3>2, <3>3
  <2>3. /\ Continue(w, "rollback", thread) /\ thread' = Append(thread, Call("rollback", w))
        /\ pc'[w] = "rollback" /\ \A v \in Writers \ {w} : pc'[v] = pc[v]
        BY <1>1, <1>4, Connected DEF Continue, ConnInv, ConnectionType
  <2>4. w \in Transactions  BY <1>1, <1>4 DEF DBInv, WriterInv, Calls
  <2>5. /\ "rollback" \in Calls /\ Call("rollback", w) \in CallType
        BY <1>1, CallFields DEF Calls
  <2>6. Len(thread') = 2 /\ thread'[1] = thread[1]
    <3>1. 1 \in 1..Len(thread)  BY <2>2
    <3>2. thread'[1] = thread[1] /\ Len(thread') = Len(thread) + 1
          BY <1>3, <2>3, <2>5, <3>1, AppendProperties
    <3>3. QED  BY <2>2, <3>2
  <2>7. ASSUME NEW i \in 1..Len(thread)  PROVE Abandoned(i)'
    <3>1. i = 1  BY <2>2
    <3>2. QED  BY <2>2, <2>3, <2>6, <3>1 DEF Abandoned
  <2>8. ConnInv'  BY <1>1, <1>2, <1>3, <2>3, <2>5, <2>7, Connected, ContinueKeeps
  <2>9. CallInv' /\ OpenInv'  BY <1>1, <2>3, <2>4, GrownKeeps
  <2>10. WriterInv'
    <3> SUFFICES ASSUME NEW v \in Writers
               PROVE  /\ pc'[v] \in {"idle", "lock", "begin", "backoff", "statement"} => written[v] = 0
                      /\ pc'[v] \in {"idle"} \cup Waits => tries[v] < MaxLockRetries
                      /\ pc'[v] \in Calls => (pc'[v] = "statement" <=> v \notin Transactions)
                      /\ v \in cancelled' => pc'[v] \in {"rollback", "cancelled", "lost"}
                      /\ pc'[v] = "cancelled" => v \in cancelled'
        BY DEF WriterInv
    <3>1. CASE v = w  BY <1>2, <2>3, <2>4, <3>1
    <3>2. CASE v # w  BY <2>3, <3>2 DEF DBInv, WriterInv
    <3>3. QED  BY <3>1, <3>2
  <2>11. FileInv'  BY <1>1, <1>2, <2>3, FileKeeps DEF Waits
  <2>12. DBInv'  BY <1>1, <2>8, <2>9, <2>10, <2>11, Assembled
  <2>13. QED  BY <1>2, <2>3, <2>12 DEF Same
<1>5. CASE pc[w] # "write"
  <2>1. Leave(w, "cancelled", thread) /\ "cancelled" \in Ended  BY <1>5 DEF Ended
  <2>2. /\ pc'[w] = "cancelled"
        /\ \/ thread' = thread /\ \A v \in Writers \ {w} : pc'[v] = pc[v]
           \/ \E n \in Writers \ {w} :
                 /\ pc[n] = "lock" /\ thread' = Append(thread, Call(First(n), n))
                 /\ pc'[n] = First(n)
                 /\ \A v \in Writers \ {w, n} : pc'[v] = pc[v]
    <3>1. /\ pc'[w] = "cancelled"
          /\ \/ /\ lock' = None /\ queue = <<>> /\ queue' = <<>> /\ thread' = thread
                /\ \A v \in Writers \ {w} : pc'[v] = pc[v]
             \/ \E n \in Writers \ {w} :
                   /\ queue # <<>> /\ n = Head(queue) /\ pc[n] = "lock"
                   /\ lock' = n /\ queue' = Tail(queue)
                   /\ thread' = Append(thread, Call(First(n), n)) /\ pc'[n] = First(n)
                   /\ \A v \in Writers \ {w, n} : pc'[v] = pc[v]
          BY <1>1, <1>2, <1>3, <2>1, Connected, LeaveEffect
    <3>2. QED  BY <3>1
  <2>3. \A v \in Writers \ {w} : Same(v)  BY <2>2 DEF Same
  <2>4. ASSUME NEW i \in 1..Len(thread)
        PROVE  /\ thread[i].by \in cancelled' /\ pc'[thread[i].by] = "cancelled"
               /\ thread[i].op # "write"
               /\ thread[i].op = "begin" => thread[i].by \in orphans'
    <3>1. thread[i].by \in Writers /\ thread[i].op \in Calls
          BY Connected, ThreadElements DEF ConnInv
    <3>2. CASE Latest(i)
          BY <1>2, <1>5, <2>2, <3>2 DEF Latest
    <3>3. CASE Abandoned(i)
      <4>1. thread[i].by # w  BY <3>3 DEF Abandoned
      <4>2. pc[thread[i].by] # "rollback"
            BY <1>2, <3>1, <4>1 DEF DBInv, LockInv, Waits
      <4>3. pc[thread[i].by] = "cancelled"  BY <3>3, <4>2 DEF Abandoned
      <4>4. pc'[thread[i].by] = "cancelled"  BY <2>3, <3>1, <4>1, <4>3 DEF Same
      <4>5. QED  BY <1>1, <3>3, <4>2, <4>4 DEF Abandoned
    <3>4. QED  BY <3>2, <3>3 DEF DBInv, ThreadInv
  <2>5. ConnInv'  BY <1>1, <1>2, <1>3, <2>1, <2>4, Connected, LeaveKeeps
  <2>6. CallInv' /\ OpenInv'
    <3>1. \/ thread' = thread
          \/ \E n \in Writers, op \in {"begin", "statement", "rollback"} :
                /\ thread' = Append(thread, Call(op, n))
                /\ op = "statement" <=> n \notin Transactions
          BY <2>2, NoFirst
    <3>2. QED  BY <1>1, <3>1, GrownKeeps
  <2>7. WriterInv'
    <3> SUFFICES ASSUME NEW v \in Writers
               PROVE  /\ pc'[v] \in {"idle", "lock", "begin", "backoff", "statement"} => written[v] = 0
                      /\ pc'[v] \in {"idle"} \cup Waits => tries[v] < MaxLockRetries
                      /\ pc'[v] \in Calls => (pc'[v] = "statement" <=> v \notin Transactions)
                      /\ v \in cancelled' => pc'[v] \in {"rollback", "cancelled", "lost"}
                      /\ pc'[v] = "cancelled" => v \in cancelled'
        BY DEF WriterInv
    <3>1. CASE v = w  BY <2>2, <3>1 DEF Waits, Calls
    <3>2. CASE v # w /\ pc'[v] = pc[v]  BY <3>2 DEF DBInv, WriterInv
    <3>3. CASE v # w /\ pc[v] = "lock" /\ pc'[v] = First(v)
          BY <3>3, NoFirst DEF DBInv, WriterInv, Waits, Calls
    <3>4. QED  BY <2>3, <3>1, <3>2, <3>3 DEF Same
  <2>8. FileInv'  BY <1>1, <1>2, <2>2, <2>3, FileKeeps, SamePlace DEF Waits
  <2>9. DBInv'  BY <1>1, <2>5, <2>6, <2>7, <2>8, Assembled
  <2>10. QED  BY <1>2, <2>2, <2>3, <2>9
<1>6. QED  BY <1>4, <1>5

LEMMA CancelKeeps ==
    ASSUME DBInv, NEW w \in Writers, Cancel(w)
    PROVE  /\ DBInv' /\ w \in Cancellable /\ pc[w] \in Waits
           /\ pc'[w] \in {"rollback", "cancelled"} /\ \A v \in Writers \ {w} : Same(v)
<1>0. /\ w \in Cancellable \ cancelled /\ cancelled' = cancelled \cup {w}
      /\ orphans' = IF pc[w] = "begin" THEN orphans \cup {w} ELSE orphans
      /\ UNCHANGED <<inTransaction, pending, file, written, tries, faults, load>>
      /\ \/ CancelHolding(w)
         \/ /\ pc[w] = "lock"
            /\ \E i \in DOMAIN queue :
                  /\ queue[i] = w
                  /\ queue' = SubSeq(queue, 1, i - 1) \o SubSeq(queue, i + 1, Len(queue))
            /\ pc' = [pc EXCEPT ![w] = "cancelled"] /\ UNCHANGED <<lock, thread>>
      BY Zenon DEF Cancel
<1>1. CASE pc[w] = "lock"
  <2>1. ~CancelHolding(w)  BY <1>1 DEF CancelHolding
  <2>2. PICK i \in DOMAIN queue :
           /\ queue[i] = w
           /\ queue' = SubSeq(queue, 1, i - 1) \o SubSeq(queue, i + 1, Len(queue))
           /\ pc' = [pc EXCEPT ![w] = "cancelled"] /\ UNCHANGED <<lock, thread>>
        BY <1>0, <2>1
  <2>3. orphans' = orphans  BY <1>0, <1>1
  <2>4. queue \in Seq(Writers) /\ i \in 1..Len(queue)
        BY Connected, LenProperties DEF ConnInv, ConnectionType
  <2>5. /\ queue' \in Seq(Writers) /\ Len(queue') = Len(queue) - 1 /\ Len(queue') \in Nat
        /\ \A k \in 1..Len(queue') : queue'[k] = IF k < i THEN queue[k] ELSE queue[k + 1]
    <3>1. LET r == SubSeq(queue, 1, i - 1) \o SubSeq(queue, i + 1, Len(queue))
          IN  /\ r \in Seq(Writers) /\ Len(r) = Len(queue) - 1 /\ Len(r) \in Nat
              /\ \A k \in 1..Len(r) : r[k] = IF k < i THEN queue[k] ELSE queue[k + 1]
          BY <2>4, WithoutOne, Zenon
    <3>2. QED  BY <2>2, <3>1, Zenon
  <2>6. /\ queue[i] = w /\ pc' = [pc EXCEPT ![w] = "cancelled"] /\ UNCHANGED <<lock, thread>>
        BY <2>2
  <2>7. /\ DBInv' /\ \A v \in Writers \ {w} : pc'[v] = pc[v]
        /\ pc'[w] = "cancelled"
        BY <1>0, <1>1, <2>3, <2>5, <2>6, CancelWaitingKeeps
  <2>8. QED  BY <1>0, <1>1, <2>7 DEF Same, Waits
<1>2. CASE pc[w] # "lock"
      BY <1>0, <1>2, CancelHoldingKeeps
<1>3. QED  BY <1>1, <1>2

LEMMA ForgetKeeps ==
    ASSUME DBInv, NEW again \in SUBSET Writers, NEW gone, Forget(again, gone),
           \A w \in again : RowsOf(w) \cap file = {} /\ w \notin Cancellable,
           \A w \in Writers : w \in gone => pc[w] = "idle"
    PROVE  DBInv'
<1> USE DEF Forget
<1>1. DataType'
  <2>1. 0 \in 0..2 /\ 0 \in 0..MaxLockRetries  BY Constants
  <2>2. written' \in [Writers -> 0..2] /\ tries' \in [Writers -> 0..MaxLockRetries]
        BY <2>1, DataNow DEF DataType
  <2>3. QED  BY <2>2, DataNow DEF DataType
<1>2. ASSUME NEW w \in Writers
      PROVE  /\ pc'[w] = IF w \in again THEN "idle"
                         ELSE IF pc[w] \in Waits \/ w \in gone THEN "lost" ELSE pc[w]
             /\ pc'[w] \in {"idle"} \cup Ended
             /\ written'[w] = IF w \in again THEN 0 ELSE written[w]
             /\ tries'[w] = IF w \in again THEN 0 ELSE tries[w]
      BY Connected DEF ConnInv, ConnectionType, Ended
<1>3. ConnectionType'
  <2>1. pc' \in [Writers -> {"idle"} \cup Waits \cup Ended]  BY <1>2
  <2>2. QED  BY <2>1 DEF ConnectionType
<1>4. \A w \in Writers : pc'[w] \notin Waits  BY <1>2 DEF Waits, Ended
<1>5. LockInv' /\ ThreadInv' /\ CallInv' /\ OpenInv'
  <2>1. Len(queue') = 0 /\ Len(thread') = 0  BY EmptySeq
  <2>2. QED  BY <1>4, <2>1, Constants DEF LockInv, ThreadInv, CallInv, OpenInv, Calls, Waits
<1>6. WriterInv'
  <2> SUFFICES ASSUME NEW v \in Writers
               PROVE  /\ pc'[v] \in {"idle", "lock", "begin", "backoff", "statement"} => written'[v] = 0
                      /\ pc'[v] \in {"idle"} \cup Waits => tries'[v] < MaxLockRetries
                      /\ pc'[v] \in Calls => (pc'[v] = "statement" <=> v \notin Transactions)
                      /\ v \in cancelled => pc'[v] \in {"rollback", "cancelled", "lost"}
                      /\ pc'[v] = "cancelled" => v \in cancelled
      BY DEF WriterInv
  <2>1. v \in again => v \notin cancelled  BY DataNow DEF DataType
  <2>2. pc'[v] \notin Calls  BY <1>4 DEF Calls, Waits
  <2>3. CASE v \in again  BY <1>2, <2>1, <2>2, <2>3, Constants
  <2>4. CASE v \notin again /\ pc'[v] = pc[v]  BY <1>2, <2>4 DEF DBInv, WriterInv
  <2>5. CASE v \notin again /\ pc'[v] = "lost"  BY <1>2, <2>5 DEF Waits, Calls
  <2>6. QED  BY <1>2, <2>3, <2>4, <2>5
<1>7. FileInv'
  <2> SUFFICES ASSUME NEW w \in Writers
             PROVE /\ RowsOf(w) \cap file # {} => RowsOf(w) \subseteq file /\ pc'[w] \in {"ok", "cancelled"}
                   /\ pc'[w] = "ok" /\ w \notin Copying /\ RowsOf(w) \cap file = {} =>
                         orphans # {} /\ w \notin Transactions
      BY DEF FileInv, RowsOf
  <2>1. CASE w \in again  BY <1>2, <2>1
  <2>2. CASE w \notin again /\ pc'[w] = pc[w]  BY <2>2 DEF DBInv, FileInv
  <2>3. CASE w \notin again /\ pc'[w] = "lost" /\ pc[w] \notin {"ok", "cancelled"}
        BY <2>3 DEF DBInv, FileInv
  <2>4. QED  BY <1>2, <2>1, <2>2, <2>3 DEF Waits
<1>8. QED  BY <1>1, <1>3, <1>5, <1>6, <1>7, Assembled DEF ConnInv

\* VACUUM INTO has ended, well or not.
LEMMA CopyLeaves ==
    ASSUME DBInv, Running("statement"), Awaited, Author \in Copying,
           NEW outcome \in {"ok", "error"}, Leave(Author, outcome, Rest),
           Fault \/ NoFault,
           UNCHANGED <<inTransaction, pending, file, written, tries, orphans, cancelled, load>>
    PROVE  /\ DBInv' /\ pc[Author] = "statement" /\ pc'[Author] = outcome
           /\ \A v \in Writers \ {Author} : Same(v)
<1> USE DEF Running
<1>1. Author \notin cancelled  BY HeadCall
<1>2. /\ ConnInv' /\ CallInv' /\ WriterInv' /\ Author \in Writers
      /\ pc[Author] = "statement"
      /\ pc'[Author] = outcome /\ \A v \in Writers \ {Author} : Same(v)
      BY <1>1, LeftKeeps
<1>3. FileInv'  BY <1>2, FileKeeps, SamePlace DEF Waits
<1>4. OpenInv'  BY HeadCall DEF OpenInv
<1>5. DataType'  BY DataNow, FaultTyped DEF DataType, NoFault
<1>6. QED  BY <1>2, <1>3, <1>4, <1>5, Assembled

-------------------------------------------------------------------------------
(* What the steps of the connection do to the writers.                       *)

\* Writers come, in `coming`, or go on, or end.
Moves(coming) ==
    \A v \in Writers :
       \/ pc'[v] = pc[v]
       \/ v \in coming /\ pc[v] = "idle" /\ pc'[v] \in Waits
       \/ pc[v] \in Waits /\ pc'[v] \in Waits \cup {"ok", "error", "cancelled"}

\* Nobody copies, or is done with it.
NoCopyEnds ==
    \A v \in Copying : pc'[v] = pc[v] \/ (pc[v] \in Waits /\ pc'[v] \in Waits)

LEMMA SameMoves ==
    ASSUME DBInv, NEW w \in Writers, \A v \in Writers \ {w} : Same(v)
    PROVE  \A v \in Writers \ {w} : pc'[v] = pc[v] \/ (pc[v] \in Waits /\ pc'[v] \in Waits)
BY SamePlace DEF Waits

LEMMA ThreadKeeps ==
    ASSUME DBInv, Thread
    PROVE  DBInv' /\ Moves({}) /\ NoCopyEnds /\ file \subseteq file' /\ UNCHANGED load
<1>1. DBInv' /\ file \subseteq file' /\ UNCHANGED load
  <2>1. CASE Busy  BY <2>1, BusyKeeps DEF Busy
  <2>2. CASE BeginRuns  BY <2>2, BeginRunsKeeps DEF BeginRuns
  <2>3. CASE WriteRuns  BY <2>3, WriteRunsKeeps DEF WriteRuns
  <2>4. CASE WriteFails  BY <2>4, WriteFailsKeeps DEF WriteFails
  <2>5. CASE RollbackRuns  BY <2>5, RollbackRunsKeeps DEF RollbackRuns
  <2>6. CASE CommitRuns  BY <2>6, CommitRunsKeeps DEF CommitRuns
  <2>7. CASE CommitFails  BY <2>7, CommitFailsKeeps DEF CommitFails
  <2>8. CASE StatementRuns  BY <2>8, StatementRunsKeeps DEF StatementRuns
  <2>9. CASE StatementFails  BY <2>9, StatementFailsKeeps DEF StatementFails
  <2>10. CASE \E w \in Writers : BackoffEnds(w)  BY <2>10, BackoffEndsKeeps DEF BackoffEnds
  <2>11. QED
        BY <2>1, <2>2, <2>3, <2>4, <2>5, <2>6, <2>7, <2>8, <2>9, <2>10 DEF Thread
<1>2. CASE \E w \in Writers : BackoffEnds(w)
  <2>1. PICK w \in Writers : BackoffEnds(w)  BY <1>2
  <2>2. First(w) \in Waits  BY NoFirst DEF Waits
  <2>3. /\ pc[w] \in Waits /\ pc'[w] \in Waits /\ \A v \in Writers \ {w} : pc'[v] = pc[v]
        BY <2>1, <2>2, Connected DEF BackoffEnds, Continue, ConnInv, ConnectionType, Waits
  <2>4. QED  BY <1>1, <2>3, Constants DEF Moves, NoCopyEnds
<1>3. ASSUME thread # <<>>, Author \notin Copying,
             \/ NobodyWaits
             \/ Awaited /\ pc' = [pc EXCEPT ![Author] = "backoff"]
             \/ Awaited /\ \E op \in {"write", "commit", "rollback"} : Continue(Author, op, Rest)
             \/ Awaited /\ \E o \in {"ok", "error", "cancelled"} : Leave(Author, o, Rest)
      PROVE  Moves({}) /\ NoCopyEnds
  <2>1. Author \in Writers /\ Head(thread).op \in Calls  BY <1>3, HeadCall
  <2>2. CASE NobodyWaits  BY <2>2 DEF NobodyWaits, Moves, NoCopyEnds
  <2>3. CASE Awaited
    <3>1. pc[Author] \in Waits /\ lock = Author
          BY <1>3, <2>1, <2>3 DEF Awaited, Calls, Waits
    <3>2. CASE \/ pc' = [pc EXCEPT ![Author] = "backoff"]
               \/ \E op \in {"write", "commit", "rollback"} : Continue(Author, op, Rest)
      <4>1. /\ pc'[Author] \in Waits
            /\ \A v \in Writers \ {Author} : pc'[v] = pc[v]
            BY <2>1, <3>2, Connected DEF Continue, ConnInv, ConnectionType, Waits
      <4>2. QED  BY <3>1, <4>1, <1>3, Constants DEF Moves, NoCopyEnds
    <3>3. ASSUME NEW o \in {"ok", "error", "cancelled"}, Leave(Author, o, Rest)
          PROVE  Moves({}) /\ NoCopyEnds
      <4>1. Rest \in Seq(CallType) /\ o \in Ended
            BY <1>3, Connected, HeadOfThread DEF Ended
      <4>2. pc'[Author] = o /\ \A v \in Writers \ {Author} : Same(v)
        <5>1. /\ pc'[Author] = o
              /\ \/ \A v \in Writers \ {Author} : pc'[v] = pc[v]
                 \/ \E n \in Writers \ {Author} :
                       /\ pc[n] = "lock" /\ pc'[n] = First(n)
                       /\ \A v \in Writers \ {Author, n} : pc'[v] = pc[v]
              BY <2>1, <3>1, <3>3, <4>1, Connected, LeaveEffect
        <5>2. QED  BY <5>1 DEF Same
      <4>3. \A v \in Writers \ {Author} : pc'[v] = pc[v] \/ (pc[v] \in Waits /\ pc'[v] \in Waits)
            BY <2>1, <4>2, SameMoves
      <4>4. QED  BY <1>3, <2>1, <3>1, <4>2, <4>3, Constants DEF Moves, NoCopyEnds
    <3>4. QED  BY <1>3, <2>3, <2>2, <3>2, <3>3
  <2>4. QED  BY <1>3, <2>2, <2>3
<1>4. CASE Busy
  <2>1. Author \notin Copying
        BY <1>4, HeadCall, Constants DEF Busy, Running
  <2>2. /\ thread # <<>>
        /\ \/ NobodyWaits
           \/ Awaited /\ pc' = [pc EXCEPT ![Author] = "backoff"]
           \/ Awaited /\ Leave(Author, "error", Rest)
        BY <1>4 DEF Busy, Running
  <2>3. QED  BY <1>1, <1>3, <2>1, <2>2
<1>5. ASSUME thread # <<>>,
             \/ BeginRuns \/ WriteRuns \/ WriteFails \/ RollbackRuns \/ CommitRuns \/ CommitFails
      PROVE  Moves({}) /\ NoCopyEnds
  <2>1. Author \notin Copying
    <3>1. Head(thread).op # "statement"
          BY <1>5 DEF BeginRuns, WriteRuns, WriteFails, RollbackRuns, CommitRuns, CommitFails, Running
    <3>2. QED  BY <1>5, <3>1, HeadCall, Constants
  <2>2. \/ NobodyWaits
        \/ Awaited /\ \E op \in {"write", "commit", "rollback"} : Continue(Author, op, Rest)
        \/ Awaited /\ \E o \in {"ok", "error", "cancelled"} : Leave(Author, o, Rest)
    <3>1. CASE BeginRuns  BY <3>1 DEF BeginRuns
    <3>2. CASE WriteRuns  BY <3>2 DEF WriteRuns
    <3>3. CASE WriteFails  BY <3>3 DEF WriteFails
    <3>4. CASE RollbackRuns  BY <3>4 DEF RollbackRuns, Cause
    <3>5. CASE CommitRuns  BY <3>5 DEF CommitRuns
    <3>6. CASE CommitFails  BY <3>6 DEF CommitFails
    <3>7. QED  BY <1>5, <3>1, <3>2, <3>3, <3>4, <3>5, <3>6
  <2>3. QED  BY <1>3, <1>5, <2>1, <2>2
<1>6. CASE StatementRuns \/ StatementFails
  <2>1. /\ thread # <<>> /\ Author \notin Copying
        /\ \/ NobodyWaits
           \/ Awaited /\ \E o \in {"ok", "error", "cancelled"} : Leave(Author, o, Rest)
        BY <1>6 DEF StatementRuns, StatementFails, Running
  <2>2. QED  BY <1>1, <1>3, <2>1
<1>7. QED
  <2>1. ASSUME BeginRuns \/ WriteRuns \/ WriteFails \/ RollbackRuns \/ CommitRuns \/ CommitFails
        PROVE  thread # <<>>
        BY <2>1 DEF BeginRuns, WriteRuns, WriteFails, RollbackRuns, CommitRuns, CommitFails, Running
  <2>2. QED  BY <1>1, <1>2, <1>4, <1>5, <1>6, <2>1 DEF Thread

-------------------------------------------------------------------------------
(* The invariant above the connection: fees, migrations, backups.            *)

FeeInv ==
    \A b \in Builds :
       /\ ~Started(b) => pc[b] = "idle"
       /\ Started(b) =>
            /\ answer[owner[b]].from = b
            /\ answer[owner[b]].state # "idle"
            /\ answer[owner[b]].state = "waits" => inFlight = b
            /\ answer[owner[b]].state \in {"got", "failed"} => pc[b] \in Ended

\* Only the migration that upgrade() has come to is under way.
MigrationInv ==
    /\ \A v \in 1..Versions : pc[Schema(v)] \in Waits => phase = "migrating" /\ v = migrating
    /\ \A v \in Applied : 1..v \subseteq Applied
    /\ phase = "migrating" => \A v \in 1..Versions : v < migrating => v \in Applied

CopyInv ==
    /\ IsFiniteSet(copies)
    /\ \A c \in copies : c.at \in 1..round
    /\ \A c, d \in copies : c.at = d.at => c = d
    /\ \A c \in copies : c.sound => Whole(c.rows)

BackupInv ==
    /\ \A n \in 1..MaxBackups :
          /\ n > round => pc[Copy(n)] = "idle"
          /\ pc[Copy(n)] \in Waits => backup = "copying" /\ n = round /\ Present(n) = {}
    /\ backup # "none" => round \in 1..MaxBackups /\ phase = "running"
    /\ backup = "copying" /\ pc[Copy(round)] = "ok" => Present(round) # {}
    /\ backup = "verifying" => Present(round) # {}

\* The backups decided so far, and their copies.
Settled == IF backup \in {"copying", "verifying"} THEN round - 1 ELSE round
Older == {c \in copies : c.at <= Settled}
Fewer(a, b) == IF a < b THEN a ELSE b

KeptInv ==
    /\ succeeded \subseteq 1..Settled
    /\ succeeded # {} => \E c \in Older : c.sound
    /\ Cardinality(Older) >= Fewer(Keep, Cardinality(succeeded))

IInv ==
    /\ TypeOK /\ DBInv /\ FeeInv /\ MigrationInv
    /\ CopyInv /\ BackupInv /\ KeptInv

LEMMA Names ==
    /\ Jobs \subseteq Writers /\ Jobs \cap Copying = {}
    /\ Builds \subseteq Writers /\ Builds \cap Copying = {} /\ Builds \subseteq Transactions
    /\ Migrations \subseteq Writers /\ Migrations \cap Copying = {} /\ Migrations \subseteq Transactions
    /\ Jobs \cap Builds = {} /\ Jobs \cap Migrations = {} /\ Builds \cap Migrations = {}
    /\ Cancellable = Jobs /\ None \notin Builds
    /\ \A v \in 1..Versions : Schema(v) \in Migrations
    /\ \A m \in Migrations : \E v \in 1..Versions : m = Schema(v)
<1>1. Builds \cap Migrations = {}  BY DEF Builds, Migrations, Build, Schema
<1>2. \A v \in 1..Versions : Schema(v) \in Migrations  BY DEF Migrations
<1>3. \A m \in Migrations : \E v \in 1..Versions : m = Schema(v)  BY DEF Migrations
<1>4. /\ Transactions = Jobs \cup Builds \cup Migrations /\ Cancellable = Jobs
      /\ Jobs \cap (Builds \cup Migrations) = {}
      BY StorageAssumption
<1>5. QED  BY <1>1, <1>2, <1>3, <1>4, Constants

LEMMA BackupNames ==
    /\ \A n \in 1..MaxBackups : /\ Copy(n) \in Copying /\ Copy(n) \in Writers
                                /\ Ran(n) \in Writers /\ Said(n) \in Writers
                                /\ Ran(n) \notin Builds \cup Migrations \cup Copying
                                /\ Said(n) \notin Builds \cup Migrations \cup Copying
    /\ \A w \in Copying : \E n \in 1..MaxBackups : w = Copy(n)
    /\ MaxBackups \in Nat /\ Keep \in Nat /\ Keep > 0 /\ Versions \in Nat /\ MaxStarts \in Nat
<1>1. Copying = {Copy(n) : n \in 1..MaxBackups}  BY StorageAssumption
<1>2. ASSUME NEW n \in 1..MaxBackups
      PROVE  Ran(n) \in Writers /\ Said(n) \in Writers
  <2>1. {Copy(n), Ran(n), Said(n)} \subseteq UNION {{Copy(k), Ran(k), Said(k)} : k \in 1..MaxBackups}
        BY Zenon
  <2>2. UNION {{Copy(k), Ran(k), Said(k)} : k \in 1..MaxBackups} \subseteq Writers
        BY StorageAssumption
  <2>3. QED  BY <2>1, <2>2
<1>3. \A n \in 1..MaxBackups : Ran(n) \notin Builds /\ Said(n) \notin Builds
      BY DEF Ran, Said, Builds, Build
<1>4. \A n \in 1..MaxBackups : Ran(n) \notin Migrations /\ Said(n) \notin Migrations
      BY DEF Ran, Said, Migrations, Schema
<1>5. \A n \in 1..MaxBackups : Ran(n) \notin Copying /\ Said(n) \notin Copying
      BY <1>1 DEF Ran, Said, Copy
<1>6. QED  BY <1>1, <1>2, <1>3, <1>4, <1>5, Constants, StorageAssumption

\* A migration is applied when its rows are in the file.
LEMMA AppliedRows ==
    ASSUME DBInv, NEW v \in 1..Versions
    PROVE  /\ v \in Applied <=> RowsOf(Schema(v)) \cap file # {}
           /\ v \in Applied => pc[Schema(v)] = "ok"
           /\ pc[Schema(v)] = "ok" => v \in Applied
<1>1. Schema(v) \in Writers /\ Schema(v) \in Transactions /\ Schema(v) \notin Cancellable
      BY Names
<1>2. RowsOf(Schema(v)) = {<<Schema(v), 1>>, <<Schema(v), 2>>}  BY <1>1, OwnRows
<1>3. RowsOf(Schema(v)) \cap file # {} =>
         /\ RowsOf(Schema(v)) \subseteq file /\ pc[Schema(v)] \in {"ok", "cancelled"}
      BY <1>1 DEF DBInv, FileInv
<1>4. pc[Schema(v)] # "cancelled"
      BY <1>1, DataNow DEF DBInv, WriterInv, DataType
<1>5. pc[Schema(v)] = "ok" => RowsOf(Schema(v)) \cap file # {}
      BY <1>1, Constants DEF DBInv, FileInv
<1>6. v \in Applied <=> <<Schema(v), 2>> \in file  BY DEF Applied
<1>7. QED  BY <1>2, <1>3, <1>4, <1>5, <1>6

LEMMA AppliedNext ==
    ASSUME DBInv', NEW v \in 1..Versions
    PROVE  v \in Applied' => pc'[Schema(v)] = "ok"
<1>1. Schema(v) \in Writers /\ Schema(v) \in Transactions /\ Schema(v) \notin Cancellable
      BY Names
<1>2. RowsOf(Schema(v)) = {<<Schema(v), 1>>, <<Schema(v), 2>>}  BY <1>1, OwnRows
<1>3. RowsOf(Schema(v)) \cap file' # {} => pc'[Schema(v)] \in {"ok", "cancelled"}
      BY <1>1 DEF DBInv, FileInv, RowsOf
<1>4. pc'[Schema(v)] # "cancelled"
      BY <1>1, TypePartsNext DEF DBInv, WriterInv, DataType
<1>5. v \in Applied' <=> <<Schema(v), 2>> \in file'  BY DEF Applied
<1>6. QED  BY <1>2, <1>3, <1>4, <1>5

LEMMA MigrationKeeps ==
    ASSUME DBInv, DBInv', MigrationInv, NEW coming, Moves(coming),
           coming \cap Migrations = {}, file \subseteq file', UNCHANGED <<phase, migrating>>
    PROVE  MigrationInv'
<1>1. ASSUME NEW v \in 1..Versions
      PROVE  /\ pc'[Schema(v)] \in Waits => pc[Schema(v)] \in Waits
             /\ v \in Applied => v \in Applied'
             /\ v \in Applied' => v \in Applied \/ pc[Schema(v)] \in Waits
  <2>1. Schema(v) \in Writers /\ Schema(v) \notin coming  BY Names
  <2>2. pc'[Schema(v)] \in Waits => pc[Schema(v)] \in Waits  BY <2>1 DEF Moves
  <2>3. v \in Applied => v \in Applied'  BY DEF Applied
  <2>4. ASSUME v \in Applied'  PROVE v \in Applied \/ pc[Schema(v)] \in Waits
    <3>1. pc'[Schema(v)] = "ok"  BY <2>4, AppliedNext
    <3>2. pc[Schema(v)] = "ok" \/ pc[Schema(v)] \in Waits  BY <2>1, <3>1 DEF Moves
    <3>3. QED  BY <3>2, AppliedRows
  <2>5. QED  BY <2>2, <2>3, <2>4
<1>2. ASSUME NEW v \in Applied'  PROVE 1..v \subseteq Applied'
  <2>1. v \in 1..Versions /\ Versions \in Nat  BY BackupNames DEF Applied
  <2>2. ASSUME NEW u \in 1..v  PROVE u \in Applied'
    <3>1. u \in 1..Versions /\ (u = v \/ u < v)  BY <2>1
    <3>2. CASE u = v  BY <3>2
    <3>3. CASE u < v /\ v \in Applied  BY <1>1, <3>1, <3>3 DEF MigrationInv
    <3>4. CASE u < v /\ pc[Schema(v)] \in Waits
          BY <1>1, <2>1, <3>1, <3>4 DEF MigrationInv
    <3>5. QED  BY <1>1, <2>1, <3>1, <3>2, <3>3, <3>4
  <2>3. QED  BY <2>2
<1>3. QED  BY <1>1, <1>2 DEF MigrationInv

LEMMA FeeKeeps ==
    ASSUME FeeInv, NEW coming, Moves(coming), UNCHANGED <<owner, answer, inFlight>>,
           \A b \in Builds : b \in coming => Started(b)
    PROVE  FeeInv'
<1> SUFFICES ASSUME NEW b \in Builds
             PROVE  /\ ~Started(b) => pc'[b] = "idle"
                    /\ Started(b) /\ answer[owner[b]].state \in {"got", "failed"} => pc'[b] \in Ended
    BY DEF FeeInv, Started
<1>1. b \in Writers  BY Names
<1>2. "idle" \notin Waits /\ "idle" \notin Ended /\ \A s \in Ended : s \notin Waits
      BY DEF Waits, Ended
<1>3. QED  BY <1>1, <1>2 DEF FeeInv, Moves

\* Copies and backups, in a step that is not theirs.
LEMMA BackupKeeps ==
    ASSUME CopyInv, BackupInv, KeptInv, NoCopyEnds, UNCHANGED backupVars,
           phase' = phase \/ backup = "none"
    PROVE  CopyInv' /\ BackupInv' /\ KeptInv'
<1> USE DEF backupVars
<1>1. CopyInv'  BY DEF CopyInv, Whole, RowsOf
<1>2. KeptInv'  BY DEF KeptInv, Older, Settled
<1>3. ASSUME NEW n \in 1..MaxBackups
      PROVE  /\ pc[Copy(n)] = "idle" => pc'[Copy(n)] = "idle"
             /\ pc'[Copy(n)] \in Waits => pc[Copy(n)] \in Waits
             /\ pc'[Copy(n)] = "ok" => pc[Copy(n)] = "ok"
      BY BackupNames DEF NoCopyEnds, Waits
<1>4. BackupInv'
  <2>1. \A n \in 1..MaxBackups :
           /\ n > round => pc'[Copy(n)] = "idle"
           /\ pc'[Copy(n)] \in Waits => backup = "copying" /\ n = round /\ Present(n) = {}
        BY <1>3 DEF BackupInv
  <2>2. Present(round)' = Present(round) /\ \A n \in 1..MaxBackups : Present(n)' = Present(n)
        BY DEF Present
  <2>3. backup = "copying" /\ pc'[Copy(round)] = "ok" => Present(round) # {}
        BY <1>3 DEF BackupInv
  <2>4. QED  BY <2>1, <2>2, <2>3 DEF BackupInv
<1>5. QED  BY <1>1, <1>2, <1>4

\* A writer comes to the connection.
LEMMA EnterMoves ==
    ASSUME DBInv, NEW w \in Writers, Enter(w)
    PROVE  /\ DBInv' /\ Moves({w}) /\ file \subseteq file' /\ file' = file
           /\ pc[w] = "idle" /\ pc'[w] \in Waits
           /\ \A v \in Writers \ {w} : pc'[v] = pc[v]
           /\ w \notin Copying => NoCopyEnds
<1>1. /\ DBInv' /\ pc[w] = "idle" /\ pc'[w] \in {"lock", "begin", "statement"}
      /\ \A v \in Writers \ {w} : pc'[v] = pc[v]
      BY EnterKeeps
<1>2. pc'[w] \in Waits /\ file' = file  BY <1>1 DEF Enter, Waits
<1>3. QED  BY <1>1, <1>2, Constants DEF Moves, NoCopyEnds

-------------------------------------------------------------------------------
(* The steps of the whole.                                                   *)

ProcessType ==
    /\ phase \in {"down", "migrating", "running"}
    /\ migrating \in 0..Versions
    /\ starts \in 0..MaxStarts

BackupType ==
    /\ backup \in {"none", "copying", "verifying", "marking", "telling"}
    /\ copies \subseteq CopyFile
    /\ round \in 0..MaxBackups /\ succeeded \subseteq 1..MaxBackups

BackupAll == BackupType /\ CopyInv /\ BackupInv /\ KeptInv

LEMMA Parts ==
    /\ IInv <=> DBInv /\ FeesTypeOK /\ ProcessType /\ FeeInv /\ MigrationInv /\ BackupAll
    /\ IInv' <=> DBInv' /\ FeesTypeOK' /\ ProcessType' /\ FeeInv' /\ MigrationInv' /\ BackupAll'
BY DEF IInv, TypeOK, DBInv, ProcessType, BackupType, BackupAll

LEMMA InitInv ==
    Init => IInv
<1> SUFFICES ASSUME Init PROVE IInv  OBVIOUS
<1> USE DEF Init, DatabaseInit, FeesInit
<1>1. DBInv
  <2>1. DatabaseTypeOK
    <3>1. queue \in Seq(Writers) /\ thread \in Seq(CallType)  OBVIOUS
    <3>2. 0 \in 0..MaxLockRetries /\ 0 \in 0..2  BY Constants
    <3>3. faults \in 0..load.faults  BY DatabaseAssumption
    <3>4. QED  BY <3>1, <3>2, <3>3 DEF DatabaseTypeOK, CallType
  <2>2. Len(queue) = 0 /\ Len(thread) = 0  BY EmptySeq
  <2>3. \A w \in Writers : pc[w] = "idle"  OBVIOUS
  <2>4. LockInv /\ ThreadInv /\ CallInv /\ OpenInv
        BY <2>2, <2>3, Constants DEF LockInv, ThreadInv, CallInv, OpenInv, Waits, Calls
  <2>5. WriterInv  BY <2>3, Constants DEF WriterInv, Calls
  <2>6. FileInv  BY <2>3 DEF FileInv
  <2>7. QED  BY <2>1, <2>4, <2>5, <2>6 DEF DBInv
<1>2. FeesTypeOK /\ ProcessType
  <2>1. FeesTypeOK  BY DEF FeesTypeOK, NoAnswer
  <2>2. ProcessType  BY BackupNames DEF ProcessType
  <2>3. QED  BY <2>1, <2>2
<1>3. FeeInv
  <2>1. \A b \in Builds : ~Started(b) /\ pc[b] = "idle"  BY Names DEF Started
  <2>2. QED  BY <2>1 DEF FeeInv
<1>4. MigrationInv  BY Names DEF MigrationInv, Applied, Waits
<1>5. BackupAll
  <2>1. CopyInv  BY FS_EmptySet DEF CopyInv
  <2>2. BackupInv  BY BackupNames DEF BackupInv, Waits
  <2>3. KeptInv
    <3>1. Older = {}  BY DEF Older
    <3>2. Cardinality(Older) = 0 /\ Cardinality(succeeded) = 0  BY <3>1, FS_EmptySet
    <3>3. QED  BY <3>1, <3>2, BackupNames DEF KeptInv, Fewer
  <2>4. BackupType  BY BackupNames DEF BackupType
  <2>5. QED  BY <2>1, <2>2, <2>3, <2>4 DEF BackupAll
<1>6. QED  BY <1>1, <1>2, <1>3, <1>4, <1>5, Parts

LEMMA BackupAllKeeps ==
    ASSUME BackupAll, NoCopyEnds, UNCHANGED backupVars, phase' = phase \/ backup = "none"
    PROVE  BackupAll'
<1>1. CopyInv' /\ BackupInv' /\ KeptInv'  BY BackupKeeps DEF BackupAll
<1>2. BackupType'  BY DEF BackupAll, BackupType, backupVars
<1>3. QED  BY <1>1, <1>2 DEF BackupAll

LEMMA Stutters ==
    ASSUME DBInv, UNCHANGED vars
    PROVE  DBInv' /\ Moves({}) /\ NoCopyEnds /\ file \subseteq file'
<1> USE DEF vars, connection
<1>1. DBInv'
  <2>1. DatabaseTypeOK'  BY DEF DBInv, DatabaseTypeOK
  <2>2. LockInv' /\ ThreadInv'  BY DEF DBInv, LockInv, ThreadInv, Latest, Abandoned
  <2>3. CallInv' /\ OpenInv'  BY GrownKeeps
  <2>4. WriterInv'  BY DEF DBInv, WriterInv
  <2>5. FileInv'  BY FileKeeps
  <2>6. QED  BY <2>1, <2>2, <2>3, <2>4, <2>5 DEF DBInv
<1>2. Moves({}) /\ NoCopyEnds  BY DEF Moves, NoCopyEnds
<1>3. QED  BY <1>1, <1>2

LEMMA BootKeeps ==
    ASSUME IInv, Boot PROVE IInv'
<1> USE DEF Boot
<1>1. DBInv' /\ Moves({}) /\ NoCopyEnds  BY Stutters, Parts
<1>2. FeesTypeOK' /\ FeeInv'
  <2>1. FeesTypeOK'  BY Parts DEF FeesTypeOK, feeVars
  <2>2. FeeInv'  BY <1>1, FeeKeeps, Parts DEF feeVars
  <2>3. QED  BY <2>1, <2>2
<1>3. ProcessType'  BY Parts, BackupNames DEF ProcessType
<1>4. backup = "none"  BY Parts DEF BackupAll, BackupInv
<1>5. BackupAll'  BY <1>1, <1>4, BackupAllKeeps, Parts
<1>6. MigrationInv'  BY Parts DEF MigrationInv, Applied, vars
<1>7. QED  BY <1>1, <1>2, <1>3, <1>5, <1>6, Parts

LEMMA MigrateKeeps ==
    ASSUME IInv, Migrate PROVE IInv'
<1> USE DEF Migrate
<1>1. PICK v \in Pending :
         (\A u \in Pending : v <= u) /\ migrating' = v /\ Enter(Schema(v))
      OBVIOUS
<1>2. /\ v \in 1..Versions /\ Schema(v) \in Writers /\ Schema(v) \in Migrations
      /\ Schema(v) \notin Copying /\ Schema(v) \notin Builds /\ DBInv /\ Versions \in Nat
      BY <1>1, Names, Parts, BackupNames DEF Pending
<1>3. /\ DBInv' /\ Moves({Schema(v)}) /\ file' = file
      /\ pc'[Schema(v)] \in Waits /\ NoCopyEnds
      /\ \A w \in Writers \ {Schema(v)} : pc'[w] = pc[w]
      BY <1>1, <1>2, EnterMoves
<1>4. FeesTypeOK' /\ FeeInv' /\ ProcessType'
  <2>1. FeesTypeOK'  BY Parts DEF FeesTypeOK, feeVars
  <2>2. FeeInv'  BY <1>2, <1>3, FeeKeeps, Parts DEF feeVars
  <2>3. ProcessType'  BY <1>1, <1>2, Parts DEF ProcessType
  <2>4. QED  BY <2>1, <2>2, <2>3
<1>5. BackupAll'  BY <1>3, BackupAllKeeps, Parts
<1>6. MigrationInv'
  <2>1. Applied' = Applied  BY <1>3 DEF Applied
  <2>2. ASSUME NEW u \in 1..Versions, pc'[Schema(u)] \in Waits  PROVE u = v
    <3>1. CASE Schema(u) = Schema(v)  BY <3>1 DEF Schema
    <3>2. CASE Schema(u) # Schema(v)
      <4>1. pc[Schema(u)] \in Waits  BY <1>3, <2>2, <3>2, Names
      <4>2. u = migrating /\ migrating # 0  BY <4>1, Parts DEF MigrationInv
      <4>3. pc[Schema(u)] = "ok"  BY <4>2 DEF UpgradeGoesOn
      <4>4. QED  BY <4>1, <4>3 DEF Waits
    <3>3. QED  BY <3>1, <3>2
  <2>3. ASSUME NEW u \in 1..Versions, u < v  PROVE u \in Applied
    <3>1. u \notin Pending  BY <1>1, <1>2, <2>3
    <3>2. CASE u > migrating  BY <3>1, <3>2 DEF Pending
    <3>3. CASE u = migrating
      <4>1. pc[Schema(u)] = "ok"  BY <3>3, <1>2 DEF UpgradeGoesOn
      <4>2. QED  BY <1>2, <4>1, AppliedRows
    <3>4. CASE u < migrating  BY <3>4, Parts DEF MigrationInv
    <3>5. migrating \in Nat  BY Parts, <1>2 DEF ProcessType
    <3>6. QED  BY <3>2, <3>3, <3>4, <3>5
  <2>4. \A u \in Applied : 1..u \subseteq Applied  BY Parts DEF MigrationInv
  <2>5. QED  BY <1>1, <2>1, <2>2, <2>3, <2>4 DEF MigrationInv
<1>7. QED  BY <1>3, <1>4, <1>5, <1>6, Parts

LEMMA MigratedKeeps ==
    ASSUME IInv, Migrated PROVE IInv'
<1> USE DEF Migrated
<1>1. DBInv' /\ Moves({}) /\ NoCopyEnds  BY Stutters, Parts
<1>2. FeesTypeOK' /\ FeeInv'
  <2>1. FeesTypeOK'  BY Parts DEF FeesTypeOK, feeVars
  <2>2. FeeInv'  BY <1>1, FeeKeeps, Parts DEF feeVars
  <2>3. QED  BY <2>1, <2>2
<1>3. ProcessType'  BY Parts DEF ProcessType
<1>4. backup = "none"  BY Parts DEF BackupAll, BackupInv
<1>5. BackupAll'  BY <1>1, <1>4, BackupAllKeeps, Parts
<1>6. MigrationInv'
  <2>1. ASSUME NEW v \in 1..Versions  PROVE pc[Schema(v)] \notin Waits
        BY Parts DEF MigrationInv, UpgradeGoesOn, Waits
  <2>2. Applied' = Applied /\ pc' = pc  BY DEF Applied, vars
  <2>3. QED  BY <2>1, <2>2, Parts DEF MigrationInv
<1>7. QED  BY <1>1, <1>2, <1>3, <1>5, <1>6, Parts

\* Work, cancellation, and what the connection does by itself.
LEMMA ConnectionKeeps ==
    ASSUME IInv, NEW coming, DBInv', Moves(coming), NoCopyEnds, file \subseteq file',
           coming \cap (Builds \cup Migrations) = {},
           UNCHANGED <<feeVars, phase, migrating, backupVars, starts>>
    PROVE  IInv'
<1>1. FeesTypeOK' /\ ProcessType'
  <2>1. FeesTypeOK'  BY Parts DEF FeesTypeOK, feeVars
  <2>2. ProcessType'  BY Parts DEF ProcessType
  <2>3. QED  BY <2>1, <2>2
<1>2. FeeInv'
  <2>1. \A b \in Builds : b \in coming => Started(b)  OBVIOUS
  <2>2. FeeInv /\ UNCHANGED <<owner, answer, inFlight>>  BY Parts DEF feeVars
  <2>3. QED  BY <2>1, <2>2, FeeKeeps
<1>3. MigrationInv'
  <2>1. coming \cap Migrations = {} /\ DBInv /\ MigrationInv  BY Parts
  <2>2. QED  BY <2>1, MigrationKeeps
<1>4. BackupAll'  BY BackupAllKeeps, Parts
<1>5. QED  BY <1>1, <1>2, <1>3, <1>4, Parts

LEMMA WorkKeeps ==
    ASSUME IInv, Work PROVE IInv'
<1> USE DEF Work
<1>1. PICK j \in load.jobs : Enter(j)  OBVIOUS
<1>2. DBInv /\ load \in Loads  BY Parts, DataNow DEF DataType
<1>3. load.jobs \subseteq Jobs  BY <1>2, StorageAssumption
<1>4. j \in Jobs  BY <1>1, <1>3
<1>5. j \in Writers /\ j \notin Copying /\ {j} \cap (Builds \cup Migrations) = {}
      BY <1>4, Names
<1>6. DBInv' /\ Moves({j}) /\ file \subseteq file' /\ NoCopyEnds
      BY <1>1, <1>2, <1>5, EnterMoves
<1>7. QED  BY <1>5, <1>6, ConnectionKeeps

LEMMA WorkCancelledKeeps ==
    ASSUME IInv, WorkCancelled PROVE IInv'
<1> USE DEF WorkCancelled
<1>1. PICK j \in Jobs : Cancel(j)  OBVIOUS
<1>2. j \in Writers /\ j \notin Copying /\ DBInv  BY Names, Parts
<1>3. /\ DBInv' /\ pc[j] \in Waits /\ pc'[j] \in {"rollback", "cancelled"}
      /\ \A v \in Writers \ {j} : Same(v)
      BY <1>1, <1>2, CancelKeeps
<1>4. \A v \in Writers \ {j} : pc'[v] = pc[v] \/ (pc[v] \in Waits /\ pc'[v] \in Waits)
      BY <1>2, <1>3, SameMoves
<1>5. Moves({}) /\ NoCopyEnds
      BY <1>2, <1>3, <1>4, Constants DEF Moves, NoCopyEnds, Waits
<1>6. file' = file  BY <1>1 DEF Cancel
<1>7. QED  BY <1>3, <1>5, <1>6, ConnectionKeeps

LEMMA ConnectionStepKeeps ==
    ASSUME IInv, Connection PROVE IInv'
<1> USE DEF Connection
<1>1. DBInv' /\ Moves({}) /\ NoCopyEnds /\ file \subseteq file'  BY ThreadKeeps, Parts
<1>2. QED  BY <1>1, ConnectionKeeps

-------------------------------------------------------------------------------
(* Fees.                                                                     *)

\* A caller that has asked for nothing has started no build.
LEMMA OwnersAsked ==
    ASSUME FeeInv, NEW c, answer[c] = NoAnswer, NEW b \in Builds, Started(b)
    PROVE  owner[b] # c
BY DEF FeeInv, NoAnswer

LEMMA AskKeeps ==
    ASSUME DBInv, FeesTypeOK, FeeInv, NEW c \in Callers, Ask(c)
    PROVE  FeesTypeOK' /\ FeeInv'
<1> USE DEF Ask
<1>1. answer[c] = NoAnswer /\ UNCHANGED <<cache, fresh>> /\ pc' = pc  BY DEF vars
<1>2. ASSUME NEW f \in Builds,
             answer' = [answer EXCEPT ![c] = [state |-> "got", from |-> f]] \/
             answer' = [answer EXCEPT ![c] = [state |-> "waits", from |-> f]],
             UNCHANGED <<inFlight, owner>>
      PROVE  FeesTypeOK' /\ FeeInv'
  <2>1. FeesTypeOK'  BY <1>1, <1>2 DEF FeesTypeOK
  <2>2. FeeInv'
    <3> SUFFICES ASSUME NEW b \in Builds
                 PROVE  /\ ~Started(b) => pc[b] = "idle"
                        /\ Started(b) => answer'[owner[b]] = answer[owner[b]]
        BY <1>1, <1>2 DEF FeeInv, Started
    <3>1. Started(b) => owner[b] # c /\ owner[b] \in Callers
          BY <1>1, OwnersAsked DEF FeesTypeOK, Started
    <3>2. QED  BY <1>2, <3>1 DEF FeeInv, FeesTypeOK
  <2>3. QED  BY <2>1, <2>2
<1>3. CASE /\ cache # None /\ fresh
           /\ answer' = [answer EXCEPT ![c] = [state |-> "got", from |-> cache]]
           /\ UNCHANGED <<inFlight, owner>>
      BY <1>2, <1>3 DEF FeesTypeOK
<1>4. CASE /\ inFlight # None
           /\ answer' = [answer EXCEPT ![c] = [state |-> "waits", from |-> inFlight]]
           /\ UNCHANGED <<inFlight, owner>>
      BY <1>2, <1>4 DEF FeesTypeOK
<1>5. ASSUME inFlight = None, NEW n \in 1..MaxBuilds, ~Started(Build(n)),
             inFlight' = Build(n), owner' = [owner EXCEPT ![Build(n)] = c],
             answer' = [answer EXCEPT ![c] = [state |-> "waits", from |-> Build(n)]]
      PROVE  FeesTypeOK' /\ FeeInv'
  <2>1. Build(n) \in Builds /\ None \notin Builds /\ c # None
        BY Names, FeeAssumption DEF Builds
  <2>2. FeesTypeOK'  BY <1>1, <1>5, <2>1 DEF FeesTypeOK
  <2>3. FeeInv'
    <3> SUFFICES ASSUME NEW b \in Builds
                 PROVE  /\ owner'[b] = None => pc[b] = "idle"
                        /\ owner'[b] # None =>
                             /\ answer'[owner'[b]].from = b
                             /\ answer'[owner'[b]].state # "idle"
                             /\ answer'[owner'[b]].state = "waits" => inFlight' = b
                             /\ answer'[owner'[b]].state \in {"got", "failed"} => pc[b] \in Ended
        BY <1>1 DEF FeeInv, Started
    <3>1. CASE b = Build(n)
          BY <1>5, <2>1, <3>1 DEF FeesTypeOK
    <3>2. CASE b # Build(n) /\ owner[b] = None
          BY <1>5, <3>2 DEF FeesTypeOK, FeeInv, Started
    <3>3. CASE b # Build(n) /\ owner[b] # None
      <4>1. owner[b] # c /\ owner[b] \in Callers /\ owner'[b] = owner[b]
            BY <1>1, <1>5, <3>3, OwnersAsked DEF FeesTypeOK, Started
      <4>2. answer'[owner[b]] = answer[owner[b]]  BY <1>5, <4>1 DEF FeesTypeOK
      <4>3. answer[owner[b]].state # "waits"  BY <1>5, <2>1, <3>3 DEF FeeInv, Started
      <4>4. QED  BY <3>3, <4>1, <4>2, <4>3 DEF FeeInv, Started
    <3>4. QED  BY <3>1, <3>2, <3>3
  <2>4. QED  BY <2>2, <2>3
<1>6. QED  BY <1>3, <1>4, <1>5

LEMMA AnsweredKeeps ==
    ASSUME DBInv, FeesTypeOK, FeeInv, NEW c \in Callers, Answered(c) \/ CallerCancelled(c)
    PROVE  FeesTypeOK' /\ FeeInv'
<1> DEFINE f == answer[c].from
<1>1. PICK s \in {"got", "failed", "cancelled"} :
         /\ answer' = [answer EXCEPT ![c].state = s]
         /\ s \in {"got", "failed"} => pc[f] \in Ended
  <2>1. CASE Answered(c)  BY <2>1 DEF Answered
  <2>2. CASE CallerCancelled(c)  BY <2>2 DEF CallerCancelled
  <2>3. QED  BY <2>1, <2>2
<1>2. /\ answer[c].state = "waits" /\ inFlight' = Unregistered(c, f)
      /\ UNCHANGED <<owner, cache, fresh>> /\ pc' = pc
      BY DEF Answered, CallerCancelled, vars
<1>3. answer'[c].state = s /\ answer'[c].from = f /\ f \in Builds \cup {None}
      BY <1>1 DEF FeesTypeOK
<1>4. \A d \in Callers \ {c} : answer'[d] = answer[d]  BY <1>1 DEF FeesTypeOK
<1> HIDE DEF f
<1>5. FeesTypeOK'
  <2>1. answer' \in [Callers -> [state : {"idle", "waits", "got", "failed", "cancelled"},
                                 from : Builds \cup {None}]]
        BY <1>1 DEF FeesTypeOK
  <2>2. inFlight' \in Builds \cup {None}  BY <1>2 DEF FeesTypeOK, Unregistered
  <2>3. QED  BY <1>2, <2>1, <2>2 DEF FeesTypeOK
<1>6. FeeInv'
  <2> SUFFICES ASSUME NEW b \in Builds, Started(b)
               PROVE  /\ answer'[owner[b]].from = b
                      /\ answer'[owner[b]].state # "idle"
                      /\ answer'[owner[b]].state = "waits" => inFlight' = b
                      /\ answer'[owner[b]].state \in {"got", "failed"} => pc[b] \in Ended
      BY <1>2 DEF FeeInv, Started
  <2>1. owner[b] \in Callers  BY DEF FeesTypeOK, Started
  <2>2. CASE owner[b] = c
    <3>1. f = b  BY <2>2 DEF FeeInv, f
    <3>2. QED  BY <1>1, <1>3, <2>2, <3>1
  <2>3. CASE owner[b] # c
    <3>1. answer'[owner[b]] = answer[owner[b]]  BY <1>4, <2>1, <2>3
    <3>2. inFlight = b => inFlight' = b
          BY <1>2, <2>3 DEF Unregistered
    <3>3. QED  BY <3>1, <3>2 DEF FeeInv
  <2>4. QED  BY <2>2, <2>3
<1>7. QED  BY <1>5, <1>6

LEMMA FeeServiceKeeps ==
    ASSUME IInv, FeeService PROVE IInv'
<1> USE DEF FeeService
<1>0. DBInv /\ FeesTypeOK /\ FeeInv /\ MigrationInv /\ BackupAll /\ ProcessType  BY Parts
<1>1. ASSUME NEW coming, DBInv', Moves(coming), NoCopyEnds, file \subseteq file',
             coming \cap Migrations = {}, FeesTypeOK', FeeInv'
      PROVE  IInv'
  <2>1. MigrationInv'  BY <1>0, <1>1, MigrationKeeps
  <2>2. BackupAll'  BY <1>0, <1>1, BackupAllKeeps
  <2>3. ProcessType'  BY <1>0 DEF ProcessType
  <2>4. QED  BY <1>1, <2>1, <2>2, <2>3, Parts
<1>2. CASE UNCHANGED vars /\ FeesTypeOK' /\ FeeInv'
  <2>1. DBInv' /\ Moves({}) /\ NoCopyEnds /\ file \subseteq file'  BY <1>0, <1>2, Stutters
  <2>2. {} \cap Migrations = {}  OBVIOUS
  <2>3. QED  BY <1>1, <1>2, <2>1, <2>2
<1>3. ASSUME NEW c \in load.callers, Ask(c)  PROVE IInv'
  <2>1. c \in Callers  BY <1>0, FeeAssumption, DataNow DEF DataType
  <2>2. UNCHANGED vars  BY <1>3 DEF Ask, vars, connection
  <2>3. QED  BY <1>0, <1>2, <1>3, <2>1, <2>2, AskKeeps
<1>4. ASSUME NEW c \in Callers, Answered(c) \/ CallerCancelled(c)  PROVE IInv'
  <2>1. UNCHANGED vars  BY <1>4 DEF Answered, CallerCancelled, vars, connection
  <2>2. QED  BY <1>0, <1>2, <1>4, <2>1, AnsweredKeeps
<1>5. ASSUME NEW b \in Builds, StartBuild(b)  PROVE IInv'
  <2>1. /\ Started(b) /\ Enter(b) /\ b \in Writers /\ b \notin Copying /\ b \notin Migrations
        /\ cache' = b /\ fresh' = TRUE /\ UNCHANGED <<inFlight, owner, answer>>
        BY <1>5, Names DEF StartBuild
  <2>2. DBInv' /\ Moves({b}) /\ NoCopyEnds /\ file \subseteq file'  BY <1>0, <2>1, EnterMoves
  <2>3. FeesTypeOK'  BY <1>0, <2>1 DEF FeesTypeOK
  <2>4. FeeInv'  BY <1>0, <2>1, <2>2, FeeKeeps
  <2>5. {b} \cap Migrations = {}  BY <2>1
  <2>6. QED  BY <1>1, <2>2, <2>3, <2>4, <2>5
<1>6. CASE SnapshotAges
  <2>1. UNCHANGED vars /\ UNCHANGED <<inFlight, owner, cache, answer>> /\ fresh' = FALSE
        BY <1>6 DEF SnapshotAges, vars, connection
  <2>2. FeesTypeOK'  BY <1>0, <2>1 DEF FeesTypeOK
  <2>3. FeeInv'  BY <1>0, <2>1, Stutters, FeeKeeps
  <2>4. QED  BY <1>2, <2>1, <2>2, <2>3
<1>7. QED  BY <1>3, <1>4, <1>5, <1>6 DEF Fees

-------------------------------------------------------------------------------
(* Backups.                                                                  *)

LEMMA LeastNatural ==
    ASSUME NEW T, T \subseteq Nat, T # {}
    PROVE  \E x \in T : \A y \in T : x <= y
<1> DEFINE R == {ss \in Nat \X Nat : ss[1] < ss[2]}
<1>1. IsWellFoundedOn(R, Nat)  BY NatLessThanWellFounded DEF OpToRel
<1>2. \A x, y \in T : y < x => <<y, x>> \in R
  <2>1. SUFFICES ASSUME NEW x \in T, NEW y \in T, y < x PROVE <<y, x>> \in R  OBVIOUS
  <2>2. <<y, x>> \in Nat \X Nat  OBVIOUS
  <2>3. <<y, x>>[1] = y /\ <<y, x>>[2] = x  OBVIOUS
  <2>4. QED  BY <2>1, <2>2, <2>3, Zenon
<1> HIDE DEF R
<1>3. \E x \in T : \A y \in T : ~(<<y, x>> \in R)  BY <1>1, WFMin
<1>4. \E x \in T : \A y \in T : ~(y < x)  BY <1>2, <1>3, Zenon
<1>5. QED  BY <1>4

\* _rotate() leaves as many files as are to be kept, or all there are: above the
\* newest of those it removes there are `keep` that it does not.
LEMMA Rotation ==
    ASSUME NEW files, IsFiniteSet(files), \A c \in files : c.at \in Nat
    PROVE  Cardinality(files \ Stale(files)) >= Fewer(Keep, Cardinality(files))
<1> DEFINE Newer(c) == {d \in files : d.at > c.at}
           Counts == {k \in Nat : \E c \in Stale(files) : k = Cardinality(Newer(c))}
<1>1. \A c \in files : IsFiniteSet(Newer(c)) /\ Cardinality(Newer(c)) \in Nat
  <2>1. \A c : Newer(c) \in SUBSET files  OBVIOUS
  <2> HIDE DEF Newer
  <2>2. QED  BY <2>1, FS_Subset, FS_CardinalityType
<1>2. \A c \in Stale(files) : c \in files /\ Cardinality(Newer(c)) >= Keep
      BY DEF Stale
<1>3. /\ IsFiniteSet(files \ Stale(files)) /\ Cardinality(files \ Stale(files)) \in Nat
      /\ Cardinality(files) \in Nat
  <2>1. (files \ Stale(files)) \in SUBSET files  OBVIOUS
  <2>2. QED  BY <2>1, FS_Subset, FS_CardinalityType
<1>4. CASE Stale(files) = {}
  <2>1. files \ Stale(files) = files  BY <1>4
  <2> HIDE DEF Newer, Counts
  <2>2. Cardinality(files) >= Fewer(Keep, Cardinality(files))
        BY <1>3, BackupNames DEF Fewer
  <2>3. QED  BY <2>1, <2>2
<1>5. CASE Stale(files) # {}
  <2>1. PICK c0 \in Stale(files) : TRUE  BY <1>5
  <2>2. Counts \subseteq Nat /\ Cardinality(Newer(c0)) \in Counts  BY <1>1, <1>2, <2>1
  <2>3. PICK k \in Counts : \A l \in Counts : k <= l
    <3> HIDE DEF Counts
    <3>1. QED  BY <2>2, LeastNatural
  <2>4. PICK c \in Stale(files) : k = Cardinality(Newer(c))  OBVIOUS
  <2>5. Newer(c) \subseteq files \ Stale(files)
    <3>1. SUFFICES ASSUME NEW d \in Newer(c), d \in Stale(files) PROVE FALSE
          OBVIOUS
    <3>2. d \in files /\ c \in files /\ d.at > c.at /\ c.at \in Nat /\ d.at \in Nat  BY <1>2
    <3>3. Newer(d) \subseteq Newer(c) /\ d \notin Newer(d)
      <4>1. d \notin Newer(d)  BY <3>2
      <4>2. \A e \in Newer(d) : e \in files /\ e.at > d.at /\ e.at \in Nat  OBVIOUS
      <4>3. \A e \in Newer(d) : e.at > c.at  BY <3>2, <4>2
      <4>4. QED  BY <4>1, <4>2, <4>3
    <3>4. IsFiniteSet(Newer(c)) /\ Cardinality(Newer(d)) \in Nat /\ Cardinality(Newer(c)) \in Nat
          BY <1>1, <3>2
    <3>5. Cardinality(Newer(d)) < Cardinality(Newer(c))
      <4>1. Newer(d) # Newer(c)  BY <3>1, <3>3
      <4> HIDE DEF Newer
      <4>2. Newer(d) \in SUBSET Newer(c)  BY <3>3
      <4>3. Cardinality(Newer(d)) <= Cardinality(Newer(c)) /\ Cardinality(Newer(c)) # Cardinality(Newer(d))
            BY <3>4, <4>1, <4>2, FS_Subset
      <4>4. QED  BY <3>4, <4>3
    <3>6. Cardinality(Newer(d)) \in Counts  BY <3>1, <3>4
    <3>7. QED
      <4> HIDE DEF Newer, Counts
      <4>1. QED  BY <2>3, <2>4, <3>4, <3>5, <3>6
  <2>6. Cardinality(Newer(c)) <= Cardinality(files \ Stale(files))
    <3> HIDE DEF Newer, Counts
    <3>1. Newer(c) \in SUBSET (files \ Stale(files))  BY <2>5
    <3>2. QED  BY <1>3, <3>1, FS_Subset
  <2>7. Cardinality(Newer(c)) >= Keep /\ Cardinality(Newer(c)) \in Nat  BY <1>1, <1>2
  <2> HIDE DEF Newer, Counts
  <2>8. QED  BY <1>3, <2>6, <2>7, BackupNames DEF Fewer
<1>6. QED  BY <1>4, <1>5

\* Steps of a backup leave the rest as it is.
LEMMA AroundBackup ==
    ASSUME IInv, NEW coming, DBInv', Moves(coming), file \subseteq file',
           coming \cap (Builds \cup Migrations) = {},
           UNCHANGED <<feeVars, phase, migrating, starts>>, BackupAll'
    PROVE  IInv'
<1>1. FeesTypeOK' /\ ProcessType'
  <2>1. FeesTypeOK'  BY Parts DEF FeesTypeOK, feeVars
  <2>2. ProcessType'  BY Parts DEF ProcessType
  <2>3. QED  BY <2>1, <2>2
<1>2. FeeInv'
  <2>1. \A b \in Builds : b \in coming => Started(b)  OBVIOUS
  <2>2. FeeInv /\ UNCHANGED <<owner, answer, inFlight>>  BY Parts DEF feeVars
  <2>3. QED  BY <2>1, <2>2, FeeKeeps
<1>3. MigrationInv'
  <2>1. coming \cap Migrations = {} /\ DBInv /\ MigrationInv  BY Parts
  <2>2. QED  BY <2>1, MigrationKeeps
<1>4. QED  BY <1>1, <1>2, <1>3, Parts

LEMMA CopiesTyped ==
    ASSUME BackupAll
    PROVE  /\ round \in Nat /\ IsFiniteSet(copies) /\ Cardinality(copies) \in Nat
           /\ \A c \in copies : c.at \in Nat /\ c.at \in 1..round
           /\ IsFiniteSet(Older) /\ Cardinality(Older) \in Nat /\ Settled \in Int
           /\ IsFiniteSet(succeeded) /\ Cardinality(succeeded) \in Nat
<1>1. round \in Nat /\ succeeded \subseteq 1..MaxBackups /\ IsFiniteSet(copies)
      BY BackupNames DEF BackupAll, BackupType, CopyInv
<1>2. \A c \in copies : c.at \in Nat /\ c.at \in 1..round  BY <1>1 DEF BackupAll, CopyInv
<1>3. Older \in SUBSET copies  BY DEF Older
<1>4. IsFiniteSet(1..MaxBackups)  BY BackupNames, FS_Interval
<1>5. succeeded \in SUBSET (1..MaxBackups)  BY <1>1
<1>6. IsFiniteSet(Older) /\ IsFiniteSet(succeeded)  BY <1>1, <1>3, <1>4, <1>5, FS_Subset
<1>7. QED  BY <1>1, <1>2, <1>6, FS_CardinalityType DEF Settled

LEMMA BeginBackupKeeps ==
    ASSUME IInv, BeginBackup PROVE IInv'
<1> USE DEF BeginBackup
<1>0. DBInv /\ BackupAll  BY Parts
<1>1. round + 1 \in 1..MaxBackups /\ round \in Nat
  <2>1. load.backups \in 0..MaxBackups  BY <1>0, DataNow, StorageAssumption DEF DataType
  <2>2. QED  BY <1>0, <2>1, CopiesTyped, BackupNames
<1> DEFINE w == Copy(round + 1)
<1>2. w \in Writers /\ w \in Copying  BY <1>1, BackupNames
<1>3. /\ DBInv' /\ Moves({w}) /\ file \subseteq file' /\ file' = file /\ pc'[w] \in Waits
      /\ \A v \in Writers \ {w} : pc'[v] = pc[v]
      BY <1>0, <1>2, EnterMoves
<1>4. CopyInv'
  <2>1. \A c \in copies : c.at \in 1..(round + 1)  BY <1>0, CopiesTyped
  <2>2. QED  BY <1>0, <2>1 DEF BackupAll, CopyInv, Whole, RowsOf
<1>5. ASSUME NEW n \in 1..MaxBackups, n # round + 1
      PROVE  pc'[Copy(n)] = pc[Copy(n)] /\ pc[Copy(n)] \notin Waits
  <2>1. Copy(n) # w  BY <1>5 DEF Copy
  <2>2. Copy(n) \in Writers  BY BackupNames
  <2>3. pc[Copy(n)] \notin Waits  BY <1>0 DEF BackupAll, BackupInv
  <2>4. QED  BY <1>3, <2>1, <2>2, <2>3
<1>6. BackupInv'
  <2>1. Present(round + 1) = {}  BY <1>0, <1>1, CopiesTyped DEF Present
  <2>2. \A n : Present(n)' = Present(n)  BY DEF Present
  <2>3. pc'[Copy(round + 1)] # "ok"  BY <1>3 DEF Waits
  <2>4. \A n \in 1..MaxBackups : n > round + 1 => n > round  BY <1>1
  <2>5. \A n \in 1..MaxBackups : n > round + 1 => pc'[Copy(n)] = "idle"
        BY <1>0, <1>1, <1>5, <2>4 DEF BackupAll, BackupInv
  <2>6. \A n \in 1..MaxBackups : pc'[Copy(n)] \in Waits => n = round + 1
        BY <1>5
  <2>7. QED  BY <1>1, <2>1, <2>2, <2>3, <2>5, <2>6 DEF BackupInv
<1>7. KeptInv'
  <2>1. Settled' = Settled  BY <1>1 DEF Settled
  <2>2. QED  BY <1>0, <2>1 DEF BackupAll, KeptInv, Older
<1>8. BackupType'  BY <1>0, <1>1 DEF BackupAll, BackupType
<1>9. {w} \cap (Builds \cup Migrations) = {}  BY <1>2, Names
<1> HIDE DEF w
<1>10. BackupAll'  BY <1>4, <1>6, <1>7, <1>8 DEF BackupAll
<1>11. QED  BY <1>3, <1>9, <1>10, AroundBackup

\* The copies of the backups decided before are as they were, or more.
LEMMA StillKept ==
    ASSUME BackupAll, BackupType', Older \subseteq Older', IsFiniteSet(copies'),
           succeeded \subseteq 1..Settled', succeeded' = succeeded
    PROVE  KeptInv'
<1>1. Older' \in SUBSET copies'  BY DEF Older
<1>2. IsFiniteSet(Older') /\ Cardinality(Older') \in Nat  BY <1>1, FS_Subset, FS_CardinalityType
<1>3. Cardinality(Older) <= Cardinality(Older')
  <2>1. Older \in SUBSET Older'  OBVIOUS
  <2>2. QED  BY <1>2, <2>1, FS_Subset
<1>4. Cardinality(Older') >= Fewer(Keep, Cardinality(succeeded'))
      BY <1>2, <1>3, CopiesTyped, BackupNames DEF BackupAll, KeptInv, Fewer
<1>5. succeeded # {} => \E c \in Older' : c.sound  BY DEF BackupAll, KeptInv
<1>6. QED  BY <1>4, <1>5 DEF KeptInv

LEMMA CopyRunsKeeps ==
    ASSUME IInv, CopyRuns PROVE IInv'
<1>0. DBInv /\ BackupAll  BY Parts
<1>1. thread # <<>> /\ Author \in Copying /\ Author \in Writers
      BY <1>0, Constants DEF CopyRuns, Running
<1>2. Awaited
  <2>1. SUFFICES ASSUME ~Awaited PROVE FALSE  OBVIOUS
  <2>2. Head(thread) = thread[1] /\ Abandoned(1)
        BY <1>0, <1>1, <2>1, Connected, HeadOfThread
  <2>3. Author \in cancelled  BY <2>2 DEF Abandoned, Author
  <2>4. Author \in Jobs  BY <1>0, <2>3, DataNow, Names DEF DataType
  <2>5. QED  BY <1>1, <2>4, Names
<1>3. PICK o \in {"ok", "error"} :
         /\ Leave(Author, o, Rest)
         /\ Fault \/ NoFault
         /\ \/ \E sound \in BOOLEAN :
                  copies' = copies \cup {[at |-> round, sound |-> sound, rows |-> file]}
            \/ o = "error" /\ copies' = copies
      BY DEF CopyRuns
<1>4. /\ Running("statement")
      /\ UNCHANGED <<inTransaction, pending, file, written, tries, orphans, cancelled, load>>
      /\ UNCHANGED <<feeVars, phase, migrating, backup, round, succeeded, starts>>
      BY DEF CopyRuns
<1>5. /\ DBInv' /\ pc[Author] = "statement" /\ pc'[Author] = o
      /\ \A v \in Writers \ {Author} : Same(v)
      BY <1>0, <1>1, <1>2, <1>3, <1>4, CopyLeaves
<1>6. \A v \in Writers \ {Author} : pc'[v] = pc[v] \/ (pc[v] \in Waits /\ pc'[v] \in Waits)
      BY <1>0, <1>1, <1>5, SameMoves
<1>7. Moves({})  BY <1>5, <1>6 DEF Moves, Waits
<1>8. PICK n \in 1..MaxBackups : Author = Copy(n)  BY <1>1, BackupNames
<1>9. /\ backup = "copying" /\ n = round /\ Present(round) = {}
      /\ round \in 1..MaxBackups
      BY <1>0, <1>5, <1>8 DEF BackupAll, BackupInv, Waits
<1>10. /\ copies \subseteq copies' /\ IsFiniteSet(copies')
       /\ copies' \subseteq CopyFile
       /\ \A c \in copies' : \/ c \in copies
                             \/ c.at = round /\ c.rows = file
       /\ \A c, d \in copies' : c \notin copies /\ d \notin copies => c = d
       /\ o = "ok" => \E c \in copies' : c.at = round
  <2>1. CASE copies' = copies /\ o = "error"
        BY <1>0, <2>1, CopiesTyped DEF BackupAll, BackupType
  <2>2. ASSUME NEW sound \in BOOLEAN,
               copies' = copies \cup {[at |-> round, sound |-> sound, rows |-> file]}
        PROVE  /\ copies \subseteq copies' /\ IsFiniteSet(copies')
               /\ copies' \subseteq CopyFile
               /\ \A c \in copies' : \/ c \in copies
                                     \/ c.at = round /\ c.rows = file
               /\ \A c, d \in copies' : c \notin copies /\ d \notin copies => c = d
               /\ o = "ok" => \E c \in copies' : c.at = round
    <3> DEFINE new == [at |-> round, sound |-> sound, rows |-> file]
    <3>1. new \in CopyFile /\ new.at = round /\ new.rows = file
          BY <1>0, DataNow, CopiesTyped DEF CopyFile, DataType
    <3>2. IsFiniteSet(copies')  BY <1>0, <2>2, CopiesTyped, FS_AddElement
    <3>3. copies \subseteq CopyFile  BY <1>0 DEF BackupAll, BackupType
    <3> HIDE DEF new
    <3>4. copies' = copies \cup {new}  BY <2>2 DEF new
    <3>5. QED  BY <3>1, <3>2, <3>3, <3>4
  <2>3. QED  BY <1>3, <2>1, <2>2
<1>11. Whole(file)
  <2>1. ASSUME NEW t \in Transactions
        PROVE  RowsOf(t) \subseteq file \/ RowsOf(t) \cap file = {}
        BY <1>0, Constants DEF DBInv, FileInv
  <2>2. QED  BY <2>1 DEF Whole
<1>12. CopyInv'
  <2>1. \A c \in copies' : c.at \in 1..round
        BY <1>0, <1>9, <1>10, CopiesTyped
  <2>2. ASSUME NEW c \in copies', NEW d \in copies', c.at = d.at  PROVE c = d
    <3>1. CASE c \in copies /\ d \in copies
          BY <1>0, <2>2, <3>1 DEF BackupAll, CopyInv
    <3>2. CASE c \notin copies /\ d \notin copies  BY <1>10, <3>2
    <3>3. \A e \in copies : e.at # round  BY <1>9 DEF Present
    <3>4. QED  BY <1>10, <2>2, <3>1, <3>2, <3>3
  <2>3. ASSUME NEW c \in copies', c.sound  PROVE Whole(c.rows)
    <3>1. CASE c \in copies  BY <1>0, <2>3, <3>1 DEF BackupAll, CopyInv
    <3>2. CASE c.rows = file  BY <1>11, <3>2 DEF Whole
    <3>3. QED  BY <1>10, <3>1, <3>2
  <2>4. QED  BY <1>4, <1>10, <2>1, <2>2, <2>3 DEF CopyInv, Whole, RowsOf
<1>13. BackupInv'
  <2>1. ASSUME NEW k \in 1..MaxBackups, k # round
        PROVE  pc'[Copy(k)] = pc[Copy(k)] /\ pc[Copy(k)] \notin Waits
    <3>1. Copy(k) # Author /\ Copy(k) \in Writers  BY <1>8, <1>9, <2>1, BackupNames DEF Copy
    <3>2. pc[Copy(k)] \notin Waits  BY <1>0, <2>1 DEF BackupAll, BackupInv
    <3>3. QED  BY <1>6, <3>1, <3>2
  <2>2. pc'[Copy(round)] = o /\ o \notin Waits  BY <1>5, <1>8, <1>9 DEF Waits
  <2>3. \A k \in 1..MaxBackups : pc'[Copy(k)] \notin Waits  BY <2>1, <2>2
  <2>4. \A k \in 1..MaxBackups : k > round => k # round  BY <1>9
  <2>5. \A k \in 1..MaxBackups : k > round => pc'[Copy(k)] = "idle"
        BY <1>0, <2>1, <2>4 DEF BackupAll, BackupInv
  <2>6. o = "ok" => Present(round)' # {}  BY <1>4, <1>10 DEF Present
  <2>7. phase' = "running"  BY <1>0, <1>4, <1>9 DEF BackupAll, BackupInv
  <2>8. QED  BY <1>4, <1>9, <2>2, <2>3, <2>5, <2>6, <2>7 DEF BackupInv
<1>14. BackupType'  BY <1>0, <1>4, <1>10 DEF BackupAll, BackupType
<1>15. KeptInv'
  <2>1. Settled' = Settled  BY <1>4 DEF Settled
  <2>2. Older \subseteq Older'  BY <1>10, <2>1 DEF Older
  <2>3. succeeded \subseteq 1..Settled' /\ succeeded' = succeeded
        BY <1>0, <1>4, <2>1 DEF BackupAll, KeptInv
  <2>4. QED  BY <1>0, <1>10, <1>14, <2>2, <2>3, StillKept
<1>16. BackupAll'  BY <1>12, <1>13, <1>14, <1>15 DEF BackupAll
<1>17. {} \cap (Builds \cup Migrations) = {} /\ file \subseteq file'  BY <1>4
<1>18. QED  BY <1>4, <1>5, <1>7, <1>16, <1>17, AroundBackup

\* A subset of the copies is as well formed as all of them.
LEMMA FewerCopies ==
    ASSUME BackupAll, copies' \subseteq copies, round' = round
    PROVE  CopyInv' /\ copies' \subseteq CopyFile /\ IsFiniteSet(copies')
<1>1. IsFiniteSet(copies')
  <2>1. copies' \in SUBSET copies  OBVIOUS
  <2>2. QED  BY <2>1, CopiesTyped, FS_Subset
<1>2. CopyInv'  BY <1>1 DEF BackupAll, CopyInv, Whole, RowsOf
<1>3. QED  BY <1>1, <1>2 DEF BackupAll, BackupType

\* A writer of the backup itself comes, and no copy is under way.
LEMMA Remembering ==
    ASSUME BackupAll, NEW w \in Writers, w \notin Copying,
           \A v \in Writers \ {w} : pc'[v] = pc[v],
           \A n \in 1..MaxBackups : pc[Copy(n)] \notin Waits,
           round' = round, backup' \in {"marking", "telling"}, phase' = phase,
           round \in 1..MaxBackups, phase = "running"
    PROVE  BackupInv'
<1>1. \A n \in 1..MaxBackups : pc'[Copy(n)] = pc[Copy(n)]  BY BackupNames
<1>2. \A n \in 1..MaxBackups : n > round => pc'[Copy(n)] = "idle"
      BY <1>1 DEF BackupAll, BackupInv
<1>3. QED  BY <1>1, <1>2 DEF BackupInv

LEMMA DiscardKeeps ==
    ASSUME IInv, backup \in {"copying", "verifying"},
           backup = "copying" => pc[Copy(round)] = "error",
           copies' \in {copies \ Present(round), copies}, Remember,
           UNCHANGED <<feeVars, phase, migrating, round, succeeded, starts>>
    PROVE  IInv'
<1> USE DEF Remember
<1>0. DBInv /\ BackupAll /\ round \in 1..MaxBackups /\ phase = "running" /\ round \in Nat
      BY Parts, CopiesTyped DEF BackupAll, BackupInv
<1>1. /\ Ran(round) \in Writers /\ Ran(round) \notin Copying
      /\ {Ran(round)} \cap (Builds \cup Migrations) = {}
      BY <1>0, BackupNames
<1>2. /\ DBInv' /\ Moves({Ran(round)}) /\ file \subseteq file'
      /\ \A v \in Writers \ {Ran(round)} : pc'[v] = pc[v]
      BY <1>0, <1>1, EnterMoves
<1>3. CopyInv' /\ copies' \subseteq CopyFile /\ IsFiniteSet(copies')
  <2>1. copies' \subseteq copies  OBVIOUS
  <2>2. QED  BY <1>0, <2>1, FewerCopies
<1>4. \A n \in 1..MaxBackups : pc[Copy(n)] \notin Waits
      BY <1>0 DEF BackupAll, BackupInv, Waits
<1>5. BackupInv'  BY <1>0, <1>1, <1>2, <1>4, Remembering
<1>6. BackupType'  BY <1>0, <1>3 DEF BackupAll, BackupType
<1>7. KeptInv'
  <2>1. Settled = round - 1 /\ Settled' = round  BY DEF Settled
  <2>2. Older \subseteq Older'
    <3>1. SUFFICES ASSUME NEW c \in Older PROVE c \in copies' /\ c.at <= round
          BY <2>1 DEF Older
    <3>2. c \in copies /\ c.at <= round - 1 /\ c.at \in Nat
          BY <1>0, <2>1, CopiesTyped DEF Older
    <3>3. c.at # round /\ c.at <= round  BY <1>0, <3>2
    <3>4. QED  BY <3>2, <3>3 DEF Present
  <2>3. succeeded \subseteq 1..Settled'
    <3>1. succeeded \subseteq 1..(round - 1)  BY <1>0, <2>1 DEF BackupAll, KeptInv
    <3>2. QED  BY <1>0, <2>1, <3>1
  <2>4. QED  BY <1>0, <1>3, <1>6, <2>2, <2>3, StillKept
<1>8. BackupAll'  BY <1>3, <1>5, <1>6, <1>7 DEF BackupAll
<1>9. QED  BY <1>1, <1>2, <1>8, AroundBackup

LEMMA CopiedKeeps ==
    ASSUME IInv, Copied PROVE IInv'
<1> USE DEF Copied
<1>0. DBInv /\ BackupAll /\ round \in 1..MaxBackups /\ phase = "running"
      BY Parts DEF BackupAll, BackupInv
<1>1. DBInv' /\ Moves({}) /\ NoCopyEnds /\ file \subseteq file' /\ pc' = pc
      BY <1>0, Stutters DEF vars
<1>2. CopyInv'  BY <1>0 DEF BackupAll, CopyInv, Whole, RowsOf
<1>3. BackupInv'
  <2>1. Present(round) # {}  BY <1>0 DEF BackupAll, BackupInv
  <2>2. \A n \in 1..MaxBackups : pc[Copy(n)] \notin Waits
        BY <1>0 DEF BackupAll, BackupInv, Waits
  <2>3. Present(round)' = Present(round)  BY DEF Present
  <2>4. QED  BY <1>0, <1>1, <2>1, <2>2, <2>3 DEF BackupAll, BackupInv
<1>4. KeptInv'
  <2>1. Settled' = Settled  BY DEF Settled
  <2>2. QED  BY <1>0, <2>1 DEF BackupAll, KeptInv, Older
<1>5. BackupType'  BY <1>0 DEF BackupAll, BackupType
<1>6. BackupAll'  BY <1>2, <1>3, <1>4, <1>5 DEF BackupAll
<1>7. QED  BY <1>1, <1>6, AroundBackup

LEMMA VerifiedKeeps ==
    ASSUME IInv, Verified PROVE IInv'
<1> USE DEF Verified, Remember
<1>0. /\ DBInv /\ BackupAll /\ round \in 1..MaxBackups /\ phase = "running" /\ round \in Nat
      /\ Present(round) # {}
      BY Parts, CopiesTyped DEF BackupAll, BackupInv
<1>1. /\ Ran(round) \in Writers /\ Ran(round) \notin Copying
      /\ {Ran(round)} \cap (Builds \cup Migrations) = {}
      BY <1>0, BackupNames
<1>2. /\ DBInv' /\ Moves({Ran(round)}) /\ file \subseteq file'
      /\ \A v \in Writers \ {Ran(round)} : pc'[v] = pc[v]
      BY <1>0, <1>1, EnterMoves
<1>3. CopyInv' /\ copies' \subseteq CopyFile /\ IsFiniteSet(copies')
  <2>1. copies' \subseteq copies  OBVIOUS
  <2>2. QED  BY <1>0, <2>1, FewerCopies
<1>4. \A n \in 1..MaxBackups : pc[Copy(n)] \notin Waits
      BY <1>0 DEF BackupAll, BackupInv
<1>5. BackupInv'  BY <1>0, <1>1, <1>2, <1>4, Remembering
<1>6. BackupType'  BY <1>0, <1>3 DEF BackupAll, BackupType
<1>7. PICK c0 \in copies : c0.at = round /\ c0.sound  BY <1>0 DEF Present
<1>8. Settled = round - 1 /\ Settled' = round  BY DEF Settled
<1>9. \A c \in copies : c.at \in Nat /\ c.at <= round  BY <1>0, CopiesTyped
<1>10. c0 \in copies'
  <2>1. {d \in copies : d.at > c0.at} = {}  BY <1>0, <1>7, <1>9
  <2>2. Cardinality({d \in copies : d.at > c0.at}) = 0  BY <2>1, FS_EmptySet
  <2>3. c0 \notin Stale(copies)  BY <2>2, BackupNames DEF Stale
  <2>4. QED  BY <1>7, <2>3
<1>11. Older' = copies'
  <2>1. \A c \in copies' : c.at <= round  BY <1>9
  <2>2. QED  BY <1>8, <2>1 DEF Older
<1>12. succeeded' \subseteq 1..Settled'
  <2>1. succeeded \subseteq 1..(round - 1)  BY <1>0, <1>8 DEF BackupAll, KeptInv
  <2>2. QED  BY <1>0, <1>8, <2>1
<1>13. Cardinality(copies') >= Fewer(Keep, Cardinality(succeeded'))
  <2>1. Cardinality(copies') >= Fewer(Keep, Cardinality(copies))
        BY <1>0, <1>9, CopiesTyped, Rotation
  <2>2. Cardinality(copies) >= Cardinality(Older) + 1
    <3>1. c0 \notin Older  BY <1>0, <1>7, <1>8 DEF Older
    <3>2. (Older \cup {c0}) \in SUBSET copies  BY <1>7 DEF Older
    <3>3. Cardinality(Older \cup {c0}) = Cardinality(Older) + 1
          BY <1>0, <3>1, CopiesTyped, FS_AddElement
    <3>4. Cardinality(Older \cup {c0}) <= Cardinality(copies)
          BY <1>0, <3>2, CopiesTyped, FS_Subset
    <3>5. QED  BY <3>3, <3>4
  <2>3. Cardinality(succeeded') <= Cardinality(succeeded) + 1 /\ Cardinality(succeeded') \in Nat
    <3>1. /\ IsFiniteSet(succeeded \cup {round})
          /\ Cardinality(succeeded \cup {round}) =
                IF round \in succeeded THEN Cardinality(succeeded) ELSE Cardinality(succeeded) + 1
          BY <1>0, CopiesTyped, FS_AddElement
    <3>2. succeeded' = succeeded \cup {round}  OBVIOUS
    <3>3. QED  BY <1>0, <3>1, <3>2, CopiesTyped
  <2>4. Cardinality(Older) >= Fewer(Keep, Cardinality(succeeded))
        BY <1>0 DEF BackupAll, KeptInv
  <2>5. Cardinality(copies') \in Nat  BY <1>3, FS_CardinalityType
  <2>6. /\ Cardinality(Older) \in Nat /\ Cardinality(copies) \in Nat
        /\ Cardinality(succeeded) \in Nat /\ Keep \in Nat
        BY <1>0, CopiesTyped, BackupNames
  <2>7. ASSUME NEW kept \in Nat, NEW all \in Nat, NEW old \in Nat, NEW won \in Nat, NEW before \in Nat,
               kept >= Fewer(Keep, all), all >= old + 1, won <= before + 1,
               old >= Fewer(Keep, before)
        PROVE  kept >= Fewer(Keep, won)
        BY <2>6, <2>7 DEF Fewer
  <2>8. QED  BY <2>1, <2>2, <2>3, <2>4, <2>5, <2>6, <2>7
<1>14. KeptInv'  BY <1>7, <1>10, <1>11, <1>12, <1>13 DEF KeptInv
<1>15. BackupAll'  BY <1>3, <1>5, <1>6, <1>14 DEF BackupAll
<1>16. QED  BY <1>1, <1>2, <1>15, AroundBackup

LEMMA MarkedKeeps ==
    ASSUME IInv, Marked PROVE IInv'
<1> USE DEF Marked
<1>0. /\ DBInv /\ BackupAll /\ round \in 1..MaxBackups /\ phase = "running"
      /\ \A n \in 1..MaxBackups : pc[Copy(n)] \notin Waits
      BY Parts DEF BackupAll, BackupInv
<1>1. CopyInv' /\ copies' \subseteq CopyFile
  <2>1. copies' \subseteq copies /\ round' = round  OBVIOUS
  <2>2. QED  BY <1>0, <2>1, FewerCopies
<1>2. backup' \in {"telling", "none"}  OBVIOUS
<1>3. KeptInv' /\ BackupType'
  <2>1. Settled' = Settled  BY <1>2 DEF Settled
  <2>2. KeptInv'  BY <1>0, <2>1 DEF BackupAll, KeptInv, Older
  <2>3. QED  BY <1>0, <1>1, <1>2, <2>2 DEF BackupAll, BackupType
<1>4. CASE pc[Ran(round)] = "ok"
  <2>1. /\ Said(round) \in Writers /\ Said(round) \notin Copying
        /\ {Said(round)} \cap (Builds \cup Migrations) = {}
        BY <1>0, BackupNames
  <2>2. /\ DBInv' /\ Moves({Said(round)}) /\ file \subseteq file'
        /\ \A v \in Writers \ {Said(round)} : pc'[v] = pc[v]
        BY <1>0, <1>4, <2>1, EnterMoves
  <2>3. BackupInv'  BY <1>0, <1>4, <2>1, <2>2, Remembering
  <2>4. BackupAll'  BY <1>1, <1>3, <2>3 DEF BackupAll
  <2>5. QED  BY <2>1, <2>2, <2>4, AroundBackup
<1>5. CASE pc[Ran(round)] # "ok"
  <2>1. DBInv' /\ Moves({}) /\ NoCopyEnds /\ file \subseteq file' /\ pc' = pc /\ backup' = "none"
        BY <1>0, <1>5, Stutters DEF vars
  <2>2. BackupInv'  BY <1>0, <2>1 DEF BackupAll, BackupInv
  <2>3. BackupAll'  BY <1>1, <1>3, <2>2 DEF BackupAll
  <2>4. {} \cap (Builds \cup Migrations) = {}  OBVIOUS
  <2>5. QED  BY <2>1, <2>3, <2>4, AroundBackup
<1>6. QED  BY <1>4, <1>5

LEMMA BackupEndsKeeps ==
    ASSUME IInv, BackupEnds PROVE IInv'
<1> USE DEF BackupEnds
<1>0. /\ DBInv /\ BackupAll
      /\ \A n \in 1..MaxBackups : pc[Copy(n)] \notin Waits
      BY Parts DEF BackupAll, BackupInv
<1>1. CopyInv' /\ copies' \subseteq CopyFile
  <2>1. copies' \subseteq copies /\ round' = round  OBVIOUS
  <2>2. QED  BY <1>0, <2>1, FewerCopies
<1>2. KeptInv' /\ BackupType'
  <2>1. Settled' = Settled  BY DEF Settled
  <2>2. KeptInv'  BY <1>0, <2>1 DEF BackupAll, KeptInv, Older
  <2>3. QED  BY <1>0, <1>1, <2>2 DEF BackupAll, BackupType
<1>3. DBInv' /\ Moves({}) /\ NoCopyEnds /\ file \subseteq file' /\ pc' = pc
      BY <1>0, Stutters DEF vars
<1>4. BackupInv'  BY <1>0, <1>3 DEF BackupAll, BackupInv
<1>5. BackupAll'  BY <1>1, <1>2, <1>4 DEF BackupAll
<1>6. {} \cap (Builds \cup Migrations) = {}  OBVIOUS
<1>7. QED  BY <1>3, <1>5, <1>6, AroundBackup

-------------------------------------------------------------------------------
(* The end of the process.                                                   *)

LEMMA EndsKeeps ==
    ASSUME IInv, Ends PROVE IInv'
<1> DEFINE again == {m \in Migrations : m \notin {f[1] : f \in file}}
           gone == {b \in Builds : Started(b) /\ pc[b] = "idle"}
<1>0. /\ phase' = "down" /\ backup' = "none" /\ Forget(again, gone) /\ FeesForgotten
      /\ UNCHANGED <<migrating, round, succeeded, starts>> /\ file' = file
      /\ \/ UNCHANGED copies
         \/ /\ Running("statement") /\ Author \in Copying
            /\ copies' = copies \cup {[at |-> round, sound |-> FALSE, rows |-> {}]}
      BY DEF Ends, Forget
<1>1. DBInv /\ FeesTypeOK /\ ProcessType /\ FeeInv /\ MigrationInv /\ BackupAll  BY Parts
<1>2. DBInv'
  <2>1. again \in SUBSET Writers  BY Names
  <2>2. ASSUME NEW w \in again
        PROVE  RowsOf(w) \cap file = {} /\ w \notin Cancellable
    <3>1. w \in Migrations /\ w \in Transactions /\ w \notin Cancellable /\ w \notin {f[1] : f \in file}
          BY Names
    <3>2. RowsOf(w) = {<<w, 1>>, <<w, 2>>}  BY <3>1, OwnRows
    <3>3. \A r \in RowsOf(w) : r[1] = w  BY <3>2
    <3>4. QED  BY <3>1, <3>3
  <2>3. \A w \in Writers : w \in gone => pc[w] = "idle"  OBVIOUS
  <2> HIDE DEF again, gone
  <2>4. QED  BY <1>0, <1>1, <2>1, <2>2, <2>3, ForgetKeeps
<1>3. ASSUME NEW w \in Writers
      PROVE  pc'[w] = IF w \in again THEN "idle"
                      ELSE IF pc[w] \in Waits \/ w \in gone THEN "lost" ELSE pc[w]
  <2> HIDE DEF again, gone
  <2>1. QED  BY <1>0 DEF Forget
<1>4. \A w \in Writers : pc'[w] \notin Waits
  <2> HIDE DEF again, gone
  <2>1. QED  BY <1>3 DEF Waits
<1>5. FeesTypeOK'
  <2>1. answer' \in [Callers -> [state : {"idle", "waits", "got", "failed", "cancelled"},
                                 from : Builds \cup {None}]]
        BY <1>0, <1>1 DEF FeesForgotten, FeesTypeOK
  <2>2. QED  BY <1>0, <1>1, <2>1 DEF FeesForgotten, FeesTypeOK
<1>6. FeeInv'
  <2> SUFFICES ASSUME NEW b \in Builds
               PROVE  /\ ~Started(b) => pc'[b] = "idle"
                      /\ Started(b) =>
                            /\ answer'[owner[b]].from = b
                            /\ answer'[owner[b]].state # "idle"
                            /\ answer'[owner[b]].state # "waits"
                            /\ answer'[owner[b]].state \in {"got", "failed"} => pc'[b] \in Ended
      BY <1>0 DEF FeesForgotten, FeeInv, Started
  <2>1. b \in Writers /\ b \notin again /\ (b \in gone => Started(b))  BY Names
  <2> HIDE DEF again, gone
  <2>2. ASSUME ~Started(b)  PROVE pc'[b] = "idle"
    <3>1. pc[b] = "idle"  BY <1>1, <2>2 DEF FeeInv
    <3>2. QED  BY <1>3, <2>1, <2>2, <3>1 DEF Waits
  <2>3. ASSUME Started(b)
        PROVE  /\ answer'[owner[b]].from = b
               /\ answer'[owner[b]].state # "idle"
               /\ answer'[owner[b]].state # "waits"
               /\ answer'[owner[b]].state \in {"got", "failed"} => pc'[b] \in Ended
    <3> DEFINE c == owner[b]
    <3>1. c \in Callers  BY <1>1, <2>3 DEF FeesTypeOK, Started
    <3>2. /\ answer[c].from = b /\ answer[c].state # "idle"
          /\ answer[c].state \in {"got", "failed"} => pc[b] \in Ended
          BY <1>1, <2>3 DEF FeeInv
    <3>3. answer[c] \in [state : {"idle", "waits", "got", "failed", "cancelled"},
                         from : Builds \cup {None}]
          BY <1>1, <3>1 DEF FeesTypeOK
    <3> HIDE DEF c
    <3>4. /\ answer'[c].from = answer[c].from
          /\ answer'[c].state = IF answer[c].state = "waits" THEN "cancelled" ELSE answer[c].state
          BY <1>0, <3>1, <3>3 DEF FeesForgotten
    <3>5. pc[b] \in Ended => pc'[b] \in Ended  BY <1>3, <2>1 DEF Ended
    <3>6. /\ answer'[c].from = b /\ answer'[c].state \notin {"idle", "waits"}
          /\ answer'[c].state \in {"got", "failed"} => pc'[b] \in Ended
          BY <3>2, <3>4, <3>5
    <3>7. QED  BY <3>6 DEF c
  <2>4. QED  BY <2>2, <2>3
<1>7. MigrationInv'
  <2>1. Applied' = Applied  BY <1>0 DEF Applied
  <2>2. \A v \in 1..Versions : pc'[Schema(v)] \notin Waits  BY <1>4, Names
  <2>3. QED  BY <1>0, <1>1, <2>1, <2>2 DEF MigrationInv
<1>8. /\ copies \subseteq copies' /\ IsFiniteSet(copies') /\ copies' \subseteq CopyFile
      /\ CopyInv'
  <2>1. CASE UNCHANGED copies
    <3>1. copies' \subseteq copies /\ round' = round  BY <1>0, <2>1
    <3>2. QED  BY <1>1, <2>1, <3>1, FewerCopies
  <2>2. CASE /\ Running("statement") /\ Author \in Copying
             /\ copies' = copies \cup {[at |-> round, sound |-> FALSE, rows |-> {}]}
    <3>1. thread # <<>> /\ Author \in Writers  BY <2>2, Constants DEF Running
    <3>2. Awaited
      <4>1. SUFFICES ASSUME ~Awaited PROVE FALSE  OBVIOUS
      <4>2. Head(thread) = thread[1] /\ Abandoned(1)
            BY <1>1, <3>1, <4>1, Connected, HeadOfThread
      <4>3. Author \in cancelled  BY <4>2 DEF Abandoned, Author
      <4>4. Author \in Jobs  BY <1>1, <4>3, DataNow, Names DEF DataType
      <4>5. QED  BY <2>2, <4>4, Names
    <3>3. pc[Author] = "statement"  BY <2>2, <3>2 DEF Running, Awaited
    <3>4. PICK n \in 1..MaxBackups : Author = Copy(n)  BY <2>2, BackupNames
    <3>5. n = round /\ Present(round) = {} /\ round \in 1..MaxBackups
          BY <1>1, <3>3, <3>4 DEF BackupAll, BackupInv, Waits
    <3> DEFINE new == [at |-> round, sound |-> FALSE, rows |-> {}]
    <3>6. new \in CopyFile /\ new.at = round /\ ~new.sound
          BY <1>1, CopiesTyped DEF CopyFile
    <3>7. IsFiniteSet(copies')  BY <1>1, <2>2, CopiesTyped, FS_AddElement
    <3>8. copies \subseteq CopyFile /\ \A c \in copies : c.at # round
          BY <1>1, <3>5 DEF BackupAll, BackupType, Present
    <3> HIDE DEF new
    <3>9. copies' = copies \cup {new}  BY <2>2 DEF new
    <3>10. \A c \in copies' : c.at \in 1..round
           BY <1>1, <3>5, <3>6, <3>9, CopiesTyped
    <3>11. \A c, d \in copies' : c.at = d.at => c = d
           BY <1>1, <3>6, <3>8, <3>9 DEF BackupAll, CopyInv
    <3>12. \A c \in copies' : c.sound => Whole(c.rows)
           BY <1>1, <3>6, <3>9 DEF BackupAll, CopyInv
    <3>13. CopyInv'
           BY <1>0, <3>7, <3>10, <3>11, <3>12 DEF CopyInv, Whole, RowsOf
    <3>14. QED  BY <3>6, <3>7, <3>8, <3>9, <3>13
  <2> HIDE DEF again, gone
  <2>3. QED  BY <1>0, <2>1, <2>2
<1>9. BackupType'  BY <1>0, <1>1, <1>8 DEF BackupAll, BackupType
<1>10. KeptInv'
  <2>1. round \in Nat /\ Settled' = round /\ Settled <= round  BY <1>0, <1>1, CopiesTyped DEF Settled
  <2>2. Older \subseteq Older'
    <3>1. \A c \in Older : c \in copies /\ c.at <= round  BY <1>1, CopiesTyped DEF Older
    <3>2. QED  BY <1>8, <2>1, <3>1 DEF Older
  <2>3. succeeded \subseteq 1..Settled' /\ succeeded' = succeeded
    <3>1. succeeded \subseteq 1..Settled  BY <1>1 DEF BackupAll, KeptInv
    <3>2. Settled \in Int  BY <1>1, CopiesTyped
    <3>3. QED  BY <1>0, <2>1, <3>1, <3>2
  <2>4. QED  BY <1>1, <1>8, <1>9, <2>2, <2>3, StillKept
<1>11. BackupInv'
  <2>1. \A n \in 1..MaxBackups : pc'[Copy(n)] \notin Waits  BY <1>4, BackupNames
  <2>2. ASSUME NEW n \in 1..MaxBackups, n > round  PROVE pc'[Copy(n)] = "idle"
    <3>1. pc[Copy(n)] = "idle"  BY <1>1, <2>2 DEF BackupAll, BackupInv
    <3>2. Copy(n) \in Writers /\ Copy(n) \notin again /\ Copy(n) \notin gone
          BY BackupNames, Names
    <3> HIDE DEF again, gone
    <3>3. QED  BY <1>3, <3>1, <3>2 DEF Waits
  <2>3. QED  BY <1>0, <2>1, <2>2 DEF BackupInv
<1>12. BackupAll'  BY <1>8, <1>9, <1>10, <1>11 DEF BackupAll
<1>13. ProcessType'  BY <1>0, <1>1 DEF ProcessType
<1>14. QED  BY <1>2, <1>5, <1>6, <1>7, <1>12, <1>13, Parts

LEMMA NextInv ==
    IInv /\ [Next]_allVars => IInv'
<1> SUFFICES ASSUME IInv, [Next]_allVars PROVE IInv'  OBVIOUS
<1>1. CASE UNCHANGED allVars
  <2>1. /\ UNCHANGED vars /\ UNCHANGED feeVars /\ UNCHANGED backupVars
        /\ UNCHANGED <<phase, migrating, starts>>
        BY <1>1 DEF allVars
  <2>2. DBInv' /\ Moves({}) /\ NoCopyEnds /\ file \subseteq file'  BY <2>1, Stutters, Parts
  <2>3. {} \cap (Builds \cup Migrations) = {}  OBVIOUS
  <2>4. QED  BY <2>1, <2>2, <2>3, ConnectionKeeps
<1>2. CASE Boot  BY <1>2, BootKeeps
<1>3. CASE Migrate  BY <1>3, MigrateKeeps
<1>4. CASE Migrated  BY <1>4, MigratedKeeps
<1>5. CASE Work  BY <1>5, WorkKeeps
<1>6. CASE WorkCancelled  BY <1>6, WorkCancelledKeeps
<1>7. CASE Connection  BY <1>7, ConnectionStepKeeps
<1>8. CASE FeeService  BY <1>8, FeeServiceKeeps
<1>9. CASE Backups
  <2>1. CASE BeginBackup  BY <2>1, BeginBackupKeeps
  <2>2. CASE CopyRuns  BY <2>2, CopyRunsKeeps
  <2>3. CASE CopyFailed  BY <2>3, DiscardKeeps DEF CopyFailed
  <2>4. CASE Copied  BY <2>4, CopiedKeeps
  <2>5. CASE Verified  BY <2>5, VerifiedKeeps
  <2>6. CASE VerifyFails  BY <2>6, DiscardKeeps DEF VerifyFails
  <2>7. CASE Marked  BY <2>7, MarkedKeeps
  <2>8. CASE BackupEnds  BY <2>8, BackupEndsKeeps
  <2>9. QED  BY <1>9, <2>1, <2>2, <2>3, <2>4, <2>5, <2>6, <2>7, <2>8 DEF Backups
<1>10. CASE Ends  BY <1>10, EndsKeeps
<1>11. QED
       BY <1>1, <1>2, <1>3, <1>4, <1>5, <1>6, <1>7, <1>8, <1>9, <1>10 DEF Next

LEMMA Invariance == Spec => []IInv
BY InitInv, NextInv, PTL DEF Spec

-------------------------------------------------------------------------------
(* What the runs check, for every value of the constants.                    *)

\* The state of the connection, of the snapshots, of the migrations and of the
\* backups has its type.
THEOREM StorageTypeCorrect == Spec => []TypeOK
<1>1. IInv => TypeOK  BY DEF IInv
<1>2. QED  BY <1>1, Invariance, PTL

\* What a transaction writes is in the file, and in every sound copy of it,
\* entirely or not at all, and of the migrations none without those before it
\* (connection.py transaction(), runner.py upgrade(), backup.py VACUUM INTO).
THEOREM WritesAtomic == Spec => []AtomicWrites
<1>1. IInv => AtomicWrites
  <2> SUFFICES ASSUME IInv PROVE AtomicWrites  OBVIOUS
  <2>1. Whole(file)
    <3>1. ASSUME NEW t \in Transactions
          PROVE  RowsOf(t) \subseteq file \/ RowsOf(t) \cap file = {}
          BY Parts, Constants DEF DBInv, FileInv
    <3>2. QED  BY <3>1 DEF Whole
  <2>2. QED  BY <2>1 DEF IInv, MigrationInv, CopyInv, AtomicWrites
<1>2. QED  BY <1>1, Invariance, PTL

\* A writer that was told it had written finds its rows in the file, one that was
\* told of an error finds none, and the connection is left clean: only a failed
\* COMMIT or a BEGIN that was cancelled before it ran makes it otherwise.
THEOREM WritersToldTheTruth == Spec => []Acknowledged
<1>1. IInv => Acknowledged
  <2> SUFFICES ASSUME IInv PROVE Acknowledged  OBVIOUS
  <2>1. FileInv /\ OpenInv  BY Parts DEF DBInv
  <2>2. ASSUME orphans = {}, NEW w \in Writers \ Copying, pc[w] = "ok"
        PROVE  RowsOf(w) \subseteq file
        BY <2>1, <2>2 DEF FileInv
  <2>3. ASSUME NEW w \in Writers, pc[w] = "error"  PROVE RowsOf(w) \cap file = {}
        BY <2>1, <2>3 DEF FileInv
  <2>4. thread = <<>> /\ orphans = {} => ~inTransaction  BY <2>1, EmptySeq DEF OpenInv
  <2>5. QED  BY <2>2, <2>3, <2>4 DEF Acknowledged
<1>2. QED  BY <1>1, Invariance, PTL

LEMMA BuildsFinite ==
    IsFiniteSet(Builds)
<1> DEFINE f == [n \in 1..MaxBuilds |-> Build(n)]
<1>1. IsFiniteSet(1..MaxBuilds)  BY FeeAssumption, FS_Interval
<1>2. f \in Surjection(1..MaxBuilds, Builds)  BY DEF Builds, Surjection
<1> HIDE DEF f
<1>3. QED  BY <1>1, <1>2, FS_Surjection

\* Of the builds of one snapshot there is one at a time, and one more for every
\* caller that was cancelled while it owned one (dedup.py, FeeService).
THEOREM BuildsShared == Spec => []SharedBuild
<1>1. IInv => SharedBuild
  <2> SUFFICES ASSUME IInv PROVE SharedBuild  OBVIOUS
  <2> DEFINE Under == {b \in Builds : UnderWay(b)}
             Left == {b \in Builds : Started(b) /\ answer[owner[b]].state = "cancelled"}
  <2>1. ASSUME NEW b \in Under  PROVE b = inFlight \/ b \in Left
    <3>1. Started(b) /\ pc[b] \notin Ended  BY DEF UnderWay
    <3>2. owner[b] \in Callers  BY <3>1, Parts DEF FeesTypeOK, Started
    <3>3. answer[owner[b]].state \in {"idle", "waits", "got", "failed", "cancelled"}
          BY <3>2, Parts DEF FeesTypeOK
    <3>4. QED  BY <3>1, <3>3, Parts DEF FeeInv
  <2>2. Under \subseteq Left \cup {inFlight}  BY <2>1
  <2>3. Left \in SUBSET Builds  OBVIOUS
  <2> HIDE DEF Under, Left
  <2>4. IsFiniteSet(Left) /\ Cardinality(Left) \in Nat
        BY <2>3, BuildsFinite, FS_Subset, FS_CardinalityType
  <2>5. /\ IsFiniteSet(Left \cup {inFlight})
        /\ Cardinality(Left \cup {inFlight}) <= 1 + Cardinality(Left)
        /\ Cardinality(Left \cup {inFlight}) \in Nat
        BY <2>4, FS_AddElement
  <2>6. IsFiniteSet(Under) /\ Cardinality(Under) <= Cardinality(Left \cup {inFlight})
    <3>1. Under \in SUBSET (Left \cup {inFlight})  BY <2>2
    <3>2. QED  BY <2>5, <3>1, FS_Subset
  <2>7. Cardinality(Under) <= 1 + Cardinality(Left)
        BY <2>4, <2>5, <2>6, FS_CardinalityType
  <2>8. QED  BY <2>7 DEF SharedBuild, Under, Left
<1>2. QED  BY <1>1, Invariance, PTL

\* Once a backup has succeeded there is a sound copy, and as many files as are to
\* be kept, through failed backups, crashes and rotation (backup/service.py).
THEOREM BackupsKept == Spec => []GoodCopiesKept
<1>1. IInv => GoodCopiesKept
  <2> SUFFICES ASSUME IInv PROVE GoodCopiesKept  OBVIOUS
  <2>1. BackupAll  BY Parts
  <2>2. succeeded # {} => {c \in copies : c.sound} # {}
        BY <2>1 DEF BackupAll, KeptInv, Older
  <2>3. Older \in SUBSET copies  BY DEF Older
  <2>4. Cardinality(Older) <= Cardinality(copies)  BY <2>1, <2>3, CopiesTyped, FS_Subset
  <2>5. Cardinality(copies) >= Fewer(Keep, Cardinality(succeeded))
        BY <2>1, <2>4, CopiesTyped, BackupNames DEF BackupAll, KeptInv, Fewer
  <2>6. QED  BY <2>2, <2>5 DEF GoodCopiesKept, Fewer
<1>2. QED  BY <1>1, Invariance, PTL
===============================================================================
