------------------------------- MODULE Database -------------------------------
(***************************************************************************)
(* The one connection to SQLite (infrastructure/db/connection.py).         *)
(*                                                                         *)
(* Writers take turns with an asyncio lock.  Their statements run in the   *)
(* thread of the driver, in the order in which they were handed to it, and *)
(* a writer that is cancelled stops waiting for its statement while the    *)
(* thread still runs it.  A statement and the resumption of the writer     *)
(* that waits for it are one step: the writers are ordered by the lock and *)
(* the statements by the thread, so nothing can come between.              *)
(***************************************************************************)
EXTENDS Naturals, Sequences, FiniteSets

CONSTANTS Writers,         \* each writes once
          Transactions,    \* of them, those that use transaction()
          Copying,         \* and those whose statement is VACUUM INTO
          Cancellable,     \* those that run in a task somebody may cancel
          MaxLockRetries,  \* _MAX_LOCK_RETRIES
          Loads,           \* bounds: what one behaviour has of each kind of work
          None

ASSUME DatabaseAssumption ==
    /\ Transactions \subseteq Writers /\ Copying \subseteq Writers \ Transactions
    /\ Cancellable \subseteq Writers
    /\ MaxLockRetries \in Nat \ {0}
    /\ \A l \in Loads : l.faults \in Nat /\ l.cancels \in Nat
    /\ None \notin Writers

VARIABLES lock,           \* _write_lock: its holder,
          queue,          \*   and those who wait for it
          thread,         \* statements handed to the driver's thread
          inTransaction,  \* a transaction is open on the connection,
          pending,        \*   with these rows
          file,           \* the rows committed to the database file
          pc,             \* what each writer waits for, or how it ended
          written,        \* statements of its transaction already run
          tries,          \* attempts _execute_with_retry has made
          orphans,        \* history: writers that left a transaction behind
          cancelled,      \* history: writers whose task was cancelled
          faults,
          load            \* the bounds of this behaviour: refusals of the
                          \* database file, cancellations, work

connection == <<lock, queue, thread, inTransaction, pending>>
vars == <<connection, file, pc, written, tries, orphans, cancelled, faults, load>>

Ended == {"ok", "error", "cancelled", "lost"}
Waits == {"lock", "begin", "backoff", "write", "commit", "rollback", "statement"}
Calls == {"begin", "write", "commit", "rollback", "statement"}

\* A transaction writes two rows, any other writer one.
RowsOf(w) == IF w \in Transactions THEN {<<w, 1>>, <<w, 2>>} ELSE {<<w, 1>>}
AllRows == UNION {RowsOf(w) : w \in Writers}

DatabaseTypeOK ==
    /\ lock \in Writers \cup {None}
    /\ queue \in Seq(Writers)
    /\ thread \in Seq([op : Calls, by : Writers])
    /\ inTransaction \in BOOLEAN
    /\ pending \subseteq AllRows /\ file \subseteq AllRows
    /\ pc \in [Writers -> {"idle"} \cup Waits \cup Ended]
    /\ written \in [Writers -> 0..2]
    /\ tries \in [Writers -> 0..MaxLockRetries]
    /\ orphans \subseteq Writers /\ cancelled \subseteq Cancellable
    /\ load \in Loads /\ faults \in 0..load.faults

DatabaseInit ==
    /\ lock = None /\ queue = <<>> /\ thread = <<>>
    /\ inTransaction = FALSE /\ pending = {} /\ file = {}
    /\ pc = [w \in Writers |-> "idle"]
    /\ written = [w \in Writers |-> 0]
    /\ tries = [w \in Writers |-> 0]
    /\ orphans = {} /\ cancelled = {} /\ faults = 0 /\ load \in Loads

Call(o, w) == [op |-> o, by |-> w]
First(w) == IF w \in Transactions THEN "begin" ELSE "statement"

Fault == faults < load.faults /\ faults' = faults + 1
NoFault == UNCHANGED faults

-------------------------------------------------------------------------------
(* Waiting and leaving                                                       *)

\* `async with self._write_lock`, by a writer that comes to the database.
Enter(w) ==
    /\ pc[w] = "idle"
    /\ IF lock = None
       THEN /\ lock' = w
            /\ thread' = Append(thread, Call(First(w), w))
            /\ pc' = [pc EXCEPT ![w] = First(w)]
            /\ UNCHANGED queue
       ELSE /\ queue' = Append(queue, w)
            /\ pc' = [pc EXCEPT ![w] = "lock"]
            /\ UNCHANGED <<lock, thread>>
    /\ UNCHANGED <<inTransaction, pending, file, written, tries, orphans, cancelled, faults, load>>

\* w hands its next statement to the thread and waits for it; `calls` is
\* what the thread has still to do.
Continue(w, op, calls) ==
    /\ thread' = Append(calls, Call(op, w))
    /\ pc' = [pc EXCEPT ![w] = op]
    /\ UNCHANGED <<lock, queue>>

\* Mutant of Leave: the lock is free again and nobody who waits for it hears.
LeaveUnheard(w, outcome, calls) ==
    /\ lock' = None /\ thread' = calls
    /\ pc' = [pc EXCEPT ![w] = outcome]
    /\ UNCHANGED queue

\* w leaves the `async with`: the lock goes to the first that waits for it.
Leave(w, outcome, calls) ==
    LET next == IF queue = <<>> THEN None ELSE Head(queue)
    IN  /\ lock' = next
        /\ queue' = IF next = None THEN queue ELSE Tail(queue)
        /\ thread' = IF next = None THEN calls ELSE Append(calls, Call(First(next), next))
        /\ pc' = [v \in Writers |-> IF v = w THEN outcome
                                    ELSE IF v = next THEN First(v) ELSE pc[v]]

\* An error inside the `async with` ends the writer as its cause says.
Cause(w) == IF w \in cancelled THEN "cancelled" ELSE "error"

-------------------------------------------------------------------------------
(* The thread of the driver                                                  *)

\* The statement whose turn it is, and whether its writer still waits.
Running(op) == thread # <<>> /\ Head(thread).op = op
Author == Head(thread).by
Awaited == pc[Author] = Head(thread).op /\ lock = Author
Rest == Tail(thread)
NobodyWaits == thread' = Rest /\ UNCHANGED <<lock, queue, pc>>

\* A file locked by another process: the attempts are limited.
Busy ==
    /\ \/ Running("begin")
       \/ Running("statement") /\ Author \notin Copying
    /\ Fault
    /\ IF ~Awaited THEN NobodyWaits /\ UNCHANGED tries
       ELSE /\ tries' = [tries EXCEPT ![Author] = @ + 1]
            /\ IF tries[Author] + 1 < MaxLockRetries
               THEN /\ pc' = [pc EXCEPT ![Author] = "backoff"]
                    /\ thread' = Rest /\ UNCHANGED <<lock, queue>>
               ELSE Leave(Author, "error", Rest)
    /\ UNCHANGED <<inTransaction, pending, file, written, orphans, cancelled, load>>

BackoffEnds(w) ==
    /\ pc[w] = "backoff"
    /\ Continue(w, First(w), thread)
    /\ UNCHANGED <<inTransaction, pending, file, written, tries, orphans, cancelled, faults, load>>

\* BEGIN IMMEDIATE; inside an open transaction SQLite refuses it.
BeginRuns ==
    /\ Running("begin")
    /\ inTransaction' = TRUE
    /\ pending' = IF inTransaction THEN pending ELSE {}
    /\ IF ~Awaited THEN NobodyWaits
       ELSE IF inTransaction THEN Leave(Author, "error", Rest)
       ELSE Continue(Author, "write", Rest)
    /\ UNCHANGED <<file, written, tries, orphans, cancelled, faults, load>>

WriteRuns ==
    /\ Running("write")
    /\ written' = [written EXCEPT ![Author] = @ + 1]
    /\ pending' = pending \cup {<<Author, written'[Author]>>}
    /\ IF ~Awaited THEN NobodyWaits
       ELSE Continue(Author, IF written'[Author] = 2 THEN "commit" ELSE "write", Rest)
    /\ UNCHANGED <<inTransaction, file, tries, orphans, cancelled, faults, load>>

\* A failed statement may or may not end the transaction by itself.
WriteFails ==
    /\ Running("write") /\ Fault
    /\ inTransaction' \in BOOLEAN
    /\ pending' = IF inTransaction' THEN pending ELSE {}
    /\ IF Awaited THEN Continue(Author, "rollback", Rest) ELSE NobodyWaits
    /\ UNCHANGED <<file, written, tries, orphans, cancelled, load>>

RollbackRuns ==
    /\ Running("rollback")
    /\ inTransaction' = FALSE /\ pending' = {}
    /\ IF Awaited THEN Leave(Author, Cause(Author), Rest) ELSE NobodyWaits
    /\ UNCHANGED <<file, written, tries, orphans, cancelled, faults, load>>

CommitRuns ==
    /\ Running("commit")
    /\ file' = file \cup pending
    /\ inTransaction' = FALSE /\ pending' = {}
    /\ IF Awaited THEN Leave(Author, "ok", Rest) ELSE NobodyWaits
    /\ UNCHANGED <<written, tries, orphans, cancelled, faults, load>>

\* A failed COMMIT is raised as it is and nobody rolls back.
CommitFails ==
    /\ Running("commit") /\ Fault
    /\ inTransaction' \in BOOLEAN
    /\ pending' = IF inTransaction' THEN pending ELSE {}
    /\ orphans' = IF inTransaction' THEN orphans \cup {Author} ELSE orphans
    /\ IF Awaited THEN Leave(Author, "error", Rest) ELSE NobodyWaits
    /\ UNCHANGED <<file, written, tries, cancelled, load>>

\* A statement of its own commits itself, unless a transaction is open.
StatementRuns ==
    /\ Running("statement") /\ Author \notin Copying
    /\ IF inTransaction
       THEN pending' = pending \cup RowsOf(Author) /\ UNCHANGED file
       ELSE file' = file \cup RowsOf(Author) /\ UNCHANGED pending
    /\ IF Awaited THEN Leave(Author, "ok", Rest) ELSE NobodyWaits
    /\ UNCHANGED <<inTransaction, written, tries, orphans, cancelled, faults, load>>

StatementFails ==
    /\ Running("statement") /\ Author \notin Copying /\ Fault
    /\ IF Awaited THEN Leave(Author, "error", Rest) ELSE NobodyWaits
    /\ UNCHANGED <<inTransaction, pending, file, written, tries, orphans, cancelled, load>>

-------------------------------------------------------------------------------
(* Cancellation and the end of the process                                   *)

\* Mutant of CancelHolding: a transaction cancelled while it writes is committed as it stands.
CancelCommitting(w) ==
    /\ pc[w] \in Waits \ {"lock"}
    /\ IF pc[w] = "write" THEN Continue(w, "commit", thread)
       ELSE Leave(w, "cancelled", thread)

\* Mutant of CancelHolding: `except Exception`, which a cancellation passes by.
CancelUnhandled(w) ==
    /\ pc[w] \in Waits \ {"lock"}
    /\ Leave(w, "cancelled", thread)

\* Between BEGIN and COMMIT the cancellation is met with ROLLBACK; anywhere
\* else the lock is released and the statement stays in the thread.
CancelHolding(w) ==
    /\ pc[w] \in Waits \ {"lock"}
    /\ IF pc[w] = "write" THEN Continue(w, "rollback", thread)
       ELSE Leave(w, "cancelled", thread)

\* A task is cancelled, once: its writer gives up what it waits for.
Cancel(w) ==
    /\ w \in Cancellable \ cancelled /\ Cardinality(cancelled) < load.cancels
    /\ cancelled' = cancelled \cup {w}
    /\ \/ /\ pc[w] = "lock"
          /\ \E i \in DOMAIN queue :
                /\ queue[i] = w
                /\ queue' = SubSeq(queue, 1, i - 1) \o SubSeq(queue, i + 1, Len(queue))
          /\ pc' = [pc EXCEPT ![w] = "cancelled"]
          /\ UNCHANGED <<lock, thread>>
       \/ CancelHolding(w)
    /\ orphans' = IF pc[w] = "begin" THEN orphans \cup {w} ELSE orphans
    /\ UNCHANGED <<inTransaction, pending, file, written, tries, faults, load>>

\* The process ends, by close() or without: SQLite takes the transaction
\* back, and a writer that had not ended is gone, as are those of `gone`,
\* about to begin.  `again` are those the next process will call anew.
Forget(again, gone) ==
    /\ lock' = None /\ queue' = <<>> /\ thread' = <<>>
    /\ inTransaction' = FALSE /\ pending' = {}
    /\ pc' = [w \in Writers |-> IF w \in again THEN "idle"
                                ELSE IF pc[w] \in Waits \/ w \in gone THEN "lost" ELSE pc[w]]
    /\ written' = [w \in Writers |-> IF w \in again THEN 0 ELSE written[w]]
    /\ tries' = [w \in Writers |-> IF w \in again THEN 0 ELSE tries[w]]
    /\ UNCHANGED <<file, orphans, cancelled, faults, load>>

\* Everything the connection does by itself.
Thread ==
    \/ Busy \/ BeginRuns \/ WriteRuns \/ WriteFails \/ RollbackRuns
    \/ CommitRuns \/ CommitFails \/ StatementRuns \/ StatementFails
    \/ \E w \in Writers : BackoffEnds(w)
===============================================================================
