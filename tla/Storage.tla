------------------------------- MODULE Storage -------------------------------
(***************************************************************************)
(* What the application keeps on disk and how it gets there: migrations at *)
(* startup (infrastructure/db/runner.py), then transactions of the workers *)
(* that may be cancelled, snapshots of fees, and backups                   *)
(* (services/backup/service.py, infrastructure/db/backup.py) that share    *)
(* one connection with them, through crashes and restarts.                 *)
(***************************************************************************)
EXTENDS FeeSnapshots

CONSTANTS Jobs,         \* transactions of the workers
          Versions,     \* migrations this build knows
          Keep,         \* backup_retention_copies
          MaxBackups,   \* bound: backups
          MaxStarts     \* bound: starts of the process

Schema(v) == <<"schema", v>>
Copy(n) == <<"copy", n>>      \* VACUUM INTO of backup n
Ran(n) == <<"ran", n>>        \* app_metadata: moment of backup n
Said(n) == <<"said", n>>      \* app_metadata: its outcome

Migrations == {Schema(v) : v \in 1..Versions}

ASSUME StorageAssumption ==
    /\ Versions \in Nat /\ Keep \in Nat \ {0} /\ MaxBackups \in Nat /\ MaxStarts \in Nat
    /\ Writers = Jobs \cup Builds \cup Migrations \cup
                 UNION {{Copy(n), Ran(n), Said(n)} : n \in 1..MaxBackups}
    /\ Transactions = Jobs \cup Builds \cup Migrations
    /\ Copying = {Copy(n) : n \in 1..MaxBackups}
    /\ Cancellable = Jobs
    /\ Jobs \cap (Builds \cup Migrations) = {}
    /\ \A n \in 1..MaxBackups : Ran(n) \notin Jobs /\ Said(n) \notin Jobs
    /\ \A l \in Loads : l.jobs \subseteq Jobs /\ l.backups \in 0..MaxBackups

VARIABLES phase,      \* where the process stands
          migrating,  \* the version upgrade() applies
          backup,     \* what the backup at hand does
          copies,     \* the copies in the directory
          round,      \* backups begun: their moments
          succeeded,  \* history: backups that reported success
          starts

backupVars == <<backup, copies, round, succeeded>>
allVars == <<vars, feeVars, phase, migrating, backupVars, starts>>

CopyFile == [at : Nat, sound : BOOLEAN, rows : SUBSET AllRows]

TypeOK ==
    /\ DatabaseTypeOK /\ FeesTypeOK
    /\ phase \in {"down", "migrating", "running"}
    /\ migrating \in 0..Versions
    /\ backup \in {"none", "copying", "verifying", "marking", "telling"}
    /\ copies \subseteq CopyFile
    /\ round \in 0..MaxBackups /\ succeeded \subseteq 1..MaxBackups
    /\ starts \in 0..MaxStarts

Init ==
    /\ DatabaseInit /\ FeesInit
    /\ phase = "down" /\ migrating = 0
    /\ backup = "none" /\ copies = {} /\ round = 0 /\ succeeded = {}
    /\ starts = 0

-------------------------------------------------------------------------------
(* Startup                                                                   *)

\* applied_versions(), as upgrade() reads them once.
Applied == {v \in 1..Versions : <<Schema(v), 2>> \in file}
Pending == {v \in 1..Versions : v > migrating} \ Applied

\* The migration applied last did not raise.
UpgradeGoesOn == migrating # 0 => pc[Schema(migrating)] = "ok"

\* connect().
Boot ==
    /\ phase = "down" /\ starts < MaxStarts
    /\ phase' = "migrating" /\ migrating' = 0 /\ starts' = starts + 1
    /\ UNCHANGED <<vars, feeVars, backupVars>>

\* upgrade() applies what is missing, in order, one transaction each.
Migrate ==
    /\ phase = "migrating"
    /\ UpgradeGoesOn
    /\ \E v \in Pending :
          /\ \A u \in Pending : v <= u
          /\ migrating' = v /\ Enter(Schema(v))
    /\ UNCHANGED <<feeVars, phase, backupVars, starts>>

Migrated ==
    /\ phase = "migrating" /\ Pending = {}
    /\ UpgradeGoesOn
    /\ phase' = "running"
    /\ UNCHANGED <<vars, feeVars, migrating, backupVars, starts>>

-------------------------------------------------------------------------------
(* Backup                                                                    *)

\* run(): a name from the clock, then VACUUM INTO under the write lock.
BeginBackup ==
    /\ phase = "running" /\ backup = "none" /\ round < load.backups
    /\ round' = round + 1 /\ backup' = "copying"
    /\ Enter(Copy(round + 1))
    /\ UNCHANGED <<feeVars, phase, migrating, copies, succeeded, starts>>

Present(n) == {c \in copies : c.at = n}

\* The thread writes the copy: the committed rows, or part of a file, or one
\* that is damaged.  SQLite refuses it while a transaction is open.
CopyRuns ==
    /\ Running("statement") /\ Author \in Copying
    /\ LET made(sound) == copies' = copies \cup {[at |-> round, sound |-> sound, rows |-> file]}
       IN  \/ ~inTransaction /\ NoFault /\ made(TRUE) /\ Leave(Author, "ok", Rest)
           \/ ~inTransaction /\ Fault /\ made(FALSE) /\ Leave(Author, "ok", Rest)
           \/ ~inTransaction /\ Fault /\ made(FALSE) /\ Leave(Author, "error", Rest)
           \/ inTransaction /\ NoFault /\ UNCHANGED copies /\ Leave(Author, "error", Rest)
    /\ UNCHANGED <<inTransaction, pending, file, written, tries, orphans, cancelled, load>>
    /\ UNCHANGED <<feeVars, phase, migrating, backup, round, succeeded, starts>>

\* The first half of _remember(), begun with the last step before it.
Remember == backup' = "marking" /\ Enter(Ran(round))

\* _discard(), which is silent when the file cannot be removed.
CopyFailed ==
    /\ backup = "copying" /\ pc[Copy(round)] = "error"
    /\ copies' \in {copies \ Present(round), copies}
    /\ Remember
    /\ UNCHANGED <<feeVars, phase, migrating, round, succeeded, starts>>

Copied ==
    /\ backup = "copying" /\ pc[Copy(round)] = "ok"
    /\ backup' = "verifying"
    /\ UNCHANGED <<vars, feeVars, phase, migrating, copies, round, succeeded, starts>>

\* Mutant of Stale: copies older than the new ones are counted before it is verified.
StaleButOne(files) ==
    {c \in files : Cardinality({d \in files : d.at > c.at}) >= Keep - 1}

\* _rotate(): the files beyond the newest `keep`, complete or not.
Stale(files) == {c \in files : Cardinality({d \in files : d.at > c.at}) >= Keep}

\* _verify() opens the copy by itself.
Verified ==
    /\ backup = "verifying"
    /\ \A c \in Present(round) : c.sound
    /\ copies' = copies \ Stale(copies)
    /\ succeeded' = succeeded \cup {round}
    /\ Remember
    /\ UNCHANGED <<feeVars, phase, migrating, round, starts>>

VerifyFails ==
    /\ backup = "verifying"
    /\ \E c \in Present(round) : ~c.sound
    /\ copies' \in {copies \ Present(round), copies}
    /\ Remember
    /\ UNCHANGED <<feeVars, phase, migrating, round, succeeded, starts>>

Marked ==
    /\ backup = "marking" /\ pc[Ran(round)] \in Ended
    /\ IF pc[Ran(round)] = "ok" THEN backup' = "telling" /\ Enter(Said(round))
       ELSE backup' = "none" /\ UNCHANGED vars
    /\ UNCHANGED <<feeVars, phase, migrating, copies, round, succeeded, starts>>

BackupEnds ==
    /\ backup = "telling" /\ pc[Said(round)] \in Ended
    /\ backup' = "none"
    /\ UNCHANGED <<vars, feeVars, phase, migrating, copies, round, succeeded, starts>>

-------------------------------------------------------------------------------
\* A worker writes, once.
Work ==
    /\ phase = "running"
    /\ \E j \in load.jobs : Enter(j)
    /\ UNCHANGED <<feeVars, phase, migrating, backupVars, starts>>

WorkCancelled ==
    /\ \E j \in Jobs : Cancel(j)
    /\ UNCHANGED <<feeVars, phase, migrating, backupVars, starts>>

Connection ==
    /\ Thread
    /\ UNCHANGED <<feeVars, phase, migrating, backupVars, starts>>

FeeService ==
    /\ phase = "running" /\ Fees
    /\ UNCHANGED <<phase, migrating, backupVars, starts>>

\* The process ends: a failed migration ends it, a stop or a crash may end
\* it at any moment.  VACUUM INTO cut short leaves what it has written.
Ends ==
    /\ phase # "down"
    /\ phase' = "down" /\ backup' = "none"
    /\ \/ UNCHANGED copies
       \/ /\ Running("statement") /\ Author \in Copying
          /\ copies' = copies \cup {[at |-> round, sound |-> FALSE, rows |-> {}]}
    /\ Forget({m \in Migrations : m \notin {f[1] : f \in file}},
              {b \in Builds : Started(b) /\ pc[b] = "idle"})
    /\ FeesForgotten
    /\ UNCHANGED <<migrating, round, succeeded, starts>>

Backups ==
    BeginBackup \/ CopyRuns \/ CopyFailed \/ Copied \/ Verified \/ VerifyFails
        \/ Marked \/ BackupEnds

Next ==
    \/ Boot \/ Migrate \/ Migrated \/ Work \/ WorkCancelled \/ Connection
    \/ FeeService \/ Backups \/ Ends

\* A build begun and an answer due are tasks of the event loop, ready to run.
FeesGoOn ==
    /\ FeeService
    /\ \/ \E b \in Builds : Started(b) /\ pc[b] = "idle" /\ pc'[b] # "idle"
       \/ \E c \in Callers : answer[c].state = "waits" /\ answer'[c].state # "waits"

\* The driver's thread, the tasks of the loop and the backup under way go on.
Fairness ==
    /\ WF_allVars(Connection \/ CopyRuns)
    /\ WF_allVars(Copied \/ CopyFailed \/ Verified \/ VerifyFails \/ Marked \/ BackupEnds)
    /\ WF_allVars(FeesGoOn)

Spec == Init /\ [][Next]_allVars /\ Fairness

-------------------------------------------------------------------------------
(* Properties                                                                *)

Whole(rows) == \A t \in Transactions : RowsOf(t) \subseteq rows \/ RowsOf(t) \cap rows = {}

\* What a transaction writes is in the database file entirely or not at all,
\* and in every sound copy too, whatever was cancelled, refused or cut short
\* in between: transaction() of connection.py, and VACUUM INTO behind its lock.
\* Of the migrations none is there without those before it.
AtomicWrites ==
    /\ TypeOK
    /\ Whole(file)
    /\ \A v \in Applied : 1..v \subseteq Applied
    /\ \A c \in copies : c.sound => Whole(c.rows)

\* A writer that was told it had written finds its rows in the file, and one
\* that was told of an error does not; a COMMIT that failed or a BEGIN that was
\* cancelled before it ran are the only ways to lose what was acknowledged, and
\* the only ways to leave a transaction open that nobody holds.
Acknowledged ==
    /\ orphans = {} => \A w \in Writers \ Copying : pc[w] = "ok" => RowsOf(w) \subseteq file
    /\ \A w \in Writers : pc[w] = "error" => RowsOf(w) \cap file = {}
    /\ lock = None /\ thread = <<>> /\ orphans = {} => ~inTransaction

\* Builds of the same snapshot at a time: one, and one more for every caller
\* that was cancelled while it owned one (the entry goes with its owner).
SharedBuild ==
    Cardinality({b \in Builds : UnderWay(b)})
        <= 1 + Cardinality({b \in Builds : Started(b) /\ answer[owner[b]].state = "cancelled"})

\* Once a backup has succeeded there is a sound copy, and as many as are to be
\* kept unless an unfinished file counts among them: _rotate counts files, not
\* copies, and every failure discards only its own.
GoodCopiesKept ==
    LET sound == {c \in copies : c.sound}
        fewer(a, b) == IF a < b THEN a ELSE b
    IN  /\ succeeded # {} => sound # {}
        /\ Cardinality(copies) >= fewer(Keep, Cardinality(succeeded))

\* Whoever waits for the database gets an answer, and whoever waits for a fee
\* snapshot does: as each asks once, in the end nobody waits.  Locks, retries
\* and cancelled writers hold nobody for ever.
WaitsEnd ==
    <>[](/\ \A w \in Writers : pc[w] \notin Waits
         /\ \A c \in Callers : answer[c].state # "waits")

\* transactions.py:29, "commit при успехе, rollback при исключении": with the
\* lock free and nothing left to run, no transaction is open.
RollbackOnException == lock = None /\ thread = <<>> => ~inTransaction
===============================================================================
