------------------------------ MODULE CronJobs ------------------------------
(***************************************************************************)
(* Two jobs of the backend that run on a schedule, each a machine of its   *)
(* own: the reminders of saved pools and the backups of the database.      *)
(***************************************************************************)
EXTENDS FiniteSets, Naturals

(***************************************************************************)
(* Saved pools and the reminders made from their dates                     *)
(* (services/savedPools.ts, services/notificationService.ts, their routes, *)
(* and startNotificationReminderCron). One wallet, one saved pool; the     *)
(* lock and draw dates are "far", "near" (within the lead time) or "past". *)
(* Requests and sweeps interleave between a read and the write after it.   *)
(***************************************************************************)
CONSTANTS
  Reminding,    \* concurrent sweeps (a lease may lapse) and preference requests
  MaxReminders  \* bound on requests and sweeps

ReminderTypes == {"maturity", "claim_window"}

VARIABLES
  saved,      \* the saved_pools row: dates per reminder type, or {} when unsaved
  note,       \* notifications per type: "none", "open" or "dismissed"
  notes,      \* history: notifications created per type
  disabled,   \* notification_preferences.disabledTypes
  reminding,  \* locals of each sweep or preference request
  reminders   \* requests so far, bounded by MaxReminders

reminderVars == <<saved, note, notes, disabled, reminding, reminders>>

NoReminding == [op |-> "idle", todo |-> {}, want |-> {}, missing |-> {}]

ReminderInit ==
  /\ saved = {}
  /\ note = [t \in ReminderTypes |-> "none"]
  /\ notes = [t \in ReminderTypes |-> 0]
  /\ disabled = {}
  /\ reminding = [r \in Reminding |-> NoReminding]
  /\ reminders = 0

RemindStart(r, rec) ==
  /\ reminding[r] = NoReminding /\ reminders < MaxReminders
  /\ reminders' = reminders + 1
  /\ reminding' = [reminding EXCEPT ![r] = rec]
RemindEnd(r) == reminding' = [reminding EXCEPT ![r] = NoReminding]

\* savePool creates the row or overwrites its dates; unsavePool deletes it and
\* keeps the notifications.
savePool ==
  /\ reminders < MaxReminders /\ reminders' = reminders + 1
  /\ \E lock, draw \in {"far", "near", "past"} : saved' = {[maturity |-> lock, claim_window |-> draw]}
  /\ UNCHANGED <<note, notes, disabled, reminding>>

unsavePool ==
  /\ saved # {} /\ saved' = {}
  /\ UNCHANGED <<note, notes, disabled, reminding, reminders>>

Due(t) == \E s \in saved : s[t] = "near"

\* generateReminders: the candidates with their dates, then the preferences.
generateReminders_find(r) ==
  /\ \E t \in ReminderTypes : Due(t)
  /\ RemindStart(r, [NoReminding EXCEPT !.op = "find", !.todo = {t \in ReminderTypes : Due(t)}])
  /\ UNCHANGED <<saved, note, notes, disabled>>

Wanted(r) == reminding[r].todo \ disabled

generateReminders_prefs(r) ==
  /\ reminding[r].op = "find"
  /\ reminding' = [reminding EXCEPT ![r].op = "check", ![r].todo = Wanted(r)]
  /\ UNCHANGED <<saved, note, notes, disabled, reminders>>

\* createIfMissing: look for the row, then insert it.  The unique key makes a
\* late insert fail, which ends the sweep.
createIfMissing_find(r, t) ==
  /\ reminding[r].op = "check" /\ t \in reminding[r].todo
  /\ IF note[t] = "none"
     THEN reminding' = [reminding EXCEPT ![r].op = "insert", ![r].missing = {t}]
     ELSE reminding' = [reminding EXCEPT ![r].todo = @ \ {t}]
  /\ UNCHANGED <<saved, note, notes, disabled, reminders>>

UniqueKey(t) == note[t] = "none"

createIfMissing_insert(r, t) ==
  /\ reminding[r].op = "insert" /\ t \in reminding[r].missing
  /\ \/ /\ UniqueKey(t)
        /\ note' = [note EXCEPT ![t] = "open"]
        /\ notes' = [notes EXCEPT ![t] = @ + 1]
        /\ reminding' = [reminding EXCEPT ![r].op = "check", ![r].todo = @ \ {t}, ![r].missing = {}]
     \/ ~ UniqueKey(t) /\ RemindEnd(r) /\ UNCHANGED <<note, notes>>
  /\ UNCHANGED <<saved, disabled, reminders>>

generateReminders_end(r) ==
  /\ reminding[r].op = "check" /\ reminding[r].todo = {}
  /\ RemindEnd(r)
  /\ UNCHANGED <<saved, note, notes, disabled, reminders>>

dismiss(t) ==
  /\ note[t] = "open"
  /\ note' = [note EXCEPT ![t] = "dismissed"]
  /\ UNCHANGED <<saved, notes, disabled, reminding, reminders>>

\* setReminderTypeEnabled: read the set, write the whole set back.
setReminderTypeEnabled_read(r) ==
  /\ \E t \in ReminderTypes, on \in BOOLEAN :
       RemindStart(r, [NoReminding EXCEPT !.op = "prefs",
                         !.want = IF on THEN disabled \ {t} ELSE disabled \cup {t}])
  /\ UNCHANGED <<saved, note, notes, disabled>>

setReminderTypeEnabled_write(r) ==
  /\ reminding[r].op = "prefs"
  /\ disabled' = reminding[r].want
  /\ RemindEnd(r)
  /\ UNCHANGED <<saved, note, notes, reminders>>

ReminderNext ==
  \/ savePool \/ unsavePool
  \/ \E t \in ReminderTypes : dismiss(t)
  \/ \E r \in Reminding :
       \/ generateReminders_find(r) \/ generateReminders_prefs(r) \/ generateReminders_end(r)
       \/ \E t \in ReminderTypes : createIfMissing_find(r, t) \/ createIfMissing_insert(r, t)
       \/ setReminderTypeEnabled_read(r) \/ setReminderTypeEnabled_write(r)

ReminderSpec == ReminderInit /\ [][ReminderNext]_reminderVars

-----------------------------------------------------------------------------
(* "Re-running generateReminders never creates duplicates": one notification *)
(* per position and type ever, whichever sweeps overlap and also after it    *)
(* was dismissed or the pool was saved again.                                *)
RemindedOnce == \A t \in ReminderTypes : notes[t] <= 1 /\ (notes[t] = 0 <=> note[t] = "none")

(***************************************************************************)
(* Database dumps, pruning and restore drills (services/backupService.ts,  *)
(* scripts/backup.ts, and the two cron jobs). A dump is named after the    *)
(* second it starts in; pg_dump and pg_restore are external: a dump first  *)
(* has nothing, then its table of contents, then everything, and stays     *)
(* what it is when pg_dump fails or is killed.                             *)
(***************************************************************************)
CONSTANTS
  RetainDays,   \* positive (env.ts)
  LastDay       \* bound on the days that pass

ASSUME BackupAssumption == RetainDays \in Nat \ {0} /\ LastDay \in Nat

VARIABLES
  day,        \* the clock
  dumps,      \* backup-*.sql.gz files: day they were started, mtime, content
  dumping,    \* the run: "idle", "dumping" or "pruning", and its file's name
  drill,      \* the restore drill: "idle" or "verified", the file it chose, whether dumps were settled then
  scratch,    \* scratchDatabaseUrl, as configured
  restored,   \* history: the drills' restores, of what, into which database, and settled when chosen
  everDumped, \* history: a dump has completed
  lastRun     \* history: the last run was "ok" or "failed"

backupVars == <<day, dumps, dumping, drill, scratch, restored, everDumped, lastRun>>

\* A connection string: its host, its port, its database and its user, each
\* written out or omitted.  Production is written out, as in .env.example, but
\* is neither of the defaults that pg_restore is given.
Urls == [host : {"omitted", "primary", "other"}, port : {"omitted", "5432", "5433"},
         db : {"omitted", "vault", "scratch"}, user : {"app", "drill"}]
Production == [host |-> "primary", port |-> "omitted", db |-> "vault", user |-> "app"]

OrDefault(value, default) == IF value = "omitted" THEN default ELSE value

\* The guard compares hosts and databases as they are written.
isProductionDatabase(url) ==
  \/ url = Production
  \/ /\ url.host = Production.host /\ url.db = Production.db
     /\ OrDefault(url.port, "5432") = OrDefault(Production.port, "5432")

\* pg_restore is given the defaults of what is omitted.
buildPgRestoreArgs(url) ==
  <<OrDefault(url.host, "localhost"), OrDefault(url.port, "5432"), OrDefault(url.db, "postgres")>>

NoDrill == [pc |-> "idle", file |-> {}, settled |-> FALSE]

BackupInit ==
  /\ day = 0 /\ dumps = {}
  /\ dumping = [pc |-> "idle", name |-> 0]
  /\ drill = NoDrill
  /\ scratch \in Urls
  /\ restored = {} /\ everDumped = FALSE /\ lastRun = "ok"

Named(name) == {d \in dumps : d.name = name}

run_start ==
  /\ dumping.pc = "idle" /\ Named(day) = {}
  /\ dumps' = dumps \cup {[name |-> day, mtime |-> day, content |-> "nothing"]}
  /\ dumping' = [pc |-> "dumping", name |-> day]
  /\ UNCHANGED <<day, drill, scratch, restored, everDumped, lastRun>>

\* pg_dump has written the table of contents; the data follow.
WriteContents ==
  /\ dumping.pc = "dumping" /\ \E d \in Named(dumping.name) : d.content = "nothing"
  /\ dumps' = (dumps \ Named(dumping.name)) \cup {[name |-> dumping.name, mtime |-> day, content |-> "listed"]}
  /\ UNCHANGED <<day, dumping, drill, scratch, restored, everDumped, lastRun>>

\* pg_dump exits with 0 and pruning follows.
run_dumped ==
  /\ dumping.pc = "dumping"
  /\ dumps' = (dumps \ Named(dumping.name)) \cup {[name |-> dumping.name, mtime |-> day, content |-> "complete"]}
  /\ dumping' = [dumping EXCEPT !.pc = "pruning"]
  /\ everDumped' = TRUE /\ lastRun' = "ok"
  /\ UNCHANGED <<day, drill, scratch, restored>>

AfterFailure_Prunes == "pruning"

AfterFailure == "idle"

\* pg_dump fails or the process dies: the partial file stays, nothing is pruned.
run_failed ==
  /\ dumping.pc = "dumping"
  /\ dumping' = [dumping EXCEPT !.pc = AfterFailure]
  /\ lastRun' = "failed"
  /\ UNCHANGED <<day, dumps, drill, scratch, restored, everDumped>>

TooOld(d) == d.mtime + RetainDays < day

\* A file that cannot be removed is left; a kill in between leaves several.
pruneOldBackups ==
  /\ dumping.pc = "pruning"
  /\ \E gone \in SUBSET {d \in dumps : TooOld(d)} : dumps' = dumps \ gone
  /\ dumping' = [dumping EXCEPT !.pc = "idle"]
  /\ UNCHANGED <<day, drill, scratch, restored, everDumped, lastRun>>

\* Sorted by name, newest first.
getLatestBackupFile == {d \in dumps : \A e \in dumps : e.name <= d.name}

\* pg_restore --list reads the table of contents and nothing after it.
Verifies(d) == d.content # "nothing"

\* No dump is under way and the last one did not fail.
Settled == dumping.pc # "dumping" /\ lastRun = "ok"

runRestoreDrill_verify ==
  /\ drill.pc = "idle" /\ dumps # {}
  /\ \E d \in getLatestBackupFile :
       Verifies(d) /\ drill' = [pc |-> "verified", file |-> {d.name}, settled |-> Settled]
  /\ UNCHANGED <<day, dumps, dumping, scratch, restored, everDumped, lastRun>>

\* Refused for the production database; a drill gives no override.  The file
\* may have been pruned since; then pg_restore fails.  Of a dump that ends
\* early it restores what is there, and fails.
runRestoreDrill_restore ==
  /\ drill.pc = "verified"
  /\ restored' = IF isProductionDatabase(scratch) THEN restored
                 ELSE restored \cup {[content |-> d.content, into |-> buildPgRestoreArgs(scratch), settled |-> drill.settled] :
                                       d \in {d \in dumps : d.name \in drill.file}}
  /\ drill' = NoDrill
  /\ UNCHANGED <<day, dumps, dumping, scratch, everDumped, lastRun>>

\* Pruning follows the dump at once: no day passes in between.
NextDay ==
  /\ day < LastDay /\ dumping.pc # "pruning"
  /\ day' = day + 1
  /\ UNCHANGED <<dumps, dumping, drill, scratch, restored, everDumped, lastRun>>

BackupNext ==
  \/ run_start \/ WriteContents \/ run_dumped \/ run_failed \/ pruneOldBackups
  \/ runRestoreDrill_verify \/ runRestoreDrill_restore \/ NextDay

BackupSpec == BackupInit /\ [][BackupNext]_backupVars

-----------------------------------------------------------------------------
(* Once a dump has completed there is always a complete dump to restore      *)
(* from, however many later dumps fail and however long they do: only a run   *)
(* that has just completed a dump prunes.                                     *)
RestorableBackupKept == everDumped => \E d \in dumps : d.content = "complete"

(* The check before a restore passes on a dump that ends early: a drill may   *)
(* restore half of it.  It does so only when it chose its file while a dump    *)
(* was under way or after one that failed; otherwise the newest file is a      *)
(* complete one, and whatever runs start, fail or prune before the restore,    *)
(* nothing but a complete dump is restored.                                    *)
HalfRestoresAreExcused == \A r \in restored : r.content = "complete" \/ ~ r.settled

(* No drill ever writes the database the dumps are taken from, whoever the     *)
(* scratch URL names as user, its default port written out or not, and with    *)
(* what pg_restore is given for what the URL omits: as long as production is   *)
(* not itself on the default host or the default database, for an omission is  *)
(* another name to the guard, as every second name of one host is.             *)
ProductionNeverRestored == \A r \in restored : r.into # buildPgRestoreArgs(Production)
=============================================================================
