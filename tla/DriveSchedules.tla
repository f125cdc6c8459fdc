---------------------------- MODULE DriveSchedules ----------------------------
(***************************************************************************)
(* How a scheduled ingestion finds its month.  A tenant's roots are saved  *)
(* in the database and its schedules beside them in beat_schedules.json,   *)
(* one file for all tenants, which the set-up scripts write too; the beat  *)
(* reads the copy in its own image when it starts.  A task looks its root  *)
(* up in the database and the month's folder in Drive when it runs         *)
(* (celery_app.py, services/drive_path_resolver.py).                       *)
(*                                                                         *)
(* Months are numbered from a January.  What a run does with the files of  *)
(* its folder is DriveSync, SalesClose and ReviewGate.                     *)
(***************************************************************************)
EXTENDS Integers, Sequences, FiniteSets

CONSTANTS
    Tenants,
    NoRoot,          \* a root that is not configured
    Configs,         \* what a tenant may save: kind -> root
    Crons,           \* of "valid", "fields" (not five), "refused" by crontab
    FiscalStart,     \* fiscal_year_start_month of every tenant
    Pattern,         \* tenant -> the fields in month_folder_pattern
    Calendar,        \* bound: the months that pass
    MaxFolders,      \* bound: month folders
    MaxChanges       \* bound: saves, scripts and messages

Kinds == {"drive", "sales", "purchase", "gstr2b"}
Everything == -1     \* the folder of a sync without a month
Anytime == -1        \* no period was asked for, or none is passed on

ASSUME ScheduleConstants ==
    /\ FiscalStart \in 1..12 /\ Calendar \subseteq Nat
    /\ \A c \in Configs : c = [k \in Kinds |-> c[k]]
    /\ \A t \in Tenants : Pattern[t] \subseteq {"n", "month_name", "year"}
    /\ MaxChanges \in Nat /\ MaxFolders \in Nat

VARIABLES
    config,     \* GoogleDriveSyncConfig: tenant -> kind -> root
    registry,   \* beat_schedules.json: name -> entry
    readable,   \* FALSE: a write was cut off, json.load raises from then on
    script,     \* the set-up script between its read and its write: [name, entry, seen]
    beat,       \* beat_schedule; empty when the beat cannot start
    today,      \* date.today(), by the month
    folders,    \* the month folders in Drive: <<root, month>>
    queue,      \* messages to the worker
    run,        \* the task it runs
    filing,     \* what the latest run has ingested
    astray,     \* schedules that a fault or a script took from what was saved
    changes     \* counter for MaxChanges

scheduleVars ==
    <<config, registry, readable, script, beat, today, folders,
      queue, run, filing, astray, changes>>

fileVars == <<registry, readable, script, astray>>
taskVars == <<queue, run, filing>>
NoScript == [name |-> <<>>, entry |-> <<>>, seen |-> <<>>]
NoRun == [at |-> "idle", kind |-> "none", tenant |-> "none", root |-> NoRoot,
          asked |-> Anytime, month |-> Anytime, folder |-> Anytime,
          since |-> Anytime, again |-> FALSE]
NoFiling == [kind |-> "none"]

ScheduleInit ==
    /\ config = [t \in Tenants |-> [k \in Kinds |-> NoRoot]]
    /\ registry = <<>> /\ readable = TRUE /\ script = NoScript
    /\ beat = <<>>
    /\ today \in Calendar /\ \A m \in Calendar : today <= m
    /\ folders = {} /\ queue = <<>> /\ run = NoRun /\ filing = NoFiling
    /\ astray = {} /\ changes = 0

Change == changes < MaxChanges /\ changes' = changes + 1
-------------------------------------------------------------------------------
(* Schedules.                                                              *)

(* google_drive_sync_{id}, {kind}_ingestion_{slug}: one name per tenant    *)
(* and kind, as slugs are unique and taken to stay.                        *)
Name(t, k) == <<t, k>>
Entry(t, k, root, cron) ==
    [tenant |-> t, kind |-> k, root |-> IF k = "drive" THEN root ELSE NoRoot, cron |-> cron]

Wanted(roots) == {k \in Kinds : roots[k] # NoRoot}
Entries(t, roots, cron) ==
    [n \in {Name(t, k) : k \in Wanted(roots)} |-> Entry(t, n[2], roots[n[2]], cron)]

\* Mutant: the file is written with the entries of this tenant alone.
OwnEntries(t, roots, cron) == Entries(t, roots, cron)

(* An entry is replaced or added; none is removed.                         *)
Over(entries, old) ==
    [n \in DOMAIN entries \cup DOMAIN old |-> IF n \in DOMAIN entries THEN entries[n] ELSE old[n]]
Merged(t, roots, cron) == Over(Entries(t, roots, cron), registry)

(* POST /api/google-drive-sync/config.  The row is committed, then the     *)
(* file is read and written; a file that cannot be read is a warning in    *)
(* the log.  The expression is not looked at.                              *)
SaveConfig(t, roots, cron) ==
    /\ Change
    /\ config' = [config EXCEPT ![t] = roots]
    /\ IF readable
       THEN /\ registry' = Merged(t, roots, cron)
            /\ astray' = astray \ ({t} \X Wanted(roots))
       ELSE /\ registry' = registry
            /\ astray' = astray \cup ({t} \X Wanted(roots))
    /\ UNCHANGED <<readable, script, beat, today, folders, taskVars>>

(* The web process dies after the commit, before or in the middle of the   *)
(* write, which empties the file first.                                    *)
Scheduled(entries) == {<<entries[n].tenant, entries[n].kind>> : n \in DOMAIN entries}
CutOffSave(t, roots) ==
    /\ Change
    /\ config' = [config EXCEPT ![t] = roots]
    /\ \/ /\ astray' = astray \cup ({t} \X Wanted(roots))
          /\ UNCHANGED <<registry, readable>>
       \/ /\ registry' = <<>> /\ readable' = FALSE
          /\ astray' = astray \cup ({t} \X Wanted(roots)) \cup Scheduled(registry)
    /\ UNCHANGED <<script, beat, today, folders, taskVars>>

(* The scripts read the file, add an entry and write it back, in a process *)
(* of their own.  They want five fields in the expression.                 *)
LoadRegistry(t, k, root, cron) ==
    /\ Change
    /\ script = NoScript /\ readable /\ cron # "fields"
    /\ script' = [name |-> Name(t, k), entry |-> Entry(t, k, root, cron), seen |-> registry]
    /\ UNCHANGED <<config, registry, readable, beat, today, folders,
                   taskVars, astray>>

SetupDriveSync(t, root, cron) == LoadRegistry(t, "drive", root, cron)
SetupIngestion(t, k, cron) == k \in {"sales", "purchase"} /\ LoadRegistry(t, k, NoRoot, cron)
SetupGstr2b(t, cron) == LoadRegistry(t, "gstr2b", NoRoot, cron)

WriteRegistry ==
    LET written == Over([n \in {script.name} |-> script.entry], script.seen)
    IN  /\ script # NoScript
        /\ registry' = written /\ readable' = TRUE
        /\ astray' = astray \cup
               {<<registry[n].tenant, registry[n].kind>> :
                   n \in {e \in DOMAIN registry : e \in DOMAIN written => written[e] # registry[e]}}
        /\ script' = NoScript
        /\ UNCHANGED <<config, beat, today, folders, taskVars, changes>>

(* _load_beat_schedules: an unreadable file has no schedules, an entry     *)
(* without five fields is skipped, and one whose fields crontab refuses    *)
(* lets nothing start.                                                     *)
Refused(entries) == \E n \in DOMAIN entries : entries[n].cron = "refused"
Loaded(entries) ==
    LET valid == {n \in DOMAIN entries : entries[n].cron = "valid"}
    IN  [n \in valid |-> entries[n]]

(* The beat mounts no data directory: a build copies the file into its     *)
(* image, and every start reads that copy.                                 *)
DeployBeat ==
    /\ beat' = IF readable /\ ~Refused(registry) THEN Loaded(registry) ELSE <<>>
    /\ UNCHANGED <<config, fileVars, today, folders, taskVars, changes>>
-------------------------------------------------------------------------------
(* Runs.                                                                   *)

SendToWorker(t, k, root, period) ==
    /\ Change
    /\ queue' = Append(queue, [tenant |-> t, kind |-> k, root |-> root, asked |-> period])
    /\ UNCHANGED <<config, fileVars, beat, today, folders, run, filing>>

FireSchedule(n) ==
    n \in DOMAIN beat /\ SendToWorker(beat[n].tenant, beat[n].kind, beat[n].root, Anytime)

TriggerSales(t, period) ==
    config[t]["sales"] # NoRoot /\ SendToWorker(t, "sales", NoRoot, period)
TriggerPurchase(t, period) ==
    config[t]["purchase"] # NoRoot /\ SendToWorker(t, "purchase", NoRoot, period)
TriggerGstr2b(t) ==
    config[t]["gstr2b"] # NoRoot /\ SendToWorker(t, "gstr2b", NoRoot, Anytime)

RunOnly == UNCHANGED <<config, fileVars, beat, today, folders, changes>>
Target(asked) == IF asked # Anytime THEN asked ELSE today

(* A sync of one folder needs no month; a sales or purchase run takes its  *)
(* month as it begins, before it asks the database for its root.           *)
TakeMessage ==
    /\ run.at = "idle" /\ queue # <<>>
    /\ LET msg == Head(queue)
       IN  run' = [at |-> IF msg.kind = "drive" THEN "found" ELSE "begun",
                   kind |-> msg.kind, tenant |-> msg.tenant, root |-> msg.root,
                   asked |-> msg.asked, month |-> Target(msg.asked),
                   folder |-> Everything, since |-> today, again |-> FALSE]
    /\ queue' = Tail(queue)
    /\ UNCHANGED filing /\ RunOnly

(* _load_drive_path_config; without a root the run is SKIPPED.             *)
ReadPathConfig ==
    /\ run.at = "begun"
    /\ run' = IF config[run.tenant][run.kind] = NoRoot THEN NoRun
              ELSE [run EXCEPT !.at = "configured", !.root = config[run.tenant][run.kind]]
    /\ UNCHANGED <<queue, filing>> /\ RunOnly

(* fiscal_month_index, expected_month_folder_name.                         *)
FiscalIndex(m) == (((m % 12) + 1 - FiscalStart) % 12) + 1
FolderName(t, m) ==
    [field \in Pattern[t] |->
        CASE field = "n" -> FiscalIndex(m)
          [] field = "month_name" -> m % 12
          [] field = "year" -> m \div 12]

(* resolve_month_folder_id: the first folder of that name under the root;  *)
(* a GSTR-2B run looks for today's month.                                  *)
Matching(month) ==
    {m \in Calendar : <<run.root, m>> \in folders
                      /\ FolderName(run.tenant, m) = FolderName(run.tenant, month)}
ResolveMonthFolder ==
    LET month == IF run.kind = "gstr2b" THEN today ELSE run.month
    IN  /\ run.at = "configured"
        /\ \/ \E m \in Matching(month) :
                 run' = [run EXCEPT !.at = "found", !.month = month, !.folder = m]
           \/ Matching(month) = {} /\ run' = NoRun
        /\ UNCHANGED <<queue, filing>> /\ RunOnly

(* The period that the review of the run's files gets.                     *)

\* Mutant: every review is filed under the month of the moment.
PeriodNow == IF run.kind \in {"sales", "gstr2b"} THEN today ELSE Anytime

FilingPeriod ==
    CASE run.kind = "sales" -> run.month
      [] run.kind = "gstr2b" -> today
      [] OTHER -> Anytime

Ingest ==
    /\ run.at = "found"
    /\ filing' = [kind |-> run.kind, tenant |-> run.tenant, asked |-> run.asked, since |-> run.since,
                  until |-> today, folder |-> run.folder, period |-> FilingPeriod]
    /\ run' = NoRun
    /\ UNCHANGED queue /\ RunOnly

(* An exception: once more from the start with the same arguments.  The    *)
(* worker dies, or it was the second attempt: nothing more.                *)
RetryIngestion ==
    /\ run.at # "idle" /\ ~run.again
    /\ run' = [run EXCEPT !.at = IF run.kind = "drive" THEN "found" ELSE "begun",
                          !.month = Target(run.asked), !.folder = Everything, !.again = TRUE]
    /\ UNCHANGED <<queue, filing>> /\ RunOnly

LoseRun ==
    /\ run.at # "idle"
    /\ run' = NoRun
    /\ UNCHANGED <<queue, filing>> /\ RunOnly

(* Time passes; clients make folders when they like.                       *)
NextMonth ==
    /\ \E m \in Calendar : m > today /\ (\A n \in Calendar : n > today => m <= n) /\ today' = m
    /\ UNCHANGED <<config, fileVars, beat, folders, taskVars, changes>>

CreateFolder(root, m) ==
    /\ <<root, m>> \notin folders /\ Cardinality(folders) < MaxFolders
    /\ folders' = folders \cup {<<root, m>>}
    /\ UNCHANGED <<config, fileVars, beat, today, taskVars, changes>>

Roots == UNION {{c[k] : k \in Kinds} : c \in Configs}
Asked == Calendar \cup {Anytime}

ScheduleNext ==
    \/ \E t \in Tenants, roots \in Configs :
          \/ \E cron \in Crons : SaveConfig(t, roots, cron)
          \/ CutOffSave(t, roots)
    \/ \E t \in Tenants, cron \in Crons :
          \/ \E root \in Roots \ {NoRoot} : SetupDriveSync(t, root, cron)
          \/ \E k \in Kinds : SetupIngestion(t, k, cron)
          \/ SetupGstr2b(t, cron)
    \/ WriteRegistry
    \/ DeployBeat
    \/ \E n \in DOMAIN beat : FireSchedule(n)
    \/ \E t \in Tenants :
          \/ \E p \in Asked : TriggerSales(t, p) \/ TriggerPurchase(t, p)
          \/ TriggerGstr2b(t)
    \/ TakeMessage
    \/ ReadPathConfig
    \/ ResolveMonthFolder
    \/ Ingest
    \/ RetryIngestion
    \/ LoseRun
    \/ NextMonth
    \/ \E root \in Roots \ {NoRoot}, m \in Calendar : CreateFolder(root, m)

ScheduleSpec == ScheduleInit /\ [][ScheduleNext]_scheduleVars
-------------------------------------------------------------------------------
(* Properties.                                                             *)

(* "Also writes Celery Beat schedule entries": a root that a tenant has    *)
(* saved has an entry, in a file that saves of all tenants and the scripts *)
(* write in turn and that no transaction ties to the database; a sync of   *)
(* one folder is of the folder that was saved.  What can undo it: a write  *)
(* that was cut off, and a script that wrote back an older file.           *)
ConfigIsScheduled ==
    \A t \in Tenants, k \in Kinds :
        config[t][k] # NoRoot /\ <<t, k>> \notin astray
        => /\ Name(t, k) \in DOMAIN registry
           /\ k = "drive" => registry[Name(t, k)].root = config[t][k]

(* The review of a sales run is of the period whose folder it read, and    *)
(* of the month that was asked for, although the month may end while it    *)
(* runs or between its attempts.  A GSTR-2B run asks for the date twice,   *)
(* and its review can be of a later month than its folder, but only when   *)
(* the month has ended since.  All this as long as the names tell the      *)
(* months apart.                                                           *)
FiledUnderItsMonth ==
    LET f == filing
    IN  /\ f.kind \notin {"none", "drive"}
        /\ "year" \in Pattern[f.tenant] /\ {"n", "month_name"} \cap Pattern[f.tenant] # {}
        => /\ IF f.asked # Anytime THEN f.folder = f.asked
              ELSE f.since <= f.folder /\ f.folder <= f.until
           /\ f.kind = "sales" => f.period = f.folder
           /\ f.kind = "gstr2b" => f.folder <= f.period /\ f.period <= f.until
===============================================================================
