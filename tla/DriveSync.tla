----------------------------- MODULE DriveSync -----------------------------
(***************************************************************************)
(* The Google Drive sync of one tenant: GoogleDriveSyncPipeline.run, its   *)
(* Celery task with one retry, the file tracker, and the cancel endpoint.  *)
(* A run lists the folder once, then takes credit notes, archives and      *)
(* invoices in turn under a budget of files; clients edit files meanwhile. *)
(* The worker runs one sync at a time (concurrency 1).                     *)
(* A version number stands for a file's md5Checksum, a key for the invoice *)
(* number, GSTIN and date duplicates are looked up by.  Rows that hold no  *)
(* lines yet (PENDING) are left out: nothing reads them.  The call in the  *)
(* model is the latest: triggering again reuses it, older job rows rest.   *)
(***************************************************************************)
EXTENDS Integers, FiniteSets

CONSTANTS
    File,         \* files of the folder
    CreditNote,   \* those classified as credit notes
    Archive,      \* those that are zip archives; all others are invoices
    Doc,          \* documents: a note, an invoice, an invoice in an archive
    Inside,       \* the documents of each file
    Key,          \* duplicate keys
    Identity,     \* the key a correct extraction finds in a document, if any
    NoKey,        \* no invoice number or no GSTIN was found
    Present,      \* files that are in the folder at first
    Rank,         \* position of a file in the listing
    MaxFiles,     \* files one run may process (max_files; none: more than there are)
    MaxRetries,   \* retries of the Celery task (1)
    MaxVersion,   \* bound of the model: versions of a file
    MaxEvents     \* bound of the model: edits, faults, misreadings, cancellations

ASSUME FilesAreClassified ==
    /\ CreditNote \subseteq File
    /\ Archive \subseteq File
    /\ CreditNote \cap Archive = {}
    /\ IsFiniteSet(File)
    /\ Inside \in [File -> SUBSET Doc]
    /\ \A f \in File \ Archive : Inside[f] # {}
    /\ Rank \in [File -> Nat]
    /\ \A f, g \in File : Rank[f] = Rank[g] => f = g

ASSUME KeysAreKeys == Identity \in [Doc -> Key \cup {NoKey}] /\ NoKey \notin Key

ASSUME BoundsAreNatural ==
    /\ MaxFiles \in Nat \ {0}
    /\ MaxRetries \in Nat
    /\ MaxVersion \in Nat \ {0}
    /\ MaxEvents \in Nat

VARIABLES
    drive,    \* version of each file in the folder, 0 when it is not there
    tracker,  \* GoogleDriveFileTracker: status and md5 of each file
    tasks,    \* invoice tasks with their lines, as the database has them
    call,     \* the Celery call: "idle", "queued" or "running"
    revoked,  \* it was revoked by the cancel endpoint
    attempt,  \* deliveries of the call
    job,      \* GoogleDriveSyncJob row of each delivery
    lost,     \* a delivery of the call ended without writing its job row
    stage,    \* what run() is at
    listed,   \* the versions of its listing
    budget,   \* _files_budget
    todo,     \* files of the stage it has not finished
    at,       \* how far it is with the first of them
    got,      \* version it downloaded
    left,     \* documents in it that are not extracted yet
    task,     \* the task whose lines it committed and has not judged
    touched,  \* files whose tracker row this run has written
    events    \* edits, faults, misreadings and cancellations so far

runVars == <<stage, listed, budget, todo, at, got, left, task, touched>>
jobVars == <<call, revoked, attempt, job, lost>>
vars    == <<drive, tracker, tasks, jobVars, runVars, events>>

Attempt == 1..(MaxRetries + 1)
Version == 0..MaxVersion

\* COMPLETED without a verdict, RECONCILED with one, whatever it says; FAILED
\* with the lines of its key or without lines.  Rows that look the same count
\* once, except that "again" tells a second verdict from the first.
TaskRow == [doc : Doc, version : Version, key : Key \cup {NoKey},
            state : {"COMPLETED", "RECONCILED", "DUPLICATE", "FAILED"}, again : BOOLEAN]

TypeOK ==
    /\ drive \in [File -> Version]
    /\ tracker \in [File -> [status : {"none", "processing", "completed", "failed"},
                             md5 : Version]]
    /\ tasks \in SUBSET TaskRow
    /\ call \in {"idle", "queued", "running"}
    /\ revoked \in BOOLEAN
    /\ attempt \in 0..(MaxRetries + 1)
    /\ job \in [Attempt -> {"none", "in_progress", "completed", "failed", "cancelled"}]
    /\ lost \in BOOLEAN
    /\ stage \in {"none", "listing", "credit", "archive", "select", "invoice", "closing"}
    /\ listed \in [File -> Version]
    /\ budget \in Nat
    /\ todo \in SUBSET File
    /\ at \in {"none", "marked", "fetched", "stored", "judged", "broken"}
    /\ got \in Version
    /\ left \in SUBSET Doc
    /\ task \in SUBSET TaskRow
    /\ touched \in SUBSET File
    /\ events \in 0..MaxEvents

Init ==
    /\ drive = [f \in File |-> IF f \in Present THEN 1 ELSE 0]
    /\ tracker = [f \in File |-> [status |-> "none", md5 |-> 0]]
    /\ tasks = {}
    /\ call = "idle"
    /\ revoked = FALSE
    /\ attempt = 0
    /\ job = [a \in Attempt |-> "none"]
    /\ lost = FALSE
    /\ stage = "none"
    /\ listed = [f \in File |-> 0]
    /\ budget = 0
    /\ todo = {}
    /\ at = "none"
    /\ got = 0
    /\ left = {}
    /\ task = {}
    /\ touched = {}
    /\ events = 0

\* Something the schedule of the runs does not bring about.
Event == events < MaxEvents /\ events' = events + 1

-----------------------------------------------------------------------------
(* The folder, the endpoints and the broker.                               *)

\* A client adds a file or replaces its content.
EditFile(f) ==
    /\ Event
    /\ drive[f] < MaxVersion
    /\ drive' = [drive EXCEPT ![f] = @ + 1]
    /\ UNCHANGED <<tracker, tasks, jobVars, runVars>>

\* POST .../trigger or the schedule of the beat.
Trigger ==
    /\ call = "idle"
    /\ call' = "queued"
    /\ revoked' = FALSE
    /\ attempt' = 0
    /\ job' = [a \in Attempt |-> "none"]
    /\ lost' = FALSE
    /\ UNCHANGED <<drive, tracker, tasks, runVars, events>>

\* The endpoint revokes the call and writes the first job row of its id that
\* the database returns: a retry has the id, and a row, of its own.
Cancel ==
    /\ Event
    /\ attempt > 0 \/ call = "queued"
    /\ revoked' = (call # "idle")
    /\ IF \E a \in Attempt : job[a] # "none"
       THEN \E a \in Attempt : job[a] # "none" /\ job' = [job EXCEPT ![a] = "cancelled"]
       ELSE UNCHANGED job
    /\ UNCHANGED <<drive, tracker, tasks, call, attempt, lost, runVars>>

DiscardRevoked ==
    /\ call = "queued"
    /\ revoked
    /\ call' = "idle"
    /\ revoked' = FALSE
    /\ UNCHANGED <<drive, tracker, tasks, attempt, job, lost, runVars, events>>

-----------------------------------------------------------------------------
(* A run.                                                                  *)

StartRun ==
    /\ call = "queued"
    /\ ~revoked
    /\ call' = "running"
    /\ attempt' = attempt + 1
    /\ job' = [job EXCEPT ![attempt + 1] = "in_progress"]
    /\ stage' = "listing"
    /\ budget' = MaxFiles
    /\ touched' = {}
    /\ UNCHANGED <<drive, tracker, tasks, revoked, lost, listed, todo, at, got, left, task, events>>

ListFolder ==
    /\ stage = "listing"
    /\ stage' = "credit"
    /\ listed' = drive
    /\ todo' = {f \in CreditNote : drive[f] > 0}
    /\ UNCHANGED <<drive, tracker, tasks, jobVars, budget, at, got, left, task, touched, events>>

\* Mutant: only what this run has done counts.
ProcessedInThisRun(f) ==
    tracker[f].status = "completed" /\ tracker[f].md5 = listed[f] /\ f \in touched

\* is_file_processed.  On a database error it answers False, but the session is
\* the run's own and nobody rolls it back, so the run's next statement raises:
\* that is Abort.
Processed(f) == tracker[f].status = "completed" /\ tracker[f].md5 = listed[f]

\* The tracker with its row of f written.
Recorded(f, s, m) == [tracker EXCEPT ![f] = [status |-> s, md5 |-> m]]

Turn(f) ==
    /\ f \in todo
    /\ \A g \in todo : Rank[f] <= Rank[g]

\* A file that is processed, or that the budget no longer covers, is skipped.
PassOver(f) ==
    /\ stage \in {"credit", "archive"}
    /\ at = "none"
    /\ Turn(f)
    /\ Processed(f) \/ budget = 0
    /\ todo' = todo \ {f}
    /\ UNCHANGED <<drive, tracker, tasks, jobVars, stage, listed, budget, at, got, left, task, touched, events>>

\* Mutant: archives are not charged.
MarkUncharged(f) ==
    /\ at = "none"
    /\ Turn(f)
    /\ stage = "invoice" \/ (~Processed(f) /\ budget > 0)
    /\ budget' = IF stage = "credit" THEN budget - 1 ELSE budget
    /\ tracker' = Recorded(f, "processing", listed[f])
    /\ at' = "marked"
    /\ touched' = touched \cup {f}
    /\ UNCHANGED <<drive, tasks, jobVars, stage, listed, todo, got, left, task, events>>

\* mark_as_processing: selected invoices are paid for already.
Mark(f) ==
    /\ at = "none"
    /\ Turn(f)
    /\ stage = "invoice" \/ (~Processed(f) /\ budget > 0)
    /\ budget' = IF stage = "invoice" THEN budget ELSE budget - 1
    /\ tracker' = Recorded(f, "processing", listed[f])
    /\ at' = "marked"
    /\ touched' = touched \cup {f}
    /\ UNCHANGED <<drive, tasks, jobVars, stage, listed, todo, got, left, task, events>>

\* The content is what the folder holds now, not what it held when listed.
Fetch(f) ==
    /\ at = "marked"
    /\ Turn(f)
    /\ at' = "fetched"
    /\ got' = drive[f]
    /\ left' = Inside[f]
    /\ UNCHANGED <<drive, tracker, tasks, jobVars, stage, listed, budget, todo, task, touched, events>>

\* Anything raised for a file ends in the except branch of its loop.
Raise ==
    /\ at' = "broken"
    /\ UNCHANGED <<drive, tracker, tasks, jobVars, stage, listed, budget, todo, got, left, task, touched>>

\* The download fails, a credit note has no number, a pending task cannot be
\* created.
RaiseForFile(f) ==
    /\ Event
    /\ at \in {"marked", "fetched"}
    /\ Turn(f)
    /\ left # {} \/ at = "marked"
    /\ Raise

\* Mutant: a failed file goes back into the loop.
FailFileAndRetry(f) ==
    /\ at = "broken"
    /\ Turn(f)
    /\ tracker' = Recorded(f, "failed", tracker[f].md5)
    /\ at' = "none"
    /\ got' = 0
    /\ left' = {}
    /\ UNCHANGED <<drive, tasks, jobVars, stage, listed, budget, todo, task, touched, events>>

\* mark_as_failed
FailFile(f) ==
    /\ at = "broken"
    /\ Turn(f)
    /\ tracker' = Recorded(f, "failed", tracker[f].md5)
    /\ todo' = todo \ {f}
    /\ at' = "none"
    /\ got' = 0
    /\ left' = {}
    /\ UNCHANGED <<drive, tasks, jobVars, stage, listed, budget, task, touched, events>>

\* An extraction finds the key of the document, or misses it.
Reads(d, k) ==
    \/ k = Identity[d] /\ UNCHANGED events
    \/ k = NoKey /\ k # Identity[d] /\ Event

Row(d, k, s) == [doc |-> d, version |-> got, key |-> k, state |-> s, again |-> FALSE]

With(t, s, a) ==
    [doc |-> t.doc, version |-> t.version, key |-> t.key, state |-> s, again |-> a]

\* ingest_credit_note_pdf: no duplicate check, no reconciliation.
IngestCreditNote(f, d, k) ==
    /\ Reads(d, k)
    /\ at = "fetched"
    /\ Turn(f)
    /\ f \in CreditNote
    /\ d \in left
    /\ tasks' = tasks \cup {Row(d, k, "COMPLETED")}
    /\ left' = left \ {d}
    /\ UNCHANGED <<drive, tracker, jobVars, stage, listed, budget, todo, at, got, task, touched>>

\* _finish_invoice commits the lines as COMPLETED before it judges them.  The
\* documents of an archive come in the order of the extracted directory: any.
StoreInvoice(f, d, k) ==
    /\ Reads(d, k)
    /\ at = "fetched"
    /\ Turn(f)
    /\ f \notin CreditNote
    /\ d \in left
    /\ task' = {Row(d, k, "COMPLETED")}
    /\ left' = left \ {d}
    /\ at' = "stored"
    /\ UNCHANGED <<drive, tracker, tasks, jobVars, stage, listed, budget, todo, got, touched>>

\* Extraction fails: a FAILED task, and _process_invoice returns None.  The
\* loop over an archive goes on, the loop over invoices raises.
InvoiceUnread(f, d) ==
    /\ Event
    /\ at = "fetched"
    /\ Turn(f)
    /\ f \notin CreditNote
    /\ d \in left
    /\ tasks' = tasks \cup {Row(d, NoKey, "FAILED")}
    /\ left' = left \ {d}
    /\ at' = IF f \in Archive THEN "fetched" ELSE "broken"
    /\ UNCHANGED <<drive, tracker, jobVars, stage, listed, budget, todo, got, task, touched>>

\* Mutant: the task itself is not excluded.
IsDuplicateOfAny(t) ==
    /\ t.key # NoKey
    /\ \E u \in tasks \cup task : u.key = t.key

\* Mutant: only tasks of other file names are looked at.
IsDuplicateOfOthers(t) ==
    /\ t.key # NoKey
    /\ \E u \in tasks : u.key = t.key /\ u.doc # t.doc

\* _check_duplicate: lines of any other task of the tenant with the same key,
\* whatever became of it.
IsDuplicate(t) ==
    /\ t.key # NoKey
    /\ \E u \in tasks : u.key = t.key

Judged(t) ==
    IF IsDuplicate(t) THEN With(t, "DUPLICATE", FALSE)
    ELSE With(t, "RECONCILED", With(t, "RECONCILED", FALSE) \in tasks)

Judge(f) ==
    /\ at = "stored"
    /\ Turn(f)
    /\ tasks' = tasks \cup {Judged(t) : t \in task}
    /\ task' = {}
    /\ at' = "judged"
    /\ UNCHANGED <<drive, tracker, jobVars, stage, listed, budget, todo, got, left, touched, events>>

Unjudged(t, written) == With(t, IF written THEN "FAILED" ELSE t.state, FALSE)

\* The database fails during the check or the verdict: the task becomes FAILED,
\* if that is still written, and keeps its lines.
JudgeFails(f, written) ==
    /\ Event
    /\ at = "stored"
    /\ Turn(f)
    /\ tasks' = tasks \cup {Unjudged(t, written) : t \in task}
    /\ task' = {}
    /\ at' = IF f \in Archive THEN "fetched" ELSE "broken"
    /\ UNCHANGED <<drive, tracker, jobVars, stage, listed, budget, todo, got, left, touched>>

\* _append_to_excel gets the dict _process_invoice returns where it expects a
\* task id: its query cannot bind a dict, and raises before the workbook is
\* opened.
AppendToExcel(f) ==
    /\ at = "judged"
    /\ Turn(f)
    /\ Raise
    /\ UNCHANGED events

\* Mutant: the checksum is taken when the file is done.
CompleteWithCurrentChecksum(f) ==
    /\ at = "fetched"
    /\ Turn(f)
    /\ left = {}
    /\ tracker' = Recorded(f, "completed", drive[f])
    /\ todo' = todo \ {f}
    /\ at' = "none"
    /\ got' = 0
    /\ UNCHANGED <<drive, tasks, jobVars, stage, listed, budget, left, task, touched, events>>

\* mark_as_completed: a credit note that was ingested, or an archive none of
\* whose documents reached AppendToExcel.
CompleteFile(f) ==
    /\ at = "fetched"
    /\ Turn(f)
    /\ left = {}
    /\ tracker' = Recorded(f, "completed", tracker[f].md5)
    /\ todo' = todo \ {f}
    /\ at' = "none"
    /\ got' = 0
    /\ UNCHANGED <<drive, tasks, jobVars, stage, listed, budget, left, task, touched, events>>

\* The loops over credit notes, archives and invoices, in this order.
EndStage ==
    /\ stage \in {"credit", "archive", "invoice"}
    /\ todo = {}
    /\ stage' = [credit |-> "archive", archive |-> "select", invoice |-> "closing"][stage]
    /\ todo' = IF stage = "credit" THEN {f \in Archive : listed[f] > 0} ELSE {}
    /\ UNCHANGED <<drive, tracker, tasks, jobVars, listed, budget, at, got, left, task, touched, events>>

Fresh == {f \in File \ (CreditNote \cup Archive) : listed[f] > 0 /\ ~Processed(f)}

\* The first new or changed invoices of the listing, as many as the budget has.
SelectInvoices ==
    LET chosen == {f \in Fresh : Cardinality({g \in Fresh : Rank[g] < Rank[f]}) < budget}
    IN  /\ stage = "select"
        /\ stage' = "invoice"
        /\ todo' = chosen
        /\ budget' = budget - Cardinality(chosen)
        /\ UNCHANGED <<drive, tracker, tasks, jobVars, listed, at, got, left, task, touched, events>>

\* The run's local state is gone; lines it committed stay, judged or not.
EndRun ==
    /\ tasks' = tasks \cup task
    /\ stage' = "none"
    /\ listed' = [f \in File |-> 0]
    /\ budget' = 0
    /\ todo' = {}
    /\ at' = "none"
    /\ got' = 0
    /\ left' = {}
    /\ task' = {}
    /\ touched' = {}

\* Mutant: an early return forgets the job row.
FinishWithoutRow ==
    /\ stage = "closing"
    /\ call' = "idle"
    /\ EndRun
    /\ UNCHANGED <<drive, tracker, revoked, attempt, job, lost, events>>

Finish ==
    /\ stage = "closing"
    /\ job' = [job EXCEPT ![attempt] = "completed"]
    /\ call' = "idle"
    /\ EndRun
    /\ UNCHANGED <<drive, tracker, revoked, attempt, lost, events>>

\* An exception outside the loops: the row is set to failed if the database
\* still takes it, and Celery retries the call.
Abort(written) ==
    /\ Event
    /\ call = "running"
    /\ job' = IF written THEN [job EXCEPT ![attempt] = "failed"] ELSE job
    /\ lost' = (lost \/ ~written)
    /\ call' = IF attempt <= MaxRetries THEN "queued" ELSE "idle"
    /\ EndRun
    /\ UNCHANGED <<drive, tracker, revoked, attempt>>

\* The worker's process dies, or is killed at the hard time limit.
CrashWorker ==
    /\ Event
    /\ call = "running"
    /\ lost' = TRUE
    /\ call' = "idle"
    /\ EndRun
    /\ UNCHANGED <<drive, tracker, revoked, attempt, job>>

\* SIGTERM of the cancel endpoint reaches the process.
Terminate ==
    /\ revoked
    /\ call = "running"
    /\ lost' = TRUE
    /\ call' = "idle"
    /\ EndRun
    /\ UNCHANGED <<drive, tracker, revoked, attempt, job, events>>

-----------------------------------------------------------------------------
FileStep(f) ==
    \/ PassOver(f)
    \/ Mark(f)
    \/ Fetch(f)
    \/ RaiseForFile(f)
    \/ FailFile(f)
    \/ \E d \in Inside[f] :
          \/ \E k \in {Identity[d], NoKey} : IngestCreditNote(f, d, k)
          \/ \E k \in {Identity[d], NoKey} : StoreInvoice(f, d, k)
          \/ InvoiceUnread(f, d)
    \/ Judge(f)
    \/ \E written \in BOOLEAN : JudgeFails(f, written)
    \/ AppendToExcel(f)
    \/ CompleteFile(f)

RunStep ==
    \/ StartRun
    \/ ListFolder
    \/ \E f \in File : FileStep(f)
    \/ EndStage
    \/ SelectInvoices
    \/ Finish

Failure ==
    \/ \E written \in BOOLEAN : Abort(written)
    \/ CrashWorker
    \/ Terminate

Next ==
    \/ \E f \in File : EditFile(f)
    \/ Trigger
    \/ Cancel
    \/ DiscardRevoked
    \/ RunStep
    \/ Failure

\* The worker goes on with what it runs and takes what is queued; the schedule
\* triggers again and again.  Nothing makes clients, reviewers or faults act.
Fairness ==
    /\ WF_vars(RunStep)
    /\ WF_vars(DiscardRevoked)
    /\ WF_vars(Trigger)

Spec == Init /\ [][Next]_vars /\ Fairness

-----------------------------------------------------------------------------
(* Properties.                                                             *)

\* A task was made from document d of f, at the checksum of the tracker or
\* later; it holds lines unless d came out of an archive.
WasRead(f, d) ==
    \E t \in tasks :
        /\ t.doc = d
        /\ t.version >= tracker[f].md5
        /\ f \in Archive \/ t.state # "FAILED"

\* What the tracker calls completed at a checksum was read from that content or
\* a later one, in every document of it.
CompletedFileWasRead ==
    \A f \in File : tracker[f].status = "completed" => \A d \in Inside[f] : WasRead(f, d)

\* Duplicate marking never takes the last task of a key, whatever crashed or
\* failed in between: the invoice that came first is not a duplicate.
OriginalIsKept ==
    \A t \in tasks : t.state = "DUPLICATE" =>
        \E u \in tasks : u.key = t.key /\ u.state # "DUPLICATE"

\* However often a file is read again, under whatever name its invoice comes,
\* at most one task of a key gets a verdict of its own.
OneVerdictPerKey ==
    \A t, u \in tasks :
        (t.state = "RECONCILED" /\ u.state = "RECONCILED" /\ t.key = u.key /\ t.key # NoKey)
            => t = u

\* A run never writes the tracker of more than max_files files, over the three
\* kinds of file together; what is over the cap stays untracked.
BudgetIsKept == Cardinality(touched) <= MaxFiles

\* A job row says in_progress only while its run is going on, unless a process
\* died on the way.
JobRowsAreSettled ==
    \A a \in Attempt : job[a] = "in_progress" => lost \/ (call = "running" /\ a = attempt)

\* The record of a processed file is revised only for a new checksum.
ProcessedFileIsLeftAlone ==
    [][\A f \in File :
          (tracker[f].status = "completed" /\ tracker'[f] # tracker[f])
              => tracker'[f].md5 # tracker[f].md5]_vars

\* A triggered sync comes to its end, retries included.
SyncEnds == call = "queued" ~> call = "idle"

\* google_drive_sync.py:70-73: a large folder is drained over several bounded
\* triggers; what is over the cap is picked up by the next run.
FolderIsDrained == \A f \in File : drive[f] > 0 ~> tracker[f].status # "none"
=============================================================================
