# AuditOS: TLA+ models of the backend

AuditOS takes batches of Indian GST invoices (uploads, Google Drive folders),
extracts their line items with OCR and language models, gives each document a
verdict by financial reconciliation, lets accountants review, and pushes what is
approved to TallyPrime or chases clients and vendors about what is missing.

This directory models two kinds of things in `src/backend`. One is what depends on
the order of events: processes, threads and coroutines that share a PostgreSQL
database, files and locks, a message broker that may lose or repeat work, a model
provider that may be down, an external accounting system, people who act at any
moment. The other is what depends on arithmetic and grouping that several modules
must agree on: from the model's answer to the rows of an invoice, from the client's
sheet to the GSTR-1, from the books to the matched 2B statement. TLC checks small
instances, TLAPS proves the main results for every value of the constants.

    tlc -workers 2 -config BatchPipeline.cfg BatchPipeline
    tlc -workers 2 -config TallyPush.cfg TallyPush
    tlc -workers 2 -config ExtractionLanes.cfg ExtractionLanes
    tlc -workers 2 -config GapTriggers.cfg MCGapTriggers
    tlc -workers 2 -config DriveSync.cfg MCDriveSync
    tlc -workers 2 -config MCBackOffice.cfg MCBackOffice
    tlc -workers 2 -config DomesticTaxed.cfg MCBackOffice      (a violation; section 4)
    tlapm BatchPipelineProofs.tla      (likewise TallyPushProofs, GapTriggersProofs,
                                        DriveSyncProofs, ReviewGateProofs,
                                        WorkerProofs, DriveFolderProofs, BooksProofs)

`PROJECT.json` lists the components, runs, theorems, findings and hazards, maps
every definition to the lines it models, and gives for every property a mutated
definition (an operator marked `Mutant` in its module) that breaks it.

## 1. The system

### Processes

`docker-compose.prod.yml` runs one uvicorn process (FastAPI, one event loop),
Celery prefork workers (a worker process takes one message after another), a
Celery beat, Redis as broker and cache, and PostgreSQL (READ COMMITTED).
Consequences the models use:

- an `async def` endpoint without an `await` is atomic within the web process;
- a coroutine of `process_batch` is atomic between two awaits;
- the web process and the workers interleave at every commit;
- the Celery service has one worker process (`CELERY_WORKER_CONCURRENCY`, default
  1), so two Drive syncs do not run at once;
- Celery acknowledges a message before the task runs: what a crashed worker was
  running is lost, what is still queued is not;
- `process_pdf` runs in threads of a worker (`asyncio.to_thread`), so the circuit
  breaker of a provider is shared by threads that interleave at every request;
- the beat has no data volume in production: it reads the copy of
  `beat_schedules.json` that was built into its image.

### Inventory

| component | state | operations | hard behaviour | what makes it correct |
|---|---|---|---|---|
| Batch upload (`main.upload_batch`, `task_queue`, `credit_note_ingest`) | `BatchJob`, `InvoiceTask` | create, stage, ingest credit note, commit, dispatch, fail | failure between commits; publish that fails after the broker took it | a failed batch never runs; every row has an owner |
| Batch processing (`async_tasks.process_batch`, `celery_app`) | row status, verdict, line items, counters | load, extract, store, count, fail, finish, retry | interleaved coroutines, retry over completed rows, crash | completed means settled and frozen; counters exact; a queued batch settles |
| Review sign-off (`accept_correction`, `update_item`) | `recon_status` | accept, edit | races with the worker | a decision is kept |
| Progress socket (`websocket_endpoint`) | none | poll | two queries, no snapshot | a COMPLETED message counts everything |
| Tally push (`push_batch_to_tally`, `tally_connector`) | `TallyPushLog`, Tally's books | select, check, send, log | lost reply, crash before the log, re-extraction | the log accounts for every voucher; only approved items |
| Extraction throttling (`RpmGuard`, lane semaphores, cache) | tokens, slots, waiters | acquire, sleep, release | cancellation, module globals over several event loops | slots conserved, rate bounded, no starvation |
| GSTR-2B gap triggers (`gstr2b_trigger_engine`) | `Gstr2bGapTrigger`, policies | sync, approve, reject, run | order of sync, review, policy, crash in a run | contact is vetted, monthly, and about open gaps |
| Drive sync (`google_drive_sync`, tracker) | `GoogleDriveSyncJob`, tracker, tasks | trigger, list, select, fetch, extract, store, judge, append, mark, finish, cancel | failure between commits, retry, cancel, stale listing, budget | completed means read; an original for every duplicate, one verdict per invoice; the cap holds; a folder is drained |
| Drive schedules (`save_drive_sync_config`, `scripts/setup_*`, `_load_beat_schedules`, ingestion tasks, `drive_path_resolver`) | `GoogleDriveSyncConfig`, `beat_schedules.json`, the beat's schedule | save, set up, deploy, fire, trigger, resolve, file | one file rewritten by everybody, cut-off writes, month ends between two reads of the clock | what is configured is scheduled; a review is of the month whose folder was read |
| Drive walk (`drive_classifier`, `list_files`) | the stack of a walk | list, classify, enter, ignore | items moved between two requests | every file that stays is found once, with the right type |
| Extraction core (`process_pdf`, `core/reconciliation`, `tally_connector`) | one invoice in memory, then its rows | extract, override by the table, build rows, fill gaps, classify, reconcile, store, book | many corrections in an order, rounding, export detection, sums of zero | the printed figures win; rows add up; vouchers balance |
| Model calls (`llm_call`, `extractor`) | circuit breaker | ask, send, repeat, record | threads past the breaker when it opens, late answers | an outage is not paid for again and again |
| Excel workbook (`excel_lockfile`, `excel_sync`) | lock file, workbook | acquire, load, append, save, release, clean up | a lock left behind, a cut-off save, a process that dies | rows reported as written are kept, calls return |
| Sheet-first ingestion, sales reconciliation, GSTR-1 (`sheet_first_ingestion`, `client_sheet_parser`, `sales_reconciliation`, `gstr1_filing`, `gstr1_generator`) | stored lines, reviews | parse, store, reconcile, exclude, split, build sections | lines grouped under different keys by each step; an ingestion that stops half-way | a sheet is filed once and completely, sections carry the total, a clean review leaves nothing out |
| Period / purchase reviews (`period_review`, `purchase_review`, `gstr2b_ingestion_task`) | review rows | generate, approve, reject | check and insert apart, retries, people in between | the schedule piles nothing up and shows no older books |
| GSTR-2B reconciler (`gstr2b_reconciler`) | pools of one call | parse, aggregate, match exactly, match by likeness | order of the books, repeated records | a 2B record proves one invoice, nothing is lost between the lists |
| duplicate scores, resolvers and mappers, validation packs, observability, auth, storage, frontend | none or append-only | | | not state machines; see section 7 |

`PROJECT.json` ("components") has the same list by file, with what each model
leaves out; "hazards" lists where this code can go wrong in ways a test would
hardly reach, each at its line, with the properties that watch it.

### Interactions

Upload → broker → worker (message with row ids) → database ← socket, reviewer,
push, export. The worker's verdict (`recon_status`) is the gate of the push and
of the exports; the export of a reconciliation is what syncs the gap triggers.
The Drive sync writes the same rows by another path, and the beat starts syncs
and review generation beside the endpoints. A saved configuration reaches the
beat through a file, the tasks through the database. The stored sales lines and
the client's sheet meet in the period review, whose filings are what is handed to
the GST portal; the stored purchase lines meet the 2B statement in the
reconciliation, whose gaps become triggers. The engine's verdict is computed twice
for an invoice: inside `process_pdf`, where it corrects the sums, and by the task
that stores the rows.

## 2. Modules

| module | models | extends |
|---|---|---|
| `BatchPipeline` | one batch from upload to settled, with reviewer, socket, crashes | |
| `VoucherLedger` | abstract specification: what the push log promises | |
| `TallyPush` | the push endpoint beside the batch pipeline | `BatchPipeline`, instantiates `VoucherLedger` |
| `ExtractionLanes` | guard and lanes of a worker process over several batches | |
| `GapTriggers` | the gap triggers of one registration | |
| `MCGapTriggers` | two periods and three gaps for TLC | `GapTriggers` |
| `DriveSync` | the Drive syncs of one tenant, with tracker, cancel, retry and crash | |
| `MCDriveSync` | a folder of three files for TLC | `DriveSync` |
| `Gstr2bMatch` | the books against a 2B statement | |
| `Selection` | list comprehensions: the elements of a list at some of its positions | |
| `SalesClose` | client sheet, stored sales, period review, GSTR-1 | `Selection` |
| `ReviewGate` | generation and decision of both kinds of reviews | |
| `Workbook` | lock file and workbook, several writers | |
| `InvoicePipeline` | one invoice from the model's answer to its voucher | `Selection` |
| `ModelCalls` | threads and their requests under a circuit breaker | |
| `DriveWalk` | the walk over a month's folder while items are moved | |
| `DriveSchedules` | configuration, schedule file, beat, month folders, periods | |
| `MCBackOffice` | inputs of the last eight for TLC, in one run | those eight |
| `BatchPipelineProofs`, `TallyPushProofs`, `GapTriggersProofs`, `DriveSyncProofs`, `ReviewGateProofs` | the proofs | their module |
| `WorkerProofs` | the proofs about what a worker process shares | `ExtractionLanes`, `Workbook`, `ModelCalls` |
| `DriveFolderProofs` | the proofs about folders | `DriveSchedules`, `DriveWalk` |
| `BooksProofs` | the proofs about sums and lists | `Gstr2bMatch`, `SalesClose`, `InvoicePipeline` |

### BatchPipeline

One batch; `Task` are the files of the upload that may become rows.

- `batch`, `row`, `recon` are the committed columns, `copies[t]` says how many
  times the line items of `t` are stored (nothing deletes them), `staged` is the
  request's uncommitted session, `dispatched` is `tasks_to_process`.
- `run[r]`, `pc[r]`, `completed[r]`, `failed[r]` are the two possible runners of
  a batch (the Celery task, the BackgroundTask) and their coroutines; `retries`
  is the message's counter; `poll` and `message` are the progress socket.
- One action per commit. `StoreResult` writes line items, verdict and COMPLETED
  together, as the code's single commit does. From that commit to the counter
  the coroutine does not suspend, so `Quiet` keeps the other coroutines of the
  same call (and, for the local runner, every handler) out; the other process
  still interleaves.
- `Dispatch({"celery","local"})` is the publish that raises after the broker took
  the message. `AbortRun` is an exception that escapes the coroutines (a commit
  that fails in a handler): `self.retry` until `max_retries`, after `asyncio.run` has
  cancelled the other coroutines. In the web process nothing cancels them:
  `LoseCoroutine` ends the call, which will not read the rows back, and the other
  coroutines go on. `CrashWorker` and `CrashWeb` lose what was running.
- Reconciliation is an input: a verdict out of `Verdict`.

### TallyPush

Composes the endpoint with all of the pipeline except the read-only socket. An
item is the k-th stored copy of a file's lines, because re-extraction gives the
line items new ids. `SendVoucher(i, booked, answered)` separates what Tally does
from what the connector hears. The endpoint does not await, so the web process
does nothing else during a call (`WebTurn`), while the worker goes on. `DropCall`
is the end of a call by exception or crash. `MaxPushes` bounds the calls.

`VoucherLedger` is the abstract promise: attempts may book a voucher until the
item is recorded; it is recorded only when booked; then never again.
`ImplementsLedger` is the refinement with `booked <- vouchers` and
`recorded <- {i : pushed[i] > 0}`.

### ExtractionLanes

One worker process that takes `MaxLoops` batches one after another. Each is an
`asyncio.run`, hence a new event loop; the guard and the semaphores are module
globals. `bound[p]` is the loop a primitive is bound to: asyncio binds it when a
coroutine first has to wait, and a later loop's waiter gets a `RuntimeError`
(`pc = "refused"`; `process_single_task` turns it into a FAILED row). Time is in
ticks: a token is an age, forgotten by the guard when it reaches `Window`.
`AbortBatch` is the cancellation of a whole batch. One guard stands for the
model family of the batch; a cache hit may happen or not.

### GapTriggers

All triggers of one registration. `Sync` is the export of a reconciliation: it
shows some gaps of its own period and, by the code, resolves every other live
trigger of the registration; `driveAnswers` is the Drive check without which no
client request is a candidate. A new gap that several lines of the reconciliation
show (`repeated`) makes the commit fail on the table's unique identity (`Commits`).
`ReconcileOnly` is a reconciliation that changes no trigger: an export whose sync
failed, which the endpoint only logs, an export without a registration, or
`/api/reconcile/from-batch`. `RunDue(delivered, confirmed)` is a whole run:
messages reach the addressees in `delivered`, only `confirmed` are recorded
(`send_fn` raised late, or the process died before the one commit).
`lastTriggered` is an age up to `Month`, `Month` also standing for null. The
`open`, `overlooked`, `vetted`, `outbox`, `sinceRecorded` variables are history for
the properties and guard nothing; `overlooked` are the gaps that a `ReconcileOnly`
has closed since the last sync, and `ClosedGapsRest` says that a live trigger is about
an open gap or one of these.

### DriveSync

The syncs of one tenant, one after another, without a bound on how many: the call
of the model is the latest one, a new trigger reuses it, and what older calls left
in the tracker and the task table stays.

- `drive[f]` is the version of a file in the folder (a version stands for
  `md5Checksum`, 0 for absent), `listed` what the run's listing saw, `got` what it
  downloaded. Clients edit files at any time, also between the two.
- `tracker` is `GoogleDriveFileTracker`, `job[a]` the `GoogleDriveSyncJob` row of
  delivery `a` of the call (a retry keeps the Celery id and writes a row of its
  own; `cancel` writes the first row of that id).
- `stage`, `todo`, `at`, `left`, `task` are `run()`'s place: the loops over credit
  notes, archives and invoices in the order of the listing, how far it is with the
  first file of `todo`, which documents of it are not extracted, and the task it
  has committed as COMPLETED but not judged.
- `tasks` are the committed rows with their lines. A row keeps which document it
  came from, at which version, and the key duplicates are looked up by; an
  extraction may miss that key (`NoKey`). RECONCILED stands for any verdict of the
  engine; `again` tells a second such row from the first.
- Every commit is an action, so `Abort` (an exception outside the loops, retried by
  Celery), `CrashWorker` (death or the one-hour limit) and `Terminate` (SIGTERM of
  the cancel endpoint) fall between any two. `JudgeFails` is a database error
  between the lines and the verdict: the row becomes FAILED and keeps its lines.
- `AppendToExcel` always raises: `_process_invoice` returns a dict where a task id
  is expected. A completed file is therefore a credit note, or an archive none of
  whose invoices was read; the finding of section 4 follows.

`OriginalIsKept` says no more than that: the original may be BLOCKED or FAILED, and
exports leave BLOCKED rows and duplicates out; which lines an export shows is not
a claim of this module. Files of unknown type, the client sheet and the period
review at the end of a run are left out, and so is a lookup in the tracker that
fails. `is_file_processed` answers False then, but it asks through the run's own
session, which nobody rolls back: the next statement of the run raises, which is
`Abort`.

### Gstr2bMatch

`reconcile` on one pair of books and statement out of `Books` and `Statements`.

- A GSTIN or number is a sequence of characters, so that the two normalisations
  (drop what is not alphanumeric, compare without leading zeros) and the minimal
  overlap of a plausible number are modelled by what they do.
- `total` has an aggregated invoice at its first line; `todo`, `used`, `remaining`
  and `claim` are the two passes. The exact pass takes the invoices in the order of
  the books, and of equal keys the first record; the fuzzy pass takes the first
  record of the remaining list that fits.
- `ReconcileRequest`, `ReconcileBatch` and `ReconcileReview` are the three callers.
  `Annotate` adds the Drive check's column and with it who is asked about a row; the
  triggers that follow from it are `GapTriggers`.

### SalesClose

A tenant's month: `stored` are the sales lines, `sheet` the client's rows.

- `SheetFirst` plans the groups, `StoreDocument` and `StoreGap` commit them one by
  one, `AbortIngestion` stops in between and leaves what was committed; `whole` is
  true only when exactly one full ingestion made `stored`.
- `GenerateReview` is one step, since the endpoint does not await (`ReviewGate` has
  the steps of a scheduled generation): it reconciles
  document by document, leaves out and splits, and builds every filing.
- The operators it files with (`Section`, `B2cs`, `Nil`, `Hsn`, the sheets) are pure; the
  properties compare them with each other and with the totals.
- `SectionsCarryTheTotal` has two parts: `SectionsAddUp` compares the sections with
  the total of the same filing, `WorkbookAgrees` the sheets of the workbook with them.
- A document number is a prefix, a serial number and perhaps blanks around it, since
  some of the steps strip it and some do not. Amounts are integers, and stored ones may
  be negative: `OsRow` compares their magnitudes, `TotalTaxable` adds them up with
  their signs. `CleanReviewIsComplete` therefore speaks of magnitudes, and of sums only
  where every line of the period counts as it is filed (`CountsAsFiled`); `CloseConstants`
  says of which fields a line, a row and a PDF consist.
- What a comprehension keeps of a list is `Kept(s, S)` of `Selection`, a fold over the
  positions `S`, rather than `SelectSeq`, which is recursive and could not be
  reasoned about.

### ReviewGate

`reviews` holds the rows of both tables in the order of `created_at`. People's
endpoints are one step each. The worker is one process: `SkipPending`/`FindDecided`
(the check), `ReadBooks` and `InsertReview` are steps of its own between which
people act. `BeginGstr2b` takes a sequence of files, of which some cannot be
downloaded, name no GSTIN or are malformed (the last ends the attempt);
`FailSales`, `FailGstr2b` and `KillRun` are the retry and the death.
`seen` says which state of the books a review shows.

### Workbook

Writers append by loading the whole file and saving a copy. `lock` remembers who
created the lock file, which the file itself does not. A writer may raise after the
load (`Leak`: nothing releases the lock), a save may be cut off or fail, a process
may die anywhere. `CleanUp` removes leaked locks: in the code a person does that,
since nothing calls `cleanup_stale_locks`. `ExcelAtomicWrite.atomic_write` has no
caller either, which is why a cut-off save loses the file.

### InvoicePipeline

One invoice; amounts in paise, so that rounding is integer rounding.

- `Extract` is the model's consolidated answer corrected by the engine; `ApplyTable`
  the override by the printed GST table; then either `ClassifyTemplate` (rows from
  the sections of the template, taxes shared out) or `CleanUpRows`, `FillGap` or
  `NoGap`, and `VerifyMath`. `ReadScan` and `CannotOpen` are the two other ways in.
- `StoreRows` is the task's verdict on the rows, `Validate` its validation packs as
  far as they ask the sums, `PushVoucher` the legs of a row's voucher.
- A `Paper` is what the patterns find in the PDF's text. Lines with a category, a
  registration and a place of supply are members of small sets.

### ModelCalls

`Documents` are threads that make three calls each. Between `Allow` and the answer
of `Send` other threads close, open or half-open the breaker; `wasted` counts the
requests sent while it is open, since it was last opened. Time is one bit: whether
the cooldown has passed.

### DriveWalk

`stack` is the walk's recursion, each frame with the listing it still has to go
through: a listing is one request, and `Move` changes the tree between two of them.
Drive itself is external: a tree gives each item its parent, and `UpFrom(tree, x)`,
the item with the folders over it, is the least set that holds the item and the
parents of what it holds (no recursion, so that it can be proved about). `IsTree`
says that nothing lies below itself; there may be folders outside the month's, and
items may be moved there and back.

### DriveSchedules

Months are numbered, `today` passes over `Calendar`, folders appear at any time.
`SaveConfig` commits the row and rewrites the file in one step of the web process;
`CutOffSave` dies between or within the two; a script's read and write are two
steps. `astray` names the schedules that a cut-off write or a script's older copy
has taken from what was saved, so that `ConfigIsScheduled` says that nothing else
does. Entries are named by tenant and kind: the code names them by the slug, which
the model takes to stay; a tenant that is renamed leaves its entries under the old
slug. `Pattern` is which fields `month_folder_pattern` has.

### MCBackOffice

The eight machines share no variable. Composing them freely would multiply their
states and show nothing more, so in `MCNext` a machine takes steps only while the
others are in their initial states: the run explores the sum of eight separate
runs, with the inputs the module defines.

## 3. Runs

| run | result | what it shows |
|---|---|---|
| `batch_pipeline` | pass | two files, one retry, both runners, both crashes, coroutines that outlive a failed call: a completed batch is settled and frozen, line items are stored once per call, counters are exact, a failed upload never runs, the COMPLETED message counts all rows, a queued batch settles |
| `tally_push` | pass | one file processed up to three times and two push calls: the log accounts for vouchers, implements the ledger, and only ERP_READY items are pushed while a single call processes the batch |
| `extraction_lanes` | pass | three files, two batches, one slot per lane, two tokens per two ticks: slots conserved, rate bounded, first batch never refused, every coroutine returns |
| `gap_triggers` | pass | two client requests and a vendor follow-up in two periods, one lost record, exports with and without a sync: contact is vetted and monthly, a closed gap rests from the next sync on |
| `drive_sync` | pass | runs capped at two of three files, one retry, any two edits, faults, misreadings, cancellations or crashes: completed means read, duplicates have an original, one verdict per key, cap and job rows hold, a processed file is left alone, a triggered sync ends |
| `back_office` | pass | eight machines, one after another: a 2B record proves one invoice and nothing falls between the lists (`ClaimsAreExclusive`, `NothingUnaccounted`); a sheet is filed once and completely, sections, sheets and totals of a GSTR-1 agree, a clean review leaves nothing out (`SheetIsFiled`, `SectionsCarryTheTotal`, `CleanReviewIsComplete`); the schedule piles up no reviews (`PileUpsAreManual`); rows of the workbook are kept and calls return (`RowsAreKept`, `CallsReturn`); a template's rows are ready, rows add up, vouchers balance (`TemplateIsReady`, `RowsAddUp`, `VouchersBalance`); an outage is bounded (`OutageIsBounded`); a walk finds every file that stays (`WalkFindsEveryFile`); what is configured is scheduled and a review is of the month of its folder (`ConfigIsScheduled`, `FiledUnderItsMonth`) |
| `sign_off_kept` | violation | a sign-off given during (re-)processing is overwritten by the engine's verdict |
| `tally_duplicate` | violation | a lost answer is logged "failed", and the next push books a second voucher |
| `lanes_throttle` | violation | from a worker's second batch on, a coroutine that has to wait fails instead |
| `gap_tracked` | violation | exporting one period resolves the open gaps of another |
| `folder_drained` | violation | capped at one file, every run takes the first invoice again and never reaches the rest |
| `domestic_taxed` | violation | a taxed invoice whose text mentions an export is stored without taxes |

Deadlock is not checked where the system may stop: a settled batch with nobody
acting on it, a worker that has taken its last batch (`MaxLoops`), and the machines
of `back_office`, each of which comes to an end. `GapTriggers` and `DriveSync` are
checked for deadlock and never stop.

### Bounds and why they are enough

- `Task = {t1, t2}`, `MaxRetries = 1` (code: 2) in `batch_pipeline`: two files are
  needed for one to settle while the other runs, or one to be a credit note; one
  retry gives a second call over settled rows, and the fallback gives a third.
  `Verdict` has one value there because no property of that run tells verdicts
  apart. Files are interchangeable, but symmetry is not used since the run checks
  liveness.
- `tally_push` has one file, with up to three copies of its lines (two deliveries
  and the fallback), two calls of the endpoint and an approving and a rejecting
  verdict: enough for a copy pushed before and one after a re-verdict.
- `extraction_lanes` has two heavy scans for one heavy slot, `Rpm = 2` so that a
  third token has to wait, and two loops, the least that rebinding needs. The
  fast lane is the same code with another counter.
- `gap_triggers` has two gaps in one period and one in another, `Month = 2` and
  one lost record: repeats within and after a month, reopening between them. Any set
  of gaps may be shown on several lines.
- `drive_sync` has a credit note that is added later, a zip of two invoices and a
  copy of one of them under another name: a duplicate across files, and three kinds
  of file on a budget of two, so that each kind is deferred in some run.
  `MaxVersion = 2` is a file before and after an edit. `MaxEvents = 2` bounds what
  the schedule does not bring about, in any combination: an edit during a crash,
  a cancellation before a retry, a failed verdict and a misreading. Runs are not
  bounded. `folder_drained` needs no event at all.
- `back_office`, by machine (`MCBackOffice` has the inputs):
  - 2B: all books of up to two of six lines, and three where the first comes again,
    against all statements of up to two of five records: equal and similar numbers,
    a dash, a leading zero, another registration, an empty number, a negative
    amount. Two invoices and two records are what a dispute over a record needs.
  - Sales: stored lines of up to two of six kinds, some of three, some with a line
    without a number, with blanks around its number or negative amounts, or one of
    category CDNR that is no note; sheets of up to two of
    four rows, and with one of another month or a second one under the same number
    without a GSTIN; five sets of PDFs: with and without party, number,
    registration, buckets; notes; nil-rated, export and large sales.
    `MaxStored = 0`: an ingestion starts from an empty month, a second one into it
    would only store the same lines twice.
  - Reviews: one key in each table, three rows, one change of the books, three drops
    of files, one retry: check, read and insert with everything in between.
  - Workbook: two writers with two appends each, two polls before the timeout.
  - Invoices: 14 papers, five sums, ten lists of sales, four of purchases, six
    findings of the follow-up call, one with a row without a value. The amounts lie around the rupee of tolerance,
    the B2CL limit is lowered to 200 rupees.
  - Model calls: two threads with three calls each, three attempts, a threshold of
    two (code: 5), so that the breaker opens, half-opens and is closed late.
  - Walk: three trees of five folders (one of them outside the month's) and two
    files, two moves: one moves a file or a folder on, another one back.
  - Schedules: two tenants, one of whose patterns leaves the year out and one of
    which leaves out everything but the month's name; months 2, 3 and 14, so that
    a fiscal year ends and a month's name comes again; two changes (saves, scripts
    or messages), since a loss needs two writers of the file; months pass and
    folders appear only while a run is awaited, because nothing else looks at them.

The theorems of section 5 hold without these bounds.

### Fairness

`BatchPipeline`: weak fairness of the worker's steps (a live worker takes
messages and steps its coroutines), strong fairness of the local runner (the
loop's ready queue is FIFO, so a coroutine gets its turn between handlers), weak
fairness of a started poll. Nothing is owed by users, faults, retries or crashes;
`QueuedBatchSettles` names crashes, exhausted retries, orphaned rows and the
empty upload as the ways a batch may stay open.
`ExtractionLanes`: weak fairness of each coroutine (the loop runs what is ready,
and an extraction returns since its model calls have timeouts) and of time.
`DriveSync`: weak fairness of the worker (`RunStep`: a live worker takes the queued
call and goes on with it), of the worker's discarding a revoked message, and of
`Trigger`, since the beat triggers syncs for ever. Clients, cancellation, faults and
crashes are not fair; `SyncEnds` holds since they only end a run or send it into a
retry, and retries are counted.
`Workbook`: weak fairness of each writer (`WriterStep`): a live process goes on, and
its polling loop wakes up. Appends, deaths, restarts and clean-ups are not fair, so
`CallsReturn` does not count on a leaked lock being removed.
The other machines claim no liveness: their steps are started by people, or they are
computations without a wait.

## 4. Where the code and its documents differ

Each is a violation run; `PROJECT.json` ("findings") quotes the sentence.

1. A human decision is overwritten silently (`async_tasks.py:394`) against the
   engineering principle that it never is.
2. A push is not idempotent when Tally's answer is lost (`main.py:1446`).
3. The semaphores do not throttle later batches of a worker, they fail files
   (`async_tasks.py:113`).
4. A gap's trigger is resolved by the export of another period
   (`gstr2b_trigger_engine.py:141`).
5. An invoice that the Drive sync has read is marked failed, since its result is
   passed on as a task id (`google_drive_sync.py:273`); it is read again by every
   run, and under `max_files` the files behind it are never reached, against the
   promise that a folder is drained over several runs.

6. A guard in `process_pdf` says that an invoice with printed taxes is domestic
   whatever its text says; the next lines assign the flag again from the text alone
   (`invoice_processor.py:1187`), and the taxes are set to zero.

Further differences that the modules model as the code has them, without a run of
their own:

- Batches. When a coroutine of the local fallback raises past its handler, the call is
  over and its batch stays PENDING, but `asyncio.gather` cancels nothing: the other
  files are extracted and stored under it (`async_tasks.py:592`).
- Gap triggers. A failed sync is logged and the export returned (`main.py:3145`). An
  ordinary reconciliation brings it about: a new missing invoice of two lines is added
  twice, since the session does not flush before it looks (`database.py:41`), and the
  unique identity (`models.py:492`) refuses the whole sync. Closed gaps stay live and
  may be followed up until a later sync succeeds.
- Reviews and filing. The period review drops the signs of stored amounts
  (`period_review.py:232`), the filing keeps them: a credit note stored with negative
  amounts agrees with its row of the sheet, and no entry needs attention, but the filing
  adds it instead of taking it off; only the totals tell. A line whose particulars name a note although its voucher type
  does not counts as a note for the category (`invoice_processor.py:1490`) and as a
  sale for the sign (`gstr1_generator`): it is added to the total and stands among the
  notes, which are subtracted (`Mistaken` names these lines). A later line
  without GSTIN pulls all lines of its number out of the filing. A review compares line by line although a document may have
  several, so an invoice of several buckets shows an unresolved conflict and is a
  duplicate of itself (`period_review.py:230`). Debit notes count for the total of the books and against
  that of the filing. A tenant without a registration map has
  everything under UNKNOWN_REGISTRATION. Unverifiable documents are left out only when the sheet has
  them. An unreadable PDF counts as missing from the sheet (`sheet_first_ingestion.py:79`),
  a credit note that cannot be opened ends an ingestion half-way, and the next attempt
  stores the first half again; a line without a number ends the reconciliation with a
  `TypeError` (`sales_reconciliation.py:238`). Blanks around a number are stripped by
  some steps and not by others.
- GSTR-1. A note of a nil-rated category stands in two sections, a category without a
  section in the total only ("EXPORT" is not "EXP"); the place of supply of nil-rated
  sales uses the environment's state; the JSON's count of documents takes a B2CS
  bucket for one invoice; four sections have no sheet.
- 2B. Each registration's review reconciles all purchase lines of the tenant; a
  malformed file ends a run that promises that every file "is processed
  independently" (`celery_app.py:417`); a row with an amount of zero counts with the
  amount of its record.
- Invoices. Rows that the follow-up call adds are neither classified nor audited, and
  one without a value keeps whatever taxes the model gave it
  (`invoice_processor.py:1602`); under a printed table of zeros the model's own
  taxable value stays, and if it is negative so are the taxes of the template's rows;
  several rows of a printed table share the rates of the first; a discount is taken
  off twice in the export of rows; sub-total rows count when sums are added up and are
  removed later; a scan's sums come from its own lines, so its verdict compares
  nothing; an outage of the provider leaves an empty result, which is stored as
  COMPLETED and, with sums of zero, ERP_READY. A negative total gives a voucher that
  does not balance, and a row whose date is written DD-MM-YYYY, as template rows
  are, cannot be pushed.
- Model calls. A half-open breaker lets every thread pass, not "exactly one probe"
  (`llm_call.py:42`), and a call that is repeating its request does not ask again.
- Drive. A "Sale Analysis" folder below a typed one is walked. A file that is moved
  during a walk may be missed, or found more often than it was moved: each move can
  double the ways to it that are still open. The beat sees a saved
  schedule only after its image is built again, not "after a celery beat restart"
  (`main.py:2584`). A file of schedules that was cut off loads as none, and every
  later save fails with a warning and answers ok; an expression of five fields that
  crontab refuses stops every process that imports `celery_app`. A GSTR-2B run reads
  the clock for its folder and again for its period, and may file the one month's
  statement under the next.

## 5. Proofs

All theorems are for any finite set of files, any retries, verdicts, calls, gaps,
periods, books, statements, keys, writers and threads; the assumptions are the
`ASSUME`s of the modules.

**BatchPipelineProofs.** `SafetyInv` is the inductive invariant. The properties
alone are not inductive: that a completed batch is settled needs that its only
call has returned (`CompletedBatchIsIdle`), which needs that coroutines belong to
calls that are running or, in the web process, have failed
(`CoroutinesBelongToCalls`), that a runner has the batch only after the upload, and that the files
dispatched have rows. `LinesPerCall` needs `CopiesAndOwed`: the copies stored
plus the one a running call still owes are at most the calls begun. From it:
`TypeCorrect`, `CompletedSettled`, `LinesAreBounded`, `FailedUploadStaysPut`,
`MessageCountsAllRows`, and the action property `CompletedStaysFrozen`.
`CountersAreExact` uses the cardinality facts of the library and a lemma that a
coroutine counted is one element more.

**TallyPushProofs.** `LedgerInv` (one attempt in flight, for an unrecorded item, a
success only for a booked voucher, the accounting inequality) gives
`PushTypeCorrect`, `LogIsAccurate` and the step simulation of `PushImplementsLedger`. The approval
gate needs the pipeline's invariant as well: while one call processes the batch a
task of the selection whose lines are stored cannot be re-verdicted except by a
sign-off, which the endpoint keeps out (`ApprovalGateHolds`).

**GapTriggersProofs.** `GapInv` adds that the table's `last_triggered_at` is what was
last recorded and that a sendable client request is vetted; that a live trigger is
about an open or overlooked gap is inductive as it is. It gives
`TypeCorrect`, `ClosedGapsAreLeftAlone`, `MessagesAreMonthly` and
`EveryMessageIsVetted`.

**DriveSyncProofs.** `SyncInv` adds to the properties what links a run's place to
the tables: the file in hand is marked with the checksum of the listing
(`CurrentIsMarked`), versions only grow after a listing (`ListingIsOld`), every
document taken out of it has left a row or is the pending task (`FetchedIsRead`),
the selected invoices are not processed (`SelectedIsFresh`), one task at a time
waits for its verdict (`TaskIsPending`), and what is touched or selected plus the
budget left is at most the cap (`BudgetCovers`). `FirstAreFew` is the lemma behind
the cap: of any files, at most n have fewer than n before them in the listing,
because that number is a different one for each (an injection into `0..(n - 1)`).
It gives `TypeCorrect` (with it, that the budget is never negative),
`CompletedMeansRead`, `DuplicatesAreExact`, `VerdictsAreUnique`, `CapHolds`,
`RowsAreSettled` and the action property `ProcessedIsKept`.

**ReviewGateProofs.** `GateInv` says what the worker knows between its check and its
insert: the latest review of its key, if it was the schedule's, was decided when it
looked or has been covered since by one of a person's, and the books it has read are
no older than any that a scheduled review shows (`GateIsSound`, `PileUpsManual`).

**WorkerProofs.** Three machines of a worker process.

- `LanesInv`: what a lane's counter lacks is the number of coroutines in the lane
  (`SlotsAreConserved`, with a lemma that a coroutine that enters is one element
  more); one coroutine at most sleeps in the guard, until the oldest token is forgotten
  (`SleeperHoldsTheLock`); the guard remembers the tokens of the window and no more
  than `Rpm` (`CallsAreRecent`); no primitive is bound to a loop that is yet to come,
  so none is refused in the first one (`BindingsAreKnown`, `WaitersAreQueued`). It gives `LanesTypeCorrect`, `SlotsAlwaysConserved`,
  `RateAlwaysBounded` and `FirstBatchAlwaysThrottled`.
- `WorkbookInv`: whoever is between acquire and release is the one who created the
  lock file, and the copy in hand is the file, plus the row of the call once it is
  appended; rows in the file are of calls that have begun (`WorkbookIsSound`,
  `MutualExclusion`, `RowsKept`). Mutual exclusion rests on the guard of `CleanUp`:
  locks of live owners are left alone.
- `CallsInv`: the requests wasted since the breaker opened are at most the attempts
  that the call in flight has used, and a thread that asks anew is refused; a success
  or a new opening resets the account (`CallsAreSound`, `OutageBounded`).

**DriveFolderProofs.** Two machines about folders.

- `SchedulesInv` links what was saved, the file, the script's copy and the beat, and
  the folder in hand with the month of the run (`RunHasItsMonth`); the lemma
  `NamesTellMonths` is where the pattern of a folder's name is used. It gives
  `SchedulesTypeCorrect`, `ConfigAlwaysScheduled` and `AlwaysFiledUnderItsMonth`.
- `WalkInv` counts, for a file, the ways by which the walk may still come to it: the
  items left to look at, in any listing, that are over the file or are the file. In a
  tree at rest there is one way at most; a move of something over the file adds the
  ways to the folder it is moved to. So the ways left and the times found are together
  at most two to the moves (`WaysAreFew`). For a file that stays there is exactly one
  way until it is found, and what that frame carries down is what the folders passed
  say (`OnItsWay`, `CarriedDown`). The lemmas are about trees: the items over an item
  are a chain, each folder of it has one child in it, a move changes nothing over what
  it is not over; and powers of two are counted as sets of subsets, since
  exponentiation is recursive. It gives `WalksFindTheirFiles`.

**BooksProofs.** The books are full of sums over sets of lines, and a sum in the model
is a fold. The module first proves the laws it needs (a sum takes an element out,
splits, groups by a key, is bounded by its parts) without induction over an operator:
by the smallest set, or number, that would be a counterexample.

- `Gstr2bMatch`: that claims are exclusive is inductive only with what the passes know.
  A claim of the exact pass is by the invoice's own key, which is in `used`; a record
  that the fuzzy pass has given away has left `remaining`, and its key was never in
  `used`; the invoices still to be taken have no claim (`MatchInv`, theorem
  `MatchIsSound`). `ClaimsExclusive` follows since two first lines have two keys, and
  `NothingIsLost` since each list takes what the others leave.
- `SalesClose`: `CloseInv` says that a review and its filings are of the stored lines
  and the sheet as they are (`ReviewsAreOfTheirLines`); a review is final once made.
  `SectionsAlwaysCarryTheTotal` then is arithmetic: the lines of a filing
  are grouped by category, by document, by bucket and by HSN, each line falls into one
  group of each kind, and the groups of every kind have one sum. A tally of documents
  that passes gives `CleanReviewsAreComplete`: the lines under UNKNOWN_REGISTRATION are
then worth the same to the books and to the filing, and the difference of the two
totals, which the review has seen, bounds them. For
  `SheetsAreAlwaysFiled` the ingestion needs its own invariant (`WholeInv`): the lines
  stored so far are those of the groups done, each in its place (`InPlace`).
- `InvoicePipeline`: `InvoiceInv` types the rows at every stage, ties the verdict
  ERP_READY to the rows it was computed of, and a voucher to its row
  (`VerdictIsOfTheRows`, `VouchersAlwaysBalance`). `RowsInv` says where a row has been:
  out of the template with its share of a tax (`FromTemplate`), out of the answer and
  verified (`IsVerified`), or out of the follow-up call (`FollowedUp`). The lemmas are
  that rounded shares and a last one that takes the rest add up to the tax
  (`SharesOfATax`) and that an advance comes off the sections as a whole (`NetAddsUp`). They give
  `RowsAlwaysAddUp` and `TemplatesAreAlwaysReady`.

The invariants were checked by TLC on the instances of section 3 before they were
proved, `WalkInv` on a second one too. The type invariants of `BatchPipeline`,
`TallyPush`, `GapTriggers`, `DriveSync`, `ReviewGate`, `Workbook`, `ModelCalls`,
`DriveSchedules` and the data machines are proved, and so have no run.

The assumptions about constants are named in the modules (`MatchConstants`,
`CloseConstants`, `InvoiceConstants`, `WalkConstants`, `BatchesAreFinite` and so on):
finite sets, bounds that are numbers, inputs of the shape the parsers produce. TLC
evaluates them on every run.

Model-checked only: liveness (`QueuedBatchSettles`, `EveryFileReturns`, `SyncEnds`,
`CallsReturn`), which is out of the prover's reach. Every invariant and every action
property of the passing runs is a theorem.

## 6. Plan

1. done: the pipeline, its push, throttling, gap triggers and the Drive sync.
2. done: reviews, workbook, 2B matching, the month's close of sales, the invoice from
   answer to voucher, model calls, walk and schedules.
3. done: proofs of all their safety and action properties.
4. next, to model: an abstract specification of the tracker (a version of a file is
   pending, then read, then rests) that `DriveSync` implements; in-place edits of line
   items (`update_item`) and the deletion of a file beside the pipeline; the patterns
   of `document_core` that decide which section of a printed invoice a figure belongs
   to.

## 7. Not modelled

Text and document handling (OCR, layout, prompts, the patterns that read a PDF or
find the columns of a sheet, the layout of exports, the XML around a voucher),
lookups and scores without state (duplicate scores, vendor profiles, priorities, MSME
dates), field mappers and validation packs beyond the checks on sums, append-only
observability, authentication, storage and the frontend: their outcomes enter the
models as inputs where they matter. Webhook channels are not wired to any endpoint;
`vouchers_to_canonical`, `get_day_book`, `ExcelAtomicWrite.atomic_write` and
`cleanup_stale_locks` have no callers. `broadcast_to_batch` reaches no browser in production, since the worker is
another process; the polling socket is what is modelled. Endpoint code that edits a
line item in place (`update_item`) or deletes a file is not modelled, and neither is
the amount of a trigger, the wording of a message, the rename of a tenant or two
workers at once.
