--------------------------- MODULE BatchPipeline ---------------------------
(***************************************************************************)
(* One upload batch of AuditOS, from the upload request to the settled     *)
(* BatchJob row: main.upload_batch stores the InvoiceTask rows and hands   *)
(* the batch to Celery (or to an in-process BackgroundTask), where         *)
(* async_tasks.process_batch runs one coroutine per invoice against the    *)
(* shared database.  A reviewer signs rows off and a browser polls the     *)
(* progress while that happens.                                            *)
(*                                                                         *)
(* An extraction is one nondeterministic verdict of the reconciliation     *)
(* engine; the line items of one extraction are one unit, and copies[t]    *)
(* says how many times the database holds them (nothing deletes them).     *)
(***************************************************************************)
EXTENDS Naturals, FiniteSets

CONSTANTS
    Task,        \* the files of the upload that can become InvoiceTask rows
    MaxRetries,  \* max_retries of process_batch_task
    Verdict      \* the reconciliation verdicts an extraction may end with

ASSUME TaskIsFinite == IsFiniteSet(Task)
ASSUME MaxRetriesIsNatural == MaxRetries \in Nat
ASSUME VerdictIsStatus == Verdict \subseteq {"ERP_READY", "NEEDS_REVIEW", "BLOCKED"}

VARIABLES
    batch,       \* BatchJob.status, "NONE" before the row is committed
    row,         \* InvoiceTask.status per file, "NONE" before the row is committed
    recon,       \* InvoiceTask.recon_status per file, "NULL" when unset
    copies,      \* how many times the file's line items are stored
    upload,      \* where the upload request stands
    staged,      \* rows added to the request's session and not yet committed
    dispatched,  \* tasks_to_process, the list handed to the runner
    run,         \* where each runner stands with the batch
    retries,     \* request.retries of the Celery message
    pc,          \* where the coroutine of each file stands, per runner
    completed,   \* completed_count of the current process_batch call, per runner
    failed,      \* failed_count of the current process_batch call, per runner
    started,     \* history: how many process_batch calls have begun
    poll,        \* the batch status the progress socket has read, "idle" between rounds
    message      \* the message that closed the socket: its status, and whether it counted all rows

dbVars     == <<batch, row, recon, copies>>
uploadVars == <<upload, staged, dispatched>>
runVars    == <<run, retries, pc, completed, failed, started>>
pollVars   == <<poll, message>>
vars       == <<dbVars, uploadVars, runVars, pollVars>>

Runner      == {"celery", "local"}
Settled     == {"COMPLETED", "FAILED"}
BatchStatus == {"NONE", "PENDING", "COMPLETED", "FAILED"}
RowStatus   == {"NONE", "PENDING", "PROCESSING"} \cup Settled
ReconStatus == Verdict \cup {"NULL", "HUMAN_CORRECTED"}

TypeOK ==
    /\ batch \in BatchStatus
    /\ row \in [Task -> RowStatus]
    /\ recon \in [Task -> ReconStatus]
    /\ copies \in [Task -> Nat]
    /\ upload \in {"idle", "open", "committed", "done", "failed", "lost"}
    /\ staged \in SUBSET Task
    /\ dispatched \in SUBSET Task
    /\ run \in [Runner -> {"none", "queued", "running", "done", "dead", "lost"}]
    /\ retries \in 0..MaxRetries
    /\ pc \in [Runner -> [Task -> {"none", "load", "extract", "stored", "counted"}]]
    /\ completed \in [Runner -> Nat]
    /\ failed \in [Runner -> Nat]
    /\ started \in Nat
    /\ poll \in BatchStatus \cup {"idle", "closed"}
    /\ message \in [status : BatchStatus, all : BOOLEAN]

Init ==
    /\ batch = "NONE"
    /\ row = [t \in Task |-> "NONE"]
    /\ recon = [t \in Task |-> "NULL"]
    /\ copies = [t \in Task |-> 0]
    /\ upload = "idle"
    /\ staged = {}
    /\ dispatched = {}
    /\ run = [r \in Runner |-> "none"]
    /\ retries = 0
    /\ pc = [r \in Runner |-> [t \in Task |-> "none"]]
    /\ completed = [r \in Runner |-> 0]
    /\ failed = [r \in Runner |-> 0]
    /\ started = 0
    /\ poll = "idle"
    /\ message = [status |-> "NONE", all |-> FALSE]

-----------------------------------------------------------------------------
(***************************************************************************)
(* The web process is one event loop: a handler without an await, and a    *)
(* coroutine between two awaits, exclude each other.                       *)
(***************************************************************************)

\* No coroutine of the call is between storing its result and counting it:
\* that stretch of process_single_task never suspends.
Quiet(r) == \A t \in Task : pc[r][t] # "stored"

\* A handler may start: no other handler and no local coroutine is mid-way.
WebFree ==
    /\ upload \notin {"open", "committed"}
    /\ Quiet("local")
    /\ poll \in {"idle", "closed"}

\* The local runner shares its loop with the socket handler.
LoopIsFree(r) == r = "local" => poll \in {"idle", "closed"}

\* process_batch itself may go on.
HasTurn(r) == run[r] = "running" /\ LoopIsFree(r)

-----------------------------------------------------------------------------
(***************************************************************************)
(* The upload request.                                                     *)
(***************************************************************************)

\* The BatchJob row is committed on its own, before any file is looked at.
CreateBatch ==
    /\ upload = "idle"
    /\ upload' = "open"
    /\ batch' = "PENDING"
    /\ UNCHANGED <<row, recon, copies, staged, dispatched, runVars, pollVars>>

Unseen(t) == row[t] = "NONE" /\ t \notin staged

\* A PDF gets a row in the session and a place in tasks_to_process.
StageInvoice(t) ==
    /\ upload = "open"
    /\ Unseen(t)
    /\ staged' = staged \cup {t}
    /\ dispatched' = dispatched \cup {t}
    /\ UNCHANGED <<dbVars, upload, runVars, pollVars>>

\* Committing the session writes every staged row as PENDING.
WithStaged == [t \in Task |-> IF t \in staged THEN "PENDING" ELSE row[t]]

\* A credit note of an archive is stored on the spot, in two commits: the row,
\* which also commits what is staged, then its line item and COMPLETED.  What
\* goes wrong in between is caught and leaves a PENDING row nobody will process.
IngestCreditNote(t, stored) ==
    /\ upload = "open"
    /\ Unseen(t)
    /\ row' = [WithStaged EXCEPT ![t] = IF stored THEN "COMPLETED" ELSE "PENDING"]
    /\ copies' = [copies EXCEPT ![t] = IF stored THEN @ + 1 ELSE @]
    /\ staged' = {}
    /\ UNCHANGED <<batch, recon, upload, dispatched, runVars, pollVars>>

CommitUpload ==
    /\ upload = "open"
    /\ upload' = "committed"
    /\ row' = WithStaged
    /\ staged' = {}
    /\ UNCHANGED <<batch, recon, copies, dispatched, runVars, pollVars>>

\* dispatch_batch_task: the broker takes the message, or delay() raises and the
\* local fallback is queued.  delay() can raise after the broker took the
\* message (the reply is lost): then both runners have the batch.
Dispatch(runners) ==
    /\ upload = "committed"
    /\ runners # {}
    /\ upload' = "done"
    /\ run' = [r \in Runner |-> IF r \in runners THEN "queued" ELSE run[r]]
    /\ UNCHANGED <<dbVars, staged, dispatched, retries, pc, completed, failed,
                   started, pollVars>>

\* Mutant: the handler records the failure and carries on to the dispatch.
UploadFailsButDispatches ==
    /\ upload = "open"
    /\ upload' = "committed"
    /\ batch' = "FAILED"
    /\ row' = WithStaged
    /\ staged' = {}
    /\ UNCHANGED <<recon, copies, dispatched, runVars, pollVars>>

\* Any exception before the batch is with a runner: FAILED, committed together
\* with the rows staged so far, and the client gets a 500.
UploadFails ==
    /\ upload \in {"open", "committed"}
    /\ upload' = "failed"
    /\ batch' = "FAILED"
    /\ row' = WithStaged
    /\ staged' = {}
    /\ UNCHANGED <<recon, copies, dispatched, runVars, pollVars>>

-----------------------------------------------------------------------------
(***************************************************************************)
(* process_batch, on the Celery worker or in the web process.              *)
(***************************************************************************)

Deliver(r) ==
    /\ run[r] = "queued"
    /\ run' = [run EXCEPT ![r] = "running"]
    /\ pc' = [pc EXCEPT ![r] = [t \in Task |-> IF t \in dispatched THEN "load" ELSE "none"]]
    /\ started' = started + 1
    /\ UNCHANGED <<dbVars, uploadVars, retries, completed, failed, pollVars>>

\* A coroutine that has not returned may go on, in the web process even after
\* its call has failed.
At(r, t, where) == LoopIsFree(r) /\ Quiet(r) /\ pc[r][t] = where

\* The row goes to PROCESSING whatever it held: a retried call does not look
\* at what an earlier one has already done.
BeginTask(r, t) ==
    /\ At(r, t, "load")
    /\ row' = [row EXCEPT ![t] = "PROCESSING"]
    /\ pc' = [pc EXCEPT ![r][t] = "extract"]
    /\ UNCHANGED <<batch, recon, copies, uploadVars, run, retries, completed,
                   failed, started, pollVars>>

\* Line items, verdict and COMPLETED in one commit.
StoreResult(r, t, verdict) ==
    /\ At(r, t, "extract")
    /\ copies' = [copies EXCEPT ![t] = @ + 1]
    /\ recon' = [recon EXCEPT ![t] = verdict]
    /\ row' = [row EXCEPT ![t] = "COMPLETED"]
    /\ pc' = [pc EXCEPT ![r][t] = "stored"]
    /\ UNCHANGED <<batch, uploadVars, run, retries, completed, failed, started, pollVars>>

\* The exception handler of process_single_task.
MarkFailed(r, t) ==
    /\ row' = [row EXCEPT ![t] = "FAILED"]
    /\ pc' = [pc EXCEPT ![r][t] = "counted"]
    /\ failed' = [failed EXCEPT ![r] = @ + 1]
    /\ UNCHANGED <<batch, recon, copies, uploadVars, run, retries, completed,
                   started, pollVars>>

FailExtraction(r, t) == At(r, t, "extract") /\ MarkFailed(r, t)

\* Mutant: a late failure extracts the file again over the stored lines.
RetryAfterStore(r, t) ==
    /\ LoopIsFree(r)
    /\ pc[r][t] = "stored"
    /\ pc' = [pc EXCEPT ![r][t] = "extract"]
    /\ UNCHANGED <<dbVars, uploadVars, run, retries, completed, failed, started, pollVars>>

\* Mutant: the success was counted before the late step that raises.
FailAfterCounting(r, t) ==
    /\ LoopIsFree(r)
    /\ pc[r][t] = "stored"
    /\ row' = [row EXCEPT ![t] = "FAILED"]
    /\ pc' = [pc EXCEPT ![r][t] = "counted"]
    /\ completed' = [completed EXCEPT ![r] = @ + 1]
    /\ failed' = [failed EXCEPT ![r] = @ + 1]
    /\ UNCHANGED <<batch, recon, copies, uploadVars, run, retries, started, pollVars>>

\* Scoring, flags and metrics run after the commit of the line items: what they
\* raise turns the row FAILED and leaves items and verdict in place.
FailAfterStore(r, t) == LoopIsFree(r) /\ pc[r][t] = "stored" /\ MarkFailed(r, t)

CountSuccess(r, t) ==
    /\ LoopIsFree(r)
    /\ pc[r][t] = "stored"
    /\ pc' = [pc EXCEPT ![r][t] = "counted"]
    /\ completed' = [completed EXCEPT ![r] = @ + 1]
    /\ UNCHANGED <<dbVars, uploadVars, run, retries, failed, started, pollVars>>

Rows == {t \in Task : row[t] # "NONE"}

\* The call is over, one way or the other: its coroutines and counters are gone.
EndCall(r) ==
    /\ pc' = [pc EXCEPT ![r] = [t \in Task |-> "none"]]
    /\ completed' = [completed EXCEPT ![r] = 0]
    /\ failed' = [failed EXCEPT ![r] = 0]

\* Mutant: the verdict on the batch looks at the dispatched rows only.
FinishOverDispatched(r) ==
    /\ HasTurn(r)
    /\ \A t \in dispatched : pc[r][t] = "counted"
    /\ run' = [run EXCEPT ![r] = "done"]
    /\ batch' = IF Rows # {} /\ \A t \in dispatched : row[t] \in Settled
                THEN "COMPLETED" ELSE batch
    /\ EndCall(r)
    /\ UNCHANGED <<row, recon, copies, uploadVars, retries, started, pollVars>>

\* Mutant: the coroutines are scheduled and not awaited.
FinishWithoutGather(r) ==
    /\ HasTurn(r)
    /\ run[r] = "running"
    /\ batch' = "COMPLETED"
    /\ UNCHANGED <<row, recon, copies, uploadVars, runVars, pollVars>>

\* Mutant: what the batch metrics raise is not caught, so a batch already
\* marked COMPLETED is retried.
FinishThenRetry(r) ==
    /\ HasTurn(r)
    /\ \A t \in dispatched : pc[r][t] = "counted"
    /\ \/ run' = [run EXCEPT ![r] = "done"] /\ UNCHANGED retries
       \/ /\ retries < MaxRetries
          /\ run' = [run EXCEPT ![r] = "queued"]
          /\ retries' = retries + 1
    /\ batch' = IF Rows # {} /\ \A t \in Rows : row[t] \in Settled
                THEN "COMPLETED" ELSE batch
    /\ EndCall(r)
    /\ UNCHANGED <<row, recon, copies, uploadVars, started, pollVars>>

\* Mutant: only successes count, so one unreadable invoice keeps the batch open.
FinishOnSuccessOnly(r) ==
    /\ HasTurn(r)
    /\ \A t \in dispatched : pc[r][t] = "counted"
    /\ run' = [run EXCEPT ![r] = "done"]
    /\ batch' = IF Rows # {} /\ \A t \in Rows : row[t] = "COMPLETED"
                THEN "COMPLETED" ELSE batch
    /\ EndCall(r)
    /\ UNCHANGED <<row, recon, copies, uploadVars, retries, started, pollVars>>

\* All coroutines have returned: the rows are read back, and the batch is
\* COMPLETED when there is at least one row and all of them are settled.
FinishBatch(r) ==
    /\ HasTurn(r)
    /\ \A t \in dispatched : pc[r][t] = "counted"
    /\ run' = [run EXCEPT ![r] = "done"]
    /\ batch' = IF Rows # {} /\ \A t \in Rows : row[t] \in Settled
                THEN "COMPLETED" ELSE batch
    /\ EndCall(r)
    /\ UNCHANGED <<row, recon, copies, uploadVars, retries, started, pollVars>>

\* A commit outside the handlers' reach raises in process_batch, or on the worker
\* in any coroutine.  There asyncio.run cancels the other coroutines, and the
\* Celery task retries the whole batch or gives up; in the web process the call
\* itself can fail only before its coroutines start or after all have returned.
AbortRun(r) ==
    /\ HasTurn(r)
    /\ r = "local" => \E where \in {"load", "counted"} : \A t \in dispatched : pc[r][t] = where
    /\ EndCall(r)
    /\ \/ /\ r = "celery" /\ retries < MaxRetries
          /\ retries' = retries + 1
          /\ run' = [run EXCEPT ![r] = "queued"]
       \/ /\ r = "local" \/ retries = MaxRetries
          /\ run' = [run EXCEPT ![r] = "dead"]
          /\ UNCHANGED retries
    /\ UNCHANGED <<dbVars, uploadVars, started, pollVars>>

\* A coroutine of the web process raises, its handler's own commit included:
\* gather gives up at the first of these, so nobody will read the rows back,
\* but cancels nothing, and the other coroutines run on.
LoseCoroutine(t) ==
    /\ LoopIsFree("local")
    /\ \/ pc["local"][t] = "stored"
       \/ Quiet("local") /\ pc["local"][t] \in {"load", "extract"}
    /\ run' = [run EXCEPT !["local"] = "dead"]
    /\ pc' = [pc EXCEPT !["local"][t] = "none"]
    /\ UNCHANGED <<dbVars, uploadVars, retries, completed, failed, started, pollVars>>

-----------------------------------------------------------------------------
(***************************************************************************)
(* Crashes.  Celery acknowledges a message when the task starts, so what a *)
(* crashed worker was running is gone; what is queued in Redis is not.     *)
(***************************************************************************)

CrashWorker ==
    /\ run["celery"] = "running"
    /\ run' = [run EXCEPT !["celery"] = "lost"]
    /\ EndCall("celery")
    /\ UNCHANGED <<dbVars, uploadVars, retries, started, pollVars>>

CrashWeb ==
    /\ \/ upload \in {"open", "committed"}
       \/ run["local"] \in {"queued", "running"}
       \/ \E t \in Task : pc["local"][t] # "none"
    /\ upload' = IF upload \in {"open", "committed"} THEN "lost" ELSE upload
    /\ staged' = {}
    /\ run' = [run EXCEPT !["local"] = IF @ \in {"queued", "running"} THEN "lost" ELSE @]
    /\ EndCall("local")
    /\ poll' = IF poll = "closed" THEN poll ELSE "idle"
    /\ UNCHANGED <<dbVars, dispatched, retries, started, message>>

-----------------------------------------------------------------------------
(***************************************************************************)
(* The people looking at the batch.                                        *)
(***************************************************************************)

\* The reviewer's sign-off is accepted for a row in any status.
AcceptCorrection(t) ==
    /\ WebFree
    /\ row[t] # "NONE"
    /\ recon' = [recon EXCEPT ![t] = "HUMAN_CORRECTED"]
    /\ UNCHANGED <<batch, row, copies, uploadVars, runVars, pollVars>>

\* The progress socket reads the batch and the tasks in two queries.
PollBatch ==
    /\ WebFree
    /\ poll = "idle"
    /\ batch # "NONE"
    /\ poll' = batch
    /\ UNCHANGED <<dbVars, uploadVars, runVars, message>>

\* Every round sends its counts; only a COMPLETED or FAILED one ends the socket.
PollTasks ==
    /\ poll \in BatchStatus
    /\ \/ /\ poll \in Settled
          /\ message' = [status |-> poll, all |-> \A t \in Rows : row[t] \in Settled]
          /\ poll' = "closed"
       \/ /\ poll \notin Settled
          /\ poll' = "idle"
          /\ UNCHANGED message
    /\ UNCHANGED <<dbVars, uploadVars, runVars>>

-----------------------------------------------------------------------------
Upload ==
    \/ CreateBatch
    \/ \E t \in Task : StageInvoice(t)
    \/ \E t \in Task, stored \in BOOLEAN : IngestCreditNote(t, stored)
    \/ CommitUpload
    \/ \E runners \in SUBSET Runner : Dispatch(runners)
    \/ UploadFails

TaskStep(r, t) ==
    \/ BeginTask(r, t)
    \/ \E verdict \in Verdict : StoreResult(r, t, verdict)
    \/ FailExtraction(r, t)
    \/ FailAfterStore(r, t)
    \/ CountSuccess(r, t)

RunStep(r) == Deliver(r) \/ FinishBatch(r) \/ \E t \in Task : TaskStep(r, t)

Poll == PollBatch \/ PollTasks

\* What the web process executes, and what the worker does beside it.
WebStep ==
    \/ Upload
    \/ RunStep("local")
    \/ AbortRun("local")
    \/ \E t \in Task : LoseCoroutine(t) \/ AcceptCorrection(t)

WorkerStep == RunStep("celery") \/ AbortRun("celery") \/ CrashWorker

Next == WebStep \/ WorkerStep \/ CrashWeb \/ Poll

\* A live worker keeps taking messages and stepping its coroutines.  The web
\* loop's ready queue is FIFO: a started handler returns, and a local coroutine
\* gets its turn between handlers however many there are (strong fairness).
\* Users, faults and crashes owe nothing.
Fairness ==
    /\ WF_vars(RunStep("celery"))
    /\ SF_vars(RunStep("local"))
    /\ WF_vars(PollTasks)

Spec == Init /\ [][Next]_vars /\ Fairness

-----------------------------------------------------------------------------
(***************************************************************************)
(* Properties.                                                             *)
(***************************************************************************)

\* The message may be with both runners: delay() raised after the broker had
\* taken it, and the fallback was queued as well.
HandedTwice == \A r \in Runner : run[r] # "none"

\* A COMPLETED batch has no row still pending or processing, whatever retries,
\* aborted calls and half-ingested credit notes came before; only a batch that
\* both runners got can be COMPLETED under a call that is still working on it.
CompletedBatchIsSettled ==
    batch = "COMPLETED" /\ ~HandedTwice => \A t \in Rows : row[t] \in Settled

\* process_batch writes a file's line items at most once per call: a row that
\* the credit-note path stored has one copy, any other at most one for each
\* call that has begun.  (With a single call: no invoice is stored twice.)
LinesPerCall ==
    \A t \in Task : copies[t] <= IF t \in dispatched THEN started ELSE 1

\* The two progress counters account for every coroutine that returned, none
\* twice, and together reach the total exactly when all have: the condition
\* under which broadcast_progress announces COMPLETED.
CountersAccountForCoroutines ==
    \A r \in Runner : run[r] = "running" =>
        completed[r] + failed[r] = Cardinality({t \in Task : pc[r][t] = "counted"})

\* A batch whose upload failed was never handed to a runner, so nothing will
\* move its rows out of PENDING behind the 500 the client got.
FailedUploadIsNeverRun ==
    batch = "FAILED" => started = 0 /\ \A r \in Runner : run[r] = "none"

\* A progress message that says COMPLETED counts every row as settled, although
\* the batch and its rows are read in two queries while the worker writes.
CompletedMessageCountsAllRows ==
    message.status = "COMPLETED" /\ ~HandedTwice => message.all

\* What the client fetched from a COMPLETED batch stays what the database
\* holds: no line item appears and no row changes status afterwards, and the
\* batch status itself is final.
CompletedBatchIsFrozen ==
    [][batch = "COMPLETED" =>
        /\ batch' = batch
        /\ ~HandedTwice => UNCHANGED <<row, copies>>]_vars

\* A batch the broker holds is settled in the end, unless a runner crashed or
\* ran out of retries, a half-ingested credit note left a row nobody owns, or
\* the upload had no row at all.
Orphaned == \E t \in Rows : row[t] = "PENDING" /\ t \notin dispatched

QueuedBatchSettles ==
    run["celery"] = "queued" ~>
        \/ batch = "COMPLETED"
        \/ \E r \in Runner : run[r] \in {"dead", "lost"}
        \/ Orphaned
        \/ Rows = {}

\* A reviewer's sign-off is never silently overwritten.
SignOffIsKept ==
    [][\A t \in Task : recon[t] = "HUMAN_CORRECTED" => recon'[t] = "HUMAN_CORRECTED"]_vars
=============================================================================
