------------------------ MODULE BatchPipelineProofs ------------------------
(***************************************************************************)
(* Proofs about BatchPipeline, for any finite set of files, any number of  *)
(* retries and any set of verdicts: its safety properties, by one          *)
(* inductive invariant made of the named parts below.                      *)
(***************************************************************************)
EXTENDS BatchPipeline, FiniteSetTheorems, TLAPS

-----------------------------------------------------------------------------
\* Only a running call has coroutines, or a failed one of the web process, and
\* only for what it was handed.
CoroutinesBelongToCalls ==
    \A r \in Runner, t \in Task :
        pc[r][t] # "none" =>
            /\ run[r] = "running" \/ (r = "local" /\ run[r] = "dead")
            /\ t \in dispatched

\* A runner has the batch only after the upload has returned; a failed batch is
\* a failed upload; a completed batch was handed over; nothing is shown of a
\* batch before its row exists.
UploadComesFirst ==
    /\ started > 0 => upload = "done"
    /\ \A r \in Runner : run[r] # "none" => upload = "done"
    /\ batch = "FAILED" => upload = "failed"
    /\ batch = "COMPLETED" => upload = "done"

\* A file without a row has no line items; tasks_to_process starts empty, and
\* while the upload is open every file of it is staged or has its row.
RowsComeFirst ==
    /\ \A t \in Task : row[t] = "NONE" => copies[t] = 0
    /\ upload = "idle" => dispatched = {}
    /\ upload = "open" => \A t \in dispatched : t \in staged \/ row[t] # "NONE"

\* What a call may still add to a file: one copy, until it has stored its own.
Owed(r, t) == IF pc[r][t] \in {"load", "extract"} THEN 1 ELSE 0

\* Every copy of a dispatched file, stored or owed, belongs to a call of its own.
CopiesAndOwed ==
    \A t \in Task :
        IF t \in dispatched
        THEN copies[t] + Owed("celery", t) + Owed("local", t) <= started
        ELSE copies[t] <= 1

\* The only call of a completed batch has returned.
CompletedBatchIsIdle ==
    batch = "COMPLETED" /\ ~HandedTwice => \A r \in Runner : run[r] \in {"none", "done"}

\* The socket has read COMPLETED only from a batch that was.
PollReadTheBatch == poll = "COMPLETED" => batch = "COMPLETED"

SafetyInv ==
    /\ TypeOK
    /\ CoroutinesBelongToCalls
    /\ UploadComesFirst
    /\ RowsComeFirst
    /\ CopiesAndOwed
    /\ CompletedBatchIsIdle
    /\ CompletedBatchIsSettled
    /\ PollReadTheBatch
    /\ CompletedMessageCountsAllRows

-----------------------------------------------------------------------------
(***************************************************************************)
(* Type correctness.                                                       *)
(***************************************************************************)

LEMMA TypeInit == Init => TypeOK
BY MaxRetriesIsNatural
DEF Init, TypeOK, Runner, BatchStatus, RowStatus, ReconStatus, Settled

LEMMA TypeStep == TypeOK /\ [Next]_vars => TypeOK'
<1> SUFFICES ASSUME TypeOK, [Next]_vars
             PROVE  TypeOK'
    OBVIOUS
<1> USE DEF TypeOK, Runner, BatchStatus, RowStatus, ReconStatus, Settled
<1>1. CASE CreateBatch
    BY <1>1 DEF CreateBatch, runVars, pollVars
<1>2. ASSUME NEW t \in Task, StageInvoice(t) PROVE TypeOK'
    BY <1>2 DEF StageInvoice, dbVars, runVars, pollVars
<1>3. ASSUME NEW t \in Task, NEW stored \in BOOLEAN, IngestCreditNote(t, stored) PROVE
    TypeOK'
    BY <1>3 DEF IngestCreditNote, WithStaged, runVars, pollVars
<1>4. CASE CommitUpload
    BY <1>4 DEF CommitUpload, WithStaged, runVars, pollVars
<1>5. ASSUME NEW runners \in SUBSET Runner, Dispatch(runners) PROVE TypeOK'
    BY <1>5 DEF Dispatch, dbVars, pollVars
<1>6. CASE UploadFails
    BY <1>6 DEF UploadFails, WithStaged, runVars, pollVars
<1>7. ASSUME NEW r \in Runner, Deliver(r) PROVE TypeOK'
    BY <1>7 DEF Deliver, dbVars, uploadVars, pollVars
<1>8. ASSUME NEW r \in Runner, NEW t \in Task, BeginTask(r, t) PROVE TypeOK'
    BY <1>8 DEF BeginTask, uploadVars, pollVars
<1>9. ASSUME NEW r \in Runner, NEW t \in Task, NEW verdict \in Verdict,
             StoreResult(r, t, verdict)
      PROVE  TypeOK'
    BY <1>9 DEF StoreResult, uploadVars, pollVars
<1>10. ASSUME NEW r \in Runner, NEW t \in Task, MarkFailed(r, t) PROVE TypeOK'
    BY <1>10 DEF MarkFailed, uploadVars, pollVars
<1>11. ASSUME NEW r \in Runner, NEW t \in Task, CountSuccess(r, t) PROVE TypeOK'
    BY <1>11 DEF CountSuccess, dbVars, uploadVars, pollVars
<1>12. ASSUME NEW r \in Runner, FinishBatch(r) PROVE TypeOK'
    BY <1>12 DEF FinishBatch, EndCall, uploadVars, pollVars
<1>13. ASSUME NEW r \in Runner, AbortRun(r) PROVE TypeOK'
    BY <1>13, MaxRetriesIsNatural DEF AbortRun, EndCall, dbVars, uploadVars, pollVars
<1>14. CASE CrashWorker
    BY <1>14 DEF CrashWorker, EndCall, dbVars, uploadVars, pollVars
<1>15. CASE CrashWeb
    BY <1>15 DEF CrashWeb, EndCall, dbVars
<1>16. ASSUME NEW t \in Task, AcceptCorrection(t) PROVE TypeOK'
    BY <1>16 DEF AcceptCorrection, uploadVars, runVars, pollVars
<1>17. CASE PollBatch
    BY <1>17 DEF PollBatch, dbVars, uploadVars, runVars
<1>18. CASE PollTasks
    <2> DEFINE allSettled == \A t \in Rows : row[t] \in Settled
    <2>1. allSettled \in BOOLEAN
        OBVIOUS
    <2> HIDE DEF allSettled
    <2>2. message' \in [status : BatchStatus, all : BOOLEAN]
        <3>1. CASE poll \in Settled
            <4>1. message' = [status |-> poll, all |-> allSettled]
                BY <1>18, <3>1 DEF PollTasks, allSettled
            <4>2. QED
                BY <2>1, <3>1, <4>1
        <3>2. CASE poll \notin Settled
            BY <1>18, <3>2 DEF PollTasks
        <3>3. QED
            BY <3>1, <3>2
    <2>3. poll' \in {"idle", "closed"}
        BY <1>18 DEF PollTasks
    <2>4. QED
        BY <1>18, <2>2, <2>3 DEF PollTasks, dbVars, uploadVars, runVars
<1>19. CASE UNCHANGED vars
    BY <1>19 DEF vars, dbVars, uploadVars, runVars, pollVars
<1>20. ASSUME NEW t \in Task, LoseCoroutine(t) PROVE TypeOK'
    BY <1>20 DEF LoseCoroutine, dbVars, uploadVars, pollVars
<1>21. QED
    BY <1>1, <1>2, <1>3, <1>4, <1>5, <1>6, <1>7, <1>8, <1>9, <1>10, <1>11, <1>12,
       <1>13, <1>14, <1>15, <1>16, <1>17, <1>18, <1>19, <1>20
    DEF Next, WebStep, WorkerStep, Upload, RunStep, TaskStep, Poll,
        FailExtraction, FailAfterStore

-----------------------------------------------------------------------------
(***************************************************************************)
(* The inductive invariant.                                                *)
(***************************************************************************)

\* The call of a coroutine that has not returned may not be over.
LEMMA CompletedBatchHasNoCoroutine ==
    ASSUME SafetyInv, NEW r \in Runner, NEW t \in Task, pc[r][t] # "none"
    PROVE  run[r] \in {"running", "dead"} /\ (batch = "COMPLETED" => HandedTwice)
<1>1. run[r] \in {"running", "dead"}
    BY DEF SafetyInv, CoroutinesBelongToCalls
<1>2. batch = "COMPLETED" /\ ~HandedTwice => run[r] \in {"none", "done"}
    BY DEF SafetyInv, CompletedBatchIsIdle
<1>3. QED
    BY <1>1, <1>2

LEMMA SafetyStep == SafetyInv /\ [Next]_vars => SafetyInv'
<1> SUFFICES ASSUME SafetyInv, [Next]_vars
             PROVE  SafetyInv'
    OBVIOUS
<1>0. TypeOK'
    BY TypeStep DEF SafetyInv
<1> USE <1>0 DEF dbVars, uploadVars, runVars, pollVars, Runner, Settled
<1>1. CASE CreateBatch
    <2>1. UploadComesFirst'
        BY <1>1
        DEF CreateBatch, SafetyInv, TypeOK, UploadComesFirst, CoroutinesBelongToCalls
    <2>2. RowsComeFirst'
        BY <1>1
        DEF CreateBatch, SafetyInv, TypeOK, RowsComeFirst, UploadComesFirst,
            CoroutinesBelongToCalls
    <2>3. CompletedBatchIsIdle'
        BY <1>1
        DEF CreateBatch, SafetyInv, TypeOK, CompletedBatchIsIdle, UploadComesFirst,
            HandedTwice
    <2>4. CompletedBatchIsSettled'
        BY <1>1
        DEF CreateBatch, SafetyInv, TypeOK, CompletedBatchIsSettled,
            CompletedBatchIsIdle, UploadComesFirst, HandedTwice, Rows
    <2>5. PollReadTheBatch'
        BY <1>1 DEF CreateBatch, SafetyInv, TypeOK, PollReadTheBatch, UploadComesFirst
    <2>6. (CoroutinesBelongToCalls /\ CopiesAndOwed /\ CompletedMessageCountsAllRows)'
        BY <1>1
        DEF CreateBatch, SafetyInv, CoroutinesBelongToCalls, CopiesAndOwed,
            CompletedMessageCountsAllRows, Owed, HandedTwice
    <2>7. QED
        BY <2>1, <2>2, <2>3, <2>4, <2>5, <2>6 DEF SafetyInv
<1>2. ASSUME NEW t \in Task, StageInvoice(t) PROVE SafetyInv'
    <2>1. CoroutinesBelongToCalls'
        BY <1>2
        DEF StageInvoice, Unseen, SafetyInv, TypeOK, CoroutinesBelongToCalls,
            UploadComesFirst
    <2>2. RowsComeFirst'
        BY <1>2
        DEF StageInvoice, Unseen, SafetyInv, TypeOK, RowsComeFirst, UploadComesFirst,
            CoroutinesBelongToCalls
    <2>3. CopiesAndOwed'
        BY <1>2
        DEF StageInvoice, Unseen, SafetyInv, TypeOK, CopiesAndOwed,
            CoroutinesBelongToCalls, RowsComeFirst, UploadComesFirst, Owed
    <2>4. (UploadComesFirst /\ CompletedBatchIsIdle /\ CompletedBatchIsSettled /\
           PollReadTheBatch /\ CompletedMessageCountsAllRows)'
        BY <1>2
        DEF StageInvoice, Unseen, SafetyInv, UploadComesFirst, CompletedBatchIsIdle,
            CompletedBatchIsSettled, PollReadTheBatch, CompletedMessageCountsAllRows,
            HandedTwice, Rows
    <2>5. QED
        BY <2>1, <2>2, <2>3, <2>4 DEF SafetyInv
<1>3. ASSUME NEW t \in Task, NEW stored \in BOOLEAN, IngestCreditNote(t, stored)
      PROVE  SafetyInv'
    <2>1. RowsComeFirst'
        BY <1>3
        DEF IngestCreditNote, Unseen, WithStaged, SafetyInv, TypeOK, RowsComeFirst,
            UploadComesFirst, CoroutinesBelongToCalls
    <2>2. CopiesAndOwed'
        BY <1>3
        DEF IngestCreditNote, Unseen, WithStaged, SafetyInv, TypeOK, CopiesAndOwed,
            CoroutinesBelongToCalls, RowsComeFirst, UploadComesFirst, Owed
    <2>3. CompletedBatchIsSettled'
        BY <1>3
        DEF IngestCreditNote, Unseen, WithStaged, SafetyInv, TypeOK,
            CompletedBatchIsSettled, CompletedBatchIsIdle, UploadComesFirst,
            HandedTwice, Rows
    <2>4. (CoroutinesBelongToCalls /\ UploadComesFirst /\ CompletedBatchIsIdle /\
           PollReadTheBatch /\ CompletedMessageCountsAllRows)'
        BY <1>3
        DEF IngestCreditNote, Unseen, WithStaged, SafetyInv, CoroutinesBelongToCalls,
            UploadComesFirst, CompletedBatchIsIdle, PollReadTheBatch,
            CompletedMessageCountsAllRows, HandedTwice
    <2>5. QED
        BY <2>1, <2>2, <2>3, <2>4 DEF SafetyInv
<1>4. CASE CommitUpload
    <2>1. UploadComesFirst'
        BY <1>4
        DEF CommitUpload, WithStaged, SafetyInv, TypeOK, UploadComesFirst,
            CoroutinesBelongToCalls
    <2>2. RowsComeFirst'
        BY <1>4
        DEF CommitUpload, WithStaged, SafetyInv, TypeOK, RowsComeFirst,
            UploadComesFirst, CoroutinesBelongToCalls
    <2>3. CompletedBatchIsSettled'
        BY <1>4
        DEF CommitUpload, WithStaged, SafetyInv, TypeOK, CompletedBatchIsSettled,
            CompletedBatchIsIdle, UploadComesFirst, HandedTwice, Rows
    <2>4. (CoroutinesBelongToCalls /\ CopiesAndOwed /\ CompletedBatchIsIdle /\
           PollReadTheBatch /\ CompletedMessageCountsAllRows)'
        BY <1>4
        DEF CommitUpload, WithStaged, SafetyInv, CoroutinesBelongToCalls,
            CopiesAndOwed, CompletedBatchIsIdle, PollReadTheBatch,
            CompletedMessageCountsAllRows, Owed, HandedTwice
    <2>5. QED
        BY <2>1, <2>2, <2>3, <2>4 DEF SafetyInv
<1>5. ASSUME NEW runners \in SUBSET Runner, Dispatch(runners) PROVE SafetyInv'
    <2>1. CoroutinesBelongToCalls'
        BY <1>5
        DEF Dispatch, SafetyInv, TypeOK, CoroutinesBelongToCalls, UploadComesFirst
    <2>2. UploadComesFirst'
        BY <1>5
        DEF Dispatch, SafetyInv, TypeOK, UploadComesFirst, CoroutinesBelongToCalls
    <2>3. RowsComeFirst'
        BY <1>5
        DEF Dispatch, SafetyInv, TypeOK, RowsComeFirst, UploadComesFirst,
            CoroutinesBelongToCalls
    <2>4. CompletedBatchIsIdle'
        BY <1>5
        DEF Dispatch, SafetyInv, TypeOK, CompletedBatchIsIdle, UploadComesFirst,
            HandedTwice
    <2>5. CompletedBatchIsSettled'
        BY <1>5
        DEF Dispatch, SafetyInv, TypeOK, CompletedBatchIsSettled,
            CompletedBatchIsIdle, UploadComesFirst, HandedTwice, Rows
    <2>6. CompletedMessageCountsAllRows'
        BY <1>5
        DEF Dispatch, SafetyInv, TypeOK, CompletedMessageCountsAllRows,
            PollReadTheBatch, CompletedBatchIsSettled, HandedTwice, Rows
    <2>7. (CopiesAndOwed /\ PollReadTheBatch)'
        BY <1>5 DEF Dispatch, SafetyInv, CopiesAndOwed, PollReadTheBatch, Owed
    <2>8. QED
        BY <2>1, <2>2, <2>3, <2>4, <2>5, <2>6, <2>7 DEF SafetyInv
<1>6. CASE UploadFails
    <2>1. UploadComesFirst'
        BY <1>6
        DEF UploadFails, WithStaged, SafetyInv, TypeOK, UploadComesFirst,
            CoroutinesBelongToCalls
    <2>2. RowsComeFirst'
        BY <1>6
        DEF UploadFails, WithStaged, SafetyInv, TypeOK, RowsComeFirst,
            UploadComesFirst, CoroutinesBelongToCalls
    <2>3. CompletedBatchIsIdle'
        BY <1>6
        DEF UploadFails, WithStaged, SafetyInv, TypeOK, CompletedBatchIsIdle,
            UploadComesFirst, HandedTwice
    <2>4. CompletedBatchIsSettled'
        BY <1>6
        DEF UploadFails, WithStaged, SafetyInv, TypeOK, CompletedBatchIsSettled,
            CompletedBatchIsIdle, UploadComesFirst, HandedTwice, Rows
    <2>5. PollReadTheBatch'
        BY <1>6
        DEF UploadFails, WithStaged, SafetyInv, TypeOK, PollReadTheBatch,
            UploadComesFirst
    <2>6. (CoroutinesBelongToCalls /\ CopiesAndOwed /\ CompletedMessageCountsAllRows)'
        BY <1>6
        DEF UploadFails, WithStaged, SafetyInv, CoroutinesBelongToCalls,
            CopiesAndOwed, CompletedMessageCountsAllRows, Owed, HandedTwice
    <2>7. QED
        BY <2>1, <2>2, <2>3, <2>4, <2>5, <2>6 DEF SafetyInv
<1>7. ASSUME NEW r \in Runner, Deliver(r) PROVE SafetyInv'
    <2>1. CoroutinesBelongToCalls'
        <3>1. run'[r] = "running" /\ UNCHANGED dispatched
            BY <1>7 DEF Deliver, SafetyInv, TypeOK
        <3>2. \A t \in Task : pc'[r][t] # "none" => t \in dispatched
            BY <1>7 DEF Deliver, SafetyInv, TypeOK
        <3>3. \A s \in Runner \ {r} : run'[s] = run[s] /\ pc'[s] = pc[s]
            BY <1>7 DEF Deliver, SafetyInv, TypeOK
        <3>4. QED
            <4> SUFFICES ASSUME NEW s \in Runner, NEW t \in Task, pc'[s][t] # "none"
                         PROVE  /\ run'[s] = "running" \/ (s = "local" /\ run'[s] = "dead")
                                /\ t \in dispatched'
                BY DEF CoroutinesBelongToCalls
            <4>1. CASE s = r
                BY <3>1, <3>2, <4>1
            <4>2. CASE s # r
                BY <3>1, <3>3, <4>2 DEF SafetyInv, CoroutinesBelongToCalls
            <4>3. QED
                BY <4>1, <4>2
    <2>2. UploadComesFirst'
        BY <1>7
        DEF Deliver, SafetyInv, TypeOK, UploadComesFirst, CoroutinesBelongToCalls
    <2>3. CopiesAndOwed'
        BY <1>7
        DEF Deliver, SafetyInv, TypeOK, CopiesAndOwed, CoroutinesBelongToCalls,
            RowsComeFirst, UploadComesFirst, Owed
    <2>4. CompletedBatchIsIdle'
        BY <1>7
        DEF Deliver, SafetyInv, TypeOK, CompletedBatchIsIdle, UploadComesFirst,
            HandedTwice
    <2>5. CompletedBatchIsSettled'
        BY <1>7
        DEF Deliver, SafetyInv, TypeOK, CompletedBatchIsSettled, CompletedBatchIsIdle,
            UploadComesFirst, HandedTwice, Rows
    <2>6. CompletedMessageCountsAllRows'
        BY <1>7
        DEF Deliver, SafetyInv, TypeOK, CompletedMessageCountsAllRows,
            PollReadTheBatch, CompletedBatchIsSettled, HandedTwice, Rows
    <2>7. (RowsComeFirst /\ PollReadTheBatch)'
        BY <1>7 DEF Deliver, SafetyInv, RowsComeFirst, PollReadTheBatch
    <2>8. QED
        BY <2>1, <2>2, <2>3, <2>4, <2>5, <2>6, <2>7 DEF SafetyInv
<1>8. ASSUME NEW r \in Runner, NEW t \in Task, BeginTask(r, t) PROVE SafetyInv'
    <2>1. CoroutinesBelongToCalls'
        BY <1>8
        DEF BeginTask, At, SafetyInv, TypeOK, CoroutinesBelongToCalls,
            UploadComesFirst
    <2>2. RowsComeFirst'
        BY <1>8
        DEF BeginTask, At, SafetyInv, TypeOK, RowsComeFirst,
            UploadComesFirst, CoroutinesBelongToCalls
    <2>3. CopiesAndOwed'
        BY <1>8
        DEF BeginTask, At, SafetyInv, TypeOK, CopiesAndOwed,
            CoroutinesBelongToCalls, RowsComeFirst, UploadComesFirst, Owed
    <2>4. CompletedBatchIsSettled'
        <3>1. pc[r][t] # "none"
            BY <1>8 DEF BeginTask, At
        <3>2. batch = "COMPLETED" => HandedTwice
            BY <3>1, CompletedBatchHasNoCoroutine
        <3>3. batch' = batch /\ run' = run
            BY <1>8 DEF BeginTask
        <3>4. QED
            BY <3>2, <3>3 DEF CompletedBatchIsSettled, HandedTwice
    <2>5. (UploadComesFirst /\ CompletedBatchIsIdle /\ PollReadTheBatch /\
           CompletedMessageCountsAllRows)'
        BY <1>8
        DEF BeginTask, At, SafetyInv, UploadComesFirst, CompletedBatchIsIdle,
            PollReadTheBatch, CompletedMessageCountsAllRows, HandedTwice
    <2>6. QED
        BY <2>1, <2>2, <2>3, <2>4, <2>5 DEF SafetyInv
<1>9. ASSUME NEW r \in Runner, NEW t \in Task, NEW verdict \in Verdict,
             StoreResult(r, t, verdict)
      PROVE  SafetyInv'
    <2>1. CoroutinesBelongToCalls'
        BY <1>9
        DEF StoreResult, At, SafetyInv, TypeOK, CoroutinesBelongToCalls,
            UploadComesFirst
    <2>2. RowsComeFirst'
        BY <1>9
        DEF StoreResult, At, SafetyInv, TypeOK, RowsComeFirst,
            UploadComesFirst, CoroutinesBelongToCalls
    <2>3. CopiesAndOwed'
        BY <1>9
        DEF StoreResult, At, SafetyInv, TypeOK, CopiesAndOwed,
            CoroutinesBelongToCalls, RowsComeFirst, UploadComesFirst, Owed
    <2>4. CompletedBatchIsSettled'
        BY <1>9
        DEF StoreResult, At, SafetyInv, TypeOK, CompletedBatchIsSettled,
            CompletedBatchIsIdle, UploadComesFirst, HandedTwice, Rows
    <2>5. (UploadComesFirst /\ CompletedBatchIsIdle /\ PollReadTheBatch /\
           CompletedMessageCountsAllRows)'
        BY <1>9
        DEF StoreResult, At, SafetyInv, UploadComesFirst,
            CompletedBatchIsIdle, PollReadTheBatch, CompletedMessageCountsAllRows,
            HandedTwice
    <2>6. QED
        BY <2>1, <2>2, <2>3, <2>4, <2>5 DEF SafetyInv
<1>10. ASSUME NEW r \in Runner, NEW t \in Task, FailExtraction(r, t) PROVE SafetyInv'
    <2>1. CoroutinesBelongToCalls'
        BY <1>10
        DEF FailExtraction, MarkFailed, At, SafetyInv, TypeOK,
            CoroutinesBelongToCalls, UploadComesFirst
    <2>2. RowsComeFirst'
        BY <1>10
        DEF FailExtraction, MarkFailed, At, SafetyInv, TypeOK, RowsComeFirst,
            UploadComesFirst, CoroutinesBelongToCalls
    <2>3. CopiesAndOwed'
        BY <1>10
        DEF FailExtraction, MarkFailed, At, SafetyInv, TypeOK, CopiesAndOwed,
            CoroutinesBelongToCalls, RowsComeFirst, UploadComesFirst, Owed
    <2>4. CompletedBatchIsSettled'
        BY <1>10
        DEF FailExtraction, MarkFailed, At, SafetyInv, TypeOK,
            CompletedBatchIsSettled, CompletedBatchIsIdle, UploadComesFirst,
            HandedTwice, Rows
    <2>5. (UploadComesFirst /\ CompletedBatchIsIdle /\ PollReadTheBatch /\
           CompletedMessageCountsAllRows)'
        BY <1>10
        DEF FailExtraction, MarkFailed, At, SafetyInv, UploadComesFirst,
            CompletedBatchIsIdle, PollReadTheBatch, CompletedMessageCountsAllRows,
            HandedTwice
    <2>6. QED
        BY <2>1, <2>2, <2>3, <2>4, <2>5 DEF SafetyInv
<1>11. ASSUME NEW r \in Runner, NEW t \in Task, FailAfterStore(r, t) PROVE SafetyInv'
    <2>1. CoroutinesBelongToCalls'
        BY <1>11
        DEF FailAfterStore, MarkFailed, SafetyInv, TypeOK,
            CoroutinesBelongToCalls, UploadComesFirst
    <2>2. RowsComeFirst'
        BY <1>11
        DEF FailAfterStore, MarkFailed, SafetyInv, TypeOK, RowsComeFirst,
            UploadComesFirst, CoroutinesBelongToCalls
    <2>3. CopiesAndOwed'
        BY <1>11
        DEF FailAfterStore, MarkFailed, SafetyInv, TypeOK, CopiesAndOwed,
            CoroutinesBelongToCalls, RowsComeFirst, UploadComesFirst, Owed
    <2>4. CompletedBatchIsSettled'
        BY <1>11
        DEF FailAfterStore, MarkFailed, SafetyInv, TypeOK,
            CompletedBatchIsSettled, CompletedBatchIsIdle, UploadComesFirst,
            HandedTwice, Rows
    <2>5. (UploadComesFirst /\ CompletedBatchIsIdle /\ PollReadTheBatch /\
           CompletedMessageCountsAllRows)'
        BY <1>11
        DEF FailAfterStore, MarkFailed, SafetyInv, UploadComesFirst,
            CompletedBatchIsIdle, PollReadTheBatch, CompletedMessageCountsAllRows,
            HandedTwice
    <2>6. QED
        BY <2>1, <2>2, <2>3, <2>4, <2>5 DEF SafetyInv
<1>12. ASSUME NEW r \in Runner, NEW t \in Task, CountSuccess(r, t) PROVE SafetyInv'
    <2>1. CoroutinesBelongToCalls'
        BY <1>12
        DEF CountSuccess, SafetyInv, TypeOK, CoroutinesBelongToCalls,
            UploadComesFirst
    <2>2. CopiesAndOwed'
        BY <1>12
        DEF CountSuccess, SafetyInv, TypeOK, CopiesAndOwed,
            CoroutinesBelongToCalls, RowsComeFirst, UploadComesFirst, Owed
    <2>3. (UploadComesFirst /\ RowsComeFirst /\ CompletedBatchIsIdle /\
           CompletedBatchIsSettled /\ PollReadTheBatch /\
           CompletedMessageCountsAllRows)'
        BY <1>12
        DEF CountSuccess, SafetyInv, UploadComesFirst, RowsComeFirst,
            CompletedBatchIsIdle, CompletedBatchIsSettled, PollReadTheBatch,
            CompletedMessageCountsAllRows, HandedTwice, Rows
    <2>4. QED
        BY <2>1, <2>2, <2>3 DEF SafetyInv
<1>13. ASSUME NEW r \in Runner, FinishBatch(r) PROVE SafetyInv'
    <2>1. CoroutinesBelongToCalls'
        BY <1>13
        DEF FinishBatch, EndCall, HasTurn, SafetyInv, TypeOK, CoroutinesBelongToCalls,
            UploadComesFirst
    <2>2. UploadComesFirst'
        BY <1>13
        DEF FinishBatch, EndCall, HasTurn, SafetyInv, TypeOK, UploadComesFirst,
            CoroutinesBelongToCalls
    <2>3. CopiesAndOwed'
        BY <1>13
        DEF FinishBatch, EndCall, HasTurn, SafetyInv, TypeOK, CopiesAndOwed,
            CoroutinesBelongToCalls, RowsComeFirst, UploadComesFirst, Owed
    <2>4. CompletedBatchIsIdle'
        BY <1>13
        DEF FinishBatch, EndCall, HasTurn, SafetyInv, TypeOK, CompletedBatchIsIdle,
            UploadComesFirst, HandedTwice
    <2>5. CompletedBatchIsSettled'
        BY <1>13
        DEF FinishBatch, EndCall, HasTurn, SafetyInv, TypeOK, CompletedBatchIsSettled,
            CompletedBatchIsIdle, UploadComesFirst, HandedTwice, Rows
    <2>6. PollReadTheBatch'
        BY <1>13
        DEF FinishBatch, EndCall, HasTurn, SafetyInv, TypeOK, PollReadTheBatch,
            UploadComesFirst
    <2>7. CompletedMessageCountsAllRows'
        BY <1>13
        DEF FinishBatch, EndCall, HasTurn, SafetyInv, TypeOK,
            CompletedMessageCountsAllRows, PollReadTheBatch, CompletedBatchIsSettled,
            HandedTwice, Rows
    <2>8. (RowsComeFirst)'
        BY <1>13 DEF FinishBatch, EndCall, HasTurn, SafetyInv, RowsComeFirst
    <2>9. QED
        BY <2>1, <2>2, <2>3, <2>4, <2>5, <2>6, <2>7, <2>8 DEF SafetyInv
<1>14. ASSUME NEW r \in Runner, AbortRun(r) PROVE SafetyInv'
    <2>1. CoroutinesBelongToCalls'
        BY <1>14
        DEF AbortRun, EndCall, HasTurn, SafetyInv, TypeOK, CoroutinesBelongToCalls,
            UploadComesFirst
    <2>2. UploadComesFirst'
        BY <1>14
        DEF AbortRun, EndCall, HasTurn, SafetyInv, TypeOK, UploadComesFirst,
            CoroutinesBelongToCalls
    <2>3. CopiesAndOwed'
        BY <1>14
        DEF AbortRun, EndCall, HasTurn, SafetyInv, TypeOK, CopiesAndOwed,
            CoroutinesBelongToCalls, RowsComeFirst, UploadComesFirst, Owed
    <2>4. CompletedBatchIsIdle'
        BY <1>14
        DEF AbortRun, EndCall, HasTurn, SafetyInv, TypeOK, CompletedBatchIsIdle,
            UploadComesFirst, HandedTwice
    <2>5. CompletedBatchIsSettled'
        BY <1>14
        DEF AbortRun, EndCall, HasTurn, SafetyInv, TypeOK, CompletedBatchIsSettled,
            CompletedBatchIsIdle, UploadComesFirst, HandedTwice, Rows
    <2>6. CompletedMessageCountsAllRows'
        BY <1>14
        DEF AbortRun, EndCall, HasTurn, SafetyInv, TypeOK,
            CompletedMessageCountsAllRows, PollReadTheBatch, CompletedBatchIsSettled,
            HandedTwice, Rows
    <2>7. (RowsComeFirst /\ PollReadTheBatch)'
        BY <1>14
        DEF AbortRun, EndCall, HasTurn, SafetyInv, RowsComeFirst, PollReadTheBatch
    <2>8. QED
        BY <2>1, <2>2, <2>3, <2>4, <2>5, <2>6, <2>7 DEF SafetyInv
<1>15. CASE CrashWorker
    <2>1. CoroutinesBelongToCalls'
        BY <1>15
        DEF CrashWorker, EndCall, SafetyInv, TypeOK, CoroutinesBelongToCalls,
            UploadComesFirst
    <2>2. UploadComesFirst'
        BY <1>15
        DEF CrashWorker, EndCall, SafetyInv, TypeOK, UploadComesFirst,
            CoroutinesBelongToCalls
    <2>3. CopiesAndOwed'
        BY <1>15
        DEF CrashWorker, EndCall, SafetyInv, TypeOK, CopiesAndOwed,
            CoroutinesBelongToCalls, RowsComeFirst, UploadComesFirst, Owed
    <2>4. CompletedBatchIsIdle'
        BY <1>15
        DEF CrashWorker, EndCall, SafetyInv, TypeOK, CompletedBatchIsIdle,
            UploadComesFirst, HandedTwice
    <2>5. CompletedBatchIsSettled'
        BY <1>15
        DEF CrashWorker, EndCall, SafetyInv, TypeOK, CompletedBatchIsSettled,
            CompletedBatchIsIdle, UploadComesFirst, HandedTwice, Rows
    <2>6. CompletedMessageCountsAllRows'
        BY <1>15
        DEF CrashWorker, EndCall, SafetyInv, TypeOK, CompletedMessageCountsAllRows,
            PollReadTheBatch, CompletedBatchIsSettled, HandedTwice, Rows
    <2>7. (RowsComeFirst /\ PollReadTheBatch)'
        BY <1>15 DEF CrashWorker, EndCall, SafetyInv, RowsComeFirst, PollReadTheBatch
    <2>8. QED
        BY <2>1, <2>2, <2>3, <2>4, <2>5, <2>6, <2>7 DEF SafetyInv
<1>16. CASE CrashWeb
    <2>1. CoroutinesBelongToCalls'
        BY <1>16
        DEF CrashWeb, EndCall, SafetyInv, TypeOK, CoroutinesBelongToCalls,
            UploadComesFirst
    <2>2. UploadComesFirst'
        BY <1>16
        DEF CrashWeb, EndCall, SafetyInv, TypeOK, UploadComesFirst,
            CoroutinesBelongToCalls
    <2>3. RowsComeFirst'
        BY <1>16
        DEF CrashWeb, EndCall, SafetyInv, TypeOK, RowsComeFirst, UploadComesFirst,
            CoroutinesBelongToCalls
    <2>4. CopiesAndOwed'
        BY <1>16
        DEF CrashWeb, EndCall, SafetyInv, TypeOK, CopiesAndOwed,
            CoroutinesBelongToCalls, RowsComeFirst, UploadComesFirst, Owed
    <2>5. CompletedBatchIsIdle'
        BY <1>16
        DEF CrashWeb, EndCall, SafetyInv, TypeOK, CompletedBatchIsIdle,
            UploadComesFirst, HandedTwice
    <2>6. CompletedBatchIsSettled'
        BY <1>16
        DEF CrashWeb, EndCall, SafetyInv, TypeOK, CompletedBatchIsSettled,
            CompletedBatchIsIdle, UploadComesFirst, HandedTwice, Rows
    <2>7. PollReadTheBatch'
        BY <1>16
        DEF CrashWeb, EndCall, SafetyInv, TypeOK, PollReadTheBatch, UploadComesFirst
    <2>8. CompletedMessageCountsAllRows'
        BY <1>16
        DEF CrashWeb, EndCall, SafetyInv, TypeOK, CompletedMessageCountsAllRows,
            PollReadTheBatch, CompletedBatchIsSettled, HandedTwice, Rows
    <2>9. QED
        BY <2>1, <2>2, <2>3, <2>4, <2>5, <2>6, <2>7, <2>8 DEF SafetyInv
<1>17. ASSUME NEW t \in Task, AcceptCorrection(t) PROVE SafetyInv'
    <2>1. (CoroutinesBelongToCalls /\ UploadComesFirst /\ RowsComeFirst /\ CopiesAndOwed
           /\ CompletedBatchIsIdle /\ CompletedBatchIsSettled /\ PollReadTheBatch /\
           CompletedMessageCountsAllRows)'
        BY <1>17
        DEF AcceptCorrection, SafetyInv, CoroutinesBelongToCalls, UploadComesFirst,
            RowsComeFirst, CopiesAndOwed, CompletedBatchIsIdle,
            CompletedBatchIsSettled, PollReadTheBatch, CompletedMessageCountsAllRows,
            Owed, HandedTwice, Rows
    <2>2. QED
        BY <2>1 DEF SafetyInv
<1>18. CASE PollBatch
    <2>1. PollReadTheBatch'
        BY <1>18 DEF PollBatch, SafetyInv, TypeOK, PollReadTheBatch, UploadComesFirst
    <2>2. (CoroutinesBelongToCalls /\ UploadComesFirst /\ RowsComeFirst /\ CopiesAndOwed
           /\ CompletedBatchIsIdle /\ CompletedBatchIsSettled /\
           CompletedMessageCountsAllRows)'
        BY <1>18
        DEF PollBatch, SafetyInv, CoroutinesBelongToCalls, UploadComesFirst,
            RowsComeFirst, CopiesAndOwed, CompletedBatchIsIdle,
            CompletedBatchIsSettled, CompletedMessageCountsAllRows, Owed, HandedTwice,
            Rows
    <2>3. QED
        BY <2>1, <2>2 DEF SafetyInv
<1>19. CASE PollTasks
    <2>1. PollReadTheBatch'
        BY <1>19 DEF PollTasks, SafetyInv, TypeOK, PollReadTheBatch, UploadComesFirst
    <2>2. CompletedMessageCountsAllRows'
        BY <1>19
        DEF PollTasks, SafetyInv, TypeOK, CompletedMessageCountsAllRows,
            PollReadTheBatch, CompletedBatchIsSettled, HandedTwice, Rows
    <2>3. (CoroutinesBelongToCalls /\ UploadComesFirst /\ RowsComeFirst /\ CopiesAndOwed
           /\ CompletedBatchIsIdle /\ CompletedBatchIsSettled)'
        BY <1>19
        DEF PollTasks, SafetyInv, CoroutinesBelongToCalls, UploadComesFirst,
            RowsComeFirst, CopiesAndOwed, CompletedBatchIsIdle,
            CompletedBatchIsSettled, Owed, HandedTwice, Rows
    <2>4. QED
        BY <2>1, <2>2, <2>3 DEF SafetyInv
<1>20. CASE UNCHANGED vars
    <2>1. (CoroutinesBelongToCalls /\ UploadComesFirst /\ RowsComeFirst /\ CopiesAndOwed
           /\ CompletedBatchIsIdle /\ CompletedBatchIsSettled /\ PollReadTheBatch /\
           CompletedMessageCountsAllRows)'
        BY <1>20
        DEF vars, SafetyInv, CoroutinesBelongToCalls, UploadComesFirst, RowsComeFirst,
            CopiesAndOwed, CompletedBatchIsIdle, CompletedBatchIsSettled,
            PollReadTheBatch, CompletedMessageCountsAllRows, Owed, HandedTwice, Rows
    <2>2. QED
        BY <2>1 DEF SafetyInv
<1>21. ASSUME NEW t \in Task, LoseCoroutine(t) PROVE SafetyInv'
    <2>1. /\ pc["local"][t] # "none"
          /\ run' = [run EXCEPT !["local"] = "dead"]
          /\ pc' = [pc EXCEPT !["local"][t] = "none"]
          /\ UNCHANGED <<dbVars, uploadVars, started, pollVars>>
        BY <1>21 DEF LoseCoroutine
    <2>2. run["local"] \in {"running", "dead"} /\ (batch = "COMPLETED" => HandedTwice)
        BY <2>1, CompletedBatchHasNoCoroutine
    <2>3. HandedTwice' = HandedTwice
        BY <2>1, <2>2 DEF HandedTwice, SafetyInv, TypeOK
    <2>4. CoroutinesBelongToCalls'
        BY <2>1, <2>2 DEF SafetyInv, TypeOK, CoroutinesBelongToCalls
    <2>5. UploadComesFirst'
        BY <2>1, <2>2 DEF SafetyInv, TypeOK, UploadComesFirst
    <2>6. CopiesAndOwed'
        <3>1. \A s \in Task, r \in Runner : Owed(r, s)' = Owed(r, s) \/ Owed(r, s)' = 0
            BY <2>1 DEF Owed, SafetyInv, TypeOK
        <3>2. \A s \in Task, r \in Runner : Owed(r, s) \in Nat
            BY DEF Owed
        <3>3. started \in Nat /\ \A s \in Task : copies[s] \in Nat
            BY DEF SafetyInv, TypeOK
        <3>4. QED
            BY <2>1, <3>1, <3>2, <3>3 DEF SafetyInv, CopiesAndOwed
    <2>7. (CompletedBatchIsIdle /\ CompletedBatchIsSettled)'
        BY <2>1, <2>2, <2>3 DEF CompletedBatchIsIdle, CompletedBatchIsSettled
    <2>8. (RowsComeFirst /\ PollReadTheBatch)'
        BY <2>1 DEF SafetyInv, RowsComeFirst, PollReadTheBatch
    <2>9. CompletedMessageCountsAllRows'
        BY <2>1, <2>3 DEF SafetyInv, CompletedMessageCountsAllRows
    <2>10. QED
        BY <2>4, <2>5, <2>6, <2>7, <2>8, <2>9 DEF SafetyInv
<1>22. QED
    BY <1>1, <1>2, <1>3, <1>4, <1>5, <1>6, <1>7, <1>8, <1>9, <1>10, <1>11, <1>12, <1>13,
       <1>14, <1>15, <1>16, <1>17, <1>18, <1>19, <1>20, <1>21
    DEF Next, WebStep, WorkerStep, Upload, RunStep, TaskStep, Poll

LEMMA SafetyInit == Init => SafetyInv
<1> SUFFICES ASSUME Init PROVE SafetyInv
    OBVIOUS
<1>1. TypeOK
    BY TypeInit
<1>2. CoroutinesBelongToCalls /\ UploadComesFirst /\ RowsComeFirst
    BY <1>1
    DEF Init, TypeOK, Runner, CoroutinesBelongToCalls, UploadComesFirst, RowsComeFirst
<1>3. CopiesAndOwed
    BY <1>1 DEF Init, TypeOK, Runner, CopiesAndOwed, Owed
<1>4. /\ CompletedBatchIsIdle /\ CompletedBatchIsSettled
      /\ PollReadTheBatch /\ CompletedMessageCountsAllRows
    BY DEF Init, CompletedBatchIsIdle, CompletedBatchIsSettled, PollReadTheBatch,
           CompletedMessageCountsAllRows
<1>5. QED
    BY <1>1, <1>2, <1>3, <1>4 DEF SafetyInv

\* The inductive invariant holds in every reachable state.
THEOREM SafetyHolds == Spec => []SafetyInv
<1>1. Init => SafetyInv
    BY SafetyInit
<1>2. SafetyInv /\ [Next]_vars => SafetyInv'
    BY SafetyStep
<1>3. QED
    BY <1>1, <1>2, PTL DEF Spec

-----------------------------------------------------------------------------
(***************************************************************************)
(* What the invariant gives.                                               *)
(***************************************************************************)

\* Every variable keeps its type; in particular a Celery message is never
\* retried more than max_retries times.
THEOREM TypeCorrect == Spec => []TypeOK
<1>1. SafetyInv => TypeOK
    BY DEF SafetyInv
<1>2. QED
    BY <1>1, SafetyHolds, PTL

\* A COMPLETED batch that one runner got has no row pending or processing.
THEOREM CompletedSettled == Spec => []CompletedBatchIsSettled
<1>1. SafetyInv => CompletedBatchIsSettled
    BY DEF SafetyInv
<1>2. QED
    BY <1>1, SafetyHolds, PTL

\* However often a batch is retried, resumed or handed over twice, a file's line
\* items are stored at most once per call that began.
THEOREM LinesAreBounded == Spec => []LinesPerCall
<1>1. SafetyInv => LinesPerCall
    <2> SUFFICES ASSUME SafetyInv, NEW t \in Task
                 PROVE  copies[t] <= IF t \in dispatched THEN started ELSE 1
        BY DEF LinesPerCall
    <2>1. Owed("celery", t) \in Nat /\ Owed("local", t) \in Nat
        BY DEF Owed
    <2>2. copies[t] \in Nat /\ started \in Nat
        BY DEF SafetyInv, TypeOK
    <2>3. QED
        BY <2>1, <2>2 DEF SafetyInv, CopiesAndOwed
<1>2. QED
    BY <1>1, SafetyHolds, PTL

\* No runner ever gets a batch whose upload failed.
THEOREM FailedUploadStaysPut == Spec => []FailedUploadIsNeverRun
<1>1. SafetyInv => FailedUploadIsNeverRun
    BY DEF SafetyInv, TypeOK, UploadComesFirst, FailedUploadIsNeverRun
<1>2. QED
    BY <1>1, SafetyHolds, PTL

\* A progress message that says COMPLETED counts every row as settled.
THEOREM MessageCountsAllRows == Spec => []CompletedMessageCountsAllRows
<1>1. SafetyInv => CompletedMessageCountsAllRows
    BY DEF SafetyInv
<1>2. QED
    BY <1>1, SafetyHolds, PTL

-----------------------------------------------------------------------------
(***************************************************************************)
(* A completed batch is frozen: an action property.                        *)
(***************************************************************************)

LEMMA FrozenStep ==
    ASSUME SafetyInv, [Next]_vars, batch = "COMPLETED"
    PROVE  batch' = batch /\ (~HandedTwice => UNCHANGED <<row, copies>>)
<1> USE DEF SafetyInv, TypeOK, UploadComesFirst, CompletedBatchIsIdle, HandedTwice,
            dbVars, uploadVars, runVars, pollVars, Runner
<1>1. upload = "done"
    OBVIOUS
<1>2. ASSUME NEW r \in Runner, run[r] \in {"running", "dead"} PROVE HandedTwice
    BY <1>2
<1>3. CASE Upload
    BY <1>1, <1>3 DEF Upload, CreateBatch, StageInvoice, IngestCreditNote, CommitUpload,
                      Dispatch, UploadFails
<1>4. ASSUME NEW r \in Runner, Deliver(r) \/ AbortRun(r)
      PROVE  UNCHANGED dbVars
    BY <1>4 DEF Deliver, AbortRun
<1>5. ASSUME NEW r \in Runner, FinishBatch(r)
      PROVE  batch' = batch /\ UNCHANGED <<row, copies>>
    BY <1>5 DEF FinishBatch
<1>6. ASSUME NEW r \in Runner, NEW t \in Task, TaskStep(r, t)
      PROVE  batch' = batch /\ HandedTwice
    <2>1. pc[r][t] # "none" /\ batch' = batch
        BY <1>6 DEF TaskStep, BeginTask, StoreResult, FailExtraction, FailAfterStore,
                    MarkFailed, CountSuccess, At
    <2>2. QED
        BY <2>1, <1>2 DEF CoroutinesBelongToCalls
<1>7. CASE CrashWorker \/ CrashWeb
    BY <1>7 DEF CrashWorker, CrashWeb
<1>8. ASSUME NEW t \in Task, LoseCoroutine(t) \/ AcceptCorrection(t)
      PROVE  UNCHANGED <<batch, row, copies>>
    BY <1>8 DEF LoseCoroutine, AcceptCorrection
<1>9. CASE Poll \/ UNCHANGED vars
    BY <1>9 DEF Poll, PollBatch, PollTasks, vars
<1>10. QED
    BY <1>3, <1>4, <1>5, <1>6, <1>7, <1>8, <1>9
    DEF Next, WebStep, WorkerStep, RunStep

\* Nothing appears in a COMPLETED batch, nothing in it changes status, and it
\* stays COMPLETED.
THEOREM CompletedStaysFrozen == Spec => CompletedBatchIsFrozen
<1>1. SafetyInv /\ [Next]_vars =>
        [batch = "COMPLETED" =>
            /\ batch' = batch
            /\ ~HandedTwice => UNCHANGED <<row, copies>>]_vars
    BY FrozenStep
<1>2. QED
    BY <1>1, SafetyHolds, PTL DEF Spec, CompletedBatchIsFrozen

-----------------------------------------------------------------------------
(***************************************************************************)
(* The progress counters.  They match the coroutines of every runner, the  *)
(* idle ones included: a call leaves no count behind for the next.         *)
(***************************************************************************)

Counted(r) == {t \in Task : pc[r][t] = "counted"}

CountersMatch == \A r \in Runner : completed[r] + failed[r] = Cardinality(Counted(r))

LEMMA CountedIsFinite ==
    ASSUME NEW r \in Runner
    PROVE  IsFiniteSet(Counted(r)) /\ Cardinality(Counted(r)) \in Nat
<1>1. Counted(r) \subseteq Task
    BY DEF Counted
<1>2. QED
    BY <1>1, TaskIsFinite, FS_Subset, FS_CardinalityType

\* One coroutine counted is one element more, for its own runner only.
LEMMA OneMoreCounted ==
    ASSUME TypeOK, NEW r \in Runner, NEW t \in Task, pc[r][t] # "counted",
           pc' = [pc EXCEPT ![r][t] = "counted"]
    PROVE  /\ Cardinality(Counted(r)') = Cardinality(Counted(r)) + 1
           /\ \A s \in Runner \ {r} : Counted(s)' = Counted(s)
<1>1. Counted(r)' = Counted(r) \cup {t} /\ t \notin Counted(r)
    BY DEF Counted, TypeOK
<1>2. Cardinality(Counted(r) \cup {t}) = Cardinality(Counted(r)) + 1
    BY <1>1, CountedIsFinite, FS_AddElement
<1>3. \A s \in Runner \ {r} : Counted(s)' = Counted(s)
    BY DEF Counted, TypeOK
<1>4. QED
    BY <1>1, <1>2, <1>3

\* The end of a call clears its coroutines and its counters together.
LEMMA CallCleared ==
    ASSUME TypeOK, CountersMatch, NEW r \in Runner, EndCall(r)
    PROVE  CountersMatch'
<1>1. Counted(r)' = {} /\ \A s \in Runner \ {r} : Counted(s)' = Counted(s)
    BY DEF EndCall, Counted, TypeOK
<1>2. completed'[r] = 0 /\ failed'[r] = 0
    BY DEF EndCall, TypeOK
<1>3. \A s \in Runner \ {r} : completed'[s] = completed[s] /\ failed'[s] = failed[s]
    BY DEF EndCall, TypeOK
<1>4. Cardinality({}) = 0
    BY FS_EmptySet
<1>5. QED
    BY <1>1, <1>2, <1>3, <1>4 DEF CountersMatch

LEMMA CountersStep == SafetyInv /\ CountersMatch /\ [Next]_vars => CountersMatch'
<1> SUFFICES ASSUME SafetyInv, CountersMatch, [Next]_vars
             PROVE  CountersMatch'
    OBVIOUS
<1>0. TypeOK /\ CoroutinesBelongToCalls
    BY DEF SafetyInv
<1> USE <1>0
<1>1. ASSUME UNCHANGED <<pc, completed, failed>> PROVE CountersMatch'
    BY <1>1 DEF CountersMatch, Counted
<1>2. ASSUME NEW r \in Runner, NEW t \in Task, pc[r][t] # "counted",
             pc' = [pc EXCEPT ![r][t] = "counted"],
             \/ /\ completed' = [completed EXCEPT ![r] = @ + 1]
                /\ UNCHANGED failed
             \/ /\ failed' = [failed EXCEPT ![r] = @ + 1]
                /\ UNCHANGED completed
      PROVE  CountersMatch'
    <2>1. completed[r] \in Nat /\ failed[r] \in Nat
        BY DEF TypeOK
    <2>2. completed'[r] + failed'[r] = completed[r] + failed[r] + 1
        BY <1>2, <2>1 DEF TypeOK
    <2>3. \A s \in Runner \ {r} : completed'[s] = completed[s] /\ failed'[s] = failed[s]
        BY <1>2 DEF TypeOK
    <2>4. QED
        BY <1>2, <2>2, <2>3, OneMoreCounted DEF CountersMatch
<1>3. CASE Upload
    BY <1>1, <1>3
    DEF Upload, CreateBatch, StageInvoice, IngestCreditNote, CommitUpload, Dispatch,
        UploadFails, runVars
<1>4. ASSUME NEW r \in Runner, Deliver(r) PROVE CountersMatch'
    <2>1. Counted(r) = {} /\ Counted(r)' = {}
        BY <1>4 DEF Deliver, Counted, CoroutinesBelongToCalls, TypeOK
    <2>2. \A s \in Runner \ {r} : Counted(s)' = Counted(s)
        BY <1>4 DEF Deliver, Counted, TypeOK
    <2>3. UNCHANGED <<completed, failed>>
        BY <1>4 DEF Deliver
    <2>4. QED
        BY <2>1, <2>2, <2>3 DEF CountersMatch
<1>5. ASSUME NEW r \in Runner, NEW t \in Task,
             BeginTask(r, t) \/ \E verdict \in Verdict : StoreResult(r, t, verdict)
      PROVE  CountersMatch'
    <2>1. Counted(r)' = Counted(r) /\ \A s \in Runner \ {r} : Counted(s)' = Counted(s)
        BY <1>5 DEF BeginTask, StoreResult, At, Counted, TypeOK
    <2>2. UNCHANGED <<completed, failed>>
        BY <1>5 DEF BeginTask, StoreResult
    <2>3. QED
        BY <2>1, <2>2 DEF CountersMatch
<1>6. ASSUME NEW r \in Runner, NEW t \in Task,
             FailExtraction(r, t) \/ FailAfterStore(r, t) \/ CountSuccess(r, t)
      PROVE  CountersMatch'
    BY <1>2, <1>6 DEF FailExtraction, FailAfterStore, MarkFailed, CountSuccess, At
<1>7. ASSUME NEW r \in Runner, FinishBatch(r) \/ AbortRun(r) PROVE CountersMatch'
    BY <1>7, CallCleared DEF FinishBatch, AbortRun
<1>8. CASE CrashWorker \/ CrashWeb
    BY <1>8, CallCleared DEF CrashWorker, CrashWeb, Runner
<1>9. ASSUME NEW t \in Task, AcceptCorrection(t) PROVE CountersMatch'
    BY <1>1, <1>9 DEF AcceptCorrection, runVars
<1>10. CASE Poll \/ UNCHANGED vars
    BY <1>1, <1>10 DEF Poll, PollBatch, PollTasks, runVars, vars
<1>11. ASSUME NEW t \in Task, LoseCoroutine(t) PROVE CountersMatch'
    <2>1. \A s \in Runner : Counted(s)' = Counted(s)
        BY <1>11 DEF LoseCoroutine, Counted, Runner, TypeOK
    <2>2. UNCHANGED <<completed, failed>>
        BY <1>11 DEF LoseCoroutine
    <2>3. QED
        BY <2>1, <2>2 DEF CountersMatch
<1>12. QED
    BY <1>3, <1>4, <1>5, <1>6, <1>7, <1>8, <1>9, <1>10, <1>11
    DEF Next, WebStep, WorkerStep, RunStep, TaskStep, Runner

\* The counters account for every coroutine that has returned, exactly once.
THEOREM CountersAreExact == Spec => []CountersAccountForCoroutines
<1>1. Init => CountersMatch
    <2> SUFFICES ASSUME Init, NEW r \in Runner
                 PROVE  completed[r] + failed[r] = Cardinality(Counted(r))
        BY DEF CountersMatch
    <2>1. Counted(r) = {} /\ completed[r] + failed[r] = 0
        BY DEF Init, Counted
    <2>2. QED
        BY <2>1, FS_EmptySet
<1>2. CountersMatch => CountersAccountForCoroutines
    BY DEF CountersMatch, Counted, CountersAccountForCoroutines
<1>3. QED
    BY <1>1, <1>2, CountersStep, SafetyHolds, PTL DEF Spec
=============================================================================
