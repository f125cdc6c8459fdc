-------------------------- MODULE TallyPushProofs --------------------------
(***************************************************************************)
(* Proofs about TallyPush, for any number of files, retries and calls of   *)
(* the endpoint: the push log implements the voucher ledger, every voucher *)
(* is accounted for, and a batch processed by one call pushes only what is *)
(* ERP_READY when its voucher is booked.                                   *)
(***************************************************************************)
EXTENDS TallyPush, BatchPipelineProofs

allVars == <<vars, tallyVars>>

-----------------------------------------------------------------------------
(***************************************************************************)
(* The endpoint's own state.                                               *)
(***************************************************************************)

\* One attempt at a time, for an item with no success row; a success is
\* reported only for a voucher Tally holds.
AttemptIsFresh ==
    /\ \A i, j \in inFlight : i = j
    /\ \A i \in inFlight : pushed[i] = 0
    /\ answer = "success" => \A i \in inFlight : vouchers[i] > 0

LedgerInv == PushTypeOK /\ AttemptIsFresh /\ LogAccountsForVouchers

LEMMA LedgerInit == PushInit => LedgerInv
<1> SUFFICES ASSUME PushInit PROVE LedgerInv
    OBVIOUS
<1>1. PushTypeOK
    BY DEF PushInit, PushTypeOK
<1>2. AttemptIsFresh
    BY DEF PushInit, AttemptIsFresh
<1>3. LogAccountsForVouchers
    BY DEF PushInit, LogAccountsForVouchers, OpenAttempt
<1>4. QED
    BY <1>1, <1>2, <1>3 DEF LedgerInv

LEMMA LedgerStep == LedgerInv /\ [PushNext]_allVars => LedgerInv'
<1> SUFFICES ASSUME LedgerInv, [PushNext]_allVars
             PROVE  LedgerInv'
    OBVIOUS
<1> USE DEF LedgerInv, PushTypeOK, callVars, logVars
<1>1. ASSUME UNCHANGED tallyVars PROVE LedgerInv'
    BY <1>1 DEF tallyVars, AttemptIsFresh, LogAccountsForVouchers, OpenAttempt
<1>2. CASE StartPush
    BY <1>2 DEF StartPush, AttemptIsFresh, LogAccountsForVouchers, OpenAttempt
<1>3. ASSUME NEW t \in Task, OpenTask(t) PROVE LedgerInv'
    BY <1>3 DEF OpenTask, AttemptIsFresh, LogAccountsForVouchers, OpenAttempt
<1>4. ASSUME NEW i \in Item, SkipLine(i) PROVE LedgerInv'
    BY <1>4 DEF SkipLine, AttemptIsFresh, LogAccountsForVouchers, OpenAttempt
<1>5. ASSUME NEW i \in Item, NEW booked \in BOOLEAN, NEW answered \in BOOLEAN,
             SendVoucher(i, booked, answered)
      PROVE  LedgerInv'
    <2>1. PushTypeOK'
        BY <1>5 DEF SendVoucher
    <2>2. AttemptIsFresh'
        BY <1>5 DEF SendVoucher, AlreadyPushed, AttemptIsFresh
    <2>3. LogAccountsForVouchers'
        BY <1>5 DEF SendVoucher, AlreadyPushed, LogAccountsForVouchers, OpenAttempt
    <2>4. QED
        BY <2>1, <2>2, <2>3
<1>6. ASSUME NEW i \in Item, LogPush(i) PROVE LedgerInv'
    <2>1. PushTypeOK'
        BY <1>6 DEF LogPush
    <2>2. AttemptIsFresh'
        BY <1>6 DEF LogPush, AttemptIsFresh
    <2>3. inFlight = {i} /\ pushed[i] = 0
        BY <1>6 DEF LogPush, AttemptIsFresh
    <2>4. LogAccountsForVouchers'
        <3>1. CASE answer = "success"
            BY <1>6, <2>3, <3>1 DEF LogPush, AttemptIsFresh, LogAccountsForVouchers, OpenAttempt
        <3>2. CASE answer # "success"
            BY <1>6, <2>3, <3>2 DEF LogPush, LogAccountsForVouchers, OpenAttempt
        <3>3. QED
            BY <3>1, <3>2
    <2>5. QED
        BY <2>1, <2>2, <2>4
<1>7. CASE EndPush
    BY <1>7 DEF EndPush, AttemptIsFresh, LogAccountsForVouchers, OpenAttempt
<1>8. ASSUME DropCall PROVE LedgerInv'
    <2>1. PushTypeOK'
        <3>1. unconfirmed' \in [Item -> Nat]
            BY <1>8 DEF DropCall
        <3>2. QED
            BY <1>8, <3>1 DEF DropCall
    <2>2. AttemptIsFresh'
        BY <1>8 DEF DropCall, AttemptIsFresh
    <2>3. \A i \in Item : unconfirmed'[i] = unconfirmed[i] + OpenAttempt(i)
        BY <1>8 DEF DropCall, OpenAttempt
    <2>4. LogAccountsForVouchers'
        BY <1>8, <2>3 DEF DropCall, LogAccountsForVouchers, OpenAttempt
    <2>5. QED
        BY <2>1, <2>2, <2>4
<1>9. QED
    BY <1>1, <1>2, <1>3, <1>4, <1>5, <1>6, <1>7, <1>8
    DEF PushNext, PushStep, PushFails, allVars

\* Type correctness of the push: an attempt ends as success or failed, and no
\* count of vouchers or log rows goes below zero.
THEOREM PushTypeCorrect == PushSpec => []PushTypeOK
<1>1. LedgerInv => PushTypeOK
    BY DEF LedgerInv
<1>2. QED
    BY <1>1, LedgerInit, LedgerStep, PTL DEF PushSpec, allVars

\* The push log accounts for every voucher Tally holds.
THEOREM LogIsAccurate == PushSpec => []LogAccountsForVouchers
<1>1. LedgerInv => LogAccountsForVouchers
    BY DEF LedgerInv
<1>2. QED
    BY <1>1, LedgerInit, LedgerStep, PTL DEF PushSpec, allVars

-----------------------------------------------------------------------------
(***************************************************************************)
(* Refinement: the push log implements the voucher ledger.                 *)
(***************************************************************************)

LEMMA LedgerInitMaps == PushInit => Ledger!Init
BY DEF PushInit, Ledger!Init

LEMMA LedgerStepMaps ==
    LedgerInv /\ [PushNext]_allVars =>
        [Ledger!Next]_<<vouchers, {i \in Item : pushed[i] > 0}>>
<1> SUFFICES ASSUME LedgerInv, [PushNext]_allVars
             PROVE  [Ledger!Next]_<<vouchers, {i \in Item : pushed[i] > 0}>>
    OBVIOUS
<1> USE DEF LedgerInv, PushTypeOK, callVars, logVars
<1>1. ASSUME UNCHANGED <<vouchers, pushed>>
      PROVE  UNCHANGED <<vouchers, {i \in Item : pushed[i] > 0}>>
    BY <1>1
<1>2. ASSUME NEW i \in Item, NEW booked \in BOOLEAN, NEW answered \in BOOLEAN,
             SendVoucher(i, booked, answered)
      PROVE  Ledger!Next \/ UNCHANGED <<vouchers, {j \in Item : pushed[j] > 0}>>
    <2>1. CASE booked
        BY <1>2, <2>1 DEF SendVoucher, AlreadyPushed, Ledger!Next, Ledger!Book
    <2>2. CASE ~booked
        BY <1>2, <2>2 DEF SendVoucher
    <2>3. QED
        BY <2>1, <2>2
<1>3. ASSUME NEW i \in Item, LogPush(i)
      PROVE  Ledger!Next \/ UNCHANGED <<vouchers, {j \in Item : pushed[j] > 0}>>
    <2>1. pushed[i] = 0 /\ (answer = "success" => vouchers[i] > 0)
        BY <1>3 DEF LogPush, AttemptIsFresh
    <2>2. CASE answer = "success"
        <3>1. {j \in Item : pushed[j] > 0}' = {j \in Item : pushed[j] > 0} \cup {i}
            BY <1>3, <2>2 DEF LogPush
        <3>2. QED
            BY <1>3, <2>1, <2>2, <3>1 DEF LogPush, Ledger!Next, Ledger!Record
    <2>3. CASE answer # "success"
        BY <1>3, <2>3 DEF LogPush
    <2>4. QED
        BY <2>2, <2>3
<1>4. CASE UNCHANGED tallyVars
    BY <1>1, <1>4 DEF tallyVars
<1>5. CASE StartPush \/ EndPush \/ DropCall
    BY <1>1, <1>5 DEF StartPush, EndPush, DropCall
<1>6. ASSUME NEW t \in Task, OpenTask(t)
      PROVE  UNCHANGED <<vouchers, {j \in Item : pushed[j] > 0}>>
    BY <1>1, <1>6 DEF OpenTask
<1>7. ASSUME NEW i \in Item, SkipLine(i)
      PROVE  UNCHANGED <<vouchers, {j \in Item : pushed[j] > 0}>>
    BY <1>1, <1>7 DEF SkipLine
<1>8. QED
    BY <1>2, <1>3, <1>4, <1>5, <1>6, <1>7
    DEF PushNext, PushStep, PushFails, allVars

\* Once a line item is recorded as pushed no call books it again, and nothing
\* is recorded that Tally does not hold.
THEOREM PushImplementsLedger == PushSpec => ImplementsLedger
<1>1. PushInit => LedgerInv
    BY LedgerInit
<1>2. QED
    BY <1>1, LedgerStep, LedgerInitMaps, LedgerStepMaps, PTL
    DEF PushSpec, ImplementsLedger, Ledger!Spec, allVars

-----------------------------------------------------------------------------
(***************************************************************************)
(* The approval gate.  While one call has begun, a task with a verdict has *)
(* its copy stored, so by CopiesAndOwed the call owes it nothing more and  *)
(* its verdict can only be changed by a person, who cannot interrupt the   *)
(* endpoint.                                                               *)
(***************************************************************************)

\* A verdict comes with a copy of the lines, of a file that was handed over.
VerdictHasLines ==
    \A t \in Task : recon[t] = "ERP_READY" => copies[t] >= 1 /\ t \in dispatched

\* What the endpoint has still to push was ERP_READY and still is.
TodoIsApproved ==
    /\ pushing /\ started <= 1 =>
        /\ \A t \in todo : recon[t] = "ERP_READY"
        /\ \A i \in lines : recon[i[1]] = "ERP_READY"
    /\ ~pushing => todo = {} /\ lines = {}

GateInv == SafetyInv /\ LedgerInv /\ VerdictHasLines /\ TodoIsApproved

LEMMA PushStepsAreSteps == [PushNext]_allVars => [Next]_vars
BY DEF PushNext, PushStep, WebTurn, Next, allVars, StartPush, OpenTask, SkipLine,
       SendVoucher, LogPush, EndPush, PushFails

\* The worker does not touch the verdict of a task it owes nothing.
LEMMA VerdictStands ==
    ASSUME SafetyInv, VerdictHasLines, WorkerStep, started' <= 1,
           NEW t \in Task, recon[t] = "ERP_READY"
    PROVE  recon'[t] = recon[t]
<1>1. started <= 1 /\ started \in Nat /\ copies[t] \in Nat
    BY DEF SafetyInv, TypeOK, WorkerStep, RunStep, TaskStep, Deliver, BeginTask, StoreResult,
           FailExtraction, FailAfterStore, MarkFailed, CountSuccess, FinishBatch, AbortRun,
           CrashWorker, runVars
<1>2. pc["celery"][t] \notin {"load", "extract"}
    BY <1>1 DEF SafetyInv, CopiesAndOwed, Owed, VerdictHasLines
<1>3. ASSUME NEW s \in Task, NEW verdict \in Verdict, StoreResult("celery", s, verdict)
      PROVE  recon'[t] = recon[t]
    BY <1>2, <1>3 DEF StoreResult, At, SafetyInv, TypeOK
<1>4. QED
    BY <1>3
    DEF WorkerStep, RunStep, TaskStep, Deliver, BeginTask, FailExtraction, FailAfterStore,
        MarkFailed, CountSuccess, FinishBatch, AbortRun, CrashWorker, dbVars

LEMMA VerdictHasLinesStep ==
    SafetyInv /\ VerdictHasLines /\ [Next]_vars => VerdictHasLines'
<1> SUFFICES ASSUME SafetyInv, VerdictHasLines, [Next]_vars
             PROVE  VerdictHasLines'
    OBVIOUS
<1> USE DEF SafetyInv, TypeOK, VerdictHasLines, dbVars, uploadVars, runVars, pollVars
<1>1. ASSUME NEW t \in Task, NEW stored \in BOOLEAN, IngestCreditNote(t, stored)
      PROVE  VerdictHasLines'
    BY <1>1 DEF IngestCreditNote
<1>2. CASE Upload
    BY <1>1, <1>2
    DEF Upload, CreateBatch, StageInvoice, CommitUpload, Dispatch, UploadFails
<1>3. ASSUME NEW r \in Runner, NEW t \in Task, NEW verdict \in Verdict,
             StoreResult(r, t, verdict)
      PROVE  VerdictHasLines'
    BY <1>3 DEF StoreResult, At, CoroutinesBelongToCalls
<1>4. ASSUME NEW r \in Runner, NEW t \in Task,
             \/ BeginTask(r, t) \/ FailExtraction(r, t)
             \/ FailAfterStore(r, t) \/ CountSuccess(r, t)
      PROVE  VerdictHasLines'
    BY <1>4 DEF BeginTask, FailExtraction, FailAfterStore, MarkFailed, CountSuccess
<1>5. ASSUME NEW r \in Runner, Deliver(r) \/ FinishBatch(r) \/ AbortRun(r)
      PROVE  VerdictHasLines'
    BY <1>5 DEF Deliver, FinishBatch, AbortRun
<1>6. CASE CrashWorker \/ CrashWeb
    BY <1>6 DEF CrashWorker, CrashWeb
<1>7. ASSUME NEW t \in Task, LoseCoroutine(t) \/ AcceptCorrection(t) PROVE VerdictHasLines'
    BY <1>7 DEF LoseCoroutine, AcceptCorrection
<1>8. CASE Poll \/ UNCHANGED vars
    BY <1>8 DEF Poll, PollBatch, PollTasks, vars
<1>9. QED
    BY <1>2, <1>3, <1>4, <1>5, <1>6, <1>7, <1>8
    DEF Next, WebStep, WorkerStep, RunStep, TaskStep, Runner

LEMMA GateStep == GateInv /\ [PushNext]_allVars => GateInv'
<1> SUFFICES ASSUME GateInv, [PushNext]_allVars
             PROVE  GateInv'
    OBVIOUS
<1>1. SafetyInv' /\ VerdictHasLines'
    BY PushStepsAreSteps, SafetyStep, VerdictHasLinesStep DEF GateInv
<1>2. LedgerInv'
    BY LedgerStep DEF GateInv
<1>3. TodoIsApproved'
    <2> USE DEF GateInv, LedgerInv, TodoIsApproved, PushTypeOK, callVars, logVars, tallyVars
    <2>1. ASSUME WebTurn, UNCHANGED tallyVars PROVE TodoIsApproved'
        BY <2>1 DEF WebTurn
    <2>2. ASSUME WorkerStep, UNCHANGED tallyVars PROVE TodoIsApproved'
        <3>1. started' <= 1 => started <= 1
            BY <2>2
            DEF SafetyInv, TypeOK, WorkerStep, RunStep, TaskStep, Deliver, BeginTask,
                StoreResult, FailExtraction, FailAfterStore, MarkFailed, CountSuccess,
                FinishBatch, AbortRun, CrashWorker, runVars
        <3>2. \A i \in lines : i[1] \in Task
            BY DEF Item
        <3>3. QED
            BY <2>2, <3>1, <3>2, VerdictStands
    <2>3. ASSUME DropCall PROVE TodoIsApproved'
        BY <2>3 DEF DropCall
    <2>4. CASE StartPush
        BY <2>4 DEF StartPush, vars, dbVars, runVars
    <2>5. ASSUME NEW t \in Task, OpenTask(t) PROVE TodoIsApproved'
        BY <2>5 DEF OpenTask, vars, dbVars, runVars
    <2>6. ASSUME NEW i \in Item, SkipLine(i) PROVE TodoIsApproved'
        BY <2>6 DEF SkipLine, vars, dbVars, runVars
    <2>7. ASSUME NEW i \in Item, NEW booked \in BOOLEAN, NEW answered \in BOOLEAN,
                 SendVoucher(i, booked, answered)
          PROVE  TodoIsApproved'
        BY <2>7 DEF SendVoucher, vars, dbVars, runVars
    <2>8. ASSUME NEW i \in Item, LogPush(i) PROVE TodoIsApproved'
        BY <2>8 DEF LogPush, vars, dbVars, runVars
    <2>9. CASE EndPush
        BY <2>9 DEF EndPush
    <2>10. CASE UNCHANGED allVars
        BY <2>10 DEF allVars, vars, dbVars, runVars
    <2>11. QED
        BY <2>1, <2>2, <2>3, <2>4, <2>5, <2>6, <2>7, <2>8, <2>9, <2>10
        DEF PushNext, PushStep, PushFails, allVars
<1>4. QED
    BY <1>1, <1>2, <1>3 DEF GateInv

LEMMA GateInit == PushInit => GateInv
<1> SUFFICES ASSUME PushInit PROVE GateInv
    OBVIOUS
<1>1. SafetyInv
    BY SafetyInit DEF PushInit
<1>2. LedgerInv
    BY LedgerInit
<1>3. VerdictHasLines /\ TodoIsApproved
    BY DEF PushInit, Init, VerdictHasLines, TodoIsApproved
<1>4. QED
    BY <1>1, <1>2, <1>3 DEF GateInv

\* While one call processes the batch, a voucher is only booked for a task that
\* is ERP_READY when it is booked.
THEOREM ApprovalGateHolds == PushSpec => VoucherIsApproved
<1>1. GateInv /\ [PushNext]_allVars =>
        [\A i \in Item : vouchers'[i] # vouchers[i] /\ started <= 1
            => recon[i[1]] = "ERP_READY"]_allVars
    <2> SUFFICES ASSUME GateInv, PushNext, NEW i \in Item, vouchers'[i] # vouchers[i],
                        started <= 1
                 PROVE  recon[i[1]] = "ERP_READY"
        BY DEF allVars
    <2>1. PICK j \in Item, booked \in BOOLEAN, answered \in BOOLEAN :
              SendVoucher(j, booked, answered)
        BY DEF PushNext, PushStep, PushFails, StartPush, OpenTask, SkipLine, LogPush,
               EndPush, DropCall, tallyVars, logVars
    <2>2. i = j
        BY <2>1 DEF SendVoucher, GateInv, LedgerInv, PushTypeOK
    <2>3. QED
        BY <2>1, <2>2 DEF SendVoucher, GateInv, TodoIsApproved
<1>2. QED
    BY <1>1, GateInit, GateStep, PTL DEF PushSpec, VoucherIsApproved, allVars
=============================================================================
