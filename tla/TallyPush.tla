----------------------------- MODULE TallyPush -----------------------------
(***************************************************************************)
(* main.push_batch_to_tally beside the batch pipeline: the endpoint takes  *)
(* the batch's ERP_READY tasks, and for each of their line items asks the  *)
(* push log whether it was pushed, sends a voucher to TallyPrime and logs  *)
(* the outcome.  Tally is outside the transaction: a reply can be lost     *)
(* after the voucher was booked, and the process can stop before the log   *)
(* row is committed.  The worker keeps writing the same tasks meanwhile.   *)
(* The k-th stored copy of a file's lines is the item <<t, k>>.            *)
(* The progress socket reads only, and is left out of the composition.     *)
(***************************************************************************)
EXTENDS BatchPipeline

CONSTANT MaxPushes   \* bound of the model: calls of the push endpoint

ASSUME MaxPushesIsNatural == MaxPushes \in Nat

VARIABLES
    pushing,      \* the endpoint is executing
    todo,         \* tasks of its ERP_READY query it has not come to
    lines,        \* line items of the current task it has not come to
    inFlight,     \* the item whose outcome is known and not yet logged
    answer,       \* that outcome, as push_voucher reports it
    vouchers,     \* vouchers TallyPrime holds per item
    pushed,       \* TallyPushLog rows with status "success" per item
    unconfirmed,  \* attempts logged as "failed" or never logged, per item
    pushes        \* calls of the endpoint so far

callVars  == <<pushing, todo, lines, inFlight, answer>>
logVars   == <<vouchers, pushed, unconfirmed>>
tallyVars == <<callVars, logVars, pushes>>

\* process_batch runs at most once per delivery, and in one local fallback.
MaxCopies == MaxRetries + 2
Item      == Task \X (1..MaxCopies)

PushTypeOK ==
    /\ pushing \in BOOLEAN
    /\ todo \in SUBSET Task
    /\ lines \in SUBSET Item
    /\ inFlight \in SUBSET Item
    /\ answer \in {"none", "success", "failed"}
    /\ vouchers \in [Item -> Nat]
    /\ pushed \in [Item -> Nat]
    /\ unconfirmed \in [Item -> Nat]
    /\ pushes \in Nat

PushInit ==
    /\ Init
    /\ pushing = FALSE
    /\ todo = {}
    /\ lines = {}
    /\ inFlight = {}
    /\ answer = "none"
    /\ vouchers = [i \in Item |-> 0]
    /\ pushed = [i \in Item |-> 0]
    /\ unconfirmed = [i \in Item |-> 0]
    /\ pushes = 0

-----------------------------------------------------------------------------
\* The tasks are selected once; Tally answered the connection test.
StartPush ==
    /\ WebFree
    /\ ~pushing
    /\ pushes < MaxPushes
    /\ \E t \in Task : recon[t] = "ERP_READY"
    /\ pushing' = TRUE
    /\ todo' = {t \in Task : recon[t] = "ERP_READY"}
    /\ pushes' = pushes + 1
    /\ UNCHANGED <<vars, lines, inFlight, answer, logVars>>

\* Every commit expires the session's objects, so the lines of a task are read
\* when the loop comes to it; its recon_status is not read again.
OpenTask(t) ==
    /\ pushing
    /\ lines = {}
    /\ inFlight = {}
    /\ t \in todo
    /\ todo' = todo \ {t}
    /\ lines' = {i \in Item : i[1] = t /\ i[2] <= copies[t]}
    /\ UNCHANGED <<vars, pushing, inFlight, answer, logVars, pushes>>

\* Mutant: only a row of the running call counts as pushed.
PushedInThisCall(i) == pushed[i] > 0 /\ i \in inFlight

AlreadyPushed(i) == pushed[i] > 0

SkipLine(i) ==
    /\ pushing
    /\ inFlight = {}
    /\ i \in lines
    /\ AlreadyPushed(i)
    /\ lines' = lines \ {i}
    /\ UNCHANGED <<vars, pushing, todo, inFlight, answer, logVars, pushes>>

\* push_voucher: Tally books the voucher or not, and its answer arrives or not.
\* Only an answer that says "created" is a success.
SendVoucher(i, booked, answered) ==
    /\ pushing
    /\ inFlight = {}
    /\ i \in lines
    /\ ~AlreadyPushed(i)
    /\ lines' = lines \ {i}
    /\ inFlight' = {i}
    /\ answer' = IF booked /\ answered THEN "success" ELSE "failed"
    /\ vouchers' = [vouchers EXCEPT ![i] = IF booked THEN @ + 1 ELSE @]
    /\ UNCHANGED <<vars, pushing, todo, pushed, unconfirmed, pushes>>

\* Mutant: only a success is logged.
LogSuccessOnly(i) ==
    /\ pushing
    /\ i \in inFlight
    /\ inFlight' = {}
    /\ answer' = "none"
    /\ pushed' = [pushed EXCEPT ![i] = IF answer = "success" THEN @ + 1 ELSE @]
    /\ UNCHANGED <<vars, pushing, todo, lines, vouchers, unconfirmed, pushes>>

\* One log row per attempt, "success" or "failed", committed on its own; only
\* "success" rows are ever read back.
LogPush(i) ==
    /\ pushing
    /\ i \in inFlight
    /\ inFlight' = {}
    /\ answer' = "none"
    /\ IF answer = "success"
       THEN pushed' = [pushed EXCEPT ![i] = @ + 1] /\ UNCHANGED unconfirmed
       ELSE unconfirmed' = [unconfirmed EXCEPT ![i] = @ + 1] /\ UNCHANGED pushed
    /\ UNCHANGED <<vars, pushing, todo, lines, vouchers, pushes>>

EndPush ==
    /\ pushing
    /\ todo = {}
    /\ lines = {}
    /\ inFlight = {}
    /\ pushing' = FALSE
    /\ UNCHANGED <<vars, todo, lines, inFlight, answer, logVars, pushes>>

\* The endpoint's local state is gone; what Tally booked for the item in flight
\* stays booked and unlogged.
DropCall ==
    /\ pushing' = FALSE
    /\ todo' = {}
    /\ lines' = {}
    /\ inFlight' = {}
    /\ answer' = "none"
    /\ unconfirmed' =
        [i \in Item |-> IF i \in inFlight THEN unconfirmed[i] + 1 ELSE unconfirmed[i]]
    /\ UNCHANGED <<vouchers, pushed, pushes>>

\* A commit of the endpoint raises.
PushFails == pushing /\ DropCall /\ UNCHANGED vars

PushStep ==
    \/ StartPush
    \/ \E t \in Task : OpenTask(t)
    \/ \E i \in Item : SkipLine(i) \/ LogPush(i)
    \/ \E i \in Item, booked, answered \in BOOLEAN : SendVoucher(i, booked, answered)
    \/ EndPush
    \/ PushFails

\* Mutant: the endpoint awaits Tally, and handlers run meanwhile.
WebTurnWhilePushing == WebStep

\* The endpoint never awaits, so nothing else of the web process runs inside it.
WebTurn == ~pushing /\ WebStep

PushNext ==
    \/ WebTurn /\ UNCHANGED tallyVars
    \/ WorkerStep /\ UNCHANGED tallyVars
    \/ CrashWeb /\ DropCall
    \/ PushStep

PushSpec == PushInit /\ [][PushNext]_<<vars, tallyVars>>

-----------------------------------------------------------------------------
(***************************************************************************)
(* Properties.                                                             *)
(***************************************************************************)

\* The attempt whose outcome waits for its log row.
OpenAttempt(i) == IF i \in inFlight THEN 1 ELSE 0

\* The push log against Tally's books: a line item has at most one success row,
\* a success row has a voucher behind it, and every voucher comes from an
\* attempt that was logged, was interrupted, or is in flight.  So a second
\* voucher needs an earlier attempt whose answer or log row was lost.
LogAccountsForVouchers ==
    \A i \in Item :
        /\ pushed[i] <= 1
        /\ pushed[i] > 0 => vouchers[i] > 0
        /\ vouchers[i] <= pushed[i] + unconfirmed[i] + OpenAttempt(i)

\* The push log implements the ledger: an item recorded as pushed is never
\* booked again, across calls of the endpoint, crashes and lost replies.
Ledger == INSTANCE VoucherLedger
    WITH booked <- vouchers, recorded <- {i \in Item : pushed[i] > 0}

ImplementsLedger == Ledger!Spec

\* While a batch is processed by one call only, a voucher is booked for a line
\* item whose task is ERP_READY at that moment, although the verdict was read
\* when the call began.  (A second call may re-verdict the task meanwhile.)
VoucherIsApproved ==
    [][\A i \in Item : vouchers'[i] # vouchers[i] /\ started <= 1
            => recon[i[1]] = "ERP_READY"]_<<vars, tallyVars>>

\* Idempotent by design: pushing twice creates no duplicate voucher.
NoDuplicateVoucher == \A i \in Item : vouchers[i] <= 1
=============================================================================
