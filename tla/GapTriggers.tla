---------------------------- MODULE GapTriggers ----------------------------
(***************************************************************************)
(* The outbound messages about GSTR-2B gaps of one registration:           *)
(* services/gstr2b_trigger_engine.py and the endpoints that call it.       *)
(* An export of a reconciliation for a registration syncs the triggers     *)
(* with the gaps that export shows, if the commit succeeds; an accountant  *)
(* approves or rejects client requests; a run sends what is due, and       *)
(* commits once, after its last message.  The endpoints are async          *)
(* functions without an await, so the event loop runs each of them as one  *)
(* step; the process may die inside a run.                                 *)
(*                                                                         *)
(* A gap is the triggers table's identity (counterparty, invoice, bucket). *)
(* Time is in ticks, ages stop at Month.                                   *)
(***************************************************************************)
EXTENDS Naturals, FiniteSets

CONSTANTS
    Gap,        \* the gaps that reconciliations may show
    ClientGap,  \* bucket not_in_books; the others are missing_in_2b
    Period,     \* the periods reconciled for this registration
    PeriodOf,   \* the period whose reconciliation shows a gap
    Month,      \* RETRIGGER_INTERVAL in ticks
    MaxLost     \* bound of the model: messages sent whose record is lost

ASSUME GapsAreKnown ==
    /\ IsFiniteSet(Gap)
    /\ ClientGap \subseteq Gap
    /\ PeriodOf \in [Gap -> Period]
ASSUME MonthPasses == Month \in Nat \ {0} /\ MaxLost \in Nat

VARIABLES
    status,         \* Gstr2bGapTrigger.status, "none" before there is a row
    lastTriggered,  \* age of last_triggered_at; Month when older, or null
    requireReview,  \* Tenant.bucket_a_require_review
    autoFollowup,   \* Tenant.auto_vendor_followup_enabled
    lost,           \* messages sent so far whose record was lost
    open,           \* history: gaps in the latest reconciliation of their period
    overlooked,     \* history: gaps that were open after the last sync or since,
                    \* and that later reconciliations, without a sync, closed
    vetted,         \* history: client requests a person or the policy let pass
                    \* since their gap was last opened
    outbox,         \* history: the gaps that the last step sent a message about
    sinceRecorded   \* history: age of the last message that was recorded, or Month

policy  == <<requireReview, autoFollowup>>
history == <<open, overlooked, vetted, outbox, sinceRecorded>>
vars    == <<status, lastTriggered, policy, lost, history>>

Active == {"pending_review", "approved", "queued", "sent"}
ClientStatus == {"none", "pending_review", "approved", "sent", "resolved", "rejected"}
VendorStatus == {"none", "queued", "sent", "resolved"}

TypeOK ==
    /\ status \in [Gap -> ClientStatus \cup VendorStatus]
    /\ \A g \in Gap :
           status[g] \in IF g \in ClientGap THEN ClientStatus ELSE VendorStatus
    /\ lastTriggered \in [Gap -> 0..Month]
    /\ requireReview \in BOOLEAN
    /\ autoFollowup \in BOOLEAN
    /\ lost \in 0..MaxLost
    /\ open \subseteq Gap
    /\ overlooked \subseteq Gap
    /\ vetted \subseteq ClientGap
    /\ outbox \subseteq Gap
    /\ sinceRecorded \in [Gap -> 0..Month]

Init ==
    /\ status = [g \in Gap |-> "none"]
    /\ lastTriggered = [g \in Gap |-> Month]
    /\ requireReview = TRUE
    /\ autoFollowup = FALSE
    /\ lost = 0
    /\ open = {}
    /\ overlooked = {}
    /\ vetted = {}
    /\ outbox = {}
    /\ sinceRecorded = [g \in Gap |-> Month]

-----------------------------------------------------------------------------
(***************************************************************************)
(* Reconciliation.                                                         *)
(***************************************************************************)

\* What _gap_rows yields: client requests need the answer "No" from the Drive
\* check, which is blank when Drive is not configured or unavailable.
Candidates(shown, driveAnswers) ==
    {g \in shown : g \in ClientGap => driveAnswers}

\* Mutant: the firm's review policy is not consulted.
OpenApproved(g) == IF g \in ClientGap THEN "approved" ELSE "queued"

\* The status of a new or reopened trigger.
OpeningStatus(g) ==
    IF g \notin ClientGap THEN "queued"
    ELSE IF requireReview THEN "pending_review" ELSE "approved"

Opened(seen)   == {g \in seen : status[g] \in {"none", "resolved"}}
Resolved(seen) == {g \in Gap \ seen : status[g] \in Active}

Synced(seen) ==
    /\ status' = [g \in Gap |-> IF g \in Opened(seen) THEN OpeningStatus(g)
                                ELSE IF g \in Resolved(seen) THEN "resolved"
                                ELSE status[g]]
    /\ vetted' = (vetted \ Resolved(seen))
                     \cup (IF requireReview THEN {} ELSE Opened(seen) \cap ClientGap)

NowOpen(period, shown) == {g \in open : PeriodOf[g] # period} \cup shown

\* The session does not flush before it queries: a gap without a row that is
\* shown on several lines gets a row for each, and uq_gap_trigger_identity
\* refuses them all.
Commits(seen, repeated) == \A g \in seen \cap repeated : status[g] # "none"

\* Mutant: a message once sent keeps its trigger alive.
SyncKeepsSent(period, shown, repeated, driveAnswers) ==
    LET seen == Candidates(shown, driveAnswers) \cup {g \in Gap : status[g] = "sent"} IN
    /\ \A g \in shown : PeriodOf[g] = period
    /\ Commits(seen, repeated)
    /\ Synced(seen)
    /\ open' = NowOpen(period, shown)
    /\ overlooked' = {}
    /\ outbox' = {}
    /\ UNCHANGED <<lastTriggered, policy, lost, sinceRecorded>>

\* Mutant: reopening a trigger starts it afresh.
SyncForgetsContact(period, shown, repeated, driveAnswers) ==
    LET seen == Candidates(shown, driveAnswers) IN
    /\ \A g \in shown : PeriodOf[g] = period
    /\ Commits(seen, repeated)
    /\ Synced(seen)
    /\ lastTriggered' = [g \in Gap |-> IF g \in Opened(seen) THEN Month
                                       ELSE lastTriggered[g]]
    /\ open' = NowOpen(period, shown)
    /\ overlooked' = {}
    /\ outbox' = {}
    /\ UNCHANGED <<policy, lost, sinceRecorded>>

\* An export reconciles one batch: it opens a trigger per gap it shows and
\* resolves every other live trigger of the registration.  Several lines of the
\* reconciliation show the gaps in repeated.
Sync(period, shown, repeated, driveAnswers) ==
    LET seen == Candidates(shown, driveAnswers) IN
    /\ \A g \in shown : PeriodOf[g] = period
    /\ Commits(seen, repeated)
    /\ Synced(seen)
    /\ open' = NowOpen(period, shown)
    /\ overlooked' = {}
    /\ outbox' = {}
    /\ UNCHANGED <<lastTriggered, policy, lost, sinceRecorded>>

\* A reconciliation that changes no trigger: the export names no registration,
\* its sync fails, which only the log shows, or it is not an export.
ReconcileOnly(period, shown) ==
    /\ \A g \in shown : PeriodOf[g] = period
    /\ open' = NowOpen(period, shown)
    /\ overlooked' = (overlooked \cup open) \ open'
    /\ outbox' = {}
    /\ UNCHANGED <<status, lastTriggered, policy, lost, vetted, sinceRecorded>>

-----------------------------------------------------------------------------
(***************************************************************************)
(* Review and policy.                                                      *)
(***************************************************************************)

Approve(g) ==
    /\ g \in ClientGap
    /\ status[g] = "pending_review"
    /\ status' = [status EXCEPT ![g] = "approved"]
    /\ vetted' = vetted \cup {g}
    /\ outbox' = {}
    /\ UNCHANGED <<lastTriggered, policy, lost, open, overlooked, sinceRecorded>>

Reject(g) ==
    /\ status[g] = "pending_review"
    /\ status' = [status EXCEPT ![g] = "rejected"]
    /\ outbox' = {}
    /\ UNCHANGED <<lastTriggered, policy, lost, open, overlooked, vetted, sinceRecorded>>

SetPolicy(review, followup) ==
    /\ requireReview' = review
    /\ autoFollowup' = followup
    /\ outbox' = {}
    /\ UNCHANGED <<status, lastTriggered, lost, open, overlooked, vetted, sinceRecorded>>

-----------------------------------------------------------------------------
(***************************************************************************)
(* Sending.                                                                *)
(***************************************************************************)

Sendable(g) ==
    IF g \in ClientGap THEN status[g] \in {"approved", "sent"}
                       ELSE status[g] \in {"queued", "sent"} /\ autoFollowup

Due == {g \in Gap : Sendable(g) /\ lastTriggered[g] = Month}

\* run_due_triggers calls send_fn for every due trigger.  Messages reach their
\* addressee for the gaps in delivered; the run records those in confirmed.
\* The rest is lost: send_fn raised although the message went out, or the
\* process died, or the commit failed, after messages were sent (confirmed is
\* then empty).
RunDue(delivered, confirmed) ==
    /\ delivered \subseteq Due
    /\ confirmed \subseteq delivered
    /\ lost + Cardinality(delivered \ confirmed) <= MaxLost
    /\ status' = [g \in Gap |-> IF g \in confirmed THEN "sent" ELSE status[g]]
    /\ lastTriggered' = [g \in Gap |-> IF g \in confirmed THEN 0 ELSE lastTriggered[g]]
    /\ lost' = lost + Cardinality(delivered \ confirmed)
    /\ outbox' = delivered
    /\ sinceRecorded' = [g \in Gap |-> IF g \in confirmed THEN 0 ELSE sinceRecorded[g]]
    /\ UNCHANGED <<policy, open, overlooked, vetted>>

Older(age) == IF age < Month THEN age + 1 ELSE Month

Tick ==
    /\ lastTriggered' = [g \in Gap |-> Older(lastTriggered[g])]
    /\ sinceRecorded' = [g \in Gap |-> Older(sinceRecorded[g])]
    /\ outbox' = {}
    /\ UNCHANGED <<status, policy, lost, open, overlooked, vetted>>

-----------------------------------------------------------------------------
Next ==
    \/ \E period \in Period, shown \in SUBSET Gap :
           \/ \E repeated \in SUBSET shown, driveAnswers \in BOOLEAN :
                  Sync(period, shown, repeated, driveAnswers)
           \/ ReconcileOnly(period, shown)
    \/ \E g \in Gap : Approve(g)
    \/ \E g \in Gap : Reject(g)
    \/ \E review, followup \in BOOLEAN : SetPolicy(review, followup)
    \/ \E delivered, confirmed \in SUBSET Gap : RunDue(delivered, confirmed)
    \/ Tick

Spec == Init /\ [][Next]_vars

-----------------------------------------------------------------------------
(***************************************************************************)
(* Properties.                                                             *)
(***************************************************************************)

\* Every live trigger, one the next run or an approval may send for, is about
\* a gap that the latest reconciliation of its period still showed, or that a
\* reconciliation without a sync closed since the last sync: an invoice that
\* got booked or filed is chased no longer than until a sync commits, of
\* whatever period, whatever was approved, sent or reopened in between.
ClosedGapsRest == {g \in Gap : status[g] \in Active} \subseteq open \cup overlooked

\* A recorded message about a gap holds the next one back for a month, also
\* when its trigger is resolved, reopened and approved again meanwhile.  Only
\* messages whose record was lost are repeated sooner.
OncePerMonth == [][\A g \in outbox' : sinceRecorded[g] = Month]_vars

\* A client is written to only about a gap that an accountant approved, or the
\* firm's policy let pass, after that gap was last opened (so never after a
\* rejection); a vendor only while the firm has the follow-up switched on.
ContactIsVetted ==
    [][\A g \in outbox' : IF g \in ClientGap THEN g \in vetted ELSE autoFollowup]_vars

\* A gap that the latest reconciliation of its period showed is not resolved:
\* "resolved" means that the invoice got booked or that the 2B caught up.
OpenGapIsTracked == \A g \in open : status[g] # "resolved"
=============================================================================
