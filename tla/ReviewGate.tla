------------------------------ MODULE ReviewGate ------------------------------
(***************************************************************************)
(* The review gate in front of a filing: SalesPeriodReview (one key per    *)
(* tenant and period) and PurchaseGstr2bReview (one per tenant, period and *)
(* GSTIN).  A person may generate a review at any time; the scheduled      *)
(* ingestion generates one only when the latest of its key is not pending. *)
(* services/period_review.py and services/purchase_review.py hold the same *)
(* code for the two tables.                                                *)
(*                                                                         *)
(* An endpoint runs in the event loop without an await: it is one step.    *)
(* The Celery worker is a process of its own (concurrency 1, the default): *)
(* its check, its read of the books and its insert are steps.              *)
(***************************************************************************)
EXTENDS Naturals, Sequences

CONSTANTS
    SalesKeys,    \* (tenant, period)
    Gstr2bKeys,   \* (tenant, period, GSTIN)
    Drops,        \* what a GSTR-2B run may find: sequences of keys and of Unusable files
    Unusable,     \* "DOWNLOAD_FAILED", "GSTIN_NOT_FOUND", "malformed"
    MaxReviews,   \* bound: rows in the tables
    MaxEdits      \* bound: changes of the stored lines

ASSUME GateConstants ==
    /\ Unusable = {"DOWNLOAD_FAILED", "GSTIN_NOT_FOUND", "malformed"}
    /\ SalesKeys \cap Gstr2bKeys = {} /\ (SalesKeys \cup Gstr2bKeys) \cap Unusable = {}
    /\ Drops \subseteq Seq(Gstr2bKeys \cup Unusable)
    /\ MaxReviews \in Nat /\ MaxEdits \in Nat

VARIABLES
    reviews,   \* the rows, by created_at
    edits,     \* how often the stored lines have changed
    step,      \* of the worker: "idle", "next", "checked", "read"
    feed,      \* what its run ingests: "none", "sales", "gstr2b"
    drop,      \* the files of its run, for a retry
    ahead,     \* the files that it has still to process
    sight,     \* the edits that its read of the books saw
    retried    \* self.request.retries

gateVars == <<reviews, edits, step, feed, drop, ahead, sight, retried>>

ReviewKeys == SalesKeys \cup Gstr2bKeys
Decisions == {"PENDING_REVIEW", "APPROVED", "REJECTED"}
Review(k, origin, seen) == [key |-> k, by |-> origin, status |-> "PENDING_REVIEW", seen |-> seen]
IsLatest(r, k) ==
    /\ r \in DOMAIN reviews /\ reviews[r].key = k
    /\ \A s \in DOMAIN reviews : s > r => reviews[s].key # k

GateInit ==
    /\ reviews = <<>> /\ edits = 0
    /\ step = "idle" /\ feed = "none" /\ drop = <<>> /\ ahead = <<>>
    /\ sight = 0 /\ retried = FALSE
-------------------------------------------------------------------------------
(* People: generate (skip_if_pending=False), approve, reject with a reason. *)

Generate(k) ==
    /\ Len(reviews) < MaxReviews
    /\ reviews' = Append(reviews, Review(k, "person", edits))
    /\ UNCHANGED <<edits, step, feed, drop, ahead, sight, retried>>

GeneratePeriodReview(k) == k \in SalesKeys /\ Generate(k)
GenerateGstr2bReview(k) == k \in Gstr2bKeys /\ Generate(k)

(* A decided review cannot be decided again: the endpoint answers 409.     *)
Decide(r, verdict) ==
    /\ reviews[r].status = "PENDING_REVIEW"
    /\ reviews' = [reviews EXCEPT ![r].status = verdict]
    /\ UNCHANGED <<edits, step, feed, drop, ahead, sight, retried>>

ApprovePeriodReview(r) == reviews[r].key \in SalesKeys /\ Decide(r, "APPROVED")
RejectPeriodReview(r)  == reviews[r].key \in SalesKeys /\ Decide(r, "REJECTED")
ApproveGstr2bReview(r) == reviews[r].key \in Gstr2bKeys /\ Decide(r, "APPROVED")
RejectGstr2bReview(r)  == reviews[r].key \in Gstr2bKeys /\ Decide(r, "REJECTED")

(* A batch, a correction or a sync stores, changes or replaces lines.      *)
EditBooks ==
    /\ edits < MaxEdits
    /\ edits' = edits + 1
    /\ UNCHANGED <<reviews, step, feed, drop, ahead, sight, retried>>
-------------------------------------------------------------------------------
(* The scheduled runs.  A sales sync that found a client sheet generates   *)
(* the review of its period at its end; a GSTR-2B run generates one for    *)
(* every JSON file of the month's folder.                                  *)

BeginRun(kind, files) ==
    /\ step = "idle"
    /\ step' = "next" /\ feed' = kind
    /\ drop' = files /\ ahead' = files /\ retried' = FALSE
    /\ UNCHANGED <<reviews, edits, sight>>

BeginSales(k) == k \in SalesKeys /\ BeginRun("sales", <<k>>)
BeginGstr2b(files) == BeginRun("gstr2b", files)

SkipFile ==
    /\ step = "next" /\ ahead # <<>>
    /\ Head(ahead) \in {"DOWNLOAD_FAILED", "GSTIN_NOT_FOUND"}
    /\ ahead' = Tail(ahead)
    /\ UNCHANGED <<reviews, edits, step, feed, drop, sight, retried>>

(* skip_if_pending=True: get_latest_review.                                *)

\* Mutant: the rows ordered by created_at without the descending order.
PendingEarliest(k) ==
    \E r \in DOMAIN reviews :
        /\ reviews[r].key = k /\ reviews[r].status = "PENDING_REVIEW"
        /\ \A s \in DOMAIN reviews : s < r => reviews[s].key # k

PendingLatest(k) ==
    \E r \in DOMAIN reviews : IsLatest(r, k) /\ reviews[r].status = "PENDING_REVIEW"

SkipPending ==
    /\ step = "next" /\ ahead # <<>>
    /\ PendingLatest(Head(ahead))
    /\ ahead' = Tail(ahead)
    /\ UNCHANGED <<reviews, edits, step, feed, drop, sight, retried>>

FindDecided ==
    /\ step = "next" /\ ahead # <<>> /\ Head(ahead) \in ReviewKeys
    /\ ~PendingLatest(Head(ahead))
    /\ step' = "checked"
    /\ UNCHANGED <<reviews, edits, feed, drop, ahead, sight, retried>>

ReadBooks ==
    /\ step = "checked"
    /\ step' = "read"
    /\ sight' = edits
    /\ UNCHANGED <<reviews, edits, feed, drop, ahead, retried>>

InsertReview ==
    /\ step = "read" /\ Len(reviews) < MaxReviews
    /\ reviews' = Append(reviews, Review(Head(ahead), "schedule", sight))
    /\ step' = "next"
    /\ ahead' = Tail(ahead)
    /\ sight' = 0
    /\ UNCHANGED <<edits, feed, drop, retried>>

(* The task's local state goes with it.                                    *)
LeaveRun ==
    /\ step' = "idle" /\ feed' = "none" /\ drop' = <<>> /\ ahead' = <<>>
    /\ sight' = 0 /\ retried' = FALSE
    /\ UNCHANGED <<reviews, edits>>

(* The sync completes whatever becomes of the review.                      *)
FailSales ==
    /\ feed = "sales" /\ step \in {"checked", "read"}
    /\ LeaveRun

(* A malformed file, or any other exception, ends the run; Celery starts   *)
(* it again once, from the first file.                                     *)
FailGstr2b ==
    /\ feed = "gstr2b"
    /\ \/ step = "next" /\ ahead # <<>> /\ Head(ahead) = "malformed"
       \/ step \in {"checked", "read"}
    /\ \/ /\ ~retried
          /\ retried' = TRUE /\ step' = "next" /\ ahead' = drop /\ sight' = 0
          /\ UNCHANGED <<reviews, edits, feed, drop>>
       \/ retried /\ LeaveRun

EndRun == step = "next" /\ ahead = <<>> /\ LeaveRun

(* The worker dies, or the task reaches its time limit.                    *)
KillRun == step # "idle" /\ LeaveRun

GateNext ==
    \/ \E k \in ReviewKeys : GeneratePeriodReview(k) \/ GenerateGstr2bReview(k)
    \/ \E r \in DOMAIN reviews :
          \/ ApprovePeriodReview(r) \/ RejectPeriodReview(r)
          \/ ApproveGstr2bReview(r) \/ RejectGstr2bReview(r)
    \/ EditBooks
    \/ \E k \in SalesKeys : BeginSales(k)
    \/ \E files \in Drops : BeginGstr2b(files)
    \/ SkipFile
    \/ SkipPending
    \/ FindDecided
    \/ ReadBooks
    \/ InsertReview
    \/ FailSales
    \/ FailGstr2b
    \/ EndRun
    \/ KillRun

GateSpec == GateInit /\ [][GateNext]_gateVars
-------------------------------------------------------------------------------
GateTypeOK ==
    /\ reviews \in Seq([key : ReviewKeys, by : {"person", "schedule"},
                        status : Decisions, seen : Nat])
    /\ edits \in Nat /\ sight \in Nat /\ retried \in BOOLEAN
    /\ step \in {"idle", "next", "checked", "read"}
    /\ feed \in {"none", "sales", "gstr2b"}
    /\ drop \in Seq(ReviewKeys \cup Unusable) /\ ahead \in Seq(ReviewKeys \cup Unusable)
    /\ step \in {"checked", "read"} => ahead # <<>> /\ Head(ahead) \in ReviewKeys

(* "A daily scheduled sync shouldn't pile up a fresh unreviewed row every  *)
(* day": although the check and the insert are two transactions, and       *)
(* reviews are decided, generated and retried between them, the schedule   *)
(* puts a row on top of one of its own that is still pending only when a   *)
(* person generated a review of that key in between; and what it adds has  *)
(* been read from the books no earlier than what it added before.          *)
Covered(r, k, s) == \E m \in DOMAIN reviews : r < m /\ m < s /\ reviews[m].key = k /\ reviews[m].by = "person"
PileUpsAreManual ==
    \A r, s \in DOMAIN reviews :
        /\ r < s
        /\ reviews[r].key = reviews[s].key
        /\ reviews[r].by = "schedule" /\ reviews[s].by = "schedule"
        => /\ reviews[r].status = "PENDING_REVIEW" => Covered(r, reviews[r].key, s)
           /\ reviews[r].seen <= reviews[s].seen
===============================================================================
