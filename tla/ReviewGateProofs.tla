--------------------------- MODULE ReviewGateProofs ---------------------------
(***************************************************************************)
(* Proofs about ReviewGate, for any keys, files, reviews and edits.        *)
(*                                                                         *)
(* Between the check of the schedule and its insert the table may change.  *)
(* What survives is CheckedIsCovered: a scheduled row of the key that is   *)
(* still pending has a person's row above it.  When the check is made it   *)
(* follows from the property itself, since the row is not the latest; the  *)
(* steps of people in between only add rows by persons and decide.         *)
(***************************************************************************)
EXTENDS ReviewGate, SequenceTheorems, TLAPS

CheckedIsCovered ==
    step \in {"checked", "read"} =>
        \A r \in DOMAIN reviews :
            /\ reviews[r].by = "schedule" /\ reviews[r].status = "PENDING_REVIEW"
            /\ reviews[r].key = Head(ahead)
            => \E m \in DOMAIN reviews :
                  r < m /\ reviews[m].key = reviews[r].key /\ reviews[m].by = "person"

SightIsRecent ==
    /\ \A r \in DOMAIN reviews : reviews[r].seen <= edits
    /\ step = "read" =>
          /\ sight <= edits
          /\ \A r \in DOMAIN reviews : reviews[r].by = "schedule" => reviews[r].seen <= sight

GateInv == GateTypeOK /\ PileUpsAreManual /\ CheckedIsCovered /\ SightIsRecent

Rows == [key : ReviewKeys, by : {"person", "schedule"}, status : Decisions, seen : Nat]

\* The invariant holds initially.
LEMMA GateInitEstablishes == GateInit => GateInv
<1> SUFFICES ASSUME GateInit PROVE GateInv
    OBVIOUS
<1>1. /\ reviews = <<>> /\ edits = 0 /\ step = "idle" /\ feed = "none"
      /\ drop = <<>> /\ ahead = <<>> /\ sight = 0 /\ retried \in BOOLEAN
    BY Zenon DEF GateInit
<1>2. GateTypeOK
    BY <1>1 DEF GateTypeOK
<1>3. PileUpsAreManual /\ CheckedIsCovered /\ SightIsRecent
    BY <1>1 DEF PileUpsAreManual, CheckedIsCovered, SightIsRecent
<1> QED
    BY <1>2, <1>3 DEF GateInv

\* What a new row leaves as it was, and where it stands.
LEMMA AppendedRow ==
    ASSUME NEW rows \in Seq(Rows), NEW row \in Rows
    PROVE  /\ Append(rows, row) \in Seq(Rows)
           /\ DOMAIN Append(rows, row) = 1..Len(rows) + 1
           /\ DOMAIN rows = 1..Len(rows) /\ Len(rows) \in Nat
           /\ \A r \in DOMAIN rows : Append(rows, row)[r] = rows[r]
           /\ Append(rows, row)[Len(rows) + 1] = row
OBVIOUS

\* The rows of the table are rows.
LEMMA RowsAreRows ==
    ASSUME GateTypeOK
    PROVE  /\ reviews \in Seq(Rows)
           /\ \A r \in DOMAIN reviews : r \in 1..Len(reviews) /\ reviews[r] \in Rows
<1>1. reviews \in Seq(Rows)
    BY DEF GateTypeOK, Rows
<1>2. ASSUME NEW r \in DOMAIN reviews PROVE r \in 1..Len(reviews) /\ reviews[r] \in Rows
    BY <1>1, ElementOfSeq
<1> QED
    BY <1>1, <1>2

\* A person's review stands above the rows there are, and covers them.
LEMMA GeneratePreserves ==
    ASSUME GateInv, NEW k \in ReviewKeys, Generate(k) PROVE GateInv'
<1> DEFINE row == Review(k, "person", edits)
<1>1. row \in Rows /\ reviews \in Seq(Rows)
    BY DEF GateInv, GateTypeOK, Rows, Review, Decisions
<1>2. reviews' = Append(reviews, row) /\ UNCHANGED <<edits, step, feed, drop, ahead, sight, retried>>
    BY DEF Generate
<1>3. /\ reviews' \in Seq(Rows)
      /\ DOMAIN reviews' = 1..Len(reviews) + 1
      /\ DOMAIN reviews = 1..Len(reviews) /\ Len(reviews) \in Nat
      /\ \A r \in DOMAIN reviews : reviews'[r] = reviews[r]
      /\ reviews'[Len(reviews) + 1] = row
    BY <1>1, <1>2, AppendedRow
<1>4. row.by = "person" /\ row.seen = edits
    BY DEF Review
<1> HIDE DEF row
<1>5. GateTypeOK'
    BY <1>2, <1>3 DEF GateInv, GateTypeOK, Rows
<1>6. PileUpsAreManual'
    <2> SUFFICES ASSUME NEW r \in DOMAIN reviews', NEW s \in DOMAIN reviews', r < s,
                        reviews'[r].key = reviews'[s].key,
                        reviews'[r].by = "schedule", reviews'[s].by = "schedule"
                 PROVE  /\ reviews'[r].status = "PENDING_REVIEW" => Covered(r, reviews[r].key, s)'
                        /\ reviews'[r].seen <= reviews'[s].seen
        BY DEF PileUpsAreManual
    <2>1. s \in DOMAIN reviews /\ r \in DOMAIN reviews
        BY <1>3, <1>4
    <2>2. /\ reviews[r].status = "PENDING_REVIEW" => Covered(r, reviews[r].key, s)
          /\ reviews[r].seen <= reviews[s].seen
        BY <2>1, <1>3 DEF GateInv, PileUpsAreManual
    <2> QED
        BY <2>1, <2>2, <1>3 DEF Covered
<1>7. CheckedIsCovered'
    BY <1>2, <1>3, <1>4 DEF GateInv, CheckedIsCovered
<1>8. SightIsRecent'
    BY <1>2, <1>3, <1>4 DEF GateInv, GateTypeOK, SightIsRecent
<1> QED
    BY <1>5, <1>6, <1>7, <1>8 DEF GateInv

\* A decision takes a row out of the pending ones and leaves the rest of it.
LEMMA DecidePreserves ==
    ASSUME GateInv, NEW r \in DOMAIN reviews, NEW verdict \in {"APPROVED", "REJECTED"},
           Decide(r, verdict)
    PROVE  GateInv'
<1> USE DEF GateInv
<1>1. /\ reviews' = [reviews EXCEPT ![r].status = verdict]
      /\ UNCHANGED <<edits, step, feed, drop, ahead, sight, retried>>
    BY DEF Decide
<1>2. reviews \in Seq(Rows) /\ reviews' \in Seq(Rows) /\ DOMAIN reviews' = DOMAIN reviews
    <2> DEFINE row == [reviews[r] EXCEPT !.status = verdict]
    <2>1. row \in Rows
        BY RowsAreRows DEF Rows, Decisions
    <2>2. reviews' = [reviews EXCEPT ![r] = row]
        BY <1>1
    <2> HIDE DEF row
    <2> QED
        BY <2>1, <2>2, RowsAreRows, ExceptSeq
<1>3. \A s \in DOMAIN reviews :
         /\ reviews'[s].key = reviews[s].key /\ reviews'[s].by = reviews[s].by
         /\ reviews'[s].seen = reviews[s].seen
         /\ reviews'[s].status = "PENDING_REVIEW" => reviews[s].status = "PENDING_REVIEW"
    BY <1>1, <1>2, RowsAreRows DEF Rows
<1>4. GateTypeOK'
    BY <1>1, <1>2 DEF GateTypeOK, Rows
<1>5. PileUpsAreManual'
    BY <1>2, <1>3 DEF PileUpsAreManual, Covered
<1>6. CheckedIsCovered'
    BY <1>1, <1>2, <1>3 DEF CheckedIsCovered
<1>7. SightIsRecent'
    BY <1>1, <1>2, <1>3 DEF SightIsRecent
<1> QED
    BY <1>4, <1>5, <1>6, <1>7

\* The check of the schedule: a pending row of its own that is not the latest
\* has another row of its key above it, a person's or, by the property, a
\* scheduled one with a person's row in between.
LEMMA CheckPreserves == ASSUME GateInv, FindDecided PROVE GateInv'
<1> USE DEF GateInv, FindDecided
<1>1. GateTypeOK' /\ PileUpsAreManual' /\ SightIsRecent'
    BY DEF GateTypeOK, PileUpsAreManual, Covered, SightIsRecent
<1>2. CheckedIsCovered'
    <2> SUFFICES ASSUME NEW r \in DOMAIN reviews,
                        reviews[r].by = "schedule", reviews[r].status = "PENDING_REVIEW",
                        reviews[r].key = Head(ahead)
                 PROVE  \E m \in DOMAIN reviews :
                            r < m /\ reviews[m].key = reviews[r].key /\ reviews[m].by = "person"
        BY DEF CheckedIsCovered
    <2>1. ~IsLatest(r, Head(ahead))
        BY DEF PendingLatest
    <2>2. PICK s \in DOMAIN reviews : s > r /\ reviews[s].key = Head(ahead)
        BY <2>1 DEF IsLatest
    <2>3. reviews[s] \in Rows /\ r \in Int /\ s \in Int
        BY RowsAreRows
    <2>4. reviews[s].by \in {"person", "schedule"}
        BY <2>3 DEF Rows
    <2>5. r < s
        BY <2>2, <2>3
    <2>6. CASE reviews[s].by = "person"
        BY <2>2, <2>5, <2>6
    <2>7. CASE reviews[s].by = "schedule"
        <3>1. Covered(r, reviews[r].key, s)
            BY <2>2, <2>5, <2>7 DEF PileUpsAreManual
        <3> QED
            BY <3>1 DEF Covered
    <2> QED
        BY <2>4, <2>6, <2>7
<1> QED
    BY <1>1, <1>2

\* The insert of the schedule: what was covered at the check still is.
LEMMA InsertPreserves == ASSUME GateInv, InsertReview PROVE GateInv'
<1> DEFINE row == Review(Head(ahead), "schedule", sight)
<1>1. row \in Rows /\ reviews \in Seq(Rows) /\ step = "read"
    BY DEF GateInv, GateTypeOK, Rows, Review, Decisions, InsertReview
<1>2. /\ reviews' = Append(reviews, row) /\ step' = "next" /\ ahead' = Tail(ahead)
      /\ sight' = 0 /\ UNCHANGED <<edits, feed, drop, retried>>
    BY DEF InsertReview
<1>3. /\ reviews' \in Seq(Rows)
      /\ DOMAIN reviews' = 1..Len(reviews) + 1
      /\ DOMAIN reviews = 1..Len(reviews) /\ Len(reviews) \in Nat
      /\ \A r \in DOMAIN reviews : reviews'[r] = reviews[r]
      /\ reviews'[Len(reviews) + 1] = row
    BY <1>1, <1>2, AppendedRow
<1>4. row.key = Head(ahead) /\ row.by = "schedule" /\ row.seen = sight
    BY DEF Review
<1> HIDE DEF row
<1>5. GateTypeOK'
    <2>1. ahead # <<>>
        BY <1>1 DEF GateInv, GateTypeOK
    <2>2. ahead' \in Seq(ReviewKeys \cup Unusable)
        BY <1>2, <2>1 DEF GateInv, GateTypeOK
    <2> QED
        BY <1>2, <1>3, <2>2 DEF GateInv, GateTypeOK, Rows
<1>6. PileUpsAreManual'
    <2> SUFFICES ASSUME NEW r \in DOMAIN reviews', NEW s \in DOMAIN reviews', r < s,
                        reviews'[r].key = reviews'[s].key,
                        reviews'[r].by = "schedule", reviews'[s].by = "schedule"
                 PROVE  /\ reviews'[r].status = "PENDING_REVIEW" => Covered(r, reviews[r].key, s)'
                        /\ reviews'[r].seen <= reviews'[s].seen
        BY DEF PileUpsAreManual
    <2>1. r \in DOMAIN reviews
        BY <1>3
    <2>2. CASE s \in DOMAIN reviews
        <3>1. /\ reviews[r].status = "PENDING_REVIEW" => Covered(r, reviews[r].key, s)
              /\ reviews[r].seen <= reviews[s].seen
            BY <2>1, <2>2, <1>3 DEF GateInv, PileUpsAreManual
        <3> QED
            BY <2>1, <2>2, <3>1, <1>3 DEF Covered
    <2>3. CASE s = Len(reviews) + 1
        <3>1. reviews[r].status = "PENDING_REVIEW" =>
                  \E m \in DOMAIN reviews :
                      r < m /\ reviews[m].key = reviews[r].key /\ reviews[m].by = "person"
            BY <1>1, <1>3, <1>4, <2>1, <2>3 DEF GateInv, CheckedIsCovered
        <3>2. reviews[r].seen <= sight
            BY <1>1, <1>3, <2>1 DEF GateInv, SightIsRecent
        <3> QED
            BY <1>3, <1>4, <2>1, <2>3, <3>1, <3>2 DEF Covered
    <2> QED
        BY <1>3, <2>2, <2>3
<1>7. CheckedIsCovered' /\ SightIsRecent'
    BY <1>1, <1>2, <1>3, <1>4 DEF GateInv, CheckedIsCovered, SightIsRecent
<1> QED
    BY <1>5, <1>6, <1>7 DEF GateInv

\* The rest of the worker's steps leave the table alone.
LEMMA WorkerPreserves ==
    ASSUME GateInv, UNCHANGED reviews, GateTypeOK', edits' \in Nat, edits <= edits',
           \/ step' \in {"idle", "next"}
           \/ UNCHANGED <<step, ahead, sight>>
           \/ step = "checked" /\ step' = "read" /\ UNCHANGED ahead /\ sight' = edits /\ edits' = edits
    PROVE  GateInv'
<1> USE DEF GateInv
<1>1. PileUpsAreManual'
    BY DEF PileUpsAreManual, Covered
<1>2. CheckedIsCovered'
    BY DEF CheckedIsCovered
<1>3. edits \in Nat /\ sight \in Nat
    BY DEF GateTypeOK
<1>4. \A r \in DOMAIN reviews : reviews[r].seen \in Nat
    BY RowsAreRows DEF Rows
<1>5. SightIsRecent'
    BY <1>3, <1>4 DEF SightIsRecent
<1> QED
    BY <1>1, <1>2, <1>5

\* Every step preserves the invariant.
LEMMA GateStepPreserves == GateInv /\ [GateNext]_gateVars => GateInv'
<1> SUFFICES ASSUME GateInv, [GateNext]_gateVars PROVE GateInv'
    OBVIOUS
<1> USE GateConstants
<1>1. CASE UNCHANGED gateVars
    BY <1>1 DEF gateVars, GateInv, GateTypeOK, PileUpsAreManual, Covered, CheckedIsCovered, SightIsRecent
<1>2. ASSUME NEW k \in ReviewKeys, GeneratePeriodReview(k) \/ GenerateGstr2bReview(k) PROVE GateInv'
    BY <1>2, GeneratePreserves DEF GeneratePeriodReview, GenerateGstr2bReview
<1>3. ASSUME NEW r \in DOMAIN reviews,
             \/ ApprovePeriodReview(r) \/ RejectPeriodReview(r)
             \/ ApproveGstr2bReview(r) \/ RejectGstr2bReview(r)
      PROVE  GateInv'
    BY <1>3, DecidePreserves
    DEF ApprovePeriodReview, RejectPeriodReview, ApproveGstr2bReview, RejectGstr2bReview
<1>4. CASE EditBooks
    <2>1. GateTypeOK' /\ edits' \in Nat /\ edits <= edits'
        BY <1>4 DEF EditBooks, GateInv, GateTypeOK
    <2> QED
        BY <1>4, <2>1, WorkerPreserves DEF EditBooks
<1>5. ASSUME LeaveRun PROVE GateInv'
    <2>1. GateTypeOK'
        <3>1. retried' \in BOOLEAN
            BY <1>5, Zenon DEF LeaveRun
        <3>2. /\ step' = "idle" /\ feed' = "none" /\ drop' = <<>> /\ ahead' = <<>>
              /\ sight' = 0 /\ reviews' = reviews /\ edits' = edits
            BY <1>5, Zenon DEF LeaveRun
        <3> QED
            BY <3>1, <3>2 DEF GateInv, GateTypeOK
    <2>2. edits \in Nat
        BY DEF GateInv, GateTypeOK
    <2> QED
        BY <1>5, <2>1, <2>2, WorkerPreserves DEF LeaveRun
<1>6. ASSUME NEW kind \in {"sales", "gstr2b"}, NEW files \in Seq(ReviewKeys \cup Unusable),
             BeginRun(kind, files)
      PROVE  GateInv'
    <2>1. GateTypeOK'
        BY <1>6 DEF BeginRun, GateInv, GateTypeOK
    <2>2. edits \in Nat
        BY DEF GateInv, GateTypeOK
    <2> QED
        BY <1>6, <2>1, <2>2, WorkerPreserves DEF BeginRun
<1>7. ASSUME NEW k \in SalesKeys, BeginSales(k) PROVE GateInv'
    <2>1. <<k>> \in Seq(ReviewKeys \cup Unusable)
        BY DEF ReviewKeys
    <2> QED
        BY <1>6, <1>7, <2>1 DEF BeginSales
<1>8. ASSUME NEW files \in Drops, BeginGstr2b(files) PROVE GateInv'
    <2>1. files \in Seq(ReviewKeys \cup Unusable)
        BY DEF ReviewKeys
    <2> QED
        BY <1>6, <1>8, <2>1 DEF BeginGstr2b
<1>9. CASE SkipFile \/ SkipPending
    <2>1. /\ step = "next" /\ ahead # <<>> /\ ahead' = Tail(ahead)
          /\ UNCHANGED <<reviews, edits, step, feed, drop, sight, retried>>
        BY <1>9 DEF SkipFile, SkipPending
    <2>2. GateTypeOK' /\ edits \in Nat
        BY <2>1 DEF GateInv, GateTypeOK
    <2> QED
        BY <2>1, <2>2, WorkerPreserves
<1>10. CASE FindDecided
    BY <1>10, CheckPreserves
<1>11. CASE ReadBooks
    <2>1. GateTypeOK' /\ edits \in Nat
        BY <1>11 DEF ReadBooks, GateInv, GateTypeOK
    <2> QED
        BY <1>11, <2>1, WorkerPreserves DEF ReadBooks
<1>12. CASE InsertReview
    BY <1>12, InsertPreserves
<1>13. CASE FailSales \/ EndRun \/ KillRun
    BY <1>5, <1>13 DEF FailSales, EndRun, KillRun
<1>14. CASE FailGstr2b
    <2>1. CASE LeaveRun
        BY <1>5, <2>1
    <2>2. CASE /\ retried' = TRUE /\ step' = "next" /\ ahead' = drop /\ sight' = 0
               /\ UNCHANGED <<reviews, edits, feed, drop>>
        <3>1. GateTypeOK' /\ edits \in Nat
            BY <2>2 DEF GateInv, GateTypeOK
        <3> QED
            BY <2>2, <3>1, WorkerPreserves
    <2> QED
        BY <1>14, <2>1, <2>2 DEF FailGstr2b
<1> QED
    BY <1>1, <1>2, <1>3, <1>4, <1>7, <1>8, <1>9, <1>10, <1>11, <1>12, <1>13, <1>14 DEF GateNext

\* The invariant holds in every reachable state.
THEOREM GateIsSound == GateSpec => []GateInv
BY GateInitEstablishes, GateStepPreserves, PTL DEF GateSpec

\* The schedule puts a review on top of a pending one of its own only after a
\* person has generated one in between, and never one read from older books
\* (generate_period_review_for_tenant and generate_review_for_tenant).
THEOREM PileUpsManual == GateSpec => []PileUpsAreManual
BY GateIsSound, PTL DEF GateInv
===============================================================================
