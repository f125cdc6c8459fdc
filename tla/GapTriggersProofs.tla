------------------------- MODULE GapTriggersProofs -------------------------
(***************************************************************************)
(* Proofs about GapTriggers, for any gaps, periods, month and bound.       *)
(*                                                                         *)
(* The invariant adds two facts to type correctness: what the table says   *)
(* about the last message is what was last recorded, and a client request  *)
(* that a run may send has been let pass.                                  *)
(***************************************************************************)
EXTENDS GapTriggers, FiniteSetTheorems, TLAPS

RecordIsKept == \A g \in Gap : sinceRecorded[g] = lastTriggered[g]

SendableIsVetted ==
    \A g \in ClientGap : status[g] \in {"approved", "sent"} => g \in vetted

GapInv == TypeOK /\ ClosedGapsRest /\ RecordIsKept /\ SendableIsVetted

\* The ages of a step stay within 0..Month.
LEMMA OlderType == \A age \in 0..Month : Older(age) \in 0..Month
BY MonthPasses DEF Older

\* The invariant holds initially.
LEMMA InitEstablishes == Init => GapInv
<1> SUFFICES ASSUME Init PROVE GapInv
    OBVIOUS
<1>1. TypeOK
    <2>1. lastTriggered \in [Gap -> 0..Month] /\ sinceRecorded \in [Gap -> 0..Month]
        BY MonthPasses DEF Init
    <2>2. lost \in 0..MaxLost
        BY MonthPasses DEF Init
    <2> QED
        BY <2>1, <2>2 DEF Init, TypeOK, ClientStatus, VendorStatus
<1>2. ClosedGapsRest
    BY DEF Init, ClosedGapsRest, Active
<1>3. RecordIsKept /\ SendableIsVetted
    BY GapsAreKnown DEF Init, RecordIsKept, SendableIsVetted
<1> QED
    BY <1>1, <1>2, <1>3 DEF GapInv

\* What a reconciliation writes: whatever is live afterwards was seen by it, a
\* status is one of its bucket's, and what it opens without review is vetted.
LEMMA SyncedFacts ==
    ASSUME NEW seen \in SUBSET Gap, GapInv, Synced(seen)
    PROVE  /\ status' \in [Gap -> ClientStatus \cup VendorStatus]
           /\ \A g \in Gap :
                  status'[g] \in IF g \in ClientGap THEN ClientStatus ELSE VendorStatus
           /\ \A g \in Gap : status'[g] \in Active => g \in seen
           /\ vetted' \subseteq ClientGap
           /\ SendableIsVetted'
<1> USE DEF GapInv, TypeOK, Synced
<1>1. ASSUME NEW g \in Gap
      PROVE  /\ status'[g] \in ClientStatus \cup VendorStatus
             /\ status'[g] \in IF g \in ClientGap THEN ClientStatus ELSE VendorStatus
             /\ status'[g] \in Active => g \in seen
    BY <1>1 DEF Opened, Resolved, OpeningStatus, ClientStatus, VendorStatus, Active
<1>2. status' \in [Gap -> ClientStatus \cup VendorStatus]
    BY <1>1
<1>3. vetted' \subseteq ClientGap
    OBVIOUS
<1>4. ASSUME NEW g \in ClientGap, status'[g] \in {"approved", "sent"}
      PROVE  g \in vetted'
    <2>1. g \in Gap
        BY GapsAreKnown
    <2>2. CASE g \in Opened(seen)
        BY <1>4, <2>1, <2>2 DEF OpeningStatus
    <2>3. CASE g \notin Opened(seen)
        <3>1. g \notin Resolved(seen) /\ status'[g] = status[g]
            BY <1>4, <2>1, <2>3
        <3> QED
            BY <1>4, <3>1 DEF SendableIsVetted
    <2> QED
        BY <2>2, <2>3
<1> QED
    BY <1>1, <1>2, <1>3, <1>4 DEF SendableIsVetted

\* Every step preserves the invariant.
LEMMA StepPreserves == GapInv /\ [Next]_vars => GapInv'
<1> SUFFICES ASSUME GapInv, [Next]_vars PROVE GapInv'
    OBVIOUS
<1> USE DEF GapInv
<1>1. ASSUME NEW period \in Period, NEW shown \in SUBSET Gap, NEW repeated \in SUBSET shown,
             NEW driveAnswers \in BOOLEAN, Sync(period, shown, repeated, driveAnswers)
      PROVE  GapInv'
    <2> DEFINE seen == Candidates(shown, driveAnswers)
    <2>1. seen \in SUBSET Gap /\ seen \subseteq shown
        BY DEF Candidates
    <2>2. Synced(seen)
        BY <1>1 DEF Sync
    <2> HIDE DEF seen
    <2>3. /\ status' \in [Gap -> ClientStatus \cup VendorStatus]
          /\ \A g \in Gap :
                 status'[g] \in IF g \in ClientGap THEN ClientStatus ELSE VendorStatus
          /\ \A g \in Gap : status'[g] \in Active => g \in seen
          /\ vetted' \subseteq ClientGap
          /\ SendableIsVetted'
        BY <2>1, <2>2, SyncedFacts
    <2>4. TypeOK'
        BY <1>1, <2>3 DEF TypeOK, Sync, NowOpen, policy
    <2>5. ClosedGapsRest'
        BY <1>1, <2>1, <2>3 DEF ClosedGapsRest, Sync, NowOpen
    <2>6. RecordIsKept'
        BY <1>1 DEF RecordIsKept, Sync
    <2> QED
        BY <2>3, <2>4, <2>5, <2>6
<1>2. ASSUME NEW g \in Gap, Approve(g) PROVE GapInv'
    <2>1. TypeOK'
        BY <1>2 DEF TypeOK, Approve, policy, ClientStatus, VendorStatus
    <2>2. ClosedGapsRest'
        BY <1>2 DEF TypeOK, ClosedGapsRest, Approve, Active
    <2>3. RecordIsKept' /\ SendableIsVetted'
        BY <1>2 DEF TypeOK, RecordIsKept, SendableIsVetted, Approve
    <2> QED
        BY <2>1, <2>2, <2>3
<1>3. ASSUME NEW g \in Gap, Reject(g) PROVE GapInv'
    <2>1. g \in ClientGap
        BY <1>3 DEF TypeOK, Reject, VendorStatus
    <2>2. TypeOK'
        BY <1>3, <2>1 DEF TypeOK, Reject, policy, ClientStatus, VendorStatus
    <2>3. ClosedGapsRest'
        BY <1>3 DEF TypeOK, ClosedGapsRest, Reject, Active
    <2>4. RecordIsKept' /\ SendableIsVetted'
        BY <1>3 DEF TypeOK, RecordIsKept, SendableIsVetted, Reject
    <2> QED
        BY <2>2, <2>3, <2>4
<1>4. ASSUME NEW review \in BOOLEAN, NEW followup \in BOOLEAN, SetPolicy(review, followup)
      PROVE  GapInv'
    BY <1>4 DEF TypeOK, ClosedGapsRest, RecordIsKept, SendableIsVetted, SetPolicy
<1>5. ASSUME NEW delivered \in SUBSET Gap, NEW confirmed \in SUBSET Gap,
             RunDue(delivered, confirmed)
      PROVE  GapInv'
    <2>1. \A g \in confirmed : g \in Gap /\ Sendable(g)
        BY <1>5 DEF RunDue, Due
    <2>2. Cardinality(delivered \ confirmed) \in Nat
        BY GapsAreKnown, FS_Subset, FS_CardinalityType
    <2>3. TypeOK'
        <3>1. lost' \in 0..MaxLost
            BY <1>5, <2>2, MonthPasses DEF RunDue, TypeOK
        <3>2. /\ lastTriggered' \in [Gap -> 0..Month]
              /\ sinceRecorded' \in [Gap -> 0..Month]
            BY <1>5, MonthPasses DEF RunDue, TypeOK
        <3>3. /\ status' \in [Gap -> ClientStatus \cup VendorStatus]
              /\ \A g \in Gap :
                     status'[g] \in IF g \in ClientGap THEN ClientStatus ELSE VendorStatus
            BY <1>5 DEF RunDue, TypeOK, ClientStatus, VendorStatus
        <3> QED
            BY <1>5, <3>1, <3>2, <3>3 DEF RunDue, TypeOK, policy
    <2>4. ClosedGapsRest'
        BY <1>5, <2>1 DEF RunDue, TypeOK, ClosedGapsRest, Active, Sendable
    <2>5. RecordIsKept'
        BY <1>5 DEF RunDue, TypeOK, RecordIsKept
    <2>6. SendableIsVetted'
        BY <1>5, <2>1, GapsAreKnown DEF RunDue, TypeOK, SendableIsVetted, Sendable
    <2> QED
        BY <2>3, <2>4, <2>5, <2>6
<1>6. ASSUME NEW period \in Period, NEW shown \in SUBSET Gap, ReconcileOnly(period, shown)
      PROVE  GapInv'
    <2>1. TypeOK'
        BY <1>6 DEF TypeOK, ReconcileOnly, NowOpen, policy
    <2>2. ClosedGapsRest'
        BY <1>6 DEF TypeOK, ClosedGapsRest, ReconcileOnly
    <2>3. RecordIsKept' /\ SendableIsVetted'
        BY <1>6 DEF RecordIsKept, SendableIsVetted, ReconcileOnly
    <2> QED
        BY <2>1, <2>2, <2>3
<1>7. CASE Tick
    <2>1. TypeOK'
        BY <1>7, OlderType DEF TypeOK, Tick, policy
    <2>2. ClosedGapsRest' /\ RecordIsKept' /\ SendableIsVetted'
        BY <1>7 DEF TypeOK, ClosedGapsRest, RecordIsKept, SendableIsVetted, Tick
    <2> QED
        BY <2>1, <2>2
<1>8. CASE UNCHANGED vars
    BY <1>8 DEF vars, policy, history, TypeOK, ClosedGapsRest, RecordIsKept, SendableIsVetted
<1> QED
    BY <1>1, <1>2, <1>3, <1>4, <1>5, <1>6, <1>7, <1>8 DEF Next

\* The invariant holds in every behavior of run_due_triggers, the sync with a
\* reconciliation, and the review and policy endpoints.
THEOREM InvariantHolds == Spec => []GapInv
BY InitEstablishes, StepPreserves, PTL DEF Spec

\* The statuses of a trigger are those its bucket may have (models.py:506-508).
THEOREM TypeCorrect == Spec => []TypeOK
<1>1. GapInv => TypeOK
    BY DEF GapInv
<1> QED
    BY <1>1, InvariantHolds, PTL

\* Nobody is chased about a gap that its latest reconciliation did not show,
\* for longer than until the next sync that commits.
THEOREM ClosedGapsAreLeftAlone == Spec => []ClosedGapsRest
<1>1. GapInv => ClosedGapsRest
    BY DEF GapInv
<1> QED
    BY <1>1, InvariantHolds, PTL

\* A recorded message holds the next one back for a month.
THEOREM MessagesAreMonthly == Spec => OncePerMonth
<1>1. ASSUME GapInv, [Next]_vars
      PROVE  [\A g \in outbox' : sinceRecorded[g] = Month]_vars
    <2>1. ASSUME NEW delivered \in SUBSET Gap, NEW confirmed \in SUBSET Gap,
                 RunDue(delivered, confirmed)
          PROVE  \A g \in outbox' : sinceRecorded[g] = Month
        BY <1>1, <2>1 DEF RunDue, Due, GapInv, RecordIsKept
    <2>2. ASSUME outbox' = {} PROVE \A g \in outbox' : sinceRecorded[g] = Month
        BY <2>2
    <2> QED
        BY <1>1, <2>1, <2>2 DEF Next, Sync, ReconcileOnly, Approve, Reject, SetPolicy, Tick
<1> QED
    BY <1>1, InvariantHolds, PTL DEF Spec, OncePerMonth

\* No message leaves without a person's approval or the firm's policy.
THEOREM EveryMessageIsVetted == Spec => ContactIsVetted
<1> DEFINE Vetted(g) == IF g \in ClientGap THEN g \in vetted ELSE autoFollowup
<1>1. ASSUME GapInv, [Next]_vars
      PROVE  [\A g \in outbox' : Vetted(g)]_vars
    <2>1. ASSUME NEW delivered \in SUBSET Gap, NEW confirmed \in SUBSET Gap,
                 RunDue(delivered, confirmed)
          PROVE  \A g \in outbox' : Vetted(g)
        BY <1>1, <2>1 DEF RunDue, Due, Sendable, GapInv, SendableIsVetted
    <2>2. ASSUME outbox' = {} PROVE \A g \in outbox' : Vetted(g)
        BY <2>2
    <2> QED
        BY <1>1, <2>1, <2>2 DEF Next, Sync, ReconcileOnly, Approve, Reject, SetPolicy, Tick
<1> QED
    BY <1>1, InvariantHolds, PTL DEF Spec, ContactIsVetted
=============================================================================
