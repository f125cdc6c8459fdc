----------------------------- MODULE WorkerProofs -----------------------------
(***************************************************************************)
(* Proofs about what the extractions of a worker share: the guard and the  *)
(* lanes (ExtractionLanes), the calls to the model (ModelCalls) and the    *)
(* workbook (Workbook), each for any number of files, documents, writers   *)
(* and for any limits.                                                     *)
(***************************************************************************)
EXTENDS ExtractionLanes, ModelCalls, Workbook, FiniteSetTheorems,
        SequenceTheorems, WellFoundedInduction, TLAPS

-----------------------------------------------------------------------------
(***************************************************************************)
(* The guard and the lanes.                                                *)
(*                                                                         *)
(* Len(calls) <= Rpm is kept only because a coroutine that wakes finds the *)
(* oldest call out of the window, so the invariant ties the sleep that is  *)
(* left to the age of that call; nobody else may have touched the calls    *)
(* meanwhile, so it names the sleeper as the holder of the lock.  Slots    *)
(* are conserved because a coroutine that resumes is in the queue it       *)
(* leaves.  That the first batch is throttled rests on what the primitives *)
(* are bound to: no loop but those that have begun.                        *)
(*                                                                         *)
(* The window's lemmas come first: what is popped is a prefix of the ages, *)
(* which ageing and a new token leave where it was.                        *)
(***************************************************************************)
Ages == 0..Window

\* A set of numbers that is not empty has a least element.
LEMMA LeastElement ==
    ASSUME NEW S \in SUBSET Nat, S # {}
    PROVE  \E x \in S : \A y \in S : x <= y
<1>1. PICK x \in S : \A y \in S : ~(<<y, x>> \in OpToRel(<, Nat))
    BY WFMin, NatLessThanWellFounded
<1>2. ASSUME NEW y \in S PROVE x <= y
    <2>1. <<y, x>> \notin OpToRel(<, Nat)
        BY <1>1
    <2>2. y \in Nat /\ x \in Nat /\ ~(y < x)
        BY <2>1 DEF OpToRel
    <2> QED
        BY <2>2
<1> QED
    BY <1>2

\* What has left the window are the first k of the ages.
Drops(ages, k) ==
    /\ k \in 0..Len(ages)
    /\ \A i \in 1..k : ages[i] >= Window
    /\ k < Len(ages) => ages[k + 1] < Window

\* When the first k ages are out and the next is in, the window is the rest.
LEMMA WindowDrops ==
    ASSUME NEW ages \in Seq(Ages), NEW k, Drops(ages, k)
    PROVE  /\ WithinWindow(ages) \in Seq(Ages)
           /\ Len(WithinWindow(ages)) = Len(ages) - k
           /\ \A i \in 1..(Len(ages) - k) : WithinWindow(ages)[i] = ages[k + i]
<1> DEFINE young == {i \in DOMAIN ages : ages[i] < Window}
           first == CHOOSE i \in young : \A j \in young : i <= j
<1> USE LimitsArePositive DEF Ages
<1>1. CASE k = Len(ages)
    <2>1. young = {}
        BY <1>1 DEF Drops
    <2>2. WithinWindow(ages) = <<>>
        BY <2>1 DEF WithinWindow
    <2> QED
        BY <1>1, <2>2
<1>2. CASE k < Len(ages)
    <2>1. k + 1 \in young /\ \A j \in young : k + 1 <= j
        BY <1>2 DEF Drops
    <2>2. first = k + 1
        BY <2>1
    <2>3. WithinWindow(ages) = SubSeq(ages, k + 1, Len(ages))
        BY <2>1, <2>2 DEF WithinWindow
    <2>4. k + 1 \in Int /\ Len(ages) \in Int /\ \A i \in (k + 1)..Len(ages) : ages[i] \in Ages
        BY DEF Drops
    <2>5. /\ SubSeq(ages, k + 1, Len(ages)) \in Seq(Ages)
          /\ Len(SubSeq(ages, k + 1, Len(ages)))
                = IF k + 1 <= Len(ages) THEN Len(ages) - (k + 1) + 1 ELSE 0
          /\ \A i \in 1..(Len(ages) - (k + 1) + 1) :
                SubSeq(ages, k + 1, Len(ages))[i] = ages[(k + 1) + i - 1]
        BY <2>4, SubSeqProperties
    <2> QED
        BY <1>2, <2>3, <2>5 DEF Drops
<1> QED
    BY <1>1, <1>2 DEF Drops

\* There is such a k, since the youngest index is found or there is none.
LEMMA SomeDrops ==
    ASSUME NEW ages \in Seq(Ages)
    PROVE  \E k : Drops(ages, k)
<1> DEFINE young == {i \in DOMAIN ages : ages[i] < Window}
<1> USE LimitsArePositive DEF Ages
<1>1. CASE young = {}
    BY <1>1, Drops(ages, Len(ages)) DEF Drops
<1>2. CASE young # {}
    <2>0. young \in SUBSET Nat
        OBVIOUS
    <2>1. PICK i \in young : \A j \in young : i <= j
        <3> HIDE DEF young
        <3> QED
            BY <2>0, <1>2, LeastElement
    <2>2. Drops(ages, i - 1)
        BY <2>1 DEF Drops
    <2> QED
        BY <2>2
<1> QED
    BY <1>1, <1>2

\* Nothing is popped when the oldest call is still within the window.
LEMMA WindowIsUntouched ==
    ASSUME NEW ages \in Seq(Ages), ages = <<>> \/ ages[1] < Window
    PROVE  WithinWindow(ages) = ages
<1> USE LimitsArePositive DEF Ages
<1>1. Drops(ages, 0)
    BY DEF Drops
<1> HIDE DEF Ages
<1>2. WithinWindow(ages) \in Seq(Ages) /\ Len(WithinWindow(ages)) = Len(ages) - 0
      /\ \A i \in 1..(Len(ages) - 0) : WithinWindow(ages)[i] = ages[0 + i]
    BY <1>1, WindowDrops
<1> QED
    BY <1>2, SeqEqual

\* What the popping leaves begins within the window: popping again, or after a
\* new token, changes nothing.
LEMMA WindowBegins ==
    ASSUME NEW ages \in Seq(Ages)
    PROVE  /\ WithinWindow(ages) \in Seq(Ages)
           /\ Len(WithinWindow(ages)) <= Len(ages)
           /\ WithinWindow(ages) = <<>> \/ WithinWindow(ages)[1] < Window
           /\ WithinWindow(WithinWindow(ages)) = WithinWindow(ages)
           /\ WithinWindow(Append(WithinWindow(ages), 0)) = Append(WithinWindow(ages), 0)
<1> USE LimitsArePositive
<1> DEFINE w == WithinWindow(ages)
<1>1. PICK k : Drops(ages, k)
    BY SomeDrops
<1>2. w \in Seq(Ages) /\ Len(w) = Len(ages) - k
      /\ \A i \in 1..(Len(ages) - k) : w[i] = ages[k + i]
    BY <1>1, WindowDrops
<1> HIDE DEF w
<1>3. w = <<>> \/ w[1] < Window
    BY <1>1, <1>2 DEF Drops
<1>4. Append(w, 0) \in Seq(Ages) /\ Append(w, 0)[1] < Window
    BY <1>2, <1>3, AppendProperties DEF Ages
<1>5. WithinWindow(w) = w /\ WithinWindow(Append(w, 0)) = Append(w, 0)
    BY <1>2, <1>3, <1>4, WindowIsUntouched
<1> QED
    BY <1>1, <1>2, <1>3, <1>5 DEF w, Drops

\* Ageing what is left of the window or all of the calls shows the same window.
LEMMA WindowAges ==
    ASSUME NEW ages \in Seq(Ages)
    PROVE  /\ Older(ages) \in Seq(Ages)
           /\ Len(Older(ages)) = Len(ages)
           /\ WithinWindow(Older(WithinWindow(ages))) = WithinWindow(Older(ages))
<1> USE LimitsArePositive
<1>a. ASSUME NEW s \in Seq(Ages)
      PROVE  /\ Older(s) \in Seq(Ages) /\ Len(Older(s)) = Len(s)
             /\ \A i \in 1..Len(s) : Older(s)[i] = IF s[i] < Window THEN s[i] + 1 ELSE Window
    BY DEF Older, Ages
<1> DEFINE w == WithinWindow(ages)
           old == Older(ages)
           young == Older(w)
<1>1. PICK k : Drops(ages, k)
    BY SomeDrops
<1>2. w \in Seq(Ages) /\ Len(w) = Len(ages) - k
      /\ \A i \in 1..(Len(ages) - k) : w[i] = ages[k + i]
    BY <1>1, WindowDrops
<1>3. /\ old \in Seq(Ages) /\ Len(old) = Len(ages)
      /\ \A i \in 1..Len(ages) : old[i] = IF ages[i] < Window THEN ages[i] + 1 ELSE Window
    BY <1>a
<1>4. /\ young \in Seq(Ages) /\ Len(young) = Len(w)
      /\ \A i \in 1..Len(w) : young[i] = IF w[i] < Window THEN w[i] + 1 ELSE Window
    BY <1>a, <1>2
<1> HIDE DEF w, old, young
<1>5. PICK n : Drops(old, n)
    BY <1>3, SomeDrops
<1>6. k \in Nat /\ n \in Nat /\ k <= n /\ n <= Len(ages)
    BY <1>1, <1>3, <1>5 DEF Drops, Ages
<1>7. \A i \in 1..(Len(ages) - k) : young[i] = old[k + i]
    <2> SUFFICES ASSUME NEW i \in 1..(Len(ages) - k) PROVE young[i] = old[k + i]
        OBVIOUS
    <2>1. i \in 1..Len(w) /\ k + i \in 1..Len(ages) /\ w[i] = ages[k + i]
        BY <1>2, <1>6
    <2> QED
        BY <2>1, <1>3, <1>4
<1>8. Drops(young, n - k)
    <2>1. n - k \in 0..Len(young)
        BY <1>2, <1>4, <1>6
    <2>2. ASSUME NEW i \in 1..(n - k) PROVE young[i] >= Window
        <3>1. i \in 1..(Len(ages) - k) /\ k + i \in 1..n
            BY <1>6
        <3> QED
            BY <3>1, <1>5, <1>7 DEF Drops
    <2>3. ASSUME n - k < Len(young) PROVE young[(n - k) + 1] < Window
        <3>1. (n - k) + 1 \in 1..(Len(ages) - k) /\ k + ((n - k) + 1) = n + 1 /\ n < Len(old)
            BY <2>3, <1>2, <1>3, <1>4, <1>6
        <3> QED
            BY <3>1, <1>5, <1>7 DEF Drops
    <2> QED
        BY <2>1, <2>2, <2>3 DEF Drops
<1>9. /\ WithinWindow(old) \in Seq(Ages) /\ Len(WithinWindow(old)) = Len(ages) - n
      /\ \A i \in 1..(Len(ages) - n) : WithinWindow(old)[i] = old[n + i]
    BY <1>3, <1>5, WindowDrops
<1>10. /\ WithinWindow(young) \in Seq(Ages) /\ Len(WithinWindow(young)) = Len(ages) - n
       /\ \A i \in 1..(Len(ages) - n) : WithinWindow(young)[i] = old[n + i]
    <2>1. /\ WithinWindow(young) \in Seq(Ages) /\ Len(WithinWindow(young)) = Len(young) - (n - k)
          /\ \A i \in 1..(Len(young) - (n - k)) : WithinWindow(young)[i] = young[(n - k) + i]
        BY <1>4, <1>8, WindowDrops
    <2> QED
        BY <2>1, <1>2, <1>4, <1>6, <1>7
<1>11. WithinWindow(young) = WithinWindow(old)
    BY <1>9, <1>10, <1>6, SeqEqual
<1> QED
    BY <1>3, <1>11 DEF old, young, w

-----------------------------------------------------------------------------
Queued(f, queue) == \E i \in DOMAIN queue : queue[i] = f

BindingsAreKnown == \A p \in Primitive : bound[p] <= loop

SleeperHoldsTheLock ==
    /\ sleeper = {f \in File : pc[f] = "sleep"}
    /\ \A f, g \in sleeper : f = g
    /\ sleeper # {} => calls # <<>> /\ calls[1] + sleepLeft >= Window

WaitersAreQueued ==
    \A f \in File :
        /\ pc[f] = "locked_out" => Queued(f, guardQueue)
        /\ pc[f] = "waiting" => Queued(f, laneQueue[LaneOf(f)])

CallsAreRecent == Len(calls) <= Rpm /\ recent = WithinWindow(calls)

LanesInv ==
    /\ TypeOK /\ SlotsAreConserved /\ FirstBatchIsThrottled
    /\ BindingsAreKnown /\ SleeperHoldsTheLock /\ WaitersAreQueued /\ CallsAreRecent

\* Where a coroutine may stand.
Places == {"idle", "begin", "locked_out", "sleep", "token", "waiting", "extract",
           "done", "failed", "refused"}

\* The files being extracted in a lane, by where the files stand.
InLane(place, lane) == {f \in File : place[f] = "extract" /\ LaneOf(f) = lane}

\* An extraction more in a lane is a file more there, and none in the other.
LEMMA InLaneCounts ==
    ASSUME NEW place \in [File -> Places], NEW f \in File, place[f] # "extract", NEW lane
    PROVE  /\ Cardinality(InLane(place, lane)) \in Nat
           /\ Cardinality(InLane([place EXCEPT ![f] = "extract"], lane))
                = IF LaneOf(f) = lane THEN Cardinality(InLane(place, lane)) + 1
                                      ELSE Cardinality(InLane(place, lane))
<1> DEFINE more == [place EXCEPT ![f] = "extract"]
<1>1. IsFiniteSet(InLane(place, lane))
    BY BatchesAreFinite, FS_Subset DEF InLane
<1>2. CASE LaneOf(f) = lane
    <2>1. InLane(more, lane) = InLane(place, lane) \cup {f} /\ f \notin InLane(place, lane)
        BY <1>2 DEF InLane
    <2> QED
        BY <1>1, <1>2, <2>1, FS_AddElement, FS_CardinalityType
<1>3. CASE LaneOf(f) # lane
    <2>1. InLane(more, lane) = InLane(place, lane)
        BY <1>3 DEF InLane
    <2> QED
        BY <1>1, <1>3, <2>1, FS_CardinalityType
<1> QED
    BY <1>2, <1>3

\* Who is not extracting does not count.
LEMMA InLaneSame ==
    ASSUME NEW place, NEW to, \A f \in File : (place[f] = "extract") <=> (to[f] = "extract"), NEW lane
    PROVE  InLane(place, lane) = InLane(to, lane)
BY DEF InLane

\* A lane in which nobody extracts is empty.
LEMMA NobodyExtracts ==
    ASSUME NEW place, \A f \in File : place[f] # "extract", NEW lane
    PROVE  Cardinality(InLane(place, lane)) = 0
<1>1. InLane(place, lane) = {}
    BY DEF InLane
<1> QED
    BY <1>1, FS_EmptySet

SlotsFit(place, left) == \A lane \in Lane : left[lane] + Cardinality(InLane(place, lane)) = Slots[lane]

\* SlotsAreConserved, of the files' places and the free slots.
LEMMA SlotsFitMeans ==
    /\ SlotsAreConserved <=> SlotsFit(pc, free)
    /\ SlotsAreConserved' <=> SlotsFit(pc', free')
BY DEF SlotsAreConserved, SlotsFit, InLane

\* The invariant holds initially.
LEMMA LanesInitEstablishes == Init => LanesInv
<1> SUFFICES ASSUME Init PROVE LanesInv
    OBVIOUS
<1> USE LimitsArePositive DEF Init
<1>1. TypeOK
    BY DEF TypeOK, Slots, Lane, Primitive
<1>2. SlotsAreConserved
    <2>1. \A lane \in Lane : Cardinality(InLane(pc, lane)) = 0
        BY NobodyExtracts
    <2>2. SlotsFit(pc, free)
        BY <2>1 DEF SlotsFit, Slots, Lane
    <2> QED
        BY <2>2, SlotsFitMeans
<1>3. FirstBatchIsThrottled /\ BindingsAreKnown /\ WaitersAreQueued
    BY DEF FirstBatchIsThrottled, BindingsAreKnown, WaitersAreQueued, Primitive
<1>4. SleeperHoldsTheLock
    BY DEF SleeperHoldsTheLock
<1>5. CallsAreRecent
    <2>1. <<>> \in Seq(Ages)
        OBVIOUS
    <2>2. WithinWindow(<<>>) = <<>>
        BY <2>1, WindowIsUntouched
    <2> QED
        BY <2>2 DEF CallsAreRecent
<1> QED
    BY <1>1, <1>2, <1>3, <1>4, <1>5 DEF LanesInv

\* A slot is taken where one is free, or given back, and the lanes still fit.
LEMMA SlotsStep ==
    ASSUME LanesInv, NEW f \in File
    PROVE  /\ /\ pc[f] # "extract" /\ free[LaneOf(f)] > 0
              /\ pc' = [pc EXCEPT ![f] = "extract"]
              /\ free' = [free EXCEPT ![LaneOf(f)] = @ - 1]
              => SlotsAreConserved'
           /\ \A to \in Returned :
                /\ pc[f] = "extract"
                /\ pc' = [pc EXCEPT ![f] = to]
                /\ free' = [free EXCEPT ![LaneOf(f)] = @ + 1]
                => SlotsAreConserved'
           /\ /\ \A g \in File : (pc[g] = "extract") <=> (pc'[g] = "extract")
              /\ free' = free
              => SlotsAreConserved'
           /\ /\ \A g \in File : pc'[g] # "extract"
              /\ free' = Slots
              => SlotsAreConserved'
<1> USE DEF LanesInv
<1>0. SlotsFit(pc, free) /\ pc \in [File -> Places] /\ free \in [Lane -> Nat] /\ LaneOf(f) \in Lane
    <2>1. SlotsFit(pc, free)
        BY SlotsFitMeans
    <2>2. pc \in [File -> Places] /\ free \in [Lane -> Nat]
        BY DEF TypeOK, Returned, Places
    <2>3. LaneOf(f) \in Lane
        BY DEF LaneOf, Lane
    <2> QED
        BY <2>1, <2>2, <2>3
<1>1. ASSUME pc[f] # "extract", free[LaneOf(f)] > 0, pc' = [pc EXCEPT ![f] = "extract"],
             free' = [free EXCEPT ![LaneOf(f)] = @ - 1]
      PROVE  SlotsAreConserved'
    <2>1. ASSUME NEW lane \in Lane
          PROVE  free'[lane] + Cardinality(InLane(pc', lane)) = Slots[lane]
        <3>1. /\ Cardinality(InLane(pc, lane)) \in Nat
              /\ Cardinality(InLane(pc', lane))
                    = IF LaneOf(f) = lane THEN Cardinality(InLane(pc, lane)) + 1
                                          ELSE Cardinality(InLane(pc, lane))
            BY <1>0, <1>1, InLaneCounts
        <3>2. free[lane] + Cardinality(InLane(pc, lane)) = Slots[lane] /\ free[lane] \in Nat
            BY <1>0 DEF SlotsFit
        <3>3. free'[lane] = IF LaneOf(f) = lane THEN free[lane] - 1 ELSE free[lane]
            BY <1>0, <1>1
        <3> QED
            BY <3>1, <3>2, <3>3
    <2> QED
        BY <2>1, SlotsFitMeans DEF SlotsFit
<1>2. ASSUME NEW to \in Returned, pc[f] = "extract", pc' = [pc EXCEPT ![f] = to],
             free' = [free EXCEPT ![LaneOf(f)] = @ + 1]
      PROVE  SlotsAreConserved'
    <2>0. pc' \in [File -> Places] /\ pc'[f] # "extract" /\ pc = [pc' EXCEPT ![f] = "extract"]
        BY <1>0, <1>2 DEF Returned, Places
    <2>1. ASSUME NEW lane \in Lane
          PROVE  free'[lane] + Cardinality(InLane(pc', lane)) = Slots[lane]
        <3>1. /\ Cardinality(InLane(pc', lane)) \in Nat
              /\ Cardinality(InLane(pc, lane))
                    = IF LaneOf(f) = lane THEN Cardinality(InLane(pc', lane)) + 1
                                          ELSE Cardinality(InLane(pc', lane))
            BY <2>0, InLaneCounts
        <3>2. free[lane] + Cardinality(InLane(pc, lane)) = Slots[lane] /\ free[lane] \in Nat
            BY <1>0 DEF SlotsFit
        <3>3. free'[lane] = IF LaneOf(f) = lane THEN free[lane] + 1 ELSE free[lane]
            BY <1>0, <1>2
        <3> QED
            BY <3>1, <3>2, <3>3
    <2> QED
        BY <2>1, SlotsFitMeans DEF SlotsFit
<1>3. ASSUME \A g \in File : (pc[g] = "extract") <=> (pc'[g] = "extract"), free' = free
      PROVE  SlotsAreConserved'
    <2>1. \A lane \in Lane : InLane(pc', lane) = InLane(pc, lane)
        BY <1>3, InLaneSame
    <2> QED
        BY <1>0, <1>3, <2>1, SlotsFitMeans DEF SlotsFit
<1>4. ASSUME \A g \in File : pc'[g] # "extract", free' = Slots
      PROVE  SlotsAreConserved'
    <2>1. \A lane \in Lane : Cardinality(InLane(pc', lane)) = 0
        BY <1>4, NobodyExtracts
    <2>2. \A lane \in Lane : Slots[lane] \in Nat
        BY LimitsArePositive DEF Slots, Lane
    <2> QED
        BY <1>4, <2>1, <2>2, SlotsFitMeans DEF SlotsFit
<1> QED
    BY <1>1, <1>2, <1>3, <1>4

\* What a coroutine finds in the guard: issuing a token below the limit leaves
\* the calls within it, and a coroutine that has to sleep leaves them as the
\* window shows them.
LEMMA GuardKeepsTheRate ==
    ASSUME LanesInv, NEW f \in File
    PROVE  /\ IssueToken(f) /\ Len(WithinWindow(calls)) < Rpm
              => calls' \in Seq(Ages) /\ recent' \in Seq(Ages) /\ CallsAreRecent'
           /\ calls' = WithinWindow(calls) /\ recent' = recent
              => calls' \in Seq(Ages) /\ recent' \in Seq(Ages) /\ CallsAreRecent'
           /\ Len(WithinWindow(calls)) >= Rpm
              => /\ WithinWindow(calls) # <<>>
                 /\ WithinWindow(calls)[1] \in 0..(Window - 1)
<1> USE LimitsArePositive DEF LanesInv
<1> DEFINE w == WithinWindow(calls)
<1>1. calls \in Seq(Ages) /\ Len(calls) <= Rpm /\ recent = w
    BY DEF TypeOK, CallsAreRecent, Ages
<1>2. w \in Seq(Ages) /\ Len(w) <= Len(calls) /\ (w = <<>> \/ w[1] < Window)
      /\ WithinWindow(w) = w /\ WithinWindow(Append(w, 0)) = Append(w, 0)
    BY <1>1, WindowBegins
<1> HIDE DEF w
<1>3. ASSUME IssueToken(f), Len(w) < Rpm
      PROVE  calls' \in Seq(Ages) /\ recent' \in Seq(Ages) /\ CallsAreRecent'
    <2>1. calls' = Append(w, 0) /\ recent' = Append(w, 0)
        BY <1>1, <1>2, <1>3 DEF IssueToken, w
    <2>2. Append(w, 0) \in Seq(Ages) /\ Len(Append(w, 0)) <= Rpm
        BY <1>2, <1>3, AppendProperties DEF Ages
    <2> QED
        BY <2>1, <2>2, <1>2 DEF CallsAreRecent
<1>4. ASSUME calls' = w, recent' = recent
      PROVE  calls' \in Seq(Ages) /\ recent' \in Seq(Ages) /\ CallsAreRecent'
    <2>1. calls \in Seq(Ages) /\ Len(w) <= Rpm
        BY <1>1, <1>2
    <2> QED
        BY <1>1, <1>2, <1>4, <2>1 DEF CallsAreRecent
<1>5. ASSUME Len(w) >= Rpm
      PROVE  w # <<>> /\ w[1] \in 0..(Window - 1)
    <2>1. w # <<>> /\ 1 \in 1..Len(w)
        BY <1>2, <1>5
    <2>2. w[1] \in Ages
        BY <1>2, <2>1, ElementOfSeq
    <2> QED
        BY <1>2, <2>1, <2>2 DEF Ages
<1> QED
    BY <1>3, <1>4, <1>5 DEF w

\* A coroutine that goes into the guard finds it unlocked: it leaves with a
\* token or asleep, and is the only one asleep.
LEMMA GuardIsEntered ==
    ASSUME LanesInv, NEW f \in File, EnterGuard(f), sleeper = {},
           pc[f] \in {"begin", "locked_out"}
    PROVE  /\ calls' \in Seq(Ages) /\ recent' \in Seq(Ages) /\ sleepLeft' \in 0..Window
           /\ CallsAreRecent' /\ SleeperHoldsTheLock'
           /\ sleeper' \subseteq File
           /\ \E to \in {"token", "sleep"} : pc' = [pc EXCEPT ![f] = to]
<1> USE LimitsArePositive DEF LanesInv
<1>1. CASE Len(WithinWindow(calls)) < Rpm
    <2>1. IssueToken(f) /\ sleeper' = {} /\ sleepLeft' = sleepLeft
        BY <1>1 DEF EnterGuard
    <2>2. SleeperHoldsTheLock'
        BY <2>1 DEF SleeperHoldsTheLock, IssueToken, TypeOK
    <2> QED
        BY <1>1, <2>1, <2>2, GuardKeepsTheRate DEF TypeOK, IssueToken
<1>2. CASE ~(Len(WithinWindow(calls)) < Rpm)
    <2> DEFINE w == WithinWindow(calls)
    <2>1. /\ calls' = w /\ sleeper' = {f} /\ recent' = recent
          /\ sleepLeft' = Window - Head(w) /\ pc' = [pc EXCEPT ![f] = "sleep"]
        BY <1>2 DEF EnterGuard
    <2>2. w \in Seq(Ages)
        BY WindowBegins DEF TypeOK, Ages
    <2>3. w # <<>> /\ w[1] \in 0..(Window - 1)
        <3>1. Len(w) \in Nat
            BY <2>2
        <3> QED
            BY <1>2, <3>1, GuardKeepsTheRate
    <2> HIDE DEF w
    <2>4. sleepLeft' \in 0..Window /\ calls'[1] + sleepLeft' >= Window
        BY <2>1, <2>2, <2>3
    <2>5. SleeperHoldsTheLock'
        BY <2>1, <2>3, <2>4 DEF SleeperHoldsTheLock, TypeOK
    <2> QED
        BY <2>1, <2>4, <2>5, GuardKeepsTheRate DEF w
<1> QED
    BY <1>1, <1>2

\* A step that moves one coroutine into a place where it does not wait leaves
\* the other coroutines in the queues they were in.
LEMMA WaitersStay ==
    ASSUME LanesInv, NEW f \in File, NEW to \in Places \ {"locked_out", "waiting"},
           pc' = [pc EXCEPT ![f] = to],
           guardQueue' = guardQueue \/ (guardQueue # <<>> /\ f = Head(guardQueue)
                                        /\ guardQueue' = Tail(guardQueue)),
           laneQueue' = laneQueue
               \/ (laneQueue[LaneOf(f)] # <<>> /\ f = Head(laneQueue[LaneOf(f)])
                   /\ laneQueue' = [laneQueue EXCEPT ![LaneOf(f)] = Tail(@)])
    PROVE  WaitersAreQueued'
<1> USE DEF LanesInv
<1>0. ASSUME NEW queue \in Seq(File), NEW g \in File, g # f, Queued(g, queue),
             queue # <<>>, f = Head(queue)
      PROVE  Queued(g, Tail(queue))
    <2>1. PICK i \in 1..Len(queue) : queue[i] = g
        BY <1>0 DEF Queued
    <2>2. i # 1
        BY <1>0, <2>1
    <2>3. Tail(queue) \in Seq(File) /\ Len(Tail(queue)) = Len(queue) - 1
          /\ \A j \in 1..Len(Tail(queue)) : Tail(queue)[j] = queue[j + 1]
        BY <1>0, HeadTailProperties
    <2>4. i - 1 \in 1..Len(Tail(queue)) /\ i - 1 \in DOMAIN Tail(queue)
        BY <2>1, <2>2, <2>3
    <2>5. Tail(queue)[i - 1] = g
        BY <2>1, <2>3, <2>4
    <2> QED
        BY <2>4, <2>5 DEF Queued
<1>1. guardQueue \in Seq(File) /\ laneQueue \in [Lane -> Seq(File)] /\ pc \in [File -> Places]
    BY DEF TypeOK, Places, Returned
<1>2. ASSUME NEW g \in File, pc'[g] = "locked_out" PROVE Queued(g, guardQueue')
    <2>1. g # f /\ pc[g] = "locked_out"
        BY <1>1, <1>2
    <2> QED
        BY <1>0, <1>1, <2>1 DEF WaitersAreQueued
<1>3. ASSUME NEW g \in File, pc'[g] = "waiting" PROVE Queued(g, laneQueue'[LaneOf(g)])
    <2>1. g # f /\ pc[g] = "waiting" /\ Queued(g, laneQueue[LaneOf(g)])
        BY <1>1, <1>3 DEF WaitersAreQueued
    <2>2. LaneOf(f) \in Lane /\ LaneOf(g) \in Lane
        BY DEF LaneOf, Lane
    <2>3. CASE laneQueue' = laneQueue
        BY <2>1, <2>3
    <2>4. CASE laneQueue' # laneQueue /\ LaneOf(g) = LaneOf(f)
        <3>1. /\ laneQueue[LaneOf(f)] # <<>> /\ f = Head(laneQueue[LaneOf(f)])
              /\ laneQueue'[LaneOf(f)] = Tail(laneQueue[LaneOf(f)])
            BY <1>1, <2>2, <2>4
        <3> QED
            BY <1>0, <1>1, <2>1, <2>2, <2>4, <3>1
    <2>5. CASE laneQueue' # laneQueue /\ LaneOf(g) # LaneOf(f)
        BY <1>1, <2>1, <2>2, <2>5
    <2> QED
        BY <2>3, <2>4, <2>5
<1> QED
    BY <1>2, <1>3 DEF WaitersAreQueued

\* Whoever joins a queue is in it, and so are those who were.
LEMMA QueueGrows ==
    ASSUME NEW queue \in Seq(File), NEW f \in File
    PROVE  /\ Append(queue, f) \in Seq(File)
           /\ Queued(f, Append(queue, f))
           /\ \A g : Queued(g, queue) => Queued(g, Append(queue, f))
BY AppendProperties DEF Queued

\* Nobody sleeps before or after a step that leaves the guard alone.
LEMMA SleeperStays ==
    ASSUME LanesInv, UNCHANGED <<sleeper, sleepLeft, calls, recent>>,
           \A f \in File : (pc[f] = "sleep") <=> (pc'[f] = "sleep")
    PROVE  SleeperHoldsTheLock' /\ CallsAreRecent'
BY DEF LanesInv, SleeperHoldsTheLock, CallsAreRecent

-----------------------------------------------------------------------------
\* Every step of the coroutines, the batches and time preserves it.
LEMMA LanesStepPreserves == LanesInv /\ [Next]_vars => LanesInv'
<1> SUFFICES ASSUME LanesInv, [Next]_vars PROVE LanesInv'
    OBVIOUS
<1> USE LimitsArePositive DEF LanesInv
<1>t. /\ loop \in 0..MaxLoops /\ pc \in [File -> Places] /\ guardQueue \in Seq(File)
      /\ sleeper \in SUBSET File /\ sleepLeft \in 0..Window /\ calls \in Seq(Ages)
      /\ free \in [Lane -> Nat] /\ laneQueue \in [Lane -> Seq(File)]
      /\ bound \in [Primitive -> 0..MaxLoops] /\ recent \in Seq(Ages)
    BY DEF TypeOK, Places, Returned, Ages
<1>q. /\ loop' \in 0..MaxLoops /\ pc' \in [File -> Places] /\ guardQueue' \in Seq(File)
      /\ sleeper' \in SUBSET File /\ sleepLeft' \in 0..Window /\ calls' \in Seq(Ages)
      /\ free' \in [Lane -> Nat] /\ laneQueue' \in [Lane -> Seq(File)]
      /\ bound' \in [Primitive -> 0..MaxLoops] /\ recent' \in Seq(Ages)
      => TypeOK'
    BY DEF TypeOK, Places, Returned, Ages
<1>1. CASE UNCHANGED vars
    <2>1. SlotsAreConserved'
        BY <1>1, SlotsFitMeans DEF vars, guardVars, laneVars, SlotsFit, InLane
    <2> QED
        BY <1>1, <2>1, SleeperStays, <1>t, <1>q
           DEF vars, guardVars, laneVars, FirstBatchIsThrottled, BindingsAreKnown, WaitersAreQueued
<1>2. ASSUME NEW files \in SUBSET File, StartBatch(files) PROVE LanesInv'
    <2>1. /\ loop' = loop + 1 /\ loop < MaxLoops /\ \A f \in File : pc[f] = "idle"
          /\ pc' = [f \in File |-> IF f \in files THEN "begin" ELSE "idle"]
          /\ UNCHANGED <<guardQueue, sleeper, sleepLeft, calls, recent, free, laneQueue, bound>>
        BY <1>2 DEF StartBatch, Active, guardVars, laneVars
    <2>2. TypeOK'
        BY <2>1, <1>t, <1>q DEF Places
    <2>3. SlotsAreConserved'
        <3>1. CASE File = {}
            BY <2>1, <3>1, SlotsFitMeans DEF SlotsFit, InLane
        <3>2. CASE File # {}
            BY <2>1, <3>2, SlotsStep
        <3> QED
            BY <3>1, <3>2
    <2>4. FirstBatchIsThrottled' /\ BindingsAreKnown' /\ WaitersAreQueued'
        BY <2>1, <1>t DEF FirstBatchIsThrottled, BindingsAreKnown, WaitersAreQueued
    <2> QED
        BY <2>1, <2>2, <2>3, <2>4, SleeperStays
<1>3. CASE EndBatch
    <2>1. /\ \A f \in File : pc[f] \in {"idle"} \cup Returned
          /\ pc' = [f \in File |-> "idle"]
          /\ UNCHANGED <<loop, guardQueue, sleeper, sleepLeft, calls, recent, free, laneQueue, bound>>
        BY <1>3 DEF EndBatch, guardVars, laneVars
    <2>2. TypeOK'
        BY <2>1, <1>t, <1>q DEF Places
    <2>3. \A f \in File : pc[f] \notin {"extract", "sleep"} /\ pc'[f] \notin {"extract", "sleep"}
        BY <2>1 DEF Returned
    <2>4. SlotsAreConserved'
        <3>1. PICK f \in File : TRUE
            BY <1>3 DEF EndBatch, Active
        <3> QED
            BY <2>1, <2>3, SlotsStep
    <2>5. FirstBatchIsThrottled' /\ BindingsAreKnown' /\ WaitersAreQueued'
        BY <2>1 DEF FirstBatchIsThrottled, BindingsAreKnown, WaitersAreQueued
    <2> QED
        BY <2>1, <2>2, <2>3, <2>4, <2>5, SleeperStays
<1>4. CASE AbortBatch
    <2>1. /\ pc' = [f \in File |-> "idle"] /\ guardQueue' = <<>> /\ sleeper' = {}
          /\ sleepLeft' = 0 /\ laneQueue' = [lane \in Lane |-> <<>>] /\ free' = Slots
          /\ UNCHANGED <<loop, calls, recent, bound>>
        BY <1>4 DEF AbortBatch
    <2>2. TypeOK'
        <3>1. Slots \in [Lane -> Nat]
            BY DEF Slots, Lane
        <3> QED
            BY <2>1, <3>1, <1>t, <1>q DEF Places
    <2>3. SlotsAreConserved'
        <3>1. PICK f \in File : TRUE
            BY <1>4 DEF AbortBatch, Active
        <3> QED
            BY <2>1, SlotsStep
    <2>4. FirstBatchIsThrottled' /\ BindingsAreKnown' /\ WaitersAreQueued'
        BY <2>1 DEF FirstBatchIsThrottled, BindingsAreKnown, WaitersAreQueued
    <2>5. SleeperHoldsTheLock' /\ CallsAreRecent'
        BY <2>1 DEF SleeperHoldsTheLock, CallsAreRecent
    <2> QED
        BY <2>2, <2>3, <2>4, <2>5
<1>5. ASSUME NEW f \in File, CacheHit(f) PROVE LanesInv'
    <2>1. /\ pc[f] = "begin" /\ pc' = [pc EXCEPT ![f] = "done"]
          /\ UNCHANGED <<loop, guardQueue, sleeper, sleepLeft, calls, recent, free, laneQueue, bound>>
        BY <1>5 DEF CacheHit, guardVars, laneVars
    <2>2. TypeOK'
        BY <2>1, <1>t, <1>q DEF Places
    <2>3. SlotsAreConserved'
        BY <2>1, <1>t, SlotsStep
    <2>4. WaitersAreQueued'
        BY <2>1, WaitersStay DEF Places
    <2>5. FirstBatchIsThrottled' /\ BindingsAreKnown'
        BY <2>1, <1>t DEF FirstBatchIsThrottled, BindingsAreKnown
    <2> QED
        BY <2>1, <2>2, <2>3, <2>4, <2>5, <1>t, SleeperStays
<1>6. ASSUME NEW f \in File, AcquireGuard(f) PROVE LanesInv'
    <2>1. CASE /\ sleeper = {} /\ guardQueue = <<>> /\ EnterGuard(f)
               /\ UNCHANGED <<guardQueue, bound>>
        <3>1. pc[f] = "begin" /\ UNCHANGED <<loop, free, laneQueue, guardQueue, bound>>
            BY <1>6, <2>1 DEF AcquireGuard, laneVars
        <3>2. /\ calls' \in Seq(Ages) /\ recent' \in Seq(Ages) /\ sleepLeft' \in 0..Window
              /\ CallsAreRecent' /\ SleeperHoldsTheLock' /\ sleeper' \subseteq File
              /\ \E to \in {"token", "sleep"} : pc' = [pc EXCEPT ![f] = to]
            BY <2>1, <3>1, GuardIsEntered
        <3>3. PICK to \in {"token", "sleep"} : pc' = [pc EXCEPT ![f] = to]
            BY <3>2
        <3>4. TypeOK'
            BY <3>1, <3>2, <3>3, <1>t, <1>q DEF Places
        <3>5. SlotsAreConserved'
            BY <3>1, <3>3, <1>t, SlotsStep
        <3>6. WaitersAreQueued'
            BY <3>1, <3>3, WaitersStay DEF Places
        <3>7. FirstBatchIsThrottled' /\ BindingsAreKnown'
            BY <3>1, <3>3, <1>t DEF FirstBatchIsThrottled, BindingsAreKnown
        <3> QED
            BY <3>2, <3>4, <3>5, <3>6, <3>7
    <2>2. CASE /\ MayWait("guard") /\ guardQueue' = Append(guardQueue, f)
               /\ bound' = [bound EXCEPT !["guard"] = loop]
               /\ pc' = [pc EXCEPT ![f] = "locked_out"]
               /\ UNCHANGED <<sleeper, sleepLeft, calls, recent>>
        <3>1. pc[f] = "begin" /\ UNCHANGED <<loop, free, laneQueue>>
            BY <1>6 DEF AcquireGuard, laneVars
        <3>2. TypeOK'
            BY <2>2, <3>1, <1>t, <1>q, QueueGrows DEF Places
        <3>3. SlotsAreConserved'
            BY <2>2, <3>1, <1>t, SlotsStep
        <3>4. WaitersAreQueued'
            BY <2>2, <3>1, <1>t, QueueGrows DEF WaitersAreQueued
        <3>5. FirstBatchIsThrottled' /\ BindingsAreKnown'
            BY <2>2, <3>1, <1>t DEF FirstBatchIsThrottled, BindingsAreKnown
        <3> QED
            BY <2>2, <3>1, <3>2, <3>3, <3>4, <3>5, <1>t, SleeperStays
    <2>3. CASE /\ ~MayWait("guard") /\ pc' = [pc EXCEPT ![f] = "refused"]
               /\ UNCHANGED <<guardQueue, bound, sleeper, sleepLeft, calls, recent>>
        <3>1. pc[f] = "begin" /\ UNCHANGED <<loop, free, laneQueue>>
            BY <1>6 DEF AcquireGuard, laneVars
        <3>2. TypeOK'
            BY <2>3, <3>1, <1>t, <1>q DEF Places
        <3>3. SlotsAreConserved'
            BY <2>3, <3>1, <1>t, SlotsStep
        <3>4. WaitersAreQueued'
            BY <2>3, <3>1, WaitersStay DEF Places
        <3>5. loop # 1
            BY <2>3, <1>t DEF MayWait, BindingsAreKnown, Primitive
        <3>6. FirstBatchIsThrottled' /\ BindingsAreKnown'
            BY <2>3, <3>1, <3>5, <1>t DEF FirstBatchIsThrottled, BindingsAreKnown
        <3> QED
            BY <2>3, <3>1, <3>2, <3>3, <3>4, <3>6, <1>t, SleeperStays
    <2> QED
        BY <1>6, <2>1, <2>2, <2>3 DEF AcquireGuard
<1>7. ASSUME NEW f \in File, ResumeGuard(f) PROVE LanesInv'
    <2>1. /\ pc[f] = "locked_out" /\ sleeper = {} /\ f = Head(guardQueue)
          /\ guardQueue' = Tail(guardQueue) /\ EnterGuard(f)
          /\ UNCHANGED <<loop, free, laneQueue, bound>>
        BY <1>7 DEF ResumeGuard, laneVars
    <2>2. guardQueue # <<>>
        BY <2>1 DEF WaitersAreQueued, Queued
    <2>3. /\ calls' \in Seq(Ages) /\ recent' \in Seq(Ages) /\ sleepLeft' \in 0..Window
          /\ CallsAreRecent' /\ SleeperHoldsTheLock' /\ sleeper' \subseteq File
          /\ \E to \in {"token", "sleep"} : pc' = [pc EXCEPT ![f] = to]
        BY <2>1, GuardIsEntered
    <2>4. PICK to \in {"token", "sleep"} : pc' = [pc EXCEPT ![f] = to]
        BY <2>3
    <2>5. TypeOK'
        <3>1. guardQueue' \in Seq(File)
            BY <2>1, <2>2, <1>t, HeadTailProperties
        <3> QED
            BY <2>1, <2>3, <2>4, <3>1, <1>t, <1>q DEF Places
    <2>6. SlotsAreConserved'
        BY <2>1, <2>4, <1>t, SlotsStep
    <2>7. WaitersAreQueued'
        BY <2>1, <2>2, <2>4, WaitersStay DEF Places
    <2>8. FirstBatchIsThrottled' /\ BindingsAreKnown'
        BY <2>1, <2>4, <1>t DEF FirstBatchIsThrottled, BindingsAreKnown
    <2> QED
        BY <2>3, <2>5, <2>6, <2>7, <2>8
<1>8. ASSUME NEW f \in File, WakeUp(f) PROVE LanesInv'
    <2>1. /\ pc[f] = "sleep" /\ sleepLeft = 0 /\ IssueToken(f) /\ sleeper' = {}
          /\ pc' = [pc EXCEPT ![f] = "token"]
          /\ UNCHANGED <<loop, guardQueue, sleepLeft, free, laneQueue, bound>>
        BY <1>8 DEF WakeUp, IssueToken, laneVars
    <2>2. Len(WithinWindow(calls)) < Rpm
        <3>1. f \in sleeper /\ calls # <<>> /\ calls[1] >= Window
            BY <2>1, <1>t DEF SleeperHoldsTheLock, Ages
        <3>2. PICK k : Drops(calls, k)
            BY <1>t, SomeDrops
        <3>3. Len(WithinWindow(calls)) = Len(calls) - k
            BY <3>2, <1>t, WindowDrops
        <3>4. k \in 0..Len(calls) /\ Len(calls) \in Nat \ {0} /\ (k < Len(calls) => calls[k + 1] < Window)
            BY <3>1, <3>2, <1>t DEF Drops
        <3>5. k # 0
            <4>1. calls[1] \in Nat
                BY <3>4, <1>t, ElementOfSeq DEF Ages
            <4> QED
                BY <3>1, <3>4, <4>1
        <3> QED
            BY <3>3, <3>4, <3>5 DEF CallsAreRecent
    <2>3. calls' \in Seq(Ages) /\ recent' \in Seq(Ages) /\ CallsAreRecent'
        BY <2>1, <2>2, GuardKeepsTheRate
    <2>4. TypeOK'
        BY <2>1, <2>3, <1>t, <1>q DEF Places
    <2>5. SlotsAreConserved'
        BY <2>1, <1>t, SlotsStep
    <2>6. WaitersAreQueued'
        BY <2>1, WaitersStay DEF Places
    <2>7. SleeperHoldsTheLock'
        BY <2>1, <1>t DEF SleeperHoldsTheLock
    <2>8. FirstBatchIsThrottled' /\ BindingsAreKnown'
        BY <2>1, <1>t DEF FirstBatchIsThrottled, BindingsAreKnown
    <2> QED
        BY <2>3, <2>4, <2>5, <2>6, <2>7, <2>8
<1>9. ASSUME NEW f \in File, AcquireLane(f) PROVE LanesInv'
    <2> DEFINE lane == LaneOf(f)
    <2>0. lane \in Lane /\ lane \in Primitive
        BY DEF LaneOf, Lane, Primitive
    <2>1. pc[f] = "token" /\ UNCHANGED <<loop, guardQueue, sleeper, sleepLeft, calls, recent>>
        BY <1>9 DEF AcquireLane, guardVars
    <2> HIDE DEF lane
    <2>2. CASE /\ free[lane] > 0 /\ free' = [free EXCEPT ![lane] = @ - 1]
               /\ pc' = [pc EXCEPT ![f] = "extract"] /\ UNCHANGED <<laneQueue, bound>>
        <3>1. TypeOK'
            BY <2>0, <2>1, <2>2, <1>t, <1>q DEF Places
        <3>2. SlotsAreConserved'
            BY <2>1, <2>2, SlotsStep DEF lane
        <3>3. WaitersAreQueued'
            BY <2>1, <2>2, WaitersStay DEF Places
        <3>4. FirstBatchIsThrottled' /\ BindingsAreKnown'
            BY <2>1, <2>2, <1>t DEF FirstBatchIsThrottled, BindingsAreKnown
        <3> QED
            BY <2>1, <2>2, <3>1, <3>2, <3>3, <3>4, <1>t, SleeperStays
    <2>3. CASE /\ MayWait(lane) /\ laneQueue' = [laneQueue EXCEPT ![lane] = Append(@, f)]
               /\ bound' = [bound EXCEPT ![lane] = loop]
               /\ pc' = [pc EXCEPT ![f] = "waiting"] /\ UNCHANGED free
        <3>0. laneQueue' \in [Lane -> Seq(File)]
            BY <2>0, <2>3, <1>t, QueueGrows
        <3>1. TypeOK'
            BY <2>0, <2>1, <2>3, <3>0, <1>t, <1>q DEF Places
        <3>2. SlotsAreConserved'
            BY <2>1, <2>3, <1>t, SlotsStep
        <3>3. ASSUME NEW g \in File, pc'[g] = "waiting" PROVE Queued(g, laneQueue'[LaneOf(g)])
            <4>1. LaneOf(g) \in Lane
                BY DEF LaneOf, Lane
            <4>2. CASE g = f
                BY <2>0, <2>3, <4>2, <1>t, QueueGrows DEF lane
            <4>3. CASE g # f
                <5>1. Queued(g, laneQueue[LaneOf(g)])
                    BY <2>3, <3>3, <4>3, <1>t DEF WaitersAreQueued
                <5>2. CASE LaneOf(g) = lane
                    BY <2>0, <2>3, <5>1, <5>2, <1>t, QueueGrows
                <5>3. CASE LaneOf(g) # lane
                    BY <2>0, <2>3, <4>1, <5>1, <5>3, <1>t
                <5> QED
                    BY <5>2, <5>3
            <4> QED
                BY <4>2, <4>3
        <3>4. WaitersAreQueued'
            BY <2>1, <2>3, <3>3, <1>t DEF WaitersAreQueued
        <3>5. FirstBatchIsThrottled' /\ BindingsAreKnown'
            BY <2>1, <2>3, <1>t DEF FirstBatchIsThrottled, BindingsAreKnown
        <3> QED
            BY <2>1, <2>3, <3>1, <3>2, <3>4, <3>5, <1>t, SleeperStays
    <2>4. CASE /\ ~MayWait(lane) /\ pc' = [pc EXCEPT ![f] = "refused"]
               /\ UNCHANGED <<laneQueue, bound, free>>
        <3>1. TypeOK'
            BY <2>1, <2>4, <1>t, <1>q DEF Places
        <3>2. SlotsAreConserved'
            BY <2>1, <2>4, <1>t, SlotsStep
        <3>3. WaitersAreQueued'
            BY <2>1, <2>4, WaitersStay DEF Places
        <3>4. loop # 1
            BY <2>0, <2>4, <1>t DEF MayWait, BindingsAreKnown
        <3>5. FirstBatchIsThrottled' /\ BindingsAreKnown'
            BY <2>1, <2>4, <3>4, <1>t DEF FirstBatchIsThrottled, BindingsAreKnown
        <3> QED
            BY <2>1, <2>4, <3>1, <3>2, <3>3, <3>5, <1>t, SleeperStays
    <2> QED
        BY <1>9, <2>2, <2>3, <2>4 DEF AcquireLane, lane
<1>10. ASSUME NEW f \in File, ResumeLane(f) PROVE LanesInv'
    <2> DEFINE lane == LaneOf(f)
    <2>0. lane \in Lane
        BY DEF LaneOf, Lane
    <2>1. /\ pc[f] = "waiting" /\ free[lane] > 0 /\ f = Head(laneQueue[lane])
          /\ laneQueue' = [laneQueue EXCEPT ![lane] = Tail(@)]
          /\ free' = [free EXCEPT ![lane] = @ - 1] /\ pc' = [pc EXCEPT ![f] = "extract"]
          /\ UNCHANGED <<loop, guardQueue, sleeper, sleepLeft, calls, recent, bound>>
        BY <1>10 DEF ResumeLane, guardVars
    <2>2. laneQueue[lane] # <<>>
        BY <2>1 DEF WaitersAreQueued, Queued
    <2>3. TypeOK'
        <3>1. laneQueue' \in [Lane -> Seq(File)]
            BY <2>0, <2>1, <2>2, <1>t, HeadTailProperties
        <3>2. free' \in [Lane -> Nat]
            BY <2>0, <2>1, <1>t
        <3> QED
            BY <2>1, <3>1, <3>2, <1>t, <1>q DEF Places
    <2>4. SlotsAreConserved'
        BY <2>1, SlotsStep
    <2>5. WaitersAreQueued'
        BY <2>1, <2>2, WaitersStay DEF Places
    <2>6. FirstBatchIsThrottled' /\ BindingsAreKnown'
        BY <2>1, <1>t DEF FirstBatchIsThrottled, BindingsAreKnown
    <2> QED
        BY <2>1, <2>3, <2>4, <2>5, <2>6, <1>t, SleeperStays
<1>11. ASSUME NEW f \in File, NEW ok \in BOOLEAN, Extracted(f, ok) PROVE LanesInv'
    <2>1. PICK to \in {"done", "failed"} : pc' = [pc EXCEPT ![f] = to]
        BY <1>11 DEF Extracted
    <2>2. /\ pc[f] = "extract" /\ free' = [free EXCEPT ![LaneOf(f)] = @ + 1]
          /\ UNCHANGED <<loop, guardQueue, sleeper, sleepLeft, calls, recent, laneQueue, bound>>
        BY <1>11 DEF Extracted, guardVars
    <2>3. TypeOK'
        BY <2>1, <2>2, <1>t, <1>q DEF Places, LaneOf, Lane
    <2>4. SlotsAreConserved'
        BY <2>1, <2>2, SlotsStep DEF Returned
    <2>5. WaitersAreQueued'
        BY <2>1, <2>2, WaitersStay DEF Places
    <2>6. FirstBatchIsThrottled' /\ BindingsAreKnown'
        BY <2>1, <2>2, <1>t DEF FirstBatchIsThrottled, BindingsAreKnown
    <2> QED
        BY <2>1, <2>2, <2>3, <2>4, <2>5, <2>6, <1>t, SleeperStays
<1>12. CASE Tick
    <2>1. /\ calls' = Older(calls) /\ recent' = WithinWindow(Older(recent))
          /\ sleepLeft' = IF sleepLeft > 0 THEN sleepLeft - 1 ELSE 0
          /\ UNCHANGED <<loop, pc, guardQueue, sleeper, free, laneQueue, bound>>
        BY <1>12 DEF Tick, laneVars
    <2>2. calls' \in Seq(Ages) /\ Len(calls') = Len(calls) /\ recent' = WithinWindow(calls')
        BY <2>1, <1>t, WindowAges DEF CallsAreRecent
    <2>3. recent' \in Seq(Ages)
        BY <2>2, WindowBegins
    <2>4. TypeOK'
        BY <2>1, <2>2, <2>3, <1>t, <1>q
    <2>5. SlotsAreConserved'
        BY <2>1, SlotsFitMeans
    <2>6. CallsAreRecent'
        BY <2>2 DEF CallsAreRecent
    <2>7. SleeperHoldsTheLock'
        <3>1. ASSUME sleeper # {} PROVE calls' # <<>> /\ calls'[1] + sleepLeft' >= Window
            <4>1. calls # <<>> /\ calls[1] + sleepLeft >= Window /\ 1 \in 1..Len(calls)
                BY <3>1, <1>t DEF SleeperHoldsTheLock
            <4>2. calls'[1] = IF calls[1] < Window THEN calls[1] + 1 ELSE Window
                BY <2>1, <4>1 DEF Older
            <4>3. calls[1] \in 0..Window
                BY <4>1, <1>t, ElementOfSeq DEF Ages
            <4>4. calls' # <<>>
                BY <2>2, <4>1, <1>t
            <4> QED
                BY <2>1, <4>1, <4>2, <4>3, <4>4, <1>t
        <3> QED
            BY <2>1, <3>1 DEF SleeperHoldsTheLock
    <2>8. FirstBatchIsThrottled' /\ BindingsAreKnown' /\ WaitersAreQueued'
        BY <2>1 DEF FirstBatchIsThrottled, BindingsAreKnown, WaitersAreQueued
    <2> QED
        BY <2>4, <2>5, <2>6, <2>7, <2>8
<1> QED
    BY <1>1, <1>2, <1>3, <1>4, <1>5, <1>6, <1>7, <1>8, <1>9, <1>10, <1>11, <1>12
       DEF Next, Coroutine

\* Every reachable state satisfies the invariant.
LEMMA LanesInvariance == Spec => []LanesInv
BY LanesInitEstablishes, LanesStepPreserves, PTL DEF Spec

\* The worker's state stays well-typed: queues of files, ages within the window
\* and no negative count of slots, whatever is cancelled, refused or fails.
THEOREM LanesTypeCorrect == Spec => []TypeOK
BY LanesInvariance, PTL DEF LanesInv

\* Extractions and free slots make up the capacity of each lane
\* (FAST_LANE_CONCURRENCY, HEAVY_LANE_CONCURRENCY), for any files and limits.
THEOREM SlotsAlwaysConserved == Spec => []SlotsAreConserved
BY LanesInvariance, PTL DEF LanesInv

\* RpmGuard never issues more than Rpm tokens within a window, for any limit and
\* window and however many batches and event loops it serves.
THEOREM RateAlwaysBounded == Spec => []RateIsBounded
<1>1. LanesInv => RateIsBounded
    <2> SUFFICES ASSUME LanesInv PROVE RateIsBounded
        OBVIOUS
    <2>1. Len(WithinWindow(calls)) <= Len(calls) /\ WithinWindow(calls) \in Seq(Ages)
        BY WindowBegins DEF LanesInv, TypeOK, Ages
    <2>2. Len(WithinWindow(calls)) \in Nat /\ Len(calls) \in Nat
        BY <2>1 DEF LanesInv, TypeOK
    <2> QED
        BY <2>1, <2>2, LimitsArePositive DEF LanesInv, CallsAreRecent, RateIsBounded
<1> QED
    BY <1>1, LanesInvariance, PTL

\* While the process has seen one event loop only, waiting in the guard or a
\* lane never raises: every coroutine is throttled, none refused.
THEOREM FirstBatchAlwaysThrottled == Spec => []FirstBatchIsThrottled
BY LanesInvariance, PTL DEF LanesInv

-----------------------------------------------------------------------------
(***************************************************************************)
(* Proofs about ModelCalls, for any documents, threshold and retries.      *)
(*                                                                         *)
(* What a document wastes on a provider that is known to be down is what   *)
(* the call in flight when the breaker opened still sends.  The invariant  *)
(* therefore ties the count to the attempt of that call: a document that   *)
(* begins a call has found the breaker not open, and one that is in a call *)
(* has sent at most one request for each of its attempts.                  *)
(***************************************************************************)
AttemptsAreFew ==
    \A d \in Documents :
        /\ attempt[d] <= MaxRetries - 1
        /\ thread[d] = "asking" => attempt[d] = 0
        /\ thread[d] # "asking" => turn[d] <= TotalsCall

WasteIsAttempted ==
    \A d \in Documents :
        /\ breaker = "open" /\ thread[d] = "sending" => wasted[d] <= attempt[d]
        /\ breaker = "open" /\ thread[d] = "waiting" => wasted[d] <= attempt[d] + 1

CallsInv == CallsTypeOK /\ OutageIsBounded /\ AttemptsAreFew /\ WasteIsAttempted

\* The invariant holds initially.
LEMMA CallsInitEstablishes == CallsInit => CallsInv
<1> SUFFICES ASSUME CallsInit PROVE CallsInv
    OBVIOUS
<1>1. /\ breaker = "closed" /\ cooled \in BOOLEAN /\ failures = 0
      /\ turn = [d \in Documents |-> 1] /\ thread = [d \in Documents |-> "asking"]
      /\ attempt = [d \in Documents |-> 0] /\ wasted = [d \in Documents |-> 0]
    BY Zenon DEF CallsInit
<1>2. CallsTypeOK
    BY <1>1 DEF CallsTypeOK, TotalsCall
<1>3. OutageIsBounded
    BY <1>1, CallConstants DEF OutageIsBounded
<1>4. AttemptsAreFew /\ WasteIsAttempted
    BY <1>1, CallConstants DEF AttemptsAreFew, WasteIsAttempted
<1> QED
    BY <1>2, <1>3, <1>4 DEF CallsInv

\* Every step of the threads and of time preserves it.
LEMMA CallsStepPreserves == CallsInv /\ [CallsNext]_callVars => CallsInv'
<1> SUFFICES ASSUME CallsInv, [CallsNext]_callVars PROVE CallsInv'
    OBVIOUS
<1> USE CallConstants DEF CallsInv, TotalsCall
<1>1. CASE UNCHANGED callVars
    BY <1>1 DEF callVars, CallsTypeOK, OutageIsBounded, AttemptsAreFew, WasteIsAttempted
<1>2. CASE CoolDown
    BY <1>2 DEF CoolDown, CallsTypeOK, OutageIsBounded, AttemptsAreFew, WasteIsAttempted
<1>3. ASSUME NEW d \in Documents, CallStep(d) PROVE CallsInv'
    <2>1. CASE Allow(d)
        <3>1. CallsTypeOK'
            BY <2>1 DEF Allow, Allowed, CallsTypeOK, AttemptsAreFew
        <3>2. OutageIsBounded'
            BY <2>1 DEF Allow, Allowed, CallsTypeOK, OutageIsBounded, AttemptsAreFew, WasteIsAttempted
        <3>3. AttemptsAreFew'
            BY <2>1 DEF Allow, Allowed, CallsTypeOK, AttemptsAreFew
        <3>4. WasteIsAttempted'
            BY <2>1 DEF Allow, Allowed, CallsTypeOK, AttemptsAreFew, WasteIsAttempted
        <3> QED
            BY <3>1, <3>2, <3>3, <3>4
    <2>2. CASE Refuse(d)
        <3>1. CallsTypeOK'
            BY <2>2 DEF Refuse, EndCall, CallsTypeOK, AttemptsAreFew
        <3>2. OutageIsBounded'
            BY <2>2 DEF Refuse, EndCall, CallsTypeOK, OutageIsBounded, AttemptsAreFew, WasteIsAttempted
        <3>3. AttemptsAreFew'
            BY <2>2 DEF Refuse, EndCall, CallsTypeOK, AttemptsAreFew
        <3>4. WasteIsAttempted'
            BY <2>2 DEF Refuse, EndCall, CallsTypeOK, AttemptsAreFew, WasteIsAttempted
        <3> QED
            BY <3>1, <3>2, <3>3, <3>4
    <2>3. CASE Send(d)
        <3>1. CallsTypeOK'
            BY <2>3 DEF Send, CallsTypeOK, AttemptsAreFew
        <3>2. OutageIsBounded'
            BY <2>3 DEF Send, CallsTypeOK, OutageIsBounded, AttemptsAreFew, WasteIsAttempted
        <3>3. AttemptsAreFew'
            BY <2>3 DEF Send, CallsTypeOK, AttemptsAreFew
        <3>4. WasteIsAttempted'
            BY <2>3 DEF Send, CallsTypeOK, AttemptsAreFew, WasteIsAttempted
        <3> QED
            BY <3>1, <3>2, <3>3, <3>4
    <2>4. CASE Succeed(d)
        <3>1. CallsTypeOK'
            BY <2>4 DEF Succeed, EndCall, CallsTypeOK, AttemptsAreFew
        <3>2. OutageIsBounded'
            BY <2>4 DEF Succeed, EndCall, CallsTypeOK, OutageIsBounded, AttemptsAreFew, WasteIsAttempted
        <3>3. AttemptsAreFew'
            BY <2>4 DEF Succeed, EndCall, CallsTypeOK, AttemptsAreFew
        <3>4. WasteIsAttempted'
            BY <2>4 DEF Succeed, EndCall, CallsTypeOK, AttemptsAreFew, WasteIsAttempted
        <3> QED
            BY <3>1, <3>2, <3>3, <3>4
    <2>5. CASE BackOff(d)
        <3>1. CallsTypeOK'
            BY <2>5 DEF BackOff, MayRepeat, CallsTypeOK, AttemptsAreFew
        <3>2. OutageIsBounded'
            BY <2>5 DEF BackOff, MayRepeat, CallsTypeOK, OutageIsBounded, AttemptsAreFew, WasteIsAttempted
        <3>3. AttemptsAreFew'
            BY <2>5 DEF BackOff, MayRepeat, CallsTypeOK, AttemptsAreFew
        <3>4. WasteIsAttempted'
            BY <2>5 DEF BackOff, MayRepeat, CallsTypeOK, AttemptsAreFew, WasteIsAttempted
        <3> QED
            BY <3>1, <3>2, <3>3, <3>4
    <2>6. CASE Fail(d)
        <3>1. CallsTypeOK'
            <4>1. turn[d] \in 1..TotalsCall
                BY <2>6 DEF Fail, CallsTypeOK, AttemptsAreFew
            <4>2. /\ turn' \in [Documents -> 1..TotalsCall + 1]
                  /\ thread' \in [Documents -> {"asking", "sending", "waiting"}]
                  /\ attempt' \in [Documents -> Nat]
                BY <2>6, <4>1 DEF Fail, EndCall, CallsTypeOK
            <4>3. failures' \in Nat
                BY <2>6 DEF Fail, CallsTypeOK
            <4>4. \/ breaker' = "open" /\ cooled' = FALSE
                  \/ UNCHANGED <<breaker, cooled>>
                BY <2>6, Zenon DEF Fail
            <4>5. breaker' \in {"closed", "open", "half_open"} /\ cooled' \in BOOLEAN
                BY <4>4, Zenon DEF CallsTypeOK
            <4>6. wasted' \in [Documents -> Nat]
                <5>1. wasted' = wasted \/ wasted' = [e \in Documents |-> 0]
                    BY <2>6, Zenon DEF Fail
                <5> QED
                    BY <5>1 DEF CallsTypeOK
            <4> QED
                BY <4>2, <4>3, <4>5, <4>6 DEF CallsTypeOK
        <3>2. OutageIsBounded'
            BY <2>6 DEF Fail, EndCall, CallsTypeOK, OutageIsBounded, AttemptsAreFew, WasteIsAttempted
        <3>3. AttemptsAreFew'
            BY <2>6 DEF Fail, EndCall, CallsTypeOK, AttemptsAreFew
        <3>4. WasteIsAttempted'
            BY <2>6 DEF Fail, EndCall, CallsTypeOK, AttemptsAreFew, WasteIsAttempted
        <3> QED
            BY <3>1, <3>2, <3>3, <3>4
    <2>7. CASE Reject(d)
        <3>1. CallsTypeOK'
            BY <2>7 DEF Reject, EndCall, CallsTypeOK, AttemptsAreFew
        <3>2. OutageIsBounded'
            BY <2>7 DEF Reject, EndCall, CallsTypeOK, OutageIsBounded, AttemptsAreFew, WasteIsAttempted
        <3>3. AttemptsAreFew'
            BY <2>7 DEF Reject, EndCall, CallsTypeOK, AttemptsAreFew
        <3>4. WasteIsAttempted'
            BY <2>7 DEF Reject, EndCall, CallsTypeOK, AttemptsAreFew, WasteIsAttempted
        <3> QED
            BY <3>1, <3>2, <3>3, <3>4
    <2> QED
        BY <1>3, <2>1, <2>2, <2>3, <2>4, <2>5, <2>6, <2>7 DEF CallStep
<1> QED
    BY <1>1, <1>2, <1>3 DEF CallsNext

\* The invariant holds in every reachable state.
THEOREM CallsAreSound == CallsSpec => []CallsInv
BY CallsInitEstablishes, CallsStepPreserves, PTL DEF CallsSpec

\* No document sends more than the requests of one call to a provider since
\* its breaker opened, and the breaker is closed exactly while the failures
\* since the last success are below the threshold (llm_call, CircuitBreaker).
THEOREM OutageBounded == CallsSpec => []OutageIsBounded
BY CallsAreSound, PTL DEF CallsInv

-----------------------------------------------------------------------------
(***************************************************************************)
(* Proofs about Workbook, for any writers, appends and polls.              *)
(*                                                                         *)
(* A save overwrites the whole file, so that nothing is lost rests on the  *)
(* copy being current, and that rests on the lock: a writer past acquire   *)
(* is the one that created the lock file, whoever leaked one before.  A    *)
(* row is new when it is written because its writer has not yet finished   *)
(* the call it belongs to.                                                 *)
(***************************************************************************)
Rows == Writers \X (1..Calls)
Busy(w) == at[w] \in {"polling", "holding", "editing", "saving"}

HolderHasLock == \A w \in Writers : Holding(w) => lock = w

CopyIsCurrent ==
    /\ DOMAIN copy = Writers
    /\ \A w \in Writers :
          /\ at[w] = "editing" => copy[w] = file
          /\ at[w] = "saving" => copy[w] = Append(file, Row(w))

RowsAreOld ==
    /\ file \in Seq(Rows)
    /\ \A i \in DOMAIN file, w \in Writers, c \in 1..Calls :
          file[i] = <<w, c>> => c <= call[w] /\ (Busy(w) => c < call[w])
    /\ \A w \in Writers : Busy(w) => call[w] \in 1..Calls

WorkbookInv == WorkbookTypeOK /\ RowsAreKept /\ HolderHasLock /\ CopyIsCurrent /\ RowsAreOld

\* The invariant holds initially.
LEMMA WorkbookInitEstablishes == WorkbookInit => WorkbookInv
<1> SUFFICES ASSUME WorkbookInit PROVE WorkbookInv
    OBVIOUS
<1>1. /\ file = <<>> /\ intact \in BOOLEAN /\ lock = NoWriter /\ kept = {}
      /\ at = [w \in Writers |-> "idle"] /\ polls = [w \in Writers |-> 0]
      /\ call = [w \in Writers |-> 0] /\ copy = [w \in Writers |-> <<>>]
    BY Zenon DEF WorkbookInit
<1>2. WorkbookTypeOK
    BY <1>1, WorkbookConstants DEF WorkbookTypeOK
<1>3. RowsAreKept
    BY <1>1 DEF RowsAreKept
<1>4. HolderHasLock /\ CopyIsCurrent /\ RowsAreOld
    BY <1>1 DEF HolderHasLock, Holding, CopyIsCurrent, RowsAreOld, Busy
<1> QED
    BY <1>2, <1>3, <1>4 DEF WorkbookInv

\* At most one writer is past acquire.
LEMMA OneHolder ==
    ASSUME WorkbookInv, NEW v \in Writers, NEW w \in Writers, Holding(v), Holding(w)
    PROVE  v = w
BY DEF WorkbookInv, HolderHasLock

\* A step of writer w that leaves the file, the copies and kept alone, and
\* neither takes the lock from a holder nor makes w one.
LEMMA QuietPreserves ==
    ASSUME WorkbookInv, NEW w \in Writers,
           UNCHANGED <<file, intact, copy, call, kept>>,
           WorkbookTypeOK',
           \A v \in Writers : v # w => at'[v] = at[v],
           at'[w] \in {"idle", "polling", "dead"},
           at'[w] = "polling" => at[w] = "polling",
           \A v \in Writers : v # w /\ Holding(v) => lock' = v
    PROVE  WorkbookInv'
<1> USE DEF WorkbookInv
<1>1. RowsAreKept'
    BY DEF RowsAreKept
<1>2. HolderHasLock'
    BY DEF HolderHasLock, Holding
<1>3. CopyIsCurrent'
    BY DEF CopyIsCurrent, Row
<1>4. RowsAreOld'
    BY DEF RowsAreOld, Busy
<1> QED
    BY <1>1, <1>2, <1>3, <1>4

\* A call begins: its row is none of those in the file.
LEMMA BeginPreserves == ASSUME WorkbookInv, NEW w \in Writers, BeginAppend(w) PROVE WorkbookInv'
<1> USE DEF WorkbookInv, BeginAppend, Goto
<1>1. WorkbookTypeOK'
    BY WorkbookConstants DEF WorkbookTypeOK
<1>2. RowsAreKept'
    BY DEF RowsAreKept
<1>3. HolderHasLock'
    BY DEF HolderHasLock, Holding, WorkbookTypeOK
<1>4. CopyIsCurrent'
    BY DEF CopyIsCurrent, Row, WorkbookTypeOK
<1>5. RowsAreOld'
    <2>1. call[w] \in 0..Calls /\ call[w] < Calls /\ ~Busy(w)
        BY DEF WorkbookTypeOK, Busy
    <2>2. \A v \in Writers : /\ call'[v] = IF v = w THEN call[w] + 1 ELSE call[v]
                             /\ v # w => Busy(v)' = Busy(v)
        BY DEF WorkbookTypeOK, Busy
    <2> QED
        BY <2>1, <2>2, WorkbookConstants DEF RowsAreOld, WorkbookTypeOK
<1> QED
    BY <1>1, <1>2, <1>3, <1>4, <1>5

\* Within the lock: acquire, load and append.
LEMMA HeldPreserves ==
    ASSUME WorkbookInv, NEW w \in Writers, Lock(w) \/ Load(w) \/ AppendRow(w)
    PROVE  WorkbookInv'
<1> USE DEF WorkbookInv
<1>1. /\ Busy(w) /\ at'[w] \in {"holding", "editing", "saving"}
      /\ at' \in [Writers -> {"idle", "polling", "holding", "editing", "saving", "dead"}]
      /\ \A v \in Writers : v # w => at'[v] = at[v]
      /\ UNCHANGED <<file, intact, call, kept>> /\ DOMAIN copy' = Writers
    BY DEF Lock, Load, AppendRow, Goto, Busy, WorkbookTypeOK, CopyIsCurrent
<1>2. lock' \in Writers \cup {NoWriter} /\ polls' \in [Writers -> 0..PollLimit]
    BY WorkbookConstants DEF Lock, Load, AppendRow, WorkbookTypeOK
<1>3. WorkbookTypeOK' /\ RowsAreKept'
    BY <1>1, <1>2 DEF WorkbookTypeOK, RowsAreKept
<1>4. HolderHasLock'
    BY <1>1, WorkbookConstants DEF Lock, Load, AppendRow, HolderHasLock, Holding
<1>5. RowsAreOld'
    BY <1>1 DEF RowsAreOld, Busy
<1>6. ASSUME NEW v \in Writers, v # w
      PROVE  /\ at'[v] = "editing" => copy'[v] = file'
             /\ at'[v] = "saving" => copy'[v] = Append(file', Row(v)')
    <2>1. at'[v] \in {"editing", "saving"} => copy'[v] = copy[v]
        <3>1. CASE Lock(w)
            BY <3>1 DEF Lock
        <3>2. CASE Load(w) \/ AppendRow(w)
            <4>1. ~Holding(v)
                BY <1>6, <3>2, OneHolder DEF Load, AppendRow, Holding
            <4> QED
                BY <1>1, <1>6, <4>1 DEF Holding
        <3> QED
            BY <3>1, <3>2
    <2> QED
        BY <1>1, <1>6, <2>1 DEF CopyIsCurrent, Row
<1>7. /\ at'[w] = "editing" => copy'[w] = file'
      /\ at'[w] = "saving" => copy'[w] = Append(file', Row(w)')
    <2>1. CASE Lock(w)
        BY <2>1 DEF Lock, Goto, WorkbookTypeOK
    <2>2. CASE Load(w)
        BY <2>2 DEF Load, Goto, WorkbookTypeOK, CopyIsCurrent
    <2>3. CASE AppendRow(w)
        BY <2>3 DEF AppendRow, Goto, WorkbookTypeOK, CopyIsCurrent, Row
    <2> QED
        BY <2>1, <2>2, <2>3
<1> QED
    BY <1>1, <1>3, <1>4, <1>5, <1>6, <1>7 DEF CopyIsCurrent

\* The file after a save that went well: the rows before it and a new one.
LEMMA SavedFile ==
    ASSUME WorkbookInv, NEW w \in Writers, at[w] = "saving"
    PROVE  LET saved == Append(file, Row(w)) IN
           /\ saved \in Seq(Rows) /\ Row(w) = <<w, call[w]>> /\ call[w] \in 1..Calls
           /\ DOMAIN saved = 1..Len(file) + 1 /\ Len(file) \in Nat
           /\ \A i \in DOMAIN file : i \in DOMAIN saved /\ saved[i] = file[i]
           /\ saved[Len(file) + 1] = Row(w)
           /\ \A i \in 1..Len(file) : saved[i] = file[i] /\ saved[i] # Row(w)
<1>1. file \in Seq(Rows) /\ call[w] \in 1..Calls /\ Row(w) = <<w, call[w]>> /\ Row(w) \in Rows
    BY DEF WorkbookInv, RowsAreOld, Busy, Row, Rows
<1>2. \A i \in 1..Len(file) : file[i] # Row(w)
    BY <1>1 DEF WorkbookInv, RowsAreOld, Busy
<1> HIDE DEF Row, Rows
<1> QED
    BY <1>1, <1>2

\* A save: nobody else is past acquire, so no other copy is outdated by it.
LEMMA SavePreserves ==
    ASSUME WorkbookInv, NEW w \in Writers, Save(w) PROVE WorkbookInv'
<1> DEFINE saved == Append(file, Row(w))
<1>1. /\ at[w] = "saving" /\ lock' = NoWriter /\ at' = [at EXCEPT ![w] = "idle"]
      /\ copy' = [copy EXCEPT ![w] = <<>>] /\ UNCHANGED <<polls, call>>
    BY DEF Save, Goto
<1>2. copy[w] = saved
    BY <1>1 DEF WorkbookInv, CopyIsCurrent
<1>3. \A v \in Writers : ~Holding(v)'
    <2> SUFFICES ASSUME NEW v \in Writers, Holding(v)' PROVE FALSE
        OBVIOUS
    <2>1. v # w /\ Holding(v) /\ Holding(w)
        BY <1>1 DEF Holding, WorkbookInv, WorkbookTypeOK
    <2> QED
        BY <2>1, OneHolder
<1>4. HolderHasLock' /\ CopyIsCurrent'
    BY <1>1, <1>3 DEF WorkbookInv, HolderHasLock, CopyIsCurrent, Holding
<1>5. \A v \in Writers : Busy(v)' => v # w /\ Busy(v)
    BY <1>1 DEF Busy, WorkbookInv, WorkbookTypeOK
<1>6. CASE file' = saved /\ kept' = kept \cup {Row(w)} /\ UNCHANGED intact
    <2>1. /\ saved \in Seq(Rows) /\ Row(w) = <<w, call[w]>> /\ call[w] \in 1..Calls
          /\ DOMAIN saved = 1..Len(file) + 1 /\ Len(file) \in Nat
          /\ \A i \in DOMAIN file : i \in DOMAIN saved /\ saved[i] = file[i]
          /\ saved[Len(file) + 1] = Row(w)
          /\ \A i \in 1..Len(file) : saved[i] = file[i] /\ saved[i] # Row(w)
        BY <1>1, SavedFile
    <2> HIDE DEF saved
    <2>2. WorkbookTypeOK'
        BY <1>1, <1>6, <2>1 DEF WorkbookInv, WorkbookTypeOK
    <2>3. RowsAreKept'
        <3>1. ASSUME NEW row \in kept', intact' PROVE \E i \in DOMAIN file' : file'[i] = row
            <4>1. CASE row \in kept
                BY <1>6, <2>1, <3>1, <4>1 DEF WorkbookInv, RowsAreKept
            <4>2. CASE row = Row(w)
                BY <1>6, <2>1, <4>2
            <4> QED
                BY <1>6, <3>1, <4>1, <4>2
        <3>2. ASSUME NEW i \in DOMAIN file', NEW j \in DOMAIN file', file'[i] = file'[j]
              PROVE  i = j
            <4>1. file \in Seq(Rows) /\ DOMAIN file = 1..Len(file)
                BY DEF WorkbookInv, RowsAreOld
            <4>2. \A k \in DOMAIN file' : k \in DOMAIN file \/ k = Len(file) + 1
                BY <1>6, <2>1, <4>1
            <4> QED
                BY <1>6, <2>1, <3>2, <4>1, <4>2 DEF WorkbookInv, RowsAreKept
        <3> QED
            BY <3>1, <3>2 DEF RowsAreKept
    <2>4. RowsAreOld'
        <3>1. ASSUME NEW i \in DOMAIN file', NEW v \in Writers, NEW c \in 1..Calls,
                     file'[i] = <<v, c>>
              PROVE  c <= call'[v] /\ (Busy(v)' => c < call'[v])
            <4>1. CASE i \in 1..Len(file)
                <5>1. i \in DOMAIN file /\ file[i] = <<v, c>>
                    BY <1>6, <2>1, <3>1, <4>1 DEF WorkbookInv, RowsAreOld
                <5> QED
                    BY <1>1, <1>5, <5>1 DEF WorkbookInv, RowsAreOld
            <4>2. CASE i = Len(file) + 1
                <5>1. v = w /\ c = call[w]
                    BY <1>6, <2>1, <3>1, <4>2
                <5> QED
                    BY <1>1, <1>5, <5>1
            <4> QED
                BY <1>6, <2>1, <4>1, <4>2
        <3>2. \A v \in Writers : Busy(v)' => call'[v] \in 1..Calls
            BY <1>1, <1>5 DEF WorkbookInv, RowsAreOld
        <3> QED
            BY <1>6, <2>1, <3>1, <3>2 DEF RowsAreOld
    <2> QED
        BY <1>4, <2>2, <2>3, <2>4 DEF WorkbookInv
<1>7. CASE CutOff /\ UNCHANGED kept
    <2>1. file' = <<>> /\ intact' \in BOOLEAN /\ ~intact'
        BY <1>7, Zenon DEF CutOff
    <2>2. WorkbookTypeOK' /\ RowsAreKept'
        BY <1>1, <1>7, <2>1 DEF WorkbookInv, WorkbookTypeOK, RowsAreKept
    <2>3. RowsAreOld'
        BY <1>1, <1>5, <2>1 DEF WorkbookInv, RowsAreOld
    <2> QED
        BY <1>4, <2>2, <2>3 DEF WorkbookInv
<1>8. CASE UNCHANGED <<file, intact, kept>>
    <2>1. WorkbookTypeOK' /\ RowsAreKept'
        BY <1>1, <1>8 DEF WorkbookInv, WorkbookTypeOK, RowsAreKept
    <2>2. RowsAreOld'
        BY <1>1, <1>5, <1>8 DEF WorkbookInv, RowsAreOld
    <2> QED
        BY <1>4, <2>1, <2>2 DEF WorkbookInv
<1> QED
    BY <1>2, <1>6, <1>7, <1>8 DEF Save

\* A process dies, at worst in the middle of a save.
LEMMA DiePreserves == ASSUME WorkbookInv, NEW w \in Writers, Die(w) PROVE WorkbookInv'
<1>1. /\ at' = [at EXCEPT ![w] = "dead"] /\ copy' = [copy EXCEPT ![w] = <<>>]
      /\ polls' = [polls EXCEPT ![w] = 0] /\ UNCHANGED <<lock, call, kept>>
    BY DEF Die, Goto
<1>2. \A v \in Writers : /\ Busy(v)' => v # w /\ Busy(v)
                         /\ Holding(v)' => v # w /\ Holding(v)
    BY <1>1 DEF Busy, Holding, WorkbookInv, WorkbookTypeOK
<1>3. HolderHasLock'
    BY <1>1, <1>2 DEF WorkbookInv, HolderHasLock
<1>4. CASE at[w] = "saving" /\ CutOff
    <2>1. file' = <<>> /\ intact' \in BOOLEAN /\ ~intact'
        BY <1>4, Zenon DEF CutOff
    <2>2. WorkbookTypeOK' /\ RowsAreKept'
        BY <1>1, <2>1, WorkbookConstants DEF WorkbookInv, WorkbookTypeOK, RowsAreKept
    <2>3. RowsAreOld'
        BY <1>1, <1>2, <2>1 DEF WorkbookInv, RowsAreOld
    <2>4. \A v \in Writers : ~Holding(v)'
        BY <1>2, <1>4, OneHolder DEF Holding
    <2>5. CopyIsCurrent'
        BY <1>1, <2>4 DEF WorkbookInv, CopyIsCurrent, Holding
    <2> QED
        BY <1>3, <2>2, <2>3, <2>5 DEF WorkbookInv
<1>5. CASE UNCHANGED <<file, intact>>
    <2>1. WorkbookTypeOK' /\ RowsAreKept'
        BY <1>1, <1>5, WorkbookConstants DEF WorkbookInv, WorkbookTypeOK, RowsAreKept
    <2>2. RowsAreOld'
        BY <1>1, <1>2, <1>5 DEF WorkbookInv, RowsAreOld
    <2>3. CopyIsCurrent'
        BY <1>1, <1>5 DEF WorkbookInv, WorkbookTypeOK, CopyIsCurrent, Row
    <2> QED
        BY <1>3, <2>1, <2>2, <2>3 DEF WorkbookInv
<1> QED
    BY <1>4, <1>5 DEF Die

\* Every step preserves the invariant.
LEMMA WorkbookStepPreserves == WorkbookInv /\ [WorkbookNext]_workbookVars => WorkbookInv'
<1> SUFFICES ASSUME WorkbookInv, [WorkbookNext]_workbookVars PROVE WorkbookInv'
    OBVIOUS
<1>1. CASE UNCHANGED workbookVars
    BY <1>1 DEF workbookVars, WorkbookInv, WorkbookTypeOK, RowsAreKept, HolderHasLock, Holding,
                CopyIsCurrent, Row, RowsAreOld, Busy
<1>2. ASSUME NEW w \in Writers, Poll(w) \/ TimeOut(w) \/ Restart(w) PROVE WorkbookInv'
    <2>1. WorkbookTypeOK'
        BY <1>2, WorkbookConstants DEF Poll, TimeOut, Restart, Goto, WorkbookInv, WorkbookTypeOK
    <2> QED
        BY <1>2, <2>1, QuietPreserves
        DEF Poll, TimeOut, Restart, Goto, WorkbookInv, WorkbookTypeOK, HolderHasLock
<1>3. ASSUME NEW w \in Writers, Leak(w) PROVE WorkbookInv'
    <2> USE <1>3 DEF Leak, Goto, WorkbookInv, WorkbookTypeOK
    <2>1. WorkbookTypeOK' /\ RowsAreKept'
        BY DEF RowsAreKept
    <2>2. HolderHasLock' /\ CopyIsCurrent'
        BY DEF HolderHasLock, Holding, CopyIsCurrent, Row
    <2>3. RowsAreOld'
        BY DEF RowsAreOld, Busy
    <2> QED
        BY <2>1, <2>2, <2>3
<1>4. CASE CleanUp
    <2> USE <1>4 DEF CleanUp, LeakedLock, WorkbookInv
    <2>1. WorkbookTypeOK' /\ RowsAreKept'
        BY DEF WorkbookTypeOK, RowsAreKept
    <2>2. HolderHasLock'
        BY DEF HolderHasLock, Holding
    <2>3. CopyIsCurrent' /\ RowsAreOld'
        BY DEF CopyIsCurrent, Row, RowsAreOld, Busy
    <2> QED
        BY <2>1, <2>2, <2>3
<1> QED
    BY <1>1, <1>2, <1>3, <1>4, BeginPreserves, HeldPreserves, SavePreserves, DiePreserves
    DEF WorkbookNext, WriterStep

\* The invariant holds in every reachable state.
THEOREM WorkbookIsSound == WorkbookSpec => []WorkbookInv
BY WorkbookInitEstablishes, WorkbookStepPreserves, PTL DEF WorkbookSpec

\* Two writers are never past acquire together (ExcelFileLock).
THEOREM MutualExclusion ==
    WorkbookSpec => [](\A v, w \in Writers : Holding(v) /\ Holding(w) => v = w)
<1>1. WorkbookInv => \A v, w \in Writers : Holding(v) /\ Holding(w) => v = w
    BY OneHolder
<1> QED
    BY <1>1, WorkbookIsSound, PTL

\* Rows whose append returned stay in the file, once each, until a save is
\* cut off (ExcelSyncService.append_batch, _safe_save).
THEOREM RowsKept == WorkbookSpec => []RowsAreKept
BY WorkbookIsSound, PTL DEF WorkbookInv
=============================================================================
