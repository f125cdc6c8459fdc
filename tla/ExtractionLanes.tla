-------------------------- MODULE ExtractionLanes --------------------------
(***************************************************************************)
(* What throttles the extractions inside one worker process:               *)
(* extract_invoice_async takes a token of the RpmGuard, then a slot of the *)
(* fast or the heavy lane, and runs process_pdf in a thread.  Guard and    *)
(* lanes are module globals; every batch the process takes runs in an      *)
(* event loop of its own (asyncio.run), and an asyncio primitive binds     *)
(* itself to a loop the first time a coroutine has to wait for it.         *)
(*                                                                         *)
(* Time is in ticks; a token is known by its age, which stops at Window.   *)
(***************************************************************************)
EXTENDS Naturals, FiniteSets, Sequences

CONSTANTS
    File,       \* the files that batches are made of
    Heavy,      \* those that need heavy OCR
    FastSlots,  \* FAST_LANE_CONCURRENCY
    HeavySlots, \* HEAVY_LANE_CONCURRENCY
    Rpm,        \* calls the guard admits per window
    Window,     \* the guard's window, 60 s
    MaxLoops    \* bound of the model: batches the process takes

ASSUME HeavyIsFile == Heavy \subseteq File
ASSUME BatchesAreFinite == IsFiniteSet(File)
ASSUME LimitsArePositive ==
    /\ FastSlots \in Nat \ {0} /\ HeavySlots \in Nat \ {0}
    /\ Rpm \in Nat \ {0} /\ Window \in Nat \ {0} /\ MaxLoops \in Nat \ {0}

VARIABLES
    loop,        \* batches begun so far: the event loop that runs or ran last
    pc,          \* where the coroutine of each file stands
    guardQueue,  \* coroutines waiting for the guard's lock, in order
    sleeper,     \* the coroutine that sleeps holding the lock, if any
    sleepLeft,   \* ticks until it wakes
    calls,       \* RpmGuard._calls: ages of the tokens it remembers, oldest first
    free,        \* free slots per lane
    laneQueue,   \* coroutines waiting for a slot per lane, in order
    bound,       \* the loop each primitive is bound to, 0 while it is not
    recent       \* history: ages of all tokens issued within the window

guardVars == <<guardQueue, sleeper, sleepLeft, calls, recent>>
laneVars  == <<free, laneQueue>>
vars      == <<loop, pc, guardVars, laneVars, bound>>

Lane      == {"fast", "heavy"}
LaneOf(f) == IF f \in Heavy THEN "heavy" ELSE "fast"
Slots     == [lane \in Lane |-> IF lane = "fast" THEN FastSlots ELSE HeavySlots]
Primitive == Lane \cup {"guard"}

Returned == {"done", "failed", "refused"}

TypeOK ==
    /\ loop \in 0..MaxLoops
    /\ pc \in [File -> {"idle", "begin", "locked_out", "sleep", "token", "waiting",
                        "extract"} \cup Returned]
    /\ guardQueue \in Seq(File)
    /\ sleeper \in SUBSET File
    /\ sleepLeft \in 0..Window
    /\ calls \in Seq(0..Window)
    /\ free \in [Lane -> Nat]
    /\ laneQueue \in [Lane -> Seq(File)]
    /\ bound \in [Primitive -> 0..MaxLoops]
    /\ recent \in Seq(0..Window)

Init ==
    /\ loop = 0
    /\ pc = [f \in File |-> "idle"]
    /\ guardQueue = <<>>
    /\ sleeper = {}
    /\ sleepLeft = 0
    /\ calls = <<>>
    /\ free = Slots
    /\ laneQueue = [lane \in Lane |-> <<>>]
    /\ bound = [p \in Primitive |-> 0]
    /\ recent = <<>>

\* Mutant: the primitives bind themselves where they are created, at import.
BoundAtImport(p) == bound[p] = loop

\* Having to wait binds a primitive to the running loop; when it is bound to
\* an earlier loop the coroutine gets a RuntimeError instead.
MayWait(p) == bound[p] \in {0, loop}

Active == \E f \in File : pc[f] # "idle"

-----------------------------------------------------------------------------
(***************************************************************************)
(* Batches: asyncio.run(process_batch(...)).                               *)
(***************************************************************************)

StartBatch(files) ==
    /\ ~Active
    /\ loop < MaxLoops
    /\ files # {}
    /\ loop' = loop + 1
    /\ pc' = [f \in File |-> IF f \in files THEN "begin" ELSE "idle"]
    /\ UNCHANGED <<guardVars, laneVars, bound>>

\* gather returns when every coroutine has returned.
EndBatch ==
    /\ Active
    /\ \A f \in File : pc[f] \in {"idle"} \cup Returned
    /\ pc' = [f \in File |-> "idle"]
    /\ UNCHANGED <<loop, guardVars, laneVars, bound>>

\* An exception outside the handlers: asyncio.run cancels the coroutines, which
\* leave their queues and release what they hold, and joins the threads.
AbortBatch ==
    /\ Active
    /\ pc' = [f \in File |-> "idle"]
    /\ guardQueue' = <<>>
    /\ sleeper' = {}
    /\ sleepLeft' = 0
    /\ laneQueue' = [lane \in Lane |-> <<>>]
    /\ free' = Slots
    /\ UNCHANGED <<loop, calls, recent, bound>>

-----------------------------------------------------------------------------
(***************************************************************************)
(* The guard.                                                              *)
(***************************************************************************)

\* A cached result returns before the guard.
CacheHit(f) ==
    /\ pc[f] = "begin"
    /\ pc' = [pc EXCEPT ![f] = "done"]
    /\ UNCHANGED <<loop, guardVars, laneVars, bound>>

\* The calls are popped from the left while the first is a window old: what is
\* left begins with the first younger one.
WithinWindow(ages) ==
    LET young == {i \in DOMAIN ages : ages[i] < Window}
    IN  IF young = {} THEN <<>>
        ELSE SubSeq(ages, CHOOSE i \in young : \A j \in young : i <= j, Len(ages))

IssueToken(f) ==
    /\ calls' = Append(WithinWindow(calls), 0)
    /\ recent' = Append(WithinWindow(recent), 0)
    /\ pc' = [pc EXCEPT ![f] = "token"]

\* The critical section up to its sleep: with a full window the coroutine
\* sleeps, holding the lock, until the oldest call leaves it.
EnterGuard(f) ==
    IF Len(WithinWindow(calls)) < Rpm
    THEN /\ IssueToken(f)
         /\ UNCHANGED <<sleeper, sleepLeft>>
    ELSE /\ calls' = WithinWindow(calls)
         /\ sleeper' = {f}
         /\ sleepLeft' = Window - Head(WithinWindow(calls))
         /\ pc' = [pc EXCEPT ![f] = "sleep"]
         /\ UNCHANGED recent

\* Mutant: the guard checks and sleeps without its lock.
AcquireWithoutLock(f) ==
    /\ pc[f] = "begin"
    /\ EnterGuard(f)
    /\ UNCHANGED <<guardQueue, bound, loop, laneVars>>

\* The lock is free and nobody is ahead: go in.  Otherwise wait in line, or
\* fail when the lock belongs to an earlier batch's loop.
AcquireGuard(f) ==
    /\ pc[f] = "begin"
    /\ \/ /\ sleeper = {} /\ guardQueue = <<>>
          /\ EnterGuard(f)
          /\ UNCHANGED <<guardQueue, bound>>
       \/ /\ sleeper # {} \/ guardQueue # <<>>
          /\ IF MayWait("guard")
             THEN /\ guardQueue' = Append(guardQueue, f)
                  /\ bound' = [bound EXCEPT !["guard"] = loop]
                  /\ pc' = [pc EXCEPT ![f] = "locked_out"]
             ELSE /\ pc' = [pc EXCEPT ![f] = "refused"]
                  /\ UNCHANGED <<guardQueue, bound>>
          /\ UNCHANGED <<sleeper, sleepLeft, calls, recent>>
    /\ UNCHANGED <<loop, laneVars>>

\* The lock was released: the first in line goes in.
ResumeGuard(f) ==
    /\ pc[f] = "locked_out"
    /\ sleeper = {}
    /\ f = Head(guardQueue)
    /\ guardQueue' = Tail(guardQueue)
    /\ EnterGuard(f)
    /\ UNCHANGED <<loop, laneVars, bound>>

\* The sleep is over: drop what left the window, take the token, unlock.
WakeUp(f) ==
    /\ pc[f] = "sleep"
    /\ sleepLeft = 0
    /\ IssueToken(f)
    /\ sleeper' = {}
    /\ UNCHANGED <<loop, guardQueue, sleepLeft, laneVars, bound>>

-----------------------------------------------------------------------------
(***************************************************************************)
(* The lanes.                                                              *)
(***************************************************************************)

\* Mutant: a slot is taken without looking at how many are left.
TakeSlot(f) ==
    /\ pc[f] = "token"
    /\ free' = [free EXCEPT ![LaneOf(f)] = @ - 1]
    /\ pc' = [pc EXCEPT ![f] = "extract"]
    /\ UNCHANGED <<laneQueue, bound, loop, guardVars>>

AcquireLane(f) ==
    LET lane == LaneOf(f) IN
    /\ pc[f] = "token"
    /\ \/ /\ free[lane] > 0 /\ laneQueue[lane] = <<>>
          /\ free' = [free EXCEPT ![lane] = @ - 1]
          /\ pc' = [pc EXCEPT ![f] = "extract"]
          /\ UNCHANGED <<laneQueue, bound>>
       \/ /\ free[lane] = 0 \/ laneQueue[lane] # <<>>
          /\ IF MayWait(lane)
             THEN /\ laneQueue' = [laneQueue EXCEPT ![lane] = Append(@, f)]
                  /\ bound' = [bound EXCEPT ![lane] = loop]
                  /\ pc' = [pc EXCEPT ![f] = "waiting"]
             ELSE /\ pc' = [pc EXCEPT ![f] = "refused"]
                  /\ UNCHANGED <<laneQueue, bound>>
          /\ UNCHANGED free
    /\ UNCHANGED <<loop, guardVars>>

ResumeLane(f) ==
    LET lane == LaneOf(f) IN
    /\ pc[f] = "waiting"
    /\ free[lane] > 0
    /\ f = Head(laneQueue[lane])
    /\ laneQueue' = [laneQueue EXCEPT ![lane] = Tail(@)]
    /\ free' = [free EXCEPT ![lane] = @ - 1]
    /\ pc' = [pc EXCEPT ![f] = "extract"]
    /\ UNCHANGED <<loop, guardVars, bound>>

\* Mutant: only a successful extraction releases its slot.
ReleaseOnSuccess(f, ok) ==
    /\ pc[f] = "extract"
    /\ free' = [free EXCEPT ![LaneOf(f)] = IF ok THEN @ + 1 ELSE @]
    /\ pc' = [pc EXCEPT ![f] = IF ok THEN "done" ELSE "failed"]
    /\ UNCHANGED <<loop, guardVars, laneQueue, bound>>

\* process_pdf returns or raises; the slot is released either way.
Extracted(f, ok) ==
    /\ pc[f] = "extract"
    /\ free' = [free EXCEPT ![LaneOf(f)] = @ + 1]
    /\ pc' = [pc EXCEPT ![f] = IF ok THEN "done" ELSE "failed"]
    /\ UNCHANGED <<loop, guardVars, laneQueue, bound>>

-----------------------------------------------------------------------------
Older(ages) == [i \in 1..Len(ages) |-> IF ages[i] < Window THEN ages[i] + 1 ELSE Window]

Tick ==
    /\ calls' = Older(calls)
    /\ recent' = WithinWindow(Older(recent))
    /\ sleepLeft' = IF sleepLeft > 0 THEN sleepLeft - 1 ELSE 0
    /\ UNCHANGED <<loop, pc, guardQueue, sleeper, laneVars, bound>>

Coroutine(f) ==
    \/ CacheHit(f)
    \/ AcquireGuard(f)
    \/ ResumeGuard(f)
    \/ WakeUp(f)
    \/ AcquireLane(f)
    \/ ResumeLane(f)
    \/ \E ok \in BOOLEAN : Extracted(f, ok)

Next ==
    \/ \E files \in SUBSET File : StartBatch(files)
    \/ EndBatch
    \/ AbortBatch
    \/ \E f \in File : Coroutine(f)
    \/ Tick

\* The event loop runs what is ready, time passes, and an extraction returns
\* (its model calls have timeouts).
Spec == Init /\ [][Next]_vars /\ WF_vars(Tick) /\ \A f \in File : WF_vars(Coroutine(f))

-----------------------------------------------------------------------------
(***************************************************************************)
(* Properties.                                                             *)
(***************************************************************************)

\* No slot leaks and no lane is oversubscribed, whatever failed, was refused or
\* was cancelled in this batch or an earlier one: the extractions that run in a
\* lane and its free slots make up its capacity.  One heavy conversion at a
\* time is what keeps the worker within its memory.
SlotsAreConserved ==
    \A lane \in Lane :
        free[lane] + Cardinality({f \in File : pc[f] = "extract" /\ LaneOf(f) = lane})
            = Slots[lane]

\* The guard issues at most Rpm tokens within any window, across the sleeps of
\* its holders, aborted batches and the change from one event loop to the next.
RateIsBounded == Len(recent) <= Rpm

\* Every coroutine of a batch returns: no slot, token or wake-up is lost.
EveryFileReturns ==
    \A f \in File : pc[f] # "idle" ~> pc[f] \in Returned \cup {"idle"}

\* The first batch of a process is throttled, never refused: waiting works as
\* long as the primitives have only seen one event loop.
FirstBatchIsThrottled == loop = 1 => \A f \in File : pc[f] # "refused"

\* The lanes throttle the coroutines of a batch: they wait, they do not fail.
LanesThrottle == \A f \in File : pc[f] # "refused"
=============================================================================
