-------------------------- MODULE DriveSyncProofs --------------------------
(***************************************************************************)
(* Proofs about DriveSync, for any folder, duplicate keys, budget, number  *)
(* of retries and bounds: its safety properties, by one inductive          *)
(* invariant made of the named parts below.                                *)
(***************************************************************************)
EXTENDS DriveSync, FiniteSetTheorems, FunctionTheorems, TLAPS

-----------------------------------------------------------------------------
\* A run is at some stage exactly while its call is executed; only the three
\* loops have files, and work on the first of them; a queued call has a delivery left.
RunsHaveCalls ==
    /\ stage # "none" <=> call = "running"
    /\ todo # {} => stage \in {"credit", "archive", "invoice"}
    /\ at # "none" => \E f \in todo : Turn(f)
    /\ call = "running" => attempt > 0
    /\ call = "queued" => attempt <= MaxRetries

\* The listing is never ahead of the folder.
ListingIsOld == \A f \in File : listed[f] <= drive[f]

\* The file in hand is marked with the checksum of the listing.
CurrentIsMarked ==
    at # "none" => \A f \in File : Turn(f) =>
        tracker[f].status = "processing" /\ tracker[f].md5 = listed[f]

\* What it was downloaded as is no older, and what was extracted of it has a
\* task, or the pending one: an archive goes on after a verdict that failed.
FetchedIsRead ==
    at \in {"fetched", "stored"} => \A f \in File : Turn(f) =>
        /\ got >= tracker[f].md5
        /\ \A d \in Inside[f] \ left :
              WasRead(f, d) \/ \E t \in task : t.doc = d /\ t.version >= tracker[f].md5

\* The loop over the invoices holds none that is processed.
SelectedIsFresh ==
    stage = "invoice" => \A f \in todo : ~Processed(f)

\* One task at a time waits for its verdict.
TaskIsPending ==
    /\ at # "stored" => task = {}
    /\ \A t \in task : t.state = "COMPLETED"
    /\ \A t, u \in task : t = u

\* What the run has touched, and what it will, is paid for.
Claimed == touched \cup (IF stage = "invoice" THEN todo ELSE {})

BudgetCovers == Cardinality(Claimed) + budget <= MaxFiles

SyncInv ==
    /\ TypeOK
    /\ RunsHaveCalls
    /\ ListingIsOld
    /\ CurrentIsMarked
    /\ FetchedIsRead
    /\ SelectedIsFresh
    /\ TaskIsPending
    /\ BudgetCovers
    /\ CompletedFileWasRead
    /\ OriginalIsKept
    /\ OneVerdictPerKey
    /\ JobRowsAreSettled

-----------------------------------------------------------------------------
\* The listing has one first file.
LEMMA TurnIsUnique ==
    ASSUME NEW f \in File, NEW g \in File, Turn(f), Turn(g)
    PROVE  f = g
<1>1. Rank[f] <= Rank[g] /\ Rank[g] <= Rank[f]
    BY DEF Turn
<1>2. Rank[f] \in Nat /\ Rank[g] \in Nat
    BY FilesAreClassified
<1>3. Rank[f] = Rank[g]
    BY <1>1, <1>2
<1> QED
    BY <1>3, FilesAreClassified

Earlier(S, f) == {g \in S : Rank[g] < Rank[f]}

FirstOf(S, n) == {f \in S : Cardinality(Earlier(S, f)) < n}

\* Of any files, at most n have fewer than n of them before them: the number of
\* files before it is a different one below n for each.
LEMMA FirstAreFew ==
    ASSUME NEW S \in SUBSET File, NEW n \in Nat
    PROVE  Cardinality(FirstOf(S, n)) <= n
<1> DEFINE Place == [f \in FirstOf(S, n) |-> Cardinality(Earlier(S, f))]
<1>1. ASSUME NEW f \in S
      PROVE  IsFiniteSet(Earlier(S, f)) /\ Cardinality(Earlier(S, f)) \in Nat
    <2>1. Earlier(S, f) \in SUBSET File
        BY DEF Earlier
    <2> QED
        BY <2>1, FilesAreClassified, FS_Subset, FS_CardinalityType
<1>2. Place \in [FirstOf(S, n) -> 0..(n - 1)]
    BY <1>1 DEF FirstOf
<1>3. ASSUME NEW f \in S, NEW g \in S, Rank[f] < Rank[g]
      PROVE  Cardinality(Earlier(S, f)) # Cardinality(Earlier(S, g))
    <2>1. Earlier(S, f) \in SUBSET Earlier(S, g)
        BY <1>3, FilesAreClassified DEF Earlier
    <2>2. f \in Earlier(S, g) /\ f \notin Earlier(S, f)
        BY <1>3, FilesAreClassified DEF Earlier
    <2> QED
        BY <1>1, <2>1, <2>2, FS_Subset
<1>4. \A f, g \in FirstOf(S, n) : Place[f] = Place[g] => f = g
    <2> SUFFICES ASSUME NEW f \in FirstOf(S, n), NEW g \in FirstOf(S, n), f # g
                 PROVE  Place[f] # Place[g]
        OBVIOUS
    <2>1. f \in S /\ g \in S
        BY DEF FirstOf
    <2>2. Rank[f] < Rank[g] \/ Rank[g] < Rank[f]
        BY <2>1, FilesAreClassified
    <2> QED
        BY <1>3, <2>1, <2>2
<1>5. Place \in Injection(FirstOf(S, n), 0..(n - 1))
    BY <1>2, <1>4 DEF Injection, IsInjective
<1>6. IsFiniteSet(0..(n - 1)) /\ Cardinality(0..(n - 1)) = n
    BY FS_Interval
<1> QED
    BY <1>5, <1>6, FS_Injection

\* The selection leaves a budget that is not negative.
LEMMA SelectionIsPaid ==
    ASSUME TypeOK, SelectInvoices
    PROVE  /\ todo' = FirstOf(Fresh, budget)
           /\ Cardinality(todo') \in Nat
           /\ Cardinality(todo') <= budget
<1>1. Fresh \in SUBSET File
    BY DEF Fresh
<1>2. todo' = FirstOf(Fresh, budget)
    BY DEF SelectInvoices, FirstOf, Earlier
<1>3. todo' \in SUBSET File
    BY <1>1, <1>2 DEF FirstOf
<1>4. Cardinality(todo') \in Nat
    BY <1>3, FilesAreClassified, FS_Subset, FS_CardinalityType
<1> QED
    BY <1>1, <1>2, <1>4, FirstAreFew DEF TypeOK

\* The invariant holds initially.
LEMMA InitEstablishes == Init => SyncInv
<1> SUFFICES ASSUME Init PROVE SyncInv
    OBVIOUS
<1> USE BoundsAreNatural DEF Init
<1>1. TypeOK
    <2>1. drive \in [File -> Version]
        BY DEF Version
    <2>2. tracker \in [File -> [status : {"none", "processing", "completed", "failed"},
                                md5 : Version]]
        BY DEF Version
    <2>3. job \in [Attempt -> {"none", "in_progress", "completed", "failed", "cancelled"}]
        OBVIOUS
    <2>4. listed \in [File -> Version] /\ got \in Version
        BY DEF Version
    <2>5. attempt \in 0..(MaxRetries + 1) /\ events \in 0..MaxEvents /\ budget \in Nat
        OBVIOUS
    <2> QED
        BY <2>1, <2>2, <2>3, <2>4, <2>5 DEF TypeOK
<1>2. RunsHaveCalls /\ ListingIsOld /\ CurrentIsMarked /\ FetchedIsRead /\ SelectedIsFresh
    BY DEF RunsHaveCalls, ListingIsOld, CurrentIsMarked, FetchedIsRead, SelectedIsFresh
<1>3. TaskIsPending /\ CompletedFileWasRead /\ OriginalIsKept /\ OneVerdictPerKey /\ JobRowsAreSettled
    BY DEF TaskIsPending, CompletedFileWasRead, OriginalIsKept, OneVerdictPerKey, JobRowsAreSettled
<1>4. BudgetCovers
    BY FS_EmptySet DEF BudgetCovers, Claimed
<1> QED
    BY <1>1, <1>2, <1>3, <1>4 DEF SyncInv

\* Every step keeps the types; SelectionIsPaid is why the budget stays a number.
LEMMA TypeStep == ASSUME SyncInv, Next PROVE TypeOK'
<1> USE FilesAreClassified, KeysAreKeys, BoundsAreNatural DEF SyncInv,
           runVars, jobVars, TypeOK, Version, Attempt, TaskRow, Event
<1>1. ASSUME NEW f \in File, EditFile(f) PROVE TypeOK'
    BY <1>1 DEF EditFile
<1>2. ASSUME Trigger PROVE TypeOK'
    <2>1. job' \in [Attempt -> {"none", "in_progress", "completed", "failed", "cancelled"}]
        BY <1>2 DEF Trigger
    <2>2. attempt' \in 0..(MaxRetries + 1)
        BY <1>2 DEF Trigger
    <2> QED
        BY <1>2, <2>1, <2>2 DEF Trigger
<1>3. ASSUME Cancel PROVE TypeOK'
    BY <1>3 DEF Cancel
<1>4. ASSUME DiscardRevoked PROVE TypeOK'
    BY <1>4 DEF DiscardRevoked
<1>5. ASSUME StartRun PROVE TypeOK'
    BY <1>5 DEF StartRun, RunsHaveCalls
<1>6. ASSUME ListFolder PROVE TypeOK'
    BY <1>6 DEF ListFolder
<1>7. ASSUME EndStage PROVE TypeOK'
    BY <1>7 DEF EndStage
<1>8. ASSUME SelectInvoices PROVE TypeOK'
    BY <1>8, SelectionIsPaid DEF SelectInvoices, Fresh
<1>9. ASSUME NEW f \in File, PassOver(f) PROVE TypeOK'
    BY <1>9 DEF PassOver
<1>10. ASSUME NEW f \in File, Mark(f) PROVE TypeOK'
    BY <1>10 DEF Mark, Recorded
<1>11. ASSUME NEW f \in File, Fetch(f) PROVE TypeOK'
    BY <1>11 DEF Fetch
<1>12. ASSUME NEW f \in File, RaiseForFile(f) PROVE TypeOK'
    BY <1>12 DEF RaiseForFile, Raise
<1>13. ASSUME NEW f \in File, FailFile(f) PROVE TypeOK'
    BY <1>13 DEF FailFile, Recorded
<1>14. ASSUME NEW f \in File, Judge(f) PROVE TypeOK'
    <2>1. ASSUME NEW t \in task PROVE Judged(t) \in TaskRow
        BY DEF Judged, With
    <2>2. tasks' \in SUBSET TaskRow
        BY <1>14, <2>1 DEF Judge
    <2> QED
        BY <1>14, <2>2 DEF Judge
<1>15. ASSUME NEW f \in File, NEW written \in BOOLEAN, JudgeFails(f, written) PROVE TypeOK'
    <2>1. ASSUME NEW t \in task PROVE Unjudged(t, written) \in TaskRow
        BY DEF Unjudged, With
    <2>2. tasks' \in SUBSET TaskRow
        BY <1>15, <2>1 DEF JudgeFails
    <2> QED
        BY <1>15, <2>2 DEF JudgeFails
<1>16. ASSUME NEW f \in File, AppendToExcel(f) PROVE TypeOK'
    BY <1>16 DEF AppendToExcel, Raise
<1>17. ASSUME NEW f \in File, CompleteFile(f) PROVE TypeOK'
    BY <1>17 DEF CompleteFile, Recorded
<1>18. ASSUME NEW f \in File, NEW d \in Inside[f], NEW k \in
             {Identity[d], NoKey}, IngestCreditNote(f, d, k)
      PROVE  TypeOK'
    <2>1. Row(d, k, "COMPLETED") \in TaskRow
        BY <1>18 DEF Row
    <2> QED
        BY <1>18, <2>1 DEF IngestCreditNote, Reads
<1>19. ASSUME NEW f \in File, NEW d \in Inside[f], NEW k \in
             {Identity[d], NoKey}, StoreInvoice(f, d, k)
      PROVE  TypeOK'
    BY <1>19 DEF StoreInvoice, Row, Reads
<1>20. ASSUME NEW f \in File, NEW d \in Inside[f], InvoiceUnread(f, d) PROVE TypeOK'
    <2>1. Row(d, NoKey, "FAILED") \in TaskRow
        BY <1>20 DEF Row
    <2> QED
        BY <1>20, <2>1 DEF InvoiceUnread
<1>21. ASSUME Finish PROVE TypeOK'
    BY <1>21 DEF Finish, EndRun, RunsHaveCalls
<1>22. ASSUME NEW written \in BOOLEAN, Abort(written) PROVE TypeOK'
    BY <1>22 DEF Abort, EndRun, RunsHaveCalls
<1>23. ASSUME CrashWorker PROVE TypeOK'
    BY <1>23 DEF CrashWorker, EndRun
<1>24. ASSUME Terminate PROVE TypeOK'
    BY <1>24 DEF Terminate, EndRun
<1> HIDE DEF SyncInv, TypeOK, Version, Attempt, TaskRow, Event
<1> QED
    BY <1>1, <1>2, <1>3, <1>4, <1>5, <1>6, <1>7, <1>8, <1>9, <1>10, <1>11,
       <1>12, <1>13, <1>14, <1>15, <1>16, <1>17, <1>18, <1>19, <1>20, <1>21,
       <1>22, <1>23, <1>24
       DEF Next, RunStep, FileStep, Failure

\* Runs and calls begin and end together.
LEMMA CallStep == ASSUME SyncInv, Next PROVE RunsHaveCalls'
<1> USE BoundsAreNatural DEF SyncInv, runVars, jobVars, TypeOK, RunsHaveCalls,
           Turn, Version, Attempt
<1>1. ASSUME (\E f \in File : EditFile(f)) \/ Trigger \/ Cancel \/
             DiscardRevoked
      PROVE  RunsHaveCalls'
    BY <1>1 DEF EditFile, Trigger, Cancel, DiscardRevoked
<1>2. ASSUME StartRun \/ ListFolder \/ EndStage \/ SelectInvoices
      PROVE  RunsHaveCalls'
    BY <1>2 DEF StartRun, ListFolder, EndStage, SelectInvoices
<1>3. ASSUME NEW f \in File, PassOver(f) \/ Mark(f) \/ Fetch(f) \/
             RaiseForFile(f) \/ FailFile(f) \/ Judge(f) \/ (\E written \in
             BOOLEAN : JudgeFails(f, written)) \/ AppendToExcel(f) \/
             CompleteFile(f)
      PROVE  RunsHaveCalls'
    BY <1>3 DEF PassOver, Mark, Fetch, RaiseForFile, FailFile, Judge,
        JudgeFails, AppendToExcel, CompleteFile, Recorded, Raise, Judged,
        With, Unjudged
<1>4. ASSUME NEW f \in File, NEW d \in Inside[f], (\E k \in
             {Identity[d], NoKey} : IngestCreditNote(f, d, k)) \/ (\E k \in
             {Identity[d], NoKey} : StoreInvoice(f, d, k)) \/ InvoiceUnread(f,
             d)
      PROVE  RunsHaveCalls'
    BY <1>4 DEF IngestCreditNote, StoreInvoice, InvoiceUnread, Row, Reads
<1>5. ASSUME Finish \/ (\E written \in BOOLEAN : Abort(written)) \/
             CrashWorker \/ Terminate
      PROVE  RunsHaveCalls'
    BY <1>5 DEF Finish, Abort, CrashWorker, Terminate, EndRun
<1> HIDE DEF SyncInv, TypeOK, RunsHaveCalls, Turn, Version, Attempt
<1> QED
    BY <1>1, <1>2, <1>3, <1>4, <1>5
       DEF Next, RunStep, FileStep, Failure

\* Versions only grow after a listing.
LEMMA ListingStep == ASSUME SyncInv, Next PROVE ListingIsOld'
<1> USE BoundsAreNatural DEF SyncInv, runVars, jobVars, TypeOK, ListingIsOld,
           Version
<1>1. ASSUME (\E f \in File : EditFile(f)) \/ Trigger \/ Cancel \/
             DiscardRevoked
      PROVE  ListingIsOld'
    BY <1>1 DEF EditFile, Trigger, Cancel, DiscardRevoked
<1>2. ASSUME StartRun \/ ListFolder \/ EndStage \/ SelectInvoices
      PROVE  ListingIsOld'
    BY <1>2 DEF StartRun, ListFolder, EndStage, SelectInvoices
<1>3. ASSUME NEW f \in File, PassOver(f) \/ Mark(f) \/ Fetch(f) \/
             RaiseForFile(f) \/ FailFile(f) \/ Judge(f) \/ (\E written \in
             BOOLEAN : JudgeFails(f, written)) \/ AppendToExcel(f) \/
             CompleteFile(f)
      PROVE  ListingIsOld'
    BY <1>3 DEF PassOver, Mark, Fetch, RaiseForFile, FailFile, Judge,
        JudgeFails, AppendToExcel, CompleteFile, Recorded, Raise, Judged,
        With, Unjudged
<1>4. ASSUME NEW f \in File, NEW d \in Inside[f], (\E k \in
             {Identity[d], NoKey} : IngestCreditNote(f, d, k)) \/ (\E k \in
             {Identity[d], NoKey} : StoreInvoice(f, d, k)) \/ InvoiceUnread(f,
             d)
      PROVE  ListingIsOld'
    BY <1>4 DEF IngestCreditNote, StoreInvoice, InvoiceUnread, Row, Reads
<1>5. ASSUME Finish \/ (\E written \in BOOLEAN : Abort(written)) \/
             CrashWorker \/ Terminate
      PROVE  ListingIsOld'
    BY <1>5 DEF Finish, Abort, CrashWorker, Terminate, EndRun
<1> HIDE DEF SyncInv, TypeOK, ListingIsOld, Version
<1> QED
    BY <1>1, <1>2, <1>3, <1>4, <1>5
       DEF Next, RunStep, FileStep, Failure

\* Only the first file of a loop is marked, and nothing else is written of it
\* before it is done.
LEMMA MarkStep == ASSUME SyncInv, Next PROVE CurrentIsMarked'
<1> USE DEF SyncInv, runVars, jobVars, TypeOK, CurrentIsMarked, RunsHaveCalls,
           Turn
<1>1. ASSUME (\E f \in File : EditFile(f)) \/ Trigger \/ Cancel \/
             DiscardRevoked
      PROVE  CurrentIsMarked'
    BY <1>1 DEF EditFile, Trigger, Cancel, DiscardRevoked
<1>2. ASSUME StartRun \/ ListFolder \/ EndStage \/ SelectInvoices
      PROVE  CurrentIsMarked'
    BY <1>2 DEF StartRun, ListFolder, EndStage, SelectInvoices
<1>3. ASSUME NEW f \in File, PassOver(f) \/ Fetch(f) \/ RaiseForFile(f) \/
             FailFile(f) \/ Judge(f) \/ (\E written \in BOOLEAN :
             JudgeFails(f, written)) \/ AppendToExcel(f) \/ CompleteFile(f)
      PROVE  CurrentIsMarked'
    BY <1>3 DEF PassOver, Fetch, RaiseForFile, FailFile, Judge, JudgeFails,
        AppendToExcel, CompleteFile, Raise, Recorded, Judged, With, Unjudged
<1>4. ASSUME NEW f \in File, Mark(f) PROVE CurrentIsMarked'
    <2>1. ASSUME NEW g \in File, Turn(g)' PROVE g = f
        BY <1>4, <2>1, TurnIsUnique DEF Mark
    <2>2. tracker'[f] = [status |-> "processing", md5 |-> listed[f]] /\ listed' = listed
        BY <1>4 DEF Mark, Recorded
    <2> QED
        BY <2>1, <2>2
<1>5. ASSUME NEW f \in File, NEW d \in Inside[f], (\E k \in
             {Identity[d], NoKey} : IngestCreditNote(f, d, k)) \/ (\E k \in
             {Identity[d], NoKey} : StoreInvoice(f, d, k)) \/ InvoiceUnread(f,
             d)
      PROVE  CurrentIsMarked'
    BY <1>5 DEF IngestCreditNote, StoreInvoice, InvoiceUnread, Row, Reads
<1>6. ASSUME Finish \/ (\E written \in BOOLEAN : Abort(written)) \/
             CrashWorker \/ Terminate
      PROVE  CurrentIsMarked'
    BY <1>6 DEF Finish, Abort, CrashWorker, Terminate, EndRun
<1> HIDE DEF SyncInv, TypeOK, CurrentIsMarked, RunsHaveCalls, Turn
<1> QED
    BY <1>1, <1>2, <1>3, <1>4, <1>5, <1>6
       DEF Next, RunStep, FileStep, Failure

\* What is in hand was downloaded after it was listed; each document taken out of
\* it leaves a task behind.
LEMMA FetchStep == ASSUME SyncInv, Next PROVE FetchedIsRead'
<1> USE BoundsAreNatural DEF SyncInv, runVars, jobVars, TypeOK, FetchedIsRead,
           ListingIsOld, CurrentIsMarked, TaskIsPending, RunsHaveCalls, Turn,
           Version
<1>1. ASSUME Trigger \/ DiscardRevoked
      PROVE  FetchedIsRead'
    BY <1>1 DEF Trigger, DiscardRevoked
<1>2. ASSUME NEW f \in File, EditFile(f) PROVE FetchedIsRead'
    BY <1>2 DEF EditFile, WasRead
<1>3. ASSUME Cancel PROVE FetchedIsRead'
    BY <1>3 DEF Cancel, WasRead
<1>4. ASSUME StartRun \/ ListFolder \/ EndStage \/ SelectInvoices
      PROVE  FetchedIsRead'
    BY <1>4 DEF StartRun, ListFolder, EndStage, SelectInvoices
<1>5. ASSUME NEW f \in File, PassOver(f) \/ Mark(f) \/ RaiseForFile(f) \/
             FailFile(f) \/ Judge(f) \/ AppendToExcel(f) \/ CompleteFile(f)
      PROVE  FetchedIsRead'
    BY <1>5 DEF PassOver, Mark, RaiseForFile, FailFile, Judge, AppendToExcel,
        CompleteFile, Recorded, Raise, Judged, With
<1>6. ASSUME NEW f \in File, Fetch(f) PROVE FetchedIsRead'
    <2>1. ASSUME NEW g \in File, Turn(g)' PROVE g = f
        BY <1>6, <2>1, TurnIsUnique DEF Fetch
    <2>2. got' >= tracker'[f].md5
        BY <1>6 DEF Fetch
    <2>3. Inside[f] \ left' = {}
        BY <1>6 DEF Fetch
    <2> QED
        BY <2>1, <2>2, <2>3
<1>7. ASSUME NEW f \in File, NEW written \in BOOLEAN, JudgeFails(f, written)
      PROVE  FetchedIsRead'
    <2>1. ASSUME NEW g \in File, Turn(g)' PROVE g = f
        BY <1>7, <2>1, TurnIsUnique DEF JudgeFails
    <2>2. /\ tracker' = tracker /\ got' = got /\ left' = left /\ tasks \subseteq tasks'
          /\ at' # "stored" /\ (at' = "fetched" => f \in Archive)
        BY <1>7 DEF JudgeFails
    <2>3. ASSUME NEW t \in task
          PROVE  \E u \in tasks' : u.doc = t.doc /\ u.version = t.version
        <3>1. Unjudged(t, written) \in tasks'
            BY <1>7 DEF JudgeFails
        <3> QED
            BY <3>1 DEF Unjudged, With
    <2>4. /\ got >= tracker[f].md5
          /\ \A e \in Inside[f] \ left :
                WasRead(f, e) \/ \E t \in task : t.doc = e /\ t.version >= tracker[f].md5
        BY <1>7 DEF JudgeFails
    <2>5. ASSUME NEW e \in Inside[f] \ left', at' = "fetched" PROVE WasRead(f, e)'
        <3>1. CASE WasRead(f, e)
            BY <2>2, <3>1 DEF WasRead
        <3>2. CASE \E t \in task : t.doc = e /\ t.version >= tracker[f].md5
            BY <2>2, <2>3, <2>5, <3>2 DEF WasRead
        <3> QED
            BY <2>2, <2>4, <3>1, <3>2
    <2> QED
        BY <2>1, <2>2, <2>4, <2>5
<1>8. ASSUME NEW f \in File, NEW d \in Inside[f], NEW k \in
             {Identity[d], NoKey}, IngestCreditNote(f, d, k)
      PROVE  FetchedIsRead'
    <2>1. ASSUME NEW g \in File, Turn(g)' PROVE g = f
        BY <1>8, <2>1, TurnIsUnique DEF IngestCreditNote
    <2>2. tracker' = tracker /\ got' = got /\ left' = left \ {d} /\ tasks \subseteq tasks'
        BY <1>8 DEF IngestCreditNote
    <2>3. Row(d, k, "COMPLETED") \in tasks'
        BY <1>8 DEF IngestCreditNote
    <2>4. got >= tracker[f].md5 /\ \A e \in Inside[f] \ left : WasRead(f, e)
        BY <1>8 DEF IngestCreditNote
    <2>5. ASSUME NEW e \in Inside[f] \ left' PROVE WasRead(f, e)'
        <3>1. CASE e = d
            BY <2>2, <2>3, <2>4, <3>1 DEF Row, WasRead
        <3>2. CASE e # d
            <4>1. WasRead(f, e)
                BY <2>2, <2>4, <2>5, <3>2
            <4> QED
                BY <2>2, <4>1 DEF WasRead
        <3> QED
            BY <3>1, <3>2
    <2>6. got' >= tracker'[f].md5
        BY <2>2, <2>4
    <2> QED
        BY <2>1, <2>5, <2>6
<1>9. ASSUME NEW f \in File, NEW d \in Inside[f], NEW k \in
             {Identity[d], NoKey}, StoreInvoice(f, d, k)
      PROVE  FetchedIsRead'
    <2>1. ASSUME NEW g \in File, Turn(g)' PROVE g = f
        BY <1>9, <2>1, TurnIsUnique DEF StoreInvoice
    <2>2. /\ tracker' = tracker /\ got' = got /\ left' = left \ {d} /\ tasks' = tasks
          /\ task' = {Row(d, k, "COMPLETED")}
        BY <1>9 DEF StoreInvoice
    <2>3. got >= tracker[f].md5 /\ \A e \in Inside[f] \ left : WasRead(f, e)
        BY <1>9 DEF StoreInvoice
    <2>4. ASSUME NEW e \in Inside[f] \ left', e # d PROVE WasRead(f, e)'
        BY <2>2, <2>3, <2>4 DEF WasRead
    <2>5. \E t \in task' : t.doc = d /\ t.version >= tracker'[f].md5
        BY <2>2, <2>3 DEF Row
    <2> QED
        BY <2>1, <2>2, <2>3, <2>4, <2>5
<1>10. ASSUME NEW f \in File, NEW d \in Inside[f], InvoiceUnread(f, d) PROVE FetchedIsRead'
    <2>1. ASSUME NEW g \in File, Turn(g)' PROVE g = f
        BY <1>10, <2>1, TurnIsUnique DEF InvoiceUnread
    <2>2. tracker' = tracker /\ got' = got /\ left' = left \ {d} /\ tasks \subseteq tasks'
        BY <1>10 DEF InvoiceUnread
    <2>3. Row(d, NoKey, "FAILED") \in tasks'
        BY <1>10 DEF InvoiceUnread
    <2>4. got >= tracker[f].md5 /\ \A e \in Inside[f] \ left : WasRead(f, e)
        BY <1>10 DEF InvoiceUnread
    <2>5. at' # "stored" /\ (at' = "fetched" => f \in Archive)
        BY <1>10 DEF InvoiceUnread
    <2>6. ASSUME NEW e \in Inside[f] \ left', at' = "fetched" PROVE WasRead(f, e)'
        <3>1. CASE e = d
            BY <2>2, <2>3, <2>4, <2>5, <2>6, <3>1 DEF Row, WasRead
        <3>2. CASE e # d
            <4>1. WasRead(f, e)
                BY <2>2, <2>4, <2>6, <3>2
            <4> QED
                BY <2>2, <4>1 DEF WasRead
        <3> QED
            BY <3>1, <3>2
    <2>7. got' >= tracker'[f].md5
        BY <2>2, <2>4
    <2> QED
        BY <2>1, <2>5, <2>6, <2>7
<1>11. ASSUME Finish \/ (\E written \in BOOLEAN : Abort(written)) \/
             CrashWorker \/ Terminate
      PROVE  FetchedIsRead'
    BY <1>11 DEF Finish, Abort, CrashWorker, Terminate, EndRun
<1> HIDE DEF SyncInv, TypeOK, FetchedIsRead, ListingIsOld, CurrentIsMarked,
            TaskIsPending, RunsHaveCalls, Turn, Version
<1> QED
    BY <1>1, <1>2, <1>3, <1>4, <1>5, <1>6, <1>7, <1>8, <1>9, <1>10, <1>11
       DEF Next, RunStep, FileStep, Failure

\* A selected invoice is not processed, and leaves the loop when it is.
LEMMA SelectStep == ASSUME SyncInv, Next PROVE SelectedIsFresh'
<1> USE DEF SyncInv, runVars, jobVars, TypeOK, SelectedIsFresh, RunsHaveCalls,
           CurrentIsMarked, Processed, Turn
<1>1. ASSUME (\E f \in File : EditFile(f)) \/ Trigger \/ Cancel \/
             DiscardRevoked
      PROVE  SelectedIsFresh'
    BY <1>1 DEF EditFile, Trigger, Cancel, DiscardRevoked
<1>2. ASSUME StartRun \/ ListFolder \/ EndStage
      PROVE  SelectedIsFresh'
    BY <1>2 DEF StartRun, ListFolder, EndStage
<1>3. ASSUME SelectInvoices PROVE SelectedIsFresh'
    <2>1. todo' \subseteq Fresh
        BY <1>3 DEF SelectInvoices
    <2>2. tracker' = tracker /\ listed' = listed
        BY <1>3 DEF SelectInvoices
    <2> QED
        BY <2>1, <2>2 DEF Fresh
<1>4. ASSUME NEW f \in File, PassOver(f) \/ Mark(f) \/ Fetch(f) \/
             RaiseForFile(f) \/ FailFile(f) \/ Judge(f) \/ (\E written \in
             BOOLEAN : JudgeFails(f, written)) \/ AppendToExcel(f) \/
             CompleteFile(f)
      PROVE  SelectedIsFresh'
    BY <1>4 DEF PassOver, Mark, Fetch, RaiseForFile, FailFile, Judge,
        JudgeFails, AppendToExcel, CompleteFile, Recorded, Raise, Judged,
        With, Unjudged
<1>5. ASSUME NEW f \in File, NEW d \in Inside[f], (\E k \in
             {Identity[d], NoKey} : IngestCreditNote(f, d, k)) \/ (\E k \in
             {Identity[d], NoKey} : StoreInvoice(f, d, k)) \/ InvoiceUnread(f,
             d)
      PROVE  SelectedIsFresh'
    BY <1>5 DEF IngestCreditNote, StoreInvoice, InvoiceUnread, Row, Reads
<1>6. ASSUME Finish \/ (\E written \in BOOLEAN : Abort(written)) \/
             CrashWorker \/ Terminate
      PROVE  SelectedIsFresh'
    BY <1>6 DEF Finish, Abort, CrashWorker, Terminate, EndRun
<1> HIDE DEF SyncInv, TypeOK, SelectedIsFresh, RunsHaveCalls, CurrentIsMarked,
            Processed, Turn
<1> QED
    BY <1>1, <1>2, <1>3, <1>4, <1>5, <1>6
       DEF Next, RunStep, FileStep, Failure

\* A task is judged before the next is stored.
LEMMA PendingStep == ASSUME SyncInv, Next PROVE TaskIsPending'
<1> USE DEF SyncInv, runVars, jobVars, TaskIsPending
<1>1. ASSUME (\E f \in File : EditFile(f)) \/ Trigger \/ Cancel \/
             DiscardRevoked
      PROVE  TaskIsPending'
    BY <1>1 DEF EditFile, Trigger, Cancel, DiscardRevoked
<1>2. ASSUME StartRun \/ ListFolder \/ EndStage \/ SelectInvoices
      PROVE  TaskIsPending'
    BY <1>2 DEF StartRun, ListFolder, EndStage, SelectInvoices
<1>3. ASSUME NEW f \in File, PassOver(f) \/ Mark(f) \/ Fetch(f) \/
             RaiseForFile(f) \/ FailFile(f) \/ Judge(f) \/ (\E written \in
             BOOLEAN : JudgeFails(f, written)) \/ AppendToExcel(f) \/
             CompleteFile(f)
      PROVE  TaskIsPending'
    BY <1>3 DEF PassOver, Mark, Fetch, RaiseForFile, FailFile, Judge,
        JudgeFails, AppendToExcel, CompleteFile, Recorded, Raise, Judged,
        With, Unjudged
<1>4. ASSUME NEW f \in File, NEW d \in Inside[f], NEW k \in
             {Identity[d], NoKey}, IngestCreditNote(f, d, k)
      PROVE  TaskIsPending'
    BY <1>4 DEF IngestCreditNote, Row, Reads
<1>5. ASSUME NEW f \in File, NEW d \in Inside[f], NEW k \in
             {Identity[d], NoKey}, StoreInvoice(f, d, k)
      PROVE  TaskIsPending'
    BY <1>5 DEF StoreInvoice, Row, Reads
<1>6. ASSUME NEW f \in File, NEW d \in Inside[f], InvoiceUnread(f, d) PROVE TaskIsPending'
    BY <1>6 DEF InvoiceUnread, Row
<1>7. ASSUME Finish \/ (\E written \in BOOLEAN : Abort(written)) \/
             CrashWorker \/ Terminate
      PROVE  TaskIsPending'
    BY <1>7 DEF Finish, Abort, CrashWorker, Terminate, EndRun
<1> HIDE DEF SyncInv, TaskIsPending
<1> QED
    BY <1>1, <1>2, <1>3, <1>4, <1>5, <1>6, <1>7
       DEF Next, RunStep, FileStep, Failure

\* A file is completed as it was read; tasks are never deleted.
LEMMA ReadStep == ASSUME SyncInv, Next PROVE CompletedFileWasRead'
<1> USE DEF SyncInv, runVars, jobVars, TypeOK, CompletedFileWasRead, WasRead,
           FetchedIsRead, CurrentIsMarked, TaskIsPending, Turn
<1>1. ASSUME (\E f \in File : EditFile(f)) \/ Trigger \/ Cancel \/
             DiscardRevoked
      PROVE  CompletedFileWasRead'
    BY <1>1 DEF EditFile, Trigger, Cancel, DiscardRevoked
<1>2. ASSUME StartRun \/ ListFolder \/ EndStage \/ SelectInvoices
      PROVE  CompletedFileWasRead'
    BY <1>2 DEF StartRun, ListFolder, EndStage, SelectInvoices
<1>3. ASSUME NEW f \in File, PassOver(f) PROVE CompletedFileWasRead'
    BY <1>3 DEF PassOver
<1>4. ASSUME NEW f \in File, Mark(f) PROVE CompletedFileWasRead'
    BY <1>4 DEF Mark, Recorded
<1>5. ASSUME NEW f \in File, Fetch(f) PROVE CompletedFileWasRead'
    BY <1>5 DEF Fetch
<1>6. ASSUME NEW f \in File, RaiseForFile(f) PROVE CompletedFileWasRead'
    BY <1>6 DEF RaiseForFile, Raise
<1>7. ASSUME NEW f \in File, FailFile(f) PROVE CompletedFileWasRead'
    BY <1>7 DEF FailFile, Recorded
<1>8. ASSUME NEW f \in File, Judge(f) PROVE CompletedFileWasRead'
    BY <1>8 DEF Judge, Judged, With
<1>9. ASSUME NEW f \in File, NEW written \in BOOLEAN, JudgeFails(f, written)
      PROVE  CompletedFileWasRead'
    BY <1>9 DEF JudgeFails, Unjudged, With
<1>10. ASSUME NEW f \in File, AppendToExcel(f) PROVE CompletedFileWasRead'
    BY <1>10 DEF AppendToExcel, Raise
<1>11. ASSUME NEW f \in File, CompleteFile(f) PROVE CompletedFileWasRead'
    BY <1>11 DEF CompleteFile, Recorded
<1>12. ASSUME NEW f \in File, NEW d \in Inside[f], (\E k \in
             {Identity[d], NoKey} : IngestCreditNote(f, d, k)) \/ (\E k \in
             {Identity[d], NoKey} : StoreInvoice(f, d, k)) \/ InvoiceUnread(f,
             d)
      PROVE  CompletedFileWasRead'
    BY <1>12 DEF IngestCreditNote, StoreInvoice, InvoiceUnread, Row, Reads
<1>13. ASSUME Finish \/ (\E written \in BOOLEAN : Abort(written)) \/
             CrashWorker \/ Terminate
      PROVE  CompletedFileWasRead'
    BY <1>13 DEF Finish, Abort, CrashWorker, Terminate, EndRun
<1> HIDE DEF SyncInv, TypeOK, CompletedFileWasRead, WasRead, FetchedIsRead,
            CurrentIsMarked, TaskIsPending, Turn
<1> QED
    BY <1>1, <1>2, <1>3, <1>4, <1>5, <1>6, <1>7, <1>8, <1>9, <1>10, <1>11,
       <1>12, <1>13
       DEF Next, RunStep, FileStep, Failure

\* A duplicate has an original, or a duplicate that has one.
LEMMA OriginalStep == ASSUME SyncInv, Next PROVE OriginalIsKept'
<1> USE DEF SyncInv, runVars, jobVars, OriginalIsKept, TaskIsPending
<1>1. ASSUME (\E f \in File : EditFile(f)) \/ Trigger \/ Cancel \/
             DiscardRevoked
      PROVE  OriginalIsKept'
    BY <1>1 DEF EditFile, Trigger, Cancel, DiscardRevoked
<1>2. ASSUME StartRun \/ ListFolder \/ EndStage \/ SelectInvoices
      PROVE  OriginalIsKept'
    BY <1>2 DEF StartRun, ListFolder, EndStage, SelectInvoices
<1>3. ASSUME NEW f \in File, PassOver(f) \/ Mark(f) \/ Fetch(f) \/
             RaiseForFile(f) \/ FailFile(f) \/ (\E written \in BOOLEAN :
             JudgeFails(f, written)) \/ AppendToExcel(f) \/ CompleteFile(f)
      PROVE  OriginalIsKept'
    BY <1>3 DEF PassOver, Mark, Fetch, RaiseForFile, FailFile, JudgeFails,
        AppendToExcel, CompleteFile, Recorded, Raise, Unjudged, With
<1>4. ASSUME NEW f \in File, Judge(f) PROVE OriginalIsKept'
    <2> SUFFICES ASSUME NEW t \in tasks', t.state = "DUPLICATE"
                 PROVE  \E u \in tasks' : u.key = t.key /\ u.state # "DUPLICATE"
        OBVIOUS
    <2>1. tasks' = tasks \cup {Judged(u) : u \in task}
        BY <1>4 DEF Judge
    <2>2. CASE t \in tasks
        BY <2>1, <2>2
    <2>3. CASE t \notin tasks
        <3>1. PICK u \in task : t = Judged(u)
            BY <2>1, <2>3
        <3>2. IsDuplicate(u) /\ u.key = t.key
            BY <3>1 DEF Judged, With
        <3>3. PICK v \in tasks : v.key = t.key
            BY <3>2 DEF IsDuplicate
        <3> QED
            BY <2>1, <3>3
    <2> QED
        BY <2>2, <2>3
<1>5. ASSUME NEW f \in File, NEW d \in Inside[f], (\E k \in
             {Identity[d], NoKey} : IngestCreditNote(f, d, k)) \/ (\E k \in
             {Identity[d], NoKey} : StoreInvoice(f, d, k)) \/ InvoiceUnread(f,
             d)
      PROVE  OriginalIsKept'
    BY <1>5 DEF IngestCreditNote, StoreInvoice, InvoiceUnread, Row, Reads
<1>6. ASSUME Finish \/ (\E written \in BOOLEAN : Abort(written)) \/
             CrashWorker \/ Terminate
      PROVE  OriginalIsKept'
    BY <1>6 DEF Finish, Abort, CrashWorker, Terminate, EndRun
<1> HIDE DEF SyncInv, OriginalIsKept, TaskIsPending
<1> QED
    BY <1>1, <1>2, <1>3, <1>4, <1>5, <1>6
       DEF Next, RunStep, FileStep, Failure

\* A verdict is given only to a key that no task holds.
LEMMA VerdictStep == ASSUME SyncInv, Next PROVE OneVerdictPerKey'
<1> USE DEF SyncInv, runVars, jobVars, OneVerdictPerKey, TaskIsPending
<1>1. ASSUME (\E f \in File : EditFile(f)) \/ Trigger \/ Cancel \/
             DiscardRevoked
      PROVE  OneVerdictPerKey'
    BY <1>1 DEF EditFile, Trigger, Cancel, DiscardRevoked
<1>2. ASSUME StartRun \/ ListFolder \/ EndStage \/ SelectInvoices
      PROVE  OneVerdictPerKey'
    BY <1>2 DEF StartRun, ListFolder, EndStage, SelectInvoices
<1>3. ASSUME NEW f \in File, PassOver(f) \/ Mark(f) \/ Fetch(f) \/
             RaiseForFile(f) \/ FailFile(f) \/ (\E written \in BOOLEAN :
             JudgeFails(f, written)) \/ AppendToExcel(f) \/ CompleteFile(f)
      PROVE  OneVerdictPerKey'
    BY <1>3 DEF PassOver, Mark, Fetch, RaiseForFile, FailFile, JudgeFails,
        AppendToExcel, CompleteFile, Recorded, Raise, Unjudged, With
<1>4. ASSUME NEW f \in File, Judge(f) PROVE OneVerdictPerKey'
    <2> SUFFICES ASSUME NEW t \in tasks', NEW u \in tasks',
                        t.state = "RECONCILED", u.state = "RECONCILED", t.key = u.key, t.key # NoKey
                 PROVE  t = u
        OBVIOUS
    <2>1. tasks' = tasks \cup {Judged(v) : v \in task}
        BY <1>4 DEF Judge
    <2>2. ASSUME NEW w \in tasks', w \notin tasks, w.state = "RECONCILED", w.key = t.key
          PROVE  /\ \E v \in task : w = Judged(v)
                 /\ \A x \in tasks : x.state = "RECONCILED" => x.key # t.key
        <3>1. PICK v \in task : w = Judged(v)
            BY <2>1, <2>2
        <3>2. ~IsDuplicate(v) /\ v.key = t.key
            BY <2>2, <3>1 DEF Judged, With
        <3> QED
            BY <3>1, <3>2 DEF IsDuplicate
    <2> QED
        BY <2>2
<1>5. ASSUME NEW f \in File, NEW d \in Inside[f], (\E k \in
             {Identity[d], NoKey} : IngestCreditNote(f, d, k)) \/ (\E k \in
             {Identity[d], NoKey} : StoreInvoice(f, d, k)) \/ InvoiceUnread(f,
             d)
      PROVE  OneVerdictPerKey'
    BY <1>5 DEF IngestCreditNote, StoreInvoice, InvoiceUnread, Row, Reads
<1>6. ASSUME Finish \/ (\E written \in BOOLEAN : Abort(written)) \/
             CrashWorker \/ Terminate
      PROVE  OneVerdictPerKey'
    BY <1>6 DEF Finish, Abort, CrashWorker, Terminate, EndRun
<1> HIDE DEF SyncInv, OneVerdictPerKey, TaskIsPending
<1> QED
    BY <1>1, <1>2, <1>3, <1>4, <1>5, <1>6
       DEF Next, RunStep, FileStep, Failure

\* A run writes its own row last.
LEMMA JobStep == ASSUME SyncInv, Next PROVE JobRowsAreSettled'
<1> USE BoundsAreNatural DEF SyncInv, runVars, jobVars, TypeOK,
           JobRowsAreSettled, RunsHaveCalls, Attempt
<1>1. ASSUME (\E f \in File : EditFile(f)) \/ Trigger \/ Cancel \/
             DiscardRevoked
      PROVE  JobRowsAreSettled'
    BY <1>1 DEF EditFile, Trigger, Cancel, DiscardRevoked
<1>2. ASSUME StartRun PROVE JobRowsAreSettled'
    BY <1>2 DEF StartRun
<1>3. ASSUME ListFolder PROVE JobRowsAreSettled'
    BY <1>3 DEF ListFolder
<1>4. ASSUME EndStage PROVE JobRowsAreSettled'
    BY <1>4 DEF EndStage
<1>5. ASSUME SelectInvoices PROVE JobRowsAreSettled'
    BY <1>5 DEF SelectInvoices
<1>6. ASSUME NEW f \in File, PassOver(f) \/ Mark(f) \/ Fetch(f) \/
             RaiseForFile(f) \/ FailFile(f) \/ Judge(f) \/ (\E written \in
             BOOLEAN : JudgeFails(f, written)) \/ AppendToExcel(f) \/
             CompleteFile(f)
      PROVE  JobRowsAreSettled'
    BY <1>6 DEF PassOver, Mark, Fetch, RaiseForFile, FailFile, Judge,
        JudgeFails, AppendToExcel, CompleteFile, Recorded, Raise, Judged,
        With, Unjudged
<1>7. ASSUME NEW f \in File, NEW d \in Inside[f], (\E k \in
             {Identity[d], NoKey} : IngestCreditNote(f, d, k)) \/ (\E k \in
             {Identity[d], NoKey} : StoreInvoice(f, d, k)) \/ InvoiceUnread(f,
             d)
      PROVE  JobRowsAreSettled'
    BY <1>7 DEF IngestCreditNote, StoreInvoice, InvoiceUnread, Row, Reads
<1>8. ASSUME Finish \/ (\E written \in BOOLEAN : Abort(written)) \/
             CrashWorker \/ Terminate
      PROVE  JobRowsAreSettled'
    BY <1>8 DEF Finish, Abort, CrashWorker, Terminate, EndRun
<1> HIDE DEF SyncInv, TypeOK, JobRowsAreSettled, RunsHaveCalls, Attempt
<1> QED
    BY <1>1, <1>2, <1>3, <1>4, <1>5, <1>6, <1>7, <1>8
       DEF Next, RunStep, FileStep, Failure

\* Marking a file moves it from what is left of the budget to what is touched.
LEMMA BudgetStep == ASSUME SyncInv, Next PROVE BudgetCovers'
<1> USE DEF SyncInv, runVars, jobVars
<1>1. ASSUME NEW S, NEW T \in SUBSET File, S \subseteq T
      PROVE  /\ Cardinality(S) \in Nat
             /\ Cardinality(T) \in Nat
             /\ Cardinality(S) <= Cardinality(T)
    <2>1. IsFiniteSet(T) /\ IsFiniteSet(S)
        BY <1>1, FilesAreClassified, FS_Subset
    <2> QED
        BY <1>1, <2>1, FS_Subset, FS_CardinalityType
<1>2. Claimed \in SUBSET File /\ budget \in Nat /\ MaxFiles \in Nat
    BY BoundsAreNatural DEF TypeOK, Claimed
<1>3. CASE Claimed' \subseteq Claimed /\ budget' = budget
    BY <1>1, <1>2, <1>3 DEF BudgetCovers
<1>4. CASE Claimed' = {} /\ budget' \in {0, MaxFiles}
    BY <1>2, <1>4, FS_EmptySet DEF BudgetCovers
<1>5. ASSUME NEW f \in File, Mark(f) PROVE BudgetCovers'
    <2>1. CASE stage = "invoice"
        <3>1. Claimed' = Claimed /\ budget' = budget
            BY <1>5, <2>1 DEF Mark, Turn, Claimed
        <3> QED
            BY <1>3, <3>1
    <2>2. CASE stage # "invoice"
        <3>1. Claimed' = Claimed \cup {f} /\ budget' = budget - 1 /\ budget > 0
            BY <1>5, <2>2 DEF Mark, Claimed
        <3>2. IsFiniteSet(Claimed)
            BY <1>2, FilesAreClassified, FS_Subset
        <3>3. Cardinality(Claimed) \in Nat
            BY <1>1, <1>2
        <3>4. Cardinality(Claimed \cup {f}) = IF f \in Claimed THEN Cardinality(Claimed)
                                              ELSE Cardinality(Claimed) + 1
            BY <3>2, FS_AddElement
        <3> QED
            BY <1>2, <3>1, <3>3, <3>4 DEF BudgetCovers
    <2> QED
        BY <2>1, <2>2
<1>6. ASSUME SelectInvoices PROVE BudgetCovers'
    <2>1. Claimed = touched /\ Claimed' = touched \cup todo' /\ budget' = budget - Cardinality(todo')
        BY <1>6 DEF SelectInvoices, Claimed
    <2>2. todo' \in SUBSET File
        BY <1>6 DEF SelectInvoices, Fresh
    <2>3. IsFiniteSet(touched) /\ IsFiniteSet(todo')
        BY <1>2, <2>1, <2>2, FilesAreClassified, FS_Subset
    <2>4. IsFiniteSet(touched \cap todo')
        BY <2>3, FS_Subset
    <2>5. Cardinality(Claimed') <= Cardinality(touched) + Cardinality(todo')
        <3>1. /\ Cardinality(touched) \in Nat
              /\ Cardinality(todo') \in Nat
              /\ Cardinality(touched \cap todo') \in Nat
            BY <2>3, <2>4, FS_CardinalityType
        <3>2. Cardinality(touched \cup todo')
                = Cardinality(touched) + Cardinality(todo') - Cardinality(touched \cap todo')
            BY <2>3, FS_Union
        <3> QED
            BY <2>1, <3>1, <3>2
    <2>6. Cardinality(Claimed') \in Nat /\ Cardinality(touched) \in Nat /\ Cardinality(todo') \in Nat
        BY <1>1, <1>2, <2>1, <2>2
    <2> QED
        BY <1>2, <2>1, <2>5, <2>6 DEF BudgetCovers
<1>7. ASSUME StartRun \/ Finish \/ CrashWorker \/ Terminate \/ \E written \in BOOLEAN : Abort(written)
      PROVE  BudgetCovers'
    <2>1. stage' # "invoice" /\ touched' = {} /\ budget' \in {0, MaxFiles}
        BY <1>7 DEF StartRun, Finish, CrashWorker, Terminate, Abort, EndRun
    <2> QED
        BY <1>4, <2>1 DEF Claimed
<1>8. ASSUME NEW f \in File, FileStep(f), ~Mark(f) PROVE BudgetCovers'
    <2>1. touched' = touched /\ budget' = budget /\ stage' = stage /\ todo' \subseteq todo
        BY <1>8 DEF FileStep, PassOver, Fetch, RaiseForFile, Raise, FailFile, IngestCreditNote,
                    StoreInvoice, InvoiceUnread, Judge, JudgeFails, AppendToExcel, CompleteFile
    <2> QED
        BY <1>3, <2>1 DEF Claimed
<1>9. ASSUME ListFolder \/ EndStage PROVE BudgetCovers'
    <2>1. touched' = touched /\ budget' = budget /\ stage' # "invoice"
        BY <1>9 DEF ListFolder, EndStage
    <2> QED
        BY <1>3, <2>1 DEF Claimed
<1>10. ASSUME Trigger \/ Cancel \/ DiscardRevoked \/ \E f \in File : EditFile(f)
       PROVE  BudgetCovers'
    <2>1. UNCHANGED <<touched, budget, stage, todo>>
        BY <1>10 DEF Trigger, Cancel, DiscardRevoked, EditFile
    <2> QED
        BY <1>3, <2>1 DEF Claimed
<1> HIDE DEF SyncInv
<1> QED
    BY <1>5, <1>6, <1>7, <1>8, <1>9, <1>10 DEF Next, RunStep, Failure

\* Stuttering keeps what is written with the variables.
LEMMA StutterStep == ASSUME SyncInv, UNCHANGED vars PROVE SyncInv'
<1> USE DEF vars, runVars, jobVars
<1>1. UNCHANGED <<drive, tracker, tasks, call, attempt, job, lost, stage, listed, budget, todo, at,
                  got, left, task, touched>>
    OBVIOUS
<1>2. TypeOK' /\ RunsHaveCalls' /\ ListingIsOld' /\ CurrentIsMarked'
    BY DEF SyncInv, TypeOK, RunsHaveCalls, ListingIsOld, CurrentIsMarked, Turn
<1>3. FetchedIsRead' /\ SelectedIsFresh' /\ TaskIsPending' /\ BudgetCovers'
    BY DEF SyncInv, FetchedIsRead, WasRead, Turn, SelectedIsFresh, Processed, TaskIsPending,
           BudgetCovers, Claimed
<1>4. CompletedFileWasRead' /\ OriginalIsKept' /\ OneVerdictPerKey' /\ JobRowsAreSettled'
    BY DEF SyncInv, CompletedFileWasRead, WasRead, OriginalIsKept, OneVerdictPerKey,
           JobRowsAreSettled
<1> QED
    BY <1>2, <1>3, <1>4 DEF SyncInv

\* Every step keeps the invariant.
LEMMA StepPreserves == SyncInv /\ [Next]_vars => SyncInv'
<1>1. ASSUME SyncInv, Next PROVE SyncInv'
    <2>1. TypeOK' /\ RunsHaveCalls' /\ ListingIsOld' /\ CurrentIsMarked'
        BY <1>1, TypeStep, CallStep, ListingStep, MarkStep
    <2>2. FetchedIsRead' /\ SelectedIsFresh' /\ TaskIsPending' /\ BudgetCovers'
        BY <1>1, FetchStep, SelectStep, PendingStep, BudgetStep
    <2>3. CompletedFileWasRead' /\ OriginalIsKept' /\ OneVerdictPerKey' /\ JobRowsAreSettled'
        BY <1>1, ReadStep, OriginalStep, VerdictStep, JobStep
    <2> QED
        BY <2>1, <2>2, <2>3 DEF SyncInv
<1> QED
    BY <1>1, StutterStep

\* The inductive invariant of the sync.
THEOREM InvariantHolds == Spec => []SyncInv
BY InitEstablishes, StepPreserves, PTL DEF Spec

\* The variables keep their types; in particular the budget is never negative,
\* though the invoices are charged after notes and archives have drawn on it.
THEOREM TypeCorrect == Spec => []TypeOK
<1>1. SyncInv => TypeOK
    BY DEF SyncInv
<1> QED
    BY <1>1, InvariantHolds, PTL

\* What the tracker calls completed was read from the content of its checksum
\* or a later one, although the file may change between listing and download.
THEOREM CompletedMeansRead == Spec => []CompletedFileWasRead
<1>1. SyncInv => CompletedFileWasRead
    BY DEF SyncInv
<1> QED
    BY <1>1, InvariantHolds, PTL

\* Duplicate marking never takes the last task of a key, whatever crashes
\* between the commits.
THEOREM DuplicatesAreExact == Spec => []OriginalIsKept
<1>1. SyncInv => OriginalIsKept
    BY DEF SyncInv
<1> QED
    BY <1>1, InvariantHolds, PTL

\* At most one task of a key gets a verdict, however often its file is read.
THEOREM VerdictsAreUnique == Spec => []OneVerdictPerKey
<1>1. SyncInv => OneVerdictPerKey
    BY DEF SyncInv
<1> QED
    BY <1>1, InvariantHolds, PTL

\* A run writes the tracker of at most max_files files.
THEOREM CapHolds == Spec => []BudgetIsKept
<1>1. SyncInv => BudgetIsKept
    <2> SUFFICES ASSUME SyncInv PROVE BudgetIsKept
        OBVIOUS
    <2>1. Claimed \in SUBSET File /\ touched \in SUBSET Claimed /\ budget \in Nat
        BY DEF SyncInv, TypeOK, Claimed
    <2>2. IsFiniteSet(Claimed)
        BY <2>1, FilesAreClassified, FS_Subset
    <2>3. Cardinality(touched) <= Cardinality(Claimed) /\ Cardinality(Claimed) \in Nat
        BY <2>1, <2>2, FS_Subset, FS_CardinalityType
    <2>4. Cardinality(touched) \in Nat
        BY <2>1, <2>2, FS_Subset, FS_CardinalityType
    <2> QED
        BY <2>1, <2>3, <2>4, BoundsAreNatural DEF SyncInv, BudgetCovers, BudgetIsKept
<1> QED
    BY <1>1, InvariantHolds, PTL

\* A job row is in progress only while its run is, or its process died.
THEOREM RowsAreSettled == Spec => []JobRowsAreSettled
<1>1. SyncInv => JobRowsAreSettled
    BY DEF SyncInv
<1> QED
    BY <1>1, InvariantHolds, PTL

\* The record of a processed file is only revised for a new checksum: a run
\* neither marks it again nor fails it.
THEOREM ProcessedIsKept == Spec => ProcessedFileIsLeftAlone
<1> DEFINE Kept == \A f \in File :
        (tracker[f].status = "completed" /\ tracker'[f] # tracker[f])
            => tracker'[f].md5 # tracker[f].md5
<1>1. SyncInv /\ [Next]_vars => Kept
    <2> SUFFICES ASSUME SyncInv, [Next]_vars PROVE Kept
        OBVIOUS
    <2> USE DEF SyncInv
    <2>1. ASSUME NEW g \in File, Mark(g) PROVE Kept
        <3>1. ~Processed(g)
            BY <2>1 DEF Mark, SelectedIsFresh, Turn
        <3>2. tracker'[g].md5 = listed[g] /\ \A f \in File : f # g => tracker'[f] = tracker[f]
            BY <2>1 DEF Mark, Recorded, TypeOK
        <3> QED
            BY <3>1, <3>2 DEF Processed
    <2>2. ASSUME NEW g \in File, FailFile(g) \/ CompleteFile(g) PROVE Kept
        <3>1. tracker[g].status # "completed"
            BY <2>2 DEF FailFile, CompleteFile, CurrentIsMarked
        <3>2. \A f \in File : f # g => tracker'[f] = tracker[f]
            BY <2>2 DEF FailFile, CompleteFile, Recorded, TypeOK
        <3> QED
            BY <3>1, <3>2
    <2>3. CASE UNCHANGED tracker
        BY <2>3
    <2>4. \/ \E g \in File : Mark(g) \/ FailFile(g) \/ CompleteFile(g)
          \/ UNCHANGED tracker
        <3> HIDE DEF SyncInv
        <3> QED
            BY DEF Next, vars, EditFile, Trigger, Cancel, DiscardRevoked, RunStep, StartRun,
                   ListFolder, FileStep, PassOver, Fetch, RaiseForFile, Raise, IngestCreditNote, StoreInvoice,
                   InvoiceUnread, Judge, JudgeFails, AppendToExcel, EndStage, SelectInvoices,
                   Finish, Failure,
                   Abort, CrashWorker, Terminate
    <2> QED
        BY <2>1, <2>2, <2>3, <2>4
<1> QED
    BY <1>1, InvariantHolds, PTL DEF Spec, ProcessedFileIsLeftAlone
=============================================================================
