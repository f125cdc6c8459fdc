------------------------------- MODULE Workbook -------------------------------
(***************************************************************************)
(* The Excel workbook of a tenant: services/excel_sync.py appends the rows *)
(* of an invoice by loading the whole file, adding rows to the copy and    *)
(* saving it, under the lock file of services/excel_lockfile.py.           *)
(*                                                                         *)
(* A writer is an ExcelSyncService in a process.  Its lock file holds no   *)
(* owner; "lock" records who created it so that a leak can be told from a  *)
(* live lock.  Rows are (writer, call).  The module models the services,   *)
(* whose only caller, GoogleDriveSyncPipeline._append_to_excel, stops      *)
(* before it reaches append_batch.                                         *)
(***************************************************************************)
EXTENDS Naturals, Sequences

CONSTANTS
    Writers,
    NoWriter,     \* no lock file
    Calls,        \* bound: appends per writer
    PollLimit     \* timeout / poll_interval

ASSUME WorkbookConstants ==
    /\ NoWriter \notin Writers
    /\ Calls \in Nat /\ PollLimit \in Nat

VARIABLES
    file,     \* the rows of the workbook on disk
    intact,   \* FALSE: a save was cut off, load_workbook raises from then on
    lock,     \* the writer whose call created the lock file
    at,       \* "idle", "polling", "holding", "editing", "saving", "dead"
    copy,     \* the writer's copy of the rows
    polls,    \* failed attempts of the call
    call,     \* calls begun
    kept      \* rows whose append returned

workbookVars == <<file, intact, lock, at, copy, polls, call, kept>>

Row(w) == <<w, call[w]>>

WorkbookInit ==
    /\ file = <<>> /\ intact = TRUE
    /\ lock = NoWriter
    /\ at = [w \in Writers |-> "idle"]
    /\ copy = [w \in Writers |-> <<>>]
    /\ polls = [w \in Writers |-> 0]
    /\ call = [w \in Writers |-> 0]
    /\ kept = {}

Goto(w, place) == at' = [at EXCEPT ![w] = place]
-------------------------------------------------------------------------------
(* append_sales_item, append_purchase_item, append_batch with items.       *)
BeginAppend(w) ==
    /\ at[w] = "idle" /\ call[w] < Calls
    /\ Goto(w, "polling")
    /\ call' = [call EXCEPT ![w] = @ + 1]
    /\ UNCHANGED <<file, intact, lock, copy, polls, kept>>

(* acquire: O_CREAT | O_EXCL, also against the writer's own leaked lock.   *)

\* Mutant: the lock file is opened without O_EXCL.
LockOver(w) ==
    /\ at[w] = "polling"
    /\ lock' = w
    /\ polls' = [polls EXCEPT ![w] = 0]
    /\ Goto(w, "holding")
    /\ UNCHANGED <<file, intact, copy, call, kept>>

Lock(w) ==
    /\ at[w] = "polling" /\ lock = NoWriter
    /\ lock' = w
    /\ polls' = [polls EXCEPT ![w] = 0]
    /\ Goto(w, "holding")
    /\ UNCHANGED <<file, intact, copy, call, kept>>

\* Mutant: the loop polls without a timeout.
PollForever(w) ==
    /\ at[w] = "polling" /\ lock # NoWriter /\ polls[w] < PollLimit
    /\ polls' = [polls EXCEPT ![w] = (@ + 1) % PollLimit]
    /\ UNCHANGED <<file, intact, lock, at, copy, call, kept>>

Poll(w) ==
    /\ at[w] = "polling" /\ lock # NoWriter /\ polls[w] < PollLimit
    /\ polls' = [polls EXCEPT ![w] = @ + 1]
    /\ UNCHANGED <<file, intact, lock, at, copy, call, kept>>

(* FileLockError: the rows of this call are not written.                   *)
TimeOut(w) ==
    /\ at[w] = "polling" /\ lock # NoWriter /\ polls[w] = PollLimit
    /\ polls' = [polls EXCEPT ![w] = 0]
    /\ Goto(w, "idle")
    /\ UNCHANGED <<file, intact, lock, copy, call, kept>>

(* _get_workbook: load_workbook, or a new workbook with the header row.    *)
Load(w) ==
    /\ at[w] = "holding" /\ intact
    /\ copy' = [copy EXCEPT ![w] = file]
    /\ Goto(w, "editing")
    /\ UNCHANGED <<file, intact, lock, polls, call, kept>>

(* The load or row_for raises: nothing releases the lock, and the next     *)
(* call makes a new lock object.                                           *)
Leak(w) ==
    /\ at[w] \in {"holding", "editing"}
    /\ copy' = [copy EXCEPT ![w] = <<>>]
    /\ Goto(w, "idle")
    /\ UNCHANGED <<file, intact, lock, polls, call, kept>>

(* next_row = ws.max_row + 1 of the copy.                                  *)
AppendRow(w) ==
    /\ at[w] = "editing"
    /\ copy' = [copy EXCEPT ![w] = Append(@, Row(w))]
    /\ Goto(w, "saving")
    /\ UNCHANGED <<file, intact, lock, polls, call, kept>>

(* _safe_save: wb.save truncates the file and writes the copy; release     *)
(* removes whatever lock file is there, also when the save raises.         *)
CutOff == file' = <<>> /\ intact' = FALSE

Save(w) ==
    /\ at[w] = "saving"
    /\ \/ file' = copy[w] /\ kept' = kept \cup {Row(w)} /\ UNCHANGED intact
       \/ CutOff /\ UNCHANGED kept
       \/ UNCHANGED <<file, intact, kept>>
    /\ lock' = NoWriter
    /\ copy' = [copy EXCEPT ![w] = <<>>]
    /\ Goto(w, "idle")
    /\ UNCHANGED <<polls, call>>

(* The process dies; in the middle of a save the file is cut off.          *)
Die(w) ==
    /\ at[w] # "dead"
    /\ \/ at[w] = "saving" /\ CutOff
       \/ UNCHANGED <<file, intact>>
    /\ copy' = [copy EXCEPT ![w] = <<>>]
    /\ polls' = [polls EXCEPT ![w] = 0]
    /\ Goto(w, "dead")
    /\ UNCHANGED <<lock, call, kept>>

Restart(w) ==
    /\ at[w] = "dead"
    /\ Goto(w, "idle")
    /\ UNCHANGED <<file, intact, lock, copy, polls, call, kept>>

(* "Remove manually if process crashed": an operator, or                   *)
(* cleanup_stale_locks, whose age of 24 h only a leaked lock reaches when  *)
(* no writer is stopped for a day.                                         *)
LeakedLock ==
    /\ lock # NoWriter
    /\ at[lock] \notin {"holding", "editing", "saving"}

CleanUp ==
    /\ LeakedLock
    /\ lock' = NoWriter
    /\ UNCHANGED <<file, intact, at, copy, polls, call, kept>>

WriterStep(w) ==
    Lock(w) \/ Poll(w) \/ TimeOut(w) \/ Load(w) \/ Leak(w) \/ AppendRow(w) \/ Save(w)

WorkbookNext ==
    \/ \E w \in Writers : BeginAppend(w) \/ WriterStep(w) \/ Die(w) \/ Restart(w)
    \/ CleanUp

WorkbookSpec ==
    /\ WorkbookInit /\ [][WorkbookNext]_workbookVars
    /\ \A w \in Writers : WF_workbookVars(WriterStep(w))
-------------------------------------------------------------------------------
Holding(w) == at[w] \in {"holding", "editing", "saving"}

WorkbookTypeOK ==
    /\ intact \in BOOLEAN
    /\ lock \in Writers \cup {NoWriter}
    /\ at \in [Writers -> {"idle", "polling", "holding", "editing", "saving", "dead"}]
    /\ polls \in [Writers -> 0..PollLimit]
    /\ call \in [Writers -> 0..Calls]
    /\ kept \subseteq Writers \X (1..Calls)

(* An append that returned is not undone by the next writer, each of which *)
(* saves a copy of the whole file: whatever timeouts, leaks, deaths and    *)
(* clean-ups of leaked locks come between, all the rows reported as        *)
(* written stand in the file, once each - until a save is cut off, which   *)
(* loses the workbook as a whole.                                          *)
RowsAreKept ==
    /\ intact => \A row \in kept : \E i \in DOMAIN file : file[i] = row
    /\ \A i, j \in DOMAIN file : file[i] = file[j] => i = j

(* A leaked lock does not stop a writer for good: a call that began to     *)
(* poll gets the lock or raises FileLockError, unless its process dies.    *)
CallsReturn ==
    \A w \in Writers : at[w] = "polling" ~> at[w] # "polling"
===============================================================================
