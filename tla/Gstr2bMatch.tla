----------------------------- MODULE Gstr2bMatch -----------------------------
(***************************************************************************)
(* services/gstr2b_reconciler.py: the invoices in the books of a tenant    *)
(* against the GSTR-2B statement of one registration.  Lines of the books  *)
(* are grouped by (GSTIN, invoice number); a group takes the 2B record of  *)
(* its own key (exact pass), or, when there is none, one of the records    *)
(* that the exact pass left whose number is plausibly the same and whose   *)
(* total is within the tolerance (fuzzy pass).  The rows of the result     *)
(* then get the columns of services/gstr2b_excel_export.py.                *)
(*                                                                         *)
(* GSTINs and invoice numbers are sequences of characters; letters are     *)
(* upper case already.  Amounts are integers, in the unit of Tolerance.    *)
(***************************************************************************)
EXTENDS Integers, Sequences, FiniteSets, Functions

CONSTANTS
    Books,      \* the books that may be reconciled: sequences of lines
    Statements, \* the 2B statements: sequences of invoices as downloaded
    Char,       \* the characters of GSTINs and invoice numbers
    AlphaNum,   \* those that normalisation keeps
    Zero,       \* the character "0"
    Tolerance,  \* AMOUNT_TOLERANCE
    MinOverlap  \* _FUZZY_MIN_OVERLAP

Line    == [gst : Seq(Char), inv : Seq(Char), taxable : Int, tax : Int, total : Int]
Invoice == [ctin : Seq(Char), inum : Seq(Char), taxable : Int, tax : Int, val : Int]

ASSUME MatchConstants ==
    /\ Tolerance \in Nat /\ MinOverlap \in Nat
    /\ AlphaNum \subseteq Char /\ Zero \in AlphaNum
    /\ Books \subseteq Seq(Line) /\ Statements \subseteq Seq(Invoice)

VARIABLES
    stage,      \* "idle", "exact", "fuzzy", "done"; "annotated" for an export
    books,      \* the lines of the books, normalised
    statement,  \* the records of the parsed statement
    total,      \* the aggregated invoices: first line -> sum of the lines
    todo,       \* the invoices that the running pass has still to take
    used,       \* used_2b_keys of the exact pass
    remaining,  \* remaining_2b, as positions in statement
    claim,      \* the record an invoice was matched with, 0 when none
    drive       \* column "In Drive?" of the extra rows

matchVars == <<stage, books, statement, total, todo, used, remaining, claim, drive>>
-----------------------------------------------------------------------------
(* Parsing and aggregation.                                                *)

Normalize(s) == SelectSeq(s, LAMBDA c : c \in AlphaNum)
Abs(n) == IF n < 0 THEN -n ELSE n

(* A total of zero is a missing one: it is taken from the other amounts.   *)
Record(raw) ==
    [key    |-> [gstin |-> Normalize(raw.ctin), inv |-> Normalize(raw.inum)],
     amount |-> IF raw.val # 0 THEN raw.val ELSE raw.taxable + raw.tax]

(* parse_gstr2b: the statement as a list, less invoices without a number.  *)
Parsed(raw) ==
    LET kept == SelectSeq(raw, LAMBDA r : r.inum # <<>>)
    IN  [i \in DOMAIN kept |-> Record(kept[i])]

Item(line) ==
    [key    |-> [gstin |-> Normalize(line.gst), inv |-> Normalize(line.inv)],
     amount |-> IF line.total # 0 THEN line.total ELSE line.taxable + line.tax]

\* Mutant: the amounts of a further line of an invoice are not added.
FirstLineOf(b, i) == {i}

(* The lines of one key are one invoice, which stands at its first line.   *)
LinesOf(b, i) == {j \in DOMAIN b : b[j].key = b[i].key}
Invoices(b) == {i \in DOMAIN b : \A j \in 1..i - 1 : b[j].key # b[i].key}
Amount(b, rows) == SumFunctionOnSet([i \in DOMAIN b |-> b[i].amount], rows)

IsFirst(n, S) == n \in S /\ \A m \in S : n <= m
RecordsOf(i) == {r \in DOMAIN statement : statement[r].key = books[i].key}
WithinTolerance(i, r) == Abs(total[i] - statement[r].amount) <= Tolerance
-----------------------------------------------------------------------------
(* _fuzzy_invoice_match: one number contains the other, both being long    *)
(* enough, or they are the same but for leading zeros.                     *)

Within(a, b) == \E i \in 0..Len(b) - Len(a) : SubSeq(b, i + 1, i + Len(a)) = a
SameButZeros(a, b) ==
    \E i \in 0..Len(a) - 1, j \in 0..Len(b) - 1 :
        /\ \A n \in 1..i : a[n] = Zero
        /\ \A n \in 1..j : b[n] = Zero
        /\ a[i + 1] # Zero
        /\ SubSeq(a, i + 1, Len(a)) = SubSeq(b, j + 1, Len(b))

FuzzyMatch(a, b) ==
    /\ a # b
    /\ \/ /\ Len(a) >= MinOverlap /\ Len(b) >= MinOverlap
          /\ Within(a, b) \/ Within(b, a)
       \/ SameButZeros(a, b)

\* Mutant: a record stays in the pool when it has been given to an invoice.
AnyRecord(i) ==
    {r \in DOMAIN statement : /\ statement[r].key.gstin = books[i].key.gstin
                              /\ FuzzyMatch(books[i].key.inv, statement[r].key.inv)
                              /\ WithinTolerance(i, r)}

Candidates(i) ==
    {r \in remaining : /\ statement[r].key.gstin = books[i].key.gstin
                       /\ FuzzyMatch(books[i].key.inv, statement[r].key.inv)
                       /\ WithinTolerance(i, r)}
-----------------------------------------------------------------------------
MatchInit ==
    /\ stage = "idle"
    /\ books = <<>> /\ statement = <<>> /\ total = <<>>
    /\ todo = {} /\ used = {} /\ remaining = {}
    /\ claim = <<>> /\ drive = <<>>

Start(b, records) ==
    /\ stage = "idle"
    /\ stage' = "exact"
    /\ books' = b
    /\ statement' = records
    /\ total' = [i \in Invoices(b) |-> Amount(b, LinesOf(b, i))]
    /\ todo' = Invoices(b)
    /\ claim' = [i \in Invoices(b) |-> 0]
    /\ UNCHANGED <<used, remaining, drive>>

Items(b) == [i \in DOMAIN b |-> Item(b[i])]

(* POST /api/reconcile refuses a statement without records, the endpoints  *)
(* of a batch one without purchase lines too; a review, and POST           *)
(* /api/reconcile/export, take what there is.                              *)
ReconcileRequest(b, raw) == Parsed(raw) # <<>> /\ Start(Items(b), Parsed(raw))
ReconcileBatch(b, raw) == b # <<>> /\ ReconcileRequest(b, raw)
ReconcileReview(b, raw) == Start(Items(b), Parsed(raw))

(* Exact pass.  Of several records with one key the first is looked up.    *)
MatchExactly ==
    /\ stage = "exact"
    /\ \E i \in todo :
          /\ IsFirst(i, todo)
          /\ todo' = todo \ {i}
          /\ \/ /\ \E r \in RecordsOf(i) :
                       /\ IsFirst(r, RecordsOf(i))
                       /\ claim' = [claim EXCEPT ![i] = r]
                /\ used' = used \cup {books[i].key}
             \/ RecordsOf(i) = {} /\ UNCHANGED <<claim, used>>
    /\ UNCHANGED <<stage, books, statement, total, remaining, drive>>

BeginFuzzyPass ==
    /\ stage = "exact" /\ todo = {}
    /\ stage' = "fuzzy"
    /\ remaining' = {r \in DOMAIN statement : statement[r].key \notin used}
    /\ todo' = {i \in DOMAIN claim : claim[i] = 0}
    /\ UNCHANGED <<books, statement, total, used, claim, drive>>

MatchFuzzily ==
    /\ stage = "fuzzy"
    /\ \E i \in todo :
          /\ IsFirst(i, todo)
          /\ todo' = todo \ {i}
          /\ \/ \E r \in Candidates(i) :
                   /\ IsFirst(r, Candidates(i))
                   /\ claim' = [claim EXCEPT ![i] = r]
                   /\ remaining' = remaining \ {r}
             \/ Candidates(i) = {} /\ UNCHANGED <<claim, remaining>>
    /\ UNCHANGED <<stage, books, statement, total, used, drive>>

(* reconcile returns; its extra rows are what remains of the statement.    *)
EndPasses ==
    /\ stage = "fuzzy" /\ todo = {}
    /\ stage' = "done"
    /\ UNCHANGED <<books, statement, total, todo, used, remaining, claim, drive>>
-----------------------------------------------------------------------------
(* The result: every line of an invoice has the status of the invoice.     *)

RowStatus(l) ==
    LET i == CHOOSE j \in DOMAIN claim : books[j].key = books[l].key
    IN  IF claim[i] = 0 THEN "missing_in_2b"
        ELSE IF WithinTolerance(i, claim[i]) THEN "matched" ELSE "mismatch"

BookRows(status) == {l \in DOMAIN books : RowStatus(l) = status}

(* _build_summary.  A row counts with its line's amount, or its record's   *)
(* when that is zero; Rule 36(4) compares the total claimed with 105 % of  *)
(* what is matched.                                                        *)
Counted(l) ==
    LET i == CHOOSE j \in DOMAIN claim : books[j].key = books[l].key
    IN  IF books[l].amount = 0 /\ claim[i] # 0 THEN statement[claim[i]].amount
        ELSE books[l].amount

Summary ==
    LET worth(status) == SumFunctionOnSet([l \in DOMAIN books |-> Counted(l)], BookRows(status))
        matched == worth("matched")
        atRisk  == worth("missing_in_2b") + worth("mismatch")
    IN  [matched   |-> matched,
         atRisk    |-> atRisk,
         totalRows |-> Len(books) + Cardinality(remaining),
         counts    |-> [s \in {"matched", "mismatch", "missing_in_2b"} |->
                           Cardinality(BookRows(s))],
         breached  |-> 100 * (matched + atRisk) > 105 * matched]

(* verify_gap_row_in_drive: a document is looked for by both fields only.  *)
(* The column stays blank when there is no check or the check failed.      *)
Verdicts(r) ==
    IF <<>> \in {statement[r].key.gstin, statement[r].key.inv}
    THEN {"No", "blank"} ELSE {"Yes", "No", "blank"}

Annotate ==
    /\ stage = "done"
    /\ stage' = "annotated"
    /\ drive' \in {found \in [remaining -> {"Yes", "No", "blank"}] :
                      \A r \in remaining : found[r] \in Verdicts(r)}
    /\ UNCHANGED <<books, statement, total, todo, used, remaining, claim>>

(* annotate_recon_result: who is asked about a row.                        *)
ExtraAction(r) == IF drive[r] = "No" THEN "client" ELSE "none"
BooksAction(l) ==
    CASE RowStatus(l) = "mismatch"      -> "accountant"
      [] RowStatus(l) = "missing_in_2b" -> "vendor"
      [] RowStatus(l) = "matched"       -> "none"

MatchNext ==
    \/ /\ stage = "idle"
       /\ \E b \in Books, raw \in Statements :
             \/ ReconcileRequest(b, raw)
             \/ ReconcileBatch(b, raw)
             \/ ReconcileReview(b, raw)
    \/ MatchExactly
    \/ BeginFuzzyPass
    \/ MatchFuzzily
    \/ EndPasses
    \/ Annotate

MatchSpec == MatchInit /\ [][MatchNext]_matchVars
-----------------------------------------------------------------------------
(* Properties.                                                             *)

(* A 2B invoice proves at most one invoice of the books: no two invoices   *)
(* share a record, and a record whose own key an invoice was matched by is *)
(* not given to another invoice for a plausible number.                    *)
ClaimsAreExclusive ==
    \A i, j \in DOMAIN claim :
        claim[i] # 0 /\ i # j =>
            /\ claim[i] # claim[j]
            /\ claim[j] # 0 => statement[claim[i]].key # books[j].key

(* Nothing is lost between the two lists: when reconcile returns, a record *)
(* of the statement is matched, or is an extra row, or repeats the key of  *)
(* a record that was matched by its key, and only one of these.  The ITC   *)
(* of the summary, matched and at risk, is the total of the invoices,      *)
(* unless a line of the books has no amount of its own.                    *)
NothingUnaccounted ==
    stage \in {"done", "annotated"} =>
        /\ \A r \in DOMAIN statement :
              LET claimed == \E i \in DOMAIN claim : claim[i] = r
                  repeat  == \E i \in DOMAIN claim : /\ claim[i] \in 1..r - 1
                                                   /\ statement[r].key = books[i].key
                                                   /\ statement[r].key = statement[claim[i]].key
              IN  /\ r \in remaining <=> ~claimed /\ ~repeat
                  /\ ~(claimed /\ repeat)
        /\ (\A l \in DOMAIN books : books[l].amount # 0) =>
              Summary.matched + Summary.atRisk = SumFunction(total)
        /\ Summary.totalRows = SumFunction(Summary.counts) + Cardinality(remaining)
==============================================================================
