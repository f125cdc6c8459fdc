----------------------------- MODULE SalesClose -----------------------------
(***************************************************************************)
(* The month's close of a tenant's sales.  The client's sheet and the PDFs *)
(* it does not list become stored lines (services/sheet_first_ingestion.py *)
(* on top of client_sheet_parser.py and credit_note_ingest.py).  A period  *)
(* review compares the stored lines with a client sheet, document by       *)
(* document (sales_reconciliation.py), leaves out what cannot be filed,    *)
(* splits the rest by GST registration (gstr1_filing.py) and builds the    *)
(* GSTR-1 of each (gstr1_generator.py).                                    *)
(*                                                                         *)
(* A document number is a prefix and a serial number, and possibly blanks  *)
(* around it; a line without one has NoNumber.  Amounts are integers, in   *)
(* the unit of ReconTolerance; rates are in hundredths of a per cent.      *)
(***************************************************************************)
EXTENDS Integers, Sequences, FiniteSets, Functions, Selection

CONSTANTS
    StoredSales,    \* lines that batches may have stored: sequences of lines
    Sheets,         \* client sheets: sequences of rows
    PdfSets,        \* the PDFs sent beside a sheet: sequences of PDFs
    NoNumber, NoGstin, NoHsn, NoState,
    FullGstins,     \* GSTINs of 15 characters
    StateOf,        \* the state a GSTIN begins with
    CreditPrefix,   \* "CR"
    Registration,   \* data/registration_maps: prefix -> GSTIN
    EnvState,       \* the state of FIRM_GSTIN, "06" without one
    GstRates,       \* _GST_RATES
    ReconTolerance, \* DEFAULT_TOLERANCE
    MaxStored       \* bound: rows stored before a further ingestion starts

VARIABLES
    phase,    \* "open", "storing", "reviewed"
    stored,   \* SalesLineItem rows of the tenant, as inserted
    sheet,    \* client_rows of the ingestion, or of the review
    plan,     \* lines of the groups that the ingestion has still to store
    gaps,     \* the gap files it has still to ingest
    whole,    \* TRUE when stored is what one full ingestion of sheet stored
    entries,  \* reconcile_period: document number -> status
    filings   \* generate_gstr1_filings: GSTIN -> the lines of its GSTR-1

closeVars == <<phase, stored, sheet, plan, gaps, whole, entries, filings>>

Unknown == "UNKNOWN_REGISTRATION"
Unspecified == "NOT SPECIFIED ON INVOICE"
Distance(a, b) == IF a < b THEN b - a ELSE a - b
Magnitude(a) == Distance(a, 0)
Total(f, S) == SumFunctionOnSet(f, S)
-----------------------------------------------------------------------------
Strip(no) == IF no = NoNumber THEN NoNumber ELSE [no EXCEPT !.blanks = FALSE]

(* What the lines, the rows of a sheet and the lines of PDFs have.  A line *)
(* can be of a note's category and no note: classify_gstr1_item looks for  *)
(* "credit" and "debit" in the particulars too.                            *)
HasAmounts(r) ==
    \A f \in {"taxable", "igst", "cgst", "sgst", "total"} : f \in DOMAIN r /\ r[f] \in Int
IsNumber(no) == no = NoNumber \/ Strip(no) # NoNumber
IsLine(l) ==
    /\ HasAmounts(l) /\ IsNumber(l.no)
    /\ {"no", "note", "cat", "party", "pos"} \subseteq DOMAIN l
    /\ l.note \in {"none", "credit", "debit"}
IsRow(r) ==
    /\ HasAmounts(r) /\ IsNumber(r.no) /\ {"no", "note", "sections"} \subseteq DOMAIN r
    /\ r.note \in {"none", "credit", "debit", "untyped"}
    /\ r.sections \in Seq(Range(r.sections))
    /\ \A s \in Range(r.sections) : s.amount \in Int

Elements(X) == UNION {Range(s) : s \in X}
ASSUME CloseConstants ==
    /\ ReconTolerance \in Nat /\ MaxStored \in Nat
    /\ GstRates \subseteq Nat /\ 0 \in GstRates
    /\ NoGstin \notin DOMAIN StateOf /\ FullGstins \subseteq DOMAIN StateOf
    /\ StoredSales \subseteq Seq(Elements(StoredSales))
    /\ Sheets \subseteq Seq(Elements(Sheets)) /\ PdfSets \subseteq Seq(Elements(PdfSets))
    /\ \A l \in Elements(StoredSales) : IsLine(l)
    /\ \A r \in Elements(Sheets) : IsRow(r)
    /\ \A p \in Elements(PdfSets) : IsLine(p.line)
-----------------------------------------------------------------------------
(* parse_client_sheet: rows with a number and a type, the number stripped. *)

Parse(raw) ==
    LET kept == Kept(raw, {i \in DOMAIN raw : raw[i].no # NoNumber /\ raw[i].note # "untyped"})
    IN  [i \in DOMAIN kept |-> [kept[i] EXCEPT !.no = Strip(@)]]

Nearest(a, b) == (2 * a + b) \div (2 * b)

\* Mutant: every bucket takes its rounded share, the last one too.
RoundedShares(tax, buckets) ==
    [i \in DOMAIN buckets |->
        Nearest(tax * buckets[i].amount,
                SumFunction([j \in DOMAIN buckets |-> buckets[j].amount]))]

(* sections_to_line_items: a bucket takes its share of each tax, and the   *)
(* last bucket what is left.                                               *)
Shares(tax, buckets) ==
    LET n   == Len(buckets)
        all == SumFunction([i \in 1..n |-> buckets[i].amount])
        share(i) == Nearest(tax * buckets[i].amount, all)
    IN  [i \in 1..n |->
            IF i < n THEN share(i)
            ELSE tax - SumFunction([j \in 1..n - 1 |-> share(j)])]

RowLine(row) ==
    [no |-> row.no, note |-> row.note, against |-> NoNumber, party |-> row.party,
     cat |-> "none", hsn |-> Unspecified, pos |-> row.pos, month |-> row.month,
     taxable |-> row.taxable, igst |-> row.igst, cgst |-> row.cgst,
     sgst |-> row.sgst, total |-> row.total]

(* build_line_items_from_sheet_row: one line per bucket with an amount, or *)
(* one line of the row's own totals.                                       *)
SheetLines(row) ==
    LET buckets == Kept(row.sections, {i \in DOMAIN row.sections : row.sections[i].amount > 0})
        igst == Shares(row.igst, buckets)
        cgst == Shares(row.cgst, buckets)
        sgst == Shares(row.sgst, buckets)
    IN  IF row.note # "none" \/ buckets = <<>> THEN <<RowLine(row)>>
        ELSE [i \in DOMAIN buckets |->
                 [RowLine(row) EXCEPT
                    !.hsn = buckets[i].hsn, !.taxable = buckets[i].amount,
                    !.igst = igst[i], !.cgst = cgst[i], !.sgst = sgst[i],
                    !.total = buckets[i].amount + igst[i] + cgst[i] + sgst[i]]]

(* A PDF is named for what the classifier takes it for; "text" says what   *)
(* its text holds: a credit note, an invoice, or nothing that can be read. *)
(* doc_no_from_pdf_text reads the number of either.                        *)
NotesOf(row, pdfs) ==
    {i \in DOMAIN pdfs : /\ pdfs[i].type = "credit_note"
                         /\ pdfs[i].text # "unreadable"
                         /\ pdfs[i].line.no = row.no}

(* A note takes its amounts from its own PDF, when there is one.           *)
GroupOf(row, pdfs) ==
    LET found == NotesOf(row, pdfs)
        pdf   == pdfs[Earliest(found)]
    IN  IF row.note # "none" /\ found # {} /\ pdf.text = "credit_note"
        THEN <<[pdf.line EXCEPT !.note = row.note, !.party = row.party, !.pos = row.pos]>>
        ELSE SheetLines(row)

GapFiles(rows, pdfs) ==
    Kept(pdfs, {n \in DOMAIN pdfs : \/ pdfs[n].text = "unreadable"
                                    \/ pdfs[n].line.no \notin {rows[i].no : i \in DOMAIN rows}})
-----------------------------------------------------------------------------
(* The two sides of a document, and their comparison.                      *)

Period(lines) == {i \in DOMAIN lines : lines[i].month}

\* The comparison drops the signs of the stored amounts.
OsRow(line) ==
    [note |-> IF line.note = "credit" THEN "credit" ELSE "none", party |-> line.party,
     taxable |-> Magnitude(line.taxable), igst |-> Magnitude(line.igst),
     cgst |-> Magnitude(line.cgst), sgst |-> Magnitude(line.sgst),
     total |-> Magnitude(line.total)]

Numbers(rows, S) == {rows[i].no : i \in S}
LastOf(rows, S, no) == rows[Latest({i \in S : rows[i].no = no})]

TaxType(r) == CASE r.igst > 0 -> "interstate"
                [] r.igst <= 0 /\ (r.cgst > 0 \/ r.sgst > 0) -> "intrastate"
                [] OTHER -> "none"

ReconcileDocument(os, client) ==
    LET Close(f) == Distance(os[f], client[f]) <= ReconTolerance
    IN  IF os.party = NoGstin THEN "UNVERIFIABLE_NO_GSTIN"
        ELSE IF \A f \in {"taxable", "igst", "cgst", "sgst", "total"} : Close(f) THEN "PASS"
        ELSE IF /\ "none" \notin {TaxType(os), TaxType(client)}
                /\ TaxType(os) # TaxType(client)
        THEN "CLIENT_SHEET_ERROR" ELSE "UNRESOLVED_CONFLICT"

(* reconcile_period: of several rows with one number the last is compared. *)
ReconcilePeriod(lines, rows) ==
    LET S == Period(lines)
        C == DOMAIN rows
    IN  [no \in Numbers(lines, S) \cup Numbers(rows, C) |->
            IF no \notin Numbers(lines, S) THEN "MISSING_SOURCE_PDF"
            ELSE IF no \notin Numbers(rows, C) THEN "CLIENT_MISSING"
            ELSE ReconcileDocument(OsRow(LastOf(lines, S, no)), LastOf(rows, C, no))]

(* compute_net_taxable_total: notes count against the total.               *)
NetTaxable(rows, S) ==
    Total([i \in S |-> IF rows[i].note = "none" THEN rows[i].taxable ELSE -rows[i].taxable], S)
-----------------------------------------------------------------------------
(* filter_items_for_filing, split_items_by_registration.                   *)

Excluded == {"MISSING_SOURCE_PDF", "UNVERIFIABLE_NO_GSTIN"}
IsSkipped(line, status) ==
    /\ line.no # NoNumber /\ Strip(line.no) \in DOMAIN status
    /\ status[Strip(line.no)] \in Excluded

(* A credit note goes where the invoice goes that it was made out against. *)
(* Blanks are taken for a part of the prefix, which is then of neither.    *)
Routed(line) ==
    LET bears(no, prefixes) == no # NoNumber /\ ~no.blanks /\ no.prefix \in prefixes
        no == IF bears(line.no, {CreditPrefix}) /\ line.against # NoNumber
              THEN line.against ELSE line.no
    IN  IF bears(no, DOMAIN Registration) THEN Registration[no.prefix] ELSE Unknown

Filings(lines, status) ==
    LET included == {i \in Period(lines) : ~IsSkipped(lines[i], status)}
    IN  [g \in {Routed(lines[i]) : i \in included} |-> {i \in included : Routed(lines[i]) = g}]
-----------------------------------------------------------------------------
(* gstr1_generator: the GSTR-1 of the lines S.                             *)

\* Mutant: credit notes alone are subtracted.
CreditSign(line) == IF line.note # "credit" THEN 1 ELSE -1

Sign(line) == IF line.note = "none" THEN 1 ELSE -1
Category(line) ==
    IF line.note # "none" THEN IF line.party \in FullGstins THEN "CDNR" ELSE "CDNUR"
    ELSE IF line.cat = "none" THEN "B2CS" ELSE line.cat

GroupKey(line) == [no |-> Strip(line.no), party |-> line.party, cat |-> Category(line)]
Groups(lines, S) == {GroupKey(lines[i]) : i \in S}
RowsOf(lines, S, key) == {i \in S : GroupKey(lines[i]) = key}

InvoiceTotals(lines, S) ==
    LET sum(f) == Total([i \in S |-> lines[i][f]], S)
        parts  == sum("taxable") + sum("cgst") + sum("sgst") + sum("igst")
    IN  [taxable |-> sum("taxable"), cgst |-> sum("cgst"), sgst |-> sum("sgst"),
         igst |-> sum("igst"), total |-> IF sum("total") = 0 THEN parts ELSE sum("total")]

(* The standard rate that is nearest to the tax on the taxable value, the  *)
(* lower one of two.                                                       *)
SnapRate(tax, taxable) ==
    LET off(r) == Distance(r * taxable, 10000 * tax)
    IN  IF taxable <= 0 \/ tax <= 0 THEN 0
        ELSE Earliest({r \in GstRates : \A q \in GstRates : off(r) <= off(q)})
Rate(t) == SnapRate(t.cgst + t.sgst + t.igst, t.taxable)

PosOfRow(line, firm) ==
    IF line.pos # NoState THEN line.pos
    ELSE IF line.party # NoGstin THEN StateOf[line.party] ELSE firm

(* The sections with one entry per document: b2b, b2cl, exp, cdnr, cdnur.  *)
(* b2cl leaves out CGST and SGST.                                          *)
Section(lines, S, cat) ==
    [key \in {k \in Groups(lines, S) : k.cat = cat} |->
        LET t == InvoiceTotals(lines, RowsOf(lines, S, key))
        IN  [t EXCEPT !.cgst = IF cat = "B2CL" THEN 0 ELSE @,
                      !.sgst = IF cat = "B2CL" THEN 0 ELSE @]]

(* b2cs: one entry per kind of supply, place and rate.                     *)
B2csKey(lines, S, key, firm) ==
    LET rows == RowsOf(lines, S, key)
        pos  == PosOfRow(lines[Earliest(rows)], firm)
    IN  [type |-> IF pos = firm THEN "INTRA" ELSE "INTER", pos |-> pos,
         rate |-> Rate(InvoiceTotals(lines, rows))]
B2cs(lines, S, firm) ==
    LET keys == {k \in Groups(lines, S) : k.cat = "B2CS"}
        amount == [k \in keys |-> InvoiceTotals(lines, RowsOf(lines, S, k)).taxable]
    IN  [b \in {B2csKey(lines, S, k, firm) : k \in keys} |->
            Total(amount, {k \in keys : B2csKey(lines, S, k, firm) = b})]

(* nil: by the category as stored, notes like invoices, and by the state   *)
(* of the environment's registration.                                      *)
NilCategories == {"NIL", "EXEMPT", "NIL_EXEMPT"}
Nil(lines, S) ==
    LET rows == {i \in S : lines[i].cat \in NilCategories}
        here == {i \in rows : PosOfRow(lines[i], EnvState) = EnvState}
        sum(R) == Total([i \in R |-> lines[i].taxable], R)
    IN  [intra |-> sum(here), inter |-> sum(rows \ here)]

(* hsn: one entry per code and rate; notes are subtracted.                 *)
HsnKey(line) ==
    [hsn |-> line.hsn,
     rate |-> SnapRate(Magnitude(line.cgst) + Magnitude(line.sgst) + Magnitude(line.igst),
                       Magnitude(line.taxable))]
Hsn(lines, S) ==
    LET rows == {i \in S : lines[i].hsn # NoHsn}
        value == [i \in rows |-> Sign(lines[i]) * lines[i].taxable]
    IN  [key \in {HsnKey(lines[i]) : i \in rows} |->
            Total(value, {i \in rows : HsnKey(lines[i]) = key})]

(* doc: the invoices and notes issued, where an entry of b2cs is one.      *)
DocSummary(lines, S, firm) ==
    LET count(cat) == Cardinality(DOMAIN Section(lines, S, cat))
    IN  [invoices |-> count("B2B") + count("B2CL") + count("EXP")
                      + Cardinality(DOMAIN B2cs(lines, S, firm)),
         notes    |-> count("CDNR") + count("CDNUR")]

(* build_gstr1_excel_rows: the sheets of the offline workbook.  Two are    *)
(* for HSN codes; none is for b2cl, exp, cdnur or nil.                     *)
DocumentRows(lines, S, cat) ==
    [key \in {k \in Groups(lines, S) : k.cat = cat} |->
        LET t == InvoiceTotals(lines, RowsOf(lines, S, key))
        IN  [taxable |-> t.taxable, value |-> t.total, rate |-> Rate(t)]]
B2bSheet(lines, S)  == DocumentRows(lines, S, "B2B")
CdnrSheet(lines, S) == DocumentRows(lines, S, "CDNR")
B2csSheet(lines, S, firm) ==       \* a row does not show the kind of supply
    LET keys == DOMAIN B2cs(lines, S, firm)
        shown(b) == [pos |-> b.pos, rate |-> b.rate]
    IN  [row \in {shown(b) : b \in keys} |->
            Total(B2cs(lines, S, firm), {b \in keys : shown(b) = row})]
HsnSheet(lines, S, registered) ==
    Hsn(lines, {i \in S : (Category(lines[i]) \in {"B2B", "CDNR"}) = registered})

(* docs: the numbers issued, by the kind of the line that bears one.       *)
DocsSheet(lines, S, kind) ==
    {Strip(lines[i].no) : i \in {j \in S : lines[j].note = kind /\ lines[j].no # NoNumber}}

TotalTaxable(lines, S) == Total([i \in S |-> Sign(lines[i]) * lines[i].taxable], S)
-----------------------------------------------------------------------------
CloseInit ==
    /\ phase = "open" /\ stored \in StoredSales
    /\ sheet = <<>> /\ plan = <<>> /\ gaps = <<>> /\ whole = FALSE
    /\ entries = <<>> /\ filings = <<>>

(* POST /api/sales/sheet-first-ingest: the plan, made before anything is   *)
(* stored.  Nothing asks whether the sheet was ingested before.            *)
SheetFirst(raw, pdfs) ==
    /\ phase \in {"open", "reviewed"} /\ Len(stored) <= MaxStored
    /\ phase' = "storing"
    /\ sheet' = Parse(raw)
    /\ plan' = [i \in DOMAIN sheet' |-> GroupOf(sheet'[i], pdfs)]
    /\ gaps' = GapFiles(sheet', pdfs)
    /\ whole' = (stored = <<>>)
    /\ entries' = <<>> /\ filings' = <<>>
    /\ UNCHANGED stored

(* store_sheet_first_plan: one commit per document of the sheet ...        *)
StoreDocument ==
    /\ phase = "storing" /\ plan # <<>>
    /\ stored' = stored \o Head(plan)
    /\ plan' = Tail(plan)
    /\ UNCHANGED <<phase, sheet, gaps, whole, entries, filings>>

(* resolve_gstin_for_tenant: the party of the invoice the note is against. *)
PartyOf(no) ==
    LET S == {i \in DOMAIN stored : stored[i].no = no /\ stored[i].party # NoGstin}
    IN  IF no = NoNumber \/ S = {} THEN NoGstin ELSE stored[Earliest(S)].party

(* ... then the gap files, one by one.  A note whose text is not a credit  *)
(* note is left out; the extraction of an invoice may fail.                *)
StoreGap ==
    /\ phase = "storing" /\ plan = <<>> /\ gaps # <<>>
    /\ LET pdf  == Head(gaps)
           note == [pdf.line EXCEPT !.note = "credit", !.party = PartyOf(pdf.line.against)]
       IN  /\ pdf.type = "credit_note" => pdf.text # "unreadable"
           /\ stored' \in IF pdf.type = "invoice"
                          THEN {stored, Append(stored, pdf.line)}
                          ELSE {IF pdf.text = "credit_note" THEN Append(stored, note) ELSE stored}
           /\ whole' = (whole /\ stored' # stored)
    /\ gaps' = Tail(gaps)
    /\ UNCHANGED <<phase, sheet, plan, entries, filings>>

EndIngestion ==
    /\ phase = "storing" /\ plan = <<>> /\ gaps = <<>>
    /\ phase' = "open"
    /\ UNCHANGED <<stored, sheet, plan, gaps, whole, entries, filings>>

(* The process dies, or a credit note's PDF cannot be opened: what was     *)
(* committed stays.                                                        *)
AbortIngestion ==
    /\ phase = "storing"
    /\ phase' = "open"
    /\ plan' = <<>> /\ gaps' = <<>> /\ whole' = FALSE
    /\ UNCHANGED <<stored, sheet, entries, filings>>

(* generate_period_review_for_tenant.  Sorting the numbers fails when one  *)
(* of several documents has none; then there is no review.                 *)
GenerateReview(raw) ==
    LET rows == Parse(raw)
        status == ReconcilePeriod(stored, rows)
    IN  /\ phase = "open"
        /\ NoNumber \in DOMAIN status => Cardinality(DOMAIN status) = 1
        /\ phase' = "reviewed"
        /\ sheet' = rows
        /\ entries' = status
        /\ filings' = Filings(stored, status)
        /\ whole' = (whole /\ rows = sheet)
        /\ UNCHANGED <<stored, plan, gaps>>

(* build_recon_summary and reconcile_period_totals: what a reviewer sees.  *)
NeedsAttention == {no \in DOMAIN entries : entries[no] # "PASS"}

(* find_duplicate_doc_nos, on either side: lines of one document in        *)
(* several buckets count as duplicates.                                    *)
Repeated(rows, S) ==
    {rows[i].no : i \in {j \in S : /\ rows[j].no # NoNumber
                                  /\ \E k \in S \ {j} : rows[k].no = rows[j].no}}
Duplicates == Repeated(stored, Period(stored)) \cup Repeated(sheet, DOMAIN sheet)

\* Mutant: the total of the filings includes the unregistered bucket.
AllFilings == UNION {filings[g] : g \in DOMAIN filings}

Filed == UNION {filings[g] : g \in DOMAIN filings \ {Unknown}}
TotalsMatch ==
    LET os == NetTaxable([i \in DOMAIN stored |-> OsRow(stored[i])], Period(stored))
    IN  /\ Distance(os, NetTaxable(sheet, DOMAIN sheet)) <= ReconTolerance
        /\ Distance(os, TotalTaxable(stored, Filed)) <= ReconTolerance

CloseNext ==
    \/ /\ phase # "storing"
       /\ \E raw \in Sheets :
             \/ \E pdfs \in PdfSets : SheetFirst(raw, pdfs)
             \/ GenerateReview(raw)
    \/ StoreDocument
    \/ StoreGap
    \/ EndIngestion
    \/ AbortIngestion

CloseSpec == CloseInit /\ [][CloseNext]_closeVars
-----------------------------------------------------------------------------
(* Properties.                                                             *)

Block(k) ==
    LET size(j) == IF j = 0 THEN 0 ELSE Len(SheetLines(sheet[j]))
        before  == SumFunction([j \in 0..k - 1 |-> size(j)])
    IN  before + 1..before + size(k)

(* What one full ingestion of a sheet stored and a review against the same *)
(* sheet file: the lines of a row carry the row's taxes to the last paisa, *)
(* and together they are in the filing of the registration that the number *)
(* names and in no other; a row of another month is in none, and so is one *)
(* whose number the last line bears without a buyer's GSTIN, its own or    *)
(* another row's, which the reviewer is told of.                           *)
SheetIsFiled ==
    phase = "reviewed" /\ whole => \A k \in DOMAIN sheet :
        LET B      == Block(k)
            line   == stored[Earliest(B)]
            keys   == {g \in DOMAIN filings : B \cap filings[g] # {}}
            sum(f) == Total([i \in B |-> stored[i][f]], B)
        IN  /\ sheet[k].note = "none" => \A f \in {"igst", "cgst", "sgst"} : sum(f) = sheet[k][f]
            /\ \/ keys = {Routed(line)} /\ B \subseteq filings[Routed(line)]
               \/ keys = {} /\ ~line.month
               \/ /\ keys = {} /\ line.no \in NeedsAttention
                  /\ LastOf(stored, Period(stored), line.no).party = NoGstin

(* The sections of a GSTR-1 add up to the total in its summary, notes      *)
(* subtracted.  The exceptions: lines of a category no section is built    *)
(* for are in the total only, a note of a nil-rated category stands in two *)
(* sections, and a sale that the classifier mistook for a note is added to *)
(* the total and stands among the notes.  The workbook agrees with the     *)
(* JSON: the sheets for codes, invoices and notes have its amounts, and    *)
(* the documents sheet has the numbers of its sections; the JSON's own     *)
(* count takes an entry of b2cs, which may stand for several invoices, for *)
(* one.                                                                    *)
Placed == {"B2B", "B2CL", "EXP", "CDNR", "CDNUR", "B2CS"} \cup NilCategories
Mistaken(S) == {i \in S : /\ stored[i].note = "none"
                          /\ Category(stored[i]) \in {"CDNR", "CDNUR"}}

SectionsAddUp(S, firm) ==
    LET worth(R)   == Total([i \in R |-> stored[i].taxable], R)
        section(c) == LET s == Section(stored, S, c)
                      IN  SumFunction([k \in DOMAIN s |-> s[k].taxable])
        nil == Nil(stored, S)
        outside == {i \in S : Category(stored[i]) \notin Placed}
        twice   == {i \in S : stored[i].note # "none" /\ stored[i].cat \in NilCategories}
    IN  TotalTaxable(stored, S) + worth(twice) - worth(outside) - 2 * worth(Mistaken(S)) =
            section("B2B") + section("B2CL") + section("EXP")
            + SumFunction(B2cs(stored, S, firm)) + nil.intra + nil.inter
            - section("CDNR") - section("CDNUR")

WorkbookAgrees(S, firm) ==
    LET hsn == Hsn(stored, S)
        sheets == <<HsnSheet(stored, S, TRUE), HsnSheet(stored, S, FALSE)>>
        in(s, k) == IF k \in DOMAIN s THEN s[k] ELSE 0
        amounts(s) == SumFunction([k \in DOMAIN s |-> s[k].taxable])
        notes == {k \in Groups(stored, S) : k.cat \in {"CDNR", "CDNUR"}}
        numbers(K) == {k.no : k \in K} \ {NoNumber}
        strays == DocsSheet(stored, Mistaken(S), "none")
        doc == DocSummary(stored, S, firm)
    IN  /\ DOMAIN hsn = DOMAIN sheets[1] \cup DOMAIN sheets[2]
        /\ \A k \in DOMAIN hsn : hsn[k] = in(sheets[1], k) + in(sheets[2], k)
        /\ amounts(B2bSheet(stored, S)) = amounts(Section(stored, S, "B2B"))
        /\ amounts(CdnrSheet(stored, S)) = amounts(Section(stored, S, "CDNR"))
        /\ Cardinality(DOMAIN B2csSheet(stored, S, firm)) =
               Cardinality(DOMAIN B2cs(stored, S, firm))
        /\ numbers(notes) =
               DocsSheet(stored, S, "credit") \cup DocsSheet(stored, S, "debit") \cup strays
        /\ numbers(Groups(stored, S) \ notes) \cup strays = DocsSheet(stored, S, "none")
        /\ doc.notes = Cardinality(notes)
        /\ doc.invoices <= Cardinality(Groups(stored, S) \ notes)

SectionsCarryTheTotal ==
    \A g \in DOMAIN filings \ {Unknown} :
        SectionsAddUp(filings[g], StateOf[g]) /\ WorkbookAgrees(filings[g], StateOf[g])

(* A review with nothing to attend to and matching totals leaves no sales  *)
(* out of the filings: what is under UNKNOWN_REGISTRATION nets to no more  *)
(* than the tolerance.  Debit notes and lines stored with a negative value *)
(* are excepted: they count one way for the total of the books and the     *)
(* other way for that of the filing, and can offset it.  When it flags no  *)
(* duplicates either, everything it files was compared: a number's last    *)
(* line alone is, but then the number has no other.  The comparison is of  *)
(* magnitudes, so a line of the wrong sign is filed with that sign.        *)
CountsAsFiled(line) == line.note # "debit" /\ line.taxable >= 0
CleanReviewIsComplete ==
    phase = "reviewed" /\ NeedsAttention = {} =>
        /\ TotalsMatch /\ (\A i \in Period(stored) : CountsAsFiled(stored[i]))
           => \/ Unknown \notin DOMAIN filings
              \/ Magnitude(TotalTaxable(stored, filings[Unknown])) <= ReconTolerance
        /\ Duplicates = {} => \A i \in Filed : \E k \in DOMAIN sheet :
              /\ sheet[k].no = stored[i].no
              /\ \A f \in {"taxable", "igst", "cgst", "sgst", "total"} :
                    Distance(Magnitude(stored[i][f]), sheet[k][f]) <= ReconTolerance
=============================================================================
