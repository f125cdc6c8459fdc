--------------------------- MODULE InvoicePipeline ---------------------------
(***************************************************************************)
(* What becomes of one invoice between the model's answer and the stored   *)
(* rows: invoice_processor.process_pdf (corrections by the reconciliation  *)
(* engine, override by the printed GST table, rows from the template's     *)
(* sections or the cleaned-up rows of the model), and the verdicts that    *)
(* async_tasks.process_single_task stores with the rows.  A row of an      *)
(* ERP_READY invoice may then become a voucher (tally_connector.py).       *)
(*                                                                         *)
(* Amounts are in paise, so rounding to two places is rounding to an       *)
(* integer (halves up); rates are in hundredths of a per cent, which is    *)
(* also what a rate of "18.0" in the field of a unit price amounts to.     *)
(***************************************************************************)
EXTENDS Integers, Sequences, Functions, Selection

CONSTANTS
    Papers,     \* the PDFs: what the patterns find in their text
    Answers,    \* what the model may extract: [sums, sales, purchases]
    Findings,   \* what the follow-up call may return: sequences of lines
    Absent,     \* a value that is not printed
    B2clLimit   \* 250000 rupees, in paise

Amounts == {"taxable", "cgst", "sgst", "igst", "total"}
IsItem(l) ==
    \A f \in Amounts \cup {"qty", "rate", "discount", "advances"} : f \in DOMAIN l /\ l[f] \in Int
IsItems(s) == s \in Seq(Range(s)) /\ \A l \in Range(s) : IsItem(l)

(* SuvitPurchaseItem has neither field; the engine takes both for 0.       *)
IsPurchase(l) == l.discount = 0 /\ l.advances = 0

(* The patterns read a sign in front of the rounding off only.             *)
IsPaper(p) ==
    /\ p.rows \in Seq(Range(p.rows)) /\ p.sections \in Seq(Nat)
    /\ \A r \in Range(p.rows) :
          \A f \in {"taxable", "cgst", "sgst", "igst", "cgstRate", "sgstRate", "igstRate"} : r[f] \in Nat
    /\ {p.finalTotal, p.netCost, p.totalCost} \subseteq Nat \cup {Absent}
    /\ p.roundOff \in Int \cup {Absent}


ASSUME InvoiceConstants ==
    /\ B2clLimit \in Int
    /\ \A p \in Papers : IsPaper(p)
    /\ \A a \in Answers :
          /\ IsItems(a.sales) /\ IsItems(a.purchases)
          /\ \A l \in Range(a.purchases) : IsPurchase(l)
          /\ \A f \in Amounts \cup {"round", "advance"} : a.sums[f] \in Int
    /\ \A found \in Findings : IsItems(found)

Rupee == 100
TOLERANCE_INR == Rupee
Slabs == {500, 1200, 1800, 2800}

VARIABLES
    work,       \* the stage the invoice has reached
    paper,      \* the PDF
    sums,       \* overall_*
    sales, purchases,   \* the items, in the end the rows
    template,   \* used_deterministic_line_items
    shortfall,  \* diff: the gap that the follow-up call was asked to close
    verdict,    \* recon_status
    validation, \* validation_status
    voucher     \* the row and the legs of the voucher sent to TallyPrime

invoiceVars ==
    <<work, paper, sums, sales, purchases, template, shortfall, verdict, validation, voucher>>

Gap(a, b) == IF a < b THEN b - a ELSE a - b
Larger(a, b) == IF a < b THEN b ELSE a
Rounded(a, b) == (2 * a + b) \div (2 * b)
Percent(amount, rate) == Rounded(amount * rate, 10000)
Sum(lines, f) == SumFunction([i \in DOMAIN lines |-> lines[i][f]])
Each(lines, F(_)) == [i \in DOMAIN lines |-> F(lines[i])]
Taxes(r) == r.cgst + r.sgst + r.igst
NoSums == [taxable |-> 0, cgst |-> 0, sgst |-> 0, igst |-> 0, round |-> 0,
           advance |-> 0, total |-> 0]
------------------------------------------------------------------------------
(* core/reconciliation: the engine's levels, for the summary s.            *)

\* Mutant: level 1 looks at the taxable value alone.
TaxableAddsUp(l) ==
    l.qty > 0 /\ l.rate > 0 /\ l.rate \notin Slabs =>
        Gap(Larger(0, l.qty * l.rate - l.discount), l.taxable) <= TOLERANCE_INR

(* Level 1.  A rate that is a GST slab is taken for no unit price.         *)
LineAddsUp(l) ==
    /\ l.qty > 0 /\ l.rate > 0 /\ l.rate \notin Slabs =>
           Gap(Larger(0, l.qty * l.rate - l.discount), l.taxable) <= TOLERANCE_INR
    /\ Gap(l.taxable + Taxes(l), l.total) <= TOLERANCE_INR
LinesAddUp(lines) == \A i \in DOMAIN lines : LineAddsUp(lines[i])

(* Level 2: the lines against the summary, gross or net of discounts, and  *)
(* the summary against its total.                                          *)
TaxableAgrees(s, lines) ==
    \E d \in {0, Sum(lines, "discount")} :
        Gap(s.taxable, Sum(lines, "taxable") - d) <= TOLERANCE_INR
SummaryAddsUp(s) == Gap(s.taxable + Taxes(s) + s.round, s.total) <= TOLERANCE_INR

(* Level 3: supplier and buyer are never both known to the engine, so the  *)
(* comparison of their states does not apply.                              *)
OneKindOfTax(s) == ~(s.igst > 0 /\ (s.cgst > 0 \/ s.sgst > 0))

(* The master equation: the lines alone against the grand total.           *)
LinesTotal(lines) ==
    SumFunction(Each(lines, LAMBDA l : l.taxable + Taxes(l) - l.discount - l.advances))
MasterEquation(s, lines) == Gap(LinesTotal(lines), s.total) <= TOLERANCE_INR

Status(s, lines) ==
    IF ~ (TaxableAgrees(s, lines) /\ SummaryAddsUp(s)) /\ ~ MasterEquation(s, lines)
    THEN "BLOCKED"
    ELSE IF LinesAddUp(lines) /\ OneKindOfTax(s) THEN "ERP_READY" ELSE "NEEDS_REVIEW"

(* map_gemini_to_canonical: a taxable value that is still gross.           *)
Mapped(l) ==
    LET gross == l.qty * l.rate
    IN  [l EXCEPT !.taxable =
            IF l.discount > 0 /\ Gap(l.taxable, gross) < Rupee THEN gross - l.discount
            ELSE IF l.taxable > 0 THEN l.taxable ELSE Larger(gross - l.discount, 0)]

(* compute_canonical_values: two fields may be taken from the lines.       *)
CanonicalSums(s, items) ==
    LET lines == Each(items, Mapped)
        sound == lines # <<>> /\ LinesAddUp(lines)
        Promoted(own, calculated) ==
            IF sound /\ Gap(own, calculated) > TOLERANCE_INR THEN calculated ELSE own
    IN  [s EXCEPT !.taxable = Promoted(@, Sum(lines, "taxable")),
                  !.total   = Promoted(@, LinesTotal(lines))]
------------------------------------------------------------------------------
(* _extract_gst_summary_table: the printed table, its rows added up; the   *)
(* rates are those of its first row.                                       *)

Column(p, f) == IF p.rows = <<>> THEN Absent ELSE Sum(p.rows, f)
Advance(p) ==
    LET final == IF p.finalTotal # Absent THEN p.finalTotal ELSE Column(p, "taxable")
    IN  IF Absent \in {p.netCost, final} THEN Absent
        ELSE IF p.netCost - final > Rupee \div 2 THEN p.netCost - final ELSE Absent
HasTable(p) ==
    p.rows # <<>> \/ {p.finalTotal, p.netCost, p.totalCost, p.roundOff} # {Absent}
PrintedRate(p, f) == IF p.rows = <<>> THEN 0 ELSE p.rows[1][f]

Override(p, s) ==
    LET Printed(value, own) == IF value = Absent THEN own ELSE value
        Positive(value, own) ==
            IF value = Absent THEN own ELSE IF value > 0 THEN value ELSE own
    IN  [taxable |-> Positive(Column(p, "taxable"), s.taxable),
         cgst    |-> Printed(Column(p, "cgst"), s.cgst),
         sgst    |-> Printed(Column(p, "sgst"), s.sgst),
         igst    |-> Printed(Column(p, "igst"), s.igst),
         round   |-> Printed(p.roundOff, s.round),
         advance |-> Printed(Advance(p), s.advance),
         total   |-> Positive(p.totalCost, s.total)]
------------------------------------------------------------------------------
(* extract_deterministic_line_items: one row per section of the template.  *)

Before(amounts, i) ==
    {j \in DOMAIN amounts : \/ amounts[j] > amounts[i]
                            \/ amounts[j] = amounts[i] /\ j < i}

\* Mutant: the largest section bears the whole advance, as far as it goes.
LargestBears(amounts, total) ==
    LET gap == SumFunction(amounts) - total
    IN  [i \in DOMAIN amounts |->
            IF gap > 1 /\ Before(amounts, i) = {} THEN Larger(0, amounts[i] - gap)
            ELSE amounts[i]]

(* An advance is taken off the largest section first, then off the next.   *)
(* A negative gap, sections that do not reach the total, is left.          *)
NetOfAdvance(amounts, total) ==
    LET gap == SumFunction(amounts) - total
        left(i) == Larger(0, gap - SumFunctionOnSet(amounts, Before(amounts, i)))
    IN  [i \in DOMAIN amounts |->
            IF gap <= 1 THEN amounts[i] ELSE Larger(0, amounts[i] - left(i))]

(* The last row takes what is left of a tax on the invoice's total.        *)

\* Mutant: every row takes the rounded share, the last one too.
ShareOfEach(amounts, total, rate, i) == Percent(amounts[i], rate)

ShareOfTax(amounts, total, rate, i) ==
    IF i < Len(amounts) THEN Percent(amounts[i], rate)
    ELSE Percent(total, rate)
         - SumFunction([j \in 1..Len(amounts) - 1 |-> Percent(amounts[j], rate)])

TemplateRow(p, amount, tax) ==
    [subtotal |-> FALSE, qty |-> 0, rate |-> 0, discount |-> 0, advances |-> 0,
     taxable |-> amount, cgst |-> tax.cgst, sgst |-> tax.sgst, igst |-> tax.igst,
     total |-> amount + Taxes(tax), hsn |-> "99", cat |-> "none", note |-> FALSE,
     vtype |-> "Sales", iso |-> FALSE, named |-> TRUE,
     reg |-> p.header.reg, buyer |-> p.header.buyer, pos |-> p.header.pos]

TemplateRows(p, total) ==
    LET positive(a) == Kept(a, {i \in DOMAIN a : a[i] > 0})
        found == positive(p.sections)
        net == positive(NetOfAdvance(found, total))
        amounts == IF net = <<>> THEN <<0>> ELSE net
        Tax(f, i) == ShareOfTax(amounts, total, PrintedRate(p, f), i)
    IN  IF found = <<>> THEN <<>>
        ELSE [i \in DOMAIN amounts |->
                 TemplateRow(p, amounts[i], [cgst |-> Tax("cgstRate", i),
                                             sgst |-> Tax("sgstRate", i),
                                             igst |-> Tax("igstRate", i)])]
------------------------------------------------------------------------------
(* The steps that tidy up the model's own rows.                            *)

(* remove_subtotals: a subtotal goes when the rows since the last one add  *)
(* up to it.                                                               *)
RemoveSubtotals(items) ==
    LET group(i) == {j \in 1..i - 1 : \A k \in j..i - 1 : ~items[k].subtotal}
        sum(i)   == SumFunctionOnSet([j \in DOMAIN items |-> items[j].taxable], group(i))
        addsUp(i) == group(i) # {} /\ Gap(sum(i), items[i].taxable) <= 2 * Rupee
    IN  Kept(items, {i \in DOMAIN items : items[i].subtotal => ~addsUp(i)})

(* _correct_taxable_values: the discount is taken off a gross value.       *)
NetTaxableValue(l) ==
    LET gross == l.qty * l.rate
        isGross == gross > 0 /\ Gap(l.taxable, gross) < Rupee
        untaxed == /\ l.qty = 0 /\ l.rate = 0 /\ l.discount <= l.taxable
                   /\ l.total = 0 \/ Gap(l.total, l.taxable) < Rupee
    IN  IF l.discount <= 0 THEN l
        ELSE IF isGross THEN [l EXCEPT !.taxable = gross - l.discount]
        ELSE IF untaxed THEN [l EXCEPT !.taxable = @ - l.discount] ELSE l

(* classify_gstr1_item, by its built-in rules: the first that matches.  A  *)
(* GSTIN that the registry knows to be inactive counts as none.            *)
Classified(l) ==
    LET gstin  == l.reg = "active"
        export == l.cat \in {"EXPORT", "EXP"} \/ l.pos = "abroad"
        large  == l.pos = "away" /\ ~export /\ l.total > B2clLimit
    IN  IF gstin THEN IF l.note THEN "CDNR" ELSE "B2B"
        ELSE IF export THEN "EXP"
        ELSE IF l.note THEN "CDNUR"
        ELSE IF large THEN "B2CL" ELSE "B2CS"

(* qc_audit_sales_items.                                                   *)
QcAudit(items) ==
    LET Audited(l) ==
            [l EXCEPT !.hsn = IF @ = "none" THEN "99" ELSE @,
                      !.cat = IF @ \in {"EXPORT", "EXP", "SEZ", "NIL_EXEMPT"} THEN @
                              ELSE Classified(l)]
    IN  Each(Kept(items, {i \in DOMAIN items : items[i].taxable > 0}), Audited)

Untaxed(l) == [l EXCEPT !.cgst = 0, !.sgst = 0, !.igst = 0, !.total = l.taxable]
Exported(l) == [Untaxed(l) EXCEPT !.cat = "EXPORT"]
ExportedSums(s) == [s EXCEPT !.cgst = 0, !.sgst = 0, !.igst = 0, !.total = s.taxable]

(* Which taxes an invoice bears: those it prints, else by the states of    *)
(* seller and buyer, else by the model's sums.                             *)
IsInterstate(p, s, items) ==
    LET Printed(f) == IF ~HasTable(p) THEN s[f]
                      ELSE IF p.rows = <<>> THEN 0 ELSE Column(p, f)
        known == {i \in DOMAIN items : items[i].buyer # Absent}
        first == CHOOSE i \in known : \A j \in known : i <= j
    IN  IF Printed("igst") > 0 /\ Printed("cgst") = 0 /\ Printed("sgst") = 0 THEN TRUE
        ELSE IF (Printed("cgst") > 0 \/ Printed("sgst") > 0) /\ Printed("igst") = 0 THEN FALSE
        ELSE IF p.seller # Absent /\ known # {} THEN items[first].buyer # p.seller
        ELSE s.igst > s.cgst + s.sgst

(* math_verification_agent: the nearest slab, 18 % for a service without   *)
(* tax, and the taxes anew.                                                *)
NearestSlab(tax, taxable) ==
    LET off(r) == Gap(r * taxable, 10000 * tax)
    IN  CHOOSE r \in Slabs \cup {0} :
            \A q \in Slabs \cup {0} : off(r) < off(q) \/ (off(r) = off(q) /\ r <= q)
MathVerified(l, interstate) ==
    LET snapped == NearestSlab(Taxes(l), l.taxable)
        rate    == IF snapped = 0 /\ l.hsn = "99" THEN 1800 ELSE snapped
        igst    == IF interstate THEN Percent(l.taxable, rate) ELSE 0
        half    == IF interstate THEN 0 ELSE Percent(l.taxable, rate \div 2)
    IN  IF l.taxable <= 0 THEN l
        ELSE IF l.cat \in {"EXPORT", "SEZ", "NIL_EXEMPT"} THEN [Untaxed(l) EXCEPT !.rate = 0]
        ELSE [l EXCEPT !.rate = rate, !.igst = igst, !.cgst = half, !.sgst = half,
                       !.total = l.taxable + igst + 2 * half]
------------------------------------------------------------------------------
InvoiceInit ==
    /\ work = "queued" /\ paper = Absent
    /\ sums = NoSums /\ sales = <<>> /\ purchases = <<>>
    /\ template = FALSE /\ shortfall = 0
    /\ verdict = "none" /\ validation = "none" /\ voucher = Absent

(* A PDF that cannot be opened gives an empty response.                    *)
CannotOpen(p) ==
    /\ work = "queued"
    /\ work' = "ready" /\ paper' = p
    /\ UNCHANGED <<sums, sales, purchases, template, shortfall, verdict, validation, voucher>>

(* _try_vision_extraction: a scan of a tenant with a GSTIN; the summary is *)
(* made from the lines.                                                    *)
ReadScan(p, answer) ==
    /\ work = "queued" /\ p.scanned /\ p.type # "sales" /\ answer.purchases # <<>>
    /\ work' = "ready" /\ paper' = p
    /\ purchases' = answer.purchases
    /\ sums' = [f \in DOMAIN NoSums |->
                   IF f \in {"round", "advance"} THEN 0 ELSE Sum(answer.purchases, f)]
    /\ UNCHANGED <<sales, template, shortfall, verdict, validation, voucher>>

(* run_ai_extraction: the taxable value and the taxes are added up from    *)
(* the lines, subtotals among them, whenever the model returned any; the   *)
(* rest is what the call for the totals found.                             *)
Consolidated(answer) ==
    LET lines == answer.purchases \o answer.sales
    IN  [f \in DOMAIN NoSums |->
            IF lines # <<>> /\ f \in {"taxable", "cgst", "sgst", "igst"}
            THEN Sum(lines, f) ELSE answer.sums[f]]

(* process_document, and the corrections of its reconciliation.            *)
Extract(p, answer) ==
    /\ work = "queued"
    /\ work' = "extracted" /\ paper' = p
    /\ sales' = answer.sales /\ purchases' = answer.purchases
    /\ sums' = CanonicalSums(Consolidated(answer),
                             IF answer.sales # <<>> THEN answer.sales ELSE answer.purchases)
    /\ UNCHANGED <<template, shortfall, verdict, validation, voucher>>

(* The override, and the rows of the template when it has sections.        *)
ApplyTable ==
    /\ work = "extracted"
    /\ sums' = IF HasTable(paper) THEN Override(paper, sums) ELSE sums
    /\ template' = (/\ paper.type # "purchase" /\ HasTable(paper)
                    /\ TemplateRows(paper, sums'.taxable) # <<>>)
    /\ sales' = IF template' THEN TemplateRows(paper, sums'.taxable) ELSE sales
    /\ work' = IF template' \/ sales # <<>> THEN "itemised" ELSE "ready"
    /\ UNCHANGED <<paper, purchases, shortfall, verdict, validation, voucher>>

ClassifyTemplate ==
    LET Tagged(l) == IF paper.export THEN Exported(l) ELSE [l EXCEPT !.cat = Classified(l)]
    IN  /\ work = "itemised" /\ template
        /\ work' = "ready"
        /\ sales' = Each(sales, Tagged)
        /\ sums' = IF paper.export THEN ExportedSums(sums) ELSE sums
        /\ UNCHANGED <<paper, purchases, template, shortfall, verdict, validation, voucher>>

CleanUpRows ==
    LET clean == QcAudit(Each(RemoveSubtotals(sales), NetTaxableValue))
    IN  /\ work = "itemised" /\ ~template
        /\ work' = "cleaned"
        /\ sales' = IF paper.export THEN Each(clean, Exported) ELSE clean
        /\ sums' = IF paper.export THEN ExportedSums(sums) ELSE sums
        /\ UNCHANGED <<paper, purchases, template, shortfall, verdict, validation, voucher>>

(* The follow-up call is made when lines are missing, not their taxes.     *)
MissingTaxable ==
    LET sum  == Sum(sales, "taxable")
        diff == sums.taxable + sums.advance - sum
        isTax == \E r \in Slabs : Gap(10000 * diff, sum * r) < 10000 * 5 * Rupee
    IN  IF sums.taxable + sums.advance > 0 /\ diff > Rupee /\ ~isTax THEN diff ELSE 0

(* The lines found are taken only if they close the gap.                   *)
ClosesGap(found, diff) ==
    100 * Gap(Sum(found, "taxable"), diff) <= Larger(200 * Rupee, 5 * diff)

FillGap ==
    /\ work = "cleaned" /\ MissingTaxable > 0
    /\ work' = "filled"
    /\ shortfall' = MissingTaxable
    /\ \E found \in Findings :
           sales' = IF found # <<>> /\ ClosesGap(found, MissingTaxable)
                    THEN sales \o found ELSE sales
    /\ UNCHANGED <<paper, sums, purchases, template, verdict, validation, voucher>>

NoGap ==
    /\ work = "cleaned" /\ MissingTaxable = 0
    /\ work' = "filled"
    /\ UNCHANGED <<paper, sums, sales, purchases, template, shortfall, verdict, validation, voucher>>

VerifyMath ==
    LET interstate == IsInterstate(paper, sums, sales)
    IN  /\ work = "filled"
        /\ work' = "ready"
        /\ sales' = Each(sales, LAMBDA l : MathVerified(l, interstate))
        /\ UNCHANGED <<paper, sums, purchases, template, shortfall, verdict, validation, voucher>>

(* process_single_task: rows and verdict are committed together; an error  *)
(* in the engine asks for a review.                                        *)
StoreRows ==
    /\ work = "ready"
    /\ work' = "stored"
    /\ verdict' \in {Status(sums, sales \o purchases), "NEEDS_REVIEW"}
    /\ UNCHANGED <<paper, sums, sales, purchases, template, shortfall, validation, voucher>>

(* The second commit: the sums, without the rounding off, the GSTIN of the *)
(* first row, and the taxes of every row.                                  *)
Validate ==
    LET rows == sales \o purchases
        balanced == Gap(sums.taxable + Taxes(sums), sums.total) <= 2 * Rupee
        formal == rows # <<>> /\ rows[1].reg \in {"active", "inactive"}
    IN  /\ work = "stored"
        /\ work' = "validated"
        /\ validation' = IF /\ balanced /\ formal
                            /\ \A i \in DOMAIN rows : OneKindOfTax(rows[i])
                         THEN "PASSED" ELSE "FAILED"
        /\ UNCHANGED <<paper, sums, sales, purchases, template, shortfall, verdict, voucher>>

(* push_voucher: a ledger-only voucher for one row.  The date must be an    *)
(* ISO date, and the party's ledger exist or be created.  A Note reverses  *)
(* its side of the books, and a purchase stands on the other side.         *)
Voucher(row, side) ==
    LET type     == IF row.vtype = "none" THEN side ELSE row.vtype
        selling  == type \in {"Sales", "Credit Note"}
        reversal == (type \in {"Credit Note", "Debit Note"}) # ~selling
        sign     == IF reversal THEN -1 ELSE 1
        total    == IF row.total # 0 THEN row.total ELSE row.taxable + Taxes(row)
    IN  [row |-> row, type |-> type,
         parent |-> IF selling THEN "Sundry Debtors" ELSE "Sundry Creditors",
         legs |-> [party   |-> sign * (-Gap(total, 0)),
                   account |-> sign * row.taxable, cgst |-> sign * row.cgst,
                   sgst    |-> sign * row.sgst,    igst |-> sign * row.igst]]

PushVoucher ==
    /\ work = "validated" /\ verdict = "ERP_READY"
    /\ work' = "pushed"
    /\ \/ \E i \in DOMAIN sales : voucher' = Voucher(sales[i], "Sales")
       \/ \E i \in DOMAIN purchases : voucher' = Voucher(purchases[i], "Purchase")
    /\ voucher'.type \in {"Sales", "Purchase", "Credit Note", "Debit Note"}
    /\ voucher'.row.iso /\ voucher'.row.named
    /\ UNCHANGED <<paper, sums, sales, purchases, template, shortfall, verdict, validation>>

InvoiceNext ==
    \/ /\ work = "queued"
       /\ \E p \in Papers :
             \/ CannotOpen(p)
             \/ \E answer \in Answers : ReadScan(p, answer) \/ Extract(p, answer)
    \/ ApplyTable
    \/ ClassifyTemplate
    \/ CleanUpRows
    \/ FillGap
    \/ NoGap
    \/ VerifyMath
    \/ StoreRows
    \/ Validate
    \/ PushVoucher

InvoiceSpec == InvoiceInit /\ [][InvoiceNext]_invoiceVars
------------------------------------------------------------------------------
(* Properties.                                                             *)

Done == work \in {"stored", "validated", "pushed"}
Covers(p) == p.rows # <<>> /\ SumFunction(p.sections) >= Column(p, "taxable") - TOLERANCE_INR

(* An invoice that prints a consistent table, and whose sections reach its *)
(* taxable value, is ready for the books whatever the model made of it:    *)
(* the advance is taken off, the taxes are shared out and every figure the *)
(* engine compares is replaced.  (Lines that the model took for purchases  *)
(* stay beside the rows and count for the engine; an engine that failed    *)
(* asks for a review.)                                                     *)
TemplateIsReady ==
    /\ Done /\ template /\ ~paper.export /\ purchases = <<>> /\ Covers(paper)
    /\ Absent \notin {paper.totalCost, paper.roundOff}
    /\ sums.taxable = Column(paper, "taxable")
    /\ SummaryAddsUp(sums) /\ OneKindOfTax(sums)
    => Status(sums, sales) = "ERP_READY"

(* The rows add up, on either path.  From the template: their taxes are    *)
(* the printed rates on the invoice's taxable value to the paisa, whatever *)
(* advance was taken off; unless that value is the model's and negative,   *)
(* no row has taxes below zero beyond rounding, and the rows claim no more *)
(* than the invoice.  From the model: a follow-up call, if it added        *)
(* anything, closed the gap it was asked for; and a row of any value bears *)
(* one kind of tax and adds up.                                            *)
RowsAddUp ==
    /\ Done /\ template /\ ~paper.export =>
           /\ Sum(sales, "cgst") = Percent(sums.taxable, PrintedRate(paper, "cgstRate"))
           /\ Sum(sales, "sgst") = Percent(sums.taxable, PrintedRate(paper, "sgstRate"))
           /\ Sum(sales, "igst") = Percent(sums.taxable, PrintedRate(paper, "igstRate"))
           /\ sums.taxable >= 0 =>
                 /\ Sum(sales, "taxable") <= sums.taxable + 1
                 /\ \A i \in DOMAIN sales : Taxes(sales[i]) >= -3 * Len(sales)
    /\ Done /\ ~template /\ shortfall > 0 =>
           LET open == sums.taxable + sums.advance - Sum(sales, "taxable")
           IN  open = shortfall \/ 20 * Gap(open, 0) <= Larger(40 * Rupee, shortfall)
    /\ Done /\ ~template => \A i \in DOMAIN sales : sales[i].taxable > 0 =>
           OneKindOfTax(sales[i]) /\ sales[i].total = sales[i].taxable + Taxes(sales[i])

(* A voucher balances.  The legs are booked as they stand in the row, and  *)
(* Tally refuses or distorts an entry that does not sum to nothing; what   *)
(* vouches for them is level 1 of the engine, several steps and a commit   *)
(* earlier.  A row with a negative total is the exception: its party leg   *)
(* is booked by the absolute value.                                        *)
VouchersBalance ==
    voucher # Absent /\ voucher.row.total > 0 =>
        Gap(SumFunction(voucher.legs), 0) <= TOLERANCE_INR

(* "if the printed GST summary table OR the LLM-extracted overall amounts  *)
(* show non-zero taxes, the invoice is domestic - not export/LUT -         *)
(* regardless of any text-based export phrase detection".                  *)
DomesticStaysTaxed ==
    Done /\ sales # <<>> /\ HasTable(paper) /\ paper.rows # <<>> =>
        (Column(paper, "cgst") + Column(paper, "sgst") + Column(paper, "igst") > 0
            => Taxes(sums) > 0)
==============================================================================
