---------------------------- MODULE MCBackOffice ----------------------------
(***************************************************************************)
(* The eight machines behind a batch, on small inputs, in one run.  They   *)
(* share no variable, so their product would only multiply the states: in  *)
(* MCNext a machine takes steps while the others are in their initial      *)
(* states, and the states explored are those of eight separate runs.       *)
(***************************************************************************)
EXTENDS Gstr2bMatch, SalesClose, ReviewGate, Workbook, InvoicePipeline, ModelCalls,
        DriveWalk, DriveSchedules

CONSTANTS
    G, H, d0, d1, d2, dash,             \* the characters of a 2B statement
    MH, HR, CR, gM, gH, gS, h1, h2, s1, s2,   \* prefixes, GSTINs, codes, states
    kS, kA,                             \* keys of reviews
    fYear, fMonth, fNote, fWork, fOther, xPdf, xZip, xSheet,  \* a folder tree
    tA, tB, rA                          \* tenants and a root

Upto(S, n) == UNION {[1..k -> S] : k \in 0..n}
-----------------------------------------------------------------------------
(* Gstr2bMatch: the same number with and without a dash or a leading zero. *)

mcAlpha == {G, H, d0, d1, d2}
mcChar == mcAlpha \cup {dash}
mcLine(g, i, x, t) == [gst |-> g, inv |-> i, taxable |-> x, tax |-> 1, total |-> t]
mcRecord(g, i, x, v) == [ctin |-> g, inum |-> i, taxable |-> x, tax |-> 1, val |-> v]
mcLines == {mcLine(<<G>>, <<d1, d2>>, 4, 5), mcLine(<<G>>, <<d1, dash, d2>>, 4, 0),
            mcLine(<<G>>, <<d0, d1, d2>>, 4, 5), mcLine(<<H>>, <<d1, d2>>, 9, 10),
            mcLine(<<G>>, <<d2>>, 4, 5), mcLine(<<H>>, <<d1, d2>>, -1, 0)}
mcRecords == {mcRecord(<<G>>, <<d1, d2>>, 4, 5), mcRecord(<<G>>, <<d0, d1, dash, d2>>, 5, 0),
              mcRecord(<<G>>, <<d1, d2>>, 9, 10), mcRecord(<<H>>, <<d1, d2>>, 9, 20),
              mcRecord(<<G>>, <<>>, 4, 5)}
mcBooks == Upto(mcLines, 2) \cup {<<a, b, a>> : a, b \in mcLines}
mcStatements == Upto(mcRecords, 2)
-----------------------------------------------------------------------------
(* SalesClose: lines with and without a party, a number, a registration,   *)
(* and of either sign.                                                     *)

mcNo(p, n) == [prefix |-> p, serial |-> n, blanks |-> FALSE]
mcState == [g \in {gM, gH, gS} |-> IF g = gM THEN s1 ELSE s2]
mcRegistration == [p \in {MH} |-> gM]
mcSale(no, note, against, party, cat, hsn, pos, x, i, c, t) ==
    [no |-> no, note |-> note, against |-> against, party |-> party, cat |-> cat,
     hsn |-> hsn, pos |-> pos, month |-> TRUE, taxable |-> x, igst |-> i,
     cgst |-> c, sgst |-> c, total |-> t]
a1 == mcSale(mcNo(MH, 1), "none", NoNumber, gM, "B2B", h1, NoState, 10, 0, 1, 12)
a2 == mcSale(mcNo(MH, 2), "none", NoNumber, NoGstin, "none", h1, NoState, 20, 4, 0, 24)
a3 == mcSale(mcNo(MH, 1), "debit", NoNumber, gS, "NIL_EXEMPT", h2, s2, 10, 0, 0, 10)
a4 == mcSale(mcNo(CR, 1), "credit", mcNo(MH, 1), gM, "none", h1, NoState, 10, 0, 1, 12)
a5 == mcSale(mcNo(MH, 3), "none", NoNumber, gH, "EXPORT", NoHsn, s2, 30, 0, 0, 0)
a6 == [mcSale(mcNo(HR, 1), "none", NoNumber, gH, "B2CL", h1, s2, 10, 1, 0, 11)
          EXCEPT !.no.blanks = TRUE]
a7 == [a1 EXCEPT !.no = NoNumber]
a8 == [a1 EXCEPT !.cat = "CDNR"]
a9 == [a1 EXCEPT !.no.blanks = TRUE]
mcNegated(l) == [l EXCEPT !.taxable = -l.taxable, !.cgst = -l.cgst, !.sgst = -l.sgst,
                          !.total = -l.total]
mcStored == Upto({a1, a2, a3, a4, a5, a6}, 2)
            \cup {<<a7>>, <<a7, a1>>, <<a1, a2, a4>>, <<a8>>, <<a8, a1, a4>>, <<a9, a4>>}
            \cup {<<mcNegated(a4)>>, <<a1, mcNegated(a4)>>,
                  <<mcNegated(a1), mcNegated(a4)>>, <<mcNegated(a1), a2>>}

mcRow(no, note, party, x, i, c, t, buckets) ==
    [no |-> no, note |-> note, party |-> party, pos |-> s1, month |-> TRUE,
     taxable |-> x, igst |-> i, cgst |-> c, sgst |-> c, total |-> t, sections |-> buckets]
mcBucket(h, x) == [hsn |-> h, amount |-> x]
r1 == mcRow(mcNo(MH, 1), "none", gM, 10, 0, 1, 12,
            <<mcBucket(h1, 5), mcBucket(h2, 5), mcBucket(h1, 0)>>)
r2 == mcRow(mcNo(MH, 2), "none", NoGstin, 10, 2, 0, 12, <<>>)
r3 == mcRow(mcNo(CR, 1), "credit", gM, 10, 0, 1, 12, <<mcBucket(h1, 5)>>)
r4 == [mcRow(mcNo(HR, 1), "none", gH, 10, 1, 0, 11, <<mcBucket(Unspecified, 10)>>)
          EXCEPT !.no.blanks = TRUE]
mcSheets == Upto({r1, r2, r3, r4}, 2)
            \cup {<<[r1 EXCEPT !.month = FALSE]>>, <<r1, [r1 EXCEPT !.party = NoGstin]>>}

mcPdf(type, text, line) == [type |-> type, text |-> text, line |-> line]
mcPdfSets ==
    {<<>>, <<mcPdf("credit_note", "credit_note", a4)>>,
     <<mcPdf("invoice", "unreadable", a1)>>,
     <<mcPdf("credit_note", "invoice", a4), mcPdf("invoice", "invoice", a5)>>,
     <<mcPdf("credit_note", "unreadable", a4)>>}
-----------------------------------------------------------------------------
(* ReviewGate: a file left out, a broken one, one statement twice.        *)

mcDrops == {<<kA, "malformed">>, <<"DOWNLOAD_FAILED", kA>>, <<"GSTIN_NOT_FOUND", kA, kA>>}
-----------------------------------------------------------------------------
(* InvoicePipeline: the model's lines and sums, and what a PDF prints.     *)

ln == [subtotal |-> FALSE, qty |-> 0, rate |-> 0, discount |-> 0, advances |-> 0,
       taxable |-> 10000, cgst |-> 900, sgst |-> 900, igst |-> 0, total |-> 11800,
       hsn |-> "none", cat |-> "none", note |-> FALSE, reg |-> "active", buyer |-> s1,
       pos |-> "home", vtype |-> "none", iso |-> TRUE, named |-> TRUE]
untaxed == [ln EXCEPT !.cgst = 0, !.sgst = 0, !.total = 10000, !.reg = "none",
                      !.buyer = Absent, !.pos = "away"]
sub(x) == [ln EXCEPT !.subtotal = TRUE, !.taxable = x]
gross == [ln EXCEPT !.qty = 2, !.rate = 6000, !.discount = 2000, !.taxable = 12000]
rebate == [untaxed EXCEPT !.discount = 2000, !.hsn = "other", !.buyer = s2, !.reg = "inactive"]
sez == [untaxed EXCEPT !.pos = "abroad", !.cat = "SEZ"]
both == [ln EXCEPT !.igst = 1800, !.total = 13600]
negative == [ln EXCEPT !.taxable = -10000, !.cgst = -900, !.sgst = -900, !.total = -11800,
                       !.note = TRUE]
offTotal == [ln EXCEPT !.total = 12800, !.vtype = "Debit Note", !.cgst = 0]
worth(x) == [untaxed EXCEPT !.taxable = x, !.total = x]

mcLists == {<<>>, <<ln>>, <<ln, sub(10000)>>, <<ln, ln, sub(20000), untaxed>>,
            <<untaxed, sub(20000)>>, <<gross>>, <<rebate, ln>>, <<sez>>,
            <<both, negative>>, <<ln, sub(20000), worth(26000)>>}
mcSum(t, c, i, r, a, g) ==
    [taxable |-> t, cgst |-> c, sgst |-> c, igst |-> i, round |-> r, advance |-> a, total |-> g]
mcSums == {mcSum(10000, 900, 0, 0, 0, 11800), mcSum(10000, 900, 1800, 0, 0, 11800),
           mcSum(15000, 0, 1800, 0, 1000, 16800), mcSum(36000, 0, 0, 0, 0, 36000), NoSums}
mcAnswers == {[sums |-> s, sales |-> l, purchases |-> q] :
                 s \in mcSums, l \in mcLists, q \in {<<>>, <<ln>>, <<offTotal>>, <<negative>>}}
mcFindings == {<<>>, <<[ln EXCEPT !.taxable = 6000], negative, ln>>,
               <<[ln EXCEPT !.taxable = 5000]>>, <<untaxed>>,
               <<untaxed, [both EXCEPT !.taxable = 0]>>, <<worth(6050)>>}

plain == [rows |-> <<>>, finalTotal |-> Absent, netCost |-> Absent, totalCost |-> Absent,
          roundOff |-> Absent, sections |-> <<>>, export |-> FALSE, seller |-> s1,
          header |-> [reg |-> "active", buyer |-> s1, pos |-> "home"],
          scanned |-> FALSE, type |-> "sales"]
printed(t, c, s, i, x, y) ==
    [taxable |-> t, cgst |-> c, sgst |-> s, igst |-> i,
     cgstRate |-> x, sgstRate |-> x, igstRate |-> y]
p1 == [plain EXCEPT !.rows = <<printed(10003, 900, 900, 0, 900, 0)>>, !.netCost = 12003,
                    !.totalCost = 11800, !.roundOff = -3, !.sections = <<6005, 5998>>]
p2 == [plain EXCEPT !.rows = <<printed(10000, 0, 0, 1800, 0, 1800),
                               printed(5000, 450, 450, 0, 900, 0)>>,
                    !.totalCost = 17700, !.roundOff = 0, !.sections = <<15000, 0>>,
                    !.seller = s2]
p3 == [plain EXCEPT !.rows = <<printed(100, 0, 0, 18, 0, 1800)>>, !.finalTotal = 100,
                    !.netCost = 30100, !.totalCost = 118, !.roundOff = 0,
                    !.sections = <<10000, 10000, 10100>>]
p4 == [p1 EXCEPT !.sections = <<5000>>]
p5 == [p1 EXCEPT !.sections = <<12003>>, !.netCost = 22000, !.finalTotal = 0,
                 !.totalCost = 0, !.rows = <<printed(0, 0, 0, 0, 0, 0)>>]
p6 == [p1 EXCEPT !.sections = <<>>]
p7 == [plain EXCEPT !.totalCost = 17700, !.seller = Absent]
p8 == [plain EXCEPT !.rows = <<printed(19, 2, 2, 0, 900, 0)>>, !.totalCost = 23,
                    !.roundOff = 0, !.sections = <<6, 6, 6, 1>>]
p9 == [p5 EXCEPT !.rows = <<printed(0, 0, 0, 0, 900, 0)>>]
mcPapers ==
    {plain, p1, p2, p3, p4, p5, p6, p7, p8, p9}
    \cup {[p EXCEPT !.export = TRUE] : p \in {plain, p1}}
    \cup {[plain EXCEPT !.type = "both", !.scanned = TRUE], [p1 EXCEPT !.type = "purchase"]}
-----------------------------------------------------------------------------
(* DriveWalk: named folders below others, files at every level.            *)

mcNamed == [y \in {fYear, fMonth, fNote, fWork, fOther} |->
               CASE y = fNote -> "credit_note" [] y = fWork -> "ignore" [] OTHER -> "none"]
mcExtension == [f \in {xPdf, xZip, xSheet} |->
                   CASE f = xPdf -> "pdf" [] f = xZip -> "zip" [] OTHER -> "sheet"]
mcTree(note, ignored, other, pdf, last, folder) ==
    [x \in {fNote, fWork, fOther, xPdf, last} |->
        CASE x = fNote -> note [] x = fWork -> ignored [] x = fOther -> other
          [] x = xPdf -> pdf [] OTHER -> folder]
mcDeepTree == mcTree(fOther, fNote, fMonth, fWork, xZip, fMonth)
mcTrees == {mcDeepTree,
            mcTree(fMonth, fMonth, fMonth, fOther, xZip, fNote),
            mcTree(fMonth, fMonth, fYear, fMonth, xSheet, fMonth)}
-----------------------------------------------------------------------------
(* DriveSchedules: months pass and folders appear while a run is awaited;  *)
(* nothing else looks at them.                                             *)

mcRoots(d, s, p, g) ==
    [k \in Kinds |-> CASE k = "drive" -> d [] k = "sales" -> s
                       [] k = "purchase" -> p [] OTHER -> g]
mcConfigs == {mcRoots(rA, rA, NoRoot, NoRoot), mcRoots(NoRoot, NoRoot, rA, rA)}
mcPattern == [t \in Tenants |-> IF t = tA THEN {"n", "year"} ELSE {"month_name"}]
mcScheduleNext ==
    /\ ScheduleNext
    /\ today' # today \/ folders' # folders => queue # <<>> \/ run.at # "idle"
-----------------------------------------------------------------------------
MCInit ==
    /\ MatchInit /\ CloseInit /\ GateInit /\ WorkbookInit /\ InvoiceInit
    /\ CallsInit /\ WalkInit /\ ScheduleInit

(* A machine that has not left its initial state.                          *)
MatchAtRest    == stage = "idle"
CloseAtRest    == phase = "open" /\ stored = <<>> /\ sheet = <<>> /\ ~whole /\ entries = <<>>
GateAtRest     == reviews = <<>> /\ edits = 0 /\ step = "idle"
WorkbookAtRest == \A w \in Writers : call[w] = 0 /\ at[w] = "idle"
InvoiceAtRest  == work = "queued"
CallsAtRest    == turn = [d \in Documents |-> 1] /\ thread = [d \in Documents |-> "asking"]
WalkAtRest     == walk = "idle" /\ parent = mcDeepTree
ScheduleAtRest == changes = 0 /\ beat = <<>>

MCNext ==
    \/ /\ CloseAtRest /\ GateAtRest /\ WorkbookAtRest /\ InvoiceAtRest
       /\ CallsAtRest /\ WalkAtRest /\ ScheduleAtRest
       /\ MatchNext
       /\ UNCHANGED <<closeVars, gateVars, workbookVars, invoiceVars,
                      callVars, walkVars, scheduleVars>>
    \/ /\ MatchAtRest /\ GateAtRest /\ WorkbookAtRest /\ InvoiceAtRest
       /\ CallsAtRest /\ WalkAtRest /\ ScheduleAtRest
       /\ CloseNext
       /\ UNCHANGED <<matchVars, gateVars, workbookVars, invoiceVars,
                      callVars, walkVars, scheduleVars>>
    \/ /\ MatchAtRest /\ CloseAtRest /\ WorkbookAtRest /\ InvoiceAtRest
       /\ CallsAtRest /\ WalkAtRest /\ ScheduleAtRest
       /\ GateNext
       /\ UNCHANGED <<matchVars, closeVars, workbookVars, invoiceVars,
                      callVars, walkVars, scheduleVars>>
    \/ /\ MatchAtRest /\ CloseAtRest /\ GateAtRest /\ InvoiceAtRest
       /\ CallsAtRest /\ WalkAtRest /\ ScheduleAtRest
       /\ WorkbookNext
       /\ UNCHANGED <<matchVars, closeVars, gateVars, invoiceVars,
                      callVars, walkVars, scheduleVars>>
    \/ /\ MatchAtRest /\ CloseAtRest /\ GateAtRest /\ WorkbookAtRest
       /\ CallsAtRest /\ WalkAtRest /\ ScheduleAtRest
       /\ InvoiceNext
       /\ UNCHANGED <<matchVars, closeVars, gateVars, workbookVars,
                      callVars, walkVars, scheduleVars>>
    \/ /\ MatchAtRest /\ CloseAtRest /\ GateAtRest /\ WorkbookAtRest
       /\ InvoiceAtRest /\ WalkAtRest /\ ScheduleAtRest
       /\ CallsNext
       /\ UNCHANGED <<matchVars, closeVars, gateVars, workbookVars,
                      invoiceVars, walkVars, scheduleVars>>
    \/ /\ MatchAtRest /\ CloseAtRest /\ GateAtRest /\ WorkbookAtRest
       /\ InvoiceAtRest /\ CallsAtRest /\ ScheduleAtRest
       /\ WalkNext
       /\ UNCHANGED <<matchVars, closeVars, gateVars, workbookVars,
                      invoiceVars, callVars, scheduleVars>>
    \/ /\ MatchAtRest /\ CloseAtRest /\ GateAtRest /\ WorkbookAtRest
       /\ InvoiceAtRest /\ CallsAtRest /\ WalkAtRest
       /\ mcScheduleNext
       /\ UNCHANGED <<matchVars, closeVars, gateVars, workbookVars,
                      invoiceVars, callVars, walkVars>>

MCVars ==
    <<matchVars, closeVars, gateVars, workbookVars,
      invoiceVars, callVars, walkVars, scheduleVars>>
MCSpec ==
    /\ MCInit /\ [][MCNext]_MCVars
    /\ \A w \in Writers : WF_workbookVars(WriterStep(w))
=============================================================================
