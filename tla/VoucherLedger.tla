--------------------------- MODULE VoucherLedger ---------------------------
(***************************************************************************)
(* What the push log promises the accountant.  Until a line item is        *)
(* recorded as pushed, an attempt may book a voucher in Tally; an item is  *)
(* recorded only when Tally holds a voucher for it; and once it is         *)
(* recorded, no push ever books it again.                                  *)
(***************************************************************************)
EXTENDS Naturals

CONSTANT Item

VARIABLES
    booked,    \* vouchers Tally holds per line item
    recorded   \* items with a success row in the push log

Init == booked = [i \in Item |-> 0] /\ recorded = {}

Book(i) ==
    /\ i \notin recorded
    /\ booked' = [booked EXCEPT ![i] = @ + 1]
    /\ UNCHANGED recorded

Record(i) ==
    /\ i \notin recorded
    /\ booked[i] > 0
    /\ recorded' = recorded \cup {i}
    /\ UNCHANGED booked

Next == \E i \in Item : Book(i) \/ Record(i)

Spec == Init /\ [][Next]_<<booked, recorded>>
=============================================================================
