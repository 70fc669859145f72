--------------------------- MODULE MCTallyExport ---------------------------
(* Objects for TLC: both signs and zero, both centuries, no due date, codes  *)
(* that are missing, and vouchers with several lines, one of them nameless.  *)
EXTENDS TallyExport

Line(n, q, p) == [name |-> n, quantity |-> q, rate |-> p]

MCObjects ==
    {[kind |-> "company", name |-> "c", year |-> 1999, codes |-> <<"", "g">>],
     [kind |-> "master", name |-> "m", flag |-> TRUE],
     [kind |-> "ledger", name |-> "l", amount |-> -2, codes |-> <<>>],
     [kind |-> "ledger", name |-> "k", amount |-> 3, codes |-> <<"", "g", "h">>],
     [kind |-> "item", name |-> "i", quantity |-> 4, rate |-> 5, amount |-> -20, codes |-> <<"h">>],
     [kind |-> "voucher", type |-> "Sales", year |-> 1969, due |-> 0, flag |-> TRUE,
      entries |-> <<[name |-> "l", amount |-> -2], [name |-> "k", amount |-> 2]>>,
      items |-> <<Line("i", 0, 0), Line("", 3, 4), Line("i", 1, 2)>>],
     [kind |-> "voucher", type |-> "Purchase Order", year |-> 2026, due |-> 2068, flag |-> FALSE,
      entries |-> <<>>, items |-> <<Line("i", 2, 5)>>],
     [kind |-> "voucher", type |-> "Purchase Order", year |-> 2026, due |-> 0, flag |-> FALSE,
      entries |-> <<[name |-> "l", amount |-> 0]>>, items |-> <<>>]}
=============================================================================
