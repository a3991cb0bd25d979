------------------------------- MODULE MCTally -------------------------------
(* A small instance of Tally for TLC. *)
EXTENDS Tally, TLC

CONSTANTS i1, i2, p1, b1, a1, c1, c2, n1, n2

Kinds == i1 :> "INVOICE" @@ i2 :> "INVOICE" @@ p1 :> "PAYMENT" @@ b1 :> "PURCHASE" @@ a1 :> "ACCOUNTING_VOUCHER"

Priced(goods, charges, interstate) ==
  [goods |-> goods, charges |-> charges, interstate |-> interstate, lines |-> <<>>]
Lines(debit, credits) ==
  [goods |-> 0, charges |-> <<>>, interstate |-> FALSE,
   lines |-> <<[debit |-> TRUE, amount |-> debit]>>
               \o [l \in DOMAIN credits |-> [debit |-> FALSE, amount |-> credits[l]]]]
Levy(amount, tax) == [amount |-> amount, tax |-> tax]

(* Goods and a tax that are rounded each by itself; taxes by name and a    *)
(* discount; charges alone.                                                *)
Taxed == Priced(150, <<Levy(250, "gst")>>, FALSE)
Named == Priced(410, <<Levy(-130, "none"), Levy(50, "cgst"), Levy(50, "sgst")>>, TRUE)
Bare == Priced(0, <<Levy(300, "gst")>>, TRUE)

(* Lines that balance until they are rounded, lines that nearly do, a line *)
(* that is nothing, lines that are refused.                                *)
Halves == Lines(300, <<150, 150>>)
Speck == Lines(1, <<>>)
Wrong == Lines(300, <<100>>)

SomeContents == {Taxed, Named, Bare, Halves, Speck, Wrong}

(* Tally applies its ledgers; the second client may be linked to a ledger  *)
(* that is named like the first.  i1 is the older invoice.                 *)
MCInit ==
  /\ integration = [enabled |-> TRUE, import |-> TRUE, strategy |-> "TALLY_WINS", ledgers |-> TRUE,
                    vouchers |-> TRUE, token |-> 0, status |-> "DISCONNECTED"]
  /\ client = [c \in Client |-> [active |-> TRUE, name |-> IF c = c1 THEN n1 ELSE n2, field |-> 1]]
  /\ voucher = [v \in Voucher |-> [active |-> TRUE, changed |-> IF v = i1 THEN -1 ELSE 0,
                                   content |-> IF v = a1 THEN Halves ELSE Taxed]]
  /\ ledgerLink \in {{}, {<<c2, n1>>}}
  /\ books = [vouchers |-> [v \in Voucher |-> None], ledgers |-> [n \in Name |-> None]]
  /\ Init

MCSpec == MCInit /\ [][Next]_tallyVars
==============================================================================
