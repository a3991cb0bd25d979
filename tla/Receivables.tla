------------------------------ MODULE Receivables ------------------------------
(***************************************************************************)
(* What one client owes: invoices, received payments and the allocations   *)
(* between them (orderInvoiceService, invoiceController,                   *)
(* paymentController), with the orders, notes, month clean-up and          *)
(* permanent deletions that touch the same rows.                           *)
(*                                                                         *)
(* A transaction that allocates reads free amounts and open dues, then     *)
(* adds what it worked out to rows that may have changed since.  So a      *)
(* request is two steps: Submit works out the rows it will write from the  *)
(* books it reads (`before`, `after`), Commit adds the difference to the   *)
(* books as they are by then.                                              *)
(***************************************************************************)
EXTENDS Integers, FiniteSets, Functions

CONSTANTS Bill,      \* invoice ids, numbered by issue date
          OrderBill, \* those that belong to an order
          Receipt,   \* payment ids, numbered by paid_at
          Amounts,   \* the amounts that totals and payments take
          Month,     \* ids of the invoices and payments of the month to clean up
          Request,   \* requests in flight together
          MaxOps,    \* cap on the number of operations, for TLC
          NoBill

ASSUME BillsAreNumbered == Bill \subseteq Nat /\ OrderBill \subseteq Bill
ASSUME ReceiptsAreNumbered == Receipt \subseteq Nat
ASSUME AmountsAreNat == Amounts \subseteq Nat /\ MaxOps \in Nat
ASSUME NoBillIsNoBill == NoBill \notin Bill
ASSUME TablesAreFinite == IsFiniteSet(Bill) /\ IsFiniteSet(Receipt)
ASSUME MonthIsOfTables == Month \in [bills : SUBSET Bill, receipts : SUBSET Receipt]

VARIABLES books,   \* the tables
          job,     \* the requests in flight
          ops,     \* operations begun so far
          shaky,   \* payments that were re-applied, or allocated by two at once
          crossed, \* invoices two requests worked on at once
          drift    \* invoices whose dues or status changed without a recompute

vars == <<books, job, ops, shaky, crossed, drift>>

InvoiceStatus == {"DRAFT", "PENDING", "SENT", "PARTIALLY_PAID", "PAID", "OVERDUE", "VOID"}
BillRow == [state : {"none", "active", "inactive", "gone"},
            kind : {"TAX_INVOICE", "PROFORMA"}, status : InvoiceStatus, total : Nat]
PaymentRow == [state : {"none", "RECORDED", "REVERSED", "gone"},
               amount : Nat, order : Bill \cup {NoBill}]
Allocation == [held : {"none", "active", "inactive"}, amount : Int]
Books == [bill : [Bill -> BillRow], receipt : [Receipt -> PaymentRow],
          share : [Receipt -> [Bill -> Allocation]], note : [Bill -> Int],
          order : [Bill -> {"none", "open", "cancelled", "gone"}]]

NoShare == [held |-> "none", amount |-> 0]
EmptyBooks ==
  [bill |-> [b \in Bill |-> [state |-> "none", kind |-> "TAX_INVOICE",
                             status |-> "DRAFT", total |-> 0]],
   receipt |-> [p \in Receipt |-> [state |-> "none", amount |-> 0, order |-> NoBill]],
   share |-> [p \in Receipt |-> [b \in Bill |-> NoShare]],
   note |-> [b \in Bill |-> 0],
   order |-> [b \in Bill |-> "none"]]

Idle == [op |-> "idle", own |-> NoBill, before |-> EmptyBooks,
         after |-> EmptyBooks, judged |-> {}]

Positive(n) == IF n > 0 THEN n ELSE 0
Least(m, n) == IF m < n THEN m ELSE n
Most(m, n) == IF m > n THEN m ELSE n

------------------------------------------------------------------------------
(* What the code reads off the books d. *)

Counted(d, p, b) ==
  IF d.share[p][b].held = "active" /\ d.receipt[p].state = "RECORDED"
  THEN d.share[p][b].amount ELSE 0
Paid(d, b) == SumFunction([p \in Receipt |-> Counted(d, p, b)])
Allocated(d, p) == SumFunction([b \in Bill |-> Counted(d, p, b)])

(* getInvoiceNoteEffectByIdsTx: note[b] is debit less credit notes. *)
Due(d, b) == d.bill[b].total + d.note[b]

IsActive(d, b) == d.bill[b].state = "active"
Billable(d, b) == /\ IsActive(d, b)
                  /\ d.bill[b].kind # "PROFORMA"
                  /\ d.bill[b].status # "VOID"
Needs(d, b) == IF Billable(d, b) THEN Positive(Due(d, b) - Paid(d, b)) ELSE 0

(* Mutant: without the floor and what is allocated already. *)
FreeIgnoringShares(d, p) == IF d.receipt[p].state = "RECORDED" THEN d.receipt[p].amount ELSE 0

Free(d, p) ==
  IF d.receipt[p].state = "RECORDED"
  THEN Positive(d.receipt[p].amount - Allocated(d, p)) ELSE 0

------------------------------------------------------------------------------
(* recomputeInvoiceStatusTx *)

Verdict(d, b) ==
  LET paid == Paid(d, b)
      status == d.bill[b].status
  IN  IF paid <= 0
      THEN IF status \in {"PARTIALLY_PAID", "PAID"} THEN "PENDING" ELSE status
      ELSE IF paid < Due(d, b) THEN "PARTIALLY_PAID" ELSE "PAID"

(* Mutant: an invoice without payments keeps the status it has. *)
JudgeOnlyPaid(d, B) ==
  [d EXCEPT !.bill = [b \in Bill |->
     IF b \in B /\ IsActive(d, b) /\ Paid(d, b) > 0
     THEN [@[b] EXCEPT !.status = Verdict(d, b)] ELSE @[b]]]

Judge(d, B) ==
  [d EXCEPT !.bill = [b \in Bill |->
     IF b \in B /\ IsActive(d, b) THEN [@[b] EXCEPT !.status = Verdict(d, b)] ELSE @[b]]]

(***************************************************************************)
(* autoAllocatePaymentsForClientTx.  The two loops pour the free amounts,  *)
(* oldest payment first, into the open dues, oldest invoice first.  What a *)
(* payment gives an invoice is the overlap of two intervals: the amounts   *)
(* before and with the payment, the dues before and with the invoice.      *)
(***************************************************************************)

(* Mutant: the newest invoice first. *)
FlowNewestFirst(d, p, b) ==
  LET given == SumFunction([q \in {q \in Receipt : q < p} |-> Free(d, q)])
      filled == SumFunction([c \in {c \in Bill : c > b} |-> Needs(d, c)])
  IN  Positive(Least(given + Free(d, p), filled + Needs(d, b)) - Most(given, filled))

Flow(d, p, b) ==
  LET given == SumFunction([q \in {q \in Receipt : q < p} |-> Free(d, q)])
      filled == SumFunction([c \in {c \in Bill : c < b} |-> Needs(d, c)])
  IN  Positive(Least(given + Free(d, p), filled + Needs(d, b)) - Most(given, filled))

(* The upsert adds to the row that is there, and turns it on again: a row  *)
(* that was released comes back with the amount it had.                    *)
AutoAllocate(d) ==
  [d EXCEPT !.share = [p \in Receipt |-> [b \in Bill |->
     IF Flow(d, p, b) > 0
     THEN [held |-> "active", amount |-> @[p][b].amount + Flow(d, p, b)]
     ELSE @[p][b]]]]

Affected(d) == {b \in Bill : \E p \in Receipt : Flow(d, p, b) > 0}

(***************************************************************************)
(* reconcileInvoiceFinancialsTx releases what invoice b holds beyond its   *)
(* due, newest payment first: a row that goes altogether is only marked    *)
(* inactive and keeps its amount.                                          *)
(***************************************************************************)

Back(d, p, b) ==
  LET newer == SumFunction([q \in {q \in Receipt : q > p} |-> Counted(d, q, b)])
  IN  Least(Counted(d, p, b), Positive(Paid(d, b) - Due(d, b) - newer))

LessBy(row, n) ==
  IF n = 0 THEN row
  ELSE IF n = row.amount THEN [row EXCEPT !.held = "inactive"]
  ELSE [row EXCEPT !.amount = @ - n]

Release(d, b) ==
  [d EXCEPT !.share = [p \in Receipt |-> [@[p] EXCEPT ![b] = LessBy(d.share[p][b], Back(d, p, b))]]]

------------------------------------------------------------------------------
(* Requests *)

Submit(r, op, own, after, judged) ==
  /\ job[r].op = "idle"
  /\ ops < MaxOps
  /\ own # NoBill => \A s \in Request : job[s].own # own
  /\ ops' = ops + 1
  /\ job' = [job EXCEPT ![r] = [op |-> op, own |-> own, before |-> books,
                                after |-> Judge(after, judged), judged |-> judged]]
  /\ UNCHANGED <<books, shaky, crossed, drift>>

(* updateOrder (by way of its sync) and updateInvoice write the row of     *)
(* their invoice before they read the rest: it stays locked to the end.    *)
Locked(b) == \E r \in Request : job[r].op \in {"UpdateOrder", "UpdateInvoice"} /\ job[r].own = b

(* A handler that writes one row on what it finds there is one step. *)
Write(d, moved) ==
  /\ ops < MaxOps
  /\ ops' = ops + 1
  /\ books' = d
  /\ drift' = drift \cup moved
  /\ UNCHANGED <<job, shaky, crossed>>

(* ensureInvoiceForOrderTx within createOrder and importOrdersCsv, and     *)
(* syncInvoiceFromOrderTx, end in the same reconciliation.                 *)
WithBill(d, b, row) == [d EXCEPT !.bill[b] = row]

Reconciled(r, op, b, d) ==
  LET released == Release(d, b)
  IN  /\ Due(d, b) >= 0
      /\ Submit(r, op, b, AutoAllocate(released), {b} \cup Affected(released))

CreateOrder(r, b, total) ==
  /\ b \in OrderBill
  /\ books.order[b] = "none"
  /\ Reconciled(r, "CreateOrder", b,
       WithBill([books EXCEPT !.order[b] = "open"], b,
                [state |-> "active", kind |-> "TAX_INVOICE", status |-> "PENDING", total |-> total]))

(* updateOrder, and createInvoice for an order (same total).  A void       *)
(* invoice is not synced; when the invoice was soft-deleted the new one    *)
(* would break the unique key on the order, and everything fails.          *)
UpdateOrder(r, b, total) ==
  /\ books.order[b] \in {"open", "cancelled"}
  /\ IsActive(books, b)
  /\ books.bill[b].status # "VOID"
  /\ Reconciled(r, "UpdateOrder", b, WithBill(books, b, [books.bill[b] EXCEPT !.total = total]))

(* createInvoice without an order *)
CreateInvoice(r, b, kind, total) ==
  LET d == WithBill(books, b,
             [state |-> "active", kind |-> kind, total |-> total,
              status |-> IF kind = "PROFORMA" THEN "DRAFT" ELSE "PENDING"])
  IN  /\ b \in Bill \ OrderBill
      /\ books.bill[b].state = "none"
      /\ Submit(r, "CreateInvoice", b, AutoAllocate(d), Affected(d))

(* updateInvoice: new items only without an order; the total is added up   *)
(* again either way.  The status of b itself is not worked out anew, nor   *)
(* is anything released.                                                   *)
UpdateInvoice(r, b, total) ==
  LET d == WithBill(books, b, [books.bill[b] EXCEPT !.total = total])
  IN  /\ IsActive(books, b)
      /\ b \in OrderBill => total = books.bill[b].total
      /\ Submit(r, "UpdateInvoice", b, AutoAllocate(d), Affected(d))

(* updateInvoiceStatus takes any status, for deleted invoices too. *)
UpdateInvoiceStatus(b, status) ==
  /\ books.bill[b].state \in {"active", "inactive"}
  /\ ~Locked(b)
  /\ status # books.bill[b].status
  /\ Write(WithBill(books, b, [books.bill[b] EXCEPT !.status = status]), {b})

(* A soft-deleted invoice *)
Removed(row) == [row EXCEPT !.state = "inactive", !.status = "VOID"]

(* deleteInvoice looks for allocations before its transaction. *)
DeleteInvoice(r, b) ==
  /\ IsActive(books, b)
  /\ \A p \in Receipt : Counted(books, p, b) = 0
  /\ Submit(r, "DeleteInvoice", b, WithBill(books, b, Removed(books.bill[b])), {})

WithReceipt(d, p, row, share) == [d EXCEPT !.receipt[p] = row, !.share[p] = share]

(* createPayment: `part` of it goes to `to`, if there is any.  The status  *)
(* of that invoice is worked out first, which opens it when it was void;   *)
(* then the rest, and what else is free, is spread automatically.          *)
Received(r, p, amount, order, to, part) ==
  LET paid == IF part > 0 THEN {to} \cap Bill ELSE {}
      d == WithReceipt(books, p, [state |-> "RECORDED", amount |-> amount, order |-> order],
             [b \in Bill |-> IF b \in paid THEN [held |-> "active", amount |-> part]
                             ELSE books.share[p][b]])
      opened == Judge(d, paid)
      fresh == books.receipt[p].state = "none"
                 /\ \A s \in Request : job[s].after.receipt[p].state = "none"
  IN  /\ fresh
      /\ amount > 0
      /\ part <= amount
      /\ Submit(r, "CreatePayment", NoBill, AutoAllocate(opened), paid \cup Affected(opened))

CreatePayment(r, p, amount) == Received(r, p, amount, NoBill, NoBill, 0)

(* With an allocation of the caller's choice, which may pass what is due.  *)
(* The payment is linked to the order of the invoice.                      *)
CreatePaymentFor(r, p, amount, b, part) ==
  /\ IsActive(books, b)
  /\ part > 0
  /\ Received(r, p, amount, IF b \in OrderBill THEN b ELSE NoBill, b, part)

(* For an order: as much as its invoice still lacks, notes aside; the      *)
(* status of the invoice is not looked at.                                 *)
CreatePaymentForOrder(r, p, amount, b) ==
  /\ books.order[b] \in {"open", "cancelled"}
  /\ IsActive(books, b)
  /\ Received(r, p, amount, b, b, Least(amount, Positive(books.bill[b].total - Paid(books, b))))

(* hardDeletePaymentTx *)
DeletePayment(r, p) ==
  /\ books.receipt[p].state \in {"RECORDED", "REVERSED"}
  /\ Submit(r, "DeletePayment", NoBill,
       WithReceipt(books, p, [books.receipt[p] EXCEPT !.state = "gone"], [b \in Bill |-> NoShare]),
       {b \in Bill : books.share[p][b].held = "active"})

(* Mutant: the status of the order is written to the invoice. *)
CancelOrderAlike(b) ==
  /\ books.order[b] = "open"
  /\ ~Locked(b)
  /\ Write([books EXCEPT !.order[b] = "cancelled", !.bill[b].status = "CANCELLED"], {})

(* An allocation that is no longer used keeps its amount. *)
TurnedOff(share) == [share EXCEPT !.held = IF @ = "active" THEN "inactive" ELSE @]

(* cancelOrderTx, its part here: the allocations of the invoice go         *)
(* inactive and it is void, paid or not.                                   *)
CancelOrder(b) ==
  /\ books.order[b] = "open"
  /\ ~Locked(b)
  /\ Write([bill |-> [books.bill EXCEPT ![b].status = "VOID"],
            receipt |-> books.receipt,
            share |-> [p \in Receipt |-> [books.share[p] EXCEPT ![b] = TurnedOff(@)]],
            note |-> books.note,
            order |-> [books.order EXCEPT ![b] = "cancelled"]], {})

(* hardDeleteOrderTx, its part here.  Payments linked to the order that    *)
(* pay nothing else go with it, the others only lose the link.             *)
Elsewhere(p, b) == \E c \in Bill \ {b} : books.share[p][c].held = "active"
LinkedTo(p, b) == books.receipt[p].order = b /\ books.receipt[p].state \in {"RECORDED", "REVERSED"}
DeleteOrder(r, b) ==
  /\ books.order[b] \in {"open", "cancelled"}
  /\ Submit(r, "DeleteOrder", b,
       [bill |-> [books.bill EXCEPT ![b].state = "gone"],
        receipt |-> [p \in Receipt |->
           IF ~LinkedTo(p, b) THEN books.receipt[p]
           ELSE IF Elsewhere(p, b) THEN [books.receipt[p] EXCEPT !.order = NoBill]
           ELSE [books.receipt[p] EXCEPT !.state = "gone"]],
        share |-> [p \in Receipt |->
           IF LinkedTo(p, b) /\ ~Elsewhere(p, b) THEN [c \in Bill |-> NoShare]
           ELSE [books.share[p] EXCEPT ![b] = NoShare]],
        note |-> [books.note EXCEPT ![b] = 0],
        order |-> [books.order EXCEPT ![b] = "gone"]], {})

(* createNote for an invoice; no status is worked out anew. *)
CreateNote(b, effect) ==
  /\ IsActive(books, b)
  /\ Write([books EXCEPT !.note[b] = @ + effect], {b})

(* deleteClientLedgerMonthData, its part here.                             *)
MonthBills == {b \in Month.bills : IsActive(books, b) /\ books.bill[b].kind # "PROFORMA"}
MonthReceipts == {p \in Month.receipts : books.receipt[p].state = "RECORDED"}

(* Mutant: allocations that payments of other months made to the month's   *)
(* invoices stay.                                                          *)
DetachedWithPayment(p, b) == p \in MonthReceipts

Detached(p, b) == p \in MonthReceipts \/ (b \in MonthBills /\ books.receipt[p].state = "RECORDED")

CleanUpMonth(r) ==
  /\ MonthBills # {} \/ MonthReceipts # {}
  /\ Submit(r, "CleanUpMonth", NoBill,
       [bill |-> [b \in Bill |-> IF b \in MonthBills THEN Removed(books.bill[b]) ELSE books.bill[b]],
        receipt |-> [p \in Receipt |-> IF p \in MonthReceipts
                       THEN [books.receipt[p] EXCEPT !.state = "REVERSED"] ELSE books.receipt[p]],
        share |-> [p \in Receipt |-> [b \in Bill |->
           IF Detached(p, b) THEN TurnedOff(books.share[p][b]) ELSE books.share[p][b]]],
        note |-> [b \in Bill |-> IF b \in MonthBills THEN 0 ELSE books.note[b]],
        order |-> books.order],
       {b \in Bill \ MonthBills : \E p \in MonthReceipts : books.share[p][b].held = "active"})

------------------------------------------------------------------------------
(* The end of a transaction *)

Gained(j, p, b) == j.after.share[p][b].amount > j.before.share[p][b].amount
Writes(j, p, b) == j.after.share[p][b] # j.before.share[p][b]

(* One allocation row: amounts are incremented and decremented, the flag   *)
(* is set.                                                                 *)
MergedShare(now, was, to) ==
  IF to = was THEN now
  ELSE IF to.held = "none" THEN NoShare
  ELSE [held |-> IF to.amount < was.amount THEN now.held ELSE to.held,
        amount |-> now.amount + to.amount - was.amount]

MergedBill(b, now, was, to, own) ==
  IF was.state = "none" THEN (IF to = was THEN now ELSE to)
  ELSE [state |-> IF to.state = was.state THEN now.state ELSE to.state,
        kind |-> now.kind,
        status |-> IF to.status = was.status THEN now.status ELSE to.status,
        total |-> IF b = own THEN to.total ELSE now.total]

MergedReceipt(now, was, to) ==
  [state |-> IF to.state = was.state THEN now.state ELSE to.state,
   amount |-> IF was.state = "none" /\ to # was THEN to.amount ELSE now.amount,
   order |-> IF to.order = was.order THEN now.order ELSE to.order]

Merged(d, j) ==
  LET receipt == [p \in Receipt |->
                    MergedReceipt(d.receipt[p], j.before.receipt[p], j.after.receipt[p])]
      bill == [b \in Bill |->
                 MergedBill(b, d.bill[b], j.before.bill[b], j.after.bill[b], j.own)]
      exists(p, b) == receipt[p].state # "gone" /\ bill[b].state # "gone"
  IN  [bill |-> bill, receipt |-> receipt,
       share |-> [p \in Receipt |-> [b \in Bill |->
          IF ~exists(p, b) THEN NoShare
          ELSE MergedShare(d.share[p][b], j.before.share[p][b], j.after.share[p][b])]],
       note |-> [b \in Bill |-> IF bill[b].state = "gone" THEN 0
                                ELSE d.note[b] + j.after.note[b] - j.before.note[b]],
       order |-> [b \in Bill |-> IF j.after.order[b] = j.before.order[b]
                                 THEN d.order[b] ELSE j.after.order[b]]]

(* A row it creates or updates hangs on a row deleted meanwhile.           *)
Broken(j) ==
  \/ \E p \in Receipt :
       /\ books.receipt[p].state = "gone"
       /\ j.after.receipt[p].state # "gone"
       /\ \/ j.after.receipt[p] # j.before.receipt[p]
          \/ \E b \in Bill : Gained(j, p, b)
  \/ \E b \in Bill :
       /\ books.bill[b].state = "gone"
       /\ j.after.bill[b].state # "gone"
       /\ \/ j.after.bill[b] # j.before.bill[b]
          \/ \E p \in Receipt : Gained(j, p, b)

(* What of invoice b, or of payment p, has changed since j read it. *)
Moved(j, b) ==
  \/ books.bill[b] # j.before.bill[b] \/ books.note[b] # j.before.note[b]
  \/ \E p \in Receipt :
       \/ books.share[p][b] # j.before.share[p][b]
       \/ /\ books.receipt[p] # j.before.receipt[p]
          /\ books.share[p][b].held = "active" \/ Gained(j, p, b)
Spent(j, p) == books.share[p] # j.before.share[p]

Touched(j) ==
  {b \in Bill :
     \/ b = j.own \/ b \in j.judged \/ j.after.bill[b] # j.before.bill[b]
     \/ \E p \in Receipt : Writes(j, p, b) \/ j.after.receipt[p].state # j.before.receipt[p].state}

(***************************************************************************)
(* Commit.  The statuses were worked out by reads that came after the      *)
(* writes of this transaction but may come before or after the commit of   *)
(* another: `late` is the latter.  They are late for sure when this one    *)
(* had to wait for the other's lock on an allocation row.                  *)
(***************************************************************************)
Commit(r, late) ==
  LET j == job[r]
      merged == Merged(books, j)
      raced == {b \in Touched(j) : Moved(j, b)}
  IN  /\ j.op # "idle"
      /\ ~Broken(j)
      /\ late \/ \A p \in Receipt, b \in Bill :
                   Writes(j, p, b) => books.share[p][b] = j.before.share[p][b]
      /\ books' = IF late THEN Judge(merged, j.judged) ELSE merged
      /\ \A b \in Bill \ {j.own} : Locked(b) => books'.bill[b] = books.bill[b]
      /\ job' = [job EXCEPT ![r] = Idle]
      /\ shaky' = shaky \cup
           {p \in Receipt : \E b \in Bill : /\ Gained(j, p, b)
                                            /\ \/ Spent(j, p)
                                               \/ j.before.share[p][b].held = "inactive"}
      /\ crossed' = crossed \cup raced
      /\ drift' = (drift \cup raced \cup (IF j.op = "UpdateInvoice" THEN {j.own} ELSE {}))
                    \ (IF late THEN j.judged ELSE j.judged \ raced)
      /\ UNCHANGED ops

(* The transaction rolls back, or the process dies. *)
Fail(r) ==
  /\ job[r].op # "idle"
  /\ job' = [job EXCEPT ![r] = Idle]
  /\ UNCHANGED <<books, ops, shaky, crossed, drift>>

------------------------------------------------------------------------------
Init ==
  /\ books = EmptyBooks
  /\ job = [r \in Request |-> Idle]
  /\ ops = 0
  /\ shaky = {} /\ crossed = {} /\ drift = {}

Documents(r) ==
  \E b \in Bill :
    \/ \E total \in Amounts :
         \/ CreateOrder(r, b, total)
         \/ UpdateOrder(r, b, total)
         \/ \E kind \in {"TAX_INVOICE", "PROFORMA"} : CreateInvoice(r, b, kind, total)
         \/ UpdateInvoice(r, b, total)
    \/ DeleteInvoice(r, b)
    \/ DeleteOrder(r, b)

Payments(r) ==
  \E p \in Receipt :
    \/ \E amount \in Amounts :
         \/ CreatePayment(r, p, amount)
         \/ \E b \in Bill : CreatePaymentForOrder(r, p, amount, b)
         \/ \E b \in Bill, part \in Amounts : CreatePaymentFor(r, p, amount, b, part)
    \/ DeletePayment(r, p)

Next ==
  \/ \E r \in Request :
       \/ Documents(r) \/ Payments(r) \/ CleanUpMonth(r)
       \/ \E late \in BOOLEAN : Commit(r, late)
       \/ Fail(r)
  \/ \E b \in Bill :
       \/ \E status \in {"PENDING", "PAID", "VOID"} : UpdateInvoiceStatus(b, status)
       \/ \E effect \in {-1, 1} : CreateNote(b, effect)
       \/ CancelOrder(b)

Spec == Init /\ [][Next]_vars

------------------------------------------------------------------------------
(* Reports *)

(* buildClientLedger: what the client owes by the ledger, the balance      *)
(* carried over from before aside.  Void invoices that are active count.   *)
Ledger ==
  LET invoices == {b \in Bill : IsActive(books, b) /\ books.bill[b].kind # "PROFORMA"}
      payments == {p \in Receipt : books.receipt[p].state = "RECORDED"}
  IN  SumFunction([b \in invoices |-> books.bill[b].total])
        + SumFunction(books.note)
        - SumFunction([p \in payments |-> books.receipt[p].amount])

(* computeSalesOutstandingEstimated and getSalesAdvanceSummaryTx *)
Outstanding == SumFunction([b \in Bill |-> Needs(books, b)])
Advance ==
  SumFunction([p \in {p \in Receipt : books.receipt[p].state = "RECORDED"} |->
                 books.receipt[p].amount - Allocated(books, p)])

------------------------------------------------------------------------------
(* Properties *)

(* Every table holds rows of its columns' types. *)
TypeOK ==
  /\ books \in Books
  /\ \A r \in Request : job[r].before \in Books /\ job[r].after \in Books
  /\ shaky \subseteq Receipt
  /\ crossed \subseteq Bill /\ drift \subseteq Bill

(* "Sum of allocations cannot exceed payment amount" (createPayment), for  *)
(* every payment at any time.                                              *)
AllocationsWithinPayment ==
  \A p \in Receipt : Allocated(books, p) <= books.receipt[p].amount

(* It is broken in two ways only: a released allocation is applied again   *)
(* with its old amount, or two requests spend the payment at once.         *)
OverAllocationExplained ==
  \A p \in Receipt : Allocated(books, p) > books.receipt[p].amount => p \in shaky

(* The stored status of an invoice, which reminders and the dashboard go   *)
(* by, tells how far it is paid, unless a note, a manual edit or two       *)
(* requests at once changed what is due or paid without a recompute.       *)
StatusTellsPaid ==
  \A b \in Bill : IsActive(books, b) /\ b \notin drift =>
    books.bill[b].status = Verdict(books, b)

(* A request that nobody overtook leaves no payment with money to spend    *)
(* beside an invoice that needs it, one that the request itself has opened *)
(* again included, and gives to an invoice only once all older ones have   *)
(* what they need (but for the caller's own choice in createPayment).      *)
Spreads == {"CreateOrder", "UpdateOrder", "CreateInvoice", "UpdateInvoice", "CreatePayment"}
MoneyIsPutToUse ==
  [][\A r \in Request :
       /\ job[r].op \in Spreads
       /\ job'[r].op = "idle"
       /\ books' # books
       /\ books = job[r].before
       => LET open == {b \in Bill : Needs(books', b) > 0}
          IN  /\ \A p \in Receipt : Free(books', p) > 0 => open = {}
              /\ job[r].op # "CreatePayment" =>
                   \A p \in Receipt, b \in Bill, c \in open : Gained(job[r], p, b) => b <= c]_vars

(* The ledger and the summary of a client agree on what is owed, as long   *)
(* as no invoice is void, proforma, overpaid or deleted with notes on it,  *)
(* unless two requests worked on one invoice at once.  In particular no    *)
(* money stays on a deleted invoice.                                       *)
Ordinary(b) ==
  \/ IsActive(books, b) /\ Billable(books, b) /\ Paid(books, b) <= Due(books, b)
  \/ ~IsActive(books, b) /\ books.note[b] = 0
LedgerAgreesWithSummary ==
  crossed = {} /\ (\A b \in Bill : Ordinary(b)) => Ledger = Outstanding - Advance
==============================================================================
