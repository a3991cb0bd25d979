-------------------------- MODULE Receivables_proofs --------------------------
(***************************************************************************)
(* What is proved about Receivables: that its tables stay well typed, that *)
(* payments are over-allocated in the named ways only, that the status of  *)
(* an invoice tells how far it is paid, that ledger and summary agree, and *)
(* that money which is free goes to the invoices that need it.             *)
(***************************************************************************)
EXTENDS Receivables, SumTheorems, TLAPS

(* An allocation row is no debt, and there is none without its payment and *)
(* its invoice.  Notes and orders go with their invoice.                   *)
RowOK(row, receipt, bill) ==
  /\ row.amount >= 0
  /\ \/ row.held = "none" \/ receipt.state \in {"none", "gone"} \/ bill.state \in {"none", "gone"}
     => row = NoShare
RowsOK(d) ==
  /\ \A p \in Receipt, b \in Bill : RowOK(d.share[p][b], d.receipt[p], d.bill[b])
  /\ \A b \in Bill : d.bill[b].state = "gone" => d.note[b] = 0
  /\ \A b \in OrderBill : d.order[b] = "none" => d.bill[b].state = "none"

(* What payment p holds on to, whether it is reversed or not. *)
Held(d, p, b) == IF d.share[p][b].held = "active" THEN d.share[p][b].amount ELSE 0
Holding(d, p) == SumFunction([b \in Bill |-> Held(d, p, b)])

(* The claims, of one payment or invoice in the books d. *)
SpendOK(d, p) == Holding(d, p) <= d.receipt[p].amount
StatusOK(d, b) == IsActive(d, b) => d.bill[b].status = Verdict(d, b)
IdleOK(d, b) == ~IsActive(d, b) => \A p \in Receipt : Counted(d, p, b) = 0

Claims(d) ==
  /\ \A p \in Receipt \ shaky : SpendOK(d, p)
  /\ \A b \in Bill \ drift : StatusOK(d, b)
  /\ \A b \in Bill \ crossed : IdleOK(d, b)

(***************************************************************************)
(* What a request for invoice `own` does between the books c it read and   *)
(* the books d it wants: what becomes of a row, and which claims hold in d *)
(* if they held in c.                                                      *)
(***************************************************************************)
SharePlan(was, to, mine, ended) ==
  \/ to = was
  \/ to = NoShare /\ ended
  \/ to.held = "inactive" /\ was.held = "active" /\ to.amount = was.amount
  \/ mine /\ to.held = "active" /\ was.held = "active" /\ to.amount < was.amount
  \/ to.held = "active" /\ to.amount > was.amount

BillPlan(was, to, mine) ==
  /\ was.state = "none" => to = was \/ (mine /\ to.state # "none")
  /\ was.state # "none" => to.state # "none" /\ to.kind = was.kind
  /\ mine \/ to.total = was.total
  /\ was.state = "gone" => to = was
  /\ to.state = "gone" => was.state = "gone" \/ mine

ReceiptPlan(was, to) ==
  /\ was.state = "none" => to = was \/ to.state # "none"
  /\ was.state # "none" => to.state # "none" /\ to.amount = was.amount
  /\ was.state = "gone" => to = was

Ends(own, d, p, b) == d.receipt[p].state = "gone" \/ (b = own /\ d.bill[b].state = "gone")
Reapplies(c, d, p, b) == d.share[p][b].amount > c.share[p][b].amount /\ c.share[p][b].held = "inactive"

Fulfils(op, own, c, d, T) ==
  /\ \A p \in Receipt, b \in Bill :
       SharePlan(c.share[p][b], d.share[p][b], b = own, Ends(own, d, p, b))
  /\ \A b \in Bill : /\ BillPlan(c.bill[b], d.bill[b], b = own)
                     /\ d.note[b] # c.note[b] => d.bill[b] # c.bill[b]
                     /\ d.order[b] # c.order[b] => d.order[b] # "none"
  /\ \A p \in Receipt : ReceiptPlan(c.receipt[p], d.receipt[p])
  /\ \A p \in Receipt : SpendOK(c, p) /\ (\A b \in Bill : ~Reapplies(c, d, p, b)) => SpendOK(d, p)
  /\ \A b \in Bill \ T : StatusOK(c, b) /\ ~ (op = "UpdateInvoice" /\ b = own) => StatusOK(d, b)
  /\ \A b \in Bill : IdleOK(c, b) => IdleOK(d, b)

(***************************************************************************)
(* A request that read the books c and leaves d: no payment has money to   *)
(* spend beside an open invoice, and none went past an open invoice to a   *)
(* newer one.                                                              *)
(***************************************************************************)
Open(d) == {b \in Bill : Needs(d, b) > 0}
Poured(op, c, d) ==
  /\ \A p \in Receipt : Free(d, p) > 0 => Open(d) = {}
  /\ op # "CreatePayment" =>
       \A p \in Receipt, b \in Bill, a \in Open(d) :
         d.share[p][b].amount > c.share[p][b].amount => b <= a

Plan(j) ==
  /\ Fulfils(j.op, j.own, j.before, j.after, j.judged)
  /\ \A b \in j.judged : StatusOK(j.after, b)
  /\ RowsOK(j.before) /\ RowsOK(j.after)
  /\ j.op = "UpdateInvoice" => j.own \in Bill
  /\ j.op \in Spreads => Poured(j.op, j.before, j.after)

(* How the plan of a request stands to the books d as they are by now. *)
InTouch(d, j) ==
  /\ \A p \in Receipt :
       IF j.before.receipt[p].state = "none"
       THEN j.after.receipt[p] # j.before.receipt[p] => d.receipt[p].state = "none"
       ELSE d.receipt[p].state # "none" /\ d.receipt[p].amount = j.before.receipt[p].amount
  /\ \A b \in Bill :
       IF j.before.bill[b].state = "none"
       THEN j.after.bill[b] # j.before.bill[b] => d.bill[b].state = "none"
       ELSE d.bill[b].state # "none" /\ d.bill[b].kind = j.before.bill[b].kind
  /\ \A b \in Bill : j.before.order[b] # "none" => d.order[b] # "none"
  /\ \A p \in Receipt, b \in Bill :
       b = j.own /\ d.receipt[p].state # "gone" /\ d.bill[b].state # "gone" =>
         d.share[p][b].amount >= j.before.share[p][b].amount

Creates(j, p) == j.before.receipt[p].state = "none" /\ j.after.receipt[p] # j.before.receipt[p]
Apart(j, k) ==
  /\ j.own = k.own => j.own = NoBill
  /\ \A p \in Receipt : ~ (Creates(j, p) /\ Creates(k, p))

Ops == {"idle", "CreateOrder", "UpdateOrder", "CreateInvoice", "UpdateInvoice", "DeleteInvoice",
        "CreatePayment", "DeletePayment", "DeleteOrder", "CleanUpMonth"}
JobType == [op : Ops, own : Bill \cup {NoBill}, before : Books, after : Books, judged : SUBSET Bill]

Jobs ==
  /\ \A r \in Request : Plan(job[r]) /\ InTouch(books, job[r])
  /\ \A r, s \in Request : r = s \/ Apart(job[r], job[s])
Sound == RowsOK(books) /\ Claims(books)
TypeInv == TypeOK /\ job \in [Request -> JobType]
IInv == TypeInv /\ Sound /\ Jobs

------------------------------------------------------------------------------
(* What is read off books of the right types. *)

LEMMA Sizes ==
  /\ IsFiniteSet(Receipt) /\ Receipt \subseteq Nat
  /\ IsFiniteSet(Bill) /\ Bill \subseteq Nat /\ OrderBill \subseteq Bill
  /\ NoBill \notin Bill
BY TablesAreFinite, BillsAreNumbered, ReceiptsAreNumbered, NoBillIsNoBill

LEMMA BookRows ==
  ASSUME NEW d \in Books
  PROVE  /\ \A p \in Receipt : d.receipt[p] \in PaymentRow
         /\ \A b \in Bill : d.bill[b] \in BillRow /\ d.note[b] \in Int /\ d.bill[b].total \in Nat
         /\ \A p \in Receipt : d.receipt[p].amount \in Nat
         /\ \A p \in Receipt, b \in Bill :
              d.share[p][b] \in Allocation /\ d.share[p][b].amount \in Int
BY DEF Books, PaymentRow, BillRow, Allocation

LEMMA CountedIsInt ==
  ASSUME NEW d \in Books, NEW p \in Receipt, NEW b \in Bill
  PROVE  Counted(d, p, b) \in Int /\ Held(d, p, b) \in Int
BY BookRows DEF Counted, Held

LEMMA CountedIsNat ==
  ASSUME NEW d \in Books, RowsOK(d), NEW p \in Receipt, NEW b \in Bill
  PROVE  Counted(d, p, b) \in Nat /\ Held(d, p, b) \in Nat /\ Counted(d, p, b) <= Held(d, p, b)
<1>1. d.share[p][b].amount \in Int /\ d.share[p][b].amount >= 0
  BY BookRows DEF RowsOK, RowOK
<1> QED
  BY <1>1 DEF Counted, Held

LEMMA PaidIs ==
  ASSUME NEW d, NEW b
  PROVE  Paid(d, b) = SumFunctionOnSet([p \in Receipt |-> Counted(d, p, b)], Receipt)
<1> DEFINE f == [p \in Receipt |-> Counted(d, p, b)]
<1>1. DOMAIN f = Receipt
  OBVIOUS
<1> QED
  BY <1>1 DEF Paid, SumFunction

LEMMA AllocatedIs ==
  ASSUME NEW d, NEW p
  PROVE  Allocated(d, p) = SumFunctionOnSet([b \in Bill |-> Counted(d, p, b)], Bill)
<1> DEFINE f == [b \in Bill |-> Counted(d, p, b)]
<1>1. DOMAIN f = Bill
  OBVIOUS
<1> QED
  BY <1>1 DEF Allocated, SumFunction

LEMMA HoldingIs ==
  ASSUME NEW d, NEW p
  PROVE  Holding(d, p) = SumFunctionOnSet([b \in Bill |-> Held(d, p, b)], Bill)
<1> DEFINE f == [b \in Bill |-> Held(d, p, b)]
<1>1. DOMAIN f = Bill
  OBVIOUS
<1> QED
  BY <1>1 DEF Holding, SumFunction

LEMMA PaidIsInt ==
  ASSUME NEW d \in Books, NEW b \in Bill
  PROVE  Paid(d, b) \in Int /\ Due(d, b) \in Int
<1> DEFINE f == [p \in Receipt |-> Counted(d, p, b)]
<1>1. \A p \in Receipt : f[p] \in Int
  BY CountedIsInt
<1>2. Paid(d, b) = SumFunctionOnSet(f, Receipt)
  BY PaidIs
<1> HIDE DEF f
<1>3. Paid(d, b) \in Int
  BY <1>1, <1>2, Sizes, SumIsInt
<1> QED
  BY <1>3, BookRows DEF Due

LEMMA AllocatedIsInt ==
  ASSUME NEW d \in Books, NEW p \in Receipt
  PROVE  Allocated(d, p) \in Int
<1> DEFINE f == [b \in Bill |-> Counted(d, p, b)]
<1>1. \A b \in Bill : f[b] \in Int
  BY CountedIsInt
<1>2. Allocated(d, p) = SumFunctionOnSet(f, Bill)
  BY AllocatedIs
<1> HIDE DEF f
<1> QED
  BY <1>1, <1>2, Sizes, SumIsInt

LEMMA HoldingIsInt ==
  ASSUME NEW d \in Books, NEW p \in Receipt
  PROVE  Holding(d, p) \in Int
<1> DEFINE f == [b \in Bill |-> Held(d, p, b)]
<1>1. \A b \in Bill : f[b] \in Int
  BY CountedIsInt
<1>2. Holding(d, p) = SumFunctionOnSet(f, Bill)
  BY HoldingIs
<1> HIDE DEF f
<1> QED
  BY <1>1, <1>2, Sizes, SumIsInt

(* A payment that holds less on every invoice holds less.                  *)
LEMMA HoldingAtMost ==
  ASSUME NEW c \in Books, NEW d \in Books, NEW p \in Receipt,
         \A b \in Bill : Held(d, p, b) <= Held(c, p, b)
  PROVE  Holding(d, p) <= Holding(c, p)
<1> DEFINE f == [b \in Bill |-> Held(d, p, b)]
           g == [b \in Bill |-> Held(c, p, b)]
<1>1. \A b \in Bill : f[b] \in Int /\ g[b] \in Int /\ f[b] <= g[b]
  BY CountedIsInt
<1>2. Holding(d, p) = SumFunctionOnSet(f, Bill) /\ Holding(c, p) = SumFunctionOnSet(g, Bill)
  BY HoldingIs
<1> HIDE DEF f, g
<1>3. SumFunctionOnSet(f, Bill) <= SumFunctionOnSet(g, Bill)
  BY <1>1, Sizes, SumAtMost
<1> QED
  BY <1>2, <1>3

LEMMA HoldingNothing ==
  ASSUME NEW d \in Books, NEW p \in Receipt, \A b \in Bill : Held(d, p, b) = 0
  PROVE  Holding(d, p) = 0
<1> DEFINE f == [b \in Bill |-> Held(d, p, b)]
<1>1. \A b \in Bill : f[b] = 0
  OBVIOUS
<1>2. Holding(d, p) = SumFunctionOnSet(f, Bill)
  BY HoldingIs
<1> HIDE DEF f
<1> QED
  BY <1>1, <1>2, Sizes, SumOfZeros

LEMMA SpendLess ==
  ASSUME NEW c \in Books, NEW d \in Books, NEW p \in Receipt, SpendOK(c, p),
         \A b \in Bill : Held(d, p, b) <= Held(c, p, b),
         d.receipt[p].amount = c.receipt[p].amount
  PROVE  SpendOK(d, p)
<1> DEFINE x == Holding(c, p)
           y == Holding(d, p)
           n == c.receipt[p].amount
<1>1. y <= x /\ x <= n /\ x \in Int /\ y \in Int /\ n \in Int /\ d.receipt[p].amount = n
  BY HoldingAtMost, HoldingIsInt, BookRows DEF SpendOK
<1>2. y <= d.receipt[p].amount
  <2> HIDE DEF x, y, n
  <2> QED
    BY <1>1
<1> QED
  BY <1>2 DEF SpendOK

LEMMA SpendNothing ==
  ASSUME NEW d \in Books, NEW p \in Receipt, \A b \in Bill : Held(d, p, b) = 0
  PROVE  SpendOK(d, p)
BY HoldingNothing, BookRows DEF SpendOK

LEMMA PaidNothing ==
  ASSUME NEW d, NEW b, \A p \in Receipt : Counted(d, p, b) = 0
  PROVE  Paid(d, b) = 0
<1> DEFINE f == [p \in Receipt |-> Counted(d, p, b)]
<1>1. \A p \in Receipt : f[p] = 0
  OBVIOUS
<1>2. Paid(d, b) = SumFunctionOnSet(f, Receipt)
  BY PaidIs
<1> HIDE DEF f
<1> QED
  BY <1>1, <1>2, Sizes, SumOfZeros

(***************************************************************************)
(* Two books are alike at invoice b when its status and what is paid on it *)
(* are the same; what is claimed of it then holds in both or in neither.   *)
(***************************************************************************)
Alike(c, d, b) ==
  /\ d.bill[b] = c.bill[b]
  /\ IsActive(c, b) => d.note[b] = c.note[b]
  /\ \A p \in Receipt : Counted(d, p, b) = Counted(c, p, b)

LEMMA PaidSame ==
  ASSUME NEW c, NEW d, NEW b, \A p \in Receipt : Counted(d, p, b) = Counted(c, p, b)
  PROVE  Paid(d, b) = Paid(c, b)
<1>1. [p \in Receipt |-> Counted(d, p, b)] = [p \in Receipt |-> Counted(c, p, b)]
  OBVIOUS
<1> QED
  BY <1>1 DEF Paid

LEMMA AlikeClaims ==
  ASSUME NEW c, NEW d, NEW b, Alike(c, d, b)
  PROVE  /\ StatusOK(c, b) => StatusOK(d, b)
         /\ IdleOK(c, b) => IdleOK(d, b)
<1>1. /\ d.bill[b] = c.bill[b] /\ Paid(d, b) = Paid(c, b)
      /\ IsActive(c, b) => d.note[b] = c.note[b]
      /\ \A p \in Receipt : Counted(d, p, b) = Counted(c, p, b)
  BY PaidSame DEF Alike
<1>2. IsActive(d, b) <=> IsActive(c, b)
  BY <1>1 DEF IsActive
<1>3. ASSUME IsActive(c, b), StatusOK(c, b)
      PROVE  StatusOK(d, b)
  <2>1. d.note[b] = c.note[b] /\ c.bill[b].status = Verdict(c, b)
    BY <1>1, <1>3 DEF StatusOK
  <2>2. Verdict(d, b) = Verdict(c, b)
    BY <1>1, <2>1 DEF Verdict, Due
  <2> QED
    BY <1>1, <2>1, <2>2 DEF StatusOK
<1>4. ~IsActive(c, b) => StatusOK(d, b)
  BY <1>2 DEF StatusOK
<1> QED
  BY <1>1, <1>2, <1>3, <1>4 DEF IdleOK

(* Status and total of an invoice without payments *)
LEMMA UnpaidStatus ==
  ASSUME NEW d, NEW b, \A p \in Receipt : Counted(d, p, b) = 0,
         d.bill[b].status \notin {"PARTIALLY_PAID", "PAID"}
  PROVE  StatusOK(d, b)
BY PaidNothing DEF StatusOK, Verdict

------------------------------------------------------------------------------
(* recomputeInvoiceStatusTx changes the statuses of active invoices only.  *)

LEMMA JudgeIs ==
  ASSUME NEW d \in Books, NEW T \in SUBSET Bill
  PROVE  LET e == Judge(d, T)
         IN  /\ e \in Books
             /\ e.receipt = d.receipt /\ e.share = d.share /\ e.note = d.note /\ e.order = d.order
             /\ \A b \in Bill :
                  /\ e.bill[b].state = d.bill[b].state /\ e.bill[b].kind = d.bill[b].kind
                  /\ e.bill[b].total = d.bill[b].total
                  /\ e.bill[b].status =
                       IF b \in T /\ IsActive(d, b) THEN Verdict(d, b) ELSE d.bill[b].status
                  /\ b \notin T \/ ~IsActive(d, b) => e.bill[b] = d.bill[b]
<1> DEFINE bill == [b \in Bill |->
             IF b \in T /\ IsActive(d, b) THEN [d.bill[b] EXCEPT !.status = Verdict(d, b)]
             ELSE d.bill[b]]
<1>1. \A b \in Bill : d.bill[b] \in BillRow /\ Verdict(d, b) \in InvoiceStatus
  <2>1. \A b \in Bill : d.bill[b] \in BillRow /\ d.bill[b].status \in InvoiceStatus
    BY DEF Books, BillRow
  <2> QED
    BY <2>1 DEF Verdict, InvoiceStatus
<1>2. ASSUME NEW b \in Bill
      PROVE  /\ bill[b] \in BillRow
             /\ bill[b].state = d.bill[b].state /\ bill[b].kind = d.bill[b].kind
             /\ bill[b].total = d.bill[b].total
             /\ bill[b].status = IF b \in T /\ IsActive(d, b) THEN Verdict(d, b) ELSE d.bill[b].status
             /\ b \notin T \/ ~IsActive(d, b) => bill[b] = d.bill[b]
  BY <1>1 DEF BillRow
<1>3. Judge(d, T) = [d EXCEPT !.bill = bill]
  BY DEF Judge
<1>4. bill \in [Bill -> BillRow]
  BY <1>2
<1> HIDE DEF bill
<1>5. PICK e : e = [d EXCEPT !.bill = bill]
  OBVIOUS
<1>6. /\ e \in Books /\ e.bill = bill
      /\ e.receipt = d.receipt /\ e.share = d.share /\ e.note = d.note /\ e.order = d.order
  BY <1>4, <1>5 DEF Books
<1>7. Judge(d, T) = e
  BY <1>3, <1>5, Zenon
<1> QED
  BY <1>2, <1>6, <1>7

LEMMA JudgeKeeps ==
  ASSUME NEW d \in Books, NEW T \in SUBSET Bill
  PROVE  LET e == Judge(d, T)
         IN  /\ RowsOK(d) => RowsOK(e)
             /\ \A p \in Receipt, b \in Bill : /\ Counted(e, p, b) = Counted(d, p, b)
                                               /\ Held(e, p, b) = Held(d, p, b)
             /\ \A p \in Receipt : SpendOK(d, p) => SpendOK(e, p)
             /\ \A b \in Bill : IdleOK(d, b) => IdleOK(e, b)
             /\ \A b \in Bill : StatusOK(d, b) \/ b \in T => StatusOK(e, b)
<1> DEFINE e == Judge(d, T)
<1>1. /\ e \in Books
      /\ e.receipt = d.receipt /\ e.share = d.share /\ e.note = d.note /\ e.order = d.order
      /\ \A b \in Bill :
           /\ e.bill[b].state = d.bill[b].state /\ e.bill[b].kind = d.bill[b].kind
           /\ e.bill[b].total = d.bill[b].total
           /\ e.bill[b].status =
                IF b \in T /\ IsActive(d, b) THEN Verdict(d, b) ELSE d.bill[b].status
           /\ b \notin T \/ ~IsActive(d, b) => e.bill[b] = d.bill[b]
  BY JudgeIs
<1> HIDE DEF e
<1>2. \A p \in Receipt, b \in Bill :
        Counted(e, p, b) = Counted(d, p, b) /\ Held(e, p, b) = Held(d, p, b)
  BY <1>1 DEF Counted, Held
<1>3. RowsOK(d) => RowsOK(e)
  BY <1>1, Sizes DEF RowsOK, RowOK
<1>4. \A p \in Receipt : SpendOK(d, p) => SpendOK(e, p)
  <2> SUFFICES ASSUME NEW p \in Receipt, SpendOK(d, p) PROVE SpendOK(e, p)
    OBVIOUS
  <2>1. \A b \in Bill : Held(e, p, b) <= Held(d, p, b)
    BY <1>2, CountedIsInt
  <2> QED
    BY <1>1, <2>1, SpendLess
<1>5. \A b \in Bill : IsActive(e, b) <=> IsActive(d, b)
  BY <1>1 DEF IsActive
<1>6. \A b \in Bill : IdleOK(d, b) => IdleOK(e, b)
  BY <1>2, <1>5 DEF IdleOK
<1>7. ASSUME NEW b \in Bill, StatusOK(d, b) \/ b \in T
      PROVE  StatusOK(e, b)
  <2> SUFFICES ASSUME IsActive(e, b) PROVE e.bill[b].status = Verdict(e, b)
    BY DEF StatusOK
  <2>1. IsActive(d, b)
    BY <1>5
  <2>2. e.bill[b].status = Verdict(d, b)
    BY <1>1, <1>7, <2>1 DEF StatusOK
  <2>3. Paid(e, b) = Paid(d, b) /\ Due(e, b) = Due(d, b)
    BY <1>1, <1>2, PaidSame DEF Due
  <2> QED
    BY <2>2, <2>3 DEF Verdict
<1> QED
  BY <1>2, <1>3, <1>4, <1>6, <1>7 DEF e

------------------------------------------------------------------------------
(* The end of a transaction, row by row. *)

JobAt(j) ==
  /\ books \in Books /\ RowsOK(books)
  /\ j \in JobType /\ Plan(j) /\ InTouch(books, j) /\ ~Broken(j)

HeldOf(row) == IF row.held = "active" THEN row.amount ELSE 0

(* An allocation row that neither its payment nor its invoice takes along. *)
Fits(now, was, to, mine) ==
  /\ now \in Allocation /\ was \in Allocation /\ to \in Allocation
  /\ SharePlan(was, to, mine, FALSE)
  /\ now.amount >= 0 /\ was.amount >= 0 /\ to.amount >= 0
  /\ now.held = "none" => now = NoShare
  /\ to.held = "none" => to = NoShare
  /\ mine => now.amount >= was.amount

LEMMA ShareMerged ==
  ASSUME NEW now, NEW was, NEW to, NEW mine, Fits(now, was, to, mine)
  PROVE  LET row == MergedShare(now, was, to)
         IN  /\ row \in Allocation /\ row.amount >= 0
             /\ row.held = "none" => row = NoShare
             /\ to.amount <= was.amount => HeldOf(row) <= HeldOf(now)
             /\ ~mine => row.amount >= now.amount
             /\ to = was => row = now
             /\ now = was => row = to
<1> DEFINE row == MergedShare(now, was, to)
<1>0. /\ now \in Allocation /\ was \in Allocation /\ to \in Allocation
      /\ now.amount >= 0 /\ was.amount >= 0 /\ to.amount >= 0
      /\ now.held = "none" => now = NoShare
      /\ to.held = "none" => to = NoShare
      /\ mine => now.amount >= was.amount
  BY DEF Fits
<1>1. now.amount \in Int /\ was.amount \in Int /\ to.amount \in Int
  BY <1>0 DEF Allocation
<1>2. NoShare \in Allocation
  BY DEF NoShare, Allocation
<1>3. CASE to = was
  <2>1. row = now
    BY <1>3 DEF MergedShare
  <2> QED
    BY <1>0, <1>1, <1>3, <2>1 DEF HeldOf
<1>4. CASE to # was
  <2>1. to.held # "none"
    <3> SUFFICES ASSUME to.held = "none" PROVE FALSE
      OBVIOUS
    <3> QED
      BY <1>0, <1>4 DEF SharePlan, Fits
  <2>2. row = [held |-> IF to.amount < was.amount THEN now.held ELSE to.held,
               amount |-> now.amount + to.amount - was.amount]
    BY <1>4, <2>1 DEF MergedShare
  <2>3. row \in Allocation
    BY <1>0, <1>1, <2>2 DEF Allocation
  <2>4. row.held = (IF to.amount < was.amount THEN now.held ELSE to.held)
          /\ row.amount = now.amount + to.amount - was.amount
    BY <2>2
  <2>5. \/ to.held = "inactive" /\ was.held = "active" /\ to.amount = was.amount
        \/ mine /\ to.held = "active" /\ was.held = "active" /\ to.amount < was.amount
        \/ to.held = "active" /\ to.amount > was.amount
    BY <1>4 DEF SharePlan, Fits
  <2> HIDE DEF row
  <2>6. row.amount >= 0
    BY <1>0, <1>1, <2>4, <2>5
  <2>7. row.held # "none"
    <3> SUFFICES ASSUME row.held = "none" PROVE FALSE
      OBVIOUS
    <3>1. to.amount < was.amount /\ now.held = "none"
      BY <2>1, <2>4
    <3>2. mine /\ now.amount = 0
      BY <1>0, <1>1, <2>5, <3>1 DEF NoShare
    <3> QED
      BY <1>0, <1>1, <3>1, <3>2
  <2>8. to.amount <= was.amount => HeldOf(row) <= HeldOf(now)
    <3> SUFFICES ASSUME to.amount <= was.amount PROVE HeldOf(row) <= HeldOf(now)
      OBVIOUS
    <3>1. CASE to.held = "inactive" /\ to.amount = was.amount
      <4>1. row.held = "inactive"
        BY <1>0, <1>1, <2>4, <3>1
      <4> QED
        BY <1>0, <1>1, <4>1 DEF HeldOf
    <3>2. CASE to.amount < was.amount
      BY <1>0, <1>1, <2>4, <3>2 DEF HeldOf
    <3> QED
      BY <1>0, <1>1, <2>5, <3>1, <3>2
  <2>9. ~mine => row.amount >= now.amount
    BY <1>0, <1>1, <2>4, <2>5
  <2>10. now = was => row = to
    <3> SUFFICES ASSUME now = was PROVE row = to
      OBVIOUS
    <3>1. row.held = to.held
      BY <1>0, <1>1, <2>4, <2>5
    <3>2. row.amount = to.amount
      BY <1>0, <1>1, <2>4
    <3> QED
      BY <1>0, <2>3, <3>1, <3>2 DEF Allocation
  <2> QED
    BY <1>4, <2>3, <2>6, <2>7, <2>8, <2>9, <2>10 DEF row
<1> QED
  BY <1>3, <1>4

LEMMA MergedRows ==
  ASSUME NEW j
  PROVE  LET m == Merged(books, j)
         IN  /\ \A p \in Receipt :
                  m.receipt[p] = MergedReceipt(books.receipt[p], j.before.receipt[p], j.after.receipt[p])
             /\ \A b \in Bill :
                  m.bill[b] = MergedBill(b, books.bill[b], j.before.bill[b], j.after.bill[b], j.own)
             /\ \A p \in Receipt, b \in Bill :
                  m.share[p][b] =
                    IF m.receipt[p].state = "gone" \/ m.bill[b].state = "gone" THEN NoShare
                    ELSE MergedShare(books.share[p][b], j.before.share[p][b], j.after.share[p][b])
             /\ \A b \in Bill :
                  m.note[b] = IF m.bill[b].state = "gone" THEN 0
                              ELSE books.note[b] + j.after.note[b] - j.before.note[b]
             /\ \A b \in Bill :
                  m.order[b] = IF j.after.order[b] = j.before.order[b]
                               THEN books.order[b] ELSE j.after.order[b]
BY DEF Merged

LEMMA ReceiptMerged ==
  ASSUME NEW j, JobAt(j), NEW p \in Receipt
  PROVE  LET now == books.receipt[p]
             was == j.before.receipt[p]
             to == j.after.receipt[p]
             row == Merged(books, j).receipt[p]
         IN  /\ row \in PaymentRow
             /\ now.state = "gone" => row.state = "gone"
             /\ to.state = "gone" /\ was.state # "gone" => row.state = "gone"
             /\ row.state = "none" => now.state = "none" /\ to.state = "none" /\ to = was
             /\ IF Creates(j, p) THEN now.state = "none" /\ row.amount = to.amount /\ to.state # "none"
                ELSE row.amount = now.amount
             /\ to = was => row = now
             /\ now = was => row = to
<1> DEFINE now == books.receipt[p]
           was == j.before.receipt[p]
           to == j.after.receipt[p]
           row == Merged(books, j).receipt[p]
<1>1. now \in PaymentRow /\ was \in PaymentRow /\ to \in PaymentRow
  BY BookRows DEF JobAt, JobType
<1>2. row = MergedReceipt(now, was, to)
  BY MergedRows
<1>3. ReceiptPlan(was, to)
  BY DEF JobAt, Plan, Fulfils
<1>4. IF was.state = "none" THEN to # was => now.state = "none"
      ELSE now.state # "none" /\ now.amount = was.amount
  BY DEF JobAt, InTouch
<1>5. now.state = "gone" /\ to.state # "gone" => to = was
  BY DEF JobAt, Broken
<1>6. Creates(j, p) <=> was.state = "none" /\ to # was
  BY DEF Creates
<1> HIDE DEF now, was, to, row
<1>7. row \in PaymentRow
  BY <1>1, <1>2 DEF MergedReceipt, PaymentRow
<1>8. /\ row.state = (IF to.state = was.state THEN now.state ELSE to.state)
      /\ row.amount = (IF was.state = "none" /\ to # was THEN to.amount ELSE now.amount)
      /\ row.order = (IF to.order = was.order THEN now.order ELSE to.order)
  BY <1>2 DEF MergedReceipt
<1>9. row.state = "none" => now.state = "none" /\ to.state = "none" /\ to = was
  BY <1>3, <1>4, <1>8 DEF ReceiptPlan
<1>10. to = was => row = now
  BY <1>1, <1>7, <1>8 DEF PaymentRow
<1>11. now = was => row = to
  BY <1>1, <1>3, <1>7, <1>8 DEF PaymentRow, ReceiptPlan
<1>12. now.state = "gone" => row.state = "gone"
  BY <1>5, <1>8, <1>10
<1>13. to.state = "gone" /\ was.state # "gone" => row.state = "gone"
  BY <1>8
<1>14. IF Creates(j, p) THEN now.state = "none" /\ row.amount = to.amount /\ to.state # "none"
       ELSE row.amount = now.amount
  BY <1>3, <1>4, <1>6, <1>8 DEF ReceiptPlan
<1> QED
  BY <1>7, <1>9, <1>10, <1>11, <1>12, <1>13, <1>14 DEF now, was, to, row

LEMMA BillMerged ==
  ASSUME NEW j, JobAt(j), NEW b \in Bill
  PROVE  LET now == books.bill[b]
             was == j.before.bill[b]
             to == j.after.bill[b]
             row == Merged(books, j).bill[b]
         IN  /\ row \in BillRow
             /\ now.state = "gone" => row.state = "gone"
             /\ to.state = "gone" /\ was.state # "gone" => row.state = "gone"
             /\ row.state = "none" => now.state = "none" /\ to.state = "none" /\ to = was
             /\ now.state # "none" => row.kind = now.kind
             /\ was.state # "none" => row.state # "none"
             /\ to = was /\ b # j.own => row = now
             /\ now = was => row = to
<1> DEFINE now == books.bill[b]
           was == j.before.bill[b]
           to == j.after.bill[b]
           row == Merged(books, j).bill[b]
           mine == b = j.own
<1>1. now \in BillRow /\ was \in BillRow /\ to \in BillRow /\ mine \in BOOLEAN
  BY BookRows DEF JobAt, JobType
<1>2. row = MergedBill(b, now, was, to, j.own)
  BY MergedRows
<1>3. BillPlan(was, to, mine)
  BY DEF JobAt, Plan, Fulfils
<1>4. IF was.state = "none" THEN to # was => now.state = "none"
      ELSE now.state # "none" /\ now.kind = was.kind
  BY DEF JobAt, InTouch
<1>5. now.state = "gone" /\ to.state # "gone" => to = was
  BY DEF JobAt, Broken
<1>6. CASE was.state = "none"
  <2>1. row = IF to = was THEN now ELSE to
    BY <1>2, <1>6 DEF MergedBill
  <2> HIDE DEF now, was, to, row, mine
  <2> QED
    BY <1>1, <1>3, <1>4, <1>5, <1>6, <2>1 DEF BillPlan, now, was, to, row, mine
<1>7. CASE was.state # "none"
  <2>1. row = [state |-> IF to.state = was.state THEN now.state ELSE to.state,
               kind |-> now.kind,
               status |-> IF to.status = was.status THEN now.status ELSE to.status,
               total |-> IF mine THEN to.total ELSE now.total]
    BY <1>2, <1>7 DEF MergedBill
  <2> HIDE DEF now, was, to, row, mine
  <2>2. row \in BillRow
    BY <1>1, <2>1 DEF BillRow
  <2>3. /\ row.state = (IF to.state = was.state THEN now.state ELSE to.state)
        /\ row.kind = now.kind
        /\ row.status = (IF to.status = was.status THEN now.status ELSE to.status)
        /\ row.total = (IF mine THEN to.total ELSE now.total)
    BY <2>1
  <2>4. row.state # "none"
    BY <1>3, <1>4, <1>7, <2>3 DEF BillPlan
  <2>5. to = was /\ ~mine => row = now
    BY <1>1, <2>2, <2>3 DEF BillRow
  <2>6. now = was => row = to
    BY <1>1, <1>3, <1>7, <2>2, <2>3 DEF BillRow, BillPlan
  <2>7. now.state = "gone" => row.state = "gone"
    BY <1>5, <2>3
  <2>8. to.state = "gone" /\ was.state # "gone" => row.state = "gone"
    BY <2>3
  <2> QED
    BY <1>7, <2>2, <2>3, <2>4, <2>5, <2>6, <2>7, <2>8 DEF now, was, to, row, mine
<1> QED
  BY <1>6, <1>7

Lives(m, p, b) == m.receipt[p].state # "gone" /\ m.bill[b].state # "gone"

LEMMA ShareRow ==
  ASSUME NEW j, JobAt(j), NEW p \in Receipt, NEW b \in Bill
  PROVE  LET m == Merged(books, j)
             now == books.share[p][b]
             was == j.before.share[p][b]
             to == j.after.share[p][b]
             row == m.share[p][b]
         IN  /\ row \in Allocation /\ RowOK(row, m.receipt[p], m.bill[b])
             /\ ~Gained(j, p, b) => Held(m, p, b) <= Held(books, p, b)
             /\ Lives(m, p, b) /\ b # j.own => row.amount >= now.amount
             /\ IF Lives(m, p, b) THEN /\ to = was => row = now
                                       /\ now = was => row = to
                ELSE row = NoShare
<1> DEFINE m == Merged(books, j)
           now == books.share[p][b]
           was == j.before.share[p][b]
           to == j.after.share[p][b]
           row == m.share[p][b]
           mine == b = j.own
<1>1. /\ now \in Allocation /\ was \in Allocation /\ to \in Allocation /\ mine \in BOOLEAN
      /\ now.amount \in Int /\ was.amount \in Int /\ to.amount \in Int
  BY BookRows DEF JobAt, JobType
<1>2. /\ RowOK(now, books.receipt[p], books.bill[b])
      /\ RowOK(was, j.before.receipt[p], j.before.bill[b])
      /\ RowOK(to, j.after.receipt[p], j.after.bill[b])
  BY DEF JobAt, Plan, RowsOK
<1>3. row = IF ~Lives(m, p, b) THEN NoShare ELSE MergedShare(now, was, to)
  <2>1. row = IF m.receipt[p].state = "gone" \/ m.bill[b].state = "gone" THEN NoShare
              ELSE MergedShare(now, was, to)
    BY MergedRows
  <2> HIDE DEF m, now, was, to, row
  <2> QED
    BY <2>1 DEF Lives
<1>4. SharePlan(was, to, mine, Ends(j.own, j.after, p, b))
  BY DEF JobAt, Plan, Fulfils
<1>5. Gained(j, p, b) <=> to.amount > was.amount
  BY DEF Gained
<1>6. Held(m, p, b) = HeldOf(row) /\ Held(books, p, b) = HeldOf(now)
  BY DEF Held, HeldOf
<1>7. HeldOf(now) >= 0
  BY <1>1, <1>2 DEF HeldOf, RowOK
<1>8. CASE ~Lives(m, p, b)
  <2>1. row = NoShare
    BY <1>3, <1>8
  <2> HIDE DEF m, row, now
  <2>2. row \in Allocation /\ RowOK(row, m.receipt[p], m.bill[b]) /\ HeldOf(row) = 0
    BY <2>1 DEF NoShare, Allocation, RowOK, HeldOf
  <2> QED
    BY <1>6, <1>7, <1>8, <2>1, <2>2 DEF m, row, now
<1>9. CASE Lives(m, p, b)
  <2>1. row = MergedShare(now, was, to)
    BY <1>3, <1>9
  <2>2. books.receipt[p].state # "gone" /\ books.bill[b].state # "gone"
    BY <1>9, ReceiptMerged, BillMerged DEF Lives
  <2>3. mine => now.amount >= was.amount
    BY <2>2 DEF JobAt, InTouch
  <2>4. SharePlan(was, to, mine, FALSE)
    <3>1. CASE ~Ends(j.own, j.after, p, b)
      BY <1>4, <3>1 DEF SharePlan
    <3>2. CASE Ends(j.own, j.after, p, b)
      <4>1. \/ j.after.receipt[p].state = "gone" /\ j.before.receipt[p].state = "gone"
            \/ j.after.bill[b].state = "gone" /\ j.before.bill[b].state = "gone"
        BY <1>9, <3>2, ReceiptMerged, BillMerged DEF Lives, Ends
      <4>2. to = was
        BY <1>2, <4>1 DEF RowOK
      <4> QED
        BY <4>2 DEF SharePlan
    <3> QED
      BY <3>1, <3>2
  <2>5. now.amount >= 0 /\ was.amount >= 0 /\ to.amount >= 0
    BY <1>2 DEF RowOK
  <2>6. (now.held = "none" => now = NoShare) /\ (to.held = "none" => to = NoShare)
    BY <1>2 DEF RowOK
  <2>7. /\ row \in Allocation /\ row.amount >= 0
        /\ row.held = "none" => row = NoShare
        /\ to.amount <= was.amount => HeldOf(row) <= HeldOf(now)
        /\ ~mine => row.amount >= now.amount
        /\ to = was => row = now
        /\ now = was => row = to
    <3>1. Fits(now, was, to, mine)
      BY <1>1, <2>3, <2>4, <2>5, <2>6 DEF Fits
    <3> HIDE DEF now, was, to, row, mine
    <3> QED
      BY <2>1, <3>1, ShareMerged
  <2>8. ASSUME m.receipt[p].state = "none" \/ m.bill[b].state = "none"
        PROVE  row = NoShare
    <3>1. \/ books.receipt[p].state = "none" /\ j.after.receipt[p].state = "none"
               /\ j.after.receipt[p] = j.before.receipt[p]
          \/ books.bill[b].state = "none" /\ j.after.bill[b].state = "none"
               /\ j.after.bill[b] = j.before.bill[b]
      BY <2>8, ReceiptMerged, BillMerged
    <3>2. now = NoShare /\ was = NoShare /\ to = NoShare
      BY <1>2, <3>1 DEF RowOK
    <3> QED
      BY <2>7, <3>2
  <2>9. RowOK(row, m.receipt[p], m.bill[b])
    BY <1>9, <2>7, <2>8 DEF RowOK, Lives
  <2>10. ~Gained(j, p, b) => HeldOf(row) <= HeldOf(now)
    BY <1>1, <1>5, <2>7
  <2> QED
    BY <1>6, <1>9, <2>7, <2>9, <2>10
<1> QED
  BY <1>8, <1>9

LEMMA OrderMerged ==
  ASSUME NEW j, JobAt(j), NEW b \in Bill
  PROVE  LET m == Merged(books, j)
         IN  /\ m.note[b] \in Int /\ m.order[b] \in {"none", "open", "cancelled", "gone"}
             /\ m.bill[b].state = "gone" => m.note[b] = 0
             /\ b \in OrderBill /\ m.order[b] = "none" => m.bill[b].state = "none"
             /\ books.order[b] # "none" => m.order[b] # "none"
<1> DEFINE m == Merged(books, j)
<1>1. /\ books.note[b] \in Int /\ j.before.note[b] \in Int /\ j.after.note[b] \in Int
      /\ books.order[b] \in {"none", "open", "cancelled", "gone"}
      /\ j.after.order[b] \in {"none", "open", "cancelled", "gone"}
  BY DEF JobAt, JobType, Books
<1>2. /\ m.note[b] = IF m.bill[b].state = "gone" THEN 0
                     ELSE books.note[b] + j.after.note[b] - j.before.note[b]
      /\ m.order[b] = IF j.after.order[b] = j.before.order[b]
                      THEN books.order[b] ELSE j.after.order[b]
  BY MergedRows
<1>3. j.after.order[b] # j.before.order[b] => j.after.order[b] # "none"
  BY DEF JobAt, Plan, Fulfils
<1>4. j.before.order[b] # "none" => books.order[b] # "none"
  BY DEF JobAt, InTouch
<1>5. ASSUME b \in OrderBill, m.order[b] = "none"
      PROVE  m.bill[b].state = "none"
  <2>1. books.order[b] = "none" /\ j.before.order[b] = "none" /\ j.after.order[b] = "none"
    BY <1>2, <1>3, <1>4, <1>5
  <2>2. books.bill[b].state = "none" /\ j.before.bill[b].state = "none" /\ j.after.bill[b].state = "none"
    BY <1>5, <2>1 DEF JobAt, Plan, RowsOK
  <2>3. BillPlan(j.before.bill[b], j.after.bill[b], b = j.own)
    BY DEF JobAt, Plan, Fulfils
  <2>4. j.after.bill[b] = j.before.bill[b]
    BY <2>2, <2>3 DEF BillPlan
  <2>5. m.bill[b] = MergedBill(b, books.bill[b], j.before.bill[b], j.after.bill[b], j.own)
    BY MergedRows
  <2> QED
    BY <2>2, <2>4, <2>5 DEF MergedBill
<1> HIDE DEF m
<1>6. m.note[b] \in Int /\ m.order[b] \in {"none", "open", "cancelled", "gone"}
        /\ (m.bill[b].state = "gone" => m.note[b] = 0)
  BY <1>1, <1>2
<1>7. books.order[b] # "none" => m.order[b] # "none"
  BY <1>2, <1>3
<1> QED
  BY <1>5, <1>6, <1>7 DEF m

LEMMA MergedTyped ==
  ASSUME NEW j, JobAt(j)
  PROVE  Merged(books, j) \in Books /\ RowsOK(Merged(books, j))
<1> DEFINE m == Merged(books, j)
           receipt == [p \in Receipt |->
                         MergedReceipt(books.receipt[p], j.before.receipt[p], j.after.receipt[p])]
           bill == [b \in Bill |->
                      MergedBill(b, books.bill[b], j.before.bill[b], j.after.bill[b], j.own)]
           cell(p, b) == IF ~ (receipt[p].state # "gone" /\ bill[b].state # "gone") THEN NoShare
                         ELSE MergedShare(books.share[p][b], j.before.share[p][b], j.after.share[p][b])
           share == [p \in Receipt |-> [b \in Bill |-> cell(p, b)]]
           note == [b \in Bill |-> IF bill[b].state = "gone" THEN 0
                                   ELSE books.note[b] + j.after.note[b] - j.before.note[b]]
           order == [b \in Bill |-> IF j.after.order[b] = j.before.order[b]
                                    THEN books.order[b] ELSE j.after.order[b]]
<1>1. m = [bill |-> bill, receipt |-> receipt, share |-> share, note |-> note, order |-> order]
  BY Zenon DEF Merged
<1>2. m.bill = bill /\ m.receipt = receipt /\ m.share = share /\ m.note = note /\ m.order = order
  <2> HIDE DEF m, bill, receipt, share, note, order
  <2> QED
    BY <1>1
<1>3. \A p \in Receipt : receipt[p] \in PaymentRow
  BY <1>2, ReceiptMerged
<1>4. \A b \in Bill : bill[b] \in BillRow
  BY <1>2, BillMerged
<1>5. \A p \in Receipt, b \in Bill : cell(p, b) \in Allocation
  <2> SUFFICES ASSUME NEW p \in Receipt, NEW b \in Bill PROVE cell(p, b) \in Allocation
    OBVIOUS
  <2>1. m.share[p][b] \in Allocation
    BY ShareRow
  <2>2. share[p][b] = cell(p, b)
    <3> HIDE DEF cell
    <3>1. share[p] = [c \in Bill |-> cell(p, c)]
      BY Zenon
    <3> QED
      BY <3>1, Zenon
  <2> HIDE DEF cell, share, m
  <2> QED
    BY <1>2, <2>1, <2>2
<1>6. \A b \in Bill : note[b] \in Int /\ order[b] \in {"none", "open", "cancelled", "gone"}
  BY <1>2, OrderMerged
<1> HIDE DEF cell
<1>7. share \in [Receipt -> [Bill -> Allocation]]
  BY <1>5
<1>8. /\ receipt \in [Receipt -> PaymentRow] /\ bill \in [Bill -> BillRow]
      /\ note \in [Bill -> Int] /\ order \in [Bill -> {"none", "open", "cancelled", "gone"}]
  BY <1>3, <1>4, <1>6
<1> HIDE DEF m, bill, receipt, share, note, order
<1>9. m \in Books
  BY <1>1, <1>7, <1>8 DEF Books
<1>10. RowsOK(m)
  <2>1. \A p \in Receipt, b \in Bill : RowOK(m.share[p][b], m.receipt[p], m.bill[b])
    BY ShareRow DEF m
  <2>2. \A b \in Bill : m.bill[b].state = "gone" => m.note[b] = 0
    BY OrderMerged DEF m
  <2>3. \A b \in OrderBill : m.order[b] = "none" => m.bill[b].state = "none"
    BY OrderMerged, Sizes DEF m
  <2> QED
    BY <2>1, <2>2, <2>3 DEF RowsOK
<1> QED
  BY <1>9, <1>10 DEF m

(* What a request has not touched is left as it is. *)
LEMMA UntouchedMerged ==
  ASSUME NEW j, JobAt(j), NEW b \in Bill, b \notin Touched(j)
  PROVE  Alike(books, Merged(books, j), b)
<1> DEFINE m == Merged(books, j)
<1>1. /\ b # j.own /\ j.after.bill[b] = j.before.bill[b]
      /\ \A p \in Receipt : /\ j.after.share[p][b] = j.before.share[p][b]
                            /\ j.after.receipt[p].state = j.before.receipt[p].state
  BY DEF Touched, Writes
<1>2. m.bill[b] = books.bill[b]
  BY <1>1, BillMerged
<1>3. IsActive(books, b) => m.note[b] = books.note[b]
  <2> SUFFICES ASSUME IsActive(books, b) PROVE m.note[b] = books.note[b]
    OBVIOUS
  <2>1. j.after.note[b] = j.before.note[b]
    BY <1>1 DEF JobAt, Plan, Fulfils
  <2>2. m.bill[b].state # "gone"
    BY <1>2 DEF IsActive
  <2>3. m.note[b] = IF m.bill[b].state = "gone" THEN 0
                    ELSE books.note[b] + j.after.note[b] - j.before.note[b]
    BY MergedRows
  <2>4. books.note[b] \in Int /\ j.before.note[b] \in Int
    BY DEF JobAt, JobType, Books
  <2> HIDE DEF m
  <2> QED
    BY <2>1, <2>2, <2>3, <2>4
<1>4. ASSUME NEW p \in Receipt
      PROVE  Counted(m, p, b) = Counted(books, p, b)
  <2>1. m.receipt[p].state = books.receipt[p].state
    <3>1. m.receipt[p] = MergedReceipt(books.receipt[p], j.before.receipt[p], j.after.receipt[p])
      BY MergedRows
    <3> QED
      BY <1>1, <3>1 DEF MergedReceipt
  <2>2. IF Lives(m, p, b) THEN m.share[p][b] = books.share[p][b] ELSE m.share[p][b] = NoShare
    BY <1>1, ShareRow
  <2>3. ~Lives(m, p, b) => books.share[p][b] = NoShare
    BY <1>2, <2>1 DEF Lives, JobAt, RowsOK, RowOK
  <2> QED
    BY <2>1, <2>2, <2>3 DEF Counted
<1> QED
  BY <1>2, <1>3, <1>4 DEF Alike

(* What is as a request found it becomes what it wants. *)
LEMMA UnmovedMerged ==
  ASSUME NEW j, JobAt(j), NEW b \in Bill, ~Moved(j, b)
  PROVE  Alike(books, j.before, b) /\ Alike(j.after, Merged(books, j), b)
<1> DEFINE m == Merged(books, j)
<1>1. /\ books.bill[b] = j.before.bill[b] /\ books.note[b] = j.before.note[b]
      /\ \A p \in Receipt :
           /\ books.share[p][b] = j.before.share[p][b]
           /\ \/ books.receipt[p] = j.before.receipt[p]
              \/ books.share[p][b].held # "active" /\ ~Gained(j, p, b)
  BY DEF Moved
<1>2. m.bill[b] = j.after.bill[b]
  BY <1>1, BillMerged
<1>3. Alike(books, j.before, b)
  BY <1>1 DEF Alike, Counted
<1>4. IsActive(j.after, b) => m.note[b] = j.after.note[b]
  <2> SUFFICES ASSUME IsActive(j.after, b) PROVE m.note[b] = j.after.note[b]
    OBVIOUS
  <2>1. m.bill[b].state # "gone"
    BY <1>2 DEF IsActive
  <2>2. m.note[b] = IF m.bill[b].state = "gone" THEN 0
                    ELSE books.note[b] + j.after.note[b] - j.before.note[b]
    BY MergedRows
  <2>3. j.after.note[b] \in Int /\ j.before.note[b] \in Int
    BY DEF JobAt, JobType, Books
  <2> HIDE DEF m
  <2> QED
    BY <1>1, <2>1, <2>2, <2>3
<1>5. ASSUME NEW p \in Receipt
      PROVE  Counted(m, p, b) = Counted(j.after, p, b)
  <2>1. IF Lives(m, p, b) THEN m.share[p][b] = j.after.share[p][b] ELSE m.share[p][b] = NoShare
    BY <1>1, ShareRow
  <2>2. CASE books.receipt[p] = j.before.receipt[p]
    <3>1. m.receipt[p] = j.after.receipt[p]
      BY <2>2, ReceiptMerged
    <3>2. ~Lives(m, p, b) => j.after.share[p][b] = NoShare
      BY <1>2, <3>1 DEF Lives, JobAt, Plan, RowsOK, RowOK
    <3> QED
      BY <2>1, <3>1, <3>2 DEF Counted
  <2>3. CASE books.share[p][b].held # "active" /\ ~Gained(j, p, b)
    <3>1. j.before.share[p][b].held # "active"
      BY <1>1, <2>3
    <3>2. SharePlan(j.before.share[p][b], j.after.share[p][b], b = j.own, Ends(j.own, j.after, p, b))
      BY DEF JobAt, Plan, Fulfils
    <3>3. j.after.share[p][b].held # "active"
      BY <2>3, <3>1, <3>2 DEF SharePlan, Gained, NoShare
    <3>4. m.share[p][b].held # "active"
      BY <2>1, <3>3 DEF NoShare
    <3> QED
      BY <3>3, <3>4 DEF Counted
  <2> QED
    BY <1>1, <2>2, <2>3
<1> QED
  BY <1>2, <1>3, <1>4, <1>5 DEF Alike

(* A payment that is spent once stays within its amount. *)
LEMMA SpendMerged ==
  ASSUME NEW j, JobAt(j), NEW p \in Receipt, SpendOK(books, p),
         \A b \in Bill : Gained(j, p, b) => ~Spent(j, p) /\ j.before.share[p][b].held # "inactive"
  PROVE  SpendOK(Merged(books, j), p)
<1> DEFINE m == Merged(books, j)
<1>1. m \in Books /\ books \in Books /\ j.before \in Books /\ j.after \in Books
  BY MergedTyped DEF JobAt, JobType
<1>2. CASE \A b \in Bill : ~Gained(j, p, b)
  <2>1. \A b \in Bill : Held(m, p, b) <= Held(books, p, b)
    BY <1>2, ShareRow
  <2>2. CASE Creates(j, p)
    <3>1. books.receipt[p].state = "none"
      BY <2>2, ReceiptMerged
    <3>2. \A b \in Bill : Held(books, p, b) = 0
      BY <3>1 DEF JobAt, RowsOK, RowOK, Held, NoShare
    <3>3. \A b \in Bill : Held(m, p, b) = 0
      <4> SUFFICES ASSUME NEW b \in Bill PROVE Held(m, p, b) = 0
        OBVIOUS
      <4>1. Held(m, p, b) \in Nat
        BY <1>1, CountedIsNat, MergedTyped
      <4>2. Held(m, p, b) <= 0
        BY <2>1, <3>2
      <4> HIDE DEF m
      <4> QED
        BY <4>1, <4>2
    <3> HIDE DEF m
    <3>4. SpendOK(m, p)
      BY <1>1, <3>3, SpendNothing
    <3> QED
      BY <3>4 DEF m
  <2>3. CASE ~Creates(j, p)
    <3>1. m.receipt[p].amount = books.receipt[p].amount
      BY <2>3, ReceiptMerged
    <3> HIDE DEF m
    <3>2. SpendOK(m, p)
      BY <1>1, <2>1, <3>1, SpendLess
    <3> QED
      BY <3>2 DEF m
  <2> QED
    BY <2>2, <2>3
<1>3. ASSUME NEW c \in Bill, Gained(j, p, c)
      PROVE  SpendOK(m, p)
  <2>1. /\ books.share[p] = j.before.share[p]
        /\ \A b \in Bill : ~Reapplies(j.before, j.after, p, b)
    BY <1>3 DEF Gained, Spent, Reapplies
  <2>2. SpendOK(j.before, p)
    <3>1. \A b \in Bill : Held(j.before, p, b) = Held(books, p, b)
      BY <2>1 DEF Held
    <3>2. CASE j.before.receipt[p].state = "none"
      <4>1. \A b \in Bill : Held(j.before, p, b) = 0
        BY <3>2 DEF JobAt, Plan, RowsOK, RowOK, Held, NoShare
      <4> QED
        BY <1>1, <4>1, SpendNothing
    <3>3. CASE j.before.receipt[p].state # "none"
      <4>1. j.before.receipt[p].amount = books.receipt[p].amount
        BY <3>3 DEF JobAt, InTouch
      <4>2. \A b \in Bill : Held(j.before, p, b) <= Held(books, p, b)
        BY <1>1, <3>1, CountedIsInt
      <4> QED
        BY <1>1, <4>1, <4>2, SpendLess
    <3> QED
      BY <3>2, <3>3
  <2>3. SpendOK(j.after, p)
    BY <2>1, <2>2 DEF JobAt, Plan, Fulfils
  <2>4. \A b \in Bill : Held(m, p, b) <= Held(j.after, p, b)
    <3> SUFFICES ASSUME NEW b \in Bill PROVE Held(m, p, b) <= Held(j.after, p, b)
      OBVIOUS
    <3>1. m.share[p][b] = j.after.share[p][b] \/ m.share[p][b] = NoShare
      BY <2>1, ShareRow
    <3>2. Held(j.after, p, b) \in Nat
      BY <1>1, CountedIsNat DEF JobAt, Plan
    <3>3. Held(m, p, b) = Held(j.after, p, b) \/ Held(m, p, b) = 0
      BY <3>1 DEF Held, NoShare
    <3> HIDE DEF m
    <3> QED
      BY <3>2, <3>3
  <2>5. m.receipt[p].amount = j.after.receipt[p].amount
    <3>1. CASE Creates(j, p)
      BY <3>1, ReceiptMerged
    <3>2. CASE ~Creates(j, p)
      <4>1. j.before.receipt[p].state # "none"
        <5> SUFFICES ASSUME j.before.receipt[p].state = "none" PROVE FALSE
          OBVIOUS
        <5>1. j.after.receipt[p].state = "none"
          BY <3>2 DEF Creates
        <5>2. j.after.share[p][c] = NoShare /\ j.before.share[p][c] = NoShare
          BY <5>1 DEF JobAt, Plan, RowsOK, RowOK
        <5> QED
          BY <1>3, <5>2 DEF Gained, NoShare
      <4>2. books.receipt[p].amount = j.before.receipt[p].amount
        BY <4>1 DEF JobAt, InTouch
      <4>3. j.after.receipt[p].amount = j.before.receipt[p].amount
        BY <4>1 DEF JobAt, Plan, Fulfils, ReceiptPlan
      <4> QED
        BY <3>2, <4>2, <4>3, ReceiptMerged
    <3> QED
      BY <3>1, <3>2
  <2> HIDE DEF m
  <2> QED
    BY <1>1, <2>3, <2>4, <2>5, SpendLess
<1> QED
  BY <1>2, <1>3

------------------------------------------------------------------------------
(* Requests that are in flight when another one commits or a row is written *)

LEMMA OthersInTouch ==
  ASSUME NEW j, JobAt(j), NEW k \in JobType, Plan(k), InTouch(books, k), Apart(j, k)
  PROVE  InTouch(Merged(books, j), k)
<1> DEFINE m == Merged(books, j)
<1>1. ASSUME NEW p \in Receipt
      PROVE  IF k.before.receipt[p].state = "none"
             THEN k.after.receipt[p] # k.before.receipt[p] => m.receipt[p].state = "none"
             ELSE m.receipt[p].state # "none" /\ m.receipt[p].amount = k.before.receipt[p].amount
  <2>1. IF k.before.receipt[p].state = "none"
        THEN k.after.receipt[p] # k.before.receipt[p] => books.receipt[p].state = "none"
        ELSE books.receipt[p].state # "none" /\ books.receipt[p].amount = k.before.receipt[p].amount
    BY DEF InTouch
  <2>2. CASE k.before.receipt[p].state = "none" /\ k.after.receipt[p] # k.before.receipt[p]
    <3>1. books.receipt[p].state = "none"
      BY <2>1, <2>2
    <3>2. j.before.receipt[p].state = "none"
      BY <3>1 DEF JobAt, InTouch
    <3>3. ~Creates(j, p)
      BY <2>2 DEF Apart, Creates
    <3>4. m.receipt[p] = books.receipt[p]
      BY <3>2, <3>3, ReceiptMerged DEF Creates
    <3> QED
      BY <2>2, <3>1, <3>4
  <2>3. CASE k.before.receipt[p].state # "none"
    <3>1. books.receipt[p].state # "none"
      BY <2>1, <2>3
    <3>2. m.receipt[p].state # "none" /\ m.receipt[p].amount = books.receipt[p].amount
      BY <3>1, ReceiptMerged
    <3> QED
      BY <2>1, <2>3, <3>2
  <2> QED
    BY <2>2, <2>3
<1>2. ASSUME NEW b \in Bill
      PROVE  IF k.before.bill[b].state = "none"
             THEN k.after.bill[b] # k.before.bill[b] => m.bill[b].state = "none"
             ELSE m.bill[b].state # "none" /\ m.bill[b].kind = k.before.bill[b].kind
  <2>1. IF k.before.bill[b].state = "none"
        THEN k.after.bill[b] # k.before.bill[b] => books.bill[b].state = "none"
        ELSE books.bill[b].state # "none" /\ books.bill[b].kind = k.before.bill[b].kind
    BY DEF InTouch
  <2>2. CASE k.before.bill[b].state = "none" /\ k.after.bill[b] # k.before.bill[b]
    <3>1. books.bill[b].state = "none"
      BY <2>1, <2>2
    <3>2. j.before.bill[b].state = "none"
      BY <3>1 DEF JobAt, InTouch
    <3>3. b = k.own
      BY <2>2 DEF Plan, Fulfils, BillPlan
    <3>4. b # j.own
      BY <3>3, Sizes DEF Apart
    <3>5. j.after.bill[b] = j.before.bill[b]
      BY <3>2, <3>4 DEF JobAt, Plan, Fulfils, BillPlan
    <3>6. m.bill[b] = books.bill[b]
      BY <3>4, <3>5, BillMerged
    <3> QED
      BY <2>2, <3>1, <3>6
  <2>3. CASE k.before.bill[b].state # "none"
    <3>1. books.bill[b].state # "none"
      BY <2>1, <2>3
    <3>2. m.bill[b].state # "none" /\ m.bill[b].kind = books.bill[b].kind
      BY <3>1, BillMerged
    <3> QED
      BY <2>1, <2>3, <3>2
  <2> QED
    BY <2>2, <2>3
<1>3. \A b \in Bill : k.before.order[b] # "none" => m.order[b] # "none"
  BY OrderMerged DEF InTouch
<1>4. ASSUME NEW p \in Receipt, NEW b \in Bill, b = k.own, Lives(m, p, b)
      PROVE  m.share[p][b].amount >= k.before.share[p][b].amount
  <2>1. books.receipt[p].state # "gone" /\ books.bill[b].state # "gone"
    BY <1>4, ReceiptMerged, BillMerged DEF Lives
  <2>2. books.share[p][b].amount >= k.before.share[p][b].amount
    BY <1>4, <2>1 DEF InTouch
  <2>3. b # j.own
    BY <1>4, Sizes DEF Apart
  <2>4. m.share[p][b].amount >= books.share[p][b].amount /\ m.share[p][b] \in Allocation
    BY <1>4, <2>3, ShareRow
  <2>5. books.share[p][b].amount \in Int /\ k.before.share[p][b].amount \in Int
    BY BookRows DEF JobAt, JobType
  <2>6. m.share[p][b].amount \in Int
    BY <2>4 DEF Allocation
  <2> HIDE DEF m
  <2> QED
    BY <2>2, <2>4, <2>5, <2>6
<1> HIDE DEF m
<1>5. InTouch(m, k)
  BY <1>1, <1>2, <1>3, <1>4 DEF InTouch, Lives
<1> QED
  BY <1>5 DEF m

(* Rows may change otherwise without a request noticing. *)
SameKeys(c, d) ==
  /\ \A p \in Receipt : d.receipt[p] = c.receipt[p]
  /\ \A b \in Bill : /\ d.bill[b].state = c.bill[b].state /\ d.bill[b].kind = c.bill[b].kind
                     /\ c.order[b] # "none" => d.order[b] # "none"
  /\ \A p \in Receipt, b \in Bill : d.share[p][b].amount = c.share[p][b].amount

LEMMA StaysInTouch ==
  ASSUME NEW c, NEW d, NEW k, InTouch(c, k), SameKeys(c, d)
  PROVE  InTouch(d, k)
BY DEF InTouch, SameKeys

LEMMA EmptyIs ==
  /\ EmptyBooks \in Books /\ RowsOK(EmptyBooks)
  /\ \A p \in Receipt : EmptyBooks.receipt[p].state = "none"
  /\ \A b \in Bill : EmptyBooks.bill[b].state = "none" /\ EmptyBooks.order[b] = "none"
  /\ \A p \in Receipt, b \in Bill : EmptyBooks.share[p][b] = NoShare
  /\ \A b \in Bill : EmptyBooks.bill[b].status = "DRAFT"
<1>1. NoShare \in Allocation
  BY DEF NoShare, Allocation
<1>2. [state |-> "none", kind |-> "TAX_INVOICE", status |-> "DRAFT", total |-> 0] \in BillRow
  BY DEF BillRow, InvoiceStatus
<1>3. [state |-> "none", amount |-> 0, order |-> NoBill] \in PaymentRow
  BY DEF PaymentRow
<1>4. /\ EmptyBooks.bill = [b \in Bill |-> [state |-> "none", kind |-> "TAX_INVOICE",
                                          status |-> "DRAFT", total |-> 0]]
      /\ EmptyBooks.receipt = [p \in Receipt |-> [state |-> "none", amount |-> 0, order |-> NoBill]]
      /\ EmptyBooks.share = [p \in Receipt |-> [b \in Bill |-> NoShare]]
      /\ EmptyBooks.note = [b \in Bill |-> 0]
      /\ EmptyBooks.order = [b \in Bill |-> "none"]
  BY DEF EmptyBooks
<1>5. EmptyBooks = [bill |-> EmptyBooks.bill, receipt |-> EmptyBooks.receipt,
                    share |-> EmptyBooks.share, note |-> EmptyBooks.note, order |-> EmptyBooks.order]
  BY DEF EmptyBooks
<1>6. /\ EmptyBooks.bill \in [Bill -> BillRow]
      /\ EmptyBooks.receipt \in [Receipt -> PaymentRow]
      /\ EmptyBooks.share \in [Receipt -> [Bill -> Allocation]]
      /\ EmptyBooks.note \in [Bill -> Int]
      /\ EmptyBooks.order \in [Bill -> {"none", "open", "cancelled", "gone"}]
  BY <1>1, <1>2, <1>3, <1>4
<1>7. EmptyBooks \in Books
  BY <1>5, <1>6 DEF Books
<1>8. NoShare.amount = 0
  BY DEF NoShare
<1>9. RowsOK(EmptyBooks)
  BY <1>4, <1>8, Sizes DEF RowsOK, RowOK
<1> QED
  BY <1>4, <1>7, <1>9

LEMMA EmptyClaims ==
  /\ \A p \in Receipt : SpendOK(EmptyBooks, p)
  /\ \A b \in Bill : StatusOK(EmptyBooks, b) /\ IdleOK(EmptyBooks, b)
<1>1. \A p \in Receipt, b \in Bill :
        Counted(EmptyBooks, p, b) = 0 /\ Held(EmptyBooks, p, b) = 0
  BY EmptyIs DEF Counted, Held, NoShare
<1>2. \A p \in Receipt : SpendOK(EmptyBooks, p)
  BY <1>1, EmptyIs, SpendNothing
<1>3. \A b \in Bill : StatusOK(EmptyBooks, b) /\ IdleOK(EmptyBooks, b)
  BY <1>1, EmptyIs DEF StatusOK, IsActive, IdleOK
<1> QED
  BY <1>2, <1>3

(* A request that is not in flight wants nothing. *)
LEMMA IdleIs ==
  /\ Idle \in JobType /\ Plan(Idle)
  /\ \A p \in Receipt : ~Creates(Idle, p)
  /\ \A d : InTouch(d, Idle)
  /\ Idle.own = NoBill
<1>1. /\ Idle.op = "idle" /\ Idle.own = NoBill /\ Idle.before = EmptyBooks
      /\ Idle.after = EmptyBooks /\ Idle.judged = {}
  BY DEF Idle
<1>2. Idle \in JobType
  BY EmptyIs DEF Idle, JobType, Ops
<1>3. Fulfils("idle", NoBill, EmptyBooks, EmptyBooks, {})
  BY EmptyIs, EmptyClaims DEF Fulfils, SharePlan, BillPlan, ReceiptPlan
<1>4. Plan(Idle)
  BY <1>1, <1>3, EmptyIs DEF Plan, Spreads
<1>5. ASSUME NEW d
      PROVE  InTouch(d, Idle)
  BY <1>1, EmptyIs, Sizes DEF InTouch
<1> QED
  BY <1>1, <1>2, <1>4, <1>5 DEF Creates

(* A request ends. *)
LEMMA Ended ==
  ASSUME IInv, NEW r \in Request, job' = [job EXCEPT ![r] = Idle],
         \A s \in Request \ {r} : InTouch(books', job[s])
  PROVE  Jobs' /\ job' \in [Request -> JobType]
<1>1. job \in [Request -> JobType] /\ Jobs
  BY DEF IInv, TypeInv
<1>2. job'[r] = Idle /\ \A s \in Request \ {r} : job'[s] = job[s]
  BY <1>1
<1>3. job' \in [Request -> JobType]
  BY <1>1, IdleIs
<1>4. \A s \in Request : Plan(job'[s]) /\ InTouch(books', job'[s])
  BY <1>1, <1>2, IdleIs DEF Jobs
<1>5. ASSUME NEW s \in Request, NEW u \in Request, s # u
      PROVE  Apart(job'[s], job'[u])
  <2>1. CASE s = r \/ u = r
    BY <1>2, <1>5, <2>1, IdleIs DEF Apart
  <2>2. CASE s # r /\ u # r
    BY <1>1, <1>2, <1>5, <2>2 DEF Jobs
  <2> QED
    BY <2>1, <2>2
<1> QED
  BY <1>3, <1>4, <1>5 DEF Jobs

------------------------------------------------------------------------------
(* The steps that end a request or write one row. *)

LEMMA JudgeSameKeys ==
  ASSUME NEW d \in Books, NEW T \in SUBSET Bill
  PROVE  SameKeys(d, Judge(d, T))
BY JudgeIs DEF SameKeys

(* What is claimed of an invoice once a request has been merged. *)
LEMMA BillCommitted ==
  ASSUME NEW j, JobAt(j), NEW b \in Bill
  PROVE  LET m == Merged(books, j)
             raced == b \in Touched(j) /\ Moved(j, b)
         IN  /\ IdleOK(books, b) /\ ~raced => IdleOK(m, b)
             /\ b \in j.judged /\ ~raced => StatusOK(m, b)
             /\ StatusOK(books, b) /\ ~raced /\ ~(j.op = "UpdateInvoice" /\ b = j.own) =>
                  StatusOK(m, b)
<1> DEFINE m == Merged(books, j)
<1>1. CASE b \notin Touched(j)
  <2>1. b \notin j.judged
    BY <1>1 DEF Touched
  <2>2. Alike(books, m, b)
    BY <1>1, UntouchedMerged
  <2> HIDE DEF m
  <2>3. (StatusOK(books, b) => StatusOK(m, b)) /\ (IdleOK(books, b) => IdleOK(m, b))
    BY <2>2, AlikeClaims
  <2> QED
    BY <2>1, <2>3 DEF m
<1>2. CASE ~Moved(j, b)
  <2>1. Alike(books, j.before, b) /\ Alike(j.after, m, b)
    BY <1>2, UnmovedMerged
  <2> HIDE DEF m
  <2>2. /\ StatusOK(books, b) => StatusOK(j.before, b)
        /\ IdleOK(books, b) => IdleOK(j.before, b)
        /\ StatusOK(j.after, b) => StatusOK(m, b)
        /\ IdleOK(j.after, b) => IdleOK(m, b)
    BY <2>1, AlikeClaims
  <2>3. /\ IdleOK(j.before, b) => IdleOK(j.after, b)
        /\ b \in j.judged => StatusOK(j.after, b)
        /\ b \notin j.judged /\ StatusOK(j.before, b) /\ ~(j.op = "UpdateInvoice" /\ b = j.own) =>
             StatusOK(j.after, b)
    BY DEF JobAt, Plan, Fulfils
  <2> QED
    BY <2>2, <2>3 DEF m
<1> QED
  BY <1>1, <1>2

LEMMA JobNow ==
  ASSUME IInv, NEW r \in Request
  PROVE  /\ job[r] \in JobType /\ Plan(job[r]) /\ InTouch(books, job[r])
         /\ books \in Books /\ RowsOK(books)
         /\ \A s \in Request \ {r} : Apart(job[r], job[s]) /\ Apart(job[s], job[r])
BY DEF IInv, TypeInv, TypeOK, Sound, Jobs

LEMMA CommitStep ==
  ASSUME IInv, NEW r \in Request, NEW late \in BOOLEAN, Commit(r, late)
  PROVE  IInv'
<1>0. PICK j : j = job[r]
  OBVIOUS
<1> DEFINE m == Merged(books, j)
           raced == {b \in Touched(j) : Moved(j, b)}
           T == j.judged
<1>1. JobAt(j)
  BY <1>0, JobNow DEF JobAt, Commit
<1>2. /\ books' = (IF late THEN Judge(m, T) ELSE m)
      /\ job' = [job EXCEPT ![r] = Idle]
      /\ shaky' = shaky \cup
           {p \in Receipt : \E b \in Bill : /\ Gained(j, p, b)
                                            /\ \/ Spent(j, p)
                                               \/ j.before.share[p][b].held = "inactive"}
      /\ crossed' = crossed \cup raced
      /\ drift' = (drift \cup raced \cup (IF j.op = "UpdateInvoice" THEN {j.own} ELSE {}))
                    \ (IF late THEN T ELSE T \ raced)
  BY <1>0, Zenon DEF Commit
<1>3. /\ m \in Books /\ RowsOK(m)
      /\ T \in SUBSET Bill /\ j.own \in Bill \cup {NoBill}
  BY <1>1, MergedTyped DEF JobAt, JobType
<1>4. ASSUME NEW s \in Request \ {r}
      PROVE  InTouch(m, job[s])
  <2>1. PICK k : k = job[s]
    OBVIOUS
  <2>2. k \in JobType /\ Plan(k) /\ InTouch(books, k) /\ Apart(j, k)
    BY <1>0, <2>1, JobNow
  <2>3. InTouch(m, k)
    BY <1>1, <2>2, OthersInTouch
  <2> QED
    BY <2>1, <2>3
<1>5. \A p \in Receipt \ shaky' : SpendOK(m, p)
  <2> SUFFICES ASSUME NEW p \in Receipt \ shaky' PROVE SpendOK(m, p)
    OBVIOUS
  <2>1. SpendOK(books, p)
    BY <1>2 DEF IInv, Sound, Claims
  <2>2. \A b \in Bill : Gained(j, p, b) => ~Spent(j, p) /\ j.before.share[p][b].held # "inactive"
    BY <1>2
  <2> QED
    BY <1>1, <2>1, <2>2, SpendMerged
<1>6. \A b \in Bill \ crossed' : IdleOK(m, b)
  <2> SUFFICES ASSUME NEW b \in Bill \ crossed' PROVE IdleOK(m, b)
    OBVIOUS
  <2>1. IdleOK(books, b)
    BY <1>2 DEF IInv, Sound, Claims
  <2>2. ~ (b \in Touched(j) /\ Moved(j, b))
    BY <1>2
  <2> QED
    BY <1>1, <2>1, <2>2, BillCommitted
<1>7. \A b \in Bill \ drift' : StatusOK(m, b) \/ (late /\ b \in T)
  <2> SUFFICES ASSUME NEW b \in Bill \ drift', ~ (late /\ b \in T) PROVE StatusOK(m, b)
    OBVIOUS
  <2>1. CASE b \in T
    <3>1. ~ (b \in Touched(j) /\ Moved(j, b))
      BY <1>2, <2>1
    <3> QED
      BY <1>1, <2>1, <3>1, BillCommitted
  <2>2. CASE b \notin T
    <3>1. /\ b \notin drift /\ ~ (b \in Touched(j) /\ Moved(j, b))
          /\ ~ (j.op = "UpdateInvoice" /\ b = j.own)
      BY <1>2, <2>2
    <3>2. StatusOK(books, b)
      BY <3>1 DEF IInv, Sound, Claims
    <3> QED
      BY <1>1, <3>1, <3>2, BillCommitted
  <2> QED
    BY <2>1, <2>2
<1>8. shaky' \subseteq Receipt /\ crossed' \subseteq Bill /\ drift' \subseteq Bill
  <2>1. shaky \subseteq Receipt /\ crossed \subseteq Bill /\ drift \subseteq Bill
    BY DEF IInv, TypeInv, TypeOK
  <2>2. raced \subseteq Bill
    BY DEF Touched
  <2>3. j.op = "UpdateInvoice" => j.own \in Bill
    BY <1>1 DEF JobAt, Plan
  <2> HIDE DEF raced
  <2> QED
    BY <1>2, <2>1, <2>2, <2>3
<1> HIDE DEF m, raced, T
<1>9. /\ books' \in Books /\ RowsOK(books')
      /\ \A s \in Request \ {r} : InTouch(books', job[s])
      /\ \A p \in Receipt \ shaky' : SpendOK(books', p)
      /\ \A b \in Bill \ crossed' : IdleOK(books', b)
      /\ \A b \in Bill \ drift' : StatusOK(books', b)
  <2>1. CASE late
    <3>1. PICK e : e = Judge(m, T)
      OBVIOUS
    <3>2. e \in Books /\ RowsOK(e) /\ SameKeys(m, e)
      BY <1>3, <3>1, JudgeIs, JudgeKeeps, JudgeSameKeys
    <3>3. /\ \A p \in Receipt : SpendOK(m, p) => SpendOK(e, p)
          /\ \A b \in Bill : IdleOK(m, b) => IdleOK(e, b)
          /\ \A b \in Bill : StatusOK(m, b) \/ b \in T => StatusOK(e, b)
      BY <1>3, <3>1, JudgeKeeps
    <3>4. \A s \in Request \ {r} : InTouch(e, job[s])
      BY <1>4, <3>2, StaysInTouch
    <3>5. books' = e
      BY <1>2, <2>1, <3>1
    <3>6. /\ \A p \in Receipt \ shaky' : SpendOK(e, p)
          /\ \A b \in Bill \ crossed' : IdleOK(e, b)
          /\ \A b \in Bill \ drift' : StatusOK(e, b)
      BY <1>5, <1>6, <1>7, <3>3
    <3> QED
      BY <3>2, <3>4, <3>5, <3>6
  <2>2. CASE ~late
    <3>1. books' = m
      BY <1>2, <2>2
    <3> QED
      BY <1>3, <1>4, <1>5, <1>6, <1>7, <2>2, <3>1
  <2> QED
    BY <2>1, <2>2
<1>10. Jobs' /\ job' \in [Request -> JobType]
  BY <1>2, <1>9, Ended
<1>11. \A s \in Request : job'[s].before \in Books /\ job'[s].after \in Books
  BY <1>10 DEF JobType
<1>12. TypeInv'
  BY <1>8, <1>9, <1>10, <1>11 DEF TypeInv, TypeOK
<1>13. Sound'
  BY <1>9 DEF Sound, Claims
<1> QED
  BY <1>10, <1>12, <1>13 DEF IInv

LEMMA FailStep ==
  ASSUME IInv, NEW r \in Request, Fail(r)
  PROVE  IInv'
<1>1. /\ job' = [job EXCEPT ![r] = Idle]
      /\ books' = books /\ shaky' = shaky /\ crossed' = crossed /\ drift' = drift
  BY DEF Fail
<1>2. \A s \in Request \ {r} : InTouch(books', job[s])
  BY <1>1 DEF IInv, Jobs
<1>3. Jobs' /\ job' \in [Request -> JobType]
  BY <1>1, <1>2, Ended
<1>4. \A s \in Request : job'[s].before \in Books /\ job'[s].after \in Books
  BY <1>3 DEF JobType
<1>5. TypeInv'
  BY <1>1, <1>3, <1>4 DEF IInv, TypeInv, TypeOK
<1>6. Sound'
  BY <1>1 DEF IInv, Sound, Claims
<1> QED
  BY <1>3, <1>5, <1>6 DEF IInv

(* A handler that writes one row keeps the claims of all others. *)
LEMMA WriteStep ==
  ASSUME IInv, NEW d \in Books, NEW B \in SUBSET Bill, Write(d, B),
         RowsOK(d), SameKeys(books, d),
         \A p \in Receipt : SpendOK(books, p) => SpendOK(d, p),
         \A b \in Bill : IdleOK(books, b) => IdleOK(d, b),
         \A b \in Bill \ B : StatusOK(books, b) => StatusOK(d, b)
  PROVE  IInv'
<1>1. /\ books' = d /\ job' = job /\ shaky' = shaky /\ crossed' = crossed
      /\ drift' = drift \cup B
  BY DEF Write
<1>2. TypeInv'
  BY <1>1 DEF IInv, TypeInv, TypeOK
<1>3. /\ \A p \in Receipt \ shaky : SpendOK(d, p)
      /\ \A b \in Bill \ crossed : IdleOK(d, b)
      /\ \A b \in Bill \ (drift \cup B) : StatusOK(d, b)
  BY DEF IInv, Sound, Claims
<1>4. Sound'
  BY <1>1, <1>3 DEF Sound, Claims
<1>5. \A r \in Request : InTouch(d, job[r])
  BY StaysInTouch DEF IInv, Jobs
<1>6. Jobs'
  <2>1. \A r \in Request : Plan(job'[r]) /\ InTouch(books', job'[r])
    BY <1>1, <1>5 DEF IInv, Jobs
  <2>2. \A r, s \in Request : r = s \/ Apart(job'[r], job'[s])
    BY <1>1 DEF IInv, Jobs
  <2> QED
    BY <2>1, <2>2 DEF Jobs
<1> QED
  BY <1>2, <1>4, <1>6 DEF IInv

LEMMA InitInv == Init => IInv
<1> SUFFICES ASSUME Init PROVE IInv
  OBVIOUS
<1>1. /\ books = EmptyBooks /\ \A r \in Request : job[r] = Idle
      /\ job = [r \in Request |-> Idle]
      /\ shaky = {} /\ crossed = {} /\ drift = {}
  BY DEF Init
<1>2. Idle.before = EmptyBooks /\ Idle.after = EmptyBooks
  BY DEF Idle
<1>3. TypeInv
  BY <1>1, <1>2, EmptyIs, IdleIs DEF TypeInv, TypeOK
<1>4. Sound
  BY <1>1, EmptyIs, EmptyClaims DEF Sound, Claims
<1>5. \A r, s \in Request : Apart(job[r], job[s])
  BY <1>1, IdleIs DEF Apart
<1>6. Jobs
  BY <1>1, <1>5, IdleIs DEF Jobs
<1> QED
  BY <1>3, <1>4, <1>6 DEF IInv

(* One invoice is written. *)
LEMMA WithBillIs ==
  ASSUME NEW d \in Books, NEW b \in Bill, NEW row \in BillRow
  PROVE  LET e == WithBill(d, b, row)
         IN  /\ e \in Books /\ e.bill[b] = row
             /\ \A c \in Bill \ {b} : e.bill[c] = d.bill[c]
             /\ e.receipt = d.receipt /\ e.share = d.share /\ e.note = d.note /\ e.order = d.order
<1>1. PICK e : e = WithBill(d, b, row)
  OBVIOUS
<1>2. e = [d EXCEPT !.bill[b] = row]
  BY <1>1 DEF WithBill
<1>3. /\ e \in Books /\ e.bill[b] = row
      /\ \A c \in Bill \ {b} : e.bill[c] = d.bill[c]
      /\ e.receipt = d.receipt /\ e.share = d.share /\ e.note = d.note /\ e.order = d.order
  BY <1>2 DEF Books
<1> QED
  BY <1>1, <1>3

(* Books that differ in what becomes of one invoice only. *)
OnlyBill(c, d, b) ==
  /\ d.receipt = c.receipt /\ d.share = c.share
  /\ \A a \in Bill \ {b} : d.bill[a] = c.bill[a] /\ d.note[a] = c.note[a] /\ d.order[a] = c.order[a]

LEMMA OneBill ==
  ASSUME NEW c \in Books, NEW d \in Books, NEW b \in Bill, OnlyBill(c, d, b)
  PROVE  /\ \A p \in Receipt, a \in Bill : /\ Counted(d, p, a) = Counted(c, p, a)
                                           /\ Held(d, p, a) = Held(c, p, a)
         /\ \A p \in Receipt : SpendOK(c, p) => SpendOK(d, p)
         /\ \A a \in Bill \ {b} : StatusOK(c, a) => StatusOK(d, a)
         /\ \A a \in Bill \ {b} : IdleOK(c, a) => IdleOK(d, a)
         /\ (IsActive(d, b) <=> IsActive(c, b)) => (IdleOK(c, b) => IdleOK(d, b))
<1>1. \A p \in Receipt, a \in Bill :
        Counted(d, p, a) = Counted(c, p, a) /\ Held(d, p, a) = Held(c, p, a)
  BY DEF OnlyBill, Counted, Held
<1>2. ASSUME NEW p \in Receipt, SpendOK(c, p)
      PROVE  SpendOK(d, p)
  <2>1. \A a \in Bill : Held(d, p, a) <= Held(c, p, a)
    BY <1>1, CountedIsInt
  <2>2. d.receipt[p].amount = c.receipt[p].amount
    BY DEF OnlyBill
  <2> QED
    BY <1>2, <2>1, <2>2, SpendLess
<1>3. \A a \in Bill \ {b} : Alike(c, d, a)
  BY <1>1 DEF OnlyBill, Alike
<1>4. \A a \in Bill \ {b} : (StatusOK(c, a) => StatusOK(d, a)) /\ (IdleOK(c, a) => IdleOK(d, a))
  BY <1>3, AlikeClaims
<1> QED
  BY <1>1, <1>2, <1>4 DEF IdleOK

LEMMA UpdateInvoiceStatusStep ==
  ASSUME IInv, NEW b \in Bill, NEW status \in {"PENDING", "PAID", "VOID"},
         UpdateInvoiceStatus(b, status)
  PROVE  IInv'
<1>1. PICK row : row = [books.bill[b] EXCEPT !.status = status]
  OBVIOUS
<1>2. PICK d : d = WithBill(books, b, row)
  OBVIOUS
<1>3. books \in Books /\ RowsOK(books)
  BY DEF IInv, TypeInv, TypeOK, Sound
<1>4. books.bill[b] \in BillRow
  BY <1>3, BookRows
<1>5. /\ row \in BillRow /\ row.state = books.bill[b].state /\ row.kind = books.bill[b].kind
      /\ row.total = books.bill[b].total
  BY <1>1, <1>4 DEF BillRow, InvoiceStatus
<1>6. /\ d \in Books /\ d.bill[b] = row
      /\ \A c \in Bill \ {b} : d.bill[c] = books.bill[c]
      /\ d.receipt = books.receipt /\ d.share = books.share
      /\ d.note = books.note /\ d.order = books.order
  BY <1>2, <1>3, <1>5, WithBillIs
<1>7. Write(d, {b})
  BY <1>1, <1>2, Zenon DEF UpdateInvoiceStatus
<1>8. \A c \in Bill : d.bill[c].state = books.bill[c].state /\ d.bill[c].kind = books.bill[c].kind
  BY <1>5, <1>6
<1>9. OnlyBill(books, d, b)
  BY <1>6 DEF OnlyBill
<1>10. RowsOK(d)
  BY <1>3, <1>6, <1>8, Sizes DEF RowsOK, RowOK
<1>11. SameKeys(books, d)
  BY <1>6, <1>8 DEF SameKeys
<1>12. \A p \in Receipt : SpendOK(books, p) => SpendOK(d, p)
  BY <1>3, <1>6, <1>9, OneBill
<1>13. \A c \in Bill : IdleOK(books, c) => IdleOK(d, c)
  <2>1. \A c \in Bill : IsActive(d, c) <=> IsActive(books, c)
    BY <1>8 DEF IsActive
  <2> QED
    BY <1>3, <1>6, <1>9, <2>1, OneBill
<1>14. \A c \in Bill \ {b} : StatusOK(books, c) => StatusOK(d, c)
  BY <1>3, <1>6, <1>9, OneBill
<1> QED
  BY <1>6, <1>7, <1>10, <1>11, <1>12, <1>13, <1>14, WriteStep

LEMMA CreateNoteStep ==
  ASSUME IInv, NEW b \in Bill, NEW effect \in {-1, 1}, CreateNote(b, effect)
  PROVE  IInv'
<1>1. PICK d : d = [books EXCEPT !.note[b] = @ + effect]
  OBVIOUS
<1>2. books \in Books /\ RowsOK(books)
  BY DEF IInv, TypeInv, TypeOK, Sound
<1>3. /\ d \in Books
      /\ \A c \in Bill \ {b} : d.note[c] = books.note[c]
      /\ d.receipt = books.receipt /\ d.share = books.share
      /\ d.bill = books.bill /\ d.order = books.order
  <2>1. PICK n : n = books.note[b] + effect
    OBVIOUS
  <2>2. books.note \in [Bill -> Int] /\ n \in Int
    BY <1>2, <2>1 DEF Books
  <2>3. d = [books EXCEPT !.note[b] = n]
    BY <1>1, <2>1
  <2> QED
    BY <1>2, <2>2, <2>3 DEF Books
<1>4. Write(d, {b}) /\ IsActive(books, b)
  BY <1>1, Zenon DEF CreateNote
<1>5. OnlyBill(books, d, b)
  BY <1>3 DEF OnlyBill
<1>6. RowsOK(d)
  <2>1. d.bill[b].state # "gone"
    BY <1>3, <1>4 DEF IsActive
  <2> QED
    BY <1>2, <1>3, <2>1, Sizes DEF RowsOK, RowOK
<1>7. SameKeys(books, d)
  BY <1>3 DEF SameKeys
<1>8. \A p \in Receipt : SpendOK(books, p) => SpendOK(d, p)
  BY <1>2, <1>3, <1>5, OneBill
<1>9. \A c \in Bill : IdleOK(books, c) => IdleOK(d, c)
  <2>1. \A c \in Bill : IsActive(d, c) <=> IsActive(books, c)
    BY <1>3 DEF IsActive
  <2> QED
    BY <1>2, <1>3, <1>5, <2>1, OneBill
<1>10. \A c \in Bill \ {b} : StatusOK(books, c) => StatusOK(d, c)
  BY <1>2, <1>3, <1>5, OneBill
<1> QED
  BY <1>3, <1>4, <1>6, <1>7, <1>8, <1>9, <1>10, WriteStep

LEMMA TurnedOffIs ==
  ASSUME NEW row \in Allocation
  PROVE  LET off == TurnedOff(row)
         IN  /\ off \in Allocation /\ off.amount = row.amount
             /\ off.held = IF row.held = "active" THEN "inactive" ELSE row.held
             /\ row.held # "active" => off = row
             /\ HeldOf(off) = 0
BY DEF TurnedOff, Allocation, HeldOf

LEMMA CancelOrderStep ==
  ASSUME IInv, NEW b \in Bill, CancelOrder(b)
  PROVE  IInv'
<1>1. books \in Books /\ RowsOK(books)
  BY DEF IInv, TypeInv, TypeOK, Sound
<1> DEFINE bill == [books.bill EXCEPT ![b].status = "VOID"]
           share == [p \in Receipt |-> [books.share[p] EXCEPT ![b] = TurnedOff(@)]]
           order == [books.order EXCEPT ![b] = "cancelled"]
           d == [bill |-> bill, receipt |-> books.receipt, share |-> share, note |-> books.note,
                 order |-> order]
<1>2. /\ books.bill \in [Bill -> BillRow] /\ books.receipt \in [Receipt -> PaymentRow]
      /\ books.share \in [Receipt -> [Bill -> Allocation]] /\ books.note \in [Bill -> Int]
      /\ books.order \in [Bill -> {"none", "open", "cancelled", "gone"}]
  BY <1>1 DEF Books
<1>3. /\ bill \in [Bill -> BillRow]
      /\ bill[b].status = "VOID"
      /\ \A c \in Bill : /\ bill[c].state = books.bill[c].state /\ bill[c].kind = books.bill[c].kind
                         /\ c # b => bill[c] = books.bill[c]
  BY <1>2 DEF BillRow, InvoiceStatus
<1>4. ASSUME NEW p \in Receipt
      PROVE  /\ share[p] \in [Bill -> Allocation]
             /\ share[p][b] = TurnedOff(books.share[p][b])
             /\ \A c \in Bill \ {b} : share[p][c] = books.share[p][c]
  <2>1. TurnedOff(books.share[p][b]) \in Allocation
    BY <1>2, TurnedOffIs
  <2>2. share[p] = [books.share[p] EXCEPT ![b] = TurnedOff(books.share[p][b])]
    OBVIOUS
  <2> QED
    BY <1>2, <2>1, <2>2
<1>5. /\ order \in [Bill -> {"none", "open", "cancelled", "gone"}] /\ order[b] = "cancelled"
      /\ \A c \in Bill \ {b} : order[c] = books.order[c]
  BY <1>2
<1>6. Write(d, {})
  BY Zenon DEF CancelOrder
<1>7. share \in [Receipt -> [Bill -> Allocation]]
  BY <1>4
<1>8. /\ d.bill = bill /\ d.receipt = books.receipt /\ d.share = share
      /\ d.note = books.note /\ d.order = order
  OBVIOUS
<1> HIDE DEF bill, share, order
<1>9. d \in Books
  BY <1>2, <1>3, <1>5, <1>7 DEF Books
<1> HIDE DEF d
<1>10. \A p \in Receipt, c \in Bill :
         /\ d.share[p][c].amount = books.share[p][c].amount
         /\ Held(d, p, c) = (IF c = b THEN 0 ELSE Held(books, p, c))
         /\ Counted(d, p, c) = (IF c = b THEN 0 ELSE Counted(books, p, c))
         /\ books.share[p][c].held # "active" => d.share[p][c] = books.share[p][c]
         /\ d.share[p][c].held = "none" => books.share[p][c].held = "none"
  <2> SUFFICES ASSUME NEW p \in Receipt, NEW c \in Bill
               PROVE  /\ d.share[p][c].amount = books.share[p][c].amount
                      /\ Held(d, p, c) = (IF c = b THEN 0 ELSE Held(books, p, c))
                      /\ Counted(d, p, c) = (IF c = b THEN 0 ELSE Counted(books, p, c))
                      /\ books.share[p][c].held # "active" => d.share[p][c] = books.share[p][c]
                      /\ d.share[p][c].held = "none" => books.share[p][c].held = "none"
    OBVIOUS
  <2>1. CASE c = b
    <3>1. books.share[p][b] \in Allocation
      BY <1>2
    <3>2. d.share[p][c] = TurnedOff(books.share[p][b])
      BY <1>4, <1>8, <2>1
    <3>3. /\ d.share[p][c].amount = books.share[p][b].amount
          /\ d.share[p][c].held = IF books.share[p][b].held = "active" THEN "inactive"
                                  ELSE books.share[p][b].held
          /\ books.share[p][b].held # "active" => d.share[p][c] = books.share[p][b]
      BY <3>1, <3>2, TurnedOffIs
    <3> QED
      BY <2>1, <3>3 DEF Held, Counted
  <2>2. CASE c # b
    <3>1. d.share[p][c] = books.share[p][c] /\ d.receipt = books.receipt
      BY <1>4, <1>8, <2>2
    <3> QED
      BY <2>2, <3>1 DEF Held, Counted
  <2> QED
    BY <2>1, <2>2
<1>11. RowsOK(d)
  <2>1. \A p \in Receipt, c \in Bill : RowOK(d.share[p][c], d.receipt[p], d.bill[c])
    <3> SUFFICES ASSUME NEW p \in Receipt, NEW c \in Bill
                 PROVE  RowOK(d.share[p][c], d.receipt[p], d.bill[c])
      OBVIOUS
    <3>1. RowOK(books.share[p][c], books.receipt[p], books.bill[c])
      BY <1>1 DEF RowsOK
    <3>2. d.receipt[p] = books.receipt[p] /\ d.bill[c].state = books.bill[c].state
      BY <1>3, <1>8
    <3>3. books.share[p][c] = NoShare => d.share[p][c] = NoShare
      BY <1>10 DEF NoShare
    <3> QED
      BY <1>10, <3>1, <3>2, <3>3 DEF RowOK
  <2>2. \A c \in Bill : d.bill[c].state = "gone" => d.note[c] = 0
    BY <1>1, <1>3, <1>8 DEF RowsOK
  <2>3. \A c \in OrderBill : d.order[c] = "none" => d.bill[c].state = "none"
    BY <1>1, <1>3, <1>5, <1>8, Sizes DEF RowsOK
  <2> QED
    BY <2>1, <2>2, <2>3 DEF RowsOK
<1>12. SameKeys(books, d)
  BY <1>3, <1>5, <1>8, <1>10 DEF SameKeys
<1>13. ASSUME NEW p \in Receipt, SpendOK(books, p)
       PROVE  SpendOK(d, p)
  <2>1. \A c \in Bill : Held(d, p, c) <= Held(books, p, c)
    <3>1. \A c \in Bill : Held(books, p, c) \in Nat
      BY <1>1, CountedIsNat
    <3> QED
      BY <1>10, <3>1
  <2> QED
    BY <1>1, <1>8, <1>9, <1>13, <2>1, SpendLess
<1>14. ASSUME NEW c \in Bill
       PROVE  (StatusOK(books, c) => StatusOK(d, c)) /\ (IdleOK(books, c) => IdleOK(d, c))
  <2>1. CASE c = b
    <3>1. \A p \in Receipt : Counted(d, p, b) = 0
      BY <1>10
    <3>2. d.bill[b].status \notin {"PARTIALLY_PAID", "PAID"}
      BY <1>3, <1>8
    <3> QED
      BY <2>1, <3>1, <3>2, UnpaidStatus DEF IdleOK
  <2>2. CASE c # b
    <3>1. Alike(books, d, c)
      BY <1>3, <1>8, <1>10, <2>2 DEF Alike
    <3> QED
      BY <3>1, AlikeClaims
  <2> QED
    BY <2>1, <2>2
<1> QED
  BY <1>6, <1>9, <1>11, <1>12, <1>13, <1>14, WriteStep

------------------------------------------------------------------------------
(* What the automatic allocation does. *)

Given(d, p) == SumFunction([q \in {q \in Receipt : q < p} |-> Free(d, q)])
Filled(d, b) == SumFunction([c \in {c \in Bill : c < b} |-> Needs(d, c)])

(* All that is free and all that is due. *)
AllFree(d) == SumFunctionOnSet([p \in Receipt |-> Free(d, p)], Receipt)
AllNeeded(d) == SumFunctionOnSet([b \in Bill |-> Needs(d, b)], Bill)
FlowFrom(d, p) == SumFunctionOnSet([b \in Bill |-> Flow(d, p, b)], Bill)
FlowInto(d, b) == SumFunctionOnSet([p \in Receipt |-> Flow(d, p, b)], Receipt)

LEMMA NeedsIsNat ==
  ASSUME NEW d \in Books, NEW b \in Bill
  PROVE  Needs(d, b) \in Nat
BY PaidIsInt DEF Needs, Positive

LEMMA FreeIsNat ==
  ASSUME NEW d \in Books, NEW p \in Receipt
  PROVE  Free(d, p) \in Nat
BY AllocatedIsInt, BookRows DEF Free, Positive

LEMMA GivenIs ==
  ASSUME NEW d \in Books, NEW p \in Receipt
  PROVE  Given(d, p) \in Nat
<1> DEFINE f == [q \in Receipt |-> Free(d, q)]
<1>1. f = [q \in Receipt |-> f[q]] /\ \A q \in Receipt : f[q] \in Nat
  BY FreeIsNat
<1>2. Given(d, p) = SumFunction([q \in {q \in Receipt : q < p} |-> f[q]])
  BY DEF Given
<1> HIDE DEF f
<1>3. SumFunction([q \in {q \in Receipt : q < p} |-> f[q]]) \in Nat
  BY <1>1, Sizes, SumBefore
<1> QED
  BY <1>2, <1>3

LEMMA FilledIs ==
  ASSUME NEW d \in Books, NEW b \in Bill
  PROVE  /\ Filled(d, b) = SumFunctionOnSet([c \in Bill |-> Needs(d, c)],
                                            Before(Smaller(Bill), Bill, b))
         /\ Filled(d, b) \in Nat
<1> DEFINE f == [c \in Bill |-> Needs(d, c)]
<1>1. f = [c \in Bill |-> f[c]] /\ \A c \in Bill : f[c] \in Nat
  BY NeedsIsNat
<1>2. Filled(d, b) = SumFunction([c \in {c \in Bill : c < b} |-> f[c]])
  BY DEF Filled
<1> HIDE DEF f
<1>3. /\ SumFunction([c \in {c \in Bill : c < b} |-> f[c]])
           = SumFunctionOnSet(f, Before(Smaller(Bill), Bill, b))
      /\ SumFunction([c \in {c \in Bill : c < b} |-> f[c]]) \in Nat
  BY <1>1, Sizes, SumBefore
<1> QED
  BY <1>2, <1>3 DEF f

(* What a payment gives an invoice is the overlap of two intervals. *)
LEMMA FlowIs ==
  ASSUME NEW d \in Books, NEW p \in Receipt, NEW b \in Bill
  PROVE  /\ Flow(d, p, b) = Overlap(Given(d, p), Given(d, p) + Free(d, p), Filled(d, b), Needs(d, b))
         /\ Flow(d, p, b) \in Nat
         /\ Needs(d, b) = 0 \/ Free(d, p) = 0 => Flow(d, p, b) = 0
<1> DEFINE g == Given(d, p)
           f == Free(d, p)
           l == Filled(d, b)
           n == Needs(d, b)
<1>1. g \in Nat /\ f \in Nat /\ l \in Nat /\ n \in Nat
  BY GivenIs, FilledIs, FreeIsNat, NeedsIsNat
<1>2. Flow(d, p, b) = Positive(Least(g + f, l + n) - Most(g, l))
  BY DEF Flow, Given, Filled
<1> HIDE DEF g, f, l, n
<1>3. LET x == Positive(Least(g + f, l + n) - Most(g, l))
      IN  /\ x = Overlap(g, g + f, l, n) /\ x \in Nat
          /\ n = 0 \/ f = 0 => x = 0
  BY <1>1 DEF Positive, Least, Most, Overlap, Higher, Lower
<1> QED
  BY <1>2, <1>3 DEF g, f, l, n

LEMMA AllIsNat ==
  ASSUME NEW d \in Books
  PROVE  AllFree(d) \in Nat /\ AllNeeded(d) \in Nat
BY FreeIsNat, NeedsIsNat, Sizes, SumIsNat DEF AllFree, AllNeeded

(* What is poured out of a payment: what is due of the part it covers. *)
LEMMA FlowFromIs ==
  ASSUME NEW d \in Books, NEW p \in Receipt
  PROVE  FlowFrom(d, p) = Higher(0, Lower(Given(d, p) + Free(d, p), AllNeeded(d)) - Given(d, p))
<1> DEFINE f == [b \in Bill |-> Needs(d, b)]
           g == [b \in Bill |-> Flow(d, p, b)]
           less == Smaller(Bill)
           lo == Given(d, p)
           hi == lo + Free(d, p)
<1>1. lo \in Nat /\ Free(d, p) \in Nat
  BY GivenIs, FreeIsNat
<1>2. hi \in Nat /\ lo <= hi
  BY <1>1
<1>3. \A b \in Bill : f[b] \in Nat /\ g[b] \in Nat
  BY NeedsIsNat, FlowIs
<1>4. \A b \in Bill : g[b] = Overlap(lo, hi, SumFunctionOnSet(f, Before(less, Bill, b)), f[b])
  BY FlowIs, FilledIs
<1>5. IsOrder(less, Bill) /\ IsFiniteSet(Bill)
  BY Sizes, SmallerOrders
<1>6. FlowFrom(d, p) = SumFunctionOnSet(g, Bill) /\ AllNeeded(d) = SumFunctionOnSet(f, Bill)
  BY DEF FlowFrom, AllNeeded
<1> HIDE DEF f, g, less, lo, hi
<1>7. SumFunctionOnSet(g, Bill) = Higher(0, Lower(hi, SumFunctionOnSet(f, Bill)) - lo)
  BY <1>1, <1>2, <1>3, <1>4, <1>5, SumOverlap
<1> QED
  BY <1>6, <1>7 DEF lo, hi

(* A payment gives at most what is free of it. *)
LEMMA FlowFromBound ==
  ASSUME NEW d \in Books, NEW p \in Receipt
  PROVE  FlowFrom(d, p) \in Nat /\ FlowFrom(d, p) <= Free(d, p)
<1> DEFINE g == Given(d, p)
           f == Free(d, p)
           n == AllNeeded(d)
<1>1. g \in Nat /\ f \in Nat /\ n \in Nat
  BY GivenIs, FreeIsNat, AllIsNat
<1>2. FlowFrom(d, p) = Higher(0, Lower(g + f, n) - g)
  BY FlowFromIs
<1> HIDE DEF g, f, n
<1>3. Higher(0, Lower(g + f, n) - g) \in Nat /\ Higher(0, Lower(g + f, n) - g) <= f
  BY <1>1 DEF Higher, Lower
<1> QED
  BY <1>2, <1>3 DEF f

(* Money flows from recorded payments into invoices that are active. *)
LEMMA FlowNeeds ==
  ASSUME NEW d \in Books, NEW p \in Receipt, NEW b \in Bill, Flow(d, p, b) > 0
  PROVE  /\ Needs(d, b) > 0 /\ IsActive(d, b) /\ d.receipt[p].state = "RECORDED"
         /\ b \in Affected(d)
<1>1. Needs(d, b) # 0 /\ Free(d, p) # 0 /\ Flow(d, p, b) # 0
  BY FlowIs
<1>2. Needs(d, b) > 0
  BY <1>1, NeedsIsNat
<1>3. IsActive(d, b)
  BY <1>1 DEF Needs, Billable
<1>4. d.receipt[p].state = "RECORDED"
  BY <1>1 DEF Free
<1> QED
  BY <1>2, <1>3, <1>4 DEF Affected

LEMMA AutoAllocateIs ==
  ASSUME NEW d \in Books
  PROVE  LET e == AutoAllocate(d)
         IN  /\ e \in Books
             /\ e.bill = d.bill /\ e.receipt = d.receipt /\ e.note = d.note /\ e.order = d.order
             /\ \A p \in Receipt, b \in Bill :
                  e.share[p][b] =
                    IF Flow(d, p, b) > 0
                    THEN [held |-> "active", amount |-> d.share[p][b].amount + Flow(d, p, b)]
                    ELSE d.share[p][b]
<1> DEFINE cell(p, b) == IF Flow(d, p, b) > 0
                         THEN [held |-> "active", amount |-> d.share[p][b].amount + Flow(d, p, b)]
                         ELSE d.share[p][b]
           share == [p \in Receipt |-> [b \in Bill |-> cell(p, b)]]
<1>1. AutoAllocate(d) = [d EXCEPT !.share = share]
  BY DEF AutoAllocate
<1>2. ASSUME NEW p \in Receipt, NEW b \in Bill
      PROVE  cell(p, b) \in Allocation
  <2>1. Flow(d, p, b) \in Nat /\ d.share[p][b] \in Allocation /\ d.share[p][b].amount \in Int
    BY FlowIs, BookRows
  <2>2. d.share[p][b].amount + Flow(d, p, b) \in Int
    BY <2>1
  <2> QED
    BY <2>1, <2>2 DEF Allocation
<1> HIDE DEF cell
<1>3. share \in [Receipt -> [Bill -> Allocation]]
  BY <1>2
<1>4. \A p \in Receipt, b \in Bill : share[p][b] = cell(p, b)
  OBVIOUS
<1> HIDE DEF share
<1>5. PICK e : e = [d EXCEPT !.share = share]
  OBVIOUS
<1>6. /\ e \in Books /\ e.share = share
      /\ e.bill = d.bill /\ e.receipt = d.receipt /\ e.note = d.note /\ e.order = d.order
  BY <1>3, <1>5 DEF Books
<1>7. AutoAllocate(d) = e
  BY <1>1, <1>5, Zenon
<1> QED
  BY <1>4, <1>6, <1>7 DEF cell

LEMMA HoldingFlows ==
  ASSUME NEW d \in Books, NEW e \in Books, NEW p \in Receipt,
         \A b \in Bill : Held(e, p, b) = Held(d, p, b) + Flow(d, p, b)
  PROVE  Holding(e, p) = Holding(d, p) + FlowFrom(d, p)
<1> DEFINE h == [b \in Bill |-> Held(e, p, b)]
           f == [b \in Bill |-> Held(d, p, b)]
           g == [b \in Bill |-> Flow(d, p, b)]
<1>1. AddUp(h, f, g, Bill)
  BY CountedIsInt, FlowIs DEF AddUp
<1>2. /\ Holding(e, p) = SumFunctionOnSet(h, Bill) /\ Holding(d, p) = SumFunctionOnSet(f, Bill)
      /\ FlowFrom(d, p) = SumFunctionOnSet(g, Bill)
  BY HoldingIs DEF FlowFrom
<1> HIDE DEF h, f, g
<1>3. SumFunctionOnSet(h, Bill) = SumFunctionOnSet(f, Bill) + SumFunctionOnSet(g, Bill)
  BY <1>1, Sizes, SumAddUp
<1> QED
  BY <1>2, <1>3

(* A payment from which nothing was released stays within its amount. *)
LEMMA SpendFlows ==
  ASSUME NEW d \in Books, RowsOK(d), NEW p \in Receipt, SpendOK(d, p),
         \A b \in Bill : Flow(d, p, b) > 0 => d.share[p][b].held # "inactive"
  PROVE  SpendOK(AutoAllocate(d), p)
<1>0. PICK e : e = AutoAllocate(d)
  OBVIOUS
<1>1. /\ e \in Books /\ e.receipt = d.receipt
      /\ \A b \in Bill :
           e.share[p][b] =
             IF Flow(d, p, b) > 0
             THEN [held |-> "active", amount |-> d.share[p][b].amount + Flow(d, p, b)]
             ELSE d.share[p][b]
  BY <1>0, AutoAllocateIs
<1>2. ASSUME NEW b \in Bill
      PROVE  Held(e, p, b) = Held(d, p, b) + Flow(d, p, b)
  <2>1. PICK n \in Nat : n = Flow(d, p, b)
    BY FlowIs
  <2>2. PICK x \in Int : x = d.share[p][b].amount
    BY BookRows
  <2>3. Held(d, p, b) \in Int /\ d.share[p][b] \in Allocation
    BY CountedIsInt, BookRows
  <2>4. e.share[p][b] = IF n > 0 THEN [held |-> "active", amount |-> x + n] ELSE d.share[p][b]
    BY <1>1, <2>1, <2>2
  <2>5. CASE n > 0
    <3>1. d.share[p][b].held # "inactive"
      BY <2>1, <2>5
    <3>2. RowOK(d.share[p][b], d.receipt[p], d.bill[b])
      BY DEF RowsOK
    <3>3. Held(d, p, b) = x
      BY <2>2, <2>3, <3>1, <3>2 DEF Held, RowOK, NoShare, Allocation
    <3>4. e.share[p][b] = [held |-> "active", amount |-> x + n]
      BY <2>4, <2>5
    <3>5. Held(e, p, b) = x + n
      BY <3>4 DEF Held
    <3> QED
      BY <2>1, <3>3, <3>5
  <2>6. CASE ~ (n > 0)
    <3>1. n = 0 /\ e.share[p][b] = d.share[p][b]
      BY <2>1, <2>4, <2>6
    <3>2. Held(e, p, b) = Held(d, p, b)
      BY <3>1 DEF Held
    <3> QED
      BY <2>1, <2>3, <3>1, <3>2
  <2> QED
    BY <2>5, <2>6
<1>3. Holding(e, p) = Holding(d, p) + FlowFrom(d, p)
  BY <1>1, <1>2, HoldingFlows
<1>4. FlowFrom(d, p) \in Nat /\ FlowFrom(d, p) <= Free(d, p)
  BY FlowFromBound
<1>5. Holding(d, p) \in Int /\ d.receipt[p].amount \in Nat /\ Holding(d, p) <= d.receipt[p].amount
  BY HoldingIsInt, BookRows DEF SpendOK
<1>6. CASE d.receipt[p].state = "RECORDED"
  <2>1. \A b \in Bill : Counted(d, p, b) = Held(d, p, b)
    BY <1>6 DEF Counted, Held
  <2>2. [b \in Bill |-> Counted(d, p, b)] = [b \in Bill |-> Held(d, p, b)]
    BY <2>1
  <2>3. Allocated(d, p) = Holding(d, p)
    BY <2>2 DEF Allocated, Holding
  <2>4. Free(d, p) = Positive(d.receipt[p].amount - Holding(d, p))
    BY <1>6, <2>3 DEF Free
  <2>5. Free(d, p) = d.receipt[p].amount - Holding(d, p)
    BY <1>5, <2>4 DEF Positive
  <2> DEFINE x == Holding(d, p)
             y == FlowFrom(d, p)
             n == d.receipt[p].amount
  <2>6. x \in Int /\ y \in Nat /\ n \in Nat /\ y <= n - x
    BY <1>4, <1>5, <2>5
  <2>7. x + y <= n
    <3> HIDE DEF x, y, n
    <3> QED
      BY <2>6
  <2> QED
    BY <1>0, <1>1, <1>3, <2>7 DEF SpendOK
<1>7. CASE d.receipt[p].state # "RECORDED"
  <2>1. Free(d, p) = 0
    BY <1>7 DEF Free
  <2>2. FlowFrom(d, p) = 0
    BY <1>4, <2>1
  <2>3. Holding(e, p) = Holding(d, p)
    BY <1>3, <1>5, <2>2
  <2> QED
    BY <1>0, <1>1, <1>5, <2>3 DEF SpendOK
<1> QED
  BY <1>6, <1>7

(* What AutoAllocate leaves as it is: the rows of invoices it gives        *)
(* nothing, and all that is not an allocation.                             *)
LEMMA AutoAllocateKeeps ==
  ASSUME NEW d \in Books, RowsOK(d)
  PROVE  LET e == AutoAllocate(d)
         IN  /\ RowsOK(e)
             /\ \A b \in Bill \ Affected(d) : Alike(d, e, b)
             /\ \A b \in Bill : IdleOK(d, b) => IdleOK(e, b)
<1>1. PICK e : e = AutoAllocate(d)
  OBVIOUS
<1>2. /\ e \in Books
      /\ e.bill = d.bill /\ e.receipt = d.receipt /\ e.note = d.note /\ e.order = d.order
      /\ \A p \in Receipt, b \in Bill :
           e.share[p][b] =
             IF Flow(d, p, b) > 0
             THEN [held |-> "active", amount |-> d.share[p][b].amount + Flow(d, p, b)]
             ELSE d.share[p][b]
  BY <1>1, AutoAllocateIs
<1>3. ASSUME NEW p \in Receipt, NEW b \in Bill
      PROVE  /\ RowOK(e.share[p][b], e.receipt[p], e.bill[b])
             /\ ~(Flow(d, p, b) > 0) => e.share[p][b] = d.share[p][b]
             /\ Flow(d, p, b) > 0 => IsActive(d, b) /\ b \in Affected(d)
  <2>1. PICK n \in Nat : n = Flow(d, p, b)
    BY FlowIs
  <2>2. PICK x \in Int : x = d.share[p][b].amount
    BY BookRows
  <2>3. e.share[p][b] = IF n > 0 THEN [held |-> "active", amount |-> x + n] ELSE d.share[p][b]
    BY <1>2, <2>1, <2>2
  <2>4. RowOK(d.share[p][b], d.receipt[p], d.bill[b])
    BY DEF RowsOK
  <2>5. n > 0 => IsActive(d, b) /\ d.receipt[p].state = "RECORDED" /\ b \in Affected(d)
    BY <2>1, FlowNeeds
  <2>6. CASE n > 0
    <3>1. /\ d.bill[b].state = "active" /\ d.receipt[p].state = "RECORDED" /\ b \in Affected(d)
          /\ IsActive(d, b)
      BY <2>5, <2>6 DEF IsActive
    <3>2. e.share[p][b].held = "active" /\ e.share[p][b].amount = x + n
      BY <2>3, <2>6
    <3>3. x >= 0
      BY <2>2, <2>4 DEF RowOK
    <3>4. RowOK(e.share[p][b], e.receipt[p], e.bill[b])
      BY <1>2, <2>1, <2>2, <3>1, <3>2, <3>3 DEF RowOK
    <3> QED
      BY <2>1, <2>6, <3>1, <3>4
  <2>7. CASE ~(n > 0)
    <3>1. e.share[p][b] = d.share[p][b]
      BY <2>3, <2>7
    <3>2. RowOK(e.share[p][b], e.receipt[p], e.bill[b])
      BY <1>2, <2>4, <3>1
    <3> QED
      BY <2>1, <2>7, <3>1, <3>2
  <2> QED
    BY <2>6, <2>7
<1>4. RowsOK(e)
  BY <1>2, <1>3 DEF RowsOK
<1>5. ASSUME NEW b \in Bill, \A p \in Receipt : ~(Flow(d, p, b) > 0)
      PROVE  Alike(d, e, b)
  <2>1. \A p \in Receipt : e.share[p][b] = d.share[p][b]
    BY <1>3, <1>5
  <2> QED
    BY <1>2, <2>1 DEF Alike, Counted
<1>6. \A b \in Bill \ Affected(d) : Alike(d, e, b)
  BY <1>3, <1>5
<1>7. ASSUME NEW b \in Bill, IdleOK(d, b)
      PROVE  IdleOK(e, b)
  <2>1. CASE IsActive(d, b)
    <3>1. IsActive(e, b)
      BY <1>2, <2>1 DEF IsActive
    <3> QED
      BY <3>1 DEF IdleOK
  <2>2. CASE ~IsActive(d, b)
    <3>1. Alike(d, e, b)
      BY <1>3, <1>5, <2>2
    <3> QED
      BY <1>7, <3>1, AlikeClaims
  <2> QED
    BY <2>1, <2>2
<1> QED
  BY <1>1, <1>4, <1>6, <1>7

------------------------------------------------------------------------------
(* The automatic allocation puts money to use.                             *)

LEMMA GivenInOrder ==
  ASSUME NEW d \in Books, NEW p \in Receipt
  PROVE  /\ Given(d, p) = SumFunctionOnSet([q \in Receipt |-> Free(d, q)],
                                           Before(Smaller(Receipt), Receipt, p))
         /\ AllFree(d) \in Nat
         /\ Given(d, p) + Free(d, p) <= AllFree(d)
<1> DEFINE f == [q \in Receipt |-> Free(d, q)]
<1>1. f = [q \in Receipt |-> f[q]] /\ \A q \in Receipt : f[q] \in Nat
  BY FreeIsNat
<1>2. Given(d, p) = SumFunction([q \in {q \in Receipt : q < p} |-> f[q]]) /\ f[p] = Free(d, p)
  BY DEF Given
<1> HIDE DEF f
<1>3. SumFunction([q \in {q \in Receipt : q < p} |-> f[q]])
        = SumFunctionOnSet(f, Before(Smaller(Receipt), Receipt, p))
  BY <1>1, Sizes, SumBefore
<1>4. SumFunctionOnSet(f, Before(Smaller(Receipt), Receipt, p)) + f[p] <= SumFunctionOnSet(f, Receipt)
  BY <1>1, Sizes, SumEndsBefore
<1>5. SumFunctionOnSet(f, Receipt) \in Nat
  BY <1>1, Sizes, SumIsNat
<1> QED
  BY <1>2, <1>3, <1>4, <1>5 DEF f, AllFree

LEMMA FilledInOrder ==
  ASSUME NEW d \in Books, NEW b \in Bill
  PROVE  /\ AllNeeded(d) \in Nat
         /\ Filled(d, b) + Needs(d, b) <= AllNeeded(d)
         /\ \A c \in Bill : b < c => Filled(d, b) + Needs(d, b) <= Filled(d, c)
<1> DEFINE f == [c \in Bill |-> Needs(d, c)]
           before(c) == SumFunctionOnSet(f, Before(Smaller(Bill), Bill, c))
<1>1. \A c \in Bill : f[c] \in Nat
  BY NeedsIsNat
<1>2. \A c \in Bill : Filled(d, c) = before(c) /\ f[c] = Needs(d, c)
  BY FilledIs
<1>3. AllNeeded(d) = SumFunctionOnSet(f, Bill)
  BY DEF AllNeeded
<1> HIDE DEF f
<1>4. /\ before(b) + f[b] <= SumFunctionOnSet(f, Bill)
      /\ \A c \in Bill : b < c => before(b) + f[b] <= before(c)
  BY <1>1, Sizes, SumEndsBefore
<1>5. SumFunctionOnSet(f, Bill) \in Nat
  BY <1>1, Sizes, SumIsNat
<1> QED
  BY <1>2, <1>3, <1>4, <1>5

(* What is poured into an invoice. *)
LEMMA OverlapTurned ==
  \A a, n, b, m \in Nat : Overlap(a, a + n, b, m) = Overlap(b, b + m, a, n)
BY DEF Overlap, Higher, Lower

LEMMA FlowIntoIs ==
  ASSUME NEW d \in Books, NEW b \in Bill
  PROVE  /\ FlowInto(d, b) = Higher(0, Lower(Filled(d, b) + Needs(d, b), AllFree(d)) - Filled(d, b))
         /\ FlowInto(d, b) \in Nat
<1> DEFINE f == [p \in Receipt |-> Free(d, p)]
           g == [p \in Receipt |-> Flow(d, p, b)]
           less == Smaller(Receipt)
           lo == Filled(d, b)
           hi == lo + Needs(d, b)
<1>1. lo \in Nat /\ Needs(d, b) \in Nat
  BY FilledIs, NeedsIsNat
<1>2. hi \in Nat /\ lo <= hi
  BY <1>1
<1>3. \A p \in Receipt : f[p] \in Nat /\ g[p] \in Nat
  BY FreeIsNat, FlowIs
<1>4. \A p \in Receipt : g[p] = Overlap(lo, hi, SumFunctionOnSet(f, Before(less, Receipt, p)), f[p])
  <2> SUFFICES ASSUME NEW p \in Receipt
               PROVE  g[p] = Overlap(lo, hi, SumFunctionOnSet(f, Before(less, Receipt, p)), f[p])
    OBVIOUS
  <2>1. Given(d, p) \in Nat /\ Free(d, p) \in Nat
    BY GivenIs, FreeIsNat
  <2>2. g[p] = Overlap(Given(d, p), Given(d, p) + Free(d, p), lo, Needs(d, b))
    BY FlowIs
  <2>3. Overlap(Given(d, p), Given(d, p) + Free(d, p), lo, Needs(d, b))
          = Overlap(lo, hi, Given(d, p), Free(d, p))
    BY <1>1, <2>1, OverlapTurned
  <2>4. Given(d, p) = SumFunctionOnSet(f, Before(less, Receipt, p)) /\ f[p] = Free(d, p)
    BY GivenInOrder
  <2> QED
    BY <2>2, <2>3, <2>4
<1>5. IsOrder(less, Receipt) /\ IsFiniteSet(Receipt)
  BY Sizes, SmallerOrders
<1>6. FlowInto(d, b) = SumFunctionOnSet(g, Receipt) /\ AllFree(d) = SumFunctionOnSet(f, Receipt)
  BY DEF FlowInto, AllFree
<1> HIDE DEF f, g, less, lo, hi
<1>7. SumFunctionOnSet(g, Receipt) = Higher(0, Lower(hi, SumFunctionOnSet(f, Receipt)) - lo)
  BY <1>1, <1>2, <1>3, <1>4, <1>5, SumOverlap
<1>8. SumFunctionOnSet(g, Receipt) \in Nat
  BY <1>3, <1>5, SumIsNat
<1> QED
  BY <1>6, <1>7, <1>8 DEF lo, hi

(* What the rows count for once the flows are added: a released row comes  *)
(* back, so it may be more than what was counted and what flowed.          *)
LEMMA CountedFlows ==
  ASSUME NEW d \in Books, RowsOK(d), NEW e \in Books, e.receipt = d.receipt,
         e.share = AutoAllocate(d).share, NEW p \in Receipt, NEW b \in Bill
  PROVE  Counted(d, p, b) + Flow(d, p, b) <= Counted(e, p, b)
<1>1. PICK n \in Nat : n = Flow(d, p, b)
  BY FlowIs
<1>2. PICK x \in Int : x = d.share[p][b].amount
  BY BookRows
<1>3. e.share[p][b] = IF n > 0 THEN [held |-> "active", amount |-> x + n] ELSE d.share[p][b]
  BY <1>1, <1>2, AutoAllocateIs
<1>4. x >= 0
  BY <1>2 DEF RowsOK, RowOK
<1>5. Counted(d, p, b) \in Int /\ Counted(d, p, b) <= x
  BY <1>2, <1>4, CountedIsInt DEF Counted
<1>6. CASE n > 0
  <2>1. d.receipt[p].state = "RECORDED"
    BY <1>1, <1>6, FlowNeeds
  <2>2. e.share[p][b].held = "active" /\ e.share[p][b].amount = x + n
    BY <1>3, <1>6
  <2>3. Counted(e, p, b) = x + n
    BY <2>1, <2>2 DEF Counted
  <2> QED
    BY <1>1, <1>2, <1>5, <2>3
<1>7. CASE n = 0
  <2>1. Counted(e, p, b) = Counted(d, p, b)
    BY <1>3, <1>7 DEF Counted
  <2> QED
    BY <1>1, <1>5, <1>7, <2>1
<1> QED
  BY <1>1, <1>6, <1>7

LEMMA PaidFlows ==
  ASSUME NEW d \in Books, RowsOK(d), NEW e \in Books, e.receipt = d.receipt,
         e.share = AutoAllocate(d).share
  PROVE  /\ \A p \in Receipt : Allocated(d, p) + FlowFrom(d, p) <= Allocated(e, p)
         /\ \A b \in Bill : Paid(d, b) + FlowInto(d, b) <= Paid(e, b)
<1>1. ASSUME NEW p \in Receipt
      PROVE  Allocated(d, p) + FlowFrom(d, p) <= Allocated(e, p)
  <2> DEFINE f == [b \in Bill |-> Counted(d, p, b)]
             g == [b \in Bill |-> Flow(d, p, b)]
             h == [b \in Bill |-> f[b] + g[b]]
             k == [b \in Bill |-> Counted(e, p, b)]
  <2>1. \A b \in Bill : f[b] \in Int /\ g[b] \in Int /\ k[b] \in Int /\ h[b] = f[b] + g[b]
    BY CountedIsInt, FlowIs
  <2>2. \A b \in Bill : f[b] + g[b] <= k[b]
    BY CountedFlows
  <2>3. /\ Allocated(d, p) = SumFunctionOnSet(f, Bill) /\ Allocated(e, p) = SumFunctionOnSet(k, Bill)
        /\ FlowFrom(d, p) = SumFunctionOnSet(g, Bill)
    BY AllocatedIs DEF FlowFrom
  <2> HIDE DEF f, g, h, k
  <2>4. AddUp(h, f, g, Bill)
    BY <2>1 DEF AddUp
  <2>5. SumFunctionOnSet(h, Bill) = SumFunctionOnSet(f, Bill) + SumFunctionOnSet(g, Bill)
    BY <2>4, Sizes, SumAddUp
  <2>6. \A b \in Bill : h[b] \in Int /\ k[b] \in Int /\ h[b] <= k[b]
    BY <2>1, <2>2
  <2>7. SumFunctionOnSet(h, Bill) <= SumFunctionOnSet(k, Bill)
    BY <2>6, Sizes, SumAtMost
  <2> QED
    BY <2>3, <2>5, <2>7
<1>2. ASSUME NEW b \in Bill
      PROVE  Paid(d, b) + FlowInto(d, b) <= Paid(e, b)
  <2> DEFINE f == [p \in Receipt |-> Counted(d, p, b)]
             g == [p \in Receipt |-> Flow(d, p, b)]
             h == [p \in Receipt |-> f[p] + g[p]]
             k == [p \in Receipt |-> Counted(e, p, b)]
  <2>1. \A p \in Receipt : f[p] \in Int /\ g[p] \in Int /\ k[p] \in Int /\ h[p] = f[p] + g[p]
    BY CountedIsInt, FlowIs
  <2>2. \A p \in Receipt : f[p] + g[p] <= k[p]
    BY CountedFlows
  <2>3. /\ Paid(d, b) = SumFunctionOnSet(f, Receipt) /\ Paid(e, b) = SumFunctionOnSet(k, Receipt)
        /\ FlowInto(d, b) = SumFunctionOnSet(g, Receipt)
    BY PaidIs DEF FlowInto
  <2> HIDE DEF f, g, h, k
  <2>4. AddUp(h, f, g, Receipt)
    BY <2>1 DEF AddUp
  <2>5. SumFunctionOnSet(h, Receipt) = SumFunctionOnSet(f, Receipt) + SumFunctionOnSet(g, Receipt)
    BY <2>4, Sizes, SumAddUp
  <2>6. \A p \in Receipt : h[p] \in Int /\ k[p] \in Int /\ h[p] <= k[p]
    BY <2>1, <2>2
  <2>7. SumFunctionOnSet(h, Receipt) <= SumFunctionOnSet(k, Receipt)
    BY <2>6, Sizes, SumAtMost
  <2> QED
    BY <2>3, <2>5, <2>7
<1> QED
  BY <1>1, <1>2

(* Money that stays free means that more is free than is due.              *)
LEMMA LeftOver ==
  ASSUME NEW d \in Books, RowsOK(d), NEW e \in Books, e.receipt = d.receipt,
         e.share = AutoAllocate(d).share, NEW p \in Receipt, Free(e, p) > 0
  PROVE  AllNeeded(d) < AllFree(d)
<1> DEFINE n == d.receipt[p].amount
           x == Allocated(d, p)
           y == Allocated(e, p)
           f == Free(d, p)
           g == Given(d, p)
           flow == FlowFrom(d, p)
<1>1. n \in Nat /\ x \in Int /\ y \in Int /\ f \in Nat /\ g \in Nat /\ flow \in Nat
  BY BookRows, AllocatedIsInt, FreeIsNat, GivenIs, FlowFromBound
<1>2. x + flow <= y
  BY PaidFlows
<1>3. d.receipt[p].state = "RECORDED" /\ Positive(n - y) > 0
  BY DEF Free
<1>4. f = Positive(n - x)
  BY <1>3 DEF Free
<1>5. flow = Higher(0, Lower(g + f, AllNeeded(d)) - g)
  BY FlowFromIs
<1>6. AllFree(d) \in Nat /\ g + f <= AllFree(d)
  BY GivenInOrder
<1>7. AllNeeded(d) \in Nat
  BY AllIsNat
<1> HIDE DEF n, x, y, f, g, flow
<1>8. flow < f
  BY <1>1, <1>2, <1>3, <1>4 DEF Positive
<1>9. AllNeeded(d) < g + f
  BY <1>1, <1>5, <1>7, <1>8 DEF Higher, Lower
<1> QED
  BY <1>1, <1>6, <1>7, <1>9

(* An invoice that still needs money means that what is free did not reach *)
(* to its end.                                                             *)
LEMMA StillOpen ==
  ASSUME NEW d \in Books, RowsOK(d), NEW e \in Books, e.receipt = d.receipt,
         e.share = AutoAllocate(d).share, NEW b \in Bill, Needs(e, b) > 0,
         d.bill[b].status # "VOID", e.note = d.note,
         e.bill[b].state = d.bill[b].state, e.bill[b].kind = d.bill[b].kind,
         e.bill[b].total = d.bill[b].total
  PROVE  AllFree(d) < Filled(d, b) + Needs(d, b)
<1> DEFINE due == Due(d, b)
           x == Paid(d, b)
           y == Paid(e, b)
           n == Needs(d, b)
           l == Filled(d, b)
           flow == FlowInto(d, b)
<1>1. due \in Int /\ x \in Int /\ y \in Int /\ n \in Nat /\ l \in Nat /\ flow \in Nat
  BY BookRows, PaidIsInt, NeedsIsNat, FilledIs, FlowIntoIs DEF Due
<1>2. x + flow <= y
  BY PaidFlows
<1>3. Billable(e, b) /\ Positive(Due(e, b) - y) > 0
  BY DEF Needs
<1>4. Billable(d, b) /\ Due(e, b) = due
  BY <1>3 DEF Billable, IsActive, Due
<1>5. n = Positive(due - x)
  BY <1>4 DEF Needs
<1>6. flow = Higher(0, Lower(l + n, AllFree(d)) - l)
  BY FlowIntoIs
<1>7. AllFree(d) \in Nat
  BY AllIsNat
<1> HIDE DEF due, x, y, n, l, flow
<1>8. flow < n
  BY <1>1, <1>2, <1>3, <1>4, <1>5 DEF Positive
<1>9. AllFree(d) < l + n
  BY <1>1, <1>6, <1>7, <1>8 DEF Higher, Lower
<1> QED
  BY <1>9 DEF l, n

(* Money that reaches an invoice has passed all that come before it. *)
LEMMA Reached ==
  ASSUME NEW d \in Books, NEW p \in Receipt, NEW b \in Bill, Flow(d, p, b) > 0
  PROVE  Filled(d, b) < AllFree(d)
<1> DEFINE f == Free(d, p)
           g == Given(d, p)
           l == Filled(d, b)
           n == Needs(d, b)
<1>1. f \in Nat /\ g \in Nat /\ l \in Nat /\ n \in Nat
  BY FreeIsNat, GivenIs, FilledIs, NeedsIsNat
<1>2. Overlap(g, g + f, l, n) > 0
  BY FlowIs
<1>3. AllFree(d) \in Nat /\ g + f <= AllFree(d)
  BY GivenInOrder
<1> HIDE DEF f, g, l, n
<1>4. l < g + f
  BY <1>1, <1>2 DEF Overlap, Higher, Lower
<1> QED
  BY <1>1, <1>3, <1>4 DEF l

(* Money reaches no void invoice. *)
LEMMA AffectedOpen ==
  ASSUME NEW d \in Books, NEW b \in Affected(d)
  PROVE  b \in Bill /\ d.bill[b].status # "VOID"
<1>1. PICK p \in Receipt : b \in Bill /\ Flow(d, p, b) > 0
  BY DEF Affected
<1>2. Needs(d, b) > 0
  BY <1>1, FlowNeeds
<1> QED
  BY <1>1, <1>2 DEF Needs, Billable

(* T are the invoices whose status is worked out last: a void one among    *)
(* them stays void.                                                        *)
LEMMA AutoAllocatePours ==
  ASSUME NEW c \in Books, NEW d \in Books, RowsOK(d), NEW T \in SUBSET Bill, NEW op,
         \A b \in T : d.bill[b].status = "VOID" => StatusOK(d, b),
         op # "CreatePayment" =>
           \A p \in Receipt, b \in Bill : d.share[p][b].amount <= c.share[p][b].amount
  PROVE  Poured(op, c, Judge(AutoAllocate(d), T))
<1>1. PICK f : f = AutoAllocate(d)
  OBVIOUS
<1>2. PICK e : e = Judge(f, T)
  OBVIOUS
<1>3. /\ f \in Books /\ f.bill = d.bill /\ f.receipt = d.receipt /\ f.note = d.note
      /\ \A p \in Receipt, b \in Bill : ~(Flow(d, p, b) > 0) => f.share[p][b] = d.share[p][b]
  BY <1>1, AutoAllocateIs
<1>4. /\ e \in Books /\ e.receipt = d.receipt /\ e.note = d.note /\ e.share = f.share
      /\ \A b \in Bill : /\ e.bill[b].state = d.bill[b].state /\ e.bill[b].kind = d.bill[b].kind
                         /\ e.bill[b].total = d.bill[b].total
  BY <1>2, <1>3, JudgeIs
<1>5. e.share = AutoAllocate(d).share
  BY <1>1, <1>4
<1>6. ASSUME NEW b \in Open(e)
      PROVE  b \in Bill /\ AllFree(d) < Filled(d, b) + Needs(d, b)
  <2>1. b \in Bill /\ Needs(e, b) > 0
    BY <1>6 DEF Open
  <2>2. IsActive(e, b) /\ e.bill[b].status # "VOID"
    BY <2>1 DEF Needs, Billable
  <2>3. ASSUME d.bill[b].status = "VOID"
        PROVE  FALSE
    <3>1. f.bill[b].status = "VOID" /\ IsActive(f, b) /\ b \notin Affected(d)
      BY <1>3, <1>4, <2>1, <2>2, <2>3, AffectedOpen DEF IsActive
    <3>2. b \in T /\ e.bill[b].status = Verdict(f, b)
      BY <1>2, <1>3, <2>1, <2>2, <3>1, JudgeIs
    <3>3. StatusOK(f, b)
      BY <1>1, <2>1, <2>3, <3>1, <3>2, AutoAllocateKeeps, AlikeClaims
    <3> QED
      BY <2>2, <3>1, <3>2, <3>3 DEF StatusOK
  <2> QED
    BY <1>4, <1>5, <2>1, <2>3, StillOpen
<1>7. ASSUME NEW p \in Receipt, Free(e, p) > 0
      PROVE  Open(e) = {}
  <2> SUFFICES ASSUME NEW b \in Open(e) PROVE FALSE
    OBVIOUS
  <2>1. PICK x \in Nat, y \in Nat, z \in Nat :
          x = AllFree(d) /\ y = AllNeeded(d) /\ z = Filled(d, b) + Needs(d, b)
    <3>1. b \in Bill
      BY <1>6
    <3>2. Filled(d, b) \in Nat /\ Needs(d, b) \in Nat
      BY <3>1, FilledIs, NeedsIsNat
    <3> QED
      BY <3>2, AllIsNat
  <2>2. x < z
    BY <1>6, <2>1
  <2>3. z <= y
    BY <1>6, <2>1, FilledInOrder
  <2>4. y < x
    BY <1>4, <1>5, <1>7, <2>1, LeftOver
  <2> QED
    BY <2>2, <2>3, <2>4
<1>8. ASSUME op # "CreatePayment", NEW p \in Receipt, NEW b \in Bill, NEW a \in Open(e),
             e.share[p][b].amount > c.share[p][b].amount
      PROVE  b <= a
  <2>1. a \in Bill /\ a \in Nat /\ b \in Nat
    BY <1>6, Sizes
  <2>2. Flow(d, p, b) > 0
    <3> SUFFICES ASSUME ~ (Flow(d, p, b) > 0) PROVE FALSE
      OBVIOUS
    <3>1. e.share[p][b] = d.share[p][b]
      BY <1>3, <1>4
    <3>2. d.share[p][b].amount <= c.share[p][b].amount
      BY <1>8
    <3>3. d.share[p][b].amount \in Int /\ c.share[p][b].amount \in Int
      BY BookRows
    <3> QED
      BY <1>8, <3>1, <3>2, <3>3
  <2>3. PICK x \in Nat, y \in Nat, z \in Nat :
          x = AllFree(d) /\ y = Filled(d, b) /\ z = Filled(d, a) + Needs(d, a)
    <3>1. Filled(d, b) \in Nat /\ Filled(d, a) \in Nat /\ Needs(d, a) \in Nat
      BY <2>1, FilledIs, NeedsIsNat
    <3> QED
      BY <3>1, AllIsNat
  <2>4. y < x
    BY <2>2, <2>3, Reached
  <2>5. x < z
    BY <1>6, <2>3
  <2>6. a < b => z <= y
    BY <2>1, <2>3, FilledInOrder
  <2> QED
    BY <2>1, <2>4, <2>5, <2>6
<1>9. Poured(op, c, e)
  BY <1>7, <1>8 DEF Poured
<1> QED
  BY <1>1, <1>2, <1>9

------------------------------------------------------------------------------
(* The steps that begin a request. *)

(* A request for `own` that read the books c may want the books d.         *)
Leads(op, own, c, d, T) ==
  /\ d \in Books /\ RowsOK(d) /\ T \subseteq Bill
  /\ Fulfils(op, own, c, d, T)
  /\ \A b \in Bill : d.note[b] # c.note[b] => ~IsActive(d, b)

(* Allocating last does not lead astray. *)
LEMMA AutoAllocateLeads ==
  ASSUME NEW c \in Books, NEW d, NEW op, NEW own, NEW T, Leads(op, own, c, d, T),
         \A p \in Receipt, b \in Bill : Flow(d, p, b) > 0 =>
           /\ d.share[p][b].amount >= c.share[p][b].amount
           /\ d.share[p][b].held = "inactive" => c.share[p][b].held = "inactive",
         NEW U \in SUBSET Bill, T \cup Affected(d) \subseteq U
  PROVE  Leads(op, own, c, AutoAllocate(d), U)
<1>1. PICK e : e = AutoAllocate(d)
  OBVIOUS
<1>0. d \in Books /\ RowsOK(d) /\ Fulfils(op, own, c, d, T)
  BY DEF Leads
<1>2. /\ e \in Books
      /\ e.bill = d.bill /\ e.receipt = d.receipt /\ e.note = d.note /\ e.order = d.order
      /\ \A p \in Receipt, b \in Bill :
           e.share[p][b] =
             IF Flow(d, p, b) > 0
             THEN [held |-> "active", amount |-> d.share[p][b].amount + Flow(d, p, b)]
             ELSE d.share[p][b]
  BY <1>0, <1>1, AutoAllocateIs
<1>3. /\ RowsOK(e)
      /\ \A b \in Bill \ Affected(d) : Alike(d, e, b)
      /\ \A b \in Bill : IdleOK(d, b) => IdleOK(e, b)
  BY <1>0, <1>1, AutoAllocateKeeps
<1>4. ASSUME NEW p \in Receipt, NEW b \in Bill
      PROVE  /\ SharePlan(c.share[p][b], e.share[p][b], b = own, Ends(own, e, p, b))
             /\ Reapplies(c, d, p, b) => Reapplies(c, e, p, b)
             /\ Flow(d, p, b) > 0 /\ d.share[p][b].held = "inactive" => Reapplies(c, e, p, b)
  <2>1. PICK n \in Nat : n = Flow(d, p, b)
    BY <1>0, FlowIs
  <2>2. PICK x \in Int, y \in Int : x = d.share[p][b].amount /\ y = c.share[p][b].amount
    BY <1>0, BookRows
  <2>3. e.share[p][b] = IF n > 0 THEN [held |-> "active", amount |-> x + n] ELSE d.share[p][b]
    BY <1>2, <2>1, <2>2
  <2>4. SharePlan(c.share[p][b], d.share[p][b], b = own, Ends(own, d, p, b))
    BY <1>0 DEF Fulfils
  <2>5. Ends(own, e, p, b) = Ends(own, d, p, b)
    BY <1>2 DEF Ends
  <2>6. CASE n > 0
    <3>1. x >= y /\ (d.share[p][b].held = "inactive" => c.share[p][b].held = "inactive")
      BY <2>1, <2>2, <2>6
    <3>2. e.share[p][b].held = "active" /\ e.share[p][b].amount = x + n
      BY <2>3, <2>6
    <3>3. e.share[p][b].amount > y
      BY <2>6, <3>1, <3>2
    <3>4. SharePlan(c.share[p][b], e.share[p][b], b = own, Ends(own, e, p, b))
      BY <2>2, <3>2, <3>3 DEF SharePlan
    <3>5. c.share[p][b].held = "inactive" => Reapplies(c, e, p, b)
      BY <2>2, <3>3 DEF Reapplies
    <3> QED
      BY <3>1, <3>4, <3>5 DEF Reapplies
  <2>7. CASE ~(n > 0)
    <3>1. e.share[p][b] = d.share[p][b]
      BY <2>3, <2>7
    <3> QED
      BY <2>1, <2>4, <2>5, <2>7, <3>1 DEF Reapplies
  <2> QED
    BY <2>6, <2>7
<1>5. ASSUME NEW p \in Receipt, SpendOK(c, p), \A b \in Bill : ~Reapplies(c, e, p, b)
      PROVE  SpendOK(e, p)
  <2>1. \A b \in Bill : /\ ~Reapplies(c, d, p, b)
                        /\ Flow(d, p, b) > 0 => d.share[p][b].held # "inactive"
    BY <1>4, <1>5
  <2>2. SpendOK(d, p)
    BY <1>0, <1>5, <2>1 DEF Fulfils
  <2> QED
    BY <1>0, <1>1, <2>1, <2>2, SpendFlows
<1>6. ASSUME NEW b \in Bill \ U, StatusOK(c, b), ~ (op = "UpdateInvoice" /\ b = own)
      PROVE  StatusOK(e, b)
  <2>1. b \notin T /\ b \notin Affected(d)
    OBVIOUS
  <2>2. StatusOK(d, b)
    BY <1>0, <1>6, <2>1 DEF Fulfils
  <2> QED
    BY <1>3, <2>1, <2>2, AlikeClaims
<1>7. \A b \in Bill : IdleOK(c, b) => IdleOK(e, b)
  BY <1>0, <1>3 DEF Fulfils
<1>8. \A b \in Bill : /\ BillPlan(c.bill[b], e.bill[b], b = own)
                      /\ e.note[b] # c.note[b] => e.bill[b] # c.bill[b]
                      /\ e.order[b] # c.order[b] => e.order[b] # "none"
  BY <1>0, <1>2 DEF Fulfils
<1>9. \A p \in Receipt : ReceiptPlan(c.receipt[p], e.receipt[p])
  BY <1>0, <1>2 DEF Fulfils
<1>10. Fulfils(op, own, c, e, U)
  BY <1>4, <1>5, <1>6, <1>7, <1>8, <1>9 DEF Fulfils
<1>11. \A b \in Bill : e.note[b] # c.note[b] => ~IsActive(e, b)
  BY <1>2 DEF Leads, IsActive
<1> QED
  BY <1>1, <1>2, <1>3, <1>10, <1>11 DEF Leads

(* The statuses are worked out once the rows are written. *)
LEMMA JudgeLeads ==
  ASSUME NEW c \in Books, NEW d, NEW op, NEW own, NEW T, Leads(op, own, c, d, T)
  PROVE  LET e == Judge(d, T)
         IN  /\ e \in Books /\ RowsOK(e) /\ Fulfils(op, own, c, e, T)
             /\ \A b \in T : StatusOK(e, b)
             /\ e.receipt = d.receipt
<1>1. PICK e : e = Judge(d, T)
  OBVIOUS
<1>0. d \in Books /\ RowsOK(d) /\ Fulfils(op, own, c, d, T) /\ T \in SUBSET Bill
  BY DEF Leads
<1>2. /\ e \in Books
      /\ e.receipt = d.receipt /\ e.share = d.share /\ e.note = d.note /\ e.order = d.order
      /\ \A b \in Bill :
           /\ e.bill[b].state = d.bill[b].state /\ e.bill[b].kind = d.bill[b].kind
           /\ e.bill[b].total = d.bill[b].total
           /\ b \notin T \/ ~IsActive(d, b) => e.bill[b] = d.bill[b]
  BY <1>0, <1>1, JudgeIs
<1>3. /\ RowsOK(e)
      /\ \A p \in Receipt : SpendOK(d, p) => SpendOK(e, p)
      /\ \A b \in Bill : IdleOK(d, b) => IdleOK(e, b)
      /\ \A b \in Bill : StatusOK(d, b) \/ b \in T => StatusOK(e, b)
  BY <1>0, <1>1, JudgeKeeps
<1>4. \A p \in Receipt, b \in Bill :
        SharePlan(c.share[p][b], e.share[p][b], b = own, Ends(own, e, p, b))
  <2> SUFFICES ASSUME NEW p \in Receipt, NEW b \in Bill
               PROVE  SharePlan(c.share[p][b], e.share[p][b], b = own, Ends(own, e, p, b))
    OBVIOUS
  <2>1. Ends(own, e, p, b) = Ends(own, d, p, b)
    BY <1>2 DEF Ends
  <2> QED
    BY <1>0, <1>2, <2>1 DEF Fulfils
<1>5. ASSUME NEW b \in Bill
      PROVE  /\ BillPlan(c.bill[b], e.bill[b], b = own)
             /\ e.note[b] # c.note[b] => e.bill[b] # c.bill[b]
             /\ e.order[b] # c.order[b] => e.order[b] # "none"
  <2>1. /\ BillPlan(c.bill[b], d.bill[b], b = own)
        /\ d.note[b] # c.note[b] => d.bill[b] # c.bill[b]
        /\ d.order[b] # c.order[b] => d.order[b] # "none"
        /\ d.note[b] # c.note[b] => ~IsActive(d, b)
    BY <1>0 DEF Fulfils, Leads
  <2>2. CASE e.bill[b] = d.bill[b]
    BY <1>2, <2>1, <2>2
  <2>3. CASE IsActive(d, b)
    <3>1. /\ d.bill[b].state = "active" /\ e.bill[b].state = "active"
          /\ e.bill[b].kind = d.bill[b].kind /\ e.bill[b].total = d.bill[b].total
      BY <1>2, <2>3 DEF IsActive
    <3>2. BillPlan(c.bill[b], e.bill[b], b = own)
      BY <2>1, <3>1 DEF BillPlan
    <3> QED
      BY <1>2, <2>1, <2>3, <3>2
  <2> QED
    BY <1>2, <2>2, <2>3
<1>6. /\ \A p \in Receipt : ReceiptPlan(c.receipt[p], e.receipt[p])
      /\ \A b \in Bill : IdleOK(c, b) => IdleOK(e, b)
      /\ \A b \in Bill \ T : StatusOK(c, b) /\ ~ (op = "UpdateInvoice" /\ b = own) => StatusOK(e, b)
  BY <1>0, <1>2, <1>3 DEF Fulfils
<1>7. ASSUME NEW p \in Receipt, SpendOK(c, p), \A b \in Bill : ~Reapplies(c, e, p, b)
      PROVE  SpendOK(e, p)
  <2>1. \A b \in Bill : ~Reapplies(c, d, p, b)
    BY <1>2, <1>7 DEF Reapplies
  <2> QED
    BY <1>0, <1>3, <1>7, <2>1 DEF Fulfils
<1>8. Fulfils(op, own, c, e, T)
  BY <1>4, <1>5, <1>6, <1>7 DEF Fulfils
<1> QED
  BY <1>0, <1>1, <1>2, <1>3, <1>8

LEMMA SubmitStep ==
  ASSUME IInv, NEW r \in Request, NEW op \in Ops, NEW own \in Bill \cup {NoBill},
         op = "UpdateInvoice" => own \in Bill,
         NEW d, NEW T, op \in Spreads => Poured(op, books, Judge(d, T)), Leads(op, own, books, d, T),
         \A p \in Receipt : books.receipt[p].state = "none" /\ d.receipt[p] # books.receipt[p] =>
           \A s \in Request : job[s].after.receipt[p].state = "none",
         Submit(r, op, own, d, T)
  PROVE  IInv'
<1>1. books \in Books /\ RowsOK(books) /\ job \in [Request -> JobType] /\ Jobs
  BY DEF IInv, TypeInv, TypeOK, Sound
<1>2. PICK e : e = Judge(d, T)
  OBVIOUS
<1>3. /\ e \in Books /\ RowsOK(e) /\ Fulfils(op, own, books, e, T)
      /\ \A b \in T : StatusOK(e, b)
      /\ e.receipt = d.receipt
  BY <1>1, <1>2, JudgeLeads
<1>4. T \in SUBSET Bill
  BY DEF Leads
<1>5. PICK j : j = [op |-> op, own |-> own, before |-> books, after |-> e, judged |-> T]
  OBVIOUS
<1>6. /\ j.op = op /\ j.own = own /\ j.before = books /\ j.after = e /\ j.judged = T
      /\ j \in JobType
  BY <1>1, <1>3, <1>4, <1>5 DEF JobType
<1>7. /\ books' = books /\ shaky' = shaky /\ crossed' = crossed /\ drift' = drift
      /\ job' = [job EXCEPT ![r] = j]
      /\ own # NoBill => \A s \in Request : job[s].own # own
  BY <1>2, <1>5 DEF Submit
<1>8. job'[r] = j /\ \A s \in Request \ {r} : job'[s] = job[s]
  BY <1>1, <1>7
<1>9. job' \in [Request -> JobType]
  BY <1>1, <1>6, <1>7
<1>10. TypeInv'
  <2>1. \A s \in Request : job'[s].before \in Books /\ job'[s].after \in Books
    BY <1>9 DEF JobType
  <2> QED
    BY <1>7, <1>9, <2>1 DEF IInv, TypeInv, TypeOK
<1>11. Sound'
  BY <1>7 DEF IInv, Sound, Claims
<1>12. Plan(j)
  BY <1>1, <1>2, <1>3, <1>6 DEF Plan
<1>13. InTouch(books, j)
  BY <1>1, <1>6, BookRows DEF InTouch
<1>14. \A s \in Request : Plan(job'[s]) /\ InTouch(books', job'[s])
  BY <1>1, <1>7, <1>8, <1>12, <1>13 DEF Jobs
<1>15. ASSUME NEW s \in Request
       PROVE  Apart(j, job[s]) /\ Apart(job[s], j)
  <2>1. job[s].own = own => own = NoBill
    BY <1>7
  <2>2. ASSUME NEW p \in Receipt, Creates(j, p), Creates(job[s], p)
        PROVE  FALSE
    <3>1. job[s].after.receipt[p].state = "none"
      BY <1>3, <1>6, <2>2 DEF Creates
    <3>2. ReceiptPlan(job[s].before.receipt[p], job[s].after.receipt[p])
      BY <1>1 DEF Jobs, Plan, Fulfils
    <3> QED
      BY <2>2, <3>1, <3>2 DEF Creates, ReceiptPlan
  <2> QED
    BY <1>6, <2>1, <2>2 DEF Apart
<1>16. ASSUME NEW s \in Request, NEW u \in Request, s # u
       PROVE  Apart(job'[s], job'[u])
  <2>1. CASE s = r
    BY <1>8, <1>15, <1>16, <2>1
  <2>2. CASE u = r
    BY <1>8, <1>15, <1>16, <2>2
  <2>3. CASE s # r /\ u # r
    BY <1>1, <1>8, <1>16, <2>3 DEF Jobs
  <2> QED
    BY <2>1, <2>2, <2>3
<1>17. Jobs'
  BY <1>14, <1>16 DEF Jobs
<1> QED
  BY <1>10, <1>11, <1>17 DEF IInv

(* The row of one invoice is written. *)
RowWritten(c, d, b) ==
  /\ OnlyBill(c, d, b) /\ d.note[b] = c.note[b]
  /\ c.bill[b].state # "gone" /\ d.bill[b].state \in {"active", "inactive"}
  /\ c.bill[b].state # "none" => d.bill[b].kind = c.bill[b].kind
  /\ d.order[b] = c.order[b] \/ d.order[b] # "none"
  /\ b \in OrderBill => d.order[b] # "none"

LEMMA RowWrittenLeads ==
  ASSUME NEW c \in Books, RowsOK(c), NEW d \in Books, NEW b \in Bill, RowWritten(c, d, b),
         NEW op, NEW T \in SUBSET Bill, op = "UpdateInvoice" \/ b \in T \/ StatusOK(d, b),
         IdleOK(c, b) => IdleOK(d, b)
  PROVE  Leads(op, b, c, d, T)
<1>1. /\ OnlyBill(c, d, b) /\ d.receipt = c.receipt /\ d.share = c.share
      /\ \A a \in Bill \ {b} : d.bill[a] = c.bill[a] /\ d.note[a] = c.note[a] /\ d.order[a] = c.order[a]
      /\ \A a \in Bill : d.note[a] = c.note[a]
  BY DEF RowWritten, OnlyBill
<1>2. RowsOK(d)
  <2>1. ASSUME NEW p \in Receipt, NEW a \in Bill
        PROVE  RowOK(d.share[p][a], d.receipt[p], d.bill[a])
    <3>1. RowOK(c.share[p][a], c.receipt[p], c.bill[a])
      BY DEF RowsOK
    <3>2. CASE a = b
      BY <1>1, <3>1, <3>2 DEF RowOK, RowWritten
    <3>3. CASE a # b
      BY <1>1, <3>1, <3>3
    <3> QED
      BY <3>2, <3>3
  <2>2. \A a \in Bill : d.bill[a].state = "gone" => d.note[a] = 0
    BY <1>1 DEF RowsOK, RowWritten
  <2>3. \A a \in OrderBill : d.order[a] = "none" => d.bill[a].state = "none"
    BY <1>1, Sizes DEF RowsOK, RowWritten
  <2> QED
    BY <2>1, <2>2, <2>3 DEF RowsOK
<1>3. \A p \in Receipt, a \in Bill :
        SharePlan(c.share[p][a], d.share[p][a], a = b, Ends(b, d, p, a))
  BY <1>1 DEF SharePlan
<1>4. ASSUME NEW a \in Bill
      PROVE  /\ BillPlan(c.bill[a], d.bill[a], a = b)
             /\ d.note[a] # c.note[a] => d.bill[a] # c.bill[a]
             /\ d.order[a] # c.order[a] => d.order[a] # "none"
  <2>1. CASE a = b
    BY <1>1, <2>1 DEF BillPlan, RowWritten
  <2>2. CASE a # b
    BY <1>1, <2>2 DEF BillPlan
  <2> QED
    BY <2>1, <2>2
<1>5. \A p \in Receipt : ReceiptPlan(c.receipt[p], d.receipt[p])
  BY <1>1 DEF ReceiptPlan
<1>6. /\ \A p \in Receipt : SpendOK(c, p) => SpendOK(d, p)
      /\ \A a \in Bill \ {b} : StatusOK(c, a) => StatusOK(d, a)
      /\ \A a \in Bill \ {b} : IdleOK(c, a) => IdleOK(d, a)
  BY <1>1, OneBill
<1>7. Fulfils(op, b, c, d, T)
  BY <1>3, <1>4, <1>5, <1>6 DEF Fulfils
<1> QED
  BY <1>1, <1>2, <1>7 DEF Leads

(* Nothing is allocated yet to an invoice that is not there. *)
LEMMA NoRows ==
  ASSUME NEW c \in Books, RowsOK(c), NEW b \in Bill, c.bill[b].state \in {"none", "gone"},
         NEW d \in Books, d.share = c.share
  PROVE  \A p \in Receipt : d.share[p][b] = NoShare /\ Counted(d, p, b) = 0
<1>1. \A p \in Receipt : RowOK(c.share[p][b], c.receipt[p], c.bill[b])
  BY DEF RowsOK
<1> QED
  BY <1>1 DEF RowOK, NoShare, Counted

LEMMA CreateInvoiceStep ==
  ASSUME IInv, NEW r \in Request, NEW b \in Bill, NEW kind \in {"TAX_INVOICE", "PROFORMA"},
         NEW total \in Amounts, CreateInvoice(r, b, kind, total)
  PROVE  IInv'
<1>1. PICK row : row = [state |-> "active", kind |-> kind, total |-> total,
                        status |-> IF kind = "PROFORMA" THEN "DRAFT" ELSE "PENDING"]
  OBVIOUS
<1>2. PICK d : d = WithBill(books, b, row)
  OBVIOUS
<1>3. books \in Books /\ RowsOK(books)
  BY DEF IInv, TypeInv, TypeOK, Sound
<1>4. /\ b \notin OrderBill /\ books.bill[b].state = "none"
      /\ Submit(r, "CreateInvoice", b, AutoAllocate(d), Affected(d))
  BY <1>1, <1>2, Zenon DEF CreateInvoice
<1>5. row \in BillRow /\ row.state = "active" /\ row.status \in {"DRAFT", "PENDING"}
  BY <1>1, AmountsAreNat DEF BillRow, InvoiceStatus
<1>6. /\ d \in Books /\ d.bill[b] = row
      /\ \A c \in Bill \ {b} : d.bill[c] = books.bill[c]
      /\ d.receipt = books.receipt /\ d.share = books.share
      /\ d.note = books.note /\ d.order = books.order
  BY <1>2, <1>3, <1>5, WithBillIs
<1>7. RowWritten(books, d, b)
  BY <1>4, <1>5, <1>6 DEF RowWritten, OnlyBill
<1>8. \A p \in Receipt : Counted(d, p, b) = 0
  BY <1>3, <1>4, <1>6, NoRows
<1>9. StatusOK(d, b) /\ IdleOK(d, b)
  BY <1>5, <1>6, <1>8, UnpaidStatus DEF IdleOK
<1>10. Leads("CreateInvoice", b, books, d, {})
  BY <1>3, <1>6, <1>7, <1>9, RowWrittenLeads
<1>11. Affected(d) \in SUBSET Bill
  BY DEF Affected
<1>12. \A p \in Receipt, a \in Bill : d.share[p][a].amount >= books.share[p][a].amount
  BY <1>3, <1>6, BookRows
<1>13. PICK e : e = AutoAllocate(d)
  OBVIOUS
<1>14. Leads("CreateInvoice", b, books, e, Affected(d))
  BY <1>3, <1>6, <1>10, <1>11, <1>12, <1>13, AutoAllocateLeads
<1>15. e.receipt = books.receipt
  BY <1>6, <1>13, AutoAllocateIs
<1>16. Submit(r, "CreateInvoice", b, e, Affected(d))
  BY <1>4, <1>13
<1>17. "CreateInvoice" \in Ops
  BY DEF Ops
<1>18. Poured("CreateInvoice", books, Judge(e, Affected(d)))
  <2>1. \A a \in Affected(d) : d.bill[a].status # "VOID"
    BY <1>6, AffectedOpen
  <2>2. \A p \in Receipt, a \in Bill : d.share[p][a].amount <= books.share[p][a].amount
    BY <1>3, <1>6, BookRows
  <2> QED
    BY <1>3, <1>6, <1>10, <1>11, <1>13, <2>1, <2>2, AutoAllocatePours DEF Leads
<1> QED
  BY <1>14, <1>15, <1>16, <1>17, <1>18, SubmitStep

LEMMA UpdateInvoiceStep ==
  ASSUME IInv, NEW r \in Request, NEW b \in Bill, NEW total \in Amounts, UpdateInvoice(r, b, total)
  PROVE  IInv'
<1>1. PICK row : row = [books.bill[b] EXCEPT !.total = total]
  OBVIOUS
<1>2. PICK d : d = WithBill(books, b, row)
  OBVIOUS
<1>3. books \in Books /\ RowsOK(books)
  BY DEF IInv, TypeInv, TypeOK, Sound
<1>4. /\ IsActive(books, b)
      /\ Submit(r, "UpdateInvoice", b, AutoAllocate(d), Affected(d))
  BY <1>1, <1>2, Zenon DEF UpdateInvoice
<1>5. row \in BillRow /\ row.state = "active" /\ row.kind = books.bill[b].kind
  BY <1>1, <1>3, <1>4, AmountsAreNat, BookRows DEF BillRow, IsActive
<1>6. /\ d \in Books /\ d.bill[b] = row
      /\ \A c \in Bill \ {b} : d.bill[c] = books.bill[c]
      /\ d.receipt = books.receipt /\ d.share = books.share
      /\ d.note = books.note /\ d.order = books.order
  BY <1>2, <1>3, <1>5, WithBillIs
<1>7. RowWritten(books, d, b)
  BY <1>3, <1>4, <1>5, <1>6 DEF RowWritten, OnlyBill, IsActive, RowsOK
<1>8. IdleOK(d, b)
  BY <1>5, <1>6 DEF IdleOK, IsActive
<1>9. Leads("UpdateInvoice", b, books, d, {})
  BY <1>3, <1>6, <1>7, <1>8, RowWrittenLeads
<1>10. Affected(d) \in SUBSET Bill
  BY DEF Affected
<1>11. \A p \in Receipt, a \in Bill : d.share[p][a].amount >= books.share[p][a].amount
  BY <1>3, <1>6, BookRows
<1>12. PICK e : e = AutoAllocate(d)
  OBVIOUS
<1>13. Leads("UpdateInvoice", b, books, e, Affected(d))
  BY <1>3, <1>6, <1>9, <1>10, <1>11, <1>12, AutoAllocateLeads
<1>14. e.receipt = books.receipt
  BY <1>6, <1>12, AutoAllocateIs
<1>15. Submit(r, "UpdateInvoice", b, e, Affected(d))
  BY <1>4, <1>12
<1>16. "UpdateInvoice" \in Ops
  BY DEF Ops
<1>17. Poured("UpdateInvoice", books, Judge(e, Affected(d)))
  <2>1. \A a \in Affected(d) : d.bill[a].status # "VOID"
    BY <1>6, AffectedOpen
  <2>2. \A p \in Receipt, a \in Bill : d.share[p][a].amount <= books.share[p][a].amount
    BY <1>3, <1>6, BookRows
  <2> QED
    BY <1>3, <1>6, <1>9, <1>10, <1>12, <2>1, <2>2, AutoAllocatePours DEF Leads
<1> QED
  BY <1>13, <1>14, <1>15, <1>16, <1>17, SubmitStep

LEMMA DeleteInvoiceStep ==
  ASSUME IInv, NEW r \in Request, NEW b \in Bill, DeleteInvoice(r, b)
  PROVE  IInv'
<1>1. PICK row : row = Removed(books.bill[b])
  OBVIOUS
<1>2. PICK d : d = WithBill(books, b, row)
  OBVIOUS
<1>3. books \in Books /\ RowsOK(books)
  BY DEF IInv, TypeInv, TypeOK, Sound
<1>4. /\ IsActive(books, b) /\ \A p \in Receipt : Counted(books, p, b) = 0
      /\ Submit(r, "DeleteInvoice", b, d, {})
  BY <1>1, <1>2, Zenon DEF DeleteInvoice
<1>5. row \in BillRow /\ row.state = "inactive" /\ row.kind = books.bill[b].kind
  BY <1>1, <1>3, BookRows DEF Removed, BillRow, InvoiceStatus
<1>6. /\ d \in Books /\ d.bill[b] = row
      /\ \A c \in Bill \ {b} : d.bill[c] = books.bill[c]
      /\ d.receipt = books.receipt /\ d.share = books.share
      /\ d.note = books.note /\ d.order = books.order
  BY <1>2, <1>3, <1>5, WithBillIs
<1>7. RowWritten(books, d, b)
  BY <1>3, <1>4, <1>5, <1>6 DEF RowWritten, OnlyBill, IsActive, RowsOK
<1>8. \A p \in Receipt : Counted(d, p, b) = 0
  BY <1>4, <1>6 DEF Counted
<1>9. IdleOK(d, b) /\ StatusOK(d, b)
  BY <1>5, <1>6, <1>8 DEF IdleOK, StatusOK, IsActive
<1>10. Leads("DeleteInvoice", b, books, d, {})
  BY <1>3, <1>6, <1>7, <1>9, RowWrittenLeads
<1>11. "DeleteInvoice" \in Ops
  BY DEF Ops
<1> QED
  BY <1>4, <1>6, <1>10, <1>11, SubmitStep DEF Spreads

------------------------------------------------------------------------------
(* What reconcileInvoiceFinancialsTx releases. *)

LEMMA SameBounds == (\A m, n : Least(m, n) = Lower(m, n)) /\ (\A n : Positive(n) = Floored(n))
BY DEF Least, Positive, Lower, Floored

BackFor(d, b) == SumFunctionOnSet([p \in Receipt |-> Back(d, p, b)], Receipt)

LEMMA BackIs ==
  ASSUME NEW d \in Books, RowsOK(d), NEW b \in Bill
  PROVE  /\ \A p \in Receipt : Back(d, p, b) \in Nat /\ Back(d, p, b) <= Counted(d, p, b)
         /\ BackFor(d, b) = Least(Paid(d, b), Positive(Paid(d, b) - Due(d, b)))
         /\ \A p \in Receipt : Back(d, p, b) > 0 => Paid(d, b) - Due(d, b) > 0
<1> DEFINE f == [p \in Receipt |-> Counted(d, p, b)]
           g == [p \in Receipt |-> Back(d, p, b)]
           less == Larger(Receipt)
           left == Paid(d, b) - Due(d, b)
<1>1. left \in Int
  BY PaidIsInt
<1>2. \A p \in Receipt : f[p] \in Nat /\ f[p] = Counted(d, p, b)
  BY CountedIsNat
<1>3. IsOrder(less, Receipt) /\ \A p \in Receipt : Before(less, Receipt, p) = {q \in Receipt : q > p}
  BY Sizes, LargerOrders
<1>4. ASSUME NEW p \in Receipt
      PROVE  /\ g[p] = Least(f[p], Positive(left - SumFunctionOnSet(f, Before(less, Receipt, p))))
             /\ SumFunctionOnSet(f, Before(less, Receipt, p)) \in Nat
  <2> DEFINE N == {q \in Receipt : q > p}
  <2>1. [q \in N |-> Counted(d, q, b)] = [q \in N |-> f[q]]
    BY <1>2
  <2>2. Back(d, p, b) = Least(Counted(d, p, b), Positive(left - SumFunction([q \in N |-> f[q]])))
    BY <2>1 DEF Back
  <2>3. N \in SUBSET Receipt /\ Before(less, Receipt, p) = N
    BY <1>3
  <2>4. g[p] = Back(d, p, b)
    OBVIOUS
  <2> HIDE DEF f, g, left, less, N
  <2>5. SumFunction([q \in N |-> f[q]]) = SumFunctionOnSet(f, N) /\ SumFunctionOnSet(f, N) \in Nat
    BY <1>2, <2>3, Sizes, SumPart
  <2> QED
    BY <1>2, <2>2, <2>3, <2>4, <2>5
<1>5. Paid(d, b) = SumFunctionOnSet(f, Receipt) /\ BackFor(d, b) = SumFunctionOnSet(g, Receipt)
  BY PaidIs DEF BackFor
<1>6. \A p \in Receipt : g[p] = Back(d, p, b)
  OBVIOUS
<1> HIDE DEF f, g, less
<1>7. InTurn(g, f, Receipt, less, left)
  BY <1>2, <1>4, SameBounds DEF InTurn
<1>8. /\ \A p \in Receipt : g[p] \in Nat /\ g[p] <= f[p]
      /\ SumFunctionOnSet(g, Receipt) = Lower(SumFunctionOnSet(f, Receipt), Floored(left))
  <2> HIDE DEF left
  <2> QED
    BY <1>1, <1>3, <1>7, Sizes, NewestFirst
<1>9. ASSUME NEW p \in Receipt, g[p] > 0
      PROVE  left > 0
  <2>1. PICK n \in Nat : n = SumFunctionOnSet(f, Before(less, Receipt, p))
    BY <1>4
  <2>2. g[p] = Least(f[p], Positive(left - n)) /\ f[p] \in Nat
    BY <1>2, <1>4, <2>1
  <2> HIDE DEF left
  <2> QED
    BY <1>1, <1>9, <2>1, <2>2 DEF Least, Positive
<1> QED
  BY <1>2, <1>5, <1>6, <1>8, <1>9, SameBounds DEF left

(* One allocation row of a release *)
LEMMA LessByIs ==
  ASSUME NEW row \in Allocation, row.amount >= 0, row.held = "none" => row = NoShare,
         NEW n \in Nat, n > 0 => row.held = "active" /\ n <= row.amount
  PROVE  LET new == LessBy(row, n)
         IN  /\ new \in Allocation /\ new.amount >= 0
             /\ new.held = "none" => new = NoShare
             /\ n = 0 => new = row
             /\ HeldOf(new) = HeldOf(row) - n
             /\ n > 0 => \/ new.held = "inactive" /\ row.held = "active" /\ new.amount = row.amount
                         \/ new.held = "active" /\ row.held = "active" /\ new.amount < row.amount
<1> DEFINE new == LessBy(row, n)
<1>1. PICK x \in Int : x = row.amount
  BY DEF Allocation
<1>2. CASE n = 0
  <2>1. new = row
    BY <1>2 DEF LessBy
  <2> HIDE DEF new
  <2>2. HeldOf(new) = HeldOf(row) /\ HeldOf(row) \in Int
    BY <1>1, <2>1 DEF HeldOf
  <2> QED
    BY <1>2, <2>1, <2>2 DEF new
<1>3. CASE n # 0 /\ n = row.amount
  <2>1. new = [row EXCEPT !.held = "inactive"]
    BY <1>3 DEF LessBy
  <2>2. new \in Allocation /\ new.held = "inactive" /\ new.amount = row.amount
    BY <2>1 DEF Allocation
  <2>3. row.held = "active"
    BY <1>3
  <2> HIDE DEF new
  <2>4. HeldOf(new) = 0 /\ HeldOf(row) = n
    BY <1>3, <2>2, <2>3 DEF HeldOf
  <2> QED
    BY <1>3, <2>2, <2>3, <2>4 DEF new
<1>4. CASE n # 0 /\ n # row.amount
  <2>1. new = [row EXCEPT !.amount = x - n]
    BY <1>1, <1>4 DEF LessBy
  <2>2. row.held = "active" /\ x - n \in Int /\ x - n >= 0 /\ x - n < x
    BY <1>1, <1>4
  <2>3. new \in Allocation /\ new.held = "active" /\ new.amount = x - n
    BY <2>1, <2>2 DEF Allocation
  <2> HIDE DEF new
  <2>4. HeldOf(new) = x - n /\ HeldOf(row) = x
    BY <1>1, <2>2, <2>3 DEF HeldOf
  <2> QED
    BY <1>1, <1>4, <2>2, <2>3, <2>4 DEF new
<1> QED
  BY <1>2, <1>3, <1>4

LEMMA ReleaseIs ==
  ASSUME NEW d \in Books, RowsOK(d), NEW b \in Bill
  PROVE  LET f == Release(d, b)
         IN  /\ f \in Books
             /\ f.bill = d.bill /\ f.receipt = d.receipt /\ f.note = d.note /\ f.order = d.order
             /\ \A p \in Receipt :
                  /\ f.share[p][b] = LessBy(d.share[p][b], Back(d, p, b))
                  /\ \A a \in Bill \ {b} : f.share[p][a] = d.share[p][a]
<1> DEFINE share == [p \in Receipt |-> [d.share[p] EXCEPT ![b] = LessBy(d.share[p][b], Back(d, p, b))]]
<1>1. Release(d, b) = [d EXCEPT !.share = share]
  BY DEF Release
<1>2. ASSUME NEW p \in Receipt
      PROVE  /\ share[p] \in [Bill -> Allocation]
             /\ share[p][b] = LessBy(d.share[p][b], Back(d, p, b))
             /\ \A a \in Bill \ {b} : share[p][a] = d.share[p][a]
  <2>1. PICK n \in Nat : n = Back(d, p, b)
    BY BackIs
  <2>2. n <= Counted(d, p, b) /\ Counted(d, p, b) \in Nat
    BY <2>1, BackIs, CountedIsNat
  <2>3. n > 0 => d.share[p][b].held = "active" /\ n <= d.share[p][b].amount
    BY <2>1, <2>2 DEF Counted
  <2>4. /\ d.share[p][b] \in Allocation /\ d.share[p][b].amount >= 0
        /\ d.share[p][b].held = "none" => d.share[p][b] = NoShare
    BY BookRows DEF RowsOK, RowOK
  <2>5. PICK new : new = LessBy(d.share[p][b], n)
    OBVIOUS
  <2>6. new \in Allocation
    BY <2>3, <2>4, <2>5, LessByIs
  <2>7. d.share[p] \in [Bill -> Allocation]
    BY DEF Books
  <2>8. share[p] = [d.share[p] EXCEPT ![b] = new]
    BY <2>1, <2>5
  <2> HIDE DEF share
  <2>9. /\ share[p] \in [Bill -> Allocation] /\ share[p][b] = new
        /\ \A a \in Bill \ {b} : share[p][a] = d.share[p][a]
    BY <2>6, <2>7, <2>8
  <2> QED
    BY <2>1, <2>5, <2>9
<1>3. share \in [Receipt -> [Bill -> Allocation]]
  <2>1. DOMAIN share = Receipt /\ share = [p \in Receipt |-> share[p]]
    OBVIOUS
  <2> HIDE DEF share
  <2> QED
    BY <1>2, <2>1
<1> HIDE DEF share
<1>4. PICK f : f = [d EXCEPT !.share = share]
  OBVIOUS
<1>5. /\ f \in Books /\ f.share = share
      /\ f.bill = d.bill /\ f.receipt = d.receipt /\ f.note = d.note /\ f.order = d.order
  BY <1>3, <1>4 DEF Books
<1>6. Release(d, b) = f
  BY <1>1, <1>4, Zenon
<1> QED
  BY <1>2, <1>5, <1>6

(* Anything released leaves the invoice with exactly what is due. *)
LEMMA ReleasedIsPaid ==
  ASSUME NEW d \in Books, RowsOK(d), NEW b \in Bill, Due(d, b) >= 0,
         NEW f \in Books, f.bill = d.bill, f.note = d.note,
         \A p \in Receipt : Counted(d, p, b) = Counted(f, p, b) + Back(d, p, b),
         NEW q \in Receipt, Back(d, q, b) > 0
  PROVE  Needs(f, b) = 0
<1> DEFINE h == [p \in Receipt |-> Counted(d, p, b)]
           i == [p \in Receipt |-> Counted(f, p, b)]
           g == [p \in Receipt |-> Back(d, p, b)]
<1>1. AddUp(h, i, g, Receipt)
  BY CountedIsInt, BackIs DEF AddUp
<1>2. /\ Paid(d, b) = SumFunctionOnSet(h, Receipt) /\ Paid(f, b) = SumFunctionOnSet(i, Receipt)
      /\ BackFor(d, b) = SumFunctionOnSet(g, Receipt)
  BY PaidIs DEF BackFor
<1> HIDE DEF h, i, g
<1>3. SumFunctionOnSet(h, Receipt) = SumFunctionOnSet(i, Receipt) + SumFunctionOnSet(g, Receipt)
  BY <1>1, Sizes, SumAddUp
<1>4. Due(f, b) = Due(d, b)
  BY DEF Due
<1>5. PICK x \in Int, y \in Int, z \in Int : x = Paid(d, b) /\ y = Due(d, b) /\ z = Paid(f, b)
  BY PaidIsInt
<1>6. y >= 0 /\ x - y > 0 /\ BackFor(d, b) = Least(x, Positive(x - y))
  BY <1>5, BackIs
<1>7. BackFor(d, b) = x - y
  BY <1>5, <1>6 DEF Least, Positive
<1>8. x = z + (x - y)
  BY <1>2, <1>3, <1>5, <1>7
<1>9. Positive(Due(f, b) - Paid(f, b)) = 0
  BY <1>4, <1>5, <1>8 DEF Positive
<1> QED
  BY <1>9 DEF Needs

LEMMA ReleaseRow ==
  ASSUME NEW d \in Books, RowsOK(d), NEW b \in Bill, NEW p \in Receipt, NEW f, f = Release(d, b)
  PROVE  LET was == d.share[p][b]
             to == f.share[p][b]
         IN  /\ RowOK(to, f.receipt[p], f.bill[b])
             /\ Counted(d, p, b) = Counted(f, p, b) + Back(d, p, b)
             /\ Held(f, p, b) <= Held(d, p, b)
             /\ Back(d, p, b) = 0 => to = was
             /\ \/ to = was
                \/ to.held = "inactive" /\ was.held = "active" /\ to.amount = was.amount
                \/ to.held = "active" /\ was.held = "active" /\ to.amount < was.amount
<1>1. PICK row : row = d.share[p][b]
  OBVIOUS
<1>2. PICK n \in Nat : n = Back(d, p, b)
  BY BackIs
<1>3. PICK new : new = LessBy(row, n)
  OBVIOUS
<1>4. f.share[p][b] = new /\ f.receipt = d.receipt /\ f.bill = d.bill
  BY <1>1, <1>2, <1>3, ReleaseIs
<1>5. RowOK(row, d.receipt[p], d.bill[b]) /\ row \in Allocation
  BY <1>1, BookRows DEF RowsOK
<1>6. n <= Counted(d, p, b) /\ Counted(d, p, b) \in Nat
  BY <1>2, BackIs, CountedIsNat
<1>7. n > 0 => row.held = "active" /\ n <= row.amount /\ d.receipt[p].state = "RECORDED"
  BY <1>1, <1>6 DEF Counted
<1>8. /\ new \in Allocation /\ new.amount >= 0
      /\ new.held = "none" => new = NoShare
      /\ n = 0 => new = row
      /\ HeldOf(new) = HeldOf(row) - n
      /\ n > 0 => \/ new.held = "inactive" /\ row.held = "active" /\ new.amount = row.amount
                  \/ new.held = "active" /\ row.held = "active" /\ new.amount < row.amount
  BY <1>3, <1>5, <1>7, LessByIs DEF RowOK
<1>9. RowOK(new, d.receipt[p], d.bill[b])
  BY <1>5, <1>7, <1>8 DEF RowOK, NoShare
<1>10. Held(d, p, b) = HeldOf(row) /\ Held(f, p, b) = HeldOf(new)
  BY <1>1, <1>4 DEF Held, HeldOf
<1>11. HeldOf(row) \in Int /\ HeldOf(new) \in Int
  BY <1>5, <1>8 DEF HeldOf, Allocation
<1>12. Counted(d, p, b) = Counted(f, p, b) + n
  <2>1. CASE d.receipt[p].state = "RECORDED"
    <3>1. Counted(d, p, b) = HeldOf(row) /\ Counted(f, p, b) = HeldOf(new)
      BY <1>1, <1>4, <2>1 DEF Counted, HeldOf
    <3> QED
      BY <1>8, <1>11, <3>1
  <2>2. CASE d.receipt[p].state # "RECORDED"
    <3>1. Counted(d, p, b) = 0 /\ Counted(f, p, b) = 0 /\ n = 0
      BY <1>4, <1>7, <2>2 DEF Counted
    <3> QED
      BY <3>1
  <2> QED
    BY <2>1, <2>2
<1> QED
  BY <1>1, <1>2, <1>4, <1>8, <1>9, <1>10, <1>11, <1>12

LEMMA ReleaseLeads ==
  ASSUME NEW c \in Books, RowsOK(c), NEW d \in Books, NEW b \in Bill, RowWritten(c, d, b),
         Due(d, b) >= 0, IdleOK(c, b) => IdleOK(d, b), NEW op, NEW f, f = Release(d, b)
  PROVE  /\ Leads(op, b, c, f, {b})
         /\ f.receipt = c.receipt
         /\ \A p \in Receipt, a \in Bill : Flow(f, p, a) > 0 => f.share[p][a] = c.share[p][a]
<1>1. Leads(op, b, c, d, {b}) /\ RowsOK(d) /\ Fulfils(op, b, c, d, {b})
  <2>1. {b} \in SUBSET Bill /\ b \in {b}
    OBVIOUS
  <2> QED
    BY <2>1, RowWrittenLeads DEF Leads
<1>2. d.receipt = c.receipt /\ d.share = c.share
  BY DEF RowWritten, OnlyBill
<1>3. /\ f \in Books
      /\ f.bill = d.bill /\ f.receipt = d.receipt /\ f.note = d.note /\ f.order = d.order
      /\ \A p \in Receipt : \A a \in Bill \ {b} : f.share[p][a] = d.share[p][a]
  BY <1>1, ReleaseIs
<1>4. ASSUME NEW p \in Receipt
      PROVE  /\ RowOK(f.share[p][b], f.receipt[p], f.bill[b])
             /\ Counted(d, p, b) = Counted(f, p, b) + Back(d, p, b)
             /\ Held(f, p, b) <= Held(d, p, b)
             /\ Back(d, p, b) = 0 => f.share[p][b] = d.share[p][b]
             /\ SharePlan(d.share[p][b], f.share[p][b], TRUE, Ends(b, f, p, b))
  BY <1>1, ReleaseRow DEF SharePlan
<1>5. ASSUME NEW p \in Receipt, NEW a \in Bill, a # b
      PROVE  /\ f.share[p][a] = d.share[p][a]
             /\ Held(f, p, a) = Held(d, p, a) /\ Counted(f, p, a) = Counted(d, p, a)
  <2>1. f.share[p][a] = d.share[p][a]
    BY <1>3, <1>5
  <2> QED
    BY <1>3, <2>1 DEF Held, Counted
<1>6. RowsOK(f)
  <2>1. ASSUME NEW p \in Receipt, NEW a \in Bill
        PROVE  RowOK(f.share[p][a], f.receipt[p], f.bill[a])
    <3>1. CASE a = b
      BY <1>4, <3>1
    <3>2. CASE a # b
      BY <1>1, <1>3, <1>5, <3>2 DEF RowsOK
    <3> QED
      BY <3>1, <3>2
  <2> QED
    BY <1>1, <1>3, <2>1 DEF RowsOK
<1>7. ASSUME NEW p \in Receipt, NEW a \in Bill
      PROVE  SharePlan(c.share[p][a], f.share[p][a], a = b, Ends(b, f, p, a))
  <2>1. CASE a = b
    BY <1>2, <1>4, <2>1
  <2>2. CASE a # b
    BY <1>2, <1>5, <2>2 DEF SharePlan
  <2> QED
    BY <2>1, <2>2
<1>8. ASSUME NEW p \in Receipt, SpendOK(c, p)
      PROVE  SpendOK(f, p)
  <2>1. ASSUME NEW a \in Bill
        PROVE  Held(f, p, a) <= Held(c, p, a)
    <3>1. Held(c, p, a) = Held(d, p, a) /\ Held(d, p, a) \in Int
      BY <1>2, CountedIsInt DEF Held
    <3>2. CASE a = b
      BY <1>4, <3>1, <3>2
    <3>3. CASE a # b
      BY <1>5, <3>1, <3>3
    <3> QED
      BY <3>2, <3>3
  <2>2. f.receipt[p].amount = c.receipt[p].amount
    BY <1>2, <1>3
  <2> QED
    BY <1>3, <1>8, <2>1, <2>2, SpendLess
<1>9. ASSUME NEW a \in Bill, a # b
      PROVE  Alike(d, f, a)
  BY <1>3, <1>5, <1>9 DEF Alike
<1>10. \A a \in Bill \ {b} : StatusOK(c, a) /\ ~ (op = "UpdateInvoice" /\ a = b) => StatusOK(f, a)
  BY <1>1, <1>9, AlikeClaims DEF Fulfils
<1>11. ASSUME NEW a \in Bill, IdleOK(c, a)
       PROVE  IdleOK(f, a)
  <2>1. IdleOK(d, a)
    BY <1>1, <1>11 DEF Fulfils
  <2>2. CASE a = b
    <3>1. ASSUME NEW p \in Receipt, ~IsActive(f, b)
          PROVE  Counted(f, p, b) = 0
      <4>1. Counted(d, p, b) = 0
        BY <1>3, <2>1, <2>2, <3>1 DEF IdleOK, IsActive
      <4>2. PICK n \in Nat, x \in Int : n = Back(d, p, b) /\ x = Counted(f, p, b)
        BY <1>1, <1>3, BackIs, CountedIsInt
      <4>3. n <= 0 /\ 0 = x + n
        BY <1>1, <1>4, <4>1, <4>2, BackIs
      <4> QED
        BY <4>2, <4>3
    <3> QED
      BY <2>2, <3>1 DEF IdleOK
  <2>3. CASE a # b
    BY <1>9, <2>1, <2>3, AlikeClaims
  <2> QED
    BY <2>2, <2>3
<1>12. Fulfils(op, b, c, f, {b})
  <2>1. \A a \in Bill : /\ BillPlan(c.bill[a], f.bill[a], a = b)
                        /\ f.note[a] # c.note[a] => f.bill[a] # c.bill[a]
                        /\ f.order[a] # c.order[a] => f.order[a] # "none"
    BY <1>1, <1>3 DEF Fulfils
  <2>2. \A p \in Receipt : ReceiptPlan(c.receipt[p], f.receipt[p])
    BY <1>1, <1>3 DEF Fulfils
  <2> QED
    BY <1>7, <1>8, <1>10, <1>11, <2>1, <2>2 DEF Fulfils
<1>13. Leads(op, b, c, f, {b})
  BY <1>1, <1>3, <1>6, <1>12 DEF Leads, IsActive
<1>14. ASSUME NEW p \in Receipt, NEW a \in Bill, Flow(f, p, a) > 0
       PROVE  f.share[p][a] = c.share[p][a]
  <2>1. CASE a # b
    BY <1>2, <1>5, <2>1
  <2>2. CASE a = b
    <3>1. Needs(f, b) > 0
      BY <1>3, <1>14, <2>2, FlowNeeds
    <3>2. ~(Back(d, p, b) > 0)
      <4> SUFFICES ASSUME Back(d, p, b) > 0 PROVE FALSE
        OBVIOUS
      <4>1. Needs(f, b) = 0
        BY <1>1, <1>3, <1>4, ReleasedIsPaid
      <4> QED
        BY <3>1, <4>1
    <3>3. Back(d, p, b) = 0
      BY <1>1, <3>2, BackIs
    <3> QED
      BY <1>2, <1>4, <2>2, <3>3
  <2> QED
    BY <2>1, <2>2
<1> QED
  BY <1>2, <1>3, <1>13, <1>14

LEMMA ReconciledStep ==
  ASSUME IInv, NEW r \in Request, NEW op \in Ops, NEW b \in Bill, NEW d \in Books,
         RowWritten(books, d, b), IdleOK(books, b) => IdleOK(d, b), Reconciled(r, op, b, d),
         d.bill[b].status # "VOID"
  PROVE  IInv'
<1>1. PICK f : f = Release(d, b)
  OBVIOUS
<1>2. books \in Books /\ RowsOK(books)
  BY DEF IInv, TypeInv, TypeOK, Sound
<1>3. PICK T : T = {b} \cup Affected(f)
  OBVIOUS
<1>4. Due(d, b) >= 0 /\ Submit(r, op, b, AutoAllocate(f), T)
  BY <1>1, <1>3 DEF Reconciled
<1>5. /\ Leads(op, b, books, f, {b}) /\ f.receipt = books.receipt
      /\ \A p \in Receipt, a \in Bill : Flow(f, p, a) > 0 => f.share[p][a] = books.share[p][a]
  BY <1>1, <1>2, <1>4, ReleaseLeads, SMTT(60)
<1>6. \A p \in Receipt, a \in Bill : Flow(f, p, a) > 0 =>
        /\ f.share[p][a].amount >= books.share[p][a].amount
        /\ f.share[p][a].held = "inactive" => books.share[p][a].held = "inactive"
  BY <1>2, <1>5, BookRows
<1>7. T \in SUBSET Bill /\ {b} \cup Affected(f) \subseteq T
  BY <1>3 DEF Affected
<1>8. PICK e : e = AutoAllocate(f)
  OBVIOUS
<1>9. Leads(op, b, books, e, T)
  BY <1>2, <1>5, <1>6, <1>7, <1>8, AutoAllocateLeads
<1>10. e.receipt = books.receipt
  BY <1>5, <1>8, AutoAllocateIs DEF Leads
<1>11. Submit(r, op, b, e, T)
  BY <1>4, <1>8
<1>12. op = "UpdateInvoice" => b \in Bill
  OBVIOUS
<1>13. Poured(op, books, Judge(e, T))
  <2>1. /\ RowsOK(d) /\ d.share = books.share
        /\ \A a \in Bill \ {b} : d.bill[a] = books.bill[a]
    BY <1>2, RowWrittenLeads DEF Leads, RowWritten, OnlyBill
  <2>2. \A a \in T : f.bill[a].status # "VOID"
    <3>1. f.bill = d.bill
      BY <1>1, <2>1, ReleaseIs
    <3> QED
      BY <1>3, <1>5, <3>1, AffectedOpen DEF Leads
  <2>3. ASSUME NEW p \in Receipt, NEW a \in Bill
        PROVE  f.share[p][a].amount <= books.share[p][a].amount
    <3>1. d.share[p][a].amount \in Int /\ f.share[p][a].amount \in Int
      BY <1>5, BookRows DEF Leads
    <3>2. f.share[p][a].amount <= d.share[p][a].amount
      <4>1. CASE a = b
        BY <1>1, <2>1, <3>1, <4>1, ReleaseRow
      <4>2. CASE a # b
        BY <1>1, <2>1, <3>1, <4>2, ReleaseIs
      <4> QED
        BY <4>1, <4>2
    <3> QED
      BY <2>1, <3>2
  <2> QED
    BY <1>2, <1>5, <1>7, <1>8, <2>2, <2>3, AutoAllocatePours DEF Leads
<1> QED
  BY <1>9, <1>10, <1>11, <1>12, <1>13, SubmitStep

LEMMA CreateOrderStep ==
  ASSUME IInv, NEW r \in Request, NEW b \in Bill, NEW total \in Amounts, CreateOrder(r, b, total)
  PROVE  IInv'
<1>1. PICK row : row = [state |-> "active", kind |-> "TAX_INVOICE", status |-> "PENDING",
                        total |-> total]
  OBVIOUS
<1>2. PICK c : c = [books EXCEPT !.order[b] = "open"]
  OBVIOUS
<1>3. PICK d : d = WithBill(c, b, row)
  OBVIOUS
<1>4. books \in Books /\ RowsOK(books)
  BY DEF IInv, TypeInv, TypeOK, Sound
<1>5. b \in OrderBill /\ books.order[b] = "none" /\ Reconciled(r, "CreateOrder", b, d)
  BY <1>1, <1>2, <1>3, Zenon DEF CreateOrder
<1>6. row \in BillRow /\ row.state = "active"
  BY <1>1, AmountsAreNat DEF BillRow, InvoiceStatus
<1>7. /\ c \in Books /\ c.order[b] = "open"
      /\ \A a \in Bill \ {b} : c.order[a] = books.order[a]
      /\ c.bill = books.bill /\ c.receipt = books.receipt /\ c.share = books.share
      /\ c.note = books.note
  BY <1>2, <1>4 DEF Books
<1>8. /\ d \in Books /\ d.bill[b] = row
      /\ \A a \in Bill \ {b} : d.bill[a] = books.bill[a]
      /\ d.receipt = books.receipt /\ d.share = books.share
      /\ d.note = books.note /\ d.order = c.order
  BY <1>3, <1>6, <1>7, WithBillIs
<1>9. books.bill[b].state = "none"
  BY <1>4, <1>5 DEF RowsOK
<1>10. RowWritten(books, d, b)
  BY <1>6, <1>7, <1>8, <1>9 DEF RowWritten, OnlyBill
<1>11. IdleOK(d, b)
  BY <1>6, <1>8 DEF IdleOK, IsActive
<1>12. "CreateOrder" \in Ops
  BY DEF Ops
<1>13. d.bill[b].status # "VOID"
  BY <1>1, <1>8
<1> QED
  BY <1>5, <1>8, <1>10, <1>11, <1>12, <1>13, ReconciledStep

LEMMA UpdateOrderStep ==
  ASSUME IInv, NEW r \in Request, NEW b \in Bill, NEW total \in Amounts, UpdateOrder(r, b, total)
  PROVE  IInv'
<1>1. PICK row : row = [books.bill[b] EXCEPT !.total = total]
  OBVIOUS
<1>2. PICK d : d = WithBill(books, b, row)
  OBVIOUS
<1>3. books \in Books /\ RowsOK(books)
  BY DEF IInv, TypeInv, TypeOK, Sound
<1>4. /\ IsActive(books, b) /\ books.bill[b].status # "VOID"
      /\ Reconciled(r, "UpdateOrder", b, d)
  BY <1>1, <1>2, Zenon DEF UpdateOrder
<1>5. row \in BillRow /\ row.state = "active" /\ row.kind = books.bill[b].kind
  BY <1>1, <1>3, <1>4, AmountsAreNat, BookRows DEF BillRow, IsActive
<1>6. /\ d \in Books /\ d.bill[b] = row
      /\ \A a \in Bill \ {b} : d.bill[a] = books.bill[a]
      /\ d.receipt = books.receipt /\ d.share = books.share
      /\ d.note = books.note /\ d.order = books.order
  BY <1>2, <1>3, <1>5, WithBillIs
<1>7. RowWritten(books, d, b)
  BY <1>3, <1>4, <1>5, <1>6 DEF RowWritten, OnlyBill, IsActive, RowsOK
<1>8. IdleOK(d, b)
  BY <1>5, <1>6 DEF IdleOK, IsActive
<1>9. "UpdateOrder" \in Ops
  BY DEF Ops
<1>10. d.bill[b].status # "VOID"
  BY <1>1, <1>3, <1>4, <1>6, BookRows DEF BillRow
<1> QED
  BY <1>4, <1>6, <1>7, <1>8, <1>9, <1>10, ReconciledStep

(* One payment is written, with its allocations. *)
LEMMA WithReceiptIs ==
  ASSUME NEW d \in Books, NEW p \in Receipt, NEW row \in PaymentRow, NEW share \in [Bill -> Allocation]
  PROVE  LET e == WithReceipt(d, p, row, share)
         IN  /\ e \in Books /\ e.receipt[p] = row /\ e.share[p] = share
             /\ \A q \in Receipt \ {p} : e.receipt[q] = d.receipt[q] /\ e.share[q] = d.share[q]
             /\ e.bill = d.bill /\ e.note = d.note /\ e.order = d.order
<1>1. PICK f : f = [d EXCEPT !.receipt[p] = row]
  OBVIOUS
<1>2. /\ f \in Books /\ f.receipt[p] = row
      /\ \A q \in Receipt \ {p} : f.receipt[q] = d.receipt[q]
      /\ f.bill = d.bill /\ f.share = d.share /\ f.note = d.note /\ f.order = d.order
  BY <1>1 DEF Books
<1>3. PICK e : e = [f EXCEPT !.share[p] = share]
  OBVIOUS
<1>4. /\ e \in Books /\ e.share[p] = share
      /\ \A q \in Receipt \ {p} : e.share[q] = f.share[q]
      /\ e.bill = f.bill /\ e.receipt = f.receipt /\ e.note = f.note /\ e.order = f.order
  BY <1>2, <1>3 DEF Books
<1>5. WithReceipt(d, p, row, share) = e
  BY <1>1, <1>3, Zenon DEF WithReceipt
<1> QED
  BY <1>2, <1>4, <1>5

PaymentWritten(c, d, p, T) ==
  /\ d.bill = c.bill /\ d.note = c.note /\ d.order = c.order
  /\ \A q \in Receipt \ {p} : d.receipt[q] = c.receipt[q] /\ d.share[q] = c.share[q]
  /\ ReceiptPlan(c.receipt[p], d.receipt[p])
  /\ SpendOK(d, p)
  /\ \A b \in Bill :
       /\ RowOK(d.share[p][b], d.receipt[p], d.bill[b])
       /\ SharePlan(c.share[p][b], d.share[p][b], FALSE, Ends(NoBill, d, p, b))
       /\ b \notin T => Counted(d, p, b) = Counted(c, p, b)
       /\ IsActive(c, b) \/ Counted(d, p, b) = 0

LEMMA PaymentWrittenLeads ==
  ASSUME NEW c \in Books, RowsOK(c), NEW d \in Books, NEW p \in Receipt, NEW T \in SUBSET Bill,
         PaymentWritten(c, d, p, T), NEW op, op # "UpdateInvoice"
  PROVE  Leads(op, NoBill, c, d, T)
<1>1. /\ d.bill = c.bill /\ d.note = c.note /\ d.order = c.order
      /\ \A q \in Receipt \ {p} : d.receipt[q] = c.receipt[q] /\ d.share[q] = c.share[q]
      /\ \A b \in Bill :
           /\ RowOK(d.share[p][b], d.receipt[p], d.bill[b])
           /\ SharePlan(c.share[p][b], d.share[p][b], FALSE, Ends(NoBill, d, p, b))
           /\ b \notin T => Counted(d, p, b) = Counted(c, p, b)
           /\ IsActive(c, b) \/ Counted(d, p, b) = 0
  BY DEF PaymentWritten
<1>2. RowsOK(d)
  <2>1. \A q \in Receipt, b \in Bill : RowOK(d.share[q][b], d.receipt[q], d.bill[b])
    BY <1>1 DEF RowsOK
  <2> QED
    BY <1>1, <2>1 DEF RowsOK
<1>3. ASSUME NEW q \in Receipt, NEW b \in Bill
      PROVE  SharePlan(c.share[q][b], d.share[q][b], b = NoBill, Ends(NoBill, d, q, b))
  <2>1. (b = NoBill) = FALSE
    BY Sizes
  <2>2. CASE q = p
    BY <1>1, <2>1, <2>2 DEF SharePlan
  <2>3. CASE q # p
    BY <1>1, <2>3 DEF SharePlan
  <2> QED
    BY <2>2, <2>3
<1>4. ASSUME NEW q \in Receipt, q # p, NEW b \in Bill
      PROVE  Counted(d, q, b) = Counted(c, q, b) /\ Held(d, q, b) = Held(c, q, b)
  BY <1>1, <1>4 DEF Counted, Held
<1>5. ASSUME NEW q \in Receipt, SpendOK(c, q)
      PROVE  SpendOK(d, q)
  <2>1. CASE q = p
    BY <2>1 DEF PaymentWritten
  <2>2. CASE q # p
    <3>1. \A b \in Bill : Held(d, q, b) <= Held(c, q, b)
      BY <1>4, <2>2, CountedIsInt
    <3> QED
      BY <1>1, <1>5, <2>2, <3>1, SpendLess
  <2> QED
    BY <2>1, <2>2
<1>6. ASSUME NEW b \in Bill \ T
      PROVE  Alike(c, d, b)
  <2>1. \A q \in Receipt : Counted(d, q, b) = Counted(c, q, b)
    BY <1>1, <1>4
  <2> QED
    BY <1>1, <2>1 DEF Alike
<1>7. ASSUME NEW b \in Bill, IdleOK(c, b)
      PROVE  IdleOK(d, b)
  <2> SUFFICES ASSUME ~IsActive(d, b), NEW q \in Receipt PROVE Counted(d, q, b) = 0
    BY DEF IdleOK
  <2>1. ~IsActive(c, b) /\ Counted(c, q, b) = 0
    BY <1>1, <1>7 DEF IdleOK, IsActive
  <2>2. CASE q = p
    BY <1>1, <2>1, <2>2
  <2>3. CASE q # p
    BY <1>4, <2>1, <2>3
  <2> QED
    BY <2>2, <2>3
<1>8. \A q \in Receipt : ReceiptPlan(c.receipt[q], d.receipt[q])
  BY <1>1 DEF PaymentWritten, ReceiptPlan
<1>9. \A b \in Bill : /\ BillPlan(c.bill[b], d.bill[b], b = NoBill)
                      /\ d.note[b] = c.note[b] /\ d.order[b] = c.order[b]
  BY <1>1 DEF BillPlan
<1>10. \A b \in Bill \ T : StatusOK(c, b) => StatusOK(d, b)
  BY <1>6, AlikeClaims
<1>11. Fulfils(op, NoBill, c, d, T)
  BY <1>3, <1>5, <1>7, <1>8, <1>9, <1>10 DEF Fulfils
<1> QED
  BY <1>2, <1>9, <1>11 DEF Leads

(* A payment that is spent on one invoice only *)
LEMMA HoldingOne ==
  ASSUME NEW d \in Books, NEW p \in Receipt, NEW b \in Bill,
         \A a \in Bill \ {b} : Held(d, p, a) = 0
  PROVE  Holding(d, p) = Held(d, p, b)
<1> DEFINE h == [a \in Bill |-> Held(d, p, a)]
<1>1. \A a \in Bill : h[a] \in Int
  BY CountedIsInt
<1>2. Holding(d, p) = SumFunctionOnSet(h, Bill)
  BY HoldingIs
<1>3. \A a \in Bill \ {b} : h[a] = 0
  OBVIOUS
<1>4. h[b] = Held(d, p, b) /\ h[b] \in Int
  BY <1>1
<1> HIDE DEF h
<1>5. SumFunctionOnSet(h, Bill) = h[b] + SumFunctionOnSet(h, Bill \ {b})
  BY <1>1, Sizes, SumSplit
<1>6. IsFiniteSet(Bill \ {b})
  BY Sizes, FS_Subset
<1>7. SumFunctionOnSet(h, Bill \ {b}) = 0
  BY <1>3, <1>6, SumOfZeros
<1> QED
  BY <1>2, <1>4, <1>5, <1>7

LEMMA ReceivedStep ==
  ASSUME IInv, NEW r \in Request, NEW p \in Receipt, NEW amount \in Nat,
         NEW order \in Bill \cup {NoBill}, NEW to, NEW part \in Nat,
         to \in Bill => IsActive(books, to),
         Received(r, p, amount, order, to, part)
  PROVE  IInv'
<1>1. PICK T : T = IF part > 0 THEN {to} \cap Bill ELSE {}
  OBVIOUS
<1> DEFINE share == [b \in Bill |-> IF b \in T THEN [held |-> "active", amount |-> part]
                                    ELSE books.share[p][b]]
<1>2. PICK row : row = [state |-> "RECORDED", amount |-> amount, order |-> order]
  OBVIOUS
<1>3. PICK d : d = WithReceipt(books, p, row, share)
  OBVIOUS
<1>4. PICK o : o = Judge(d, T)
  OBVIOUS
<1>5. books \in Books /\ RowsOK(books)
  BY DEF IInv, TypeInv, TypeOK, Sound
<1>6. /\ books.receipt[p].state = "none"
      /\ \A s \in Request : job[s].after.receipt[p].state = "none"
      /\ part <= amount
      /\ Submit(r, "CreatePayment", NoBill, AutoAllocate(o), T \cup Affected(o))
  BY <1>1, <1>2, <1>3, <1>4, Zenon DEF Received
<1>7. row \in PaymentRow /\ row.state = "RECORDED" /\ row.amount = amount
  BY <1>2 DEF PaymentRow
<1>8. \A b \in Bill : books.share[p][b] = NoShare
  BY <1>5, <1>6 DEF RowsOK, RowOK
<1>9. ASSUME NEW b \in Bill
      PROVE  /\ share[b] \in Allocation /\ share[b].amount >= 0
             /\ share[b].held # "inactive"
             /\ share[b] = NoShare \/ (b \in T /\ share[b].held = "active" /\ share[b].amount = part
                                       /\ part > 0)
  BY <1>1, <1>8 DEF Allocation, NoShare
<1>10. share \in [Bill -> Allocation]
  <2>1. share = [b \in Bill |-> share[b]]
    OBVIOUS
  <2> HIDE DEF share
  <2> QED
    BY <1>9, <2>1
<1> HIDE DEF share
<1>11. /\ d \in Books /\ d.receipt[p] = row /\ d.share[p] = share
       /\ \A q \in Receipt \ {p} : d.receipt[q] = books.receipt[q] /\ d.share[q] = books.share[q]
       /\ d.bill = books.bill /\ d.note = books.note /\ d.order = books.order
  BY <1>3, <1>5, <1>7, <1>10, WithReceiptIs
<1>12. T \in SUBSET Bill /\ \A b \in T : b = to /\ IsActive(books, b)
  BY <1>1
<1>13. ASSUME NEW b \in Bill
       PROVE  /\ RowOK(d.share[p][b], d.receipt[p], d.bill[b])
              /\ SharePlan(books.share[p][b], d.share[p][b], FALSE, Ends(NoBill, d, p, b))
              /\ Held(d, p, b) = Counted(d, p, b) /\ Held(d, p, b) <= part
              /\ b \notin T => Counted(d, p, b) = 0 /\ Counted(books, p, b) = 0
              /\ d.share[p][b].amount >= books.share[p][b].amount
              /\ d.share[p][b].held # "inactive"
  <2>1. CASE share[b] = NoShare
    <3>1. d.share[p][b] = NoShare /\ books.share[p][b] = NoShare
      BY <1>8, <1>11, <2>1
    <3>2. NoShare.held = "none" /\ NoShare.amount = 0
      BY DEF NoShare
    <3>3. RowOK(d.share[p][b], d.receipt[p], d.bill[b])
      BY <3>1, <3>2 DEF RowOK
    <3>4. SharePlan(books.share[p][b], d.share[p][b], FALSE, Ends(NoBill, d, p, b))
      BY <3>1 DEF SharePlan
    <3>5. Held(d, p, b) = 0 /\ Counted(d, p, b) = 0 /\ Counted(books, p, b) = 0
      BY <3>1, <3>2 DEF Held, Counted
    <3>6. /\ Held(d, p, b) <= part /\ d.share[p][b].amount >= books.share[p][b].amount
          /\ d.share[p][b].held # "inactive"
      BY <3>1, <3>2, <3>5
    <3> QED
      BY <3>3, <3>4, <3>5, <3>6, Zenon
  <2>2. CASE b \in T /\ share[b].held = "active" /\ share[b].amount = part /\ part > 0
    <3>1. d.share[p][b].held = "active" /\ d.share[p][b].amount = part /\ part > 0
      BY <1>11, <2>2
    <3>2. d.receipt[p].state = "RECORDED" /\ d.bill[b].state = "active"
      BY <1>7, <1>11, <1>12, <2>2 DEF IsActive
    <3>3. books.share[p][b] = NoShare /\ NoShare.amount = 0
      BY <1>8 DEF NoShare
    <3>4. RowOK(d.share[p][b], d.receipt[p], d.bill[b])
      BY <3>1, <3>2 DEF RowOK
    <3>5. SharePlan(books.share[p][b], d.share[p][b], FALSE, Ends(NoBill, d, p, b))
      BY <3>1, <3>3 DEF SharePlan
    <3>6. Held(d, p, b) = part /\ Counted(d, p, b) = part
      BY <3>1, <3>2 DEF Held, Counted
    <3>7. /\ Held(d, p, b) <= part /\ d.share[p][b].amount >= books.share[p][b].amount
          /\ d.share[p][b].held # "inactive"
      BY <3>1, <3>3, <3>6
    <3> QED
      BY <2>2, <3>4, <3>5, <3>6, <3>7, Zenon
  <2> QED
    BY <1>9, <2>1, <2>2
<1>14. SpendOK(d, p)
  <2>1. d.receipt[p].amount = amount
    BY <1>7, <1>11
  <2>2. CASE T = {}
    <3>1. \A b \in Bill : Held(d, p, b) = 0
      BY <1>13, <2>2
    <3> QED
      BY <1>11, <3>1, SpendNothing
  <2>3. CASE T # {}
    <3>1. to \in Bill /\ \A b \in Bill \ {to} : Held(d, p, b) = 0
      BY <1>1, <1>13, <2>3
    <3>2. Holding(d, p) = Held(d, p, to)
      BY <1>11, <3>1, HoldingOne
    <3>3. Held(d, p, to) <= part /\ Held(d, p, to) \in Int
      BY <1>11, <1>13, <3>1, CountedIsInt
    <3>4. Held(d, p, to) <= amount
      BY <1>6, <3>3
    <3> QED
      BY <2>1, <3>2, <3>4 DEF SpendOK
  <2> QED
    BY <2>2, <2>3
<1>15. PaymentWritten(books, d, p, T)
  <2>1. ReceiptPlan(books.receipt[p], d.receipt[p])
    BY <1>6, <1>7, <1>11 DEF ReceiptPlan
  <2>2. ASSUME NEW b \in Bill
        PROVE  /\ b \notin T => Counted(d, p, b) = Counted(books, p, b)
               /\ IsActive(books, b) \/ Counted(d, p, b) = 0
    BY <1>12, <1>13
  <2> QED
    BY <1>11, <1>13, <1>14, <2>1, <2>2 DEF PaymentWritten
<1>16. "CreatePayment" \in Ops /\ "CreatePayment" # "UpdateInvoice"
  BY DEF Ops
<1>17. Leads("CreatePayment", NoBill, books, d, T)
  BY <1>5, <1>11, <1>12, <1>15, <1>16, PaymentWrittenLeads
<1>18. /\ o \in Books /\ RowsOK(o)
       /\ o.receipt = d.receipt /\ o.share = d.share
       /\ \A b \in T : StatusOK(o, b)
  <2>1. o.receipt = d.receipt /\ o.share = d.share
    BY <1>4, <1>11, <1>12, JudgeIs
  <2>2. o \in Books /\ RowsOK(o) /\ \A b \in T : StatusOK(o, b)
    BY <1>4, <1>5, <1>17, JudgeLeads
  <2> QED
    BY <2>1, <2>2
<1>19. Leads("CreatePayment", NoBill, books, o, T)
  <2>1. Fulfils("CreatePayment", NoBill, books, o, T)
    BY <1>4, <1>5, <1>17, JudgeLeads
  <2>2. o.note = books.note
    BY <1>4, <1>11, <1>12, JudgeIs
  <2> QED
    BY <1>12, <1>18, <2>1, <2>2 DEF Leads
<1>20. \A q \in Receipt, b \in Bill :
         /\ o.share[q][b].amount >= books.share[q][b].amount
         /\ o.share[q][b].held = "inactive" => books.share[q][b].held = "inactive"
  <2> SUFFICES ASSUME NEW q \in Receipt, NEW b \in Bill
               PROVE  /\ d.share[q][b].amount >= books.share[q][b].amount
                      /\ d.share[q][b].held = "inactive" => books.share[q][b].held = "inactive"
    BY <1>18
  <2>1. CASE q = p
    BY <1>13, <2>1
  <2>2. CASE q # p
    BY <1>5, <1>11, <2>2, BookRows
  <2> QED
    BY <2>1, <2>2
<1>21. PICK U : U = T \cup Affected(o)
  OBVIOUS
<1>22. U \in SUBSET Bill /\ T \cup Affected(o) \subseteq U
  BY <1>12, <1>21 DEF Affected
<1>23. PICK e : e = AutoAllocate(o)
  OBVIOUS
<1>24. Leads("CreatePayment", NoBill, books, e, U)
  BY <1>5, <1>19, <1>20, <1>22, <1>23, AutoAllocateLeads
<1>25. e.receipt = d.receipt
  BY <1>18, <1>23, AutoAllocateIs
<1>26. \A q \in Receipt : books.receipt[q].state = "none" /\ e.receipt[q] # books.receipt[q] =>
         \A s \in Request : job[s].after.receipt[q].state = "none"
  BY <1>6, <1>11, <1>25
<1>27. Submit(r, "CreatePayment", NoBill, e, U)
  BY <1>6, <1>21, <1>23
<1>28. Poured("CreatePayment", books, Judge(e, U))
  <2>1. \A b \in U : o.bill[b].status = "VOID" => StatusOK(o, b)
    BY <1>18, <1>21, AffectedOpen
  <2> QED
    BY <1>5, <1>18, <1>22, <1>23, <2>1, AutoAllocatePours
<1> QED
  BY <1>16, <1>24, <1>26, <1>27, <1>28, SubmitStep

LEMMA PaymentsStep ==
  ASSUME IInv, NEW r \in Request, NEW p \in Receipt, NEW amount \in Amounts,
         \/ CreatePayment(r, p, amount)
         \/ \E b \in Bill : CreatePaymentForOrder(r, p, amount, b)
         \/ \E b \in Bill, part \in Amounts : CreatePaymentFor(r, p, amount, b, part)
  PROVE  IInv'
<1>1. books \in Books /\ amount \in Nat
  BY AmountsAreNat DEF IInv, TypeInv, TypeOK
<1>2. CASE CreatePayment(r, p, amount)
  <2>1. Received(r, p, amount, NoBill, NoBill, 0)
    BY <1>2 DEF CreatePayment
  <2>2. NoBill \in Bill \cup {NoBill} /\ 0 \in Nat /\ NoBill \notin Bill
    BY Sizes
  <2> QED
    BY <1>1, <2>1, <2>2, ReceivedStep
<1>3. CASE \E b \in Bill : CreatePaymentForOrder(r, p, amount, b)
  <2>1. PICK b \in Bill : CreatePaymentForOrder(r, p, amount, b)
    BY <1>3
  <2>2. PICK part : part = Least(amount, Positive(books.bill[b].total - Paid(books, b)))
    OBVIOUS
  <2>3. part \in Nat
    <3>1. PICK x \in Int, y \in Int : x = books.bill[b].total /\ y = Paid(books, b)
      BY <1>1, BookRows, PaidIsInt
    <3> QED
      BY <1>1, <2>2, <3>1 DEF Least, Positive
  <2>4. IsActive(books, b) /\ Received(r, p, amount, b, b, part)
    BY <2>1, <2>2 DEF CreatePaymentForOrder
  <2> QED
    BY <1>1, <2>3, <2>4, ReceivedStep
<1>4. CASE \E b \in Bill, part \in Amounts : CreatePaymentFor(r, p, amount, b, part)
  <2>1. PICK b \in Bill, part \in Amounts : CreatePaymentFor(r, p, amount, b, part)
    BY <1>4
  <2>2. PICK order : order = IF b \in OrderBill THEN b ELSE NoBill
    OBVIOUS
  <2>3. order \in Bill \cup {NoBill} /\ part \in Nat
    BY <2>2, AmountsAreNat
  <2>4. IsActive(books, b) /\ Received(r, p, amount, order, b, part)
    BY <2>1, <2>2 DEF CreatePaymentFor
  <2> QED
    BY <1>1, <2>3, <2>4, ReceivedStep
<1> QED
  BY <1>2, <1>3, <1>4

LEMMA DeletePaymentStep ==
  ASSUME IInv, NEW r \in Request, NEW p \in Receipt, DeletePayment(r, p)
  PROVE  IInv'
<1> DEFINE share == [b \in Bill |-> NoShare]
<1>1. PICK row : row = [books.receipt[p] EXCEPT !.state = "gone"]
  OBVIOUS
<1>2. PICK d : d = WithReceipt(books, p, row, share)
  OBVIOUS
<1>3. PICK T : T = {b \in Bill : books.share[p][b].held = "active"}
  OBVIOUS
<1>4. books \in Books /\ RowsOK(books)
  BY DEF IInv, TypeInv, TypeOK, Sound
<1>5. /\ books.receipt[p].state \in {"RECORDED", "REVERSED"}
      /\ Submit(r, "DeletePayment", NoBill, d, T)
  BY <1>1, <1>2, <1>3, Zenon DEF DeletePayment
<1>6. row \in PaymentRow /\ row.state = "gone" /\ row.amount = books.receipt[p].amount
  BY <1>1, <1>4, BookRows DEF PaymentRow
<1>7. share \in [Bill -> Allocation] /\ \A b \in Bill : share[b] = NoShare
  BY DEF NoShare, Allocation
<1> HIDE DEF share
<1>8. /\ d \in Books /\ d.receipt[p] = row /\ d.share[p] = share
      /\ \A q \in Receipt \ {p} : d.receipt[q] = books.receipt[q] /\ d.share[q] = books.share[q]
      /\ d.bill = books.bill /\ d.note = books.note /\ d.order = books.order
  BY <1>2, <1>4, <1>6, <1>7, WithReceiptIs
<1>9. ASSUME NEW b \in Bill
      PROVE  /\ d.share[p][b] = NoShare
             /\ Held(d, p, b) = 0 /\ Counted(d, p, b) = 0
             /\ b \notin T => Counted(books, p, b) = 0
             /\ RowOK(d.share[p][b], d.receipt[p], d.bill[b])
             /\ SharePlan(books.share[p][b], d.share[p][b], FALSE, Ends(NoBill, d, p, b))
  <2>1. d.share[p][b] = NoShare /\ NoShare.held = "none" /\ NoShare.amount = 0
    BY <1>7, <1>8 DEF NoShare
  <2>2. Held(d, p, b) = 0 /\ Counted(d, p, b) = 0
    BY <2>1 DEF Held, Counted
  <2>3. b \notin T => Counted(books, p, b) = 0
    BY <1>3 DEF Counted
  <2>4. RowOK(d.share[p][b], d.receipt[p], d.bill[b])
    BY <2>1 DEF RowOK
  <2>5. Ends(NoBill, d, p, b)
    BY <1>6, <1>8 DEF Ends
  <2>6. SharePlan(books.share[p][b], d.share[p][b], FALSE, Ends(NoBill, d, p, b))
    BY <2>1, <2>5 DEF SharePlan
  <2> QED
    BY <2>1, <2>2, <2>3, <2>4, <2>6, Zenon
<1>10. SpendOK(d, p)
  BY <1>8, <1>9, SpendNothing
<1>11. ReceiptPlan(books.receipt[p], d.receipt[p])
  BY <1>5, <1>6, <1>8 DEF ReceiptPlan
<1>12. PaymentWritten(books, d, p, T)
  BY <1>8, <1>9, <1>10, <1>11 DEF PaymentWritten
<1>13. T \in SUBSET Bill
  BY <1>3
<1>14. "DeletePayment" \in Ops /\ "DeletePayment" # "UpdateInvoice"
  BY DEF Ops
<1>15. Leads("DeletePayment", NoBill, books, d, T)
  BY <1>4, <1>8, <1>12, <1>13, <1>14, PaymentWrittenLeads
<1>16. \A q \in Receipt : ~(books.receipt[q].state = "none" /\ d.receipt[q] # books.receipt[q])
  BY <1>5, <1>8
<1> QED
  BY <1>5, <1>14, <1>15, <1>16, SubmitStep DEF Spreads

(* A deletion takes nothing from what is left of a payment or an invoice.  *)
LEMMA DeleteOrderStep ==
  ASSUME IInv, NEW r \in Request, NEW b \in Bill, DeleteOrder(r, b)
  PROVE  IInv'
<1> DEFINE bill == [books.bill EXCEPT ![b].state = "gone"]
           receipt == [p \in Receipt |->
             IF ~LinkedTo(p, b) THEN books.receipt[p]
             ELSE IF Elsewhere(p, b) THEN [books.receipt[p] EXCEPT !.order = NoBill]
             ELSE [books.receipt[p] EXCEPT !.state = "gone"]]
           share == [p \in Receipt |->
             IF LinkedTo(p, b) /\ ~Elsewhere(p, b) THEN [c \in Bill |-> NoShare]
             ELSE [books.share[p] EXCEPT ![b] = NoShare]]
           note == [books.note EXCEPT ![b] = 0]
           order == [books.order EXCEPT ![b] = "gone"]
<1>1. PICK d : d = [bill |-> bill, receipt |-> receipt, share |-> share, note |-> note,
                    order |-> order]
  OBVIOUS
<1>2. Submit(r, "DeleteOrder", b, d, {})
  BY <1>1, Zenon DEF DeleteOrder
<1>3. books \in Books /\ RowsOK(books)
  BY DEF IInv, TypeInv, TypeOK, Sound
<1>4. /\ books.bill \in [Bill -> BillRow] /\ books.receipt \in [Receipt -> PaymentRow]
      /\ books.share \in [Receipt -> [Bill -> Allocation]] /\ books.note \in [Bill -> Int]
      /\ books.order \in [Bill -> {"none", "open", "cancelled", "gone"}]
      /\ NoShare \in Allocation /\ NoShare.held = "none" /\ NoShare.amount = 0
  BY <1>3 DEF Books, NoShare, Allocation
<1>5. /\ bill \in [Bill -> BillRow] /\ bill[b].state = "gone"
      /\ bill[b].kind = books.bill[b].kind /\ (books.bill[b].state = "gone" => bill[b] = books.bill[b])
      /\ \A a \in Bill \ {b} : bill[a] = books.bill[a]
  <2>1. books.bill[b] \in BillRow /\ bill[b] = [books.bill[b] EXCEPT !.state = "gone"]
    BY <1>4
  <2>2. /\ bill[b] \in BillRow /\ bill[b].state = "gone" /\ bill[b].kind = books.bill[b].kind
        /\ (books.bill[b].state = "gone" => bill[b] = books.bill[b])
    BY <2>1 DEF BillRow
  <2> QED
    BY <1>4, <2>2
<1>6. ASSUME NEW p \in Receipt
      PROVE  /\ receipt[p] \in PaymentRow /\ receipt[p].amount = books.receipt[p].amount
             /\ ~LinkedTo(p, b) => receipt[p] = books.receipt[p]
             /\ LinkedTo(p, b) => books.receipt[p].state \in {"RECORDED", "REVERSED"}
             /\ receipt[p].state = IF LinkedTo(p, b) /\ ~Elsewhere(p, b) THEN "gone"
                                   ELSE books.receipt[p].state
  <2>1. books.receipt[p] \in PaymentRow
    BY <1>4
  <2> QED
    BY <2>1 DEF PaymentRow, LinkedTo
<1>7. ASSUME NEW p \in Receipt
      PROVE  /\ share[p] \in [Bill -> Allocation]
             /\ \A a \in Bill : share[p][a] = IF a = b \/ (LinkedTo(p, b) /\ ~Elsewhere(p, b))
                                              THEN NoShare ELSE books.share[p][a]
  <2>1. books.share[p] \in [Bill -> Allocation]
    BY <1>4
  <2>2. CASE LinkedTo(p, b) /\ ~Elsewhere(p, b)
    <3>1. share[p] = [c \in Bill |-> NoShare]
      BY <2>2
    <3> QED
      BY <1>4, <2>2, <3>1
  <2>3. CASE ~(LinkedTo(p, b) /\ ~Elsewhere(p, b))
    <3>1. share[p] = [books.share[p] EXCEPT ![b] = NoShare]
      BY <2>3
    <3> QED
      BY <1>4, <2>1, <2>3, <3>1
  <2> QED
    BY <2>2, <2>3
<1>8. /\ receipt \in [Receipt -> PaymentRow] /\ share \in [Receipt -> [Bill -> Allocation]]
  <2>1. receipt = [p \in Receipt |-> receipt[p]] /\ share = [p \in Receipt |-> share[p]]
    OBVIOUS
  <2> HIDE DEF receipt, share
  <2> QED
    BY <1>6, <1>7, <2>1
<1>9. /\ note \in [Bill -> Int] /\ note[b] = 0
      /\ order \in [Bill -> {"none", "open", "cancelled", "gone"}] /\ order[b] = "gone"
      /\ \A a \in Bill \ {b} : note[a] = books.note[a] /\ order[a] = books.order[a]
  BY <1>4
<1> HIDE DEF bill, receipt, share, note, order
<1>10. /\ d \in Books
       /\ d.bill = bill /\ d.receipt = receipt /\ d.share = share /\ d.note = note
       /\ d.order = order
  BY <1>1, <1>5, <1>8, <1>9 DEF Books
<1>11. ASSUME NEW p \in Receipt, NEW a \in Bill
       PROVE  /\ RowOK(d.share[p][a], d.receipt[p], d.bill[a])
              /\ SharePlan(books.share[p][a], d.share[p][a], a = b, Ends(b, d, p, a))
              /\ Held(d, p, a) <= Held(books, p, a)
              /\ a # b => Counted(d, p, a) = Counted(books, p, a)
              /\ a = b => Counted(d, p, a) = 0
  <2>1. RowOK(books.share[p][a], books.receipt[p], books.bill[a]) /\ Held(books, p, a) \in Nat
    BY <1>3, CountedIsNat DEF RowsOK
  <2>2. CASE a = b \/ (LinkedTo(p, b) /\ ~Elsewhere(p, b))
    <3>1. d.share[p][a] = NoShare
      BY <1>7, <1>10, <2>2
    <3>2. Ends(b, d, p, a)
      BY <1>5, <1>6, <1>10, <2>2 DEF Ends
    <3>3. RowOK(d.share[p][a], d.receipt[p], d.bill[a])
      BY <1>4, <3>1 DEF RowOK
    <3>4. SharePlan(books.share[p][a], d.share[p][a], a = b, Ends(b, d, p, a))
      BY <3>1, <3>2 DEF SharePlan
    <3>5. Held(d, p, a) = 0 /\ Counted(d, p, a) = 0
      BY <1>4, <3>1 DEF Held, Counted
    <3>6. a # b => Counted(books, p, a) = 0
      BY <2>2 DEF Elsewhere, Counted
    <3>7. Held(d, p, a) <= Held(books, p, a)
      BY <2>1, <3>5
    <3> QED
      BY <3>3, <3>4, <3>5, <3>6, <3>7, Zenon
  <2>3. CASE ~(a = b \/ (LinkedTo(p, b) /\ ~Elsewhere(p, b)))
    <3>1. d.share[p][a] = books.share[p][a]
      BY <1>7, <1>10, <2>3
    <3>2. d.receipt[p].state = books.receipt[p].state /\ d.bill[a] = books.bill[a]
      BY <1>5, <1>6, <1>10, <2>3
    <3>3. RowOK(d.share[p][a], d.receipt[p], d.bill[a])
      BY <2>1, <3>1, <3>2 DEF RowOK
    <3>4. SharePlan(books.share[p][a], d.share[p][a], a = b, Ends(b, d, p, a))
      BY <3>1 DEF SharePlan
    <3>5. Held(d, p, a) = Held(books, p, a) /\ Counted(d, p, a) = Counted(books, p, a)
      BY <3>1, <3>2 DEF Held, Counted
    <3>6. Held(d, p, a) <= Held(books, p, a)
      BY <2>1, <3>5
    <3> QED
      BY <2>3, <3>3, <3>4, <3>5, <3>6, Zenon
  <2> QED
    BY <2>2, <2>3
<1>12. RowsOK(d)
  <2>1. \A a \in Bill : d.bill[a].state = "gone" => d.note[a] = 0
    BY <1>3, <1>5, <1>9, <1>10 DEF RowsOK
  <2>2. \A a \in OrderBill : d.order[a] = "none" => d.bill[a].state = "none"
    BY <1>3, <1>5, <1>9, <1>10, Sizes DEF RowsOK
  <2> QED
    BY <1>11, <2>1, <2>2 DEF RowsOK
<1>13. ASSUME NEW a \in Bill
       PROVE  /\ BillPlan(books.bill[a], d.bill[a], a = b)
              /\ d.note[a] # books.note[a] => d.bill[a] # books.bill[a] /\ ~IsActive(d, a)
              /\ d.order[a] # books.order[a] => d.order[a] # "none"
  <2>1. CASE a = b
    <3>1. books.bill[a].state = "gone" => books.note[a] = 0
      BY <1>3 DEF RowsOK
    <3>2. BillPlan(books.bill[a], d.bill[a], a = b)
      BY <1>5, <1>10, <2>1 DEF BillPlan
    <3> QED
      BY <1>5, <1>9, <1>10, <2>1, <3>1, <3>2 DEF IsActive
  <2>2. CASE a # b
    BY <1>5, <1>9, <1>10, <2>2 DEF BillPlan
  <2> QED
    BY <2>1, <2>2
<1>14. \A p \in Receipt : ReceiptPlan(books.receipt[p], d.receipt[p])
  BY <1>6, <1>10 DEF ReceiptPlan
<1>15. ASSUME NEW p \in Receipt, SpendOK(books, p)
       PROVE  SpendOK(d, p)
  <2>1. d.receipt[p].amount = books.receipt[p].amount
    BY <1>6, <1>10
  <2> QED
    BY <1>3, <1>10, <1>11, <1>15, <2>1, SpendLess
<1>16. ASSUME NEW a \in Bill
       PROVE  /\ StatusOK(books, a) => StatusOK(d, a)
              /\ IdleOK(books, a) => IdleOK(d, a)
  <2>1. CASE a = b
    <3>1. ~IsActive(d, a)
      BY <1>5, <1>10, <2>1 DEF IsActive
    <3> QED
      BY <1>11, <2>1, <3>1 DEF StatusOK, IdleOK
  <2>2. CASE a # b
    <3>1. Alike(books, d, a)
      BY <1>5, <1>9, <1>10, <1>11, <2>2 DEF Alike
    <3> QED
      BY <3>1, AlikeClaims
  <2> QED
    BY <2>1, <2>2
<1>17. Fulfils("DeleteOrder", b, books, d, {})
  BY <1>11, <1>13, <1>14, <1>15, <1>16 DEF Fulfils
<1>18. Leads("DeleteOrder", b, books, d, {})
  BY <1>10, <1>12, <1>13, <1>17 DEF Leads
<1>19. \A p \in Receipt : ~(books.receipt[p].state = "none" /\ d.receipt[p] # books.receipt[p])
  BY <1>6, <1>10
<1>20. "DeleteOrder" \in Ops /\ "DeleteOrder" # "UpdateInvoice"
  BY DEF Ops
<1> QED
  BY <1>2, <1>18, <1>19, <1>20, SubmitStep DEF Spreads

LEMMA CleanUpMonthStep ==
  ASSUME IInv, NEW r \in Request, CleanUpMonth(r)
  PROVE  IInv'
<1> DEFINE bill == [b \in Bill |-> IF b \in MonthBills THEN Removed(books.bill[b]) ELSE books.bill[b]]
           receipt == [p \in Receipt |-> IF p \in MonthReceipts
                         THEN [books.receipt[p] EXCEPT !.state = "REVERSED"] ELSE books.receipt[p]]
           cell(p, b) == IF Detached(p, b) THEN TurnedOff(books.share[p][b]) ELSE books.share[p][b]
           share == [p \in Receipt |-> [b \in Bill |-> cell(p, b)]]
           note == [b \in Bill |-> IF b \in MonthBills THEN 0 ELSE books.note[b]]
<1>1. PICK d : d = [bill |-> bill, receipt |-> receipt, share |-> share, note |-> note,
                    order |-> books.order]
  OBVIOUS
<1>2. PICK T : T = {b \in Bill \ MonthBills : \E p \in MonthReceipts : books.share[p][b].held = "active"}
  OBVIOUS
<1>3. Submit(r, "CleanUpMonth", NoBill, d, T)
  BY <1>1, <1>2, Zenon DEF CleanUpMonth
<1>4. books \in Books /\ RowsOK(books)
  BY DEF IInv, TypeInv, TypeOK, Sound
<1>5. /\ books.bill \in [Bill -> BillRow] /\ books.receipt \in [Receipt -> PaymentRow]
      /\ books.share \in [Receipt -> [Bill -> Allocation]] /\ books.note \in [Bill -> Int]
      /\ books.order \in [Bill -> {"none", "open", "cancelled", "gone"}]
  BY <1>4 DEF Books
<1>6. ASSUME NEW b \in Bill
      PROVE  /\ bill[b] \in BillRow /\ bill[b].kind = books.bill[b].kind
             /\ bill[b].total = books.bill[b].total
             /\ b \in MonthBills => bill[b].state = "inactive" /\ books.bill[b].state = "active"
             /\ b \notin MonthBills => bill[b] = books.bill[b]
             /\ note[b] = IF b \in MonthBills THEN 0 ELSE books.note[b]
             /\ note[b] \in Int
  <2>1. books.bill[b] \in BillRow /\ books.note[b] \in Int
    BY <1>5
  <2>2. PICK row : row = Removed(books.bill[b])
    OBVIOUS
  <2>3. /\ row \in BillRow /\ row.state = "inactive" /\ row.kind = books.bill[b].kind
        /\ row.total = books.bill[b].total
    BY <2>1, <2>2 DEF Removed, BillRow, InvoiceStatus
  <2>4. b \in MonthBills => books.bill[b].state = "active"
    BY DEF MonthBills, IsActive
  <2>5. bill[b] = IF b \in MonthBills THEN row ELSE books.bill[b]
    BY <2>2
  <2>6. note[b] = IF b \in MonthBills THEN 0 ELSE books.note[b]
    OBVIOUS
  <2> HIDE DEF bill, note
  <2> QED
    BY <2>1, <2>3, <2>4, <2>5, <2>6
<1>7. ASSUME NEW p \in Receipt
      PROVE  /\ receipt[p] \in PaymentRow /\ receipt[p].amount = books.receipt[p].amount
             /\ p \in MonthReceipts => receipt[p].state = "REVERSED" /\ books.receipt[p].state = "RECORDED"
             /\ p \notin MonthReceipts => receipt[p] = books.receipt[p]
  <2>1. books.receipt[p] \in PaymentRow
    BY <1>5
  <2> QED
    BY <2>1 DEF PaymentRow, MonthReceipts
<1>8. ASSUME NEW p \in Receipt, NEW b \in Bill
      PROVE  /\ cell(p, b) \in Allocation /\ cell(p, b).amount = books.share[p][b].amount
             /\ ~Detached(p, b) => cell(p, b) = books.share[p][b]
             /\ Detached(p, b) => cell(p, b).held # "active"
             /\ \/ cell(p, b) = books.share[p][b]
                \/ cell(p, b).held = "inactive" /\ books.share[p][b].held = "active"
  <2>1. books.share[p][b] \in Allocation
    BY <1>5
  <2>2. PICK off : off = TurnedOff(books.share[p][b])
    OBVIOUS
  <2>3. /\ off \in Allocation /\ off.amount = books.share[p][b].amount
        /\ off.held = IF books.share[p][b].held = "active" THEN "inactive"
                      ELSE books.share[p][b].held
        /\ books.share[p][b].held # "active" => off = books.share[p][b]
    BY <2>1, <2>2, TurnedOffIs
  <2> QED
    BY <2>1, <2>2, <2>3
<1> HIDE DEF cell
<1>9. /\ share \in [Receipt -> [Bill -> Allocation]]
      /\ \A p \in Receipt, b \in Bill : share[p][b] = cell(p, b)
  BY <1>8
<1>10. bill \in [Bill -> BillRow] /\ receipt \in [Receipt -> PaymentRow] /\ note \in [Bill -> Int]
  <2>1. /\ bill = [b \in Bill |-> bill[b]] /\ receipt = [p \in Receipt |-> receipt[p]]
        /\ note = [b \in Bill |-> note[b]]
    OBVIOUS
  <2> HIDE DEF bill, receipt, note
  <2> QED
    BY <1>6, <1>7, <2>1
<1> HIDE DEF bill, receipt, share, note
<1>11. /\ d \in Books
       /\ d.bill = bill /\ d.receipt = receipt /\ d.share = share /\ d.note = note
       /\ d.order = books.order
  BY <1>1, <1>5, <1>9, <1>10 DEF Books
<1>12. ASSUME NEW p \in Receipt, NEW b \in Bill
       PROVE  /\ RowOK(d.share[p][b], d.receipt[p], d.bill[b])
              /\ SharePlan(books.share[p][b], d.share[p][b], b = NoBill, Ends(NoBill, d, p, b))
              /\ Held(d, p, b) <= Held(books, p, b)
              /\ b \notin MonthBills \cup T => Counted(d, p, b) = Counted(books, p, b)
              /\ b \in MonthBills => Counted(d, p, b) = 0
              /\ Counted(books, p, b) = 0 => Counted(d, p, b) = 0
  <2>1. RowOK(books.share[p][b], books.receipt[p], books.bill[b]) /\ Held(books, p, b) \in Nat
    BY <1>4, CountedIsNat DEF RowsOK
  <2>2. /\ d.share[p][b] = cell(p, b)
        /\ d.share[p][b].amount = books.share[p][b].amount
        /\ ~Detached(p, b) => d.share[p][b] = books.share[p][b]
        /\ Detached(p, b) => d.share[p][b].held # "active"
        /\ \/ d.share[p][b] = books.share[p][b]
           \/ d.share[p][b].held = "inactive" /\ books.share[p][b].held = "active"
    BY <1>8, <1>9, <1>11
  <2>3. /\ d.receipt[p].state \in {"none", "gone"} => books.receipt[p].state \in {"none", "gone"}
        /\ d.bill[b].state \in {"none", "gone"} => books.bill[b].state \in {"none", "gone"}
    BY <1>6, <1>7, <1>11
  <2>4. RowOK(d.share[p][b], d.receipt[p], d.bill[b])
    BY <2>1, <2>2, <2>3 DEF RowOK, NoShare
  <2>5. SharePlan(books.share[p][b], d.share[p][b], b = NoBill, Ends(NoBill, d, p, b))
    BY <2>2 DEF SharePlan
  <2>6. Held(d, p, b) <= Held(books, p, b)
    BY <2>1, <2>2 DEF Held
  <2>7. d.receipt[p].state = "RECORDED" => p \notin MonthReceipts /\ books.receipt[p].state = "RECORDED"
    BY <1>7, <1>11
  <2>8. b \in MonthBills => Counted(d, p, b) = 0
    BY <2>2, <2>7 DEF Counted, Detached
  <2>9. Counted(books, p, b) = 0 => Counted(d, p, b) = 0
    BY <2>2, <2>7 DEF Counted
  <2>10. ASSUME b \notin MonthBills \cup T
         PROVE  Counted(d, p, b) = Counted(books, p, b)
    <3>1. CASE p \in MonthReceipts
      <4>1. books.share[p][b].held # "active"
        BY <1>2, <2>10, <3>1
      <4>2. d.receipt[p].state = "REVERSED"
        BY <1>7, <1>11, <3>1
      <4> QED
        BY <4>1, <4>2 DEF Counted
    <3>2. CASE p \notin MonthReceipts
      <4>1. ~Detached(p, b)
        BY <2>10, <3>2 DEF Detached
      <4>2. d.share[p][b] = books.share[p][b] /\ d.receipt[p] = books.receipt[p]
        BY <1>7, <1>11, <2>2, <3>2, <4>1
      <4> QED
        BY <4>2 DEF Counted
    <3> QED
      BY <3>1, <3>2
  <2> QED
    BY <2>4, <2>5, <2>6, <2>8, <2>9, <2>10, Zenon
<1>13. RowsOK(d)
  <2>1. \A a \in Bill : d.bill[a].state = "gone" => d.note[a] = 0
    BY <1>4, <1>6, <1>11 DEF RowsOK
  <2>2. \A a \in OrderBill : d.order[a] = "none" => d.bill[a].state = "none"
    <3> SUFFICES ASSUME NEW a \in OrderBill, d.order[a] = "none" PROVE d.bill[a].state = "none"
      OBVIOUS
    <3>1. a \in Bill /\ books.bill[a].state = "none"
      BY <1>4, <1>11, Sizes DEF RowsOK
    <3> QED
      BY <1>6, <1>11, <3>1
  <2> QED
    BY <1>12, <2>1, <2>2 DEF RowsOK
<1>14. ASSUME NEW a \in Bill
       PROVE  /\ BillPlan(books.bill[a], d.bill[a], a = NoBill)
              /\ d.note[a] # books.note[a] => d.bill[a] # books.bill[a] /\ ~IsActive(d, a)
              /\ d.order[a] # books.order[a] => d.order[a] # "none"
  <2>1. CASE a \in MonthBills
    BY <1>6, <1>11, <2>1 DEF BillPlan, IsActive
  <2>2. CASE a \notin MonthBills
    BY <1>6, <1>11, <2>2 DEF BillPlan
  <2> QED
    BY <2>1, <2>2
<1>15. \A p \in Receipt : ReceiptPlan(books.receipt[p], d.receipt[p])
  BY <1>7, <1>11 DEF ReceiptPlan
<1>16. ASSUME NEW p \in Receipt, SpendOK(books, p)
       PROVE  SpendOK(d, p)
  <2>1. d.receipt[p].amount = books.receipt[p].amount
    BY <1>7, <1>11
  <2> QED
    BY <1>4, <1>11, <1>12, <1>16, <2>1, SpendLess
<1>17. ASSUME NEW a \in Bill
       PROVE  /\ a \notin T /\ StatusOK(books, a) => StatusOK(d, a)
              /\ IdleOK(books, a) => IdleOK(d, a)
  <2>1. CASE a \in MonthBills
    <3>1. ~IsActive(d, a)
      BY <1>6, <1>11, <2>1 DEF IsActive
    <3> QED
      BY <1>12, <2>1, <3>1 DEF StatusOK, IdleOK
  <2>2. CASE a \notin MonthBills
    <3>1. d.bill[a] = books.bill[a] /\ d.note[a] = books.note[a]
      BY <1>6, <1>11, <2>2
    <3>2. a \notin T => Alike(books, d, a)
      BY <1>12, <2>2, <3>1 DEF Alike
    <3>3. IdleOK(books, a) => IdleOK(d, a)
      BY <1>12, <3>1 DEF IdleOK, IsActive
    <3> QED
      BY <3>2, <3>3, AlikeClaims
  <2> QED
    BY <2>1, <2>2
<1>18. Fulfils("CleanUpMonth", NoBill, books, d, T)
  BY <1>12, <1>14, <1>15, <1>16, <1>17 DEF Fulfils
<1>19. T \subseteq Bill
  BY <1>2
<1>20. Leads("CleanUpMonth", NoBill, books, d, T)
  BY <1>11, <1>13, <1>14, <1>18, <1>19 DEF Leads
<1>21. \A p \in Receipt : ~(books.receipt[p].state = "none" /\ d.receipt[p] # books.receipt[p])
  BY <1>7, <1>11
<1>22. "CleanUpMonth" \in Ops /\ "CleanUpMonth" # "UpdateInvoice"
  BY DEF Ops
<1> QED
  BY <1>3, <1>20, <1>21, <1>22, SubmitStep DEF Spreads

------------------------------------------------------------------------------
(* The theorems *)

LEMMA NextStep ==
  ASSUME IInv, [Next]_vars
  PROVE  IInv'
<1>1. ASSUME NEW r \in Request, Documents(r)
      PROVE  IInv'
  <2>1. PICK b \in Bill :
          \/ \E total \in Amounts :
               \/ CreateOrder(r, b, total)
               \/ UpdateOrder(r, b, total)
               \/ \E kind \in {"TAX_INVOICE", "PROFORMA"} : CreateInvoice(r, b, kind, total)
               \/ UpdateInvoice(r, b, total)
          \/ DeleteInvoice(r, b)
          \/ DeleteOrder(r, b)
    BY <1>1 DEF Documents
  <2>2. CASE \E total \in Amounts : CreateOrder(r, b, total)
    BY <2>2, CreateOrderStep
  <2>3. CASE \E total \in Amounts : UpdateOrder(r, b, total)
    BY <2>3, UpdateOrderStep
  <2>4. CASE \E total \in Amounts, kind \in {"TAX_INVOICE", "PROFORMA"} :
               CreateInvoice(r, b, kind, total)
    BY <2>4, CreateInvoiceStep
  <2>5. CASE \E total \in Amounts : UpdateInvoice(r, b, total)
    BY <2>5, UpdateInvoiceStep
  <2>6. CASE DeleteInvoice(r, b)
    BY <2>6, DeleteInvoiceStep
  <2>7. CASE DeleteOrder(r, b)
    BY <2>7, DeleteOrderStep
  <2> QED
    BY <2>1, <2>2, <2>3, <2>4, <2>5, <2>6, <2>7
<1>2. ASSUME NEW r \in Request, Payments(r)
      PROVE  IInv'
  <2>1. PICK p \in Receipt :
          \/ \E amount \in Amounts :
               \/ CreatePayment(r, p, amount)
               \/ \E b \in Bill : CreatePaymentForOrder(r, p, amount, b)
               \/ \E b \in Bill, part \in Amounts : CreatePaymentFor(r, p, amount, b, part)
          \/ DeletePayment(r, p)
    BY <1>2 DEF Payments
  <2>2. CASE \E amount \in Amounts :
               \/ CreatePayment(r, p, amount)
               \/ \E b \in Bill : CreatePaymentForOrder(r, p, amount, b)
               \/ \E b \in Bill, part \in Amounts : CreatePaymentFor(r, p, amount, b, part)
    BY <2>2, PaymentsStep
  <2>3. CASE DeletePayment(r, p)
    BY <2>3, DeletePaymentStep
  <2> QED
    BY <2>1, <2>2, <2>3
<1>3. ASSUME NEW r \in Request, CleanUpMonth(r)
      PROVE  IInv'
  BY <1>3, CleanUpMonthStep
<1>4. ASSUME NEW r \in Request, NEW late \in BOOLEAN, Commit(r, late)
      PROVE  IInv'
  BY <1>4, CommitStep
<1>5. ASSUME NEW r \in Request, Fail(r)
      PROVE  IInv'
  BY <1>5, FailStep
<1>6. ASSUME NEW b \in Bill, NEW status \in {"PENDING", "PAID", "VOID"}, UpdateInvoiceStatus(b, status)
      PROVE  IInv'
  BY <1>6, UpdateInvoiceStatusStep
<1>7. ASSUME NEW b \in Bill, NEW effect \in {-1, 1}, CreateNote(b, effect)
      PROVE  IInv'
  BY <1>7, CreateNoteStep
<1>8. ASSUME NEW b \in Bill, CancelOrder(b)
      PROVE  IInv'
  BY <1>8, CancelOrderStep
<1>9. CASE UNCHANGED vars
  <2>1. /\ books' = books /\ job' = job /\ shaky' = shaky /\ crossed' = crossed /\ drift' = drift
    BY <1>9 DEF vars
  <2>2. TypeInv'
    BY <2>1 DEF IInv, TypeInv, TypeOK
  <2>3. Sound'
    BY <2>1 DEF IInv, Sound, Claims
  <2>4. Jobs'
    BY <2>1 DEF IInv, Jobs
  <2> QED
    BY <2>2, <2>3, <2>4 DEF IInv
<1> QED
  BY <1>1, <1>2, <1>3, <1>4, <1>5, <1>6, <1>7, <1>8, <1>9 DEF Next

THEOREM Invariant == Spec => []IInv
<1>1. Init => IInv
  BY InitInv
<1>2. IInv /\ [Next]_vars => IInv'
  BY NextStep
<1> QED
  BY <1>1, <1>2, PTL DEF Spec

(* The tables keep their types whatever requests overlap and fail:         *)
(* TypeOK, for any number of them.                                         *)
THEOREM TypeInvariant == Spec => []TypeOK
<1>1. IInv => TypeOK
  BY DEF IInv, TypeInv
<1> QED
  BY <1>1, Invariant, PTL

(* A payment that was neither re-applied nor spent by two requests at once *)
(* never has more allocated than it is worth: OverAllocationExplained.     *)
THEOREM PaymentsAreNotOverspent == Spec => []OverAllocationExplained
<1>1. IInv => OverAllocationExplained
  <2> SUFFICES ASSUME IInv, NEW p \in Receipt, p \notin shaky
               PROVE  ~(Allocated(books, p) > books.receipt[p].amount)
    BY DEF OverAllocationExplained
  <2>1. books \in Books /\ RowsOK(books) /\ SpendOK(books, p)
    BY DEF IInv, TypeInv, TypeOK, Sound, Claims
  <2> DEFINE f == [b \in Bill |-> Counted(books, p, b)]
             g == [b \in Bill |-> Held(books, p, b)]
  <2>2. \A b \in Bill : f[b] \in Int /\ g[b] \in Int /\ f[b] <= g[b]
    BY <2>1, CountedIsNat
  <2>3. Allocated(books, p) = SumFunctionOnSet(f, Bill) /\ Holding(books, p) = SumFunctionOnSet(g, Bill)
    BY AllocatedIs, HoldingIs
  <2> HIDE DEF f, g
  <2>4. SumFunctionOnSet(f, Bill) <= SumFunctionOnSet(g, Bill)
    BY <2>2, Sizes, SumAtMost
  <2>5. PICK x \in Int, y \in Int, z \in Int :
          x = Allocated(books, p) /\ y = Holding(books, p) /\ z = books.receipt[p].amount
    BY <2>1, AllocatedIsInt, HoldingIsInt, BookRows
  <2>6. x <= y /\ y <= z
    BY <2>1, <2>3, <2>4, <2>5 DEF SpendOK
  <2> QED
    BY <2>5, <2>6
<1> QED
  BY <1>1, Invariant, PTL

(* What is paid on the invoices is what is allocated from the payments.    *)
LEMMA PaidIsAllocated ==
  ASSUME NEW d \in Books, NEW paid, \A b \in Bill : paid[b] = Paid(d, b),
         NEW alloc, \A p \in Receipt : alloc[p] = Allocated(d, p)
  PROVE  SumFunctionOnSet(paid, Bill) = SumFunctionOnSet(alloc, Receipt)
<1> DEFINE h == [b \in Bill |-> [p \in Receipt |-> Counted(d, p, b)]]
           k == [p \in Receipt |-> [b \in Bill |-> Counted(d, p, b)]]
<1>1. Columns(h, k, Bill, Receipt)
  BY CountedIsInt DEF Columns
<1>2. \A b \in Bill : h[b] = [p \in Receipt |-> Counted(d, p, b)]
  OBVIOUS
<1>3. \A p \in Receipt : k[p] = [b \in Bill |-> Counted(d, p, b)]
  OBVIOUS
<1>4. RowSums(paid, h, Bill, Receipt) /\ RowSums(alloc, k, Receipt, Bill)
  BY <1>2, <1>3, PaidIs, AllocatedIs, Zenon DEF RowSums
<1> HIDE DEF h, k
<1> QED
  BY <1>1, <1>4, Sizes, SumSwap

LEMMA SumOfPart ==
  ASSUME NEW S, IsFiniteSet(S), NEW P \in SUBSET S, NEW f, \A x \in S : f[x] \in Int,
         \A x \in S \ P : f[x] = 0, NEW g, g = [x \in P |-> g[x]], \A x \in P : g[x] = f[x]
  PROVE  SumFunction(g) = SumFunctionOnSet(f, S)
<1>1. DOMAIN g = P
  OBVIOUS
<1>2. SumFunction(g) = SumFunctionOnSet(g, P)
  BY <1>1 DEF SumFunction
<1>3. IsFiniteSet(P)
  BY FS_Subset
<1>4. SumFunctionOnSet(g, P) = SumFunctionOnSet(f, P)
  BY <1>3, SumSame
<1>5. SumFunctionOnSet(f, S) = SumFunctionOnSet(f, P)
  BY SumOverPart
<1> QED
  BY <1>2, <1>4, <1>5

LEMMA LedgerAgrees ==
  ASSUME books \in Books, \A b \in Bill : IdleOK(books, b) /\ Ordinary(b)
  PROVE  Ledger = Outstanding - Advance
<1> DEFINE invoices == {b \in Bill : IsActive(books, b) /\ books.bill[b].kind # "PROFORMA"}
           payments == {p \in Receipt : books.receipt[p].state = "RECORDED"}
           totals == [b \in invoices |-> books.bill[b].total]
           amounts == [p \in payments |-> books.receipt[p].amount]
           rests == [p \in payments |-> books.receipt[p].amount - Allocated(books, p)]
           total == [b \in Bill |-> IF b \in invoices THEN books.bill[b].total ELSE 0]
           note == books.note
           paid == [b \in Bill |-> Paid(books, b)]
           needs == [b \in Bill |-> Needs(books, b)]
           amount == [p \in Receipt |-> IF p \in payments THEN books.receipt[p].amount ELSE 0]
           alloc == [p \in Receipt |-> Allocated(books, p)]
           rest == [p \in Receipt |-> IF p \in payments
                                      THEN books.receipt[p].amount - Allocated(books, p) ELSE 0]
<1>1. /\ Ledger = SumFunction(totals) + SumFunction(note) - SumFunction(amounts)
      /\ Outstanding = SumFunction(needs) /\ Advance = SumFunction(rests)
  BY DEF Ledger, Outstanding, Advance
<1>2. ASSUME NEW b \in Bill
      PROVE  /\ total[b] \in Int /\ note[b] \in Int /\ paid[b] \in Int
             /\ needs[b] = total[b] + note[b] - paid[b]
  <2>1. PICK t \in Int, n \in Int, x \in Int :
          t = books.bill[b].total /\ n = books.note[b] /\ x = Paid(books, b)
    BY BookRows, PaidIsInt
  <2>2. Due(books, b) = t + n
    BY <2>1 DEF Due
  <2>3. CASE IsActive(books, b)
    <3>1. Billable(books, b) /\ x <= t + n /\ b \in invoices
      BY <2>1, <2>2, <2>3 DEF Ordinary, Billable
    <3>2. Needs(books, b) = t + n - x
      BY <2>1, <2>2, <3>1 DEF Needs, Positive
    <3>3. total[b] = t /\ note[b] = n /\ paid[b] = x /\ needs[b] = t + n - x
      BY <2>1, <3>1, <3>2
    <3> HIDE DEF invoices, total, note, paid, needs
    <3> QED
      BY <2>1, <3>3
  <2>4. CASE ~IsActive(books, b)
    <3>1. n = 0 /\ \A p \in Receipt : Counted(books, p, b) = 0
      BY <2>1, <2>4 DEF Ordinary, IdleOK
    <3>2. x = 0
      BY <2>1, <3>1, PaidNothing
    <3>3. b \notin invoices /\ Needs(books, b) = 0
      BY <2>4 DEF Needs, Billable
    <3>4. total[b] = 0 /\ note[b] = 0 /\ paid[b] = 0 /\ needs[b] = 0
      BY <2>1, <3>1, <3>2, <3>3
    <3> HIDE DEF invoices, total, note, paid, needs
    <3> QED
      BY <3>4
  <2> QED
    BY <2>3, <2>4
<1>3. ASSUME NEW p \in Receipt
      PROVE  /\ rest[p] \in Int /\ alloc[p] \in Int /\ amount[p] \in Int
             /\ amount[p] = rest[p] + alloc[p]
  <2>1. PICK n \in Int, x \in Int : n = books.receipt[p].amount /\ x = Allocated(books, p)
    BY BookRows, AllocatedIsInt
  <2>2. CASE p \in payments
    BY <2>1, <2>2
  <2>3. CASE p \notin payments
    <3> DEFINE f == [b \in Bill |-> Counted(books, p, b)]
    <3>1. \A b \in Bill : f[b] = 0
      BY <2>3 DEF Counted
    <3>2. Allocated(books, p) = SumFunctionOnSet(f, Bill)
      BY AllocatedIs
    <3> HIDE DEF f
    <3>3. x = 0
      BY <2>1, <3>1, <3>2, Sizes, SumOfZeros
    <3>4. rest[p] = 0 /\ alloc[p] = 0 /\ amount[p] = 0
      BY <2>1, <2>3, <3>3
    <3> HIDE DEF rest, alloc, amount
    <3> QED
      BY <3>4
  <2> QED
    BY <2>2, <2>3
<1>4. /\ DOMAIN needs = Bill /\ DOMAIN note = Bill
      /\ invoices \in SUBSET Bill /\ payments \in SUBSET Receipt
  BY DEF Books
<1>5. /\ totals = [b \in invoices |-> totals[b]] /\ \A b \in invoices : totals[b] = total[b]
      /\ \A b \in Bill \ invoices : total[b] = 0
  BY <1>4
<1>6. /\ amounts = [p \in payments |-> amounts[p]] /\ \A p \in payments : amounts[p] = amount[p]
      /\ rests = [p \in payments |-> rests[p]] /\ \A p \in payments : rests[p] = rest[p]
      /\ \A p \in Receipt \ payments : amount[p] = 0 /\ rest[p] = 0
  BY <1>4
<1>7. /\ \A b \in Bill : paid[b] = Paid(books, b)
      /\ \A p \in Receipt : alloc[p] = Allocated(books, p)
  OBVIOUS
<1> HIDE DEF invoices, payments, totals, amounts, rests, total, note, paid, needs, amount, alloc, rest
<1>8. SumFunction(totals) = SumFunctionOnSet(total, Bill)
  BY <1>2, <1>4, <1>5, Sizes, SumOfPart
<1>9. SumFunction(amounts) = SumFunctionOnSet(amount, Receipt)
  BY <1>3, <1>4, <1>6, Sizes, SumOfPart
<1>10. SumFunction(rests) = SumFunctionOnSet(rest, Receipt)
  BY <1>3, <1>4, <1>6, Sizes, SumOfPart
<1>11. SumFunction(needs) = SumFunctionOnSet(needs, Bill) /\ SumFunction(note) = SumFunctionOnSet(note, Bill)
  BY <1>4 DEF SumFunction
<1>12. Changes(needs, total, note, paid, Bill)
  BY <1>2 DEF Changes
<1>13. SumFunctionOnSet(needs, Bill)
         = SumFunctionOnSet(total, Bill) + SumFunctionOnSet(note, Bill) - SumFunctionOnSet(paid, Bill)
  BY <1>12, Sizes, SumChange
<1>14. AddUp(amount, rest, alloc, Receipt)
  BY <1>3 DEF AddUp
<1>15. SumFunctionOnSet(amount, Receipt) = SumFunctionOnSet(rest, Receipt) + SumFunctionOnSet(alloc, Receipt)
  BY <1>14, Sizes, SumAddUp
<1>16. SumFunctionOnSet(paid, Bill) = SumFunctionOnSet(alloc, Receipt)
  BY <1>7, PaidIsAllocated
<1>17. /\ SumFunctionOnSet(total, Bill) \in Int /\ SumFunctionOnSet(note, Bill) \in Int
       /\ SumFunctionOnSet(paid, Bill) \in Int /\ SumFunctionOnSet(rest, Receipt) \in Int
  BY <1>2, <1>3, Sizes, SumIsInt
<1> DEFINE t == SumFunctionOnSet(total, Bill)
           n == SumFunctionOnSet(note, Bill)
           x == SumFunctionOnSet(paid, Bill)
           y == SumFunctionOnSet(rest, Receipt)
<1>18. /\ t \in Int /\ n \in Int /\ x \in Int /\ y \in Int
       /\ Ledger = t + n - (y + x) /\ Outstanding = t + n - x /\ Advance = y
  BY <1>1, <1>8, <1>9, <1>10, <1>11, <1>13, <1>15, <1>16, <1>17
<1> HIDE DEF t, n, x, y
<1> QED
  BY <1>18

(* An invoice that was not touched by a note, a manual edit or two         *)
(* requests at once has the status that its payments call for:             *)
(* StatusTellsPaid.                                                        *)
THEOREM StatusFollowsPayments == Spec => []StatusTellsPaid
<1>1. IInv => StatusTellsPaid
  BY DEF IInv, Sound, Claims, StatusOK, StatusTellsPaid
<1> QED
  BY <1>1, Invariant, PTL

(* The ledger and the summary of a client come to the same amount, however *)
(* many invoices and payments there are: LedgerAgreesWithSummary.          *)
THEOREM LedgerIsSummary == Spec => []LedgerAgreesWithSummary
<1>1. IInv => LedgerAgreesWithSummary
  <2> SUFFICES ASSUME IInv, crossed = {}, \A b \in Bill : Ordinary(b)
               PROVE  Ledger = Outstanding - Advance
    BY DEF LedgerAgreesWithSummary
  <2>1. books \in Books /\ \A b \in Bill : IdleOK(books, b)
    BY DEF IInv, TypeInv, TypeOK, Sound, Claims
  <2> QED
    BY <2>1, LedgerAgrees
<1> QED
  BY <1>1, Invariant, PTL

------------------------------------------------------------------------------
(* Money is put to use.                                                    *)

(* A commit that nobody overtook leaves the books the request wanted. *)
SameMoney(c, d) ==
  /\ \A p \in Receipt : Free(d, p) = Free(c, p)
  /\ \A b \in Bill : Needs(d, b) = Needs(c, b)

LEMMA NeedsSame ==
  ASSUME NEW c, NEW d, NEW b, d.bill[b].state = c.bill[b].state, d.bill[b].kind = c.bill[b].kind,
         d.bill[b].status = c.bill[b].status, d.bill[b].total = c.bill[b].total,
         IsActive(c, b) => d.note[b] = c.note[b], Paid(d, b) = Paid(c, b)
  PROVE  Needs(d, b) = Needs(c, b)
<1>1. Billable(d, b) <=> Billable(c, b)
  BY DEF Billable, IsActive
<1>2. Billable(c, b) => Due(d, b) = Due(c, b)
  BY DEF Billable, Due
<1> QED
  BY <1>1, <1>2 DEF Needs

LEMMA FreeSame ==
  ASSUME NEW c, NEW d, NEW p, d.receipt[p] = c.receipt[p],
         \A b \in Bill : Counted(d, p, b) = Counted(c, p, b)
  PROVE  Free(d, p) = Free(c, p)
<1>1. [b \in Bill |-> Counted(d, p, b)] = [b \in Bill |-> Counted(c, p, b)]
  OBVIOUS
<1> QED
  BY <1>1 DEF Free, Allocated

LEMMA CommittedAlone ==
  ASSUME NEW j, JobAt(j), books = j.before
  PROVE  SameMoney(j.after, Merged(books, j)) /\ \A b \in j.judged : StatusOK(Merged(books, j), b)
<1>1. PICK m : m = Merged(books, j)
  OBVIOUS
<1>2. \A b \in Bill : ~Moved(j, b)
  BY DEF Moved
<1>3. \A b \in Bill : Alike(j.after, m, b)
  BY <1>1, <1>2, UnmovedMerged
<1>4. \A p \in Receipt : m.receipt[p] = j.after.receipt[p]
  BY <1>1, ReceiptMerged
<1>5. \A p \in Receipt, b \in Bill : Counted(m, p, b) = Counted(j.after, p, b)
  BY <1>3 DEF Alike
<1>6. ASSUME NEW b \in Bill
      PROVE  Needs(m, b) = Needs(j.after, b)
  <2>1. /\ m.bill[b] = j.after.bill[b] /\ Paid(m, b) = Paid(j.after, b)
        /\ IsActive(j.after, b) => m.note[b] = j.after.note[b]
    BY <1>3, PaidSame DEF Alike
  <2> QED
    BY <2>1, NeedsSame
<1>7. \A p \in Receipt : Free(m, p) = Free(j.after, p)
  BY <1>4, <1>5, FreeSame
<1>8. ASSUME NEW b \in j.judged
      PROVE  StatusOK(m, b)
  <2>1. b \in Bill /\ StatusOK(j.after, b)
    BY DEF JobAt, JobType, Plan
  <2> QED
    BY <1>3, <2>1, AlikeClaims
<1> QED
  BY <1>1, <1>6, <1>7, <1>8 DEF SameMoney

(* To work out a status that is right already changes nothing. *)
LEMMA JudgedAgain ==
  ASSUME NEW d \in Books, NEW T \in SUBSET Bill, \A b \in T : StatusOK(d, b)
  PROVE  SameMoney(d, Judge(d, T))
<1>1. PICK e : e = Judge(d, T)
  OBVIOUS
<1>2. /\ e.receipt = d.receipt /\ e.share = d.share /\ e.note = d.note
      /\ \A b \in Bill :
           /\ e.bill[b].state = d.bill[b].state /\ e.bill[b].kind = d.bill[b].kind
           /\ e.bill[b].total = d.bill[b].total
           /\ e.bill[b].status = IF b \in T /\ IsActive(d, b) THEN Verdict(d, b) ELSE d.bill[b].status
  BY <1>1, JudgeIs
<1>3. \A p \in Receipt, b \in Bill : Counted(e, p, b) = Counted(d, p, b)
  BY <1>2 DEF Counted
<1>4. ASSUME NEW b \in Bill
      PROVE  Needs(e, b) = Needs(d, b)
  <2>1. Paid(e, b) = Paid(d, b)
    BY <1>3, PaidSame
  <2>2. e.bill[b].status = d.bill[b].status
    BY <1>2 DEF StatusOK
  <2> QED
    BY <1>2, <2>1, <2>2, NeedsSame
<1>5. \A p \in Receipt : Free(e, p) = Free(d, p)
  BY <1>2, <1>3, FreeSame
<1> QED
  BY <1>1, <1>4, <1>5 DEF SameMoney

LEMMA CommitUses ==
  ASSUME IInv, NEW r \in Request, NEW late \in BOOLEAN, Commit(r, late), books = job[r].before
  PROVE  SameMoney(job[r].after, books')
<1>1. PICK j : j = job[r]
  OBVIOUS
<1>2. PICK m : m = Merged(books, j)
  OBVIOUS
<1>3. JobAt(j) /\ books = j.before
  BY <1>1, JobNow DEF JobAt, Commit
<1>4. books' = IF late THEN Judge(m, j.judged) ELSE m
  BY <1>1, <1>2, Zenon DEF Commit
<1>5. m \in Books /\ j.judged \in SUBSET Bill
  BY <1>2, <1>3, MergedTyped DEF JobAt, JobType
<1>6. SameMoney(j.after, m) /\ \A b \in j.judged : StatusOK(m, b)
  BY <1>2, <1>3, CommittedAlone
<1>7. SameMoney(m, Judge(m, j.judged))
  BY <1>5, <1>6, JudgedAgain
<1> QED
  BY <1>1, <1>4, <1>6, <1>7 DEF SameMoney

(* Only a commit writes the books and ends a request. *)
LEMMA SubmitReads ==
  ASSUME NEW r, NEW op, NEW own, NEW d, NEW T, Submit(r, op, own, d, T)
  PROVE  books' = books
BY DEF Submit

LEMMA NextReads ==
  ASSUME Next, books' # books
  PROVE  (\E r \in Request, late \in BOOLEAN : Commit(r, late)) \/ job' = job
<1>1. ASSUME NEW r \in Request, Documents(r)
      PROVE  books' = books
  <2>1. PICK b \in Bill :
          \/ \E total \in Amounts :
               \/ CreateOrder(r, b, total)
               \/ UpdateOrder(r, b, total)
               \/ \E kind \in {"TAX_INVOICE", "PROFORMA"} : CreateInvoice(r, b, kind, total)
               \/ UpdateInvoice(r, b, total)
          \/ DeleteInvoice(r, b)
          \/ DeleteOrder(r, b)
    BY <1>1 DEF Documents
  <2>2. ASSUME NEW op, NEW a, NEW d, Reconciled(r, op, a, d)
        PROVE  books' = books
    BY <2>2, SubmitReads DEF Reconciled
  <2>3. ASSUME NEW total \in Amounts, CreateOrder(r, b, total)
        PROVE  books' = books
    BY <2>2, <2>3 DEF CreateOrder
  <2>4. ASSUME NEW total \in Amounts, UpdateOrder(r, b, total)
        PROVE  books' = books
    BY <2>2, <2>4 DEF UpdateOrder
  <2>5. ASSUME NEW total \in Amounts, NEW kind, CreateInvoice(r, b, kind, total)
        PROVE  books' = books
    BY <2>5, SubmitReads, Zenon DEF CreateInvoice
  <2>6. ASSUME NEW total \in Amounts, UpdateInvoice(r, b, total)
        PROVE  books' = books
    BY <2>6, SubmitReads, Zenon DEF UpdateInvoice
  <2>7. ASSUME DeleteInvoice(r, b)
        PROVE  books' = books
    BY <2>7, SubmitReads, Zenon DEF DeleteInvoice
  <2>8. ASSUME DeleteOrder(r, b)
        PROVE  books' = books
    BY <2>8, SubmitReads, Zenon DEF DeleteOrder
  <2> QED
    BY <2>1, <2>3, <2>4, <2>5, <2>6, <2>7, <2>8
<1>2. ASSUME NEW r \in Request, Payments(r)
      PROVE  books' = books
  <2>1. PICK p \in Receipt :
          \/ \E amount \in Amounts :
               \/ CreatePayment(r, p, amount)
               \/ \E b \in Bill : CreatePaymentForOrder(r, p, amount, b)
               \/ \E b \in Bill, part \in Amounts : CreatePaymentFor(r, p, amount, b, part)
          \/ DeletePayment(r, p)
    BY <1>2 DEF Payments
  <2>2. ASSUME NEW amount, NEW order, NEW to, NEW part, Received(r, p, amount, order, to, part)
        PROVE  books' = books
    BY <2>2, SubmitReads, Zenon DEF Received
  <2>3. ASSUME DeletePayment(r, p)
        PROVE  books' = books
    BY <2>3, SubmitReads, Zenon DEF DeletePayment
  <2> QED
    BY <2>1, <2>2, <2>3 DEF CreatePayment, CreatePaymentForOrder, CreatePaymentFor
<1>3. ASSUME NEW r \in Request, CleanUpMonth(r)
      PROVE  books' = books
  BY <1>3, SubmitReads, Zenon DEF CleanUpMonth
<1>4. ASSUME NEW r \in Request, Fail(r)
      PROVE  books' = books
  BY <1>4 DEF Fail
<1>5. ASSUME NEW b \in Bill,
             \/ \E status \in {"PENDING", "PAID", "VOID"} : UpdateInvoiceStatus(b, status)
             \/ \E effect \in {-1, 1} : CreateNote(b, effect)
             \/ CancelOrder(b)
      PROVE  job' = job
  BY <1>5, Zenon DEF UpdateInvoiceStatus, CreateNote, CancelOrder, Write
<1> QED
  BY <1>1, <1>2, <1>3, <1>4, <1>5 DEF Next

(* What a request that nobody overtook leaves is put to use.               *)
LEMMA MoneyStep ==
  ASSUME IInv, Next, books' # books, NEW r \in Request,
         job[r].op \in Spreads, job'[r].op = "idle", books = job[r].before
  PROVE  LET open == {b \in Bill : Needs(books', b) > 0}
         IN  /\ \A p \in Receipt : Free(books', p) > 0 => open = {}
             /\ job[r].op # "CreatePayment" =>
                  \A p \in Receipt, b \in Bill, c \in open : Gained(job[r], p, b) => b <= c
<1>1. job[r].op # "idle"
  BY DEF Spreads
<1>2. PICK s \in Request, late \in BOOLEAN : Commit(s, late)
  BY <1>1, NextReads
<1>3. job' = [job EXCEPT ![s] = Idle] /\ job \in [Request -> JobType]
  BY <1>2 DEF Commit, IInv, TypeInv
<1>4. s = r
  BY <1>1, <1>3
<1>5. PICK j : j = job[r]
  OBVIOUS
<1>6. PICK e : e = books'
  OBVIOUS
<1>7. SameMoney(j.after, e)
  BY <1>2, <1>4, <1>5, <1>6, CommitUses
<1>8. Poured(j.op, j.before, j.after)
  BY <1>5, JobNow DEF Plan
<1>9. Open(j.after) = {b \in Bill : Needs(e, b) > 0}
  BY <1>7 DEF Open, SameMoney
<1>10. \A p \in Receipt : Free(e, p) > 0 => Open(j.after) = {}
  BY <1>7, <1>8 DEF SameMoney, Poured
<1>11. j.op # "CreatePayment" =>
         \A p \in Receipt, b \in Bill, c \in Open(j.after) : Gained(j, p, b) => b <= c
  BY <1>8 DEF Poured, Gained
<1> QED
  BY <1>5, <1>6, <1>9, <1>10, <1>11

(* Whatever else has happened to the books of a client: when a request     *)
(* that allocates and that nobody overtook commits, no recorded payment is *)
(* left with money beside an invoice that needs it, be it one that was     *)
(* void until the request, and money did not pass over an older open       *)
(* invoice: MoneyIsPutToUse.                                               *)
THEOREM AllocationUsesMoney == Spec => MoneyIsPutToUse
<1>1. IInv /\ [Next]_vars =>
        [\A r \in Request :
           /\ job[r].op \in Spreads
           /\ job'[r].op = "idle"
           /\ books' # books
           /\ books = job[r].before
           => LET open == {b \in Bill : Needs(books', b) > 0}
              IN  /\ \A p \in Receipt : Free(books', p) > 0 => open = {}
                  /\ job[r].op # "CreatePayment" =>
                       \A p \in Receipt, b \in Bill, c \in open :
                         Gained(job[r], p, b) => b <= c]_vars
  BY MoneyStep
<1> QED
  BY <1>1, Invariant, PTL DEF Spec, MoneyIsPutToUse
===============================================================================
