------------------------ MODULE PurchaseAdvances_proofs ------------------------
(***************************************************************************)
(* What is proved about PurchaseAdvances: that its tables stay well typed, *)
(* and that remaining_amount, paid_amount and the bound on what is paid    *)
(* are right for every advance and purchase that requests took in turns.   *)
(***************************************************************************)
EXTENDS PurchaseAdvances, SumTheorems, TLAPS

(* A payment row: an id that is used carries money. *)
RowOK(row) == IF row.state = "none" THEN row.amount = 0 ELSE row.amount > 0
RowsOK(d) == \A q \in Purchase, s \in Source, n \in Copy : RowOK(d.pay[q][s][n])

(* The payments of a purchase are deleted with it. *)
GoneOK(d) ==
  \A q \in Purchase : d.purchase[q].state = "gone" =>
    \A s \in Source, n \in Copy : d.pay[q][s][n].state \in {"none", "gone"}

(* What of advance a is in purchase q, and comes back if q is deleted. *)
Standing(d, q, a) == IF d.purchase[q].state = "gone" THEN 0 ELSE FromSource(d, q, a)
Committed(d, a) == SumFunction([q \in Purchase |-> Standing(d, q, a)])

(* The claims, of one advance or purchase in the books d. *)
AdvanceOK(d, a) ==
  /\ d.advance[a].remaining = d.advance[a].amount - Committed(d, a)
  /\ d.advance[a].remaining >= 0
  /\ d.advance[a].state = "none" => d.advance[a].amount = 0
SnapshotOK(d, q) ==
  /\ d.purchase[q].state \in {"active", "inactive"} => d.purchase[q].paid = Paid(d, q)
  /\ d.purchase[q].state = "none" => Paid(d, q) = 0
WithinOK(d, q) == IsActive(d, q) => Paid(d, q) <= NetTotal(d, q)

Claims(d) ==
  /\ \A a \in Advance \ shaky : AdvanceOK(d, a)
  /\ \A q \in Purchase \ crossed : SnapshotOK(d, q)
  /\ \A q \in Purchase \ (crossed \cup noted) : WithinOK(d, q)

(***************************************************************************)
(* What a request does between the books it read and the books it wants:   *)
(* which rows it may touch, and that it says so.                           *)
(***************************************************************************)
Holds(j, q) == j.op \in {"UpdatePurchase", "PayMore"} /\ q = j.own
Takes(j, q, s, n) ==
  j.before.pay[q][s][n].state = "none" /\ j.after.pay[q][s][n].state # "none"

PurchasePlan(j, q) ==
  LET b == j.before.purchase[q]
      e == j.after.purchase[q]
  IN  /\ q \notin j.synced => j.after.pay[q] = j.before.pay[q] /\ e.paid = b.paid
      /\ q \in j.synced => e.paid = Paid(j.after, q) /\ e.state \notin {"none", "gone"}
      /\ IF q = j.own THEN q \in j.synced \/ e.state # b.state ELSE e.total = b.total
      /\ b.state = "gone" \/ e.state = "none" => e = b
      /\ Removes(j, q) =>
           \A a \in Advance : FromSource(j.before, q, a) # 0 => ChangesAdvance(j, a)

AdvancePlan(j, a) ==
  j.before.advance[a].state # "none" => j.after.advance[a].amount = j.before.advance[a].amount

RowPlan(j, q, s, n) ==
  LET b == j.before.pay[q][s][n]
      e == j.after.pay[q][s][n]
  IN  b.state # "none" =>
        /\ e.state # "none"
        /\ Holds(j, q) \/ (e.amount = b.amount
                            /\ (e # b /\ s \in Advance => ChangesAdvance(j, s)))

Plan(j) ==
  /\ \A q \in Purchase : PurchasePlan(j, q)
  /\ \A a \in Advance : AdvancePlan(j, a)
  /\ \A q \in Purchase, s \in Source, n \in Copy : RowPlan(j, q, s, n)
  /\ RowsOK(j.before) /\ RowsOK(j.after) /\ GoneOK(j.before)

(* How the plan of a request stands to the books as they are by now. *)
InTouch(j) ==
  /\ \A q \in Purchase, s \in Source, n \in Copy :
       /\ Takes(j, q, s, n) => books.pay[q][s][n].state = "none"
       /\ j.before.pay[q][s][n].state # "none" => books.pay[q][s][n].state # "none"
  /\ \A q \in Purchase : Holds(j, q) => books.pay[q] = j.before.pay[q]
Apart(j, k) ==
  /\ j.own = k.own => j.own = NoPurchase
  /\ \A q \in Purchase, s \in Source, n \in Copy : ~ (Takes(j, q, s, n) /\ Takes(k, q, s, n))

Ops == {"idle", "CreatePurchase", "UpdatePurchase", "PayMore", "CreatePurchasePayment",
        "ReversePurchasePayment", "CreateAdvance", "ReverseAdvance", "DeletePurchase", "CleanUpMonth"}
JobType == [op : Ops, own : Purchase \cup {NoPurchase}, before : Books, after : Books,
            synced : SUBSET Purchase]

Jobs ==
  /\ \A r \in Request : Plan(job[r]) /\ InTouch(job[r]) /\ Claims(job[r].before) /\ Claims(job[r].after)
  /\ \A r, s \in Request : r = s \/ Apart(job[r], job[s])
TypeInv == TypeOK /\ job \in [Request -> JobType]
Sound == RowsOK(books) /\ GoneOK(books) /\ Claims(books)
IInv == TypeInv /\ Sound /\ Jobs

------------------------------------------------------------------------------
(* What is read off books of the right types. *)

LEMMA Sizes ==
  /\ IsFiniteSet(Copy) /\ Copy \subseteq Nat
  /\ IsFiniteSet(Source) /\ Source \subseteq Nat
  /\ Direct \in Source /\ Direct \notin Advance /\ Advance \subseteq Source
  /\ Source \ {Direct} = Advance
  /\ IsFiniteSet(Purchase) /\ Purchase \subseteq Nat
  /\ IsFiniteSet(Advance) /\ Advance \subseteq Nat
<1>1. IsFiniteSet(Copy) /\ Copy \subseteq Nat
  BY SizesAreNat, FS_Interval DEF Copy
<1>2. Direct \notin Advance /\ Direct \in Nat
  BY IdsAreNumbered DEF Direct
<1>3. IsFiniteSet(Source)
  BY TablesAreFinite, FS_AddElement DEF Source
<1> QED
  BY <1>1, <1>2, <1>3, TablesAreFinite, IdsAreNumbered DEF Source

LEMMA RowTyped ==
  ASSUME NEW d \in Books, NEW q \in Purchase, NEW s \in Source, NEW n \in Copy
  PROVE  /\ d.pay[q][s][n] \in PaymentRow
         /\ d.pay[q][s][n].state \in PaymentState /\ d.pay[q][s][n].amount \in Nat
BY DEF Books, PaymentRow

LEMMA RecordedIsNat ==
  ASSUME NEW d \in Books, NEW q \in Purchase, NEW s \in Source, NEW n \in Copy
  PROVE  Recorded(d, q, s, n) \in Nat
BY RowTyped DEF Recorded

LEMMA FromSourceIsNat ==
  ASSUME NEW d \in Books, NEW q \in Purchase, NEW s \in Source
  PROVE  FromSource(d, q, s) \in Nat
<1> DEFINE f == [n \in Copy |-> Recorded(d, q, s, n)]
<1>1. \A n \in Copy : f[n] \in Nat
  BY RecordedIsNat
<1>2. DOMAIN f = Copy
  OBVIOUS
<1>3. FromSource(d, q, s) = SumFunctionOnSet(f, Copy)
  BY <1>2 DEF FromSource, SumFunction
<1> HIDE DEF f
<1> QED
  BY <1>1, <1>3, Sizes, SumIsNat

LEMMA PaidIsNat ==
  ASSUME NEW d \in Books, NEW q \in Purchase
  PROVE  Paid(d, q) \in Nat
<1> DEFINE f == [s \in Source |-> FromSource(d, q, s)]
<1>1. \A s \in Source : f[s] \in Nat
  BY FromSourceIsNat
<1>2. DOMAIN f = Source
  OBVIOUS
<1>3. Paid(d, q) = SumFunctionOnSet(f, Source)
  BY <1>2 DEF Paid, SumFunction
<1> HIDE DEF f
<1> QED
  BY <1>1, <1>3, Sizes, SumIsNat

LEMMA StandingIsNat ==
  ASSUME NEW d \in Books, NEW q \in Purchase, NEW a \in Advance
  PROVE  Standing(d, q, a) \in Nat
BY FromSourceIsNat, Sizes DEF Standing

LEMMA CommittedIs ==
  ASSUME NEW d, NEW a
  PROVE  Committed(d, a) = SumFunctionOnSet([q \in Purchase |-> Standing(d, q, a)], Purchase)
<1> DEFINE f == [q \in Purchase |-> Standing(d, q, a)]
<1>1. DOMAIN f = Purchase
  OBVIOUS
<1> QED
  BY <1>1 DEF Committed, SumFunction

LEMMA CommittedIsNat ==
  ASSUME NEW d \in Books, NEW a \in Advance
  PROVE  Committed(d, a) \in Nat
<1> DEFINE f == [q \in Purchase |-> Standing(d, q, a)]
<1>1. \A q \in Purchase : f[q] \in Nat
  BY StandingIsNat
<1>2. Committed(d, a) = SumFunctionOnSet(f, Purchase)
  BY CommittedIs
<1> HIDE DEF f
<1> QED
  BY <1>1, <1>2, Sizes, SumIsNat

LEMMA TotalsTyped ==
  ASSUME NEW d \in Books, NEW q \in Purchase
  PROVE  /\ d.purchase[q] \in PurchaseRow
         /\ d.purchase[q].state \in {"none", "active", "inactive", "gone"}
         /\ d.purchase[q].total \in Nat /\ d.purchase[q].paid \in Int
         /\ d.purchase[q].note \in Int /\ NetTotal(d, q) \in Int
BY DEF Books, PurchaseRow, NetTotal

LEMMA AdvanceTyped ==
  ASSUME NEW d \in Books, NEW a \in Advance
  PROVE  /\ d.advance[a] \in AdvanceRow
         /\ d.advance[a].state \in {"none", "RECORDED", "REVERSED"}
         /\ d.advance[a].amount \in Nat /\ d.advance[a].remaining \in Int
BY DEF Books, AdvanceRow

------------------------------------------------------------------------------
(* Sums that change row by row. *)

LEMMA SourceSame ==
  ASSUME NEW d, NEW e, NEW q, NEW s, \A n \in Copy : Recorded(e, q, s, n) = Recorded(d, q, s, n)
  PROVE  FromSource(e, q, s) = FromSource(d, q, s)
<1>1. [n \in Copy |-> Recorded(e, q, s, n)] = [n \in Copy |-> Recorded(d, q, s, n)]
  OBVIOUS
<1> QED
  BY <1>1 DEF FromSource

LEMMA PaidSame ==
  ASSUME NEW d, NEW e, NEW q,
         \A s \in Source, n \in Copy : Recorded(e, q, s, n) = Recorded(d, q, s, n)
  PROVE  Paid(e, q) = Paid(d, q)
<1>1. \A s \in Source : FromSource(e, q, s) = FromSource(d, q, s)
  BY SourceSame
<1>2. [s \in Source |-> FromSource(e, q, s)] = [s \in Source |-> FromSource(d, q, s)]
  BY <1>1
<1> QED
  BY <1>2 DEF Paid

LEMMA CommittedSame ==
  ASSUME NEW d, NEW e, NEW a, \A q \in Purchase : Standing(e, q, a) = Standing(d, q, a)
  PROVE  Committed(e, a) = Committed(d, a)
<1>1. [q \in Purchase |-> Standing(e, q, a)] = [q \in Purchase |-> Standing(d, q, a)]
  OBVIOUS
<1> QED
  BY <1>1 DEF Committed

(* m is to now what e is to b, row by row; so are the sums. *)
LEMMA SourceChange ==
  ASSUME NEW m \in Books, NEW now \in Books, NEW e \in Books, NEW b \in Books,
         NEW q \in Purchase, NEW s \in Source,
         \A n \in Copy : Recorded(m, q, s, n)
           = Recorded(now, q, s, n) + Recorded(e, q, s, n) - Recorded(b, q, s, n)
  PROVE  FromSource(m, q, s) = FromSource(now, q, s) + FromSource(e, q, s) - FromSource(b, q, s)
<1> DEFINE h == [n \in Copy |-> Recorded(m, q, s, n)]
           f == [n \in Copy |-> Recorded(now, q, s, n)]
           g == [n \in Copy |-> Recorded(e, q, s, n)]
           k == [n \in Copy |-> Recorded(b, q, s, n)]
<1>1. Changes(h, f, g, k, Copy)
  BY RecordedIsNat DEF Changes
<1>2. DOMAIN h = Copy /\ DOMAIN f = Copy /\ DOMAIN g = Copy /\ DOMAIN k = Copy
  OBVIOUS
<1>3. /\ FromSource(m, q, s) = SumFunctionOnSet(h, Copy)
      /\ FromSource(now, q, s) = SumFunctionOnSet(f, Copy)
      /\ FromSource(e, q, s) = SumFunctionOnSet(g, Copy)
      /\ FromSource(b, q, s) = SumFunctionOnSet(k, Copy)
  BY <1>2 DEF FromSource, SumFunction
<1> HIDE DEF h, f, g, k
<1>4. SumFunctionOnSet(h, Copy)
        = SumFunctionOnSet(f, Copy) + SumFunctionOnSet(g, Copy) - SumFunctionOnSet(k, Copy)
  BY <1>1, Sizes, SumChange
<1> QED
  BY <1>3, <1>4

LEMMA CommittedChange ==
  ASSUME NEW m \in Books, NEW now \in Books, NEW e \in Books, NEW b \in Books, NEW a \in Advance,
         \A q \in Purchase : Standing(m, q, a)
           = Standing(now, q, a) + Standing(e, q, a) - Standing(b, q, a)
  PROVE  Committed(m, a) = Committed(now, a) + Committed(e, a) - Committed(b, a)
<1> DEFINE h == [q \in Purchase |-> Standing(m, q, a)]
           f == [q \in Purchase |-> Standing(now, q, a)]
           g == [q \in Purchase |-> Standing(e, q, a)]
           k == [q \in Purchase |-> Standing(b, q, a)]
<1>1. Changes(h, f, g, k, Purchase)
  BY StandingIsNat DEF Changes
<1>3. /\ Committed(m, a) = SumFunctionOnSet(h, Purchase)
      /\ Committed(now, a) = SumFunctionOnSet(f, Purchase)
      /\ Committed(e, a) = SumFunctionOnSet(g, Purchase)
      /\ Committed(b, a) = SumFunctionOnSet(k, Purchase)
  BY CommittedIs
<1> HIDE DEF h, f, g, k
<1>4. SumFunctionOnSet(h, Purchase)
        = SumFunctionOnSet(f, Purchase) + SumFunctionOnSet(g, Purchase)
            - SumFunctionOnSet(k, Purchase)
  BY <1>1, Sizes, SumChange
<1> QED
  BY <1>3, <1>4

------------------------------------------------------------------------------
(* The end of a transaction, row by row. *)

JobAt(j) ==
  /\ books \in Books /\ RowsOK(books) /\ GoneOK(books)
  /\ j \in JobType /\ Plan(j) /\ InTouch(j)

Payment(j, q, s, n) ==
  MergedPayment(books.pay[q][s][n], j.before.pay[q][s][n], j.after.pay[q][s][n])

(* A payment row is left alone, is as the request found it, or only had    *)
(* its state changed.                                                      *)
LEMMA RowCases ==
  ASSUME NEW j, JobAt(j), NEW q \in Purchase, NEW s \in Source, NEW n \in Copy
  PROVE  LET now == books.pay[q][s][n]
             b == j.before.pay[q][s][n]
             e == j.after.pay[q][s][n]
         IN  \/ e = b /\ Payment(j, q, s, n) = now
             \/ now = b /\ Payment(j, q, s, n) = e
             \/ /\ e # b /\ e.amount = b.amount
                /\ now.state # "none" /\ e.state # "none"
                /\ s \in Advance => ChangesAdvance(j, s)
                /\ Payment(j, q, s, n) = [state |-> e.state, amount |-> now.amount]
<1> DEFINE now == books.pay[q][s][n]
           b == j.before.pay[q][s][n]
           e == j.after.pay[q][s][n]
<1>1. now \in PaymentRow /\ b \in PaymentRow /\ e \in PaymentRow
  BY RowTyped DEF JobAt, JobType
<1>2. RowOK(now) /\ RowOK(b) /\ RowOK(e)
  BY DEF JobAt, Plan, RowsOK
<1>3. RowPlan(j, q, s, n)
  BY DEF JobAt, Plan
<1>4. /\ b.state = "none" /\ e.state # "none" => now.state = "none"
      /\ b.state # "none" => now.state # "none"
  BY DEF JobAt, InTouch, Takes
<1>5. Holds(j, q) => now = b
  BY DEF JobAt, InTouch
<1>6. b.state # "none" =>
        /\ e.state # "none"
        /\ Holds(j, q) \/ (e.amount = b.amount
                            /\ (e # b /\ s \in Advance => ChangesAdvance(j, s)))
  BY <1>3 DEF RowPlan
<1>7. Payment(j, q, s, n) = MergedPayment(now, b, e)
  BY DEF Payment
<1> HIDE DEF now, b, e
<1>8. CASE e = b
  BY <1>1, <1>7, <1>8 DEF MergedPayment, PaymentRow, now, b, e
<1>9. CASE now = b /\ e # b
  BY <1>1, <1>7, <1>9 DEF MergedPayment, PaymentRow, now, b, e
<1>10. CASE e # b /\ now # b
  <2>1. b.state # "none"
    <3> SUFFICES ASSUME b.state = "none" PROVE FALSE
      OBVIOUS
    <3>1. CASE e.state = "none"
      BY <1>1, <1>2, <1>10, <3>1 DEF RowOK, PaymentRow
    <3>2. CASE e.state # "none"
      BY <1>1, <1>2, <1>4, <1>10, <3>2 DEF RowOK, PaymentRow
    <3> QED
      BY <3>1, <3>2
  <2>2. /\ now.state # "none" /\ e.state # "none" /\ e.amount = b.amount
        /\ s \in Advance => ChangesAdvance(j, s)
    BY <1>4, <1>5, <1>6, <1>10, <2>1
  <2>3. e.state # b.state
    BY <1>1, <1>10, <2>2 DEF PaymentRow
  <2>4. MergedPayment(now, b, e) = [state |-> e.state, amount |-> now.amount]
    BY <1>1, <2>2, <2>3 DEF MergedPayment, PaymentRow
  <2> QED
    BY <1>7, <1>10, <2>2, <2>4 DEF now, b, e
<1> QED
  BY <1>8, <1>9, <1>10

LEMMA PaymentTyped ==
  ASSUME NEW j, JobAt(j), NEW q \in Purchase, NEW s \in Source, NEW n \in Copy
  PROVE  Payment(j, q, s, n) \in PaymentRow /\ RowOK(Payment(j, q, s, n))
<1> DEFINE now == books.pay[q][s][n]
           b == j.before.pay[q][s][n]
           e == j.after.pay[q][s][n]
           p == Payment(j, q, s, n)
<1>1. now \in PaymentRow /\ b \in PaymentRow /\ e \in PaymentRow
  BY RowTyped DEF JobAt, JobType
<1>2. RowOK(now) /\ RowOK(b) /\ RowOK(e)
  BY DEF JobAt, Plan, RowsOK
<1>3. \/ p = now
      \/ p = e
      \/ /\ now.state # "none" /\ e.state # "none"
         /\ p = [state |-> e.state, amount |-> now.amount]
  BY RowCases
<1> HIDE DEF now, b, e, p
<1>4. p \in PaymentRow /\ RowOK(p)
  BY <1>1, <1>2, <1>3 DEF PaymentRow, RowOK
<1> QED
  BY <1>4 DEF p

(* The rows of the merged books. *)
LEMMA MergedRows ==
  ASSUME NEW j
  PROVE  LET m == Merged(books, j)
         IN  /\ \A q \in Purchase :
                  m.purchase[q] = MergedPurchase(q, books.purchase[q], j.before.purchase[q],
                                                 j.after.purchase[q], j)
             /\ \A a \in Advance :
                  m.advance[a] = MergedAdvance(books.advance[a], j.before.advance[a],
                                               j.after.advance[a])
             /\ \A q \in Purchase, s \in Source, n \in Copy :
                  m.pay[q][s][n] =
                    IF m.purchase[q].state = "gone" /\ Payment(j, q, s, n).state # "none"
                    THEN [Payment(j, q, s, n) EXCEPT !.state = "gone"]
                    ELSE Payment(j, q, s, n)
BY DEF Merged, Payment

LEMMA MergedRow ==
  ASSUME NEW j, JobAt(j), NEW q \in Purchase, NEW s \in Source, NEW n \in Copy
  PROVE  LET m == Merged(books, j)
             row == m.pay[q][s][n]
         IN  /\ row \in PaymentRow /\ RowOK(row)
             /\ m.purchase[q].state # "gone" => row = Payment(j, q, s, n)
             /\ m.purchase[q].state = "gone" => row.state \in {"none", "gone"}
             /\ row.state = "none" <=> Payment(j, q, s, n).state = "none"
<1> DEFINE m == Merged(books, j)
           p == Payment(j, q, s, n)
           row == m.pay[q][s][n]
<1>1. p \in PaymentRow /\ RowOK(p)
  BY PaymentTyped
<1>2. row = IF m.purchase[q].state = "gone" /\ p.state # "none"
            THEN [p EXCEPT !.state = "gone"] ELSE p
  BY MergedRows
<1> HIDE DEF m, p, row
<1>3. /\ row \in PaymentRow /\ RowOK(row)
      /\ m.purchase[q].state # "gone" => row = p
      /\ m.purchase[q].state = "gone" => row.state \in {"none", "gone"}
      /\ row.state = "none" <=> p.state = "none"
  BY <1>1, <1>2 DEF PaymentRow, PaymentState, RowOK
<1> QED
  BY <1>3 DEF m, p, row

LEMMA MergedPurchaseTyped ==
  ASSUME NEW j, JobAt(j), NEW q \in Purchase
  PROVE  Merged(books, j).purchase[q] \in PurchaseRow
<1> DEFINE now == books.purchase[q]
           b == j.before.purchase[q]
           e == j.after.purchase[q]
<1>1. now \in PurchaseRow /\ b \in PurchaseRow /\ e \in PurchaseRow
  BY TotalsTyped DEF JobAt, JobType
<1>2. Merged(books, j).purchase[q] = MergedPurchase(q, now, b, e, j)
  BY MergedRows
<1> HIDE DEF now, b, e
<1>3. MergedPurchase(q, now, b, e, j) \in PurchaseRow
  BY <1>1 DEF MergedPurchase, PurchaseRow
<1> QED
  BY <1>2, <1>3

LEMMA MergedAdvanceTyped ==
  ASSUME NEW j, JobAt(j), NEW a \in Advance
  PROVE  Merged(books, j).advance[a] \in AdvanceRow
<1> DEFINE now == books.advance[a]
           b == j.before.advance[a]
           e == j.after.advance[a]
<1>1. now \in AdvanceRow /\ b \in AdvanceRow /\ e \in AdvanceRow
  BY AdvanceTyped DEF JobAt, JobType
<1>2. Merged(books, j).advance[a] = MergedAdvance(now, b, e)
  BY MergedRows
<1> HIDE DEF now, b, e
<1>3. MergedAdvance(now, b, e) \in AdvanceRow
  BY <1>1 DEF MergedAdvance, AdvanceRow
<1> QED
  BY <1>2, <1>3

LEMMA MergedTyped ==
  ASSUME NEW j, JobAt(j)
  PROVE  Merged(books, j) \in Books /\ RowsOK(Merged(books, j)) /\ GoneOK(Merged(books, j))
<1> DEFINE m == Merged(books, j)
<1>1. \A q \in Purchase, s \in Source, n \in Copy :
        /\ m.pay[q][s][n] \in PaymentRow /\ RowOK(m.pay[q][s][n])
        /\ m.purchase[q].state = "gone" => m.pay[q][s][n].state \in {"none", "gone"}
  BY MergedRow
<1>2. \A q \in Purchase : m.purchase[q] \in PurchaseRow
  BY MergedPurchaseTyped
<1>3. \A a \in Advance : m.advance[a] \in AdvanceRow
  BY MergedAdvanceTyped
<1> DEFINE f == m.purchase
           g == m.advance
           h == m.pay
<1>4. m = [purchase |-> f, advance |-> g, pay |-> h]
  BY DEF Merged
<1>5. /\ f = [q \in Purchase |-> f[q]]
      /\ g = [a \in Advance |-> g[a]]
      /\ h = [q \in Purchase |-> [s \in Source |-> [n \in Copy |-> h[q][s][n]]]]
  <2>1. f = [q \in Purchase |-> f[q]]
    BY DEF Merged
  <2>2. g = [a \in Advance |-> g[a]]
    BY DEF Merged
  <2>3. h = [q \in Purchase |-> [s \in Source |-> [n \in Copy |-> h[q][s][n]]]]
    <3>1. \A q \in Purchase, s \in Source : h[q][s] = [n \in Copy |-> h[q][s][n]]
      BY DEF Merged
    <3>2. \A q \in Purchase : h[q] = [s \in Source |-> h[q][s]]
      BY DEF Merged
    <3>3. h = [q \in Purchase |-> h[q]]
      BY DEF Merged
    <3> HIDE DEF h
    <3>4. \A q \in Purchase : h[q] = [s \in Source |-> [n \in Copy |-> h[q][s][n]]]
      BY <3>1, <3>2
    <3> QED
      BY <3>3, <3>4
  <2> QED
    BY <2>1, <2>2, <2>3
<1> HIDE DEF m
<1>6. f \in [Purchase -> PurchaseRow] /\ g \in [Advance -> AdvanceRow]
  <2> HIDE DEF f, g, h
  <2>1. (\A q \in Purchase : f[q] \in PurchaseRow) /\ (\A a \in Advance : g[a] \in AdvanceRow)
    BY <1>2, <1>3 DEF f, g
  <2> QED
    BY <1>5, <2>1
<1>7. h \in [Purchase -> [Source -> [Copy -> PaymentRow]]]
  <2>1. \A q \in Purchase, s \in Source, n \in Copy : h[q][s][n] \in PaymentRow
    BY <1>1
  <2> HIDE DEF h
  <2>2. \A q \in Purchase, s \in Source : [n \in Copy |-> h[q][s][n]] \in [Copy -> PaymentRow]
    BY <2>1
  <2>3. \A q \in Purchase :
          [s \in Source |-> [n \in Copy |-> h[q][s][n]]] \in [Source -> [Copy -> PaymentRow]]
    BY <2>2
  <2> QED
    BY <1>5, <2>3
<1>8. m \in Books
  BY <1>4, <1>6, <1>7 DEF Books
<1> QED
  BY <1>1, <1>8 DEF m, RowsOK, GoneOK

------------------------------------------------------------------------------
(* The end of a transaction, for an advance. *)

(* Not one of the advances that Commit marks as worked on by two at once. *)
Clear(j, a) ==
  ~ /\ AdvanceMoved(j, a)
    /\ \/ ChangesAdvance(j, a)
       \/ \E q \in Purchase : Removes(j, q) /\ books.pay[q][a] # j.before.pay[q][a]

LEMMA StateMerged ==
  ASSUME NEW j, NEW q \in Purchase
  PROVE  LET now == books.purchase[q].state
             b == j.before.purchase[q]
             e == j.after.purchase[q]
         IN  Merged(books, j).purchase[q].state =
               IF b.state = "none" THEN (IF e = b THEN now ELSE e.state)
               ELSE IF e.state = b.state THEN now ELSE e.state
<1> DEFINE now == books.purchase[q]
           b == j.before.purchase[q]
           e == j.after.purchase[q]
<1>1. Merged(books, j).purchase[q] = MergedPurchase(q, now, b, e, j)
  BY MergedRows
<1> HIDE DEF now, b, e
<1>2. MergedPurchase(q, now, b, e, j).state =
        IF b.state = "none" THEN (IF e = b THEN now.state ELSE e.state)
        ELSE IF e.state = b.state THEN now.state ELSE e.state
  BY DEF MergedPurchase
<1> QED
  BY <1>1, <1>2 DEF now, b, e

(* A row of a clear advance is left alone, or is as the request found it. *)
LEMMA ClearRow ==
  ASSUME NEW j, JobAt(j), NEW a \in Advance, Clear(j, a), NEW q \in Purchase, NEW n \in Copy
  PROVE  LET now == books.pay[q][a][n]
             b == j.before.pay[q][a][n]
             e == j.after.pay[q][a][n]
         IN  \/ e = b /\ Payment(j, q, a, n) = now
             \/ now = b /\ Payment(j, q, a, n) = e
<1> DEFINE now == books.pay[q][a][n]
           b == j.before.pay[q][a][n]
           e == j.after.pay[q][a][n]
           p == Payment(j, q, a, n)
<1>0. a \in Source
  BY Sizes
<1>1. \/ e = b /\ p = now
      \/ now = b /\ p = e
      \/ /\ e.amount = b.amount /\ ChangesAdvance(j, a)
         /\ p = [state |-> e.state, amount |-> now.amount]
  BY <1>0, RowCases
<1>2. ASSUME e.amount = b.amount, ChangesAdvance(j, a),
             p = [state |-> e.state, amount |-> now.amount]
      PROVE  now = b /\ p = e
  <2>1. now = b
    BY <1>2 DEF Clear, AdvanceMoved
  <2>2. e \in PaymentRow
    BY <1>0, RowTyped DEF JobAt, JobType
  <2> HIDE DEF now, b, e, p
  <2>3. p = e
    BY <1>2, <2>1, <2>2 DEF PaymentRow
  <2> QED
    BY <2>1, <2>3
<1>3. (e = b /\ p = now) \/ (now = b /\ p = e)
  BY <1>1, <1>2
<1> QED
  BY <1>3

LEMMA StandingMerged ==
  ASSUME NEW j, JobAt(j), ~ Broken(j), NEW a \in Advance, Clear(j, a), NEW q \in Purchase
  PROVE  Standing(Merged(books, j), q, a)
           = Standing(books, q, a) + Standing(j.after, q, a) - Standing(j.before, q, a)
<1> DEFINE m == Merged(books, j)
           now == books
           b == j.before
           e == j.after
           gone(d) == d.purchase[q].state = "gone"
<1>1. m \in Books /\ now \in Books /\ b \in Books /\ e \in Books
  BY MergedTyped DEF JobAt, JobType
<1>2. a \in Source
  BY Sizes
<1>3. /\ FromSource(m, q, a) \in Int /\ FromSource(now, q, a) \in Int
      /\ FromSource(b, q, a) \in Int /\ FromSource(e, q, a) \in Int
  BY <1>1, <1>2, FromSourceIsNat
<1>4. PurchasePlan(j, q)
  BY DEF JobAt, Plan
<1>5. b.purchase[q].state = "gone" => e.purchase[q] = b.purchase[q]
  BY <1>4 DEF PurchasePlan
<1>6. now.purchase[q].state = "gone" /\ b.purchase[q].state # "gone" =>
        e.purchase[q] = b.purchase[q] /\ \A n \in Copy : e.pay[q][a][n] = b.pay[q][a][n]
  BY <1>2 DEF Broken, Writes
<1>7. m.purchase[q].state =
        IF b.purchase[q].state = "none"
        THEN (IF e.purchase[q] = b.purchase[q] THEN now.purchase[q].state ELSE e.purchase[q].state)
        ELSE IF e.purchase[q].state = b.purchase[q].state THEN now.purchase[q].state
             ELSE e.purchase[q].state
  BY StateMerged
<1>8. \A n \in Copy :
        \/ e.pay[q][a][n] = b.pay[q][a][n] /\ Payment(j, q, a, n) = now.pay[q][a][n]
        \/ now.pay[q][a][n] = b.pay[q][a][n] /\ Payment(j, q, a, n) = e.pay[q][a][n]
  BY ClearRow
<1>9. ~ gone(m) => \A n \in Copy : m.pay[q][a][n] = Payment(j, q, a, n)
  BY <1>2, MergedRow
<1>10. CASE ~ gone(b) /\ gone(e)
  <2>1. Removes(j, q)
    BY <1>10 DEF Removes
  <2>2. ~ gone(now) /\ gone(m)
    BY <1>6, <1>7, <1>10
  <2>3. now.pay[q][a] = b.pay[q][a] \/ ~ AdvanceMoved(j, a)
    BY <2>1 DEF Clear
  <2>4. now.pay[q][a] = b.pay[q][a]
    BY <2>3 DEF AdvanceMoved
  <2>5. FromSource(now, q, a) = FromSource(b, q, a)
    BY <2>4 DEF FromSource, Recorded
  <2> QED
    BY <1>3, <1>10, <2>2, <2>5 DEF Standing
<1>11. CASE gone(b)
  <2>1. gone(e) /\ (gone(m) <=> gone(now))
    BY <1>5, <1>7, <1>11
  <2>2. ~ gone(now) => FromSource(m, q, a) = FromSource(now, q, a)
    <3> SUFFICES ASSUME ~ gone(now)
                 PROVE  FromSource(m, q, a) = FromSource(now, q, a)
      OBVIOUS
    <3>1. q \notin j.synced
      BY <1>4, <2>1 DEF PurchasePlan
    <3>2. e.pay[q] = b.pay[q]
      BY <1>4, <3>1 DEF PurchasePlan
    <3>3. \A n \in Copy : m.pay[q][a][n] = now.pay[q][a][n]
      BY <1>8, <1>9, <2>1, <3>2
    <3>4. \A n \in Copy : Recorded(m, q, a, n) = Recorded(now, q, a, n)
      BY <3>3 DEF Recorded
    <3> QED
      BY <3>4, SourceSame
  <2> QED
    BY <1>3, <1>11, <2>1, <2>2 DEF Standing
<1>12. CASE ~ gone(b) /\ ~ gone(e) /\ gone(now)
  <2>1. e.purchase[q] = b.purchase[q] /\ \A n \in Copy : e.pay[q][a][n] = b.pay[q][a][n]
    BY <1>6, <1>12
  <2>2. gone(m)
    BY <1>7, <1>12, <2>1
  <2>3. \A n \in Copy : Recorded(e, q, a, n) = Recorded(b, q, a, n)
    BY <2>1 DEF Recorded
  <2>4. FromSource(e, q, a) = FromSource(b, q, a)
    BY <2>3, SourceSame
  <2> QED
    BY <1>3, <1>12, <2>2, <2>4 DEF Standing
<1>13. CASE ~ gone(b) /\ ~ gone(e) /\ ~ gone(now)
  <2>1. ~ gone(m)
    BY <1>7, <1>13
  <2>2. ASSUME NEW n \in Copy
        PROVE  Recorded(m, q, a, n)
                 = Recorded(now, q, a, n) + Recorded(e, q, a, n) - Recorded(b, q, a, n)
    <3>1. \/ e.pay[q][a][n] = b.pay[q][a][n] /\ m.pay[q][a][n] = now.pay[q][a][n]
          \/ now.pay[q][a][n] = b.pay[q][a][n] /\ m.pay[q][a][n] = e.pay[q][a][n]
      BY <1>8, <1>9, <2>1
    <3>2. \/ Recorded(e, q, a, n) = Recorded(b, q, a, n) /\ Recorded(m, q, a, n) = Recorded(now, q, a, n)
          \/ Recorded(now, q, a, n) = Recorded(b, q, a, n) /\ Recorded(m, q, a, n) = Recorded(e, q, a, n)
      BY <3>1 DEF Recorded
    <3>3. /\ Recorded(m, q, a, n) \in Int /\ Recorded(now, q, a, n) \in Int
          /\ Recorded(b, q, a, n) \in Int /\ Recorded(e, q, a, n) \in Int
      BY <1>1, <1>2, RecordedIsNat
    <3> HIDE DEF m, now, b, e
    <3> QED
      BY <3>2, <3>3
  <2>3. FromSource(m, q, a) = FromSource(now, q, a) + FromSource(e, q, a) - FromSource(b, q, a)
    BY <1>1, <1>2, <2>2, SourceChange
  <2> QED
    BY <1>13, <2>1, <2>3 DEF Standing
<1> QED
  BY <1>10, <1>11, <1>12, <1>13

LEMMA AdvanceMerged ==
  ASSUME NEW j, JobAt(j), ~ Broken(j), NEW a \in Advance, Clear(j, a),
         AdvanceOK(books, a), AdvanceOK(j.before, a), AdvanceOK(j.after, a)
  PROVE  AdvanceOK(Merged(books, j), a)
<1> DEFINE m == Merged(books, j)
           now == books.advance[a]
           b == j.before.advance[a]
           e == j.after.advance[a]
           cm == Committed(m, a)
           cn == Committed(books, a)
           cb == Committed(j.before, a)
           ce == Committed(j.after, a)
<1>1. m \in Books /\ books \in Books /\ j.before \in Books /\ j.after \in Books
  BY MergedTyped DEF JobAt, JobType
<1>2. now \in AdvanceRow /\ b \in AdvanceRow /\ e \in AdvanceRow
  BY <1>1, AdvanceTyped
<1>3. cm \in Nat /\ cn \in Nat /\ cb \in Nat /\ ce \in Nat
  BY <1>1, CommittedIsNat
<1>4. cm = cn + ce - cb
  <2>1. \A q \in Purchase : Standing(m, q, a)
          = Standing(books, q, a) + Standing(j.after, q, a) - Standing(j.before, q, a)
    BY StandingMerged
  <2>2. j.after \in Books /\ j.before \in Books
    BY <1>1
  <2> HIDE DEF m
  <2> QED
    BY <1>1, <2>1, CommittedChange
<1>5. m.advance[a] = MergedAdvance(now, b, e)
  BY MergedRows
<1>6. AdvancePlan(j, a)
  BY DEF JobAt, Plan
<1>7. b.state # "none" => e.amount = b.amount
  BY <1>6 DEF AdvancePlan
<1>8. now = b \/ e = b
  BY DEF Clear, AdvanceMoved, ChangesAdvance
<1>9. /\ now.remaining = now.amount - cn /\ now.remaining >= 0
      /\ now.state = "none" => now.amount = 0
      /\ b.remaining = b.amount - cb /\ b.remaining >= 0
      /\ b.state = "none" => b.amount = 0
      /\ e.remaining = e.amount - ce /\ e.remaining >= 0
      /\ e.state = "none" => e.amount = 0
  BY DEF AdvanceOK
<1> HIDE DEF now, b, e, cn, cb, ce
<1>10. LET x == MergedAdvance(now, b, e)
       IN  /\ x.remaining = x.amount - cm
           /\ x.remaining >= 0
           /\ x.state = "none" => x.amount = 0
  <2> HIDE DEF m, cm
  <2>1. CASE e = b
    <3>1. MergedAdvance(now, b, e).amount = now.amount /\ MergedAdvance(now, b, e).state = now.state
      BY <2>1 DEF MergedAdvance
    <3>2. MergedAdvance(now, b, e).remaining = now.remaining
      BY <1>2, <2>1 DEF MergedAdvance, AdvanceRow
    <3>3. ce = cb
      BY <1>2, <1>3, <1>9, <2>1 DEF AdvanceRow
    <3> QED
      BY <1>2, <1>3, <1>4, <1>9, <3>1, <3>2, <3>3 DEF AdvanceRow
  <2>2. CASE now = b /\ e # b
    <3>1. MergedAdvance(now, b, e).remaining = e.remaining
      BY <1>2, <2>2 DEF MergedAdvance, AdvanceRow
    <3>2. MergedAdvance(now, b, e).amount = e.amount
      BY <1>7, <2>2 DEF MergedAdvance
    <3>3. MergedAdvance(now, b, e).state = e.state
      BY <2>2 DEF MergedAdvance
    <3>4. cn = cb
      BY <1>2, <1>3, <1>9, <2>2 DEF AdvanceRow
    <3> QED
      BY <1>2, <1>3, <1>4, <1>9, <3>1, <3>2, <3>3, <3>4 DEF AdvanceRow
  <2> QED
    BY <1>8, <2>1, <2>2
<1> HIDE DEF cm
<1>11. m.advance[a].remaining = m.advance[a].amount - cm /\ m.advance[a].remaining >= 0
       /\ (m.advance[a].state = "none" => m.advance[a].amount = 0)
  <2> HIDE DEF m
  <2> QED
    BY <1>5, <1>10
<1> QED
  BY <1>11 DEF AdvanceOK, cm

------------------------------------------------------------------------------
(* The end of a transaction, for a purchase. *)

LEMMA UntouchedMerged ==
  ASSUME NEW j, JobAt(j), NEW q \in Purchase, q \notin Touched(j)
  PROVE  /\ Merged(books, j).purchase[q] = books.purchase[q]
         /\ \A s \in Source, n \in Copy : Merged(books, j).pay[q][s][n] = books.pay[q][s][n]
<1> DEFINE m == Merged(books, j)
           now == books.purchase[q]
           b == j.before.purchase[q]
           e == j.after.purchase[q]
<1>1. /\ q \notin j.synced /\ e = b
      /\ \A s \in Source, n \in Copy : j.after.pay[q][s][n] = j.before.pay[q][s][n]
  BY DEF Touched, WritesPurchase, Writes
<1>2. PurchasePlan(j, q)
  BY DEF JobAt, Plan
<1>3. q # j.own
  BY <1>1, <1>2 DEF PurchasePlan
<1>4. now \in PurchaseRow /\ b \in PurchaseRow
  BY TotalsTyped DEF JobAt, JobType
<1>5. m.purchase[q] = MergedPurchase(q, now, b, e, j)
  BY MergedRows
<1>6. m.purchase[q] = now
  <2> HIDE DEF m, now, b, e
  <2>1. CASE b.state = "none"
    BY <1>1, <1>5, <2>1 DEF MergedPurchase
  <2>2. CASE b.state # "none"
    <3>1. now.note + e.note - b.note = now.note
      BY <1>1, <1>4 DEF PurchaseRow
    <3>2. MergedPurchase(q, now, b, e, j)
            = [state |-> now.state, total |-> now.total, paid |-> now.paid, note |-> now.note]
      BY <1>1, <1>3, <2>2, <3>1 DEF MergedPurchase
    <3> QED
      BY <1>4, <1>5, <3>2 DEF PurchaseRow
  <2> QED
    BY <2>1, <2>2
<1>7. ASSUME NEW s \in Source, NEW n \in Copy
      PROVE  m.pay[q][s][n] = books.pay[q][s][n]
  <2> DEFINE row == books.pay[q][s][n]
             p == Payment(j, q, s, n)
  <2>1. p = row
    BY <1>1, RowCases
  <2>2. m.pay[q][s][n] = IF m.purchase[q].state = "gone" /\ p.state # "none"
                         THEN [p EXCEPT !.state = "gone"] ELSE p
    BY MergedRows
  <2>3. row \in PaymentRow
    BY RowTyped DEF JobAt
  <2>4. now.state = "gone" => row.state \in {"none", "gone"}
    BY DEF JobAt, GoneOK
  <2>5. m.purchase[q].state = "gone" => row.state \in {"none", "gone"}
    BY <1>6, <2>4
  <2>6. CASE m.purchase[q].state = "gone" /\ row.state = "gone"
    <3> HIDE DEF m, row, p
    <3>1. [row EXCEPT !.state = "gone"] = row
      BY <2>3, <2>6 DEF PaymentRow
    <3>2. m.pay[q][s][n] = row
      BY <2>1, <2>2, <2>6, <3>1
    <3> QED
      BY <3>2 DEF row
  <2>7. CASE m.purchase[q].state # "gone" \/ row.state = "none"
    <3> HIDE DEF m, row, p
    <3>2. m.pay[q][s][n] = row
      BY <2>1, <2>2, <2>7
    <3> QED
      BY <3>2 DEF row
  <2> QED
    BY <2>5, <2>6, <2>7
<1> QED
  BY <1>6, <1>7

LEMMA UnmovedMerged ==
  ASSUME NEW j, JobAt(j), NEW q \in Purchase, ~ Moved(j, q)
  PROVE  /\ Merged(books, j).purchase[q] = j.after.purchase[q]
         /\ j.after.purchase[q].state # "gone" =>
              \A s \in Source, n \in Copy : Merged(books, j).pay[q][s][n] = j.after.pay[q][s][n]
<1> DEFINE m == Merged(books, j)
           now == books.purchase[q]
           b == j.before.purchase[q]
           e == j.after.purchase[q]
<1>1. now = b /\ books.pay[q] = j.before.pay[q]
  BY DEF Moved
<1>2. PurchasePlan(j, q)
  BY DEF JobAt, Plan
<1>3. /\ q \notin j.synced => e.paid = b.paid
      /\ q # j.own => e.total = b.total
      /\ e.state = "none" => e = b
  BY <1>2 DEF PurchasePlan
<1>4. b \in PurchaseRow /\ e \in PurchaseRow
  BY TotalsTyped DEF JobAt, JobType
<1>5. m.purchase[q] = MergedPurchase(q, now, b, e, j)
  BY MergedRows
<1>6. m.purchase[q] = e
  <2> HIDE DEF m, now, b, e
  <2>1. CASE b.state = "none"
    BY <1>1, <1>5, <2>1 DEF MergedPurchase
  <2>2. CASE b.state # "none"
    <3>1. b.note + e.note - b.note = e.note
      BY <1>4 DEF PurchaseRow
    <3>2. MergedPurchase(q, b, b, e, j)
            = [state |-> e.state, total |-> e.total, paid |-> e.paid, note |-> e.note]
      BY <1>3, <2>2, <3>1 DEF MergedPurchase
    <3> QED
      BY <1>1, <1>4, <1>5, <3>2 DEF PurchaseRow
  <2> QED
    BY <2>1, <2>2
<1>7. ASSUME NEW s \in Source, NEW n \in Copy, e.state # "gone"
      PROVE  m.pay[q][s][n] = j.after.pay[q][s][n]
  <2> DEFINE row == books.pay[q][s][n]
             was == j.before.pay[q][s][n]
             to == j.after.pay[q][s][n]
             p == Payment(j, q, s, n)
  <2>1. row = was
    BY <1>1
  <2>2. \/ to = was /\ p = row
        \/ p = to
        \/ to.amount = was.amount /\ p = [state |-> to.state, amount |-> row.amount]
    BY RowCases
  <2>3. to \in PaymentRow
    BY RowTyped DEF JobAt, JobType
  <2>4. m.pay[q][s][n] = p
    BY <1>6, <1>7, MergedRow
  <2>5. p = to
    <3>1. CASE to = was /\ p = row
      BY <2>1, <3>1
    <3>2. CASE to.amount = was.amount /\ p = [state |-> to.state, amount |-> row.amount]
      <4>1. to = [state |-> to.state, amount |-> to.amount]
        BY <2>3 DEF PaymentRow
      <4> HIDE DEF row, was, to, p
      <4> QED
        BY <2>1, <3>2, <4>1
    <3> QED
      BY <2>2, <3>1, <3>2
  <2> QED
    BY <2>4, <2>5
<1> QED
  BY <1>6, <1>7

(* What is read of a purchase depends on its row and its payments only. *)
LEMMA SamePurchase ==
  ASSUME NEW d, NEW e, NEW q \in Purchase,
         e.purchase[q] = d.purchase[q],
         \A s \in Source, n \in Copy : e.pay[q][s][n] = d.pay[q][s][n]
  PROVE  /\ SnapshotOK(d, q) => SnapshotOK(e, q)
         /\ WithinOK(d, q) => WithinOK(e, q)
<1>1. Paid(e, q) = Paid(d, q)
  BY PaidSame DEF Recorded
<1> QED
  BY <1>1 DEF SnapshotOK, WithinOK, NetTotal, IsActive

LEMMA PurchaseMerged ==
  ASSUME NEW j, JobAt(j), NEW q \in Purchase, q \notin {p \in Touched(j) : Moved(j, p)}
  PROVE  /\ SnapshotOK(books, q) /\ SnapshotOK(j.after, q) => SnapshotOK(Merged(books, j), q)
         /\ WithinOK(books, q) /\ WithinOK(j.after, q) => WithinOK(Merged(books, j), q)
<1>1. CASE q \notin Touched(j)
  BY <1>1, UntouchedMerged, SamePurchase
<1>2. CASE ~ Moved(j, q)
  <2>1. Merged(books, j).purchase[q] = j.after.purchase[q]
    BY <1>2, UnmovedMerged
  <2>2. CASE j.after.purchase[q].state = "gone"
    BY <2>1, <2>2 DEF SnapshotOK, WithinOK, IsActive
  <2>3. CASE j.after.purchase[q].state # "gone"
    <3>1. \A s \in Source, n \in Copy :
            Merged(books, j).pay[q][s][n] = j.after.pay[q][s][n]
      BY <1>2, <2>3, UnmovedMerged
    <3> DEFINE m == Merged(books, j)
    <3>2. m.purchase[q] = j.after.purchase[q]
      BY <2>1
    <3>3. \A s \in Source, n \in Copy : m.pay[q][s][n] = j.after.pay[q][s][n]
      BY <3>1
    <3>4. /\ SnapshotOK(j.after, q) => SnapshotOK(m, q)
          /\ WithinOK(j.after, q) => WithinOK(m, q)
      <4> HIDE DEF m
      <4> QED
        BY <3>2, <3>3, SamePurchase
    <3> QED
      BY <3>4
  <2> QED
    BY <2>2, <2>3
<1> QED
  BY <1>1, <1>2

------------------------------------------------------------------------------
(* paid_amount worked out anew *)

LEMMA SyncIs ==
  ASSUME NEW d \in Books, NEW Q
  PROVE  /\ Sync(d, Q) \in Books
         /\ Sync(d, Q).pay = d.pay /\ Sync(d, Q).advance = d.advance
         /\ \A q \in Purchase :
              /\ Sync(d, Q).purchase[q].state = d.purchase[q].state
              /\ Sync(d, Q).purchase[q].total = d.purchase[q].total
              /\ Sync(d, Q).purchase[q].note = d.purchase[q].note
              /\ Sync(d, Q).purchase[q].paid = IF q \in Q THEN Paid(d, q) ELSE d.purchase[q].paid
              /\ q \notin Q => Sync(d, Q).purchase[q] = d.purchase[q]
<1> DEFINE f == [q \in Purchase |->
                   IF q \in Q THEN [d.purchase[q] EXCEPT !.paid = Paid(d, q)] ELSE d.purchase[q]]
<1>1. d = [purchase |-> d.purchase, advance |-> d.advance, pay |-> d.pay]
  BY DEF Books
<1>2. Sync(d, Q) = [purchase |-> f, advance |-> d.advance, pay |-> d.pay]
  BY <1>1 DEF Sync
<1>3. ASSUME NEW q \in Purchase
      PROVE  /\ f[q] \in PurchaseRow
             /\ f[q].state = d.purchase[q].state /\ f[q].total = d.purchase[q].total
             /\ f[q].note = d.purchase[q].note
             /\ f[q].paid = IF q \in Q THEN Paid(d, q) ELSE d.purchase[q].paid
             /\ q \notin Q => f[q] = d.purchase[q]
  <2>1. d.purchase[q] \in PurchaseRow /\ Paid(d, q) \in Int
    BY TotalsTyped, PaidIsNat
  <2> QED
    BY <2>1 DEF PurchaseRow
<1>4. f \in [Purchase -> PurchaseRow]
  BY <1>3
<1>5. d.advance \in [Advance -> AdvanceRow] /\ d.pay \in [Purchase -> [Source -> [Copy -> PaymentRow]]]
  BY DEF Books
<1> HIDE DEF f
<1>6. Sync(d, Q) \in Books
  BY <1>2, <1>4, <1>5 DEF Books
<1> QED
  BY <1>2, <1>3, <1>6

(* Books with the same payments of the same purchases read the same. *)
LEMMA SameReads ==
  ASSUME NEW d, NEW e, e.pay = d.pay,
         \A q \in Purchase : e.purchase[q].state = d.purchase[q].state
  PROVE  /\ \A q \in Purchase : Paid(e, q) = Paid(d, q) /\ (IsActive(e, q) <=> IsActive(d, q))
         /\ \A q \in Purchase, s \in Source : FromSource(e, q, s) = FromSource(d, q, s)
         /\ \A a \in Advance : Committed(e, a) = Committed(d, a)
<1>1. \A q \in Purchase, s \in Source, n \in Copy : Recorded(e, q, s, n) = Recorded(d, q, s, n)
  BY DEF Recorded
<1>2. \A q \in Purchase, s \in Source : FromSource(e, q, s) = FromSource(d, q, s)
  BY <1>1, SourceSame
<1>3. \A q \in Purchase : Paid(e, q) = Paid(d, q)
  BY <1>1, PaidSame
<1>4. \A q \in Purchase, a \in Advance : Standing(e, q, a) = Standing(d, q, a)
  BY <1>2, Sizes DEF Standing
<1>5. \A a \in Advance : Committed(e, a) = Committed(d, a)
  BY <1>4, CommittedSame
<1> QED
  BY <1>2, <1>3, <1>5 DEF IsActive

LEMMA SyncKeeps ==
  ASSUME NEW d \in Books, NEW Q
  PROVE  /\ RowsOK(d) => RowsOK(Sync(d, Q))
         /\ GoneOK(d) => GoneOK(Sync(d, Q))
         /\ \A a \in Advance : AdvanceOK(d, a) => AdvanceOK(Sync(d, Q), a)
         /\ \A q \in Purchase : SnapshotOK(d, q) => SnapshotOK(Sync(d, Q), q)
         /\ \A q \in Purchase : WithinOK(d, q) => WithinOK(Sync(d, Q), q)
<1> DEFINE e == Sync(d, Q)
<1>1. /\ e.pay = d.pay /\ e.advance = d.advance
      /\ \A q \in Purchase : /\ e.purchase[q].state = d.purchase[q].state
                             /\ e.purchase[q].total = d.purchase[q].total
                             /\ e.purchase[q].note = d.purchase[q].note
                             /\ e.purchase[q].paid = IF q \in Q THEN Paid(d, q) ELSE d.purchase[q].paid
  BY SyncIs
<1> HIDE DEF e
<1>2. /\ \A q \in Purchase : /\ Paid(e, q) = Paid(d, q) /\ NetTotal(e, q) = NetTotal(d, q)
                             /\ IsActive(e, q) <=> IsActive(d, q)
      /\ \A a \in Advance : Committed(e, a) = Committed(d, a)
  BY <1>1, SameReads DEF NetTotal
<1>3. /\ RowsOK(d) => RowsOK(e)
      /\ GoneOK(d) => GoneOK(e)
  BY <1>1 DEF RowsOK, GoneOK
<1>4. \A a \in Advance : AdvanceOK(d, a) => AdvanceOK(e, a)
  BY <1>1, <1>2 DEF AdvanceOK
<1>5. \A q \in Purchase : SnapshotOK(d, q) => SnapshotOK(e, q)
  BY <1>1, <1>2 DEF SnapshotOK
<1>6. \A q \in Purchase : WithinOK(d, q) => WithinOK(e, q)
  BY <1>2 DEF WithinOK
<1> QED
  BY <1>3, <1>4, <1>5, <1>6 DEF e

------------------------------------------------------------------------------
(* A request that does nothing, on empty books. *)

LEMMA EmptyIs ==
  /\ EmptyBooks \in Books
  /\ \A q \in Purchase : EmptyBooks.purchase[q].state = "none"
  /\ \A a \in Advance : EmptyBooks.advance[a].state = "none"
                        /\ EmptyBooks.advance[a].amount = 0 /\ EmptyBooks.advance[a].remaining = 0
  /\ \A q \in Purchase, s \in Source, n \in Copy : EmptyBooks.pay[q][s][n] = NoPayment
<1> DEFINE f == [q \in Purchase |-> [state |-> "none", total |-> 0, paid |-> 0, note |-> 0]]
           g == [a \in Advance |-> [state |-> "none", amount |-> 0, remaining |-> 0]]
           h == [q \in Purchase |-> [s \in Source |-> [n \in Copy |-> NoPayment]]]
<1>1. EmptyBooks = [purchase |-> f, advance |-> g, pay |-> h]
  BY DEF EmptyBooks
<1>2. f \in [Purchase -> PurchaseRow] /\ g \in [Advance -> AdvanceRow]
  BY DEF PurchaseRow, AdvanceRow
<1>3. NoPayment \in PaymentRow
  BY DEF NoPayment, PaymentRow, PaymentState
<1>4. h \in [Purchase -> [Source -> [Copy -> PaymentRow]]]
  BY <1>3
<1>5. EmptyBooks \in Books
  <2> HIDE DEF f, g, h
  <2> QED
    BY <1>1, <1>2, <1>4 DEF Books
<1> QED
  BY <1>1, <1>5

LEMMA EmptyClaims ==
  /\ RowsOK(EmptyBooks) /\ GoneOK(EmptyBooks)
  /\ \A a \in Advance : AdvanceOK(EmptyBooks, a)
  /\ \A q \in Purchase : SnapshotOK(EmptyBooks, q) /\ WithinOK(EmptyBooks, q)
<1>1. \A q \in Purchase, s \in Source, n \in Copy : Recorded(EmptyBooks, q, s, n) = 0
  BY EmptyIs DEF Recorded, NoPayment
<1>2. ASSUME NEW q \in Purchase, NEW s \in Source
      PROVE  FromSource(EmptyBooks, q, s) = 0
  <2> DEFINE f == [n \in Copy |-> Recorded(EmptyBooks, q, s, n)]
  <2>1. \A n \in Copy : f[n] = 0
    BY <1>1
  <2>2. DOMAIN f = Copy
    OBVIOUS
  <2>3. FromSource(EmptyBooks, q, s) = SumFunctionOnSet(f, Copy)
    BY <2>2 DEF FromSource, SumFunction
  <2> HIDE DEF f
  <2> QED
    BY <2>1, <2>3, Sizes, SumOfZeros
<1>3. ASSUME NEW q \in Purchase
      PROVE  Paid(EmptyBooks, q) = 0
  <2> DEFINE f == [s \in Source |-> FromSource(EmptyBooks, q, s)]
  <2>1. \A s \in Source : f[s] = 0
    BY <1>2
  <2>2. DOMAIN f = Source
    OBVIOUS
  <2>3. Paid(EmptyBooks, q) = SumFunctionOnSet(f, Source)
    BY <2>2 DEF Paid, SumFunction
  <2> HIDE DEF f
  <2> QED
    BY <2>1, <2>3, Sizes, SumOfZeros
<1>4. ASSUME NEW a \in Advance
      PROVE  Committed(EmptyBooks, a) = 0
  <2> DEFINE f == [q \in Purchase |-> Standing(EmptyBooks, q, a)]
  <2>1. \A q \in Purchase : f[q] = 0
    BY <1>2, Sizes DEF Standing
  <2>2. Committed(EmptyBooks, a) = SumFunctionOnSet(f, Purchase)
    BY CommittedIs
  <2> HIDE DEF f
  <2> QED
    BY <2>1, <2>2, Sizes, SumOfZeros
<1>5. RowsOK(EmptyBooks) /\ GoneOK(EmptyBooks)
  BY EmptyIs DEF RowsOK, GoneOK, RowOK, NoPayment
<1>6. \A a \in Advance : AdvanceOK(EmptyBooks, a)
  BY <1>4, EmptyIs DEF AdvanceOK
<1>7. \A q \in Purchase : SnapshotOK(EmptyBooks, q) /\ WithinOK(EmptyBooks, q)
  BY <1>3, EmptyIs DEF SnapshotOK, WithinOK, IsActive
<1> QED
  BY <1>5, <1>6, <1>7

LEMMA IdlePlans ==
  /\ Idle \in JobType /\ Plan(Idle)
  /\ \A j : Apart(Idle, j) /\ Apart(j, Idle)
  /\ InTouch(Idle)
<1>1. /\ Idle.op = "idle" /\ Idle.own = NoPurchase /\ Idle.before = EmptyBooks
      /\ Idle.after = EmptyBooks /\ Idle.synced = {}
  BY DEF Idle
<1>2. Idle \in JobType
  <2>1. EmptyBooks \in Books
    BY EmptyIs
  <2>2. [op |-> "idle", own |-> NoPurchase, before |-> EmptyBooks,
         after |-> EmptyBooks, synced |-> {}] \in JobType
    <3> HIDE DEF EmptyBooks, Books
    <3> QED
      BY <2>1 DEF JobType, Ops
  <2> QED
    BY <2>2 DEF Idle
<1>3. /\ \A q \in Purchase, s \in Source, n \in Copy :
           EmptyBooks.pay[q][s][n].state = "none" /\ EmptyBooks.pay[q][s][n].amount = 0
      /\ \A q \in Purchase : EmptyBooks.purchase[q].state = "none"
      /\ \A a \in Advance : EmptyBooks.advance[a].state = "none"
  BY EmptyIs DEF NoPayment
<1>4. \A q \in Purchase : PurchasePlan(Idle, q)
  BY <1>1, <1>3, NoneIsNone DEF PurchasePlan, Removes
<1>5. \A a \in Advance : AdvancePlan(Idle, a)
  BY <1>1 DEF AdvancePlan
<1>6. \A q \in Purchase, s \in Source, n \in Copy : RowPlan(Idle, q, s, n)
  BY <1>1, <1>3 DEF RowPlan
<1>7. Plan(Idle)
  BY <1>1, <1>4, <1>5, <1>6, EmptyClaims DEF Plan
<1>8. \A q \in Purchase, s \in Source, n \in Copy : ~ Takes(Idle, q, s, n)
  BY <1>1, <1>3 DEF Takes
<1>9. InTouch(Idle)
  BY <1>1, <1>3, <1>8 DEF InTouch, Holds
<1> QED
  BY <1>1, <1>2, <1>7, <1>8, <1>9 DEF Apart

------------------------------------------------------------------------------
(* Commit keeps the invariant. *)

LEMMA JobsAt ==
  ASSUME IInv, NEW r \in Request
  PROVE  JobAt(job[r]) /\ Claims(job[r].before) /\ Claims(job[r].after)
BY DEF IInv, TypeInv, TypeOK, Sound, Jobs, JobAt

LEMMA CommittedBooks ==
  ASSUME IInv, NEW r \in Request, NEW late \in BOOLEAN, Commit(r, late)
  PROVE  /\ books' \in Books /\ RowsOK(books') /\ GoneOK(books')
         /\ books'.pay = Merged(books, job[r]).pay
         /\ Claims(books)'
<1> DEFINE j == job[r]
           m == Merged(books, j)
<1>1. JobAt(j) /\ Claims(j.before) /\ Claims(j.after) /\ Claims(books)
  BY JobsAt DEF IInv, Sound
<1>2. m \in Books /\ RowsOK(m) /\ GoneOK(m)
  BY <1>1, MergedTyped
<1>3. /\ ~ Broken(j)
      /\ books' = IF late THEN Sync(m, j.synced) ELSE m
      /\ noted' = noted
  BY DEF Commit
<1>4. /\ books' \in Books /\ RowsOK(books') /\ GoneOK(books') /\ books'.pay = m.pay
      /\ \A a \in Advance : AdvanceOK(m, a) => AdvanceOK(books', a)
      /\ \A q \in Purchase : SnapshotOK(m, q) => SnapshotOK(books', q)
      /\ \A q \in Purchase : WithinOK(m, q) => WithinOK(books', q)
  <2> HIDE DEF m
  <2>1. CASE late
    BY <1>2, <1>3, <2>1, SyncIs, SyncKeeps
  <2>2. CASE ~ late
    BY <1>2, <1>3, <2>2
  <2> QED
    BY <2>1, <2>2
<1>5. /\ shaky \subseteq shaky' /\ crossed \subseteq crossed'
      /\ \A a \in Advance : a \notin shaky' => Clear(j, a)
      /\ \A q \in Purchase : q \notin crossed' => q \notin {p \in Touched(j) : Moved(j, p)}
  BY DEF Commit, Clear
<1>6. ASSUME NEW a \in Advance \ shaky'
      PROVE  AdvanceOK(books', a)
  <2>1. Clear(j, a) /\ a \in Advance \ shaky
    BY <1>5
  <2>2. AdvanceOK(books, a) /\ AdvanceOK(j.before, a) /\ AdvanceOK(j.after, a)
    BY <1>1, <2>1 DEF Claims
  <2>3. AdvanceOK(m, a)
    BY <1>1, <1>3, <2>1, <2>2, AdvanceMerged
  <2> QED
    BY <1>4, <2>3
<1>7. ASSUME NEW q \in Purchase \ crossed'
      PROVE  SnapshotOK(books', q)
  <2>1. q \notin {p \in Touched(j) : Moved(j, p)} /\ q \in Purchase \ crossed
    BY <1>5
  <2>2. SnapshotOK(books, q) /\ SnapshotOK(j.after, q)
    BY <1>1, <2>1 DEF Claims
  <2>3. SnapshotOK(m, q)
    BY <1>1, <2>1, <2>2, PurchaseMerged
  <2> QED
    BY <1>4, <2>3
<1>8. ASSUME NEW q \in Purchase \ (crossed' \cup noted')
      PROVE  WithinOK(books', q)
  <2>1. q \notin {p \in Touched(j) : Moved(j, p)} /\ q \in Purchase \ (crossed \cup noted)
    BY <1>3, <1>5
  <2>2. WithinOK(books, q) /\ WithinOK(j.after, q)
    BY <1>1, <2>1 DEF Claims
  <2>3. WithinOK(m, q)
    BY <1>1, <2>1, <2>2, PurchaseMerged
  <2> QED
    BY <1>4, <2>3
<1>9. Claims(books)'
  BY <1>6, <1>7, <1>8 DEF Claims
<1> QED
  BY <1>4, <1>9

(* The other requests are in touch with the books that it leaves. *)
LEMMA OthersInTouch ==
  ASSUME IInv, NEW r \in Request, NEW late \in BOOLEAN, Commit(r, late),
         NEW k, k \in JobType, Plan(k), InTouch(k), Apart(job[r], k),
         \E s \in Request : k = job[s]
  PROVE  InTouch(k)'
<1> DEFINE j == job[r]
           m == Merged(books, j)
<1>1. JobAt(j)
  BY JobsAt
<1>2. books'.pay = m.pay /\ books' \in Books /\ m \in Books
  BY <1>1, CommittedBooks, MergedTyped
<1>3. ASSUME NEW q \in Purchase, NEW s \in Source, NEW n \in Copy
      PROVE  /\ Takes(k, q, s, n) => books'.pay[q][s][n].state = "none"
             /\ k.before.pay[q][s][n].state # "none" => books'.pay[q][s][n].state # "none"
  <2> DEFINE now == books.pay[q][s][n]
             b == j.before.pay[q][s][n]
             e == j.after.pay[q][s][n]
             p == Payment(j, q, s, n)
  <2>1. \/ e = b /\ p = now
        \/ now = b /\ p = e
        \/ /\ now.state # "none" /\ e.state # "none"
           /\ p = [state |-> e.state, amount |-> now.amount]
    BY <1>1, RowCases
  <2>2. b.state # "none" => e.state # "none"
    BY <1>1 DEF JobAt, Plan, RowPlan
  <2>3. Takes(k, q, s, n) => now.state = "none" /\ ~ (b.state = "none" /\ e.state # "none")
    BY DEF InTouch, Apart, Takes
  <2>4. k.before.pay[q][s][n].state # "none" => now.state # "none"
    BY DEF InTouch
  <2>5. books'.pay[q][s][n].state = "none" <=> p.state = "none"
    BY <1>1, <1>2, MergedRow
  <2> HIDE DEF now, b, e, p
  <2> QED
    BY <2>1, <2>2, <2>3, <2>4, <2>5
<1>4. ASSUME NEW q \in Purchase, Holds(k, q)
      PROVE  books'.pay[q] = k.before.pay[q]
  <2>1. q \in Purchase \ {j.own} /\ Locked(q)
    BY <1>4, NoneIsNone DEF Holds, Locked, Apart
  <2>2. ~ WritesPurchase(j, q)
    BY <2>1 DEF Commit
  <2>3. PurchasePlan(j, q)
    BY <1>1 DEF JobAt, Plan
  <2>4. q \notin Touched(j)
    BY <2>2, <2>3 DEF WritesPurchase, PurchasePlan, Touched, Writes
  <2>5. \A s \in Source, n \in Copy : m.pay[q][s][n] = books.pay[q][s][n]
    BY <1>1, <2>4, UntouchedMerged
  <2>6. m.pay[q] = books.pay[q]
    <3>1. m.pay[q] \in [Source -> [Copy -> PaymentRow]] /\ books.pay[q] \in [Source -> [Copy -> PaymentRow]]
      BY <1>1, <1>2 DEF Books, JobAt
    <3> HIDE DEF m
    <3>2. \A s \in Source : m.pay[q][s] = books.pay[q][s]
      BY <2>5, <3>1
    <3> QED
      BY <3>1, <3>2
  <2>7. books.pay[q] = k.before.pay[q]
    BY <1>4 DEF InTouch
  <2> QED
    BY <1>2, <2>6, <2>7
<1> QED
  BY <1>3, <1>4 DEF InTouch

LEMMA ClaimsGrow ==
  ASSUME NEW d, Claims(d), shaky \subseteq shaky', crossed \subseteq crossed', noted \subseteq noted'
  PROVE  /\ \A a \in Advance \ shaky' : AdvanceOK(d, a)
         /\ \A q \in Purchase \ crossed' : SnapshotOK(d, q)
         /\ \A q \in Purchase \ (crossed' \cup noted') : WithinOK(d, q)
BY DEF Claims

(* Claims about books that do not change, when the excuses grow. *)
LEMMA JobClaimsGrow ==
  ASSUME NEW s, job[s]' = job[s], Claims(job[s].before), Claims(job[s].after),
         shaky \subseteq shaky', crossed \subseteq crossed', noted \subseteq noted'
  PROVE  Claims(job[s].before)' /\ Claims(job[s].after)'
BY ClaimsGrow DEF Claims

LEMMA EmptyClaimed ==
  Claims(EmptyBooks) /\ Claims(EmptyBooks)'
BY EmptyClaims DEF Claims

(* A request that ends is idle again. *)
LEMMA Ended ==
  ASSUME IInv, NEW r \in Request, job' = [job EXCEPT ![r] = Idle],
         shaky \subseteq shaky', crossed \subseteq crossed', noted \subseteq noted',
         \A s \in Request \ {r} : InTouch(job[s])',
         InTouch(Idle)'
  PROVE  Jobs' /\ job' \in [Request -> JobType]
<1>1. /\ \A s \in Request \ {r} : job'[s] = job[s]
      /\ job'[r] = Idle /\ job' \in [Request -> JobType]
  BY IdlePlans DEF IInv, TypeInv
<1>2. \A s \in Request : Plan(job[s]) /\ Claims(job[s].before) /\ Claims(job[s].after)
  BY DEF IInv, Jobs
<1>3. ASSUME NEW s \in Request
      PROVE  Plan(job[s])' /\ InTouch(job[s])' /\ Claims(job[s].before)' /\ Claims(job[s].after)'
  <2>1. CASE s = r
    <3>1. job'[s] = Idle /\ job'[s].before = EmptyBooks /\ job'[s].after = EmptyBooks
      BY <1>1, <2>1 DEF Idle
    <3>2. Plan(job'[s])
      BY <3>1, IdlePlans
    <3>3. Claims(job[s].before)' /\ Claims(job[s].after)'
      BY <3>1, EmptyClaims DEF Claims
    <3>4. InTouch(job[s])'
      BY <3>1 DEF InTouch
    <3> QED
      BY <3>2, <3>3, <3>4 DEF Plan
  <2>2. CASE s # r
    <3>1. job'[s] = job[s]
      BY <1>1, <2>2
    <3> QED
      BY <1>2, <2>2, <3>1, JobClaimsGrow
  <2> QED
    BY <2>1, <2>2
<1>4. ASSUME NEW s \in Request, NEW t \in Request, s # t
      PROVE  Apart(job'[s], job'[t])
  BY <1>1, <1>4, IdlePlans DEF IInv, Jobs
<1> QED
  BY <1>1, <1>3, <1>4 DEF Jobs

LEMMA CommitStep ==
  ASSUME IInv, NEW r \in Request, NEW late \in BOOLEAN, Commit(r, late)
  PROVE  IInv'
<1>1. /\ books' \in Books /\ RowsOK(books') /\ GoneOK(books') /\ Claims(books)'
  BY CommittedBooks
<1>2. /\ job' = [job EXCEPT ![r] = Idle] /\ noted' = noted
      /\ shaky \subseteq shaky' /\ crossed \subseteq crossed'
      /\ shaky' \subseteq Advance /\ crossed' \subseteq Purchase /\ noted' \subseteq Purchase
  BY DEF Commit, IInv, TypeInv, TypeOK, Touched
<1>3. \A s \in Request \ {r} : InTouch(job[s])'
  <2> SUFFICES ASSUME NEW s \in Request \ {r}
               PROVE  InTouch(job[s])'
    OBVIOUS
  <2>1. job[s] \in JobType /\ Plan(job[s]) /\ InTouch(job[s]) /\ Apart(job[r], job[s])
    BY DEF IInv, TypeInv, Jobs
  <2>2. PICK k : k = job[s]
    OBVIOUS
  <2>3. InTouch(k)'
    BY <2>1, <2>2, OthersInTouch
  <2>4. job'[s] = k
    BY <1>2, <2>2 DEF IInv, TypeInv
  <2> QED
    BY <2>3, <2>4
<1>4. InTouch(Idle)'
  BY EmptyIs, NoneIsNone DEF InTouch, Takes, Holds, Idle, NoPayment
<1>5. Jobs' /\ job' \in [Request -> JobType]
  BY <1>2, <1>3, <1>4, Ended
<1>6. TypeInv'
  BY <1>1, <1>2, <1>5 DEF TypeInv, TypeOK, JobType
<1> QED
  BY <1>1, <1>5, <1>6 DEF IInv, Sound

(* A rollback or the end of the process leaves the books alone. *)
LEMMA FailStep ==
  ASSUME IInv, NEW r \in Request, Fail(r)
  PROVE  IInv'
<1>1. /\ job' = [job EXCEPT ![r] = Idle] /\ books' = books
      /\ shaky' = shaky /\ crossed' = crossed /\ noted' = noted
  BY DEF Fail
<1>2. \A s \in Request \ {r} : InTouch(job[s])'
  <2> SUFFICES ASSUME NEW s \in Request \ {r}
               PROVE  InTouch(job[s])'
    OBVIOUS
  <2>1. InTouch(job[s]) /\ job'[s] = job[s]
    BY <1>1 DEF IInv, TypeInv, Jobs
  <2> QED
    BY <1>1, <2>1 DEF InTouch
<1>3. InTouch(Idle)'
  BY <1>1, IdlePlans DEF InTouch
<1>4. Jobs' /\ job' \in [Request -> JobType]
  BY <1>1, <1>2, <1>3, Ended
<1>5. Sound'
  BY <1>1 DEF IInv, Sound, Claims
<1>6. TypeInv'
  BY <1>1, <1>4 DEF IInv, TypeInv, TypeOK, JobType
<1> QED
  BY <1>4, <1>5, <1>6 DEF IInv

(* A note changes what a purchase may be paid, and says so if that is less. *)
LEMMA NoteStep ==
  ASSUME IInv, NEW q \in Purchase, NEW effect \in {-1, 1}, CreateNote(q, effect)
  PROVE  IInv'
<1>1. /\ books' = [books EXCEPT !.purchase[q].note = @ + effect]
      /\ noted' = IF effect < 0 THEN noted \cup {q} ELSE noted
      /\ job' = job /\ shaky' = shaky /\ crossed' = crossed
  BY DEF CreateNote
<1>2. books \in Books /\ RowsOK(books) /\ GoneOK(books) /\ Claims(books)
  BY DEF IInv, TypeInv, TypeOK, Sound
<1>3. /\ books'.pay = books.pay /\ books'.advance = books.advance
      /\ \A p \in Purchase :
           /\ books'.purchase[p].state = books.purchase[p].state
           /\ books'.purchase[p].total = books.purchase[p].total
           /\ books'.purchase[p].paid = books.purchase[p].paid
           /\ books'.purchase[p].note = books.purchase[p].note + IF p = q THEN effect ELSE 0
  BY <1>1, <1>2, TotalsTyped DEF Books, PurchaseRow
<1>4. books' \in Books
  <2>1. [books.purchase[q] EXCEPT !.note = @ + effect] \in PurchaseRow
    BY <1>2, TotalsTyped DEF PurchaseRow
  <2>2. books' = [books EXCEPT !.purchase[q] = [books.purchase[q] EXCEPT !.note = @ + effect]]
    BY <1>1
  <2> QED
    BY <1>2, <2>1, <2>2 DEF Books
<1>5. /\ \A p \in Purchase : /\ Paid(books', p) = Paid(books, p)
                             /\ IsActive(books', p) <=> IsActive(books, p)
      /\ \A a \in Advance : Committed(books', a) = Committed(books, a)
  <2>1. PICK e : e = books'
    OBVIOUS
  <2>2. e.pay = books.pay /\ \A p \in Purchase : e.purchase[p].state = books.purchase[p].state
    BY <1>3, <2>1
  <2>3. /\ \A p \in Purchase : Paid(e, p) = Paid(books, p) /\ (IsActive(e, p) <=> IsActive(books, p))
        /\ \A a \in Advance : Committed(e, a) = Committed(books, a)
    BY <2>2, SameReads
  <2> QED
    BY <2>1, <2>3
<1>6. RowsOK(books') /\ GoneOK(books')
  BY <1>2, <1>3 DEF RowsOK, GoneOK
<1>7. \A a \in Advance : AdvanceOK(books, a) => AdvanceOK(books', a)
  BY <1>3, <1>5 DEF AdvanceOK
<1>8. \A p \in Purchase : SnapshotOK(books, p) => SnapshotOK(books', p)
  BY <1>3, <1>5 DEF SnapshotOK
<1>9. ASSUME NEW p \in Purchase \ (crossed \cup noted')
      PROVE  WithinOK(books', p)
  <2>1. p \notin noted /\ (p = q => effect = 1)
    BY <1>1, <1>9
  <2>2. WithinOK(books, p)
    BY <1>2, <2>1 DEF Claims
  <2>3. Paid(books, p) \in Nat /\ NetTotal(books, p) \in Int
    BY <1>2, PaidIsNat, TotalsTyped
  <2>4. NetTotal(books', p) >= NetTotal(books, p)
    <3>1. NetTotal(books', p) = books.purchase[p].total + (books.purchase[p].note + IF p = q THEN effect ELSE 0)
      BY <1>3 DEF NetTotal
    <3>2. books.purchase[p].total \in Int /\ books.purchase[p].note \in Int
      BY <1>2, TotalsTyped
    <3> QED
      BY <2>1, <3>1, <3>2 DEF NetTotal
  <2>5. NetTotal(books', p) \in Int
    BY <1>4, TotalsTyped
  <2> QED
    BY <1>5, <2>2, <2>3, <2>4, <2>5 DEF WithinOK
<1>10. Claims(books)'
  BY <1>1, <1>2, <1>7, <1>8, <1>9 DEF Claims
<1>11. noted \subseteq noted' /\ noted' \subseteq Purchase
  BY <1>1 DEF IInv, TypeInv, TypeOK
<1>12. Jobs'
  <2>1. ASSUME NEW s \in Request
        PROVE  Plan(job[s])' /\ InTouch(job[s])' /\ Claims(job[s].before)' /\ Claims(job[s].after)'
    <3>1. Plan(job[s]) /\ InTouch(job[s]) /\ Claims(job[s].before) /\ Claims(job[s].after)
      BY DEF IInv, Jobs
    <3>2. job[s]' = job[s]
      BY <1>1
    <3>3. Claims(job[s].before)' /\ Claims(job[s].after)'
      BY <1>1, <1>11, <3>1, <3>2, JobClaimsGrow
    <3> QED
      BY <1>1, <1>3, <3>1, <3>2, <3>3 DEF InTouch
  <2>2. \A s, t \in Request : s = t \/ Apart(job[s], job[t])'
    BY <1>1 DEF IInv, Jobs
  <2> QED
    BY <2>1, <2>2 DEF Jobs
<1>13. TypeInv'
  BY <1>1, <1>4, <1>11 DEF IInv, TypeInv, TypeOK
<1> QED
  BY <1>4, <1>6, <1>10, <1>12, <1>13 DEF IInv, Sound

LEMMA InitInv == Init => IInv
<1> SUFFICES ASSUME Init
             PROVE  IInv
  OBVIOUS
<1>1. /\ books = EmptyBooks /\ job = [r \in Request |-> Idle]
      /\ shaky = {} /\ crossed = {} /\ noted = {}
  BY DEF Init
<1>2. Claims(EmptyBooks)
  BY EmptyClaims DEF Claims
<1>3. Sound
  BY <1>1, <1>2, EmptyClaims DEF Sound
<1>4. \A r \in Request : job[r] = Idle /\ Idle.before = EmptyBooks /\ Idle.after = EmptyBooks
  BY <1>1 DEF Idle
<1>5. TypeInv
  BY <1>1, <1>4, EmptyIs, IdlePlans DEF TypeInv, TypeOK
<1>6. Jobs
  BY <1>2, <1>4, IdlePlans DEF Jobs
<1> QED
  BY <1>3, <1>5, <1>6 DEF IInv

------------------------------------------------------------------------------
(* What the automatic application of advances does. *)

Given(d, a) == SumFunction([b \in {b \in Advance : b < a} |-> Free(d, b)])
Filled(d, q) == SumFunction([p \in {p \in Purchase : p < q} |-> Needs(d, p)])

LEMMA NeedsIsNat ==
  ASSUME NEW d \in Books, NEW q \in Purchase
  PROVE  Needs(d, q) \in Nat
BY PaidIsNat, TotalsTyped DEF Needs, Positive

LEMMA FreeIsNat ==
  ASSUME NEW d \in Books, NEW a \in Advance
  PROVE  Free(d, a) \in Nat
BY AdvanceTyped DEF Free, Positive

LEMMA GivenIs ==
  ASSUME NEW d \in Books, NEW a \in Advance
  PROVE  /\ Given(d, a) = SumFunctionOnSet([b \in Advance |-> Free(d, b)],
                                           Before(Smaller(Advance), Advance, a))
         /\ Given(d, a) \in Nat
<1> DEFINE f == [b \in Advance |-> Free(d, b)]
<1>1. f = [b \in Advance |-> f[b]] /\ \A b \in Advance : f[b] \in Nat
  BY FreeIsNat
<1>2. Given(d, a) = SumFunction([b \in {b \in Advance : b < a} |-> f[b]])
  BY DEF Given
<1> HIDE DEF f
<1>3. /\ SumFunction([b \in {b \in Advance : b < a} |-> f[b]])
           = SumFunctionOnSet(f, Before(Smaller(Advance), Advance, a))
      /\ SumFunction([b \in {b \in Advance : b < a} |-> f[b]]) \in Nat
  BY <1>1, Sizes, SumBefore
<1> QED
  BY <1>2, <1>3 DEF f

LEMMA FilledIs ==
  ASSUME NEW d \in Books, NEW q \in Purchase
  PROVE  /\ Filled(d, q) = SumFunctionOnSet([p \in Purchase |-> Needs(d, p)],
                                            Before(Smaller(Purchase), Purchase, q))
         /\ Filled(d, q) \in Nat
<1> DEFINE f == [p \in Purchase |-> Needs(d, p)]
<1>1. f = [p \in Purchase |-> f[p]] /\ \A p \in Purchase : f[p] \in Nat
  BY NeedsIsNat
<1>2. Filled(d, q) = SumFunction([p \in {p \in Purchase : p < q} |-> f[p]])
  BY DEF Filled
<1> HIDE DEF f
<1>3. /\ SumFunction([p \in {p \in Purchase : p < q} |-> f[p]])
           = SumFunctionOnSet(f, Before(Smaller(Purchase), Purchase, q))
      /\ SumFunction([p \in {p \in Purchase : p < q} |-> f[p]]) \in Nat
  BY <1>1, Sizes, SumBefore
<1> QED
  BY <1>2, <1>3 DEF f

(* A flow is the overlap of two intervals, seen from either side. *)
LEMMA FlowIs ==
  ASSUME NEW d \in Books, NEW a \in Advance, NEW q \in Purchase
  PROVE  /\ Flow(d, a, q) = Overlap(Given(d, a), Given(d, a) + Free(d, a), Filled(d, q), Needs(d, q))
         /\ Flow(d, a, q) = Overlap(Filled(d, q), Filled(d, q) + Needs(d, q), Given(d, a), Free(d, a))
         /\ Flow(d, a, q) \in Nat
         /\ Needs(d, q) = 0 \/ Free(d, a) = 0 => Flow(d, a, q) = 0
<1> DEFINE g == Given(d, a)
           f == Free(d, a)
           l == Filled(d, q)
           n == Needs(d, q)
<1>1. g \in Nat /\ f \in Nat /\ l \in Nat /\ n \in Nat
  BY GivenIs, FilledIs, FreeIsNat, NeedsIsNat
<1>2. Flow(d, a, q) = Positive(Least(g + f, l + n) - Most(g, l))
  BY DEF Flow, Given, Filled
<1> HIDE DEF g, f, l, n
<1>3. LET x == Positive(Least(g + f, l + n) - Most(g, l))
      IN  /\ x = Overlap(g, g + f, l, n) /\ x = Overlap(l, l + n, g, f)
          /\ x \in Nat
          /\ n = 0 \/ f = 0 => x = 0
  BY <1>1 DEF Positive, Least, Most, Overlap, Higher, Lower
<1> QED
  BY <1>2, <1>3 DEF g, f, l, n

(* An advance gives at most what is free of it ... *)
FlowFrom(d, a) == SumFunctionOnSet([q \in Purchase |-> Flow(d, a, q)], Purchase)
LEMMA FlowFromBound ==
  ASSUME NEW d \in Books, NEW a \in Advance
  PROVE  FlowFrom(d, a) \in Nat /\ FlowFrom(d, a) <= Free(d, a)
<1> DEFINE f == [q \in Purchase |-> Needs(d, q)]
           g == [q \in Purchase |-> Flow(d, a, q)]
           less == Smaller(Purchase)
           lo == Given(d, a)
           hi == lo + Free(d, a)
<1>1. lo \in Nat /\ Free(d, a) \in Nat
  BY GivenIs, FreeIsNat
<1>2. hi \in Nat /\ lo <= hi
  BY <1>1
<1>3. \A q \in Purchase : f[q] \in Nat /\ g[q] \in Nat
  BY NeedsIsNat, FlowIs
<1>4. \A q \in Purchase :
        g[q] = Overlap(lo, hi, SumFunctionOnSet(f, Before(less, Purchase, q)), f[q])
  BY FlowIs, FilledIs
<1>5. IsOrder(less, Purchase) /\ IsFiniteSet(Purchase)
  BY Sizes, SmallerOrders
<1>6. FlowFrom(d, a) = SumFunctionOnSet(g, Purchase)
  BY DEF FlowFrom
<1> HIDE DEF f, g, less, lo, hi
<1>7. SumFunctionOnSet(g, Purchase) = Higher(0, Lower(hi, SumFunctionOnSet(f, Purchase)) - lo)
  BY <1>1, <1>2, <1>3, <1>4, <1>5, SumOverlap
<1>8. SumFunctionOnSet(f, Purchase) \in Nat /\ SumFunctionOnSet(g, Purchase) \in Nat
  BY <1>3, <1>5, SumIsNat
<1> DEFINE total == SumFunctionOnSet(f, Purchase)
<1> HIDE DEF total
<1>9. Higher(0, Lower(hi, total) - lo) <= hi - lo
  BY <1>1, <1>2, <1>8 DEF Higher, Lower, total
<1>10. hi - lo = Free(d, a)
  BY <1>1 DEF hi
<1> QED
  BY <1>6, <1>7, <1>8, <1>9, <1>10 DEF total

(* ... and a purchase takes at most what it needs. *)
FlowInto(d, q) == SumFunctionOnSet([a \in Advance |-> Flow(d, a, q)], Advance)
LEMMA FlowIntoBound ==
  ASSUME NEW d \in Books, NEW q \in Purchase
  PROVE  FlowInto(d, q) \in Nat /\ FlowInto(d, q) <= Needs(d, q)
<1> DEFINE f == [a \in Advance |-> Free(d, a)]
           g == [a \in Advance |-> Flow(d, a, q)]
           less == Smaller(Advance)
           lo == Filled(d, q)
           hi == lo + Needs(d, q)
<1>1. lo \in Nat /\ Needs(d, q) \in Nat
  BY FilledIs, NeedsIsNat
<1>2. hi \in Nat /\ lo <= hi
  BY <1>1
<1>3. \A a \in Advance : f[a] \in Nat /\ g[a] \in Nat
  BY FreeIsNat, FlowIs
<1>4. \A a \in Advance :
        g[a] = Overlap(lo, hi, SumFunctionOnSet(f, Before(less, Advance, a)), f[a])
  BY FlowIs, GivenIs
<1>5. IsOrder(less, Advance) /\ IsFiniteSet(Advance)
  BY Sizes, SmallerOrders
<1>6. FlowInto(d, q) = SumFunctionOnSet(g, Advance)
  BY DEF FlowInto
<1> HIDE DEF f, g, less, lo, hi
<1>7. SumFunctionOnSet(g, Advance) = Higher(0, Lower(hi, SumFunctionOnSet(f, Advance)) - lo)
  BY <1>1, <1>2, <1>3, <1>4, <1>5, SumOverlap
<1>8. SumFunctionOnSet(f, Advance) \in Nat /\ SumFunctionOnSet(g, Advance) \in Nat
  BY <1>3, <1>5, SumIsNat
<1> DEFINE total == SumFunctionOnSet(f, Advance)
<1> HIDE DEF total
<1>9. Higher(0, Lower(hi, total) - lo) <= hi - lo
  BY <1>1, <1>2, <1>8 DEF Higher, Lower, total
<1>10. hi - lo = Needs(d, q)
  BY <1>1 DEF hi
<1> QED
  BY <1>6, <1>7, <1>8, <1>9, <1>10 DEF total

(* A payment for each flow, and the advance that much smaller. *)
CanApply(d) ==
  \A q \in Purchase, a \in Advance : Flow(d, a, q) > 0 => Unused(d, q, a) # {}
FlowOf(d, q, s) == IF s = Direct THEN 0 ELSE Flow(d, s, q)

LEMMA BooksWith ==
  ASSUME NEW d \in Books, NEW y, NEW v
  PROVE  [d EXCEPT !.pay = y, !.advance = v] = [purchase |-> d.purchase, advance |-> v, pay |-> y]
<1>1. d = [purchase |-> d.purchase, advance |-> d.advance, pay |-> d.pay]
  BY DEF Books
<1>2. [d EXCEPT !.pay = y] = [purchase |-> d.purchase, advance |-> d.advance, pay |-> y]
  BY <1>1
<1>3. PICK e : e = [d EXCEPT !.pay = y]
  OBVIOUS
<1>4. e = [purchase |-> d.purchase, advance |-> d.advance, pay |-> y]
  BY <1>2, <1>3, Zenon
<1>5. [e EXCEPT !.advance = v] = [purchase |-> d.purchase, advance |-> v, pay |-> y]
  BY <1>4
<1>6. [d EXCEPT !.pay = y, !.advance = v] = [e EXCEPT !.advance = v]
  BY <1>3, Zenon
<1> QED
  BY <1>5, <1>6, Zenon

LEMMA AutoApplyIs ==
  ASSUME NEW d \in Books
  PROVE  LET e == AutoApply(d, Flows(d))
         IN  /\ e = [purchase |-> d.purchase,
                     advance |-> [a \in Advance |-> GivenBack(d.advance[a], -FlowFrom(d, a))],
                     pay |-> [q \in Purchase |-> [s \in Source |->
                        IF FlowOf(d, q, s) > 0
                        THEN [d.pay[q][s] EXCEPT ![Fresh(d, q, s)] =
                                [state |-> "RECORDED", amount |-> FlowOf(d, q, s)]]
                        ELSE d.pay[q][s]]]]
<1> DEFINE flow == Flows(d)
           pay == [q \in Purchase |-> [s \in Source |->
                    IF s # Direct /\ flow[q][s] > 0
                    THEN [d.pay[q][s] EXCEPT ![Fresh(d, q, s)] =
                            [state |-> "RECORDED", amount |-> flow[q][s]]]
                    ELSE d.pay[q][s]]]
           advance == [a \in Advance |->
                    GivenBack(d.advance[a], -SumFunction([q \in Purchase |-> flow[q][a]]))]
<1>1. AutoApply(d, flow) = [d EXCEPT !.pay = pay, !.advance = advance]
  <2> HIDE DEF flow
  <2> QED
    BY Zenon DEF AutoApply
<1>2. \A q \in Purchase, a \in Advance : flow[q][a] = Flow(d, a, q)
  BY DEF Flows
<1>3. \A a \in Advance : SumFunction([q \in Purchase |-> flow[q][a]]) = FlowFrom(d, a)
  <2> TAKE a \in Advance
  <2>1. [q \in Purchase |-> flow[q][a]] = [q \in Purchase |-> Flow(d, a, q)]
    BY <1>2
  <2>2. DOMAIN [q \in Purchase |-> Flow(d, a, q)] = Purchase
    OBVIOUS
  <2> QED
    BY <2>1, <2>2 DEF FlowFrom, SumFunction
<1>4. advance = [a \in Advance |-> GivenBack(d.advance[a], -FlowFrom(d, a))]
  BY <1>3
<1>5. \A q \in Purchase, s \in Source :
        IF FlowOf(d, q, s) > 0 THEN s # Direct /\ flow[q][s] > 0 /\ flow[q][s] = FlowOf(d, q, s)
        ELSE ~ (s # Direct /\ flow[q][s] > 0)
  <2> TAKE q \in Purchase, s \in Source
  <2>1. CASE s = Direct
    BY <2>1 DEF FlowOf
  <2>2. CASE s # Direct
    BY <1>2, <2>2, Sizes DEF FlowOf
  <2> QED
    BY <2>1, <2>2
<1>6. pay = [q \in Purchase |-> [s \in Source |->
               IF FlowOf(d, q, s) > 0
               THEN [d.pay[q][s] EXCEPT ![Fresh(d, q, s)] =
                       [state |-> "RECORDED", amount |-> FlowOf(d, q, s)]]
               ELSE d.pay[q][s]]]
  <2> HIDE DEF flow
  <2>1. ASSUME NEW q \in Purchase, NEW s \in Source
        PROVE  (IF s # Direct /\ flow[q][s] > 0
                THEN [d.pay[q][s] EXCEPT ![Fresh(d, q, s)] =
                        [state |-> "RECORDED", amount |-> flow[q][s]]]
                ELSE d.pay[q][s])
               = IF FlowOf(d, q, s) > 0
                 THEN [d.pay[q][s] EXCEPT ![Fresh(d, q, s)] =
                         [state |-> "RECORDED", amount |-> FlowOf(d, q, s)]]
                 ELSE d.pay[q][s]
    BY <1>5
  <2> QED
    BY <2>1
<1> HIDE DEF pay, advance
<1>7. [d EXCEPT !.pay = pay, !.advance = advance]
        = [purchase |-> d.purchase, advance |-> advance, pay |-> pay]
  BY BooksWith
<1> QED
  BY <1>1, <1>4, <1>6, <1>7

LEMMA AutoApplied ==
  ASSUME NEW d \in Books, CanApply(d)
  PROVE  LET e == AutoApply(d, Flows(d))
         IN  /\ e \in Books /\ e.purchase = d.purchase
             /\ \A a \in Advance :
                  /\ e.advance[a].state = d.advance[a].state
                  /\ e.advance[a].amount = d.advance[a].amount
                  /\ e.advance[a].remaining = d.advance[a].remaining - FlowFrom(d, a)
             /\ \A q \in Purchase, s \in Source :
                  IF FlowOf(d, q, s) > 0
                  THEN /\ Fresh(d, q, s) \in Unused(d, q, s)
                       /\ e.pay[q][s][Fresh(d, q, s)] =
                            [state |-> "RECORDED", amount |-> FlowOf(d, q, s)]
                       /\ \A n \in Copy \ {Fresh(d, q, s)} : e.pay[q][s][n] = d.pay[q][s][n]
                  ELSE e.pay[q][s] = d.pay[q][s]
<1> DEFINE e == AutoApply(d, Flows(d))
           advance == [a \in Advance |-> GivenBack(d.advance[a], -FlowFrom(d, a))]
           row(q, s) == IF FlowOf(d, q, s) > 0
                        THEN [d.pay[q][s] EXCEPT ![Fresh(d, q, s)] =
                                [state |-> "RECORDED", amount |-> FlowOf(d, q, s)]]
                        ELSE d.pay[q][s]
           pay == [q \in Purchase |-> [s \in Source |-> row(q, s)]]
<1>1. e = [purchase |-> d.purchase, advance |-> advance, pay |-> pay]
  BY AutoApplyIs
<1>2. \A q \in Purchase, s \in Source : FlowOf(d, q, s) \in Nat
  BY Sizes, FlowIs DEF FlowOf
<1>3. \A q \in Purchase, s \in Source :
        FlowOf(d, q, s) > 0 => Fresh(d, q, s) \in Unused(d, q, s) /\ Fresh(d, q, s) \in Copy
  <2> SUFFICES ASSUME NEW q \in Purchase, NEW s \in Source, FlowOf(d, q, s) > 0
               PROVE  Fresh(d, q, s) \in Unused(d, q, s) /\ Fresh(d, q, s) \in Copy
    OBVIOUS
  <2>1. s # Direct
    BY DEF FlowOf
  <2>2. Unused(d, q, s) # {}
    BY <2>1, Sizes DEF FlowOf, CanApply
  <2>3. Fresh(d, q, s) \in Unused(d, q, s)
    BY <2>2 DEF Fresh
  <2> QED
    BY <2>3 DEF Unused
<1>4. ASSUME NEW q \in Purchase, NEW s \in Source
      PROVE  /\ row(q, s) \in [Copy -> PaymentRow]
             /\ IF FlowOf(d, q, s) > 0
                THEN /\ row(q, s)[Fresh(d, q, s)] =
                          [state |-> "RECORDED", amount |-> FlowOf(d, q, s)]
                     /\ \A n \in Copy \ {Fresh(d, q, s)} : row(q, s)[n] = d.pay[q][s][n]
                ELSE row(q, s) = d.pay[q][s]
  <2>1. d.pay[q][s] \in [Copy -> PaymentRow]
    BY DEF Books
  <2>2. [state |-> "RECORDED", amount |-> FlowOf(d, q, s)] \in PaymentRow
    BY <1>2 DEF PaymentRow, PaymentState
  <2> QED
    BY <1>3, <2>1, <2>2
<1>5. ASSUME NEW a \in Advance
      PROVE  /\ advance[a] \in AdvanceRow
             /\ advance[a].state = d.advance[a].state
             /\ advance[a].amount = d.advance[a].amount
             /\ advance[a].remaining = d.advance[a].remaining - FlowFrom(d, a)
  BY AdvanceTyped, FlowFromBound DEF AdvanceRow, GivenBack
<1>6. d.purchase \in [Purchase -> PurchaseRow]
  BY DEF Books
<1> HIDE DEF row
<1>7. pay \in [Purchase -> [Source -> [Copy -> PaymentRow]]]
  BY <1>4
<1>8. advance \in [Advance -> AdvanceRow]
  BY <1>5
<1>9. \A q \in Purchase, s \in Source : pay[q][s] = row(q, s)
  OBVIOUS
<1> HIDE DEF pay, advance, e
<1>10. e \in Books /\ e.purchase = d.purchase /\ e.advance = advance /\ e.pay = pay
  BY <1>1, <1>6, <1>7, <1>8 DEF Books
<1>11. \A q \in Purchase, s \in Source :
         IF FlowOf(d, q, s) > 0
         THEN /\ Fresh(d, q, s) \in Unused(d, q, s)
              /\ e.pay[q][s][Fresh(d, q, s)] = [state |-> "RECORDED", amount |-> FlowOf(d, q, s)]
              /\ \A n \in Copy \ {Fresh(d, q, s)} : e.pay[q][s][n] = d.pay[q][s][n]
         ELSE e.pay[q][s] = d.pay[q][s]
  BY <1>3, <1>4, <1>9, <1>10
<1> QED
  BY <1>5, <1>10, <1>11 DEF e

(* One payment changes: so does what comes from its source. *)
LEMMA SourceExcept ==
  ASSUME NEW d \in Books, NEW e \in Books, NEW q \in Purchase, NEW s \in Source, NEW n \in Copy,
         \A m \in Copy \ {n} : e.pay[q][s][m] = d.pay[q][s][m]
  PROVE  FromSource(e, q, s) = FromSource(d, q, s) + Recorded(e, q, s, n) - Recorded(d, q, s, n)
<1> DEFINE f == [m \in Copy |-> Recorded(d, q, s, m)]
           g == [m \in Copy |-> Recorded(e, q, s, m)]
<1>1. \A m \in Copy : f[m] \in Int /\ g[m] \in Int
  BY RecordedIsNat
<1>2. \A m \in Copy \ {n} : f[m] = g[m]
  BY DEF Recorded
<1>3. f[n] = Recorded(d, q, s, n) /\ g[n] = Recorded(e, q, s, n)
  OBVIOUS
<1>4. DOMAIN f = Copy /\ DOMAIN g = Copy
  OBVIOUS
<1>5. FromSource(d, q, s) = SumFunctionOnSet(f, Copy) /\ FromSource(e, q, s) = SumFunctionOnSet(g, Copy)
  BY <1>4 DEF FromSource, SumFunction
<1> HIDE DEF f, g
<1>6. SumFunctionOnSet(g, Copy) = SumFunctionOnSet(f, Copy) + g[n] - f[n]
  <2>1. SameBut(f, g, Copy, n)
    BY <1>1, <1>2 DEF SameBut
  <2> QED
    BY <2>1, Sizes, SumSameBut
<1> QED
  BY <1>3, <1>5, <1>6

(* What comes from one source changes: so does what is paid. *)
LEMMA PaidExcept ==
  ASSUME NEW d \in Books, NEW e \in Books, NEW q \in Purchase, NEW s \in Source,
         \A t \in Source \ {s} : e.pay[q][t] = d.pay[q][t]
  PROVE  Paid(e, q) = Paid(d, q) + FromSource(e, q, s) - FromSource(d, q, s)
<1> DEFINE f == [t \in Source |-> FromSource(d, q, t)]
           g == [t \in Source |-> FromSource(e, q, t)]
<1>1. \A t \in Source : f[t] \in Int /\ g[t] \in Int
  BY FromSourceIsNat
<1>2. \A t \in Source \ {s} : f[t] = g[t]
  BY DEF FromSource, Recorded
<1>3. f[s] = FromSource(d, q, s) /\ g[s] = FromSource(e, q, s)
  OBVIOUS
<1>4. DOMAIN f = Source /\ DOMAIN g = Source
  OBVIOUS
<1>5. Paid(d, q) = SumFunctionOnSet(f, Source) /\ Paid(e, q) = SumFunctionOnSet(g, Source)
  BY <1>4 DEF Paid, SumFunction
<1> HIDE DEF f, g
<1>6. SumFunctionOnSet(g, Source) = SumFunctionOnSet(f, Source) + g[s] - f[s]
  <2>1. SameBut(f, g, Source, s)
    BY <1>1, <1>2 DEF SameBut
  <2> QED
    BY <2>1, Sizes, SumSameBut
<1> QED
  BY <1>3, <1>5, <1>6

(* What stands of one purchase changes: so does what is committed. *)
LEMMA CommittedExcept ==
  ASSUME NEW d \in Books, NEW e \in Books, NEW q \in Purchase, NEW a \in Advance,
         \A p \in Purchase \ {q} : Standing(e, p, a) = Standing(d, p, a)
  PROVE  Committed(e, a) = Committed(d, a) + Standing(e, q, a) - Standing(d, q, a)
<1> DEFINE f == [p \in Purchase |-> Standing(d, p, a)]
           g == [p \in Purchase |-> Standing(e, p, a)]
<1>1. \A p \in Purchase : f[p] \in Int /\ g[p] \in Int
  BY StandingIsNat
<1>2. \A p \in Purchase \ {q} : f[p] = g[p]
  OBVIOUS
<1>3. f[q] = Standing(d, q, a) /\ g[q] = Standing(e, q, a)
  OBVIOUS
<1>4. Committed(d, a) = SumFunctionOnSet(f, Purchase) /\ Committed(e, a) = SumFunctionOnSet(g, Purchase)
  BY CommittedIs
<1> HIDE DEF f, g
<1>5. SumFunctionOnSet(g, Purchase) = SumFunctionOnSet(f, Purchase) + g[q] - f[q]
  BY <1>1, <1>2, Sizes, SumExcept
<1> QED
  BY <1>3, <1>4, <1>5

(* The flows, added to what was there. *)
LEMMA AppliedSums ==
  ASSUME NEW d \in Books, CanApply(d), RowsOK(d)
  PROVE  LET e == AutoApply(d, Flows(d))
         IN  /\ RowsOK(e)
             /\ \A q \in Purchase, s \in Source :
                  FromSource(e, q, s) = FromSource(d, q, s) + FlowOf(d, q, s)
             /\ \A q \in Purchase : Paid(e, q) = Paid(d, q) + FlowInto(d, q)
             /\ \A a \in Advance : Committed(e, a) = Committed(d, a) + FlowFrom(d, a)
<1>1. PICK e : e = AutoApply(d, Flows(d))
  OBVIOUS
<1>2. /\ e \in Books /\ e.purchase = d.purchase
      /\ \A q \in Purchase, s \in Source :
           IF FlowOf(d, q, s) > 0
           THEN /\ Fresh(d, q, s) \in Unused(d, q, s)
                /\ e.pay[q][s][Fresh(d, q, s)] = [state |-> "RECORDED", amount |-> FlowOf(d, q, s)]
                /\ \A n \in Copy \ {Fresh(d, q, s)} : e.pay[q][s][n] = d.pay[q][s][n]
           ELSE e.pay[q][s] = d.pay[q][s]
  BY <1>1, AutoApplied
<1>3. \A q \in Purchase, s \in Source : FlowOf(d, q, s) \in Nat
  BY Sizes, FlowIs DEF FlowOf
<1>4. ASSUME NEW q \in Purchase, NEW s \in Source
      PROVE  /\ FromSource(e, q, s) = FromSource(d, q, s) + FlowOf(d, q, s)
             /\ \A n \in Copy : RowOK(e.pay[q][s][n])
  <2>1. CASE FlowOf(d, q, s) > 0
    <3>1. PICK n \in Copy : /\ n = Fresh(d, q, s) /\ d.pay[q][s][n].state = "none"
                            /\ e.pay[q][s][n] = [state |-> "RECORDED", amount |-> FlowOf(d, q, s)]
                            /\ \A m \in Copy \ {n} : e.pay[q][s][m] = d.pay[q][s][m]
      BY <1>2, <2>1 DEF Unused
    <3>2. FromSource(e, q, s) = FromSource(d, q, s) + Recorded(e, q, s, n) - Recorded(d, q, s, n)
      BY <1>2, <3>1, SourceExcept
    <3>3. Recorded(e, q, s, n) = FlowOf(d, q, s) /\ Recorded(d, q, s, n) = 0
      BY <3>1 DEF Recorded
    <3>4. FromSource(d, q, s) \in Nat
      BY FromSourceIsNat
    <3>5. \A m \in Copy : RowOK(e.pay[q][s][m])
      BY <2>1, <3>1 DEF RowOK, RowsOK
    <3> QED
      BY <1>3, <3>2, <3>3, <3>4, <3>5
  <2>2. CASE ~ FlowOf(d, q, s) > 0
    <3>0. FlowOf(d, q, s) \in Nat
      BY <1>3
    <3>1. e.pay[q][s] = d.pay[q][s] /\ FlowOf(d, q, s) = 0
      <4>1. e.pay[q][s] = d.pay[q][s]
        BY <1>2, <2>2, Zenon
      <4>2. FlowOf(d, q, s) = 0
        BY <2>2, <3>0
      <4> QED
        BY <4>1, <4>2
    <3>2. FromSource(e, q, s) = FromSource(d, q, s)
      BY <3>1 DEF FromSource, Recorded
    <3>3. FromSource(d, q, s) \in Nat
      BY FromSourceIsNat
    <3>4. \A m \in Copy : RowOK(e.pay[q][s][m])
      BY <3>1 DEF RowsOK
    <3> QED
      BY <3>1, <3>2, <3>3, <3>4
  <2> QED
    BY <2>1, <2>2
<1>5. ASSUME NEW q \in Purchase
      PROVE  Paid(e, q) = Paid(d, q) + FlowInto(d, q)
  <2> DEFINE f == [s \in Source |-> FromSource(d, q, s)]
             g == [s \in Source |-> FlowOf(d, q, s)]
             h == [s \in Source |-> FromSource(e, q, s)]
             k == [a \in Advance |-> Flow(d, a, q)]
  <2>1. \A s \in Source : f[s] \in Int /\ g[s] \in Int /\ h[s] = f[s] + g[s]
    BY <1>3, <1>4, FromSourceIsNat
  <2>2. DOMAIN f = Source /\ DOMAIN h = Source
    OBVIOUS
  <2>3. Paid(d, q) = SumFunctionOnSet(f, Source) /\ Paid(e, q) = SumFunctionOnSet(h, Source)
    BY <2>2 DEF Paid, SumFunction
  <2>4. \A s \in Source \ Advance : g[s] = 0
    BY Sizes DEF FlowOf
  <2>5. \A a \in Advance : g[a] = k[a]
    BY Sizes DEF FlowOf
  <2>6. FlowInto(d, q) = SumFunctionOnSet(k, Advance)
    BY DEF FlowInto
  <2> HIDE DEF f, g, h, k
  <2>7. SumFunctionOnSet(h, Source) = SumFunctionOnSet(f, Source) + SumFunctionOnSet(g, Source)
    <3>1. AddUp(h, f, g, Source)
      BY <2>1 DEF AddUp
    <3> QED
      BY <3>1, Sizes, SumAddUp
  <2>8. SumFunctionOnSet(g, Source) = SumFunctionOnSet(g, Advance)
    BY <2>1, <2>4, Sizes, SumOverPart
  <2>9. SumFunctionOnSet(g, Advance) = SumFunctionOnSet(k, Advance)
    BY <2>5, Sizes, SumSame
  <2> QED
    BY <2>3, <2>6, <2>7, <2>8, <2>9
<1>6. ASSUME NEW a \in Advance
      PROVE  Committed(e, a) = Committed(d, a) + FlowFrom(d, a)
  <2> DEFINE f == [q \in Purchase |-> Standing(d, q, a)]
             g == [q \in Purchase |-> Flow(d, a, q)]
             h == [q \in Purchase |-> Standing(e, q, a)]
  <2>1. ASSUME NEW q \in Purchase
        PROVE  Standing(e, q, a) = Standing(d, q, a) + Flow(d, a, q)
    <3>1. FromSource(e, q, a) = FromSource(d, q, a) + Flow(d, a, q)
      BY <1>4, Sizes DEF FlowOf
    <3>2. d.purchase[q].state = "gone" => Flow(d, a, q) = 0
      BY FlowIs DEF Needs, IsActive
    <3> QED
      BY <1>2, <3>1, <3>2 DEF Standing
  <2>2. \A q \in Purchase : f[q] \in Int /\ g[q] \in Int /\ h[q] = f[q] + g[q]
    BY <2>1, StandingIsNat, FlowIs
  <2>3. /\ Committed(d, a) = SumFunctionOnSet(f, Purchase)
        /\ Committed(e, a) = SumFunctionOnSet(h, Purchase)
        /\ FlowFrom(d, a) = SumFunctionOnSet(g, Purchase)
    BY CommittedIs DEF FlowFrom
  <2> HIDE DEF f, g, h
  <2>4. SumFunctionOnSet(h, Purchase) = SumFunctionOnSet(f, Purchase) + SumFunctionOnSet(g, Purchase)
    <3>1. AddUp(h, f, g, Purchase)
      BY <2>2 DEF AddUp
    <3> QED
      BY <3>1, Sizes, SumAddUp
  <2> QED
    BY <2>3, <2>4
<1> QED
  BY <1>1, <1>4, <1>5, <1>6 DEF RowsOK

------------------------------------------------------------------------------
(* The start of a transaction: the books d that a request works out from   *)
(* the books as they are, and the purchases T whose paid_amount it will    *)
(* work out anew, give it a plan.                                          *)

Held(op, own, q) == op \in {"UpdatePurchase", "PayMore"} /\ q = own
Moves(d, a) == d.advance[a] # books.advance[a]

LeadsPurchase(own, d, T, q) ==
  LET b == books.purchase[q]
      e == d.purchase[q]
  IN  /\ q \notin T => d.pay[q] = books.pay[q] /\ e.paid = b.paid
      /\ q \in T => e.state \notin {"none", "gone"}
      /\ IF q = own THEN q \in T \/ e.state # b.state ELSE e.total = b.total
      /\ b.state = "gone" \/ e.state = "none" => e = b
      /\ b.state # "gone" /\ e.state = "gone" =>
           \A a \in Advance : FromSource(books, q, a) # 0 => Moves(d, a)
      /\ q \notin crossed \cup T => SnapshotOK(d, q)
      /\ q \notin crossed \cup noted => WithinOK(d, q)
LeadsAdvance(d, a) ==
  /\ books.advance[a].state # "none" => d.advance[a].amount = books.advance[a].amount
  /\ a \notin shaky => AdvanceOK(d, a)
LeadsRow(op, own, d, q, s, n) ==
  LET b == books.pay[q][s][n]
      e == d.pay[q][s][n]
  IN  /\ b.state = "none" /\ e.state # "none" =>
           \A r \in Request : job[r].after.pay[q][s][n].state = "none"
      /\ b.state # "none" =>
           /\ e.state # "none"
           /\ Held(op, own, q) \/ (e.amount = b.amount /\ (e # b /\ s \in Advance => Moves(d, s)))
Leads(op, own, d, T) ==
  /\ d \in Books /\ RowsOK(d)
  /\ op \in Ops /\ own \in Purchase \cup {NoPurchase} /\ T \subseteq Purchase
  /\ \A q \in Purchase : LeadsPurchase(own, d, T, q)
  /\ \A a \in Advance : LeadsAdvance(d, a)
  /\ \A q \in Purchase, s \in Source, n \in Copy : LeadsRow(op, own, d, q, s, n)

Begun(op, own, d, T) ==
  [op |-> op, own |-> own, before |-> books, after |-> Sync(d, T), synced |-> T]

LEMMA BegunPlans ==
  ASSUME IInv, NEW op, NEW own, NEW d, NEW T, Leads(op, own, d, T)
  PROVE  /\ Begun(op, own, d, T) \in JobType
         /\ Plan(Begun(op, own, d, T)) /\ InTouch(Begun(op, own, d, T))
         /\ Claims(Sync(d, T))
<1>1. PICK j : j = Begun(op, own, d, T)
  OBVIOUS
<1>2. PICK e : e = Sync(d, T)
  OBVIOUS
<1>3. /\ d \in Books /\ RowsOK(d) /\ books \in Books /\ RowsOK(books) /\ GoneOK(books)
      /\ op \in Ops /\ own \in Purchase \cup {NoPurchase} /\ T \subseteq Purchase
  BY DEF Leads, IInv, TypeInv, TypeOK, Sound
<1>4. /\ e \in Books /\ RowsOK(e)
      /\ e.pay = d.pay /\ e.advance = d.advance
      /\ \A q \in Purchase :
           /\ e.purchase[q].state = d.purchase[q].state
           /\ e.purchase[q].total = d.purchase[q].total
           /\ e.purchase[q].note = d.purchase[q].note
           /\ e.purchase[q].paid = IF q \in T THEN Paid(d, q) ELSE d.purchase[q].paid
           /\ q \notin T => e.purchase[q] = d.purchase[q]
  BY <1>2, <1>3, SyncIs, SyncKeeps
<1>5. /\ j.op = op /\ j.own = own /\ j.before = books /\ j.after = e /\ j.synced = T
      /\ j \in JobType
  BY <1>1, <1>2, <1>3, <1>4 DEF Begun, JobType
<1>6. \A q \in Purchase : Paid(e, q) = Paid(d, q)
  BY <1>4, SameReads
<1>7. ASSUME NEW q \in Purchase
      PROVE  PurchasePlan(j, q)
  <2>1. LeadsPurchase(own, d, T, q)
    BY DEF Leads
  <2>2. e.purchase[q].state = "none" \/ books.purchase[q].state = "gone"
          => e.purchase[q] = books.purchase[q]
    BY <1>4, <2>1 DEF LeadsPurchase
  <2>3. Removes(j, q) => \A a \in Advance : FromSource(books, q, a) # 0 => ChangesAdvance(j, a)
    BY <1>4, <1>5, <2>1 DEF LeadsPurchase, Removes, ChangesAdvance, Moves
  <2> QED
    BY <1>4, <1>5, <1>6, <2>1, <2>2, <2>3 DEF LeadsPurchase, PurchasePlan
<1>8. \A a \in Advance : AdvancePlan(j, a)
  BY <1>4, <1>5 DEF Leads, LeadsAdvance, AdvancePlan
<1>9. ASSUME NEW q \in Purchase, NEW s \in Source, NEW n \in Copy
      PROVE  RowPlan(j, q, s, n)
  <2>1. LeadsRow(op, own, d, q, s, n)
    BY DEF Leads
  <2>2. Held(op, own, q) <=> Holds(j, q)
    BY <1>5 DEF Held, Holds
  <2>3. \A a \in Advance : Moves(d, a) <=> ChangesAdvance(j, a)
    BY <1>4, <1>5 DEF Moves, ChangesAdvance
  <2> QED
    BY <1>4, <1>5, <2>1, <2>2, <2>3 DEF LeadsRow, RowPlan
<1>10. InTouch(j)
  BY <1>5 DEF InTouch, Takes
<1>11. Plan(j)
  BY <1>3, <1>4, <1>5, <1>7, <1>8, <1>9 DEF Plan
<1>12. Claims(e)
  <2>1. ASSUME NEW a \in Advance \ shaky
        PROVE  AdvanceOK(e, a)
    BY <1>2, <1>3, SyncKeeps DEF Leads, LeadsAdvance
  <2>2. ASSUME NEW q \in Purchase \ crossed
        PROVE  SnapshotOK(e, q)
    <3>1. LeadsPurchase(own, d, T, q)
      BY DEF Leads
    <3>2. CASE q \in T
      BY <1>4, <1>6, <3>1, <3>2 DEF LeadsPurchase, SnapshotOK
    <3>3. CASE q \notin T
      BY <1>2, <1>3, <3>1, <3>3, SyncKeeps DEF LeadsPurchase
    <3> QED
      BY <3>2, <3>3
  <2>3. ASSUME NEW q \in Purchase \ (crossed \cup noted)
        PROVE  WithinOK(e, q)
    BY <1>2, <1>3, SyncKeeps DEF Leads, LeadsPurchase
  <2> QED
    BY <2>1, <2>2, <2>3 DEF Claims
<1> QED
  BY <1>1, <1>2, <1>5, <1>10, <1>11, <1>12

LEMMA SubmitStep ==
  ASSUME IInv, NEW r \in Request, NEW op, NEW own, NEW d, NEW T,
         Leads(op, own, d, T), Submit(r, op, own, d, T)
  PROVE  IInv'
<1>1. PICK j : j = Begun(op, own, d, T)
  OBVIOUS
<1>2. /\ job' = [job EXCEPT ![r] = j]
      /\ books' = books /\ shaky' = shaky /\ crossed' = crossed /\ noted' = noted
      /\ own # NoPurchase => \A s \in Request : job[s].own # own
  BY <1>1 DEF Submit, Begun
<1>3. /\ j \in JobType /\ Plan(j) /\ InTouch(j) /\ Claims(j.before) /\ Claims(j.after)
      /\ j.own = own /\ j.before = books /\ j.after.pay = d.pay
  <2>1. Claims(books) /\ j.before = books /\ j.after = Sync(d, T) /\ j.own = own
    BY <1>1 DEF Begun, IInv, Sound
  <2>2. Sync(d, T).pay = d.pay
    BY SyncIs DEF Leads
  <2> QED
    BY <1>1, <2>1, <2>2, BegunPlans
<1>4. job' \in [Request -> JobType] /\ job'[r] = j /\ \A s \in Request \ {r} : job'[s] = job[s]
  BY <1>2, <1>3 DEF IInv, TypeInv
<1>5. ASSUME NEW s \in Request \ {r}
      PROVE  Apart(j, job[s]) /\ Apart(job[s], j)
  <2>1. ASSUME NEW q \in Purchase, NEW t \in Source, NEW n \in Copy, Takes(j, q, t, n)
        PROVE  ~ Takes(job[s], q, t, n)
    <3>1. LeadsRow(op, own, d, q, t, n)
      BY DEF Leads
    <3>2. books.pay[q][t][n].state = "none" /\ d.pay[q][t][n].state # "none"
      BY <1>3, <2>1 DEF Takes
    <3> QED
      BY <3>1, <3>2 DEF LeadsRow, Takes
  <2>2. j.own = job[s].own => j.own = NoPurchase
    BY <1>2, <1>3
  <2> QED
    BY <2>1, <2>2 DEF Apart
<1>6. ASSUME NEW s \in Request
      PROVE  Plan(job[s])' /\ InTouch(job[s])' /\ Claims(job[s].before)' /\ Claims(job[s].after)'
  <2>1. PICK k : k = job'[s]
    OBVIOUS
  <2>2. Plan(k) /\ InTouch(k) /\ Claims(k.before) /\ Claims(k.after)
    BY <1>3, <1>4, <2>1 DEF IInv, Jobs
  <2>3. InTouch(k)' /\ Claims(k.before)' /\ Claims(k.after)'
    BY <1>2, <2>2 DEF InTouch, Claims
  <2> QED
    BY <2>1, <2>2, <2>3
<1>7. ASSUME NEW s \in Request, NEW t \in Request, s # t
      PROVE  Apart(job[s], job[t])'
  BY <1>4, <1>5, <1>7 DEF IInv, Jobs
<1>8. Jobs'
  BY <1>6, <1>7 DEF Jobs
<1>9. Sound'
  BY <1>2 DEF IInv, Sound, Claims
<1>10. TypeInv'
  BY <1>2, <1>4 DEF IInv, TypeInv, TypeOK, JobType
<1> QED
  BY <1>8, <1>9, <1>10 DEF IInv

(* Advances can be applied to what a request leads to, unless it deletes   *)
(* purchases or touches payments that it does not hold.                    *)
Mild(op, own, d) ==
  /\ \A q \in Purchase : d.purchase[q].state = "gone" => books.purchase[q].state = "gone"
  /\ \A q \in Purchase, s \in Source, n \in Copy :
       books.pay[q][s][n].state # "none" /\ ~ Held(op, own, q)
         => d.pay[q][s][n] = books.pay[q][s][n]
Fed(d) == {q \in Purchase : \E a \in Advance : Flow(d, a, q) > 0}

LEMMA AppliedRow ==
  ASSUME NEW d \in Books, CanApply(d), NEW q \in Purchase, NEW s \in Source, NEW n \in Copy
  PROVE  LET e == AutoApply(d, Flows(d))
         IN  \/ e.pay[q][s][n] = d.pay[q][s][n]
             \/ /\ q \in Fed(d)
                /\ d.pay[q][s][n].state = "none" /\ e.pay[q][s][n].state = "RECORDED"
                /\ \A r \in Request : job[r].after.pay[q][s][n].state = "none"
<1>1. PICK e : e = AutoApply(d, Flows(d))
  OBVIOUS
<1>2. IF FlowOf(d, q, s) > 0
      THEN /\ Fresh(d, q, s) \in Unused(d, q, s)
           /\ e.pay[q][s][Fresh(d, q, s)] = [state |-> "RECORDED", amount |-> FlowOf(d, q, s)]
           /\ \A m \in Copy \ {Fresh(d, q, s)} : e.pay[q][s][m] = d.pay[q][s][m]
      ELSE e.pay[q][s] = d.pay[q][s]
  BY <1>1, AutoApplied
<1>3. FlowOf(d, q, s) > 0 => q \in Fed(d)
  BY Sizes DEF FlowOf, Fed
<1>4. \/ e.pay[q][s][n] = d.pay[q][s][n]
      \/ /\ q \in Fed(d)
         /\ d.pay[q][s][n].state = "none" /\ e.pay[q][s][n].state = "RECORDED"
         /\ \A r \in Request : job[r].after.pay[q][s][n].state = "none"
  BY <1>2, <1>3 DEF Unused
<1> QED
  BY <1>1, <1>4

LEMMA AppliedLeads ==
  ASSUME IInv, NEW op, NEW own, NEW d, NEW T, Leads(op, own, d, T), Mild(op, own, d), CanApply(d)
  PROVE  Leads(op, own, AutoApply(d, Flows(d)), T \cup Fed(d))
<1>1. PICK e : e = AutoApply(d, Flows(d))
  OBVIOUS
<1>2. /\ d \in Books /\ RowsOK(d) /\ books \in Books /\ RowsOK(books)
      /\ op \in Ops /\ own \in Purchase \cup {NoPurchase} /\ T \subseteq Purchase
  BY DEF Leads, IInv, TypeInv, TypeOK, Sound
<1>3. /\ e \in Books /\ e.purchase = d.purchase
      /\ \A a \in Advance :
           /\ e.advance[a].state = d.advance[a].state
           /\ e.advance[a].amount = d.advance[a].amount
           /\ e.advance[a].remaining = d.advance[a].remaining - FlowFrom(d, a)
      /\ RowsOK(e)
      /\ \A q \in Purchase : Paid(e, q) = Paid(d, q) + FlowInto(d, q)
      /\ \A a \in Advance : Committed(e, a) = Committed(d, a) + FlowFrom(d, a)
  BY <1>1, <1>2, AutoApplied, AppliedSums
<1>4. \A q \in Purchase, s \in Source, n \in Copy :
        \/ e.pay[q][s][n] = d.pay[q][s][n]
        \/ /\ q \in Fed(d)
           /\ d.pay[q][s][n].state = "none" /\ e.pay[q][s][n].state = "RECORDED"
           /\ \A r \in Request : job[r].after.pay[q][s][n].state = "none"
  BY <1>1, <1>2, AppliedRow
<1>5. ASSUME NEW q \in Purchase
      PROVE  LeadsPurchase(own, e, T \cup Fed(d), q)
  <2>1. LeadsPurchase(own, d, T, q)
    BY DEF Leads
  <2>2. q \notin Fed(d) => e.pay[q] = d.pay[q]
    <3> SUFFICES ASSUME q \notin Fed(d)
                 PROVE  e.pay[q] = d.pay[q]
      OBVIOUS
    <3>1. /\ e.pay[q] \in [Source -> [Copy -> PaymentRow]]
          /\ d.pay[q] \in [Source -> [Copy -> PaymentRow]]
      BY <1>2, <1>3 DEF Books
    <3>2. \A s \in Source, n \in Copy : e.pay[q][s][n] = d.pay[q][s][n]
      BY <1>4
    <3>3. \A s \in Source : e.pay[q][s] = d.pay[q][s]
      BY <3>1, <3>2
    <3> QED
      BY <3>1, <3>3
  <2>3. q \in Fed(d) => IsActive(d, q) /\ d.purchase[q].state \notin {"none", "gone"}
    <3> SUFFICES ASSUME q \in Fed(d)
                 PROVE  IsActive(d, q)
      BY DEF IsActive
    <3>1. PICK a \in Advance : Flow(d, a, q) > 0
      BY DEF Fed
    <3>2. Needs(d, q) # 0
      BY <1>2, <3>1, FlowIs
    <3> QED
      BY <3>2 DEF Needs
  <2>4. e.purchase[q] = d.purchase[q]
    BY <1>3
  <2>5. q \notin Fed(d) /\ SnapshotOK(d, q) => SnapshotOK(e, q)
    BY <2>2, <2>4, SamePurchase
  <2>6. WithinOK(d, q) => WithinOK(e, q)
    <3> SUFFICES ASSUME WithinOK(d, q), IsActive(e, q)
                 PROVE  Paid(e, q) <= NetTotal(e, q)
      BY DEF WithinOK
    <3>1. IsActive(d, q) /\ NetTotal(e, q) = NetTotal(d, q)
      BY <1>3 DEF IsActive, NetTotal
    <3>2. Paid(d, q) <= NetTotal(d, q) /\ Paid(d, q) \in Nat /\ NetTotal(d, q) \in Int
      BY <1>2, <3>1, PaidIsNat, TotalsTyped DEF WithinOK
    <3>3. FlowInto(d, q) \in Nat /\ FlowInto(d, q) <= Needs(d, q)
      BY <1>2, FlowIntoBound
    <3>4. Needs(d, q) <= NetTotal(d, q) - Paid(d, q) /\ Needs(d, q) \in Nat
      BY <3>2 DEF Needs, Positive
    <3>5. Paid(e, q) = Paid(d, q) + FlowInto(d, q)
      BY <1>3
    <3> QED
      BY <3>1, <3>2, <3>3, <3>4, <3>5
  <2>7. ~ (books.purchase[q].state # "gone" /\ e.purchase[q].state = "gone")
    BY <2>4 DEF Mild
  <2> QED
    BY <2>1, <2>2, <2>3, <2>4, <2>5, <2>6, <2>7 DEF LeadsPurchase
<1>6. ASSUME NEW a \in Advance
      PROVE  LeadsAdvance(e, a)
  <2>1. LeadsAdvance(d, a)
    BY DEF Leads
  <2>2. FlowFrom(d, a) \in Nat /\ FlowFrom(d, a) <= Free(d, a)
    BY <1>2, FlowFromBound
  <2>3. AdvanceOK(d, a) => AdvanceOK(e, a)
    <3> SUFFICES ASSUME AdvanceOK(d, a)
                 PROVE  AdvanceOK(e, a)
      OBVIOUS
    <3> DEFINE m == d.advance[a].remaining
               f == FlowFrom(d, a)
               c == Committed(d, a)
               t == d.advance[a].amount
    <3>1. m \in Int /\ t \in Nat /\ m >= 0 /\ m = t - c /\ c \in Nat
      BY <1>2, AdvanceTyped, CommittedIsNat DEF AdvanceOK
    <3>2. f \in Nat /\ f <= m
      BY <2>2, <3>1 DEF Free, Positive
    <3>3. /\ e.advance[a].remaining = m - f /\ e.advance[a].amount = t
          /\ Committed(e, a) = c + f /\ e.advance[a].state = d.advance[a].state
      BY <1>3
    <3>4. d.advance[a].state = "none" => t = 0
      BY DEF AdvanceOK
    <3> HIDE DEF m, f, c, t
    <3>5. m - f = t - (c + f) /\ m - f >= 0
      BY <3>1, <3>2
    <3> QED
      BY <3>3, <3>4, <3>5 DEF AdvanceOK
  <2> QED
    BY <1>3, <2>1, <2>3 DEF LeadsAdvance
<1>7. ASSUME NEW q \in Purchase, NEW s \in Source, NEW n \in Copy
      PROVE  LeadsRow(op, own, e, q, s, n)
  <2>1. LeadsRow(op, own, d, q, s, n)
    BY DEF Leads
  <2>2. CASE books.pay[q][s][n].state = "none"
    BY <1>4, <2>1, <2>2 DEF LeadsRow
  <2>3. CASE books.pay[q][s][n].state # "none"
    <3>1. d.pay[q][s][n].state # "none"
      BY <2>1, <2>3 DEF LeadsRow
    <3>2. e.pay[q][s][n] = d.pay[q][s][n]
      BY <1>4, <3>1
    <3>3. Held(op, own, q) \/ d.pay[q][s][n] = books.pay[q][s][n]
      BY <2>3 DEF Mild
    <3> QED
      BY <2>3, <3>1, <3>2, <3>3 DEF LeadsRow
  <2> QED
    BY <2>2, <2>3
<1>8. T \cup Fed(d) \subseteq Purchase
  BY <1>2 DEF Fed
<1>9. Leads(op, own, e, T \cup Fed(d))
  BY <1>2, <1>3, <1>5, <1>6, <1>7, <1>8 DEF Leads
<1> QED
  BY <1>1, <1>9

LEMMA SubmitAppliedIs ==
  ASSUME NEW r, NEW op, NEW own, NEW d, NEW T, SubmitApplied(r, op, own, d, T)
  PROVE  CanApply(d) /\ Submit(r, op, own, AutoApply(d, Flows(d)), T \cup Fed(d))
<1> DEFINE flows == {x \in Purchase \X Advance : Flows(d)[x[1]][x[2]] > 0}
<1>1. \A x \in flows : Unused(d, x[1], x[2]) # {}
  BY DEF SubmitApplied
<1>2. Submit(r, op, own, AutoApply(d, Flows(d)), T \cup {x[1] : x \in flows})
  BY DEF SubmitApplied
<1>3. \A q \in Purchase, a \in Advance : Flow(d, a, q) > 0 <=> <<q, a>> \in flows
  BY DEF Flows
<1>4. CanApply(d)
  BY <1>1, <1>3 DEF CanApply
<1>5. {x[1] : x \in flows} = Fed(d)
  <2>1. \A x \in flows : x[1] \in Purchase /\ x[2] \in Advance /\ x = <<x[1], x[2]>>
    OBVIOUS
  <2> HIDE DEF flows
  <2>2. \A q \in {x[1] : x \in flows} : q \in Fed(d)
    BY <1>3, <2>1 DEF Fed
  <2>3. \A q \in Fed(d) : q \in {x[1] : x \in flows}
    BY <1>3, <2>1 DEF Fed
  <2> QED
    BY <2>2, <2>3
<1> QED
  BY <1>2, <1>4, <1>5

LEMMA SubmitAppliedStep ==
  ASSUME IInv, NEW r \in Request, NEW op, NEW own, NEW d, NEW T,
         Leads(op, own, d, T), Mild(op, own, d), SubmitApplied(r, op, own, d, T)
  PROVE  IInv'
<1>1. PICK e : e = AutoApply(d, Flows(d))
  OBVIOUS
<1>2. PICK S : S = T \cup Fed(d)
  OBVIOUS
<1>3. Leads(op, own, e, S) /\ Submit(r, op, own, e, S)
  BY <1>1, <1>2, SubmitAppliedIs, AppliedLeads
<1> QED
  BY <1>3, SubmitStep

------------------------------------------------------------------------------
(* What the requests lead to, one by one. *)

LEMMA BooksNow ==
  ASSUME IInv
  PROVE  /\ books \in Books /\ RowsOK(books) /\ GoneOK(books) /\ Claims(books)
         /\ \A a \in Advance \ shaky : AdvanceOK(books, a)
         /\ \A q \in Purchase \ crossed : SnapshotOK(books, q)
         /\ \A q \in Purchase \ (crossed \cup noted) : WithinOK(books, q)
BY DEF IInv, TypeInv, TypeOK, Sound, Claims

LEMMA SamePurchaseLeads ==
  ASSUME IInv, NEW d, NEW own, NEW T, NEW q \in Purchase, q # own, q \notin T,
         d.purchase[q] = books.purchase[q], d.pay[q] = books.pay[q]
  PROVE  LeadsPurchase(own, d, T, q)
<1>1. /\ SnapshotOK(books, q) => SnapshotOK(d, q)
      /\ WithinOK(books, q) => WithinOK(d, q)
  BY SamePurchase
<1> QED
  BY <1>1, BooksNow DEF LeadsPurchase

LEMMA SameRowLeads ==
  ASSUME IInv, NEW d, NEW op, NEW own, NEW q \in Purchase, NEW s \in Source, NEW n \in Copy,
         d.pay[q][s][n] = books.pay[q][s][n]
  PROVE  LeadsRow(op, own, d, q, s, n)
BY DEF LeadsRow

LEMMA SameAdvanceLeads ==
  ASSUME IInv, NEW d, NEW a \in Advance,
         d.advance[a] = books.advance[a], Committed(d, a) = Committed(books, a)
  PROVE  LeadsAdvance(d, a)
BY BooksNow DEF LeadsAdvance, AdvanceOK

(* Other advances; the purchases and payments stay. *)
LEMMA AdvancesLead ==
  ASSUME IInv, NEW d \in Books, NEW op \in Ops, d.purchase = books.purchase, d.pay = books.pay,
         \A a \in Advance : LeadsAdvance(d, a)
  PROVE  Leads(op, NoPurchase, d, {}) /\ Mild(op, NoPurchase, d)
<1>1. \A q \in Purchase : LeadsPurchase(NoPurchase, d, {}, q)
  BY SamePurchaseLeads, NoneIsNone
<1>2. \A q \in Purchase, s \in Source, n \in Copy : LeadsRow(op, NoPurchase, d, q, s, n)
  BY SameRowLeads
<1>3. RowsOK(d)
  BY BooksNow DEF RowsOK
<1> QED
  BY <1>1, <1>2, <1>3 DEF Leads, Mild

(* An advance that is not there has nothing in a purchase. *)
LEMMA NoneCommitted ==
  ASSUME IInv, NEW a \in Advance \ shaky, books.advance[a].state = "none"
  PROVE  Committed(books, a) = 0
<1>1. AdvanceOK(books, a) /\ books \in Books
  BY BooksNow
<1>2. Committed(books, a) \in Nat /\ books.advance[a].remaining \in Int
  BY <1>1, CommittedIsNat, AdvanceTyped
<1> QED
  BY <1>1, <1>2 DEF AdvanceOK

LEMMA ReverseAdvanceStep ==
  ASSUME IInv, NEW r \in Request, NEW a \in Advance, ReverseAdvance(r, a)
  PROVE  IInv'
<1>1. PICK d : d = [books EXCEPT !.advance[a].state = "REVERSED"]
  OBVIOUS
<1>2. /\ books.advance[a].state = "RECORDED"
      /\ Submit(r, "ReverseAdvance", NoPurchase, d, {})
  BY <1>1 DEF ReverseAdvance
<1>3. [books.advance[a] EXCEPT !.state = "REVERSED"] \in AdvanceRow
  BY BooksNow, AdvanceTyped DEF AdvanceRow
<1>4. /\ d \in Books /\ d.purchase = books.purchase /\ d.pay = books.pay
      /\ d.advance[a] = [books.advance[a] EXCEPT !.state = "REVERSED"]
      /\ \A b \in Advance \ {a} : d.advance[b] = books.advance[b]
  BY <1>1, <1>3, BooksNow DEF Books
<1>5. /\ d.advance[a].state = "REVERSED" /\ d.advance[a].amount = books.advance[a].amount
      /\ d.advance[a].remaining = books.advance[a].remaining
  BY <1>4, BooksNow, AdvanceTyped DEF AdvanceRow
<1>6. \A b \in Advance : Committed(d, b) = Committed(books, b)
  BY <1>4, SameReads
<1>7. \A b \in Advance : LeadsAdvance(d, b)
  <2>1. ASSUME NEW b \in Advance \ {a}
        PROVE  LeadsAdvance(d, b)
    BY <1>4, <1>6, SameAdvanceLeads
  <2>2. LeadsAdvance(d, a)
    BY <1>5, <1>6, BooksNow DEF LeadsAdvance, AdvanceOK
  <2> QED
    BY <2>1, <2>2
<1>8. "ReverseAdvance" \in Ops
  BY DEF Ops
<1>9. Leads("ReverseAdvance", NoPurchase, d, {})
  BY <1>4, <1>7, <1>8, AdvancesLead
<1> QED
  BY <1>2, <1>9, SubmitStep

LEMMA CreateAdvanceStep ==
  ASSUME IInv, NEW r \in Request, NEW a \in Advance, NEW amount \in Amounts,
         CreateAdvance(r, a, amount)
  PROVE  IInv'
<1>1. PICK row : row = [state |-> "RECORDED", amount |-> amount, remaining |-> amount]
  OBVIOUS
<1>2. PICK d : d = [books EXCEPT !.advance[a] = row]
  OBVIOUS
<1>3. /\ books.advance[a].state = "none"
      /\ SubmitApplied(r, "CreateAdvance", NoPurchase, d, {})
  BY <1>1, <1>2 DEF CreateAdvance, NewAdvance
<1>4. amount \in Nat /\ row \in AdvanceRow
  BY <1>1, SizesAreNat DEF AdvanceRow
<1>5. /\ d \in Books /\ d.purchase = books.purchase /\ d.pay = books.pay
      /\ d.advance[a] = row
      /\ \A b \in Advance \ {a} : d.advance[b] = books.advance[b]
  BY <1>2, <1>4, BooksNow DEF Books
<1>6. \A b \in Advance : Committed(d, b) = Committed(books, b)
  BY <1>5, SameReads
<1>7. \A b \in Advance : LeadsAdvance(d, b)
  <2>1. ASSUME NEW b \in Advance \ {a}
        PROVE  LeadsAdvance(d, b)
    BY <1>5, <1>6, SameAdvanceLeads
  <2>2. ASSUME a \notin shaky
        PROVE  AdvanceOK(d, a)
    BY <1>1, <1>3, <1>4, <1>5, <1>6, <2>2, NoneCommitted DEF AdvanceOK
  <2>3. LeadsAdvance(d, a)
    BY <1>3, <2>2 DEF LeadsAdvance
  <2> QED
    BY <2>1, <2>3
<1>8. "CreateAdvance" \in Ops
  BY DEF Ops
<1>9. Leads("CreateAdvance", NoPurchase, d, {}) /\ Mild("CreateAdvance", NoPurchase, d)
  BY <1>5, <1>7, <1>8, AdvancesLead
<1> QED
  BY <1>3, <1>9, SubmitAppliedStep

(* One payment row replaced. *)
PayType == [Purchase -> [Source -> [Copy -> PaymentRow]]]
LEMMA PayWith ==
  ASSUME NEW y \in PayType, NEW q \in Purchase, NEW s \in Source, NEW n \in Copy,
         NEW row \in PaymentRow
  PROVE  LET z == [y EXCEPT ![q][s][n] = row]
         IN  /\ z \in PayType
             /\ \A p \in Purchase \ {q} : z[p] = y[p]
             /\ \A t \in Source \ {s} : z[q][t] = y[q][t]
             /\ \A m \in Copy \ {n} : z[q][s][m] = y[q][s][m]
             /\ z[q][s][n] = row
<1>1. y[q] \in [Source -> [Copy -> PaymentRow]] /\ y[q][s] \in [Copy -> PaymentRow]
  BY DEF PayType
<1>2. PICK u : u = [y[q][s] EXCEPT ![n] = row]
  OBVIOUS
<1>3. /\ u \in [Copy -> PaymentRow] /\ u[n] = row
      /\ \A m \in Copy \ {n} : u[m] = y[q][s][m]
  BY <1>1, <1>2
<1>4. PICK v : v = [y[q] EXCEPT ![s] = u]
  OBVIOUS
<1>5. /\ v \in [Source -> [Copy -> PaymentRow]] /\ v[s] = u
      /\ \A t \in Source \ {s} : v[t] = y[q][t]
  BY <1>1, <1>3, <1>4
<1>6. PICK z : z = [y EXCEPT ![q] = v]
  OBVIOUS
<1>7. z \in PayType /\ z[q] = v /\ \A p \in Purchase \ {q} : z[p] = y[p]
  BY <1>5, <1>6 DEF PayType
<1>8. z = [y EXCEPT ![q][s][n] = row]
  BY <1>2, <1>4, <1>6
<1> QED
  BY <1>3, <1>5, <1>7, <1>8

(* A payment made directly. *)
LEMMA DirectPaid ==
  ASSUME NEW d \in Books, RowsOK(d), NEW q \in Purchase, NEW amount \in Nat,
         amount > 0, Unused(d, q, Direct) # {}
  PROVE  LET e == WithDirect(d, q, amount)
         IN  /\ e \in Books /\ RowsOK(e) /\ e.purchase = d.purchase /\ e.advance = d.advance
             /\ \A p \in Purchase, s \in Source, n \in Copy :
                  \/ e.pay[p][s][n] = d.pay[p][s][n]
                  \/ /\ p = q /\ n \in Unused(d, q, Direct) /\ s = Direct
                     /\ e.pay[p][s][n].state = "RECORDED"
             /\ \A p \in Purchase \ {q} : e.pay[p] = d.pay[p]
             /\ Paid(e, q) = Paid(d, q) + amount
             /\ \A p \in Purchase, a \in Advance : FromSource(e, p, a) = FromSource(d, p, a)
             /\ \A a \in Advance : Committed(e, a) = Committed(d, a)
<1>1. PICK row : row = [state |-> "RECORDED", amount |-> amount]
  OBVIOUS
<1>2. PICK n : n = Fresh(d, q, Direct)
  OBVIOUS
<1>3. n \in Unused(d, q, Direct) /\ n \in Copy /\ d.pay[q][Direct][n].state = "none"
  BY <1>2 DEF Fresh, Unused
<1>4. PICK e : e = [d EXCEPT !.pay[q][Direct][n] = row]
  OBVIOUS
<1>5. e = WithDirect(d, q, amount)
  BY <1>1, <1>2, <1>4 DEF WithDirect
<1>6. row \in PaymentRow /\ RowOK(row)
  BY <1>1 DEF PaymentRow, PaymentState, RowOK
<1>7. d.pay \in PayType /\ Direct \in Source
  BY Sizes DEF Books, PayType
<1>8. PICK y : y = [d.pay EXCEPT ![q][Direct][n] = row]
  OBVIOUS
<1>9. /\ y \in PayType
      /\ \A p \in Purchase \ {q} : y[p] = d.pay[p]
      /\ \A s \in Source \ {Direct} : y[q][s] = d.pay[q][s]
      /\ \A m \in Copy \ {n} : y[q][Direct][m] = d.pay[q][Direct][m]
      /\ y[q][Direct][n] = row
  BY <1>3, <1>6, <1>7, <1>8, PayWith
<1>10. e = [d EXCEPT !.pay = y]
  BY <1>4, <1>8
<1>11. /\ e \in Books /\ e.purchase = d.purchase /\ e.advance = d.advance
       /\ e.pay = y
  BY <1>9, <1>10 DEF Books, PayType
<1>12. \A p \in Purchase, s \in Source, m \in Copy :
         e.pay[p][s][m] = d.pay[p][s][m] \/ (p = q /\ m = n /\ s = Direct)
  BY <1>9, <1>11
<1>13. FromSource(e, q, Direct) = FromSource(d, q, Direct) + amount
  <2>1. FromSource(e, q, Direct)
          = FromSource(d, q, Direct) + Recorded(e, q, Direct, n) - Recorded(d, q, Direct, n)
    BY <1>3, <1>9, <1>11, Sizes, SourceExcept
  <2>2. Recorded(e, q, Direct, n) = amount /\ Recorded(d, q, Direct, n) = 0
    BY <1>1, <1>3, <1>9, <1>11 DEF Recorded
  <2>3. FromSource(d, q, Direct) \in Nat
    BY Sizes, FromSourceIsNat
  <2> QED
    BY <2>1, <2>2, <2>3
<1>14. Paid(e, q) = Paid(d, q) + amount
  <2>1. Paid(e, q) = Paid(d, q) + FromSource(e, q, Direct) - FromSource(d, q, Direct)
    BY <1>9, <1>11, Sizes, PaidExcept
  <2>2. FromSource(d, q, Direct) \in Nat /\ Paid(d, q) \in Nat
    BY Sizes, FromSourceIsNat, PaidIsNat
  <2> QED
    BY <1>13, <2>1, <2>2
<1>15. \A p \in Purchase, a \in Advance : FromSource(e, p, a) = FromSource(d, p, a)
  <2> TAKE p \in Purchase, a \in Advance
  <2>1. a \in Source \ {Direct}
    BY Sizes
  <2>2. e.pay[p][a] = d.pay[p][a]
    BY <1>9, <1>11, <2>1
  <2> QED
    BY <2>2 DEF FromSource, Recorded
<1>16. \A a \in Advance : Committed(e, a) = Committed(d, a)
  BY <1>11, <1>15, CommittedSame DEF Standing
<1>17. RowsOK(e)
  BY <1>6, <1>9, <1>11, <1>12 DEF RowsOK
<1> QED
  BY <1>1, <1>3, <1>5, <1>9, <1>11, <1>12, <1>14, <1>15, <1>16, <1>17

LEMMA CreatePurchasePaymentStep ==
  ASSUME IInv, NEW r \in Request, NEW q \in Purchase, NEW amount \in Amounts,
         CreatePurchasePayment(r, q, amount)
  PROVE  IInv'
<1>1. PICK d : d = WithDirect(books, q, amount)
  OBVIOUS
<1>2. /\ IsActive(books, q) /\ amount \in Nat /\ amount > 0
      /\ Paid(books, q) + amount <= NetTotal(books, q) /\ Unused(books, q, Direct) # {}
      /\ Submit(r, "CreatePurchasePayment", NoPurchase, d, {q})
  BY <1>1, SizesAreNat DEF CreatePurchasePayment
<1>3. books \in Books /\ RowsOK(books)
  BY BooksNow
<1>4. /\ d \in Books /\ RowsOK(d) /\ d.purchase = books.purchase /\ d.advance = books.advance
      /\ \A p \in Purchase, s \in Source, n \in Copy :
           \/ d.pay[p][s][n] = books.pay[p][s][n]
           \/ n \in Unused(books, q, Direct) /\ p = q /\ s = Direct
      /\ \A p \in Purchase \ {q} : d.pay[p] = books.pay[p]
      /\ Paid(d, q) = Paid(books, q) + amount
      /\ \A a \in Advance : Committed(d, a) = Committed(books, a)
  BY <1>1, <1>2, <1>3, DirectPaid
<1>5. \A p \in Purchase : LeadsPurchase(NoPurchase, d, {q}, p)
  <2>1. ASSUME NEW p \in Purchase \ {q}
        PROVE  LeadsPurchase(NoPurchase, d, {q}, p)
    BY <1>4, NoneIsNone, SamePurchaseLeads
  <2>2. WithinOK(d, q)
    BY <1>2, <1>4 DEF WithinOK, NetTotal
  <2>3. LeadsPurchase(NoPurchase, d, {q}, q)
    BY <1>2, <1>4, <2>2, NoneIsNone DEF LeadsPurchase, IsActive
  <2> QED
    BY <2>1, <2>3
<1>6. \A a \in Advance : LeadsAdvance(d, a)
  BY <1>4, SameAdvanceLeads
<1>7. \A p \in Purchase, s \in Source, n \in Copy :
        LeadsRow("CreatePurchasePayment", NoPurchase, d, p, s, n)
  BY <1>4 DEF LeadsRow, Unused
<1>8. Leads("CreatePurchasePayment", NoPurchase, d, {q})
  BY <1>4, <1>5, <1>6, <1>7 DEF Leads, Ops
<1> QED
  BY <1>2, <1>8, SubmitStep

LEMMA ReversePurchasePaymentStep ==
  ASSUME IInv, NEW r \in Request, NEW q \in Purchase, NEW s \in Source, NEW n \in Copy,
         ReversePurchasePayment(r, q, s, n)
  PROVE  IInv'
<1> DEFINE row == books.pay[q][s][n]
<1>1. PICK new : new = [row EXCEPT !.state = "REVERSED"]
  OBVIOUS
<1>2. PICK v : v = [a \in Advance |-> IF a = s THEN GivenBack(books.advance[a], row.amount)
                                      ELSE books.advance[a]]
  OBVIOUS
<1>3. PICK y : y = [books.pay EXCEPT ![q][s][n] = new]
  OBVIOUS
<1>4. PICK d : d = [books EXCEPT !.pay = y, !.advance = v]
  OBVIOUS
<1>5. books \in Books /\ RowsOK(books)
  BY BooksNow
<1>6. row \in PaymentRow /\ RowOK(row) /\ row.state = "RECORDED" /\ IsActive(books, q)
  BY <1>5, RowTyped DEF RowsOK, ReversePurchasePayment
<1>7. row.amount \in Nat /\ row.amount > 0
  BY <1>6 DEF RowOK, PaymentRow
<1>8. new \in PaymentRow /\ new.state = "REVERSED" /\ new.amount = row.amount
  BY <1>1, <1>6 DEF PaymentRow, PaymentState
<1>9. d = [purchase |-> books.purchase, advance |-> v, pay |-> y]
  BY <1>4, <1>5, BooksWith
<1>10. Submit(r, "ReversePurchasePayment", NoPurchase, d, {q})
  <2>1. PICK e : e = [books EXCEPT !.pay[q][s][n].state = "REVERSED"]
    OBVIOUS
  <2>2. e = [books EXCEPT !.pay = y]
    BY <1>1, <1>3, <2>1
  <2>3. [books EXCEPT !.pay[q][s][n].state = "REVERSED", !.advance = v] = [e EXCEPT !.advance = v]
    BY <2>1, Zenon
  <2>4. d = [e EXCEPT !.advance = v]
    BY <1>4, <2>2, Zenon
  <2>5. Submit(r, "ReversePurchasePayment", NoPurchase,
               [books EXCEPT !.pay[q][s][n].state = "REVERSED", !.advance = v], {q})
    BY <1>2, Zenon DEF ReversePurchasePayment
  <2> QED
    BY <2>3, <2>4, <2>5, Zenon
<1>11. /\ y \in PayType
       /\ \A p \in Purchase \ {q} : y[p] = books.pay[p]
       /\ \A t \in Source \ {s} : y[q][t] = books.pay[q][t]
       /\ \A m \in Copy \ {n} : y[q][s][m] = books.pay[q][s][m]
       /\ y[q][s][n] = new
  <2>1. books.pay \in PayType
    BY <1>5 DEF Books, PayType
  <2> QED
    BY <1>3, <1>8, <2>1, PayWith
<1>12. /\ v \in [Advance -> AdvanceRow]
       /\ \A a \in Advance \ {s} : v[a] = books.advance[a]
       /\ s \in Advance => /\ v[s].state = books.advance[s].state
                           /\ v[s].amount = books.advance[s].amount
                           /\ v[s].remaining = books.advance[s].remaining + row.amount
  <2>1. \A a \in Advance : GivenBack(books.advance[a], row.amount) \in AdvanceRow
    BY <1>5, <1>7, AdvanceTyped DEF GivenBack, AdvanceRow
  <2>2. \A a \in Advance : books.advance[a] \in AdvanceRow
    BY <1>5, AdvanceTyped
  <2>3. v \in [Advance -> AdvanceRow]
    BY <1>2, <2>1, <2>2
  <2>4. ASSUME s \in Advance
        PROVE  /\ v[s].state = books.advance[s].state
               /\ v[s].amount = books.advance[s].amount
               /\ v[s].remaining = books.advance[s].remaining + row.amount
    <3>1. v[s] = GivenBack(books.advance[s], row.amount)
      BY <1>2, <2>4
    <3> QED
      BY <2>2, <2>4, <3>1 DEF GivenBack, AdvanceRow
  <2> QED
    BY <1>2, <2>3, <2>4
<1>13. /\ d \in Books /\ d.purchase = books.purchase /\ d.advance = v /\ d.pay = y
  <2>1. books.purchase \in [Purchase -> PurchaseRow]
    BY <1>5 DEF Books
  <2> QED
    BY <1>9, <1>11, <1>12, <2>1 DEF Books, PayType
<1> HIDE DEF row
<1>14. FromSource(d, q, s) = FromSource(books, q, s) - row.amount
  <2>1. FromSource(d, q, s)
          = FromSource(books, q, s) + Recorded(d, q, s, n) - Recorded(books, q, s, n)
    BY <1>5, <1>11, <1>13, SourceExcept
  <2>2. Recorded(d, q, s, n) = 0 /\ Recorded(books, q, s, n) = row.amount
    BY <1>6, <1>8, <1>11, <1>13 DEF Recorded, row
  <2>3. FromSource(books, q, s) \in Nat
    BY <1>5, FromSourceIsNat
  <2> QED
    BY <1>7, <2>1, <2>2, <2>3
<1>15. Paid(d, q) = Paid(books, q) - row.amount
  <2>1. Paid(d, q) = Paid(books, q) + FromSource(d, q, s) - FromSource(books, q, s)
    BY <1>5, <1>11, <1>13, PaidExcept
  <2>2. FromSource(books, q, s) \in Nat /\ Paid(books, q) \in Nat
    BY <1>5, FromSourceIsNat, PaidIsNat
  <2> QED
    BY <1>7, <1>14, <2>1, <2>2
<1>16. ASSUME NEW a \in Advance
       PROVE  Committed(d, a) = Committed(books, a) - IF a = s THEN row.amount ELSE 0
  <2>1. \A p \in Purchase \ {q} : Standing(d, p, a) = Standing(books, p, a)
    BY <1>11, <1>13 DEF Standing, FromSource, Recorded
  <2>2. a # s => Standing(d, q, a) = Standing(books, q, a)
    BY <1>11, <1>13, Sizes DEF Standing, FromSource, Recorded
  <2>3. a = s => Standing(d, q, a) = Standing(books, q, a) - row.amount
    BY <1>6, <1>13, <1>14 DEF Standing, IsActive
  <2>4. Committed(d, a) = Committed(books, a) + Standing(d, q, a) - Standing(books, q, a)
    BY <1>5, <1>13, <2>1, CommittedExcept
  <2>5. Standing(books, q, a) \in Nat /\ Committed(books, a) \in Nat
    BY <1>5, StandingIsNat, CommittedIsNat
  <2> QED
    BY <1>7, <2>2, <2>3, <2>4, <2>5
<1>17. \A p \in Purchase : LeadsPurchase(NoPurchase, d, {q}, p)
  <2>1. ASSUME NEW p \in Purchase \ {q}
        PROVE  LeadsPurchase(NoPurchase, d, {q}, p)
    BY <1>11, <1>13, NoneIsNone, SamePurchaseLeads
  <2>2. WithinOK(books, q) => WithinOK(d, q)
    <3>1. Paid(books, q) \in Nat /\ NetTotal(books, q) \in Int /\ NetTotal(d, q) = NetTotal(books, q)
      BY <1>5, <1>13, PaidIsNat, TotalsTyped DEF NetTotal
    <3> QED
      BY <1>6, <1>7, <1>15, <3>1 DEF WithinOK
  <2>3. LeadsPurchase(NoPurchase, d, {q}, q)
    BY <1>6, <1>13, <2>2, NoneIsNone, BooksNow DEF LeadsPurchase, IsActive
  <2> QED
    BY <2>1, <2>3
<1>18. \A a \in Advance : LeadsAdvance(d, a)
  <2>1. ASSUME NEW a \in Advance, a # s
        PROVE  LeadsAdvance(d, a)
    <3>1. Committed(d, a) = Committed(books, a)
      <4>1. Committed(books, a) \in Nat
        BY <1>5, CommittedIsNat
      <4> QED
        BY <1>16, <2>1, <4>1
    <3> QED
      BY <1>12, <1>13, <2>1, <3>1, SameAdvanceLeads
  <2>2. ASSUME s \in Advance
        PROVE  LeadsAdvance(d, s)
    <3>1. Committed(d, s) = Committed(books, s) - row.amount
      BY <1>16, <2>2
    <3>2. /\ Committed(books, s) \in Nat /\ books.advance[s].remaining \in Int
          /\ books.advance[s].amount \in Nat
      BY <1>5, <2>2, CommittedIsNat, AdvanceTyped
    <3>3. AdvanceOK(books, s) => AdvanceOK(d, s)
      BY <1>7, <1>12, <1>13, <2>2, <3>1, <3>2 DEF AdvanceOK
    <3> QED
      BY <1>12, <1>13, <2>2, <3>3, BooksNow DEF LeadsAdvance
  <2> QED
    BY <2>1, <2>2
<1>19. \A p \in Purchase, t \in Source, m \in Copy :
         LeadsRow("ReversePurchasePayment", NoPurchase, d, p, t, m)
  <2> SUFFICES ASSUME NEW p \in Purchase, NEW t \in Source, NEW m \in Copy
               PROVE  LeadsRow("ReversePurchasePayment", NoPurchase, d, p, t, m)
    OBVIOUS
  <2>1. CASE p = q /\ t = s /\ m = n
    <3>1. books.pay[p][t][m].state = "RECORDED" /\ d.pay[p][t][m].state = "REVERSED"
          /\ d.pay[p][t][m].amount = books.pay[p][t][m].amount
      BY <1>6, <1>8, <1>11, <1>13, <2>1 DEF row
    <3>2. t \in Advance => Moves(d, t)
      <4> SUFFICES ASSUME t \in Advance
                   PROVE  d.advance[t].remaining # books.advance[t].remaining
        BY DEF Moves
      <4>1. books.advance[t].remaining \in Int
        BY <1>5, AdvanceTyped
      <4> QED
        BY <1>7, <1>12, <1>13, <2>1, <4>1
    <3> QED
      BY <3>1, <3>2 DEF LeadsRow
  <2>2. CASE ~ (p = q /\ t = s /\ m = n)
    BY <1>11, <1>13, <2>2, SameRowLeads
  <2> QED
    BY <2>1, <2>2
<1>20. RowsOK(d)
  <2>1. RowOK(new)
    BY <1>7, <1>8 DEF RowOK
  <2>2. \A p \in Purchase, t \in Source, m \in Copy :
          y[p][t][m] = books.pay[p][t][m] \/ y[p][t][m] = new
    BY <1>11
  <2> QED
    BY <1>5, <1>13, <2>1, <2>2 DEF RowsOK
<1>21. Leads("ReversePurchasePayment", NoPurchase, d, {q})
  BY <1>13, <1>17, <1>18, <1>19, <1>20 DEF Leads, Ops
<1> QED
  BY <1>10, <1>21, SubmitStep

LEMMA PurchasesWith ==
  ASSUME NEW d \in Books, NEW p, NEW v
  PROVE  [d EXCEPT !.purchase = p, !.advance = v] = [purchase |-> p, advance |-> v, pay |-> d.pay]
<1>1. d = [purchase |-> d.purchase, advance |-> d.advance, pay |-> d.pay]
  BY DEF Books
<1>2. [d EXCEPT !.purchase = p] = [purchase |-> p, advance |-> d.advance, pay |-> d.pay]
  BY <1>1
<1>3. PICK e : e = [d EXCEPT !.purchase = p]
  OBVIOUS
<1>4. e = [purchase |-> p, advance |-> d.advance, pay |-> d.pay]
  BY <1>2, <1>3, Zenon
<1>5. [e EXCEPT !.advance = v] = [purchase |-> p, advance |-> v, pay |-> d.pay]
  BY <1>4
<1>6. [d EXCEPT !.purchase = p, !.advance = v] = [e EXCEPT !.advance = v]
  BY <1>3, Zenon
<1> QED
  BY <1>5, <1>6, Zenon

(* The advances get back what they had in the purchase.                    *)
LEMMA DeletePurchaseStep ==
  ASSUME IInv, NEW r \in Request, NEW q \in Purchase, DeletePurchase(r, q)
  PROVE  IInv'
<1> DEFINE back(a) == FromSource(books, q, a)
<1>1. PICK new : new = [books.purchase[q] EXCEPT !.state = "gone"]
  OBVIOUS
<1>2. PICK v : v = [a \in Advance |-> GivenBack(books.advance[a], back(a))]
  OBVIOUS
<1>3. PICK y : y = [books.purchase EXCEPT ![q] = new]
  OBVIOUS
<1>4. PICK d : d = [books EXCEPT !.purchase = y, !.advance = v]
  OBVIOUS
<1>5. books \in Books /\ RowsOK(books) /\ books.purchase[q].state \in {"active", "inactive"}
  BY BooksNow DEF DeletePurchase
<1>6. d = [purchase |-> y, advance |-> v, pay |-> books.pay]
  BY <1>4, <1>5, PurchasesWith
<1>7. Submit(r, "DeletePurchase", NoPurchase, d, {})
  <2>1. PICK e : e = [books EXCEPT !.purchase[q].state = "gone"]
    OBVIOUS
  <2>2. e = [books EXCEPT !.purchase = y]
    BY <1>1, <1>3, <2>1
  <2>3. [books EXCEPT !.purchase[q].state = "gone", !.advance = v] = [e EXCEPT !.advance = v]
    BY <2>1, Zenon
  <2>4. d = [e EXCEPT !.advance = v]
    BY <1>4, <2>2, Zenon
  <2>5. Submit(r, "DeletePurchase", NoPurchase,
               [books EXCEPT !.purchase[q].state = "gone", !.advance = v], {})
    BY <1>2, Zenon DEF DeletePurchase
  <2> QED
    BY <2>3, <2>4, <2>5, Zenon
<1>8. /\ new \in PurchaseRow /\ new.state = "gone" /\ new.total = books.purchase[q].total
      /\ new.paid = books.purchase[q].paid /\ new.note = books.purchase[q].note
  BY <1>1, <1>5, TotalsTyped DEF PurchaseRow
<1>9. /\ y \in [Purchase -> PurchaseRow] /\ y[q] = new
      /\ \A p \in Purchase \ {q} : y[p] = books.purchase[p]
  <2>1. books.purchase \in [Purchase -> PurchaseRow]
    BY <1>5 DEF Books
  <2> QED
    BY <1>3, <1>8, <2>1
<1>10. \A a \in Advance : back(a) \in Nat
  BY <1>5, FromSourceIsNat, Sizes
<1>11. /\ v \in [Advance -> AdvanceRow]
       /\ \A a \in Advance : /\ v[a].state = books.advance[a].state
                             /\ v[a].amount = books.advance[a].amount
                             /\ v[a].remaining = books.advance[a].remaining + back(a)
  <2> HIDE DEF back
  <2>1. \A a \in Advance :
          /\ GivenBack(books.advance[a], back(a)) \in AdvanceRow
          /\ GivenBack(books.advance[a], back(a)).state = books.advance[a].state
          /\ GivenBack(books.advance[a], back(a)).amount = books.advance[a].amount
          /\ GivenBack(books.advance[a], back(a)).remaining = books.advance[a].remaining + back(a)
    BY <1>5, <1>10, AdvanceTyped DEF GivenBack, AdvanceRow
  <2> QED
    BY <1>2, <2>1
<1>12. d \in Books /\ d.purchase = y /\ d.advance = v /\ d.pay = books.pay
  <2>1. books.pay \in PayType
    BY <1>5 DEF Books, PayType
  <2> QED
    BY <1>6, <1>9, <1>11, <2>1 DEF Books, PayType
<1>13. ASSUME NEW a \in Advance
       PROVE  Committed(d, a) = Committed(books, a) - back(a)
  <2>1. \A p \in Purchase \ {q} : Standing(d, p, a) = Standing(books, p, a)
    BY <1>9, <1>12 DEF Standing, FromSource, Recorded
  <2>2. Standing(d, q, a) = 0 /\ Standing(books, q, a) = back(a)
    BY <1>5, <1>8, <1>9, <1>12 DEF Standing
  <2>3. Committed(d, a) = Committed(books, a) + Standing(d, q, a) - Standing(books, q, a)
    BY <1>5, <1>12, <2>1, CommittedExcept
  <2>4. Committed(books, a) \in Nat
    BY <1>5, CommittedIsNat
  <2> HIDE DEF back
  <2> QED
    BY <1>10, <2>2, <2>3, <2>4
<1>14. \A a \in Advance : LeadsAdvance(d, a)
  <2> HIDE DEF back
  <2> SUFFICES ASSUME NEW a \in Advance
               PROVE  LeadsAdvance(d, a)
    OBVIOUS
  <2>1. /\ Committed(books, a) \in Nat /\ books.advance[a].remaining \in Int
        /\ books.advance[a].amount \in Nat
    BY <1>5, CommittedIsNat, AdvanceTyped
  <2>2. AdvanceOK(books, a) => AdvanceOK(d, a)
    BY <1>10, <1>11, <1>12, <1>13, <2>1 DEF AdvanceOK
  <2> QED
    BY <1>11, <1>12, <2>2, BooksNow DEF LeadsAdvance
<1>15. \A p \in Purchase : LeadsPurchase(NoPurchase, d, {}, p)
  <2>1. ASSUME NEW p \in Purchase \ {q}
        PROVE  LeadsPurchase(NoPurchase, d, {}, p)
    BY <1>9, <1>12, NoneIsNone, SamePurchaseLeads
  <2>2. ASSUME NEW a \in Advance, FromSource(books, q, a) # 0
        PROVE  Moves(d, a)
    <3>1. back(a) # 0
      BY <2>2
    <3> HIDE DEF back
    <3>2. books.advance[a].remaining \in Int
      BY <1>5, AdvanceTyped
    <3> QED
      BY <1>10, <1>11, <1>12, <3>1, <3>2 DEF Moves
  <2>3. SnapshotOK(d, q) /\ WithinOK(d, q)
    BY <1>8, <1>9, <1>12 DEF SnapshotOK, WithinOK, IsActive
  <2>4. LeadsPurchase(NoPurchase, d, {}, q)
    BY <1>5, <1>8, <1>9, <1>12, <2>2, <2>3, NoneIsNone DEF LeadsPurchase
  <2> QED
    BY <2>1, <2>4
<1>16. \A p \in Purchase, s \in Source, n \in Copy :
         LeadsRow("DeletePurchase", NoPurchase, d, p, s, n)
  BY <1>12, SameRowLeads
<1>17. RowsOK(d)
  BY <1>5, <1>12 DEF RowsOK
<1>18. Leads("DeletePurchase", NoPurchase, d, {})
  BY <1>12, <1>14, <1>15, <1>16, <1>17 DEF Leads, Ops
<1> QED
  BY <1>7, <1>18, SubmitStep

(* A purchase, paid in part at once. *)
LEMMA CreatePurchaseStep ==
  ASSUME IInv, NEW r \in Request, NEW q \in Purchase, NEW total \in Amounts, NEW paid \in Amounts,
         CreatePurchase(r, q, total, paid)
  PROVE  IInv'
<1>1. PICK new : new = [state |-> "active", total |-> total, paid |-> 0, note |-> 0]
  OBVIOUS
<1>2. PICK b : b = [books EXCEPT !.purchase[q] = new]
  OBVIOUS
<1>3. PICK d : d = WithDirect(b, q, paid)
  OBVIOUS
<1>4. /\ books.purchase[q].state = "none" /\ paid <= total
      /\ paid > 0 => Unused(b, q, Direct) # {}
      /\ SubmitApplied(r, "CreatePurchase", q, d, {q})
  BY <1>1, <1>2, <1>3 DEF CreatePurchase, NewPurchase
<1>5. total \in Nat /\ paid \in Nat /\ books \in Books /\ RowsOK(books)
  BY SizesAreNat, BooksNow
<1>6. new \in PurchaseRow
  BY <1>1, <1>5 DEF PurchaseRow
<1>7. /\ b \in Books /\ b.pay = books.pay /\ b.advance = books.advance /\ b.purchase[q] = new
      /\ \A p \in Purchase \ {q} : b.purchase[p] = books.purchase[p]
  BY <1>2, <1>5, <1>6 DEF Books
<1>8. RowsOK(b)
  BY <1>5, <1>7 DEF RowsOK
<1>9. /\ d \in Books /\ RowsOK(d) /\ d.purchase = b.purchase /\ d.advance = b.advance
      /\ \A p \in Purchase, s \in Source, n \in Copy :
           \/ d.pay[p][s][n] = b.pay[p][s][n]
           \/ n \in Unused(b, q, Direct) /\ p = q /\ s = Direct
      /\ \A p \in Purchase \ {q} : d.pay[p] = b.pay[p]
      /\ Paid(d, q) = Paid(b, q) + paid
      /\ \A a \in Advance : Committed(d, a) = Committed(b, a)
  <2>1. CASE paid = 0
    <3>1. d = b
      BY <1>3, <2>1 DEF WithDirect
    <3>2. Paid(b, q) \in Nat
      BY <1>7, PaidIsNat
    <3> QED
      BY <1>7, <1>8, <2>1, <3>1, <3>2
  <2>2. CASE paid # 0
    <3>1. paid > 0
      BY <1>5, <2>2
    <3> QED
      BY <1>3, <1>4, <1>5, <1>7, <1>8, <3>1, DirectPaid
  <2> QED
    BY <2>1, <2>2
<1>10. \A a \in Advance : Committed(b, a) = Committed(books, a)
  <2>1. \A p \in Purchase, a \in Advance : Standing(b, p, a) = Standing(books, p, a)
    BY <1>1, <1>4, <1>7 DEF Standing, FromSource, Recorded
  <2> QED
    BY <2>1, CommittedSame
<1>11. Paid(b, q) = Paid(books, q)
  BY <1>7, PaidSame DEF Recorded
<1>12. \A p \in Purchase : LeadsPurchase(q, d, {q}, p)
  <2>1. ASSUME NEW p \in Purchase \ {q}
        PROVE  LeadsPurchase(q, d, {q}, p)
    BY <1>7, <1>9, SamePurchaseLeads
  <2>2. ASSUME q \notin crossed
        PROVE  WithinOK(d, q)
    <3>1. Paid(books, q) = 0
      BY <1>4, <2>2, BooksNow DEF SnapshotOK
    <3>2. NetTotal(d, q) = total
      BY <1>1, <1>5, <1>7, <1>9 DEF NetTotal
    <3> QED
      BY <1>4, <1>5, <1>9, <1>11, <3>1, <3>2 DEF WithinOK
  <2>3. d.purchase[q].state = "active"
    BY <1>1, <1>7, <1>9
  <2>4. LeadsPurchase(q, d, {q}, q)
    BY <1>4, <2>2, <2>3 DEF LeadsPurchase
  <2> QED
    BY <2>1, <2>4
<1>13. \A a \in Advance : LeadsAdvance(d, a)
  BY <1>7, <1>9, <1>10, SameAdvanceLeads
<1>14. \A p \in Purchase, s \in Source, n \in Copy : LeadsRow("CreatePurchase", q, d, p, s, n)
  BY <1>7, <1>9 DEF LeadsRow, Unused
<1>15. Leads("CreatePurchase", q, d, {q})
  BY <1>9, <1>12, <1>13, <1>14 DEF Leads, Ops
<1>16. Mild("CreatePurchase", q, d)
  <2>1. \A p \in Purchase, s \in Source, n \in Copy :
          books.pay[p][s][n].state # "none" => d.pay[p][s][n] = books.pay[p][s][n]
    BY <1>7, <1>9 DEF Unused
  <2>2. \A p \in Purchase : d.purchase[p].state = "gone" => books.purchase[p].state = "gone"
    BY <1>1, <1>7, <1>9
  <2> QED
    BY <2>1, <2>2 DEF Mild
<1> QED
  BY <1>4, <1>15, <1>16, SubmitAppliedStep

(***************************************************************************)
(* The month clean-up: the payments it takes out are missing in every sum, *)
(* and come back to the advances they were made from.                      *)
(***************************************************************************)

LEMMA AllWith ==
  ASSUME NEW d \in Books, NEW p, NEW v, NEW y
  PROVE  [d EXCEPT !.purchase = p, !.pay = y, !.advance = v]
           = [purchase |-> p, advance |-> v, pay |-> y]
<1>1. d = [purchase |-> d.purchase, advance |-> d.advance, pay |-> d.pay]
  BY DEF Books
<1>2. [d EXCEPT !.purchase = p] = [purchase |-> p, advance |-> d.advance, pay |-> d.pay]
  BY <1>1
<1>3. PICK e : e = [d EXCEPT !.purchase = p]
  OBVIOUS
<1>4. e = [purchase |-> p, advance |-> d.advance, pay |-> d.pay]
  BY <1>2, <1>3, Zenon
<1>5. PICK f : f = [e EXCEPT !.pay = y]
  OBVIOUS
<1>6. f = [purchase |-> p, advance |-> d.advance, pay |-> y]
  BY <1>4, <1>5
<1>7. [f EXCEPT !.advance = v] = [purchase |-> p, advance |-> v, pay |-> y]
  BY <1>6
<1>8. [d EXCEPT !.purchase = p, !.pay = y, !.advance = v] = [f EXCEPT !.advance = v]
  BY <1>3, <1>5, Zenon
<1> QED
  BY <1>7, <1>8, Zenon

(* What comes back to advance a, from all purchases. *)
Returned(a) == SumFunction([q \in Purchase |-> Restored(q, a)])

LEMMA RestoredIsNat ==
  ASSUME books \in Books, NEW q \in Purchase, NEW s \in Source
  PROVE  /\ Restored(q, s) \in Nat
         /\ \A n \in Copy : Taken(q, s, n) => books.pay[q][s][n].amount <= Restored(q, s)
         /\ (\A n \in Copy : ~ Taken(q, s, n)) => Restored(q, s) = 0
<1> DEFINE f == [n \in Copy |-> IF Taken(q, s, n) THEN books.pay[q][s][n].amount ELSE 0]
<1>1. \A n \in Copy : f[n] \in Nat
  BY RowTyped
<1>2. \A n \in Copy : Taken(q, s, n) => f[n] = books.pay[q][s][n].amount
  OBVIOUS
<1>3. (\A n \in Copy : ~ Taken(q, s, n)) => \A n \in Copy : f[n] = 0
  OBVIOUS
<1>4. DOMAIN f = Copy
  OBVIOUS
<1>5. Restored(q, s) = SumFunctionOnSet(f, Copy)
  BY <1>4 DEF Restored, SumFunction
<1> HIDE DEF f
<1>6. SumFunctionOnSet(f, Copy) \in Nat
  BY <1>1, Sizes, SumIsNat
<1>7. \A n \in Copy : f[n] <= SumFunctionOnSet(f, Copy)
  BY <1>1, Sizes, SumTerm
<1>8. (\A n \in Copy : ~ Taken(q, s, n)) => SumFunctionOnSet(f, Copy) = 0
  BY <1>3, Sizes, SumOfZeros
<1> QED
  BY <1>2, <1>5, <1>6, <1>7, <1>8

LEMMA ReturnedIsNat ==
  ASSUME books \in Books, NEW a \in Advance
  PROVE  /\ Returned(a) \in Nat
         /\ \A q \in Purchase : Restored(q, a) <= Returned(a)
<1> DEFINE f == [q \in Purchase |-> Restored(q, a)]
<1>1. \A q \in Purchase : f[q] \in Nat
  BY RestoredIsNat, Sizes
<1>2. \A q \in Purchase : f[q] = Restored(q, a)
  OBVIOUS
<1>3. DOMAIN f = Purchase
  OBVIOUS
<1>4. Returned(a) = SumFunctionOnSet(f, Purchase)
  BY <1>3 DEF Returned, SumFunction
<1> HIDE DEF f
<1>5. SumFunctionOnSet(f, Purchase) \in Nat
  BY <1>1, Sizes, SumIsNat
<1>6. \A q \in Purchase : f[q] <= SumFunctionOnSet(f, Purchase)
  BY <1>1, Sizes, SumTerm
<1> QED
  BY <1>2, <1>4, <1>5, <1>6

LEMMA TakenSums ==
  ASSUME books \in Books, NEW d \in Books, NEW q \in Purchase, NEW s \in Source,
         \A n \in Copy : d.pay[q][s][n] = IF Taken(q, s, n)
           THEN [books.pay[q][s][n] EXCEPT !.state = "REVERSED"] ELSE books.pay[q][s][n]
  PROVE  FromSource(books, q, s) = FromSource(d, q, s) + Restored(q, s)
<1> DEFINE h == [n \in Copy |-> Recorded(books, q, s, n)]
           f == [n \in Copy |-> Recorded(d, q, s, n)]
           g == [n \in Copy |-> IF Taken(q, s, n) THEN books.pay[q][s][n].amount ELSE 0]
<1>1. ASSUME NEW n \in Copy
      PROVE  f[n] \in Int /\ g[n] \in Int /\ h[n] = f[n] + g[n]
  <2>1. books.pay[q][s][n] \in PaymentRow /\ books.pay[q][s][n].amount \in Nat
    BY RowTyped
  <2>2. CASE Taken(q, s, n)
    <3>1. d.pay[q][s][n].state = "REVERSED" /\ books.pay[q][s][n].state = "RECORDED"
      BY <2>1, <2>2 DEF PaymentRow, Taken
    <3> QED
      BY <2>1, <2>2, <3>1 DEF Recorded
  <2>3. CASE ~ Taken(q, s, n)
    <3>1. Recorded(d, q, s, n) = Recorded(books, q, s, n) /\ Recorded(d, q, s, n) \in Nat
      BY <2>3, RecordedIsNat DEF Recorded
    <3> QED
      BY <2>3, <3>1
  <2> QED
    BY <2>2, <2>3
<1>2. DOMAIN h = Copy /\ DOMAIN f = Copy /\ DOMAIN g = Copy
  OBVIOUS
<1>3. /\ FromSource(books, q, s) = SumFunctionOnSet(h, Copy)
      /\ FromSource(d, q, s) = SumFunctionOnSet(f, Copy)
      /\ Restored(q, s) = SumFunctionOnSet(g, Copy)
  BY <1>2 DEF FromSource, Restored, SumFunction
<1> HIDE DEF h, f, g
<1>4. AddUp(h, f, g, Copy)
  BY <1>1 DEF AddUp
<1> QED
  BY <1>3, <1>4, Sizes, SumAddUp

(* What an advance and a payment become. *)
FreedRow(a) == IF a \in PaidAhead THEN [Freed(a) EXCEPT !.state = "REVERSED"] ELSE Freed(a)
LEMMA FreedIs ==
  ASSUME books \in Books, NEW a \in Advance
  PROVE  /\ FreedRow(a) \in AdvanceRow
         /\ FreedRow(a).amount = books.advance[a].amount
         /\ FreedRow(a).remaining = books.advance[a].remaining + Returned(a)
         /\ FreedRow(a).state = "none" <=> books.advance[a].state = "none"
<1>1. books.advance[a] \in AdvanceRow /\ books.advance[a].remaining \in Int /\ Returned(a) \in Nat
  BY AdvanceTyped, ReturnedIsNat
<1>2. Freed(a) = GivenBack(books.advance[a], Returned(a))
  BY DEF Freed, Returned
<1>3. PICK v : v = Freed(a)
  OBVIOUS
<1>4. /\ v \in AdvanceRow /\ v.state = books.advance[a].state
      /\ v.amount = books.advance[a].amount
      /\ v.remaining = books.advance[a].remaining + Returned(a)
  BY <1>1, <1>2, <1>3 DEF GivenBack, AdvanceRow
<1>5. PICK w : w = [v EXCEPT !.state = "REVERSED"]
  OBVIOUS
<1>6. /\ w \in AdvanceRow /\ w.state = "REVERSED"
      /\ w.amount = v.amount /\ w.remaining = v.remaining
  BY <1>4, <1>5 DEF AdvanceRow
<1>7. a \in PaidAhead => books.advance[a].state = "RECORDED"
  BY DEF PaidAhead
<1>8. CASE a \in PaidAhead
  <2>1. FreedRow(a) = w
    BY <1>3, <1>5, <1>8 DEF FreedRow
  <2> QED
    BY <1>4, <1>6, <1>7, <1>8, <2>1
<1>9. CASE a \notin PaidAhead
  <2>1. FreedRow(a) = v
    BY <1>3, <1>9 DEF FreedRow
  <2> QED
    BY <1>4, <2>1
<1> QED
  BY <1>8, <1>9

ClearedPay ==
  [q \in Purchase |-> [s \in Source |-> [n \in Copy |->
     IF Taken(q, s, n) THEN [books.pay[q][s][n] EXCEPT !.state = "REVERSED"] ELSE books.pay[q][s][n]]]]
ClearedPurchase ==
  [q \in Purchase |-> IF q \in Bought
     THEN [books.purchase[q] EXCEPT !.state = "inactive", !.note = 0] ELSE books.purchase[q]]
Cleared == [purchase |-> ClearedPurchase, advance |-> [a \in Advance |-> FreedRow(a)], pay |-> ClearedPay]
Emptied == Bought \cup {q \in Purchase : \E s \in Source, n \in Copy : Taken(q, s, n)}

LEMMA ClearedIs ==
  ASSUME books \in Books, RowsOK(books)
  PROVE  /\ Cleared \in Books /\ RowsOK(Cleared)
         /\ \A q \in Purchase :
              /\ q \in Bought => /\ Cleared.purchase[q].state = "inactive"
                                 /\ Cleared.purchase[q].total = books.purchase[q].total
              /\ q \notin Bought => Cleared.purchase[q] = books.purchase[q]
         /\ \A q \in Purchase, s \in Source, n \in Copy :
              Cleared.pay[q][s][n] = IF Taken(q, s, n)
                THEN [books.pay[q][s][n] EXCEPT !.state = "REVERSED"] ELSE books.pay[q][s][n]
         /\ \A a \in Advance : Cleared.advance[a] = FreedRow(a)
<1>1. PICK p : p = ClearedPurchase
  OBVIOUS
<1>2. PICK y : y = ClearedPay
  OBVIOUS
<1>3. PICK v : v = [a \in Advance |-> FreedRow(a)]
  OBVIOUS
<1>4. PICK d : d = [purchase |-> p, advance |-> v, pay |-> y]
  OBVIOUS
<1>5. d = Cleared /\ d.purchase = p /\ d.advance = v /\ d.pay = y
  BY <1>1, <1>2, <1>3, <1>4 DEF Cleared
<1>6. ASSUME NEW q \in Purchase
      PROVE  /\ p[q] \in PurchaseRow
             /\ q \in Bought => p[q].state = "inactive" /\ p[q].total = books.purchase[q].total
             /\ q \notin Bought => p[q] = books.purchase[q]
  <2>1. books.purchase[q] \in PurchaseRow
    BY TotalsTyped
  <2>2. PICK u : u = [books.purchase[q] EXCEPT !.state = "inactive", !.note = 0]
    OBVIOUS
  <2>3. u \in PurchaseRow /\ u.state = "inactive" /\ u.total = books.purchase[q].total
    <3>1. PICK w : w = [books.purchase[q] EXCEPT !.state = "inactive"]
      OBVIOUS
    <3>2. w \in PurchaseRow /\ w.state = "inactive" /\ w.total = books.purchase[q].total
      BY <2>1, <3>1 DEF PurchaseRow
    <3>3. PICK z : z = [w EXCEPT !.note = 0]
      OBVIOUS
    <3>4. z \in PurchaseRow /\ z.state = "inactive" /\ z.total = books.purchase[q].total
      BY <3>2, <3>3 DEF PurchaseRow
    <3>5. u = [w EXCEPT !.note = 0]
      BY <2>2, <3>1, Zenon
    <3> QED
      BY <3>3, <3>4, <3>5, Zenon
  <2>4. p[q] = IF q \in Bought THEN u ELSE books.purchase[q]
    BY <1>1, <2>2 DEF ClearedPurchase
  <2> QED
    BY <2>1, <2>3, <2>4
<1>7. p \in [Purchase -> PurchaseRow]
  BY <1>1, <1>6 DEF ClearedPurchase
<1>8. ASSUME NEW q \in Purchase, NEW s \in Source, NEW n \in Copy
      PROVE  /\ y[q][s][n] \in PaymentRow /\ RowOK(y[q][s][n])
             /\ y[q][s][n] = IF Taken(q, s, n)
                  THEN [books.pay[q][s][n] EXCEPT !.state = "REVERSED"] ELSE books.pay[q][s][n]
  <2>1. books.pay[q][s][n] \in PaymentRow /\ RowOK(books.pay[q][s][n])
    BY RowTyped DEF RowsOK
  <2>2. PICK u : u = [books.pay[q][s][n] EXCEPT !.state = "REVERSED"]
    OBVIOUS
  <2>3. u \in PaymentRow /\ u.state = "REVERSED" /\ u.amount = books.pay[q][s][n].amount
    BY <2>1, <2>2 DEF PaymentRow, PaymentState
  <2>4. Taken(q, s, n) => RowOK(u)
    BY <2>1, <2>3 DEF Taken, RowOK
  <2>5. y[q][s][n] = IF Taken(q, s, n) THEN u ELSE books.pay[q][s][n]
    BY <1>2, <2>2 DEF ClearedPay
  <2> QED
    BY <2>1, <2>2, <2>3, <2>4, <2>5
<1>9. y \in PayType
  <2>1. /\ y = [q \in Purchase |-> y[q]]
        /\ \A q \in Purchase : y[q] = [s \in Source |-> y[q][s]]
        /\ \A q \in Purchase, s \in Source : y[q][s] = [n \in Copy |-> y[q][s][n]]
    BY <1>2 DEF ClearedPay
  <2>2. \A q \in Purchase, s \in Source : y[q][s] \in [Copy -> PaymentRow]
    BY <1>8, <2>1
  <2>3. \A q \in Purchase : y[q] \in [Source -> [Copy -> PaymentRow]]
    BY <2>1, <2>2
  <2> QED
    BY <2>1, <2>3 DEF PayType
<1>10. v \in [Advance -> AdvanceRow] /\ \A a \in Advance : v[a] = FreedRow(a)
  BY <1>3, FreedIs
<1>11. d \in Books
  BY <1>4, <1>7, <1>9, <1>10 DEF Books, PayType
<1>12. RowsOK(d)
  BY <1>5, <1>8 DEF RowsOK
<1> QED
  BY <1>5, <1>6, <1>8, <1>10, <1>11, <1>12

LEMMA CleanUpMonthStep ==
  ASSUME IInv, NEW r \in Request, CleanUpMonth(r)
  PROVE  IInv'
<1>1. books \in Books /\ RowsOK(books)
  BY BooksNow
<1>2. PICK d : d = Cleared
  OBVIOUS
<1>3. Submit(r, "CleanUpMonth", NoPurchase, d, Emptied)
  <2>1. PICK e : e = [books EXCEPT !.purchase = ClearedPurchase, !.pay = ClearedPay,
                                   !.advance = [a \in Advance |-> FreedRow(a)]]
    OBVIOUS
  <2>2. e = d
    <3>1. PICK p : p = ClearedPurchase
      OBVIOUS
    <3>2. PICK y : y = ClearedPay
      OBVIOUS
    <3>3. PICK v : v = [a \in Advance |-> FreedRow(a)]
      OBVIOUS
    <3>4. e = [books EXCEPT !.purchase = p, !.pay = y, !.advance = v]
      BY <2>1, <3>1, <3>2, <3>3, Zenon
    <3>5. e = [purchase |-> p, advance |-> v, pay |-> y]
      BY <1>1, <3>4, AllWith, Zenon
    <3> QED
      BY <1>2, <3>1, <3>2, <3>3, <3>5, Zenon DEF Cleared
  <2>3. Submit(r, "CleanUpMonth", NoPurchase, e, Emptied)
    BY <2>1, Zenon DEF CleanUpMonth, ClearedPurchase, ClearedPay, FreedRow, Emptied
  <2> QED
    BY <2>2, <2>3, Zenon
<1>4. /\ d \in Books /\ RowsOK(d)
      /\ \A q \in Purchase :
           /\ q \in Bought => /\ d.purchase[q].state = "inactive"
                              /\ d.purchase[q].total = books.purchase[q].total
           /\ q \notin Bought => d.purchase[q] = books.purchase[q]
      /\ \A q \in Purchase, s \in Source, n \in Copy :
           d.pay[q][s][n] = IF Taken(q, s, n)
             THEN [books.pay[q][s][n] EXCEPT !.state = "REVERSED"] ELSE books.pay[q][s][n]
      /\ \A a \in Advance : d.advance[a] = FreedRow(a)
  BY <1>1, <1>2, ClearedIs, Zenon
<1>5. \A q \in Bought : q \in Purchase /\ books.purchase[q].state = "active"
  BY MonthIsOfTables DEF Bought, IsActive
<1>6. \A q \in Purchase, s \in Source, n \in Copy :
        Taken(q, s, n) => books.purchase[q].state = "active" /\ q \in Emptied
  BY DEF Taken, Bought, IsActive, Emptied
<1>7. \A q \in Emptied : q \in Purchase /\ books.purchase[q].state = "active"
  BY <1>5, <1>6 DEF Emptied
<1>8. \A q \in Purchase, s \in Source :
        /\ FromSource(books, q, s) = FromSource(d, q, s) + Restored(q, s)
        /\ Restored(q, s) \in Nat /\ FromSource(d, q, s) \in Nat
  <2> TAKE q \in Purchase, s \in Source
  <2>1. \A n \in Copy : d.pay[q][s][n] = IF Taken(q, s, n)
          THEN [books.pay[q][s][n] EXCEPT !.state = "REVERSED"] ELSE books.pay[q][s][n]
    BY <1>4
  <2> QED
    BY <1>1, <1>4, <2>1, TakenSums, RestoredIsNat, FromSourceIsNat
<1>9. ASSUME NEW q \in Purchase
      PROVE  Paid(d, q) <= Paid(books, q)
  <2> DEFINE f == [s \in Source |-> FromSource(d, q, s)]
             g == [s \in Source |-> FromSource(books, q, s)]
  <2>1. \A s \in Source : f[s] \in Int /\ g[s] \in Int /\ f[s] <= g[s]
    BY <1>8
  <2>2. DOMAIN f = Source /\ DOMAIN g = Source
    OBVIOUS
  <2>3. Paid(d, q) = SumFunctionOnSet(f, Source) /\ Paid(books, q) = SumFunctionOnSet(g, Source)
    BY <2>2 DEF Paid, SumFunction
  <2> HIDE DEF f, g
  <2>4. SumFunctionOnSet(f, Source) <= SumFunctionOnSet(g, Source)
    BY <2>1, Sizes, SumAtMost
  <2> QED
    BY <2>3, <2>4
<1>10. ASSUME NEW a \in Advance
       PROVE  Committed(books, a) = Committed(d, a) + Returned(a)
  <2> DEFINE h == [q \in Purchase |-> Standing(books, q, a)]
             f == [q \in Purchase |-> Standing(d, q, a)]
             g == [q \in Purchase |-> Restored(q, a)]
  <2>1. ASSUME NEW q \in Purchase
        PROVE  Standing(books, q, a) = Standing(d, q, a) + Restored(q, a)
    <3>1. FromSource(books, q, a) = FromSource(d, q, a) + Restored(q, a) /\ Restored(q, a) \in Nat
      BY <1>8, Sizes
    <3>2. d.purchase[q].state = "gone" <=> books.purchase[q].state = "gone"
      BY <1>4, <1>5
    <3>3. books.purchase[q].state = "gone" => Restored(q, a) = 0
      <4>1. books.purchase[q].state = "gone" => \A n \in Copy : ~ Taken(q, a, n)
        BY <1>6, Sizes
      <4> QED
        BY <1>1, <4>1, Sizes, RestoredIsNat
    <3> QED
      BY <3>1, <3>2, <3>3 DEF Standing
  <2>2. \A q \in Purchase : f[q] \in Int /\ g[q] \in Int /\ h[q] = f[q] + g[q]
    BY <1>4, <1>8, <2>1, StandingIsNat, Sizes
  <2>3. /\ Committed(books, a) = SumFunctionOnSet(h, Purchase)
        /\ Committed(d, a) = SumFunctionOnSet(f, Purchase)
    BY CommittedIs
  <2>4. Returned(a) = SumFunctionOnSet(g, Purchase)
    <3>1. DOMAIN g = Purchase
      OBVIOUS
    <3> QED
      BY <3>1 DEF Returned, SumFunction
  <2> HIDE DEF f, g, h
  <2>5. AddUp(h, f, g, Purchase)
    BY <2>2 DEF AddUp
  <2> QED
    BY <2>3, <2>4, <2>5, Sizes, SumAddUp
<1>11. ASSUME NEW a \in Advance
       PROVE  LeadsAdvance(d, a)
  <2>1. /\ d.advance[a].amount = books.advance[a].amount
        /\ d.advance[a].remaining = books.advance[a].remaining + Returned(a)
        /\ d.advance[a].state = "none" <=> books.advance[a].state = "none"
    BY <1>1, <1>4, FreedIs
  <2>2. /\ Committed(books, a) \in Nat /\ Committed(d, a) \in Nat /\ Returned(a) \in Nat
        /\ books.advance[a].remaining \in Int /\ books.advance[a].amount \in Nat
    BY <1>1, <1>4, CommittedIsNat, AdvanceTyped, ReturnedIsNat
  <2>3. AdvanceOK(books, a) => AdvanceOK(d, a)
    BY <1>10, <2>1, <2>2 DEF AdvanceOK
  <2> QED
    BY <2>1, <2>3, BooksNow DEF LeadsAdvance
<1>12. ASSUME NEW q \in Purchase
       PROVE  LeadsPurchase(NoPurchase, d, Emptied, q)
  <2>1. CASE q \in Emptied
    <3>1. books.purchase[q].state = "active" /\ q # NoPurchase
      BY <1>7, <2>1, NoneIsNone
    <3>2. d.purchase[q].state \in {"active", "inactive"}
          /\ d.purchase[q].total = books.purchase[q].total
      BY <1>4, <3>1
    <3>3. WithinOK(books, q) => WithinOK(d, q)
      <4>1. CASE q \in Bought
        BY <1>4, <4>1 DEF WithinOK, IsActive
      <4>2. CASE q \notin Bought
        <5>1. NetTotal(d, q) = NetTotal(books, q) /\ NetTotal(d, q) \in Int
              /\ IsActive(books, q) /\ Paid(d, q) \in Nat /\ Paid(books, q) \in Nat
          BY <1>1, <1>4, <3>1, <4>2, TotalsTyped, PaidIsNat DEF NetTotal, IsActive
        <5> QED
          BY <1>9, <5>1 DEF WithinOK
      <4> QED
        BY <4>1, <4>2
    <3> QED
      BY <2>1, <3>1, <3>2, <3>3, BooksNow DEF LeadsPurchase
  <2>2. CASE q \notin Emptied
    <3>1. q \notin Bought /\ \A s \in Source, n \in Copy : ~ Taken(q, s, n)
      BY <1>6, <2>2 DEF Emptied
    <3>2. d.pay[q] = books.pay[q]
      <4>1. /\ d.pay[q] \in [Source -> [Copy -> PaymentRow]]
            /\ books.pay[q] \in [Source -> [Copy -> PaymentRow]]
        BY <1>1, <1>4 DEF Books
      <4>2. \A s \in Source, n \in Copy : d.pay[q][s][n] = books.pay[q][s][n]
        BY <1>4, <3>1
      <4>3. \A s \in Source : d.pay[q][s] = books.pay[q][s]
        BY <4>1, <4>2
      <4> QED
        BY <4>1, <4>3
    <3> QED
      BY <1>4, <2>2, <3>1, <3>2, NoneIsNone, SamePurchaseLeads
  <2> QED
    BY <2>1, <2>2
<1>13. ASSUME NEW q \in Purchase, NEW s \in Source, NEW n \in Copy
       PROVE  LeadsRow("CleanUpMonth", NoPurchase, d, q, s, n)
  <2>1. CASE ~ Taken(q, s, n)
    BY <1>4, <2>1, SameRowLeads
  <2>2. CASE Taken(q, s, n)
    <3>1. books.pay[q][s][n] \in PaymentRow /\ RowOK(books.pay[q][s][n])
          /\ books.pay[q][s][n].state = "RECORDED"
      BY <1>1, <2>2, RowTyped DEF RowsOK, Taken
    <3>2. d.pay[q][s][n].state = "REVERSED" /\ d.pay[q][s][n].amount = books.pay[q][s][n].amount
      <4>1. d.pay[q][s][n] = [books.pay[q][s][n] EXCEPT !.state = "REVERSED"]
        BY <1>4, <2>2
      <4> QED
        BY <3>1, <4>1 DEF PaymentRow
    <3>3. ASSUME s \in Advance
          PROVE  Moves(d, s)
      <4>1. books.pay[q][s][n].amount > 0 /\ books.pay[q][s][n].amount <= Restored(q, s)
            /\ Restored(q, s) <= Returned(s)
        BY <1>1, <2>2, <3>1, <3>3, RestoredIsNat, ReturnedIsNat DEF RowOK
      <4>2. /\ books.pay[q][s][n].amount \in Nat /\ Restored(q, s) \in Nat /\ Returned(s) \in Nat
            /\ books.advance[s].remaining \in Int
        BY <1>1, <3>3, RowTyped, AdvanceTyped, RestoredIsNat, ReturnedIsNat
      <4>3. d.advance[s].remaining = books.advance[s].remaining + Returned(s)
        BY <1>1, <1>4, <3>3, FreedIs
      <4>4. d.advance[s].remaining # books.advance[s].remaining
        BY <4>1, <4>2, <4>3
      <4> QED
        BY <4>4 DEF Moves
    <3> QED
      BY <3>1, <3>2, <3>3 DEF LeadsRow
  <2> QED
    BY <2>1, <2>2
<1>14. Emptied \subseteq Purchase
  BY <1>7
<1>15. Leads("CleanUpMonth", NoPurchase, d, Emptied)
  BY <1>4, <1>11, <1>12, <1>13, <1>14 DEF Leads, Ops
<1> QED
  BY <1>3, <1>15, SubmitStep

------------------------------------------------------------------------------
(***************************************************************************)
(* What is released: newest first, from each as much as is left to release *)
(* and it has.  All together that is the excess.                           *)
(***************************************************************************)
NewerOrder == {x \in Source \X Source : x[1] \in NewerSources(x[2])}

LEMMA NewerOrders ==
  /\ IsOrder(NewerOrder, Source)
  /\ \A s \in Source : Before(NewerOrder, Source, s) = NewerSources(s)
<1>2. \A s, t \in Source : <<s, t>> \in NewerOrder <=>
        t # Direct /\ (s = Direct \/ (s \in Advance /\ s > t))
  BY DEF NewerOrder, NewerSources
<1>3. \A s \in Source : s = Direct \/ s \in Advance
  BY Sizes
<1>4. IsOrder(NewerOrder, Source)
  <2>1. \A s \in Source : ~ s > s
    <3>1. \A x \in Nat : ~ x > x
      OBVIOUS
    <3> QED
      BY <3>1, Sizes
  <2>2. \A s, t \in Source : s = t \/ s > t \/ t > s
    <3>1. \A x, y \in Nat : x = y \/ x > y \/ y > x
      OBVIOUS
    <3> QED
      BY <3>1, Sizes
  <2>3. \A s, t, u \in Source : s > t /\ t > u => s > u
    <3>1. \A x, y, z \in Nat : x > y /\ y > z => x > z
      OBVIOUS
    <3> QED
      BY <3>1, Sizes
  <2>4. \A s \in Source : <<s, s>> \notin NewerOrder
    BY <1>2, <1>3, <2>1
  <2>5. \A s, t \in Source : s = t \/ <<s, t>> \in NewerOrder \/ <<t, s>> \in NewerOrder
    BY <1>2, <1>3, <2>2
  <2>6. \A s, t, u \in Source :
          <<s, t>> \in NewerOrder /\ <<t, u>> \in NewerOrder => <<s, u>> \in NewerOrder
    BY <1>2, <1>3, <2>3
  <2> QED
    BY <2>4, <2>5, <2>6 DEF IsOrder
<1>5. \A s \in Source : Before(NewerOrder, Source, s) = NewerSources(s)
  BY <1>2, Sizes DEF Before, NewerSources
<1> QED
  BY <1>4, <1>5

LEMMA LeftIs ==
  ASSUME NEW d \in Books, NEW q \in Purchase, NEW s \in Source
  PROVE  /\ Excess(d, q) \in Nat
         /\ Left(d, q, s) = Excess(d, q)
              - SumFunctionOnSet([t \in Source |-> FromSource(d, q, t)], Before(NewerOrder, Source, s))
         /\ Left(d, q, s) \in Int
<1> DEFINE f == [t \in Source |-> FromSource(d, q, t)]
           N == NewerSources(s)
<1>1. Excess(d, q) \in Nat
  BY PaidIsNat, TotalsTyped DEF Excess, Positive
<1>2. N \in SUBSET Source /\ Before(NewerOrder, Source, s) = N
  BY NewerOrders, Sizes DEF Before
<1>3. \A t \in Source : f[t] \in Nat /\ f[t] = FromSource(d, q, t)
  BY FromSourceIsNat
<1>4. [t \in N |-> FromSource(d, q, t)] = [t \in N |-> f[t]]
  BY <1>2, <1>3
<1>5. Left(d, q, s) = Excess(d, q) - SumFunction([t \in N |-> f[t]])
  BY <1>4 DEF Left
<1> HIDE DEF f, N
<1>6. SumFunction([t \in N |-> f[t]]) = SumFunctionOnSet(f, N) /\ SumFunctionOnSet(f, N) \in Nat
  BY <1>2, <1>3, Sizes, SumPart
<1>7. /\ Left(d, q, s) = Excess(d, q) - SumFunctionOnSet(f, Before(NewerOrder, Source, s))
      /\ Left(d, q, s) \in Int
  BY <1>1, <1>2, <1>5, <1>6
<1> QED
  BY <1>1, <1>7 DEF f

LEMMA SameBounds == (\A m, n : Least(m, n) = Lower(m, n)) /\ (\A n : Positive(n) = Floored(n))
BY DEF Least, Positive, Lower, Floored

LEMMA BackIs ==
  ASSUME NEW d \in Books, NEW q \in Purchase, NEW s \in Source
  PROVE  /\ \A n \in Copy : Back(d, q, s, n) \in Nat /\ Back(d, q, s, n) <= Recorded(d, q, s, n)
         /\ BackTo(d, q, s) = Least(FromSource(d, q, s), Positive(Left(d, q, s)))
         /\ BackTo(d, q, s) \in Nat /\ BackTo(d, q, s) <= FromSource(d, q, s)
<1> DEFINE f == [n \in Copy |-> Recorded(d, q, s, n)]
           g == [n \in Copy |-> Back(d, q, s, n)]
           left == Left(d, q, s)
           less == Larger(Copy)
<1>1. left \in Int
  BY LeftIs
<1>2. \A n \in Copy : f[n] \in Nat /\ f[n] = Recorded(d, q, s, n) /\ g[n] = Back(d, q, s, n)
  BY RecordedIsNat
<1>3. IsOrder(less, Copy) /\ \A n \in Copy : Before(less, Copy, n) = {m \in Copy : m > n}
  BY Sizes, LargerOrders
<1>4. ASSUME NEW n \in Copy
      PROVE  g[n] = Least(f[n], Positive(left - SumFunctionOnSet(f, Before(less, Copy, n))))
  <2> DEFINE N == {m \in Copy : m > n}
  <2>1. [m \in N |-> Recorded(d, q, s, m)] = [m \in N |-> f[m]]
    BY <1>2
  <2>2. Back(d, q, s, n) = Least(Recorded(d, q, s, n), Positive(left - SumFunction([m \in N |-> f[m]])))
    BY <2>1 DEF Back
  <2>3. N \in SUBSET Copy /\ Before(less, Copy, n) = N
    BY <1>3
  <2> HIDE DEF f, g, left, less, N
  <2>4. SumFunction([m \in N |-> f[m]]) = SumFunctionOnSet(f, N)
    BY <1>2, <2>3, Sizes, SumPart
  <2> QED
    BY <1>2, <2>2, <2>3, <2>4
<1>5. DOMAIN f = Copy /\ DOMAIN g = Copy
  OBVIOUS
<1>6. FromSource(d, q, s) = SumFunctionOnSet(f, Copy) /\ BackTo(d, q, s) = SumFunctionOnSet(g, Copy)
  BY <1>5 DEF FromSource, BackTo, SumFunction
<1> HIDE DEF f, g, less, left
<1>7. /\ \A n \in Copy : g[n] \in Nat /\ g[n] <= f[n]
      /\ SumFunctionOnSet(g, Copy) = Least(SumFunctionOnSet(f, Copy), Positive(left))
  <2>1. InTurn(g, f, Copy, less, left)
    BY <1>2, <1>4, SameBounds DEF InTurn
  <2>2. /\ \A n \in Copy : g[n] \in Nat /\ g[n] <= f[n]
        /\ SumFunctionOnSet(g, Copy) = Lower(SumFunctionOnSet(f, Copy), Floored(left))
    BY <1>1, <1>3, <2>1, Sizes, NewestFirst
  <2> QED
    BY <2>2, SameBounds
<1>8. BackTo(d, q, s) = Least(FromSource(d, q, s), Positive(Left(d, q, s)))
  BY <1>6, <1>7 DEF left
<1>9. /\ Least(FromSource(d, q, s), Positive(left)) \in Nat
      /\ Least(FromSource(d, q, s), Positive(left)) <= FromSource(d, q, s)
  BY <1>1, FromSourceIsNat DEF Least, Positive
<1> QED
  BY <1>2, <1>7, <1>8, <1>9 DEF left

LEMMA AllBack ==
  ASSUME NEW d \in Books, NEW q \in Purchase
  PROVE  SumFunctionOnSet([s \in Source |-> BackTo(d, q, s)], Source)
           = Least(Paid(d, q), Excess(d, q))
<1> DEFINE f == [s \in Source |-> FromSource(d, q, s)]
           g == [s \in Source |-> BackTo(d, q, s)]
           left == Excess(d, q)
<1>1. left \in Nat
  BY PaidIsNat, TotalsTyped DEF Excess, Positive
<1>2. \A s \in Source : f[s] \in Nat
  BY FromSourceIsNat
<1>3. ASSUME NEW s \in Source
      PROVE  g[s] = Least(f[s], Positive(left - SumFunctionOnSet(f, Before(NewerOrder, Source, s))))
  BY BackIs, LeftIs
<1>4. DOMAIN f = Source
  OBVIOUS
<1>5. Paid(d, q) = SumFunctionOnSet(f, Source)
  BY <1>4 DEF Paid, SumFunction
<1> HIDE DEF f, g, left
<1>6. SumFunctionOnSet(g, Source) = Least(SumFunctionOnSet(f, Source), Positive(left))
  <2>1. InTurn(g, f, Source, NewerOrder, left)
    BY <1>2, <1>3, SameBounds DEF InTurn
  <2>2. left \in Int
    BY <1>1
  <2>3. SumFunctionOnSet(g, Source) = Lower(SumFunctionOnSet(f, Source), Floored(left))
    BY <2>1, <2>2, Sizes, NewerOrders, NewestFirst
  <2> QED
    BY <2>3, SameBounds
<1>7. Positive(left) = left
  BY <1>1 DEF Positive
<1> QED
  BY <1>5, <1>6, <1>7 DEF g, left

(* One payment and one advance of a release. *)
LEMMA TakenRow ==
  ASSUME NEW row \in PaymentRow, RowOK(row), NEW k \in Nat,
         k <= IF row.state = "RECORDED" THEN row.amount ELSE 0
  PROVE  LET new == TakenFrom(row, k)
         IN  /\ new \in PaymentRow /\ RowOK(new)
             /\ new.state = "none" <=> row.state = "none"
             /\ row.state = "none" => new = row
             /\ (IF row.state = "RECORDED" THEN row.amount ELSE 0)
                  = (IF new.state = "RECORDED" THEN new.amount ELSE 0) + k
<1>1. row.amount \in Nat /\ row.state \in PaymentState
  BY DEF PaymentRow
<1>2. CASE k = 0
  <2>1. TakenFrom(row, k) = row
    BY <1>2 DEF TakenFrom
  <2> QED
    BY <1>1, <1>2, <2>1
<1>3. CASE k # 0
  <2>1. row.state = "RECORDED" /\ k <= row.amount /\ row.amount > 0
    BY <1>1, <1>3
  <2>2. CASE k = row.amount
    <3>1. PICK new : new = [row EXCEPT !.state = "REVERSED"]
      OBVIOUS
    <3>2. new \in PaymentRow /\ new.state = "REVERSED" /\ new.amount = row.amount
      BY <3>1 DEF PaymentRow, PaymentState
    <3>3. TakenFrom(row, k) = new
      BY <1>3, <2>2, <3>1 DEF TakenFrom
    <3> QED
      BY <1>1, <2>1, <2>2, <3>2, <3>3 DEF RowOK
  <2>3. CASE k # row.amount
    <3>1. PICK new : new = [row EXCEPT !.amount = @ - k]
      OBVIOUS
    <3>2. row.amount - k \in Nat /\ row.amount - k > 0
      BY <1>1, <2>1, <2>3
    <3>3. new \in PaymentRow /\ new.state = "RECORDED" /\ new.amount = row.amount - k
      BY <2>1, <3>1, <3>2 DEF PaymentRow
    <3>4. TakenFrom(row, k) = new
      BY <1>3, <2>3, <3>1 DEF TakenFrom
    <3> QED
      BY <1>1, <2>1, <3>2, <3>3, <3>4 DEF RowOK
  <2> QED
    BY <2>2, <2>3
<1> QED
  BY <1>2, <1>3

ReleasedAdvance(d, q, a, b) ==
  IF b = a /\ BackTo(d, q, Direct) > 0
  THEN [state |-> "RECORDED", amount |-> BackTo(d, q, Direct), remaining |-> BackTo(d, q, Direct)]
  ELSE GivenBack(d.advance[b], BackTo(d, q, b))

LEMMA ReleasedAdvanceIs ==
  ASSUME NEW d \in Books, NEW q \in Purchase, NEW a, NEW b \in Advance
  PROVE  LET v == ReleasedAdvance(d, q, a, b)
         IN  /\ v \in AdvanceRow
             /\ IF b = a /\ BackTo(d, q, Direct) > 0
                THEN /\ v.state = "RECORDED"
                     /\ v.amount = BackTo(d, q, Direct) /\ v.remaining = BackTo(d, q, Direct)
                ELSE /\ v.state = d.advance[b].state /\ v.amount = d.advance[b].amount
                     /\ v.remaining = d.advance[b].remaining + BackTo(d, q, b)
<1>1. BackTo(d, q, Direct) \in Nat /\ BackTo(d, q, b) \in Nat
  BY BackIs, Sizes
<1>2. d.advance[b] \in AdvanceRow /\ d.advance[b].remaining \in Int
  BY AdvanceTyped
<1>3. PICK v : v = ReleasedAdvance(d, q, a, b)
  OBVIOUS
<1>4. CASE b = a /\ BackTo(d, q, Direct) > 0
  <2>1. v = [state |-> "RECORDED", amount |-> BackTo(d, q, Direct), remaining |-> BackTo(d, q, Direct)]
    BY <1>3, <1>4 DEF ReleasedAdvance
  <2>2. v \in AdvanceRow
    BY <1>1, <2>1 DEF AdvanceRow
  <2> QED
    BY <1>3, <1>4, <2>1, <2>2
<1>5. CASE ~ (b = a /\ BackTo(d, q, Direct) > 0)
  <2>1. v = GivenBack(d.advance[b], BackTo(d, q, b))
    BY <1>3, <1>5 DEF ReleasedAdvance
  <2>2. /\ v \in AdvanceRow /\ v.state = d.advance[b].state /\ v.amount = d.advance[b].amount
        /\ v.remaining = d.advance[b].remaining + BackTo(d, q, b)
    BY <1>1, <1>2, <2>1 DEF GivenBack, AdvanceRow
  <2> QED
    BY <1>3, <1>5, <2>2
<1> QED
  BY <1>4, <1>5

ReleasedPay(d, q) == [s \in Source |-> [n \in Copy |-> TakenFrom(d.pay[q][s][n], Back(d, q, s, n))]]

LEMMA ReleaseIs ==
  ASSUME NEW d \in Books, RowsOK(d), NEW q \in Purchase, NEW a
  PROVE  LET e == Release(d, q, a)
         IN  /\ e \in Books /\ e.purchase = d.purchase
             /\ \A b \in Advance : e.advance[b] = ReleasedAdvance(d, q, a, b)
             /\ \A p \in Purchase \ {q} : e.pay[p] = d.pay[p]
             /\ \A s \in Source, n \in Copy :
                  e.pay[q][s][n] = TakenFrom(d.pay[q][s][n], Back(d, q, s, n))
<1>1. PICK u : u = ReleasedPay(d, q)
  OBVIOUS
<1>2. PICK y : y = [d.pay EXCEPT ![q] = u]
  OBVIOUS
<1>3. PICK v : v = [b \in Advance |-> ReleasedAdvance(d, q, a, b)]
  OBVIOUS
<1>4. PICK e : e = [d EXCEPT !.pay = y, !.advance = v]
  OBVIOUS
<1>5. e = Release(d, q, a)
  <2>1. PICK f : f = [d EXCEPT !.pay[q] = u]
    OBVIOUS
  <2>2. f = [d EXCEPT !.pay = y]
    BY <1>2, <2>1
  <2>3. [d EXCEPT !.pay[q] = u, !.advance = v] = [f EXCEPT !.advance = v]
    BY <2>1, Zenon
  <2>4. e = [f EXCEPT !.advance = v]
    BY <1>4, <2>2, Zenon
  <2>5. Release(d, q, a) = [d EXCEPT !.pay[q] = u, !.advance = v]
    BY <1>1, <1>3, Zenon DEF Release, ReleasedPay, ReleasedAdvance
  <2> QED
    BY <2>3, <2>4, <2>5, Zenon
<1>6. e = [purchase |-> d.purchase, advance |-> v, pay |-> y]
  BY <1>4, BooksWith
<1>7. v \in [Advance -> AdvanceRow] /\ \A b \in Advance : v[b] = ReleasedAdvance(d, q, a, b)
  BY <1>3, ReleasedAdvanceIs
<1>8. \A s \in Source, n \in Copy : TakenFrom(d.pay[q][s][n], Back(d, q, s, n)) \in PaymentRow
  <2> TAKE s \in Source, n \in Copy
  <2>1. Back(d, q, s, n) \in Nat /\ Back(d, q, s, n) <= Recorded(d, q, s, n)
    BY BackIs
  <2>2. d.pay[q][s][n] \in PaymentRow /\ RowOK(d.pay[q][s][n])
    BY RowTyped DEF RowsOK
  <2> QED
    BY <2>1, <2>2, TakenRow DEF Recorded
<1>9. u \in [Source -> [Copy -> PaymentRow]]
      /\ \A s \in Source, n \in Copy : u[s][n] = TakenFrom(d.pay[q][s][n], Back(d, q, s, n))
  BY <1>1, <1>8 DEF ReleasedPay
<1>10. y \in PayType /\ y[q] = u /\ \A p \in Purchase \ {q} : y[p] = d.pay[p]
  BY <1>2, <1>9 DEF Books, PayType
<1>11. e \in Books /\ e.purchase = d.purchase /\ e.advance = v /\ e.pay = y
  BY <1>6, <1>7, <1>10 DEF Books, PayType
<1> QED
  BY <1>5, <1>7, <1>9, <1>10, <1>11

(* What is left after a release: the sums, less what went back. *)
LEMMA ReleasedSums ==
  ASSUME NEW d \in Books, RowsOK(d), NEW q \in Purchase, NEW a, IsActive(d, q), NetTotal(d, q) >= 0
  PROVE  LET e == Release(d, q, a)
         IN  /\ RowsOK(e)
             /\ Paid(e, q) <= NetTotal(d, q)
             /\ \A s \in Source : FromSource(d, q, s) = FromSource(e, q, s) + BackTo(d, q, s)
             /\ \A b \in Advance : Committed(d, b) = Committed(e, b) + BackTo(d, q, b)
             /\ \A p \in Purchase, s \in Source, n \in Copy :
                  \/ e.pay[p][s][n] = d.pay[p][s][n]
                  \/ p = q /\ d.pay[p][s][n].state # "none" /\ e.pay[p][s][n].state # "none"
<1>1. PICK e : e = Release(d, q, a)
  OBVIOUS
<1>2. /\ e \in Books /\ e.purchase = d.purchase
      /\ \A p \in Purchase \ {q} : e.pay[p] = d.pay[p]
      /\ \A s \in Source, n \in Copy :
           e.pay[q][s][n] = TakenFrom(d.pay[q][s][n], Back(d, q, s, n))
  BY <1>1, ReleaseIs
<1>3. ASSUME NEW s \in Source, NEW n \in Copy
      PROVE  /\ RowOK(e.pay[q][s][n])
             /\ e.pay[q][s][n].state = "none" <=> d.pay[q][s][n].state = "none"
             /\ d.pay[q][s][n].state = "none" => e.pay[q][s][n] = d.pay[q][s][n]
             /\ Recorded(d, q, s, n) = Recorded(e, q, s, n) + Back(d, q, s, n)
  <2>1. Back(d, q, s, n) \in Nat /\ Back(d, q, s, n) <= Recorded(d, q, s, n)
    BY BackIs
  <2>2. d.pay[q][s][n] \in PaymentRow /\ RowOK(d.pay[q][s][n])
    BY RowTyped DEF RowsOK
  <2>3. PICK row : row = d.pay[q][s][n]
    OBVIOUS
  <2>4. PICK k : k = Back(d, q, s, n)
    OBVIOUS
  <2>5. PICK new : new = TakenFrom(row, k)
    OBVIOUS
  <2>6. /\ RowOK(new)
        /\ new.state = "none" <=> row.state = "none"
        /\ row.state = "none" => new = row
        /\ (IF row.state = "RECORDED" THEN row.amount ELSE 0)
             = (IF new.state = "RECORDED" THEN new.amount ELSE 0) + k
    <3>1. k \in Nat /\ row \in PaymentRow /\ RowOK(row)
          /\ k <= IF row.state = "RECORDED" THEN row.amount ELSE 0
      BY <2>1, <2>2, <2>3, <2>4 DEF Recorded
    <3> QED
      BY <2>5, <3>1, TakenRow
  <2>7. e.pay[q][s][n] = new
    BY <1>2, <2>3, <2>4, <2>5
  <2> QED
    BY <2>3, <2>4, <2>6, <2>7 DEF Recorded
<1>4. ASSUME NEW s \in Source
      PROVE  FromSource(d, q, s) = FromSource(e, q, s) + BackTo(d, q, s)
  <2> DEFINE h == [n \in Copy |-> Recorded(d, q, s, n)]
             f == [n \in Copy |-> Recorded(e, q, s, n)]
             g == [n \in Copy |-> Back(d, q, s, n)]
  <2>1. AddUp(h, f, g, Copy)
    <3>1. \A n \in Copy : f[n] \in Int /\ g[n] \in Int /\ h[n] = f[n] + g[n]
      BY <1>2, <1>3, RecordedIsNat, BackIs
    <3> QED
      BY <3>1 DEF AddUp
  <2>2. DOMAIN h = Copy /\ DOMAIN f = Copy /\ DOMAIN g = Copy
    OBVIOUS
  <2>3. /\ FromSource(d, q, s) = SumFunctionOnSet(h, Copy)
        /\ FromSource(e, q, s) = SumFunctionOnSet(f, Copy)
        /\ BackTo(d, q, s) = SumFunctionOnSet(g, Copy)
    BY <2>2 DEF FromSource, BackTo, SumFunction
  <2> HIDE DEF h, f, g
  <2> QED
    BY <2>1, <2>3, Sizes, SumAddUp
<1>5. Paid(d, q) = Paid(e, q) + Least(Paid(d, q), Excess(d, q))
  <2> DEFINE h == [s \in Source |-> FromSource(d, q, s)]
             f == [s \in Source |-> FromSource(e, q, s)]
             g == [s \in Source |-> BackTo(d, q, s)]
  <2>1. AddUp(h, f, g, Source)
    <3>1. \A s \in Source : f[s] \in Int /\ g[s] \in Int /\ h[s] = f[s] + g[s]
      BY <1>2, <1>4, FromSourceIsNat, BackIs
    <3> QED
      BY <3>1 DEF AddUp
  <2>2. DOMAIN h = Source /\ DOMAIN f = Source
    OBVIOUS
  <2>3. /\ Paid(d, q) = SumFunctionOnSet(h, Source) /\ Paid(e, q) = SumFunctionOnSet(f, Source)
        /\ SumFunctionOnSet(g, Source) = Least(Paid(d, q), Excess(d, q))
    BY <2>2, AllBack DEF Paid, SumFunction
  <2> HIDE DEF h, f, g
  <2>4. SumFunctionOnSet(h, Source) = SumFunctionOnSet(f, Source) + SumFunctionOnSet(g, Source)
    BY <2>1, Sizes, SumAddUp
  <2> QED
    BY <2>3, <2>4
<1>6. Paid(e, q) <= NetTotal(d, q)
  <2>1. Paid(d, q) \in Nat /\ Paid(e, q) \in Nat /\ NetTotal(d, q) \in Int
    BY <1>2, PaidIsNat, TotalsTyped
  <2> QED
    BY <1>5, <2>1 DEF Excess, Positive, Least
<1>7. ASSUME NEW b \in Advance
      PROVE  Committed(d, b) = Committed(e, b) + BackTo(d, q, b)
  <2>1. \A p \in Purchase \ {q} : Standing(e, p, b) = Standing(d, p, b)
    BY <1>2 DEF Standing, FromSource, Recorded
  <2>2. Standing(d, q, b) = FromSource(d, q, b) /\ Standing(e, q, b) = FromSource(e, q, b)
    BY <1>2 DEF Standing, IsActive
  <2>3. FromSource(d, q, b) = FromSource(e, q, b) + BackTo(d, q, b)
    BY <1>4, Sizes
  <2>4. Committed(e, b) = Committed(d, b) + Standing(e, q, b) - Standing(d, q, b)
    BY <1>2, <2>1, CommittedExcept
  <2>5. /\ Committed(d, b) \in Nat /\ Committed(e, b) \in Nat /\ FromSource(d, q, b) \in Nat
        /\ FromSource(e, q, b) \in Nat /\ BackTo(d, q, b) \in Nat
    BY <1>2, CommittedIsNat, FromSourceIsNat, BackIs, Sizes
  <2> QED
    BY <2>2, <2>3, <2>4, <2>5
<1>8. RowsOK(e)
  BY <1>2, <1>3 DEF RowsOK
<1>9. \A p \in Purchase, s \in Source, n \in Copy :
        \/ e.pay[p][s][n] = d.pay[p][s][n]
        \/ p = q /\ d.pay[p][s][n].state # "none" /\ e.pay[p][s][n].state # "none"
  BY <1>2, <1>3
<1> QED
  BY <1>1, <1>4, <1>6, <1>7, <1>8, <1>9

LEMMA BackAtMostExcess ==
  ASSUME NEW d \in Books, NEW q \in Purchase, NEW s \in Source
  PROVE  BackTo(d, q, s) <= Excess(d, q)
<1> DEFINE g == [t \in Source |-> BackTo(d, q, t)]
<1>1. \A t \in Source : g[t] \in Nat
  BY BackIs
<1>2. g[s] = BackTo(d, q, s) /\ SumFunctionOnSet(g, Source) = Least(Paid(d, q), Excess(d, q))
  BY AllBack
<1> HIDE DEF g
<1>3. g[s] <= SumFunctionOnSet(g, Source)
  BY <1>1, Sizes, SumTerm
<1>4. Paid(d, q) \in Nat /\ Excess(d, q) \in Nat /\ g[s] \in Nat
  BY <1>1, PaidIsNat, LeftIs
<1> QED
  BY <1>2, <1>3, <1>4 DEF Least

(* What the release starts from: the new total, and what is paid with it.  *)
Edited(b, c, q, total, more) ==
  /\ b = [books EXCEPT !.purchase[q].total = total]
  /\ c = WithDirect(b, q, more)
  /\ IsActive(books, q) /\ NetTotal(b, q) >= 0
  /\ more > 0 => Paid(b, q) + more <= NetTotal(b, q) /\ Unused(b, q, Direct) # {}

LEMMA EditedIs ==
  ASSUME IInv, NEW q \in Purchase, NEW total \in Nat, NEW more \in Nat, NEW b, NEW c,
         Edited(b, c, q, total, more)
  PROVE  /\ c \in Books /\ RowsOK(c) /\ c.advance = books.advance
         /\ IsActive(c, q) /\ NetTotal(c, q) >= 0
         /\ more = 0 => c = b
         /\ more # 0 => Excess(c, q) = 0
         /\ \A p \in Purchase \ {q} : c.purchase[p] = books.purchase[p] /\ c.pay[p] = books.pay[p]
         /\ \A s \in Source, n \in Copy :
              \/ c.pay[q][s][n] = books.pay[q][s][n]
              \/ n \in Unused(books, q, Direct) /\ s = Direct
         /\ \A a \in Advance : Committed(c, a) = Committed(books, a)
<1>1. books \in Books /\ RowsOK(books) /\ books.purchase[q] \in PurchaseRow
  BY BooksNow, TotalsTyped
<1>2. PICK row : row = [books.purchase[q] EXCEPT !.total = total]
  OBVIOUS
<1>3. row \in PurchaseRow /\ row.state = books.purchase[q].state
  BY <1>1, <1>2 DEF PurchaseRow
<1>4. b = [books EXCEPT !.purchase[q] = row]
  BY <1>2 DEF Edited
<1>5. /\ b \in Books /\ b.advance = books.advance /\ b.pay = books.pay
      /\ b.purchase[q] = row
      /\ \A p \in Purchase \ {q} : b.purchase[p] = books.purchase[p]
  BY <1>1, <1>3, <1>4 DEF Books
<1>6. /\ IsActive(b, q) /\ RowsOK(b)
      /\ \A a \in Advance : Committed(b, a) = Committed(books, a)
  <2>1. \A p \in Purchase : b.purchase[p].state = books.purchase[p].state
    BY <1>3, <1>5
  <2>2. IsActive(books, q)
    BY DEF Edited
  <2> QED
    BY <1>1, <1>5, <2>1, <2>2, SameReads DEF RowsOK
<1>7. Paid(b, q) \in Nat /\ NetTotal(b, q) \in Int /\ NetTotal(b, q) >= 0
  BY <1>5, PaidIsNat, TotalsTyped DEF Edited
<1>8. Unused(b, q, Direct) = Unused(books, q, Direct)
  BY <1>5 DEF Unused
<1>9. CASE more = 0
  <2>1. c = b
    BY <1>9 DEF Edited, WithDirect
  <2> QED
    BY <1>5, <1>6, <1>7, <1>9, <2>1
<1>10. CASE more # 0
  <2>1. more > 0 /\ c = WithDirect(b, q, more) /\ Unused(b, q, Direct) # {}
        /\ Paid(b, q) + more <= NetTotal(b, q)
    BY <1>10 DEF Edited
  <2>2. /\ c \in Books /\ RowsOK(c) /\ c.purchase = b.purchase /\ c.advance = b.advance
        /\ \A p \in Purchase, s \in Source, n \in Copy :
             \/ c.pay[p][s][n] = b.pay[p][s][n]
             \/ p = q /\ n \in Unused(b, q, Direct) /\ s = Direct
        /\ \A p \in Purchase \ {q} : c.pay[p] = b.pay[p]
        /\ Paid(c, q) = Paid(b, q) + more
        /\ \A a \in Advance : Committed(c, a) = Committed(b, a)
    BY <1>5, <1>6, <2>1, DirectPaid
  <2>3. NetTotal(c, q) = NetTotal(b, q) /\ IsActive(c, q)
    BY <1>6, <2>2 DEF NetTotal, IsActive
  <2>4. Excess(c, q) = 0
    BY <1>7, <2>1, <2>2, <2>3 DEF Excess, Positive
  <2> QED
    BY <1>5, <1>6, <1>7, <1>8, <1>10, <2>2, <2>3, <2>4
<1> QED
  BY <1>9, <1>10

LEMMA UpdatePurchaseStep ==
  ASSUME IInv, NEW r \in Request, NEW q \in Purchase, NEW total \in Amounts, NEW more \in Amounts,
         NEW a \in Advance \cup {NoAdvance}, UpdatePurchase(r, q, total, more, a)
  PROVE  IInv'
<1>1. PICK b : b = [books EXCEPT !.purchase[q].total = total]
  OBVIOUS
<1>2. PICK c : c = WithDirect(b, q, more)
  OBVIOUS
<1>3. PICK d : d = Release(c, q, a)
  OBVIOUS
<1>4. PICK op : op = IF more > 0 THEN "PayMore" ELSE "UpdatePurchase"
  OBVIOUS
<1>5. /\ Edited(b, c, q, total, more)
      /\ BackTo(b, q, Direct) > 0 => a \in Advance /\ NewAdvance(a)
      /\ SubmitApplied(r, op, q, d, {q})
  BY <1>1, <1>2, <1>3, <1>4 DEF UpdatePurchase, Edited
<1>6. total \in Nat /\ more \in Nat /\ books \in Books
  BY SizesAreNat, BooksNow
<1>7. /\ c \in Books /\ RowsOK(c) /\ c.advance = books.advance
      /\ IsActive(c, q) /\ NetTotal(c, q) >= 0
      /\ more = 0 => c = b
      /\ more # 0 => Excess(c, q) = 0
      /\ \A p \in Purchase \ {q} : c.purchase[p] = books.purchase[p] /\ c.pay[p] = books.pay[p]
      /\ \A s \in Source, n \in Copy :
           \/ c.pay[q][s][n] = books.pay[q][s][n]
           \/ n \in Unused(books, q, Direct) /\ s = Direct
      /\ \A x \in Advance : Committed(c, x) = Committed(books, x)
  BY <1>5, <1>6, EditedIs
<1>8. /\ d \in Books /\ d.purchase = c.purchase
      /\ \A x \in Advance : d.advance[x] = ReleasedAdvance(c, q, a, x)
      /\ \A p \in Purchase \ {q} : d.pay[p] = c.pay[p]
  BY <1>3, <1>7, ReleaseIs
<1>9. /\ RowsOK(d) /\ Paid(d, q) <= NetTotal(c, q)
      /\ \A x \in Advance : Committed(c, x) = Committed(d, x) + BackTo(c, q, x)
      /\ \A p \in Purchase, s \in Source, n \in Copy :
           \/ d.pay[p][s][n] = c.pay[p][s][n]
           \/ p = q /\ c.pay[p][s][n].state # "none" /\ d.pay[p][s][n].state # "none"
  BY <1>3, <1>7, ReleasedSums
<1>10. BackTo(c, q, Direct) > 0 => books.advance[a].state = "none" /\ a \in Advance
  <2> SUFFICES ASSUME BackTo(c, q, Direct) > 0
               PROVE  books.advance[a].state = "none" /\ a \in Advance
    OBVIOUS
  <2>1. BackTo(c, q, Direct) \in Nat /\ BackTo(c, q, Direct) <= Excess(c, q) /\ Excess(c, q) \in Nat
    BY <1>7, BackIs, LeftIs, BackAtMostExcess, Sizes
  <2>2. Excess(c, q) # 0
    BY <2>1
  <2>3. c = b
    BY <1>7, <2>2
  <2> QED
    BY <1>5, <2>3 DEF NewAdvance
<1>11. ASSUME NEW x \in Advance
       PROVE  LeadsAdvance(d, x)
  <2>1. /\ Committed(books, x) \in Nat /\ Committed(d, x) \in Nat /\ BackTo(c, q, x) \in Nat
        /\ BackTo(c, q, Direct) \in Nat
        /\ books.advance[x].remaining \in Int /\ books.advance[x].amount \in Nat
    BY <1>6, <1>7, <1>8, CommittedIsNat, BackIs, AdvanceTyped, Sizes
  <2>2. Committed(books, x) = Committed(d, x) + BackTo(c, q, x)
    BY <1>7, <1>9
  <2>3. IF x = a /\ BackTo(c, q, Direct) > 0
        THEN /\ d.advance[x].state = "RECORDED"
             /\ d.advance[x].amount = BackTo(c, q, Direct)
             /\ d.advance[x].remaining = BackTo(c, q, Direct)
        ELSE /\ d.advance[x].state = books.advance[x].state
             /\ d.advance[x].amount = books.advance[x].amount
             /\ d.advance[x].remaining = books.advance[x].remaining + BackTo(c, q, x)
    BY <1>7, <1>8, ReleasedAdvanceIs
  <2>4. CASE x = a /\ BackTo(c, q, Direct) > 0
    <3>1. books.advance[x].state = "none"
      BY <1>10, <2>4
    <3>2. x \notin shaky => Committed(books, x) = 0
      BY <3>1, NoneCommitted
    <3>3. x \notin shaky => AdvanceOK(d, x)
      BY <2>1, <2>2, <2>3, <2>4, <3>2 DEF AdvanceOK
    <3> QED
      BY <3>1, <3>3 DEF LeadsAdvance
  <2>5. CASE ~ (x = a /\ BackTo(c, q, Direct) > 0)
    <3>1. PICK k \in Nat : k = BackTo(c, q, x)
      BY <2>1
    <3>2. /\ d.advance[x].state = books.advance[x].state
          /\ d.advance[x].amount = books.advance[x].amount
          /\ d.advance[x].remaining = books.advance[x].remaining + k
          /\ Committed(books, x) = Committed(d, x) + k
      BY <2>2, <2>3, <2>5, <3>1
    <3>3. AdvanceOK(books, x) => AdvanceOK(d, x)
      BY <2>1, <3>2 DEF AdvanceOK
    <3> QED
      BY <3>2, <3>3, BooksNow DEF LeadsAdvance
  <2> QED
    BY <2>4, <2>5
<1>12. ASSUME NEW p \in Purchase
       PROVE  LeadsPurchase(q, d, {q}, p)
  <2>1. CASE p # q
    <3>1. d.purchase[p] = books.purchase[p] /\ d.pay[p] = books.pay[p]
      BY <1>7, <1>8, <2>1
    <3> QED
      BY <2>1, <3>1, SamePurchaseLeads
  <2>2. CASE p = q
    <3>1. d.purchase[q].state = "active" /\ books.purchase[q].state = "active"
      BY <1>5, <1>7, <1>8 DEF IsActive, Edited
    <3>2. NetTotal(d, q) = NetTotal(c, q)
      BY <1>8 DEF NetTotal
    <3>3. WithinOK(d, q)
      BY <1>9, <3>2 DEF WithinOK
    <3> QED
      BY <2>2, <3>1, <3>3 DEF LeadsPurchase
  <2> QED
    BY <2>1, <2>2
<1>13. op \in {"UpdatePurchase", "PayMore"} /\ Held(op, q, q)
  BY <1>4 DEF Held
<1>14. \A s \in Source, n \in Copy : c.pay[q][s][n] # books.pay[q][s][n] =>
         /\ books.pay[q][s][n].state = "none"
         /\ \A k \in Request : job[k].after.pay[q][s][n].state = "none"
  BY <1>7 DEF Unused
<1>15. ASSUME NEW p \in Purchase, NEW s \in Source, NEW n \in Copy
       PROVE  LeadsRow(op, q, d, p, s, n)
  <2>1. CASE p # q
    BY <1>7, <1>8, <2>1, SameRowLeads
  <2>2. CASE p = q
    BY <1>9, <1>13, <1>14, <2>2 DEF LeadsRow
  <2> QED
    BY <2>1, <2>2
<1>16. Leads(op, q, d, {q})
  BY <1>8, <1>9, <1>11, <1>12, <1>13, <1>15 DEF Leads, Ops
<1>17. Mild(op, q, d)
  <2>1. \A p \in Purchase : d.purchase[p].state = "gone" => books.purchase[p].state = "gone"
    BY <1>7, <1>8 DEF IsActive
  <2>2. ASSUME NEW p \in Purchase, ~ Held(op, q, p)
        PROVE  d.pay[p] = books.pay[p]
    BY <1>7, <1>8, <1>13, <2>2
  <2> QED
    BY <2>1, <2>2 DEF Mild
<1> QED
  BY <1>5, <1>16, <1>17, SubmitAppliedStep

------------------------------------------------------------------------------
(* The theorems. *)

LEMMA NextStep == IInv /\ [Next]_vars => IInv'
<1> SUFFICES ASSUME IInv, [Next]_vars
             PROVE  IInv'
  OBVIOUS
<1>1. ASSUME NEW r \in Request, Purchases(r)
      PROVE  IInv'
  <2>1. PICK q \in Purchase :
          \/ \E total, paid \in Amounts : CreatePurchase(r, q, total, paid)
          \/ \E total, more \in Amounts, a \in Advance \cup {NoAdvance} :
               UpdatePurchase(r, q, total, more, a)
          \/ \E amount \in Amounts : CreatePurchasePayment(r, q, amount)
          \/ \E s \in Source, n \in Copy : ReversePurchasePayment(r, q, s, n)
          \/ DeletePurchase(r, q)
    BY <1>1 DEF Purchases
  <2>2. ASSUME NEW total \in Amounts, NEW paid \in Amounts, CreatePurchase(r, q, total, paid)
        PROVE  IInv'
    BY <2>2, CreatePurchaseStep
  <2>3. ASSUME NEW total \in Amounts, NEW more \in Amounts, NEW a \in Advance \cup {NoAdvance},
               UpdatePurchase(r, q, total, more, a)
        PROVE  IInv'
    BY <2>3, UpdatePurchaseStep
  <2>4. ASSUME NEW amount \in Amounts, CreatePurchasePayment(r, q, amount)
        PROVE  IInv'
    BY <2>4, CreatePurchasePaymentStep
  <2>5. ASSUME NEW s \in Source, NEW n \in Copy, ReversePurchasePayment(r, q, s, n)
        PROVE  IInv'
    BY <2>5, ReversePurchasePaymentStep
  <2>6. CASE DeletePurchase(r, q)
    BY <2>6, DeletePurchaseStep
  <2> QED
    BY <2>1, <2>2, <2>3, <2>4, <2>5, <2>6
<1>2. ASSUME NEW r \in Request, Advances(r)
      PROVE  IInv'
  <2>1. ASSUME NEW a \in Advance, ReverseAdvance(r, a)
        PROVE  IInv'
    BY <2>1, ReverseAdvanceStep
  <2>2. ASSUME NEW a \in Advance, NEW amount \in Amounts, CreateAdvance(r, a, amount)
        PROVE  IInv'
    BY <2>2, CreateAdvanceStep
  <2> QED
    BY <1>2, <2>1, <2>2 DEF Advances
<1>3. ASSUME NEW r \in Request, CleanUpMonth(r)
      PROVE  IInv'
  BY <1>3, CleanUpMonthStep
<1>4. ASSUME NEW r \in Request, NEW late \in BOOLEAN, Commit(r, late)
      PROVE  IInv'
  BY <1>4, CommitStep
<1>5. ASSUME NEW r \in Request, Fail(r)
      PROVE  IInv'
  BY <1>5, FailStep
<1>6. ASSUME NEW q \in Purchase, NEW effect \in {-1, 1}, CreateNote(q, effect)
      PROVE  IInv'
  BY <1>6, NoteStep
<1>7. CASE UNCHANGED vars
  BY <1>7 DEF vars, IInv, TypeInv, TypeOK, Sound, Jobs, Claims, InTouch
<1> QED
  BY <1>1, <1>2, <1>3, <1>4, <1>5, <1>6, <1>7 DEF Next

LEMMA Invariant == Spec => []IInv
BY InitInv, NextStep, PTL DEF Spec

(* Whatever requests write, and in whatever order they end, every table    *)
(* holds rows of its columns' types.                                       *)
THEOREM TypeInvariant == Spec => []TypeOK
<1>1. IInv => TypeOK
  BY DEF IInv, TypeInv
<1> QED
  BY <1>1, Invariant, PTL

(* The payments of a deleted purchase count neither as applied nor as      *)
(* standing.                                                               *)
LEMMA AppliedStands ==
  ASSUME NEW d \in Books, GoneOK(d), NEW a \in Advance
  PROVE  Applied(d, a) = Committed(d, a)
<1>1. ASSUME NEW q \in Purchase
      PROVE  Standing(d, q, a) = FromSource(d, q, a)
  <2>1. CASE d.purchase[q].state # "gone"
    BY <2>1 DEF Standing
  <2>2. CASE d.purchase[q].state = "gone"
    <3> DEFINE f == [n \in Copy |-> Recorded(d, q, a, n)]
    <3>1. \A n \in Copy : f[n] = 0
      BY <2>2, Sizes DEF GoneOK, Recorded
    <3>2. DOMAIN f = Copy
      OBVIOUS
    <3>3. FromSource(d, q, a) = SumFunctionOnSet(f, Copy)
      BY <3>2 DEF FromSource, SumFunction
    <3> HIDE DEF f
    <3>4. SumFunctionOnSet(f, Copy) = 0
      BY <3>1, Sizes, SumOfZeros
    <3> QED
      BY <2>2, <3>3, <3>4 DEF Standing
  <2> QED
    BY <2>1, <2>2
<1>2. [q \in Purchase |-> Standing(d, q, a)] = [q \in Purchase |-> FromSource(d, q, a)]
  BY <1>1
<1> QED
  BY <1>2 DEF Applied, Committed

(* remaining_amount of an advance is its amount less what recorded         *)
(* payments have taken of it, and never negative: creating, editing and    *)
(* deleting purchases, reversing payments, applying advances and the month *)
(* clean-up keep it so, for every advance that no two requests worked on   *)
(* at once.                                                                *)
THEOREM RemainderStays == Spec => []RemainderAgrees
<1>1. IInv => RemainderAgrees
  <2> SUFFICES ASSUME IInv, NEW a \in Advance \ shaky
               PROVE  /\ books.advance[a].remaining = books.advance[a].amount - Applied(books, a)
                      /\ books.advance[a].remaining >= 0
    BY DEF RemainderAgrees
  <2>1. AdvanceOK(books, a) /\ Applied(books, a) = Committed(books, a)
    BY BooksNow, AppliedStands
  <2> QED
    BY <2>1 DEF AdvanceOK
<1> QED
  BY <1>1, Invariant, PTL

(* paid_amount of a purchase is what its recorded payments add up to, for  *)
(* every purchase that no two requests worked on at once: each handler     *)
(* that touches a payment of it calls syncPurchasePaymentSnapshotTx.       *)
THEOREM SnapshotStays == Spec => []SnapshotAgrees
<1>1. IInv => SnapshotAgrees
  BY BooksNow DEF SnapshotAgrees, SnapshotOK
<1> QED
  BY <1>1, Invariant, PTL

(* No more is paid for an active purchase than its total and notes come    *)
(* to, if no two requests paid it at once and no note made it cheaper:     *)
(* direct payments are checked, advances are applied to what is missing,   *)
(* and an edit of the total releases what is too much.                     *)
THEOREM PaidStaysWithin == Spec => []PaidWithinNetTotal
<1>1. IInv => PaidWithinNetTotal
  BY BooksNow DEF PaidWithinNetTotal, WithinOK
<1> QED
  BY <1>1, Invariant, PTL

------------------------------------------------------------------------------
(***************************************************************************)
(* An edit keeps the client's money: what is released of direct payments   *)
(* is a new advance of the same amount, and nothing else that counts as    *)
(* sent changes.                                                           *)
(***************************************************************************)
Out(d, a) == IF d.advance[a].state = "RECORDED" THEN d.advance[a].amount ELSE 0
SentAhead(d) == SumFunctionOnSet([a \in Advance |-> Out(d, a)], Advance)
SentDirectly(d) == SumFunctionOnSet([q \in Purchase |-> FromSource(d, q, Direct)], Purchase)

LEMMA SentIs ==
  ASSUME NEW d \in Books
  PROVE  /\ Sent(d) = SentAhead(d) + SentDirectly(d)
         /\ SentAhead(d) \in Nat /\ SentDirectly(d) \in Nat
<1> DEFINE f == [a \in Advance |-> Out(d, a)]
           g == [q \in Purchase |-> FromSource(d, q, Direct)]
           P == {a \in Advance : d.advance[a].state = "RECORDED"}
           h == [a \in P |-> d.advance[a].amount]
<1>1. \A a \in Advance : f[a] \in Nat
  BY AdvanceTyped DEF Out
<1>2. \A q \in Purchase : g[q] \in Nat
  BY FromSourceIsNat, Sizes
<1>3. /\ \A a \in Advance \ P : f[a] = 0
      /\ \A a \in P : h[a] = f[a]
  BY DEF Out
<1>4. P \in SUBSET Advance /\ IsFiniteSet(P)
  BY Sizes, FS_Subset
<1>5. DOMAIN g = Purchase /\ DOMAIN h = P
  OBVIOUS
<1>6. /\ Sent(d) = SumFunctionOnSet(h, P) + SumFunctionOnSet(g, Purchase)
      /\ SentAhead(d) = SumFunctionOnSet(f, Advance)
      /\ SentDirectly(d) = SumFunctionOnSet(g, Purchase)
  BY <1>5 DEF Sent, SumFunction, SentAhead, SentDirectly
<1> HIDE DEF f, g, h, P
<1>7. SumFunctionOnSet(f, Advance) = SumFunctionOnSet(f, P)
  <2>1. \A a \in Advance : f[a] \in Int
    BY <1>1
  <2>2. \A a \in Advance \ P : f[a] = 0
    BY <1>3
  <2>3. IsFiniteSet(Advance)
    BY Sizes
  <2> QED
    BY <1>4, <2>1, <2>2, <2>3, SumOverPart
<1>8. SumFunctionOnSet(h, P) = SumFunctionOnSet(f, P)
  BY <1>3, <1>4, SumSame
<1>9. SumFunctionOnSet(f, Advance) \in Nat /\ SumFunctionOnSet(g, Purchase) \in Nat
  BY <1>1, <1>2, Sizes, SumIsNat
<1> QED
  BY <1>6, <1>7, <1>8, <1>9

LEMMA SentSame ==
  ASSUME NEW d \in Books, NEW e \in Books,
         \A a \in Advance : Out(e, a) = Out(d, a),
         \A q \in Purchase : FromSource(e, q, Direct) = FromSource(d, q, Direct)
  PROVE  Sent(e) = Sent(d)
<1>1. [a \in Advance |-> Out(e, a)] = [a \in Advance |-> Out(d, a)]
  OBVIOUS
<1>2. [q \in Purchase |-> FromSource(e, q, Direct)] = [q \in Purchase |-> FromSource(d, q, Direct)]
  OBVIOUS
<1> QED
  BY <1>1, <1>2, SentIs DEF SentAhead, SentDirectly

LEMMA ReleaseKeepsMoney ==
  ASSUME NEW d \in Books, RowsOK(d), NEW q \in Purchase, NEW a, IsActive(d, q), NetTotal(d, q) >= 0,
         BackTo(d, q, Direct) > 0 => a \in Advance /\ d.advance[a].state = "none"
  PROVE  Sent(Release(d, q, a)) = Sent(d)
<1>1. PICK e : e = Release(d, q, a)
  OBVIOUS
<1>2. PICK k \in Nat : k = BackTo(d, q, Direct)
  BY BackIs, Sizes
<1>3. /\ e \in Books
      /\ \A x \in Advance : e.advance[x] = ReleasedAdvance(d, q, a, x)
      /\ \A p \in Purchase \ {q} : e.pay[p] = d.pay[p]
      /\ FromSource(d, q, Direct) = FromSource(e, q, Direct) + k
  <2>1. /\ e \in Books
        /\ \A x \in Advance : e.advance[x] = ReleasedAdvance(d, q, a, x)
        /\ \A p \in Purchase \ {q} : e.pay[p] = d.pay[p]
    BY <1>1, ReleaseIs
  <2>2. \A s \in Source : FromSource(d, q, s) = FromSource(e, q, s) + BackTo(d, q, s)
    BY <1>1, ReleasedSums
  <2>3. FromSource(d, q, Direct) = FromSource(e, q, Direct) + k
    BY <1>2, <2>2, Sizes
  <2> QED
    BY <2>1, <2>3
<1>4. \A x \in Advance :
        IF x = a /\ k > 0
        THEN e.advance[x].state = "RECORDED" /\ e.advance[x].amount = k
        ELSE e.advance[x].state = d.advance[x].state /\ e.advance[x].amount = d.advance[x].amount
  BY <1>2, <1>3, ReleasedAdvanceIs
<1>5. CASE k = 0
  <2>1. \A x \in Advance : Out(e, x) = Out(d, x)
    BY <1>4, <1>5 DEF Out
  <2>2. FromSource(e, q, Direct) \in Nat
    BY <1>3, FromSourceIsNat, Sizes
  <2>3. \A p \in Purchase : FromSource(e, p, Direct) = FromSource(d, p, Direct)
    <3>1. \A p \in Purchase \ {q} : FromSource(e, p, Direct) = FromSource(d, p, Direct)
      BY <1>3 DEF FromSource, Recorded
    <3>2. FromSource(e, q, Direct) = FromSource(d, q, Direct)
      BY <1>3, <1>5, <2>2
    <3> QED
      BY <3>1, <3>2
  <2> QED
    BY <1>1, <1>3, <2>1, <2>3, SentSame
<1>6. CASE k > 0
  <2>1. a \in Advance /\ d.advance[a].state = "none"
    BY <1>2, <1>6
  <2>2. SentAhead(e) = SentAhead(d) + k
    <3> DEFINE f == [x \in Advance |-> Out(d, x)]
               g == [x \in Advance |-> Out(e, x)]
    <3>1. SameBut(f, g, Advance, a)
      <4>1. \A x \in Advance : f[x] \in Int /\ g[x] \in Int
        BY <1>3, AdvanceTyped DEF Out
      <4>2. \A x \in Advance \ {a} : f[x] = g[x]
        BY <1>4 DEF Out
      <4> QED
        BY <4>1, <4>2 DEF SameBut
    <3>2. f[a] = 0 /\ g[a] = k
      BY <1>4, <1>6, <2>1 DEF Out
    <3>3. SentAhead(d) = SumFunctionOnSet(f, Advance) /\ SentAhead(e) = SumFunctionOnSet(g, Advance)
      BY DEF SentAhead
    <3>4. SumFunctionOnSet(f, Advance) \in Nat
      BY <3>3, SentIs
    <3> HIDE DEF f, g
    <3>5. SumFunctionOnSet(g, Advance) = SumFunctionOnSet(f, Advance) + g[a] - f[a]
      BY <2>1, <3>1, Sizes, SumSameBut
    <3> QED
      BY <3>2, <3>3, <3>4, <3>5
  <2>3. SentDirectly(e) = SentDirectly(d) - k
    <3> DEFINE f == [p \in Purchase |-> FromSource(d, p, Direct)]
               g == [p \in Purchase |-> FromSource(e, p, Direct)]
    <3>1. SameBut(f, g, Purchase, q)
      <4>1. \A p \in Purchase : f[p] \in Int /\ g[p] \in Int
        BY <1>3, FromSourceIsNat, Sizes
      <4>2. \A p \in Purchase \ {q} : f[p] = g[p]
        BY <1>3 DEF FromSource, Recorded
      <4> QED
        BY <4>1, <4>2 DEF SameBut
    <3>2. f[q] = g[q] + k /\ g[q] \in Nat
      BY <1>3, FromSourceIsNat, Sizes
    <3>3. SentDirectly(d) = SumFunctionOnSet(f, Purchase) /\ SentDirectly(e) = SumFunctionOnSet(g, Purchase)
      BY DEF SentDirectly
    <3>4. SumFunctionOnSet(f, Purchase) \in Nat
      BY <3>3, SentIs
    <3> HIDE DEF f, g
    <3>5. SumFunctionOnSet(g, Purchase) = SumFunctionOnSet(f, Purchase) + g[q] - f[q]
      BY <3>1, Sizes, SumSameBut
    <3> QED
      BY <3>2, <3>3, <3>4, <3>5
  <2> QED
    BY <1>1, <1>3, <2>2, <2>3, SentIs
<1> QED
  BY <1>5, <1>6

LEMMA ApplyKeepsMoney ==
  ASSUME NEW d \in Books, CanApply(d)
  PROVE  LET e == AutoApply(d, Flows(d)) IN e \in Books /\ Sent(e) = Sent(d) /\ e.purchase = d.purchase
<1>1. PICK e : e = AutoApply(d, Flows(d))
  OBVIOUS
<1>2. /\ e \in Books /\ e.purchase = d.purchase
      /\ \A a \in Advance : e.advance[a].state = d.advance[a].state
                            /\ e.advance[a].amount = d.advance[a].amount
      /\ \A q \in Purchase : FlowOf(d, q, Direct) > 0 \/ e.pay[q][Direct] = d.pay[q][Direct]
  BY <1>1, AutoApplied, Sizes
<1>3. \A q \in Purchase : FlowOf(d, q, Direct) = 0
  BY DEF FlowOf
<1>4. \A q \in Purchase : e.pay[q][Direct] = d.pay[q][Direct]
  BY <1>2, <1>3
<1>5. \A q \in Purchase : FromSource(e, q, Direct) = FromSource(d, q, Direct)
  BY <1>4 DEF FromSource, Recorded
<1>6. \A a \in Advance : Out(e, a) = Out(d, a)
  BY <1>2 DEF Out
<1>7. Sent(e) = Sent(d)
  BY <1>2, <1>5, <1>6, SentSame
<1> QED
  BY <1>1, <1>2, <1>7

LEMMA SyncKeepsMoney ==
  ASSUME NEW d \in Books, NEW Q
  PROVE  Sent(Sync(d, Q)) = Sent(d)
<1>1. PICK e : e = Sync(d, Q)
  OBVIOUS
<1>2. e \in Books /\ e.pay = d.pay /\ e.advance = d.advance
  BY <1>1, SyncIs
<1>3. \A q \in Purchase : FromSource(e, q, Direct) = FromSource(d, q, Direct)
  BY <1>2 DEF FromSource, Recorded
<1>4. \A a \in Advance : Out(e, a) = Out(d, a)
  BY <1>2 DEF Out
<1> QED
  BY <1>1, <1>2, <1>3, <1>4, SentSame

(* What an edit that pays nothing wants: the same money sent, and every    *)
(* purchase in the state it was in.                                        *)
Keeps(j) ==
  j.op = "UpdatePurchase" =>
    /\ Sent(j.after) = Sent(j.before)
    /\ \A q \in Purchase : j.after.purchase[q].state = j.before.purchase[q].state

LEMMA CommitKeepsMoney ==
  ASSUME IInv, NEW r \in Request, NEW late \in BOOLEAN, Commit(r, late), Keeps(job[r]),
         job[r].op = "UpdatePurchase", books = job[r].before
  PROVE  Sent(books') = Sent(books)
<1>1. PICK j : j = job[r]
  OBVIOUS
<1>2. PICK m : m = Merged(books, j)
  OBVIOUS
<1>3. JobAt(j) /\ Plan(j) /\ j.after \in Books /\ books = j.before
  BY <1>1, JobsAt DEF JobAt, JobType
<1>4. m \in Books /\ GoneOK(m)
  BY <1>2, <1>3, MergedTyped
<1>5. \A q \in Purchase : j.after.purchase[q].state = books.purchase[q].state
  BY <1>1, <1>3 DEF Keeps
<1>6. \A a \in Advance : Out(m, a) = Out(j.after, a)
  <2> TAKE a \in Advance
  <2> DEFINE b == books.advance[a]
             e == j.after.advance[a]
             v == m.advance[a]
  <2>1. v = MergedAdvance(b, b, e)
    BY <1>2, <1>3, MergedRows
  <2>2. b \in AdvanceRow /\ e \in AdvanceRow
    BY <1>3, AdvanceTyped DEF JobAt
  <2>3. b.state # "none" => e.amount = b.amount
    BY <1>3 DEF Plan, AdvancePlan
  <2>4. Out(m, a) = (IF v.state = "RECORDED" THEN v.amount ELSE 0)
        /\ Out(j.after, a) = (IF e.state = "RECORDED" THEN e.amount ELSE 0)
    BY DEF Out
  <2> HIDE DEF b, e, v
  <2>5. v.state = e.state /\ v.amount = e.amount
    BY <2>1, <2>2, <2>3 DEF MergedAdvance, AdvanceRow
  <2> QED
    BY <2>4, <2>5
<1>7. ASSUME NEW q \in Purchase
      PROVE  FromSource(m, q, Direct) = FromSource(j.after, q, Direct)
  <2>1. ~ Moved(j, q)
    BY <1>3 DEF Moved
  <2>2. /\ m.purchase[q] = j.after.purchase[q]
        /\ j.after.purchase[q].state # "gone" =>
             \A s \in Source, n \in Copy : m.pay[q][s][n] = j.after.pay[q][s][n]
    BY <1>2, <1>3, <2>1, UnmovedMerged
  <2>3. CASE j.after.purchase[q].state # "gone"
    <3>1. \A n \in Copy : Recorded(m, q, Direct, n) = Recorded(j.after, q, Direct, n)
      BY <2>2, <2>3, Sizes DEF Recorded
    <3> QED
      BY <3>1, SourceSame
  <2>4. CASE j.after.purchase[q].state = "gone"
    <3>1. books.purchase[q].state = "gone" /\ m.purchase[q].state = "gone"
      BY <1>5, <2>2, <2>4
    <3>2. j.after.pay[q] = books.pay[q]
      BY <1>3, <2>4 DEF Plan, PurchasePlan
    <3>3. GoneOK(books)
      BY <1>3 DEF JobAt
    <3>4. \A n \in Copy : /\ m.pay[q][Direct][n].state # "RECORDED"
                          /\ books.pay[q][Direct][n].state # "RECORDED"
      BY <1>4, <3>1, <3>3, Sizes DEF GoneOK
    <3>5. \A n \in Copy : Recorded(m, q, Direct, n) = Recorded(j.after, q, Direct, n)
      BY <3>2, <3>4 DEF Recorded
    <3> QED
      BY <3>5, SourceSame
  <2> QED
    BY <2>3, <2>4
<1>8. Sent(m) = Sent(j.after)
  BY <1>3, <1>4, <1>6, <1>7, SentSame
<1>9. books' = IF late THEN Sync(m, j.synced) ELSE m
  BY <1>1, <1>2 DEF Commit
<1>10. Sent(books') = Sent(m)
  <2>1. CASE late
    BY <1>4, <1>9, <2>1, SyncKeepsMoney
  <2>2. CASE ~ late
    BY <1>9, <2>2
  <2> QED
    BY <2>1, <2>2
<1> QED
  BY <1>1, <1>8, <1>10 DEF Keeps

LEMMA EditSubmitted ==
  ASSUME IInv, NEW r \in Request, NEW q \in Purchase, NEW total \in Amounts, NEW more \in Amounts,
         NEW a \in Advance \cup {NoAdvance}, UpdatePurchase(r, q, total, more, a)
  PROVE  \E op, d, T :
           /\ Submit(r, op, q, d, T)
           /\ op = "UpdatePurchase" =>
                /\ d \in Books /\ Sent(d) = Sent(books)
                /\ \A p \in Purchase : d.purchase[p].state = books.purchase[p].state
<1>1. PICK b : b = [books EXCEPT !.purchase[q].total = total]
  OBVIOUS
<1>2. PICK c : c = WithDirect(b, q, more)
  OBVIOUS
<1>3. PICK d : d = Release(c, q, a)
  OBVIOUS
<1>4. PICK op : op = IF more > 0 THEN "PayMore" ELSE "UpdatePurchase"
  OBVIOUS
<1>5. /\ Edited(b, c, q, total, more)
      /\ BackTo(b, q, Direct) > 0 => a \in Advance /\ NewAdvance(a)
      /\ SubmitApplied(r, op, q, d, {q})
  BY <1>1, <1>2, <1>3, <1>4 DEF UpdatePurchase, Edited
<1>6. total \in Nat /\ more \in Nat /\ books \in Books
  BY SizesAreNat, BooksNow
<1>7. /\ c \in Books /\ RowsOK(c) /\ c.advance = books.advance
      /\ IsActive(c, q) /\ NetTotal(c, q) >= 0
      /\ more = 0 => c = b
      /\ \A p \in Purchase \ {q} : c.purchase[p] = books.purchase[p]
  BY <1>5, <1>6, EditedIs
<1>8. PICK e, T : e = AutoApply(d, Flows(d)) /\ T = {q} \cup Fed(d)
  OBVIOUS
<1>9. CanApply(d) /\ Submit(r, op, q, e, T)
  BY <1>5, <1>8, SubmitAppliedIs
<1>10. ASSUME op = "UpdatePurchase"
       PROVE  /\ e \in Books /\ Sent(e) = Sent(books)
              /\ \A p \in Purchase : e.purchase[p].state = books.purchase[p].state
  <2>1. more = 0
    BY <1>4, <1>6, <1>10
  <2>2. c = b
    BY <1>7, <2>1
  <2>3. c.pay = books.pay
    BY <1>1, <1>6, <2>2 DEF Books
  <2>4. Sent(c) = Sent(books)
    <3>1. \A p \in Purchase : FromSource(c, p, Direct) = FromSource(books, p, Direct)
      BY <2>3 DEF FromSource, Recorded
    <3>2. \A x \in Advance : Out(c, x) = Out(books, x)
      BY <1>7 DEF Out
    <3> QED
      BY <1>6, <1>7, <3>1, <3>2, SentSame
  <2>5. BackTo(c, q, Direct) > 0 => a \in Advance /\ c.advance[a].state = "none"
    BY <1>5, <1>7, <2>2 DEF NewAdvance
  <2>6. d \in Books /\ d.purchase = c.purchase
    BY <1>3, <1>7, ReleaseIs
  <2>7. Sent(d) = Sent(c)
    BY <1>3, <1>7, <2>5, ReleaseKeepsMoney
  <2>8. e \in Books /\ Sent(e) = Sent(d) /\ e.purchase = d.purchase
    BY <1>8, <1>9, <2>6, ApplyKeepsMoney
  <2>9. \A p \in Purchase : c.purchase[p].state = books.purchase[p].state
    BY <1>5, <1>7 DEF IsActive, Edited
  <2> QED
    BY <2>4, <2>6, <2>7, <2>8, <2>9
<1> QED
  BY <1>9, <1>10

AllKeep == \A r \in Request : Keeps(job[r])

LEMMA SubmitKeeps ==
  ASSUME IInv, AllKeep, NEW r \in Request, NEW op, NEW own, NEW d, NEW T,
         Submit(r, op, own, d, T),
         op = "UpdatePurchase" =>
           /\ d \in Books /\ Sent(d) = Sent(books)
           /\ \A q \in Purchase : d.purchase[q].state = books.purchase[q].state
  PROVE  AllKeep' /\ books' = books
<1>1. PICK j : j = Begun(op, own, d, T)
  OBVIOUS
<1>2. job' = [job EXCEPT ![r] = j] /\ books' = books
  BY <1>1 DEF Submit, Begun
<1>3. j.op = op /\ j.before = books /\ j.after = Sync(d, T)
  BY <1>1 DEF Begun
<1>4. Keeps(j)
  BY <1>3, SyncIs, SyncKeepsMoney DEF Keeps
<1>5. job'[r] = j /\ \A s \in Request \ {r} : job'[s] = job[s]
  BY <1>2 DEF IInv, TypeInv
<1> QED
  BY <1>2, <1>4, <1>5 DEF AllKeep

LEMMA OtherSubmits ==
  ASSUME IInv, AllKeep, NEW r \in Request, NEW op, NEW own, NEW d, NEW T, op # "UpdatePurchase",
         Submit(r, op, own, d, T) \/ SubmitApplied(r, op, own, d, T)
  PROVE  AllKeep' /\ books' = books
<1>1. PICK e, S : Submit(r, op, own, e, S)
  BY SubmitAppliedIs
<1> QED
  BY <1>1, SubmitKeeps

LEMMA BeginKeeps ==
  ASSUME IInv, AllKeep, NEW r \in Request, Purchases(r) \/ Advances(r) \/ CleanUpMonth(r)
  PROVE  AllKeep' /\ books' = books
<1>1. ASSUME NEW q \in Purchase, NEW total \in Amounts, NEW paid \in Amounts,
             CreatePurchase(r, q, total, paid)
      PROVE  AllKeep' /\ books' = books
  BY <1>1, OtherSubmits DEF CreatePurchase
<1>2. ASSUME NEW q \in Purchase, NEW total \in Amounts, NEW more \in Amounts,
             NEW a \in Advance \cup {NoAdvance}, UpdatePurchase(r, q, total, more, a)
      PROVE  AllKeep' /\ books' = books
  BY <1>2, EditSubmitted, SubmitKeeps
<1>3. ASSUME NEW q \in Purchase, NEW amount \in Amounts, CreatePurchasePayment(r, q, amount)
      PROVE  AllKeep' /\ books' = books
  BY <1>3, OtherSubmits DEF CreatePurchasePayment
<1>4. ASSUME NEW q \in Purchase, NEW s \in Source, NEW n \in Copy, ReversePurchasePayment(r, q, s, n)
      PROVE  AllKeep' /\ books' = books
  BY <1>4, OtherSubmits DEF ReversePurchasePayment
<1>5. ASSUME NEW q \in Purchase, DeletePurchase(r, q)
      PROVE  AllKeep' /\ books' = books
  BY <1>5, OtherSubmits DEF DeletePurchase
<1>6. ASSUME NEW a \in Advance, ReverseAdvance(r, a)
      PROVE  AllKeep' /\ books' = books
  BY <1>6, OtherSubmits DEF ReverseAdvance
<1>7. ASSUME NEW a \in Advance, NEW amount \in Amounts, CreateAdvance(r, a, amount)
      PROVE  AllKeep' /\ books' = books
  BY <1>7, OtherSubmits DEF CreateAdvance
<1>8. CASE CleanUpMonth(r)
  BY <1>8, OtherSubmits DEF CleanUpMonth
<1>9. CASE Purchases(r)
  BY <1>1, <1>2, <1>3, <1>4, <1>5, <1>9 DEF Purchases
<1>10. CASE Advances(r)
  BY <1>6, <1>7, <1>10 DEF Advances
<1> QED
  BY <1>8, <1>9, <1>10

LEMMA EndKeeps ==
  ASSUME IInv, AllKeep, NEW r \in Request, job' = [job EXCEPT ![r] = Idle]
  PROVE  AllKeep' /\ \A s \in Request \ {r} : job'[s] = job[s]
<1>1. job'[r] = Idle /\ \A s \in Request \ {r} : job'[s] = job[s]
  BY DEF IInv, TypeInv
<1>2. Keeps(Idle)
  BY DEF Keeps, Idle
<1> QED
  BY <1>1, <1>2 DEF AllKeep

EditStep ==
  \A r \in Request :
    job[r].op = "UpdatePurchase" /\ job'[r].op = "idle" /\ books = job[r].before
      => Sent(books') = Sent(books)

LEMMA KeepStep == IInv /\ AllKeep /\ [Next]_vars => AllKeep' /\ EditStep
<1> SUFFICES ASSUME IInv, AllKeep, [Next]_vars
             PROVE  AllKeep' /\ EditStep
  OBVIOUS
<1>1. ASSUME NEW r \in Request, Purchases(r) \/ Advances(r) \/ CleanUpMonth(r)
      PROVE  AllKeep' /\ EditStep
  BY <1>1, BeginKeeps DEF EditStep
<1>2. ASSUME NEW r \in Request, NEW late \in BOOLEAN, Commit(r, late)
      PROVE  AllKeep' /\ EditStep
  <2>1. AllKeep' /\ \A s \in Request \ {r} : job'[s] = job[s]
    BY <1>2, EndKeeps DEF Commit
  <2>2. Keeps(job[r])
    BY DEF AllKeep
  <2>3. job[r].op = "UpdatePurchase" /\ books = job[r].before => Sent(books') = Sent(books)
    BY <1>2, <2>2, CommitKeepsMoney
  <2> QED
    BY <2>1, <2>3 DEF EditStep
<1>3. ASSUME NEW r \in Request, Fail(r)
      PROVE  AllKeep' /\ EditStep
  <2>1. AllKeep' /\ books' = books
    BY <1>3, EndKeeps DEF Fail
  <2> QED
    BY <2>1 DEF EditStep
<1>4. ASSUME NEW q \in Purchase, NEW effect \in {-1, 1}, CreateNote(q, effect)
      PROVE  AllKeep' /\ EditStep
  <2>1. job' = job
    BY <1>4 DEF CreateNote
  <2> QED
    BY <2>1 DEF AllKeep, EditStep
<1>5. CASE UNCHANGED vars
  <2>1. job' = job /\ books' = books
    BY <1>5 DEF vars
  <2> QED
    BY <2>1 DEF AllKeep, EditStep
<1> QED
  BY <1>1, <1>2, <1>3, <1>4, <1>5 DEF Next

(* Whatever else is under way, an edit of a purchase that pays nothing     *)
(* leaves what was sent to the client as it was when it read the books.    *)
THEOREM EditKeeps == Spec => EditKeepsMoney
<1>1. Init => AllKeep
  BY DEF Init, AllKeep, Keeps, Idle
<1>2. IInv /\ AllKeep /\ [Next]_vars => AllKeep'
  BY KeepStep
<1>3. IInv /\ AllKeep /\ [Next]_vars =>
        [\A r \in Request :
           /\ job[r].op = "UpdatePurchase"
           /\ job'[r].op = "idle"
           /\ books = job[r].before
           => Sent(books') = Sent(books)]_vars
  BY KeepStep DEF EditStep
<1> QED
  BY <1>1, <1>2, <1>3, Invariant, PTL DEF Spec, EditKeepsMoney
==============================================================================
