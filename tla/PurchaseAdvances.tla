--------------------------- MODULE PurchaseAdvances ---------------------------
(***************************************************************************)
(* What is paid to one client as a supplier: purchases, the payments on    *)
(* them, and advances that are applied to purchases automatically          *)
(* (purchaseController, clientAdvanceService, the advance handlers of      *)
(* clientController), with the month clean-up and the permanent deletion   *)
(* of a purchase.                                                          *)
(*                                                                         *)
(* remaining_amount of an advance and paid_amount of a purchase repeat     *)
(* what the payment rows say; every handler keeps them up by hand.  As in  *)
(* Receivables a request is two steps: Submit works out the rows from the  *)
(* books it reads, Commit applies the difference.                          *)
(***************************************************************************)
EXTENDS Integers, FiniteSets, Functions

CONSTANTS Purchase,  \* ids, numbered by purchase_date
          Linked,    \* the purchases with a client
          Advance,   \* ids, numbered by paid_at
          Copies,    \* payments one purchase can get from one source
          Amounts,
          Month,     \* purchases and advances of the month to clean up
          Request,   \* requests in flight together
          MaxOps,    \* cap on the number of operations, for TLC
          NoPurchase, NoAdvance

ASSUME IdsAreNumbered == Purchase \cup Advance \subseteq Nat \ {0} /\ Linked \subseteq Purchase
ASSUME SizesAreNat == Amounts \subseteq Nat /\ {Copies, MaxOps} \subseteq Nat
ASSUME TablesAreFinite == IsFiniteSet(Purchase) /\ IsFiniteSet(Advance)
ASSUME MonthIsOfTables == Month \in [purchases : SUBSET Purchase, advances : SUBSET Advance]
ASSUME NoneIsNone == NoPurchase \notin Purchase /\ NoAdvance \notin Advance

VARIABLES books,   \* the tables
          job,     \* the requests in flight
          ops,     \* operations begun so far
          shaky,   \* advances two requests worked on at once
          crossed, \* purchases two requests worked on at once
          noted    \* purchases a note made cheaper

vars == <<books, job, ops, shaky, crossed, noted>>

(* Where a payment comes from: an advance, or source_kind DIRECT.          *)
Direct == 0
Source == Advance \cup {Direct}
Copy == 1 .. Copies
PaymentState == {"none", "RECORDED", "REVERSED", "gone"}
PurchaseRow == [state : {"none", "active", "inactive", "gone"}, total : Nat, paid : Int, note : Int]
AdvanceRow == [state : {"none", "RECORDED", "REVERSED"}, amount : Nat, remaining : Int]
PaymentRow == [state : PaymentState, amount : Nat]
Books == [purchase : [Purchase -> PurchaseRow], advance : [Advance -> AdvanceRow],
          pay : [Purchase -> [Source -> [Copy -> PaymentRow]]]]

NoPayment == [state |-> "none", amount |-> 0]
EmptyBooks ==
  [purchase |-> [q \in Purchase |-> [state |-> "none", total |-> 0, paid |-> 0, note |-> 0]],
   advance |-> [a \in Advance |-> [state |-> "none", amount |-> 0, remaining |-> 0]],
   pay |-> [q \in Purchase |-> [s \in Source |-> [n \in Copy |-> NoPayment]]]]

Idle == [op |-> "idle", own |-> NoPurchase, before |-> EmptyBooks,
         after |-> EmptyBooks, synced |-> {}]

Positive(n) == IF n > 0 THEN n ELSE 0
Least(m, n) == IF m < n THEN m ELSE n
Most(m, n) == IF m > n THEN m ELSE n

------------------------------------------------------------------------------
(* What the code reads off the books d. *)

IsActive(d, q) == d.purchase[q].state = "active"
Recorded(d, q, s, n) ==
  IF d.pay[q][s][n].state = "RECORDED" THEN d.pay[q][s][n].amount ELSE 0
FromSource(d, q, s) == SumFunction([n \in Copy |-> Recorded(d, q, s, n)])
Paid(d, q) == SumFunction([s \in Source |-> FromSource(d, q, s)])
Applied(d, a) == SumFunction([q \in Purchase |-> FromSource(d, q, a)])

(* getPurchaseNoteEffectByIdsTx: credit less debit notes. *)
NetTotal(d, q) == d.purchase[q].total + d.purchase[q].note

Needs(d, q) == IF IsActive(d, q) /\ q \in Linked
               THEN Positive(NetTotal(d, q) - Paid(d, q)) ELSE 0

Free(d, a) == IF d.advance[a].state = "RECORDED" THEN Positive(d.advance[a].remaining) ELSE 0

(* syncPurchasePaymentSnapshotTx *)
Sync(d, Q) ==
  [d EXCEPT !.purchase = [q \in Purchase |->
     IF q \in Q THEN [@[q] EXCEPT !.paid = Paid(d, q)] ELSE @[q]]]

(* The id a new payment gets: of the ids of its kind, one that is neither  *)
(* used nor given to a request in flight.                                  *)
Unused(d, q, s) ==
  {n \in Copy : /\ d.pay[q][s][n].state = "none"
                /\ \A r \in Request : job[r].after.pay[q][s][n].state = "none"}
Fresh(d, q, s) == CHOOSE n \in Unused(d, q, s) : TRUE

(* createPurchasePaymentTx *)
WithDirect(d, q, amount) ==
  IF amount = 0 THEN d
  ELSE [d EXCEPT !.pay[q][Direct][Fresh(d, q, Direct)] = [state |-> "RECORDED", amount |-> amount]]

(* An advance that gets n back, a payment from which n is taken.           *)
GivenBack(row, n) == [row EXCEPT !.remaining = @ + n]
TakenFrom(row, n) ==
  IF n = 0 THEN row
  ELSE IF n = row.amount THEN [row EXCEPT !.state = "REVERSED"]
  ELSE [row EXCEPT !.amount = @ - n]

(***************************************************************************)
(* autoAllocatePurchaseBalancesForClientTx: the oldest advances into the   *)
(* oldest purchases; a payment for each pair, and the advance that much    *)
(* smaller.  Flow is the overlap of two intervals, as in Receivables.      *)
(***************************************************************************)
Flow(d, a, q) ==
  LET given == SumFunction([b \in {b \in Advance : b < a} |-> Free(d, b)])
      filled == SumFunction([p \in {p \in Purchase : p < q} |-> Needs(d, p)])
  IN  Positive(Least(given + Free(d, a), filled + Needs(d, q)) - Most(given, filled))

Flows(d) == [q \in Purchase |-> [a \in Advance |-> Flow(d, a, q)]]

AutoApply(d, flow) ==
  [d EXCEPT
     !.pay = [q \in Purchase |-> [s \in Source |->
        IF s # Direct /\ flow[q][s] > 0
        THEN [@[q][s] EXCEPT ![Fresh(d, q, s)] = [state |-> "RECORDED", amount |-> flow[q][s]]]
        ELSE @[q][s]]],
     !.advance = [a \in Advance |->
        GivenBack(@[a], -SumFunction([q \in Purchase |-> flow[q][a]]))]]

(***************************************************************************)
(* releasePurchasePaymentExcessToBalanceTx: newest payment first; what an  *)
(* advance paid goes back to it, what was paid directly becomes a new      *)
(* advance.  Direct payments are taken to be newer than all advances.      *)
(***************************************************************************)
Excess(d, q) == Positive(Paid(d, q) - NetTotal(d, q))
NewerSources(s) == IF s = Direct THEN {} ELSE {Direct} \cup {a \in Advance : a > s}
Left(d, q, s) ==
  Excess(d, q) - SumFunction([t \in NewerSources(s) |-> FromSource(d, q, t)])
Back(d, q, s, n) ==
  Least(Recorded(d, q, s, n),
        Positive(Left(d, q, s) - SumFunction([m \in {m \in Copy : m > n} |-> Recorded(d, q, s, m)])))
BackTo(d, q, s) == SumFunction([n \in Copy |-> Back(d, q, s, n)])

(* Mutant: what was paid directly is reversed and no advance made of it. *)
ReleaseLosingDirect(d, q, a) ==
  [d EXCEPT
     !.pay[q] = [s \in Source |-> [n \in Copy |-> TakenFrom(@[s][n], Back(d, q, s, n))]],
     !.advance = [b \in Advance |-> GivenBack(@[b], BackTo(d, q, b))]]

(* a is the id of the new advance, if one is needed; released direct       *)
(* payments are taken to become one advance.                               *)
Release(d, q, a) ==
  [d EXCEPT
     !.pay[q] = [s \in Source |-> [n \in Copy |-> TakenFrom(@[s][n], Back(d, q, s, n))]],
     !.advance = [b \in Advance |->
        IF b = a /\ BackTo(d, q, Direct) > 0
        THEN [state |-> "RECORDED", amount |-> BackTo(d, q, Direct), remaining |-> BackTo(d, q, Direct)]
        ELSE GivenBack(@[b], BackTo(d, q, b))]]

------------------------------------------------------------------------------
(* Requests *)

Ready(r) == job[r].op = "idle" /\ ops < MaxOps

Submit(r, op, own, after, synced) ==
  /\ own # NoPurchase => \A s \in Request : job[s].own # own
  /\ ops' = ops + 1
  /\ job' = [job EXCEPT ![r] = [op |-> op, own |-> own, before |-> books,
                                after |-> Sync(after, synced), synced |-> synced]]
  /\ UNCHANGED <<books, shaky, crossed, noted>>

SubmitApplied(r, op, own, d, synced) ==
  LET flow == Flows(d)
      flows == {x \in Purchase \X Advance : flow[x[1]][x[2]] > 0}
  IN  /\ \A x \in flows : Unused(d, x[1], x[2]) # {}
      /\ Submit(r, op, own, AutoApply(d, flow), synced \cup {x[1] : x \in flows})

(* No request in flight has taken the id. *)
NewAdvance(a) == /\ books.advance[a].state = "none"
                 /\ \A s \in Request : job[s].after.advance[a].state = "none"
NewPurchase(q) == /\ books.purchase[q].state = "none"
                  /\ \A s \in Request : job[s].after.purchase[q].state = "none"

CreatePurchase(r, q, total, paid) ==
  LET d == [books EXCEPT !.purchase[q] =
              [state |-> "active", total |-> total, paid |-> 0, note |-> 0]]
  IN  /\ NewPurchase(q)
      /\ paid <= total
      /\ paid > 0 => Unused(d, q, Direct) # {}
      /\ SubmitApplied(r, "CreatePurchase", q, WithDirect(d, q, paid), {q})

(* updatePurchase; `more` is what a new paid_amount adds. *)
UpdatePurchase(r, q, total, more, a) ==
  LET d == [books EXCEPT !.purchase[q].total = total]
  IN  /\ IsActive(books, q)
      /\ NetTotal(d, q) >= 0
      /\ more > 0 => /\ Paid(d, q) + more <= NetTotal(d, q)
                     /\ Unused(d, q, Direct) # {}
      /\ IF BackTo(d, q, Direct) > 0
         THEN q \in Linked /\ a \in Advance /\ NewAdvance(a)
         ELSE a = NoAdvance
      /\ SubmitApplied(r, IF more > 0 THEN "PayMore" ELSE "UpdatePurchase", q,
                       Release(WithDirect(d, q, more), q, a), {q})

(* Mutant: paid_amount, not the payments, is compared with the total. *)
CreatePurchasePaymentOnTotal(r, q, amount) ==
  /\ IsActive(books, q)
  /\ amount > 0
  /\ amount <= NetTotal(books, q)
  /\ Unused(books, q, Direct) # {}
  /\ Submit(r, "CreatePurchasePayment", NoPurchase, WithDirect(books, q, amount), {q})

CreatePurchasePayment(r, q, amount) ==
  /\ IsActive(books, q)
  /\ amount > 0
  /\ Paid(books, q) + amount <= NetTotal(books, q)
  /\ Unused(books, q, Direct) # {}
  /\ Submit(r, "CreatePurchasePayment", NoPurchase, WithDirect(books, q, amount), {q})

(* Mutant: paid_amount of the purchase is left as it was. *)
ReversePurchasePaymentUnsynced(r, q, s, n) ==
  /\ IsActive(books, q)
  /\ books.pay[q][s][n].state = "RECORDED"
  /\ Submit(r, "ReversePurchasePayment", NoPurchase,
       [books EXCEPT !.pay[q][s][n].state = "REVERSED",
                     !.advance = [a \in Advance |->
                        IF a = s THEN GivenBack(@[a], books.pay[q][s][n].amount) ELSE @[a]]], {})

ReversePurchasePayment(r, q, s, n) ==
  /\ IsActive(books, q)
  /\ books.pay[q][s][n].state = "RECORDED"
  /\ Submit(r, "ReversePurchasePayment", NoPurchase,
       [books EXCEPT !.pay[q][s][n].state = "REVERSED",
                     !.advance = [a \in Advance |->
                        IF a = s THEN GivenBack(@[a], books.pay[q][s][n].amount) ELSE @[a]]], {q})

(* createPurchaseAdvanceTx *)
CreateAdvance(r, a, amount) ==
  /\ NewAdvance(a)
  /\ amount > 0
  /\ SubmitApplied(r, "CreateAdvance", NoPurchase,
       [books EXCEPT !.advance[a] = [state |-> "RECORDED", amount |-> amount, remaining |-> amount]], {})

(* Mutant: an advance is put out of use the way a purchase is. *)
ReverseAdvanceSoftly(r, a) ==
  /\ books.advance[a].state = "RECORDED"
  /\ Applied(books, a) = 0
  /\ Submit(r, "ReverseAdvance", NoPurchase, [books EXCEPT !.advance[a].state = "inactive"], {})

(* reversePurchaseAdvanceTx: only when nothing of it is applied. *)
ReverseAdvance(r, a) ==
  /\ books.advance[a].state = "RECORDED"
  /\ Applied(books, a) = 0
  /\ Submit(r, "ReverseAdvance", NoPurchase, [books EXCEPT !.advance[a].state = "REVERSED"], {})

(* Mutant: the advances do not get back what they paid. *)
DeletePurchaseKeeping(r, q) ==
  /\ books.purchase[q].state \in {"active", "inactive"}
  /\ Submit(r, "DeletePurchase", NoPurchase, [books EXCEPT !.purchase[q].state = "gone"], {})

(* hardDeletePurchaseTx *)
DeletePurchase(r, q) ==
  /\ books.purchase[q].state \in {"active", "inactive"}
  /\ Submit(r, "DeletePurchase", NoPurchase,
       [books EXCEPT !.purchase[q].state = "gone",
                     !.advance = [a \in Advance |-> GivenBack(@[a], FromSource(books, q, a))]], {})

(* createNote for a purchase *)
CreateNote(q, effect) ==
  /\ IsActive(books, q)
  /\ ops < MaxOps
  /\ ops' = ops + 1
  /\ books' = [books EXCEPT !.purchase[q].note = @ + effect]
  /\ noted' = IF effect < 0 THEN noted \cup {q} ELSE noted
  /\ UNCHANGED <<job, shaky, crossed>>

(* deleteClientLedgerMonthData, its part here.  A payment from an advance  *)
(* has the advance's date, a direct one is taken to have the purchase's.   *)
Bought == {q \in Month.purchases : IsActive(books, q) /\ q \in Linked}
PaidAhead == {a \in Month.advances : books.advance[a].state = "RECORDED"}
Taken(q, s, n) ==
  /\ books.pay[q][s][n].state = "RECORDED"
  /\ q \in Linked
  /\ q \in Bought \/ (s \in Month.advances /\ IsActive(books, q))
Restored(q, a) ==
  SumFunction([n \in Copy |-> IF Taken(q, a, n) THEN books.pay[q][a][n].amount ELSE 0])
Freed(a) == GivenBack(books.advance[a], SumFunction([q \in Purchase |-> Restored(q, a)]))

CleanUpMonth(r) ==
  /\ Bought # {} \/ PaidAhead # {}
  /\ Submit(r, "CleanUpMonth", NoPurchase,
       [books EXCEPT
          !.purchase = [q \in Purchase |-> IF q \in Bought
             THEN [@[q] EXCEPT !.state = "inactive", !.note = 0] ELSE @[q]],
          !.pay = [q \in Purchase |-> [s \in Source |-> [n \in Copy |->
             IF Taken(q, s, n) THEN [@[q][s][n] EXCEPT !.state = "REVERSED"] ELSE @[q][s][n]]]],
          !.advance = [a \in Advance |->
             IF a \in PaidAhead THEN [Freed(a) EXCEPT !.state = "REVERSED"] ELSE Freed(a)]],
       Bought \cup {q \in Purchase : \E s \in Source, n \in Copy : Taken(q, s, n)})

------------------------------------------------------------------------------
(* The end of a transaction *)

Writes(j, q, s, n) == j.after.pay[q][s][n] # j.before.pay[q][s][n]
ChangesAdvance(j, a) == j.after.advance[a] # j.before.advance[a]

MergedPayment(now, was, to) ==
  [state |-> IF to.state = was.state THEN now.state ELSE to.state,
   amount |-> now.amount + to.amount - was.amount]

MergedAdvance(now, was, to) ==
  [state |-> IF to.state = was.state THEN now.state ELSE to.state,
   amount |-> IF was.state = "none" /\ to # was THEN to.amount ELSE now.amount,
   remaining |-> now.remaining + to.remaining - was.remaining]

MergedPurchase(q, now, was, to, j) ==
  IF was.state = "none" THEN (IF to = was THEN now ELSE to)
  ELSE [state |-> IF to.state = was.state THEN now.state ELSE to.state,
        total |-> IF q = j.own THEN to.total ELSE now.total,
        paid |-> IF q \in j.synced THEN to.paid ELSE now.paid,
        note |-> now.note + to.note - was.note]

(* Payments go with their purchase, whoever made them. *)
Merged(d, j) ==
  LET purchase == [q \in Purchase |-> MergedPurchase(q, d.purchase[q], j.before.purchase[q],
                                                     j.after.purchase[q], j)]
      payment(q, s, n) ==
        MergedPayment(d.pay[q][s][n], j.before.pay[q][s][n], j.after.pay[q][s][n])
  IN  [purchase |-> purchase,
       advance |-> [a \in Advance |-> MergedAdvance(d.advance[a], j.before.advance[a],
                                                    j.after.advance[a])],
       pay |-> [q \in Purchase |-> [s \in Source |-> [n \in Copy |->
          IF purchase[q].state = "gone" /\ payment(q, s, n).state # "none"
          THEN [payment(q, s, n) EXCEPT !.state = "gone"]
          ELSE payment(q, s, n)]]]]

(* A row it writes or hangs a payment on was deleted meanwhile; or the     *)
(* month clean-up finds an advance of the month applied to a payment that  *)
(* was not there when it looked.                                           *)
Broken(j) ==
  \/ \E q \in Purchase :
       /\ books.purchase[q].state = "gone" /\ j.before.purchase[q].state # "gone"
       /\ \/ q \in j.synced \/ j.after.purchase[q] # j.before.purchase[q]
          \/ \E s \in Source, n \in Copy : Writes(j, q, s, n)
  \/ /\ j.op = "CleanUpMonth"
     /\ \E a \in Advance, q \in Purchase, n \in Copy :
          /\ j.after.advance[a].state # j.before.advance[a].state
          /\ books.pay[q][a][n].state = "RECORDED"
          /\ j.after.pay[q][a][n].state # "REVERSED"

(* updatePurchase writes the row of its purchase before it reads the rest. *)
Locked(q) == \E r \in Request : job[r].op \in {"UpdatePurchase", "PayMore"} /\ job[r].own = q
WritesPurchase(j, q) == q \in j.synced \/ j.after.purchase[q] # j.before.purchase[q]

Touched(j) ==
  {q \in Purchase : WritesPurchase(j, q) \/ \E s \in Source, n \in Copy : Writes(j, q, s, n)}
Moved(j, q) == books.purchase[q] # j.before.purchase[q] \/ books.pay[q] # j.before.pay[q]
Removes(j, q) == j.before.purchase[q].state # "gone" /\ j.after.purchase[q].state = "gone"
AdvanceMoved(j, a) ==
  \/ books.advance[a] # j.before.advance[a]
  \/ \E q \in Purchase : books.pay[q][a] # j.before.pay[q][a]

(* `late` as in Receivables. *)
Commit(r, late) ==
  LET j == job[r]
      merged == Merged(books, j)
  IN  /\ j.op # "idle"
      /\ ~Broken(j)
      /\ \A q \in Purchase \ {j.own} : Locked(q) => ~WritesPurchase(j, q)
      /\ late \/ /\ \A a \in Advance : ChangesAdvance(j, a) => books.advance[a] = j.before.advance[a]
                 /\ \A q \in Purchase, s \in Source, n \in Copy :
                      Writes(j, q, s, n) => books.pay[q][s][n] = j.before.pay[q][s][n]
      /\ books' = IF late THEN Sync(merged, j.synced) ELSE merged
      /\ job' = [job EXCEPT ![r] = Idle]
      /\ shaky' = shaky \cup {a \in Advance : /\ AdvanceMoved(j, a)
                                              /\ \/ ChangesAdvance(j, a)
                                                 \/ \E q \in Purchase : Removes(j, q) /\ books.pay[q][a] # j.before.pay[q][a]}
      /\ crossed' = crossed \cup {q \in Touched(j) : Moved(j, q)}
      /\ UNCHANGED <<ops, noted>>

(* The transaction rolls back, or the process dies. *)
Fail(r) ==
  /\ job[r].op # "idle"
  /\ job' = [job EXCEPT ![r] = Idle]
  /\ UNCHANGED <<books, ops, shaky, crossed, noted>>

------------------------------------------------------------------------------
Init ==
  /\ books = EmptyBooks
  /\ job = [r \in Request |-> Idle]
  /\ ops = 0
  /\ shaky = {} /\ crossed = {} /\ noted = {}

Purchases(r) ==
  \E q \in Purchase :
    \/ \E total, paid \in Amounts : CreatePurchase(r, q, total, paid)
    \/ \E total, more \in Amounts, a \in Advance \cup {NoAdvance} :
         UpdatePurchase(r, q, total, more, a)
    \/ \E amount \in Amounts : CreatePurchasePayment(r, q, amount)
    \/ \E s \in Source, n \in Copy : ReversePurchasePayment(r, q, s, n)
    \/ DeletePurchase(r, q)

Advances(r) ==
  \E a \in Advance : ReverseAdvance(r, a) \/ \E amount \in Amounts : CreateAdvance(r, a, amount)

Next ==
  \/ \E r \in Request :
       \/ Ready(r) /\ (Purchases(r) \/ Advances(r) \/ CleanUpMonth(r))
       \/ \E late \in BOOLEAN : Commit(r, late)
       \/ Fail(r)
  \/ \E q \in Purchase, effect \in {-1, 1} : CreateNote(q, effect)

Spec == Init /\ [][Next]_vars

------------------------------------------------------------------------------
(* Properties *)

(* Every table holds rows of its columns' types. *)
TypeOK ==
  /\ books \in Books
  /\ \A r \in Request : job[r].before \in Books /\ job[r].after \in Books
  /\ shaky \subseteq Advance
  /\ crossed \subseteq Purchase /\ noted \subseteq Purchase

(* What remains of an advance is its amount less what recorded payments    *)
(* have taken, and never negative, unless two requests worked on it at     *)
(* once.                                                                   *)
RemainderAgrees ==
  \A a \in Advance \ shaky :
    /\ books.advance[a].remaining = books.advance[a].amount - Applied(books, a)
    /\ books.advance[a].remaining >= 0

(* paid_amount of a purchase, which lists and reports show, is what its    *)
(* recorded payments add up to, unless two requests worked on it at once.  *)
SnapshotAgrees ==
  \A q \in Purchase \ crossed :
    books.purchase[q].state \in {"active", "inactive"} => books.purchase[q].paid = Paid(books, q)

(* "Total purchase payments cannot exceed net purchase total", unless a    *)
(* note lowered the total later or two requests paid at once.              *)
PaidWithinNetTotal ==
  \A q \in Purchase \ (crossed \cup noted) :
    IsActive(books, q) => Paid(books, q) <= NetTotal(books, q)

(* A change of a purchase's total takes no money from the client: what was *)
(* paid directly or in advance (what the ledger counts as sent) is the     *)
(* same afterwards.                                                        *)
Sent(d) ==
  SumFunction([a \in {a \in Advance : d.advance[a].state = "RECORDED"} |-> d.advance[a].amount])
    + SumFunction([q \in Purchase |-> FromSource(d, q, Direct)])
EditKeepsMoney ==
  [][\A r \in Request :
       /\ job[r].op = "UpdatePurchase"
       /\ job'[r].op = "idle"
       /\ books = job[r].before
       => Sent(books') = Sent(books)]_vars
==============================================================================
