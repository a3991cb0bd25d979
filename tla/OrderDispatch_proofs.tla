------------------------ MODULE OrderDispatch_proofs ------------------------
(***************************************************************************)
(* What OrderDispatch guarantees for any number of orders, factories,      *)
(* products and requests.                                                  *)
(***************************************************************************)
EXTENDS OrderDispatch, SumTheorems, TLAPS

(* Amounts per cell stay amounts per cell under the arithmetic of the      *)
(* handlers (the deltas applyBalanceDeltaTx is called with).               *)
LEMMA AmountsClosed ==
  /\ None \in [Cell -> Int]
  /\ \A c \in Cell, q \in Int : At(c, q) \in [Cell -> Int]
  /\ \A d, e \in [Cell -> Int] : /\ Plus(d, e) \in [Cell -> Int]
                                 /\ Minus(d, e) \in [Cell -> Int]
                                 /\ Negated(d) \in [Cell -> Int]
  BY DEF None, At, Plus, Minus, Negated

(* createMovementTx and the hard delete leave typed balances behind.       *)
LEMMA PostKeepsType ==
  ASSUME StockTypeOK, NEW d \in [Cell -> Int], Post(d)
  PROVE  StockTypeOK'
  BY DEF StockTypeOK, Post, PostTo, Seeded

(* createMovementTx moves the balance and the sum of the movements         *)
(* together, also when it has to seed the balance row first.               *)
LEMMA PostKeepsDerived ==
  ASSUME StockTypeOK, StockDerived, NEW d \in [Cell -> Int], Post(d)
  PROVE  StockDerived'
  BY NoRowIsNoNumber DEF StockTypeOK, StockDerived, Drift, Post, PostTo, Seeded

(* previewDispatch seeds what the movements add up to. *)
LEMMA EnsureKeepsStock ==
  ASSUME StockTypeOK, NEW c \in Cell, EnsureRow(c)
  PROVE  StockTypeOK' /\ (StockDerived => StockDerived')
  BY NoRowIsNoNumber DEF StockTypeOK, StockDerived, Drift, EnsureRow, Seeded

(* What a request has read is a row of the order table, and is untouched   *)
(* by what other requests do.                                              *)
LEMMA HeldTyped ==
  ASSUME TypeOK, NEW r \in Request, req[r] # NoRow
  PROVE  /\ Was(r) \in OrderRow
         /\ Target(r) \in Order
         /\ order[Target(r)] \in OrderRow
         /\ Finish(r) => req' \in [Request -> Snapshot \cup {NoRow}]
  BY DEF TypeOK, Snapshot, Was, Target, Finish

LEMMA ReadTyped ==
  ASSUME TypeOK, NEW r \in Request, NEW o \in Order,
         NEW kind \in {"status", "cancel", "edit", "erase"}, Read(r, kind, o)
  PROVE  TypeOK'
<1>1. order[o] \in OrderRow
  BY DEF TypeOK
<1>2. [kind |-> kind, order |-> o, was |-> order[o], begun |-> FALSE, missed |-> FALSE] \in Snapshot
  BY <1>1 DEF Snapshot
<1>3. req' \in [Request -> Snapshot \cup {NoRow}]
  BY <1>2 DEF TypeOK, Read
<1> QED
  BY <1>3 DEF TypeOK, StockTypeOK, Read

(* A transaction that posts d and commits the given row. *)
LEMMA CommitTyped ==
  ASSUME TypeOK, NEW r \in Request, req[r] # NoRow, NEW row \in OrderRow, Commit(r, row)
  PROVE  order' \in [Order -> OrderRow]
  BY HeldTyped DEF TypeOK, Commit

(* Every variable of OrderDispatch keeps its type. *)
LEMMA TypeStep == TypeOK /\ [Next]_vars => TypeOK'
<1> SUFFICES ASSUME TypeOK, [Next]_vars
             PROVE  TypeOK'
  OBVIOUS
<1> USE DEF InFlight
<1>1. ASSUME NEW o \in Order, NEW lines \in Quantities, CreateOrder(o, lines)
      PROVE  TypeOK'
  <2>1. lines \in [Product -> Nat]
    BY MaxQtyIsPositive DEF Quantities
  <2>2. order' \in [Order -> OrderRow]
    BY <1>1, <2>1 DEF TypeOK, CreateOrder, OrderRow, Status
  <2> QED
    BY <1>1, <2>2 DEF TypeOK, StockTypeOK, CreateOrder
<1>2. ASSUME NEW r \in Request, NEW o \in Order,
             StartStatus(r, o) \/ StartCancel(r, o) \/ StartEdit(r, o) \/ StartErase(r, o)
      PROVE  TypeOK'
  BY <1>2, ReadTyped DEF StartStatus, StartCancel, StartEdit, StartErase
<1>3. ASSUME NEW r \in Request, NEW to \in Status, NEW alloc \in [Cell -> 0 .. Bound],
             CommitDispatch(r, to, alloc)
      PROVE  TypeOK'
  <2> DEFINE row == [order[Target(r)] EXCEPT !.status = to, !.issued = Plus(@, alloc)]
  <2>1. req[r] # NoRow /\ Commit(r, row) /\ Post(Negated(alloc)) /\ Finish(r) /\ UNCHANGED other
    BY <1>3 DEF CommitDispatch, EnoughStock, IssueStock
  <2>2. alloc \in [Cell -> Int]
    BY BoundIsNat
  <2>3. row \in OrderRow
    <3>1. order[Target(r)] \in OrderRow
      BY <2>1, HeldTyped
    <3>2. Plus(order[Target(r)].issued, alloc) \in [Cell -> Int]
      BY <2>2, <3>1, AmountsClosed DEF OrderRow
    <3> QED
      BY <3>1, <3>2 DEF OrderRow
  <2>4. StockTypeOK'
    BY <2>1, <2>2, AmountsClosed, PostKeepsType DEF TypeOK
  <2> HIDE DEF row
  <2> QED
    BY <2>1, <2>3, <2>4, HeldTyped, CommitTyped DEF TypeOK
<1>4. ASSUME NEW r \in Request, NEW to \in Status, CommitStatusOnly(r, to)
      PROVE  TypeOK'
  <2> DEFINE row == [order[Target(r)] EXCEPT !.status = to]
  <2>1. req[r] # NoRow /\ Commit(r, row) /\ Finish(r) /\ UNCHANGED <<balance, ledger, other>>
    BY <1>4 DEF CommitStatusOnly
  <2>2. row \in OrderRow
    BY <2>1, HeldTyped DEF OrderRow
  <2> HIDE DEF row
  <2> QED
    BY <2>1, <2>2, HeldTyped, CommitTyped DEF TypeOK, StockTypeOK
<1>5. ASSUME NEW r \in Request, NEW lines \in Quantities, CommitEdit(r, lines)
      PROVE  TypeOK'
  <2> DEFINE left == IF req[r].missed THEN order[Target(r)].lines ELSE [p \in Product |-> 0]
             sum == [p \in Product |-> left[p] + lines[p]]
             row == [order[Target(r)] EXCEPT !.lines = sum]
  <2>1. req[r] # NoRow /\ Commit(r, row) /\ UNCHANGED <<balance, ledger, other>>
    BY <1>5 DEF CommitEdit
  <2>2. order[Target(r)] \in OrderRow
    BY <2>1, HeldTyped
  <2>3. lines \in [Product -> Nat]
    BY MaxQtyIsPositive DEF Quantities
  <2>4. sum \in [Product -> Nat]
    BY <2>2, <2>3 DEF OrderRow
  <2>5. row \in OrderRow
    BY <2>2, <2>4 DEF OrderRow
  <2>6. req' \in [Request -> Snapshot \cup {NoRow}]
    BY <1>5 DEF CommitEdit, TypeOK, Snapshot, Overtaken
  <2> HIDE DEF row
  <2> QED
    BY <2>1, <2>5, <2>6, CommitTyped DEF TypeOK, StockTypeOK
<1>6. ASSUME NEW r \in Request, CommitCancel(r)
      PROVE  TypeOK'
  <2> DEFINE row == [order[Target(r)] EXCEPT !.status = "cancelled",
                                             !.returned = Plus(@, Was(r).issued)]
  <2>1. req[r] # NoRow /\ Commit(r, row) /\ Post(Was(r).issued) /\ Finish(r) /\ UNCHANGED other
    BY <1>6 DEF CommitCancel
  <2>2. Was(r) \in OrderRow /\ order[Target(r)] \in OrderRow
    BY <2>1, HeldTyped
  <2>3. row \in OrderRow
    BY <2>2, AmountsClosed DEF OrderRow, Status
  <2>4. StockTypeOK'
    BY <2>1, <2>2, PostKeepsType DEF TypeOK, OrderRow
  <2> HIDE DEF row
  <2> QED
    BY <2>1, <2>3, <2>4, HeldTyped, CommitTyped DEF TypeOK
<1>7. ASSUME NEW r \in Request, DeleteItems(r) \/ FindMovements(r)
      PROVE  TypeOK'
  <2>1. req[r] # NoRow /\ UNCHANGED <<balance, ledger, order, other>>
    BY <1>7 DEF DeleteItems, FindMovements
  <2>2. Was(r) \in OrderRow /\ order[Target(r)] \in OrderRow
    BY <2>1, HeldTyped
  <2>3. req' \in [Request -> Snapshot \cup {NoRow}]
    <3>1. CASE DeleteItems(r)
      BY <3>1 DEF DeleteItems, TypeOK, Snapshot
    <3>2. CASE FindMovements(r)
      <4> DEFINE was == [req[r].was EXCEPT !.returned = order[Target(r)].returned]
      <4>1. was \in OrderRow
        BY <2>2 DEF OrderRow, Was
      <4>2. [req[r] EXCEPT !.begun = TRUE, !.was = was] \in Snapshot
        BY <2>1, <4>1 DEF TypeOK, Snapshot
      <4>3. req' = [req EXCEPT ![r] = [req[r] EXCEPT !.begun = TRUE, !.was = was]]
        BY <2>1, <3>2 DEF FindMovements, TypeOK, Snapshot
      <4> QED
        BY <4>2, <4>3 DEF TypeOK
    <3> QED
      BY <1>7, <3>1, <3>2
  <2> QED
    BY <2>1, <2>3 DEF TypeOK, StockTypeOK
<1>8. ASSUME NEW r \in Request, CommitErase(r)
      PROVE  TypeOK'
  <2> DEFINE row == [status |-> "gone", lines |-> [p \in Product |-> 0],
                     issued |-> Minus(order[Target(r)].issued, Was(r).issued),
                     returned |-> Minus(order[Target(r)].returned, Was(r).returned)]
  <2>1. /\ req[r] # NoRow /\ Commit(r, row) /\ Post(Minus(Was(r).issued, Was(r).returned))
        /\ Finish(r) /\ UNCHANGED other
    BY <1>8 DEF CommitErase
  <2>2. Was(r) \in OrderRow /\ order[Target(r)] \in OrderRow
    BY <2>1, HeldTyped
  <2>3. row \in OrderRow
    BY <2>2, AmountsClosed DEF OrderRow, Status
  <2>4. StockTypeOK'
    BY <2>1, <2>2, AmountsClosed, PostKeepsType DEF TypeOK, OrderRow
  <2> HIDE DEF row
  <2> QED
    BY <2>1, <2>3, <2>4, HeldTyped, CommitTyped DEF TypeOK
<1>9. ASSUME NEW r \in Request, Fail(r)
      PROVE  TypeOK'
  BY <1>9, HeldTyped DEF Fail, TypeOK, StockTypeOK
<1>10. ASSUME NEW c \in Cell, NEW n \in {1, -1}, OtherMovement(c, n)
       PROVE  TypeOK'
  <2>1. At(c, n) \in [Cell -> Int]
    BY AmountsClosed
  <2>2. StockTypeOK'
    BY <1>10, <2>1, PostKeepsType DEF OtherMovement, TypeOK
  <2>3. other' \in [Cell -> Int]
    BY <1>10, <2>1, AmountsClosed DEF OtherMovement, TypeOK
  <2> QED
    BY <1>10, <2>2, <2>3 DEF OtherMovement, TypeOK
<1>11. ASSUME NEW c \in Cell, PreviewDispatch(c)
       PROVE  TypeOK'
  BY <1>11, EnsureKeepsStock DEF PreviewDispatch, TypeOK
<1>12. CASE UNCHANGED vars
  BY <1>12 DEF vars, TypeOK, StockTypeOK
<1> QED
  BY <1>1, <1>2, <1>3, <1>4, <1>5, <1>6, <1>7, <1>8, <1>9, <1>10, <1>11, <1>12 DEF Next

LEMMA InitTyped == Init => TypeOK
<1> SUFFICES ASSUME Init
             PROVE  TypeOK
  OBVIOUS
<1>1. StockTypeOK
  BY AmountsClosed DEF Init, StockInit, StockTypeOK
<1>2. [status |-> "new", lines |-> [p \in Product |-> 0],
       issued |-> None, returned |-> None] \in OrderRow
  BY AmountsClosed DEF OrderRow, Status
<1>3. order \in [Order -> OrderRow]
  BY <1>2 DEF Init
<1>4. req \in [Request -> Snapshot \cup {NoRow}] /\ other \in [Cell -> Int]
  BY AmountsClosed DEF Init
<1> QED
  BY <1>1, <1>3, <1>4 DEF TypeOK

(* Every variable has its type, for any set of orders, cells and requests. *)
THEOREM TypeInvariant == Spec => []TypeOK
  BY InitTyped, TypeStep, PTL DEF Spec

------------------------------------------------------------------------------
(* What an action does to stock: it posts a delta, seeds a balance row, or *)
(* leaves stock alone. *)
StockStep ==
  \/ \E d \in [Cell -> Int] : Post(d)
  \/ \E c \in Cell : EnsureRow(c)
  \/ UNCHANGED <<balance, ledger>>

(* No order handler touches stock in any other way. *)
LEMMA EveryStepIsStockStep == TypeOK /\ [Next]_vars => StockStep
<1> SUFFICES ASSUME TypeOK, [Next]_vars
             PROVE  StockStep
  OBVIOUS
<1> USE DEF InFlight
<1>1. ASSUME NEW r \in Request, NEW to \in Status, NEW alloc \in [Cell -> 0 .. Bound],
             CommitDispatch(r, to, alloc)
      PROVE  StockStep
  <2>1. alloc \in [Cell -> Int]
    BY BoundIsNat
  <2> QED
    BY <1>1, <2>1, AmountsClosed DEF CommitDispatch, EnoughStock, IssueStock, StockStep
<1>2. ASSUME NEW r \in Request, CommitCancel(r) \/ CommitErase(r)
      PROVE  StockStep
  <2>1. Was(r) \in OrderRow
    BY <1>2, HeldTyped DEF CommitCancel, CommitErase
  <2>2. Was(r).issued \in [Cell -> Int] /\ Was(r).returned \in [Cell -> Int]
    BY <2>1 DEF OrderRow
  <2> QED
    BY <1>2, <2>2, AmountsClosed DEF CommitCancel, CommitErase, StockStep
<1>3. ASSUME NEW c \in Cell, NEW n \in {1, -1}, OtherMovement(c, n)
      PROVE  StockStep
  <2>1. At(c, n) \in [Cell -> Int]
    BY AmountsClosed
  <2> QED
    BY <1>3, <2>1 DEF OtherMovement, StockStep
<1>4. ASSUME NEW c \in Cell, PreviewDispatch(c)
      PROVE  StockStep
  BY <1>4 DEF PreviewDispatch, StockStep
<1>5. ASSUME NEW r \in Request, NEW o \in Order,
             StartStatus(r, o) \/ StartCancel(r, o) \/ StartEdit(r, o) \/ StartErase(r, o)
      PROVE  StockStep
  BY <1>5 DEF StartStatus, StartCancel, StartEdit, StartErase, Read, StockStep
<1>6. ASSUME NEW r \in Request, DeleteItems(r) \/ FindMovements(r) \/ Fail(r)
      PROVE  StockStep
  BY <1>6 DEF DeleteItems, FindMovements, Fail, StockStep
<1>7. ASSUME NEW r \in Request, NEW lines \in Quantities, CommitEdit(r, lines)
      PROVE  StockStep
  BY <1>7 DEF CommitEdit, StockStep
<1>8. ASSUME NEW r \in Request, NEW to \in Status, CommitStatusOnly(r, to)
      PROVE  StockStep
  BY <1>8 DEF CommitStatusOnly, StockStep
<1>9. ASSUME NEW o \in Order, NEW lines \in Quantities, CreateOrder(o, lines)
      PROVE  StockStep
  BY <1>9 DEF CreateOrder, StockStep
<1>10. CASE UNCHANGED vars
  BY <1>10 DEF vars, StockStep
<1> QED
  BY <1>1, <1>2, <1>3, <1>4, <1>5, <1>6, <1>7, <1>8, <1>9, <1>10 DEF Next

(* The StockBalance rows are the sums of the movement rows in every        *)
(* reachable state, whatever requests overlap on whatever orders.          *)
THEOREM StockStaysDerived == Spec => []StockDerived
<1>1. Init => StockDerived
  BY NoRowIsNoNumber DEF Init, StockInit, StockDerived, Drift, Seeded, None
<1>2. TypeOK /\ StockDerived /\ [Next]_vars => StockDerived'
  <2> SUFFICES ASSUME TypeOK, StockDerived, StockStep
               PROVE  StockDerived'
    BY EveryStepIsStockStep
  <2>1. StockTypeOK
    BY DEF TypeOK
  <2>2. CASE \E d \in [Cell -> Int] : Post(d)
    BY <2>1, <2>2, PostKeepsDerived
  <2>3. CASE \E c \in Cell : EnsureRow(c)
    BY <2>1, <2>3, EnsureKeepsStock
  <2>4. CASE UNCHANGED <<balance, ledger>>
    BY <2>4 DEF StockDerived, Drift, Seeded
  <2> QED
    BY <2>2, <2>3, <2>4 DEF StockStep
<1> QED
  BY <1>1, <1>2, TypeInvariant, PTL DEF Spec

------------------------------------------------------------------------------
(* What requests know.  The guards of the handlers are conditions on the   *)
(* row that was read, and the action properties compare that row with the  *)
(* order as it is; so the inductive invariant carries the guards over to   *)
(* the commit. *)

KnowsOrder(r) ==
  /\ Was(r).status \notin {"new", "gone"}
  /\ \A c \in Cell : Was(r).issued[c] >= 0
  /\ req[r].kind \in {"status", "cancel"} => Was(r).status # "cancelled"
  /\ req[r].kind = "edit" => Was(r).issued = None

Knowledge == \A r \in Request : req[r] # NoRow => KnowsOrder(r)

NothingOwed == \A o \in Order, c \in Cell : order[o].status # "gone" => order[o].issued[c] >= 0

IInv == TypeOK /\ Knowledge /\ NothingOwed

(* A request that ends, or leaves its snapshot alone, knows what it knew.  *)
LEMMA KnowledgeKept ==
  ASSUME Knowledge,
         \A r \in Request : req'[r] # NoRow =>
           /\ req[r] # NoRow
           /\ req'[r].kind = req[r].kind
           /\ req'[r].was.status = req[r].was.status
           /\ req'[r].was.issued = req[r].was.issued
  PROVE  Knowledge'
  BY DEF Knowledge, KnowsOrder, Was

LEMMA FinishKeepsKnowledge ==
  ASSUME TypeOK, Knowledge, NEW r \in Request, Finish(r)
  PROVE  Knowledge'
  BY KnowledgeKept DEF Finish, TypeOK

(* A new snapshot knows what the guards of its Start... action tested. *)
LEMMA ReadGivesKnowledge ==
  ASSUME TypeOK, Knowledge, NothingOwed, NEW r \in Request, NEW o \in Order,
         StartStatus(r, o) \/ StartCancel(r, o) \/ StartEdit(r, o) \/ StartErase(r, o)
  PROVE  Knowledge' /\ NothingOwed'
<1>1. PICK kind \in {"status", "cancel", "edit", "erase"} :
        /\ Read(r, kind, o)
        /\ kind \in {"status", "cancel"} => order[o].status # "cancelled"
        /\ kind = "edit" => order[o].issued = None
  BY DEF StartStatus, StartCancel, StartEdit, StartErase
<1>2. req'[r] = [kind |-> kind, order |-> o, was |-> order[o], begun |-> FALSE, missed |-> FALSE]
  BY <1>1 DEF Read, TypeOK
<1>3. Exists(o) /\ order' = order
  BY <1>1 DEF Read
<1>4. KnowsOrder(r)'
  BY <1>1, <1>2, <1>3 DEF KnowsOrder, Was, Exists, NothingOwed
<1>5. \A q \in Request : q # r => req'[q] = req[q]
  BY <1>1 DEF Read, TypeOK
<1>6. Knowledge'
  BY <1>4, <1>5 DEF Knowledge, KnowsOrder, Was
<1> QED
  BY <1>3, <1>6 DEF NothingOwed, Exists

(* A commit leaves every other order alone. *)
LEMMA CommitOwesNothing ==
  ASSUME TypeOK, NothingOwed, NEW r \in Request, req[r] # NoRow, NEW row \in OrderRow,
         Commit(r, row),
         row.status = "gone" \/ \A c \in Cell : row.issued[c] >= 0
  PROVE  NothingOwed'
<1>1. order[Target(r)] \in OrderRow /\ Target(r) \in Order
  BY HeldTyped
<1>2. order' = [order EXCEPT ![Target(r)] = row]
  BY DEF Commit
<1>3. \A o \in Order : order'[o] = IF o = Target(r) THEN row ELSE order[o]
  BY <1>1, <1>2 DEF TypeOK
<1> QED
  BY <1>3 DEF NothingOwed, Exists

LEMMA IInvStep == IInv /\ [Next]_vars => IInv'
<1> SUFFICES ASSUME IInv, [Next]_vars
             PROVE  Knowledge' /\ NothingOwed'
  BY TypeStep DEF IInv
<1>0. TypeOK /\ Knowledge /\ NothingOwed
  BY DEF IInv
<1> USE DEF InFlight
<1>1. ASSUME NEW o \in Order, NEW lines \in Quantities, CreateOrder(o, lines)
      PROVE  Knowledge' /\ NothingOwed'
  <2>1. order[o] \in OrderRow
    BY <1>0 DEF TypeOK
  <2>2. order'[o].issued = order[o].issued /\ \A x \in Order \ {o} : order'[x] = order[x]
    BY <1>0, <1>1, <2>1 DEF TypeOK, OrderRow, CreateOrder
  <2>3. order[o].status = "new" /\ req' = req
    BY <1>1 DEF CreateOrder
  <2>4. Knowledge'
    BY <1>0, <2>3 DEF Knowledge, KnowsOrder, Was
  <2> QED
    BY <1>0, <2>2, <2>3, <2>4 DEF NothingOwed, Exists
<1>2. ASSUME NEW r \in Request, NEW o \in Order,
             StartStatus(r, o) \/ StartCancel(r, o) \/ StartEdit(r, o) \/ StartErase(r, o)
      PROVE  Knowledge' /\ NothingOwed'
  BY <1>0, <1>2, ReadGivesKnowledge
<1>3. ASSUME NEW r \in Request, NEW to \in Status, NEW alloc \in [Cell -> 0 .. Bound],
             CommitDispatch(r, to, alloc)
      PROVE  Knowledge' /\ NothingOwed'
  <2> DEFINE row == [order[Target(r)] EXCEPT !.status = to, !.issued = Plus(@, alloc)]
  <2>1. req[r] # NoRow /\ Commit(r, row) /\ Finish(r)
    BY <1>3 DEF CommitDispatch, EnoughStock, IssueStock
  <2>2. order[Target(r)] \in OrderRow /\ Target(r) \in Order
    BY <1>0, <2>1, HeldTyped
  <2>3. Plus(order[Target(r)].issued, alloc) \in [Cell -> Int]
    <3>1. alloc \in [Cell -> Int]
      BY BoundIsNat
    <3> QED
      BY <2>2, <3>1, AmountsClosed DEF OrderRow
  <2>4. row \in OrderRow
    BY <2>2, <2>3 DEF OrderRow
  <2>5. \A c \in Cell : order[Target(r)].issued[c] >= 0
    BY <1>0, <2>1, <2>2 DEF NothingOwed, Commit, Exists
  <2>6. \A c \in Cell : row.issued[c] = order[Target(r)].issued[c] + alloc[c]
    BY <2>2 DEF OrderRow, Plus
  <2>7. \A c \in Cell : row.issued[c] >= 0
    BY <2>2, <2>5, <2>6, BoundIsNat DEF OrderRow
  <2> HIDE DEF row
  <2> QED
    BY <1>0, <2>1, <2>4, <2>7, FinishKeepsKnowledge, CommitOwesNothing
<1>4. ASSUME NEW r \in Request, NEW to \in Status, CommitStatusOnly(r, to)
      PROVE  Knowledge' /\ NothingOwed'
  <2> DEFINE row == [order[Target(r)] EXCEPT !.status = to]
  <2>1. req[r] # NoRow /\ Commit(r, row) /\ Finish(r)
    BY <1>4 DEF CommitStatusOnly
  <2>2. order[Target(r)] \in OrderRow /\ Target(r) \in Order
    BY <1>0, <2>1, HeldTyped
  <2>3. row \in OrderRow /\ row.issued = order[Target(r)].issued
    BY <2>2 DEF OrderRow
  <2>4. \A c \in Cell : row.issued[c] >= 0
    BY <1>0, <2>1, <2>2, <2>3 DEF NothingOwed, Commit, Exists
  <2> HIDE DEF row
  <2> QED
    BY <1>0, <2>1, <2>3, <2>4, FinishKeepsKnowledge, CommitOwesNothing
<1>5. ASSUME NEW r \in Request, NEW lines \in Quantities, CommitEdit(r, lines)
      PROVE  Knowledge' /\ NothingOwed'
  <2> DEFINE left == IF req[r].missed THEN order[Target(r)].lines ELSE [p \in Product |-> 0]
             sum == [p \in Product |-> left[p] + lines[p]]
             row == [order[Target(r)] EXCEPT !.lines = sum]
  <2>1. req[r] # NoRow /\ Commit(r, row)
    BY <1>5 DEF CommitEdit
  <2>2. order[Target(r)] \in OrderRow /\ Target(r) \in Order
    BY <1>0, <2>1, HeldTyped
  <2>3. lines \in [Product -> Nat]
    BY MaxQtyIsPositive DEF Quantities
  <2>4. sum \in [Product -> Nat]
    BY <2>2, <2>3 DEF OrderRow
  <2>5. row \in OrderRow /\ row.issued = order[Target(r)].issued
    BY <2>2, <2>4 DEF OrderRow
  <2>6. \A c \in Cell : row.issued[c] >= 0
    BY <1>0, <2>1, <2>2, <2>5 DEF NothingOwed, Commit, Exists
  <2>7. Knowledge'
    <3>1. \A q \in Request : req'[q] = IF q = r THEN NoRow
                                       ELSE IF Overtaken(q, r) THEN [req[q] EXCEPT !.missed = TRUE]
                                       ELSE req[q]
      BY <1>5 DEF CommitEdit
    <3>2. \A q \in Request : req[q] # NoRow =>
            LET s == [req[q] EXCEPT !.missed = TRUE] IN s.kind = req[q].kind /\ s.was = req[q].was
      BY <1>0 DEF TypeOK, Snapshot
    <3> QED
      BY <1>0, <3>1, <3>2, KnowledgeKept DEF Overtaken
  <2> HIDE DEF row
  <2> QED
    BY <1>0, <2>1, <2>5, <2>6, <2>7, CommitOwesNothing
<1>6. ASSUME NEW r \in Request, CommitCancel(r)
      PROVE  Knowledge' /\ NothingOwed'
  <2> DEFINE row == [order[Target(r)] EXCEPT !.status = "cancelled",
                                             !.returned = Plus(@, Was(r).issued)]
  <2>1. req[r] # NoRow /\ Commit(r, row) /\ Finish(r)
    BY <1>6 DEF CommitCancel
  <2>2. Was(r) \in OrderRow /\ order[Target(r)] \in OrderRow /\ Target(r) \in Order
    BY <1>0, <2>1, HeldTyped
  <2>3. row \in OrderRow /\ row.issued = order[Target(r)].issued
    BY <2>2, AmountsClosed DEF OrderRow, Status
  <2>4. \A c \in Cell : row.issued[c] >= 0
    BY <1>0, <2>1, <2>2, <2>3 DEF NothingOwed, Commit, Exists
  <2> HIDE DEF row
  <2> QED
    BY <1>0, <2>1, <2>3, <2>4, FinishKeepsKnowledge, CommitOwesNothing
<1>7. ASSUME NEW r \in Request, DeleteItems(r) \/ FindMovements(r)
      PROVE  Knowledge' /\ NothingOwed'
  <2>1. req[r] # NoRow /\ order' = order
    BY <1>7 DEF DeleteItems, FindMovements
  <2>2. req[r] \in Snapshot /\ Was(r) \in OrderRow
    BY <1>0, <2>1, HeldTyped DEF TypeOK
  <2>3. /\ \A q \in Request \ {r} : req'[q] = req[q]
        /\ req'[r].kind = req[r].kind
        /\ req'[r].was.status = req[r].was.status
        /\ req'[r].was.issued = req[r].was.issued
    BY <1>0, <1>7, <2>2 DEF DeleteItems, FindMovements, TypeOK, Snapshot, OrderRow, Was
  <2>4. Knowledge'
    BY <1>0, <2>1, <2>3, KnowledgeKept
  <2> QED
    BY <1>0, <2>1, <2>4 DEF NothingOwed
<1>8. ASSUME NEW r \in Request, CommitErase(r)
      PROVE  Knowledge' /\ NothingOwed'
  <2> DEFINE row == [status |-> "gone", lines |-> [p \in Product |-> 0],
                     issued |-> Minus(order[Target(r)].issued, Was(r).issued),
                     returned |-> Minus(order[Target(r)].returned, Was(r).returned)]
  <2>1. req[r] # NoRow /\ Commit(r, row) /\ Finish(r)
    BY <1>8 DEF CommitErase
  <2>2. Was(r) \in OrderRow /\ order[Target(r)] \in OrderRow
    BY <1>0, <2>1, HeldTyped
  <2>3. row \in OrderRow /\ row.status = "gone"
    BY <2>2, AmountsClosed DEF OrderRow, Status
  <2> HIDE DEF row
  <2> QED
    BY <1>0, <2>1, <2>3, FinishKeepsKnowledge, CommitOwesNothing
<1>9. ASSUME NEW r \in Request, Fail(r)
      PROVE  Knowledge' /\ NothingOwed'
  BY <1>0, <1>9, FinishKeepsKnowledge DEF Fail, NothingOwed
<1>10. CASE UNCHANGED <<order, req>>
  BY <1>0, <1>10 DEF Knowledge, KnowsOrder, Was, NothingOwed
<1>11. ASSUME NEW c \in Cell, NEW n \in {1, -1}, OtherMovement(c, n) \/ PreviewDispatch(c)
       PROVE  UNCHANGED <<order, req>>
  BY <1>11 DEF OtherMovement, PreviewDispatch
<1>12. (UNCHANGED vars) => UNCHANGED <<order, req>>
  BY DEF vars
<1> QED
  BY <1>1, <1>2, <1>3, <1>4, <1>5, <1>6, <1>7, <1>8, <1>9, <1>10, <1>11, <1>12 DEF Next

(* The inductive invariant holds throughout: in particular, no request     *)
(* that changes or cancels an order has read it as cancelled.              *)
THEOREM RequestsKnow == Spec => []IInv
<1>1. Init => Knowledge /\ NothingOwed
  BY DEF Init, Knowledge, NothingOwed, None
<1>2. Init => IInv
  BY <1>1, InitTyped DEF IInv
<1> QED
  BY <1>2, IInvStep, PTL DEF Spec

------------------------------------------------------------------------------
(* What a step does to the row of one order o. *)
Ends(r, kind, o) ==
  /\ req[r] # NoRow
  /\ req[r].kind = kind
  /\ req[r].order = o
  /\ Exists(o)
  /\ req'[r] = NoRow

Created(o, lines) ==
  /\ order[o].status = "new"
  /\ order'[o] = [order[o] EXCEPT !.status = "open", !.lines = lines]

Dispatched(o, r, to, alloc) ==
  /\ Ends(r, "status", o)
  /\ to \in TriggerStatus
  /\ Was(r).issued = None
  /\ alloc \in Allocations(Was(r).lines)
  /\ order'[o] = [order[o] EXCEPT !.status = to, !.issued = Plus(@, alloc)]

Marked(o, r, to) ==
  /\ Ends(r, "status", o)
  /\ to \in {"open", "sent", "done", "closed"}
  /\ order'[o] = [order[o] EXCEPT !.status = to]

Cancelled(o, r) ==
  /\ Ends(r, "cancel", o)
  /\ order'[o] = [order[o] EXCEPT !.status = "cancelled", !.returned = Plus(@, Was(r).issued)]

Edited(o, r, lines) ==
  /\ Ends(r, "edit", o)
  /\ order'[o] = [order[o] EXCEPT !.lines = lines]

Erased(o, r) ==
  /\ Ends(r, "erase", o)
  /\ order'[o] = [status |-> "gone", lines |-> [p \in Product |-> 0],
                  issued |-> Minus(order[o].issued, Was(r).issued),
                  returned |-> Minus(order[o].returned, Was(r).returned)]

Change(o) ==
  \/ order'[o] = order[o]
  \/ \E lines \in Quantities : Created(o, lines)
  \/ \E r \in Request, to \in Status, alloc \in [Cell -> 0 .. Bound] : Dispatched(o, r, to, alloc)
  \/ \E r \in Request, to \in Status : Marked(o, r, to)
  \/ \E r \in Request, lines \in [Product -> Int] : Edited(o, r, lines)
  \/ \E r \in Request : Cancelled(o, r) \/ Erased(o, r)

(* A commit changes the order it is for and no other. *)
LEMMA CommitChanges ==
  ASSUME TypeOK, NEW r \in Request, req[r] # NoRow, NEW row, Commit(r, row), NEW o \in Order
  PROVE  IF Target(r) = o THEN Exists(o) /\ order'[o] = row ELSE order'[o] = order[o]
  BY HeldTyped DEF TypeOK, Commit

LEMMA EveryStepIsChange ==
  ASSUME TypeOK, [Next]_vars, NEW o \in Order
  PROVE  Change(o)
<1> USE DEF InFlight
<1>1. ASSUME NEW x \in Order, NEW lines \in Quantities, CreateOrder(x, lines)
      PROVE  Change(o)
  <2>1. CASE x = o
    <3>1. Created(o, lines)
      BY <1>1, <2>1 DEF CreateOrder, Created, TypeOK
    <3> QED
      BY <3>1 DEF Change
  <2>2. CASE x # o
    BY <1>1, <2>2 DEF CreateOrder, Change, TypeOK
  <2> QED
    BY <2>1, <2>2
<1>2. ASSUME NEW r \in Request, NEW to \in Status, NEW alloc \in [Cell -> 0 .. Bound],
             CommitDispatch(r, to, alloc)
      PROVE  Change(o)
  <2>1. /\ req[r] # NoRow /\ Finish(r) /\ req[r].kind = "status" /\ to \in TriggerStatus
        /\ Was(r).issued = None /\ alloc \in Allocations(Was(r).lines)
        /\ Commit(r, [order[Target(r)] EXCEPT !.status = to, !.issued = Plus(@, alloc)])
    BY <1>2 DEF CommitDispatch, EnoughStock, IssueStock
  <2>2. req'[r] = NoRow
    BY <2>1 DEF Finish, TypeOK
  <2>3. CASE Target(r) = o
    <3> DEFINE row == [order[o] EXCEPT !.status = to, !.issued = Plus(@, alloc)]
    <3>1. Commit(r, row)
      BY <2>1, <2>3
    <3> HIDE DEF row
    <3>2. Exists(o) /\ order'[o] = row
      BY <2>1, <2>3, <3>1, CommitChanges
    <3>3. Dispatched(o, r, to, alloc)
      BY <2>1, <2>2, <2>3, <3>2 DEF row, Dispatched, Ends, Was, Target
    <3> QED
      BY <3>3 DEF Change
  <2>4. CASE Target(r) # o
    BY <2>1, <2>4, CommitChanges DEF Commit, Change
  <2> QED
    BY <2>3, <2>4
<1>3. ASSUME NEW r \in Request, NEW to \in Status, CommitStatusOnly(r, to)
      PROVE  Change(o)
  <2>1. /\ req[r] # NoRow /\ Finish(r) /\ req[r].kind = "status"
        /\ to \in {"open", "sent", "done", "closed"}
        /\ Commit(r, [order[Target(r)] EXCEPT !.status = to])
    BY <1>3 DEF CommitStatusOnly
  <2>2. req'[r] = NoRow
    BY <2>1 DEF Finish, TypeOK
  <2>3. CASE Target(r) = o
    <3> DEFINE row == [order[o] EXCEPT !.status = to]
    <3>1. Commit(r, row)
      BY <2>1, <2>3
    <3> HIDE DEF row
    <3>2. Exists(o) /\ order'[o] = row
      BY <2>1, <2>3, <3>1, CommitChanges
    <3>3. Marked(o, r, to)
      BY <2>1, <2>2, <2>3, <3>2 DEF row, Marked, Ends, Was, Target
    <3> QED
      BY <3>3 DEF Change
  <2>4. CASE Target(r) # o
    BY <2>1, <2>4, CommitChanges DEF Commit, Change
  <2> QED
    BY <2>3, <2>4
<1>4. ASSUME NEW r \in Request, NEW lines \in Quantities, CommitEdit(r, lines)
      PROVE  Change(o)
  <2> DEFINE left == IF req[r].missed THEN order[Target(r)].lines ELSE [p \in Product |-> 0]
             sum == [p \in Product |-> left[p] + lines[p]]
  <2>1. /\ req[r] # NoRow /\ req[r].kind = "edit"
        /\ Commit(r, [order[Target(r)] EXCEPT !.lines = sum])
        /\ req'[r] = NoRow
    BY <1>4 DEF CommitEdit
  <2>2. order[Target(r)].lines \in [Product -> Nat] /\ lines \in [Product -> Nat]
    BY <2>1, HeldTyped, MaxQtyIsPositive DEF OrderRow, Quantities
  <2>3. sum \in [Product -> Int]
    BY <2>2
  <2>4. CASE Target(r) = o
    <3> HIDE DEF sum
    <3> DEFINE row == [order[o] EXCEPT !.lines = sum]
    <3>1. Commit(r, row)
      BY <2>1, <2>4
    <3> HIDE DEF row
    <3>2. Exists(o) /\ order'[o] = row
      BY <2>1, <2>4, <3>1, CommitChanges
    <3>3. Edited(o, r, sum)
      BY <2>1, <2>4, <3>2 DEF row, Edited, Ends, Was, Target
    <3> QED
      BY <2>3, <3>3 DEF Change
  <2>5. CASE Target(r) # o
    BY <2>1, <2>5, CommitChanges DEF Commit, Change
  <2> QED
    BY <2>4, <2>5
<1>5. ASSUME NEW r \in Request, CommitCancel(r)
      PROVE  Change(o)
  <2>1. /\ req[r] # NoRow /\ Finish(r) /\ req[r].kind = "cancel"
        /\ Commit(r, [order[Target(r)] EXCEPT !.status = "cancelled",
                                              !.returned = Plus(@, Was(r).issued)])
    BY <1>5 DEF CommitCancel
  <2>2. req'[r] = NoRow
    BY <2>1 DEF Finish, TypeOK
  <2>3. CASE Target(r) = o
    <3> DEFINE row == [order[o] EXCEPT !.status = "cancelled", !.returned = Plus(@, Was(r).issued)]
    <3>1. Commit(r, row)
      BY <2>1, <2>3
    <3> HIDE DEF row
    <3>2. Exists(o) /\ order'[o] = row
      BY <2>1, <2>3, <3>1, CommitChanges
    <3>3. Cancelled(o, r)
      BY <2>1, <2>2, <2>3, <3>2 DEF row, Cancelled, Ends, Was, Target
    <3> QED
      BY <3>3 DEF Change
  <2>4. CASE Target(r) # o
    BY <2>1, <2>4, CommitChanges DEF Commit, Change
  <2> QED
    BY <2>3, <2>4
<1>6. ASSUME NEW r \in Request, CommitErase(r)
      PROVE  Change(o)
  <2>1. /\ req[r] # NoRow /\ Finish(r) /\ req[r].kind = "erase"
        /\ Commit(r, [status |-> "gone", lines |-> [p \in Product |-> 0],
                      issued |-> Minus(order[Target(r)].issued, Was(r).issued),
                      returned |-> Minus(order[Target(r)].returned, Was(r).returned)])
    BY <1>6 DEF CommitErase
  <2>2. req'[r] = NoRow
    BY <2>1 DEF Finish, TypeOK
  <2>3. CASE Target(r) = o
    <3> DEFINE row == [status |-> "gone", lines |-> [p \in Product |-> 0],
                     issued |-> Minus(order[o].issued, Was(r).issued),
                     returned |-> Minus(order[o].returned, Was(r).returned)]
    <3>1. Commit(r, row)
      BY <2>1, <2>3
    <3> HIDE DEF row
    <3>2. Exists(o) /\ order'[o] = row
      BY <2>1, <2>3, <3>1, CommitChanges
    <3>3. Erased(o, r)
      BY <2>1, <2>2, <2>3, <3>2 DEF row, Erased, Ends, Was, Target
    <3> QED
      BY <3>3 DEF Change
  <2>4. CASE Target(r) # o
    BY <2>1, <2>4, CommitChanges DEF Commit, Change
  <2> QED
    BY <2>3, <2>4
<1>7. (UNCHANGED order) => Change(o)
  BY DEF Change
<1>8. ASSUME NEW r \in Request, NEW x \in Order,
             StartStatus(r, x) \/ StartCancel(r, x) \/ StartEdit(r, x) \/ StartErase(r, x)
      PROVE  UNCHANGED order
  BY <1>8 DEF StartStatus, StartCancel, StartEdit, StartErase, Read
<1>9. ASSUME NEW r \in Request, DeleteItems(r) \/ FindMovements(r) \/ Fail(r)
      PROVE  UNCHANGED order
  BY <1>9 DEF DeleteItems, FindMovements, Fail
<1>10. ASSUME NEW c \in Cell, NEW n \in {1, -1}, OtherMovement(c, n) \/ PreviewDispatch(c)
       PROVE  UNCHANGED order
  BY <1>10 DEF OtherMovement, PreviewDispatch
<1>11. (UNCHANGED vars) => UNCHANGED order
  BY DEF vars
<1> QED
  BY <1>1, <1>2, <1>3, <1>4, <1>5, <1>6, <1>7, <1>8, <1>9, <1>10, <1>11 DEF Next

(* A cancelled order stays cancelled until it is deleted, unless a status  *)
(* change that read it before it was cancelled commits after.              *)
THEOREM CancelledStays == Spec => CancelledUnlessStaleCommit
<1> DEFINE Revived(o) == order[o].status = "cancelled" /\ order'[o].status \notin {"cancelled", "gone"}
           Blamed(o) == \E r \in Request : StaleCommit(r, o) /\ req[r].kind = "status"
<1>1. ASSUME IInv, [Next]_vars, NEW o \in Order, Revived(o)
      PROVE  Blamed(o)
  <2>1. order[o] \in OrderRow
    BY <1>1 DEF IInv, TypeOK
  <2>2. Change(o)
    BY <1>1, EveryStepIsChange DEF IInv
  <2>3. \A r \in Request : Ends(r, "status", o) => Was(r).status # "cancelled"
    BY <1>1 DEF IInv, Knowledge, KnowsOrder, Ends
  <2>4. \A lines : ~Created(o, lines)
    BY <1>1 DEF Created
  <2>5. ASSUME NEW r \in Request, NEW lines, Edited(o, r, lines) \/ Cancelled(o, r) \/ Erased(o, r)
        PROVE  FALSE
    <3>1. CASE Edited(o, r, lines)
      <4>1. [order[o] EXCEPT !.lines = lines].status = order[o].status
        BY <2>1 DEF OrderRow
      <4> QED
        BY <1>1, <3>1, <4>1 DEF Edited
    <3>2. CASE Cancelled(o, r)
      <4>1. \A x : [order[o] EXCEPT !.status = "cancelled", !.returned = x].status = "cancelled"
        BY <2>1 DEF OrderRow
      <4> QED
        BY <1>1, <3>2, <4>1 DEF Cancelled
    <3>3. CASE Erased(o, r)
      BY <1>1, <3>3 DEF Erased
    <3> QED
      BY <2>5, <3>1, <3>2, <3>3
  <2>6. \E r \in Request : Ends(r, "status", o)
    BY <1>1, <2>2, <2>4, <2>5 DEF Change, Dispatched, Marked
  <2> QED
    BY <1>1, <2>3, <2>6 DEF Ends, StaleCommit, Was
<1>2. IInv /\ [Next]_vars => [\A o \in Order : Revived(o) => Blamed(o)]_vars
  BY <1>1
<1> QED
  BY <1>2, RequestsKnow, PTL DEF Spec, CancelledUnlessStaleCommit

------------------------------------------------------------------------------
(* decrementBalanceIfAvailableTx keeps a cell at zero or above, and so does *)
(* an amount that is not taken but given.                                   *)
LEMMA AvailableNeverOverdraws ==
  ASSUME StockTypeOK, NEW d \in [Cell -> Int], Post(d), NEW c \in Cell,
         Available(d) \/ d[c] >= 0, Seeded(c) >= 0
  PROVE  Seeded(c)' >= 0
  BY NoRowIsNoNumber DEF StockTypeOK, Post, PostTo, Seeded, Available

LEMMA SeedingNeverOverdraws ==
  ASSUME StockTypeOK, NEW x \in Cell, EnsureRow(x), NEW c \in Cell
  PROVE  Seeded(c)' = Seeded(c)
  BY NoRowIsNoNumber DEF StockTypeOK, EnsureRow, Seeded

(* However many dispatches, cancellations and other movements compete for  *)
(* a cell, only the deletion of an order that has given back more than it  *)
(* took can take the cell below zero.                                      *)
THEOREM OrdersNeverOverdraw == Spec => OverdrawnOnlyByExcessReturn
<1> DEFINE Overdrawn(c) == Seeded(c) >= 0 /\ Seeded(c)' < 0
           Blamed(c) == \E r \in Request : /\ InFlight(r, "erase") /\ req'[r] = NoRow
                                           /\ Was(r).returned[c] > Was(r).issued[c]
<1>1. ASSUME IInv, [Next]_vars, NEW c \in Cell, Overdrawn(c)
      PROVE  Blamed(c)
  <2>0. TypeOK /\ StockTypeOK
    BY <1>1 DEF IInv, TypeOK
  <2>1. Seeded(c)' # Seeded(c) /\ Seeded(c) \in Int /\ ~(Seeded(c)' >= 0)
    BY <1>1, <2>0, NoRowIsNoNumber, EveryStepIsStockStep, PostKeepsType, EnsureKeepsStock
       DEF StockTypeOK, Seeded, StockStep
  <2>2. ASSUME NEW r \in Request, NEW to \in Status, NEW alloc \in [Cell -> 0 .. Bound],
               CommitDispatch(r, to, alloc)
        PROVE  FALSE
    <3>1. alloc \in [Cell -> Int]
      BY BoundIsNat
    <3>2. Negated(alloc) \in [Cell -> Int]
      BY <3>1, AmountsClosed
    <3> QED
      BY <1>1, <2>0, <2>1, <2>2, <3>2, AvailableNeverOverdraws DEF CommitDispatch, EnoughStock, IssueStock
  <2>3. ASSUME NEW r \in Request, CommitCancel(r)
        PROVE  FALSE
    <3>1. req[r] # NoRow /\ Post(Was(r).issued)
      BY <2>3 DEF CommitCancel, InFlight
    <3>2. Was(r).issued \in [Cell -> Int] /\ Was(r).issued[c] >= 0
      BY <1>1, <2>0, <3>1, HeldTyped DEF OrderRow, IInv, Knowledge, KnowsOrder
    <3> QED
      BY <1>1, <2>0, <2>1, <3>1, <3>2, AvailableNeverOverdraws
  <2>4. ASSUME NEW r \in Request, CommitErase(r)
        PROVE  Blamed(c)
    <3> DEFINE d == Minus(Was(r).issued, Was(r).returned)
    <3>1. InFlight(r, "erase") /\ req[r] # NoRow /\ Post(d) /\ Finish(r)
      BY <2>4 DEF CommitErase, InFlight
    <3>2. Was(r).issued \in [Cell -> Int] /\ Was(r).returned \in [Cell -> Int]
      BY <2>0, <3>1, HeldTyped DEF OrderRow
    <3>3. d \in [Cell -> Int] /\ d[c] = Was(r).issued[c] - Was(r).returned[c]
      BY <3>2, AmountsClosed DEF Minus
    <3>4. ~(d[c] >= 0)
      <4> HIDE DEF d
      <4> QED
        BY <1>1, <2>0, <2>1, <3>1, <3>3, AvailableNeverOverdraws
    <3>5. Was(r).returned[c] > Was(r).issued[c]
      BY <3>2, <3>3, <3>4
    <3>6. req'[r] = NoRow
      BY <2>0, <3>1 DEF Finish, TypeOK
    <3> QED
      BY <3>1, <3>5, <3>6
  <2>5. ASSUME NEW x \in Cell, NEW n \in {1, -1}, OtherMovement(x, n)
        PROVE  FALSE
    <3>1. At(x, n) \in [Cell -> Int]
      BY AmountsClosed
    <3> QED
      BY <1>1, <2>0, <2>1, <2>5, <3>1, AvailableNeverOverdraws DEF OtherMovement
  <2>6. ASSUME NEW x \in Cell, PreviewDispatch(x)
        PROVE  FALSE
    BY <2>0, <2>1, <2>6, SeedingNeverOverdraws DEF PreviewDispatch
  <2>7. ~ UNCHANGED <<balance, ledger>>
    BY <2>1 DEF Seeded
  <2>8. CASE UNCHANGED vars
    BY <2>7, <2>8 DEF vars
  <2>9. ASSUME NEW r \in Request, NEW o \in Order,
               StartStatus(r, o) \/ StartCancel(r, o) \/ StartEdit(r, o) \/ StartErase(r, o)
        PROVE  FALSE
    BY <2>7, <2>9 DEF StartStatus, StartCancel, StartEdit, StartErase, Read
  <2>10. ASSUME NEW r \in Request, DeleteItems(r) \/ FindMovements(r) \/ Fail(r)
         PROVE  FALSE
    BY <2>7, <2>10 DEF DeleteItems, FindMovements, Fail
  <2>11. ASSUME NEW r \in Request, NEW lines \in Quantities, CommitEdit(r, lines)
         PROVE  FALSE
    BY <2>7, <2>11 DEF CommitEdit
  <2>12. ASSUME NEW r \in Request, NEW to \in Status, CommitStatusOnly(r, to)
         PROVE  FALSE
    BY <2>7, <2>12 DEF CommitStatusOnly
  <2>13. ASSUME NEW o \in Order, NEW lines \in Quantities, CreateOrder(o, lines)
         PROVE  FALSE
    BY <2>7, <2>13 DEF CreateOrder
  <2> QED
    BY <1>1, <2>2, <2>3, <2>4, <2>5, <2>6, <2>8, <2>9, <2>10, <2>11, <2>12, <2>13 DEF Next
<1>2. IInv /\ [Next]_vars => [\A c \in Cell : Overdrawn(c) => Blamed(c)]_vars
  BY <1>1
<1> QED
  BY <1>2, RequestsKnow, PTL DEF Spec, OverdrawnOnlyByExcessReturn

------------------------------------------------------------------------------
(* A handler whose snapshot is still the order it writes to keeps the      *)
(* order sound: every order that is neither dispatched in full nor not at  *)
(* all, or cancelled with too much or too little returned, was left so by  *)
(* a request that acted on an order somebody else had changed.             *)
THEOREM SoundWhenFresh == Spec => SoundnessLostOnlyToStaleCommit
<1> DEFINE Lost(o) == Sound(order[o]) /\ ~Sound(order'[o])
           Blamed(o) == \E r \in Request : StaleCommit(r, o)
<1>1. ASSUME IInv, [Next]_vars, NEW o \in Order, Lost(o)
      PROVE  Blamed(o)
  <2> SUFFICES ASSUME \A r \in Request : ~StaleCommit(r, o)
               PROVE  FALSE
    OBVIOUS
  <2> DEFINE row == order[o]
  <2>1. row \in OrderRow /\ order[o] = row
    BY <1>1 DEF IInv, TypeOK
  <2>2. Change(o)
    BY <1>1, EveryStepIsChange DEF IInv
  <2>3. ASSUME NEW r \in Request, NEW kind, Ends(r, kind, o)
        PROVE  Was(r) = row /\ req[r] # NoRow /\ req[r].kind = kind /\ KnowsOrder(r)
    BY <1>1, <2>3 DEF Ends, StaleCommit, Was, IInv, Knowledge
  <2>4. Plus(None, row.issued) = row.issued /\ \A d \in [Cell -> Int] : Plus(None, d) = d /\ Minus(d, d) = None
    BY <2>1 DEF OrderRow, Plus, Minus, None
  <2> HIDE DEF row
  <2>5. ASSUME NEW lines \in Quantities, Created(o, lines)
        PROVE  FALSE
    <3>1. row.status = "new" /\ row.issued = None /\ row.returned = None
      BY <1>1, <2>1, <2>5 DEF Created, Sound
    <3>2. order'[o] = [row EXCEPT !.status = "open", !.lines = lines]
      BY <2>1, <2>5 DEF Created
    <3>3. order'[o].status = "open" /\ order'[o].issued = None /\ order'[o].returned = None
      BY <2>1, <3>1, <3>2 DEF OrderRow
    <3> QED
      BY <1>1, <3>3 DEF Sound
  <2>6. ASSUME NEW r \in Request, NEW to \in Status, NEW alloc \in [Cell -> 0 .. Bound],
               Dispatched(o, r, to, alloc)
        PROVE  FALSE
    <3>1. /\ Was(r) = row /\ KnowsOrder(r) /\ req[r].kind = "status"
          /\ to \in {"sent", "done"} /\ row.issued = None /\ alloc \in Allocations(row.lines)
      BY <2>3, <2>6 DEF Dispatched, TriggerStatus
    <3>2. row.status \notin {"new", "gone", "cancelled"}
      BY <3>1 DEF KnowsOrder
    <3>3. row.returned = None
      BY <1>1, <2>1, <3>2 DEF Sound
    <3>4. alloc \in [Cell -> Int]
      BY BoundIsNat
    <3>5. Plus(row.issued, alloc) = alloc
      BY <2>4, <3>1, <3>4
    <3>6. order'[o] = [row EXCEPT !.status = to, !.issued = Plus(row.issued, alloc)]
      BY <2>1, <2>6 DEF Dispatched
    <3>7. /\ order'[o].status = to /\ order'[o].issued = alloc
          /\ order'[o].lines = row.lines /\ order'[o].returned = None
      BY <2>1, <3>3, <3>5, <3>6 DEF OrderRow
    <3>8. \A p \in Product : SumOver(order'[o].issued, p) = order'[o].lines[p]
      BY <3>1, <3>7 DEF Allocations
    <3> QED
      BY <1>1, <3>1, <3>7, <3>8 DEF Sound
  <2>7. ASSUME NEW r \in Request, NEW to \in Status, Marked(o, r, to)
        PROVE  FALSE
    <3>1. KnowsOrder(r) /\ Was(r) = row /\ req[r].kind = "status" /\ to \in {"open", "sent", "done", "closed"}
      BY <2>3, <2>7 DEF Marked
    <3>2. row.status \notin {"new", "gone", "cancelled"}
      BY <3>1 DEF KnowsOrder
    <3>3. order'[o] = [row EXCEPT !.status = to]
      BY <2>1, <2>7 DEF Marked
    <3>4. /\ order'[o].status = to /\ order'[o].issued = row.issued
          /\ order'[o].lines = row.lines /\ order'[o].returned = row.returned
      BY <2>1, <3>3 DEF OrderRow
    <3> QED
      BY <1>1, <2>1, <3>1, <3>2, <3>4 DEF Sound
  <2>8. ASSUME NEW r \in Request, NEW lines \in [Product -> Int], Edited(o, r, lines)
        PROVE  FALSE
    <3>1. KnowsOrder(r) /\ Was(r) = row /\ row.issued = None
      BY <2>3, <2>8 DEF Edited, KnowsOrder
    <3>2. row.status \notin {"new", "gone"}
      BY <3>1 DEF KnowsOrder
    <3>3. order'[o] = [row EXCEPT !.lines = lines]
      BY <2>1, <2>8 DEF Edited
    <3>4. /\ order'[o].status = row.status /\ order'[o].issued = None
          /\ order'[o].returned = row.returned
      BY <2>1, <3>1, <3>3 DEF OrderRow
    <3> QED
      BY <1>1, <2>1, <3>1, <3>2, <3>4 DEF Sound
  <2>9. ASSUME NEW r \in Request, Cancelled(o, r)
        PROVE  FALSE
    <3>1. KnowsOrder(r) /\ Was(r) = row /\ req[r].kind = "cancel"
      BY <2>3, <2>9 DEF Cancelled
    <3>2. row.status \notin {"new", "gone", "cancelled"}
      BY <3>1 DEF KnowsOrder
    <3>3. row.returned = None
      BY <1>1, <2>1, <3>2 DEF Sound
    <3>4. order'[o] = [row EXCEPT !.status = "cancelled", !.returned = Plus(row.returned, row.issued)]
      BY <2>1, <2>9, <3>1 DEF Cancelled
    <3>5. /\ order'[o].status = "cancelled" /\ order'[o].issued = row.issued
          /\ order'[o].returned = row.issued
      BY <2>1, <2>4, <3>3, <3>4 DEF OrderRow
    <3> QED
      BY <1>1, <3>5 DEF Sound
  <2>10. ASSUME NEW r \in Request, Erased(o, r)
         PROVE  FALSE
    <3>1. Was(r) = row
      BY <2>3, <2>10 DEF Erased
    <3>2. row.issued \in [Cell -> Int] /\ row.returned \in [Cell -> Int]
      BY <2>1 DEF OrderRow
    <3>3. /\ order'[o].status = "gone"
          /\ order'[o].issued = Minus(row.issued, row.issued)
          /\ order'[o].returned = Minus(row.returned, row.returned)
      BY <2>1, <2>10, <3>1 DEF Erased
    <3>4. order'[o].issued = None /\ order'[o].returned = None
      BY <2>4, <3>2, <3>3
    <3> QED
      BY <1>1, <3>3, <3>4 DEF Sound
  <2>11. order'[o] # order[o]
    BY <1>1
  <2> QED
    BY <2>2, <2>5, <2>6, <2>7, <2>8, <2>9, <2>10, <2>11 DEF Change
<1>2. IInv /\ [Next]_vars => [\A o \in Order : Lost(o) => Blamed(o)]_vars
  BY <1>1
<1> QED
  BY <1>2, RequestsKnow, PTL DEF Spec, SoundnessLostOnlyToStaleCommit

------------------------------------------------------------------------------
(* The auxiliary total is the sum of the movement rows. *)

Moved(c) == SumFunction([o \in Order |-> Net(order[o], c)])

LEMMA NetTyped ==
  ASSUME NEW row \in OrderRow, NEW c \in Cell
  PROVE  Net(row, c) \in Int
BY DEF OrderRow, Net

LEMMA MovedTyped ==
  ASSUME TypeOK, NEW c \in Cell
  PROVE  Moved(c) \in Int /\ ledger[c] \in Int /\ other[c] \in Int
<1> DEFINE f == [o \in Order |-> Net(order[o], c)]
<1>1. \A o \in Order : f[o] \in Int
  BY NetTyped DEF TypeOK
<1>2. DOMAIN f = Order
  OBVIOUS
<1> HIDE DEF f
<1>3. SumFunction(f) \in Int
  BY <1>1, <1>2, SumIsInt, OrdersAreFinite DEF SumFunction
<1> QED
  BY <1>3 DEF Moved, f, TypeOK, StockTypeOK

(* Writing one order changes the sum by what its own rows add up to. *)
LEMMA MovedWithOrder ==
  ASSUME TypeOK, TypeOK', NEW o \in Order, \A x \in Order \ {o} : order'[x] = order[x], NEW c \in Cell
  PROVE  Moved(c)' = Moved(c) + Net(order'[o], c) - Net(order[o], c)
<1>1. order \in [Order -> OrderRow] /\ order' \in [Order -> OrderRow]
  BY DEF TypeOK
<1> DEFINE f == [x \in Order |-> Net(order[x], c)]
           g == [x \in Order |-> Net(order'[x], c)]
<1>2. \A x \in Order : f[x] \in Int /\ g[x] \in Int
  BY <1>1, NetTyped
<1>3. \A x \in Order \ {o} : f[x] = g[x]
  OBVIOUS
<1>4. DOMAIN f = Order /\ DOMAIN g = Order
  OBVIOUS
<1>5. f[o] = Net(order[o], c) /\ g[o] = Net(order'[o], c)
  OBVIOUS
<1>6. Moved(c) = SumFunction(f) /\ Moved(c)' = SumFunction(g)
  BY DEF Moved
<1> HIDE DEF f, g
<1>7. SumFunctionOnSet(g, Order) = SumFunctionOnSet(f, Order) + g[o] - f[o]
  BY <1>2, <1>3, SumExcept, OrdersAreFinite
<1> QED
  BY <1>4, <1>5, <1>6, <1>7 DEF SumFunction

LEMMA OrderAddsUp ==
  ASSUME TypeOK, TypeOK', RowsAddUp, NEW o \in Order, NEW row, order' = [order EXCEPT ![o] = row],
         other' = other,
         \A c \in Cell : ledger'[c] = ledger[c] + Net(row, c) - Net(order[o], c)
  PROVE  RowsAddUp'
<1> SUFFICES ASSUME NEW c \in Cell
             PROVE  ledger'[c] = other'[c] + Moved(c)'
  BY DEF RowsAddUp, Moved
<1>1. order'[o] = row /\ \A x \in Order \ {o} : order'[x] = order[x]
  BY DEF TypeOK
<1>2. Moved(c)' = Moved(c) + Net(order'[o], c) - Net(order[o], c)
  BY <1>1, MovedWithOrder
<1>3. Net(order[o], c) \in Int /\ Net(order'[o], c) \in Int
  BY NetTyped DEF TypeOK
<1>4. ledger[c] = other[c] + Moved(c)
  BY DEF RowsAddUp, Moved
<1>5. Moved(c) \in Int /\ ledger[c] \in Int /\ other[c] \in Int
  BY MovedTyped
<1>6. ledger'[c] = ledger[c] + Net(order'[o], c) - Net(order[o], c)
  BY <1>1
<1> QED
  BY <1>2, <1>3, <1>4, <1>5, <1>6

LEMMA StillAddsUp ==
  ASSUME RowsAddUp, UNCHANGED <<ledger, other, order>>
  PROVE  RowsAddUp'
BY DEF RowsAddUp

(* A row committed without its movements touched, and without stock moved. *)
LEMMA LabelAddsUp ==
  ASSUME TypeOK, TypeOK', RowsAddUp, NEW o \in Order, NEW row, order' = [order EXCEPT ![o] = row],
         row.issued = order[o].issued, row.returned = order[o].returned,
         UNCHANGED <<ledger, other>>
  PROVE  RowsAddUp'
<1>1. ASSUME NEW c \in Cell
      PROVE  ledger'[c] = ledger[c] + Net(row, c) - Net(order[o], c)
  <2>1. Net(row, c) = Net(order[o], c)
    BY DEF Net
  <2>2. Net(order[o], c) \in Int /\ ledger[c] \in Int
    BY NetTyped, MovedTyped DEF TypeOK
  <2> QED
    BY <2>1, <2>2
<1> QED
  BY <1>1, OrderAddsUp

LEMMA AddUpStep == TypeOK /\ RowsAddUp /\ [Next]_vars => RowsAddUp'
<1> SUFFICES ASSUME TypeOK, RowsAddUp, [Next]_vars
             PROVE  RowsAddUp'
  OBVIOUS
<1>0. TypeOK'
  BY TypeStep
<1> USE DEF InFlight
<1>1. ASSUME NEW r \in Request, NEW row, NEW d \in [Cell -> Int], req[r] # NoRow,
             Commit(r, row), Post(d), other' = other, row \in OrderRow,
             \A c \in Cell : Net(row, c) - Net(order[Target(r)], c) = d[c]
      PROVE  RowsAddUp'
  <2>1. Target(r) \in Order /\ order[Target(r)] \in OrderRow
    BY <1>1, HeldTyped
  <2>2. ASSUME NEW c \in Cell
        PROVE  ledger'[c] = ledger[c] + Net(row, c) - Net(order[Target(r)], c)
    <3>1. ledger'[c] = ledger[c] + d[c]
      BY <1>1 DEF Post, PostTo
    <3>2. Net(row, c) \in Int /\ Net(order[Target(r)], c) \in Int /\ ledger[c] \in Int
      BY <1>1, <2>1, NetTyped, MovedTyped
    <3> QED
      BY <1>1, <3>1, <3>2
  <2>3. order' = [order EXCEPT ![Target(r)] = row]
    BY <1>1 DEF Commit
  <2> QED
    BY <1>0, <1>1, <2>1, <2>2, <2>3, OrderAddsUp
<1>2. ASSUME NEW o \in Order, NEW lines \in Quantities, CreateOrder(o, lines)
      PROVE  RowsAddUp'
  <2> DEFINE row == [order[o] EXCEPT !.status = "open", !.lines = lines]
  <2>1. order[o] \in OrderRow
    BY DEF TypeOK
  <2>2. order' = [order EXCEPT ![o] = row] /\ UNCHANGED <<ledger, other>>
    BY <1>2, <2>1 DEF CreateOrder, TypeOK
  <2>3. row.issued = order[o].issued /\ row.returned = order[o].returned
    BY <2>1 DEF OrderRow
  <2> HIDE DEF row
  <2> QED
    BY <1>0, <2>2, <2>3, LabelAddsUp
<1>3. ASSUME NEW r \in Request, NEW o \in Order,
             StartStatus(r, o) \/ StartCancel(r, o) \/ StartEdit(r, o) \/ StartErase(r, o)
      PROVE  RowsAddUp'
  BY <1>3, StillAddsUp DEF StartStatus, StartCancel, StartEdit, StartErase, Read
<1>4. ASSUME NEW r \in Request, NEW to \in Status, NEW alloc \in [Cell -> 0 .. Bound],
             CommitDispatch(r, to, alloc)
      PROVE  RowsAddUp'
  <2> DEFINE now == order[Target(r)]
             row == [now EXCEPT !.status = to, !.issued = Plus(@, alloc)]
  <2>1. req[r] # NoRow /\ Commit(r, row) /\ Post(Negated(alloc)) /\ other' = other
    BY <1>4 DEF CommitDispatch, EnoughStock, IssueStock
  <2>0. \A n \in 0 .. Bound : n \in Int
    BY BoundIsNat
  <2>2. alloc \in [Cell -> Int] /\ Negated(alloc) \in [Cell -> Int]
    <3>1. alloc \in [Cell -> Int]
      BY <2>0
    <3> QED
      BY <3>1, AmountsClosed
  <2>3. now \in OrderRow /\ Plus(now.issued, alloc) \in [Cell -> Int]
    BY <2>1, <2>2, HeldTyped, AmountsClosed DEF OrderRow
  <2>4. /\ row \in OrderRow
        /\ row.issued = Plus(now.issued, alloc) /\ row.returned = now.returned
    BY <2>3 DEF OrderRow
  <2>5. ASSUME NEW c \in Cell
        PROVE  Net(row, c) - Net(now, c) = Negated(alloc)[c]
    <3>1. row.issued[c] = now.issued[c] + alloc[c] /\ row.returned[c] = now.returned[c]
      BY <2>4 DEF Plus
    <3>2. now.issued[c] \in Int /\ now.returned[c] \in Int /\ alloc[c] \in Int
      BY <2>2, <2>3 DEF OrderRow
    <3>3. Negated(alloc)[c] = 0 - alloc[c]
      BY DEF Negated, Minus, None
    <3> HIDE DEF row, now
    <3> QED
      BY <3>1, <3>2, <3>3 DEF Net
  <2> HIDE DEF row
  <2> QED
    BY <1>1, <2>1, <2>2, <2>4, <2>5
<1>5. ASSUME NEW r \in Request, NEW to \in Status, CommitStatusOnly(r, to)
      PROVE  RowsAddUp'
  <2> DEFINE row == [order[Target(r)] EXCEPT !.status = to]
  <2>1. req[r] # NoRow /\ Commit(r, row) /\ UNCHANGED <<ledger, other>>
    BY <1>5 DEF CommitStatusOnly
  <2>2. Target(r) \in Order /\ order[Target(r)] \in OrderRow
    BY <2>1, HeldTyped
  <2>3. /\ order' = [order EXCEPT ![Target(r)] = row]
        /\ row.issued = order[Target(r)].issued /\ row.returned = order[Target(r)].returned
    BY <2>1, <2>2 DEF Commit, OrderRow
  <2> HIDE DEF row
  <2> QED
    BY <1>0, <2>1, <2>2, <2>3, LabelAddsUp
<1>6. ASSUME NEW r \in Request, NEW lines \in Quantities, CommitEdit(r, lines)
      PROVE  RowsAddUp'
  <2>1. PICK sum : Commit(r, [order[Target(r)] EXCEPT !.lines = sum])
    BY <1>6 DEF CommitEdit
  <2> DEFINE row == [order[Target(r)] EXCEPT !.lines = sum]
  <2>2. req[r] # NoRow /\ UNCHANGED <<ledger, other>>
    BY <1>6 DEF CommitEdit
  <2>3. Target(r) \in Order /\ order[Target(r)] \in OrderRow
    BY <2>2, HeldTyped
  <2>4. /\ order' = [order EXCEPT ![Target(r)] = row]
        /\ row.issued = order[Target(r)].issued /\ row.returned = order[Target(r)].returned
    BY <2>1, <2>3 DEF Commit, OrderRow
  <2> HIDE DEF row
  <2> QED
    BY <1>0, <2>2, <2>3, <2>4, LabelAddsUp
<1>7. ASSUME NEW r \in Request, CommitCancel(r)
      PROVE  RowsAddUp'
  <2> DEFINE now == order[Target(r)]
             row == [now EXCEPT !.status = "cancelled", !.returned = Plus(@, Was(r).issued)]
  <2>1. req[r] # NoRow /\ Commit(r, row) /\ Post(Was(r).issued) /\ other' = other
    BY <1>7 DEF CommitCancel
  <2>2. now \in OrderRow /\ Was(r).issued \in [Cell -> Int]
    BY <2>1, HeldTyped DEF OrderRow
  <2>3. Plus(now.returned, Was(r).issued) \in [Cell -> Int]
    BY <2>2, AmountsClosed DEF OrderRow
  <2>4. /\ row \in OrderRow
        /\ row.issued = now.issued /\ row.returned = Plus(now.returned, Was(r).issued)
    BY <2>2, <2>3 DEF OrderRow, Status
  <2>5. ASSUME NEW c \in Cell
        PROVE  Net(row, c) - Net(now, c) = Was(r).issued[c]
    <3>1. row.issued[c] = now.issued[c] /\ row.returned[c] = now.returned[c] + Was(r).issued[c]
      BY <2>4 DEF Plus
    <3>2. now.issued[c] \in Int /\ now.returned[c] \in Int /\ Was(r).issued[c] \in Int
      BY <2>2 DEF OrderRow
    <3> HIDE DEF row, now
    <3> QED
      BY <3>1, <3>2 DEF Net
  <2> HIDE DEF row
  <2> QED
    BY <1>1, <2>1, <2>2, <2>4, <2>5
<1>8. ASSUME NEW r \in Request, DeleteItems(r) \/ FindMovements(r) \/ Fail(r)
      PROVE  RowsAddUp'
  BY <1>8, StillAddsUp DEF DeleteItems, FindMovements, Fail
<1>9. ASSUME NEW r \in Request, CommitErase(r)
      PROVE  RowsAddUp'
  <2> DEFINE now == order[Target(r)]
             d == Minus(Was(r).issued, Was(r).returned)
             row == [status |-> "gone", lines |-> [p \in Product |-> 0],
                     issued |-> Minus(now.issued, Was(r).issued),
                     returned |-> Minus(now.returned, Was(r).returned)]
  <2>1. req[r] # NoRow /\ Commit(r, row) /\ Post(d) /\ other' = other
    BY <1>9 DEF CommitErase
  <2>2. /\ now \in OrderRow
        /\ Was(r).issued \in [Cell -> Int] /\ Was(r).returned \in [Cell -> Int]
    BY <2>1, HeldTyped DEF OrderRow
  <2>3. /\ d \in [Cell -> Int] /\ Minus(now.issued, Was(r).issued) \in [Cell -> Int]
        /\ Minus(now.returned, Was(r).returned) \in [Cell -> Int]
    BY <2>2, AmountsClosed DEF OrderRow
  <2>4. row \in OrderRow
    BY <2>3 DEF OrderRow, Status
  <2>5. ASSUME NEW c \in Cell
        PROVE  Net(row, c) - Net(now, c) = d[c]
    <3>1. /\ row.issued[c] = now.issued[c] - Was(r).issued[c]
          /\ row.returned[c] = now.returned[c] - Was(r).returned[c]
          /\ d[c] = Was(r).issued[c] - Was(r).returned[c]
      BY DEF Minus
    <3>2. /\ now.issued[c] \in Int /\ now.returned[c] \in Int
          /\ Was(r).issued[c] \in Int /\ Was(r).returned[c] \in Int
      BY <2>2 DEF OrderRow
    <3> HIDE DEF row, now, d
    <3> QED
      BY <3>1, <3>2 DEF Net
  <2> HIDE DEF row, d
  <2> QED
    BY <1>1, <2>1, <2>3, <2>4, <2>5
<1>10. ASSUME NEW c \in Cell, NEW n \in {1, -1}, OtherMovement(c, n)
       PROVE  RowsAddUp'
  <2> SUFFICES ASSUME NEW x \in Cell
               PROVE  ledger'[x] = other'[x] + Moved(x)'
    BY DEF RowsAddUp, Moved
  <2>1. At(c, n) \in [Cell -> Int]
    BY AmountsClosed
  <2>2. ledger'[x] = ledger[x] + At(c, n)[x] /\ other'[x] = other[x] + At(c, n)[x]
    BY <1>10 DEF OtherMovement, Post, PostTo, Plus
  <2>3. Moved(x)' = Moved(x)
    BY <1>10 DEF OtherMovement, Moved
  <2>4. ledger[x] = other[x] + Moved(x)
    BY DEF RowsAddUp, Moved
  <2>5. Moved(x) \in Int /\ ledger[x] \in Int /\ other[x] \in Int /\ At(c, n)[x] \in Int
    BY <2>1, MovedTyped
  <2> QED
    BY <2>2, <2>3, <2>4, <2>5
<1>11. ASSUME NEW c \in Cell, PreviewDispatch(c)
       PROVE  RowsAddUp'
  BY <1>11, StillAddsUp DEF PreviewDispatch, EnsureRow
<1>12. CASE UNCHANGED vars
  BY <1>12, StillAddsUp DEF vars
<1> QED
  BY <1>2, <1>3, <1>4, <1>5, <1>6, <1>7, <1>8, <1>9, <1>10, <1>11, <1>12 DEF Next

(* The total that seedBalanceFromMovementsTx computes from the rows is the *)
(* one the order handlers have kept up: each dispatch, cancellation and    *)
(* deletion posts what the rows it writes or deletes add up to, also when  *)
(* it acts on an order that has changed since it was read.                 *)
THEOREM RowsStayAddedUp == Spec => []RowsAddUp
<1>1. Init => RowsAddUp
  <2> SUFFICES ASSUME Init, NEW c \in Cell
               PROVE  ledger[c] = other[c] + Moved(c)
    BY DEF RowsAddUp, Moved
  <2> DEFINE f == [o \in Order |-> Net(order[o], c)]
  <2>1. \A o \in Order : f[o] = 0
    BY DEF Init, Net, None
  <2>2. DOMAIN f = Order
    OBVIOUS
  <2>3. Moved(c) = SumFunction(f)
    BY DEF Moved
  <2> HIDE DEF f
  <2>4. SumFunction(f) = 0
    BY <2>1, <2>2, SumOfZeros, OrdersAreFinite DEF SumFunction
  <2>5. ledger[c] = 0 /\ other[c] = 0
    BY DEF Init, StockInit, None
  <2> QED
    BY <2>3, <2>4, <2>5
<1> QED
  BY <1>1, AddUpStep, TypeInvariant, PTL DEF Spec
==============================================================================
