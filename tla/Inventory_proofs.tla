--------------------------- MODULE Inventory_proofs ---------------------------
(***************************************************************************)
(* What Inventory guarantees for any number of factories, products,        *)
(* production logs, notes and requests.                                    *)
(***************************************************************************)
EXTENDS Inventory, SumTheorems, TLAPS

(* Amounts per cell stay amounts per cell. *)
LEMMA AmountsClosed ==
  /\ None \in [Cell -> Int]
  /\ \A c \in Cell, q \in Int : At(c, q) \in [Cell -> Int]
  /\ \A d, e \in [Cell -> Int] : /\ Plus(d, e) \in [Cell -> Int]
                                 /\ Minus(d, e) \in [Cell -> Int]
                                 /\ Negated(d) \in [Cell -> Int]
  BY DEF None, At, Plus, Minus, Negated

(* Quantities are positive; a note's may be either way. *)
LEMMA QtyNumbers ==
  /\ \A q \in Qty : q \in Int /\ q > 0
  /\ \A q \in Qty \cup {-n : n \in Qty} : q \in Int /\ q # 0
  BY QtyIsPositive

(* A row of a movement names a cell and an amount. *)
LEMMA RowsHaveDeltas ==
  ASSUME NEW row \in Row \cup NoteRow
  PROVE  /\ CellOf(row) \in Cell
         /\ row.qty \in Int
         /\ Delta(row) \in [Cell -> Int]
         /\ Negated(Delta(row)) \in [Cell -> Int]
<1>1. row.factory \in Factory /\ row.product \in Product
  BY DEF Row, NoteRow
<1>2. CellOf(row) \in Cell
  BY <1>1 DEF CellOf, Cell
<1>3. row.qty \in Qty \cup {-q : q \in Qty}
  BY DEF Row, NoteRow
<1>4. row.qty \in Int
  BY <1>3, QtyNumbers
<1> QED
  BY <1>2, <1>4, AmountsClosed DEF Delta

(* Production only makes. *)
LEMMA ProductionMakes ==
  ASSUME NEW row \in Row
  PROVE  \A c \in Cell : Delta(row)[c] >= 0
<1>1. row.qty \in Qty
  BY DEF Row
<1>2. row.qty \in Int /\ row.qty >= 0
  BY <1>1, QtyNumbers
<1> QED
  BY <1>2 DEF Delta, At

(* The writes of a transaction leave typed balances behind. *)
LEMMA PostToKeepsType ==
  ASSUME StockTypeOK, NEW db \in [Cell -> Int], NEW dl \in [Cell -> Int], PostTo(db, dl)
  PROVE  StockTypeOK'
  BY DEF StockTypeOK, PostTo, Seeded

LEMMA PostKeepsType ==
  ASSUME StockTypeOK, NEW d \in [Cell -> Int], Post(d)
  PROVE  StockTypeOK'
  BY PostToKeepsType DEF Post

LEMMA EnsureKeepsType ==
  ASSUME StockTypeOK, NEW c \in Cell, EnsureRow(c)
  PROVE  StockTypeOK'
  BY DEF StockTypeOK, EnsureRow

(* createMovementTx and updateMovementTx move the balance and the sum of   *)
(* the movements together. *)
LEMMA PostKeepsDrift ==
  ASSUME StockTypeOK, NEW d \in [Cell -> Int], Post(d), NEW c \in Cell
  PROVE  Drift(c)' = Drift(c)
  BY NoRowIsNoNumber DEF StockTypeOK, Drift, Post, PostTo, Seeded

LEMMA EnsureKeepsDrift ==
  ASSUME StockTypeOK, NEW x \in Cell, EnsureRow(x), NEW c \in Cell
  PROVE  Drift(c)' = Drift(c) /\ Seeded(c)' = Seeded(c)
  BY NoRowIsNoNumber DEF StockTypeOK, Drift, EnsureRow, Seeded

(* The amounts a manual request carries. *)
LEMMA LinesTyped ==
  ASSUME NEW f \in Factory, NEW take \in Entries
  PROVE  /\ Lines(f, take) \in [Cell -> Int]
         /\ Negated(Lines(f, take)) \in [Cell -> Int]
         /\ \A c \in Cell : Lines(f, take)[c] >= 0
<1>1. take \in [Product -> Int] /\ \A p \in Product : take[p] >= 0
  BY QtyNumbers DEF Entries
<1>2. Lines(f, take) \in [Cell -> Int] /\ \A c \in Cell : Lines(f, take)[c] >= 0
  <2>1. \A c \in Cell : c[2] \in Product
    BY DEF Cell
  <2> QED
    BY <1>1, <2>1 DEF Lines
<1> QED
  BY <1>2, AmountsClosed

LEMMA ProducedTyped ==
  ASSUME NEW entry, Produced(entry) \in Addable
  PROVE  /\ Produced(entry) \in [Cell -> Int]
         /\ \A c \in Cell : Produced(entry)[c] >= 0
  BY BoundIsNat DEF Addable

(* The snapshot a request holds is of its kind. *)
LEMMA SnapshotTyped ==
  ASSUME TypeOK, NEW r \in Request, req[r] # NoRow
  PROVE  /\ req[r].kind \in {"update", "delete"} => req[r].id \in Log /\ req[r].row \in Row
         /\ req[r].kind \in {"month", "erase"} => req[r].id \in Voucher /\ req[r].row \in NoteRow \cup {NoRow}
  BY DEF TypeOK, Snapshot

------------------------------------------------------------------------------
LEMMA InitTyped == Init => TypeOK
<1> SUFFICES ASSUME Init
             PROVE  TypeOK
  OBVIOUS
<1>1. StockTypeOK /\ plain \in [Cell -> Int]
  BY AmountsClosed DEF Init, StockInit, StockTypeOK
<1> QED
  BY <1>1 DEF Init, TypeOK, VoucherState

(* Manual movements post what they add to plain. *)
LEMMA ManualTyped ==
  ASSUME TypeOK, NEW d \in [Cell -> Int], Manual(d), corrected' \subseteq Cell
  PROVE  TypeOK'
<1>1. StockTypeOK'
  BY PostKeepsType DEF TypeOK, Manual
<1>2. plain' \in [Cell -> Int]
  BY AmountsClosed DEF TypeOK, Manual
<1> QED
  BY <1>1, <1>2 DEF TypeOK, Manual, tables

LEMMA ManualStepTyped == TypeOK /\ ManualNext => TypeOK'
<1> SUFFICES ASSUME TypeOK, ManualNext
             PROVE  TypeOK'
  OBVIOUS
<1>0. corrected \subseteq Cell
  BY DEF TypeOK
<1>1. ASSUME NEW c \in Cell, NEW q \in Qty, CreateIn(c, q) \/ CreateOut(c, q)
      PROVE  TypeOK'
  <2>1. At(c, q) \in [Cell -> Int] /\ At(c, -q) \in [Cell -> Int]
    BY QtyNumbers, AmountsClosed
  <2> QED
    BY <1>0, <1>1, <2>1, ManualTyped DEF CreateIn, CreateOut
<1>2. ASSUME NEW f \in Factory, NEW take \in Entries,
             CreateDeleteMovements(f, take) \/ CreateOpeningStock(f, take)
      PROVE  TypeOK'
  BY <1>0, <1>2, LinesTyped, ManualTyped DEF CreateDeleteMovements, CreateOpeningStock
<1>3. ASSUME NEW c \in Cell, NEW q \in Qty, CreateAdjustment(c, q) \/ CreateAdjustment(c, -q)
      PROVE  TypeOK'
  <2>1. At(c, q) \in [Cell -> Int] /\ At(c, -q) \in [Cell -> Int]
    BY QtyNumbers, AmountsClosed
  <2> QED
    BY <1>0, <1>3, <2>1, ManualTyped DEF CreateAdjustment, Correct
<1>4. ASSUME NEW c \in Cell, SeedBalance(c)
      PROVE  TypeOK'
  BY <1>4, EnsureKeepsType DEF SeedBalance, TypeOK, tables, aux
<1> QED
  BY <1>1, <1>2, <1>3, <1>4 DEF ManualNext

(* What an update takes back of a movement, if the log has one. *)
Back(l) == Reversal(made[l])

LEMMA BackTyped ==
  ASSUME TypeOK, NEW l \in Log
  PROVE  Back(l) \in [Cell -> Int]
  BY AmountsClosed, RowsHaveDeltas DEF TypeOK, Back, Reversal

LEMMA AmendedTyped ==
  ASSUME NEW row \in Row, NEW change \in Change
  PROVE  Amended(row, change) \in Row
  BY DEF Row, Change, Amended

LEMMA FinishTyped ==
  ASSUME TypeOK, NEW r \in Request, req' = [req EXCEPT ![r] = NoRow]
  PROVE  req' \in [Request -> Snapshot \cup {NoRow}]
  BY DEF TypeOK

LEMMA ProductionStepTyped == TypeOK /\ ProductionNext => TypeOK'
<1> SUFFICES ASSUME TypeOK, ProductionNext
             PROVE  TypeOK'
  OBVIOUS
<1>0. StockTypeOK
  BY DEF TypeOK
<1>1. ASSUME NEW L \in SUBSET Log, NEW entry \in [L -> Row], CreateProduction(entry)
      PROVE  TypeOK'
  <2>1. DOMAIN entry = L
    OBVIOUS
  <2>2. Produced(entry) \in Addable /\ Post(Produced(entry))
    BY <1>1 DEF CreateProduction
  <2>3. StockTypeOK'
    BY <1>0, <2>2, ProducedTyped, PostKeepsType
  <2>4. log' = [l \in Log |-> IF l \in L THEN entry[l] ELSE log[l]]
    BY <1>1, <2>1 DEF CreateProduction
  <2>5. made' = [l \in Log |-> IF l \in L THEN entry[l] ELSE made[l]]
    BY <1>1, <2>1 DEF CreateProduction
  <2>6. log' \in [Log -> Row \cup {NoRow, Gone}]
    BY <2>4 DEF TypeOK
  <2>7. made' \in [Log -> Row \cup {NoRow}]
    BY <2>5 DEF TypeOK
  <2> QED
    BY <1>1, <2>3, <2>6, <2>7 DEF TypeOK, CreateProduction, aux
<1>2. ASSUME NEW r \in Request, NEW l \in Log, StartUpdateProduction(r, l)
      PROVE  TypeOK'
  <2>1. [kind |-> "update", id |-> l, row |-> log[l]] \in Snapshot
    BY <1>2 DEF StartUpdateProduction, Snapshot
  <2> QED
    BY <1>2, <2>1 DEF StartUpdateProduction, TypeOK, StockTypeOK, tables, aux
<1>3. ASSUME NEW r \in Request, NEW l \in Log, StartDeleteProduction(r, l)
      PROVE  TypeOK'
  <2>1. [kind |-> "delete", id |-> l, row |-> made[l]] \in Snapshot
    BY <1>3 DEF StartDeleteProduction, Snapshot
  <2> QED
    BY <1>3, <2>1 DEF StartDeleteProduction, TypeOK, StockTypeOK, tables, aux
<1>4. ASSUME NEW r \in Request, NEW change \in Change, CommitUpdateProduction(r, change)
      PROVE  TypeOK'
  <2> DEFINE l == req[r].id
             next == Amended(req[r].row, change)
             back == Back(l)
  <2>1. /\ req[r] # NoRow /\ req[r].kind = "update" /\ log[l] \in Row
        /\ Post(Plus(back, Delta(next)))
        /\ log' = [log EXCEPT ![l] = Amended(log[l], change)]
        /\ made' = [made EXCEPT ![l] = next]
        /\ Correct(back)
        /\ req' = [req EXCEPT ![r] = NoRow]
        /\ UNCHANGED <<voucher, note, plain>>
    BY <1>4 DEF CommitUpdateProduction, UpdateMovement, Back
  <2>2. l \in Log /\ req[r].row \in Row
    BY <2>1, SnapshotTyped
  <2>3. next \in Row /\ Amended(log[l], change) \in Row
    BY <2>1, <2>2, AmendedTyped
  <2>4. back \in [Cell -> Int] /\ Delta(next) \in [Cell -> Int]
    BY <2>2, <2>3, BackTyped, RowsHaveDeltas
  <2>5. StockTypeOK'
    BY <1>0, <2>1, <2>4, AmountsClosed, PostKeepsType
  <2>6. corrected' \subseteq Cell
    BY <2>1 DEF Correct, TypeOK
  <2> HIDE DEF l, next, back
  <2>7. log' \in [Log -> Row \cup {NoRow, Gone}] /\ made' \in [Log -> Row \cup {NoRow}]
    BY <2>1, <2>3 DEF TypeOK
  <2> QED
    BY <2>1, <2>5, <2>6, <2>7, FinishTyped DEF TypeOK
<1>5. ASSUME NEW r \in Request, CommitDeleteProduction(r)
      PROVE  TypeOK'
  <2> DEFINE l == req[r].id
             back == Negated(Delta(req[r].row))
  <2>1. /\ req[r] # NoRow /\ req[r].kind = "delete" /\ made[l] \in Row
        /\ PostTo(back, Negated(Delta(made[l])))
        /\ log' = [log EXCEPT ![l] = Gone]
        /\ made' = [made EXCEPT ![l] = NoRow]
        /\ req' = [req EXCEPT ![r] = NoRow]
        /\ UNCHANGED <<voucher, note, plain, corrected>>
    BY <1>5 DEF CommitDeleteProduction, aux
  <2>2. req[r].row \in Row
    BY <2>1, SnapshotTyped
  <2>3. back \in [Cell -> Int] /\ Negated(Delta(made[l])) \in [Cell -> Int]
    BY <2>1, <2>2, RowsHaveDeltas
  <2>4. StockTypeOK'
    BY <1>0, <2>1, <2>3, PostToKeepsType
  <2> HIDE DEF l, back
  <2>5. log' \in [Log -> Row \cup {NoRow, Gone}] /\ made' \in [Log -> Row \cup {NoRow}]
    BY <2>1 DEF TypeOK
  <2> QED
    BY <2>1, <2>4, <2>5, FinishTyped DEF TypeOK
<1> QED
  BY <1>1, <1>2, <1>3, <1>4, <1>5 DEF ProductionNext

LEMMA ReversalTyped ==
  ASSUME NEW row \in NoteRow \cup {NoRow}
  PROVE  Reversal(row) \in [Cell -> Int]
  BY AmountsClosed, RowsHaveDeltas DEF Reversal

LEMMA NoteStepTyped == TypeOK /\ NoteNext => TypeOK'
<1> SUFFICES ASSUME TypeOK, NoteNext
             PROVE  TypeOK'
  OBVIOUS
<1>0. StockTypeOK
  BY DEF TypeOK
<1>1. ASSUME NEW v \in Voucher, NEW row \in NoteRow, CreateNote(v, row)
      PROVE  TypeOK'
  <2>1. StockTypeOK'
    BY <1>0, <1>1, RowsHaveDeltas, PostKeepsType DEF CreateNote
  <2> QED
    BY <1>1, <2>1 DEF CreateNote, TypeOK, VoucherState, aux
<1>2. ASSUME NEW r \in Request, NEW v \in Voucher, StartMonthDelete(r, v) \/ StartEraseVoucher(r, v)
      PROVE  TypeOK'
  <2>1. note[v] \in NoteRow \cup {NoRow}
    BY DEF TypeOK
  <2>2. \A kind \in {"month", "erase"} : [kind |-> kind, id |-> v, row |-> note[v]] \in Snapshot
    BY <2>1 DEF Snapshot
  <2> QED
    BY <1>2, <2>2 DEF StartMonthDelete, StartEraseVoucher, TypeOK, StockTypeOK, tables, aux
<1>3. ASSUME NEW r \in Request, CommitMonthDelete(r)
      PROVE  TypeOK'
  <2> DEFINE v == req[r].id
  <2>1. /\ req[r] # NoRow /\ req[r].kind = "month"
        /\ Post(Reversal(req[r].row))
        /\ note' = [note EXCEPT ![v] = NoRow]
        /\ voucher' = [voucher EXCEPT ![v] = IF voucher[v] = "active" THEN "inactive" ELSE voucher[v]]
        /\ req' = [req EXCEPT ![r] = NoRow]
        /\ UNCHANGED <<log, made, plain, corrected>>
    BY <1>3 DEF CommitMonthDelete, aux
  <2>2. Reversal(req[r].row) \in [Cell -> Int]
    BY <2>1, SnapshotTyped, ReversalTyped
  <2>3. StockTypeOK'
    BY <1>0, <2>1, <2>2, PostKeepsType
  <2>4. note' \in [Voucher -> NoteRow \cup {NoRow}] /\ voucher' \in [Voucher -> VoucherState]
    BY <2>1 DEF TypeOK, VoucherState
  <2> QED
    BY <2>1, <2>3, <2>4, FinishTyped DEF TypeOK
<1>4. ASSUME NEW r \in Request, CommitEraseVoucher(r)
      PROVE  TypeOK'
  <2> DEFINE v == req[r].id
  <2>1. /\ req[r] # NoRow /\ req[r].kind = "erase"
        /\ note' = [note EXCEPT ![v] = NoRow]
        /\ voucher' = [voucher EXCEPT ![v] = "erased"]
        /\ Correct(Reversal(req[r].row))
        /\ req' = [req EXCEPT ![r] = NoRow]
        /\ UNCHANGED <<log, made, plain>>
    BY <1>4 DEF CommitEraseVoucher
  <2>2. PostTo(Reversal(req[r].row), IF note[v] = NoRow THEN None ELSE Reversal(req[r].row))
    BY <1>4 DEF CommitEraseVoucher
  <2>3. Reversal(req[r].row) \in [Cell -> Int]
    BY <2>1, SnapshotTyped, ReversalTyped
  <2>4. StockTypeOK'
    BY <1>0, <2>2, <2>3, AmountsClosed, PostToKeepsType
  <2>5. note' \in [Voucher -> NoteRow \cup {NoRow}] /\ voucher' \in [Voucher -> VoucherState]
    BY <2>1 DEF TypeOK, VoucherState
  <2>6. corrected' \subseteq Cell
    BY <2>1 DEF Correct, TypeOK
  <2> QED
    BY <2>1, <2>4, <2>5, <2>6, FinishTyped DEF TypeOK
<1> QED
  BY <1>1, <1>2, <1>3, <1>4 DEF NoteNext

LEMMA TypeStep == TypeOK /\ [Next]_vars => TypeOK'
<1>1. ASSUME TypeOK, NEW r \in Request, Fail(r)
      PROVE  TypeOK'
  BY <1>1, FinishTyped DEF Fail, TypeOK, StockTypeOK, tables, aux
<1>2. TypeOK /\ UNCHANGED vars => TypeOK'
  BY DEF TypeOK, StockTypeOK, vars
<1> QED
  BY <1>1, <1>2, ManualStepTyped, ProductionStepTyped, NoteStepTyped DEF Next

(* Every variable has its type, for any set of logs, notes and requests.   *)
THEOREM TypeInvariant == Spec => []TypeOK
  BY InitTyped, TypeStep, PTL DEF Spec

------------------------------------------------------------------------------
(* The inductive invariant.  A movement row's cell has a balance row (every *)
(* movement is created together with one), so taking a row back never has   *)
(* to seed; and the pairings, which the deletions re-establish.             *)
RowsHaveBalance ==
  /\ \A l \in Log : made[l] # NoRow => balance[CellOf(made[l])] # NoRow
  /\ \A v \in Voucher : note[v] # NoRow => balance[CellOf(note[v])] # NoRow

Paired == ProductionPaired /\ NotePaired

IInv == TypeOK /\ RowsHaveBalance /\ OverdrawnOnlyIfCorrected /\ Paired

(* No row of StockBalance is ever deleted, and a cell that is posted to has *)
(* one afterwards. *)
LEMMA PostToKeepsRows ==
  ASSUME StockTypeOK, NEW db \in [Cell -> Int], NEW dl, PostTo(db, dl)
  PROVE  \A c \in Cell : balance[c] # NoRow \/ db[c] # 0 => balance'[c] # NoRow
  BY NoRowIsNoNumber DEF StockTypeOK, PostTo, Seeded

(* Stock that is taken with a floor, or on record as taken without one.    *)
LEMMA PostToKeepsFloor ==
  ASSUME StockTypeOK, OverdrawnOnlyIfCorrected,
         NEW db \in [Cell -> Int], NEW dl \in [Cell -> Int], PostTo(db, dl),
         \A c \in Cell : db[c] = 0 /\ balance[c] = NoRow => dl[c] = 0,
         corrected \subseteq corrected',
         \A c \in Cell : db[c] < 0 => Seeded(c) + db[c] >= 0 \/ c \in corrected'
  PROVE  OverdrawnOnlyIfCorrected'
<1> SUFFICES ASSUME NEW c \in Cell, Seeded(c)' < 0
             PROVE  c \in corrected'
  BY DEF OverdrawnOnlyIfCorrected
<1>1. balance[c] \in Int \cup {NoRow} /\ ledger[c] \in Int /\ Seeded(c) \in Int
  BY DEF StockTypeOK, Seeded
<1>2. CASE db[c] = 0
  <2>1. Seeded(c)' = Seeded(c)
    BY <1>1, <1>2, NoRowIsNoNumber DEF PostTo, Seeded
  <2> QED
    BY <2>1 DEF OverdrawnOnlyIfCorrected
<1>3. CASE db[c] # 0
  <2>1. Seeded(c)' = Seeded(c) + db[c]
    BY <1>1, <1>3, NoRowIsNoNumber DEF PostTo, Seeded
  <2> QED
    BY <1>1, <1>3, <2>1 DEF OverdrawnOnlyIfCorrected
<1> QED
  BY <1>2, <1>3

(* A row's delta is at its own cell, and nowhere else. *)
LEMMA DeltaAtCell ==
  ASSUME NEW row \in Row \cup NoteRow
  PROVE  /\ Delta(row)[CellOf(row)] # 0
         /\ \A c \in Cell : c # CellOf(row) => Delta(row)[c] = 0
<1>1. row.qty \in Qty \cup {-n : n \in Qty}
  BY DEF Row, NoteRow
<1>2. row.qty \in Int /\ row.qty # 0
  BY <1>1, QtyNumbers
<1> QED
  BY <1>2, RowsHaveDeltas DEF Delta, At

LEMMA NoRowsAmongRows == NoRow \notin Row /\ NoRow \notin NoteRow /\ Gone \notin Row /\ Gone # NoRow
  BY NullsAreNoRows

(* Actions that write neither logs nor notes. *)
LEMMA TablesKept ==
  ASSUME TypeOK, RowsHaveBalance, Paired, UNCHANGED tables,
         \A c \in Cell : balance[c] # NoRow => balance'[c] # NoRow
  PROVE  RowsHaveBalance' /\ Paired'
<1>1. /\ \A l \in Log : made[l] # NoRow => CellOf(made[l]) \in Cell
      /\ \A v \in Voucher : note[v] # NoRow => CellOf(note[v]) \in Cell
  BY RowsHaveDeltas DEF TypeOK
<1>2. made' = made /\ note' = note
  BY DEF tables
<1>3. ASSUME NEW l \in Log, made'[l] # NoRow
      PROVE  balance'[CellOf(made'[l])] # NoRow
  BY <1>1, <1>2, <1>3 DEF RowsHaveBalance
<1>4. ASSUME NEW v \in Voucher, note'[v] # NoRow
      PROVE  balance'[CellOf(note'[v])] # NoRow
  BY <1>1, <1>2, <1>4 DEF RowsHaveBalance
<1>5. RowsHaveBalance'
  BY <1>3, <1>4 DEF RowsHaveBalance, CellOf
<1> QED
  BY <1>5 DEF Paired, ProductionPaired, NotePaired, tables

LEMMA ManualKeeps ==
  ASSUME IInv, NEW d \in [Cell -> Int], Manual(d), corrected \subseteq corrected',
         \A c \in Cell : d[c] < 0 => Seeded(c) + d[c] >= 0 \/ c \in corrected'
  PROVE  RowsHaveBalance' /\ OverdrawnOnlyIfCorrected' /\ Paired'
<1>1. StockTypeOK /\ PostTo(d, d) /\ UNCHANGED tables
  BY DEF IInv, TypeOK, Manual, Post
<1>2. OverdrawnOnlyIfCorrected'
  BY <1>1, PostToKeepsFloor DEF IInv
<1> QED
  BY <1>1, <1>2, PostToKeepsRows, TablesKept DEF IInv

LEMMA ManualStep == IInv /\ ManualNext => RowsHaveBalance' /\ OverdrawnOnlyIfCorrected' /\ Paired'
<1> SUFFICES ASSUME IInv, ManualNext
             PROVE  RowsHaveBalance' /\ OverdrawnOnlyIfCorrected' /\ Paired'
  OBVIOUS
<1>1. ASSUME NEW c \in Cell, NEW q \in Qty, CreateIn(c, q)
      PROVE  RowsHaveBalance' /\ OverdrawnOnlyIfCorrected' /\ Paired'
  <2>1. At(c, q) \in [Cell -> Int] /\ \A x \in Cell : ~(At(c, q)[x] < 0)
    BY QtyNumbers, AmountsClosed DEF At
  <2> QED
    BY <1>1, <2>1, ManualKeeps DEF CreateIn
<1>2. ASSUME NEW c \in Cell, NEW q \in Qty, CreateOut(c, q)
      PROVE  RowsHaveBalance' /\ OverdrawnOnlyIfCorrected' /\ Paired'
  <2>1. At(c, -q) \in [Cell -> Int]
    BY QtyNumbers, AmountsClosed
  <2> QED
    BY <1>2, <2>1, ManualKeeps DEF CreateOut, Available
<1>3. ASSUME NEW f \in Factory, NEW take \in Entries, CreateDeleteMovements(f, take)
      PROVE  RowsHaveBalance' /\ OverdrawnOnlyIfCorrected' /\ Paired'
  BY <1>3, LinesTyped, ManualKeeps DEF CreateDeleteMovements, Available
<1>4. ASSUME NEW f \in Factory, NEW take \in Entries, CreateOpeningStock(f, take)
      PROVE  RowsHaveBalance' /\ OverdrawnOnlyIfCorrected' /\ Paired'
  <2>1. Lines(f, take) \in [Cell -> Int] /\ \A x \in Cell : ~(Lines(f, take)[x] < 0)
    BY LinesTyped
  <2> QED
    BY <1>4, <2>1, ManualKeeps DEF CreateOpeningStock
<1>5. ASSUME NEW c \in Cell, NEW q \in Int, CreateAdjustment(c, q)
      PROVE  RowsHaveBalance' /\ OverdrawnOnlyIfCorrected' /\ Paired'
  BY <1>5, AmountsClosed, ManualKeeps DEF CreateAdjustment, Correct
<1>6. \A q \in Qty : q \in Int /\ -q \in Int
  BY QtyNumbers
<1>7. ASSUME NEW c \in Cell, SeedBalance(c)
      PROVE  RowsHaveBalance' /\ OverdrawnOnlyIfCorrected' /\ Paired'
  <2>1. StockTypeOK
    BY DEF IInv, TypeOK
  <2>2. \A x \in Cell : balance[x] # NoRow => balance'[x] # NoRow
    BY <1>7, <2>1, NoRowIsNoNumber DEF SeedBalance, EnsureRow, StockTypeOK
  <2>3. \A x \in Cell : Seeded(x)' = Seeded(x)
    BY <1>7, <2>1, EnsureKeepsDrift DEF SeedBalance
  <2>4. OverdrawnOnlyIfCorrected'
    BY <1>7, <2>3 DEF IInv, OverdrawnOnlyIfCorrected, SeedBalance, aux
  <2> QED
    BY <1>7, <2>2, <2>4, TablesKept DEF IInv, SeedBalance
<1> QED
  BY <1>1, <1>2, <1>3, <1>4, <1>5, <1>6, <1>7 DEF ManualNext

(* Production writes no note, notes write no log. *)
LEMMA NotesKept ==
  ASSUME TypeOK, RowsHaveBalance, NotePaired, UNCHANGED <<voucher, note>>,
         \A c \in Cell : balance[c] # NoRow => balance'[c] # NoRow,
         ProductionPaired',
         \A l \in Log : made'[l] # NoRow => balance'[CellOf(made'[l])] # NoRow
  PROVE  RowsHaveBalance' /\ Paired'
<1>1. \A v \in Voucher : note[v] # NoRow => CellOf(note[v]) \in Cell
  BY RowsHaveDeltas DEF TypeOK
<1>2. ASSUME NEW v \in Voucher, note'[v] # NoRow
      PROVE  balance'[CellOf(note'[v])] # NoRow
  BY <1>1, <1>2 DEF RowsHaveBalance
<1>3. RowsHaveBalance'
  BY <1>2 DEF RowsHaveBalance, CellOf
<1> QED
  BY <1>3 DEF Paired, NotePaired

LEMMA LogsKept ==
  ASSUME TypeOK, RowsHaveBalance, ProductionPaired, UNCHANGED <<log, made>>,
         \A c \in Cell : balance[c] # NoRow => balance'[c] # NoRow,
         NotePaired',
         \A v \in Voucher : note'[v] # NoRow => balance'[CellOf(note'[v])] # NoRow
  PROVE  RowsHaveBalance' /\ Paired'
<1>1. \A l \in Log : made[l] # NoRow => CellOf(made[l]) \in Cell
  BY RowsHaveDeltas DEF TypeOK
<1>2. ASSUME NEW l \in Log, made'[l] # NoRow
      PROVE  balance'[CellOf(made'[l])] # NoRow
  BY <1>1, <1>2 DEF RowsHaveBalance
<1>3. RowsHaveBalance'
  BY <1>2 DEF RowsHaveBalance, CellOf
<1> QED
  BY <1>3 DEF Paired, ProductionPaired

LEMMA ProductionStep == IInv /\ ProductionNext => RowsHaveBalance' /\ OverdrawnOnlyIfCorrected' /\ Paired'
<1> SUFFICES ASSUME IInv, ProductionNext
             PROVE  RowsHaveBalance' /\ OverdrawnOnlyIfCorrected' /\ Paired'
  OBVIOUS
<1>0. /\ TypeOK /\ StockTypeOK /\ RowsHaveBalance /\ OverdrawnOnlyIfCorrected
      /\ Paired /\ ProductionPaired /\ NotePaired
  BY DEF IInv, TypeOK, Paired
<1>1. ASSUME NEW L \in SUBSET Log, NEW entry \in [L -> Row], CreateProduction(entry)
      PROVE  RowsHaveBalance' /\ OverdrawnOnlyIfCorrected' /\ Paired'
  <2>1. DOMAIN entry = L
    OBVIOUS
  <2>2. /\ Produced(entry) \in [Cell -> Int] /\ \A c \in Cell : Produced(entry)[c] >= 0
        /\ PostTo(Produced(entry), Produced(entry))
    BY <1>1, ProducedTyped DEF CreateProduction, Post
  <2>3. /\ \A l \in L : log[l] = NoRow /\ balance'[CellOf(entry[l])] # NoRow
        /\ log' = [l \in Log |-> IF l \in L THEN entry[l] ELSE log[l]]
        /\ made' = [l \in Log |-> IF l \in L THEN entry[l] ELSE made[l]]
        /\ UNCHANGED <<voucher, note, plain, corrected>>
    BY <1>1, <2>1 DEF CreateProduction, aux
  <2>4. \A c \in Cell : balance[c] # NoRow => balance'[c] # NoRow
    BY <1>0, <2>2, PostToKeepsRows
  <2>5. OverdrawnOnlyIfCorrected'
    <3>1. \A c \in Cell : ~(Produced(entry)[c] < 0)
      BY <2>2
    <3> QED
      BY <1>0, <2>2, <2>3, <3>1, PostToKeepsFloor
  <2>6. ProductionPaired'
    BY <1>0, <2>3, NoRowsAmongRows DEF ProductionPaired, TypeOK
  <2>7. ASSUME NEW l \in Log, made'[l] # NoRow
        PROVE  balance'[CellOf(made'[l])] # NoRow
    <3>1. CASE l \in L
      BY <2>3, <3>1
    <3>2. CASE l \notin L
      <4>1. made'[l] = made[l] /\ made[l] \in Row
        BY <1>0, <2>3, <2>7, <3>2 DEF TypeOK
      <4>2. CellOf(made[l]) \in Cell
        BY <4>1, RowsHaveDeltas
      <4> QED
        BY <1>0, <2>4, <2>7, <4>1, <4>2 DEF RowsHaveBalance
    <3> QED
      BY <3>1, <3>2
  <2> QED
    BY <1>0, <2>3, <2>4, <2>5, <2>6, <2>7, NotesKept
<1>2. ASSUME NEW r \in Request, NEW l \in Log, StartUpdateProduction(r, l) \/ StartDeleteProduction(r, l)
      PROVE  RowsHaveBalance' /\ OverdrawnOnlyIfCorrected' /\ Paired'
  <2>1. UNCHANGED <<balance, ledger, tables, aux>>
    BY <1>2 DEF StartUpdateProduction, StartDeleteProduction
  <2>2. OverdrawnOnlyIfCorrected'
    BY <1>0, <2>1 DEF OverdrawnOnlyIfCorrected, Seeded, aux
  <2> QED
    BY <1>0, <2>1, <2>2, TablesKept
<1>3. ASSUME NEW r \in Request, NEW change \in Change, CommitUpdateProduction(r, change)
      PROVE  RowsHaveBalance' /\ OverdrawnOnlyIfCorrected' /\ Paired'
  <2> DEFINE l == req[r].id
             next == Amended(req[r].row, change)
             back == Back(l)
             d == Plus(back, Delta(next))
  <2>1. /\ req[r] # NoRow /\ req[r].kind = "update" /\ log[l] \in Row
        /\ PostTo(d, d)
        /\ log' = [log EXCEPT ![l] = Amended(log[l], change)]
        /\ made' = [made EXCEPT ![l] = next]
        /\ Correct(back)
        /\ UNCHANGED <<voucher, note, plain>>
    BY <1>3 DEF CommitUpdateProduction, UpdateMovement, Back, Post
  <2>2. l \in Log /\ req[r].row \in Row
    BY <1>0, <2>1, SnapshotTyped
  <2>3. next \in Row /\ Amended(log[l], change) \in Row
    BY <2>1, <2>2, AmendedTyped
  <2>4. back \in [Cell -> Int] /\ Delta(next) \in [Cell -> Int]
    BY <1>0, <2>2, <2>3, BackTyped, RowsHaveDeltas
  <2>5. d \in [Cell -> Int] /\ \A c \in Cell : d[c] = back[c] + Delta(next)[c]
    BY <2>4, AmountsClosed DEF Plus
  <2>6. \A c \in Cell : Delta(next)[c] >= 0
    BY <2>3, ProductionMakes
  <2>7. CellOf(next) \in Cell /\ Delta(next)[CellOf(next)] # 0
    BY <2>3, RowsHaveDeltas, DeltaAtCell
  <2>8. back[CellOf(next)] = 0 \/ balance[CellOf(next)] # NoRow
    <3>1. CASE made[l] = NoRow
      BY <2>7, <3>1 DEF Back, Reversal, None
    <3>2. CASE made[l] # NoRow
      <4>1. made[l] \in Row
        BY <1>0, <2>2, <3>2 DEF TypeOK
      <4>2. \A c \in Cell : c # CellOf(made[l]) => Delta(made[l])[c] = 0
        BY <4>1, DeltaAtCell
      <4>3. balance[CellOf(made[l])] # NoRow
        BY <1>0, <2>2, <3>2 DEF RowsHaveBalance
      <4>4. CellOf(next) # CellOf(made[l]) => back[CellOf(next)] = 0
        BY <2>7, <3>2, <4>2 DEF Back, Reversal, Negated, Minus, None
      <4> QED
        BY <4>3, <4>4
    <3> QED
      BY <3>1, <3>2
  <2> HIDE DEF l, next, back, d
  <2>9. \A c \in Cell : balance[c] # NoRow \/ d[c] # 0 => balance'[c] # NoRow
    BY <1>0, <2>1, <2>5, PostToKeepsRows
  <2>10. balance'[CellOf(next)] # NoRow
    BY <2>4, <2>5, <2>7, <2>8, <2>9
  <2>11. OverdrawnOnlyIfCorrected'
    <3>1. \A c \in Cell : d[c] < 0 => c \in corrected'
      BY <2>1, <2>4, <2>5, <2>6 DEF Correct
    <3>2. corrected \subseteq corrected'
      BY <2>1 DEF Correct
    <3> QED
      BY <1>0, <2>1, <2>5, <3>1, <3>2, PostToKeepsFloor
  <2>12. ProductionPaired'
    BY <1>0, <2>1, <2>2, <2>3 DEF ProductionPaired, TypeOK
  <2>13. ASSUME NEW k \in Log, made'[k] # NoRow
         PROVE  balance'[CellOf(made'[k])] # NoRow
    <3>1. CASE k = l
      BY <1>0, <2>1, <2>10, <3>1 DEF TypeOK
    <3>2. CASE k # l
      <4>1. made'[k] = made[k] /\ made[k] \in Row
        BY <1>0, <2>1, <2>13, <3>2 DEF TypeOK
      <4>2. CellOf(made[k]) \in Cell
        BY <4>1, RowsHaveDeltas
      <4> QED
        BY <1>0, <2>9, <2>13, <4>1, <4>2 DEF RowsHaveBalance
    <3> QED
      BY <3>1, <3>2
  <2> QED
    BY <1>0, <2>1, <2>9, <2>11, <2>12, <2>13, NotesKept
<1>4. ASSUME NEW r \in Request, CommitDeleteProduction(r)
      PROVE  RowsHaveBalance' /\ OverdrawnOnlyIfCorrected' /\ Paired'
  <2> DEFINE l == req[r].id
             back == Negated(Delta(req[r].row))
             gone == Negated(Delta(made[l]))
  <2>1. /\ req[r] # NoRow /\ req[r].kind = "delete" /\ made[l] \in Row
        /\ Available(back)
        /\ PostTo(back, gone)
        /\ log' = [log EXCEPT ![l] = Gone]
        /\ made' = [made EXCEPT ![l] = NoRow]
        /\ UNCHANGED <<voucher, note, plain, corrected>>
    BY <1>4 DEF CommitDeleteProduction, aux
  <2>2. l \in Log /\ req[r].row \in Row
    BY <1>0, <2>1, SnapshotTyped
  <2>3. back \in [Cell -> Int] /\ gone \in [Cell -> Int]
    BY <2>1, <2>2, RowsHaveDeltas
  <2>4. \A c \in Cell : balance[c] = NoRow => gone[c] = 0
    <3>1. \A c \in Cell : c # CellOf(made[l]) => Delta(made[l])[c] = 0
      BY <2>1, DeltaAtCell
    <3>2. balance[CellOf(made[l])] # NoRow
      BY <1>0, <2>1, <2>2, NoRowsAmongRows DEF RowsHaveBalance
    <3> QED
      BY <3>1, <3>2 DEF Negated, Minus, None
  <2> HIDE DEF l, back, gone
  <2>5. \A c \in Cell : balance[c] # NoRow => balance'[c] # NoRow
    BY <1>0, <2>1, <2>3, PostToKeepsRows
  <2>6. OverdrawnOnlyIfCorrected'
    BY <1>0, <2>1, <2>3, <2>4, PostToKeepsFloor DEF Available
  <2>7. ProductionPaired'
    BY <1>0, <2>1, <2>2, NoRowsAmongRows DEF ProductionPaired, TypeOK
  <2>8. ASSUME NEW k \in Log, made'[k] # NoRow
        PROVE  balance'[CellOf(made'[k])] # NoRow
    <3>1. made'[k] = made[k] /\ made[k] \in Row
      BY <1>0, <2>1, <2>8 DEF TypeOK
    <3>2. CellOf(made[k]) \in Cell
      BY <3>1, RowsHaveDeltas
    <3> QED
      BY <1>0, <2>5, <2>8, <3>1, <3>2 DEF RowsHaveBalance
  <2> QED
    BY <1>0, <2>1, <2>5, <2>6, <2>7, <2>8, NotesKept
<1> QED
  BY <1>1, <1>2, <1>3, <1>4 DEF ProductionNext

(* A deleted note row leaves the others where they were. *)
LEMMA NoteRowsKeepBalance ==
  ASSUME TypeOK, RowsHaveBalance, NEW v, note' = [note EXCEPT ![v] = NoRow],
         \A c \in Cell : balance[c] # NoRow => balance'[c] # NoRow
  PROVE  \A x \in Voucher : note'[x] # NoRow => balance'[CellOf(note'[x])] # NoRow
<1> SUFFICES ASSUME NEW x \in Voucher, note'[x] # NoRow
             PROVE  balance'[CellOf(note'[x])] # NoRow
  OBVIOUS
<1>1. note'[x] = note[x] /\ note[x] \in NoteRow
  BY DEF TypeOK
<1>2. CellOf(note[x]) \in Cell
  BY <1>1, RowsHaveDeltas
<1> QED
  BY <1>1, <1>2 DEF RowsHaveBalance

LEMMA NoteStep == IInv /\ NoteNext => RowsHaveBalance' /\ OverdrawnOnlyIfCorrected' /\ Paired'
<1> SUFFICES ASSUME IInv, NoteNext
             PROVE  RowsHaveBalance' /\ OverdrawnOnlyIfCorrected' /\ Paired'
  OBVIOUS
<1>0. /\ TypeOK /\ StockTypeOK /\ RowsHaveBalance /\ OverdrawnOnlyIfCorrected
      /\ Paired /\ ProductionPaired /\ NotePaired
  BY DEF IInv, TypeOK, Paired
<1>1. ASSUME NEW v \in Voucher, NEW row \in NoteRow, CreateNote(v, row)
      PROVE  RowsHaveBalance' /\ OverdrawnOnlyIfCorrected' /\ Paired'
  <2>1. /\ voucher[v] = "unborn" /\ Available(Delta(row)) /\ PostTo(Delta(row), Delta(row))
        /\ voucher' = [voucher EXCEPT ![v] = "active"]
        /\ note' = [note EXCEPT ![v] = row]
        /\ UNCHANGED <<log, made, plain, corrected>>
    BY <1>1 DEF CreateNote, Post, aux
  <2>2. Delta(row) \in [Cell -> Int] /\ CellOf(row) \in Cell /\ Delta(row)[CellOf(row)] # 0
    BY RowsHaveDeltas, DeltaAtCell
  <2>3. \A c \in Cell : balance[c] # NoRow \/ Delta(row)[c] # 0 => balance'[c] # NoRow
    BY <1>0, <2>1, <2>2, PostToKeepsRows
  <2>4. OverdrawnOnlyIfCorrected'
    BY <1>0, <2>1, <2>2, PostToKeepsFloor DEF Available
  <2>5. NotePaired'
    BY <1>0, <2>1, NoRowsAmongRows DEF NotePaired, TypeOK
  <2>6. ASSUME NEW x \in Voucher, note'[x] # NoRow
        PROVE  balance'[CellOf(note'[x])] # NoRow
    <3>1. CASE x = v
      BY <1>0, <2>1, <2>2, <2>3, <3>1 DEF TypeOK
    <3>2. CASE x # v
      <4>1. note'[x] = note[x] /\ note[x] \in NoteRow
        BY <1>0, <2>1, <2>6, <3>2 DEF TypeOK
      <4>2. CellOf(note[x]) \in Cell
        BY <4>1, RowsHaveDeltas
      <4> QED
        BY <1>0, <2>3, <2>6, <4>1, <4>2 DEF RowsHaveBalance
    <3> QED
      BY <3>1, <3>2
  <2> QED
    BY <1>0, <2>1, <2>3, <2>4, <2>5, <2>6, LogsKept
<1>2. ASSUME NEW r \in Request, NEW v \in Voucher, StartMonthDelete(r, v) \/ StartEraseVoucher(r, v)
      PROVE  RowsHaveBalance' /\ OverdrawnOnlyIfCorrected' /\ Paired'
  <2>1. UNCHANGED <<balance, ledger, tables, aux>>
    BY <1>2 DEF StartMonthDelete, StartEraseVoucher
  <2>2. OverdrawnOnlyIfCorrected'
    BY <1>0, <2>1 DEF OverdrawnOnlyIfCorrected, Seeded, aux
  <2> QED
    BY <1>0, <2>1, <2>2, TablesKept
<1>3. ASSUME NEW r \in Request, CommitMonthDelete(r)
      PROVE  RowsHaveBalance' /\ OverdrawnOnlyIfCorrected' /\ Paired'
  <2> DEFINE v == req[r].id
             back == Reversal(req[r].row)
  <2>1. /\ req[r] # NoRow /\ req[r].kind = "month"
        /\ Available(back) /\ PostTo(back, back)
        /\ note' = [note EXCEPT ![v] = NoRow]
        /\ voucher' = [voucher EXCEPT ![v] = IF voucher[v] = "active" THEN "inactive" ELSE voucher[v]]
        /\ UNCHANGED <<log, made, plain, corrected>>
    BY <1>3 DEF CommitMonthDelete, Post, aux
  <2>2. v \in Voucher /\ back \in [Cell -> Int]
    BY <1>0, <2>1, SnapshotTyped, ReversalTyped
  <2> HIDE DEF v, back
  <2>3. \A c \in Cell : balance[c] # NoRow => balance'[c] # NoRow
    BY <1>0, <2>1, <2>2, PostToKeepsRows
  <2>4. OverdrawnOnlyIfCorrected'
    BY <1>0, <2>1, <2>2, PostToKeepsFloor DEF Available
  <2>5. NotePaired'
    BY <1>0, <2>1, <2>2 DEF NotePaired, TypeOK
  <2> QED
    BY <1>0, <2>1, <2>3, <2>4, <2>5, NoteRowsKeepBalance, LogsKept
<1>4. ASSUME NEW r \in Request, CommitEraseVoucher(r)
      PROVE  RowsHaveBalance' /\ OverdrawnOnlyIfCorrected' /\ Paired'
  <2> DEFINE v == req[r].id
             back == Reversal(req[r].row)
             gone == IF note[v] = NoRow THEN None ELSE back
  <2>1. /\ req[r] # NoRow /\ req[r].kind = "erase"
        /\ PostTo(back, gone)
        /\ note' = [note EXCEPT ![v] = NoRow]
        /\ voucher' = [voucher EXCEPT ![v] = "erased"]
        /\ Correct(back)
        /\ UNCHANGED <<log, made, plain>>
    BY <1>4 DEF CommitEraseVoucher
  <2>2. v \in Voucher /\ back \in [Cell -> Int]
    BY <1>0, <2>1, SnapshotTyped, ReversalTyped
  <2>3. gone \in [Cell -> Int] /\ \A c \in Cell : back[c] = 0 => gone[c] = 0
    <3> HIDE DEF back
    <3> QED
      BY <2>2, AmountsClosed DEF None
  <2> HIDE DEF v, back, gone
  <2>4. \A c \in Cell : balance[c] # NoRow => balance'[c] # NoRow
    BY <1>0, <2>1, <2>2, PostToKeepsRows
  <2>5. OverdrawnOnlyIfCorrected'
    BY <1>0, <2>1, <2>2, <2>3, PostToKeepsFloor DEF Correct
  <2>6. NotePaired'
    BY <1>0, <2>1, <2>2 DEF NotePaired, TypeOK
  <2> QED
    BY <1>0, <2>1, <2>4, <2>5, <2>6, NoteRowsKeepBalance, LogsKept
<1> QED
  BY <1>1, <1>2, <1>3, <1>4 DEF NoteNext

LEMMA IInvStep == IInv /\ [Next]_vars => IInv'
<1> SUFFICES ASSUME IInv, [Next]_vars
             PROVE  RowsHaveBalance' /\ OverdrawnOnlyIfCorrected' /\ Paired'
  BY TypeStep DEF IInv
<1>1. ASSUME UNCHANGED <<balance, ledger, tables, aux>>
      PROVE  RowsHaveBalance' /\ OverdrawnOnlyIfCorrected' /\ Paired'
  <2>1. OverdrawnOnlyIfCorrected'
    BY <1>1 DEF IInv, OverdrawnOnlyIfCorrected, Seeded, aux
  <2> QED
    BY <1>1, <2>1, TablesKept DEF IInv
<1>2. ASSUME NEW r \in Request, Fail(r)
      PROVE  UNCHANGED <<balance, ledger, tables, aux>>
  BY <1>2 DEF Fail
<1>3. (UNCHANGED vars) => UNCHANGED <<balance, ledger, tables, aux>>
  BY DEF vars, tables, aux
<1> QED
  BY <1>1, <1>2, <1>3, ManualStep, ProductionStep, NoteStep DEF Next

LEMMA InitIInv == Init => IInv
<1> SUFFICES ASSUME Init
             PROVE  RowsHaveBalance /\ OverdrawnOnlyIfCorrected /\ Paired
  BY InitTyped DEF IInv
<1>1. RowsHaveBalance
  BY DEF Init, RowsHaveBalance
<1>2. OverdrawnOnlyIfCorrected
  BY DEF Init, StockInit, OverdrawnOnlyIfCorrected, Seeded, None
<1>3. Paired
  BY DEF Init, Paired, ProductionPaired, NotePaired
<1> QED
  BY <1>1, <1>2, <1>3

(* The inductive invariant holds in every reachable state. *)
THEOREM StockInvariant == Spec => []IInv
  BY InitIInv, IInvStep, PTL DEF Spec

(* A deleted production log leaves no movement, and a log that is not      *)
(* older than its movements has one, whatever updates and deletes overlap. *)
THEOREM ProductionStaysPaired == Spec => []ProductionPaired
<1>1. IInv => ProductionPaired
  BY DEF IInv, Paired
<1> QED
  BY <1>1, StockInvariant, PTL

(* A note has its stock movement exactly as long as it is active, whatever *)
(* month clean-ups and permanent deletions meet on it.                     *)
THEOREM NotesStayPaired == Spec => []NotePaired
<1>1. IInv => NotePaired
  BY DEF IInv, Paired
<1> QED
  BY <1>1, StockInvariant, PTL

(* A cell is below zero only if an update without a floor took from it.    *)
THEOREM OverdrawnIsCorrected == Spec => []OverdrawnOnlyIfCorrected
<1>1. IInv => OverdrawnOnlyIfCorrected
  BY DEF IInv
<1> QED
  BY <1>1, StockInvariant, PTL

------------------------------------------------------------------------------
(* What a step does to stock: it posts to the balances what it writes to   *)
(* the movements, seeds a balance row, leaves stock alone, or is a stale   *)
(* reversal. *)
StockStep ==
  \/ \E d \in [Cell -> Int] : Post(d)
  \/ \E c \in Cell : EnsureRow(c)
  \/ UNCHANGED <<balance, ledger>>
  \/ \E r \in Request : StaleReversal(r)

LEMMA EveryStepIsStockStep == TypeOK /\ [Next]_vars => StockStep
<1> SUFFICES ASSUME TypeOK, [Next]_vars
             PROVE  StockStep
  OBVIOUS
<1>1. ASSUME NEW d \in [Cell -> Int], Manual(d)
      PROVE  StockStep
  BY <1>1 DEF Manual, StockStep
<1>2. CASE ManualNext
  <2>1. ASSUME NEW c \in Cell, NEW q \in Qty,
               \/ CreateIn(c, q) \/ CreateOut(c, q)
               \/ CreateAdjustment(c, q) \/ CreateAdjustment(c, -q)
        PROVE  StockStep
    <3>1. At(c, q) \in [Cell -> Int] /\ At(c, -q) \in [Cell -> Int]
      BY QtyNumbers, AmountsClosed
    <3> QED
      BY <1>1, <2>1, <3>1 DEF CreateIn, CreateOut, CreateAdjustment
  <2>2. ASSUME NEW f \in Factory, NEW take \in Entries,
               CreateDeleteMovements(f, take) \/ CreateOpeningStock(f, take)
        PROVE  StockStep
    BY <1>1, <2>2, LinesTyped DEF CreateDeleteMovements, CreateOpeningStock
  <2>3. ASSUME NEW c \in Cell, SeedBalance(c)
        PROVE  StockStep
    BY <2>3 DEF SeedBalance, StockStep
  <2> QED
    BY <1>2, <2>1, <2>2, <2>3 DEF ManualNext
<1>3. ASSUME NEW entry, CreateProduction(entry)
      PROVE  StockStep
  BY <1>3, ProducedTyped DEF CreateProduction, StockStep
<1>4. ASSUME NEW r \in Request, NEW change \in Change, CommitUpdateProduction(r, change)
      PROVE  StockStep
  <2> DEFINE next == Amended(req[r].row, change)
             back == Back(req[r].id)
  <2>1. req[r] # NoRow /\ req[r].kind = "update" /\ Post(Plus(back, Delta(next)))
    BY <1>4 DEF CommitUpdateProduction, UpdateMovement, Back
  <2>2. req[r].id \in Log /\ req[r].row \in Row
    BY <2>1, SnapshotTyped
  <2>3. next \in Row
    BY <2>2, AmendedTyped
  <2>4. back \in [Cell -> Int] /\ Delta(next) \in [Cell -> Int]
    BY <2>2, <2>3, BackTyped, RowsHaveDeltas
  <2> HIDE DEF next, back
  <2>5. Plus(back, Delta(next)) \in [Cell -> Int]
    BY <2>4, AmountsClosed
  <2> QED
    BY <2>1, <2>5 DEF StockStep
<1>5. ASSUME NEW r \in Request, CommitDeleteProduction(r)
      PROVE  StockStep
  <2>1. /\ req[r] # NoRow /\ req[r].kind = "delete"
        /\ PostTo(Negated(Delta(req[r].row)), Negated(Delta(made[req[r].id])))
        /\ req' = [req EXCEPT ![r] = NoRow]
    BY <1>5 DEF CommitDeleteProduction
  <2>2. req'[r] = NoRow
    BY <2>1 DEF TypeOK
  <2>3. CASE made[req[r].id] = req[r].row
    <3>1. req[r].row \in Row
      BY <2>1, SnapshotTyped
    <3>2. Negated(Delta(req[r].row)) \in [Cell -> Int]
      BY <3>1, RowsHaveDeltas
    <3> QED
      BY <2>1, <2>3, <3>2 DEF Post, StockStep
  <2>4. CASE made[req[r].id] # req[r].row
    BY <2>1, <2>2, <2>4 DEF StaleReversal, StockStep
  <2> QED
    BY <2>3, <2>4
<1>6. ASSUME NEW v \in Voucher, NEW row \in NoteRow, CreateNote(v, row)
      PROVE  StockStep
  BY <1>6, RowsHaveDeltas DEF CreateNote, StockStep
<1>7. ASSUME NEW r \in Request, CommitMonthDelete(r)
      PROVE  StockStep
  <2>1. req[r] # NoRow /\ req[r].kind = "month" /\ Post(Reversal(req[r].row))
    BY <1>7 DEF CommitMonthDelete
  <2>2. Reversal(req[r].row) \in [Cell -> Int]
    BY <2>1, SnapshotTyped, ReversalTyped
  <2> QED
    BY <2>1, <2>2 DEF StockStep
<1>8. ASSUME NEW r \in Request, CommitEraseVoucher(r)
      PROVE  StockStep
  <2> DEFINE back == Reversal(req[r].row)
             v == req[r].id
  <2>1. /\ req[r] # NoRow /\ req[r].kind = "erase"
        /\ PostTo(back, IF note[v] = NoRow THEN None ELSE back)
        /\ req' = [req EXCEPT ![r] = NoRow]
    BY <1>8 DEF CommitEraseVoucher
  <2>2. req'[r] = NoRow
    BY <2>1 DEF TypeOK
  <2>3. CASE note[v] = req[r].row
    <3>1. back \in [Cell -> Int]
      BY <2>1, SnapshotTyped, ReversalTyped
    <3>2. PostTo(back, back)
      BY <2>1, <2>3 DEF Reversal
    <3> HIDE DEF back
    <3> QED
      BY <3>1, <3>2 DEF Post, StockStep
  <2>4. CASE note[v] # req[r].row
    BY <2>1, <2>2, <2>4 DEF StaleReversal, StockStep
  <2> QED
    BY <2>3, <2>4
<1>9. ASSUME UNCHANGED <<balance, ledger>>
      PROVE  StockStep
  BY <1>9 DEF StockStep
<1>10. ASSUME NEW r \in Request, NEW l \in Log, StartUpdateProduction(r, l) \/ StartDeleteProduction(r, l)
       PROVE  UNCHANGED <<balance, ledger>>
  BY <1>10 DEF StartUpdateProduction, StartDeleteProduction
<1>11. ASSUME NEW r \in Request, NEW v \in Voucher, StartMonthDelete(r, v) \/ StartEraseVoucher(r, v)
       PROVE  UNCHANGED <<balance, ledger>>
  BY <1>11 DEF StartMonthDelete, StartEraseVoucher
<1>12. ASSUME NEW r \in Request, Fail(r)
       PROVE  UNCHANGED <<balance, ledger>>
  BY <1>12 DEF Fail
<1>13. (UNCHANGED vars) => UNCHANGED <<balance, ledger>>
  BY DEF vars
<1> QED
  BY <1>2, <1>3, <1>4, <1>5, <1>6, <1>7, <1>8, <1>9, <1>10, <1>11, <1>12, <1>13
     DEF Next, ProductionNext, NoteNext

(* The balances drift from the movements in one way only: a deletion takes *)
(* back what it read of a movement that has been amended or reversed since. *)
THEOREM DriftIsStale == Spec => DriftOnlyFromStaleReversal
<1> DEFINE Explained == \A c \in Cell : Drift(c)' = Drift(c) \/ \E r \in Request : StaleReversal(r)
<1>1. ASSUME TypeOK, [Next]_vars
      PROVE  Explained
  <2>1. StockTypeOK /\ StockStep
    BY <1>1, EveryStepIsStockStep DEF TypeOK
  <2>2. CASE \E d \in [Cell -> Int] : Post(d)
    BY <2>1, <2>2, PostKeepsDrift
  <2>3. CASE \E c \in Cell : EnsureRow(c)
    BY <2>1, <2>3, EnsureKeepsDrift
  <2>4. CASE UNCHANGED <<balance, ledger>>
    BY <2>4 DEF Drift, Seeded
  <2> QED
    BY <2>1, <2>2, <2>3, <2>4 DEF StockStep
<1>2. TypeOK /\ [Next]_vars => [Explained]_vars
  BY <1>1
<1> QED
  BY <1>2, TypeInvariant, PTL DEF Spec, DriftOnlyFromStaleReversal

------------------------------------------------------------------------------
(* A log and its movement agree until an update fills the movement in from *)
(* a log that another update has amended since it was read.                *)
THEOREM DisagreementIsStale == Spec => AgreementLostOnlyToStaleUpdate
<1> DEFINE Lost(l) == Agrees(l) /\ ~Agrees(l)'
           Blamed(l) == \E r \in Request : StaleUpdate(r, l)
<1>1. ASSUME TypeOK, [Next]_vars, NEW l \in Log, Lost(l)
      PROVE  Blamed(l)
  <2>1. ~(log'[l] = log[l] /\ made'[l] = made[l])
    BY <1>1 DEF Agrees
  <2>2. made'[l] # NoRow /\ log'[l] # made'[l]
    BY <1>1 DEF Agrees
  <2>3. ~ UNCHANGED <<log, made>>
    BY <2>1
  <2>4. ASSUME NEW L \in SUBSET Log, NEW entry \in [L -> Row], CreateProduction(entry)
        PROVE  FALSE
    <3>1. DOMAIN entry = L
      OBVIOUS
    <3>2. /\ log' = [k \in Log |-> IF k \in L THEN entry[k] ELSE log[k]]
          /\ made' = [k \in Log |-> IF k \in L THEN entry[k] ELSE made[k]]
      BY <2>4, <3>1 DEF CreateProduction
    <3> QED
      BY <2>1, <2>2, <3>2
  <2>5. ASSUME NEW r \in Request, NEW change \in Change, CommitUpdateProduction(r, change)
        PROVE  Blamed(l)
    <3>1. /\ req[r] # NoRow /\ req[r].kind = "update"
          /\ log' = [log EXCEPT ![req[r].id] = Amended(log[req[r].id], change)]
          /\ made' = [made EXCEPT ![req[r].id] = Amended(req[r].row, change)]
          /\ req' = [req EXCEPT ![r] = NoRow]
      BY <2>5 DEF CommitUpdateProduction, UpdateMovement
    <3>2. req'[r] = NoRow
      BY <1>1, <3>1 DEF TypeOK
    <3>3. CASE req[r].id # l
      BY <1>1, <2>1, <3>1, <3>3 DEF TypeOK
    <3>4. CASE req[r].id = l
      <4>1. log'[l] = Amended(log[l], change) /\ made'[l] = Amended(req[r].row, change)
        BY <1>1, <3>1, <3>4 DEF TypeOK
      <4>2. req[r].row # log[l]
        BY <2>2, <4>1
      <4> QED
        BY <3>1, <3>2, <3>4, <4>2 DEF StaleUpdate
    <3> QED
      BY <3>3, <3>4
  <2>6. ASSUME NEW r \in Request, CommitDeleteProduction(r)
        PROVE  FALSE
    <3>1. /\ log' = [log EXCEPT ![req[r].id] = Gone]
          /\ made' = [made EXCEPT ![req[r].id] = NoRow]
      BY <2>6 DEF CommitDeleteProduction
    <3> QED
      BY <1>1, <2>1, <2>2, <3>1 DEF TypeOK
  <2>7. ASSUME NEW r \in Request, NEW k \in Log, StartUpdateProduction(r, k) \/ StartDeleteProduction(r, k)
        PROVE  FALSE
    BY <2>3, <2>7 DEF StartUpdateProduction, StartDeleteProduction, tables
  <2>8. CASE ManualNext
    BY <2>3, <2>8 DEF ManualNext, CreateIn, CreateOut, CreateDeleteMovements, CreateOpeningStock,
                      CreateAdjustment, SeedBalance, Manual, tables
  <2>9. CASE NoteNext
    BY <2>3, <2>9 DEF NoteNext, CreateNote, StartMonthDelete, StartEraseVoucher,
                      CommitMonthDelete, CommitEraseVoucher, tables
  <2>10. ASSUME NEW r \in Request, Fail(r)
         PROVE  FALSE
    BY <2>3, <2>10 DEF Fail, tables
  <2>11. CASE UNCHANGED vars
    BY <2>3, <2>11 DEF vars
  <2> QED
    BY <1>1, <2>4, <2>5, <2>6, <2>7, <2>8, <2>9, <2>10, <2>11 DEF Next, ProductionNext
<1>2. TypeOK /\ [Next]_vars => [\A l \in Log : Lost(l) => Blamed(l)]_vars
  BY <1>1
<1> QED
  BY <1>2, TypeInvariant, PTL DEF Spec, AgreementLostOnlyToStaleUpdate

------------------------------------------------------------------------------
(* The auxiliary total is the sum of the movement rows.  A note's movement *)
(* is never edited: what a request has read of it is what is there, if it  *)
(* still is.                                                               *)
Recalled ==
  \A r \in Request : req[r] # NoRow /\ req[r].kind \in {"month", "erase"} =>
    /\ voucher[req[r].id] # "unborn"
    /\ note[req[r].id] # NoRow => note[req[r].id] = req[r].row

Movement == Row \cup NoteRow \cup {NoRow}

LEMMA AmountTyped ==
  ASSUME NEW row \in Movement, NEW c \in Cell
  PROVE  Amount(row, c) \in Int
<1>1. CASE row = NoRow
  BY <1>1 DEF Amount
<1>2. CASE row # NoRow
  BY <1>2, RowsHaveDeltas DEF Amount, Movement
<1> QED
  BY <1>1, <1>2

LEMMA SumTyped ==
  ASSUME NEW S, IsFiniteSet(S), NEW rows \in [S -> Movement], NEW c \in Cell
  PROVE  Sum(rows, S, c) \in Int
<1> DEFINE f == [i \in S |-> Amount(rows[i], c)]
<1>1. \A i \in S : f[i] \in Int
  BY AmountTyped
<1> HIDE DEF f
<1>2. SumFunctionOnSet(f, S) \in Int
  BY <1>1, SumIsInt
<1> QED
  BY <1>2 DEF Sum, f

(* Writing one row changes the sum by the difference. *)
LEMMA SumWithRow ==
  ASSUME NEW S, IsFiniteSet(S), NEW rows \in [S -> Movement], NEW next \in [S -> Movement],
         NEW i \in S, \A j \in S \ {i} : next[j] = rows[j], NEW c \in Cell
  PROVE  Sum(next, S, c) = Sum(rows, S, c) + Amount(next[i], c) - Amount(rows[i], c)
<1> DEFINE f == [j \in S |-> Amount(rows[j], c)]
           g == [j \in S |-> Amount(next[j], c)]
<1>1. \A j \in S : f[j] \in Int /\ g[j] \in Int
  BY AmountTyped
<1>2. \A j \in S \ {i} : f[j] = g[j]
  OBVIOUS
<1>3. f[i] = Amount(rows[i], c) /\ g[i] = Amount(next[i], c)
  OBVIOUS
<1> HIDE DEF f, g
<1>4. SumFunctionOnSet(g, S) = SumFunctionOnSet(f, S) + g[i] - f[i]
  BY <1>1, <1>2, SumExcept
<1> QED
  BY <1>3, <1>4 DEF Sum, f, g

(* New rows for new logs add what the request produces. *)
LEMMA SumWithEntries ==
  ASSUME NEW rows \in [Log -> Movement], NEW L \in SUBSET Log, NEW entry \in [L -> Row],
         \A l \in L : rows[l] = NoRow,
         NEW next, next = [l \in Log |-> IF l \in L THEN entry[l] ELSE rows[l]], NEW c \in Cell
  PROVE  Sum(next, Log, c) = Sum(rows, Log, c) + Produced(entry)[c]
<1> DEFINE f == [l \in Log |-> Amount(rows[l], c)]
           g == [l \in Log |-> IF l \in L THEN Delta(entry[l])[c] ELSE 0]
           h == [l \in Log |-> Amount(next[l], c)]
           d == [l \in L |-> Delta(entry[l])[c]]
<1>0. \A l \in L : entry[l] # NoRow /\ Delta(entry[l])[c] \in Int
  BY NullsAreNoRows, RowsHaveDeltas
<1>1. \A l \in Log : f[l] \in Int /\ g[l] \in Int /\ h[l] = f[l] + g[l]
  <2> SUFFICES ASSUME NEW l \in Log PROVE f[l] \in Int /\ g[l] \in Int /\ h[l] = f[l] + g[l]
    OBVIOUS
  <2>1. f[l] \in Int
    BY AmountTyped
  <2>2. CASE l \in L
    BY <1>0, <2>2 DEF Amount
  <2>3. CASE l \notin L
    BY <2>1, <2>3
  <2> QED
    BY <2>1, <2>2, <2>3
<1>2. \A l \in Log \ L : g[l] = 0
  OBVIOUS
<1>3. \A l \in L : g[l] = d[l]
  OBVIOUS
<1>4. IsFiniteSet(L)
  BY TablesAreFinite, FS_Subset
<1>5. DOMAIN entry = L /\ DOMAIN d = L
  OBVIOUS
<1>6. Produced(entry)[c] = SumFunction(d)
  BY <1>5 DEF Produced
<1> HIDE DEF f, g, h, d
<1>7. SumFunctionOnSet(h, Log) = SumFunctionOnSet(f, Log) + SumFunctionOnSet(g, Log)
  BY <1>1, SumPlus, TablesAreFinite
<1>8. SumFunctionOnSet(g, Log) = SumFunctionOnSet(g, L)
  BY <1>1, <1>2, SumOverPart, TablesAreFinite
<1>9. SumFunctionOnSet(g, L) = SumFunctionOnSet(d, L)
  BY <1>3, <1>4, SumSame
<1> QED
  BY <1>5, <1>6, <1>7, <1>8, <1>9 DEF Sum, SumFunction, f, h

LEMMA TablesTyped ==
  ASSUME TypeOK
  PROVE  /\ made \in [Log -> Movement] /\ note \in [Voucher -> Movement]
         /\ \A c \in Cell : /\ ledger[c] \in Int /\ plain[c] \in Int
                            /\ Sum(made, Log, c) \in Int /\ Sum(note, Voucher, c) \in Int
<1>1. made \in [Log -> Movement] /\ note \in [Voucher -> Movement]
  BY DEF TypeOK, Movement
<1> QED
  BY <1>1, SumTyped, TablesAreFinite DEF TypeOK, StockTypeOK

(* What taking a row back adds to the sums. *)
LEMMA ReversalTakes ==
  ASSUME NEW row \in Movement, NEW c \in Cell
  PROVE  Reversal(row)[c] = 0 - Amount(row, c)
<1>1. CASE row = NoRow
  BY <1>1 DEF Reversal, Amount, None
<1>2. CASE row # NoRow
  BY <1>2, RowsHaveDeltas DEF Reversal, Amount, None, Negated, Minus, Movement
<1> QED
  BY <1>1, <1>2

LEMMA ManualAddsUp ==
  ASSUME TypeOK, RowsAddUp, NEW d \in [Cell -> Int], Manual(d)
  PROVE  RowsAddUp'
<1> SUFFICES ASSUME NEW c \in Cell
             PROVE  ledger'[c] = plain'[c] + Sum(made, Log, c)' + Sum(note, Voucher, c)'
  BY DEF RowsAddUp
<1>1. ledger'[c] = ledger[c] + d[c] /\ plain'[c] = plain[c] + d[c]
  BY DEF Manual, Post, PostTo, Plus
<1>2. made' = made /\ note' = note
  BY DEF Manual, tables
<1>3. Sum(made', Log, c) = Sum(made, Log, c) /\ Sum(note', Voucher, c) = Sum(note, Voucher, c)
  BY <1>2
<1>4. ledger[c] = plain[c] + Sum(made, Log, c) + Sum(note, Voucher, c) /\ d[c] \in Int
  BY DEF RowsAddUp
<1>5. /\ ledger[c] \in Int /\ plain[c] \in Int
      /\ Sum(made, Log, c) \in Int /\ Sum(note, Voucher, c) \in Int
  BY TablesTyped
<1>6. ledger'[c] = plain'[c] + Sum(made', Log, c) + Sum(note', Voucher, c)
  BY <1>1, <1>3, <1>4, <1>5
<1> QED
  BY <1>6

LEMMA SumWithMade ==
  ASSUME made \in [Log -> Movement], made' \in [Log -> Movement],
         NEW l \in Log, \A j \in Log \ {l} : made'[j] = made[j], NEW c \in Cell
  PROVE  Sum(made', Log, c) = Sum(made, Log, c) + Amount(made'[l], c) - Amount(made[l], c)
BY SumWithRow, TablesAreFinite

LEMMA SumWithNote ==
  ASSUME note \in [Voucher -> Movement], note' \in [Voucher -> Movement],
         NEW v \in Voucher, \A j \in Voucher \ {v} : note'[j] = note[j], NEW c \in Cell
  PROVE  Sum(note', Voucher, c) = Sum(note, Voucher, c) + Amount(note'[v], c) - Amount(note[v], c)
BY SumWithRow, TablesAreFinite

(* A production row is written, or taken away. *)
LEMMA MadeAddsUp ==
  ASSUME TypeOK, RowsAddUp, NEW l \in Log, NEW row \in Row \cup {NoRow},
         made' = [made EXCEPT ![l] = row], UNCHANGED <<note, plain>>,
         \A c \in Cell : ledger'[c] = ledger[c] + Amount(row, c) - Amount(made[l], c)
  PROVE  RowsAddUp'
<1> SUFFICES ASSUME NEW c \in Cell
             PROVE  ledger'[c] = plain'[c] + Sum(made', Log, c) + Sum(note', Voucher, c)
  BY DEF RowsAddUp
<1>1. made \in [Log -> Movement] /\ row \in Movement /\ made[l] \in Movement
  BY TablesTyped DEF Movement
<1>2. Sum(made', Log, c) = Sum(made, Log, c) + Amount(row, c) - Amount(made[l], c)
  <2>1. /\ made' \in [Log -> Movement] /\ made'[l] = row
        /\ \A j \in Log \ {l} : made'[j] = made[j]
    BY <1>1
  <2>2. Sum(made', Log, c) = Sum(made, Log, c) + Amount(made'[l], c) - Amount(made[l], c)
    BY <1>1, <2>1, SumWithMade
  <2> QED
    BY <2>1, <2>2
<1>3. Amount(row, c) \in Int /\ Amount(made[l], c) \in Int
  BY <1>1, AmountTyped
<1>4. /\ ledger[c] \in Int /\ plain[c] \in Int
      /\ Sum(made, Log, c) \in Int /\ Sum(note, Voucher, c) \in Int
  BY TablesTyped
<1>5. ledger[c] = plain[c] + Sum(made, Log, c) + Sum(note, Voucher, c)
  BY DEF RowsAddUp
<1>6. ledger'[c] = ledger[c] + Amount(row, c) - Amount(made[l], c)
  OBVIOUS
<1>7. Sum(note', Voucher, c) = Sum(note, Voucher, c) /\ plain' = plain
  OBVIOUS
<1> QED
  BY <1>2, <1>3, <1>4, <1>5, <1>6, <1>7

LEMMA NoteAddsUp ==
  ASSUME TypeOK, RowsAddUp, NEW v \in Voucher, NEW row \in NoteRow \cup {NoRow},
         note' = [note EXCEPT ![v] = row], UNCHANGED <<made, plain>>,
         \A c \in Cell : ledger'[c] = ledger[c] + Amount(row, c) - Amount(note[v], c)
  PROVE  RowsAddUp'
<1> SUFFICES ASSUME NEW c \in Cell
             PROVE  ledger'[c] = plain'[c] + Sum(made', Log, c) + Sum(note', Voucher, c)
  BY DEF RowsAddUp
<1>1. note \in [Voucher -> Movement] /\ row \in Movement /\ note[v] \in Movement
  BY TablesTyped DEF Movement
<1>2. Sum(note', Voucher, c) = Sum(note, Voucher, c) + Amount(row, c) - Amount(note[v], c)
  <2>1. /\ note' \in [Voucher -> Movement] /\ note'[v] = row
        /\ \A j \in Voucher \ {v} : note'[j] = note[j]
    BY <1>1
  <2>2. Sum(note', Voucher, c) = Sum(note, Voucher, c) + Amount(note'[v], c) - Amount(note[v], c)
    BY <1>1, <2>1, SumWithNote
  <2> QED
    BY <2>1, <2>2
<1>3. Amount(row, c) \in Int /\ Amount(note[v], c) \in Int
  BY <1>1, AmountTyped
<1>4. /\ ledger[c] \in Int /\ plain[c] \in Int
      /\ Sum(made, Log, c) \in Int /\ Sum(note, Voucher, c) \in Int
  BY TablesTyped
<1>5. ledger[c] = plain[c] + Sum(made, Log, c) + Sum(note, Voucher, c)
  BY DEF RowsAddUp
<1>6. ledger'[c] = ledger[c] + Amount(row, c) - Amount(note[v], c)
  OBVIOUS
<1>7. Sum(made', Log, c) = Sum(made, Log, c) /\ plain' = plain
  OBVIOUS
<1> QED
  BY <1>2, <1>3, <1>4, <1>5, <1>6, <1>7

LEMMA ProductionAddsUp ==
  ASSUME TypeOK, RowsAddUp, ProductionPaired,
         NEW L \in SUBSET Log, NEW entry \in [L -> Row], CreateProduction(entry)
  PROVE  RowsAddUp'
<1> SUFFICES ASSUME NEW c \in Cell
             PROVE  ledger'[c] = plain'[c] + Sum(made', Log, c) + Sum(note', Voucher, c)
  BY DEF RowsAddUp
<1>1. /\ DOMAIN entry = L
      /\ \A l \in L : log[l] = NoRow
      /\ Produced(entry) \in Addable
      /\ ledger'[c] = ledger[c] + Produced(entry)[c]
      /\ made' = [l \in Log |-> IF l \in L THEN entry[l] ELSE made[l]]
      /\ plain' = plain /\ note' = note
  BY DEF CreateProduction, Post, PostTo, aux
<1>2. \A l \in L : made[l] = NoRow
  BY <1>1, NoRowsAmongRows DEF ProductionPaired
<1>3. Sum(made', Log, c) = Sum(made, Log, c) + Produced(entry)[c]
  BY <1>1, <1>2, TablesTyped, SumWithEntries
<1>4. Produced(entry)[c] \in Int
  BY <1>1, ProducedTyped
<1>5. ledger[c] = plain[c] + Sum(made, Log, c) + Sum(note, Voucher, c)
  BY DEF RowsAddUp
<1>6. /\ ledger[c] \in Int /\ plain[c] \in Int
      /\ Sum(made, Log, c) \in Int /\ Sum(note, Voucher, c) \in Int
  BY TablesTyped
<1>7. Sum(note', Voucher, c) = Sum(note, Voucher, c)
  BY <1>1
<1> QED
  BY <1>1, <1>3, <1>4, <1>5, <1>6, <1>7

LEMMA UpdateAddsUp ==
  ASSUME TypeOK, RowsAddUp, NEW r \in Request, NEW change \in Change, CommitUpdateProduction(r, change)
  PROVE  RowsAddUp'
<1> DEFINE l == req[r].id
           next == Amended(req[r].row, change)
<1>1. /\ req[r] # NoRow /\ req[r].kind = "update"
      /\ Post(Plus(Reversal(made[l]), Delta(next)))
      /\ made' = [made EXCEPT ![l] = next]
      /\ UNCHANGED <<note, plain>>
  BY DEF CommitUpdateProduction, UpdateMovement
<1>2. l \in Log /\ next \in Row
  BY <1>1, SnapshotTyped, AmendedTyped
<1>3. ASSUME NEW c \in Cell
      PROVE  ledger'[c] = ledger[c] + Amount(next, c) - Amount(made[l], c)
  <2>1. ledger'[c] = ledger[c] + (Reversal(made[l])[c] + Delta(next)[c])
    BY <1>1 DEF Post, PostTo, Plus
  <2>2. made[l] \in Movement
    BY <1>2, TablesTyped
  <2>3. Reversal(made[l])[c] = 0 - Amount(made[l], c) /\ Amount(made[l], c) \in Int
    BY <2>2, ReversalTakes, AmountTyped
  <2>4. Amount(next, c) = Delta(next)[c] /\ Amount(next, c) \in Int
    BY <1>2, NoRowsAmongRows, AmountTyped DEF Amount, Movement
  <2>5. ledger[c] \in Int
    BY TablesTyped
  <2> HIDE DEF l, next
  <2> QED
    BY <2>1, <2>3, <2>4, <2>5
<1> HIDE DEF l, next
<1> QED
  BY <1>1, <1>2, <1>3, MadeAddsUp

LEMMA DeleteAddsUp ==
  ASSUME TypeOK, RowsAddUp, NEW r \in Request, CommitDeleteProduction(r)
  PROVE  RowsAddUp'
<1> DEFINE l == req[r].id
<1>1. /\ req[r] # NoRow /\ req[r].kind = "delete" /\ made[l] \in Row
      /\ PostTo(Negated(Delta(req[r].row)), Negated(Delta(made[l])))
      /\ made' = [made EXCEPT ![l] = NoRow]
      /\ UNCHANGED <<note, plain>>
  BY DEF CommitDeleteProduction, aux
<1>2. l \in Log
  BY <1>1, SnapshotTyped
<1>3. ASSUME NEW c \in Cell
      PROVE  ledger'[c] = ledger[c] + Amount(NoRow, c) - Amount(made[l], c)
  <2>1. ledger'[c] = ledger[c] + Negated(Delta(made[l]))[c]
    BY <1>1 DEF PostTo
  <2>2. Negated(Delta(made[l]))[c] = 0 - Amount(made[l], c) /\ Amount(made[l], c) \in Int
    BY <1>1, NoRowsAmongRows, ReversalTakes, AmountTyped DEF Reversal, Movement
  <2>3. Amount(NoRow, c) = 0 /\ ledger[c] \in Int
    BY TablesTyped DEF Amount
  <2> HIDE DEF l
  <2> QED
    BY <2>1, <2>2, <2>3
<1> HIDE DEF l
<1> QED
  BY <1>1, <1>2, <1>3, MadeAddsUp

LEMMA CreateNoteAddsUp ==
  ASSUME TypeOK, RowsAddUp, NotePaired, NEW v \in Voucher, NEW row \in NoteRow, CreateNote(v, row)
  PROVE  RowsAddUp'
<1>1. /\ voucher[v] = "unborn" /\ Post(Delta(row))
      /\ note' = [note EXCEPT ![v] = row]
      /\ UNCHANGED <<made, plain>>
  BY DEF CreateNote, aux
<1>2. ASSUME NEW c \in Cell
      PROVE  ledger'[c] = ledger[c] + Amount(row, c) - Amount(note[v], c)
  <2>1. ledger'[c] = ledger[c] + Delta(row)[c]
    BY <1>1 DEF Post, PostTo
  <2>2. Amount(row, c) = Delta(row)[c] /\ Amount(row, c) \in Int
    BY NoRowsAmongRows, AmountTyped DEF Amount, Movement
  <2>3. note[v] = NoRow
    BY <1>1 DEF NotePaired
  <2>4. Amount(note[v], c) = 0 /\ ledger[c] \in Int
    BY <2>3, TablesTyped DEF Amount
  <2> QED
    BY <2>1, <2>2, <2>4
<1> QED
  BY <1>1, <1>2, NoteAddsUp

(* Both ways a note goes take away what is there. *)
LEMMA NoteGoesAddsUp ==
  ASSUME TypeOK, RowsAddUp, Recalled, NEW r \in Request, CommitMonthDelete(r) \/ CommitEraseVoucher(r)
  PROVE  RowsAddUp'
<1> DEFINE v == req[r].id
           back == Reversal(req[r].row)
<1>1. /\ req[r] # NoRow /\ req[r].kind \in {"month", "erase"}
      /\ \E dl : PostTo(back, dl) /\ dl = IF note[v] = NoRow THEN None ELSE back
      /\ note' = [note EXCEPT ![v] = NoRow]
      /\ UNCHANGED <<made, plain>>
  <2>1. CASE CommitMonthDelete(r)
    <3>1. /\ req[r] # NoRow /\ req[r].kind = "month" /\ Post(back)
          /\ req[r].row # NoRow => note[v] # NoRow
          /\ note' = [note EXCEPT ![v] = NoRow]
          /\ UNCHANGED <<made, plain>>
      BY <2>1 DEF CommitMonthDelete, aux
    <3>2. note[v] = NoRow => back = None
      BY <3>1 DEF Reversal
    <3> HIDE DEF back, v
    <3> QED
      BY <3>1, <3>2 DEF Post
  <2>2. CASE CommitEraseVoucher(r)
    BY <2>2 DEF CommitEraseVoucher
  <2> QED
    BY <2>1, <2>2
<1>2. v \in Voucher
  BY <1>1, SnapshotTyped
<1>3. note[v] # NoRow => note[v] = req[r].row
  BY <1>1 DEF Recalled
<1>4. ASSUME NEW c \in Cell
      PROVE  ledger'[c] = ledger[c] + Amount(NoRow, c) - Amount(note[v], c)
  <2>1. PICK dl : PostTo(back, dl) /\ dl = IF note[v] = NoRow THEN None ELSE back
    BY <1>1
  <2>2. ledger'[c] = ledger[c] + dl[c]
    BY <2>1 DEF PostTo
  <2>3. dl = Reversal(note[v])
    BY <1>3, <2>1 DEF Reversal
  <2>4. note[v] \in Movement
    BY <1>2, TablesTyped
  <2>5. dl[c] = 0 - Amount(note[v], c) /\ Amount(note[v], c) \in Int
    BY <2>3, <2>4, ReversalTakes, AmountTyped
  <2>6. Amount(NoRow, c) = 0 /\ ledger[c] \in Int
    BY TablesTyped DEF Amount
  <2> HIDE DEF v
  <2> QED
    BY <2>2, <2>5, <2>6
<1> HIDE DEF v
<1> QED
  BY <1>1, <1>2, <1>4, NoteAddsUp

LEMMA StillAddsUp ==
  ASSUME RowsAddUp, UNCHANGED <<ledger, plain, made, note>>
  PROVE  RowsAddUp'
BY DEF RowsAddUp

LEMMA AddUpStep == IInv /\ RowsAddUp /\ Recalled /\ [Next]_vars => RowsAddUp'
<1> SUFFICES ASSUME TypeOK, ProductionPaired, NotePaired, RowsAddUp, Recalled, [Next]_vars
             PROVE  RowsAddUp'
  BY DEF IInv, Paired
<1>1. CASE ManualNext
  <2>1. ASSUME NEW c \in Cell, NEW q \in Qty,
               \/ CreateIn(c, q) \/ CreateOut(c, q)
               \/ CreateAdjustment(c, q) \/ CreateAdjustment(c, -q)
        PROVE  RowsAddUp'
    <3>1. At(c, q) \in [Cell -> Int] /\ At(c, -q) \in [Cell -> Int]
      BY QtyNumbers, AmountsClosed
    <3>2. Manual(At(c, q)) \/ Manual(At(c, -q))
      BY <2>1 DEF CreateIn, CreateOut, CreateAdjustment
    <3> QED
      BY <3>1, <3>2, ManualAddsUp
  <2>2. ASSUME NEW f \in Factory, NEW take \in Entries,
               CreateDeleteMovements(f, take) \/ CreateOpeningStock(f, take)
        PROVE  RowsAddUp'
    <3>1. Manual(Lines(f, take)) \/ Manual(Negated(Lines(f, take)))
      BY <2>2 DEF CreateDeleteMovements, CreateOpeningStock
    <3> QED
      BY <3>1, LinesTyped, ManualAddsUp
  <2>3. ASSUME NEW c \in Cell, SeedBalance(c)
        PROVE  RowsAddUp'
    BY <2>3, StillAddsUp DEF SeedBalance, EnsureRow, tables, aux
  <2> QED
    BY <1>1, <2>1, <2>2, <2>3 DEF ManualNext
<1>2. CASE ProductionNext
  <2>1. ASSUME NEW r \in Request, NEW l \in Log, StartUpdateProduction(r, l) \/ StartDeleteProduction(r, l)
        PROVE  RowsAddUp'
    BY <2>1, StillAddsUp DEF StartUpdateProduction, StartDeleteProduction, tables, aux
  <2> QED
    BY <1>2, <2>1, ProductionAddsUp, UpdateAddsUp, DeleteAddsUp DEF ProductionNext
<1>3. CASE NoteNext
  <2>1. ASSUME NEW r \in Request, NEW v \in Voucher, StartMonthDelete(r, v) \/ StartEraseVoucher(r, v)
        PROVE  RowsAddUp'
    BY <2>1, StillAddsUp DEF StartMonthDelete, StartEraseVoucher, tables, aux
  <2> QED
    BY <1>3, <2>1, CreateNoteAddsUp, NoteGoesAddsUp DEF NoteNext
<1>4. ASSUME NEW r \in Request, Fail(r)
      PROVE  RowsAddUp'
  BY <1>4, StillAddsUp DEF Fail, tables, aux
<1>5. CASE UNCHANGED vars
  BY <1>5, StillAddsUp DEF vars
<1> QED
  BY <1>1, <1>2, <1>3, <1>4, <1>5 DEF Next

(* A note that somebody has read stays as it is, or goes for good. *)
LEMMA RecalledKept ==
  ASSUME TypeOK, Recalled, NEW r \in Request, req' = [req EXCEPT ![r] = NoRow],
         \A v \in Voucher : /\ voucher[v] # "unborn" => voucher'[v] # "unborn"
                            /\ voucher[v] # "unborn" => note'[v] \in {note[v], NoRow}
  PROVE  Recalled'
<1> SUFFICES ASSUME NEW s \in Request, req'[s] # NoRow, req'[s].kind \in {"month", "erase"}
             PROVE  /\ voucher'[req'[s].id] # "unborn"
                    /\ note'[req'[s].id] # NoRow => note'[req'[s].id] = req'[s].row
  BY DEF Recalled
<1>1. req'[s] = req[s]
  BY DEF TypeOK
<1>2. req[s].id \in Voucher
  BY <1>1, SnapshotTyped
<1> QED
  BY <1>1, <1>2 DEF Recalled

LEMMA RecalledReads ==
  ASSUME TypeOK, Recalled, UNCHANGED <<voucher, note>>, NEW r \in Request, NEW kind, NEW id, NEW row,
         req' = [req EXCEPT ![r] = [kind |-> kind, id |-> id, row |-> row]],
         kind \in {"month", "erase"} => voucher[id] # "unborn" /\ row = note[id]
  PROVE  Recalled'
<1> SUFFICES ASSUME NEW s \in Request, req'[s] # NoRow, req'[s].kind \in {"month", "erase"}
             PROVE  /\ voucher[req'[s].id] # "unborn"
                    /\ note[req'[s].id] # NoRow => note[req'[s].id] = req'[s].row
  BY DEF Recalled
<1>1. CASE s = r
  <2>1. req'[s] = [kind |-> kind, id |-> id, row |-> row]
    BY <1>1 DEF TypeOK
  <2> QED
    BY <2>1
<1>2. CASE s # r
  <2>1. req'[s] = req[s]
    BY <1>2 DEF TypeOK
  <2> QED
    BY <2>1 DEF Recalled
<1> QED
  BY <1>1, <1>2

LEMMA RecalledStep == TypeOK /\ NotePaired /\ Recalled /\ [Next]_vars => Recalled'
<1> SUFFICES ASSUME TypeOK, NotePaired, Recalled, [Next]_vars
             PROVE  Recalled'
  OBVIOUS
<1>1. ASSUME UNCHANGED <<req, voucher, note>>
      PROVE  Recalled'
  BY <1>1 DEF Recalled
<1>2. CASE ManualNext
  BY <1>1, <1>2 DEF ManualNext, CreateIn, CreateOut, CreateDeleteMovements, CreateOpeningStock,
                    CreateAdjustment, SeedBalance, Manual, tables
<1>3. CASE ProductionNext
  <2>1. ASSUME NEW entry, CreateProduction(entry)
        PROVE  Recalled'
    BY <1>1, <2>1 DEF CreateProduction
  <2>2. ASSUME NEW r \in Request, NEW l \in Log, StartUpdateProduction(r, l) \/ StartDeleteProduction(r, l)
        PROVE  Recalled'
    BY <2>2, RecalledReads, "update" \notin {"month", "erase"}, "delete" \notin {"month", "erase"}
       DEF StartUpdateProduction, StartDeleteProduction, tables
  <2>3. ASSUME NEW r \in Request, NEW change \in Change, CommitUpdateProduction(r, change)
        PROVE  Recalled'
    BY <2>3, RecalledKept DEF CommitUpdateProduction
  <2>4. ASSUME NEW r \in Request, CommitDeleteProduction(r)
        PROVE  Recalled'
    BY <2>4, RecalledKept DEF CommitDeleteProduction
  <2> QED
    BY <1>3, <2>1, <2>2, <2>3, <2>4 DEF ProductionNext
<1>4. CASE NoteNext
  <2>1. ASSUME NEW v \in Voucher, NEW row \in NoteRow, CreateNote(v, row)
        PROVE  Recalled'
    <3>1. /\ voucher[v] = "unborn" /\ req' = req
          /\ voucher' = [voucher EXCEPT ![v] = "active"]
          /\ note' = [note EXCEPT ![v] = row]
      BY <2>1 DEF CreateNote
    <3>2. ASSUME NEW s \in Request, req[s] # NoRow, req[s].kind \in {"month", "erase"}
          PROVE  req[s].id \in Voucher /\ req[s].id # v
      BY <3>1, <3>2, SnapshotTyped DEF Recalled
    <3>3. ASSUME NEW s \in Request, req[s] # NoRow, req[s].kind \in {"month", "erase"}
          PROVE  voucher'[req[s].id] = voucher[req[s].id] /\ note'[req[s].id] = note[req[s].id]
      BY <3>1, <3>2, <3>3 DEF TypeOK
    <3> QED
      BY <3>1, <3>3 DEF Recalled
  <2>2. ASSUME NEW r \in Request, NEW v \in Voucher, StartMonthDelete(r, v) \/ StartEraseVoucher(r, v)
        PROVE  Recalled'
    BY <2>2, RecalledReads, "active" # "unborn", "inactive" # "unborn"
       DEF StartMonthDelete, StartEraseVoucher, tables
  <2>3. ASSUME NEW r \in Request, CommitMonthDelete(r) \/ CommitEraseVoucher(r)
        PROVE  Recalled'
    <3> DEFINE v == req[r].id
    <3>1. /\ req' = [req EXCEPT ![r] = NoRow]
          /\ note' = [note EXCEPT ![v] = NoRow]
          /\ \/ voucher' = [voucher EXCEPT ![v] = IF @ = "active" THEN "inactive" ELSE @]
             \/ voucher' = [voucher EXCEPT ![v] = "erased"]
      BY <2>3 DEF CommitMonthDelete, CommitEraseVoucher
    <3> HIDE DEF v
    <3>2. \A u \in Voucher : /\ voucher[u] # "unborn" => voucher'[u] # "unborn"
                             /\ note'[u] \in {note[u], NoRow}
      BY <3>1 DEF TypeOK
    <3> QED
      BY <3>1, <3>2, RecalledKept
  <2> QED
    BY <1>4, <2>1, <2>2, <2>3 DEF NoteNext
<1>5. ASSUME NEW r \in Request, Fail(r)
      PROVE  Recalled'
  BY <1>5, RecalledKept DEF Fail, tables
<1>6. CASE UNCHANGED vars
  BY <1>1, <1>6 DEF vars
<1> QED
  BY <1>2, <1>3, <1>4, <1>5, <1>6 DEF Next

LEMMA InitAddsUp == Init => RowsAddUp /\ Recalled
<1> SUFFICES ASSUME Init
             PROVE  RowsAddUp
  BY DEF Init, Recalled
<1> SUFFICES ASSUME NEW c \in Cell
             PROVE  ledger[c] = plain[c] + Sum(made, Log, c) + Sum(note, Voucher, c)
  BY DEF RowsAddUp
<1>1. ASSUME NEW S, IsFiniteSet(S), NEW rows, rows = [i \in S |-> NoRow]
      PROVE  Sum(rows, S, c) = 0
  <2>1. \A i \in S : [j \in S |-> Amount(rows[j], c)][i] = 0
    BY <1>1 DEF Amount
  <2> QED
    BY <1>1, <2>1, SumOfZeros DEF Sum
<1>2. made = [l \in Log |-> NoRow] /\ note = [v \in Voucher |-> NoRow]
  BY DEF Init
<1>3. Sum(made, Log, c) = 0 /\ Sum(note, Voucher, c) = 0
  BY <1>1, <1>2, TablesAreFinite
<1>4. ledger[c] = 0 /\ plain[c] = 0
  BY DEF Init, StockInit, None
<1> QED
  BY <1>3, <1>4

(* The total that seedBalanceFromMovementsTx computes from the rows is the *)
(* one every handler has kept up, whatever updates and deletions overlap.  *)
THEOREM RowsStayAddedUp == Spec => []RowsAddUp
<1>1. IInv => TypeOK /\ NotePaired
  BY DEF IInv, Paired
<1> QED
  BY <1>1, InitAddsUp, AddUpStep, RecalledStep, StockInvariant, PTL DEF Spec
==============================================================================
