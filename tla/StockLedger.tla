----------------------------- MODULE StockLedger -----------------------------
(***************************************************************************)
(* The stock of one company, as services/inventoryLedgerService.js keeps   *)
(* it: a StockBalance row per factory and product, maintained in place,    *)
(* beside the InventoryMovement rows it is meant to be the sum of.         *)
(*                                                                         *)
(* `balance` is the StockBalance table.  `ledger` gives for each cell the  *)
(* sum of movementDelta over the movement rows that exist: every action    *)
(* that inserts, amends or deletes rows adds the difference.  (It is an    *)
(* auxiliary total; RowsAddUp of the modules that use it ties it to the    *)
(* rows they keep.)                                                        *)
(*                                                                         *)
(* A movement of type IN counts +quantity, OUT and DELETE -quantity,       *)
(* ADJUSTMENT its signed quantity.  Quantities are integers here           *)
(* (Decimal(15,2) in the database).                                        *)
(***************************************************************************)
EXTENDS Integers

CONSTANTS Factory, Product,
          NoRow,             \* there is no such database row
          Bound              \* cap on the size of every total, for TLC

ASSUME NoRowIsNoNumber == NoRow \notin Int
ASSUME BoundIsNat == Bound \in Nat

VARIABLES balance, ledger

Cell == Factory \X Product

(***************************************************************************)
(* ensureBalanceRowTx and seedBalanceFromMovementsTx: a missing row is     *)
(* created from the movements before it is used.                           *)
(***************************************************************************)
Seeded(c) == IF balance[c] = NoRow THEN ledger[c] ELSE balance[c]

None == [c \in Cell |-> 0]
At(c, q) == [x \in Cell |-> IF x = c THEN q ELSE 0]
Plus(d, e) == [c \in Cell |-> d[c] + e[c]]
Minus(d, e) == [c \in Cell |-> d[c] - e[c]]
Negated(d) == Minus(None, d)

(***************************************************************************)
(* decrementBalanceIfAvailableTx: UPDATE ... WHERE quantity >= amount,     *)
(* evaluated on the row as it is when the update gets its lock.            *)
(***************************************************************************)
Available(d) == \A c \in Cell : d[c] < 0 => Seeded(c) + d[c] >= 0

(***************************************************************************)
(* The allowNegative branch of applyBalanceDeltaTx updates the row         *)
(* without seeding it, and fails when there is none.                       *)
(***************************************************************************)
RowsExist(d) == \A c \in Cell : d[c] < 0 => balance[c] # NoRow

WithinBound(n) == -Bound <= n /\ n <= Bound

(***************************************************************************)
(* The writes of one committed transaction: db is what it adds to the      *)
(* balances, dl what its row inserts, updates and deletes add to the sums. *)
(***************************************************************************)
PostTo(db, dl) ==
  /\ \A c \in Cell : WithinBound(Seeded(c) + db[c]) /\ WithinBound(ledger[c] + dl[c])
  /\ balance' = [c \in Cell |-> IF db[c] = 0 THEN balance[c] ELSE Seeded(c) + db[c]]
  /\ ledger' = [c \in Cell |-> ledger[c] + dl[c]]

(* createMovementTx: the balance moves by the delta of the row it inserts. *)
Post(d) == PostTo(d, d)

(* previewDispatch and the stock checks seed a row without moving stock. *)
EnsureRow(c) ==
  /\ balance[c] = NoRow
  /\ balance' = [balance EXCEPT ![c] = ledger[c]]
  /\ UNCHANGED ledger

StockInit ==
  /\ balance = [c \in Cell |-> NoRow]
  /\ ledger = None

StockTypeOK ==
  /\ balance \in [Cell -> Int \cup {NoRow}]
  /\ ledger \in [Cell -> Int]

(* By how much the maintained balance is off the movements. *)
Drift(c) == Seeded(c) - ledger[c]
==============================================================================
