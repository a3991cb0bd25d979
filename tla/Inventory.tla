------------------------------ MODULE Inventory ------------------------------
(***************************************************************************)
(* The operations that move stock outside the order workflow: manual       *)
(* movements and opening stock (inventoryMovementController), production   *)
(* logs (productionController), stock-applied debit and credit notes and   *)
(* the month clean-up that takes them back (accountingController), and the *)
(* permanent deletion of a note's parent (hardDeleteService).              *)
(*                                                                         *)
(* A handler that reads before it opens its transaction, or reads rows in  *)
(* it that it writes later, is two actions: Start... takes the snapshot,   *)
(* Commit... applies the writes to the tables as they are by then (the     *)
(* database runs READ COMMITTED; the updates take row locks, so the writes *)
(* of one transaction are one step).  A transaction that throws rolls back *)
(* and leaves only Fail behind.                                            *)
(***************************************************************************)
EXTENDS StockLedger, FiniteSets, Functions

CONSTANTS Qty,               \* quantities a request may carry, all > 0
          Log,               \* ids of production logs; an id is never reused
          LegacyLog,         \* logs that predate their inventory movement
          Voucher,           \* ids of stock-applied notes
          Request,           \* requests that can be in flight together
          Gone               \* the row was deleted

ASSUME QtyIsPositive == Qty \subseteq Nat \ {0}
ASSUME LegacyIsLog == LegacyLog \subseteq Log
ASSUME TablesAreFinite == IsFiniteSet(Log) /\ IsFiniteSet(Voucher)

VARIABLES log,     \* ProductionLog: its row, NoRow before, Gone after
          made,    \* the PRODUCTION movement row of each log, or NoRow
          voucher, \* AccountingVoucher: its life, see VoucherState
          note,    \* the RETURN movement row of each voucher, or NoRow
          req,     \* the snapshot each in-flight request holds, or NoRow
          (* The database has neither of these; no guard reads them: *)
          plain,    \* what the MANUAL and OPENING rows, never edited, sum to
          corrected \* cells an update without a floor has been applied to

vars == <<balance, ledger, log, made, voucher, note, req, plain, corrected>>
tables == <<log, made, voucher, note>>
aux == <<plain, corrected>>

Row == [factory : Factory, product : Product, qty : Qty]
NoteRow == [factory : Factory, product : Product, qty : Qty \cup {-q : q \in Qty}]
VoucherState == {"unborn", "active", "inactive", "erased"}

Snapshot == [kind : {"update", "delete"}, id : Log, row : Row]
       \cup [kind : {"month", "erase"}, id : Voucher, row : NoteRow \cup {NoRow}]

ASSUME NullsAreNoRows ==
  /\ NoRow \notin Row \cup NoteRow \cup Snapshot
  /\ Gone \notin Row \cup {NoRow}

CellOf(row) == <<row.factory, row.product>>
Delta(row) == At(CellOf(row), row.qty)

(* The transaction takes stock by the amounts in d without a floor. *)
Correct(d) == corrected' = corrected \cup {c \in Cell : d[c] < 0}

(* What taking a movement row back does to the balance, if there is one. *)
Reversal(row) == IF row = NoRow THEN None ELSE Negated(Delta(row))

------------------------------------------------------------------------------
(* Manual movements.  None is ever updated or deleted again. *)

(* One transaction for all entries, each entry of the request's factory. *)
Lines(f, take) == [c \in Cell |-> IF c[1] = f THEN take[c[2]] ELSE 0]
Entries == [Product -> Qty \cup {0}] \ {[p \in Product |-> 0]}

Manual(d) ==
  /\ Post(d)
  /\ plain' = Plus(plain, d)
  /\ UNCHANGED <<tables, req>>

CreateIn(c, q) ==
  /\ Manual(At(c, q))
  /\ UNCHANGED corrected

(* Mutant: the amount is not checked. *)
CreateOutUnchecked(c, q) ==
  /\ Manual(At(c, -q))
  /\ UNCHANGED corrected

CreateOut(c, q) ==
  /\ Available(At(c, -q))
  /\ Manual(At(c, -q))
  /\ UNCHANGED corrected

CreateDeleteMovements(f, take) ==
  /\ Available(Negated(Lines(f, take)))
  /\ Manual(Negated(Lines(f, take)))
  /\ UNCHANGED corrected

CreateOpeningStock(f, take) ==
  /\ Manual(Lines(f, take))
  /\ UNCHANGED corrected

(* allowNegativeAdjustment: may overdraw, but not create the row. *)
CreateAdjustment(c, q) ==
  /\ RowsExist(At(c, q))
  /\ Manual(At(c, q))
  /\ Correct(At(c, q))

------------------------------------------------------------------------------
(* Production. *)

(* What the entries of one request add up to; the cap is as far as two     *)
(* totals within the bound can be apart.                                   *)
Produced(entry) == [c \in Cell |-> SumFunction([l \in DOMAIN entry |-> Delta(entry[l])[c]])]
Addable == [Cell -> 0 .. 2 * Bound]

(* Mutant: the movements do not carry the id of their log. *)
CreateProductionUnlinked(entry) ==
  LET L == DOMAIN entry IN
  /\ \A l \in L : log[l] = NoRow
  /\ Produced(entry) \in Addable
  /\ Post(Produced(entry))
  /\ log' = [l \in Log |-> IF l \in L THEN entry[l] ELSE log[l]]
  /\ UNCHANGED <<made, voucher, note, req, aux>>

(* createProduction: a log and its IN movement for every entry. *)
CreateProduction(entry) ==
  LET L == DOMAIN entry IN
  /\ \A l \in L : log[l] = NoRow
  /\ Produced(entry) \in Addable
  /\ Post(Produced(entry))
  /\ \A l \in L : balance'[CellOf(entry[l])] # NoRow    \* ensureBalanceRowTx
  /\ log' = [l \in Log |-> IF l \in L THEN entry[l] ELSE log[l]]
  /\ made' = [l \in Log |-> IF l \in L THEN entry[l] ELSE made[l]]
  /\ UNCHANGED <<voucher, note, req, aux>>

StartUpdateProduction(r, l) ==
  /\ req[r] = NoRow
  /\ log[l] \in Row
  /\ req' = [req EXCEPT ![r] = [kind |-> "update", id |-> l, row |-> log[l]]]
  /\ UNCHANGED <<balance, ledger, tables, aux>>

(* Mutant: what the request leaves out is written all the same. *)
AmendedWithoutFallback(row, change) ==
  [row EXCEPT !.product = change.product,
              !.qty = IF change.qty = NoRow THEN @ ELSE change.qty]

(* What the request leaves out is filled in from the snapshot, for the     *)
(* movement only: the log keeps its own column.                            *)
Amended(row, change) ==
  [row EXCEPT !.product = IF change.product = NoRow THEN @ ELSE change.product,
              !.qty = IF change.qty = NoRow THEN @ ELSE change.qty]

Change == [product : Product \cup {NoRow}, qty : Qty \cup {NoRow}]

(* updateMovementTx takes the old row's delta back without a floor, then   *)
(* applies the new one.  createMovementTx, when there is no old row.       *)
UpdateMovement(old, next) ==
  /\ RowsExist(Reversal(old))
  /\ Post(Plus(Reversal(old), Delta(next)))
  /\ Correct(Reversal(old))

(* Mutant: the movement is written, whether or not the log is still there. *)
CommitUpdateOfAnyLog(r, change) ==
  /\ req[r] # NoRow
  /\ req[r].kind = "update"
  /\ LET l == req[r].id
         next == Amended(req[r].row, change) IN
     /\ UpdateMovement(made[l], next)
     /\ log' = [log EXCEPT ![l] = IF @ = Gone THEN Gone ELSE Amended(@, change)]
     /\ made' = [made EXCEPT ![l] = next]
  /\ req' = [req EXCEPT ![r] = NoRow]
  /\ UNCHANGED <<voucher, note, plain>>

(* Mutant: takes back the row that was read before the transaction. *)
CommitUpdateFromSnapshot(r, change) ==
  /\ req[r] # NoRow
  /\ req[r].kind = "update"
  /\ LET l == req[r].id
         next == Amended(req[r].row, change)
         old == Reversal(made[l])
         back == IF made[l] = NoRow THEN None ELSE Negated(Delta(req[r].row)) IN
     /\ log[l] \in Row
     /\ RowsExist(back)
     /\ PostTo(Plus(back, Delta(next)), Plus(old, Delta(next)))
     /\ log' = [log EXCEPT ![l] = Amended(@, change)]
     /\ made' = [made EXCEPT ![l] = next]
     /\ Correct(back)
  /\ req' = [req EXCEPT ![r] = NoRow]
  /\ UNCHANGED <<voucher, note, plain>>

(* Mutant: the log itself is not amended. *)
CommitUpdateMovementOnly(r, change) ==
  /\ req[r] # NoRow
  /\ req[r].kind = "update"
  /\ LET l == req[r].id
         next == Amended(req[r].row, change) IN
     /\ log[l] \in Row
     /\ UpdateMovement(made[l], next)
     /\ made' = [made EXCEPT ![l] = next]
  /\ req' = [req EXCEPT ![r] = NoRow]
  /\ UNCHANGED <<log, voucher, note, plain>>

(* The movement amended is the one found in the transaction; a log without *)
(* a movement gets one.                                                    *)
CommitUpdateProduction(r, change) ==
  /\ req[r] # NoRow
  /\ req[r].kind = "update"
  /\ LET l == req[r].id
         next == Amended(req[r].row, change) IN
     /\ log[l] \in Row
     /\ UpdateMovement(made[l], next)
     /\ log' = [log EXCEPT ![l] = Amended(@, change)]
     /\ made' = [made EXCEPT ![l] = next]
  /\ req' = [req EXCEPT ![r] = NoRow]
  /\ UNCHANGED <<voucher, note, plain>>

StartDeleteProduction(r, l) ==
  /\ req[r] = NoRow
  /\ log[l] \in Row
  /\ made[l] \in Row
  /\ req' = [req EXCEPT ![r] = [kind |-> "delete", id |-> l, row |-> made[l]]]
  /\ UNCHANGED <<balance, ledger, tables, aux>>

(* The delta taken back is the snapshot's, the row deleted is whatever it  *)
(* has become; both deletes fail when the row is gone.                     *)
CommitDeleteProduction(r) ==
  /\ req[r] # NoRow
  /\ req[r].kind = "delete"
  /\ LET l == req[r].id
         back == Negated(Delta(req[r].row)) IN
     /\ log[l] \in Row
     /\ made[l] \in Row
     /\ Available(back)
     /\ PostTo(back, Negated(Delta(made[l])))
     /\ log' = [log EXCEPT ![l] = Gone]
     /\ made' = [made EXCEPT ![l] = NoRow]
  /\ req' = [req EXCEPT ![r] = NoRow]
  /\ UNCHANGED <<voucher, note, aux>>

------------------------------------------------------------------------------
(* Debit and credit notes that move stock.  A note has one stock line and  *)
(* is alone in its client's month; its parent is the invoice or purchase   *)
(* whose permanent deletion deletes it.                                    *)

(* createNote with apply_stock: a credit note brings stock IN, a debit     *)
(* note takes it OUT if there is enough.                                   *)
CreateNote(v, row) ==
  /\ voucher[v] = "unborn"
  /\ Available(Delta(row))
  /\ Post(Delta(row))
  /\ voucher' = [voucher EXCEPT ![v] = "active"]
  /\ note' = [note EXCEPT ![v] = row]
  /\ UNCHANGED <<log, made, req, aux>>

(* loadLedgerMonthDeleteScope, before the transaction. *)
StartMonthDelete(r, v) ==
  /\ req[r] = NoRow
  /\ voucher[v] = "active"
  /\ req' = [req EXCEPT ![r] = [kind |-> "month", id |-> v, row |-> note[v]]]
  /\ UNCHANGED <<balance, ledger, tables, aux>>

(* Mutant: the voucher is not deactivated. *)
CommitMonthKeepsVoucher(r) ==
  /\ req[r] # NoRow
  /\ req[r].kind = "month"
  /\ LET v == req[r].id
         back == Reversal(req[r].row) IN
     /\ req[r].row # NoRow => note[v] # NoRow
     /\ Available(back)
     /\ Post(back)
     /\ note' = [note EXCEPT ![v] = NoRow]
     /\ UNCHANGED voucher
  /\ req' = [req EXCEPT ![r] = NoRow]
  /\ UNCHANGED <<log, made, aux>>

(* Mutant: reverses without a floor. *)
CommitMonthUnchecked(r) ==
  /\ req[r] # NoRow
  /\ req[r].kind = "month"
  /\ LET v == req[r].id
         back == Reversal(req[r].row) IN
     /\ req[r].row # NoRow => note[v] # NoRow
     /\ Post(back)
     /\ note' = [note EXCEPT ![v] = NoRow]
     /\ voucher' = [voucher EXCEPT ![v] = IF @ = "active" THEN "inactive" ELSE @]
  /\ req' = [req EXCEPT ![r] = NoRow]
  /\ UNCHANGED <<log, made, aux>>

(* Mutant: deleteMany instead of delete, a missing row is no error. *)
CommitMonthTolerant(r) ==
  /\ req[r] # NoRow
  /\ req[r].kind = "month"
  /\ LET v == req[r].id
         back == Reversal(req[r].row) IN
     /\ Available(back)
     /\ PostTo(back, IF note[v] = NoRow THEN None ELSE back)
     /\ note' = [note EXCEPT ![v] = NoRow]
     /\ voucher' = [voucher EXCEPT ![v] = IF @ = "active" THEN "inactive" ELSE @]
  /\ req' = [req EXCEPT ![r] = NoRow]
  /\ UNCHANGED <<log, made, aux>>

(* deleteClientLedgerMonthData: movement.delete by id fails when the row   *)
(* is gone and rolls everything back.                                      *)
CommitMonthDelete(r) ==
  /\ req[r] # NoRow
  /\ req[r].kind = "month"
  /\ LET v == req[r].id
         back == Reversal(req[r].row) IN
     /\ req[r].row # NoRow => note[v] # NoRow
     /\ Available(back)
     /\ Post(back)
     /\ note' = [note EXCEPT ![v] = NoRow]
     /\ voucher' = [voucher EXCEPT ![v] = IF @ = "active" THEN "inactive" ELSE @]
  /\ req' = [req EXCEPT ![r] = NoRow]
  /\ UNCHANGED <<log, made, aux>>

(* deleteAccountingVouchersHardTx finds the rows, deleteInventoryMovements *)
(* Tx reverses them and then deletes those that are still there.           *)
StartEraseVoucher(r, v) ==
  /\ req[r] = NoRow
  /\ voucher[v] \in {"active", "inactive"}
  /\ req' = [req EXCEPT ![r] = [kind |-> "erase", id |-> v, row |-> note[v]]]
  /\ UNCHANGED <<balance, ledger, tables, aux>>

CommitEraseVoucher(r) ==
  /\ req[r] # NoRow
  /\ req[r].kind = "erase"
  /\ LET v == req[r].id
         back == Reversal(req[r].row) IN
     /\ voucher[v] # "erased"
     /\ RowsExist(back)
     /\ PostTo(back, IF note[v] = NoRow THEN None ELSE back)
     /\ note' = [note EXCEPT ![v] = NoRow]
     /\ voucher' = [voucher EXCEPT ![v] = "erased"]
     /\ Correct(back)
  /\ req' = [req EXCEPT ![r] = NoRow]
  /\ UNCHANGED <<log, made, plain>>

------------------------------------------------------------------------------
(* previewDispatch, the stock checks: a read that leaves a row behind. *)
SeedBalance(c) ==
  /\ EnsureRow(c)
  /\ UNCHANGED <<tables, req, aux>>

(* A guard of the transaction fails, or the process dies: nothing stays. *)
Fail(r) ==
  /\ req[r] # NoRow
  /\ req' = [req EXCEPT ![r] = NoRow]
  /\ UNCHANGED <<balance, ledger, tables, aux>>

Init ==
  /\ StockInit
  /\ log \in [Log -> Row \cup {NoRow}]
  /\ \A l \in Log : log[l] \in Row <=> l \in LegacyLog
  /\ made = [l \in Log |-> NoRow]
  /\ voucher = [v \in Voucher |-> "unborn"]
  /\ note = [v \in Voucher |-> NoRow]
  /\ req = [r \in Request |-> NoRow]
  /\ plain = None
  /\ corrected = {}

ManualNext ==
  \/ \E c \in Cell, q \in Qty : CreateIn(c, q) \/ CreateOut(c, q)
  \/ \E f \in Factory, take \in Entries :
       CreateDeleteMovements(f, take) \/ CreateOpeningStock(f, take)
  \/ \E c \in Cell, q \in Qty : CreateAdjustment(c, q) \/ CreateAdjustment(c, -q)
  \/ \E c \in Cell : SeedBalance(c)

ProductionNext ==
  \/ \E L \in SUBSET Log : L # {} /\ \E entry \in [L -> Row] : CreateProduction(entry)
  \/ \E r \in Request, l \in Log : StartUpdateProduction(r, l) \/ StartDeleteProduction(r, l)
  \/ \E r \in Request, change \in Change : CommitUpdateProduction(r, change)
  \/ \E r \in Request : CommitDeleteProduction(r)

NoteNext ==
  \/ \E v \in Voucher, row \in NoteRow : CreateNote(v, row)
  \/ \E r \in Request, v \in Voucher : StartMonthDelete(r, v) \/ StartEraseVoucher(r, v)
  \/ \E r \in Request : CommitMonthDelete(r) \/ CommitEraseVoucher(r)

Next == ManualNext \/ ProductionNext \/ NoteNext \/ \E r \in Request : Fail(r)

Spec == Init /\ [][Next]_vars

------------------------------------------------------------------------------
(* Every variable has its type. *)
TypeOK ==
  /\ StockTypeOK
  /\ log \in [Log -> Row \cup {NoRow, Gone}]
  /\ made \in [Log -> Row \cup {NoRow}]
  /\ voucher \in [Voucher -> VoucherState]
  /\ note \in [Voucher -> NoteRow \cup {NoRow}]
  /\ req \in [Request -> Snapshot \cup {NoRow}]
  /\ plain \in [Cell -> Int]
  /\ corrected \subseteq Cell

Amount(row, c) == IF row = NoRow THEN 0 ELSE Delta(row)[c]
Sum(rows, S, c) == SumFunctionOnSet([i \in S |-> Amount(rows[i], c)], S)

(* The auxiliary total is the sum of the movement rows there are: what     *)
(* seedBalanceFromMovementsTx would compute at any moment.                 *)
RowsAddUp ==
  \A c \in Cell : ledger[c] = plain[c] + Sum(made, Log, c) + Sum(note, Voucher, c)

(* A deleted production log leaves no movement behind, and a log has its   *)
(* movement unless it predates it, whatever updates and deletes of the     *)
(* same log overlapped.                                                    *)
ProductionPaired ==
  \A l \in Log :
    /\ log[l] \notin Row => made[l] = NoRow
    /\ log[l] \in Row /\ l \notin LegacyLog => made[l] \in Row

(* A note holds its stock movement exactly as long as it is active, even   *)
(* when a month clean-up and a permanent deletion meet on it.              *)
NotePaired == \A v \in Voucher : voucher[v] = "active" <=> note[v] # NoRow

(* A request that takes back what it read, from a row that is no longer so. *)
StaleReversal(r) ==
  /\ req[r] # NoRow
  /\ req'[r] = NoRow
  /\ \/ req[r].kind = "delete" /\ made[req[r].id] # req[r].row
     \/ req[r].kind = "erase" /\ note[req[r].id] # req[r].row

(* The balance and the movements part, or meet again, in no other way      *)
(* than a deletion that reverses a movement somebody else has meanwhile    *)
(* amended (deleteProduction) or already reversed (the permanent delete).  *)
DriftOnlyFromStaleReversal ==
  [][\A c \in Cell : Drift(c)' = Drift(c) \/ \E r \in Request : StaleReversal(r)]_vars

Agrees(l) == made[l] # NoRow => log[l] = made[l]

StaleUpdate(r, l) ==
  /\ req[r] # NoRow
  /\ req'[r] = NoRow
  /\ req[r].kind = "update" /\ req[r].id = l /\ req[r].row # log[l]

(* A log and its movement name the same product and quantity until an      *)
(* update fills the movement in from a row another update has replaced.    *)
AgreementLostOnlyToStaleUpdate ==
  [][\A l \in Log : Agrees(l) /\ ~Agrees(l)' => \E r \in Request : StaleUpdate(r, l)]_vars

(* Stock is below zero only where a negative adjustment, the amendment of  *)
(* a production entry or a permanent deletion has taken it without a       *)
(* floor: issues, notes, deletions of production and the month clean-up    *)
(* never overdraw, however old the snapshot they act on.                   *)
OverdrawnOnlyIfCorrected == \A c \in Cell : Seeded(c) < 0 => c \in corrected

(* schema.prisma:731, "append-only movements; stock is derived".           *)
StockIsDerived == \A c \in Cell : Drift(c) = 0
==============================================================================
