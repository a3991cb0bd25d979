---------------------------- MODULE OrderDispatch ----------------------------
(***************************************************************************)
(* Orders and the stock they take: createOrder, updateOrder (its items),   *)
(* updateOrderStatus with the dispatch it triggers, cancelOrder, all in    *)
(* orderController, and the permanent deletion of an order in              *)
(* hardDeleteService.                                                      *)
(*                                                                         *)
(* Every handler but createOrder decides on an order it has read before    *)
(* (deleteOrder: at the start of) its transaction and looks at no more of  *)
(* it when it writes than that the row still exists.  So a request is a    *)
(* Start... step that keeps the order it read in `was`, and a Commit...    *)
(* step that applies the writes to the order as it has become.             *)
(***************************************************************************)
EXTENDS StockLedger, FiniteSets, Functions

CONSTANTS Order,         \* ids of orders; an id is never reused
          MaxQty,        \* the largest quantity of a product in one request
          AutoDeduct,    \* values auto_deduct_inventory_on_dispatch takes
          Request        \* requests that can be in flight together

ASSUME OrdersAreFinite == IsFiniteSet(Order)
ASSUME MaxQtyIsPositive == MaxQty \in Nat \ {0}
ASSUME AutoDeductIsFlags == AutoDeduct \subseteq BOOLEAN

VARIABLES order,   \* the order, its item rows and its movement rows
          req,     \* what each in-flight request has read, or NoRow
          other    \* what all other movement rows of a cell sum to

vars == <<balance, ledger, order, req, other>>

(***************************************************************************)
(* OrderStatus, as far as the handlers tell statuses apart: "open" is      *)
(* DRAFT, CONFIRMED or PROCESSING; "sent" DISPATCHED or SHIPPED; "done"    *)
(* COMPLETED or DELIVERED.  "new" and "gone" are the absence of the row.   *)
(***************************************************************************)
Status == {"new", "open", "sent", "done", "closed", "cancelled", "gone"}
TriggerStatus == {"sent", "done"}
Exists(o) == order[o].status \notin {"new", "gone"}

(***************************************************************************)
(* lines: the quantity of each product, added up over the item rows.       *)
(* issued: the OUT rows of the order's fulfillments, per cell; dispatch    *)
(* creates both together, so issued # None says that fulfillments exist.   *)
(* returned: the RETURN rows that carry the order's id.                    *)
(***************************************************************************)
Quantities == [Product -> 0 .. MaxQty] \ {[p \in Product |-> 0]}
OrderRow == [status : Status, lines : [Product -> Nat],
             issued : [Cell -> Int], returned : [Cell -> Int]]

Snapshot == [kind : {"status", "cancel", "edit", "erase"}, order : Order,
             was : OrderRow, begun : BOOLEAN, missed : BOOLEAN]

ASSUME NoRowIsNoSnapshot == NoRow \notin Snapshot

Read(r, kind, o) ==
  /\ req[r] = NoRow
  /\ Exists(o)
  /\ req' = [req EXCEPT ![r] = [kind |-> kind, order |-> o, was |-> order[o],
                                begun |-> FALSE, missed |-> FALSE]]
  /\ UNCHANGED <<balance, ledger, order, other>>

InFlight(r, kind) == req[r] # NoRow /\ req[r].kind = kind
Was(r) == req[r].was
Target(r) == req[r].order

(* order.update and order.delete fail when the row is gone. *)
Commit(r, row) ==
  /\ Exists(Target(r))
  /\ \A c \in Cell : WithinBound(row.issued[c]) /\ WithinBound(row.returned[c])
  /\ order' = [order EXCEPT ![Target(r)] = row]

Finish(r) == req' = [req EXCEPT ![r] = NoRow]

------------------------------------------------------------------------------
CreateOrder(o, lines) ==
  /\ order[o].status = "new"
  /\ order' = [order EXCEPT ![o].status = "open", ![o].lines = lines]
  /\ UNCHANGED <<balance, ledger, req, other>>

------------------------------------------------------------------------------
(* updateOrderStatus *)

(* Mutant: cancelled orders are not refused. *)
StartStatusOfAny(r, o) == Read(r, "status", o)

StartStatus(r, o) ==
  /\ order[o].status # "cancelled"
  /\ Read(r, "status", o)

(* buildDispatchAllocationRows: the request splits each ordered quantity   *)
(* over factories, and the parts must add up to the quantity read.         *)
SumOver(alloc, p) == SumFunction([f \in Factory |-> alloc[<<f, p>>]])
Allocations(lines) ==
  {alloc \in [Cell -> 0 .. Bound] : \A p \in Product : SumOver(alloc, p) = lines[p]}

(* validateDispatchAllocationsTx: every cell must have enough. *)
EnoughStock(alloc) == Available(Negated(alloc))

(* commitOrderInventoryTx: an OUT row for each part; for its fulfillment,  *)
(* see OrderRow.                                                           *)
IssueStock(alloc) == Post(Negated(alloc))

(* Mutant: the stock is not checked. *)
CommitDispatchUnchecked(r, to, alloc) ==
  /\ InFlight(r, "status")
  /\ to \in TriggerStatus
  /\ TRUE \in AutoDeduct
  /\ Was(r).issued = None
  /\ alloc \in Allocations(Was(r).lines)
  /\ IssueStock(alloc)
  /\ Commit(r, [order[Target(r)] EXCEPT !.status = to, !.issued = Plus(@, alloc)])
  /\ Finish(r)
  /\ UNCHANGED other

(* The trigger statuses commit stock once: when the order read has no      *)
(* fulfillment with OUT movements.                                         *)
CommitDispatch(r, to, alloc) ==
  /\ InFlight(r, "status")
  /\ to \in TriggerStatus
  /\ TRUE \in AutoDeduct
  /\ Was(r).issued = None
  /\ alloc \in Allocations(Was(r).lines)
  /\ EnoughStock(alloc)
  /\ IssueStock(alloc)
  /\ Commit(r, [order[Target(r)] EXCEPT !.status = to, !.issued = Plus(@, alloc)])
  /\ Finish(r)
  /\ UNCHANGED other

(* Mutant: the status is stored as it came in. *)
CommitStatusRaw(r, to) ==
  /\ InFlight(r, "status")
  /\ Commit(r, [order[Target(r)] EXCEPT !.status = "dispatched "])
  /\ Finish(r)
  /\ UNCHANGED <<balance, ledger, other>>

(* Any other change of status leaves stock alone; there is no order in     *)
(* which statuses must follow each other.                                  *)
CommitStatusOnly(r, to) ==
  /\ InFlight(r, "status")
  /\ to \in {"open", "sent", "done", "closed"}
  /\ to \in TriggerStatus => Was(r).issued # None \/ FALSE \in AutoDeduct
  /\ Commit(r, [order[Target(r)] EXCEPT !.status = to])
  /\ Finish(r)
  /\ UNCHANGED <<balance, ledger, other>>

------------------------------------------------------------------------------
(* cancelOrderAction, cancelOrderTx *)

StartCancel(r, o) ==
  /\ order[o].status \notin {"cancelled", "done", "closed"}
  /\ Read(r, "cancel", o)

(* Mutant: the RETURN rows do not carry the id of their order. *)
CommitCancelUnlinked(r) ==
  /\ InFlight(r, "cancel")
  /\ Post(Was(r).issued)
  /\ Commit(r, [order[Target(r)] EXCEPT !.status = "cancelled"])
  /\ Finish(r)
  /\ UNCHANGED other

(* A RETURN row for each OUT row of the fulfillments that were read. *)
CommitCancel(r) ==
  /\ InFlight(r, "cancel")
  /\ Post(Was(r).issued)
  /\ Commit(r, [order[Target(r)] EXCEPT !.status = "cancelled",
                                        !.returned = Plus(@, Was(r).issued)])
  /\ Finish(r)
  /\ UNCHANGED other

------------------------------------------------------------------------------
(* updateOrder, when the request carries items.  (Without items it changes *)
(* nothing that is modelled here.)                                         *)

(* Mutant: only the status is looked at. *)
StartEditByStatus(r, o) ==
  /\ order[o].status \notin TriggerStatus
  /\ Read(r, "edit", o)

(* An order read as dispatched, or with fulfillments, is refused. *)
StartEdit(r, o) ==
  /\ order[o].status \notin TriggerStatus
  /\ order[o].issued = None
  /\ Read(r, "edit", o)

(* orderItem.deleteMany: deletes the rows there are now.  If one of the    *)
(* requests that hold them commits first, its new rows are not seen.       *)
DeleteItems(r) ==
  /\ InFlight(r, "edit")
  /\ ~req[r].begun
  /\ req' = [req EXCEPT ![r].begun = TRUE]
  /\ UNCHANGED <<balance, ledger, order, other>>

Overtaken(q, r) == q # r /\ InFlight(q, "edit") /\ Target(q) = Target(r) /\ req[q].begun

CommitEdit(r, lines) ==
  /\ InFlight(r, "edit")
  /\ req[r].begun
  /\ LET left == IF req[r].missed THEN order[Target(r)].lines ELSE [p \in Product |-> 0] IN
     /\ \A p \in Product : left[p] + lines[p] <= Bound
     /\ Commit(r, [order[Target(r)] EXCEPT !.lines = [p \in Product |-> left[p] + lines[p]]])
  /\ req' = [q \in Request |-> IF q = r THEN NoRow
                               ELSE IF Overtaken(q, r) THEN [req[q] EXCEPT !.missed = TRUE]
                               ELSE req[q]]
  /\ UNCHANGED <<balance, ledger, other>>

------------------------------------------------------------------------------
(* deleteOrder, hardDeleteOrderTx: one transaction of many statements. *)

(* The order and the ids of its fulfillments. *)
StartErase(r, o) == Read(r, "erase", o)

(* The movement rows of those fulfillments, and the RETURN rows of the     *)
(* order: the rows that will be reversed and deleted.                      *)
FindMovements(r) ==
  /\ InFlight(r, "erase")
  /\ ~req[r].begun
  /\ req' = [req EXCEPT ![r].begun = TRUE, ![r].was.returned = order[Target(r)].returned]
  /\ UNCHANGED <<balance, ledger, order, other>>

(* Mutant: the RETURN rows are deleted without being reversed. *)
CommitEraseHalfReversed(r) ==
  /\ InFlight(r, "erase")
  /\ req[r].begun
  /\ PostTo(Was(r).issued, Minus(Was(r).issued, Was(r).returned))
  /\ Commit(r, [status |-> "gone", lines |-> [p \in Product |-> 0],
                issued |-> Minus(order[Target(r)].issued, Was(r).issued),
                returned |-> Minus(order[Target(r)].returned, Was(r).returned)])
  /\ Finish(r)
  /\ UNCHANGED other

CommitErase(r) ==
  /\ InFlight(r, "erase")
  /\ req[r].begun
  /\ RowsExist(Negated(Was(r).returned))
  /\ Post(Minus(Was(r).issued, Was(r).returned))
  /\ Commit(r, [status |-> "gone", lines |-> [p \in Product |-> 0],
                issued |-> Minus(order[Target(r)].issued, Was(r).issued),
                returned |-> Minus(order[Target(r)].returned, Was(r).returned)])
  /\ Finish(r)
  /\ UNCHANGED other

------------------------------------------------------------------------------
(* A guard of the transaction fails, a foreign key refuses the deletion,   *)
(* or the process dies: nothing stays.                                     *)
Fail(r) ==
  /\ req[r] # NoRow
  /\ Finish(r)
  /\ UNCHANGED <<balance, ledger, order, other>>

(* The movements of module Inventory, as orders see them: receipts, and    *)
(* issues that need the stock.                                             *)
OtherMovement(c, n) ==
  /\ Available(At(c, n))
  /\ Post(At(c, n))
  /\ other' = Plus(other, At(c, n))
  /\ UNCHANGED <<order, req>>

(* previewDispatch reads stock through getBalanceTx, which seeds the row. *)
PreviewDispatch(c) ==
  /\ EnsureRow(c)
  /\ UNCHANGED <<order, req, other>>

Init ==
  /\ StockInit
  /\ order = [o \in Order |-> [status |-> "new", lines |-> [p \in Product |-> 0],
                               issued |-> None, returned |-> None]]
  /\ req = [r \in Request |-> NoRow]
  /\ other = None

Next ==
  \/ \E o \in Order, lines \in Quantities : CreateOrder(o, lines)
  \/ \E r \in Request, o \in Order :
       StartStatus(r, o) \/ StartCancel(r, o) \/ StartEdit(r, o) \/ StartErase(r, o)
  \/ \E r \in Request, to \in Status, alloc \in [Cell -> 0 .. Bound] : CommitDispatch(r, to, alloc)
  \/ \E r \in Request, to \in Status : CommitStatusOnly(r, to)
  \/ \E r \in Request, lines \in Quantities : CommitEdit(r, lines)
  \/ \E r \in Request :
       CommitCancel(r) \/ DeleteItems(r) \/ FindMovements(r) \/ CommitErase(r) \/ Fail(r)
  \/ \E c \in Cell : OtherMovement(c, 1) \/ OtherMovement(c, -1) \/ PreviewDispatch(c)

Spec == Init /\ [][Next]_vars

------------------------------------------------------------------------------
(* Every variable has its type. *)
TypeOK ==
  /\ StockTypeOK
  /\ order \in [Order -> OrderRow]
  /\ req \in [Request -> Snapshot \cup {NoRow}]
  /\ other \in [Cell -> Int]

(* Whatever requests overlap on an order, the balance stays the sum of the *)
(* movement rows, and a cell without a balance has none: the order         *)
(* handlers post what they write and reverse only what they delete.        *)
StockDerived == \A c \in Cell : Drift(c) = 0 /\ (balance[c] = NoRow => ledger[c] = 0)

(* The auxiliary total is the sum of the movement rows there are. *)
Net(row, c) == row.returned[c] - row.issued[c]
RowsAddUp ==
  \A c \in Cell : ledger[c] = other[c] + SumFunction([o \in Order |-> Net(order[o], c)])

(* What an order has to be: dispatched in full or not at all, with nothing *)
(* returned, or cancelled with everything returned, or deleted with no     *)
(* movement left behind.                                                   *)
Sound(row) ==
  CASE row.status \in {"new", "gone"} -> row.issued = None /\ row.returned = None
    [] row.status = "cancelled" -> row.returned = row.issued
    [] OTHER -> /\ row.returned = None
                /\ \/ row.issued = None
                   \/ \A p \in Product : SumOver(row.issued, p) = row.lines[p]

(* A request that writes to an order somebody has changed since it read it. *)
StaleCommit(r, o) ==
  /\ req[r] # NoRow
  /\ req'[r] = NoRow
  /\ req[r].order = o
  /\ req[r].was # order[o]

(* A request that finds the order as it read it keeps it sound: every      *)
(* double dispatch, double or missing return, dispatch of edited items and *)
(* orphaned movement needs a commit on a stale order.                      *)
SoundnessLostOnlyToStaleCommit ==
  [][\A o \in Order : Sound(order[o]) /\ ~Sound(order'[o]) => \E r \in Request : StaleCommit(r, o)]_vars

(* A cancelled order stays cancelled until it is deleted, but for a status *)
(* change that read it before it was cancelled.                            *)
CancelledUnlessStaleCommit ==
  [][\A o \in Order :
       order[o].status = "cancelled" /\ order'[o].status \notin {"cancelled", "gone"}
         => \E r \in Request : StaleCommit(r, o) /\ req[r].kind = "status"]_vars

(* Orders never overdraw stock, however many of them compete for it; only  *)
(* the deletion of an order that gave back more than it took can.          *)
OverdrawnOnlyByExcessReturn ==
  [][\A c \in Cell : Seeded(c) >= 0 /\ Seeded(c)' < 0 =>
       \E r \in Request : /\ InFlight(r, "erase") /\ req'[r] = NoRow
                          /\ Was(r).returned[c] > Was(r).issued[c]]_vars

(* orderController.js:2170, the comment of cancelOrder: it "reverses its   *)
(* inventory OUT movements by creating RETURN (IN) movements".             *)
CancelReturnsStock ==
  \A o \in Order : order[o].status = "cancelled" => order[o].returned = order[o].issued
==============================================================================
