-------------------------------- MODULE Tally --------------------------------
(***************************************************************************)
(* The exchange with TallyPrime (tallyController, tallyService,            *)
(* tallyMappingRules, tallyInboundService, tallyReconciliationService,     *)
(* tallyConnectorAuthMiddleware) and the connector, tally-agent.mjs, that  *)
(* runs beside Tally, one at a time, and may die between any two steps.    *)
(*                                                                         *)
(* A run of the connector takes a plan, creates its ledgers and vouchers   *)
(* in Tally, reports, takes a snapshot of Tally and posts it; a user may   *)
(* post a snapshot meanwhile.  Posting a snapshot reads the plan again,    *)
(* compares, and writes conflicts in a transaction.                        *)
(*                                                                         *)
(* One field, 0 when empty, stands for the phone, the address of the mail  *)
(* and the number for the tax; amounts are integers, in the least unit, in *)
(* requests in hundredths of it; names differ by more than case; a ledger  *)
(* of Tally is owed or not.  One switch stands for invoices, payments and  *)
(* vouchers; dates, stock items and the ledgers that belong to no client   *)
(* are left out.                                                           *)
(***************************************************************************)
EXTENDS Integers, Sequences, FiniteSets, FiniteSetsExt, Functions

CONSTANTS Client, Name,
          Voucher, Kind,       \* and the kind of each
          Fields,              \* values of the field
          Contents,            \* of vouchers, as requests name them
          Limit,               \* vouchers of a kind in a plan of the connector
          Tolerance,           \* reconciliation_tolerance
          MaxOps,              \* cap for TLC
          None

(* A charge may be a tax; the lines are those of an accounting voucher.    *)
ChargeRow == [amount : Int, tax : {"none", "gst", "cgst", "sgst", "igst"}]
LineRow == [debit : BOOLEAN, amount : Int]
ContentRow == [goods : Int, charges : Seq(ChargeRow), interstate : BOOLEAN, lines : Seq(LineRow)]

ASSUME TallySets ==
  /\ Kind \in [Voucher -> {"INVOICE", "PAYMENT", "PURCHASE", "ACCOUNTING_VOUCHER"}]
  /\ Contents \subseteq ContentRow
  /\ Fields \subseteq Nat
  /\ Limit \in Nat \ {0} /\ Tolerance \in Nat /\ MaxOps \in Nat
  /\ None \notin Client \cup Voucher \cup Name /\ None \notin Int

ASSUME TallyFinite == IsFiniteSet(Client) /\ IsFiniteSet(Name)

VARIABLES integration,   \* TallyIntegration
          client, voucher,
          ledgerLink,    \* TallyLedgerLink: <<client, name>>
          voucherLink,   \* status of TallyVoucherLink
          conflict,      \* TallyConflict
          books,         \* what Tally holds: ledgers by name, vouchers
          job,           \* the run of the connector and the request of a user
          ops,
          overlapped     \* issues found by two runs at once

tallyVars == <<integration, client, voucher, ledgerLink, voucherLink, conflict, books, job, ops, overlapped>>
core == <<integration, client, voucher, ledgerLink, voucherLink, conflict>>

Worker == {"agent", "user"}
Idle == [step |-> "idle"]
At(w, step) == job[w].step = step
Goes(w, j) == job' = [job EXCEPT ![w] = j]
Begin == ops < MaxOps /\ ops' = ops + 1

(* tallyConnectorAuthMiddleware *)
Authorized == integration.enabled /\ job["agent"].token = integration.token

------------------------------------------------------------------------------
(* Vouchers as they are stored *)

Abs(n) == IF n < 0 THEN -n ELSE n

(* A column of two decimals rounds half away from zero, each on its own.   *)
Cents(n) == IF n < 0 THEN -((50 - n) \div 100) ELSE (n + 50) \div 100

(* What the charges add up to; debits less credits, with the other sign.   *)
Charged(v) == SumFunction([i \in DOMAIN v.charges |-> v.charges[i].amount])
Signed(line, amount) == IF line.debit THEN -amount ELSE amount
Imbalance(v) == SumFunction([l \in DOMAIN v.lines |-> Signed(v.lines[l], v.lines[l].amount)])
Debits(v) == SumFunction([l \in DOMAIN v.lines |-> IF v.lines[l].debit THEN v.lines[l].amount ELSE 0])

(* createVoucher takes lines that balance but for 0.0001, as they are in   *)
(* the request; those of a note balance; the other records have none.      *)
Accepts(kind, v) ==
  IF kind # "ACCOUNTING_VOUCHER" THEN v.lines = <<>>
  ELSE /\ v.lines # <<>>
       /\ \A l \in DOMAIN v.lines : v.lines[l].amount > 0
       /\ Abs(Imbalance(v)) <= 1

(* The total is added up before anything is rounded.                       *)
Total(kind, v) == Cents(IF kind = "ACCOUNTING_VOUCHER" THEN Debits(v) ELSE v.goods + Charged(v))

------------------------------------------------------------------------------
(* Vouchers as Tally is to book them: what is posted to each account, the  *)
(* connector's convention being that a debit is negative.                  *)

Account == {"party", "trade", "mode", "cgst", "sgst", "igst", "other"}
NoPosting == [a \in Account |-> 0]
Post(a, amount) == [NoPosting EXCEPT ![a] = amount]
p ++ q == [a \in Account |-> p[a] + q[a]]

Half(n) == (n + 1) \div 2

(* splitTaxCharge and chargeEntries: a tax that its title does not name is *)
(* half central, half state tax, or all integrated.                        *)
Charge(charge, interstate) ==
  LET n == Cents(charge.amount)
  IN  CASE charge.tax = "none"                 -> Post("other", n)
        [] charge.tax = "gst" /\ interstate    -> Post("igst", n)
        [] charge.tax = "gst" /\ ~interstate   -> Post("cgst", Half(n)) ++ Post("sgst", n - Half(n))
        [] charge.tax \in {"cgst", "sgst", "igst"} -> Post(charge.tax, n)

(* Mutant: charges are posted as for a sale. *)
SideAsSold(kind) == 1

Side(kind) == IF kind = "PURCHASE" THEN -1 ELSE 1

Charges(kind, v) ==
  [a \in Account |->
     SumFunction([i \in DOMAIN v.charges |-> Side(kind) * Charge(v.charges[i], v.interstate)[a]])]

(* round(record.subtotal || total): a subtotal of 0 counts as none. *)
Base(kind, v) == IF Cents(v.goods) # 0 THEN Cents(v.goods) ELSE Total(kind, v)

(* mapVoucherRecord; each line of an accounting voucher has an account of  *)
(* its own, but for a voucher with one line.                               *)
Postings(kind, v) ==
  LET total == Total(kind, v)
      base == Base(kind, v)
  IN  CASE kind = "INVOICE"  -> Post("party", -total) ++ Post("trade", base) ++ Charges(kind, v)
        [] kind = "PURCHASE" -> Post("party", total) ++ Post("trade", -base) ++ Charges(kind, v)
        [] kind = "PAYMENT"  -> Post("party", -total) ++ Post("mode", total)
        [] kind = "ACCOUNTING_VOUCHER" /\ Len(v.lines) >= 2 ->
             [l \in DOMAIN v.lines |-> Signed(v.lines[l], Cents(v.lines[l].amount))]
        [] kind = "ACCOUNTING_VOUCHER" /\ Len(v.lines) < 2 ->
             Post("party", -total) ++ Post("trade", total)

------------------------------------------------------------------------------
(* buildSyncPlan: active records, the least recently changed first and at  *)
(* most `most` of a kind, whether Tally has them or not.                   *)

Wanted(k) == {v \in Voucher : Kind[v] = k /\ voucher[v].active}
Oldest(vs, most) ==
  {v \in vs : Cardinality({x \in vs : voucher[x].changed < voucher[v].changed}) < most}
Planned(most) ==
  IF integration.vouchers THEN UNION {Oldest(Wanted(k), most) : k \in Range(Kind)} ELSE {}

LinkOf(c) == {l \in ledgerLink : l[1] = c}
LedgerName(c) == IF LinkOf(c) = {} THEN client[c].name ELSE (CHOOSE l \in LinkOf(c) : TRUE)[2]
PlannedLedgers ==
  IF integration.ledgers
  THEN {[client |-> c, name |-> LedgerName(c), field |-> client[c].field] : c \in {x \in Client : client[x].active}}
  ELSE {}

(* The vouchers of the plan carry what is to be posted. *)
PlannedVouchers == [v \in Planned(Limit) |-> voucher[v].content]

(* connectorSyncPlan *)
TakePlan ==
  /\ At("agent", "idle") /\ Begin
  /\ integration.enabled
  /\ integration' = [integration EXCEPT !.status = "CONNECTED"]
  /\ Goes("agent", [step |-> "planned", token |-> integration.token, ledgers |-> PlannedLedgers,
                    vouchers |-> PlannedVouchers])
  /\ UNCHANGED <<client, voucher, ledgerLink, voucherLink, conflict, books, overlapped>>

(* What Tally has once it was asked to create ledgers and vouchers: a      *)
(* ledger it has stays, of a voucher created again the last one counts.    *)
Booked(ledgers, vouchers) ==
  [vouchers |-> [v \in Voucher |-> IF v \in DOMAIN vouchers THEN Total(Kind[v], vouchers[v]) ELSE books.vouchers[v]],
   ledgers |-> [n \in Name |-> IF books.ledgers[n] = None /\ \E l \in ledgers : l.name = n
                                THEN [field |-> (CHOOSE l \in ledgers : l.name = n).field, owes |-> FALSE]
                                ELSE books.ledgers[n]]]

(* Mutant: an error is not told from an answer. *)
VerdictUnheard(v, taken) == "SYNCED"

Verdict(v, taken) == IF v \in taken THEN "SYNCED" ELSE "FAILED"

(* syncRows: all is created anew, whatever is linked already; Tally takes  *)
(* what it likes, and the connector may die on the way.                    *)
Push(taken, dies) ==
  LET j == job["agent"]
  IN  /\ At("agent", "planned")
      /\ books' = Booked(j.ledgers, Restrict(j.vouchers, taken))
      /\ Goes("agent", IF dies THEN Idle
                       ELSE [step |-> "pushed", token |-> j.token, ledgers |-> j.ledgers,
                             results |-> [v \in DOMAIN j.vouchers |-> Verdict(v, taken)]])
      /\ UNCHANGED <<core, ops, overlapped>>

(* A ledger link found by client or by name is overwritten. *)
Relinked(links, l) ==
  LET found == {x \in links : x[1] = l.client \/ x[2] = l.name}
  IN  IF found = {} THEN {links \cup {<<l.client, l.name>>}}
      ELSE {(links \ {x}) \cup {<<l.client, l.name>>} : x \in found}

Unique(links) == \A x, y \in links : x # y => x[2] # y[2] /\ (x[1] # y[1] \/ x[1] = None)

Relinkings(links, ls) ==
  FoldSet(LAMBDA l, results : {x \in UNION {Relinked(y, l) : y \in results} : Unique(x)}, {links}, ls)

(* connectorSyncResult: one transaction, and a status for all; a report    *)
(* that would link a client or a ledger twice fails and ends the run.      *)
Report ==
  LET j == job["agent"]
      accepted == Authorized /\ Relinkings(ledgerLink, j.ledgers) # {}
  IN  /\ At("agent", "pushed")
      /\ IF accepted
         THEN /\ ledgerLink' \in Relinkings(ledgerLink, j.ledgers)
              /\ voucherLink' = [v \in Voucher |-> IF v \in DOMAIN j.results THEN j.results[v] ELSE voucherLink[v]]
              /\ integration' = [integration EXCEPT !.status =
                   IF "FAILED" \in Range(j.results) THEN "NEEDS_ATTENTION" ELSE "SYNCED"]
              /\ Goes("agent", [step |-> "reported", token |-> j.token])
         ELSE /\ Goes("agent", Idle)
              /\ UNCHANGED <<ledgerLink, voucherLink, integration>>
      /\ UNCHANGED <<client, voucher, conflict, books, ops, overlapped>>

------------------------------------------------------------------------------
(* Snapshots *)

(* fetchTallyInboundSnapshot *)
Pull ==
  /\ At("agent", "reported")
  /\ Goes("agent", [step |-> "pulled", token |-> job["agent"].token, sourced |-> FALSE, snapshot |-> books])
  /\ UNCHANGED <<core, books, ops, overlapped>>

(* A user uploads a snapshot, which may name the source of a voucher.      *)
Upload(sourced) ==
  /\ At("user", "idle") /\ Begin
  /\ Goes("user", [step |-> "pulled", sourced |-> sourced, snapshot |-> books])
  /\ UNCHANGED <<core, books, overlapped>>

(* voucherKey: UnitFlow's vouchers go by their source, Tally's by type and *)
(* number unless the snapshot names the source.                            *)
Matched(ours, theirs, sourced) == IF sourced THEN ours \cap theirs ELSE {}

(* reconcileSnapshots.  Ledgers agree by name, and the plan has no closing *)
(* balance: whatever is owed is a difference.                              *)
Issue(type, source, name, field, high) ==
  [key |-> <<type, source, name>>, source |-> source, name |-> name, field |-> field, high |-> high]

VoucherIssues(snapshot, sourced) ==
  LET ours == Planned(Cardinality(Voucher))
      theirs == {v \in Voucher : snapshot.vouchers[v] # None}
      matched == Matched(ours, theirs, sourced)
      differs(v) == Abs(Total(Kind[v], voucher[v].content) - snapshot.vouchers[v]) > Tolerance
  IN  {Issue("MISSING_IN_TALLY", v, None, 0, TRUE) : v \in ours \ matched}
      \cup {Issue("AMOUNT_MISMATCH", v, None, 0, TRUE) : v \in {x \in matched : differs(x)}}
      \cup {Issue("MISSING_IN_UNITFLOW", IF sourced THEN v ELSE None, None, 0, TRUE)
            : v \in theirs \ matched}

LedgerIssues(snapshot) ==
  LET there == {n \in Name : snapshot.ledgers[n] # None}
      field(n) == snapshot.ledgers[n].field
      owes(n) == snapshot.ledgers[n].owes
      differs(l) == owes(l.name) \/ (l.field # 0 /\ field(l.name) \notin {0, l.field})
  IN  {Issue("LEDGER_MISSING_IN_TALLY", l.client, None, None, FALSE)
       : l \in {x \in PlannedLedgers : x.name \notin there}}
      \cup {Issue("LEDGER_FIELD_MISMATCH", l.client, l.name, field(l.name), owes(l.name))
            : l \in {x \in PlannedLedgers : x.name \in there /\ differs(x)}}
      \cup {Issue("LEDGER_MISSING_IN_UNITFLOW", None, n, field(n), FALSE)
            : n \in there \ {l.name : l \in PlannedLedgers}}

(* processInboundSnapshot reads the settings and the plan and compares,    *)
Compare(w) ==
  LET j == job[w]
  IN  /\ At(w, "pulled")
      /\ IF w = "agent" => Authorized
         THEN Goes(w, [step |-> "compared", wins |-> integration.import /\ integration.strategy = "TALLY_WINS",
                       issues |-> VoucherIssues(j.snapshot, j.sourced) \cup LedgerIssues(j.snapshot)])
         ELSE Goes(w, Idle)
      /\ UNCHANGED <<core, books, ops, overlapped>>

Open == {x \in conflict : x.status = "OPEN"}

(* Mutant: every issue is taken for a new one. *)
FoundNone(issues) == {{}}

(* upsertOpenConflict: an open conflict for each issue that has one        *)
Found(issues) ==
  LET mine == {x \in Open : \E i \in issues : x.key = i.key}
  IN  {xs \in SUBSET mine : \A x \in mine : Cardinality({y \in xs : y.key = x.key}) = 1}

(* looks for open conflicts in the transaction,                            *)
Search(w) ==
  LET j == job[w]
  IN  /\ At(w, "compared")
      /\ \E found \in Found(j.issues) :
           Goes(w, [step |-> "searched", wins |-> j.wins, issues |-> j.issues,
                    found |-> {<<x.key, x.n>> : x \in found}])
      /\ UNCHANGED <<core, books, ops, overlapped>>

(* applyTallyLedgerWins: a client takes the name and the field of the      *)
(* ledger, unless another client has that name.                            *)
Patched(c, i) == [c EXCEPT !.name = i.name, !.field = IF i.field = 0 THEN c.field ELSE i.field]

Take(i, s) ==
  IF i.source \in Client /\ i.field # None /\ s.clients[i.source].active
     /\ \A c \in Client \ {i.source} : s.clients[c].name # i.name
  THEN [clients |-> [s.clients EXCEPT ![i.source] = Patched(s.clients[i.source], i)],
        applied |-> s.applied \cup {i}]
  ELSE s
Taking(issues) == FoldSet(Take, [clients |-> client, applied |-> {}], issues)

(* The ledger issues of a run: closed as applied as soon as one was.       *)
IsLedger(x) == x.key[1] \in {"LEDGER_MISSING_IN_TALLY", "LEDGER_FIELD_MISMATCH", "LEDGER_MISSING_IN_UNITFLOW"}

(* Mutant: as soon as there is one. *)
ClosesAny(applied, issues) == issues # {}

Closes(applied, issues) == applied # {}

(* and writes conflicts, clients and the status.                           *)
Record(w) ==
  LET j == job[w]
      number == ops + (IF w = "agent" THEN 0 ELSE MaxOps)
      new == {i \in j.issues : \A f \in j.found : f[1] # i.key}
      row(i) == [n |-> number, key |-> i.key, source |-> i.source, name |-> i.name, field |-> i.field,
                 status |-> "OPEN", how |-> "none"]
      renewed(x) == [x EXCEPT !.field = (CHOOSE i \in j.issues : i.key = x.key).field]
      mine == {renewed(x) : x \in {y \in conflict : <<y.key, y.n>> \in j.found}} \cup {row(i) : i \in new}
      others == {x \in conflict : <<x.key, x.n>> \notin j.found}
      taken == IF j.wins THEN Taking({i \in j.issues : IsLedger(i)}) ELSE Taking({})
  IN  /\ At(w, "searched")
      /\ client' = taken.clients
      /\ conflict' = others \cup
           (IF j.wins /\ Closes(taken.applied, j.issues)
            THEN {IF IsLedger(x) THEN [x EXCEPT !.status = "RESOLVED", !.how = "AUTO_APPLIED_TALLY_WINS"]
                  ELSE x : x \in mine}
            ELSE mine)
      /\ integration' = [integration EXCEPT !.status =
           IF \E i \in j.issues : i.high THEN "NEEDS_ATTENTION" ELSE "SYNCED"]
      /\ overlapped' = overlapped \cup
           {i.key : i \in {x \in new : \E o \in Worker \ {w} :
                                         At(o, "searched") /\ \E y \in job[o].issues : y.key = x.key}}
      /\ Goes(w, Idle)
      /\ UNCHANGED <<voucher, ledgerLink, voucherLink, books, ops>>

------------------------------------------------------------------------------
(* Users, and the books *)

(* resolveConflict *)
Resolve(x, how) ==
  LET patched == IF how = "APPLY_TALLY_LEDGER" /\ IsLedger(x) /\ x.source # None /\ x.field # None
                 THEN {x} ELSE {}
  IN  /\ Begin
      /\ x.status = "OPEN"
      /\ \A i \in patched, c \in Client \ {x.source} : client[c].name # i.name
      /\ client' = Taking(patched).clients
      /\ conflict' = (conflict \ {x}) \cup {[x EXCEPT !.status = IF how = "IGNORED" THEN how ELSE "RESOLVED", !.how = how]}
      /\ UNCHANGED <<integration, voucher, ledgerLink, voucherLink, books, job, overlapped>>

(* updateSettings *)
UpdateSettings(enabled, import, strategy, ledgers, vouchers) ==
  /\ Begin
  /\ integration' = [integration EXCEPT !.enabled = enabled, !.import = import, !.strategy = strategy,
                                        !.ledgers = ledgers, !.vouchers = vouchers,
                                        !.status = IF enabled THEN @ ELSE "DISABLED"]
  /\ integration' # integration
  /\ UNCHANGED <<client, voucher, ledgerLink, voucherLink, conflict, books, job, overlapped>>

RotateConnectorToken ==
  /\ Begin
  /\ integration' = [integration EXCEPT !.token = @ + 1,
                                        !.status = IF integration.enabled THEN "DISCONNECTED" ELSE "DISABLED"]
  /\ UNCHANGED <<client, voucher, ledgerLink, voucherLink, conflict, books, job, overlapped>>

UpsertLedgerLink(c, n) ==
  /\ Begin
  /\ c # None => client[c].active
  /\ ledgerLink' \in Relinkings(ledgerLink, {[client |-> c, name |-> n]})
  /\ ledgerLink' # ledgerLink
  /\ UNCHANGED <<integration, client, voucher, voucherLink, conflict, books, job, overlapped>>

(* What other modules and Tally's users do to the records exchanged. *)
EditClient(c, active, n, field) ==
  /\ Begin
  /\ \A x \in Client \ {c} : client[x].name # n
  /\ client' = [client EXCEPT ![c] = [active |-> active, name |-> n, field |-> field]]
  /\ client' # client
  /\ UNCHANGED <<integration, voucher, ledgerLink, voucherLink, conflict, books, job, overlapped>>

EditVoucher(v, active, content) ==
  /\ Begin
  /\ Accepts(Kind[v], content)
  /\ voucher' = [voucher EXCEPT ![v] = [changed |-> ops', active |-> active, content |-> content]]
  /\ UNCHANGED <<integration, client, ledgerLink, voucherLink, conflict, books, job, overlapped>>

EditBooks(n, ledger) ==
  /\ Begin
  /\ books' = [books EXCEPT !.ledgers[n] = ledger]
  /\ books' # books
  /\ UNCHANGED <<core, job, overlapped>>

(* The connector dies, the request fails. *)
Die(w) ==
  /\ ~At(w, "idle")
  /\ Goes(w, Idle)
  /\ UNCHANGED <<core, books, ops, overlapped>>

AgentNext == \/ TakePlan \/ Report \/ Pull
             \/ /\ At("agent", "planned")
                /\ \E taken \in SUBSET DOMAIN job["agent"].vouchers, dies \in BOOLEAN : Push(taken, dies)

UserNext ==
  \/ \E sourced \in BOOLEAN : Upload(sourced)
  \/ \E x \in conflict, how \in {"IGNORED", "RESOLVED", "APPLY_TALLY_LEDGER"} : Resolve(x, how)
  \/ \E enabled, import, ledgers, vouchers \in BOOLEAN, strategy \in {"REVIEW", "TALLY_WINS"} :
       UpdateSettings(enabled, import, strategy, ledgers, vouchers)
  \/ RotateConnectorToken
  \/ \E c \in Client \cup {None}, n \in Name : UpsertLedgerLink(c, n)

Outside ==
  \/ \E c \in Client, active \in BOOLEAN, n \in Name, field \in Fields : EditClient(c, active, n, field)
  \/ \E v \in Voucher, active \in BOOLEAN, content \in Contents : EditVoucher(v, active, content)
  \/ \E n \in Name, ledger \in [field : Fields, owes : BOOLEAN] : EditBooks(n, ledger)

Next ==
  \/ AgentNext
  \/ ops < MaxOps /\ (UserNext \/ Outside)
  \/ \E w \in Worker : Compare(w) \/ Search(w) \/ Record(w) \/ Die(w)

(* The integration as setup leaves it, and what UnitFlow and Tally hold    *)
(* when it begins; no two records have the same name.                      *)
Init ==
  /\ integration \in [enabled : BOOLEAN, import : BOOLEAN, strategy : {"REVIEW", "TALLY_WINS"},
                      ledgers : BOOLEAN, vouchers : BOOLEAN, token : {0}, status : {"DISCONNECTED", "DISABLED"}]
  /\ client \in [Client -> [active : BOOLEAN, name : Name, field : Fields]]
  /\ \A c, d \in Client : client[c].name = client[d].name => c = d
  /\ voucher \in [Voucher -> [active : BOOLEAN, changed : Int, content : Contents]]
  /\ \A v \in Voucher : Accepts(Kind[v], voucher[v].content)
  /\ ledgerLink \in SUBSET ((Client \cup {None}) \X Name) /\ Unique(ledgerLink)
  /\ voucherLink = [v \in Voucher |-> "none"]
  /\ conflict = {}
  /\ books \in [vouchers : [Voucher -> {None}],
               ledgers : [Name -> [field : Fields, owes : BOOLEAN] \cup {None}]]
  /\ job = [w \in Worker |-> Idle]
  /\ ops = 0
  /\ overlapped = {}

Spec == Init /\ [][Next]_tallyVars

------------------------------------------------------------------------------
(* Properties *)

(* A voucher that UnitFlow has marked SYNCED was created in Tally, though  *)
(* the connector died, was locked out or overlapped with users.            *)
SyncedIsThere == \A v \in Voucher : voucherLink[v] = "SYNCED" => books.vouchers[v] # None

(* What a plan has Tally book for a voucher adds up to nothing, but for    *)
(* what rounding leaves, half a unit for each amount that was stored       *)
(* rounded; a payment does to the unit.  Except for invoices and purchases *)
(* of charges alone, whose total is posted a second time as the base.      *)
Figures(kind, v) ==
  CASE kind \in {"INVOICE", "PURCHASE"} -> Len(v.charges) + 2
    [] kind = "PAYMENT"                 -> 0
    [] kind = "ACCOUNTING_VOUCHER"      -> Len(v.lines)

Balances(kind, v) ==
  \/ 2 * Abs(SumFunction(Postings(kind, v))) <= Figures(kind, v)
  \/ kind \in {"INVOICE", "PURCHASE"} /\ Cents(v.goods) = 0 /\ v.charges # <<>>

VouchersBalance ==
  At("agent", "planned") =>
    \A v \in DOMAIN job["agent"].vouchers : Balances(Kind[v], job["agent"].vouchers[v])

(* An issue has one open conflict, unless two snapshots were recorded at   *)
(* once.                                                                   *)
OneOpenPerIssue ==
  \A x, y \in Open : x.key = y.key => x = y \/ x.key \in overlapped

(* Conflicts are closed as applied only by a run that found, among its     *)
(* issues, one whose client now has the name and the field Tally has; the  *)
(* conflict about that client is closed as applied too.                    *)
Applied(rows) == {<<x.key, x.n>> : x \in {y \in rows : y.how = "AUTO_APPLIED_TALLY_WINS"}}

AppliedForReason ==
  [][\/ Applied(conflict') \subseteq Applied(conflict)
     \/ \E w \in Worker, y \in conflict' :
          /\ At(w, "searched") /\ job'[w] # job[w] /\ \E i \in job[w].issues : i.key = y.key
          /\ y.how = "AUTO_APPLIED_TALLY_WINS" /\ y.source \in Client
          /\ client'[y.source].name = y.name
          /\ client'[y.source].field = y.field \/ y.field = 0]_tallyVars

(* The connector's documentation: a payment debits cash or bank.           *)
ReceiptsDebitCash ==
  At("agent", "planned") =>
    \A v \in DOMAIN job["agent"].vouchers :
      Kind[v] = "PAYMENT" => Postings(Kind[v], job["agent"].vouchers[v])["mode"] <= 0
==============================================================================
