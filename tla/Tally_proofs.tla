----------------------------- MODULE Tally_proofs -----------------------------
(***************************************************************************)
(* What the exchange with Tally guarantees for any vouchers, clients and   *)
(* ledgers, and any limits of the plan.                                    *)
(***************************************************************************)
EXTENDS Tally, SumTheorems, FiniteSetTheorems, TLAPS

(* The contents that a voucher may have *)
ContentsOf(v) == {content \in Contents : Accepts(Kind[v], content)}

(* What runs may overlap on: the state that the properties rest on. *)
Shapes ==
  /\ job = [w \in Worker |-> job[w]]
  /\ voucher = [v \in Voucher |-> voucher[v]] /\ \A v \in Voucher : voucher[v].content \in ContentsOf(v)
  /\ books = [vouchers |-> books.vouchers, ledgers |-> books.ledgers]
  /\ books.vouchers \in [Voucher -> Int \cup {None}]
  /\ \A x \in conflict : DOMAIN x = {"n", "key", "source", "name", "field", "status", "how"}

(* A plan holds the contents of vouchers. *)
PlanTyped ==
  At("agent", "planned") =>
    /\ DOMAIN job["agent"].vouchers \subseteq Voucher
    /\ \A v \in DOMAIN job["agent"].vouchers : job["agent"].vouchers[v] \in ContentsOf(v)

(* What the connector is about to report as SYNCED is in Tally. *)
PushedIsThere ==
  At("agent", "pushed") =>
    \A v \in DOMAIN job["agent"].results :
      v \in Voucher /\ (job["agent"].results[v] = "SYNCED" => books.vouchers[v] # None)

(* A comparison finds an issue once. *)
Distinct(issues) == \A i, k \in issues : i.key = k.key => i = k
IssuesDistinct == \A w \in Worker : job[w].step \in {"compared", "searched"} => Distinct(job[w].issues)

(* For an issue that a run takes for a new one there is no open conflict,  *)
(* or one that another run recorded since: then the two overlapped.        *)
SearchedKnows ==
  \A w \in Worker : At(w, "searched") =>
    \A i \in job[w].issues : (\A f \in job[w].found : f[1] # i.key) =>
      \A x \in Open : x.key = i.key => i.key \in overlapped

(* Clients have a name and a field. *)
ClientShape(cl) ==
  cl = [c \in Client |-> cl[c]] /\ \A c \in Client : DOMAIN cl[c] = {"active", "name", "field"}

(* What a run knows when it records: its issues and the conflicts tell     *)
(* whom they are about by their key, and what it found is still there.     *)
Told(x) == x.source = x.key[2] /\ x.name = x.key[3]
LedgersOf(issues) == {i \in issues : IsLedger(i)}
IssuesTold(issues) == (\A i \in issues : Told(i)) /\ IsFiniteSet(LedgersOf(issues))

RunsInv ==
  /\ ClientShape(client)
  /\ \A x \in conflict : Told(x)
  /\ \A w \in Worker : job[w].step \in {"compared", "searched"} => IssuesTold(job[w].issues)
  /\ \A w \in Worker : At(w, "searched") =>
       \A f \in job[w].found : \E y \in conflict : f = <<y.key, y.n>>

BooksInv == PlanTyped /\ PushedIsThere /\ SyncedIsThere
ConflictInv == IssuesDistinct /\ SearchedKnows /\ OneOpenPerIssue
IInv == Shapes /\ BooksInv /\ ConflictInv /\ RunsInv

------------------------------------------------------------------------------
(* Vouchers balance *)

LEMMA AccountsFinite == IsFiniteSet(Account)
<1>1. \A S : IsFiniteSet(S) => \A x : IsFiniteSet(S \cup {x})
  BY FS_AddElement
<1>2. PICK A : A = {"party"} \cup {"trade"} \cup {"mode"} \cup {"cgst"}
  OBVIOUS
<1>3. IsFiniteSet(A)
  <2>1. IsFiniteSet({"party"} \cup {"trade"})
    BY <1>1, FS_Singleton
  <2>2. IsFiniteSet({"party"} \cup {"trade"} \cup {"mode"})
    BY <1>1, <2>1
  <2>3. IsFiniteSet({"party"} \cup {"trade"} \cup {"mode"} \cup {"cgst"})
    BY <1>1, <2>2
  <2> QED
    BY <1>2, <2>3
<1>4. IsFiniteSet(A \cup {"sgst"} \cup {"igst"} \cup {"other"})
  <2>1. IsFiniteSet(A \cup {"sgst"})
    BY <1>1, <1>3
  <2>2. IsFiniteSet(A \cup {"sgst"} \cup {"igst"})
    BY <1>1, <2>1
  <2> QED
    BY <1>1, <2>2
<1>5. Account = A \cup {"sgst"} \cup {"igst"} \cup {"other"}
  BY <1>2 DEF Account
<1> QED
  BY <1>4, <1>5

Posted(p) == SumFunctionOnSet(p, Account)

LEMMA SumOfPosting ==
  ASSUME NEW p \in [Account -> Int]
  PROVE  SumFunction(p) = Posted(p)
<1>1. DOMAIN p = Account
  OBVIOUS
<1> QED
  BY <1>1 DEF SumFunction, Posted

LEMMA PostSums ==
  ASSUME NEW a \in Account, NEW amount \in Int
  PROVE  Post(a, amount) \in [Account -> Int] /\ Posted(Post(a, amount)) = amount
<1> DEFINE p == Post(a, amount)
<1>1. p \in [Account -> Int] /\ p[a] = amount /\ \A b \in Account \ {a} : p[b] = 0
  BY DEF Post, NoPosting
<1> HIDE DEF p
<1>2. \A b \in Account : p[b] \in Int
  BY <1>1
<1>3. SumFunctionOnSet(p, Account) = p[a] + SumFunctionOnSet(p, Account \ {a})
  BY <1>2, AccountsFinite, SumSplit
<1>4. IsFiniteSet(Account \ {a})
  BY AccountsFinite, FS_RemoveElement
<1>5. SumFunctionOnSet(p, Account \ {a}) = 0
  BY <1>1, <1>4, SumOfZeros
<1> QED
  BY <1>1, <1>3, <1>5 DEF p, Posted

LEMMA BothSum ==
  ASSUME NEW p \in [Account -> Int], NEW q \in [Account -> Int]
  PROVE  (p ++ q) \in [Account -> Int] /\ Posted(p ++ q) = Posted(p) + Posted(q)
<1> DEFINE r == p ++ q
<1>1. r \in [Account -> Int] /\ \A a \in Account : p[a] \in Int /\ q[a] \in Int /\ r[a] = p[a] + q[a]
  BY DEF ++
<1> HIDE DEF r
<1>2. AddUp(r, p, q, Account)
  BY <1>1 DEF AddUp
<1>3. SumFunctionOnSet(r, Account) = SumFunctionOnSet(p, Account) + SumFunctionOnSet(q, Account)
  BY <1>2, AccountsFinite, SumAddUp
<1> QED
  BY <1>1, <1>3 DEF r, Posted

LEMMA ThreeSum ==
  ASSUME NEW p \in [Account -> Int], NEW q \in [Account -> Int], NEW r \in [Account -> Int]
  PROVE  SumFunction(p ++ q ++ r) = Posted(p) + Posted(q) + Posted(r)
<1>1. PICK u : u = p ++ q
  OBVIOUS
<1>2. u \in [Account -> Int] /\ Posted(u) = Posted(p) + Posted(q)
  BY <1>1, BothSum
<1>3. (u ++ r) \in [Account -> Int] /\ Posted(u ++ r) = Posted(u) + Posted(r)
  BY <1>2, BothSum
<1>4. SumFunction(u ++ r) = Posted(u ++ r)
  BY <1>3, SumOfPosting
<1> QED
  BY <1>1, <1>2, <1>3, <1>4

(* What rounding does to one amount, and to the sum of many *)
Near(g, f, n) == -50 * n <= 100 * g - f /\ 100 * g - f <= 50 * n

LEMMA CentsNear ==
  ASSUME NEW n \in Int
  PROVE  /\ Cents(n) \in Int /\ Near(Cents(n), n, 1)
         /\ Near(-Cents(n), -n, 1)
  BY DEF Cents, Near

LEMMA SumNear ==
  ASSUME NEW S, IsFiniteSet(S), NEW f, NEW g,
         \A x \in S : f[x] \in Int /\ g[x] \in Int /\ Near(g[x], f[x], 1)
  PROVE  Near(SumFunctionOnSet(g, S), SumFunctionOnSet(f, S), Cardinality(S))
<1> DEFINE near(T) == Near(SumFunctionOnSet(g, T), SumFunctionOnSet(f, T), Cardinality(T))
           G == {T \in SUBSET S : near(T)}
<1>1. ASSUME NEW T \in SUBSET S, \A U \in SUBSET T : U # T => U \in G
      PROVE  T \in G
  <2>1. CASE T = {}
    <3>1. SumFunctionOnSet(f, T) = 0 /\ SumFunctionOnSet(g, T) = 0 /\ Cardinality(T) = 0
      BY <2>1, SumEmpty, FS_EmptySet
    <3>2. near(T)
      BY <3>1 DEF Near
    <3> QED
      BY <3>2
  <2>2. CASE T # {}
    <3>1. PICK x : x \in T
      BY <2>2
    <3>2. PICK U : U = T \ {x}
      OBVIOUS
    <3>3. U \in SUBSET T /\ U # T /\ IsFiniteSet(T) /\ IsFiniteSet(U)
      BY <3>1, <3>2, FS_Subset
    <3>4. near(U)
      BY <1>1, <3>3
    <3>5. /\ SumFunctionOnSet(f, T) = f[x] + SumFunctionOnSet(f, U)
          /\ SumFunctionOnSet(g, T) = g[x] + SumFunctionOnSet(g, U)
      BY <3>1, <3>2, <3>3, SumSplit
    <3>6. Cardinality(U) \in Nat /\ Cardinality(T) = Cardinality(U) + 1
      BY <3>1, <3>2, <3>3, FS_CardinalityType, FS_RemoveElement
    <3>7. SumFunctionOnSet(f, U) \in Int /\ SumFunctionOnSet(g, U) \in Int
      BY <3>3, SumIsInt
    <3>8. f[x] \in Int /\ g[x] \in Int /\ Near(g[x], f[x], 1)
      BY <3>1
    <3>9. near(T)
      BY <3>4, <3>5, <3>6, <3>7, <3>8 DEF Near
    <3> QED
      BY <3>9
  <2> QED
    BY <2>1, <2>2
<1>2. S \in G
  <2> HIDE DEF G
  <2>1. \A T \in SUBSET S : T \in G
    BY <1>1, SetInduction
  <2> QED
    BY <2>1
<1> QED
  BY <1>2

LEMMA ListIs ==
  ASSUME NEW R, NEW s \in Seq(R)
  PROVE  /\ Len(s) \in Nat /\ DOMAIN s = 1..Len(s)
         /\ IsFiniteSet(DOMAIN s) /\ Cardinality(DOMAIN s) = Len(s)
         /\ \A i \in DOMAIN s : s[i] \in R
<1>1. Len(s) \in Nat /\ DOMAIN s = 1..Len(s) /\ \A i \in DOMAIN s : s[i] \in R
  OBVIOUS
<1> QED
  BY <1>1, FS_Interval

(* One charge adds up to what is stored of it. *)
LEMMA ChargePosts ==
  ASSUME NEW c \in ChargeRow, NEW interstate \in BOOLEAN
  PROVE  Charge(c, interstate) \in [Account -> Int] /\ Posted(Charge(c, interstate)) = Cents(c.amount)
<1>1. PICK n : n = Cents(c.amount)
  OBVIOUS
<1>2. n \in Int /\ Half(n) \in Int /\ n - Half(n) \in Int
  BY <1>1, CentsNear DEF ChargeRow, Half
<1>3. {"other", "cgst", "sgst", "igst"} \subseteq Account
  BY DEF Account
<1>4. CASE c.tax = "none"
  BY <1>1, <1>2, <1>3, <1>4, PostSums DEF Charge
<1>5. CASE c.tax = "gst" /\ interstate
  BY <1>1, <1>2, <1>3, <1>5, PostSums DEF Charge
<1>6. CASE c.tax = "gst" /\ ~interstate
  <2>1. PICK p, q : p = Post("cgst", Half(n)) /\ q = Post("sgst", n - Half(n))
    OBVIOUS
  <2>2. /\ p \in [Account -> Int] /\ Posted(p) = Half(n)
        /\ q \in [Account -> Int] /\ Posted(q) = n - Half(n)
    BY <1>2, <1>3, <2>1, PostSums
  <2>3. Charge(c, interstate) = p ++ q
    BY <1>1, <1>6, <2>1 DEF Charge
  <2> QED
    BY <1>1, <1>2, <2>2, <2>3, BothSum
<1>7. CASE c.tax \in {"cgst", "sgst", "igst"}
  <2>1. Charge(c, interstate) = Post(c.tax, n)
    BY <1>1, <1>7 DEF Charge
  <2>2. PICK a \in Account : a = c.tax
    BY <1>3, <1>7
  <2>3. Post(a, n) \in [Account -> Int] /\ Posted(Post(a, n)) = n
    BY <1>2, PostSums
  <2> QED
    BY <1>1, <2>1, <2>2, <2>3
<1> QED
  BY <1>4, <1>5, <1>6, <1>7 DEF ChargeRow

LEMMA SumSigned ==
  ASSUME NEW side \in {1, -1}, NEW S, IsFiniteSet(S), NEW f, NEW g,
         \A x \in S : f[x] \in Int /\ g[x] = side * f[x]
  PROVE  SumFunctionOnSet(g, S) = side * SumFunctionOnSet(f, S)
<1>1. CASE side = 1
  <2>1. \A x \in S : g[x] = f[x]
    BY <1>1
  <2>2. SumFunctionOnSet(g, S) = SumFunctionOnSet(f, S) /\ SumFunctionOnSet(f, S) \in Int
    BY <2>1, SumSame, SumIsInt
  <2> QED
    BY <1>1, <2>2
<1>2. CASE side = -1
  <2> DEFINE z == [x \in S |-> 0]
  <2>1. \A x \in S : z[x] = 0 /\ f[x] \in Int /\ g[x] \in Int /\ z[x] = f[x] + g[x]
    BY <1>2
  <2> HIDE DEF z
  <2>2. SumFunctionOnSet(z, S) = 0
    BY <2>1, SumOfZeros
  <2>3. SumFunctionOnSet(z, S) = SumFunctionOnSet(f, S) + SumFunctionOnSet(g, S)
    <3>1. AddUp(z, f, g, S)
      BY <2>1 DEF AddUp
    <3> QED
      BY <3>1, SumAddUp
  <2>4. SumFunctionOnSet(f, S) \in Int /\ SumFunctionOnSet(g, S) \in Int
    BY <2>1, SumIsInt
  <2> QED
    BY <1>2, <2>2, <2>3, <2>4
<1> QED
  BY <1>1, <1>2

(* The charges add up to what is stored of them, with the sign of the      *)
(* kind: nearly what the request asked for.                                *)
ChargesAre(kind, v, n) ==
  /\ Charges(kind, v) \in [Account -> Int] /\ Posted(Charges(kind, v)) = Side(kind) * n
  /\ Charged(v) \in Int /\ Near(n, Charged(v), Len(v.charges))

LEMMA ChargesPost ==
  ASSUME NEW v \in ContentRow, NEW kind
  PROVE  \E n \in Int : ChargesAre(kind, v, n)
<1> DEFINE T == DOMAIN v.charges
           posts(i) == Charge(v.charges[i], v.interstate)
           f == [i \in T |-> v.charges[i].amount]
           g == [i \in T |-> Cents(v.charges[i].amount)]
<1>1. PICK side \in {1, -1} : side = Side(kind)
  BY DEF Side
<1> DEFINE h == [a \in Account |-> [i \in T |-> side * posts(i)[a]]]
           k == [i \in T |-> [a \in Account |-> side * posts(i)[a]]]
           all == [a \in Account |-> SumFunction(h[a])]
           each == [i \in T |-> SumFunctionOnSet(k[i], Account)]
<1>2. IsFiniteSet(T) /\ Cardinality(T) = Len(v.charges) /\ \A i \in T : v.charges[i] \in ChargeRow
  BY ListIs DEF ContentRow
<1>3. v.interstate \in BOOLEAN
  BY DEF ContentRow
<1>4. \A i \in T : /\ f[i] = v.charges[i].amount /\ f[i] \in Int
                   /\ g[i] = Cents(f[i]) /\ g[i] \in Int /\ Near(g[i], f[i], 1)
  BY <1>2, CentsNear DEF ChargeRow
<1>5. \A i \in T : posts(i) \in [Account -> Int] /\ Posted(posts(i)) = g[i]
  BY <1>2, <1>3, <1>4, ChargePosts
<1>6. Charges(kind, v) = all
  BY <1>1 DEF Charges
<1>7. Charged(v) = SumFunctionOnSet(f, T)
  BY DEF Charged, SumFunction
<1> HIDE DEF T, f, g, posts
<1>8. Columns(h, k, Account, T)
  <2>1. \A a \in Account, i \in T : side * posts(i)[a] \in Int
    BY <1>5
  <2> QED
    BY <2>1 DEF Columns
<1>9. all \in [Account -> Int] /\ RowSums(all, h, Account, T)
  <2>1. ASSUME NEW a \in Account
        PROVE  all[a] = SumFunctionOnSet(h[a], T) /\ all[a] \in Int
    <3>1. all[a] = SumFunction(h[a]) /\ DOMAIN h[a] = T /\ \A i \in T : h[a][i] \in Int
      BY <1>8 DEF Columns
    <3> HIDE DEF all, h
    <3>2. PICK row : row = h[a]
      OBVIOUS
    <3>3. SumFunction(row) = SumFunctionOnSet(row, T)
      BY <3>1, <3>2 DEF SumFunction
    <3>4. SumFunctionOnSet(row, T) \in Int
      BY <1>2, <3>1, <3>2, SumIsInt
    <3> QED
      BY <3>1, <3>2, <3>3, <3>4
  <2>2. all = [a \in Account |-> all[a]]
    OBVIOUS
  <2> HIDE DEF all, h
  <2> QED
    BY <2>1, <2>2 DEF RowSums
<1>10. RowSums(each, k, T, Account)
  BY DEF RowSums
<1>11. ASSUME NEW i \in T
       PROVE  each[i] = side * g[i]
  <2>1. PICK p : p = posts(i)
    OBVIOUS
  <2>2. PICK row : row = k[i]
    OBVIOUS
  <2>3. \A a \in Account : p[a] \in Int /\ row[a] = side * p[a]
    BY <1>5, <2>1, <2>2
  <2>4. each[i] = SumFunctionOnSet(row, Account)
    BY <2>2
  <2> HIDE DEF each, k
  <2>5. SumFunctionOnSet(row, Account) = side * SumFunctionOnSet(p, Account)
    BY <2>3, AccountsFinite, SumSigned
  <2>6. SumFunctionOnSet(p, Account) = g[i]
    BY <1>5, <2>1 DEF Posted
  <2> QED
    BY <2>4, <2>5, <2>6
<1> HIDE DEF all, each, h, k
<1>12. SumFunctionOnSet(all, Account) = SumFunctionOnSet(each, T)
  BY <1>2, <1>8, <1>9, <1>10, AccountsFinite, SumSwap
<1>13. SumFunctionOnSet(each, T) = side * SumFunctionOnSet(g, T)
  BY <1>2, <1>4, <1>11, SumSigned
<1>14. SumFunctionOnSet(g, T) \in Int /\ SumFunctionOnSet(f, T) \in Int
  BY <1>2, <1>4, SumIsInt
<1>15. Near(SumFunctionOnSet(g, T), SumFunctionOnSet(f, T), Cardinality(T))
  BY <1>2, <1>4, SumNear
<1> QED
  BY <1>1, <1>2, <1>6, <1>7, <1>9, <1>12, <1>13, <1>14, <1>15 DEF ChargesAre, Posted

LEMMA TotalIsInt ==
  ASSUME NEW v \in ContentRow, NEW kind
  PROVE  Total(kind, v) \in Int
<1>1. CASE kind = "ACCOUNTING_VOUCHER"
  <2> DEFINE L == DOMAIN v.lines
             f == [l \in L |-> IF v.lines[l].debit THEN v.lines[l].amount ELSE 0]
  <2>1. IsFiniteSet(L) /\ \A l \in L : f[l] \in Int
    <3>1. IsFiniteSet(L) /\ \A l \in L : v.lines[l] \in LineRow
      BY ListIs DEF ContentRow
    <3> HIDE DEF L
    <3>2. \A l \in L : v.lines[l].amount \in Int
      BY <3>1 DEF LineRow
    <3> QED
      BY <3>1, <3>2
  <2>2. Debits(v) = SumFunctionOnSet(f, L)
    BY DEF Debits, SumFunction
  <2> HIDE DEF f, L
  <2>3. Debits(v) \in Int
    BY <2>1, <2>2, SumIsInt
  <2> QED
    BY <1>1, <2>3, CentsNear DEF Total
<1>2. CASE kind # "ACCOUNTING_VOUCHER"
  <2>1. PICK n \in Int : ChargesAre(kind, v, n)
    BY ChargesPost
  <2>2. v.goods + Charged(v) \in Int
    BY <2>1 DEF ChargesAre, ContentRow
  <2> QED
    BY <1>2, <2>2, CentsNear DEF Total
<1> QED
  BY <1>1, <1>2

(* An invoice or a purchase: total, base and charges, each rounded. *)
LEMMA GoodsBalance ==
  ASSUME NEW v \in ContentRow, NEW kind \in {"INVOICE", "PURCHASE"}
  PROVE  Balances(kind, v)
<1>1. PICK n \in Int : ChargesAre(kind, v, n)
  BY ChargesPost
<1>2. PICK asked \in Int, goods \in Int, many \in Nat :
        asked = Charged(v) /\ goods = v.goods /\ many = Len(v.charges)
  BY <1>1, ListIs DEF ChargesAre, ContentRow
<1>3. PICK t \in Int, c \in Int : t = Total(kind, v) /\ c = Cents(goods)
  BY <1>2, CentsNear, TotalIsInt
<1>4. Near(t, goods + asked, 1) /\ Near(c, goods, 1) /\ Near(n, asked, many)
  <2>1. t = Cents(goods + asked)
    BY <1>2, <1>3 DEF Total
  <2>2. PICK sum \in Int : sum = goods + asked
    OBVIOUS
  <2>3. Near(t, sum, 1) /\ Near(c, goods, 1)
    BY <1>3, <2>1, <2>2, CentsNear
  <2>4. Near(n, asked, many)
    BY <1>1, <1>2 DEF ChargesAre
  <2> QED
    BY <2>2, <2>3, <2>4
<1>5. PICK b \in Int : b = Base(kind, v)
  BY <1>2, <1>3 DEF Base
<1>6. (c # 0 => b = c) /\ (c = 0 => b = t)
  BY <1>2, <1>3, <1>5 DEF Base
<1>7. PICK r \in [Account -> Int] : r = Charges(kind, v)
  BY <1>1 DEF ChargesAre
<1>8. Posted(r) = Side(kind) * n
  BY <1>1, <1>7 DEF ChargesAre
<1>9. PICK s \in {1, -1} : s = Side(kind)
  BY DEF Side
<1>10. PICK x \in Int : x = SumFunction(Postings(kind, v)) /\ (x = (b - t) + n \/ x = (t - b) - n)
  <2>1. PICK p, q : p = Post("party", -s * t) /\ q = Post("trade", s * b)
    OBVIOUS
  <2>2. Postings(kind, v) = p ++ q ++ r
    <3>1. CASE kind = "INVOICE"
      <4>1. s = 1 /\ -s * t = -t /\ s * b = b
        BY <1>9, <3>1 DEF Side
      <4> QED
        BY <1>3, <1>5, <1>7, <2>1, <3>1, <4>1 DEF Postings
    <3>2. CASE kind = "PURCHASE"
      <4>1. s = -1 /\ -s * t = t /\ s * b = -b
        BY <1>9, <3>2 DEF Side
      <4> QED
        BY <1>3, <1>5, <1>7, <2>1, <3>2, <4>1 DEF Postings
    <3> QED
      BY <3>1, <3>2
  <2>3. /\ p \in [Account -> Int] /\ Posted(p) = -s * t
        /\ q \in [Account -> Int] /\ Posted(q) = s * b
    <3>1. -s * t \in Int /\ s * b \in Int /\ "party" \in Account /\ "trade" \in Account
      BY DEF Account
    <3> QED
      BY <2>1, <3>1, PostSums
  <2>4. SumFunction(Postings(kind, v)) = (-s * t) + (s * b) + (s * n)
    BY <1>8, <1>9, <2>2, <2>3, ThreeSum
  <2> QED
    BY <2>4
<1>11. Figures(kind, v) = many + 2
  BY <1>2 DEF Figures
<1>12. CASE c # 0
  <2>1. 2 * Abs(x) <= many + 2
    BY <1>4, <1>6, <1>10, <1>12 DEF Near, Abs
  <2> QED
    BY <1>10, <1>11, <2>1 DEF Balances
<1>13. CASE c = 0 /\ v.charges # <<>>
  BY <1>2, <1>3, <1>13 DEF Balances
<1>14. CASE c = 0 /\ v.charges = <<>>
  <2>1. many = 0
    BY <1>2, <1>14
  <2>2. n = 0 /\ asked \in Int
    <3>1. asked = 0
      <4>1. DOMAIN v.charges = {}
        BY <1>14
      <4>2. [i \in DOMAIN v.charges |-> v.charges[i].amount] = [i \in {} |-> v.charges[i].amount]
        BY <4>1
      <4>3. DOMAIN [i \in DOMAIN v.charges |-> v.charges[i].amount] = {}
        BY <4>1
      <4> QED
        BY <1>2, <4>3, SumEmpty DEF Charged, SumFunction
    <3> QED
      BY <1>4, <2>1, <3>1 DEF Near
  <2>3. 2 * Abs(x) <= many + 2
    BY <1>6, <1>10, <1>14, <2>1, <2>2 DEF Abs
  <2> QED
    BY <1>10, <1>11, <2>3 DEF Balances
<1> QED
  BY <1>12, <1>13, <1>14

(* The lines of an accounting voucher balanced before they were rounded. *)
LEMMA LinesBalance ==
  ASSUME NEW v \in ContentRow, Accepts("ACCOUNTING_VOUCHER", v), Len(v.lines) >= 2
  PROVE  Balances("ACCOUNTING_VOUCHER", v)
<1> DEFINE L == DOMAIN v.lines
           f == [l \in L |-> Signed(v.lines[l], v.lines[l].amount)]
           g == [l \in L |-> Signed(v.lines[l], Cents(v.lines[l].amount))]
<1>1. /\ Len(v.lines) \in Nat /\ IsFiniteSet(L) /\ Cardinality(L) = Len(v.lines)
      /\ \A l \in L : v.lines[l] \in LineRow
  BY ListIs DEF ContentRow
<1>2. ASSUME NEW l \in L
      PROVE  f[l] \in Int /\ g[l] \in Int /\ Near(g[l], f[l], 1)
  <2>1. PICK n \in Int : n = v.lines[l].amount
    BY <1>1 DEF LineRow
  <2>2. PICK c : c = Cents(n)
    OBVIOUS
  <2>3. c \in Int /\ Near(c, n, 1) /\ Near(-c, -n, 1)
    BY <2>2, CentsNear
  <2>4. f[l] = (IF v.lines[l].debit THEN -n ELSE n) /\ g[l] = (IF v.lines[l].debit THEN -c ELSE c)
    BY <2>1, <2>2 DEF Signed
  <2>5. -n \in Int /\ -c \in Int
    BY <2>3
  <2> HIDE DEF f, g
  <2> QED
    BY <2>3, <2>4, <2>5
<1>3. Postings("ACCOUNTING_VOUCHER", v) = g
  BY DEF Postings
<1>4. SumFunction(g) = SumFunctionOnSet(g, L) /\ Imbalance(v) = SumFunctionOnSet(f, L)
  BY DEF SumFunction, Imbalance
<1>5. Abs(Imbalance(v)) <= 1
  BY DEF Accepts
<1> HIDE DEF L, f, g
<1>6. Near(SumFunctionOnSet(g, L), SumFunctionOnSet(f, L), Cardinality(L))
  BY <1>1, <1>2, SumNear
<1>7. PICK x \in Int, y \in Int, n \in Nat :
        x = SumFunctionOnSet(g, L) /\ y = SumFunctionOnSet(f, L) /\ n = Len(v.lines)
  BY <1>1, <1>2, SumIsInt
<1>8. Near(x, y, n) /\ Abs(y) <= 1
  BY <1>1, <1>4, <1>5, <1>6, <1>7
<1>9. 2 * Abs(x) <= n
  BY <1>8 DEF Near, Abs
<1>10. Figures("ACCOUNTING_VOUCHER", v) = n
  BY <1>7 DEF Figures
<1> QED
  BY <1>3, <1>4, <1>7, <1>9, <1>10 DEF Balances

(* Two postings of one amount *)
LEMMA TwoBalance ==
  ASSUME NEW t \in Int, NEW a \in Account
  PROVE  SumFunction(Post("party", -t) ++ Post(a, t)) = 0
<1>1. PICK p, q : p = Post("party", -t) /\ q = Post(a, t)
  OBVIOUS
<1>2. /\ p \in [Account -> Int] /\ Posted(p) = -t
      /\ q \in [Account -> Int] /\ Posted(q) = t
  <2>1. -t \in Int /\ "party" \in Account
    BY DEF Account
  <2> QED
    BY <1>1, <2>1, PostSums
<1>3. (p ++ q) \in [Account -> Int] /\ Posted(p ++ q) = -t + t
  BY <1>2, BothSum
<1>4. SumFunction(p ++ q) = Posted(p ++ q)
  BY <1>3, SumOfPosting
<1> QED
  BY <1>1, <1>3, <1>4

(* What is posted for a voucher adds up to nothing but what rounding       *)
(* leaves, unless its base is its total, charges and all.                  *)
LEMMA PostingsBalance ==
  ASSUME NEW k \in Voucher, NEW v \in ContentsOf(k)
  PROVE  Balances(Kind[k], v)
<1>1. v \in ContentRow /\ Accepts(Kind[k], v)
  BY TallySets DEF ContentsOf
<1>2. Kind[k] \in {"INVOICE", "PAYMENT", "PURCHASE", "ACCOUNTING_VOUCHER"}
  BY TallySets
<1>3. PICK t \in Int : t = Total(Kind[k], v)
  BY <1>1, TotalIsInt
<1>4. \A n \in Nat : 2 * Abs(0) <= n
  BY DEF Abs
<1>5. CASE Kind[k] = "PAYMENT"
  <2>1. Postings(Kind[k], v) = Post("party", -t) ++ Post("mode", t)
    BY <1>3, <1>5 DEF Postings
  <2>2. SumFunction(Postings(Kind[k], v)) = 0
    BY <2>1, TwoBalance DEF Account
  <2>3. Figures(Kind[k], v) = 0
    BY <1>5 DEF Figures
  <2> QED
    BY <1>4, <2>2, <2>3 DEF Balances
<1>6. CASE Kind[k] = "ACCOUNTING_VOUCHER" /\ Len(v.lines) < 2
  <2>1. Postings(Kind[k], v) = Post("party", -t) ++ Post("trade", t)
    BY <1>3, <1>6 DEF Postings
  <2>2. SumFunction(Postings(Kind[k], v)) = 0
    BY <2>1, TwoBalance DEF Account
  <2>3. Figures(Kind[k], v) \in Nat
    BY <1>1, <1>6, ListIs DEF Figures, ContentRow
  <2> QED
    BY <1>4, <2>2, <2>3 DEF Balances
<1>7. CASE Kind[k] = "ACCOUNTING_VOUCHER" /\ ~ (Len(v.lines) < 2)
  <2>1. Len(v.lines) >= 2
    BY <1>1, <1>7, ListIs DEF ContentRow
  <2> QED
    BY <1>1, <1>7, <2>1, LinesBalance
<1>8. CASE Kind[k] \in {"INVOICE", "PURCHASE"}
  BY <1>1, <1>8, GoodsBalance
<1> QED
  BY <1>2, <1>5, <1>6, <1>7, <1>8

LEMMA PlansBalance == PlanTyped => VouchersBalance
  BY PostingsBalance DEF PlanTyped, VouchersBalance

------------------------------------------------------------------------------
(* A comparison finds each issue once: what it says of one follows from    *)
(* its key.                                                                *)

LEMMA IssuesOfSnapshot ==
  ASSUME NEW snapshot, NEW sourced
  PROVE  Distinct(VoucherIssues(snapshot, sourced) \cup LedgerIssues(snapshot))
<1> DEFINE Field(key) == IF key[1] = "LEDGER_MISSING_IN_TALLY" THEN None
                         ELSE IF key[1] \in {"LEDGER_FIELD_MISMATCH", "LEDGER_MISSING_IN_UNITFLOW"}
                         THEN snapshot.ledgers[key[3]].field ELSE 0
           High(key) == IF key[1] = "LEDGER_FIELD_MISMATCH" THEN snapshot.ledgers[key[3]].owes
                        ELSE IF key[1] \in {"MISSING_IN_TALLY", "AMOUNT_MISMATCH", "MISSING_IN_UNITFLOW"} THEN TRUE
                        ELSE FALSE
           Shown(i) == i = [key |-> i.key, source |-> i.key[2], name |-> i.key[3],
                           field |-> Field(i.key), high |-> High(i.key)]
<1>1. \A source : /\ Shown(Issue("MISSING_IN_TALLY", source, None, 0, TRUE))
                  /\ Shown(Issue("AMOUNT_MISMATCH", source, None, 0, TRUE))
                  /\ Shown(Issue("MISSING_IN_UNITFLOW", source, None, 0, TRUE))
  BY DEF Issue
<1>2. \A source : Shown(Issue("LEDGER_MISSING_IN_TALLY", source, None, None, FALSE))
  BY DEF Issue
<1>3. \A source, name :
        Shown(Issue("LEDGER_FIELD_MISMATCH", source, name, snapshot.ledgers[name].field, snapshot.ledgers[name].owes))
  BY DEF Issue
<1>4. \A name : Shown(Issue("LEDGER_MISSING_IN_UNITFLOW", None, name, snapshot.ledgers[name].field, FALSE))
  BY DEF Issue
<1> HIDE DEF Shown, Field, High
<1>5. \A i \in VoucherIssues(snapshot, sourced) : Shown(i)
  BY <1>1 DEF VoucherIssues
<1>6. \A i \in LedgerIssues(snapshot) : Shown(i)
  BY <1>2, <1>3, <1>4 DEF LedgerIssues
<1>7. \A i, k : Shown(i) /\ Shown(k) /\ i.key = k.key => i = k
  BY DEF Shown
<1> QED
  BY <1>5, <1>6, <1>7 DEF Distinct

------------------------------------------------------------------------------
(* The shape of the state *)

LEMMA GoesTo ==
  ASSUME job = [u \in Worker |-> job[u]], NEW w \in Worker, NEW j, Goes(w, j)
  PROVE  /\ job' = [u \in Worker |-> job'[u]]
         /\ job'[w] = j
         /\ \A o \in Worker \ {w} : job'[o] = job[o]
  BY DEF Goes

LEMMA AgentWorks == "agent" \in Worker
  BY DEF Worker

LEMMA InitShapes == Init => Shapes
<1> SUFFICES ASSUME Init PROVE Shapes
  OBVIOUS
<1>1. job = [w \in Worker |-> job[w]]
  BY DEF Init
<1>2. voucher = [v \in Voucher |-> voucher[v]] /\ \A v \in Voucher : voucher[v].content \in ContentsOf(v)
  BY DEF Init, ContentsOf
<1>3. books = [vouchers |-> books.vouchers, ledgers |-> books.ledgers]
  BY DEF Init
<1>4. books.vouchers \in [Voucher -> Int \cup {None}]
  BY DEF Init
<1>5. \A x \in conflict : DOMAIN x = {"n", "key", "source", "name", "field", "status", "how"}
  BY DEF Init
<1> QED
  BY <1>1, <1>2, <1>3, <1>4, <1>5 DEF Shapes

(* What is booked of vouchers with contents is an amount. *)
LEMMA BookedTyped ==
  ASSUME Shapes, NEW ledgers, NEW vs, \A v \in Voucher : v \in DOMAIN vs => vs[v] \in ContentsOf(v)
  PROVE  /\ Booked(ledgers, vs) = [vouchers |-> Booked(ledgers, vs).vouchers, ledgers |-> Booked(ledgers, vs).ledgers]
         /\ Booked(ledgers, vs).vouchers \in [Voucher -> Int \cup {None}]
         /\ \A v \in Voucher : v \in DOMAIN vs \/ books.vouchers[v] # None => Booked(ledgers, vs).vouchers[v] # None
<1>1. \A c \in Contents : \A kind : Total(kind, c) \in Int
  BY TotalIsInt, TallySets
<1>2. \A v \in Voucher : v \in DOMAIN vs => Total(Kind[v], vs[v]) \in Int
  BY <1>1 DEF ContentsOf
<1>3. \A v \in Voucher : books.vouchers[v] \in Int \cup {None}
  BY DEF Shapes
<1>4. Booked(ledgers, vs).vouchers = [v \in Voucher |-> IF v \in DOMAIN vs THEN Total(Kind[v], vs[v]) ELSE books.vouchers[v]]
  BY DEF Booked
<1>5. Booked(ledgers, vs) = [vouchers |-> Booked(ledgers, vs).vouchers, ledgers |-> Booked(ledgers, vs).ledgers]
  BY DEF Booked
<1>6. None \notin Int
  BY TallySets
<1> QED
  BY <1>2, <1>3, <1>4, <1>5, <1>6

LEMMA PlanOfTyped ==
  ASSUME Shapes
  PROVE  /\ DOMAIN PlannedVouchers \subseteq Voucher
         /\ \A v \in DOMAIN PlannedVouchers : PlannedVouchers[v] \in ContentsOf(v)
<1>1. Planned(Limit) \subseteq Voucher
  BY DEF Planned, Oldest, Wanted
<1> QED
  BY <1>1 DEF PlannedVouchers, Shapes

LEMMA PushBooks ==
  ASSUME PlanTyped, At("agent", "planned"), NEW taken \in SUBSET DOMAIN job["agent"].vouchers
  PROVE  LET vs == Restrict(job["agent"].vouchers, taken)
         IN  DOMAIN vs = taken /\ taken \subseteq Voucher /\ \A v \in taken : vs[v] \in ContentsOf(v)
  BY DEF PlanTyped, Restrict

(* No step changes the kind of anything. *)
LEMMA JobShape ==
  ASSUME Shapes, [Next]_tallyVars
  PROVE  job' = [w \in Worker |-> job'[w]]
<1>1. CASE \E w \in Worker : \E j : Goes(w, j)
  BY <1>1, GoesTo DEF Shapes
<1>2. CASE job' = job
  BY <1>2 DEF Shapes
<1>3. (\E w \in Worker : \E j : Goes(w, j)) \/ job' = job
  <2>1. AgentNext => \E w \in Worker : \E j : Goes(w, j)
    BY AgentWorks DEF AgentNext, TakePlan, Push, Report, Pull
  <2>2. UserNext \/ Outside => job' = job \/ \E w \in Worker : \E j : Goes(w, j)
    BY DEF UserNext, Outside, Upload, Resolve, UpdateSettings, RotateConnectorToken, UpsertLedgerLink, EditClient, EditVoucher, EditBooks, Worker
  <2>3. ASSUME NEW w \in Worker, Compare(w) \/ Search(w) \/ Record(w) \/ Die(w)
        PROVE  \E j : Goes(w, j)
    BY <2>3 DEF Compare, Search, Record, Die
  <2>4. UNCHANGED tallyVars => job' = job
    BY DEF tallyVars
  <2> QED
    BY <2>1, <2>2, <2>3, <2>4 DEF Next
<1> QED
  BY <1>1, <1>2, <1>3

(* Only EditVoucher changes vouchers, and gives them contents. *)
LEMMA VoucherShape ==
  ASSUME Shapes, [Next]_tallyVars
  PROVE  voucher' = [v \in Voucher |-> voucher'[v]] /\ \A v \in Voucher : voucher'[v].content \in ContentsOf(v)
<1>1. CASE voucher' = voucher
  BY <1>1 DEF Shapes
<1>2. ASSUME NEW v \in Voucher, NEW active \in BOOLEAN, NEW content \in Contents, EditVoucher(v, active, content)
      PROVE  voucher' = [x \in Voucher |-> voucher'[x]] /\ \A x \in Voucher : voucher'[x].content \in ContentsOf(x)
  <2>1. voucher' = [voucher EXCEPT ![v] = [changed |-> ops', active |-> active, content |-> content]]
    BY <1>2 DEF EditVoucher
  <2>2. content \in ContentsOf(v)
    BY <1>2 DEF EditVoucher, ContentsOf
  <2> QED
    BY <2>1, <2>2 DEF Shapes
<1>3. voucher' = voucher \/ \E v \in Voucher, active \in BOOLEAN, content \in Contents : EditVoucher(v, active, content)
  <2>1. AgentNext => voucher' = voucher
    BY DEF AgentNext, TakePlan, Push, Report, Pull, core
  <2>2. UserNext => voucher' = voucher
    BY DEF UserNext, Upload, Resolve, UpdateSettings, RotateConnectorToken, UpsertLedgerLink, core
  <2>3. Outside => voucher' = voucher \/ \E v \in Voucher, active \in BOOLEAN, content \in Contents : EditVoucher(v, active, content)
    BY DEF Outside, EditClient, EditBooks, core
  <2>4. \A w \in Worker : Compare(w) \/ Search(w) \/ Record(w) \/ Die(w) => voucher' = voucher
    BY DEF Compare, Search, Record, Die, core
  <2>5. UNCHANGED tallyVars => voucher' = voucher
    BY DEF tallyVars
  <2> QED
    BY <2>1, <2>2, <2>3, <2>4, <2>5 DEF Next
<1> QED
  BY <1>1, <1>2, <1>3

(* The connector books vouchers in Tally, and Tally's users edit ledgers;  *)
(* nobody takes a voucher out of Tally.                                    *)
Grows(b) ==
  /\ b = [vouchers |-> b.vouchers, ledgers |-> b.ledgers]
  /\ b.vouchers \in [Voucher -> Int \cup {None}]
  /\ \A v \in Voucher : books.vouchers[v] # None => b.vouchers[v] # None

LEMMA BooksGrow ==
  ASSUME Shapes, PlanTyped, [Next]_tallyVars
  PROVE  Grows(books')
<1>1. CASE books' = books
  BY <1>1 DEF Shapes, Grows
<1>2. ASSUME NEW n \in Name, NEW ledger, EditBooks(n, ledger)
      PROVE  Grows(books')
  <2>1. books' = [books EXCEPT !.ledgers[n] = ledger]
    BY <1>2 DEF EditBooks
  <2>2. books' = [vouchers |-> books'.vouchers, ledgers |-> books'.ledgers] /\ books'.vouchers = books.vouchers
    BY <2>1 DEF Shapes
  <2> QED
    BY <2>2 DEF Grows, Shapes
<1>3. ASSUME At("agent", "planned"), NEW taken \in SUBSET DOMAIN job["agent"].vouchers, NEW dies, Push(taken, dies)
      PROVE  Grows(books')
  <2>1. books' = Booked(job["agent"].ledgers, Restrict(job["agent"].vouchers, taken))
    BY <1>3 DEF Push
  <2>2. \A v \in Voucher : v \in DOMAIN Restrict(job["agent"].vouchers, taken) => Restrict(job["agent"].vouchers, taken)[v] \in ContentsOf(v)
    BY <1>3, PushBooks
  <2> QED
    BY <2>1, <2>2, BookedTyped DEF Grows
<1>4. \/ books' = books
      \/ \E n \in Name, ledger \in [field : Fields, owes : BOOLEAN] : EditBooks(n, ledger)
      \/ At("agent", "planned") /\ \E taken \in SUBSET DOMAIN job["agent"].vouchers, dies \in BOOLEAN : Push(taken, dies)
  <2>1. TakePlan \/ Report \/ Pull => books' = books
    BY DEF TakePlan, Report, Pull
  <2>2. UserNext => books' = books
    BY DEF UserNext, Upload, Resolve, UpdateSettings, RotateConnectorToken, UpsertLedgerLink
  <2>3. Outside => books' = books \/ \E n \in Name, ledger \in [field : Fields, owes : BOOLEAN] : EditBooks(n, ledger)
    BY DEF Outside, EditClient, EditVoucher
  <2>4. \A w \in Worker : Compare(w) \/ Search(w) \/ Record(w) \/ Die(w) => books' = books
    BY DEF Compare, Search, Record, Die
  <2>5. UNCHANGED tallyVars => books' = books
    BY DEF tallyVars
  <2> QED
    BY <2>1, <2>2, <2>3, <2>4, <2>5 DEF Next, AgentNext
<1> QED
  BY <1>1, <1>2, <1>3, <1>4

(* What a run records: `mine`, the conflicts it found, renewed, and a row  *)
(* for each new issue; all but these stay, and some of these it closes.    *)
NewIssue(w, i) == i \in job[w].issues /\ \A f \in job[w].found : f[1] # i.key

Renewed(w, y) == [y EXCEPT !.field = (CHOOSE i \in job[w].issues : i.key = y.key).field]

RowFor(w, i) ==
  [n |-> ops + (IF w = "agent" THEN 0 ELSE MaxOps), key |-> i.key, source |-> i.source, name |-> i.name,
   field |-> i.field, status |-> "OPEN", how |-> "none"]

ClosedAsApplied(x) == [x EXCEPT !.status = "RESOLVED", !.how = "AUTO_APPLIED_TALLY_WINS"]

RecordsAs(w, mine) ==
  /\ \A x \in mine :
       \/ \E y \in conflict : <<y.key, y.n>> \in job[w].found /\ x = Renewed(w, y)
       \/ \E i : NewIssue(w, i) /\ x = RowFor(w, i)
  /\ \A x \in conflict' :
       \/ x \in conflict /\ <<x.key, x.n>> \notin job[w].found
       \/ x \in mine
       \/ \E y \in mine : x = ClosedAsApplied(y)

LEMMA RecordsSome ==
  ASSUME NEW w, Record(w)
  PROVE  \E mine : RecordsAs(w, mine)
<1> DEFINE j == job[w]
           new == {i \in j.issues : \A f \in j.found : f[1] # i.key}
           mine == {Renewed(w, x) : x \in {y \in conflict : <<y.key, y.n>> \in j.found}} \cup {RowFor(w, i) : i \in new}
           others == {x \in conflict : <<x.key, x.n>> \notin j.found}
<1>1. \/ conflict' = others \cup {IF IsLedger(x) THEN ClosedAsApplied(x) ELSE x : x \in mine}
      \/ conflict' = others \cup mine
  BY DEF Record, Renewed, RowFor, ClosedAsApplied
<1>2. \A x \in mine :
        \/ \E y \in conflict : <<y.key, y.n>> \in j.found /\ x = Renewed(w, y)
        \/ \E i : NewIssue(w, i) /\ x = RowFor(w, i)
  BY DEF NewIssue
<1>3. \A x \in others : x \in conflict /\ <<x.key, x.n>> \notin j.found
  OBVIOUS
<1> HIDE DEF mine, others
<1>4. \A x \in conflict' : x \in others \/ x \in mine \/ \E y \in mine : x = ClosedAsApplied(y)
  BY <1>1
<1> QED
  BY <1>2, <1>3, <1>4 DEF RecordsAs

(* A conflict *)
Row(x) == DOMAIN x = {"n", "key", "source", "name", "field", "status", "how"}

LEMMA RecordedRows ==
  ASSUME Shapes, NEW w, NEW mine, RecordsAs(w, mine), NEW x \in mine
  PROVE  Row(x)
<1>1. \A y \in conflict : Row(y)
  BY DEF Shapes, Row
<1>2. \A y : Row(y) => Row(Renewed(w, y))
  BY DEF Row, Renewed
<1>3. \A i : Row(RowFor(w, i))
  BY DEF Row, RowFor
<1> QED
  BY <1>1, <1>2, <1>3 DEF RecordsAs

LEMMA ConflictShape ==
  ASSUME Shapes, [Next]_tallyVars
  PROVE  \A x \in conflict' : Row(x)
<1>0. \A x \in conflict : Row(x)
  BY DEF Shapes, Row
<1>1. CASE conflict' = conflict
  BY <1>0, <1>1
<1>2. ASSUME NEW x \in conflict, NEW how, Resolve(x, how)
      PROVE  \A y \in conflict' : Row(y)
  <2>1. conflict' = (conflict \ {x}) \cup {[x EXCEPT !.status = IF how = "IGNORED" THEN how ELSE "RESOLVED", !.how = how]}
    BY <1>2 DEF Resolve
  <2> QED
    BY <1>0, <2>1 DEF Row
<1>3. ASSUME NEW w \in Worker, Record(w)
      PROVE  \A y \in conflict' : Row(y)
  <2>1. PICK mine : RecordsAs(w, mine)
    BY <1>3, RecordsSome
  <2>2. \A x \in mine : Row(x)
    BY <2>1, RecordedRows
  <2>3. \A x : Row(x) => Row(ClosedAsApplied(x))
    BY DEF Row, ClosedAsApplied
  <2> QED
    BY <1>0, <2>1, <2>2, <2>3 DEF RecordsAs
<1>4. conflict' = conflict \/ (\E x \in conflict : \E how : Resolve(x, how)) \/ \E w \in Worker : Record(w)
  <2>1. AgentNext => conflict' = conflict
    BY DEF AgentNext, TakePlan, Push, Report, Pull, core
  <2>2. UserNext => conflict' = conflict \/ \E x \in conflict : \E how : Resolve(x, how)
    BY DEF UserNext, Upload, UpdateSettings, RotateConnectorToken, UpsertLedgerLink, core
  <2>3. Outside => conflict' = conflict
    BY DEF Outside, EditClient, EditVoucher, EditBooks, core
  <2>4. \A w \in Worker : Compare(w) \/ Search(w) \/ Die(w) => conflict' = conflict
    BY DEF Compare, Search, Die, core
  <2>5. UNCHANGED tallyVars => conflict' = conflict
    BY DEF tallyVars
  <2> QED
    BY <2>1, <2>2, <2>3, <2>4, <2>5 DEF Next
<1> QED
  BY <1>1, <1>2, <1>3, <1>4

LEMMA NextShapes == Shapes /\ PlanTyped /\ [Next]_tallyVars => Shapes'
  BY JobShape, VoucherShape, BooksGrow, ConflictShape DEF Shapes, Grows, Row

------------------------------------------------------------------------------
(* What Tally holds *)

LEMMA InitBooks == Init => BooksInv
<1> SUFFICES ASSUME Init PROVE BooksInv
  OBVIOUS
<1>1. job["agent"] = Idle /\ voucherLink = [v \in Voucher |-> "none"]
  BY AgentWorks DEF Init
<1> QED
  BY <1>1 DEF BooksInv, PlanTyped, PushedIsThere, SyncedIsThere, At, Idle

(* A step that takes no plan, pushes and reports nothing. *)
LEMMA BooksKept ==
  ASSUME BooksInv, Grows(books'), voucherLink' = voucherLink,
         job'["agent"] = job["agent"] \/ job'["agent"].step \notin {"planned", "pushed"}
  PROVE  BooksInv'
<1>1. PlanTyped'
  BY DEF BooksInv, PlanTyped, At
<1>2. PushedIsThere'
  BY DEF BooksInv, PushedIsThere, At, Grows
<1>3. SyncedIsThere'
  BY DEF BooksInv, SyncedIsThere, Grows
<1> QED
  BY <1>1, <1>2, <1>3 DEF BooksInv

LEMMA NextBooks ==
  ASSUME Shapes, BooksInv, [Next]_tallyVars
  PROVE  BooksInv'
<1>1. Grows(books')
  BY BooksGrow DEF BooksInv
<1>j. job = [u \in Worker |-> job[u]]
  BY DEF Shapes
<1>2. CASE TakePlan
  <2>1. job'["agent"] = [step |-> "planned", token |-> integration.token, ledgers |-> PlannedLedgers,
                         vouchers |-> PlannedVouchers]
    BY <1>2, <1>j, AgentWorks, GoesTo DEF TakePlan
  <2>2. PlanTyped'
    BY <2>1, PlanOfTyped DEF PlanTyped
  <2>3. PushedIsThere'
    BY <2>1 DEF PushedIsThere, At
  <2>4. voucherLink' = voucherLink
    BY <1>2 DEF TakePlan
  <2>5. SyncedIsThere'
    BY <1>1, <2>4 DEF BooksInv, SyncedIsThere, Grows
  <2> QED
    BY <2>2, <2>3, <2>5 DEF BooksInv
<1>3. ASSUME At("agent", "planned"), NEW taken \in SUBSET DOMAIN job["agent"].vouchers, NEW dies \in BOOLEAN, Push(taken, dies)
      PROVE  BooksInv'
  <2> DEFINE j == job["agent"]
             pushed == [step |-> "pushed", token |-> j.token, ledgers |-> j.ledgers,
                        results |-> [v \in DOMAIN j.vouchers |-> Verdict(v, taken)]]
  <2>1. voucherLink' = voucherLink
    BY <1>3 DEF Push, core
  <2>2. Goes("agent", IF dies THEN Idle ELSE pushed)
    BY <1>3 DEF Push
  <2>3. job'["agent"] = IF dies THEN Idle ELSE pushed
    BY <1>j, <2>2, AgentWorks, GoesTo
  <2>4. CASE dies
    BY <1>1, <2>1, <2>3, <2>4, BooksKept DEF Idle
  <2>5. CASE ~dies
    <3>1. job'["agent"] = pushed
      BY <2>3, <2>5
    <3>2. PlanTyped'
      BY <3>1 DEF PlanTyped, At
    <3>3. SyncedIsThere'
      BY <1>1, <2>1 DEF BooksInv, SyncedIsThere, Grows
    <3>4. \A v \in taken : v \in Voucher /\ books'.vouchers[v] # None
      <4> DEFINE vs == Restrict(j.vouchers, taken)
      <4>1. DOMAIN vs = taken /\ taken \subseteq Voucher /\ \A v \in taken : vs[v] \in ContentsOf(v)
        BY <1>3, PushBooks DEF BooksInv
      <4>2. books' = Booked(j.ledgers, vs)
        BY <1>3 DEF Push
      <4> HIDE DEF vs
      <4> QED
        BY <4>1, <4>2, BookedTyped
    <3>5. PushedIsThere'
      BY <1>3, <3>1, <3>4 DEF PushedIsThere, Verdict, BooksInv, PlanTyped
    <3> QED
      BY <3>2, <3>3, <3>5 DEF BooksInv
  <2> QED
    BY <2>4, <2>5
<1>4. CASE Report
  <2>1. \/ job'["agent"] = Idle
        \/ job'["agent"] = [step |-> "reported", token |-> job["agent"].token]
    BY <1>4, <1>j, AgentWorks, GoesTo DEF Report
  <2>2. \/ voucherLink' = voucherLink
        \/ voucherLink' = [v \in Voucher |-> IF v \in DOMAIN job["agent"].results THEN job["agent"].results[v] ELSE voucherLink[v]]
    BY <1>4 DEF Report
  <2>3. At("agent", "pushed")
    BY <1>4 DEF Report
  <2>4. SyncedIsThere'
    BY <1>1, <2>2, <2>3 DEF BooksInv, PushedIsThere, SyncedIsThere, Grows
  <2>5. PlanTyped' /\ PushedIsThere'
    BY <2>1 DEF PlanTyped, PushedIsThere, At, Idle
  <2> QED
    BY <2>4, <2>5 DEF BooksInv
<1>5. CASE Pull
  <2>1. job'["agent"].step = "pulled"
    BY <1>5, <1>j, AgentWorks, GoesTo DEF Pull
  <2>2. voucherLink' = voucherLink
    BY <1>5 DEF Pull, core
  <2> QED
    BY <1>1, <2>1, <2>2, BooksKept
<1>6. CASE UserNext \/ Outside \/ UNCHANGED tallyVars
  <2>1. voucherLink' = voucherLink
    BY <1>6 DEF UserNext, Outside, tallyVars, Upload, Resolve, UpdateSettings, RotateConnectorToken, UpsertLedgerLink,
                EditClient, EditVoucher, EditBooks, core
  <2>2. job' = job \/ \E s \in BOOLEAN : Upload(s)
    BY <1>6 DEF UserNext, Outside, tallyVars, Resolve, UpdateSettings, RotateConnectorToken, UpsertLedgerLink,
                EditClient, EditVoucher, EditBooks
  <2>3. job'["agent"] = job["agent"]
    BY <1>j, <2>2, GoesTo DEF Upload, Worker
  <2> QED
    BY <1>1, <2>1, <2>3, BooksKept
<1>7. ASSUME NEW w \in Worker, Compare(w) \/ Search(w) \/ Record(w) \/ Die(w)
      PROVE  BooksInv'
  <2>1. voucherLink' = voucherLink
    BY <1>7 DEF Compare, Search, Record, Die, core
  <2>2. \E j : Goes(w, j) /\ j.step \notin {"planned", "pushed"}
    <3>1. CASE Compare(w)
      BY <3>1 DEF Compare, Idle
    <3>2. CASE Search(w)
      BY <3>2 DEF Search
    <3>3. Record(w) \/ Die(w) => Goes(w, Idle)
      BY DEF Record, Die
    <3>4. CASE Record(w) \/ Die(w)
      BY <3>3, <3>4 DEF Idle
    <3> QED
      BY <1>7, <3>1, <3>2, <3>4
  <2>3. job'["agent"] = job["agent"] \/ job'["agent"].step \notin {"planned", "pushed"}
    BY <1>j, <2>2, AgentWorks, GoesTo
  <2> QED
    BY <1>1, <2>1, <2>3, BooksKept
<1> QED
  BY <1>2, <1>3, <1>4, <1>5, <1>6, <1>7 DEF Next, AgentNext

------------------------------------------------------------------------------
(* Conflicts *)

LEMMA InitConflicts == Init => ConflictInv
<1> SUFFICES ASSUME Init PROVE ConflictInv
  OBVIOUS
<1>1. job = [w \in Worker |-> Idle] /\ conflict = {}
  BY DEF Init
<1>2. IssuesDistinct
  BY <1>1 DEF IssuesDistinct, Idle
<1>3. SearchedKnows
  BY <1>1 DEF SearchedKnows, At, Idle
<1>4. OneOpenPerIssue
  BY <1>1 DEF OneOpenPerIssue, Open
<1> QED
  BY <1>2, <1>3, <1>4 DEF ConflictInv

(* A step that opens no conflict and compares and searches nothing. *)
Closing ==
  /\ Open' \subseteq Open
  /\ overlapped' = overlapped
  /\ \A w \in Worker : job'[w] = job[w] \/ job'[w].step \notin {"compared", "searched"}

LEMMA ConflictsKept ==
  ASSUME ConflictInv, Closing
  PROVE  ConflictInv'
<1>1. IssuesDistinct'
  BY DEF ConflictInv, IssuesDistinct, Closing
<1>2. SearchedKnows'
  BY DEF ConflictInv, SearchedKnows, Closing, At
<1>3. OneOpenPerIssue'
  BY DEF ConflictInv, OneOpenPerIssue, Closing
<1> QED
  BY <1>1, <1>2, <1>3 DEF ConflictInv

LEMMA CompareConflicts ==
  ASSUME Shapes, ConflictInv, NEW w \in Worker, Compare(w)
  PROVE  ConflictInv'
<1>1. Open' = Open /\ overlapped' = overlapped
  BY DEF Compare, core, Open
<1>2. \/ job'[w] = Idle
      \/ job'[w].step = "compared" /\ Distinct(job'[w].issues)
  <2>1. CASE w = "agent" => Authorized
    <3> DEFINE found == VoucherIssues(job[w].snapshot, job[w].sourced) \cup LedgerIssues(job[w].snapshot)
               compared == [step |-> "compared", wins |-> integration.import /\ integration.strategy = "TALLY_WINS",
                            issues |-> found]
    <3>1. Goes(w, compared)
      BY <2>1 DEF Compare
    <3>2. Distinct(found)
      BY IssuesOfSnapshot
    <3>3. job'[w] = compared
      BY <3>1, GoesTo DEF Shapes
    <3> HIDE DEF found
    <3> QED
      BY <3>2, <3>3
  <2>2. CASE ~(w = "agent" => Authorized)
    BY <2>2, GoesTo DEF Compare, Shapes
  <2> QED
    BY <2>1, <2>2
<1>3. \A o \in Worker \ {w} : job'[o] = job[o]
  BY GoesTo DEF Compare, Shapes
<1>4. IssuesDistinct'
  BY <1>2, <1>3 DEF IssuesDistinct, ConflictInv, Idle
<1>5. SearchedKnows'
  BY <1>1, <1>2, <1>3 DEF SearchedKnows, ConflictInv, At, Idle
<1>6. OneOpenPerIssue'
  BY <1>1 DEF OneOpenPerIssue, ConflictInv
<1> QED
  BY <1>4, <1>5, <1>6 DEF ConflictInv

LEMMA SearchConflicts ==
  ASSUME Shapes, ConflictInv, NEW w \in Worker, Search(w)
  PROVE  ConflictInv'
<1> DEFINE j == job[w]
<1>1. Open' = Open /\ overlapped' = overlapped /\ At(w, "compared")
  BY DEF Search, core, Open
<1>2. PICK found \in Found(j.issues) :
        Goes(w, [step |-> "searched", wins |-> j.wins, issues |-> j.issues, found |-> {<<x.key, x.n>> : x \in found}])
  BY DEF Search
<1>3. /\ job'[w] = [step |-> "searched", wins |-> j.wins, issues |-> j.issues, found |-> {<<x.key, x.n>> : x \in found}]
      /\ \A o \in Worker \ {w} : job'[o] = job[o]
  BY <1>2, GoesTo DEF Shapes
<1>4. ASSUME NEW x \in Open, NEW i \in j.issues, x.key = i.key
      PROVE  \E f \in job'[w].found : f[1] = i.key
  <2>1. Cardinality({y \in found : y.key = x.key}) = 1
    BY <1>2, <1>4 DEF Found
  <2>2. {y \in found : y.key = x.key} # {}
    BY <2>1, FS_EmptySet
  <2>3. PICK y \in found : y.key = x.key
    BY <2>2
  <2>4. <<y.key, y.n>> \in job'[w].found /\ <<y.key, y.n>>[1] = i.key
    BY <1>3, <1>4, <2>3
  <2> QED
    BY <2>4
<1>5. IssuesDistinct'
  BY <1>1, <1>3 DEF IssuesDistinct, ConflictInv, At
<1>6. SearchedKnows'
  <2> SUFFICES ASSUME NEW o \in Worker, job'[o].step = "searched",
                      NEW i \in job'[o].issues, \A f \in job'[o].found : f[1] # i.key,
                      NEW x \in Open, x.key = i.key
               PROVE  i.key \in overlapped
    BY <1>1 DEF SearchedKnows, At
  <2>1. CASE o = w
    BY <1>3, <1>4, <2>1
  <2>2. CASE o # w
    BY <1>3, <2>2 DEF SearchedKnows, ConflictInv, At
  <2> QED
    BY <2>1, <2>2
<1>7. OneOpenPerIssue'
  BY <1>1 DEF OneOpenPerIssue, ConflictInv
<1> QED
  BY <1>5, <1>6, <1>7 DEF ConflictInv

(* An open conflict after a run was recorded is an old one that the run    *)
(* did not find, one that it found, renewed, or a row for a new issue.     *)
Kept(w, x) == x \in Open /\ <<x.key, x.n>> \notin job[w].found
RenewedFrom(w, x, y) == y \in Open /\ <<y.key, y.n>> \in job[w].found /\ x = Renewed(w, y) /\ x.key = y.key
NewRow(w, x, i) == NewIssue(w, i) /\ x = RowFor(w, i) /\ x.key = i.key

LEMMA OpenAfterRecord ==
  ASSUME Shapes, NEW w \in Worker, Record(w), NEW x \in Open'
  PROVE  Kept(w, x) \/ (\E y : RenewedFrom(w, x, y)) \/ (\E i : NewRow(w, x, i))
<1>1. PICK mine : RecordsAs(w, mine)
  BY RecordsSome
<1>2. (\A y \in conflict : Row(y)) /\ (\A y \in mine : Row(y))
  BY <1>1, RecordedRows DEF Shapes, Row
<1>3. x \in conflict' /\ x.status = "OPEN"
  BY DEF Open
<1>4. \A y \in conflict : x = Renewed(w, y) => x.status = y.status /\ x.key = y.key
  BY <1>2 DEF Renewed, Row
<1>5. \A i : x = RowFor(w, i) => x.key = i.key
  BY DEF RowFor
<1>6. \A y \in mine : ClosedAsApplied(y).status = "RESOLVED"
  BY <1>2 DEF ClosedAsApplied, Row
<1>7. ~\E y \in mine : x = ClosedAsApplied(y)
  BY <1>3, <1>6
<1>8. CASE x \in conflict /\ <<x.key, x.n>> \notin job[w].found
  BY <1>3, <1>8 DEF Kept, Open
<1>9. CASE x \in mine
  BY <1>1, <1>3, <1>4, <1>5, <1>9 DEF RecordsAs, RenewedFrom, NewRow, Open
<1> QED
  BY <1>1, <1>3, <1>7, <1>8, <1>9 DEF RecordsAs

LEMMA RecordConflicts ==
  ASSUME Shapes, ConflictInv, NEW w \in Worker, Record(w)
  PROVE  ConflictInv'
<1>1. At(w, "searched") /\ Goes(w, Idle)
  BY DEF Record
<1>2. job'[w] = Idle /\ \A o \in Worker \ {w} : job'[o] = job[o]
  BY <1>1, GoesTo DEF Shapes
<1>3. overlapped' = overlapped \cup
        {i.key : i \in {x \in {i \in job[w].issues : \A f \in job[w].found : f[1] # i.key} :
                          \E o \in Worker \ {w} : At(o, "searched") /\ \E y \in job[o].issues : y.key = x.key}}
  BY DEF Record
<1>4. overlapped \subseteq overlapped'
  BY <1>3
<1>5. \A i, o : NewIssue(w, i) /\ o \in Worker \ {w} /\ At(o, "searched") /\ (\E y \in job[o].issues : y.key = i.key)
                 => i.key \in overlapped'
  BY <1>3 DEF NewIssue
<1>6. \A i, k : NewIssue(w, i) /\ NewIssue(w, k) /\ i.key = k.key => i = k
  BY <1>1 DEF NewIssue, ConflictInv, IssuesDistinct, Distinct, At
<1>7. \A i, x : NewIssue(w, i) /\ x \in Open /\ x.key = i.key => i.key \in overlapped
  BY <1>1 DEF NewIssue, ConflictInv, SearchedKnows
<1>8. \A x, y \in Open : x.key = y.key => x = y \/ x.key \in overlapped
  BY DEF ConflictInv, OneOpenPerIssue
<1>9. \A x \in Open' : Kept(w, x) \/ (\E y : RenewedFrom(w, x, y)) \/ (\E i : NewRow(w, x, i))
  BY OpenAfterRecord
<1>a. IssuesDistinct'
  BY <1>2 DEF IssuesDistinct, ConflictInv, Idle
<1>b. SearchedKnows'
  <2> SUFFICES ASSUME NEW o \in Worker, job'[o].step = "searched",
                      NEW i \in job'[o].issues, \A f \in job'[o].found : f[1] # i.key,
                      NEW x \in Open', x.key = i.key
               PROVE  i.key \in overlapped'
    BY DEF SearchedKnows, At
  <2>1. o \in Worker \ {w} /\ job'[o] = job[o]
    BY <1>2 DEF Idle
  <2>2. At(o, "searched") /\ NewIssue(o, i)
    BY <2>1 DEF At, NewIssue
  <2>3. \A y \in Open : y.key = i.key => i.key \in overlapped
    BY <2>1, <2>2 DEF ConflictInv, SearchedKnows, NewIssue
  <2>4. ASSUME NEW k, NewRow(w, x, k) PROVE i.key \in overlapped'
    BY <1>5, <2>1, <2>2, <2>4 DEF NewRow, NewIssue
  <2> QED
    BY <1>4, <1>9, <2>3, <2>4 DEF Kept, RenewedFrom
<1>c. OneOpenPerIssue'
  <2> SUFFICES ASSUME NEW x \in Open', NEW y \in Open', x.key = y.key, x # y PROVE x.key \in overlapped'
    BY DEF OneOpenPerIssue
  <2>1. CASE Kept(w, x) /\ Kept(w, y)
    BY <1>4, <1>8, <2>1 DEF Kept
  <2>2. ASSUME NEW z, RenewedFrom(w, y, z), Kept(w, x) PROVE x.key \in overlapped'
    BY <1>4, <1>8, <2>2 DEF Kept, RenewedFrom
  <2>3. ASSUME NEW z, RenewedFrom(w, x, z), Kept(w, y) PROVE x.key \in overlapped'
    BY <1>4, <1>8, <2>3 DEF Kept, RenewedFrom
  <2>4. ASSUME NEW z, RenewedFrom(w, x, z), NEW u, RenewedFrom(w, y, u) PROVE x.key \in overlapped'
    BY <1>4, <1>8, <2>4 DEF RenewedFrom
  <2>5. ASSUME NEW i, NewRow(w, x, i), Kept(w, y) \/ \E u : RenewedFrom(w, y, u) PROVE x.key \in overlapped'
    BY <1>4, <1>7, <2>5 DEF NewRow, Kept, RenewedFrom
  <2>6. ASSUME NEW i, NewRow(w, y, i), Kept(w, x) \/ \E u : RenewedFrom(w, x, u) PROVE x.key \in overlapped'
    BY <1>4, <1>7, <2>6 DEF NewRow, Kept, RenewedFrom
  <2>7. ASSUME NEW i, NewRow(w, x, i), NEW k, NewRow(w, y, k) PROVE x.key \in overlapped'
    BY <1>6, <2>7 DEF NewRow
  <2> QED
    BY <1>9, <2>1, <2>2, <2>3, <2>4, <2>5, <2>6, <2>7
<1> QED
  BY <1>a, <1>b, <1>c DEF ConflictInv

LEMMA ResolveCloses ==
  ASSUME Shapes, NEW x \in conflict, NEW how, Resolve(x, how)
  PROVE  Closing
<1>1. /\ conflict' = (conflict \ {x}) \cup {[x EXCEPT !.status = IF how = "IGNORED" THEN how ELSE "RESOLVED", !.how = how]}
      /\ job' = job /\ overlapped' = overlapped
  BY DEF Resolve
<1>2. [x EXCEPT !.status = IF how = "IGNORED" THEN how ELSE "RESOLVED", !.how = how].status \in {"IGNORED", "RESOLVED"}
  BY DEF Shapes
<1>3. Open' \subseteq Open
  BY <1>1, <1>2 DEF Open
<1> QED
  BY <1>1, <1>3 DEF Closing

LEMMA NextConflicts ==
  ASSUME Shapes, ConflictInv, [Next]_tallyVars
  PROVE  ConflictInv'
<1>1. CASE \E w \in Worker : Compare(w) \/ Search(w) \/ Record(w)
  BY <1>1, CompareConflicts, SearchConflicts, RecordConflicts
<1>2. CASE \E x \in conflict : \E how : Resolve(x, how)
  BY <1>2, ResolveCloses, ConflictsKept
<1>3. ASSUME UNCHANGED <<conflict, overlapped>>,
             job' = job \/ \E w \in Worker : \E j : Goes(w, j) /\ j.step \notin {"compared", "searched"}
      PROVE  ConflictInv'
  <2>1. \A w \in Worker : job'[w] = job[w] \/ job'[w].step \notin {"compared", "searched"}
    BY <1>3, GoesTo DEF Shapes
  <2> QED
    BY <1>3, <2>1, ConflictsKept DEF Closing, Open
<1>4. CASE AgentNext
  <2>1. UNCHANGED <<conflict, overlapped>>
    BY <1>4 DEF AgentNext, TakePlan, Push, Report, Pull, core
  <2>2. \E j : Goes("agent", j) /\ j.step \notin {"compared", "searched"}
    <3>1. TakePlan => \E j : Goes("agent", j) /\ j.step \notin {"compared", "searched"}
      BY DEF TakePlan
    <3>2. Report => \E j : Goes("agent", j) /\ j.step \notin {"compared", "searched"}
      BY DEF Report, Idle
    <3>3. Pull => \E j : Goes("agent", j) /\ j.step \notin {"compared", "searched"}
      BY DEF Pull
    <3>4. \A taken, dies : Push(taken, dies) => \E j : Goes("agent", j) /\ j.step \notin {"compared", "searched"}
      BY DEF Push, Idle
    <3> QED
      BY <1>4, <3>1, <3>2, <3>3, <3>4 DEF AgentNext
  <2> QED
    BY <1>3, <2>1, <2>2, AgentWorks
<1>5. ASSUME UserNext \/ Outside \/ UNCHANGED tallyVars, ~\E x \in conflict : \E how : Resolve(x, how)
      PROVE  ConflictInv'
  <2>1. UNCHANGED <<conflict, overlapped>>
    BY <1>5 DEF UserNext, Outside, tallyVars, Upload, UpdateSettings, RotateConnectorToken, UpsertLedgerLink,
                EditClient, EditVoucher, EditBooks, core
  <2>2. job' = job \/ \E s \in BOOLEAN : Upload(s)
    BY <1>5 DEF UserNext, Outside, tallyVars, UpdateSettings, RotateConnectorToken, UpsertLedgerLink,
                EditClient, EditVoucher, EditBooks
  <2>3. \A s : Upload(s) => \E j : Goes("user", j) /\ j.step \notin {"compared", "searched"}
    BY DEF Upload
  <2> QED
    BY <1>3, <2>1, <2>2, <2>3 DEF Worker
<1>6. ASSUME NEW w \in Worker, Die(w)
      PROVE  ConflictInv'
  <2>1. UNCHANGED <<conflict, overlapped>> /\ Goes(w, Idle)
    BY <1>6 DEF Die, core
  <2>2. Idle.step \notin {"compared", "searched"}
    BY DEF Idle
  <2> QED
    BY <1>3, <2>1, <2>2
<1> QED
  BY <1>1, <1>2, <1>4, <1>5, <1>6 DEF Next

------------------------------------------------------------------------------
(* What a run gives to clients: Taking, a fold, is a recursive function on *)
(* the subsets of the issues.                                              *)

Takes(base, S, t) ==
  t = [s \in SUBSET S |-> IF s = {} THEN base ELSE Take(Picked(s), t[s \ {Picked(s)}])]
TakenBy(base, S) == CHOOSE t : Takes(base, S, t)
NothingTaken == [clients |-> client, applied |-> {}]

LEMMA TakingIsTaken ==
  ASSUME NEW S
  PROVE  Taking(S) = TakenBy(NothingTaken, S)[S]
BY DEF Taking, FoldSet, MapThenFoldSet, TakenBy, Takes, Picked, NothingTaken

TakesNext(base, t, s) == t[s] = IF s = {} THEN base ELSE Take(Picked(s), t[s \ {Picked(s)}])

LEMMA TakesEach ==
  ASSUME NEW base, NEW S, NEW t, Takes(base, S, t), NEW s \in SUBSET S
  PROVE  TakesNext(base, t, s)
<1> DEFINE e(x) == IF x = {} THEN base ELSE Take(Picked(x), t[x \ {Picked(x)}])
<1>1. t = [x \in SUBSET S |-> e(x)]
  BY DEF Takes
<1> HIDE DEF e
<1>2. t[s] = e(s)
  BY <1>1
<1> QED
  BY <1>2 DEF e, TakesNext

LEMMA TakesAgree ==
  ASSUME NEW base, NEW S, NEW T \in SUBSET S, IsFiniteSet(T), NEW t, NEW u, Takes(base, S, t), Takes(base, T, u)
  PROVE  t[T] = u[T]
<1>0. \A U \in SUBSET T : TakesNext(base, t, U) /\ TakesNext(base, u, U)
  <2>1. \A U \in SUBSET T : TakesNext(base, u, U)
    BY TakesEach
  <2>2. \A U \in SUBSET T : TakesNext(base, t, U)
    BY TakesEach
  <2> QED
    BY <2>1, <2>2
<1> DEFINE G == {U \in SUBSET T : t[U] = u[U]}
<1>1. ASSUME NEW U \in SUBSET T, \A V \in SUBSET U : V # U => V \in G
      PROVE  U \in G
  <2>1. CASE U = {}
    BY <1>0, <2>1 DEF TakesNext
  <2>2. CASE U # {}
    <3>1. Picked(U) \in U
      BY <2>2, PickedIsIn
    <3>2. t[U \ {Picked(U)}] = u[U \ {Picked(U)}]
      BY <1>1, <3>1
    <3>3. t[U] = Take(Picked(U), t[U \ {Picked(U)}])
      BY <1>0, <2>2 DEF TakesNext
    <3>4. u[U] = Take(Picked(U), u[U \ {Picked(U)}])
      BY <1>0, <2>2 DEF TakesNext
    <3> QED
      BY <3>2, <3>3, <3>4
  <2> QED
    BY <2>1, <2>2
<1> HIDE DEF G
<1>2. T \in G
  BY <1>1, SetInduction
<1> QED
  BY <1>2 DEF G

(* There is such a function for every finite set of issues. *)
LEMMA TakesExists ==
  ASSUME NEW base, NEW S, IsFiniteSet(S)
  PROVE  Takes(base, S, TakenBy(base, S))
<1> DEFINE G == {T \in SUBSET S : Takes(base, T, TakenBy(base, T))}
<1>1. ASSUME NEW T \in SUBSET S, \A U \in SUBSET T : U # T => U \in G
      PROVE  T \in G
  <2> DEFINE last(s) == TakenBy(base, s)[s]
             e(s) == IF s = {} THEN base ELSE Take(Picked(s), last(s \ {Picked(s)}))
             t == [s \in SUBSET T |-> e(s)]
  <2>1. ASSUME NEW U \in SUBSET T, U # T
        PROVE  last(U) = e(U)
    <3>1. Takes(base, U, TakenBy(base, U))
      BY <1>1, <2>1
    <3>2. CASE U = {}
      <4>1. TakesNext(base, TakenBy(base, U), U)
        BY <3>1, TakesEach
      <4> QED
        BY <3>2, <4>1 DEF TakesNext
    <3>3. CASE U # {}
      <4> DEFINE V == U \ {Picked(U)}
      <4>1. V \in SUBSET U /\ V # T /\ V \in SUBSET T
        BY <3>3, PickedIsIn
      <4>2. Takes(base, V, TakenBy(base, V))
        BY <1>1, <4>1
      <4>3. IsFiniteSet(V)
        BY FS_Subset, <4>1
      <4>4. TakenBy(base, U)[V] = TakenBy(base, V)[V]
        BY <3>1, <4>1, <4>2, <4>3, TakesAgree
      <4>5. TakesNext(base, TakenBy(base, U), U)
        BY <3>1, TakesEach
      <4>6. TakenBy(base, U)[U] = Take(Picked(U), TakenBy(base, U)[V])
        BY <3>3, <4>5 DEF TakesNext
      <4> QED
        BY <3>3, <4>4, <4>6
    <3> QED
      BY <3>2, <3>3
  <2>2. \A s \in SUBSET T : t[s] = e(s)
    OBVIOUS
  <2>3. \A s \in SUBSET T : s # {} => t[s \ {Picked(s)}] = last(s \ {Picked(s)})
    <3> SUFFICES ASSUME NEW s \in SUBSET T, s # {} PROVE t[s \ {Picked(s)}] = last(s \ {Picked(s)})
      OBVIOUS
    <3>1. s \ {Picked(s)} \in SUBSET T /\ s \ {Picked(s)} # T
      BY PickedIsIn
    <3> HIDE DEF t, e, last
    <3> QED
      BY <2>1, <2>2, <3>1
  <2>4. t = [s \in SUBSET T |-> IF s = {} THEN base ELSE Take(Picked(s), t[s \ {Picked(s)}])]
    <3> DEFINE h(s) == IF s = {} THEN base ELSE Take(Picked(s), t[s \ {Picked(s)}])
    <3>1. \A s \in SUBSET T : e(s) = h(s)
      <4> HIDE DEF t
      <4> QED
        BY <2>3
    <3> HIDE DEF h, e
    <3>2. t = [s \in SUBSET T |-> h(s)]
      BY <3>1
    <3> QED
      BY <3>2 DEF h
  <2>5. Takes(base, T, t)
    <3> HIDE DEF t
    <3> QED
      BY <2>4 DEF Takes
  <2> HIDE DEF t
  <2>6. Takes(base, T, TakenBy(base, T))
    BY <2>5 DEF TakenBy
  <2> QED
    BY <2>6
<1> HIDE DEF G
<1>2. S \in G
  BY <1>1, SetInduction
<1> QED
  BY <1>2 DEF G

(* What Tally says of a ledger is what the client has. *)
Has(cl, i) == cl[i.source].name = i.name /\ (cl[i.source].field = i.field \/ i.field = 0)

(* The clients stay clients, and if anything was applied, then the last of *)
(* it still shows.                                                         *)
GoodTaking(S, s) ==
  /\ s = [clients |-> s.clients, applied |-> s.applied]
  /\ ClientShape(s.clients)
  /\ s.applied \subseteq S
  /\ s.applied # {} => \E i \in s.applied : i.source \in Client /\ Has(s.clients, i)

LEMMA TakeIsGood ==
  ASSUME NEW S, NEW s, GoodTaking(S, s), NEW i
  PROVE  GoodTaking(S \cup {i}, Take(i, s))
<1> DEFINE taken == [clients |-> [s.clients EXCEPT ![i.source] = Patched(s.clients[i.source], i)],
                     applied |-> s.applied \cup {i}]
<1>1. CASE Take(i, s) = s
  BY <1>1 DEF GoodTaking
<1>2. CASE i.source \in Client /\ Take(i, s) = taken
  <2> DEFINE p == Patched(s.clients[i.source], i)
             cl == [s.clients EXCEPT ![i.source] = p]
  <2>1. ClientShape(s.clients)
    BY DEF GoodTaking
  <2>2. DOMAIN p = {"active", "name", "field"} /\ p.name = i.name /\ (p.field = i.field \/ i.field = 0)
    BY <1>2, <2>1 DEF Patched, ClientShape
  <2>3. taken.clients = cl /\ taken.applied = s.applied \cup {i} /\ taken = [clients |-> taken.clients, applied |-> taken.applied]
    OBVIOUS
  <2> HIDE DEF p, taken
  <2>4. ClientShape(cl) /\ cl[i.source] = p
    BY <1>2, <2>1, <2>2 DEF ClientShape
  <2> HIDE DEF cl
  <2>5. Has(cl, i)
    BY <2>2, <2>4 DEF Has
  <2> QED
    BY <1>2, <2>3, <2>4, <2>5 DEF GoodTaking
<1> QED
  BY <1>1, <1>2 DEF Take

LEMMA TakingIsGood ==
  ASSUME ClientShape(client), NEW S, IsFiniteSet(S)
  PROVE  GoodTaking(S, Taking(S))
<1>0. PICK base : base = NothingTaken
  OBVIOUS
<1>1. GoodTaking({}, base)
  BY <1>0 DEF GoodTaking, NothingTaken
<1>2. PICK t : t = TakenBy(base, S)
  OBVIOUS
<1>3. Takes(base, S, t)
  BY <1>2, TakesExists
<1> DEFINE G == {T \in SUBSET S : GoodTaking(T, t[T])}
<1>4. ASSUME NEW T \in SUBSET S, \A U \in SUBSET T : U # T => U \in G
      PROVE  T \in G
  <2>1. CASE T = {}
    BY <1>1, <1>3, <2>1, TakesEach DEF TakesNext
  <2>2. CASE T # {}
    <3> DEFINE U == T \ {Picked(T)}
    <3>1. Picked(T) \in T /\ U \cup {Picked(T)} = T /\ U \in SUBSET T /\ U # T
      BY <2>2, PickedIsIn
    <3>2. t[T] = Take(Picked(T), t[U])
      <4>1. TakesNext(base, t, T)
        BY <1>3, TakesEach
      <4> QED
        BY <2>2, <4>1 DEF TakesNext
    <3>3. GoodTaking(U, t[U])
      BY <1>4, <3>1
    <3> HIDE DEF U
    <3>4. GoodTaking(U \cup {Picked(T)}, Take(Picked(T), t[U]))
      BY <3>3, TakeIsGood
    <3> QED
      BY <3>1, <3>2, <3>4
  <2> QED
    BY <2>1, <2>2
<1> HIDE DEF G
<1>5. S \in G
  BY <1>4, SetInduction
<1> QED
  BY <1>0, <1>2, <1>5, TakingIsTaken DEF G

------------------------------------------------------------------------------
(* What a run knows when it records. *)

LEMMA SnapshotTold ==
  ASSUME NEW snapshot, NEW sourced
  PROVE  IssuesTold(VoucherIssues(snapshot, sourced) \cup LedgerIssues(snapshot))
<1> DEFINE V == VoucherIssues(snapshot, sourced)
           L == LedgerIssues(snapshot)
           Types == {"LEDGER_MISSING_IN_TALLY", "LEDGER_FIELD_MISMATCH", "LEDGER_MISSING_IN_UNITFLOW"}
           Keys == (Types \X (Client \cup {None})) \X (Name \cup {None})
           Tagged == [i \in L |-> <<<<i.key[1], i.key[2]>>, i.key[3]>>]
           Field(n) == snapshot.ledgers[n].field
           Owes(n) == snapshot.ledgers[n].owes
<1>1. \A source : /\ Told(Issue("MISSING_IN_TALLY", source, None, 0, TRUE))
                  /\ Told(Issue("AMOUNT_MISMATCH", source, None, 0, TRUE))
                  /\ Told(Issue("MISSING_IN_UNITFLOW", source, None, 0, TRUE))
                  /\ Told(Issue("LEDGER_MISSING_IN_TALLY", source, None, None, FALSE))
  BY DEF Told, Issue
<1>0. /\ \A source, n : Told(Issue("LEDGER_FIELD_MISMATCH", source, n, Field(n), Owes(n)))
      /\ \A n : Told(Issue("LEDGER_MISSING_IN_UNITFLOW", None, n, Field(n), FALSE))
  BY DEF Told, Issue
<1>2. \A i \in V : Told(i) /\ ~IsLedger(i)
  <2>1. \A source : /\ ~IsLedger(Issue("MISSING_IN_TALLY", source, None, 0, TRUE))
                    /\ ~IsLedger(Issue("AMOUNT_MISMATCH", source, None, 0, TRUE))
                    /\ ~IsLedger(Issue("MISSING_IN_UNITFLOW", source, None, 0, TRUE))
    BY DEF IsLedger, Issue
  <2> QED
    BY <1>1, <2>1 DEF VoucherIssues
<1>3. \A i \in L : Told(i)
  BY <1>0, <1>1 DEF LedgerIssues
<1>4. \A l \in PlannedLedgers : l.client \in Client
  BY DEF PlannedLedgers
<1>5. \A i \in L : /\ i.key = <<i.key[1], i.key[2], i.key[3]>>
                   /\ i.key[1] \in Types /\ i.key[2] \in Client \cup {None} /\ i.key[3] \in Name \cup {None}
  <2> DEFINE Keyed(i) == /\ i.key = <<i.key[1], i.key[2], i.key[3]>> /\ i.key[1] \in Types
                         /\ i.key[2] \in Client \cup {None} /\ i.key[3] \in Name \cup {None}
  <2>1. \A source \in Client : Keyed(Issue("LEDGER_MISSING_IN_TALLY", source, None, None, FALSE))
    BY DEF Issue
  <2>2. \A source \in Client, n \in Name : Keyed(Issue("LEDGER_FIELD_MISMATCH", source, n, Field(n), Owes(n)))
    BY DEF Issue
  <2>3. \A n \in Name : Keyed(Issue("LEDGER_MISSING_IN_UNITFLOW", None, n, Field(n), FALSE))
    BY DEF Issue
  <2> HIDE DEF Keyed
  <2>4. \A i \in L : Keyed(i)
    BY <1>4, <2>1, <2>2, <2>3 DEF LedgerIssues
  <2> QED
    BY <2>4 DEF Keyed
<1>6. Distinct(L)
  BY IssuesOfSnapshot DEF Distinct
<1>7. IsFiniteSet(Keys)
  <2>1. IsFiniteSet(Types)
    <3>1. IsFiniteSet({"LEDGER_MISSING_IN_TALLY"})
      BY FS_Singleton
    <3>2. IsFiniteSet({"LEDGER_MISSING_IN_TALLY"} \cup {"LEDGER_FIELD_MISMATCH"})
      BY <3>1, FS_AddElement
    <3>3. IsFiniteSet(({"LEDGER_MISSING_IN_TALLY"} \cup {"LEDGER_FIELD_MISMATCH"}) \cup {"LEDGER_MISSING_IN_UNITFLOW"})
      BY <3>2, FS_AddElement
    <3>4. Types = ({"LEDGER_MISSING_IN_TALLY"} \cup {"LEDGER_FIELD_MISMATCH"}) \cup {"LEDGER_MISSING_IN_UNITFLOW"}
      OBVIOUS
    <3> QED
      BY <3>3, <3>4
  <2>2. IsFiniteSet(Client \cup {None}) /\ IsFiniteSet(Name \cup {None})
    BY TallyFinite, FS_AddElement
  <2>3. IsFiniteSet(Types \X (Client \cup {None}))
    BY <2>1, <2>2, FS_Product
  <2> QED
    BY <2>2, <2>3, FS_Product
<1>8. Tagged \in Injection(L, Keys)
  <2>1. \A i \in L : Tagged[i] \in Keys
    BY <1>5
  <2>2. \A i, k \in L : Tagged[i] = Tagged[k] => i = k
    <3> SUFFICES ASSUME NEW i \in L, NEW k \in L, Tagged[i] = Tagged[k] PROVE i = k
      OBVIOUS
    <3>1. i.key[1] = k.key[1] /\ i.key[2] = k.key[2] /\ i.key[3] = k.key[3]
      OBVIOUS
    <3>2. i.key = k.key
      BY <1>5, <3>1
    <3> QED
      BY <1>6, <3>2 DEF Distinct
  <2>3. Tagged \in [L -> Keys]
    BY <2>1
  <2> HIDE DEF Tagged, L, Keys
  <2> QED
    BY <2>2, <2>3 DEF Injection, IsInjective
<1> HIDE DEF Keys, Tagged, V, L
<1>9. IsFiniteSet(L)
  BY <1>7, <1>8, FS_Injection
<1>a. LedgersOf(V \cup L) \in SUBSET L
  BY <1>2 DEF LedgersOf
<1>b. IsFiniteSet(LedgersOf(V \cup L))
  BY <1>9, <1>a, FS_Subset
<1>c. IssuesTold(V \cup L)
  BY <1>2, <1>3, <1>b DEF IssuesTold
<1> QED
  BY <1>c DEF V, L

(* What a run records, and what it gives to clients. *)
Mine(w) ==
  {Renewed(w, x) : x \in {y \in conflict : <<y.key, y.n>> \in job[w].found}}
  \cup {RowFor(w, i) : i \in {k \in job[w].issues : \A f \in job[w].found : f[1] # k.key}}
Others(w) == {x \in conflict : <<x.key, x.n>> \notin job[w].found}
TakenIn(w) == IF job[w].wins THEN Taking(LedgersOf(job[w].issues)) ELSE Taking({})
ClosesIn(w) == job[w].wins /\ TakenIn(w).applied # {}
ClosedLedger(x) == IF IsLedger(x) THEN ClosedAsApplied(x) ELSE x

LEMMA RecordDoes ==
  ASSUME NEW w, Record(w)
  PROVE  /\ client' = TakenIn(w).clients
         /\ conflict' = Others(w) \cup (IF ClosesIn(w) THEN {ClosedLedger(x) : x \in Mine(w)} ELSE Mine(w))
         /\ At(w, "searched") /\ Goes(w, Idle)
<1>1. client' = TakenIn(w).clients
  BY DEF Record, TakenIn, LedgersOf
<1>2. conflict' = Others(w) \cup (IF ClosesIn(w) THEN {ClosedLedger(x) : x \in Mine(w)} ELSE Mine(w))
  BY DEF Record, TakenIn, LedgersOf, Others, ClosesIn, Closes, Mine, Renewed, RowFor, ClosedLedger, ClosedAsApplied
<1>3. At(w, "searched") /\ Goes(w, Idle)
  BY DEF Record
<1> QED
  BY <1>1, <1>2, <1>3

(* A run may fold its issues: they are finitely many. *)
LEMMA TakenGood ==
  ASSUME RunsInv, NEW w \in Worker, At(w, "searched")
  PROVE  /\ ClientShape(TakenIn(w).clients)
         /\ ClosesIn(w) => \E i \in LedgersOf(job[w].issues) : i.source \in Client /\ Has(TakenIn(w).clients, i)
<1>1. ClientShape(client) /\ IsFiniteSet(LedgersOf(job[w].issues))
  BY DEF RunsInv, IssuesTold, At
<1>2. GoodTaking(LedgersOf(job[w].issues), Taking(LedgersOf(job[w].issues)))
  BY <1>1, TakingIsGood
<1>3. GoodTaking({}, Taking({}))
  BY <1>1, FS_EmptySet, TakingIsGood
<1> QED
  BY <1>2, <1>3 DEF TakenIn, ClosesIn, GoodTaking

(* A row that a run writes is the row it found, but for its field, or that *)
(* of a new issue.                                                         *)
LEMMA MineIs ==
  ASSUME Shapes, NEW w, NEW x \in Mine(w)
  PROVE  /\ Row(x)
         /\ \/ \E y \in conflict : /\ <<y.key, y.n>> \in job[w].found /\ x = Renewed(w, y)
                                   /\ x.key = y.key /\ x.n = y.n /\ x.how = y.how
                                   /\ x.source = y.source /\ x.name = y.name
            \/ \E i : /\ NewIssue(w, i) /\ x = RowFor(w, i)
                      /\ x.how = "none" /\ x.key = i.key /\ x.source = i.source /\ x.name = i.name
<1>1. \A y \in conflict : Row(y)
  BY DEF Shapes, Row
<1>2. CASE \E y \in conflict : <<y.key, y.n>> \in job[w].found /\ x = Renewed(w, y)
  <2>1. PICK y \in conflict : <<y.key, y.n>> \in job[w].found /\ x = Renewed(w, y)
    BY <1>2
  <2>2. /\ Row(x) /\ x.key = y.key /\ x.n = y.n /\ x.how = y.how
        /\ x.source = y.source /\ x.name = y.name
    BY <1>1, <2>1 DEF Renewed, Row
  <2> QED
    BY <2>1, <2>2
<1>3. CASE \E i : NewIssue(w, i) /\ x = RowFor(w, i)
  <2>1. PICK i : NewIssue(w, i) /\ x = RowFor(w, i)
    BY <1>3
  <2>2. Row(x) /\ x.how = "none" /\ x.key = i.key /\ x.source = i.source /\ x.name = i.name
    BY <2>1 DEF RowFor, Row
  <2> QED
    BY <2>1, <2>2
<1> QED
  BY <1>2, <1>3 DEF Mine, NewIssue

LEMMA ClosedIs ==
  ASSUME NEW x, Row(x)
  PROVE  /\ ClosedAsApplied(x).key = x.key /\ ClosedAsApplied(x).n = x.n
         /\ ClosedAsApplied(x).source = x.source /\ ClosedAsApplied(x).name = x.name
         /\ ClosedAsApplied(x).field = x.field /\ ClosedAsApplied(x).how = "AUTO_APPLIED_TALLY_WINS"
  BY DEF Row, ClosedAsApplied

(* Conflicts are never deleted, and stay about whom they are about.        *)
Lasting ==
  /\ \A x \in conflict' : Told(x)
  /\ \A y \in conflict : \E x \in conflict' : <<x.key, x.n>> = <<y.key, y.n>>

LEMMA RecordLasts ==
  ASSUME Shapes, RunsInv, NEW w \in Worker, Record(w)
  PROVE  Lasting
<1>1. At(w, "searched") /\ conflict' = Others(w) \cup (IF ClosesIn(w) THEN {ClosedLedger(x) : x \in Mine(w)} ELSE Mine(w))
  BY RecordDoes
<1>2. \A i \in job[w].issues : Told(i)
  BY <1>1 DEF RunsInv, IssuesTold, At
<1>3. ASSUME NEW x \in Mine(w) PROVE Told(x) /\ Row(x)
  <2>1. /\ Row(x)
        /\ \/ \E y \in conflict : x.key = y.key /\ x.source = y.source /\ x.name = y.name
           \/ \E i \in job[w].issues : x.key = i.key /\ x.source = i.source /\ x.name = i.name
    BY MineIs DEF NewIssue
  <2> QED
    BY <1>2, <2>1 DEF RunsInv, Told
<1>4. \A x \in Mine(w) : Told(ClosedLedger(x)) /\ <<ClosedLedger(x).key, ClosedLedger(x).n>> = <<x.key, x.n>>
  BY <1>3, ClosedIs DEF ClosedLedger, Told
<1>5. \A x \in conflict' : Told(x)
  BY <1>1, <1>3, <1>4 DEF Others, RunsInv
<1>6. ASSUME NEW y \in conflict
      PROVE  \E x \in conflict' : <<x.key, x.n>> = <<y.key, y.n>>
  <2>1. CASE y \in Others(w)
    BY <1>1, <2>1
  <2>2. CASE y \notin Others(w)
    <3>1. Renewed(w, y) \in Mine(w)
      BY <2>2 DEF Others, Mine
    <3>2. <<Renewed(w, y).key, Renewed(w, y).n>> = <<y.key, y.n>>
      BY DEF Shapes, Renewed
    <3>3. Renewed(w, y) \in conflict' \/ ClosedLedger(Renewed(w, y)) \in conflict'
      BY <1>1, <3>1
    <3> QED
      BY <1>4, <3>1, <3>2, <3>3
  <2> QED
    BY <2>1, <2>2
<1> QED
  BY <1>5, <1>6 DEF Lasting

LEMMA ResolveLasts ==
  ASSUME Shapes, RunsInv, NEW x \in conflict, NEW how, Resolve(x, how)
  PROVE  Lasting
<1> DEFINE r == [x EXCEPT !.status = IF how = "IGNORED" THEN how ELSE "RESOLVED", !.how = how]
<1>1. conflict' = (conflict \ {x}) \cup {r}
  BY DEF Resolve
<1>2. r.key = x.key /\ r.n = x.n /\ r.source = x.source /\ r.name = x.name
  BY DEF Shapes
<1> HIDE DEF r
<1>3. \A y \in conflict' : Told(y)
  BY <1>1, <1>2 DEF RunsInv, Told
<1>4. \A y \in conflict : \E z \in conflict' : <<z.key, z.n>> = <<y.key, y.n>>
  <2> SUFFICES ASSUME NEW y \in conflict PROVE \E z \in conflict' : <<z.key, z.n>> = <<y.key, y.n>>
    OBVIOUS
  <2>1. CASE y = x
    BY <1>1, <1>2, <2>1
  <2>2. CASE y # x
    BY <1>1, <2>2
  <2> QED
    BY <2>1, <2>2
<1> QED
  BY <1>3, <1>4 DEF Lasting

(* A step that compares and searches nothing. *)
LEMMA RunsKept ==
  ASSUME RunsInv, ClientShape(client'), Lasting,
         \A w \in Worker : job'[w] = job[w] \/ job'[w].step \notin {"compared", "searched"}
  PROVE  RunsInv'
<1>1. \A w \in Worker : job'[w].step \in {"compared", "searched"} => IssuesTold(job'[w].issues)
  BY DEF RunsInv
<1>2. \A w \in Worker : job'[w].step = "searched" =>
        \A f \in job'[w].found : \E y \in conflict' : f = <<y.key, y.n>>
  <2> SUFFICES ASSUME NEW w \in Worker, job'[w].step = "searched", NEW f \in job'[w].found
               PROVE  \E y \in conflict' : f = <<y.key, y.n>>
    OBVIOUS
  <2>1. PICK y \in conflict : f = <<y.key, y.n>>
    BY DEF RunsInv, At
  <2> QED
    BY <2>1 DEF Lasting
<1>3. \A x \in conflict' : Told(x)
  BY DEF Lasting
<1> QED
  BY <1>1, <1>2, <1>3 DEF RunsInv, At

LEMMA InitRuns == Init => RunsInv
<1> SUFFICES ASSUME Init PROVE RunsInv
  OBVIOUS
<1>1. client \in [Client -> [active : BOOLEAN, name : Name, field : Fields]] /\ conflict = {} /\ job = [w \in Worker |-> Idle]
  BY DEF Init
<1>2. ClientShape(client)
  BY <1>1 DEF ClientShape
<1> QED
  BY <1>1, <1>2 DEF RunsInv, Idle, At

LEMMA CompareRuns ==
  ASSUME Shapes, RunsInv, NEW w \in Worker, Compare(w)
  PROVE  RunsInv'
<1>1. client' = client /\ conflict' = conflict
  BY DEF Compare, core
<1>2. \A o \in Worker \ {w} : job'[o] = job[o]
  BY GoesTo DEF Compare, Shapes
<1>3. job'[w] = Idle \/ (job'[w].step = "compared" /\ IssuesTold(job'[w].issues))
  <2>1. CASE w = "agent" => Authorized
    <3> DEFINE found == VoucherIssues(job[w].snapshot, job[w].sourced) \cup LedgerIssues(job[w].snapshot)
               compared == [step |-> "compared", wins |-> integration.import /\ integration.strategy = "TALLY_WINS",
                            issues |-> found]
    <3>1. Goes(w, compared)
      BY <2>1 DEF Compare
    <3>2. IssuesTold(found)
      BY SnapshotTold
    <3>3. job'[w] = compared
      BY <3>1, GoesTo DEF Shapes
    <3> HIDE DEF found
    <3> QED
      BY <3>2, <3>3
  <2>2. CASE ~(w = "agent" => Authorized)
    <3>1. Goes(w, Idle)
      BY <2>2 DEF Compare
    <3> QED
      BY <3>1, GoesTo DEF Shapes
  <2> QED
    BY <2>1, <2>2
<1> QED
  BY <1>1, <1>2, <1>3 DEF RunsInv, At, Idle

LEMMA SearchRuns ==
  ASSUME Shapes, RunsInv, NEW w \in Worker, Search(w)
  PROVE  RunsInv'
<1> DEFINE j == job[w]
<1>1. client' = client /\ conflict' = conflict /\ At(w, "compared")
  BY DEF Search, core
<1>2. PICK found \in Found(j.issues) :
        Goes(w, [step |-> "searched", wins |-> j.wins, issues |-> j.issues, found |-> {<<x.key, x.n>> : x \in found}])
  BY DEF Search
<1>3. /\ job'[w] = [step |-> "searched", wins |-> j.wins, issues |-> j.issues, found |-> {<<x.key, x.n>> : x \in found}]
      /\ \A o \in Worker \ {w} : job'[o] = job[o]
  BY <1>2, GoesTo DEF Shapes
<1>4. found \subseteq conflict
  BY <1>2 DEF Found, Open
<1>5. \A f \in job'[w].found : \E y \in conflict : f = <<y.key, y.n>>
  BY <1>3, <1>4
<1>6. job'[w].issues = j.issues /\ IssuesTold(j.issues)
  BY <1>1, <1>3 DEF RunsInv, At
<1> QED
  BY <1>1, <1>3, <1>5, <1>6 DEF RunsInv, At

(* No other step compares or searches, and clients stay clients. *)
LEMMA OtherSteps ==
  ASSUME Shapes, [Next]_tallyVars, ~\E w \in Worker : Compare(w) \/ Search(w)
  PROVE  \A w \in Worker : job'[w] = job[w] \/ job'[w].step \notin {"compared", "searched"}
<1>1. ASSUME job' = job \/ \E w \in Worker : \E j : Goes(w, j) /\ j.step \notin {"compared", "searched"}
      PROVE  \A w \in Worker : job'[w] = job[w] \/ job'[w].step \notin {"compared", "searched"}
  BY <1>1, GoesTo DEF Shapes
<1>2. CASE AgentNext
  <2>1. TakePlan => \E j : Goes("agent", j) /\ j.step \notin {"compared", "searched"}
    BY DEF TakePlan
  <2>2. Report => \E j : Goes("agent", j) /\ j.step \notin {"compared", "searched"}
    BY DEF Report, Idle
  <2>3. Pull => \E j : Goes("agent", j) /\ j.step \notin {"compared", "searched"}
    BY DEF Pull
  <2>4. \A taken, dies : Push(taken, dies) => \E j : Goes("agent", j) /\ j.step \notin {"compared", "searched"}
    BY DEF Push, Idle
  <2> QED
    BY <1>1, <1>2, <2>1, <2>2, <2>3, <2>4, AgentWorks DEF AgentNext
<1>3. CASE UserNext \/ Outside \/ UNCHANGED tallyVars
  <2>1. job' = job \/ \E s \in BOOLEAN : Upload(s)
    BY <1>3 DEF UserNext, Outside, tallyVars, Resolve, UpdateSettings, RotateConnectorToken, UpsertLedgerLink,
                EditClient, EditVoucher, EditBooks
  <2>2. \A s : Upload(s) => \E j : Goes("user", j) /\ j.step \notin {"compared", "searched"}
    BY DEF Upload
  <2> QED
    BY <1>1, <2>1, <2>2 DEF Worker
<1>4. ASSUME NEW w \in Worker, Record(w) \/ Die(w)
      PROVE  \A o \in Worker : job'[o] = job[o] \/ job'[o].step \notin {"compared", "searched"}
  <2>1. Goes(w, Idle)
    BY <1>4 DEF Record, Die
  <2>2. Idle.step \notin {"compared", "searched"}
    BY DEF Idle
  <2> QED
    BY <1>1, <2>1, <2>2
<1> QED
  BY <1>2, <1>3, <1>4 DEF Next

(* Only EditClient, Resolve and Record change clients. *)
LEMMA ClientsStay ==
  ASSUME RunsInv, [Next]_tallyVars
  PROVE  ClientShape(client')
<1>0. ClientShape(client)
  BY DEF RunsInv
<1>1. CASE client' = client
  BY <1>0, <1>1
<1>2. ASSUME NEW c \in Client, NEW active, NEW n, NEW field, EditClient(c, active, n, field)
      PROVE  ClientShape(client')
  <2> DEFINE r == [active |-> active, name |-> n, field |-> field]
  <2>1. client' = [client EXCEPT ![c] = r]
    BY <1>2 DEF EditClient
  <2>2. DOMAIN r = {"active", "name", "field"}
    OBVIOUS
  <2> HIDE DEF r
  <2> QED
    BY <1>0, <2>1, <2>2 DEF ClientShape
<1>3. ASSUME NEW x, NEW how, Resolve(x, how)
      PROVE  ClientShape(client')
  <2>1. PICK S \in {{x}, {}} : client' = Taking(S).clients
    BY <1>3 DEF Resolve
  <2>2. IsFiniteSet(S)
    <3>1. IsFiniteSet({x}) /\ IsFiniteSet({})
      BY FS_EmptySet, FS_Singleton
    <3> QED
      BY <3>1
  <2>3. GoodTaking(S, Taking(S))
    BY <1>0, <2>2, TakingIsGood
  <2> QED
    BY <2>1, <2>3 DEF GoodTaking
<1>4. ASSUME NEW w \in Worker, Record(w)
      PROVE  ClientShape(client')
  BY <1>4, RecordDoes, TakenGood
<1>5. \/ client' = client
      \/ \E c \in Client : \E active, n, field : EditClient(c, active, n, field)
      \/ \E x, how : Resolve(x, how)
      \/ \E w \in Worker : Record(w)
  <2>1. AgentNext => client' = client
    BY DEF AgentNext, TakePlan, Push, Report, Pull, core
  <2>2. UserNext => client' = client \/ \E x, how : Resolve(x, how)
    BY DEF UserNext, Upload, UpdateSettings, RotateConnectorToken, UpsertLedgerLink, core
  <2>3. Outside => client' = client \/ \E c \in Client : \E active, n, field : EditClient(c, active, n, field)
    BY DEF Outside, EditVoucher, EditBooks, core
  <2>4. \A w \in Worker : Compare(w) \/ Search(w) \/ Die(w) => client' = client
    BY DEF Compare, Search, Die, core
  <2>5. UNCHANGED tallyVars => client' = client
    BY DEF tallyVars
  <2> QED
    BY <2>1, <2>2, <2>3, <2>4, <2>5 DEF Next
<1> QED
  BY <1>1, <1>2, <1>3, <1>4, <1>5

(* Only Resolve and Record change conflicts. *)
LEMMA ConflictSteps ==
  ASSUME [Next]_tallyVars
  PROVE  \/ conflict' = conflict
         \/ \E x \in conflict, how \in {"IGNORED", "RESOLVED", "APPLY_TALLY_LEDGER"} : Resolve(x, how)
         \/ \E w \in Worker : Record(w)
<1>1. AgentNext => conflict' = conflict
  BY DEF AgentNext, TakePlan, Push, Report, Pull, core
<1>2. UserNext => \/ conflict' = conflict
                  \/ \E x \in conflict, how \in {"IGNORED", "RESOLVED", "APPLY_TALLY_LEDGER"} : Resolve(x, how)
  BY DEF UserNext, Upload, UpdateSettings, RotateConnectorToken, UpsertLedgerLink, core
<1>3. Outside => conflict' = conflict
  BY DEF Outside, EditClient, EditVoucher, EditBooks, core
<1>4. \A w \in Worker : Compare(w) \/ Search(w) \/ Die(w) => conflict' = conflict
  BY DEF Compare, Search, Die, core
<1>5. UNCHANGED tallyVars => conflict' = conflict
  BY DEF tallyVars
<1> QED
  BY <1>1, <1>2, <1>3, <1>4, <1>5 DEF Next

LEMMA NextRuns ==
  ASSUME Shapes, RunsInv, [Next]_tallyVars
  PROVE  RunsInv'
<1>1. CASE \E w \in Worker : Compare(w) \/ Search(w)
  BY <1>1, CompareRuns, SearchRuns
<1>2. CASE ~\E w \in Worker : Compare(w) \/ Search(w)
  <2>1. Lasting
    <3>1. CASE conflict' = conflict
      BY <3>1 DEF Lasting, RunsInv
    <3> QED
      BY <3>1, ConflictSteps, ResolveLasts, RecordLasts
  <2> QED
    BY <1>2, <2>1, ClientsStay, OtherSteps, RunsKept
<1> QED
  BY <1>1, <1>2

------------------------------------------------------------------------------
(* Conflicts closed as applied *)

(* A run that closes closes the conflict of an issue it applied last.      *)
LEMMA RecordCloses ==
  ASSUME Shapes, ConflictInv, RunsInv, NEW w \in Worker, Record(w), ClosesIn(w)
  PROVE  \E y \in conflict' :
           /\ \E i \in job[w].issues : i.key = y.key
           /\ y.how = "AUTO_APPLIED_TALLY_WINS" /\ y.source \in Client
           /\ client'[y.source].name = y.name
           /\ client'[y.source].field = y.field \/ y.field = 0
<1>1. /\ At(w, "searched") /\ client' = TakenIn(w).clients
      /\ conflict' = Others(w) \cup {ClosedLedger(x) : x \in Mine(w)}
  BY RecordDoes
<1>2. PICK i \in LedgersOf(job[w].issues) : i.source \in Client /\ Has(client', i)
  BY <1>1, TakenGood
<1>3. i \in job[w].issues /\ IsLedger(i) /\ Told(i)
  BY <1>1, <1>2 DEF LedgersOf, RunsInv, IssuesTold, At
<1>4. \E m \in Mine(w) : m.key = i.key /\ m.field = i.field /\ Told(m)
  <2>1. CASE \A f \in job[w].found : f[1] # i.key
    <3>1. RowFor(w, i) \in Mine(w)
      BY <1>3, <2>1 DEF Mine
    <3>2. RowFor(w, i).key = i.key /\ RowFor(w, i).field = i.field /\ Told(RowFor(w, i))
      BY <1>3 DEF RowFor, Told
    <3> QED
      BY <3>1, <3>2
  <2>2. CASE \E f \in job[w].found : f[1] = i.key
    <3>1. PICK f \in job[w].found : f[1] = i.key
      BY <2>2
    <3>2. PICK y \in conflict : f = <<y.key, y.n>>
      BY <1>1 DEF RunsInv
    <3>3. y.key = i.key /\ Told(y)
      BY <3>1, <3>2 DEF RunsInv
    <3>4. (CHOOSE k \in job[w].issues : k.key = y.key) = i
      BY <1>1, <1>3, <3>3 DEF ConflictInv, IssuesDistinct, Distinct, At
    <3>5. Renewed(w, y) \in Mine(w)
      BY <3>2 DEF Mine
    <3>6. /\ Renewed(w, y).key = y.key /\ Renewed(w, y).field = i.field
          /\ Renewed(w, y).source = y.source /\ Renewed(w, y).name = y.name
      BY <3>4 DEF Renewed, Shapes
    <3> QED
      BY <3>3, <3>5, <3>6 DEF Told
  <2> QED
    BY <2>1, <2>2
<1>5. PICK m \in Mine(w) : m.key = i.key /\ m.field = i.field /\ Told(m)
  BY <1>4
<1>6. PICK y : y = ClosedAsApplied(m)
  OBVIOUS
<1>7. y \in conflict'
  BY <1>1, <1>3, <1>5, <1>6 DEF ClosedLedger, IsLedger
<1>8. y.key = m.key /\ y.source = m.source /\ y.name = m.name /\ y.field = m.field /\ y.how = "AUTO_APPLIED_TALLY_WINS"
  BY <1>6, MineIs, ClosedIs
<1>9. y.source = i.source /\ y.name = i.name
  BY <1>3, <1>5, <1>8 DEF Told
<1> QED
  BY <1>2, <1>3, <1>5, <1>7, <1>8, <1>9 DEF Has

(* A run that applied nothing closes nothing. *)
LEMMA RecordLeaves ==
  ASSUME Shapes, NEW w \in Worker, Record(w), ~ClosesIn(w)
  PROVE  Applied(conflict') \subseteq Applied(conflict)
<1>1. conflict' = Others(w) \cup Mine(w)
  BY RecordDoes
<1>2. ASSUME NEW x \in conflict', x.how = "AUTO_APPLIED_TALLY_WINS"
      PROVE  \E y \in conflict : <<y.key, y.n>> = <<x.key, x.n>> /\ y.how = x.how
  <2>1. CASE x \in Others(w)
    BY <2>1 DEF Others
  <2>2. CASE x \in Mine(w)
    BY <1>2, <2>2, MineIs
  <2> QED
    BY <1>1, <2>1, <2>2
<1> QED
  BY <1>2 DEF Applied

LEMMA ResolveLeaves ==
  ASSUME Shapes, NEW x \in conflict, NEW how \in {"IGNORED", "RESOLVED", "APPLY_TALLY_LEDGER"}, Resolve(x, how)
  PROVE  Applied(conflict') \subseteq Applied(conflict)
<1> DEFINE r == [x EXCEPT !.status = IF how = "IGNORED" THEN how ELSE "RESOLVED", !.how = how]
<1>1. conflict' = (conflict \ {x}) \cup {r}
  BY DEF Resolve
<1>2. r.how # "AUTO_APPLIED_TALLY_WINS"
  BY DEF Shapes
<1> HIDE DEF r
<1> QED
  BY <1>1, <1>2 DEF Applied

LEMMA AppliedStep ==
  ASSUME Shapes, ConflictInv, RunsInv, [Next]_tallyVars
  PROVE  \/ Applied(conflict') \subseteq Applied(conflict)
         \/ \E w \in Worker, y \in conflict' :
              /\ At(w, "searched") /\ job'[w] # job[w] /\ \E i \in job[w].issues : i.key = y.key
              /\ y.how = "AUTO_APPLIED_TALLY_WINS" /\ y.source \in Client
              /\ client'[y.source].name = y.name
              /\ client'[y.source].field = y.field \/ y.field = 0
<1>1. CASE conflict' = conflict
  BY <1>1
<1>2. CASE \E x \in conflict, how \in {"IGNORED", "RESOLVED", "APPLY_TALLY_LEDGER"} : Resolve(x, how)
  BY <1>2, ResolveLeaves
<1>3. ASSUME NEW w \in Worker, Record(w), ClosesIn(w)
      PROVE  \E y \in conflict' :
               /\ At(w, "searched") /\ job'[w] # job[w] /\ \E i \in job[w].issues : i.key = y.key
               /\ y.how = "AUTO_APPLIED_TALLY_WINS" /\ y.source \in Client
               /\ client'[y.source].name = y.name
               /\ client'[y.source].field = y.field \/ y.field = 0
  <2>1. At(w, "searched") /\ job'[w] = Idle
    BY <1>3, RecordDoes, GoesTo DEF Shapes
  <2>2. job'[w] # job[w]
    BY <2>1 DEF At, Idle
  <2> QED
    BY <1>3, <2>1, <2>2, RecordCloses
<1>4. ASSUME NEW w \in Worker, Record(w), ~ClosesIn(w)
      PROVE  Applied(conflict') \subseteq Applied(conflict)
  BY <1>4, RecordLeaves
<1> QED
  BY <1>1, <1>2, <1>3, <1>4, ConflictSteps

------------------------------------------------------------------------------
(* Theorems *)

LEMMA Invariant == Spec => []IInv
<1>1. Init => IInv
  BY InitShapes, InitBooks, InitConflicts, InitRuns DEF IInv
<1>2. IInv /\ [Next]_tallyVars => IInv'
  BY NextShapes, NextBooks, NextConflicts, NextRuns DEF IInv, BooksInv
<1> QED
  BY <1>1, <1>2, PTL DEF Spec

(* A voucher marked SYNCED by connectorSyncResult exists in Tally, wherever *)
(* the connector died or was locked out, for any plan and any vouchers.     *)
THEOREM SyncedExists == Spec => []SyncedIsThere
<1>1. IInv => SyncedIsThere
  BY DEF IInv, BooksInv
<1> QED
  BY <1>1, Invariant, PTL

(* What buildSyncPlan has Tally book adds up to nothing, for vouchers of    *)
(* any amounts, but for those that consist of charges.                      *)
THEOREM PlansBalanced == Spec => []VouchersBalance
<1>1. IInv => VouchersBalance
  BY PlansBalance DEF IInv, BooksInv
<1> QED
  BY <1>1, Invariant, PTL

(* upsertOpenConflict keeps one open conflict per issue, but for issues of  *)
(* two snapshots that were recorded at once.                                *)
THEOREM OpenOnce == Spec => []OneOpenPerIssue
<1>1. IInv => OneOpenPerIssue
  BY DEF IInv, ConflictInv
<1> QED
  BY <1>1, Invariant, PTL

(* However runs of the connector and uploads overlap: conflicts are closed  *)
(* as AUTO_APPLIED_TALLY_WINS only by a run that gave a client the name and *)
(* the field of one of its issues, and closes the conflict about it too.    *)
THEOREM ClosedForReason == Spec => AppliedForReason
<1>1. IInv /\ [Next]_tallyVars =>
        [\/ Applied(conflict') \subseteq Applied(conflict)
         \/ \E w \in Worker, y \in conflict' :
              /\ At(w, "searched") /\ job'[w] # job[w] /\ \E i \in job[w].issues : i.key = y.key
              /\ y.how = "AUTO_APPLIED_TALLY_WINS" /\ y.source \in Client
              /\ client'[y.source].name = y.name
              /\ client'[y.source].field = y.field \/ y.field = 0]_tallyVars
  BY AppliedStep DEF IInv
<1> QED
  BY <1>1, Invariant, PTL DEF Spec, AppliedForReason
==============================================================================
