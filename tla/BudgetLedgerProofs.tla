--------------------------- MODULE BudgetLedgerProofs ---------------------------
(***************************************************************************)
(* Theorems about BudgetLedger for any limits, costs and administrator     *)
(* operations and any number of requests in flight.  The three properties  *)
(* are inductive together with what the requests carry (Sound): nobody     *)
(* holds a reservation in a period still to come, and no object shows more *)
(* usage of the row than the row has been charged.  What all requests hold *)
(* is a sum over the requests, of which a step moves one term.             *)
(***************************************************************************)
EXTENDS BudgetLedger, FiniteSums

-----------------------------------------------------------------------------
(* Amounts and rows.                                                       *)

LEMMA PositiveIs ==
  ASSUME NEW n \in Int
  PROVE  /\ Positive(n) \in Nat
         /\ n >= 0 => Positive(n) = n
         /\ n <= 0 => Positive(n) = 0
  BY DEF Positive

LEMMA WrittenIs ==
  ASSUME NEW column \in Nat, NEW loaded \in Nat, NEW new \in Nat
  PROVE  Written(column, loaded, new) \in Nat
         /\ (column = loaded => Written(column, loaded, new) = new)
  BY DEF Written

\* A row with other amounts, and one with another reservation.
Amounts(b, reserved, usage) == [b EXCEPT !.reserved = reserved, !.usage = usage]
Plus(b, est) == [b EXCEPT !.reserved = @ + est]

LEMMA AmountsRow ==
  ASSUME NEW b \in Row, NEW reserved \in Nat, NEW usage \in Nat
  PROVE  /\ Amounts(b, reserved, usage) \in Row
         /\ Amounts(b, reserved, usage).id = b.id
         /\ Amounts(b, reserved, usage).enabled = b.enabled
         /\ Amounts(b, reserved, usage).policy = b.policy
         /\ Amounts(b, reserved, usage).limit = b.limit
         /\ Amounts(b, reserved, usage).period = b.period
         /\ Amounts(b, reserved, usage).reserved = reserved
         /\ Amounts(b, reserved, usage).usage = usage
  BY DEF Amounts, Row

LEMMA PlusRow ==
  ASSUME NEW b \in Row, NEW est \in Nat
  PROVE  /\ Plus(b, est) \in Row
         /\ Plus(b, est).id = b.id /\ Plus(b, est).enabled = b.enabled
         /\ Plus(b, est).policy = b.policy /\ Plus(b, est).limit = b.limit
         /\ Plus(b, est).period = b.period /\ Plus(b, est).usage = b.usage
         /\ Plus(b, est).reserved = b.reserved + est
  BY DEF Plus, Row

LEMMA RowFields ==
  ASSUME LedgerTypeOK
  PROVE  /\ row.id \in Nat /\ row.enabled \in BOOLEAN /\ row.limit \in Nat
         /\ row.usage \in Nat /\ row.reserved \in Nat /\ row.period \in Nat
         /\ book.left \in Nat /\ book.spent \in Nat /\ book.beyond \in Nat
         /\ book.charged \in Nat /\ book.edited \in BOOLEAN
         /\ book.spoiled \in SUBSET {"usage", "reserved"}
         /\ now \in Nat /\ admin \in Nat /\ row \in Row /\ book \in Book
  BY DEF LedgerTypeOK, Row, Book

LEMMA RequestFields ==
  ASSUME LedgerTypeOK, NEW r \in Request
  PROVE  /\ req[r] \in RequestRecord /\ req[r].est \in Nat /\ req[r].snap \in Snap
         /\ req[r].tag \in Nat \X Nat /\ req[r].tag[1] \in Nat /\ req[r].tag[2] \in Nat
         /\ req[r].snap.id \in Nat /\ req[r].snap.usage \in Nat
         /\ req[r].snap.reserved \in Nat
  BY DEF LedgerTypeOK, RequestRecord, Snap

LEMMA RolledOverRow ==
  ASSUME LedgerTypeOK
  PROVE  /\ RolledOver \in Row /\ RolledOver.id = row.id
         /\ RolledOver.enabled = row.enabled /\ RolledOver.policy = row.policy
         /\ RolledOver.limit = row.limit
         /\ Expired => /\ RolledOver.usage = 0 /\ RolledOver.reserved = 0
                       /\ RolledOver.period = now /\ row.period < now
         /\ ~Expired => RolledOver = row
<1>1. row \in Row /\ now \in Nat
  BY DEF LedgerTypeOK
<1>2. CASE Expired
  <2>1. RolledOver = [row EXCEPT !.usage = 0, !.reserved = 0, !.period = now]
    BY <1>2 DEF RolledOver
  <2>2. QED
    BY <1>1, <1>2, <2>1 DEF Row, Expired
<1>3. CASE ~Expired
  BY <1>1, <1>3 DEF RolledOver
<1>4. QED
  BY <1>2, <1>3

LEMMA LoadedIs ==
  ASSUME LedgerTypeOK, NEW r \in Request
  PROVE  /\ Loaded(r).usage \in Nat /\ Loaded(r).reserved \in Nat
         /\ req[r].snap.id # row.id =>
              Loaded(r).usage = row.usage /\ Loaded(r).reserved = row.reserved
         /\ req[r].snap.id = row.id =>
              /\ Loaded(r).usage = req[r].snap.usage
              /\ Loaded(r).reserved = req[r].snap.reserved
<1>1. CASE req[r].snap.id = row.id
  BY <1>1, RequestFields DEF Loaded
<1>2. CASE req[r].snap.id # row.id
  BY <1>2, RowFields DEF Loaded
<1>3. QED
  BY <1>1, <1>2

\* What a settlement writes.  When the object is as the row is, it subtracts
\* the reservation and adds the charge.
LEMMA SettledRow ==
  ASSUME LedgerTypeOK, NEW r \in Request, NEW charge \in Nat
  PROVE  /\ Settled(r, charge) \in Row
         /\ Settled(r, charge).id = row.id /\ Settled(r, charge).period = row.period
         /\ Settled(r, charge).enabled = row.enabled
         /\ Settled(r, charge).policy = row.policy
         /\ Settled(r, charge).limit = row.limit
         /\ Loaded(r).usage = row.usage => Settled(r, charge).usage = row.usage + charge
         /\ Settled(r, charge).usage \in {row.usage, Loaded(r).usage + charge}
         /\ charge = 0 => Settled(r, charge).usage = row.usage
         /\ Loaded(r).reserved = row.reserved =>
              Settled(r, charge).reserved = Positive(row.reserved - req[r].est)
         /\ req[r].est = 0 => Settled(r, charge).reserved = row.reserved
<1> DEFINE b == Loaded(r)
           newR == Positive(b.reserved - req[r].est)
           newU == b.usage + charge
           wr == Written(row.reserved, b.reserved, newR)
           wu == Written(row.usage, b.usage, newU)
<1>1. Settled(r, charge) = Amounts(row, wr, wu)
  BY DEF Settled, Amounts
<1>2. b.usage \in Nat /\ b.reserved \in Nat /\ req[r].est \in Nat
      /\ row.usage \in Nat /\ row.reserved \in Nat /\ row \in Row
  BY LoadedIs, RequestFields, RowFields
<1> HIDE DEF b
<1>3. newR \in Nat /\ newU \in Nat
  BY <1>2, PositiveIs
<1>4. wr \in Nat /\ (row.reserved = b.reserved => wr = newR)
  BY <1>2, <1>3, WrittenIs
<1>5. wu \in Nat /\ (row.usage = b.usage => wu = newU)
  BY <1>2, <1>3, WrittenIs
<1> HIDE DEF wr, wu, newR, newU
<1>6. /\ Amounts(row, wr, wu) \in Row
      /\ Amounts(row, wr, wu).id = row.id /\ Amounts(row, wr, wu).period = row.period
      /\ Amounts(row, wr, wu).enabled = row.enabled
      /\ Amounts(row, wr, wu).policy = row.policy
      /\ Amounts(row, wr, wu).limit = row.limit
      /\ Amounts(row, wr, wu).reserved = wr /\ Amounts(row, wr, wu).usage = wu
  <2>1. row \in Row /\ wr \in Nat /\ wu \in Nat
    BY <1>2, <1>4, <1>5
  <2>2. QED
    BY <2>1, AmountsRow
<1>7. /\ b.usage = row.usage => wu = row.usage + charge
      /\ wu \in {row.usage, b.usage + charge} /\ (charge = 0 => wu = row.usage)
  BY <1>2, <1>5 DEF newU, wu, Written
<1>8. /\ b.reserved = row.reserved => wr = Positive(row.reserved - req[r].est)
      /\ req[r].est = 0 => wr = row.reserved
  <2>1. b.reserved = row.reserved => wr = Positive(row.reserved - req[r].est)
    BY <1>4 DEF newR
  <2>2. req[r].est = 0 => newR = b.reserved
    BY <1>2 DEF newR, Positive
  <2>3. QED
    BY <2>1, <2>2 DEF wr, Written
<1>9. QED
  BY <1>1, <1>6, <1>7, <1>8 DEF b

-----------------------------------------------------------------------------
(* Requests.                                                               *)

Ended(how) == [Idle EXCEPT !.pc = how]
PricedAt(e) == [Idle EXCEPT !.pc = "priced", !.est = e]
Unreserved(x) == [x EXCEPT !.pc = "calling"]
Holding(x, tag) == [x EXCEPT !.pc = "refreshing", !.tag = tag]
Refreshed(x, snap) == [x EXCEPT !.pc = "calling", !.snap = snap]

LEMMA EndedRecord ==
  ASSUME NEW how \in {"idle", "done", "rejected"}
  PROVE  /\ Ended(how) \in RequestRecord /\ Ended(how).pc = how
         /\ Ended(how).tag = <<0, 0>> /\ Ended(how).snap = NoSnap /\ Ended(how).est = 0
<1>1. NoSnap \in Snap /\ <<0, 0>> \in Nat \X Nat
  BY DEF NoSnap, Snap
<1>2. Idle \in RequestRecord /\ Idle.tag = <<0, 0>> /\ Idle.snap = NoSnap /\ Idle.est = 0
  BY <1>1 DEF Idle, RequestRecord
<1> HIDE DEF Idle
<1>3. QED
  BY <1>2 DEF Ended, RequestRecord

LEMMA PricedAtRecord ==
  ASSUME NEW e \in Nat
  PROVE  /\ PricedAt(e) \in RequestRecord /\ PricedAt(e).pc = "priced"
         /\ PricedAt(e).tag = <<0, 0>> /\ PricedAt(e).snap = NoSnap
         /\ PricedAt(e).est = e
<1>1. NoSnap \in Snap /\ <<0, 0>> \in Nat \X Nat
  BY DEF NoSnap, Snap
<1>2. Idle \in RequestRecord /\ Idle.tag = <<0, 0>> /\ Idle.snap = NoSnap
  BY <1>1 DEF Idle, RequestRecord
<1>3. QED
  BY <1>2 DEF PricedAt, RequestRecord, Running

LEMMA OnItsWayRecord ==
  ASSUME NEW x \in RequestRecord, NEW tag \in Nat \X Nat, NEW snap \in Snap
  PROVE  /\ Unreserved(x) \in RequestRecord /\ Unreserved(x).pc = "calling"
         /\ Unreserved(x).tag = x.tag /\ Unreserved(x).snap = x.snap
         /\ Unreserved(x).est = x.est
         /\ Holding(x, tag) \in RequestRecord /\ Holding(x, tag).pc = "refreshing"
         /\ Holding(x, tag).tag = tag /\ Holding(x, tag).snap = x.snap
         /\ Holding(x, tag).est = x.est
         /\ Refreshed(x, snap) \in RequestRecord /\ Refreshed(x, snap).pc = "calling"
         /\ Refreshed(x, snap).tag = x.tag /\ Refreshed(x, snap).snap = snap
         /\ Refreshed(x, snap).est = x.est
<1>1. /\ Unreserved(x) \in RequestRecord /\ Unreserved(x).pc = "calling"
      /\ Unreserved(x).tag = x.tag /\ Unreserved(x).snap = x.snap
      /\ Unreserved(x).est = x.est
  BY DEF Unreserved, RequestRecord, Running
<1>2. /\ Holding(x, tag) \in RequestRecord /\ Holding(x, tag).pc = "refreshing"
      /\ Holding(x, tag).tag = tag /\ Holding(x, tag).snap = x.snap
      /\ Holding(x, tag).est = x.est
  BY DEF Holding, RequestRecord, Running
<1>3. /\ Refreshed(x, snap) \in RequestRecord /\ Refreshed(x, snap).pc = "calling"
      /\ Refreshed(x, snap).tag = x.tag /\ Refreshed(x, snap).snap = snap
      /\ Refreshed(x, snap).est = x.est
  BY DEF Refreshed, RequestRecord, Running
<1>4. QED
  BY <1>1, <1>2, <1>3

-----------------------------------------------------------------------------
(* What the actions do.                                                    *)

Becomes(r, x) == req' = [req EXCEPT ![r] = x]

LEMMA BecomesIs ==
  ASSUME LedgerTypeOK, NEW r \in Request, NEW x \in RequestRecord, Becomes(r, x)
  PROVE  /\ req' \in [Request -> RequestRecord] /\ req'[r] = x
         /\ \A s \in Request : s # r => req'[s] = req[s]
  BY DEF LedgerTypeOK, Becomes

LEMMA PriceIs ==
  ASSUME LedgerTypeOK, NEW r \in Request, Price(r)
  PROVE  /\ UNCHANGED <<row, now, admin, book>> /\ req[r].pc \notin Running
         /\ Cardinality(InFlight) < MaxInFlight
         /\ \/ Becomes(r, Ended("rejected"))
            \/ \E e \in Cost : Becomes(r, PricedAt(e))
  BY DEF Price, EndAs, Becomes, Ended, PricedAt

LEMMA ReserveIs ==
  ASSUME LedgerTypeOK, NEW r \in Request, Reserve(r)
  PROVE  /\ UNCHANGED <<now, admin>> /\ req[r].pc = "priced"
         /\ \/ /\ ~Active /\ UNCHANGED <<row, book>>
               /\ Becomes(r, Unreserved(req[r]))
            \/ UNCHANGED <<row, book>> /\ Becomes(r, Ended("rejected"))
            \/ /\ Active /\ (row.policy = "WARN" \/ Fits(RolledOver, req[r].est))
               /\ row' = Plus(RolledOver, req[r].est)
               /\ book' = BookAfterRollover
               /\ Becomes(r, Holding(req[r], <<row.id, row'.period>>))
  BY DEF Reserve, EndAs, Becomes, Ended, Unreserved, Holding, Plus

SnapOfRow == [id |-> row.id, usage |-> row.usage, reserved |-> row.reserved]

LEMMA SnapOfRowIs ==
  ASSUME LedgerTypeOK
  PROVE  /\ SnapOfRow \in Snap /\ SnapOfRow.id = row.id
         /\ SnapOfRow.usage = row.usage /\ SnapOfRow.reserved = row.reserved
  BY RowFields DEF SnapOfRow, Snap

LEMMA RefreshIs ==
  ASSUME LedgerTypeOK, NEW r \in Request, Refresh(r)
  PROVE  /\ UNCHANGED <<row, now, admin, book>> /\ req[r].pc = "refreshing"
         /\ \/ row.id = req[r].tag[1] /\ Becomes(r, Refreshed(req[r], SnapOfRow))
            \/ row.id # req[r].tag[1] /\ Becomes(r, Ended("done"))
  BY DEF Refresh, EndAs, Becomes, Ended, Refreshed, SnapOfRow

\* The book after a charge, part of it beyond what was reserved.
Charged(charge, more, columns) ==
    [book EXCEPT !.spent = @ + charge, !.charged = @ + charge,
                 !.beyond = @ + more, !.spoiled = @ \cup columns]
Left(n) == [book EXCEPT !.left = @ + n]

LEMMA LeftIs ==
  ASSUME LedgerTypeOK, NEW n \in Nat
  PROVE  /\ Left(n) \in Book /\ Left(n).left = book.left + n
         /\ Left(n).spent = book.spent /\ Left(n).beyond = book.beyond
         /\ Left(n).charged = book.charged /\ Left(n).edited = book.edited
         /\ Left(n).spoiled = book.spoiled
<1>1. book \in Book
  BY DEF LedgerTypeOK
<1>2. QED
  BY <1>1 DEF Left, Book

LEMMA ChargedIs ==
  ASSUME LedgerTypeOK, NEW charge \in Nat, NEW more \in Nat,
         NEW columns \in SUBSET {"usage", "reserved"}
  PROVE  /\ Charged(charge, more, columns) \in Book
         /\ Charged(charge, more, columns).spent = book.spent + charge
         /\ Charged(charge, more, columns).charged = book.charged + charge
         /\ Charged(charge, more, columns).beyond = book.beyond + more
         /\ Charged(charge, more, columns).left = book.left
         /\ Charged(charge, more, columns).edited = book.edited
         /\ Charged(charge, more, columns).spoiled = book.spoiled \cup columns
<1>1. book \in Book
  BY DEF LedgerTypeOK
<1>2. Charged(charge, more, columns) =
        [spent |-> book.spent + charge, left |-> book.left,
         beyond |-> book.beyond + more, charged |-> book.charged + charge,
         edited |-> book.edited, spoiled |-> book.spoiled \cup columns]
  <2>1. PICK cols : cols = book.spoiled \cup columns
    OBVIOUS
  <2>2. Charged(charge, more, columns) =
          [book EXCEPT !.spent = @ + charge, !.charged = @ + charge,
                       !.beyond = @ + more, !.spoiled = cols]
    BY <1>1, <2>1, Zenon DEF Charged, Book
  <2>3. QED
    BY <1>1, <2>1, <2>2 DEF Book
<1>3. /\ book.spent + charge \in Nat /\ book.beyond + more \in Nat
      /\ book.charged + charge \in Nat /\ book.left \in Nat
      /\ book.edited \in BOOLEAN
  BY RowFields
<1>4. book.spoiled \cup columns \in SUBSET {"usage", "reserved"}
  BY RowFields, Zenon
<1>5. QED
  BY <1>2, <1>3, <1>4 DEF Book

\* The book of the period that a reservation is made in.
LEMMA RolledBookIs ==
  ASSUME LedgerTypeOK
  PROVE  /\ BookAfterRollover \in Book
         /\ Expired => /\ BookAfterRollover.spent = 0 /\ BookAfterRollover.left = 0
                       /\ BookAfterRollover.beyond = 0
                       /\ BookAfterRollover.charged = book.charged
                       /\ BookAfterRollover.edited = FALSE
                       /\ BookAfterRollover.spoiled = {}
         /\ ~Expired => BookAfterRollover = book
<1>1. book \in Book
  BY DEF LedgerTypeOK
<1>2. CASE Expired
  <2>1. BookAfterRollover =
          [spent |-> 0, left |-> 0, beyond |-> 0, charged |-> book.charged,
           edited |-> FALSE, spoiled |-> {}]
    BY <1>2 DEF BookAfterRollover, EmptyBook
  <2>2. QED
    BY <1>1, <1>2, <2>1 DEF Book
<1>3. CASE ~Expired
  BY <1>1, <1>3 DEF BookAfterRollover
<1>4. QED
  BY <1>2, <1>3

LEMMA HoldsIs ==
  ASSUME LedgerTypeOK, NEW r \in Request
  PROVE  /\ Holds[r] \in Nat
         /\ OwnsTag(r) => Holds[r] = req[r].est
         /\ ~OwnsTag(r) => Holds[r] = 0
         /\ req[r].est = 0 => Holds[r] = 0
  BY RequestFields DEF Holds

LEMMA SettleIs ==
  ASSUME LedgerTypeOK, NEW r \in Request, NEW charge \in Nat, Settle(r, charge)
  PROVE  /\ UNCHANGED <<now, admin>> /\ req[r].pc = "calling"
         /\ Becomes(r, Ended("done"))
         /\ \/ Active /\ row' = Settled(r, charge)
               /\ book' = Charged(charge, Positive(charge - Holds[r]), Spoils(r, charge))
            \/ ~Active /\ UNCHANGED row /\ book' = Left(Holds[r])
  BY DEF Settle, EndAs, Becomes, Ended, Charged, LeaveBehind, Left

LEMMA FinishIs ==
  ASSUME LedgerTypeOK, NEW r \in Request, Reconcile(r) \/ Release(r)
  PROVE  \E charge \in Actual \cup {0} : Settle(r, charge)
                                         /\ (charge \in Actual \/ charge = 0)
  BY DEF Reconcile, Release

LEMMA AbandonIs ==
  ASSUME LedgerTypeOK, NEW r \in Request, Abandon(r)
  PROVE  /\ UNCHANGED <<row, now, admin>> /\ req[r].pc \in {"refreshing", "calling"}
         /\ Becomes(r, Ended("done")) /\ book' = Left(Holds[r])
  BY DEF Abandon, EndAs, Becomes, Ended, LeaveBehind, Left

LEMMA FailFreeIs ==
  ASSUME LedgerTypeOK, NEW r \in Request, FailFree(r)
  PROVE  /\ UNCHANGED <<row, now, admin, book>> /\ req[r].pc = "calling"
         /\ Becomes(r, Ended("done")) /\ req[r].est = 0
  BY DEF FailFree, EndAs, Becomes, Ended

-----------------------------------------------------------------------------
(* Type correctness.                                                       *)

LEMMA CostsAreNat == Cost \subseteq Nat /\ Actual \subseteq Nat /\ Limit \subseteq Nat
  BY BudgetAssumption DEF BudgetAssumption

LEMMA BecomesTyped ==
  ASSUME LedgerTypeOK, NEW r \in Request, NEW x \in RequestRecord, Becomes(r, x),
         row' \in Row, now' \in Nat, admin' \in Nat, book' \in Book
  PROVE  LedgerTypeOK'
  BY BecomesIs DEF LedgerTypeOK

\* The book after a charge has its type.
LEMMA ChargedTyped ==
  ASSUME LedgerTypeOK, NEW r \in Request, NEW charge \in Nat
  PROVE  /\ Positive(charge - Holds[r]) \in Nat
         /\ Spoils(r, charge) \in SUBSET {"usage", "reserved"}
         /\ Charged(charge, Positive(charge - Holds[r]), Spoils(r, charge)) \in Book
<1>1. charge - Holds[r] \in Int
  BY HoldsIs
<1>2. Positive(charge - Holds[r]) \in Nat
  BY <1>1, PositiveIs
<1>3. Spoils(r, charge) \in SUBSET {"usage", "reserved"}
  BY DEF Spoils
<1>4. QED
  BY <1>2, <1>3, ChargedIs

LEMMA RequestTyped ==
  ASSUME LedgerTypeOK, NEW r \in Request,
         Price(r) \/ Reserve(r) \/ Refresh(r) \/ Reconcile(r) \/ Release(r)
           \/ FailFree(r) \/ Abandon(r)
  PROVE  LedgerTypeOK'
<1>1. /\ row \in Row /\ book \in Book /\ now \in Nat /\ admin \in Nat
      /\ req[r] \in RequestRecord /\ req[r].est \in Nat
  BY RowFields, RequestFields
<1>2. Ended("done") \in RequestRecord /\ Ended("rejected") \in RequestRecord
  BY EndedRecord
<1>3. CASE Price(r)
  <2>1. UNCHANGED <<row, now, admin, book>>
    BY <1>3, PriceIs
  <2>2. CASE Becomes(r, Ended("rejected"))
    BY <1>1, <1>2, <2>1, <2>2, BecomesTyped
  <2>3. ASSUME NEW e \in Cost, Becomes(r, PricedAt(e)) PROVE LedgerTypeOK'
    BY <1>1, <2>1, <2>3, PricedAtRecord, CostsAreNat, BecomesTyped
  <2>4. QED
    BY <1>3, <2>2, <2>3, PriceIs
<1>4. CASE Reserve(r)
  <2>1. UNCHANGED <<now, admin>>
    BY <1>4, ReserveIs
  <2>2. CASE UNCHANGED <<row, book>> /\ Becomes(r, Unreserved(req[r]))
    <3>1. Unreserved(req[r]) \in RequestRecord
      BY <1>1 DEF Unreserved, RequestRecord, Running
    <3>2. PICK x \in RequestRecord : x = Unreserved(req[r])
      BY <3>1
    <3>3. QED
      BY <1>1, <2>1, <2>2, <3>2, BecomesTyped
  <2>3. CASE UNCHANGED <<row, book>> /\ Becomes(r, Ended("rejected"))
    BY <1>1, <1>2, <2>1, <2>3, BecomesTyped
  <2>4. CASE /\ row' = Plus(RolledOver, req[r].est)
             /\ book' = BookAfterRollover
             /\ Becomes(r, Holding(req[r], <<row.id, row'.period>>))
    <3>1. row' \in Row /\ book' \in Book
      BY <1>1, <2>4, RolledOverRow, PlusRow, RolledBookIs
    <3>2. <<row.id, row'.period>> \in Nat \X Nat
      BY <3>1, RowFields DEF Row
    <3>3. PICK tag \in Nat \X Nat : tag = <<row.id, row'.period>>
      BY <3>2
    <3>4. Holding(req[r], tag) \in RequestRecord
      BY <1>1 DEF Holding, RequestRecord, Running
    <3>5. PICK x \in RequestRecord : x = Holding(req[r], tag)
      BY <3>4
    <3>6. Becomes(r, x)
      BY <2>4, <3>3, <3>5
    <3>7. QED
      BY <1>1, <2>1, <3>1, <3>6, BecomesTyped
  <2>5. QED
    BY <1>4, <2>2, <2>3, <2>4, ReserveIs
<1>5. CASE Refresh(r)
  <2>1. UNCHANGED <<row, now, admin, book>>
    BY <1>5, RefreshIs
  <2>2. CASE Becomes(r, Ended("done"))
    BY <1>1, <1>2, <2>1, <2>2, BecomesTyped
  <2>3. CASE Becomes(r, Refreshed(req[r], SnapOfRow))
    <3>1. PICK snap \in Snap : snap = SnapOfRow
      BY SnapOfRowIs
    <3>2. Refreshed(req[r], snap) \in RequestRecord
      BY <1>1 DEF Refreshed, RequestRecord, Running
    <3>3. PICK x \in RequestRecord : x = Refreshed(req[r], snap)
      BY <3>2
    <3>4. Becomes(r, x)
      BY <2>3, <3>1, <3>3
    <3>5. QED
      BY <1>1, <2>1, <3>4, BecomesTyped
  <2>4. QED
    BY <1>5, <2>2, <2>3, RefreshIs
<1>6. CASE Reconcile(r) \/ Release(r)
  <2>1. PICK charge \in Nat : Settle(r, charge)
    BY <1>6, FinishIs, CostsAreNat
  <2>2. UNCHANGED <<now, admin>> /\ Becomes(r, Ended("done"))
    BY <2>1, SettleIs
  <2>3. row' \in Row /\ book' \in Book
    <3>1. CASE /\ row' = Settled(r, charge)
               /\ book' = Charged(charge, Positive(charge - Holds[r]), Spoils(r, charge))
      BY <3>1, SettledRow, ChargedTyped
    <3>2. CASE UNCHANGED row /\ book' = Left(Holds[r])
      BY <1>1, <3>2, HoldsIs, LeftIs
    <3>3. QED
      BY <2>1, <3>1, <3>2, SettleIs
  <2>4. QED
    BY <1>1, <1>2, <2>2, <2>3, BecomesTyped
<1>7. CASE FailFree(r)
  BY <1>1, <1>2, <1>7, FailFreeIs, BecomesTyped
<1>8. CASE Abandon(r)
  <2>1. book' \in Book
    BY <1>8, AbandonIs, HoldsIs, LeftIs
  <2>2. QED
    BY <1>1, <1>2, <1>8, <2>1, AbandonIs, BecomesTyped
<1>9. QED
  BY <1>3, <1>4, <1>5, <1>6, <1>7, <1>8

\* A row an administrator has created, and one that has been updated.
RowAfresh(id, on, p, l, period) ==
    [id |-> id, enabled |-> on, policy |-> p, limit |-> l,
     usage |-> 0, reserved |-> 0, period |-> period]
RowUpdated(l, p, on) == [row EXCEPT !.limit = l, !.policy = p, !.enabled = on]

LEMMA RowAfreshIs ==
  ASSUME NEW id \in Nat, NEW on \in BOOLEAN, NEW p \in Policy, NEW l \in Limit,
         NEW period \in Nat
  PROVE  /\ RowAfresh(id, on, p, l, period) \in Row
         /\ RowAfresh(id, on, p, l, period).id = id
         /\ RowAfresh(id, on, p, l, period).usage = 0
         /\ RowAfresh(id, on, p, l, period).reserved = 0
         /\ RowAfresh(id, on, p, l, period).limit = l
<1>1. p \in {"BLOCK", "WARN", "DOWNGRADE"} /\ l \in Nat
  BY BudgetAssumption DEF BudgetAssumption
<1>2. QED
  BY <1>1 DEF RowAfresh, Row

LEMMA RowUpdatedIs ==
  ASSUME LedgerTypeOK, NEW on \in BOOLEAN, NEW p \in Policy, NEW l \in Limit
  PROVE  /\ RowUpdated(l, p, on) \in Row /\ RowUpdated(l, p, on).id = row.id
         /\ RowUpdated(l, p, on).period = row.period
         /\ RowUpdated(l, p, on).usage = row.usage
         /\ RowUpdated(l, p, on).reserved = row.reserved
<1>1. p \in {"BLOCK", "WARN", "DOWNGRADE"} /\ l \in Nat
  BY BudgetAssumption DEF BudgetAssumption
<1>2. QED
  BY <1>1 DEF RowUpdated, Row, LedgerTypeOK

LEMMA NothingThere ==
  /\ NoRow \in Row /\ NoRow.id = 0
  /\ NoRow.usage = 0 /\ EmptyBook \in Book /\ EmptyBook.left = 0 /\ EmptyBook.spent = 0
  /\ EmptyBook.beyond = 0 /\ EmptyBook.charged = 0 /\ EmptyBook.spoiled = {}
  BY DEF NoRow, Row, EmptyBook, Book

Edited == [book EXCEPT !.edited = TRUE]

LEMMA EditedIs ==
  ASSUME LedgerTypeOK
  PROVE  /\ Edited \in Book /\ Edited.edited /\ Edited.spent = book.spent
         /\ Edited.left = book.left /\ Edited.charged = book.charged
         /\ Edited.spoiled = book.spoiled
<1>1. book \in Book
  BY DEF LedgerTypeOK
<1>2. QED
  BY <1>1 DEF Edited, Book

\* What an administrator does to the row and the book.
LEMMA AdminIs ==
  ASSUME LedgerTypeOK, CreateBudget \/ UpdateBudget \/ DeleteBudget
  PROVE  /\ UNCHANGED <<now, req>> /\ admin' = admin + 1 /\ admin < MaxAdmin
         /\ row' \in Row /\ book' \in Book
         /\ \/ /\ row'.id = admin + 1 /\ row'.usage = 0 /\ row'.reserved = 0
               /\ book' = EmptyBook
            \/ /\ row'.id = row.id /\ row'.period = row.period
               /\ row'.usage = row.usage /\ row'.reserved = row.reserved
               /\ book' = Edited
            \/ row'.id = 0 /\ row'.usage = 0 /\ book' = EmptyBook
<1>1. UNCHANGED <<now, req>> /\ admin' = admin + 1 /\ admin < MaxAdmin
  BY DEF CreateBudget, UpdateBudget, DeleteBudget, AdminActs
<1>2. CASE CreateBudget
  <2>1. PICK l \in Limit, p \in Policy, on \in BOOLEAN :
          row' = RowAfresh(admin', on, p, l, now)
    BY <1>2 DEF CreateBudget, RowAfresh
  <2>2. admin' \in Nat /\ now \in Nat /\ row.id = 0 /\ book' = EmptyBook
    BY <1>1, <1>2, RowFields DEF CreateBudget
  <2>3. row' \in Row /\ row'.id = admin + 1 /\ row'.usage = 0 /\ row'.reserved = 0
    BY <1>1, <2>1, <2>2, RowAfreshIs
  <2>4. QED
    BY <1>1, <2>2, <2>3, NothingThere
<1>3. CASE UpdateBudget
  <2>1. PICK l \in Limit, p \in Policy, on \in BOOLEAN : row' = RowUpdated(l, p, on)
    BY <1>3 DEF UpdateBudget, RowUpdated
  <2>2. QED
    <3>1. row' \in Row /\ row'.id = row.id /\ row'.period = row.period
          /\ row'.usage = row.usage /\ row'.reserved = row.reserved
      BY <2>1, RowUpdatedIs
    <3>2. book' = Edited /\ Edited \in Book
      BY <1>3, EditedIs DEF UpdateBudget, Edited
    <3>3. QED
      BY <1>1, <3>1, <3>2
<1>4. CASE DeleteBudget
  BY <1>1, <1>4, NothingThere DEF DeleteBudget
<1>5. QED
  BY <1>2, <1>3, <1>4

LEMMA NextTyped ==
  ASSUME LedgerTypeOK, [LedgerNext]_ledgerVars PROVE LedgerTypeOK'
<1>1. CASE \E r \in Request :
             Price(r) \/ Reserve(r) \/ Refresh(r) \/ Reconcile(r) \/ Release(r)
               \/ FailFree(r) \/ Abandon(r)
  BY <1>1, RequestTyped
<1>2. CASE CreateBudget \/ UpdateBudget \/ DeleteBudget
  <2>1. UNCHANGED <<now, req>> /\ admin' = admin + 1 /\ row' \in Row /\ book' \in Book
    BY <1>2, AdminIs
  <2>2. QED
    BY <2>1 DEF LedgerTypeOK
<1>3. CASE NextPeriod
  BY <1>3 DEF NextPeriod, LedgerTypeOK
<1>4. CASE UNCHANGED ledgerVars
  BY <1>4 DEF ledgerVars, LedgerTypeOK
<1>5. QED
  BY <1>1, <1>2, <1>3, <1>4 DEF LedgerNext

\* The row at the start.
LEMMA RowAtStart ==
  ASSUME LedgerInit
  PROVE  /\ row \in Row /\ row.id \in {0, 1} /\ row.usage = 0 /\ row.reserved = 0
<1>1. CASE row = NoRow
  BY <1>1, NothingThere DEF NoRow
<1>2. CASE row # NoRow
  <2>1. PICK p \in Policy, l \in Limit : row = RowAfresh(1, TRUE, p, l, 1)
    BY <1>2 DEF LedgerInit, RowAfresh
  <2>2. PICK on \in BOOLEAN : on = TRUE
    OBVIOUS
  <2>3. row = RowAfresh(1, on, p, l, 1)
    BY <2>1, <2>2
  <2>4. QED
    BY <2>3, RowAfreshIs
<1>3. QED
  BY <1>1, <1>2

LEMMA InitTyped ==
  ASSUME LedgerInit
  PROVE  LedgerTypeOK /\ \A r \in Request : req[r] = Ended("idle")
<1>1. Idle = Ended("idle")
  BY DEF Ended, Idle
<1>2. Ended("idle") \in RequestRecord
  BY EndedRecord
<1> HIDE DEF Idle, Ended
<1>3. req \in [Request -> RequestRecord] /\ \A r \in Request : req[r] = Ended("idle")
  BY <1>1, <1>2 DEF LedgerInit
<1>4. QED
  BY <1>3, RowAtStart, NothingThere DEF LedgerInit, LedgerTypeOK

\* For any number of callers, in any interleaving: what requests, administrator
\* and clock write into the row has its type.  In particular `reserved' never goes
\* below zero.
THEOREM LedgerTyped == LedgerSpec => []LedgerTypeOK
<1>1. LedgerInit => LedgerTypeOK
  BY InitTyped
<1>2. LedgerTypeOK /\ [LedgerNext]_ledgerVars => LedgerTypeOK'
  BY NextTyped
<1>3. QED
  BY <1>1, <1>2, PTL DEF LedgerSpec

-----------------------------------------------------------------------------
(* What all requests hold.                                                 *)

LEMMA HeldSum == Held = SumOver(Holds, Request)
  BY DEF Held, SumOver

LEMMA HeldIs ==
  ASSUME LedgerTypeOK
  PROVE  /\ IsFiniteSet(Request) /\ Held = SumOver(Holds, Request) /\ Held \in Nat
         /\ \A r \in Request : Holds[r] \in Nat /\ Holds[r] <= Held
<1>1. IsFiniteSet(Request)
  BY BudgetAssumption
<1>2. Held = SumOver(Holds, Request)
  BY DEF Held, SumOver
<1>3. PICK F : F = Holds
  OBVIOUS
<1>4. \A r \in Request : F[r] \in Nat
  BY <1>3, HoldsIs
<1>5. SumOver(F, Request) \in Nat
  BY <1>1, <1>4, SumNat
<1>6. ASSUME NEW r \in Request PROVE F[r] <= SumOver(F, Request)
  <2>1. SumOver(F, Request) = F[r] + SumOver(F, Request \ {r})
    BY <1>1, <1>4, SumTake
  <2>2. SumOver(F, Request \ {r}) \in Nat
    BY <1>1, <1>4, SumNat, FS_Subset
  <2>3. QED
    BY <1>4, <2>1, <2>2
<1>7. QED
  BY <1>1, <1>2, <1>3, <1>4, <1>5, <1>6

\* One term of a sum changes.
LEMMA SumChange ==
  ASSUME NEW F, NEW H, NEW S, IsFiniteSet(S), NEW x \in S,
         \A i \in S : F[i] \in Nat /\ H[i] \in Nat,
         \A i \in S \ {x} : H[i] = F[i]
  PROVE  SumOver(H, S) = SumOver(F, S) - F[x] + H[x]
<1>1. PICK u : u = S \ {x}
  OBVIOUS
<1>2. IsFiniteSet(u)
  BY <1>1, FS_Subset
<1>3. SumOver(F, S) = F[x] + SumOver(F, u) /\ SumOver(H, S) = H[x] + SumOver(H, u)
  BY <1>1, SumTake
<1>4. SumOver(F, u) = SumOver(H, u)
  BY <1>1, <1>2, SumSame DEF Agree
<1>5. SumOver(F, u) \in Nat
  BY <1>1, <1>2, SumNat
<1>6. QED
  BY <1>3, <1>4, <1>5

\* The requests are as in LedgerTypeOK after a step, and so are their shares.
LEMMA HeldAfter ==
  ASSUME LedgerTypeOK, LedgerTypeOK'
  PROVE  /\ Held' = SumOver(Holds', Request) /\ Held' \in Nat
         /\ \A r \in Request : Holds'[r] \in Nat
<1>1. Held' = SumOver(Holds', Request)
  BY DEF Held, SumOver, MapThenSumSet, MapThenFoldSet
<1>2. PICK H : H = Holds'
  OBVIOUS
<1>3. \A r \in Request : H[r] \in Nat
  BY <1>2 DEF LedgerTypeOK, RequestRecord, Holds
<1>4. SumOver(H, Request) \in Nat
  BY <1>3, BudgetAssumption, SumNat
<1>5. QED
  BY <1>1, <1>2, <1>3, <1>4

\* The step of one request.
LEMMA HeldMoves ==
  ASSUME LedgerTypeOK, LedgerTypeOK', NEW r \in Request,
         \A s \in Request : s # r => Holds'[s] = Holds[s]
  PROVE  Held' = Held - Holds[r] + Holds'[r]
<1>1. PICK F, H : F = Holds /\ H = Holds'
  OBVIOUS
<1>2. /\ \A i \in Request : F[i] \in Nat /\ H[i] \in Nat
      /\ \A i \in Request \ {r} : H[i] = F[i]
  BY <1>1, HoldsIs, HeldAfter
<1>3. SumOver(H, Request) = SumOver(F, Request) - F[r] + H[r]
  BY <1>2, SumChange, BudgetAssumption
<1>4. QED
  BY <1>1, <1>3, HeldIs, HeldAfter

\* Nobody but perhaps one request holds anything after the step.
LEMMA HeldOnly ==
  ASSUME LedgerTypeOK, LedgerTypeOK', NEW r \in Request,
         \A s \in Request : s # r => Holds'[s] = 0
  PROVE  Held' = Holds'[r]
<1>1. PICK H, u : H = Holds' /\ u = Request \ {r}
  OBVIOUS
<1>2. /\ \A i \in Request : H[i] \in Nat
      /\ \A i \in u : H[i] = 0
  BY <1>1, HeldAfter
<1>3. IsFiniteSet(Request) /\ IsFiniteSet(u)
  BY <1>1, BudgetAssumption, FS_Subset
<1>4. SumOver(H, Request) = H[r] + SumOver(H, u)
  BY <1>1, <1>2, <1>3, SumTake
<1>5. SumOver(H, u) = 0
  BY <1>2, <1>3, SumZero
<1>6. QED
  BY <1>1, <1>2, <1>4, <1>5, HeldAfter

LEMMA HeldNone ==
  ASSUME LedgerTypeOK, LedgerTypeOK', \A s \in Request : Holds'[s] = 0
  PROVE  Held' = 0
<1>1. PICK H : H = Holds'
  OBVIOUS
<1>2. SumOver(H, Request) = 0
  BY <1>1, BudgetAssumption, SumZero
<1>3. QED
  BY <1>1, <1>2, HeldAfter

LEMMA HeldSame ==
  ASSUME LedgerTypeOK, LedgerTypeOK', \A s \in Request : Holds'[s] = Holds[s]
  PROVE  Held' = Held
<1>1. PICK F, H : F = Holds /\ H = Holds'
  OBVIOUS
<1>2. SumOver(F, Request) = SumOver(H, Request)
  BY <1>1, BudgetAssumption, SumSame DEF Agree
<1>3. QED
  BY <1>1, <1>2, HeldIs, HeldAfter

-----------------------------------------------------------------------------
(* The inductive invariant.                                                *)

Sound(x) ==
    /\ x.pc \notin {"refreshing", "calling"} => x.tag = <<0, 0>> /\ x.snap = NoSnap
    /\ x.tag[1] <= admin /\ x.snap.id <= admin
    /\ row.id # 0 /\ x.tag[1] = row.id => x.tag[2] <= row.period
    /\ row.id # 0 /\ x.snap.id = row.id => x.snap.usage <= book.charged

Accounts == LedgerAccurate /\ OverspendExplained /\ UsageNeverInvented

LedgerInv ==
    /\ LedgerTypeOK
    /\ row.id <= admin
    /\ \A r \in Request : Sound(req[r])
    /\ Accounts

\* What x would hold in the present row.
Share(x) == IF x.tag = <<row.id, row.period>> /\ row.id # 0 THEN x.est ELSE 0

\* A step of one request keeps what the others carry.
LEMMA SoundKeeps ==
  ASSUME LedgerInv, NEW r \in Request, NEW x \in RequestRecord, Becomes(r, x),
         UNCHANGED <<now, admin>>, row'.id = row.id, row'.period \in Nat,
         row.period <= row'.period, book'.charged \in Nat,
         book.charged <= book'.charged, Sound(x)'
  PROVE  \A s \in Request : Sound(req[s])'
<1>1. LedgerTypeOK
  BY DEF LedgerInv
<1>2. req'[r] = x /\ \A s \in Request : s # r => req'[s] = req[s]
  BY <1>1, BecomesIs
<1>3. ASSUME NEW s \in Request PROVE Sound(req[s])'
  <2>1. CASE s = r
    BY <1>2, <2>1 DEF Sound
  <2>2. CASE s # r
    <3>1. req'[s] = req[s] /\ Sound(req[s])
      BY <1>2, <2>2 DEF LedgerInv
    <3>2. /\ req[s].tag[2] \in Nat /\ req[s].snap.usage \in Nat
          /\ row.period \in Nat /\ book.charged \in Nat
      BY <1>1, RequestFields, RowFields
    <3>3. QED
      BY <3>1, <3>2 DEF Sound
  <2>3. QED
    BY <2>1, <2>2
<1>4. QED
  BY <1>3

\* What the others hold in a row whose period stays.
LEMMA OthersHold ==
  ASSUME LedgerTypeOK, NEW r \in Request, NEW x \in RequestRecord, Becomes(r, x),
         row'.id = row.id, row'.period = row.period
  PROVE  /\ \A s \in Request : s # r => Holds'[s] = Holds[s]
         /\ Holds'[r] = Share(x)
<1>1. req'[r] = x /\ \A s \in Request : s # r => req'[s] = req[s]
  BY BecomesIs
<1>2. QED
  BY <1>1 DEF Holds, OwnsTag, Share

LEMMA StepHolds ==
  ASSUME LedgerTypeOK, LedgerTypeOK', NEW r \in Request, NEW x \in RequestRecord,
         Becomes(r, x), row'.id = row.id, row'.period = row.period
  PROVE  Held' = Held - Holds[r] + Share(x)
<1>1. \A s \in Request : s # r => Holds'[s] = Holds[s]
  BY OthersHold
<1>2. Holds'[r] = Share(x)
  BY OthersHold
<1>3. QED
  BY <1>1, <1>2, HeldMoves

\* A step of one request that leaves row and book alone and holds what it held.
LEMMA QuietKeeps ==
  ASSUME LedgerInv, NEW r \in Request, NEW x \in RequestRecord, Becomes(r, x),
         UNCHANGED <<row, now, admin, book>>, Share(x) = Holds[r], Sound(x)'
  PROVE  LedgerInv'
<1>1. LedgerTypeOK /\ row \in Row /\ book \in Book /\ now \in Nat /\ admin \in Nat
  BY RowFields DEF LedgerInv
<1>2. LedgerTypeOK'
  BY <1>1, BecomesTyped
<1>3. Held' = Held
  <2>1. Held' = Held - Holds[r] + Share(x)
    BY <1>1, <1>2, StepHolds
  <2>2. Held \in Nat /\ Holds[r] \in Nat
    BY <1>1, HeldIs
  <2>3. QED
    BY <2>1, <2>2
<1>4. \A s \in Request : Sound(req[s])'
  <2>1. row.period \in Nat /\ book.charged \in Nat
    BY <1>1, RowFields
  <2>2. QED
    BY <2>1, SoundKeeps
<1>5. Accounts'
  BY <1>3 DEF LedgerInv, Accounts, LedgerAccurate, OverspendExplained, UsageNeverInvented
<1>6. QED
  BY <1>2, <1>4, <1>5 DEF LedgerInv

\* A request without a tag and an object is sound and holds nothing.
LEMMA BlankIs ==
  ASSUME NEW x, x.tag = <<0, 0>>, x.snap = NoSnap
  PROVE  /\ Share(x) = 0
         /\ LedgerTypeOK => Sound(x)
<1>1. Share(x) = 0
  BY DEF Share
<1>2. ASSUME LedgerTypeOK PROVE Sound(x)
  <2>1. admin \in Nat
    BY <1>2, RowFields
  <2>2. x.tag[1] = 0 /\ x.snap.id = 0
    BY DEF NoSnap
  <2>3. QED
    BY <2>1, <2>2 DEF Sound
<1>3. QED
  BY <1>1, <1>2

LEMMA BlankSound ==
  ASSUME NEW x, x.tag = <<0, 0>>, x.snap = NoSnap, admin' \in Nat
  PROVE  Sound(x)'
<1>1. x.tag[1] = 0 /\ x.snap.id = 0
  BY DEF NoSnap
<1>2. QED
  BY <1>1 DEF Sound

\* A request that has not reserved holds nothing.
LEMMA UntaggedHolds ==
  ASSUME LedgerTypeOK, NEW r \in Request, req[r].tag = <<0, 0>>
  PROVE  Holds[r] = 0
<1>1. ~OwnsTag(r)
  BY DEF OwnsTag
<1>2. QED
  BY <1>1, HoldsIs

\* It becomes a record without tag and object, and nothing else happens.
LEMMA BlankKeeps ==
  ASSUME LedgerInv, NEW r \in Request, NEW x \in RequestRecord, Becomes(r, x),
         x.tag = <<0, 0>>, x.snap = NoSnap, Holds[r] = 0,
         UNCHANGED <<row, now, admin, book>>
  PROVE  LedgerInv'
<1>1. Share(x) = 0
  BY BlankIs
<1>2. admin' \in Nat
  BY RowFields DEF LedgerInv
<1>3. Sound(x)'
  BY <1>2, BlankSound
<1>4. QED
  BY <1>1, <1>3, QuietKeeps

-----------------------------------------------------------------------------
(* The steps of a request.                                                 *)

LEMMA PriceKeeps ==
  ASSUME LedgerInv, NEW r \in Request, Price(r) PROVE LedgerInv'
<1>1. LedgerTypeOK
  BY DEF LedgerInv
<1>2. UNCHANGED <<row, now, admin, book>> /\ req[r].pc \notin Running
  BY <1>1, PriceIs
<1>3. Holds[r] = 0
  BY <1>1, <1>2, UntaggedHolds DEF LedgerInv, Sound, Running
<1>4. CASE Becomes(r, Ended("rejected"))
  BY <1>2, <1>3, <1>4, EndedRecord, BlankKeeps
<1>5. ASSUME NEW e \in Cost, Becomes(r, PricedAt(e)) PROVE LedgerInv'
  BY <1>2, <1>3, <1>5, CostsAreNat, PricedAtRecord, BlankKeeps
<1>6. QED
  BY <1>1, <1>4, <1>5, PriceIs

\* A reservation in the period of the row, and one that rolls it over.
LEMMA ReservationKeeps ==
  ASSUME LedgerInv, NEW r \in Request, Active,
         row.policy = "WARN" \/ Fits(RolledOver, req[r].est),
         req[r].tag = <<0, 0>>,
         row' = Plus(RolledOver, req[r].est), book' = BookAfterRollover,
         UNCHANGED <<now, admin>>,
         Becomes(r, Holding(req[r], <<row.id, row'.period>>)),
         LedgerTypeOK'
  PROVE  Accounts'
<1>1. LedgerTypeOK /\ row.id # 0 /\ Accounts /\ req[r].est \in Nat /\ req[r] \in RequestRecord
  BY RequestFields DEF LedgerInv, Active
<1>2. PICK est \in Nat : est = req[r].est
  BY <1>1
<1>3. /\ row'.id = row.id /\ row'.usage = RolledOver.usage /\ row'.policy = row.policy
      /\ row'.reserved = RolledOver.reserved + est /\ row'.limit = row.limit
      /\ row'.period = RolledOver.period
  BY <1>1, <1>2, RolledOverRow, PlusRow
<1>4. /\ row.usage \in Nat /\ row.reserved \in Nat /\ row.limit \in Nat
      /\ row.period \in Nat /\ now \in Nat
      /\ book.spent \in Nat /\ book.left \in Nat /\ book.beyond \in Nat
      /\ book.charged \in Nat /\ Held \in Nat
  BY <1>1, RowFields, HeldIs
<1>5. PICK tag \in Nat \X Nat : tag = <<row.id, row'.period>>
  BY <1>1, <1>3, RolledOverRow, RowFields DEF Row
<1>6. PICK x \in RequestRecord : x = Holding(req[r], tag) /\ x.tag = tag /\ x.est = est
  <2>1. req[r].snap \in Snap
    BY <1>1, RequestFields
  <2>2. QED
    BY <1>1, <1>2, <2>1, OnItsWayRecord
<1>7. Becomes(r, x)
  BY <1>5, <1>6
<1>8. req'[r] = x /\ \A s \in Request : s # r => req'[s] = req[s]
  BY <1>1, <1>7, BecomesIs
<1>9. Holds'[r] = est
  BY <1>1, <1>3, <1>5, <1>6, <1>8 DEF Holds, OwnsTag
<1>10. row.policy \in {"BLOCK", "DOWNGRADE"} =>
         RolledOver.usage + RolledOver.reserved + est <= row.limit
  BY <1>1, <1>2, RolledOverRow DEF Fits
<1>11. CASE Expired
  <2>1. ASSUME NEW s \in Request, s # r PROVE Holds'[s] = 0
    <3>1. Sound(req[s]) /\ req'[s] = req[s] /\ req[s].tag[1] \in Nat /\ req[s].tag[2] \in Nat
      BY <1>1, <1>8, <2>1, RequestFields DEF LedgerInv
    <3>2. row'.period = now /\ row.period < now
      BY <1>1, <1>3, <1>11, RolledOverRow
    <3>3. req[s].tag # <<row.id, now>>
      <4>1. SUFFICES ASSUME req[s].tag = <<row.id, now>> PROVE FALSE
        OBVIOUS
      <4>2. req[s].tag[1] = row.id /\ req[s].tag[2] = now
        BY <4>1
      <4>3. now <= row.period
        BY <1>1, <3>1, <4>2 DEF Sound
      <4>4. QED
        BY <1>4, <3>2, <4>3
    <3>4. QED
      BY <1>3, <3>1, <3>2, <3>3 DEF Holds, OwnsTag
  <2>2. Held' = est
    BY <1>1, <1>9, <2>1, HeldOnly
  <2>3. /\ book'.spent = 0 /\ book'.left = 0 /\ book'.beyond = 0
        /\ book'.charged = book.charged /\ book'.spoiled = {}
    BY <1>1, <1>11, RolledBookIs
  <2>4. row'.usage = 0 /\ row'.reserved = est
    BY <1>1, <1>3, <1>11, RolledOverRow
  <2>5. row.policy \in {"BLOCK", "DOWNGRADE"} => est <= row.limit
    BY <1>1, <1>10, <1>11, RolledOverRow
  <2>6. LedgerAccurate' /\ UsageNeverInvented'
    BY <1>4, <2>2, <2>3, <2>4 DEF LedgerAccurate, UsageNeverInvented
  <2>7. OverspendExplained'
    BY <1>3, <1>4, <2>2, <2>3, <2>5 DEF OverspendExplained
  <2>8. QED
    BY <2>6, <2>7 DEF Accounts
<1>12. CASE ~Expired
  <2>1. row'.period = row.period /\ row'.usage = row.usage
        /\ row'.reserved = row.reserved + est
    BY <1>1, <1>3, <1>12, RolledOverRow
  <2>2. book' = book
    BY <1>1, <1>12, RolledBookIs
  <2>3. Held' = Held + est
    <3>1. \A s \in Request : s # r => Holds'[s] = Holds[s]
      BY <1>1, <1>3, <1>7, <2>1, OthersHold
    <3>2. Held' = Held - Holds[r] + Holds'[r]
      BY <1>1, <3>1, HeldMoves
    <3>3. Holds[r] = 0
      BY <1>1, UntaggedHolds
    <3>4. QED
      BY <1>4, <1>9, <3>2, <3>3
  <2>4. LedgerAccurate' /\ UsageNeverInvented'
    BY <1>1, <1>4, <2>1, <2>2, <2>3 DEF Accounts, LedgerAccurate, UsageNeverInvented
  <2>5. row.policy \in {"BLOCK", "DOWNGRADE"} => row.usage + row.reserved + est <= row.limit
    BY <1>1, <1>10, <1>12, RolledOverRow
  <2>6. book.spoiled = {} => row.usage = book.spent /\ Held <= row.reserved
    BY <1>1 DEF Accounts, LedgerAccurate
  <2>7. OverspendExplained'
    BY <1>3, <1>4, <2>2, <2>3, <2>5, <2>6 DEF OverspendExplained
  <2>8. QED
    BY <2>4, <2>7 DEF Accounts
<1>13. QED
  BY <1>11, <1>12

LEMMA ReserveKeeps ==
  ASSUME LedgerInv, NEW r \in Request, Reserve(r) PROVE LedgerInv'
<1>1. LedgerTypeOK /\ row.id <= admin /\ LedgerTypeOK'
  BY RequestTyped DEF LedgerInv
<1>2. UNCHANGED <<now, admin>> /\ req[r].pc = "priced"
  BY <1>1, ReserveIs
<1>3. /\ req[r] \in RequestRecord /\ req[r].est \in Nat
      /\ req[r].tag = <<0, 0>> /\ req[r].snap = NoSnap
  BY <1>1, <1>2, RequestFields DEF LedgerInv, Sound
<1>4. Holds[r] = 0
  BY <1>1, <1>3, UntaggedHolds
<1>5. CASE UNCHANGED <<row, book>> /\ Becomes(r, Unreserved(req[r]))
  <2>1. /\ Unreserved(req[r]) \in RequestRecord
        /\ Unreserved(req[r]).tag = <<0, 0>> /\ Unreserved(req[r]).snap = NoSnap
    BY <1>3 DEF Unreserved, RequestRecord, Running
  <2>2. PICK x \in RequestRecord : x = Unreserved(req[r])
    BY <2>1
  <2>3. Becomes(r, x) /\ x.tag = <<0, 0>> /\ x.snap = NoSnap
    BY <1>5, <2>1, <2>2
  <2>4. QED
    BY <1>2, <1>4, <1>5, <2>3, BlankKeeps
<1>6. CASE UNCHANGED <<row, book>> /\ Becomes(r, Ended("rejected"))
  BY <1>2, <1>4, <1>6, EndedRecord, BlankKeeps
<1>7. CASE /\ Active /\ (row.policy = "WARN" \/ Fits(RolledOver, req[r].est))
           /\ row' = Plus(RolledOver, req[r].est)
           /\ book' = BookAfterRollover
           /\ Becomes(r, Holding(req[r], <<row.id, row'.period>>))
  <2>1. Accounts'
    BY <1>1, <1>2, <1>3, <1>7, ReservationKeeps
  <2>2. row.id # 0 /\ row.id \in Nat /\ now \in Nat /\ row.period \in Nat
        /\ book.charged \in Nat /\ admin \in Nat
    BY <1>1, <1>7, RowFields DEF Active
  <2>3. row'.id = row.id /\ row'.period = RolledOver.period
    BY <1>1, <1>3, <1>7, RolledOverRow, PlusRow
  <2>4. row'.period \in Nat /\ row.period <= row'.period
    BY <1>1, <2>2, <2>3, RolledOverRow
  <2>5. book'.charged = book.charged
    BY <1>1, <1>7, RolledBookIs
  <2>6. PICK tag \in Nat \X Nat : tag = <<row.id, row'.period>>
    BY <2>2, <2>4
  <2>7. PICK x \in RequestRecord : x = Holding(req[r], tag)
                                   /\ x.tag = tag /\ x.snap = NoSnap /\ x.pc = "refreshing"
    <3>1. req[r].snap \in Snap
      BY <1>1, RequestFields
    <3>2. QED
      BY <1>3, <3>1, OnItsWayRecord
  <2>8. Becomes(r, x)
    BY <1>7, <2>6, <2>7
  <2>9. Sound(x)'
    <3>1. x.tag[1] = row.id /\ x.tag[2] = row'.period /\ x.snap.id = 0
      BY <2>6, <2>7 DEF NoSnap
    <3>2. row.id <= admin /\ admin' = admin /\ row'.period <= row'.period /\ 0 <= admin
      BY <1>1, <1>2, <2>2, <2>4
    <3>3. QED
      BY <2>2, <2>3, <2>7, <3>1, <3>2 DEF Sound
  <2>10. \A s \in Request : Sound(req[s])'
    BY <1>2, <2>2, <2>3, <2>4, <2>5, <2>8, <2>9, SoundKeeps
  <2>11. QED
    BY <1>1, <1>2, <2>1, <2>3, <2>10 DEF LedgerInv
<1>8. QED
  BY <1>1, <1>5, <1>6, <1>7, ReserveIs

LEMMA RefreshKeeps ==
  ASSUME LedgerInv, NEW r \in Request, Refresh(r) PROVE LedgerInv'
<1>1. LedgerTypeOK /\ Sound(req[r]) /\ Accounts /\ row.id <= admin
  BY DEF LedgerInv
<1>2. UNCHANGED <<row, now, admin, book>> /\ req[r].pc = "refreshing"
  BY <1>1, RefreshIs
<1>3. req[r] \in RequestRecord /\ req[r].tag \in Nat \X Nat
  BY <1>1, RequestFields
<1>4. CASE row.id # req[r].tag[1] /\ Becomes(r, Ended("done"))
  <2>1. ~OwnsTag(r)
    BY <1>4 DEF OwnsTag
  <2>2. Holds[r] = 0
    BY <1>1, <2>1, HoldsIs
  <2>3. QED
    BY <1>2, <1>4, <2>2, EndedRecord, BlankKeeps
<1>5. CASE row.id = req[r].tag[1] /\ Becomes(r, Refreshed(req[r], SnapOfRow))
  <2>1. PICK snap \in Snap : snap = SnapOfRow
    BY <1>1, SnapOfRowIs
  <2>2. snap.id = row.id /\ snap.usage = row.usage
    BY <1>1, <2>1, SnapOfRowIs
  <2>3. PICK x \in RequestRecord : /\ x = Refreshed(req[r], snap) /\ x.pc = "calling"
                                   /\ x.snap = snap /\ x.tag = req[r].tag
                                   /\ x.est = req[r].est
    BY <1>3, OnItsWayRecord
  <2>4. Becomes(r, x)
    BY <1>5, <2>1, <2>3
  <2>5. Share(x) = Holds[r]
    BY <2>3 DEF Share, Holds, OwnsTag
  <2>6. Sound(x)'
    BY <1>1, <1>2, <2>2, <2>3 DEF Sound, Accounts, UsageNeverInvented
  <2>7. QED
    BY <1>2, <2>4, <2>5, <2>6, QuietKeeps
<1>6. QED
  BY <1>1, <1>4, <1>5, RefreshIs

\* A request that ends with its reservation still in the row.
LEMMA LeavesKeeps ==
  ASSUME LedgerInv, NEW r \in Request,
         Becomes(r, Ended("done")), UNCHANGED <<row, now, admin>>,
         book' = Left(Holds[r]), LedgerTypeOK'
  PROVE  LedgerInv'
<1>1. LedgerTypeOK /\ Accounts /\ row.id <= admin
  BY DEF LedgerInv
<1>2. PICK x \in RequestRecord : x = Ended("done") /\ x.tag = <<0, 0>> /\ x.snap = NoSnap
  BY EndedRecord
<1>3. Becomes(r, x)
  BY <1>2
<1>4. /\ Held \in Nat /\ Holds[r] \in Nat /\ book.left \in Nat /\ book.spent \in Nat
      /\ row.reserved \in Nat /\ book.charged \in Nat /\ row.period \in Nat
      /\ admin \in Nat /\ book.beyond \in Nat /\ row.limit \in Nat /\ Holds[r] <= Held
  BY <1>1, RowFields, HeldIs
<1>5. /\ book'.left = book.left + Holds[r] /\ book'.spent = book.spent
      /\ book'.beyond = book.beyond /\ book'.charged = book.charged
      /\ book'.edited = book.edited /\ book'.spoiled = book.spoiled
  BY <1>1, <1>4, LeftIs
<1>6. Held' = Held - Holds[r]
  <2>1. Held' = Held - Holds[r] + Share(x)
    BY <1>1, <1>3, StepHolds
  <2>2. Share(x) = 0
    BY <1>2, BlankIs
  <2>3. QED
    BY <1>4, <2>1, <2>2
<1>7. Accounts'
  BY <1>1, <1>4, <1>5, <1>6
  DEF Accounts, LedgerAccurate, OverspendExplained, UsageNeverInvented
<1>8. Sound(x)'
  BY <1>2, <1>4, BlankSound
<1>9. \A s \in Request : Sound(req[s])'
  BY <1>3, <1>4, <1>5, <1>8, SoundKeeps
<1>10. QED
  BY <1>1, <1>7, <1>9 DEF LedgerInv

\* What a settlement does to columns it does not falsify.
LEMMA SettledColumns ==
  ASSUME LedgerTypeOK, NEW r \in Request, NEW charge \in Nat
  PROVE  /\ "usage" \notin Spoils(r, charge) =>
              Settled(r, charge).usage = row.usage + charge
         /\ "reserved" \notin Spoils(r, charge) =>
              Settled(r, charge).reserved = Positive(row.reserved - Holds[r])
<1>1. /\ row.usage \in Nat /\ row.reserved \in Nat /\ req[r].est \in Nat
      /\ Loaded(r).usage \in Nat /\ Loaded(r).reserved \in Nat
  BY RowFields, RequestFields, LoadedIs
<1>2. ASSUME "usage" \notin Spoils(r, charge)
      PROVE  Settled(r, charge).usage = row.usage + charge
  <2>1. charge = 0 \/ Loaded(r).usage = row.usage
    BY <1>2 DEF Spoils
  <2>2. CASE charge = 0
    <3>1. Settled(r, charge).usage = row.usage
      BY <2>2, SettledRow
    <3>2. QED
      BY <1>1, <2>2, <3>1
  <2>3. CASE Loaded(r).usage = row.usage
    BY <2>3, SettledRow
  <2>4. QED
    BY <2>1, <2>2, <2>3
<1>3. ASSUME "reserved" \notin Spoils(r, charge)
      PROVE  Settled(r, charge).reserved = Positive(row.reserved - Holds[r])
  <2>1. \/ req[r].est = 0
        \/ /\ Loaded(r).reserved = row.reserved
           /\ OwnsTag(r) \/ ~ (Loaded(r).reserved > 0)
    BY <1>1, <1>3 DEF Spoils
  <2>2. CASE req[r].est = 0
    <3>1. Settled(r, charge).reserved = row.reserved /\ Holds[r] = 0
      BY <2>2, SettledRow, HoldsIs
    <3>2. QED
      BY <1>1, <3>1 DEF Positive
  <2>3. CASE Loaded(r).reserved = row.reserved /\ OwnsTag(r)
    BY <2>3, SettledRow, HoldsIs
  <2>4. CASE Loaded(r).reserved = row.reserved /\ ~OwnsTag(r) /\ ~ (Loaded(r).reserved > 0)
    <3>1. row.reserved = 0 /\ Holds[r] = 0
      BY <1>1, <2>4, HoldsIs
    <3>2. Settled(r, charge).reserved = Positive(row.reserved - req[r].est)
      BY <2>4, SettledRow
    <3>3. QED
      BY <1>1, <3>1, <3>2 DEF Positive
  <2>5. QED
    BY <2>1, <2>2, <2>3, <2>4
<1>4. QED
  BY <1>2, <1>3

LEMMA SettleKeeps ==
  ASSUME LedgerInv, NEW r \in Request, NEW charge \in Nat, Settle(r, charge),
         LedgerTypeOK'
  PROVE  LedgerInv'
<1>1. LedgerTypeOK /\ Accounts /\ row.id <= admin /\ Sound(req[r])
  BY DEF LedgerInv
<1>2. UNCHANGED <<now, admin>> /\ Becomes(r, Ended("done"))
  BY <1>1, SettleIs
<1>3. CASE ~Active /\ UNCHANGED row /\ book' = Left(Holds[r])
  BY <1>2, <1>3, LeavesKeeps
<1>4. CASE /\ Active /\ row' = Settled(r, charge)
           /\ book' = Charged(charge, Positive(charge - Holds[r]), Spoils(r, charge))
  <2>1. /\ Held \in Nat /\ Holds[r] \in Nat /\ Holds[r] <= Held
        /\ book.left \in Nat /\ book.spent \in Nat /\ book.charged \in Nat
        /\ book.beyond \in Nat /\ row.reserved \in Nat /\ row.usage \in Nat
        /\ row.limit \in Nat /\ row.period \in Nat /\ admin \in Nat /\ row.id # 0
    BY <1>1, <1>4, RowFields, HeldIs DEF Active
  <2>2. PICK more \in Nat : more = Positive(charge - Holds[r])
    BY <1>1, ChargedTyped
  <2>3. PICK columns \in SUBSET {"usage", "reserved"} : columns = Spoils(r, charge)
    BY <1>1, ChargedTyped
  <2>4. /\ book'.spent = book.spent + charge /\ book'.charged = book.charged + charge
        /\ book'.beyond = book.beyond + more /\ book'.left = book.left
        /\ book'.edited = book.edited /\ book'.spoiled = book.spoiled \cup columns
    <3>1. book' = Charged(charge, more, columns)
      BY <1>4, <2>2, <2>3
    <3>2. QED
      BY <1>1, <3>1, ChargedIs
  <2>5. /\ row'.id = row.id /\ row'.period = row.period /\ row'.policy = row.policy
        /\ row'.limit = row.limit /\ row' \in Row
        /\ row'.usage \in {row.usage, Loaded(r).usage + charge}
    BY <1>1, <1>4, SettledRow
  <2>6. PICK x \in RequestRecord : x = Ended("done") /\ x.tag = <<0, 0>> /\ x.snap = NoSnap
    BY EndedRecord
  <2>7. Held' = Held - Holds[r]
    <3>1. Held' = Held - Holds[r] + Share(x)
      BY <1>1, <1>2, <2>5, <2>6, StepHolds
    <3>2. Share(x) = 0
      BY <2>6, BlankIs
    <3>3. QED
      BY <2>1, <3>1, <3>2
  <2>8. LedgerAccurate'
    <3>1. "usage" \notin columns => row'.usage = row.usage + charge
      BY <1>1, <1>4, <2>3, SettledColumns
    <3>2. "reserved" \notin columns => row'.reserved = Positive(row.reserved - Holds[r])
      BY <1>1, <1>4, <2>3, SettledColumns
    <3>3. "usage" \notin book'.spoiled => row'.usage = book'.spent
      BY <1>1, <2>1, <2>4, <3>1 DEF Accounts, LedgerAccurate
    <3>4. "reserved" \notin book'.spoiled =>
            Held' <= row'.reserved /\ row'.reserved <= Held' + book'.left
      <4>1. SUFFICES ASSUME "reserved" \notin book'.spoiled
                     PROVE  Held' <= row'.reserved /\ row'.reserved <= Held' + book'.left
        OBVIOUS
      <4>2. Held <= row.reserved /\ row.reserved <= Held + book.left
        BY <1>1, <2>1, <2>4, <4>1 DEF Accounts, LedgerAccurate
      <4>3. row'.reserved = row.reserved - Holds[r]
        BY <2>1, <2>4, <3>2, <4>1, <4>2 DEF Positive
      <4>4. QED
        BY <2>1, <2>4, <2>7, <4>2, <4>3
    <3>5. QED
      BY <3>3, <3>4 DEF LedgerAccurate
  <2>9. OverspendExplained'
    <3>1. SUFFICES ASSUME row.policy \in {"BLOCK", "DOWNGRADE"}, ~book.edited, book.spoiled = {}
                   PROVE  book'.spent + Held' <= row.limit + book'.beyond
      BY <2>4, <2>5 DEF OverspendExplained
    <3>2. book.spent + Held <= row.limit + book.beyond
      BY <1>1, <2>1, <3>1 DEF Accounts, OverspendExplained
    <3>3. charge - Holds[r] <= more
      BY <2>1, <2>2 DEF Positive
    <3>4. QED
      BY <2>1, <2>4, <2>7, <3>2, <3>3
  <2>10. UsageNeverInvented'
    <3>1. Loaded(r).usage \in Nat /\ Loaded(r).usage <= book.charged
      <4>1. CASE req[r].snap.id = row.id
        BY <1>1, <2>1, <4>1, LoadedIs DEF Sound
      <4>2. CASE req[r].snap.id # row.id
        BY <1>1, <4>2, LoadedIs DEF Accounts, UsageNeverInvented
      <4>3. QED
        BY <4>1, <4>2
    <3>2. row.usage <= book.charged
      BY <1>1 DEF Accounts, UsageNeverInvented
    <3>3. QED
      BY <2>1, <2>4, <2>5, <3>1, <3>2 DEF UsageNeverInvented
  <2>11. Sound(x)'
    BY <1>2, <2>1, <2>6, BlankSound
  <2>12. \A s \in Request : Sound(req[s])'
    <3>1. row.period <= row'.period /\ row'.period \in Nat /\ book'.charged \in Nat
          /\ book.charged <= book'.charged
      BY <2>1, <2>4, <2>5
    <3>2. Becomes(r, x)
      BY <1>2, <2>6
    <3>3. QED
      BY <1>2, <2>5, <2>11, <3>1, <3>2, SoundKeeps
  <2>13. QED
    BY <1>1, <1>2, <2>5, <2>8, <2>9, <2>10, <2>12 DEF LedgerInv, Accounts
<1>5. QED
  BY <1>1, <1>3, <1>4, SettleIs

LEMMA FailFreeKeeps ==
  ASSUME LedgerInv, NEW r \in Request, FailFree(r) PROVE LedgerInv'
<1>1. LedgerTypeOK
  BY DEF LedgerInv
<1>2. UNCHANGED <<row, now, admin, book>> /\ Becomes(r, Ended("done")) /\ req[r].est = 0
  BY <1>1, FailFreeIs
<1>3. Holds[r] = 0
  BY <1>1, <1>2, HoldsIs
<1>4. QED
  BY <1>2, <1>3, EndedRecord, BlankKeeps

-----------------------------------------------------------------------------
(* The administrator and the clock.                                        *)

LEMMA AdminKeeps ==
  ASSUME LedgerInv, CreateBudget \/ UpdateBudget \/ DeleteBudget, LedgerTypeOK'
  PROVE  LedgerInv'
<1>1. LedgerTypeOK /\ row.id <= admin /\ Accounts /\ \A r \in Request : Sound(req[r])
  BY DEF LedgerInv
<1>2. UNCHANGED <<now, req>> /\ admin' = admin + 1
  BY <1>1, AdminIs
<1>3. row.id \in Nat /\ admin \in Nat
  BY <1>1, RowFields
<1>4. ASSUME NEW r \in Request
      PROVE  /\ req[r].tag[1] \in Nat /\ req[r].tag[1] <= admin
             /\ req[r].snap.id \in Nat /\ req[r].snap.id <= admin
  BY <1>1, RequestFields DEF Sound
<1>5. CASE row'.id \in {0, admin + 1} /\ book' = EmptyBook /\ row'.usage = 0
           /\ (row'.id # 0 => row'.reserved = 0)
  <2>1. ASSUME NEW r \in Request, row'.id # 0
        PROVE  req[r].tag[1] # row'.id /\ req[r].snap.id # row'.id
    BY <1>3, <1>4, <1>5, <2>1
  <2>2. ASSUME NEW r \in Request PROVE Holds'[r] = 0
    <3>1. row'.id = 0 \/ req[r].tag # <<row'.id, row'.period>>
      BY <2>1
    <3>2. QED
      BY <1>2, <3>1 DEF Holds, OwnsTag
  <2>3. Held' = 0
    BY <1>1, <2>2, HeldNone
  <2>4. ASSUME NEW r \in Request PROVE Sound(req[r])'
    <3>1. Sound(req[r])
      BY <1>1
    <3>2. QED
      BY <1>2, <1>3, <1>4, <2>1, <3>1 DEF Sound
  <2>5. Accounts'
    <3>1. row'.limit \in Nat
      BY DEF LedgerTypeOK, Row
    <3>2. QED
      BY <1>5, <2>3, <3>1, NothingThere
      DEF Accounts, LedgerAccurate, OverspendExplained, UsageNeverInvented
  <2>6. (row.id <= admin)'
    BY <1>2, <1>3, <1>5
  <2>7. QED
    BY <2>4, <2>5, <2>6 DEF LedgerInv
<1>6. CASE /\ row'.id = row.id /\ row'.period = row.period
           /\ row'.usage = row.usage /\ row'.reserved = row.reserved
           /\ book' = Edited
  <2>1. \A r \in Request : Holds'[r] = Holds[r]
    BY <1>2, <1>6 DEF Holds, OwnsTag
  <2>2. Held' = Held
    BY <1>1, <2>1, HeldSame
  <2>3. /\ book'.edited /\ book'.spent = book.spent /\ book'.left = book.left
        /\ book'.charged = book.charged /\ book'.spoiled = book.spoiled
    BY <1>1, <1>6, EditedIs
  <2>4. Accounts'
    BY <1>1, <1>6, <2>2, <2>3
    DEF Accounts, LedgerAccurate, OverspendExplained, UsageNeverInvented
  <2>5. ASSUME NEW r \in Request PROVE Sound(req[r])'
    <3>1. Sound(req[r])
      BY <1>1
    <3>2. QED
      BY <1>2, <1>3, <1>4, <1>6, <2>3, <3>1 DEF Sound
  <2>6. (row.id <= admin)'
    BY <1>1, <1>2, <1>3, <1>6
  <2>7. QED
    BY <2>4, <2>5, <2>6 DEF LedgerInv
<1>7. QED
  BY <1>1, <1>5, <1>6, AdminIs

LEMMA SameKeeps ==
  ASSUME LedgerInv, UNCHANGED <<row, req, admin, book>>, LedgerTypeOK' PROVE LedgerInv'
<1>1. LedgerTypeOK
  BY DEF LedgerInv
<1>2. \A r \in Request : Holds'[r] = Holds[r]
  BY DEF Holds, OwnsTag
<1>3. Held' = Held
  BY <1>1, <1>2, HeldSame
<1>4. Accounts'
  BY <1>3 DEF LedgerInv, Accounts, LedgerAccurate, OverspendExplained, UsageNeverInvented
<1>5. (\A r \in Request : Sound(req[r]))' /\ (row.id <= admin)'
  BY DEF LedgerInv, Sound
<1>6. QED
  BY <1>4, <1>5 DEF LedgerInv

LEMMA LedgerInvInit ==
  ASSUME LedgerInit PROVE LedgerInv
<1>1. LedgerTypeOK /\ \A r \in Request : req[r] = Ended("idle")
  BY InitTyped
<1>2. /\ row.id \in {0, 1} /\ row.usage = 0 /\ row.reserved = 0
      /\ admin = 1 /\ book = EmptyBook /\ row.limit \in Nat
  BY <1>1, RowAtStart, RowFields DEF LedgerInit
<1>3. Ended("idle").tag = <<0, 0>> /\ Ended("idle").snap = NoSnap
  BY EndedRecord
<1>4. \A r \in Request : Sound(req[r])
  BY <1>1, <1>3, BlankIs
<1>5. Held = 0
  <2>1. PICK F : F = Holds
    OBVIOUS
  <2>2. \A r \in Request : F[r] = 0
    BY <1>1, <1>3, <2>1, UntaggedHolds
  <2>3. QED
    BY <1>1, <2>1, <2>2, HeldIs, SumZero
<1>6. Accounts /\ row.id <= admin
  BY <1>2, <1>5, NothingThere
  DEF Accounts, LedgerAccurate, OverspendExplained, UsageNeverInvented
<1>7. QED
  BY <1>1, <1>4, <1>6 DEF LedgerInv

LEMMA LedgerInvNext ==
  ASSUME LedgerInv, [LedgerNext]_ledgerVars PROVE LedgerInv'
<1>1. LedgerTypeOK /\ LedgerTypeOK'
  BY NextTyped DEF LedgerInv
<1>2. ASSUME NEW r \in Request, Reconcile(r) \/ Release(r) PROVE LedgerInv'
  <2>1. PICK charge \in Nat : Settle(r, charge)
    BY <1>1, <1>2, FinishIs, CostsAreNat
  <2>2. QED
    BY <1>1, <2>1, SettleKeeps
<1>3. ASSUME NEW r \in Request, Abandon(r) PROVE LedgerInv'
  BY <1>1, <1>3, AbandonIs, LeavesKeeps
<1>4. CASE \E r \in Request :
             Price(r) \/ Reserve(r) \/ Refresh(r) \/ Reconcile(r) \/ Release(r)
               \/ FailFree(r) \/ Abandon(r)
  BY <1>2, <1>3, <1>4, PriceKeeps, ReserveKeeps, RefreshKeeps, FailFreeKeeps
<1>5. CASE CreateBudget \/ UpdateBudget \/ DeleteBudget
  BY <1>1, <1>5, AdminKeeps
<1>6. CASE NextPeriod \/ UNCHANGED ledgerVars
  BY <1>1, <1>6, SameKeeps DEF NextPeriod, ledgerVars
<1>7. QED
  BY <1>4, <1>5, <1>6 DEF LedgerNext

LEMMA LedgerInvAlways == LedgerSpec => []LedgerInv
<1>1. LedgerInit => LedgerInv
  BY LedgerInvInit
<1>2. LedgerInv /\ [LedgerNext]_ledgerVars => LedgerInv'
  BY LedgerInvNext
<1>3. QED
  BY <1>1, <1>2, PTL DEF LedgerSpec

-----------------------------------------------------------------------------
(* The theorems.                                                           *)

\* For any number of requests in flight: a column that no settlement of the
\* period has falsified says what was charged, and what is reserved, through
\* cancellations, failed settlements and whatever the administrator does to
\* the row under a running request.
THEOREM LedgerIsAccurate == LedgerSpec => []LedgerAccurate
<1>1. LedgerInv => LedgerAccurate
  BY DEF LedgerInv, Accounts
<1>2. QED
  BY <1>1, LedgerInvAlways, PTL

\* For any number of requests in flight: reserving alone never overspends a
\* BLOCK or DOWNGRADE budget; without an edit of the row and without a falsified
\* column, what goes beyond the limit was charged beyond a reservation.
THEOREM LedgerOverspendExplained == LedgerSpec => []OverspendExplained
<1>1. LedgerInv => OverspendExplained
  BY DEF LedgerInv, Accounts
<1>2. QED
  BY <1>1, LedgerInvAlways, PTL

\* For any number of requests in flight: whatever stale objects write, the row
\* never shows more usage than it was charged in its life.
THEOREM LedgerUsageNeverInvented == LedgerSpec => []UsageNeverInvented
<1>1. LedgerInv => UsageNeverInvented
  BY DEF LedgerInv, Accounts
<1>2. QED
  BY <1>1, LedgerInvAlways, PTL
=============================================================================
