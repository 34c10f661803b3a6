---------------------------- MODULE BudgetLedger ----------------------------
(***************************************************************************)
(* One team's row of the `budgets' table and the chat requests that        *)
(* reserve, reconcile and release against it: budget/service.py as         *)
(* ChatService.complete and _attempt_budget_downgrade call it.             *)
(*                                                                         *)
(* Each database transaction is one action: the row is locked by SELECT    *)
(* FOR UPDATE from its first read to the commit.  Between transactions     *)
(* other requests, the administrator and the clock run.  A request keeps   *)
(* one SQLAlchemy session to its end and holds the Budget object that      *)
(* check_and_reserve returned.  The session does not expire objects on     *)
(* commit (database/session.py) and a SELECT never overwrites an object    *)
(* the session already holds, so reconcile and release compute from the    *)
(* values that the refresh after the reservation loaded (`snap') and write *)
(* the columns they changed.                                               *)
(***************************************************************************)
EXTENDS Integers, FiniteSets, FiniteSetsExt

CONSTANTS
    Request,        \* callers of the team; each sends one request at a time
    MaxInFlight,    \* requests of the team the gateway serves at once
    Limit,          \* values an administrator gives limit_amount
    Cost,           \* estimates estimate_cost can return
    Actual,         \* results calculate_actual_cost can return
    Policy,         \* values of the row's policy column
    Action,         \* values of the resolved policy's budget.action
    MaxPeriod,      \* bound: last budget period
    MaxAdmin,       \* bound: administrator operations
    MaxSpent,       \* bound: no new request once this much is spent or reserved
    MaxLeft         \* bound: nothing more is abandoned beyond this

ASSUME BudgetAssumption ==
    /\ IsFiniteSet(Request) /\ MaxInFlight \in Nat
    /\ Limit \subseteq Nat /\ Cost \subseteq Nat /\ Actual \subseteq Nat
    /\ Policy \subseteq {"BLOCK", "WARN", "DOWNGRADE"}
    /\ Action \subseteq {"BLOCK", "WARN", "DOWNGRADE"}
    /\ MaxPeriod \in Nat /\ MaxAdmin \in Nat
    /\ MaxSpent \in Nat /\ MaxLeft \in Nat

VARIABLES
    row,            \* the team's budget row; id 0 when there is none
    now,            \* the period the clock is in
    req,            \* each caller's request
    admin,          \* administrator operations so far; numbers the rows
    book            \* history: what became of the row, whatever it says

ledgerVars == <<row, now, req, admin, book>>

Row == [id : Nat, enabled : BOOLEAN, policy : {"BLOCK", "WARN", "DOWNGRADE"},
        limit : Nat, usage : Nat, reserved : Nat, period : Nat]

NoRow == [id |-> 0, enabled |-> FALSE, policy |-> "BLOCK",
          limit |-> 0, usage |-> 0, reserved |-> 0, period |-> 0]

\* The attributes of the Budget object a session holds; id 0 for none.
Snap == [id : Nat, usage : Nat, reserved : Nat]
NoSnap == [id |-> 0, usage |-> 0, reserved |-> 0]

Running == {"priced", "refreshing", "calling"}

\* est is estimated_cost; tag names the row and period the reservation was
\* made in, <<0, 0>> when nothing was reserved.
RequestRecord ==
    [pc : {"idle", "done", "rejected"} \cup Running,
     est : Nat, snap : Snap, tag : Nat \X Nat]

Idle == [pc |-> "idle", est |-> 0, snap |-> NoSnap, tag |-> <<0, 0>>]

\* In the row's present period: `spent' is what requests were charged, `left'
\* the reservations that ended with nobody giving them back, `beyond' the
\* charges that no reservation of the period covered, `edited' whether the
\* administrator changed the row, `spoiled' the columns that a settlement has
\* falsified.  `charged' is the sum of all charges since the row's creation.
Book == [spent : Nat, left : Nat, beyond : Nat, charged : Nat,
         edited : BOOLEAN, spoiled : SUBSET {"usage", "reserved"}]
EmptyBook == [spent |-> 0, left |-> 0, beyond |-> 0, charged |-> 0,
              edited |-> FALSE, spoiled |-> {}]

Positive(n) == IF n > 0 THEN n ELSE 0

-----------------------------------------------------------------------------
(* Budget and BudgetService.                                               *)

Active == row.id # 0 /\ row.enabled

Expired == row.period < now

RemainingAmount == Positive(row.limit - row.usage - row.reserved)

\* _apply_rollover_if_needed, on the locked row.
RolledOver ==
    IF Expired THEN [row EXCEPT !.usage = 0, !.reserved = 0, !.period = now]
               ELSE row

BookAfterRollover ==
    IF Expired THEN [EmptyBook EXCEPT !.charged = book.charged] ELSE book

\* Mutant: the estimate itself is left out of the comparison.
FitsAlready(b, est) == b.usage + b.reserved < b.limit

Fits(b, est) == b.usage + b.reserved + est <= b.limit

\* Mutant: the session's object is taken for the row, whichever row it was.
LoadedAnyRow(r) ==
    IF req[r].snap.id # 0
      THEN req[r].snap
      ELSE [id |-> row.id, usage |-> row.usage, reserved |-> row.reserved]

\* The object that reconcile and release work on: the one the session holds,
\* or the row itself when the session holds none with this key.
Loaded(r) ==
    IF req[r].snap.id = row.id
      THEN req[r].snap
      ELSE [id |-> row.id, usage |-> row.usage, reserved |-> row.reserved]

\* Only attributes whose value changed are in the UPDATE.
Written(column, loaded, new) == IF new = loaded THEN column ELSE new

\* Mutant: the estimate is charged, not the actual cost.
SettledByEstimate(r, charge) ==
    LET b == Loaded(r)
    IN  [row EXCEPT
           !.reserved = Written(@, b.reserved, Positive(b.reserved - req[r].est)),
           !.usage    = Written(@, b.usage, b.usage + req[r].est)]

\* Mutant: `reserved' is not kept from going below 0.
SettledUnclamped(r, charge) ==
    LET b == Loaded(r)
    IN  [row EXCEPT
           !.reserved = Written(@, b.reserved, b.reserved - req[r].est),
           !.usage    = Written(@, b.usage, b.usage + charge)]

\* The row after reconcile (actual is the charge) or release (charge 0).
Settled(r, charge) ==
    LET b == Loaded(r)
    IN  [row EXCEPT
           !.reserved = Written(@, b.reserved, Positive(b.reserved - req[r].est)),
           !.usage    = Written(@, b.usage, b.usage + charge)]

-----------------------------------------------------------------------------
(* Requests.                                                               *)

InFlight == {r \in Request : req[r].pc \in Running}

OwnsTag(r) == req[r].tag = <<row.id, row.period>> /\ row.id # 0

\* What r has reserved in the row's present period, and what all requests have.
Holds == [r \in Request |-> IF OwnsTag(r) THEN req[r].est ELSE 0]
Held == MapThenSumSet(LAMBDA r : Holds[r], Request)

EndAs(r, how) == req' = [req EXCEPT ![r] = [Idle EXCEPT !.pc = how]]

\* The request is priced; with action DOWNGRADE a row that cannot pay for it
\* makes the gateway look for a cheaper candidate, or give up.
Price(r) ==
    /\ req[r].pc \notin Running
    /\ Cardinality(InFlight) < MaxInFlight
    /\ book.spent + row.reserved < MaxSpent
    /\ \E est \in Cost, action \in Action :
         LET fits == action # "DOWNGRADE" \/ ~ Active \/ est <= RemainingAmount
             Priced(e) == req' = [req EXCEPT ![r] =
                                    [Idle EXCEPT !.pc = "priced", !.est = e]]
         IN  \/ fits /\ Priced(est)
             \/ /\ ~ fits
                /\ \E e \in Cost : e <= RemainingAmount /\ Priced(e)
             \/ ~ fits /\ EndAs(r, "rejected")
    /\ UNCHANGED <<row, now, admin, book>>

\* check_and_reserve up to its commit.  Without an enabled row the request
\* goes on unreserved; a rejection rolls the transaction back, and with it a
\* rollover of the period.
Reserve(r) ==
    LET est == req[r].est
    IN  /\ req[r].pc = "priced"
        /\ \/ /\ ~ Active
              /\ req' = [req EXCEPT ![r] = [@ EXCEPT !.pc = "calling"]]
              /\ UNCHANGED <<row, book>>
           \/ /\ Active
              /\ row.policy \in {"BLOCK", "DOWNGRADE"}
              /\ ~ Fits(RolledOver, est)
              /\ EndAs(r, "rejected")
              /\ UNCHANGED <<row, book>>
           \/ /\ Active
              /\ row.policy = "WARN" \/ Fits(RolledOver, est)
              /\ row' = [RolledOver EXCEPT !.reserved = @ + est]
              /\ book' = BookAfterRollover
              /\ req' = [req EXCEPT ![r] = [@ EXCEPT !.pc = "refreshing",
                                                     !.tag = <<row.id, row'.period>>]]
        /\ UNCHANGED <<now, admin>>

\* session.refresh(budget), a transaction of its own; it raises when the row
\* has been deleted in the meantime.
Refresh(r) ==
    /\ req[r].pc = "refreshing"
    /\ \/ /\ row.id = req[r].tag[1]
          /\ req' = [req EXCEPT ![r] =
                       [@ EXCEPT !.pc = "calling",
                                 !.snap = [id |-> row.id, usage |-> row.usage,
                                           reserved |-> row.reserved]]]
       \/ /\ row.id # req[r].tag[1]
          /\ EndAs(r, "done")
    /\ UNCHANGED <<row, now, admin, book>>

\* The columns that a settlement of r falsifies: it computes from an object
\* that no longer says what the row says, or gives back what r does not hold.
Spoils(r, charge) ==
    LET b == Loaded(r)
    IN  {c \in {"usage", "reserved"} :
           \/ c = "usage" /\ charge > 0 /\ b.usage # row.usage
           \/ /\ c = "reserved" /\ req[r].est > 0
              /\ b.reserved # row.reserved \/ (~ OwnsTag(r) /\ b.reserved > 0)}

\* The reservation of r stays in the row.
LeaveBehind(r) == book' = [book EXCEPT !.left = @ + Holds[r]]

\* The call is over and the budget is settled: reconcile after a response,
\* release_reservation after an error.  Neither does anything when the row is
\* gone or disabled, and neither asks whether anything had been reserved.
Settle(r, charge) ==
    /\ req[r].pc = "calling"
    /\ IF Active
         THEN /\ row' = Settled(r, charge)
              /\ book' = [book EXCEPT !.spent = @ + charge,
                                      !.charged = @ + charge,
                                      !.beyond = @ + Positive(charge - Holds[r]),
                                      !.spoiled = @ \cup Spoils(r, charge)]
         ELSE LeaveBehind(r) /\ UNCHANGED row
    /\ EndAs(r, "done")
    /\ UNCHANGED <<now, admin>>

Reconcile(r) == \E actual \in Actual : Settle(r, actual)

\* complete releases only an estimate above 0.
Release(r) == req[r].est > 0 /\ Settle(r, 0)

FailFree(r) ==
    /\ req[r].pc = "calling" /\ req[r].est = 0
    /\ EndAs(r, "done")
    /\ UNCHANGED <<row, now, admin, book>>

\* The request ends with nobody settling: its task is cancelled (complete
\* catches Exception, which CancelledError is not), the process dies, or the
\* settling transaction itself fails.
Abandon(r) ==
    /\ req[r].pc \in {"refreshing", "calling"}
    /\ book.left < MaxLeft
    /\ LeaveBehind(r)
    /\ EndAs(r, "done")
    /\ UNCHANGED <<row, now, admin>>

-----------------------------------------------------------------------------
(* The administrator's endpoints, and the clock.                           *)

AdminActs ==
    /\ admin < MaxAdmin
    /\ admin' = admin + 1
    /\ UNCHANGED <<now, req>>

\* create_budget refuses a second row, enabled or not.
CreateBudget ==
    /\ AdminActs
    /\ row.id = 0
    /\ \E limit \in Limit, policy \in Policy, enabled \in BOOLEAN :
         row' = [id |-> admin', enabled |-> enabled, policy |-> policy,
                 limit |-> limit, usage |-> 0, reserved |-> 0, period |-> now]
    /\ book' = EmptyBook

UpdateBudget ==
    /\ AdminActs
    /\ row.id # 0
    /\ \E limit \in Limit, policy \in Policy, enabled \in BOOLEAN :
         row' = [row EXCEPT !.limit = limit, !.policy = policy,
                            !.enabled = enabled]
    /\ book' = [book EXCEPT !.edited = TRUE]

DeleteBudget ==
    /\ AdminActs
    /\ row.id # 0
    /\ row' = NoRow
    /\ book' = EmptyBook

NextPeriod ==
    /\ now < MaxPeriod
    /\ now' = now + 1
    /\ UNCHANGED <<row, req, admin, book>>

\* The gateway comes up with a budget already in force, or with none.
LedgerInit ==
    /\ now = 1 /\ admin = 1
    /\ row \in {NoRow} \cup
         {[id |-> 1, enabled |-> TRUE, policy |-> p, limit |-> l,
           usage |-> 0, reserved |-> 0, period |-> 1] : p \in Policy, l \in Limit}
    /\ req = [r \in Request |-> Idle]
    /\ book = EmptyBook

LedgerNext ==
    \/ \E r \in Request :
         Price(r) \/ Reserve(r) \/ Refresh(r) \/ Reconcile(r) \/ Release(r)
           \/ FailFree(r) \/ Abandon(r)
    \/ CreateBudget
    \/ UpdateBudget
    \/ DeleteBudget
    \/ NextPeriod

LedgerSpec == LedgerInit /\ [][LedgerNext]_ledgerVars

\* Clients keep sending, transactions commit and provider calls end.
FairLedgerSpec ==
    /\ LedgerSpec
    /\ \A r \in Request :
         /\ WF_ledgerVars(Price(r))
         /\ WF_ledgerVars(Reserve(r))
         /\ WF_ledgerVars(Refresh(r))
         /\ WF_ledgerVars(Reconcile(r) \/ Release(r) \/ FailFree(r))

-----------------------------------------------------------------------------
(* Properties.                                                             *)

LedgerTypeOK ==
    /\ row \in Row /\ now \in Nat /\ admin \in Nat /\ book \in Book
    /\ req \in [Request -> RequestRecord]

\* However many requests settle at once: until a settlement falsifies a
\* column, current_usage is what the requests of the period were charged, and
\* `reserved' covers every reservation still running and nothing beyond those
\* that were left behind.  A rollover heals both columns.
LedgerAccurate ==
    row.id # 0 =>
      /\ "usage" \notin book.spoiled => row.usage = book.spent
      /\ "reserved" \notin book.spoiled =>
           Held <= row.reserved /\ row.reserved <= Held + book.left

\* A BLOCK or DOWNGRADE budget is overspent, by requests done and running, for
\* three reasons only: its administrator edited it in this period, a charge
\* went beyond its reservation (an actual cost above the estimate, a request
\* that had reserved nothing or in an earlier period), or a settlement
\* falsified a column.  Concurrent reservations alone never do it.
OverspendExplained ==
    row.id # 0 /\ row.policy \in {"BLOCK", "DOWNGRADE"}
      /\ ~ book.edited /\ book.spoiled = {}
    => book.spent + Held <= row.limit + book.beyond

\* Stale writes lose charges and bring back old ones, and yet the row never
\* shows more than the team has been charged since the row was made.
UsageNeverInvented == row.usage <= book.charged

\* service.py: the row lock "prevents two concurrent requests from both
\* reading the same remaining balance and both being allowed to overspend".
\* What has been spent and what running requests hold fits in a BLOCK budget.
NoOverspend ==
    Active /\ row.policy = "BLOCK" => book.spent + Held <= row.limit

\* budget/models.py: "on period expiry, next request triggers rollover".
\* While clients keep sending, an enabled budget whose period is over is
\* rolled over.
ExpiredIsRolledOver == (Active /\ Expired) ~> ~ (Active /\ Expired)
=============================================================================
