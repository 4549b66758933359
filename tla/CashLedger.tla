----------------------------- MODULE CashLedger -----------------------------
(***************************************************************************)
(* Money of one branch: cash sessions (internal/cashbank), collections of  *)
(* credit sales (internal/receivables), payments to suppliers              *)
(* (internal/payables) and what cancelling a sale gives back               *)
(* (internal/sales), as concurrent requests on MySQL under REPEATABLE READ.*)
(*                                                                         *)
(* Every movement is of one unit.  A transaction is the first plain read,  *)
(* which fixes its snapshot, and the writes with COMMIT; the checks a      *)
(* handler makes before it opens one, and the statements of a handler that *)
(* opens none, are steps of their own.                                     *)
(***************************************************************************)
EXTENDS Integers, FiniteSets

CONSTANTS
  Users,
  Tills, Owner,     \* cash sessions, and the user of each
  FirstTills,       \* the sessions open when the requests arrive
  Docs, Total,      \* credit sales and purchases, and the units each is worth
  Requests,         \* HTTP requests
  Kind, User,       \* Kind[r]: the operation; User[r]: who asks for it
  Doc,              \* Doc[r]: the sale or purchase r is about
  Method,           \* Method[r]: where the payment goes, "cash" or "bank"
  Way,              \* Way[r]: "in" or "out", of a manual movement
  NewTill,          \* NewTill[r]: the session an open request creates
  Mixes,            \* the sets of requests that arrive together
  None

Kinds  == {"open", "close", "delete", "collect", "pay", "manual", "cancel", "refund"}
Phases == {"new", "checked", "counted", "open", "half", "done"}

ASSUME TillAssumption ==
  /\ Owner \in [Tills -> Users]
  /\ FirstTills \subseteq Tills
  /\ \A t, u \in FirstTills : Owner[t] = Owner[u] => t = u
ASSUME DocAssumption == Total \in [Docs -> Nat \ {0}]
ASSUME RequestAssumption ==
  /\ IsFiniteSet(Requests)
  /\ Kind \in [Requests -> Kinds]
  /\ User \in [Requests -> Users]
  /\ Doc \in [Requests -> Docs]
  /\ Method \in [Requests -> {"cash", "bank"}]
  /\ Way \in [Requests -> {"in", "out"}]
  /\ NewTill \in [Requests -> Tills]
  /\ Mixes \subseteq SUBSET Requests
ASSUME OpenAssumption ==
  \A r, q \in Requests :
    Kind[r] = "open" =>
      /\ NewTill[r] \notin FirstTills /\ Owner[NewTill[r]] = User[r]
      /\ Kind[q] = "open" /\ NewTill[q] = NewTill[r] => q = r
\* A document is a sale, collected and cancelled, or a purchase, paid.
ASSUME DocKindAssumption ==
  \A r, q \in Requests :
    Kind[r] = "pay" /\ Kind[q] \in {"collect", "cancel"} => Doc[r] # Doc[q]
ASSUME NoneAssumption == None \notin Requests \cup Tills

VARIABLES
  drawer,    \* status of each cash session; "none": no row yet
  expected,  \* expected_balance a close wrote
  cash,      \* tenant_cash_movements
  bank,      \* tenant_bank_movements
  balance,   \* tenant_bank_accounts.balance of the account
  status,    \* tenant_sales.status
  paid,      \* tenant_purchase_payables.paid_amount
  at,        \* where request r is
  till,      \* till[r]: the session r resolved
  target,    \* target[r]: the movement r refunds, by the request that made it
  read,      \* read[r]: a number r read and will write, as counted or plus one
  view,      \* view[r]: the snapshot of r's transaction, or None
  ended,     \* history: requests that wrote what they came to write
  since,     \* history: since[r]: those ended when r made its first check
  seen,      \* history: seen[r]: those ended at the read r's writes rest on
  torn       \* history: requests lost between a movement and its balance

tables   == <<drawer, expected, cash, bank, balance, status, paid>>
local    == <<at, till, target, read, view>>
ghosts   == <<ended, since, seen, torn>>
cashVars == <<tables, local, ghosts>>

CashInit ==
  /\ drawer = [t \in Tills |-> IF t \in FirstTills THEN "open" ELSE "none"]
  /\ expected = [t \in Tills |-> 0]
  /\ cash = {} /\ bank = {} /\ balance = 0
  /\ status = [d \in Docs |-> "credit"]
  /\ paid = [d \in Docs |-> 0]
  /\ at \in {[r \in Requests |-> IF r \in mix THEN "new" ELSE "done"] : mix \in Mixes}
  /\ till = [r \in Requests |-> None]
  /\ target = [r \in Requests |-> None]
  /\ read = [r \in Requests |-> 0]
  /\ view = [r \in Requests |-> None]
  /\ ended = {} /\ torn = {}
  /\ since = [r \in Requests |-> {}]
  /\ seen = [r \in Requests |-> {}]

-----------------------------------------------------------------------------
\* A movement: the request that made it, the one whose movement it reverses
\* (reversal_of_id), its session and its type.
Row(r, of, t, way) == [by |-> r, of |-> of, till |-> t, way |-> way]

\* The payments of document d among the movements ms.
Payments(d, ms) ==
  {m \in ms : m.of = None /\ Kind[m.by] \in {"collect", "pay"} /\ Doc[m.by] = d}

Reversed(m, ms) == \E n \in ms : n.of = m.by

\* PendingSaleRefunds: cash of a cancelled sale that no movement reverses.
Pending ==
  {m \in cash : m.of = None /\ Kind[m.by] = "collect"
                /\ status[Doc[m.by]] = "cancelled" /\ ~Reversed(m, cash)}

Count(ms, t, way) == Cardinality({m \in ms : m.till = t /\ m.way = way})
Net(ms, t) == Count(ms, t, "in") - Count(ms, t, "out")

OpenIn(d, users) == {t \in Tills : d[t] = "open" /\ Owner[t] \in users}

\* `balance = balance + delta` locks the row of the account to the COMMIT.
HoldsAccount(r) ==
  Kind[r] \in {"collect", "pay"} /\ Method[r] = "bank" /\ at[r] = "open"

AccountFree(r) == \A q \in Requests \ {r} : ~HoldsAccount(q)

Adds(way) == IF way = "in" THEN 1 ELSE -1

Go(r, phase) == at' = [at EXCEPT ![r] = phase]

\* A first check, before any transaction.
Check(r, t) ==
  /\ Go(r, "checked")
  /\ till' = [till EXCEPT ![r] = t]
  /\ since' = [since EXCEPT ![r] = ended]
  /\ seen' = [seen EXCEPT ![r] = ended]
  /\ UNCHANGED <<tables, view, ended, torn>>

\* The check fails: an error to the client.
Refuse(r) ==
  /\ Go(r, "done")
  /\ UNCHANGED <<tables, till, target, read, view, ghosts>>

\* The first plain read of the transaction.
Open(r) ==
  /\ Go(r, "open")
  /\ view' = [view EXCEPT ![r] = [drawer |-> drawer, cash |-> cash, bank |-> bank]]
  /\ seen' = [seen EXCEPT ![r] = ended]
  /\ UNCHANGED <<tables, till, target, read, ended, since, torn>>

\* COMMIT, or the last statement of a handler without a transaction.
Write(r) ==
  /\ Go(r, "done")
  /\ ended' = ended \cup {r}
  /\ view' = [view EXCEPT ![r] = None]
  /\ UNCHANGED <<till, target, read, since, torn>>

Finish(r) == Write(r) /\ UNCHANGED seen

-----------------------------------------------------------------------------
\* Cash sessions: OpenSession, CloseSession, DeleteEmptySession.

OpenChecks(r) ==
  /\ Kind[r] = "open" /\ at[r] = "new"
  /\ IF OpenIn(drawer, {User[r]}) = {}
     THEN Check(r, NewTill[r]) /\ UNCHANGED <<target, read>> ELSE Refuse(r)

OpenInserts(r) ==
  /\ Kind[r] = "open" /\ at[r] = "checked"
  /\ drawer' = [drawer EXCEPT ![till[r]] = "open"]
  /\ Finish(r)
  /\ UNCHANGED <<expected, cash, bank, balance, status, paid>>

\* The owner, or whoever the route lets close any session.
CloseChecks(r) ==
  /\ Kind[r] = "close" /\ at[r] = "new"
  /\ \E t \in Tills : drawer[t] = "open" /\ Check(r, t)
  /\ UNCHANGED <<target, read>>

\* getExpectedBalance.
CloseCounts(r) ==
  /\ Kind[r] = "close" /\ at[r] = "checked"
  /\ read' = [read EXCEPT ![r] = Net(cash, till[r])]
  /\ Go(r, "counted")
  /\ seen' = [seen EXCEPT ![r] = ended]
  /\ UNCHANGED <<tables, till, target, view, ended, since, torn>>

\* The UPDATE has no condition on the status.
CloseWrites(r) ==
  /\ Kind[r] = "close" /\ at[r] = "counted"
  /\ drawer' = IF drawer[till[r]] = "deleted" THEN drawer
               ELSE [drawer EXCEPT ![till[r]] = "closed"]
  /\ expected' = IF drawer[till[r]] = "deleted" THEN expected
                 ELSE [expected EXCEPT ![till[r]] = read[r]]
  /\ Finish(r)
  /\ UNCHANGED <<cash, bank, balance, status, paid>>

\* SessionUsageOf counts cash movements, and sales registered in the session
\* (none here: these sales were registered in earlier ones).
DeleteChecks(r) ==
  /\ Kind[r] = "delete" /\ at[r] = "new"
  /\ \E t \in Tills :
       /\ drawer[t] \in {"open", "closed"} /\ {m \in cash : m.till = t} = {}
       /\ Check(r, t)
  /\ UNCHANGED <<target, read>>

\* Mutant: DELETE without its NOT EXISTS.
DeleteAnyway(r) ==
  /\ Kind[r] = "delete" /\ at[r] = "checked"
  /\ drawer' = [drawer EXCEPT ![till[r]] = "deleted"]
  /\ Write(r)
  /\ seen' = [seen EXCEPT ![r] = ended]
  /\ UNCHANGED <<expected, cash, bank, balance, status, paid>>

\* DELETE ... WHERE NOT EXISTS: it looks again as it deletes.
DeleteWrites(r) ==
  /\ Kind[r] = "delete" /\ at[r] = "checked"
  /\ drawer' = IF {m \in cash : m.till = till[r]} = {}
               THEN [drawer EXCEPT ![till[r]] = "deleted"] ELSE drawer
  /\ Write(r)
  /\ seen' = [seen EXCEPT ![r] = ended]
  /\ UNCHANGED <<expected, cash, bank, balance, status, paid>>

-----------------------------------------------------------------------------
\* ReceivableService.Collect and PayableService.Pay: one unit of a document.

\* What a payment has to find: the sale or purchase alive, and one unit due.
\* Collect adds the payments up, Pay reads paid_amount.
Settled(r) ==
  IF Kind[r] = "pay" THEN paid[Doc[r]]
  ELSE Cardinality(Payments(Doc[r], cash \cup bank))

\* Mutant: the balance is not looked at.
PaymentUnchecked(r) ==
  /\ Kind[r] \in {"collect", "pay"} /\ at[r] = "new"
  /\ IF status[Doc[r]] = "cancelled" \/ OpenIn(drawer, {User[r]}) = {}
     THEN Refuse(r)
     ELSE /\ \E t \in OpenIn(drawer, {User[r]}) : Check(r, t)
          /\ read' = [read EXCEPT ![r] = Settled(r)]
          /\ UNCHANGED target

\* ResolveCashSessionForCollection: any method needs a session of the user.
PaymentChecks(r) ==
  /\ Kind[r] \in {"collect", "pay"} /\ at[r] = "new"
  /\ IF \/ status[Doc[r]] = "cancelled"
        \/ Settled(r) + 1 > Total[Doc[r]]
        \/ OpenIn(drawer, {User[r]}) = {}
     THEN Refuse(r)
     ELSE /\ \E t \in OpenIn(drawer, {User[r]}) : Check(r, t)
          /\ read' = [read EXCEPT ![r] = Settled(r)]
          /\ UNCHANGED target

\* Cash: the session is read again.  Bank: the UPDATE of the balance comes
\* before the first plain read, so the snapshot is taken with its lock held.
PaymentOpens(r) ==
  /\ Kind[r] \in {"collect", "pay"} /\ at[r] = "checked"
  /\ Method[r] = "bank" => AccountFree(r)
  /\ Open(r)

\* Mutant: the balance of the account is written whole, as it was read.
RecordAbsolute(r, way) ==
  LET ms == {Row(r, None, till[r], way)} IN
  IF Method[r] = "cash"
  THEN /\ view[r].drawer[till[r]] = "open"
       /\ cash' = cash \cup ms
       /\ UNCHANGED <<bank, balance>>
  ELSE /\ bank' = bank \cup ms
       /\ balance' = Cardinality({m \in view[r].bank : m.way = "in"})
                     - Cardinality({m \in view[r].bank : m.way = "out"}) + Adds(way)
       /\ UNCHANGED cash

\* Mutant: the session is not read again.
RecordInAnyTill(r, way) ==
  LET ms == {Row(r, None, till[r], way)} IN
  IF Method[r] = "cash"
  THEN cash' = cash \cup ms /\ UNCHANGED <<bank, balance>>
  ELSE bank' = bank \cup ms /\ balance' = balance + Adds(way) /\ UNCHANGED cash

\* recordDirectedPayment.
Record(r, way) ==
  LET ms == {Row(r, None, till[r], way)} IN
  IF Method[r] = "cash"
  THEN /\ view[r].drawer[till[r]] = "open"
       /\ cash' = cash \cup ms
       /\ UNCHANGED <<bank, balance>>
  ELSE /\ bank' = bank \cup ms
       /\ balance' = balance + Adds(way)
       /\ UNCHANGED cash

\* The payments of the snapshot and its own decide the status, whatever the
\* row says by then.
CollectCommits(r) ==
  LET d == Doc[r]
      n == Cardinality(Payments(d, view[r].cash \cup view[r].bank)) + 1 IN
  /\ Kind[r] = "collect" /\ at[r] = "open"
  /\ Record(r, "in")
  /\ status' = [status EXCEPT ![d] = IF n >= Total[d] THEN "paid" ELSE "credit"]
  /\ Finish(r)
  /\ UNCHANGED <<drawer, expected, paid>>

\* paid_amount is written whole, from what was read before the transaction.
PayCommits(r) ==
  /\ Kind[r] = "pay" /\ at[r] = "open"
  /\ Record(r, "out")
  /\ paid' = [paid EXCEPT ![Doc[r]] = read[r] + 1]
  /\ Finish(r)
  /\ UNCHANGED <<drawer, expected, status>>

-----------------------------------------------------------------------------
\* AddMovement: statements of their own, in no transaction.

ManualChecks(r) ==
  /\ Kind[r] = "manual" /\ at[r] = "new"
  /\ \E t \in OpenIn(drawer, {User[r]}) : Check(r, t)
  /\ UNCHANGED <<target, read>>

ManualCash(r) ==
  /\ Kind[r] = "manual" /\ Method[r] = "cash" /\ at[r] = "checked"
  /\ cash' = cash \cup {Row(r, None, till[r], Way[r])}
  /\ Finish(r)
  /\ UNCHANGED <<drawer, expected, bank, balance, status, paid>>

ManualBank(r) ==
  /\ Kind[r] = "manual" /\ Method[r] = "bank" /\ at[r] = "checked"
  /\ bank' = bank \cup {Row(r, None, till[r], Way[r])}
  /\ Go(r, "half")
  /\ UNCHANGED <<drawer, expected, cash, balance, status, paid, till, target, read,
                 view, ghosts>>

ManualBalances(r) ==
  /\ at[r] = "half"
  /\ AccountFree(r)
  /\ balance' = balance + Adds(Way[r])
  /\ Finish(r)
  /\ UNCHANGED <<drawer, expected, cash, bank, status, paid>>

-----------------------------------------------------------------------------
\* CancelNotaVenta and Cancel, with reverseSaleCashTx.

CancelChecks(r) ==
  /\ Kind[r] = "cancel" /\ at[r] = "new"
  /\ IF status[Doc[r]] # "cancelled" THEN Check(r, None) /\ UNCHANGED <<target, read>>
     ELSE Refuse(r)

CancelOpens(r) == Kind[r] = "cancel" /\ at[r] = "checked" /\ Open(r)

\* openSessionForRefundTx: a session of the user if one is open, or any.
RefundTills(r, d) ==
  IF OpenIn(d, {User[r]}) # {} THEN OpenIn(d, {User[r]}) ELSE OpenIn(d, Users)

\* The unreversed payments of r's sale, in the snapshot.
Owed(r, ms) == {m \in Payments(Doc[r], ms) : ~Reversed(m, ms)}

\* Mutant: bank credits are left as they are.
CancelCashOnly(r) ==
  LET v == view[r] IN
  /\ Kind[r] = "cancel" /\ at[r] = "open"
  /\ cash' = cash \cup {Row(r, m.by, m.till, "out") :
                          m \in {m \in Owed(r, v.cash) : v.drawer[m.till] = "open"}}
  /\ status' = [status EXCEPT ![Doc[r]] = "cancelled"]
  /\ Finish(r)
  /\ UNCHANGED <<drawer, expected, bank, balance, paid>>

\* Cash goes back in the session it came in if that is open, or else in one
\* that is, or else waits (PendingSaleRefunds); bank credits always go back.
CancelCommits(r) ==
  LET v == view[r]
      others == RefundTills(r, v.drawer)
      here == {m \in Owed(r, v.cash) : v.drawer[m.till] = "open"}
      elsewhere == IF others = {} THEN {} ELSE Owed(r, v.cash) \ here IN
  /\ Kind[r] = "cancel" /\ at[r] = "open"
  /\ Owed(r, v.bank) # {} => AccountFree(r)
  /\ \E t \in others \cup {None} :
       /\ others # {} => t # None
       /\ cash' = cash \cup {Row(r, m.by, m.till, "out") : m \in here}
                       \cup {Row(r, m.by, t, "out") : m \in elsewhere}
  /\ bank' = bank \cup {Row(r, m.by, m.till, "out") : m \in Owed(r, v.bank)}
  /\ balance' = balance - Cardinality(Owed(r, v.bank))
  /\ status' = [status EXCEPT ![Doc[r]] = "cancelled"]
  /\ Finish(r)
  /\ UNCHANGED <<drawer, expected, paid>>

-----------------------------------------------------------------------------
\* ApplyPendingRefund: a movement from the list of pending ones, in an open
\* session.

RefundChecks(r) ==
  /\ Kind[r] = "refund" /\ at[r] = "new"
  /\ \E m \in Pending, t \in OpenIn(drawer, Users) :
       Check(r, t) /\ target' = [target EXCEPT ![r] = m.by]
  /\ UNCHANGED read

RefundOpens(r) == Kind[r] = "refund" /\ at[r] = "checked" /\ Open(r)

\* Mutant: createRefundInSessionTx does not look for an earlier one.
RefundAgain(r) ==
  /\ Kind[r] = "refund" /\ at[r] = "open"
  /\ cash' = cash \cup {Row(r, target[r], till[r], "out")}
  /\ Finish(r)
  /\ UNCHANGED <<drawer, expected, bank, balance, status, paid>>

\* createRefundInSessionTx; the session is not read again.
RefundCommits(r) ==
  /\ Kind[r] = "refund" /\ at[r] = "open"
  /\ cash' = IF \E n \in view[r].cash : n.of = target[r] THEN cash
             ELSE cash \cup {Row(r, target[r], till[r], "out")}
  /\ Finish(r)
  /\ UNCHANGED <<drawer, expected, bank, balance, status, paid>>

-----------------------------------------------------------------------------
\* ROLLBACK (the session is closed by now, a deadlock, a connection lost), or
\* the process stops between two statements.
Breaks(r) ==
  /\ at[r] \in {"checked", "counted", "open", "half"}
  /\ Go(r, "done")
  /\ view' = [view EXCEPT ![r] = None]
  /\ torn' = IF at[r] = "half" THEN torn \cup {r} ELSE torn
  /\ UNCHANGED <<tables, till, target, read, ended, since, seen>>

CashNext ==
  \E r \in Requests :
    \/ OpenChecks(r) \/ OpenInserts(r)
    \/ CloseChecks(r) \/ CloseCounts(r) \/ CloseWrites(r)
    \/ DeleteChecks(r) \/ DeleteWrites(r)
    \/ PaymentChecks(r) \/ PaymentOpens(r) \/ CollectCommits(r) \/ PayCommits(r)
    \/ ManualChecks(r) \/ ManualCash(r) \/ ManualBank(r) \/ ManualBalances(r)
    \/ CancelChecks(r) \/ CancelOpens(r) \/ CancelCommits(r)
    \/ RefundChecks(r) \/ RefundOpens(r) \/ RefundCommits(r)
    \/ Breaks(r)

CashSpec == CashInit /\ [][CashNext]_cashVars

-----------------------------------------------------------------------------
Rows == [by : Requests, of : Requests \cup {None}, till : Tills, way : {"in", "out"}]
Views == [drawer : [Tills -> {"none", "open", "closed", "deleted"}],
          cash : SUBSET Rows, bank : SUBSET Rows]

\* Type invariant: among the rest, a payable is never paid less than nothing
\* and a movement always names a session.
LedgerTypeOK ==
  /\ drawer \in [Tills -> {"none", "open", "closed", "deleted"}]
  /\ expected \in [Tills -> Int]
  /\ cash \subseteq Rows /\ bank \subseteq Rows
  /\ balance \in Int
  /\ status \in [Docs -> {"credit", "paid", "cancelled"}]
  /\ paid \in [Docs -> Nat]
  /\ at \in [Requests -> Phases]
  /\ till \in [Requests -> Tills \cup {None}]
  /\ target \in [Requests -> Requests \cup {None}]
  /\ read \in [Requests -> Int]
  /\ view \in [Requests -> Views \cup {None}]
  /\ ended \subseteq Requests /\ torn \subseteq Requests
  /\ since \in [Requests -> SUBSET Requests]
  /\ seen \in [Requests -> SUBSET Requests]

\* Neither request had ended when the other made its first check.
Concurrent(r, q) == q \notin since[r] /\ r \notin since[q]

\* Neither saw in its transaction what the other wrote.
Unseen(r, q) == q \notin seen[r] /\ r \notin seen[q]

\* What r knew when it last read the status of its session.
TillRead(r) == IF Kind[r] = "refund" THEN since[r] ELSE seen[r]

\* The balance of an account is its movements, in every interleaving, but for
\* the manual ones whose second statement has not run, or never will
\* (recordDirectedPayment, CreateBankReversal, AddMovement).
BankBalanceIsMovements ==
  LET counted == {m \in bank : at[m.by] # "half" /\ m.by \notin torn} IN
  balance = Cardinality({m \in counted : m.way = "in"})
            - Cardinality({m \in counted : m.way = "out"})

\* A payment is given back once, by a cancellation or from the list of pending
\* refunds, unless two transactions that did not see each other did it
\* (reversal_of_id has no unique index).
ReversedOnce ==
  \A m, n \in cash \cup bank :
    m.of # None /\ m.of = n.of /\ m # n => Unseen(m.by, n.by)

\* The payments of a document never exceed it, unless two of them were both
\* checked before either was written (Collect, Pay).
NeverOverpaid ==
  \A d \in Docs :
    LET ms == Payments(d, cash \cup bank) IN
    Cardinality(ms) > Total[d] =>
      \E m, n \in ms : m # n /\ Concurrent(m.by, n.by)

\* A sale marked paid has been paid; one that has been paid is not left as
\* credit unless two collections did not see each other (two that go to one
\* account do: the lock of its row orders them); and paid_amount is the sum of
\* the payments, unless two were concurrent (Collect, Pay).
StatusMatchesPayments ==
  \A d \in Docs :
    LET ms == Payments(d, cash \cup bank) IN
    /\ status[d] = "paid" => Cardinality(ms) >= Total[d]
    /\ status[d] = "credit" /\ {m \in ms : Kind[m.by] = "collect"} # {}
         /\ Cardinality(ms) >= Total[d] =>
         \E m, n \in ms : /\ m # n /\ Unseen(m.by, n.by)
                          /\ "cash" \in {Method[m.by], Method[n.by]}
    /\ {m \in ms : Kind[m.by] = "pay"} = ms /\ paid[d] # Cardinality(ms) =>
         \E m, n \in ms : m # n /\ Concurrent(m.by, n.by)

\* A debt and its payments agree: NeverOverpaid and StatusMatchesPayments, for
\* Collect, Pay and PendingSaleRefunds on one document.
DebtsSettle == NeverOverpaid /\ StatusMatchesPayments

\* The balance a close expects counts every cash movement of the session, but
\* for one whose request read the session before the close was written and
\* wrote after it was counted (CloseSession, getExpectedBalance).
CloseCountsAll ==
  \A t \in Tills :
    drawer[t] = "closed" /\ expected[t] # Net(cash, t) =>
      \E q \in ended, m \in cash :
        /\ Kind[q] = "close" /\ till[q] = t /\ m.till = t
        /\ q \notin TillRead(m.by) /\ m.by \notin seen[q]

\* A user has one session open, unless two opens were concurrent (OpenSession;
\* no unique index).
OneOpenDrawer ==
  \A t, u \in Tills :
    t # u /\ Owner[t] = Owner[u] /\ drawer[t] = "open" /\ drawer[u] = "open" =>
      \E r, q \in ended : /\ Kind[r] = "open" /\ Kind[q] = "open"
                          /\ NewTill[r] = t /\ NewTill[q] = u /\ Concurrent(r, q)

\* Made by a request that read session t before its row was deleted, and
\* committed after.
CrossedDelete(m, t) ==
  \E q \in ended : /\ Kind[q] = "delete" /\ till[q] = t
                   /\ q \notin TillRead(m.by) /\ m.by \notin seen[q]

\* The row of a session with cash movements is not deleted, unless a movement
\* and the DELETE crossed (DeleteEmptySession).
DeletedWasEmpty ==
  \A m \in cash : drawer[m.till] = "deleted" => CrossedDelete(m, m.till)

\* The drawers of a user: one open, and none gone with movements in it
\* (OpenSession, DeleteEmptySession).
DrawersKept == OneOpenDrawer /\ DeletedWasEmpty

\* When a sale is cancelled, a payment of it that went to a bank account, or
\* came in a cash session still open, has been reversed, unless the collection
\* was checked before the cancellation and not seen by it (reverseSaleCashTx).
CancelledIsRefunded ==
  \A d \in Docs : status[d] = "cancelled" =>
    \A m \in Payments(d, cash \cup bank) :
      \/ Reversed(m, cash \cup bank)
      \/ m \in cash /\ drawer[m.till] # "open"
      \/ \E q \in ended : /\ Kind[q] = "cancel" /\ Doc[q] = d
                          /\ q \notin since[m.by] /\ m.by \notin seen[q]

\* A cancelled sale stays cancelled, unless a collection checked before was
\* committed after (Collect writes the status without a condition).
CancelledStays ==
  \A q \in ended : Kind[q] = "cancel" =>
    \/ status[Doc[q]] = "cancelled"
    \/ \E r \in ended : /\ Kind[r] = "collect" /\ Doc[r] = Doc[q]
                        /\ q \notin since[r]

\* A cancellation is final and gives the money back (CancelNotaVenta, Cancel,
\* reverseSaleCashTx, Collect).
CancelledSettles == CancelledIsRefunded /\ CancelledStays
=============================================================================
