--------------------------- MODULE CashLedgerProofs ---------------------------
(***************************************************************************)
(* Proofs about CashLedger, for any users, cash sessions, documents and    *)
(* requests: what holds of the money although every handler checks before  *)
(* the transaction in which it writes.                                     *)
(***************************************************************************)
EXTENDS CashLedger, FiniteSetTheorems, TLAPS

\* The steps that only read.
Reads(r) ==
  \/ OpenChecks(r) \/ CloseChecks(r) \/ CloseCounts(r) \/ DeleteChecks(r)
  \/ PaymentChecks(r) \/ PaymentOpens(r) \/ ManualChecks(r)
  \/ CancelChecks(r) \/ CancelOpens(r) \/ RefundChecks(r) \/ RefundOpens(r)

\* The steps that end a request with what it came to write.
Writes(r) ==
  \/ OpenInserts(r) \/ CloseWrites(r) \/ DeleteWrites(r)
  \/ CollectCommits(r) \/ PayCommits(r) \/ ManualCash(r) \/ ManualBalances(r)
  \/ CancelCommits(r) \/ RefundCommits(r)

Step(r) == Reads(r) \/ Writes(r) \/ ManualBank(r) \/ Breaks(r)

Busy == {"checked", "counted", "open", "half"}

\* What a request under way has resolved.
Placed ==
  \A r \in Requests :
    /\ Kind[r] # "cancel" /\ at[r] \in Busy => till[r] \in Tills
    /\ Kind[r] # "open" /\ till[r] # None => drawer[till[r]] # "none"
    /\ Kind[r] = "open" /\ at[r] # "done" => drawer[NewTill[r]] = "none"
    /\ Kind[r] = "open" /\ at[r] \in Busy => till[r] = NewTill[r]
    /\ Kind[r] = "pay" /\ at[r] \in Busy => read[r] \in Nat
    /\ Kind[r] = "refund" /\ at[r] \in Busy =>
         target[r] \in Requests /\ Method[target[r]] = "cash"

\* The snapshot of an open transaction: movements are never deleted, and those
\* of the requests that had ended are in it.
Snapped ==
  \A r \in Requests : at[r] = "open" =>
    /\ view[r] \in Views /\ view[r].cash \subseteq cash /\ view[r].bank \subseteq bank
    /\ \A m \in cash : m.by \in seen[r] => m \in view[r].cash
    /\ \A m \in bank : m.by \in seen[r] => m \in view[r].bank

\* Who has ended, and whose movements there are.
Timed ==
  /\ \A r \in ended \cup torn : at[r] = "done"
  /\ ended \cap torn = {}
  /\ \A r \in Requests : seen[r] \subseteq ended /\ since[r] \subseteq ended
  /\ \A m \in cash : m.by \in ended
  /\ \A m \in bank : m.by \in ended \/ m.by \in torn \/ at[m.by] = "half"

\* Movements: a payment is one row, where its method says, and so is what
\* reverses it.
Shaped ==
  /\ IsFiniteSet(cash) /\ IsFiniteSet(bank)
  /\ \A m \in cash : Method[IF m.of = None THEN m.by ELSE m.of] = "cash"
  /\ \A m \in bank : Method[IF m.of = None THEN m.by ELSE m.of] = "bank"
  /\ \A m \in cash \cup bank : m.of = None =>
       /\ Kind[m.by] = "collect" => m.way = "in"
       /\ Kind[m.by] = "pay" => m.way = "out"
  /\ \A m, n \in cash \cup bank : m.of = None /\ n.of = None /\ m.by = n.by => m = n
  /\ \A r \in Requests : at[r] = "half" =>
       /\ Kind[r] = "manual"
       /\ Row(r, None, till[r], Way[r]) \in bank
       /\ \A m \in bank : m.by = r => m = Row(r, None, till[r], Way[r])

LedgerInv == LedgerTypeOK /\ Placed /\ Snapped /\ Timed /\ Shaped

-----------------------------------------------------------------------------
\* A step of r moves only r, and ends it or not.
LEMMA Locality ==
  ASSUME LedgerTypeOK, NEW r \in Requests, Step(r), NEW q \in Requests, q # r
  PROVE  /\ at'[q] = at[q] /\ till'[q] = till[q] /\ target'[q] = target[q]
         /\ read'[q] = read[q] /\ view'[q] = view[q]
         /\ since'[q] = since[q] /\ seen'[q] = seen[q]
<1>1. at'[q] = at[q]
  BY DEF LedgerTypeOK, Step, Reads, Writes, local, tables, ghosts, Go, Check, Refuse, Open,
         Write, Finish, OpenChecks, OpenInserts, CloseChecks, CloseCounts, CloseWrites,
         DeleteChecks, DeleteWrites, PaymentChecks, PaymentOpens, CollectCommits, PayCommits,
         ManualChecks, ManualCash, ManualBank, ManualBalances, CancelChecks, CancelOpens,
         CancelCommits, RefundChecks, RefundOpens, RefundCommits, Breaks
<1>2. till'[q] = till[q] /\ target'[q] = target[q]
  BY DEF LedgerTypeOK, Step, Reads, Writes, local, tables, ghosts, Go, Check, Refuse, Open,
         Write, Finish, OpenChecks, OpenInserts, CloseChecks, CloseCounts, CloseWrites,
         DeleteChecks, DeleteWrites, PaymentChecks, PaymentOpens, CollectCommits, PayCommits,
         ManualChecks, ManualCash, ManualBank, ManualBalances, CancelChecks, CancelOpens,
         CancelCommits, RefundChecks, RefundOpens, RefundCommits, Breaks
<1>3. read'[q] = read[q]
  BY DEF LedgerTypeOK, Step, Reads, Writes, local, tables, ghosts, Go, Check, Refuse, Open,
         Write, Finish, OpenChecks, OpenInserts, CloseChecks, CloseCounts, CloseWrites,
         DeleteChecks, DeleteWrites, PaymentChecks, PaymentOpens, CollectCommits, PayCommits,
         ManualChecks, ManualCash, ManualBank, ManualBalances, CancelChecks, CancelOpens,
         CancelCommits, RefundChecks, RefundOpens, RefundCommits, Breaks
<1>4. view'[q] = view[q]
  BY DEF LedgerTypeOK, Step, Reads, Writes, local, tables, ghosts, Go, Check, Refuse, Open,
         Write, Finish, OpenChecks, OpenInserts, CloseChecks, CloseCounts, CloseWrites,
         DeleteChecks, DeleteWrites, PaymentChecks, PaymentOpens, CollectCommits, PayCommits,
         ManualChecks, ManualCash, ManualBank, ManualBalances, CancelChecks, CancelOpens,
         CancelCommits, RefundChecks, RefundOpens, RefundCommits, Breaks
<1>5. since'[q] = since[q]
  BY DEF LedgerTypeOK, Step, Reads, Writes, local, tables, ghosts, Go, Check, Refuse, Open,
         Write, Finish, OpenChecks, OpenInserts, CloseChecks, CloseCounts, CloseWrites,
         DeleteChecks, DeleteWrites, PaymentChecks, PaymentOpens, CollectCommits, PayCommits,
         ManualChecks, ManualCash, ManualBank, ManualBalances, CancelChecks, CancelOpens,
         CancelCommits, RefundChecks, RefundOpens, RefundCommits, Breaks
<1>6. seen'[q] = seen[q]
  BY DEF LedgerTypeOK, Step, Reads, Writes, local, tables, ghosts, Go, Check, Refuse, Open,
         Write, Finish, OpenChecks, OpenInserts, CloseChecks, CloseCounts, CloseWrites,
         DeleteChecks, DeleteWrites, PaymentChecks, PaymentOpens, CollectCommits, PayCommits,
         ManualChecks, ManualCash, ManualBank, ManualBalances, CancelChecks, CancelOpens,
         CancelCommits, RefundChecks, RefundOpens, RefundCommits, Breaks
<1> QED
  BY <1>1, <1>2, <1>3, <1>4, <1>5, <1>6

LEMMA ReadsKeep ==
  ASSUME NEW r \in Requests, Reads(r) PROVE UNCHANGED <<tables, ended, torn>>
BY DEF Reads, tables, ghosts, Check, Refuse, Open,
       OpenChecks, CloseChecks, CloseCounts, DeleteChecks, PaymentChecks, PaymentOpens,
       ManualChecks, CancelChecks, CancelOpens, RefundChecks, RefundOpens

\* A request that writes ends, and nothing it had resolved changes.
LEMMA WritesEnd ==
  ASSUME LedgerTypeOK, NEW r \in Requests, Writes(r)
  PROVE  /\ at[r] \in Busy /\ at' = [at EXCEPT ![r] = "done"] /\ ended' = ended \cup {r}
         /\ view' = [view EXCEPT ![r] = None]
         /\ UNCHANGED <<till, target, read, since, torn>>
         /\ seen' = seen \/ (Kind[r] = "delete" /\ seen' = [seen EXCEPT ![r] = ended])
BY DEF LedgerTypeOK, Writes, Busy, tables, ghosts, Go, Write, Finish,
       OpenInserts, CloseWrites, DeleteWrites, CollectCommits, PayCommits,
       ManualCash, ManualBalances, CancelCommits, RefundCommits

\* How r comes to be where it is after a step that reads.
LEMMA ReadsArrive ==
  ASSUME LedgerTypeOK, NEW r \in Requests, Reads(r)
  PROVE  \/ at'[r] = "done" /\ UNCHANGED <<till, target, read, view, since, seen>>
         \/ /\ at[r] = "new" /\ at'[r] = "checked"
            /\ view' = view /\ since'[r] = ended /\ seen'[r] = ended
            /\ till'[r] \in Tills => \/ drawer[till'[r]] \in {"open", "closed"}
                                     \/ Kind[r] = "open" /\ till'[r] = NewTill[r]
            /\ Kind[r] = "open" => till'[r] = NewTill[r]
            /\ Kind[r] \in {"manual", "refund", "collect", "pay"} =>
                 till'[r] \in Tills /\ drawer[till'[r]] = "open"
            /\ Kind[r] # "cancel" => till'[r] \in Tills
         \/ /\ at[r] = "checked" /\ Kind[r] = "close" /\ at'[r] = "counted"
            /\ read'[r] = Net(cash, till[r]) /\ seen'[r] = ended
            /\ UNCHANGED <<till, target, view, since>>
         \/ /\ at[r] = "checked" /\ Kind[r] \in {"collect", "pay", "cancel", "refund"}
            /\ at'[r] = "open" /\ seen'[r] = ended
            /\ view'[r] = [drawer |-> drawer, cash |-> cash, bank |-> bank]
            /\ UNCHANGED <<till, target, read, since>>
<1>0. /\ at \in [Requests -> Phases] /\ till \in [Requests -> Tills \cup {None}]
      /\ view \in [Requests -> Views \cup {None}] /\ read \in [Requests -> Int]
      /\ seen \in [Requests -> SUBSET Requests] /\ since \in [Requests -> SUBSET Requests]
      /\ NewTill[r] \in Tills
  BY RequestAssumption DEF LedgerTypeOK
<1>1. CASE OpenChecks(r)
  BY <1>0, <1>1 DEF OpenChecks, Check, Refuse, Go, ghosts
<1>2. CASE CloseChecks(r) \/ DeleteChecks(r) \/ ManualChecks(r)
  BY <1>0, <1>2 DEF CloseChecks, DeleteChecks, ManualChecks, OpenIn, Check, Go
<1>3. CASE PaymentChecks(r)
  BY <1>0, <1>3 DEF PaymentChecks, OpenIn, Check, Refuse, Go, ghosts
<1>4. CASE CancelChecks(r)
  BY <1>0, <1>4, NoneAssumption DEF CancelChecks, Check, Refuse, Go, ghosts
<1>5. CASE RefundChecks(r)
  <2>1. PICK t \in OpenIn(drawer, Users) : Check(r, t)
    BY <1>5 DEF RefundChecks
  <2> QED
    BY <1>0, <1>5, <2>1 DEF RefundChecks, OpenIn, Check, Go
<1>6. CASE CloseCounts(r)
  BY <1>0, <1>6 DEF CloseCounts, Go
<1>7. CASE PaymentOpens(r) \/ CancelOpens(r) \/ RefundOpens(r)
  BY <1>0, <1>7 DEF PaymentOpens, CancelOpens, RefundOpens, Open, Go
<1> QED
  BY <1>1, <1>2, <1>3, <1>4, <1>5, <1>6, <1>7 DEF Reads

-----------------------------------------------------------------------------
\* Movements are only added, by the request that ends, in a session that was
\* open in its snapshot or at its check.

NewCash(r, m) ==
  \/ /\ Kind[r] = "collect" /\ at[r] = "open" /\ Method[r] = "cash"
     /\ m = Row(r, None, till[r], "in") /\ view[r].drawer[till[r]] = "open"
  \/ /\ Kind[r] = "pay" /\ at[r] = "open" /\ Method[r] = "cash"
     /\ m = Row(r, None, till[r], "out") /\ view[r].drawer[till[r]] = "open"
  \/ /\ Kind[r] = "manual" /\ at[r] = "checked" /\ Method[r] = "cash"
     /\ m = Row(r, None, till[r], Way[r])
  \/ /\ Kind[r] = "cancel" /\ at[r] = "open"
     /\ \E p \in Owed(r, view[r].cash) : m = Row(r, p.by, m.till, "out")
     /\ m.till \in Tills /\ view[r].drawer[m.till] = "open"
  \/ /\ Kind[r] = "refund" /\ at[r] = "open"
     /\ m = Row(r, target[r], till[r], "out")
     /\ \A n \in view[r].cash : n.of # target[r]

NewBank(r, m) ==
  \/ /\ Kind[r] = "collect" /\ at[r] = "open" /\ Method[r] = "bank"
     /\ m = Row(r, None, till[r], "in")
  \/ /\ Kind[r] = "pay" /\ at[r] = "open" /\ Method[r] = "bank"
     /\ m = Row(r, None, till[r], "out")
  \/ /\ ManualBank(r) /\ m = Row(r, None, till[r], Way[r])
  \/ /\ Kind[r] = "cancel" /\ at[r] = "open"
     /\ \E p \in Owed(r, view[r].bank) : m = Row(r, p.by, p.till, "out")

LEMMA CancelCash ==
  ASSUME Snapped, NEW r \in Requests, CancelCommits(r), NEW m \in cash', m \notin cash
  PROVE  NewCash(r, m)
<1> DEFINE v == view[r]
           others == RefundTills(r, v.drawer)
           here == {p \in Owed(r, v.cash) : v.drawer[p.till] = "open"}
           elsewhere == IF others = {} THEN {} ELSE Owed(r, v.cash) \ here
<1>1. v \in Views /\ Owed(r, v.cash) \subseteq Rows
  BY DEF CancelCommits, Snapped, Owed, Payments, Views
<1>2. PICK t \in others \cup {None} :
        /\ others # {} => t # None
        /\ cash' = cash \cup {Row(r, p.by, p.till, "out") : p \in here}
                        \cup {Row(r, p.by, t, "out") : p \in elsewhere}
  BY DEF CancelCommits
<1>3. \A x \in others : x \in Tills /\ v.drawer[x] = "open"
  BY DEF RefundTills, OpenIn
<1>4. Kind[r] = "cancel" /\ at[r] = "open"
  BY DEF CancelCommits
<1>5. CASE m \in {Row(r, p.by, p.till, "out") : p \in here}
  <2>1. PICK p \in here : m = Row(r, p.by, p.till, "out")
    BY <1>5
  <2>2. m.till = p.till /\ p.till \in Tills /\ v.drawer[p.till] = "open"
    BY <1>1, <2>1 DEF Row, Rows
  <2> QED
    BY <1>4, <2>1, <2>2 DEF NewCash
<1>6. CASE m \in {Row(r, p.by, t, "out") : p \in elsewhere}
  <2>1. PICK p \in Owed(r, v.cash) : m = Row(r, p.by, t, "out") /\ others # {}
    BY <1>6
  <2>2. m.till = t /\ t \in Tills /\ v.drawer[t] = "open"
    BY <1>2, <1>3, <2>1 DEF Row
  <2> QED
    BY <1>4, <2>1, <2>2 DEF NewCash
<1> HIDE DEF here, elsewhere
<1> QED
  BY <1>2, <1>5, <1>6

LEMMA CashGrows ==
  ASSUME Snapped, NEW r \in Requests, Step(r)
  PROVE  /\ cash \subseteq cash'
         /\ \A m \in cash' \ cash : Writes(r) /\ NewCash(r, m)
<1>1. CASE CollectCommits(r) \/ PayCommits(r)
  BY <1>1 DEF CollectCommits, PayCommits, Record, NewCash, Writes
<1>2. CASE ManualCash(r)
  BY <1>2 DEF ManualCash, NewCash, Writes
<1>3. CASE CancelCommits(r)
  <2>1. cash \subseteq cash'
    BY <1>3 DEF CancelCommits
  <2> QED
    BY <1>3, <2>1, CancelCash DEF Writes
<1>4. CASE RefundCommits(r)
  BY <1>4 DEF RefundCommits, NewCash, Writes
<1>5. CASE ~(CollectCommits(r) \/ PayCommits(r) \/ ManualCash(r) \/ CancelCommits(r)
             \/ RefundCommits(r))
  <2>1. cash' = cash
    BY <1>5, ReadsKeep
    DEF Step, Writes, tables, OpenInserts, CloseWrites, DeleteWrites, ManualBank,
        ManualBalances, Breaks
  <2> QED
    BY <2>1
<1> QED
  BY <1>1, <1>2, <1>3, <1>4, <1>5

LEMMA BankGrows ==
  ASSUME NEW r \in Requests, Step(r)
  PROVE  /\ bank \subseteq bank'
         /\ \A m \in bank' \ bank : (Writes(r) \/ ManualBank(r)) /\ NewBank(r, m)
<1>1. CASE CollectCommits(r) \/ PayCommits(r)
  BY <1>1, RequestAssumption DEF CollectCommits, PayCommits, Record, NewBank, Writes
<1>2. CASE ManualBank(r)
  BY <1>2 DEF ManualBank, NewBank
<1>3. CASE CancelCommits(r)
  BY <1>3 DEF CancelCommits, NewBank, Writes
<1>4. CASE ~(CollectCommits(r) \/ PayCommits(r) \/ ManualBank(r) \/ CancelCommits(r))
  <2>1. bank' = bank
    BY <1>4, ReadsKeep
    DEF Step, Writes, tables, OpenInserts, CloseWrites, DeleteWrites, ManualCash,
        ManualBalances, RefundCommits, Breaks
  <2> QED
    BY <2>1
<1> QED
  BY <1>1, <1>2, <1>3, <1>4

\* What is owed is payments of one sale, each a row of its own.
LEMMA OwedType ==
  ASSUME NEW r \in Requests, NEW ms \in SUBSET Rows, NEW p \in Owed(r, ms)
  PROVE  /\ p \in ms /\ p.of = None /\ p.by \in Requests /\ p.till \in Tills
         /\ Kind[p.by] \in {"collect", "pay"} /\ \A n \in ms : n.of # p.by
BY DEF Owed, Payments, Reversed, Rows

LEMMA CashRow ==
  ASSUME LedgerTypeOK, Placed, Snapped, NEW r \in Requests, NEW m, NewCash(r, m)
  PROVE  m \in Rows /\ m.by = r
<1>1. CASE Kind[r] = "cancel"
  <2>1. PICK p \in Owed(r, view[r].cash) : m = Row(r, p.by, m.till, "out") /\ m.till \in Tills
    BY <1>1 DEF NewCash
  <2>2. view[r].cash \in SUBSET Rows
    BY <1>1 DEF NewCash, Snapped, Views
  <2>3. p.by \in Requests
    BY <2>1, <2>2, OwedType
  <2> QED
    BY <2>1, <2>3 DEF Row, Rows
<1>2. CASE Kind[r] # "cancel"
  <2>1. till[r] \in Tills
    BY <1>2 DEF NewCash, Placed, Busy
  <2>2. Way[r] \in {"in", "out"} /\ target[r] \in Requests \cup {None}
    BY RequestAssumption DEF LedgerTypeOK
  <2> QED
    BY <1>2, <2>1, <2>2 DEF NewCash, Row, Rows
<1> QED
  BY <1>1, <1>2

LEMMA BankRow ==
  ASSUME LedgerTypeOK, Placed, Snapped, NEW r \in Requests, NEW m, NewBank(r, m)
  PROVE  m \in Rows /\ m.by = r
<1>1. CASE Kind[r] = "cancel"
  <2>1. PICK p \in Owed(r, view[r].bank) : m = Row(r, p.by, p.till, "out")
    BY <1>1 DEF NewBank, ManualBank
  <2>2. view[r].bank \in SUBSET Rows
    BY <1>1 DEF NewBank, Snapped, Views, ManualBank
  <2>3. p.by \in Requests /\ p.till \in Tills
    BY <2>1, <2>2, OwedType
  <2> QED
    BY <2>1, <2>3 DEF Row, Rows
<1>2. CASE Kind[r] # "cancel"
  <2>1. till[r] \in Tills
    BY <1>2 DEF NewBank, Placed, Busy, ManualBank
  <2>2. Way[r] \in {"in", "out"}
    BY RequestAssumption
  <2> QED
    BY <1>2, <2>1, <2>2 DEF NewBank, Row, Rows
<1> QED
  BY <1>1, <1>2

-----------------------------------------------------------------------------
\* Type correctness, and what a request under way has resolved.

LEMMA NetType ==
  ASSUME NEW ms, IsFiniteSet(ms), NEW t PROVE Net(ms, t) \in Int
<1>1. \A way : Cardinality({m \in ms : m.till = t /\ m.way = way}) \in Nat
  BY FS_Subset, FS_CardinalityType
<1>2. Count(ms, t, "in") \in Nat /\ Count(ms, t, "out") \in Nat
  BY <1>1 DEF Count
<1> QED
  BY <1>2 DEF Net

LEMMA SettledType ==
  ASSUME LedgerInv, NEW r \in Requests PROVE Settled(r) \in Nat
<1>1. IsFiniteSet(cash \cup bank)
  BY FS_Union DEF LedgerInv, Shaped
<1>2. Cardinality(Payments(Doc[r], cash \cup bank)) \in Nat
  BY <1>1, FS_Subset, FS_CardinalityType DEF Payments
<1> QED
  BY <1>2, RequestAssumption DEF Settled, LedgerInv, LedgerTypeOK

LEMMA OwedFinite ==
  ASSUME LedgerInv, NEW r \in Requests, at[r] = "open"
  PROVE  /\ IsFiniteSet(Owed(r, view[r].bank)) /\ Cardinality(Owed(r, view[r].bank)) \in Nat
         /\ IsFiniteSet(Owed(r, view[r].cash))
<1>1. Owed(r, view[r].bank) \subseteq bank /\ Owed(r, view[r].cash) \subseteq cash
  BY DEF Owed, Payments, LedgerInv, Snapped
<1> QED
  BY <1>1, FS_Subset, FS_CardinalityType DEF LedgerInv, Shaped

LEMMA StepRead ==
  ASSUME LedgerInv, NEW r \in Requests, Step(r)
  PROVE  /\ read' \in [Requests -> Int]
         /\ Kind[r] = "pay" /\ at'[r] \in Busy => read'[r] \in Nat
         /\ Kind[r] = "refund" /\ at'[r] \in Busy =>
              target'[r] \in Requests /\ Method[target'[r]] = "cash"
         /\ target' \in [Requests -> Requests \cup {None}]
<1>0. /\ read \in [Requests -> Int] /\ target \in [Requests -> Requests \cup {None}]
      /\ at \in [Requests -> Phases]
  BY DEF LedgerInv, LedgerTypeOK
<1>1. CASE PaymentChecks(r)
  BY <1>0, <1>1, SettledType DEF PaymentChecks, Refuse, Go, Busy
<1>2. CASE CloseCounts(r)
  <2>1. Net(cash, till[r]) \in Int
    BY NetType DEF LedgerInv, Shaped
  <2> QED
    BY <1>0, <1>2, <2>1 DEF CloseCounts
<1>3. CASE RefundChecks(r)
  <2>1. PICK m \in Pending : target' = [target EXCEPT ![r] = m.by]
    BY <1>3 DEF RefundChecks
  <2>2. m \in cash /\ m.of = None /\ m.by \in Requests
    BY <2>1 DEF Pending, LedgerInv, LedgerTypeOK, Rows
  <2>3. Method[m.by] = "cash"
    BY <2>2 DEF LedgerInv, Shaped
  <2> QED
    BY <1>0, <1>3, <2>1, <2>2, <2>3 DEF RefundChecks
<1>4. CASE ~(PaymentChecks(r) \/ CloseCounts(r) \/ RefundChecks(r))
  <2>1. read' = read /\ target' = target
    BY <1>4
    DEF Step, Reads, Writes, Check, Refuse, Open, Write, Finish, OpenChecks, OpenInserts,
        CloseChecks, CloseWrites, DeleteChecks, DeleteWrites, PaymentOpens,
        CollectCommits, PayCommits, ManualChecks, ManualCash, ManualBank, ManualBalances,
        CancelChecks, CancelOpens, CancelCommits, RefundOpens, RefundCommits, Breaks
  <2>2. Kind[r] \in {"pay", "refund"} /\ at'[r] \in Busy => at[r] \in Busy
    BY <1>0, <1>4
    DEF Step, Reads, Writes, Busy, Go, Check, Refuse, Open, Write, Finish, OpenChecks,
        OpenInserts, CloseChecks, CloseWrites, DeleteChecks, DeleteWrites, PaymentOpens,
        CollectCommits, PayCommits, ManualChecks, ManualCash, ManualBank, ManualBalances,
        CancelChecks, CancelOpens, CancelCommits, RefundOpens, RefundCommits, Breaks
  <2> QED
    BY <1>0, <2>1, <2>2 DEF LedgerInv, Placed
<1> QED
  BY <1>1, <1>2, <1>3, <1>4

LEMMA StepBalance ==
  ASSUME LedgerInv, NEW r \in Requests, Step(r)
  PROVE  balance' \in Int
<1>0. balance \in Int /\ \A way : Adds(way) \in Int
  BY DEF LedgerInv, LedgerTypeOK, Adds
<1>1. CASE CollectCommits(r) \/ PayCommits(r)
  BY <1>0, <1>1 DEF CollectCommits, PayCommits, Record
<1>2. CASE ManualBalances(r)
  BY <1>0, <1>2 DEF ManualBalances
<1>3. CASE CancelCommits(r)
  <2>1. Cardinality(Owed(r, view[r].bank)) \in Nat
    BY <1>3, OwedFinite DEF CancelCommits
  <2> QED
    BY <1>0, <1>3, <2>1 DEF CancelCommits
<1>4. CASE ~(CollectCommits(r) \/ PayCommits(r) \/ ManualBalances(r) \/ CancelCommits(r))
  BY <1>0, <1>4, ReadsKeep
  DEF Step, Writes, tables, OpenInserts, CloseWrites, DeleteWrites, ManualCash,
      ManualBank, RefundCommits, Breaks
<1> QED
  BY <1>1, <1>2, <1>3, <1>4

\* What a step may do to a cash session: none is opened again.
LEMMA DrawerStep ==
  ASSUME LedgerInv, NEW r \in Requests, Step(r)
  PROVE  \/ drawer' = drawer /\ expected' = expected
         \/ /\ OpenInserts(r) /\ till[r] = NewTill[r] /\ drawer[till[r]] = "none"
            /\ drawer' = [drawer EXCEPT ![till[r]] = "open"] /\ expected' = expected
         \/ /\ CloseWrites(r) /\ till[r] \in Tills
            /\ drawer[till[r]] \in {"open", "closed"}
            /\ drawer' = [drawer EXCEPT ![till[r]] = "closed"]
            /\ expected' = [expected EXCEPT ![till[r]] = read[r]]
         \/ /\ DeleteWrites(r) /\ till[r] \in Tills
            /\ drawer[till[r]] # "none" /\ {m \in cash : m.till = till[r]} = {}
            /\ drawer' = [drawer EXCEPT ![till[r]] = "deleted"] /\ expected' = expected
<1>0. drawer \in [Tills -> {"none", "open", "closed", "deleted"}]
  BY DEF LedgerInv, LedgerTypeOK
<1>1. CASE OpenInserts(r)
  BY <1>1 DEF OpenInserts, LedgerInv, Placed, Busy
<1>2. CASE CloseWrites(r) \/ DeleteWrites(r)
  <2>1. till[r] \in Tills /\ drawer[till[r]] # "none"
    BY <1>2, NoneAssumption DEF CloseWrites, DeleteWrites, LedgerInv, Placed, Busy
  <2> QED
    BY <1>0, <1>2, <2>1 DEF CloseWrites, DeleteWrites
<1>3. CASE ~(OpenInserts(r) \/ CloseWrites(r) \/ DeleteWrites(r))
  BY <1>3, ReadsKeep
  DEF Step, Writes, tables, CollectCommits, PayCommits, ManualCash, ManualBank,
      ManualBalances, CancelCommits, RefundCommits, Breaks
<1> QED
  BY <1>1, <1>2, <1>3

LEMMA StepTables ==
  ASSUME LedgerInv, NEW r \in Requests, Step(r)
  PROVE  /\ drawer' \in [Tills -> {"none", "open", "closed", "deleted"}]
         /\ expected' \in [Tills -> Int]
         /\ cash' \subseteq Rows /\ bank' \subseteq Rows
         /\ status' \in [Docs -> {"credit", "paid", "cancelled"}]
         /\ paid' \in [Docs -> Nat]
<1>0. /\ drawer \in [Tills -> {"none", "open", "closed", "deleted"}]
      /\ expected \in [Tills -> Int] /\ read \in [Requests -> Int]
      /\ status \in [Docs -> {"credit", "paid", "cancelled"}]
      /\ paid \in [Docs -> Nat] /\ cash \subseteq Rows /\ bank \subseteq Rows
  BY DEF LedgerInv, LedgerTypeOK
<1>1. drawer' \in [Tills -> {"none", "open", "closed", "deleted"}]
      /\ expected' \in [Tills -> Int]
  BY <1>0, DrawerStep
<1>2. cash' \subseteq Rows /\ bank' \subseteq Rows
  BY <1>0, CashGrows, BankGrows, CashRow, BankRow DEF LedgerInv
<1>3. status' \in [Docs -> {"credit", "paid", "cancelled"}]
  BY <1>0, ReadsKeep
  DEF Step, Writes, tables, OpenInserts, CloseWrites, DeleteWrites, CollectCommits,
      PayCommits, ManualCash, ManualBank, ManualBalances, CancelCommits, RefundCommits, Breaks
<1>4. paid' \in [Docs -> Nat]
  <2>1. CASE PayCommits(r)
    <3>1. read[r] + 1 \in Nat
      BY <2>1 DEF PayCommits, LedgerInv, Placed, Busy
    <3> QED
      BY <1>0, <2>1, <3>1 DEF PayCommits
  <2>2. CASE ~PayCommits(r)
    BY <1>0, <2>2, ReadsKeep
    DEF Step, Writes, tables, OpenInserts, CloseWrites, DeleteWrites, CollectCommits,
        ManualCash, ManualBank, ManualBalances, CancelCommits, RefundCommits, Breaks
  <2> QED
    BY <2>1, <2>2
<1> QED
  BY <1>1, <1>2, <1>3, <1>4

LEMMA StepLocal ==
  ASSUME LedgerInv, NEW r \in Requests, Step(r)
  PROVE  /\ at' \in [Requests -> Phases] /\ till' \in [Requests -> Tills \cup {None}]
         /\ view' \in [Requests -> Views \cup {None}]
         /\ ended' \subseteq Requests /\ torn' \subseteq Requests
         /\ since' \in [Requests -> SUBSET Requests]
         /\ seen' \in [Requests -> SUBSET Requests]
<1>0. /\ at \in [Requests -> Phases] /\ till \in [Requests -> Tills \cup {None}]
      /\ view \in [Requests -> Views \cup {None}]
      /\ ended \subseteq Requests /\ torn \subseteq Requests
      /\ since \in [Requests -> SUBSET Requests] /\ seen \in [Requests -> SUBSET Requests]
      /\ [drawer |-> drawer, cash |-> cash, bank |-> bank] \in Views /\ NewTill[r] \in Tills
  BY RequestAssumption DEF LedgerInv, LedgerTypeOK, Views
<1>1. CASE Reads(r)
  <2>1. CASE OpenChecks(r) \/ PaymentChecks(r) \/ CancelChecks(r)
    BY <1>0, <2>1 DEF OpenChecks, PaymentChecks, CancelChecks, OpenIn, Check, Refuse, Go,
                      ghosts, Phases
  <2>2. CASE CloseChecks(r) \/ DeleteChecks(r) \/ ManualChecks(r)
    BY <1>0, <2>2 DEF CloseChecks, DeleteChecks, ManualChecks, OpenIn, Check, Go, Phases
  <2>3. CASE RefundChecks(r)
    <3>1. PICK t \in OpenIn(drawer, Users) : Check(r, t)
      BY <2>3 DEF RefundChecks
    <3> QED
      BY <1>0, <3>1 DEF OpenIn, Check, Go, Phases
  <2>4. CASE CloseCounts(r) \/ PaymentOpens(r) \/ CancelOpens(r) \/ RefundOpens(r)
    BY <1>0, <2>4 DEF CloseCounts, PaymentOpens, CancelOpens, RefundOpens, Open, Go, Phases
  <2> QED
    BY <1>1, <2>1, <2>2, <2>3, <2>4 DEF Reads
<1>2. CASE Writes(r)
  <2>1. "done" \in Phases
    BY DEF Phases
  <2> QED
    BY <1>0, <1>2, <2>1, WritesEnd DEF LedgerInv
<1>3. CASE ManualBank(r) \/ Breaks(r)
  BY <1>0, <1>3 DEF ManualBank, Breaks, Go, ghosts, Phases
<1> QED
  BY <1>1, <1>2, <1>3 DEF Step

LEMMA TypeKept ==
  ASSUME LedgerInv, NEW r \in Requests, Step(r) PROVE LedgerTypeOK'
BY StepRead, StepBalance, StepTables, StepLocal DEF LedgerTypeOK

LEMMA PlacedKept ==
  ASSUME LedgerInv, NEW r \in Requests, Step(r) PROVE Placed'
<1>0. /\ at \in [Requests -> Phases] /\ till \in [Requests -> Tills \cup {None}]
      /\ drawer \in [Tills -> {"none", "open", "closed", "deleted"}]
      /\ \A q \in Requests : NewTill[q] \in Tills
  BY RequestAssumption DEF LedgerInv, LedgerTypeOK
<1>1. \A t \in Tills : drawer[t] # "none" => drawer'[t] # "none"
  BY <1>0, DrawerStep
<1>2. ASSUME NEW q \in Requests, Kind[q] # "open", till'[q] # None
      PROVE  drawer'[till'[q]] # "none"
  <2>1. till'[q] \in Tills
    BY <1>2, StepLocal
  <2>2. CASE till'[q] = till[q]
    BY <1>1, <1>2, <2>1, <2>2 DEF LedgerInv, Placed
  <2>3. CASE till'[q] # till[q]
    <3>1. q = r
      BY <2>3, Locality DEF LedgerInv
    <3>2. Reads(r)
      BY <2>3, <3>1, WritesEnd DEF Step, ManualBank, Breaks, LedgerInv
    <3>3. drawer[till'[r]] # "none"
      BY <1>2, <2>1, <2>3, <3>1, <3>2, ReadsArrive DEF LedgerInv
    <3> QED
      BY <1>1, <2>1, <3>1, <3>3
  <2> QED
    BY <2>2, <2>3
<1>3. ASSUME NEW q \in Requests, Kind[q] = "open", at'[q] # "done"
      PROVE  drawer'[NewTill[q]] = "none"
  <2>1. at[q] # "done"
    <3>1. CASE q = r
      BY <1>3, <3>1
      DEF Step, Reads, Writes, OpenChecks, OpenInserts, CloseChecks, CloseCounts, CloseWrites,
          DeleteChecks, DeleteWrites, PaymentChecks, PaymentOpens, CollectCommits, PayCommits,
          ManualChecks, ManualCash, ManualBank, ManualBalances, CancelChecks, CancelOpens,
          CancelCommits, RefundChecks, RefundOpens, RefundCommits, Breaks
    <3>2. CASE q # r
      BY <1>3, <3>2, Locality DEF LedgerInv
    <3> QED
      BY <3>1, <3>2
  <2>2. drawer[NewTill[q]] = "none"
    BY <1>3, <2>1 DEF LedgerInv, Placed
  <2>3. ~(OpenInserts(r) /\ NewTill[r] = NewTill[q])
    <3>1. CASE q = r
      BY <1>0, <1>3, <3>1 DEF OpenInserts, Finish, Write, Go
    <3>2. CASE q # r
      BY <1>3, <3>2, OpenAssumption DEF OpenInserts
    <3> QED
      BY <3>1, <3>2
  <2> QED
    BY <1>0, <2>2, <2>3, DrawerStep
<1>4. ASSUME NEW q \in Requests, at'[q] \in Busy
      PROVE  /\ Kind[q] # "cancel" => till'[q] \in Tills
             /\ Kind[q] = "open" => till'[q] = NewTill[q]
  <2>1. CASE q # r
    BY <1>4, <2>1, Locality DEF LedgerInv, Placed
  <2>2. CASE q = r /\ Reads(r)
    BY <1>4, <2>2, ReadsArrive DEF LedgerInv, Placed, Busy
  <2>3. CASE q = r /\ (Writes(r) \/ Breaks(r))
    BY <1>0, <1>4, <2>3, WritesEnd DEF LedgerInv, Breaks, Go, Busy
  <2>4. CASE q = r /\ ManualBank(r)
    BY <1>0, <2>4 DEF ManualBank, LedgerInv, Placed, Busy
  <2> QED
    BY <2>1, <2>2, <2>3, <2>4 DEF Step
<1>5. ASSUME NEW q \in Requests, at'[q] \in Busy
      PROVE  /\ Kind[q] = "pay" => read'[q] \in Nat
             /\ Kind[q] = "refund" => target'[q] \in Requests /\ Method[target'[q]] = "cash"
  <2>1. CASE q # r
    BY <1>5, <2>1, Locality DEF LedgerInv, Placed
  <2>2. CASE q = r
    BY <1>5, <2>2, StepRead
  <2> QED
    BY <2>1, <2>2
<1> QED
  BY <1>2, <1>3, <1>4, <1>5 DEF Placed, Busy

LEMMA SnappedKept ==
  ASSUME LedgerInv, NEW r \in Requests, Step(r) PROVE Snapped'
<1>0. /\ at \in [Requests -> Phases]
      /\ cash \subseteq cash' /\ bank \subseteq bank'
      /\ [drawer |-> drawer, cash |-> cash, bank |-> bank] \in Views
  BY CashGrows, BankGrows DEF LedgerInv, LedgerTypeOK, Views
<1>1. \A m \in cash' \ cash : m.by = r
  BY CashGrows, CashRow DEF LedgerInv
<1>2. \A m \in bank' \ bank : m.by = r
  BY BankGrows, BankRow DEF LedgerInv
<1> SUFFICES ASSUME NEW q \in Requests, at'[q] = "open"
             PROVE  /\ view'[q] \in Views /\ view'[q].cash \subseteq cash'
                    /\ view'[q].bank \subseteq bank'
                    /\ \A m \in cash' : m.by \in seen'[q] => m \in view'[q].cash
                    /\ \A m \in bank' : m.by \in seen'[q] => m \in view'[q].bank
  BY DEF Snapped
<1>3. CASE q # r
  <2>1. at[q] = "open" /\ view'[q] = view[q] /\ seen'[q] = seen[q]
    BY <1>3, Locality DEF LedgerInv
  <2>2. r \notin seen[q]
    <3>1. at[r] # "done"
      BY DEF Step, Reads, Writes, OpenChecks, OpenInserts, CloseChecks, CloseCounts, CloseWrites,
          DeleteChecks, DeleteWrites, PaymentChecks, PaymentOpens, CollectCommits, PayCommits,
          ManualChecks, ManualCash, ManualBank, ManualBalances, CancelChecks, CancelOpens,
          CancelCommits, RefundChecks, RefundOpens, RefundCommits, Breaks
    <3> QED
      BY <3>1 DEF LedgerInv, Timed
  <2>3. view[q] \in Views /\ view[q].cash \subseteq cash /\ view[q].bank \subseteq bank
    BY <2>1 DEF LedgerInv, Snapped
  <2>4. \A m \in cash' : m.by \in seen[q] => m \in view[q].cash
    BY <1>1, <2>1, <2>2 DEF LedgerInv, Snapped
  <2>5. \A m \in bank' : m.by \in seen[q] => m \in view[q].bank
    BY <1>2, <2>1, <2>2 DEF LedgerInv, Snapped
  <2> QED
    BY <1>0, <2>1, <2>3, <2>4, <2>5
<1>4. CASE q = r
  <2>1. Reads(r)
    BY <1>0, <1>4, WritesEnd DEF Step, ManualBank, Breaks, Go, LedgerInv
  <2>2. UNCHANGED <<cash, bank>>
    BY <2>1, ReadsKeep DEF tables
  <2>3. view'[r] = [drawer |-> drawer, cash |-> cash, bank |-> bank]
    BY <1>4, <2>1, ReadsArrive
    DEF LedgerInv, Reads, OpenChecks, CloseChecks, CloseCounts, DeleteChecks, PaymentChecks,
        PaymentOpens, ManualChecks, CancelChecks, CancelOpens, RefundChecks, RefundOpens
  <2> QED
    BY <1>0, <1>4, <2>2, <2>3
<1> QED
  BY <1>3, <1>4

LEMMA TimedKept ==
  ASSUME LedgerInv, NEW r \in Requests, Step(r) PROVE Timed'
<1>0. /\ at \in [Requests -> Phases] /\ at[r] # "done"
      /\ ended \subseteq Requests /\ torn \subseteq Requests
      /\ \A m \in bank : m.by \in Requests
      /\ seen \in [Requests -> SUBSET Requests] /\ since \in [Requests -> SUBSET Requests]
  BY DEF LedgerInv, LedgerTypeOK, Rows, Step, Reads, Writes, OpenChecks, OpenInserts,
         CloseChecks, CloseCounts, CloseWrites,
         DeleteChecks, DeleteWrites, PaymentChecks, PaymentOpens, CollectCommits, PayCommits,
         ManualChecks, ManualCash, ManualBank, ManualBalances, CancelChecks, CancelOpens,
         CancelCommits, RefundChecks, RefundOpens, RefundCommits, Breaks
<1>1. r \notin ended /\ r \notin torn
  BY <1>0 DEF LedgerInv, Timed
<1>2. \A q \in Requests : q # r => at'[q] = at[q] /\ seen'[q] = seen[q] /\ since'[q] = since[q]
  BY Locality DEF LedgerInv
<1>3. \A m \in cash' \ cash : m.by = r /\ Writes(r)
  BY CashGrows, CashRow DEF LedgerInv
<1>4. \A m \in bank' \ bank : m.by = r /\ (Writes(r) \/ ManualBank(r))
  BY BankGrows, BankRow DEF LedgerInv
<1>5. CASE Reads(r)
  <2>1. UNCHANGED <<ended, torn, cash, bank>>
    BY <1>5, ReadsKeep DEF tables
  <2>2. seen'[r] \in {seen[r], ended} /\ since'[r] \in {since[r], ended}
    BY <1>5, ReadsArrive DEF LedgerInv
  <2>3. at[r] # "half"
    BY <1>5 DEF Reads, OpenChecks, CloseChecks, CloseCounts, DeleteChecks, PaymentChecks,
         PaymentOpens, ManualChecks, CancelChecks, CancelOpens, RefundChecks, RefundOpens
  <2>4. \A q \in Requests : seen'[q] \subseteq ended' /\ since'[q] \subseteq ended'
    BY <1>2, <2>1, <2>2 DEF LedgerInv, Timed
  <2>5. \A m \in bank' : m.by \in ended' \/ m.by \in torn' \/ at'[m.by] = "half"
    BY <1>0, <1>2, <2>1, <2>3 DEF LedgerInv, Timed
  <2>6. \A q \in ended' \cup torn' : at'[q] = "done"
    BY <1>0, <1>1, <1>2, <2>1 DEF LedgerInv, Timed
  <2> QED
    BY <2>1, <2>4, <2>5, <2>6 DEF LedgerInv, Timed
<1>6. CASE Writes(r)
  <2>1. /\ at' = [at EXCEPT ![r] = "done"] /\ ended' = ended \cup {r} /\ torn' = torn
        /\ since' = since
        /\ seen' = seen \/ seen' = [seen EXCEPT ![r] = ended]
    BY <1>6, WritesEnd DEF LedgerInv
  <2>2. \A q \in Requests : seen'[q] \subseteq ended' /\ since'[q] \subseteq ended'
    BY <1>0, <2>1 DEF LedgerInv, Timed
  <2>3. \A m \in bank' : m.by \in ended' \/ m.by \in torn' \/ at'[m.by] = "half"
    BY <1>0, <1>4, <2>1 DEF LedgerInv, Timed
  <2>4. \A m \in cash' : m.by \in ended'
    BY <1>3, <2>1 DEF LedgerInv, Timed
  <2>5. \A q \in ended' \cup torn' : at'[q] = "done"
    BY <1>0, <2>1 DEF LedgerInv, Timed
  <2>6. ended' \cap torn' = {}
    BY <1>1, <2>1 DEF LedgerInv, Timed
  <2> QED
    BY <2>2, <2>3, <2>4, <2>5, <2>6 DEF Timed
<1>7. CASE ManualBank(r)
  <2>1. at' = [at EXCEPT ![r] = "half"] /\ UNCHANGED <<ended, torn, cash, since, seen>>
    BY <1>7 DEF ManualBank, Go, ghosts
  <2>2. \A m \in bank' : m.by \in ended' \/ m.by \in torn' \/ at'[m.by] = "half"
    BY <1>0, <1>4, <2>1 DEF LedgerInv, Timed
  <2>3. \A q \in ended' \cup torn' : at'[q] = "done"
    BY <1>0, <1>1, <2>1 DEF LedgerInv, Timed
  <2> QED
    BY <2>1, <2>2, <2>3 DEF LedgerInv, Timed
<1>8. CASE Breaks(r)
  <2>1. /\ at' = [at EXCEPT ![r] = "done"] /\ UNCHANGED <<ended, cash, bank, since, seen>>
        /\ torn' = IF at[r] = "half" THEN torn \cup {r} ELSE torn
    BY <1>8 DEF Breaks, Go, tables
  <2>2. \A m \in bank' : m.by \in ended' \/ m.by \in torn' \/ at'[m.by] = "half"
    BY <1>0, <2>1 DEF LedgerInv, Timed
  <2>3. \A q \in ended' \cup torn' : at'[q] = "done"
    BY <1>0, <2>1 DEF LedgerInv, Timed
  <2>4. ended' \cap torn' = {}
    BY <1>1, <2>1 DEF LedgerInv, Timed
  <2> QED
    BY <2>1, <2>2, <2>3, <2>4 DEF LedgerInv, Timed
<1> QED
  BY <1>5, <1>6, <1>7, <1>8 DEF Step

LEMMA ImageOf ==
  ASSUME NEW S, IsFiniteSet(S), NEW f, f = [x \in S |-> f[x]], NEW T, T = {f[x] : x \in S}
  PROVE  /\ IsFiniteSet(T)
         /\ (\A x, y \in S : f[x] = f[y] => x = y) => Cardinality(T) = Cardinality(S)
<1>1. f \in Surjection(S, T)
  BY DEF Surjection
<1>2. (\A x, y \in S : f[x] = f[y] => x = y) => f \in Injection(S, T)
  BY DEF Injection, IsInjective
<1> QED
  BY <1>1, <1>2, FS_Surjection

\* A request has no movement before it writes, unless it is between the two
\* statements of a manual one.
LEMMA NoneBefore ==
  ASSUME LedgerInv, NEW r \in Requests, at[r] # "done", at[r] # "half"
  PROVE  \A m \in cash \cup bank : m.by # r
BY DEF LedgerInv, Timed

LEMMA FiniteKept ==
  ASSUME LedgerInv, NEW r \in Requests, Step(r)
  PROVE  IsFiniteSet(cash') /\ IsFiniteSet(bank')
<1>0. IsFiniteSet(cash) /\ IsFiniteSet(bank)
  BY DEF LedgerInv, Shaped
<1>1. CASE CancelCommits(r)
  <2> DEFINE v == view[r]
             others == RefundTills(r, v.drawer)
             here == {p \in Owed(r, v.cash) : v.drawer[p.till] = "open"}
             elsewhere == IF others = {} THEN {} ELSE Owed(r, v.cash) \ here
  <2>1. /\ IsFiniteSet(Owed(r, v.cash)) /\ IsFiniteSet(Owed(r, v.bank))
    BY <1>1, OwedFinite DEF CancelCommits
  <2>2. IsFiniteSet(here) /\ IsFiniteSet(elsewhere)
    BY <2>1, FS_Subset, FS_EmptySet
  <2>3. PICK t \in others \cup {None} :
          cash' = cash \cup {Row(r, p.by, p.till, "out") : p \in here}
                       \cup {Row(r, p.by, t, "out") : p \in elsewhere}
    BY <1>1 DEF CancelCommits
  <2>4. bank' = bank \cup {Row(r, p.by, p.till, "out") : p \in Owed(r, v.bank)}
    BY <1>1 DEF CancelCommits
  <2> HIDE DEF here, elsewhere
  <2>5. IsFiniteSet({Row(r, p.by, p.till, "out") : p \in here})
    <3> DEFINE f == [p \in here |-> Row(r, p.by, p.till, "out")]
    <3>1. {Row(r, p.by, p.till, "out") : p \in here} = {f[p] : p \in here}
      OBVIOUS
    <3>2. f = [p \in here |-> f[p]]
      OBVIOUS
    <3> HIDE DEF f
    <3> QED
      BY <2>2, <3>1, <3>2, ImageOf
  <2>6. IsFiniteSet({Row(r, p.by, t, "out") : p \in elsewhere})
    <3> DEFINE f == [p \in elsewhere |-> Row(r, p.by, t, "out")]
    <3>1. {Row(r, p.by, t, "out") : p \in elsewhere} = {f[p] : p \in elsewhere}
      OBVIOUS
    <3>2. f = [p \in elsewhere |-> f[p]]
      OBVIOUS
    <3> HIDE DEF f
    <3> QED
      BY <2>2, <3>1, <3>2, ImageOf
  <2>7. IsFiniteSet({Row(r, p.by, p.till, "out") : p \in Owed(r, v.bank)})
    <3> DEFINE S == Owed(r, v.bank)
               f == [p \in S |-> Row(r, p.by, p.till, "out")]
    <3>1. {Row(r, p.by, p.till, "out") : p \in S} = {f[p] : p \in S}
      OBVIOUS
    <3>2. f = [p \in S |-> f[p]]
      OBVIOUS
    <3> HIDE DEF f
    <3> QED
      BY <2>1, <3>1, <3>2, ImageOf
  <2>8. IsFiniteSet(cash \cup {Row(r, p.by, p.till, "out") : p \in here})
    BY <1>0, <2>5, FS_Union
  <2> QED
    BY <1>0, <2>3, <2>4, <2>6, <2>7, <2>8, FS_Union
<1>2. CASE ~CancelCommits(r)
  <2>1. cash' = cash \/ \E m : cash' = cash \cup {m}
    BY <1>2, ReadsKeep
    DEF Step, Writes, tables, OpenInserts, CloseWrites, DeleteWrites, CollectCommits,
        PayCommits, Record, ManualCash, ManualBank, ManualBalances, RefundCommits, Breaks
  <2>2. bank' = bank \/ \E m : bank' = bank \cup {m}
    BY <1>2, ReadsKeep
    DEF Step, Writes, tables, OpenInserts, CloseWrites, DeleteWrites, CollectCommits,
        PayCommits, Record, ManualCash, ManualBank, ManualBalances, RefundCommits, Breaks
  <2> QED
    BY <1>0, <2>1, <2>2, FS_AddElement
<1> QED
  BY <1>1, <1>2

LEMMA ShapedKept ==
  ASSUME LedgerInv, NEW r \in Requests, Step(r) PROVE Shaped'
<1>0. /\ at \in [Requests -> Phases] /\ cash \subseteq Rows /\ bank \subseteq Rows
      /\ cash \subseteq cash' /\ bank \subseteq bank'
  BY CashGrows, BankGrows DEF LedgerInv, LedgerTypeOK
<1>1. ASSUME NEW m \in cash', m \notin cash
      PROVE  /\ m.by = r /\ m \in Rows /\ Method[IF m.of = None THEN m.by ELSE m.of] = "cash"
             /\ at[r] \notin {"done", "half"}
             /\ m.of = None => /\ Kind[r] = "collect" => m.way = "in"
                               /\ Kind[r] = "pay" => m.way = "out"
                               /\ m = Row(r, None, till[r], m.way)
                               /\ Kind[r] = "manual" => m.way = Way[r]
                               /\ Kind[r] \in {"collect", "pay", "manual"}
  <2>1. NewCash(r, m) /\ m.by = r /\ m \in Rows
    BY <1>1, CashGrows, CashRow DEF LedgerInv
  <2>2. CASE Kind[r] = "cancel"
    <3>1. PICK p \in Owed(r, view[r].cash) : m = Row(r, p.by, m.till, "out")
      BY <2>1, <2>2 DEF NewCash
    <3>2. view[r].cash \in SUBSET Rows /\ view[r].cash \subseteq cash
      BY <2>1, <2>2 DEF NewCash, LedgerInv, Snapped, Views
    <3>3. p \in cash /\ p.of = None /\ p.by \in Requests
      BY <3>1, <3>2, OwedType
    <3>4. m.of = p.by /\ m.of # None
      BY <3>1, <3>3, NoneAssumption DEF Row
    <3> QED
      BY <2>1, <2>2, <3>3, <3>4 DEF NewCash, LedgerInv, Shaped
  <2>3. CASE Kind[r] = "refund"
    <3>1. m.of = target[r] /\ target[r] \in Requests /\ Method[target[r]] = "cash"
      BY <2>1, <2>3 DEF NewCash, Row, LedgerInv, Placed, Busy
    <3> QED
      BY <2>1, <2>3, <3>1, NoneAssumption DEF NewCash
  <2>4. CASE Kind[r] \notin {"cancel", "refund"}
    BY <2>1, <2>4 DEF NewCash, Row
  <2> QED
    BY <2>2, <2>3, <2>4
<1>2. ASSUME NEW m \in bank', m \notin bank
      PROVE  /\ m.by = r /\ m \in Rows /\ Method[IF m.of = None THEN m.by ELSE m.of] = "bank"
             /\ at[r] \notin {"done", "half"}
             /\ m.of = None => /\ Kind[r] = "collect" => m.way = "in"
                               /\ Kind[r] = "pay" => m.way = "out"
                               /\ m = Row(r, None, till[r], m.way)
                               /\ Kind[r] = "manual" => m.way = Way[r]
                               /\ Kind[r] \in {"collect", "pay", "manual"}
  <2>1. NewBank(r, m) /\ m.by = r /\ m \in Rows
    BY <1>2, BankGrows, BankRow DEF LedgerInv
  <2>2. CASE Kind[r] = "cancel"
    <3>1. PICK p \in Owed(r, view[r].bank) : m = Row(r, p.by, p.till, "out")
      BY <2>1, <2>2 DEF NewBank, ManualBank
    <3>2. at[r] = "open" /\ view[r].bank \in SUBSET Rows /\ view[r].bank \subseteq bank
      BY <2>1, <2>2 DEF NewBank, ManualBank, LedgerInv, Snapped, Views
    <3>3. p \in bank /\ p.of = None /\ p.by \in Requests
      BY <3>1, <3>2, OwedType
    <3>4. m.of = p.by /\ m.of # None
      BY <3>1, <3>3, NoneAssumption DEF Row
    <3> QED
      BY <2>1, <2>2, <3>2, <3>3, <3>4 DEF LedgerInv, Shaped
  <2>3. CASE Kind[r] # "cancel"
    BY <2>1, <2>3 DEF NewBank, ManualBank, Row
  <2> QED
    BY <2>2, <2>3
<1>3. ASSUME NEW m \in cash' \cup bank', m \notin cash \cup bank
      PROVE  \A n \in cash \cup bank : n.by # m.by
  <2>1. CASE m \in cash'
    BY <1>1, <1>3, <2>1, NoneBefore
  <2>2. CASE m \in bank'
    BY <1>2, <1>3, <2>2, NoneBefore
  <2> QED
    BY <1>3, <2>1, <2>2
<1>4. ASSUME NEW m \in cash' \cup bank', NEW n \in cash' \cup bank',
             m.of = None, n.of = None, m.by = n.by
      PROVE  m = n
  <2>1. CASE m \in cash \cup bank /\ n \in cash \cup bank
    BY <1>4, <2>1 DEF LedgerInv, Shaped
  <2>2. CASE m \notin cash \cup bank /\ n \notin cash \cup bank
    <3>1. /\ m = Row(r, None, till[r], m.way) /\ n = Row(r, None, till[r], n.way)
          /\ Kind[r] \in {"collect", "pay", "manual"}
          /\ Kind[r] = "collect" => m.way = "in" /\ n.way = "in"
          /\ Kind[r] = "pay" => m.way = "out" /\ n.way = "out"
          /\ Kind[r] = "manual" => m.way = Way[r] /\ n.way = Way[r]
      BY <1>1, <1>2, <1>4, <2>2
    <3>2. m.way = n.way
      BY <3>1
    <3> QED
      BY <3>1, <3>2
  <2> QED
    BY <1>3, <1>4, <2>1, <2>2
<1>5. ASSUME NEW q \in Requests, at'[q] = "half"
      PROVE  /\ Kind[q] = "manual"
             /\ Row(q, None, till'[q], Way[q]) \in bank'
             /\ \A m \in bank' : m.by = q => m = Row(q, None, till'[q], Way[q])
  <2>1. CASE q # r
    <3>1. at[q] = "half" /\ till'[q] = till[q]
      BY <1>5, <2>1, Locality DEF LedgerInv
    <3> QED
      BY <1>0, <1>2, <2>1, <3>1 DEF LedgerInv, Shaped
  <2>2. CASE q = r
    <3>1. ManualBank(r)
      BY <1>0, <1>5, <2>2, WritesEnd, ReadsArrive DEF Step, Breaks, Go, LedgerInv
    <3>2. /\ Kind[r] = "manual" /\ at[r] = "checked" /\ till' = till
          /\ bank' = bank \cup {Row(r, None, till[r], Way[r])}
      BY <3>1 DEF ManualBank
    <3> QED
      BY <2>2, <3>2, NoneBefore
  <2> QED
    BY <2>1, <2>2
<1>6. \A m \in cash' \cup bank' : m.of = None =>
        /\ Kind[m.by] = "collect" => m.way = "in"
        /\ Kind[m.by] = "pay" => m.way = "out"
  BY <1>1, <1>2 DEF LedgerInv, Shaped
<1>7. /\ \A m \in cash' : Method[IF m.of = None THEN m.by ELSE m.of] = "cash"
      /\ \A m \in bank' : Method[IF m.of = None THEN m.by ELSE m.of] = "bank"
  BY <1>1, <1>2 DEF LedgerInv, Shaped
<1> QED
  BY <1>4, <1>5, <1>6, <1>7, FiniteKept DEF Shaped, Row

-----------------------------------------------------------------------------
LEMMA LedgerStart == CashInit => LedgerInv
<1> SUFFICES ASSUME CashInit PROVE LedgerInv
  OBVIOUS
<1>0. PICK mix \in Mixes : at = [r \in Requests |-> IF r \in mix THEN "new" ELSE "done"]
  BY DEF CashInit
<1>1. \A r \in Requests : at[r] \in {"new", "done"} /\ till[r] = None
  BY <1>0 DEF CashInit
<1>2. LedgerTypeOK
  <2>1. at \in [Requests -> Phases]
    BY <1>0 DEF Phases
  <2>2. drawer \in [Tills -> {"none", "open", "closed", "deleted"}]
    BY DEF CashInit
  <2>3. /\ expected \in [Tills -> Int] /\ paid \in [Docs -> Nat] /\ balance \in Int
        /\ read \in [Requests -> Int] /\ status \in [Docs -> {"credit", "paid", "cancelled"}]
    BY DEF CashInit
  <2>4. /\ till \in [Requests -> Tills \cup {None}]
        /\ target \in [Requests -> Requests \cup {None}]
        /\ view \in [Requests -> Views \cup {None}]
        /\ since \in [Requests -> SUBSET Requests] /\ seen \in [Requests -> SUBSET Requests]
        /\ cash = {} /\ bank = {} /\ ended = {} /\ torn = {}
    BY DEF CashInit
  <2> QED
    BY <2>1, <2>2, <2>3, <2>4 DEF LedgerTypeOK
<1>3. Placed
  BY <1>1, RequestAssumption, OpenAssumption DEF Placed, Busy, CashInit
<1>4. Snapped /\ Timed
  BY <1>1 DEF Snapped, Timed, CashInit
<1>5. Shaped
  BY <1>1, FS_EmptySet DEF Shaped, CashInit
<1> QED
  BY <1>2, <1>3, <1>4, <1>5 DEF LedgerInv

LEMMA NextSteps == ASSUME CashNext PROVE \E r \in Requests : Step(r)
BY DEF CashNext, Step, Reads, Writes

LEMMA LedgerStep == LedgerInv /\ [CashNext]_cashVars => LedgerInv'
<1> SUFFICES ASSUME LedgerInv, [CashNext]_cashVars PROVE LedgerInv'
  OBVIOUS
<1>1. CASE UNCHANGED cashVars
  BY <1>1 DEF LedgerInv, LedgerTypeOK, Placed, Snapped, Timed, Shaped, cashVars, tables, local,
              ghosts
<1>2. CASE CashNext
  <2>1. PICK r \in Requests : Step(r)
    BY <1>2, NextSteps
  <2> QED
    BY <2>1, TypeKept, PlacedKept, SnappedKept, TimedKept, ShapedKept DEF LedgerInv
<1> QED
  BY <1>1, <1>2

\* What the transactions keep in every interleaving: the snapshot of an open
\* one has every movement of the requests it saw end, and nothing deletes a
\* movement (recordDirectedPayment, reverseSaleCashTx, AddMovement).
THEOREM LedgerShape == CashSpec => []LedgerInv
BY LedgerStart, LedgerStep, PTL DEF CashSpec

\* The rows keep their types: a payable is never paid less than nothing and a
\* movement always names the session it went through (Pay, reverseSaleCashTx).
THEOREM LedgerTypeCorrect == CashSpec => []LedgerTypeOK
<1>1. LedgerInv => LedgerTypeOK
  BY DEF LedgerInv
<1> QED
  BY <1>1, LedgerShape, PTL

-----------------------------------------------------------------------------
\* The account: what has been counted in its balance.

Counted == {m \in bank : at[m.by] # "half" /\ m.by \notin torn}
Tally(ms, way) == Cardinality({m \in ms : m.way = way})

LEMMA TallyType ==
  ASSUME NEW ms, IsFiniteSet(ms), NEW way PROVE Tally(ms, way) \in Nat
BY FS_Subset, FS_CardinalityType DEF Tally

LEMMA TallyAdd ==
  ASSUME NEW ms, IsFiniteSet(ms), NEW m, m \notin ms, NEW way
  PROVE  Tally(ms \cup {m}, way) = Tally(ms, way) + (IF m.way = way THEN 1 ELSE 0)
<1> DEFINE T == {k \in ms : k.way = way}
<1>1. IsFiniteSet(T) /\ m \notin T /\ Cardinality(T) \in Nat
  BY FS_Subset, FS_CardinalityType
<1>2. CASE m.way = way
  <2>1. {k \in ms \cup {m} : k.way = way} = T \cup {m}
    BY <1>2
  <2> QED
    BY <1>1, <1>2, <2>1, FS_AddElement DEF Tally
<1>3. CASE m.way # way
  <2>1. {k \in ms \cup {m} : k.way = way} = T
    BY <1>3
  <2>2. Tally(ms \cup {m}, way) = Tally(ms, way)
    BY <2>1 DEF Tally
  <2>3. Tally(ms, way) \in Nat
    BY TallyType
  <2> QED
    BY <1>3, <2>2, <2>3
<1> QED
  BY <1>2, <1>3

\* Rows that go out, added together.
LEMMA TallyOut ==
  ASSUME NEW ms, IsFiniteSet(ms), NEW ns, IsFiniteSet(ns), ms \cap ns = {},
         \A n \in ns : n.way = "out"
  PROVE  /\ Tally(ms \cup ns, "in") = Tally(ms, "in")
         /\ Tally(ms \cup ns, "out") = Tally(ms, "out") + Cardinality(ns)
<1> DEFINE T == {k \in ms : k.way = "out"}
<1>1. {k \in ms \cup ns : k.way = "in"} = {k \in ms : k.way = "in"}
  OBVIOUS
<1>2. {k \in ms \cup ns : k.way = "out"} = T \cup ns
  OBVIOUS
<1>3. IsFiniteSet(T) /\ T \cap ns = {} /\ Cardinality(T) \in Nat /\ Cardinality(ns) \in Nat
  BY FS_Subset, FS_CardinalityType
<1>4. Cardinality(T \cup ns) = Cardinality(T) + Cardinality(ns)
  <2> HIDE DEF T
  <2>1. Cardinality(T \cup ns) = Cardinality(T) + Cardinality(ns) - Cardinality(T \cap ns)
    BY <1>3, FS_Union
  <2>2. Cardinality(T \cap ns) = 0
    BY <1>3, FS_EmptySet
  <2> QED
    BY <1>3, <2>1, <2>2
<1> QED
  BY <1>1, <1>2, <1>4 DEF Tally

\* What a cancellation gives back through the account: a row for each payment.
LEMMA CancelBank ==
  ASSUME LedgerInv, NEW r \in Requests, CancelCommits(r)
  PROVE  \E ns : /\ bank' = bank \cup ns /\ IsFiniteSet(ns) /\ bank \cap ns = {}
                 /\ Cardinality(ns) = Cardinality(Owed(r, view[r].bank))
                 /\ \A n \in ns : n.way = "out" /\ n.by = r
<1> DEFINE S == Owed(r, view[r].bank)
           f == [p \in S |-> Row(r, p.by, p.till, "out")]
           ns == {f[p] : p \in S}
<1>0. at[r] = "open" /\ bank' = bank \cup {Row(r, p.by, p.till, "out") : p \in S}
  BY DEF CancelCommits
<1>1. bank' = bank \cup ns
  BY <1>0
<1>2. \A n \in ns : n.way = "out" /\ n.by = r
  BY DEF Row
<1>3. bank \cap ns = {}
  BY <1>0, <1>2, NoneBefore
<1>4. IsFiniteSet(S)
  BY <1>0, OwedFinite
<1>5. \A p, o \in S : f[p] = f[o] => p = o
  <2> SUFFICES ASSUME NEW p \in S, NEW o \in S, f[p] = f[o] PROVE p = o
    OBVIOUS
  <2>1. p.by = o.by
    BY DEF Row
  <2>2. view[r].bank \in SUBSET Rows /\ view[r].bank \subseteq bank
    BY <1>0 DEF LedgerInv, Snapped, Views
  <2>3. p \in bank /\ o \in bank /\ p.of = None /\ o.of = None
    BY <2>2, OwedType
  <2> QED
    BY <2>1, <2>3 DEF LedgerInv, Shaped
<1>6. f = [p \in S |-> f[p]]
  OBVIOUS
<1> HIDE DEF f, S
<1>7. IsFiniteSet(ns) /\ Cardinality(ns) = Cardinality(S)
  BY <1>4, <1>5, <1>6, ImageOf
<1> HIDE DEF ns
<1> QED
  BY <1>1, <1>2, <1>3, <1>7 DEF S

BalanceInv == balance = Tally(Counted, "in") - Tally(Counted, "out")

LEMMA CountedFinite ==
  ASSUME LedgerInv
  PROVE  /\ IsFiniteSet(Counted) /\ Tally(Counted, "in") \in Nat /\ Tally(Counted, "out") \in Nat
<1>1. IsFiniteSet(Counted)
  BY FS_Subset DEF LedgerInv, Shaped, Counted
<1> QED
  BY <1>1, TallyType

\* One more row counted.
LEMMA BalanceAdd ==
  ASSUME LedgerInv, BalanceInv, NEW m, m \notin Counted, m.way \in {"in", "out"},
         Counted' = Counted \cup {m}, balance' = balance + Adds(m.way)
  PROVE  BalanceInv'
<1>1. /\ Tally(Counted', "in") = Tally(Counted, "in") + (IF m.way = "in" THEN 1 ELSE 0)
      /\ Tally(Counted', "out") = Tally(Counted, "out") + (IF m.way = "out" THEN 1 ELSE 0)
  BY CountedFinite, TallyAdd
<1>2. balance' = Tally(Counted', "in") - Tally(Counted', "out")
  BY <1>1, CountedFinite DEF BalanceInv, Adds
<1> QED
  BY <1>2 DEF BalanceInv, Tally

LEMMA BalanceKept ==
  ASSUME LedgerInv, BalanceInv, NEW r \in Requests, Step(r) PROVE BalanceInv'
<1>0. /\ at \in [Requests -> Phases] /\ at[r] # "done" /\ r \notin torn
      /\ \A m \in bank : m.by \in Requests
  BY DEF LedgerInv, LedgerTypeOK, Timed, Rows, Step, Reads, Writes, OpenChecks, OpenInserts,
         CloseChecks, CloseCounts, CloseWrites,
         DeleteChecks, DeleteWrites, PaymentChecks, PaymentOpens, CollectCommits, PayCommits,
         ManualChecks, ManualCash, ManualBank, ManualBalances, CancelChecks, CancelOpens,
         CancelCommits, RefundChecks, RefundOpens, RefundCommits, Breaks
<1>1. \A q \in Requests : q # r => at'[q] = at[q]
  BY Locality DEF LedgerInv
<1>2. ASSUME bank' = bank, balance' = balance, torn' = torn,
             at[r] = "half" <=> at'[r] = "half"
      PROVE  BalanceInv'
  <2>1. Counted' = Counted
    BY <1>0, <1>1, <1>2 DEF Counted
  <2> QED
    BY <1>2, <2>1 DEF BalanceInv, Tally
<1>3. CASE Reads(r)
  <2>1. UNCHANGED <<bank, balance, torn>>
    BY <1>3, ReadsKeep DEF tables
  <2>2. at[r] # "half" /\ at'[r] # "half"
    BY <1>0, <1>3, ReadsArrive DEF LedgerInv, Reads, OpenChecks, CloseChecks, CloseCounts,
         DeleteChecks, PaymentChecks, PaymentOpens, ManualChecks, CancelChecks, CancelOpens,
         RefundChecks, RefundOpens
  <2> QED
    BY <1>2, <2>1, <2>2
<1>4. CASE \/ OpenInserts(r) \/ CloseWrites(r) \/ DeleteWrites(r) \/ ManualCash(r)
           \/ RefundCommits(r)
  <2>1. /\ at[r] # "half" /\ at'[r] = "done"
        /\ UNCHANGED <<bank, balance, torn>>
    BY <1>0, <1>4 DEF OpenInserts, CloseWrites, DeleteWrites, ManualCash, RefundCommits, Write,
                      Finish, Go
  <2> QED
    BY <1>2, <2>1
<1>5. CASE CollectCommits(r) \/ PayCommits(r)
  <2> DEFINE way == IF Kind[r] = "collect" THEN "in" ELSE "out"
             m == Row(r, None, till[r], way)
  <2>1. at[r] = "open" /\ at' = [at EXCEPT ![r] = "done"] /\ torn' = torn
    BY <1>5 DEF CollectCommits, PayCommits, Write, Finish, Go
  <2>2. CASE Method[r] = "cash"
    <3>1. UNCHANGED <<bank, balance>>
      BY <1>5, <2>2 DEF CollectCommits, PayCommits, Record
    <3> QED
      BY <1>0, <1>2, <2>1, <3>1
  <2>3. CASE Method[r] # "cash"
    <3>1. bank' = bank \cup {m} /\ balance' = balance + Adds(way)
      BY <1>5, <2>3 DEF CollectCommits, PayCommits, Record
    <3>2. m.by = r /\ m.way = way /\ way \in {"in", "out"}
      BY DEF Row
    <3>3. \A k \in bank : k.by # r
      BY <2>1, NoneBefore
    <3> HIDE DEF m, way
    <3>4. Counted' = Counted \cup {m} /\ m \notin Counted
      BY <1>0, <2>1, <3>1, <3>2, <3>3 DEF Counted
    <3> QED
      BY <3>1, <3>2, <3>4, BalanceAdd
  <2> QED
    BY <2>2, <2>3
<1>6. CASE CancelCommits(r)
  <2>1. /\ at[r] = "open" /\ at' = [at EXCEPT ![r] = "done"] /\ torn' = torn
        /\ balance' = balance - Cardinality(Owed(r, view[r].bank))
    BY <1>6 DEF CancelCommits, Write, Finish, Go
  <2>2. PICK ns : /\ bank' = bank \cup ns /\ IsFiniteSet(ns) /\ bank \cap ns = {}
                  /\ Cardinality(ns) = Cardinality(Owed(r, view[r].bank))
                  /\ \A n \in ns : n.way = "out" /\ n.by = r
    BY <1>6, CancelBank
  <2>3. \A k \in bank : k.by # r
    BY <2>1, NoneBefore
  <2>4. Counted' = Counted \cup ns /\ Counted \cap ns = {}
    BY <1>0, <2>1, <2>2, <2>3 DEF Counted
  <2>5. /\ Tally(Counted \cup ns, "in") = Tally(Counted, "in")
        /\ Tally(Counted \cup ns, "out") = Tally(Counted, "out") + Cardinality(ns)
    BY <2>2, <2>4, CountedFinite, TallyOut
  <2>6. Cardinality(ns) \in Nat
    BY <2>2, FS_CardinalityType
  <2>7. balance' = Tally(Counted', "in") - Tally(Counted', "out")
    BY <2>1, <2>2, <2>4, <2>5, <2>6, CountedFinite DEF BalanceInv
  <2> QED
    BY <2>7 DEF BalanceInv, Tally
<1>7. CASE ManualBank(r)
  <2>1. /\ at[r] = "checked" /\ at' = [at EXCEPT ![r] = "half"]
        /\ bank' = bank \cup {Row(r, None, till[r], Way[r])}
        /\ UNCHANGED <<balance, torn>>
    BY <1>7 DEF ManualBank, Go, ghosts
  <2>2. \A k \in bank : k.by # r
    BY <2>1, NoneBefore
  <2>3. Counted' = Counted
    BY <1>0, <2>1, <2>2 DEF Counted, Row
  <2> QED
    BY <2>1, <2>3 DEF BalanceInv, Tally
<1>8. CASE ManualBalances(r)
  <2> DEFINE m == Row(r, None, till[r], Way[r])
  <2>1. /\ at[r] = "half" /\ at' = [at EXCEPT ![r] = "done"] /\ torn' = torn /\ bank' = bank
        /\ balance' = balance + Adds(Way[r])
    BY <1>8 DEF ManualBalances, Finish, Write, Go
  <2>2. m \in bank /\ \A k \in bank : k.by = r => k = m
    BY <2>1 DEF LedgerInv, Shaped
  <2>3. m.by = r /\ m.way = Way[r] /\ Way[r] \in {"in", "out"}
    BY RequestAssumption DEF Row
  <2> HIDE DEF m
  <2>4. Counted' = Counted \cup {m} /\ m \notin Counted
    BY <1>0, <2>1, <2>2, <2>3 DEF Counted
  <2> QED
    BY <2>1, <2>3, <2>4, BalanceAdd
<1>9. CASE Breaks(r)
  <2>1. /\ at' = [at EXCEPT ![r] = "done"] /\ UNCHANGED <<bank, balance>>
        /\ torn' = IF at[r] = "half" THEN torn \cup {r} ELSE torn
    BY <1>9 DEF Breaks, Go, tables
  <2>2. Counted' = Counted
    BY <1>0, <2>1 DEF Counted
  <2> QED
    BY <2>1, <2>2 DEF BalanceInv, Tally
<1> QED
  BY <1>3, <1>4, <1>5, <1>6, <1>7, <1>8, <1>9 DEF Step, Writes

\* The balance of an account is its movements, but for the manual ones between
\* their two statements (recordDirectedPayment, CreateBankReversal,
\* AddMovement).
THEOREM BalanceFollowsMovements == CashSpec => []BankBalanceIsMovements
<1>1. CashInit => BalanceInv
  BY FS_EmptySet DEF CashInit, BalanceInv, Tally, Counted
<1>2. LedgerInv /\ BalanceInv /\ [CashNext]_cashVars => BalanceInv'
  <2> SUFFICES ASSUME LedgerInv, BalanceInv, [CashNext]_cashVars PROVE BalanceInv'
    OBVIOUS
  <2>1. CASE UNCHANGED cashVars
    BY <2>1 DEF BalanceInv, Tally, Counted, cashVars, tables, local, ghosts
  <2>2. CASE CashNext
    BY <2>2, NextSteps, BalanceKept
  <2> QED
    BY <2>1, <2>2
<1>3. BalanceInv => BankBalanceIsMovements
  BY DEF BalanceInv, Tally, Counted, BankBalanceIsMovements
<1> QED
  BY <1>1, <1>2, <1>3, LedgerShape, PTL DEF CashSpec

-----------------------------------------------------------------------------
\* Reversals: the snapshot of who writes one has none of the same payment.

LEMMA Waiting ==
  ASSUME NEW r \in Requests, Step(r) PROVE at[r] # "done"
BY DEF Step, Reads, Writes, OpenChecks, OpenInserts, CloseChecks, CloseCounts, CloseWrites,
       DeleteChecks, DeleteWrites, PaymentChecks, PaymentOpens, CollectCommits, PayCommits,
       ManualChecks, ManualCash, ManualBank, ManualBalances, CancelChecks, CancelOpens,
       CancelCommits, RefundChecks, RefundOpens, RefundCommits, Breaks

LEMMA NewReversal ==
  ASSUME LedgerInv, NEW r \in Requests, Step(r), NEW m, m.of # None
  PROVE  /\ m \in cash' \ cash => /\ at[r] = "open" /\ Kind[r] \in {"cancel", "refund"}
                                  /\ \A n \in view[r].cash : n.of # m.of
         /\ m \in bank' \ bank => /\ at[r] = "open" /\ Kind[r] \in {"cancel", "refund"}
                                  /\ \A n \in view[r].bank : n.of # m.of
<1>1. ASSUME m \in cash' \ cash
      PROVE  /\ at[r] = "open" /\ Kind[r] \in {"cancel", "refund"}
             /\ \A n \in view[r].cash : n.of # m.of
  <2>1. NewCash(r, m)
    BY <1>1, CashGrows DEF LedgerInv
  <2>2. CASE Kind[r] = "cancel"
    <3>1. PICK p \in Owed(r, view[r].cash) : m = Row(r, p.by, m.till, "out")
      BY <2>1, <2>2 DEF NewCash
    <3>2. at[r] = "open" /\ view[r].cash \in SUBSET Rows
      BY <2>1, <2>2 DEF NewCash, LedgerInv, Snapped, Views
    <3>3. m.of = p.by /\ \A n \in view[r].cash : n.of # p.by
      BY <3>1, <3>2, OwedType DEF Row
    <3> QED
      BY <2>2, <3>2, <3>3
  <2>3. CASE Kind[r] # "cancel"
    BY <2>1, <2>3 DEF NewCash, Row
  <2> QED
    BY <2>2, <2>3
<1>2. ASSUME m \in bank' \ bank
      PROVE  /\ at[r] = "open" /\ Kind[r] \in {"cancel", "refund"}
             /\ \A n \in view[r].bank : n.of # m.of
  <2>1. NewBank(r, m)
    BY <1>2, BankGrows
  <2>2. CASE Kind[r] = "cancel"
    <3>1. PICK p \in Owed(r, view[r].bank) : m = Row(r, p.by, p.till, "out")
      BY <2>1, <2>2 DEF NewBank, ManualBank
    <3>2. at[r] = "open" /\ view[r].bank \in SUBSET Rows
      BY <2>1, <2>2 DEF NewBank, ManualBank, LedgerInv, Snapped, Views
    <3>3. m.of = p.by /\ \A n \in view[r].bank : n.of # p.by
      BY <3>1, <3>2, OwedType DEF Row
    <3> QED
      BY <2>2, <3>2, <3>3
  <2>3. CASE Kind[r] # "cancel"
    BY <2>1, <2>3 DEF NewBank, ManualBank, Row
  <2> QED
    BY <2>2, <2>3
<1> QED
  BY <1>1, <1>2

\* A cancellation reverses a payment by one row.
LEMMA OneRowEach ==
  ASSUME LedgerInv, NEW r \in Requests, Step(r), NEW m, NEW n,
         m.of # None, m.of = n.of,
         \/ m \in cash' \ cash /\ n \in cash' \ cash
         \/ m \in bank' \ bank /\ n \in bank' \ bank
  PROVE  m = n
<1>1. CASE m \in bank' \ bank /\ n \in bank' \ bank
  <2>1. NewBank(r, m) /\ NewBank(r, n)
    BY <1>1, BankGrows
  <2>2. Kind[r] = "cancel" /\ at[r] = "open"
    BY <2>1 DEF NewBank, ManualBank, Row
  <2>3. PICK p \in Owed(r, view[r].bank) : m = Row(r, p.by, p.till, "out")
    BY <2>1, <2>2 DEF NewBank, ManualBank
  <2>4. PICK o \in Owed(r, view[r].bank) : n = Row(r, o.by, o.till, "out")
    BY <2>1, <2>2 DEF NewBank, ManualBank
  <2>5. view[r].bank \in SUBSET Rows /\ view[r].bank \subseteq bank
    BY <2>2 DEF LedgerInv, Snapped, Views
  <2>6. p \in bank /\ o \in bank /\ p.of = None /\ o.of = None /\ p.by = o.by
    BY <2>3, <2>4, <2>5, OwedType DEF Row
  <2> QED
    BY <2>3, <2>4, <2>6 DEF LedgerInv, Shaped
<1>2. CASE m \in cash' \ cash /\ n \in cash' \ cash
  <2>1. NewCash(r, m) /\ NewCash(r, n) /\ Writes(r)
    BY <1>2, CashGrows DEF LedgerInv
  <2>2. CASE Kind[r] = "refund"
    BY <2>1, <2>2 DEF NewCash
  <2>3. CASE Kind[r] = "cancel"
    <3> DEFINE v == view[r]
               others == RefundTills(r, v.drawer)
               here == {p \in Owed(r, v.cash) : v.drawer[p.till] = "open"}
               elsewhere == IF others = {} THEN {} ELSE Owed(r, v.cash) \ here
    <3>0. CancelCommits(r)
      BY <2>1, <2>3 DEF Writes, OpenInserts, CloseWrites, DeleteWrites, CollectCommits,
                        PayCommits, ManualCash, ManualBalances, RefundCommits, LedgerInv, NewCash
    <3>1. PICK t \in others \cup {None} :
            cash' = cash \cup {Row(r, p.by, p.till, "out") : p \in here}
                         \cup {Row(r, p.by, t, "out") : p \in elsewhere}
      BY <3>0 DEF CancelCommits
    <3>2. v.cash \in SUBSET Rows /\ v.cash \subseteq cash
      BY <3>0 DEF CancelCommits, LedgerInv, Snapped, Views
    <3>3. \A p, o \in Owed(r, v.cash) : p.by = o.by => p = o
      BY <3>2, OwedType DEF LedgerInv, Shaped
    <3>4. here \subseteq Owed(r, v.cash) /\ elsewhere \subseteq Owed(r, v.cash)
          /\ here \cap elsewhere = {}
      OBVIOUS
    <3> HIDE DEF here, elsewhere
    <3>5. \/ \E p \in here : m = Row(r, p.by, p.till, "out")
          \/ \E p \in elsewhere : m = Row(r, p.by, t, "out")
      BY <1>2, <3>1
    <3>6. \/ \E p \in here : n = Row(r, p.by, p.till, "out")
          \/ \E p \in elsewhere : n = Row(r, p.by, t, "out")
      BY <1>2, <3>1
    <3> QED
      BY <3>3, <3>4, <3>5, <3>6 DEF Row
  <2>4. CASE Kind[r] \notin {"cancel", "refund"}
    BY <2>1, <2>4 DEF NewCash, Row
  <2> QED
    BY <2>2, <2>3, <2>4
<1> QED
  BY <1>1, <1>2

LEMMA ReversedKept ==
  ASSUME LedgerInv, ReversedOnce, NEW r \in Requests, Step(r) PROVE ReversedOnce'
<1>0. /\ r \notin ended /\ Shaped' /\ LedgerTypeOK'
      /\ cash \subseteq Rows /\ bank \subseteq Rows
      /\ \A q \in Requests : r \notin seen[q]
  BY Waiting, ShapedKept, TypeKept DEF LedgerInv, LedgerTypeOK, Timed
<1>1. \A q \in Requests : q # r => seen'[q] = seen[q]
  BY Locality DEF LedgerInv
\* A reversal there was is of another request.
<1>2. ASSUME NEW m \in cash \cup bank, m.of # None
      PROVE  m.by \in Requests /\ m.by # r
  <2>1. m.by \in Requests
    BY <1>0 DEF Rows
  <2>2. CASE m.by = r
    <3>1. at[r] = "half"
      BY <2>2, Waiting, NoneBefore
    <3>2. m \in bank
      BY <1>0, <2>2 DEF LedgerInv, Timed
    <3>3. m = Row(r, None, till[r], Way[r])
      BY <2>2, <3>1, <3>2 DEF LedgerInv, Shaped
    <3> QED
      BY <1>2, <3>3 DEF Row
  <2> QED
    BY <2>1, <2>2
\* A new one against an old one.
<1>3. ASSUME NEW m \in cash' \cup bank', m \notin cash \cup bank,
             NEW n \in cash \cup bank, m.of # None, m.of = n.of
      PROVE  m.by = r /\ n.by # r /\ Unseen(m.by, n.by)'
  <2>1. at[r] = "open" /\ Kind[r] \in {"cancel", "refund"} /\ m.by = r
    BY <1>3, NewReversal, CashGrows, BankGrows, CashRow, BankRow DEF LedgerInv
  <2>2. n.by \in Requests /\ n.by # r
    BY <1>2, <1>3
  <2>3. r \notin seen'[n.by]
    BY <1>0, <1>1, <2>2
  <2>4. seen'[r] = seen[r]
    <3>1. Writes(r)
      BY <1>3, <2>1, CashGrows, BankGrows DEF ManualBank, LedgerInv
    <3> QED
      BY <2>1, <3>1, WritesEnd DEF LedgerInv
  <2>5. n.by \notin seen[r]
    <3>1. CASE m \in cash'
      <4>1. n \in cash
        BY <1>0, <1>3, <3>1 DEF LedgerInv, Shaped
      <4> QED
        BY <1>3, <2>1, <3>1, <4>1, NewReversal DEF LedgerInv, Snapped
    <3>2. CASE m \in bank'
      <4>1. n \in bank
        BY <1>0, <1>3, <3>2 DEF LedgerInv, Shaped
      <4> QED
        BY <1>3, <2>1, <3>2, <4>1, NewReversal DEF LedgerInv, Snapped
    <3> QED
      BY <1>3, <3>1, <3>2
  <2> QED
    BY <2>1, <2>2, <2>3, <2>4, <2>5 DEF Unseen
<1> SUFFICES ASSUME NEW m \in cash' \cup bank', NEW n \in cash' \cup bank',
                    m.of # None, m.of = n.of, m # n
             PROVE  Unseen(m.by, n.by)'
  BY DEF ReversedOnce
<1>4. CASE m \in cash \cup bank /\ n \in cash \cup bank
  <2>1. Unseen(m.by, n.by)
    BY <1>4 DEF ReversedOnce
  <2> QED
    BY <1>1, <1>2, <1>4, <2>1 DEF Unseen
<1>5. CASE m \notin cash \cup bank /\ n \in cash \cup bank
  BY <1>3, <1>5
<1>6. CASE m \in cash \cup bank /\ n \notin cash \cup bank
  BY <1>3, <1>6 DEF Unseen
<1>7. CASE m \notin cash \cup bank /\ n \notin cash \cup bank
  <2>1. \/ m \in cash' \ cash /\ n \in cash' \ cash
        \/ m \in bank' \ bank /\ n \in bank' \ bank
    BY <1>0, <1>7 DEF Shaped
  <2> QED
    BY <2>1, OneRowEach
<1> QED
  BY <1>4, <1>5, <1>6, <1>7

\* A payment is given back once, unless two transactions that did not see each
\* other did it (reverseSaleCashTx, ApplyPendingRefund).
THEOREM ReversedAtMostOnce == CashSpec => []ReversedOnce
<1>1. CashInit => ReversedOnce
  BY DEF CashInit, ReversedOnce
<1>2. LedgerInv /\ ReversedOnce /\ [CashNext]_cashVars => ReversedOnce'
  <2> SUFFICES ASSUME LedgerInv, ReversedOnce, [CashNext]_cashVars PROVE ReversedOnce'
    OBVIOUS
  <2>1. CASE UNCHANGED cashVars
    BY <2>1 DEF ReversedOnce, Unseen, cashVars, tables, local, ghosts
  <2>2. CASE CashNext
    BY <2>2, NextSteps, ReversedKept
  <2> QED
    BY <2>1, <2>2
<1> QED
  BY <1>1, <1>2, LedgerShape, PTL DEF CashSpec

-----------------------------------------------------------------------------
\* Cash sessions.  The requests that ended a session: every close, and the
\* deletions that found no movement in it.

Shut(q) ==
  /\ q \in ended
  /\ \/ Kind[q] = "close"
     \/ Kind[q] = "delete" /\ \A m \in cash : m.till = till[q] => m.by \notin seen[q]

SessionInv ==
  /\ \A q \in Requests : Shut(q) =>
       till[q] \in Tills /\ drawer[till[q]] \in {"closed", "deleted"}
  /\ \A q \in Requests : Kind[q] = "close" /\ (at[q] = "counted" \/ q \in ended) =>
       read[q] = Net({m \in cash : m.by \in seen[q]}, till[q])
  /\ \A t \in Tills : drawer[t] = "closed" =>
       \E q \in ended : Kind[q] = "close" /\ till[q] = t /\ expected[t] = read[q]
  /\ \A t \in Tills : drawer[t] = "deleted" =>
       \E q \in Requests : Shut(q) /\ Kind[q] = "delete" /\ till[q] = t
  /\ \A r, q \in Requests : Shut(q) =>
       /\ Kind[r] = "manual" /\ at[r] = "checked" /\ till[q] = till[r] => q \notin seen[r]
       /\ Kind[r] = "refund" /\ at[r] \in Busy /\ till[q] = till[r] => q \notin since[r]
       /\ at[r] = "open" /\ view[r].drawer[till[q]] = "open" => q \notin seen[r]
  /\ \A q \in Requests, m \in cash : Shut(q) /\ m.till = till[q] => q \notin TillRead(m.by)
  /\ \A r \in Requests, u \in Tills :
       /\ Kind[r] = "open" /\ at[r] = "checked" /\ Owner[u] = User[r] /\ drawer[u] = "open" =>
            \E q \in ended : Kind[q] = "open" /\ NewTill[q] = u /\ q \notin since[r]
  /\ OneOpenDrawer

\* What a step of r leaves of what the invariant says about the others.
LEMMA Others ==
  ASSUME LedgerInv, NEW r \in Requests, Step(r), NEW q \in Requests, q # r
  PROVE  /\ at'[q] = at[q] /\ till'[q] = till[q] /\ read'[q] = read[q] /\ view'[q] = view[q]
         /\ since'[q] = since[q] /\ seen'[q] = seen[q]
         /\ r \notin seen[q] /\ r \notin since[q] /\ r \notin ended
         /\ q \in ended' <=> q \in ended
         /\ Shut(q)' <=> Shut(q)
<1>1. /\ at'[q] = at[q] /\ till'[q] = till[q] /\ read'[q] = read[q] /\ view'[q] = view[q]
      /\ since'[q] = since[q] /\ seen'[q] = seen[q]
  BY Locality DEF LedgerInv
<1>2. r \notin seen[q] /\ r \notin since[q] /\ r \notin ended
  BY Waiting DEF LedgerInv, Timed
<1>3. ended' \in {ended, ended \cup {r}}
  BY WritesEnd, ReadsKeep DEF Step, ManualBank, Breaks, ghosts, LedgerInv
<1>4. cash \subseteq cash' /\ \A m \in cash' \ cash : m.by = r
  BY CashGrows, CashRow DEF LedgerInv
<1> QED
  BY <1>1, <1>2, <1>3, <1>4 DEF Shut

\* The close or deletion that has just ended.
LEMMA JustShut ==
  ASSUME LedgerInv, NEW r \in Requests, Step(r), Shut(r)'
  PROVE  /\ till'[r] \in Tills /\ drawer'[till'[r]] \in {"closed", "deleted"}
         /\ CloseWrites(r) \/ DeleteWrites(r)
<1>0. /\ at[r] # "done" /\ r \notin ended
      /\ drawer \in [Tills -> {"none", "open", "closed", "deleted"}]
      /\ seen \in [Requests -> SUBSET Requests]
  BY Waiting DEF LedgerInv, LedgerTypeOK, Timed
<1>1. r \in ended' /\ Kind[r] \in {"close", "delete"}
  BY DEF Shut
<1>2. Writes(r)
  BY <1>0, <1>1, ReadsKeep DEF Step, ManualBank, Breaks, ghosts
<1>3. CloseWrites(r) \/ DeleteWrites(r)
  BY <1>1, <1>2 DEF Writes, OpenInserts, CollectCommits, PayCommits, ManualCash, ManualBalances,
                    CancelCommits, RefundCommits, LedgerInv, Shaped, HoldsAccount
<1>4. till' = till /\ till[r] \in Tills /\ drawer[till[r]] # "none"
  BY <1>3, NoneAssumption DEF CloseWrites, DeleteWrites, Finish, Write, LedgerInv, Placed, Busy
<1>5. CASE CloseWrites(r)
  BY <1>0, <1>3, <1>4, <1>5 DEF CloseWrites
<1>6. CASE DeleteWrites(r)
  <2>1. cash' = cash /\ seen'[r] = ended /\ Kind[r] = "delete"
    BY <1>0, <1>6 DEF DeleteWrites
  <2>2. \A m \in cash : m.till = till[r] => m.by \notin ended
    BY <1>4, <2>1 DEF Shut
  <2>3. {m \in cash : m.till = till[r]} = {}
    BY <2>2 DEF LedgerInv, Timed
  <2> QED
    BY <1>0, <1>3, <1>4, <1>6, <2>3 DEF DeleteWrites
<1> QED
  BY <1>3, <1>4, <1>5, <1>6

LEMMA ShutStays ==
  ASSUME LedgerInv, SessionInv, NEW r \in Requests, Step(r), NEW q \in Requests, Shut(q)'
  PROVE  till'[q] \in Tills /\ drawer'[till'[q]] \in {"closed", "deleted"}
<1>1. CASE q = r
  BY <1>1, JustShut
<1>2. CASE q # r
  <2>1. Shut(q) /\ till'[q] = till[q]
    BY <1>2, Others
  <2>2. till[q] \in Tills /\ drawer[till[q]] \in {"closed", "deleted"}
    BY <2>1 DEF SessionInv
  <2>3. drawer \in [Tills -> {"none", "open", "closed", "deleted"}]
    BY DEF LedgerInv, LedgerTypeOK
  <2> QED
    BY <2>1, <2>2, <2>3, DrawerStep
<1> QED
  BY <1>1, <1>2

LEMMA CountedKept ==
  ASSUME LedgerInv, SessionInv, NEW r \in Requests, Step(r), NEW q \in Requests,
         Kind[q] = "close", at'[q] = "counted" \/ q \in ended'
  PROVE  read'[q] = Net({m \in cash' : m.by \in seen'[q]}, till'[q])
<1>0. cash \subseteq cash' /\ \A m \in cash' \ cash : m.by = r
  BY CashGrows, CashRow DEF LedgerInv
<1>1. CASE q # r
  <2>1. {m \in cash' : m.by \in seen'[q]} = {m \in cash : m.by \in seen[q]}
    BY <1>0, <1>1, Others
  <2>2. /\ at'[q] = at[q] /\ till'[q] = till[q] /\ read'[q] = read[q]
        /\ q \in ended' <=> q \in ended
    BY <1>1, Others
  <2>3. read[q] = Net({m \in cash : m.by \in seen[q]}, till[q])
    BY <2>2 DEF SessionInv
  <2> QED
    BY <2>1, <2>2, <2>3
<1>2. CASE q = r
  <2>1. at[r] # "done" /\ r \notin ended /\ at \in [Requests -> Phases]
    BY Waiting DEF LedgerInv, LedgerTypeOK, Timed
  <2>2. CASE CloseCounts(r)
    <3>1. read'[r] = Net(cash, till[r]) /\ till' = till /\ cash' = cash /\ seen'[r] = ended
      BY <2>2 DEF CloseCounts, tables, LedgerInv, LedgerTypeOK
    <3>2. {m \in cash : m.by \in ended} = cash
      BY DEF LedgerInv, Timed
    <3> QED
      BY <1>2, <3>1, <3>2
  <2>3. CASE CloseWrites(r)
    <3>1. at[r] = "counted" /\ cash' = cash /\ UNCHANGED <<till, read, seen>>
      BY <2>3 DEF CloseWrites, Finish, Write
    <3> QED
      BY <1>2, <3>1 DEF SessionInv
  <2>4. CASE ~CloseCounts(r) /\ ~CloseWrites(r)
    BY <1>2, <2>1, <2>4
    DEF Step, Reads, Writes, Go, Check, Refuse, Open, Write, Finish, ghosts, OpenChecks,
        OpenInserts, CloseChecks, DeleteChecks, DeleteWrites, PaymentChecks, PaymentOpens,
        CollectCommits, PayCommits, ManualChecks, ManualCash, ManualBank, ManualBalances,
        CancelChecks, CancelOpens, CancelCommits, RefundChecks, RefundOpens, RefundCommits,
        Breaks, LedgerInv, Shaped
  <2> QED
    BY <2>2, <2>3, <2>4
<1> QED
  BY <1>1, <1>2

LEMMA ClosedKept ==
  ASSUME LedgerInv, SessionInv, NEW r \in Requests, Step(r), NEW t \in Tills
  PROVE  /\ drawer'[t] = "closed" =>
              \E q \in ended' : Kind[q] = "close" /\ till'[q] = t /\ expected'[t] = read'[q]
         /\ drawer'[t] = "deleted" =>
              \E q \in Requests : Shut(q)' /\ Kind[q] = "delete" /\ till'[q] = t
<1>0. /\ drawer \in [Tills -> {"none", "open", "closed", "deleted"}]
      /\ expected \in [Tills -> Int] /\ r \notin ended /\ ended \subseteq Requests
      /\ seen \in [Requests -> SUBSET Requests]
  BY Waiting DEF LedgerInv, LedgerTypeOK, Timed
<1>1. CASE drawer'[t] = drawer[t] /\ expected'[t] = expected[t]
  <2>1. ASSUME drawer[t] = "closed"
        PROVE  \E q \in ended' : Kind[q] = "close" /\ till'[q] = t /\ expected'[t] = read'[q]
    <3>1. PICK q \in ended : Kind[q] = "close" /\ till[q] = t /\ expected[t] = read[q]
      BY <2>1 DEF SessionInv
    <3>2. q \in Requests /\ q # r
      BY <1>0
    <3> QED
      BY <1>1, <3>1, <3>2, Others
  <2>2. ASSUME drawer[t] = "deleted"
        PROVE  \E q \in Requests : Shut(q)' /\ Kind[q] = "delete" /\ till'[q] = t
    <3>1. PICK q \in Requests : Shut(q) /\ Kind[q] = "delete" /\ till[q] = t
      BY <2>2 DEF SessionInv
    <3>2. q # r
      BY <1>0, <3>1 DEF Shut
    <3> QED
      BY <3>1, <3>2, Others
  <2> QED
    BY <1>1, <2>1, <2>2
<1>2. CASE CloseWrites(r) /\ t = till[r] /\ drawer'[t] = "closed" /\ expected'[t] = read[r]
  BY <1>2 DEF CloseWrites, Finish, Write
<1>3. CASE DeleteWrites(r) /\ t = till[r] /\ drawer'[t] = "deleted"
           /\ {m \in cash : m.till = t} = {}
  <2>1. cash' = cash /\ ended' = ended \cup {r} /\ till' = till /\ Kind[r] = "delete"
    BY <1>3 DEF DeleteWrites, Write
  <2>2. Shut(r)'
    BY <1>3, <2>1 DEF Shut
  <2> QED
    BY <1>3, <2>1, <2>2
<1>4. CASE drawer'[t] = "open"
  BY <1>4
<1> QED
  BY <1>0, <1>1, <1>2, <1>3, <1>4, DrawerStep

LEMMA ReadsOpen ==
  ASSUME LedgerInv, SessionInv, NEW r \in Requests, Step(r),
         NEW p \in Requests, NEW q \in Requests, Shut(q)'
  PROVE  /\ Kind[p] = "manual" /\ at'[p] = "checked" /\ till'[q] = till'[p] =>
              q \notin seen'[p]
         /\ Kind[p] = "refund" /\ at'[p] \in Busy /\ till'[q] = till'[p] =>
              q \notin since'[p]
         /\ at'[p] = "open" /\ view'[p].drawer[till'[q]] = "open" => q \notin seen'[p]
<1>0. at \in [Requests -> Phases]
  BY DEF LedgerInv, LedgerTypeOK
<1>1. CASE p # r /\ q # r
  BY <1>1, Others DEF SessionInv
<1>2. CASE p # r /\ q = r
  BY <1>2, Others
<1>3. CASE p = r /\ q = r
  <2>1. at'[r] = "done"
    BY <1>0, <1>3, JustShut, WritesEnd DEF Writes, LedgerInv
  <2> QED
    BY <1>3, <2>1 DEF Busy
<1>4. CASE p = r /\ q # r
  <2>1. /\ Shut(q) /\ till'[q] = till[q] /\ till[q] \in Tills
        /\ drawer[till[q]] \in {"closed", "deleted"}
    BY <1>4, Others DEF SessionInv
  <2>2. CASE Reads(r)
    <3>1. CASE at[r] = "new" /\ at'[r] = "checked"
      BY <1>4, <2>1, <2>2, <3>1, ReadsArrive DEF LedgerInv
    <3>2. CASE /\ at[r] = "checked" /\ at'[r] = "open"
               /\ view'[r] = [drawer |-> drawer, cash |-> cash, bank |-> bank]
               /\ UNCHANGED <<till, since>>
      BY <1>4, <2>1, <3>2 DEF SessionInv, Busy
    <3>3. CASE at'[r] = "done" \/ (at'[r] = "counted" /\ Kind[r] = "close")
      BY <1>4, <3>3 DEF Busy
    <3> QED
      BY <2>2, <3>1, <3>2, <3>3, ReadsArrive DEF LedgerInv
  <2>3. CASE Writes(r) \/ Breaks(r)
    <3>1. at'[r] = "done"
      BY <1>0, <2>3, WritesEnd DEF LedgerInv, Breaks, Go
    <3> QED
      BY <1>4, <3>1 DEF Busy
  <2>4. CASE ManualBank(r)
    <3>1. at'[r] = "half" /\ Kind[r] = "manual"
      BY <1>0, <2>4 DEF ManualBank, Go
    <3> QED
      BY <1>4, <3>1
  <2> QED
    BY <2>2, <2>3, <2>4 DEF Step
<1> QED
  BY <1>1, <1>2, <1>3, <1>4

LEMMA MovementsOpen ==
  ASSUME LedgerInv, SessionInv, NEW r \in Requests, Step(r),
         NEW q \in Requests, Shut(q)', NEW m \in cash', m.till = till'[q]
  PROVE  q \notin TillRead(m.by)'
<1>0. /\ r \notin ended /\ cash \subseteq Rows
      /\ \A p \in Requests : r \notin seen[p] /\ r \notin since[p]
  BY Waiting DEF LedgerInv, LedgerTypeOK, Timed
<1>1. CASE m \in cash
  <2>1. m.by \in Requests /\ m.by # r
    BY <1>0, <1>1 DEF Rows, LedgerInv, Timed
  <2>2. TillRead(m.by)' = TillRead(m.by)
    BY <2>1, Others DEF TillRead
  <2>3. CASE q = r
    BY <1>0, <2>1, <2>2, <2>3 DEF TillRead
  <2>4. CASE q # r
    BY <1>1, <2>2, <2>4, Others DEF SessionInv
  <2> QED
    BY <2>3, <2>4
<1>2. CASE m \notin cash
  <2>1. m.by = r /\ NewCash(r, m) /\ Writes(r)
    BY <1>2, CashGrows, CashRow DEF LedgerInv
  <2>2. Kind[r] \notin {"close", "delete"}
    BY <2>1 DEF NewCash
  <2>3. q # r
    BY <2>2 DEF Shut
  <2>4. Shut(q) /\ till'[q] = till[q]
    BY <2>3, Others
  <2>5. seen' = seen /\ since' = since
    BY <2>1, <2>2, WritesEnd DEF LedgerInv
  <2>6. q \notin TillRead(r)
    <3>1. CASE Kind[r] \in {"collect", "pay", "cancel"}
      <4>1. at[r] = "open" /\ view[r].drawer[till[q]] = "open"
        BY <2>1, <2>4, <3>1 DEF NewCash, Row
      <4> QED
        BY <2>4, <3>1, <4>1 DEF SessionInv, TillRead
    <3>2. CASE Kind[r] = "manual"
      <4>1. at[r] = "checked" /\ till[q] = till[r]
        BY <2>1, <2>4, <3>2 DEF NewCash, Row
      <4> QED
        BY <2>4, <3>2, <4>1 DEF SessionInv, TillRead
    <3>3. CASE Kind[r] = "refund"
      <4>1. at[r] = "open" /\ till[q] = till[r]
        BY <2>1, <2>4, <3>3 DEF NewCash, Row
      <4> QED
        BY <2>4, <3>3, <4>1 DEF SessionInv, TillRead, Busy
    <3> QED
      BY <2>1, <3>1, <3>2, <3>3 DEF NewCash
  <2> QED
    BY <2>1, <2>5, <2>6 DEF TillRead
<1> QED
  BY <1>1, <1>2

\* A session that is open now was, or is the one r has just opened.
LEMMA OpenBefore ==
  ASSUME LedgerInv, NEW r \in Requests, Step(r), NEW u \in Tills, drawer'[u] = "open"
  PROVE  \/ drawer[u] = "open"
         \/ /\ OpenInserts(r) /\ u = NewTill[r] /\ Kind[r] = "open" /\ at[r] = "checked"
            /\ ended' = ended \cup {r} /\ since' = since
<1>1. drawer \in [Tills -> {"none", "open", "closed", "deleted"}]
  BY DEF LedgerInv, LedgerTypeOK
<1>2. CASE OpenInserts(r)
  BY <1>1, <1>2, DrawerStep DEF OpenInserts, Finish, Write
<1>3. CASE ~OpenInserts(r)
  BY <1>1, <1>3, DrawerStep
<1> QED
  BY <1>2, <1>3

LEMMA OpensKept ==
  ASSUME LedgerInv, SessionInv, NEW r \in Requests, Step(r),
         NEW p \in Requests, NEW u \in Tills,
         Kind[p] = "open", at'[p] = "checked", Owner[u] = User[p], drawer'[u] = "open"
  PROVE  \E q \in ended' : Kind[q] = "open" /\ NewTill[q] = u /\ q \notin since'[p]
<1>0. /\ at \in [Requests -> Phases] /\ ended \subseteq Requests
      /\ since \in [Requests -> SUBSET Requests]
  BY DEF LedgerInv, LedgerTypeOK
<1>1. CASE p # r
  <2>1. at[p] = "checked" /\ since'[p] = since[p] /\ r \notin since[p]
    BY <1>1, Others
  <2>2. CASE drawer[u] = "open"
    <3>1. PICK q \in ended : Kind[q] = "open" /\ NewTill[q] = u /\ q \notin since[p]
      BY <2>1, <2>2 DEF SessionInv
    <3>2. q \in ended'
      BY <1>0, <3>1, Others, Waiting DEF LedgerInv, Timed
    <3> QED
      BY <2>1, <3>1, <3>2
  <2>3. CASE drawer[u] # "open"
    BY <2>1, <2>3, OpenBefore
  <2> QED
    BY <2>2, <2>3
<1>2. CASE p = r
  <2>1. OpenChecks(r)
    BY <1>0, <1>2
    DEF Step, Reads, Writes, Go, Refuse, Open, Write, Finish, OpenChecks, OpenInserts,
        CloseChecks, CloseCounts, CloseWrites, DeleteChecks, DeleteWrites, PaymentChecks,
        PaymentOpens, CollectCommits, PayCommits, ManualChecks, ManualCash, ManualBank,
        ManualBalances, CancelChecks, CancelOpens, CancelCommits, RefundChecks, RefundOpens,
        RefundCommits, Breaks
  <2>2. OpenIn(drawer, {User[r]}) = {}
    BY <1>0, <1>2, <2>1 DEF OpenChecks, Refuse, Go
  <2>3. drawer' = drawer
    BY <2>1, ReadsKeep DEF Reads, tables
  <2> QED
    BY <1>2, <2>2, <2>3 DEF OpenIn
<1> QED
  BY <1>1, <1>2

LEMMA OneDrawerKept ==
  ASSUME LedgerInv, SessionInv, NEW r \in Requests, Step(r) PROVE OneOpenDrawer'
<1>0. ended \subseteq Requests /\ r \notin ended
  BY Waiting DEF LedgerInv, LedgerTypeOK, Timed
<1>1. \A q \in ended : q \in ended' /\ since'[q] = since[q] /\ r \notin since[q]
  BY <1>0, Others
<1>2. ASSUME NEW t \in Tills, NEW u \in Tills, t # u, Owner[t] = Owner[u],
             drawer'[t] = "open", drawer[t] # "open", drawer[u] = "open"
      PROVE  \E q \in ended : /\ Kind[q] = "open" /\ NewTill[q] = u
                              /\ Kind[r] = "open" /\ NewTill[r] = t /\ r \in ended'
                              /\ Concurrent(r, q)' /\ Concurrent(q, r)'
  <2>1. /\ t = NewTill[r] /\ Kind[r] = "open" /\ at[r] = "checked" /\ r \in ended'
        /\ since' = since
    BY <1>2, OpenBefore
  <2>2. Owner[u] = User[r]
    BY <1>2, <2>1, OpenAssumption
  <2>3. PICK q \in ended : Kind[q] = "open" /\ NewTill[q] = u /\ q \notin since[r]
    BY <1>2, <2>1, <2>2 DEF SessionInv
  <2> QED
    BY <1>1, <2>1, <2>3 DEF Concurrent
<1> SUFFICES ASSUME NEW t \in Tills, NEW u \in Tills, t # u, Owner[t] = Owner[u],
                    drawer'[t] = "open", drawer'[u] = "open"
             PROVE  \E p, q \in ended' : /\ Kind[p] = "open" /\ Kind[q] = "open"
                                         /\ NewTill[p] = t /\ NewTill[q] = u
                                         /\ Concurrent(p, q)'
  BY DEF OneOpenDrawer, Concurrent
<1>3. CASE drawer[t] = "open" /\ drawer[u] = "open"
  <2>1. PICK p \in ended, q \in ended : /\ Kind[p] = "open" /\ Kind[q] = "open"
                                        /\ NewTill[p] = t /\ NewTill[q] = u /\ Concurrent(p, q)
    BY <1>3 DEF SessionInv, OneOpenDrawer
  <2> QED
    BY <1>1, <2>1 DEF Concurrent
<1>4. CASE drawer[t] # "open" /\ drawer[u] = "open"
  BY <1>1, <1>2, <1>4
<1>5. CASE drawer[t] = "open" /\ drawer[u] # "open"
  BY <1>1, <1>2, <1>5
<1>6. CASE drawer[t] # "open" /\ drawer[u] # "open"
  BY <1>6, OpenBefore
<1> QED
  BY <1>3, <1>4, <1>5, <1>6

LEMMA SessionKept ==
  ASSUME LedgerInv, SessionInv, NEW r \in Requests, Step(r) PROVE SessionInv'
<1>1. \A q \in Requests : Shut(q)' =>
        till'[q] \in Tills /\ drawer'[till'[q]] \in {"closed", "deleted"}
  BY ShutStays
<1>2. \A q \in Requests : Kind[q] = "close" /\ (at'[q] = "counted" \/ q \in ended') =>
        read'[q] = Net({m \in cash' : m.by \in seen'[q]}, till'[q])
  BY CountedKept
<1>3. \A t \in Tills :
        /\ drawer'[t] = "closed" =>
             \E q \in ended' : Kind[q] = "close" /\ till'[q] = t /\ expected'[t] = read'[q]
        /\ drawer'[t] = "deleted" =>
             \E q \in Requests : Shut(q)' /\ Kind[q] = "delete" /\ till'[q] = t
  BY ClosedKept
<1>4. \A p, q \in Requests : Shut(q)' =>
        /\ Kind[p] = "manual" /\ at'[p] = "checked" /\ till'[q] = till'[p] => q \notin seen'[p]
        /\ Kind[p] = "refund" /\ at'[p] \in Busy /\ till'[q] = till'[p] => q \notin since'[p]
        /\ at'[p] = "open" /\ view'[p].drawer[till'[q]] = "open" => q \notin seen'[p]
  BY ReadsOpen
<1>5. \A q \in Requests, m \in cash' : Shut(q)' /\ m.till = till'[q] =>
        q \notin TillRead(m.by)'
  BY MovementsOpen
<1>6. \A p \in Requests, u \in Tills :
        Kind[p] = "open" /\ at'[p] = "checked" /\ Owner[u] = User[p] /\ drawer'[u] = "open" =>
          \E q \in ended' : Kind[q] = "open" /\ NewTill[q] = u /\ q \notin since'[p]
  BY OpensKept
<1> QED
  BY <1>1, <1>2, <1>3, <1>4, <1>5, <1>6, OneDrawerKept DEF SessionInv, Net, Count, Busy

LEMMA SessionSafe == CashSpec => []SessionInv
<1>1. CashInit => SessionInv
  <2> SUFFICES ASSUME CashInit PROVE SessionInv
    OBVIOUS
  <2>0. /\ cash = {} /\ ended = {} /\ \A r \in Requests : at[r] \in {"new", "done"}
        /\ \A t \in Tills : drawer[t] \in {"open", "none"}
        /\ \A t \in Tills : drawer[t] = "open" => t \in FirstTills
    BY DEF CashInit
  <2>1. OneOpenDrawer
    BY <2>0, TillAssumption DEF OneOpenDrawer
  <2> QED
    BY <2>0, <2>1 DEF SessionInv, Shut, Busy
<1>2. LedgerInv /\ SessionInv /\ [CashNext]_cashVars => SessionInv'
  <2> SUFFICES ASSUME LedgerInv, SessionInv, [CashNext]_cashVars PROVE SessionInv'
    OBVIOUS
  <2>1. CASE UNCHANGED cashVars
    BY <2>1 DEF SessionInv, Shut, Net, Count, TillRead, OneOpenDrawer, Concurrent, cashVars,
                tables, local, ghosts
  <2>2. CASE CashNext
    BY <2>2, NextSteps, SessionKept
  <2> QED
    BY <2>1, <2>2
<1> QED
  BY <1>1, <1>2, LedgerShape, PTL DEF CashSpec

\* The balance a close expects counts every cash movement of the session, but
\* for those of requests that read it open before the close was written and
\* wrote after it was counted (CloseSession, getExpectedBalance).
THEOREM ClosesCount == CashSpec => []CloseCountsAll
<1>1. LedgerInv /\ SessionInv => CloseCountsAll
  <2> SUFFICES ASSUME LedgerInv, SessionInv, NEW t \in Tills,
                      drawer[t] = "closed", expected[t] # Net(cash, t)
               PROVE  \E q \in ended, m \in cash :
                        /\ Kind[q] = "close" /\ till[q] = t /\ m.till = t
                        /\ q \notin TillRead(m.by) /\ m.by \notin seen[q]
    BY DEF CloseCountsAll
  <2>1. PICK q \in ended : Kind[q] = "close" /\ till[q] = t /\ expected[t] = read[q]
    BY DEF SessionInv
  <2>2. q \in Requests /\ Shut(q)
    BY <2>1 DEF LedgerInv, LedgerTypeOK, Shut
  <2> DEFINE S == {m \in cash : m.by \in seen[q]}
  <2>3. Net(S, t) # Net(cash, t)
    BY <2>1, <2>2 DEF SessionInv
  <2>4. \E m \in cash : m.till = t /\ m.by \notin seen[q]
    <3> SUFFICES ASSUME \A m \in cash : m.till = t => m.by \in seen[q]
                 PROVE  Net(S, t) = Net(cash, t)
      BY <2>3
    <3>1. \A way : {m \in S : m.till = t /\ m.way = way} = {m \in cash : m.till = t /\ m.way = way}
      OBVIOUS
    <3> QED
      BY <3>1 DEF Net, Count
  <2>5. PICK m \in cash : m.till = t /\ m.by \notin seen[q]
    BY <2>4
  <2>6. q \notin TillRead(m.by)
    BY <2>1, <2>2, <2>5 DEF SessionInv
  <2> QED
    BY <2>1, <2>5, <2>6
<1> QED
  BY <1>1, SessionSafe, LedgerShape, PTL

\* A user has one session open unless two opens were concurrent, and a session
\* with movements is not deleted unless one of them and the DELETE crossed
\* (OpenSession, DeleteEmptySession).
THEOREM DrawersStayKept == CashSpec => []DrawersKept
<1>1. LedgerInv /\ SessionInv => DrawersKept
  <2> SUFFICES ASSUME LedgerInv, SessionInv, NEW m \in cash, drawer[m.till] = "deleted"
               PROVE  CrossedDelete(m, m.till)
    BY DEF SessionInv, DrawersKept, DeletedWasEmpty
  <2>1. m.till \in Tills
    BY DEF LedgerInv, LedgerTypeOK, Rows
  <2>2. PICK q \in Requests : Shut(q) /\ Kind[q] = "delete" /\ till[q] = m.till
    BY <2>1 DEF SessionInv
  <2>3. q \in ended /\ m.by \notin seen[q]
    BY <2>2 DEF Shut
  <2>4. q \notin TillRead(m.by)
    BY <2>2 DEF SessionInv
  <2> QED
    BY <2>2, <2>3, <2>4 DEF CrossedDelete
<1> QED
  BY <1>1, SessionSafe, LedgerShape, PTL

-----------------------------------------------------------------------------
\* Cancelled sales.

\* Cancellation q has dealt with payment m of its sale, or they crossed.
Dealt(q, m) ==
  \/ Reversed(m, cash \cup bank)
  \/ m \in cash /\ drawer[m.till] # "open"
  \/ q \notin since[m.by] /\ m.by \notin seen[q]

CancelInv ==
  /\ \A r \in torn : Kind[r] = "manual"
  /\ \A m \in cash : drawer[m.till] # "none"
  /\ \A r \in Requests : at[r] = "open" =>
       \A t \in Tills : drawer[t] = "open" => view[r].drawer[t] \in {"open", "none"}
  /\ \A r \in Requests : at[r] = "open" =>
       \A t \in Tills : view[r].drawer[t] # "none" => drawer[t] # "none"
  /\ \A r \in Requests : at[r] = "open" =>
       \A m \in view[r].cash : view[r].drawer[m.till] # "none"
  /\ \A d \in Docs : status[d] = "cancelled" =>
       \E q \in ended :
         /\ Kind[q] = "cancel" /\ Doc[q] = d
         /\ \A m \in Payments(d, cash \cup bank) : Dealt(q, m)
  /\ \A r \in Requests, q \in ended :
       Kind[r] = "collect" /\ at[r] \in Busy /\ Kind[q] = "cancel" /\ Doc[q] = Doc[r]
       /\ q \in since[r] =>
         \E p \in ended : Kind[p] = "collect" /\ Doc[p] = Doc[q] /\ q \notin since[p]
  /\ CancelledStays

\* A session with a movement never opens again.
LEMMA DrawersOpened ==
  ASSUME LedgerInv, CancelInv, NEW r \in Requests, Step(r)
  PROVE  /\ \A t \in Tills : drawer[t] # "none" => drawer'[t] # "none"
         /\ \A t \in Tills : drawer[t] # "none" /\ drawer'[t] = "open" => drawer[t] = "open"
         /\ \A m \in cash' : drawer'[m.till] # "none"
<1>0. /\ drawer \in [Tills -> {"none", "open", "closed", "deleted"}]
      /\ \A m \in cash : m.till \in Tills
  BY DEF LedgerInv, LedgerTypeOK, Rows
<1>1. /\ \A t \in Tills : drawer[t] # "none" => drawer'[t] # "none"
      /\ \A t \in Tills : drawer[t] # "none" /\ drawer'[t] = "open" => drawer[t] = "open"
  BY <1>0, DrawerStep
<1>2. ASSUME NEW m \in cash', m \notin cash PROVE drawer'[m.till] # "none"
  <2>1. NewCash(r, m) /\ m \in Rows
    BY <1>2, CashGrows, CashRow DEF LedgerInv
  <2>2. m.till \in Tills
    BY <2>1 DEF Rows
  <2>3. CASE Kind[r] = "cancel"
    <3>1. at[r] = "open" /\ view[r].drawer[m.till] = "open"
      BY <2>1, <2>3 DEF NewCash
    <3> QED
      BY <1>1, <2>2, <3>1 DEF CancelInv
  <2>4. CASE Kind[r] # "cancel"
    <3>1. m.till = till[r] /\ Kind[r] # "open" /\ till[r] # None
      BY <2>1, <2>2, <2>4, NoneAssumption DEF NewCash, Row
    <3>2. drawer[till[r]] # "none"
      BY <3>1 DEF LedgerInv, Placed
    <3> QED
      BY <1>1, <2>2, <3>1, <3>2
  <2> QED
    BY <2>3, <2>4
<1> QED
  BY <1>0, <1>1, <1>2 DEF CancelInv

LEMMA ViewsKept ==
  ASSUME LedgerInv, CancelInv, NEW r \in Requests, Step(r), NEW p \in Requests,
         at'[p] = "open", NEW t \in Tills
  PROVE  /\ drawer'[t] = "open" => view'[p].drawer[t] \in {"open", "none"}
         /\ view'[p].drawer[t] # "none" => drawer'[t] # "none"
         /\ \A m \in view'[p].cash : view'[p].drawer[m.till] # "none"
<1>0. at \in [Requests -> Phases]
  BY DEF LedgerInv, LedgerTypeOK
<1>1. CASE p # r
  <2>1. at[p] = "open" /\ view'[p] = view[p]
    BY <1>1, Others
  <2>2. /\ drawer[t] = "open" => view[p].drawer[t] \in {"open", "none"}
        /\ view[p].drawer[t] # "none" => drawer[t] # "none"
        /\ \A m \in view[p].cash : view[p].drawer[m.till] # "none"
    BY <2>1 DEF CancelInv
  <2> QED
    BY <2>1, <2>2, DrawersOpened
<1>2. CASE p = r
  <2>1. Reads(r)
    <3>1. ~Writes(r)
      BY <1>0, <1>2, WritesEnd DEF LedgerInv
    <3>2. ~ManualBank(r) /\ ~Breaks(r)
      BY <1>0, <1>2 DEF ManualBank, Breaks, Go
    <3> QED
      BY <3>1, <3>2 DEF Step
  <2>2. /\ view'[r].drawer = drawer /\ view'[r].cash = cash /\ drawer' = drawer
        /\ at[r] = "checked"
    <3>1. drawer' = drawer
      BY <2>1, ReadsKeep DEF tables
    <3>2. at[r] # "open"
      BY <2>1 DEF Reads, OpenChecks, CloseChecks, CloseCounts, DeleteChecks,
        PaymentChecks, PaymentOpens, ManualChecks, CancelChecks, CancelOpens, RefundChecks,
        RefundOpens
    <3>3. \/ at'[r] = "done" \/ at'[r] = "checked" \/ at'[r] = "counted"
          \/ /\ at[r] = "checked"
             /\ view'[r] = [drawer |-> drawer, cash |-> cash, bank |-> bank]
      BY <2>1, ReadsArrive DEF LedgerInv
    <3> QED
      BY <1>2, <3>1, <3>3
  <2>3. \A m \in cash : drawer[m.till] # "none"
    BY DEF CancelInv
  <2> QED
    BY <1>2, <2>2, <2>3
<1> QED
  BY <1>1, <1>2

\* The steps that change the status of a sale, or record a payment of it.
LEMMA StatusStep ==
  ASSUME LedgerInv, NEW r \in Requests, Step(r), NEW d \in Docs
  PROVE  \/ /\ CollectCommits(r) /\ d = Doc[r] /\ status'[d] \in {"paid", "credit"}
         \/ /\ CancelCommits(r) /\ d = Doc[r] /\ status'[d] = "cancelled"
            /\ Payments(d, (cash \cup bank)') = Payments(d, cash \cup bank)
         \/ /\ status'[d] = status[d] /\ ~(CollectCommits(r) /\ d = Doc[r])
            /\ \/ Payments(d, (cash \cup bank)') = Payments(d, cash \cup bank)
               \/ PayCommits(r) /\ d = Doc[r]
<1>0. status \in [Docs -> {"credit", "paid", "cancelled"}]
  BY DEF LedgerInv, LedgerTypeOK
<1>1. ASSUME ~(Kind[r] \in {"collect", "pay"} /\ d = Doc[r] /\ Writes(r))
      PROVE  Payments(d, (cash \cup bank)') = Payments(d, cash \cup bank)
  <2>1. cash \subseteq cash' /\ bank \subseteq bank'
    BY CashGrows, BankGrows DEF LedgerInv
  <2>2. \A m \in (cash' \cup bank') \ (cash \cup bank) :
          m.by = r /\ (Writes(r) \/ Kind[r] = "manual")
    BY CashGrows, BankGrows, CashRow, BankRow DEF LedgerInv, ManualBank
  <2> QED
    BY <1>1, <2>1, <2>2 DEF Payments
<1>2. CASE CollectCommits(r)
  BY <1>0, <1>1, <1>2 DEF CollectCommits
<1>3. CASE CancelCommits(r)
  BY <1>0, <1>1, <1>3 DEF CancelCommits
<1>4. CASE PayCommits(r)
  BY <1>1, <1>4 DEF PayCommits, CollectCommits
<1>5. CASE ~(CollectCommits(r) \/ CancelCommits(r) \/ PayCommits(r))
  <2>1. status' = status
    BY <1>5, ReadsKeep
    DEF Step, Writes, tables, OpenInserts, CloseWrites, DeleteWrites, ManualCash, ManualBank,
        ManualBalances, RefundCommits, Breaks
  <2>2. ~(Kind[r] \in {"collect", "pay"} /\ Writes(r))
    BY <1>5 DEF Writes, OpenInserts, CloseWrites, DeleteWrites, ManualCash,
                ManualBalances, RefundCommits, LedgerInv, Shaped
  <2> QED
    BY <1>1, <1>5, <2>1, <2>2
<1> QED
  BY <1>2, <1>3, <1>4, <1>5

LEMMA EndedGrows ==
  ASSUME LedgerInv, NEW r \in Requests, Step(r)
  PROVE  /\ ended' = ended \/ (Writes(r) /\ ended' = ended \cup {r})
         /\ torn' = torn \/ (at[r] = "half" /\ torn' = torn \cup {r})
BY WritesEnd, ReadsKeep DEF Step, ManualBank, Breaks, ghosts, LedgerInv

\* A payment is the work of a request that ended.
LEMMA PaymentsEnded ==
  ASSUME LedgerInv, CancelInv, NEW m \in cash \cup bank, Kind[m.by] \in {"collect", "pay"}
  PROVE  m.by \in ended
<1>1. m.by \in Requests
  BY DEF LedgerInv, LedgerTypeOK, Rows
<1>2. m.by \in ended \/ m.by \in torn \/ at[m.by] = "half"
  BY DEF LedgerInv, Timed
<1>3. m.by \notin torn
  BY DEF CancelInv
<1>4. at[m.by] # "half"
  BY <1>1 DEF LedgerInv, Shaped
<1> QED
  BY <1>2, <1>3, <1>4

LEMMA DealtStays ==
  ASSUME LedgerInv, CancelInv, NEW r \in Requests, Step(r), NEW q \in ended,
         NEW m \in cash \cup bank, m.by \in ended, Dealt(q, m)
  PROVE  Dealt(q, m)'
<1>0. q \in Requests /\ q # r /\ m.by \in Requests /\ m.by # r /\ cash \subseteq Rows
  BY Waiting DEF LedgerInv, LedgerTypeOK, Timed
<1>1. cash \subseteq cash' /\ bank \subseteq bank'
  BY CashGrows, BankGrows DEF LedgerInv
<1>2. CASE Reversed(m, cash \cup bank)
  BY <1>1, <1>2 DEF Dealt, Reversed
<1>3. CASE m \in cash /\ drawer[m.till] # "open"
  <2>1. m.till \in Tills /\ drawer[m.till] # "none"
    BY <1>0, <1>3 DEF Rows, CancelInv
  <2>2. drawer'[m.till] # "open"
    BY <1>3, <2>1, DrawersOpened
  <2> QED
    BY <1>1, <1>3, <2>2 DEF Dealt
<1>4. CASE q \notin since[m.by] /\ m.by \notin seen[q]
  BY <1>0, <1>4, Others DEF Dealt
<1> QED
  BY <1>2, <1>3, <1>4 DEF Dealt

\* A cancellation deals with every payment it sees.
LEMMA CancelDeals ==
  ASSUME LedgerInv, CancelInv, NEW r \in Requests, CancelCommits(r),
         NEW m \in Payments(Doc[r], cash \cup bank)
  PROVE  Dealt(r, m)'
<1> DEFINE v == view[r]
           others == RefundTills(r, v.drawer)
           here == {p \in Owed(r, v.cash) : v.drawer[p.till] = "open"}
           elsewhere == IF others = {} THEN {} ELSE Owed(r, v.cash) \ here
<1>0. /\ Step(r) /\ at[r] = "open" /\ Kind[r] = "cancel" /\ r \notin ended
      /\ m \in cash \cup bank /\ m.of = None /\ Kind[m.by] \in {"collect", "pay"}
      /\ m.by \in Requests /\ m.by # r /\ r \notin since[m.by]
      /\ cash \subseteq cash' /\ bank \subseteq bank' /\ seen' = seen /\ since' = since
      /\ v \in Views /\ v.cash \subseteq cash /\ v.bank \subseteq bank
  <2>1. Step(r) /\ Writes(r) /\ at[r] = "open" /\ Kind[r] = "cancel"
    BY DEF Step, Writes, CancelCommits
  <2>2. r \notin ended /\ r \notin since[m.by] /\ m.by # r /\ m.by \in Requests
    BY <2>1 DEF Payments, LedgerInv, LedgerTypeOK, Rows, Timed
  <2>3. cash \subseteq cash' /\ bank \subseteq bank' /\ seen' = seen /\ since' = since
    BY <2>1, CashGrows, BankGrows, WritesEnd DEF LedgerInv
  <2> QED
    BY <2>1, <2>2, <2>3 DEF Payments, LedgerInv, Snapped
<1>1. CASE m.by \notin seen[r]
  BY <1>0, <1>1 DEF Dealt
<1>2. CASE m.by \in seen[r] /\ m \in bank
  <2>1. m \in v.bank
    BY <1>0, <1>2 DEF LedgerInv, Snapped
  <2>2. CASE Reversed(m, v.bank)
    BY <1>0, <2>2 DEF Dealt, Reversed
  <2>3. CASE ~Reversed(m, v.bank)
    <3>1. m \in Owed(r, v.bank)
      BY <1>0, <2>1, <2>3 DEF Owed, Payments
    <3>2. Row(r, m.by, m.till, "out") \in bank'
      BY <3>1 DEF CancelCommits
    <3> QED
      BY <3>2 DEF Dealt, Reversed, Row
  <2> QED
    BY <2>2, <2>3
<1>3. CASE m.by \in seen[r] /\ m \in cash
  <2>1. m \in v.cash /\ m.till \in Tills
    BY <1>0, <1>3 DEF LedgerInv, LedgerTypeOK, Rows, Snapped
  <2>2. CASE Reversed(m, v.cash)
    BY <1>0, <2>2 DEF Dealt, Reversed
  <2>3. CASE ~Reversed(m, v.cash)
    <3>1. m \in Owed(r, v.cash)
      BY <1>0, <2>1, <2>3 DEF Owed, Payments
    <3>2. PICK t \in others \cup {None} :
            cash' = cash \cup {Row(r, p.by, p.till, "out") : p \in here}
                         \cup {Row(r, p.by, t, "out") : p \in elsewhere}
      BY DEF CancelCommits
    <3>3. CASE m \in here
      <4> HIDE DEF here, elsewhere
      <4>1. Row(r, m.by, m.till, "out") \in cash'
        BY <3>2, <3>3
      <4> QED
        BY <4>1 DEF Dealt, Reversed, Row
    <3>4. CASE m \in elsewhere
      <4> HIDE DEF here, elsewhere
      <4>1. Row(r, m.by, t, "out") \in cash'
        BY <3>2, <3>4
      <4> QED
        BY <4>1 DEF Dealt, Reversed, Row
    <3>5. CASE m \notin here /\ m \notin elsewhere
      <4>1. v.drawer[m.till] # "open"
        BY <3>1, <3>5
      <4>2. drawer[m.till] # "open"
        <5>1. drawer[m.till] = "open" => v.drawer[m.till] \in {"open", "none"}
          BY <1>0, <2>1 DEF CancelInv
        <5>2. v.drawer[m.till] # "none"
          BY <1>0, <2>1 DEF CancelInv
        <5> QED
          BY <4>1, <5>1, <5>2
      <4> QED
        BY <1>0, <1>3, <4>2 DEF Dealt, CancelCommits
    <3> QED
      BY <3>3, <3>4, <3>5
  <2> QED
    BY <2>2, <2>3
<1> QED
  BY <1>0, <1>1, <1>2, <1>3

\* Each part of CancelInv, kept by a step.
LEMMA RefundedKept ==
  ASSUME LedgerInv, CancelInv, NEW r \in Requests, Step(r), NEW d \in Docs,
         status'[d] = "cancelled"
  PROVE  \E q \in ended' :
           /\ Kind[q] = "cancel" /\ Doc[q] = d
           /\ \A m \in Payments(d, (cash \cup bank)') : Dealt(q, m)'
<1>1. CASE CancelCommits(r) /\ d = Doc[r]
  <2>1. Payments(d, (cash \cup bank)') = Payments(d, cash \cup bank)
    BY <1>1, StatusStep DEF CollectCommits, CancelCommits, PayCommits
  <2>2. r \in ended' /\ Kind[r] = "cancel"
    BY <1>1, WritesEnd DEF Writes, CancelCommits, LedgerInv
  <2>3. \A m \in Payments(d, cash \cup bank) : Dealt(r, m)'
    BY <1>1, CancelDeals
  <2> QED
    BY <1>1, <2>1, <2>2, <2>3
<1>2. CASE ~(CancelCommits(r) /\ d = Doc[r])
  <2>1. status[d] = "cancelled" /\ ~(CollectCommits(r) /\ d = Doc[r])
    BY <1>2, StatusStep
  <2>2. PICK q \in ended :
          /\ Kind[q] = "cancel" /\ Doc[q] = d
          /\ \A m \in Payments(d, cash \cup bank) : Dealt(q, m)
    BY <2>1 DEF CancelInv
  <2>3. q \in Requests /\ q \in ended'
    <3>1. q \in Requests
      BY DEF LedgerInv, LedgerTypeOK
    <3>2. q # r
      BY Waiting DEF LedgerInv, Timed
    <3> QED
      BY <3>1, <3>2, Others
  <2>4. Payments(d, (cash \cup bank)') = Payments(d, cash \cup bank)
    <3>1. ~(PayCommits(r) /\ d = Doc[r])
      BY <2>2, <2>3, DocKindAssumption DEF PayCommits
    <3> QED
      BY <1>2, <2>1, <3>1, StatusStep
  <2>5. ASSUME NEW m \in Payments(d, cash \cup bank) PROVE Dealt(q, m)'
    <3>1. m \in cash \cup bank /\ Kind[m.by] \in {"collect", "pay"} /\ Dealt(q, m)
      BY <2>2 DEF Payments
    <3>2. m.by \in ended
      BY <3>1, PaymentsEnded
    <3> QED
      BY <3>1, <3>2, DealtStays
  <2> QED
    BY <2>2, <2>3, <2>4, <2>5
<1> QED
  BY <1>1, <1>2

LEMMA StaysKept ==
  ASSUME LedgerInv, CancelInv, NEW r \in Requests, Step(r), NEW q \in ended',
         Kind[q] = "cancel"
  PROVE  \/ status'[Doc[q]] = "cancelled"
         \/ \E p \in ended' : /\ Kind[p] = "collect" /\ Doc[p] = Doc[q]
                              /\ q \notin since'[p]
<1>0. /\ q \in Requests /\ Doc[q] \in Docs /\ ended \subseteq ended' /\ ended \subseteq Requests
      /\ \A p \in ended : p # r
      /\ \A p \in Requests : Kind[p] = "collect" /\ p \in ended => since'[p] = since[p]
  <2>1. ended \subseteq Requests /\ ended' \subseteq ended \cup {r}
    BY EndedGrows DEF LedgerInv, LedgerTypeOK
  <2>2. \A p \in ended : p # r /\ p \in ended'
    BY <2>1, Waiting, Others DEF LedgerInv, Timed
  <2> QED
    BY <2>1, <2>2, Others, RequestAssumption
<1>1. CASE q \notin ended
  <2>1. q = r /\ Writes(r)
    BY <1>1, EndedGrows
  <2>2. CancelCommits(r)
    BY <2>1 DEF Writes, OpenInserts, CloseWrites, DeleteWrites, CollectCommits, PayCommits,
                ManualCash, ManualBalances, RefundCommits, LedgerInv, Shaped
  <2> QED
    BY <1>0, <2>1, <2>2 DEF CancelCommits, LedgerInv, LedgerTypeOK
<1>2. CASE q \in ended /\ status[Doc[q]] = "cancelled" /\ ~CollectCommits(r)
  BY <1>0, <1>2, StatusStep
<1>3. CASE q \in ended /\ CollectCommits(r) /\ Doc[r] = Doc[q]
  <2>1. r \in ended' /\ since' = since /\ Kind[r] = "collect" /\ at[r] = "open"
    BY <1>3, WritesEnd DEF Writes, CollectCommits, LedgerInv
  <2>2. CASE q \notin since[r]
    BY <1>3, <2>1, <2>2
  <2>3. CASE q \in since[r]
    <3>1. PICK p \in ended : Kind[p] = "collect" /\ Doc[p] = Doc[q] /\ q \notin since[p]
      BY <1>3, <2>1, <2>3 DEF CancelInv, Busy
    <3> QED
      BY <1>0, <2>1, <3>1
  <2> QED
    BY <2>2, <2>3
<1>4. CASE q \in ended /\ CollectCommits(r) /\ Doc[r] # Doc[q] /\ status[Doc[q]] = "cancelled"
  BY <1>0, <1>4, StatusStep
<1>5. CASE q \in ended /\ status[Doc[q]] # "cancelled"
  <2>1. PICK p \in ended : Kind[p] = "collect" /\ Doc[p] = Doc[q] /\ q \notin since[p]
    BY <1>5 DEF CancelInv, CancelledStays
  <2> QED
    BY <1>0, <2>1
<1> QED
  BY <1>1, <1>2, <1>3, <1>4, <1>5

\* A collection checked after a cancellation finds the sale cancelled, unless
\* an earlier one undid it.
LEMMA UndoneKept ==
  ASSUME LedgerInv, CancelInv, NEW r \in Requests, Step(r), NEW c \in Requests, NEW q \in ended',
         Kind[c] = "collect", at'[c] \in Busy, Kind[q] = "cancel", Doc[q] = Doc[c],
         q \in since'[c]
  PROVE  \E p \in ended' : Kind[p] = "collect" /\ Doc[p] = Doc[q] /\ q \notin since'[p]
<1>0. /\ at \in [Requests -> Phases] /\ since \in [Requests -> SUBSET Requests]
      /\ ended \subseteq Requests /\ since[c] \subseteq ended
      /\ \A p \in ended : p # r /\ p \in ended' /\ since'[p] = since[p]
  <2>1. ended \subseteq Requests
    BY DEF LedgerInv, LedgerTypeOK
  <2>2. \A p \in ended : p # r
    BY Waiting DEF LedgerInv, Timed
  <2> QED
    BY <2>1, <2>2, Others DEF LedgerInv, LedgerTypeOK, Timed
<1>1. CASE at[c] \in Busy /\ since'[c] = since[c]
  <2>1. q \in ended
    BY <1>0, <1>1
  <2>2. PICK p \in ended : Kind[p] = "collect" /\ Doc[p] = Doc[q] /\ q \notin since[p]
    BY <1>1, <2>1 DEF CancelInv
  <2> QED
    BY <1>0, <2>2
<1>2. CASE c # r
  BY <1>1, <1>2, Others
<1>3. CASE c = r /\ ~(at[c] \in Busy /\ since'[c] = since[c])
  <2>1. ~Writes(r)
    BY <1>0, <1>3, WritesEnd DEF Busy, LedgerInv
  <2>2. ~ManualBank(r) /\ ~Breaks(r)
    BY <1>0, <1>3 DEF ManualBank, Breaks, Go, ghosts, Busy
  <2>3. Reads(r)
    BY <2>1, <2>2 DEF Step
  <2>4. at[r] = "new" /\ since'[r] = ended
    BY <1>3, <2>3, ReadsArrive DEF LedgerInv, Busy
  <2>5. PaymentChecks(r)
    BY <1>3, <2>3, <2>4 DEF Reads, OpenChecks, CloseChecks, CloseCounts, DeleteChecks,
       PaymentOpens, ManualChecks, CancelChecks, CancelOpens, RefundChecks, RefundOpens
  <2>6. status[Doc[r]] # "cancelled"
    BY <1>0, <1>3, <2>5 DEF PaymentChecks, Refuse, Go, Busy
  <2>7. q \in ended
    BY <1>3, <2>4
  <2>8. PICK p \in ended : Kind[p] = "collect" /\ Doc[p] = Doc[q] /\ q \notin since[p]
    BY <1>3, <2>6, <2>7 DEF CancelInv, CancelledStays
  <2> QED
    BY <1>0, <2>8
<1> QED
  BY <1>2, <1>3, <1>1

LEMMA CancelKept ==
  ASSUME LedgerInv, CancelInv, NEW r \in Requests, Step(r) PROVE CancelInv'
<1>1. \A p \in torn' : Kind[p] = "manual"
  BY EndedGrows DEF CancelInv, LedgerInv, Shaped
<1>2. \A m \in cash' : drawer'[m.till] # "none"
  BY DrawersOpened
<1>3. ASSUME NEW p \in Requests, at'[p] = "open"
      PROVE  /\ \A t \in Tills : drawer'[t] = "open" => view'[p].drawer[t] \in {"open", "none"}
             /\ \A t \in Tills : view'[p].drawer[t] # "none" => drawer'[t] # "none"
             /\ \A m \in view'[p].cash : view'[p].drawer[m.till] # "none"
  BY <1>3, ViewsKept, RequestAssumption
<1>4. \A d \in Docs : status'[d] = "cancelled" =>
        \E q \in ended' :
          /\ Kind[q] = "cancel" /\ Doc[q] = d
          /\ \A m \in Payments(d, (cash \cup bank)') : Dealt(q, m)'
  BY RefundedKept
<1>5. \A c \in Requests, q \in ended' :
        Kind[c] = "collect" /\ at'[c] \in Busy /\ Kind[q] = "cancel" /\ Doc[q] = Doc[c]
        /\ q \in since'[c] =>
          \E p \in ended' : Kind[p] = "collect" /\ Doc[p] = Doc[q] /\ q \notin since'[p]
  BY UndoneKept
<1>6. CancelledStays'
  BY StaysKept DEF CancelledStays
<1> QED
  BY <1>1, <1>2, <1>3, <1>4, <1>5, <1>6 DEF CancelInv, Busy

LEMMA CancelSafe == CashSpec => []CancelInv
<1>1. CashInit => CancelInv
  BY DEF CashInit, CancelInv, CancelledStays, Busy
<1>2. LedgerInv /\ CancelInv /\ [CashNext]_cashVars => CancelInv'
  <2> SUFFICES ASSUME LedgerInv, CancelInv, [CashNext]_cashVars PROVE CancelInv'
    OBVIOUS
  <2>1. CASE UNCHANGED cashVars
    BY <2>1 DEF CancelInv, CancelledStays, Dealt, Reversed, Payments, cashVars, tables, local,
                ghosts
  <2>2. CASE CashNext
    BY <2>2, NextSteps, CancelKept
  <2> QED
    BY <2>1, <2>2
<1> QED
  BY <1>1, <1>2, LedgerShape, PTL DEF CashSpec

\* A cancelled sale has its payments reversed, or waiting for a refund because
\* their session is closed, or made by collections that crossed the
\* cancellation; and it stays cancelled unless such a collection was committed
\* after (CancelNotaVenta, reverseSaleCashTx, Collect).
THEOREM CancelledSettle == CashSpec => []CancelledSettles
<1>1. CancelInv => CancelledSettles
  <2> SUFFICES ASSUME CancelInv PROVE CancelledIsRefunded
    BY DEF CancelInv, CancelledSettles
  <2> SUFFICES ASSUME NEW d \in Docs, status[d] = "cancelled",
                      NEW m \in Payments(d, cash \cup bank)
               PROVE  \/ Reversed(m, cash \cup bank)
                      \/ m \in cash /\ drawer[m.till] # "open"
                      \/ \E q \in ended : /\ Kind[q] = "cancel" /\ Doc[q] = d
                                          /\ q \notin since[m.by] /\ m.by \notin seen[q]
    BY DEF CancelledIsRefunded
  <2>1. PICK q \in ended : Kind[q] = "cancel" /\ Doc[q] = d /\ Dealt(q, m)
    BY DEF CancelInv
  <2> QED
    BY <2>1 DEF Dealt
<1> QED
  BY <1>1, CancelSafe, PTL

-----------------------------------------------------------------------------
\* Debts.

Paying == {"collect", "pay"}

\* No two of these payments were both checked before either was written.
Chain(ms) == \A m, n \in ms : m # n => ~Concurrent(m.by, n.by)

\* The payments of r's document when it was checked.
Before(r) == {m \in Payments(Doc[r], cash \cup bank) : m.by \in since[r]}

\* What the account's lock and the checks give: who holds the account sees every
\* bank payment, and what a request read is what had been paid.
DebtInv ==
  /\ \A r, q \in Requests : HoldsAccount(r) /\ HoldsAccount(q) => r = q
  /\ \A r \in Requests : HoldsAccount(r) =>
       \A m \in bank : m.of = None /\ Kind[m.by] \in Paying => m \in view[r].bank
  /\ \A r \in Requests : Kind[r] \in Paying /\ at[r] \in Busy =>
       /\ read[r] + 1 <= Total[Doc[r]]
       /\ Chain(Before(r)) => read[r] = Cardinality(Before(r))
  /\ NeverOverpaid
  /\ StatusMatchesPayments

LEMMA PaymentsFinite ==
  ASSUME LedgerInv, NEW d
  PROVE  /\ IsFiniteSet(Payments(d, cash \cup bank))
         /\ Cardinality(Payments(d, cash \cup bank)) \in Nat
<1>1. IsFiniteSet(cash \cup bank)
  BY FS_Union DEF LedgerInv, Shaped
<1>2. Payments(d, cash \cup bank) \subseteq cash \cup bank
  BY DEF Payments
<1> QED
  BY <1>1, <1>2, FS_Subset, FS_CardinalityType

LEMMA BeforeFinite ==
  ASSUME LedgerInv, NEW r PROVE IsFiniteSet(Before(r)) /\ Cardinality(Before(r)) \in Nat
<1>1. Before(r) \subseteq Payments(Doc[r], cash \cup bank)
  BY DEF Before
<1> QED
  BY <1>1, PaymentsFinite, FS_Subset, FS_CardinalityType

\* The payments of a document grow by one when a payment of it is committed.
LEMMA PaymentsGrow ==
  ASSUME LedgerInv, NEW r \in Requests, Step(r), NEW d \in Docs
  PROVE  \/ Payments(d, (cash \cup bank)') = Payments(d, cash \cup bank)
         \/ /\ CollectCommits(r) \/ PayCommits(r)
            /\ Doc[r] = d
            /\ \E m : /\ m.by = r /\ m.of = None /\ m \notin Payments(d, cash \cup bank)
                      /\ Payments(d, (cash \cup bank)') =
                           Payments(d, cash \cup bank) \cup {m}
<1>1. CASE (CollectCommits(r) \/ PayCommits(r)) /\ Doc[r] = d
  <2>1. PICK way : Record(r, way) /\ Kind[r] \in {"collect", "pay"} /\ Writes(r)
    BY <1>1 DEF CollectCommits, PayCommits, Writes
  <2> DEFINE m == Row(r, None, till[r], way)
  <2>2. (cash \cup bank)' = (cash \cup bank) \cup {m}
    BY <2>1 DEF Record
  <2>3. m.by = r /\ m.of = None
    BY DEF Row
  <2>4. m \notin cash \cup bank
    <3>1. r \notin ended /\ r \notin torn /\ at[r] # "half"
      BY <1>1, Waiting DEF LedgerInv, Timed, CollectCommits, PayCommits
    <3> QED
      BY <2>3, <3>1 DEF LedgerInv, Timed
  <2>5. Payments(d, (cash \cup bank)') = Payments(d, cash \cup bank) \cup {m}
    BY <1>1, <2>1, <2>2, <2>3 DEF Payments
  <2> QED
    BY <1>1, <2>3, <2>4, <2>5 DEF Payments
<1>2. CASE ~((CollectCommits(r) \/ PayCommits(r)) /\ Doc[r] = d)
  BY <1>2, StatusStep
<1> QED
  BY <1>1, <1>2

\* The history of those who have ended does not change.
LEMMA PaidBefore ==
  ASSUME LedgerInv, CancelInv, NEW r \in Requests, Step(r), NEW d,
         NEW m \in Payments(d, cash \cup bank)
  PROVE  /\ m.by \in Requests /\ m.by \in ended /\ m.by # r
         /\ since'[m.by] = since[m.by] /\ seen'[m.by] = seen[m.by]
         /\ r \notin since[m.by] /\ r \notin seen[m.by]
<1>1. m \in cash \cup bank /\ Kind[m.by] \in {"collect", "pay"}
  BY DEF Payments
<1>2. m.by \in ended
  BY <1>1, PaymentsEnded
<1>3. m.by \in Requests /\ m.by # r
  BY <1>2, Waiting DEF LedgerInv, LedgerTypeOK, Timed
<1> QED
  BY <1>2, <1>3, Others

LEMMA ChainKept ==
  ASSUME LedgerInv, CancelInv, NEW r \in Requests, Step(r), NEW d,
         NEW ms \in SUBSET Payments(d, cash \cup bank)
  PROVE  Chain(ms) <=> \A m, n \in ms : m # n => ~Concurrent(m.by, n.by)'
BY PaidBefore DEF Chain, Concurrent

\* A payment committed after every other one was checked against them all.
LEMMA ChainBefore ==
  ASSUME LedgerInv, CancelInv, NEW r \in Requests, Step(r), Writes(r),
         NEW p, p.by = r, p \notin Payments(Doc[r], cash \cup bank),
         \A m, n \in Payments(Doc[r], cash \cup bank) \cup {p} :
            m # n => ~Concurrent(m.by, n.by)'
  PROVE  Chain(Before(r)) /\ Before(r) = Payments(Doc[r], cash \cup bank)
<1>1. Chain(Payments(Doc[r], cash \cup bank))
  BY ChainKept
<1>2. since' = since
  BY WritesEnd DEF LedgerInv
<1>3. ASSUME NEW m \in Payments(Doc[r], cash \cup bank) PROVE m.by \in since[r]
  <2>1. ~Concurrent(m.by, r)'
    BY <1>3
  <2>2. r \notin since[m.by]
    BY PaidBefore
  <2> QED
    BY <1>2, <2>1, <2>2 DEF Concurrent
<1>4. Before(r) = Payments(Doc[r], cash \cup bank)
  BY <1>3 DEF Before
<1> QED
  BY <1>1, <1>4

\* The payment that opens its transaction has just taken its snapshot.
LEMMA OpenedByReading ==
  ASSUME LedgerInv, NEW r \in Requests, Step(r), at'[r] = "open",
         Kind[r] \in {"collect", "pay"}
  PROVE  PaymentOpens(r)
<1>0. at \in [Requests -> Phases]
  BY DEF LedgerInv, LedgerTypeOK
<1>1. ~Writes(r)
  BY <1>0, WritesEnd DEF LedgerInv
<1>2. ~ManualBank(r) /\ ~Breaks(r)
  BY <1>0 DEF ManualBank, Breaks, Go
<1>3. ~PaymentChecks(r)
  BY <1>0 DEF PaymentChecks, Check, Refuse, Go
<1> QED
  BY <1>1, <1>2, <1>3 DEF Step, Reads, OpenChecks, CloseChecks, CloseCounts, DeleteChecks,
     ManualChecks, CancelChecks, CancelOpens, RefundChecks, RefundOpens

\* Each part of DebtInv, kept by a step.
LEMMA AccountKept ==
  ASSUME LedgerInv, DebtInv, NEW r \in Requests, Step(r)
  PROVE  \A p, q \in Requests : HoldsAccount(p)' /\ HoldsAccount(q)' => p = q
<1>0. at \in [Requests -> Phases]
  BY DEF LedgerInv, LedgerTypeOK
<1>1. \A q \in Requests : q # r => (HoldsAccount(q)' <=> HoldsAccount(q))
  BY Others DEF HoldsAccount
<1>2. HoldsAccount(r)' => AccountFree(r)
  <2> SUFFICES ASSUME HoldsAccount(r)' PROVE AccountFree(r)
    OBVIOUS
  <2>1. PaymentOpens(r)
    BY <1>0, OpenedByReading DEF HoldsAccount
  <2> QED
    BY <2>1 DEF PaymentOpens, HoldsAccount
<1> QED
  BY <1>1, <1>2 DEF AccountFree, DebtInv

LEMMA BankSeenKept ==
  ASSUME LedgerInv, DebtInv, NEW r \in Requests, Step(r), NEW q \in Requests,
         HoldsAccount(q)', NEW m \in bank', m.of = None, Kind[m.by] \in Paying
  PROVE  m \in view'[q].bank
<1>0. /\ at \in [Requests -> Phases] /\ view \in [Requests -> Views \cup {None}]
  BY DEF LedgerInv, LedgerTypeOK
<1>1. CASE q # r
  <2>1. HoldsAccount(q) /\ view'[q] = view[q]
    BY <1>1, Others DEF HoldsAccount
  <2>2. CASE m \in bank
    BY <2>1, <2>2 DEF DebtInv
  <2>3. CASE m \notin bank
    <3>1. Writes(r) \/ ManualBank(r)
      BY <2>3, BankGrows, BankRow DEF LedgerInv
    <3>2. m.by = r /\ m \in Rows
      BY <2>3, BankGrows, BankRow DEF LedgerInv
    <3>3. Kind[r] \in Paying
      BY <3>2
    <3>4. Writes(r)
      BY <3>1, <3>3 DEF ManualBank, Paying
    <3>5. CollectCommits(r) \/ PayCommits(r)
      BY <3>3, <3>4 DEF Writes, Paying, OpenInserts, CloseWrites, DeleteWrites, ManualCash,
         ManualBalances, CancelCommits, RefundCommits, LedgerInv, Shaped
    <3>6. HoldsAccount(r)
      BY <2>3, <3>5, RequestAssumption DEF CollectCommits, PayCommits, Record, HoldsAccount
    <3> QED
      BY <1>1, <2>1, <3>6 DEF DebtInv
  <2> QED
    BY <2>2, <2>3
<1>2. CASE q = r
  <2>1. PaymentOpens(r)
    BY <1>2, OpenedByReading DEF HoldsAccount
  <2>2. bank' = bank /\ view'[r].bank = bank
    BY <1>0, <2>1 DEF PaymentOpens, Open, tables
  <2> QED
    BY <1>2, <2>2
<1> QED
  BY <1>1, <1>2

LEMMA ReadKept ==
  ASSUME LedgerInv, CancelInv, DebtInv, NEW r \in Requests, Step(r), NEW q \in Requests,
         Kind[q] \in Paying, at'[q] \in Busy
  PROVE  /\ read'[q] + 1 <= Total[Doc[q]]
         /\ Chain(Before(q))' => read'[q] = Cardinality(Before(q)')
<1>0. /\ at \in [Requests -> Phases] /\ since \in [Requests -> SUBSET Requests]
      /\ read \in [Requests -> Int] /\ Doc[q] \in Docs /\ Kind[q] \in {"collect", "pay"}
      /\ since[q] \subseteq ended
  BY RequestAssumption DEF LedgerInv, LedgerTypeOK, Timed, Paying
<1>1. CASE at[q] \in Busy /\ since'[q] = since[q] /\ read'[q] = read[q]
  <2>1. Before(q)' = Before(q)
    <3>1. r \notin since[q]
      BY <1>0, Waiting DEF LedgerInv, Timed
    <3>2. \/ Payments(Doc[q], (cash \cup bank)') = Payments(Doc[q], cash \cup bank)
          \/ \E m : /\ m.by = r
                    /\ Payments(Doc[q], (cash \cup bank)') =
                         Payments(Doc[q], cash \cup bank) \cup {m}
      BY <1>0, PaymentsGrow
    <3>3. Before(q)' = {m \in Payments(Doc[q], (cash \cup bank)') : m.by \in since[q]}
      BY <1>1 DEF Before, Payments
    <3> QED
      BY <3>1, <3>2, <3>3 DEF Before
  <2>2. Chain(Before(q))' => Chain(Before(q))
    <3>1. Before(q) \in SUBSET Payments(Doc[q], cash \cup bank)
      BY DEF Before
    <3>2. Chain(Before(q))' => \A m, n \in Before(q) : m # n => ~Concurrent(m.by, n.by)'
      BY <2>1 DEF Chain
    <3> QED
      BY <3>1, <3>2, ChainKept
  <2> QED
    BY <1>1, <2>1, <2>2 DEF DebtInv
<1>2. CASE q # r
  <2>1. at[q] \in Busy /\ since'[q] = since[q] /\ read'[q] = read[q]
    BY <1>2, Others
  <2> QED
    BY <1>1, <2>1
<1>3. CASE q = r /\ at[r] \notin Busy
  <2>1. Reads(r)
    BY <1>0, <1>3, WritesEnd DEF Step, ManualBank, Breaks, Busy, LedgerInv
  <2>2. PaymentChecks(r)
    BY <1>0, <1>3, <2>1 DEF Reads, OpenChecks, CloseChecks, CloseCounts, DeleteChecks,
       PaymentOpens, ManualChecks, CancelChecks, CancelOpens, RefundChecks, RefundOpens, Busy
  <2>3. /\ Settled(r) + 1 <= Total[Doc[r]] /\ read' = [read EXCEPT ![r] = Settled(r)]
        /\ since' = [since EXCEPT ![r] = ended] /\ UNCHANGED tables
    <3>1. at'[r] # "done"
      BY <1>3 DEF Busy
    <3>2. Settled(r) \in Int /\ Total[Doc[r]] \in Int
      BY <1>0, <1>3, SettledType, DocAssumption DEF LedgerInv
    <3> QED
      BY <1>0, <2>2, <3>1, <3>2 DEF PaymentChecks, Refuse, Check, Go
  <2> DEFINE ms == Payments(Doc[r], cash \cup bank)
  <2>4. Before(r)' = ms
    <3>1. \A m \in ms : m.by \in ended
      BY PaidBefore
    <3> QED
      BY <1>0, <2>3, <3>1 DEF Before, tables, Payments
  <2>5. Chain(Before(r))' => Chain(ms)
    <3>1. Chain(Before(r))' => \A m, n \in ms : m # n => ~Concurrent(m.by, n.by)'
      BY <2>4 DEF Chain
    <3> QED
      BY <3>1, ChainKept
  <2>6. Chain(ms) => Settled(r) = Cardinality(ms)
    <3>1. CASE Kind[r] = "collect"
      BY <3>1 DEF Settled
    <3>2. CASE Kind[r] = "pay"
      <4>1. {m \in ms : Kind[m.by] = "pay"} = ms
        BY <1>0, <3>2, PaidBefore, DocKindAssumption DEF Payments
      <4>2. Chain(ms) => paid[Doc[r]] = Cardinality(ms)
        BY <1>0, <1>3, <4>1 DEF DebtInv, StatusMatchesPayments, Chain
      <4> QED
        BY <3>2, <4>2 DEF Settled
    <3> QED
      BY <1>0, <1>3, <3>1, <3>2
  <2> QED
    BY <1>0, <1>3, <2>3, <2>4, <2>5, <2>6
<1>4. CASE q = r /\ at[r] \in Busy
  <2>1. ~Writes(r) /\ ~Breaks(r)
    BY <1>0, <1>4, WritesEnd DEF Breaks, Go, Busy, LedgerInv
  <2>2. since'[r] = since[r] /\ read'[r] = read[r]
    <3>1. CASE Reads(r)
      <4>1. PaymentOpens(r)
        BY <1>0, <1>4, <3>1 DEF Reads, OpenChecks, CloseChecks, CloseCounts, DeleteChecks,
           PaymentChecks, ManualChecks, CancelChecks, CancelOpens, RefundChecks, RefundOpens, Busy
      <4> QED
        BY <4>1 DEF PaymentOpens, Open
    <3>2. CASE ManualBank(r)
      BY <3>2 DEF ManualBank, ghosts
    <3> QED
      BY <2>1, <3>1, <3>2 DEF Step
  <2> QED
    BY <1>1, <1>4, <2>2
<1> QED
  BY <1>2, <1>3, <1>4

\* A payment committed is one more.
LEMMA CommitAdds ==
  ASSUME LedgerInv, NEW r \in Requests, CollectCommits(r) \/ PayCommits(r)
  PROVE  \E m : /\ m.by = r /\ m \notin Payments(Doc[r], cash \cup bank)
                /\ Payments(Doc[r], (cash \cup bank)') =
                     Payments(Doc[r], cash \cup bank) \cup {m}
<1>1. PICK way : Record(r, way) /\ Kind[r] \in {"collect", "pay"} /\ Step(r)
  BY DEF CollectCommits, PayCommits, Writes, Step
<1> DEFINE m == Row(r, None, till[r], way)
<1>2. (cash \cup bank)' = (cash \cup bank) \cup {m}
  BY <1>1 DEF Record
<1>3. m.by = r /\ m.of = None
  BY DEF Row
<1>4. m \notin cash \cup bank
  <2>1. r \notin ended /\ r \notin torn /\ at[r] # "half"
    BY <1>1, Waiting DEF LedgerInv, Timed, CollectCommits, PayCommits
  <2> QED
    BY <1>3, <2>1 DEF LedgerInv, Timed
<1>5. Payments(Doc[r], (cash \cup bank)') = Payments(Doc[r], cash \cup bank) \cup {m}
  BY <1>1, <1>2, <1>3 DEF Payments
<1> QED
  BY <1>3, <1>4, <1>5 DEF Payments

LEMMA OneMore ==
  ASSUME LedgerInv, NEW d, NEW after, NEW m, m \notin Payments(d, cash \cup bank),
         after = Payments(d, cash \cup bank) \cup {m}
  PROVE  Cardinality(after) = Cardinality(Payments(d, cash \cup bank)) + 1
BY PaymentsFinite, FS_AddElement

LEMMA PaidStep ==
  ASSUME LedgerInv, NEW r \in Requests, Step(r), NEW d \in Docs, ~(PayCommits(r) /\ Doc[r] = d)
  PROVE  paid'[d] = paid[d]
<1>0. paid \in [Docs -> Nat]
  BY DEF LedgerInv, LedgerTypeOK
<1>1. CASE PayCommits(r)
  BY <1>0, <1>1 DEF PayCommits
<1>2. CASE ~PayCommits(r)
  BY <1>2, ReadsKeep
    DEF Step, Writes, tables, OpenInserts, CloseWrites, DeleteWrites, CollectCommits, ManualCash,
        ManualBank, ManualBalances, CancelCommits, RefundCommits, Breaks
<1> QED
  BY <1>1, <1>2

LEMMA LedgerTypeNext ==
  ASSUME LedgerInv, NEW r \in Requests, Step(r) PROVE cash' \subseteq Rows /\ bank' \subseteq Rows
BY TypeKept DEF LedgerTypeOK

LEMMA OverpaidKept ==
  ASSUME LedgerInv, CancelInv, DebtInv, NEW r \in Requests, Step(r), NEW d \in Docs,
         Cardinality(Payments(d, (cash \cup bank)')) > Total[d],
         \A m, n \in Payments(d, (cash \cup bank)') : m # n => ~Concurrent(m.by, n.by)'
  PROVE  FALSE
<1> DEFINE ms == Payments(d, cash \cup bank)
<1>0. IsFiniteSet(ms) /\ Cardinality(ms) \in Nat /\ Total[d] \in Nat
  BY PaymentsFinite, DocAssumption
<1>1. CASE Payments(d, (cash \cup bank)') = ms
  <2>1. Chain(ms)
    BY <1>1, ChainKept
  <2> QED
    BY <1>0, <1>1, <2>1 DEF DebtInv, NeverOverpaid, Chain
<1>2. CASE Payments(d, (cash \cup bank)') # ms
  <2>1. /\ CollectCommits(r) \/ PayCommits(r)
        /\ Doc[r] = d
    BY <1>2, PaymentsGrow
  <2>2. PICK m : /\ m.by = r /\ m \notin ms
                 /\ Payments(d, (cash \cup bank)') = ms \cup {m}
    BY <1>2, PaymentsGrow
  <2>3. Writes(r) /\ at[r] \in Busy /\ Kind[r] \in Paying
    BY <2>1 DEF Writes, CollectCommits, PayCommits, Busy, Paying
  <2>4. Chain(Before(r)) /\ Before(r) = ms
    BY <2>1, <2>2, <2>3, ChainBefore
  <2>5. Cardinality(Payments(d, (cash \cup bank)')) = Cardinality(ms) + 1
    BY <2>2, OneMore
  <2>6. read[r] + 1 <= Total[d] /\ read[r] = Cardinality(ms)
    BY <2>1, <2>3, <2>4 DEF DebtInv
  <2> HIDE DEF ms
  <2> QED
    BY <1>0, <2>5, <2>6
<1> QED
  BY <1>1, <1>2

\* A sale marked paid has been paid.
LEMMA PaidKept ==
  ASSUME LedgerInv, DebtInv, NEW r \in Requests, Step(r), NEW d \in Docs,
         status'[d] = "paid"
  PROVE  Cardinality(Payments(d, (cash \cup bank)')) >= Total[d]
<1> DEFINE ms == Payments(d, cash \cup bank)
<1>0. IsFiniteSet(ms) /\ Cardinality(ms) \in Nat /\ Total[d] \in Nat
      /\ status \in [Docs -> {"credit", "paid", "cancelled"}]
  BY PaymentsFinite, DocAssumption DEF LedgerInv, LedgerTypeOK
<1>1. CASE CollectCommits(r) /\ Doc[r] = d
  <2> DEFINE vs == Payments(d, view[r].cash \cup view[r].bank)
  <2>1. vs \subseteq ms
    BY <1>1 DEF LedgerInv, Snapped, CollectCommits, Payments
  <2>2. IsFiniteSet(vs) /\ Cardinality(vs) \in Nat /\ Cardinality(vs) <= Cardinality(ms)
    BY <1>0, <2>1, FS_Subset, FS_CardinalityType
  <2>3. Cardinality(vs) + 1 >= Total[d]
    BY <1>0, <1>1 DEF CollectCommits
  <2>4. Cardinality(Payments(d, (cash \cup bank)')) = Cardinality(ms) + 1
    <3>1. PICK m : m \notin ms /\ Payments(d, (cash \cup bank)') = ms \cup {m}
      BY <1>1, CommitAdds
    <3> QED
      BY <1>0, <3>1, FS_AddElement
  <2> QED
    BY <1>0, <2>2, <2>3, <2>4
<1>2. CASE ~(CollectCommits(r) /\ Doc[r] = d)
  <2>1. status[d] = "paid"
    BY <1>2, StatusStep
  <2>2. Cardinality(ms) >= Total[d]
    BY <2>1 DEF DebtInv, StatusMatchesPayments
  <2>3. Cardinality(Payments(d, (cash \cup bank)')) \in Nat
        /\ Cardinality(Payments(d, (cash \cup bank)')) >= Cardinality(ms)
    <3>1. CASE Payments(d, (cash \cup bank)') = ms
      BY <1>0, <3>1
    <3>2. CASE Payments(d, (cash \cup bank)') # ms
      <4>1. PICK m : m \notin ms /\ Payments(d, (cash \cup bank)') = ms \cup {m}
        BY <3>2, PaymentsGrow
      <4>2. Cardinality(Payments(d, (cash \cup bank)')) = Cardinality(ms) + 1
        BY <4>1, OneMore
      <4> HIDE DEF ms
      <4> QED
        BY <1>0, <4>2
    <3> QED
      BY <3>1, <3>2
  <2> QED
    BY <1>0, <2>2, <2>3
<1> QED
  BY <1>1, <1>2

\* A sale that has been paid is left as credit only by collections that did
\* not see each other.
LEMMA CreditKept ==
  ASSUME LedgerInv, CancelInv, DebtInv, NEW r \in Requests, Step(r), NEW d \in Docs,
         status'[d] = "credit", NEW c \in Payments(d, (cash \cup bank)'), Kind[c.by] = "collect",
         Cardinality(Payments(d, (cash \cup bank)')) >= Total[d]
  PROVE  \E m, n \in Payments(d, (cash \cup bank)') :
           /\ m # n /\ Unseen(m.by, n.by)' /\ "cash" \in {Method[m.by], Method[n.by]}
<1> DEFINE ms == Payments(d, cash \cup bank)
<1>0. IsFiniteSet(ms) /\ Cardinality(ms) \in Nat /\ Total[d] \in Nat
      /\ status \in [Docs -> {"credit", "paid", "cancelled"}]
  BY PaymentsFinite, DocAssumption DEF LedgerInv, LedgerTypeOK
<1>1. CASE CollectCommits(r) /\ Doc[r] = d
  <2> DEFINE vs == Payments(d, view[r].cash \cup view[r].bank)
  <2>1. vs \subseteq ms /\ at[r] = "open" /\ Kind[r] = "collect" /\ Writes(r)
    BY <1>1 DEF LedgerInv, Snapped, CollectCommits, Payments, Writes
  <2>2. PICK p : /\ p.by = r /\ p \notin ms
                 /\ Payments(d, (cash \cup bank)') = ms \cup {p}
    BY <1>1, CommitAdds
  <2>3. Cardinality(ms) + 1 >= Total[d]
    <3>1. Cardinality(Payments(d, (cash \cup bank)')) = Cardinality(ms) + 1
      BY <2>2, OneMore
    <3> QED
      BY <3>1
  <2>4. ~(Cardinality(vs) + 1 >= Total[d])
    BY <1>0, <1>1 DEF CollectCommits
  <2>5. PICK m \in ms : m \notin vs
    <3> SUFFICES ASSUME vs = ms PROVE FALSE
      BY <2>1
    <3> HIDE DEF vs, ms
    <3> QED
      BY <2>3, <2>4
  <2>6. m \in cash \cup bank /\ m.of = None /\ Kind[m.by] \in Paying /\ Doc[m.by] = d
        /\ m \notin view[r].cash /\ m \notin view[r].bank
    BY <2>5 DEF Payments, Paying
  <2>7. m.by \notin seen[r]
    BY <2>1, <2>6 DEF LedgerInv, Snapped
  <2>8. r \notin seen[m.by] /\ m.by \in Requests /\ m.by # r /\ seen'[m.by] = seen[m.by]
    BY PaidBefore
  <2>9. seen'[r] = seen[r]
    BY <2>1, WritesEnd DEF LedgerInv
  <2>10. Unseen(m.by, r)'
    BY <2>7, <2>8, <2>9 DEF Unseen
  <2>11. "cash" \in {Method[m.by], Method[r]}
    <3> SUFFICES ASSUME Method[m.by] # "cash", Method[r] # "cash" PROVE FALSE
      OBVIOUS
    <3>1. Method[r] = "bank"
      BY RequestAssumption
    <3>2. m \in bank
      BY <2>6 DEF LedgerInv, Shaped
    <3>3. HoldsAccount(r)
      BY <2>1, <3>1 DEF HoldsAccount
    <3> QED
      BY <2>6, <3>2, <3>3 DEF DebtInv
  <2> QED
    BY <2>2, <2>5, <2>8, <2>10, <2>11
<1>2. CASE ~(CollectCommits(r) /\ Doc[r] = d)
  <2>1. /\ status[d] = "credit"
        /\ \/ Payments(d, (cash \cup bank)') = ms
           \/ PayCommits(r) /\ d = Doc[r]
    BY <1>2, StatusStep
  <2>2. c.by \in Requests /\ Doc[c.by] = d
    <3>1. c \in Rows
      BY LedgerTypeNext DEF Payments, LedgerTypeOK
    <3> QED
      BY <3>1 DEF Rows, Payments
  <2>3. Payments(d, (cash \cup bank)') = ms
    BY <2>1, <2>2, DocKindAssumption DEF PayCommits
  <2>4. PICK m, n \in ms :
          m # n /\ Unseen(m.by, n.by) /\ "cash" \in {Method[m.by], Method[n.by]}
    BY <2>1, <2>3 DEF DebtInv, StatusMatchesPayments
  <2>5. Unseen(m.by, n.by)'
    BY <2>4, PaidBefore DEF Unseen
  <2> QED
    BY <2>3, <2>4, <2>5
<1> QED
  BY <1>1, <1>2

\* paid_amount is the sum of the payments unless two overlapped.
LEMMA AmountKept ==
  ASSUME LedgerInv, CancelInv, DebtInv, NEW r \in Requests, Step(r), NEW d \in Docs,
         {m \in Payments(d, (cash \cup bank)') : Kind[m.by] = "pay"}
            = Payments(d, (cash \cup bank)'),
         \A m, n \in Payments(d, (cash \cup bank)') : m # n => ~Concurrent(m.by, n.by)'
  PROVE  paid'[d] = Cardinality(Payments(d, (cash \cup bank)'))
<1> DEFINE ms == Payments(d, cash \cup bank)
<1>0. IsFiniteSet(ms) /\ Cardinality(ms) \in Nat /\ paid \in [Docs -> Nat]
      /\ read \in [Requests -> Int]
  BY PaymentsFinite DEF LedgerInv, LedgerTypeOK
<1>1. CASE Payments(d, (cash \cup bank)') = ms
  <2>1. Chain(ms)
    BY <1>1, ChainKept
  <2>2. paid[d] = Cardinality(ms)
    BY <1>1, <2>1 DEF DebtInv, StatusMatchesPayments, Chain
  <2>3. ~(PayCommits(r) /\ Doc[r] = d)
    BY <1>1, CommitAdds
  <2>4. paid'[d] = paid[d]
    BY <1>0, <2>3, PaidStep
  <2> QED
    BY <1>1, <2>2, <2>4
<1>2. CASE Payments(d, (cash \cup bank)') # ms
  <2>1. /\ CollectCommits(r) \/ PayCommits(r)
        /\ Doc[r] = d
    BY <1>2, PaymentsGrow
  <2>2. PICK m : /\ m.by = r /\ m \notin ms
                 /\ Payments(d, (cash \cup bank)') = ms \cup {m}
    BY <1>2, PaymentsGrow
  <2>3. PayCommits(r)
    BY <2>1, <2>2 DEF CollectCommits
  <2>4. Writes(r) /\ at[r] \in Busy /\ Kind[r] \in Paying
    BY <2>3 DEF Writes, PayCommits, Busy, Paying
  <2>5. Chain(Before(r)) /\ Before(r) = ms
    BY <2>1, <2>2, <2>4, ChainBefore
  <2>6. read[r] = Cardinality(ms)
    BY <2>4, <2>5 DEF DebtInv
  <2>7. Cardinality(ms \cup {m}) = Cardinality(ms) + 1
    BY <1>0, <2>2, FS_AddElement
  <2> QED
    BY <1>0, <2>1, <2>2, <2>3, <2>6, <2>7 DEF PayCommits
<1> QED
  BY <1>1, <1>2

LEMMA DebtKept ==
  ASSUME LedgerInv, CancelInv, DebtInv, NEW r \in Requests, Step(r) PROVE DebtInv'
<1>1. \A p, q \in Requests : HoldsAccount(p)' /\ HoldsAccount(q)' => p = q
  BY AccountKept
<1>2. \A q \in Requests : HoldsAccount(q)' =>
        \A m \in bank' : m.of = None /\ Kind[m.by] \in Paying => m \in view'[q].bank
  BY BankSeenKept
<1>3. \A q \in Requests : Kind[q] \in Paying /\ at'[q] \in Busy =>
        /\ read'[q] + 1 <= Total[Doc[q]]
        /\ Chain(Before(q))' => read'[q] = Cardinality(Before(q)')
  BY ReadKept
<1>4. NeverOverpaid'
  BY OverpaidKept DEF NeverOverpaid
<1>5. StatusMatchesPayments'
  <2>1. \A d \in Docs : status'[d] = "paid" =>
          Cardinality(Payments(d, (cash \cup bank)')) >= Total[d]
    BY PaidKept
  <2>2. ASSUME NEW d \in Docs, status'[d] = "credit",
               {m \in Payments(d, (cash \cup bank)') : Kind[m.by] = "collect"} # {},
               Cardinality(Payments(d, (cash \cup bank)')) >= Total[d]
        PROVE  \E m, n \in Payments(d, (cash \cup bank)') :
                 /\ m # n /\ Unseen(m.by, n.by)' /\ "cash" \in {Method[m.by], Method[n.by]}
    BY <2>2, CreditKept
  <2>3. ASSUME NEW d \in Docs,
               {m \in Payments(d, (cash \cup bank)') : Kind[m.by] = "pay"}
                  = Payments(d, (cash \cup bank)'),
               paid'[d] # Cardinality(Payments(d, (cash \cup bank)'))
        PROVE  \E m, n \in Payments(d, (cash \cup bank)') :
                 m # n /\ Concurrent(m.by, n.by)'
    BY <2>3, AmountKept
  <2> QED
    BY <2>1, <2>2, <2>3 DEF StatusMatchesPayments
<1> QED
  BY <1>1, <1>2, <1>3, <1>4, <1>5 DEF DebtInv, Busy, Paying

LEMMA DebtSafe == CashSpec => []DebtInv
<1>1. CashInit => DebtInv
  <2> SUFFICES ASSUME CashInit PROVE DebtInv
    OBVIOUS
  <2>1. /\ cash = {} /\ bank = {} /\ \A r \in Requests : at[r] \in {"new", "done"}
        /\ \A d \in Docs : status[d] = "credit" /\ paid[d] = 0
    BY DEF CashInit
  <2>2. \A d : Payments(d, cash \cup bank) = {}
    BY <2>1 DEF Payments
  <2>3. Cardinality({}) = 0 /\ \A d \in Docs : Total[d] \in Nat \ {0}
    BY FS_EmptySet, DocAssumption
  <2>4. NeverOverpaid /\ StatusMatchesPayments
    BY <2>1, <2>2, <2>3 DEF NeverOverpaid, StatusMatchesPayments
  <2> QED
    BY <2>1, <2>4 DEF DebtInv, HoldsAccount, Busy
<1>2. LedgerInv /\ CancelInv /\ DebtInv /\ [CashNext]_cashVars => DebtInv'
  <2> SUFFICES ASSUME LedgerInv, CancelInv, DebtInv, [CashNext]_cashVars PROVE DebtInv'
    OBVIOUS
  <2>1. CASE UNCHANGED cashVars
    <3>1. UNCHANGED <<cash, bank, status, paid, at, read, view, since, seen>>
      BY <2>1 DEF cashVars, tables, local, ghosts
    <3>2. NeverOverpaid' /\ StatusMatchesPayments'
      BY <3>1 DEF DebtInv, NeverOverpaid, StatusMatchesPayments, Concurrent, Unseen, Payments
    <3>3. \A r : (HoldsAccount(r)' <=> HoldsAccount(r)) /\ Before(r)' = Before(r)
      BY <3>1 DEF HoldsAccount, Before, Payments
    <3>4. \A r : Chain(Before(r))' <=> Chain(Before(r))
      BY <3>1, <3>3 DEF Chain, Concurrent
    <3> QED
      BY <3>1, <3>2, <3>3, <3>4 DEF DebtInv
  <2>2. CASE CashNext
    BY <2>2, NextSteps, DebtKept
  <2> QED
    BY <2>1, <2>2
<1> QED
  BY <1>1, <1>2, LedgerShape, CancelSafe, PTL DEF CashSpec

\* A debt is never overpaid, a sale's status and a purchase's paid_amount are
\* what its payments say, but for payments that overlapped (Collect, Pay).
THEOREM DebtsAgree == CashSpec => []DebtsSettle
<1>1. DebtInv => DebtsSettle
  BY DEF DebtInv, DebtsSettle
<1> QED
  BY <1>1, DebtSafe, PTL

=============================================================================
