---------------------------- MODULE StockLedger ----------------------------
(***************************************************************************)
(* Stock, serial numbers and document correlatives of one tenant: sales    *)
(* (internal/sales), inventory documents and transfers (internal/inventory)*)
(* and the correlatives they take (pkg/docseries), as concurrent MySQL     *)
(* transactions under REPEATABLE READ, the isolation the DSN leaves.       *)
(*                                                                         *)
(* One product that keeps stock and serials; every line moves one unit.    *)
(* A transaction is three steps: the locking reads it waits for, the first *)
(* plain read, which fixes the snapshot all its later plain reads see, and *)
(* the writes with COMMIT: RecordMovementTx writes the quantity it computed*)
(* from the snapshot.  Checks made before the transaction are steps of     *)
(* their own.                                                              *)
(***************************************************************************)
EXTENDS Integers, FiniteSets

CONSTANTS
  Branches,
  Serials, Shelf,   \* Shelf[x]: the branch where serial x starts, or None
  Papers,           \* sales (by idempotency key), documents, transfers
  Branch,           \* Branch[p]: where p moves stock (a transfer: its origin)
  Destination,      \* Destination[p]: where a transfer goes
  Direction,        \* Direction[p]: "IN" or "OUT", of an inventory document
  Listed,           \* Listed[p]: the serial on the line of a document
  DocSeries,        \* DocSeries[p]: the document series that numbers p
  Series,
  Requests,         \* HTTP requests
  Kind, Paper,      \* Kind[r]: the operation; Paper[r]: what it is about
  Mixes,            \* the sets of requests that arrive together
  None

Kinds    == {"sale", "cancel", "confirm", "void", "send", "receive", "withdraw"}
Standing == {"none", "draft", "pending", "live", "ended"}
States   == {"absent", "available", "sold", "in_transit", "removed"}
Phases   == {"new", "checked", "reserved", "held", "open", "done"}
Change   == {-1, 1}

ASSUME SerialsAssumption == IsFiniteSet(Serials)
ASSUME ShelfAssumption == Shelf \in [Serials -> Branches \cup {None}]
ASSUME PaperAssumption ==
  /\ Branch \in [Papers -> Branches]
  /\ Destination \in [Papers -> Branches]
  /\ Direction \in [Papers -> {"IN", "OUT"}]
  /\ Listed \in [Papers -> Serials \cup {None}]
  /\ DocSeries \in [Papers -> Series]
ASSUME RequestAssumption ==
  /\ Kind \in [Requests -> Kinds]
  /\ Paper \in [Requests -> Papers]
  /\ Mixes \subseteq SUBSET Requests
\* What a paper is decides which operations name it.
Family(kind) ==
  IF kind \in {"sale", "cancel"} THEN "sale"
  ELSE IF kind \in {"confirm", "void"} THEN "document" ELSE "transfer"

ASSUME FamilyAssumption ==
  \A r, q \in Requests : Paper[r] = Paper[q] => Family(Kind[r]) = Family(Kind[q])
ASSUME NoneAssumption == None \notin Branches \cup Serials \cup Papers

VARIABLES
  stock,    \* tenant_product_stocks.quantity of each branch
  serial,   \* tenant_product_serials: branch, status and sale_item_id
  next,     \* tenant_document_series.correlative
  standing, \* status of a paper; "none": no row yet
  number,   \* correlative of a paper; 0: none
  cargo,    \* cargo[p]: the serial in a transfer's log or on a document's line
  kardex,   \* tenant_stock_movements
  at,       \* where request r is
  pick,     \* pick[r]: the serial a sale asks for
  got,      \* got[r]: the correlative ReserveNext returned
  view,     \* view[r]: the snapshot of r's transaction, or None
  missed,   \* history: <<r, q>>: r wrote a quantity read before q's commit
  outrun    \* history: requests that committed on a status no longer true

tables == <<stock, serial, next, standing, number, cargo, kardex>>
local  == <<at, pick, got, view>>
ghosts == <<missed, outrun>>
stockVars == <<tables, local, ghosts>>

Sale(p) == {r \in Requests : Paper[r] = p /\ Kind[r] = "sale"}

\* The row of a paper when the system starts: documents are drafts already.
Draft(p) == \E r \in Requests : Paper[r] = p /\ Kind[r] \in {"confirm", "void"}

\* A document names a serial, and an entry inserts a row of its own: the table
\* has no unique index, so a serial is the row and not its text.
ASSUME LineAssumption ==
  /\ \A p \in Papers : Draft(p) => Listed[p] \in Serials
  /\ \A p, q \in Papers :
       /\ Draft(p) /\ Direction[p] = "IN"
       /\ Draft(q) /\ Direction[q] = "IN"
       /\ Listed[p] = Listed[q]
       => p = q

Available(ser, b) ==
  {x \in Serials : ser[x].branch = b /\ ser[x].status = "available"}

StockInit ==
  /\ stock = [b \in Branches |-> Cardinality({x \in Serials : Shelf[x] = b})]
  /\ serial = [x \in Serials |->
       [branch |-> Shelf[x], sale |-> None,
        status |-> IF Shelf[x] = None THEN "absent" ELSE "available"]]
  /\ next = [s \in Series |-> 1]
  /\ standing = [p \in Papers |-> IF Draft(p) THEN "draft" ELSE "none"]
  /\ number = [p \in Papers |-> 0]
  /\ cargo = Listed
  /\ kardex = {}
  /\ at \in {[r \in Requests |-> IF r \in mix THEN "new" ELSE "done"] : mix \in Mixes}
  /\ pick = [r \in Requests |-> None]
  /\ got = [r \in Requests |-> 0]
  /\ view = [r \in Requests |-> None]
  /\ missed = {}
  /\ outrun = {}

-----------------------------------------------------------------------------
\* Row locks, held from the locking read to the end of the transaction.

\* Mutant: ReserveNextStandalone, a correlative in a transaction of its own.
HoldsStandalone(r) == Kind[r] = "sale" /\ at[r] = "reserved"

\* The row of the document series, locked by ReserveNext.
HoldsSeries(r) ==
  \/ Kind[r] = "sale" /\ at[r] \in {"reserved", "open"}
  \/ Kind[r] = "confirm" /\ at[r] = "open"

\* The row of an inventory document, locked by confirm and void.
HoldsRow(r) == Kind[r] \in {"confirm", "void"} /\ at[r] \in {"held", "open"}

SeriesFree(s) == \A q \in Requests : HoldsSeries(q) => DocSeries[Paper[q]] # s
RowFree(p)    == \A q \in Requests : HoldsRow(q) => Paper[q] # p

Go(r, phase) == at' = [at EXCEPT ![r] = phase]

\* The first plain read of a transaction fixes what it will see.
Snapshot(r) ==
  view' = [view EXCEPT ![r] = [stock |-> stock, serial |-> serial, kardex |-> kardex]]

Forget(r) == view' = [view EXCEPT ![r] = None]

\* Mutant: the series is read without FOR UPDATE.
ReserveUnlocked(r) == got' = [got EXCEPT ![r] = next[DocSeries[Paper[r]]]]

\* ReserveNext: SELECT ... FOR UPDATE of the series; the increment shows at
\* COMMIT.
Reserve(r) ==
  LET s == DocSeries[Paper[r]] IN
  /\ SeriesFree(s)
  /\ got' = [got EXCEPT ![r] = next[s]]

\* Mutant: "in" takes the branch of "adjustment", whose quantity is the balance.
RecordAdjusts(r, b, d) ==
  /\ view[r].stock[b] + d >= 0
  /\ stock' = [stock EXCEPT ![b] = IF d = 1 THEN 1 ELSE view[r].stock[b] + d]
  /\ kardex' = kardex \cup {[req |-> r, branch |-> b, change |-> d]}
  /\ missed' = missed \cup
       {<<r, m.req>> : m \in {m \in kardex \ view[r].kardex : m.branch = b}}

\* UPDATE of the row of serial x, kept in branch b by its WHERE clause.
Put(x, b, status, sale) ==
  serial' = [serial EXCEPT ![x] = [branch |-> b, status |-> status, sale |-> sale]]

\* RecordMovementTx with the stock row r saw: the balance is written whole.
Record(r, b, d) ==
  /\ view[r].stock[b] + d >= 0
  /\ stock' = [stock EXCEPT ![b] = view[r].stock[b] + d]
  /\ kardex' = kardex \cup {[req |-> r, branch |-> b, change |-> d]}
  /\ missed' = missed \cup
       {<<r, m.req>> : m \in {m \in kardex \ view[r].kardex : m.branch = b}}

\* The paper's new status, and its number if the transaction reserved one.
Close(r, status) ==
  LET p == Paper[r] IN
  /\ standing' = [standing EXCEPT ![p] = status]
  /\ Go(r, "done")
  /\ Forget(r)
  /\ IF HoldsSeries(r)
     THEN /\ next' = [next EXCEPT ![DocSeries[p]] = got[r] + 1]
          /\ number' = [number EXCEPT ![p] = got[r]]
     ELSE UNCHANGED <<next, number>>
  /\ UNCHANGED <<pick, got>>

\* COMMIT after a check made outside: the status may have changed since.
CloseChecked(r, seen, status) ==
  /\ outrun' = IF standing[Paper[r]] = seen THEN outrun ELSE outrun \cup {r}
  /\ Close(r, status)

-----------------------------------------------------------------------------
\* SaleService.Create.

\* Checks before the transaction: the idempotency key, the stock, the serial.
SaleArrives(r) ==
  /\ Kind[r] = "sale" /\ at[r] = "new"
  /\ LET b == Branch[Paper[r]] IN
     IF standing[Paper[r]] # "none" \/ stock[b] < 1 \/ Available(serial, b) = {}
     THEN Go(r, "done") /\ UNCHANGED pick
     ELSE /\ \E x \in Available(serial, b) : pick' = [pick EXCEPT ![r] = x]
          /\ Go(r, "checked")
  /\ UNCHANGED <<tables, got, view, ghosts>>

SaleReserves(r) ==
  /\ Kind[r] = "sale" /\ at[r] = "checked"
  /\ Reserve(r)
  /\ Go(r, "reserved")
  /\ UNCHANGED <<tables, pick, view, ghosts>>

\* Mutant: idempotency_key without its unique index.
SaleInsertsAnyway(r) ==
  /\ Kind[r] = "sale" /\ at[r] = "reserved"
  /\ Go(r, "open")
  /\ Snapshot(r)
  /\ UNCHANGED <<tables, pick, got, ghosts>>

\* INSERT of the sale: it waits for an uncommitted row with the same key and
\* fails on a committed one (the whole transaction rolls back and the winner
\* is returned).  The plain reads that follow see what is committed by then.
SaleInserts(r) ==
  /\ Kind[r] = "sale" /\ at[r] = "reserved"
  /\ \A q \in Sale(Paper[r]) : at[q] # "open"
  /\ IF standing[Paper[r]] # "none"
     THEN Go(r, "done") /\ UNCHANGED view
     ELSE Go(r, "open") /\ Snapshot(r)
  /\ UNCHANGED <<tables, pick, got, ghosts>>

\* The serial is looked up in the snapshot; the UPDATE names product, branch
\* and serial, not the status.
SaleCommits(r) ==
  LET p == Paper[r]  b == Branch[p]  x == pick[r] IN
  /\ Kind[r] = "sale" /\ at[r] = "open"
  /\ x \in Available(view[r].serial, b)
  /\ Record(r, b, -1)
  /\ IF serial[x].branch = b THEN Put(x, b, "sold", p) ELSE UNCHANGED serial
  /\ Close(r, "live")
  /\ UNCHANGED <<cargo, outrun>>

-----------------------------------------------------------------------------
\* Operations that check a status and then open a transaction: Cancel and
\* CancelNotaVenta, ConfirmTransfer, CancelTransfer.

Expected(kind) == CASE kind = "cancel" -> "live" [] OTHER -> "pending"

Checks(r) ==
  /\ Kind[r] \in {"cancel", "receive", "withdraw"} /\ at[r] = "new"
  /\ Go(r, IF standing[Paper[r]] = Expected(Kind[r]) THEN "checked" ELSE "done")
  /\ UNCHANGED <<tables, pick, got, view, ghosts>>

Opens(r) ==
  /\ \/ Kind[r] \in {"cancel", "receive", "withdraw"} /\ at[r] = "checked"
     \/ Kind[r] = "send" /\ at[r] = "new"
  /\ Go(r, "open")
  /\ Snapshot(r)
  /\ UNCHANGED <<tables, pick, got, ghosts>>

\* Mutant: the serials of the sale stay sold.
CancelKeepsSerials(r) ==
  /\ Kind[r] = "cancel" /\ at[r] = "open"
  /\ Record(r, Branch[Paper[r]], 1)
  /\ CloseChecked(r, "live", "ended")
  /\ UNCHANGED <<serial, cargo>>

\* restoreStockFromKardexTx and releaseSerialsForSaleTx.
CancelCommits(r) ==
  LET p == Paper[r] IN
  /\ Kind[r] = "cancel" /\ at[r] = "open"
  /\ Record(r, Branch[p], 1)
  /\ serial' = [x \in Serials |->
       IF serial[x].sale = p
       THEN [branch |-> serial[x].branch, status |-> "available", sale |-> None]
       ELSE serial[x]]
  /\ CloseChecked(r, "live", "ended")
  /\ UNCHANGED cargo

\* CreateTransferWithLines: stock leaves the origin, a serial is in transit.
SendCommits(r) ==
  LET p == Paper[r]  b == Branch[p] IN
  /\ Kind[r] = "send" /\ at[r] = "open"
  /\ Record(r, b, -1)
  /\ \E x \in Available(view[r].serial, b) :
       /\ cargo' = [cargo EXCEPT ![p] = x]
       /\ IF serial[x].branch = b THEN Put(x, b, "in_transit", serial[x].sale)
          ELSE UNCHANGED serial
  /\ Close(r, "pending")
  /\ UNCHANGED outrun

\* UPDATE ... WHERE serial, branch = origin and status = 'in_transit'.
Unload(p, b) ==
  LET x == cargo[p] IN
  IF serial[x].branch = Branch[p] /\ serial[x].status = "in_transit"
  THEN Put(x, b, "available", serial[x].sale) ELSE UNCHANGED serial

\* ConfirmTransfer.
ReceiveCommits(r) ==
  LET p == Paper[r] IN
  /\ Kind[r] = "receive" /\ at[r] = "open"
  /\ Unload(p, Destination[p])
  /\ Record(r, Destination[p], 1)
  /\ CloseChecked(r, "pending", "live")
  /\ UNCHANGED cargo

\* CancelTransfer.
WithdrawCommits(r) ==
  LET p == Paper[r] IN
  /\ Kind[r] = "withdraw" /\ at[r] = "open"
  /\ Unload(p, Branch[p])
  /\ Record(r, Branch[p], 1)
  /\ CloseChecked(r, "pending", "ended")
  /\ UNCHANGED cargo

-----------------------------------------------------------------------------
\* Inventory documents: the row is locked first and its status read there.

Locks(r) ==
  /\ Kind[r] \in {"confirm", "void"} /\ at[r] = "new"
  /\ RowFree(Paper[r])
  /\ IF standing[Paper[r]] = (IF Kind[r] = "confirm" THEN "draft" ELSE "live")
     THEN Go(r, IF Kind[r] = "confirm" THEN "held" ELSE "open") /\ Snapshot(r)
     ELSE Go(r, "done") /\ UNCHANGED view
  /\ UNCHANGED <<tables, pick, got, ghosts>>

\* The snapshot is older than the lock of the series.
ConfirmReserves(r) ==
  /\ Kind[r] = "confirm" /\ at[r] = "held"
  /\ Reserve(r)
  /\ Go(r, "open")
  /\ UNCHANGED <<tables, pick, view, ghosts>>

\* applySerialsInTx, applySerialsOutTx and applySerialsRestoreOnVoidTx: the
\* state the serial must have in the snapshot, and the one it gets.  The
\* UPDATEs name product, branch and serial.
Shift(r, from, to) ==
  LET p == Paper[r]  x == cargo[p]  b == Branch[p] IN
  /\ view[r].serial[x].status = from
  /\ from # "absent" => view[r].serial[x].branch = b
  /\ IF from = "absent" \/ serial[x].branch = b
     THEN Put(x, b, to, serial[x].sale) ELSE UNCHANGED serial

DocumentCommits(r) ==
  LET p == Paper[r]  b == Branch[p] IN
  /\ Kind[r] \in {"confirm", "void"} /\ at[r] = "open"
  /\ CASE Kind[r] = "confirm" /\ Direction[p] = "IN" ->
            Shift(r, "absent", "available") /\ Record(r, b, 1)
       [] Kind[r] = "confirm" /\ Direction[p] = "OUT" ->
            Shift(r, "available", "removed") /\ Record(r, b, -1)
       [] Kind[r] = "void" /\ Direction[p] = "IN" ->
            Shift(r, "available", "removed") /\ Record(r, b, -1)
       [] OTHER ->
            Shift(r, "removed", "available") /\ Record(r, b, 1)
  /\ Close(r, IF Kind[r] = "confirm" THEN "live" ELSE "ended")
  /\ UNCHANGED <<cargo, outrun>>

\* ROLLBACK: a check on the snapshot failed, InnoDB chose the transaction to
\* break a deadlock, or the connection or the process was lost.
RollsBack(r) ==
  /\ at[r] \in {"reserved", "held", "open"}
  /\ Go(r, "done")
  /\ Forget(r)
  /\ UNCHANGED <<tables, pick, got, ghosts>>

-----------------------------------------------------------------------------
StockNext ==
  \E r \in Requests :
    \/ SaleArrives(r) \/ SaleReserves(r) \/ SaleInserts(r) \/ SaleCommits(r)
    \/ Checks(r) \/ Opens(r) \/ CancelCommits(r) \/ SendCommits(r)
    \/ ReceiveCommits(r) \/ WithdrawCommits(r)
    \/ Locks(r) \/ ConfirmReserves(r) \/ DocumentCommits(r) \/ RollsBack(r)

StockSpec == StockInit /\ [][StockNext]_stockVars

-----------------------------------------------------------------------------
Rows == [req : Requests, branch : Branches, change : Change]
SerialRows == [branch : Branches \cup {None}, sale : Papers \cup {None}, status : States]
Views == [stock : [Branches -> Nat], serial : [Serials -> SerialRows],
          kardex : SUBSET Rows]

\* Type invariant; a quantity is never negative: RecordMovementTx refuses a
\* balance below zero.
StockTypeOK ==
  /\ stock \in [Branches -> Nat]
  /\ serial \in [Serials -> SerialRows]
  /\ next \in [Series -> Nat \ {0}]
  /\ standing \in [Papers -> Standing]
  /\ number \in [Papers -> Nat]
  /\ cargo \in [Papers -> Serials \cup {None}]
  /\ kardex \subseteq Rows
  /\ at \in [Requests -> Phases]
  /\ pick \in [Requests -> Serials \cup {None}]
  /\ got \in [Requests -> Nat]
  /\ view \in [Requests -> Views \cup {None}]
  /\ missed \subseteq Requests \X Requests
  /\ outrun \subseteq Requests

\* The correlatives of a series are 1 .. next - 1, each on one paper: neither
\* a rollback nor a lost race leaves a gap or repeats a number, sales and
\* inventory documents alike (docseries.ReserveNext).
NumbersGapless ==
  \A s \in Series :
    LET numbered == {p \in Papers : DocSeries[p] = s /\ number[p] # 0} IN
    /\ {number[p] : p \in numbered} = 1 .. next[s] - 1
    /\ \A p, q \in numbered : number[p] = number[q] => p = q

\* A sale never writes over the stock movement of another sale of its series:
\* it reads after it holds the row of the series (SaleService.Create).
SameSeriesNeverOverwrite ==
  \A r, q \in Requests :
    /\ <<r, q>> \in missed
    /\ Kind[r] = "sale" /\ Kind[q] = "sale"
    => DocSeries[Paper[r]] # DocSeries[Paper[q]]

\* A charge sent again with its key, a document confirmed again and one voided
\* again move stock once (unique key of tenant_sales; FOR UPDATE of the row).
MovesOnce ==
  \A m, n \in kardex :
    /\ Kind[m.req] \in {"sale", "confirm", "void"}
    /\ Kind[m.req] = Kind[n.req] /\ Paper[m.req] = Paper[n.req]
    => m = n

Moves(b, d) == Cardinality({m \in kardex : m.branch = b /\ m.change = d})

NoAnomaly == missed = {} /\ outrun = {}

\* Unless a transaction wrote a quantity it had read before another's commit,
\* or committed on a status that was no longer true, the quantity of a branch
\* is its opening stock plus what the kardex says (RecordMovementTx).
StockIsKardex ==
  missed = {} =>
    \A b \in Branches :
      stock[b] = Cardinality({x \in Serials : Shelf[x] = b}) + Moves(b, 1) - Moves(b, -1)

\* Under the same condition the quantity of a branch is its serials available.
SerialsMatchStock ==
  NoAnomaly => \A b \in Branches : stock[b] = Cardinality(Available(serial, b))

\* "el guard definitivo contra sobreventa vive en RecordMovementTx": a branch
\* never sells more than came in.
NeverOversold ==
  \A b \in Branches :
    Cardinality({x \in Serials : Shelf[x] = b}) + Moves(b, 1) >= Moves(b, -1)
=============================================================================
