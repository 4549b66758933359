---------------------------- MODULE TableSession ----------------------------
(***************************************************************************)
(* The tables of a restaurant (internal/restaurant/service): sessions that *)
(* are opened, ordered on, moved, billed whole or in parts, closed and     *)
(* cancelled by waiters and cashiers at the same time, on MySQL under      *)
(* REPEATABLE READ.                                                        *)
(*                                                                         *)
(* A handler is the checks it makes before its transaction, the locking    *)
(* reads it waits for, with the snapshot its plain reads see, and its      *)
(* writes with COMMIT.  The unique index ux_open_session_per_table, a      *)
(* second line behind these locks, is left out.                            *)
(***************************************************************************)
EXTENDS Integers, FiniteSets

CONSTANTS
  Tables, Sessions,
  Lines,            \* comandas; each is ordered with Units units
  Units,
  Requests, Kind,   \* HTTP requests and the operation of each
  Table,            \* Table[r]: the table r opens or moves a session to
  NewSession,       \* NewSession[r]: the session an open creates
  NewLine,          \* NewLine[r]: the comanda an order creates
  Discount,         \* Discount[r]: the global discount of the sale of a bill
  Seated,           \* Seated[s]: the table of s when the requests arrive, or None
  Served,           \* Served[l]: the session of l by then, or None
  Mixes,            \* the sets of requests that arrive together
  None

Bills  == {"bill", "keep", "split", "part"}
Kinds  == {"open", "order", "move", "close", "drop", "cancel"} \cup Bills
Phases == {"new", "checked", "held", "open", "done"}
States == {"none", "pending", "billed", "cancelled", "gone"}

ASSUME UnitsAssumption == Units \in Nat \ {0}
ASSUME SeatedAssumption ==
  /\ Seated \in [Sessions -> Tables \cup {None}]
  /\ \A s, z \in Sessions : Seated[s] = Seated[z] /\ Seated[s] # None => s = z
  /\ Served \in [Lines -> Sessions \cup {None}]
  /\ \A l \in Lines : Served[l] # None => Seated[Served[l]] # None
ASSUME RequestAssumption ==
  /\ IsFiniteSet(Requests) /\ IsFiniteSet(Lines)
  /\ Kind \in [Requests -> Kinds]
  /\ Table \in [Requests -> Tables]
  /\ NewSession \in [Requests -> Sessions]
  /\ NewLine \in [Requests -> Lines]
  /\ Mixes \subseteq SUBSET Requests
ASSUME NewAssumption ==
  \A r, q \in Requests :
    /\ Kind[r] = "open" => Seated[NewSession[r]] = None
    /\ Kind[r] = "order" => Served[NewLine[r]] = None
    /\ Kind[r] = "open" /\ Kind[q] = "open" /\ NewSession[r] = NewSession[q] => r = q
    /\ Kind[r] = "order" /\ Kind[q] = "order" /\ NewLine[r] = NewLine[q] => r = q
ASSUME DiscountAssumption ==
  /\ DOMAIN Discount = Requests
  /\ \A r \in Requests : Discount[r].percent \in BOOLEAN /\ Discount[r].value \in Nat
ASSUME NoneAssumption == None \notin Tables \cup Sessions

VARIABLES
  session,  \* tenant_table_sessions: status and table_id
  display,  \* tenant_restaurant_tables.status
  line,     \* tenant_comandas: session, state and quantity
  amount,   \* total_amount of each session
  counter,  \* last_number of the branch's day
  number,   \* order_number of the order that made a comanda; 0: not by a request
  at,       \* where request r is
  pick,     \* pick[r]: what r read before its transaction and acts on
  view,     \* view[r]: the snapshot of r's transaction, or None
  got,      \* got[r]: the number reserveDailyComandaNumber gave it
  bills,    \* history: what each sale charged: request, comanda, units
  ended,    \* history: requests that committed
  since,    \* history: since[r]: those ended when r made its first check
  strayed,  \* history: tables of a session that moved under a close or cancel
  overwritten  \* history: sessions whose total a cancellation wrote over a newer one

tables == <<session, display, line, amount, counter, number>>
local  == <<at, pick, view, got>>
ghosts == <<bills, ended, since, strayed, overwritten>>
tableVars == <<tables, local, ghosts>>

NoPick == [session |-> None, table |-> None, lines |-> {}, close |-> FALSE]

TableInit ==
  /\ session = [s \in Sessions |->
       [status |-> IF Seated[s] = None THEN "none" ELSE "open", table |-> Seated[s]]]
  /\ display = [t \in Tables |->
       IF \E s \in Sessions : Seated[s] = t THEN "ocupada" ELSE "libre"]
  /\ line = [l \in Lines |->
       [session |-> Served[l], state |-> IF Served[l] = None THEN "none" ELSE "pending",
        left |-> Units]]
  /\ amount = [s \in Sessions |-> Units * Cardinality({l \in Lines : Served[l] = s})]
  /\ counter = 0
  /\ number = [l \in Lines |-> 0]
  /\ at \in {[r \in Requests |-> IF r \in mix THEN "new" ELSE "done"] : mix \in Mixes}
  /\ pick = [r \in Requests |-> NoPick]
  /\ view = [r \in Requests |-> None]
  /\ got = [r \in Requests |-> 0]
  /\ bills = {} /\ ended = {} /\ strayed = {} /\ overwritten = {}
  /\ since = [r \in Requests |-> {}]

-----------------------------------------------------------------------------
\* Row locks, from the locking read, or the first write, to the COMMIT.

HoldsSession(r, s) ==
  pick[r].session = s /\ at[r] \in {"held", "open"} /\ Kind[r] \in {"order", "move"} \cup Bills

HoldsTable(r, t) == Kind[r] = "open" /\ at[r] \in {"held", "open"} /\ Table[r] = t

HoldsLine(r, l) ==
  Kind[r] = "cancel" /\ at[r] = "open" /\ l \in {x.line : x \in pick[r].lines}

HoldsCounter(r) == Kind[r] = "order" /\ at[r] = "open"

SessionFree(r, s) == \A q \in Requests \ {r} : ~HoldsSession(q, s)
TableFree(r, t)   == \A q \in Requests \ {r} : ~HoldsTable(q, t)
LinesFree(r, ls)  == \A q \in Requests \ {r}, l \in ls : ~HoldsLine(q, l)

OpenAt(t, rows) == {s \in Sessions : rows[s].status = "open" /\ rows[s].table = t}
LinesOf(s) == {l \in Lines : line[l].session = s /\ line[l].state # "gone"}
PendingOf(s) == {l \in LinesOf(s) : line[l].state = "pending"}

\* syncTableStatusFromOpenSession: what it writes on table t.
Shown(t, rows) == IF OpenAt(t, rows) = {} THEN "libre" ELSE "ocupada"

Go(r, phase) == at' = [at EXCEPT ![r] = phase]

\* The first check, before any transaction, and what is read there.
Check(r, p) ==
  /\ Go(r, "checked")
  /\ pick' = [pick EXCEPT ![r] = p]
  /\ since' = [since EXCEPT ![r] = ended]
  /\ UNCHANGED <<tables, view, got, bills, ended, strayed, overwritten>>

Refuse(r) ==
  /\ Go(r, "done")
  /\ view' = [view EXCEPT ![r] = None]
  /\ UNCHANGED <<tables, pick, got, ghosts>>

\* A locking read is granted; the plain reads that follow see this state.
Hold(r) ==
  /\ Go(r, "held")
  /\ view' = [view EXCEPT ![r] = [session |-> session, line |-> line, amount |-> amount]]
  /\ UNCHANGED <<tables, got>>

Finish(r) ==
  /\ Go(r, "done")
  /\ ended' = ended \cup {r}
  /\ view' = [view EXCEPT ![r] = None]
  /\ UNCHANGED <<pick, got, since>>

-----------------------------------------------------------------------------
\* OpenTableExtended: the row of the table is locked first.

\* Mutant: the table is read without FOR UPDATE.
OpenReads(r) ==
  /\ Kind[r] = "open" /\ at[r] = "new"
  /\ Hold(r)
  /\ since' = [since EXCEPT ![r] = ended]
  /\ UNCHANGED <<pick, bills, ended, strayed, overwritten>>

OpenLocks(r) ==
  /\ Kind[r] = "open" /\ at[r] = "new"
  /\ TableFree(r, Table[r])
  /\ Hold(r)
  /\ since' = [since EXCEPT ![r] = ended]
  /\ UNCHANGED <<pick, bills, ended, strayed, overwritten>>

\* findOpenSessionForTableLocked waits for a session of the table that another
\* transaction holds; it finds one to return, or there is none.
OpenFinds(r) ==
  LET t == Table[r] IN
  /\ Kind[r] = "open" /\ at[r] = "held"
  /\ \A s \in OpenAt(t, session) : SessionFree(r, s)
  /\ IF OpenAt(t, session) = {} THEN Go(r, "open") /\ UNCHANGED <<display, ended, view>>
     ELSE /\ display' = [display EXCEPT ![t] = "ocupada"]
          /\ Go(r, "done")
          /\ ended' = ended \cup {r}
          /\ view' = [view EXCEPT ![r] = None]
  /\ UNCHANGED <<session, line, amount, counter, number, pick, got, bills, since, strayed, overwritten>>

OpenInserts(r) ==
  LET s == NewSession[r]
      rows == [session EXCEPT ![s] = [status |-> "open", table |-> Table[r]]] IN
  /\ Kind[r] = "open" /\ at[r] = "open"
  /\ session' = rows
  /\ display' = [display EXCEPT ![Table[r]] = Shown(Table[r], rows)]
  /\ Finish(r)
  /\ UNCHANGED <<line, amount, counter, number, bills, strayed, overwritten>>

-----------------------------------------------------------------------------
\* AddOrder: the row of the session is locked, then the counter of the day.

\* Mutant: the status is read before the transaction.
OrderReads(r) ==
  /\ Kind[r] = "order" /\ at[r] = "new"
  /\ \E s \in Sessions :
       /\ session[s].status = "open"
       /\ pick' = [pick EXCEPT ![r] = [NoPick EXCEPT !.session = s]]
  /\ Hold(r)
  /\ since' = [since EXCEPT ![r] = ended]
  /\ UNCHANGED <<bills, ended, strayed, overwritten>>

OrderLocks(r) ==
  /\ Kind[r] = "order" /\ at[r] = "new"
  /\ \E s \in Sessions :
       /\ session[s].status = "open" /\ SessionFree(r, s)
       /\ pick' = [pick EXCEPT ![r] = [NoPick EXCEPT !.session = s]]
  /\ Hold(r)
  /\ since' = [since EXCEPT ![r] = ended]
  /\ UNCHANGED <<bills, ended, strayed, overwritten>>

\* Mutant: MAX(order_number) + 1 without a lock.
OrderNumbersByMax(r) ==
  /\ Kind[r] = "order" /\ at[r] = "held"
  /\ got' = [got EXCEPT ![r] = counter + 1]
  /\ Go(r, "open")
  /\ UNCHANGED <<tables, pick, view, ghosts>>

\* reserveDailyComandaNumber.
OrderNumbers(r) ==
  /\ Kind[r] = "order" /\ at[r] = "held"
  /\ \A q \in Requests : ~HoldsCounter(q)
  /\ got' = [got EXCEPT ![r] = counter + 1]
  /\ Go(r, "open")
  /\ UNCHANGED <<tables, pick, view, ghosts>>

OrderCommits(r) ==
  LET s == pick[r].session  l == NewLine[r] IN
  /\ Kind[r] = "order" /\ at[r] = "open"
  /\ line' = [line EXCEPT ![l] = [session |-> s, state |-> "pending", left |-> Units]]
  /\ amount' = [amount EXCEPT ![s] = @ + Units]
  /\ counter' = got[r]
  /\ number' = [number EXCEPT ![l] = got[r]]
  /\ Finish(r)
  /\ UNCHANGED <<session, display, bills, strayed, overwritten>>

-----------------------------------------------------------------------------
\* BillTable: everything pending ("bill" closes the session, "keep" leaves it
\* open), some comandas whole ("split") or one unit of one ("part").

Charged(ls, part) ==
  {[line |-> l, units |-> IF part THEN 1 ELSE line[l].left] : l \in ls}

BillChecks(r) ==
  /\ Kind[r] \in Bills /\ at[r] = "new"
  /\ \E s \in Sessions : \E ls \in (SUBSET PendingOf(s)) \ {{}} :
       /\ session[s].status = "open"
       /\ Kind[r] \in {"bill", "keep"} => ls = PendingOf(s)
       /\ Kind[r] = "part" => \E l \in ls : ls = {l} /\ line[l].left > 1
       /\ Check(r, [session |-> s, table |-> session[s].table,
                    lines |-> Charged(ls, Kind[r] = "part"),
                    close |-> Kind[r] = "bill" \/ (Kind[r] = "split" /\ ls = PendingOf(s))])

\* FOR UPDATE of the session and the guarded claim of its status.
BillLocks(r) ==
  LET s == pick[r].session IN
  /\ Kind[r] \in Bills /\ at[r] = "checked"
  /\ SessionFree(r, s)
  /\ IF session[s].status = "open" THEN Hold(r) /\ UNCHANGED <<pick, ghosts>> ELSE Refuse(r)

Sold(r) == {[by |-> r, line |-> x.line, units |-> x.units] : x \in pick[r].lines}
Chosen(r) == {x.line : x \in pick[r].lines}

\* What the comandas a bill took come to, in units.
Charge(r) == Cardinality(UNION {{x.line} \X (1 .. x.units) : x \in pick[r].lines})

Least(m, n) == IF m < n THEN m ELSE n

\* CalcCheckoutDiscountAmount: a percentage of the base or an amount, never more
\* than the base.
CheckoutDiscount(base, d) ==
  IF d.percent THEN (base * Least(d.value, 100)) \div 100 ELSE Least(d.value, base)

\* The global discount of the sale of r.
GlobalDiscount(r) == CheckoutDiscount(Charge(r), Discount[r])

\* CalcSaleCheckout: what the sale of r comes to, tax and all.  A unit carries
\* its tax, and a discount takes a share of the base and with it of the tax.
SaleTotal(r) == Charge(r) - GlobalDiscount(r)

\* The total of the sale, not that of its comandas, off the session's; never
\* below zero.
LessSold(r) ==
  LET total == SaleTotal(r)
      s == pick[r].session IN
  [amount EXCEPT ![s] = IF @ > total THEN @ - total ELSE 0]

\* The session ends, its table is freed and every comanda of it deleted.
BillCloses(r) ==
  LET s == pick[r].session  t == session[s].table
      rows == [session EXCEPT ![s].status = "billed"] IN
  /\ Kind[r] \in Bills /\ at[r] = "held" /\ pick[r].close
  /\ TableFree(r, t) /\ LinesFree(r, LinesOf(s))
  /\ session' = rows
  /\ display' = [display EXCEPT ![t] = Shown(t, rows)]
  /\ line' = [l \in Lines |-> IF l \in LinesOf(s) THEN [line[l] EXCEPT !.state = "gone"]
                              ELSE line[l]]
  /\ bills' = bills \cup Sold(r)
  /\ Finish(r)
  /\ UNCHANGED <<amount, counter, number, strayed, overwritten>>

\* Mutant: billed_at is not written.
BillKeepsPending(r) ==
  /\ Kind[r] \in Bills \ {"part"} /\ at[r] = "held" /\ ~pick[r].close
  /\ LinesFree(r, Chosen(r))
  /\ amount' = LessSold(r)
  /\ bills' = bills \cup Sold(r)
  /\ Finish(r)
  /\ UNCHANGED <<line, session, display, counter, number, strayed, overwritten>>

\* The session stays open; UPDATE billed_at WHERE id IN (what was read).
BillKeeps(r) ==
  /\ Kind[r] \in Bills \ {"part"} /\ at[r] = "held" /\ ~pick[r].close
  /\ LinesFree(r, Chosen(r))
  /\ line' = [l \in Lines |-> IF l \in Chosen(r) /\ line[l].state = "pending"
                              THEN [line[l] EXCEPT !.state = "billed"] ELSE line[l]]
  /\ amount' = LessSold(r)
  /\ bills' = bills \cup Sold(r)
  /\ Finish(r)
  /\ UNCHANGED <<session, display, counter, number, strayed, overwritten>>

\* Part of a comanda: the row is read again and keeps what is left; the unit
\* goes to a row of its own, billed already.
BillPart(r) ==
  LET l == CHOOSE l \in Chosen(r) : TRUE
      seen == view[r].line[l] IN
  /\ Kind[r] = "part" /\ at[r] = "held"
  /\ LinesFree(r, {l})
  /\ IF seen.state # "pending" \/ seen.left < 2 THEN Refuse(r)
     ELSE /\ line' = [line EXCEPT ![l].left = seen.left - 1]
          /\ amount' = LessSold(r)
          /\ bills' = bills \cup Sold(r)
          /\ Finish(r)
          /\ UNCHANGED <<session, display, counter, number, strayed, overwritten>>

-----------------------------------------------------------------------------
\* MoveSessionTable.

MoveLocks(r) ==
  /\ Kind[r] = "move" /\ at[r] = "new"
  /\ \E s \in Sessions :
       /\ session[s].status = "open" /\ session[s].table # Table[r] /\ SessionFree(r, s)
       /\ pick' = [pick EXCEPT ![r] = [NoPick EXCEPT !.session = s]]
  /\ Hold(r)
  /\ since' = [since EXCEPT ![r] = ended]
  /\ UNCHANGED <<bills, ended, strayed, overwritten>>

MoveCommits(r) ==
  LET s == pick[r].session  old == session[s].table
      rows == [session EXCEPT ![s].table = Table[r]] IN
  /\ Kind[r] = "move" /\ at[r] = "held"
  /\ TableFree(r, Table[r]) /\ TableFree(r, old)
  /\ \A z \in OpenAt(Table[r], session) : SessionFree(r, z)
  /\ IF OpenAt(Table[r], session) # {} THEN Refuse(r)
     ELSE /\ session' = rows
          /\ display' = [t \in Tables |->
               IF t \in {old, Table[r]} THEN Shown(t, rows) ELSE display[t]]
          /\ Finish(r)
          /\ UNCHANGED <<line, amount, counter, number, bills, strayed, overwritten>>

-----------------------------------------------------------------------------
\* CloseSessionOnly and CancelSession: the status is checked, and the table
\* read, before the transaction.

EndChecks(r) ==
  /\ Kind[r] \in {"close", "drop"} /\ at[r] = "new"
  /\ \E s \in Sessions :
       /\ session[s].status = "open"
       /\ Check(r, [NoPick EXCEPT !.session = s, !.table = session[s].table])

\* The tables of a session that is no longer what the check saw, or was not
\* when the transaction began.
Stray(r) ==
  LET s == pick[r].session
      checked == [status |-> "open", table |-> pick[r].table] IN
  IF /\ session[s] = checked
     /\ Kind[r] = "drop" => view[r].session[s] = checked
  THEN {} ELSE {pick[r].table, session[s].table}

\* CloseSessionOnly: an UPDATE without a condition, and no comanda touched.
CloseCommits(r) ==
  LET s == pick[r].session  t == pick[r].table
      rows == IF session[s].status = "deleted" THEN session
              ELSE [session EXCEPT ![s].status = "closed"] IN
  /\ Kind[r] = "close" /\ at[r] = "checked"
  /\ SessionFree(r, s) /\ TableFree(r, t)
  /\ session' = rows
  /\ display' = [display EXCEPT ![t] = Shown(t, rows)]
  /\ strayed' = strayed \cup Stray(r)
  /\ Finish(r)
  /\ UNCHANGED <<line, amount, counter, number, bills, overwritten>>

\* CancelSession: its first read is a plain one.
DropOpens(r) ==
  /\ Kind[r] = "drop" /\ at[r] = "checked"
  /\ Hold(r)
  /\ UNCHANGED <<pick, ghosts>>

\* The rows are deleted; the table shows what the snapshot counts.
DropCommits(r) ==
  LET s == pick[r].session  t == pick[r].table IN
  /\ Kind[r] = "drop" /\ at[r] = "held"
  /\ SessionFree(r, s) /\ TableFree(r, t) /\ LinesFree(r, LinesOf(s))
  /\ session' = [session EXCEPT ![s].status = "deleted"]
  /\ display' = [display EXCEPT ![t] = Shown(t, [view[r].session EXCEPT ![s].status = "deleted"])]
  /\ line' = [l \in Lines |-> IF l \in LinesOf(s) THEN [line[l] EXCEPT !.state = "gone"]
                              ELSE line[l]]
  /\ strayed' = strayed \cup Stray(r)
  /\ Finish(r)
  /\ UNCHANGED <<amount, counter, number, bills, overwritten>>

-----------------------------------------------------------------------------
\* CancelComanda.

CancelChecks(r) ==
  /\ Kind[r] = "cancel" /\ at[r] = "new"
  /\ \E l \in Lines :
       /\ line[l].state = "pending"
       /\ Check(r, [NoPick EXCEPT !.session = line[l].session,
                                  !.lines = {[line |-> l, units |-> line[l].left]}])

\* The UPDATE of the comanda comes before the first plain read.
CancelOpens(r) ==
  /\ Kind[r] = "cancel" /\ at[r] = "checked"
  /\ LinesFree(r, Chosen(r))
  /\ Go(r, "open")
  /\ view' = [view EXCEPT ![r] = [session |-> session, line |-> line, amount |-> amount]]
  /\ UNCHANGED <<tables, pick, got, ghosts>>

\* Mutant: the total of the session is left as it was.
CancelKeepsAmount(r) ==
  /\ Kind[r] = "cancel" /\ at[r] = "open"
  /\ SessionFree(r, pick[r].session)
  /\ line' = [l \in Lines |-> IF l \in Chosen(r) /\ line[l].state = "pending"
                              THEN [line[l] EXCEPT !.state = "cancelled"] ELSE line[l]]
  /\ Finish(r)
  /\ UNCHANGED <<session, display, amount, counter, number, bills, strayed, overwritten>>

\* total_amount is written whole, from what the snapshot had.
CancelCommits(r) ==
  LET s == pick[r].session
      units == (CHOOSE x \in pick[r].lines : TRUE).units
      was == view[r].amount[s] IN
  /\ Kind[r] = "cancel" /\ at[r] = "open"
  /\ SessionFree(r, s)
  /\ line' = [l \in Lines |-> IF l \in Chosen(r) /\ line[l].state = "pending"
                              THEN [line[l] EXCEPT !.state = "cancelled"] ELSE line[l]]
  /\ amount' = [amount EXCEPT ![s] = IF was > units THEN was - units ELSE 0]
  /\ overwritten' = overwritten \cup (IF amount[s] = was THEN {} ELSE {s})
  /\ Finish(r)
  /\ UNCHANGED <<session, display, counter, number, bills, strayed>>

-----------------------------------------------------------------------------
\* ROLLBACK: a statement failed, InnoDB broke a deadlock, or the connection or
\* the process was lost.
Breaks(r) ==
  /\ at[r] \in {"checked", "held", "open"}
  /\ Refuse(r)

TableNext ==
  \E r \in Requests :
    \/ OpenLocks(r) \/ OpenFinds(r) \/ OpenInserts(r)
    \/ OrderLocks(r) \/ OrderNumbers(r) \/ OrderCommits(r)
    \/ BillChecks(r) \/ BillLocks(r) \/ BillCloses(r) \/ BillKeeps(r) \/ BillPart(r)
    \/ MoveLocks(r) \/ MoveCommits(r)
    \/ EndChecks(r) \/ CloseCommits(r) \/ DropOpens(r) \/ DropCommits(r)
    \/ CancelChecks(r) \/ CancelOpens(r) \/ CancelCommits(r)
    \/ Breaks(r)

TableSpec == TableInit /\ [][TableNext]_tableVars

-----------------------------------------------------------------------------
SessionRows == [status : {"none", "open", "billed", "closed", "deleted"},
                table : Tables \cup {None}]
LineRows == [session : Sessions \cup {None}, state : States, left : 1 .. Units]
Charges == [line : Lines, units : 1 .. Units]
Picks == [session : Sessions \cup {None}, table : Tables \cup {None},
          lines : SUBSET Charges, close : BOOLEAN]
Views == [session : [Sessions -> SessionRows], line : [Lines -> LineRows],
          amount : [Sessions -> Nat]]

\* Type invariant: among the rest, a comanda always keeps a unit or more and
\* the total of a session is never negative.
TableTypeOK ==
  /\ session \in [Sessions -> SessionRows]
  /\ display \in [Tables -> {"libre", "ocupada"}]
  /\ line \in [Lines -> LineRows]
  /\ amount \in [Sessions -> Nat]
  /\ counter \in Nat
  /\ number \in [Lines -> Nat]
  /\ at \in [Requests -> Phases]
  /\ pick \in [Requests -> Picks]
  /\ view \in [Requests -> Views \cup {None}]
  /\ got \in [Requests -> Nat]
  /\ bills \subseteq [by : Requests, line : Lines, units : 1 .. Units]
  /\ ended \subseteq Requests
  /\ since \in [Requests -> SUBSET Requests]
  /\ strayed \subseteq Tables \cup {None}
  /\ overwritten \subseteq Sessions \cup {None}

Concurrent(r, q) == q \notin since[r] /\ r \notin since[q]

\* A table has one open session, whoever opens it or moves another to it at
\* the same time (OpenTableExtended, MoveSessionTable).
OneOpenSession ==
  \A s, z \in Sessions :
    /\ session[s].status = "open" /\ session[z].status = "open"
    /\ session[s].table = session[z].table
    => s = z

\* A session billed whole keeps no comanda: an order is accepted before the
\* bill and deleted with the rest, or refused (AddOrder, BillTable).
BilledIsEmpty ==
  \A s \in Sessions : session[s].status = "billed" => LinesOf(s) = {}

\* Two orders of the day never carry one number, from whichever tables
\* (reserveDailyComandaNumber).
OrderNumbersUnique ==
  \A l, m \in Lines : number[l] # 0 /\ number[l] = number[m] => l = m

\* A table shows "ocupada" while it has an open session and "libre" when it
\* has none, unless a close or a cancellation wrote after the session it had
\* checked was moved or ended (syncTableStatusFromOpenSession).
TableShowsSession ==
  \A t \in Tables : t \notin strayed => display[t] = Shown(t, session)

\* The tables and the sessions agree (OpenTableExtended, MoveSessionTable,
\* BillTable, CloseSessionOnly, CancelSession).
TablesFollowSessions == OneOpenSession /\ TableShowsSession

UnitsOf(l, bs) ==
  Cardinality(UNION {{b.by} \X (1 .. b.units) : b \in {b \in bs : b.line = l}})

\* A comanda is charged once, unless a bill that took it whole met another:
\* both read it pending before either was committed.  Bills by unit never
\* exceed it, however they meet (BillTable).
ChargedOnce ==
  \A l \in Lines :
    UnitsOf(l, bills) > Units =>
      \E b, c \in bills :
        /\ b.line = l /\ c.line = l /\ b.by # c.by
        /\ Kind[b.by] # "part" /\ Concurrent(b.by, c.by)

\* A bill that closes the session deletes no comanda that nobody pays, but for
\* one ordered after the bill read what was pending (BillTable).
ClosedIsCharged ==
  \A l \in Lines :
    LET s == line[l].session IN
    line[l].state = "gone" /\ session[s].status = "billed" =>
      \/ UnitsOf(l, bills) >= Units
      \/ \E r \in ended : Kind[r] = "cancel" /\ l \in Chosen(r)
      \/ \E r, q \in ended : /\ Kind[r] = "order" /\ NewLine[r] = l
                             /\ pick[q].session = s /\ pick[q].close /\ r \notin since[q]

\* The units a session has pending.
Due(s) ==
  {p \in Lines \X (1 .. Units) :
     line[p[1]].session = s /\ line[p[1]].state = "pending" /\ p[2] <= line[p[1]].left}

\* The discounts of the sales that left session s open.
Discounted(s) ==
  UNION {{r} \X (1 .. GlobalDiscount(r)) :
           r \in {r \in ended : Kind[r] \in Bills /\ ~pick[r].close /\ pick[r].session = s}}

\* A bill or a cancellation, and another, took one comanda and neither saw what
\* the other did; bills by unit read it again.
Clashed(s) ==
  \E r, q \in ended :
    /\ r # q /\ pick[r].session = s /\ Chosen(r) \cap Chosen(q) # {}
    /\ {Kind[r], Kind[q]} \subseteq Bills \cup {"cancel"} /\ {Kind[r], Kind[q]} # {"part"}
    /\ Concurrent(r, q)

\* The total of an open session is what it has pending and, since a bill takes
\* the net total of its sale off it, every discount of the bills that left it
\* open: to the unit, whatever is ordered, charged in parts and cancelled at the
\* same time, unless a cancellation wrote over a total it had not seen or two
\* took one comanda together (AddOrder, BillTable, cancelComandaTx).
AmountAddsUp ==
  \A s \in Sessions :
    session[s].status = "open" =>
      \/ amount[s] = Cardinality(Due(s)) + Cardinality(Discounted(s))
      \/ s \in overwritten \/ Clashed(s)

\* The session of a sale that closed it is not deleted by a cancellation
\* checked after the bill (CancelSession).
SoldIsKept ==
  \A q \in ended : Kind[q] \in Bills /\ pick[q].close =>
    \/ session[pick[q].session].status # "deleted"
    \/ \E r \in ended : /\ Kind[r] = "drop" /\ pick[r].session = pick[q].session
                        /\ q \notin since[r]

\* A session billed whole is settled: charged, emptied and kept (BillTable,
\* AddOrder, CancelSession).
BilledSettles == BilledIsEmpty /\ ClosedIsCharged /\ SoldIsKept

\* "evita doble facturación en cobros parciales": no comanda is charged for
\* more than was ordered.
NeverChargedTwice == \A l \in Lines : UnitsOf(l, bills) <= Units
=============================================================================
