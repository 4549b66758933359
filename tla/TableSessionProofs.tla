------------------------- MODULE TableSessionProofs -------------------------
(***************************************************************************)
(* Proofs about TableSession, for any tables, sessions, comandas and       *)
(* requests: what the row locks guarantee although bills, closes and       *)
(* cancellations act on what they read before their transaction.           *)
(***************************************************************************)
EXTENDS TableSession, FiniteSetTheorems, TLAPS

\* A step of request r.
Step(r) ==
  \/ OpenLocks(r) \/ OpenFinds(r) \/ OpenInserts(r)
  \/ OrderLocks(r) \/ OrderNumbers(r) \/ OrderCommits(r)
  \/ BillChecks(r) \/ BillLocks(r) \/ BillCloses(r) \/ BillKeeps(r) \/ BillPart(r)
  \/ MoveLocks(r) \/ MoveCommits(r)
  \/ EndChecks(r) \/ CloseCommits(r) \/ DropOpens(r) \/ DropCommits(r)
  \/ CancelChecks(r) \/ CancelOpens(r) \/ CancelCommits(r)
  \/ Breaks(r)

Busy == {"checked", "held", "open"}

\* No table has two open sessions in rows.
One(rows) ==
  \A s, z \in Sessions :
    /\ rows[s].status = "open" /\ rows[z].status = "open"
    /\ rows[s].table = rows[z].table
    => s = z

\* A request in a transaction has a snapshot, in which no table had two open
\* sessions, and one that charges or cancels has something to.
Reading ==
  \A r \in Requests :
    /\ at[r] \in {"held", "open"} => view[r] \in Views /\ One(view[r].session)
    /\ Kind[r] \in Bills \cup {"cancel"} /\ at[r] \in Busy => pick[r].lines # {}

\* The locks exclude: a table, a session, the counter of the day.
Excluding ==
  \A r, q \in Requests :
    /\ \A t \in Tables : HoldsTable(r, t) /\ HoldsTable(q, t) => r = q
    /\ \A s \in Sessions : HoldsSession(r, s) /\ HoldsSession(q, s) => r = q
    /\ HoldsCounter(r) /\ HoldsCounter(q) => r = q

\* What a request found when it took its lock is still so, and a session it
\* names has been opened; the session an open will create has not.
Found ==
  \A r \in Requests :
    /\ Kind[r] \notin {"open", "cancel"} /\ at[r] \in Busy =>
         pick[r].session \in Sessions /\ session[pick[r].session].status # "none"
    /\ \A s \in Sessions : HoldsSession(r, s) => session[s].status = "open"
    /\ Kind[r] = "open" /\ at[r] = "open" => OpenAt(Table[r], session) = {}
    /\ Kind[r] = "open" /\ at[r] # "done" => session[NewSession[r]].status = "none"

\* A reserved number is the next one.
Numbered ==
  /\ \A l \in Lines : number[l] <= counter
  /\ \A r \in Requests : HoldsCounter(r) => got[r] = counter + 1

TableInv ==
  /\ TableTypeOK
  /\ Reading
  /\ Excluding
  /\ Found
  /\ Numbered
  /\ OneOpenSession
  /\ BilledIsEmpty
  /\ OrderNumbersUnique
  /\ TableShowsSession

-----------------------------------------------------------------------------
\* A step of r moves only r.
LEMMA Locality ==
  ASSUME TableTypeOK, NEW r \in Requests, Step(r), NEW q \in Requests, q # r
  PROVE  /\ at'[q] = at[q] /\ pick'[q] = pick[q]
         /\ view'[q] = view[q] /\ got'[q] = got[q]
BY DEF TableTypeOK, Step, local, tables, ghosts, Go, Check, Refuse, Hold, Finish,
       OpenLocks, OpenFinds, OpenInserts, OrderLocks, OrderNumbers, OrderCommits,
       BillChecks, BillLocks, BillCloses, BillKeeps, BillPart, MoveLocks, MoveCommits,
       EndChecks, CloseCommits, DropOpens, DropCommits,
       CancelChecks, CancelOpens, CancelCommits, Breaks

\* The steps that change a session.
Rewrites(r) ==
  OpenInserts(r) \/ BillCloses(r) \/ MoveCommits(r) \/ CloseCommits(r) \/ DropCommits(r)

LEMMA SessionsKept ==
  ASSUME NEW r \in Requests, Step(r), ~Rewrites(r) PROVE session' = session
BY DEF Step, Rewrites, tables, Go, Check, Refuse, Hold, Finish,
       OpenLocks, OpenFinds, OrderLocks, OrderNumbers, OrderCommits,
       BillChecks, BillLocks, BillKeeps, BillPart, MoveLocks,
       EndChecks, DropOpens, CancelChecks, CancelOpens, CancelCommits, Breaks

-----------------------------------------------------------------------------
\* Type correctness.

\* A discount takes no more than there is.
LEMMA DiscountFits ==
  ASSUME NEW base \in Nat, NEW d, d.percent \in BOOLEAN, d.value \in Nat
  PROVE  CheckoutDiscount(base, d) \in Nat /\ CheckoutDiscount(base, d) <= base
<1>1. CASE ~d.percent
  BY <1>1 DEF CheckoutDiscount, Least
<1>2. CASE d.percent
  <2> DEFINE v == Least(d.value, 100)
             n == base * v
  <2>1. v \in Nat /\ v <= 100
    BY DEF Least
  <2> HIDE DEF v
  <2>2. n \in Nat /\ n <= base * 100
    <3>1. \A b, x, y \in Nat : x <= y => b * x \in Nat /\ b * x <= b * y
      OBVIOUS
    <3> QED
      BY <2>1, <3>1
  <2> HIDE DEF n
  <2>3. n \div 100 \in Nat /\ 100 * (n \div 100) <= n
    BY <2>2
  <2>4. CheckoutDiscount(base, d) = n \div 100
    BY <1>2 DEF CheckoutDiscount, n, v
  <2>5. \A q \in Nat : 100 * q <= base * 100 => q <= base
    OBVIOUS
  <2> QED
    BY <2>2, <2>3, <2>4, <2>5
<1> QED
  BY <1>1, <1>2

LEMMA ChargeType ==
  ASSUME TableTypeOK, NEW r \in Requests
  PROVE  /\ Charge(r) \in Nat /\ GlobalDiscount(r) \in Nat /\ GlobalDiscount(r) <= Charge(r)
<1> DEFINE units == UNION {{x.line} \X (1 .. x.units) : x \in pick[r].lines}
<1>1. units \subseteq Lines \X (1 .. Units)
  BY UnitsAssumption DEF TableTypeOK, Picks, Charges
<1>2. IsFiniteSet(Lines \X (1 .. Units))
  <2>1. IsFiniteSet(1 .. Units)
    BY UnitsAssumption, FS_Interval
  <2>2. IsFiniteSet(Lines)
    BY RequestAssumption
  <2> QED
    BY <2>1, <2>2, FS_Product
<1> HIDE DEF units
<1>3. Charge(r) \in Nat
  <2>1. Cardinality(units) \in Nat
    BY <1>1, <1>2, FS_Subset, FS_CardinalityType
  <2> QED
    BY <2>1 DEF Charge, units
<1> QED
  BY <1>3, DiscountFits, DiscountAssumption DEF GlobalDiscount

LEMMA LessSoldType ==
  ASSUME TableTypeOK, NEW r \in Requests
  PROVE  LessSold(r) \in [Sessions -> Nat]
<1> DEFINE total == Charge(r) - GlobalDiscount(r)
<1>1. total \in Nat
  BY ChargeType
<1> HIDE DEF total
<1>2. LessSold(r) = [amount EXCEPT ![pick[r].session] = IF @ > total THEN @ - total ELSE 0]
  BY ZenonT(30) DEF LessSold, SaleTotal, total
<1>3. amount \in [Sessions -> Nat]
  BY DEF TableTypeOK
<1>4. \A s \in Sessions : (IF amount[s] > total THEN amount[s] - total ELSE 0) \in Nat
  BY <1>1, <1>3
<1> QED
  BY <1>2, <1>3, <1>4

LEMMA StepAt ==
  ASSUME TableTypeOK, NEW r \in Requests, Step(r)
  PROVE  /\ at' \in [Requests -> Phases] /\ ended' \subseteq Requests
         /\ since' \in [Requests -> SUBSET Requests]
<1>1. at' \in [Requests -> Phases]
  BY DEF TableTypeOK, Phases, Step, local, tables, ghosts, Go, Check, Refuse, Hold, Finish,
         OpenLocks, OpenFinds, OpenInserts, OrderLocks, OrderNumbers, OrderCommits,
         BillChecks, BillLocks, BillCloses, BillKeeps, BillPart, MoveLocks, MoveCommits,
         EndChecks, CloseCommits, DropOpens, DropCommits,
         CancelChecks, CancelOpens, CancelCommits, Breaks
<1>2. ended' \subseteq Requests
  BY DEF TableTypeOK, Phases, Step, local, tables, ghosts, Go, Check, Refuse, Hold, Finish,
         OpenLocks, OpenFinds, OpenInserts, OrderLocks, OrderNumbers, OrderCommits,
         BillChecks, BillLocks, BillCloses, BillKeeps, BillPart, MoveLocks, MoveCommits,
         EndChecks, CloseCommits, DropOpens, DropCommits,
         CancelChecks, CancelOpens, CancelCommits, Breaks
<1>3. since' \in [Requests -> SUBSET Requests]
  <2>1. since' = since \/ since' = [since EXCEPT ![r] = ended]
    BY DEF Step, local, tables, ghosts, Go, Check, Refuse, Hold, Finish,
           OpenLocks, OpenFinds, OpenInserts, OrderLocks, OrderNumbers, OrderCommits,
           BillChecks, BillLocks, BillCloses, BillKeeps, BillPart, MoveLocks, MoveCommits,
           EndChecks, CloseCommits, DropOpens, DropCommits,
           CancelChecks, CancelOpens, CancelCommits, Breaks
  <2> QED
    BY <2>1 DEF TableTypeOK
<1> QED
  BY <1>1, <1>2, <1>3

LEMMA StepView ==
  ASSUME TableTypeOK, NEW r \in Requests, Step(r)
  PROVE  view' \in [Requests -> Views \cup {None}]
<1>1. [session |-> session, line |-> line, amount |-> amount] \in Views
  BY DEF TableTypeOK, Views
<1> QED
  BY <1>1
  DEF TableTypeOK, Step, local, tables, ghosts, Go, Check, Refuse, Hold, Finish,
      OpenLocks, OpenFinds, OpenInserts, OrderLocks, OrderNumbers, OrderCommits,
      BillChecks, BillLocks, BillCloses, BillKeeps, BillPart, MoveLocks, MoveCommits,
      EndChecks, CloseCommits, DropOpens, DropCommits,
      CancelChecks, CancelOpens, CancelCommits, Breaks

LEMMA ChargedType ==
  ASSUME TableTypeOK, NEW ls \in SUBSET Lines, NEW part \in BOOLEAN
  PROVE  Charged(ls, part) \in SUBSET Charges
BY UnitsAssumption DEF Charged, Charges, TableTypeOK, LineRows

LEMMA StepPick ==
  ASSUME TableTypeOK, NEW r \in Requests, Step(r)
  PROVE  pick' \in [Requests -> Picks]
<1>1. \A s \in Sessions : [NoPick EXCEPT !.session = s] \in Picks
  BY DEF NoPick, Picks
<1>2. CASE BillChecks(r)
  <2>1. PICK s \in Sessions : \E ls \in SUBSET PendingOf(s) :
          pick' = [pick EXCEPT ![r] =
            [session |-> s, table |-> session[s].table,
             lines |-> Charged(ls, Kind[r] = "part"),
             close |-> Kind[r] = "bill" \/ (Kind[r] = "split" /\ ls = PendingOf(s))]]
    BY <1>2 DEF BillChecks, Check
  <2>0. PICK ls \in SUBSET PendingOf(s) :
          pick' = [pick EXCEPT ![r] =
            [session |-> s, table |-> session[s].table,
             lines |-> Charged(ls, Kind[r] = "part"),
             close |-> Kind[r] = "bill" \/ (Kind[r] = "split" /\ ls = PendingOf(s))]]
    BY <2>1
  <2>2. Charged(ls, Kind[r] = "part") \in SUBSET Charges
    BY ChargedType DEF PendingOf, LinesOf
  <2>3. session[s].table \in Tables \cup {None}
    BY DEF TableTypeOK, SessionRows
  <2> QED
    BY <2>0, <2>2, <2>3 DEF TableTypeOK, Picks
<1>3. CASE EndChecks(r)
  <2>1. PICK s \in Sessions :
          pick' = [pick EXCEPT ![r] = [NoPick EXCEPT !.session = s, !.table = session[s].table]]
    BY <1>3 DEF EndChecks, Check
  <2>2. [NoPick EXCEPT !.session = s, !.table = session[s].table] \in Picks
    BY DEF TableTypeOK, SessionRows, NoPick, Picks
  <2> QED
    BY <2>1, <2>2 DEF TableTypeOK
<1>4. CASE CancelChecks(r)
  <2>1. PICK l \in Lines :
          pick' = [pick EXCEPT ![r] =
            [NoPick EXCEPT !.session = line[l].session,
                           !.lines = {[line |-> l, units |-> line[l].left]}]]
    BY <1>4 DEF CancelChecks, Check
  <2>2. line[l].session \in Sessions \cup {None} /\ line[l].left \in 1 .. Units
    BY DEF TableTypeOK, LineRows
  <2>4. {[line |-> l, units |-> line[l].left]} \in SUBSET Charges
    BY <2>2 DEF Charges
  <2>3. \A ls \in SUBSET Charges :
          [NoPick EXCEPT !.session = line[l].session, !.lines = ls] \in Picks
    BY <2>2 DEF NoPick, Picks
  <2>5. [NoPick EXCEPT !.session = line[l].session,
                       !.lines = {[line |-> l, units |-> line[l].left]}] \in Picks
    BY <2>3, <2>4
  <2> QED
    BY <2>1, <2>5 DEF TableTypeOK
<1>5. CASE OrderLocks(r) \/ MoveLocks(r)
  BY <1>1, <1>5 DEF OrderLocks, MoveLocks, TableTypeOK
<1> QED
  BY <1>2, <1>3, <1>4, <1>5
  DEF TableTypeOK, Step, local, tables, ghosts, Go, Refuse, Hold, Finish,
      OpenLocks, OpenFinds, OpenInserts, OrderNumbers, OrderCommits,
      BillLocks, BillCloses, BillKeeps, BillPart, MoveCommits,
      CloseCommits, DropOpens, DropCommits, CancelOpens, CancelCommits, Breaks

\* What a bill or a cancellation has chosen.
LEMMA ChosenType ==
  ASSUME TableTypeOK, Reading, NEW r \in Requests,
         Kind[r] \in Bills \cup {"cancel"}, at[r] \in Busy
  PROVE  /\ Chosen(r) \subseteq Lines /\ Chosen(r) # {}
         /\ Sold(r) \subseteq [by : Requests, line : Lines, units : 1 .. Units]
         /\ (CHOOSE x \in pick[r].lines : TRUE).units \in 1 .. Units
<1>1. pick[r].lines \subseteq Charges /\ pick[r].lines # {}
  BY DEF TableTypeOK, Picks, Reading
<1>2. PICK x \in pick[r].lines : x = CHOOSE y \in pick[r].lines : TRUE
  BY <1>1
<1>3. x \in Charges
  BY <1>1, <1>2
<1>4. (CHOOSE y \in pick[r].lines : TRUE).units \in 1 .. Units
  BY <1>2, <1>3 DEF Charges
<1>5. Chosen(r) \subseteq Lines /\ Chosen(r) # {}
  BY <1>1 DEF Chosen, Charges
<1>6. Sold(r) \subseteq [by : Requests, line : Lines, units : 1 .. Units]
  BY <1>1 DEF Sold, Charges
<1> QED
  BY <1>4, <1>5, <1>6

LEMMA StepLine ==
  ASSUME TableTypeOK, Reading, NEW r \in Requests, Step(r)
  PROVE  line' \in [Lines -> LineRows]
<1>0. line \in [Lines -> LineRows]
  BY DEF TableTypeOK
<1>1. CASE OrderCommits(r)
  <2>1. [session |-> pick[r].session, state |-> "pending", left |-> Units] \in LineRows
    BY UnitsAssumption DEF LineRows, States, TableTypeOK, Picks
  <2> QED
    BY <1>0, <1>1, <2>1 DEF OrderCommits
<1>2. CASE BillCloses(r)
  BY <1>0, <1>2 DEF BillCloses, LineRows, States
<1>6. CASE DropCommits(r)
  BY <1>0, <1>6 DEF DropCommits, LineRows, States
<1>3. CASE BillKeeps(r)
  BY <1>0, <1>3 DEF BillKeeps, LineRows, States
<1>5. CASE CancelCommits(r)
  BY <1>0, <1>5 DEF CancelCommits, LineRows, States
<1>4. CASE BillPart(r)
  <2> DEFINE l == CHOOSE l \in Chosen(r) : TRUE
  <2>1. l \in Lines
    BY <1>4, ChosenType DEF BillPart, Bills, Busy
  <2>2. view[r].line[l].left \in 1 .. Units
    BY <1>4, <2>1 DEF BillPart, Reading, Views, LineRows
  <2>3. CASE line' = line
    BY <1>0, <2>3
  <2>4. CASE /\ ~ (view[r].line[l].left < 2)
             /\ line' = [line EXCEPT ![l].left = view[r].line[l].left - 1]
    <3>1. view[r].line[l].left - 1 \in 1 .. Units
      BY <2>2, <2>4, UnitsAssumption
    <3> HIDE DEF l
    <3> QED
      BY <1>0, <2>4, <3>1 DEF LineRows
  <2> QED
    BY <1>4, <2>3, <2>4 DEF BillPart, Refuse, tables
<1> QED
  BY <1>0, <1>1, <1>2, <1>3, <1>4, <1>5, <1>6
  DEF Step, tables, Check, Refuse, Hold,
      OpenLocks, OpenFinds, OpenInserts, OrderLocks, OrderNumbers,
      BillChecks, BillLocks, MoveLocks, MoveCommits,
      EndChecks, CloseCommits, DropOpens, CancelChecks, CancelOpens, Breaks

LEMMA StepAmount ==
  ASSUME TableTypeOK, Reading, NEW r \in Requests, Step(r)
  PROVE  amount' \in [Sessions -> Nat]
<1>0. amount \in [Sessions -> Nat]
  BY DEF TableTypeOK
<1>1. CASE OrderCommits(r)
  <2>1. \A s \in Sessions : amount[s] + Units \in Nat
    BY <1>0, UnitsAssumption
  <2>2. amount' = [amount EXCEPT ![pick[r].session] = @ + Units]
    BY <1>1 DEF OrderCommits
  <2> QED
    BY <1>0, <2>1, <2>2
<1>2. CASE BillKeeps(r)
  BY <1>2, LessSoldType DEF BillKeeps
<1>3. CASE BillPart(r)
  BY <1>0, <1>3, LessSoldType DEF BillPart, Refuse, tables
<1>4. CASE CancelCommits(r)
  <2> DEFINE units == (CHOOSE x \in pick[r].lines : TRUE).units
  <2>1. units \in 1 .. Units
    BY <1>4, ChosenType DEF CancelCommits, Busy
  <2>2. view[r].amount \in [Sessions -> Nat]
    BY <1>4 DEF CancelCommits, Reading, Views
  <2>3. \A s \in Sessions :
          (IF view[r].amount[s] > units THEN view[r].amount[s] - units ELSE 0) \in Nat
    BY <2>1, <2>2, UnitsAssumption
  <2> HIDE DEF units
  <2>4. amount' = [amount EXCEPT ![pick[r].session] =
          IF view[r].amount[pick[r].session] > units
          THEN view[r].amount[pick[r].session] - units ELSE 0]
    BY <1>4 DEF CancelCommits, units
  <2> QED
    BY <1>0, <2>3, <2>4
<1> QED
  BY <1>0, <1>1, <1>2, <1>3, <1>4
  DEF Step, tables, Check, Refuse, Hold,
      OpenLocks, OpenFinds, OpenInserts, OrderLocks, OrderNumbers,
      BillChecks, BillLocks, BillCloses, MoveLocks, MoveCommits, DropCommits,
      EndChecks, CloseCommits, DropOpens, CancelChecks, CancelOpens, Breaks

LEMMA StepSession ==
  ASSUME TableTypeOK, NEW r \in Requests, Step(r)
  PROVE  session' \in [Sessions -> SessionRows]
<1>0. session \in [Sessions -> SessionRows] /\ Table[r] \in Tables
  BY RequestAssumption DEF TableTypeOK
<1>1. CASE OpenInserts(r)
  <2>1. [status |-> "open", table |-> Table[r]] \in SessionRows
    BY <1>0 DEF SessionRows
  <2> QED
    BY <1>0, <1>1, <2>1 DEF OpenInserts
<1>2. ASSUME NEW st \in {"billed", "closed", "deleted"}, NEW s
      PROVE  [session EXCEPT ![s].status = st] \in [Sessions -> SessionRows]
  BY <1>0 DEF SessionRows
<1>3. CASE BillCloses(r) \/ CloseCommits(r) \/ DropCommits(r)
  <2> DEFINE s == pick[r].session
             ends(st) == [session EXCEPT ![s].status = st]
  <2>1. session' \in {session, ends("billed"), ends("closed"), ends("deleted")}
    <3>1. CASE BillCloses(r)
      BY <3>1 DEF BillCloses
    <3>2. CASE CloseCommits(r)
      BY <3>2 DEF CloseCommits
    <3>3. CASE DropCommits(r)
      BY <3>3 DEF DropCommits
    <3> QED
      BY <1>3, <3>1, <3>2, <3>3
  <2>2. \A st \in {"billed", "closed", "deleted"} : ends(st) \in [Sessions -> SessionRows]
    BY <1>2
  <2> HIDE DEF ends
  <2> QED
    BY <1>0, <2>1, <2>2
<1>4. CASE MoveCommits(r)
  <2>1. [session EXCEPT ![pick[r].session].table = Table[r]] \in [Sessions -> SessionRows]
    BY <1>0 DEF SessionRows
  <2> QED
    BY <1>0, <1>4, <2>1 DEF MoveCommits, Refuse, tables
<1> QED
  BY <1>0, <1>1, <1>3, <1>4, SessionsKept DEF Rewrites

LEMMA StepRest ==
  ASSUME TableTypeOK, Reading, Found, NEW r \in Requests, Step(r)
  PROVE  /\ display' \in [Tables -> {"libre", "ocupada"}]
         /\ counter' \in Nat /\ number' \in [Lines -> Nat] /\ got' \in [Requests -> Nat]
         /\ bills' \subseteq [by : Requests, line : Lines, units : 1 .. Units]
         /\ strayed' \subseteq Tables \cup {None}
         /\ overwritten' \subseteq Sessions \cup {None}
<1>1. display' \in [Tables -> {"libre", "ocupada"}]
  BY DEF TableTypeOK, Shown, Step, tables, Check, Refuse, Hold,
       OpenLocks, OpenFinds, OpenInserts, OrderLocks, OrderNumbers, OrderCommits,
       BillChecks, BillLocks, BillCloses, BillKeeps, BillPart, MoveLocks, MoveCommits,
       EndChecks, CloseCommits, DropOpens, DropCommits,
       CancelChecks, CancelOpens, CancelCommits, Breaks
<1>2. counter' \in Nat /\ number' \in [Lines -> Nat] /\ got' \in [Requests -> Nat]
  <2>0. counter \in Nat /\ number \in [Lines -> Nat] /\ got \in [Requests -> Nat]
    BY DEF TableTypeOK
  <2>1. CASE OrderNumbers(r)
    <3>1. counter + 1 \in Nat
      BY <2>0
    <3> QED
      BY <2>0, <2>1, <3>1 DEF OrderNumbers, tables
  <2>2. CASE OrderCommits(r)
    BY <2>0, <2>2 DEF OrderCommits, Finish
  <2>3. CASE ~OrderNumbers(r) /\ ~OrderCommits(r)
    <3>1. counter' = counter /\ number' = number /\ got' = got
      BY <2>3
      DEF Step, tables, Check, Refuse, Hold, Finish,
          OpenLocks, OpenFinds, OpenInserts, OrderLocks,
          BillChecks, BillLocks, BillCloses, BillKeeps, BillPart, MoveLocks, MoveCommits,
          EndChecks, CloseCommits, DropOpens, DropCommits,
          CancelChecks, CancelOpens, CancelCommits, Breaks
    <3> QED
      BY <2>0, <3>1
  <2> QED
    BY <2>1, <2>2, <2>3
<1>3. bills' = bills \/ (Kind[r] \in Bills /\ at[r] = "held" /\ bills' = bills \cup Sold(r))
  BY DEF Step, ghosts, Check, Refuse, Hold, Bills,
       OpenLocks, OpenFinds, OpenInserts, OrderLocks, OrderNumbers, OrderCommits,
       BillChecks, BillLocks, BillCloses, BillKeeps, BillPart, MoveLocks, MoveCommits,
       EndChecks, CloseCommits, DropOpens, DropCommits,
       CancelChecks, CancelOpens, CancelCommits, Breaks
<1>4. bills' \subseteq [by : Requests, line : Lines, units : 1 .. Units]
  BY <1>3, ChosenType DEF TableTypeOK, Busy
<1>5. strayed' \subseteq Tables \cup {None}
  <2>1. strayed' = strayed
        \/ (Kind[r] \in {"close", "drop"} /\ at[r] \in Busy /\ strayed' = strayed \cup Stray(r))
    BY DEF Step, Busy, ghosts, Check, Refuse, Hold,
       OpenLocks, OpenFinds, OpenInserts, OrderLocks, OrderNumbers, OrderCommits,
       BillChecks, BillLocks, BillCloses, BillKeeps, BillPart, MoveLocks, MoveCommits,
       EndChecks, CloseCommits, DropOpens, DropCommits,
       CancelChecks, CancelOpens, CancelCommits, Breaks
  <2>2. CASE Kind[r] \in {"close", "drop"} /\ at[r] \in Busy
    <3>1. pick[r].session \in Sessions
      BY <2>2 DEF Found
    <3>2. pick[r].table \in Tables \cup {None}
      BY DEF TableTypeOK, Picks
    <3>3. session[pick[r].session].table \in Tables \cup {None}
      BY <3>1 DEF TableTypeOK, SessionRows
    <3>4. Stray(r) \subseteq {pick[r].table, session[pick[r].session].table}
      BY DEF Stray
    <3> QED
      BY <2>1, <3>2, <3>3, <3>4 DEF TableTypeOK
  <2> QED
    BY <2>1, <2>2 DEF TableTypeOK
<1>6. overwritten' \subseteq Sessions \cup {None}
  <2>1. overwritten' \subseteq overwritten \cup {pick[r].session}
    BY DEF Step, ghosts, Check, Refuse, Hold,
       OpenLocks, OpenFinds, OpenInserts, OrderLocks, OrderNumbers, OrderCommits,
       BillChecks, BillLocks, BillCloses, BillKeeps, BillPart, MoveLocks, MoveCommits,
       EndChecks, CloseCommits, DropOpens, DropCommits,
       CancelChecks, CancelOpens, CancelCommits, Breaks
  <2> QED
    BY <2>1 DEF TableTypeOK, Picks
<1> QED
  BY <1>1, <1>2, <1>4, <1>5, <1>6

LEMMA TypeKept ==
  ASSUME TableTypeOK, Reading, Found, NEW r \in Requests, Step(r)
  PROVE  TableTypeOK'
BY StepAt, StepView, StepPick, StepLine, StepAmount, StepSession, StepRest DEF TableTypeOK

-----------------------------------------------------------------------------
\* What a step of r may do to the row of a session.

Ends(r) == BillCloses(r) \/ CloseCommits(r) \/ DropCommits(r)

LEMMA SessionChange ==
  ASSUME TableTypeOK, Found, NEW r \in Requests, Step(r), NEW s \in Sessions
  PROVE  \/ session'[s] = session[s]
         \/ /\ OpenInserts(r) /\ s = NewSession[r]
            /\ session'[s] = [status |-> "open", table |-> Table[r]]
         \/ /\ MoveCommits(r) /\ s = pick[r].session /\ OpenAt(Table[r], session) = {}
            /\ session[s].status = "open"
            /\ session'[s].status = "open" /\ session'[s].table = Table[r]
         \/ /\ Ends(r) /\ s = pick[r].session
            /\ session'[s].status \in {"billed", "closed", "deleted"}
            /\ session'[s].status = "billed" => BillCloses(r) \/ session[s].status = "billed"
            /\ session'[s].table = session[s].table
<1>0. session \in [Sessions -> SessionRows]
  BY DEF TableTypeOK
<1>1. CASE OpenInserts(r)
  BY <1>0, <1>1 DEF OpenInserts
<1>2. CASE MoveCommits(r)
  <2>1. CASE session' = session
    BY <2>1
  <2>2. CASE session' # session
    <3>1. /\ session' = [session EXCEPT ![pick[r].session].table = Table[r]]
          /\ OpenAt(Table[r], session) = {}
      BY <1>2, <2>2 DEF MoveCommits, Refuse, tables
    <3>2. s = pick[r].session => session[s].status = "open"
      BY <1>2 DEF MoveCommits, Found, HoldsSession
    <3> QED
      BY <1>0, <1>2, <3>1, <3>2 DEF SessionRows
  <2> QED
    BY <2>1, <2>2
<1>3. CASE Ends(r)
  <2>1. \/ /\ BillCloses(r) /\ session' = [session EXCEPT ![pick[r].session].status = "billed"]
        \/ session' = session
        \/ session' = [session EXCEPT ![pick[r].session].status = "closed"]
        \/ session' = [session EXCEPT ![pick[r].session].status = "deleted"]
    BY <1>3 DEF Ends, BillCloses, CloseCommits, DropCommits
  <2> QED
    BY <1>0, <1>3, <2>1 DEF SessionRows
<1> QED
  BY <1>1, <1>2, <1>3, SessionsKept DEF Rewrites, Ends

LEMMA StaysOpened ==
  ASSUME TableTypeOK, Found, NEW r \in Requests, Step(r), NEW s \in Sessions,
         session[s].status # "none"
  PROVE  session'[s].status # "none"
<1>1. \/ session'[s] = session[s]
      \/ session'[s] = [status |-> "open", table |-> Table[r]]
      \/ session'[s].status = "open"
      \/ session'[s].status \in {"billed", "closed", "deleted"}
  BY SessionChange
<1> QED
  BY <1>1

\* A step that leaves its request in a transaction changes no session.
LEMMA InsideKeeps ==
  ASSUME TableTypeOK, NEW r \in Requests, Step(r), at'[r] # "done"
  PROVE  session' = session
<1>1. ~Rewrites(r) \/ session' = session
  BY DEF TableTypeOK, Rewrites, OpenInserts, BillCloses, MoveCommits, CloseCommits,
         DropCommits, Finish, Refuse, Go, tables
<1> QED
  BY <1>1, SessionsKept

\* How r comes to be where it is after its step.
LEMMA Arrival ==
  ASSUME TableTypeOK, NEW r \in Requests, Step(r), at'[r] \in Busy
  PROVE  \/ at[r] \in Busy /\ pick' = pick
         \/ /\ at[r] = "new" /\ Kind[r] = "open" /\ at'[r] = "held"
            /\ TableFree(r, Table[r])
         \/ /\ at[r] = "new" /\ Kind[r] \in {"order", "move"}
            /\ pick'[r].session \in Sessions
            /\ session[pick'[r].session].status = "open"
            /\ SessionFree(r, pick'[r].session)
         \/ /\ at[r] = "new" /\ Kind[r] \in Bills \cup {"close", "drop"} /\ at'[r] = "checked"
            /\ pick'[r].session \in Sessions
            /\ session[pick'[r].session].status = "open"
         \/ at[r] = "new" /\ Kind[r] = "cancel" /\ at'[r] = "checked"
<1>0. pick \in [Requests -> Picks] /\ at \in [Requests -> Phases]
  BY DEF TableTypeOK
<1>1. CASE OpenLocks(r)
  BY <1>0, <1>1 DEF OpenLocks, Hold, Go
<1>2. CASE OrderLocks(r) \/ MoveLocks(r)
  <2>1. PICK s \in Sessions :
          /\ session[s].status = "open" /\ SessionFree(r, s)
          /\ pick' = [pick EXCEPT ![r] = [NoPick EXCEPT !.session = s]]
    BY <1>2 DEF OrderLocks, MoveLocks
  <2>2. pick'[r].session = s
    BY <1>0, <2>1 DEF NoPick
  <2> QED
    BY <1>2, <2>1, <2>2 DEF OrderLocks, MoveLocks
<1>3. CASE BillChecks(r) \/ EndChecks(r)
  <2>1. PICK s \in Sessions : session[s].status = "open" /\ pick'[r].session = s
    <3>1. CASE EndChecks(r)
      BY <1>0, <3>1 DEF EndChecks, Check, NoPick
    <3>2. CASE BillChecks(r)
      <4>1. PICK s \in Sessions :
              /\ session[s].status = "open"
              /\ \E ls \in SUBSET PendingOf(s) :
                   pick' = [pick EXCEPT ![r] =
                     [session |-> s, table |-> session[s].table,
                      lines |-> Charged(ls, Kind[r] = "part"),
                      close |-> Kind[r] = "bill" \/ (Kind[r] = "split" /\ ls = PendingOf(s))]]
        BY <3>2 DEF BillChecks, Check
      <4> QED
        BY <1>0, <4>1
    <3> QED
      BY <1>3, <3>1, <3>2
  <2> QED
    BY <1>0, <1>3, <2>1 DEF BillChecks, EndChecks, Check, Go
<1>4. CASE CancelChecks(r)
  BY <1>0, <1>4 DEF CancelChecks, Check, Go
<1> QED
  BY <1>0, <1>1, <1>2, <1>3, <1>4
  DEF Step, Busy, ghosts, Go, Refuse, Hold, Finish,
      OpenFinds, OpenInserts, OrderNumbers, OrderCommits,
      BillLocks, BillCloses, BillKeeps, BillPart, MoveCommits,
      CloseCommits, DropOpens, DropCommits, CancelOpens, CancelCommits, Breaks

-----------------------------------------------------------------------------
\* The parts of the invariant, step by step.

LEMMA ReadingKept ==
  ASSUME TableTypeOK, Reading, OneOpenSession, NEW r \in Requests, Step(r)
  PROVE  Reading'
<1>0. at \in [Requests -> Phases] /\ view \in [Requests -> Views \cup {None}]
      /\ pick \in [Requests -> Picks]
  BY DEF TableTypeOK
<1> DEFINE now == [session |-> session, line |-> line, amount |-> amount]
<1>1. now \in Views /\ One(now.session)
  BY DEF TableTypeOK, Views, One, OneOpenSession
<1>2. at'[r] \in {"held", "open"} => view'[r] \in Views /\ One(view'[r].session)
  <2>1. at'[r] \in {"held", "open"} =>
          view'[r] = now \/ (at[r] \in {"held", "open"} /\ view'[r] = view[r])
    BY <1>0
    DEF Step, local, tables, ghosts, Go, Check, Refuse, Hold, Finish,
        OpenLocks, OpenFinds, OpenInserts, OrderLocks, OrderNumbers, OrderCommits,
        BillChecks, BillLocks, BillCloses, BillKeeps, BillPart, MoveLocks, MoveCommits,
        EndChecks, CloseCommits, DropOpens, DropCommits,
        CancelChecks, CancelOpens, CancelCommits, Breaks
  <2> HIDE DEF now
  <2> QED
    BY <1>1, <2>1 DEF Reading
<1>3. Kind[r] \in Bills \cup {"cancel"} /\ at'[r] \in Busy => pick'[r].lines # {}
  <2>1. CASE BillChecks(r)
    <3>1. PICK s \in Sessions : \E ls \in (SUBSET PendingOf(s)) \ {{}} :
            pick' = [pick EXCEPT ![r] =
              [session |-> s, table |-> session[s].table,
               lines |-> Charged(ls, Kind[r] = "part"),
               close |-> Kind[r] = "bill" \/ (Kind[r] = "split" /\ ls = PendingOf(s))]]
      BY <2>1 DEF BillChecks, Check
    <3>2. PICK ls \in (SUBSET PendingOf(s)) \ {{}} : pick'[r].lines = Charged(ls, Kind[r] = "part")
      BY <1>0, <3>1
    <3>3. ls # {}
      OBVIOUS
    <3>4. Charged(ls, Kind[r] = "part") # {}
      BY <3>3 DEF Charged
    <3> QED
      BY <3>2, <3>4
  <2>2. CASE CancelChecks(r)
    <3>1. PICK l \in Lines :
            pick' = [pick EXCEPT ![r] =
              [NoPick EXCEPT !.session = line[l].session,
                             !.lines = {[line |-> l, units |-> line[l].left]}]]
      BY <2>2 DEF CancelChecks, Check
    <3>2. pick'[r].lines = {[line |-> l, units |-> line[l].left]}
      BY <1>0, <3>1 DEF NoPick
    <3> QED
      BY <3>2
  <2>3. CASE ~BillChecks(r) /\ ~CancelChecks(r)
    <3>1. Kind[r] \in Bills \cup {"cancel"} /\ at'[r] \in Busy =>
            at[r] \in Busy /\ pick' = pick
      BY <1>0, <2>3
      DEF Step, Bills, Busy, ghosts, Go, Refuse, Hold, Finish,
          OpenLocks, OpenFinds, OpenInserts, OrderLocks, OrderNumbers, OrderCommits,
          BillLocks, BillCloses, BillKeeps, BillPart, MoveLocks, MoveCommits,
          EndChecks, CloseCommits, DropOpens, DropCommits,
          CancelOpens, CancelCommits, Breaks
    <3> QED
      BY <3>1 DEF Reading
  <2> QED
    BY <2>1, <2>2, <2>3
<1>4. ASSUME NEW q \in Requests, q # r
      PROVE  at'[q] = at[q] /\ pick'[q] = pick[q] /\ view'[q] = view[q]
  BY <1>4, Locality
<1> HIDE DEF now
<1> QED
  BY <1>2, <1>3, <1>4 DEF Reading, One

LEMMA ExcludingKept ==
  ASSUME TableTypeOK, Excluding, NEW r \in Requests, Step(r)
  PROVE  Excluding'
<1>0. at \in [Requests -> Phases]
  BY DEF TableTypeOK
<1>1. ASSUME NEW q \in Requests, q # r
      PROVE  at'[q] = at[q] /\ pick'[q] = pick[q]
  BY <1>1, Locality
<1>2. ASSUME NEW t \in Tables, HoldsTable(r, t)'
      PROVE  HoldsTable(r, t) \/ TableFree(r, t)
  <2>1. at'[r] \in {"held", "open"} /\ Kind[r] = "open" /\ Table[r] = t
    BY <1>2 DEF HoldsTable
  <2>2. CASE at[r] = "new"
    BY <2>1, <2>2, Arrival DEF Busy, Bills
  <2>3. CASE at[r] = "checked"
    BY <1>0, <2>1, <2>3
    DEF Step, Bills, ghosts, Go, Check, Refuse, Hold, Finish,
        OpenLocks, OpenFinds, OpenInserts, OrderLocks, OrderNumbers, OrderCommits,
        BillChecks, BillLocks, BillCloses, BillKeeps, BillPart, MoveLocks, MoveCommits,
        EndChecks, CloseCommits, DropOpens, DropCommits,
        CancelChecks, CancelOpens, CancelCommits, Breaks
  <2>4. CASE at[r] \notin {"new", "checked"}
    <3>1. at[r] \in Busy
      BY <2>1, <2>4, Arrival DEF Busy
    <3> QED
      BY <2>1, <2>4, <3>1 DEF HoldsTable, Busy
  <2> QED
    BY <2>2, <2>3, <2>4
<1>3. ASSUME NEW s \in Sessions, HoldsSession(r, s)'
      PROVE  HoldsSession(r, s) \/ SessionFree(r, s)
  <2>1. CASE at[r] = "new"
    BY <1>3, <2>1, Arrival DEF HoldsSession, Busy, Bills
  <2>2. CASE at[r] = "checked"
    <3>1. BillLocks(r) /\ SessionFree(r, pick[r].session)
      BY <1>0, <1>3, <2>2
      DEF Step, HoldsSession, Bills, ghosts, Go, Check, Refuse, Hold, Finish,
          OpenLocks, OpenFinds, OpenInserts, OrderLocks, OrderNumbers, OrderCommits,
          BillChecks, BillLocks, BillCloses, BillKeeps, BillPart, MoveLocks, MoveCommits,
          EndChecks, CloseCommits, DropOpens, DropCommits,
          CancelChecks, CancelOpens, CancelCommits, Breaks
    <3> QED
      BY <1>3, <2>2, <3>1, Arrival DEF HoldsSession, Busy
  <2>3. CASE at[r] \notin {"new", "checked"}
    BY <1>3, <2>3, Arrival DEF HoldsSession, Busy
  <2> QED
    BY <2>1, <2>2, <2>3
<1>4. HoldsCounter(r)' => HoldsCounter(r) \/ \A q \in Requests : ~HoldsCounter(q)
  <2> SUFFICES ASSUME HoldsCounter(r)', ~HoldsCounter(r)
               PROVE  \A q \in Requests : ~HoldsCounter(q)
    OBVIOUS
  <2>1. OrderNumbers(r)
    BY <1>0
    DEF Step, HoldsCounter, Bills, ghosts, Go, Check, Refuse, Hold, Finish,
        OpenLocks, OpenFinds, OpenInserts, OrderLocks, OrderNumbers, OrderCommits,
        BillChecks, BillLocks, BillCloses, BillKeeps, BillPart, MoveLocks, MoveCommits,
        EndChecks, CloseCommits, DropOpens, DropCommits,
        CancelChecks, CancelOpens, CancelCommits, Breaks
  <2> QED
    BY <2>1 DEF OrderNumbers
<1>5. ASSUME NEW q \in Requests, q # r
      PROVE  /\ \A t \in Tables : HoldsTable(q, t)' <=> HoldsTable(q, t)
             /\ \A s \in Sessions : HoldsSession(q, s)' <=> HoldsSession(q, s)
             /\ HoldsCounter(q)' <=> HoldsCounter(q)
  BY <1>1, <1>5 DEF HoldsTable, HoldsSession, HoldsCounter
<1> SUFFICES ASSUME NEW q \in Requests, NEW p \in Requests, q # p
             PROVE  /\ \A t \in Tables : ~(HoldsTable(q, t)' /\ HoldsTable(p, t)')
                    /\ \A s \in Sessions : ~(HoldsSession(q, s)' /\ HoldsSession(p, s)')
                    /\ ~(HoldsCounter(q)' /\ HoldsCounter(p)')
  BY DEF Excluding
<1>6. \A x \in Requests :
        /\ x # r => /\ \A t \in Tables : ~(HoldsTable(r, t)' /\ HoldsTable(x, t)')
                    /\ \A s \in Sessions : ~(HoldsSession(r, s)' /\ HoldsSession(x, s)')
                    /\ ~(HoldsCounter(r)' /\ HoldsCounter(x)')
  <2> SUFFICES ASSUME NEW x \in Requests, x # r
               PROVE  /\ \A t \in Tables : ~(HoldsTable(r, t)' /\ HoldsTable(x, t)')
                      /\ \A s \in Sessions : ~(HoldsSession(r, s)' /\ HoldsSession(x, s)')
                      /\ ~(HoldsCounter(r)' /\ HoldsCounter(x)')
    OBVIOUS
  <2>1. \A t \in Tables : ~(HoldsTable(r, t)' /\ HoldsTable(x, t)')
    BY <1>2, <1>5 DEF Excluding, TableFree
  <2>2. \A s \in Sessions : ~(HoldsSession(r, s)' /\ HoldsSession(x, s)')
    BY <1>3, <1>5 DEF Excluding, SessionFree
  <2>3. ~(HoldsCounter(r)' /\ HoldsCounter(x)')
    BY <1>4, <1>5 DEF Excluding
  <2> QED
    BY <2>1, <2>2, <2>3
<1>7. CASE q = r \/ p = r
  BY <1>6, <1>7
<1>8. CASE q # r /\ p # r
  BY <1>5, <1>8 DEF Excluding
<1> QED
  BY <1>7, <1>8

\* Another request's session, or its table, is not changed under its lock.
LEMMA HeldStaysOpen ==
  ASSUME TableTypeOK, Excluding, Found, NEW r \in Requests, Step(r),
         NEW q \in Requests, q # r, NEW s \in Sessions, HoldsSession(q, s)
  PROVE  session'[s].status = "open"
<1>1. session[s].status = "open"
  BY DEF Found
<1>2. ~(Ends(r) /\ s = pick[r].session)
  <2>1. CASE BillCloses(r) /\ s = pick[r].session
    <3>1. HoldsSession(r, s)
      BY <2>1 DEF BillCloses, HoldsSession
    <3> QED
      BY <3>1 DEF Excluding
  <2>2. CASE (CloseCommits(r) \/ DropCommits(r)) /\ s = pick[r].session
    BY <2>2 DEF CloseCommits, DropCommits, SessionFree
  <2> QED
    BY <2>1, <2>2 DEF Ends
<1>3. \/ session'[s] = session[s]
      \/ session'[s] = [status |-> "open", table |-> Table[r]]
      \/ session'[s].status = "open"
  BY <1>2, SessionChange
<1> QED
  BY <1>1, <1>3

LEMMA FoundKept ==
  ASSUME TableTypeOK, Excluding, Found, NEW r \in Requests, Step(r), NEW q \in Requests
  PROVE  /\ Kind[q] \notin {"open", "cancel"} /\ at'[q] \in Busy =>
              pick'[q].session \in Sessions /\ session'[pick'[q].session].status # "none"
         /\ \A s \in Sessions : HoldsSession(q, s)' => session'[s].status = "open"
         /\ Kind[q] = "open" /\ at'[q] = "open" => OpenAt(Table[q], session') = {}
         /\ Kind[q] = "open" /\ at'[q] # "done" => session'[NewSession[q]].status = "none"
<1>0. /\ session \in [Sessions -> SessionRows] /\ at \in [Requests -> Phases]
      /\ Table[q] \in Tables /\ NewSession[q] \in Sessions
  BY RequestAssumption DEF TableTypeOK
<1>1. q # r => at'[q] = at[q] /\ pick'[q] = pick[q]
  BY Locality
<1>2. ASSUME Kind[q] \notin {"open", "cancel"}, at'[q] \in Busy
      PROVE  pick'[q].session \in Sessions /\ session'[pick'[q].session].status # "none"
  <2>1. pick'[q].session \in Sessions /\ session[pick'[q].session].status # "none"
    <3>1. CASE q # r
      BY <1>1, <1>2, <3>1 DEF Found
    <3>2. CASE q = r
      <4>1. CASE at[r] \in Busy /\ pick' = pick
        BY <1>2, <3>2, <4>1 DEF Found
      <4>2. CASE pick'[r].session \in Sessions /\ session[pick'[r].session].status = "open"
        BY <3>2, <4>2
      <4> QED
        BY <1>2, <3>2, <4>1, <4>2, Arrival
    <3> QED
      BY <3>1, <3>2
  <2> QED
    BY <2>1, StaysOpened
<1>3. ASSUME NEW s \in Sessions, HoldsSession(q, s)'
      PROVE  session'[s].status = "open"
  <2>1. CASE q # r
    <3>1. HoldsSession(q, s)
      BY <1>1, <1>3, <2>1 DEF HoldsSession
    <3> QED
      BY <2>1, <3>1, HeldStaysOpen
  <2>2. CASE q = r
    <3>0. at'[r] \in {"held", "open"} /\ pick'[r].session = s
          /\ Kind[r] \in {"order", "move"} \cup Bills
      BY <1>3, <2>2 DEF HoldsSession
    <3>1. session' = session
      BY <3>0, InsideKeeps
    <3>2. session[s].status = "open"
      <4>1. CASE at[r] = "new"
        BY <3>0, <4>1, Arrival DEF Busy, Bills
      <4>2. CASE at[r] = "checked"
        <5>1. BillLocks(r) /\ at'[r] = "held"
          BY <1>0, <3>0, <4>2
          DEF Step, Bills, ghosts, Go, Check, Refuse, Hold, Finish,
              OpenLocks, OpenFinds, OpenInserts, OrderLocks, OrderNumbers, OrderCommits,
              BillChecks, BillLocks, BillCloses, BillKeeps, BillPart, MoveLocks, MoveCommits,
              EndChecks, CloseCommits, DropOpens, DropCommits,
              CancelChecks, CancelOpens, CancelCommits, Breaks
        <5>2. session[pick[r].session].status = "open" /\ pick' = pick
          BY <1>0, <5>1 DEF BillLocks, Refuse, Go
        <5> QED
          BY <3>0, <5>2
      <4>3. CASE at[r] \notin {"new", "checked"}
        <5>1. at[r] \in Busy /\ pick' = pick
          BY <3>0, <4>3, Arrival DEF Busy
        <5>2. HoldsSession(r, s)
          BY <3>0, <4>3, <5>1 DEF HoldsSession, Busy
        <5> QED
          BY <5>2 DEF Found
      <4> QED
        BY <4>1, <4>2, <4>3
    <3> QED
      BY <3>1, <3>2, <2>2
  <2> QED
    BY <2>1, <2>2
<1>4. ASSUME Kind[q] = "open", at'[q] = "open"
      PROVE  OpenAt(Table[q], session') = {}
  <2>1. CASE q # r
    <3>1. OpenAt(Table[q], session) = {} /\ HoldsTable(q, Table[q])
      BY <1>1, <1>4, <2>1 DEF Found, HoldsTable
    <3>2. ~(OpenInserts(r) /\ Table[r] = Table[q])
      BY <1>0, <2>1, <3>1 DEF OpenInserts, HoldsTable, Excluding
    <3>3. ~(MoveCommits(r) /\ Table[r] = Table[q])
      BY <2>1, <3>1 DEF MoveCommits, TableFree
    <3>4. ASSUME NEW s \in Sessions
          PROVE  ~(session'[s].status = "open" /\ session'[s].table = Table[q])
      <4>1. CASE session'[s] = session[s]
        BY <3>1, <4>1 DEF OpenAt
      <4>2. CASE OpenInserts(r) /\ session'[s] = [status |-> "open", table |-> Table[r]]
        BY <3>2, <4>2
      <4>3. CASE MoveCommits(r) /\ session'[s].table = Table[r]
        BY <3>3, <4>3
      <4>4. CASE session'[s].status \in {"billed", "closed", "deleted"}
        BY <4>4
      <4> QED
        BY <4>1, <4>2, <4>3, <4>4, SessionChange
    <3> QED
      BY <3>4 DEF OpenAt
  <2>2. CASE q = r
    <3>1. session' = session
      BY <1>4, <2>2, InsideKeeps
    <3>2. at[r] = "open" \/ OpenFinds(r)
      BY <1>0, <1>4, <2>2
      DEF Step, Bills, ghosts, Go, Check, Refuse, Hold, Finish,
          OpenLocks, OpenFinds, OpenInserts, OrderLocks, OrderNumbers, OrderCommits,
          BillChecks, BillLocks, BillCloses, BillKeeps, BillPart, MoveLocks, MoveCommits,
          EndChecks, CloseCommits, DropOpens, DropCommits,
          CancelChecks, CancelOpens, CancelCommits, Breaks
    <3>3. CASE at[r] = "open"
      BY <1>4, <2>2, <3>1, <3>3 DEF Found
    <3>4. CASE OpenFinds(r)
      BY <1>0, <1>4, <2>2, <3>1, <3>4 DEF OpenFinds, Go
    <3> QED
      BY <3>2, <3>3, <3>4
  <2> QED
    BY <2>1, <2>2
<1>5. ASSUME Kind[q] = "open", at'[q] # "done"
      PROVE  session'[NewSession[q]].status = "none"
  <2>1. session[NewSession[q]].status = "none"
    <3>1. at[q] # "done"
      <4>1. CASE q = r
        BY <4>1, <1>5
        DEF Step, Bills,
            OpenLocks, OpenFinds, OpenInserts, OrderLocks, OrderNumbers, OrderCommits,
            BillChecks, BillLocks, BillCloses, BillKeeps, BillPart, MoveLocks, MoveCommits,
            EndChecks, CloseCommits, DropOpens, DropCommits,
            CancelChecks, CancelOpens, CancelCommits, Breaks
      <4>2. CASE q # r
        BY <1>1, <1>5, <4>2
      <4> QED
        BY <4>1, <4>2
    <3> QED
      BY <1>5, <3>1 DEF Found
  <2>2. ~(OpenInserts(r) /\ NewSession[r] = NewSession[q])
    <3>1. CASE q = r
      BY <1>0, <1>5, <3>1 DEF OpenInserts, Finish, Go
    <3>2. CASE q # r
      BY <1>5, <3>2, NewAssumption DEF OpenInserts
    <3> QED
      BY <3>1, <3>2
  <2>3. ~((MoveCommits(r) \/ Ends(r)) /\ pick[r].session = NewSession[q])
    BY <2>1 DEF Ends, MoveCommits, BillCloses, CloseCommits, DropCommits, Found, Busy, Bills
  <2>4. session'[NewSession[q]] = session[NewSession[q]]
    BY <1>0, <2>2, <2>3, SessionChange
  <2> QED
    BY <2>1, <2>4
<1> QED
  BY <1>2, <1>3, <1>4, <1>5

LEMMA NumberedKept ==
  ASSUME TableTypeOK, Excluding, Numbered, OrderNumbersUnique, NEW r \in Requests, Step(r)
  PROVE  Numbered' /\ OrderNumbersUnique'
<1>0. /\ at \in [Requests -> Phases] /\ got \in [Requests -> Nat]
      /\ number \in [Lines -> Nat] /\ counter \in Nat /\ NewLine[r] \in Lines
  BY RequestAssumption DEF TableTypeOK
<1>1. ASSUME NEW q \in Requests, q # r
      PROVE  at'[q] = at[q] /\ got'[q] = got[q]
  BY <1>1, Locality
<1>2. CASE OrderCommits(r)
  <2>1. HoldsCounter(r) /\ got[r] = counter + 1
    BY <1>2 DEF OrderCommits, HoldsCounter, Numbered
  <2>2. counter' = counter + 1 /\ number' = [number EXCEPT ![NewLine[r]] = counter + 1]
        /\ at'[r] = "done"
    BY <1>0, <1>2, <2>1 DEF OrderCommits, Finish, Go
  <2>3. \A q \in Requests : ~HoldsCounter(q)'
    BY <1>1, <2>1, <2>2 DEF Excluding, HoldsCounter
  <2>4. \A l \in Lines : number[l] <= counter
    BY DEF Numbered
  <2>5. \A l \in Lines : number'[l] <= counter'
    BY <1>0, <2>2, <2>4
  <2>6. \A l, m \in Lines : number'[l] # 0 /\ number'[l] = number'[m] => l = m
    BY <1>0, <2>2, <2>4 DEF OrderNumbersUnique
  <2> QED
    BY <2>3, <2>5, <2>6 DEF Numbered, OrderNumbersUnique
<1>3. CASE OrderNumbers(r)
  <2>1. \A q \in Requests : ~HoldsCounter(q)
    BY <1>3 DEF OrderNumbers
  <2>2. counter' = counter /\ number' = number /\ got'[r] = counter + 1
    BY <1>0, <1>3 DEF OrderNumbers, tables
  <2>3. \A q \in Requests : HoldsCounter(q)' => q = r
    BY <1>1, <2>1 DEF HoldsCounter
  <2> QED
    BY <2>2, <2>3 DEF Numbered, OrderNumbersUnique
<1>4. CASE ~OrderCommits(r) /\ ~OrderNumbers(r)
  <2>1. counter' = counter /\ number' = number /\ got' = got
    BY <1>4
    DEF Step, tables, Check, Refuse, Hold, Finish,
        OpenLocks, OpenFinds, OpenInserts, OrderLocks,
        BillChecks, BillLocks, BillCloses, BillKeeps, BillPart, MoveLocks, MoveCommits,
        EndChecks, CloseCommits, DropOpens, DropCommits,
        CancelChecks, CancelOpens, CancelCommits, Breaks
  <2>2. ~HoldsCounter(r)'
    BY <1>0, <1>4
    DEF Step, HoldsCounter, Bills, ghosts, Go, Check, Refuse, Hold, Finish,
        OpenLocks, OpenFinds, OpenInserts, OrderLocks,
        BillChecks, BillLocks, BillCloses, BillKeeps, BillPart, MoveLocks, MoveCommits,
        EndChecks, CloseCommits, DropOpens, DropCommits,
        CancelChecks, CancelOpens, CancelCommits, Breaks
  <2>3. \A q \in Requests : HoldsCounter(q)' => HoldsCounter(q)
    BY <1>1, <2>2 DEF HoldsCounter
  <2> QED
    BY <2>1, <2>3 DEF Numbered, OrderNumbersUnique
<1> QED
  BY <1>2, <1>3, <1>4

LEMMA OneKept ==
  ASSUME TableTypeOK, Found, OneOpenSession, NEW r \in Requests, Step(r)
  PROVE  OneOpenSession'
<1> SUFFICES ASSUME NEW s \in Sessions, NEW z \in Sessions,
                    session'[s].status = "open", session'[z].status = "open",
                    session'[s].table = session'[z].table
             PROVE  s = z
  BY DEF OneOpenSession
<1> DEFINE Came(x) == \/ OpenInserts(r) /\ x = NewSession[r]
                      \/ MoveCommits(r) /\ x = pick[r].session /\ OpenAt(Table[r], session) = {}
<1>0. session \in [Sessions -> SessionRows]
  BY DEF TableTypeOK
<1>1. ASSUME NEW x \in Sessions, session'[x].status = "open"
      PROVE  session'[x] = session[x] \/ (Came(x) /\ session'[x].table = Table[r])
  <2>1. CASE session'[x] = session[x]
    BY <2>1
  <2>2. CASE /\ OpenInserts(r) /\ x = NewSession[r]
             /\ session'[x] = [status |-> "open", table |-> Table[r]]
    BY <2>2
  <2>3. CASE /\ MoveCommits(r) /\ x = pick[r].session /\ OpenAt(Table[r], session) = {}
             /\ session'[x].table = Table[r]
    BY <2>3
  <2>4. CASE session'[x].status \in {"billed", "closed", "deleted"}
    BY <1>1, <2>4
  <2> HIDE DEF Came
  <2> QED
    BY <2>1, <2>2, <2>3, <2>4, SessionChange
<1>2. ASSUME NEW x \in Sessions, Came(x) PROVE OpenAt(Table[r], session) = {}
  BY <1>2 DEF OpenInserts, Found
<1>3. ASSUME NEW x \in Sessions, NEW y \in Sessions, Came(x), session'[x].table = Table[r],
             session'[y] = session[y], session'[y].status = "open",
             session'[y].table = session'[x].table
      PROVE  FALSE
  BY <1>2, <1>3 DEF OpenAt
<1>4. ASSUME NEW x \in Sessions, NEW y \in Sessions, Came(x), Came(y) PROVE x = y
  <2>1. ~(OpenInserts(r) /\ MoveCommits(r))
    BY DEF OpenInserts, MoveCommits
  <2> QED
    BY <1>4, <2>1
<1> HIDE DEF Came
<1>5. CASE session'[s] = session[s] /\ session'[z] = session[z]
  BY <1>5 DEF OneOpenSession
<1> QED
  BY <1>1, <1>3, <1>4, <1>5

LEMMA BilledKept ==
  ASSUME TableTypeOK, Reading, Found, BilledIsEmpty, NEW r \in Requests, Step(r)
  PROVE  BilledIsEmpty'
<1> SUFFICES ASSUME NEW s \in Sessions, session'[s].status = "billed",
                    NEW l \in Lines, line'[l].session = s, line'[l].state # "gone"
             PROVE  FALSE
  BY DEF BilledIsEmpty, LinesOf
<1>0. /\ session \in [Sessions -> SessionRows] /\ line \in [Lines -> LineRows]
      /\ NewLine[r] \in Lines
  BY RequestAssumption DEF TableTypeOK
<1>1. session[s].status = "billed" \/ (BillCloses(r) /\ s = pick[r].session)
  <2>1. \/ session'[s] = session[s]
        \/ session'[s] = [status |-> "open", table |-> Table[r]]
        \/ session'[s].status = "open"
        \/ (s = pick[r].session /\ (BillCloses(r) \/ session[s].status = "billed"))
    BY SessionChange
  <2> QED
    BY <2>1
<1>2. CASE OrderCommits(r)
  <2>1. pick[r].session \in Sessions /\ session[pick[r].session].status = "open"
    BY <1>2 DEF OrderCommits, Found, Bills, HoldsSession, Busy
  <2>2. session[s].status = "billed"
    BY <1>1, <1>2 DEF OrderCommits, BillCloses, Bills
  <2>3. line'[l] = line[l] \/ line'[l].session = pick[r].session
    BY <1>0, <1>2 DEF OrderCommits
  <2>4. line'[l] = line[l]
    BY <2>1, <2>2, <2>3
  <2> QED
    BY <2>2, <2>4 DEF BilledIsEmpty, LinesOf
<1>3. CASE ~OrderCommits(r)
  <2>1. line[l].session = s /\ line[l].state # "gone"
    <3>1. CASE BillCloses(r)
      BY <1>0, <3>1 DEF BillCloses, LineRows
    <3>2. CASE DropCommits(r)
      BY <1>0, <3>2 DEF DropCommits, LineRows
    <3>3. CASE BillKeeps(r) \/ CancelCommits(r)
      BY <1>0, <3>3 DEF BillKeeps, CancelCommits, LineRows
    <3>4. CASE BillPart(r)
      <4>1. \/ line' = line
            \/ \E m, v : line' = [line EXCEPT ![m].left = v]
        <5> DEFINE m == CHOOSE m \in Chosen(r) : TRUE
                   v == view[r].line[m].left - 1
        <5>1. line' = line \/ line' = [line EXCEPT ![m].left = v]
          BY <3>4 DEF BillPart, Refuse, tables
        <5> HIDE DEF m, v
        <5> QED
          BY <5>1
      <4> QED
        BY <1>0, <4>1 DEF LineRows
    <3>5. CASE ~(BillCloses(r) \/ DropCommits(r) \/ BillKeeps(r) \/ CancelCommits(r) \/ BillPart(r))
      <4>1. line' = line
        BY <1>3, <3>5
        DEF Step, tables, Check, Refuse, Hold,
            OpenLocks, OpenFinds, OpenInserts, OrderLocks, OrderNumbers,
            BillChecks, BillLocks, MoveLocks, MoveCommits,
            EndChecks, CloseCommits, DropOpens, CancelChecks, CancelOpens, Breaks
      <4> QED
        BY <4>1
    <3> QED
      BY <3>1, <3>2, <3>3, <3>4, <3>5
  <2>2. CASE session[s].status = "billed"
    BY <2>1, <2>2 DEF BilledIsEmpty, LinesOf
  <2>3. CASE BillCloses(r) /\ s = pick[r].session
    BY <1>0, <2>1, <2>3 DEF BillCloses, LinesOf, LineRows
  <2> QED
    BY <1>1, <2>2, <2>3
<1> QED
  BY <1>2, <1>3

\* Nobody but s can be open at its table: once s ends the table is free.
LEMMA ShownFree ==
  ASSUME NEW rows, One(rows), NEW s \in Sessions, NEW t,
         rows \in [Sessions -> SessionRows],
         rows[s] = [status |-> "open", table |-> t],
         NEW st \in {"billed", "closed", "deleted"}
  PROVE  Shown(t, [rows EXCEPT ![s].status = st]) = "libre"
<1>1. OpenAt(t, [rows EXCEPT ![s].status = st]) = {}
  BY DEF OpenAt, One
<1> QED
  BY <1>1 DEF Shown

LEMMA ShowsKept ==
  ASSUME TableTypeOK, Reading, Excluding, Found, OneOpenSession, TableShowsSession,
         NEW r \in Requests, Step(r)
  PROVE  TableShowsSession'
<1> SUFFICES ASSUME NEW t \in Tables, t \notin strayed'
             PROVE  display'[t] = Shown(t, session')
  BY DEF TableShowsSession, Shown, OpenAt
<1>0. /\ session \in [Sessions -> SessionRows] /\ display \in [Tables -> {"libre", "ocupada"}]
      /\ Table[r] \in Tables
  BY RequestAssumption DEF TableTypeOK
<1> DEFINE s == pick[r].session
<1>1. strayed \subseteq strayed'
  BY DEF Step, ghosts, Check, Refuse, Hold,
       OpenLocks, OpenFinds, OpenInserts, OrderLocks, OrderNumbers, OrderCommits,
       BillChecks, BillLocks, BillCloses, BillKeeps, BillPart, MoveLocks, MoveCommits,
       EndChecks, CloseCommits, DropOpens, DropCommits,
       CancelChecks, CancelOpens, CancelCommits, Breaks
<1>2. display[t] = Shown(t, session)
  BY <1>1 DEF TableShowsSession
<1>10. ASSUME \A x \in Sessions : \/ session'[x] = session[x]
                                 \/ /\ ~(session[x].status = "open" /\ session[x].table = t)
                                    /\ session'[x].table # t
       PROVE  Shown(t, session') = Shown(t, session)
  <2>1. OpenAt(t, session') = OpenAt(t, session)
    BY <1>10 DEF OpenAt
  <2> QED
    BY <2>1 DEF Shown
<1>11. ASSUME NEW st, session' = [session EXCEPT ![s].status = st], session[s].table # t
       PROVE  Shown(t, session') = Shown(t, session)
  <2> HIDE DEF s
  <2>1. \A x \in Sessions : x # s => session'[x] = session[x]
    BY <1>0, <1>11
  <2>2. s \in Sessions => session'[s].table = session[s].table
    BY <1>0, <1>11 DEF SessionRows
  <2> QED
    BY <1>10, <1>11, <2>1, <2>2
<1>3. CASE OpenFinds(r)
  <2>1. session' = session
    BY <1>3 DEF OpenFinds
  <2>2. CASE display' = display
    BY <1>2, <2>1, <2>2
  <2>3. CASE OpenAt(Table[r], session) # {} /\ display' = [display EXCEPT ![Table[r]] = "ocupada"]
    BY <1>0, <1>2, <2>1, <2>3 DEF Shown
  <2> QED
    BY <1>3, <2>2, <2>3 DEF OpenFinds
<1>4. CASE OpenInserts(r)
  <2>1. display' = [display EXCEPT ![Table[r]] = Shown(Table[r], session')]
    BY <1>4 DEF OpenInserts
  <2>2. CASE t = Table[r]
    BY <1>0, <2>1, <2>2
  <2>3. CASE t # Table[r]
    <3>1. session[NewSession[r]].status = "none" /\ NewSession[r] \in Sessions
      BY <1>4, RequestAssumption DEF OpenInserts, Found
    <3>2. session' = [session EXCEPT ![NewSession[r]] = [status |-> "open", table |-> Table[r]]]
      BY <1>4 DEF OpenInserts
    <3>3. Shown(t, session') = Shown(t, session)
      <4>1. \A x \in Sessions : x # NewSession[r] => session'[x] = session[x]
        BY <1>0, <3>2
      <4>2. session'[NewSession[r]].table = Table[r]
        BY <1>0, <3>1, <3>2
      <4> QED
        BY <1>10, <2>3, <3>1, <4>1, <4>2
    <3> QED
      BY <1>0, <1>2, <2>1, <2>3, <3>3
  <2> QED
    BY <2>2, <2>3
<1>5. CASE BillCloses(r)
  <2>1. session' = [session EXCEPT ![s].status = "billed"]
        /\ display' = [display EXCEPT ![session[s].table] = Shown(session[s].table, session')]
    BY <1>5 DEF BillCloses
  <2>2. CASE t = session[s].table
    BY <1>0, <2>1, <2>2
  <2>3. CASE t # session[s].table
    <3>1. Shown(t, session') = Shown(t, session)
      <4> HIDE DEF s
      <4> QED
        BY <1>11, <2>1, <2>3
    <3> QED
      BY <1>0, <1>2, <2>1, <2>3, <3>1
  <2> QED
    BY <2>2, <2>3
<1>6. CASE MoveCommits(r)
  <2>1. CASE session' = session /\ display' = display
    BY <1>2, <2>1
  <2>2. CASE /\ session' = [session EXCEPT ![s].table = Table[r]]
             /\ display' = [x \in Tables |-> IF x \in {session[s].table, Table[r]}
                                             THEN Shown(x, session') ELSE display[x]]
    <3>1. CASE t \in {session[s].table, Table[r]}
      BY <2>2, <3>1
    <3>2. CASE t \notin {session[s].table, Table[r]}
      <4>1. session[s].table # t /\ Table[r] # t
        BY <3>2
      <4>2. session' = [session EXCEPT ![s].table = Table[r]]
        BY <2>2
      <4>3. Shown(t, session') = Shown(t, session)
        <5> HIDE DEF s
        <5>1. \A x \in Sessions : x # s => session'[x] = session[x]
          BY <1>0, <4>2
        <5>2. s \in Sessions => session'[s].table = Table[r]
          BY <1>0, <4>2 DEF SessionRows
        <5> QED
          BY <1>10, <4>1, <5>1, <5>2
      <4> QED
        BY <1>2, <2>2, <3>2, <4>3
    <3> QED
      BY <3>1, <3>2
  <2> QED
    BY <1>6, <2>1, <2>2 DEF MoveCommits, Refuse, tables
<1>7. CASE CloseCommits(r)
  <2>1. /\ \/ session' = session /\ session[s].status = "deleted"
           \/ session' = [session EXCEPT ![s].status = "closed"]
        /\ display' = [display EXCEPT ![pick[r].table] = Shown(pick[r].table, session')]
        /\ strayed' = strayed \cup Stray(r)
    BY <1>7 DEF CloseCommits
  <2>2. CASE t = pick[r].table
    BY <1>0, <2>1, <2>2
  <2>3. CASE t # pick[r].table
    <3>1. session[s].table # t
      BY <2>1, <2>3 DEF Stray
    <3>2. Shown(t, session') = Shown(t, session)
      <4>1. CASE session' = session
        BY <4>1
      <4>2. CASE session' = [session EXCEPT ![s].status = "closed"]
        <5> HIDE DEF s
        <5> QED
          BY <1>11, <3>1, <4>2
      <4> QED
        BY <2>1, <4>1, <4>2
    <3> QED
      BY <1>0, <1>2, <2>1, <2>3, <3>2
  <2> QED
    BY <2>2, <2>3
<1>8. CASE DropCommits(r)
  <2>0. /\ s \in Sessions /\ view[r] \in Views /\ One(view[r].session) /\ One(session)
    BY <1>8 DEF DropCommits, Found, Reading, Busy, Bills, OneOpenSession, One
  <2>1. /\ session' = [session EXCEPT ![s].status = "deleted"]
        /\ display' = [display EXCEPT ![pick[r].table] =
              Shown(pick[r].table, [view[r].session EXCEPT ![s].status = "deleted"])]
        /\ strayed' = strayed \cup Stray(r)
        /\ Kind[r] = "drop"
    BY <1>8 DEF DropCommits
  <2>2. CASE t = pick[r].table
    <3>1. /\ session[s] = [status |-> "open", table |-> t]
          /\ view[r].session[s] = [status |-> "open", table |-> t]
      BY <2>1, <2>2 DEF Stray
    <3>2. view[r].session \in [Sessions -> SessionRows]
      BY <2>0 DEF Views
    <3>3. Shown(t, session') = "libre"
      BY <1>0, <2>0, <2>1, <3>1, ShownFree
    <3>4. Shown(t, [view[r].session EXCEPT ![s].status = "deleted"]) = "libre"
      BY <2>0, <3>1, <3>2, ShownFree
    <3> QED
      BY <1>0, <2>1, <2>2, <3>3, <3>4
  <2>3. CASE t # pick[r].table
    <3>1. session[s].table # t
      <4>1. t \notin Stray(r)
        BY <2>1
      <4> QED
        BY <2>3, <4>1 DEF Stray
    <3>2. Shown(t, session') = Shown(t, session)
      <4>1. session' = [session EXCEPT ![s].status = "deleted"]
        BY <2>1
      <4> HIDE DEF s
      <4> QED
        BY <1>11, <3>1, <4>1
    <3> QED
      BY <1>0, <1>2, <2>1, <2>3, <3>2
  <2> QED
    BY <2>2, <2>3
<1>9. CASE ~(Rewrites(r) \/ OpenFinds(r))
  <2>1. session' = session /\ display' = display
    BY <1>9
    DEF Step, Rewrites, tables, Check, Refuse, Hold,
        OpenLocks, OrderLocks, OrderNumbers, OrderCommits,
        BillChecks, BillLocks, BillKeeps, BillPart, MoveLocks,
        EndChecks, DropOpens, CancelChecks, CancelOpens, CancelCommits, Breaks
  <2> QED
    BY <1>2, <2>1
<1> QED
  BY <1>3, <1>4, <1>5, <1>6, <1>7, <1>8, <1>9 DEF Rewrites

-----------------------------------------------------------------------------
LEMMA TableStart == TableInit => TableInv
<1> SUFFICES ASSUME TableInit PROVE TableInv
  OBVIOUS
<1>0. PICK mix \in Mixes : at = [r \in Requests |-> IF r \in mix THEN "new" ELSE "done"]
  BY DEF TableInit
<1>1. \A r \in Requests : at[r] \in {"new", "done"}
  BY <1>0
<1>2. TableTypeOK
  <2>1. NoPick \in Picks
    BY DEF NoPick, Picks
  <2>2. \A x \in Sessions : Units * Cardinality({l \in Lines : Served[l] = x}) \in Nat
    <3> SUFFICES ASSUME NEW x \in Sessions
                 PROVE  Units * Cardinality({l \in Lines : Served[l] = x}) \in Nat
      OBVIOUS
    <3>1. Cardinality({l \in Lines : Served[l] = x}) \in Nat
      BY RequestAssumption, FS_Subset, FS_CardinalityType
    <3> HIDE DEF Cardinality
    <3> QED
      BY <3>1, UnitsAssumption
  <2>3. amount \in [Sessions -> Nat]
    BY <2>2 DEF TableInit
  <2>4. session \in [Sessions -> SessionRows] /\ display \in [Tables -> {"libre", "ocupada"}]
    BY SeatedAssumption DEF TableInit, SessionRows
  <2>5. line \in [Lines -> LineRows]
    BY SeatedAssumption, UnitsAssumption DEF TableInit, LineRows, States
  <2>6. at \in [Requests -> Phases]
    BY <1>0 DEF Phases
  <2>7. /\ counter \in Nat /\ number \in [Lines -> Nat] /\ got \in [Requests -> Nat]
        /\ bills = {} /\ ended = {} /\ strayed = {} /\ overwritten = {}
        /\ since \in [Requests -> SUBSET Requests]
        /\ view \in [Requests -> Views \cup {None}] /\ pick \in [Requests -> Picks]
    BY <2>1 DEF TableInit
  <2> QED
    BY <2>3, <2>4, <2>5, <2>6, <2>7 DEF TableTypeOK
<1>3. Reading /\ Excluding
  BY <1>1 DEF Reading, Excluding, Busy, HoldsTable, HoldsSession, HoldsCounter
<1>4. Found
  BY <1>1, RequestAssumption, NewAssumption DEF Found, Busy, HoldsSession, TableInit
<1>5. Numbered /\ OrderNumbersUnique
  BY <1>1 DEF Numbered, OrderNumbersUnique, HoldsCounter, TableInit
<1>6. OneOpenSession
  BY SeatedAssumption DEF OneOpenSession, TableInit
<1>7. BilledIsEmpty
  BY DEF BilledIsEmpty, TableInit
<1>8. TableShowsSession
  <2> SUFFICES ASSUME NEW t \in Tables PROVE display[t] = Shown(t, session)
    BY DEF TableShowsSession
  <2>1. OpenAt(t, session) = {x \in Sessions : Seated[x] = t}
    BY NoneAssumption DEF OpenAt, TableInit
  <2>2. display[t] = IF \E x \in Sessions : Seated[x] = t THEN "ocupada" ELSE "libre"
    BY DEF TableInit
  <2> QED
    BY <2>1, <2>2 DEF Shown
<1> QED
  BY <1>2, <1>3, <1>4, <1>5, <1>6, <1>7, <1>8 DEF TableInv

LEMMA TableStep == TableInv /\ [TableNext]_tableVars => TableInv'
<1> SUFFICES ASSUME TableInv, [TableNext]_tableVars PROVE TableInv'
  OBVIOUS
<1>1. CASE UNCHANGED tableVars
  BY <1>1 DEF TableInv, TableTypeOK, Reading, Excluding, Found, Numbered, OneOpenSession,
       BilledIsEmpty, OrderNumbersUnique, TableShowsSession, HoldsTable, HoldsSession,
       HoldsCounter, OpenAt, LinesOf, Shown, tableVars, tables, local, ghosts
<1>2. CASE TableNext
  <2>1. PICK r \in Requests : Step(r)
    BY <1>2 DEF TableNext, Step
  <2>2. TableTypeOK' /\ Reading' /\ Excluding'
    BY <2>1, TypeKept, ReadingKept, ExcludingKept DEF TableInv
  <2>3. Found'
    <3>1. ASSUME NEW q \in Requests
          PROVE  /\ Kind[q] \notin {"open", "cancel"} /\ at'[q] \in Busy =>
                      /\ pick'[q].session \in Sessions
                      /\ session'[pick'[q].session].status # "none"
                 /\ \A s \in Sessions : HoldsSession(q, s)' => session'[s].status = "open"
                 /\ Kind[q] = "open" /\ at'[q] = "open" => OpenAt(Table[q], session') = {}
                 /\ Kind[q] = "open" /\ at'[q] # "done" =>
                      session'[NewSession[q]].status = "none"
      BY <2>1, FoundKept DEF TableInv
    <3> QED
      BY <3>1 DEF Found, Busy, OpenAt
  <2>4. Numbered' /\ OrderNumbersUnique' /\ OneOpenSession' /\ BilledIsEmpty'
    BY <2>1, NumberedKept, OneKept, BilledKept DEF TableInv
  <2>5. TableShowsSession'
    BY <2>1, ShowsKept DEF TableInv
  <2> QED
    BY <2>2, <2>3, <2>4, <2>5 DEF TableInv
<1> QED
  BY <1>1, <1>2

\* What the locks keep, at every step.
THEOREM TableSafe == TableSpec => []TableInv
BY TableStart, TableStep, PTL DEF TableSpec

\* The rows keep their types: no comanda is left without a unit by a bill of a
\* part of it, and no total goes below zero (BillTable, cancelComandaTx).
THEOREM TableTypeCorrect == TableSpec => []TableTypeOK
<1>1. TableInv => TableTypeOK
  BY DEF TableInv
<1> QED
  BY <1>1, TableSafe, PTL

\* A table has one open session and shows what it has, unless a close or a
\* cancellation acted on a session that moved or ended after its check
\* (OpenTableExtended, MoveSessionTable, syncTableStatusFromOpenSession).
THEOREM TablesAgree == TableSpec => []TablesFollowSessions
<1>1. TableInv => TablesFollowSessions
  BY DEF TableInv, TablesFollowSessions
<1> QED
  BY <1>1, TableSafe, PTL

\* The orders of a day are numbered apart (reserveDailyComandaNumber).
THEOREM NumbersUnique == TableSpec => []OrderNumbersUnique
<1>1. TableInv => OrderNumbersUnique
  BY DEF TableInv
<1> QED
  BY <1>1, TableSafe, PTL

\* A session billed whole keeps no comanda (AddOrder, BillTable).
THEOREM BilledEmptied == TableSpec => []BilledIsEmpty
<1>1. TableInv => BilledIsEmpty
  BY DEF TableInv
<1> QED
  BY <1>1, TableSafe, PTL

-----------------------------------------------------------------------------
\* What bills charge.  The rows of sales are the picks of the bills that
\* committed, so it is the picks that the invariant follows.

\* A bill that has chosen what to charge, or has charged it; a cancellation.
Billing(r) == Kind[r] \in Bills /\ (at[r] \in {"checked", "held"} \/ r \in ended)
Cancelling(r) == Kind[r] = "cancel" /\ (at[r] \in Busy \/ r \in ended)

\* The bills by unit that charged l, among requests E.
PartsOf(l, E) == {q \in E : Kind[q] = "part" /\ l \in Chosen(q)}

\* What was charged, who charged it, and that it was read since.
BillsArePicks ==
  /\ \A r \in ended : at[r] = "done"
  /\ \A r \in Requests : since[r] \subseteq ended
  /\ \A b \in [by : Requests, line : Lines, units : 1 .. Units] :
       b \in bills <=> /\ b.by \in ended /\ Kind[b.by] \in Bills
                       /\ [line |-> b.line, units |-> b.units] \in pick[b.by].lines

\* A comanda has been ordered if somebody charges or cancels it, is not there
\* if it has yet to be ordered, and belongs to a session that was opened.
LinesExist ==
  /\ \A l \in Lines : line[l].state = "none" <=> line[l].session = None
  /\ \A l \in Lines : line[l].session # None => session[line[l].session].status # "none"
  /\ \A r \in Requests : Kind[r] = "order" /\ at[r] # "done" => line[NewLine[r]].state = "none"
  /\ \A r \in Requests :
       Billing(r) \/ Cancelling(r) =>
         /\ pick[r].session \in Sessions
         /\ \A l \in Chosen(r) : line[l].session = pick[r].session
         /\ \A x, y \in pick[r].lines : x.line = y.line => x = y
         /\ Kind[r] \in {"part", "cancel"} => \E x \in Charges : pick[r].lines = {x}
         /\ Kind[r] = "part" => ~pick[r].close

\* A bill by unit charges one, and what it left; any other what was left when
\* it read.  Under the lock of the session what a bill reads is still so.
UnitsAreLeft ==
  /\ \A l \in Lines : line[l].left + Cardinality(PartsOf(l, ended)) = Units
  /\ \A r \in Requests : Billing(r) =>
       \A x \in pick[r].lines :
         IF Kind[r] = "part" THEN x.units = 1
         ELSE x.units + Cardinality(PartsOf(x.line, since[r])) = Units
  /\ \A r \in Requests : Kind[r] = "part" /\ at[r] = "held" =>
       \A l \in Chosen(r) : view[r].line[l] = line[l]

\* A comanda charged whole is not pending, and no later bill chooses it.
WholeOnce ==
  \A r \in ended : Kind[r] \in Bills \ {"part"} =>
    \A l \in Chosen(r) :
      /\ line[l].state # "pending"
      /\ \A q \in Requests : Billing(q) /\ r \in since[q] => l \notin Chosen(q)

ChargeInv == BillsArePicks /\ LinesExist /\ UnitsAreLeft /\ WholeOnce

-----------------------------------------------------------------------------
\* What a step of r does to the requests, the sales and the comandas.

LEMMA Progress ==
  ASSUME TableTypeOK, NEW r \in Requests, Step(r)
  PROVE  /\ at[r] # "done"
         /\ \/ ended' = ended
            \/ ended' = ended \cup {r} /\ at[r] # "new" /\ at'[r] = "done"
         /\ \/ pick' = pick /\ since' = since
            \/ /\ at[r] = "new" /\ at'[r] # "new"
               /\ since' = [since EXCEPT ![r] = ended] /\ ended' = ended
         /\ \/ bills' = bills /\ (Kind[r] \in Bills => ended' = ended)
            \/ /\ bills' = bills \cup Sold(r) /\ ended' = ended \cup {r}
               /\ Kind[r] \in Bills /\ at[r] = "held"
<1>0. at \in [Requests -> Phases]
  BY DEF TableTypeOK
<1>1. at[r] # "done"
  BY DEF Step, Bills,
       OpenLocks, OpenFinds, OpenInserts, OrderLocks, OrderNumbers, OrderCommits,
       BillChecks, BillLocks, BillCloses, BillKeeps, BillPart, MoveLocks, MoveCommits,
       EndChecks, CloseCommits, DropOpens, DropCommits,
       CancelChecks, CancelOpens, CancelCommits, Breaks
<1>2. ended' = ended \/ (ended' = ended \cup {r} /\ at[r] # "new" /\ at'[r] = "done")
  BY <1>0
  DEF Step, Bills, local, tables, ghosts, Go, Check, Refuse, Hold, Finish,
      OpenLocks, OpenFinds, OpenInserts, OrderLocks, OrderNumbers, OrderCommits,
      BillChecks, BillLocks, BillCloses, BillKeeps, BillPart, MoveLocks, MoveCommits,
      EndChecks, CloseCommits, DropOpens, DropCommits,
      CancelChecks, CancelOpens, CancelCommits, Breaks
<1>3. \/ pick' = pick /\ since' = since
      \/ /\ at[r] = "new" /\ at'[r] # "new"
         /\ since' = [since EXCEPT ![r] = ended] /\ ended' = ended
  BY <1>0
  DEF Step, Bills, local, tables, ghosts, Go, Check, Refuse, Hold, Finish,
      OpenLocks, OpenFinds, OpenInserts, OrderLocks, OrderNumbers, OrderCommits,
      BillChecks, BillLocks, BillCloses, BillKeeps, BillPart, MoveLocks, MoveCommits,
      EndChecks, CloseCommits, DropOpens, DropCommits,
      CancelChecks, CancelOpens, CancelCommits, Breaks
<1>4. \/ bills' = bills /\ (Kind[r] \in Bills => ended' = ended)
      \/ /\ bills' = bills \cup Sold(r) /\ ended' = ended \cup {r}
         /\ Kind[r] \in Bills /\ at[r] = "held"
  BY DEF Step, Bills, ghosts, Check, Refuse, Hold, Finish,
      OpenLocks, OpenFinds, OpenInserts, OrderLocks, OrderNumbers, OrderCommits,
      BillChecks, BillLocks, BillCloses, BillKeeps, BillPart, MoveLocks, MoveCommits,
      EndChecks, CloseCommits, DropOpens, DropCommits,
      CancelChecks, CancelOpens, CancelCommits, Breaks
<1> QED
  BY <1>1, <1>2, <1>3, <1>4

\* What a bill chooses: comandas pending in an open session, with what is left
\* of them, all of those pending if it will close it.
LEMMA BillPicks ==
  ASSUME TableTypeOK, NEW r \in Requests, BillChecks(r)
  PROVE  /\ pick'[r].session \in Sessions /\ session[pick'[r].session].status = "open"
         /\ at[r] = "new" /\ at'[r] = "checked" /\ since'[r] = ended
         /\ tables' = tables
         /\ \A x \in pick'[r].lines :
              /\ x \in Charges /\ x.line \in PendingOf(pick'[r].session)
              /\ x.units = IF Kind[r] = "part" THEN 1 ELSE line[x.line].left
         /\ \A x, y \in pick'[r].lines : x.line = y.line => x = y
         /\ Kind[r] = "part" => \E x \in Charges : pick'[r].lines = {x}
         /\ pick'[r].close =>
              /\ Kind[r] # "part"
              /\ \A l \in PendingOf(pick'[r].session) : \E x \in pick'[r].lines : x.line = l
<1> DEFINE part == Kind[r] = "part"
<1>0. /\ pick \in [Requests -> Picks] /\ at \in [Requests -> Phases]
      /\ since \in [Requests -> SUBSET Requests] /\ line \in [Lines -> LineRows]
  BY DEF TableTypeOK
<1>1. PICK s \in Sessions : \E ls \in (SUBSET PendingOf(s)) \ {{}} :
        /\ session[s].status = "open"
        /\ Kind[r] \in {"bill", "keep"} => ls = PendingOf(s)
        /\ Kind[r] = "part" => \E l \in ls : ls = {l} /\ line[l].left > 1
        /\ Check(r, [session |-> s, table |-> session[s].table,
                     lines |-> Charged(ls, Kind[r] = "part"),
                     close |-> Kind[r] = "bill" \/ (Kind[r] = "split" /\ ls = PendingOf(s))])
  BY DEF BillChecks
<1>2. PICK ls \in (SUBSET PendingOf(s)) \ {{}} :
        /\ session[s].status = "open"
        /\ Kind[r] \in {"bill", "keep"} => ls = PendingOf(s)
        /\ Kind[r] = "part" => \E l \in ls : ls = {l} /\ line[l].left > 1
        /\ Check(r, [session |-> s, table |-> session[s].table,
                     lines |-> Charged(ls, Kind[r] = "part"),
                     close |-> Kind[r] = "bill" \/ (Kind[r] = "split" /\ ls = PendingOf(s))])
  BY <1>1
<1>3. /\ pick'[r].session = s /\ pick'[r].lines = Charged(ls, part)
      /\ pick'[r].close = (Kind[r] = "bill" \/ (Kind[r] = "split" /\ ls = PendingOf(s)))
      /\ at'[r] = "checked" /\ since'[r] = ended /\ tables' = tables
  BY <1>0, <1>2 DEF Check, Go
<1>4. ls \subseteq Lines /\ ls \subseteq PendingOf(s)
  BY DEF PendingOf, LinesOf
<1>5. \A l \in ls : line[l].left \in 1 .. Units
  BY <1>0, <1>4 DEF LineRows
<1>6. \A x \in pick'[r].lines :
        /\ x.line \in ls /\ x = [line |-> x.line, units |-> IF part THEN 1 ELSE line[x.line].left]
        /\ x.units = (IF part THEN 1 ELSE line[x.line].left) /\ x \in Charges
  BY <1>3, <1>4, <1>5, UnitsAssumption DEF Charged, Charges
<1>7. \A l \in ls : \E x \in pick'[r].lines : x.line = l
  <2> TAKE l \in ls
  <2>1. [line |-> l, units |-> IF part THEN 1 ELSE line[l].left] \in pick'[r].lines
    BY <1>3 DEF Charged
  <2> QED
    BY <2>1
<1>8. part => \E x \in Charges : pick'[r].lines = {x}
  <2> SUFFICES ASSUME part PROVE \E x \in Charges : pick'[r].lines = {x}
    OBVIOUS
  <2>1. PICK l \in ls : ls = {l}
    BY <1>2
  <2>2. pick'[r].lines = {[line |-> l, units |-> 1]}
    BY <1>3, <2>1 DEF Charged
  <2>3. [line |-> l, units |-> 1] \in Charges
    BY <1>4, UnitsAssumption DEF Charges
  <2> QED
    BY <2>2, <2>3
<1>9. \A x, y \in pick'[r].lines : x.line = y.line => x = y
  BY <1>6
<1>10. pick'[r].close => ~part /\ ls = PendingOf(s)
  BY <1>2, <1>3
<1>11. at[r] = "new"
  BY DEF BillChecks
<1> QED
  BY <1>2, <1>3, <1>4, <1>6, <1>7, <1>8, <1>9, <1>10, <1>11

\* What a cancellation chooses.
LEMMA CancelPicks ==
  ASSUME TableTypeOK, NEW r \in Requests, CancelChecks(r)
  PROVE  \E l \in Lines :
           /\ line[l].state = "pending" /\ pick'[r].session = line[l].session
           /\ [line |-> l, units |-> line[l].left] \in Charges
           /\ pick'[r].lines = {[line |-> l, units |-> line[l].left]}
           /\ at[r] = "new" /\ at'[r] = "checked" /\ since'[r] = ended /\ tables' = tables
<1>0. /\ pick \in [Requests -> Picks] /\ at \in [Requests -> Phases]
      /\ since \in [Requests -> SUBSET Requests] /\ line \in [Lines -> LineRows]
  BY DEF TableTypeOK
<1>1. PICK l \in Lines :
        /\ line[l].state = "pending"
        /\ Check(r, [NoPick EXCEPT !.session = line[l].session,
                                   !.lines = {[line |-> l, units |-> line[l].left]}])
  BY DEF CancelChecks
<1>2. /\ pick'[r].session = line[l].session
      /\ pick'[r].lines = {[line |-> l, units |-> line[l].left]}
      /\ at'[r] = "checked" /\ since'[r] = ended /\ tables' = tables
  BY <1>0, <1>1 DEF Check, Go, NoPick
<1>3. [line |-> l, units |-> line[l].left] \in Charges
  BY <1>0 DEF LineRows, Charges
<1> QED
  BY <1>1, <1>2, <1>3 DEF CancelChecks

\* The steps that change a comanda, all of which commit.
LEMMA LineChange ==
  ASSUME TableTypeOK, Reading, NEW r \in Requests, Step(r), NEW l \in Lines
  PROVE  \/ line'[l] = line[l]
         \/ /\ OrderCommits(r) /\ l = NewLine[r]
            /\ line'[l] = [session |-> pick[r].session, state |-> "pending", left |-> Units]
         \/ /\ BillCloses(r) \/ DropCommits(r)
            /\ line[l].session = pick[r].session /\ line'[l] = [line[l] EXCEPT !.state = "gone"]
         \/ /\ BillKeeps(r) /\ l \in Chosen(r) /\ line[l].state = "pending"
            /\ line'[l] = [line[l] EXCEPT !.state = "billed"]
         \/ /\ CancelCommits(r) /\ l \in Chosen(r) /\ line[l].state = "pending"
            /\ line'[l] = [line[l] EXCEPT !.state = "cancelled"]
         \/ /\ BillPart(r) /\ ended' = ended \cup {r}
            /\ l = (CHOOSE m \in Chosen(r) : TRUE)
            /\ view[r].line[l].state = "pending" /\ view[r].line[l].left > 1
            /\ line'[l] = [line[l] EXCEPT !.left = view[r].line[l].left - 1]
<1>0. line \in [Lines -> LineRows] /\ NewLine[r] \in Lines
  BY RequestAssumption DEF TableTypeOK
<1>1. CASE OrderCommits(r)
  BY <1>0, <1>1 DEF OrderCommits
<1>2. CASE BillCloses(r)
  BY <1>0, <1>2 DEF BillCloses, LinesOf
<1>3. CASE DropCommits(r)
  BY <1>0, <1>3 DEF DropCommits, LinesOf
<1>4. CASE BillKeeps(r)
  BY <1>0, <1>4 DEF BillKeeps
<1>5. CASE CancelCommits(r)
  BY <1>0, <1>5 DEF CancelCommits
<1>6. CASE BillPart(r)
  <2> DEFINE m == CHOOSE m \in Chosen(r) : TRUE
             left == view[r].line[m].left
  <2>1. m \in Lines
    BY <1>6, ChosenType DEF BillPart, Bills, Busy
  <2>2. left \in Nat
    BY <1>6, <2>1 DEF BillPart, Reading, Views, LineRows
  <2>3. \/ line' = line
        \/ /\ line' = [line EXCEPT ![m].left = left - 1] /\ ended' = ended \cup {r}
           /\ view[r].line[m].state = "pending" /\ ~(left < 2)
    BY <1>6 DEF BillPart, Refuse, Finish, tables
  <2>4. ~(left < 2) => left > 1
    BY <2>2
  <2> HIDE DEF m
  <2>5. CASE line' = line
    BY <2>5
  <2>6. CASE line' # line
    <3>1. line' = [line EXCEPT ![m].left = left - 1]
      BY <2>3, <2>6
    <3>2. l # m => line'[l] = line[l]
      BY <1>0, <3>1
    <3>3. l = m => line'[l] = [line[l] EXCEPT !.left = left - 1]
      BY <1>0, <2>1, <3>1
    <3> QED
      BY <1>6, <2>3, <2>4, <2>6, <3>2, <3>3 DEF m
  <2> QED
    BY <2>5, <2>6
<1>7. CASE ~(\/ OrderCommits(r) \/ BillCloses(r) \/ DropCommits(r) \/ BillKeeps(r)
             \/ CancelCommits(r) \/ BillPart(r))
  <2>1. line' = line
    BY <1>7
    DEF Step, tables, Check, Refuse, Hold,
        OpenLocks, OpenFinds, OpenInserts, OrderLocks, OrderNumbers,
        BillChecks, BillLocks, MoveLocks, MoveCommits,
        EndChecks, CloseCommits, DropOpens, CancelChecks, CancelOpens, Breaks
  <2> QED
    BY <2>1
<1> QED
  BY <1>1, <1>2, <1>3, <1>4, <1>5, <1>6, <1>7

\* Who has ended keeps what he chose; who has just chosen, or has just ended.
LEMMA EndedKept ==
  ASSUME TableTypeOK, BillsArePicks, NEW r \in Requests, Step(r)
  PROVE  /\ r \notin ended /\ since' \in [Requests -> SUBSET ended]
         /\ \A q \in Requests \ {r} : at'[q] = at[q] /\ pick'[q] = pick[q] /\ since'[q] = since[q]
         /\ \A q \in ended : q # r
<1>1. r \notin ended
  BY Progress DEF BillsArePicks
<1>2. since \in [Requests -> SUBSET ended]
  BY DEF TableTypeOK, BillsArePicks
<1>3. since' = since \/ since' = [since EXCEPT ![r] = ended]
  BY Progress
<1>4. since' \in [Requests -> SUBSET ended]
  BY <1>2, <1>3
<1>5. \A q \in Requests \ {r} : since'[q] = since[q]
  BY <1>2, <1>3
<1> QED
  BY <1>1, <1>4, <1>5, Locality

LEMMA BillsKept ==
  ASSUME TableTypeOK, Reading, BillsArePicks, NEW r \in Requests, Step(r)
  PROVE  BillsArePicks'
<1>0. ended \subseteq Requests
  BY DEF TableTypeOK
<1>1. \A q \in ended' : at'[q] = "done"
  BY <1>0, EndedKept, Progress DEF BillsArePicks
<1>2. \A q \in Requests : since'[q] \subseteq ended'
  BY EndedKept, Progress
<1>3. ASSUME NEW b \in [by : Requests, line : Lines, units : 1 .. Units]
      PROVE  b \in bills' <=> /\ b.by \in ended' /\ Kind[b.by] \in Bills
                              /\ [line |-> b.line, units |-> b.units] \in pick'[b.by].lines
  <2>1. b \in bills <=> /\ b.by \in ended /\ Kind[b.by] \in Bills
                        /\ [line |-> b.line, units |-> b.units] \in pick[b.by].lines
    BY <1>3 DEF BillsArePicks
  <2>2. b.by # r => pick'[b.by] = pick[b.by] /\ (b.by \in ended' <=> b.by \in ended)
    BY EndedKept, Progress
  <2>3. CASE bills' = bills /\ (Kind[r] \in Bills => ended' = ended)
    BY <2>1, <2>2, <2>3, EndedKept
  <2>4. CASE /\ bills' = bills \cup Sold(r) /\ ended' = ended \cup {r}
             /\ Kind[r] \in Bills /\ at[r] = "held"
    <3>1. pick' = pick
      BY <2>4, Progress
    <3>2. b \in Sold(r) <=> b.by = r /\ [line |-> b.line, units |-> b.units] \in pick[r].lines
      <4>1. pick[r].lines \subseteq Charges
        BY DEF TableTypeOK, Picks
      <4>2. ASSUME b.by = r, [line |-> b.line, units |-> b.units] \in pick[r].lines
            PROVE  b \in Sold(r)
        <5>1. b = [by |-> r, line |-> b.line, units |-> b.units]
          BY <4>2
        <5> QED
          BY <4>2, <5>1 DEF Sold
      <4>3. ASSUME b \in Sold(r)
            PROVE  b.by = r /\ [line |-> b.line, units |-> b.units] \in pick[r].lines
        <5>1. PICK x \in pick[r].lines : b = [by |-> r, line |-> x.line, units |-> x.units]
          BY <4>3 DEF Sold
        <5>2. x = [line |-> x.line, units |-> x.units]
          BY <4>1 DEF Charges
        <5> QED
          BY <5>1, <5>2
      <4> QED
        BY <4>2, <4>3
    <3> QED
      BY <2>1, <2>4, <3>1, <3>2, EndedKept
  <2> QED
    BY <2>3, <2>4, Progress
<1> QED
  BY <1>1, <1>2, <1>3 DEF BillsArePicks

\* A bill that is charging was, or has just chosen; so with a cancellation.
LEMMA BillingSteps ==
  ASSUME TableTypeOK, BillsArePicks, NEW r \in Requests, Step(r), NEW q \in Requests, Billing(q)'
  PROVE  \/ Billing(q) /\ pick'[q] = pick[q] /\ since'[q] = since[q]
         \/ q = r /\ BillChecks(r)
<1>0. at \in [Requests -> Phases]
  BY DEF TableTypeOK
<1>1. CASE q # r
  <2>1. q \in ended' <=> q \in ended
    BY <1>1, Progress
  <2> QED
    BY <1>1, <2>1, EndedKept DEF Billing
<1>2. CASE q = r
  <2>0. Kind[r] \in Bills
    BY <1>2 DEF Billing
  <2>1. CASE r \in ended'
    <3>1. at[r] = "held" /\ pick' = pick /\ since' = since
      BY <2>0, <2>1, EndedKept, Progress
    <3> QED
      BY <1>2, <2>0, <3>1 DEF Billing
  <2>2. CASE at'[r] \in {"checked", "held"}
    <3>1. BillChecks(r) \/ BillLocks(r)
      BY <1>0, <2>0, <2>2
      DEF Step, Bills, Go, Refuse, Hold, Finish,
          OpenLocks, OpenFinds, OpenInserts, OrderLocks, OrderNumbers, OrderCommits,
          BillCloses, BillKeeps, BillPart, MoveLocks, MoveCommits,
          EndChecks, CloseCommits, DropOpens, DropCommits,
          CancelChecks, CancelOpens, CancelCommits, Breaks
    <3>2. CASE BillLocks(r)
      <4>1. at[r] = "checked" /\ pick' = pick /\ since' = since
        BY <3>2, Progress DEF BillLocks
      <4> QED
        BY <1>2, <2>0, <4>1 DEF Billing
    <3> QED
      BY <1>2, <3>1, <3>2
  <2> QED
    BY <1>2, <2>1, <2>2 DEF Billing
<1> QED
  BY <1>1, <1>2

LEMMA CancellingSteps ==
  ASSUME TableTypeOK, BillsArePicks, NEW r \in Requests, Step(r), NEW q \in Requests,
         Cancelling(q)'
  PROVE  \/ Cancelling(q) /\ pick'[q] = pick[q] /\ since'[q] = since[q]
         \/ q = r /\ CancelChecks(r)
<1>0. at \in [Requests -> Phases]
  BY DEF TableTypeOK
<1>1. CASE q # r
  <2>1. q \in ended' <=> q \in ended
    BY <1>1, Progress
  <2> QED
    BY <1>1, <2>1, EndedKept DEF Cancelling
<1>2. CASE q = r
  <2>0. Kind[r] = "cancel"
    BY <1>2 DEF Cancelling
  <2>1. CASE at[r] = "new"
    <3>1. CancelChecks(r)
      BY <2>0, <2>1
      DEF Step, Bills,
          OpenLocks, OpenFinds, OpenInserts, OrderLocks, OrderNumbers, OrderCommits,
          BillChecks, BillLocks, BillCloses, BillKeeps, BillPart, MoveLocks, MoveCommits,
          EndChecks, CloseCommits, DropOpens, DropCommits,
          CancelOpens, CancelCommits, Breaks
    <3> QED
      BY <1>2, <3>1
  <2>2. CASE at[r] # "new"
    <3>1. at[r] \in Busy /\ pick' = pick /\ since' = since
      BY <1>0, <2>2, Progress DEF Busy, Phases
    <3> QED
      BY <1>2, <2>0, <3>1 DEF Cancelling
  <2> QED
    BY <2>1, <2>2
<1> QED
  BY <1>1, <1>2

\* The rows of a session are changed by whoever holds it, or waits for it, but
\* for the comanda a cancellation holds.
LEMMA LineStays ==
  ASSUME TableTypeOK, Reading, Found, BillsArePicks, LinesExist, NEW r \in Requests, Step(r),
         NEW l \in Lines, line[l].session # None
  PROVE  /\ line'[l].session = line[l].session /\ line'[l].state # "none"
         /\ line'[l].state = "pending" => line[l].state = "pending"
         /\ line'[l].left # line[l].left => BillPart(r) /\ r \in ended'
         /\ line'[l] # line[l] => /\ line[l].session = pick[r].session
                                  /\ Kind[r] \in Bills \cup {"drop", "cancel"}
                                  /\ at[r] \in Busy
<1>0. line \in [Lines -> LineRows] /\ line[l].state # "none"
  BY DEF TableTypeOK, LinesExist
<1>1. CASE line'[l] = line[l]
  BY <1>0, <1>1
<1>2. CASE OrderCommits(r) /\ l = NewLine[r]
  BY <1>0, <1>2 DEF OrderCommits, LinesExist
<1>3. CASE /\ BillCloses(r) \/ DropCommits(r)
           /\ line[l].session = pick[r].session /\ line'[l] = [line[l] EXCEPT !.state = "gone"]
  BY <1>0, <1>3 DEF BillCloses, DropCommits, LineRows, Busy
<1>4. ASSUME NEW st \in {"billed", "cancelled"}, BillKeeps(r) \/ CancelCommits(r),
             l \in Chosen(r), line'[l] = [line[l] EXCEPT !.state = st]
      PROVE  /\ line'[l].session = line[l].session /\ line'[l].state = st
             /\ line'[l].left = line[l].left /\ line[l].session = pick[r].session
             /\ Kind[r] \in Bills \cup {"drop", "cancel"} /\ at[r] \in Busy
  <2>1. Billing(r) \/ Cancelling(r)
    BY <1>4 DEF BillKeeps, CancelCommits, Billing, Cancelling, Busy
  <2> QED
    BY <1>0, <1>4, <2>1 DEF LinesExist, LineRows, BillKeeps, CancelCommits, Busy
<1>5. CASE /\ BillPart(r) /\ ended' = ended \cup {r}
           /\ l = (CHOOSE m \in Chosen(r) : TRUE)
           /\ line'[l] = [line[l] EXCEPT !.left = view[r].line[l].left - 1]
  <2>1. Billing(r) /\ at[r] \in Busy /\ Kind[r] \in Bills
    BY <1>5 DEF BillPart, Billing, Bills, Busy
  <2>2. l \in Chosen(r)
    BY <1>5, <2>1, ChosenType
  <2>3. line[l].session = pick[r].session
    BY <2>1, <2>2 DEF LinesExist
  <2> QED
    BY <1>0, <1>5, <2>1, <2>3 DEF LineRows
<1> QED
  BY ZenonT(60), <1>1, <1>2, <1>3, <1>4, <1>5, LineChange

\* A comanda that is not there appears by its order only.
LEMMA LineAppears ==
  ASSUME TableTypeOK, Reading, Found, BillsArePicks, LinesExist, NEW r \in Requests, Step(r),
         NEW l \in Lines, line[l].session = None
  PROVE  \/ line'[l] = line[l]
         \/ /\ OrderCommits(r) /\ l = NewLine[r]
            /\ line'[l] = [session |-> pick[r].session, state |-> "pending", left |-> Units]
<1>1. at[r] \in Busy /\ Kind[r] \in Bills \cup {"drop"} => pick[r].session \in Sessions
  BY DEF Found, Bills
<1>2. ~((BillCloses(r) \/ DropCommits(r)) /\ line[l].session = pick[r].session)
  BY <1>1, NoneAssumption DEF BillCloses, DropCommits, Busy
<1>3. ~((BillKeeps(r) \/ CancelCommits(r) \/ BillPart(r)) /\ l \in Chosen(r))
  BY NoneAssumption
  DEF BillKeeps, CancelCommits, BillPart, Billing, Cancelling, Busy, LinesExist, Bills
<1>4. BillPart(r) => (CHOOSE m \in Chosen(r) : TRUE) \in Chosen(r)
  BY ChosenType DEF BillPart, Bills, Busy
<1> QED
  BY <1>2, <1>3, <1>4, LineChange

LEMMA LinesKept ==
  ASSUME TableTypeOK, Reading, Found, BillsArePicks, LinesExist, NEW r \in Requests, Step(r)
  PROVE  LinesExist'
<1>0. /\ line \in [Lines -> LineRows] /\ session \in [Sessions -> SessionRows]
      /\ at \in [Requests -> Phases] /\ pick \in [Requests -> Picks]
  BY DEF TableTypeOK
<1>1. ASSUME NEW l \in Lines
      PROVE  /\ line'[l].state = "none" <=> line'[l].session = None
             /\ line'[l].session # None => session'[line'[l].session].status # "none"
  <2>1. CASE line[l].session = None
    <3>1. CASE line'[l] = line[l]
      BY <2>1, <3>1 DEF LinesExist
    <3>2. CASE OrderCommits(r) /\ line'[l] = [session |-> pick[r].session, state |-> "pending",
                                              left |-> Units]
      <4>1. pick[r].session \in Sessions /\ session[pick[r].session].status # "none"
        BY <3>2 DEF OrderCommits, Found, Busy
      <4> QED
        BY <3>2, <4>1, StaysOpened, NoneAssumption
    <3> QED
      BY <2>1, <3>1, <3>2, LineAppears
  <2>2. CASE line[l].session # None
    <3>1. line[l].session \in Sessions /\ session[line[l].session].status # "none"
      BY <1>0, <2>2 DEF LinesExist, LineRows
    <3> QED
      BY <2>2, <3>1, LineStays, StaysOpened
  <2> QED
    BY <2>1, <2>2
<1>2. ASSUME NEW q \in Requests, Kind[q] = "order", at'[q] # "done"
      PROVE  line'[NewLine[q]].state = "none"
  <2>1. at[q] # "done"
    BY <1>2, Progress, EndedKept
  <2>2. line[NewLine[q]].state = "none" /\ NewLine[q] \in Lines
    BY <1>2, <2>1, RequestAssumption DEF LinesExist
  <2>3. ~(OrderCommits(r) /\ NewLine[q] = NewLine[r])
    BY <1>0, <1>2, NewAssumption DEF OrderCommits, Finish, Go
  <2> QED
    BY <2>2, <2>3, LineAppears DEF LinesExist
<1>3. ASSUME NEW q \in Requests, Billing(q)' \/ Cancelling(q)'
      PROVE  /\ pick'[q].session \in Sessions
             /\ \A l \in Chosen(q)' : line'[l].session = pick'[q].session
             /\ \A x, y \in pick'[q].lines : x.line = y.line => x = y
             /\ Kind[q] \in {"part", "cancel"} => \E x \in Charges : pick'[q].lines = {x}
             /\ Kind[q] = "part" => ~pick'[q].close
  <2>1. CASE pick'[q] = pick[q] /\ (Billing(q) \/ Cancelling(q))
    <3>1. /\ pick[q].session \in Sessions
          /\ \A l \in Chosen(q) : line[l].session = pick[q].session
          /\ \A x, y \in pick[q].lines : x.line = y.line => x = y
          /\ Kind[q] \in {"part", "cancel"} => \E x \in Charges : pick[q].lines = {x}
          /\ Kind[q] = "part" => ~pick[q].close
      BY <2>1 DEF LinesExist
    <3>2. Chosen(q)' = Chosen(q) /\ Chosen(q) \subseteq Lines
      BY <1>0, <2>1 DEF Chosen, Picks, Charges
    <3>3. \A l \in Chosen(q) : line'[l].session = pick[q].session
      BY <3>1, <3>2, LineStays, NoneAssumption
    <3> QED
      BY <2>1, <3>1, <3>2, <3>3
  <2>2. CASE q = r /\ BillChecks(r)
    <3>1. line' = line
      BY <2>2, BillPicks DEF tables
    <3>2. \A x \in pick'[r].lines : line[x.line].session = pick'[r].session
      BY <2>2, BillPicks DEF PendingOf, LinesOf
    <3>3. Kind[q] # "cancel"
      BY <2>2 DEF BillChecks, Bills
    <3> QED
      BY <2>2, <3>1, <3>2, <3>3, BillPicks DEF Chosen
  <2>3. CASE q = r /\ CancelChecks(r)
    <3>1. PICK l \in Lines :
            /\ line[l].state = "pending" /\ pick'[r].session = line[l].session
            /\ [line |-> l, units |-> line[l].left] \in Charges
            /\ pick'[r].lines = {[line |-> l, units |-> line[l].left]}
            /\ tables' = tables
      BY <2>3, CancelPicks
    <3>2. line' = line /\ line[l].session \in Sessions
      BY <1>0, <3>1 DEF tables, LinesExist, LineRows
    <3> QED
      BY <2>3, <3>1, <3>2 DEF Chosen, CancelChecks
  <2> QED
    BY <1>3, <2>1, <2>2, <2>3, BillingSteps, CancellingSteps
<1> QED
  BY <1>1, <1>2, <1>3 DEF LinesExist

\* What the commit of a bill by unit writes.
LEMMA PartCommits ==
  ASSUME TableTypeOK, Reading, BillsArePicks, LinesExist, NEW r \in Requests, Step(r),
         Kind[r] = "part", r \in ended'
  PROVE  /\ BillPart(r) /\ at[r] = "held" /\ pick' = pick /\ since' = since
         /\ \E l \in Lines :
              /\ Chosen(r) = {l} /\ \A x \in pick[r].lines : x.line = l
              /\ view[r].line[l].state = "pending" /\ view[r].line[l].left > 1
              /\ line' = [line EXCEPT ![l].left = view[r].line[l].left - 1]
              /\ amount' = LessSold(r)
<1>1. at[r] = "held" /\ pick' = pick /\ since' = since /\ ended' = ended \cup {r} /\ r \notin ended
  BY Progress, EndedKept DEF Bills
<1>2. Billing(r)
  BY <1>1 DEF Billing, Bills
<1>3. BillPart(r)
  BY <1>1, <1>2
  DEF LinesExist, Step, Bills, Check, Refuse, ghosts,
      OpenLocks, OpenFinds, OpenInserts, OrderLocks, OrderNumbers, OrderCommits,
      BillChecks, BillLocks, BillCloses, BillKeeps, MoveLocks, MoveCommits,
      EndChecks, CloseCommits, DropOpens, DropCommits,
      CancelChecks, CancelOpens, CancelCommits, Breaks
<1>4. PICK x \in Charges : pick[r].lines = {x}
  BY <1>2 DEF LinesExist
<1>5. Chosen(r) = {x.line} /\ x.line \in Lines
  BY <1>4 DEF Chosen, Charges
<1>6. (CHOOSE m \in Chosen(r) : TRUE) = x.line
  BY <1>5
<1>7. view[r].line[x.line].left \in Nat
  BY <1>1, <1>5 DEF Reading, Views, LineRows
<1>8. /\ view[r].line[x.line].state = "pending" /\ ~(view[r].line[x.line].left < 2)
      /\ line' = [line EXCEPT ![x.line].left = view[r].line[x.line].left - 1]
      /\ amount' = LessSold(r)
  BY <1>1, <1>3, <1>6 DEF BillPart, Refuse, ghosts
<1>9. view[r].line[x.line].left > 1
  BY <1>7, <1>8
<1> QED
  BY <1>1, <1>3, <1>4, <1>5, <1>8, <1>9

LEMMA PartsFinite ==
  ASSUME NEW l, NEW E \in SUBSET Requests
  PROVE  IsFiniteSet(PartsOf(l, E)) /\ Cardinality(PartsOf(l, E)) \in Nat
<1>1. PartsOf(l, E) \subseteq Requests
  BY DEF PartsOf
<1> QED
  BY <1>1, RequestAssumption, FS_Subset, FS_CardinalityType

\* The parts among requests that have ended do not change.
LEMMA PartsStay ==
  ASSUME TableTypeOK, BillsArePicks, NEW r \in Requests, Step(r), NEW l,
         NEW E \in SUBSET ended
  PROVE  PartsOf(l, E)' = PartsOf(l, E)
<1>1. \A q \in E : Chosen(q)' = Chosen(q)
  BY EndedKept DEF TableTypeOK, Chosen
<1> QED
  BY <1>1 DEF PartsOf

LEMMA LeftKept ==
  ASSUME TableTypeOK, Reading, Excluding, Found, BillsArePicks, LinesExist, UnitsAreLeft,
         NEW r \in Requests, Step(r), NEW l \in Lines
  PROVE  line'[l].left + Cardinality(PartsOf(l, ended)') = Units
<1>0. /\ line \in [Lines -> LineRows] /\ ended \subseteq Requests
      /\ line[l].left \in Nat /\ Units \in Nat
  BY UnitsAssumption DEF TableTypeOK, LineRows
<1>1. line[l].left + Cardinality(PartsOf(l, ended)) = Units
  BY DEF UnitsAreLeft
<1>2. IsFiniteSet(PartsOf(l, ended)) /\ Cardinality(PartsOf(l, ended)) \in Nat
  BY <1>0, PartsFinite
<1>3. PartsOf(l, ended)' =
        IF Kind[r] = "part" /\ r \in ended' /\ l \in Chosen(r)'
        THEN PartsOf(l, ended) \cup {r} ELSE PartsOf(l, ended)
  <2>1. \A q \in ended : Chosen(q)' = Chosen(q) /\ q # r
    BY <1>0, EndedKept DEF Chosen
  <2>2. ended' = ended \/ ended' = ended \cup {r}
    BY Progress
  <2> QED
    BY <2>1, <2>2, EndedKept DEF PartsOf
<1>4. CASE Kind[r] = "part" /\ r \in ended' /\ l \in Chosen(r)'
  <2>1. Chosen(r)' = Chosen(r) /\ at[r] = "held"
    BY <1>4, PartCommits DEF Chosen
  <2>2. PICK m \in Lines :
          /\ Chosen(r) = {m}
          /\ line' = [line EXCEPT ![m].left = view[r].line[m].left - 1]
    BY <1>4, PartCommits
  <2>3. l = m
    BY <1>4, <2>1, <2>2
  <2>4. view[r].line[l] = line[l]
    BY <1>4, <2>1 DEF UnitsAreLeft
  <2>5. line'[l].left = line[l].left - 1
    BY <1>0, <2>2, <2>3, <2>4 DEF LineRows
  <2>6. r \notin PartsOf(l, ended)
    BY EndedKept DEF PartsOf
  <2>7. Cardinality(PartsOf(l, ended) \cup {r}) = Cardinality(PartsOf(l, ended)) + 1
    BY <1>2, <2>6, FS_AddElement
  <2> HIDE DEF PartsOf
  <2>8. Cardinality(PartsOf(l, ended)') = Cardinality(PartsOf(l, ended)) + 1
    BY <1>3, <1>4, <2>7
  <2> QED
    BY <1>0, <1>1, <1>2, <2>5, <2>8
<1>5. CASE ~(Kind[r] = "part" /\ r \in ended' /\ l \in Chosen(r)')
  <2>1. Cardinality(PartsOf(l, ended)') = Cardinality(PartsOf(l, ended))
    BY <1>3, <1>5
  <2>2. CASE line'[l].left = line[l].left
    BY <1>1, <2>1, <2>2
  <2>3. CASE line'[l].left # line[l].left
    <3>1. CASE line[l].session = None
      <4>0. line'[l] = line[l] \/ line'[l] = [session |-> pick[r].session, state |-> "pending",
                                             left |-> Units]
        BY <3>1, LineAppears
      <4>1. line'[l].left = Units
        BY <2>3, <4>0
      <4>2. PartsOf(l, ended) = {}
        <5>1. ASSUME NEW q \in PartsOf(l, ended) PROVE FALSE
          <6>1. Billing(q) /\ l \in Chosen(q) /\ q \in Requests
            BY <1>0, <5>1 DEF PartsOf, Billing, Bills
          <6> QED
            BY <3>1, <6>1, NoneAssumption DEF LinesExist
        <5> QED
          BY <5>1
      <4> QED
        BY <1>0, <2>1, <4>1, <4>2, FS_EmptySet
    <3>2. CASE line[l].session # None
      <4>1. BillPart(r) /\ r \in ended'
        BY <2>3, <3>2, LineStays
      <4>2. Kind[r] = "part"
        BY <4>1 DEF BillPart
      <4>3. PICK m \in Lines :
              /\ Chosen(r) = {m} /\ pick' = pick
              /\ line' = [line EXCEPT ![m].left = view[r].line[m].left - 1]
        BY <4>1, <4>2, PartCommits
      <4>4. l # m
        BY <1>5, <4>1, <4>2, <4>3 DEF Chosen
      <4> QED
        BY <1>0, <2>3, <4>3, <4>4
    <3> QED
      BY <3>1, <3>2
  <2> QED
    BY <2>2, <2>3
<1> QED
  BY <1>4, <1>5

LEMMA UnitsKept ==
  ASSUME TableTypeOK, Reading, Excluding, Found, BillsArePicks, LinesExist, UnitsAreLeft,
         NEW r \in Requests, Step(r)
  PROVE  UnitsAreLeft'
<1>0. /\ line \in [Lines -> LineRows] /\ ended \subseteq Requests
      /\ pick \in [Requests -> Picks] /\ at \in [Requests -> Phases]
      /\ view \in [Requests -> Views \cup {None}]
  BY DEF TableTypeOK
<1>1. \A l \in Lines : line'[l].left + Cardinality(PartsOf(l, ended)') = Units
  BY LeftKept
<1>2. ASSUME NEW q \in Requests, Billing(q)', NEW x \in pick'[q].lines
      PROVE  IF Kind[q] = "part" THEN x.units = 1
             ELSE x.units + Cardinality(PartsOf(x.line, since[q])') = Units
  <2>1. CASE Billing(q) /\ pick'[q] = pick[q] /\ since'[q] = since[q]
    <3>1. since[q] \subseteq ended
      BY DEF BillsArePicks
    <3>2. PartsOf(x.line, since[q])' = PartsOf(x.line, since[q])
      <4>1. PartsOf(x.line, since[q])' = {p \in since'[q] : Kind[p] = "part" /\ x.line \in Chosen(p)'}
        BY DEF PartsOf
      <4>2. \A p \in since[q] : Chosen(p)' = Chosen(p)
        BY <1>0, <3>1, EndedKept DEF Chosen
      <4> QED
        BY <2>1, <4>1, <4>2 DEF PartsOf
    <3> QED
      BY <1>2, <2>1, <3>2 DEF UnitsAreLeft
  <2>2. CASE q = r /\ BillChecks(r)
    <3>1. /\ x.line \in Lines /\ since'[r] = ended
          /\ x.units = IF Kind[r] = "part" THEN 1 ELSE line[x.line].left
      BY <1>2, <2>2, BillPicks DEF PendingOf, LinesOf
    <3>2. PartsOf(x.line, since[r])' = PartsOf(x.line, ended)
      <4>1. PartsOf(x.line, since[r])' = {p \in since'[r] : Kind[p] = "part" /\ x.line \in Chosen(p)'}
        BY DEF PartsOf
      <4>2. \A p \in ended : Chosen(p)' = Chosen(p)
        BY <1>0, EndedKept DEF Chosen
      <4> QED
        BY <3>1, <4>1, <4>2 DEF PartsOf
    <3> QED
      BY <2>2, <3>1, <3>2 DEF UnitsAreLeft
  <2> QED
    BY <1>2, <2>1, <2>2, BillingSteps
<1>3. ASSUME NEW q \in Requests, Kind[q] = "part", at'[q] = "held", NEW l \in Chosen(q)'
      PROVE  view'[q].line[l] = line'[l]
  <2>1. CASE q # r
    <3>1. at[q] = "held" /\ pick'[q] = pick[q] /\ view'[q] = view[q] /\ l \in Chosen(q)
      BY <1>3, <2>1, Locality DEF Chosen
    <3>2. Billing(q) /\ l \in Lines
      BY <1>0, <1>3, <3>1 DEF Billing, Bills, Chosen, Picks, Charges
    <3>3. view[q].line[l] = line[l]
      BY <1>3, <3>1 DEF UnitsAreLeft
    <3>4. line[l].session = pick[q].session /\ pick[q].session \in Sessions
      BY <3>1, <3>2 DEF LinesExist
    <3>5. HoldsSession(q, line[l].session)
      BY <1>3, <3>1, <3>4 DEF HoldsSession, Bills
    <3>6. line'[l] = line[l]
      <4> SUFFICES ASSUME line'[l] # line[l] PROVE FALSE
        OBVIOUS
      <4>1. line[l].session = pick[r].session
        BY <3>2, <3>4, NoneAssumption, LineStays
      <4>2. ~HoldsSession(r, line[l].session)
        BY <2>1, <3>4, <3>5 DEF Excluding
      <4>3. ~(BillCloses(r) \/ BillKeeps(r) \/ BillPart(r) \/ OrderCommits(r))
        BY <4>1, <4>2 DEF HoldsSession, BillCloses, BillKeeps, BillPart, OrderCommits, Bills
      <4>4. ~(DropCommits(r) \/ CancelCommits(r))
        BY <2>1, <3>5, <4>1 DEF DropCommits, CancelCommits, SessionFree
      <4> QED
        BY <3>2, <4>3, <4>4, LineChange
    <3> QED
      BY <3>1, <3>3, <3>6
  <2>2. CASE q = r
    <3>1. BillLocks(r)
      BY <1>0, <1>3, <2>2
      DEF Step, Bills, Go, Check, Refuse, Hold, Finish,
          OpenLocks, OpenFinds, OpenInserts, OrderLocks, OrderNumbers, OrderCommits,
          BillChecks, BillCloses, BillKeeps, BillPart, MoveLocks, MoveCommits,
          EndChecks, CloseCommits, DropOpens, DropCommits,
          CancelChecks, CancelOpens, CancelCommits, Breaks
    <3>2. /\ view' = [view EXCEPT ![r] = [session |-> session, line |-> line, amount |-> amount]]
          /\ line' = line
      BY <1>0, <1>3, <2>2, <3>1 DEF BillLocks, Hold, Refuse, Go, tables
    <3> QED
      BY <1>0, <2>2, <3>2
  <2> QED
    BY <2>1, <2>2
<1>4. \A q \in Requests : Billing(q)' =>
        \A x \in pick'[q].lines :
          IF Kind[q] = "part" THEN x.units = 1
          ELSE x.units + Cardinality(PartsOf(x.line, since[q])') = Units
  BY <1>2
<1>5. \A q \in Requests : Kind[q] = "part" /\ at'[q] = "held" =>
        \A l \in Chosen(q)' : view'[q].line[l] = line'[l]
  BY <1>3
<1> QED
  BY <1>1, <1>4, <1>5 DEF UnitsAreLeft, PartsOf

LEMMA WholeKept ==
  ASSUME TableTypeOK, Reading, Found, BillsArePicks, LinesExist, WholeOnce,
         NEW r \in Requests, Step(r)
  PROVE  WholeOnce'
<1> SUFFICES ASSUME NEW c \in ended', Kind[c] \in Bills \ {"part"}, NEW l \in Chosen(c)'
             PROVE  /\ line'[l].state # "pending"
                    /\ \A q \in Requests : Billing(q)' /\ c \in since'[q] => l \notin Chosen(q)'
  BY DEF WholeOnce
<1>0. /\ line \in [Lines -> LineRows] /\ ended \subseteq Requests
      /\ pick \in [Requests -> Picks] /\ at \in [Requests -> Phases]
  BY DEF TableTypeOK
<1>1. c \in Requests /\ pick'[c] = pick[c] /\ Chosen(c)' = Chosen(c) /\ Billing(c)
  <2>1. CASE c \in ended
    BY <1>0, <2>1, EndedKept DEF Chosen, Billing
  <2>2. CASE c \notin ended
    <3>1. c = r /\ at[r] = "held" /\ pick' = pick
      BY <2>2, Progress
    <3> QED
      BY <3>1 DEF Chosen, Billing
  <2> QED
    BY <2>1, <2>2
<1>2. l \in Lines /\ line[l].session = pick[c].session /\ line[l].session # None
  BY <1>0, <1>1, NoneAssumption DEF LinesExist, Chosen, Picks, Charges
<1>3. CASE c \in ended
  <2>1. line'[l].state # "pending"
    BY <1>1, <1>2, <1>3, LineStays DEF WholeOnce
  <2>2. ASSUME NEW q \in Requests, Billing(q)', c \in since'[q] PROVE l \notin Chosen(q)'
    <3>1. CASE Billing(q) /\ pick'[q] = pick[q] /\ since'[q] = since[q]
      BY <1>1, <1>3, <2>2, <3>1 DEF WholeOnce, Chosen
    <3>2. CASE q = r /\ BillChecks(r)
      <4>1. line[l].state # "pending"
        BY <1>1, <1>3 DEF WholeOnce
      <4>2. \A x \in pick'[r].lines : line[x.line].state = "pending"
        BY <3>2, BillPicks DEF PendingOf
      <4> QED
        BY <3>2, <4>1, <4>2 DEF Chosen
    <3> QED
      BY <2>2, <3>1, <3>2, BillingSteps
  <2> QED
    BY <2>1, <2>2
<1>4. CASE c \notin ended
  <2>1. c = r /\ at[r] = "held" /\ Kind[r] \in Bills \ {"part"} /\ r \in ended'
    BY <1>4, Progress
  <2>2. BillCloses(r) \/ BillKeeps(r)
    BY <1>4, <2>1
    DEF Step, Bills, Check, Refuse, ghosts,
        OpenLocks, OpenFinds, OpenInserts, OrderLocks, OrderNumbers, OrderCommits,
        BillChecks, BillLocks, BillPart, MoveLocks, MoveCommits,
        EndChecks, CloseCommits, DropOpens, DropCommits,
        CancelChecks, CancelOpens, CancelCommits, Breaks
  <2>3. line'[l].state # "pending"
    <3>1. CASE BillCloses(r)
      <4>1. line' = [m \in Lines |-> IF m \in LinesOf(pick[r].session)
                                     THEN [line[m] EXCEPT !.state = "gone"] ELSE line[m]]
        BY <3>1 DEF BillCloses
      <4>2. l \in LinesOf(pick[r].session) \/ line[l].state = "gone"
        BY <1>2, <2>1 DEF LinesOf
      <4> QED
        BY <1>0, <1>2, <4>1, <4>2 DEF LineRows
    <3>2. CASE BillKeeps(r)
      BY <1>0, <1>1, <1>2, <2>1, <3>2 DEF BillKeeps, LineRows
    <3> QED
      BY <2>2, <3>1, <3>2
  <2>4. \A q \in Requests : c \notin since'[q]
    BY <1>4, EndedKept
  <2> QED
    BY <2>3, <2>4
<1> QED
  BY <1>3, <1>4

\* The units of l that each request charged.
UnitSet(l) == UNION {{b.by} \X (1 .. b.units) : b \in {b \in bills : b.line = l}}

LEMMA UnitFacts ==
  ASSUME TableTypeOK, BillsArePicks, NEW l \in Lines
  PROVE  /\ UnitsOf(l, bills) = Cardinality(UnitSet(l))
         /\ IsFiniteSet(UnitSet(l))
         /\ \A p \in UnitSet(l) :
              \E b \in bills : b.line = l /\ p[1] = b.by /\ p[2] \in 1 .. b.units /\ p = <<p[1], p[2]>>
         /\ \A q \in ended : Kind[q] \in Bills =>
              \A x \in pick[q].lines : x.line = l => {q} \X (1 .. x.units) \subseteq UnitSet(l)
<1>0. /\ bills \subseteq [by : Requests, line : Lines, units : 1 .. Units]
      /\ ended \subseteq Requests /\ pick \in [Requests -> Picks]
  BY DEF TableTypeOK
<1>1. UnitsOf(l, bills) = Cardinality(UnitSet(l))
  BY DEF UnitsOf, UnitSet
<1>2. \A p \in UnitSet(l) :
        \E b \in bills : b.line = l /\ p[1] = b.by /\ p[2] \in 1 .. b.units /\ p = <<p[1], p[2]>>
  BY DEF UnitSet
<1>3. UnitSet(l) \subseteq Requests \X (1 .. Units)
  <2> SUFFICES ASSUME NEW p \in UnitSet(l) PROVE p \in Requests \X (1 .. Units)
    OBVIOUS
  <2>1. PICK b \in bills : p[1] = b.by /\ p[2] \in 1 .. b.units /\ p = <<p[1], p[2]>>
    BY <1>2
  <2>2. b.by \in Requests /\ b.units \in 1 .. Units
    BY <1>0
  <2>3. p[2] \in 1 .. Units
    BY <2>1, <2>2, UnitsAssumption
  <2> QED
    BY <2>1, <2>2, <2>3
<1>4. IsFiniteSet(Requests \X (1 .. Units))
  <2>1. IsFiniteSet(1 .. Units)
    BY UnitsAssumption, FS_Interval
  <2> QED
    BY <2>1, RequestAssumption, FS_Product
<1>5. IsFiniteSet(UnitSet(l))
  BY <1>3, <1>4, FS_Subset
<1>6. ASSUME NEW q \in ended, Kind[q] \in Bills, NEW x \in pick[q].lines, x.line = l
      PROVE  {q} \X (1 .. x.units) \subseteq UnitSet(l)
  <2>1. x \in Charges /\ q \in Requests
    BY <1>0, <1>6 DEF Picks
  <2> DEFINE b == [by |-> q, line |-> l, units |-> x.units]
  <2>2. b \in [by : Requests, line : Lines, units : 1 .. Units]
    BY <2>1 DEF Charges
  <2>3. [line |-> b.line, units |-> b.units] = x
    BY <1>6, <2>1 DEF Charges
  <2>4. b \in bills
    BY <1>6, <2>2, <2>3 DEF BillsArePicks
  <2>5. {b.by} \X (1 .. b.units) \subseteq UnitSet(l)
    BY <2>4 DEF UnitSet
  <2> QED
    BY <2>5
<1> QED
  BY <1>1, <1>2, <1>5, <1>6

\* A comanda charged whole has been charged all its units.
AllCharged ==
  \A c \in ended : Kind[c] \in Bills \ {"part"} =>
    \A l \in Chosen(c) : UnitsOf(l, bills) >= Units

LEMMA ChargedAll == TableTypeOK /\ ChargeInv => AllCharged
<1> SUFFICES ASSUME TableTypeOK, BillsArePicks, UnitsAreLeft,
                    NEW c \in ended, Kind[c] \in Bills \ {"part"}, NEW l \in Chosen(c)
             PROVE  UnitsOf(l, bills) >= Units
  BY DEF ChargeInv, AllCharged
<1>0. /\ ended \subseteq Requests /\ pick \in [Requests -> Picks] /\ c \in Requests
      /\ since[c] \in SUBSET Requests /\ since[c] \subseteq ended
  BY DEF TableTypeOK, BillsArePicks
<1>1. PICK x \in pick[c].lines : x.line = l
  BY DEF Chosen
<1>2. x \in Charges /\ l \in Lines /\ x.units \in Nat
  BY <1>0, <1>1 DEF Picks, Charges
<1> DEFINE parts == PartsOf(l, since[c]) \X {1}
           whole == {c} \X (1 .. x.units)
<1>3. x.units + Cardinality(PartsOf(l, since[c])) = Units
  BY <1>0, <1>1 DEF UnitsAreLeft, Billing
<1>4. whole \subseteq UnitSet(l)
  BY <1>1, <1>2, UnitFacts
<1>5. parts \subseteq UnitSet(l)
  <2> SUFFICES ASSUME NEW p \in parts PROVE p \in UnitSet(l)
    OBVIOUS
  <2>0. PICK q \in PartsOf(l, since[c]) : p = <<q, 1>>
    OBVIOUS
  <2>1. q \in ended /\ Kind[q] = "part" /\ l \in Chosen(q)
    BY <1>0 DEF PartsOf
  <2>2. PICK y \in pick[q].lines : y.line = l
    BY <2>1 DEF Chosen
  <2>3. y.units = 1
    BY <1>0, <2>1, <2>2 DEF UnitsAreLeft, Billing, Bills
  <2>4. {q} \X (1 .. y.units) \subseteq UnitSet(l)
    BY <1>2, <2>1, <2>2, UnitFacts DEF Bills
  <2> QED
    BY <2>0, <2>3, <2>4
<1>6. IsFiniteSet(parts) /\ Cardinality(parts) = Cardinality(PartsOf(l, since[c]))
  <2>1. IsFiniteSet(PartsOf(l, since[c])) /\ Cardinality(PartsOf(l, since[c])) \in Nat
    BY <1>0, PartsFinite
  <2>2. IsFiniteSet({1}) /\ Cardinality({1}) = 1
    BY FS_Singleton
  <2>3. IsFiniteSet(parts) /\ Cardinality(parts) = Cardinality(PartsOf(l, since[c])) * Cardinality({1})
    BY <2>1, <2>2, FS_Product
  <2> QED
    BY <2>1, <2>2, <2>3
<1>7. IsFiniteSet(whole) /\ Cardinality(whole) = x.units
  <2>1. IsFiniteSet(1 .. x.units) /\ Cardinality(1 .. x.units) = x.units
    BY SMTT(30), <1>2, FS_Interval
  <2>2. IsFiniteSet({c}) /\ Cardinality({c}) = 1
    BY FS_Singleton
  <2>3. IsFiniteSet(whole) /\ Cardinality(whole) = Cardinality({c}) * Cardinality(1 .. x.units)
    BY <2>1, <2>2, FS_Product
  <2> QED
    BY <1>2, <2>1, <2>2, <2>3
<1>8. parts \cap whole = {}
  <2>1. c \notin PartsOf(l, since[c])
    BY DEF PartsOf
  <2> QED
    BY <2>1
<1> HIDE DEF parts, whole
<1>9. Cardinality(parts \cup whole) = Units
  <2>1. Cardinality(parts \cup whole) = Cardinality(parts) + Cardinality(whole) - Cardinality(parts \cap whole)
    BY <1>6, <1>7, FS_Union
  <2>2. Cardinality(parts \cap whole) = 0
    BY <1>8, FS_EmptySet
  <2>3. Cardinality(PartsOf(l, since[c])) \in Nat
    BY <1>0, PartsFinite
  <2> QED
    BY <1>2, <1>3, <1>6, <1>7, <2>1, <2>2, <2>3
<1>10. Cardinality(parts \cup whole) <= Cardinality(UnitSet(l))
  BY <1>2, <1>4, <1>5, UnitFacts, FS_Subset
<1> QED
  BY <1>2, <1>9, <1>10, UnitFacts

\* Charges that did not meet do not exceed the units.
LEMMA ChargesFit == TableTypeOK /\ ChargeInv => ChargedOnce
<1> SUFFICES ASSUME TableTypeOK, BillsArePicks, LinesExist, UnitsAreLeft, WholeOnce,
                    NEW l \in Lines,
                    ~ \E b, c \in bills :
                        /\ b.line = l /\ c.line = l /\ b.by # c.by
                        /\ Kind[b.by] # "part" /\ Concurrent(b.by, c.by)
             PROVE  ~(UnitsOf(l, bills) > Units)
  BY DEF ChargeInv, ChargedOnce
<1>0. /\ ended \subseteq Requests /\ pick \in [Requests -> Picks]
      /\ bills \subseteq [by : Requests, line : Lines, units : 1 .. Units]
      /\ since \in [Requests -> SUBSET Requests] /\ Units \in Nat
  BY UnitsAssumption DEF TableTypeOK
<1>1. ASSUME NEW b \in bills, b.line = l
      PROVE  /\ b.by \in ended /\ b.by \in Requests /\ Kind[b.by] \in Bills /\ l \in Chosen(b.by)
             /\ Billing(b.by)
             /\ \E x \in pick[b.by].lines : x.line = l /\ x.units = b.units
  <2>1. /\ b.by \in ended /\ Kind[b.by] \in Bills /\ b.by \in Requests
        /\ [line |-> l, units |-> b.units] \in pick[b.by].lines
    BY <1>0, <1>1 DEF BillsArePicks
  <2> QED
    BY <2>1 DEF Chosen, Billing
<1>2. ASSUME NEW b \in bills, b.line = l, Kind[b.by] = "part"
      PROVE  b.units = 1
  BY <1>1, <1>2 DEF UnitsAreLeft
<1>3. CASE \A b \in bills : b.line = l => Kind[b.by] = "part"
  <2> DEFINE parts == PartsOf(l, ended) \X {1}
  <2>1. UnitSet(l) \subseteq parts
    <3> SUFFICES ASSUME NEW p \in UnitSet(l) PROVE p \in parts
      OBVIOUS
    <3>1. PICK b \in bills : b.line = l /\ p[1] = b.by /\ p[2] \in 1 .. b.units /\ p = <<p[1], p[2]>>
      BY UnitFacts
    <3>2. b.units = 1 /\ b.by \in PartsOf(l, ended)
      BY <1>1, <1>2, <1>3, <3>1 DEF PartsOf
    <3>3. p[2] = 1
      BY <3>1, <3>2
    <3> QED
      BY <3>1, <3>2, <3>3
  <2>2. IsFiniteSet(PartsOf(l, ended)) /\ Cardinality(PartsOf(l, ended)) \in Nat
    BY <1>0, PartsFinite
  <2>3. IsFiniteSet({1}) /\ Cardinality({1}) = 1
    BY FS_Singleton
  <2>4. IsFiniteSet(parts) /\ Cardinality(parts) = Cardinality(PartsOf(l, ended)) * Cardinality({1})
    BY <2>2, <2>3, FS_Product
  <2>5. line[l].left + Cardinality(PartsOf(l, ended)) = Units /\ line[l].left \in Nat
    BY DEF UnitsAreLeft, TableTypeOK, LineRows
  <2>6. Cardinality(UnitSet(l)) <= Cardinality(parts)
    BY <2>1, <2>4, FS_Subset
  <2>7. Cardinality(UnitSet(l)) \in Nat
    BY UnitFacts, FS_CardinalityType
  <2> HIDE DEF parts, PartsOf
  <2> QED
    BY <1>0, <2>2, <2>3, <2>4, <2>5, <2>6, <2>7, UnitFacts
<1>4. CASE \E b \in bills : b.line = l /\ Kind[b.by] # "part"
  <2>1. PICK b \in bills : b.line = l /\ Kind[b.by] # "part"
    BY <1>4
  <2> DEFINE c == b.by
  <2>2. /\ c \in ended /\ c \in Requests /\ Kind[c] \in Bills \ {"part"} /\ l \in Chosen(c)
        /\ Billing(c)
    BY <1>1, <2>1
  <2>3. PICK x \in pick[c].lines : x.line = l /\ x.units = b.units
    BY <1>1, <2>1
  <2>4. ASSUME NEW d \in bills, d.line = l, d.by # c
        PROVE  d.by \in PartsOf(l, since[c])
    <3>1. d.by \in ended /\ d.by \in Requests /\ Kind[d.by] \in Bills /\ l \in Chosen(d.by)
          /\ Billing(d.by)
      BY <1>1, <2>4
    <3>2. c \notin since[d.by]
      BY <2>2, <3>1 DEF WholeOnce
    <3>3. d.by \in since[c]
      BY <2>1, <2>4, <3>2 DEF Concurrent
    <3>4. Kind[d.by] = "part"
      BY <2>2, <3>1, <3>3 DEF WholeOnce
    <3> QED
      BY <3>1, <3>3, <3>4 DEF PartsOf
  <2>5. ASSUME NEW d \in bills, d.line = l, d.by = c
        PROVE  d.units = x.units
    <3>1. PICK y \in pick[c].lines : y.line = l /\ y.units = d.units
      BY <1>1, <2>5
    <3>2. y = x
      BY <2>2, <2>3, <3>1 DEF LinesExist
    <3> QED
      BY <3>1, <3>2
  <2>6. x.units + Cardinality(PartsOf(l, since[c])) = Units
    BY <2>2, <2>3 DEF UnitsAreLeft
  <2>7. x.units \in Nat
    BY <1>0, <2>1, <2>3
  <2> DEFINE parts == PartsOf(l, since[c]) \X {1}
             whole == {c} \X (1 .. x.units)
  <2>8. UnitSet(l) \subseteq parts \cup whole
    <3> SUFFICES ASSUME NEW p \in UnitSet(l) PROVE p \in parts \/ p \in whole
      OBVIOUS
    <3>1. PICK d \in bills : d.line = l /\ p[1] = d.by /\ p[2] \in 1 .. d.units /\ p = <<p[1], p[2]>>
      BY UnitFacts
    <3>2. CASE d.by = c
      <4>1. p[2] \in 1 .. x.units
        BY <2>5, <3>1, <3>2
      <4> QED
        BY <3>1, <3>2, <4>1
    <3>3. CASE d.by # c
      <4>1. d.by \in PartsOf(l, since[c])
        BY <2>4, <3>1, <3>3
      <4>2. d.units = 1
        BY <1>2, <3>1, <4>1 DEF PartsOf
      <4>3. p[2] = 1
        BY <3>1, <4>2
      <4> QED
        BY <3>1, <4>1, <4>3
    <3> QED
      BY <3>2, <3>3
  <2>9. IsFiniteSet(PartsOf(l, since[c])) /\ Cardinality(PartsOf(l, since[c])) \in Nat
    BY <1>0, <2>2, PartsFinite
  <2>10. IsFiniteSet(parts) /\ Cardinality(parts) = Cardinality(PartsOf(l, since[c]))
    <3>1. IsFiniteSet({1}) /\ Cardinality({1}) = 1
      BY FS_Singleton
    <3>2. IsFiniteSet(parts) /\ Cardinality(parts) = Cardinality(PartsOf(l, since[c])) * Cardinality({1})
      BY <2>9, <3>1, FS_Product
    <3> QED
      BY <2>9, <3>1, <3>2
  <2>11. IsFiniteSet(whole) /\ Cardinality(whole) = x.units
    <3>1. IsFiniteSet(1 .. x.units) /\ Cardinality(1 .. x.units) = x.units
      BY SMTT(30), <2>7, FS_Interval
    <3>2. IsFiniteSet({c}) /\ Cardinality({c}) = 1
      BY FS_Singleton
    <3>3. IsFiniteSet(whole) /\ Cardinality(whole) = Cardinality({c}) * Cardinality(1 .. x.units)
      BY <3>1, <3>2, FS_Product
    <3> QED
      BY <2>7, <3>1, <3>2, <3>3
  <2> HIDE DEF parts, whole, c, PartsOf
  <2>12. /\ IsFiniteSet(parts \cup whole) /\ Cardinality(parts \cap whole) \in Nat
         /\ Cardinality(parts \cup whole) = Cardinality(parts) + Cardinality(whole) - Cardinality(parts \cap whole)
    BY <2>10, <2>11, FS_Union, FS_Intersection, FS_CardinalityType
  <2>13. Cardinality(UnitSet(l)) <= Cardinality(parts \cup whole)
    BY <2>8, <2>12, FS_Subset
  <2>14. Cardinality(UnitSet(l)) \in Nat
    BY UnitFacts, FS_CardinalityType
  <2> QED
    BY <1>0, <2>6, <2>7, <2>9, <2>10, <2>11, <2>12, <2>13, <2>14, UnitFacts
<1> QED
  BY <1>3, <1>4

LEMMA ChargesStart == TableInit => ChargeInv
<1> SUFFICES ASSUME TableInit PROVE ChargeInv
  OBVIOUS
<1>1. PICK mix \in Mixes : at = [r \in Requests |-> IF r \in mix THEN "new" ELSE "done"]
  BY DEF TableInit
<1>2. /\ ended = {} /\ bills = {} /\ \A r \in Requests : since[r] = {}
      /\ \A r \in Requests : ~Billing(r) /\ ~Cancelling(r) /\ at[r] # "held"
  BY <1>1 DEF TableInit, Billing, Cancelling, Busy
<1>3. BillsArePicks
  BY <1>2 DEF BillsArePicks
<1>4. \A l \in Lines : /\ line[l].session = Served[l] /\ line[l].left = Units
                       /\ line[l].state = IF Served[l] = None THEN "none" ELSE "pending"
  BY DEF TableInit
<1>5. LinesExist
  <2>1. \A l \in Lines : line[l].session # None => session[line[l].session].status # "none"
    BY <1>4, SeatedAssumption DEF TableInit
  <2>2. \A r \in Requests : Kind[r] = "order" => line[NewLine[r]].state = "none"
    BY <1>4, NewAssumption, RequestAssumption
  <2> QED
    BY <1>2, <1>4, <2>1, <2>2 DEF LinesExist
<1>6. UnitsAreLeft
  <2>1. \A l \in Lines : PartsOf(l, ended) = {}
    BY <1>2 DEF PartsOf
  <2>2. \A l \in Lines : Cardinality(PartsOf(l, ended)) = 0
    BY <2>1, FS_EmptySet
  <2> QED
    BY <1>2, <1>4, <2>2, UnitsAssumption DEF UnitsAreLeft
<1>7. WholeOnce
  BY <1>2 DEF WholeOnce
<1> QED
  BY <1>3, <1>5, <1>6, <1>7 DEF ChargeInv

LEMMA ChargesKept == TableInv /\ ChargeInv /\ [TableNext]_tableVars => ChargeInv'
<1> SUFFICES ASSUME TableInv, ChargeInv, [TableNext]_tableVars PROVE ChargeInv'
  OBVIOUS
<1>1. CASE UNCHANGED tableVars
  BY <1>1 DEF ChargeInv, BillsArePicks, LinesExist, UnitsAreLeft, WholeOnce, Billing, Cancelling,
       PartsOf, Chosen, tableVars, tables, local, ghosts
<1>2. CASE TableNext
  <2>1. PICK r \in Requests : Step(r)
    BY <1>2 DEF TableNext, Step
  <2> QED
    BY <2>1, BillsKept, LinesKept, UnitsKept, WholeKept DEF TableInv, ChargeInv
<1> QED
  BY <1>1, <1>2

\* What bills choose and charge, at every step.
THEOREM ChargesSafe == TableSpec => []ChargeInv
BY ChargesStart, ChargesKept, TableSafe, PTL DEF TableSpec

\* No comanda is charged beyond its units, unless a bill that took it whole
\* met another; bills by unit never do, however they meet (BillTable).
THEOREM NothingTwice == TableSpec => []ChargedOnce
<1>1. TableInv /\ ChargeInv => ChargedOnce
  BY ChargesFit DEF TableInv
<1> QED
  BY <1>1, TableSafe, ChargesSafe, PTL

-----------------------------------------------------------------------------
\* What becomes of the comandas of a session that ends.

\* Whoever ordered l did so after q had read what was pending.
OrderedAfter(l, q) == \E r \in ended : Kind[r] = "order" /\ NewLine[r] = l /\ r \notin since[q]

CancelledBy(l) == \E r \in ended : Kind[r] = "cancel" /\ l \in Chosen(r)
WhollyBilled(l) == \E r \in ended : Kind[r] \in Bills \ {"part"} /\ l \in Chosen(r)

\* Why a comanda is no longer pending, and what a bill that closes leaves out.
LinesSettle ==
  /\ \A l \in Lines : line[l].state = "cancelled" => CancelledBy(l)
  /\ \A l \in Lines : line[l].state = "billed" => WhollyBilled(l)
  /\ \A q \in Requests : Billing(q) /\ pick[q].close /\ q \notin ended =>
       \A l \in Lines : line[l].session = pick[q].session /\ line[l].state = "pending" =>
         l \in Chosen(q) \/ OrderedAfter(l, q)
  /\ \A l \in Lines :
       line[l].state = "gone" /\ session[line[l].session].status = "billed" =>
         \/ CancelledBy(l) \/ WhollyBilled(l)
         \/ \E q \in ended : pick[q].session = line[l].session /\ pick[q].close /\ OrderedAfter(l, q)

\* A session that ended stays so, and a cancellation that saw it end has
\* chosen another.
SessionsSettle ==
  /\ \A l \in Lines : line[l].state = "gone" => session[line[l].session].status # "open"
  /\ \A q \in ended : Billing(q) /\ pick[q].close =>
       session[pick[q].session].status \notin {"none", "open"}
  /\ \A r \in Requests, q \in ended :
       Kind[r] = "drop" /\ at[r] \in Busy /\ q \in since[r] /\ Billing(q) /\ pick[q].close =>
         pick[q].session # pick[r].session
  /\ SoldIsKept

SettleInv == LinesSettle /\ SessionsSettle

\* What a step of r may do to the state of a comanda, and of a session.
LEMMA LineStates ==
  ASSUME TableTypeOK, Reading, NEW r \in Requests, Step(r), NEW l \in Lines
  PROVE  \/ line'[l].state = line[l].state
         \/ OrderCommits(r) /\ l = NewLine[r] /\ line'[l].state = "pending"
         \/ /\ BillCloses(r) \/ DropCommits(r)
            /\ line[l].session = pick[r].session /\ line'[l].state = "gone"
         \/ BillKeeps(r) /\ l \in Chosen(r) /\ line[l].state = "pending" /\ line'[l].state = "billed"
         \/ /\ CancelCommits(r) /\ l \in Chosen(r) /\ line[l].state = "pending"
            /\ line'[l].state = "cancelled"
<1>0. line[l] \in LineRows
  BY DEF TableTypeOK
<1>1. \A st : [line[l] EXCEPT !.state = st].state = st
  BY <1>0 DEF LineRows
<1>2. \A n : [line[l] EXCEPT !.left = n].state = line[l].state
  BY <1>0 DEF LineRows
<1>3. [session |-> pick[r].session, state |-> "pending", left |-> Units].state = "pending"
  OBVIOUS
<1>4. \/ line'[l] = line[l]
      \/ /\ OrderCommits(r) /\ l = NewLine[r]
         /\ line'[l] = [session |-> pick[r].session, state |-> "pending", left |-> Units]
      \/ /\ BillCloses(r) \/ DropCommits(r)
         /\ line[l].session = pick[r].session /\ line'[l] = [line[l] EXCEPT !.state = "gone"]
      \/ /\ BillKeeps(r) /\ l \in Chosen(r) /\ line[l].state = "pending"
         /\ line'[l] = [line[l] EXCEPT !.state = "billed"]
      \/ /\ CancelCommits(r) /\ l \in Chosen(r) /\ line[l].state = "pending"
         /\ line'[l] = [line[l] EXCEPT !.state = "cancelled"]
      \/ line'[l] = [line[l] EXCEPT !.left = view[r].line[l].left - 1]
  BY LineChange
<1> QED
  BY <1>1, <1>2, <1>3, <1>4

LEMMA AppearsPending ==
  ASSUME TableTypeOK, Reading, Found, BillsArePicks, LinesExist, NEW r \in Requests, Step(r),
         NEW l \in Lines, line[l].session = None
  PROVE  line'[l].state \in {"none", "pending"}
<1>1. line[l].state = "none"
  BY DEF LinesExist
<1>2. \/ line'[l] = line[l]
      \/ line'[l] = [session |-> pick[r].session, state |-> "pending", left |-> Units]
  BY LineAppears
<1> QED
  BY <1>1, <1>2

LEMMA SessionStates ==
  ASSUME TableTypeOK, Found, NEW r \in Requests, Step(r), NEW s \in Sessions
  PROVE  \/ session'[s].status = session[s].status
         \/ OpenInserts(r) /\ s = NewSession[r] /\ session'[s].status = "open"
         \/ /\ Ends(r) /\ s = pick[r].session
            /\ session'[s].status \in {"billed", "closed", "deleted"}
            /\ session'[s].status = "billed" => BillCloses(r) \/ session[s].status = "billed"
<1>1. \/ session'[s] = session[s]
      \/ /\ OpenInserts(r) /\ s = NewSession[r]
         /\ session'[s] = [status |-> "open", table |-> Table[r]]
      \/ session[s].status = "open" /\ session'[s].status = "open"
      \/ /\ Ends(r) /\ s = pick[r].session
         /\ session'[s].status \in {"billed", "closed", "deleted"}
         /\ session'[s].status = "billed" => BillCloses(r) \/ session[s].status = "billed"
  BY SessionChange
<1> QED
  BY <1>1

LEMMA EndedStays ==
  ASSUME TableTypeOK, Found, NEW r \in Requests, Step(r), NEW s \in Sessions,
         session[s].status \notin {"none", "open"}
  PROVE  session'[s].status \notin {"none", "open"}
<1>1. ~(OpenInserts(r) /\ s = NewSession[r])
  BY DEF OpenInserts, Found
<1> QED
  BY <1>1, SessionStates

\* A bill that commits and closes.
LEMMA CloserCommits ==
  ASSUME TableTypeOK, BillsArePicks, LinesExist, NEW r \in Requests, Step(r),
         Kind[r] \in Bills, pick[r].close, r \in ended'
  PROVE  BillCloses(r)
<1>1. at[r] = "held" /\ r \notin ended
  BY Progress, EndedKept
<1>2. Kind[r] # "part"
  BY <1>1 DEF LinesExist, Billing
<1> QED
  BY <1>1, <1>2
  DEF Step, Bills, Check, Refuse, ghosts,
      OpenLocks, OpenFinds, OpenInserts, OrderLocks, OrderNumbers, OrderCommits,
      BillChecks, BillLocks, BillKeeps, BillPart, MoveLocks, MoveCommits,
      EndChecks, CloseCommits, DropOpens, DropCommits,
      CancelChecks, CancelOpens, CancelCommits, Breaks

\* The reasons stay, and a commit adds its own.
LEMMA ReasonsStay ==
  ASSUME TableTypeOK, BillsArePicks, NEW r \in Requests, Step(r), NEW l
  PROVE  /\ CancelledBy(l) => CancelledBy(l)'
         /\ WhollyBilled(l) => WhollyBilled(l)'
         /\ \A q \in Requests : since'[q] = since[q] /\ OrderedAfter(l, q) => OrderedAfter(l, q)'
<1>1. \A p \in ended : p \in ended' /\ Chosen(p)' = Chosen(p)
  BY Progress, EndedKept DEF TableTypeOK, Chosen
<1> QED
  BY <1>1 DEF CancelledBy, WhollyBilled, OrderedAfter

LEMMA ReasonsAdded ==
  ASSUME TableTypeOK, BillsArePicks, NEW r \in Requests, Step(r)
  PROVE  /\ CancelCommits(r) => \A l \in Chosen(r) : CancelledBy(l)'
         /\ BillKeeps(r) \/ (BillCloses(r) /\ Kind[r] # "part") =>
              \A l \in Chosen(r) : WhollyBilled(l)'
         /\ OrderCommits(r) =>
              \A q \in Requests : since'[q] = since[q] => OrderedAfter(NewLine[r], q)'
<1>1. CancelCommits(r) \/ BillKeeps(r) \/ BillCloses(r) \/ OrderCommits(r) =>
        r \in ended' /\ Chosen(r)' = Chosen(r)
  BY DEF CancelCommits, BillKeeps, BillCloses, OrderCommits, Finish, Chosen
<1>2. \A q \in Requests : since'[q] = since[q] => r \notin since'[q]
  BY EndedKept
<1> QED
  BY <1>1, <1>2
  DEF CancelledBy, WhollyBilled, OrderedAfter, CancelCommits, BillKeeps, BillCloses, OrderCommits

LEMMA LinesSettleKept ==
  ASSUME TableTypeOK, Reading, Found, BillsArePicks, LinesExist, LinesSettle, SessionsSettle,
         NEW r \in Requests, Step(r)
  PROVE  LinesSettle'
<1>0. /\ line \in [Lines -> LineRows] /\ session \in [Sessions -> SessionRows]
      /\ ended \subseteq Requests /\ pick \in [Requests -> Picks]
  BY DEF TableTypeOK
<1>1. ASSUME NEW l \in Lines, line'[l].state = "cancelled" PROVE CancelledBy(l)'
  <2>1. CASE line[l].state = "cancelled"
    BY <2>1, ReasonsStay DEF LinesSettle
  <2>2. CASE line[l].state # "cancelled"
    <3>1. CancelCommits(r) /\ l \in Chosen(r)
      BY <1>0, <1>1, <2>2, LineStates DEF LineRows
    <3> QED
      BY <3>1, ReasonsAdded
  <2> QED
    BY <2>1, <2>2
<1>2. ASSUME NEW l \in Lines, line'[l].state = "billed" PROVE WhollyBilled(l)'
  <2>1. CASE line[l].state = "billed"
    BY <2>1, ReasonsStay DEF LinesSettle
  <2>2. CASE line[l].state # "billed"
    <3>1. BillKeeps(r) /\ l \in Chosen(r)
      BY <1>0, <1>2, <2>2, LineStates DEF LineRows
    <3> QED
      BY <3>1, ReasonsAdded
  <2> QED
    BY <2>1, <2>2
<1>3. ASSUME NEW q \in Requests, Billing(q)', pick'[q].close, q \notin ended', NEW l \in Lines,
             line'[l].session = pick'[q].session, line'[l].state = "pending"
      PROVE  l \in Chosen(q)' \/ OrderedAfter(l, q)'
  <2>1. CASE Billing(q) /\ pick'[q] = pick[q] /\ since'[q] = since[q]
    <3>1. q \notin ended
      BY <1>3, Progress
    <3>2. CASE line[l].session # None
      <4>1. line[l].session = pick[q].session /\ line[l].state = "pending"
        BY <1>3, <2>1, <3>2, LineStays
      <4>2. l \in Chosen(q) \/ OrderedAfter(l, q)
        BY <1>3, <2>1, <3>1, <4>1 DEF LinesSettle
      <4> QED
        BY <2>1, <4>2, ReasonsStay DEF Chosen
    <3>3. CASE line[l].session = None
      <4>1. OrderCommits(r) /\ l = NewLine[r]
        BY <1>3, <3>3, LineAppears DEF LinesExist
      <4> QED
        BY <2>1, <4>1, ReasonsAdded
    <3> QED
      BY <3>2, <3>3
  <2>2. CASE q = r /\ BillChecks(r)
    <3>1. line' = line
      BY <2>2, BillPicks DEF tables
    <3>2. l \in PendingOf(pick'[r].session)
      BY <1>3, <2>2, <3>1 DEF PendingOf, LinesOf
    <3> QED
      BY <1>3, <2>2, <3>2, BillPicks DEF Chosen
  <2> QED
    BY <1>3, <2>1, <2>2, BillingSteps
<1>4. ASSUME NEW l \in Lines, line'[l].state = "gone", session'[line'[l].session].status = "billed"
      PROVE  \/ CancelledBy(l)' \/ WhollyBilled(l)'
             \/ \E q \in ended' :
                  /\ pick'[q].session = line'[l].session /\ pick'[q].close /\ OrderedAfter(l, q)'
  <2>0. /\ line[l].session # None /\ line'[l].session = line[l].session
        /\ line[l].session \in Sessions /\ line[l].state # "none"
    <3>1. line[l].session # None
      <4> SUFFICES ASSUME line[l].session = None PROVE FALSE
        OBVIOUS
      <4> QED
        BY <1>4, AppearsPending
    <3> QED
      BY <1>0, <3>1, LineStays DEF LineRows, LinesExist
  <2> DEFINE s == line[l].session
  <2>1. CASE line[l].state = "gone"
    <3>1. session[s].status # "open"
      BY <2>1 DEF SessionsSettle
    <3>2. ~(BillCloses(r) /\ s = pick[r].session)
      BY <2>0, <3>1 DEF BillCloses, Found, HoldsSession
    <3>3. session[s].status = "billed"
      BY <1>4, <2>0, <3>2, SessionStates
    <3>4. \/ CancelledBy(l) \/ WhollyBilled(l)
          \/ \E q \in ended : pick[q].session = s /\ pick[q].close /\ OrderedAfter(l, q)
      BY <2>1, <3>3 DEF LinesSettle
    <3>5. \A q \in ended : q \in ended' /\ pick'[q] = pick[q] /\ since'[q] = since[q] /\ q \in Requests
      BY <1>0, Progress, EndedKept
    <3> QED
      BY <2>0, <3>4, <3>5, ReasonsStay
  <2>2. CASE line[l].state # "gone"
    <3>1. (BillCloses(r) \/ DropCommits(r)) /\ line[l].session = pick[r].session
      BY <1>0, <1>4, <2>2, LineStates DEF LineRows
    <3>2. ~DropCommits(r)
      BY <1>0, <1>4, <2>0, <3>1 DEF DropCommits, SessionRows
    <3>3. /\ BillCloses(r) /\ pick[r].close /\ Billing(r) /\ r \notin ended /\ r \in ended'
          /\ pick' = pick /\ since' = since
      BY <3>1, <3>2, EndedKept DEF BillCloses, Billing, Finish
    <3>4. Kind[r] # "part"
      BY <3>3 DEF LinesExist
    <3>5. CASE line[l].state = "pending"
      <4>1. l \in Chosen(r) \/ OrderedAfter(l, r)
        BY <3>1, <3>3, <3>5 DEF LinesSettle
      <4>2. CASE l \in Chosen(r)
        BY <3>3, <3>4, <4>2, ReasonsAdded
      <4>3. CASE OrderedAfter(l, r)
        BY <2>0, <3>1, <3>3, <4>3, ReasonsStay
      <4> QED
        BY <4>1, <4>2, <4>3
    <3>6. CASE line[l].state = "billed"
      BY <3>6, ReasonsStay DEF LinesSettle
    <3>7. CASE line[l].state = "cancelled"
      BY <3>7, ReasonsStay DEF LinesSettle
    <3> QED
      BY <1>0, <2>0, <2>2, <3>5, <3>6, <3>7 DEF LineRows, States
  <2> QED
    BY <2>1, <2>2
<1> QED
  BY <1>1, <1>2, <1>3, <1>4 DEF LinesSettle

LEMMA SessionsSettleKept ==
  ASSUME TableTypeOK, Reading, Found, BillsArePicks, LinesExist, LinesSettle, SessionsSettle,
         NEW r \in Requests, Step(r)
  PROVE  SessionsSettle'
<1>0. /\ line \in [Lines -> LineRows] /\ session \in [Sessions -> SessionRows]
      /\ ended \subseteq Requests /\ pick \in [Requests -> Picks]
  BY DEF TableTypeOK
<1>1. ASSUME NEW l \in Lines, line'[l].state = "gone"
      PROVE  session'[line'[l].session].status # "open"
  <2>0. /\ line[l].session # None /\ line'[l].session = line[l].session
        /\ line[l].session \in Sessions /\ session[line[l].session].status # "none"
    <3>1. line[l].session # None
      <4> SUFFICES ASSUME line[l].session = None PROVE FALSE
        OBVIOUS
      <4> QED
        BY <1>1, AppearsPending
    <3> QED
      BY <1>0, <3>1, LineStays DEF LineRows, LinesExist
  <2>1. CASE line[l].state = "gone"
    BY <2>0, <2>1, EndedStays DEF SessionsSettle
  <2>2. CASE line[l].state # "gone"
    <3>1. (BillCloses(r) \/ DropCommits(r)) /\ line[l].session = pick[r].session
      BY <1>0, <1>1, <2>2, LineStates DEF LineRows
    <3>2. session'[line[l].session].status \in {"billed", "deleted"}
      BY <1>0, <2>0, <3>1 DEF BillCloses, DropCommits, SessionRows
    <3> QED
      BY <2>0, <3>2
  <2> QED
    BY <2>1, <2>2
<1>2. ASSUME NEW q \in ended', Billing(q)', pick'[q].close
      PROVE  session'[pick'[q].session].status \notin {"none", "open"}
  <2>1. CASE q \in ended
    <3>1. Billing(q) /\ pick'[q] = pick[q] /\ q \in Requests
      BY <1>0, <1>2, <2>1, EndedKept DEF Billing
    <3>2. pick[q].session \in Sessions
      BY <3>1 DEF LinesExist
    <3> QED
      BY <1>2, <2>1, <3>1, <3>2, EndedStays DEF SessionsSettle
  <2>2. CASE q \notin ended
    <3>1. q = r /\ Kind[r] \in Bills /\ pick' = pick /\ r \in ended'
      BY <1>2, <2>2, Progress DEF Billing
    <3>2. BillCloses(r)
      BY <1>2, <3>1, CloserCommits
    <3>3. pick[r].session \in Sessions
      BY <3>2 DEF BillCloses, Found, Bills, Busy
    <3>4. session'[pick[r].session].status = "billed"
      BY <1>0, <3>2, <3>3 DEF BillCloses, SessionRows
    <3> QED
      BY <3>1, <3>4
  <2> QED
    BY <2>1, <2>2
<1>3. ASSUME NEW p \in Requests, NEW q \in ended',
             Kind[p] = "drop", at'[p] \in Busy, q \in since'[p], Billing(q)', pick'[q].close
      PROVE  pick'[q].session # pick'[p].session
  <2>1. q \in ended /\ q \in Requests
    BY <1>0, <1>3, EndedKept
  <2>2. Billing(q) /\ pick'[q] = pick[q]
    BY <1>3, <2>1, EndedKept DEF Billing
  <2>3. CASE at[p] \in Busy /\ pick'[p] = pick[p] /\ since'[p] = since[p]
    BY <1>3, <2>1, <2>2, <2>3 DEF SessionsSettle
  <2>4. CASE p = r /\ session[pick'[r].session].status = "open"
    BY <1>3, <2>1, <2>2, <2>4 DEF SessionsSettle
  <2>5. p # r => at[p] \in Busy /\ pick'[p] = pick[p] /\ since'[p] = since[p]
    BY <1>3, EndedKept
  <2>6. p = r => \/ at[p] \in Busy /\ pick'[p] = pick[p] /\ since'[p] = since[p]
                 \/ session[pick'[r].session].status = "open"
    <3>1. CASE p = r /\ at[r] \in Busy
      BY <3>1, Progress DEF Busy
    <3>2. CASE p = r /\ at[r] \notin Busy
      BY <1>3, <3>2, Arrival
    <3> QED
      BY <3>1, <3>2
  <2> QED
    BY <2>3, <2>4, <2>5, <2>6
<1>4. ASSUME NEW q \in ended', Kind[q] \in Bills, pick'[q].close,
             session'[pick'[q].session].status = "deleted"
      PROVE  \E p \in ended' : /\ Kind[p] = "drop" /\ pick'[p].session = pick'[q].session
                               /\ q \notin since'[p]
  <2>1. q \in ended
    <3> SUFFICES ASSUME q \notin ended PROVE FALSE
      OBVIOUS
    <3>1. q = r /\ pick' = pick /\ r \in ended'
      BY Progress
    <3>2. BillCloses(r)
      BY <1>4, <3>1, CloserCommits
    <3>3. pick[r].session \in Sessions
      BY <3>2 DEF BillCloses, Found, Bills, Busy
    <3>4. session'[pick[r].session].status = "billed"
      BY <1>0, <3>2, <3>3 DEF BillCloses, SessionRows
    <3> QED
      BY <1>4, <3>1, <3>4
  <2>2. /\ Billing(q) /\ pick'[q] = pick[q] /\ q \in Requests
    BY <1>0, <1>4, <2>1, EndedKept DEF Billing
  <2> DEFINE s == pick[q].session
  <2>3. s \in Sessions /\ session[s].status \notin {"none", "open"}
    BY <1>4, <2>1, <2>2 DEF LinesExist, SessionsSettle
  <2>4. CASE session[s].status = "deleted"
    <3>1. PICK p \in ended : Kind[p] = "drop" /\ pick[p].session = s /\ q \notin since[p]
      BY <1>4, <2>1, <2>2, <2>4 DEF SessionsSettle, SoldIsKept
    <3>2. p \in ended' /\ pick'[p] = pick[p] /\ since'[p] = since[p]
      BY <1>0, Progress, EndedKept
    <3> QED
      BY <2>2, <3>1, <3>2
  <2>5. CASE session[s].status # "deleted"
    <3>1. DropCommits(r) /\ s = pick[r].session
      <4>1. session'[s] # session[s] /\ session'[s].status = "deleted"
        BY <1>4, <2>2, <2>5
      <4>2. Ends(r) /\ s = pick[r].session
        BY <2>3, <4>1, <2>5, SessionStates
      <4>3. ~BillCloses(r) /\ ~CloseCommits(r)
        BY <1>0, <2>3, <4>1, <4>2 DEF BillCloses, CloseCommits, SessionRows
      <4> QED
        BY <4>2, <4>3 DEF Ends
    <3>2. r \in ended' /\ pick' = pick /\ since' = since /\ Kind[r] = "drop" /\ at[r] \in Busy
      BY <3>1 DEF DropCommits, Finish, Busy
    <3>3. q \notin since[r]
      BY <1>4, <2>1, <2>2, <3>1, <3>2 DEF SessionsSettle
    <3> QED
      BY <3>1, <3>2, <3>3
  <2> QED
    BY <2>4, <2>5
<1>5. SoldIsKept'
  BY <1>4 DEF SoldIsKept
<1> QED
  BY <1>1, <1>2, <1>3, <1>5 DEF SessionsSettle

LEMMA SettleStart == TableInit => SettleInv
<1> SUFFICES ASSUME TableInit PROVE SettleInv
  OBVIOUS
<1>1. PICK mix \in Mixes : at = [r \in Requests |-> IF r \in mix THEN "new" ELSE "done"]
  BY DEF TableInit
<1>2. ended = {} /\ \A r \in Requests : ~Billing(r) /\ at[r] \notin Busy
  BY <1>1 DEF TableInit, Billing, Busy
<1>3. \A l \in Lines : line[l].state \in {"none", "pending"}
  BY DEF TableInit
<1> QED
  BY <1>2, <1>3 DEF SettleInv, LinesSettle, SessionsSettle, SoldIsKept

LEMMA SettleKept == TableInv /\ ChargeInv /\ SettleInv /\ [TableNext]_tableVars => SettleInv'
<1> SUFFICES ASSUME TableInv, ChargeInv, SettleInv, [TableNext]_tableVars PROVE SettleInv'
  OBVIOUS
<1>1. CASE UNCHANGED tableVars
  <2>1. LinesSettle'
    BY <1>1 DEF SettleInv, LinesSettle, Billing, CancelledBy, WhollyBilled, OrderedAfter, Chosen,
         tableVars, tables, local, ghosts
  <2>2. SessionsSettle'
    BY <1>1 DEF SettleInv, SessionsSettle, SoldIsKept, Billing, tableVars, tables, local, ghosts
  <2> QED
    BY <2>1, <2>2 DEF SettleInv
<1>2. CASE TableNext
  <2>1. PICK r \in Requests : Step(r)
    BY <1>2 DEF TableNext, Step
  <2> QED
    BY <2>1, LinesSettleKept, SessionsSettleKept DEF TableInv, ChargeInv, SettleInv
<1> QED
  BY <1>1, <1>2

LEMMA SettledIsCharged == TableInv /\ ChargeInv /\ SettleInv => BilledSettles
<1> SUFFICES ASSUME TableInv, ChargeInv, SettleInv PROVE BilledSettles
  OBVIOUS
<1>1. AllCharged
  BY ChargedAll DEF TableInv
<1>2. ClosedIsCharged
  <2> SUFFICES ASSUME NEW l \in Lines, line[l].state = "gone",
                      session[line[l].session].status = "billed"
               PROVE  \/ UnitsOf(l, bills) >= Units
                      \/ \E r \in ended : Kind[r] = "cancel" /\ l \in Chosen(r)
                      \/ \E r, q \in ended : /\ Kind[r] = "order" /\ NewLine[r] = l
                                             /\ pick[q].session = line[l].session
                                             /\ pick[q].close /\ r \notin since[q]
    BY DEF ClosedIsCharged
  <2>1. \/ CancelledBy(l) \/ WhollyBilled(l)
        \/ \E q \in ended : pick[q].session = line[l].session /\ pick[q].close /\ OrderedAfter(l, q)
    BY DEF SettleInv, LinesSettle
  <2> QED
    BY <1>1, <2>1 DEF AllCharged, CancelledBy, WhollyBilled, OrderedAfter
<1> QED
  BY <1>2 DEF TableInv, SettleInv, SessionsSettle, BilledSettles

\* What becomes of the comandas, at every step.
LEMMA SettleSafe == TableSpec => []SettleInv
BY SettleStart, SettleKept, TableSafe, ChargesSafe, PTL DEF TableSpec

\* A session billed whole is charged, but for what was ordered after the bill
\* had read or was cancelled, is empty, and is not deleted by a cancellation
\* checked after it (BillTable, AddOrder, CancelSession).
THEOREM BilledIsSettled == TableSpec => []BilledSettles
BY SettledIsCharged, TableSafe, ChargesSafe, SettleSafe, PTL

-----------------------------------------------------------------------------
\* The total of a session.

\* What keeps the total from adding up.
Met(s) == s \in overwritten \/ Clashed(s)

\* A bill or a cancellation that ended after r had read took a comanda of r's.
Crossed(r) ==
  \E q \in ended :
    Kind[q] \in Bills \cup {"cancel"} /\ Chosen(q) \cap Chosen(r) # {} /\ q \notin since[r]

\* A request about to take comandas whole.
Taking(r) ==
  \/ Kind[r] \in Bills \ {"part"} /\ at[r] \in {"checked", "held"}
  \/ Kind[r] = "cancel" /\ at[r] \in Busy

\* What it read is still pending unless it was crossed.
SeenIsPending ==
  \A r \in Requests :
    Taking(r) /\ session[pick[r].session].status = "open" /\ ~Crossed(r) =>
      \A x \in pick[r].lines : line[x.line].state = "pending" /\ line[x.line].left = x.units

\* What the total of s should be.
AddsUp(s) == amount[s] = Cardinality(Due(s)) + Cardinality(Discounted(s))

TotalInv ==
  /\ \A s \in Sessions : IsFiniteSet(Discounted(s))
  /\ \A s \in Sessions :
       session[s].status = "none" => amount[s] = 0 /\ Discounted(s) = {}
  /\ SeenIsPending
  /\ \A s \in Sessions : session[s].status = "open" => AddsUp(s) \/ Met(s)

\* The total and the comandas of a session change only by a request on it that
\* commits.
LEMMA LineCommits ==
  ASSUME TableTypeOK, Reading, NEW r \in Requests, Step(r), NEW l \in Lines, line'[l] # line[l]
  PROVE  r \in ended'
<1>1. \/ OrderCommits(r) \/ BillCloses(r) \/ DropCommits(r) \/ BillKeeps(r) \/ CancelCommits(r)
      \/ ended' = ended \cup {r}
  BY LineChange
<1> QED
  BY <1>1 DEF OrderCommits, BillCloses, DropCommits, BillKeeps, CancelCommits, Finish

LEMMA TotalCommits ==
  ASSUME TableTypeOK, NEW r \in Requests, Step(r), NEW s \in Sessions, amount'[s] # amount[s]
  PROVE  /\ r \in ended' /\ s = pick[r].session
         /\ OrderCommits(r) \/ BillKeeps(r) \/ BillPart(r) \/ CancelCommits(r)
<1>0. amount \in [Sessions -> Nat]
  BY DEF TableTypeOK
<1>1. CASE OrderCommits(r)
  BY <1>0, <1>1 DEF OrderCommits, Finish
<1>2. CASE BillKeeps(r) \/ BillPart(r)
  <2>1. amount' = LessSold(r) /\ ended' = ended \cup {r}
    BY <1>2 DEF BillKeeps, BillPart, Finish, Refuse, tables
  <2>2. \A z \in Sessions : z # pick[r].session => LessSold(r)[z] = amount[z]
    BY <1>0 DEF LessSold, SaleTotal
  <2> QED
    BY <1>2, <2>1, <2>2
<1>3. CASE CancelCommits(r)
  BY <1>0, <1>3 DEF CancelCommits, Finish
<1>4. CASE ~(OrderCommits(r) \/ BillKeeps(r) \/ BillPart(r) \/ CancelCommits(r))
  BY <1>4
  DEF Step, tables, Check, Refuse, Hold,
      OpenLocks, OpenFinds, OpenInserts, OrderLocks, OrderNumbers,
      BillChecks, BillLocks, BillCloses, MoveLocks, MoveCommits,
      EndChecks, CloseCommits, DropOpens, DropCommits, CancelChecks, CancelOpens, Breaks
<1> QED
  BY <1>1, <1>2, <1>3, <1>4

LEMMA DueStays ==
  ASSUME NEW s, \A l \in Lines : line[l].session = s \/ line'[l].session = s => line'[l] = line[l]
  PROVE  Due(s)' = Due(s)
BY DEF Due

LEMMA Elsewhere ==
  ASSUME TableTypeOK, Reading, Found, BillsArePicks, LinesExist, NEW r \in Requests, Step(r),
         NEW s \in Sessions, s # pick[r].session
  PROVE  amount'[s] = amount[s] /\ Due(s)' = Due(s)
<1>1. ASSUME NEW l \in Lines, line[l].session = s \/ line'[l].session = s
      PROVE  line'[l] = line[l]
  <2>1. CASE line[l].session = None
    <3>1. \/ line'[l] = line[l]
          \/ line'[l] = [session |-> pick[r].session, state |-> "pending", left |-> Units]
      BY <2>1, LineAppears
    <3> QED
      BY <1>1, <2>1, <3>1, NoneAssumption
  <2>2. CASE line[l].session # None
    BY <1>1, <2>2, LineStays
  <2> QED
    BY <2>1, <2>2
<1> QED
  BY <1>1, DueStays, TotalCommits

\* A session that is open after a step was, unless the step opened it.
LEMMA OpenBefore ==
  ASSUME TableTypeOK, Found, NEW r \in Requests, Step(r), NEW s \in Sessions,
         session'[s].status = "open"
  PROVE  session[s].status = "open" \/ (OpenInserts(r) /\ s = NewSession[r])
BY SessionStates

\* The discounts of session s grow by that of a bill that leaves it open.
Gives(r, s) == Kind[r] \in Bills /\ ~pick[r].close /\ pick[r].session = s
Gift(r) == {r} \X (1 .. GlobalDiscount(r))

LEMMA GiftSize ==
  ASSUME TableTypeOK, NEW r \in Requests
  PROVE  IsFiniteSet(Gift(r)) /\ Cardinality(Gift(r)) = GlobalDiscount(r)
<1> DEFINE n == GlobalDiscount(r)
<1>0. n \in Nat
  BY ChargeType
<1> HIDE DEF n
<1>1. IsFiniteSet(1 .. n) /\ Cardinality(1 .. n) = n
  BY <1>0, FS_Interval
<1>2. IsFiniteSet({r}) /\ Cardinality({r}) = 1
  BY FS_Singleton
<1>3. IsFiniteSet({r} \X (1 .. n)) /\ Cardinality({r} \X (1 .. n)) = 1 * n
  BY <1>1, <1>2, FS_Product
<1> QED
  BY <1>0, <1>3 DEF Gift, n

LEMMA DiscountedIs ==
  ASSUME NEW s
  PROVE  \A p : p \in Discounted(s) <=> \E r \in ended : Gives(r, s) /\ p \in Gift(r)
BY DEF Discounted, Gives, Gift

LEMMA DiscountsStay ==
  ASSUME TableTypeOK, BillsArePicks, NEW r \in Requests, Step(r), NEW s
  PROVE  Discounted(s)' =
           IF r \in ended' /\ Gives(r, s) THEN Discounted(s) \cup Gift(r) ELSE Discounted(s)
<1>0. ended \subseteq Requests
  BY DEF TableTypeOK
<1>1. \A q \in ended : Gift(q)' = Gift(q) /\ (Gives(q, s)' <=> Gives(q, s))
  <2> TAKE q \in ended
  <2>1. pick'[q] = pick[q]
    BY <1>0, EndedKept
  <2> QED
    BY <2>1 DEF Gift, Gives, GlobalDiscount, Charge
<1>2. r \in ended' => Gift(r)' = Gift(r) /\ (Gives(r, s)' <=> Gives(r, s))
  <2> HAVE r \in ended'
  <2>1. pick' = pick
    BY Progress, EndedKept
  <2> QED
    BY <2>1 DEF Gift, Gives, GlobalDiscount, Charge
<1>3. ended' = ended \/ ended' = ended \cup {r}
  BY Progress
<1>4. r \notin ended
  BY EndedKept
<1>5. \A p : p \in Discounted(s)' <=> \E q \in ended' : Gives(q, s)' /\ p \in Gift(q)'
  BY DEF Discounted, Gives, Gift
<1>6. \A p : p \in Discounted(s)' <=>
               p \in Discounted(s) \/ (r \in ended' /\ Gives(r, s) /\ p \in Gift(r))
  BY <1>1, <1>2, <1>3, <1>4, <1>5, DiscountedIs
<1> QED
  BY <1>6

\* What was given by others is not given again.
LEMMA GiftsApart ==
  ASSUME NEW r, r \notin ended, NEW s
  PROVE  Discounted(s) \cap Gift(r) = {}
BY DiscountedIs DEF Gift

\* Who is crossed stays so, and r crosses by its commit.
LEMMA CrossedStays ==
  ASSUME TableTypeOK, BillsArePicks, NEW r \in Requests, Step(r), NEW q \in Requests,
         pick'[q] = pick[q], since'[q] = since[q]
  PROVE  /\ Crossed(q) => Crossed(q)'
         /\ r \in ended' /\ Kind[r] \in Bills \cup {"cancel"} /\ Chosen(r) \cap Chosen(q) # {}
              => Crossed(q)'
<1>0. ended \subseteq Requests
  BY DEF TableTypeOK
<1>1. \A p \in ended : p \in ended' /\ Chosen(p)' = Chosen(p)
  BY <1>0, Progress, EndedKept DEF Chosen
<1>2. r \in ended' => Chosen(r)' = Chosen(r) /\ r \notin since'[q]
  BY Progress, EndedKept DEF Chosen
<1>3. Chosen(q)' = Chosen(q)
  BY DEF Chosen
<1> QED
  BY <1>1, <1>2, <1>3 DEF Crossed

LEMMA MetStays ==
  ASSUME TableTypeOK, BillsArePicks, NEW r \in Requests, Step(r), NEW s
  PROVE  Met(s) => Met(s)'
<1>1. \A p \in ended : /\ p \in ended' /\ pick'[p] = pick[p] /\ since'[p] = since[p]
                       /\ Chosen(p)' = Chosen(p)
  BY Progress, EndedKept DEF TableTypeOK, Chosen
<1>2. overwritten \subseteq overwritten'
  BY DEF Step, ghosts, Check, Refuse, Hold,
     OpenLocks, OpenFinds, OpenInserts, OrderLocks, OrderNumbers, OrderCommits,
     BillChecks, BillLocks, BillCloses, BillKeeps, BillPart, MoveLocks, MoveCommits,
     EndChecks, CloseCommits, DropOpens, DropCommits,
     CancelChecks, CancelOpens, CancelCommits, Breaks
<1> QED
  BY <1>1, <1>2 DEF Met, Clashed, Concurrent

\* A request that commits after having been crossed.
LEMMA CrossedMeets ==
  ASSUME TableTypeOK, BillsArePicks, NEW r \in Requests, Step(r), r \in ended',
         NEW s, s = pick[r].session, Kind[r] \in (Bills \ {"part"}) \cup {"cancel"}, Crossed(r)
  PROVE  Met(s)'
<1>0. ended \subseteq Requests
  BY DEF TableTypeOK
<1>1. PICK q \in ended :
        Kind[q] \in Bills \cup {"cancel"} /\ Chosen(q) \cap Chosen(r) # {} /\ q \notin since[r]
  BY DEF Crossed
<1>2. /\ pick' = pick /\ since' = since /\ q # r /\ q \in ended' /\ q \in Requests
      /\ r \notin since[q]
  BY <1>0, Progress, EndedKept
<1>3. Concurrent(r, q)' /\ Chosen(r)' = Chosen(r) /\ Chosen(q)' = Chosen(q)
  BY <1>1, <1>2 DEF Concurrent, Chosen
<1>4. {Kind[r], Kind[q]} \subseteq Bills \cup {"cancel"} /\ {Kind[r], Kind[q]} # {"part"}
  BY <1>1 DEF Bills
<1> QED
  BY <1>1, <1>2, <1>3, <1>4 DEF Met, Clashed

LEMMA StillSeen ==
  ASSUME TableTypeOK, Reading, Found, BillsArePicks, LinesExist, SeenIsPending,
         NEW r \in Requests, Step(r)
  PROVE  SeenIsPending'
<1> SUFFICES ASSUME NEW q \in Requests, Taking(q)',
                    session'[pick'[q].session].status = "open", ~Crossed(q)',
                    NEW x \in pick'[q].lines
             PROVE  line'[x.line].state = "pending" /\ line'[x.line].left = x.units
  BY DEF SeenIsPending
<1>0. pick \in [Requests -> Picks] /\ at \in [Requests -> Phases]
  BY DEF TableTypeOK
<1>1. CASE q = r /\ BillChecks(r)
  <2>1. Kind[r] # "part"
    BY <1>1 DEF BillChecks, Taking, Bills
  <2> QED
    BY <1>1, <2>1, BillPicks DEF tables, PendingOf
<1>2. CASE q = r /\ CancelChecks(r)
  <2>1. PICK l \in Lines :
          /\ line[l].state = "pending"
          /\ pick'[r].lines = {[line |-> l, units |-> line[l].left]} /\ tables' = tables
    BY <1>2, CancelPicks
  <2> QED
    BY <1>2, <2>1 DEF tables
<1>3. CASE (Billing(q) \/ Cancelling(q)) /\ pick'[q] = pick[q] /\ since'[q] = since[q]
  <2>0. at'[q] # "done" /\ q \notin ended
    <3>1. at'[q] # "done"
      BY DEF Taking, Busy
    <3>2. q \in ended => q \in ended' /\ at'[q] = at[q] /\ at[q] = "done"
      BY Progress, EndedKept DEF BillsArePicks
    <3> QED
      BY <3>1, <3>2
  <2>1. Taking(q)
    <3>1. Kind[q] \in (Bills \ {"part"}) \cup {"cancel"}
      BY DEF Taking
    <3> QED
      BY <1>3, <2>0, <3>1 DEF Taking, Billing, Cancelling, Bills
  <2>2. /\ pick[q].session \in Sessions /\ x.line \in Lines /\ x.line \in Chosen(q)
        /\ line[x.line].session = pick[q].session /\ line[x.line].session # None
    <3>1. x \in Charges /\ x.line \in Chosen(q)
      BY <1>0, <1>3 DEF Picks, Chosen
    <3> QED
      BY <1>3, <3>1, NoneAssumption DEF LinesExist, Charges
  <2>3. session[pick[q].session].status = "open"
    <3>1. session[pick[q].session].status # "none"
      BY <2>2 DEF LinesExist
    <3>2. OpenInserts(r) => session[NewSession[r]].status = "none"
      BY DEF OpenInserts, Found
    <3> QED
      BY <1>3, <2>2, <3>1, <3>2, OpenBefore
  <2>4. line[x.line].state = "pending" /\ line[x.line].left = x.units
    BY <1>3, <2>1, <2>3, CrossedStays DEF SeenIsPending
  <2>5. line'[x.line] = line[x.line]
    <3> SUFFICES ASSUME line'[x.line] # line[x.line] PROVE FALSE
      OBVIOUS
    <3>1. r \in ended' /\ pick[r].session = pick[q].session
      BY <2>2, LineCommits, LineStays
    <3>2. ~((BillCloses(r) \/ DropCommits(r)) /\ line[x.line].session = pick[r].session)
      <4>1. BillCloses(r) => session'[pick[r].session].status = "billed"
        BY <2>2, <3>1 DEF BillCloses, TableTypeOK, SessionRows
      <4>2. DropCommits(r) => session'[pick[r].session].status = "deleted"
        BY <2>2, <3>1 DEF DropCommits, TableTypeOK, SessionRows
      <4> QED
        BY <1>3, <3>1, <4>1, <4>2
    <3>3. ~(OrderCommits(r) /\ x.line = NewLine[r])
      BY <2>4 DEF OrderCommits, LinesExist
    <3>4. x.line \in Chosen(r) /\ Kind[r] \in Bills \cup {"cancel"}
      <4>1. CASE BillKeeps(r) /\ x.line \in Chosen(r)
        BY <4>1 DEF BillKeeps
      <4>2. CASE CancelCommits(r) /\ x.line \in Chosen(r)
        BY <4>2 DEF CancelCommits
      <4>3. CASE BillPart(r) /\ x.line = (CHOOSE m \in Chosen(r) : TRUE)
        BY <4>3, ChosenType DEF BillPart, Bills, Busy
      <4> QED
        BY <2>2, <3>2, <3>3, <4>1, <4>2, <4>3, LineChange
    <3> QED
      BY <1>3, <2>2, <3>1, <3>4, CrossedStays
  <2> QED
    BY <2>4, <2>5
<1> QED
  <2>1. Billing(q)' \/ Cancelling(q)'
    BY DEF Taking, Billing, Cancelling
  <2> QED
    BY <1>1, <1>2, <1>3, <2>1, BillingSteps, CancellingSteps

-----------------------------------------------------------------------------
\* What the commits do to the units pending and to the total.

LEMMA Apart ==
  ASSUME NEW D, IsFiniteSet(D), NEW C, IsFiniteSet(C), D \cap C = {}
  PROVE  Cardinality(D \cup C) = Cardinality(D) + Cardinality(C)
<1>1. Cardinality(D) \in Nat /\ Cardinality(C) \in Nat
  BY FS_CardinalityType
<1>2. Cardinality(D \cup C) = Cardinality(D) + Cardinality(C) - Cardinality(D \cap C)
  BY FS_Union
<1>3. Cardinality(D \cap C) = 0
  BY FS_EmptySet
<1> QED
  BY <1>1, <1>2, <1>3

LEMMA DueFinite ==
  ASSUME NEW D \in SUBSET (Lines \X (1 .. Units))
  PROVE  IsFiniteSet(D) /\ Cardinality(D) \in Nat
<1>1. IsFiniteSet(1 .. Units)
  BY UnitsAssumption, FS_Interval
<1>2. IsFiniteSet(Lines \X (1 .. Units))
  BY <1>1, RequestAssumption, FS_Product
<1> QED
  BY <1>2, FS_Subset, FS_CardinalityType

\* Units apart, and units taken away.
LEMMA Counts ==
  ASSUME NEW D \in SUBSET (Lines \X (1 .. Units)), NEW C \in SUBSET (Lines \X (1 .. Units))
  PROVE  /\ D \cap C = {} => Cardinality(D \cup C) = Cardinality(D) + Cardinality(C)
         /\ C \subseteq D => Cardinality(D) = Cardinality(D \ C) + Cardinality(C)
<1>1. IsFiniteSet(D) /\ Cardinality(D) \in Nat /\ IsFiniteSet(C) /\ Cardinality(C) \in Nat
  BY DueFinite
<1>2. IsFiniteSet(D \ C) /\ Cardinality(D \ C) \in Nat
  BY DueFinite
<1>3. ASSUME D \cap C = {} PROVE Cardinality(D \cup C) = Cardinality(D) + Cardinality(C)
  BY <1>1, <1>3, Apart
<1>4. ASSUME C \subseteq D PROVE Cardinality(D) = Cardinality(D \ C) + Cardinality(C)
  <2>1. (D \ C) \cup C = D /\ (D \ C) \cap C = {}
    BY <1>4
  <2>2. Cardinality((D \ C) \cup C) = Cardinality(D \ C) + Cardinality(C)
    BY <1>1, <1>2, <2>1, Apart
  <2> QED
    BY <2>1, <2>2
<1> QED
  BY <1>3, <1>4

LEMMA Times ==
  ASSUME NEW l \in Lines, NEW n \in 1 .. Units
  PROVE  {l} \X (1 .. n) \in SUBSET (Lines \X (1 .. Units)) /\ Cardinality({l} \X (1 .. n)) = n
<1>0. n \in Nat /\ n > 0 /\ n <= Units /\ Units \in Nat
  BY UnitsAssumption
<1>1. IsFiniteSet(1 .. n) /\ Cardinality(1 .. n) = n
  BY <1>0, FS_Interval
<1>2. IsFiniteSet({l}) /\ Cardinality({l}) = 1
  BY FS_Singleton
<1>3. Cardinality({l} \X (1 .. n)) = Cardinality({l}) * Cardinality(1 .. n)
  BY <1>1, <1>2, FS_Product
<1>4. {l} \X (1 .. n) \in SUBSET (Lines \X (1 .. Units))
  BY <1>0
<1> QED
  BY <1>0, <1>1, <1>2, <1>3, <1>4

\* n units, and of them g as a discount, leave what was due and a total that
\* added up.
LEMMA Charging ==
  ASSUME TableTypeOK, NEW s \in Sessions, IsFiniteSet(Discounted(s)), AddsUp(s),
         NEW C \in SUBSET Due(s), NEW n \in Nat, Cardinality(C) = n, NEW g \in Nat, g <= n
  PROVE  (IF amount[s] > n - g THEN amount[s] - (n - g) ELSE 0)
           = Cardinality(Due(s) \ C) + (Cardinality(Discounted(s)) + g)
<1>1. Due(s) \in SUBSET (Lines \X (1 .. Units)) /\ C \in SUBSET (Lines \X (1 .. Units))
  BY DEF Due
<1>2. Cardinality(Due(s)) = Cardinality(Due(s) \ C) + n
  BY <1>1, Counts
<1>3. Cardinality(Due(s) \ C) \in Nat /\ Cardinality(Discounted(s)) \in Nat
  BY <1>1, DueFinite, FS_CardinalityType
<1>4. amount[s] = Cardinality(Due(s)) + Cardinality(Discounted(s))
  BY DEF AddsUp
<1>5. \A d, e \in Nat :
        (IF d + n + e > n - g THEN d + n + e - (n - g) ELSE 0) = d + (e + g)
  OBVIOUS
<1> QED
  BY <1>2, <1>3, <1>4, <1>5

\* An order adds its units.
LEMMA OrderAdds ==
  ASSUME TableTypeOK, LinesExist, NEW r \in Requests, OrderCommits(r),
         NEW s \in Sessions, s = pick[r].session, IsFiniteSet(Discounted(s)), AddsUp(s)
  PROVE  amount'[s] = Cardinality(Due(s)') + Cardinality(Discounted(s))
<1> DEFINE l == NewLine[r]
           D == Due(s)
           C == {l} \X (1 .. Units)
<1>0. /\ line \in [Lines -> LineRows] /\ amount \in [Sessions -> Nat]
      /\ l \in Lines /\ Units \in 1 .. Units
  BY RequestAssumption, UnitsAssumption DEF TableTypeOK
<1>1. line[l].state = "none"
  BY DEF LinesExist, OrderCommits
<1>2. line' = [line EXCEPT ![l] = [session |-> s, state |-> "pending", left |-> Units]]
  BY DEF OrderCommits
<1>3. amount'[s] = amount[s] + Units
  BY <1>0 DEF OrderCommits
<1>4. C \in SUBSET (Lines \X (1 .. Units)) /\ Cardinality(C) = Units
  BY <1>0, Times
<1>5. D \in SUBSET (Lines \X (1 .. Units)) /\ D \cap C = {}
  BY <1>1 DEF Due
<1>6. Due(s)' = D \cup C
  <2>1. \A p \in Lines \X (1 .. Units) :
          p \in Due(s)' <=> /\ line'[p[1]].session = s /\ line'[p[1]].state = "pending"
                            /\ p[2] <= line'[p[1]].left
    BY DEF Due
  <2>2. \A m \in Lines : m # l => line'[m] = line[m]
    BY <1>0, <1>2
  <2>3. line'[l].session = s /\ line'[l].state = "pending" /\ line'[l].left = Units
    BY <1>0, <1>2
  <2>4. \A p \in Lines \X (1 .. Units) : p \in C <=> p[1] = l
    OBVIOUS
  <2>5. \A p \in Lines \X (1 .. Units) : p[2] <= Units /\ p[1] \in Lines
    BY UnitsAssumption
  <2>6. \A p \in Lines \X (1 .. Units) : p[1] # l => (p \in Due(s)' <=> p \in D)
    BY <2>1, <2>2, <2>5 DEF Due
  <2>7. \A p \in Lines \X (1 .. Units) : p[1] = l => p \in Due(s)'
    BY <2>1, <2>3, <2>5
  <2>8. Due(s)' \subseteq Lines \X (1 .. Units)
    BY DEF Due
  <2> HIDE DEF D, C, l
  <2> QED
    BY <1>4, <1>5, <2>4, <2>6, <2>7, <2>8
<1> HIDE DEF C, D
<1>7. Cardinality(D \cup C) = Cardinality(D) + Cardinality(C)
  BY <1>4, <1>5, Counts
<1>8. Cardinality(D) \in Nat /\ Cardinality(Discounted(s)) \in Nat
  BY <1>5, DueFinite, FS_CardinalityType
<1>9. amount[s] = Cardinality(D) + Cardinality(Discounted(s))
  BY DEF AddsUp, D
<1>10. \A d, e \in Nat : (d + e) + Units = (d + Units) + e
  BY UnitsAssumption
<1> QED
  BY <1>3, <1>4, <1>6, <1>7, <1>8, <1>9, <1>10

UnitsIn(ls) == UNION {{x.line} \X (1 .. x.units) : x \in ls}

\* Comandas that were pending whole, with what is charged or cancelled of
\* them, are no longer pending.
LEMMA WholeLeave ==
  ASSUME TableTypeOK, NEW s, NEW ls \in SUBSET Charges,
         \A x \in ls : /\ line[x.line].session = s /\ line[x.line].state = "pending"
                       /\ line[x.line].left = x.units,
         \A l \in Lines : IF \E x \in ls : x.line = l THEN line'[l].state # "pending"
                          ELSE line'[l] = line[l]
  PROVE  UnitsIn(ls) \in SUBSET Due(s) /\ Due(s)' = Due(s) \ UnitsIn(ls)
<1> DEFINE C == UnitsIn(ls)
<1>0. \A x \in ls : x.line \in Lines /\ x.units \in 1 .. Units /\ Units \in Nat
  BY UnitsAssumption DEF Charges
<1>1. \A p : p \in C <=> \E x \in ls : p \in {x.line} \X (1 .. x.units)
  BY DEF UnitsIn
<1>2. \A x \in ls : \A p \in {x.line} \X (1 .. x.units) :
        p \in Lines \X (1 .. Units) /\ p[1] = x.line /\ p[2] <= x.units
  BY <1>0
<1>3. \A x \in ls : \A p \in Lines \X (1 .. Units) :
        p[1] = x.line /\ p[2] <= x.units => p \in {x.line} \X (1 .. x.units)
  BY <1>0
<1> HIDE DEF C
<1>4. C \in SUBSET Due(s)
  BY <1>1, <1>2 DEF Due
<1>5. ASSUME NEW p \in Lines \X (1 .. Units) PROVE p \in Due(s)' <=> p \in Due(s) /\ p \notin C
  <2>0. p[1] \in Lines
    BY <1>5
  <2>1. CASE \E x \in ls : x.line = p[1]
    <3>1. PICK x \in ls : x.line = p[1]
      BY <2>1
    <3>2. p \notin Due(s)'
      BY <2>0, <3>1 DEF Due
    <3>3. p \in Due(s) => p \in C
      BY <1>1, <1>3, <1>5, <3>1 DEF Due
    <3> QED
      BY <3>2, <3>3
  <2>2. CASE ~ \E x \in ls : x.line = p[1]
    <3>1. p \notin C
      BY <1>1, <1>2, <2>2
    <3>2. line'[p[1]] = line[p[1]]
      BY <2>0, <2>2
    <3> QED
      BY <1>5, <3>1, <3>2 DEF Due
  <2> QED
    BY <2>1, <2>2
<1>6. Due(s) \subseteq Lines \X (1 .. Units) /\ Due(s)' \subseteq Lines \X (1 .. Units)
  BY DEF Due
<1>7. Due(s)' = Due(s) \ C
  BY <1>5, <1>6
<1> QED
  BY <1>4, <1>7 DEF C

\* A bill that keeps the session open takes off what it charged, but for its
\* discount.
LEMMA BillTakes ==
  ASSUME TableTypeOK, LinesExist, SeenIsPending, NEW r \in Requests, BillKeeps(r), ~Crossed(r),
         NEW s \in Sessions, s = pick[r].session, session[s].status = "open",
         IsFiniteSet(Discounted(s)), AddsUp(s)
  PROVE  amount'[s] = Cardinality(Due(s)') + (Cardinality(Discounted(s)) + GlobalDiscount(r))
<1> DEFINE C == UnitsIn(pick[r].lines)
<1>0. /\ line \in [Lines -> LineRows] /\ amount \in [Sessions -> Nat]
      /\ pick[r].lines \in SUBSET Charges
  BY DEF TableTypeOK, Picks
<1>1. \A x \in pick[r].lines :
        /\ line[x.line].session = s /\ line[x.line].state = "pending"
        /\ line[x.line].left = x.units
  BY DEF SeenIsPending, Taking, LinesExist, Billing, Chosen, BillKeeps
<1>2. \A l \in Lines : IF \E x \in pick[r].lines : x.line = l THEN line'[l].state # "pending"
                       ELSE line'[l] = line[l]
  <2>1. \A l \in Lines : line'[l] = IF l \in Chosen(r) /\ line[l].state = "pending"
                                    THEN [line[l] EXCEPT !.state = "billed"] ELSE line[l]
    BY DEF BillKeeps
  <2>2. \A l \in Lines : l \in Chosen(r) <=> \E x \in pick[r].lines : x.line = l
    BY DEF Chosen
  <2>3. \A l \in Lines : [line[l] EXCEPT !.state = "billed"].state = "billed"
    BY <1>0 DEF LineRows
  <2> QED
    BY <2>1, <2>2, <2>3
<1>3. C \in SUBSET Due(s) /\ Due(s)' = Due(s) \ C
  BY <1>0, <1>1, <1>2, WholeLeave
<1>4. Cardinality(C) = Charge(r)
  BY DEF Charge, UnitsIn
<1>5. amount'[s] = IF amount[s] > Charge(r) - GlobalDiscount(r)
                   THEN amount[s] - (Charge(r) - GlobalDiscount(r)) ELSE 0
  BY <1>0, Zenon DEF BillKeeps, LessSold, SaleTotal
<1> HIDE DEF C
<1> QED
  BY <1>3, <1>4, <1>5, ChargeType, Charging

\* A cancellation takes off what it cancelled, if the total is what it read.
LEMMA CancelTakes ==
  ASSUME TableTypeOK, LinesExist, SeenIsPending, NEW r \in Requests, CancelCommits(r), ~Crossed(r),
         NEW s \in Sessions, s = pick[r].session, session[s].status = "open",
         IsFiniteSet(Discounted(s)), AddsUp(s), view[r].amount[s] = amount[s]
  PROVE  amount'[s] = Cardinality(Due(s)') + Cardinality(Discounted(s))
<1>0. /\ line \in [Lines -> LineRows] /\ amount \in [Sessions -> Nat]
      /\ pick[r].lines \in SUBSET Charges /\ Cancelling(r) /\ Taking(r)
  BY DEF TableTypeOK, Picks, CancelCommits, Cancelling, Taking, Busy
<1>1. \A x \in pick[r].lines :
        /\ line[x.line].session = s /\ line[x.line].state = "pending"
        /\ line[x.line].left = x.units
  BY <1>0 DEF SeenIsPending, LinesExist, Chosen
<1>2. PICK x \in Charges : pick[r].lines = {x}
  BY <1>0 DEF LinesExist, CancelCommits
<1> DEFINE C == UnitsIn(pick[r].lines)
<1>3. C = {x.line} \X (1 .. x.units)
  BY <1>2 DEF UnitsIn
<1>4. Cardinality(C) = x.units /\ x.units \in Nat
  BY <1>3, Times, UnitsAssumption DEF Charges
<1>5. \A l \in Lines : IF \E y \in pick[r].lines : y.line = l THEN line'[l].state # "pending"
                       ELSE line'[l] = line[l]
  <2>1. \A l \in Lines : line'[l] = IF l \in Chosen(r) /\ line[l].state = "pending"
                                    THEN [line[l] EXCEPT !.state = "cancelled"] ELSE line[l]
    BY DEF CancelCommits
  <2>2. \A l \in Lines : l \in Chosen(r) <=> \E y \in pick[r].lines : y.line = l
    BY DEF Chosen
  <2>3. \A l \in Lines : [line[l] EXCEPT !.state = "cancelled"].state = "cancelled"
    BY <1>0 DEF LineRows
  <2> QED
    BY <2>1, <2>2, <2>3
<1>6. C \in SUBSET Due(s) /\ Due(s)' = Due(s) \ C
  <2> DEFINE L == pick[r].lines
  <2>1. L \in SUBSET Charges
    BY <1>0
  <2>2. \A y \in L : /\ line[y.line].session = s /\ line[y.line].state = "pending"
                      /\ line[y.line].left = y.units
    BY <1>1
  <2>3. \A l \in Lines : IF \E y \in L : y.line = l THEN line'[l].state # "pending"
                         ELSE line'[l] = line[l]
    BY <1>5
  <2> HIDE DEF L
  <2>4. UnitsIn(L) \in SUBSET Due(s) /\ Due(s)' = Due(s) \ UnitsIn(L)
    BY <1>0, <2>1, <2>2, <2>3, WholeLeave
  <2> QED
    BY <2>4 DEF L
<1>7. (CHOOSE y \in pick[r].lines : TRUE).units = x.units
  BY <1>2
<1>8. amount'[s] = IF amount[s] > x.units THEN amount[s] - x.units ELSE 0
  BY <1>0, <1>7 DEF CancelCommits
<1> HIDE DEF C
<1>9. (IF amount[s] > x.units - 0 THEN amount[s] - (x.units - 0) ELSE 0)
        = Cardinality(Due(s) \ C) + (Cardinality(Discounted(s)) + 0)
  BY <1>4, <1>6, Charging
<1>10. Cardinality(Discounted(s)) \in Nat /\ amount[s] \in Nat
  BY <1>0, FS_CardinalityType
<1>11. Cardinality(Discounted(s)) + 0 = Cardinality(Discounted(s)) /\ x.units - 0 = x.units
  BY <1>4, <1>10
<1> QED
  BY <1>6, <1>8, <1>9, <1>11

\* A bill by unit takes off one, but for its discount.
LEMMA PartTakes ==
  ASSUME TableTypeOK, Reading, BillsArePicks, LinesExist, UnitsAreLeft,
         NEW r \in Requests, Step(r), BillPart(r), r \in ended',
         NEW s \in Sessions, s = pick[r].session, IsFiniteSet(Discounted(s)), AddsUp(s)
  PROVE  amount'[s] = Cardinality(Due(s)') + (Cardinality(Discounted(s)) + GlobalDiscount(r))
<1>0. /\ line \in [Lines -> LineRows] /\ amount \in [Sessions -> Nat]
      /\ Kind[r] = "part" /\ at[r] = "held" /\ Billing(r)
  BY DEF TableTypeOK, BillPart, Billing, Bills
<1>1. PICK x \in Charges : pick[r].lines = {x}
  BY <1>0 DEF LinesExist
<1>2. x.units = 1 /\ x.line \in Lines /\ Chosen(r) = {x.line} /\ line[x.line].session = s
  <2>1. x.line \in Chosen(r) /\ Chosen(r) = {x.line}
    BY <1>1 DEF Chosen
  <2> QED
    BY <1>0, <1>1, <2>1 DEF LinesExist, UnitsAreLeft, Charges
<1> DEFINE l == x.line
           n == line[l].left
           C == {<<l, n>>}
<1>3. /\ view[r].line[l].state = "pending" /\ view[r].line[l].left > 1
      /\ line' = [line EXCEPT ![l].left = view[r].line[l].left - 1]
      /\ amount' = LessSold(r)
  <2>1. PICK m \in Lines :
          /\ Chosen(r) = {m}
          /\ view[r].line[m].state = "pending" /\ view[r].line[m].left > 1
          /\ line' = [line EXCEPT ![m].left = view[r].line[m].left - 1]
          /\ amount' = LessSold(r)
    BY <1>0, PartCommits
  <2>2. m = l
    BY <1>2, <2>1
  <2> QED
    BY <2>1, <2>2
<1>4. view[r].line[l] = line[l]
  BY <1>0, <1>2 DEF UnitsAreLeft
<1>5. /\ line[l].state = "pending" /\ n \in 1 .. Units /\ n > 1
      /\ line' = [line EXCEPT ![l].left = n - 1]
  BY <1>0, <1>2, <1>3, <1>4 DEF LineRows
<1>6. C \in SUBSET Due(s) /\ C \in SUBSET (Lines \X (1 .. Units)) /\ Cardinality(C) = 1
  <2>1. <<l, n>> \in Due(s)
    BY <1>2, <1>5 DEF Due
  <2>2. <<l, n>> \in Lines \X (1 .. Units)
    BY <2>1 DEF Due
  <2>3. Cardinality(C) = 1
    BY FS_Singleton
  <2> QED
    BY <2>1, <2>2, <2>3
<1>7. Due(s)' = Due(s) \ C
  <2>1. ASSUME NEW p \in Lines \X (1 .. Units) PROVE p \in Due(s)' <=> p \in Due(s) /\ p \notin C
    <3>0. p[1] \in Lines /\ p[2] \in 1 .. Units /\ p = <<p[1], p[2]>>
      BY <2>1
    <3>1. CASE p[1] # l
      <4>1. line'[p[1]] = line[p[1]]
        BY <1>0, <1>5, <3>0, <3>1
      <4>2. p \notin C
        BY <3>1
      <4> QED
        BY <2>1, <4>1, <4>2 DEF Due
    <3>2. CASE p[1] = l
      <4>1. line'[l].session = s /\ line'[l].state = "pending" /\ line'[l].left = n - 1
        BY <1>0, <1>2, <1>5 DEF LineRows
      <4>2. p \in Due(s)' <=> p[2] <= n - 1
        BY <2>1, <3>2, <4>1 DEF Due
      <4>3. p \in Due(s) <=> p[2] <= n
        BY <1>2, <1>5, <2>1, <3>2 DEF Due
      <4>4. p \in C <=> p[2] = n
        BY <3>0, <3>2
      <4>5. p[2] \in Nat /\ n \in Nat
        BY <1>5, <3>0, UnitsAssumption
      <4> HIDE DEF C, n, l
      <4> QED
        BY <4>2, <4>3, <4>4, <4>5
    <3> QED
      BY <3>1, <3>2
  <2>2. Due(s) \subseteq Lines \X (1 .. Units) /\ Due(s)' \subseteq Lines \X (1 .. Units)
    BY DEF Due
  <2> QED
    BY <2>1, <2>2
<1>8. Charge(r) = 1
  <2> DEFINE sold == UNION {{y.line} \X (1 .. y.units) : y \in pick[r].lines}
  <2>1. sold = {l} \X (1 .. 1)
    BY <1>1, <1>2
  <2> QED
    BY <1>2, <2>1, Times, UnitsAssumption DEF Charge
<1>9. amount'[s] = IF amount[s] > Charge(r) - GlobalDiscount(r)
                   THEN amount[s] - (Charge(r) - GlobalDiscount(r)) ELSE 0
  BY <1>0, <1>3, Zenon DEF LessSold, SaleTotal
<1> HIDE DEF C, l, n
<1> QED
  BY <1>6, <1>7, <1>8, <1>9, ChargeType, Charging

-----------------------------------------------------------------------------
\* The total is kept.

LEMMA TotalStart == TableInit => TotalInv
<1> SUFFICES ASSUME TableInit PROVE TotalInv
  OBVIOUS
<1>1. PICK mix \in Mixes : at = [r \in Requests |-> IF r \in mix THEN "new" ELSE "done"]
  BY DEF TableInit
<1>2. \A r \in Requests : at[r] \notin {"checked", "held", "open"}
  BY <1>1
<1>3. ASSUME NEW s \in Sessions
      PROVE  /\ amount[s] = Cardinality(Due(s)) /\ amount[s] \in Nat
             /\ session[s].status = "none" => amount[s] = 0
  <2> DEFINE ls == {l \in Lines : Served[l] = s}
  <2>1. Due(s) = ls \X (1 .. Units)
    <3>1. \A l \in Lines : /\ line[l].session = Served[l] /\ line[l].left = Units
                           /\ line[l].state = IF Served[l] = None THEN "none" ELSE "pending"
      BY DEF TableInit
    <3>2. \A p \in Lines \X (1 .. Units) : p \in Due(s) <=> p[1] \in ls
      <4> TAKE p \in Lines \X (1 .. Units)
      <4>1. p[1] \in Lines /\ p[2] <= Units
        BY UnitsAssumption
      <4> QED
        BY <3>1, <4>1, NoneAssumption DEF Due
    <3>3. \A p \in Lines \X (1 .. Units) : p \in ls \X (1 .. Units) <=> p[1] \in ls
      OBVIOUS
    <3>4. Due(s) \subseteq Lines \X (1 .. Units) /\ ls \X (1 .. Units) \subseteq Lines \X (1 .. Units)
      BY DEF Due
    <3> HIDE DEF ls
    <3> QED
      BY <3>2, <3>3, <3>4
  <2>2. IsFiniteSet(ls) /\ Cardinality(ls) \in Nat
    BY RequestAssumption, FS_Subset, FS_CardinalityType
  <2>3. IsFiniteSet(1 .. Units) /\ Cardinality(1 .. Units) = Units
    BY UnitsAssumption, FS_Interval
  <2>4. amount[s] = Units * Cardinality(ls)
    BY DEF TableInit
  <2>5. Cardinality(ls \X (1 .. Units)) = Cardinality(ls) * Cardinality(1 .. Units)
    BY <2>2, <2>3, FS_Product
  <2>6. session[s].status = "none" => ls = {}
    BY SeatedAssumption, NoneAssumption DEF TableInit
  <2>7. ls = {} => Cardinality(ls) = 0
    BY FS_EmptySet
  <2> HIDE DEF ls
  <2>8. amount[s] = Cardinality(Due(s))
    BY <2>1, <2>2, <2>3, <2>4, <2>5, UnitsAssumption
  <2>9. session[s].status = "none" => amount[s] = 0
    BY <2>4, <2>6, <2>7, UnitsAssumption
  <2> QED
    BY <2>2, <2>4, <2>8, <2>9, UnitsAssumption
<1>4. \A s \in Sessions : Discounted(s) = {}
  BY DEF TableInit, Discounted
<1>5. Cardinality({}) = 0 /\ IsFiniteSet({})
  BY FS_EmptySet
<1>6. \A n \in Nat : n + 0 = n
  OBVIOUS
<1>7. \A s \in Sessions : AddsUp(s)
  BY <1>3, <1>4, <1>5, <1>6 DEF AddsUp
<1> QED
  BY <1>2, <1>3, <1>4, <1>5, <1>7 DEF TotalInv, SeenIsPending, Taking, Busy

\* Who leaves a session open with a sale is a bill that keeps it open.
LEMMA KeepersCommit ==
  ASSUME TableTypeOK, NEW r \in Requests, Step(r), NEW s, Gives(r, s), ended' # ended
  PROVE  at[r] = "held" /\ (BillKeeps(r) \/ BillPart(r))
<1>1. at[r] = "held"
  BY Progress DEF Gives
<1> QED
  BY <1>1
  DEF Gives, Step, Bills, Check, Refuse, ghosts,
      OpenLocks, OpenFinds, OpenInserts, OrderLocks, OrderNumbers, OrderCommits,
      BillChecks, BillLocks, BillCloses, MoveLocks, MoveCommits,
      EndChecks, CloseCommits, DropOpens, DropCommits,
      CancelChecks, CancelOpens, CancelCommits, Breaks

LEMMA DiscountsFinite ==
  ASSUME TableTypeOK, BillsArePicks, NEW r \in Requests, Step(r), NEW s,
         IsFiniteSet(Discounted(s))
  PROVE  /\ IsFiniteSet(Discounted(s)')
         /\ r \in ended' /\ Gives(r, s) =>
              Cardinality(Discounted(s)') = Cardinality(Discounted(s)) + GlobalDiscount(r)
<1>1. IsFiniteSet(Gift(r)) /\ Cardinality(Gift(r)) = GlobalDiscount(r)
  BY GiftSize
<1>2. Discounted(s) \cap Gift(r) = {}
  BY EndedKept, GiftsApart
<1>3. IsFiniteSet(Discounted(s) \cup Gift(r))
  BY <1>1, FS_Union
<1>4. Cardinality(Discounted(s) \cup Gift(r)) = Cardinality(Discounted(s)) + GlobalDiscount(r)
  BY <1>1, <1>2, Apart
<1> QED
  BY <1>3, <1>4, DiscountsStay

\* A step keeps the total of s adding up, or s was met.
LEMMA TotalKeptFor ==
  ASSUME TableTypeOK, Reading, Found, ChargeInv, TotalInv, NEW r \in Requests, Step(r),
         NEW s \in Sessions, session[s].status = "open", session'[s].status = "open"
  PROVE  AddsUp(s)' \/ Met(s)'
<1>0. BillsArePicks /\ LinesExist /\ UnitsAreLeft /\ SeenIsPending /\ IsFiniteSet(Discounted(s))
  BY DEF ChargeInv, TotalInv
<1>1. CASE Met(s)
  BY <1>0, <1>1, MetStays
<1>2. CASE ~Met(s) /\ s # pick[r].session
  <2>1. AddsUp(s)
    BY <1>2 DEF TotalInv
  <2>2. Discounted(s)' = Discounted(s)
    BY <1>0, <1>2, DiscountsStay DEF Gives
  <2>3. amount'[s] = amount[s] /\ Due(s)' = Due(s)
    BY <1>0, <1>2, Elsewhere
  <2> QED
    BY <2>1, <2>2, <2>3 DEF AddsUp
<1>3. CASE ~Met(s) /\ s = pick[r].session
  <2>0. AddsUp(s)
    BY <1>3 DEF TotalInv
  <2>1. CASE OrderCommits(r)
    <3>1. ~Gives(r, s)
      BY <2>1 DEF OrderCommits, Gives, Bills
    <3>2. Discounted(s)' = Discounted(s)
      BY <1>0, <3>1, DiscountsStay
    <3>3. amount'[s] = Cardinality(Due(s)') + Cardinality(Discounted(s))
      BY <1>0, <1>3, <2>0, <2>1, OrderAdds
    <3> QED
      BY <3>2, <3>3 DEF AddsUp
  <2>2. CASE BillKeeps(r)
    <3>1. r \in ended' /\ Kind[r] \in Bills \ {"part"} /\ Gives(r, s)
      BY <1>3, <2>2 DEF BillKeeps, Finish, Gives
    <3>2. Cardinality(Discounted(s)') = Cardinality(Discounted(s)) + GlobalDiscount(r)
      BY <1>0, <3>1, DiscountsFinite
    <3>3. ~Crossed(r) =>
            amount'[s] = Cardinality(Due(s)') + (Cardinality(Discounted(s)) + GlobalDiscount(r))
      BY <1>0, <1>3, <2>0, <2>2, BillTakes
    <3> QED
      BY <1>0, <1>3, <3>1, <3>2, <3>3, CrossedMeets DEF AddsUp
  <2>3. CASE CancelCommits(r)
    <3>1. r \in ended' /\ Kind[r] = "cancel" /\ ~Gives(r, s)
      BY <2>3 DEF CancelCommits, Finish, Gives, Bills
    <3>2. Discounted(s)' = Discounted(s)
      BY <1>0, <3>1, DiscountsStay
    <3>3. view[r].amount[s] # amount[s] => s \in overwritten'
      BY <1>3, <2>3 DEF CancelCommits
    <3>4. ~Crossed(r) /\ view[r].amount[s] = amount[s] =>
            amount'[s] = Cardinality(Due(s)') + Cardinality(Discounted(s))
      BY <1>0, <1>3, <2>0, <2>3, CancelTakes
    <3>5. Crossed(r) => Met(s)'
      BY <1>0, <1>3, <3>1, CrossedMeets
    <3> QED
      BY <3>2, <3>3, <3>4, <3>5 DEF AddsUp, Met
  <2>4. CASE BillPart(r) /\ r \in ended'
    <3>1. Gives(r, s)
      BY <1>0, <1>3, <2>4 DEF BillPart, Gives, LinesExist, Billing, Bills
    <3>2. Cardinality(Discounted(s)') = Cardinality(Discounted(s)) + GlobalDiscount(r)
      BY <1>0, <2>4, <3>1, DiscountsFinite
    <3>3. amount'[s] = Cardinality(Due(s)') + (Cardinality(Discounted(s)) + GlobalDiscount(r))
      BY <1>0, <1>3, <2>0, <2>4, PartTakes
    <3> QED
      BY <3>2, <3>3 DEF AddsUp
  <2>5. CASE BillCloses(r) \/ DropCommits(r)
    <3>1. session'[s].status \in {"billed", "deleted"}
      BY <1>3, <2>5 DEF BillCloses, DropCommits, TableTypeOK, SessionRows
    <3> QED
      BY <3>1
  <2>6. CASE /\ ~OrderCommits(r) /\ ~BillKeeps(r) /\ ~CancelCommits(r)
             /\ ~(BillPart(r) /\ r \in ended') /\ ~BillCloses(r) /\ ~DropCommits(r)
    <3>1. amount'[s] = amount[s]
      BY <2>6, TotalCommits
    <3>2. \A l \in Lines : line'[l] = line[l]
      BY <2>6, LineChange, LineCommits
    <3>3. Due(s)' = Due(s)
      BY <3>2, DueStays
    <3>4. ~(r \in ended' /\ Gives(r, s))
      BY <1>0, <2>6, KeepersCommit, EndedKept
    <3>5. Discounted(s)' = Discounted(s)
      BY <1>0, <3>4, DiscountsStay
    <3> QED
      BY <2>0, <3>1, <3>3, <3>5 DEF AddsUp
  <2> QED
    BY <2>1, <2>2, <2>3, <2>4, <2>5, <2>6
<1> QED
  BY <1>1, <1>2, <1>3

LEMMA TotalStep ==
  ASSUME TableTypeOK, Reading, Found, ChargeInv, TotalInv, NEW r \in Requests, Step(r)
  PROVE  TotalInv'
<1>0. BillsArePicks /\ LinesExist /\ UnitsAreLeft /\ SeenIsPending
  BY DEF ChargeInv, TotalInv
<1>1. ASSUME NEW s \in Sessions, session'[s].status = "none"
      PROVE  amount'[s] = 0 /\ Discounted(s)' = {}
  <2>1. session[s].status = "none"
    BY <1>1, StaysOpened
  <2>2. s # pick[r].session \/ r \notin ended' \/ amount'[s] = amount[s]
    <3>1. CASE OrderCommits(r) \/ BillKeeps(r) \/ BillPart(r)
      BY <2>1, <3>1 DEF Found, Busy, OrderCommits, BillKeeps, BillPart, Bills
    <3>2. CASE CancelCommits(r)
      <4>1. Cancelling(r) /\ pick[r].lines # {}
        BY <3>2 DEF CancelCommits, Cancelling, Busy, Reading
      <4>2. PICK l \in Chosen(r) : l \in Lines
        BY <4>1, <3>2 DEF Chosen, TableTypeOK, Picks, Charges
      <4>3. line[l].session = pick[r].session /\ pick[r].session \in Sessions
        BY <1>0, <4>1, <4>2 DEF LinesExist
      <4> QED
        BY <1>0, <2>1, <4>2, <4>3, NoneAssumption DEF LinesExist
    <3> QED
      BY <3>1, <3>2, TotalCommits
  <2>3. amount'[s] = amount[s]
    BY <2>2, TotalCommits
  <2>4. ~(r \in ended' /\ Gives(r, s))
    <3> SUFFICES ASSUME r \in ended', Gives(r, s) PROVE FALSE
      OBVIOUS
    <3>1. at[r] = "held" /\ Kind[r] \in Bills /\ pick[r].session = s
      BY <1>0, KeepersCommit, EndedKept DEF Gives
    <3> QED
      BY <2>1, <3>1 DEF Found, Busy, Bills
  <2>5. Discounted(s)' = Discounted(s)
    BY <1>0, <2>4, DiscountsStay
  <2> QED
    BY <2>1, <2>3, <2>5 DEF TotalInv
<1>2. ASSUME NEW s \in Sessions, session'[s].status = "open"
      PROVE  AddsUp(s)' \/ Met(s)'
  <2>1. CASE session[s].status = "open"
    BY <1>2, <2>1, TotalKeptFor
  <2>2. CASE OpenInserts(r) /\ s = NewSession[r]
    <3>1. session[s].status = "none" /\ amount' = amount /\ line' = line
      BY <2>2 DEF OpenInserts, Found
    <3>2. amount'[s] = 0
      BY <3>1 DEF TotalInv
    <3>3. Due(s)' = {}
      <4>1. \A l \in Lines : line[l].session # s
        BY <1>0, <3>1, NoneAssumption DEF LinesExist
      <4> QED
        BY <3>1, <4>1 DEF Due
    <3>4. Discounted(s)' = {}
      <4>1. Discounted(s) = {} /\ ~Gives(r, s)
        BY <2>2, <3>1 DEF TotalInv, OpenInserts, Gives, Bills
      <4> QED
        BY <1>0, <4>1, DiscountsStay
    <3>5. Cardinality({}) = 0 /\ 0 + 0 = 0
      BY FS_EmptySet
    <3> QED
      BY <3>2, <3>3, <3>4, <3>5 DEF AddsUp
  <2> QED
    BY <1>2, <2>1, <2>2, OpenBefore
<1>3. SeenIsPending'
  BY <1>0, StillSeen
<1>4. \A s \in Sessions : IsFiniteSet(Discounted(s)')
  BY <1>0, DiscountsFinite DEF TotalInv
<1> QED
  BY <1>1, <1>2, <1>3, <1>4 DEF TotalInv

LEMMA TotalKept == TableInv /\ ChargeInv /\ TotalInv /\ [TableNext]_tableVars => TotalInv'
<1> SUFFICES ASSUME TableInv, ChargeInv, TotalInv, [TableNext]_tableVars PROVE TotalInv'
  OBVIOUS
<1>1. CASE UNCHANGED tableVars
  <2>1. /\ session' = session /\ line' = line /\ amount' = amount /\ at' = at /\ pick' = pick
        /\ view' = view /\ ended' = ended /\ since' = since /\ overwritten' = overwritten
    BY <1>1 DEF tableVars, tables, local, ghosts
  <2>2. \A s \in Sessions : Due(s)' = Due(s)
    BY <2>1 DEF Due
  <2>3. \A s \in Sessions : Discounted(s)' = Discounted(s)
    BY <2>1 DEF Discounted, GlobalDiscount, Charge
  <2>4. \A s \in Sessions : Met(s)' <=> Met(s)
    BY <2>1 DEF Met, Clashed, Concurrent, Chosen
  <2>5. SeenIsPending'
    BY <2>1 DEF TotalInv, SeenIsPending, Taking, Crossed, Chosen, Clashed, Concurrent
  <2>6. \A s \in Sessions : AddsUp(s)' <=> AddsUp(s)
    BY <2>1, <2>2, <2>3 DEF AddsUp
  <2> QED
    BY <2>1, <2>2, <2>3, <2>4, <2>5, <2>6 DEF TotalInv
<1>2. CASE TableNext
  <2>1. PICK r \in Requests : Step(r)
    BY <1>2 DEF TableNext, Step
  <2> QED
    BY <2>1, TotalStep DEF TableInv
<1> QED
  BY <1>1, <1>2

LEMMA TotalsAdd == TotalInv => AmountAddsUp
BY DEF TotalInv, AddsUp, Met, AmountAddsUp

\* The total of an open session is what it has pending and the discounts of the
\* bills that left it open, unless a cancellation wrote over a total it had not
\* seen or two took one comanda together (AddOrder, BillTable, cancelComandaTx).
THEOREM TotalsFollow == TableSpec => []AmountAddsUp
<1>1. TableSpec => []TotalInv
  BY TotalStart, TotalKept, TableSafe, ChargesSafe, PTL DEF TableSpec
<1> QED
  BY <1>1, TotalsAdd, PTL
=============================================================================
