------------------------- MODULE StockLedgerProofs -------------------------
(***************************************************************************)
(* Proofs about StockLedger, for any papers, series, branches, serials and *)
(* requests: what the row locks and the unique key of the sales guarantee  *)
(* although the stock itself is written from a stale snapshot.             *)
(***************************************************************************)
EXTENDS StockLedger, FiniteSetTheorems, TLAPS

\* A transaction that has read has a snapshot, and no row of the kardex.
Reading ==
  /\ \A r \in Requests : at[r] \in {"held", "open"} => view[r] \in Views
  /\ \A m \in kardex : at[m.req] = "done"

\* The locks exclude: a series, a document row, the key of an open sale.
Excluding ==
  \A r, q \in Requests :
    /\ HoldsSeries(r) /\ HoldsSeries(q) /\ DocSeries[Paper[r]] = DocSeries[Paper[q]] => r = q
    /\ HoldsRow(r) /\ HoldsRow(q) /\ Paper[r] = Paper[q] => r = q
    /\ /\ Kind[r] = "sale" /\ at[r] = "open"
       /\ Kind[q] = "sale" /\ at[q] = "open" /\ Paper[r] = Paper[q]
       => r = q

\* What a transaction found when it took its lock is still so.
Standings ==
  \A r \in Requests :
    /\ Kind[r] = "sale" /\ at[r] = "open" => standing[Paper[r]] = "none"
    /\ Kind[r] = "confirm" /\ at[r] \in {"held", "open"} => standing[Paper[r]] = "draft"
    /\ Kind[r] = "void" /\ at[r] = "open" => standing[Paper[r]] = "live"
    /\ Kind[r] \in {"cancel", "receive", "withdraw"} /\ at[r] \in {"checked", "open"}
         => standing[Paper[r]] \notin {"none", "draft"}

\* A paper that moved stock has left the status its movement starts from.
Moved ==
  \A m \in kardex :
    /\ Kind[m.req] \in {"sale", "confirm"} => standing[Paper[m.req]] \notin {"none", "draft"}
    /\ Kind[m.req] = "void" => standing[Paper[m.req]] = "ended"

\* A reserved correlative is the next one, and no paper holds it yet.
Numbered ==
  /\ \A r \in Requests : HoldsSeries(r) => got[r] = next[DocSeries[Paper[r]]]
  /\ \A p \in Papers : number[p] # 0 =>
       number[p] < next[DocSeries[p]] /\ standing[p] \notin {"none", "draft"}
  /\ \A p, q \in Papers :
       DocSeries[p] = DocSeries[q] /\ number[p] = number[q] /\ number[p] # 0 => p = q
  /\ \A s \in Series : \A n \in 1 .. next[s] - 1 :
       \E p \in Papers : DocSeries[p] = s /\ number[p] = n

\* An open sale has seen every movement of the sales of its series.
Seen ==
  \A r \in Requests : Kind[r] = "sale" /\ at[r] = "open" =>
    \A m \in kardex :
      Kind[m.req] = "sale" /\ DocSeries[Paper[m.req]] = DocSeries[Paper[r]]
        => m \in view[r].kardex

StockInv ==
  /\ StockTypeOK
  /\ Reading
  /\ Excluding
  /\ Standings
  /\ Moved
  /\ Numbered
  /\ Seen
  /\ MovesOnce
  /\ SameSeriesNeverOverwrite

-----------------------------------------------------------------------------
\* The steps that write no table, and the ones that commit.

Quiet(r) ==
  \/ SaleArrives(r) \/ SaleReserves(r) \/ SaleInserts(r) \/ Checks(r) \/ Opens(r)
  \/ Locks(r) \/ ConfirmReserves(r) \/ RollsBack(r)

Commits(r) ==
  \/ SaleCommits(r) \/ CancelCommits(r) \/ SendCommits(r)
  \/ ReceiveCommits(r) \/ WithdrawCommits(r) \/ DocumentCommits(r)

\* What every commit of r does to the kardex, the statuses and the numbers.
Effect(r, m, status) ==
  /\ at[r] = "open"
  /\ m \in Rows /\ m.req = r
  /\ kardex' = kardex \cup {m}
  /\ missed' \subseteq missed \cup {<<r, k.req>> : k \in kardex \ view[r].kardex}
  /\ status \in Standing \ {"none", "draft"}
  /\ Kind[r] = "void" => status = "ended"
  /\ Close(r, status)

LEMMA QuietTables ==
  ASSUME NEW r \in Requests, Quiet(r) PROVE UNCHANGED <<tables, ghosts>>
BY DEF Quiet, SaleArrives, SaleReserves, SaleInserts, Checks, Opens, Locks,
       ConfirmReserves, RollsBack

LEMMA RecordEffect ==
  ASSUME NEW r \in Requests, NEW b \in Branches, NEW d \in Change,
         at[r] = "open", Record(r, b, d),
         NEW status \in Standing \ {"none", "draft"},
         Kind[r] = "void" => status = "ended", Close(r, status)
  PROVE  \E m \in Rows : Effect(r, m, status)
<1> DEFINE m == [req |-> r, branch |-> b, change |-> d]
<1>1. m \in Rows /\ m.req = r
  BY DEF Rows
<1>2. missed' \subseteq missed \cup {<<r, k.req>> : k \in kardex \ view[r].kardex}
  BY DEF Record
<1>3. kardex' = kardex \cup {m}
  BY DEF Record
<1> HIDE DEF m
<1>4. Effect(r, m, status)
  BY <1>1, <1>2, <1>3 DEF Effect
<1> QED
  BY <1>1, <1>4

LEMMA CommitEffect ==
  ASSUME NEW r \in Requests, Commits(r)
  PROVE  \E m \in Rows, status \in Standing : Effect(r, m, status)
<1> USE PaperAssumption, RequestAssumption DEF Change, Standing
<1>0. Branch[Paper[r]] \in Branches /\ Destination[Paper[r]] \in Branches
  OBVIOUS
<1>1. CASE SaleCommits(r)
  BY <1>0, <1>1, RecordEffect DEF SaleCommits
<1>2. CASE CancelCommits(r)
  BY <1>0, <1>2, RecordEffect DEF CancelCommits, CloseChecked
<1>3. CASE SendCommits(r)
  BY <1>0, <1>3, RecordEffect DEF SendCommits
<1>4. CASE ReceiveCommits(r)
  BY <1>0, <1>4, RecordEffect DEF ReceiveCommits, CloseChecked
<1>5. CASE WithdrawCommits(r)
  BY <1>0, <1>5, RecordEffect DEF WithdrawCommits, CloseChecked
<1>6. CASE DocumentCommits(r)
  <2>1. at[r] = "open"
    BY <1>6 DEF DocumentCommits
  <2>2. PICK d \in Change : Record(r, Branch[Paper[r]], d)
    BY <1>6 DEF DocumentCommits
  <2>3. CASE Kind[r] = "confirm"
    BY <1>0, <1>6, <2>1, <2>2, <2>3, RecordEffect DEF DocumentCommits
  <2>4. CASE Kind[r] # "confirm"
    BY <1>0, <1>6, <2>1, <2>2, <2>4, RecordEffect DEF DocumentCommits
  <2> QED
    BY <2>3, <2>4
<1> QED
  BY <1>1, <1>2, <1>3, <1>4, <1>5, <1>6 DEF Commits

-----------------------------------------------------------------------------
\* Preservation by the steps that write no table.

LEMMA QuietReading ==
  ASSUME StockTypeOK, Reading, NEW r \in Requests, Quiet(r) PROVE Reading'
<1> USE DEF StockTypeOK, Reading, Views, Phases, Go, Snapshot, Forget, Rows, tables
<1>1. CASE SaleArrives(r)
  BY <1>1 DEF SaleArrives
<1>2. CASE SaleReserves(r)
  BY <1>2 DEF SaleReserves
<1>3. CASE SaleInserts(r)
  BY <1>3 DEF SaleInserts
<1>4. CASE Checks(r)
  BY <1>4 DEF Checks
<1>5. CASE Opens(r)
  BY <1>5 DEF Opens
<1>6. CASE Locks(r)
  BY <1>6 DEF Locks
<1>7. CASE ConfirmReserves(r)
  BY <1>7 DEF ConfirmReserves
<1>8. CASE RollsBack(r)
  BY <1>8 DEF RollsBack
<1> QED
  BY <1>1, <1>2, <1>3, <1>4, <1>5, <1>6, <1>7, <1>8 DEF Quiet

LEMMA QuietExcluding ==
  ASSUME StockTypeOK, Excluding, NEW r \in Requests, Quiet(r) PROVE Excluding'
<1> USE DEF StockTypeOK, Excluding, Phases, Go, HoldsSeries, HoldsRow
<1>1. CASE SaleArrives(r)
  BY <1>1 DEF SaleArrives
<1>2. CASE SaleReserves(r)
  BY <1>2 DEF SaleReserves, Reserve, SeriesFree
<1>3. CASE SaleInserts(r)
  BY <1>3 DEF SaleInserts, Sale
<1>4. CASE Checks(r)
  BY <1>4 DEF Checks
<1>5. CASE Opens(r)
  BY <1>5 DEF Opens
<1>6. CASE Locks(r)
  BY <1>6 DEF Locks, RowFree
<1>7. CASE ConfirmReserves(r)
  BY <1>7 DEF ConfirmReserves, Reserve, SeriesFree
<1>8. CASE RollsBack(r)
  BY <1>8 DEF RollsBack
<1> QED
  BY <1>1, <1>2, <1>3, <1>4, <1>5, <1>6, <1>7, <1>8 DEF Quiet

LEMMA QuietStandings ==
  ASSUME StockTypeOK, Standings, NEW r \in Requests, Quiet(r) PROVE Standings'
<1> USE DEF StockTypeOK, Standings, Phases, Go, tables
<1>1. CASE SaleArrives(r)
  BY <1>1 DEF SaleArrives
<1>2. CASE SaleReserves(r)
  BY <1>2 DEF SaleReserves
<1>3. CASE SaleInserts(r)
  BY <1>3 DEF SaleInserts
<1>4. CASE Checks(r)
  BY <1>4 DEF Checks, Expected
<1>5. CASE Opens(r)
  BY <1>5 DEF Opens
<1>6. CASE Locks(r)
  BY <1>6 DEF Locks
<1>7. CASE ConfirmReserves(r)
  BY <1>7 DEF ConfirmReserves
<1>8. CASE RollsBack(r)
  BY <1>8 DEF RollsBack
<1> QED
  BY <1>1, <1>2, <1>3, <1>4, <1>5, <1>6, <1>7, <1>8 DEF Quiet

LEMMA QuietNumbered ==
  ASSUME StockTypeOK, Numbered, NEW r \in Requests, Quiet(r) PROVE Numbered'
<1>1. UNCHANGED <<tables, ghosts>>
  BY QuietTables
<1>2. \A q \in Requests : HoldsSeries(q)' => got'[q] = next[DocSeries[Paper[q]]]
  <2> USE DEF StockTypeOK, Numbered, Phases, Go, HoldsSeries
  <2>1. CASE SaleArrives(r)
    BY <2>1 DEF SaleArrives
  <2>2. CASE SaleReserves(r)
    BY <2>2 DEF SaleReserves, Reserve
  <2>3. CASE SaleInserts(r)
    BY <2>3 DEF SaleInserts
  <2>4. CASE Checks(r)
    BY <2>4 DEF Checks
  <2>5. CASE Opens(r)
    BY <2>5 DEF Opens
  <2>6. CASE Locks(r)
    BY <2>6 DEF Locks
  <2>7. CASE ConfirmReserves(r)
    BY <2>7 DEF ConfirmReserves, Reserve
  <2>8. CASE RollsBack(r)
    BY <2>8 DEF RollsBack
  <2> QED
    BY <2>1, <2>2, <2>3, <2>4, <2>5, <2>6, <2>7, <2>8 DEF Quiet
<1> QED
  BY <1>1, <1>2 DEF Numbered, tables, HoldsSeries

LEMMA QuietSeen ==
  ASSUME StockTypeOK, Seen, NEW r \in Requests, Quiet(r) PROVE Seen'
<1> USE DEF StockTypeOK, Seen, Phases, Go, Snapshot, Forget, tables
<1>1. CASE SaleArrives(r)
  BY <1>1 DEF SaleArrives
<1>2. CASE SaleReserves(r)
  BY <1>2 DEF SaleReserves
<1>3. CASE SaleInserts(r)
  BY <1>3 DEF SaleInserts
<1>4. CASE Checks(r)
  BY <1>4 DEF Checks
<1>5. CASE Opens(r)
  BY <1>5 DEF Opens
<1>6. CASE Locks(r)
  BY <1>6 DEF Locks
<1>7. CASE ConfirmReserves(r)
  BY <1>7 DEF ConfirmReserves
<1>8. CASE RollsBack(r)
  BY <1>8 DEF RollsBack
<1> QED
  BY <1>1, <1>2, <1>3, <1>4, <1>5, <1>6, <1>7, <1>8 DEF Quiet

-----------------------------------------------------------------------------
\* Preservation by a commit.

LEMMA CommitReading ==
  ASSUME StockTypeOK, Reading, NEW r \in Requests, NEW m \in Rows,
         NEW status \in Standing, Effect(r, m, status)
  PROVE  Reading'
BY DEF StockTypeOK, Reading, Effect, Close, Go, Forget, Phases, Rows

LEMMA CommitExcluding ==
  ASSUME StockTypeOK, Excluding, NEW r \in Requests, NEW m \in Rows,
         NEW status \in Standing, Effect(r, m, status)
  PROVE  Excluding'
BY DEF StockTypeOK, Excluding, Effect, Close, Go, Phases, HoldsSeries, HoldsRow

\* Nobody else counts on the status that r changes: the operations of a paper
\* are of one family, and those that lock exclude each other.
LEMMA CommitStandings ==
  ASSUME StockTypeOK, Excluding, Standings, NEW r \in Requests, NEW m \in Rows,
         NEW status \in Standing, Effect(r, m, status)
  PROVE  Standings'
<1>1. standing' = [standing EXCEPT ![Paper[r]] = status] /\ at' = [at EXCEPT ![r] = "done"]
  BY DEF Effect, Close, Go
<1>2. status \notin {"none", "draft"} /\ at[r] = "open"
  BY DEF Effect
<1>3. SUFFICES ASSUME NEW q \in Requests, q # r, Paper[q] = Paper[r], at[q] \in Phases
      PROVE  /\ Kind[q] = "sale" => at[q] # "open"
             /\ Kind[q] = "confirm" => at[q] \notin {"held", "open"}
             /\ Kind[q] = "void" => at[q] # "open"
  BY <1>1, <1>2, RequestAssumption, PaperAssumption DEF StockTypeOK, Standings, Phases
<1>4. Family(Kind[q]) = Family(Kind[r]) /\ Kind[r] \in Kinds
  BY <1>3, FamilyAssumption, RequestAssumption
<1>5. CASE Kind[r] = "sale"
  BY <1>2, <1>3, <1>4, <1>5 DEF Family, Kinds, Excluding
<1>6. CASE Kind[r] = "cancel"
  <2>1. standing[Paper[r]] \notin {"none", "draft"}
    BY <1>2, <1>6 DEF Standings
  <2> QED
    BY <1>3, <1>4, <1>6, <2>1 DEF Family, Kinds, Standings
<1>7. CASE Kind[r] \in {"confirm", "void"}
  BY <1>2, <1>3, <1>4, <1>7 DEF Family, Kinds, Excluding, HoldsRow
<1>8. CASE Kind[r] \in {"send", "receive", "withdraw"}
  BY <1>3, <1>4, <1>8 DEF Family, Kinds
<1> QED
  BY <1>4, <1>5, <1>6, <1>7, <1>8 DEF Kinds

LEMMA CommitMoved ==
  ASSUME StockTypeOK, Standings, Moved, NEW r \in Requests, NEW m \in Rows,
         NEW status \in Standing, Effect(r, m, status)
  PROVE  Moved'
<1>1. /\ standing' = [standing EXCEPT ![Paper[r]] = status]
      /\ kardex' = kardex \cup {m} /\ m.req = r /\ at[r] = "open"
      /\ status \notin {"none", "draft"} /\ (Kind[r] = "void" => status = "ended")
  BY DEF Effect, Close
<1>2. ASSUME NEW k \in kardex', Kind[k.req] \in {"sale", "confirm"}
      PROVE  standing'[Paper[k.req]] \notin {"none", "draft"}
  BY <1>1, <1>2, RequestAssumption DEF Moved, StockTypeOK, Rows
<1>3. ASSUME NEW k \in kardex', Kind[k.req] = "void"
      PROVE  standing'[Paper[k.req]] = "ended"
  <2>1. CASE k = m
    BY <1>1, <1>3, <2>1, RequestAssumption DEF StockTypeOK
  <2>2. CASE k \in kardex /\ Paper[k.req] # Paper[r]
    BY <1>1, <1>3, <2>2, RequestAssumption DEF Moved, StockTypeOK
  <2>3. CASE k \in kardex /\ Paper[k.req] = Paper[r]
    <3>1. k.req \in Requests /\ standing[Paper[r]] = "ended"
      BY <1>3, <2>3 DEF Moved, StockTypeOK, Rows
    <3>2. Kind[r] \in {"confirm", "void"}
      BY <1>3, <2>3, <3>1, FamilyAssumption, RequestAssumption DEF Family, Kinds
    <3> QED
      BY <1>1, <3>1, <3>2 DEF Standings
  <2> QED
    BY <1>1, <2>1, <2>2, <2>3
<1> QED
  BY <1>2, <1>3 DEF Moved

LEMMA CommitMovesOnce ==
  ASSUME StockTypeOK, Reading, Standings, Moved, MovesOnce, NEW r \in Requests,
         NEW m \in Rows, NEW status \in Standing, Effect(r, m, status)
  PROVE  MovesOnce'
<1>1. kardex' = kardex \cup {m} /\ m.req = r /\ at[r] = "open"
  BY DEF Effect
<1>2. ASSUME NEW k \in kardex, Kind[k.req] \in {"sale", "confirm", "void"},
             Kind[k.req] = Kind[r], Paper[k.req] = Paper[r]
      PROVE  FALSE
  BY <1>1, <1>2 DEF Moved, Standings
<1> QED
  BY <1>1, <1>2 DEF MovesOnce

LEMMA CommitSeen ==
  ASSUME StockTypeOK, Excluding, Seen, NEW r \in Requests, NEW m \in Rows,
         NEW status \in Standing, Effect(r, m, status)
  PROVE  Seen'
<1>1. /\ kardex' = kardex \cup {m} /\ m.req = r /\ at[r] = "open"
      /\ at' = [at EXCEPT ![r] = "done"] /\ view' = [view EXCEPT ![r] = None]
  BY DEF Effect, Close, Go, Forget
<1>2. ASSUME NEW q \in Requests, Kind[q] = "sale", at'[q] = "open",
             NEW k \in kardex', Kind[k.req] = "sale",
             DocSeries[Paper[k.req]] = DocSeries[Paper[q]]
      PROVE  k \in view'[q].kardex
  <2>1. q # r /\ at[q] = "open" /\ view'[q] = view[q]
    BY <1>1, <1>2 DEF StockTypeOK, Phases
  <2>2. k # m
    BY <1>1, <1>2, <2>1 DEF Excluding, HoldsSeries
  <2> QED
    BY <1>1, <1>2, <2>1, <2>2 DEF Seen
<1> QED
  BY <1>2 DEF Seen

LEMMA CommitSameSeries ==
  ASSUME StockTypeOK, Seen, SameSeriesNeverOverwrite, NEW r \in Requests,
         NEW m \in Rows, NEW status \in Standing, Effect(r, m, status)
  PROVE  SameSeriesNeverOverwrite'
BY DEF Effect, Seen, SameSeriesNeverOverwrite, StockTypeOK, Rows

LEMMA CommitNumbered ==
  ASSUME StockTypeOK, Excluding, Standings, Numbered, NEW r \in Requests,
         NEW m \in Rows, NEW status \in Standing, Effect(r, m, status)
  PROVE  Numbered'
<1> DEFINE p == Paper[r]
           s == DocSeries[p]
<1>1. /\ standing' = [standing EXCEPT ![p] = status] /\ at' = [at EXCEPT ![r] = "done"]
      /\ got' = got /\ at[r] = "open" /\ status \notin {"none", "draft"}
  BY DEF Effect, Close, Go
<1>2. p \in Papers /\ s \in Series
  BY RequestAssumption, PaperAssumption
<1>3. CASE ~HoldsSeries(r)
  <2>1. next' = next /\ number' = number
    BY <1>3 DEF Effect, Close
  <2>2. \A q \in Requests : HoldsSeries(q)' => HoldsSeries(q)
    BY <1>1 DEF StockTypeOK, HoldsSeries, Phases
  <2> QED
    BY <1>1, <1>2, <2>1, <2>2 DEF Numbered, StockTypeOK
<1>4. CASE HoldsSeries(r)
  <2>1. /\ next' = [next EXCEPT ![s] = got[r] + 1]
        /\ number' = [number EXCEPT ![p] = got[r]]
        /\ got[r] = next[s] /\ next[s] \in Nat \ {0}
    BY <1>2, <1>4 DEF Effect, Close, Numbered, StockTypeOK
  <2>2. number[p] = 0
    <3>1. standing[p] \in {"none", "draft"}
      BY <1>1, <1>4 DEF HoldsSeries, Standings
    <3> QED
      BY <1>2, <3>1 DEF Numbered
  <2>3. \A q \in Requests : HoldsSeries(q)' => HoldsSeries(q) /\ DocSeries[Paper[q]] # s
    BY <1>1, <1>4 DEF StockTypeOK, HoldsSeries, Phases, Excluding
  <2>4. \A q \in Requests : HoldsSeries(q)' => got'[q] = next'[DocSeries[Paper[q]]]
    BY <1>1, <1>2, <2>1, <2>3, RequestAssumption, PaperAssumption DEF Numbered, StockTypeOK
  <2>5. \A u \in Papers : number'[u] # 0 =>
          number'[u] < next'[DocSeries[u]] /\ standing'[u] \notin {"none", "draft"}
    BY <1>1, <1>2, <2>1, PaperAssumption DEF Numbered, StockTypeOK
  <2>6. \A u, v \in Papers :
          DocSeries[u] = DocSeries[v] /\ number'[u] = number'[v] /\ number'[u] # 0 => u = v
    BY <1>2, <2>1 DEF Numbered, StockTypeOK
  <2>7. ASSUME NEW t \in Series, NEW n \in 1 .. next'[t] - 1
        PROVE  \E u \in Papers : DocSeries[u] = t /\ number'[u] = n
    <3>1. CASE t = s /\ n = next[s]
      BY <1>2, <2>1, <3>1 DEF StockTypeOK
    <3>2. CASE ~(t = s /\ n = next[s])
      <4>1. n \in 1 .. next[t] - 1
        BY <1>2, <2>1, <2>7, <3>2 DEF StockTypeOK
      <4>2. PICK u \in Papers : DocSeries[u] = t /\ number[u] = n
        BY <4>1 DEF Numbered
      <4> QED
        BY <1>2, <2>1, <2>2, <4>1, <4>2 DEF StockTypeOK
    <3> QED
      BY <3>1, <3>2
  <2> QED
    BY <2>4, <2>5, <2>6, <2>7 DEF Numbered
<1> QED
  BY <1>3, <1>4

-----------------------------------------------------------------------------
\* Type correctness.

LEMMA QuietTypes ==
  ASSUME StockTypeOK, NEW r \in Requests, Quiet(r) PROVE StockTypeOK'
<1>1. UNCHANGED <<tables, ghosts>>
  BY QuietTables
<1>2. got' \in [Requests -> Nat]
  BY RequestAssumption, PaperAssumption
  DEF StockTypeOK, Quiet, SaleArrives, SaleReserves, SaleInserts, Checks, Opens, Locks,
      ConfirmReserves, RollsBack, Reserve
<1>3. at' \in [Requests -> Phases]
  BY DEF StockTypeOK, Phases, Go, Quiet, SaleArrives, SaleReserves, SaleInserts, Checks,
         Opens, Locks, ConfirmReserves, RollsBack
<1>4. pick' \in [Requests -> Serials \cup {None}]
  BY DEF StockTypeOK, Available, Quiet, SaleArrives, SaleReserves, SaleInserts, Checks,
         Opens, Locks, ConfirmReserves, RollsBack
<1>5. view' \in [Requests -> Views \cup {None}]
  <2>1. [stock |-> stock, serial |-> serial, kardex |-> kardex] \in Views
    BY DEF StockTypeOK, Views
  <2> QED
    BY <2>1 DEF StockTypeOK, Snapshot, Forget, Quiet, SaleArrives, SaleReserves,
                SaleInserts, Checks, Opens, Locks, ConfirmReserves, RollsBack
<1> QED
  BY <1>1, <1>2, <1>3, <1>4, <1>5 DEF StockTypeOK, tables, ghosts

\* RecordMovementTx keeps every quantity a natural number.
LEMMA RecordTypes ==
  ASSUME StockTypeOK, Reading, NEW r \in Requests, at[r] = "open",
         NEW b \in Branches, NEW d \in Change, Record(r, b, d)
  PROVE  stock' \in [Branches -> Nat] /\ missed' \subseteq Requests \X Requests
<1>1. view[r].stock[b] \in Nat
  BY DEF Reading, Views
<1>2. stock' \in [Branches -> Nat]
  BY <1>1 DEF Record, StockTypeOK, Change
<1>3. missed' \subseteq Requests \X Requests
  BY DEF Record, StockTypeOK, Rows
<1> QED
  BY <1>2, <1>3

\* An UPDATE keeps the row of a serial well formed.
LEMMA PutTypes ==
  ASSUME StockTypeOK, NEW x \in Serials \cup {None}, NEW b \in Branches,
         NEW status \in States, NEW p \in Papers \cup {None, serial[x].sale},
         Put(x, b, status, p) \/ UNCHANGED serial
  PROVE  serial' \in [Serials -> SerialRows]
<1>1. CASE x \in Serials /\ Put(x, b, status, p)
  <2>1. serial[x] \in SerialRows
    BY <1>1 DEF StockTypeOK
  <2>2. [branch |-> b, status |-> status, sale |-> p] \in SerialRows
    BY <2>1 DEF SerialRows
  <2> QED
    BY <1>1, <2>2 DEF Put, StockTypeOK
<1>2. CASE x \notin Serials /\ Put(x, b, status, p)
  BY <1>2 DEF Put, StockTypeOK
<1> QED
  BY <1>1, <1>2 DEF StockTypeOK

LEMMA CommitSerials ==
  ASSUME StockTypeOK, NEW r \in Requests, Commits(r)
  PROVE  serial' \in [Serials -> SerialRows]
<1> USE PaperAssumption, RequestAssumption DEF States
<1>0. /\ Branch[Paper[r]] \in Branches /\ Destination[Paper[r]] \in Branches
      /\ Paper[r] \in Papers /\ cargo[Paper[r]] \in Serials \cup {None}
  BY DEF StockTypeOK
<1>1. CASE SaleCommits(r)
  BY <1>0, <1>1, PutTypes DEF SaleCommits, Available
<1>2. CASE CancelCommits(r)
  BY <1>0, <1>2 DEF CancelCommits, StockTypeOK, SerialRows
<1>3. CASE SendCommits(r)
  <2>1. PICK x \in Serials :
          IF serial[x].branch = Branch[Paper[r]]
          THEN Put(x, Branch[Paper[r]], "in_transit", serial[x].sale) ELSE UNCHANGED serial
    BY <1>3 DEF SendCommits, Available
  <2> QED
    BY <1>0, <2>1, PutTypes
<1>4. CASE ReceiveCommits(r)
  BY <1>0, <1>4, PutTypes DEF ReceiveCommits, Unload
<1>5. CASE WithdrawCommits(r)
  BY <1>0, <1>5, PutTypes DEF WithdrawCommits, Unload
<1>6. CASE DocumentCommits(r)
  <2>1. PICK from \in States, to \in States : Shift(r, from, to)
    BY <1>6 DEF DocumentCommits
  <2> QED
    BY <1>0, <2>1, PutTypes DEF Shift
<1> QED
  BY <1>1, <1>2, <1>3, <1>4, <1>5, <1>6 DEF Commits

LEMMA CommitTypes ==
  ASSUME StockTypeOK, Reading, NEW r \in Requests, Commits(r)
  PROVE  StockTypeOK'
<1>1. PICK m \in Rows, status \in Standing : Effect(r, m, status)
  BY CommitEffect
<1>2. PICK b \in Branches, d \in Change : Record(r, b, d)
  BY PaperAssumption, RequestAssumption
  DEF Commits, Change, SaleCommits, CancelCommits, SendCommits, ReceiveCommits,
      WithdrawCommits, DocumentCommits
<1>3. at[r] = "open" /\ kardex' = kardex \cup {m} /\ Close(r, status)
  BY <1>1 DEF Effect
<1>4. stock' \in [Branches -> Nat] /\ missed' \subseteq Requests \X Requests
  BY <1>2, <1>3, RecordTypes
<1>5. serial' \in [Serials -> SerialRows]
  BY CommitSerials
<1>6. cargo' \in [Papers -> Serials \cup {None}]
  BY DEF StockTypeOK, Available, Commits, SaleCommits, CancelCommits, SendCommits,
         ReceiveCommits, WithdrawCommits, DocumentCommits
<1>7. outrun' \subseteq Requests
  BY DEF StockTypeOK, CloseChecked, Commits, SaleCommits, CancelCommits, SendCommits,
         ReceiveCommits, WithdrawCommits, DocumentCommits
<1>8. /\ standing' \in [Papers -> Standing] /\ at' \in [Requests -> Phases]
      /\ pick' = pick /\ got' = got /\ view' \in [Requests -> Views \cup {None}]
  BY <1>3 DEF StockTypeOK, Close, Go, Forget, Phases
<1>9. next' \in [Series -> Nat \ {0}] /\ number' \in [Papers -> Nat]
  BY <1>3, PaperAssumption, RequestAssumption DEF StockTypeOK, Close
<1> QED
  BY <1>3, <1>4, <1>5, <1>6, <1>7, <1>8, <1>9 DEF StockTypeOK

-----------------------------------------------------------------------------
LEMMA StockInvInitially == StockInit => StockInv
<1> SUFFICES ASSUME StockInit PROVE StockInv
  OBVIOUS
<1> USE DEF StockInit
<1>1. StockTypeOK
  <2>1. stock \in [Branches -> Nat]
    <3>1. ASSUME NEW b \in Branches
          PROVE  Cardinality({x \in Serials : Shelf[x] = b}) \in Nat
      BY SerialsAssumption, FS_Subset, FS_CardinalityType
    <3> QED
      BY <3>1
  <2>2. serial \in [Serials -> SerialRows]
    BY ShelfAssumption DEF SerialRows, States
  <2>3. at \in [Requests -> Phases]
    BY DEF Phases
  <2>4. standing \in [Papers -> Standing] /\ cargo \in [Papers -> Serials \cup {None}]
    BY PaperAssumption DEF Standing
  <2> QED
    BY <2>1, <2>2, <2>3, <2>4 DEF StockTypeOK
<1>2. Reading /\ Excluding /\ Standings /\ Seen
  BY DEF Reading, Excluding, Standings, Seen, HoldsSeries, HoldsRow
<1>3. Moved /\ MovesOnce /\ SameSeriesNeverOverwrite
  BY DEF Moved, MovesOnce, SameSeriesNeverOverwrite
<1>4. Numbered
  BY PaperAssumption, RequestAssumption DEF Numbered, HoldsSeries
<1> QED
  BY <1>1, <1>2, <1>3, <1>4 DEF StockInv

\* StockInv is inductive.
LEMMA StockInvInductive == StockInv /\ [StockNext]_stockVars => StockInv'
<1> SUFFICES ASSUME StockInv, [StockNext]_stockVars PROVE StockInv'
  OBVIOUS
<1>1. CASE UNCHANGED stockVars
  BY <1>1 DEF stockVars, tables, local, ghosts, StockInv, StockTypeOK, Reading, Excluding,
              Standings, Moved, Numbered, Seen, MovesOnce, SameSeriesNeverOverwrite,
              HoldsSeries, HoldsRow
<1>2. ASSUME NEW r \in Requests, Quiet(r) PROVE StockInv'
  <2>1. UNCHANGED <<tables, ghosts>>
    BY <1>2, QuietTables
  <2>2. Moved' /\ MovesOnce' /\ SameSeriesNeverOverwrite'
    BY <2>1 DEF StockInv, tables, ghosts, Moved, MovesOnce, SameSeriesNeverOverwrite
  <2> QED
    BY <1>2, <2>2, QuietTypes, QuietReading, QuietExcluding, QuietStandings,
       QuietNumbered, QuietSeen DEF StockInv
<1>3. ASSUME NEW r \in Requests, Commits(r) PROVE StockInv'
  <2>1. PICK m \in Rows, status \in Standing : Effect(r, m, status)
    BY <1>3, CommitEffect
  <2> QED
    BY <1>3, <2>1, CommitTypes, CommitReading, CommitExcluding, CommitStandings, CommitMoved,
       CommitMovesOnce, CommitSeen, CommitSameSeries, CommitNumbered DEF StockInv
<1> QED
  BY <1>1, <1>2, <1>3 DEF StockNext, Quiet, Commits

THEOREM StockInvariant == StockSpec => []StockInv
BY StockInvInitially, StockInvInductive, PTL DEF StockSpec

\* Type correctness: in particular no quantity of stock is ever negative.
THEOREM StockTypeCorrect == StockSpec => []StockTypeOK
<1>1. StockInv => StockTypeOK
  BY DEF StockInv
<1> QED
  BY <1>1, StockInvariant, PTL

\* The numbers of every series are 1 .. next - 1, each on one paper, whatever
\* transactions roll back or lose the race for an idempotency key.
THEOREM Gapless == StockSpec => []NumbersGapless
<1>1. StockInv => NumbersGapless
  <2> SUFFICES ASSUME StockInv, NEW s \in Series
      PROVE  LET numbered == {p \in Papers : DocSeries[p] = s /\ number[p] # 0} IN
             /\ {number[p] : p \in numbered} = 1 .. next[s] - 1
             /\ \A p, q \in numbered : number[p] = number[q] => p = q
    BY DEF NumbersGapless
  <2> DEFINE numbered == {p \in Papers : DocSeries[p] = s /\ number[p] # 0}
  <2>1. \A p \in numbered : number[p] \in 1 .. next[s] - 1
    BY DEF StockInv, StockTypeOK, Numbered
  <2>2. \A n \in 1 .. next[s] - 1 : \E p \in numbered : number[p] = n
    BY DEF StockInv, StockTypeOK, Numbered
  <2>3. \A p, q \in numbered : number[p] = number[q] => p = q
    BY DEF StockInv, Numbered
  <2> QED
    BY <2>1, <2>2, <2>3
<1> QED
  BY <1>1, StockInvariant, PTL

\* A retried charge, a document confirmed again or voided again moves stock
\* once.
THEOREM OneMovement == StockSpec => []MovesOnce
<1>1. StockInv => MovesOnce
  BY DEF StockInv
<1> QED
  BY <1>1, StockInvariant, PTL

\* Two sales of one series never overwrite each other's stock.
THEOREM SeriesSerialise == StockSpec => []SameSeriesNeverOverwrite
<1>1. StockInv => SameSeriesNeverOverwrite
  BY DEF StockInv
<1> QED
  BY <1>1, StockInvariant, PTL

-----------------------------------------------------------------------------
\* The ledger: while no transaction has written over another's movement, the
\* quantities, and the snapshots in use, are the opening stock plus the kardex.

Tally(rows, b, d) == Cardinality({m \in rows : m.branch = b /\ m.change = d})

Balanced(quantity, rows) ==
  \A b \in Branches :
    quantity[b] = Cardinality({x \in Serials : Shelf[x] = b}) + Tally(rows, b, 1)
                    - Tally(rows, b, -1)

LedgerInv ==
  /\ IsFiniteSet(kardex)
  /\ \A r \in Requests : at[r] \in {"held", "open"} => view[r].kardex \subseteq kardex
  /\ missed = {} =>
       /\ Balanced(stock, kardex)
       /\ \A r \in Requests :
            at[r] \in {"held", "open"} => Balanced(view[r].stock, view[r].kardex)

LEMMA TallyType ==
  ASSUME NEW rows, IsFiniteSet(rows), NEW b, NEW d PROVE Tally(rows, b, d) \in Nat
BY FS_Subset, FS_CardinalityType DEF Tally

LEMMA TallyAdd ==
  ASSUME NEW rows, IsFiniteSet(rows), NEW m, m \notin rows, NEW b, NEW d
  PROVE  Tally(rows \cup {m}, b, d) =
           Tally(rows, b, d) + (IF m.branch = b /\ m.change = d THEN 1 ELSE 0)
<1> DEFINE T == {k \in rows : k.branch = b /\ k.change = d}
<1>1. IsFiniteSet(T) /\ m \notin T /\ Cardinality(T) \in Nat
  BY FS_Subset, FS_CardinalityType
<1>2. CASE m.branch = b /\ m.change = d
  <2>1. {k \in rows \cup {m} : k.branch = b /\ k.change = d} = T \cup {m}
    BY <1>2
  <2> QED
    BY <1>1, <1>2, <2>1, FS_AddElement DEF Tally
<1>3. CASE ~(m.branch = b /\ m.change = d)
  <2>1. {k \in rows \cup {m} : k.branch = b /\ k.change = d} = T
    BY <1>3
  <2>2. Tally(rows \cup {m}, b, d) = Tally(rows, b, d)
    BY <2>1 DEF Tally
  <2>3. Tally(rows, b, d) \in Nat
    BY TallyType
  <2> QED
    BY <1>3, <2>2, <2>3
<1> QED
  BY <1>2, <1>3

\* A movement computed from a snapshot that misses none of the branch's.
LEMMA RecordBalances ==
  ASSUME StockInv, LedgerInv, NEW r \in Requests, at[r] = "open",
         NEW b \in Branches, NEW d \in Change, Record(r, b, d), missed' = {}
  PROVE  Balanced(stock, kardex)' 
<1> DEFINE m == [req |-> r, branch |-> b, change |-> d]
<1>1. /\ missed = {} /\ kardex' = kardex \cup {m}
      /\ stock' = [stock EXCEPT ![b] = view[r].stock[b] + d]
      /\ {k \in kardex \ view[r].kardex : k.branch = b} = {}
  BY DEF Record
<1>2. IsFiniteSet(kardex) /\ view[r].kardex \subseteq kardex
  BY DEF LedgerInv
<1>3. m \notin kardex
  BY DEF StockInv, Reading
<1>4. ASSUME NEW c \in Branches
      PROVE  stock'[c] = Cardinality({x \in Serials : Shelf[x] = c})
                           + Tally(kardex', c, 1) - Tally(kardex', c, -1)
  <2>1. Cardinality({x \in Serials : Shelf[x] = c}) \in Nat
    BY SerialsAssumption, FS_Subset, FS_CardinalityType
  <2>2. Tally(kardex, c, 1) \in Nat /\ Tally(kardex, c, -1) \in Nat
    BY <1>2, TallyType
  <2>3. /\ Tally(kardex', c, 1) = Tally(kardex, c, 1) + (IF b = c /\ d = 1 THEN 1 ELSE 0)
        /\ Tally(kardex', c, -1) = Tally(kardex, c, -1) + (IF b = c /\ d = -1 THEN 1 ELSE 0)
    BY <1>1, <1>2, <1>3, TallyAdd
  <2>4. CASE c # b
    BY <1>1, <2>2, <2>3, <2>4 DEF LedgerInv, Balanced, StockInv, StockTypeOK
  <2>5. CASE c = b
    <3>1. /\ {k \in view[r].kardex : k.branch = b /\ k.change = 1}
               = {k \in kardex : k.branch = b /\ k.change = 1}
          /\ {k \in view[r].kardex : k.branch = b /\ k.change = -1}
               = {k \in kardex : k.branch = b /\ k.change = -1}
      BY <1>1, <1>2
    <3>2. view[r].stock[b] = Cardinality({x \in Serials : Shelf[x] = b})
                               + Tally(kardex, b, 1) - Tally(kardex, b, -1)
      BY <1>1, <3>1 DEF LedgerInv, Balanced, Tally
    <3>3. stock'[b] = view[r].stock[b] + d
      BY <1>1 DEF StockInv, StockTypeOK
    <3> QED
      BY <2>1, <2>2, <2>3, <2>5, <3>2, <3>3 DEF Change
  <2> QED
    BY <2>4, <2>5
<1> QED
  BY <1>4 DEF Balanced

LEMMA LedgerInductive ==
  StockInv /\ LedgerInv /\ [StockNext]_stockVars => LedgerInv'
<1> SUFFICES ASSUME StockInv, LedgerInv, [StockNext]_stockVars PROVE LedgerInv'
  OBVIOUS
<1>1. CASE UNCHANGED stockVars
  BY <1>1 DEF stockVars, tables, local, ghosts, LedgerInv, Balanced, Tally
<1>2. ASSUME NEW r \in Requests, Quiet(r) PROVE LedgerInv'
  <2>1. UNCHANGED <<stock, serial, kardex, missed>>
    BY <1>2, QuietTables DEF tables, ghosts
  <2>2. ASSUME NEW q \in Requests, at'[q] \in {"held", "open"}
        PROVE  \/ at[q] \in {"held", "open"} /\ view'[q] = view[q]
               \/ view'[q].stock = stock /\ view'[q].kardex = kardex
    BY <1>2, <2>2
    DEF StockInv, StockTypeOK, Phases, Go, Snapshot, Forget, Quiet, SaleArrives, SaleReserves,
        SaleInserts, Checks, Opens, Locks, ConfirmReserves, RollsBack
  <2>3. ASSUME NEW q \in Requests, at'[q] \in {"held", "open"}
        PROVE  /\ view'[q].kardex \subseteq kardex
               /\ missed = {} => Balanced(view'[q].stock, view'[q].kardex)
    BY <2>2, <2>3 DEF LedgerInv, Balanced, Tally
  <2>4. missed = {} => Balanced(stock', kardex')
    BY <2>1 DEF LedgerInv, Balanced
  <2>5. \A q \in Requests : at'[q] \in {"held", "open"} /\ missed = {} =>
          Balanced(view[q].stock, view[q].kardex)'
    BY <2>3 DEF Balanced, Tally
  <2> QED
    BY <2>1, <2>3, <2>4, <2>5 DEF LedgerInv, Balanced
<1>3. ASSUME NEW r \in Requests, Commits(r) PROVE LedgerInv'
  <2>1. PICK b \in Branches, d \in Change : Record(r, b, d)
    BY <1>3, PaperAssumption, RequestAssumption
    DEF Commits, Change, SaleCommits, CancelCommits, SendCommits, ReceiveCommits,
        WithdrawCommits, DocumentCommits
  <2>2. PICK m \in Rows, status \in Standing : Effect(r, m, status)
    BY <1>3, CommitEffect
  <2>3. /\ at[r] = "open" /\ kardex' = kardex \cup {m}
        /\ at' = [at EXCEPT ![r] = "done"] /\ view' = [view EXCEPT ![r] = None]
    BY <2>2 DEF Effect, Close, Go, Forget
  <2>4. IsFiniteSet(kardex')
    BY <2>3, FS_AddElement DEF LedgerInv
  <2>5. ASSUME NEW q \in Requests, at'[q] \in {"held", "open"}
        PROVE  at[q] \in {"held", "open"} /\ view'[q] = view[q]
    BY <2>3, <2>5 DEF StockInv, StockTypeOK, Phases
  <2>6. missed \subseteq missed'
    BY <2>1 DEF Record
  <2>7. missed' = {} => Balanced(stock, kardex)'
    BY <2>1, <2>3, RecordBalances
  <2> QED
    BY ZenonT(60), <2>3, <2>4, <2>5, <2>6, <2>7 DEF LedgerInv, Balanced
<1> QED
  BY <1>1, <1>2, <1>3 DEF StockNext, Quiet, Commits

LEMMA LedgerInitially == StockInit => LedgerInv
<1>1. StockInit => \A b \in Branches : Tally(kardex, b, 1) = 0 /\ Tally(kardex, b, -1) = 0
  BY FS_EmptySet DEF StockInit, Tally
<1>2. ASSUME NEW b \in Branches PROVE Cardinality({x \in Serials : Shelf[x] = b}) \in Nat
  BY SerialsAssumption, FS_Subset, FS_CardinalityType
<1>3. StockInit => \A r \in Requests : at[r] \notin {"held", "open"}
  BY DEF StockInit
<1> QED
  BY <1>1, <1>2, <1>3, FS_EmptySet DEF StockInit, LedgerInv, Balanced

\* While nothing was overwritten the stock is the opening one plus the kardex,
\* for any mix of sales, cancellations, documents and transfers.
THEOREM StockFollowsKardex == StockSpec => []StockIsKardex
<1>1. LedgerInv => StockIsKardex
  BY DEF LedgerInv, Balanced, Tally, StockIsKardex, Moves
<1> QED
  BY <1>1, LedgerInitially, LedgerInductive, StockInvariant, PTL DEF StockSpec

-----------------------------------------------------------------------------
\* The shelf: while there is no anomaly, the balance of a branch is its serials
\* available.  Every commit then moves one serial in or out of the branch whose
\* balance it writes, although it found the serial in its snapshot.

\* A serial of a sale is sold, in the branch of the sale, and it is the only one.
SoldBySale ==
  \A x \in Serials : serial[x].sale # None =>
    /\ serial[x].status = "sold" /\ serial[x].branch = Branch[serial[x].sale]
    /\ standing[serial[x].sale] = "live"
    /\ \E r \in Requests : Paper[r] = serial[x].sale /\ Kind[r] = "sale"
    /\ \A y \in Serials : serial[y].sale = serial[x].sale => y = x

\* A sale that stands has its serial.
SaleHasSerial ==
  \A r \in Requests :
    Kind[r] \in {"sale", "cancel"} /\ standing[Paper[r]] = "live" =>
      \E x \in Serials : serial[x].sale = Paper[r]

\* The cargo of a pending transfer is in transit, in that transfer only.
CargoInTransit ==
  \A p \in Papers : standing[p] = "pending" =>
    /\ cargo[p] \in Serials
    /\ serial[cargo[p]].status = "in_transit" /\ serial[cargo[p]].branch = Branch[p]
    /\ \A q \in Papers : standing[q] = "pending" /\ cargo[q] = cargo[p] => q = p

\* The line of a document does not change.
LinesStay == \A p \in Papers : Draft(p) => cargo[p] = Listed[p]

\* The snapshot of r misses no movement of branch b.
UpToDate(r, b) == \A m \in kardex : m.branch = b => m \in view[r].kardex

\* What such a snapshot shows on the shelf of the branch, or removed from it,
\* is there.
ViewsHold ==
  \A r \in Requests : at[r] \in {"held", "open"} =>
    \A b \in Branches : UpToDate(r, b) =>
      \A x \in Serials :
        /\ view[r].serial[x].branch = b
        /\ view[r].serial[x].status \in {"available", "removed"}
        => serial[x].branch = b /\ serial[x].status = view[r].serial[x].status

\* The serial an entry is bringing, and found absent, is still absent.
EntryAbsent ==
  \A r \in Requests :
    /\ Kind[r] = "confirm" /\ Direction[Paper[r]] = "IN"
    /\ at[r] \in {"held", "open"}
    /\ view[r].serial[Listed[Paper[r]]].status = "absent"
    => serial[Listed[Paper[r]]].status = "absent"

ShelfMatches == \A b \in Branches : stock[b] = Cardinality(Available(serial, b))

ShelfInv ==
  /\ LinesStay
  /\ NoAnomaly => /\ SoldBySale /\ SaleHasSerial /\ CargoInTransit
                  /\ ViewsHold /\ EntryAbsent /\ ShelfMatches

\* A commit of r moves serial x: it leaves row in its place, and records d units
\* of branch b.
Shelves(r, x, b, d, row) ==
  /\ Record(r, b, d)
  /\ serial' = [serial EXCEPT ![x] = row]
  /\ row.branch = b
  /\ d = -1 => /\ serial[x].branch = b /\ serial[x].status = "available"
               /\ row.status # "available"
  /\ d = 1 => serial[x].status # "available" /\ row.status = "available"
  /\ serial[x].status \in {"available", "removed"} => serial[x].branch = b
  /\ serial[x].status = "absent" =>
       /\ Kind[r] = "confirm" /\ Direction[Paper[r]] = "IN" /\ x = Listed[Paper[r]]

\* What a transaction finds on the shelf of its branch is there when it has
\* missed nothing.
LEMMA FoundOnShelf ==
  ASSUME StockInv, ShelfInv, NoAnomaly, NEW r \in Requests, at[r] \in {"held", "open"},
         NEW b \in Branches, NEW d, Record(r, b, d), missed' = {},
         NEW x \in Serials, view[r].serial[x].branch = b,
         view[r].serial[x].status \in {"available", "removed"}
  PROVE  serial[x].branch = b /\ serial[x].status = view[r].serial[x].status
<1>1. {<<r, m.req>> : m \in {m \in kardex \ view[r].kardex : m.branch = b}} = {}
  BY DEF Record
<1>2. UpToDate(r, b)
  BY <1>1 DEF UpToDate
<1> QED
  BY <1>2 DEF ShelfInv, ViewsHold

\* A kind of request belongs to one family, and its paper with it.
LEMMA KindOfPaper ==
  ASSUME NEW r \in Requests, NEW q \in Requests, Paper[r] = Paper[q]
  PROVE  /\ Kind[r] \in {"sale", "cancel"} <=> Kind[q] \in {"sale", "cancel"}
         /\ Kind[r] \in {"confirm", "void"} <=> Kind[q] \in {"confirm", "void"}
BY FamilyAssumption, RequestAssumption DEF Family, Kinds

LEMMA SaleShelves ==
  ASSUME StockInv, ShelfInv, NoAnomaly, NoAnomaly', NEW r \in Requests, SaleCommits(r)
  PROVE  \E x \in Serials, row \in SerialRows :
           /\ Shelves(r, x, Branch[Paper[r]], -1, row)
           /\ serial[x].status = "available"
           /\ row.status = "sold" /\ row.sale = Paper[r]
<1> DEFINE p == Paper[r]
           b == Branch[p]
<1>1. /\ Kind[r] = "sale" /\ at[r] = "open" /\ pick[r] \in Available(view[r].serial, b)
      /\ Record(r, b, -1) /\ p \in Papers /\ b \in Branches
      /\ IF serial[pick[r]].branch = b THEN Put(pick[r], b, "sold", p) ELSE UNCHANGED serial
  BY PaperAssumption, RequestAssumption DEF SaleCommits
<1>x. PICK x \in Serials : x = pick[r] /\ x \in Available(view[r].serial, b)
  BY <1>1 DEF Available
<1>2. serial[x].branch = b /\ serial[x].status = "available"
  BY <1>1, <1>x, FoundOnShelf DEF Available, NoAnomaly
<1>r. PICK row \in SerialRows : row = [branch |-> b, status |-> "sold", sale |-> p]
  BY <1>1 DEF SerialRows, States
<1>3. serial' = [serial EXCEPT ![x] = row]
  BY <1>1, <1>x, <1>2, <1>r DEF Put
<1>4. Shelves(r, x, b, -1, row)
  BY <1>1, <1>2, <1>3, <1>r DEF Shelves
<1> QED
  BY <1>2, <1>4, <1>r

LEMMA CancelShelves ==
  ASSUME StockInv, ShelfInv, NoAnomaly, NoAnomaly', NEW r \in Requests, CancelCommits(r)
  PROVE  \E x \in Serials, row \in SerialRows :
           /\ Shelves(r, x, Branch[Paper[r]], 1, row)
           /\ serial[x].sale = Paper[r] /\ row.sale = None
<1> DEFINE p == Paper[r]
           b == Branch[p]
<1>1. /\ Kind[r] = "cancel" /\ at[r] = "open" /\ Record(r, b, 1)
      /\ p \in Papers /\ b \in Branches
      /\ serial' = [x \in Serials |->
           IF serial[x].sale = p
           THEN [branch |-> serial[x].branch, status |-> "available", sale |-> None]
           ELSE serial[x]]
  BY PaperAssumption, RequestAssumption DEF CancelCommits
<1>2. standing[p] = "live"
  <2>1. outrun' = IF standing[p] = "live" THEN outrun ELSE outrun \cup {r}
    BY DEF CancelCommits, CloseChecked
  <2> QED
    BY <2>1 DEF NoAnomaly
<1>x. PICK x \in Serials : serial[x].sale = p
  BY <1>1, <1>2 DEF ShelfInv, SaleHasSerial
<1>3. p # None
  BY <1>1, NoneAssumption
<1>4. /\ serial[x].status = "sold" /\ serial[x].branch = b
      /\ \A y \in Serials : serial[y].sale = p => y = x
  BY <1>x, <1>3 DEF ShelfInv, SoldBySale
<1>r. PICK row \in SerialRows : row = [branch |-> b, status |-> "available", sale |-> None]
  BY <1>1 DEF SerialRows, States
<1>5. serial' = [serial EXCEPT ![x] = row]
  BY <1>1, <1>x, <1>4, <1>r DEF StockInv, StockTypeOK
<1>6. Shelves(r, x, b, 1, row)
  <2>1. Record(r, b, 1) /\ row.branch = b /\ row.status = "available"
    BY <1>1, <1>r
  <2> HIDE DEF b, p
  <2> QED
    BY <1>4, <1>5, <2>1 DEF Shelves
<1> QED
  BY <1>x, <1>6, <1>r

LEMMA SendShelves ==
  ASSUME StockInv, ShelfInv, NoAnomaly, NoAnomaly', NEW r \in Requests, SendCommits(r)
  PROVE  \E x \in Serials, row \in SerialRows :
           /\ Shelves(r, x, Branch[Paper[r]], -1, row)
           /\ serial[x].status = "available"
           /\ row.status = "in_transit" /\ row.sale = serial[x].sale
           /\ cargo' = [cargo EXCEPT ![Paper[r]] = x]
<1> DEFINE p == Paper[r]
           b == Branch[p]
<1>1. /\ Kind[r] = "send" /\ at[r] = "open" /\ Record(r, b, -1)
      /\ p \in Papers /\ b \in Branches
  BY PaperAssumption, RequestAssumption DEF SendCommits
<1>x. PICK x \in Available(view[r].serial, b) :
        /\ cargo' = [cargo EXCEPT ![p] = x]
        /\ IF serial[x].branch = b THEN Put(x, b, "in_transit", serial[x].sale)
           ELSE UNCHANGED serial
  BY DEF SendCommits
<1>2. x \in Serials /\ serial[x].branch = b /\ serial[x].status = "available"
  BY <1>1, <1>x, FoundOnShelf DEF Available, NoAnomaly
<1>3. serial[x] \in SerialRows
  BY <1>2 DEF StockInv, StockTypeOK
<1>r. PICK row \in SerialRows :
        row = [branch |-> b, status |-> "in_transit", sale |-> serial[x].sale]
  BY <1>1, <1>3 DEF SerialRows, States
<1>4. serial' = [serial EXCEPT ![x] = row]
  BY <1>x, <1>2, <1>r DEF Put
<1>5. Shelves(r, x, b, -1, row)
  <2>1. row.branch = b /\ row.status = "in_transit"
    BY <1>r
  <2> QED
    BY <1>1, <1>2, <1>4, <2>1 DEF Shelves
<1> QED
  BY <1>x, <1>2, <1>5, <1>r

\* The cargo of a transfer arrives, or comes back.
LEMMA UnloadShelves ==
  ASSUME StockInv, ShelfInv, NoAnomaly, NoAnomaly', NEW r \in Requests, NEW b \in Branches,
         Unload(Paper[r], b), Record(r, b, 1), standing[Paper[r]] = "pending"
  PROVE  \E x \in Serials, row \in SerialRows :
           /\ Shelves(r, x, b, 1, row)
           /\ x = cargo[Paper[r]] /\ serial[x].status = "in_transit"
           /\ row.sale = serial[x].sale
<1> DEFINE p == Paper[r]
<1>1. p \in Papers
  BY RequestAssumption
<1>x. PICK x \in Serials : /\ x = cargo[p] /\ serial[x].status = "in_transit"
                           /\ serial[x].branch = Branch[p]
  BY <1>1 DEF ShelfInv, CargoInTransit
<1>2. serial[x] \in SerialRows
  BY DEF StockInv, StockTypeOK
<1>r. PICK row \in SerialRows :
        row = [branch |-> b, status |-> "available", sale |-> serial[x].sale]
  BY <1>2 DEF SerialRows, States
<1>3. serial' = [serial EXCEPT ![x] = row]
  BY <1>x, <1>r DEF Unload, Put
<1>4. Shelves(r, x, b, 1, row)
  BY <1>x, <1>3, <1>r DEF Shelves
<1> QED
  BY <1>x, <1>4, <1>r

\* A document puts its serial on the shelf, or takes it off.
LEMMA ShiftShelves ==
  ASSUME StockInv, ShelfInv, NoAnomaly, NoAnomaly', NEW r \in Requests,
         at[r] = "open", Kind[r] \in {"confirm", "void"},
         NEW from \in {"absent", "available", "removed"}, NEW to \in {"available", "removed"},
         NEW d \in Change,
         from = "absent" => Kind[r] = "confirm" /\ Direction[Paper[r]] = "IN",
         from = "available" <=> d = -1, to = "available" <=> d = 1,
         Shift(r, from, to), Record(r, Branch[Paper[r]], d)
  PROVE  \E x \in Serials, row \in SerialRows :
           /\ Shelves(r, x, Branch[Paper[r]], d, row)
           /\ serial[x].status \in {"absent", "available", "removed"}
           /\ row.sale = serial[x].sale
<1> DEFINE p == Paper[r]
           b == Branch[p]
<1>1. p \in Papers /\ b \in Branches /\ Draft(p)
  BY PaperAssumption, RequestAssumption DEF Draft
<1>x. PICK x \in Serials : x = cargo[p] /\ x = Listed[p]
  BY <1>1, LineAssumption DEF ShelfInv, LinesStay
<1>2. /\ view[r].serial[x].status = from
      /\ from # "absent" => view[r].serial[x].branch = b
      /\ IF from = "absent" \/ serial[x].branch = b
         THEN Put(x, b, to, serial[x].sale) ELSE UNCHANGED serial
  BY <1>x DEF Shift
<1>3. serial[x].status = from /\ (from # "absent" => serial[x].branch = b)
  <2>1. CASE from = "absent"
    BY <1>x, <1>2, <2>1 DEF ShelfInv, EntryAbsent
  <2>2. CASE from # "absent"
    BY <1>1, <1>2, <2>2, FoundOnShelf DEF NoAnomaly
  <2> QED
    BY <2>1, <2>2
<1>4. serial[x] \in SerialRows
  BY DEF StockInv, StockTypeOK
<1>r. PICK row \in SerialRows :
        row = [branch |-> b, status |-> to, sale |-> serial[x].sale]
  BY <1>1, <1>4 DEF SerialRows, States
<1>5. serial' = [serial EXCEPT ![x] = row]
  BY <1>2, <1>3, <1>r DEF Put
<1>6. Shelves(r, x, b, d, row)
  BY <1>x, <1>3, <1>5, <1>r DEF Shelves, Change
<1> QED
  BY <1>3, <1>6, <1>r

LEMMA DocumentShelves ==
  ASSUME StockInv, ShelfInv, NoAnomaly, NoAnomaly', NEW r \in Requests, DocumentCommits(r)
  PROVE  \E x \in Serials, row \in SerialRows, d \in Change :
           /\ Shelves(r, x, Branch[Paper[r]], d, row)
           /\ serial[x].status \in {"absent", "available", "removed"}
           /\ row.sale = serial[x].sale
<1>1. /\ at[r] = "open" /\ Kind[r] \in {"confirm", "void"}
      /\ Direction[Paper[r]] \in {"IN", "OUT"}
  BY PaperAssumption, RequestAssumption DEF DocumentCommits
<1>2. 1 \in Change /\ -1 \in Change /\ 1 # -1
  BY DEF Change
<1>3. CASE Kind[r] = "confirm" /\ Direction[Paper[r]] = "IN"
  <2>1. Shift(r, "absent", "available") /\ Record(r, Branch[Paper[r]], 1)
    BY <1>1, <1>3 DEF DocumentCommits
  <2> QED
    BY <1>1, <1>2, <1>3, <2>1, ShiftShelves
<1>4. CASE Kind[r] = "confirm" /\ Direction[Paper[r]] = "OUT"
  <2>1. Shift(r, "available", "removed") /\ Record(r, Branch[Paper[r]], -1)
    BY <1>1, <1>4 DEF DocumentCommits
  <2> QED
    BY <1>1, <1>2, <2>1, ShiftShelves
<1>5. CASE Kind[r] = "void" /\ Direction[Paper[r]] = "IN"
  <2>1. Shift(r, "available", "removed") /\ Record(r, Branch[Paper[r]], -1)
    BY <1>1, <1>5 DEF DocumentCommits
  <2> QED
    BY <1>1, <1>2, <2>1, ShiftShelves
<1>6. CASE Kind[r] = "void" /\ Direction[Paper[r]] = "OUT"
  <2>1. Shift(r, "removed", "available") /\ Record(r, Branch[Paper[r]], 1)
    BY <1>1, <1>6 DEF DocumentCommits
  <2> QED
    BY <1>1, <1>2, <2>1, ShiftShelves
<1> QED
  BY <1>1, <1>3, <1>4, <1>5, <1>6

-----------------------------------------------------------------------------
\* What follows from the shape of a commit.

\* The balance of the branch moves with its shelf, and no other shelf moves.
LEMMA ShelfKept ==
  ASSUME StockInv, LedgerInv, ShelfInv, NoAnomaly, missed' = {}, NEW r \in Requests,
         at[r] = "open", NEW x \in Serials, NEW b \in Branches, NEW d \in Change,
         NEW row \in SerialRows, Shelves(r, x, b, d, row), UNCHANGED outrun
  PROVE  ShelfMatches'
<1>1. /\ Balanced(stock, kardex) /\ Balanced(view[r].stock, view[r].kardex)
      /\ view[r].kardex \subseteq kardex
  BY DEF LedgerInv, NoAnomaly
<1>2. {<<r, m.req>> : m \in {m \in kardex \ view[r].kardex : m.branch = b}} = {}
  BY DEF Shelves, Record
<1>3. /\ {k \in view[r].kardex : k.branch = b /\ k.change = 1}
           = {k \in kardex : k.branch = b /\ k.change = 1}
      /\ {k \in view[r].kardex : k.branch = b /\ k.change = -1}
           = {k \in kardex : k.branch = b /\ k.change = -1}
  BY <1>1, <1>2
<1>4. view[r].stock[b] = stock[b]
  BY <1>1, <1>3 DEF Balanced, Tally
<1>5. stock' = [stock EXCEPT ![b] = stock[b] + d] /\ serial' = [serial EXCEPT ![x] = row]
  BY <1>4 DEF Shelves, Record
<1>6. ASSUME NEW c \in Branches PROVE stock'[c] = Cardinality(Available(serial', c))
  <2>1. /\ IsFiniteSet(Available(serial, c)) /\ stock[c] = Cardinality(Available(serial, c))
        /\ stock[c] \in Nat
    BY SerialsAssumption, FS_Subset DEF Available, ShelfInv, ShelfMatches, StockInv, StockTypeOK
  <2>2. CASE c # b
    <3>1. Available(serial', c) = Available(serial, c)
      BY <1>5, <2>2 DEF Available, Shelves, StockInv, StockTypeOK
    <3> QED
      BY <1>5, <2>1, <2>2, <3>1 DEF StockInv, StockTypeOK
  <2>3. CASE c = b /\ d = 1
    <3>1. Available(serial', c) = Available(serial, c) \cup {x} /\ x \notin Available(serial, c)
      BY <1>5, <2>3 DEF Available, Shelves, StockInv, StockTypeOK
    <3>2. Cardinality(Available(serial', c)) = Cardinality(Available(serial, c)) + 1
      BY <2>1, <3>1, FS_AddElement
    <3> QED
      BY <1>5, <2>1, <2>3, <3>2 DEF StockInv, StockTypeOK
  <2>4. CASE c = b /\ d = -1
    <3>1. Available(serial', c) = Available(serial, c) \ {x} /\ x \in Available(serial, c)
      BY <1>5, <2>4 DEF Available, Shelves, StockInv, StockTypeOK
    <3>2. Cardinality(Available(serial', c)) = Cardinality(Available(serial, c)) - 1
      BY ZenonT(60), <2>1, <3>1, FS_RemoveElement
    <3> QED
      BY <1>5, <2>1, <2>4, <3>2 DEF StockInv, StockTypeOK
  <2> QED
    BY <2>2, <2>3, <2>4 DEF Change
<1> QED
  BY <1>6 DEF ShelfMatches

\* A snapshot that is up to date after a commit was so before, and the commit
\* moved nothing of that branch.
LEMMA ViewsKept ==
  ASSUME StockInv, LedgerInv, ShelfInv, NoAnomaly, NEW r \in Requests,
         NEW x \in Serials, NEW b \in Branches, NEW d \in Change,
         NEW row \in SerialRows, Shelves(r, x, b, d, row),
         NEW m \in Rows, NEW status \in Standing, Effect(r, m, status)
  PROVE  ViewsHold' /\ EntryAbsent'
<1> DEFINE k == [req |-> r, branch |-> b, change |-> d]
<1>1. /\ kardex' = kardex \cup {k} /\ k.branch = b /\ k.req = r
      /\ serial' = [serial EXCEPT ![x] = row]
  BY DEF Shelves, Record
<1>2. /\ at' = [at EXCEPT ![r] = "done"] /\ view' = [view EXCEPT ![r] = None]
      /\ at[r] = "open"
  BY DEF Effect, Close, Go, Forget
<1>3. k \notin kardex
  BY <1>1, <1>2 DEF StockInv, Reading
<1>4. ASSUME NEW q \in Requests, at'[q] \in {"held", "open"}
      PROVE  q # r /\ at[q] \in {"held", "open"} /\ view'[q] = view[q]
  BY <1>2, <1>4 DEF StockInv, StockTypeOK
<1>5. ASSUME NEW q \in Requests, at'[q] \in {"held", "open"}, NEW c \in Branches,
             UpToDate(q, c)',
             NEW y \in Serials, view'[q].serial[y].branch = c,
             view'[q].serial[y].status \in {"available", "removed"}
      PROVE  serial'[y].branch = c /\ serial'[y].status = view'[q].serial[y].status
  <2>1. at[q] \in {"held", "open"} /\ view'[q] = view[q] /\ view[q].kardex \subseteq kardex
    BY <1>4, <1>5 DEF LedgerInv
  <2>2. c # b /\ UpToDate(q, c)
    BY <1>1, <1>3, <1>5, <2>1 DEF UpToDate
  <2>3. serial[y].branch = c /\ serial[y].status = view[q].serial[y].status
    BY <1>5, <2>1, <2>2 DEF ShelfInv, ViewsHold
  <2>4. y # x
    BY <1>5, <2>1, <2>2, <2>3 DEF Shelves
  <2> QED
    BY <1>1, <2>1, <2>3, <2>4 DEF StockInv, StockTypeOK
<1>6. ViewsHold'
  BY <1>5 DEF ViewsHold
<1>7. ASSUME NEW q \in Requests, Kind[q] = "confirm", Direction[Paper[q]] = "IN",
             at'[q] \in {"held", "open"},
             view'[q].serial[Listed[Paper[q]]].status = "absent"
      PROVE  serial'[Listed[Paper[q]]].status = "absent"
  <2> DEFINE y == Listed[Paper[q]]
  <2>1. q # r /\ at[q] \in {"held", "open"} /\ view'[q] = view[q]
    BY <1>4, <1>7
  <2>2. serial[y].status = "absent"
    BY <1>7, <2>1 DEF ShelfInv, EntryAbsent
  <2>3. Paper[q] \in Papers /\ Draft(Paper[q]) /\ y \in Serials
    BY <1>7, RequestAssumption, LineAssumption DEF Draft
  <2>4. y # x
    <3> SUFFICES ASSUME y = x PROVE FALSE
      OBVIOUS
    <3>1. Kind[r] = "confirm" /\ Direction[Paper[r]] = "IN" /\ y = Listed[Paper[r]]
      BY <2>2 DEF Shelves
    <3>2. Paper[r] \in Papers /\ Draft(Paper[r])
      BY <3>1, RequestAssumption DEF Draft
    <3>3. Paper[r] = Paper[q]
      BY <1>7, <2>3, <3>1, <3>2, LineAssumption
    <3>4. HoldsRow(r) /\ HoldsRow(q)
      BY <1>2, <1>7, <2>1, <3>1 DEF HoldsRow
    <3> QED
      BY <2>1, <3>3, <3>4 DEF StockInv, Excluding
  <2> QED
    BY <1>1, <2>2, <2>3, <2>4 DEF StockInv, StockTypeOK
<1>8. EntryAbsent'
  BY <1>7 DEF EntryAbsent
<1> QED
  BY <1>6, <1>8

\* A commit that moves a serial that is of no sale, and takes no serial in
\* transit but its paper's cargo, leaves the other papers theirs.
LEMMA SoldKept ==
  ASSUME StockInv, ShelfInv, NoAnomaly, NEW r \in Requests,
         Kind[r] \notin {"sale", "cancel"},
         NEW x \in Serials, NEW row \in SerialRows, serial' = [serial EXCEPT ![x] = row],
         serial[x].status # "sold", row.sale = serial[x].sale,
         NEW m \in Rows, NEW status \in Standing, Effect(r, m, status)
  PROVE  SoldBySale' /\ SaleHasSerial'
<1>1. /\ standing' = [standing EXCEPT ![Paper[r]] = status] /\ Paper[r] \in Papers
      /\ serial \in [Serials -> SerialRows] /\ standing \in [Papers -> Standing]
  BY RequestAssumption DEF Effect, Close, StockInv, StockTypeOK
<1>2. \A q \in Requests : Kind[q] \in {"sale", "cancel"} => Paper[q] # Paper[r]
  BY KindOfPaper
<1>3. serial[x].sale = None
  BY DEF ShelfInv, SoldBySale
<1>4. \A y \in Serials : serial'[y].sale = serial[y].sale
  BY <1>1
<1>5. SoldBySale'
  <2> SUFFICES ASSUME NEW y \in Serials, serial'[y].sale # None
      PROVE  /\ serial'[y].status = "sold" /\ serial'[y].branch = Branch[serial'[y].sale]
             /\ standing'[serial'[y].sale] = "live"
             /\ \E q \in Requests : Paper[q] = serial'[y].sale /\ Kind[q] = "sale"
             /\ \A z \in Serials : serial'[z].sale = serial'[y].sale => z = y
    BY DEF SoldBySale
  <2>1. y # x /\ serial'[y] = serial[y] /\ serial[y].sale # None
    BY <1>1, <1>3, <1>4
  <2>2. PICK q \in Requests : Paper[q] = serial[y].sale /\ Kind[q] = "sale"
    BY <2>1 DEF ShelfInv, SoldBySale
  <2>3. standing'[serial[y].sale] = standing[serial[y].sale]
    BY <1>1, <1>2, <2>2
  <2> QED
    BY <1>4, <2>1, <2>2, <2>3 DEF ShelfInv, SoldBySale
<1>6. SaleHasSerial'
  <2> SUFFICES ASSUME NEW q \in Requests, Kind[q] \in {"sale", "cancel"},
                      standing'[Paper[q]] = "live"
      PROVE  \E y \in Serials : serial'[y].sale = Paper[q]
    BY DEF SaleHasSerial
  <2>1. standing[Paper[q]] = "live"
    BY <1>1, <1>2
  <2> QED
    BY <1>4, <2>1 DEF ShelfInv, SaleHasSerial
<1> QED
  BY <1>5, <1>6

\* A commit that takes no serial of another pending transfer, and leaves none.
LEMMA CargoKept ==
  ASSUME StockInv, ShelfInv, NoAnomaly, NEW r \in Requests, NEW x \in Serials,
         NEW row \in SerialRows, serial' = [serial EXCEPT ![x] = row],
         \/ serial[x].status # "in_transit"
         \/ x = cargo[Paper[r]] /\ standing[Paper[r]] = "pending",
         NEW m \in Rows, NEW status \in Standing, Effect(r, m, status),
         status # "pending", UNCHANGED cargo
  PROVE  CargoInTransit'
<1>1. /\ standing' = [standing EXCEPT ![Paper[r]] = status] /\ Paper[r] \in Papers
      /\ serial \in [Serials -> SerialRows] /\ standing \in [Papers -> Standing]
  BY RequestAssumption DEF Effect, Close, StockInv, StockTypeOK
<1> SUFFICES ASSUME NEW p \in Papers, standing'[p] = "pending"
    PROVE  /\ cargo[p] \in Serials
           /\ serial'[cargo[p]].status = "in_transit" /\ serial'[cargo[p]].branch = Branch[p]
           /\ \A q \in Papers : standing'[q] = "pending" /\ cargo[q] = cargo[p] => q = p
  BY DEF CargoInTransit
<1>2. p # Paper[r] /\ standing[p] = "pending"
  BY <1>1
<1>3. cargo[p] # x /\ cargo[p] \in Serials
  BY <1>1, <1>2 DEF ShelfInv, CargoInTransit
<1>4. \A q \in Papers : standing'[q] = "pending" => standing[q] = "pending"
  BY <1>1
<1> QED
  BY <1>1, <1>2, <1>3, <1>4 DEF ShelfInv, CargoInTransit

-----------------------------------------------------------------------------
\* Each operation that commits keeps the shelf.

LEMMA SaleKeepsShelf ==
  ASSUME StockInv, LedgerInv, ShelfInv, NoAnomaly, NoAnomaly', NEW r \in Requests,
         SaleCommits(r)
  PROVE  SoldBySale' /\ SaleHasSerial' /\ CargoInTransit' /\ ViewsHold' /\ EntryAbsent'
         /\ ShelfMatches'
<1> DEFINE p == Paper[r]
<1>1. /\ Kind[r] = "sale" /\ at[r] = "open" /\ p \in Papers /\ Branch[p] \in Branches
      /\ Record(r, Branch[p], -1) /\ Close(r, "live") /\ UNCHANGED <<cargo, outrun>>
  BY PaperAssumption, RequestAssumption DEF SaleCommits
<1>m. PICK m \in Rows : Effect(r, m, "live")
  BY <1>1, RecordEffect DEF Standing, Change
<1>x. PICK x \in Serials, row \in SerialRows :
        /\ Shelves(r, x, Branch[p], -1, row) /\ serial[x].status = "available"
        /\ row.status = "sold" /\ row.sale = p
  BY SaleShelves
<1>2. /\ standing' = [standing EXCEPT ![p] = "live"] /\ serial' = [serial EXCEPT ![x] = row]
      /\ serial \in [Serials -> SerialRows] /\ standing \in [Papers -> Standing]
      /\ row.branch = Branch[p]
  BY <1>1, <1>x DEF Close, Shelves, StockInv, StockTypeOK
<1>3. standing[p] = "none" /\ p # None
  BY <1>1, NoneAssumption DEF StockInv, Standings
<1>4. \A y \in Serials : serial[y].sale # p
  BY <1>3 DEF ShelfInv, SoldBySale
<1>5. SoldBySale'
  <2> SUFFICES ASSUME NEW y \in Serials, serial'[y].sale # None
      PROVE  /\ serial'[y].status = "sold" /\ serial'[y].branch = Branch[serial'[y].sale]
             /\ standing'[serial'[y].sale] = "live"
             /\ \E q \in Requests : Paper[q] = serial'[y].sale /\ Kind[q] = "sale"
             /\ \A z \in Serials : serial'[z].sale = serial'[y].sale => z = y
    BY DEF SoldBySale
  <2>1. CASE y = x
    BY <1>1, <1>2, <1>4, <1>x, <2>1
  <2>2. CASE y # x
    <3>1. serial'[y] = serial[y] /\ serial[y].sale # p
      BY <1>2, <1>4, <2>2
    <3>2. /\ serial[y].status = "sold" /\ serial[y].branch = Branch[serial[y].sale]
          /\ standing[serial[y].sale] = "live"
          /\ \E q \in Requests : Paper[q] = serial[y].sale /\ Kind[q] = "sale"
          /\ \A z \in Serials : serial[z].sale = serial[y].sale => z = y
      BY <3>1 DEF ShelfInv, SoldBySale
    <3>3. standing'[serial[y].sale] = "live"
      BY <1>2, <3>1, <3>2, RequestAssumption
    <3> QED
      BY <1>2, <1>x, <3>1, <3>2, <3>3
  <2> QED
    BY <2>1, <2>2
<1>6. SaleHasSerial'
  <2> SUFFICES ASSUME NEW q \in Requests, Kind[q] \in {"sale", "cancel"},
                      standing'[Paper[q]] = "live"
      PROVE  \E y \in Serials : serial'[y].sale = Paper[q]
    BY DEF SaleHasSerial
  <2>1. CASE Paper[q] = p
    BY <1>2, <1>x, <2>1
  <2>2. CASE Paper[q] # p
    <3>1. standing[Paper[q]] = "live"
      BY <1>2, <2>2, RequestAssumption
    <3>2. PICK y \in Serials : serial[y].sale = Paper[q]
      BY <3>1 DEF ShelfInv, SaleHasSerial
    <3>3. Paper[q] # None
      BY RequestAssumption, NoneAssumption
    <3>4. serial[y].status = "sold"
      BY <3>2, <3>3 DEF ShelfInv, SoldBySale
    <3> QED
      BY <1>2, <1>x, <3>2, <3>4
  <2> QED
    BY <2>1, <2>2
<1>7. CargoInTransit'
  BY <1>1, <1>2, <1>m, <1>x, CargoKept DEF Standing
<1>8. ViewsHold' /\ EntryAbsent'
  BY <1>1, <1>m, <1>x, ViewsKept DEF Standing, Change
<1>9. ShelfMatches'
  BY <1>1, <1>x, ShelfKept DEF Change, NoAnomaly
<1> QED
  BY <1>5, <1>6, <1>7, <1>8, <1>9

LEMMA CancelKeepsShelf ==
  ASSUME StockInv, LedgerInv, ShelfInv, NoAnomaly, NoAnomaly', NEW r \in Requests,
         CancelCommits(r)
  PROVE  SoldBySale' /\ SaleHasSerial' /\ CargoInTransit' /\ ViewsHold' /\ EntryAbsent'
         /\ ShelfMatches'
<1> DEFINE p == Paper[r]
<1>1. /\ Kind[r] = "cancel" /\ at[r] = "open" /\ p \in Papers /\ Branch[p] \in Branches
      /\ Record(r, Branch[p], 1) /\ Close(r, "ended") /\ UNCHANGED cargo
  BY PaperAssumption, RequestAssumption DEF CancelCommits, CloseChecked
<1>o. UNCHANGED outrun
  BY DEF NoAnomaly
<1>m. PICK m \in Rows : Effect(r, m, "ended")
  BY <1>1, RecordEffect DEF Standing, Change
<1>x. PICK x \in Serials, row \in SerialRows :
        /\ Shelves(r, x, Branch[p], 1, row)
        /\ serial[x].sale = p /\ row.sale = None
  BY CancelShelves
<1>2. /\ standing' = [standing EXCEPT ![p] = "ended"] /\ serial' = [serial EXCEPT ![x] = row]
      /\ serial \in [Serials -> SerialRows] /\ standing \in [Papers -> Standing]
  BY <1>1, <1>x DEF Close, Shelves, StockInv, StockTypeOK
<1>3. p # None /\ serial[x].status = "sold"
      /\ \A y \in Serials : serial[y].sale = p => y = x
  BY <1>1, <1>x, NoneAssumption DEF ShelfInv, SoldBySale
<1>5. SoldBySale'
  <2> SUFFICES ASSUME NEW y \in Serials, serial'[y].sale # None
      PROVE  /\ serial'[y].status = "sold" /\ serial'[y].branch = Branch[serial'[y].sale]
             /\ standing'[serial'[y].sale] = "live"
             /\ \E q \in Requests : Paper[q] = serial'[y].sale /\ Kind[q] = "sale"
             /\ \A z \in Serials : serial'[z].sale = serial'[y].sale => z = y
    BY DEF SoldBySale
  <2>1. y # x /\ serial'[y] = serial[y] /\ serial[y].sale # p
    BY <1>2, <1>3, <1>x
  <2>2. /\ serial[y].status = "sold" /\ serial[y].branch = Branch[serial[y].sale]
        /\ standing[serial[y].sale] = "live"
        /\ \E q \in Requests : Paper[q] = serial[y].sale /\ Kind[q] = "sale"
        /\ \A z \in Serials : serial[z].sale = serial[y].sale => z = y
    BY <2>1 DEF ShelfInv, SoldBySale
  <2>3. standing'[serial[y].sale] = "live"
    BY <1>2, <2>1, <2>2, RequestAssumption
  <2> QED
    BY <1>2, <1>x, <2>1, <2>2, <2>3
<1>6. SaleHasSerial'
  <2> SUFFICES ASSUME NEW q \in Requests, Kind[q] \in {"sale", "cancel"},
                      standing'[Paper[q]] = "live"
      PROVE  \E y \in Serials : serial'[y].sale = Paper[q]
    BY DEF SaleHasSerial
  <2>1. Paper[q] # p /\ standing[Paper[q]] = "live"
    BY <1>1, <1>2, RequestAssumption
  <2>2. PICK y \in Serials : serial[y].sale = Paper[q]
    BY <2>1 DEF ShelfInv, SaleHasSerial
  <2> QED
    BY <1>2, <1>x, <2>1, <2>2
<1>7. CargoInTransit'
  BY <1>1, <1>2, <1>3, <1>m, CargoKept DEF Standing
<1>8. ViewsHold' /\ EntryAbsent'
  BY <1>1, <1>m, <1>x, ViewsKept DEF Standing, Change
<1>9. ShelfMatches'
  BY <1>1, <1>o, <1>x, ShelfKept DEF Change, NoAnomaly
<1> QED
  BY <1>5, <1>6, <1>7, <1>8, <1>9

LEMMA SendKeepsShelf ==
  ASSUME StockInv, LedgerInv, ShelfInv, NoAnomaly, NoAnomaly', NEW r \in Requests,
         SendCommits(r)
  PROVE  SoldBySale' /\ SaleHasSerial' /\ CargoInTransit' /\ ViewsHold' /\ EntryAbsent'
         /\ ShelfMatches'
<1> DEFINE p == Paper[r]
<1>1. /\ Kind[r] = "send" /\ at[r] = "open" /\ p \in Papers /\ Branch[p] \in Branches
      /\ Record(r, Branch[p], -1) /\ Close(r, "pending") /\ UNCHANGED outrun
  BY PaperAssumption, RequestAssumption DEF SendCommits
<1>m. PICK m \in Rows : Effect(r, m, "pending")
  BY <1>1, RecordEffect DEF Standing, Change
<1>x. PICK x \in Serials, row \in SerialRows :
        /\ Shelves(r, x, Branch[p], -1, row) /\ serial[x].status = "available"
        /\ row.status = "in_transit" /\ row.sale = serial[x].sale
        /\ cargo' = [cargo EXCEPT ![p] = x]
  BY SendShelves
<1>2. /\ standing' = [standing EXCEPT ![p] = "pending"] /\ serial' = [serial EXCEPT ![x] = row]
      /\ serial \in [Serials -> SerialRows] /\ standing \in [Papers -> Standing]
      /\ cargo \in [Papers -> Serials \cup {None}] /\ row.branch = Branch[p]
  BY <1>1, <1>x DEF Close, Shelves, StockInv, StockTypeOK
<1>5. SoldBySale' /\ SaleHasSerial'
  BY <1>1, <1>2, <1>m, <1>x, SoldKept DEF Standing
<1>7. CargoInTransit'
  <2>1. \A q \in Papers : standing[q] = "pending" => cargo[q] # x
    BY <1>x DEF ShelfInv, CargoInTransit
  <2>2. /\ cargo'[p] = x /\ serial'[x].status = "in_transit" /\ serial'[x].branch = Branch[p]
        /\ \A q \in Papers : q # p => cargo'[q] = cargo[q] /\ standing'[q] = standing[q]
        /\ \A y \in Serials : y # x => serial'[y] = serial[y]
    BY <1>1, <1>2, <1>x
  <2> QED
    BY <2>1, <2>2 DEF ShelfInv, CargoInTransit
<1>8. ViewsHold' /\ EntryAbsent'
  BY <1>1, <1>m, <1>x, ViewsKept DEF Standing, Change
<1>9. ShelfMatches'
  BY <1>1, <1>x, ShelfKept DEF Change, NoAnomaly
<1> QED
  BY <1>5, <1>7, <1>8, <1>9

LEMMA TransferKeepsShelf ==
  ASSUME StockInv, LedgerInv, ShelfInv, NoAnomaly, NoAnomaly', NEW r \in Requests,
         ReceiveCommits(r) \/ WithdrawCommits(r)
  PROVE  SoldBySale' /\ SaleHasSerial' /\ CargoInTransit' /\ ViewsHold' /\ EntryAbsent'
         /\ ShelfMatches'
<1> DEFINE p == Paper[r]
<1>1. /\ Kind[r] \in {"receive", "withdraw"} /\ at[r] = "open" /\ p \in Papers
      /\ UNCHANGED cargo
  BY RequestAssumption DEF ReceiveCommits, WithdrawCommits
<1>b. PICK b \in Branches, status \in {"live", "ended"} :
        Unload(p, b) /\ Record(r, b, 1) /\ CloseChecked(r, "pending", status)
  BY <1>1, PaperAssumption DEF ReceiveCommits, WithdrawCommits
<1>o. UNCHANGED outrun
  BY DEF NoAnomaly
<1>2. standing[p] = "pending"
  <2>1. outrun' = IF standing[p] = "pending" THEN outrun ELSE outrun \cup {r}
    BY <1>b DEF CloseChecked
  <2> QED
    BY <2>1 DEF NoAnomaly
<1>m. PICK m \in Rows : Effect(r, m, status)
  BY <1>1, <1>b, RecordEffect DEF Standing, Change, CloseChecked
<1>x. PICK x \in Serials, row \in SerialRows :
        /\ Shelves(r, x, b, 1, row) /\ x = cargo[p] /\ serial[x].status = "in_transit"
        /\ row.sale = serial[x].sale
  BY <1>b, <1>2, UnloadShelves
<1>3. serial' = [serial EXCEPT ![x] = row]
  BY <1>x DEF Shelves
<1>5. SoldBySale' /\ SaleHasSerial'
  BY <1>1, <1>3, <1>m, <1>x, SoldKept DEF Standing
<1>7. CargoInTransit'
  BY <1>1, <1>2, <1>3, <1>m, <1>x, CargoKept DEF Standing
<1>8. ViewsHold' /\ EntryAbsent'
  BY <1>m, <1>x, ViewsKept DEF Standing, Change
<1>9. ShelfMatches'
  BY <1>1, <1>o, <1>x, ShelfKept DEF Change, NoAnomaly
<1> QED
  BY <1>5, <1>7, <1>8, <1>9

LEMMA DocumentKeepsShelf ==
  ASSUME StockInv, LedgerInv, ShelfInv, NoAnomaly, NoAnomaly', NEW r \in Requests,
         DocumentCommits(r)
  PROVE  SoldBySale' /\ SaleHasSerial' /\ CargoInTransit' /\ ViewsHold' /\ EntryAbsent'
         /\ ShelfMatches'
<1> DEFINE p == Paper[r]
<1>1. /\ Kind[r] \in {"confirm", "void"} /\ at[r] = "open" /\ p \in Papers
      /\ Branch[p] \in Branches /\ UNCHANGED <<cargo, outrun>>
  BY PaperAssumption, RequestAssumption DEF DocumentCommits
<1>s. PICK status \in {"live", "ended"} :
        Close(r, status) /\ (Kind[r] = "void" => status = "ended")
  BY <1>1 DEF DocumentCommits
<1>x. PICK x \in Serials, row \in SerialRows, d \in Change :
        /\ Shelves(r, x, Branch[p], d, row)
        /\ serial[x].status \in {"absent", "available", "removed"}
        /\ row.sale = serial[x].sale
  BY DocumentShelves
<1>m. PICK m \in Rows : Effect(r, m, status)
  BY <1>1, <1>s, <1>x, RecordEffect DEF Standing, Shelves
<1>3. serial' = [serial EXCEPT ![x] = row]
  BY <1>x DEF Shelves
<1>5. SoldBySale' /\ SaleHasSerial'
  BY <1>1, <1>3, <1>m, <1>x, SoldKept DEF Standing
<1>7. CargoInTransit'
  BY <1>1, <1>3, <1>m, <1>x, CargoKept DEF Standing
<1>8. ViewsHold' /\ EntryAbsent'
  BY <1>1, <1>m, <1>x, ViewsKept DEF Standing
<1>9. ShelfMatches'
  BY <1>1, <1>x, ShelfKept DEF NoAnomaly
<1> QED
  BY <1>5, <1>7, <1>8, <1>9

\* ShelfInv is inductive, given the locks and the ledger.
LEMMA ShelfInductive ==
  StockInv /\ LedgerInv /\ ShelfInv /\ [StockNext]_stockVars => ShelfInv'
<1> SUFFICES ASSUME StockInv, LedgerInv, ShelfInv, [StockNext]_stockVars PROVE ShelfInv'
  OBVIOUS
<1>1. CASE UNCHANGED stockVars
  BY <1>1 DEF stockVars, tables, local, ghosts, ShelfInv, NoAnomaly, LinesStay, SoldBySale,
              SaleHasSerial, CargoInTransit, ViewsHold, UpToDate, EntryAbsent, ShelfMatches,
              Available
<1>2. ASSUME NEW r \in Requests, Quiet(r) PROVE ShelfInv'
  <2>1. UNCHANGED <<stock, serial, standing, cargo, kardex, missed, outrun>>
    BY <1>2, QuietTables DEF tables, ghosts
  <2>2. ASSUME NEW q \in Requests, at'[q] \in {"held", "open"}
        PROVE  \/ at[q] \in {"held", "open"} /\ view'[q] = view[q]
               \/ view'[q].serial = serial
    BY <1>2, <2>2
    DEF StockInv, StockTypeOK, Phases, Go, Snapshot, Forget, Quiet, SaleArrives, SaleReserves,
        SaleInserts, Checks, Opens, Locks, ConfirmReserves, RollsBack
  <2>3. NoAnomaly => ViewsHold'
    BY <2>1, <2>2 DEF ShelfInv, ViewsHold, UpToDate
  <2>4. NoAnomaly => EntryAbsent'
    BY <2>1, <2>2 DEF ShelfInv, EntryAbsent
  <2>5. NoAnomaly' = NoAnomaly /\ LinesStay'
    BY <2>1 DEF NoAnomaly, ShelfInv, LinesStay
  <2>6. NoAnomaly => SoldBySale' /\ SaleHasSerial' /\ CargoInTransit' /\ ShelfMatches'
    BY <2>1 DEF ShelfInv, SoldBySale, SaleHasSerial, CargoInTransit, ShelfMatches, Available
  <2> QED
    BY <2>3, <2>4, <2>5, <2>6 DEF ShelfInv
<1>3. ASSUME NEW r \in Requests, Commits(r) PROVE ShelfInv'
  <2>1. LinesStay'
    <3>1. \A p \in Papers : Draft(p) => cargo'[p] = cargo[p]
      <4>1. ASSUME SendCommits(r) PROVE \A p \in Papers : Draft(p) => p # Paper[r]
        BY <4>1, KindOfPaper DEF SendCommits, Draft
      <4> QED
        BY <1>3, <4>1 DEF Commits, SaleCommits, CancelCommits, SendCommits, ReceiveCommits,
                          WithdrawCommits, DocumentCommits, StockInv, StockTypeOK
    <3> QED
      BY <3>1 DEF ShelfInv, LinesStay
  <2>2. NoAnomaly' => NoAnomaly
    <3>1. \E b \in Branches, d \in Change : Record(r, b, d)
      BY <1>3, PaperAssumption, RequestAssumption
      DEF Commits, Change, SaleCommits, CancelCommits, SendCommits, ReceiveCommits,
          WithdrawCommits, DocumentCommits
    <3>2. outrun \subseteq outrun'
      BY <1>3 DEF Commits, CloseChecked, SaleCommits, CancelCommits, SendCommits,
                  ReceiveCommits, WithdrawCommits, DocumentCommits
    <3> QED
      BY <3>1, <3>2 DEF NoAnomaly, Record
  <2>3. ASSUME NoAnomaly, NoAnomaly'
        PROVE  SoldBySale' /\ SaleHasSerial' /\ CargoInTransit' /\ ViewsHold' /\ EntryAbsent'
               /\ ShelfMatches'
    BY <1>3, <2>3, SaleKeepsShelf, CancelKeepsShelf, SendKeepsShelf, TransferKeepsShelf,
       DocumentKeepsShelf DEF Commits
  <2> QED
    BY <2>1, <2>2, <2>3 DEF ShelfInv
<1> QED
  BY <1>1, <1>2, <1>3 DEF StockNext, Quiet, Commits

\* At the start every serial of a branch is on its shelf, and nothing is sold.
LEMMA ShelfInitially == StockInit => ShelfInv
<1> SUFFICES ASSUME StockInit PROVE ShelfInv
  OBVIOUS
<1>1. /\ \A x \in Serials : serial[x].sale = None /\ serial[x].branch = Shelf[x]
      /\ \A x \in Serials : Shelf[x] # None => serial[x].status = "available"
      /\ \A r \in Requests : at[r] \notin {"held", "open"}
      /\ \A p \in Papers : standing[p] \in {"none", "draft"}
      /\ \A b \in Branches : stock[b] = Cardinality({x \in Serials : Shelf[x] = b})
      /\ cargo = Listed
  BY DEF StockInit
<1>2. ASSUME NEW b \in Branches PROVE Available(serial, b) = {x \in Serials : Shelf[x] = b}
  BY <1>1, NoneAssumption DEF Available
<1>3. ShelfMatches
  BY <1>1, <1>2 DEF ShelfMatches
<1>4. SoldBySale /\ SaleHasSerial /\ CargoInTransit /\ ViewsHold /\ EntryAbsent /\ LinesStay
  BY <1>1, RequestAssumption
  DEF SoldBySale, SaleHasSerial, CargoInTransit, ViewsHold, EntryAbsent, LinesStay
<1> QED
  BY <1>3, <1>4 DEF ShelfInv

\* While no transaction wrote a quantity over a movement it had not seen, or
\* committed on a status no longer true, the quantity of a branch is its serials
\* available, for any mix of sales, cancellations, documents and transfers: the
\* checks against the snapshot are then checks against the rows.
THEOREM SerialsFollowStock == StockSpec => []SerialsMatchStock
<1>1. StockInit => LedgerInv
  BY LedgerInitially
<1>2. ShelfInv => SerialsMatchStock
  BY DEF ShelfInv, ShelfMatches, SerialsMatchStock
<1> QED
  BY <1>1, <1>2, ShelfInitially, LedgerInductive, ShelfInductive, StockInvariant, PTL
  DEF StockSpec
=============================================================================
