--------------------------- MODULE QueueHoldProofs ---------------------------
(* What outlives a process: the rules of the hold for any set of entries and  *)
(* of callers, through any sequence of holds, releases, crashes and restarts; *)
(* and the files of the state store, for any openers and schema versions.     *)
EXTENDS QueueHold, StateFiles, FiniteSetTheorems, TLAPS

\* What a person asked for is never an agent's: the row says whose the hold is.
PersonOwns == person => ~IsAgent(ReadHold(row).caller)

HoldInv ==
  /\ HoldTypeOK
  /\ MemoryIsRow
  /\ DirectOutlivesUnpark
  /\ PersonOwns
  /\ direct \/ person => ReadHold(row).held
  /\ row.text = "damaged" => row = DamagedRow

\* A hold that is made, or made again, reads back from its row as it was made.
LEMMA HoldReadsBack ==
  ASSUME NEW h, NEW by, NEW caller, AfterHold(h, by, caller) # h
  PROVE  ReadHold(SavedRow(AfterHold(h, by, caller))) = AfterHold(h, by, caller)
<1>1. ASSUME NEW b, NEW c PROVE ReadHold(SavedRow(NewHold(b, c))) = NewHold(b, c)
  BY DEF ReadHold, SavedRow, NewHold
<1> QED BY <1>1 DEF AfterHold

\* hold() on any hold: whose it is, and which park's, afterwards.
LEMMA AfterHoldOwner ==
  ASSUME NEW h \in Holds(Entries, Callers), NEW by \in Entries \cup {NoEntry},
         NEW caller \in Callers
  PROVE  /\ AfterHold(h, by, caller) \in Holds(Entries, Callers)
         /\ AfterHold(h, by, caller).held = TRUE
         /\ by = NoEntry /\ ~Damaged(h) => AfterHold(h, by, caller).by = NoEntry
         /\ h.held /\ h.by = NoEntry => AfterHold(h, by, caller).by = NoEntry
         /\ ~IsAgent(caller) /\ ~Damaged(h) => ~IsAgent(AfterHold(h, by, caller).caller)
         /\ h.held /\ ~IsAgent(h.caller) => ~IsAgent(AfterHold(h, by, caller).caller)
<1> USE DEF AfterHold, NewHold, AgainBy, AgainCaller, Damaged, IsAgent, Holds
<1>1. CASE ~h.held BY <1>1
<1>2. CASE h.held /\ ~h.since BY <1>2
<1>3. CASE h.held /\ h.since BY <1>3
<1> QED BY <1>1, <1>2, <1>3

\* The invariant is inductive.
LEMMA HoldInvNext ==
  ASSUME HoldInv, [HoldNext]_holdVars
  PROVE  HoldInv'
<1> SUFFICES ASSUME HoldNext PROVE HoldInv'
  BY DEF HoldInv, HoldTypeOK, MemoryIsRow, DirectOutlivesUnpark, PersonOwns, holdVars
<1>1. ASSUME NEW by \in Entries \cup {NoEntry}, NEW caller \in Callers, Hold(by, caller)
      PROVE  HoldInv'
  <2> DEFINE h == AfterHold(mem, by, caller)
  <2>1. mem \in Holds(Entries, Callers) /\ mem = ReadHold(row)
    BY <1>1 DEF HoldInv, HoldTypeOK, MemoryIsRow, Hold
  <2>2. /\ h \in Holds(Entries, Callers)
        /\ h.held = TRUE
        /\ by = NoEntry /\ ~Damaged(mem) => h.by = NoEntry
        /\ mem.held /\ mem.by = NoEntry => h.by = NoEntry
        /\ ~IsAgent(caller) /\ ~Damaged(mem) => ~IsAgent(h.caller)
        /\ mem.held /\ ~IsAgent(mem.caller) => ~IsAgent(h.caller)
    BY <2>1, AfterHoldOwner
  <2>3. row' = IF h = mem THEN row ELSE SavedRow(h)
    BY <1>1 DEF Hold
  <2>4. ReadHold(row') = h
    BY <2>1, <2>3, HoldReadsBack
  <2>5. Damaged(mem) => h = mem /\ h.by = NoEntry /\ ~IsAgent(h.caller)
    BY <2>1 DEF Damaged, AfterHold, ReadHold, IsAgent, Agent, NoCaller
  <2>6. MemoryIsRow' /\ mem' \in Holds(Entries, Callers)
    BY <1>1, <2>2, <2>4
       DEF Hold, Remember, MemoryIsRow, NotHeld, Holds
  <2>7. DirectOutlivesUnpark'
    <3>1. CASE by = NoEntry BY <3>1, <2>2, <2>4, <2>5 DEF DirectOutlivesUnpark
    <3>2. CASE direct
      <4>1. mem.held /\ mem.by = NoEntry
        BY <3>2, <2>1 DEF HoldInv, DirectOutlivesUnpark
      <4> QED BY <4>1, <2>2, <2>4 DEF DirectOutlivesUnpark
    <3> QED BY <3>1, <3>2, <1>1 DEF Hold, DirectOutlivesUnpark
  <2>8. PersonOwns'
    <3>1. CASE ~IsAgent(caller) BY <3>1, <2>2, <2>4, <2>5 DEF PersonOwns
    <3>2. CASE person /\ IsAgent(caller)
      <4>1. mem.held /\ ~IsAgent(mem.caller) BY <3>2, <2>1 DEF HoldInv, PersonOwns
      <4> QED BY <4>1, <2>2, <2>4 DEF PersonOwns
    <3> QED BY <3>1, <3>2, <1>1 DEF Hold, PersonOwns
  <2>9. HoldTypeOK' /\ (row'.text = "damaged" => row' = DamagedRow)
    BY <1>1, <2>2, <2>3, <2>6
       DEF HoldInv, HoldTypeOK, Hold, Remember, Rows, SavedRow, Holds
  <2>10. ReadHold(row').held
    BY <2>2, <2>4
  <2> QED BY <2>6, <2>7, <2>8, <2>9, <2>10 DEF HoldInv
<1>2. ASSUME NEW by \in Entries \cup {NoEntry}, NEW caller \in Callers,
             Release(by, caller)
      PROVE  HoldInv'
  <2>1. ReadHold(NoRow) = NotHeld
    BY DEF ReadHold, NoRow, NotHeld
  <2>2. NotHeld \in Holds(Entries, Callers) /\ NoRow \in Rows(Entries, Callers)
    BY DEF NotHeld, NoRow, Holds, Rows
  <2> QED
    BY <1>2, <2>1, <2>2
       DEF Release, Remember, HoldInv, HoldTypeOK, MemoryIsRow, DirectOutlivesUnpark,
           PersonOwns, NotHeld, NoRow
<1>3. ASSUME Restart PROVE HoldInv'
  <2>1. ReadHold(row) \in Holds(Entries, Callers)
    BY DEF HoldInv, HoldTypeOK, ReadHold, Rows, Holds
  <2>2. NotHeld \in Holds(Entries, Callers)
    BY DEF NotHeld, Holds
  <2> QED
    BY <1>3, <2>1, <2>2
       DEF Restart, HoldInv, HoldTypeOK, MemoryIsRow, DirectOutlivesUnpark, PersonOwns
<1> QED BY <1>1, <1>2, <1>3 DEF HoldNext

\* And holds in every reachable state.
LEMMA HoldInvariance == HoldSpec => []HoldInv
<1>1. HoldInit => HoldInv
  <2>1. NotHeld \in Holds(Entries, Callers)
    BY DEF NotHeld, Holds
  <2>2. NoRow \in Rows(Entries, Callers) /\ DamagedRow \in Rows(Entries, Callers)
    BY DEF NoRow, DamagedRow, Rows
  <2>3. NoRow.text # "damaged"
    BY DEF NoRow
  <2> QED
    BY <2>1, <2>2, <2>3
       DEF HoldInit, HoldInv, HoldTypeOK, MemoryIsRow, DirectOutlivesUnpark, PersonOwns
<1>2. HoldInv /\ [HoldNext]_holdVars => HoldInv'
  BY HoldInvNext
<1> QED BY <1>1, <1>2, PTL DEF HoldSpec

\* QueueHold's memory and its settings row never disagree while the server is up,
\* so a restart neither makes, ends nor changes a hold.
THEOREM MemoryIsRowThm == HoldSpec => []MemoryIsRow
<1>1. HoldInv => MemoryIsRow BY DEF HoldInv
<1> QED BY <1>1, HoldInvariance, PTL

\* _held_again: once somebody holds the queue directly, no unpark releases it.
THEOREM DirectOutlivesUnparkThm == HoldSpec => []DirectOutlivesUnpark
<1>1. HoldInv => DirectOutlivesUnpark BY DEF HoldInv
<1> QED BY <1>1, HoldInvariance, PTL

\* _held_again and _release: an agent never frees a queue a person asked to hold.
THEOREM PersonsHoldStaysThm == HoldSpec => PersonsHoldStays
<1>1. HoldInv /\ [HoldNext]_holdVars =>
        [person /\ ReadHold(row).held /\ ~ReadHold(row').held =>
           ~IsAgent(lastBy')]_holdVars
  <2> SUFFICES ASSUME HoldInv, HoldNext, person, ReadHold(row).held, ~ReadHold(row').held
               PROVE  ~IsAgent(lastBy')
    OBVIOUS
  <2>1. ASSUME NEW by \in Entries \cup {NoEntry}, NEW caller \in Callers,
               Hold(by, caller)
        PROVE  FALSE
    <3>1. mem \in Holds(Entries, Callers) /\ mem = ReadHold(row)
      BY <2>1 DEF HoldInv, HoldTypeOK, MemoryIsRow, Hold
    <3>2. AfterHold(mem, by, caller).held = TRUE
      BY <3>1, AfterHoldOwner
    <3>3. ReadHold(row') = AfterHold(mem, by, caller)
      BY <2>1, <3>1, HoldReadsBack DEF Hold
    <3> QED BY <3>2, <3>3
  <2>2. ASSUME NEW by \in Entries \cup {NoEntry}, NEW caller \in Callers,
               Release(by, caller)
        PROVE  ~IsAgent(lastBy')
    BY <2>2 DEF Release, ReleaseRefused, HoldInv, MemoryIsRow, PersonOwns
  <2>3. ASSUME Restart PROVE FALSE
    BY <2>3 DEF Restart
  <2> QED BY <2>1, <2>2, <2>3 DEF HoldNext
<1> QED BY <1>1, HoldInvariance, PTL DEF HoldSpec, PersonsHoldStays

\* The two together: a hold and its owner survive a restart.
THEOREM HoldKeptThm == HoldSpec => []HoldKept
<1>1. MemoryIsRow /\ DirectOutlivesUnpark => HoldKept
  BY DEF HoldKept
<1> QED BY <1>1, MemoryIsRowThm, DirectOutlivesUnparkThm, PTL

----------------------------------------------------------------------------
(* The state store's files.                                                  *)

\* Where a process that opens the store can be, and where it holds the lock of a migration.
StepsOf == {"away", "check", "recheck", "backup", "copy", "verified", "lock", "create", "upgrade", "open"}
Moving == {"recheck", "backup", "copy", "verified"}
Names == Legacy \cup {Current}
Live == taken \ removed

Row == [id : Nat, start : Nat, number : Nat]
AppliedTo(n) == [v \in 1 .. n |-> 1]
Database == [exists : BOOLEAN, version : Nat, rows : SUBSET Row, counter : Nat, given : SUBSET Nat, applied : {AppliedTo(n) : n \in Nat}]

Ids(rows) == {r.id : r \in rows}

\* A database is in order: its rows are committed ones, each once, and once it numbers them no number is given twice.
DbOK(db, ids) ==
  /\ db \in Database
  /\ db.applied = AppliedTo(db.version)
  /\ IsFiniteSet(db.rows) /\ Ids(db.rows) \subseteq ids
  /\ \A q, r \in db.rows : q.id = r.id => q = r
  /\ db.version >= Numbered =>
       /\ \A q, r \in db.rows : q.number = r.number => q = r
       /\ \A r \in db.rows : r.number \in db.given
  /\ ~db.exists => db.rows = {} /\ db.version = 0

\* Its counter is past every number it gave.
Counted(db) == db.version >= Numbered => \A n \in db.given : n <= db.counter

Rank(r, rows) == {q \in rows : q.start < r.start \/ (q.start = r.start /\ q.id <= r.id)}

LEMMA RankIsNumber ==
  ASSUME NEW rows \in SUBSET Row, IsFiniteSet(rows), \A q, r \in rows : q.id = r.id => q = r
  PROVE  /\ \A r \in rows : Cardinality(Rank(r, rows)) \in Nat /\ Cardinality(Rank(r, rows)) <= Cardinality(rows)
         /\ \A q, r \in rows : Cardinality(Rank(q, rows)) = Cardinality(Rank(r, rows)) => q = r
<1>1. \A r \in rows : IsFiniteSet(Rank(r, rows)) /\ Cardinality(Rank(r, rows)) \in Nat /\ Cardinality(Rank(r, rows)) <= Cardinality(rows)
  <2>1. \A r \in rows : Rank(r, rows) \subseteq rows
    BY DEF Rank
  <2>2. QED
    BY <2>1, FS_Subset, FS_CardinalityType
<1>2. ASSUME NEW q \in rows, NEW r \in rows, q # r, q.start < r.start \/ (q.start = r.start /\ q.id <= r.id)
      PROVE  Cardinality(Rank(q, rows)) # Cardinality(Rank(r, rows))
  <2>1. /\ q.start \in Nat /\ r.start \in Nat /\ q.id \in Nat /\ r.id \in Nat /\ q.id # r.id
        /\ \A p \in rows : p.start \in Nat /\ p.id \in Nat
    BY <1>2 DEF Row
  <2>2. Rank(q, rows) \subseteq Rank(r, rows)
    BY <1>2, <2>1 DEF Rank
  <2>3. r \in Rank(r, rows) /\ r \notin Rank(q, rows)
    BY <1>2, <2>1 DEF Rank
  <2>4. QED
    BY <1>1, <2>2, <2>3, FS_Subset
<1>3. ASSUME NEW q \in rows, NEW r \in rows, Cardinality(Rank(q, rows)) = Cardinality(Rank(r, rows))
      PROVE  q = r
  <2>1. q.start \in Nat /\ r.start \in Nat /\ q.id \in Nat /\ r.id \in Nat
    BY DEF Row
  <2>2. \/ q.start < r.start \/ (q.start = r.start /\ q.id <= r.id)
        \/ r.start < q.start \/ (r.start = q.start /\ r.id <= q.id)
    BY <2>1
  <2>3. QED
    BY <2>2, <1>2, <1>3
<1>4. QED
  BY <1>1, <1>3

LEMMA NumberedRows ==
  ASSUME NEW rows \in SUBSET Row, IsFiniteSet(rows), \A q, r \in rows : q.id = r.id => q = r
  PROVE  /\ Number(rows) \in SUBSET Row /\ IsFiniteSet(Number(rows)) /\ Ids(Number(rows)) = Ids(rows)
         /\ \A q, r \in Number(rows) : (q.id = r.id \/ q.number = r.number) => q = r
         /\ \A r \in Number(rows) : r.number <= Cardinality(Number(rows))
         /\ Cardinality(Number(rows)) \in Nat
<1> DEFINE F(r) == [r EXCEPT !.number = Cardinality(Rank(r, rows))]
<1>1. Number(rows) = {F(r) : r \in rows}
  BY DEF Number, Rank
<1>2. \A r \in rows : F(r) \in Row /\ F(r).id = r.id /\ F(r).number = Cardinality(Rank(r, rows)) /\ F(r).start = r.start
  BY RankIsNumber DEF Row
<1> HIDE DEF F
<1>3. Ids(Number(rows)) = Ids(rows) /\ Number(rows) \in SUBSET Row
  BY <1>1, <1>2 DEF Ids
<1>4. \A q, r \in Number(rows) : (q.id = r.id \/ q.number = r.number) => q = r
  BY <1>1, <1>2, RankIsNumber
<1>5. IsFiniteSet(Number(rows)) /\ Cardinality(Number(rows)) = Cardinality(rows)
  <2> DEFINE G == [r \in rows |-> F(r)]
  <2>1. G \in Bijection(rows, Number(rows))
    <3>1. G \in [rows -> Number(rows)]
      BY <1>1
    <3>2. \A q, r \in rows : G[q] = G[r] => q = r
      <4>1. \A r \in rows : G[r].id = r.id
        BY <1>2
      <4>2. QED
        BY <4>1
    <3>3. \A n \in Number(rows) : \E r \in rows : G[r] = n
      BY <1>1
    <3>4. QED
      BY <3>1, <3>2, <3>3 DEF Bijection, Injection, Surjection, IsInjective
  <2>2. QED
    BY <2>1, FS_Bijection DEF ExistsBijection
<1>6. QED
  <2>1. Cardinality(rows) \in Nat
    BY FS_CardinalityType
  <2>2. \A r \in Number(rows) : r.number <= Cardinality(rows)
    BY <1>1, <1>2, RankIsNumber
  <2>3. QED
    BY <1>3, <1>4, <1>5, <2>1, <2>2


LEMMA EmptyDatabases ==
  ASSUME NEW ids
  PROVE  /\ DbOK(NoDatabase, ids) /\ ~NoDatabase.exists /\ NoDatabase.rows = {}
         /\ \A v \in Nat : DbOK(EmptyFile(v), ids) /\ EmptyFile(v).exists /\ EmptyFile(v).rows = {}
         /\ Counted(NoDatabase) /\ \A v \in Nat : Counted(EmptyFile(v))
<1>1. IsFiniteSet({}) /\ 0 \in Nat
  BY FS_EmptySet
<1>2. ASSUME NEW e \in BOOLEAN, NEW v \in Nat, ~e => v = 0
      PROVE  DbOK([exists |-> e, version |-> v, rows |-> {}, counter |-> 0, given |-> {}, applied |-> AppliedTo(v)], ids)
  BY <1>1, <1>2 DEF DbOK, Database, Ids
<1>3. NoDatabase = [exists |-> FALSE, version |-> 0, rows |-> {}, counter |-> 0, given |-> {}, applied |-> AppliedTo(0)]
  BY DEF NoDatabase, AppliedTo
<1>4. \A v \in Nat : EmptyFile(v) = [exists |-> TRUE, version |-> v, rows |-> {}, counter |-> 0, given |-> {}, applied |-> AppliedTo(v)]
  BY DEF EmptyFile, AppliedTo
<1>5. DbOK(NoDatabase, ids) /\ \A v \in Nat : DbOK(EmptyFile(v), ids)
  BY <1>1, <1>2, <1>3, <1>4
<1>6. Counted(NoDatabase) /\ \A v \in Nat : Counted(EmptyFile(v))
  BY DEF Counted, NoDatabase, EmptyFile
<1>7. QED
  BY <1>5, <1>6 DEF NoDatabase, EmptyFile

LEMMA OfMoreIds ==
  ASSUME NEW db, NEW ids, NEW more, ids \subseteq more, DbOK(db, ids)
  PROVE  DbOK(db, more)
BY DEF DbOK

RowPut(db, id, start, n, counter, given) ==
  [db EXCEPT !.counter = counter, !.given = given, !.rows = @ \cup {[id |-> id, start |-> start, number |-> n]}]

\* A database with one exec more.
Grown(new, db, ids, id) == DbOK(new, ids \cup {id}) /\ new.exists /\ Ids(new.rows) = Ids(db.rows) \cup {id}

LEMMA RowAdded ==
  ASSUME NEW db, NEW ids, DbOK(db, ids), db.exists, NEW id \in Nat, id \notin ids, NEW start \in Nat, NEW n \in Nat,
         NEW counter \in Nat, NEW given \in SUBSET Nat,
         db.version >= Numbered => Unused(db, n) /\ given = db.given \cup {n}
  PROVE  /\ Grown(RowPut(db, id, start, n, counter, given), db, ids, id)
         /\ RowPut(db, id, start, n, counter, given).version = db.version
         /\ RowPut(db, id, start, n, counter, given).counter = counter
         /\ RowPut(db, id, start, n, counter, given).given = given
         /\ RowPut(db, id, start, n, counter, given).rows = db.rows \cup {[id |-> id, start |-> start, number |-> n]}
<1> DEFINE exec == [id |-> id, start |-> start, number |-> n]
           new == [db EXCEPT !.counter = counter, !.given = given, !.rows = @ \cup {exec}]
<1>2. /\ exec.id = id /\ exec.number = n /\ exec \in Row
  BY DEF Row
<1> HIDE DEF exec
<1>1. /\ new \in Database /\ new.exists /\ new.version = db.version /\ new.applied = db.applied /\ new.counter = counter
      /\ new.given = given /\ new.rows = db.rows \cup {exec} /\ exec \in Row
  <2>1. db \in Database
    BY DEF DbOK
  <2>2. db.rows \cup {exec} \in SUBSET Row
    BY <1>2, <2>1 DEF Database
  <2>3. QED
    BY <1>2, <2>1, <2>2 DEF Database
<1> HIDE DEF new
<1>3. IsFiniteSet(new.rows)
  BY <1>1, FS_AddElement DEF DbOK
<1>4. \A r \in db.rows : r.id \in ids /\ r.id # id
  BY DEF DbOK, Ids
<1>5. \A q, r \in new.rows : q.id = r.id => q = r
  BY <1>1, <1>2, <1>4 DEF DbOK
<1>6. Ids(new.rows) = Ids(db.rows) \cup {id}
  BY <1>1, <1>2 DEF Ids
<1>7. ASSUME new.version >= Numbered
      PROVE  /\ \A q, r \in new.rows : q.number = r.number => q = r
             /\ \A r \in new.rows : r.number \in new.given
  <2>1. given = db.given \cup {n} /\ \A r \in db.rows : r.number # n /\ r.number \in db.given
    BY <1>1, <1>7 DEF DbOK, Unused
  <2>2. \A q, r \in db.rows : q.number = r.number => q = r
    BY <1>1, <1>7 DEF DbOK
  <2>3. \A q, r \in new.rows : q.number = r.number => q = r
    BY <1>1, <1>2, <2>1, <2>2
  <2>4. QED
    BY <1>1, <1>2, <2>1, <2>3
<1>8. DbOK(new, ids \cup {id})
  BY <1>1, <1>3, <1>5, <1>6, <1>7 DEF DbOK
<1>9. RowPut(db, id, start, n, counter, given) = new
  BY DEF RowPut, new, exec
<1>10. QED
  BY <1>1, <1>6, <1>8, <1>9 DEF Grown, exec

LEMMA RowRemoved ==
  ASSUME NEW db, NEW ids, DbOK(db, ids), db.exists, NEW exec \in db.rows
  PROVE  LET new == [db EXCEPT !.rows = @ \ {exec}]
         IN  /\ DbOK(new, ids) /\ new.exists /\ Ids(new.rows) = Ids(db.rows) \ {exec.id}
             /\ new.version = db.version /\ new.counter = db.counter /\ new.given = db.given /\ new.rows \subseteq db.rows
<1> DEFINE new == [db EXCEPT !.rows = @ \ {exec}]
<1>1. /\ new \in Database /\ new.exists /\ new.version = db.version /\ new.applied = db.applied /\ new.counter = db.counter
      /\ new.given = db.given /\ new.rows = db.rows \ {exec}
  BY DEF DbOK, Database
<1> HIDE DEF new
<1>2. IsFiniteSet(new.rows)
  BY <1>1, FS_Subset DEF DbOK
<1>3. Ids(new.rows) = Ids(db.rows) \ {exec.id}
  BY <1>1 DEF DbOK, Ids
<1>4. DbOK(new, ids)
  BY <1>1, <1>2, <1>3 DEF DbOK
<1>5. QED
  BY <1>1, <1>3, <1>4 DEF new

LEMMA DatabaseUpgraded ==
  ASSUME NEW db, NEW ids, DbOK(db, ids), db.exists, NEW known \in Nat, known >= Numbered, ~(db.version > known)
  PROVE  LET new == Upgraded(db, db.version, known)
         IN  /\ DbOK(new, ids) /\ new.exists /\ Ids(new.rows) = Ids(db.rows) /\ new.version = known
             /\ Counted(db) => Counted(new)
             /\ db.version >= Numbered => new.rows = db.rows /\ new.given = db.given
<1> DEFINE numbered == Number(db.rows)
           old == db.version < Numbered
           rows == IF old THEN numbered ELSE db.rows
           counter == IF old THEN Cardinality(numbered) ELSE db.counter
           given == IF old THEN {r.number : r \in numbered} ELSE db.given
           new == Upgraded(db, db.version, known)
<1>1. /\ db \in Database /\ db.rows \in SUBSET Row /\ IsFiniteSet(db.rows) /\ db.version \in Nat /\ db.version <= known
      /\ \A q, r \in db.rows : q.id = r.id => q = r
  BY DEF DbOK, Database
<1>2. /\ numbered \in SUBSET Row /\ IsFiniteSet(numbered) /\ Ids(numbered) = Ids(db.rows)
      /\ \A q, r \in numbered : (q.id = r.id \/ q.number = r.number) => q = r
      /\ \A r \in numbered : r.number <= Cardinality(numbered)
      /\ Cardinality(numbered) \in Nat
  BY <1>1, NumberedRows
<1>3. [v \in 1 .. known |-> (IF v \in DOMAIN db.applied THEN db.applied[v] ELSE 0) + (IF v > db.version THEN 1 ELSE 0)] = AppliedTo(known)
  BY <1>1 DEF DbOK, AppliedTo
<1>4. /\ new = [db EXCEPT !.version = known, !.rows = rows, !.counter = counter, !.given = given, !.applied = AppliedTo(known)]
  BY <1>3 DEF Upgraded
<1> HIDE DEF numbered, new
<1>5. rows \in SUBSET Row /\ counter \in Nat /\ given \in SUBSET Nat
  BY <1>1, <1>2 DEF Database, Row
<1>6. /\ new \in Database /\ new.exists /\ new.version = known /\ new.rows = rows /\ new.counter = counter /\ new.given = given
      /\ new.applied = AppliedTo(known)
  BY <1>1, <1>4, <1>5 DEF Database
<1>7. /\ IsFiniteSet(rows) /\ Ids(rows) = Ids(db.rows) /\ \A q, r \in rows : q.id = r.id => q = r
  BY <1>1, <1>2
<1>8. /\ \A q, r \in rows : q.number = r.number => q = r
      /\ \A r \in rows : r.number \in given
      /\ Counted(db) => \A n \in given : n <= counter
      /\ db.version >= Numbered => rows = db.rows /\ given = db.given
  <2>1. CASE old
    BY <2>1, <1>1, <1>2 DEF Numbered
  <2>2. CASE ~old
    BY <2>2, <1>1 DEF DbOK, Counted, Numbered
  <2>3. QED
    BY <2>1, <2>2
<1> HIDE DEF rows, counter, given
<1>9. DbOK(new, ids)
  BY <1>6, <1>7, <1>8 DEF DbOK
<1>10. Counted(db) => Counted(new)
  BY <1>6, <1>8 DEF Counted
<1>11. QED
  BY <1>6, <1>7, <1>8, <1>9, <1>10 DEF new

OpenerState == [at : StepsOf, mode : {"write", "run", "browse"}, server : BOOLEAN, inside : BOOLEAN, old : Names,
                read : Nat, number : Nat]

FilesTyped ==
  /\ file \in [Names -> Database] /\ opener \in [Openers -> OpenerState]
  /\ runLock \in Openers \cup {"old", "free"}
  /\ restored \in BOOLEAN /\ overtaken \in BOOLEAN
  /\ IsFiniteSet(taken) /\ Cardinality(taken) \in Nat /\ taken = 1 .. Cardinality(taken)

FilesOK == \A f \in Names : DbOK(file[f], taken)

\* What the step p has reached says of the lock and the files.
Place(p) ==
  /\ opener[p].at # "open" => opener[p].number = 0
  /\ opener[p].at \in Moving => runLock = p
  /\ opener[p].at \in {"backup", "copy", "verified"} => opener[p].old \in Candidates
  /\ opener[p].at \in {"copy", "verified", "upgrade", "open"} => file[Current].exists
  /\ (opener[p].at = "copy" /\ ~overtaken) =>
        file[Current].rows = {} /\ \A q \in Openers : opener[q].at \notin {"upgrade", "open"}
  /\ opener[p].at = "verified" => Ids(file[opener[p].old].rows) \ removed \subseteq Ids(file[Current].rows)

Places == \A p \in Openers : Place(p)

\* Until a person puts a database back, nobody is past the check while there is a legacy one besides the one being moved.
Alone(p) ==
  /\ opener[p].at \in {"create", "upgrade", "open"} => Candidates = {}
  /\ opener[p].at \in {"backup", "copy", "verified"} => Candidates \subseteq {opener[p].old}
NotRestored == ~restored => ~overtaken /\ \A p \in Openers : Alone(p)

Survive == ~overtaken => \A id \in Live : \E f \in Names : id \in Ids(file[f].rows)

\* A database that nobody replaced beneath its users is ahead of every number, also of the reserved ones.
CountersOK == \A f \in Names : (f = Current /\ overtaken) \/ Counted(file[f])

Held ==
  ~overtaken => \A p \in Openers : opener[p].number # 0 =>
    /\ file[Current].version >= Numbered
    /\ opener[p].number \in file[Current].given
    /\ Unused(file[Current], opener[p].number)
    /\ \A q \in Openers : opener[q].number = opener[p].number => q = p

StateInv == FilesTyped /\ FilesOK /\ Places /\ NotRestored /\ Survive /\ CountersOK /\ Held

LEMMA StateInvKept == StateInv => StateKept
<1> SUFFICES ASSUME StateInv PROVE StateKept
  OBVIOUS
<1>1. DOMAIN file = Names /\ \A f \in Names : DbOK(file[f], taken) /\ RowIds(f) = Ids(file[f].rows)
  BY DEF StateInv, FilesTyped, FilesOK, RowIds, Ids
<1>2. RowsSurvive
  BY <1>1 DEF StateInv, Survive, RowsSurvive, Live
<1>3. OpenSeesAll
  <2> SUFFICES ASSUME NEW p \in Openers, opener[p].at = "open", ~restored, NEW id \in taken \ removed
               PROVE  id \in RowIds(Current)
    BY DEF OpenSeesAll
  <2>1. ~overtaken /\ Candidates = {}
    BY DEF StateInv, NotRestored, Alone
  <2>2. PICK f \in Names : id \in Ids(file[f].rows)
    BY <2>1 DEF StateInv, Survive, Live
  <2>3. file[f].exists
    BY <1>1, <2>2 DEF DbOK, Ids
  <2>4. f = Current
    BY <2>1, <2>3 DEF Candidates, Names
  <2>5. QED
    BY <1>1, <2>2, <2>4
<1>4. MigratedOnce
  BY <1>1 DEF MigratedOnce, DbOK, AppliedTo
<1>5. NumbersOnce
  BY <1>1 DEF StateInv, CountersOK, Counted, NumbersOnce, DbOK
<1>6. ReservedIsOwn
  BY DEF StateInv, Held, ReservedIsOwn
<1>7. QED
  BY <1>2, <1>3, <1>4, <1>5, <1>6 DEF StateKept

LEMMA FreshIsNew ==
  ASSUME FilesTyped
  PROVE  /\ Fresh \in Nat /\ Fresh \notin taken
         /\ IsFiniteSet(taken \cup {Fresh}) /\ Cardinality(taken \cup {Fresh}) \in Nat
         /\ taken \cup {Fresh} = 1 .. Cardinality(taken \cup {Fresh})
<1>1. IsFiniteSet(taken) /\ Cardinality(taken) \in Nat /\ taken = 1 .. Cardinality(taken)
  BY DEF FilesTyped
<1>2. Fresh = Cardinality(taken) + 1 /\ Fresh \in Nat /\ Fresh \notin taken
  BY <1>1 DEF Fresh
<1>3. IsFiniteSet(taken \cup {Fresh}) /\ Cardinality(taken \cup {Fresh}) = Fresh
  BY <1>1, <1>2, FS_AddElement
<1>4. taken \cup {Fresh} = 1 .. Fresh
  BY <1>1, <1>2
<1>5. QED
  BY <1>2, <1>3, <1>4

LEMMA RowRecorded ==
  ASSUME NEW db, FilesTyped, DbOK(db, taken), db.exists, NEW start \in Nat, NEW n \in Nat, Unused(db, n)
  PROVE  /\ Grown(Recorded(db, start, n), db, taken, Fresh)
         /\ Recorded(db, start, n).version = db.version /\ Recorded(db, start, n).counter = db.counter
         /\ Recorded(db, start, n).given = db.given \cup {n}
         /\ Recorded(db, start, n).rows = db.rows \cup {[id |-> Fresh, start |-> start, number |-> n]}
<1>1. Fresh \in Nat /\ Fresh \notin taken
  BY FreshIsNew
<1>2. db.counter \in Nat /\ db.given \cup {n} \in SUBSET Nat
  BY DEF DbOK, Database
<1>3. Recorded(db, start, n) = RowPut(db, Fresh, start, n, db.counter, db.given \cup {n})
  BY DEF Recorded, RowPut, DbOK, Database
<1>4. QED
  BY <1>1, <1>2, <1>3, RowAdded

LEMMA RowNumbered ==
  ASSUME NEW db, FilesTyped, DbOK(db, taken), db.exists, NEW start \in Nat, Unused(db, db.counter + 1)
  PROVE  /\ Grown(WithRow(db, start), db, taken, Fresh) /\ WithRow(db, start).version = db.version
         /\ WithRow(db, start).counter = db.counter + 1 /\ WithRow(db, start).given = db.given \cup {db.counter + 1}
         /\ WithRow(db, start).rows = db.rows \cup {[id |-> Fresh, start |-> start, number |-> db.counter + 1]}
         /\ Counted(db) => Counted(WithRow(db, start))
<1> DEFINE n == db.counter + 1
           given == db.given \cup {n}
<1>1. Fresh \in Nat /\ Fresh \notin taken
  BY FreshIsNew
<1>2. db.counter \in Nat /\ n \in Nat /\ n = db.counter + 1 /\ given \in SUBSET Nat /\ given = db.given \cup {n} /\ Unused(db, n)
      /\ db.given \in SUBSET Nat
  BY DEF DbOK, Database
<1>3. WithRow(db, start) = RowPut(db, Fresh, start, n, n, given)
  BY DEF WithRow, Recorded, RowPut, DbOK, Database
<1> HIDE DEF n, given
<1>4. /\ Grown(WithRow(db, start), db, taken, Fresh) /\ WithRow(db, start).version = db.version
      /\ WithRow(db, start).counter = n /\ WithRow(db, start).given = given
      /\ WithRow(db, start).rows = db.rows \cup {[id |-> Fresh, start |-> start, number |-> n]}
  BY <1>1, <1>2, <1>3, RowAdded
<1>5. Counted(db) => Counted(WithRow(db, start))
  BY <1>2, <1>4 DEF Counted
<1>6. QED
  BY <1>2, <1>4, <1>5

LEMMA NextIsUnused ==
  ASSUME NEW db, NEW ids, DbOK(db, ids), Counted(db), db.version >= Numbered
  PROVE  db.counter + 1 \notin db.given /\ Unused(db, db.counter + 1)
<1>1. db.counter \in Nat /\ db.given \subseteq Nat /\ \A n \in db.given : n <= db.counter
  BY DEF DbOK, Database, Counted
<1>2. db.counter + 1 \notin db.given
  BY <1>1
<1>3. QED
  BY <1>2 DEF DbOK, Unused

LEMMA OldRowRecorded ==
  ASSUME NEW db, FilesTyped, DbOK(db, taken), db.exists, Counted(db), NEW start \in Nat
  PROVE  Grown(WithOldRow(db, start), db, taken, Fresh) /\ Counted(WithOldRow(db, start))
<1>1. CASE db.version >= Numbered
  BY <1>1, NextIsUnused, RowNumbered DEF WithOldRow
<1>2. CASE ~(db.version >= Numbered)
  <2>1. Fresh \in Nat /\ Fresh \notin taken
    BY FreshIsNew
  <2>2. db.counter \in Nat /\ db.given \in SUBSET Nat /\ 0 \in Nat
    BY DEF DbOK, Database
  <2>3. WithOldRow(db, start) = RowPut(db, Fresh, start, 0, db.counter, db.given)
    BY <1>2 DEF WithOldRow, RowPut, DbOK, Database
  <2>4. Grown(WithOldRow(db, start), db, taken, Fresh) /\ WithOldRow(db, start).version = db.version
    BY <1>2, <2>1, <2>2, <2>3, RowAdded
  <2>5. QED
    BY <1>2, <2>4 DEF Counted
<1>3. QED
  BY <1>1, <1>2

\* The numbers that are reserved stay as good while the database loses none of its numbers and gains no row.
LEMMA HeldStays ==
  ASSUME StateInv, overtaken => overtaken', \A q \in Openers : opener'[q].number \in {0, opener[q].number},
         (~overtaken /\ \E q \in Openers : opener[q].number # 0) =>
            /\ file[Current].version >= Numbered => file'[Current].version >= Numbered
            /\ file[Current].given \subseteq file'[Current].given
            /\ file'[Current].rows \subseteq file[Current].rows
  PROVE  Held'
<1> SUFFICES ASSUME ~overtaken', NEW p \in Openers, opener'[p].number # 0
             PROVE  /\ file'[Current].version >= Numbered
                    /\ opener'[p].number \in file'[Current].given
                    /\ Unused(file'[Current], opener'[p].number)
                    /\ \A q \in Openers : opener'[q].number = opener'[p].number => q = p
  BY DEF Held, Unused
<1>1. ~overtaken /\ opener[p].number # 0 /\ opener'[p].number = opener[p].number
  OBVIOUS
<1>2. /\ file[Current].version >= Numbered /\ opener[p].number \in file[Current].given
      /\ Unused(file[Current], opener[p].number) /\ \A q \in Openers : opener[q].number = opener[p].number => q = p
  BY <1>1 DEF StateInv, Held
<1>3. QED
  BY <1>1, <1>2 DEF Unused

LEMMA StateStarts == StateInit => StateInv
<1> SUFFICES ASSUME NEW legacy \in SUBSET Legacy, StateStart(legacy) PROVE StateInv
  BY DEF StateInit
<1>1. OldVersion \in Nat
  BY VersionsAssumption
<1>2. \A f \in Names : file[f] \in {NoDatabase, EmptyFile(OldVersion)} /\ DbOK(file[f], taken)
  BY <1>1, EmptyDatabases DEF StateStart, Names, OldFile
<1>3. file \in [Names -> Database]
  <2>1. \A f \in Names : file[f] \in Database
    BY <1>2 DEF DbOK
  <2>2. QED
    BY <2>1 DEF StateStart, Names
<1>4. opener \in [Openers -> OpenerState] /\ \A p \in Openers : opener[p].at = "away" /\ opener[p].number = 0
  BY DEF StateStart, OpenerState, Away, StepsOf, Names
<1>5. /\ IsFiniteSet(taken) /\ Cardinality(taken) = 0 /\ Cardinality(taken) \in Nat /\ taken = 1 .. Cardinality(taken)
      /\ Live = {}
  BY FS_EmptySet DEF StateStart, Live
<1>6. FilesTyped
  <2>1. runLock = "free" /\ restored = FALSE /\ overtaken = FALSE
    BY DEF StateStart
  <2>2. QED
    BY <1>3, <1>4, <1>5, <2>1 DEF FilesTyped
<1>7. Places /\ NotRestored /\ Held
  BY <1>4 DEF Held, Places, Place, Moving, NotRestored, Alone, StateStart
<1>8. FilesOK /\ Survive
  BY <1>2, <1>5 DEF FilesOK, Survive
<1>9. CountersOK
  BY <1>1, <1>2, EmptyDatabases DEF CountersOK
<1>10. QED
  BY <1>6, <1>7, <1>8, <1>9 DEF StateInv

\* A step of one process that changes no file and does not reach one.
LEMMA OpenerMoves ==
  ASSUME StateInv, NEW p \in Openers, NEW new \in OpenerState, new.number = 0, opener' = [opener EXCEPT ![p] = new],
         UNCHANGED <<file, taken, removed, restored, overtaken>>,
         runLock' \in Openers \cup {"old", "free"}, runLock' # runLock => runLock \in {p, "free"},
         new.at \in Moving => runLock' = p,
         new.at \in {"away", "check", "recheck", "backup", "lock", "create"},
         new.at = "backup" => Candidates = {new.old},
         (~restored /\ new.at = "create") => Candidates = {}
  PROVE  StateInv'
<1>1. FilesTyped /\ FilesOK /\ Places /\ NotRestored /\ Survive
  BY DEF StateInv
<1>2. opener' \in [Openers -> OpenerState] /\ opener'[p] = new /\ \A q \in Openers : q # p => opener'[q] = opener[q]
  BY <1>1 DEF FilesTyped
<1>3. FilesTyped' /\ FilesOK' /\ Survive'
  BY <1>1, <1>2 DEF FilesTyped, FilesOK, Survive, Live
<1>4. Candidates' = Candidates
  BY DEF Candidates
<1>5. Place(p)'
  BY <1>1, <1>2, <1>4 DEF Place
<1>6. ASSUME NEW q \in Openers, q # p
      PROVE  Place(q)'
  <2>1. Place(q) /\ opener'[q] = opener[q]
    BY <1>1, <1>2, <1>6 DEF Places
  <2>2. opener[q].at \in Moving => runLock' = q
    BY <2>1, <1>6, OpenersAssumption DEF Place
  <2>3. (opener[q].at = "copy" /\ ~overtaken) => \A r \in Openers : opener'[r].at \notin {"upgrade", "open"}
    BY <2>1, <1>2 DEF Place
  <2>4. QED
    BY <2>1, <2>2, <2>3, <1>4 DEF Place
<1>7. NotRestored'
  BY <1>1, <1>2, <1>4 DEF NotRestored, Alone
<1>8. Held' /\ CountersOK'
  <2>1. \A q \in Openers : opener'[q].number \in {0, opener[q].number}
    BY <1>2
  <2>2. Held'
    BY <2>1, HeldStays
  <2>3. QED
    BY <2>2 DEF StateInv, CountersOK
<1>9. QED
  BY <1>3, <1>5, <1>6, <1>7, <1>8 DEF StateInv, Places

LEMMA OpenKeeps ==
  ASSUME StateInv, NEW p \in Openers, NEW mode \in {"write", "run", "browse"}, NEW server \in BOOLEAN, Open(p, mode, server)
  PROVE  StateInv'
<1> DEFINE new == [Away EXCEPT !.at = "check", !.mode = mode, !.server = server]
<1>1. new \in OpenerState /\ new.at = "check" /\ new.number = 0
  BY DEF OpenerState, Away, StepsOf, Names
<1>2. opener' = [opener EXCEPT ![p] = new] /\ UNCHANGED <<file, runLock, taken, removed, restored, overtaken>>
  BY DEF Open
<1>3. runLock \in Openers \cup {"old", "free"}
  BY DEF StateInv, FilesTyped
<1> HIDE DEF new
<1>4. QED
  BY <1>1, <1>2, <1>3, OpenerMoves DEF Moving

LEMMA RefusedKeeps ==
  ASSUME StateInv, NEW p \in Openers, Refused(p), UNCHANGED <<file, taken, removed, restored, overtaken>>
  PROVE  StateInv'
<1>1. Away \in OpenerState /\ Away.at = "away" /\ Away.number = 0
  BY DEF OpenerState, Away, StepsOf, Names
<1>2. opener' = [opener EXCEPT ![p] = Away] /\ runLock' = IF runLock = p THEN "free" ELSE runLock
  BY DEF Refused
<1>3. runLock \in Openers \cup {"old", "free"}
  BY DEF StateInv, FilesTyped
<1>4. QED
  BY <1>1, <1>2, <1>3, OpenerMoves DEF Moving

\* A step to a place changes that, maybe the version read, and nothing else.
LEMMA Goes ==
  ASSUME FilesTyped, NEW p \in Openers, NEW at \in StepsOf, NEW version \in Nat,
         To(p, at) \/ opener' = [opener EXCEPT ![p].at = at, ![p].read = version]
  PROVE  /\ opener' \in [Openers -> OpenerState] /\ \A q \in Openers : q # p => opener'[q] = opener[q]
         /\ opener'[p].at = at /\ opener'[p].old = opener[p].old /\ opener'[p].number = opener[p].number
         /\ opener' = [opener EXCEPT ![p] = opener'[p]]
<1>1. opener \in [Openers -> OpenerState] /\ opener[p] \in OpenerState
  BY DEF FilesTyped
<1>2. CASE To(p, at)
  <2> DEFINE new == [opener[p] EXCEPT !.at = at]
  <2>1. new \in OpenerState /\ new.at = at /\ new.old = opener[p].old /\ new.number = opener[p].number
    BY <1>1 DEF OpenerState
  <2>2. opener' = [opener EXCEPT ![p] = new]
    BY <1>2 DEF To
  <2> HIDE DEF new
  <2>3. QED
    BY <1>1, <2>1, <2>2
<1>3. CASE opener' = [opener EXCEPT ![p].at = at, ![p].read = version]
  <2> DEFINE new == [opener[p] EXCEPT !.at = at, !.read = version]
  <2>1. new \in OpenerState /\ new.at = at /\ new.old = opener[p].old /\ new.number = opener[p].number
    BY <1>1 DEF OpenerState
  <2>2. opener' = [opener EXCEPT ![p] = new]
    BY <1>1, <1>3 DEF OpenerState
  <2> HIDE DEF new
  <2>3. QED
    BY <1>1, <2>1, <2>2
<1>4. QED
  BY <1>2, <1>3

LEMMA OneCandidate ==
  ASSUME Candidates # {}, ~Conflict
  PROVE  ~file[Current].exists /\ \A f \in Candidates : Candidates = {f}
<1>1. IsFiniteSet(Legacy)
  <2>1. IsFiniteSet({} \cup {"framechain"})
    BY FS_EmptySet, FS_AddElement
  <2>2. IsFiniteSet(({} \cup {"framechain"}) \cup {"dtc"})
    BY <2>1, FS_AddElement
  <2>3. QED
    BY <2>2 DEF Legacy
<1>2. IsFiniteSet(Candidates)
  BY <1>1, FS_Subset DEF Candidates
<1>3. Cardinality(Candidates) \in Nat /\ Cardinality(Candidates) # 0 /\ ~(Cardinality(Candidates) > 1)
  BY <1>2, FS_CardinalityType, FS_EmptySet DEF Conflict
<1>4. Cardinality(Candidates) = 1
  BY <1>3
<1>5. \E x : Candidates = {x}
  BY <1>2, <1>4, FS_Singleton
<1>6. QED
  BY <1>5 DEF Conflict

LEMMA CheckLegacyKeeps ==
  ASSUME StateInv, NEW p \in Openers, CheckLegacy(p)
  PROVE  StateInv'
<1>1. /\ FilesTyped /\ runLock \in Openers \cup {"old", "free"} /\ UNCHANGED <<file, taken, removed, restored, overtaken>>
      /\ opener[p].number = 0 /\ 0 \in Nat
  BY DEF StateInv, FilesTyped, Places, Place, CheckLegacy
<1>2. CASE Candidates = {}
  <2>1. Migrated(p) \in {"lock", "create"} /\ Migrated(p) \in StepsOf
    BY DEF Migrated, StepsOf
  <2>2. opener'[p] \in OpenerState /\ opener'[p].at = Migrated(p) /\ opener'[p].number = 0 /\ opener' = [opener EXCEPT ![p] = opener'[p]]
    BY <1>1, <1>2, <2>1, Goes DEF CheckLegacy
  <2>3. QED
    BY <1>1, <1>2, <2>1, <2>2, OpenerMoves DEF CheckLegacy, Moving
<1>3. CASE Candidates # {} /\ (Conflict \/ runLock # "free")
  BY <1>1, <1>3, RefusedKeeps DEF CheckLegacy
<1>4. CASE Candidates # {} /\ ~(Conflict \/ runLock # "free")
  <2>1. "recheck" \in StepsOf /\ To(p, "recheck") /\ runLock = "free" /\ runLock' = p
    BY <1>4 DEF StepsOf, CheckLegacy
  <2>2. opener'[p] \in OpenerState /\ opener'[p].at = "recheck" /\ opener'[p].number = 0 /\ opener' = [opener EXCEPT ![p] = opener'[p]]
    BY <1>1, <2>1, Goes
  <2>3. QED
    BY <1>1, <2>1, <2>2, OpenerMoves
<1>5. QED
  BY <1>2, <1>3, <1>4

LEMMA RecheckKeeps ==
  ASSUME StateInv, NEW p \in Openers, Recheck(p)
  PROVE  StateInv'
<1>1. /\ FilesTyped /\ runLock \in Openers \cup {"old", "free"} /\ UNCHANGED <<file, taken, removed, restored, overtaken>>
      /\ opener[p].at = "recheck" /\ opener[p].number = 0 /\ 0 \in Nat
  BY DEF StateInv, FilesTyped, Places, Place, Recheck
<1>0. runLock = p
  BY <1>1 DEF StateInv, Places, Place, Moving
<1>2. CASE Candidates = {}
  <2>1. Migrated(p) \in {"lock", "create"} /\ Migrated(p) \in StepsOf
    BY DEF Migrated, StepsOf
  <2>2. opener'[p] \in OpenerState /\ opener'[p].at = Migrated(p) /\ opener'[p].number = 0 /\ opener' = [opener EXCEPT ![p] = opener'[p]]
    BY <1>1, <1>2, <2>1, Goes DEF Recheck
  <2>3. QED
    BY <1>1, <1>0, <1>2, <2>1, <2>2, OpenerMoves DEF Recheck, Moving
<1>3. CASE Candidates # {} /\ Conflict
  BY <1>1, <1>3, RefusedKeeps DEF Recheck
<1>4. CASE Candidates # {} /\ ~Conflict
  <2> DEFINE old == CHOOSE f \in Candidates : TRUE
             new == [opener[p] EXCEPT !.at = "backup", !.old = old]
  <2>1. old \in Candidates /\ Candidates = {old} /\ old \in Names
    BY <1>4, OneCandidate DEF Candidates, Names
  <2>2. opener' = [opener EXCEPT ![p] = new] /\ runLock' = runLock
    BY <1>4 DEF Recheck
  <2> HIDE DEF old
  <2>3. opener[p] \in OpenerState
    BY <1>1 DEF FilesTyped
  <2>4. new \in OpenerState /\ new.at = "backup" /\ new.old = old /\ new.number = 0
    BY <1>1, <2>1, <2>3 DEF OpenerState, StepsOf
  <2> HIDE DEF new
  <2>5. QED
    BY <1>0, <1>1, <2>1, <2>2, <2>4, OpenerMoves
<1>5. QED
  BY <1>2, <1>3, <1>4

LEMMA TakeRunLockKeeps ==
  ASSUME StateInv, NEW p \in Openers, TakeRunLock(p)
  PROVE  StateInv'
<1>1. /\ FilesTyped /\ runLock \in Openers \cup {"old", "free"} /\ UNCHANGED <<file, taken, removed, restored, overtaken>>
      /\ opener[p].number = 0
  BY DEF StateInv, FilesTyped, Places, Place, TakeRunLock
<1>2. CASE runLock # "free"
  BY <1>1, <1>2, RefusedKeeps DEF TakeRunLock
<1>3. CASE runLock = "free"
  <2> DEFINE new == [opener[p] EXCEPT !.at = "check", !.inside = TRUE]
  <2>1. opener' = [opener EXCEPT ![p] = new] /\ runLock' = p
    BY <1>3 DEF TakeRunLock
  <2>2. opener[p] \in OpenerState
    BY <1>1 DEF FilesTyped
  <2>3. new \in OpenerState /\ new.at = "check" /\ new.number = 0
    BY <1>1, <2>2 DEF OpenerState, StepsOf
  <2> HIDE DEF new
  <2>4. QED
    BY <1>1, <1>3, <2>1, <2>3, OpenerMoves DEF Moving
<1>4. QED
  BY <1>2, <1>3

LEMMA FileSet ==
  ASSUME FilesTyped, NEW f \in Names, NEW db \in Database, file' = [file EXCEPT ![f] = db]
  PROVE  /\ file' \in [Names -> Database] /\ file'[f] = db /\ \A g \in Names : g # f => file'[g] = file[g]
         /\ f = Current => Candidates' = Candidates
         /\ f \in Legacy => Candidates' = IF db.exists THEN Candidates \cup {f} ELSE Candidates \ {f}
<1>1. file' \in [Names -> Database] /\ file'[f] = db /\ \A g \in Names : g # f => file'[g] = file[g]
  BY DEF FilesTyped
<1>2. Legacy \subseteq Names /\ Current \notin Legacy
  BY DEF Names, Legacy, Current
<1>3. QED
  BY <1>1, <1>2 DEF Candidates

\* Whoever is between the lock and the end of a migration holds the lock alone.
LEMMA OneMoves ==
  ASSUME StateInv
  PROVE  /\ \A p, q \in Openers : opener[p].at \in Moving /\ opener[q].at \in Moving => p = q
         /\ runLock \in {"old", "free"} => \A p \in Openers : opener[p].at \notin Moving
BY OpenersAssumption DEF StateInv, Places, Place

LEMMA CreateTargetKeeps ==
  ASSUME StateInv, NEW p \in Openers, CreateTarget(p)
  PROVE  StateInv'
<1>1. /\ FilesTyped /\ FilesOK /\ Places /\ NotRestored /\ Survive /\ CountersOK
      /\ opener[p].at = "backup" /\ opener[p].number = 0 /\ 0 \in Nat /\ UNCHANGED <<taken, removed, restored, overtaken>>
  BY DEF StateInv, Places, Place, CreateTarget
<1>2. CASE file[Current].exists
  BY <1>1, <1>2, RefusedKeeps DEF CreateTarget
<1>3. CASE ~file[Current].exists
  <2> DEFINE db == EmptyFile(0)
  <2>1. To(p, "copy") /\ runLock' = runLock /\ file' = [file EXCEPT ![Current] = db]
    BY <1>3 DEF CreateTarget
  <2>2. DbOK(db, taken) /\ db.exists /\ db.rows = {} /\ db \in Database /\ Counted(db)
    BY <1>1, EmptyDatabases DEF DbOK
  <2> HIDE DEF db
  <2>3. Current \in Names /\ "copy" \in StepsOf
    BY DEF Names, StepsOf
  <2>4. /\ file' \in [Names -> Database] /\ file'[Current] = db /\ \A g \in Names : g # Current => file'[g] = file[g]
        /\ Candidates' = Candidates
    BY <1>1, <2>1, <2>2, <2>3, FileSet
  <2>5. /\ opener' \in [Openers -> OpenerState] /\ \A q \in Openers : q # p => opener'[q] = opener[q]
        /\ opener'[p].at = "copy" /\ opener'[p].old = opener[p].old /\ opener'[p].number = 0
    BY <1>1, <2>1, <2>3, Goes
  <2>6. file[Current].rows = {}
    BY <1>1, <1>3, <2>3 DEF FilesOK, DbOK
  <2>7. FilesTyped'
    BY <1>1, <2>1, <2>4, <2>5 DEF FilesTyped
  <2>8. FilesOK'
    BY <1>1, <2>2, <2>4 DEF FilesOK
  <2>9. Survive'
    <3>1. \A f \in Names : file'[f].rows = file[f].rows
      BY <2>2, <2>4, <2>6
    <3>2. QED
      BY <1>1, <3>1 DEF Survive, Live
  <2>10. \A q \in Openers : opener[q].at \notin {"upgrade", "open", "copy", "verified"}
    BY <1>1, <1>3 DEF Places, Place
  <2>11. Place(p)'
    BY <1>1, <2>1, <2>2, <2>4, <2>5, <2>10 DEF Places, Place, Moving
  <2>12. ASSUME NEW q \in Openers, q # p PROVE Place(q)'
    BY <1>1, <2>1, <2>2, <2>4, <2>5, <2>10, <2>12 DEF Places, Place
  <2>13. NotRestored'
    BY <1>1, <2>4, <2>5 DEF NotRestored, Alone
  <2>14. CountersOK'
    BY <1>1, <2>2, <2>4 DEF CountersOK
  <2>15. Held'
    <3>1. \A q \in Openers : opener'[q].number = 0
      BY <1>1, <2>5, <2>10 DEF Places, Place
    <3>2. QED
      BY <3>1 DEF Held
  <2>16. QED
    BY <2>7, <2>8, <2>9, <2>11, <2>12, <2>13, <2>14, <2>15 DEF StateInv, Places
<1>4. QED
  BY <1>2, <1>3

LEMMA BackupKeeps ==
  ASSUME StateInv, NEW p \in Openers, Backup(p)
  PROVE  StateInv'
<1> DEFINE old == opener[p].old
<1>1. /\ FilesTyped /\ FilesOK /\ Places /\ NotRestored /\ Survive /\ CountersOK
      /\ opener[p].at = "copy" /\ opener[p].number = 0 /\ 0 \in Nat /\ UNCHANGED <<runLock, taken, removed, restored, overtaken>>
      /\ To(p, "verified") /\ file' = [file EXCEPT ![Current] = file[old]]
  BY DEF StateInv, Places, Place, Backup
<1>2. /\ Current \in Names /\ "verified" \in StepsOf /\ old \in Candidates /\ old \in Names /\ old # Current
      /\ file[old].exists
  BY <1>1 DEF Names, StepsOf, Places, Place, Candidates, Legacy, Current
<1>3. file[old] \in Database /\ DbOK(file[old], taken)
  BY <1>1, <1>2 DEF FilesOK, DbOK
<1> HIDE DEF old
<1>4. /\ file' \in [Names -> Database] /\ file'[Current] = file[old] /\ \A g \in Names : g # Current => file'[g] = file[g]
      /\ Candidates' = Candidates
  BY <1>1, <1>2, <1>3, FileSet
<1>5. /\ opener' \in [Openers -> OpenerState] /\ \A q \in Openers : q # p => opener'[q] = opener[q]
      /\ opener'[p].at = "verified" /\ opener'[p].old = old /\ opener'[p].number = 0
  BY <1>1, <1>2, Goes DEF old
<1>6. FilesTyped'
  BY <1>1, <1>4, <1>5 DEF FilesTyped
<1>7. FilesOK'
  BY <1>1, <1>3, <1>4 DEF FilesOK
<1>8. Survive'
  <2> SUFFICES ASSUME ~overtaken, NEW id \in Live PROVE \E f \in Names : id \in Ids(file'[f].rows)
    BY <1>1 DEF Survive, Live
  <2>1. file[Current].rows = {}
    BY <1>1 DEF Places, Place
  <2>2. PICK f \in Names : id \in Ids(file[f].rows)
    BY <1>1 DEF Survive
  <2>3. f # Current
    BY <2>1, <2>2 DEF Ids
  <2>4. QED
    BY <1>4, <2>2, <2>3
<1>9. \A q \in Openers : q # p => opener[q].at \notin Moving
  BY <1>1, OneMoves DEF Moving
<1>10. Place(p)'
  <2>1. opener'[p].old \in Candidates' /\ file'[Current].exists /\ runLock' = p
    BY <1>1, <1>2, <1>4, <1>5 DEF Places, Place, Moving
  <2>2. file'[opener'[p].old].rows = file'[Current].rows
    BY <1>2, <1>4, <1>5
  <2>3. opener'[p].at = "verified" /\ opener'[p].number = 0
    BY <1>5
  <2>4. QED
    BY <2>1, <2>2, <2>3 DEF Place
<1>11. ASSUME NEW q \in Openers, q # p PROVE Place(q)'
  <2>1. opener'[q] = opener[q] /\ opener[q].at \notin Moving /\ Place(q)
    BY <1>1, <1>5, <1>9, <1>11 DEF Places
  <2>2. QED
    BY <1>2, <1>4, <2>1 DEF Place, Moving
<1>12. NotRestored'
  BY <1>1, <1>4, <1>5 DEF NotRestored, Alone, old
<1>13. CountersOK'
  <2>1. Counted(file[old])
    BY <1>1, <1>2 DEF CountersOK
  <2>2. QED
    BY <1>1, <1>4, <2>1 DEF CountersOK
<1>14. Held'
  <2> SUFFICES ASSUME ~overtaken' PROVE \A q \in Openers : opener'[q].number = 0
    BY DEF Held
  <2>1. \A q \in Openers : opener[q].at # "open"
    BY <1>1 DEF Places, Place
  <2>2. QED
    BY <1>1, <1>5, <2>1 DEF Places, Place
<1>15. QED
  BY <1>6, <1>7, <1>8, <1>10, <1>11, <1>12, <1>13, <1>14 DEF StateInv, Places

LEMMA UnlinkLegacyKeeps ==
  ASSUME StateInv, NEW p \in Openers, UnlinkLegacy(p)
  PROVE  StateInv'
<1> DEFINE old == opener[p].old
           at == Migrated(p)
<1>1. /\ FilesTyped /\ FilesOK /\ Places /\ NotRestored /\ Survive /\ CountersOK
      /\ opener[p].at = "verified" /\ opener[p].number = 0 /\ 0 \in Nat /\ UNCHANGED <<taken, removed, restored, overtaken>> /\ runLock' = "free"
      /\ To(p, at) /\ file' = [file EXCEPT ![old] = NoDatabase]
  BY DEF StateInv, Places, Place, UnlinkLegacy
<1>2. at \in {"lock", "create"} /\ at \in StepsOf
  BY DEF Migrated, StepsOf
<1>3. old \in Candidates /\ old \in Legacy /\ old \in Names /\ old # Current /\ Current \in Names
  BY <1>1 DEF Names, Places, Place, Candidates, Legacy, Current
<1>4. NoDatabase \in Database /\ DbOK(NoDatabase, taken) /\ ~NoDatabase.exists /\ Counted(NoDatabase)
  BY EmptyDatabases DEF DbOK
<1> HIDE DEF at
<1>5. /\ opener' \in [Openers -> OpenerState] /\ \A q \in Openers : q # p => opener'[q] = opener[q]
      /\ opener'[p].at = at /\ opener'[p].number = 0
  BY <1>1, <1>2, Goes
<1>6. Ids(file[old].rows) \ removed \subseteq Ids(file[Current].rows)
  BY <1>1 DEF Places, Place
<1>7. ~restored => Candidates \subseteq {old}
  BY <1>1 DEF NotRestored, Alone
<1> HIDE DEF old
<1>8. /\ file' \in [Names -> Database] /\ file'[old] = NoDatabase /\ \A g \in Names : g # old => file'[g] = file[g]
      /\ Candidates' = Candidates \ {old}
  BY <1>1, <1>3, <1>4, FileSet
<1>9. FilesTyped'
  BY <1>1, <1>5, <1>8 DEF FilesTyped
<1>10. FilesOK'
  BY <1>1, <1>4, <1>8 DEF FilesOK
<1>11. Survive'
  <2> SUFFICES ASSUME ~overtaken, NEW id \in Live PROVE \E f \in Names : id \in Ids(file'[f].rows)
    BY <1>1 DEF Survive, Live
  <2>1. PICK f \in Names : id \in Ids(file[f].rows)
    BY <1>1 DEF Survive
  <2>2. f = old => id \in Ids(file[Current].rows)
    BY <1>6, <2>1 DEF Live
  <2>3. QED
    BY <1>3, <1>8, <2>1, <2>2
<1>12. \A q \in Openers : q # p => opener[q].at \notin Moving
  BY <1>1, OneMoves DEF Moving
<1>13. \A q \in Openers : Place(q)'
  <2>1. ASSUME NEW q \in Openers 
        PROVE  /\ opener'[q].at \notin Moving /\ (opener'[q].at \in {"upgrade", "open"} => file'[Current].exists)
               /\ opener'[q].at # "open" => opener'[q].number = 0
    BY <1>1, <1>2, <1>3, <1>5, <1>8, <1>12 DEF Places, Place, Moving
  <2>2. QED
    BY <2>1 DEF Place, Moving
<1>14. NotRestored'
  <2>1. ~restored => Candidates' = {}
    BY <1>7, <1>8
  <2>2. QED
    BY <1>1, <2>1 DEF NotRestored, Alone
<1>15. CountersOK'
  BY <1>1, <1>4, <1>8 DEF CountersOK
<1>16. Held'
  <2>1. \A q \in Openers : opener'[q].number \in {0, opener[q].number}
    BY <1>5
  <2>2. file'[Current] = file[Current]
    BY <1>3, <1>8
  <2>3. QED
    BY <1>1, <2>1, <2>2, HeldStays
<1>17. QED
  BY <1>9, <1>10, <1>11, <1>13, <1>14, <1>15, <1>16 DEF StateInv, Places

LEMMA CreateFileKeeps ==
  ASSUME StateInv, NEW p \in Openers, CreateFile(p)
  PROVE  StateInv'
<1>1. /\ FilesTyped /\ FilesOK /\ Places /\ NotRestored /\ Survive /\ CountersOK
      /\ opener[p].at = "create" /\ opener[p].number = 0 /\ UNCHANGED <<taken, removed, restored>>
      /\ overtaken' = (overtaken \/ \E q \in Openers : opener[q].at = "copy")
  BY DEF StateInv, Places, Place, CreateFile
<1>2. CASE opener[p].mode = "browse" /\ ~file[Current].exists
  <2>1. \A q \in Openers : opener[q].at # "copy"
    BY <1>1, <1>2 DEF Places, Place
  <2>2. overtaken' = overtaken
    BY <1>1, <2>1 DEF FilesTyped
  <2>3. Refused(p) /\ UNCHANGED file
    BY <1>2 DEF CreateFile
  <2>4. QED
    BY <1>1, <2>2, <2>3, RefusedKeeps
<1>3. CASE ~(opener[p].mode = "browse" /\ ~file[Current].exists)
  <2> DEFINE at == IF file[Current].version = Knows[p] THEN "open" ELSE "upgrade"
             db == [file[Current] EXCEPT !.exists = TRUE]
  <2>1. /\ To(p, at) \/ opener' = [opener EXCEPT ![p].at = at, ![p].read = file[Current].version]
        /\ runLock' = runLock /\ file' = [file EXCEPT ![Current] = db]
    BY <1>3 DEF CreateFile
  <2>2. at \in {"open", "upgrade"} /\ at \in StepsOf /\ Current \in Names
    BY DEF StepsOf, Names
  <2>3. DbOK(file[Current], taken) /\ file[Current] \in Database
    BY <1>1, <2>2 DEF FilesOK, DbOK
  <2>4. /\ db \in Database /\ db.exists /\ db.rows = file[Current].rows /\ db.version = file[Current].version
        /\ db.counter = file[Current].counter /\ db.given = file[Current].given /\ db.applied = file[Current].applied
    BY <2>3 DEF Database
  <2>16. file[Current].version \in Nat
    BY <2>3 DEF Database
  <2> HIDE DEF at, db
  <2>5. DbOK(db, taken)
    BY <2>3, <2>4 DEF DbOK
  <2>6. /\ file' \in [Names -> Database] /\ file'[Current] = db /\ \A g \in Names : g # Current => file'[g] = file[g]
        /\ Candidates' = Candidates
    BY <1>1, <2>1, <2>2, <2>4, FileSet
  <2>7. /\ opener' \in [Openers -> OpenerState] /\ \A q \in Openers : q # p => opener'[q] = opener[q]
        /\ opener'[p].at = at /\ opener'[p].number = 0
    BY <1>1, <2>1, <2>2, <2>16, Goes
  <2>8. \A f \in Names : file'[f].rows = file[f].rows
    BY <2>4, <2>6
  <2>9. FilesTyped'
    BY <1>1, <2>1, <2>6, <2>7 DEF FilesTyped
  <2>10. FilesOK'
    BY <1>1, <2>5, <2>6 DEF FilesOK
  <2>11. Survive'
    BY <1>1, <2>8 DEF Survive, Live
  <2>12. Place(p)'
    BY <2>2, <2>4, <2>6, <2>7 DEF Place, Moving
  <2>13. ASSUME NEW q \in Openers, q # p PROVE Place(q)'
    <3>1. Place(q) /\ opener'[q] = opener[q]
      BY <1>1, <2>7, <2>13 DEF Places
    <3>2. opener[q].at = "copy" => overtaken'
      BY <1>1
    <3>3. opener[q].at = "verified" => opener[q].old \in Names
      BY <3>1 DEF Place, Candidates, Names
    <3>4. opener[q].at = "verified" => Ids(file'[opener[q].old].rows) \ removed \subseteq Ids(file'[Current].rows)
      BY <2>2, <2>8, <3>1, <3>3 DEF Place
    <3>5. QED
      BY <1>1, <2>1, <2>4, <2>6, <3>1, <3>2, <3>4 DEF Place
  <2>14. NotRestored'
    <3>1. ~restored => Candidates = {} /\ ~overtaken
      BY <1>1 DEF NotRestored, Alone
    <3>2. ~restored => \A q \in Openers : opener[q].at # "copy"
      BY <1>1, <3>1 DEF Places, Place
    <3>3. ~restored => ~overtaken'
      BY <1>1, <3>1, <3>2
    <3>4. QED
      BY <1>1, <2>6, <3>1, <3>3 DEF NotRestored, Alone
  <2>17. CountersOK'
    BY <1>1, <2>4, <2>6 DEF CountersOK, Counted
  <2>18. Held'
    <3>1. \A q \in Openers : opener'[q].number \in {0, opener[q].number}
      BY <2>7
    <3>2. /\ file'[Current].version = file[Current].version /\ file'[Current].given = file[Current].given
          /\ file'[Current].rows = file[Current].rows
      BY <2>4, <2>6
    <3>3. QED
      BY <1>1, <3>1, <3>2, HeldStays
  <2>19. QED
    BY <2>9, <2>10, <2>11, <2>12, <2>13, <2>14, <2>17, <2>18 DEF StateInv, Places
<1>4. QED
  BY <1>2, <1>3

LEMMA UpgradeKeeps ==
  ASSUME StateInv, NEW p \in Openers, Upgrade(p)
  PROVE  StateInv'
<1>1. /\ FilesTyped /\ FilesOK /\ Places /\ NotRestored /\ Survive /\ CountersOK
      /\ opener[p].at = "upgrade" /\ opener[p].number = 0 /\ 0 \in Nat /\ UNCHANGED <<taken, removed, restored, overtaken>>
  BY DEF StateInv, Places, Place, Upgrade
<1>2. CASE file[Current].version > Knows[p]
  BY <1>1, <1>2, RefusedKeeps DEF Upgrade, VersionUnderLock
<1>3. CASE ~(file[Current].version > Knows[p])
  <2> DEFINE cur == file[Current]
             db == Upgraded(cur, cur.version, Knows[p])
  <2>1. opener' = [opener EXCEPT ![p].at = "open", ![p].read = 0] /\ runLock' = runLock /\ file' = [file EXCEPT ![Current] = db]
    BY <1>3 DEF Upgrade, VersionUnderLock
  <2>2. "open" \in StepsOf /\ Current \in Names /\ Knows[p] \in Nat /\ Knows[p] >= Numbered
    BY VersionsAssumption DEF StepsOf, Names
  <2>3. DbOK(cur, taken) /\ cur.exists /\ ~(cur.version > Knows[p])
    BY <1>1, <1>3, <2>2 DEF FilesOK, Places, Place
  <2> HIDE DEF cur
  <2>4. /\ DbOK(db, taken) /\ db.exists /\ Ids(db.rows) = Ids(cur.rows) /\ db.version = Knows[p]
        /\ Counted(cur) => Counted(db)
        /\ cur.version >= Numbered => db.rows = cur.rows /\ db.given = cur.given
    BY <2>2, <2>3, DatabaseUpgraded
  <2> HIDE DEF db
  <2>5. db \in Database
    BY <2>4 DEF DbOK
  <2>6. /\ file' \in [Names -> Database] /\ file'[Current] = db /\ \A g \in Names : g # Current => file'[g] = file[g]
        /\ Candidates' = Candidates
    BY <1>1, <2>1, <2>2, <2>5, FileSet
  <2>7. /\ opener' \in [Openers -> OpenerState] /\ \A q \in Openers : q # p => opener'[q] = opener[q]
        /\ opener'[p].at = "open" /\ opener'[p].number = 0
    BY <1>1, <2>1, <2>2, Goes
  <2>8. \A f \in Names : Ids(file'[f].rows) = Ids(file[f].rows)
    BY <2>4, <2>6 DEF cur
  <2>9. FilesTyped'
    BY <1>1, <2>1, <2>6, <2>7 DEF FilesTyped
  <2>10. FilesOK'
    BY <1>1, <2>4, <2>6 DEF FilesOK
  <2>11. Survive'
    BY <1>1, <2>8 DEF Survive, Live
  <2>12. Place(p)'
    BY <2>4, <2>6, <2>7 DEF Place, Moving
  <2>13. ASSUME NEW q \in Openers, q # p PROVE Place(q)'
    <3>1. Place(q) /\ opener'[q] = opener[q]
      BY <1>1, <2>7, <2>13 DEF Places
    <3>2. opener[q].at = "copy" => overtaken
      BY <1>1, <3>1 DEF Place
    <3>3. opener[q].at = "verified" => opener[q].old \in Names
      BY <3>1 DEF Place, Candidates, Names
    <3>4. opener[q].at = "verified" => Ids(file'[opener[q].old].rows) \ removed \subseteq Ids(file'[Current].rows)
      BY <2>2, <2>8, <3>1, <3>3 DEF Place
    <3>5. /\ UNCHANGED <<runLock, removed, overtaken>> /\ Candidates' = Candidates /\ file'[Current].exists
      BY <1>1, <2>1, <2>4, <2>6
    <3>6. QED
      BY <3>1, <3>2, <3>4, <3>5 DEF Place
  <2>14. NotRestored'
    BY <1>1, <2>6, <2>7 DEF NotRestored, Alone
  <2>15. CountersOK'
    BY <1>1, <2>4, <2>6 DEF CountersOK, cur
  <2>16. Held'
    <3>1. \A q \in Openers : opener'[q].number \in {0, opener[q].number}
      BY <2>7
    <3>2. (~overtaken /\ \E q \in Openers : opener[q].number # 0) => cur.version >= Numbered
      BY DEF StateInv, Held, cur
    <3>3. (~overtaken /\ \E q \in Openers : opener[q].number # 0) =>
             /\ file'[Current].version >= Numbered
             /\ file'[Current].given = file[Current].given /\ file'[Current].rows = file[Current].rows
      BY <2>2, <2>4, <2>6, <3>2 DEF cur
    <3>4. QED
      BY <1>1, <3>1, <3>3, HeldStays
  <2>17. QED
    BY <2>9, <2>10, <2>11, <2>12, <2>13, <2>14, <2>15, <2>16 DEF StateInv, Places
<1>4. QED
  BY <1>2, <1>3

LEMMA ReserveKeeps ==
  ASSUME StateInv, NEW p \in Openers, Reserve(p)
  PROVE  StateInv'
<1> DEFINE cur == file[Current]
           n == cur.counter + 1
           db == [cur EXCEPT !.counter = n, !.given = @ \cup {n}]
           new == [opener[p] EXCEPT !.number = n]
<1>1. /\ FilesTyped /\ FilesOK /\ Places /\ NotRestored /\ Survive /\ CountersOK /\ Held
      /\ opener[p].at = "open" /\ UNCHANGED <<runLock, taken, removed, restored, overtaken>>
      /\ cur.version >= Numbered
  BY DEF StateInv, Reserve, Writes
<1>2. Current \in Names
  BY DEF Names
<1>3. DbOK(cur, taken) /\ cur.exists /\ cur \in Database /\ cur.counter \in Nat
  BY <1>1, <1>2 DEF FilesOK, Places, Place, DbOK, Database
<1>4. file' = [file EXCEPT ![Current] = db]
  BY <1>3 DEF Reserve, Database
<1>5. opener' = [opener EXCEPT ![p] = new]
  BY DEF Reserve
<1>6. /\ db \in Database /\ db.exists /\ db.rows = cur.rows /\ db.version = cur.version
      /\ db.counter = n /\ db.given = cur.given \cup {n} /\ db.applied = cur.applied
  <2>1. n \in Nat /\ cur.given \cup {n} \in SUBSET Nat
    BY <1>3 DEF Database
  <2> HIDE DEF n, cur
  <2>2. QED
    BY <1>3, <2>1 DEF Database
<1>7. new \in OpenerState /\ new.at = "open" /\ new.number = n
  BY <1>1, <1>3 DEF FilesTyped, OpenerState
<1>8. n \in Nat /\ n # 0 /\ n = cur.counter + 1
  BY <1>3
<1> HIDE DEF cur, n, db, new
<1>9. DbOK(db, taken)
  BY <1>3, <1>6 DEF DbOK
<1>10. /\ file' \in [Names -> Database] /\ file'[Current] = db /\ \A g \in Names : g # Current => file'[g] = file[g]
       /\ Candidates' = Candidates
  BY <1>1, <1>2, <1>4, <1>6, FileSet
<1>11. opener' \in [Openers -> OpenerState] /\ opener'[p] = new /\ \A q \in Openers : q # p => opener'[q] = opener[q]
  BY <1>1, <1>5, <1>7 DEF FilesTyped
<1>12. \A f \in Names : file'[f].rows = file[f].rows
  BY <1>6, <1>10 DEF cur
<1>13. FilesTyped' /\ FilesOK' /\ Survive'
  BY <1>1, <1>9, <1>10, <1>11, <1>12 DEF FilesTyped, FilesOK, Survive, Live
<1>14. ASSUME NEW q \in Openers PROVE Place(q)'
  <2>1. Place(q) /\ opener'[q].at = opener[q].at /\ (opener[q].at # "open" => opener'[q] = opener[q])
    BY <1>1, <1>7, <1>11 DEF Places
  <2>2. opener[q].at = "copy" => overtaken
    BY <1>1, <2>1 DEF Place
  <2>3. opener[q].at = "verified" => opener[q].old \in Names
    BY <2>1 DEF Place, Candidates, Names
  <2>4. opener[q].at = "verified" => Ids(file'[opener[q].old].rows) \ removed \subseteq Ids(file'[Current].rows)
    BY <1>2, <1>12, <2>1, <2>3 DEF Place
  <2>5. QED
    BY <1>1, <1>6, <1>10, <2>1, <2>2, <2>4 DEF Place
<1>15. NotRestored'
  <2>1. \A q \in Openers : opener'[q].at = opener[q].at /\ (opener[q].at # "open" => opener'[q] = opener[q])
    BY <1>1, <1>7, <1>11
  <2>2. QED
    BY <1>1, <1>10, <2>1 DEF NotRestored, Alone
<1>16. CountersOK'
  <2>1. Counted(cur) => Counted(db)
    <3>1. Counted(cur) => \A m \in cur.given : m <= cur.counter /\ m \in Nat
      BY <1>1, <1>3 DEF Counted, Database
    <3>2. QED
      BY <1>3, <1>6, <1>8, <3>1 DEF Counted
  <2>2. QED
    BY <1>1, <1>10, <2>1 DEF CountersOK, cur
<1>17. Held'
  <2> SUFFICES ASSUME ~overtaken
               PROVE  \A q \in Openers : opener'[q].number # 0 =>
                        /\ db.version >= Numbered /\ opener'[q].number \in db.given /\ Unused(db, opener'[q].number)
                        /\ \A r \in Openers : opener'[r].number = opener'[q].number => r = q
    BY <1>1, <1>10 DEF Held
  <2>1. n \notin cur.given /\ Unused(cur, n)
    BY <1>1, <1>2, <1>3, <1>8, NextIsUnused DEF CountersOK, cur
  <2>2. ASSUME NEW q \in Openers, q # p, opener'[q].number # 0
        PROVE  /\ opener'[q].number \in cur.given /\ Unused(cur, opener'[q].number)
               /\ \A r \in Openers : r # p => (opener'[r].number = opener'[q].number => r = q)
    BY <1>1, <1>11, <2>2 DEF Held, cur
  <2>3. \A m : Unused(cur, m) => Unused(db, m)
    BY <1>6 DEF Unused
  <2>4. \A q \in Openers : q # p => (opener'[q].number # n)
    BY <1>8, <2>1, <2>2
  <2>5. QED
    BY <1>1, <1>6, <1>7, <1>11, <2>1, <2>2, <2>3, <2>4
<1>18. QED
  BY <1>13, <1>14, <1>15, <1>16, <1>17 DEF StateInv, Places

\* A row more in the database that is open, whoever's number it has.
LEMMA RowWritten ==
  ASSUME StateInv, NEW p \in Openers, opener[p].at = "open", NEW db, Grown(db, file[Current], taken, Fresh),
         file' = [file EXCEPT ![Current] = db], taken' = taken \cup {Fresh},
         opener' \in [Openers -> OpenerState], \A q \in Openers : opener'[q].at = opener[q].at,
         \A q \in Openers : opener[q].at # "open" => opener'[q] = opener[q],
         UNCHANGED <<runLock, removed, restored, overtaken>>, ~overtaken => Counted(db), Held'
  PROVE  StateInv'
<1> DEFINE cur == file[Current]
<1>1. FilesTyped /\ FilesOK /\ Places /\ NotRestored /\ Survive /\ CountersOK
  BY DEF StateInv
<1>2. Current \in Names
  BY DEF Names
<1> HIDE DEF cur
<1>5. DbOK(db, taken') /\ db.exists /\ Ids(db.rows) = Ids(cur.rows) \cup {Fresh} /\ db \in Database
  BY DEF Grown, DbOK, cur
<1>6. /\ file' \in [Names -> Database] /\ file'[Current] = db /\ \A g \in Names : g # Current => file'[g] = file[g]
      /\ Candidates' = Candidates
  BY <1>1, <1>2, <1>5, FileSet
<1>7. FilesTyped'
  BY <1>1, <1>6, FreshIsNew DEF FilesTyped
<1>8. FilesOK'
  <2> SUFFICES ASSUME NEW f \in Names, f # Current PROVE DbOK(file[f], taken')
    BY <1>5, <1>6 DEF FilesOK
  <2>1. DbOK(file[f], taken) /\ taken \subseteq taken'
    BY <1>1 DEF FilesOK
  <2>2. QED
    BY <2>1, OfMoreIds
<1>9. Survive'
  <2> SUFFICES ASSUME ~overtaken, NEW id \in Live' PROVE \E f \in Names : id \in Ids(file'[f].rows)
    BY <1>1 DEF Survive
  <2>1. CASE id = Fresh
    BY <1>2, <1>5, <1>6, <2>1
  <2>2. CASE id # Fresh
    <3>1. id \in Live
      BY <1>1, <2>2 DEF Live
    <3>2. PICK f \in Names : id \in Ids(file[f].rows)
      BY <1>1, <3>1 DEF Survive
    <3>3. f = Current => id \in Ids(db.rows)
      BY <1>5, <3>2 DEF cur
    <3>4. QED
      BY <1>6, <3>2, <3>3
  <2>3. QED
    BY <2>1, <2>2
<1>10. ASSUME NEW q \in Openers PROVE Place(q)'
  <2>1. Place(q)
    BY <1>1 DEF Places
  <2>2. opener[q].at = "copy" => overtaken
    BY <1>1, <2>1 DEF Place
  <2>3. opener[q].at = "verified" => opener[q].old \in Names /\ opener[q].old # Current
    BY <2>1 DEF Place, Candidates, Names, Legacy, Current
  <2>4. opener[q].at = "verified" => Ids(file'[opener[q].old].rows) \ removed \subseteq Ids(file'[Current].rows)
    BY <1>5, <1>6, <2>1, <2>3 DEF Place, cur
  <2>5. QED
    BY <1>1, <1>5, <1>6, <2>1, <2>2, <2>4 DEF Place
<1>11. NotRestored'
  BY <1>1, <1>6 DEF NotRestored, Alone
<1>12. CountersOK'
  BY <1>1, <1>6 DEF CountersOK
<1>13. QED
  BY <1>7, <1>8, <1>9, <1>10, <1>11, <1>12 DEF StateInv, Places

LEMMA InsertKeeps ==
  ASSUME StateInv, NEW p \in Openers, NEW start \in Nat, Insert(p, start)
  PROVE  StateInv'
<1> DEFINE cur == file[Current]
           n == opener[p].number
           db == Recorded(cur, start, n)
           new == [opener[p] EXCEPT !.number = 0]
<1>1. /\ FilesTyped /\ FilesOK /\ Places /\ CountersOK /\ Held
      /\ opener[p].at = "open" /\ UNCHANGED <<runLock, removed, restored, overtaken>>
      /\ cur.version >= Numbered /\ n # 0 /\ Unused(cur, n)
      /\ file' = [file EXCEPT ![Current] = db] /\ taken' = taken \cup {Fresh} /\ opener' = [opener EXCEPT ![p] = new]
  BY DEF StateInv, Insert, Writes
<1>2. Current \in Names
  BY DEF Names
<1>3. DbOK(cur, taken) /\ cur.exists /\ opener[p] \in OpenerState /\ n \in Nat
  BY <1>1, <1>2 DEF FilesOK, FilesTyped, Places, Place, OpenerState
<1>4. new \in OpenerState /\ new.at = "open" /\ new.number = 0
  BY <1>1, <1>3 DEF OpenerState
<1> HIDE DEF cur, n, new
<1>5. /\ Grown(db, cur, taken, Fresh) /\ db.version = cur.version /\ db.counter = cur.counter /\ db.given = cur.given \cup {n}
      /\ db.rows = cur.rows \cup {[id |-> Fresh, start |-> start, number |-> n]}
  BY <1>1, <1>3, RowRecorded
<1> HIDE DEF db
<1>6. file'[Current] = db
  BY <1>1, <1>2 DEF FilesTyped
<1>7. opener' \in [Openers -> OpenerState] /\ opener'[p] = new /\ \A q \in Openers : q # p => opener'[q] = opener[q]
  BY <1>1, <1>4 DEF FilesTyped
<1>8. ~overtaken => n \in cur.given /\ \A q \in Openers : opener[q].number = n => q = p
  BY <1>1 DEF Held, cur, n
<1>9. ~overtaken => Counted(db)
  BY <1>1, <1>2, <1>5, <1>8 DEF CountersOK, Counted, cur
<1>10. Held'
  <2> SUFFICES ASSUME ~overtaken, NEW q \in Openers, opener'[q].number # 0
               PROVE  /\ db.version >= Numbered /\ opener'[q].number \in db.given /\ Unused(db, opener'[q].number)
                      /\ \A r \in Openers : opener'[r].number = opener'[q].number => r = q
    BY <1>1, <1>6 DEF Held
  <2>1. q # p /\ opener'[q] = opener[q] /\ opener[q].number # n
    BY <1>4, <1>7, <1>8
  <2>2. /\ opener[q].number \in cur.given /\ Unused(cur, opener[q].number)
        /\ \A r \in Openers : opener[r].number = opener[q].number => r = q
    BY <1>1, <2>1 DEF Held, cur
  <2>3. Unused(db, opener[q].number)
    BY <1>5, <2>1, <2>2 DEF Unused
  <2>4. \A r \in Openers : opener'[r].number \in {0, opener[r].number}
    BY <1>4, <1>7
  <2>5. QED
    BY <1>1, <1>5, <2>1, <2>2, <2>3, <2>4
<1>11. \A q \in Openers : opener'[q].at = opener[q].at /\ (opener[q].at # "open" => opener'[q] = opener[q])
  BY <1>1, <1>4, <1>7
<1>12. QED
  BY <1>1, <1>5, <1>7, <1>9, <1>10, <1>11, RowWritten DEF cur

LEMMA ImportKeeps ==
  ASSUME StateInv, NEW p \in Openers, NEW start \in Nat, Import(p, start)
  PROVE  StateInv'
<1> DEFINE cur == file[Current]
           n == cur.counter + 1
           db == WithRow(cur, start)
<1>1. /\ FilesTyped /\ FilesOK /\ Places /\ CountersOK /\ Held
      /\ opener[p].at = "open" /\ UNCHANGED <<opener, runLock, removed, restored, overtaken>>
      /\ cur.version >= Numbered /\ Unused(cur, n)
      /\ file' = [file EXCEPT ![Current] = db] /\ taken' = taken \cup {Fresh}
  BY DEF StateInv, Import, Writes
<1>2. Current \in Names
  BY DEF Names
<1>3. DbOK(cur, taken) /\ cur.exists
  BY <1>1, <1>2 DEF FilesOK, Places, Place
<1> HIDE DEF cur
<1>4. /\ Grown(db, cur, taken, Fresh) /\ db.version = cur.version /\ db.given = cur.given \cup {n}
      /\ db.rows = cur.rows \cup {[id |-> Fresh, start |-> start, number |-> n]}
      /\ Counted(cur) => Counted(db)
  BY <1>1, <1>3, RowNumbered
<1>5. ~overtaken => Counted(cur) /\ n \notin cur.given
  BY <1>1, <1>2, <1>3, NextIsUnused DEF CountersOK, cur
<1> HIDE DEF db, n
<1>6. file'[Current] = db
  BY <1>1, <1>2 DEF FilesTyped
<1>7. Held'
  <2> SUFFICES ASSUME ~overtaken, NEW q \in Openers, opener[q].number # 0
               PROVE  /\ db.version >= Numbered /\ opener[q].number \in db.given /\ Unused(db, opener[q].number)
                      /\ \A r \in Openers : opener[r].number = opener[q].number => r = q
    BY <1>1, <1>6 DEF Held
  <2>1. /\ opener[q].number \in cur.given /\ Unused(cur, opener[q].number)
        /\ \A r \in Openers : opener[r].number = opener[q].number => r = q
    BY <1>1 DEF Held, cur
  <2>2. opener[q].number # n
    BY <1>5, <2>1
  <2>3. QED
    BY <1>1, <1>4, <2>1, <2>2 DEF Unused
<1>8. QED
  <2>1. opener' \in [Openers -> OpenerState] /\ \A q \in Openers : opener'[q] = opener[q]
    BY <1>1 DEF FilesTyped
  <2>2. ~overtaken => Counted(db)
    BY <1>4, <1>5
  <2>3. QED
    BY <1>1, <1>4, <1>7, <2>1, <2>2, RowWritten DEF cur

LEMMA RemoveKeeps ==
  ASSUME StateInv, NEW p \in Openers, Remove(p)
  PROVE  StateInv'
<1> DEFINE cur == file[Current]
<1>1. /\ FilesTyped /\ FilesOK /\ Places /\ NotRestored /\ Survive /\ CountersOK
      /\ opener[p].at = "open" /\ UNCHANGED <<opener, runLock, taken, restored, overtaken>>
  BY DEF StateInv, Remove
<1>2. PICK exec \in cur.rows : file' = [file EXCEPT ![Current].rows = @ \ {exec}] /\ removed' = removed \cup {exec.id}
  BY DEF Remove
<1> DEFINE db == [cur EXCEPT !.rows = @ \ {exec}]
<1>3. file' = [file EXCEPT ![Current] = db]
  BY <1>2
<1>4. Current \in Names
  BY DEF Names
<1>5. DbOK(cur, taken) /\ cur.exists
  BY <1>1, <1>4 DEF FilesOK, Places, Place
<1> HIDE DEF cur
<1>6. /\ DbOK(db, taken) /\ db.exists /\ Ids(db.rows) = Ids(cur.rows) \ {exec.id}
      /\ db.version = cur.version /\ db.counter = cur.counter /\ db.given = cur.given /\ db.rows \subseteq cur.rows
  BY <1>5, RowRemoved
<1> HIDE DEF db
<1>7. db \in Database
  BY <1>6 DEF DbOK
<1>8. /\ file' \in [Names -> Database] /\ file'[Current] = db /\ \A g \in Names : g # Current => file'[g] = file[g]
      /\ Candidates' = Candidates
  BY <1>1, <1>3, <1>4, <1>7, FileSet
<1>9. FilesTyped'
  BY <1>1, <1>8 DEF FilesTyped
<1>10. FilesOK'
  BY <1>1, <1>6, <1>8 DEF FilesOK
<1>11. Survive'
  <2> SUFFICES ASSUME ~overtaken, NEW id \in Live' PROVE \E f \in Names : id \in Ids(file'[f].rows)
    BY <1>1 DEF Survive
  <2>1. id \in Live /\ id # exec.id
    BY <1>1, <1>2 DEF Live
  <2>2. PICK f \in Names : id \in Ids(file[f].rows)
    BY <1>1, <2>1 DEF Survive
  <2>3. f = Current => id \in Ids(db.rows)
    BY <1>6, <2>1, <2>2 DEF cur
  <2>4. QED
    BY <1>8, <2>2, <2>3
<1>12. ASSUME NEW q \in Openers PROVE Place(q)'
  <2>1. Place(q)
    BY <1>1 DEF Places
  <2>2. opener[q].at = "copy" => overtaken
    BY <1>1, <2>1 DEF Place
  <2>3. opener[q].at = "verified" => opener[q].old \in Names /\ opener[q].old # Current
    BY <2>1 DEF Place, Candidates, Names, Legacy, Current
  <2>4. opener[q].at = "verified" => Ids(file'[opener[q].old].rows) \ removed' \subseteq Ids(file'[Current].rows)
    BY <1>2, <1>6, <1>8, <2>1, <2>3 DEF Place, cur
  <2>5. QED
    BY <1>1, <1>6, <1>8, <2>1, <2>2, <2>4 DEF Place
<1>13. NotRestored'
  BY <1>1, <1>8 DEF NotRestored, Alone
<1>14. CountersOK'
  BY <1>1, <1>6, <1>8 DEF CountersOK, Counted, cur
<1>15. Held'
  BY <1>1, <1>6, <1>8, HeldStays DEF cur
<1>16. QED
  BY <1>9, <1>10, <1>11, <1>12, <1>13, <1>14, <1>15 DEF StateInv, Places

\* A database of an earlier name gains an execution, or is put back with one, while nobody moves it.
LEMMA LegacyGrows ==
  ASSUME StateInv, NEW f \in Legacy, NEW db, Grown(db, file[f], taken, Fresh), Counted(db), file' = [file EXCEPT ![f] = db],
         taken' = taken \cup {Fresh}, UNCHANGED <<opener, runLock, removed, overtaken>>,
         restored' \in BOOLEAN, restored => restored', restored' \/ f \in Candidates,
         \A p \in Openers : opener[p].at \in {"backup", "copy", "verified"} => f # opener[p].old
  PROVE  StateInv'
<1>1. FilesTyped /\ FilesOK /\ Places /\ NotRestored /\ Survive /\ CountersOK
  BY DEF StateInv
<1>2. f \in Names /\ Current \in Names /\ f # Current
  BY DEF Names, Legacy, Current
<1>3. DbOK(db, taken') /\ db.exists /\ Ids(db.rows) = Ids(file[f].rows) \cup {Fresh} /\ db \in Database
  BY DEF Grown, DbOK
<1>4. /\ file' \in [Names -> Database] /\ file'[f] = db /\ \A g \in Names : g # f => file'[g] = file[g]
      /\ Candidates' = Candidates \cup {f}
  BY <1>1, <1>2, <1>3, FileSet
<1>5. FilesTyped'
  BY <1>1, <1>4, FreshIsNew DEF FilesTyped
<1>6. FilesOK'
  <2> SUFFICES ASSUME NEW g \in Names, g # f PROVE DbOK(file[g], taken')
    BY <1>3, <1>4 DEF FilesOK
  <2>1. DbOK(file[g], taken) /\ taken \subseteq taken'
    BY <1>1 DEF FilesOK
  <2>2. QED
    BY <2>1, OfMoreIds
<1>7. Survive'
  <2> SUFFICES ASSUME ~overtaken, NEW id \in Live' PROVE \E g \in Names : id \in Ids(file'[g].rows)
    BY <1>1 DEF Survive
  <2>1. CASE id = Fresh
    BY <1>2, <1>3, <1>4, <2>1
  <2>2. CASE id # Fresh
    <3>1. id \in Live
      BY <2>2 DEF Live
    <3>2. PICK g \in Names : id \in Ids(file[g].rows)
      BY <1>1, <3>1 DEF Survive
    <3>3. g = f => id \in Ids(db.rows)
      BY <1>3, <3>2
    <3>4. QED
      BY <1>4, <3>2, <3>3
  <2>3. QED
    BY <2>1, <2>2
<1>8. ASSUME NEW q \in Openers PROVE Place(q)'
  <2>1. Place(q)
    BY <1>1 DEF Places
  <2>2. opener[q].at \in {"backup", "copy", "verified"} => opener[q].old \in Candidates' /\ opener[q].old # f /\ opener[q].old \in Names
    BY <1>4, <2>1 DEF Place, Candidates, Names
  <2>3. file'[Current] = file[Current] /\ (opener[q].at = "verified" => file'[opener[q].old] = file[opener[q].old])
    BY <1>2, <1>4, <2>2
  <2>4. QED
    BY <2>1, <2>2, <2>3 DEF Place
<1>9. NotRestored'
  <2>1. ~restored' => ~restored /\ Candidates' = Candidates
    BY <1>4
  <2>2. QED
    BY <1>1, <2>1 DEF NotRestored, Alone
<1>10. CountersOK'
  BY <1>1, <1>2, <1>4 DEF CountersOK
<1>11. Held'
  <2>1. file'[Current] = file[Current] /\ \A q \in Openers : opener'[q].number \in {0, opener[q].number}
    BY <1>2, <1>4
  <2>2. QED
    BY <2>1, HeldStays
<1>12. QED
  BY <1>5, <1>6, <1>7, <1>8, <1>9, <1>10, <1>11 DEF StateInv, Places

LEMMA OldServerKeeps == StateInv /\ OldServer => StateInv'
<1> SUFFICES ASSUME StateInv, OldServer PROVE StateInv'
  OBVIOUS
<1>1. FilesTyped /\ FilesOK /\ Places /\ NotRestored /\ Survive /\ CountersOK /\ Held /\ UNCHANGED <<opener, removed, restored, overtaken>>
  BY DEF StateInv, OldServer
<1>2. runLock \in {"old", "free"} /\ \A p \in Openers : opener[p].at \notin Moving
  BY OneMoves DEF OldServer
<1>3. CASE UNCHANGED <<file, taken>> /\ runLock' \in {"old", "free"}
  <2>1. FilesTyped' /\ FilesOK' /\ Survive' /\ Candidates' = Candidates
    BY <1>1, <1>3 DEF FilesTyped, FilesOK, Survive, Live, Candidates
  <2>2. Places'
    BY <1>1, <1>2, <1>3 DEF Places, Place, Moving
  <2>3. NotRestored'
    BY <1>1, <2>1 DEF NotRestored, Alone
  <2>4. CountersOK' /\ Held'
    BY <1>1, <1>3 DEF CountersOK, Held
  <2>5. QED
    BY <2>1, <2>2, <2>3, <2>4 DEF StateInv
<1>4. ASSUME NEW f \in Candidates, NEW start \in 1 .. 2, file' = [file EXCEPT ![f] = WithOldRow(@, start)],
             taken' = taken \cup {Fresh}, UNCHANGED runLock
      PROVE  StateInv'
  <2>1. f \in Legacy /\ f \in Names /\ file[f].exists /\ DbOK(file[f], taken) /\ start \in Nat /\ Counted(file[f])
    BY <1>1, <1>4 DEF Candidates, Names, FilesOK, CountersOK, Legacy, Current
  <2>2. Grown(WithOldRow(file[f], start), file[f], taken, Fresh) /\ Counted(WithOldRow(file[f], start))
    BY <1>1, <2>1, OldRowRecorded
  <2>3. file' = [file EXCEPT ![f] = WithOldRow(file[f], start)] /\ restored' \in BOOLEAN
    BY <1>1, <1>4 DEF FilesTyped
  <2>4. QED
    BY <1>1, <1>2, <1>4, <2>1, <2>2, <2>3, LegacyGrows DEF Moving
<1>5. QED
  BY <1>3, <1>4 DEF OldServer

LEMMA PutBackKeeps == StateInv /\ PutBack => StateInv'
<1> SUFFICES ASSUME StateInv, PutBack PROVE StateInv'
  OBVIOUS
<1>1. /\ FilesTyped /\ FilesOK /\ Places /\ UNCHANGED <<opener, runLock, removed, overtaken>> /\ restored' = TRUE
      /\ taken' = taken \cup {Fresh}
  BY DEF StateInv, PutBack
<1>2. PICK f \in Legacy : ~file[f].exists /\ file' = [file EXCEPT ![f] = WithOldRow(OldFile, 1)]
  BY DEF PutBack
<1>3. OldVersion \in Nat
  BY VersionsAssumption
<1>4. DbOK(OldFile, taken) /\ OldFile.exists /\ OldFile.rows = {} /\ Counted(OldFile)
  BY <1>3, EmptyDatabases DEF OldFile
<1>5. file[f].rows = {}
  BY <1>1, <1>2 DEF FilesOK, DbOK, Names
<1>6. Grown(WithOldRow(OldFile, 1), OldFile, taken, Fresh) /\ Counted(WithOldRow(OldFile, 1))
  BY <1>1, <1>4, OldRowRecorded
<1>7. Grown(WithOldRow(OldFile, 1), file[f], taken, Fresh)
  BY <1>4, <1>5, <1>6 DEF Grown
<1>8. \A p \in Openers : opener[p].at \in {"backup", "copy", "verified"} => f # opener[p].old
  BY <1>1, <1>2 DEF Places, Place, Candidates
<1>9. QED
  BY <1>1, <1>2, <1>6, <1>7, <1>8, LegacyGrows

LEMMA MoveAsideKeeps == StateInv /\ MoveAside => StateInv'
<1> SUFFICES ASSUME StateInv, MoveAside PROVE StateInv'
  OBVIOUS
<1>1. /\ FilesTyped /\ FilesOK /\ NotRestored /\ Survive /\ CountersOK
      /\ UNCHANGED <<opener, runLock, taken, removed, restored, overtaken>>
      /\ \A p \in Openers : opener[p].at = "away" /\ opener[p].number = 0
  BY DEF StateInv, MoveAside, Away
<1>2. PICK f \in Names, g \in Names : f # g /\ RowIds(f) \subseteq RowIds(g) /\ file' = [file EXCEPT ![f] = NoDatabase]
  BY <1>1 DEF MoveAside, FilesTyped
<1>3. NoDatabase \in Database /\ DbOK(NoDatabase, taken) /\ Counted(NoDatabase)
  BY EmptyDatabases DEF DbOK
<1>4. file' \in [Names -> Database] /\ file'[f] = NoDatabase /\ \A h \in Names : h # f => file'[h] = file[h]
  BY <1>1, <1>2, <1>3, FileSet
<1>5. FilesTyped' /\ FilesOK' /\ CountersOK'
  BY <1>1, <1>3, <1>4 DEF FilesTyped, FilesOK, CountersOK
<1>6. Survive'
  <2> SUFFICES ASSUME ~overtaken, NEW id \in Live PROVE \E h \in Names : id \in Ids(file'[h].rows)
    BY <1>1 DEF Survive, Live
  <2>1. PICK h \in Names : id \in Ids(file[h].rows)
    BY <1>1 DEF Survive
  <2>2. h = f => id \in Ids(file[g].rows)
    BY <1>2, <2>1 DEF RowIds, Ids
  <2>3. QED
    BY <1>2, <1>4, <2>1, <2>2
<1>7. Places' /\ NotRestored' /\ Held'
  BY <1>1 DEF Held, Places, Place, Moving, NotRestored, Alone
<1>8. QED
  BY <1>5, <1>6, <1>7 DEF StateInv

LEMMA StateStepKeeps == StateInv /\ [StateNext]_stateVars => StateInv'
<1> SUFFICES ASSUME StateInv, [StateNext]_stateVars PROVE StateInv'
  OBVIOUS
<1>1. CASE UNCHANGED stateVars
  <2>1. FilesTyped' /\ FilesOK' /\ Survive' /\ Candidates' = Candidates
    BY <1>1 DEF StateInv, stateVars, FilesTyped, FilesOK, Survive, Live, Candidates
  <2>2. Places' /\ NotRestored'
    BY <1>1, <2>1 DEF StateInv, stateVars, Places, Place, NotRestored, Alone
  <2>3. CountersOK' /\ Held'
    BY <1>1 DEF StateInv, stateVars, CountersOK, Held
  <2>4. QED
    BY <2>1, <2>2, <2>3 DEF StateInv
<1>2. ASSUME NEW p \in Openers, OpenerStep(p)
      PROVE  StateInv'
  <2>1. CASE \E mode \in {"run", "browse"} : Open(p, mode, FALSE)
    BY <2>1, OpenKeeps
  <2>2. CASE Open(p, "write", TRUE)
    BY <2>2, OpenKeeps
  <2>3. CASE BackupFails(p)
    BY <2>3, RefusedKeeps DEF BackupFails
  <2>4. CASE Close(p)
    BY <2>4, RefusedKeeps DEF Close
  <2>5. CASE Dies(p)
    BY <2>5, RefusedKeeps DEF Dies
  <2>6. CASE Reserve(p) \/ \E start \in 1 .. 2 : Insert(p, start) \/ Import(p, start)
    BY <2>6, ReserveKeeps, InsertKeeps, ImportKeeps
  <2>7. CASE CheckLegacy(p) \/ Recheck(p) \/ TakeRunLock(p)
    BY <2>7, CheckLegacyKeeps, RecheckKeeps, TakeRunLockKeeps
  <2>8. CASE CreateTarget(p) \/ Backup(p) \/ UnlinkLegacy(p)
    BY <2>8, CreateTargetKeeps, BackupKeeps, UnlinkLegacyKeeps
  <2>9. CASE CreateFile(p) \/ Upgrade(p) \/ Remove(p)
    BY <2>9, CreateFileKeeps, UpgradeKeeps, RemoveKeeps
  <2>10. QED
    BY <1>2, <2>1, <2>2, <2>3, <2>4, <2>5, <2>6, <2>7, <2>8, <2>9 DEF OpenerStep
<1>3. QED
  BY <1>1, <1>2, OldServerKeeps, PutBackKeeps, MoveAsideKeeps DEF StateNext

THEOREM StateInvThm == StateSpec => []StateInv
BY StateStarts, StateStepKeeps, PTL DEF StateSpec

(* No committed exec is lost, an open store shows every exec, each migration   *)
(* runs once on a file and no number is given twice, for any number of       *)
(* openers and versions: the migration of state/database_migration.py and    *)
(* the upgrade of state/database.py, by whoever starts, fails or dies.       *)
THEOREM StateKeptThm == StateSpec => []StateKept
BY StateInvThm, StateInvKept, PTL
=============================================================================
