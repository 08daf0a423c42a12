----------------------------- MODULE StateFiles -----------------------------
(* The files of the state store: which one is opened, by whom, and what of   *)
(* it survives.  A database of an earlier name is moved to the current one   *)
(* under the run lock (state/database_migration.py); any open creates a      *)
(* missing file and upgrades an older schema (state/database.py,             *)
(* state/schema.py); a newer schema is refused; an execution's number comes  *)
(* from a counter that only goes up.  SQLite's transactions are atomic.      *)
EXTENDS Integers, FiniteSets

CONSTANTS
  Openers,     \* processes that open the store
  Knows,       \* Knows[p]: the schema version p's program knows (SCHEMA_VERSION)
  OldVersion,  \* the schema an earlier program's database is at
  MaxRows,     \* bound: executions recorded
  MaxBreaks    \* bound: crashes, failed backups and files put back

Numbered == 3        \* the migration that numbers executions (SCHEMA_V3)
Legacy == {"framechain", "dtc"}   \* LEGACY_DATABASE_FILE_NAMES
Current == "framecontrol"

ASSUME VersionsAssumption == OldVersion \in Nat /\ \A p \in Openers : Knows[p] \in Nat /\ Knows[p] >= Numbered
ASSUME OpenersAssumption == Openers \cap {"old", "free"} = {}

VARIABLES
  file,      \* file[name]: exists, schema version, rows, counter of numbers, how often each migration ran; history:
             \* the numbers it ever gave to an execution
  opener,    \* opener[p]: where p is in opening the store, its mode, whether it is a server, the version
             \* it read before it took the write lock, the number it reserved
  runLock,   \* who holds the run lock: a process, "old" (a server of the earlier program) or "free"
  taken,     \* rows ever committed
  removed,   \* rows a retention or a deletion removed
  restored,  \* a person put an earlier database back beside the current one
  overtaken, \* a process that had looked before a database was put back opened the copy being made
  breaks
stateVars == <<file, opener, runLock, taken, removed, restored, overtaken, breaks>>

NoDatabase == [exists |-> FALSE, version |-> 0, rows |-> {}, counter |-> 0, given |-> {}, applied |-> [v \in 1 .. 0 |-> 1]]
EmptyFile(version) ==
  [exists |-> TRUE, version |-> version, rows |-> {}, counter |-> 0, given |-> {}, applied |-> [v \in 1 .. version |-> 1]]
OldFile == EmptyFile(OldVersion)
Away == [at |-> "away", mode |-> "browse", server |-> FALSE, inside |-> FALSE, old |-> Current, read |-> 0, number |-> 0]

Candidates == {f \in Legacy : file[f].exists}
Conflict == file[Current].exists \/ Cardinality(Candidates) > 1
RowIds(f) == {r.id : r \in file[f].rows}

----------------------------------------------------------------------------
(* Opening: the steps of migrate_legacy_database, Database and Store.open.   *)

\* Where p goes on: a step, or away (StateError), with the lock it took to migrate given back.
To(p, at) == opener' = [opener EXCEPT ![p].at = at]
Refused(p) ==
  /\ opener' = [opener EXCEPT ![p] = Away]
  /\ runLock' = IF runLock = p THEN "free" ELSE runLock

\* The provider's get, a command or the server: a read of a store that does not exist finds none.
Open(p, mode, server) ==
  /\ opener[p].at = "away"
  /\ server => mode = "write"
  /\ mode = "browse" => file[Current].exists \/ Candidates # {}
  /\ opener' = [opener EXCEPT ![p] = [Away EXCEPT !.at = "check", !.mode = mode, !.server = server]]
  /\ UNCHANGED <<file, runLock, taken, removed, restored, overtaken, breaks>>

\* A server migrates before it takes the run lock, and Store.open checks again while it holds it.
Migrated(p) == IF opener[p].server /\ ~opener[p].inside THEN "lock" ELSE "create"

CheckLegacy(p) ==
  /\ opener[p].at = "check"
  /\ IF Candidates = {} THEN To(p, Migrated(p)) /\ UNCHANGED runLock
     ELSE IF Conflict \/ runLock # "free" THEN Refused(p)
     ELSE To(p, "recheck") /\ runLock' = p
  /\ UNCHANGED <<file, taken, removed, restored, overtaken, breaks>>

\* Under the lock: another starter may have migrated it.
Recheck(p) ==
  /\ opener[p].at = "recheck"
  /\ IF Candidates = {} THEN To(p, Migrated(p)) /\ runLock' = "free"
     ELSE IF Conflict THEN Refused(p)
     ELSE opener' = [opener EXCEPT ![p].at = "backup", ![p].old = CHOOSE f \in Candidates : TRUE] /\ UNCHANGED runLock
  /\ UNCHANGED <<file, taken, removed, restored, overtaken, breaks>>

\* Exclusive creation refuses a destination someone else created meanwhile.
CreateTarget(p) ==
  /\ opener[p].at = "backup"
  /\ IF file[Current].exists THEN Refused(p) /\ UNCHANGED file
     ELSE To(p, "copy") /\ UNCHANGED runLock /\ file' = [file EXCEPT ![Current] = EmptyFile(0)]
  /\ UNCHANGED <<taken, removed, restored, overtaken, breaks>>

Backup(p) ==
  /\ opener[p].at = "copy"
  /\ file' = [file EXCEPT ![Current] = file[opener[p].old]]
  /\ To(p, "verified")
  /\ UNCHANGED <<runLock, taken, removed, restored, overtaken, breaks>>

\* The backup cannot be made or verified: both files are kept.
BackupFails(p) ==
  /\ opener[p].at \in {"copy", "verified"} /\ breaks < MaxBreaks /\ breaks' = breaks + 1
  /\ Refused(p)
  /\ UNCHANGED <<file, taken, removed, restored, overtaken>>

UnlinkLegacy(p) ==
  /\ opener[p].at = "verified"
  /\ file' = [file EXCEPT ![opener[p].old] = NoDatabase]
  /\ To(p, Migrated(p)) /\ runLock' = "free"
  /\ UNCHANGED <<taken, removed, restored, overtaken, breaks>>

\* The server takes the run lock and opens the store, which looks for a legacy database once more.
TakeRunLock(p) ==
  /\ opener[p].at = "lock"
  /\ IF runLock # "free" THEN Refused(p)
     ELSE runLock' = p /\ opener' = [opener EXCEPT ![p].at = "check", ![p].inside = TRUE]
  /\ UNCHANGED <<file, taken, removed, restored, overtaken, breaks>>

\* _create_file, then the version is read without the write lock.
CreateFile(p) ==
  /\ opener[p].at = "create"
  /\ IF opener[p].mode = "browse" /\ ~file[Current].exists THEN Refused(p) /\ UNCHANGED file
     ELSE /\ file' = [file EXCEPT ![Current].exists = TRUE]
          /\ IF file[Current].version = Knows[p] THEN To(p, "open")
             ELSE opener' = [opener EXCEPT ![p].at = "upgrade", ![p].read = file[Current].version]
          /\ UNCHANGED runLock
  /\ overtaken' = (overtaken \/ \E q \in Openers : opener[q].at = "copy")
  /\ UNCHANGED <<taken, removed, restored, breaks>>

\* SCHEMA_V3: rows already there are numbered by when they started, and the counter goes on from there.
Number(rows) == {[r EXCEPT !.number = Cardinality({q \in rows : q.start < r.start \/ (q.start = r.start /\ q.id <= r.id)})] : r \in rows}

Upgraded(db, version, known) ==
  LET numbers_now == version < Numbered
      rows == IF numbers_now THEN Number(db.rows) ELSE db.rows
  IN  [db EXCEPT !.version = known, !.rows = rows, !.counter = IF numbers_now THEN Cardinality(rows) ELSE @,
                !.given = IF numbers_now THEN {r.number : r \in rows} ELSE @,
                !.applied = [v \in 1 .. known |-> (IF v \in DOMAIN @ THEN @[v] ELSE 0) + (IF v > version THEN 1 ELSE 0)]]

\* A plausible bug: the version read before the write lock decides which migrations run.
VersionUnderLock_Stale(p) == opener[p].read
VersionUnderLock(p) == file[Current].version

\* _migrate: BEGIN IMMEDIATE, the version read again, the missing migrations, COMMIT.
Upgrade(p) ==
  /\ opener[p].at = "upgrade"
  /\ LET version == VersionUnderLock(p)
     IN  IF version > Knows[p] THEN Refused(p) /\ UNCHANGED file
         ELSE /\ file' = [file EXCEPT ![Current] = Upgraded(@, version, Knows[p])]
              /\ opener' = [opener EXCEPT ![p].at = "open", ![p].read = 0] /\ UNCHANGED runLock
  /\ UNCHANGED <<taken, removed, restored, overtaken, breaks>>

----------------------------------------------------------------------------
(* Using it.                                                                 *)

Fresh == Cardinality(taken) + 1

\* An execution's row; next_number, which raises the counter, and the row.
Recorded(db, start, n) == [db EXCEPT !.given = @ \cup {n}, !.rows = @ \cup {[id |-> Fresh, start |-> start, number |-> n]}]
WithRow(db, start) == Recorded([db EXCEPT !.counter = @ + 1], start, db.counter + 1)

\* The same by an earlier program, which may be one that numbers no executions.
WithOldRow(db, start) ==
  IF db.version >= Numbered THEN WithRow(db, start)
  ELSE [db EXCEPT !.rows = @ \cup {[id |-> Fresh, start |-> start, number |-> 0]}]

\* A store that was replaced beneath its user may have no counters; a number that is used is refused by the index.
Writes(p) == opener[p].at = "open" /\ opener[p].mode # "browse" /\ file[Current].version >= Numbered
Unused(db, n) == \A r \in db.rows : r.number # n

\* A run's number, taken for good in a transaction of its own.
Reserve(p) ==
  /\ Writes(p) /\ opener[p].number = 0 /\ file[Current].counter < MaxRows
  /\ LET n == file[Current].counter + 1
     IN  /\ file' = [file EXCEPT ![Current].counter = n, ![Current].given = @ \cup {n}]
         /\ opener' = [opener EXCEPT ![p].number = n]
  /\ UNCHANGED <<runLock, taken, removed, restored, overtaken, breaks>>

\* The execution that reserved it starts, some steps later.
Insert(p, start) ==
  /\ Writes(p) /\ opener[p].number # 0 /\ Unused(file[Current], opener[p].number) /\ Fresh <= MaxRows
  /\ file' = [file EXCEPT ![Current] = Recorded(@, start, opener[p].number)]
  /\ opener' = [opener EXCEPT ![p].number = 0]
  /\ taken' = taken \cup {Fresh}
  /\ UNCHANGED <<runLock, removed, restored, overtaken, breaks>>

\* An execution a history import brings in with its old start takes its number with its row.
Import(p, start) ==
  /\ Writes(p) /\ Unused(file[Current], file[Current].counter + 1) /\ Fresh <= MaxRows
  /\ file' = [file EXCEPT ![Current] = WithRow(@, start)]
  /\ taken' = taken \cup {Fresh}
  /\ UNCHANGED <<opener, runLock, removed, restored, overtaken, breaks>>

\* Retention or a deletion removes a row.
Remove(p) ==
  /\ opener[p].at = "open" /\ opener[p].mode # "browse"
  /\ \E r \in file[Current].rows :
       /\ file' = [file EXCEPT ![Current].rows = @ \ {r}]
       /\ removed' = removed \cup {r.id}
  /\ breaks < MaxBreaks /\ breaks' = breaks + 1
  /\ UNCHANGED <<opener, runLock, taken, restored, overtaken>>

Close(p) ==
  /\ opener[p].at = "open" /\ Refused(p)
  /\ UNCHANGED <<file, taken, removed, restored, overtaken, breaks>>

\* The process dies at any step: its locks are given back, an open transaction is rolled back.
Dies(p) ==
  /\ opener[p].at \notin {"away", "open"} /\ breaks < MaxBreaks /\ breaks' = breaks + 1 /\ Refused(p)
  /\ UNCHANGED <<file, taken, removed, restored, overtaken>>

\* A server of the earlier program, which holds the same run lock while it records.
OldServer ==
  /\ \/ runLock = "free" /\ (\E f \in Legacy : file[f].exists) /\ runLock' = "old" /\ UNCHANGED <<file, taken>>
     \/ runLock = "old" /\ runLock' = "free" /\ UNCHANGED <<file, taken>>
     \/ /\ runLock = "old" /\ Fresh <= MaxRows /\ UNCHANGED runLock
        /\ \E f \in Candidates, start \in 1 .. 2 :
             file' = [file EXCEPT ![f] = WithOldRow(@, start)]
        /\ taken' = taken \cup {Fresh}
  /\ UNCHANGED <<opener, removed, restored, overtaken, breaks>>

(* A person: puts a database of the earlier program back, or, when both      *)
(* exist, moves aside the one the other holds every row of.                  *)
PutBack ==
  /\ breaks < MaxBreaks /\ breaks' = breaks + 1 /\ Fresh <= MaxRows
  /\ \E f \in Legacy :
       /\ ~file[f].exists
       /\ file' = [file EXCEPT ![f] = WithOldRow(OldFile, 1)]
  /\ taken' = taken \cup {Fresh} /\ restored' = TRUE
  /\ UNCHANGED <<opener, runLock, removed, overtaken>>

MoveAside ==
  /\ \A p \in Openers : opener[p] = Away
  /\ runLock = "free"
  /\ \E f, g \in DOMAIN file :
       /\ f # g /\ file[f].exists /\ file[g].exists /\ RowIds(f) \subseteq RowIds(g)
       /\ file' = [file EXCEPT ![f] = NoDatabase]
  /\ UNCHANGED <<opener, runLock, taken, removed, restored, overtaken, breaks>>

----------------------------------------------------------------------------
StateStart(legacy) ==
  /\ file = [f \in Legacy \cup {Current} |-> IF f \in legacy THEN OldFile ELSE NoDatabase]
  /\ opener = [p \in Openers |-> Away] /\ runLock = "free"
  /\ taken = {} /\ removed = {} /\ restored = FALSE /\ overtaken = FALSE /\ breaks = 0

StateInit == \E legacy \in SUBSET Legacy : StateStart(legacy)

OpenerStep(p) ==
  \/ \E mode \in {"run", "browse"} : Open(p, mode, FALSE)
  \/ Open(p, "write", TRUE)
  \/ CheckLegacy(p) \/ Recheck(p) \/ CreateTarget(p) \/ Backup(p) \/ BackupFails(p) \/ UnlinkLegacy(p)
  \/ TakeRunLock(p) \/ CreateFile(p) \/ Upgrade(p)
  \/ Reserve(p) \/ (\E start \in 1 .. 2 : Insert(p, start) \/ Import(p, start)) \/ Remove(p) \/ Close(p) \/ Dies(p)

StateNext == (\E p \in Openers : OpenerStep(p)) \/ OldServer \/ PutBack \/ MoveAside

StateSpec == StateInit /\ [][StateNext]_stateVars

----------------------------------------------------------------------------
StateTypeOK ==
  /\ \A f \in DOMAIN file : file[f].exists \in BOOLEAN /\ file[f].counter \in 0 .. MaxRows
  /\ runLock \in Openers \cup {"old", "free"} /\ taken \subseteq 1 .. MaxRows + 1

(* No committed row is lost: a database of the earlier name is removed only  *)
(* once the current one holds its rows, and a file created meanwhile is      *)
(* never overwritten, whoever starts, fails or dies at whichever step.       *)
RowsSurvive == ~overtaken => \A id \in taken \ removed : \E f \in DOMAIN file : id \in RowIds(f)

(* Nobody opens an empty database beside a legacy one: an open store shows   *)
(* every row, unless a person put an earlier database back beside it.        *)
OpenSeesAll ==
  \A p \in Openers : (opener[p].at = "open" /\ ~restored) => taken \ removed \subseteq RowIds(Current)

(* Each migration runs once on a file, in order up to its version, however   *)
(* many programs open it at once, and a newer schema is never taken back.    *)
MigratedOnce == \A f \in DOMAIN file : file[f].applied = [v \in 1 .. file[f].version |-> 1]

(* A database never gives an execution's number twice, also not after its    *)
(* row was removed, or the rows of an earlier program were numbered; only    *)
(* one whose file was overwritten beneath its users may count from behind.   *)
NumbersOnce ==
  \A f \in DOMAIN file : file[f].version >= Numbered =>
    /\ \A q, r \in file[f].rows : q.number = r.number => q = r
    /\ \A r \in file[f].rows : r.number \in file[f].given
    /\ (f = Current /\ overtaken) \/ \A n \in file[f].given : n <= file[f].counter

(* The number an execution reserved is its own until its row is written,     *)
(* whatever else is reserved, imported, upgraded or removed meanwhile: the   *)
(* unique index never refuses the row.                                       *)
ReservedIsOwn ==
  ~overtaken => \A p \in Openers : opener[p].number # 0 =>
    /\ Unused(file[Current], opener[p].number)
    /\ \A q \in Openers : opener[q].number = opener[p].number => q = p

StateKept == RowsSurvive /\ OpenSeesAll /\ MigratedOnce /\ NumbersOnce /\ ReservedIsOwn
=============================================================================
