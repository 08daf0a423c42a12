---------------------------- MODULE ResumeChain ----------------------------
(* Resumes, deletion and retention over the rows of the state store: a new    *)
(* entry continues an ended one at the run after the last that succeeded in   *)
(* its chain (services/queue_resume.py, resume_chain.py); a person deletes    *)
(* executions (history_delete.py, state/executions.py, state/store.py);       *)
(* whoever opens the store to run or to import prunes what is too old         *)
(* (Store.prune); `fc import-history` brings manifests back                   *)
(* (state/history_import.py).                                                 *)
(*                                                                            *)
(* The worker is the one of QueueWorker, reduced to the transactions the      *)
(* others can see.  Of a time only whether it is past the retention matters.  *)
EXTENDS Naturals, FiniteSets, Sequences

CONSTANTS
  NumEntries,     \* bound: queue numbers given out
  LastJob,        \* bound: the last number given to a submission, not a resume
  NumExecs,       \* bound: execution numbers given out
  TotalRuns,      \* the job's runs
  Clients,        \* API threads
  MaxOutside,     \* bound: crashes, passings of the retention and imports
  PruneWhileDown  \* whether a store is pruned between a crash and the recovery

ASSUME ResumeAssumption ==
  /\ NumEntries \in Nat /\ LastJob \in Nat /\ NumExecs \in Nat /\ TotalRuns \in Nat \ {0}
  /\ MaxOutside \in Nat /\ PruneWhileDown \in BOOLEAN

None == 0
EntryIds == 1 .. NumEntries
Execs == 1 .. NumExecs

VARIABLES
  entry,     \* the queue table
  execu,     \* the executions table, with the last succeeded run of each
  files,     \* the manifest each execution wrote: its state and its age
  nextE, nextX,   \* the counters: numbers are never given twice
  host,      \* "up", or "down" between a crash and the recovery
  outside,   \* crashes, passings of the retention and imports so far
  api,       \* per client: a resume or a deletion, under the submission lock
  pruner,    \* the three statements of Store.prune
  importer,  \* the manifest an import has read
  done,      \* history: the runs that succeeded, per first entry of a chain
  gone       \* history: manifests whose execution was deleted or pruned

rowVars == <<entry, execu, files>>
numVars == <<nextE, nextX, host, outside>>
sideVars == <<api, pruner, importer>>
ghosts == <<done, gone>>
vars == <<rowVars, numVars, sideVars, ghosts>>

Ended == {"succeeded", "failed", "cancelled", "interrupted", "parked"}
Active == {"queued", "running"}
ResumableStates == {"interrupted", "failed", "cancelled", "parked"}

AbsentEntry ==
  [state |-> "absent", link |-> None, resumes |-> None, source |-> None, from |-> 1, root |-> None,
   old |-> FALSE, after |-> 0]
NoExec == [status |-> "none", last |-> 0, old |-> FALSE, key |-> None, stamp |-> 0]
NoFile == [what |-> "none", old |-> FALSE]
Idle == [op |-> "idle", e |-> None, source |-> None, from |-> 1, root |-> None, deleted |-> {}, ended |-> {}]
NoPrune == [step |-> "idle", entries |-> {}, execs |-> {}]
NoImport == [key |-> None, what |-> "none", old |-> FALSE]

Existing == {e \in EntryIds : entry[e].state # "absent"}
Exists(x) == x # None /\ execu[x].status # "none"
ResumedBy(e) == {d \in Existing : entry[d].resumes = e}

------------------------------------------------------------------------------
(* walk_chain: from an entry back through the ones it resumes, to the first   *)
(* whose execution has a succeeded run, or to the chain's first.  reads: the  *)
(* executions met; point: the one it ended at; ok: whether nothing was gone.  *)

Walk(broken, e0) ==
  LET w[e \in EntryIds] ==
        LET row == entry[e]
            met == IF Exists(row.link) THEN {row.link} ELSE {}
        IN  IF e \in broken THEN [reads |-> {}, point |-> None, ok |-> FALSE]
            ELSE IF met # {} /\ execu[row.link].last > 0
              THEN [reads |-> met, point |-> row.link, ok |-> TRUE]
            ELSE IF row.resumes = None
              THEN [reads |-> met, point |-> None, ok |-> TRUE]
            ELSE IF entry[row.resumes].state = "absent"
              THEN [reads |-> met, point |-> None, ok |-> FALSE]
            ELSE [w[row.resumes] EXCEPT !.reads = @ \cup met]
  IN  w[e0]

\* _linked_execution: a link whose row is gone ends the walk of a resume.
LinkGone(e) == entry[e].link # None /\ ~Exists(entry[e].link)

\* _chain.linked: a running entry links its number before its row exists.
LinkBroken(e) == LinkGone(e) /\ entry[e].state \notin Active

Chain(e) == Walk({d \in EntryIds : LinkGone(d)}, e)
DeletionChain(e) == Walk({d \in EntryIds : LinkBroken(d)}, e)

\* _resolve_chain: some run succeeded, and some run is left.
PointLeft(point) == point # None /\ execu[point].last < TotalRuns

\* resume_entry and preview_resume: what they refuse.  (Files are taken to exist.)
Resumable(e) ==
  /\ entry[e].state \in ResumableStates
  /\ ResumedBy(e) = {}
  /\ Chain(e).ok /\ PointLeft(Chain(e).point)

------------------------------------------------------------------------------
(* The worker and the rows it writes.                                         *)

NewEntry(resumes, source, from, root) ==
  /\ nextE <= NumEntries
  /\ nextE' = nextE + 1
  /\ entry' = [entry EXCEPT ![nextE] =
       [state |-> "queued", link |-> None, resumes |-> resumes, source |-> source, from |-> from,
        root |-> root, old |-> FALSE, after |-> 0]]

Submit ==
  /\ host = "up" /\ nextE <= LastJob /\ NewEntry(None, None, 1, nextE)
  /\ UNCHANGED <<execu, files, nextX, host, outside, sideVars, ghosts>>

\* The execution that ended last: the one before the running entry's, or the last.
LastEnded ==
  LET running == {d \in EntryIds : entry[d].state = "running"}
  IN  IF running = {} THEN nextX - 1 ELSE entry[CHOOSE d \in running : TRUE].link - 1

CancelQueued(e) ==
  /\ host = "up" /\ entry[e].state = "queued"
  /\ entry' = [entry EXCEPT ![e].state = "cancelled", ![e].after = LastEnded]
  /\ UNCHANGED <<execu, files, nextE, nextX, host, outside, sideVars, ghosts>>

\* claim_oldest, and the reserved number linked before the job starts.
Claim(e) ==
  /\ host = "up" /\ nextX <= NumExecs
  /\ \A d \in EntryIds : entry[d].state # "running"
  /\ entry[e].state = "queued"
  /\ \A d \in EntryIds : entry[d].state = "queued" => e <= d
  /\ entry' = [entry EXCEPT ![e].state = "running", ![e].link = nextX]
  /\ nextX' = nextX + 1
  /\ UNCHANGED <<execu, files, nextE, host, outside, sideVars, ghosts>>

\* _fail_to_start: finish(clear_link=True).
FailToStart(e) ==
  /\ host = "up" /\ entry[e].state = "running" /\ ~Exists(entry[e].link)
  /\ entry' = [entry EXCEPT ![e].state = "failed", ![e].link = None, ![e].after = entry[e].link]
  /\ UNCHANGED <<execu, files, nextE, nextX, host, outside, sideVars, ghosts>>

\* JobStarted: the recorder's row, then the first save of the manifest.
StartJob(e) ==
  LET x == entry[e].link IN
  /\ host = "up" /\ entry[e].state = "running" /\ execu[x].status = "none"
  /\ execu' = [execu EXCEPT ![x] = [NoExec EXCEPT !.status = "running", !.key = x, !.stamp = x]]
  /\ files' = [files EXCEPT ![x] = [what |-> "running", old |-> FALSE]]
  /\ UNCHANGED <<entry, numVars, sideVars, ghosts>>

\* The run the execution of entry e is at.
Run(e) == IF execu[entry[e].link].last = 0 THEN entry[e].from ELSE execu[entry[e].link].last + 1
Working(e) == entry[e].state = "running" /\ Exists(entry[e].link) /\ execu[entry[e].link].status = "running"

RunSucceeds(e) ==
  /\ host = "up" /\ Working(e) /\ Run(e) <= TotalRuns
  /\ execu' = [execu EXCEPT ![entry[e].link].last = Run(e)]
  /\ done' = [done EXCEPT ![entry[e].root] = Append(@, Run(e))]
  /\ UNCHANGED <<entry, files, numVars, sideVars, gone>>

\* JobFinished: the recorder closes the execution, the manifest is saved.
FinishJob(e, status) ==
  LET x == entry[e].link IN
  /\ host = "up" /\ Working(e)
  /\ status = "succeeded" <=> Run(e) > TotalRuns
  /\ status = "parked" => execu[x].last > 0
  /\ execu' = [execu EXCEPT ![x].status = status]
  /\ files' = [files EXCEPT ![x] = [what |-> "final", old |-> FALSE]]
  /\ UNCHANGED <<entry, nextE, nextX, host, outside, sideVars, ghosts>>

\* The finisher: an interrupted job is a cancelled entry, or a failed one.
FinishEntry(e, state) ==
  LET x == entry[e].link IN
  /\ host = "up" /\ entry[e].state = "running" /\ Exists(x) /\ execu[x].status # "running"
  /\ state = execu[x].status \/ (execu[x].status = "interrupted" /\ state \in {"cancelled", "failed"})
  /\ entry' = [entry EXCEPT ![e].state = state]
  /\ UNCHANGED <<execu, files, nextE, nextX, host, outside, sideVars, ghosts>>

Crash ==
  /\ host = "up" /\ outside < MaxOutside
  /\ host' = "down" /\ outside' = outside + 1
  /\ api' = [c \in Clients |-> Idle]
  /\ UNCHANGED <<rowVars, nextE, nextX, pruner, importer, ghosts>>

\* sweep_interrupted: no runner is alive.
Swept == [x \in Execs |-> IF execu[x].status = "running"
                          THEN [execu[x] EXCEPT !.status = "interrupted"] ELSE execu[x]]

\* _recover_entry: to what its execution shows, with the execution's own time.
Recovered(row) ==
  IF row.state # "running" THEN row
  ELSE IF Exists(row.link)
    THEN [row EXCEPT !.state = Swept[row.link].status, !.old = Swept[row.link].old]
  ELSE [row EXCEPT !.state = "queued", !.link = None]

\* recover_queue: executions first, then each running entry.
Recover ==
  /\ host = "down" /\ host' = "up"
  /\ execu' = Swept
  /\ entry' = [e \in EntryIds |-> Recovered(entry[e])]
  /\ UNCHANGED <<files, nextE, nextX, outside, sideVars, ghosts>>

------------------------------------------------------------------------------
(* The API: a resume and a deletion, each under the submission lock.          *)

\* Mutant: the requests do not exclude each other.
LockFree_Own(c) == api[c] = Idle

LockFree(c) == \A d \in Clients : api[d] = Idle

\* resume_entry up to the insert: every check, and the resume point.
ResumeChecked(c, e) ==
  /\ host = "up" /\ LockFree(c) /\ Resumable(e)
  /\ api' = [api EXCEPT ![c] = [Idle EXCEPT !.op = "resume", !.e = e, !.root = entry[e].root, !.source = Chain(e).point,
                                            !.from = execu[Chain(e).point].last + 1]]
  /\ UNCHANGED <<rowVars, numVars, pruner, importer, ghosts>>

\* enqueue(store.queue.submit(new)), under the worker's lock.
ResumeInserted(c) ==
  /\ host = "up" /\ api[c].op = "resume"
  /\ NewEntry(api[c].e, api[c].source, api[c].from, api[c].root)
  /\ api' = [api EXCEPT ![c] = Idle]
  /\ UNCHANGED <<execu, files, nextX, host, outside, pruner, importer, ghosts>>

\* Mutant: only the executions of the active entries themselves are in use.
InUse_Own ==
  {entry[e].link : e \in {d \in Existing : entry[d].state \in Active}}

\* _in_use: the executions of active entries, those they resume, and those read between.
InUse ==
  LET active == {e \in Existing : entry[e].state \in Active}
  IN  {entry[e].link : e \in active} \cup {entry[e].source : e \in active}
      \cup UNION {DeletionChain(e).reads : e \in active}

\* _ended: each entry a resume would accept now whose chain reads one of them.
EndedBy(numbers) ==
  {e \in Existing : /\ entry[e].state \in ResumableStates /\ ResumedBy(e) = {}
                    /\ DeletionChain(e).ok /\ PointLeft(DeletionChain(e).point)
                    /\ DeletionChain(e).reads \cap numbers # {}}

\* ExecutionRepository.delete: never a missing, running or in-use one.
Deletable(x) == execu[x].status \notin {"none", "running"} /\ x \notin InUse

\* The check and the transaction, under the worker's lock.
DeleteRows(c, numbers) ==
  LET deleted == {x \in numbers : Deletable(x)}
  IN
  /\ host = "up" /\ LockFree(c) /\ deleted # {}
  /\ execu' = [x \in Execs |-> IF x \in deleted THEN NoExec ELSE execu[x]]
  /\ api' = [api EXCEPT ![c] = [Idle EXCEPT !.op = "delete", !.ended = EndedBy(deleted),
                                            !.deleted = {execu[x].key : x \in deleted}]]
  /\ UNCHANGED <<entry, files, numVars, pruner, importer, ghosts>>

\* Manifests an import is about to insert, or has inserted.
InHand == {importer.key} \cup {execu[x].key : x \in Execs}

\* Mutant: only the log is deleted.
DeleteFiles_LogOnly(c, kept) ==
  /\ host = "up" /\ api[c].op = "delete"
  /\ gone' = gone \cup ((api[c].deleted \ kept) \ InHand)
  /\ api' = [api EXCEPT ![c] = Idle]
  /\ UNCHANGED <<rowVars, numVars, pruner, importer, done>>

\* _delete_manifest: a link, another file or a refused one stays.
FilesLeft(deleted, kept) ==
  [k \in Execs |-> IF k \in deleted \ kept THEN NoFile ELSE files[k]]

\* delete_execution_files, after the worker's lock: a manifest may stay (kept).
DeleteFiles(c, kept) ==
  /\ host = "up" /\ api[c].op = "delete"
  /\ files' = FilesLeft(api[c].deleted, kept)
  /\ gone' = gone \cup ((api[c].deleted \ kept) \ InHand)
  /\ api' = [api EXCEPT ![c] = Idle]
  /\ UNCHANGED <<entry, execu, numVars, pruner, importer, done>>

------------------------------------------------------------------------------
(* Retention: Store.prune, in three statements, by any process.               *)

\* When an entry ended, by the executions: with its own, or after which one.
EndOf(row) == IF row.link = None THEN row.after ELSE row.link

\* Time passes the retention of all that ended up to execution n (with its entry
\* or not yet: the entry ended after it).  Retention is in days, so no request,
\* import or prune is under way meanwhile, nor is the worker between two steps.
Age(n, last) ==
  /\ pruner = NoPrune /\ importer = NoImport /\ \A c \in Clients : api[c] = Idle
  /\ host = "up" => \A e \in Existing : entry[e].state = "running" => Working(e)
  /\ execu' = [x \in Execs |-> IF execu[x].status \notin {"none", "running"} /\ execu[x].stamp <= n
                               THEN [execu[x] EXCEPT !.old = TRUE] ELSE execu[x]]
  /\ files' = [k \in Execs |-> IF files[k].what # "none" /\ k <= n
                               THEN [files[k] EXCEPT !.old = TRUE] ELSE files[k]]
  /\ entry' = [e \in EntryIds |-> IF entry[e].state \in Ended
                                    /\ (EndOf(entry[e]) < n \/ (last /\ EndOf(entry[e]) = n))
                                 THEN [entry[e] EXCEPT !.old = TRUE] ELSE entry[e]]
  /\ rowVars' # rowVars
  /\ outside < MaxOutside /\ outside' = outside + 1
  /\ UNCHANGED <<nextE, nextX, host, sideVars, ghosts>>

\* Entries of the chain of resumes below p, p included.
Below(p) ==
  LET b[e \in EntryIds] == e = p \/ (entry[e].resumes # None /\ entry[e].state # "absent"
                                    /\ entry[e].resumes < e /\ b[entry[e].resumes])
  IN  {e \in Existing : b[e]}

\* Mutant: the parked entry is kept, its resumes are not.
KeptParked_NoResumes == {p \in Existing : entry[p].state = "parked"}

\* kept_parked: a parked entry and the resumes below it, until one of those has
\* a succeeded run, or an execution that is gone.
KeptParked ==
  LET moved(p) == \E e \in Below(p) \ {p} : Exists(entry[e].link) /\ execu[entry[e].link].last > 0
      broken(p) == \E e \in Below(p) : LinkBroken(e)
  IN  UNION {Below(p) : p \in {q \in Existing : entry[q].state = "parked" /\ ~moved(q) /\ ~broken(q)}}

PruneRead ==
  /\ pruner.step = "idle" /\ (host = "up" \/ PruneWhileDown)
  /\ \/ \E e \in Existing : entry[e].old
     \/ \E x \in Execs : execu[x].old
  /\ pruner' = [step |-> "execs", entries |-> KeptParked,
                execs |-> {entry[e].link : e \in KeptParked}]
  /\ UNCHANGED <<rowVars, numVars, api, importer, ghosts>>

PruneExecs ==
  LET pruned == {x \in Execs : execu[x].old /\ x \notin pruner.execs}
  IN
  /\ pruner.step = "execs" /\ (host = "up" \/ PruneWhileDown)
  /\ execu' = [x \in Execs |-> IF x \in pruned THEN NoExec ELSE execu[x]]
  /\ gone' = gone \cup ({execu[x].key : x \in pruned} \ {importer.key})
  /\ pruner' = [pruner EXCEPT !.step = "rows"]
  /\ UNCHANGED <<entry, files, numVars, api, importer, done>>

PruneRows ==
  /\ pruner.step = "rows"
  /\ entry' = [e \in EntryIds |-> IF entry[e].old /\ e \notin pruner.entries
                                 THEN AbsentEntry ELSE entry[e]]
  /\ pruner' = NoPrune
  /\ UNCHANGED <<execu, files, numVars, api, importer, ghosts>>

------------------------------------------------------------------------------
(* import_history, one manifest at a time.                                    *)

ImportRead(k) ==
  /\ importer = NoImport /\ files[k].what # "none" /\ nextX <= NumExecs
  /\ importer' = [key |-> k, what |-> files[k].what, old |-> files[k].old]
  /\ outside < MaxOutside /\ outside' = outside + 1
  /\ UNCHANGED <<rowVars, nextE, nextX, host, api, pruner, ghosts>>

\* A manifest left 'running' has no end: it is judged by its start.
Expired(m) == m.old

\* _convert: a manifest left 'running' ends now, closed as the sweep closes its row; which of the closed statuses
\* another one has, and its runs, nothing asks: no entry links an imported execution.
Imported(m) ==
  [NoExec EXCEPT !.status = "interrupted", !.key = m.key, !.stamp = IF m.what = "final" THEN m.key ELSE nextX]

\* has_manifest, the retention cutoff, and import_execution under a new number.
ImportInsert ==
  LET k == importer.key
      take == ~Expired(importer) /\ \A x \in Execs : execu[x].key # k
  IN
  /\ k # None /\ nextX <= NumExecs
  /\ importer' = NoImport
  /\ execu' = IF take
              THEN [execu EXCEPT ![nextX] = Imported(importer)]
              ELSE execu
  /\ nextX' = IF take THEN nextX + 1 ELSE nextX
  /\ UNCHANGED <<entry, files, nextE, host, outside, api, pruner, ghosts>>

------------------------------------------------------------------------------

Init ==
  /\ entry = [e \in EntryIds |-> AbsentEntry]
  /\ execu = [x \in Execs |-> NoExec]
  /\ files = [x \in Execs |-> NoFile]
  /\ nextE = 1 /\ nextX = 1 /\ host = "up" /\ outside = 0
  /\ api = [c \in Clients |-> Idle] /\ pruner = NoPrune /\ importer = NoImport
  /\ done = [e \in EntryIds |-> <<>>] /\ gone = {}

Next ==
  \/ Submit \/ Crash \/ Recover \/ PruneRead \/ PruneExecs \/ PruneRows \/ ImportInsert
  \/ \E e \in EntryIds : CancelQueued(e) \/ Claim(e) \/ FailToStart(e) \/ StartJob(e) \/ RunSucceeds(e)
  \/ \E e \in EntryIds, s \in {"succeeded", "failed", "interrupted", "parked"} : FinishJob(e, s)
  \/ \E e \in EntryIds, s \in Ended : FinishEntry(e, s)
  \/ \E c \in Clients : ResumeInserted(c) \/ \E e \in EntryIds : ResumeChecked(c, e)
  \/ \E c \in Clients, xs \in SUBSET Execs : DeleteRows(c, xs)
  \/ \E c \in Clients : DeleteFiles(c, {}) \/ DeleteFiles(c, api[c].deleted)
  \/ \E n \in Execs, last \in BOOLEAN : Age(n, last)
  \/ \E k \in Execs : ImportRead(k)

Spec == Init /\ [][Next]_vars

------------------------------------------------------------------------------
(* Properties.                                                                *)

\* Through any number of resumes, failed starts, crashes and recoveries, with
\* deletions and retention in between, the runs of a chain are made once each
\* and in order: a resume starts right after the last run that succeeded.
ChainRunsOnce ==
  \A r \in EntryIds : done[r] = [i \in 1 .. Len(done[r]) |-> i]

\* No two resumes of one entry are accepted, whatever the requests' timing
\* (the check and the insert are apart; the column has no unique index).  Once
\* retention has taken the resume's own row, the entry may be resumed again.
NeverResumedTwice ==
  \A e \in EntryIds : Cardinality(ResumedBy(e)) <= 1

\* A deletion reports exactly the entries that could be resumed before it and
\* cannot after it, and leaves what a queued or running entry was told as it is.
DeletionTold ==
  [][(\E c \in Clients : api[c].op # "delete" /\ api'[c].op = "delete") =>
       /\ UNION {api'[c].ended : c \in Clients} = {e \in Existing : Resumable(e) /\ ~Resumable(e)'}
       /\ \A e \in Existing : entry[e].state \in Active =>
            DeletionChain(e)' = DeletionChain(e)]_vars

\* What a person deleted, or retention pruned, does not come back through an
\* import that began after it: its manifest is gone, or too old to be taken.
GoneStaysGone ==
  \A x \in Execs : Exists(x) => execu[x].key \notin gone

\* The runs of a chain are made once each and in order, no entry is resumed
\* twice, and an execution that was deleted or pruned does not come back.
ResumesOnce == ChainRunsOnce /\ NeverResumedTwice /\ GoneStaysGone
==============================================================================
