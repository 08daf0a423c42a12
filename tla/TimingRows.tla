----------------------------- MODULE TimingRows -----------------------------
(* The timing rows of the state database (state/timing.py): the worker       *)
(* writes them as it runs jobs and reads them back as the history a forecast *)
(* rests on (services/timing_history.py), while another process imports the  *)
(* rows of old logs (state/timing_import.py) and a person deletes            *)
(* executions.  The worker is one thread: it reads the history before an     *)
(* entry's job starts.  Every query is a step of its own; a transaction is   *)
(* one step.                                                                 *)
EXTENDS Integers, Sequences, FiniteSets, FiniteSetsExt, SequencesExt

CONSTANTS
  OldJobs,      \* executions recorded before runs were timed
  MaxJobs,      \* bound: executions ever, the old ones included
  RunsPerJob,   \* bound: runs of an execution
  StageCount,   \* the stages of a run that succeeds
  PageSize,     \* PAGE of the import
  MaxLost,      \* bound: timing writes that fail
  MaxDeaths,    \* bound: deaths of the worker, and of an import
  MaxImports,   \* bound: imports started
  MaxDeleted    \* bound: executions deleted

VARIABLES
  jobs,      \* the executions by number: their status, their runs, and whether the log still exists
  timing,    \* run_timing and run_stages: fidelity, complete, and how many stages, by execution and run
  worker,    \* what the worker's thread is doing
  fitted,    \* TimingHistory's _mark and the rows its model was made of
  importer,  \* the import: where it is, its page and offset, and the runs it has still to keep
  spent,     \* the bounds' counters
  wasLive,   \* the runs a live row was ever written for
  wasLost,   \* the runs of which a write failed
  wasCut,    \* the executions an import died in
  removed,   \* whether an execution was deleted since the cached rows' mark was read
  due        \* what the import has to cover: set when it starts, emptied by a deletion
timingRowVars == <<jobs, timing, worker, fitted, importer, spent, wasLive, wasLost, wasCut, removed, due>>

Numbers == 1..MaxJobs
Here == {e \in Numbers : jobs[e].status \notin {"none", "deleted"}}
Over(e) == jobs[e].status = "over"
RunsOf(e) == DOMAIN jobs[e].runs
HasTiming(e) == \E r \in RunsOf(e) : <<e, r>> \in DOMAIN timing
Put(pair, row) == [p \in DOMAIN timing \cup {pair} |-> IF p = pair THEN row ELSE timing[p]]

\* complete_runs, and completion_mark: how many there are, and the newest.
CompleteRows == {p \in DOMAIN timing : timing[p].complete}
Newer(p, q) == p[1] > q[1] \/ (p[1] = q[1] /\ p[2] >= q[2])
NewestPair(pairs) == IF pairs = {} THEN <<0, 0>> ELSE CHOOSE p \in pairs : \A q \in pairs : Newer(p, q)
Mark == <<Cardinality(CompleteRows), NewestPair(CompleteRows)>>
NoModel == [mark |-> <<-1, <<0, 0>>>>, rows |-> <<>>]
NoWork == [doing |-> "idle", job |-> 0, count |-> 0, mark |-> <<0, <<0, 0>>>>, heads |-> {}, deleted |-> FALSE]
NoImport == [doing |-> "none", offset |-> 0, page |-> <<>>, running |-> {}, on |-> 0, keep |-> <<>>]

----------------------------------------------------------------------------
(* The worker: JobRecorder keeps what a run's events say.                    *)

\* A write of timing may fail, and is skipped: the run's others are still tried.
TimingWrite(pair, kept) ==
  \/ timing' = kept /\ UNCHANGED <<spent, wasLost>>
  \/ /\ spent.lost < MaxLost
     /\ spent' = [spent EXCEPT !.lost = @ + 1]
     /\ wasLost' = wasLost \cup {pair} /\ UNCHANGED timing

Running == worker.doing = "run"
Job == jobs[worker.job]
Current == <<worker.job, Len(Job.runs)>>
RunTimed == Running /\ Job.runs # <<>> /\ Last(Job.runs).status \in {"timed", "ending"}
WithRun(run) == [jobs EXCEPT ![worker.job].runs[Len(Job.runs)] = run]

StartJob ==
  /\ worker.doing = "ready"
  /\ \E e \in Numbers :
       /\ jobs[e].status = "none" /\ \A n \in 1..e - 1 : jobs[n].status # "none"
       /\ jobs' = [jobs EXCEPT ![e] = [status |-> "running", runs |-> <<>>, log |-> TRUE]]
       /\ worker' = [NoWork EXCEPT !.doing = "run", !.job = e]
  /\ UNCHANGED <<timing, fitted, importer, spent, wasLive, wasLost, wasCut, removed, due>>

\* RunStarted has inserted the run's row, and its output goes to the log.
RunStarted ==
  /\ Running /\ Len(Job.runs) < RunsPerJob
  /\ Job.runs # <<>> => Last(Job.runs).status = "succeeded"
  /\ jobs' = [jobs EXCEPT ![worker.job].runs = Append(@, [status |-> "started", stages |-> 0])]
  /\ UNCHANGED <<timing, worker, fitted, importer, spent, wasLive, wasLost, wasCut, removed, due>>

TimingStarted ==
  /\ Running /\ Job.runs # <<>> /\ Last(Job.runs).status = "started"
  /\ jobs' = WithRun([Last(Job.runs) EXCEPT !.status = "timed"])
  /\ LET had == IF Current \in DOMAIN timing THEN timing[Current].stages ELSE 0
     IN  TimingWrite(Current, Put(Current, [fidelity |-> "live", complete |-> FALSE, stages |-> had]))
  /\ wasLive' = wasLive \cup {Current}
  /\ UNCHANGED <<worker, fitted, importer, wasCut, removed, due>>

\* A span's row needs no timing row: run_stages refers to the execution alone.  It is only read with one.
StageFinished ==
  /\ RunTimed /\ Last(Job.runs).status = "timed" /\ Last(Job.runs).stages < StageCount
  /\ jobs' = WithRun([Last(Job.runs) EXCEPT !.stages = @ + 1])
  /\ TimingWrite(Current, IF Current \in DOMAIN timing THEN [timing EXCEPT ![Current].stages = @ + 1] ELSE timing)
  /\ UNCHANGED <<worker, fitted, importer, wasLive, wasCut, removed, due>>

TimingFinished(complete) ==
  /\ RunTimed /\ Last(Job.runs).status = "timed"
  /\ complete => Last(Job.runs).stages = StageCount
  /\ jobs' = WithRun([Last(Job.runs) EXCEPT !.status = IF complete THEN "ending" ELSE "failed"])
  /\ TimingWrite(Current, IF Current \in DOMAIN timing THEN [timing EXCEPT ![Current].complete = complete] ELSE timing)
  /\ UNCHANGED <<worker, fitted, importer, wasLive, wasCut, removed, due>>

\* The run's record says it succeeded only after its timing does.
RunFinished ==
  /\ RunTimed /\ Last(Job.runs).status = "ending"
  /\ jobs' = WithRun([Last(Job.runs) EXCEPT !.status = "succeeded"])
  /\ UNCHANGED <<timing, worker, fitted, importer, spent, wasLive, wasLost, wasCut, removed, due>>

EndJob ==
  /\ Running /\ (Job.runs # <<>> => Last(Job.runs).status \in {"succeeded", "failed"})
  /\ jobs' = [jobs EXCEPT ![worker.job].status = "over"]
  /\ worker' = NoWork
  /\ UNCHANGED <<timing, fitted, importer, spent, wasLive, wasLost, wasCut, removed, due>>

\* The process dies with its model; the next one finds the execution running and ends it.
WorkerDies ==
  /\ worker.doing # "dead" /\ spent.deaths < MaxDeaths
  /\ spent' = [spent EXCEPT !.deaths = @ + 1]
  /\ worker' = [NoWork EXCEPT !.doing = "dead"] /\ fitted' = NoModel
  /\ UNCHANGED <<jobs, timing, importer, wasLive, wasLost, wasCut, removed, due>>
WorkerRecovers ==
  /\ worker.doing = "dead" /\ worker' = NoWork
  /\ jobs' = [e \in Numbers |-> IF jobs[e].status = "running" THEN [jobs[e] EXCEPT !.status = "over"] ELSE jobs[e]]
  /\ UNCHANGED <<timing, fitted, importer, spent, wasLive, wasLost, wasCut, removed, due>>

----------------------------------------------------------------------------
(* TimingHistory.model, under its own lock alone: the mark's two queries and *)
(* the rows' two queries see the store at four moments.                      *)

ReadCount ==
  /\ worker.doing = "idle"
  /\ worker' = [NoWork EXCEPT !.doing = "newest", !.count = Cardinality(CompleteRows)]
  /\ UNCHANGED <<jobs, timing, fitted, importer, spent, wasLive, wasLost, wasCut, removed, due>>
MarkRead == <<worker.count, NewestPair(CompleteRows)>>
ReadNewest ==
  /\ worker.doing = "newest"
  /\ worker' = IF fitted.mark = MarkRead THEN [NoWork EXCEPT !.doing = "ready"]
               ELSE [NoWork EXCEPT !.doing = "heads", !.mark = MarkRead]
  /\ UNCHANGED <<jobs, timing, fitted, importer, spent, wasLive, wasLost, wasCut, removed, due>>
ReadHeads ==
  /\ worker.doing = "heads"
  /\ worker' = [worker EXCEPT !.doing = "stages", !.heads = CompleteRows]
  /\ UNCHANGED <<jobs, timing, fitted, importer, spent, wasLive, wasLost, wasCut, removed, due>>
\* A head whose stages have gone keeps none; stages without a head are left out.
ReadStages ==
  /\ worker.doing = "stages"
  /\ fitted' = [mark |-> worker.mark, rows |-> [p \in worker.heads |-> IF p \in CompleteRows THEN timing[p].stages ELSE 0]]
  /\ worker' = [NoWork EXCEPT !.doing = "ready"] /\ removed' = worker.deleted
  /\ UNCHANGED <<jobs, timing, importer, spent, wasLive, wasLost, wasCut, due>>

----------------------------------------------------------------------------
(* The import, one process at a time.                                        *)

Listed == SetToSortSeq(Here, LAMBDA a, b : a > b)

ImportStarts ==
  /\ importer.doing \in {"none", "done", "failed"} /\ spent.imports < MaxImports
  /\ importer' = [NoImport EXCEPT !.doing = "page"]
  /\ spent' = [spent EXCEPT !.imports = @ + 1]
  /\ due' = {e \in Here : Over(e) /\ ~HasTiming(e) /\ jobs[e].log /\ jobs[e].runs # <<>>}
  /\ UNCHANGED <<jobs, timing, worker, fitted, wasLive, wasLost, wasCut, removed>>

\* A page, newest first, from the offset on; an execution's status is the page's from here.
ImportPage ==
  /\ importer.doing = "page"
  /\ LET page == SubSeq(Listed, importer.offset + 1, Min({importer.offset + PageSize, Len(Listed)}))
     IN  importer' = IF page = <<>> THEN [NoImport EXCEPT !.doing = "done"]
                     ELSE [importer EXCEPT !.doing = "look", !.page = page, !.offset = @ + Len(page),
                                           !.running = {e \in ToSet(page) : jobs[e].status = "running"}]
  /\ UNCHANGED <<jobs, timing, worker, fitted, spent, wasLive, wasLost, wasCut, removed, due>>

NextOf(i) == IF i.page = <<>> THEN [i EXCEPT !.doing = "page", !.on = 0] ELSE [i EXCEPT !.doing = "look", !.on = 0]

\* A plausible bug: the log of an execution that still runs is read too.
Unusable_Running(e) == HasTiming(e) \/ ~jobs[e].log
Unusable(e) == HasTiming(e) \/ e \in importer.running \/ ~jobs[e].log
ImportLook ==
  /\ importer.doing = "look"
  /\ LET e == Head(importer.page)
         rest == [importer EXCEPT !.page = Tail(@)]
     IN  importer' = IF Unusable(e) THEN NextOf(rest) ELSE [rest EXCEPT !.doing = "read", !.on = e]
  /\ UNCHANGED <<jobs, timing, worker, fitted, spent, wasLive, wasLost, wasCut, removed, due>>

\* The execution and its runs, as they are when its log has been read: one deleted since stops the import.
ImportRead ==
  /\ importer.doing = "read"
  /\ importer' = IF importer.on \notin Here THEN [importer EXCEPT !.doing = "failed"]
                 ELSE IF jobs[importer.on].runs = <<>> THEN NextOf(importer)
                 ELSE [importer EXCEPT !.doing = "keep", !.keep = [r \in RunsOf(importer.on) |-> jobs[importer.on].runs[r].status = "succeeded"]]
  /\ UNCHANGED <<jobs, timing, worker, fitted, spent, wasLive, wasLost, wasCut, removed, due>>

\* replace_run: the row and its spans in one transaction, a run at a time.  No execution, no row.
ImportKeep ==
  /\ importer.doing = "keep"
  /\ IF importer.on \notin Here
     THEN importer' = [importer EXCEPT !.doing = "failed"] /\ UNCHANGED timing
     ELSE LET r == Len(jobs[importer.on].runs) - Len(importer.keep) + 1
              kept == Tail(importer.keep)
          IN  /\ timing' = Put(<<importer.on, r>>, [fidelity |-> "log", complete |-> Head(importer.keep), stages |-> jobs[importer.on].runs[r].stages])
              /\ importer' = IF kept = <<>> THEN NextOf([importer EXCEPT !.keep = <<>>]) ELSE [importer EXCEPT !.keep = kept]
  /\ UNCHANGED <<jobs, worker, fitted, spent, wasLive, wasLost, wasCut, removed, due>>

ImportDies ==
  /\ importer.doing \in {"page", "look", "read", "keep"} /\ spent.deaths < MaxDeaths
  /\ spent' = [spent EXCEPT !.deaths = @ + 1]
  /\ importer' = [importer EXCEPT !.doing = "failed"]
  /\ wasCut' = IF importer.doing = "keep" THEN wasCut \cup {importer.on} ELSE wasCut
  /\ UNCHANGED <<jobs, timing, worker, fitted, wasLive, wasLost, removed, due>>

----------------------------------------------------------------------------
(* Deletion and retention: an execution's rows go with it, its log after it. *)

DeleteJob(e) ==
  /\ e \in Here /\ Over(e) /\ spent.deleted < MaxDeleted
  /\ spent' = [spent EXCEPT !.deleted = @ + 1]
  /\ jobs' = [jobs EXCEPT ![e].status = "deleted"]
  /\ timing' = [p \in {q \in DOMAIN timing : q[1] # e} |-> timing[p]]
  /\ removed' = TRUE /\ due' = {}
  /\ worker' = IF worker.doing \in {"newest", "heads", "stages"} THEN [worker EXCEPT !.deleted = TRUE] ELSE worker
  /\ UNCHANGED <<fitted, importer, wasLive, wasLost, wasCut>>
RemoveLog(e) ==
  /\ jobs[e].status = "deleted" /\ jobs[e].log
  /\ jobs' = [jobs EXCEPT ![e].log = FALSE]
  /\ UNCHANGED <<timing, worker, fitted, importer, spent, wasLive, wasLost, wasCut, removed, due>>

NotYet == [status |-> "none", runs |-> <<>>, log |-> FALSE]
OldJob == [status : {"over"}, log : BOOLEAN,
           runs : {<<[status |-> "succeeded", stages |-> StageCount], [status |-> last, stages |-> StageCount]>> : last \in {"succeeded", "failed"}}]
RowsStart(found) ==
  /\ jobs = found /\ timing = <<>> /\ worker = NoWork /\ fitted = NoModel /\ importer = NoImport
  /\ spent = [lost |-> 0, deaths |-> 0, imports |-> 0, deleted |-> 0]
  /\ wasLive = {} /\ wasLost = {} /\ wasCut = {} /\ removed = FALSE /\ due = {}
TimingRowInit == \E old \in [OldJobs -> OldJob] : RowsStart([e \in Numbers |-> IF e \in OldJobs THEN old[e] ELSE NotYet])

TimingRowNext ==
  \/ StartJob \/ RunStarted \/ TimingStarted \/ StageFinished \/ (\E c \in BOOLEAN : TimingFinished(c)) \/ RunFinished \/ EndJob
  \/ WorkerDies \/ WorkerRecovers
  \/ ReadCount \/ ReadNewest \/ ReadHeads \/ ReadStages
  \/ ImportStarts \/ ImportPage \/ ImportLook \/ ImportRead \/ ImportKeep \/ ImportDies
  \/ \E e \in Numbers : DeleteJob(e) \/ RemoveLog(e)
TimingRowSpec == TimingRowInit /\ [][TimingRowNext]_timingRowVars

----------------------------------------------------------------------------
(* What was timed as it ran is never rebuilt from a log, and an execution's  *)
(* rows are all of one fidelity.                                             *)
LiveStands ==
  /\ \A p \in DOMAIN timing : p \in wasLive /\ p \notin wasLost => timing[p].fidelity = "live"
  /\ \A p, q \in DOMAIN timing : p[1] = q[1] => timing[p].fidelity = timing[q].fidelity

(* A row rebuilt from a log is whole: complete exactly for a run that        *)
(* succeeded, with every stage of it.  A complete live row has every stage   *)
(* unless a write of the run's failed.                                       *)
RowsWhole ==
  \A p \in DOMAIN timing :
    LET run == jobs[p[1]].runs[p[2]]
    IN  IF timing[p].fidelity = "log"
        THEN timing[p].complete = (run.status = "succeeded") /\ timing[p].stages = run.stages
        ELSE timing[p].complete /\ p \notin wasLost => timing[p].stages = StageCount /\ run.status \in {"ending", "succeeded"}

(* An execution given timing from its log has all of its runs', unless an    *)
(* import died in it.                                                        *)
ImportedTogether ==
  \A p \in DOMAIN timing : timing[p].fidelity = "log" =>
    p[1] \in wasCut \/ importer.on = p[1] \/ \A r \in RunsOf(p[1]) : <<p[1], r>> \in DOMAIN timing

(* An import that ends has covered every execution it found without timing,  *)
(* unless one was deleted meanwhile, which moves the pages.                  *)
ImportCovers == importer.doing = "done" => \A e \in due : HasTiming(e)

(* The model a worker plans with is made of the complete runs' rows as they  *)
(* are, unless executions were deleted: then a run added and a run removed   *)
(* may leave the mark as it was.                                             *)
ModelOfHistory ==
  fitted.mark = Mark /\ ~removed => fitted.rows = [p \in CompleteRows |-> timing[p].stages]

TimingRowsTrue == LiveStands /\ RowsWhole /\ ImportedTogether /\ ImportCovers /\ ModelOfHistory
=============================================================================
