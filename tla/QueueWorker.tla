----------------------------- MODULE QueueWorker -----------------------------
(* The queue host of `fc serve`: one worker thread that claims queued entries *)
(* and runs each to its end (services/queue_worker.py), the API threads that  *)
(* submit, cancel, park, unpark, hold and release (queue_submit.py,           *)
(* queue_cancel.py, queue_park.py, queue_claim_gate.py, queue_hold.py), the   *)
(* stop of the server, a crash at any step, and the recovery of the next      *)
(* start (queue_recovery.py, queue_host.py), over the rows of the state store *)
(* (state/queue.py).                                                          *)
(*                                                                            *)
(* Every action is one critical section of the worker's _state_lock, one      *)
(* transaction of the store, or one call on the executor's CancelToken; what  *)
(* the code does between two of them is interleaved with every other thread.  *)
(* The worker thread's step is pc; while it runs a job its steps are those of *)
(* the chain of runs (JobChain).                                              *)
EXTENDS JobChain, HoldRules

CONSTANTS
  NumEntries,   \* queue numbers 1 .. NumEntries are submitted, in this order
  Kind,         \* each entry's kind: "job" or "generate" (a one-off generation)
  SubmittedBy,  \* the caller that submitted it; never changes
  FirstRun,     \* the run it starts at: 1, or a resume's
  Callers,      \* the names API callers give themselves
  Clients,      \* API threads that may be in the middle of a cancel
  MaxCrashes,   \* bound: crashes of the server process
  MaxFaults     \* bound: writes to the store that fail

Entries == 1 .. NumEntries

ASSUME WorkerAssumption ==
  /\ NumEntries \in Nat
  /\ Kind \in [Entries -> {"job", "generate"}]
  /\ FirstRun \in [Entries -> Runs]
  /\ SubmittedBy \in [Entries -> Callers]
  /\ MaxCrashes \in Nat
  /\ MaxFaults \in Nat

VARIABLES
  \* The state store: it survives a crash.
  rows,           \* each entry's state in the queue table
  exec,           \* its linked execution: "unlinked", "reserved" (a number
                  \* with no row yet), or the execution row's status
  ranTo,          \* the last succeeded run its execution's rows show
  holdRow,        \* the hold's row in the settings table
  \* The worker's fields, guarded by _state_lock.
  current, reason, pendingCancel, parkPending, jobStarted, jobFinished, skipWait,
  hold,           \* QueueHold's state in memory
  stopEvent,
  \* Locals of the worker thread.
  prev,           \* the entry it ran last
  final,          \* the queue state its finisher computed
  recording,      \* whether the recorder still records this execution
  \* The other threads and the process.
  delivering,     \* per client: the entry whose cancel it is about to deliver
  stopper,        \* the thread in QueueWorker.stop()
  host,           \* the process: down, recovering, or up
  told,           \* the state last published for each entry (event stream)
  \* Bounds and history.
  crashes, faults,
  ran,            \* entries of which a child process was started
  asked,          \* entries a cancel was accepted for
  freed           \* whether a release was accepted since the reservation

storeVars  == <<rows, exec, ranTo, holdRow>>
flagVars   == <<current, reason, pendingCancel, parkPending, jobStarted, jobFinished>>
localVars  == <<prev, final, recording>>
loopVars   == <<first, run, completed, parks, cooled, outcome>>
hostVars   == <<stopEvent, delivering, stopper, host, crashes>>
ghostVars  == <<ran, asked, freed>>
vars == <<chainVars, storeVars, flagVars, skipWait, hold, localVars, hostVars,
          told, faults, ghostVars>>

Finished == {"succeeded", "failed", "cancelled", "interrupted", "parked"}
RowStates == {"absent", "queued", "running"} \cup Finished
ExecStates == {"unlinked", "reserved", "running", "succeeded", "failed",
               "interrupted", "parked"}
WorkerSteps == {"top", "claim", "idle", "parse", "begin", "reserve", "records",
                "guard", "guardCancel", "failStart", "finReason", "finEntry",
                "publish", "endJob", "release", "after", "waiting", "exited",
                "genLink", "genStart", "genBegin", "genGuard", "genCancel",
                "genAttach", "genAttachCheck", "genChild", "genRecord",
                "genFailed", "genRetry", "escape", "off"}
Stops == {"no", "set", "locked", "joining"}

TypeOKWorker ==
  /\ ChainTypeOK
  /\ pc \in ChainSteps \cup WorkerSteps
  /\ rows \in [Entries -> RowStates]
  /\ exec \in [Entries -> ExecStates]
  /\ ranTo \in [Entries -> 0 .. TotalRuns]
  /\ holdRow \in Rows(Entries, Callers)
  /\ current \in Entries \cup {NoEntry}
  /\ reason \in {"none", "cancel", "shutdown"}
  /\ pendingCancel \in BOOLEAN
  /\ parkPending \in BOOLEAN
  /\ jobStarted \in BOOLEAN
  /\ jobFinished \in BOOLEAN
  /\ skipWait \in BOOLEAN
  /\ hold \in Holds(Entries, Callers)
  /\ stopEvent \in BOOLEAN
  /\ prev \in Entries \cup {NoEntry}
  /\ final \in RowStates
  /\ recording \in BOOLEAN
  /\ delivering \in [Clients -> Entries \cup {NoEntry}]
  /\ stopper \in Stops
  /\ host \in {"down", "recover", "up"}
  /\ told \in [Entries -> RowStates]
  /\ crashes \in Nat
  /\ faults \in Nat
  /\ ran \subseteq Entries
  /\ asked \subseteq Entries
  /\ freed \in BOOLEAN

Up == host = "up"
Queued == {e \in Entries : rows[e] = "queued"}
\* _is_running: claimed and not yet marked finished.
IsRunning(e) == current = e /\ ~jobFinished
\* queue_callers.check_entry_permitted.
Permitted(e, who) == IsAgent(who) => IsAgent(SubmittedBy[e])
Fault == faults < MaxFaults /\ faults' = faults + 1
SetRow(e, s) == rows' = [rows EXCEPT ![e] = s]
SetExec(e, s) == exec' = [exec EXCEPT ![e] = s]
Tell(e, s) == told' = [told EXCEPT ![e] = s]

------------------------------------------------------------------------------
(* The worker thread: run_forever and claim_and_run_one.                      *)

\* run_forever's condition.
Top ==
  /\ pc = "top"
  /\ pc' = IF stopEvent THEN "exited" ELSE "claim"
  /\ UNCHANGED <<token, loopVars, storeVars, flagVars, skipWait, hold, localVars,
                 hostVars, told, faults, ghostVars>>

\* Nothing to claim, or the queue is held: back off (_idle_wait).
ClaimNone ==
  /\ pc = "claim"
  /\ hold.held \/ Queued = {}
  /\ pc' = "idle"
  /\ UNCHANGED <<token, loopVars, storeVars, flagVars, skipWait, hold, localVars,
                 hostVars, told, faults, ghostVars>>

\* Mutant: the newest is claimed.
IsOldest_Newest(e) == e \in Queued /\ \A d \in Queued : d <= e

\* claim_oldest's choice.
IsOldest(e) == e \in Queued /\ \A d \in Queued : e <= d

\* Mutant: the hold is not checked.
Claimable_PastHold(e) == IsOldest(e)

\* The hold is checked under the lock, "so a hold and a claim never interleave".
Claimable(e) == ~hold.held /\ IsOldest(e)

\* Claimed right as shutdown began: back to queued, unless that write fails.
ClaimStopping(e) ==
  /\ pc = "claim"
  /\ Claimable(e)
  /\ stopEvent
  /\ \/ SetExec(e, "unlinked") /\ Tell(e, "queued") /\ pc' = "top"
        /\ UNCHANGED <<rows, faults>>
     \/ Fault /\ SetRow(e, "running") /\ pc' = "idle" /\ UNCHANGED <<exec, told>>
  /\ UNCHANGED <<token, loopVars, ranTo, holdRow, flagVars, skipWait, hold,
                 localVars, hostVars, ghostVars>>

\* Mutant: the stop reason of the entry that ran before is kept.
FreshFlags_KeepReason ==
  /\ UNCHANGED reason
  /\ pendingCancel' = FALSE
  /\ parkPending' = FALSE
  /\ jobStarted' = FALSE
  /\ jobFinished' = FALSE

\* Nothing is asked of the entry yet.
FreshFlags ==
  /\ reason' = "none"
  /\ pendingCancel' = FALSE
  /\ parkPending' = FALSE
  /\ jobStarted' = FALSE
  /\ jobFinished' = FALSE

\* The claim and its registration, under one lock.
Claim(e) ==
  /\ pc = "claim"
  /\ Claimable(e)
  /\ ~stopEvent
  /\ SetRow(e, "running")
  /\ current' = e
  /\ FreshFlags
  /\ skipWait' = FALSE
  /\ Tell(e, "running")
  /\ freed' = FALSE
  /\ pc' = IF Kind[e] = "generate" THEN "genLink" ELSE "parse"
  /\ UNCHANGED <<token, loopVars, exec, ranTo, holdRow, hold, localVars, hostVars,
                 faults, ran, asked>>

\* _idle_wait ends: woken, or after its second.
IdleEnds ==
  /\ pc = "idle"
  /\ pc' = "top"
  /\ UNCHANGED <<token, loopVars, storeVars, flagVars, skipWait, hold, localVars,
                 hostVars, told, faults, ghostVars>>

\* _run_claimed parses the snapshot the entry was submitted with.
Parse ==
  /\ pc = "parse"
  /\ pc' \in {"begin", "failStart"}
  /\ UNCHANGED <<token, loopVars, storeVars, flagVars, skipWait, hold, localVars,
                 hostVars, told, faults, ghostVars>>

\* sweep_interrupted: with the run lock held, a row still running is a crash's.
Swept == [e \in Entries |-> IF exec[e] = "running" THEN "interrupted" ELSE exec[e]]

\* JobRunSession.run opens the store and sweeps it; the executor's token begins.
Begin ==
  /\ pc = "begin"
  /\ \/ exec' = Swept /\ token' = BeginToken(token) /\ recording' = TRUE
        /\ pc' = "reserve"
     \/ pc' = "failStart" /\ UNCHANGED <<exec, token, recording>>
  /\ UNCHANGED <<loopVars, rows, ranTo, holdRow, flagVars, skipWait, hold, prev,
                 final, hostVars, told, faults, ghostVars>>

\* The executor raised before JobStarted: its token ends on the way out.
LeaveExecutor == token' = EndToken(token) /\ pc' = "failStart"

\* _run checks the tools and prepares the input, then reserves the execution's
\* number and links the entry to it.
Reserve ==
  /\ pc = "reserve"
  /\ \/ LeaveExecutor /\ UNCHANGED <<exec, ranTo>>
     \/ /\ SetExec(current, "reserved")
        /\ ranTo' = [ranTo EXCEPT ![current] = 0]
        /\ pc' = "records"
        /\ UNCHANGED token
  /\ UNCHANGED <<loopVars, rows, holdRow, flagVars, skipWait, hold, localVars,
                 hostVars, told, faults, ghostVars>>

\* The records are opened and JobStarted is emitted: the recorder, the first
\* observer, inserts the execution's row, or stops recording if it cannot.
JobStart ==
  /\ pc = "records"
  /\ \/ LeaveExecutor /\ UNCHANGED <<exec, recording, faults>>
     \/ /\ pc' = "guard"
        /\ \/ SetExec(current, "running") /\ UNCHANGED <<recording, faults>>
           \/ Fault /\ recording' = FALSE /\ UNCHANGED exec
        /\ UNCHANGED token
  /\ UNCHANGED <<loopVars, rows, ranTo, holdRow, flagVars, skipWait, hold, prev,
                 final, hostVars, told, ghostVars>>

\* Mutant: a pending park is not applied.
GuardPark_Dropped == UNCHANGED token

\* Mutant: a pending cancel is not applied.
GuardNext_NoCancel == "enter"

\* What was asked between the claim and JobStarted.
GuardPark == token' = IF parkPending THEN ParkCall(token) ELSE token
GuardNext == IF pendingCancel THEN "guardCancel" ELSE "enter"

\* _start_guard, the next observer: a park that is pending is applied under the
\* lock, a cancel after it.
StartGuard ==
  /\ pc = "guard"
  /\ jobStarted' = TRUE
  /\ GuardPark
  /\ pc' = GuardNext
  /\ StartLoop(FirstRun[current])
  /\ UNCHANGED <<storeVars, current, reason, pendingCancel, parkPending, jobFinished,
                 skipWait, hold, localVars, hostVars, told, faults, ghostVars>>

GuardCancel ==
  /\ pc = "guardCancel"
  /\ token' = CancelCall(token)
  /\ pc' = "enter"
  /\ UNCHANGED <<loopVars, storeVars, flagVars, skipWait, hold, localVars, hostVars,
                 told, faults, ghostVars>>

\* A step of the chain.  RunFinished reaches the recorder inside it.
ChainStep ==
  /\ ChainThread
  /\ \/ recording /\ completed' # completed
        /\ \/ ranTo' = [ranTo EXCEPT ![current] = completed']
              /\ UNCHANGED <<recording, faults>>
           \/ Fault /\ recording' = FALSE /\ UNCHANGED ranTo
     \/ ~(recording /\ completed' # completed) /\ UNCHANGED <<ranTo, recording, faults>>
  /\ ran' = IF pc' = "child" THEN ran \cup {current} ELSE ran
  /\ UNCHANGED <<rows, exec, holdRow, flagVars, skipWait, hold, prev, final, hostVars,
                 told, asked, freed>>

\* JobFinished reaches the recorder first ...
RecordFinish ==
  /\ pc = "jobFinished"
  /\ \/ recording /\ SetExec(current, outcome) /\ UNCHANGED <<recording, faults>>
     \/ recording /\ Fault /\ recording' = FALSE /\ UNCHANGED exec
     \/ ~recording /\ UNCHANGED <<exec, recording, faults>>
  /\ pc' = "finReason"
  /\ UNCHANGED <<token, loopVars, rows, ranTo, holdRow, flagVars, skipWait, hold, prev,
                 final, hostVars, told, ghostVars>>

\* _final_state: how the job's end reads in the queue.
FinalState(status) ==
  IF status # "interrupted" THEN status
  ELSE CASE reason = "cancel"   -> "cancelled"
         [] reason = "shutdown" -> "interrupted"
         [] reason = "none"     -> "failed"

\* ... and the finisher last: it reads the reason, then marks the entry.
FinishReason ==
  /\ pc = "finReason"
  /\ final' = FinalState(outcome)
  /\ pc' = "finEntry"
  /\ UNCHANGED <<token, loopVars, storeVars, flagVars, skipWait, hold, prev, recording,
                 hostVars, told, faults, ghostVars>>

\* Mutant: the worker still takes the entry for the running one.
MarkFinished_NoFlag(e, s) == SetRow(e, s) /\ UNCHANGED jobFinished

\* The row and the worker's flag change under one lock.
MarkFinished(e, s) == SetRow(e, s) /\ jobFinished' = TRUE

\* Mutant: the error ends the thread.
AfterFailedMark_Dies == "dead"

AfterFailedMark == IF Kind[current] = "job" THEN "endJob" ELSE "genFailed"

\* A write that fails leaves a job's row as it is (the observer's error is only
\* logged); a generation's error goes to its handler.
FinishEntry ==
  /\ pc = "finEntry"
  /\ \/ /\ MarkFinished(current, final)
        /\ pc' = "publish"
        /\ UNCHANGED faults
     \/ /\ Fault
        /\ pc' = AfterFailedMark
        /\ UNCHANGED <<rows, jobFinished>>
  /\ UNCHANGED <<token, loopVars, exec, ranTo, holdRow, current, reason, pendingCancel,
                 parkPending, jobStarted, skipWait, hold, localVars, hostVars, told,
                 ghostVars>>

\* _fail_to_start: JobFinished never fired, so the link is cleared.
FailToStart ==
  /\ pc = "failStart"
  /\ \/ /\ MarkFinished(current, "failed")
        /\ SetExec(current, "unlinked")
        /\ final' = "failed"
        /\ pc' = "publish"
        /\ UNCHANGED faults
     \/ Fault /\ pc' = "escape" /\ UNCHANGED <<rows, exec, jobFinished, final>>
  /\ UNCHANGED <<token, loopVars, ranTo, holdRow, current, reason, pendingCancel,
                 parkPending, jobStarted, skipWait, hold, prev, recording, hostVars,
                 told, ghostVars>>

\* Mutant: the job's status is published, not the entry's state.
Published_Status == outcome

Published == final

\* The entry's end is published after the lock is released.
Publish ==
  /\ pc = "publish"
  /\ Tell(current, Published)
  /\ pc' = "endJob"
  /\ UNCHANGED <<token, loopVars, storeVars, flagVars, skipWait, hold, localVars,
                 hostVars, faults, ghostVars>>

\* The executor's token ends (a second end() changes nothing).
TokenEnds ==
  /\ pc = "endJob"
  /\ token' = EndToken(token)
  /\ pc' = "release"
  /\ UNCHANGED <<loopVars, storeVars, flagVars, skipWait, hold, localVars, hostVars,
                 told, faults, ghostVars>>

\* The locals of the finished chain are gone.
LoopGone ==
  /\ first' = 1 /\ run' = 1 /\ completed' = 0 /\ parks' = 0
  /\ cooled' = TRUE
  /\ outcome' = "running"

\* The claimed entry is let go, whatever became of it; after an error that
\* escaped, claim_and_run_one answers False and the loop backs off.
Release ==
  /\ pc \in {"release", "escape"}
  /\ prev' = current
  /\ current' = NoEntry
  /\ pc' = CASE pc = "escape" -> "idle"
             [] pc = "release" /\ Kind[current] = "generate" -> "top"
             [] pc = "release" /\ Kind[current] = "job" -> "after"
  /\ LoopGone
  /\ UNCHANGED <<token, storeVars, reason, pendingCancel, parkPending,
                 jobStarted, jobFinished, skipWait, hold, final, recording, hostVars,
                 told, faults, ghostVars>>

\* Mutant: a release does not end the wait.
NoWait_NoSkip == stopEvent \/ hold.held \/ Queued = {}

\* What ends, or never begins, the wait between two jobs.
NoWait == stopEvent \/ hold.held \/ skipWait \/ Queued = {}

\* _wait_after: only after a job that succeeded or parked; it may be 0 s long.
WaitAfter ==
  /\ pc = "after"
  /\ \/ pc' = "top"
     \/ ~NoWait /\ rows[prev] \in {"succeeded", "parked"} /\ pc' = "waiting"
  /\ UNCHANGED <<token, loopVars, storeVars, flagVars, skipWait, hold, localVars,
                 hostVars, told, faults, ghostVars>>

\* _poll_wait: cut short by what it polls ...
WaitCut ==
  /\ pc = "waiting"
  /\ NoWait
  /\ pc' = "top"
  /\ UNCHANGED <<token, loopVars, storeVars, flagVars, skipWait, hold, localVars,
                 hostVars, told, faults, ghostVars>>

\* ... or waited out.
WaitElapsed ==
  /\ pc = "waiting"
  /\ pc' = "top"
  /\ UNCHANGED <<token, loopVars, storeVars, flagVars, skipWait, hold, localVars,
                 hostVars, told, faults, ghostVars>>

------------------------------------------------------------------------------
(* A one-off generation: _run_generation, which has no chain and no recorder. *)

\* Its number is reserved and linked.
GenLink ==
  /\ pc = "genLink"
  /\ \/ pc' = "failStart" /\ UNCHANGED <<exec, ranTo>>
     \/ /\ SetExec(current, "reserved")
        /\ ranTo' = [ranTo EXCEPT ![current] = 0]
        /\ pc' = "genStart"
  /\ UNCHANGED <<token, loopVars, rows, holdRow, flagVars, skipWait, hold, localVars,
                 hostVars, told, faults, ghostVars>>

\* The execution's row, then its one run's; once the execution has its row, what
\* is raised goes to the handler that records a failed generation.
GenStart ==
  /\ pc = "genStart"
  /\ \/ pc' = "failStart" /\ UNCHANGED <<exec, faults>>
     \/ SetExec(current, "running") /\ pc' = "genBegin" /\ UNCHANGED faults
     \/ SetExec(current, "running") /\ Fault /\ pc' = "genFailed"
  /\ UNCHANGED <<token, loopVars, rows, ranTo, holdRow, flagVars, skipWait, hold,
                 localVars, hostVars, told, ghostVars>>

GenBegin ==
  /\ pc = "genBegin"
  /\ token' = BeginToken(token)
  /\ pc' = "genGuard"
  /\ UNCHANGED <<loopVars, storeVars, flagVars, skipWait, hold, localVars, hostVars,
                 told, faults, ghostVars>>

\* _generation_start_guard.
GenGuard ==
  /\ pc = "genGuard"
  /\ jobStarted' = TRUE
  /\ pc' = IF pendingCancel THEN "genCancel" ELSE "genAttach"
  /\ UNCHANGED <<token, loopVars, storeVars, current, reason, pendingCancel,
                 parkPending, jobFinished, skipWait, hold, localVars, hostVars, told,
                 faults, ghostVars>>

GenCancel ==
  /\ pc = "genCancel"
  /\ token' = CancelCall(token)
  /\ pc' = "genAttach"
  /\ UNCHANGED <<loopVars, storeVars, flagVars, skipWait, hold, localVars, hostVars,
                 told, faults, ghostVars>>

\* RunLauncher.generate: the executable may be missing; else the runner attaches.
GenAttach ==
  /\ pc = "genAttach"
  /\ \/ token' = EndToken(token) /\ pc' = "genFailed"
     \/ token' = AttachRunner(token) /\ pc' = "genAttachCheck"
  /\ UNCHANGED <<loopVars, storeVars, flagVars, skipWait, hold, localVars, hostVars,
                 told, faults, ghostVars>>

GenAttachStop ==
  /\ pc = "genAttachCheck"
  /\ token' = AttachCheck(token)
  /\ pc' = "genChild"
  /\ ran' = ran \cup {current}
  /\ UNCHANGED <<loopVars, storeVars, flagVars, skipWait, hold, localVars, hostVars,
                 told, faults, asked, freed>>

\* The child ends; the runner is detached and the token ends.
GenChildEnds ==
  /\ pc = "genChild"
  /\ token' = EndToken(DetachRunner(token))
  /\ \/ outcome' \in {"succeeded", "failed"}
     \/ token.runner = "told" /\ outcome' = "interrupted"
  /\ pc' = "genRecord"
  /\ UNCHANGED <<first, run, completed, parks, cooled, storeVars, flagVars, skipWait,
                 hold, localVars, hostVars, told, faults, ghostVars>>

\* The run and the execution are finished (two writes, of which recovery reads
\* only the second), then the entry as a job's is.
GenRecord ==
  /\ pc = "genRecord"
  /\ \/ /\ SetExec(current, outcome)
        /\ ranTo' = [ranTo EXCEPT ![current] = IF outcome = "succeeded" THEN 1 ELSE 0]
        /\ pc' = "finReason"
        /\ UNCHANGED faults
     \/ Fault /\ pc' = "genFailed" /\ UNCHANGED <<exec, ranTo>>
  /\ UNCHANGED <<token, loopVars, rows, holdRow, flagVars, skipWait, hold, localVars,
                 hostVars, told, ghostVars>>

\* The handler: the execution is recorded as failed whatever its child did ...
GenFailed ==
  /\ pc = "genFailed"
  /\ \/ /\ SetExec(current, "failed")
        /\ ranTo' = [ranTo EXCEPT ![current] = 0]
        /\ final' = "failed"
        /\ pc' = "genRetry"
        /\ UNCHANGED faults
     \/ Fault /\ pc' = "escape" /\ UNCHANGED <<exec, ranTo, final>>
  /\ UNCHANGED <<token, loopVars, rows, holdRow, flagVars, skipWait, hold, prev,
                 recording, hostVars, told, ghostVars>>

\* ... and then the entry.
GenRetry ==
  /\ pc = "genRetry"
  /\ \/ /\ MarkFinished(current, "failed")
        /\ pc' = "publish"
        /\ UNCHANGED faults
     \/ Fault /\ pc' = "escape" /\ UNCHANGED <<rows, jobFinished>>
  /\ UNCHANGED <<token, loopVars, exec, ranTo, holdRow, current, reason, pendingCancel,
                 parkPending, jobStarted, skipWait, hold, localVars, hostVars, told,
                 ghostVars>>

------------------------------------------------------------------------------
(* The API threads.                                                           *)

\* QueueClaimGate.enqueue: the insert and its event under the claim's lock.
Submit(e) ==
  /\ Up
  /\ rows[e] = "absent"
  /\ \A d \in Entries : d < e => rows[d] # "absent"
  /\ SetRow(e, "queued")
  /\ Tell(e, "queued")
  /\ UNCHANGED <<chainVars, exec, ranTo, holdRow, flagVars, skipWait, hold, localVars,
                 hostVars, faults, ghostVars>>

\* Mutant: the update has no condition on the state.
Cancellable_Any(e) == rows[e] \notin {"absent", "running"}

Cancellable(e) == rows[e] = "queued"

\* cancel_entry of an entry still queued when the gate's lock is taken.
CancelQueued(e, who) ==
  /\ Up
  /\ Permitted(e, who)
  /\ Cancellable(e)
  /\ SetRow(e, "cancelled")
  /\ Tell(e, "cancelled")
  /\ asked' = asked \cup {e}
  /\ UNCHANGED <<chainVars, exec, ranTo, holdRow, flagVars, skipWait, hold, localVars,
                 hostVars, faults, ran, freed>>

\* Mutant: a stop that comes before JobStarted is lost.
KeepPending_Lost == UNCHANGED pendingCancel

\* A stop that comes before the token begins is applied at JobStarted.
KeepPending == pendingCancel' = TRUE

\* cancel_entry of the claimed entry: the reason is set under the lock ...
CancelRunning(c, e, who) ==
  /\ Up
  /\ Permitted(e, who)
  /\ delivering[c] = NoEntry
  /\ current = e
  /\ reason' = IF reason = "none" THEN "cancel" ELSE reason
  /\ KeepPending
  /\ delivering' = [delivering EXCEPT ![c] = e]
  /\ asked' = asked \cup {e}
  /\ UNCHANGED <<chainVars, storeVars, current, parkPending, jobStarted, jobFinished,
                 skipWait, hold, localVars, stopEvent, stopper, host, crashes, told,
                 faults, ran, freed>>

\* ... and the executor is told after the lock is released.
DeliverCancel(c) ==
  /\ delivering[c] # NoEntry
  /\ token' = CancelCall(token)
  /\ delivering' = [delivering EXCEPT ![c] = NoEntry]
  /\ UNCHANGED <<pc, loopVars, storeVars, flagVars, skipWait, hold, localVars,
                 stopEvent, stopper, host, crashes, told, faults, ghostVars>>

\* Mutant: the hold is not saved.
SetHold_MemoryOnly(h) == hold' = h /\ UNCHANGED holdRow

\* hold() and _release() write the row first, then the memory.
SetHold(h) == hold' = h /\ holdRow' = SavedRow(h)
ClearHold == hold' = NotHeld /\ holdRow' = NoRow

\* park_entry: the hold first, then the reservation, applied once JobStarted.
ParkEntry(e, who) ==
  /\ Up
  /\ Kind[e] = "job"
  /\ Permitted(e, who)
  /\ IsRunning(e)
  /\ reason = "none"
  /\ jobStarted => token.count < MaxParks
  /\ IF AfterHold(hold, e, who) = hold THEN UNCHANGED <<hold, holdRow>>
     ELSE SetHold(AfterHold(hold, e, who))
  /\ parkPending' = TRUE
  /\ token' = IF ~parkPending /\ jobStarted THEN ParkCall(token) ELSE token
  /\ freed' = FALSE
  /\ UNCHANGED <<pc, loopVars, rows, exec, ranTo, current, reason, pendingCancel,
                 jobStarted, jobFinished, skipWait, localVars, hostVars, told, faults,
                 ran, asked>>

\* unpark_entry: refused once the park is taken, and for an agent when the hold
\* it would release is a person's.
UnparkEntry(e, who) ==
  /\ Up
  /\ Kind[e] = "job"
  /\ Permitted(e, who)
  /\ IsRunning(e)
  /\ parkPending
  /\ jobStarted => UnparkAllowed(token)
  /\ IF ReleaseApplies(hold, e) THEN ~ReleaseRefused(hold, who) /\ ClearHold
     ELSE UNCHANGED <<hold, holdRow>>
  /\ parkPending' = FALSE
  /\ token' = IF jobStarted THEN UnparkCall(token) ELSE token
  /\ UNCHANGED <<pc, loopVars, rows, exec, ranTo, current, reason, pendingCancel,
                 jobStarted, jobFinished, skipWait, localVars, hostVars, told, faults,
                 ghostVars>>

\* hold(): a running job is not stopped, and nothing is claimed after it.
HoldQueue(who) ==
  /\ Up
  /\ AfterHold(hold, NoEntry, who) # hold
  /\ SetHold(AfterHold(hold, NoEntry, who))
  /\ UNCHANGED <<chainVars, rows, exec, ranTo, flagVars, skipWait, localVars, hostVars,
                 told, faults, ghostVars>>

\* release(): once the claimed job has ended, the next claim skips the wait.
ReleaseQueue(who) ==
  /\ Up
  /\ ReleaseApplies(hold, NoEntry)
  /\ ~ReleaseRefused(hold, who)
  /\ ClearHold
  /\ skipWait' = (IF current = NoEntry \/ jobFinished THEN TRUE ELSE skipWait)
  /\ freed' = TRUE
  /\ UNCHANGED <<chainVars, rows, exec, ranTo, flagVars, localVars, hostVars, told,
                 faults, ran, asked>>

------------------------------------------------------------------------------
(* The stop of the server, a crash, and the next start.                       *)

StopSet ==
  /\ Up
  /\ stopper = "no"
  /\ stopEvent' = TRUE
  /\ stopper' = "set"
  /\ UNCHANGED <<chainVars, storeVars, flagVars, skipWait, hold, localVars, delivering,
                 host, crashes, told, faults, ghostVars>>

\* Whichever stop reason lands first wins.
StopReason ==
  /\ stopper = "set"
  /\ IF current # NoEntry /\ reason = "none"
     THEN reason' = "shutdown" /\ KeepPending
     ELSE UNCHANGED <<reason, pendingCancel>>
  /\ stopper' = "locked"
  /\ UNCHANGED <<chainVars, storeVars, current, parkPending, jobStarted, jobFinished,
                 skipWait, hold, localVars, stopEvent, delivering, host, crashes, told,
                 faults, ghostVars>>

StopCancel ==
  /\ stopper = "locked"
  /\ token' = CancelCall(token)
  /\ stopper' = "joining"
  /\ UNCHANGED <<pc, loopVars, storeVars, flagVars, skipWait, hold, localVars,
                 stopEvent, delivering, host, crashes, told, faults, ghostVars>>

\* Nothing of the process's memory is left.
MemoryLost ==
  /\ host' = "down"
  /\ pc' = "off"
  /\ token' = IdleToken
  /\ current' = NoEntry
  /\ FreshFlags
  /\ skipWait' = FALSE
  /\ hold' = NotHeld
  /\ stopEvent' = FALSE
  /\ prev' = NoEntry
  /\ final' = "absent"
  /\ recording' = FALSE
  /\ delivering' = [c \in Clients |-> NoEntry]
  /\ stopper' = "no"
  /\ LoopGone
  /\ UNCHANGED <<storeVars, told, faults, ghostVars>>

\* stop() has joined the worker's thread; the store is closed.
StopJoined ==
  /\ stopper = "joining"
  /\ pc = "exited"
  /\ MemoryLost
  /\ UNCHANGED crashes

Crash ==
  /\ host # "down"
  /\ crashes < MaxCrashes
  /\ crashes' = crashes + 1
  /\ MemoryLost

\* recover_queue sweeps the executions first ...
RecoverSweep ==
  /\ host = "down"
  /\ host' = "recover"
  /\ exec' = Swept
  /\ UNCHANGED <<chainVars, rows, ranTo, holdRow, flagVars, skipWait, hold, localVars,
                 stopEvent, delivering, stopper, crashes, told, faults, ghostVars>>

\* Mutant: an interrupted execution is run again.
RecoveredState_Reruns(s) ==
  IF s \in {"unlinked", "reserved", "interrupted"} THEN "queued" ELSE s

\* Mutant: recovery does not know a parked execution.
RecoveredState_NoParked(s) ==
  IF s \in {"unlinked", "reserved"} THEN "queued"
  ELSE IF s = "parked" THEN "interrupted" ELSE s

\* With no execution, or a number whose row was never inserted, nothing ran.
RecoveredState(s) == IF s \in {"unlinked", "reserved"} THEN "queued" ELSE s

\* ... then brings each running entry to what its execution shows.
RecoverEntry(e) ==
  /\ host = "recover"
  /\ rows[e] = "running"
  /\ SetRow(e, RecoveredState(exec[e]))
  /\ IF RecoveredState(exec[e]) = "queued" THEN SetExec(e, "unlinked")
     ELSE UNCHANGED exec
  /\ UNCHANGED <<chainVars, ranTo, holdRow, flagVars, skipWait, hold, localVars,
                 hostVars, told, faults, ghostVars>>

\* The worker is built, reading the saved hold, and started; a client that
\* reconnects reads the rows anew.
StartWorker ==
  /\ host = "recover"
  /\ \A e \in Entries : rows[e] # "running"
  /\ host' = "up"
  /\ pc' = "top"
  /\ hold' = ReadHold(holdRow)
  /\ told' = rows
  /\ UNCHANGED <<token, loopVars, storeVars, flagVars, skipWait, localVars, stopEvent,
                 delivering, stopper, crashes, faults, ghostVars>>

------------------------------------------------------------------------------
\* A first start, on an empty store that may hold a hold an older server saved.
Init ==
  /\ pc = "off"
  /\ token = IdleToken
  /\ first = 1 /\ run = 1 /\ completed = 0 /\ parks = 0
  /\ cooled = TRUE
  /\ outcome = "running"
  /\ rows = [e \in Entries |-> "absent"]
  /\ exec = [e \in Entries |-> "unlinked"]
  /\ ranTo = [e \in Entries |-> 0]
  /\ holdRow \in {NoRow, DamagedRow}
  /\ current = NoEntry
  /\ reason = "none"
  /\ pendingCancel = FALSE /\ parkPending = FALSE
  /\ jobStarted = FALSE /\ jobFinished = FALSE
  /\ skipWait = FALSE
  /\ hold = NotHeld
  /\ stopEvent = FALSE
  /\ prev = NoEntry
  /\ final = "absent"
  /\ recording = FALSE
  /\ delivering = [c \in Clients |-> NoEntry]
  /\ stopper = "no"
  /\ host = "down"
  /\ told = rows
  /\ crashes = 0 /\ faults = 0
  /\ ran = {} /\ asked = {}
  /\ freed = FALSE

\* The steps of the worker thread that nothing outside it can hold up.
WorkerRuns ==
  \/ Top \/ ClaimNone \/ \E e \in Entries : ClaimStopping(e) \/ Claim(e)
  \/ IdleEnds \/ Parse \/ Begin \/ Reserve \/ JobStart \/ StartGuard \/ GuardCancel
  \/ ChainStep /\ pc \notin {"child", "cooling"}
  \/ RecordFinish \/ FinishReason \/ FinishEntry \/ FailToStart \/ Publish
  \/ TokenEnds \/ Release \/ WaitAfter \/ WaitCut
  \/ GenLink \/ GenStart \/ GenBegin \/ GenGuard \/ GenCancel \/ GenAttach
  \/ GenAttachStop \/ GenRecord \/ GenFailed \/ GenRetry

\* The steps that wait for a child process, or for time to pass.
WorkerWaits ==
  \/ ChainStep /\ pc \in {"child", "cooling"}
  \/ GenChildEnds
  \/ WaitElapsed

Api ==
  \/ \E e \in Entries : Submit(e)
  \/ \E e \in Entries, who \in Callers :
       \/ CancelQueued(e, who) \/ ParkEntry(e, who) \/ UnparkEntry(e, who)
       \/ \E c \in Clients : CancelRunning(c, e, who)
  \/ \E c \in Clients : DeliverCancel(c)
  \/ \E who \in Callers : HoldQueue(who) \/ ReleaseQueue(who)

Process ==
  \/ StopSet \/ StopReason \/ StopCancel \/ StopJoined \/ Crash
  \/ RecoverSweep \/ StartWorker \/ \E e \in Entries : RecoverEntry(e)

Next == WorkerRuns \/ WorkerWaits \/ Api \/ Process

\* The worker thread, a stop and a delivery in progress go on.  A child told to
\* shut down ends, and a wait that was woken ends; otherwise a child, and a
\* wait, may take for ever.
Fairness ==
  /\ WF_vars(WorkerRuns)
  /\ WF_vars(ChainStep /\ pc = "child" /\ token.runner = "told")
  /\ WF_vars(ChainStep /\ CoolWoken)
  /\ WF_vars(GenChildEnds /\ token.runner = "told")
  /\ WF_vars(StopReason \/ StopCancel \/ StopJoined)
  /\ WF_vars(\E c \in Clients : DeliverCancel(c))

Spec == Init /\ [][Next]_vars
FairSpec == Spec /\ Fairness

------------------------------------------------------------------------------
(* Properties.                                                                *)

\* "It never observes the DB already reading 'running' while self._current is
\* still the previous (or no) entry" (_claim_and_run_one): while the server is
\* up and the store's writes succeed, the entry that reads running is the one
\* claimed and not yet finished, so a cancel of it is never a silent no-op.
RunningIsClaimed ==
  Up => \A e \in Entries : rows[e] = "running" <=> IsRunning(e)

\* list_active: "only one entry is ever running at once", and "a running entry's
\* own number is the smallest of the set", through crashes and recoveries.
RunningIsOldest ==
  \A d, e \in Entries :
    rows[d] = "running" /\ rows[e] \in {"queued", "running"} => d <= e

\* A park reservation and the executor's park agree from JobStarted until the
\* token ends, whatever order park, unpark, start and run boundary come in: an
\* entry whose unpark was accepted never parks, and one that is parking does.
ReservationMatchesToken ==
  token.running /\ jobStarted /\ current # NoEntry /\ ~jobFinished =>
    /\ token.park <=> parkPending
    /\ token.taken => parkPending

\* "A park never runs without the hold that keeps the next entry from starting
\* after it" (park_running): until a release is accepted, the queue is held.
ParkKeepsHold == parkPending /\ ~freed => hold.held

\* The hold in memory is the one the next start would read.
HoldIsSaved == Up => hold = ReadHold(holdRow)

\* "Nothing of it ran" (_recover_entry): an entry put back to queued by recovery,
\* or by a claim that met the shutdown, never had a child process, so no work is
\* done twice.
QueuedNeverRan == \A e \in Entries : rows[e] = "queued" => e \notin ran

\* What the queue says of a finished entry agrees with its execution, after a
\* crash between the two writes too; a parked one can be resumed.
FinishedMatchesExecution ==
  \A e \in Entries :
    /\ rows[e] = "succeeded" => exec[e] = "succeeded"
    /\ rows[e] = "parked" => /\ exec[e] = "parked"
                            /\ FirstRun[e] <= ranTo[e]
                            /\ ranTo[e] < TotalRuns
    /\ rows[e] = "interrupted" => exec[e] = "interrupted"
    /\ rows[e] = "cancelled" => exec[e] \in {"unlinked", "interrupted"}

\* Only an entry whose cancel was accepted ends cancelled: no reason is left
\* over from an entry that ran before it.
CancelledWasAsked == \A e \in Entries : rows[e] = "cancelled" => e \in asked

\* A finished entry "never runs again on its own": nothing changes its row.
FinishedStays ==
  [][\A e \in Entries : rows[e] \in Finished => rows'[e] = rows[e]]_vars

\* A client watching events never sees an entry go back (queue_claim_gate.py:
\* never "'running' published before an earlier 'queued'"), and never sees a
\* state the entry was not brought to.
Rank(s) == CASE s = "absent" -> 0 [] s = "queued" -> 1 [] s = "running" -> 2
             [] OTHER -> 3
EventsInOrder ==
  [][Up => \A e \in Entries :
       told'[e] # told[e] => Rank(told'[e]) > Rank(told[e]) /\ told'[e] = rows'[e]]_vars

\* An accepted cancel, or the stop of the server, reaches the child of the entry
\* it was for, wherever it lands between the claim, the token's begin(), JobStarted
\* and the runner's attach(): once nobody is about to deliver it any more, a child
\* that still runs has been told.
CancelReachesChild ==
  /\ pc \in {"child", "genChild"}
  /\ pendingCancel
  /\ \A c \in Clients : delivering[c] # current
  /\ stopper # "locked"
  => token.runner = "told"

\* "Never raises ... and the worker goes on" (claim_and_run_one): whichever write
\* of the store fails, the thread always comes back to its loop, unless it waits
\* for a child or for time to pass.
WorkerGoesOn ==
  []<>(pc \in {"top", "child", "genChild", "cooling", "waiting", "exited", "off"})

\* The queue keeps its promises (QueueService): through every interleaving,
\* stop, crash and recovery, entries start oldest first, one at a time and never
\* past a hold, and nothing that ran is put back.
Service == INSTANCE QueueService
             WITH queue <- rows, held <- (holdRow.text # "absent"), started <- ran
ServiceRefined == Service!ServiceSpec

\* stop() always ends: wherever the claimed entry stands (before the token has
\* begun, at a run boundary, in a cooldown, in a run), the stop reaches it.
StopEnds == stopper # "no" ~> host = "down"

\* An accepted cancel ends the entry, wherever it stands.
CancelEnds == \A e \in Entries : IsRunning(e) /\ reason = "cancel" ~> ~IsRunning(e)

\* release(): "the oldest queued entry is claimed at once, with no between-jobs
\* cooldown", even when the release lands before _wait_after reads the hold.
ReleaseClaims ==
  Up /\ skipWait /\ ~hold.held /\ Queued # {} ~>
    ~skipWait \/ hold.held \/ Queued = {} \/ stopEvent \/ ~Up

\* _final_state: an interrupted job "only ever reaches here because we asked
\* JobExecutor.cancel() for it".
InterruptedWasAsked ==
  pc = "finReason" /\ outcome = "interrupted" => reason # "none"

\* The rows tell the truth, through crashes and recoveries: one entry runs, it is
\* the claimed and the oldest one, a queued one never had a child, and the next
\* start would read the hold that stands.
RowsTrue == RunningIsClaimed /\ RunningIsOldest /\ HoldIsSaved /\ QueuedNeverRan

\* The reservation, the executor's park and the hold never come apart.
ParksTrue == ReservationMatchesToken /\ ParkKeepsHold

\* What a front end was promised happens: a stop ends the server, an accepted
\* cancel ends its entry, and a release lets the next entry start.
AskedEnds == StopEnds /\ CancelEnds /\ ReleaseClaims
==============================================================================
